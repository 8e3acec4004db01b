----------------------------- MODULE MCHostTools -----------------------------
(***************************************************************************)
(* Manifests as in MCManifest, compiled units with up to two headers, and  *)
(* a kernel of two versions, two runs stopped, two chores between runs.    *)
(***************************************************************************)
EXTENDS HostTools, MCManifest

Prefix(names) == FlattenSeq([k \in DOMAIN names |-> <<names[k], "/">>])

\* kDefaultAllowPrefixes, kDefaultDenyPrefixes
MCAllow == {Prefix(<<"include", "generated", "iro">>), Prefix(<<"iro", "include">>)}
MCDeny ==
  {Prefix(<<"include", "linux">>), Prefix(<<"arch">>), <<"include", "/", "asm">>,
   <<"include", "/", "generated", "/", "asm">>}

Header(where, by, path) == [tree |-> where, by |-> by, path |-> path]

\* Straight, through this directory, through a sibling, with a slash too many.
Ways == {<<>>, <<".", "/">>, <<"iro", "/", "include", "/", ".", ".", "/", ".", ".", "/">>, <<"/">>}

SourcePaths ==
  {<<"include", "/", "linux", "/", "h">>, <<"include", "/", "asm", "-generic", "/", "h">>,
   <<"iro", "/", "include", "/", "arch", "/", "h">>, <<"arch", "/", "a", "space", "b">>,
   <<"iro", "/", "core", "/", "h">>}
ObjectPaths ==
  {<<"include", "/", "generated", "/", "asm", "/", "h">>,
   <<"include", "/", "generated", "/", "iro", "/", "h">>}

MCHeaders ==
  {Header("src", by, p) : by \in Ways, p \in SourcePaths}
    \cup {Header(t, by, p) : t \in {"obj", "./obj"}, by \in Ways \ {<<"/">>}, p \in ObjectPaths}
    \cup {Header("none", <<>>, <<"usr", "/", "include", "/", "linux", "/", "h">>),
          Header("src", <<>>, <<"iro", "/", "garbled">>)}

\* Kbuild builds in place, below the source tree, or elsewhere.
Unit(src, depfiles) == [srctree |-> src, objtree |-> <<".">>, depfiles |-> depfiles]
Depfile(readable, headers, break) == [readable |-> readable, headers |-> headers, break |-> break]

Trees == {<<".">>, <<".", ".">>, <<"/", "s">>}

MCUnits ==
  {Unit(src, <<Depfile(TRUE, <<g, h>>, 2)>>) : src \in Trees, g, h \in MCHeaders}
    \cup {Unit(<<".">>, <<Depfile(r, <<g>>, 1), Depfile(TRUE, <<h>>, 0)>>) :
            r \in BOOLEAN, g, h \in {x \in MCHeaders : x.by = <<>>}}
    \cup {Unit(<<".">>, <<Depfile(TRUE, <<>>, 0)>>)}
=============================================================================
