---- MODULE MCProbePipeline ----
EXTENDS ProbePipeline, TLC

\* The three kinds of manifests there are: one that asks for whole enums, one
\* that asks for everything by name, and two manifests with the same names.
EnumNames(toml, hdr) == <<toml, hdr>>
GivenNames(toml, hdr) == toml
SameNames(toml, hdr) == "names"

\* Contents are only compared for equality.
Perms ==
  Permutations(Manifests) \cup Permutations(Headers) \cup Permutations(Commands)
    \cup Permutations(Tools)

\* So it does not matter which ones a behaviour begins with.  (The runs with
\* liveness use this in place of symmetry.)
MCInit ==
  /\ Init
  /\ src = [toml |-> CHOOSE t \in Manifests : TRUE, hdr |-> CHOOSE h \in Headers : TRUE,
            cmd |-> CHOOSE c \in Commands : TRUE, tool |-> CHOOSE v \in Tools : TRUE]

MCFairSpec == MCInit /\ [][Next]_vars /\ WF_vars(BuildStep) /\ WF_vars(StartBuild("all"))
====
