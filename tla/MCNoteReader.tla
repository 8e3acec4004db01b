---- MODULE MCNoteReader ----
EXTENDS NoteReader

(***************************************************************************)
(* Bytes nobody has checked: at every offset any of the values below may   *)
(* be found, around each limit and at the largest word.                    *)
(***************************************************************************)
MCFiles == {63, 191, 192, 208, 288}
MCSize(f) == f

Flawless(f) == [known |-> TRUE, shoff |-> 64, entsize |-> 64, num |-> 2, strndx |-> 1]
MCElfHeaders(f) ==
  [known : {TRUE}, shoff : {0, 1, 64, 500}, entsize : {63, 64, 255},
   num : {0, 1, 2, 3}, strndx : {0, 1, 2}]
    \cup {[Flawless(f) EXCEPT !.known = FALSE]}

MCSectionHeaders(f, at) ==
  [name : {0, 2}, note : BOOLEAN, at : {0, 192, 511}, size : {2, 11, 96, 255}]

MCNoteHeaders(f, at) ==
  [namesz : {0, 1, 4, 255}, descsz : {0, 1, 31, 32, 34, 36, 76, 80, 101}, iro : BOOLEAN]

MCDescHeaders(f, at) ==
  [known : {TRUE}, count : 0..3, set_len : {0, 1, 4, 5, 255}]
    \cup {[known |-> FALSE, count |-> 1, set_len |-> 1]}

Plain(size, t, n) ==
  [size |-> size, kind |-> "field", flags |-> {}, type_len |-> t, field_len |-> n,
   sizeof |-> 8, alignof |-> 8, reserved0 |-> 0, value |-> 0]

MCRecordHeaders(f, at) ==
  {Plain(s, t, n) : s \in {0, 39, 40, 42, 44, 48, 255}, t \in {0, 1, 3, 6, 255}, n \in {0, 1, 5, 255}}
    \cup {[Plain(44, 1, 1) EXCEPT !.kind = "other"], [Plain(44, 1, 1) EXCEPT !.reserved0 = 1],
          [Plain(44, 1, 1) EXCEPT !.flags = {"reserved"}], [Plain(44, 1, 1) EXCEPT !.kind = "const"]}

MCNames(f, at, len) == {"name", Garbled}
MCZeros(f, from, to) == BOOLEAN
====
