-------------------------- MODULE MCDirectiveQueue --------------------------
(***************************************************************************)
(* Small instances of DirectiveQueue for TLC.  d1 builds f1; d2 builds f2  *)
(* and in the chain instances requires f1; in the mixed instance d2 edits  *)
(* a file that is already there and declares no output.                    *)
(***************************************************************************)
EXTENDS DirectiveQueue

CONSTANTS d1, d2, f1, f2, s1, s2

Pair == {d1, d2}
Files == {f1, f2}

TwoFiles    == [d \in Pair |-> IF d = d1 THEN f1 ELSE f2]
FileAndEdit == [d \in Pair |-> IF d = d1 THEN f1 ELSE NoFile]

OwnNames  == [f \in Files |-> IF f = f1 THEN s1 ELSE s2]

NoRequires  == [d \in Pair |-> {}]
ChainOfTwo  == [d \in Pair |-> IF d = d2 THEN {f1} ELSE {}]
FanOutOrder == <<d1, d2>>
NoFanOut    == << >>
=============================================================================
