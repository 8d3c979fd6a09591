-------------------------- MODULE MCProducerOutbox --------------------------
(***************************************************************************)
(* Small instances of ProducerOutbox for TLC: three builds of one file, or *)
(* two builds of one file or of two.                                       *)
(***************************************************************************)
EXTENDS ProducerOutbox

CONSTANTS f1, f2, b1, b2, b3

OneFile  == {f1}
TwoFiles == {f1, f2}
Builds   == {b1, b2}
Three    == {b1, b2, b3}

SameFile == [b \in Builds |-> f1]
SameFileThree == [b \in Three |-> f1]
OwnFile  == [b \in Builds |-> IF b = b1 THEN f1 ELSE f2]

AllClean    == [b \in Builds |-> "clean"]
ThirdHollow  == [b \in Three |-> IF b = b3 THEN "hollow" ELSE "clean"]
FirstBlocked == [b \in Builds |-> IF b = b1 THEN "blocked" ELSE "clean"]

SecondBroken == {b2}
=============================================================================
