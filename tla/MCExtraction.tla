---------------------------- MODULE MCExtraction -----------------------------
(***************************************************************************)
(* Instances of Extraction for TLC.                                        *)
(***************************************************************************)
EXTENDS Extraction

\* Files 1 and 3 have bugs; 2 and 4 do not.
ThreeFiles == [f \in 1 .. 3 |-> IF f = 2 THEN 3 ELSE 1]
FourFiles == [f \in 1 .. 4 |-> IF f = 4 THEN 2 ELSE 1]
=============================================================================
