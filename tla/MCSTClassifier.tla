--------------------------- MODULE MCSTClassifier ----------------------------
(***************************************************************************)
(* Instances of STClassifier for TLC.                                      *)
(***************************************************************************)
EXTENDS STClassifier

\* Every pair of small directories, empty ones included.
SmallSizes == (0 .. 4) \X (0 .. 3) \cup {<<4, 4>>}

\* A file that fits the spam tree, the ham tree, or both alike.
ThreeScores == {[spam |-> 2, ham |-> 1], [spam |-> 1, ham |-> 2], [spam |-> 1, ham |-> 1]}

\* Thresholds on both sides of 1, and those at which scores above tie.
SomeThresholds == <<1, 50, 100, 200>>
=============================================================================
