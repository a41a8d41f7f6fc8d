------------------------------ MODULE MCTables ------------------------------
\* Instances of Tables for TLC.
EXTENDS Tables

DatasetFiles == [d \in Dataset |-> IF d = "dataset1" THEN {1} ELSE {2, 3}]
TwoFeatures == <<"charDiversity2", "entropy0">>

UpTo(n) == UNION {[1 .. k -> {0, 1}] : k \in 0 .. n}
Alternating(n) == {[r \in 1 .. n |-> (r + first) % 2] : first \in {0, 1}}
CallsOf(script, classifier, folds, n, tables) ==
  {[program |-> script, classifierID |-> classifier, crossVal |-> folds, nTrain |-> n, y |-> t] : t \in tables}
\* Folds of up to two rows; a forest's ten rounds; two folds; none.
SomeCalls ==
  CallsOf("classify", 6, 4, 4, UpTo(5) \cup [1 .. 8 -> {0, 1}]) \cup
  CallsOf("classify_bruteforce", 5, 2, 3, UpTo(5) \cup Alternating(6)) \cup
  CallsOf("performanceCalc", 6, 2, 2, UpTo(4)) \cup
  CallsOf("classify_pca", 2, 0, 4, UpTo(8))
=============================================================================
