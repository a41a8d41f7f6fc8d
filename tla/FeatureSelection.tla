--------------------------- MODULE FeatureSelection --------------------------
(***************************************************************************)
(* performanceCalc.py: measures every feature column of allStats.txt by    *)
(* itself and writes allStats_infoGain.txt, the same table with its        *)
(* feature columns rearranged; then classify.py, which trains on the first *)
(* rows of either table and tests on those that follow.                    *)
(*                                                                         *)
(* Column 0 is Seq, columns 1 .. NumFeatures are the features and the one  *)
(* after them is Class.  A column is known by the column of allStats.txt   *)
(* it came from.  What scikit-learn's decision tree and metrics.infoGain   *)
(* make of a feature is a number, and any number is possible.  Neither is  *)
(* run with cross-validation (getStats.bash:45 and 54 pass 0 for it).      *)
(***************************************************************************)
EXTENDS SequencesExt, Integers

CONSTANTS
  NumFeatures, \* feature columns of allStats.txt
  MaxSamples,  \* bound: the samples (rows below the header) there may be
  PerClass,    \* the argument of performanceCalc.py, nTrain there
  TrainTotal,  \* the third argument of classify.py, nTrain there
  Gain         \* the values infoGain may have

ASSUME FeatureSelectionAssumption ==
  /\ NumFeatures \in Nat \ {0} /\ MaxSamples \in Nat
  /\ PerClass \in Nat /\ TrainTotal \in Nat
  /\ Gain \subseteq Int

VARIABLES
  sampleClass,       \* the classes of the samples: the Class column
  step,              \* "measure", "sort", "move", "classify", "done" or "failed"
  performanceTable,  \* a feature's ID and its gain, per feature measured
  j,                 \* the next column to move
  data_rearranged,   \* the column each column has come from
  read               \* samples that have had a part in the measuring

selectionVars == <<sampleClass, step, performanceTable, j, data_rearranged, read>>

Feature == 1 .. NumFeatures
Column == 0 .. NumFeatures + 1
Gains == [id : Feature, gain : Gain]

SelectionInit ==
  /\ sampleClass \in BoundedSeq({0, 1}, MaxSamples)
  /\ step = "measure"
  /\ performanceTable = <<>>
  /\ j = 1
  /\ data_rearranged = [c \in Column |-> c]
  /\ read = {}

Slice_ToEnd(nTrain) == DOMAIN sampleClass                                \* x = data[1:]
Slice_OneShort(nTrain) == {r \in DOMAIN sampleClass : r < 2 * nTrain}    \* a slip
\* x: the samples either program looks at, given its nTrain.
Slice(nTrain) == {r \in DOMAIN sampleClass : r <= 2 * nTrain}
\* x1 and x2: those it trains on, and those it tests on.
TrainRows(nTrain) == {r \in Slice(nTrain) : r <= nTrain}
TestRows(nTrain) == Slice(nTrain) \ TrainRows(nTrain)

\* scikit-learn raises an exception when there is nothing to train on or
\* nothing to test on.  A prediction is one of the classes trained on; when
\* prediction and truth are one class everywhere, confusion_matrix has a single
\* entry and infoGain, which looks for four, raises another.
CanSucceed(nTrain) ==
  LET trained == {sampleClass[r] : r \in TrainRows(nTrain)}
      tested == {sampleClass[r] : r \in TestRows(nTrain)}
  IN  trained # {} /\ tested # {} /\ Cardinality(trained \cup tested) = 2

CanFail(nTrain) ==
  LET trained == {sampleClass[r] : r \in TrainRows(nTrain)}
      tested == {sampleClass[r] : r \in TestRows(nTrain)}
  IN  trained = {} \/ (Cardinality(tested) < 2 /\ tested \subseteq trained)

\* The entry for the next feature, whose gain is g.
Measured(g) == [id |-> Len(performanceTable) + 1, gain |-> g]

\* One round of the loop that runs the tree on each feature alone.
MeasureFeature ==
  /\ step = "measure" /\ CanSucceed(PerClass)
  /\ \E g \in Gain :
       performanceTable' = Append(performanceTable, Measured(g))
  /\ read' = read \cup Slice(PerClass)
  /\ step' = IF Len(performanceTable) + 1 = NumFeatures THEN "sort" ELSE "measure"
  /\ UNCHANGED <<sampleClass, j, data_rearranged>>

MeasureFails ==
  /\ step = "measure" /\ CanFail(PerClass)
  /\ step' = "failed"
  /\ UNCHANGED <<sampleClass, performanceTable, j, data_rearranged, read>>

\* Python's sort is stable, and stays so under reverse=True.
Better(p, q) == p.gain > q.gain \/ (p.gain = q.gain /\ p.id < q.id)

\* The same entries, each better than those after it: there is one such table.
SortedTables(table) ==
  {sorted \in [DOMAIN table -> Range(table)] :
     /\ Range(sorted) = Range(table)
     /\ \A a, b \in DOMAIN table : a < b => Better(sorted[a], sorted[b])}

SortByGain ==
  /\ step = "sort"
  /\ performanceTable' \in SortedTables(performanceTable)
  /\ step' = "move"
  /\ UNCHANGED <<sampleClass, j, data_rearranged, read>>

\* The column of allStats.txt to put at j: Python's entry j is TLA+'s j + 1.
NextColumn_InPlace == data_rearranged[performanceTable[j + 1].id]   \* a slip
NextColumn == performanceTable[j + 1].id

\* One round of the loop over the table.
MoveColumn ==
  /\ step = "move" /\ j < NumFeatures
  /\ data_rearranged' = [data_rearranged EXCEPT ![j] = NextColumn]
  /\ j' = j + 1
  /\ UNCHANGED <<sampleClass, step, performanceTable, read>>

\* The table is complete; classify.py is next.
WriteTable ==
  /\ step = "move" /\ j >= NumFeatures
  /\ step' = "classify"
  /\ UNCHANGED <<sampleClass, performanceTable, j, data_rearranged, read>>

\* classify.py also computes the recall, which divides by the number of samples
\* of class 1 that are tested.
Positives == {r \in TestRows(TrainTotal) : sampleClass[r] = 1}

Classify ==
  /\ step = "classify"
  /\ \/ CanSucceed(TrainTotal) /\ Positives # {} /\ step' = "done"
     \/ (CanFail(TrainTotal) \/ Positives = {}) /\ step' = "failed"
  /\ UNCHANGED <<sampleClass, performanceTable, j, data_rearranged, read>>

SelectionNext ==
  \/ MeasureFeature \/ MeasureFails \/ SortByGain
  \/ MoveColumn \/ WriteTable \/ Classify

SelectionSpec == SelectionInit /\ [][SelectionNext]_selectionVars
-----------------------------------------------------------------------------
SelectionTypeOK ==
  /\ sampleClass \in BoundedSeq({0, 1}, MaxSamples)
  /\ step \in {"measure", "sort", "move", "classify", "done", "failed"}
  /\ performanceTable \in Seq(Gains) /\ Len(performanceTable) <= NumFeatures
  /\ j \in 1 .. NumFeatures
  /\ data_rearranged \in [Column -> Column]
  /\ read \subseteq 1 .. Len(sampleClass)

Written == step \in {"classify", "done"}

\* The gain measured for feature f, once all are.
GainOf(f) == performanceTable[CHOOSE k \in Feature : performanceTable[k].id = f].gain

\* Columns first .. last are in the order of their gains, equals as they were.
Descending(first, last) ==
  \A a, b \in first .. last : a < b =>
    LET f == data_rearranged[a]
        g == data_rearranged[b]
    IN  GainOf(f) > GainOf(g) \/ (GainOf(f) = GainOf(g) /\ f < g)

(***************************************************************************)
(* getStats.bash:42.  In the tables that performanceCalc.py generates the  *)
(* feature columns are sorted by the metric: each is there, best first.    *)
(***************************************************************************)
SortedByInfoGain ==
  Written => Descending(1, NumFeatures) /\ Feature \subseteq Range(data_rearranged)

(***************************************************************************)
(* What is true of the table written: its columns but the last are sorted, *)
(* equal gains left in the order they were in, and a feature that is in    *)
(* none of its columns has a gain that no feature exceeds.                 *)
(***************************************************************************)
SortedFromSecond ==
  Written =>
    /\ Descending(1, NumFeatures - 1)
    /\ \A f \in Feature \ Range(data_rearranged) :
         \A g \in Feature : GainOf(f) >= GainOf(g)

(***************************************************************************)
(* Run with PerClass samples of each class and classify.py with TrainTotal *)
(* of both together, as getStats.bash does, no sample that classify.py     *)
(* tests on has had a part in the order of the features.                   *)
(***************************************************************************)
SelectionBlind == read \cap TestRows(TrainTotal) = {}

SamplesAlternate == \A r \in DOMAIN sampleClass : r > 1 => sampleClass[r] # sampleClass[r - 1]

(***************************************************************************)
(* Two samples to test on are enough when the classes alternate, as the    *)
(* rows of a table made by extractFunctions.bash and getStats.bash do:     *)
(* every confusion matrix then has its four entries, whatever is predicted.*)
(***************************************************************************)
FailsOnlyIfShort ==
  step = "failed" /\ SamplesAlternate => Len(sampleClass) < TrainTotal + 2
=============================================================================
