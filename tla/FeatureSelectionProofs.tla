------------------------ MODULE FeatureSelectionProofs -----------------------
(***************************************************************************)
(* The table of features, from getStats.bash to classify.py.  The order of *)
(* the features is made without the samples that classify.py tests on, for *)
(* every table and every pair of arguments that agree; and a result is of  *)
(* a table whose rows are each one function's, of this run.                *)
(***************************************************************************)
EXTENDS FeatureSelection, StatsPipeline, DataInduction, FunctionTheorems, SequenceTheorems, TLAPS

\* What has been read lies in the slice that the measuring is confined to.
ReadInSlice ==
  /\ read \subseteq Slice(PerClass)
  /\ DOMAIN sampleClass \subseteq Nat

\* Read is only ever added to from the slice, and the table does not change.
LEMMA ReadInSliceInvariant == SelectionSpec => []ReadInSlice
<1>1. SelectionInit => ReadInSlice
  <2> SUFFICES ASSUME SelectionInit PROVE DOMAIN sampleClass \subseteq Nat
    BY DEF SelectionInit, ReadInSlice
  <2>1. PICK m \in 0 .. MaxSamples : sampleClass \in [1 .. m -> {0, 1}]
    BY DEF SelectionInit, BoundedSeq, SeqOf
  <2> QED
    BY <2>1
<1>2. ReadInSlice /\ [SelectionNext]_selectionVars => ReadInSlice'
  <2> SUFFICES ASSUME ReadInSlice, [SelectionNext]_selectionVars PROVE ReadInSlice'
    OBVIOUS
  <2>0. sampleClass' = sampleClass
    BY DEF SelectionNext, selectionVars, MeasureFeature, MeasureFails, SortByGain, MoveColumn,
           WriteTable, Classify
  <2>1. read' \subseteq Slice(PerClass)
    BY DEF ReadInSlice, SelectionNext, selectionVars, MeasureFeature, MeasureFails, SortByGain,
           MoveColumn, WriteTable, Classify
  <2> QED
    BY <2>0, <2>1 DEF ReadInSlice, Slice
<1> QED
  BY <1>1, <1>2, PTL DEF SelectionSpec

(***************************************************************************)
(* SelectionBlind, which the run features checks on one pair of arguments, *)
(* holds whenever the samples that performanceCalc.py divides into two     *)
(* halves are all among those that classify.py trains on.                  *)
(***************************************************************************)
THEOREM Blindness ==
  ASSUME 2 * PerClass <= TrainTotal
  PROVE  SelectionSpec => []SelectionBlind
<1>1. ReadInSlice => SelectionBlind
  BY FeatureSelectionAssumption
     DEF ReadInSlice, SelectionBlind, Slice, TestRows, TrainRows
<1> QED
  BY <1>1, ReadInSliceInvariant, PTL

LEMMA PairHasTwo ==
  ASSUME NEW a, NEW b, a # b
  PROVE  Cardinality({a, b}) = 2
<1>1. IsFiniteSet({a}) /\ Cardinality({a}) = 1
  BY FS_Singleton
<1>2. Cardinality({a} \cup {b}) = 2
  BY <1>1, FS_AddElement
<1>3. {a} \cup {b} = {a, b}
  OBVIOUS
<1> QED
  BY <1>2, <1>3

LEMMA ClassesAreTwo == Cardinality({0, 1}) = 2
<1>1. 0 # 1
  OBVIOUS
<1> QED
  BY <1>1, PairHasTwo, Zenon

\* Two rows in succession among those tested have both classes.
LEMMA NeighboursSucceed ==
  ASSUME NEW n \in Nat, n >= 2, NEW m \in Nat, sampleClass \in [1 .. m -> {0, 1}], SamplesAlternate,
         m >= n + 2
  PROVE  ~CanFail(n) /\ \E r \in TestRows(n) : sampleClass[r] = 1
<1>1. DOMAIN sampleClass = 1 .. m /\ sampleClass[1] \in {0, 1} /\ sampleClass[n + 1] \in {0, 1} /\ sampleClass[n + 2] \in {0, 1}
  <2>1. 1 \in 1 .. m /\ n + 1 \in 1 .. m /\ n + 2 \in 1 .. m
    OBVIOUS
  <2> QED
    BY <2>1
<1>2. 1 \in TrainRows(n)
  BY <1>1 DEF TrainRows, Slice
<1>3. n + 1 \in TestRows(n) /\ n + 2 \in TestRows(n)
  BY <1>1 DEF TestRows, TrainRows, Slice
<1>4. sampleClass[n + 1] # sampleClass[n + 2]
  <2>1. n + 2 \in DOMAIN sampleClass /\ n + 2 > 1 /\ (n + 2) - 1 = n + 1
    BY <1>1
  <2> QED
    BY <2>1 DEF SamplesAlternate
<1> DEFINE trained == {sampleClass[r] : r \in TrainRows(n)}
           tested == {sampleClass[r] : r \in TestRows(n)}
<1>5. sampleClass[1] \in trained /\ sampleClass[n + 1] \in tested /\ sampleClass[n + 2] \in tested
  BY <1>2, <1>3
<1>6. tested \subseteq {0, 1}
  BY <1>1 DEF TestRows, Slice
<1>7. CanFail(n) <=> trained = {} \/ (Cardinality(tested) < 2 /\ tested \subseteq trained)
  BY DEF CanFail
<1>8. \A r \in TestRows(n) : sampleClass[r] \in tested
  OBVIOUS
<1> HIDE DEF trained
<1>9. Cardinality(tested) = 2
  <2> HIDE DEF tested
  <2>1. tested = {0, 1}
    BY <1>1, <1>4, <1>5, <1>6
  <2>2. Cardinality({0, 1}) = 2
    BY ClassesAreTwo
  <2> QED
    BY <2>1, <2>2
<1>10. \E r \in TestRows(n) : sampleClass[r] = 1
  BY <1>1, <1>3, <1>4
<1> QED
  BY <1>5, <1>7, <1>9, <1>10

\* What failed was too short.
FailedShort ==
  /\ \E m \in Nat : sampleClass \in [1 .. m -> {0, 1}]
  /\ FailsOnlyIfShort

(***************************************************************************)
(* FailsOnlyIfShort, for every number of features and of samples, when the *)
(* arguments agree and two samples of each class are asked for or more.    *)
(***************************************************************************)
THEOREM EnoughRows ==
  ASSUME PerClass >= 2, 2 * PerClass <= TrainTotal
  PROVE  SelectionSpec => []FailsOnlyIfShort
<1>1. SelectionInit => FailedShort
  <2> SUFFICES ASSUME SelectionInit PROVE FailedShort
    OBVIOUS
  <2>1. PICK m \in 0 .. MaxSamples : sampleClass \in [1 .. m -> {0, 1}]
    BY DEF SelectionInit, BoundedSeq, SeqOf
  <2> QED
    BY <2>1 DEF SelectionInit, FailedShort, FailsOnlyIfShort
<1>2. FailedShort /\ [SelectionNext]_selectionVars => FailedShort'
  <2> SUFFICES ASSUME FailedShort, [SelectionNext]_selectionVars PROVE FailedShort'
    OBVIOUS
  <2>1. sampleClass' = sampleClass /\ PerClass \in Nat /\ TrainTotal \in Nat
    BY FeatureSelectionAssumption
       DEF SelectionNext, selectionVars, MeasureFeature, MeasureFails, SortByGain, MoveColumn, WriteTable,
           Classify
  <2>2. PICK m \in Nat : sampleClass \in [1 .. m -> {0, 1}]
    BY DEF FailedShort
  <2>3. Len(sampleClass) = m
    BY <2>2
  <2>4. CASE step' = step
    BY <2>1, <2>4 DEF FailedShort, FailsOnlyIfShort, SamplesAlternate
  <2>5. CASE step' # "failed"
    BY <2>1, <2>5 DEF FailedShort, FailsOnlyIfShort
  <2>6. CASE CanFail(PerClass) \/ CanFail(TrainTotal) \/ Positives = {}
    <3>1. ASSUME SamplesAlternate, m >= TrainTotal + 2
          PROVE  FALSE
      <4>1. m >= PerClass + 2 /\ TrainTotal >= 2 /\ PerClass >= 2
        BY <2>1, <2>2, <3>1
      <4>2. ~CanFail(PerClass) /\ ~CanFail(TrainTotal) /\ Positives # {}
        BY <2>1, <2>2, <3>1, <4>1, NeighboursSucceed DEF Positives
      <4> QED
        BY <2>6, <4>2
    <3>2. SamplesAlternate' <=> SamplesAlternate
      BY <2>1 DEF SamplesAlternate
    <3> QED
      BY <2>1, <2>2, <2>3, <3>1, <3>2 DEF FailedShort, FailsOnlyIfShort
  <2> QED
    BY <2>4, <2>5, <2>6 DEF SelectionNext, selectionVars, MeasureFeature, MeasureFails, SortByGain,
                            MoveColumn, WriteTable, Classify
<1>3. FailedShort => FailsOnlyIfShort
  BY DEF FailedShort
<1> QED
  BY <1>1, <1>2, <1>3, PTL DEF SelectionSpec
-----------------------------------------------------------------------------
Sorting == step \in {"move", "classify", "done"}

\* The table while it is measured, once it is sorted, and the columns moved.
SortInv ==
  /\ j \in 1 .. NumFeatures
  /\ step \in {"measure", "sort", "move", "classify", "done", "failed"}
  /\ step = "measure" => Len(performanceTable) < NumFeatures
  /\ step = "sort" => Len(performanceTable) = NumFeatures
  /\ step \in {"measure", "sort"} =>
       /\ performanceTable \in Seq(Gains)
       /\ \A k \in DOMAIN performanceTable : performanceTable[k].id = k
       /\ j = 1
  /\ Sorting =>
       /\ performanceTable \in [Feature -> Gains]
       /\ \A f \in Feature : \E k \in Feature : performanceTable[k].id = f
       /\ \A a, b \in Feature : a < b => Better(performanceTable[a], performanceTable[b])
       /\ \A a, b \in Feature : a # b => performanceTable[a].id # performanceTable[b].id
  /\ data_rearranged = [c \in Column |-> IF 1 <= c /\ c < j THEN performanceTable[c + 1].id ELSE c]
  /\ Written => j = NumFeatures

LEMMA GainsAreNumbers ==
  ASSUME NEW p \in Gains
  PROVE  p.gain \in Int /\ p.id \in Int
<1>1. p.gain \in Gain /\ p.id \in Feature
  BY DEF Gains
<1>2. Gain \subseteq Int /\ Feature \subseteq Int
  BY FeatureSelectionAssumption DEF Feature
<1> QED
  BY <1>1, <1>2

\* Better is a strict order, and total where no two entries have one ID.
LEMMA BetterIsStrict ==
  /\ \A p \in Gains : ~ Better(p, p)
  /\ \A p, q \in Gains : p.id # q.id => Better(p, q) \/ Better(q, p)
  /\ \A p, q, r \in Gains : Better(p, q) /\ Better(q, r) => Better(p, r)
<1>1. ASSUME NEW p \in Gains
      PROVE  ~ Better(p, p)
  BY GainsAreNumbers DEF Better
<1>2. ASSUME NEW p \in Gains, NEW q \in Gains, p.id # q.id
      PROVE  Better(p, q) \/ Better(q, p)
  <2>1. p.gain \in Int /\ p.id \in Int /\ q.gain \in Int /\ q.id \in Int
    BY GainsAreNumbers
  <2> QED
    BY <1>2, <2>1 DEF Better
<1>3. ASSUME NEW p \in Gains, NEW q \in Gains, NEW r \in Gains, Better(p, q), Better(q, r)
      PROVE  Better(p, r)
  <2>1. /\ p.gain \in Int /\ p.id \in Int /\ q.gain \in Int /\ q.id \in Int
        /\ r.gain \in Int /\ r.id \in Int
    BY GainsAreNumbers
  <2> QED
    BY <1>3, <2>1 DEF Better
<1> QED
  BY <1>1, <1>2, <1>3

LEMMA SortNext ==
  ASSUME SortInv, [SelectionNext]_selectionVars
  PROVE  SortInv'
<1>1. NumFeatures \in Nat \ {0} /\ Gain \subseteq Int /\ Feature = 1 .. NumFeatures
  BY FeatureSelectionAssumption DEF Feature
<1>2. CASE UNCHANGED selectionVars
  BY <1>2 DEF selectionVars, SortInv, Sorting, Written
<1>3. CASE MeasureFeature
  <2>1. /\ step = "measure" /\ j' = j /\ data_rearranged' = data_rearranged
        /\ step' = IF Len(performanceTable) + 1 = NumFeatures THEN "sort" ELSE "measure"
    BY <1>3 DEF MeasureFeature
  <2>2. PICK g \in Gain : performanceTable' = Append(performanceTable, Measured(g))
    BY <1>3 DEF MeasureFeature
  <2>3. /\ performanceTable \in Seq(Gains) /\ Len(performanceTable) \in Nat
        /\ DOMAIN performanceTable = 1 .. Len(performanceTable)
        /\ Len(performanceTable) < NumFeatures
        /\ \A k \in DOMAIN performanceTable : performanceTable[k].id = k
        /\ j = 1
    BY <2>1, LenProperties DEF SortInv
  <2>4. Measured(g) \in Gains /\ Measured(g).id = Len(performanceTable) + 1
    BY <1>1, <2>3 DEF Measured, Gains
  <2>5. /\ performanceTable' \in Seq(Gains)
        /\ Len(performanceTable') = Len(performanceTable) + 1
        /\ \A k \in 1 .. Len(performanceTable) : performanceTable'[k] = performanceTable[k]
        /\ performanceTable'[Len(performanceTable) + 1] = Measured(g)
    BY <2>2, <2>3, <2>4, AppendProperties
  <2>6. DOMAIN performanceTable' = 1 .. Len(performanceTable) + 1
    BY <2>5, LenProperties
  <2>7. \A k \in DOMAIN performanceTable' : performanceTable'[k].id = k
    BY <2>3, <2>4, <2>5, <2>6
  <2>8. data_rearranged' = [c \in Column |-> c]
    BY <2>1, <2>3 DEF SortInv, Column
  <2>9. data_rearranged' = [c \in Column |->
          IF 1 <= c /\ c < j' THEN performanceTable'[c + 1].id ELSE c]
    BY <1>1, <2>1, <2>3, <2>8 DEF Column
  <2>10. step' \in {"sort", "measure"} /\ ~Sorting' /\ ~Written'
    BY <2>1 DEF Sorting, Written
  <2>11. /\ step' = "measure" => Len(performanceTable') < NumFeatures
         /\ step' = "sort" => Len(performanceTable') = NumFeatures
    BY <1>1, <2>1, <2>3, <2>5
  <2>12. j' \in 1 .. NumFeatures /\ j' = 1
    BY <1>1, <2>1, <2>3
  <2> QED
    BY <2>5, <2>7, <2>9, <2>10, <2>11, <2>12 DEF SortInv
<1>4. CASE MeasureFails
  BY <1>4 DEF MeasureFails, SortInv, Sorting, Written
<1>5. CASE SortByGain
  <2> DEFINE old == performanceTable
             new == performanceTable'
  <2>1. /\ step = "sort" /\ step' = "move" /\ j' = j /\ data_rearranged' = data_rearranged
        /\ new \in SortedTables(old)
    BY <1>5 DEF SortByGain
  <2>2. /\ old \in [Feature -> Gains] /\ \A k \in Feature : old[k].id = k
        /\ j = 1
    BY <1>1, <2>1, LenProperties DEF SortInv
  <2> HIDE DEF old, new
  <2>3. /\ new \in [Feature -> Range(old)] /\ Range(new) = Range(old)
        /\ \A a, b \in Feature : a < b => Better(new[a], new[b])
    BY <2>1, <2>2 DEF SortedTables
  <2>4. Range(old) \subseteq Gains /\ \A p, q \in Range(old) : p.id = q.id => p = q
    BY <2>2 DEF Range
  <2>5. new \in [Feature -> Gains]
    BY <2>3, <2>4
  <2>6. ASSUME NEW f \in Feature
        PROVE  \E k \in Feature : new[k].id = f
    <3>1. old[f] \in Range(new) /\ old[f].id = f
      BY <2>2, <2>3 DEF Range
    <3> QED
      BY <2>3, <3>1 DEF Range
  <2>7. ASSUME NEW a \in Feature, NEW b \in Feature, a # b
        PROVE  new[a].id # new[b].id
    <3>1. \A p \in Gains : ~ Better(p, p)
      BY BetterIsStrict
    <3>2. new[a] # new[b]
      <4>1. a < b \/ b < a
        BY <1>1, <2>7
      <4>2. new[a] \in Gains
        BY <2>5
      <4> QED
        BY <2>3, <3>1, <4>1, <4>2
    <3> QED
      BY <2>3, <2>4, <3>2
  <2>8. data_rearranged' = [c \in Column |->
          IF 1 <= c /\ c < j' THEN performanceTable'[c + 1].id ELSE c]
    <3>1. data_rearranged' = [c \in Column |-> c]
      BY <1>1, <2>1, <2>2 DEF SortInv, Column
    <3> QED
      BY <1>1, <2>1, <2>2, <3>1 DEF Column
  <2>9. j' \in 1 .. NumFeatures
    BY <1>1, <2>1, <2>2
  <2> QED
    BY <2>1, <2>3, <2>5, <2>6, <2>7, <2>8, <2>9 DEF SortInv, Written, new
<1>6. CASE MoveColumn
  <2>1. /\ step = "move" /\ step' = "move" /\ j < NumFeatures /\ j' = j + 1
        /\ performanceTable' = performanceTable
        /\ data_rearranged' = [data_rearranged EXCEPT ![j] = performanceTable[j + 1].id]
    BY <1>6 DEF MoveColumn, NextColumn
  <2>2. data_rearranged' = [c \in Column |->
          IF 1 <= c /\ c < j + 1 THEN performanceTable[c + 1].id ELSE c]
    <3>1. \A c \in Column : c \in Int
      BY <1>1 DEF Column
    <3>2. j \in 1 .. NumFeatures /\ j \in Column
      BY <1>1 DEF SortInv, Column
    <3>3. data_rearranged = [c \in Column |-> IF 1 <= c /\ c < j THEN performanceTable[c + 1].id ELSE c]
      BY DEF SortInv
    <3>4. \A c \in Column : (1 <= c /\ c < j + 1) <=> (1 <= c /\ c < j) \/ c = j
      BY <1>1, <3>1, <3>2
    <3> QED
      BY <2>1, <3>2, <3>3, <3>4
  <2>3. j' \in 1 .. NumFeatures
    BY <1>1, <2>1 DEF SortInv
  <2> QED
    BY <2>1, <2>2, <2>3 DEF SortInv, Sorting, Written
<1>7. CASE WriteTable
  <2>1. j = NumFeatures
    BY <1>1, <1>7 DEF WriteTable, SortInv
  <2> QED
    BY <1>7, <2>1 DEF WriteTable, SortInv, Sorting, Written
<1>8. CASE Classify
  <2>1. step = "classify" /\ step' \in {"done", "failed"} /\ UNCHANGED <<performanceTable, j, data_rearranged>>
    BY <1>8 DEF Classify
  <2> QED
    BY <2>1 DEF SortInv, Sorting, Written
<1> QED
  BY <1>2, <1>3, <1>4, <1>5, <1>6, <1>7, <1>8 DEF SelectionNext

LEMMA SortInvImplies ==
  ASSUME SortInv
  PROVE  SortedFromSecond
<1> SUFFICES ASSUME Written
             PROVE  /\ Descending(1, NumFeatures - 1)
                    /\ \A f \in Feature \ Range(data_rearranged) :
                         \A g \in Feature : GainOf(f) >= GainOf(g)
  BY DEF SortedFromSecond
<1>1. /\ NumFeatures \in Nat \ {0} /\ Gain \subseteq Int /\ Feature = 1 .. NumFeatures
      /\ Column = 0 .. NumFeatures + 1
  BY FeatureSelectionAssumption DEF Feature, Column
<1>2. /\ performanceTable \in [Feature -> Gains]
      /\ \A f \in Feature : \E k \in Feature : performanceTable[k].id = f
      /\ \A a, b \in Feature : a < b => Better(performanceTable[a], performanceTable[b])
      /\ \A a, b \in Feature : a # b => performanceTable[a].id # performanceTable[b].id
      /\ j = NumFeatures
  BY DEF SortInv, Written, Sorting
<1>3. \A k \in Feature : /\ performanceTable[k].gain \in Int /\ performanceTable[k].id \in Feature
                         /\ GainOf(performanceTable[k].id) = performanceTable[k].gain
  <2> TAKE k \in Feature
  <2>1. performanceTable[k].gain \in Int /\ performanceTable[k].id \in Feature
    BY <1>1, <1>2 DEF Gains
  <2>2. k = CHOOSE l \in Feature : performanceTable[l].id = performanceTable[k].id
    BY <1>2
  <2> QED
    BY <2>1, <2>2 DEF GainOf
<1>4. \A c \in 1 .. NumFeatures - 1 : /\ c \in Column /\ c + 1 \in Feature
                                     /\ data_rearranged[c] = performanceTable[c + 1].id
  <2> TAKE c \in 1 .. NumFeatures - 1
  <2>1. c \in Column /\ c + 1 \in Feature /\ 1 <= c /\ c < NumFeatures
    BY <1>1
  <2> QED
    BY <1>2, <2>1 DEF SortInv
<1>5. Descending(1, NumFeatures - 1)
  <2> SUFFICES ASSUME NEW a \in 1 .. NumFeatures - 1, NEW b \in 1 .. NumFeatures - 1, a < b
               PROVE  LET f == data_rearranged[a]
                          g == data_rearranged[b]
                      IN  GainOf(f) > GainOf(g) \/ (GainOf(f) = GainOf(g) /\ f < g)
    BY DEF Descending
  <2>1. Better(performanceTable[a + 1], performanceTable[b + 1])
    <3>1. a + 1 \in Feature /\ b + 1 \in Feature /\ a + 1 < b + 1
      BY <1>1
    <3> QED
      BY <1>2, <3>1
  <2> QED
    BY <1>3, <1>4, <2>1 DEF Better
<1>6. ASSUME NEW f \in Feature \ Range(data_rearranged), NEW g \in Feature
      PROVE  GainOf(f) >= GainOf(g)
  <2>1. PICK k \in Feature : performanceTable[k].id = f
    BY <1>2
  <2>2. PICK l \in Feature : performanceTable[l].id = g
    BY <1>2
  <2>3. k = 1
    <3> SUFFICES ASSUME k # 1 PROVE FALSE
      OBVIOUS
    <3>1. k - 1 \in 1 .. NumFeatures - 1 /\ (k - 1) + 1 = k
      BY <1>1
    <3>2. k - 1 \in Column /\ data_rearranged[k - 1] = f
      BY <1>4, <2>1, <3>1
    <3>3. DOMAIN data_rearranged = Column
      BY DEF SortInv
    <3> QED
      BY <1>6, <3>2, <3>3 DEF Range
  <2>4. CASE l = k
    BY <1>3, <2>1, <2>2, <2>4
  <2>5. CASE l # k
    <3>1. k < l
      BY <1>1, <2>3, <2>5
    <3>2. Better(performanceTable[k], performanceTable[l])
      BY <1>2, <3>1
    <3>3. GainOf(f) = performanceTable[k].gain /\ GainOf(g) = performanceTable[l].gain
      BY <1>3, <2>1, <2>2
    <3>4. performanceTable[k].gain \in Int /\ performanceTable[l].gain \in Int
      BY <1>3
    <3> QED
      BY <3>2, <3>3, <3>4 DEF Better
  <2> QED
    BY <2>4, <2>5
<1> QED
  BY <1>5, <1>6

(***************************************************************************)
(* The table that performanceCalc.py writes has its columns but the last   *)
(* in the order of their gains, and only a best feature can be missing     *)
(* from it: for any number of features and any gains.                      *)
(***************************************************************************)
THEOREM BestFeatureMayBeMissing == SelectionSpec => []SortedFromSecond
<1>1. SelectionInit => SortInv
  <2> SUFFICES ASSUME SelectionInit PROVE SortInv
    OBVIOUS
  <2>1. /\ step = "measure" /\ performanceTable = <<>> /\ j = 1
        /\ data_rearranged = [c \in Column |-> c]
    BY DEF SelectionInit
  <2>2. NumFeatures \in Nat \ {0}
    BY FeatureSelectionAssumption
  <2>3. performanceTable \in Seq(Gains) /\ Len(performanceTable) = 0 /\ DOMAIN performanceTable = {}
    BY <2>1, EmptySeq
  <2>4. data_rearranged = [c \in Column |-> IF 1 <= c /\ c < j THEN performanceTable[c + 1].id ELSE c]
    BY <2>1, <2>2 DEF Column
  <2> QED
    BY <2>1, <2>2, <2>3, <2>4 DEF SortInv, Sorting, Written
<1>2. SortInv /\ [SelectionNext]_selectionVars => SortInv'
  BY SortNext
<1>3. SortInv => SortedFromSecond
  BY SortInvImplies
<1> QED
  BY <1>1, <1>2, <1>3, PTL DEF SelectionSpec
-----------------------------------------------------------------------------
\* The features that are no better than p.
NoBetter(p, E) == {q \in E : q = p \/ Better(p, q)}

\* Of finitely many different features one is worse than all others.
LEMMA WorstExists ==
  ASSUME NEW E \in SUBSET Gains, IsFiniteSet(E), E # {},
         \A p, q \in E : p.id = q.id => p = q
  PROVE  \E w \in E : \A p \in E : p # w => Better(p, w)
<1> DEFINE T == {V \in SUBSET E : \E p \in E : V = NoBetter(p, E)}
<1>1. \A p, q \in E : p # q => Better(p, q) \/ Better(q, p)
  BY BetterIsStrict
<1>2. \A p, q, r \in E : Better(p, q) /\ Better(q, r) => Better(p, r)
  BY BetterIsStrict
<1>3. PICK U \in T : \A V \in T : V \subseteq U => V = U
  <2>1. T \subseteq SUBSET E /\ T # {}
    <3>1. \A p \in E : NoBetter(p, E) \in SUBSET E
      BY DEF NoBetter
    <3>2. \A p \in E : NoBetter(p, E) \in T
      BY <3>1
    <3> QED
      BY <3>2
  <2> HIDE DEF T
  <2> QED
    BY <2>1, SmallestSet
<1>4. PICK w \in E : U = NoBetter(w, E)
  BY <1>3
<1>5. \A p \in E : NoBetter(p, E) \in T
  BY DEF NoBetter
<1> HIDE DEF T
<1>6. ASSUME NEW p \in E, p # w
      PROVE  Better(p, w)
  <2> SUFFICES ASSUME ~ Better(p, w) PROVE FALSE
    OBVIOUS
  <2>1. Better(w, p)
    BY <1>1, <1>6
  <2>2. NoBetter(p, E) \subseteq NoBetter(w, E)
    <3> SUFFICES ASSUME NEW q \in NoBetter(p, E) PROVE q \in NoBetter(w, E)
      OBVIOUS
    <3>1. q \in E /\ (q = p \/ Better(p, q))
      BY DEF NoBetter
    <3>2. q = w \/ Better(w, q)
      BY <1>2, <2>1, <3>1
    <3> QED
      BY <3>1, <3>2 DEF NoBetter
  <2>3. NoBetter(p, E) = NoBetter(w, E)
    BY <1>3, <1>4, <1>5, <2>2
  <2>4. w \in NoBetter(p, E)
    BY <2>3 DEF NoBetter
  <2> QED
    BY <1>6, <2>4 DEF NoBetter
<1> QED
  BY <1>6

\* Finitely many different features can be put in order.
LEMMA EveryTableCanBeSorted ==
  ASSUME NEW n \in Nat
  PROVE  \A E \in SUBSET Gains :
           IsFiniteSet(E) /\ Cardinality(E) = n /\ (\A p, q \in E : p.id = q.id => p = q) =>
             \E s \in [1 .. n -> E] : /\ \A p \in E : \E k \in 1 .. n : s[k] = p
                                      /\ \A a, b \in 1 .. n : a < b => Better(s[a], s[b])
<1> DEFINE Distinct(E) == \A p, q \in E : p.id = q.id => p = q
           SortedAs(E, m, s) == /\ \A p \in E : \E k \in 1 .. m : s[k] = p
                                /\ \A a, b \in 1 .. m : a < b => Better(s[a], s[b])
           Can(m) == \A E \in SUBSET Gains :
                       IsFiniteSet(E) /\ Cardinality(E) = m /\ Distinct(E) =>
                         \E s \in [1 .. m -> E] : SortedAs(E, m, s)
           T == {m \in Nat : Can(m)}
<1>1. 0 \in T
  <2> SUFFICES ASSUME NEW E \in SUBSET Gains, IsFiniteSet(E), Cardinality(E) = 0
               PROVE  \E s \in [1 .. 0 -> E] : SortedAs(E, 0, s)
    OBVIOUS
  <2>1. E = {}
    BY FS_EmptySet
  <2>2. 1 .. 0 = {}
    OBVIOUS
  <2>3. [x \in {} |-> x] \in [1 .. 0 -> E] /\ SortedAs(E, 0, [x \in {} |-> x])
    BY <2>1, <2>2
  <2> QED
    BY <2>3
<1>2. ASSUME NEW m \in Nat, m \in T
      PROVE  m + 1 \in T
  <2> SUFFICES ASSUME NEW E \in SUBSET Gains, IsFiniteSet(E), Cardinality(E) = m + 1, Distinct(E)
               PROVE  \E s \in [1 .. m + 1 -> E] : SortedAs(E, m + 1, s)
    OBVIOUS
  <2>1. E # {}
    BY FS_EmptySet
  <2>2. PICK w \in E : \A p \in E : p # w => Better(p, w)
    BY <2>1, WorstExists
  <2> DEFINE R == E \ {w}
  <2>3. IsFiniteSet(R) /\ Cardinality(R) = m
    <3>1. IsFiniteSet(R) /\ Cardinality(R) = Cardinality(E) - 1
      BY FS_RemoveElement
    <3>2. (m + 1) - 1 = m
      OBVIOUS
    <3> QED
      BY <3>1, <3>2
  <2>4. R \in SUBSET Gains /\ Distinct(R)
    OBVIOUS
  <2>5. PICK s \in [1 .. m -> R] : SortedAs(R, m, s)
    BY <1>2, <2>3, <2>4
  <2> DEFINE t == [k \in 1 .. m + 1 |-> IF k = m + 1 THEN w ELSE s[k]]
  <2>6. \A k \in 1 .. m + 1 : k # m + 1 => k \in 1 .. m
    OBVIOUS
  <2>7. t \in [1 .. m + 1 -> E]
    BY <2>6
  <2>8. ASSUME NEW p \in E
        PROVE  \E k \in 1 .. m + 1 : t[k] = p
    <3>1. CASE p = w
      <4>1. m + 1 \in 1 .. m + 1
        OBVIOUS
      <4> QED
        BY <3>1, <4>1
    <3>2. CASE p # w
      <4>1. PICK k \in 1 .. m : s[k] = p
        BY <2>5, <3>2
      <4>2. k \in 1 .. m + 1 /\ k # m + 1
        OBVIOUS
      <4> QED
        BY <4>1, <4>2
    <3> QED
      BY <3>1, <3>2
  <2>9. ASSUME NEW a \in 1 .. m + 1, NEW b \in 1 .. m + 1, a < b
        PROVE  Better(t[a], t[b])
    <3>1. a \in 1 .. m /\ a # m + 1
      BY <2>9
    <3>2. t[a] = s[a] /\ s[a] \in R
      BY <3>1
    <3>3. CASE b = m + 1
      BY <2>2, <3>2, <3>3
    <3>4. CASE b # m + 1
      <4>1. b \in 1 .. m /\ t[b] = s[b]
        BY <3>4
      <4>2. Better(s[a], s[b])
        BY <2>5, <2>9, <3>1, <4>1
      <4> QED
        BY <3>2, <4>1, <4>2
    <3> QED
      BY <3>3, <3>4
  <2>10. SortedAs(E, m + 1, t)
    BY <2>8, <2>9
  <2> QED
    BY <2>7, <2>10
<1>3. Nat \subseteq T
  <2> HIDE DEF T
  <2> QED
    BY <1>1, <1>2, CountingUp
<1> QED
  BY <1>3

\* The table that SortByGain writes exists, whatever the gains: the step is never
\* blocked.
LEMMA SortIsDefined ==
  ASSUME SortInv, step = "sort"
  PROVE  SortedTables(performanceTable) # {}
<1> DEFINE n == NumFeatures
           table == performanceTable
           E == Range(table)
<1>1. n \in Nat /\ table \in Seq(Gains) /\ Len(table) = n /\ DOMAIN table = 1 .. n
  BY FeatureSelectionAssumption, LenProperties DEF SortInv
<1>2. \A k \in 1 .. n : table[k].id = k /\ table[k] \in Gains
  BY <1>1, ElementOfSeq DEF SortInv
<1> HIDE DEF n, table
<1>3. /\ E \in SUBSET Gains
      /\ \A p, q \in E : p.id = q.id => p = q
  BY <1>1, <1>2 DEF Range
<1>4. table \in Bijection(1 .. n, E)
  <2>1. table \in [1 .. n -> E]
    <3>1. table \in [1 .. n -> Gains]
      BY <1>1, LenProperties
    <3> QED
      BY <3>1 DEF Range
  <2>2. \A a, b \in 1 .. n : table[a] = table[b] => a = b
    BY <1>2
  <2>3. \A p \in E : \E k \in 1 .. n : table[k] = p
    BY <1>1 DEF Range
  <2> QED
    BY <2>1, <2>2, <2>3, Fun_IsBij
<1>5. IsFiniteSet(E) /\ Cardinality(E) = n
  <2>1. IsFiniteSet(1 .. n) /\ Cardinality(1 .. n) = n
    BY <1>1, FS_Interval
  <2> QED
    BY <1>4, <2>1, FS_Bijection DEF ExistsBijection
<1>6. PICK s \in [1 .. n -> E] : /\ \A p \in E : \E k \in 1 .. n : s[k] = p
                                 /\ \A a, b \in 1 .. n : a < b => Better(s[a], s[b])
  <2> HIDE DEF E
  <2> QED
    BY <1>1, <1>3, <1>5, EveryTableCanBeSorted
<1>7. Range(s) = E
  BY <1>6 DEF Range
<1>8. s \in SortedTables(table)
  BY <1>1, <1>6, <1>7 DEF SortedTables
<1> QED
  BY <1>8 DEF table
-----------------------------------------------------------------------------
(***************************************************************************)
(* getStats.bash.  While it runs, every column it has written is of the    *)
(* functions in extractedFunctions/ from the first on, as far as its       *)
(* script came; only a seqColumn or yColumn may be another's, when its     *)
(* script has not come to open it.                                         *)
(***************************************************************************)
Begun(c) == \E n \in 0 .. Len(FullColumn) : stats[c] = SubSeq(FullColumn, 1, n)

DirectoryInv ==
  /\ directory \in [Dataset \cup {Extracted} -> SUBSET (Nat \ {Header})]
  /\ \A d \in Dataset \cup {Extracted} : IsFiniteSet(directory[d])
  /\ line \in {"rm", "cp"} => argument \in Dataset \cup {Extracted}

ColumnInv ==
  /\ DOMAIN stats \subseteq StatsColumn
  /\ \E b \in Nat : \A c \in DOMAIN stats : Len(stats[c]) \in 0 .. b
  /\ pending \subseteq selected /\ selected \subseteq Range(FeatureScripts)
  /\ line \in {"rm", "cp", "yColumn", "seqColumn"} => DOMAIN stats \cap Range(FeatureScripts) = {}
  /\ line = "seqColumn" => ("yColumn" \in DOMAIN stats \ unopened => Begun("yColumn"))
  /\ line = "features" =>
       /\ DOMAIN stats \subseteq selected \cup {"seqColumn", "yColumn"}
       /\ \A c \in DOMAIN stats : c \in Range(FeatureScripts) \/ c \notin unopened => Begun(c)

\* ResultAligned and ResultIsFresh, of any table.
Aligned(rows) ==
  /\ \A r \in DOMAIN rows : \A k \in DOMAIN rows[r] : rows[r][k].column = rows[1][k].column
  /\ \A r \in DOMAIN rows : \A k, l \in DOMAIN rows[r] :
       {rows[r][k].column, rows[r][l].column} \subseteq Range(FeatureScripts) =>
         rows[r][k].of = rows[r][l].of
  /\ rows # <<>> /\ Last(FeatureScripts) \in ColumnsOf(rows) \ Integral =>
       Last(rows[1]).column = "yColumn"

Current(rows) ==
  \A r \in DOMAIN rows : \A k \in DOMAIN rows[r] :
    rows[r][k].column \notin unopened => IsFresh(rows[r][k], r)

TableInv ==
  /\ line \in {"performanceCalc", "classify"} /\ IsMeasurable(allStats) =>
       Aligned(allStats) /\ Current(allStats)
  /\ line = "classify" => infoGain \in {allStats, <<>>} \/ "performanceCalc" \in unopened
  /\ IsMeasurable(infoGain) => Aligned(infoGain)
  /\ ResultAligned

\* The column of the functions in extractedFunctions/.
LEMMA FullColumnType ==
  ASSUME DirectoryInv
  PROVE  /\ FullColumn \in Seq(directory[Extracted] \cup {Header}) /\ Len(FullColumn) \in Nat
         /\ \A n \in 0 .. Len(FullColumn) :
              /\ Len(SubSeq(FullColumn, 1, n)) = n
              /\ \A r \in 1 .. n : SubSeq(FullColumn, 1, n)[r] = FullColumn[r]
<1> DEFINE S == directory[Extracted]
           T == S \cup {Header}
<1>1. IsFiniteSet(S) /\ S \subseteq Int
  BY DEF DirectoryInv
<1>2. Ascending(S) \in [1 .. Cardinality(S) -> S] /\ Cardinality(S) \in Nat
  BY <1>1, AscendingProperties
<1>3. Ascending(S) \in Seq(T)
  <2>1. Ascending(S) \in [1 .. Cardinality(S) -> T]
    BY <1>2
  <2> QED
    BY <1>2, <2>1, SeqDef
<1>4. <<Header>> \in Seq(T)
  OBVIOUS
<1>5. FullColumn \in Seq(T)
  BY <1>3, <1>4, ConcatProperties DEF FullColumn
<1> HIDE DEF S, T
<1>6. Len(FullColumn) \in Nat
  BY <1>5, LenProperties
<1>7. ASSUME NEW n \in 0 .. Len(FullColumn)
      PROVE  /\ Len(SubSeq(FullColumn, 1, n)) = n
             /\ \A r \in 1 .. n : SubSeq(FullColumn, 1, n)[r] = FullColumn[r]
  <2>1. n \in 1 - 1 .. Len(FullColumn)
    BY <1>6
  <2> QED
    BY <1>5, <1>6, <2>1, SubSeqProperties
<1> QED
  BY <1>5, <1>6, <1>7 DEF S, T

\* The order of paste: the features, in theirs, between the two other columns.
LEMMA PasteOrderProperties ==
  LET n == Len(FeatureScripts) IN
    /\ n \in Nat /\ DOMAIN PasteOrder = 1 .. n + 2
    /\ \A k \in 1 .. n : PasteOrder[k + 1] = FeatureScripts[k] /\ FeatureScripts[k] \in Range(FeatureScripts)
    /\ PasteOrder[1] = "seqColumn" /\ PasteOrder[n + 2] = "yColumn"
    /\ \A p, q \in DOMAIN PasteOrder : PasteOrder[p] = PasteOrder[q] => p = q
<1> DEFINE n == Len(FeatureScripts)
           F == Range(FeatureScripts)
           T == F \cup {"seqColumn", "yColumn"}
<1>1. /\ FeatureScripts \in Seq(F) /\ n \in Nat /\ DOMAIN FeatureScripts = 1 .. n
      /\ \A k \in 1 .. n : FeatureScripts[k] \in F
      /\ \A i, k \in 1 .. n : FeatureScripts[i] = FeatureScripts[k] => i = k
      /\ "seqColumn" \notin F /\ "yColumn" \notin F
  BY StatsPipelineAssumption, LenProperties DEF IsInjective, Range
<1>2. FeatureScripts \in Seq(T) /\ <<"seqColumn">> \in Seq(T) /\ <<"yColumn">> \in Seq(T)
  BY <1>1, SeqMonotonic
<1> HIDE DEF F, T, n
<1> DEFINE front == <<"seqColumn">> \o FeatureScripts
<1>3. /\ front \in Seq(T) /\ Len(front) = n + 1 /\ front[1] = "seqColumn"
      /\ \A k \in 1 .. n : front[k + 1] = FeatureScripts[k]
  <2>1. Len(<<"seqColumn">>) = 1 /\ <<"seqColumn">>[1] = "seqColumn"
    OBVIOUS
  <2>2. /\ front \in Seq(T) /\ Len(front) = 1 + n
        /\ \A i \in 1 .. 1 + n : front[i] = IF i <= 1 THEN <<"seqColumn">>[i] ELSE FeatureScripts[i - 1]
    BY <1>2, <2>1, ConcatProperties DEF n
  <2>3. ASSUME NEW k \in 1 .. n PROVE front[k + 1] = FeatureScripts[k]
    <3>1. k + 1 \in 1 .. 1 + n /\ ~ (k + 1 <= 1) /\ (k + 1) - 1 = k
      BY <1>1
    <3> QED
      BY <2>2, <3>1
  <2>4. 1 \in 1 .. 1 + n
    BY <1>1
  <2> QED
    BY <1>1, <2>1, <2>2, <2>3, <2>4
<1> HIDE DEF front
<1>4. /\ PasteOrder \in Seq(T) /\ Len(PasteOrder) = n + 2
      /\ \A i \in 1 .. n + 1 : PasteOrder[i] = front[i]
      /\ PasteOrder[n + 2] = "yColumn"
  <2>1. Len(<<"yColumn">>) = 1 /\ <<"yColumn">>[1] = "yColumn" /\ PasteOrder = front \o <<"yColumn">>
    BY DEF PasteOrder, front
  <2>2. /\ PasteOrder \in Seq(T) /\ Len(PasteOrder) = (n + 1) + 1
        /\ \A i \in 1 .. (n + 1) + 1 : PasteOrder[i] = IF i <= n + 1 THEN front[i] ELSE <<"yColumn">>[i - (n + 1)]
    BY <1>2, <1>3, <2>1, ConcatProperties
  <2>3. n + 2 \in 1 .. (n + 1) + 1 /\ ~ (n + 2 <= n + 1) /\ (n + 2) - (n + 1) = 1
    BY <1>1
  <2>4. \A i \in 1 .. n + 1 : i \in 1 .. (n + 1) + 1 /\ i <= n + 1
    BY <1>1
  <2> QED
    BY <1>1, <2>1, <2>2, <2>3, <2>4
<1>5. DOMAIN PasteOrder = 1 .. n + 2
  BY <1>4, LenProperties
<1>6. /\ \A k \in 1 .. n : PasteOrder[k + 1] = FeatureScripts[k] /\ FeatureScripts[k] \in F
      /\ PasteOrder[1] = "seqColumn"
  BY <1>1, <1>3, <1>4
<1>7. \A p \in 1 .. n + 2 : p = 1 \/ p = n + 2 \/ (p - 1 \in 1 .. n /\ p = (p - 1) + 1)
  BY <1>1
<1>8. ASSUME NEW p \in 1 .. n + 2, NEW q \in 1 .. n + 2, PasteOrder[p] = PasteOrder[q]
      PROVE  p = q
  <2>1. \A i \in 1 .. n + 2 : i = 1 \/ i = n + 2 \/ \E k \in 1 .. n : i = k + 1
    BY <1>7
  <2>2. \A i \in 1 .. n + 2 :
          \/ i = 1 /\ PasteOrder[i] = "seqColumn"
          \/ i = n + 2 /\ PasteOrder[i] = "yColumn"
          \/ \E k \in 1 .. n : i = k + 1 /\ PasteOrder[i] = FeatureScripts[k] /\ PasteOrder[i] \in F
    BY <1>4, <1>6, <2>1
  <2> QED
    BY <1>1, <1>8, <2>2
<1> QED
  BY <1>1, <1>4, <1>5, <1>6, <1>8 DEF n, F

\* The files that have an r-th row, by their places on paste's command line.
PlacesWith(r) ==
  {p \in DOMAIN PasteOrder : PasteOrder[p] \in DOMAIN stats /\ r <= Len(stats[PasteOrder[p]])}

LEMMA PastedRowProperties ==
  ASSUME NEW r
  PROVE  LET P == PlacesWith(r) IN
           /\ P \subseteq Int /\ IsFiniteSet(P) /\ P \subseteq DOMAIN PasteOrder
           /\ Cardinality(P) \in Nat
           /\ DOMAIN PastedRow(r) = 1 .. Cardinality(P) /\ Len(PastedRow(r)) = Cardinality(P)
           /\ \A k \in 1 .. Cardinality(P) :
                /\ Ascending(P)[k] \in P
                /\ PastedRow(r)[k].column = PasteOrder[Ascending(P)[k]]
                /\ PastedRow(r)[k].of = stats[PasteOrder[Ascending(P)[k]]][r]
<1> DEFINE P == PlacesWith(r)
           there == Picked(PasteOrder, P)
<1>1. P \subseteq DOMAIN PasteOrder
  BY DEF PlacesWith
<1>2. DOMAIN PasteOrder \subseteq Int /\ IsFiniteSet(DOMAIN PasteOrder)
  BY PasteOrderProperties, FS_Interval
<1>3. P \subseteq Int /\ IsFiniteSet(P)
  BY <1>1, <1>2, FS_Subset
<1>4. PastedRow(r) = [k \in DOMAIN there |-> [column |-> there[k], of |-> stats[there[k]][r]]]
  BY DEF PastedRow, PlacesWith
<1> HIDE DEF P
<1>5. /\ Cardinality(P) \in Nat
      /\ DOMAIN there = 1 .. Cardinality(P)
      /\ \A k \in 1 .. Cardinality(P) : Ascending(P)[k] \in P /\ there[k] = PasteOrder[Ascending(P)[k]]
  BY <1>3, PickedProperties
<1> HIDE DEF there
<1>6. DOMAIN PastedRow(r) = 1 .. Cardinality(P) /\ Len(PastedRow(r)) = Cardinality(P)
  BY <1>4, <1>5
<1>7. \A k \in 1 .. Cardinality(P) : /\ PastedRow(r)[k].column = PasteOrder[Ascending(P)[k]]
                                     /\ PastedRow(r)[k].of = stats[PasteOrder[Ascending(P)[k]]][r]
  BY <1>4, <1>5
<1> QED
  BY <1>1, <1>3, <1>5, <1>6, <1>7 DEF P

\* A column that a script of this run has begun is that of the functions there are.
Trusted(c) == c \in Range(FeatureScripts) \/ c \notin unopened

\* A table that performanceCalc.py accepts is aligned: rows get shorter only, so
\* that all are from the same files.
LEMMA PasteAligns ==
  ASSUME DirectoryInv, ColumnInv, line = "features",
         DOMAIN stats \cap Range(FeatureScripts) # {},
         NEW m \in Nat, NEW rows, rows = [r \in 1 .. m |-> PastedRow(r)], IsMeasurable(rows)
  PROVE  Aligned(rows) /\ Current(rows)
<1> DEFINE P == PlacesWith(1)
           n == Cardinality(P)
           A == Ascending(P)
<1>1. /\ DOMAIN rows = 1 .. m /\ Len(rows) = m /\ 1 \in 1 .. m
      /\ \A r \in 1 .. m : rows[r] = PastedRow(r) /\ Len(rows[r]) = Len(rows[1])
      /\ Last(rows[1]).column \in Integral \cup {"seqColumn", "yColumn"}
  BY DEF IsMeasurable, IsSplit, IsTable
<1>2. \A c \in DOMAIN stats :
        /\ Len(stats[c]) \in Nat
        /\ Trusted(c) => \A r \in 1 .. Len(stats[c]) : stats[c][r] = FullColumn[r] /\ r \in DOMAIN FullColumn
  <2> SUFFICES ASSUME NEW c \in DOMAIN stats
               PROVE  /\ Len(stats[c]) \in Nat
                      /\ Trusted(c) => \A r \in 1 .. Len(stats[c]) :
                           stats[c][r] = FullColumn[r] /\ r \in DOMAIN FullColumn
    OBVIOUS
  <2>1. Len(stats[c]) \in Nat
    <3>1. PICK b \in Nat : \A d \in DOMAIN stats : Len(stats[d]) \in 0 .. b
      BY DEF ColumnInv
    <3>2. Len(stats[c]) \in 0 .. b
      BY <3>1
    <3> QED
      BY <3>2
  <2> SUFFICES ASSUME Trusted(c)
               PROVE  \A r \in 1 .. Len(stats[c]) : stats[c][r] = FullColumn[r] /\ r \in DOMAIN FullColumn
    BY <2>1
  <2>2. PICK k \in 0 .. Len(FullColumn) : stats[c] = SubSeq(FullColumn, 1, k)
    BY DEF ColumnInv, Begun, Trusted
  <2>3. /\ Len(stats[c]) = k /\ \A r \in 1 .. k : stats[c][r] = FullColumn[r]
        /\ Len(FullColumn) \in Nat /\ DOMAIN FullColumn = 1 .. Len(FullColumn)
    BY <2>2, FullColumnType, LenProperties
  <2>4. \A r \in 1 .. k : r \in 1 .. Len(FullColumn)
    BY <2>3
  <2> QED
    BY <2>3, <2>4
<1>3. /\ P \subseteq Int /\ IsFiniteSet(P) /\ P \subseteq DOMAIN PasteOrder /\ n \in Nat
      /\ DOMAIN rows[1] = 1 .. n /\ Len(rows[1]) = n
      /\ \A k \in 1 .. n : A[k] \in P /\ rows[1][k].column = PasteOrder[A[k]]
  BY <1>1, PastedRowProperties
<1> HIDE DEF P, n
<1>4. ASSUME NEW r \in 1 .. m
      PROVE  PlacesWith(r) = P
  <2>1. PlacesWith(r) \subseteq P
    BY <1>2 DEF PlacesWith, P
  <2>2. Cardinality(PlacesWith(r)) = n
    BY <1>1, <1>3, PastedRowProperties
  <2> QED
    BY <1>3, <2>1, <2>2, FS_Subset DEF n
<1> HIDE DEF A
<1>5. ASSUME NEW r \in 1 .. m
      PROVE  /\ DOMAIN rows[r] = 1 .. n
             /\ \A k \in 1 .. n :
                  /\ rows[r][k].column = PasteOrder[A[k]] /\ rows[r][k].column \in DOMAIN stats
                  /\ Trusted(rows[r][k].column) => rows[r][k].of = FullColumn[r] /\ r \in DOMAIN FullColumn
  <2>1. /\ DOMAIN rows[r] = 1 .. n
        /\ \A k \in 1 .. n :
             /\ A[k] \in PlacesWith(r)
             /\ rows[r][k].column = PasteOrder[A[k]]
             /\ rows[r][k].of = stats[PasteOrder[A[k]]][r]
    BY <1>1, <1>4, PastedRowProperties DEF A, n
  <2>2. \A k \in 1 .. n : PasteOrder[A[k]] \in DOMAIN stats /\ r \in 1 .. Len(stats[PasteOrder[A[k]]])
    BY <1>2, <2>1 DEF PlacesWith
  <2> QED
    BY <1>2, <2>1, <2>2
<1>6. /\ \A r \in DOMAIN rows : \A k \in DOMAIN rows[r] : rows[r][k].column = rows[1][k].column
      /\ \A r \in DOMAIN rows : \A k, l \in DOMAIN rows[r] :
           {rows[r][k].column, rows[r][l].column} \subseteq Range(FeatureScripts) =>
             rows[r][k].of = rows[r][l].of
  <2>1. ASSUME NEW r \in 1 .. m, NEW k \in 1 .. n
        PROVE  rows[r][k].column = rows[1][k].column
    BY <1>1, <1>5
  <2>2. ASSUME NEW r \in 1 .. m, NEW k \in 1 .. n, NEW l \in 1 .. n,
               {rows[r][k].column, rows[r][l].column} \subseteq Range(FeatureScripts)
        PROVE  rows[r][k].of = rows[r][l].of
    <3>1. Trusted(rows[r][k].column) /\ Trusted(rows[r][l].column)
      BY <2>2 DEF Trusted
    <3> QED
      BY <1>5, <3>1
  <2>3. DOMAIN rows = 1 .. m /\ \A r \in 1 .. m : DOMAIN rows[r] = 1 .. n
    BY <1>1, <1>5
  <2>4. ASSUME NEW r \in DOMAIN rows
        PROVE  /\ \A k \in DOMAIN rows[r] : rows[r][k].column = rows[1][k].column
               /\ \A k, l \in DOMAIN rows[r] :
                    {rows[r][k].column, rows[r][l].column} \subseteq Range(FeatureScripts) =>
                      rows[r][k].of = rows[r][l].of
    <3>1. r \in 1 .. m /\ DOMAIN rows[r] = 1 .. n
      BY <2>3
    <3>2. \A k \in 1 .. n : rows[r][k].column = rows[1][k].column
      BY <2>1, <3>1
    <3>3. \A k, l \in 1 .. n :
            {rows[r][k].column, rows[r][l].column} \subseteq Range(FeatureScripts) =>
              rows[r][k].of = rows[r][l].of
      BY <2>2, <3>1
    <3> QED
      BY <3>1, <3>2, <3>3
  <2> QED
    BY <2>4
<1>7. Current(rows)
  <2> SUFFICES ASSUME NEW r \in 1 .. m
               PROVE  \A k \in DOMAIN rows[r] :
                        rows[r][k].column \notin unopened => IsFresh(rows[r][k], r)
    BY <1>1 DEF Current
  <2> SUFFICES ASSUME NEW k \in 1 .. n, rows[r][k].column \notin unopened
               PROVE  IsFresh(rows[r][k], r)
    <3>1. DOMAIN rows[r] = 1 .. n
      BY <1>5
    <3> QED
      BY <3>1
  <2>1. /\ rows[r][k].column \in DOMAIN stats
        /\ rows[r][k].of = FullColumn[r] /\ r \in DOMAIN FullColumn
    BY <1>5 DEF Trusted
  <2> QED
    BY <2>1 DEF ColumnInv, IsFresh
<1>8. ASSUME Last(FeatureScripts) \in ColumnsOf(rows) \ Integral
      PROVE  Last(rows[1]).column = "yColumn"
  <2> DEFINE q == Len(FeatureScripts)
  <2>1. /\ q \in Nat /\ DOMAIN PasteOrder = 1 .. q + 2
        /\ \A k \in 1 .. q : PasteOrder[k + 1] = FeatureScripts[k] /\ FeatureScripts[k] \in Range(FeatureScripts)
        /\ PasteOrder[q + 2] = "yColumn"
        /\ \A i, k \in DOMAIN PasteOrder : PasteOrder[i] = PasteOrder[k] => i = k
    BY PasteOrderProperties
  <2>2. q # 0
    <3>2. DOMAIN FeatureScripts # {}
      BY DEF Range
    <3>3. DOMAIN FeatureScripts = 1 .. q
      BY StatsPipelineAssumption, LenProperties
    <3> QED
      BY <2>1, <3>2, <3>3
  <2> HIDE DEF q
  <2>3. q \in 1 .. q /\ Last(FeatureScripts) = PasteOrder[q + 1] /\ Last(FeatureScripts) \in Range(FeatureScripts)
    <3>1. q \in 1 .. q /\ Last(FeatureScripts) = FeatureScripts[q]
      BY <2>1, <2>2 DEF Last, q
    <3> QED
      BY <2>1, <3>1
  <2>4. PICK k \in 1 .. n : PasteOrder[A[k]] = PasteOrder[q + 1]
    <3>1. PICK k \in 1 .. n : rows[1][k].column = Last(FeatureScripts)
      BY <1>3, <1>8 DEF ColumnsOf
    <3>2. rows[1][k].column = PasteOrder[A[k]]
      BY <1>3
    <3> QED
      BY <2>3, <3>1, <3>2
  <2>5. A[k] = q + 1
    <3>1. A[k] \in DOMAIN PasteOrder /\ q + 1 \in DOMAIN PasteOrder
      <4>1. A[k] \in P /\ P \subseteq DOMAIN PasteOrder
        BY <1>3
      <4>2. q + 1 \in 1 .. q + 2
        BY <2>1
      <4> QED
        BY <2>1, <4>1, <4>2
    <3> QED
      BY <2>1, <2>4, <3>1
  <2>6. n \in 1 .. n /\ A[n] \in 1 .. q + 2 /\ Last(rows[1]).column = PasteOrder[A[n]]
    <3>1. n \in 1 .. n /\ Last(rows[1]) = rows[1][n]
      BY <1>1, <1>3 DEF Last
    <3>2. A[n] \in P /\ rows[1][n].column = PasteOrder[A[n]]
      BY <1>3, <3>1
    <3> QED
      BY <1>3, <2>1, <3>1, <3>2
  <2>7. A[n] = q + 1 \/ A[n] = q + 2
    <3>1. CASE k = n
      BY <2>5, <3>1
    <3>2. CASE k < n
      <4>1. A[k] < A[n]
        BY <1>3, <2>6, <3>2, AscendingProperties DEF A, n
      <4> QED
        BY <2>1, <2>5, <2>6, <4>1
    <3> QED
      BY <1>3, <3>1, <3>2
  <2>8. PasteOrder[q + 1] \notin Integral \cup {"seqColumn", "yColumn"}
    BY <1>8, <2>3, StatsPipelineAssumption
  <2> QED
    BY <1>1, <2>1, <2>6, <2>7, <2>8
<1> QED
  BY <1>6, <1>7, <1>8 DEF Aligned

StatsInv == DirectoryInv /\ ColumnInv /\ TableInv

LEMMA StatsInvInitially == StatsInit => StatsInv
<1> SUFFICES ASSUME StatsInit
             PROVE  StatsInv
  OBVIOUS
<1>1. DirectoryInv
  BY StatsPipelineAssumption, FS_EmptySet DEF StatsInit, DirectoryInv
<1>2. ColumnInv
  BY DEF StatsInit, ColumnInv
<1>3. TableInv
  <2>1. ~ IsMeasurable(<<>>)
    BY DEF IsMeasurable, IsSplit, IsTable
  <2> QED
    BY <2>1 DEF StatsInit, TableInv, ResultAligned
<1> QED
  BY <1>1, <1>2, <1>3 DEF StatsInv

\* A column written, by whatever script: the others are left as they are.
LEMMA WriteColumnBegins ==
  ASSUME NEW c, WriteColumn(c), UNCHANGED directory
  PROVE  /\ FullColumn' = FullColumn
         /\ \/ UNCHANGED stats /\ unopened' = unopened \cup {c}
            \/ DOMAIN stats' = DOMAIN stats \cup {c} /\ UNCHANGED unopened /\ Begun(c)'
         /\ \A d \in DOMAIN stats : d # c /\ Begun(d) => Begun(d)'
<1>1. FullColumn' = FullColumn
  BY DEF FullColumn
<1>2. CASE UNCHANGED stats /\ unopened' = unopened \cup {c}
  BY <1>1, <1>2 DEF Begun
<1>3. ASSUME NEW n \in 0 .. Len(FullColumn), UNCHANGED unopened,
             stats' = [d \in DOMAIN stats \cup {c} |-> IF d = c THEN SubSeq(FullColumn, 1, n) ELSE stats[d]]
      PROVE  /\ DOMAIN stats' = DOMAIN stats \cup {c} /\ UNCHANGED unopened /\ Begun(c)'
             /\ \A d \in DOMAIN stats : d # c /\ Begun(d) => Begun(d)'
  <2>1. DOMAIN stats' = DOMAIN stats \cup {c} /\ stats'[c] = SubSeq(FullColumn, 1, n)
    BY <1>3
  <2>2. \A d \in DOMAIN stats : d # c => stats'[d] = stats[d]
    BY <1>3
  <2>3. Begun(c)'
    BY <1>1, <2>1 DEF Begun
  <2>4. \A d \in DOMAIN stats : d # c /\ Begun(d) => Begun(d)'
    BY <1>1, <2>2 DEF Begun
  <2> QED
    BY <1>3, <2>1, <2>3, <2>4
<1> QED
  BY <1>1, <1>2, <1>3 DEF WriteColumn

\* No column gets longer than that of the functions there are.
LEMMA WriteColumnBounded ==
  ASSUME DirectoryInv, NEW c, WriteColumn(c),
         \E b \in Nat : \A d \in DOMAIN stats : Len(stats[d]) \in 0 .. b
  PROVE  \E b \in Nat : \A d \in DOMAIN stats' : Len(stats'[d]) \in 0 .. b
<1>1. Len(FullColumn) \in Nat
  BY FullColumnType
<1>2. PICK b \in Nat : \A d \in DOMAIN stats : Len(stats[d]) \in 0 .. b
  OBVIOUS
<1>3. CASE UNCHANGED stats
  BY <1>2, <1>3
<1>4. ASSUME NEW n \in 0 .. Len(FullColumn),
             stats' = [d \in DOMAIN stats \cup {c} |-> IF d = c THEN SubSeq(FullColumn, 1, n) ELSE stats[d]]
      PROVE  \A d \in DOMAIN stats' : Len(stats'[d]) \in 0 .. b + Len(FullColumn)
  <2>1. stats'[c] = SubSeq(FullColumn, 1, n) /\ \A d \in DOMAIN stats : d # c => stats'[d] = stats[d]
    BY <1>4
  <2>2. Len(stats'[c]) = n
    BY <2>1, FullColumnType
  <2>3. n \in 0 .. b + Len(FullColumn) /\ 0 .. b \subseteq 0 .. b + Len(FullColumn)
    BY <1>1
  <2>4. \A d \in DOMAIN stats : d # c => Len(stats'[d]) \in 0 .. b
    BY <1>2, <2>1
  <2>5. DOMAIN stats' = DOMAIN stats \cup {c}
    BY <1>4
  <2> QED
    BY <2>2, <2>3, <2>4, <2>5
<1>5. b + Len(FullColumn) \in Nat
  BY <1>1
<1> QED
  BY <1>3, <1>4, <1>5 DEF WriteColumn

LEMMA DirectoryPreserved ==
  ASSUME StatsInv, [StatsNext]_statsVars
  PROVE  DirectoryInv'
<1> USE DEF StatsInv, DirectoryInv
<1>1. CASE Start
  BY <1>1, StatsPipelineAssumption DEF Start
<1>2. CASE RmExtracted
  BY <1>2, FS_EmptySet DEF RmExtracted
<1>3. CASE CopyArgument
  <2>1. PICK copied \in SUBSET directory[argument] :
          directory' = [directory EXCEPT ![Extracted] = directory[Extracted] \cup copied]
    BY <1>3 DEF CopyArgument
  <2>2. IsFiniteSet(copied) /\ copied \subseteq Nat \ {Header}
    BY <1>3, FS_Subset DEF CopyArgument
  <2>3. IsFiniteSet(directory[Extracted] \cup copied)
    BY <2>2, FS_Union
  <2> QED
    BY <1>3, <2>1, <2>2, <2>3 DEF CopyArgument
<1>4. CASE UNCHANGED directory /\ line' \notin {"rm", "cp"}
  BY <1>4
<1>5. WriteYColumn \/ WriteSeqColumn \/ Paste \/ PerformanceCalc \/ RunClassifier \/ Exit
        => UNCHANGED directory /\ line' \notin {"rm", "cp"}
  BY DEF WriteYColumn, WriteSeqColumn, Paste, PerformanceCalc, RunClassifier, Exit
<1>6. WriteFeature => UNCHANGED directory /\ line' \notin {"rm", "cp"}
  BY DEF WriteFeature
<1>7. CASE UNCHANGED statsVars
  BY <1>7 DEF statsVars
<1> QED
  BY <1>1, <1>2, <1>3, <1>4, <1>5, <1>6, <1>7 DEF StatsNext

LEMMA ColumnsPreserved ==
  ASSUME StatsInv, [StatsNext]_statsVars
  PROVE  ColumnInv'
<1> USE DEF StatsInv, ColumnInv
<1> DEFINE F == Range(FeatureScripts)
           Bounded(s) == \E b \in Nat : \A c \in DOMAIN s : Len(s[c]) \in 0 .. b
<1>0. StatsColumn = {"seqColumn", "yColumn"} \cup F /\ {"seqColumn", "yColumn"} \cap F = {}
  BY StatsPipelineAssumption DEF StatsColumn
<1>b. ASSUME NEW c, WriteColumn(c)
      PROVE  Bounded(stats')
  BY <1>b, WriteColumnBounded
<1> HIDE DEF F
<1>1. CASE Start
  <2>1. DOMAIN stats' = DOMAIN stats \ F /\ \A c \in DOMAIN stats' : stats'[c] = stats[c]
    <3>1. stats' = [c \in DOMAIN stats \ F |-> stats[c]]
      BY <1>1 DEF Start, RmStats, F
    <3> QED
      BY <3>1
  <2>2. Bounded(stats')
    BY <2>1
  <2>3. pending' = selected' /\ selected' \subseteq F /\ line' \in {"yColumn", "rm"}
    BY <1>1 DEF Start, F
  <2> QED
    BY <2>1, <2>2, <2>3 DEF F
<1>2. CASE RmExtracted
  BY <1>2 DEF RmExtracted
<1>3. CASE CopyArgument
  BY <1>3 DEF CopyArgument
<1>4. CASE WriteYColumn
  <2>1. /\ WriteColumn("yColumn") /\ UNCHANGED <<directory, selected, pending>>
        /\ line = "yColumn" /\ line' = "seqColumn"
    BY <1>4 DEF WriteYColumn
  <2>2. \/ UNCHANGED stats /\ unopened' = unopened \cup {"yColumn"}
        \/ DOMAIN stats' = DOMAIN stats \cup {"yColumn"} /\ Begun("yColumn")'
    BY <2>1, WriteColumnBegins
  <2>3. Bounded(stats')
    BY <1>b, <2>1
  <2> QED
    BY <1>0, <2>1, <2>2, <2>3 DEF F
<1>5. CASE WriteSeqColumn
  <2>1. /\ line = "seqColumn" /\ line' = "features"
        /\ WriteColumn("seqColumn") /\ UNCHANGED <<directory, selected, pending>>
    BY <1>5 DEF WriteSeqColumn
  <2>2. /\ \/ UNCHANGED stats /\ unopened' = unopened \cup {"seqColumn"}
           \/ DOMAIN stats' = DOMAIN stats \cup {"seqColumn"} /\ UNCHANGED unopened /\ Begun("seqColumn")'
        /\ \A d \in DOMAIN stats : d # "seqColumn" /\ Begun(d) => Begun(d)'
    BY <2>1, WriteColumnBegins
  <2>3. DOMAIN stats \subseteq {"seqColumn", "yColumn"}
    BY <1>0, <2>1 DEF F
  <2>4. ASSUME NEW c \in DOMAIN stats', c \in F \/ c \notin unopened'
        PROVE  Begun(c)'
    <3>1. c \notin F
      BY <1>0, <2>2, <2>3
    <3>2. CASE c = "seqColumn"
      BY <2>2, <2>4, <3>1, <3>2
    <3>3. CASE c = "yColumn"
      <4>1. c \in DOMAIN stats \ unopened
        BY <2>2, <2>4, <3>1, <3>3
      <4> QED
        BY <2>1, <2>2, <3>3, <4>1
    <3> QED
      BY <2>2, <2>3, <3>2, <3>3
  <2>5. Bounded(stats')
    BY <1>b, <2>1
  <2> QED
    BY <1>0, <2>1, <2>2, <2>3, <2>4, <2>5 DEF F
<1>6. CASE WriteFeature
  <2>1. PICK c \in pending : WriteColumn(c) /\ pending' = pending \ {c}
    BY <1>6 DEF WriteFeature
  <2>2. line = "features" /\ line' = "features" /\ UNCHANGED <<directory, selected>>
    BY <1>6 DEF WriteFeature
  <2>3. /\ \/ UNCHANGED stats /\ unopened' = unopened \cup {c}
           \/ DOMAIN stats' = DOMAIN stats \cup {c} /\ UNCHANGED unopened /\ Begun(c)'
        /\ \A d \in DOMAIN stats : d # c /\ Begun(d) => Begun(d)'
        /\ FullColumn' = FullColumn
    BY <2>1, <2>2, WriteColumnBegins
  <2>4. ASSUME NEW d \in DOMAIN stats', d \in F \/ d \notin unopened'
        PROVE  Begun(d)'
    <3>1. CASE UNCHANGED stats /\ unopened' = unopened \cup {c}
      <4>1. Begun(d)
        BY <2>2, <2>4, <3>1 DEF F
      <4> QED
        BY <2>3, <3>1, <4>1 DEF Begun
    <3>2. CASE DOMAIN stats' = DOMAIN stats \cup {c} /\ UNCHANGED unopened /\ Begun(c)'
      <4>1. d # c => Begun(d) /\ d \in DOMAIN stats
        BY <2>2, <2>4, <3>2 DEF F
      <4> QED
        BY <2>3, <3>2, <4>1
    <3> QED
      BY <2>3, <3>1, <3>2
  <2>5. Bounded(stats')
    BY <1>b, <2>1
  <2>6. DOMAIN stats' \subseteq DOMAIN stats \cup {c} /\ c \in selected /\ c \in F
    BY <2>1, <2>3 DEF F
  <2> QED
    BY <1>0, <2>1, <2>2, <2>4, <2>5, <2>6 DEF F
<1>7. CASE Paste
  BY <1>7 DEF Paste
<1>8. CASE PerformanceCalc
  BY <1>8 DEF PerformanceCalc
<1>9. CASE RunClassifier
  BY <1>9 DEF RunClassifier
<1>10. CASE Exit
  BY <1>10 DEF Exit
<1>11. CASE UNCHANGED statsVars
  BY <1>11 DEF statsVars, Begun, FullColumn
<1> QED
  BY <1>1, <1>2, <1>3, <1>4, <1>5, <1>6, <1>7, <1>8, <1>9, <1>10, <1>11 DEF StatsNext

\* A result is of one of the two tables, and they are one where nothing is left over.
LEMMA ResultIsOfATable ==
  ASSUME StatsInv, RunClassifier
  PROVE  /\ result' = result \/ Aligned(result')
         /\ \/ result' = result \/ result' = <<>>
            \/ result' = allStats /\ Current(allStats)
            \/ result' # allStats /\ "performanceCalc" \in unopened
<1>1. PICK input \in {allStats, infoGain} :
        result' = result \/ result' = <<>> \/ (IsMeasurable(input) /\ result' = input)
  BY DEF RunClassifier, IsUsable
<1>2. line = "classify" /\ (input = allStats \/ input = <<>> \/ "performanceCalc" \in unopened)
  BY DEF RunClassifier, StatsInv, TableInv
<1>3. Aligned(<<>>)
  BY DEF Aligned
<1>4. CASE result' = result \/ result' = <<>>
  BY <1>3, <1>4
<1>5. CASE IsMeasurable(input) /\ result' = input /\ input = allStats
  BY <1>2, <1>5 DEF StatsInv, TableInv
<1>6. CASE IsMeasurable(input) /\ result' = input /\ input # allStats
  BY <1>1, <1>2, <1>6 DEF StatsInv, TableInv
<1> QED
  BY <1>1, <1>4, <1>5, <1>6

LEMMA TablePreserved ==
  ASSUME StatsInv, [StatsNext]_statsVars
  PROVE  TableInv'
<1> DEFINE Sound(rows) == IsMeasurable(rows) => Aligned(rows)
<1>0. /\ ResultAligned = Aligned(result) /\ ResultAligned' = Aligned(result')
      /\ Aligned(allStats)' = Aligned(allStats') /\ Aligned(infoGain)' = Aligned(infoGain')
      /\ IsMeasurable(allStats)' = IsMeasurable(allStats')
      /\ IsMeasurable(infoGain)' = IsMeasurable(infoGain')
  BY DEF ResultAligned, Aligned, ColumnsOf, IsMeasurable, IsSplit, IsTable
<1>1. CASE Start
  <2>1. line' \notin {"performanceCalc", "classify"} /\ UNCHANGED <<infoGain, result>>
    BY <1>1 DEF Start
  <2> QED
    BY <1>0, <2>1 DEF StatsInv, TableInv
<1>2. CASE RmExtracted \/ CopyArgument \/ WriteYColumn \/ WriteSeqColumn \/ WriteFeature \/ Exit
  <2>1. line' \notin {"performanceCalc", "classify"} /\ UNCHANGED <<infoGain, result>>
    BY <1>2 DEF RmExtracted, CopyArgument, WriteYColumn, WriteSeqColumn, WriteFeature, Exit
  <2> QED
    BY <1>0, <2>1 DEF StatsInv, TableInv
<1>3. CASE Paste
  <2>1. /\ line = "features" /\ line' = "performanceCalc" /\ allStats' = Pasted
        /\ UNCHANGED <<directory, selected, infoGain, result, unopened>>
    BY <1>3 DEF Paste
  <2>2. IsMeasurable(allStats') => Aligned(allStats') /\ Current(allStats')
    <3>1. CASE allStats' = <<>>
      BY <3>1 DEF IsMeasurable, IsSplit, IsTable
    <3>2. CASE allStats' # <<>>
      <4> DEFINE L == {Len(stats[c]) : c \in DOMAIN stats}
                 m == Max(L)
      <4>1. /\ DOMAIN stats \cap Range(FeatureScripts) # {}
            /\ allStats' = [r \in 1 .. m |-> PastedRow(r)]
        BY <2>1, <3>2 DEF Pasted
      <4>2. PICK b \in Nat : \A c \in DOMAIN stats : Len(stats[c]) \in 0 .. b
        BY DEF StatsInv, ColumnInv
      <4>3. L \subseteq 0 .. b /\ L # {}
        BY <4>1, <4>2
      <4> HIDE DEF L
      <4>4. IsFiniteSet(L) /\ L \subseteq Int
        <5>1. IsFiniteSet(0 .. b) /\ 0 .. b \subseteq Int
          BY FS_Interval
        <5> QED
          BY <4>3, <5>1, FS_Subset
      <4>5. m \in L
        <5>1. \E x \in L : \A z \in L : x >= z
          BY <4>3, <4>4, LargestNumber
        <5>2. (CHOOSE x \in L : \A z \in L : x >= z) \in L
          BY <5>1
        <5> QED
          BY <5>2 DEF Max
      <4> HIDE DEF m
      <4>6. m \in Nat
        BY <4>3, <4>5
      <4> QED
        BY <2>1, <4>1, <4>6, PasteAligns DEF StatsInv
    <3> QED
      BY <3>1, <3>2
  <2>3. Current(allStats)' <=> Current(allStats')
    BY <2>1 DEF Current, IsFresh, FullColumn
  <2> QED
    BY <1>0, <2>1, <2>2, <2>3 DEF StatsInv, TableInv
<1>4. CASE PerformanceCalc
  <2>1. /\ line = "performanceCalc" /\ line' = "classify"
        /\ UNCHANGED <<directory, selected, allStats, result>>
        /\ \/ UNCHANGED unopened /\ infoGain' = allStats /\ IsMeasurable(allStats)
           \/ UNCHANGED unopened /\ infoGain' = <<>>
           \/ UNCHANGED infoGain /\ unopened' = unopened \cup {"performanceCalc"}
    BY <1>4 DEF PerformanceCalc
  <2>2. IsMeasurable(infoGain') => Aligned(infoGain')
    <3>1. ~ IsMeasurable(<<>>)
      BY DEF IsMeasurable, IsSplit, IsTable
    <3> QED
      BY <2>1, <3>1 DEF StatsInv, TableInv
  <2>3. Current(allStats) => Current(allStats)'
    BY <2>1 DEF Current, IsFresh, FullColumn
  <2> QED
    BY <1>0, <2>1, <2>2, <2>3 DEF StatsInv, TableInv
<1>5. CASE RunClassifier
  <2>1. line' = "end" /\ UNCHANGED infoGain
    BY <1>5 DEF RunClassifier
  <2>2. Aligned(result')
    BY <1>0, <1>5, ResultIsOfATable DEF StatsInv, TableInv
  <2> QED
    BY <1>0, <2>1, <2>2 DEF StatsInv, TableInv
<1>6. CASE UNCHANGED statsVars
  <2>1. Current(allStats) => Current(allStats)'
    BY <1>6 DEF statsVars, Current, IsFresh, FullColumn
  <2> QED
    BY <1>0, <1>6, <2>1 DEF statsVars, StatsInv, TableInv
<1> QED
  BY <1>1, <1>2, <1>3, <1>4, <1>5, <1>6 DEF StatsNext

THEOREM StatsInvAlways == StatsSpec => []StatsInv
<1>1. StatsInv /\ [StatsNext]_statsVars => StatsInv'
  <2> SUFFICES ASSUME StatsInv, [StatsNext]_statsVars
               PROVE  DirectoryInv' /\ ColumnInv' /\ TableInv'
    BY DEF StatsInv
  <2> QED
    BY DirectoryPreserved, ColumnsPreserved, TablePreserved
<1> QED
  BY <1>1, StatsInvInitially, PTL DEF StatsSpec

(***************************************************************************)
(* Every row of a table there is a result of has the header's columns, and *)
(* its features are all of one function, although paste puts the columns   *)
(* side by side unseen, and whatever commands of this run or of an earlier *)
(* one have failed; and no feature is taken for the class, unless the last *)
(* one is of integers.                                                     *)
(***************************************************************************)
THEOREM ResultsAreAligned == StatsSpec => []ResultAligned
<1>1. StatsInv => ResultAligned
  BY DEF StatsInv, TableInv
<1> QED
  BY <1>1, StatsInvAlways, PTL

(***************************************************************************)
(* A new result has on its r-th row the r-th function there is, under the  *)
(* features selected in this run of getStats.bash: all but a class or a    *)
(* number whose script has ended before opening its column, or the whole   *)
(* table where performanceCalc has ended before opening its own.           *)
(***************************************************************************)
THEOREM ResultsAreFresh == StatsSpec => ResultIsFresh
<1> DEFINE Fresh == result' # result /\ ("performanceCalc" \in unopened => result' = allStats) =>
        \A r \in DOMAIN result' : \A k \in DOMAIN result'[r] :
          result'[r][k].column \notin unopened => IsFresh(result'[r][k], r)
<1>1. StatsInv /\ [StatsNext]_statsVars => [Fresh]_statsVars
  <2> SUFFICES ASSUME StatsInv, StatsNext, result' # result,
                      "performanceCalc" \in unopened => result' = allStats
               PROVE  \A r \in DOMAIN result' : \A k \in DOMAIN result'[r] :
                        result'[r][k].column \notin unopened => IsFresh(result'[r][k], r)
    OBVIOUS
  <2>1. RunClassifier
    BY DEF StatsNext, Start, RmExtracted, CopyArgument, WriteYColumn, WriteSeqColumn,
           WriteFeature, Paste, PerformanceCalc, Exit
  <2>2. result' = <<>> \/ (result' = allStats /\ Current(allStats))
    BY <2>1, ResultIsOfATable
  <2> QED
    BY <2>2 DEF Current
<1> QED
  BY <1>1, StatsInvAlways, PTL DEF StatsSpec, ResultIsFresh
=============================================================================
