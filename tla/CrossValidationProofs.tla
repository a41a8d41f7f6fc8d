------------------------ MODULE CrossValidationProofs ------------------------
(***************************************************************************)
(* What the confusion matrix of one call counts, for tables of any length, *)
(* any number of folds and whatever the classifiers predict.               *)
(***************************************************************************)
EXTENDS CrossValidation, DataInduction, SequenceTheorems

Matrices == [Class -> [Class -> Nat]]

\* The rows between two places, of which fewer than the remainder are the
\* larger folds.
Smallest(a, b) == IF a <= b THEN a ELSE b
Before(k) == k * (Len(y) \div crossVal) + Smallest(k, Len(y) % crossVal)

FoldInv ==
  /\ call \in Calls
  /\ round \in Nat /\ fold \in Nat /\ current \in Nat
  /\ cm \in Matrices
  /\ phase \in {"call", "holdout"} =>
       /\ round = 0 /\ fold = 0 /\ current = 0
       /\ \A c \in Class : Entries(cm, c) = 0
  /\ phase = "holdout" => crossVal = 0
  /\ phase = "fold" => crossVal \in 2 .. Len(y) /\ fold <= crossVal /\ current = Before(fold)
  /\ phase = "average" => crossVal > 0 /\ current = Len(y) /\ round > 0

LEMMA CallTypes ==
  ASSUME FoldInv
  PROVE  /\ y \in Seq(Class) /\ Len(y) \in Nat /\ Row = 1 .. Len(y)
         /\ \A r \in Row : y[r] \in Class
         /\ crossVal \in Nat /\ nTrain \in Nat
<1>1. y \in Seq(Class) /\ crossVal \in Nat /\ nTrain \in Nat
  BY CrossValidationAssumption DEF FoldInv, y, crossVal, nTrain
<1> QED
  BY <1>1, LenProperties, ElementOfSeq DEF Row

\* The whole of n rows goes into m folds.
LEMMA FoldsCoverRows ==
  ASSUME NEW n \in Nat, NEW m \in Nat \ {0}
  PROVE  /\ n \div m \in Nat /\ n % m \in 0 .. m - 1
         /\ m * (n \div m) + (n % m) = n
  OBVIOUS

\* What one fold, or the test rows of a call without folds, adds to a class.
LEMMA EntriesOfConfusion ==
  ASSUME NEW S, IsFiniteSet(S), NEW predicted \in [S -> Class], NEW c \in Class
  PROVE  /\ Confusion(predicted) \in Matrices
         /\ Entries(Confusion(predicted), c) = Cardinality({r \in S : y[r] = c})
<1> DEFINE cell(a, b) == {r \in S : y[r] = a /\ predicted[r] = b}
           all == {r \in S : y[r] = c}
<1>1. \A a, b \in Class : IsFiniteSet(cell(a, b)) /\ Cardinality(cell(a, b)) \in Nat
  <2> TAKE a, b \in Class
  <2>1. cell(a, b) \subseteq S
    OBVIOUS
  <2> HIDE DEF cell
  <2> QED
    BY <2>1, FS_Subset, FS_CardinalityType
<1>2. Confusion(predicted) = [a \in Class |-> [b \in Class |-> Cardinality(cell(a, b))]]
  BY DEF Confusion
<1>3. /\ cell(c, 0) \cup cell(c, 1) = all
      /\ cell(c, 0) \cap cell(c, 1) = {}
  BY DEF Class
<1> HIDE DEF cell, all
<1>4. Confusion(predicted) \in Matrices
  BY <1>1, <1>2 DEF Matrices
<1>5. Cardinality(cell(c, 0) \cup cell(c, 1)) =
        Cardinality(cell(c, 0)) + Cardinality(cell(c, 1)) - Cardinality(cell(c, 0) \cap cell(c, 1))
  BY <1>1, FS_Union DEF Class
<1>6. Cardinality(cell(c, 0) \cap cell(c, 1)) = 0
  BY <1>3, FS_EmptySet
<1>7. Entries(Confusion(predicted), c) = Cardinality(cell(c, 0)) + Cardinality(cell(c, 1))
  BY <1>2 DEF Entries, Class
<1>8. Cardinality(cell(c, 0)) \in Nat /\ Cardinality(cell(c, 1)) \in Nat
  BY <1>1 DEF Class
<1>9. Entries(Confusion(predicted), c) = Cardinality(all)
  <2>1. Cardinality(all) = Cardinality(cell(c, 0)) + Cardinality(cell(c, 1)) - 0
    BY <1>3, <1>5, <1>6
  <2> QED
    BY <1>7, <1>8, <2>1
<1> QED
  BY <1>4, <1>9 DEF all

\* The rows of a class up to one place and those up to a later one.
LEMMA RowsOfSplit ==
  ASSUME NEW c \in Class, NEW a \in Nat, NEW b \in Nat
  PROVE  /\ RowsOf(c, a) \in Nat
         /\ RowsOf(c, a + b) = RowsOf(c, a) + Cardinality({r \in a + 1 .. a + b : y[r] = c})
<1> DEFINE S == {r \in 1 .. a : y[r] = c}
           T == {r \in a + 1 .. a + b : y[r] = c}
           U == {r \in 1 .. a + b : y[r] = c}
<1>1. IsFiniteSet(S) /\ IsFiniteSet(T)
  <2>1. IsFiniteSet(1 .. a) /\ IsFiniteSet(a + 1 .. a + b)
    BY FS_Interval
  <2>2. S \subseteq 1 .. a /\ T \subseteq a + 1 .. a + b
    OBVIOUS
  <2> HIDE DEF S, T
  <2> QED
    BY <2>1, <2>2, FS_Subset
<1>2. S \cup T = U /\ S \cap T = {}
  OBVIOUS
<1>3. RowsOf(c, a) = Cardinality(S) /\ RowsOf(c, a + b) = Cardinality(U)
  BY DEF RowsOf
<1> HIDE DEF S, T, U
<1>4. Cardinality(S) \in Nat /\ Cardinality(T) \in Nat
  BY <1>1, FS_CardinalityType
<1>5. Cardinality(S \cup T) = Cardinality(S) + Cardinality(T) - Cardinality(S \cap T)
  BY <1>1, FS_Union
<1>6. Cardinality(S \cap T) = 0
  BY <1>2, FS_EmptySet
<1>7. Cardinality(U) = Cardinality(S) + Cardinality(T)
  <2>1. Cardinality(U) = Cardinality(S) + Cardinality(T) - 0
    BY <1>2, <1>5, <1>6
  <2> QED
    BY <1>4, <2>1
<1> QED
  BY <1>3, <1>4, <1>7 DEF T

LEMMA NoRows == \A c \in Class : RowsOf(c, 0) = 0
<1> TAKE c \in Class
<1>1. {r \in 1 .. 0 : y[r] = c} = {}
  OBVIOUS
<1> QED
  BY <1>1, FS_EmptySet DEF RowsOf

\* The folds follow each other from the first row to the last.
LEMMA FoldsFollow ==
  ASSUME FoldInv, crossVal > 0
  PROVE  /\ Before(0) = 0 /\ Before(crossVal) = Len(y)
         /\ \A k \in Nat : /\ FoldSize(k + 1) \in Nat /\ Before(k) \in Nat
                           /\ Before(k + 1) = Before(k) + FoldSize(k + 1)
<1> DEFINE n == Len(y)
           q == Len(y) \div crossVal
           rest == Len(y) % crossVal
<1>1. /\ n \in Nat /\ crossVal \in Nat \ {0} /\ q \in Nat /\ rest \in 0 .. crossVal - 1
      /\ crossVal * q + rest = n
  <2>1. Len(y) \in Nat /\ crossVal \in Nat \ {0}
    BY CallTypes
  <2> HIDE DEF crossVal, y
  <2> QED
    BY <2>1, FoldsCoverRows
<1>2. \A k : /\ Before(k) = k * q + Smallest(k, rest)
             /\ FoldSize(k + 1) = q + (IF k + 1 <= rest THEN 1 ELSE 0)
  BY DEF Before, FoldSize
<1> HIDE DEF n, q, rest
<1>3. Smallest(0, rest) = 0 /\ Smallest(crossVal, rest) = rest
  BY <1>1 DEF Smallest
<1>4. Before(0) = 0 /\ Before(crossVal) = n
  BY <1>1, <1>2, <1>3
<1>5. ASSUME NEW k \in Nat
      PROVE  /\ FoldSize(k + 1) \in Nat /\ Before(k) \in Nat
             /\ Before(k + 1) = Before(k) + FoldSize(k + 1)
  <2>1. (k + 1) * q = k * q + q /\ k * q \in Nat
    BY <1>1
  <2>2. /\ Smallest(k + 1, rest) = Smallest(k, rest) + (IF k + 1 <= rest THEN 1 ELSE 0)
        /\ Smallest(k, rest) \in Nat
    BY <1>1 DEF Smallest
  <2>3. /\ Before(k) = k * q + Smallest(k, rest)
        /\ Before(k + 1) = (k + 1) * q + Smallest(k + 1, rest)
        /\ FoldSize(k + 1) = q + (IF k + 1 <= rest THEN 1 ELSE 0)
    BY <1>2
  <2> DEFINE product == k * q
             larger == IF k + 1 <= rest THEN 1 ELSE 0
  <2>4. /\ product \in Nat /\ larger \in Nat /\ Smallest(k, rest) \in Nat /\ q \in Nat
        /\ Before(k) = product + Smallest(k, rest)
        /\ Before(k + 1) = (product + q) + (Smallest(k, rest) + larger)
        /\ FoldSize(k + 1) = q + larger
    BY <1>1, <2>1, <2>2, <2>3
  <2> HIDE DEF product, larger
  <2> QED
    BY <2>4
<1> QED
  BY <1>4, <1>5 DEF n

\* Rounds completed, each of all the rows, and the folds of this one.
LEMMA TestedGrows ==
  ASSUME NEW a \in Nat, NEW b \in Nat, NEW k \in Nat
  PROVE  (k + 1) * a + 0 = k * a + a /\ k * a \in Nat /\ (k + 1) - 1 = k
  OBVIOUS

LEMMA KnownClasses ==
  ASSUME FoldInv, NEW T \in SUBSET Row, NEW S, NEW predicted \in Predictions(T, S)
  PROVE  predicted \in [S -> Class]
<1>1. Known(T) \subseteq Class
  BY CallTypes DEF Known
<1> QED
  BY <1>1 DEF Predictions

\* A fold adds its rows to the matrix, each under its class, unless it is halved.
LEMMA FoldCounts ==
  ASSUME FoldInv, RunFold
  PROVE  /\ cm' \in Matrices
         /\ current' = Before(fold + 1) /\ current' \in Nat
         /\ \A c \in Class : ~halved' => Entries(cm', c) - Entries(cm, c)
                                           = RowsOf(c, current') - RowsOf(c, current)
<1> DEFINE size == FoldSize(fold + 1)
           S == TestFold
<1>1. /\ phase = "fold" /\ crossVal > 0 /\ fold \in Nat /\ current = Before(fold)
      /\ current \in Nat /\ current' = current + size /\ cm \in Matrices
      /\ y \in Seq(Class) /\ crossVal \in Nat
  BY CallTypes DEF FoldInv, RunFold
<1>2. size \in Nat /\ Before(fold + 1) = current + size
  BY <1>1, FoldsFollow
<1>3. S = current + 1 .. current + size
  BY DEF TestFold
<1>4. PICK predicted \in Predictions(Row \ S, S) :
        /\ cm' = Plus(cm, FoldMatrix(predicted))
        /\ halved' = (halved \/ Single(predicted))
  BY DEF RunFold
<1> HIDE DEF size, S
<1>5. predicted \in [S -> Class] /\ IsFiniteSet(S)
  <2>1. Row \ S \in SUBSET Row
    OBVIOUS
  <2>2. current + 1 \in Int /\ current + size \in Int
    BY <1>1, <1>2
  <2>3. IsFiniteSet(S)
    BY <1>3, <2>2, FS_Interval
  <2> QED
    BY <1>4, <2>1, <2>3, KnownClasses
<1>6. FoldMatrix(predicted) \in Matrices
  <2>1. CASE Single(predicted)
    <3> DEFINE n == Cardinality(DOMAIN predicted)
    <3>1. n \in Nat
      BY <1>5, FS_CardinalityType
    <3> HIDE DEF n
    <3>2. n \div 2 \in Nat
      BY <3>1
    <3>3. Halves(n) \in Matrices
      BY <3>2 DEF Halves, Matrices
    <3> QED
      BY <2>1, <3>3 DEF FoldMatrix, n
  <2>2. CASE ~Single(predicted)
    BY <1>5, <2>2, EntriesOfConfusion DEF FoldMatrix, Class
  <2> QED
    BY <2>1, <2>2
<1>7. \A c \in Class : Entries(cm', c) = Entries(cm, c) + Entries(FoldMatrix(predicted), c)
  <2> DEFINE m == FoldMatrix(predicted)
  <2>1. m \in Matrices /\ cm' = Plus(cm, m)
    BY <1>4, <1>6
  <2> HIDE DEF m
  <2>2. \A c \in Class, d \in Class : cm[c][d] \in Nat /\ m[c][d] \in Nat
    BY <1>1, <2>1 DEF Matrices
  <2>3. \A c \in Class, d \in Class : cm'[c][d] = cm[c][d] + m[c][d]
    BY <2>1 DEF Plus
  <2> SUFFICES ASSUME NEW c \in Class
               PROVE  Entries(cm', c) = Entries(cm, c) + Entries(m, c)
    BY DEF m
  <2>4. cm'[c][0] = cm[c][0] + m[c][0] /\ cm'[c][1] = cm[c][1] + m[c][1]
    BY <2>3 DEF Class
  <2>5. cm[c][0] \in Nat /\ m[c][0] \in Nat /\ cm[c][1] \in Nat /\ m[c][1] \in Nat
    BY <2>2 DEF Class
  <2> QED
    BY <2>4, <2>5 DEF Entries
<1>8. cm' \in Matrices
  <2> DEFINE m == FoldMatrix(predicted)
  <2>1. m \in Matrices /\ cm' = Plus(cm, m)
    BY <1>4, <1>6
  <2> HIDE DEF m
  <2>2. \A c \in Class, d \in Class : cm[c][d] + m[c][d] \in Nat
    BY <1>1, <2>1 DEF Matrices
  <2> QED
    BY <2>1, <2>2 DEF Plus, Matrices
<1>9. ASSUME NEW c \in Class, ~halved'
      PROVE  Entries(cm', c) - Entries(cm, c) = RowsOf(c, current') - RowsOf(c, current)
  <2>1. FoldMatrix(predicted) = Confusion(predicted)
    BY <1>4, <1>9 DEF FoldMatrix
  <2>2. Entries(Confusion(predicted), c) = Cardinality({r \in S : y[r] = c})
    BY <1>5, EntriesOfConfusion
  <2>3. /\ RowsOf(c, current) \in Nat
        /\ RowsOf(c, current + size) = RowsOf(c, current) + Cardinality({r \in S : y[r] = c})
    BY <1>1, <1>2, <1>3, RowsOfSplit
  <2>4. IsFiniteSet({r \in S : y[r] = c})
    BY <1>5, FS_Subset
  <2> DEFINE n == Cardinality({r \in S : y[r] = c})
  <2>5. n \in Nat
    BY <2>4, FS_CardinalityType
  <2>6. Entries(cm, c) \in Nat
    BY <1>1 DEF Entries, Matrices, Class
  <2>7. Entries(cm', c) = Entries(cm, c) + n /\ RowsOf(c, current') = RowsOf(c, current) + n
    BY <1>1, <1>7, <2>1, <2>2, <2>3
  <2> HIDE DEF n
  <2> QED
    BY <2>3, <2>5, <2>6, <2>7
<1> QED
  BY <1>1, <1>2, <1>8, <1>9

LEMMA FiniteTestRows ==
  ASSUME FoldInv
  PROVE  IsFiniteSet(x2) /\ x2 = nTrain + 1 .. Len(y)
<1>1. x2 = nTrain + 1 .. Len(y) /\ nTrain + 1 \in Int /\ Len(y) \in Int
  BY CallTypes DEF x2
<1> QED
  BY <1>1, FS_Interval

\* FoldInv at the places a call can be in, unless it has ended.
LEMMA FoldNext ==
  ASSUME FoldInv, [Next]_vars
  PROVE  FoldInv'
<1> USE DEF y, crossVal, Entries
<1>0. \A c, d \in Class : cm[c][d] \in Nat
  BY DEF FoldInv, Matrices
<1>1. call' = call /\ (\A k : Before(k)' = Before(k))
  BY DEF Next, vars, Call, RunFold, FoldRaises, EndRound, Average, Holdout, Measure, Before
<1>2. CASE UNCHANGED vars
  BY <1>1, <1>2 DEF vars, FoldInv
<1>3. CASE Call
  <2>1. /\ UNCHANGED <<round, fold, current, cm>> /\ phase = "call"
        /\ \/ crossVal = 0 /\ phase' = "holdout"
           \/ crossVal \in 2 .. Len(y) /\ phase' = "fold"
           \/ phase' = "failed"
    BY <1>3 DEF Call
  <2>2. crossVal \in 2 .. Len(y) => Before(0) = 0 /\ 0 <= crossVal
    BY FoldsFollow, CallTypes
  <2> QED
    BY <1>1, <2>1, <2>2 DEF FoldInv
<1>4. CASE RunFold
  <2>1. /\ cm' \in Matrices /\ current' = Before(fold + 1) /\ current' \in Nat
        /\ fold' = fold + 1 /\ phase' = "fold" /\ phase = "fold" /\ round' = round
        /\ fold < crossVal
    BY <1>4, FoldCounts DEF RunFold
  <2>2. fold + 1 \in Nat /\ fold + 1 <= crossVal /\ crossVal \in 2 .. Len(y)
    BY <2>1, CallTypes DEF FoldInv
  <2> QED
    BY <1>1, <2>1, <2>2 DEF FoldInv
<1>5. CASE FoldRaises \/ Measure
  <2>1. phase' \in {"failed", "done"} /\ UNCHANGED <<round, fold, current, cm>>
    BY <1>5 DEF FoldRaises, Measure
  <2> QED
    BY <1>1, <2>1 DEF FoldInv
<1>6. CASE EndRound
  <2>1. /\ phase = "fold" /\ fold = crossVal /\ round' = round + 1 /\ cm' = cm
        /\ \/ /\ phase' \in {"average", "measure"} /\ UNCHANGED <<fold, current>>
           \/ fold' = 0 /\ current' = 0 /\ phase' = "fold"
    BY <1>6 DEF EndRound
  <2>2. /\ crossVal \in 2 .. Len(y) /\ crossVal > 0 /\ crossVal \in Nat
        /\ current = Before(crossVal) /\ round + 1 \in Nat /\ round + 1 > 0
    BY <2>1, CallTypes DEF FoldInv
  <2>3. Before(crossVal) = Len(y) /\ Before(0) = 0
    BY <2>2, FoldsFollow
  <2> QED
    BY <1>1, <2>1, <2>2, <2>3 DEF FoldInv
<1>7. CASE Average
  <2>1. /\ cm' = [c \in Class |-> [d \in Class |-> Mean(cm[c][d])]] /\ phase' = "measure"
        /\ UNCHANGED <<round, fold, current>>
    BY <1>7 DEF Average
  <2>2. \A n \in Nat : Mean(n) \in Nat
    BY DEF Mean, Rounds
  <2>3. cm' \in Matrices
    BY <1>0, <2>1, <2>2 DEF Matrices
  <2> QED
    BY <1>1, <2>1, <2>3 DEF FoldInv
<1>8. CASE Holdout
  <2>1. phase' \in {"measure", "failed"} /\ UNCHANGED <<round, fold, current>>
    BY <1>8 DEF Holdout
  <2>2. cm' \in Matrices
    <3>1. CASE cm' = cm
      BY <3>1 DEF FoldInv
    <3>2. CASE \E predicted \in Predictions(x1, x2) : cm' = Confusion(predicted)
      <4>1. PICK predicted \in Predictions(x1, x2) : cm' = Confusion(predicted)
        BY <3>2
      <4>2. x1 \in SUBSET Row /\ IsFiniteSet(x2)
        BY FiniteTestRows DEF x1
      <4>3. predicted \in [x2 -> Class]
        BY <4>2, KnownClasses
      <4> QED
        BY <4>1, <4>2, <4>3, EntriesOfConfusion DEF Class
    <3> QED
      BY <1>8, <3>1, <3>2 DEF Holdout
  <2> QED
    BY <1>1, <2>1, <2>2 DEF FoldInv
<1> QED
  BY <1>2, <1>3, <1>4, <1>5, <1>6, <1>7, <1>8 DEF Next

\* Without folds the matrix is of the rows after the first nTrain.
LEMMA HoldoutCounts ==
  ASSUME FoldInv, x2 # {}, NEW predicted \in Predictions(x1, x2), NEW c \in Class
  PROVE  Entries(Confusion(predicted), c) = RowsOf(c, Len(y)) - RowsOf(c, nTrain)
<1>1. /\ IsFiniteSet(x2) /\ x2 = nTrain + 1 .. Len(y) /\ x1 \in SUBSET Row
      /\ nTrain \in Nat /\ Len(y) \in Nat
  BY FiniteTestRows, CallTypes DEF x1
<1>2. predicted \in [x2 -> Class]
  BY <1>1, KnownClasses
<1> DEFINE b == Len(y) - nTrain
           T == {r \in x2 : y[r] = c}
<1>3. b \in Nat /\ nTrain + b = Len(y) /\ x2 = nTrain + 1 .. nTrain + b
  <2>1. \E r \in nTrain + 1 .. Len(y) : TRUE
    BY <1>1
  <2> QED
    BY <1>1, <2>1
<1> HIDE DEF b
<1>4. RowsOf(c, nTrain) \in Nat /\ RowsOf(c, nTrain + b) = RowsOf(c, nTrain) + Cardinality(T)
  <2>1. T = {r \in nTrain + 1 .. nTrain + b : y[r] = c}
    BY <1>3
  <2> HIDE DEF T, nTrain
  <2> QED
    BY <1>1, <1>3, <2>1, RowsOfSplit
<1>5. Entries(Confusion(predicted), c) = Cardinality(T)
  BY <1>1, <1>2, EntriesOfConfusion
<1>6. Cardinality(T) \in Nat
  BY <1>1, FS_Subset, FS_CardinalityType
<1> HIDE DEF T
<1>7. RowsOf(c, Len(y)) = RowsOf(c, nTrain) + Cardinality(T)
  BY <1>3, <1>4
<1> QED
  BY <1>4, <1>5, <1>6, <1>7

LEMMA MarginsNext ==
  ASSUME FoldInv, MarginsUnlessHalved, [Next]_vars
  PROVE  MarginsUnlessHalved'
<1>1. /\ call' = call /\ y' = y /\ crossVal' = crossVal /\ nTrain' = nTrain
      /\ \A c, n : RowsOf(c, n)' = RowsOf(c, n)
  BY DEF Next, vars, Call, RunFold, FoldRaises, EndRound, Average, Holdout, Measure,
         y, crossVal, nTrain, RowsOf
<1>2. /\ Len(y) \in Nat /\ nTrain \in Nat /\ crossVal \in Nat
      /\ round \in Nat /\ current \in Nat
  BY CallTypes DEF FoldInv
<1>3. \A c \in Class : /\ RowsOf(c, Len(y)) \in Nat /\ RowsOf(c, current) \in Nat
                       /\ RowsOf(c, nTrain) \in Nat /\ RowsOf(c, 0) = 0
  BY <1>2, RowsOfSplit, NoRows
<1>4. \A c \in Class : Entries(cm, c) \in Nat
  BY DEF Entries, FoldInv, Matrices, Class
<1> HIDE DEF y, crossVal, nTrain, RowsOf
<1>5. CASE UNCHANGED vars
  BY <1>1, <1>5 DEF vars, MarginsUnlessHalved, Summing, Tested, Entries
<1>6. CASE Call
  <2>1. /\ phase = "call" /\ UNCHANGED <<round, current, cm, halved>>
        /\ phase' \in {"holdout", "fold", "failed"}
    BY <1>6 DEF Call
  <2>2. round = 0 /\ current = 0 /\ \A c \in Class : Entries(cm, c) = 0
    BY <2>1 DEF FoldInv
  <2>3. \A c \in Class : Entries(cm, c)' = 0 /\ Tested(c)' = 0
    <3> TAKE c \in Class
    <3>1. Entries(cm, c)' = 0
      BY <2>1, <2>2 DEF Entries
    <3>2. Tested(c)' = 0 * RowsOf(c, Len(y)) + RowsOf(c, 0)
      BY <1>1, <2>1, <2>2 DEF Tested
    <3> QED
      BY <1>3, <3>1, <3>2
  <2> QED
    BY <2>1, <2>3 DEF MarginsUnlessHalved, Summing
<1>7. CASE RunFold
  <2>1. /\ phase = "fold" /\ phase' = "fold" /\ round' = round
        /\ (~halved' => ~halved)
    BY <1>7 DEF RunFold
  <2>2. ASSUME NEW c \in Class, ~halved'
        PROVE  Entries(cm, c)' = Tested(c)'
    <3>1. /\ cm' \in Matrices /\ current' \in Nat
          /\ Entries(cm', c) - Entries(cm, c) = RowsOf(c, current') - RowsOf(c, current)
      BY <1>7, <2>2, FoldCounts
    <3>2. Entries(cm, c) = Tested(c)
      BY <2>1, <2>2 DEF MarginsUnlessHalved, Summing
    <3> DEFINE before == round * RowsOf(c, Len(y))
    <3>3. Tested(c) = before + RowsOf(c, current) /\ Tested(c)' = before + RowsOf(c, current')
      BY <1>1, <2>1 DEF Tested
    <3>4. /\ before \in Nat /\ RowsOf(c, current') \in Nat /\ RowsOf(c, current) \in Nat
          /\ Entries(cm', c) \in Nat /\ Entries(cm, c) \in Nat
      <4>1. before \in Nat /\ RowsOf(c, current) \in Nat
        BY <1>2, <1>3
      <4>2. RowsOf(c, current') \in Nat
        BY <3>1, RowsOfSplit
      <4>3. Entries(cm', c) \in Nat
        BY <3>1 DEF Entries, Matrices, Class
      <4> QED
        BY <1>4, <4>1, <4>2, <4>3
    <3> HIDE DEF before
    <3>5. Entries(cm, c)' = Entries(cm', c)
      BY DEF Entries
    <3> QED
      BY <3>1, <3>2, <3>3, <3>4, <3>5
  <2> QED
    BY <2>1, <2>2 DEF MarginsUnlessHalved, Summing
<1>8. CASE FoldRaises \/ Measure
  <2>1. phase' \in {"failed", "done"}
    BY <1>8 DEF FoldRaises, Measure
  <2> QED
    BY <2>1 DEF MarginsUnlessHalved, Summing
<1>9. CASE EndRound
  <2>1. /\ phase = "fold" /\ fold = crossVal /\ round' = round + 1 /\ cm' = cm
        /\ halved' = halved
        /\ \/ phase' = "average" /\ current' = current
           \/ phase' = "measure"
           \/ current' = 0 /\ phase' = "fold"
    BY <1>9 DEF EndRound
  <2>2. crossVal > 0 /\ current = Len(y)
    BY <1>2, <2>1, FoldsFollow DEF FoldInv
  <2>3. ASSUME NEW c \in Class, ~halved', phase' # "measure"
        PROVE  Entries(cm, c)' = Tested(c)'
    <3> DEFINE all == RowsOf(c, Len(y))
    <3>1. Entries(cm, c) = round * all + all
      BY <2>1, <2>2, <2>3 DEF MarginsUnlessHalved, Summing, Tested
    <3>2. Entries(cm, c)' = Entries(cm, c)
      BY <2>1 DEF Entries
    <3>3. CASE phase' = "average"
      <4>1. Tested(c)' = ((round + 1) - 1) * all + all
        BY <1>1, <2>1, <2>2, <3>3 DEF Tested
      <4> HIDE DEF all
      <4> QED
        BY <1>2, <3>1, <3>2, <4>1
    <3>4. CASE phase' # "average"
      <4>1. Tested(c)' = (round + 1) * all + RowsOf(c, 0)
        BY <1>1, <2>1, <2>3, <3>4 DEF Tested
      <4>2. all \in Nat /\ RowsOf(c, 0) = 0
        BY <1>3
      <4> HIDE DEF all
      <4>3. (round + 1) * all + 0 = round * all + all
        BY <1>2, <4>2, TestedGrows
      <4> QED
        BY <3>1, <3>2, <4>1, <4>2, <4>3
    <3> QED
      BY <3>3, <3>4
  <2> QED
    BY <1>1, <1>2, <2>1, <2>2, <2>3 DEF MarginsUnlessHalved, Summing
<1>10. CASE Average
  <2>1. phase = "average" /\ phase' = "measure" /\ crossVal' > 0
    BY <1>1, <1>10 DEF Average, FoldInv
  <2> QED
    BY <1>1, <1>2, <2>1 DEF MarginsUnlessHalved, Summing
<1>11. CASE Holdout
  <2>1. CASE phase' = "failed"
    BY <2>1 DEF MarginsUnlessHalved, Summing
  <2>2. CASE phase' = "measure"
    <3>1. PICK predicted \in Predictions(x1, x2) : x2 # {} /\ cm' = Confusion(predicted)
      BY <1>11, <2>2 DEF Holdout
    <3>2. \A c \in Class : Entries(cm', c) = RowsOf(c, Len(y)) - RowsOf(c, nTrain)
      BY <3>1, HoldoutCounts
    <3>3. \A c \in Class : Entries(cm, c)' = Entries(cm', c)
      BY DEF Entries
    <3> QED
      BY <1>1, <2>2, <3>2, <3>3 DEF MarginsUnlessHalved, Summing
  <2> QED
    BY <1>11, <2>1, <2>2 DEF Holdout
<1> QED
  BY <1>5, <1>6, <1>7, <1>8, <1>9, <1>10, <1>11 DEF Next

LEMMA FoldInit == Init => FoldInv /\ MarginsUnlessHalved
<1> SUFFICES ASSUME Init PROVE FoldInv /\ MarginsUnlessHalved
  OBVIOUS
<1>1. /\ phase = "call" /\ round = 0 /\ fold = 0 /\ current = 0 /\ cm \in Matrices
      /\ \A c \in Class : Entries(cm, c) = 0
  BY DEF Init, Matrices, Entries, Class
<1>2. FoldInv
  BY <1>1 DEF FoldInv, Init
<1>3. \A c \in Class : Tested(c) = 0
  <2> TAKE c \in Class
  <2>1. RowsOf(c, Len(y)) \in Nat /\ RowsOf(c, 0) = 0
    BY <1>2, CallTypes, RowsOfSplit, NoRows
  <2>2. Tested(c) = 0 * RowsOf(c, Len(y)) + RowsOf(c, 0)
    BY <1>1 DEF Tested
  <2> QED
    BY <2>1, <2>2
<1> QED
  BY <1>1, <1>2, <1>3 DEF MarginsUnlessHalved, Summing

(***************************************************************************)
(* The confusion matrix counts every row tested once, under its class,     *)
(* over all folds and rounds, unless a fold was halved: for every table,   *)
(* number of folds and classifier.                                         *)
(***************************************************************************)
THEOREM Margins == Spec => []MarginsUnlessHalved
<1>1. FoldInv /\ MarginsUnlessHalved /\ [Next]_vars => (FoldInv /\ MarginsUnlessHalved)'
  BY FoldNext, MarginsNext
<1> QED
  BY <1>1, FoldInit, PTL DEF Spec
-----------------------------------------------------------------------------
\* Two different cells of a class are not empty: both classes are among S.
LEMMA BothClasses ==
  ASSUME FoldInv, Alternate, NEW S \in SUBSET Row, NEW r \in S, r + 1 \in S
  PROVE  {y[s] : s \in S} = Class
<1>1. Row = 1 .. Len(y) /\ Len(y) \in Nat /\ \A s \in Row : y[s] \in Class
  BY CallTypes
<1>2. r \in Row /\ r + 1 \in Row /\ r + 1 > 1 /\ (r + 1) - 1 = r
  BY <1>1
<1>3. y[r + 1] # y[r]
  BY <1>2 DEF Alternate
<1>4. {y[r], y[r + 1]} = Class
  BY <1>1, <1>2, <1>3 DEF Class
<1>5. {y[s] : s \in S} \subseteq Class
  BY <1>1
<1> QED
  BY <1>4, <1>5

LEMMA TwoClasses == Cardinality(Class) = 2
<1>1. Cardinality({0}) = 1 /\ IsFiniteSet({0})
  BY FS_Singleton
<1>2. Cardinality({0} \cup {1}) = 2
  <2>1. 1 \notin {0}
    OBVIOUS
  <2>2. Cardinality({0} \cup {1}) = Cardinality({0}) + 1
    BY <1>1, <2>1, FS_AddElement
  <2> QED
    BY <1>1, <2>2
<1>3. {0} \cup {1} = Class
  BY DEF Class
<1> QED
  BY <1>2, <1>3

\* No fold goes past the last row.
LEMMA FoldsInOrder ==
  ASSUME FoldInv, crossVal > 0, NEW k \in Nat, k <= crossVal
  PROVE  Before(k) <= Len(y)
<1> DEFINE n == Len(y)
           m == crossVal
           q == Len(y) \div crossVal
           rest == Len(y) % crossVal
<1>1. q \in Nat /\ rest \in 0 .. m - 1 /\ m * q + rest = n /\ m \in Nat
  <2>1. Len(y) \in Nat /\ crossVal \in Nat \ {0}
    BY CallTypes
  <2> HIDE DEF crossVal, y
  <2> QED
    BY <2>1, FoldsCoverRows
<1>2. Before(k) = k * q + Smallest(k, rest)
  BY DEF Before
<1>3. k <= m
  OBVIOUS
<1> HIDE DEF n, m, q, rest
<1>4. k * q <= m * q /\ k * q \in Nat /\ m * q \in Nat
  BY <1>1, <1>3
<1>5. Smallest(k, rest) <= rest /\ Smallest(k, rest) \in Nat
  BY <1>1 DEF Smallest
<1> QED
  BY <1>1, <1>2, <1>4, <1>5 DEF n

\* With twice as many rows as folds, each has two rows.
LEMMA WideFolds ==
  ASSUME FoldInv, crossVal >= 2, 2 * crossVal <= Len(y)
  PROVE  /\ Len(y) \div crossVal >= 2
         /\ \A k \in Nat : FoldSize(k + 1) \in Nat /\ FoldSize(k + 1) >= 2
<1> DEFINE n == Len(y)
           m == crossVal
           q == Len(y) \div crossVal
           rest == Len(y) % crossVal
<1>1. n \in Nat /\ m \in Nat /\ m >= 2 /\ 2 * m <= n
  BY CallTypes
<1>2. q \in Nat /\ rest \in 0 .. m - 1 /\ m * q + rest = n
  <2>1. Len(y) \in Nat /\ crossVal \in Nat \ {0}
    BY <1>1
  <2> HIDE DEF crossVal, y
  <2> QED
    BY <2>1, FoldsCoverRows
<1>3. \A k \in Nat : FoldSize(k + 1) = q + (IF k + 1 <= rest THEN 1 ELSE 0)
  BY DEF FoldSize
<1> HIDE DEF n, m, q, rest
<1>4. q >= 2
  <2> SUFFICES ASSUME q <= 1 PROVE FALSE
    BY <1>2
  <2>1. m * q <= m /\ m * q \in Nat
    BY <1>1, <1>2
  <2> QED
    BY <1>1, <1>2, <2>1
<1> QED
  BY <1>2, <1>3, <1>4 DEF q

\* A table in which no step raises is wide enough for its folds: each has two
\* rows, none is longer than half, and two rows are left to train on.
LEMMA SoundFolds ==
  ASSUME FoldInv, SoundTable, phase = "fold", fold < crossVal
  PROVE  /\ FoldSize(fold + 1) \in Nat /\ FoldSize(fold + 1) >= 2
         /\ FoldSize(fold + 1) <= nTrain
         /\ current + FoldSize(fold + 1) <= Len(y)
         /\ current = 0 \/ current >= 2
<1> DEFINE n == Len(y)
           k == crossVal
           q == Len(y) \div crossVal
           rest == Len(y) % crossVal
           half == nTrain
<1>1. /\ n \in Nat /\ k \in Nat /\ k >= 2 /\ half \in Nat /\ half >= 2 /\ n = 2 * half /\ 2 * k <= n
      /\ fold \in Nat /\ current = Before(fold) /\ current \in Nat
  BY CallTypes DEF FoldInv, SoundTable
<1>2. q \in Nat /\ rest \in 0 .. k - 1 /\ k * q + rest = n
  <2>1. Len(y) \in Nat /\ crossVal \in Nat \ {0}
    BY <1>1
  <2> HIDE DEF crossVal, y
  <2> QED
    BY <2>1, FoldsCoverRows
<1>3. /\ FoldSize(fold + 1) = q + (IF fold + 1 <= rest THEN 1 ELSE 0)
      /\ Before(fold) = fold * q + Smallest(fold, rest)
  BY DEF FoldSize, Before
<1>4. fold < k /\ phase = "fold"
  OBVIOUS
<1> HIDE DEF n, k, q, rest, half
<1>5. q >= 2
  BY <1>1, WideFolds DEF k, n, q
<1>6. k * q >= 2 * q /\ k * q \in Nat
  BY <1>1, <1>2
<1>7. FoldSize(fold + 1) \in Nat /\ FoldSize(fold + 1) >= 2 /\ FoldSize(fold + 1) <= half
  BY <1>1, <1>2, <1>3, <1>5, <1>6
<1>8. current = 0 \/ current >= 2
  <2>1. CASE fold = 0
    <3>1. 0 * q = 0 /\ Smallest(0, rest) = 0
      BY <1>2 DEF Smallest
    <3> QED
      BY <1>1, <1>3, <2>1, <3>1
  <2>2. CASE fold > 0
    <3> DEFINE product == fold * q
    <3>1. product >= q /\ product \in Nat /\ Smallest(fold, rest) \in Nat
      BY <1>1, <1>2, <2>2 DEF Smallest
    <3>2. current = product + Smallest(fold, rest)
      BY <1>1, <1>3
    <3> HIDE DEF product
    <3> QED
      BY <1>2, <1>5, <3>1, <3>2
  <2> QED
    BY <1>1, <2>1, <2>2
<1>9. current + FoldSize(fold + 1) <= n
  <2>1. Before(fold + 1) = Before(fold) + FoldSize(fold + 1) /\ fold + 1 \in Nat
    BY <1>1, FoldsFollow DEF k
  <2>2. fold + 1 <= k
    BY <1>1, <1>4
  <2>3. Before(fold + 1) <= n
    BY <1>1, <2>1, <2>2, FoldsInOrder DEF k, n
  <2> QED
    BY <1>1, <2>1, <2>3
<1> QED
  BY <1>7, <1>8, <1>9 DEF half, n
\* So both classes are in every fold, and in the rest of the rows.
LEMMA SoundClasses ==
  ASSUME FoldInv, SoundTable, phase = "fold", fold < crossVal
  PROVE  {y[r] : r \in TestFold} = Class /\ {y[r] : r \in Row \ TestFold} = Class
<1> DEFINE size == FoldSize(fold + 1)
           half == nTrain
<1>1. /\ size \in Nat /\ size >= 2 /\ size <= half /\ current + size <= Len(y)
      /\ current = 0 \/ current >= 2
  BY SoundFolds
<1>2. /\ current \in Nat /\ half \in Nat /\ half >= 2 /\ Len(y) = 2 * half
      /\ Row = 1 .. Len(y) /\ Alternate
  BY CallTypes DEF FoldInv, SoundTable
<1>3. TestFold = current + 1 .. current + size
  BY DEF TestFold
<1> HIDE DEF size, half
<1>4. {y[r] : r \in TestFold} = Class
  <2>1. TestFold \in SUBSET Row /\ current + 1 \in TestFold /\ (current + 1) + 1 \in TestFold
    BY <1>1, <1>2, <1>3
  <2> QED
    BY <1>2, <2>1, BothClasses
<1>5. {y[r] : r \in Row \ TestFold} = Class
  <2>1. CASE current >= 2
    <3>1. Row \ TestFold \in SUBSET Row /\ 1 \in Row \ TestFold /\ 1 + 1 \in Row \ TestFold
      BY <1>1, <1>2, <1>3, <2>1
    <3> QED
      BY <1>2, <3>1, BothClasses
  <2>2. CASE current = 0
    <3>1. /\ Row \ TestFold \in SUBSET Row /\ size + 1 \in Row \ TestFold
          /\ (size + 1) + 1 \in Row \ TestFold
      BY <1>1, <1>2, <1>3, <2>2
    <3> QED
      BY <1>2, <3>1, BothClasses
  <2> QED
    BY <1>1, <2>1, <2>2
<1> QED
  BY <1>4, <1>5

LEMMA MixedIsNotSingle ==
  ASSUME NEW S, NEW predicted \in [S -> Class], {y[r] : r \in S} = Class
  PROVE  ~Single(predicted)
BY DEF Single, Class

LEMMA TwoRowsOfEither ==
  ASSUME FoldInv, Alternate, Len(y) >= 4, NEW c \in Class
  PROVE  RowsOf(c, Len(y)) \in Nat /\ RowsOf(c, Len(y)) >= 2
<1>1. Row = 1 .. Len(y) /\ Len(y) \in Nat /\ \A r \in Row : y[r] \in Class
  BY CallTypes
<1> DEFINE S == {r \in 1 .. Len(y) : y[r] = c}
<1>2. ASSUME NEW r \in {1, 3}
      PROVE  r \in S \/ r + 1 \in S
  <2>1. r \in Row /\ r + 1 \in Row /\ r + 1 > 1 /\ (r + 1) - 1 = r
    BY <1>1
  <2>2. y[r + 1] # y[r] /\ y[r] \in {0, 1} /\ y[r + 1] \in {0, 1} /\ c \in {0, 1}
    BY <1>1, <2>1 DEF Alternate, Class
  <2> QED
    BY <1>1, <2>1, <2>2
<1>3. PICK a, b \in S : a \in {1, 2} /\ b \in {3, 4}
  <2>1. 1 \in S \/ 2 \in S
    BY <1>2
  <2>2. 3 \in S \/ 4 \in S
    BY <1>2
  <2> HIDE DEF S
  <2> QED
    BY <2>1, <2>2
<1>4. IsFiniteSet(S)
  <2>1. IsFiniteSet(1 .. Len(y)) /\ S \subseteq 1 .. Len(y)
    BY <1>1, FS_Interval
  <2> HIDE DEF S
  <2> QED
    BY <2>1, FS_Subset
<1>5. RowsOf(c, Len(y)) = Cardinality(S)
  BY DEF RowsOf
<1> HIDE DEF S
<1>6. Cardinality({a} \cup {b}) = 2
  <2>1. Cardinality({a}) = 1 /\ IsFiniteSet({a})
    BY FS_Singleton
  <2>2. b \notin {a}
    BY <1>3
  <2> DEFINE A == {a}
  <2> HIDE DEF A
  <2>3. Cardinality(A \cup {b}) = Cardinality(A) + 1
    BY <2>1, <2>2, FS_AddElement DEF A
  <2> QED
    BY <2>1, <2>3 DEF A
<1>7. Cardinality({a} \cup {b}) <= Cardinality(S) /\ Cardinality(S) \in Nat
  <2>1. {a} \cup {b} \subseteq S
    OBVIOUS
  <2> QED
    BY <1>4, <2>1, FS_Subset, FS_CardinalityType
<1> QED
  BY <1>5, <1>6, <1>7

\* What is tested without folds has a row of either class.
LEMMA OneRowOfEither ==
  ASSUME FoldInv, NEW predicted \in Predictions(x1, x2), NEW c \in Class, {y[r] : r \in x2} = Class
  PROVE  Entries(Confusion(predicted), c) > 0
<1>1. IsFiniteSet(x2) /\ x1 \in SUBSET Row
  BY FiniteTestRows DEF x1
<1>2. predicted \in [x2 -> Class]
  BY <1>1, KnownClasses
<1> DEFINE S == {r \in x2 : y[r] = c}
<1>3. Entries(Confusion(predicted), c) = Cardinality(S)
  BY <1>1, <1>2, EntriesOfConfusion
<1>4. S # {}
  OBVIOUS
<1>5. IsFiniteSet(S)
  <2>1. S \subseteq x2
    OBVIOUS
  <2> HIDE DEF S
  <2> QED
    BY <1>1, <2>1, FS_Subset
<1> HIDE DEF S
<1>6. Cardinality(S) \in Nat /\ Cardinality(S) # 0
  BY <1>4, <1>5, FS_CardinalityType, FS_EmptySet
<1> QED
  BY <1>3, <1>6
PassInv ==
  SoundTable =>
    /\ ~halved /\ phase # "failed"
    /\ phase = "average" => round = Rounds
    /\ phase = "measure" => Entries(cm, 1) > 0

\* A mean of ten rounds over two rows of a class is not rounded down to nothing.
LEMMA MeanOfTwo ==
  ASSUME NEW a \in Nat, NEW b \in Nat, NEW n \in Nat, n >= 2, a + b = Rounds * n
  PROVE  Mean(a) + Mean(b) > 0 /\ n - (Mean(a) + Mean(b)) \in {0, 1}
BY DEF Mean, Rounds

LEMMA PassNext ==
  ASSUME FoldInv, MarginsUnlessHalved, PassInv, [Next]_vars
  PROVE  PassInv'
<1>1. /\ call' = call /\ y' = y /\ (SoundTable' <=> SoundTable)
  BY DEF Next, vars, Call, RunFold, FoldRaises, EndRound, Average, Holdout, Measure,
         y, crossVal, nTrain, SoundTable, Alternate, Row
<1> SUFFICES ASSUME SoundTable
             PROVE  /\ ~halved' /\ phase' # "failed"
                    /\ phase' = "average" => round' = Rounds
                    /\ phase' = "measure" => Entries(cm', 1) > 0
  BY <1>1 DEF PassInv, Entries
<1>2. /\ Alternate /\ nTrain \in Nat /\ nTrain >= 2 /\ crossVal \in Nat /\ Len(y) \in Nat
      /\ \/ crossVal = 0 /\ Len(y) >= nTrain + 2
         \/ crossVal >= 2 /\ 2 * crossVal <= Len(y) /\ Len(y) = 2 * nTrain
  BY CallTypes DEF SoundTable
<1>3. RowsOf(1, Len(y)) \in Nat /\ RowsOf(1, Len(y)) >= 2
  <2>1. Len(y) >= 4 /\ 1 \in Class
    BY <1>2 DEF Class
  <2> QED
    BY <1>2, <2>1, TwoRowsOfEither
<1>4. /\ ~halved /\ phase # "failed" /\ (phase = "average" => round = Rounds)
      /\ phase = "measure" => Entries(cm, 1) > 0
  BY DEF PassInv
<1> DEFINE all == RowsOf(1, Len(y))
<1>5. CASE UNCHANGED vars
  BY <1>4, <1>5 DEF vars, Entries
<1>6. CASE Call
  <2>1. crossVal = 0 \/ crossVal \in 2 .. Len(y)
    BY <1>2
  <2> QED
    BY <1>4, <1>6, <2>1 DEF Call
<1>7. CASE RunFold
  <2>1. /\ phase = "fold" /\ fold < crossVal /\ phase' = phase
    BY <1>7 DEF RunFold
  <2>2. {y[r] : r \in TestFold} = Class /\ Row \ TestFold \in SUBSET Row
    BY <2>1, SoundClasses
  <2>3. PICK predicted \in Predictions(Row \ TestFold, TestFold) :
          halved' = (halved \/ Single(predicted))
    BY <1>7 DEF RunFold
  <2>4. ~Single(predicted)
    <3>1. predicted \in [TestFold -> Class]
      BY <2>2, KnownClasses
    <3> QED
      BY <2>2, <3>1, MixedIsNotSingle
  <2> QED
    BY <1>4, <2>1, <2>3, <2>4
<1>8. ~FoldRaises
  <2> SUFFICES ASSUME FoldRaises PROVE FALSE
    OBVIOUS
  <2>1. phase = "fold" /\ fold < crossVal
    BY DEF FoldRaises
  <2>2. ~MayRaise(Row \ TestFold)
    BY <2>1, SoundClasses, TwoClasses DEF MayRaise
  <2>3. FoldSize(fold + 1) \in Nat /\ FoldSize(fold + 1) <= nTrain /\ crossVal > 0
    BY <2>1, SoundFolds, CallTypes DEF FoldInv
  <2>4. Len(y2) = nTrain
    <3>1. y \in Seq(Class) /\ Len(y) = 2 * nTrain
      BY <1>2, <2>3, CallTypes
    <3>2. nTrain + 1 \in 1 .. Len(y) + 1 /\ Len(y) \in nTrain .. Len(y)
      BY <1>2, <3>1
    <3>3. Len(y2) = Len(y) - (nTrain + 1) + 1
      BY <1>2, <3>1, <3>2, SubSeqProperties DEF y2
    <3> QED
      BY <1>2, <3>1, <3>3
  <2> QED
    BY <1>2, <2>2, <2>3, <2>4 DEF FoldRaises
<1>9. CASE EndRound
  <2>1. /\ phase = "fold" /\ fold = crossVal /\ round' = round + 1 /\ cm' = cm
        /\ halved' = halved
        /\ \/ phase' = "average" /\ (Averages => round + 1 = Rounds) /\ Averages
           \/ phase' = "measure"
           \/ phase' = "fold"
    BY <1>9 DEF EndRound, LastRound
  <2>2. current = Len(y) /\ round \in Nat
    BY <1>2, <2>1, FoldsFollow DEF FoldInv
  <2>3. Entries(cm, 1) = round * all + all
    BY <1>4, <2>1, <2>2 DEF MarginsUnlessHalved, Summing, Tested, Class
  <2>4. Entries(cm, 1) > 0
    <3> HIDE DEF all
    <3>1. all \in Nat /\ all >= 2
      BY <1>3 DEF all
    <3>2. round * all \in Nat
      BY <2>2, <3>1
    <3> QED
      BY <2>3, <3>1, <3>2
  <2> QED
    BY <1>4, <2>1, <2>4
<1>10. CASE Average
  <2>1. /\ phase = "average" /\ phase' = "measure" /\ halved' = halved /\ round = Rounds
        /\ cm' = [c \in Class |-> [d \in Class |-> Mean(cm[c][d])]]
    BY <1>4, <1>10 DEF Average
  <2>2. current = Len(y)
    BY <2>1 DEF FoldInv
  <2>3. Entries(cm, 1) = (Rounds - 1) * all + all
    BY <1>4, <2>1, <2>2 DEF MarginsUnlessHalved, Summing, Tested, Class
  <2>4. cm[1][0] \in Nat /\ cm[1][1] \in Nat /\ cm[1][0] + cm[1][1] = Rounds * all
    <3> HIDE DEF all
    <3>1. all \in Nat
      BY <1>3 DEF all
    <3>2. (Rounds - 1) * all + all = Rounds * all
      BY <3>1 DEF Rounds
    <3>3. Entries(cm, 1) = cm[1][0] + cm[1][1]
      BY DEF Entries
    <3>4. cm[1][0] \in Nat /\ cm[1][1] \in Nat
      BY DEF FoldInv, Matrices, Class
    <3> QED
      BY <2>3, <3>2, <3>3, <3>4
  <2>5. Entries(cm', 1) = Mean(cm[1][0]) + Mean(cm[1][1])
    BY <2>1 DEF Entries, Class
  <2>6. Mean(cm[1][0]) + Mean(cm[1][1]) > 0
    <3> HIDE DEF all
    <3>1. all \in Nat /\ all >= 2
      BY <1>3 DEF all
    <3> QED
      BY <2>4, <3>1, MeanOfTwo
  <2> QED
    BY <1>4, <2>1, <2>5, <2>6
<1>11. CASE Holdout
  <2>1. phase = "holdout" /\ crossVal = 0 /\ halved' = halved
    BY <1>11 DEF Holdout, FoldInv
  <2>2. /\ Row = 1 .. Len(y) /\ Len(y) >= nTrain + 2
        /\ x1 \in SUBSET Row /\ x2 \in SUBSET Row
    BY <1>2, <2>1, CallTypes DEF x1, x2
  <2>3. {y[r] : r \in x1} = Class /\ {y[r] : r \in x2} = Class
    <3>1. 1 \in x1 /\ 1 + 1 \in x1 /\ nTrain + 1 \in x2 /\ (nTrain + 1) + 1 \in x2
      BY <1>2, <2>2 DEF x1, x2
    <3> QED
      BY <1>2, <2>2, <3>1, BothClasses
  <2>4. ~MayRaise(x1) /\ x2 # {}
    BY <2>3, TwoClasses DEF MayRaise, Class
  <2>5. PICK predicted \in Predictions(x1, x2) :
          /\ cm' = Confusion(predicted)
          /\ phase' = IF Single(predicted) THEN "failed" ELSE "measure"
    BY <1>11, <2>4 DEF Holdout
  <2>6. predicted \in [x2 -> Class]
    BY <2>2, KnownClasses
  <2>7. ~Single(predicted)
    BY <2>3, <2>6, MixedIsNotSingle
  <2>8. Entries(Confusion(predicted), 1) > 0
    BY <2>3, OneRowOfEither DEF Class
  <2> QED
    BY <1>4, <2>1, <2>5, <2>7, <2>8
<1>12. CASE Measure
  <2>1. phase = "measure" /\ cm \in Matrices
    BY <1>12 DEF Measure, FoldInv
  <2>2. Total(cm) > 0 /\ Entries(cm, 1) > 0
    <3>1. Entries(cm, 0) \in Nat /\ Entries(cm, 1) \in Nat
      BY <2>1 DEF Entries, Matrices, Class
    <3> QED
      BY <1>4, <2>1, <3>1 DEF Total
  <2> QED
    BY <1>4, <1>12, <2>2 DEF Measure
<1> QED
  BY <1>5, <1>6, <1>7, <1>8, <1>9, <1>10, <1>11, <1>12 DEF Next

(***************************************************************************)
(* On rows of alternating classes, with two of them to a fold, no fold is  *)
(* halved and no step of cmCalc or of the metrics raises, for any number   *)
(* of rows and folds and for every classifier.                             *)
(***************************************************************************)
THEOREM SoundPasses == Spec => []SoundTablePasses
<1>1. Init => PassInv
  BY DEF Init, PassInv
<1>2. /\ FoldInv /\ MarginsUnlessHalved /\ PassInv /\ [Next]_vars
      => (FoldInv /\ MarginsUnlessHalved /\ PassInv)'
  BY FoldNext, MarginsNext, PassNext
<1>3. PassInv => SoundTablePasses
  BY DEF PassInv, SoundTablePasses
<1> QED
  BY <1>1, <1>2, <1>3, FoldInit, PTL DEF Spec
-----------------------------------------------------------------------------
\* A fold of two rows adds two to the matrix, halved or not.
LEMMA FoldAddsTwo ==
  ASSUME FoldInv, NEW S, IsFiniteSet(S), S \subseteq Row, Cardinality(S) >= 2,
         NEW predicted \in [S -> Class]
  PROVE  /\ FoldMatrix(predicted) \in Matrices
         /\ Total(FoldMatrix(predicted)) >= 2
<1>1. CASE Single(predicted)
  <2> DEFINE n == Cardinality(S)
  <2>1. n \in Nat /\ n >= 2
    BY FS_CardinalityType
  <2>2. FoldMatrix(predicted) = Halves(n)
    BY <1>1 DEF FoldMatrix
  <2> HIDE DEF n
  <2>3. n \div 2 \in Nat /\ n \div 2 >= 1
    BY <2>1
  <2>4. Halves(n) \in Matrices /\ Total(Halves(n)) = (n \div 2 + 0) + (0 + n \div 2)
    BY <2>3 DEF Halves, Total, Entries, Matrices, Class
  <2> QED
    BY <2>2, <2>3, <2>4
<1>2. CASE ~Single(predicted)
  <2> DEFINE T == {r \in S : y[r] = 0}
             U == {r \in S : y[r] = 1}
             m == Confusion(predicted)
  <2>1. FoldMatrix(predicted) = m
    BY <1>2 DEF FoldMatrix
  <2>2. m \in Matrices /\ Entries(m, 0) = Cardinality(T) /\ Entries(m, 1) = Cardinality(U)
    BY EntriesOfConfusion DEF Class
  <2>3. T \cup U = S /\ T \cap U = {}
    BY CallTypes DEF Class
  <2>4. IsFiniteSet(T) /\ IsFiniteSet(U)
    <3>1. T \subseteq S /\ U \subseteq S
      OBVIOUS
    <3> HIDE DEF T, U
    <3> QED
      BY <3>1, FS_Subset
  <2> HIDE DEF T, U, m
  <2>5. Cardinality(T) + Cardinality(U) = Cardinality(S)
    <3>1. Cardinality(T \cup U) = Cardinality(T) + Cardinality(U) - Cardinality(T \cap U)
      BY <2>4, FS_Union
    <3>2. Cardinality(T \cap U) = 0
      BY <2>3, FS_EmptySet
    <3>3. Cardinality(T) \in Nat /\ Cardinality(U) \in Nat
      BY <2>4, FS_CardinalityType
    <3>4. Cardinality(S) = Cardinality(T) + Cardinality(U) - 0
      BY <2>3, <3>1, <3>2
    <3> QED
      BY <3>3, <3>4
  <2> QED
    BY <2>1, <2>2, <2>5 DEF Total
<1> QED
  BY <1>1, <1>2

LossInv ==
  /\ 2 * crossVal <= Len(y) =>
       /\ phase = "fold" => Total(cm) >= 4 * round + 2 * fold
       /\ phase = "average" => Total(cm) >= 4 * round
  /\ phase = "average" => round = Rounds
  /\ FewRowsLost

\* Of four entries that count forty rows, one has ten.
LEMMA MeanOfForty ==
  ASSUME NEW a \in Nat, NEW b \in Nat, NEW c \in Nat, NEW d \in Nat,
         (a + b) + (c + d) >= 40
  PROVE  (Mean(a) + Mean(b)) + (Mean(c) + Mean(d)) > 0
BY DEF Mean, Rounds

\* Means of ten rounds over the rows of a class lose one of them at most.
LEMMA MeanLosesOne ==
  ASSUME NEW a \in Nat, NEW b \in Nat, NEW n \in Nat, a + b = Rounds * n
  PROVE  n - (Mean(a) + Mean(b)) \in {0, 1}
BY DEF Mean, Rounds

LEMMA LossNext ==
  ASSUME FoldInv, MarginsUnlessHalved, LossInv, [Next]_vars
  PROVE  LossInv'
<1>1. /\ call' = call /\ y' = y /\ crossVal' = crossVal /\ Averages' = Averages
      /\ \A c, n : RowsOf(c, n)' = RowsOf(c, n)
  BY DEF Next, vars, Call, RunFold, FoldRaises, EndRound, Average, Holdout, Measure,
         y, crossVal, Averages, Program, classifierID, RowsOf
<1>2. Len(y) \in Nat /\ crossVal \in Nat /\ round \in Nat /\ fold \in Nat /\ cm \in Matrices
  BY CallTypes DEF FoldInv
<1>3. \A m \in Matrices : /\ \A c, d \in Class : m[c][d] \in Nat
                          /\ \A c \in Class : Entries(m, c) \in Nat
                          /\ Total(m) \in Nat
  <2> SUFFICES ASSUME NEW m \in Matrices
               PROVE  /\ \A c, d \in Class : m[c][d] \in Nat
                      /\ \A c \in Class : Entries(m, c) \in Nat
                      /\ Total(m) \in Nat
    OBVIOUS
  <2>1. \A c, d \in Class : m[c][d] \in Nat
    BY DEF Matrices
  <2>2. \A c \in Class : Entries(m, c) \in Nat
    BY <2>1 DEF Entries, Class
  <2> QED
    BY <2>1, <2>2 DEF Total, Class
<1>4. Total(cm)' = Total(cm') /\ \A c : Entries(cm, c)' = Entries(cm', c)
  BY DEF Total, Entries
<1> HIDE DEF y, crossVal, RowsOf, Averages
<1>5. CASE UNCHANGED vars
  BY <1>1, <1>4, <1>5 DEF vars, LossInv, FewRowsLost
<1>6. CASE Call
  <2>1. /\ phase = "call" /\ phase' \in {"holdout", "fold", "failed"}
        /\ round' = 0 /\ fold' = 0 /\ cm' = cm
    BY <1>6 DEF Call, FoldInv
  <2>2. Total(cm) >= 4 * 0 + 2 * 0
    BY <1>2, <1>3
  <2> QED
    BY <2>1, <2>2, <1>4 DEF LossInv, FewRowsLost
<1>7. CASE RunFold
  <2>1. phase = "fold" /\ phase' = "fold" /\ round' = round /\ fold' = fold + 1
    BY <1>7 DEF RunFold
  <2>2. ASSUME 2 * crossVal <= Len(y)
        PROVE  Total(cm') >= 4 * round + 2 * (fold + 1)
    <3> DEFINE S == TestFold
               size == FoldSize(fold + 1)
    <3>1. PICK predicted \in Predictions(Row \ S, S) : cm' = Plus(cm, FoldMatrix(predicted))
      BY <1>7 DEF RunFold
    <3>2. size \in Nat /\ size >= 2 /\ current \in Nat /\ current + size <= Len(y)
      <4>1. crossVal >= 2 /\ fold < crossVal /\ current = Before(fold) /\ current \in Nat
        BY <1>7, <2>1 DEF RunFold, FoldInv
      <4>2. size \in Nat /\ size >= 2
        BY <1>2, <2>2, <4>1, WideFolds
      <4>3. current' = Before(fold + 1) /\ current' = current + size
        BY <1>7, FoldCounts DEF RunFold
      <4>4. fold + 1 <= crossVal
        BY <1>2, <4>1
      <4>5. Before(fold + 1) <= Len(y)
        BY <1>2, <4>1, <4>4, FoldsInOrder
      <4> QED
        BY <4>1, <4>2, <4>3, <4>5
    <3>3. S = current + 1 .. current + size /\ Row = 1 .. Len(y)
      BY CallTypes DEF TestFold
    <3> HIDE DEF size, S
    <3>4. IsFiniteSet(S) /\ S \subseteq Row /\ Cardinality(S) >= 2
      <4>1. current + 1 \in Int /\ current + size \in Int /\ current + size >= current + 1
        BY <3>2
      <4>2. IsFiniteSet(S) /\ Cardinality(S) = (current + size) - (current + 1) + 1
        BY <3>3, <4>1, FS_Interval
      <4> QED
        BY <1>2, <3>2, <3>3, <4>2
    <3>5. predicted \in [S -> Class]
      <4>1. Row \ S \in SUBSET Row
        OBVIOUS
      <4> QED
        BY <4>1, KnownClasses
    <3> DEFINE m == FoldMatrix(predicted)
    <3>6. m \in Matrices /\ Total(m) >= 2
      BY <3>4, <3>5, FoldAddsTwo
    <3>7. cm' = Plus(cm, m)
      BY <3>1
    <3> HIDE DEF m
    <3>8. Total(cm') = Total(cm) + Total(m)
      <4>1. \A c, d \in Class : /\ cm'[c][d] = cm[c][d] + m[c][d]
                                /\ cm[c][d] \in Nat /\ m[c][d] \in Nat
        BY <1>2, <1>3, <3>6, <3>7 DEF Plus
      <4>2. \A c \in Class : /\ Entries(cm', c) = Entries(cm, c) + Entries(m, c)
                             /\ Entries(cm, c) \in Nat /\ Entries(m, c) \in Nat
        BY <4>1 DEF Entries, Class
      <4> QED
        BY <4>2 DEF Total, Class
    <3>9. Total(cm) >= 4 * round + 2 * fold
      BY <2>1, <2>2 DEF LossInv
    <3> QED
      BY <1>2, <1>3, <3>6, <3>8, <3>9
  <2> QED
    BY <1>1, <1>4, <2>1, <2>2 DEF LossInv, FewRowsLost
<1>8. CASE FoldRaises \/ Measure
  <2>1. phase' \in {"failed", "done"}
    BY <1>8 DEF FoldRaises, Measure
  <2> QED
    BY <2>1 DEF LossInv, FewRowsLost
<1>9. CASE EndRound
  <2>1. /\ phase = "fold" /\ fold = crossVal /\ round' = round + 1 /\ cm' = cm
        /\ \/ phase' = "average" /\ round + 1 = Rounds
           \/ phase' = "measure" /\ ~Averages
           \/ phase' = "fold" /\ fold' = 0
    BY <1>9 DEF EndRound, LastRound
  <2>2. crossVal >= 2
    BY <1>2, <2>1 DEF FoldInv
  <2>3. 2 * crossVal <= Len(y) => Total(cm) >= 4 * (round + 1)
    BY <1>2, <1>3, <2>1, <2>2 DEF LossInv
  <2>4. 2 * crossVal <= Len(y) => Total(cm) > 0 /\ Total(cm) >= 4 * (round + 1) + 2 * 0
    BY <1>2, <1>3, <2>3
  <2> QED
    BY <1>1, <1>4, <2>1, <2>3, <2>4 DEF LossInv, FewRowsLost
<1>10. CASE Average
  <2>1. /\ phase = "average" /\ phase' = "measure" /\ halved' = halved /\ round = Rounds
        /\ cm' = [c \in Class |-> [d \in Class |-> Mean(cm[c][d])]]
    BY <1>10 DEF Average, LossInv
  <2>2. current = Len(y)
    BY <2>1 DEF FoldInv
  <2>3. \A c \in Class : Entries(cm', c) = Mean(cm[c][0]) + Mean(cm[c][1])
    BY <2>1 DEF Entries, Class
  <2>4. \A c \in Class : cm[c][0] \in Nat /\ cm[c][1] \in Nat
    BY <1>2, <1>3 DEF Class
  <2>5. ASSUME 2 * crossVal <= Len(y)
        PROVE  Total(cm') > 0
    <3>1. Total(cm) >= 40
      BY <2>1, <2>5 DEF LossInv, Rounds
    <3>2. (cm[0][0] + cm[0][1]) + (cm[1][0] + cm[1][1]) >= 40
      BY <3>1 DEF Total, Entries
    <3>3. (Mean(cm[0][0]) + Mean(cm[0][1])) + (Mean(cm[1][0]) + Mean(cm[1][1])) > 0
      BY <2>4, <3>2, MeanOfForty DEF Class
    <3> QED
      BY <2>3, <3>3 DEF Total, Class
  <2>6. ASSUME ~halved, NEW c \in Class
        PROVE  RowsOf(c, Len(y)) - Entries(cm', c) \in {0, 1}
    <3> DEFINE all == RowsOf(c, Len(y))
    <3>1. Entries(cm, c) = (Rounds - 1) * all + all
      BY <2>1, <2>2, <2>6 DEF MarginsUnlessHalved, Summing, Tested
    <3>2. all \in Nat
      BY <1>2, RowsOfSplit
    <3> HIDE DEF all
    <3>3. cm[c][0] + cm[c][1] = Rounds * all
      BY <3>1, <3>2 DEF Entries, Rounds
    <3>4. all - (Mean(cm[c][0]) + Mean(cm[c][1])) \in {0, 1}
      BY <2>4, <3>2, <3>3, MeanLosesOne
    <3> QED
      BY <2>3, <3>4 DEF all
  <2> QED
    BY <1>1, <1>4, <2>1, <2>5, <2>6 DEF LossInv, FewRowsLost
<1>11. CASE Holdout
  <2>1. phase' \in {"measure", "failed"} /\ crossVal = 0
    BY <1>11 DEF Holdout, FoldInv
  <2> QED
    BY <1>1, <2>1 DEF LossInv, FewRowsLost
<1> QED
  BY <1>5, <1>6, <1>7, <1>8, <1>9, <1>10, <1>11 DEF Next

(***************************************************************************)
(* Folds of two rows are enough for the matrix not to be empty, halved or  *)
(* averaged as it may be, and the averages of a forest lose one row of     *)
(* either class at most: for every table and number of folds.              *)
(***************************************************************************)
THEOREM LittleIsLost == Spec => []FewRowsLost
<1>1. Init => LossInv
  BY DEF Init, LossInv, FewRowsLost
<1>2. /\ FoldInv /\ MarginsUnlessHalved /\ LossInv /\ [Next]_vars
      => (FoldInv /\ MarginsUnlessHalved /\ LossInv)'
  BY FoldNext, MarginsNext, LossNext
<1>3. LossInv => FewRowsLost
  BY DEF LossInv
<1> QED
  BY <1>1, <1>2, <1>3, FoldInit, PTL DEF Spec
-----------------------------------------------------------------------------
\* Alternating rows at the same parity are of the same class.
LEMMA SameParitySameClass ==
  ASSUME FoldInv, Alternate, NEW a \in Row, NEW b \in Row, a % 2 = b % 2
  PROVE  y[a] = y[b]
<1>1. Row = 1 .. Len(y) /\ Len(y) \in Nat /\ \A r \in Row : y[r] \in {0, 1}
  BY CallTypes DEF Class
<1> DEFINE T == {n \in Nat : n + 1 \in Row => (y[n + 1] = y[1] <=> n % 2 = 0)}
<1>2. 0 \in T
  OBVIOUS
<1>3. ASSUME NEW n \in Nat, n \in T
      PROVE  n + 1 \in T
  <2> SUFFICES ASSUME (n + 1) + 1 \in Row
               PROVE  y[(n + 1) + 1] = y[1] <=> (n + 1) % 2 = 0
    OBVIOUS
  <2>1. n + 1 \in Row /\ 1 \in Row /\ (n + 1) + 1 > 1 /\ ((n + 1) + 1) - 1 = n + 1
    BY <1>1
  <2>2. y[(n + 1) + 1] # y[n + 1]
    BY <2>1 DEF Alternate
  <2>3. y[n + 1] = y[1] <=> n % 2 = 0
    BY <1>3, <2>1
  <2>4. (n + 1) % 2 = 0 <=> n % 2 # 0
    OBVIOUS
  <2> QED
    BY <1>1, <2>1, <2>2, <2>3, <2>4
<1>4. Nat \subseteq T
  <2> HIDE DEF T
  <2> QED
    BY <1>2, <1>3, CountingUp
<1>5. ASSUME NEW r \in Row
      PROVE  y[r] = y[1] <=> (r - 1) % 2 = 0
  <2>1. r - 1 \in Nat /\ (r - 1) + 1 = r
    BY <1>1
  <2>2. r - 1 \in T
    BY <1>4, <2>1
  <2> QED
    BY <2>1, <2>2
<1>6. (a - 1) % 2 = 0 <=> (b - 1) % 2 = 0
  BY <1>1
<1>7. 1 \in Row
  BY <1>1
<1> QED
  BY <1>1, <1>5, <1>6, <1>7

\* The tables ReportsSampleIfEven is about.
EvenTable ==
  /\ Alternate /\ nTrain % 2 = 0
  /\ crossVal > 0 /\ Len(y) % (2 * crossVal) = 0

LEMMA EvenProducts ==
  ASSUME NEW n \in Nat, NEW m \in Nat \ {0}, n % (2 * m) = 0
  PROVE  n % m = 0 /\ (n \div m) % 2 = 0 /\ n \div m \in Nat
<1> DEFINE q == n \div (2 * m)
<1>1. 2 * m \in Nat \ {0}
  OBVIOUS
<1>2. q \in Nat /\ (2 * m) * q + (n % (2 * m)) = n
  BY <1>1, FoldsCoverRows
<1> HIDE DEF q
<1>3. n = m * (2 * q) + 0
  BY <1>2
<1>4. n \div m \in Nat /\ n % m \in 0 .. m - 1 /\ m * (n \div m) + (n % m) = n
  BY FoldsCoverRows
<1>5. n \div m = 2 * q /\ n % m = 0
  <2> DEFINE d == n \div m
             e == n % m
  <2>1. d \in Nat /\ e \in 0 .. m - 1 /\ m * d + e = m * (2 * q)
    BY <1>2, <1>3, <1>4
  <2> HIDE DEF d, e
  <2>2. e = m * (2 * q - d)
    BY <1>2, <2>1
  <2>3. 2 * q - d <= 0
    <3> SUFFICES ASSUME 2 * q - d >= 1 PROVE FALSE
      BY <1>2, <2>1
    <3>1. m * (2 * q - d) >= m
      BY <1>2, <2>1
    <3> QED
      BY <2>1, <2>2, <3>1
  <2>4. 2 * q - d >= 0
    <3> SUFFICES ASSUME 2 * q - d <= -1 PROVE FALSE
      BY <1>2, <2>1
    <3>1. m * (2 * q - d) <= -1
      BY <1>2, <2>1
    <3> QED
      BY <2>1, <2>2, <3>1
  <2>5. d = 2 * q /\ e = 0
    BY <1>2, <2>1, <2>2, <2>3, <2>4
  <2> QED
    BY <2>5 DEF d, e
<1> QED
  BY <1>2, <1>4, <1>5

\* Every fold of such a table begins after an even number of rows.
LEMMA FoldsBeginEven ==
  ASSUME FoldInv, EvenTable, phase = "fold"
  PROVE  current % 2 = 0
<1> DEFINE q == Len(y) \div crossVal
<1>1. Len(y) \in Nat /\ crossVal \in Nat \ {0} /\ Len(y) % (2 * crossVal) = 0
  BY CallTypes DEF EvenTable
<1>2. Len(y) % crossVal = 0 /\ q % 2 = 0 /\ q \in Nat
  <2> HIDE DEF y, crossVal
  <2> QED
    BY <1>1, EvenProducts
<1>3. current = Before(fold) /\ fold \in Nat
  BY DEF FoldInv
<1>4. current = fold * q + 0
  BY <1>2, <1>3 DEF Before, Smallest
<1> HIDE DEF q
<1>5. (fold * q) % 2 = 0
  <2>1. q = 2 * (q \div 2) /\ q \div 2 \in Nat
    BY <1>2
  <2>2. fold * q = 2 * (fold * (q \div 2)) /\ fold * (q \div 2) \in Nat
    BY <1>3, <2>1
  <2> DEFINE h == fold * (q \div 2)
  <2>3. h \in Nat /\ fold * q = 2 * h
    BY <2>2
  <2> HIDE DEF h
  <2> QED
    BY <2>3
<1> QED
  BY <1>2, <1>3, <1>4, <1>5

Report == [class : Class, predicted : Class]

\* Each line reports the row it is about, and as many lines have been written in
\* the first round as rows have been tested.
ReportInv ==
  /\ analysis \in Seq(Report)
  /\ ~Analyses => analysis = <<>>
  /\ phase = "call" => analysis = <<>>
  /\ phase = "fold" /\ Analyses =>
       IF round = 0 THEN Len(analysis) = current ELSE Len(analysis) >= Len(y)
  /\ EvenTable => \A k \in DOMAIN analysis : k <= Len(y) => analysis[k].class = y[k]

LEMMA LengthIs ==
  ASSUME NEW S, NEW n \in Nat, NEW q \in [1 .. n -> S]
  PROVE  q \in Seq(S) /\ Len(q) = n
<1>1. q \in Seq(S)
  BY SeqDef
<1>2. DOMAIN q = 1 .. Len(q) /\ Len(q) \in Nat /\ DOMAIN q = 1 .. n
  BY <1>1, LenProperties
<1> DEFINE m == Len(q)
<1>3. m \in Nat /\ 1 .. m = 1 .. n
  BY <1>2
<1> HIDE DEF m
<1>4. m = n
  BY <1>3
<1> QED
  BY <1>1, <1>4 DEF m

LEMMA EvenOffsets ==
  ASSUME NEW a \in Nat, NEW b \in Nat, NEW l \in Nat, a % 2 = 0, b % 2 = 0
  PROVE  (a + l) % 2 = (b + l) % 2
OBVIOUS

\* The lines of a fold are compared with y2, which begins as the fold does.
LEMMA LinesAppended ==
  ASSUME FoldInv, ReportInv, phase = "fold", fold < crossVal, Analyses,
         NEW n \in Nat, n <= FoldSize(fold + 1), n <= Len(y2),
         NEW predicted \in [TestFold -> Class], NEW report, report = analysis \o Lines(predicted, n)
  PROVE  /\ report \in Seq(Report)
         /\ Len(report) = Len(analysis) + n
         /\ EvenTable => \A k \in DOMAIN report : k <= Len(y) => report[k].class = y[k]
<1> DEFINE size == FoldSize(fold + 1)
           lines == Lines(predicted, n)
<1>1. /\ y \in Seq(Class) /\ Len(y) \in Nat /\ Row = 1 .. Len(y) /\ \A r \in Row : y[r] \in Class
      /\ nTrain \in Nat /\ crossVal \in Nat /\ crossVal > 0
      /\ fold \in Nat /\ current \in Nat /\ round \in Nat
  BY CallTypes DEF FoldInv
<1>2. size \in Nat /\ current + size <= Len(y) /\ TestFold = current + 1 .. current + size
  <2>1. size \in Nat /\ Before(fold + 1) = Before(fold) + size /\ current = Before(fold)
    BY <1>1, FoldsFollow DEF FoldInv
  <2>2. fold + 1 \in Nat /\ fold + 1 <= crossVal
    BY <1>1
  <2>3. Before(fold + 1) <= Len(y)
    BY <1>1, <2>2, FoldsInOrder
  <2> QED
    BY <2>1, <2>3 DEF TestFold
<1>3. ASSUME NEW l \in 1 .. n
      PROVE  y2[l] = y[nTrain + l] /\ nTrain + l \in Row
  <2>1. \A r \in nTrain + 1 .. Len(y) : y[r] \in Class
    BY <1>1
  <2>2. /\ Len(y2) = IF nTrain + 1 <= Len(y) THEN Len(y) - (nTrain + 1) + 1 ELSE 0
        /\ \A k \in 1 .. Len(y) - (nTrain + 1) + 1 : y2[k] = y[(nTrain + 1) + k - 1]
    <3>1. nTrain + 1 \in Int /\ Len(y) \in Int
      BY <1>1
    <3> QED
      BY <2>1, <3>1, SubSeqProperties DEF y2
  <2>3. l <= Len(y) - (nTrain + 1) + 1
    BY <1>1, <2>2
  <2>4. l \in 1 .. Len(y) - (nTrain + 1) + 1 /\ (nTrain + 1) + l - 1 = nTrain + l
    BY <1>1, <2>3
  <2>5. y2[l] = y[nTrain + l]
    BY <2>2, <2>4
  <2> QED
    BY <1>1, <2>3, <2>5
<1>4. lines = [l \in 1 .. n |-> [class |-> y2[l], predicted |-> predicted[current + l]]]
  BY DEF Lines
<1>5. report = analysis \o lines
  OBVIOUS
<1> HIDE DEF lines, size
<1>6. \A l \in 1 .. n : current + l \in TestFold /\ current + l \in Row
  BY <1>1, <1>2 DEF size
<1>7. \A l \in 1 .. n : [class |-> y2[l], predicted |-> predicted[current + l]] \in Report
  BY <1>1, <1>3, <1>6 DEF Report
<1>8. lines \in [1 .. n -> Report]
  BY <1>4, <1>7
<1>9. lines \in Seq(Report)
  BY <1>8, LengthIs
<1>10. Len(lines) = n
  BY <1>8, LengthIs
<1>11. analysis \in Seq(Report) /\ Len(analysis) \in Nat /\ DOMAIN analysis = 1 .. Len(analysis)
  BY LenProperties DEF ReportInv
<1>12. /\ report \in Seq(Report)
       /\ Len(report) = Len(analysis) + n
       /\ \A k \in 1 .. Len(analysis) + n :
            report[k] = IF k <= Len(analysis) THEN analysis[k] ELSE lines[k - Len(analysis)]
  <2>1. /\ analysis \o lines \in Seq(Report)
        /\ Len(analysis \o lines) = Len(analysis) + Len(lines)
        /\ \A k \in 1 .. Len(analysis) + Len(lines) : (analysis \o lines)[k] =
             IF k <= Len(analysis) THEN analysis[k] ELSE lines[k - Len(analysis)]
    BY <1>9, <1>11, ConcatProperties
  <2> QED
    BY <1>5, <1>10, <2>1
<1>13. ASSUME EvenTable, NEW k \in DOMAIN report, k <= Len(y)
       PROVE  report[k].class = y[k]
  <2>1. k \in 1 .. Len(analysis) + n
    BY <1>12, LenProperties
  <2>2. CASE k <= Len(analysis)
    BY <1>11, <1>12, <1>13, <2>1, <2>2 DEF ReportInv
  <2>3. CASE k > Len(analysis)
    <3>1. round = 0 /\ Len(analysis) = current
      <4>1. IF round = 0 THEN Len(analysis) = current ELSE Len(analysis) >= Len(y)
        BY DEF ReportInv
      <4>2. ~ (Len(analysis) >= Len(y))
        BY <1>1, <1>11, <1>13, <2>1, <2>3
      <4> QED
        BY <4>1, <4>2
    <3> DEFINE l == k - current
    <3>2. l \in 1 .. n /\ current + l = k
      BY <1>1, <2>1, <2>3, <3>1
    <3>3. report[k] = lines[l]
      <4>1. report[k] = IF k <= Len(analysis) THEN analysis[k] ELSE lines[k - Len(analysis)]
        BY <1>12, <2>1
      <4>2. ~ (k <= Len(analysis))
        BY <1>11, <2>1, <2>3
      <4>3. report[k] = lines[k - Len(analysis)]
        BY <4>1, <4>2
      <4> QED
        BY <3>1, <4>3
    <3> HIDE DEF l
    <3>4. report[k].class = y[nTrain + l] /\ nTrain + l \in Row
      BY <1>3, <1>4, <3>2, <3>3
    <3>5. nTrain % 2 = 0 /\ current % 2 = 0
      BY <1>13, FoldsBeginEven DEF EvenTable
    <3>6. (nTrain + l) % 2 = k % 2
      <4>1. l \in Nat /\ nTrain \in Nat /\ current \in Nat
        BY <1>1, <3>2
      <4>2. (nTrain + l) % 2 = (current + l) % 2
        BY <3>5, <4>1, EvenOffsets
      <4> QED
        BY <3>2, <4>2
    <3>7. k \in Row /\ Alternate
      BY <1>6, <1>13, <3>2 DEF EvenTable
    <3> QED
      BY <3>4, <3>6, <3>7, SameParitySameClass
  <2> QED
    BY <1>11, <2>1, <2>2, <2>3
<1> QED
  BY <1>12, <1>13

LEMMA ReportNext ==
  ASSUME FoldInv, ReportInv, [Next]_vars
  PROVE  ReportInv'
<1>1. /\ call' = call /\ y' = y /\ crossVal' = crossVal /\ nTrain' = nTrain
      /\ Analyses' = Analyses /\ EvenTable' = EvenTable
  BY DEF Next, vars, Call, RunFold, FoldRaises, EndRound, Average, Holdout, Measure,
         y, crossVal, nTrain, Analyses, Program, EvenTable, Alternate, Row
<1>2. /\ Len(y) \in Nat /\ round \in Nat /\ fold \in Nat /\ current \in Nat /\ crossVal \in Nat
      /\ Row = 1 .. Len(y)
  BY CallTypes DEF FoldInv
<1>3. analysis \in Seq(Report) /\ Len(analysis) \in Nat
  BY LenProperties DEF ReportInv
<1> HIDE DEF y, crossVal, nTrain, Analyses, EvenTable
<1>4. CASE UNCHANGED vars
  BY <1>1, <1>4 DEF vars, ReportInv
<1>5. CASE Call
  <2>1. analysis = <<>> /\ analysis' = analysis /\ round' = 0 /\ current' = 0
    BY <1>5 DEF Call, FoldInv, ReportInv
  <2>2. Len(analysis') = 0
    BY <1>3, <2>1, EmptySeq
  <2> QED
    BY <1>1, <2>1, <2>2 DEF ReportInv
<1>6. CASE RunFold
  <2> DEFINE size == FoldSize(fold + 1)
  <2>1. /\ phase = "fold" /\ phase' = "fold" /\ fold < crossVal
        /\ round' = round /\ current' = current + size
        /\ Analyses => size <= Len(y2)
    BY <1>6 DEF RunFold
  <2>2. size \in Nat
    <3>1. crossVal > 0
      BY <1>2, <2>1
    <3> QED
      BY <1>2, <3>1, FoldsFollow
  <2>3. PICK predicted \in Predictions(Row \ TestFold, TestFold) :
          analysis' = IF Analyses THEN analysis \o Lines(predicted, size) ELSE analysis
    BY <1>6 DEF RunFold
  <2>4. predicted \in [TestFold -> Class]
    <3>1. Row \ TestFold \in SUBSET Row
      OBVIOUS
    <3> QED
      BY <3>1, KnownClasses
  <2>5. CASE Analyses
    <3>1. analysis' = analysis \o Lines(predicted, size)
      BY <2>3, <2>5
    <3> HIDE DEF size
    <3>2. size <= FoldSize(fold + 1)
      BY <2>2 DEF size
    <3>3. /\ analysis' \in Seq(Report)
          /\ Len(analysis') = Len(analysis) + size
          /\ EvenTable => \A k \in DOMAIN analysis' : k <= Len(y) => analysis'[k].class = y[k]
      BY <2>1, <2>2, <2>4, <2>5, <3>1, <3>2, LinesAppended
    <3>4. IF round = 0 THEN Len(analysis) = current ELSE Len(analysis) >= Len(y)
      BY <2>1, <2>5 DEF ReportInv
    <3>5. IF round' = 0 THEN Len(analysis') = current' ELSE Len(analysis') >= Len(y)
      BY <1>2, <1>3, <2>1, <2>2, <3>3, <3>4
    <3> QED
      BY <1>1, <2>1, <2>5, <3>3, <3>5 DEF ReportInv
  <2>6. CASE ~Analyses
    BY <1>1, <2>1, <2>3, <2>6 DEF ReportInv
  <2> QED
    BY <2>5, <2>6
<1>7. CASE FoldRaises
  <2>1. phase = "fold" /\ phase' = "failed" /\ fold < crossVal
    BY <1>7 DEF FoldRaises
  <2>2. CASE analysis' = analysis
    BY <1>1, <2>1, <2>2 DEF ReportInv
  <2>3. CASE analysis' # analysis
    <3>1. Analyses /\ FoldSize(fold + 1) > Len(y2)
      BY <1>7, <2>3 DEF FoldRaises
    <3>2. PICK predicted \in Predictions(Row \ TestFold, TestFold) :
            analysis' = analysis \o Lines(predicted, Len(y2))
      BY <1>7, <2>3 DEF FoldRaises
    <3>3. predicted \in [TestFold -> Class]
      <4>1. Row \ TestFold \in SUBSET Row
        OBVIOUS
      <4> QED
        BY <4>1, KnownClasses
    <3> DEFINE n == Len(y2)
    <3>4. n \in Nat
      <4>1. nTrain + 1 \in Int /\ Len(y) \in Int /\ \A r \in nTrain + 1 .. Len(y) : y[r] \in Class
        BY <1>2, CallTypes
      <4>2. y2 \in Seq(Class)
        BY <4>1, SubSeqProperties DEF y2
      <4> QED
        BY <4>2, LenProperties
    <3> HIDE DEF n
    <3>5. FoldSize(fold + 1) \in Nat
      <4>1. crossVal > 0
        BY <1>2, <2>1
      <4> QED
        BY <1>2, <4>1, FoldsFollow
    <3>6. n <= FoldSize(fold + 1) /\ n <= Len(y2)
      BY <3>1, <3>4, <3>5 DEF n
    <3>7. analysis' = analysis \o Lines(predicted, n)
      BY <3>2 DEF n
    <3>8. /\ analysis' \in Seq(Report)
          /\ EvenTable => \A k \in DOMAIN analysis' : k <= Len(y) => analysis'[k].class = y[k]
      BY <2>1, <3>1, <3>3, <3>4, <3>6, <3>7, LinesAppended
    <3> QED
      BY <1>1, <2>1, <3>1, <3>8 DEF ReportInv
  <2> QED
    BY <2>2, <2>3
<1>8. CASE EndRound
  <2>1. /\ phase = "fold" /\ fold = crossVal /\ round' = round + 1 /\ analysis' = analysis
        /\ phase' # "call"
    BY <1>8 DEF EndRound
  <2>2. current = Len(y)
    <3>1. crossVal > 0 /\ current = Before(crossVal)
      BY <1>2, <2>1 DEF FoldInv
    <3> QED
      BY <3>1, FoldsFollow
  <2>3. Analyses => Len(analysis) >= Len(y)
    BY <1>2, <1>3, <2>1, <2>2 DEF ReportInv
  <2>4. round' # 0
    BY <1>2, <2>1
  <2> QED
    BY <1>1, <2>1, <2>3, <2>4 DEF ReportInv
<1>9. CASE Average \/ Holdout \/ Measure
  <2>1. analysis' = analysis /\ phase' \notin {"call", "fold"}
    BY <1>9 DEF Average, Holdout, Measure
  <2> QED
    BY <1>1, <2>1 DEF ReportInv
<1> QED
  BY <1>4, <1>5, <1>6, <1>7, <1>8, <1>9 DEF Next

(***************************************************************************)
(* When the classes alternate, nTrain is even and every fold begins at the *)
(* same class, line i of result_error_analysis.txt is about row i, for any *)
(* number of rows and folds and whatever the classifier predicts.          *)
(***************************************************************************)
THEOREM LinesReportTheirRows == Spec => []ReportsSampleIfEven
<1>1. Init => ReportInv
  <2>1. <<>> \in Seq(Report) /\ DOMAIN <<>> = {}
    BY EmptySeq
  <2> QED
    BY <2>1 DEF Init, ReportInv
<1>2. FoldInv /\ MarginsUnlessHalved /\ ReportInv /\ [Next]_vars
      => (FoldInv /\ MarginsUnlessHalved /\ ReportInv)'
  BY FoldNext, MarginsNext, ReportNext
<1>3. ReportInv => ReportsSampleIfEven
  BY DEF ReportInv, ReportsSampleIfEven, EvenTable
<1> QED
  BY <1>1, <1>2, <1>3, FoldInit, PTL DEF Spec
=============================================================================
