--------------------------- MODULE CrossValidation ---------------------------
(***************************************************************************)
(* One call of cmCalc, the function that performanceCalc.py, classify.py,  *)
(* classify_pca.py and classify_bruteforce.py each have a copy of, and the *)
(* metrics that are computed of the confusion matrix it returns.           *)
(*                                                                         *)
(* A row is its place below the header.  What a classifier predicts is any *)
(* of the classes it has seen.                                             *)
(***************************************************************************)
EXTENDS Integers, Sequences, FiniteSets

CONSTANT Calls   \* the calls there may be, each with all that it depends on

Script == {"performanceCalc", "classify", "classify_pca", "classify_bruteforce"}
Class == {0, 1}
Rounds == 10    \* range(0,10)

ASSUME CrossValidationAssumption ==
  \A c \in Calls :
    /\ c.program \in Script           \* the script whose cmCalc is called
    /\ c.classifierID \in 0 .. 6     \* its first argument: 2 is k-means, 5 a forest
    /\ c.crossVal \in Nat            \* the number of folds, 0 for none
    /\ c.nTrain \in Nat              \* rows to train on when there are no folds
    /\ c.y \in Seq(Class) /\ Len(c.y) <= 2 * c.nTrain   \* the classes of the rows

VARIABLES
  call,     \* the call
  phase,    \* "call", "fold", "holdout", "average", "measure", "done" or "failed"
  round,    \* rounds completed, a round being a run over all the folds
  fold,     \* folds of this round completed
  current,  \* rows of this round tested
  cm,       \* the confusion matrix, cm[truth][prediction]
  analysis, \* result_error_analysis.txt: the class and the prediction it compares
  halved    \* history: some fold has been counted as half right of either class

vars == <<call, phase, round, fold, current, cm, analysis, halved>>

Program == call.program
classifierID == call.classifierID
crossVal == call.crossVal
nTrain == call.nTrain
y == call.y

Row == DOMAIN y
y2_OneEarlier == SubSeq(y, nTrain, Len(y))   \* a slip
y2 == SubSeq(y, nTrain + 1, Len(y))

Init ==
  /\ call \in Calls
  /\ phase = "call"
  /\ round = 0 /\ fold = 0 /\ current = 0
  /\ cm = [c \in Class |-> [d \in Class |-> 0]]
  /\ analysis = <<>>
  /\ halved = FALSE

\* KFold accepts at least two folds and no more than there are rows.
Call ==
  /\ phase = "call"
  /\ phase' = CASE crossVal = 0 -> "holdout"
                [] crossVal \in 2 .. Len(y) -> "fold"
                [] OTHER -> "failed"
  /\ UNCHANGED <<call, round, fold, current, cm, analysis, halved>>

\* KFold: consecutive folds, the first of them one row larger.
FoldSize(k) == Len(y) \div crossVal + (IF k <= Len(y) % crossVal THEN 1 ELSE 0)
TestFold == current + 1 .. current + FoldSize(fold + 1)

Known(train) == IF classifierID = 2 THEN Class ELSE {y[r] : r \in train}
Predictions(train, test) == [test -> Known(train)]

\* Some classifiers want two rows, or two classes, to be fitted to.
MayRaise(train) == Cardinality({y[r] : r \in train}) < 2

Confusion_Transposed(predicted) ==   \* the arguments in the other order
  [c \in Class |-> [d \in Class |->
     Cardinality({r \in DOMAIN predicted : y[r] = d /\ predicted[r] = c})]]
Confusion(predicted) ==
  [c \in Class |-> [d \in Class |->
     Cardinality({r \in DOMAIN predicted : y[r] = c /\ predicted[r] = d})]]

Single_Predicted(predicted) ==   \* of the predictions alone
  \A q, r \in DOMAIN predicted : predicted[q] = predicted[r]
\* confusion_matrix has one entry: truths and predictions are all one class.
Single(predicted) ==
  \E c \in Class : \A r \in DOMAIN predicted : y[r] = c /\ predicted[r] = c

\* What is counted instead of the single entry n, with integer division.
Halves(n) == [c \in Class |-> [d \in Class |-> IF c = d THEN n \div 2 ELSE 0]]

FoldMatrix(predicted) ==
  IF Single(predicted) THEN Halves(Cardinality(DOMAIN predicted)) ELSE Confusion(predicted)

Plus(m, n) == [c \in Class |-> [d \in Class |-> m[c][d] + n[c][d]]]

\* Only classify.py writes an error analysis: the j-th line of a fold compares
\* its j-th prediction with y2[j].
Analyses == Program = "classify"
Lines(predicted, n) ==
  [j \in 1 .. n |-> [class |-> y2[j], predicted |-> predicted[current + j]]]

RunFold ==
  /\ phase = "fold" /\ fold < crossVal
  /\ Analyses => FoldSize(fold + 1) <= Len(y2)
  /\ \E predicted \in Predictions(Row \ TestFold, TestFold) :
       /\ cm' = Plus(cm, FoldMatrix(predicted))
       /\ halved' = (halved \/ Single(predicted))
       /\ analysis' = IF Analyses THEN analysis \o Lines(predicted, FoldSize(fold + 1))
                                  ELSE analysis
  /\ fold' = fold + 1
  /\ current' = current + FoldSize(fold + 1)
  /\ UNCHANGED <<call, phase, round>>

\* The classifier raises, or y2[j] is past the end.
FoldRaises ==
  /\ phase = "fold" /\ fold < crossVal
  /\ phase' = "failed"
  /\ \/ MayRaise(Row \ TestFold) /\ UNCHANGED analysis
     \/ /\ Analyses /\ FoldSize(fold + 1) > Len(y2)
        /\ \E predicted \in Predictions(Row \ TestFold, TestFold) :
             analysis' = analysis \o Lines(predicted, Len(y2))
  /\ UNCHANGED <<call, round, fold, current, cm, halved>>

\* performanceCalc.py has one round, the others a second one for forests alone.
Averages == Program # "performanceCalc" /\ classifierID = 5
LastRound == ~Averages \/ round + 1 = Rounds

EndRound ==
  /\ phase = "fold" /\ fold = crossVal
  /\ round' = round + 1
  /\ IF LastRound
       THEN /\ phase' = IF Averages THEN "average" ELSE "measure"
            /\ UNCHANGED <<fold, current>>
       ELSE fold' = 0 /\ current' = 0 /\ UNCHANGED phase
  /\ UNCHANGED <<call, cm, analysis, halved>>

Mean_OverFolds(n) == n \div (Rounds * crossVal)
Mean(n) == n \div Rounds

Average ==
  /\ phase = "average"
  /\ cm' = [c \in Class |-> [d \in Class |-> Mean(cm[c][d])]]
  /\ phase' = "measure"
  /\ UNCHANGED <<call, round, fold, current, analysis, halved>>

x1 == {r \in Row : r <= nTrain}
x2 == {r \in Row : r > nTrain}

\* Without folds: x1 to train on, x2 to test; a matrix of one entry is returned
\* as it is, and metrics.py looks for four.
Holdout ==
  /\ phase = "holdout"
  /\ \/ /\ x1 # {} /\ x2 # {}
        /\ \E predicted \in Predictions(x1, x2) :
             /\ cm' = Confusion(predicted)
             /\ phase' = IF Single(predicted) THEN "failed" ELSE "measure"
     \/ (MayRaise(x1) \/ x2 = {}) /\ phase' = "failed" /\ UNCHANGED cm
  /\ UNCHANGED <<call, round, fold, current, analysis, halved>>

Entries(m, c) == m[c][0] + m[c][1]
Total(m) == Entries(m, 0) + Entries(m, 1)

\* infoGain divides by the number of rows, and recall, which performanceCalc.py
\* does not compute, by that of class 1.
Measure ==
  /\ phase = "measure"
  /\ phase' = IF \/ Total(cm) = 0
                 \/ Program # "performanceCalc" /\ Entries(cm, 1) = 0
                THEN "failed" ELSE "done"
  /\ UNCHANGED <<call, round, fold, current, cm, analysis, halved>>

Next == Call \/ RunFold \/ FoldRaises \/ EndRound \/ Average \/ Holdout \/ Measure

Spec == Init /\ [][Next]_vars
-----------------------------------------------------------------------------
TypeOK ==
  /\ call \in Calls
  /\ phase \in {"call", "holdout", "fold", "average", "measure", "done", "failed"}
  /\ round \in 0 .. Rounds /\ fold \in 0 .. crossVal /\ current \in 0 .. Len(y)
  /\ cm \in [Class -> [Class -> Nat]]
  /\ analysis \in Seq([class : Class, predicted : Class])
  /\ halved \in BOOLEAN

RowsOf(c, n) == Cardinality({r \in 1 .. n : y[r] = c})

\* The rows of class c tested so far: those of the rounds before this one, which
\* is over when phase is "average", and those of its folds.
Tested(c) == LET before == IF phase = "average" THEN round - 1 ELSE round
             IN  before * RowsOf(c, Len(y)) + RowsOf(c, current)

Summing == phase \in {"call", "fold", "average"}

(***************************************************************************)
(* classify.py:17.  The matrix that is summed up compares predicted with   *)
(* actual classes: it counts each tested row once, under its class, unless *)
(* a fold has been halved, because it was all of one class, in truth and   *)
(* as predicted; and without folds it does so in any case.                 *)
(***************************************************************************)
MarginsUnlessHalved ==
  /\ Summing /\ ~halved => \A c \in Class : Entries(cm, c) = Tested(c)
  /\ phase = "measure" /\ crossVal = 0 =>
       \A c \in Class : Entries(cm, c) = RowsOf(c, Len(y)) - RowsOf(c, nTrain)

Alternate == \A r \in Row : r > 1 => y[r] # y[r - 1]

\* What the tables made by extractFunctions.bash and getStats.bash are, as far as
\* the smaller class goes, with two rows to train on and two to test each time.
SoundTable ==
  /\ Alternate /\ nTrain >= 2
  /\ \/ crossVal = 0 /\ Len(y) >= nTrain + 2
     \/ crossVal >= 2 /\ 2 * crossVal <= Len(y) /\ Len(y) = 2 * nTrain

(***************************************************************************)
(* On rows of alternating classes, with two of them to a fold, no fold is  *)
(* halved and no step raises: two classes are left to train on, y2 is long *)
(* enough for the error analysis, and no metric divides by zero, not even  *)
(* after the averages of a forest have been rounded down.                  *)
(***************************************************************************)
SoundTablePasses == SoundTable => ~halved /\ phase # "failed"

(***************************************************************************)
(* Folds of two rows are enough, whatever the classes, for the matrix not  *)
(* to be empty, in which case infoGain would divide by zero: halving loses *)
(* one row of an odd fold, and all of a fold of one row.  The averages of  *)
(* a forest, each rounded down, lose at most one row of either class.      *)
(***************************************************************************)
FewRowsLost ==
  phase = "measure" /\ crossVal > 0 =>
    /\ 2 * crossVal <= Len(y) => Total(cm) > 0
    /\ Averages /\ ~halved =>
         \A c \in Class : RowsOf(c, Len(y)) - Entries(cm, c) \in {0, 1}

(***************************************************************************)
(* classify.py:136.  result_error_analysis.txt reports each sample: line i *)
(* is about row i, when the classes alternate, nTrain is even, and every   *)
(* fold begins at the same class; y2 is then the same as any fold, which   *)
(* it is compared with the predictions of.                                 *)
(***************************************************************************)
ReportsSampleIfEven ==
  /\ Alternate /\ nTrain % 2 = 0
  /\ crossVal > 0 /\ Len(y) % (2 * crossVal) = 0
  => \A i \in DOMAIN analysis : i <= Len(y) => analysis[i].class = y[i]
=============================================================================
