----------------------------- MODULE BruteForce ------------------------------
(***************************************************************************)
(* The last block of classify_bruteforce.py: a line of                     *)
(* classify_result_bruteforce.txt for every set of feature columns.  The   *)
(* call of cmCalc and its metrics are the subject of CrossValidation; here *)
(* they succeed or end the program.                                        *)
(***************************************************************************)
EXTENDS SequencesExt, Order

\* The columns of allStats.txt when every feature is selected: the names that
\* getStats.bash's *txt expands to, in order.
StatsOrder ==
  <<"arrowCount", "charCount0", "charCount1", "charCount2", "charDiversity0",
    "charDiversity1", "charDiversity2", "entropy0", "entropy1", "entropy2",
    "forCount", "ifComplexity", "ifCount", "maxNestingDepth", "whileCount">>

CONSTANT Selections   \* the sets of features that may have been selected

ASSUME BruteForceAssumption == Selections \subseteq SUBSET Range(StatsOrder)

VARIABLES
  columns,  \* the feature columns of allStats.txt
  i,        \* the number of the next set
  fout,     \* the lines below the header: the flags of a line, and the set it is of
  phase     \* "load", "loop", "done" or "failed"

subsetVars == <<columns, i, fout, phase>>

nFeatures == Len(columns)

SubsetInit == columns = <<>> /\ i = 1 /\ fout = <<>> /\ phase = "load"

LoadTable ==
  /\ phase = "load" /\ phase' = "loop"
  /\ \E selected \in Selections :
       columns' = Picked(StatsOrder, {k \in DOMAIN StatsOrder : StatsOrder[k] \in selected})
  /\ UNCHANGED <<i, fout>>

\* bin(i), without leading zeroes.
Digits(n) == IF n = 0 THEN 0 ELSE CHOOSE d \in 1 .. n : 2 ^ (d - 1) <= n /\ n < 2 ^ d
binStr(n) == [k \in 1 .. Digits(n) |-> (n \div 2 ^ (Digits(n) - k)) % 2]

featureCombo_NoZeroes(n) == binStr(n)   \* as they are before the zeroes are added
featureCombo(n) == [k \in 1 .. nFeatures - Digits(n) |-> 0] \o binStr(n)

\* The columns the classifier is given.
featureCombo2(n) == {columns[k] : k \in {l \in DOMAIN featureCombo(n) : featureCombo(n)[l] = 1}}

RunSubset ==
  /\ phase = "loop" /\ i < 2 ^ nFeatures
  /\ fout' = Append(fout, [flags |-> featureCombo(i), of |-> featureCombo2(i)])
  /\ i' = i + 1
  /\ UNCHANGED <<columns, phase>>

SubsetRaises == phase = "loop" /\ i < 2 ^ nFeatures /\ phase' = "failed" /\ UNCHANGED <<columns, i, fout>>

EndLoop == phase = "loop" /\ i >= 2 ^ nFeatures /\ phase' = "done" /\ UNCHANGED <<columns, i, fout>>

SubsetNext == LoadTable \/ RunSubset \/ SubsetRaises \/ EndLoop

SubsetSpec == SubsetInit /\ [][SubsetNext]_subsetVars
-----------------------------------------------------------------------------
(***************************************************************************)
(* README:7.  The classifier is run with all subsets of the features:      *)
(* every set but the empty one has one line when the program is done, and  *)
(* no set has two at any time.  The flags of a line stand for the columns  *)
(* of allStats.txt, in order.                                              *)
(***************************************************************************)
EverySubsetOnce ==
  /\ \A k, l \in DOMAIN fout : fout[k].of = fout[l].of => k = l
  /\ phase = "done" => {fout[k].of : k \in DOMAIN fout} = (SUBSET Range(columns)) \ {{}}
  /\ \A k \in DOMAIN fout :
       /\ Len(fout[k].flags) = nFeatures
       /\ \A n \in 1 .. nFeatures : fout[k].flags[n] = 1 <=> columns[n] \in fout[k].of
=============================================================================
