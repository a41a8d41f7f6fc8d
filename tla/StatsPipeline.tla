---------------------------- MODULE StatsPipeline ----------------------------
(***************************************************************************)
(* getStats.bash: from the functions in extractedFunctions/ to a table of  *)
(* their features and the result of a classifier, line by line.  The       *)
(* script does not look at how its commands end: one that fails is         *)
(* followed by the next.  Between runs the user selects other features.    *)
(*                                                                         *)
(* A function's file is a number, what its name is sorted by.  A column is *)
(* the sequence of its cells; a cell says whose value it is, and Header is *)
(* the one on top.                                                         *)
(***************************************************************************)
EXTENDS SequencesExt, FiniteSetsExt, Order

CONSTANTS
  Dataset,        \* the directories that may be given as an argument
  FilesIn,        \* FilesIn[d]: the files in d
  FeatureScripts, \* the feature scripts there are, in the order of *txt
  Integral,       \* those whose values are integers
  MaxRuns,        \* bound: times the script is run
  MaxFailures     \* bound: the commands that may fail, of all runs

Header == 0
Extracted == "extractedFunctions"
None == "none"

ASSUME StatsPipelineAssumption ==
  /\ Extracted \notin Dataset /\ None \notin Dataset
  /\ FilesIn \in [Dataset -> SUBSET (Nat \ {Header})]
  /\ \A d \in Dataset : IsFiniteSet(FilesIn[d])
  /\ FeatureScripts \in Seq(Range(FeatureScripts)) /\ IsInjective(FeatureScripts)
  /\ {"seqColumn", "yColumn"} \cap Range(FeatureScripts) = {}
  /\ Integral \subseteq Range(FeatureScripts)
  /\ MaxRuns \in Nat /\ MaxFailures \in Nat

VARIABLES
  directory,  \* the files in each directory
  line,       \* the command to be run, "idle" when the script is not
  argument,   \* $1
  selected,   \* the feature scripts not commented out
  pending,    \* those still to be run
  stats,      \* stats/: the column in each file
  allStats,   \* allStats.txt: its rows, each a sequence of cells
  infoGain,   \* allStats_infoGain.txt
  result,     \* the table classify_result0.txt is about, <<>> if none
  runs,       \* times the script has been started
  failures,   \* commands that have failed
  unopened    \* history: this run's commands that ended before opening their file

statsVars == <<directory, line, argument, selected, pending, stats, allStats,
               infoGain, result, runs, failures, unopened>>

StatsColumn == {"seqColumn", "yColumn"} \cup Range(FeatureScripts)

StatsInit ==
  /\ directory = [d \in Dataset \cup {Extracted} |-> IF d = Extracted THEN {} ELSE FilesIn[d]]
  /\ line = "idle" /\ argument = None /\ failures = 0
  /\ selected = {} /\ pending = {} /\ unopened = {} /\ runs = 0
  /\ stats = [c \in {} |-> <<>>]
  /\ allStats = <<>> /\ infoGain = <<>> /\ result = <<>>

Fails == failures < MaxFailures /\ failures' = failures + 1
Succeeds == UNCHANGED failures

RmStats_None == UNCHANGED stats   \* a slip
\* rm -f stats/*txt, which spares seqColumn and yColumn.
RmStats == stats' = [c \in DOMAIN stats \ Range(FeatureScripts) |-> stats[c]]

\* The script is run, with an argument or without.
Start ==
  /\ line = "idle" /\ runs < MaxRuns
  /\ runs' = runs + 1
  /\ argument' \in Dataset \cup {Extracted, None}
  /\ selected' \in (SUBSET Range(FeatureScripts)) \ {{}}
  /\ pending' = selected' /\ unopened' = {}
  /\ RmStats
  /\ line' = IF argument' = None THEN "yColumn" ELSE "rm"
  /\ UNCHANGED <<directory, allStats, infoGain, result, failures>>

RmExtracted ==
  /\ line = "rm"
  /\ directory' = [directory EXCEPT ![Extracted] = {}]
  /\ line' = "cp"
  /\ UNCHANGED <<argument, selected, pending, runs, stats, allStats, infoGain, result,
                 failures, unopened>>

\* cp $1/*, which may stop on the way.
CopyArgument ==
  /\ line = "cp"
  /\ \E copied \in SUBSET directory[argument] :
       /\ directory' = [directory EXCEPT ![Extracted] = @ \cup copied]
       /\ IF copied = directory[argument] THEN Succeeds ELSE Fails
  /\ line' = "yColumn"
  /\ UNCHANGED <<argument, selected, pending, runs, stats, allStats, infoGain, result, unopened>>

\* What a column script writes if nothing stops it: os.walk and a sort.
FullColumn == <<Header>> \o Ascending(directory[Extracted])

\* A column script opens its file, which empties it, and may fail after any cell,
\* or before that: it is not found, or may not be executed, or an import fails.
WriteColumn(c) ==
  \/ UNCHANGED stats /\ unopened' = unopened \cup {c} /\ Fails
  \/ \E n \in 0 .. Len(FullColumn) :
       /\ stats' = [d \in DOMAIN stats \cup {c} |->
                      IF d = c THEN SubSeq(FullColumn, 1, n) ELSE stats[d]]
       /\ IF n = Len(FullColumn) THEN Succeeds ELSE Fails
       /\ UNCHANGED unopened

WriteYColumn ==
  /\ line = "yColumn"
  /\ WriteColumn("yColumn")
  /\ line' = "seqColumn"
  /\ UNCHANGED <<directory, argument, selected, pending, runs, allStats, infoGain, result>>

WriteSeqColumn ==
  /\ line = "seqColumn"
  /\ WriteColumn("seqColumn")
  /\ line' = "features"
  /\ UNCHANGED <<directory, argument, selected, pending, runs, allStats, infoGain, result>>

WriteFeature ==
  /\ line = "features"
  /\ \E c \in pending : WriteColumn(c) /\ pending' = pending \ {c}
  /\ UNCHANGED <<directory, line, argument, selected, runs, allStats, infoGain, result>>

\* The files there may be on the command line of paste.
PasteOrder == <<"seqColumn">> \o FeatureScripts \o <<"yColumn">>

\* The r-th row, as row.split() sees it: an empty cell is no cell.
PastedRow(r) ==
  LET there == Picked(PasteOrder, {p \in DOMAIN PasteOrder :
                 PasteOrder[p] \in DOMAIN stats /\ r <= Len(stats[PasteOrder[p]])})
  IN  [k \in DOMAIN there |-> [column |-> there[k], of |-> stats[there[k]][r]]]

\* The shell empties allStats.txt; paste exits when a file is missing, as one by
\* the name of *txt is when there is no feature.
Pasted ==
  IF {"seqColumn", "yColumn"} \subseteq DOMAIN stats /\ DOMAIN stats \cap Range(FeatureScripts) # {}
  THEN [r \in 1 .. Max({Len(stats[c]) : c \in DOMAIN stats}) |-> PastedRow(r)]
  ELSE <<>>

Paste ==
  /\ line = "features" /\ pending = {}
  /\ allStats' = Pasted
  /\ line' = "performanceCalc"
  /\ UNCHANGED <<directory, argument, selected, pending, runs, stats, infoGain, result,
                 failures, unopened>>

\* numpy makes no table of two dimensions of rows that differ in length.
IsTable_NonEmpty(rows) == rows # <<>>   \* a slip: ragged rows pass
IsTable(rows) == rows # <<>> /\ \A r \in DOMAIN rows : Len(rows[r]) = Len(rows[1])

\* It can be taken apart as x and y: the last column is of integers.
IsSplit(rows) ==
  /\ IsTable(rows)
  /\ Len(rows) > 1 => Last(rows[1]).column \in Integral \cup {"seqColumn", "yColumn"}

\* performanceCalc.py looks at the first row of x; classify.py classifies if there
\* is a column between the first and the last.
IsMeasurable(rows) == IsSplit(rows) /\ Len(rows) > 1
IsUsable(rows) == IsMeasurable(rows) /\ Len(rows[1]) > 2

\* performanceCalc.py empties allStats_infoGain.txt after its imports and its
\* arguments.  Measuring may fail on any table; FeatureSelection says when.
PerformanceCalc ==
  /\ line = "performanceCalc"
  /\ \/ /\ IsMeasurable(allStats) /\ infoGain' = allStats
        /\ UNCHANGED <<failures, unopened>>
     \/ infoGain' = <<>> /\ UNCHANGED <<failures, unopened>>
     \/ UNCHANGED infoGain /\ unopened' = unopened \cup {"performanceCalc"} /\ Fails
  /\ line' = "classify"
  /\ UNCHANGED <<directory, argument, selected, pending, runs, stats, allStats, result>>

\* classify.py on either table: it ends before it opens classify_result0.txt, or
\* with no line below its header, or with a result.
RunClassifier ==
  /\ line = "classify"
  /\ \E input \in {allStats, infoGain} :
       \/ UNCHANGED result
       \/ IsSplit(input) /\ result' = <<>>
       \/ IsUsable(input) /\ result' = input
  /\ line' = "end"
  /\ UNCHANGED <<directory, argument, selected, pending, runs, stats, allStats, infoGain,
                 failures, unopened>>

\* The script ends, or is stopped before it does.
Exit ==
  /\ line # "idle"
  /\ line' = "idle"
  /\ argument' = None /\ selected' = {} /\ pending' = {} /\ unopened' = {}
  /\ UNCHANGED <<directory, runs, stats, allStats, infoGain, result, failures>>

StatsNext ==
  \/ Start \/ RmExtracted \/ CopyArgument \/ WriteYColumn \/ WriteSeqColumn
  \/ WriteFeature \/ Paste \/ PerformanceCalc \/ RunClassifier \/ Exit

StatsSpec == StatsInit /\ [][StatsNext]_statsVars
-----------------------------------------------------------------------------
StatsTypeOK ==
  /\ DOMAIN directory = Dataset \cup {Extracted}
  /\ line \in {"idle", "rm", "cp", "yColumn", "seqColumn", "features",
               "performanceCalc", "classify", "end"}
  /\ DOMAIN stats \subseteq StatsColumn
  /\ \A c \in DOMAIN stats : \A k \in 2 .. Len(stats[c]) : stats[c][k - 1] < stats[c][k]
  /\ selected \subseteq Range(FeatureScripts) /\ pending \subseteq selected
  /\ unopened \subseteq StatsColumn \cup {"performanceCalc"}
  /\ failures \in 0 .. MaxFailures

ColumnsOf(rows) == {rows[1][k].column : k \in DOMAIN rows[1]}

(***************************************************************************)
(* Nothing checks the columns that paste puts side by side, and yet each   *)
(* row of a table there is a result of has the columns of the header, its  *)
(* features all of one function: a feature's column of an earlier run has  *)
(* been removed, and a short one makes the rows differ in length, on which *)
(* both programs fail.  And no feature is taken for the class where the    *)
(* last of them has values that are no integers, as entropy has: if        *)
(* yColumn.py leaves nothing, the feature in its place is refused.         *)
(***************************************************************************)
ResultAligned ==
  /\ \A r \in DOMAIN result : \A k \in DOMAIN result[r] :
       result[r][k].column = result[1][k].column
  /\ \A r \in DOMAIN result : \A k, l \in DOMAIN result[r] :
       {result[r][k].column, result[r][l].column} \subseteq Range(FeatureScripts) =>
         result[r][k].of = result[r][l].of
  /\ result # <<>> /\ Last(FeatureScripts) \in ColumnsOf(result) \ Integral =>
       Last(result[1]).column = "yColumn"

\* The cell is where a script of this run has put it, on the r-th row.
IsFresh(cell, r) ==
  /\ cell.column \in selected \cup {"seqColumn", "yColumn"}
  /\ r \in DOMAIN FullColumn /\ cell.of = FullColumn[r]

(***************************************************************************)
(* What an earlier run, interrupted or not, has left is not in a new       *)
(* result, save in two cases.  yColumn or seqColumn, which the rm of line  *)
(* 3 spares, is an earlier one's when its script has ended before opening  *)
(* it; and the table of an earlier run is classified when performanceCalc  *)
(* has ended before opening allStats_infoGain.txt.  Every other cell is    *)
(* of a feature selected in this run, or a class or number of this run,    *)
(* and on the r-th row stands the r-th function of extractedFunctions/.    *)
(***************************************************************************)
ResultIsFresh ==
  [][ result' # result /\ ("performanceCalc" \in unopened => result' = allStats) =>
        \A r \in DOMAIN result' : \A k \in DOMAIN result'[r] :
          result'[r][k].column \notin unopened => IsFresh(result'[r][k], r) ]_statsVars
=============================================================================
