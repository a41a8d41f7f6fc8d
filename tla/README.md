# Verification of the vulnerability detection tool

The repository holds the program behind *Machine Learning Methods for Software
Vulnerability Detection*: scripts that cut C sources into functions, measure
the functions, and train classifiers on the measurements; and a separate C++
program that classifies texts with suffix trees. About 1650 lines are program
(Python 2, bash and `suffixTrees/ST.cpp`); all the rest of the tree is data
(`originals/`, `dataset*/`, `enron/`).

Everything is sequential. There are no threads, no messages and no callbacks;
what makes this code hard is something else:

- **scanners that guess**: `functionParser.py` recognises functions by line
  patterns and a state variable, and a wrong guess is not noticed until later;
- **conventions between programs that nothing checks**: a class is a digit in a
  file name, a training set is the first rows of a table, a column number is
  counted from 0 here and from 1 there;
- **a long pipeline with no error handling**: any script may stop, and the ones
  after it run on what is there;
- **counts that must agree** although they are kept at different places (the
  nodes of the suffix tree, the folds of a confusion matrix), and divisions
  that rely on it;
- **boundaries**: classes of different sizes, odd numbers of files, folds of one
  row, ties.

## Inventory

| Component | Source | State | Operations | What makes it correct |
|---|---|---|---|---|
| function extraction | `extractFunctions.bash`, `deleteFunctions.bash` | `uncommented/`, `combo_0`, `combo_1`, `extractedFunctions_prep/`, `temp.bash`, `extractedFunctions/` | clear, uncomment, concatenate, parse, select, copy | the sample is complete, of the current originals, labelled rightly, alternating |
| function parser | `functionParser.py` | `state`, `functionNum`, `functionHead`, the open file | one row read | a file holds one function, whole |
| preprocessing | gcc, `fixCurlyBraces.py`, `discardChars.bash`, `countKeywords.bash` | none | one pass over a text | -- |
| trivial features | `arrowCount.py` ... `maxNestingDepth.py` | a counter, sometimes a state | one pass per file | the count is the count of what its name says |
| n-grams | `ngrams.py` | the items of all files, the columns chosen | count, choose, write | the two passes see the same files; rows are of one file |
| statistics pipeline | `getStats.bash`, `seqColumn.py`, `yColumn.py` | `extractedFunctions/`, `stats/`, `allStats.txt`, the results | clear, copy, one script per column, paste, rank, classify | the columns are of the same files in the same order, and of this run |
| feature ranking | `performanceCalc.py` | `performanceTable`, `data_rearranged` | measure, sort, move columns | best features first, no use of the rows tested on later |
| classification | `classify.py`, `metrics.py` | the confusion matrix, `classify_result0.txt`, `result_error_analysis.txt` | fit, predict, add up folds, average | every row counted once, at its own class; nothing raises |
| other drivers | `classify_pca.py`, `classify_bruteforce.py` | the same; the number of the set of features | the same, per set of features | every set once |
| suffix tree | `ST.cpp`, `class SuffixTree` | `Node`s with `num`, `sum`, `level`; `freq` | `AddString`, `training`, `score` | an index of factors; its quotients are probabilities |
| suffix tree classifier | `ST.cpp`, `main` | file lists, shuffled ids, two trees, scores | list, split, train, test, score | training and test files are disjoint, classes balanced, matrices add up |
| word reader | `ST.cpp`, `get_words`, `stem` | a buffer, the set of words | read a word, clean it, stem it | words are stems of tokens, not empty |
| dataset helpers | `randomSorting.bash`, `combineStats.bash` | directories, tables | copy, paste | nothing is lost |

How they interact. `extractFunctions.bash` runs gcc, `fixCurlyBraces.py` and
`functionParser.py`, and leaves files `NNN_DDDDD` in `extractedFunctions/`.
`getStats.bash` runs a script per column over these files, each in the order of
their names; `paste` puts the columns side by side in `allStats.txt`;
`performanceCalc.py` makes `allStats_infoGain.txt` of it, and `classify.py`
reads either. `NNN` decides the order of the rows and so which are trained on,
and the first `D` is the class. `ST` shares nothing with them but the idea: it
reads `spam/` and `ham/`.

## Modules

| Module | What it is |
|---|---|
| `FunctionParser` | `functionParser.py` row by row; the row's characters are what its tests can tell apart |
| `FunctionSlicer` | abstract specification: the output files are intervals of the source, in order |
| `CSource` | the texts the parser is run on, generated with the knowledge of where each function lies |
| `ParserOnSource` | the two composed: what the parser makes of such a text, and what it ought to |
| `Extraction` | `extractFunctions.bash` command by command, with interruptions; `randomSorting.bash` |
| `StatsPipeline` | `getStats.bash` line by line, with commands that fail and runs that are stopped |
| `FeatureSelection` | `performanceCalc.py`, and the rows `classify.py` uses after it |
| `CrossValidation` | `cmCalc`, in the four programs that each have a copy of it, and the metrics |
| `Tables` | the last three, one at a time: the table that the first makes, the second orders and the third is called on is a parameter of the latter two |
| `SuffixTree` | `AddString` letter by letter |
| `SuffixTreeScore` | `score` letter by letter on a tree trained before; extends `SuffixTree` |
| `STClassifier` | `main` of `ST.cpp` |
| `TextFeatures` | the scripts that count arrows, braces, branches and loops |
| `NGrams` | both passes of `ngrams.py` |
| `WordReader` | `get_words`, `remove_punctuation`, `stem` |
| `BruteForce` | the loop of `classify_bruteforce.py` over all sets of features |
| `Scripts` | the last four, side by side: the user runs one of them |
| `Order` | sorting and picking by place, for the modules that need either |
| `...Proofs` | theorems of the module named; `FunctionParserProofs` also has those of `ParserOnSource`, `SuffixTreeProofs` those of `SuffixTreeScore`, `FeatureSelectionProofs` those of `StatsPipeline`, `ScriptsProofs` those of the four modules in `Scripts` |
| `DataInduction` | lemmas on induction, sums, sorting and powers of two, for the proofs |
| `MC...` | instances for TLC |

An operator whose name ends in an underscore and a few words, next to the
definition it varies and marked as a slip, is a plausible bug in that code. It
is used by no specification: it stands there so that each property can be seen
to fail when the code is wrong in that way (the list is in `PROJECT.json`,
"mutants").

### FunctionParser, CSource, ParserOnSource

A row is what the regular expressions of the program can see of it: its left
and right parentheses, counted up to two, and a set of marks ("sym": it has a
character no head may have; "ctl": `if (` and the like; "open": `){`; "close":
`}` in column 0). `state`, `functionNum` and `functionHead` are the program's
variables; `files` is the sequence of the files written and `pos` the number of
rows read. `ReadRow` is the loop body; its disjuncts are the paths through it:
`RejectRow` (l.18-20), `ScanRow` (l.21-24 without a file opened), `RejectHead`
(l.27-29), `OpenFile` (l.30-37) and `CopyRow` (l.38-41).

`CSource` is external: it is the C text. It emits rows by a small grammar and
records in `owner` which function each belongs to. A style is the set of the
kinds of row that a programmer uses, for the parser is right about some habits
of writing C only: functions begun and closed in column 0, in any mixture of
the other kinds; or heads with function pointers as well. Two more styles show
where a comment of the program is wrong about it (see Findings). The style is
part of the initial state, so that one run goes through all it is given.
`pointers` are the functions whose head takes a function pointer: the scanner
gives such a head up at its parentheses, and `NoneMissed` says that it finds
all other functions and not these.

### Extraction

One action per command, the three `rm` at the beginning included; `step` is the
command. A function is `<<file, k>>`;
names are numbers. `Parse` reduces `functionParser.py` to its naming (l.30-37),
for what it finds is the subject of the other module. `Exit` stops a script
anywhere; `EditOriginals` is the user between runs. `Selections` is what
`sort -R | head -100` can give. Base stands for 10000, Sample for 100, and
Prefix for the numbers `randomSorting.bash` draws. `tempBash` says that
`temp.bash` is there: from the first selection to the `rm` after the last copy,
and longer if the run is stopped in between. `randomSorting.bash` copies
whatever is in `extractedFunctions_prep/`, and so `temp.bash` too. The model
makes of it a file of no class, under a name after all others; that its label
is right in `LabelsAreRight` is the convention of `LabelOf` and `ClassOf` and
says nothing of the code.

### StatsPipeline

Its variables and actions are named after the script (`statsVars`, `StatsInit`,
`RunClassifier`, `StatsNext`), so that its proofs can stand beside those of
`FeatureSelection`. A cell of a table says whose value it is, which is all that
its alignment depends on. A column script opens its file, which empties it, and
may stop after any cell; or it ends before it has opened it, because it is not
found or an import fails, and leaves the file as it is. `unopened` remembers
which commands of this run did the latter. The next command runs all the same.
So a `yColumn` or `seqColumn` of another data set may stand beside new features
(l.3 removes `*txt` only), and if `performanceCalc.py` ends before its l.44,
`classify.py` may read the table of an earlier run: the script does both, and
`ResultIsFresh` says that nothing else of an earlier run is in a result. `cp`
may stop on the way. `performanceCalc.py` and `classify.py` are here only what
they do to the files: they refuse a table that is ragged, has no rows, or whose
last column is not of integers, and may fail at any other. The user selects
other features between runs, as the comments in the script ask for.

### FeatureSelection, CrossValidation

In `FeatureSelection` a column is known by the column of `allStats.txt` it came
from, so the table is a function from columns to columns. The gain of a feature
is any number: it is what a decision tree makes of it. `CanSucceed` and
`CanFail` say when scikit-learn and `metrics.py` raise.

`CrossValidation` is one call of `cmCalc` with all it depends on in `call`: the
program, the classifier, the number of folds, `nTrain` and the classes of the
rows. A classifier predicts, for each row, any class it has seen; k-means any
class. `RunFold` is the body of the loop over folds, with the error analysis
(l.28-37, `classify.py` only) and the matrix of one entry that is replaced by
half right of either class (l.39-40); `EndRound` and `Average` are the ten
rounds of a forest; `Holdout` is the call without folds; `Measure` says when
`infoGain` and `recall` divide by zero. `halved` is a history variable.

### SuffixTree, SuffixTreeScore

A node is the path to it, which is what makes the tree's properties easy to
say; `num` and `sum` are functions on the nodes there are. `Follow` and `Grow`
are the two branches of the loop of `AddString` (l.254-261); `Recurse` is the
call at its end. Since `AddString` is a tail call, its argument is the only
stack. Nothing bounds the length of a word, and a word of `MAX_DEEP` letters has a
node of a level that `freq` has no entry for: the write at l.261 is outside the
array, what the program does then is undefined, and `overrun` ends every
behaviour of the model. `LevelsWithinFreq` says when that happens. (The buffer
at l.90, which `infile>>buf` at l.98 fills without a width, is overrun by a token
of 1000 characters even before. Tokens have no characters to spare in the
model, so this is outside of it.) Words are of letters that `pattern` has, so l.252 never skips one:
`remove_punctuation` leaves only `a` to `z`, which `WordReader` checks.

In `SuffixTreeScore` the locals of `score` are variables. `p` is not reset
between starting letters, and the model keeps that. Scores are exact
fractions, not doubles. `testing` says that training is over.

### STClassifier

`phase` is the statement of `main`. The shuffles are all permutations, scores are
any of a given set, and a file in `unreadable` is one that `find_files` lists
and `get_words` cannot open: the loop at l.95 tests `eof` alone, so the program
does not get past it; the model stops there. The floating-point loop over
thresholds (l.468) is a sequence of hundredths.

### TextFeatures, NGrams, WordReader, BruteForce, Scripts

Each is a program, or a function, whose result depends on its input alone, and
they share nothing. `Scripts` is their composition for one run of the model
checker: the user runs one of them.

`TextFeatures` reads a file character by character, with the variables of
`arrowCount.py` and `maxNestingDepth.py`, and counts at the end of each line as
the four scripts with a `for line in fin` do; a keyword counts as one character.
`NextFile` begins another file, and sets the counters and `state` back as
arrowCount.py:16-17 does. `NGrams` keeps both passes, which read a file in
different ways. In `WordReader` a token is a sequence of characters, for the
functions it models take it apart one by one. `BruteForce` has the arithmetic
of l.144-150.

## Runs

| Run | Instance | What it shows |
|---|---|---|
| `house` | 9 rows, two styles, 17 kinds of row | the parser finds each function and each file is one function, whole; where heads take function pointers each function is found but those whose own head does; it implements `FunctionSlicer` |
| `oneline` (violation) | 6 rows | finding 1 |
| `early` (violation) | 6 rows | finding 2 |
| `extract` | 3 originals, Base 4, Sample 2, prefixes 1 and 2 | samples are complete, fresh, rightly labelled and alternating, and sorting at random loses nothing, in any sequence of runs and interruptions |
| `names` (violation) | 4 originals, Base 3 | finding 3 |
| `tables` | `getStats.bash`: 2 data sets of 1 and 2 files, 2 features, 2 runs, 2 failures. `performanceCalc.py`: 4 features, 3 gains, every table of up to 7 samples. `cmCalc`: `classify.py` with a single round, four folds, all tables of up to 5 rows and of 8; `classify_bruteforce.py` with a forest, two folds, up to 5 rows and 6 alternating; `performanceCalc.py` with two folds; `classify_pca.py` without | the rows of a result belong together, and what it may hold of an earlier run; what is true of the table written, blind selection, when it fails; the matrix counts each row once unless a fold is halved, nothing raises on alternating rows, few rows are lost, and the error analysis is right under the conditions stated |
| `sorted` (violation) | `FeatureSelection` with up to 5 samples | finding 4 |
| `score` | words of letters a and b up to length 3, and four words of length 4, one more than `freq` has levels for; 3 of them trained, any scored | the tree is the index of the factors of its words, its quotients are probabilities that add up to 1; `freq` adds up each level and is overrun by words of length 4 only; no division by zero; the score is bounded by a path, matches the longest known prefix, is 0 for unknown words only, and is returned |
| `split` | directories of 0..4 and 0..3 files, and 4 and 4; at most one unreadable; 3 pairs of scores; 4 thresholds | disjoint and balanced halves, training before testing, rows that add up and are monotone, termination |
| `scripts` | texts of up to 7 characters of three alphabets; up to 3 files of up to 2 items; tokens of up to 4 letters; sets of up to 4 features | counts against their definitions, the two passes of `ngrams.py`, words are stems that bring the forms of a word together, every set of features once |
| `substrings` (violation) | the same | finding 5 |
| `apostrophe` (violation) | the same | finding 6 |

Bounds. `MaxRows` 9 holds two functions with heads of several rows, or a
rejected head, its body and the next function; the parser's memory is its state
and the pending head, so a longer text repeats these. `Base` 4 with
three functions without bugs is the last size at which names do not collide,
and `names` is the next. `Sample` 2 is below and above the number of functions
of a class in different subsets of the originals. Two runs of `getStats.bash`
are what it takes for one to find what the other left; of two failures one can
spare a column and the other spoil one. Five rows in four folds, and eight, are
folds of one and of two rows, the largest with a remainder; a forest needs its
ten rounds, and so gets fewer rows. With three words of up to three letters a
word has repeated factors (`aaa`, `aba`), shares a path with another and
branches off it; `MAX_DEEP` 4 is reached by the words of four letters (`aaaa`,
`abab`), after words that are shorter and before. Directories of 3
and 4 files have an odd and an even smaller class; 0 and 1 leave nothing to
train or to test. `Thresholds` has ties (50, 100, 200 against scores in ratio
1:2, 1:1, 2:1). Seven samples are more than both programs use with `PerClass` 2
and `Total` 4, with all numbers of rows left to test from 0. Seven characters
are `-->` between other arrows, two blocks side by side in a third, and an
`else if` with its condition and another line. Every set of up to four of six
features has all positions of a flag, with and without leading zeroes.

Deadlock is checked for `extract` and `names`, where a user can always run a
script again. The other programs end, at their last statement, at a named bound
or, in `score`, where `freq` has been overrun, and say so in their cfg.

Fairness. `ST` is one thread that nothing else competes with, so `WF` of the
whole next-state relation is what running it means: `STClassifier!Spec` has it, and
`ScoreSpec` has it for the steps of a call that has begun (whether another word is
scored is up to the data). `EndsOrIsCaught` and `ScoreReturns` are checked
under it. No other specification claims liveness: the scripts may be stopped at
any point.

## Properties, and the hazards they are for

`PROJECT.json` lists each hazard at its line. In words:

- *Stale heads, rows in two files, bodies that do not end* (`FunctionParser`):
  `FilesAreDisjoint`, `BodyEndsAtFirstBrace`, `StateTwoMeansBody` (finding 1), and
  the refinement `SlicerSpec`;
  against the text, `OneFunctionPerFile`, `NoneMissed`, `FilesOpenAtHeads`.
- *Leftovers of an interrupted run, labels, alternation* (`Extraction`):
  `NothingStale`, `SampleComplete`, `LabelsAreRight`, `ClassesAlternate`,
  `SortedCompletely`. Alternation matters two programs later: `FailsOnlyIfShort`
  and `SoundTablePasses` show that with alternating classes two rows to test on
  are enough for `performanceCalc.py` and `classify.py` not to fail.
- *Commands that fail, columns of other runs* (`StatsPipeline`): `ResultAligned`,
  `ResultIsFresh`.
- *Folds of one class, rounding, the wrong rows* (`CrossValidation`):
  `MarginsUnlessHalved`, `SoundTablePasses`, `FewRowsLost`, `ReportsSampleIfEven`.
- *Columns counted from two ends, selection that peeks* (`FeatureSelection`):
  `SortedFromSecond`, `SelectionBlind`, `FailsOnlyIfShort`.
- *Counts that must agree, an array at its limit* (`SuffixTree`): `PhiAddsToOne`,
  `CountsAreOccurrences`, `LevelsWithinFreq`.
- *`p` not reset, divisions* (`SuffixTreeScore`): `WalkStaysInTree`,
  `ScoreWithinPath`, `LongestPrefixMatched`, `ZeroMeansUnknown`, `ScoreReturns`.
- *Split boundaries, ties, a file that is never read* (`STClassifier`):
  `NoTestFileTrained`, `ClassesBalanced`, `TrainBeforeTest`, `RowsAreCurve`,
  `EndsOrIsCaught`.
- *States that survive a file, patterns that overlap, passes that differ*
  (`Scripts`): `CountsArrowOperators`, `DepthIsNesting`, `KeywordsCountedOnce`,
  `SubstringsCounted` (finding 5), `PassesAgree`, `WordsAreStems`, `FormsMeet`,
  `EverySubsetOnce`.

Five hazards have no property, with the reason in their note: rates of nothing
tested are printed as nan and used by nothing; that principal components are
fitted to the rows tested on lies in values the model does not have; that
`getStats.bash` empties a directory before it knows the copy will work is simply
what it does; the order of names in a header and the carriage return of
`ngrams.py` are not in the model, and listed below.

## Findings

1. **`functionParser.py:26`** (run `oneline`). The comment at l.12 says state 2
   is "in a function body". A function closed on the row that opens it leaves
   the scan in state 2; what follows it is copied into its file until a row
   begins with `}`, the next functions included.
2. **`functionParser.py:40`** (run `early`). "If line starts with right curly
   brace, this signifies the end of the function": an inner brace in column 0
   ends the file too, as in `originals/54a.c`.
3. **`functionParser.py:32`** (run `names`). README:5 promises `_1` for
   vulnerable functions and `_0` for others. Non-vulnerable functions are
   numbered from 1 and vulnerable ones from 10001 in one directory, so the
   10000th function without a bug is listed, selected and labelled as one with,
   and the next ones share the names of vulnerable ones. The originals of
   the repository hold about half as many; README:4 invites others. Theorem
   `Labels` is the other half: with fewer the labels are right.
4. **`performanceCalc.py:98`** (run `sorted`). getStats.bash:42 says the tables
   have their columns sorted. The loop starts at entry 1 of the sorted list, so the
   best feature is in no column but, perhaps, the last, which is never
   written: `classify.py 0 1 ...` runs without the best feature. `SortedFromSecond`
   is what does hold.

5. **`whileCount.py:18`** (run `substrings`), and `ifCount.py:18` like it. Their
   l.3 says "Compute the number of "while" substrings", and of "if". `re.match`
   looks at the beginning of a line, so the `while` of `} while (x);` and the `if`
   of `else if (x)` are not counted. `KeywordsCountedOnce` is what they count.
6. **`ST.cpp:49`** (run `apostrophe`). The comment at l.43 says that symbols other
   than letters and `'` are removed. The test keeps letters only; the 27th
   letter that `pattern` (l.235) has for the apostrophe is never met.

Seen while reading, without a run of their own:

- `classify.py:29` compares the predictions of a fold with `y2`, the second half
  of the rows; `ReportsSampleIfEven` says when that makes no difference.
- `classify.py:40` counts a fold of one class, all right, as half right of either
  class, and loses a row if its size is odd; `FewRowsLost` bounds the loss.
- `getStats.bash:43` calls the first argument of `performanceCalc.py` samples per
  class, `performanceCalc.py:39` the total; `SelectionBlind` depends on it.
- `getStats.bash:10` may remove what l.11 is to copy, if the argument is
  `extractedFunctions` itself.
- `classify_bruteforce.py:140` names the features in another order than the
  columns have.
- `ifComplexity.py:19` counts an `else` only with parentheses after it on its
  line, so that a plain `else` is never counted.
- Method 2 of `entropy.py:34` deletes the digits and then replaces digits by
  keywords, which does nothing; `discardChars.bash` has the order that the
  comment means.
- `ngrams.py:33` stops the first pass of a file at a carriage return, which the
  comment calls preventing a character, and l.68 does not stop the second.

## What is proved

With TLAPS, for every value of the constants that the named assumptions allow:

| Theorem | States | Argument |
|---|---|---|
| `FunctionParserProofs!Invariance` | `Spec => []IInv` | `IInv` below, one step per disjunct of `ReadRow` |
| `Contiguity`, `Disjointness`, `BodyEnd` | the three safety properties of the files | conjuncts of `IInv` |
| `Refinement` | `Spec => SlicerSpec` | `IInv` at each step, `Skip`, `Cut` or `Extend` |
| `ScannerOnReadableText` | `SystemSpec => []SystemInv`, on readable styles | `SystemInv` below |
| `FilesAreFunctions`, `NothingIsMissed`, `OpenedAtHeads` | `OneFunctionPerFile`, `NoneMissed`, `FilesOpenAtHeads`, on readable styles | from `SystemInv`; for `NoneMissed` its part `Found` |
| `ExtractionProofs!Labels` | `LabelsAreRight`, if `FewFunctions` | `LabelInv`: a name below `2 * Base` has first digit 1 exactly if its function is of a buggy file |
| `Freshness` | `NothingStale`, if `FewFunctions` | `ClearInv`: `script` is empty until it is written; `FreshInv`: from its third `rm` on, everything a run has in any directory is of the current originals |
| `NoneLostBySorting` | `SortedCompletely`, if `FewFunctions` | `SortInv`: what ranks below `parsed` has been copied, and no later copy is over it |
| `FullSample`, `Alternation` | `SampleComplete`, `ClassesAlternate`, if `FewFunctions` | `PrepInv`: the names given are one-to-one with the functions parsed; `PickInv`: what is copied, and what is still to be, of either class is a selection under its numbers |
| `CrossValidationProofs!Margins` | `MarginsUnlessHalved` | `FoldInv`: `current` is the closed form of the folds so far; a matrix adds the rows of its fold |
| `SoundPasses` | `SoundTablePasses` | `PassInv`: a fold of two alternating rows holds both classes |
| `LittleIsLost` | `FewRowsLost` | `LossInv`: each fold leaves two rows in the matrix or more; of means of ten rounds one is not 0 |
| `LinesReportTheirRows` | `ReportsSampleIfEven` | `ReportInv`: a line of the first round is about the row it is written for; rows of one parity are of one class |
| `FeatureSelectionProofs!Blindness` | `SelectionBlind`, if `2 * PerClass <= Total` | what is read lies within the slice |
| `EnoughRows` | `FailsOnlyIfShort`, if also `PerClass >= 2` | neighbours are of both classes |
| `BestFeatureMayBeMissing` | `SortedFromSecond` | `SortInv`: the table holds each feature once, in order; the columns below `j` are its entries from the second on |
| `ResultsAreAligned`, `ResultsAreFresh` | `ResultAligned`, `ResultIsFresh` | `StatsInv`: every column that a script of this run has opened is the beginning of a full one, so its r-th cell, if any, is of the r-th file; rows of one length have the same columns |
| `SuffixTreeProofs!Probabilities`, `TreeSize` | `PhiIsProbability`, `RootCountsNodes` | `TrainInv`, of which `TrainTypeOK` is a part |
| `FreqOverrun` | `LevelsWithinFreq` | `LevelsInv`: a node of level `MAX_DEEP` is only made by a word that long, whose first descent, along the whole of it, is the one that overruns |
| `SharesAddToOne` | `PhiAddsToOne` | a step of the descent adds 1 to one child, and to `sum` of its parent |
| `TreeIsIndex` | `CountsAreOccurrences` | `IndexInv`: the count of a path and its occurrences still to come in `suffix` (`Pending`) are its occurrences |
| `NoDivisionByZero` | `WalkStaysInTree` | a call changes no tree, and `Probabilities` holds of every tree |
| `ScoresAreBounded` | `ScoreWithinPath` | a share is at most 1, and `p` is one deeper after each |
| `ZeroIsUnknown` | `ZeroMeansUnknown` | `LeftRootInv`: the walk has left the root exactly if something has been scored |
| `PrefixIsMatched` | `LongestPrefixMatched` | `FirstWalkInv`: until the first restart `p` is the part of the word read, and never leaves it afterwards; `PrefixClosed` |
| `STClassifierProofs!NoLeakage` | `NoTestFileTrained` | `SplitInv`: the ids are one-to-one; trees hold the first of them, the tests are of the rest |
| `TestsFollowTraining`, `SplitIsBalanced` | `TrainBeforeTest`, `ClassesBalanced` | `StageInv`: how far each phase has come |
| `RowsFormCurve` | `RowsAreCurve` | `RowsInv`: rows are matrices of the final scores; a higher threshold only moves files to one side |
| `ScriptsProofs!ArrowsAreOperators` | `CountsArrowOperators` | `ArrowInv`: `state` is the parity of the run of "-" the text ends with |
| `DepthsAreNestings` | `DepthIsNesting` | `NestingInv`: `depth` has gone up and down with the braces; the blocks open at a place are as many as it says there |
| `KeywordsAreCounted` | `KeywordsCountedOnce` | `LinesInv`: the lines counted are those that begin in the text, and `line` is what it has since; keyword and line determine each other |
| `TwoPassesAgree` | `PassesAgree` | `NGramsInv`: `listAll` is the files put end to end; an n-gram across a joint is one of `N - 1` |
| `WordsReadAreStems`, `FormsOfAWordMeet` | `WordsAreStems`, `FormsMeet` | `ReaderInv`; what each rule of `stem` makes of a word that has its suffix or not |
| `SubsetsAreTriedOnce` | `EverySubsetOnce` | `SubsetInv`: line k has the binary digits of k for flags; numbers and their digits determine each other |
| `EachProgramAlone` | `Spec => TextSpec /\ NGramsSpec /\ ReaderSpec /\ SubsetSpec` | each step of `Scripts` is one of one program |
| `ProgramsAreCorrect` | the seven properties of `scripts` hold of `Scripts!Spec` | the theorems above |

Why `IInv` is needed. That files are contiguous and disjoint is not inductive:
a file is opened with whatever `functionHead` holds. `HeadInv` adds that the pending
head, while one is pending (state 1), is an unbroken run of rows that ends with
the last one read, all after every file; `FilesInv` that each file is such a
run, the last one ending with the last row read while state is 2.

Why `SystemInv` is needed, and on what it depends. The scanner knows nothing of
functions, so what is proved is a relation between its state and the place of
the text: in a head it has that head, pending, from its first row; in a body it
copies or, if it gave the head up at a function pointer, it may have begun
another at a call, which has both its parentheses by the time the statement
ends, so that no statement of a lost body opens a file (`ScannerInv`). Each file is
a function without a pointer in its head, over unless the file is still written
(`FilesOwned`); and each such function has its file, from the step at which its
body begins and state becomes 2 (`Found`). A style is `Readable` if it
has no function on one row and no inner brace in column 0 (findings 1 and 2),
and not both heads with function pointers and block macros that look like heads,
for such a block in a lost body is taken for a function. The grammar of `CSource` is
an example of C, not a definition of it; the theorems are about all texts it
makes, of any length.

Why `PickInv` is needed. That the sample is complete says something of the last
state only. Before it, half a selection is in `extractedFunctions/` and half in
`temp.bash`; the invariant is about their union, which `Copy` does not change.

In `NoLeakage` the shuffle is only known to be a permutation, the size of either
directory is arbitrary and `TEST` is any percentage, so the theorem holds of
any split of this form. In `CrossValidation` the predictions are any function
into the classes seen, so what is proved holds for every classifier.

Assumptions. Each module names what its constants are: `RowAssumption`,
`ExtractionAssumption`, `FeatureSelectionAssumption`, `CrossValidationAssumption`
(a table has at most `2 * nTrain` rows: l.103 reads no more), `WordAssumption`
(words are not empty, and of a finite set), `STAssumption`,
`TextAssumption`, `NGramsAssumption` and `WordReaderAssumption` (files are
sequences), `BruteForceAssumption`, `SourceAssumption` (rows of a style are rows
of the parser) and `StatsPipelineAssumption` (a directory is finite, a feature
is listed once and is no `seqColumn` or `yColumn`). The theorems about `Extraction` also assume `FewFunctions`:
either class has fewer than `Base` functions, without which finding 3 applies.
That words are not empty and of letters only is not only assumed: `WordsAreStems`
finds it of the words of `get_words`.

Induction over data. The library's induction theorems take an operator as a
parameter, and no prover here can be given one. `DataInduction` has what is
needed without: `CountingUp` and `LeastNumber` are about a *set* of numbers, which
a proof defines as those its claim holds of; `SmallestSet` finds a smallest
member in a set of parts of a finite set. From these come the lemmas on
`SumFunctionOnSet` (a sum with one more summand, with one changed, of equal
summands), those on `Ascending` and `Picked` of `Order`, and `PowersOfTwo`, which
counts the parts of a set. For this the modules use definitions that the
provers can open: a sort is `SortedTables`, the set of what a sort may give,
which has one member, or `Ascending`; a choice by place is `Picked`; a sum is
`SumFunctionOnSet`; how many binary digits a number has is chosen, in
`BruteForce`, by the powers of two it lies between.

Only model-checked, and why:

- Liveness (`EndsOrIsCaught`, `ScoreReturns`), which is out of the prover's reach.
- The six findings: a violation is a behaviour, which TLC shows.

Every other property of a passing run is a theorem, for all constants that the
assumptions allow and so without the bounds of the runs.

## Not modelled, and why

- gcc, scikit-learn, `sort -R`, `random_shuffle`: external; any outcome they may have.
- Doubles: scores are fractions and thresholds hundredths. Rounding might make
  a tie of what is none; no property depends on it.
- `charCount.py`, `charDiversity.py` and `entropy.py`: the length of a text, the
  number of its characters and a sum of logarithms, one expression each.
- `fixCurlyBraces.py`, `discardChars.bash` and `countKeywords.bash`: one
  substitution after the other on a text, with no state; `CSource` generates
  what the first leaves.
- `combineStats.bash`: "currently faulty" in its own words, `cut` and `paste` for
  tables that the repository does not have.
- The values that principal components are made of (`classify_pca.py`).
- The vector overload of `get_words` and `preprocessing` in `ST.cpp`, which
  nothing calls; `display` and all printing.
- `originals/`, `dataset*/` and `enron/`. They are C files and mails that the
  programs read. Nearly all lines of the repository are theirs (more than half a
  million of C in `originals/` alone), so the part of *all* its lines that is
  modelled is below one in a hundred, whatever is modelled; of the 1650 lines of
  program it is most that change a state.
