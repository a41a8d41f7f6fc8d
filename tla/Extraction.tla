----------------------------- MODULE Extraction ------------------------------
(***************************************************************************)
(* extractFunctions.bash: from the .c files of originals/ to a labelled    *)
(* random sample in extractedFunctions/, command by command.  Between runs *)
(* the user changes originals/, and any run can be interrupted, leaving    *)
(* its files where they are.  randomSorting.bash, which copies everything  *)
(* that was extracted under random numbers, is a command of his, too.      *)
(*                                                                         *)
(* A file of originals/ is a number (what the shell sorts it by), and its  *)
(* k-th function is <<file, k>>; functionParser.py, modelled by            *)
(* FunctionParser, is taken to find them all.  The name of an extracted    *)
(* function is the number it is made of, for it is a function of that.     *)
(***************************************************************************)
EXTENDS SequencesExt, Integers

CONSTANTS
  Original,   \* the files there may be in originals/
  Buggy,      \* those of them named <digits>b.c
  FunctionCount, \* FunctionCount[f]: the number of functions in f
  Base,       \* 10000: where the names of buggy functions begin
  Sample,     \* 100: the number of functions selected per class
  Prefix      \* 100 .. 999: the numbers that randomSorting.bash draws from

ASSUME ExtractionAssumption ==
  /\ Original \subseteq Nat \ {0} /\ IsFiniteSet(Original) /\ Buggy \subseteq Original
  /\ FunctionCount \in [Original -> Nat]
  /\ Base \in Nat \ {0} /\ Sample \in Nat /\ Prefix \subseteq Nat

Class == {0, 1}
ClassOf(f) == IF f \in Buggy THEN 1 ELSE 0

VARIABLES
  originals,    \* originals/
  step,         \* the command being run, "idle" when the script is not
  uncommented,  \* uncommented/: the files gone through gcc and fixCurlyBraces.py
  combo,        \* combo_0 and combo_1: the functions in them, in order
  parsed,       \* how far a parser is in its combo file, or randomSorting.bash in its list
  prep,         \* extractedFunctions_prep/: the function under each name
  tempBash,     \* temp.bash is there, in extractedFunctions_prep/
  script,       \* its cp commands that the script has still to run
  extracted     \* extractedFunctions/: the function under each name

vars == <<originals, step, uncommented, combo, parsed, prep, tempBash, script, extracted>>

\* A directory without a file, and one with a file written to it, under a name
\* that may be in use.
NoFiles == [n \in {} |-> <<>>]
Put(files, name, file) ==
  [n \in DOMAIN files \cup {name} |-> IF n = name THEN file ELSE files[n]]

Init ==
  /\ originals \in SUBSET Original
  /\ step = "idle"
  /\ uncommented = {}
  /\ combo = [c \in Class |-> <<>>]
  /\ parsed = 0
  /\ prep = NoFiles
  /\ tempBash = FALSE
  /\ script = <<>>
  /\ extracted = NoFiles

Goto(next) == step' = next

\* The user puts other files into originals/.
EditOriginals ==
  /\ step = "idle"
  /\ originals' \in SUBSET Original
  /\ UNCHANGED <<step, uncommented, combo, parsed, prep, tempBash, script, extracted>>

ClearPrep_KeepsFiles == UNCHANGED prep /\ tempBash' = FALSE   \* a slip
\* rm -f extractedFunctions_prep/*, temp.bash among them.
ClearPrep == prep' = NoFiles /\ tempBash' = FALSE

\* deleteFunctions.bash, a single rm.
DeleteFunctions ==
  /\ step = "idle"
  /\ ClearPrep
  /\ extracted' = NoFiles
  /\ uncommented' = {}
  /\ UNCHANGED <<originals, step, combo, parsed, script>>

\* extractFunctions.bash is run, and its first rm; then the other two.
Start ==
  /\ step = "idle"
  /\ ClearPrep
  /\ Goto("rm_extracted")
  /\ UNCHANGED <<originals, uncommented, combo, parsed, script, extracted>>

RmExtracted ==
  /\ step = "rm_extracted"
  /\ extracted' = NoFiles
  /\ Goto("rm_uncommented")
  /\ UNCHANGED <<originals, uncommented, combo, parsed, prep, tempBash, script>>

RmUncommented ==
  /\ step = "rm_uncommented"
  /\ uncommented' = {}
  /\ Goto("uncomment")
  /\ UNCHANGED <<originals, combo, parsed, prep, tempBash, script, extracted>>

\* The loop over the files of originals/.
Uncomment ==
  /\ step = "uncomment"
  /\ \/ \E f \in originals \ uncommented :
          /\ uncommented' = uncommented \cup {f}
          /\ Goto("uncomment")
     \/ originals \subseteq uncommented /\ UNCHANGED uncommented /\ Goto("cat")
  /\ UNCHANGED <<originals, combo, parsed, prep, tempBash, script, extracted>>

\* The functions of class c that files hold.
Functions(files, c) ==
  UNION {{<<f, n>> : n \in 1 .. FunctionCount[f]} : f \in {g \in files : ClassOf(g) = c}}

\* The order of files and then of the functions in them; of names, that of
\* filenames.sort() and of the shell's globs.
Precedes(x, y) == x[1] < y[1] \/ (x[1] = y[1] /\ x[2] < y[2])

InOrder(S) ==
  {q \in [1 .. Cardinality(S) -> S] : \A i, j \in DOMAIN q : i < j => Precedes(q[i], q[j])}

Cat ==
  /\ step = "cat"
  /\ \E noBugs \in InOrder(Functions(uncommented, 0)), bugs \in InOrder(Functions(uncommented, 1)) :
       combo' = [c \in Class |-> IF c = 0 THEN noBugs ELSE bugs]
  /\ parsed' = 0
  /\ Goto("parse_0")
  /\ UNCHANGED <<originals, uncommented, prep, tempBash, script, extracted>>

NameOf_NoBase(c, n) == n   \* without the + 10000
\* The name functionParser.py gives the n-th function of combo_<c>.
NameOf(c, n) == IF c = 0 THEN n ELSE n + Base

\* functionParser.py combo_<c>, one function; a name in use is written over.
Parse(c, this, next) ==
  /\ step = this
  /\ \/ /\ parsed < Len(combo[c])
        /\ parsed' = parsed + 1
        /\ prep' = Put(prep, NameOf(c, parsed + 1), combo[c][parsed + 1])
        /\ Goto(this)
     \/ /\ parsed = Len(combo[c])
        /\ parsed' = 0
        /\ Goto(next)
        /\ UNCHANGED prep
  /\ UNCHANGED <<originals, uncommented, combo, tempBash, script, extracted>>

\* What `ls <c>????` lists: five digits, the first of them c.
Listing(c) == {n \in DOMAIN prep : n \div Base = c}

AtMostSample(n) == IF n < Sample THEN n ELSE Sample   \* head -100

\* A slip: shuf -r, which may draw a line twice.
Selections_Repeat(c) ==
  [1 .. AtMostSample(Cardinality(Listing(c))) -> Listing(c)]

\* sort -R | head: any order of any so many of them.
Selections(c) ==
  {q \in [1 .. AtMostSample(Cardinality(Listing(c))) -> Listing(c)] : IsInjective(q)}

Numbered_On(q) == [k \in DOMAIN q |-> <<Len(script) + k, q[k]>>]   \* one nl for both
\* nl: the numbers of the lines, and the names on them.
Numbered(q) == [k \in DOMAIN q |-> <<k, q[k]>>]

\* A line of temp.bash per selected function, to copy it under its number in
\* the selection followed by its name.
Select(c, this, next) ==
  /\ step = this
  /\ \E q \in Selections(c) : script' = script \o Numbered(q)
  /\ tempBash' = TRUE
  /\ Goto(next)
  /\ UNCHANGED <<originals, uncommented, combo, parsed, prep, extracted>>

\* source temp.bash, one cp; then the rm of temp.bash.
Copy ==
  /\ step = "copy"
  /\ \/ /\ script # <<>>
        /\ extracted' = Put(extracted, Head(script), prep[Head(script)[2]])
        /\ script' = Tail(script)
        /\ Goto("copy")
        /\ UNCHANGED tempBash
     \/ script = <<>> /\ tempBash' = FALSE /\ Goto("done") /\ UNCHANGED <<script, extracted>>
  /\ UNCHANGED <<originals, uncommented, combo, parsed, prep>>

RandomSort ==
  /\ step = "idle"
  /\ Goto("sort")
  /\ UNCHANGED <<originals, uncommented, combo, parsed, prep, tempBash, script, extracted>>

\* What extractedFunctions_prep/ holds: temp.bash, too, if a run was stopped
\* before it removed that.  It is no function of any file, and listed last.
PrepFiles == IF tempBash THEN Put(prep, 2 * Base, <<0, 0>>) ELSE prep

RandomName_NoFile(number, file) == <<number, 0>>   \* without _$file
RandomName(number, file) == <<number, file>>

\* randomSorting.bash, one cp; nothing is removed before.
CopyRandomly ==
  /\ step = "sort"
  /\ \/ \E number \in Prefix, file \in DOMAIN PrepFiles :
          /\ Cardinality({before \in DOMAIN PrepFiles : before < file}) = parsed
          /\ parsed' = parsed + 1
          /\ extracted' = Put(extracted, RandomName(number, file), PrepFiles[file])
          /\ Goto("sort")
     \/ /\ parsed = Cardinality(DOMAIN PrepFiles)
        /\ Goto("sorted")
        /\ UNCHANGED <<parsed, extracted>>
  /\ UNCHANGED <<originals, uncommented, combo, prep, tempBash, script>>

\* The script ends, or is stopped before it does.
Exit ==
  /\ step # "idle"
  /\ Goto("idle")
  /\ parsed' = 0 /\ script' = <<>>
  /\ UNCHANGED <<originals, uncommented, combo, prep, tempBash, extracted>>

ParseNoBugs == Parse(0, "parse_0", "parse_1")
ParseBugs == Parse(1, "parse_1", "select_0")
SelectNoBugs == Select(0, "select_0", "select_1")
SelectBugs == Select(1, "select_1", "copy")

Next ==
  \/ EditOriginals \/ DeleteFunctions
  \/ Start \/ RmExtracted \/ RmUncommented \/ Uncomment \/ Cat
  \/ ParseNoBugs \/ ParseBugs \/ SelectNoBugs \/ SelectBugs \/ Copy
  \/ RandomSort \/ CopyRandomly \/ Exit

Spec == Init /\ [][Next]_vars
-----------------------------------------------------------------------------
TypeOK ==
  /\ originals \subseteq Original /\ uncommented \subseteq Original
  /\ step \in {"idle", "rm_extracted", "rm_uncommented", "uncomment", "cat",
               "parse_0", "parse_1", "select_0", "select_1", "copy", "done", "sort", "sorted"}
  /\ parsed \in Nat
  /\ DOMAIN prep \subseteq Nat
  /\ \A name \in DOMAIN extracted : name[1] \in 1 .. Sample \cup Prefix /\ name[2] \in Nat

\* yColumn.py: the class it reads off a name.
LabelOf(name) == IF name[2] \div Base = 1 THEN 1 ELSE 0

(***************************************************************************)
(* README:5.  A file named ..._1... holds a vulnerable function, any other *)
(* one a function without: the labels yColumn.py makes of the names are    *)
(* right, although both classes are numbered from 1 in one directory.      *)
(***************************************************************************)
LabelsAreRight ==
  \A name \in DOMAIN extracted : LabelOf(name) = ClassOf(extracted[name][1])

(***************************************************************************)
(* A run that ends has selected from the originals it was started on and   *)
(* from nothing else, whatever an earlier run left when it was stopped.    *)
(***************************************************************************)
NothingStale ==
  step = "done" =>
    \A name \in DOMAIN extracted : \E c \in Class : extracted[name] \in Functions(originals, c)

ExtractedFrom(c) == {name \in DOMAIN extracted : ClassOf(extracted[name][1]) = c}

(***************************************************************************)
(* A run that ends has selected as many different functions of each class  *)
(* as it should: Sample of them, or all there are.                         *)
(***************************************************************************)
SampleComplete ==
  step = "done" => \A c \in Class :
    /\ Cardinality(ExtractedFrom(c)) =
         AtMostSample(Cardinality(Functions(originals, c)))
    /\ \A x, y \in ExtractedFrom(c) : extracted[x] = extracted[y] => x = y

(***************************************************************************)
(* However the numbers fall, and whatever is in extractedFunctions/ when   *)
(* randomSorting.bash begins, every function extracted is there in the end.*)
(***************************************************************************)
SortedCompletely ==
  step = "sorted" =>
    \A name \in DOMAIN prep : \E x \in DOMAIN extracted :
      x[2] = name /\ extracted[x] = prep[name]

(***************************************************************************)
(* Sorted by name, the classes alternate as far as the smaller one goes:   *)
(* the first rows of the tables made of these files, which the classifiers *)
(* are trained on, are half of one class and half of the other.            *)
(***************************************************************************)
ClassesAlternate ==
  step = "done" => \A name \in DOMAIN extracted :
    LET before(c) == Cardinality({x \in ExtractedFrom(c) : Precedes(x, name)})
        this == ClassOf(extracted[name][1])
    IN  before(this) < Cardinality(ExtractedFrom(1 - this)) => before(0) - before(1) = this
=============================================================================
