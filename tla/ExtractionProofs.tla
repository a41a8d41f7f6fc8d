-------------------------- MODULE ExtractionProofs --------------------------
(***************************************************************************)
(* What extractFunctions.bash and randomSorting.bash leave behind, however *)
(* many originals there are, however often and wherever a run is stopped,  *)
(* as long as there are fewer functions of either class than names.        *)
(***************************************************************************)
EXTENDS Extraction, SequenceTheorems, FiniteSetTheorems, TLAPS

\* Under the names 1 .. Base - 1 and Base + 1 .. 2 * Base - 1 there is room.
FewFunctions == \A c \in Class : Cardinality(Functions(Original, c)) < Base

LabelInv ==
  /\ originals \subseteq Original /\ uncommented \subseteq Original
  /\ parsed \in Nat
  /\ \A c \in Class : /\ combo[c] \in Seq(Functions(Original, c))
                      /\ Len(combo[c]) < Base
  /\ \A n \in DOMAIN prep : /\ n \in Nat /\ n < 2 * Base
                            /\ n \div Base = 1 <=> prep[n][1] \in Buggy
  /\ script \in Seq(Nat \X DOMAIN prep)
  /\ \A name \in DOMAIN extracted :
       name[2] \div Base = 1 <=> extracted[name][1] \in Buggy

\* Nothing is to be copied while no run has got that far, and what has been
\* removed is gone.
ClearInv ==
  /\ step \in {"idle", "sort", "sorted", "rm_extracted", "rm_uncommented"} => script = <<>>
  /\ step \in {"rm_extracted", "rm_uncommented"} => DOMAIN prep = {}
  /\ step = "rm_uncommented" => DOMAIN extracted = {}

LEMMA ClearNext ==
  ASSUME ClearInv, [Next]_vars
  PROVE  ClearInv'
<1>1. CASE UNCHANGED vars
  BY <1>1 DEF vars, ClearInv
<1>2. CASE EditOriginals \/ DeleteFunctions \/ Exit
  <2>1. step' = "idle" /\ script' = <<>>
    BY <1>2 DEF EditOriginals, DeleteFunctions, Exit, Goto, ClearInv
  <2> QED
    BY <2>1 DEF ClearInv
<1>3. CASE Start
  <2>1. step' = "rm_extracted" /\ script' = <<>> /\ DOMAIN prep' = {}
    BY <1>3 DEF Start, ClearPrep, Goto, ClearInv, NoFiles
  <2> QED
    BY <2>1 DEF ClearInv
<1>4. CASE RmExtracted
  <2>1. step' = "rm_uncommented" /\ script' = <<>> /\ DOMAIN prep' = {} /\ DOMAIN extracted' = {}
    BY <1>4 DEF RmExtracted, Goto, ClearInv, NoFiles
  <2> QED
    BY <2>1 DEF ClearInv
<1>5. CASE RandomSort \/ CopyRandomly
  <2>1. step' \in {"sort", "sorted"} /\ script' = <<>>
    BY <1>5 DEF RandomSort, CopyRandomly, Goto, ClearInv
  <2> QED
    BY <2>1 DEF ClearInv
<1>6. CASE \/ RmUncommented \/ Uncomment \/ Cat \/ ParseNoBugs \/ ParseBugs
           \/ SelectNoBugs \/ SelectBugs \/ Copy
  <2>1. step' \in {"uncomment", "cat", "parse_0", "parse_1", "select_0", "select_1", "copy", "done"}
    BY <1>6 DEF RmUncommented, Uncomment, Cat, ParseNoBugs, ParseBugs, Parse, SelectNoBugs,
                SelectBugs, Select, Copy, Goto
  <2> QED
    BY <2>1 DEF ClearInv
<1> QED
  BY <1>1, <1>2, <1>3, <1>4, <1>5, <1>6 DEF Next

LEMMA FunctionsOf ==
  ASSUME NEW files \in SUBSET Original, NEW c \in Class
  PROVE  /\ Functions(files, c) \subseteq Functions(Original, c)
         /\ IsFiniteSet(Functions(Original, c))
         /\ \A x \in Functions(Original, c) : x[1] \in Buggy <=> c = 1
<1>1. Functions(files, c) \subseteq Functions(Original, c)
  BY DEF Functions
<1>2. \A x \in Functions(Original, c) : x[1] \in Buggy <=> c = 1
  BY DEF Functions, ClassOf, Class
<1>3. IsFiniteSet(Functions(Original, c))
  <2> DEFINE mine == {g \in Original : ClassOf(g) = c}
             of(f) == {<<f, n>> : n \in 1 .. FunctionCount[f]}
  <2>1. IsFiniteSet(mine)
    <3>1. mine \subseteq Original
      OBVIOUS
    <3> HIDE DEF mine
    <3> QED
      BY <3>1, ExtractionAssumption, FS_Subset
  <2>2. ASSUME NEW f \in Original
        PROVE  IsFiniteSet(of(f))
    <3>1. IsFiniteSet(1 .. FunctionCount[f])
      BY ExtractionAssumption, FS_Interval
    <3> DEFINE pair == [n \in 1 .. FunctionCount[f] |-> <<f, n>>]
    <3>2. pair \in Surjection(1 .. FunctionCount[f], of(f))
      BY DEF Surjection
    <3> HIDE DEF pair, of
    <3> QED
      BY <3>1, <3>2, FS_Surjection
  <2> DEFINE all == {of(f) : f \in mine}
  <2>3. IsFiniteSet(all)
    <3> DEFINE map == [f \in mine |-> of(f)]
    <3>1. map \in Surjection(mine, all)
      <4> HIDE DEF of, mine
      <4> QED
        BY DEF Surjection
    <3> HIDE DEF map, all, mine
    <3> QED
      BY <2>1, <3>1, FS_Surjection
  <2>4. \A T \in all : IsFiniteSet(T)
    BY <2>2
  <2>5. Functions(Original, c) = UNION all
    BY DEF Functions
  <2> HIDE DEF all
  <2> QED
    BY <2>3, <2>4, <2>5, FS_UNION
<1> QED
  BY <1>1, <1>2, <1>3

\* What cat puts together.
LEMMA Concatenated ==
  ASSUME NEW files \in SUBSET Original, NEW c \in Class, FewFunctions,
         NEW q \in InOrder(Functions(files, c))
  PROVE  q \in Seq(Functions(files, c)) /\ q \in Seq(Functions(Original, c)) /\ Len(q) < Base
<1> DEFINE S == Functions(files, c)
           T == Functions(Original, c)
<1>1. S \subseteq T /\ IsFiniteSet(T) /\ Cardinality(T) < Base
  BY FunctionsOf DEF FewFunctions
<1> HIDE DEF S, T
<1>2. Cardinality(S) \in Nat /\ Cardinality(S) <= Cardinality(T) /\ Cardinality(T) \in Nat
  BY <1>1, FS_Subset, FS_CardinalityType
<1>3. q \in [1 .. Cardinality(S) -> S]
  BY DEF InOrder, S
<1>4. q \in Seq(S) /\ q \in Seq(T) /\ Len(q) = Cardinality(S)
  <2>1. q \in Seq(S) /\ Len(q) = Cardinality(S)
    BY <1>2, <1>3
  <2>2. q \in [1 .. Cardinality(S) -> T]
    BY <1>1, <1>3
  <2> QED
    BY <1>2, <2>1, <2>2
<1>5. Len(q) < Base
  BY <1>1, <1>2, <1>4, ExtractionAssumption
<1> QED
  BY <1>4, <1>5 DEF S, T

\* The first digit of a name is the class.
LEMMA FirstDigit ==
  ASSUME NEW c \in Class, NEW n \in Nat, n < Base
  PROVE  /\ NameOf(c, n) \in Nat /\ NameOf(c, n) < 2 * Base
         /\ NameOf(c, n) \div Base = 1 <=> c = 1
<1>1. Base \in Nat \ {0}
  BY ExtractionAssumption
<1>2. n \div Base = 0
  BY <1>1
<1>3. (n + Base) \div Base = 1
  BY <1>1
<1> QED
  BY <1>1, <1>2, <1>3 DEF NameOf, Class

LEMMA SeqOfLarger ==
  ASSUME NEW A, NEW B, A \subseteq B, NEW q \in Seq(A)
  PROVE  q \in Seq(B)
<1>1. Len(q) \in Nat /\ q \in [1 .. Len(q) -> A]
  BY LenProperties
<1>2. q \in [1 .. Len(q) -> B]
  BY <1>1
<1> QED
  BY <1>1, <1>2

LEMMA LabelParse ==
  ASSUME LabelInv, FewFunctions, NEW c \in Class, NEW this, NEW next, Parse(c, this, next)
  PROVE  LabelInv'
<1>1. UNCHANGED <<originals, uncommented, combo, script, extracted>> /\ parsed \in Nat
  BY DEF Parse, LabelInv
<1>2. CASE parsed' = 0 /\ UNCHANGED prep
  BY <1>1, <1>2 DEF LabelInv
<1>3. CASE /\ parsed < Len(combo[c]) /\ parsed' = parsed + 1
           /\ prep' = Put(prep, NameOf(c, parsed + 1), combo[c][parsed + 1])
  <2> DEFINE k == parsed + 1
             x == combo[c][k]
             n == NameOf(c, k)
  <2>1. combo[c] \in Seq(Functions(Original, c)) /\ Len(combo[c]) < Base
    BY DEF LabelInv
  <2>2. k \in 1 .. Len(combo[c]) /\ k \in Nat /\ k < Base
    <3>1. Len(combo[c]) \in Nat /\ Base \in Nat
      BY <2>1, LenProperties, ExtractionAssumption
    <3> QED
      BY <1>1, <1>3, <2>1, <3>1
  <2>3. x \in Functions(Original, c)
    BY <2>1, <2>2, ElementOfSeq
  <2>4. x[1] \in Buggy <=> c = 1
    BY <2>3, FunctionsOf
  <2>5. n \in Nat /\ n < 2 * Base /\ (n \div Base = 1 <=> c = 1)
    BY <2>2, FirstDigit
  <2>0. prep' = Put(prep, n, x)
    BY <1>3
  <2> HIDE DEF x, n
  <2>6. /\ DOMAIN prep' = DOMAIN prep \cup {n} /\ prep'[n] = x
        /\ \A m \in DOMAIN prep : m # n => prep'[m] = prep[m]
    BY <2>0 DEF Put
  <2>7. ASSUME NEW m \in DOMAIN prep'
        PROVE  /\ m \in Nat /\ m < 2 * Base
               /\ m \div Base = 1 <=> prep'[m][1] \in Buggy
    <3>1. CASE m = n
      BY <2>4, <2>5, <2>6, <3>1
    <3>2. CASE m # n
      BY <2>6, <3>2 DEF LabelInv
    <3> QED
      BY <3>1, <3>2
  <2>8. script' \in Seq(Nat \X DOMAIN prep')
    <3>1. script \in Seq(Nat \X DOMAIN prep) /\ script' = script
      BY <1>1 DEF LabelInv
    <3>2. Nat \X DOMAIN prep \subseteq Nat \X DOMAIN prep'
      BY <2>6
    <3> DEFINE A == Nat \X DOMAIN prep
               B == Nat \X DOMAIN prep'
    <3> HIDE DEF A, B
    <3>3. script \in Seq(A) /\ A \subseteq B
      BY <3>1, <3>2 DEF A, B
    <3>4. script \in Seq(B)
      BY <3>3, SeqOfLarger
    <3> QED
      BY <3>1, <3>4 DEF B
  <2>9. parsed' \in Nat
    BY <1>1, <1>3
  <2> QED
    BY <1>1, <2>7, <2>8, <2>9 DEF LabelInv
<1> QED
  BY <1>2, <1>3 DEF Parse
\* The lines of temp.bash are of names there are.
LEMMA LabelSelect ==
  ASSUME LabelInv, NEW c \in Class, NEW this, NEW next, Select(c, this, next)
  PROVE  LabelInv'
<1>1. /\ UNCHANGED <<originals, uncommented, combo, parsed, prep, extracted>>
      /\ \E q \in Selections(c) : script' = script \o Numbered(q)
  BY DEF Select
<1>2. PICK q \in Selections(c) : script' = script \o Numbered(q)
  BY <1>1
<1> DEFINE A == Nat \X DOMAIN prep
           size == AtMostSample(Cardinality(Listing(c)))
<1>3. q \in [1 .. size -> Listing(c)]
  BY DEF Selections
<1>4. Listing(c) \subseteq DOMAIN prep /\ IsFiniteSet(Listing(c))
  <2>1. Listing(c) \subseteq DOMAIN prep
    BY DEF Listing
  <2>2. Listing(c) \in SUBSET Nat /\ \A n \in Listing(c) : n <= 2 * Base
    BY <2>1, ExtractionAssumption DEF LabelInv
  <2>3. 2 * Base \in Nat
    BY ExtractionAssumption
  <2> QED
    BY <2>1, <2>2, <2>3, FS_BoundedSetOfNaturals
<1>5. size \in Nat
  BY <1>4, FS_CardinalityType, ExtractionAssumption DEF AtMostSample
<1> HIDE DEF size
<1>6. Numbered(q) \in Seq(A)
  <2>1. DOMAIN q = 1 .. size /\ \A k \in 1 .. size : q[k] \in DOMAIN prep /\ k \in Nat
    BY <1>3, <1>4, <1>5
  <2>2. Numbered(q) \in [1 .. size -> A]
    BY <2>1 DEF Numbered
  <2> HIDE DEF A
  <2> QED
    BY <1>5, <2>2
<1>7. script \in Seq(A)
  BY DEF LabelInv
<1>8. script' \in Seq(A)
  <2> HIDE DEF A
  <2> QED
    BY <1>2, <1>6, <1>7, ConcatProperties
<1> QED
  BY <1>1, <1>8 DEF LabelInv

\* A file is copied under a name that ends in its own.
LEMMA LabelPut ==
  ASSUME LabelInv, NEW k, NEW n \in Nat, NEW x, n \div Base = 1 <=> x[1] \in Buggy,
         extracted' = Put(extracted, <<k, n>>, x)
  PROVE  \A name \in DOMAIN extracted' :
           name[2] \div Base = 1 <=> extracted'[name][1] \in Buggy
<1>1. /\ DOMAIN extracted' = DOMAIN extracted \cup {<<k, n>>} /\ extracted'[<<k, n>>] = x
      /\ \A m \in DOMAIN extracted : m # <<k, n>> => extracted'[m] = extracted[m]
  BY DEF Put
<1> SUFFICES ASSUME NEW name \in DOMAIN extracted'
             PROVE  name[2] \div Base = 1 <=> extracted'[name][1] \in Buggy
  OBVIOUS
<1>2. CASE name = <<k, n>>
  <2>1. name[2] = n /\ extracted'[name] = x
    BY <1>1, <1>2
  <2> QED
    BY <2>1
<1>3. CASE name # <<k, n>>
  <2>1. name \in DOMAIN extracted /\ extracted'[name] = extracted[name]
    BY <1>1, <1>3
  <2> QED
    BY <2>1 DEF LabelInv
<1> QED
  BY <1>2, <1>3

LEMMA LabelCopy ==
  ASSUME LabelInv, Copy
  PROVE  LabelInv'
<1>1. UNCHANGED <<originals, uncommented, combo, parsed, prep>>
  BY DEF Copy
<1> DEFINE A == Nat \X DOMAIN prep
<1>2. CASE UNCHANGED <<script, extracted>>
  BY <1>1, <1>2 DEF LabelInv
<1>3. CASE /\ script # <<>> /\ script' = Tail(script)
           /\ extracted' = Put(extracted, Head(script), prep[Head(script)[2]])
  <2>1. script \in Seq(A)
    BY DEF LabelInv
  <2>2. Head(script) \in A /\ Tail(script) \in Seq(A)
    <3> HIDE DEF A
    <3> QED
      BY <1>3, <2>1, HeadTailProperties
  <2>3. PICK k \in Nat, n \in DOMAIN prep : Head(script) = <<k, n>>
    BY <2>2
  <2>4. extracted' = Put(extracted, <<k, n>>, prep[n])
    BY <1>3, <2>3
  <2>5. n \in Nat /\ (n \div Base = 1 <=> prep[n][1] \in Buggy)
    BY DEF LabelInv
  <2>6. \A name \in DOMAIN extracted' :
          name[2] \div Base = 1 <=> extracted'[name][1] \in Buggy
    BY <2>4, <2>5, LabelPut
  <2> QED
    BY <1>1, <1>3, <2>2, <2>6 DEF LabelInv
<1> QED
  BY <1>2, <1>3 DEF Copy

\* A temp.bash that was left behind is no function of any file.
LEMMA PreparedFiles ==
  ASSUME LabelInv
  PROVE  /\ IsFiniteSet(DOMAIN PrepFiles) /\ DOMAIN PrepFiles \subseteq Nat
         /\ DOMAIN prep \subseteq DOMAIN PrepFiles
         /\ \A n \in DOMAIN prep : PrepFiles[n] = prep[n]
         /\ \A n \in DOMAIN PrepFiles : n \div Base = 1 <=> PrepFiles[n][1] \in Buggy
<1>1. Base \in Nat \ {0} /\ 0 \notin Buggy
  BY ExtractionAssumption
<1>2. \A n \in DOMAIN prep : n \in Nat /\ n < 2 * Base /\ (n \div Base = 1 <=> prep[n][1] \in Buggy)
  BY DEF LabelInv
<1>3. IsFiniteSet(DOMAIN prep)
  <2>1. DOMAIN prep \in SUBSET Nat /\ (\A n \in DOMAIN prep : n <= 2 * Base) /\ 2 * Base \in Nat
    BY <1>1, <1>2
  <2> QED
    BY <2>1, FS_BoundedSetOfNaturals
<1>4. CASE ~tempBash
  BY <1>2, <1>3, <1>4 DEF PrepFiles
<1>5. CASE tempBash
  <2>1. PrepFiles = Put(prep, 2 * Base, <<0, 0>>)
    BY <1>5 DEF PrepFiles
  <2>2. /\ DOMAIN PrepFiles = DOMAIN prep \cup {2 * Base} /\ PrepFiles[2 * Base] = <<0, 0>>
        /\ \A n \in DOMAIN prep : n # 2 * Base => PrepFiles[n] = prep[n]
    BY <2>1 DEF Put
  <2>3. \A n \in DOMAIN prep : n # 2 * Base
    BY <1>1, <1>2
  <2>4. 2 * Base \in Nat /\ (2 * Base) \div Base = 2
    BY <1>1
  <2>5. <<0, 0>>[1] \notin Buggy
    BY <1>1
  <2>6. IsFiniteSet(DOMAIN PrepFiles)
    BY <1>3, <2>2, FS_AddElement
  <2> HIDE DEF PrepFiles
  <2>7. \A n \in DOMAIN PrepFiles : n \div Base = 1 <=> PrepFiles[n][1] \in Buggy
    BY <1>2, <2>2, <2>3, <2>4, <2>5
  <2> QED
    BY <1>2, <2>2, <2>3, <2>4, <2>6, <2>7
<1> QED
  BY <1>4, <1>5

LEMMA LabelCopyRandomly ==
  ASSUME LabelInv, CopyRandomly
  PROVE  LabelInv'
<1>1. UNCHANGED <<originals, uncommented, combo, prep, script>>
  BY DEF CopyRandomly
<1>2. CASE UNCHANGED <<parsed, extracted>>
  BY <1>1, <1>2 DEF LabelInv
<1>3. CASE \E number \in Prefix, file \in DOMAIN PrepFiles :
             /\ parsed' = parsed + 1
             /\ extracted' = Put(extracted, RandomName(number, file), PrepFiles[file])
  <2>1. PICK number \in Prefix, file \in DOMAIN PrepFiles :
          /\ parsed' = parsed + 1
          /\ extracted' = Put(extracted, <<number, file>>, PrepFiles[file])
    BY <1>3 DEF RandomName
  <2>2. file \in Nat /\ (file \div Base = 1 <=> PrepFiles[file][1] \in Buggy)
    BY PreparedFiles
  <2>3. \A name \in DOMAIN extracted' :
          name[2] \div Base = 1 <=> extracted'[name][1] \in Buggy
    BY <2>1, <2>2, LabelPut
  <2>4. parsed' \in Nat
    BY <2>1 DEF LabelInv
  <2> QED
    BY <1>1, <2>3, <2>4 DEF LabelInv
<1> QED
  BY <1>2, <1>3 DEF CopyRandomly

LEMMA LabelNext ==
  ASSUME LabelInv, ClearInv, FewFunctions, [Next]_vars
  PROVE  LabelInv'
<1>1. CASE UNCHANGED vars
  BY <1>1 DEF vars, LabelInv
<1>2. CASE EditOriginals \/ Uncomment \/ RandomSort \/ RmUncommented
  <2>1. /\ UNCHANGED <<combo, prep, script, extracted>>
        /\ originals' \subseteq Original /\ uncommented' \subseteq Original /\ parsed' \in Nat
    BY <1>2 DEF EditOriginals, Uncomment, RandomSort, RmUncommented, LabelInv
  <2> QED
    BY <2>1 DEF LabelInv
<1>3. CASE DeleteFunctions \/ Start \/ RmExtracted \/ Exit
  <2>1. /\ UNCHANGED <<originals, combo>> /\ parsed' \in Nat
        /\ uncommented' \in {uncommented, {}}
        /\ prep' = prep \/ DOMAIN prep' = {}
        /\ extracted' = extracted \/ DOMAIN extracted' = {}
        /\ script' = <<>>
    BY <1>3 DEF DeleteFunctions, Start, RmExtracted, Exit, ClearPrep, ClearInv, NoFiles, LabelInv
  <2>2. <<>> \in Seq(Nat \X DOMAIN prep')
    BY EmptySeq
  <2> QED
    BY <2>1, <2>2 DEF LabelInv
<1>4. CASE Cat
  <2>1. /\ UNCHANGED <<originals, uncommented, prep, script, extracted>> /\ parsed' = 0
        /\ \A c \in Class : combo'[c] \in InOrder(Functions(uncommented, c))
    BY <1>4 DEF Cat, Class
  <2>2. \A c \in Class : combo'[c] \in Seq(Functions(Original, c)) /\ Len(combo'[c]) < Base
    BY <2>1, Concatenated DEF LabelInv
  <2> QED
    BY <2>1, <2>2 DEF LabelInv
<1>5. CASE ParseNoBugs \/ ParseBugs
  BY <1>5, LabelParse DEF ParseNoBugs, ParseBugs, Class
<1>6. CASE SelectNoBugs \/ SelectBugs
  BY <1>6, LabelSelect DEF SelectNoBugs, SelectBugs, Class
<1>7. CASE Copy
  BY <1>7, LabelCopy
<1>8. CASE CopyRandomly
  BY <1>8, LabelCopyRandomly
<1> QED
  BY <1>1, <1>2, <1>3, <1>4, <1>5, <1>6, <1>7, <1>8 DEF Next

LEMMA ClearInit == Init => ClearInv
  BY DEF Init, ClearInv

LEMMA LabelInit == FewFunctions /\ Init => LabelInv
<1> SUFFICES ASSUME FewFunctions, Init PROVE LabelInv
  OBVIOUS
<1>1. \A c \in Class : <<>> \in Seq(Functions(Original, c)) /\ Len(<<>>) = 0
  BY EmptySeq
<1>2. <<>> \in Seq(Nat \X DOMAIN prep) /\ 0 < Base
  BY EmptySeq, ExtractionAssumption
<1> QED
  BY <1>1, <1>2 DEF Init, NoFiles, LabelInv

(***************************************************************************)
(* The label yColumn.py reads off a name is the class of the function in   *)
(* the file, for any originals, runs and interruptions, if either class    *)
(* has fewer functions than Base.                                          *)
(***************************************************************************)
THEOREM Labels == ASSUME FewFunctions PROVE Spec => []LabelsAreRight
<1>1. LabelInv /\ ClearInv /\ [Next]_vars => (LabelInv /\ ClearInv)'
  BY LabelNext, ClearNext
<1>2. LabelInv => LabelsAreRight
  BY DEF LabelInv, LabelsAreRight, LabelOf, ClassOf
<1>3. Init => LabelInv /\ ClearInv
  BY LabelInit, ClearInit
<1> QED
  BY <1>1, <1>2, <1>3, PTL DEF Spec
-----------------------------------------------------------------------------
Fresh(x) == \E c \in Class : x \in Functions(originals, c)

Running == {"uncomment", "cat", "parse_0", "parse_1", "select_0", "select_1", "copy", "done"}

\* While the script runs, all that lies about is of the originals there are.
FreshInv ==
  /\ step \in Running => /\ uncommented \subseteq originals
                         /\ \A n \in DOMAIN prep : Fresh(prep[n])
                         /\ \A name \in DOMAIN extracted : Fresh(extracted[name])
  /\ step \in {"parse_0", "parse_1"} => \A c \in Class : combo[c] \in Seq(Functions(originals, c))

LEMMA FreshParse ==
  ASSUME LabelInv, FreshInv, NEW c \in Class, NEW this \in {"parse_0", "parse_1"},
         NEW next \in {"parse_1", "select_0"}, Parse(c, this, next)
  PROVE  FreshInv'
<1>1. /\ UNCHANGED <<originals, uncommented, combo, extracted>>
      /\ step = this /\ step' \in {this, next} /\ parsed \in Nat
      /\ combo[c] \in Seq(Functions(originals, c))
  BY DEF Parse, Goto, FreshInv, LabelInv
<1>2. \A x : Fresh(x)' <=> Fresh(x)
  BY <1>1 DEF Fresh, Functions
<1>3. /\ uncommented \subseteq originals
      /\ \A n \in DOMAIN prep : Fresh(prep[n])
      /\ \A name \in DOMAIN extracted : Fresh(extracted[name])
      /\ \A d \in Class : combo[d] \in Seq(Functions(originals, d))
  BY <1>1 DEF FreshInv, Running
<1>4. \A n \in DOMAIN prep' : Fresh(prep'[n])
  <2>1. CASE UNCHANGED prep
    BY <1>3, <2>1
  <2>2. CASE /\ parsed < Len(combo[c])
             /\ prep' = Put(prep, NameOf(c, parsed + 1), combo[c][parsed + 1])
    <3>1. parsed + 1 \in 1 .. Len(combo[c])
      BY <1>1, <2>2, LenProperties
    <3>2. combo[c][parsed + 1] \in Functions(originals, c)
      BY <1>1, <3>1, ElementOfSeq
    <3>3. Fresh(combo[c][parsed + 1])
      BY <3>2 DEF Fresh
    <3> QED
      BY <1>3, <2>2, <3>3 DEF Put
  <2> QED
    BY <2>1, <2>2 DEF Parse
<1>5. \A d \in Class : Functions(originals, d)' = Functions(originals, d)
  BY <1>1 DEF Functions
<1> QED
  BY <1>1, <1>2, <1>3, <1>4, <1>5 DEF FreshInv

LEMMA FreshNext ==
  ASSUME LabelInv, ClearInv, FreshInv, FewFunctions, [Next]_vars
  PROVE  FreshInv'
<1>1. CASE UNCHANGED vars
  BY <1>1 DEF vars, FreshInv, Fresh, Functions
<1>2. CASE \/ EditOriginals \/ DeleteFunctions \/ Start \/ RmExtracted
           \/ RandomSort \/ CopyRandomly \/ Exit
  <2>1. step' \in {"idle", "rm_extracted", "rm_uncommented", "sort", "sorted"}
    BY <1>2 DEF EditOriginals, DeleteFunctions, Start, RmExtracted, RandomSort, CopyRandomly, Exit, Goto
  <2> QED
    BY <2>1 DEF FreshInv, Running
<1>3. CASE RmUncommented
  <2>1. /\ step' = "uncomment" /\ uncommented' = {}
        /\ DOMAIN prep' = {} /\ DOMAIN extracted' = {}
    BY <1>3 DEF RmUncommented, Goto, ClearInv
  <2> QED
    BY <2>1 DEF FreshInv
<1>4. ASSUME originals' = originals
      PROVE  /\ \A x : Fresh(x)' <=> Fresh(x)
             /\ \A c \in Class : Functions(originals, c)' = Functions(originals, c)
  BY <1>4 DEF Fresh, Functions
<1>5. CASE Uncomment
  <2>1. /\ step = "uncomment" /\ step' \in {"uncomment", "cat"}
        /\ UNCHANGED <<originals, prep, extracted>>
        /\ uncommented \subseteq originals => uncommented' \subseteq originals
    BY <1>5 DEF Uncomment, Goto
  <2> QED
    BY <1>4, <2>1 DEF FreshInv, Running
<1>6. CASE Cat
  <2>1. /\ step = "cat" /\ step' = "parse_0"
        /\ UNCHANGED <<originals, uncommented, prep, extracted>>
        /\ \A c \in Class : combo'[c] \in InOrder(Functions(uncommented, c))
    BY <1>6 DEF Cat, Goto, Class
  <2>2. uncommented \subseteq originals /\ uncommented \subseteq Original
    BY <2>1 DEF FreshInv, Running, LabelInv
  <2>3. ASSUME NEW c \in Class
        PROVE  combo'[c] \in Seq(Functions(originals, c))
    <3>1. combo'[c] \in Seq(Functions(uncommented, c))
      BY <2>1, <2>2, Concatenated
    <3>2. Functions(uncommented, c) \subseteq Functions(originals, c)
      BY <2>2 DEF Functions
    <3> QED
      BY <3>1, <3>2, SeqOfLarger
  <2> QED
    BY <1>4, <2>1, <2>3 DEF FreshInv, Running
<1>7. CASE ParseNoBugs \/ ParseBugs
  BY <1>7, FreshParse DEF ParseNoBugs, ParseBugs, Class
<1>8. CASE SelectNoBugs \/ SelectBugs
  <2>1. /\ step \in {"select_0", "select_1"} /\ step' \in {"select_1", "copy"}
        /\ UNCHANGED <<originals, uncommented, prep, extracted>>
    BY <1>8 DEF SelectNoBugs, SelectBugs, Select, Goto
  <2> QED
    BY <1>4, <2>1 DEF FreshInv, Running
<1>9. CASE Copy
  <2>1. /\ step = "copy" /\ step' \in {"copy", "done"}
        /\ UNCHANGED <<originals, uncommented, prep>>
    BY <1>9 DEF Copy, Goto
  <2>2. /\ uncommented \subseteq originals
        /\ \A n \in DOMAIN prep : Fresh(prep[n])
        /\ \A name \in DOMAIN extracted : Fresh(extracted[name])
    BY <2>1 DEF FreshInv, Running
  <2>3. \A name \in DOMAIN extracted' : Fresh(extracted'[name])
    <3>1. CASE UNCHANGED extracted
      BY <2>2, <3>1
    <3>2. CASE /\ script # <<>>
               /\ extracted' = Put(extracted, Head(script), prep[Head(script)[2]])
      <4> DEFINE A == Nat \X DOMAIN prep
      <4>1. script \in Seq(A)
        BY DEF LabelInv
      <4>2. Head(script) \in A
        <5> HIDE DEF A
        <5> QED
          BY <3>2, <4>1, HeadTailProperties
      <4>3. Fresh(prep[Head(script)[2]])
        BY <2>2, <4>2
      <4> QED
        BY <2>2, <3>2, <4>3 DEF Put
    <3> QED
      BY <1>9, <3>1, <3>2 DEF Copy
  <2> QED
    BY <1>4, <2>1, <2>2, <2>3 DEF FreshInv
<1> QED
  BY <1>1, <1>2, <1>3, <1>5, <1>6, <1>7, <1>8, <1>9 DEF Next

(***************************************************************************)
(* A run that ends has selected from the originals it was started on,      *)
(* whatever earlier runs left when they were stopped.                      *)
(***************************************************************************)
THEOREM Freshness == ASSUME FewFunctions PROVE Spec => []NothingStale
<1>1. Init => LabelInv /\ ClearInv /\ FreshInv
  BY LabelInit, ClearInit DEF Init, FreshInv, Running
<1>2. LabelInv /\ ClearInv /\ FreshInv /\ [Next]_vars => (LabelInv /\ ClearInv /\ FreshInv)'
  BY LabelNext, ClearNext, FreshNext
<1>3. FreshInv => NothingStale
  BY DEF FreshInv, NothingStale, Fresh, Running
<1> QED
  BY <1>1, <1>2, <1>3, PTL DEF Spec

-----------------------------------------------------------------------------
\* The place of a file in the list that randomSorting.bash goes through.
Rank(file) == Cardinality({before \in DOMAIN PrepFiles : before < file})

SortInv ==
  /\ step = "idle" => parsed = 0
  /\ step = "sort" =>
       \A file \in DOMAIN PrepFiles : Rank(file) < parsed =>
         \E x \in DOMAIN extracted : x[2] = file /\ extracted[x] = PrepFiles[file]
  /\ SortedCompletely

LEMMA Ranks ==
  ASSUME LabelInv, NEW file \in DOMAIN PrepFiles
  PROVE  /\ Rank(file) \in Nat
         /\ Rank(file) < Cardinality(DOMAIN PrepFiles)
         /\ \A other \in DOMAIN PrepFiles : Rank(other) = Rank(file) => other = file
<1> DEFINE D == DOMAIN PrepFiles
           below(f) == {before \in D : before < f}
<1>1. IsFiniteSet(D) /\ D \subseteq Nat
  BY PreparedFiles
<1>2. \A f \in D : Rank(f) = Cardinality(below(f)) /\ below(f) \subseteq D /\ f \notin below(f)
  BY <1>1 DEF Rank
<1>3. \A f, g \in D : f < g => below(f) \cup {f} \subseteq below(g)
  BY <1>1
<1>4. file \in D
  OBVIOUS
<1> HIDE DEF D, below
<1>5. ASSUME NEW f \in D, NEW T, T \subseteq D, below(f) \cup {f} \subseteq T
      PROVE  Rank(f) \in Nat /\ Rank(f) < Cardinality(T)
  <2>1. IsFiniteSet(below(f)) /\ IsFiniteSet(T)
    BY <1>1, <1>2, <1>5, FS_Subset
  <2>2. Cardinality(below(f) \cup {f}) = Cardinality(below(f)) + 1
    BY <1>2, <2>1, FS_AddElement
  <2>3. Cardinality(below(f) \cup {f}) <= Cardinality(T)
    BY <1>5, <2>1, FS_Subset
  <2>4. Cardinality(below(f)) \in Nat /\ Cardinality(T) \in Nat
    BY <2>1, FS_CardinalityType
  <2> QED
    BY <1>2, <2>2, <2>3, <2>4
<1>6. \A f \in D : Rank(f) \in Nat /\ Rank(f) < Cardinality(D)
  BY <1>2, <1>5
<1>7. \A f, g \in D : f < g => Rank(f) < Rank(g)
  <2> SUFFICES ASSUME NEW f \in D, NEW g \in D, f < g
               PROVE  Rank(f) < Rank(g)
    OBVIOUS
  <2>1. below(f) \cup {f} \subseteq below(g) /\ below(g) \subseteq D
    BY <1>2, <1>3
  <2> QED
    BY <1>2, <1>5, <2>1
<1>8. ASSUME NEW other \in D, Rank(other) = Rank(file)
      PROVE  other = file
  <2>1. ~(other < file) /\ ~(file < other)
    BY <1>4, <1>6, <1>7, <1>8
  <2>2. other \in Nat /\ file \in Nat
    BY <1>1, <1>4, <1>8
  <2> QED
    BY <2>1, <2>2
<1> QED
  BY <1>4, <1>6, <1>8 DEF D

LEMMA SortNext ==
  ASSUME LabelInv, SortInv, [Next]_vars
  PROVE  SortInv'
<1>1. CASE UNCHANGED vars
  BY <1>1 DEF vars, SortInv, SortedCompletely, Rank, PrepFiles
<1>2. CASE CopyRandomly
  <2>1. UNCHANGED <<prep, tempBash>> /\ step = "sort" /\ step' \in {"sort", "sorted"}
    BY <1>2 DEF CopyRandomly, Goto
  <2>2. PrepFiles' = PrepFiles
    BY <2>1 DEF PrepFiles
  <2>3. \A file \in DOMAIN PrepFiles : Rank(file) < parsed =>
          \E x \in DOMAIN extracted : x[2] = file /\ extracted[x] = PrepFiles[file]
    BY <2>1 DEF SortInv
  <2>4. CASE parsed = Cardinality(DOMAIN PrepFiles) /\ step' = "sorted" /\ UNCHANGED extracted
    <3>1. \A file \in DOMAIN PrepFiles :
            \E x \in DOMAIN extracted : x[2] = file /\ extracted[x] = PrepFiles[file]
      BY <2>3, <2>4, Ranks
    <3>2. \A file \in DOMAIN prep : file \in DOMAIN PrepFiles /\ PrepFiles[file] = prep[file]
      BY PreparedFiles
    <3> QED
      BY <2>1, <2>4, <3>1, <3>2 DEF SortInv, SortedCompletely
  <2>5. CASE /\ step' = "sort" /\ parsed' = parsed + 1
             /\ \E number \in Prefix, file \in DOMAIN PrepFiles :
                  /\ Rank(file) = parsed
                  /\ extracted' = Put(extracted, <<number, file>>, PrepFiles[file])
    <3>1. PICK number \in Prefix, file \in DOMAIN PrepFiles :
            /\ Rank(file) = parsed
            /\ extracted' = Put(extracted, <<number, file>>, PrepFiles[file])
      BY <2>5
    <3>2. /\ DOMAIN extracted' = DOMAIN extracted \cup {<<number, file>>}
          /\ extracted'[<<number, file>>] = PrepFiles[file]
          /\ \A x \in DOMAIN extracted : x # <<number, file>> => extracted'[x] = extracted[x]
      BY <3>1 DEF Put
    <3>3. <<number, file>>[2] = file
      OBVIOUS
    <3>4. ASSUME NEW other \in DOMAIN PrepFiles, Rank(other) < parsed + 1
          PROVE  \E x \in DOMAIN extracted' : x[2] = other /\ extracted'[x] = PrepFiles[other]
      <4>1. CASE other = file
        BY <3>2, <3>3, <4>1
      <4>2. CASE other # file
        <5>1. Rank(other) # Rank(file) /\ Rank(other) \in Nat /\ parsed \in Nat
          BY <4>2, Ranks DEF LabelInv
        <5>2. Rank(other) < parsed
          BY <3>1, <3>4, <5>1
        <5>3. PICK x \in DOMAIN extracted : x[2] = other /\ extracted[x] = PrepFiles[other]
          BY <2>3, <5>2
        <5>4. x # <<number, file>>
          BY <3>3, <4>2, <5>3
        <5> QED
          BY <3>2, <5>3, <5>4
      <4> QED
        BY <4>1, <4>2
    <3>5. \A other : Rank(other)' = Rank(other)
      BY <2>2 DEF Rank
    <3> QED
      BY <2>2, <2>5, <3>4, <3>5 DEF SortInv, SortedCompletely
  <2> QED
    BY <1>2, <2>4, <2>5 DEF CopyRandomly, Goto, RandomName, Rank
<1>3. CASE RandomSort
  <2>1. step' = "sort" /\ parsed' = 0
    BY <1>3 DEF RandomSort, Goto, SortInv
  <2>2. UNCHANGED <<prep, tempBash, extracted>>
    BY <1>3 DEF RandomSort
  <2>3. \A file \in DOMAIN PrepFiles : ~(Rank(file) < 0)
    BY Ranks
  <2>4. PrepFiles' = PrepFiles
    BY <2>2 DEF PrepFiles
  <2>5. \A file : Rank(file)' = Rank(file)
    BY <2>4 DEF Rank
  <2> QED
    BY <2>1, <2>3, <2>4, <2>5 DEF SortInv, SortedCompletely
<1>4. CASE Exit
  BY <1>4 DEF Exit, Goto, SortInv, SortedCompletely
<1>5. CASE EditOriginals \/ DeleteFunctions
  <2>1. step = "idle" /\ step' = "idle" /\ parsed' = parsed
    BY <1>5 DEF EditOriginals, DeleteFunctions
  <2> QED
    BY <2>1 DEF SortInv, SortedCompletely
<1>6. CASE \/ Start \/ RmExtracted \/ RmUncommented \/ Uncomment \/ Cat
           \/ ParseNoBugs \/ ParseBugs \/ SelectNoBugs \/ SelectBugs \/ Copy
  <2>1. step' \in Running \cup {"rm_extracted", "rm_uncommented"}
    BY <1>6 DEF Start, RmExtracted, RmUncommented, Uncomment, Cat, ParseNoBugs, ParseBugs, Parse, SelectNoBugs, SelectBugs,
                Select, Copy, Goto, Running
  <2> QED
    BY <2>1 DEF SortInv, SortedCompletely, Running
<1> QED
  BY <1>1, <1>2, <1>3, <1>4, <1>5, <1>6 DEF Next

(***************************************************************************)
(* However the random numbers fall, and whatever is in the directory when  *)
(* randomSorting.bash begins, every function extracted is there in the end.*)
(***************************************************************************)
THEOREM NoneLostBySorting == ASSUME FewFunctions PROVE Spec => []SortedCompletely
<1>1. Init => LabelInv /\ ClearInv /\ SortInv
  BY LabelInit, ClearInit DEF Init, SortInv, SortedCompletely
<1>2. LabelInv /\ ClearInv /\ SortInv /\ [Next]_vars => (LabelInv /\ ClearInv /\ SortInv)'
  BY LabelNext, ClearNext, SortNext
<1>3. SortInv => SortedCompletely
  BY DEF SortInv
<1> QED
  BY <1>1, <1>2, <1>3, PTL DEF Spec
-----------------------------------------------------------------------------
Parsing == {"parse_0", "parse_1"}
Selecting == {"select_0", "select_1", "copy", "done"}

\* The functions of class c that have been written to files of their own.
Parsed(c) ==
  IF step = "parse_0" THEN (IF c = 0 THEN parsed ELSE 0)
  ELSE IF step = "parse_1" /\ c = 1 THEN parsed
  ELSE Len(combo[c])

\* The names of class c that are copied, or are still to be.
Pending == {script[i] : i \in DOMAIN script}
Names(c) == {name \in DOMAIN extracted \cup Pending : name[2] \div Base = c}
Listed(q) == {<<k, q[k]>> : k \in DOMAIN q}

\* The names given so far are those of the first functions of either list.
PrepFilled ==
  /\ \A c \in Class : /\ combo[c] \in InOrder(Functions(originals, c))
                      /\ Parsed(c) <= Len(combo[c])
                      /\ \A k \in 1 .. Parsed(c) : /\ NameOf(c, k) \in DOMAIN prep
                                                    /\ prep[NameOf(c, k)] = combo[c][k]
  /\ \A n \in DOMAIN prep : \E c \in Class : \E k \in 1 .. Parsed(c) : n = NameOf(c, k)

PrepInv ==
  /\ step \in {"uncomment", "cat"} =>
       DOMAIN prep = {} /\ DOMAIN extracted = {} /\ script = <<>>
  /\ step = "cat" => uncommented = originals
  /\ step \in Parsing \cup {"select_0"} => DOMAIN extracted = {} /\ script = <<>>
  /\ step \in Parsing \cup Selecting => PrepFilled

PickInv ==
  /\ step = "select_1" => DOMAIN extracted = {} /\ Names(1) = {}
  /\ step \in {"select_1", "copy", "done"} =>
       \E q \in Selections(0) : Names(0) = Listed(q)
  /\ step \in {"copy", "done"} =>
       /\ \E q \in Selections(1) : Names(1) = Listed(q)
       /\ \A name \in DOMAIN extracted :
            name[2] \in DOMAIN prep /\ extracted[name] = prep[name[2]]
  /\ step = "done" => script = <<>>

\* Names tell classes and numbers apart.
LEMMA NamesDiffer ==
  ASSUME NEW c \in Class, NEW d \in Class, NEW m \in Nat, NEW n \in Nat, m < Base, n < Base
  PROVE  /\ NameOf(c, m) = NameOf(d, n) <=> c = d /\ m = n
         /\ NameOf(c, m) \div Base = c
<1>1. Base \in Nat \ {0}
  BY ExtractionAssumption
<1>2. m \div Base = 0 /\ (m + Base) \div Base = 1
  BY <1>1
<1> QED
  BY <1>1, <1>2 DEF NameOf, Class

\* An ordered list repeats nothing.
LEMMA OrderedOnce ==
  ASSUME NEW files \in SUBSET Original, NEW c \in Class, NEW q \in InOrder(Functions(files, c)),
         NEW i \in DOMAIN q, NEW j \in DOMAIN q, q[i] = q[j]
  PROVE  i = j
<1>1. \A x \in Functions(files, c) : ~Precedes(x, x)
  <2>1. ASSUME NEW x \in Functions(files, c)
        PROVE  x[1] \in Nat /\ x[2] \in Nat
    <3>1. PICK f \in files : x \in {<<f, n>> : n \in 1 .. FunctionCount[f]}
      BY DEF Functions
    <3>2. PICK n \in 1 .. FunctionCount[f] : x = <<f, n>>
      BY <3>1
    <3> QED
      BY <3>2, ExtractionAssumption
  <2> QED
    BY <2>1 DEF Precedes
<1>2. \A k \in DOMAIN q : q[k] \in Functions(files, c)
  BY DEF InOrder
<1>3. i \in Int /\ j \in Int /\ (i < j => Precedes(q[i], q[j])) /\ (j < i => Precedes(q[j], q[i]))
  <2>1. DOMAIN q = 1 .. Cardinality(Functions(files, c))
    BY DEF InOrder
  <2> QED
    BY <2>1 DEF InOrder
<1> QED
  BY <1>1, <1>2, <1>3

LEMMA PrepParse ==
  ASSUME LabelInv, PrepInv, NEW c \in Class, NEW this \in Parsing,
         NEW next \in {"parse_1", "select_0"}, Parse(c, this, next),
         (c = 0 /\ this = "parse_0" /\ next = "parse_1")
           \/ (c = 1 /\ this = "parse_1" /\ next = "select_0")
  PROVE  PrepInv'
<1>1. /\ UNCHANGED <<originals, uncommented, combo, script, extracted>>
      /\ step = this /\ step' \in {this, next} /\ parsed \in Nat
      /\ DOMAIN extracted = {} /\ script = <<>>
  BY DEF Parse, Goto, PrepInv, LabelInv
<1>2. /\ \A d \in Class : /\ combo[d] \in InOrder(Functions(originals, d))
                          /\ Parsed(d) <= Len(combo[d])
                          /\ \A k \in 1 .. Parsed(d) : /\ NameOf(d, k) \in DOMAIN prep
                                                        /\ prep[NameOf(d, k)] = combo[d][k]
      /\ \A n \in DOMAIN prep : \E d \in Class : \E k \in 1 .. Parsed(d) : n = NameOf(d, k)
  BY <1>1 DEF PrepInv, PrepFilled
<1>3. /\ step' \notin {"uncomment", "cat"} /\ step' \in Parsing \cup {"select_0"}
      /\ \A d \in Class : Functions(originals, d)' = Functions(originals, d)
  BY <1>1 DEF Parsing, Functions
<1>4. \A d \in Class : Len(combo[d]) \in Nat /\ Len(combo[d]) < Base
  BY LenProperties DEF LabelInv
<1>5. \A d \in Class : Parsed(d) \in Nat
  BY <1>1, <1>4 DEF Parsed
<1>6. Parsed(c) = parsed
  BY <1>1 DEF Parsed
<1>7. CASE /\ parsed = Len(combo[c]) /\ parsed' = 0 /\ step' = next /\ UNCHANGED prep
  <2>1. \A d \in Class : Parsed(d)' = Parsed(d)
    BY <1>1, <1>7 DEF Parsed, Class
  <2> QED
    BY <1>1, <1>2, <1>3, <1>7, <2>1 DEF PrepInv, PrepFilled
<1>8. CASE /\ parsed < Len(combo[c]) /\ parsed' = parsed + 1 /\ step' = this
           /\ prep' = Put(prep, NameOf(c, parsed + 1), combo[c][parsed + 1])
  <2>1. /\ Parsed(c)' = Parsed(c) + 1
        /\ \A d \in Class : d # c => Parsed(d)' = Parsed(d)
    BY <1>1, <1>6, <1>8 DEF Parsed, Class
  <2>2. ASSUME NEW d \in Class, NEW k \in 1 .. Parsed(d)'
        PROVE  /\ NameOf(d, k) \in DOMAIN prep' /\ prep'[NameOf(d, k)] = combo[d][k]
               /\ Parsed(d)' <= Len(combo[d])
    <3>1. Parsed(d)' \in Nat /\ Parsed(d)' <= Len(combo[d])
      BY <1>1, <1>2, <1>4, <1>5, <1>6, <1>8, <2>1
    <3>2. k \in Nat /\ k < Base /\ parsed + 1 \in Nat /\ parsed + 1 < Base
      BY <1>1, <1>4, <1>8, <3>1, ExtractionAssumption
    <3>3. CASE d = c /\ k = parsed + 1
      BY <1>8, <3>1, <3>3 DEF Put
    <3>4. CASE ~(d = c /\ k = parsed + 1)
      <4>1. NameOf(d, k) # NameOf(c, parsed + 1)
        BY <3>2, <3>4, NamesDiffer
      <4>2. k \in 1 .. Parsed(d)
        BY <1>5, <1>6, <2>1, <3>4
      <4>3. NameOf(d, k) \in DOMAIN prep /\ prep[NameOf(d, k)] = combo[d][k]
        BY <1>2, <4>2
      <4> QED
        BY <1>8, <3>1, <4>1, <4>3 DEF Put
    <3> QED
      BY <3>3, <3>4
  <2>3. \A n \in DOMAIN prep' : \E d \in Class : \E k \in 1 .. Parsed(d)' : n = NameOf(d, k)
    <3>1. DOMAIN prep' = DOMAIN prep \cup {NameOf(c, parsed + 1)}
      BY <1>8 DEF Put
    <3>2. \A d \in Class : 1 .. Parsed(d) \subseteq 1 .. Parsed(d)'
      BY <1>5, <2>1
    <3>3. parsed + 1 \in 1 .. Parsed(c)'
      BY <1>1, <1>6, <2>1
    <3> QED
      BY <1>2, <3>1, <3>2, <3>3
  <2>4. \A d \in Class : Parsed(d)' <= Len(combo[d])
    BY <1>1, <1>2, <1>4, <1>5, <1>6, <1>8, <2>1
  <2> QED
    BY <1>1, <1>2, <1>3, <2>2, <2>3, <2>4 DEF PrepInv, PrepFilled
<1> QED
  BY <1>7, <1>8 DEF Parse, Goto

LEMMA PrepNext ==
  ASSUME LabelInv, ClearInv, FreshInv, PrepInv, FewFunctions, [Next]_vars
  PROVE  PrepInv'
<1>1. CASE UNCHANGED vars
  <2>1. UNCHANGED <<originals, step, uncommented, combo, parsed, prep, script, extracted>>
    BY <1>1 DEF vars
  <2>2. PrepFilled' <=> PrepFilled
    <3>1. \A c : Parsed(c)' = Parsed(c)
      BY <2>1 DEF Parsed
    <3> QED
      BY <2>1, <3>1 DEF PrepFilled
  <2> QED
    BY <2>1, <2>2 DEF PrepInv
<1>2. CASE \/ EditOriginals \/ DeleteFunctions \/ Start \/ RmExtracted
           \/ RandomSort \/ CopyRandomly \/ Exit
  <2>1. step' \in {"idle", "rm_extracted", "rm_uncommented", "sort", "sorted"}
    BY <1>2 DEF EditOriginals, DeleteFunctions, Start, RmExtracted, RandomSort, CopyRandomly, Exit, Goto
  <2> QED
    BY <2>1 DEF PrepInv, Parsing, Selecting
<1>3. CASE RmUncommented
  <2>1. /\ step' = "uncomment" /\ script' = <<>>
        /\ DOMAIN prep' = {} /\ DOMAIN extracted' = {}
    BY <1>3 DEF RmUncommented, Goto, ClearInv
  <2> QED
    BY <2>1 DEF PrepInv, Parsing, Selecting
<1>4. CASE Uncomment
  <2>1. /\ step = "uncomment" /\ step' \in {"uncomment", "cat"}
        /\ UNCHANGED <<originals, prep, script, extracted>>
        /\ step' = "cat" => originals \subseteq uncommented /\ uncommented' = uncommented
    BY <1>4 DEF Uncomment, Goto
  <2>2. uncommented \subseteq originals
    BY <2>1 DEF FreshInv, Running
  <2> QED
    BY <2>1, <2>2 DEF PrepInv, Parsing, Selecting
<1>5. CASE Cat
  <2>1. /\ step = "cat" /\ step' = "parse_0" /\ parsed' = 0
        /\ UNCHANGED <<originals, uncommented, prep, script, extracted>>
        /\ \A c \in Class : combo'[c] \in InOrder(Functions(uncommented, c))
    BY <1>5 DEF Cat, Goto, Class
  <2>2. uncommented = originals /\ DOMAIN prep = {} /\ DOMAIN extracted = {} /\ script = <<>>
    BY <2>1 DEF PrepInv
  <2>3. \A c \in Class : Parsed(c)' = 0
    BY <2>1 DEF Parsed
  <2>4. \A c \in Class : Functions(originals, c)' = Functions(originals, c)
    BY <2>1 DEF Functions
  <2>5. \A c \in Class : Len(combo'[c]) \in Nat
    <3>1. uncommented \in SUBSET Original
      BY DEF LabelInv
    <3> QED
      BY <2>1, <3>1, Concatenated, LenProperties
  <2>6. \A c \in Class : 1 .. Parsed(c)' = {} /\ Parsed(c)' <= Len(combo'[c])
    BY <2>3, <2>5
  <2> QED
    BY <2>1, <2>2, <2>4, <2>6 DEF PrepInv, PrepFilled, Parsing, Selecting
<1>6. CASE ParseNoBugs \/ ParseBugs
  BY <1>6, PrepParse DEF ParseNoBugs, ParseBugs, Parsing, Class
<1>7. CASE SelectNoBugs \/ SelectBugs \/ Copy
  <2>1. /\ step \in {"select_0", "select_1", "copy"} /\ step' \in {"select_1", "copy", "done"}
        /\ UNCHANGED <<originals, uncommented, combo, parsed, prep>>
    BY <1>7 DEF SelectNoBugs, SelectBugs, Select, Copy, Goto
  <2>2. PrepFilled' <=> PrepFilled
    <3>1. \A c : Parsed(c)' = Parsed(c)
      BY <2>1 DEF Parsed
    <3> QED
      BY <2>1, <3>1 DEF PrepFilled
  <2> QED
    BY <2>1, <2>2 DEF PrepInv, Parsing, Selecting
<1> QED
  BY <1>1, <1>2, <1>3, <1>4, <1>5, <1>6, <1>7 DEF Next

\* Once both files are parsed, as many names are listed as there are functions,
\* and each name is of another function.
LEMMA ListingIsComplete ==
  ASSUME LabelInv, PrepInv, FewFunctions, step \in Selecting, NEW c \in Class
  PROVE  /\ IsFiniteSet(Listing(c))
         /\ Cardinality(Listing(c)) = Cardinality(Functions(originals, c))
         /\ \A m, n \in Listing(c) : prep[m] = prep[n] => m = n
         /\ \A n \in Listing(c) : prep[n] \in Functions(originals, c)
<1> DEFINE len == Len(combo[c])
           name == [k \in 1 .. len |-> NameOf(c, k)]
           S == Functions(originals, c)
<1>1. /\ \A d \in Class : /\ combo[d] \in InOrder(Functions(originals, d))
                          /\ Parsed(d) = Len(combo[d])
                          /\ Len(combo[d]) \in Nat /\ Len(combo[d]) < Base
      /\ \A k \in 1 .. len : /\ NameOf(c, k) \in DOMAIN prep
                             /\ prep[NameOf(c, k)] = combo[c][k]
      /\ \A n \in DOMAIN prep : \E d \in Class : \E k \in 1 .. Len(combo[d]) : n = NameOf(d, k)
  <2>1. \A d \in Class : Parsed(d) = Len(combo[d])
    BY DEF Parsed, Selecting
  <2>2. \A d \in Class : Len(combo[d]) \in Nat /\ Len(combo[d]) < Base
    BY LenProperties DEF LabelInv
  <2> QED
    BY <2>1, <2>2 DEF PrepInv, PrepFilled
<1>2. \A d \in Class : \A k \in 1 .. Len(combo[d]) : k \in Nat /\ k < Base
  BY <1>1, ExtractionAssumption
<1>3. Listing(c) = {NameOf(c, k) : k \in 1 .. len}
  <2>1. \A d \in Class : \A k \in 1 .. Len(combo[d]) : NameOf(d, k) \div Base = d
    BY <1>2, NamesDiffer
  <2> QED
    BY <1>1, <2>1 DEF Listing
<1>4. name \in Bijection(1 .. len, Listing(c))
  <2>1. \A j, k \in 1 .. len : NameOf(c, j) = NameOf(c, k) => j = k
    BY <1>2, NamesDiffer
  <2> QED
    BY <1>3, <2>1 DEF Bijection, Injection, Surjection, IsInjective
<1>5. IsFiniteSet(Listing(c)) /\ Cardinality(Listing(c)) = len
  <2>1. IsFiniteSet(1 .. len) /\ Cardinality(1 .. len) = len
    <3>1. len \in Nat
      BY <1>1
    <3> HIDE DEF len
    <3> QED
      BY <3>1, FS_Interval
  <2>2. ExistsBijection(1 .. len, Listing(c))
    BY <1>4 DEF ExistsBijection
  <2> QED
    BY <2>1, <2>2, FS_Bijection
<1>6. originals \in SUBSET Original
  BY DEF LabelInv
<1>7. combo[c] \in [1 .. Cardinality(S) -> S]
  BY <1>1 DEF InOrder
<1>8. len = Cardinality(S) /\ DOMAIN combo[c] = 1 .. len
  <2>1. S \subseteq Functions(Original, c) /\ IsFiniteSet(Functions(Original, c))
    BY <1>6, FunctionsOf
  <2> HIDE DEF S
  <2>2. Cardinality(S) \in Nat
    BY <2>1, FS_Subset, FS_CardinalityType
  <2> QED
    BY <1>7, <2>2
<1>9. \A j, k \in 1 .. len : combo[c][j] = combo[c][k] => j = k
  BY <1>1, <1>6, <1>8, OrderedOnce
<1>10. \A k \in 1 .. len : combo[c][k] \in S
  BY <1>7, <1>8
<1> HIDE DEF name, S
<1> QED
  BY <1>1, <1>3, <1>5, <1>8, <1>9, <1>10 DEF S
\* What a list of lines comes down to when one is added to it or taken off it.
ValuesOf(q) == {q[i] : i \in DOMAIN q}

LEMMA ValuesOfParts ==
  ASSUME NEW A, NEW q \in Seq(A)
  PROVE  /\ \A r \in Seq(A) : ValuesOf(q \o r) = ValuesOf(q) \cup ValuesOf(r)
         /\ q # <<>> => ValuesOf(q) = {Head(q)} \cup ValuesOf(Tail(q))
<1>1. Len(q) \in Nat /\ DOMAIN q = 1 .. Len(q)
  BY LenProperties
<1>2. ASSUME NEW r \in Seq(A)
      PROVE  ValuesOf(q \o r) = ValuesOf(q) \cup ValuesOf(r)
  <2>1. Len(r) \in Nat /\ DOMAIN r = 1 .. Len(r)
    BY LenProperties
  <2>2. /\ Len(q \o r) = Len(q) + Len(r) /\ q \o r \in Seq(A)
        /\ \A i \in 1 .. Len(q) + Len(r) :
             (q \o r)[i] = IF i <= Len(q) THEN q[i] ELSE r[i - Len(q)]
    BY ConcatProperties
  <2>3. DOMAIN (q \o r) = 1 .. Len(q) + Len(r)
    BY <2>2, LenProperties
  <2>4. \A i \in 1 .. Len(q) : i \in DOMAIN (q \o r) /\ (q \o r)[i] = q[i]
    BY <1>1, <2>1, <2>2, <2>3
  <2>5. \A i \in 1 .. Len(r) : i + Len(q) \in DOMAIN (q \o r) /\ (q \o r)[i + Len(q)] = r[i]
    BY <1>1, <2>1, <2>2, <2>3
  <2>6. \A i \in DOMAIN (q \o r) : \/ i \in 1 .. Len(q) /\ (q \o r)[i] = q[i]
                                   \/ i - Len(q) \in 1 .. Len(r) /\ (q \o r)[i] = r[i - Len(q)]
    BY <1>1, <2>1, <2>2, <2>3
  <2>7. \A i \in DOMAIN (q \o r) : (q \o r)[i] \in ValuesOf(q) \cup ValuesOf(r)
    BY <1>1, <2>1, <2>6 DEF ValuesOf
  <2>8. \A i \in DOMAIN q : q[i] \in ValuesOf(q \o r)
    <3> SUFFICES ASSUME NEW i \in DOMAIN q PROVE q[i] \in ValuesOf(q \o r)
      OBVIOUS
    <3>1. i \in DOMAIN (q \o r) /\ (q \o r)[i] = q[i]
      BY <1>1, <2>4
    <3> QED
      BY <3>1 DEF ValuesOf
  <2>9. \A i \in DOMAIN r : r[i] \in ValuesOf(q \o r)
    <3> SUFFICES ASSUME NEW i \in DOMAIN r PROVE r[i] \in ValuesOf(q \o r)
      OBVIOUS
    <3>1. i + Len(q) \in DOMAIN (q \o r) /\ (q \o r)[i + Len(q)] = r[i]
      BY <2>1, <2>5
    <3> QED
      BY <3>1 DEF ValuesOf
  <2>10. ValuesOf(q \o r) \subseteq ValuesOf(q) \cup ValuesOf(r)
    <3> SUFFICES ASSUME NEW x \in ValuesOf(q \o r) PROVE x \in ValuesOf(q) \cup ValuesOf(r)
      OBVIOUS
    <3>1. PICK i \in DOMAIN (q \o r) : x = (q \o r)[i]
      BY DEF ValuesOf
    <3> QED
      BY <2>7, <3>1
  <2>11. ValuesOf(q) \subseteq ValuesOf(q \o r)
    BY <2>8 DEF ValuesOf
  <2>12. ValuesOf(r) \subseteq ValuesOf(q \o r)
    BY <2>9 DEF ValuesOf
  <2> QED
    BY <2>10, <2>11, <2>12
<1>3. ASSUME q # <<>>
      PROVE  ValuesOf(q) = {Head(q)} \cup ValuesOf(Tail(q))
  <2>1. Len(q) > 0 /\ Head(q) = q[1]
    BY <1>1, <1>3, EmptySeq
  <2>2. /\ Tail(q) \in Seq(A) /\ Len(Tail(q)) = Len(q) - 1
        /\ \A i \in 1 .. Len(q) - 1 : Tail(q)[i] = q[i + 1]
    BY <1>3, HeadTailProperties
  <2>3. DOMAIN Tail(q) = 1 .. Len(q) - 1
    BY <2>2, LenProperties
  <2>4. \A i \in 1 .. Len(q) : i = 1 \/ (i - 1 \in 1 .. Len(q) - 1 /\ Tail(q)[i - 1] = q[i])
    BY <1>1, <2>2
  <2>5. \A i \in 1 .. Len(q) - 1 : i + 1 \in 1 .. Len(q) /\ Tail(q)[i] = q[i + 1]
    BY <1>1, <2>2
  <2>6. \A i \in DOMAIN q : q[i] \in {Head(q)} \cup ValuesOf(Tail(q))
    <3> SUFFICES ASSUME NEW i \in DOMAIN q PROVE q[i] \in {Head(q)} \cup ValuesOf(Tail(q))
      OBVIOUS
    <3>1. CASE i = 1
      BY <2>1, <3>1
    <3>2. CASE i - 1 \in DOMAIN Tail(q) /\ Tail(q)[i - 1] = q[i]
      BY <3>2 DEF ValuesOf
    <3> QED
      BY <1>1, <2>3, <2>4, <3>1, <3>2
  <2>7. \A i \in DOMAIN Tail(q) : Tail(q)[i] \in ValuesOf(q)
    <3> SUFFICES ASSUME NEW i \in DOMAIN Tail(q) PROVE Tail(q)[i] \in ValuesOf(q)
      OBVIOUS
    <3>1. i + 1 \in DOMAIN q /\ Tail(q)[i] = q[i + 1]
      BY <1>1, <2>3, <2>5
    <3> QED
      BY <3>1 DEF ValuesOf
  <2>8. Head(q) \in ValuesOf(q)
    <3>1. 1 \in DOMAIN q
      BY <1>1, <2>1
    <3> QED
      BY <2>1, <3>1 DEF ValuesOf
  <2>9. ValuesOf(q) \subseteq {Head(q)} \cup ValuesOf(Tail(q))
    BY <2>6 DEF ValuesOf
  <2>10. ValuesOf(Tail(q)) \subseteq ValuesOf(q)
    BY <2>7 DEF ValuesOf
  <2> QED
    BY <2>8, <2>9, <2>10
<1> QED
  BY <1>2, <1>3

\* A selection of class c.
LEMMA Selected ==
  ASSUME LabelInv, PrepInv, FewFunctions, step \in Selecting, NEW c \in Class,
         NEW q \in Selections(c)
  PROVE  /\ AtMostSample(Cardinality(Functions(originals, c))) \in Nat
         /\ DOMAIN q = 1 .. AtMostSample(Cardinality(Functions(originals, c)))
         /\ \A k \in DOMAIN q : q[k] \in Listing(c) /\ q[k] \in DOMAIN prep /\ q[k] \div Base = c
         /\ \A i, j \in DOMAIN q : q[i] = q[j] => i = j
         /\ Numbered(q) \in Seq(Nat \X DOMAIN prep) /\ ValuesOf(Numbered(q)) = Listed(q)
         /\ \A name \in Listed(q) : name[2] \div Base = c
<1> DEFINE size == AtMostSample(Cardinality(Functions(originals, c)))
           A == Nat \X DOMAIN prep
<1>1. IsFiniteSet(Listing(c)) /\ Cardinality(Listing(c)) = Cardinality(Functions(originals, c))
  BY ListingIsComplete
<1>2. size \in Nat
  BY <1>1, FS_CardinalityType, ExtractionAssumption DEF AtMostSample
<1>3. q \in [1 .. size -> Listing(c)]
  BY <1>1 DEF Selections
<1>4. \A i, j \in DOMAIN q : q[i] = q[j] => i = j
  BY DEF Selections, IsInjective
<1>5. \A n \in Listing(c) : n \in DOMAIN prep /\ n \div Base = c
  BY DEF Listing
<1> HIDE DEF size
<1>6. DOMAIN q = 1 .. size /\ \A k \in 1 .. size : q[k] \in Listing(c)
  BY <1>3
<1>7. Numbered(q) \in [1 .. size -> A]
  BY <1>5, <1>6 DEF Numbered
<1>8. Numbered(q) \in Seq(A)
  <2> HIDE DEF A
  <2> QED
    BY <1>2, <1>7
<1>9. ValuesOf(Numbered(q)) = Listed(q)
  BY DEF ValuesOf, Numbered, Listed
<1>10. \A name \in Listed(q) : name[2] \div Base = c
  BY <1>5, <1>6 DEF Listed
<1> QED
  BY <1>2, <1>4, <1>5, <1>6, <1>8, <1>9, <1>10 DEF size

LEMMA PickSelectNoBugs ==
  ASSUME LabelInv, PrepInv, FewFunctions, SelectNoBugs
  PROVE  PickInv'
<1>1. /\ step = "select_0" /\ step' = "select_1" /\ UNCHANGED <<prep, extracted>>
      /\ DOMAIN extracted = {} /\ script = <<>> /\ step \in Selecting
  BY DEF SelectNoBugs, Select, Goto, PrepInv, Selecting
<1>2. PICK q \in Selections(0) : script' = script \o Numbered(q)
  BY DEF SelectNoBugs, Select
<1>3. 0 \in Class /\ 1 \in Class
  BY DEF Class
<1>4. /\ Numbered(q) \in Seq(Nat \X DOMAIN prep) /\ ValuesOf(Numbered(q)) = Listed(q)
      /\ \A name \in Listed(q) : name[2] \div Base = 0
  BY <1>1, <1>3, Selected
<1>5. script' = Numbered(q)
  BY <1>1, <1>2, <1>4, ConcatEmptySeq
<1>6. Pending' = Listed(q)
  BY <1>4, <1>5 DEF Pending, ValuesOf
<1>7. Names(0)' = Listed(q) /\ Names(1)' = {}
  BY <1>1, <1>4, <1>6 DEF Names
<1>8. Selections(0)' = Selections(0)
  BY <1>1 DEF Selections, Listing
<1> QED
  BY <1>1, <1>7, <1>8 DEF PickInv

LEMMA PickSelectBugs ==
  ASSUME LabelInv, PrepInv, PickInv, FewFunctions, SelectBugs
  PROVE  PickInv'
<1>1. /\ step = "select_1" /\ step' = "copy" /\ UNCHANGED <<prep, extracted>>
      /\ step \in Selecting
  BY DEF SelectBugs, Select, Goto, Selecting
<1>2. PICK r \in Selections(1) : script' = script \o Numbered(r)
  BY DEF SelectBugs, Select
<1>3. PICK q \in Selections(0) : Names(0) = Listed(q)
  BY <1>1 DEF PickInv
<1>4. DOMAIN extracted = {} /\ Names(1) = {} /\ 1 \in Class
  BY <1>1 DEF PickInv, Class
<1>5. /\ Numbered(r) \in Seq(Nat \X DOMAIN prep) /\ ValuesOf(Numbered(r)) = Listed(r)
      /\ \A name \in Listed(r) : name[2] \div Base = 1
  BY <1>1, <1>4, Selected
<1>6. script \in Seq(Nat \X DOMAIN prep)
  BY DEF LabelInv
<1>7. Pending' = Pending \cup Listed(r)
  <2> DEFINE A == Nat \X DOMAIN prep
  <2>1. script \in Seq(A) /\ Numbered(r) \in Seq(A)
    BY <1>5, <1>6
  <2> HIDE DEF A
  <2>2. ValuesOf(script \o Numbered(r)) = ValuesOf(script) \cup ValuesOf(Numbered(r))
    BY <2>1, ValuesOfParts
  <2>3. Pending = ValuesOf(script) /\ Pending' = ValuesOf(script')
    BY DEF Pending, ValuesOf
  <2> QED
    BY <1>2, <1>5, <2>2, <2>3
<1>8. Names(0)' = Listed(q) /\ Names(1)' = Listed(r)
  BY <1>1, <1>3, <1>4, <1>5, <1>7 DEF Names
<1>9. Selections(0)' = Selections(0) /\ Selections(1)' = Selections(1)
  BY <1>1 DEF Selections, Listing
<1> QED
  BY <1>1, <1>4, <1>8, <1>9 DEF PickInv

LEMMA PickCopy ==
  ASSUME LabelInv, PickInv, Copy
  PROVE  PickInv'
<1>1. step = "copy" /\ step' \in {"copy", "done"} /\ prep' = prep
  BY DEF Copy, Goto
<1>2. \A c : Selections(c)' = Selections(c)
  BY <1>1 DEF Selections, Listing
<1>3. /\ \E q \in Selections(0) : Names(0) = Listed(q)
      /\ \E q \in Selections(1) : Names(1) = Listed(q)
      /\ \A name \in DOMAIN extracted :
           name[2] \in DOMAIN prep /\ extracted[name] = prep[name[2]]
  BY <1>1 DEF PickInv
<1>4. CASE script = <<>> /\ UNCHANGED <<script, extracted>>
  <2>1. \A c : Names(c)' = Names(c)
    BY <1>4 DEF Names, Pending
  <2> QED
    BY <1>1, <1>2, <1>3, <1>4, <2>1 DEF PickInv
<1>5. CASE /\ script # <<>> /\ script' = Tail(script) /\ step' = "copy"
           /\ extracted' = Put(extracted, Head(script), prep[Head(script)[2]])
  <2> DEFINE A == Nat \X DOMAIN prep
  <2>1. script \in Seq(A)
    BY DEF LabelInv
  <2> HIDE DEF A
  <2>2. Pending = {Head(script)} \cup Pending'
    <3>1. Pending = ValuesOf(script) /\ Pending' = ValuesOf(script')
      BY DEF Pending, ValuesOf
    <3> QED
      BY <1>5, <2>1, <3>1, ValuesOfParts
  <2>3. DOMAIN extracted' = DOMAIN extracted \cup {Head(script)}
    BY <1>5 DEF Put
  <2>4. \A c : Names(c)' = Names(c)
    BY <2>2, <2>3 DEF Names
  <2>5. \A name \in DOMAIN extracted' : extracted'[name] = prep[name[2]]
    BY <1>3, <1>5 DEF Put
  <2>6. Head(script) \in A
    BY <1>5, <2>1, HeadTailProperties
  <2>7. \A name \in DOMAIN extracted' : name[2] \in DOMAIN prep
    BY <1>3, <2>3, <2>6 DEF A
  <2> QED
    BY <1>1, <1>2, <1>3, <1>5, <2>4, <2>5, <2>7 DEF PickInv
<1> QED
  BY <1>1, <1>4, <1>5 DEF Copy, Goto

LEMMA PickNext ==
  ASSUME LabelInv, PrepInv, PickInv, FewFunctions, [Next]_vars
  PROVE  PickInv'
<1>1. CASE UNCHANGED vars
  <2>1. UNCHANGED <<step, prep, script, extracted>>
    BY <1>1 DEF vars
  <2>2. \A c : Names(c)' = Names(c) /\ Selections(c)' = Selections(c)
    BY <2>1 DEF Names, Pending, Selections, Listing
  <2> QED
    BY <2>1, <2>2 DEF PickInv
<1>2. CASE \/ EditOriginals \/ DeleteFunctions
           \/ Start \/ RmExtracted \/ RmUncommented \/ Uncomment \/ Cat
           \/ ParseNoBugs \/ ParseBugs \/ RandomSort \/ CopyRandomly \/ Exit
  <2>1. step' \notin {"select_1", "copy", "done"}
    BY <1>2 DEF EditOriginals, DeleteFunctions, Start, RmExtracted, RmUncommented, Uncomment, Cat,
                ParseNoBugs, ParseBugs, Parse, RandomSort, CopyRandomly, Exit, Goto
  <2> QED
    BY <2>1 DEF PickInv
<1> QED
  BY <1>1, <1>2, PickSelectNoBugs, PickSelectBugs, PickCopy DEF Next

\* What a run that ends has copied: of either class a selection under its
\* numbers.
LEMMA WhenDone ==
  ASSUME LabelInv, PrepInv, PickInv, FewFunctions, step = "done", NEW c \in Class
  PROVE  \E q \in Selections(c) :
           /\ ExtractedFrom(c) = Listed(q)
           /\ \A name \in Listed(q) : extracted[name] = prep[name[2]]
<1>1. PICK q \in Selections(c) : Names(c) = Listed(q)
  BY DEF PickInv, Class
<1>2. Pending = {}
  BY DEF PickInv, Pending
<1>3. \A name \in DOMAIN extracted :
        /\ name[2] \in DOMAIN prep /\ extracted[name] = prep[name[2]]
        /\ name[2] \div Base = 1 <=> extracted[name][1] \in Buggy
  BY DEF PickInv, LabelInv
<1>4. \A n \in DOMAIN prep : n \div Base \in {0, 1}
  <2>1. /\ \A n \in DOMAIN prep : \E d \in Class : \E k \in 1 .. Parsed(d) : n = NameOf(d, k)
        /\ \A d \in Class : Parsed(d) = Len(combo[d])
    BY DEF PrepInv, PrepFilled, Selecting, Parsed
  <2>2. \A d \in Class : Len(combo[d]) \in Nat /\ Len(combo[d]) < Base
    BY LenProperties DEF LabelInv
  <2>3. \A d \in Class : \A k \in 1 .. Len(combo[d]) : k \in Nat /\ k < Base
    BY <2>2, ExtractionAssumption
  <2> QED
    BY <2>1, <2>3, NamesDiffer DEF Class
<1>5. ExtractedFrom(c) = Names(c)
  BY <1>2, <1>3, <1>4 DEF ExtractedFrom, Names, ClassOf, Class
<1>6. \A name \in Names(c) : name \in DOMAIN extracted
  BY <1>2 DEF Names
<1> QED
  BY <1>1, <1>3, <1>5, <1>6

\* The first m names of a selection are m names.
FirstOf(q, m) == {<<k, q[k]>> : k \in 1 .. m}

LEMMA FirstNames ==
  ASSUME NEW q, NEW m \in Nat
  PROVE  Cardinality(FirstOf(q, m)) = m
<1> DEFINE line == [k \in 1 .. m |-> <<k, q[k]>>]
<1>1. line \in Bijection(1 .. m, FirstOf(q, m))
  <2>1. line \in [1 .. m -> FirstOf(q, m)]
    BY DEF FirstOf
  <2>2. \A i, j \in 1 .. m : line[i] = line[j] => i = j
    OBVIOUS
  <2>3. \A x \in FirstOf(q, m) : \E k \in 1 .. m : line[k] = x
    BY DEF FirstOf
  <2> QED
    BY <2>1, <2>2, <2>3 DEF Bijection, Injection, Surjection, IsInjective
<1>2. ExistsBijection(1 .. m, FirstOf(q, m))
  BY <1>1 DEF ExistsBijection
<1>3. IsFiniteSet(1 .. m) /\ Cardinality(1 .. m) = m
  BY FS_Interval
<1> QED
  BY <1>2, <1>3, FS_Bijection

\* A selection holds as many names as it is long, of different functions.
LEMMA SelectionSize ==
  ASSUME LabelInv, PrepInv, FewFunctions, step \in Selecting, NEW c \in Class,
         NEW q \in Selections(c)
  PROVE  /\ Cardinality(Listed(q)) = AtMostSample(Cardinality(Functions(originals, c)))
         /\ \A x, y \in Listed(q) : prep[x[2]] = prep[y[2]] => x = y
<1> DEFINE size == AtMostSample(Cardinality(Functions(originals, c)))
<1>1. /\ size \in Nat /\ DOMAIN q = 1 .. size
      /\ \A k \in 1 .. size : q[k] \in Listing(c)
      /\ \A i, j \in 1 .. size : q[i] = q[j] => i = j
  BY Selected
<1> HIDE DEF size
<1>2. Cardinality(Listed(q)) = size
  BY <1>1, FirstNames DEF FirstOf, Listed
<1>3. ASSUME NEW x \in Listed(q), NEW y \in Listed(q), prep[x[2]] = prep[y[2]]
      PROVE  x = y
  <2>1. PICK i \in 1 .. size : x = <<i, q[i]>>
    BY <1>1 DEF Listed
  <2>2. PICK j \in 1 .. size : y = <<j, q[j]>>
    BY <1>1 DEF Listed
  <2>3. q[i] = q[j]
    BY <1>1, <1>3, <2>1, <2>2, ListingIsComplete
  <2> QED
    BY <1>1, <2>1, <2>2, <2>3
<1> QED
  BY <1>2, <1>3 DEF size

LEMMA DoneIsComplete ==
  ASSUME LabelInv, PrepInv, PickInv, FewFunctions
  PROVE  SampleComplete
<1> SUFFICES ASSUME step = "done", NEW c \in Class
             PROVE  /\ Cardinality(ExtractedFrom(c)) =
                         AtMostSample(Cardinality(Functions(originals, c)))
                    /\ \A x, y \in ExtractedFrom(c) : extracted[x] = extracted[y] => x = y
  BY DEF SampleComplete
<1>1. PICK q \in Selections(c) : /\ ExtractedFrom(c) = Listed(q)
                                 /\ \A name \in Listed(q) : extracted[name] = prep[name[2]]
  BY WhenDone
<1>2. step \in Selecting
  BY DEF Selecting
<1> QED
  BY <1>1, <1>2, SelectionSize

\* The names of a selection before the k-th one of the other class, or of the
\* same.
LEMMA NamesBefore ==
  ASSUME NEW q, NEW size \in Nat, DOMAIN q = 1 .. size, \A k \in 1 .. size : q[k] \in Nat,
         NEW k \in Nat \ {0}, NEW n \in Nat
  PROVE  /\ k - 1 <= size /\ (\A j \in 1 .. size : j = k => ~(q[j] < n)) =>
              Cardinality({x \in Listed(q) : Precedes(x, <<k, n>>)}) = k - 1
         /\ k <= size /\ q[k] < n =>
              Cardinality({x \in Listed(q) : Precedes(x, <<k, n>>)}) = k
<1> DEFINE B == {x \in Listed(q) : Precedes(x, <<k, n>>)}
<1>1. \A j \in 1 .. size : <<j, q[j]>> \in B <=> j < k \/ (j = k /\ q[j] < n)
  BY DEF Listed, Precedes
<1>2. \A x \in B : \E j \in 1 .. size : x = <<j, q[j]>>
  BY DEF Listed
<1> HIDE DEF B
<1>3. ASSUME k - 1 <= size, \A j \in 1 .. size : j = k => ~(q[j] < n)
      PROVE  Cardinality(B) = k - 1
  <2>1. \A j \in 1 .. size : <<j, q[j]>> \in B <=> j \in 1 .. k - 1
    BY <1>1, <1>3
  <2>2. 1 .. k - 1 \subseteq 1 .. size
    BY <1>3
  <2>3. B = FirstOf(q, k - 1)
    BY <1>2, <2>1, <2>2 DEF FirstOf
  <2>4. k - 1 \in Nat
    OBVIOUS
  <2> QED
    BY <2>3, <2>4, FirstNames
<1>4. ASSUME k <= size, q[k] < n
      PROVE  Cardinality(B) = k
  <2>1. \A j \in 1 .. size : <<j, q[j]>> \in B <=> j \in 1 .. k
    BY <1>1, <1>4
  <2>2. 1 .. k \subseteq 1 .. size
    BY <1>4
  <2>3. B = FirstOf(q, k)
    BY <1>2, <2>1, <2>2 DEF FirstOf
  <2> QED
    BY <2>3, FirstNames
<1> QED
  BY <1>3, <1>4 DEF B

LEMMA DoneAlternates ==
  ASSUME LabelInv, PrepInv, PickInv, FewFunctions
  PROVE  ClassesAlternate
<1> DEFINE before(name, c) == Cardinality({x \in ExtractedFrom(c) : Precedes(x, name)})
<1> SUFFICES ASSUME step = "done", NEW name \in DOMAIN extracted, NEW this \in Class,
                    this = ClassOf(extracted[name][1]),
                    before(name, this) < Cardinality(ExtractedFrom(1 - this))
             PROVE  before(name, 0) - before(name, 1) = this
  BY DEF ClassesAlternate, ClassOf, Class
<1> DEFINE size(c) == AtMostSample(Cardinality(Functions(originals, c)))
<1>1. step \in Selecting /\ 0 \in Class /\ 1 \in Class
  BY DEF Selecting, Class
<1>2. PICK q \in Selections(0) : ExtractedFrom(0) = Listed(q)
  BY <1>1, WhenDone
<1>3. PICK r \in Selections(1) : ExtractedFrom(1) = Listed(r)
  BY <1>1, WhenDone
<1>4. /\ size(0) \in Nat /\ DOMAIN q = 1 .. size(0) /\ Cardinality(Listed(q)) = size(0)
      /\ \A k \in 1 .. size(0) : q[k] \in DOMAIN prep /\ q[k] \div Base = 0
      /\ size(1) \in Nat /\ DOMAIN r = 1 .. size(1) /\ Cardinality(Listed(r)) = size(1)
      /\ \A k \in 1 .. size(1) : r[k] \in DOMAIN prep /\ r[k] \div Base = 1
  BY <1>1, Selected, SelectionSize
<1> HIDE DEF size
<1>5. DOMAIN prep \subseteq Nat /\ Base \in Nat \ {0}
  BY ExtractionAssumption DEF LabelInv
<1>6. \A m, n \in Nat : m \div Base = 0 /\ n \div Base = 1 => m < n
  BY <1>5
<1>7. CASE this = 0
  <2>1. PICK k \in 1 .. size(0) : name = <<k, q[k]>>
    BY <1>2, <1>4, <1>7 DEF ExtractedFrom, Listed
  <2>2. /\ k \in Nat \ {0} /\ k - 1 <= size(0) /\ q[k] \in Nat
        /\ \A j \in 1 .. size(0) : q[j] \in Nat /\ (j = k => ~(q[j] < q[k]))
    BY <1>4, <1>5
  <2>3. before(name, 0) = k - 1
    BY <1>2, <1>4, <2>1, <2>2, NamesBefore
  <2>4. /\ k - 1 <= size(1)
        /\ \A j \in 1 .. size(1) : r[j] \in Nat /\ (j = k => ~(r[j] < q[k]))
    <3>1. k - 1 < size(1)
      BY <1>3, <1>4, <1>7, <2>3
    <3>2. \A j \in 1 .. size(1) : r[j] \in Nat /\ q[k] < r[j]
      BY <1>4, <1>5, <1>6
    <3> QED
      BY <1>4, <2>2, <3>1, <3>2
  <2>5. before(name, 1) = k - 1
    BY <1>3, <1>4, <2>1, <2>2, <2>4, NamesBefore
  <2> QED
    BY <1>7, <2>2, <2>3, <2>5
<1>8. CASE this = 1
  <2>1. PICK k \in 1 .. size(1) : name = <<k, r[k]>>
    BY <1>3, <1>4, <1>8 DEF ExtractedFrom, Listed
  <2>2. /\ k \in Nat \ {0} /\ k - 1 <= size(1) /\ r[k] \in Nat
        /\ \A j \in 1 .. size(1) : r[j] \in Nat /\ (j = k => ~(r[j] < r[k]))
    BY <1>4, <1>5
  <2>3. before(name, 1) = k - 1
    BY <1>3, <1>4, <2>1, <2>2, NamesBefore
  <2>4. k <= size(0) /\ q[k] < r[k] /\ \A j \in 1 .. size(0) : q[j] \in Nat
    <3>1. k - 1 < size(0)
      BY <1>2, <1>4, <1>8, <2>3
    <3>2. k \in 1 .. size(0)
      BY <1>4, <2>2, <3>1
    <3>3. \A j \in 1 .. size(0) : q[j] \in Nat /\ q[j] < r[k]
      BY <1>4, <1>5, <1>6
    <3> QED
      BY <1>4, <3>2, <3>3
  <2>5. Cardinality({x \in Listed(q) : Precedes(x, <<k, r[k]>>)}) = k
    <3>1. k \in Nat \ {0} /\ r[k] \in Nat /\ size(0) \in Nat /\ DOMAIN q = 1 .. size(0)
      BY <1>4, <2>2
    <3> QED
      BY <2>4, <3>1, NamesBefore
  <2>6. before(name, 0) = k
    BY <1>2, <2>1, <2>5
  <2> QED
    BY <1>8, <2>2, <2>3, <2>6
<1> QED
  BY <1>7, <1>8 DEF Class

\* All the invariants of the script together.
ScriptInv == LabelInv /\ ClearInv /\ FreshInv /\ PrepInv /\ PickInv

LEMMA ScriptInit == FewFunctions /\ Init => ScriptInv
<1> SUFFICES ASSUME FewFunctions, Init PROVE ScriptInv
  OBVIOUS
<1>1. step = "idle" /\ LabelInv /\ ClearInv
  BY LabelInit, ClearInit DEF Init
<1>2. FreshInv
  BY <1>1 DEF Init, FreshInv, Running, NothingStale
<1> QED
  BY <1>1, <1>2 DEF ScriptInv, PrepInv, PickInv, Parsing, Selecting

LEMMA ScriptNext ==
  ASSUME ScriptInv, FewFunctions, [Next]_vars
  PROVE  ScriptInv'
BY LabelNext, ClearNext, FreshNext, PrepNext, PickNext DEF ScriptInv

(***************************************************************************)
(* A run that ends has selected as many different functions of each class  *)
(* as it should: Sample of them, or all there are.                         *)
(***************************************************************************)
THEOREM FullSample == ASSUME FewFunctions PROVE Spec => []SampleComplete
<1>1. Init => ScriptInv
  BY ScriptInit
<1>2. ScriptInv /\ [Next]_vars => ScriptInv'
  BY ScriptNext
<1>3. ScriptInv => SampleComplete
  BY DoneIsComplete DEF ScriptInv
<1> QED
  BY <1>1, <1>2, <1>3, PTL DEF Spec

(***************************************************************************)
(* Sorted by name, the classes alternate as far as the smaller one goes,   *)
(* whatever functions sort -R puts first.                                  *)
(***************************************************************************)
THEOREM Alternation == ASSUME FewFunctions PROVE Spec => []ClassesAlternate
<1>1. FewFunctions /\ Init => ScriptInv
  BY ScriptInit
<1>2. ScriptInv /\ [Next]_vars => ScriptInv'
  BY ScriptNext
<1>3. ScriptInv => ClassesAlternate
  BY DoneAlternates DEF ScriptInv
<1> QED
  BY <1>1, <1>2, <1>3, PTL DEF Spec
=============================================================================
