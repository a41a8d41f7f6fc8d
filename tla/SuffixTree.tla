----------------------------- MODULE SuffixTree ------------------------------
(***************************************************************************)
(* class SuffixTree of suffixTrees/ST.cpp while it is trained: AddString   *)
(* descends from the root along a word, letter by letter, counting in      *)
(* every node it passes, and calls itself on the rest of the word without  *)
(* its first letter.                                                       *)
(*                                                                         *)
(* A node is the path of letters from the root to it; the root is <<>>.    *)
(* The nodes are the domain of num and of sum.  phi is a number of both.   *)
(* A node of level MAX_DEEP or more is counted outside of freq: what the   *)
(* program does then is undefined, and every behaviour of the model ends.  *)
(***************************************************************************)
EXTENDS SequencesExt, Integers

CONSTANTS
  Letter,     \* the letters words are made of
  Word,       \* the words get_words reads from a file
  MAX_DEEP,   \* freq counts the levels 0 .. MAX_DEEP - 1
  MaxWords    \* bound on the words a tree is trained on

\* get_words yields no empty word; nothing bounds the length of one.
ASSUME WordAssumption ==
  /\ MAX_DEEP \in Nat \ {0}
  /\ IsFiniteSet(Word)
  /\ Word \subseteq Seq(Letter) \ {<<>>}

VARIABLES
  num,      \* times each node was entered; in the root, the nodes made
  sum,      \* times each node was left for a child
  freq,     \* times a node of each level was entered
  overrun,  \* a count was written outside of freq
  suffix,   \* the argument of the running AddString, <<>> when none runs
  node,     \* where the descent along suffix has got to
  trained   \* how often each word was given to AddString from outside

treeVars == <<num, sum, freq, overrun>>
trainVars == <<treeVars, suffix, node, trained>>

Root == <<>>
Nodes == DOMAIN num
Children(n) == {c \in Nodes : c # Root /\ Front(c) = n}

TrainInit ==
  /\ num = [n \in {Root} |-> 0]
  /\ sum = [n \in {Root} |-> 0]
  /\ freq = [level \in 0 .. MAX_DEEP - 1 |-> 0]
  /\ overrun = FALSE
  /\ suffix = <<>>
  /\ node = Root
  /\ trained = [w \in Word |-> 0]

WordsTrained == SumFunction(trained)

\* training() hands the next word of a file to AddString.
AddString(w) ==
  /\ suffix = <<>>
  /\ WordsTrained < MaxWords
  /\ suffix' = w
  /\ trained' = [trained EXCEPT ![w] = @ + 1]
  /\ UNCHANGED <<treeVars, node>>

\* The node the next letter of suffix leads to.
NextNode == Append(node, suffix[Len(node) + 1])

\* A slip: the child is counted as left.
Departures_FromChild == [sum EXCEPT ![NextNode] = @ + 1]

\* A slip: the level of the node above is counted.
Entries_OfParent == [freq EXCEPT ![Len(node)] = @ + 1]
Entries == IF Len(NextNode) < MAX_DEEP THEN [freq EXCEPT ![Len(NextNode)] = @ + 1] ELSE freq
Visits == [num EXCEPT ![NextNode] = @ + 1]
Departures == [sum EXCEPT ![node] = @ + 1]

\* The child exists: count another visit to it.
Follow ==
  /\ ~overrun
  /\ Len(node) < Len(suffix)
  /\ NextNode \in Nodes
  /\ num' = Visits
  /\ sum' = Departures
  /\ freq' = Entries
  /\ overrun' = (Len(NextNode) >= MAX_DEEP)
  /\ node' = NextNode
  /\ UNCHANGED <<suffix, trained>>

\* Slips: the new node has no sum; the node above it is not counted as left.
NewSums_NotStored == [sum EXCEPT ![node] = @ + 1]
NewSums_NotCounted == [n \in Nodes \cup {NextNode} |-> IF n = NextNode THEN 0 ELSE sum[n]]
NewSums ==
  [n \in Nodes \cup {NextNode} |->
     IF n = NextNode THEN 0 ELSE IF n = node THEN sum[n] + 1 ELSE sum[n]]

\* It does not: make it, and count it in the root.
Grow ==
  /\ ~overrun
  /\ Len(node) < Len(suffix)
  /\ NextNode \notin Nodes
  /\ num' = [n \in Nodes \cup {NextNode} |->
               IF n = NextNode THEN 1 ELSE IF n = Root THEN num[n] + 1 ELSE num[n]]
  /\ sum' = NewSums
  /\ freq' = Entries
  /\ overrun' = (Len(NextNode) >= MAX_DEEP)
  /\ node' = NextNode
  /\ UNCHANGED <<suffix, trained>>

\* A slip: only the word itself is inserted, not its suffixes.
Rest_None == <<>>
Rest == Tail(suffix)

\* The end of suffix: recurse on what follows its first letter, or return.
Recurse ==
  /\ ~overrun
  /\ suffix # <<>>
  /\ Len(node) = Len(suffix)
  /\ suffix' = Rest
  /\ node' = Root
  /\ UNCHANGED <<treeVars, trained>>

TrainNext == (\E w \in Word : AddString(w)) \/ Follow \/ Grow \/ Recurse

TrainSpec == TrainInit /\ [][TrainNext]_trainVars
-----------------------------------------------------------------------------
TrainTypeOK ==
  /\ num \in [Nodes -> Nat]
  /\ Nodes \subseteq Seq(Letter)
  /\ sum \in [Nodes -> Nat]
  /\ freq \in [0 .. MAX_DEEP - 1 -> Nat]
  /\ overrun \in BOOLEAN
  /\ suffix \in Seq(Letter)
  /\ node \in Nodes
  /\ trained \in [Word -> Nat]

\* A word of MAX_DEEP letters or more has been trained on.
LongWordTrained == \E w \in Word : trained[w] > 0 /\ Len(w) >= MAX_DEEP

(***************************************************************************)
(* freq[level] is what the nodes of that level count together, and it is   *)
(* not written outside its bounds (ST.cpp:261 tests no level), exactly as  *)
(* long as every word has fewer than MAX_DEEP letters: AddString of such a *)
(* word never returns well, although its suffixes are shorter, and no      *)
(* order of words that all are shorter makes a node too deep.              *)
(***************************************************************************)
LevelsWithinFreq ==
  /\ ~overrun =>
       /\ \A n \in Nodes : Len(n) < MAX_DEEP
       /\ \A level \in 1 .. MAX_DEEP - 1 :
            freq[level] = SumFunctionOnSet(num, {n \in Nodes : Len(n) = level})
  /\ overrun => LongWordTrained
  /\ LongWordTrained => overrun \/ suffix # <<>>

(***************************************************************************)
(* phi(num/sum) is a probability on every edge: its denominator is not 0   *)
(* and it does not exceed 1 (score divides without a test, ST.cpp:299).    *)
(***************************************************************************)
PhiIsProbability ==
  \A c \in Nodes \ {Root} : Front(c) \in Nodes /\ num[c] \in 1 .. sum[Front(c)]

(***************************************************************************)
(* Over the children of a node these probabilities add up to 1, even in    *)
(* the middle of a word.                                                   *)
(***************************************************************************)
PhiAddsToOne ==
  \A n \in Nodes : sum[n] = SumFunctionOnSet(num, Children(n))

\* The places where path occurs in w.
PlacesIn(path, w) ==
  {i \in 1 .. Len(w) - Len(path) + 1 : SubSeq(w, i, i + Len(path) - 1) = path}

Occurrences(path) ==
  SumFunction([w \in Word |-> trained[w] * Cardinality(PlacesIn(path, w))])

(***************************************************************************)
(* Between words the tree is the index of the words it was trained on: a   *)
(* node for every factor of one of them, entered once per occurrence,      *)
(* whatever the order of the words.                                        *)
(***************************************************************************)
CountsAreOccurrences ==
  suffix = <<>> =>
    /\ \A n \in Nodes \ {Root} : num[n] = Occurrences(n)
    /\ \A w \in Word : trained[w] > 0 =>
         \A i, j \in DOMAIN w : i <= j => SubSeq(w, i, j) \in Nodes

(***************************************************************************)
(* num means something else in the root: it is the size of the tree.       *)
(***************************************************************************)
RootCountsNodes == num[Root] = Cardinality(Nodes) - 1
=============================================================================
