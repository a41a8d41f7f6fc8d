--------------------------- MODULE SuffixTreeScore ---------------------------
(***************************************************************************)
(* SuffixTree::score of suffixTrees/ST.cpp on a tree trained before: how   *)
(* well a word of a test file fits the words of the training files.        *)
(*                                                                         *)
(* A double is a pair <<numerator, denominator>> here: the model is exact  *)
(* where the program rounds.                                               *)
(***************************************************************************)
EXTENDS SuffixTree

VARIABLES
  testing,  \* suffix_tree() has returned: the trees do not change any more
  s,        \* the word being scored, <<>> when none is
  i,        \* its letters are matched from here
  j,        \* the next letter to match
  p,        \* the node reached
  temp,     \* what the match from i on is worth
  res       \* the best match so far, and the result

scoreVars == <<s, i, j, p, temp, res>>
allVars == <<trainVars, testing, scoreVars>>

Zero == <<0, 1>>
Plus(a, b) == <<a[1] * b[2] + b[1] * a[2], a[2] * b[2]>>
Less(a, b) == a[1] * b[2] < b[1] * a[2]

ScoreInit ==
  /\ TrainInit
  /\ testing = FALSE
  /\ s = <<>>
  /\ i = 1
  /\ j = 1
  /\ p = Root
  /\ temp = Zero
  /\ res = Zero

Train ==
  /\ ~testing
  /\ TrainNext
  /\ UNCHANGED <<testing, scoreVars>>

\* A call of score, and the locals it begins with.
Enter(w) ==
  /\ s' = w
  /\ i' = 1
  /\ j' = 1
  /\ p' = Root
  /\ temp' = Zero
  /\ res' = Zero

\* testing() scores the next word of a file.
Score(w) ==
  /\ suffix = <<>>
  /\ s = <<>>
  /\ testing' = TRUE
  /\ Enter(w)
  /\ UNCHANGED trainVars

Child == Append(p, s[j])
Matches == j <= Len(s) /\ Child \in Nodes

\* Slips: the share of the child is taken of num; the node is not advanced.
Share_OfNum == <<num[Child], num[p]>>
Reached_Same == p

Share == <<num[Child], sum[p]>>
Reached == Child

\* The inner loop: one more letter matches.
Match ==
  /\ i <= Len(s)
  /\ Matches
  /\ temp' = Plus(temp, Share)
  /\ p' = Reached
  /\ j' = j + 1
  /\ UNCHANGED <<trainVars, testing, s, i, res>>

\* Slips: the mismatch ends both loops; the next start is the old one.
NextStart_AtEnd == Len(s) + 1
NextStart_Same == i
NextStart == i + 1

\* It ends: keep the better match and start again one letter further on, from
\* the node the last match has led to.
Restart ==
  /\ i <= Len(s)
  /\ ~Matches
  /\ res' = IF Less(res, temp) THEN temp ELSE res
  /\ temp' = Zero
  /\ i' = NextStart
  /\ j' = NextStart
  /\ UNCHANGED <<trainVars, testing, s, p>>

Return ==
  /\ s # <<>>
  /\ i > Len(s)
  /\ Enter(<<>>)
  /\ UNCHANGED <<trainVars, testing>>

ScoreNext == Train \/ (\E w \in Word : Score(w)) \/ Match \/ Restart \/ Return

\* The program is one thread that nothing blocks: a call goes on to its end.
ScoreSpec ==
  /\ ScoreInit /\ [][ScoreNext]_allVars
  /\ WF_allVars(Match \/ Restart \/ Return)
-----------------------------------------------------------------------------
ScoreTypeOK ==
  /\ testing \in BOOLEAN
  /\ s \in Seq(Letter)
  /\ i \in Nat \ {0} /\ j \in Nat \ {0}
  /\ p \in Nodes
  /\ temp \in Nat \X (Nat \ {0})
  /\ res \in Nat \X (Nat \ {0})

Scored == s # <<>> /\ i > Len(s)

(***************************************************************************)
(* No division by zero: the walk stays in the tree, and where it goes on   *)
(* to a child, the node it leaves has a sum, no smaller than the child's   *)
(* num (ST.cpp:299 divides without a test).                                *)
(***************************************************************************)
WalkStaysInTree ==
  /\ p \in Nodes
  /\ i <= Len(s) /\ Matches => num[Child] \in 1 .. sum[p]

(***************************************************************************)
(* The matches from all starting letters together lie on one path from the *)
(* root, for p is not reset: no score exceeds the number of letters on it, *)
(* and so the length of the longest word of the training files.            *)
(***************************************************************************)
ScoreWithinPath ==
  LET within(score) == ~Less(<<Len(p), 1>>, score)
  IN within(res) /\ within(temp)

\* The letters of w that lead down from the root together.
Known(w) == {k \in 0 .. Len(w) : SubSeq(w, 1, k) \in Nodes}

(***************************************************************************)
(* The first match is the longest prefix of the word that occurs in some   *)
(* training word, and what the later ones add lies below it; in particular *)
(* a word of the training files is recognised in full.                     *)
(***************************************************************************)
LongestPrefixMatched ==
  Scored => \E k \in Known(s) :
              /\ \A m \in Known(s) : m <= k
              /\ IsPrefix(SubSeq(s, 1, k), p) \/ k = 0

(***************************************************************************)
(* A score is 0 only if no letter of the word occurs in a training word.   *)
(***************************************************************************)
ZeroMeansUnknown ==
  Scored => (res[1] = 0 <=> \A k \in DOMAIN s : <<s[k]>> \notin Nodes)

(***************************************************************************)
(* Every call of score returns.                                            *)
(***************************************************************************)
ScoreReturns == s # <<>> ~> s = <<>>
=============================================================================
