---------------------------- MODULE STClassifier -----------------------------
(***************************************************************************)
(* main() of suffixTrees/ST.cpp: list the files of both classes, split     *)
(* them at random, train a suffix tree per class on one part, score the    *)
(* other part against both trees, and print a confusion matrix for each of *)
(* a range of thresholds.                                                  *)
(*                                                                         *)
(* A file is its index in the directory listing of its class.  What the    *)
(* trees make of it (SuffixTree, SuffixTreeScore) is any pair of scores.   *)
(***************************************************************************)
EXTENDS Integers, Sequences, FiniteSets

CONSTANTS
  Sizes,      \* the numbers of files that may be found, pairs <<spam, ham>>
  Scores,     \* what a file may score in the two trees, [spam : Nat, ham : Nat]
  TEST,       \* the percentage of files used for testing
  Thresholds, \* the sequence of thresholds, in hundredths
  MaxUnreadable   \* bound on the listed files that cannot be read

ASSUME STAssumption ==
  /\ Sizes \subseteq Nat \X Nat
  /\ Scores \subseteq [spam : Nat, ham : Nat]
  /\ TEST \in 0 .. 100
  /\ Thresholds \in Seq(Nat \ {0})
  /\ \A k \in 1 .. Len(Thresholds) - 1 : Thresholds[k] < Thresholds[k + 1]

Class == {"spam", "ham"}

VARIABLES
  phase,       \* the statement of main() being run
  size,        \* files listed per class
  unreadable,  \* files listed that get_words cannot open, <<class, file>>
  ids,         \* the shuffled files of a class
  num,         \* files used per class
  train, test, \* files to train on and to test, per class
  tree,        \* the files a tree has been trained on
  tested,      \* the files that have been scored
  scores,      \* spam_score and ham_score
  rows         \* the rows of out.txt

vars == <<phase, size, unreadable, ids, num, train, test, tree, tested, scores, rows>>

Files(c) == 0 .. size[c] - 1
OneToOne(q) == \A k, l \in DOMAIN q : q[k] = q[l] => k = l

\* What random_shuffle makes of the indices of n files.
Orders(n) == {f \in [1 .. n -> 0 .. n - 1] : OneToOne(f)}

Init ==
  /\ phase = "init_data"
  /\ size = [c \in Class |-> 0]
  /\ unreadable = {}
  /\ ids = [c \in Class |-> <<>>]
  /\ num = [c \in Class |-> 0]
  /\ train = [c \in Class |-> 0]
  /\ test = [c \in Class |-> 0]
  /\ tree = [c \in Class |-> <<>>]
  /\ tested = [c \in Class |-> <<>>]
  /\ scores = [c \in Class |-> <<>>]
  /\ rows = <<>>

\* find_files goes by the names alone: what it lists need not be readable.
init_data ==
  /\ phase = "init_data"
  /\ phase' = "split_data"
  /\ \E n \in Sizes : size' = [c \in Class |-> IF c = "spam" THEN n[1] ELSE n[2]]
  /\ unreadable' \in {u \in SUBSET UNION {{c} \X (0 .. size'[c] - 1) : c \in Class} :
                        Cardinality(u) <= MaxUnreadable}
  /\ UNCHANGED <<ids, num, train, test, tree, tested, scores, rows>>

Smaller == IF size["spam"] > size["ham"] THEN size["ham"] ELSE size["spam"]

\* num of each class.  A slip: only the larger spam directory is cut down.
Used_AllHam(c) == IF c = "spam" THEN Smaller ELSE size[c]
Used(c) == Smaller

split_data ==
  /\ phase = "split_data"
  /\ phase' = "train_spam"
  /\ ids' \in {f \in [Class -> Orders(size["spam"]) \cup Orders(size["ham"])] :
                 \A c \in Class : f[c] \in Orders(size[c])}
  /\ num' = [c \in Class |-> Used(c)]
  /\ test' = [c \in Class |-> (Used(c) * TEST) \div 100]
  /\ train' = [c \in Class |-> Used(c) - (Used(c) * TEST) \div 100]
  /\ UNCHANGED <<size, unreadable, tree, tested, scores, rows>>

\* get_words: of a file that cannot be opened the end is never reached, so the
\* loop does not end.
Reads(c, f) == <<c, f>> \notin unreadable

\* suffix_tree, its loop over the files of class c.
Train(c, this, next) ==
  /\ phase = this
  /\ \/ /\ Len(tree[c]) < train[c]
        /\ LET f == ids[c][Len(tree[c]) + 1]
           IN Reads(c, f) /\ tree' = [tree EXCEPT ![c] = Append(@, f)]
        /\ UNCHANGED phase
     \/ /\ Len(tree[c]) >= train[c]
        /\ phase' = next
        /\ UNCHANGED tree
  /\ UNCHANGED <<size, unreadable, ids, num, train, test, tested, scores, rows>>

\* The place in ids[c] that the loop of testing over class c has reached.
At_FromStart(c) == Len(tested[c]) + 1   \* a slip
At(c) == train[c] + Len(tested[c]) + 1

\* testing, its loop over the files of class c.
Test(c, this, next) ==
  /\ phase = this
  /\ \/ /\ At(c) <= num[c]
        /\ LET f == ids[c][At(c)]
           IN Reads(c, f) /\ tested' = [tested EXCEPT ![c] = Append(@, f)]
        /\ \E score \in Scores : scores' = [scores EXCEPT ![c] = Append(@, score)]
        /\ UNCHANGED phase
     \/ /\ At(c) > num[c]
        /\ phase' = next
        /\ UNCHANGED <<tested, scores>>
  /\ UNCHANGED <<size, unreadable, ids, num, train, test, tree, rows>>

\* How far the scores s of a file lie above the threshold.
Margin(s, th) == s.spam * th - 100 * s.ham

\* The tested files of class c whose scores lie above th, at it, below it.
Above(c, th) == {k \in DOMAIN scores[c] : Margin(scores[c][k], th) > 0}
Tied(c, th) == {k \in DOMAIN scores[c] : Margin(scores[c][k], th) = 0}
Below(c, th) == {k \in DOMAIN scores[c] : Margin(scores[c][k], th) < 0}

\* A slip: ties are counted for no class.
Matrix_LosesTies(th) ==
  [ SS |-> Cardinality(Above("spam", th)), SH |-> Cardinality(Below("spam", th)),
    HH |-> Cardinality(Below("ham", th)), HS |-> Cardinality(Above("ham", th)) ]

\* A file of either class is taken to be right when its scores are equal.
Matrix(th) ==
  [ SS |-> Cardinality(Above("spam", th) \cup Tied("spam", th)),
    SH |-> Cardinality(Below("spam", th)),
    HH |-> Cardinality(Below("ham", th) \cup Tied("ham", th)),
    HS |-> Cardinality(Above("ham", th)) ]

LastRow_Never == FALSE   \* a slip
LastRow == Len(rows) + 1 = Len(Thresholds)

\* main's last loop, one threshold.
scoring ==
  /\ phase = "scoring"
  /\ Len(rows) < Len(Thresholds)
  /\ rows' = Append(rows, Matrix(Thresholds[Len(rows) + 1]))
  /\ phase' = IF LastRow THEN "done" ELSE phase
  /\ UNCHANGED <<size, unreadable, ids, num, train, test, tree, tested, scores>>

TrainSpam_ThenTest == Train("spam", "train_spam", "test_spam")   \* a slip
TrainSpam == Train("spam", "train_spam", "train_ham")
TrainHam == Train("ham", "train_ham", "test_spam")
TestSpam == Test("spam", "test_spam", "test_ham")
TestHam == Test("ham", "test_ham", "scoring")

Next == init_data \/ split_data \/ TrainSpam \/ TrainHam \/ TestSpam \/ TestHam \/ scoring

\* One thread, which runs on unless it is caught in get_words.
Spec == Init /\ [][Next]_vars /\ WF_vars(Next)
-----------------------------------------------------------------------------

TypeOK ==
  /\ phase \in {"init_data", "split_data", "train_spam", "train_ham",
                "test_spam", "test_ham", "scoring", "done"}
  /\ size \in [Class -> Nat]
  /\ \A u \in unreadable : u[1] \in Class /\ u[2] \in Files(u[1])
  /\ \A c \in Class : /\ ids[c] \in Seq(Files(c))
                      /\ tree[c] \in Seq(Files(c))
                      /\ tested[c] \in Seq(Files(c))
                      /\ scores[c] \in Seq(Scores)
  /\ num \in [Class -> Nat] /\ train \in [Class -> Nat] /\ test \in [Class -> Nat]
  /\ rows \in Seq([SS : Nat, SH : Nat, HS : Nat, HH : Nat])

(***************************************************************************)
(* No file is scored by a tree that was trained on it, and none is read    *)
(* twice, however the files were shuffled and whichever class is cut down. *)
(***************************************************************************)
NoTestFileTrained ==
  \A c \in Class :
    /\ \A k \in DOMAIN tree[c], l \in DOMAIN tested[c] : tree[c][k] # tested[c][l]
    /\ OneToOne(tree[c])
    /\ OneToOne(tested[c])

(***************************************************************************)
(* When the matrices are computed both classes have given the trees and    *)
(* the test the same number of files, as many as the smaller class has;    *)
(* with TEST = 50 an odd file goes to the trees.                           *)
(***************************************************************************)
ClassesBalanced ==
  phase = "scoring" =>
    /\ Len(tree["spam"]) = Len(tree["ham"])
    /\ Len(scores["spam"]) = Len(scores["ham"])
    /\ Len(tree["spam"]) + Len(scores["spam"]) = Smaller
    /\ TEST = 50 => Len(tree["spam"]) - Len(scores["spam"]) \in {0, 1}

(***************************************************************************)
(* Every row accounts for every scored file of either class exactly once,  *)
(* so that TPR + FNR and FPR + TNR are 1 although ties go both ways.       *)
(***************************************************************************)
RowsAddUp ==
  \A k \in DOMAIN rows : /\ rows[k].SS + rows[k].SH = test["spam"]
                         /\ rows[k].HH + rows[k].HS = test["ham"]

(***************************************************************************)
(* Raising the threshold never loses a spam file nor wins a ham file back: *)
(* the rows of out.txt are the points of a monotone ROC curve.             *)
(***************************************************************************)
RowsMonotone ==
  \A k \in 1 .. Len(rows) - 1 : /\ rows[k].SS <= rows[k + 1].SS
                                /\ rows[k].HH >= rows[k + 1].HH

(***************************************************************************)
(* The rows of out.txt are the points of one monotone curve, each of which *)
(* stands for all the files tested.                                        *)
(***************************************************************************)
RowsAreCurve == RowsAddUp /\ RowsMonotone

(***************************************************************************)
(* A file is scored only when both trees are complete, and no tree changes *)
(* once a file has been scored.                                            *)
(***************************************************************************)
TrainBeforeTest ==
  [][ /\ tested' # tested => \A c \in Class : Len(tree[c]) = train[c]
      /\ tree' # tree => \A c \in Class : tested[c] = <<>> ]_vars

\* get_words is given a file it cannot open.
Caught ==
  \/ \E c \in Class : /\ phase = (IF c = "spam" THEN "train_spam" ELSE "train_ham")
                      /\ Len(tree[c]) < train[c]
                      /\ ~Reads(c, ids[c][Len(tree[c]) + 1])
  \/ \E c \in Class : /\ phase = (IF c = "spam" THEN "test_spam" ELSE "test_ham")
                      /\ At(c) <= num[c]
                      /\ ~Reads(c, ids[c][At(c)])

(***************************************************************************)
(* The program prints all its rows and ends, unless a file of the part of  *)
(* the listing it uses cannot be opened; one such file is enough to keep   *)
(* it from ending (get_words tests eof alone).                             *)
(***************************************************************************)
EndsOrIsCaught == <>(phase = "done" \/ Caught)
=============================================================================
