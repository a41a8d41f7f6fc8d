------------------------- MODULE STClassifierProofs --------------------------
(***************************************************************************)
(* Proofs about the classifier's split, for any number of files.           *)
(***************************************************************************)
EXTENDS STClassifier, SequenceTheorems, FiniteSetTheorems, TLAPS

Split == phase \notin {"init_data", "split_data"}

\* The files of class c in the tree are the first of the list, those tested the
\* first of the rest.
Parts(c) ==
  /\ ids[c] \in [1 .. size[c] -> Nat] /\ OneToOne(ids[c])
  /\ train[c] \in Nat /\ num[c] \in Nat
  /\ train[c] <= num[c] /\ num[c] <= size[c]
  /\ Len(tree[c]) <= train[c] /\ train[c] + Len(tested[c]) <= num[c]
  /\ \A k \in 1 .. Len(tree[c]) : tree[c][k] = ids[c][k]
  /\ \A k \in 1 .. Len(tested[c]) : tested[c][k] = ids[c][train[c] + k]

\* The trees and the test work through ids from two places that never meet.
SplitInv ==
  /\ size \in [Class -> Nat]
  /\ tree \in [Class -> Seq(Nat)] /\ tested \in [Class -> Seq(Nat)]
  /\ ~Split => \A c \in Class : tree[c] = <<>> /\ tested[c] = <<>>
  /\ Split => \A c \in Class : Parts(c)

\* The whole of a number of files is divided into two parts.
LEMMA PartOfFiles ==
  ASSUME NEW n \in Nat
  PROVE  (n * TEST) \div 100 \in 0 .. n
<1>1. TEST \in Nat /\ TEST <= 100
  BY STAssumption
<1>2. n * TEST \in Nat /\ n * TEST <= n * 100
  BY <1>1
<1> QED
  BY <1>2

LEMMA SmallerProperties ==
  ASSUME size \in [Class -> Nat]
  PROVE  Smaller \in Nat /\ \A c \in Class : Smaller <= size[c]
  BY DEF Smaller, Class

LEMMA InvGivesDisjoint == SplitInv => NoTestFileTrained
<1> SUFFICES ASSUME SplitInv, NEW c \in Class
             PROVE  /\ \A k \in DOMAIN tree[c], l \in DOMAIN tested[c] :
                         tree[c][k] # tested[c][l]
                    /\ OneToOne(tree[c]) /\ OneToOne(tested[c])
  BY DEF NoTestFileTrained
<1>1. /\ tree[c] \in Seq(Nat) /\ tested[c] \in Seq(Nat)
      /\ Len(tree[c]) \in Nat /\ DOMAIN tree[c] = 1 .. Len(tree[c])
      /\ Len(tested[c]) \in Nat /\ DOMAIN tested[c] = 1 .. Len(tested[c])
  BY LenProperties DEF SplitInv, Parts
<1>2. CASE ~Split
  BY <1>1, <1>2, EmptySeq DEF SplitInv, Parts, OneToOne
<1>3. CASE Split
  <2>1. /\ ids[c] \in [1 .. size[c] -> Nat] /\ size[c] \in Nat
        /\ \A k, l \in 1 .. size[c] : ids[c][k] = ids[c][l] => k = l
    BY <1>3 DEF SplitInv, Parts, OneToOne
  <2>2. /\ train[c] \in Nat /\ num[c] \in Nat
        /\ train[c] <= num[c] /\ num[c] <= size[c]
        /\ Len(tree[c]) <= train[c] /\ train[c] + Len(tested[c]) <= num[c]
        /\ \A k \in 1 .. Len(tree[c]) : tree[c][k] = ids[c][k]
        /\ \A k \in 1 .. Len(tested[c]) : tested[c][k] = ids[c][train[c] + k]
    BY <1>3 DEF SplitInv, Parts
  <2>3. \A k \in 1 .. Len(tree[c]) : k \in 1 .. size[c]
    BY <1>1, <2>1, <2>2
  <2>4. \A k \in 1 .. Len(tested[c]) : train[c] + k \in 1 .. size[c]
    <3>1. /\ train[c] \in Nat /\ num[c] \in Nat /\ size[c] \in Nat /\ Len(tested[c]) \in Nat
          /\ num[c] <= size[c] /\ train[c] + Len(tested[c]) <= num[c]
      BY <1>1, <2>1, <2>2
    <3>2. PICK t \in Nat, u \in Nat, v \in Nat, w \in Nat :
            t = train[c] /\ u = num[c] /\ v = size[c] /\ w = Len(tested[c])
      BY <3>1
    <3>3. \A k \in 1 .. w : t + k \in 1 .. v
      <4>1. u <= v /\ t + w <= u
        BY <3>1, <3>2
      <4> QED
        BY <4>1
    <3> QED
      BY <3>2, <3>3
  <2>5. \A k \in 1 .. Len(tree[c]), l \in 1 .. Len(tested[c]) : k # train[c] + l
    BY <1>1, <2>2
  <2>6. OneToOne(tree[c])
    BY <1>1, <2>1, <2>2, <2>3 DEF OneToOne
  <2>7. OneToOne(tested[c])
    <3> SUFFICES ASSUME NEW k \in 1 .. Len(tested[c]), NEW l \in 1 .. Len(tested[c]),
                        tested[c][k] = tested[c][l]
                 PROVE  k = l
      BY <1>1 DEF OneToOne
    <3>1. train[c] + k = train[c] + l
      <4>1. ids[c][train[c] + k] = ids[c][train[c] + l]
        BY <2>2
      <4>2. train[c] + k \in 1 .. size[c] /\ train[c] + l \in 1 .. size[c]
        BY <2>4
      <4> QED
        BY <2>1, <4>1, <4>2
    <3> QED
      BY <1>1, <2>2, <3>1
  <2>8. ASSUME NEW k \in 1 .. Len(tree[c]), NEW l \in 1 .. Len(tested[c])
        PROVE  tree[c][k] # tested[c][l]
    <3>1. tree[c][k] = ids[c][k] /\ tested[c][l] = ids[c][train[c] + l]
      BY <2>2
    <3>2. k \in 1 .. size[c] /\ train[c] + l \in 1 .. size[c] /\ k # train[c] + l
      BY <2>3, <2>4, <2>5
    <3> QED
      BY <2>1, <3>1, <3>2
  <2> QED
    BY <1>1, <2>6, <2>7, <2>8
<1> QED
  BY <1>2, <1>3

\* Reading one more training file.
LEMMA TrainStep ==
  ASSUME SplitInv, NEW c \in Class, NEW this, NEW next, Train(c, this, next),
         Split, Split'
  PROVE  SplitInv'
<1>1. /\ Split /\ Split'
      /\ UNCHANGED <<size, ids, num, train, tested>>
  BY DEF Train, Split
<1>2. CASE tree' = tree
  BY <1>1, <1>2 DEF SplitInv, Parts, OneToOne
<1>3. CASE Len(tree[c]) < train[c] /\ tree' = [tree EXCEPT ![c] = Append(@, ids[c][Len(tree[c]) + 1])]
  <2> DEFINE f == ids[c][Len(tree[c]) + 1]
  <2>1. /\ tree[c] \in Seq(Nat) /\ Len(tree[c]) \in Nat
        /\ train[c] \in Nat /\ num[c] \in Nat /\ size[c] \in Nat
        /\ train[c] <= num[c] /\ num[c] <= size[c]
        /\ ids[c] \in [1 .. size[c] -> Nat]
        /\ \A k \in 1 .. Len(tree[c]) : tree[c][k] = ids[c][k]
    BY <1>1, LenProperties DEF SplitInv, Parts
  <2>2. f \in Nat
    <3>1. Len(tree[c]) + 1 \in 1 .. size[c]
      BY <1>3, <2>1
    <3> QED
      BY <2>1, <3>1
  <2>3. /\ Append(tree[c], f) \in Seq(Nat)
        /\ Len(Append(tree[c], f)) = Len(tree[c]) + 1
        /\ \A k \in 1 .. Len(tree[c]) : Append(tree[c], f)[k] = tree[c][k]
        /\ Append(tree[c], f)[Len(tree[c]) + 1] = f
    BY <2>1, <2>2, AppendProperties
  <2>4. \A k \in 1 .. Len(tree[c]) + 1 : Append(tree[c], f)[k] = ids[c][k]
    <3> TAKE k \in 1 .. Len(tree[c]) + 1
    <3>1. CASE k = Len(tree[c]) + 1
      BY <2>3, <3>1
    <3>2. CASE k # Len(tree[c]) + 1
      <4>1. k \in 1 .. Len(tree[c])
        BY <2>1, <3>2
      <4> QED
        BY <2>1, <2>3, <4>1
    <3> QED
      BY <3>1, <3>2
  <2>5. /\ tree' \in [Class -> Seq(Nat)]
        /\ tree'[c] = Append(tree[c], f)
        /\ \A d \in Class : d # c => tree'[d] = tree[d]
    BY <1>3, <2>3 DEF SplitInv, Parts
  <2> HIDE DEF f
  <2>6. ASSUME NEW d \in Class
        PROVE  /\ Len(tree'[d]) <= train[d]
               /\ \A k \in 1 .. Len(tree'[d]) : tree'[d][k] = ids[d][k]
    <3>1. CASE d = c
      BY <1>3, <2>1, <2>3, <2>4, <2>5, <3>1
    <3>2. CASE d # c
      <4>1. tree'[d] = tree[d]
        BY <2>5, <3>2
      <4>2. /\ Len(tree[d]) <= train[d]
            /\ \A k \in 1 .. Len(tree[d]) : tree[d][k] = ids[d][k]
        BY <1>1 DEF SplitInv, Parts
      <4> QED
        BY <4>1, <4>2
    <3> QED
      BY <3>1, <3>2
  <2>7. ASSUME NEW d \in Class
        PROVE  /\ ids'[d] = ids[d] /\ size'[d] = size[d] /\ train'[d] = train[d]
               /\ num'[d] = num[d] /\ tested'[d] = tested[d]
               /\ ids[d] \in [1 .. size[d] -> Nat] /\ OneToOne(ids[d])
               /\ train[d] \in Nat /\ num[d] \in Nat
               /\ train[d] <= num[d] /\ num[d] <= size[d]
               /\ train[d] + Len(tested[d]) <= num[d]
               /\ \A k \in 1 .. Len(tested[d]) : tested[d][k] = ids[d][train[d] + k]
    BY <1>1 DEF SplitInv, Parts
  <2>8. /\ size' \in [Class -> Nat] /\ tested' \in [Class -> Seq(Nat)]
    BY <1>1 DEF SplitInv, Parts
  <2>9. ASSUME NEW d \in Class
        PROVE  Parts(d)'
    <3>1. OneToOne(ids'[d])
      BY <2>7
    <3>2. ids'[d] \in [1 .. size'[d] -> Nat]
      BY <2>7
    <3>3. /\ train'[d] \in Nat /\ num'[d] \in Nat
          /\ train'[d] <= num'[d] /\ num'[d] <= size'[d]
          /\ Len(tree'[d]) <= train'[d] /\ train'[d] + Len(tested'[d]) <= num'[d]
      BY <2>6, <2>7
    <3>4. \A k \in 1 .. Len(tree'[d]) : tree'[d][k] = ids'[d][k]
      BY <2>6, <2>7
    <3>5. \A k \in 1 .. Len(tested'[d]) : tested'[d][k] = ids'[d][train'[d] + k]
      BY <2>7
    <3> QED
      BY <3>1, <3>2, <3>3, <3>4, <3>5 DEF Parts
  <2>10. Split' /\ (size \in [Class -> Nat])' /\ (tree \in [Class -> Seq(Nat)])'
           /\ (tested \in [Class -> Seq(Nat)])'
    BY <1>1, <2>5, <2>8
  <2> QED
    <3>1. (Split => \A d \in Class : Parts(d))'
      BY <2>9
    <3> QED
      BY <2>10, <3>1 DEF SplitInv
<1> QED
  BY <1>2, <1>3 DEF Train

\* Reading one more test file.
LEMMA TestStep ==
  ASSUME SplitInv, NEW c \in Class, NEW this, NEW next, Test(c, this, next),
         Split, Split'
  PROVE  SplitInv'
<1>1. /\ Split /\ Split'
      /\ UNCHANGED <<size, ids, num, train, tree>>
  BY DEF Test, Split
<1>2. CASE tested' = tested
  BY <1>1, <1>2 DEF SplitInv, Parts, OneToOne
<1>3. CASE At(c) <= num[c] /\ tested' = [tested EXCEPT ![c] = Append(@, ids[c][At(c)])]
  <2> DEFINE f == ids[c][At(c)]
             n == Len(tested[c])
  <2>1. /\ tested[c] \in Seq(Nat) /\ n \in Nat
        /\ train[c] \in Nat /\ num[c] \in Nat /\ size[c] \in Nat
        /\ train[c] + n + 1 <= num[c] /\ num[c] <= size[c]
        /\ ids[c] \in [1 .. size[c] -> Nat]
        /\ \A k \in 1 .. n : tested[c][k] = ids[c][train[c] + k]
        /\ At(c) = train[c] + n + 1
    BY <1>1, <1>3, LenProperties DEF SplitInv, Parts, At
  <2>2. f \in Nat
    BY <2>1
  <2>3. /\ Append(tested[c], f) \in Seq(Nat)
        /\ Len(Append(tested[c], f)) = n + 1
        /\ \A k \in 1 .. n : Append(tested[c], f)[k] = tested[c][k]
        /\ Append(tested[c], f)[n + 1] = f
    BY <2>1, <2>2, AppendProperties
  <2>4. \A k \in 1 .. n + 1 : Append(tested[c], f)[k] = ids[c][train[c] + k]
    <3> TAKE k \in 1 .. n + 1
    <3>1. CASE k = n + 1
      <4>1. At(c) = train[c] + (n + 1)
        BY <2>1
      <4> QED
        BY <2>3, <3>1, <4>1
    <3>2. CASE k # n + 1
      <4>1. k \in 1 .. n
        BY <2>1, <3>2
      <4> QED
        BY <2>1, <2>3, <4>1
    <3> QED
      BY <3>1, <3>2
  <2>5. /\ tested' \in [Class -> Seq(Nat)]
        /\ tested'[c] = Append(tested[c], f)
        /\ \A d \in Class : d # c => tested'[d] = tested[d]
    BY <1>3, <2>3 DEF SplitInv, Parts
  <2> HIDE DEF f, n
  <2>6. ASSUME NEW d \in Class
        PROVE  /\ train[d] + Len(tested'[d]) <= num[d]
               /\ \A k \in 1 .. Len(tested'[d]) : tested'[d][k] = ids[d][train[d] + k]
    <3>1. CASE d = c
      <4>1. Len(tested'[c]) = n + 1
        BY <2>3, <2>5
      <4>2. train[c] + Len(tested'[c]) <= num[c]
        BY <2>1, <4>1
      <4>3. \A k \in 1 .. Len(tested'[c]) : tested'[c][k] = ids[c][train[c] + k]
        BY <2>4, <2>5, <4>1
      <4> QED
        BY <3>1, <4>2, <4>3
    <3>2. CASE d # c
      <4>1. tested'[d] = tested[d]
        BY <2>5, <3>2
      <4>2. /\ train[d] + Len(tested[d]) <= num[d]
            /\ \A k \in 1 .. Len(tested[d]) : tested[d][k] = ids[d][train[d] + k]
        BY <1>1 DEF SplitInv, Parts
      <4> QED
        BY <4>1, <4>2
    <3> QED
      BY <3>1, <3>2
  <2>7. ASSUME NEW d \in Class
        PROVE  /\ ids'[d] = ids[d] /\ size'[d] = size[d] /\ train'[d] = train[d]
               /\ num'[d] = num[d] /\ tree'[d] = tree[d]
               /\ ids[d] \in [1 .. size[d] -> Nat] /\ OneToOne(ids[d])
               /\ train[d] \in Nat /\ num[d] \in Nat
               /\ train[d] <= num[d] /\ num[d] <= size[d]
               /\ Len(tree[d]) <= train[d]
               /\ \A k \in 1 .. Len(tree[d]) : tree[d][k] = ids[d][k]
    BY <1>1 DEF SplitInv, Parts
  <2>8. /\ size' \in [Class -> Nat] /\ tree' \in [Class -> Seq(Nat)]
    BY <1>1 DEF SplitInv, Parts
  <2>9. ASSUME NEW d \in Class
        PROVE  Parts(d)'
    <3>1. OneToOne(ids'[d])
      BY <2>7
    <3>2. ids'[d] \in [1 .. size'[d] -> Nat]
      BY <2>7
    <3>3. /\ train'[d] \in Nat /\ num'[d] \in Nat
          /\ train'[d] <= num'[d] /\ num'[d] <= size'[d]
          /\ Len(tree'[d]) <= train'[d] /\ train'[d] + Len(tested'[d]) <= num'[d]
      BY <2>6, <2>7
    <3>4. \A k \in 1 .. Len(tree'[d]) : tree'[d][k] = ids'[d][k]
      BY <2>7
    <3>5. \A k \in 1 .. Len(tested'[d]) : tested'[d][k] = ids'[d][train'[d] + k]
      BY <2>6, <2>7
    <3> QED
      BY <3>1, <3>2, <3>3, <3>4, <3>5 DEF Parts
  <2>10. Split' /\ (size \in [Class -> Nat])' /\ (tree \in [Class -> Seq(Nat)])'
           /\ (tested \in [Class -> Seq(Nat)])'
    BY <1>1, <2>5, <2>8
  <2> QED
    <3>1. (Split => \A d \in Class : Parts(d))'
      BY <2>9
    <3> QED
      BY <2>10, <3>1 DEF SplitInv
<1> QED
  BY <1>2, <1>3 DEF Test

LEMMA InitInv == Init => SplitInv
<1> SUFFICES ASSUME Init PROVE SplitInv
  OBVIOUS
<1>1. <<>> \in Seq(Nat)
  BY EmptySeq
<1> QED
  BY <1>1 DEF Init, SplitInv, Parts, Split

LEMMA NextInv == SplitInv /\ [Next]_vars => SplitInv'
<1> SUFFICES ASSUME SplitInv, [Next]_vars PROVE SplitInv'
  OBVIOUS
<1>1. CASE UNCHANGED vars
  BY <1>1 DEF vars, SplitInv, Parts, Split, OneToOne
<1>2. CASE init_data
  <2>1. phase = "init_data" /\ phase' = "split_data" /\ tree' = tree /\ tested' = tested
    BY <1>2 DEF init_data
  <2>2. PICK n \in Sizes : size' = [c \in Class |-> IF c = "spam" THEN n[1] ELSE n[2]]
    BY <1>2 DEF init_data
  <2>3. n[1] \in Nat /\ n[2] \in Nat
    BY STAssumption
  <2>4. size' \in [Class -> Nat]
    BY <2>2, <2>3
  <2> QED
    BY <2>1, <2>4 DEF SplitInv, Parts, Split
<1>3. CASE split_data
  <2>1. /\ phase = "split_data" /\ phase' = "train_spam"
        /\ size' = size /\ tree' = tree /\ tested' = tested
        /\ num' = [c \in Class |-> Smaller]
        /\ train' = [c \in Class |-> Smaller - (Smaller * TEST) \div 100]
        /\ \A c \in Class : ids'[c] \in Orders(size[c])
    BY <1>3 DEF split_data, Used
  <2>2. /\ size \in [Class -> Nat]
        /\ \A c \in Class : tree[c] = <<>> /\ tested[c] = <<>>
    BY <2>1 DEF SplitInv, Parts, Split
  <2>3. Smaller \in Nat /\ \A c \in Class : Smaller <= size[c]
    BY <2>2, SmallerProperties
  <2>4. (Smaller * TEST) \div 100 \in 0 .. Smaller
    BY <2>3, PartOfFiles
  <2> DEFINE t == Smaller - (Smaller * TEST) \div 100
  <2>5. t \in Nat /\ t <= Smaller
    BY <2>3, <2>4
  <2> HIDE DEF t
  <2>6. ASSUME NEW c \in Class
        PROVE  /\ ids'[c] \in [1 .. size'[c] -> Nat] /\ OneToOne(ids'[c])
               /\ train'[c] = t /\ num'[c] = Smaller
               /\ Len(tree'[c]) = 0 /\ Len(tested'[c]) = 0
    <3>1. ids'[c] \in [1 .. size[c] -> Nat] /\ OneToOne(ids'[c])
      <4>1. /\ ids'[c] \in [1 .. size[c] -> 0 .. size[c] - 1]
            /\ OneToOne(ids'[c]) /\ size[c] \in Nat
        BY <2>1, <2>2 DEF Orders
      <4>2. 0 .. size[c] - 1 \subseteq Nat
        BY <4>1
      <4> QED
        BY <4>1, <4>2
    <3> QED
      BY <2>1, <2>2, <3>1, EmptySeq DEF t
  <2>7. Split'
    BY <2>1 DEF Split
  <2>8. /\ size' \in [Class -> Nat]
        /\ tree' \in [Class -> Seq(Nat)] /\ tested' \in [Class -> Seq(Nat)]
    BY <2>1, <2>2 DEF SplitInv, Parts
  <2>9. ASSUME NEW c \in Class
        PROVE  /\ train'[c] \in Nat /\ num'[c] \in Nat
               /\ train'[c] <= num'[c] /\ num'[c] <= size'[c]
               /\ Len(tree'[c]) <= train'[c] /\ train'[c] + Len(tested'[c]) <= num'[c]
               /\ 1 .. Len(tree'[c]) = {} /\ 1 .. Len(tested'[c]) = {}
    <3>1. train'[c] = t /\ num'[c] = Smaller /\ size'[c] = size[c] /\ size[c] \in Nat
      BY <2>1, <2>2, <2>6
    <3>2. Len(tree'[c]) = 0 /\ Len(tested'[c]) = 0 /\ Smaller <= size[c]
      BY <2>3, <2>6
    <3> QED
      BY <2>3, <2>5, <3>1, <3>2
  <2> QED
    BY <2>6, <2>7, <2>8, <2>9 DEF SplitInv, Parts, OneToOne
<1>4. CASE TrainSpam \/ TrainHam
  <2>1. CASE TrainSpam
    <3>1. "spam" \in Class /\ Train("spam", "train_spam", "train_ham")
      BY <2>1 DEF TrainSpam, Class
    <3>2. Split /\ Split'
      BY <3>1 DEF Train, Split
    <3> QED
      BY <3>1, <3>2, TrainStep
  <2>2. CASE TrainHam
    <3>1. "ham" \in Class /\ Train("ham", "train_ham", "test_spam")
      BY <2>2 DEF TrainHam, Class
    <3>2. Split /\ Split'
      BY <3>1 DEF Train, Split
    <3> QED
      BY <3>1, <3>2, TrainStep
  <2> QED
    BY <1>4, <2>1, <2>2
<1>5. CASE TestSpam \/ TestHam
  <2>1. CASE TestSpam
    <3>1. "spam" \in Class /\ Test("spam", "test_spam", "test_ham")
      BY <2>1 DEF TestSpam, Class
    <3>2. Split /\ Split'
      BY <3>1 DEF Test, Split
    <3> QED
      BY <3>1, <3>2, TestStep
  <2>2. CASE TestHam
    <3>1. "ham" \in Class /\ Test("ham", "test_ham", "scoring")
      BY <2>2 DEF TestHam, Class
    <3>2. Split /\ Split'
      BY <3>1 DEF Test, Split
    <3> QED
      BY <3>1, <3>2, TestStep
  <2> QED
    BY <1>5, <2>1, <2>2
<1>6. CASE scoring
  <2>1. /\ Split /\ Split'
        /\ UNCHANGED <<size, ids, num, train, tree, tested>>
    BY <1>6 DEF scoring, LastRow, Split
  <2> QED
    BY <2>1 DEF SplitInv, Parts, OneToOne
<1> QED
  BY <1>1, <1>2, <1>3, <1>4, <1>5, <1>6 DEF Next

\* However many files there are, whatever their order and whatever TEST, no
\* file a tree was trained on is scored, and no file is read twice.
THEOREM NoLeakage == Spec => []NoTestFileTrained
<1> QED
  BY InitInv, NextInv, InvGivesDisjoint, PTL DEF Spec

-----------------------------------------------------------------------------
Phase == {"init_data", "split_data", "train_spam", "train_ham",
          "test_spam", "test_ham", "scoring", "done"}
Trained(c) == phase \in {"test_spam", "test_ham", "scoring", "done"}
                       \cup (IF c = "spam" THEN {"train_ham"} ELSE {})
Finished(c) == phase \in {"scoring", "done"} \cup (IF c = "spam" THEN {"test_ham"} ELSE {})

\* How far the phases have come with either class: a tree is complete and a
\* test is over when the phase is, and a score is taken with each file tested.
StageInv ==
  /\ phase \in Phase
  /\ scores \in [Class -> Seq(Scores)]
  /\ \A c \in Class :
       /\ Len(scores[c]) = Len(tested[c])
       /\ Split => /\ num[c] = Smaller
                   /\ test[c] = (Smaller * TEST) \div 100
                   /\ train[c] = Smaller - (Smaller * TEST) \div 100
       /\ Trained(c) => Len(tree[c]) = train[c]
       /\ phase \in {"train_spam", "train_ham"} => tested[c] = <<>>
       /\ Finished(c) => train[c] + Len(tested[c]) = num[c]

Row == [SS : Nat, SH : Nat, HS : Nat, HH : Nat]

\* The rows printed are those of the scores at the end of the test.
RowsInv ==
  /\ rows \in Seq(Row)
  /\ Len(rows) <= Len(Thresholds)
  /\ phase \notin {"scoring", "done"} => rows = <<>>
  /\ \A k \in 1 .. Len(rows) : rows[k] = Matrix(Thresholds[k])

LEMMA StageInit == Init => StageInv /\ RowsInv
<1> SUFFICES ASSUME Init PROVE StageInv /\ RowsInv
  OBVIOUS
<1>1. <<>> \in Seq(Scores) /\ <<>> \in Seq(Row) /\ Len(<<>>) = 0
  BY EmptySeq
<1>2. phase = "init_data" /\ ~Split /\ rows = <<>>
  BY DEF Init, Split
<1>3. StageInv
  BY <1>1, <1>2 DEF Init, StageInv, Phase, Trained, Finished, Class
<1>4. Len(Thresholds) \in Nat
  BY STAssumption
<1> QED
  BY <1>1, <1>2, <1>3, <1>4 DEF RowsInv

LEMMA StageTrain ==
  ASSUME SplitInv, StageInv, NEW c \in Class, NEW this, NEW next, Train(c, this, next),
         this = IF c = "spam" THEN "train_spam" ELSE "train_ham",
         next = IF c = "spam" THEN "train_ham" ELSE "test_spam"
  PROVE  StageInv'
<1>1. Train(c, this, next) /\ this # next
  OBVIOUS
<1>2. /\ phase = this /\ Split /\ Split' /\ phase' \in Phase
      /\ UNCHANGED <<size, num, train, test, tested, scores>>
      /\ Smaller' = Smaller
  BY <1>1 DEF Train, Split, Phase, Smaller
<1>3. \A d \in Class : tested[d] = <<>> /\ tested'[d] = <<>>
  BY <1>1, <1>2 DEF StageInv
<1>4. ASSUME NEW d \in Class, Trained(d)'
      PROVE  Len(tree'[d]) = train'[d]
  <2>1. CASE phase' = this
    <3>1. Trained(d) /\ d # c
      BY <1>1, <1>2, <1>4, <2>1 DEF Trained, Class
    <3>2. tree'[d] = tree[d]
      BY <1>1, <3>1 DEF Train, SplitInv, Parts
    <3> QED
      BY <1>2, <3>1, <3>2 DEF StageInv
  <2>2. CASE phase' # this
    <3>1. phase' = next /\ tree' = tree /\ Len(tree[c]) >= train[c]
      BY <1>1, <2>2 DEF Train
    <3>2. Len(tree[c]) = train[c]
      <4>1. Len(tree[c]) \in Nat /\ train[c] \in Nat /\ Len(tree[c]) <= train[c]
        BY <1>2, LenProperties DEF SplitInv, Parts
      <4>2. Len(tree[c]) >= train[c]
        BY <3>1
      <4> QED
        BY <4>1, <4>2
    <3>3. CASE d = c
      BY <1>2, <3>1, <3>2, <3>3
    <3>4. CASE d # c
      <4>1. Trained(d)
        BY <1>1, <1>2, <1>4, <3>1, <3>4 DEF Trained, Class
      <4> QED
        BY <1>2, <3>1, <4>1 DEF StageInv
    <3> QED
      BY <3>3, <3>4
  <2> QED
    BY <2>1, <2>2
<1>5. \A d \in Class : ~Finished(d)'
  BY <1>1 DEF Train, Finished
<1> QED
  BY <1>2, <1>3, <1>4, <1>5 DEF StageInv

LEMMA StageTest ==
  ASSUME SplitInv, StageInv, NEW c \in Class, NEW this, NEW next, Test(c, this, next),
         this = IF c = "spam" THEN "test_spam" ELSE "test_ham",
         next = IF c = "spam" THEN "test_ham" ELSE "scoring"
  PROVE  StageInv'
<1>1. Test(c, this, next) /\ this # next
  OBVIOUS
<1>2. /\ phase = this /\ Split /\ Split' /\ phase' \in Phase
      /\ phase' \notin {"train_spam", "train_ham"}
      /\ UNCHANGED <<size, num, train, test, tree>>
      /\ Smaller' = Smaller
  BY <1>1 DEF Test, Split, Phase, Smaller
<1>3. \A d \in Class : Len(tree'[d]) = train'[d]
  BY <1>2 DEF StageInv, Trained
<1>4. scores' \in [Class -> Seq(Scores)] /\ \A d \in Class : Len(scores'[d]) = Len(tested'[d])
  <2>1. CASE UNCHANGED <<tested, scores>>
    BY <2>1 DEF StageInv
  <2>2. CASE At(c) <= num[c] /\ ~UNCHANGED <<tested, scores>>
    <3> DEFINE f == ids[c][At(c)]
    <3>1. PICK score \in Scores : /\ tested' = [tested EXCEPT ![c] = Append(@, f)]
                                 /\ scores' = [scores EXCEPT ![c] = Append(@, score)]
      BY <1>1, <1>2, <2>2 DEF Test
    <3>2. f \in Nat
      <4>1. /\ ids[c] \in [1 .. size[c] -> Nat] /\ size[c] \in Nat
            /\ train[c] \in Nat /\ num[c] \in Nat /\ num[c] <= size[c]
            /\ Len(tested[c]) \in Nat
        BY <1>2, LenProperties DEF SplitInv, Parts
      <4>2. train[c] + Len(tested[c]) + 1 <= num[c]
        BY <2>2 DEF At
      <4>3. At(c) \in 1 .. size[c]
        BY <4>1, <4>2 DEF At
      <4> QED
        BY <3>1, <4>1, <4>3
    <3> HIDE DEF f
    <3>3. /\ tested[c] \in Seq(Nat) /\ scores[c] \in Seq(Scores)
          /\ tested \in [Class -> Seq(Nat)] /\ scores \in [Class -> Seq(Scores)]
      BY DEF SplitInv, Parts, StageInv
    <3>4. /\ Append(tested[c], f) \in Seq(Nat) /\ Append(scores[c], score) \in Seq(Scores)
          /\ Len(Append(tested[c], f)) = Len(tested[c]) + 1
          /\ Len(Append(scores[c], score)) = Len(scores[c]) + 1
      BY <3>2, <3>3, AppendProperties
    <3>5. scores' \in [Class -> Seq(Scores)]
      BY <3>1, <3>3, <3>4
    <3>6. ASSUME NEW d \in Class PROVE Len(scores'[d]) = Len(tested'[d])
      <4>1. Len(scores[d]) = Len(tested[d])
        BY DEF StageInv
      <4>2. CASE d = c
        <5>1. tested'[d] = Append(tested[c], f) /\ scores'[d] = Append(scores[c], score)
          BY <3>1, <3>3, <4>2
        <5> QED
          BY <3>4, <4>1, <4>2, <5>1
      <4>3. CASE d # c
        BY <3>1, <3>3, <4>1, <4>3
      <4> QED
        BY <4>2, <4>3
    <3> QED
      BY <3>5, <3>6
  <2> QED
    BY <1>1, <1>2, <2>1, <2>2 DEF Test
<1>5. ASSUME NEW d \in Class, Finished(d)'
      PROVE  train'[d] + Len(tested'[d]) = num'[d]
  <2>1. CASE phase' = this
    <3>1. Finished(d) /\ d # c
      BY <1>1, <1>2, <1>5, <2>1 DEF Finished, Class
    <3>2. tested'[d] = tested[d]
      BY <1>1, <3>1 DEF Test, SplitInv, Parts
    <3> QED
      BY <1>2, <3>1, <3>2 DEF StageInv
  <2>2. CASE phase' # this
    <3>1. phase' = next /\ tested' = tested /\ At(c) > num[c]
      BY <1>1, <2>2 DEF Test
    <3>2. train[c] + Len(tested[c]) = num[c]
      <4>1. /\ Len(tested[c]) \in Nat /\ train[c] \in Nat /\ num[c] \in Nat
            /\ train[c] + Len(tested[c]) <= num[c]
        BY <1>2, LenProperties DEF SplitInv, Parts
      <4>2. train[c] + Len(tested[c]) + 1 > num[c]
        BY <3>1 DEF At
      <4> QED
        BY <4>1, <4>2
    <3>3. CASE d = c
      BY <1>2, <3>1, <3>2, <3>3
    <3>4. CASE d # c
      <4>1. Finished(d)
        BY <1>1, <1>2, <1>5, <3>1, <3>4 DEF Finished, Class
      <4> QED
        BY <1>2, <3>1, <4>1 DEF StageInv
    <3> QED
      BY <3>3, <3>4
  <2> QED
    BY <2>1, <2>2
<1> QED
  BY <1>2, <1>3, <1>4, <1>5 DEF StageInv

LEMMA StageRest ==
  ASSUME SplitInv, StageInv, init_data \/ split_data \/ scoring
  PROVE  StageInv'
<1>1. CASE init_data
  <2>1. /\ phase = "init_data" /\ phase' = "split_data"
        /\ UNCHANGED <<num, train, test, tree, tested, scores>>
    BY <1>1 DEF init_data
  <2>2. \A c \in Class : tested[c] = <<>>
    BY <2>1 DEF SplitInv, Parts, Split
  <2> QED
    BY <2>1, <2>2 DEF StageInv, Phase, Split, Trained, Finished, Class
<1>2. CASE split_data
  <2>1. /\ phase = "split_data" /\ phase' = "train_spam"
        /\ UNCHANGED <<size, tree, tested, scores>> /\ Smaller' = Smaller
        /\ num' = [c \in Class |-> Smaller]
        /\ test' = [c \in Class |-> (Smaller * TEST) \div 100]
        /\ train' = [c \in Class |-> Smaller - (Smaller * TEST) \div 100]
    BY <1>2 DEF split_data, Used, Smaller
  <2>2. \A c \in Class : tested[c] = <<>>
    BY <2>1 DEF SplitInv, Parts, Split
  <2>3. \A c \in Class : /\ num'[c] = Smaller'
                         /\ test'[c] = (Smaller' * TEST) \div 100
                         /\ train'[c] = Smaller' - (Smaller' * TEST) \div 100
    <3> HIDE DEF Smaller
    <3> QED
      BY <2>1
  <2>4. phase' \in Phase /\ \A c \in Class : ~Trained(c)' /\ ~Finished(c)'
    BY <2>1 DEF Phase, Trained, Finished
  <2>5. /\ scores' \in [Class -> Seq(Scores)]
        /\ \A c \in Class : Len(scores'[c]) = Len(tested'[c]) /\ tested'[c] = <<>>
    BY <2>1, <2>2 DEF StageInv
  <2> QED
    BY <2>3, <2>4, <2>5 DEF StageInv
<1>3. CASE scoring
  <2>1. /\ phase = "scoring" /\ phase' \in {"scoring", "done"}
        /\ UNCHANGED <<size, num, train, test, tree, tested, scores>> /\ Smaller' = Smaller
    BY <1>3 DEF scoring, Smaller
  <2> QED
    BY <2>1 DEF StageInv, Phase, Split, Trained, Finished
<1> QED
  BY <1>1, <1>2, <1>3

LEMMA StageNext == SplitInv /\ StageInv /\ [Next]_vars => StageInv'
<1> SUFFICES ASSUME SplitInv, StageInv, [Next]_vars PROVE StageInv'
  OBVIOUS
<1>1. CASE UNCHANGED vars
  BY <1>1 DEF vars, StageInv, Split, Trained, Finished, Smaller
<1>2. CASE init_data \/ split_data \/ scoring
  BY <1>2, StageRest
<1>3. CASE TrainSpam
  BY <1>3, StageTrain DEF TrainSpam, Class
<1>4. CASE TrainHam
  BY <1>4, StageTrain DEF TrainHam, Class
<1>5. CASE TestSpam
  BY <1>5, StageTest DEF TestSpam, Class
<1>6. CASE TestHam
  BY <1>6, StageTest DEF TestHam, Class
<1> QED
  BY <1>1, <1>2, <1>3, <1>4, <1>5, <1>6 DEF Next

\* A file is scored only by complete trees, for any number of files.
THEOREM TestsFollowTraining == Spec => TrainBeforeTest
<1> DEFINE A == /\ tested' # tested => \A c \in Class : Len(tree[c]) = train[c]
                /\ tree' # tree => \A c \in Class : tested[c] = <<>>
<1>1. ASSUME SplitInv, StageInv, [Next]_vars
      PROVE  [A]_vars
  <2>1. CASE TestSpam \/ TestHam
    <3>1. phase \in {"test_spam", "test_ham"} /\ tree' = tree
      BY <2>1 DEF TestSpam, TestHam, Test
    <3> QED
      BY <1>1, <3>1 DEF StageInv, Trained
  <2>2. CASE TrainSpam \/ TrainHam
    <3>1. phase \in {"train_spam", "train_ham"} /\ tested' = tested
      BY <2>2 DEF TrainSpam, TrainHam, Train
    <3> QED
      BY <1>1, <3>1 DEF StageInv
  <2>3. CASE init_data \/ split_data \/ scoring
    <3>1. UNCHANGED <<tree, tested>>
      BY <2>3 DEF init_data, split_data, scoring
    <3> QED
      BY <3>1
  <2> QED
    BY <1>1, <2>1, <2>2, <2>3 DEF Next
<1> QED
  BY <1>1, InitInv, NextInv, StageInit, StageNext, PTL DEF Spec, TrainBeforeTest

\* When the matrices are computed the classes have given trees and test the
\* same numbers of files, and with TEST = 50 an odd one goes to the trees.
THEOREM SplitIsBalanced == Spec => []ClassesBalanced
<1>1. SplitInv /\ StageInv => ClassesBalanced
  <2> SUFFICES ASSUME SplitInv, StageInv, phase = "scoring"
               PROVE  /\ Len(tree["spam"]) = Len(tree["ham"])
                      /\ Len(scores["spam"]) = Len(scores["ham"])
                      /\ Len(tree["spam"]) + Len(scores["spam"]) = Smaller
                      /\ TEST = 50 => Len(tree["spam"]) - Len(scores["spam"]) \in {0, 1}
    BY DEF ClassesBalanced
  <2> DEFINE t == (Smaller * TEST) \div 100
  <2>1. Smaller \in Nat /\ t \in 0 .. Smaller
    BY SmallerProperties, PartOfFiles DEF SplitInv, Parts
  <2>2. TEST = 50 => Smaller - t - t \in {0, 1}
    BY <2>1
  <2>3. ASSUME NEW c \in Class
        PROVE  Len(tree[c]) = Smaller - t /\ Len(scores[c]) = t
    <3>1. /\ Len(tree[c]) = train[c] /\ train[c] + Len(tested[c]) = num[c]
          /\ num[c] = Smaller /\ train[c] = Smaller - t /\ Len(scores[c]) = Len(tested[c])
      BY DEF StageInv, Split, Trained, Finished
    <3>2. Len(tested[c]) \in Nat
      BY LenProperties DEF SplitInv, Parts
    <3> HIDE DEF t, Smaller
    <3> QED
      BY <2>1, <3>1, <3>2
  <2> HIDE DEF t, Smaller
  <2>4. /\ Len(tree["spam"]) = Smaller - t /\ Len(scores["spam"]) = t
        /\ Len(tree["ham"]) = Smaller - t /\ Len(scores["ham"]) = t
    BY <2>3 DEF Class
  <2> QED
    BY <2>1, <2>2, <2>4
<1> QED
  BY <1>1, InitInv, NextInv, StageInit, StageNext, PTL DEF Spec

-----------------------------------------------------------------------------
\* The margins of the scores of one class, and the files on either side.
LEMMA CountsProperties ==
  ASSUME scores \in [Class -> Seq(Scores)], NEW c \in Class, NEW th \in Nat
  PROVE  /\ Above(c, th) \cup Tied(c, th) \cup Below(c, th) = 1 .. Len(scores[c])
         /\ Above(c, th) \cap Tied(c, th) = {}
         /\ Above(c, th) \cap Below(c, th) = {}
         /\ Tied(c, th) \cap Below(c, th) = {}
<1>1. DOMAIN scores[c] = 1 .. Len(scores[c])
  BY LenProperties
<1>2. ASSUME NEW k \in 1 .. Len(scores[c])
      PROVE  Margin(scores[c][k], th) \in Int
  <2>1. scores[c][k] \in [spam : Nat, ham : Nat]
    <3>1. scores[c][k] \in Scores
      BY <1>1, ElementOfSeq
    <3> QED
      BY <3>1, STAssumption
  <2>2. scores[c][k].spam * th \in Nat /\ 100 * scores[c][k].ham \in Nat
    BY <2>1
  <2> QED
    BY <2>2 DEF Margin
<1> HIDE DEF Margin
<1> QED
  BY <1>1, <1>2 DEF Above, Tied, Below

\* One row stands for every tested file of either class once.
LEMMA MatrixAddsUp ==
  ASSUME scores \in [Class -> Seq(Scores)], NEW th \in Nat
  PROVE  /\ Matrix(th) \in Row
         /\ Matrix(th).SS + Matrix(th).SH = Len(scores["spam"])
         /\ Matrix(th).HH + Matrix(th).HS = Len(scores["ham"])
<1>1. ASSUME NEW n \in Nat, NEW S, NEW T, S \cup T = 1 .. n, S \cap T = {}
      PROVE  /\ Cardinality(S) \in Nat /\ Cardinality(T) \in Nat
             /\ Cardinality(S) + Cardinality(T) = n
  <2>1. IsFiniteSet(1 .. n) /\ Cardinality(1 .. n) = n
    BY FS_Interval
  <2>2. IsFiniteSet(S) /\ IsFiniteSet(T)
    BY <1>1, <2>1, FS_Subset
  <2>3. Cardinality(S) \in Nat /\ Cardinality(T) \in Nat
    BY <2>2, FS_CardinalityType
  <2>4. Cardinality(S \cup T) = Cardinality(S) + Cardinality(T) - Cardinality(S \cap T)
    BY <2>2, FS_Union
  <2>5. Cardinality(S \cap T) = 0
    BY <1>1, FS_EmptySet
  <2>6. Cardinality(S \cup T) = n /\ S \cap T = {}
    BY <1>1, <2>1
  <2>7. Cardinality(S) + Cardinality(T) = n
    BY <2>3, <2>4, <2>5, <2>6
  <2> QED
    BY <2>3, <2>7
<1>2. Len(scores["spam"]) \in Nat /\ Len(scores["ham"]) \in Nat
  BY LenProperties DEF Class
<1>3. /\ (Above("spam", th) \cup Tied("spam", th)) \cup Below("spam", th)
            = 1 .. Len(scores["spam"])
      /\ (Above("spam", th) \cup Tied("spam", th)) \cap Below("spam", th) = {}
  <2>1. "spam" \in Class
    BY DEF Class
  <2> QED
    BY <2>1, CountsProperties
<1>4. /\ (Below("ham", th) \cup Tied("ham", th)) \cup Above("ham", th)
            = 1 .. Len(scores["ham"])
      /\ (Below("ham", th) \cup Tied("ham", th)) \cap Above("ham", th) = {}
  <2>1. "ham" \in Class
    BY DEF Class
  <2> QED
    BY <2>1, CountsProperties
<1>5. /\ Cardinality(Above("spam", th) \cup Tied("spam", th)) \in Nat
      /\ Cardinality(Below("spam", th)) \in Nat
      /\ Cardinality(Above("spam", th) \cup Tied("spam", th))
           + Cardinality(Below("spam", th)) = Len(scores["spam"])
  BY <1>1, <1>2, <1>3
<1>6. /\ Cardinality(Below("ham", th) \cup Tied("ham", th)) \in Nat
      /\ Cardinality(Above("ham", th)) \in Nat
      /\ Cardinality(Below("ham", th) \cup Tied("ham", th))
           + Cardinality(Above("ham", th)) = Len(scores["ham"])
  BY <1>1, <1>2, <1>4
<1> QED
  BY <1>5, <1>6 DEF Matrix, Row

\* A higher threshold turns no spam file and no ham file into ham.
LEMMA MatrixIsMonotone ==
  ASSUME scores \in [Class -> Seq(Scores)], NEW low \in Nat, NEW high \in Nat, low <= high
  PROVE  /\ Matrix(low).SS <= Matrix(high).SS
         /\ Matrix(low).HH >= Matrix(high).HH
<1>1. ASSUME NEW c \in Class, NEW k \in 1 .. Len(scores[c])
      PROVE  /\ Margin(scores[c][k], low) \in Int /\ Margin(scores[c][k], high) \in Int
             /\ Margin(scores[c][k], low) <= Margin(scores[c][k], high)
  <2>1. scores[c][k] \in [spam : Nat, ham : Nat]
    <3>1. scores[c][k] \in Scores
      BY <1>1, LenProperties, ElementOfSeq
    <3> QED
      BY <3>1, STAssumption
  <2> DEFINE s == scores[c][k].spam
             h == scores[c][k].ham
             d == high - low
  <2>2. s \in Nat /\ h \in Nat /\ d \in Nat /\ high = low + d
    BY <2>1
  <2> HIDE DEF s, h, d
  <2>3. s * high = s * low + s * d /\ s * low \in Nat /\ s * d \in Nat
    BY <2>2
  <2>4. /\ Margin(scores[c][k], low) = s * low - 100 * h
        /\ Margin(scores[c][k], high) = s * high - 100 * h
    BY DEF Margin, s, h
  <2> QED
    BY <2>2, <2>3, <2>4
<1>2. ASSUME NEW c \in Class
      PROVE  /\ Above(c, low) \cup Tied(c, low) \subseteq Above(c, high) \cup Tied(c, high)
             /\ Below(c, high) \cup Tied(c, high) \subseteq Below(c, low) \cup Tied(c, low)
             /\ Above(c, high) \cup Tied(c, high) \subseteq 1 .. Len(scores[c])
             /\ Below(c, low) \cup Tied(c, low) \subseteq 1 .. Len(scores[c])
  <2> DEFINE K == DOMAIN scores[c]
             before == [k \in K |-> Margin(scores[c][k], low)]
             after == [k \in K |-> Margin(scores[c][k], high)]
  <2>1. K = 1 .. Len(scores[c])
    BY LenProperties
  <2>2. \A k \in K : before[k] \in Int /\ after[k] \in Int /\ before[k] <= after[k]
    BY <1>1, <2>1
  <2>3. /\ Above(c, low) \cup Tied(c, low) = {k \in K : before[k] > 0} \cup {k \in K : before[k] = 0}
        /\ Below(c, low) \cup Tied(c, low) = {k \in K : before[k] < 0} \cup {k \in K : before[k] = 0}
    BY DEF Above, Tied, Below
  <2>4. /\ Above(c, high) \cup Tied(c, high) = {k \in K : after[k] > 0} \cup {k \in K : after[k] = 0}
        /\ Below(c, high) \cup Tied(c, high) = {k \in K : after[k] < 0} \cup {k \in K : after[k] = 0}
    BY DEF Above, Tied, Below
  <2> HIDE DEF K, before, after
  <2>5. /\ Above(c, low) \cup Tied(c, low) = {k \in K : before[k] >= 0}
        /\ Below(c, low) \cup Tied(c, low) = {k \in K : before[k] <= 0}
    BY <2>2, <2>3
  <2>6. /\ Above(c, high) \cup Tied(c, high) = {k \in K : after[k] >= 0}
        /\ Below(c, high) \cup Tied(c, high) = {k \in K : after[k] <= 0}
    BY <2>2, <2>4
  <2>7. /\ {k \in K : before[k] >= 0} \subseteq {k \in K : after[k] >= 0}
        /\ {k \in K : after[k] <= 0} \subseteq {k \in K : before[k] <= 0}
    BY <2>2
  <2> QED
    BY <2>1, <2>5, <2>6, <2>7
<1>3. ASSUME NEW n \in Nat, NEW S, NEW T, S \subseteq T, T \subseteq 1 .. n
      PROVE  Cardinality(S) <= Cardinality(T)
  <2>1. IsFiniteSet(1 .. n)
    BY FS_Interval
  <2>2. IsFiniteSet(T)
    BY <1>3, <2>1, FS_Subset
  <2> QED
    BY <1>3, <2>2, FS_Subset
<1>4. "spam" \in Class /\ "ham" \in Class
      /\ Len(scores["spam"]) \in Nat /\ Len(scores["ham"]) \in Nat
  BY LenProperties DEF Class
<1>5. /\ Cardinality(Above("spam", low) \cup Tied("spam", low))
           <= Cardinality(Above("spam", high) \cup Tied("spam", high))
      /\ Cardinality(Below("ham", high) \cup Tied("ham", high))
           <= Cardinality(Below("ham", low) \cup Tied("ham", low))
  BY <1>2, <1>3, <1>4
<1>6. Matrix(low) \in Row /\ Matrix(high) \in Row
  BY MatrixAddsUp
<1> QED
  BY <1>5, <1>6 DEF Matrix, Row

LEMMA RowsNext == SplitInv /\ StageInv /\ RowsInv /\ [Next]_vars => RowsInv'
<1> SUFFICES ASSUME SplitInv, StageInv, RowsInv, [Next]_vars PROVE RowsInv'
  OBVIOUS
<1>1. CASE UNCHANGED vars
  BY <1>1 DEF vars, RowsInv, Matrix, Above, Tied, Below
<1>2. CASE rows' = rows /\ phase \notin {"scoring", "done"}
  <2>1. rows = <<>> /\ rows' = <<>>
    BY <1>2 DEF RowsInv
  <2>2. rows' \in Seq(Row) /\ Len(rows') <= Len(Thresholds) /\ 1 .. Len(rows') = {}
    BY <1>2, <2>1, EmptySeq DEF RowsInv
  <2> QED
    BY <2>1, <2>2 DEF RowsInv
<1>3. CASE scoring
  <2> DEFINE n == Len(rows)
             row == Matrix(Thresholds[n + 1])
  <2>1. /\ rows \in Seq(Row) /\ n \in Nat /\ n + 1 <= Len(Thresholds)
        /\ Len(Thresholds) \in Nat
        /\ rows' = Append(rows, row) /\ phase' \in {"scoring", "done"}
        /\ scores' = scores /\ scores \in [Class -> Seq(Scores)]
    <3>1. Len(rows) < Len(Thresholds) /\ rows \in Seq(Row) /\ Len(Thresholds) \in Nat
      BY <1>3, STAssumption DEF scoring, RowsInv
    <3> QED
      BY <1>3, <3>1, LenProperties DEF scoring, StageInv
  <2>2. Thresholds[n + 1] \in Nat
    <3>1. n + 1 \in 1 .. Len(Thresholds) /\ Thresholds \in Seq(Nat \ {0})
      BY <2>1, STAssumption
    <3> QED
      BY <3>1, ElementOfSeq
  <2>3. row \in Row
    BY <2>1, <2>2, MatrixAddsUp
  <2> HIDE DEF row, n
  <2>4. /\ rows' \in Seq(Row) /\ Len(rows') = n + 1 /\ rows'[n + 1] = row
        /\ \A k \in 1 .. n : rows'[k] = rows[k]
    BY <2>1, <2>3, AppendProperties DEF n
  <2>5. \A th : Matrix(th)' = Matrix(th)
    BY <2>1 DEF Matrix, Above, Tied, Below
  <2>6. ASSUME NEW k \in 1 .. Len(rows')
        PROVE  rows'[k] = Matrix(Thresholds[k])
    <3>1. CASE k = n + 1
      BY <2>4, <3>1 DEF row
    <3>2. CASE k # n + 1
      <4>1. k \in 1 .. n
        BY <2>1, <2>4, <3>2
      <4> QED
        BY <2>4, <4>1 DEF RowsInv, n
    <3> QED
      BY <3>1, <3>2
  <2> QED
    BY <2>1, <2>4, <2>5, <2>6 DEF RowsInv
<1>4. CASE init_data \/ split_data \/ TrainSpam \/ TrainHam \/ TestSpam \/ TestHam
  BY <1>2, <1>4 DEF init_data, split_data, TrainSpam, TrainHam, TestSpam, TestHam, Train, Test
<1> QED
  BY <1>1, <1>3, <1>4 DEF Next

\* The thresholds rise from the first to the last.
LEMMA ThresholdsRise ==
  ASSUME NEW k \in 1 .. Len(Thresholds) - 1
  PROVE  /\ Thresholds[k] \in Nat /\ Thresholds[k + 1] \in Nat
         /\ Thresholds[k] <= Thresholds[k + 1]
<1>1. Len(Thresholds) \in Nat /\ Thresholds \in Seq(Nat \ {0})
  BY STAssumption, LenProperties
<1>2. k \in 1 .. Len(Thresholds) /\ k + 1 \in 1 .. Len(Thresholds)
  BY <1>1
<1>3. Thresholds[k] \in Nat /\ Thresholds[k + 1] \in Nat
  BY <1>1, <1>2, ElementOfSeq
<1>4. Thresholds[k] < Thresholds[k + 1]
  BY STAssumption
<1> QED
  BY <1>3, <1>4

\* Whatever the files score, every row of out.txt stands for all the files
\* tested, ties included, and the rows are the points of a monotone curve.
THEOREM RowsFormCurve == Spec => []RowsAreCurve
<1>1. SplitInv /\ StageInv /\ RowsInv => RowsAreCurve
  <2> SUFFICES ASSUME SplitInv, StageInv, RowsInv PROVE RowsAddUp /\ RowsMonotone
    BY DEF RowsAreCurve
  <2>1. /\ DOMAIN rows = 1 .. Len(rows) /\ Len(rows) \in Nat /\ Len(Thresholds) \in Nat
        /\ Len(rows) <= Len(Thresholds) /\ scores \in [Class -> Seq(Scores)]
    <3>1. rows \in Seq(Row) /\ Thresholds \in Seq(Nat \ {0})
      BY STAssumption DEF RowsInv
    <3> QED
      BY <3>1, LenProperties DEF RowsInv, StageInv
  <2>2. ASSUME NEW k \in DOMAIN rows
        PROVE  /\ rows[k].SS + rows[k].SH = test["spam"]
               /\ rows[k].HH + rows[k].HS = test["ham"]
    <3>1. rows[k] = Matrix(Thresholds[k]) /\ phase \in {"scoring", "done"}
      <4>1. k \in 1 .. Len(rows)
        BY <2>1, <2>2
      <4>2. rows # <<>>
        BY <2>1, <4>1
      <4> QED
        BY <4>1, <4>2 DEF RowsInv
    <3>2. Thresholds[k] \in Nat
      <4>1. k \in 1 .. Len(Thresholds) /\ Thresholds \in Seq(Nat \ {0})
        BY <2>1, STAssumption
      <4> QED
        BY <4>1, ElementOfSeq
    <3>3. ASSUME NEW c \in Class PROVE Len(scores[c]) = test[c]
      <4> DEFINE t == (Smaller * TEST) \div 100
      <4>1. Smaller \in Nat /\ t \in 0 .. Smaller
        BY SmallerProperties, PartOfFiles DEF SplitInv, Parts
      <4>2. /\ train[c] + Len(tested[c]) = num[c] /\ Len(scores[c]) = Len(tested[c])
            /\ num[c] = Smaller /\ train[c] = Smaller - t /\ test[c] = t
        BY <3>1 DEF StageInv, Split, Finished
      <4>3. Len(tested[c]) \in Nat
        BY LenProperties DEF SplitInv, Parts
      <4> HIDE DEF t, Smaller
      <4> QED
        BY <4>1, <4>2, <4>3
    <3>4. Len(scores["spam"]) = test["spam"] /\ Len(scores["ham"]) = test["ham"]
      BY <3>3 DEF Class
    <3> QED
      BY <2>1, <3>1, <3>2, <3>4, MatrixAddsUp
  <2>3. ASSUME NEW k \in 1 .. Len(rows) - 1
        PROVE  rows[k].SS <= rows[k + 1].SS /\ rows[k].HH >= rows[k + 1].HH
    <3>1. k \in 1 .. Len(rows) /\ k + 1 \in 1 .. Len(rows) /\ k \in 1 .. Len(Thresholds) - 1
      BY <2>1
    <3>2. rows[k] = Matrix(Thresholds[k]) /\ rows[k + 1] = Matrix(Thresholds[k + 1])
      BY <3>1 DEF RowsInv
    <3> QED
      BY <2>1, <3>1, <3>2, ThresholdsRise, MatrixIsMonotone
  <2> QED
    BY <2>2, <2>3 DEF RowsAddUp, RowsMonotone
<1> QED
  BY <1>1, InitInv, NextInv, StageInit, StageNext, RowsNext, PTL DEF Spec
=============================================================================
