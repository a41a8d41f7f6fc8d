-------------------------- MODULE SuffixTreeProofs ---------------------------
(***************************************************************************)
(* Proofs about the suffix tree, for every set of words.                   *)
(***************************************************************************)
EXTENDS SuffixTreeScore, DataInduction, FunctionTheorems, SequenceTheorems

\* The inductive invariant of training.
TrainInv ==
  /\ TrainTypeOK
  /\ Root \in Nodes
  /\ Len(node) <= Len(suffix)
  /\ PhiIsProbability
  /\ IsFiniteSet(Nodes)
  /\ RootCountsNodes

LEMMA FrontOfAppend ==
  ASSUME NEW S, NEW n \in Seq(S), NEW x \in S
  PROVE  /\ Append(n, x) \in Seq(S)
         /\ Append(n, x) # <<>>
         /\ Front(Append(n, x)) = n
         /\ Append(n, x) # n
<1>1. /\ Append(n, x) \in Seq(S)
      /\ Append(n, x) # <<>>
      /\ Len(Append(n, x)) = Len(n) + 1
      /\ \A k \in 1 .. Len(n) : Append(n, x)[k] = n[k]
      /\ Len(n) \in Nat
  BY AppendProperties, LenProperties
<1>2. Front(Append(n, x)) = n
  BY <1>1 DEF Front
<1> QED
  BY <1>1, <1>2

\* The node the descent goes on to.
LEMMA NextNodeProperties ==
  ASSUME TrainInv, Len(node) < Len(suffix)
  PROVE  /\ NextNode \in Seq(Letter)
         /\ NextNode # Root
         /\ Front(NextNode) = node
         /\ NextNode # node
         /\ Len(NextNode) = Len(node) + 1
<1>1. /\ node \in Seq(Letter) /\ suffix \in Seq(Letter)
      /\ Len(node) \in Nat /\ Len(suffix) \in Nat
  BY LenProperties DEF TrainInv, TrainTypeOK
<1>2. suffix[Len(node) + 1] \in Letter
  BY <1>1, ElementOfSeq
<1> QED
  BY <1>1, <1>2, FrontOfAppend, AppendProperties DEF NextNode, Root

LEMMA TrainInitInv == TrainInit => TrainInv
<1> SUFFICES ASSUME TrainInit PROVE TrainInv
  OBVIOUS
<1>1. Nodes = {Root} /\ Root \in Seq(Letter)
  BY EmptySeq DEF TrainInit, Nodes, Root
<1>2. TrainTypeOK /\ Len(node) <= Len(suffix)
  <2>1. 0 \in Nat /\ suffix \in Seq(Letter) /\ node \in Nodes /\ Len(node) = Len(suffix)
    BY <1>1, EmptySeq DEF TrainInit, Root
  <2>2. /\ num \in [Nodes -> Nat] /\ sum \in [Nodes -> Nat]
        /\ freq \in [0 .. MAX_DEEP - 1 -> Nat] /\ trained \in [Word -> Nat]
    BY <1>1 DEF TrainInit
  <2>3. overrun \in BOOLEAN /\ Nodes \subseteq Seq(Letter) /\ Len(node) \in Nat
    BY <1>1, <2>1, LenProperties DEF TrainInit
  <2> QED
    BY <2>1, <2>2, <2>3 DEF TrainTypeOK
<1>3. IsFiniteSet(Nodes) /\ RootCountsNodes
  <2>1. IsFiniteSet(Nodes) /\ Cardinality(Nodes) = 1
    BY <1>1, FS_Singleton
  <2>2. num[Root] = 0
    BY DEF TrainInit
  <2> QED
    BY <2>1, <2>2 DEF RootCountsNodes
<1> QED
  BY <1>1, <1>2, <1>3 DEF TrainInv, PhiIsProbability

\* Counting another visit keeps num below the sum of the node above.
LEMMA FollowInv ==
  ASSUME TrainInv, Follow
  PROVE  TrainInv'
<1> DEFINE c == NextNode
<1>1. /\ c \in Seq(Letter) /\ c # Root /\ Front(c) = node /\ c # node
      /\ Len(c) = Len(node) + 1
  BY NextNodeProperties DEF Follow, Visits, Departures, Entries
<1>2. /\ c \in Nodes /\ Len(node) < Len(suffix)
      /\ num' = [num EXCEPT ![c] = @ + 1]
      /\ sum' = [sum EXCEPT ![node] = @ + 1]
      /\ freq' = IF Len(c) < MAX_DEEP THEN [freq EXCEPT ![Len(c)] = @ + 1] ELSE freq
      /\ overrun' \in BOOLEAN
      /\ node' = c /\ suffix' = suffix /\ trained' = trained
  BY DEF Follow, Visits, Departures, Entries
<1> HIDE DEF c
<1>3. /\ num \in [Nodes -> Nat] /\ sum \in [Nodes -> Nat] /\ node \in Nodes
      /\ node \in Seq(Letter) /\ suffix \in Seq(Letter)
      /\ Root \in Nodes /\ Len(node) \in Nat /\ Len(suffix) \in Nat
  BY LenProperties DEF TrainInv, TrainTypeOK
<1>4. /\ Nodes' = Nodes
      /\ num' \in [Nodes -> Nat]
      /\ sum' \in [Nodes -> Nat]
      /\ \A n \in Nodes : num'[n] = IF n = c THEN num[n] + 1 ELSE num[n]
      /\ \A n \in Nodes : sum'[n] = IF n = node THEN sum[n] + 1 ELSE sum[n]
  BY <1>2, <1>3 DEF Nodes
<1>5. TrainTypeOK'
  <2>1. freq' \in [0 .. MAX_DEEP - 1 -> Nat]
    <3>1. Len(c) < MAX_DEEP => Len(c) \in 0 .. MAX_DEEP - 1
      BY <1>1, <1>3, WordAssumption
    <3>2. freq \in [0 .. MAX_DEEP - 1 -> Nat]
      BY DEF TrainInv, TrainTypeOK
    <3> QED
      BY <1>2, <3>1, <3>2
  <2> QED
    BY <1>2, <1>3, <1>4, <2>1 DEF TrainInv, TrainTypeOK
<1>6. (Len(node) <= Len(suffix))'
  BY <1>1, <1>2, <1>3 DEF TrainInv
<1>7. PhiIsProbability'
  <2> SUFFICES ASSUME NEW n \in Nodes \ {Root}
               PROVE  Front(n) \in Nodes /\ num'[n] \in 1 .. sum'[Front(n)]
    BY <1>4 DEF PhiIsProbability, Root
  <2>1. Front(n) \in Nodes /\ num[n] \in 1 .. sum[Front(n)]
    BY DEF TrainInv, PhiIsProbability
  <2>2. num'[n] = IF n = c THEN num[n] + 1 ELSE num[n]
    BY <1>4
  <2>3. sum'[Front(n)] = IF Front(n) = node THEN sum[Front(n)] + 1 ELSE sum[Front(n)]
    BY <1>4, <2>1
  <2>4. num[n] \in Nat /\ sum[Front(n)] \in Nat
    BY <1>3, <2>1
  <2>5. CASE n = c
    BY <1>1, <2>1, <2>2, <2>3, <2>4, <2>5
  <2>6. CASE n # c
    BY <2>1, <2>2, <2>3, <2>4, <2>6
  <2> QED
    BY <2>5, <2>6
<1>8. IsFiniteSet(Nodes') /\ RootCountsNodes'
  BY <1>1, <1>3, <1>4 DEF TrainInv, RootCountsNodes, Root
<1> QED
  BY <1>3, <1>4, <1>5, <1>6, <1>7, <1>8 DEF TrainInv, Root

\* A new child starts with one visit, just counted in the node above it.
LEMMA GrowInv ==
  ASSUME TrainInv, Grow
  PROVE  TrainInv'
<1> DEFINE c == NextNode
<1>1. /\ c \in Seq(Letter) /\ c # Root /\ Front(c) = node /\ c # node
      /\ Len(c) = Len(node) + 1
  BY NextNodeProperties DEF Grow, NewSums, Entries
<1>2. /\ c \notin Nodes /\ Len(node) < Len(suffix)
      /\ num' = [n \in Nodes \cup {c} |->
                   IF n = c THEN 1 ELSE IF n = Root THEN num[n] + 1 ELSE num[n]]
      /\ sum' = [n \in Nodes \cup {c} |->
                   IF n = c THEN 0 ELSE IF n = node THEN sum[n] + 1 ELSE sum[n]]
      /\ freq' = IF Len(c) < MAX_DEEP THEN [freq EXCEPT ![Len(c)] = @ + 1] ELSE freq
      /\ overrun' \in BOOLEAN
      /\ node' = c /\ suffix' = suffix /\ trained' = trained
  BY DEF Grow, NewSums, Entries
<1> HIDE DEF c
<1>3. /\ num \in [Nodes -> Nat] /\ sum \in [Nodes -> Nat] /\ node \in Nodes
      /\ node \in Seq(Letter) /\ suffix \in Seq(Letter)
      /\ Root \in Nodes /\ Len(node) \in Nat /\ Len(suffix) \in Nat
  BY LenProperties DEF TrainInv, TrainTypeOK
<1>4. /\ Nodes' = Nodes \cup {c}
      /\ num' \in [Nodes \cup {c} -> Nat]
      /\ sum' \in [Nodes \cup {c} -> Nat]
  BY <1>2, <1>3 DEF Nodes
<1>5. TrainTypeOK'
  <2>1. freq' \in [0 .. MAX_DEEP - 1 -> Nat]
    <3>1. Len(c) < MAX_DEEP => Len(c) \in 0 .. MAX_DEEP - 1
      BY <1>1, <1>3, WordAssumption
    <3>2. freq \in [0 .. MAX_DEEP - 1 -> Nat]
      BY DEF TrainInv, TrainTypeOK
    <3> QED
      BY <1>2, <3>1, <3>2
  <2> QED
    BY <1>1, <1>2, <1>3, <1>4, <2>1 DEF TrainInv, TrainTypeOK
<1>6. (Len(node) <= Len(suffix))'
  BY <1>1, <1>2, <1>3 DEF TrainInv
<1>7. PhiIsProbability'
  <2> SUFFICES ASSUME NEW n \in (Nodes \cup {c}) \ {Root}
               PROVE  /\ Front(n) \in Nodes \cup {c}
                      /\ num'[n] \in 1 .. sum'[Front(n)]
    BY <1>4 DEF PhiIsProbability, Root
  <2>1. CASE n = c
    <3>1. num'[n] = 1 /\ sum'[Front(n)] = sum[node] + 1
      BY <1>1, <1>2, <1>3, <2>1
    <3> QED
      BY <1>1, <1>3, <2>1, <3>1
  <2>2. CASE n # c
    <3>1. Front(n) \in Nodes /\ num[n] \in 1 .. sum[Front(n)]
      BY <2>2 DEF TrainInv, PhiIsProbability
    <3>2. num'[n] = num[n] /\ Front(n) # c
      BY <1>2, <2>2, <3>1
    <3>3. sum'[Front(n)] = IF Front(n) = node THEN sum[node] + 1 ELSE sum[Front(n)]
      BY <1>2, <3>1, <3>2
    <3> QED
      BY <1>3, <3>1, <3>2, <3>3
  <2> QED
    BY <2>1, <2>2
<1>8. IsFiniteSet(Nodes') /\ RootCountsNodes'
  <2>1. IsFiniteSet(Nodes') /\ Cardinality(Nodes') = Cardinality(Nodes) + 1
    BY <1>2, <1>4, FS_AddElement DEF TrainInv
  <2>2. num'[Root] = num[Root] + 1
    BY <1>1, <1>2, <1>3
  <2>3. num[Root] = Cardinality(Nodes) - 1 /\ Cardinality(Nodes) \in Nat
    BY FS_CardinalityType DEF TrainInv, RootCountsNodes
  <2> QED
    BY <2>1, <2>2, <2>3 DEF RootCountsNodes, Root
<1> QED
  BY <1>3, <1>4, <1>5, <1>6, <1>7, <1>8 DEF TrainInv, Root

LEMMA TrainNextInv == TrainInv /\ [TrainNext]_trainVars => TrainInv'
<1> SUFFICES ASSUME TrainInv, [TrainNext]_trainVars PROVE TrainInv'
  OBVIOUS
<1>1. CASE UNCHANGED trainVars
  BY <1>1 DEF trainVars, treeVars, TrainInv, TrainTypeOK, PhiIsProbability, Nodes,
              RootCountsNodes, Root
<1>2. ASSUME NEW w \in Word, AddString(w)
      PROVE  TrainInv'
  <2>1. suffix = <<>> /\ suffix' = w /\ UNCHANGED <<num, sum, freq, overrun, node>>
    BY <1>2 DEF AddString, treeVars
  <2>2. w \in Seq(Letter) /\ Len(w) \in Nat /\ Len(node) <= Len(w)
    <3>1. w \in Seq(Letter) /\ Len(w) \in Nat
      BY WordAssumption, LenProperties
    <3>2. Len(node) \in Nat /\ Len(node) <= 0
      BY <2>1, EmptySeq, LenProperties DEF TrainInv, TrainTypeOK
    <3> QED
      BY <3>1, <3>2
  <2>3. trained' \in [Word -> Nat]
    BY <1>2 DEF AddString, TrainInv, TrainTypeOK
  <2> QED
    BY <2>1, <2>2, <2>3 DEF TrainInv, TrainTypeOK, PhiIsProbability, Nodes,
                            RootCountsNodes, Root
<1>3. CASE Follow
  BY <1>3, FollowInv
<1>4. CASE Grow
  BY <1>4, GrowInv
<1>5. CASE Recurse
  <2>1. /\ suffix # <<>> /\ suffix' = Tail(suffix) /\ node' = Root
        /\ UNCHANGED <<num, sum, freq, overrun, trained>>
    BY <1>5 DEF Recurse, Rest, treeVars
  <2>2. /\ Tail(suffix) \in Seq(Letter) /\ Len(Root) = 0
        /\ Len(Tail(suffix)) \in Nat
    <3>1. Tail(suffix) \in Seq(Letter)
      BY <2>1, HeadTailProperties DEF TrainInv, TrainTypeOK
    <3> QED
      BY <3>1, LenProperties, EmptySeq DEF Root
  <2> QED
    BY <2>1, <2>2 DEF TrainInv, TrainTypeOK, PhiIsProbability, Nodes,
                      RootCountsNodes, Root
<1> QED
  BY <1>1, <1>2, <1>3, <1>4, <1>5 DEF TrainNext

\* num/sum is a number in (0, 1] on every edge of every tree AddString builds.
THEOREM Probabilities == TrainSpec => []PhiIsProbability
<1>1. TrainInv => PhiIsProbability
  BY DEF TrainInv
<1> QED
  BY <1>1, TrainInitInv, TrainNextInv, PTL DEF TrainSpec

\* The root's num is the number of the other nodes.
THEOREM TreeSize == TrainSpec => []RootCountsNodes
<1>1. TrainInv => RootCountsNodes
  BY DEF TrainInv
<1> QED
  BY <1>1, TrainInitInv, TrainNextInv, PTL DEF TrainSpec
-----------------------------------------------------------------------------
ScoreInv == TrainInv /\ ScoreTypeOK

\* Training never removes a node.
LEMMA NodesStay ==
  ASSUME TrainNext
  PROVE  Nodes \subseteq Nodes'
  BY DEF TrainNext, AddString, Follow, Visits, Departures, Entries, Grow, NewSums, Entries, Recurse, Rest, treeVars, Nodes

\* A child found by the walk has the node of the walk above it.
LEMMA MatchProperties ==
  ASSUME ScoreInv, Matches
  PROVE  /\ Child \in Nodes
         /\ num[Child] \in 1 .. sum[p]
         /\ num[Child] \in Nat \ {0} /\ sum[p] \in Nat \ {0}
<1>1. s[j] \in Letter /\ p \in Seq(Letter)
  <2>1. j \in 1 .. Len(s) /\ s \in Seq(Letter)
    BY LenProperties DEF ScoreInv, ScoreTypeOK, Matches
  <2> QED
    BY <2>1, ElementOfSeq DEF ScoreInv, ScoreTypeOK, TrainInv, TrainTypeOK
<1>2. Child \in Nodes /\ Child # Root /\ Front(Child) = p
  BY <1>1, FrontOfAppend DEF Matches, Child, Root
<1>3. num[Child] \in 1 .. sum[p] /\ sum[p] \in Nat
  BY <1>2 DEF ScoreInv, ScoreTypeOK, TrainInv, TrainTypeOK, PhiIsProbability
<1> QED
  BY <1>2, <1>3

\* Adding two of the pairs that stand for doubles gives another.
LEMMA PlusType ==
  ASSUME NEW a \in Nat \X (Nat \ {0}), NEW b \in Nat \X (Nat \ {0})
  PROVE  Plus(a, b) \in Nat \X (Nat \ {0})
<1>1. \A x, y \in Nat : x * y \in Nat
  OBVIOUS
<1>2. \A x, y \in Nat \ {0} : x * y \in Nat \ {0}
  OBVIOUS
<1>3. a[1] * b[2] + b[1] * a[2] \in Nat /\ a[2] * b[2] \in Nat \ {0}
  BY <1>1, <1>2
<1> QED
  BY <1>3 DEF Plus

LEMMA ScoreNextInv == ScoreInv /\ [ScoreNext]_allVars => ScoreInv'
<1> SUFFICES ASSUME ScoreInv, [ScoreNext]_allVars PROVE ScoreInv'
  OBVIOUS
<1> USE DEF ScoreInv
<1>1. CASE UNCHANGED allVars
  <2>1. UNCHANGED trainVars /\ TrainInv'
    BY <1>1, TrainNextInv DEF allVars
  <2> QED
    BY <1>1, <2>1 DEF allVars, trainVars, treeVars, scoreVars, ScoreTypeOK, Nodes
<1>2. CASE Train
  <2>1. TrainInv' /\ Nodes \subseteq Nodes'
    BY <1>2, TrainNextInv, NodesStay DEF Train
  <2> QED
    BY <1>2, <2>1 DEF Train, scoreVars, ScoreTypeOK
<1>3. ASSUME UNCHANGED trainVars, NEW w \in Seq(Letter), Enter(w), testing' \in BOOLEAN
      PROVE  ScoreInv'
  <2>1. TrainInv' /\ Nodes' = Nodes
    BY <1>3, TrainNextInv DEF trainVars, treeVars, Nodes
  <2> QED
    BY <1>3, <2>1 DEF Enter, ScoreTypeOK, Zero, TrainInv, Root
<1>4. ASSUME NEW w \in Word, Score(w)
      PROVE  ScoreInv'
  BY <1>3, <1>4, WordAssumption DEF Score
<1>5. CASE Return
  BY <1>3, <1>5, EmptySeq DEF Return, ScoreTypeOK
<1>6. CASE Match
  <2>1. /\ Matches
        /\ temp' = Plus(temp, <<num[Child], sum[p]>>) /\ p' = Child /\ j' = j + 1
        /\ UNCHANGED trainVars /\ UNCHANGED <<testing, s, i, res>>
    BY <1>6 DEF Match, Share, Reached
  <2>2. TrainInv' /\ Nodes' = Nodes
    BY <2>1, TrainNextInv DEF trainVars, treeVars, Nodes
  <2>3. Plus(temp, <<num[Child], sum[p]>>) \in Nat \X (Nat \ {0})
    BY <2>1, MatchProperties, PlusType DEF ScoreTypeOK
  <2> QED
    BY <2>1, <2>2, <2>3, MatchProperties DEF ScoreTypeOK
<1>7. CASE Restart
  <2>1. /\ res' \in {res, temp} /\ temp' = Zero /\ i' = i + 1 /\ j' = i + 1
        /\ UNCHANGED trainVars /\ UNCHANGED <<testing, s, p>>
    BY <1>7 DEF Restart, NextStart
  <2>2. TrainInv' /\ Nodes' = Nodes
    BY <2>1, TrainNextInv DEF trainVars, treeVars, Nodes
  <2> QED
    BY <2>1, <2>2 DEF ScoreTypeOK, Zero
<1> QED
  BY <1>1, <1>2, <1>4, <1>5, <1>6, <1>7 DEF ScoreNext

LEMMA ScoreInitInv == ScoreInit => ScoreInv
<1> SUFFICES ASSUME ScoreInit PROVE ScoreInv
  OBVIOUS
<1>1. TrainInv /\ Root \in Nodes /\ <<>> \in Seq(Letter)
  BY TrainInitInv, EmptySeq DEF ScoreInit, TrainInv
<1>2. testing \in BOOLEAN
  BY DEF ScoreInit
<1>3. Zero \in Nat \X (Nat \ {0})
  BY DEF Zero
<1> QED
  BY <1>1, <1>2, <1>3 DEF ScoreInit, ScoreInv, ScoreTypeOK

\* Scoring any word in any trained tree never divides by zero nor leaves the
\* tree, although neither is tested in the code.
THEOREM NoDivisionByZero == ScoreSpec => []WalkStaysInTree
<1>1. ScoreInv => WalkStaysInTree
  BY MatchProperties DEF WalkStaysInTree, ScoreInv, ScoreTypeOK
<1> QED
  BY <1>1, ScoreInitInv, ScoreNextInv, PTL DEF ScoreSpec

-----------------------------------------------------------------------------
\* Nothing of a call is left when none is running, and none runs in training.
IdleInv ==
  /\ ~testing => s = <<>>
  /\ s = <<>> => i = 1 /\ j = 1 /\ p = Root /\ temp = Zero /\ res = Zero

LEMMA IdleInitInv == ScoreInit => IdleInv
  BY DEF ScoreInit, IdleInv

LEMMA IdleNextInv == ScoreInv /\ IdleInv /\ [ScoreNext]_allVars => IdleInv'
<1> SUFFICES ASSUME ScoreInv, IdleInv, [ScoreNext]_allVars PROVE IdleInv'
  OBVIOUS
<1>1. CASE UNCHANGED allVars \/ Train
  BY <1>1 DEF allVars, Train, scoreVars, IdleInv
<1>2. ASSUME NEW w \in Word, Score(w)
      PROVE  IdleInv'
  BY <1>2 DEF Score, Enter, IdleInv
<1>3. CASE Return
  BY <1>3 DEF Return, Enter, IdleInv
<1>4. CASE Match \/ Restart
  <2>1. i <= Len(s) /\ UNCHANGED <<testing, s>>
    BY <1>4 DEF Match, Restart
  <2>2. s # <<>>
    BY <2>1, EmptySeq DEF ScoreInv, ScoreTypeOK
  <2> QED
    BY <2>1, <2>2 DEF IdleInv
<1> QED
  BY <1>1, <1>2, <1>3, <1>4 DEF ScoreNext

\* Multiplying both sides of an inequality by a number.
LEMMA Times ==
  ASSUME NEW a \in Nat, NEW b \in Nat, NEW c \in Nat, a <= b
  PROVE  a * c \in Nat /\ b * c \in Nat /\ a * c <= b * c
<1> DEFINE d == b - a
<1>1. d \in Nat /\ b = a + d
  OBVIOUS
<1> HIDE DEF d
<1>2. b * c = a * c + d * c /\ a * c \in Nat /\ d * c \in Nat
  BY <1>1
<1> QED
  BY <1>2

\* A share of an edge adds at most 1 to a sum of shares.
LEMMA PlusBound ==
  ASSUME NEW a \in Nat \X (Nat \ {0}), NEW b \in Nat \X (Nat \ {0}), NEW n \in Nat,
         ~Less(<<n, 1>>, a), b[1] <= b[2]
  PROVE  ~Less(<<n + 1, 1>>, Plus(a, b))
<1>1. a[1] \in Nat /\ a[2] \in Nat /\ b[1] \in Nat /\ b[2] \in Nat
  OBVIOUS
<1>2. n * a[2] \in Nat /\ a[1] <= n * a[2]
  BY <1>1 DEF Less
<1>3. a[1] * b[2] <= (n * a[2]) * b[2]
  BY <1>1, <1>2, Times
<1>4. b[1] * a[2] <= b[2] * a[2]
  BY <1>1, Times
<1>5. (n + 1) * (a[2] * b[2]) = (n * a[2]) * b[2] + b[2] * a[2]
  BY <1>1
<1>6. /\ a[1] * b[2] \in Nat /\ b[1] * a[2] \in Nat /\ b[2] * a[2] \in Nat
      /\ (n * a[2]) * b[2] \in Nat
  BY <1>1
<1>7. a[1] * b[2] + b[1] * a[2] <= (n + 1) * (a[2] * b[2])
  BY <1>3, <1>4, <1>5, <1>6
<1> QED
  BY <1>1, <1>6, <1>7 DEF Less, Plus

\* No score exceeds the number of letters on the path walked, for any words.
THEOREM ScoresAreBounded == ScoreSpec => []ScoreWithinPath
<1>1. ScoreInit => ScoreWithinPath
  BY EmptySeq DEF ScoreInit, ScoreWithinPath, Less, Zero, Root
<1>2. ScoreInv /\ IdleInv /\ ScoreWithinPath /\ [ScoreNext]_allVars => ScoreWithinPath'
  <2> SUFFICES ASSUME ScoreInv, IdleInv, ScoreWithinPath, [ScoreNext]_allVars
               PROVE  ScoreWithinPath'
    OBVIOUS
  <2>1. /\ p \in Seq(Letter) /\ Len(p) \in Nat
        /\ temp \in Nat \X (Nat \ {0}) /\ res \in Nat \X (Nat \ {0})
    BY LenProperties DEF ScoreInv, ScoreTypeOK, TrainInv, TrainTypeOK
  <2>2. ASSUME NEW score \in Nat \X (Nat \ {0}), ~Less(<<Len(p), 1>>, score)
        PROVE  ~Less(<<Len(p) + 1, 1>>, score)
    <3>1. /\ score[1] \in Nat /\ score[2] \in Nat /\ Len(p) * score[2] \in Nat
          /\ score[1] <= Len(p) * score[2]
      BY <2>1, <2>2 DEF Less
    <3>2. (Len(p) + 1) * score[2] = Len(p) * score[2] + score[2]
      BY <2>1, <3>1
    <3> QED
      BY <3>1, <3>2 DEF Less
  <2>3. CASE UNCHANGED allVars \/ Train
    BY <2>3 DEF allVars, Train, scoreVars, ScoreWithinPath
  <2>4. ASSUME p' = Root, temp' = Zero, res' = Zero
        PROVE  ScoreWithinPath'
    BY <2>4, EmptySeq DEF ScoreWithinPath, Less, Zero, Root
  <2>5. CASE Return \/ \E w \in Word : Score(w)
    BY <2>4, <2>5 DEF Return, Score, Enter
  <2>6. CASE Match
    <3>1. Matches /\ temp' = Plus(temp, Share) /\ p' = Child /\ res' = res
      BY <2>6 DEF Match, Reached
    <3>2. Share \in Nat \X (Nat \ {0}) /\ Share[1] <= Share[2]
      BY <3>1, MatchProperties DEF Share
    <3>3. Len(p') = Len(p) + 1
      <4>1. j \in 1 .. Len(s) /\ s \in Seq(Letter)
        BY <3>1, LenProperties DEF Matches, ScoreInv, ScoreTypeOK
      <4>2. s[j] \in Letter
        BY <4>1, ElementOfSeq
      <4> QED
        BY <2>1, <3>1, <4>2, AppendProperties DEF Child
    <3>4. ~Less(<<Len(p) + 1, 1>>, Plus(temp, Share))
      BY <2>1, <3>2, PlusBound DEF ScoreWithinPath
    <3> QED
      BY <2>1, <2>2, <3>1, <3>3, <3>4 DEF ScoreWithinPath
  <2>7. CASE Restart
    <3>1. p' = p /\ temp' = Zero /\ res' \in {res, temp}
      BY <2>7 DEF Restart
    <3>2. ~Less(<<Len(p), 1>>, Zero)
      BY <2>1 DEF Less, Zero
    <3> QED
      BY <3>1, <3>2 DEF ScoreWithinPath
  <2> QED
    BY <2>3, <2>5, <2>6, <2>7 DEF ScoreNext
<1> QED
  BY <1>1, <1>2, ScoreInitInv, ScoreNextInv, IdleInitInv, IdleNextInv, PTL DEF ScoreSpec

-----------------------------------------------------------------------------
\* The walk has left the root exactly when something has matched, and then
\* something has been scored; before that every start was a mismatch.
LeftRootInv ==
  /\ i > Len(s) => temp[1] = 0
  /\ p = Root => /\ temp[1] = 0 /\ res[1] = 0 /\ j = i
                 /\ \A k \in 1 .. Len(s) : k < i => <<s[k]>> \notin Nodes
  /\ p # Root => /\ temp[1] > 0 \/ res[1] > 0
                 /\ \E k \in 1 .. Len(s) : <<s[k]>> \in Nodes

LEMMA LeftRootNextInv ==
  ScoreInv /\ IdleInv /\ LeftRootInv /\ [ScoreNext]_allVars => LeftRootInv'
<1> SUFFICES ASSUME ScoreInv, IdleInv, LeftRootInv, [ScoreNext]_allVars
             PROVE  LeftRootInv'
  OBVIOUS
<1>1. /\ temp[1] \in Nat /\ temp[2] \in Nat \ {0}
      /\ res[1] \in Nat /\ res[2] \in Nat \ {0}
      /\ i \in Nat \ {0} /\ j \in Nat \ {0} /\ Len(s) \in Nat
  BY LenProperties DEF ScoreInv, ScoreTypeOK
<1>2. CASE UNCHANGED allVars
  BY <1>2 DEF allVars, trainVars, treeVars, scoreVars, LeftRootInv, Nodes
<1>3. ASSUME i' = 1, j' = 1, p' = Root, temp' = Zero, res' = Zero
      PROVE  LeftRootInv'
  BY <1>3 DEF LeftRootInv, Zero, Root
<1>4. CASE Train
  <2>1. i' = 1 /\ j' = 1 /\ p' = Root /\ temp' = Zero /\ res' = Zero
    BY <1>4 DEF Train, scoreVars, IdleInv
  <2> QED
    BY <1>3, <2>1
<1>5. CASE Return \/ \E w \in Word : Score(w)
  BY <1>3, <1>5 DEF Return, Score, Enter
<1>6. CASE Match
  <2>1. /\ Matches /\ i <= Len(s) /\ temp' = Plus(temp, Share) /\ p' = Child
        /\ i' = i /\ s' = s /\ Nodes' = Nodes
    BY <1>6 DEF Match, Reached, trainVars, treeVars, Nodes
  <2>2. temp'[1] > 0
    <3>1. /\ num[Child] \in Nat \ {0} /\ sum[p] \in Nat \ {0}
          /\ temp'[1] = temp[1] * sum[p] + num[Child] * temp[2]
      BY <2>1, MatchProperties DEF Plus, Share
    <3>2. \A x, y \in Nat : x * y \in Nat
      OBVIOUS
    <3>3. \A x, y \in Nat \ {0} : x * y \in Nat \ {0}
      OBVIOUS
    <3>4. temp[1] * sum[p] \in Nat /\ num[Child] * temp[2] \in Nat \ {0}
      BY <1>1, <3>1, <3>2, <3>3
    <3> QED
      BY <3>1, <3>4
  <2>3. p' # Root /\ j \in 1 .. Len(s) /\ s[j] \in Letter /\ p \in Seq(Letter)
    <3>1. j \in 1 .. Len(s) /\ s \in Seq(Letter) /\ p \in Seq(Letter)
      BY <1>1, <2>1 DEF Matches, ScoreInv, ScoreTypeOK, TrainInv, TrainTypeOK
    <3>2. s[j] \in Letter
      BY <3>1, ElementOfSeq
    <3> QED
      BY <2>1, <3>1, <3>2, AppendProperties DEF Child, Root
  <2>4. \E k \in 1 .. Len(s) : <<s[k]>> \in Nodes
    <3>1. CASE p = Root
      <4>1. Child = <<s[j]>>
        BY <3>1 DEF Child, Root
      <4> QED
        BY <2>1, <2>3, <4>1 DEF Matches
    <3>2. CASE p # Root
      BY <3>2 DEF LeftRootInv
    <3> QED
      BY <3>1, <3>2
  <2> QED
    BY <1>1, <2>1, <2>2, <2>3, <2>4 DEF LeftRootInv
<1>7. CASE Restart
  <2>1. /\ i <= Len(s) /\ ~Matches /\ temp'[1] = 0 /\ p' = p
        /\ i' = i + 1 /\ j' = i + 1 /\ s' = s /\ Nodes' = Nodes
        /\ res' = IF Less(res, temp) THEN temp ELSE res
    BY <1>7 DEF Restart, NextStart, Zero, trainVars, treeVars, Nodes
  <2>2. CASE p = Root
    <3>1. temp[1] = 0 /\ res[1] = 0 /\ j = i
      BY <2>2 DEF LeftRootInv
    <3>2. res'[1] = 0
      BY <2>1, <3>1
    <3>3. <<s[i]>> \notin Nodes
      <4>1. Child = <<s[i]>>
        BY <2>2, <3>1 DEF Child, Root
      <4> QED
        BY <2>1, <3>1, <4>1 DEF Matches
    <3>4. \A k \in 1 .. Len(s) : k < i + 1 => <<s[k]>> \notin Nodes
      <4> TAKE k \in 1 .. Len(s)
      <4>1. k < i => <<s[k]>> \notin Nodes
        BY <2>2 DEF LeftRootInv
      <4> QED
        BY <1>1, <3>3, <4>1
    <3> QED
      BY <2>1, <2>2, <3>2, <3>4 DEF LeftRootInv
  <2>3. CASE p # Root
    <3>1. temp[1] > 0 \/ res[1] > 0
      BY <2>3 DEF LeftRootInv
    <3>2. res'[1] > 0
      <4>1. CASE res[1] > 0
        <5>1. ASSUME Less(res, temp) PROVE temp[1] > 0
          <6>1. res[1] * temp[2] \in Nat /\ res[1] * temp[2] < temp[1] * res[2]
            BY <1>1, <5>1 DEF Less
          <6>2. temp[1] # 0
            BY <1>1, <6>1
          <6> QED
            BY <1>1, <6>2
        <5> QED
          BY <2>1, <4>1, <5>1
      <4>2. CASE res[1] = 0 /\ temp[1] > 0
        <5>1. res[1] * temp[2] = 0 /\ temp[1] * res[2] > 0
          <6>1. \A x, y \in Nat \ {0} : x * y \in Nat \ {0}
            OBVIOUS
          <6> QED
            BY <1>1, <4>2, <6>1
        <5>2. Less(res, temp)
          BY <5>1 DEF Less
        <5> QED
          BY <2>1, <4>2, <5>2
      <4> QED
        BY <1>1, <3>1, <4>1, <4>2
    <3> QED
      BY <2>1, <2>3, <3>2 DEF LeftRootInv
  <2> QED
    BY <2>2, <2>3
<1> QED
  BY <1>2, <1>4, <1>5, <1>6, <1>7 DEF ScoreNext

\* A score is 0 exactly if no letter of the word occurs in a training word,
\* for all words and trees.
THEOREM ZeroIsUnknown == ScoreSpec => []ZeroMeansUnknown
<1>1. ScoreInit => LeftRootInv
  <2> SUFFICES ASSUME ScoreInit PROVE LeftRootInv
    OBVIOUS
  <2>1. i = 1 /\ j = 1 /\ p = Root /\ temp[1] = 0 /\ res[1] = 0 /\ s = <<>>
    BY DEF ScoreInit, Zero
  <2>2. 1 .. Len(s) = {}
    BY <2>1, EmptySeq
  <2> QED
    BY <2>1, <2>2 DEF LeftRootInv
<1>2. ScoreInv /\ LeftRootInv => ZeroMeansUnknown
  <2> SUFFICES ASSUME ScoreInv, LeftRootInv, s # <<>>, i > Len(s)
               PROVE  res[1] = 0 <=> \A k \in DOMAIN s : <<s[k]>> \notin Nodes
    BY DEF ZeroMeansUnknown, Scored
  <2>1. /\ DOMAIN s = 1 .. Len(s) /\ Len(s) \in Nat /\ i \in Nat
        /\ temp[1] \in Nat /\ res[1] \in Nat
    BY LenProperties DEF ScoreInv, ScoreTypeOK
  <2>2. CASE p = Root
    <3>1. res[1] = 0 /\ \A k \in 1 .. Len(s) : k < i => <<s[k]>> \notin Nodes
      BY <2>2 DEF LeftRootInv
    <3>2. \A k \in 1 .. Len(s) : k < i
      BY <2>1
    <3> QED
      BY <2>1, <3>1, <3>2
  <2>3. CASE p # Root
    <3>1. \E k \in 1 .. Len(s) : <<s[k]>> \in Nodes
      BY <2>3 DEF LeftRootInv
    <3>2. res[1] # 0
      BY <2>1, <2>3 DEF LeftRootInv
    <3> QED
      BY <2>1, <3>1, <3>2
  <2> QED
    BY <2>2, <2>3
<1> QED
  BY <1>1, <1>2, ScoreInitInv, ScoreNextInv, IdleInitInv, IdleNextInv, LeftRootNextInv,
     PTL DEF ScoreSpec

-----------------------------------------------------------------------------
\* The prefixes of a sequence that one more element extends.
LEMMA PrefixesOfAppend ==
  ASSUME NEW S, NEW q \in Seq(S), NEW x \in S
  PROVE  /\ Append(q, x) \in Seq(S) /\ Len(Append(q, x)) = Len(q) + 1
         /\ \A k \in 0 .. Len(q) : SubSeq(Append(q, x), 1, k) = SubSeq(q, 1, k)
         /\ SubSeq(Append(q, x), 1, Len(q) + 1) = Append(q, x)
<1>1. /\ Append(q, x) \in Seq(S) /\ Len(Append(q, x)) = Len(q) + 1
      /\ \A k \in 1 .. Len(q) : Append(q, x)[k] = q[k]
      /\ Len(q) \in Nat
  BY AppendProperties, LenProperties
<1>2. ASSUME NEW k \in 0 .. Len(q)
      PROVE  SubSeq(Append(q, x), 1, k) = SubSeq(q, 1, k)
  <2>1. \A l \in 1 .. k : q[l] \in S /\ Append(q, x)[l] \in S /\ Append(q, x)[l] = q[l]
    BY <1>1, ElementOfSeq
  <2>2. k \in Int /\ k - 1 + 1 = k
    BY <1>1
  <2>3. /\ SubSeq(q, 1, k) \in Seq(S) /\ Len(SubSeq(q, 1, k)) = k
        /\ \A l \in 1 .. k : SubSeq(q, 1, k)[l] = q[l]
    BY <2>1, <2>2, SubSeqProperties
  <2>4. /\ SubSeq(Append(q, x), 1, k) \in Seq(S) /\ Len(SubSeq(Append(q, x), 1, k)) = k
        /\ \A l \in 1 .. k : SubSeq(Append(q, x), 1, k)[l] = Append(q, x)[l]
    BY <2>1, <2>2, SubSeqProperties
  <2> QED
    BY <2>1, <2>3, <2>4, SeqEqual
<1>3. SubSeq(Append(q, x), 1, Len(q) + 1) = Append(q, x)
  BY <1>1, SubSeqFull
<1> QED
  BY <1>1, <1>2, <1>3

\* One letter more of a word.
LEMMA NextPrefix ==
  ASSUME NEW S, NEW w \in Seq(S), NEW k \in 1 .. Len(w)
  PROVE  Append(SubSeq(w, 1, k - 1), w[k]) = SubSeq(w, 1, k)
<1>1. Len(w) \in Nat /\ k \in Nat \ {0} /\ k <= Len(w)
  BY LenProperties
<1>2. \A l \in 1 .. k : w[l] \in S
  BY <1>1, ElementOfSeq
<1>3. k \in Int /\ k - 1 \in Int /\ k - 1 + 1 = k /\ (k - 1) - 1 + 1 = k - 1
  BY <1>1
<1>4. /\ SubSeq(w, 1, k) \in Seq(S) /\ Len(SubSeq(w, 1, k)) = k
      /\ \A l \in 1 .. k : SubSeq(w, 1, k)[l] = w[l]
  BY <1>1, <1>2, <1>3, SubSeqProperties
<1>5. \A l \in 1 .. k - 1 : w[l] \in S
  BY <1>1, <1>2
<1>6. /\ SubSeq(w, 1, k - 1) \in Seq(S) /\ Len(SubSeq(w, 1, k - 1)) = k - 1
      /\ \A l \in 1 .. k - 1 : SubSeq(w, 1, k - 1)[l] = w[l]
  <2>1. /\ SubSeq(w, 1, k - 1) \in Seq(S)
        /\ Len(SubSeq(w, 1, k - 1)) = IF 1 <= k - 1 THEN (k - 1) - 1 + 1 ELSE 0
        /\ \A l \in 1 .. (k - 1) - 1 + 1 : SubSeq(w, 1, k - 1)[l] = w[1 + l - 1]
    BY <1>3, <1>5, SubSeqProperties
  <2> QED
    BY <1>1, <2>1
<1> DEFINE u == SubSeq(w, 1, k - 1)
           v == SubSeq(w, 1, k)
<1> HIDE DEF u, v
<1>7. /\ Append(u, w[k]) \in Seq(S) /\ Len(Append(u, w[k])) = k
      /\ \A l \in 1 .. k - 1 : Append(u, w[k])[l] = u[l]
      /\ Append(u, w[k])[k] = w[k]
  <2>1. w[k] \in S /\ u \in Seq(S) /\ Len(u) = k - 1
    BY <1>1, <1>2, <1>6 DEF u
  <2>2. /\ Append(u, w[k]) \in Seq(S) /\ Len(Append(u, w[k])) = Len(u) + 1
        /\ \A l \in 1 .. Len(u) : Append(u, w[k])[l] = u[l]
        /\ Append(u, w[k])[Len(u) + 1] = w[k]
    BY <2>1, AppendProperties
  <2>3. Len(u) + 1 = k
    BY <1>1, <2>1
  <2> QED
    BY <2>1, <2>2, <2>3
<1>8. \A l \in 1 .. k : Append(u, w[k])[l] = v[l]
  BY <1>1, <1>4, <1>6, <1>7 DEF u, v
<1>9. Append(u, w[k]) = v
  <2>1. v \in Seq(S) /\ Len(v) = k
    BY <1>4 DEF v
  <2> QED
    BY <1>7, <1>8, <2>1, SeqEqual
<1> QED
  BY <1>9 DEF u, v

LEMMA PrefixOfPrefix ==
  ASSUME NEW S, NEW w \in Seq(S), NEW m \in 0 .. Len(w), NEW k \in 1 .. m
  PROVE  SubSeq(SubSeq(w, 1, m), 1, k) = SubSeq(w, 1, k)
<1>1. Len(w) \in Nat /\ m \in Nat /\ m <= Len(w) /\ k \in Nat \ {0} /\ k <= m
  BY LenProperties
<1>2. 1 + 1 - 1 = 1 /\ 1 + k - 1 = k
  BY <1>1
<1>3. SubSeq(SubSeq(w, 1, m), 1, k) = SubSeq(w, 1 + 1 - 1, 1 + k - 1)
  BY <1>1, SubSeqOfSubSeq
<1> QED
  BY <1>2, <1>3

\* With a node the tree holds the nodes above it.
PrefixClosed == \A n \in Nodes : \A k \in 0 .. Len(n) : SubSeq(n, 1, k) \in Nodes

LEMMA PrefixClosedNext ==
  ASSUME TrainInv, PrefixClosed, TrainNext
  PROVE  PrefixClosed'
<1>1. CASE Nodes' = Nodes
  BY <1>1 DEF PrefixClosed
<1>2. CASE Grow
  <2>1. Len(node) < Len(suffix) /\ Nodes' = Nodes \cup {NextNode}
    BY <1>2 DEF Grow, Nodes
  <2>2. /\ node \in Seq(Letter) /\ node \in Nodes /\ Len(node) \in Nat
        /\ suffix[Len(node) + 1] \in Letter
    <3>1. /\ node \in Seq(Letter) /\ node \in Nodes /\ suffix \in Seq(Letter)
          /\ Len(node) \in Nat /\ Len(suffix) \in Nat
      BY LenProperties DEF TrainInv, TrainTypeOK
    <3> QED
      BY <2>1, <3>1, ElementOfSeq
  <2>3. /\ Len(NextNode) = Len(node) + 1
        /\ \A k \in 0 .. Len(node) : SubSeq(NextNode, 1, k) = SubSeq(node, 1, k)
        /\ SubSeq(NextNode, 1, Len(node) + 1) = NextNode
    BY <2>2, PrefixesOfAppend DEF NextNode
  <2>4. ASSUME NEW k \in 0 .. Len(NextNode)
        PROVE  SubSeq(NextNode, 1, k) \in Nodes'
    <3>1. CASE k = Len(node) + 1
      BY <2>1, <2>3, <3>1
    <3>2. CASE k # Len(node) + 1
      <4>1. k \in 0 .. Len(node)
        BY <2>2, <2>3, <3>2
      <4> QED
        BY <2>1, <2>2, <2>3, <4>1 DEF PrefixClosed
    <3> QED
      BY <3>1, <3>2
  <2> HIDE DEF NextNode
  <2> QED
    BY <2>1, <2>4 DEF PrefixClosed
<1>3. CASE Follow \/ Recurse \/ \E w \in Word : AddString(w)
  BY <1>1, <1>3 DEF Follow, Visits, Recurse, AddString, treeVars, Nodes
<1> QED
  BY <1>2, <1>3 DEF TrainNext

\* The walk from the first letter follows the word as far as the tree knows
\* it; what is matched later lies below.
FirstMatch(w, q) ==
  \E k \in Known(w) : /\ \A m \in Known(w) : m <= k
                      /\ IsPrefix(SubSeq(w, 1, k), q) \/ k = 0

FirstWalkInv ==
  /\ PrefixClosed
  /\ i = 1 => s = <<>> \/ (j <= Len(s) + 1 /\ p = SubSeq(s, 1, j - 1))
  /\ i > 1 => FirstMatch(s, p)

LEMMA FirstWalkNextInv ==
  ScoreInv /\ IdleInv /\ FirstWalkInv /\ [ScoreNext]_allVars => FirstWalkInv'
<1> SUFFICES ASSUME ScoreInv, IdleInv, FirstWalkInv, [ScoreNext]_allVars
             PROVE  FirstWalkInv'
  OBVIOUS
<1>1. /\ i \in Nat \ {0} /\ j \in Nat \ {0} /\ s \in Seq(Letter) /\ Len(s) \in Nat
      /\ p \in Seq(Letter) /\ Len(p) \in Nat /\ p \in Nodes
  BY LenProperties DEF ScoreInv, ScoreTypeOK, TrainInv, TrainTypeOK
<1>2. CASE UNCHANGED allVars
  BY <1>2 DEF allVars, trainVars, treeVars, scoreVars, FirstWalkInv, PrefixClosed,
              FirstMatch, Known, Nodes
<1>3. CASE Train
  <2>1. i' = 1 /\ s' = <<>>
    BY <1>3 DEF Train, scoreVars, IdleInv
  <2>2. PrefixClosed'
    BY <1>3, PrefixClosedNext DEF Train, FirstWalkInv, ScoreInv
  <2> QED
    BY <2>1, <2>2 DEF FirstWalkInv
<1>4. ASSUME Nodes' = Nodes, NEW w \in Seq(Letter), Enter(w)
      PROVE  FirstWalkInv'
  <2>1. SubSeq(w, 1, 0) = <<>> /\ Len(w) \in Nat
    BY SubSeqEmpty, LenProperties
  <2> QED
    BY <1>4, <2>1 DEF Enter, FirstWalkInv, PrefixClosed, Root
<1>5. ASSUME NEW w \in Word, Score(w)
      PROVE  FirstWalkInv'
  BY <1>4, <1>5, WordAssumption DEF Score, trainVars, treeVars, Nodes
<1>6. CASE Return
  BY <1>4, <1>6, EmptySeq DEF Return, trainVars, treeVars, Nodes
<1>7. CASE Match
  <2>1. /\ Matches /\ p' = Append(p, s[j]) /\ i' = i /\ j' = j + 1 /\ s' = s
        /\ Nodes' = Nodes
    BY <1>7 DEF Match, Reached, Child, trainVars, treeVars, Nodes
  <2>2. j \in 1 .. Len(s) /\ s[j] \in Letter
    <3>1. j \in 1 .. Len(s)
      BY <1>1, <2>1 DEF Matches
    <3> QED
      BY <1>1, <3>1, ElementOfSeq
  <2>3. PrefixClosed'
    BY <2>1 DEF FirstWalkInv, PrefixClosed
  <2>4. CASE i = 1
    <3>1. p = SubSeq(s, 1, j - 1)
      BY <2>2, <2>4, EmptySeq DEF FirstWalkInv
    <3>2. p' = SubSeq(s, 1, j)
      BY <1>1, <2>1, <2>2, <3>1, NextPrefix
    <3>3. j' <= Len(s') + 1 /\ j' - 1 = j
      BY <1>1, <2>1, <2>2
    <3> QED
      BY <2>1, <2>3, <2>4, <3>2, <3>3 DEF FirstWalkInv
  <2>5. CASE i > 1
    <3>1. PICK k \in Known(s) : /\ \A m \in Known(s) : m <= k
                                /\ IsPrefix(SubSeq(s, 1, k), p) \/ k = 0
      BY <2>5 DEF FirstWalkInv, FirstMatch
    <3>2. k \in 0 .. Len(s)
      BY DEF Known
    <3>3. ASSUME IsPrefix(SubSeq(s, 1, k), p)
          PROVE  IsPrefix(SubSeq(s, 1, k), p')
      <4> DEFINE u == SubSeq(s, 1, k)
      <4>1. Len(u) \in Nat
        <5>1. \A l \in 1 .. k : s[l] \in Letter
          BY <1>1, <3>2, ElementOfSeq
        <5>2. u \in Seq(Letter)
          BY <3>2, <5>1, SubSeqProperties
        <5> QED
          BY <5>2, LenProperties
      <4> HIDE DEF u
      <4>2. Len(u) <= Len(p) /\ SubSeq(u, 1, Len(u)) = SubSeq(p, 1, Len(u))
        BY <3>3 DEF IsPrefix, u
      <4>3. /\ Len(p') = Len(p) + 1
            /\ \A l \in 0 .. Len(p) : SubSeq(p', 1, l) = SubSeq(p, 1, l)
        BY <1>1, <2>1, <2>2, PrefixesOfAppend
      <4>4. Len(u) \in 0 .. Len(p)
        BY <1>1, <4>1, <4>2
      <4>5. Len(u) <= Len(p') /\ SubSeq(p', 1, Len(u)) = SubSeq(p, 1, Len(u))
        BY <1>1, <4>3, <4>4
      <4>6. IsPrefix(u, p')
        BY <4>2, <4>5 DEF IsPrefix
      <4> QED
        BY <4>6 DEF u
    <3>4. FirstMatch(s, p)'
      <4>1. Known(s)' = Known(s)
        BY <2>1 DEF Known
      <4>2. IsPrefix(SubSeq(s, 1, k), p') \/ k = 0
        BY <3>1, <3>3
      <4> QED
        BY <2>1, <3>1, <4>1, <4>2 DEF FirstMatch
    <3>5. i' > 1 /\ i' # 1
      BY <1>1, <2>1, <2>5
    <3> QED
      BY <2>3, <3>4, <3>5 DEF FirstWalkInv
  <2> QED
    BY <1>1, <2>4, <2>5
<1>8. CASE Restart
  <2>1. /\ i <= Len(s) /\ ~Matches /\ p' = p /\ i' = i + 1 /\ s' = s /\ Nodes' = Nodes
    BY <1>8 DEF Restart, NextStart, trainVars, treeVars, Nodes
  <2>2. FirstMatch(s, p)
    <3>1. CASE i > 1
      BY <3>1 DEF FirstWalkInv
    <3>2. CASE i = 1
      <4>1. p = SubSeq(s, 1, j - 1) /\ j - 1 \in 0 .. Len(s)
        <5>1. s # <<>>
          BY <2>1, <3>2, EmptySeq
        <5> QED
          BY <1>1, <3>2, <5>1 DEF FirstWalkInv
      <4>2. j - 1 \in Known(s)
        BY <1>1, <4>1 DEF Known
      <4>3. ASSUME NEW m \in Known(s), m > j - 1
            PROVE  FALSE
        <5>1. m \in 0 .. Len(s) /\ SubSeq(s, 1, m) \in Nodes
          BY DEF Known
        <5>2. j \in 1 .. Len(s) /\ j \in 1 .. m
          BY <1>1, <4>3, <5>1
        <5>3. \A l \in 1 .. m : s[l] \in Letter
          BY <1>1, <5>1, ElementOfSeq
        <5>4. Len(SubSeq(s, 1, m)) = m
          <6>1. m \in Int /\ 1 <= m /\ m - 1 + 1 = m
            BY <5>1, <5>2
          <6> QED
            BY <5>3, <6>1, SubSeqProperties
        <5>5. SubSeq(SubSeq(s, 1, m), 1, j) = Child
          BY <1>1, <4>1, <5>1, <5>2, PrefixOfPrefix, NextPrefix DEF Child
        <5>6. \A n \in Nodes : \A k \in 0 .. Len(n) : SubSeq(n, 1, k) \in Nodes
          BY DEF FirstWalkInv, PrefixClosed
        <5> DEFINE u == SubSeq(s, 1, m)
        <5>7. u \in Nodes /\ Len(u) = m /\ SubSeq(u, 1, j) = Child
          BY <5>1, <5>4, <5>5
        <5> HIDE DEF u
        <5>8. j \in 0 .. Len(u)
          BY <5>2, <5>7
        <5>9. SubSeq(u, 1, j) \in Nodes
          BY <5>6, <5>7, <5>8, Zenon
        <5>10. Child \in Nodes
          BY <5>7, <5>9
        <5> QED
          BY <1>1, <2>1, <5>2, <5>10 DEF Matches
      <4>4. \A m \in Known(s) : m <= j - 1
        BY <1>1, <4>3 DEF Known
      <4>5. IsPrefix(SubSeq(s, 1, j - 1), p)
        BY <1>1, <4>1 DEF IsPrefix
      <4> QED
        BY <4>2, <4>4, <4>5 DEF FirstMatch
    <3> QED
      BY <1>1, <3>1, <3>2
  <2>3. Known(s)' = Known(s) /\ FirstMatch(s, p)'
    BY <2>1, <2>2 DEF Known, FirstMatch
  <2>4. PrefixClosed' /\ i' # 1
    BY <1>1, <2>1 DEF FirstWalkInv, PrefixClosed
  <2> QED
    BY <2>3, <2>4 DEF FirstWalkInv
<1> QED
  BY <1>2, <1>3, <1>5, <1>6, <1>7, <1>8 DEF ScoreNext

\* The first match is the longest known prefix of the word, and the rest of
\* the walk goes on below it, for all words and trees.
THEOREM PrefixIsMatched == ScoreSpec => []LongestPrefixMatched
<1>1. ScoreInit => FirstWalkInv
  <2> SUFFICES ASSUME ScoreInit PROVE FirstWalkInv
    OBVIOUS
  <2>1. Nodes = {<<>>} /\ i = 1 /\ s = <<>>
    BY DEF ScoreInit, TrainInit, Nodes, Root
  <2>2. Len(<<>>) = 0 /\ SubSeq(<<>>, 1, 0) = <<>>
    BY EmptySeq, SubSeqEmpty
  <2>3. \A k \in 0 .. 0 : k = 0
    OBVIOUS
  <2> QED
    BY <2>1, <2>2, <2>3 DEF FirstWalkInv, PrefixClosed
<1>2. ScoreInv /\ FirstWalkInv => LongestPrefixMatched
  <2> SUFFICES ASSUME ScoreInv, FirstWalkInv, s # <<>>, i > Len(s)
               PROVE  FirstMatch(s, p)
    BY DEF LongestPrefixMatched, Scored, FirstMatch
  <2>1. Len(s) \in Nat \ {0} /\ i \in Nat
    BY EmptySeq, LenProperties DEF ScoreInv, ScoreTypeOK
  <2> QED
    BY <2>1 DEF FirstWalkInv
<1> QED
  BY <1>1, <1>2, ScoreInitInv, ScoreNextInv, IdleInitInv, IdleNextInv, FirstWalkNextInv,
     PTL DEF ScoreSpec
-----------------------------------------------------------------------------
\* A child is counted whenever the node above it is left.
LEMMA PhiSumsNext ==
  ASSUME TrainInv, PhiAddsToOne, [TrainNext]_trainVars
  PROVE  PhiAddsToOne'
<1>1. /\ num \in [Nodes -> Nat] /\ sum \in [Nodes -> Nat] /\ node \in Nodes
      /\ Nodes \subseteq Seq(Letter) /\ IsFiniteSet(Nodes) /\ Root \in Nodes
  BY DEF TrainInv, TrainTypeOK
<1>2. \A n \in Nodes : Children(n) \subseteq Nodes /\ IsFiniteSet(Children(n))
  <2>1. \A n \in Nodes : Children(n) \subseteq Nodes
    BY DEF Children
  <2> QED
    BY <1>1, <2>1, FS_Subset
<1>3. ASSUME UNCHANGED <<num, sum>>
      PROVE  PhiAddsToOne'
  BY <1>3 DEF PhiAddsToOne, Children, Nodes
<1>4. CASE Follow
  <2> DEFINE c == NextNode
  <2>1. /\ c \in Seq(Letter) /\ c # Root /\ Front(c) = node /\ c # node /\ c \in Nodes
        /\ num' = [num EXCEPT ![c] = @ + 1]
        /\ sum' = [sum EXCEPT ![node] = @ + 1]
    BY <1>4, NextNodeProperties DEF Follow, Visits, Departures
  <2> HIDE DEF c
  <2>2. Nodes' = Nodes
    BY <1>1, <2>1 DEF Nodes
  <2>3. \A n \in Nodes : Children(n)' = Children(n)
    BY <2>2 DEF Children
  <2>4. \A n \in Nodes : num[n] \in Nat /\ num'[n] \in Nat /\ sum[n] \in Nat
    BY <1>1, <2>1
  <2>5. \A n \in Nodes : n # c => num'[n] = num[n]
    BY <1>1, <2>1
  <2>6. ASSUME NEW n \in Nodes
        PROVE  sum'[n] = SumFunctionOnSet(num', Children(n))
    <3>1. sum[n] = SumFunctionOnSet(num, Children(n))
      BY DEF PhiAddsToOne
    <3>2. CASE n = node
      <4>1. c \in Children(n)
        BY <2>1, <3>2 DEF Children
      <4>2. \A e \in Children(n) : num[e] \in Nat /\ num'[e] \in Nat
        BY <1>2, <2>4
      <4>3. \A e \in Children(n) : e # c => num'[e] = num[e]
        BY <1>2, <2>5
      <4>4. /\ SumFunctionOnSet(num', Children(n)) \in Nat
            /\ SumFunctionOnSet(num', Children(n)) + num[c] = SumFunctionOnSet(num, Children(n)) + num'[c]
        BY <1>2, <4>1, <4>2, <4>3, SumWithOneChanged
      <4>5. num'[c] = num[c] + 1 /\ num[c] \in Nat /\ sum'[n] = sum[n] + 1 /\ sum[n] \in Nat
        BY <1>1, <2>1, <3>2
      <4> QED
        BY <3>1, <4>4, <4>5
    <3>3. CASE n # node
      <4>1. c \notin Children(n) /\ sum'[n] = sum[n]
        BY <1>1, <2>1, <3>3 DEF Children
      <4>2. \A e \in Children(n) : num[e] = num'[e]
        BY <1>2, <2>5, <4>1
      <4> QED
        BY <1>2, <3>1, <4>1, <4>2, SumOfEqual
    <3> QED
      BY <3>2, <3>3
  <2> QED
    BY <2>2, <2>3, <2>6 DEF PhiAddsToOne
<1>5. CASE Grow
  <2>0. PICK c : c = NextNode
    OBVIOUS
  <2>1. /\ c \in Seq(Letter) /\ c # Root /\ Front(c) = node /\ c # node /\ c \notin Nodes
        /\ num' = [n \in Nodes \cup {c} |->
                     IF n = c THEN 1 ELSE IF n = Root THEN num[n] + 1 ELSE num[n]]
        /\ sum' = [n \in Nodes \cup {c} |->
                     IF n = c THEN 0 ELSE IF n = node THEN sum[n] + 1 ELSE sum[n]]
    BY <1>5, <2>0, NextNodeProperties DEF Grow, NewSums
  <2>2. Nodes' = Nodes \cup {c}
    BY <2>1 DEF Nodes
  <2>3. \A n \in Nodes : Children(n)' = IF n = node THEN Children(n) \cup {c} ELSE Children(n)
    BY <2>1, <2>2 DEF Children
  <2>4. \A n \in Nodes \cup {c} : num'[n] \in Nat
    BY <1>1, <2>1
  <2>5. \A n \in Nodes : n # Root => num'[n] = num[n]
    BY <2>1
  <2>6. \A n \in Nodes : SumFunctionOnSet(num, Children(n)) = SumFunctionOnSet(num', Children(n))
    <3> TAKE n \in Nodes
    <3>1. \A e \in Children(n) : num[e] = num'[e]
      BY <2>5 DEF Children
    <3> QED
      BY <1>2, <3>1, SumOfEqual
  <2>7. ASSUME NEW n \in Nodes
        PROVE  sum'[n] = SumFunctionOnSet(num', Children(n)')
    <3>1. sum[n] = SumFunctionOnSet(num', Children(n)) /\ sum[n] \in Nat
      BY <1>1, <2>6 DEF PhiAddsToOne
    <3>2. CASE n = node
      <4>1. c \notin Children(n) /\ IsFiniteSet(Children(n)) /\ \A e \in Children(n) \cup {c} : num'[e] \in Nat
        BY <1>2, <2>1, <2>4
      <4>2. SumFunctionOnSet(num', Children(n) \cup {c}) = num'[c] + SumFunctionOnSet(num', Children(n))
        BY <4>1, SumAddsElement
      <4>3. num'[c] = 1 /\ sum'[n] = sum[n] + 1
        BY <2>1, <3>2
      <4>4. Children(n)' = Children(n) \cup {c}
        BY <2>3, <3>2
      <4>5. SumFunctionOnSet(num', Children(n) \cup {c}) = 1 + sum[n]
        BY <3>1, <4>2, <4>3
      <4> QED
        BY <3>1, <4>3, <4>4, <4>5
    <3>3. CASE n # node
      BY <2>1, <2>3, <3>1, <3>3
    <3> QED
      BY <3>2, <3>3
  <2>8. sum'[c] = 0 /\ Children(c)' = {}
    <3>1. \A n \in Nodes : n # Root => Front(n) \in Nodes
      BY DEF TrainInv, PhiIsProbability
    <3> QED
      BY <2>1, <2>2, <3>1 DEF Children
  <2>9. sum'[c] = SumFunctionOnSet(num', Children(c)')
    BY <2>8, SumOfNone
  <2> QED
    BY <2>2, <2>7, <2>9 DEF PhiAddsToOne
<1> QED
  BY <1>3, <1>4, <1>5 DEF TrainNext, AddString, Recurse, treeVars, trainVars

\* The quotients of the children of a node add up to 1 at any time, for every
\* alphabet, set of words and order of training, and while words are scored.
THEOREM SharesAddToOne == ScoreSpec => []PhiAddsToOne
<1>1. ScoreInit => PhiAddsToOne
  <2> SUFFICES ASSUME ScoreInit PROVE PhiAddsToOne
    OBVIOUS
  <2>1. Nodes = {Root} /\ sum[Root] = 0 /\ Children(Root) = {}
    BY DEF ScoreInit, TrainInit, Nodes, Children
  <2> QED
    BY <2>1, SumOfNone DEF PhiAddsToOne
<1>2. ScoreInv /\ PhiAddsToOne /\ [ScoreNext]_allVars => PhiAddsToOne'
  <2>1. [ScoreNext]_allVars => [TrainNext]_trainVars
    BY DEF ScoreNext, allVars, Train, Score, Match, Restart, Return
  <2> QED
    BY <2>1, PhiSumsNext DEF ScoreInv
<1> QED
  BY <1>1, <1>2, ScoreInitInv, ScoreNextInv, PTL DEF ScoreSpec
-----------------------------------------------------------------------------
AtLevel(level) == {n \in Nodes : Len(n) = level}

\* A word that is too long is the last one, and in its first descent, until freq
\* is overrun.
LevelsInv ==
  /\ LevelsWithinFreq
  /\ suffix # <<>> => \E w \in Word : trained[w] > 0 /\ Len(suffix) <= Len(w)
  /\ ~overrun => \A w \in Word : trained[w] > 0 /\ Len(w) >= MAX_DEEP => suffix = w

\* A step of the descent counts the node it reaches in freq as in num.
LEMMA LevelCounted ==
  ASSUME TrainInv, LevelsWithinFreq, ~overrun, NEW c, c = NextNode, Len(node) < Len(suffix),
         Follow \/ Grow, Len(c) < MAX_DEEP, NEW level \in 1 .. MAX_DEEP - 1
  PROVE  freq'[level] = SumFunctionOnSet(num', AtLevel(level)')
<1>1. /\ num \in [Nodes -> Nat] /\ freq \in [0 .. MAX_DEEP - 1 -> Nat] /\ IsFiniteSet(Nodes)
      /\ Nodes \subseteq Seq(Letter) /\ Root \in Nodes /\ Len(Root) = 0
      /\ MAX_DEEP \in Nat \ {0} /\ Len(node) \in Nat /\ node \in Nodes
  BY WordAssumption, EmptySeq, LenProperties DEF TrainInv, TrainTypeOK, Root
<1>2. c # Root /\ Len(c) = Len(node) + 1
  BY NextNodeProperties
<1>3. freq' = [freq EXCEPT ![Len(c)] = @ + 1]
  BY DEF Follow, Grow, Entries
<1>4. freq'[level] = IF level = Len(c) THEN freq[level] + 1 ELSE freq[level]
  <2>1. level \in 0 .. MAX_DEEP - 1
    BY <1>1
  <2> QED
    BY <1>1, <1>3, <2>1
<1>5. freq[level] = SumFunctionOnSet(num, AtLevel(level)) /\ freq[level] \in Nat
  BY <1>1 DEF LevelsWithinFreq, AtLevel
<1>6. AtLevel(level) \subseteq Nodes /\ IsFiniteSet(AtLevel(level))
  <2>1. AtLevel(level) \subseteq Nodes
    BY DEF AtLevel
  <2> QED
    BY <1>1, <2>1, FS_Subset
<1>7. CASE Follow
  <2>1. c \in Nodes /\ num' = [num EXCEPT ![c] = @ + 1]
    BY <1>7 DEF Follow, Visits
  <2>2. Nodes' = Nodes /\ \A n \in Nodes : num'[n] = IF n = c THEN num[n] + 1 ELSE num[n]
    BY <1>1, <2>1 DEF Nodes
  <2>3. AtLevel(level)' = AtLevel(level)
    BY <2>2 DEF AtLevel
  <2>4. \A e \in AtLevel(level) : num[e] \in Nat /\ num'[e] \in Nat
    <3>1. \A n \in Nodes : num[n] \in Nat /\ num'[n] \in Nat
      <4>1. \A n \in Nodes : num[n] \in Nat
        BY <1>1
      <4>2. \A x \in Nat : x + 1 \in Nat
        OBVIOUS
      <4> QED
        BY <2>2, <4>1, <4>2
    <3> QED
      BY <1>6, <3>1
  <2>5. CASE level = Len(c)
    <3>1. c \in AtLevel(level)
      BY <2>1, <2>5 DEF AtLevel
    <3>2. \A e \in AtLevel(level) : e # c => num[e] = num'[e]
      BY <1>6, <2>2
    <3>3. /\ SumFunctionOnSet(num', AtLevel(level)) \in Nat
          /\ SumFunctionOnSet(num, AtLevel(level)) + num'[c] = SumFunctionOnSet(num', AtLevel(level)) + num[c]
      BY <1>6, <2>4, <3>1, <3>2, SumWithOneChanged
    <3>4. num'[c] = num[c] + 1 /\ num[c] \in Nat
      BY <1>1, <2>1, <2>2
    <3> QED
      BY <1>4, <1>5, <2>3, <2>5, <3>3, <3>4
  <2>6. CASE level # Len(c)
    <3>1. \A e \in AtLevel(level) : num[e] = num'[e]
      BY <2>2, <2>6 DEF AtLevel
    <3> QED
      BY <1>4, <1>5, <1>6, <2>3, <2>6, <3>1, SumOfEqual
  <2> QED
    BY <2>5, <2>6
<1>8. CASE Grow
  <2>1. /\ c \notin Nodes
        /\ num' = [n \in Nodes \cup {c} |->
                     IF n = c THEN 1 ELSE IF n = Root THEN num[n] + 1 ELSE num[n]]
    BY <1>8 DEF Grow
  <2>2. Nodes' = Nodes \cup {c}
    BY <2>1 DEF Nodes
  <2>3. Root \notin AtLevel(level) /\ c \notin AtLevel(level)
    <3>1. level # 0
      OBVIOUS
    <3> QED
      BY <1>1, <1>6, <2>1, <3>1 DEF AtLevel
  <2>4. \A e \in AtLevel(level) : num[e] = num'[e] /\ num'[e] \in Nat
    BY <1>1, <1>6, <2>1, <2>3
  <2>5. SumFunctionOnSet(num, AtLevel(level)) = SumFunctionOnSet(num', AtLevel(level))
    BY <1>6, <2>4, SumOfEqual
  <2>6. CASE level = Len(c)
    <3>1. AtLevel(level)' = AtLevel(level) \cup {c}
      BY <2>2, <2>6 DEF AtLevel
    <3>2. num'[c] = 1
      BY <2>1
    <3>3. \A e \in AtLevel(level) \cup {c} : num'[e] \in Nat
      BY <2>4, <3>2
    <3>4. SumFunctionOnSet(num', AtLevel(level) \cup {c}) = num'[c] + SumFunctionOnSet(num', AtLevel(level))
      BY <1>6, <2>3, <3>3, SumAddsElement
    <3> QED
      BY <1>4, <1>5, <2>5, <2>6, <3>1, <3>2, <3>4
  <2>7. CASE level # Len(c)
    <3>1. AtLevel(level)' = AtLevel(level)
      BY <2>2, <2>7 DEF AtLevel
    <3> QED
      BY <1>4, <1>5, <2>5, <2>7, <3>1
  <2> QED
    BY <2>6, <2>7
<1> QED
  BY <1>7, <1>8

LEMMA LevelsNext ==
  ASSUME TrainInv, LevelsInv, [TrainNext]_trainVars
  PROVE  LevelsInv'
<1>1. /\ Nodes \subseteq Seq(Letter) /\ node \in Nodes /\ suffix \in Seq(Letter)
      /\ trained \in [Word -> Nat] /\ Len(node) \in Nat /\ Len(suffix) \in Nat
      /\ MAX_DEEP \in Nat \ {0} /\ Len(node) <= Len(suffix)
      /\ \A w \in Word : w \in Seq(Letter) /\ w # <<>> /\ Len(w) \in Nat
  BY WordAssumption, LenProperties DEF TrainInv, TrainTypeOK
<1>2. ASSUME UNCHANGED <<num, freq, overrun>>, overrun => LongWordTrained',
             LongWordTrained' => overrun \/ suffix' # <<>>
      PROVE  LevelsWithinFreq'
  BY <1>2 DEF LevelsInv, LevelsWithinFreq, Nodes
<1>3. CASE \E w \in Word : AddString(w)
  <2>1. PICK w \in Word : AddString(w)
    BY <1>3
  <2>2. /\ suffix = <<>> /\ suffix' = w /\ UNCHANGED <<num, freq, overrun>>
        /\ \A v \in Word : trained'[v] = IF v = w THEN trained[v] + 1 ELSE trained[v]
    BY <1>1, <2>1 DEF AddString, treeVars
  <2>3. trained'[w] > 0 /\ \A v \in Word : trained[v] > 0 => trained'[v] > 0
    BY <1>1, <2>2
  <2>4. overrun => LongWordTrained'
    BY <2>3 DEF LevelsInv, LevelsWithinFreq, LongWordTrained
  <2>5. LevelsWithinFreq'
    BY <1>1, <1>2, <2>2, <2>4
  <2>6. \A v \in Word : ~overrun /\ trained'[v] > 0 /\ Len(v) >= MAX_DEEP => v = w
    <3> SUFFICES ASSUME NEW v \in Word, ~overrun, trained'[v] > 0, Len(v) >= MAX_DEEP, v # w
                 PROVE  FALSE
      OBVIOUS
    <3>1. suffix = v
      BY <2>2 DEF LevelsInv
    <3> QED
      BY <1>1, <2>2, <3>1
  <2>7. Len(suffix') <= Len(w)
    BY <1>1, <2>2
  <2> QED
    BY <2>2, <2>3, <2>5, <2>6, <2>7 DEF LevelsInv
<1>4. CASE Follow \/ Grow
  <2>0. PICK c : c = NextNode
    OBVIOUS
  <2>1. /\ ~overrun /\ overrun' = (Len(c) >= MAX_DEEP) /\ Len(node) < Len(suffix)
        /\ suffix' = suffix /\ trained' = trained
    BY <1>4, <2>0 DEF Follow, Grow
  <2>2. /\ c \in Seq(Letter) /\ Len(c) = Len(node) + 1 /\ Len(c) \in Nat
    BY <1>1, <2>0, <2>1, NextNodeProperties
  <2>3. Nodes' \subseteq Nodes \cup {c}
    BY <1>4, <2>0 DEF Follow, Visits, Grow, Nodes
  <2>4. suffix # <<>>
    BY <1>1, <2>1, EmptySeq
  <2>5. PICK w \in Word : trained[w] > 0 /\ Len(suffix) <= Len(w)
    BY <2>4 DEF LevelsInv
  <2>6. LongWordTrained' = LongWordTrained
    BY <2>1 DEF LongWordTrained
  <2>7. overrun' => LongWordTrained
    <3> SUFFICES ASSUME Len(c) >= MAX_DEEP PROVE LongWordTrained
      BY <2>1
    <3>1. Len(w) >= MAX_DEEP
      BY <1>1, <2>1, <2>2, <2>5
    <3> QED
      BY <2>5, <3>1 DEF LongWordTrained
  <2>8. ASSUME ~overrun'
        PROVE  /\ \A n \in Nodes' : Len(n) < MAX_DEEP
               /\ \A level \in 1 .. MAX_DEEP - 1 : freq'[level] = SumFunctionOnSet(num', AtLevel(level)')
    <3>1. Len(c) < MAX_DEEP
      <4>1. ~(Len(c) >= MAX_DEEP)
        BY <2>1, <2>8
      <4> QED
        BY <1>1, <2>2, <4>1
    <3>2. \A n \in Nodes : Len(n) < MAX_DEEP
      BY <2>1 DEF LevelsInv, LevelsWithinFreq
    <3>3. \A level \in 1 .. MAX_DEEP - 1 : freq'[level] = SumFunctionOnSet(num', AtLevel(level)')
      BY <1>4, <2>0, <2>1, <3>1, LevelCounted DEF LevelsInv
    <3> QED
      BY <2>3, <3>1, <3>2, <3>3
  <2>9. LevelsWithinFreq'
    BY <2>1, <2>4, <2>6, <2>7, <2>8 DEF LevelsWithinFreq, AtLevel
  <2> QED
    BY <2>1, <2>9 DEF LevelsInv
<1>5. CASE Recurse
  <2>1. /\ ~overrun /\ suffix # <<>> /\ Len(node) = Len(suffix) /\ suffix' = Tail(suffix)
        /\ UNCHANGED <<num, freq, overrun, trained>>
    BY <1>5 DEF Recurse, Rest, treeVars
  <2>2. Len(suffix) < MAX_DEEP
    BY <1>1, <2>1 DEF LevelsInv, LevelsWithinFreq
  <2>3. ~LongWordTrained
    <3> SUFFICES ASSUME NEW w \in Word, trained[w] > 0, Len(w) >= MAX_DEEP PROVE FALSE
      BY DEF LongWordTrained
    <3>1. suffix = w
      BY <2>1 DEF LevelsInv
    <3> QED
      BY <1>1, <2>2, <3>1
  <2>4. LongWordTrained' = LongWordTrained
    BY <2>1 DEF LongWordTrained
  <2>5. LevelsWithinFreq'
    BY <1>2, <2>1, <2>3, <2>4
  <2>6. Len(suffix') <= Len(suffix) /\ Len(suffix') \in Nat
    BY <1>1, <2>1, HeadTailProperties, LenProperties
  <2>7. \E w \in Word : trained'[w] > 0 /\ Len(suffix') <= Len(w)
    <3>1. PICK w \in Word : trained[w] > 0 /\ Len(suffix) <= Len(w)
      BY <2>1 DEF LevelsInv
    <3>2. Len(suffix') <= Len(w)
      BY <1>1, <2>6, <3>1
    <3> QED
      BY <2>1, <3>1, <3>2
  <2> QED
    BY <2>1, <2>3, <2>5, <2>7 DEF LevelsInv, LongWordTrained
<1>6. CASE UNCHANGED trainVars
  BY <1>6 DEF trainVars, treeVars, LevelsInv, LevelsWithinFreq, LongWordTrained, Nodes
<1> QED
  BY <1>3, <1>4, <1>5, <1>6 DEF TrainNext

\* freq is the sum of num over each level, and its bounds are left exactly when
\* a word of MAX_DEEP letters is trained on, for words of any length.
THEOREM FreqOverrun == ScoreSpec => []LevelsWithinFreq
<1>1. ScoreInit => LevelsInv
  <2> SUFFICES ASSUME ScoreInit PROVE LevelsInv
    OBVIOUS
  <2>1. /\ Nodes = {Root} /\ suffix = <<>> /\ ~overrun /\ Len(Root) = 0
        /\ freq = [level \in 0 .. MAX_DEEP - 1 |-> 0] /\ MAX_DEEP \in Nat \ {0}
        /\ \A w \in Word : ~(trained[w] > 0)
    BY EmptySeq, WordAssumption DEF ScoreInit, TrainInit, Nodes, Root
  <2>2. ASSUME NEW level \in 1 .. MAX_DEEP - 1
        PROVE  freq[level] = SumFunctionOnSet(num, {n \in Nodes : Len(n) = level})
    <3>1. {n \in Nodes : Len(n) = level} = {} /\ freq[level] = 0
      BY <2>1
    <3> QED
      BY <3>1, SumOfNone
  <2> QED
    BY <2>1, <2>2 DEF LevelsInv, LevelsWithinFreq, LongWordTrained
<1>2. ScoreInv /\ LevelsInv /\ [ScoreNext]_allVars => LevelsInv'
  <2>1. [ScoreNext]_allVars => [TrainNext]_trainVars
    BY DEF ScoreNext, allVars, Train, Score, Match, Restart, Return
  <2> QED
    BY <2>1, LevelsNext DEF ScoreInv
<1>3. LevelsInv => LevelsWithinFreq
  BY DEF LevelsInv
<1> QED
  BY <1>1, <1>2, <1>3, ScoreInitInv, ScoreNextInv, PTL DEF ScoreSpec
-----------------------------------------------------------------------------
\* The paths there may be, and how often each has been counted.
Path == Seq(Letter) \ {Root}
Counted(path) == IF path \in Nodes THEN num[path] ELSE 0

\* The occurrences in what is left of the word that are still to be counted: in
\* a later suffix, or further along this one.
Pending(path) == {k \in PlacesIn(path, suffix) : k > 1 \/ Len(path) > Len(node)}

\* The descent follows suffix, and no occurrence is forgotten or counted twice.
IndexInv ==
  /\ \A l \in 1 .. Len(node) : node[l] = suffix[l]
  /\ \A path \in Path : Counted(path) + Cardinality(Pending(path)) = Occurrences(path)

\* Places, letter by letter.
LEMMA PlaceOf ==
  ASSUME NEW path \in Path, NEW w \in Seq(Letter)
  PROVE  /\ Len(path) \in Nat \ {0} /\ Len(w) \in Nat
         /\ IsFiniteSet(PlacesIn(path, w)) /\ Cardinality(PlacesIn(path, w)) \in Nat
         /\ \A k : k \in PlacesIn(path, w) <=>
              /\ k \in Nat \ {0} /\ k + Len(path) - 1 <= Len(w)
              /\ \A l \in 1 .. Len(path) : w[k + l - 1] = path[l]
<1>1. Len(path) \in Nat \ {0} /\ Len(w) \in Nat /\ path \in Seq(Letter)
  BY EmptySeq, LenProperties DEF Path, Root
<1>2. IsFiniteSet(PlacesIn(path, w))
  <2>1. Len(w) - Len(path) + 1 \in Int /\ 1 \in Int
    BY <1>1
  <2>2. IsFiniteSet(1 .. Len(w) - Len(path) + 1)
    BY <2>1, FS_Interval
  <2>3. PlacesIn(path, w) \subseteq 1 .. Len(w) - Len(path) + 1
    BY DEF PlacesIn
  <2> QED
    BY <2>2, <2>3, FS_Subset
<1>3. ASSUME NEW k \in 1 .. Len(w) - Len(path) + 1
      PROVE  SubSeq(w, k, k + Len(path) - 1) = path <=> \A l \in 1 .. Len(path) : w[k + l - 1] = path[l]
  <2> DEFINE n == Len(path)
             u == SubSeq(w, k, k + n - 1)
  <2>1. k \in Int /\ k + n - 1 \in Int /\ k <= k + n - 1 /\ (k + n - 1) - k + 1 = n
    BY <1>1
  <2>2. \A l \in k .. k + n - 1 : w[l] \in Letter
    BY <1>1, ElementOfSeq
  <2>3. /\ u \in Seq(Letter)
        /\ Len(u) = (k + n - 1) - k + 1
        /\ \A l \in 1 .. (k + n - 1) - k + 1 : u[l] = w[k + l - 1]
    BY <2>1, <2>2, SubSeqProperties
  <2>4. Len(u) = n /\ \A l \in 1 .. n : u[l] = w[k + l - 1]
    BY <2>1, <2>3
  <2> HIDE DEF u
  <2>5. (\A l \in 1 .. n : u[l] = path[l]) => u = path
    BY <1>1, <2>3, <2>4, SeqEqual
  <2>6. u = path <=> \A l \in 1 .. n : w[k + l - 1] = path[l]
    BY <2>4, <2>5
  <2> QED
    BY <2>6 DEF u
<1>4. \A k : k \in 1 .. Len(w) - Len(path) + 1 <=> k \in Nat \ {0} /\ k + Len(path) - 1 <= Len(w)
  BY <1>1
<1> QED
  BY <1>1, <1>2, <1>3, <1>4, FS_CardinalityType DEF PlacesIn

LEMMA PendingFinite ==
  ASSUME TrainInv, NEW path \in Path
  PROVE  IsFiniteSet(Pending(path)) /\ Cardinality(Pending(path)) \in Nat
<1>1. IsFiniteSet(PlacesIn(path, suffix)) /\ Pending(path) \subseteq PlacesIn(path, suffix)
  BY PlaceOf DEF TrainInv, TrainTypeOK, Pending
<1> QED
  BY <1>1, FS_Subset, FS_CardinalityType

\* One step along suffix: the one occurrence that is not pending any more is
\* that of the node reached.
LEMMA StepOfDescent ==
  ASSUME TrainInv, IndexInv, Len(node) < Len(suffix), NEW c, c = NextNode,
         node' = c, suffix' = suffix
  PROVE  /\ c \in Path
         /\ \A l \in 1 .. Len(node') : node'[l] = suffix'[l]
         /\ \A path \in Path : path # c => Pending(path)' = Pending(path)
         /\ Cardinality(Pending(c)) = Cardinality(Pending(c)') + 1
         /\ Cardinality(Pending(c)') \in Nat
<1>1. /\ c \in Path /\ Len(c) = Len(node) + 1 /\ Len(node) \in Nat /\ Len(suffix) \in Nat
      /\ node \in Seq(Letter) /\ suffix \in Seq(Letter)
  BY NextNodeProperties, LenProperties DEF TrainInv, TrainTypeOK, Path
<1>2. \A l \in 1 .. Len(c) : c[l] = suffix[l]
  <2>1. c = Append(node, suffix[Len(node) + 1]) /\ suffix[Len(node) + 1] \in Letter
    BY <1>1, ElementOfSeq DEF NextNode
  <2>2. /\ \A l \in 1 .. Len(node) : c[l] = node[l]
        /\ c[Len(node) + 1] = suffix[Len(node) + 1]
    BY <1>1, <2>1, AppendProperties
  <2>3. \A l \in 1 .. Len(node) : node[l] = suffix[l]
    BY DEF IndexInv
  <2> QED
    BY <1>1, <2>2, <2>3
<1>3. \A path : Pending(path)' = {k \in PlacesIn(path, suffix) : k > 1 \/ Len(path) > Len(c)}
  BY DEF Pending, PlacesIn
<1>4. ASSUME NEW path \in Path, path # c
      PROVE  Pending(path)' = Pending(path)
  <2>1. ASSUME 1 \in PlacesIn(path, suffix), Len(path) = Len(c)
        PROVE  FALSE
    <3>1. \A l \in 1 .. Len(path) : suffix[1 + l - 1] = path[l]
      BY <1>1, <2>1, PlaceOf
    <3>2. \A l \in 1 .. Len(path) : 1 + l - 1 = l
      BY <1>1, <2>1
    <3>3. \A l \in 1 .. Len(path) : path[l] = c[l]
      BY <1>2, <2>1, <3>1, <3>2
    <3>4. path = c
      BY <1>1, <2>1, <3>3, SeqEqual DEF Path
    <3> QED
      BY <1>4, <3>4
  <2>2. \A k \in PlacesIn(path, suffix) : k \in Nat \ {0}
    BY <1>1, PlaceOf
  <2>3. Len(path) \in Nat
    BY <1>1, PlaceOf
  <2> QED
    BY <1>1, <1>3, <2>1, <2>2, <2>3 DEF Pending
<1>5. Pending(c) = Pending(c)' \cup {1} /\ 1 \notin Pending(c)'
  <2>1. 1 \in PlacesIn(c, suffix)
    <3>1. 1 \in Nat \ {0} /\ 1 + Len(c) - 1 <= Len(suffix)
      BY <1>1
    <3>2. \A l \in 1 .. Len(c) : suffix[1 + l - 1] = c[l]
      <4> TAKE l \in 1 .. Len(c)
      <4>1. 1 + l - 1 = l
        OBVIOUS
      <4> QED
        BY <1>2, <4>1
    <3>3. \A k : k \in PlacesIn(c, suffix) <=>
            /\ k \in Nat \ {0} /\ k + Len(c) - 1 <= Len(suffix)
            /\ \A l \in 1 .. Len(c) : suffix[k + l - 1] = c[l]
      BY <1>1, PlaceOf
    <3> QED
      BY <3>1, <3>2, <3>3
  <2>2. \A k \in PlacesIn(c, suffix) : k \in Nat \ {0}
    BY <1>1, PlaceOf
  <2> QED
    BY <1>1, <1>3, <2>1, <2>2 DEF Pending
<1>6. IsFiniteSet(Pending(c)') /\ Cardinality(Pending(c)') \in Nat
  <2>1. Pending(c)' \subseteq PlacesIn(c, suffix) /\ IsFiniteSet(PlacesIn(c, suffix))
    BY <1>1, <1>3, PlaceOf
  <2> QED
    BY <2>1, FS_Subset, FS_CardinalityType
<1>7. Cardinality(Pending(c)' \cup {1}) = Cardinality(Pending(c)') + 1
  BY <1>5, <1>6, FS_AddElement
<1> QED
  BY <1>1, <1>2, <1>4, <1>5, <1>6, <1>7

LEMMA Products ==
  ASSUME NEW t \in Nat, NEW c \in Nat
  PROVE  t * c \in Nat /\ (t + 1) * c = t * c + c /\ (t > 0 /\ c > 0 => t * c > 0)
OBVIOUS

\* What one more training on w adds to the occurrences of a path.
LEMMA OneMoreWord ==
  ASSUME TrainTypeOK, NEW path \in Path, NEW w \in Word,
         trained' = [trained EXCEPT ![w] = @ + 1]
  PROVE  /\ Occurrences(path) \in Nat
         /\ Occurrences(path)' = Occurrences(path) + Cardinality(PlacesIn(path, w))
<1> DEFINE f == [v \in Word |-> trained[v] * Cardinality(PlacesIn(path, v))]
           h == [v \in Word |-> trained'[v] * Cardinality(PlacesIn(path, v))]
<1>1. /\ Occurrences(path) = SumFunctionOnSet(f, Word)
      /\ Occurrences(path)' = SumFunctionOnSet(h, Word)
  BY DEF Occurrences, SumFunction, PlacesIn
<1>2. \A v \in Word : trained[v] \in Nat /\ Cardinality(PlacesIn(path, v)) \in Nat
  BY PlaceOf, WordAssumption DEF TrainTypeOK
<1>3. /\ \A v \in Word : trained'[v] = IF v = w THEN trained[v] + 1 ELSE trained[v]
      /\ \A v \in Word : trained'[v] \in Nat
  BY <1>2 DEF TrainTypeOK
<1>4. \A v \in Word : f[v] \in Nat /\ h[v] \in Nat
  BY <1>2, <1>3, Products
<1>5. \A v \in Word : v # w => f[v] = h[v]
  BY <1>3
<1>6. h[w] = f[w] + Cardinality(PlacesIn(path, w))
  BY <1>2, <1>3, Products
<1> HIDE DEF f, h
<1>7. /\ SumFunctionOnSet(f, Word) \in Nat /\ SumFunctionOnSet(h, Word) \in Nat
      /\ SumFunctionOnSet(f, Word) + h[w] = SumFunctionOnSet(h, Word) + f[w]
  BY <1>4, <1>5, SumWithOneChanged, WordAssumption
<1>8. Cardinality(PlacesIn(path, w)) \in Nat /\ f[w] \in Nat
  BY <1>2, <1>4
<1> QED
  BY <1>1, <1>6, <1>7, <1>8

\* The occurrences after the first place of suffix are those in its tail.
LEMMA PlacesInTail ==
  ASSUME NEW path \in Path, NEW w \in Seq(Letter), w # <<>>
  PROVE  Cardinality({k \in PlacesIn(path, w) : k > 1}) = Cardinality(PlacesIn(path, Tail(w)))
<1> DEFINE late == {k \in PlacesIn(path, w) : k > 1}
           back == [k \in late |-> k - 1]
<1>1. /\ Tail(w) \in Seq(Letter)
      /\ Len(Tail(w)) = Len(w) - 1 /\ Len(w) \in Nat \ {0}
      /\ \A l \in 1 .. Len(Tail(w)) : Tail(w)[l] = w[l + 1]
  BY HeadTailProperties, EmptySeq, LenProperties
<1>2. /\ Len(path) \in Nat \ {0} /\ IsFiniteSet(PlacesIn(path, w))
      /\ \A k : k \in PlacesIn(path, w) <=>
              /\ k \in Nat \ {0} /\ k + Len(path) - 1 <= Len(w)
              /\ \A l \in 1 .. Len(path) : w[k + l - 1] = path[l]
  BY PlaceOf
<1>3. \A k : k \in PlacesIn(path, Tail(w)) <=>
              /\ k \in Nat \ {0} /\ k + Len(path) - 1 <= Len(Tail(w))
              /\ \A l \in 1 .. Len(path) : Tail(w)[k + l - 1] = path[l]
  BY <1>1, PlaceOf
<1>4. ASSUME NEW k \in Nat \ {0}
      PROVE  k \in PlacesIn(path, Tail(w)) <=> k + 1 \in PlacesIn(path, w)
  <2>1. k + Len(path) - 1 <= Len(Tail(w)) <=> (k + 1) + Len(path) - 1 <= Len(w)
    BY <1>1, <1>2
  <2>2. ASSUME k + Len(path) - 1 <= Len(Tail(w)), NEW l \in 1 .. Len(path)
        PROVE  Tail(w)[k + l - 1] = w[(k + 1) + l - 1]
    <3>1. k + l - 1 \in 1 .. Len(Tail(w)) /\ (k + l - 1) + 1 = (k + 1) + l - 1
      BY <1>1, <1>2, <2>2
    <3> QED
      BY <1>1, <3>1
  <2>3. k + 1 \in Nat \ {0}
    OBVIOUS
  <2> QED
    BY <1>2, <1>3, <2>1, <2>2, <2>3
<1>5. IsFiniteSet(late)
  BY <1>2, FS_Subset
<1>6. back \in Bijection(late, PlacesIn(path, Tail(w)))
  <2>1. \A k \in late : k \in Nat /\ k > 1 /\ k - 1 \in Nat \ {0} /\ (k - 1) + 1 = k
    BY <1>2
  <2>2. \A k \in late : k - 1 \in PlacesIn(path, Tail(w))
    <3> TAKE k \in late
    <3>1. k - 1 \in Nat \ {0} /\ (k - 1) + 1 = k /\ k \in PlacesIn(path, w)
      BY <2>1
    <3> HIDE DEF late
    <3> QED
      BY <1>4, <3>1
  <2>3. \A k \in PlacesIn(path, Tail(w)) : k + 1 \in late /\ (k + 1) - 1 = k
    <3> TAKE k \in PlacesIn(path, Tail(w))
    <3>1. k \in Nat \ {0}
      BY <1>3
    <3>2. k + 1 \in PlacesIn(path, w)
      BY <1>4, <3>1
    <3>3. k + 1 > 1 /\ (k + 1) - 1 = k
      BY <3>1
    <3> QED
      BY <3>2, <3>3
  <2>4. \A k, m \in late : k - 1 = m - 1 => k = m
    BY <2>1
  <2> HIDE DEF late
  <2>5. back \in [late -> PlacesIn(path, Tail(w))]
    BY <2>2
  <2>6. \A k, m \in late : back[k] = back[m] => k = m
    BY <2>4
  <2>7. \A k \in PlacesIn(path, Tail(w)) : \E m \in late : back[m] = k
    BY <2>3
  <2> QED
    BY <2>5, <2>6, <2>7, Fun_IsBij
<1> QED
  BY <1>5, <1>6, FS_Bijection DEF ExistsBijection

\* Training keeps the count of every path: what has been counted and what is
\* still to be counted in the running word make up its occurrences.
LEMMA IndexNext ==
  ASSUME TrainInv, IndexInv, [TrainNext]_trainVars
  PROVE  IndexInv'
<1>1. /\ TrainTypeOK /\ Root \in Nodes /\ suffix \in Seq(Letter) /\ node \in Seq(Letter)
      /\ Len(suffix) \in Nat /\ Len(node) \in Nat /\ Len(node) <= Len(suffix)
      /\ num \in [Nodes -> Nat] /\ \A path \in Path : path # Root
  BY LenProperties DEF TrainInv, TrainTypeOK, Path
<1>2. \A path \in Path : Counted(path) + Cardinality(Pending(path)) = Occurrences(path)
  BY DEF IndexInv
<1>3. \A path \in Path : Counted(path) \in Nat /\ Cardinality(Pending(path)) \in Nat
  BY <1>1, PendingFinite DEF Counted
<1>4. ASSUME Len(node) < Len(suffix), NEW c, c = NextNode, node' = c, suffix' = suffix,
             trained' = trained,
             Counted(c)' = Counted(c) + 1,
             \A path \in Path : path # c => Counted(path)' = Counted(path)
      PROVE  IndexInv'
  <2>1. /\ c \in Path
        /\ \A l \in 1 .. Len(node') : node'[l] = suffix'[l]
        /\ \A path \in Path : path # c => Pending(path)' = Pending(path)
        /\ Cardinality(Pending(c)) = Cardinality(Pending(c)') + 1
        /\ Cardinality(Pending(c)') \in Nat
    BY <1>4, StepOfDescent
  <2>2. \A path : Occurrences(path)' = Occurrences(path)
    BY <1>4 DEF Occurrences, PlacesIn
  <2>3. Counted(c)' + Cardinality(Pending(c)') = Occurrences(c)
    BY <1>2, <1>3, <1>4, <2>1
  <2>4. \A path \in Path : Counted(path)' + Cardinality(Pending(path)') = Occurrences(path)'
    BY <1>2, <1>4, <2>1, <2>2, <2>3
  <2> QED
    BY <2>1, <2>4 DEF IndexInv
<1>5. CASE \E w \in Word : AddString(w)
  <2>1. PICK w \in Word : AddString(w)
    BY <1>5
  <2>2. /\ suffix = <<>> /\ suffix' = w /\ num' = num /\ node' = node
        /\ trained' = [trained EXCEPT ![w] = @ + 1]
    BY <2>1 DEF AddString, treeVars
  <2>3. Len(node) = 0 /\ Len(suffix) = 0
    BY <1>1, <2>2
  <2>4. ASSUME NEW path \in Path
        PROVE  Counted(path)' + Cardinality(Pending(path)') = Occurrences(path)'
    <3>1. Len(path) \in Nat \ {0}
      BY <1>1, PlaceOf
    <3>2. Pending(path) = {}
      <4>1. ASSUME NEW k \in PlacesIn(path, suffix)
            PROVE  FALSE
        <5>1. k \in Nat \ {0} /\ k + Len(path) - 1 <= Len(suffix)
          BY <1>1, <4>1, PlaceOf
        <5> QED
          BY <2>3, <3>1, <5>1
      <4> QED
        BY <4>1 DEF Pending
    <3>3. Pending(path)' = PlacesIn(path, w)
      <4>1. Len(path) > Len(node)
        BY <2>3, <3>1
      <4>2. Pending(path)' = {k \in PlacesIn(path, w) : k > 1 \/ Len(path) > Len(node)}
        BY <2>2 DEF Pending, PlacesIn
      <4> QED
        BY <4>1, <4>2
    <3>4. Counted(path)' = Counted(path)
      BY <2>2 DEF Counted, Nodes
    <3>5. Counted(path) = Occurrences(path)
      <4>1. Cardinality(Pending(path)) = 0
        BY <3>2, FS_EmptySet
      <4>2. Counted(path) + Cardinality(Pending(path)) = Occurrences(path) /\ Counted(path) \in Nat
        BY <1>2, <1>3
      <4> QED
        BY <4>1, <4>2
    <3> QED
      BY <1>1, <2>2, <3>3, <3>4, <3>5, OneMoreWord
  <2>5. \A l \in 1 .. Len(node') : node'[l] = suffix'[l]
    BY <2>2, <2>3
  <2> QED
    BY <2>4, <2>5 DEF IndexInv
<1>6. CASE Follow
  <2>0. PICK c : c = NextNode
    OBVIOUS
  <2>1. /\ c \in Nodes /\ c # Root /\ Len(node) < Len(suffix)
        /\ num' = [num EXCEPT ![c] = @ + 1]
        /\ node' = c /\ suffix' = suffix /\ trained' = trained
    BY <1>6, <2>0, NextNodeProperties DEF Follow, Visits
  <2>2. Nodes' = Nodes /\ \A n \in Nodes : num'[n] = IF n = c THEN num[n] + 1 ELSE num[n]
    BY <1>1, <2>1 DEF Nodes
  <2>3. Counted(c)' = Counted(c) + 1
    BY <2>1, <2>2 DEF Counted
  <2>4. \A path \in Path : path # c => Counted(path)' = Counted(path)
    BY <2>1, <2>2 DEF Counted
  <2> QED
    BY <1>4, <2>0, <2>1, <2>3, <2>4
<1>7. CASE Grow
  <2>0. PICK c : c = NextNode
    OBVIOUS
  <2>1. /\ c \notin Nodes /\ c # Root /\ Len(node) < Len(suffix)
        /\ num' = [n \in Nodes \cup {c} |->
                     IF n = c THEN 1 ELSE IF n = Root THEN num[n] + 1 ELSE num[n]]
        /\ node' = c /\ suffix' = suffix /\ trained' = trained
    BY <1>7, <2>0, NextNodeProperties DEF Grow
  <2>2. Nodes' = Nodes \cup {c}
    BY <2>1 DEF Nodes
  <2>3. Counted(c)' = Counted(c) + 1
    BY <2>1, <2>2 DEF Counted
  <2>4. \A path \in Path : path # c => Counted(path)' = Counted(path)
    BY <1>1, <2>1, <2>2 DEF Counted
  <2> QED
    BY <1>4, <2>0, <2>1, <2>3, <2>4
<1>8. CASE Recurse
  <2>1. /\ suffix # <<>> /\ Len(node) = Len(suffix) /\ suffix' = Tail(suffix)
        /\ node' = Root /\ num' = num /\ trained' = trained
    BY <1>8 DEF Recurse, Rest, treeVars
  <2>2. ASSUME NEW path \in Path
        PROVE  Counted(path)' + Cardinality(Pending(path)') = Occurrences(path)'
    <3>1. Len(path) \in Nat \ {0}
      BY <1>1, PlaceOf
    <3>2. Pending(path) = {k \in PlacesIn(path, suffix) : k > 1}
      <4>1. ASSUME NEW k \in PlacesIn(path, suffix)
            PROVE  ~ (Len(path) > Len(node))
        <5>1. k \in Nat \ {0} /\ k + Len(path) - 1 <= Len(suffix)
          BY <1>1, <4>1, PlaceOf
        <5> QED
          BY <1>1, <2>1, <3>1, <5>1
      <4> QED
        BY <4>1 DEF Pending
    <3>3. Pending(path)' = PlacesIn(path, Tail(suffix))
      <4>1. Pending(path)' = {k \in PlacesIn(path, Tail(suffix)) : k > 1 \/ Len(path) > Len(Root)}
        BY <2>1 DEF Pending, PlacesIn
      <4>2. Len(path) > Len(Root)
        BY <3>1, EmptySeq DEF Root
      <4> QED
        BY <4>1, <4>2
    <3>4. Cardinality(Pending(path)') = Cardinality(Pending(path))
      BY <1>1, <2>1, <3>2, <3>3, PlacesInTail
    <3>5. Counted(path)' = Counted(path) /\ Occurrences(path)' = Occurrences(path)
      BY <2>1 DEF Counted, Nodes, Occurrences, PlacesIn
    <3> QED
      BY <1>2, <3>4, <3>5
  <2>3. \A l \in 1 .. Len(node') : node'[l] = suffix'[l]
    BY <2>1, EmptySeq DEF Root
  <2> QED
    BY <2>2, <2>3 DEF IndexInv
<1>9. CASE UNCHANGED trainVars
  BY <1>9 DEF trainVars, treeVars, IndexInv, Counted, Pending, Occurrences, PlacesIn, Nodes
<1> QED
  BY <1>5, <1>6, <1>7, <1>8, <1>9 DEF TrainNext

\* A word's factor is a path that occurs in it.
LEMMA FactorOccurs ==
  ASSUME NEW w \in Seq(Letter), NEW x \in DOMAIN w, NEW y \in DOMAIN w, x <= y
  PROVE  SubSeq(w, x, y) \in Path /\ x \in PlacesIn(SubSeq(w, x, y), w)
<1>1. DOMAIN w = 1 .. Len(w) /\ Len(w) \in Nat
  BY LenProperties
<1>2. \A k \in x .. y : w[k] \in Letter
  BY <1>1, ElementOfSeq
<1>3. /\ SubSeq(w, x, y) \in Seq(Letter)
      /\ Len(SubSeq(w, x, y)) = y - x + 1
  BY <1>1, <1>2, SubSeqProperties
<1>4. x \in Int /\ y \in Int
  BY <1>1
<1>5. SubSeq(w, x, y) \in Path
  <2>1. Len(SubSeq(w, x, y)) # 0
    BY <1>3, <1>4
  <2> QED
    BY <1>3, <2>1, EmptySeq DEF Path, Root
<1>6. x + Len(SubSeq(w, x, y)) - 1 = y
  BY <1>3, <1>4
<1>7. x \in 1 .. Len(w) - Len(SubSeq(w, x, y)) + 1
  BY <1>1, <1>3, <1>4
<1> QED
  BY <1>5, <1>6, <1>7 DEF PlacesIn

LEMMA IndexInvImplies ==
  ASSUME TrainInv, IndexInv
  PROVE  CountsAreOccurrences
<1> SUFFICES ASSUME suffix = <<>>
             PROVE  /\ \A n \in Nodes \ {Root} : num[n] = Occurrences(n)
                    /\ \A w \in Word : trained[w] > 0 =>
                         \A x, y \in DOMAIN w : x <= y => SubSeq(w, x, y) \in Nodes
  BY DEF CountsAreOccurrences
<1>1. /\ suffix \in Seq(Letter) /\ Len(suffix) = 0
      /\ Nodes \subseteq Seq(Letter) /\ num \in [Nodes -> Nat] /\ trained \in [Word -> Nat]
  BY EmptySeq DEF TrainInv, TrainTypeOK
<1>2. ASSUME NEW path \in Path
      PROVE  Counted(path) = Occurrences(path)
  <2>1. Pending(path) = {}
    <3>1. ASSUME NEW k \in PlacesIn(path, suffix)
          PROVE  FALSE
      <4>1. k \in Nat \ {0} /\ k + Len(path) - 1 <= Len(suffix) /\ Len(path) \in Nat \ {0}
        BY <1>1, <3>1, PlaceOf
      <4> QED
        BY <1>1, <4>1
    <3> QED
      BY <3>1 DEF Pending
  <2>2. Counted(path) \in Nat
    BY <1>1 DEF Counted
  <2>3. Counted(path) + Cardinality(Pending(path)) = Occurrences(path)
    BY DEF IndexInv
  <2> QED
    BY <2>1, <2>2, <2>3, FS_EmptySet
<1>3. \A n \in Nodes \ {Root} : num[n] = Occurrences(n)
  BY <1>1, <1>2 DEF Counted, Path
<1>4. ASSUME NEW w \in Word, trained[w] > 0, NEW x \in DOMAIN w, NEW y \in DOMAIN w, x <= y
      PROVE  SubSeq(w, x, y) \in Nodes
  <2> DEFINE path == SubSeq(w, x, y)
             f == [v \in Word |-> trained[v] * Cardinality(PlacesIn(path, v))]
  <2>1. path \in Path /\ x \in PlacesIn(path, w)
    BY <1>4, FactorOccurs, WordAssumption
  <2> HIDE DEF path
  <2>2. \A v \in Word : IsFiniteSet(PlacesIn(path, v)) /\ Cardinality(PlacesIn(path, v)) \in Nat /\ trained[v] \in Nat
    BY <1>1, <2>1, PlaceOf, WordAssumption
  <2>3. Cardinality(PlacesIn(path, w)) > 0
    BY <2>1, <2>2, FS_EmptySet
  <2>4. f[w] > 0 /\ \A v \in Word : f[v] \in Nat
    BY <1>4, <2>2, <2>3, Products
  <2>5. Occurrences(path) = SumFunctionOnSet(f, Word)
    BY DEF Occurrences, SumFunction
  <2> HIDE DEF f
  <2>6. f[w] <= SumFunctionOnSet(f, Word) /\ SumFunctionOnSet(f, Word) \in Nat
    BY <2>4, SumIsNotLess, SumType, WordAssumption
  <2>7. f[w] \in Nat
    BY <2>4
  <2>8. Counted(path) > 0
    BY <1>2, <2>1, <2>4, <2>5, <2>6, <2>7
  <2>9. path \in Nodes
    BY <2>8 DEF Counted
  <2> QED
    BY <2>9 DEF path
<1> QED
  BY <1>3, <1>4

\* Between words the tree holds every factor of the words it was trained on and
\* no other path, each counted once per occurrence, for every alphabet, set of
\* words and order of training, and while words are scored.
THEOREM TreeIsIndex == ScoreSpec => []CountsAreOccurrences
<1>1. ScoreInit => IndexInv
  <2> SUFFICES ASSUME ScoreInit PROVE IndexInv
    OBVIOUS
  <2>1. /\ Nodes = {Root} /\ suffix = <<>> /\ node = Root /\ Len(Root) = 0
        /\ trained = [w \in Word |-> 0]
    BY EmptySeq DEF ScoreInit, TrainInit, Nodes, Root
  <2>2. suffix \in Seq(Letter) /\ Len(suffix) = 0
    BY <2>1, EmptySeq
  <2>3. ASSUME NEW path \in Path
        PROVE  Counted(path) + Cardinality(Pending(path)) = Occurrences(path)
    <3>1. Counted(path) = 0
      BY <2>1 DEF Counted, Path
    <3>2. Pending(path) = {}
      <4>1. ASSUME NEW k \in PlacesIn(path, suffix)
            PROVE  FALSE
        <5>1. k \in Nat \ {0} /\ k + Len(path) - 1 <= Len(suffix) /\ Len(path) \in Nat \ {0}
          BY <2>2, <4>1, PlaceOf
        <5> QED
          BY <2>2, <5>1
      <4> QED
        BY <4>1 DEF Pending
    <3>3. Occurrences(path) = 0
      <4> DEFINE f == [v \in Word |-> trained[v] * Cardinality(PlacesIn(path, v))]
      <4>1. \A v \in Word : Cardinality(PlacesIn(path, v)) \in Nat /\ trained[v] = 0
        BY <2>1, PlaceOf, WordAssumption
      <4>2. \A v \in Word : f[v] = 0
        BY <4>1
      <4>3. Occurrences(path) = SumFunctionOnSet(f, Word)
        BY DEF Occurrences, SumFunction
      <4> HIDE DEF f
      <4> QED
        BY <4>2, <4>3, SumOfZeroes, WordAssumption
    <3> QED
      BY <3>1, <3>2, <3>3, FS_EmptySet
  <2> QED
    BY <2>1, <2>3 DEF IndexInv
<1>2. ScoreInv /\ IndexInv /\ [ScoreNext]_allVars => IndexInv'
  <2>1. [ScoreNext]_allVars => [TrainNext]_trainVars
    BY DEF ScoreNext, allVars, Train, Score, Match, Restart, Return
  <2> QED
    BY <2>1, IndexNext DEF ScoreInv
<1>3. ScoreInv /\ IndexInv => CountsAreOccurrences
  BY IndexInvImplies DEF ScoreInv
<1> QED
  BY <1>1, <1>2, <1>3, ScoreInitInv, ScoreNextInv, PTL DEF ScoreSpec
=============================================================================
