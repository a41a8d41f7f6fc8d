---------------------------- MODULE ScriptsProofs ----------------------------
(***************************************************************************)
(* The programs of Scripts, each alone, in every text, over any number of  *)
(* files and for any arguments: what the scripts that count in one pass    *)
(* count (arrows, nested blocks, branches and loops), that the two passes  *)
(* of ngrams.py agree, which words get_words reads, which subsets          *)
(* classify_bruteforce.py tries.  What each does alone it does when the    *)
(* user runs it.                                                           *)
(***************************************************************************)
EXTENDS Scripts, DataInduction, SequenceTheorems, TLAPS
-----------------------------------------------------------------------------
(***************************************************************************)
(* TextFeatures.  The operators "->" that arrowCount.py counts.            *)
(***************************************************************************)
\* The last n characters up to place k are "-", and the one before is not.
RunOf(d, k, n) ==
  /\ n \in 0 .. k
  /\ \A p \in k - n + 1 .. k : d[p] = "-"
  /\ n = k \/ d[k - n] # "-"

\* The state of arrowCount.py is the parity of the run it is in.
ArrowInv ==
  /\ chars \in Alphabets \cup {{}}
  /\ data \in Seq(UNION Alphabets)
  /\ \E n \in Nat : RunOf(data, Len(data), n) /\ state = n % 2
  /\ arrowCount \in Nat
  /\ IsFiniteSet(ArrowOperators)
  /\ CountsArrowOperators

\* There is one such run only.
LEMMA OneRun ==
  ASSUME NEW d, NEW k \in Nat, NEW m, NEW n, RunOf(d, k, m), RunOf(d, k, n)
  PROVE  m = n
<1>1. m \in 0 .. k /\ n \in 0 .. k
  BY DEF RunOf
<1>2. CASE m < n
  <2>1. k - m \in k - n + 1 .. k /\ m # k
    BY <1>1, <1>2
  <2> QED
    BY <2>1 DEF RunOf
<1>3. CASE n < m
  <2>1. k - n \in k - m + 1 .. k /\ n # k
    BY <1>1, <1>3
  <2> QED
    BY <2>1 DEF RunOf
<1> QED
  BY <1>1, <1>2, <1>3

\* ArrowOperators for any text d.
OperatorsOf(d) ==
  {k \in DOMAIN d : d[k] = ">" /\ \E n \in 1 .. k - 1 : n % 2 = 1 /\ RunOf(d, k - 1, n)}

LEMMA OperatorsOfData ==
  ASSUME data \in Seq(UNION Alphabets), data' \in Seq(UNION Alphabets)
  PROVE  ArrowOperators = OperatorsOf(data) /\ ArrowOperators' = OperatorsOf(data')
<1>1. ASSUME NEW d, NEW k \in Int, NEW n \in 1 .. k - 1
      PROVE  RunOf(d, k - 1, n) <=> /\ \A p \in k - n .. k - 1 : d[p] = "-"
                                    /\ k - n = 1 \/ d[k - n - 1] # "-"
  <2>1. /\ (k - 1) - n + 1 = k - n /\ (k - 1) - n = k - n - 1
        /\ (n = k - 1) <=> (k - n = 1)
        /\ n \in 0 .. k - 1
    OBVIOUS
  <2> QED
    BY <2>1 DEF RunOf
<1>2. (\A k \in DOMAIN data : k \in Int) /\ (\A k \in DOMAIN data' : k \in Int)
  BY LenProperties
<1> QED
  BY <1>1, <1>2 DEF ArrowOperators, OperatorsOf, At

\* An arrow ends at place k + 1 if and only if the run up to k is odd.
LEMMA ArrowEnds ==
  ASSUME NEW d, NEW k \in Nat, k + 1 \in DOMAIN d, d[k + 1] = ">",
         NEW n, RunOf(d, k, n)
  PROVE  k + 1 \in OperatorsOf(d) <=> n % 2 = 1
<1>1. n \in 0 .. k /\ (n % 2 = 1 => n \in 1 .. k)
  BY DEF RunOf
<1>2. (k + 1) - 1 = k
  OBVIOUS
<1>3. k + 1 \in OperatorsOf(d) <=> \E m \in 1 .. k : m % 2 = 1 /\ RunOf(d, k, m)
  BY <1>2 DEF OperatorsOf
<1> QED
  BY <1>1, <1>3, OneRun

\* One more character leaves what was before it.
LEMMA OneMore ==
  ASSUME data \in Seq(UNION Alphabets), NEW c \in UNION Alphabets,
         data' = Append(data, c)
  PROVE  /\ data' \in Seq(UNION Alphabets) /\ Len(data) \in Nat
         /\ Len(data') = Len(data) + 1 /\ data'[Len(data) + 1] = c
         /\ DOMAIN data = 1 .. Len(data) /\ DOMAIN data' = 1 .. Len(data) + 1
         /\ \A p \in 1 .. Len(data) : data'[p] = data[p]
<1>1. Len(data) \in Nat /\ DOMAIN data = 1 .. Len(data)
  BY LenProperties
<1> QED
  BY <1>1, AppendProperties

LEMMA ArrowOnChar ==
  ASSUME ArrowInv, NEW c \in chars, ReadChar(c)
  PROVE  ArrowInv'
<1> DEFINE k == Len(data)
<1>1. /\ c \in UNION Alphabets /\ chars' = chars
      /\ data' = Append(data, c)
      /\ state' = IF state = 0 /\ c = "-" THEN 1 ELSE 0
      /\ arrowCount' = IF state = 1 /\ c = ">" THEN arrowCount + 1 ELSE arrowCount
  BY DEF ArrowInv, ReadChar, Arrow
<1>2. /\ data \in Seq(UNION Alphabets) /\ data' \in Seq(UNION Alphabets) /\ k \in Nat
      /\ Len(data') = k + 1 /\ data'[k + 1] = c
      /\ DOMAIN data = 1 .. k /\ DOMAIN data' = 1 .. k + 1
      /\ \A p \in 1 .. k : data'[p] = data[p]
  BY <1>1, OneMore DEF ArrowInv
<1>3. PICK n \in Nat : RunOf(data, k, n) /\ state = n % 2
  BY DEF ArrowInv
<1> HIDE DEF k
<1>4. n \in 0 .. k /\ state \in {0, 1}
  BY <1>3 DEF RunOf
<1>5. \E m \in Nat : RunOf(data', k + 1, m) /\ state' = m % 2
  <2>1. CASE c = "-"
    <3>1. RunOf(data', k + 1, n + 1)
      <4>1. n + 1 \in 0 .. k + 1 /\ (k + 1) - (n + 1) = k - n
        BY <1>2, <1>4
      <4>2. ASSUME NEW p \in (k + 1) - (n + 1) + 1 .. k + 1
            PROVE  data'[p] = "-"
        BY <1>2, <1>3, <1>4, <2>1 DEF RunOf
      <4>3. n + 1 = k + 1 \/ data'[(k + 1) - (n + 1)] # "-"
        <5>1. n = k \/ (k - n \in 1 .. k /\ data[k - n] # "-")
          BY <1>2, <1>3, <1>4 DEF RunOf
        <5> QED
          BY <1>2, <1>4, <4>1, <5>1
      <4> QED
        BY <4>1, <4>2, <4>3 DEF RunOf
    <3>2. state' = (n + 1) % 2
      BY <1>1, <1>3, <2>1
    <3> QED
      BY <3>1, <3>2
  <2>2. CASE c # "-"
    <3>1. RunOf(data', k + 1, 0)
      BY <1>2, <2>2 DEF RunOf
    <3>2. state' = 0 % 2
      BY <1>1, <2>2
    <3> QED
      BY <3>1, <3>2
  <2> QED
    BY <2>1, <2>2
<1> DEFINE new == IF c = ">" /\ state = 1 THEN {k + 1} ELSE {}
<1>6. ArrowOperators' = ArrowOperators \cup new
  <2>1. ArrowOperators = OperatorsOf(data) /\ ArrowOperators' = OperatorsOf(data')
    BY <1>2, OperatorsOfData
  <2>2. ASSUME NEW j \in 1 .. k
        PROVE  j \in OperatorsOf(data') <=> j \in OperatorsOf(data)
    <3>1. j \in DOMAIN data' /\ j \in DOMAIN data /\ data'[j] = data[j]
      BY <1>2
    <3>2. ASSUME NEW m \in 1 .. j - 1
          PROVE  RunOf(data', j - 1, m) <=> RunOf(data, j - 1, m)
      <4>1. \A p \in (j - 1) - m + 1 .. j - 1 : data'[p] = data[p]
        BY <1>2
      <4>2. m = j - 1 \/ data'[(j - 1) - m] = data[(j - 1) - m]
        BY <1>2
      <4> QED
        BY <4>1, <4>2 DEF RunOf
    <3> QED
      BY <3>1, <3>2 DEF OperatorsOf
  <2>3. k + 1 \in OperatorsOf(data') <=> k + 1 \in new
    <3>1. CASE c # ">"
      BY <1>2, <3>1 DEF OperatorsOf
    <3>2. CASE c = ">"
      <4>1. k + 1 \in DOMAIN data' /\ data'[k + 1] = ">"
        BY <1>2, <3>2
      <4>2. RunOf(data', k, n)
        BY <1>2, <1>3, <1>4 DEF RunOf
      <4>3. k + 1 \in OperatorsOf(data') <=> n % 2 = 1
        BY <1>2, <4>1, <4>2, ArrowEnds
      <4> QED
        BY <1>3, <3>2, <4>3
    <3> QED
      BY <3>1, <3>2
  <2>4. OperatorsOf(data') \subseteq 1 .. k + 1 /\ OperatorsOf(data) \subseteq 1 .. k
    BY <1>2 DEF OperatorsOf
  <2>5. 1 .. k + 1 = (1 .. k) \cup {k + 1} /\ k + 1 \notin 1 .. k
    BY <1>2
  <2>6. new \subseteq {k + 1}
    OBVIOUS
  <2> HIDE DEF new
  <2> QED
    BY <2>1, <2>2, <2>3, <2>4, <2>5, <2>6
<1>7. k + 1 \notin ArrowOperators
  BY <1>2 DEF ArrowOperators, At
<1>8. /\ arrowCount \in Nat /\ IsFiniteSet(ArrowOperators)
      /\ arrowCount = Cardinality(ArrowOperators)
  BY DEF ArrowInv, CountsArrowOperators
<1>9. /\ arrowCount' \in Nat /\ IsFiniteSet(ArrowOperators')
      /\ arrowCount' = Cardinality(ArrowOperators')
  <2>1. CASE c = ">" /\ state = 1
    <3>1. ArrowOperators' = ArrowOperators \cup {k + 1}
      BY <1>6, <2>1
    <3> QED
      BY <1>1, <1>7, <1>8, <2>1, <3>1, FS_AddElement
  <2>2. CASE ~(c = ">" /\ state = 1)
    <3>1. ArrowOperators' = ArrowOperators
      BY <1>6, <2>2
    <3> QED
      BY <1>1, <1>8, <2>2, <3>1
  <2> QED
    BY <2>1, <2>2
<1> QED
  BY <1>1, <1>2, <1>5, <1>9 DEF ArrowInv, CountsArrowOperators

\* No arrow, and no run, is in a text without a character.
LEMMA EmptyText ==
  /\ <<>> \in Seq(UNION Alphabets) /\ Len(<<>>) = 0
  /\ RunOf(<<>>, 0, 0) /\ 0 % 2 = 0
  /\ OperatorsOf(<<>>) = {} /\ IsFiniteSet({}) /\ Cardinality({}) = 0
<1>1. <<>> \in Seq(UNION Alphabets) /\ Len(<<>>) = 0 /\ DOMAIN <<>> = {}
  BY EmptySeq
<1>2. RunOf(<<>>, 0, 0) /\ 0 % 2 = 0
  BY DEF RunOf
<1>3. OperatorsOf(<<>>) = {}
  BY <1>1 DEF OperatorsOf
<1> QED
  BY <1>1, <1>2, <1>3, FS_EmptySet

(***************************************************************************)
(* arrowCount.py counts the operators "->" of the file it reads: for every *)
(* text, whatever was read before it.                                      *)
(***************************************************************************)
THEOREM ArrowsAreOperators == TextSpec => []CountsArrowOperators
<1>1. TextInit => ArrowInv
  <2> SUFFICES ASSUME TextInit PROVE ArrowInv
    OBVIOUS
  <2>1. chars = {} /\ data = <<>> /\ state = 0 /\ arrowCount = 0
    BY DEF TextInit
  <2>2. ArrowOperators = {}
    BY <2>1, EmptySeq DEF ArrowOperators, At
  <2> QED
    BY <2>1, <2>2, EmptyText DEF ArrowInv, CountsArrowOperators
<1>2. ArrowInv /\ [TextNext]_textVars => ArrowInv'
  <2> SUFFICES ASSUME ArrowInv, [TextNext]_textVars PROVE ArrowInv'
    OBVIOUS
  <2>1. ASSUME NEW c \in chars, ReadChar(c) PROVE ArrowInv'
    BY <2>1, ArrowOnChar
  <2>2. CASE EndOfFile \/ UNCHANGED textVars
    <3>1. UNCHANGED <<chars, data, state, arrowCount>>
      BY <2>2 DEF EndOfFile, textVars, charCounts
    <3> QED
      BY <3>1 DEF ArrowInv, CountsArrowOperators, ArrowOperators, At
  <2>3. CASE NextFile
    <3>1. chars' \in Alphabets /\ data' = <<>> /\ state' = 0 /\ arrowCount' = 0
      BY <2>3 DEF NextFile
    <3>2. ArrowOperators' = {}
      BY <3>1, EmptyText, OperatorsOfData DEF ArrowInv
    <3> QED
      BY <3>1, <3>2, EmptyText DEF ArrowInv, CountsArrowOperators
  <2> QED
    BY <2>1, <2>2, <2>3 DEF TextNext
<1>3. ArrowInv => CountsArrowOperators
  BY DEF ArrowInv
<1> QED
  BY <1>1, <1>2, <1>3, PTL DEF TextSpec
-----------------------------------------------------------------------------
(***************************************************************************)
(* TextFeatures.  The depth that maxNestingDepth.py keeps, b[k] after k    *)
(* characters, is the number of blocks open there.                         *)
(***************************************************************************)
Turns(c, x, y) ==
  \/ c = "{" /\ y = x + 1
  \/ c = "}" /\ y = x - 1
  \/ c # "{" /\ c # "}" /\ y = x

Balance(b) ==
  /\ b \in [0 .. Len(data) -> Int] /\ b[0] = 0
  /\ \A k \in 1 .. Len(data) : Turns(data[k], b[k - 1], b[k])

NestingInv ==
  /\ chars \in Alphabets \cup {{}}
  /\ data \in Seq(UNION Alphabets)
  /\ depth \in Int /\ maxDepth \in Int
  /\ \E b :
       /\ Balance(b) /\ depth = b[Len(data)]
       /\ \A k \in 0 .. Len(data) : b[k] <= maxDepth
       /\ \E k \in 0 .. Len(data) : b[k] = maxDepth

LEMMA NothingNested ==
  ASSUME data = <<>>, depth = 0, maxDepth = 0, chars \in Alphabets \cup {{}}
  PROVE  NestingInv
<1> DEFINE b == [k \in 0 .. 0 |-> 0]
<1>1. data \in Seq(UNION Alphabets) /\ Len(data) = 0 /\ 1 .. 0 = {}
  BY EmptySeq
<1>2. b \in [0 .. 0 -> Int] /\ b[0] = 0 /\ \A k \in 0 .. 0 : b[k] = 0
  OBVIOUS
<1> HIDE DEF b
<1>3. Balance(b)
  BY <1>1, <1>2 DEF Balance
<1> QED
  BY <1>1, <1>2, <1>3 DEF NestingInv

LEMMA NestingOnChar ==
  ASSUME NestingInv, NEW c \in chars, ReadChar(c)
  PROVE  NestingInv'
<1> DEFINE n == Len(data)
<1>1. /\ chars \in Alphabets /\ c \in UNION Alphabets /\ data \in Seq(UNION Alphabets)
      /\ n \in Nat /\ depth \in Int /\ maxDepth \in Int
  BY LenProperties DEF NestingInv
<1>2. /\ data' \in Seq(UNION Alphabets) /\ Len(data') = n + 1
      /\ \A k \in 1 .. n : data'[k] = data[k]
      /\ data'[n + 1] = c /\ chars' = chars
  BY <1>1, AppendProperties DEF ReadChar
<1>3. Turns(c, depth, depth')
  <2>1. depth' = CASE c = "{" -> depth + 1 [] c = "}" -> depth - 1 [] OTHER -> depth
    BY Zenon DEF ReadChar, Nesting
  <2>2. CASE c = "{"
    <3>1. depth' = depth + 1
      BY <2>1, <2>2
    <3> QED
      BY <2>2, <3>1 DEF Turns
  <2>3. CASE c = "}"
    <3>1. depth' = depth - 1
      BY <2>1, <2>3
    <3> QED
      BY <2>3, <3>1 DEF Turns
  <2>4. CASE c # "{" /\ c # "}"
    <3>1. depth' = depth
      BY <2>1, <2>4
    <3> QED
      BY <2>4, <3>1 DEF Turns
  <2> QED
    BY <2>2, <2>3, <2>4
<1>4. maxDepth' = IF depth' > maxDepth THEN depth' ELSE maxDepth
  BY Zenon DEF ReadChar, Nesting
<1>5. depth' \in Int
  <2>1. depth' = depth + 1 \/ depth' = depth - 1 \/ depth' = depth
    BY <1>3, Zenon DEF Turns
  <2> QED
    BY <1>1, <2>1
<1>6. PICK b :
        /\ Balance(b) /\ depth = b[n]
        /\ \A k \in 0 .. n : b[k] <= maxDepth
        /\ \E k \in 0 .. n : b[k] = maxDepth
  BY DEF NestingInv
<1>7. /\ b \in [0 .. n -> Int] /\ b[0] = 0
      /\ \A k \in 1 .. n : Turns(data[k], b[k - 1], b[k])
  BY <1>6 DEF Balance
<1> HIDE DEF n
<1>8. PICK more \in [0 .. n + 1 -> Int] :
        /\ \A k \in 0 .. n : more[k] = b[k]
        /\ more[n + 1] = depth'
  <2> DEFINE f == [k \in 0 .. n + 1 |-> IF k <= n THEN b[k] ELSE depth']
  <2>1. /\ f \in [0 .. n + 1 -> Int]
        /\ \A k \in 0 .. n : f[k] = b[k]
        /\ f[n + 1] = depth'
    BY <1>1, <1>5, <1>7
  <2> HIDE DEF f
  <2> QED
    BY <2>1
<1>9. ASSUME NEW k \in 1 .. n + 1
      PROVE  Turns(data'[k], more[k - 1], more[k])
  <2>1. CASE k = n + 1
    <3>1. k - 1 = n /\ n \in 0 .. n
      BY <1>1, <2>1
    <3> QED
      BY <1>2, <1>3, <1>6, <1>8, <2>1, <3>1
  <2>2. CASE k # n + 1
    <3>1. k \in 1 .. n /\ k \in 0 .. n /\ k - 1 \in 0 .. n
      BY <1>1, <2>2
    <3> QED
      BY <1>2, <1>7, <1>8, <3>1
  <2> QED
    BY <2>1, <2>2
<1>10. Balance(more)' /\ more[0] = 0
  <2>1. 0 \in 0 .. n
    BY <1>1
  <2>2. more[0] = 0
    BY <1>7, <1>8, <2>1
  <2> QED
    BY <1>2, <1>8, <1>9, <2>2 DEF Balance
<1>11. maxDepth' \in Int /\ maxDepth <= maxDepth' /\ depth' <= maxDepth'
  BY <1>1, <1>4, <1>5
<1>12. \A k \in 0 .. n + 1 : more[k] <= maxDepth'
  <2> SUFFICES ASSUME NEW k \in 0 .. n + 1
               PROVE  more[k] <= maxDepth'
    OBVIOUS
  <2>1. CASE k = n + 1
    BY <1>8, <1>11, <2>1
  <2>2. CASE k # n + 1
    <3>1. k \in 0 .. n
      BY <1>1, <2>2
    <3>2. more[k] = b[k] /\ b[k] \in Int /\ b[k] <= maxDepth
      BY <1>6, <1>7, <1>8, <3>1
    <3> QED
      BY <1>1, <1>11, <3>2
  <2> QED
    BY <2>1, <2>2
<1>13. \E k \in 0 .. n + 1 : more[k] = maxDepth'
  <2>1. CASE maxDepth' = depth'
    <3>1. n + 1 \in 0 .. n + 1
      BY <1>1
    <3> QED
      BY <1>8, <2>1, <3>1
  <2>2. CASE maxDepth' = maxDepth
    <3>1. PICK k \in 0 .. n : b[k] = maxDepth
      BY <1>6
    <3>2. k \in 0 .. n + 1
      BY <1>1
    <3> QED
      BY <1>8, <2>2, <3>1, <3>2
  <2> QED
    BY <1>4, <2>1, <2>2
<1>14. depth' = more[Len(data')]
  BY <1>2, <1>8
<1>15. /\ \A k \in 0 .. Len(data') : more[k] <= maxDepth'
       /\ \E k \in 0 .. Len(data') : more[k] = maxDepth'
  BY <1>2, <1>12, <1>13
<1> QED
  BY <1>1, <1>2, <1>5, <1>10, <1>11, <1>14, <1>15 DEF NestingInv

\* How many places of P there are from place p on up to k.
Between(P, p, k) == Cardinality(P \cap p .. k)

LEMMA OneMorePlace ==
  ASSUME NEW P, P \subseteq Int, NEW p \in Int, NEW k \in Int, p <= k
  PROVE  /\ Between(P, p, k) \in Nat /\ Between(P, p, k - 1) \in Nat
         /\ k \in P => Between(P, p, k) = Between(P, p, k - 1) + 1
         /\ k \notin P => Between(P, p, k) = Between(P, p, k - 1)
<1>1. ASSUME NEW l \in Int
      PROVE  IsFiniteSet(P \cap p .. l) /\ Cardinality(P \cap p .. l) \in Nat
  <2>1. IsFiniteSet(p .. l) /\ P \cap p .. l \subseteq p .. l
    BY FS_Interval
  <2> QED
    BY <2>1, FS_Subset, FS_CardinalityType
<1> DEFINE less == P \cap p .. k - 1
           all == P \cap p .. k
<1>2. k - 1 \in Int /\ \A l \in Int : l \in p .. k <=> l \in p .. k - 1 \/ l = k
  OBVIOUS
<1>3. k \notin less
  OBVIOUS
<1>4. k \in P => all = less \cup {k}
  <2>1. \A l \in all : l \in Int
    OBVIOUS
  <2>2. \A l \in less : l \in Int
    OBVIOUS
  <2> QED
    BY <1>2, <2>1, <2>2
<1>5. k \notin P => all = less
  <2>1. \A l \in all : l \in Int
    OBVIOUS
  <2>2. \A l \in less : l \in Int
    OBVIOUS
  <2> QED
    BY <1>2, <2>1, <2>2
<1>6. IsFiniteSet(less) /\ Cardinality(less) \in Nat /\ IsFiniteSet(all) /\ Cardinality(all) \in Nat
  BY <1>1, <1>2
<1> HIDE DEF less, all
<1>7. k \in P => Cardinality(all) = Cardinality(less) + 1
  BY <1>3, <1>4, <1>6, FS_AddElement
<1>8. Between(P, p, k) = Cardinality(all) /\ Between(P, p, k - 1) = Cardinality(less)
  BY DEF Between, less, all
<1> QED
  BY <1>5, <1>6, <1>7, <1>8

LEMMA BracesBetween ==
  ASSUME data \in Seq(UNION Alphabets), NEW b, Balance(b), NEW p \in 1 .. Len(data) + 1, NEW n \in Nat,
         p - 1 + n <= Len(data)
  PROVE  LET m == p - 1 + n
             opened == Between(At("{"), p, m)
             closed == Between(At("}"), p, m)
         IN  /\ opened \in Nat /\ closed \in Nat
             /\ opened - closed = b[m] - b[p - 1]
<1> DEFINE A == At("{")
           B == At("}")
           opened(m) == Between(A, p, m)
           closed(m) == Between(B, p, m)
           Holds(m) == /\ opened(m) \in Nat /\ closed(m) \in Nat
                       /\ opened(m) - closed(m) = b[m] - b[p - 1]
           T == {k \in Nat : p - 1 + k <= Len(data) => Holds(p - 1 + k)}
<1>1. Len(data) \in Nat /\ DOMAIN data = 1 .. Len(data) /\ p \in Int /\ p - 1 \in 0 .. Len(data)
  BY LenProperties
<1>2. A \subseteq Int /\ B \subseteq Int
  <2>1. \A k \in DOMAIN data : k \in Int
    BY <1>1
  <2> QED
    BY <2>1 DEF At
<1>3. \A m \in DOMAIN data : (m \in A <=> data[m] = "{") /\ (m \in B <=> data[m] = "}")
  BY DEF At
<1> HIDE DEF A, B, Holds
<1>4. \A k \in 0 .. Len(data) : b[k] \in Int
  BY DEF Balance
<1>5. 0 \in T
  <2>1. p .. p - 1 = {} /\ A \cap {} = {} /\ B \cap {} = {} /\ p - 1 + 0 = p - 1
    BY <1>1
  <2>2. opened(p - 1) = 0 /\ closed(p - 1) = 0
    BY <2>1, FS_EmptySet DEF Between
  <2>3. b[p - 1] \in Int
    BY <1>1, <1>4
  <2> HIDE DEF opened, closed
  <2>4. Holds(p - 1)
    BY <2>2, <2>3 DEF Holds
  <2> QED
    BY <2>1, <2>4
<1>6. ASSUME NEW k \in Nat, k \in T
      PROVE  k + 1 \in T
  <2> SUFFICES ASSUME p - 1 + (k + 1) <= Len(data)
               PROVE  Holds(p - 1 + (k + 1))
    OBVIOUS
  <2>1. PICK m \in Int : m = p - 1 + (k + 1)
    BY <1>1
  <2>2. /\ p <= m /\ m - 1 = p - 1 + k /\ m \in 1 .. Len(data) /\ m \in DOMAIN data
        /\ m \in 0 .. Len(data) /\ m - 1 \in 0 .. Len(data) /\ p - 1 + k <= Len(data)
    BY <1>1, <2>1
  <2>3. Holds(m - 1)
    BY <1>6, <2>2
  <2>4. /\ opened(m) \in Nat /\ opened(m - 1) \in Nat
        /\ m \in A => opened(m) = opened(m - 1) + 1
        /\ m \notin A => opened(m) = opened(m - 1)
    <3>1. p \in Int /\ m \in Int /\ p <= m
      BY <1>1, <2>2
    <3> QED
      BY <1>2, <3>1, OneMorePlace
  <2>5. /\ closed(m) \in Nat /\ closed(m - 1) \in Nat
        /\ m \in B => closed(m) = closed(m - 1) + 1
        /\ m \notin B => closed(m) = closed(m - 1)
    <3>1. p \in Int /\ m \in Int /\ p <= m
      BY <1>1, <2>2
    <3> QED
      BY <1>2, <3>1, OneMorePlace
  <2> HIDE DEF opened, closed
  <2>6. PICK x \in Int, y \in Int, z \in Int : x = b[m] /\ y = b[m - 1] /\ z = b[p - 1]
    BY <1>1, <1>4, <2>2
  <2>7. PICK o \in Nat, c \in Nat, o1 \in Nat, c1 \in Nat :
          o = opened(m) /\ c = closed(m) /\ o1 = opened(m - 1) /\ c1 = closed(m - 1)
    BY <2>4, <2>5
  <2>8. o1 - c1 = y - z
    BY <2>3, <2>6, <2>7 DEF Holds
  <2>9. o - c = x - z
    <3>1. Turns(data[m], y, x)
      BY <2>2, <2>6 DEF Balance
    <3>2. CASE data[m] = "{" /\ x = y + 1
      <4>1. m \in A /\ m \notin B
        BY <1>3, <2>2, <3>2
      <4>2. o = o1 + 1 /\ c = c1
        BY <2>4, <2>5, <2>7, <4>1
      <4>3. x = y + 1
        BY <3>2
      <4> QED
        BY <2>8, <4>2, <4>3
    <3>3. CASE data[m] = "}" /\ x = y - 1
      <4>1. m \notin A /\ m \in B
        BY <1>3, <2>2, <3>3
      <4>2. o = o1 /\ c = c1 + 1
        BY <2>4, <2>5, <2>7, <4>1
      <4>3. x = y - 1
        BY <3>3
      <4> QED
        BY <2>8, <4>2, <4>3
    <3>4. CASE data[m] # "{" /\ data[m] # "}" /\ x = y
      <4>1. m \notin A /\ m \notin B
        BY <1>3, <2>2, <3>4
      <4>2. o = o1 /\ c = c1
        BY <2>4, <2>5, <2>7, <4>1
      <4>3. x = y
        BY <3>4
      <4> QED
        BY <2>8, <4>2, <4>3
    <3> QED
      BY <3>1, <3>2, <3>3, <3>4 DEF Turns
  <2> QED
    BY <2>1, <2>4, <2>5, <2>6, <2>7, <2>9 DEF Holds
<1>7. T \subseteq Nat
  OBVIOUS
<1> HIDE DEF T
<1>8. n \in T
  BY <1>5, <1>6, <1>7, CountingUp
<1> QED
  BY <1>8 DEF T, Holds, A, B

\* More braces are opened than closed from p to m: the depth has grown.
LEMMA GrowsBetween ==
  ASSUME data \in Seq(UNION Alphabets), NEW b, Balance(b),
         NEW p \in 1 .. Len(data), NEW m \in p .. Len(data)
  PROVE  /\ Between(At("}"), p, m) < Between(At("{"), p, m) <=> b[p - 1] < b[m]
         /\ Between(At("}"), p, m) <= Between(At("{"), p, m) <=> b[p - 1] <= b[m]
<1>1. Len(data) \in Nat
  BY LenProperties
<1>2. PICK n \in Nat : n = m - p + 1
  BY <1>1
<1>3. p \in 1 .. Len(data) + 1 /\ p - 1 + n <= Len(data) /\ p - 1 + n = m
  BY <1>1, <1>2
<1>4. /\ Between(At("{"), p, m) \in Nat /\ Between(At("}"), p, m) \in Nat
      /\ Between(At("{"), p, m) - Between(At("}"), p, m) = b[m] - b[p - 1]
  BY <1>3, BracesBetween
<1>5. m \in 0 .. Len(data) /\ p - 1 \in 0 .. Len(data)
  BY <1>1
<1>6. PICK x \in Int, y \in Int : x = b[m] /\ y = b[p - 1]
  BY <1>5 DEF Balance
<1>7. PICK o \in Nat, c \in Nat : o = Between(At("{"), p, m) /\ c = Between(At("}"), p, m)
  BY <1>4
<1>8. o - c = x - y
  BY <1>4, <1>6, <1>7
<1>9. (c < o <=> y < x) /\ (c <= o <=> y <= x)
  BY <1>8
<1> QED
  BY <1>6, <1>7, <1>9

LEMMA OpenAtDepth ==
  ASSUME data \in Seq(UNION Alphabets), NEW b, Balance(b),
         \A k \in 0 .. Len(data) : 0 <= b[k], NEW k \in 1 .. Len(data)
  PROVE  IsFiniteSet(Open(k)) /\ Cardinality(Open(k)) = b[k]
<1> DEFINE n == Len(data)
           O == Open(k)
           g == [p \in O |-> b[p]]
<1>1. /\ n \in Nat /\ DOMAIN data = 1 .. n
      /\ \A p \in 0 .. n : b[p] \in Int /\ 0 <= b[p]
      /\ b[0] = 0
      /\ \A p \in 1 .. n : p \in 0 .. n /\ p - 1 \in 0 .. n /\ Turns(data[p], b[p - 1], b[p])
  BY LenProperties DEF Balance
<1>2. \A p : p \in O <=> /\ p \in 1 .. k /\ data[p] = "{"
                         /\ \A m \in p .. k : b[p - 1] < b[m]
  <2> SUFFICES ASSUME NEW p
               PROVE  p \in O <=> /\ p \in 1 .. k /\ data[p] = "{"
                                  /\ \A m \in p .. k : b[p - 1] < b[m]
    OBVIOUS
  <2>1. p \in O <=> /\ p \in DOMAIN data /\ data[p] = "{" /\ p <= k
                    /\ \A m \in p .. k : Between(At("}"), p, m) < Between(At("{"), p, m)
    BY DEF Open, At, Between
  <2>2. p \in DOMAIN data /\ p <= k <=> p \in 1 .. k
    BY <1>1
  <2>3. ASSUME p \in 1 .. k, NEW m \in p .. k
        PROVE  Between(At("}"), p, m) < Between(At("{"), p, m) <=> b[p - 1] < b[m]
    <3>1. p \in 1 .. Len(data) /\ m \in p .. Len(data)
      BY <1>1, <2>3
    <3> QED
      BY <3>1, GrowsBetween
  <2> QED
    BY <2>1, <2>2, <2>3
<1> HIDE DEF O, n
<1>3. k \in 0 .. n /\ k \in 1 .. n /\ b[k] \in Nat
  BY <1>1 DEF n
<1>4. \A p \in O : p \in 1 .. k /\ p \in 1 .. n /\ b[p] = b[p - 1] + 1
  <2> SUFFICES ASSUME NEW p \in O
               PROVE  p \in 1 .. k /\ p \in 1 .. n /\ b[p] = b[p - 1] + 1
    OBVIOUS
  <2>1. p \in 1 .. k
    BY <1>2
  <2>2. p \in 1 .. n
    BY <1>1, <1>3, <2>1
  <2>3. data[p] = "{"
    BY <1>2
  <2>4. Turns(data[p], b[p - 1], b[p])
    BY <1>1, <2>2
  <2>5. b[p] = b[p - 1] + 1
    BY <2>3, <2>4 DEF Turns
  <2> QED
    BY <2>1, <2>2, <2>5
<1>5. g \in [O -> 1 .. b[k]]
  <2> SUFFICES ASSUME NEW p \in O
               PROVE  b[p] \in 1 .. b[k]
    OBVIOUS
  <2>1. p \in 1 .. k /\ b[p] = b[p - 1] + 1 /\ b[p - 1] \in Int /\ 0 <= b[p - 1] /\ b[p] \in Int
    BY <1>1, <1>4
  <2>2. k \in p .. k
    BY <2>1
  <2>3. b[p - 1] < b[k]
    BY <1>2, <2>2
  <2> QED
    BY <1>3, <2>1, <2>3
<1>6. ASSUME NEW p \in O, NEW q \in O, p < q
      PROVE  b[p] < b[q]
  <2>1. p \in 1 .. k /\ q \in 1 .. k /\ b[p] = b[p - 1] + 1 /\ b[q] = b[q - 1] + 1
    BY <1>4
  <2>2. q - 1 \in p .. k
    BY <1>6, <2>1
  <2>3. b[p - 1] < b[q - 1]
    BY <1>2, <2>2
  <2>4. b[p - 1] \in Int /\ b[q - 1] \in Int
    BY <1>1, <1>4
  <2> QED
    BY <2>1, <2>3, <2>4
<1>7. \A p, q \in O : g[p] = g[q] => p = q
  <2> SUFFICES ASSUME NEW p \in O, NEW q \in O, b[p] = b[q]
               PROVE  p = q
    OBVIOUS
  <2>1. p \in Int /\ q \in Int /\ b[p] \in Int
    BY <1>1, <1>4
  <2>2. ~(p < q) /\ ~(q < p)
    BY <1>6, <2>1
  <2> QED
    BY <2>1, <2>2
<1>8. ASSUME NEW v \in 1 .. b[k]
      PROVE  \E p \in O : g[p] = v
  <2> DEFINE Lower == {m \in 0 .. k : b[m] < v}
  <2>1. 0 \in Lower /\ Lower \subseteq Int /\ IsFiniteSet(Lower)
    <3>1. 0 \in 0 .. k /\ b[0] < v
      BY <1>1, <1>3
    <3>2. IsFiniteSet(0 .. k) /\ Lower \subseteq 0 .. k
      BY <1>3, FS_Interval
    <3> QED
      BY <3>1, <3>2, FS_Subset
  <2>2. PICK m \in Lower : \A l \in Lower : m >= l
    <3> HIDE DEF Lower
    <3> QED
      BY <2>1, LargestNumber
  <2>3. m \in 0 .. k /\ b[m] < v /\ m # k
    BY <1>3
  <2> DEFINE p == m + 1
  <2>4. p \in 1 .. k /\ p \in 1 .. n /\ p - 1 = m
    BY <1>1, <1>3, <2>3
  <2>5. \A l \in p .. k : v <= b[l]
    <3> SUFFICES ASSUME NEW l \in p .. k
                 PROVE  v <= b[l]
      OBVIOUS
    <3>1. l \in 0 .. k /\ l \in 0 .. n /\ l > m /\ m \in Int /\ l \in Int
      BY <1>1, <1>3, <2>3
    <3>2. l \notin Lower
      <4> HIDE DEF Lower
      <4>1. l \in Lower => m >= l
        BY <2>2
      <4> QED
        BY <3>1, <4>1
    <3> QED
      BY <1>1, <1>3, <3>1, <3>2
  <2>6. p \in p .. k /\ Turns(data[p], b[m], b[p]) /\ b[m] \in Int /\ b[p] \in Int
    BY <1>1, <2>4
  <2> HIDE DEF p
  <2>7. v <= b[p] /\ v \in Int
    BY <2>5, <2>6
  <2>8. data[p] = "{" /\ b[p] = v
    <3>1. PICK x \in Int, y \in Int : x = b[p] /\ y = b[m]
      BY <2>6
    <3>2. v \in Int /\ y < v /\ v <= x
      BY <2>3, <2>7, <3>1
    <3>3. ~(x = y - 1) /\ x # y
      BY <3>2
    <3>4. Turns(data[p], y, x)
      BY <2>6, <3>1
    <3>5. data[p] = "{"
      BY <3>3, <3>4 DEF Turns
    <3>6. x = y + 1
      BY <3>3, <3>4 DEF Turns
    <3>7. x = v
      BY <3>2, <3>6
    <3> QED
      BY <3>1, <3>5, <3>7
  <2>9. \A l \in p .. k : b[p - 1] < b[l]
    <3> SUFFICES ASSUME NEW l \in p .. k
                 PROVE  b[p - 1] < b[l]
      OBVIOUS
    <3>1. v <= b[l] /\ b[m] < v /\ p - 1 = m
      BY <2>3, <2>4, <2>5
    <3>2. l \in 0 .. n
      BY <1>1, <1>3, <2>4
    <3>3. b[l] \in Int
      BY <1>1, <3>2
    <3> QED
      BY <2>6, <2>7, <3>1, <3>3
  <2>10. p \in O
    BY <1>2, <2>4, <2>8, <2>9
  <2> QED
    BY <2>8, <2>10
<1> HIDE DEF g
<1>9. IsFiniteSet(1 .. b[k]) /\ Cardinality(1 .. b[k]) = b[k]
  <2>1. PICK x \in Int : x = b[k] /\ x >= 0
    BY <1>3
  <2>2. IsFiniteSet(1 .. x) /\ Cardinality(1 .. x) = IF 1 > x THEN 0 ELSE x - 1 + 1
    BY FS_Interval
  <2>3. Cardinality(1 .. x) = x
    BY <2>1, <2>2
  <2> QED
    BY <2>1, <2>2, <2>3
<1>10. g \in Injection(O, 1 .. b[k])
  BY <1>5, <1>7 DEF Injection, IsInjective
<1>11. g \in Surjection(O, 1 .. b[k])
  BY <1>5, <1>8 DEF Surjection
<1>12. IsFiniteSet(O) /\ Cardinality(O) = Cardinality(1 .. b[k])
  BY <1>9, <1>10, <1>11, FS_Injection
<1> QED
  BY <1>9, <1>12 DEF O

LEMMA DepthOfNesting == NestingInv => DepthIsNesting
<1> DEFINE n == Len(data)
           balanced == \A k \in DOMAIN data : Cardinality(At("}") \cap 1 .. k) <= Cardinality(At("{") \cap 1 .. k)
           found == {Cardinality(Open(k)) : k \in DOMAIN data} \cup {0}
<1> SUFFICES ASSUME NestingInv, balanced
             PROVE  maxDepth = Max(found)
  BY DEF DepthIsNesting
<1> HIDE DEF balanced
<1>1. data \in Seq(UNION Alphabets) /\ n \in Nat /\ DOMAIN data = 1 .. n /\ maxDepth \in Int
  BY LenProperties DEF NestingInv
<1>2. PICK b :
        /\ Balance(b)
        /\ \A k \in 0 .. n : b[k] <= maxDepth
        /\ \E k \in 0 .. n : b[k] = maxDepth
  BY DEF NestingInv
<1>3. b[0] = 0 /\ \A k \in 0 .. n : b[k] \in Int
  BY <1>2 DEF Balance
<1>4. ASSUME NEW k \in 0 .. n
      PROVE  0 <= b[k]
  <2>1. CASE k = 0
    BY <1>3, <2>1
  <2>2. CASE k # 0
    <3>1. 1 \in 1 .. Len(data) /\ k \in 1 .. Len(data) /\ 1 - 1 = 0
      BY <1>1, <2>2
    <3>2. Between(At("}"), 1, k) <= Between(At("{"), 1, k)
      BY <1>1, <3>1 DEF Between, balanced
    <3>3. b[1 - 1] <= b[k]
      BY <1>1, <1>2, <3>1, <3>2, GrowsBetween
    <3> QED
      BY <1>3, <3>1, <3>3
  <2> QED
    BY <2>1, <2>2
<1>5. \A k \in 1 .. n : Cardinality(Open(k)) = b[k]
  BY <1>1, <1>2, <1>4, OpenAtDepth
<1> HIDE DEF n, found
<1>6. \A x : x \in found <=> \E k \in 0 .. n : x = b[k]
  <2> SUFFICES ASSUME NEW x
               PROVE  x \in found <=> \E k \in 0 .. n : x = b[k]
    OBVIOUS
  <2>1. x \in found <=> x = 0 \/ \E k \in 1 .. n : x = Cardinality(Open(k))
    BY <1>1 DEF found
  <2>2. 0 \in 0 .. n /\ \A k : k \in 0 .. n <=> k = 0 \/ k \in 1 .. n
    BY <1>1
  <2> QED
    BY <1>3, <1>5, <2>1, <2>2
<1>7. \A x \in found : (\A y \in found : x >= y) <=> x = maxDepth
  <2> SUFFICES ASSUME NEW x \in found
               PROVE  (\A y \in found : x >= y) <=> x = maxDepth
    OBVIOUS
  <2>1. x \in Int /\ x <= maxDepth
    BY <1>2, <1>3, <1>6
  <2>2. maxDepth \in found
    BY <1>2, <1>6
  <2>3. \A y \in found : y \in Int /\ y <= maxDepth
    BY <1>2, <1>3, <1>6
  <2>4. ASSUME \A y \in found : x >= y
        PROVE  x = maxDepth
    <3>1. x >= maxDepth
      BY <2>2, <2>4
    <3> QED
      BY <1>1, <2>1, <3>1
  <2>5. ASSUME x = maxDepth
        PROVE  \A y \in found : x >= y
    BY <1>1, <2>3, <2>5
  <2> QED
    BY <2>4, <2>5
<1>8. maxDepth \in found
  BY <1>2, <1>6
<1> QED
  BY <1>7, <1>8 DEF Max

\* maxNestingDepth.py finds the depth of the nesting, in a text of any length
\* in which no block is closed that was not opened.
THEOREM DepthsAreNestings == TextSpec => []DepthIsNesting
<1>1. TextInit => NestingInv
  BY NothingNested DEF TextInit
<1>2. NestingInv /\ [TextNext]_textVars => NestingInv'
  <2> SUFFICES ASSUME NestingInv, [TextNext]_textVars
               PROVE  NestingInv'
    OBVIOUS
  <2>1. CASE \E c \in chars : ReadChar(c)
    BY <2>1, NestingOnChar
  <2>2. ASSUME UNCHANGED <<chars, data, depth, maxDepth>>
        PROVE  NestingInv'
    <3>1. \A b : Balance(b)' = Balance(b)
      BY <2>2 DEF Balance
    <3> QED
      BY <2>2, <3>1 DEF NestingInv
  <2>3. CASE EndOfFile
    <3>1. UNCHANGED <<chars, data, depth, maxDepth>>
      BY <2>3 DEF EndOfFile, charCounts
    <3> QED
      BY <2>2, <3>1
  <2>4. CASE NextFile
    <3>1. data' = <<>> /\ depth' = 0 /\ maxDepth' = 0 /\ chars' \in Alphabets
      BY <2>4 DEF NextFile
    <3>2. data' \in Seq(UNION Alphabets) /\ Len(data') = 0 /\ 1 .. 0 = {}
      BY <3>1, EmptySeq
    <3>3. PICK b \in [0 .. 0 -> Int] : b[0] = 0 /\ \A k \in 0 .. 0 : b[k] = 0
      <4> DEFINE f == [k \in 0 .. 0 |-> 0]
      <4>1. f \in [0 .. 0 -> Int] /\ f[0] = 0 /\ \A k \in 0 .. 0 : f[k] = 0
        OBVIOUS
      <4> HIDE DEF f
      <4> QED
        BY <4>1
    <3>4. Balance(b)'
      BY <3>2, <3>3 DEF Balance
    <3> QED
      BY <3>1, <3>2, <3>3, <3>4 DEF NestingInv
  <2>5. CASE UNCHANGED textVars
    <3>1. UNCHANGED <<chars, data, depth, maxDepth>>
      BY <2>5 DEF textVars, charCounts
    <3> QED
      BY <2>2, <3>1
  <2> QED
    BY <2>1, <2>3, <2>4, <2>5 DEF TextNext
<1> QED
  BY <1>1, <1>2, DepthOfNesting, PTL DEF TextSpec
-----------------------------------------------------------------------------
(***************************************************************************)
(* TextFeatures.  The scripts that read line by line.  l is what the text  *)
(* has from place s on, where a line begins, and it is of that line only.  *)
(***************************************************************************)
TextLine(s, l) ==
  /\ l \in Seq(UNION Alphabets)
  /\ s \in 1 .. Len(data) + 1 /\ s + Len(l) <= Len(data) + 1
  /\ FirstOfLine(s)
  /\ \A k \in 1 .. Len(l) : data[s + k - 1] = l[k] /\ l[k] # "newline"

\* Where the line that is being read begins.
LineStart == Len(data) + 1 - Len(line)

\* The lines in D that each script counts, L[s] being the one at s.
ElseIfLines(D, L) == {s \in D : IsElseIf(L[s])}
ElseLines(D, L) == {s \in D : IsElse(L[s]) /\ ~IsElseIf(L[s])}
IfLines(D, L) == {s \in D : IsIf(L[s])}
WhileLines(D, L) == {s \in D : IsWhile(L[s])}
ForLines(D, L) == {s \in D : IsFor(L[s])}

Counted(D, L) ==
  /\ elseifCount = Cardinality(ElseIfLines(D, L))
  /\ elseCount = Cardinality(ElseLines(D, L))
  /\ ifCount = Cardinality(IfLines(D, L))
  /\ whileCount = Cardinality(WhileLines(D, L))
  /\ forCount = Cardinality(ForLines(D, L))

\* The lines read are those that begin in D, and L has them.
LinesRead(D, L) ==
  /\ IsFiniteSet(D)
  /\ \A s \in D : TextLine(s, L[s])
  /\ \A s \in D : \/ s + Len(L[s]) <= Len(data) /\ data[s + Len(L[s])] = "newline"
                  \/ ended /\ s + Len(L[s]) = Len(data) + 1
  /\ \A s \in 1 .. Len(data) + 1 : FirstOfLine(s) => s \in D \/ s = LineStart
  /\ LineStart \in D <=> ended

LinesInv ==
  /\ chars \in Alphabets \cup {{}}
  /\ data \in Seq(UNION Alphabets)
  /\ ended \in BOOLEAN
  /\ TextLine(LineStart, line)
  /\ \E D, L : LinesRead(D, L) /\ Counted(D, L)

\* What becomes of a count with one more line.
LEMMA OneMoreCounted ==
  ASSUME NEW G, IsFiniteSet(G), NEW s, s \notin G, NEW counts \in BOOLEAN,
         NEW H, H = IF counts THEN G \cup {s} ELSE G
  PROVE  Cardinality(H) = Increment(Cardinality(G), counts)
<1>1. CASE counts
  BY <1>1, FS_AddElement DEF Increment
<1>2. CASE ~counts
  BY <1>2 DEF Increment
<1> QED
  BY <1>1, <1>2

LEMMA LineCounted ==
  ASSUME NEW D, NEW L, NEW E, NEW M, NEW s, NEW l, IsFiniteSet(D), Counted(D, L), s \notin D,
         E = D \cup {s}, M[s] = l, \A r \in D : M[r] = L[r], CountLine(l)
  PROVE  Counted(E, M)'
<1>1. elseifCount' = Cardinality(ElseIfLines(E, M))
  <2> DEFINE G == ElseIfLines(D, L)
             H == ElseIfLines(E, M)
  <2>1. H = IF IsElseIf(l) THEN G \cup {s} ELSE G
    BY DEF ElseIfLines
  <2>2. IsFiniteSet(G) /\ s \notin G /\ IsElseIf(l) \in BOOLEAN
    BY FS_Subset DEF ElseIfLines, IsElseIf
  <2> HIDE DEF G, H
  <2>3. Cardinality(H) = Increment(Cardinality(G), IsElseIf(l))
    BY <2>1, <2>2, OneMoreCounted
  <2> QED
    BY <2>3 DEF Counted, CountLine, G, H
<1>2. elseCount' = Cardinality(ElseLines(E, M))
  <2> DEFINE G == ElseLines(D, L)
             H == ElseLines(E, M)
             counts == IsElse(l) /\ ~IsElseIf(l)
  <2>1. H = IF counts THEN G \cup {s} ELSE G
    BY DEF ElseLines
  <2>2. IsFiniteSet(G) /\ s \notin G /\ counts \in BOOLEAN
    BY FS_Subset DEF ElseLines
  <2> HIDE DEF G, H, counts
  <2>3. Cardinality(H) = Increment(Cardinality(G), counts)
    BY <2>1, <2>2, OneMoreCounted
  <2> QED
    BY <2>3 DEF Counted, CountLine, G, H, counts
<1>3. ifCount' = Cardinality(IfLines(E, M))
  <2> DEFINE G == IfLines(D, L)
             H == IfLines(E, M)
  <2>1. H = IF IsIf(l) THEN G \cup {s} ELSE G
    BY DEF IfLines
  <2>2. IsFiniteSet(G) /\ s \notin G /\ IsIf(l) \in BOOLEAN
    BY FS_Subset DEF IfLines, IsIf
  <2> HIDE DEF G, H
  <2>3. Cardinality(H) = Increment(Cardinality(G), IsIf(l))
    BY <2>1, <2>2, OneMoreCounted
  <2> QED
    BY <2>3 DEF Counted, CountLine, G, H
<1>4. whileCount' = Cardinality(WhileLines(E, M))
  <2> DEFINE G == WhileLines(D, L)
             H == WhileLines(E, M)
  <2>1. H = IF IsWhile(l) THEN G \cup {s} ELSE G
    BY DEF WhileLines
  <2>2. IsFiniteSet(G) /\ s \notin G /\ IsWhile(l) \in BOOLEAN
    BY FS_Subset DEF WhileLines, IsWhile
  <2> HIDE DEF G, H
  <2>3. Cardinality(H) = Increment(Cardinality(G), IsWhile(l))
    BY <2>1, <2>2, OneMoreCounted
  <2> QED
    BY <2>3 DEF Counted, CountLine, G, H
<1>5. forCount' = Cardinality(ForLines(E, M))
  <2> DEFINE G == ForLines(D, L)
             H == ForLines(E, M)
  <2>1. H = IF IsFor(l) THEN G \cup {s} ELSE G
    BY DEF ForLines
  <2>2. IsFiniteSet(G) /\ s \notin G /\ IsFor(l) \in BOOLEAN
    BY FS_Subset DEF ForLines, IsFor
  <2> HIDE DEF G, H
  <2>3. Cardinality(H) = Increment(Cardinality(G), IsFor(l))
    BY <2>1, <2>2, OneMoreCounted
  <2> QED
    BY <2>3 DEF Counted, CountLine, G, H
<1> QED
  BY <1>1, <1>2, <1>3, <1>4, <1>5 DEF Counted, ElseIfLines, ElseLines, IfLines, WhileLines, ForLines

\* What has been read of the file stays what it was.
LEMMA TextLineStays ==
  ASSUME data \in Seq(UNION Alphabets), data' \in Seq(UNION Alphabets),
         Len(data) <= Len(data'), \A k \in 1 .. Len(data) : data'[k] = data[k],
         NEW s, NEW l, TextLine(s, l)
  PROVE  TextLine(s, l)'
<1>1. Len(data) \in Nat /\ Len(data') \in Nat
  BY LenProperties
<1>2. /\ l \in Seq(UNION Alphabets) /\ Len(l) \in Nat
      /\ s \in 1 .. Len(data) + 1 /\ s + Len(l) <= Len(data) + 1 /\ FirstOfLine(s)
      /\ \A k \in 1 .. Len(l) : data[s + k - 1] = l[k] /\ l[k] # "newline"
  BY LenProperties DEF TextLine
<1>3. s \in 1 .. Len(data') + 1 /\ s + Len(l) <= Len(data') + 1
  BY <1>1, <1>2
<1>4. FirstOfLine(s)'
  <2>1. CASE s = 1
    BY <2>1 DEF FirstOfLine
  <2>2. CASE s # 1
    <3>1. s - 1 \in 1 .. Len(data)
      BY <1>1, <1>2, <2>2
    <3> QED
      BY <1>2, <2>2, <3>1 DEF FirstOfLine
  <2> QED
    BY <2>1, <2>2
<1>5. ASSUME NEW k \in 1 .. Len(l)
      PROVE  data'[s + k - 1] = l[k]
  <2>1. s + k - 1 \in 1 .. Len(data)
    BY <1>1, <1>2
  <2> QED
    BY <1>2, <2>1
<1> QED
  BY <1>2, <1>3, <1>4, <1>5 DEF TextLine

\* The line is read to its end: by a newline, or by the end of the file.
LEMMA LineIsRead ==
  ASSUME LinesInv, ~ended, CountLine(line),
         data' \in Seq(UNION Alphabets), Len(data) <= Len(data'),
         \A k \in 1 .. Len(data) : data'[k] = data[k],
         \/ ended' /\ data' = data /\ line' = line
         \/ /\ ~ended' /\ line' = <<>> /\ Len(data') = Len(data) + 1
            /\ data'[Len(data) + 1] = "newline"
  PROVE  \E D, L : (LinesRead(D, L) /\ Counted(D, L))'
<1> DEFINE n == Len(data)
           c == LineStart
<1>1. /\ data \in Seq(UNION Alphabets) /\ n \in Nat /\ ended \in BOOLEAN
      /\ line \in Seq(UNION Alphabets) /\ Len(line) \in Nat /\ TextLine(c, line)
      /\ c + Len(line) = n + 1 /\ c \in 1 .. n + 1
  <2>1. data \in Seq(UNION Alphabets) /\ TextLine(c, line) /\ ended \in BOOLEAN
    BY DEF LinesInv
  <2>2. line \in Seq(UNION Alphabets) /\ c \in 1 .. n + 1
    BY <2>1 DEF TextLine
  <2>3. n \in Nat /\ Len(line) \in Nat
    BY <2>1, <2>2, LenProperties
  <2>4. c + Len(line) = n + 1
    BY <2>3 DEF LineStart
  <2> QED
    BY <2>1, <2>2, <2>3, <2>4
<1>2. PICK D, L : LinesRead(D, L) /\ Counted(D, L)
  BY DEF LinesInv
<1>3. PICK s : s = c
  OBVIOUS
<1>4. PICK l : l = line
  OBVIOUS
<1> DEFINE E == D \cup {s}
<1>5. PICK M : M[s] = l /\ \A r \in D : M[r] = L[r]
  <2> DEFINE f == [r \in E |-> IF r = s THEN l ELSE L[r]]
  <2>1. s \notin D
    BY <1>2, <1>3 DEF LinesRead
  <2>2. f[s] = l /\ \A r \in D : f[r] = L[r]
    BY <2>1
  <2> HIDE DEF f
  <2> QED
    BY <2>2
<1>6. IsFiniteSet(D) /\ s \notin D
  BY <1>2, <1>3 DEF LinesRead
<1>7. Counted(E, M)'
  <2> HIDE DEF E
  <2>1. E = D \cup {s}
    BY DEF E
  <2> QED
    BY <1>2, <1>4, <1>5, <1>6, <2>1, LineCounted
<1>8. \A r \in E : TextLine(r, M[r])'
  <2>1. \A r \in E : TextLine(r, M[r])
    BY <1>1, <1>2, <1>3, <1>4, <1>5 DEF LinesRead
  <2> SUFFICES ASSUME NEW r \in E
               PROVE  TextLine(r, M[r])'
    OBVIOUS
  <2>2. PICK m : m = M[r]
    OBVIOUS
  <2>3. TextLine(r, m)
    BY <2>1, <2>2
  <2>4. TextLine(r, m)'
    BY <1>1, <2>3, TextLineStays
  <2> QED
    BY <2>2, <2>4
<1>9. \A r \in E : \/ r + Len(M[r]) <= Len(data') /\ data'[r + Len(M[r])] = "newline"
                   \/ ended' /\ r + Len(M[r]) = Len(data') + 1
  <2> SUFFICES ASSUME NEW r \in E
               PROVE  \/ r + Len(M[r]) <= Len(data') /\ data'[r + Len(M[r])] = "newline"
                      \/ ended' /\ r + Len(M[r]) = Len(data') + 1
    OBVIOUS
  <2>1. CASE r = s
    <3>1. M[r] = line /\ r + Len(M[r]) = n + 1
      BY <1>1, <1>3, <1>4, <1>5, <2>1
    <3> QED
      BY <1>1, <3>1
  <2>2. CASE r \in D
    <3>1. r + Len(L[r]) <= n /\ data[r + Len(L[r])] = "newline" /\ M[r] = L[r]
      BY <1>2, <1>5, <2>2 DEF LinesRead
    <3>2. r \in 1 .. n + 1 /\ L[r] \in Seq(UNION Alphabets)
      BY <1>2, <2>2 DEF LinesRead, TextLine
    <3>3. Len(L[r]) \in Nat
      BY <3>2, LenProperties
    <3>4. Len(data') \in Nat
      BY LenProperties
    <3>5. r + Len(L[r]) \in 1 .. n /\ r + Len(L[r]) <= Len(data')
      BY <1>1, <3>1, <3>2, <3>3, <3>4
    <3> QED
      BY <3>1, <3>5
  <2> QED
    BY <2>1, <2>2
<1>10. \A r \in 1 .. Len(data') + 1 : FirstOfLine(r)' => r \in E \/ r = LineStart'
  <2> SUFFICES ASSUME NEW r \in 1 .. Len(data') + 1, FirstOfLine(r)'
               PROVE  r \in E \/ r = LineStart'
    OBVIOUS
  <2>1. CASE r \in 1 .. n + 1
    <3>1. FirstOfLine(r)
      <4>1. CASE r = 1
        BY <4>1 DEF FirstOfLine
      <4>2. CASE r # 1
        <5>1. r - 1 \in 1 .. n
          BY <1>1, <2>1, <4>2
        <5> QED
          BY <4>2, <5>1 DEF FirstOfLine
      <4> QED
        BY <4>1, <4>2
    <3> QED
      BY <1>2, <1>3, <2>1, <3>1 DEF LinesRead
  <2>2. CASE r \notin 1 .. n + 1
    <3>1. Len(data') # n
      BY <2>2
    <3>2. Len(data') = n + 1 /\ line' = <<>>
      BY <3>1
    <3>3. r = n + 2 /\ LineStart' = n + 2
      BY <1>1, <2>2, <3>2, EmptySeq DEF LineStart
    <3> QED
      BY <3>3
  <2> QED
    BY <2>1, <2>2
<1>11. LineStart' \in E <=> ended'
  <2>1. CASE ended' /\ data' = data /\ line' = line
    BY <1>3, <2>1 DEF LineStart
  <2>2. CASE ~ended' /\ line' = <<>> /\ Len(data') = n + 1
    <3>1. LineStart' = n + 2
      BY <1>1, <2>2, EmptySeq DEF LineStart
    <3>2. \A r \in E : r \in 1 .. n + 1
      BY <1>1, <1>2, <1>3 DEF LinesRead, TextLine
    <3> QED
      BY <1>1, <2>2, <3>1, <3>2
  <2> QED
    BY <2>1, <2>2
<1>12. IsFiniteSet(E)
  BY <1>6, FS_AddElement
<1>13. PICK F : F = E
  OBVIOUS
<1> HIDE DEF E
<1>14. LinesRead(F, M)'
  BY <1>8, <1>9, <1>10, <1>11, <1>12, <1>13 DEF LinesRead
<1> QED
  BY <1>7, <1>13, <1>14

LEMMA NothingCounted ==
  ASSUME NEW L, L = [s \in {1} |-> <<>>]
  PROVE  /\ ElseIfLines({}, L) = {} /\ ElseLines({}, L) = {} /\ IfLines({}, L) = {}
         /\ WhileLines({}, L) = {} /\ ForLines({}, L) = {}
         /\ ElseIfLines({1}, L) = {} /\ ElseLines({1}, L) = {} /\ IfLines({1}, L) = {}
         /\ WhileLines({1}, L) = {} /\ ForLines({1}, L) = {}
<1>1. L[1] = <<>> /\ DOMAIN <<>> = {}
  OBVIOUS
<1>2. ~Parenthesis(<<>>)
  BY <1>1 DEF Parenthesis, Range
<1>3. ~IsElseIf(<<>>) /\ ~IsElse(<<>>) /\ ~IsIf(<<>>) /\ ~IsWhile(<<>>) /\ ~IsFor(<<>>)
  BY <1>1, <1>2 DEF IsElseIf, IsElse, IsIf, IsWhile, IsFor
<1> QED
  BY <1>1, <1>3 DEF ElseIfLines, ElseLines, IfLines, WhileLines, ForLines

LEMMA LinesInvInitially == TextInit => LinesInv
<1> SUFFICES ASSUME TextInit
             PROVE  LinesInv
  OBVIOUS
<1>1. /\ chars = {} /\ data = <<>> /\ line = <<>> /\ ended = TRUE
      /\ <<>> \in Seq(UNION Alphabets) /\ Len(<<>>) = 0
      /\ elseifCount = 0 /\ elseCount = 0 /\ ifCount = 0 /\ whileCount = 0 /\ forCount = 0
  BY EmptySeq DEF TextInit
<1>2. LineStart = 1 /\ 1 .. 0 + 1 = {1} /\ 1 .. 0 = {}
  BY <1>1 DEF LineStart
<1>3. FirstOfLine(1)
  BY DEF FirstOfLine
<1>4. TextLine(1, <<>>)
  BY <1>1, <1>2, <1>3 DEF TextLine
<1>5. PICK L : L = [s \in {1} |-> <<>>]
  OBVIOUS
<1>6. PICK D : D = {1}
  OBVIOUS
<1>7. LinesRead(D, L)
  <2>1. L[1] = <<>> /\ IsFiniteSet(D)
    BY <1>5, <1>6, FS_Singleton
  <2> QED
    BY <1>1, <1>2, <1>4, <1>6, <2>1 DEF LinesRead
<1>8. Counted(D, L)
  BY <1>1, <1>5, <1>6, NothingCounted, FS_EmptySet DEF Counted
<1> QED
  BY <1>1, <1>2, <1>4, <1>7, <1>8 DEF LinesInv

LEMMA LinesOnChar ==
  ASSUME LinesInv, NEW c \in chars, ReadChar(c)
  PROVE  LinesInv'
<1> DEFINE n == Len(data)
<1>1. /\ chars \in Alphabets /\ c \in UNION Alphabets /\ data \in Seq(UNION Alphabets)
      /\ n \in Nat /\ ended = FALSE /\ ended' = FALSE /\ chars' = chars
      /\ TextLine(LineStart, line)
  BY LenProperties DEF LinesInv, ReadChar
<1>2. /\ data' \in Seq(UNION Alphabets) /\ Len(data') = n + 1
      /\ \A k \in 1 .. n : data'[k] = data[k]
      /\ data'[n + 1] = c
  BY <1>1, AppendProperties DEF ReadChar
<1>3. /\ line \in Seq(UNION Alphabets) /\ Len(line) \in Nat
      /\ LineStart \in 1 .. n + 1 /\ LineStart + Len(line) = n + 1
  <2>1. line \in Seq(UNION Alphabets) /\ LineStart \in 1 .. n + 1
    BY <1>1 DEF TextLine
  <2> QED
    BY <1>1, <2>1, LenProperties DEF LineStart
<1>4. CASE c = "newline"
  <2>1. line' = <<>> /\ CountLine(line)
    BY <1>4 DEF ReadChar
  <2>2. \E D, L : (LinesRead(D, L) /\ Counted(D, L))'
    BY <1>1, <1>2, <1>4, <2>1, LineIsRead
  <2>3. LineStart' = n + 2 /\ Len(line') = 0 /\ line' \in Seq(UNION Alphabets) /\ 1 .. 0 = {}
    BY <1>1, <1>2, <2>1, EmptySeq DEF LineStart
  <2>4. n + 2 # 1 /\ n + 2 - 1 = n + 1 /\ n + 2 \in 1 .. (n + 1) + 1
    BY <1>1
  <2>5. FirstOfLine(LineStart)'
    BY <1>2, <1>4, <2>3, <2>4 DEF FirstOfLine
  <2>6. TextLine(LineStart, line)'
    BY <1>1, <1>2, <2>3, <2>4, <2>5 DEF TextLine
  <2> QED
    BY <1>1, <1>2, <2>2, <2>6 DEF LinesInv
<1>5. CASE c # "newline"
  <2>1. line' = Append(line, c) /\ UNCHANGED lineCounts
    BY <1>5 DEF ReadChar
  <2>2. /\ line' \in Seq(UNION Alphabets) /\ Len(line') = Len(line) + 1
        /\ \A k \in 1 .. Len(line) : line'[k] = line[k]
        /\ line'[Len(line) + 1] = c
    BY <1>1, <1>3, <2>1, AppendProperties
  <2>3. LineStart' = LineStart
    BY <1>1, <1>2, <1>3, <2>2 DEF LineStart
  <2>4. PICK s, l : s = LineStart /\ l = line
    OBVIOUS
  <2>5. TextLine(s, l)'
    BY <1>1, <1>2, <2>4, TextLineStays
  <2>6. TextLine(LineStart, line)'
    <3>1. FirstOfLine(s)' /\ \A k \in 1 .. Len(l) : data'[s + k - 1] = l[k] /\ l[k] # "newline"
      BY <2>5 DEF TextLine
    <3>2. ASSUME NEW k \in 1 .. Len(line) + 1
          PROVE  data'[s + k - 1] = line'[k] /\ line'[k] # "newline"
      <4>1. CASE k \in 1 .. Len(line)
        BY <2>2, <2>4, <3>1, <4>1
      <4>2. CASE k = Len(line) + 1
        <5>1. s + k - 1 = n + 1
          BY <1>1, <1>3, <2>4, <4>2
        <5> QED
          BY <1>2, <1>5, <2>2, <4>2, <5>1
      <4> QED
        BY <1>3, <4>1, <4>2
    <3>3. s \in 1 .. (n + 1) + 1 /\ s + (Len(line) + 1) <= (n + 1) + 1
      BY <1>1, <1>3, <2>4
    <3>4. FirstOfLine(LineStart)'
      BY <2>3, <2>4, <3>1 DEF FirstOfLine
    <3> QED
      BY <1>2, <2>2, <2>3, <2>4, <3>2, <3>3, <3>4 DEF TextLine
  <2>7. PICK D, L : LinesRead(D, L) /\ Counted(D, L)
    BY DEF LinesInv
  <2>8. Counted(D, L)'
    BY <2>1, <2>7 DEF Counted, lineCounts, ElseIfLines, ElseLines, IfLines, WhileLines, ForLines
  <2>9. LinesRead(D, L)'
    <3>1. \A r \in D : TextLine(r, L[r])'
      <4> SUFFICES ASSUME NEW r \in D
                   PROVE  TextLine(r, L[r])'
        OBVIOUS
      <4>1. PICK m : m = L[r]
        OBVIOUS
      <4>2. TextLine(r, m)
        BY <2>7, <4>1 DEF LinesRead
      <4>3. TextLine(r, m)'
        BY <1>1, <1>2, <4>2, TextLineStays
      <4> QED
        BY <4>1, <4>3
    <3>2. ASSUME NEW r \in D
          PROVE  r + Len(L[r]) <= Len(data') /\ data'[r + Len(L[r])] = "newline"
      <4>1. r + Len(L[r]) <= n /\ data[r + Len(L[r])] = "newline"
        BY <1>1, <2>7 DEF LinesRead
      <4>2. r \in 1 .. n + 1 /\ L[r] \in Seq(UNION Alphabets)
        BY <2>7 DEF LinesRead, TextLine
      <4>3. Len(L[r]) \in Nat
        BY <4>2, LenProperties
      <4>4. r + Len(L[r]) \in 1 .. n /\ r + Len(L[r]) <= n + 1
        BY <1>1, <4>1, <4>2, <4>3
      <4> QED
        BY <1>2, <4>1, <4>4
    <3>3. ASSUME NEW r \in 1 .. Len(data') + 1, FirstOfLine(r)'
          PROVE  r \in D \/ r = LineStart'
      <4>1. CASE r \in 1 .. n + 1
        <5>1. FirstOfLine(r)
          <6>1. CASE r = 1
            BY <6>1 DEF FirstOfLine
          <6>2. CASE r # 1
            <7>1. r - 1 \in 1 .. n
              BY <1>1, <4>1, <6>2
            <7> QED
              BY <1>2, <3>3, <6>2, <7>1 DEF FirstOfLine
          <6> QED
            BY <6>1, <6>2
        <5> QED
          BY <2>3, <2>7, <4>1, <5>1 DEF LinesRead
      <4>2. CASE r \notin 1 .. n + 1
        <5>1. r - 1 = n + 1 /\ r # 1
          BY <1>1, <1>2, <4>2
        <5> QED
          BY <1>2, <1>5, <3>3, <5>1 DEF FirstOfLine
      <4> QED
        BY <4>1, <4>2
    <3>4. LineStart' \in D <=> ended'
      BY <1>1, <2>3, <2>7 DEF LinesRead
    <3> QED
      BY <2>7, <3>1, <3>2, <3>3, <3>4 DEF LinesRead
  <2> QED
    BY <1>1, <1>2, <2>6, <2>8, <2>9 DEF LinesInv
<1> QED
  BY <1>4, <1>5

LEMMA LinesAtEnd ==
  ASSUME LinesInv, EndOfFile
  PROVE  LinesInv'
<1>1. /\ ~ended /\ ended' = TRUE /\ UNCHANGED <<chars, data, line>> /\ CountLine(line)
  BY DEF EndOfFile
<1>2. /\ chars \in Alphabets \cup {{}} /\ data \in Seq(UNION Alphabets) /\ Len(data) \in Nat
      /\ TextLine(LineStart, line)
  BY LenProperties DEF LinesInv
<1>3. \E D, L : (LinesRead(D, L) /\ Counted(D, L))'
  <2>1. Len(data) <= Len(data') /\ \A k \in 1 .. Len(data) : data'[k] = data[k]
    BY <1>1, <1>2
  <2> QED
    BY <1>1, <1>2, <2>1, LineIsRead
<1>4. TextLine(LineStart, line)'
  BY <1>1, <1>2 DEF TextLine, LineStart, FirstOfLine
<1> QED
  BY <1>1, <1>2, <1>3, <1>4 DEF LinesInv

LEMMA LinesOfNext ==
  ASSUME LinesInv, NextFile
  PROVE  LinesInv'
<1>1. /\ chars' \in Alphabets /\ data' = <<>> /\ line' = <<>> /\ ended' = FALSE
      /\ <<>> \in Seq(UNION Alphabets) /\ Len(<<>>) = 0
      /\ elseifCount' = 0 /\ elseCount' = 0 /\ ifCount' = 0 /\ whileCount' = 0 /\ forCount' = 0
  BY EmptySeq DEF NextFile
<1>2. LineStart' = 1 /\ 1 .. 0 + 1 = {1} /\ 1 .. 0 = {}
  BY <1>1 DEF LineStart
<1>3. TextLine(LineStart, line)'
  BY <1>1, <1>2 DEF TextLine, FirstOfLine
<1>4. PICK L : L = [s \in {1} |-> <<>>]
  OBVIOUS
<1>5. PICK D : D = {}
  OBVIOUS
<1>6. LinesRead(D, L)'
  BY <1>1, <1>2, <1>5, FS_EmptySet DEF LinesRead
<1>7. Counted(D, L)'
  <2>1. /\ ElseIfLines(D, L)' = {} /\ ElseLines(D, L)' = {} /\ IfLines(D, L)' = {}
        /\ WhileLines(D, L)' = {} /\ ForLines(D, L)' = {}
    BY <1>5 DEF ElseIfLines, ElseLines, IfLines, WhileLines, ForLines
  <2> QED
    BY <1>1, <2>1, FS_EmptySet DEF Counted
<1> QED
  BY <1>1, <1>3, <1>6, <1>7 DEF LinesInv

LEMMA LinesInvAlways == TextSpec => []LinesInv
<1>1. LinesInv /\ [TextNext]_textVars => LinesInv'
  <2> SUFFICES ASSUME LinesInv, [TextNext]_textVars
               PROVE  LinesInv'
    OBVIOUS
  <2>1. CASE \E c \in chars : ReadChar(c)
    BY <2>1, LinesOnChar
  <2>2. CASE UNCHANGED textVars
    <3>1. UNCHANGED <<chars, data, line, ended, lineCounts>>
      BY <2>2 DEF textVars
    <3>2. PICK D, L : LinesRead(D, L) /\ Counted(D, L)
      BY DEF LinesInv
    <3>3. LinesRead(D, L)'
      BY <3>1, <3>2 DEF LinesRead, TextLine, LineStart, FirstOfLine
    <3>4. Counted(D, L)'
      BY <3>1, <3>2 DEF Counted, lineCounts, ElseIfLines, ElseLines, IfLines, WhileLines, ForLines
    <3>5. TextLine(LineStart, line)'
      BY <3>1 DEF LinesInv, TextLine, LineStart, FirstOfLine
    <3> QED
      BY <3>1, <3>3, <3>4, <3>5 DEF LinesInv
  <2> QED
    BY <2>1, <2>2, LinesAtEnd, LinesOfNext DEF TextNext
<1> QED
  BY <1>1, LinesInvInitially, PTL DEF TextSpec

\* When a file has been read, its lines begin in D and L has them.
FileRead(D, L) == LinesInv /\ ended /\ LinesRead(D, L) /\ Counted(D, L)

LEMMA LineProperties ==
  ASSUME NEW D, NEW L, FileRead(D, L), NEW s \in D
  PROVE  /\ L[s] \in Seq(UNION Alphabets) /\ Len(L[s]) \in Nat
         /\ Len(data) \in Nat /\ DOMAIN data = 1 .. Len(data)
         /\ s \in 1 .. Len(data) + 1 /\ s + Len(L[s]) <= Len(data) + 1 /\ FirstOfLine(s)
         /\ \A k \in 1 .. Len(L[s]) : data[s + k - 1] = L[s][k] /\ L[s][k] # "newline"
         /\ \A p \in DOMAIN data :
              (p >= s /\ \A q \in s .. p : data[q] # "newline") <=> p \in s .. s + Len(L[s]) - 1
<1>1. /\ L[s] \in Seq(UNION Alphabets) /\ Len(L[s]) \in Nat
      /\ Len(data) \in Nat /\ DOMAIN data = 1 .. Len(data)
      /\ s \in 1 .. Len(data) + 1 /\ s + Len(L[s]) <= Len(data) + 1 /\ FirstOfLine(s)
      /\ \A k \in 1 .. Len(L[s]) : data[s + k - 1] = L[s][k] /\ L[s][k] # "newline"
  BY LenProperties DEF FileRead, LinesInv, LinesRead, TextLine
<1>2. \/ s + Len(L[s]) <= Len(data) /\ data[s + Len(L[s])] = "newline"
      \/ s + Len(L[s]) = Len(data) + 1
  BY DEF FileRead, LinesRead
<1>3. PICK n \in Nat, m \in Nat : n = Len(data) /\ m = Len(L[s])
  BY <1>1
<1>4. ASSUME NEW p \in DOMAIN data, p \in s .. s + m - 1
      PROVE  p >= s /\ \A q \in s .. p : data[q] # "newline"
  <2> SUFFICES ASSUME NEW q \in s .. p
               PROVE  data[q] # "newline"
    BY <1>1, <1>3, <1>4
  <2>1. q - s + 1 \in 1 .. m /\ s + (q - s + 1) - 1 = q
    BY <1>1, <1>3, <1>4
  <2> QED
    BY <1>1, <1>3, <2>1
<1>5. ASSUME NEW p \in DOMAIN data, p >= s, \A q \in s .. p : data[q] # "newline"
      PROVE  p \in s .. s + m - 1
  <2>1. p \in 1 .. n
    BY <1>1, <1>3
  <2>2. ASSUME p >= s + m
        PROVE  FALSE
    <3>1. s + m \in s .. p /\ s + m # n + 1
      BY <1>1, <1>3, <1>5, <2>1, <2>2
    <3> QED
      BY <1>2, <1>3, <1>5, <3>1
  <2> QED
    BY <1>1, <1>3, <1>5, <2>1, <2>2
<1> QED
  BY <1>1, <1>3, <1>4, <1>5

\* There are k blanks from place s on.
Blanks(s, k) == \A q \in s .. s + k - 1 : data[q] = " "

\* At place s is a word, no parentheses and no end of a line.
WordAt(s) == s <= Len(data) /\ data[s] \notin {"newline", "(x)", "(;;)"}

\* The words are in the text from place s on, after blanks, n places for both.
AfterBlanks(s, words, n) ==
  \E k \in Nat :
    /\ k + Len(words) <= n
    /\ Blanks(s, k)
    /\ \A j \in 1 .. Len(words) : data[(s + k) + j - 1] = words[j]

\* So are words that a line begins with.
LEMMA BeginsInText ==
  ASSUME NEW D, NEW L, FileRead(D, L), NEW s \in D,
         NEW words, NEW m \in Nat, m = Len(words), Begins(L[s], words)
  PROVE  AfterBlanks(s, words, Len(L[s]))
<1>1. PICK l : l = L[s]
  OBVIOUS
<1>2. /\ l \in Seq(UNION Alphabets) /\ Len(l) \in Nat /\ s \in Int
      /\ \A k \in 1 .. Len(l) : data[s + k - 1] = l[k]
  BY <1>1, LineProperties
<1>3. PICK k \in 0 .. Len(l) - m :
        /\ \A j \in 1 .. k : l[j] = " "
        /\ SubSeq(l, k + 1, k + m) = words
  BY <1>1 DEF Begins
<1>4. k \in Nat /\ k + m <= Len(l)
  BY <1>2
<1>5. ASSUME NEW q \in s .. s + k - 1
      PROVE  data[q] = " "
  <2>1. q - s + 1 \in 1 .. k /\ q - s + 1 \in 1 .. Len(l) /\ s + (q - s + 1) - 1 = q
    BY <1>2, <1>4
  <2> QED
    BY <1>2, <1>3, <2>1
<1>6. ASSUME NEW j \in 1 .. m
      PROVE  data[(s + k) + j - 1] = words[j]
  <2> DEFINE a == k + 1
             z == k + m
  <2>1. a \in Int /\ z \in Int /\ \A q \in a .. z : q \in 1 .. Len(l)
    BY <1>4
  <2>2. \A q \in a .. z : l[q] \in UNION Alphabets
    BY <1>2, <2>1, ElementOfSeq
  <2>3. j \in 1 .. z - a + 1 /\ a + j - 1 = k + j /\ k + j \in 1 .. Len(l) /\ s + (k + j) - 1 = (s + k) + j - 1
    BY <1>2, <1>4
  <2> HIDE DEF a, z
  <2>4. \A q \in 1 .. z - a + 1 : SubSeq(l, a, z)[q] = l[a + q - 1]
    BY <2>1, <2>2, SubSeqProperties
  <2>5. SubSeq(l, a, z)[j] = l[k + j]
    BY <2>3, <2>4
  <2>6. words[j] = l[k + j]
    BY <1>3, <2>5 DEF a, z
  <2> QED
    BY <1>2, <2>3, <2>6
<1>7. Blanks(s, k)
  BY <1>5 DEF Blanks
<1> QED
  BY <1>1, <1>4, <1>6, <1>7 DEF AfterBlanks

\* The words that the text has after blanks, the line begins with.
LEMMA LineBegins ==
  ASSUME NEW D, NEW L, FileRead(D, L), NEW s \in D, NEW b \in Nat, Blanks(s, b),
         NEW words \in Seq(UNION Alphabets), Len(words) >= 1,
         (s + b) + Len(words) - 1 <= Len(data),
         \A j \in 1 .. Len(words) : data[(s + b) + j - 1] = words[j] /\ words[j] # "newline"
  PROVE  Begins(L[s], words)
<1>1. PICK l : l = L[s]
  OBVIOUS
<1>2. /\ l \in Seq(UNION Alphabets) /\ Len(l) \in Nat /\ s \in Int /\ s >= 1
      /\ Len(data) \in Nat /\ DOMAIN data = 1 .. Len(data)
      /\ \A k \in 1 .. Len(l) : data[s + k - 1] = l[k]
      /\ \A p \in DOMAIN data :
           (p >= s /\ \A q \in s .. p : data[q] # "newline") <=> p \in s .. s + Len(l) - 1
  <2>1. /\ L[s] \in Seq(UNION Alphabets) /\ Len(L[s]) \in Nat
        /\ Len(data) \in Nat /\ DOMAIN data = 1 .. Len(data)
        /\ s \in 1 .. Len(data) + 1 /\ s + Len(L[s]) <= Len(data) + 1 /\ FirstOfLine(s)
        /\ \A k \in 1 .. Len(L[s]) : data[s + k - 1] = L[s][k] /\ L[s][k] # "newline"
        /\ \A p \in DOMAIN data :
             (p >= s /\ \A q \in s .. p : data[q] # "newline") <=> p \in s .. s + Len(L[s]) - 1
    BY LineProperties
  <2>2. s \in Int /\ s >= 1
    BY <2>1
  <2> QED
    BY <1>1, <2>1, <2>2
<1>3. PICK m \in Nat : m = Len(words) /\ m >= 1
  BY LenProperties
<1>4. (s + b) + m - 1 \in DOMAIN data /\ (s + b) + m - 1 >= s
  BY <1>2, <1>3
<1>5. \A q \in s .. (s + b) + m - 1 : data[q] # "newline"
  <2> SUFFICES ASSUME NEW q \in s .. (s + b) + m - 1
               PROVE  data[q] # "newline"
    OBVIOUS
  <2>1. CASE q \in s .. s + b - 1
    BY <2>1 DEF Blanks
  <2>2. CASE q \notin s .. s + b - 1
    <3>1. q - (s + b) + 1 \in 1 .. m /\ (s + b) + (q - (s + b) + 1) - 1 = q
      BY <1>2, <1>3, <2>2
    <3> QED
      BY <1>3, <3>1
  <2> QED
    BY <2>1, <2>2
<1>6. b + m <= Len(l)
  <2>1. (s + b) + m - 1 \in s .. s + Len(l) - 1
    BY <1>2, <1>4, <1>5
  <2> QED
    BY <1>2, <1>3, <2>1
<1>7. SubSeq(l, b + 1, b + m) = words
  <2> DEFINE a == b + 1
             z == b + m
  <2>0. a \in Int /\ z \in Int /\ z - a + 1 = m /\ a <= z /\ \A k \in a .. z : k \in 1 .. Len(l)
    BY <1>2, <1>3, <1>6
  <2>1. \A k \in a .. z : l[k] \in UNION Alphabets
    BY <1>2, <2>0, ElementOfSeq
  <2>4. ASSUME NEW k \in 1 .. m
        PROVE  l[a + k - 1] = words[k]
    <3>1. a + k - 1 = b + k /\ b + k \in 1 .. Len(l) /\ s + (b + k) - 1 = (s + b) + k - 1
      BY <1>2, <1>3, <1>6
    <3>2. data[s + (b + k) - 1] = l[b + k]
      BY <1>2, <3>1
    <3> QED
      BY <1>3, <3>1, <3>2
  <2> HIDE DEF a, z
  <2>2. /\ SubSeq(l, a, z) \in Seq(UNION Alphabets)
        /\ Len(SubSeq(l, a, z)) = IF a <= z THEN z - a + 1 ELSE 0
        /\ \A k \in 1 .. z - a + 1 : SubSeq(l, a, z)[k] = l[a + k - 1]
    BY <2>0, <2>1, SubSeqProperties
  <2>3. Len(SubSeq(l, a, z)) = m
    BY <2>0, <2>2
  <2>5. SubSeq(l, a, z) = words
    BY <1>3, <2>0, <2>2, <2>3, <2>4, SeqEqual
  <2> QED
    BY <2>5 DEF a, z
<1>8. b \in 0 .. Len(l) - m /\ \A q \in 1 .. b : l[q] = " "
  <2>1. b \in 0 .. Len(l) - m
    BY <1>2, <1>3, <1>6
  <2>2. ASSUME NEW q \in 1 .. b
        PROVE  l[q] = " "
    <3>1. s + q - 1 \in s .. s + b - 1 /\ q \in 1 .. Len(l)
      BY <1>2, <1>3, <1>6
    <3> QED
      BY <1>2, <3>1 DEF Blanks
  <2> QED
    BY <2>1, <2>2
<1>9. Begins(L[s], words)
  BY <1>1, <1>3, <1>7, <1>8 DEF Begins
<1> QED
  BY <1>9

LEMMA RestOfLineProperties ==
  ASSUME NEW D, NEW L, FileRead(D, L), NEW s \in D,
         NEW k \in DOMAIN data, k \in s .. s + Len(L[s]) - 1
  PROVE  \A p : p \in RestOfLine(k) <=> p \in k + 1 .. s + Len(L[s]) - 1
<1> SUFFICES ASSUME NEW p
             PROVE  p \in RestOfLine(k) <=> p \in k + 1 .. s + Len(L[s]) - 1
  OBVIOUS
<1>1. /\ Len(L[s]) \in Nat /\ s \in 1 .. Len(data) + 1 /\ s + Len(L[s]) <= Len(data) + 1
      /\ Len(data) \in Nat /\ DOMAIN data = 1 .. Len(data)
      /\ \A q \in DOMAIN data :
           (q >= s /\ \A r \in s .. q : data[r] # "newline") <=> q \in s .. s + Len(L[s]) - 1
  BY LineProperties
<1>2. PICK n \in Nat, m \in Nat : n = Len(data) /\ m = Len(L[s])
  BY <1>1
<1>3. k \in s .. s + m - 1 /\ k \in 1 .. n /\ k >= s
  BY <1>1, <1>2
<1>4. \A r \in s .. k : data[r] # "newline"
  BY <1>1
<1>5. p \in RestOfLine(k) => p \in k + 1 .. s + m - 1
  <2> SUFFICES ASSUME p \in RestOfLine(k)
               PROVE  p \in k + 1 .. s + m - 1
    OBVIOUS
  <2>1. p \in 1 .. n /\ p > k /\ \A r \in k .. p : data[r] # "newline"
    BY <1>1, <1>2 DEF RestOfLine
  <2>2. ASSUME NEW r \in s .. p
        PROVE  data[r] # "newline"
    <3>1. r \in s .. k \/ r \in k .. p
      BY <1>1, <1>2, <1>3, <2>1
    <3> QED
      BY <1>4, <2>1, <3>1
  <2>3. p >= s /\ p \in DOMAIN data
    BY <1>1, <1>2, <1>3, <2>1
  <2>4. p \in s .. s + m - 1
    BY <1>1, <1>2, <2>2, <2>3
  <2> QED
    BY <1>1, <1>2, <1>3, <2>1, <2>4
<1>6. p \in k + 1 .. s + m - 1 => p \in RestOfLine(k)
  <2> SUFFICES ASSUME p \in k + 1 .. s + m - 1
               PROVE  p \in RestOfLine(k)
    OBVIOUS
  <2>1. p \in 1 .. n /\ p \in s .. s + m - 1 /\ p > k
    BY <1>1, <1>2, <1>3
  <2>2. \A r \in s .. p : data[r] # "newline"
    BY <1>1, <1>2, <2>1
  <2>3. \A r \in k .. p : r \in s .. p
    BY <1>1, <1>3, <2>1
  <2> QED
    BY <1>1, <1>2, <2>1, <2>2, <2>3 DEF RestOfLine
<1> QED
  BY <1>2, <1>5, <1>6

\* A line has parentheses if there are some after the first word on it.
LEMMA ConditionOfLine ==
  ASSUME NEW D, NEW L, FileRead(D, L), NEW s \in D,
         NEW b \in Nat, Blanks(s, b), WordAt(s + b)
  PROVE  Condition(s + b) <=> Parenthesis(L[s])
<1>1. /\ L[s] \in Seq(UNION Alphabets) /\ Len(L[s]) \in Nat
      /\ Len(data) \in Nat /\ DOMAIN data = 1 .. Len(data)
      /\ s \in 1 .. Len(data) + 1 /\ s + Len(L[s]) <= Len(data) + 1
      /\ \A k \in 1 .. Len(L[s]) : data[s + k - 1] = L[s][k]
      /\ \A p \in DOMAIN data :
           (p >= s /\ \A q \in s .. p : data[q] # "newline") <=> p \in s .. s + Len(L[s]) - 1
  BY LineProperties
<1>2. DOMAIN L[s] = 1 .. Len(L[s])
  BY <1>1, LenProperties
<1>0. s \in Nat \ {0} /\ s + b \in Nat
  <2>1. s \in 1 .. Len(data) + 1 /\ Len(data) \in Nat
    BY <1>1
  <2> QED
    BY <2>1
<1>3. PICK m, n, p : /\ m \in Nat /\ n \in Nat /\ p \in Nat
                     /\ m = Len(L[s]) /\ n = Len(data) /\ p = s + b
  BY <1>0, <1>1
<1>4. p \in 1 .. n /\ data[p] \notin {"newline", "(x)", "(;;)"}
  <2>1. WordAt(p)
    BY <1>3
  <2>2. p <= n /\ data[p] \notin {"newline", "(x)", "(;;)"}
    BY <1>3, <2>1 DEF WordAt
  <2>4. p <= n
    BY <2>2
  <2>3. p \in 1 .. n
    BY <1>0, <1>3, <2>4
  <2> QED
    BY <2>2, <2>3
<1>5. \A q \in s .. p : data[q] # "newline"
  <2> SUFFICES ASSUME NEW q \in s .. p
               PROVE  data[q] # "newline"
    OBVIOUS
  <2>1. q = p \/ q \in s .. s + b - 1
    BY <1>0, <1>3
  <2>2. q \in s .. s + b - 1 => data[q] = " "
    BY DEF Blanks
  <2> QED
    BY <1>4, <2>1, <2>2
<1>6. p \in DOMAIN data /\ p >= s
  <2>1. p >= s
    BY <1>0, <1>3
  <2>2. DOMAIN data = 1 .. n
    BY <1>1, <1>3
  <2> QED
    BY <1>4, <2>1, <2>2
<1>7. p \in s .. s + m - 1
  BY <1>1, <1>3, <1>5, <1>6
<1>8. \A q : q \in RestOfLine(p) <=> q \in p + 1 .. s + m - 1
  BY <1>3, <1>6, <1>7, RestOfLineProperties
<1>9. Condition(p) <=> \E q \in p + 1 .. s + m - 1 : data[q] \in {"(x)", "(;;)"}
  BY <1>8 DEF Condition
<1>10. Parenthesis(L[s]) <=> \E k \in 1 .. m : L[s][k] \in {"(x)", "(;;)"}
  BY <1>2, <1>3 DEF Parenthesis, Range
<1>11. ASSUME NEW k \in 1 .. m, L[s][k] \in {"(x)", "(;;)"}
       PROVE  s + k - 1 \in p + 1 .. s + m - 1 /\ data[s + k - 1] \in {"(x)", "(;;)"}
  <2>1. data[s + k - 1] \in {"(x)", "(;;)"}
    BY <1>1, <1>3, <1>11
  <2>2. s + k - 1 \in s .. s + b - 1 \/ s + k - 1 = p \/ s + k - 1 \in p + 1 .. s + m - 1
    BY <1>1, <1>3
  <2>3. s + k - 1 \in s .. s + b - 1 => data[s + k - 1] = " "
    BY DEF Blanks
  <2> QED
    BY <1>4, <2>1, <2>2, <2>3
<1>12. ASSUME NEW q \in p + 1 .. s + m - 1, data[q] \in {"(x)", "(;;)"}
       PROVE  \E k \in 1 .. m : L[s][k] \in {"(x)", "(;;)"}
  <2>1. PICK k \in 1 .. m : s + k - 1 = q
    <3>1. q - s + 1 \in 1 .. m /\ s + (q - s + 1) - 1 = q
      BY <1>1, <1>3, <1>7
    <3> QED
      BY <3>1
  <2>2. data[q] = L[s][k]
    BY <1>1, <1>3, <2>1
  <2> QED
    BY <1>12, <2>2
<1> QED
  BY <1>3, <1>9, <1>10, <1>11, <1>12

\* A word that a line begins with is in the text, after blanks.
LEMMA WordOfLine ==
  ASSUME NEW D, NEW L, FileRead(D, L), NEW s \in D,
         NEW w, NEW words, words = <<w>>, Begins(L[s], words)
  PROVE  s \in Nat \ {0} /\ \E k \in Nat : s + k \in At(w) /\ Blanks(s, k)
<1>1. Len(words) = 1 /\ words[1] = w
  OBVIOUS
<1>2. PICK o \in Nat : o = Len(words) /\ o = 1
  BY <1>1
<1>3. AfterBlanks(s, words, Len(L[s]))
  BY <1>2, BeginsInText
<1>4. PICK k \in Nat :
        /\ k + 1 <= Len(L[s]) /\ Blanks(s, k)
        /\ \A j \in 1 .. 1 : data[(s + k) + j - 1] = words[j]
  BY <1>2, <1>3 DEF AfterBlanks
<1>5. /\ Len(L[s]) \in Nat /\ s \in 1 .. Len(data) + 1 /\ s + Len(L[s]) <= Len(data) + 1
      /\ Len(data) \in Nat /\ DOMAIN data = 1 .. Len(data)
  BY LineProperties
<1>6. PICK n \in Nat, m \in Nat : n = Len(data) /\ m = Len(L[s])
  BY <1>5
<1>7. /\ s + k \in 1 .. n /\ (s + k) + 1 - 1 = s + k /\ 1 \in 1 .. 1
      /\ s \in Nat \ {0}
  BY <1>4, <1>5, <1>6
<1>8. data[s + k] = w
  BY <1>1, <1>4, <1>7
<1> QED
  BY <1>4, <1>5, <1>6, <1>7, <1>8 DEF At

BeginsElseIf(l) == Begins(l, <<"else", " ", "if">>)

LEMMA WordsOfElseIf ==
  ASSUME NEW D, NEW L, FileRead(D, L), NEW s \in D, BeginsElseIf(L[s])
  PROVE  s \in Nat \ {0} /\ \E k \in Nat : s + k \in ElseIfs /\ Blanks(s, k)
<1>1. PICK words : words = <<"else", " ", "if">>
  OBVIOUS
<1>2. 3 \in Nat /\ 3 = Len(words)
  BY <1>1
<1>3. words[1] = "else" /\ words[2] = " " /\ words[3] = "if"
  BY <1>1
<1>4. Begins(L[s], words)
  BY <1>1 DEF BeginsElseIf
<1>5. PICK o \in Nat : o = Len(words) /\ o = 3
  BY <1>2
<1>6. AfterBlanks(s, words, Len(L[s]))
  BY <1>4, <1>5, BeginsInText
<1>7. PICK k \in Nat :
        /\ k + 3 <= Len(L[s]) /\ Blanks(s, k)
        /\ \A j \in 1 .. 3 : data[(s + k) + j - 1] = words[j]
  BY <1>5, <1>6 DEF AfterBlanks
<1>8. /\ Len(L[s]) \in Nat /\ s \in 1 .. Len(data) + 1 /\ s + Len(L[s]) <= Len(data) + 1
      /\ Len(data) \in Nat /\ DOMAIN data = 1 .. Len(data)
  BY LineProperties
<1>9. PICK n \in Nat, m \in Nat : n = Len(data) /\ m = Len(L[s])
  BY <1>8
<1>10. PICK p \in Nat : p = s + k
  BY <1>7, <1>8
<1>16. k + 3 <= m /\ s \in 1 .. n + 1 /\ s + m <= n + 1
  BY <1>7, <1>8, <1>9
<1>11. /\ p \in 1 .. n /\ p + 1 \in 1 .. n /\ p + 2 \in 1 .. n /\ s \in Nat \ {0}
       /\ p + 1 - 1 = p /\ p + 2 - 1 = p + 1 /\ p + 3 - 1 = p + 2
       /\ 1 \in 1 .. 3 /\ 2 \in 1 .. 3 /\ 3 \in 1 .. 3
  BY <1>10, <1>16
<1>12. data[p] = words[1] /\ data[p + 1] = words[2] /\ data[p + 2] = words[3]
  BY <1>7, <1>10, <1>11
<1>13. p \in At("else") /\ p + 1 \in At(" ") /\ p + 2 \in At("if")
  BY <1>3, <1>8, <1>9, <1>11, <1>12 DEF At
<1>14. p \in ElseIfs
  BY <1>13 DEF ElseIfs
<1> QED
  BY <1>7, <1>10, <1>11, <1>14

\* A line begins wherever the text has the beginning of one.
LEMMA LineBeginsThere ==
  ASSUME NEW D, NEW L, FileRead(D, L), NEW s \in DOMAIN data, FirstOfLine(s)
  PROVE  s \in D /\ Len(data) \in Nat /\ DOMAIN data = 1 .. Len(data) /\ s \in 1 .. Len(data)
<1>1. Len(data) \in Nat /\ DOMAIN data = 1 .. Len(data)
  BY LenProperties DEF FileRead, LinesInv
<1>2. s \in 1 .. Len(data) + 1
  BY <1>1
<1> QED
  BY <1>1, <1>2 DEF FileRead, LinesRead

\* No parentheses and no end of a line.
IsWord(w) == w \notin {"newline", "(x)", "(;;)"}

\* The line that a place leads is that of the blanks before it.
LEMMA LineOfPlace ==
  ASSUME NEW D, NEW L, FileRead(D, L), NEW p \in DOMAIN data, Leads(p)
  PROVE  /\ p \in Nat \ {0} /\ p <= Len(data) /\ Len(data) \in Nat /\ DOMAIN data = 1 .. Len(data)
         /\ \E s \in D, b \in Nat : s \in Nat \ {0} /\ s + b = p /\ Blanks(s, b)
<1>1. Len(data) \in Nat /\ DOMAIN data = 1 .. Len(data)
  BY LenProperties DEF FileRead, LinesInv
<1>2. PICK s \in 1 .. p : FirstOfLine(s) /\ \A q \in s .. p - 1 : data[q] = " "
  BY DEF Leads
<1>3. PICK n \in Nat : n = Len(data)
  BY <1>1
<1>4. p \in 1 .. n
  BY <1>1, <1>3
<1>5. /\ s \in 1 .. n /\ s \in Nat \ {0} /\ p \in Nat \ {0} /\ p <= n
      /\ p - s \in Nat /\ s + (p - s) = p /\ s + (p - s) - 1 = p - 1
  BY <1>4
<1>6. s \in D
  BY <1>1, <1>2, <1>3, <1>5, LineBeginsThere
<1>7. PICK b \in Nat : s + b = p /\ s + b - 1 = p - 1
  BY <1>5
<1>8. Blanks(s, b)
  BY <1>2, <1>7 DEF Blanks
<1> QED
  BY <1>1, <1>3, <1>5, <1>6, <1>7, <1>8

\* A word that leads its line, the line begins with.
LEMMA LineOfWord ==
  ASSUME NEW D, NEW L, FileRead(D, L), NEW w, IsWord(w),
         NEW s \in D, NEW b \in Nat, Blanks(s, b), s + b \in At(w)
  PROVE  Begins(L[s], <<w>>) /\ (Condition(s + b) <=> Parenthesis(L[s]))
<1>1. s + b \in DOMAIN data /\ data[s + b] = w
  BY DEF At
<1>2. Len(data) \in Nat /\ DOMAIN data = 1 .. Len(data) /\ s \in 1 .. Len(data) + 1
  BY LineProperties
<1>3. s + b <= Len(data) /\ s + b \in 1 .. Len(data)
  BY <1>1, <1>2
<1>4. WordAt(s + b)
  BY <1>1, <1>3 DEF WordAt, IsWord
<1>5. Condition(s + b) <=> Parenthesis(L[s])
  BY <1>4, ConditionOfLine
<1>6. data \in Seq(UNION Alphabets)
  BY DEF FileRead, LinesInv
<1>7. w \in UNION Alphabets
  BY <1>1, <1>3, <1>6, ElementOfSeq
<1>8. PICK words : words = <<w>>
  OBVIOUS
<1>9. words \in Seq(UNION Alphabets) /\ Len(words) = 1 /\ words[1] = w
  BY <1>7, <1>8
<1>10. w # "newline"
  BY DEF IsWord
<1>11. ASSUME NEW j \in 1 .. Len(words)
       PROVE  data[(s + b) + j - 1] = words[j] /\ words[j] # "newline"
  <2>1. j = 1 /\ (s + b) + j - 1 = s + b
    BY <1>2, <1>9
  <2> QED
    BY <1>1, <1>9, <1>10, <2>1
<1>12. Len(words) >= 1 /\ (s + b) + Len(words) - 1 <= Len(data)
  BY <1>2, <1>3, <1>9
<1>13. Begins(L[s], words)
  BY <1>9, <1>11, <1>12, LineBegins
<1> QED
  BY <1>5, <1>8, <1>13

LEMMA LineOfElseIf ==
  ASSUME NEW D, NEW L, FileRead(D, L), NEW s \in D, NEW b \in Nat, Blanks(s, b), s + b \in ElseIfs
  PROVE  Begins(L[s], <<"else", " ", "if">>)
<1>1. PICK p \in Nat : p = s + b
  BY LineProperties
<1>2. /\ p \in DOMAIN data /\ data[p] = "else"
      /\ p + 1 \in DOMAIN data /\ data[p + 1] = " "
      /\ p + 2 \in DOMAIN data /\ data[p + 2] = "if"
  BY <1>1 DEF ElseIfs, At
<1>4. data \in Seq(UNION Alphabets)
  BY DEF FileRead, LinesInv
<1>5. Len(data) \in Nat /\ DOMAIN data = 1 .. Len(data)
  BY <1>4, LenProperties
<1>6. p \in 1 .. Len(data) /\ p + 1 \in 1 .. Len(data) /\ p + 2 \in 1 .. Len(data)
  BY <1>2, <1>5
<1>7. data[p] \in UNION Alphabets /\ data[p + 1] \in UNION Alphabets /\ data[p + 2] \in UNION Alphabets
  BY <1>4, <1>6, ElementOfSeq
<1>8. PICK words : words = <<data[p], data[p + 1], data[p + 2]>>
  OBVIOUS
<1>9. /\ words \in Seq(UNION Alphabets) /\ Len(words) = 3
      /\ words[1] = data[p] /\ words[2] = data[p + 1] /\ words[3] = data[p + 2]
  BY <1>7, <1>8
<1>10. Len(words) >= 1 /\ p + Len(words) - 1 <= Len(data)
  BY <1>5, <1>6, <1>9
<1>11. data[p] # "newline" /\ data[p + 1] # "newline" /\ data[p + 2] # "newline"
  BY <1>2
<1>12. ASSUME NEW j \in 1 .. Len(words)
       PROVE  data[p + j - 1] = words[j] /\ words[j] # "newline"
  <2>1. /\ p + 1 - 1 = p /\ p + 2 - 1 = p + 1 /\ p + 3 - 1 = p + 2
        /\ j = 1 \/ j = 2 \/ j = 3
    BY <1>5, <1>6, <1>9
  <2> QED
    BY <1>9, <1>11, <2>1
<1>13. Begins(L[s], words)
  BY <1>1, <1>9, <1>10, <1>12, LineBegins
<1>14. words = <<"else", " ", "if">>
  BY <1>2, <1>8
<1> QED
  BY <1>13, <1>14

\* The place where a line begins.
LEMMA LineStartsThere ==
  ASSUME NEW D, NEW L, FileRead(D, L), NEW s \in D
  PROVE  s \in Nat \ {0} /\ FirstOfLine(s)
<1>1. s \in 1 .. Len(data) + 1 /\ Len(data) \in Nat /\ FirstOfLine(s)
  BY LineProperties
<1>2. s \in Nat \ {0}
  BY <1>1
<1> QED
  BY <1>1, <1>2

\* Of a line, only one place that is no blank has nothing but blanks before it.
LEMMA NeitherIsLess ==
  ASSUME NEW a \in Nat, NEW b \in Nat, ~(a < b), ~(b < a)
  PROVE  a = b
OBVIOUS

LEMMA BeforeLeader ==
  ASSUME NEW s \in Nat, NEW a \in Nat, NEW b \in Nat, Blanks(s, b), a < b
  PROVE  data[s + a] = " "
<1>1. s + a \in s .. s + b - 1
  OBVIOUS
<1> QED
  BY <1>1 DEF Blanks

LEMMA OneLeader ==
  ASSUME NEW s \in Nat, NEW a \in Nat, NEW b \in Nat, Blanks(s, a), Blanks(s, b),
         data[s + a] # " ", data[s + b] # " "
  PROVE  a = b
<1>1. ~(a < b) /\ ~(b < a)
  BY BeforeLeader
<1> QED
  BY <1>1, NeitherIsLess

\* Of a place, only one line is the one it leads.
LEMMA OneLineLed ==
  ASSUME NEW s \in Nat \ {0}, NEW t \in Nat \ {0}, NEW a \in Nat, NEW b \in Nat,
         s + a = t + b, Blanks(s, a), FirstOfLine(t), s < t
  PROVE  FALSE
<1>1. t # 1 /\ t - 1 \in s .. s + a - 1
  OBVIOUS
<1>2. data[t - 1] = " "
  BY <1>1 DEF Blanks
<1>3. data[t - 1] = "newline"
  BY <1>1 DEF FirstOfLine
<1> QED
  BY <1>2, <1>3

(***************************************************************************)
(* Lines G and places P, no blanks, correspond to each other when each     *)
(* line is led by one of the places and each place leads one of the lines. *)
(***************************************************************************)
LEMMA LinesAreLed ==
  ASSUME NEW D, NEW L, FileRead(D, L), NEW G \in SUBSET D, NEW P, \A p \in P : data[p] # " ",
         \A s \in G : \E b \in Nat : s + b \in P /\ Blanks(s, b),
         \A p \in P : \E s \in G, b \in Nat : s + b = p /\ Blanks(s, b)
  PROVE  Cardinality(G) = Cardinality(P)
<1> DEFINE Leader(s, p) == \E b \in Nat : s + b = p /\ Blanks(s, b)
           lead == [s \in G |-> CHOOSE p \in P : Leader(s, p)]
<1>1. \A s \in D : s \in Nat \ {0} /\ FirstOfLine(s)
  BY LineStartsThere
<1>2. \A s \in G : \E p \in P : Leader(s, p)
  OBVIOUS
<1>3. \A s \in G : lead[s] \in P /\ Leader(s, lead[s])
  BY <1>2
<1>4. ASSUME NEW s \in G, NEW t \in G, lead[s] = lead[t]
      PROVE  s = t
  <2>1. PICK a \in Nat : s + a = lead[s] /\ Blanks(s, a)
    BY <1>3
  <2>2. PICK b \in Nat : t + b = lead[s] /\ Blanks(t, b)
    BY <1>3, <1>4
  <2>3. s \in Nat \ {0} /\ t \in Nat \ {0} /\ FirstOfLine(s) /\ FirstOfLine(t)
    BY <1>1
  <2> HIDE DEF lead
  <2>4. s + a = t + b
    BY <2>1, <2>2
  <2>5. ~(s < t)
    BY <2>1, <2>3, <2>4, OneLineLed
  <2>6. ~(t < s)
    BY <2>2, <2>3, <2>4, OneLineLed
  <2> QED
    BY <2>3, <2>5, <2>6, NeitherIsLess
<1>5. ASSUME NEW p \in P
      PROVE  \E s \in G : lead[s] = p
  <2>1. PICK s \in G, b \in Nat : s + b = p /\ Blanks(s, b)
    OBVIOUS
  <2>2. PICK a \in Nat : s + a = lead[s] /\ Blanks(s, a)
    BY <1>3
  <2>3. data[s + b] # " " /\ data[s + a] # " " /\ s \in Nat
    BY <1>1, <1>3, <2>1, <2>2
  <2> HIDE DEF lead
  <2>4. a = b
    BY <2>1, <2>2, <2>3, OneLeader
  <2> QED
    BY <2>1, <2>2, <2>4
<1>6. lead \in Injection(G, P) /\ lead \in Surjection(G, P)
  BY <1>3, <1>4, <1>5 DEF Injection, Surjection, IsInjective
<1>7. IsFiniteSet(G)
  BY FS_Subset DEF FileRead, LinesRead
<1> HIDE DEF lead
<1>8. IsFiniteSet(P)
  BY <1>6, <1>7, FS_Surjection
<1> QED
  BY <1>6, <1>8, FS_Injection

\* A place on a line that begins there leads it.
LEMMA LeaderLeads ==
  ASSUME NEW D, NEW L, FileRead(D, L), NEW s \in D, NEW b \in Nat, Blanks(s, b)
  PROVE  Leads(s + b)
<1>1. s \in 1 .. Len(data) + 1 /\ Len(data) \in Nat /\ FirstOfLine(s)
  BY LineProperties
<1>2. s \in 1 .. s + b
  BY <1>1
<1>3. PICK p : p = s + b
  OBVIOUS
<1>4. \A q \in s .. p - 1 : data[q] = " "
  <2>1. \A q \in s .. s + b - 1 : data[q] = " "
    BY DEF Blanks
  <2>2. s .. s + b - 1 = s .. p - 1
    BY <1>1, <1>3
  <2> QED
    BY <2>1, <2>2
<1>5. Leads(p)
  BY <1>1, <1>2, <1>3, <1>4 DEF Leads
<1> QED
  BY <1>3, <1>5

\* The lines that begin with a word, and have parentheses, are led by that word.
WordLines(D, L, w) == {s \in D : Begins(L[s], <<w>>) /\ Parenthesis(L[s])}

LEMMA WordsAreLines ==
  ASSUME NEW D, NEW L, FileRead(D, L), NEW w, IsWord(w), w # " "
  PROVE  Cardinality(WordLines(D, L, w)) = Cardinality(Led(At(w)))
<1> DEFINE G == {s \in D : Begins(L[s], <<w>>) /\ Parenthesis(L[s])}
           P == Led(At(w))
<1>1. G \in SUBSET D /\ \A p \in P : data[p] # " "
  BY DEF Led, At
<1>2. ASSUME NEW s \in G
      PROVE  \E b \in Nat : s + b \in P /\ Blanks(s, b)
  <2>1. PICK words : words = <<w>>
    OBVIOUS
  <2>2. PICK b \in Nat : s + b \in At(w) /\ Blanks(s, b)
    BY <2>1, WordOfLine
  <2>3. Condition(s + b) /\ Leads(s + b)
    BY <2>2, LineOfWord, LeaderLeads
  <2> QED
    BY <2>2, <2>3 DEF Led
<1>3. ASSUME NEW p \in P
      PROVE  \E s \in G, b \in Nat : s + b = p /\ Blanks(s, b)
  <2>1. p \in DOMAIN data /\ p \in At(w) /\ Leads(p) /\ Condition(p)
    BY DEF Led, At
  <2>2. PICK s \in D, b \in Nat : s + b = p /\ Blanks(s, b)
    BY <2>1, LineOfPlace
  <2>3. s \in G
    BY <2>1, <2>2, LineOfWord
  <2> QED
    BY <2>2, <2>3
<1> HIDE DEF G, P
<1>4. Cardinality(G) = Cardinality(P)
  BY <1>1, <1>2, <1>3, LinesAreLed
<1> QED
  BY <1>4 DEF G, P, WordLines

LEMMA ElseIfIsElse ==
  ASSUME NEW s, NEW b, s + b \in ElseIfs
  PROVE  s + b \in At("else")
BY DEF ElseIfs

\* Which lines an "else if" leads.
LEMMA ElseIfLeads ==
  ASSUME NEW D, NEW L, FileRead(D, L), NEW s \in D, NEW b \in Nat, Blanks(s, b), s + b \in At("else")
  PROVE  /\ Condition(s + b) <=> Parenthesis(L[s])
         /\ Begins(L[s], <<"else">>)
         /\ s + b \in ElseIfs <=> BeginsElseIf(L[s])
<1>1. IsWord("else")
  BY DEF IsWord
<1>2. (Condition(s + b) <=> Parenthesis(L[s])) /\ Begins(L[s], <<"else">>)
  BY <1>1, LineOfWord
<1>3. ASSUME BeginsElseIf(L[s])
      PROVE  s + b \in ElseIfs
  <2>1. s \in Nat /\ \E a \in Nat : s + a \in ElseIfs /\ Blanks(s, a)
    BY <1>3, WordsOfElseIf
  <2>2. PICK a \in Nat : s + a \in ElseIfs /\ Blanks(s, a)
    BY <2>1
  <2>3. data[s + a] # " " /\ data[s + b] # " "
    BY <2>2 DEF ElseIfs, At
  <2>4. a = b
    BY <2>1, <2>2, <2>3, OneLeader
  <2> QED
    BY <2>2, <2>4
<1> QED
  BY <1>2, <1>3, LineOfElseIf DEF BeginsElseIf

LEMMA ElseIfsAreLines ==
  ASSUME NEW D, NEW L, FileRead(D, L)
  PROVE  Cardinality(ElseIfLines(D, L)) = Cardinality(Led(ElseIfs))
<1> DEFINE G == ElseIfLines(D, L)
           P == Led(ElseIfs)
<1>1. G \in SUBSET D /\ \A p \in P : data[p] # " "
  BY DEF Led, At, ElseIfs, ElseIfLines
<1>2. ASSUME NEW s \in G
      PROVE  \E b \in Nat : s + b \in P /\ Blanks(s, b)
  <2>1. s \in D /\ BeginsElseIf(L[s]) /\ Parenthesis(L[s])
    BY DEF ElseIfLines, IsElseIf, BeginsElseIf
  <2>2. PICK b \in Nat : s + b \in ElseIfs /\ Blanks(s, b)
    BY <2>1, WordsOfElseIf
  <2>3. Condition(s + b) /\ Leads(s + b)
    BY <2>1, <2>2, ElseIfIsElse, ElseIfLeads, LeaderLeads
  <2> QED
    BY <2>2, <2>3 DEF Led
<1>3. ASSUME NEW p \in P
      PROVE  \E s \in G, b \in Nat : s + b = p /\ Blanks(s, b)
  <2>1. p \in DOMAIN data /\ p \in ElseIfs /\ Leads(p) /\ Condition(p)
    BY DEF Led, At, ElseIfs
  <2>2. PICK s \in D, b \in Nat : s + b = p /\ Blanks(s, b)
    BY <2>1, LineOfPlace
  <2>3. s \in G
    BY <2>1, <2>2, ElseIfIsElse, ElseIfLeads DEF ElseIfLines, IsElseIf, BeginsElseIf
  <2> QED
    BY <2>2, <2>3
<1> HIDE DEF G, P
<1>4. Cardinality(G) = Cardinality(P)
  BY <1>1, <1>2, <1>3, LinesAreLed
<1> QED
  BY <1>4 DEF G, P

LEMMA ElsesAreLines ==
  ASSUME NEW D, NEW L, FileRead(D, L)
  PROVE  Cardinality(ElseLines(D, L)) = Cardinality(Led(Elses))
<1> DEFINE G == ElseLines(D, L)
           P == Led(Elses)
<1>0. \A s \in D : s \in G <=> /\ Begins(L[s], <<"else">>) /\ Parenthesis(L[s])
                               /\ ~BeginsElseIf(L[s])
  BY DEF ElseLines, IsElse, IsElseIf, BeginsElseIf
<1>1. G \in SUBSET D /\ \A p \in P : data[p] # " "
  BY DEF Led, At, Elses, ElseLines
<1>2. ASSUME NEW s \in G
      PROVE  \E b \in Nat : s + b \in P /\ Blanks(s, b)
  <2>1. PICK words : words = <<"else">>
    OBVIOUS
  <2>2. PICK b \in Nat : s + b \in At("else") /\ Blanks(s, b)
    BY <1>0, <1>1, <2>1, WordOfLine
  <2>3. Condition(s + b) /\ s + b \notin ElseIfs /\ Leads(s + b)
    BY <1>0, <1>1, <2>2, ElseIfLeads, LeaderLeads
  <2> QED
    BY <2>2, <2>3 DEF Led, Elses
<1>3. ASSUME NEW p \in P
      PROVE  \E s \in G, b \in Nat : s + b = p /\ Blanks(s, b)
  <2>1. p \in DOMAIN data /\ p \in At("else") /\ p \notin ElseIfs /\ Leads(p) /\ Condition(p)
    BY DEF Led, At, Elses
  <2>2. PICK s \in D, b \in Nat : s + b = p /\ Blanks(s, b)
    BY <2>1, LineOfPlace
  <2>3. s \in G
    BY <1>0, <2>1, <2>2, ElseIfLeads
  <2> QED
    BY <2>2, <2>3
<1> HIDE DEF G, P
<1>4. Cardinality(G) = Cardinality(P)
  BY <1>1, <1>2, <1>3, LinesAreLed
<1> QED
  BY <1>4 DEF G, P

\* The line that begins at s has place k.
OnLine(L, s, k) == k \in s .. s + Len(L[s]) - 1

\* Every place but the end of a line is on one line, and on one only.
LEMMA PlaceIsOnLine ==
  ASSUME NEW D, NEW L, FileRead(D, L), NEW k \in DOMAIN data, data[k] # "newline"
  PROVE  \E s \in D : OnLine(L, s, k)
<1> DEFINE places == {p \in 1 .. k : FirstOfLine(p)}
<1>1. Len(data) \in Nat /\ DOMAIN data = 1 .. Len(data)
  BY LenProperties DEF FileRead, LinesInv
<1>2. k \in 1 .. Len(data) /\ k \in Nat
  BY <1>1
<1>3. 1 \in 1 .. k /\ 1 .. k \subseteq Int /\ IsFiniteSet(1 .. k)
  BY <1>2, FS_Interval
<1>4. FirstOfLine(1)
  BY DEF FirstOfLine
<1>5. IsFiniteSet(places) /\ places \subseteq Int /\ places # {}
  BY <1>3, <1>4, FS_Subset
<1> HIDE DEF places
<1>6. PICK s \in places : \A p \in places : s >= p
  BY <1>5, LargestNumber
<1>7. s \in 1 .. k /\ FirstOfLine(s)
  BY DEF places
<1>8. s \in DOMAIN data /\ k >= s
  BY <1>1, <1>2, <1>7
<1>9. s \in D
  BY <1>7, <1>8, LineBeginsThere
<1>10. ASSUME NEW q \in s .. k, data[q] = "newline"
       PROVE  FALSE
  <2>1. q # k
    BY <1>10
  <2>2. q + 1 \in 1 .. k /\ q + 1 - 1 = q /\ q + 1 > s
    BY <1>2, <1>7, <2>1
  <2>3. q + 1 \in places
    BY <1>10, <2>2 DEF places, FirstOfLine
  <2>4. s >= q + 1
    BY <1>6, <2>3
  <2> QED
    BY <1>2, <1>7, <2>2, <2>4
<1>11. k \in s .. s + Len(L[s]) - 1
  BY <1>8, <1>9, <1>10, LineProperties
<1> QED
  BY <1>9, <1>11 DEF OnLine

LEMMA LinesOfPlace ==
  ASSUME NEW D, NEW L, FileRead(D, L), NEW k \in DOMAIN data, NEW s \in D, NEW t \in D,
         OnLine(L, s, k), OnLine(L, t, k)
  PROVE  ~(s < t)
<1> SUFFICES ASSUME s < t
             PROVE  FALSE
  OBVIOUS
<1>1. /\ s \in 1 .. Len(data) + 1 /\ Len(data) \in Nat /\ DOMAIN data = 1 .. Len(data)
      /\ k >= s /\ \A q \in s .. k : data[q] # "newline"
  BY LineProperties DEF OnLine
<1>2. t \in 1 .. Len(data) + 1 /\ FirstOfLine(t) /\ k >= t
  BY LineProperties DEF OnLine
<1>3. t # 1 /\ t - 1 \in s .. k
  BY <1>1, <1>2
<1> QED
  BY <1>1, <1>2, <1>3 DEF FirstOfLine

\* Two semicolons in parentheses follow k.
Loops(k) == \E p \in RestOfLine(k) : data[p] = "(;;)"
FirstFor(k) == \A m \in At("for") : m < k => k \notin RestOfLine(m)

\* Of two places on one line, the later one is on the rest of the line after the other.
LEMMA LaterOnLine ==
  ASSUME NEW D, NEW L, FileRead(D, L), NEW s \in D, NEW k \in DOMAIN data, NEW m \in DOMAIN data,
         OnLine(L, s, k), OnLine(L, s, m), k < m
  PROVE  m \in RestOfLine(k)
<1>1. \A q \in s .. m : data[q] # "newline"
  BY LineProperties DEF OnLine
<1>2. s \in Int /\ Len(L[s]) \in Nat /\ k \in s .. s + Len(L[s]) - 1
  BY LineProperties DEF OnLine
<1>3. k \in Int /\ k >= s
  BY <1>2
<1>4. \A q \in k .. m : q \in s .. m
  BY <1>2, <1>3
<1>5. m > k
  BY <1>3
<1> QED
  BY <1>1, <1>4, <1>5 DEF RestOfLine

LEMMA RestIsOnLine ==
  ASSUME NEW D, NEW L, FileRead(D, L), NEW s \in D, NEW k \in DOMAIN data, OnLine(L, s, k),
         NEW p \in RestOfLine(k)
  PROVE  p \in DOMAIN data /\ OnLine(L, s, p) /\ p > k
<1>1. p \in DOMAIN data /\ p > k
  BY DEF RestOfLine
<1>2. p \in k + 1 .. s + Len(L[s]) - 1
  BY RestOfLineProperties DEF OnLine
<1>3. s \in Int /\ Len(L[s]) \in Nat /\ k \in s .. s + Len(L[s]) - 1
  BY LineProperties DEF OnLine
<1>4. p \in s .. s + Len(L[s]) - 1
  BY <1>2, <1>3
<1> QED
  BY <1>1, <1>4 DEF OnLine

LEMMA LoopOnLine ==
  ASSUME NEW D, NEW L, FileRead(D, L), NEW s \in D, NEW k \in At("for"),
         OnLine(L, s, k), Loops(k)
  PROVE  s \in ForLines(D, L)
<1>1. k \in DOMAIN data /\ data[k] = "for"
  BY DEF At
<1>2. PICK p \in RestOfLine(k) : data[p] = "(;;)"
  BY DEF Loops
<1>3. p \in DOMAIN data /\ OnLine(L, s, p) /\ p > k
  BY <1>1, RestIsOnLine
<1>4. /\ L[s] \in Seq(UNION Alphabets) /\ Len(L[s]) \in Nat
      /\ s \in 1 .. Len(data) + 1 /\ Len(data) \in Nat
      /\ \A q \in 1 .. Len(L[s]) : data[s + q - 1] = L[s][q]
  BY LineProperties
<1>6. PICK m \in Nat : m = Len(L[s])
  BY <1>4
<1>11. /\ k - s + 1 \in 1 .. m /\ s + (k - s + 1) - 1 = k
       /\ p - s + 1 \in 1 .. m /\ s + (p - s + 1) - 1 = p
       /\ k - s + 1 < p - s + 1
  <2>1. s \in Int /\ k \in s .. s + m - 1 /\ p \in s .. s + m - 1
    BY <1>3, <1>4, <1>6 DEF OnLine
  <2>2. p > k
    BY <1>3
  <2> QED
    BY <2>1, <2>2
<1>12. DOMAIN L[s] = 1 .. m
  BY <1>4, <1>6, LenProperties
<1>13. L[s][k - s + 1] = data[k] /\ L[s][p - s + 1] = data[p]
  BY <1>4, <1>6, <1>11
<1>14. IsFor(L[s])
  BY <1>1, <1>2, <1>11, <1>12, <1>13 DEF IsFor
<1> QED
  BY <1>14 DEF ForLines

LEMMA LoopOfLine ==
  ASSUME NEW D, NEW L, FileRead(D, L), NEW s \in ForLines(D, L)
  PROVE  s \in D /\ \E k \in At("for") : OnLine(L, s, k) /\ Loops(k)
<1>1. s \in D /\ IsFor(L[s])
  BY DEF ForLines
<1>2. /\ L[s] \in Seq(UNION Alphabets) /\ Len(L[s]) \in Nat
      /\ Len(data) \in Nat /\ DOMAIN data = 1 .. Len(data)
      /\ s \in 1 .. Len(data) + 1 /\ s + Len(L[s]) <= Len(data) + 1
      /\ \A q \in 1 .. Len(L[s]) : data[s + q - 1] = L[s][q]
  BY <1>1, LineProperties
<1>3. DOMAIN L[s] = 1 .. Len(L[s])
  BY <1>2, LenProperties
<1>4. PICK a \in 1 .. Len(L[s]), c \in 1 .. Len(L[s]) : a < c /\ L[s][a] = "for" /\ L[s][c] = "(;;)"
  BY <1>1, <1>3 DEF IsFor
<1>5. data[s + a - 1] = "for" /\ data[s + c - 1] = "(;;)"
  BY <1>2, <1>4
<1>6. PICK n \in Nat, m \in Nat : n = Len(data) /\ m = Len(L[s])
  BY <1>2
<1>7. /\ s + a - 1 \in 1 .. n /\ s + a - 1 \in s .. s + m - 1
      /\ s + c - 1 \in 1 .. n /\ s + c - 1 \in s .. s + m - 1
      /\ s + a - 1 < s + c - 1
  <2>1. s \in 1 .. n + 1 /\ s + m <= n + 1 /\ a \in 1 .. m /\ c \in 1 .. m /\ a < c
    BY <1>2, <1>4, <1>6
  <2> QED
    BY <2>1
<1>8. PICK k, p : k = s + a - 1 /\ p = s + c - 1
  OBVIOUS
<1>9. k \in DOMAIN data /\ p \in DOMAIN data /\ k < p
  BY <1>2, <1>6, <1>7, <1>8
<1>10. OnLine(L, s, k) /\ OnLine(L, s, p)
  BY <1>6, <1>7, <1>8 DEF OnLine
<1>11. k \in At("for") /\ data[p] = "(;;)"
  BY <1>5, <1>8, <1>9 DEF At
<1>12. p \in RestOfLine(k)
  BY <1>1, <1>9, <1>10, LaterOnLine
<1> QED
  BY <1>1, <1>10, <1>11, <1>12 DEF Loops

\* Such a line has a first loop, and what follows any loop follows the first.
LEMMA FirstLoopOfLine ==
  ASSUME NEW D, NEW L, FileRead(D, L), NEW s \in D, NEW k \in At("for"), OnLine(L, s, k), Loops(k)
  PROVE  \E m \in LoopHeads : OnLine(L, s, m)
<1> DEFINE A == {p \in s .. k : \A q \in s .. p - 1 : data[q] # "for"}
<1>1. k \in DOMAIN data /\ data[k] = "for"
  BY DEF At
<1>2. /\ Len(L[s]) \in Nat /\ Len(data) \in Nat /\ DOMAIN data = 1 .. Len(data)
      /\ s \in 1 .. Len(data) + 1 /\ k \in s .. s + Len(L[s]) - 1
  BY LineProperties DEF OnLine
<1>3. s \in Int /\ k \in Int /\ s <= k
  BY <1>2
<1>4. s \in A /\ A \subseteq s .. k /\ IsFiniteSet(s .. k) /\ s .. k \subseteq Int
  BY <1>3, FS_Interval
<1>5. IsFiniteSet(A) /\ A \subseteq Int /\ A # {}
  BY <1>4, FS_Subset
<1>6. PICK m \in A : \A p \in A : m >= p
  <2> HIDE DEF A
  <2> QED
    BY <1>5, LargestNumber
<1>7. m \in s .. k /\ \A q \in s .. m - 1 : data[q] # "for"
  OBVIOUS
<1>8. data[m] = "for"
  <2> SUFFICES ASSUME data[m] # "for"
               PROVE  FALSE
    OBVIOUS
  <2>1. m # k
    BY <1>1
  <2>2. m + 1 \in s .. k /\ ~(m >= m + 1)
    BY <1>3, <1>7, <2>1
  <2>3. \A q \in s .. (m + 1) - 1 : q = m \/ q \in s .. m - 1
    BY <1>3, <1>7
  <2>4. m + 1 \in A
    BY <1>7, <2>2, <2>3
  <2> HIDE DEF A
  <2> QED
    BY <1>6, <2>2, <2>4
<1>9. m \in 1 .. Len(data) /\ m \in s .. s + Len(L[s]) - 1
  <2>1. k \in 1 .. Len(data)
    BY <1>1, <1>2
  <2> QED
    BY <1>2, <1>3, <1>7, <2>1
<1>10. m \in At("for") /\ OnLine(L, s, m)
  BY <1>2, <1>8, <1>9 DEF At, OnLine
<1>11. Loops(m)
  <2>1. CASE m = k
    BY <2>1
  <2>2. CASE m # k
    <3>1. PICK p \in RestOfLine(k) : data[p] = "(;;)"
      BY DEF Loops
    <3>2. p \in DOMAIN data /\ OnLine(L, s, p) /\ p > k
      BY <1>1, <3>1, RestIsOnLine
    <3>3. p \in 1 .. Len(data) /\ m < p /\ m \in DOMAIN data
      <4>1. p \in 1 .. Len(data)
        BY <1>2, <3>2
      <4> QED
        BY <1>2, <1>3, <1>7, <1>9, <3>2, <4>1
    <3>4. p \in RestOfLine(m)
      BY <1>10, <3>2, <3>3, LaterOnLine
    <3> QED
      BY <3>1, <3>4 DEF Loops
  <2> QED
    BY <2>1, <2>2
<1>12. FirstFor(m)
  <2> SUFFICES ASSUME NEW q \in At("for"), q < m, m \in RestOfLine(q)
               PROVE  FALSE
    BY DEF FirstFor
  <2>1. q \in DOMAIN data /\ data[q] = "for"
    BY DEF At
  <2>2. q \in 1 .. Len(data)
    BY <1>2, <2>1
  <2>3. \A r \in q .. m : data[r] # "newline"
    BY DEF RestOfLine
  <2>4. q >= s
    <3> SUFFICES ASSUME q < s
                 PROVE  FALSE
      BY <1>3, <2>2
    <3>1. s # 1 /\ s - 1 \in q .. m
      BY <1>2, <1>3, <1>7, <2>2
    <3>2. FirstOfLine(s)
      BY LineProperties
    <3> QED
      BY <2>3, <3>1, <3>2 DEF FirstOfLine
  <2>5. q \in s .. m - 1
    BY <1>3, <1>7, <2>2, <2>4
  <2> QED
    BY <1>7, <2>1, <2>5
<1> QED
  BY <1>10, <1>11, <1>12 DEF LoopHeads, Loops, FirstFor

LEMMA ForsAreLines ==
  ASSUME NEW D, NEW L, FileRead(D, L)
  PROVE  Cardinality(ForLines(D, L)) = Cardinality(LoopHeads)
<1> DEFINE P == LoopHeads
           F == ForLines(D, L)
           lineOf == [k \in P |-> CHOOSE s \in D : OnLine(L, s, k)]
<1>1. \A k \in P : k \in At("for") /\ k \in DOMAIN data /\ data[k] # "newline" /\ Loops(k) /\ FirstFor(k)
  BY DEF At, LoopHeads, Loops, FirstFor
<1>2. \A s \in F : s \in D /\ \E k \in P : OnLine(L, s, k)
  BY LoopOfLine, FirstLoopOfLine
<1>3. IsFiniteSet(F)
  BY FS_Subset DEF ForLines, FileRead, LinesRead
<1>4. /\ Len(data) \in Nat /\ DOMAIN data = 1 .. Len(data)
      /\ \A s \in D : s \in 1 .. Len(data) + 1
  BY LenProperties DEF FileRead, LinesInv, LinesRead, TextLine
<1> HIDE DEF P
<1>5. \A k \in P : \E s \in D : OnLine(L, s, k)
  BY <1>1, PlaceIsOnLine
<1>6. \A k \in P : lineOf[k] \in D /\ OnLine(L, lineOf[k], k)
  BY <1>5
<1>7. \A k \in P : lineOf[k] \in F
  BY <1>1, <1>6, LoopOnLine
<1>8. ASSUME NEW k \in P, NEW m \in P, lineOf[k] = lineOf[m]
      PROVE  k = m
  <2>1. PICK s \in D : OnLine(L, s, k) /\ OnLine(L, s, m)
    BY <1>6, <1>8
  <2>2. k < m => m \in RestOfLine(k)
    BY <1>1, <2>1, LaterOnLine
  <2>3. m < k => k \in RestOfLine(m)
    BY <1>1, <2>1, LaterOnLine
  <2>4. ~(k < m) /\ ~(m < k)
    BY <1>1, <2>2, <2>3 DEF FirstFor
  <2>5. k \in Int /\ m \in Int
    BY <1>1, <1>4
  <2> QED
    BY <2>4, <2>5
<1>9. ASSUME NEW s \in F
      PROVE  \E k \in P : lineOf[k] = s
  <2>1. PICK k \in P : OnLine(L, s, k)
    BY <1>2
  <2>2. ~(s < lineOf[k]) /\ ~(lineOf[k] < s)
    BY <1>1, <1>2, <1>6, <2>1, LinesOfPlace
  <2>3. s \in Int /\ lineOf[k] \in Int
    BY <1>2, <1>4, <1>6
  <2> QED
    BY <2>2, <2>3
<1>10. lineOf \in Injection(P, F) /\ lineOf \in Surjection(P, F)
  BY <1>7, <1>8, <1>9 DEF Injection, Surjection, IsInjective
<1> HIDE DEF lineOf, F
<1>11. Cardinality(F) = Cardinality(P)
  BY <1>3, <1>10, FS_Injection
<1> QED
  BY <1>11 DEF F, P

(***************************************************************************)
(* The scripts that count branches and loops count, in every text, each    *)
(* keyword that leads its line and has its parentheses there, and for each *)
(* line the first "for": a line is the places between two newlines, so     *)
(* that a line which counts and the keyword it counts for determine each   *)
(* other.                                                                  *)
(***************************************************************************)
THEOREM KeywordsAreCounted == TextSpec => []KeywordsCountedOnce
<1>1. LinesInv => KeywordsCountedOnce
  <2> SUFFICES ASSUME LinesInv, ended
               PROVE  KeywordsCountedOnce
    BY DEF KeywordsCountedOnce
  <2>1. PICK D, L : FileRead(D, L)
    BY DEF LinesInv, FileRead
  <2>2. Counted(D, L)
    BY <2>1 DEF FileRead
  <2>3. IsWord("if") /\ IsWord("while")
    BY DEF IsWord
  <2>4. /\ Cardinality(IfLines(D, L)) = Cardinality(Led(At("if")))
        /\ Cardinality(WhileLines(D, L)) = Cardinality(Led(At("while")))
    <3>1. "if" # " " /\ "while" # " "
      OBVIOUS
    <3>2. /\ Cardinality(WordLines(D, L, "if")) = Cardinality(Led(At("if")))
          /\ Cardinality(WordLines(D, L, "while")) = Cardinality(Led(At("while")))
      BY <2>1, <2>3, <3>1, WordsAreLines
    <3>3. IfLines(D, L) = WordLines(D, L, "if") /\ WhileLines(D, L) = WordLines(D, L, "while")
      BY DEF IfLines, WhileLines, IsIf, IsWhile, WordLines
    <3> QED
      BY <3>2, <3>3
  <2> QED
    BY <2>1, <2>2, <2>4, ElseIfsAreLines, ElsesAreLines, ForsAreLines DEF Counted, KeywordsCountedOnce
<1> QED
  BY <1>1, LinesInvAlways, PTL
-----------------------------------------------------------------------------
(***************************************************************************)
(* ngrams.py.  However the places of a list are put in classes, the sizes  *)
(* of all classes add up to the number of places.                          *)
(***************************************************************************)
LEMMA ClassesCoverPlaces ==
  ASSUME NEW S, IsFiniteSet(S), NEW n \in Nat, NEW g, \A k \in 1 .. n : g[k] \in S
  PROVE  SumFunctionOnSet([x \in S |-> Cardinality({k \in 1 .. n : g[k] = x})], S) = n
<1> DEFINE Class(x, m) == {k \in 1 .. m : g[k] = x}
           sizes(m) == [x \in S |-> Cardinality(Class(x, m))]
           T == {m \in Nat : m <= n => SumFunctionOnSet(sizes(m), S) = m}
<1>1. \A m \in Nat, x \in S : IsFiniteSet(Class(x, m)) /\ Cardinality(Class(x, m)) \in Nat
  <2> SUFFICES ASSUME NEW m \in Nat, NEW x \in S
               PROVE  IsFiniteSet(Class(x, m)) /\ Cardinality(Class(x, m)) \in Nat
    OBVIOUS
  <2>1. IsFiniteSet(1 .. m) /\ Class(x, m) \subseteq 1 .. m
    BY FS_Interval
  <2> QED
    BY <2>1, FS_Subset, FS_CardinalityType
<1>2. 0 \in T
  <2>1. \A x \in S : Class(x, 0) = {}
    OBVIOUS
  <2>2. \A x \in S : sizes(0)[x] = 0
    BY <2>1, FS_EmptySet
  <2> HIDE DEF sizes
  <2> QED
    BY <2>2, SumOfZeroes
<1>3. ASSUME NEW m \in Nat, m \in T
      PROVE  m + 1 \in T
  <2> SUFFICES ASSUME m + 1 <= n
               PROVE  SumFunctionOnSet(sizes(m + 1), S) = m + 1
    OBVIOUS
  <2> DEFINE y == g[m + 1]
  <2>1. y \in S /\ SumFunctionOnSet(sizes(m), S) = m
    BY <1>3
  <2>2. Class(y, m + 1) = Class(y, m) \cup {m + 1} /\ m + 1 \notin Class(y, m)
    OBVIOUS
  <2>3. \A x \in S : x # y => Class(x, m + 1) = Class(x, m)
    <3> SUFFICES ASSUME NEW x \in S, x # y
                 PROVE  Class(x, m + 1) = Class(x, m)
      OBVIOUS
    <3>1. \A k \in 1 .. m + 1 : k \in 1 .. m \/ k = m + 1
      OBVIOUS
    <3>2. \A k \in 1 .. m : k \in 1 .. m + 1
      OBVIOUS
    <3> QED
      BY <3>1, <3>2
  <2>4. \A x \in S : \A l : sizes(l)[x] = Cardinality(Class(x, l))
    OBVIOUS
  <2>5. sizes(m + 1)[y] = sizes(m)[y] + 1
    <3>1. IsFiniteSet(Class(y, m)) /\ Cardinality(Class(y, m)) \in Nat
      BY <1>1, <2>1
    <3>2. Cardinality(Class(y, m + 1)) = Cardinality(Class(y, m)) + 1
      BY <2>2, <3>1, FS_AddElement
    <3> HIDE DEF sizes, Class
    <3> QED
      BY <2>1, <2>4, <3>2
  <2>6. \A x \in S : x # y => sizes(m)[x] = sizes(m + 1)[x]
    <3> HIDE DEF sizes, Class
    <3> QED
      BY <2>3, <2>4, Zenon
  <2>7. \A x \in S : sizes(m)[x] \in Nat /\ sizes(m + 1)[x] \in Nat
    <3>1. m + 1 \in Nat
      OBVIOUS
    <3> HIDE DEF sizes, Class
    <3> QED
      BY <1>1, <2>4, <3>1, Zenon
  <2> HIDE DEF sizes, y
  <2>8. /\ SumFunctionOnSet(sizes(m), S) \in Nat /\ SumFunctionOnSet(sizes(m + 1), S) \in Nat
        /\ SumFunctionOnSet(sizes(m), S) + sizes(m + 1)[y] = SumFunctionOnSet(sizes(m + 1), S) + sizes(m)[y]
    BY <2>1, <2>6, <2>7, SumWithOneChanged
  <2> QED
    BY <2>1, <2>5, <2>7, <2>8
<1>4. T \subseteq Nat
  OBVIOUS
<1> HIDE DEF T
<1>5. n \in T
  BY <1>2, <1>3, <1>4, CountingUp
<1> QED
  BY <1>5 DEF T

\* The items of the files there may be.
Item == UNION {UNION {Range(text) : text \in Range(d)} : d \in Directories}

\* Where the files of the first pass end in what it has read.
Joined(F) ==
  \E ends \in [0 .. F -> 0 .. Len(listAll)] :
    /\ ends[0] = 0 /\ ends[F] = Len(listAll)
    /\ \A f \in 1 .. F :
         /\ ends[f] = ends[f - 1] + Len(files[f])
         /\ \A k \in 1 .. Len(files[f]) : listAll[ends[f - 1] + k] = files[f][k]

NGramsInv ==
  /\ pass \in {"start", "count", "choose", "write"}
  /\ files \in Seq(Seq(Item))
  /\ listAll \in Seq(Item)
  /\ file \in 0 .. Len(files)
  /\ pass = "start" => file = 0 /\ listAll = <<>>
  /\ pass = "choose" => file = 0
  /\ pass = "count" => (NoReturn => Joined(file))
  /\ pass \in {"choose", "write"} => (NoReturn => Joined(Len(files)))
  /\ pass # "write" => rows = <<>>
  /\ pass = "write" =>
       /\ ngramsTopK \in MostFrequent(NGramsOf(listAll))
       /\ rows \in Seq([ngramsTopK -> Nat]) /\ Len(rows) = file
       /\ \A f \in 1 .. file : \A key \in ngramsTopK : rows[f][key] = Times(key, files[f])

LEMMA DirectoriesHoldItems == Directories \subseteq Seq(Seq(Item))
<1> SUFFICES ASSUME NEW d \in Directories
             PROVE  d \in Seq(Seq(Item))
  OBVIOUS
<1>1. d \in Seq(Range(d)) /\ \A text \in Range(d) : text \in Seq(Range(text))
  BY NGramsAssumption
<1>2. \A text \in Range(d) : Range(text) \subseteq Item
  BY DEF Item
<1>3. \A text \in Range(d) : text \in Seq(Item)
  BY <1>1, <1>2, SeqMonotonic
<1> QED
  BY <1>1, <1>3, SeqMonotonic

LEMMA PlacesProperties ==
  ASSUME NEW S, NEW list \in Seq(S)
  PROVE  /\ Len(list) - N + 1 \in Int
         /\ Places(list) = 1 .. Len(list) - N + 1
         /\ IsFiniteSet(Places(list)) /\ Cardinality(Places(list)) \in Nat
         /\ IsFiniteSet(NGramsOf(list)) /\ Cardinality(NGramsOf(list)) \in Nat
         /\ \A key : Times(key, list) \in Nat
         /\ \A key : Times(key, list) = 0 <=> \A k \in Places(list) : NGramAt(list, k) # key
<1>1. Len(list) - N + 1 \in Int /\ Places(list) = 1 .. Len(list) - N + 1
  BY NGramsAssumption, LenProperties DEF Places
<1>2. IsFiniteSet(Places(list))
  BY <1>1, FS_Interval
<1>3. IsFiniteSet(NGramsOf(list))
  <2> DEFINE g == [k \in Places(list) |-> NGramAt(list, k)]
  <2>1. g \in [Places(list) -> NGramsOf(list)]
    BY DEF NGramsOf
  <2>2. \A key \in NGramsOf(list) : \E k \in Places(list) : g[k] = key
    BY DEF NGramsOf
  <2> HIDE DEF g
  <2>3. g \in Surjection(Places(list), NGramsOf(list))
    BY <2>1, <2>2 DEF Surjection
  <2> QED
    BY <1>2, <2>3, FS_Surjection
<1>4. ASSUME NEW key
      PROVE  /\ Times(key, list) \in Nat
             /\ Times(key, list) = 0 <=> \A k \in Places(list) : NGramAt(list, k) # key
  <2> DEFINE P == {k \in Places(list) : NGramAt(list, k) = key}
  <2>1. IsFiniteSet(P)
    BY <1>2, FS_Subset
  <2>2. Times(key, list) = Cardinality(P)
    BY DEF Times
  <2>3. Cardinality(P) \in Nat /\ (Cardinality(P) = 0 <=> P = {})
    BY <2>1, FS_CardinalityType, FS_EmptySet
  <2>4. P = {} <=> \A k \in Places(list) : NGramAt(list, k) # key
    OBVIOUS
  <2> QED
    BY <2>2, <2>3, <2>4
<1> QED
  BY <1>1, <1>2, <1>3, <1>4, FS_CardinalityType

LEMMA NoReturnTakesAll ==
  ASSUME NEW f \in DOMAIN files, NoReturn
  PROVE  Before(files[f]) = files[f]
<1> DEFINE text == files[f]
           returns == {k \in DOMAIN text : text[k] = "CR"}
<1>1. "CR" \notin Range(text)
  BY DEF NoReturn
<1>2. returns = {}
  BY <1>1 DEF Range
<1> QED
  BY <1>2 DEF Before

LEMMA BeforeIsText ==
  ASSUME NEW S, NEW text \in Seq(S)
  PROVE  Before(text) \in Seq(S)
<1> DEFINE returns == {k \in DOMAIN text : text[k] = "CR"}
<1>1. returns \subseteq 1 .. Len(text)
  BY LenProperties
<1>2. CASE returns = {}
  BY <1>2 DEF Before
<1>3. CASE returns # {}
  <2>1. PICK q \in returns : \A l \in returns : q <= l
    <3>1. returns \subseteq Nat
      BY <1>1
    <3> HIDE DEF returns
    <3>2. PICK k \in returns : \A l \in returns : k <= l
      BY <1>3, <3>1, LeastNumber
    <3> QED
      BY <3>2
  <2>2. Min(returns) \in returns
    BY <2>1 DEF Min
  <2> DEFINE last == Min(returns) - 1
  <2>3. last \in Int /\ \A k \in 1 .. last : k \in 1 .. Len(text)
    <3>1. PICK m \in 1 .. Len(text) : m = Min(returns)
      BY <1>1, <2>2
    <3>2. m - 1 \in Int /\ \A k \in 1 .. m - 1 : k \in 1 .. Len(text)
      BY LenProperties
    <3> HIDE DEF returns
    <3> QED
      BY <3>1, <3>2
  <2> HIDE DEF last
  <2>4. \A k \in 1 .. last : text[k] \in S
    BY <2>3, ElementOfSeq
  <2>5. SubSeq(text, 1, last) \in Seq(S)
    BY <2>3, <2>4, SubSeqProperties
  <2> QED
    BY <2>5 DEF Before, last
<1> QED
  BY <1>2, <1>3

LEMMA NGramsInvInitially == NGramsInit => NGramsInv
<1> SUFFICES ASSUME NGramsInit
             PROVE  NGramsInv
  OBVIOUS
<1>1. <<>> \in Seq(Item) /\ <<>> \in Seq(Seq(Item)) /\ Len(<<>>) = 0
  BY EmptySeq
<1> QED
  BY <1>1 DEF NGramsInit, NGramsInv

LEMMA ListPreserves ==
  ASSUME NGramsInv, ListFiles
  PROVE  NGramsInv'
<1>1. files' \in Seq(Seq(Item)) /\ Len(files') \in Nat
  BY DirectoriesHoldItems, LenProperties DEF ListFiles
<1>2. /\ pass = "start" /\ pass' = "count" /\ file' = 0 /\ listAll' = <<>> /\ rows' = <<>>
      /\ Len(<<>>) = 0 /\ listAll' \in Seq(Item)
  BY EmptySeq DEF ListFiles, NGramsInv
<1>3. Joined(file)'
  <2> DEFINE ends == [f \in 0 .. 0 |-> 0]
  <2>1. ends \in [0 .. 0 -> 0 .. 0] /\ ends[0] = 0
    OBVIOUS
  <2>2. 1 .. 0 = {}
    OBVIOUS
  <2> HIDE DEF ends
  <2> QED
    BY <1>2, <2>1, <2>2 DEF Joined
<1> QED
  BY <1>1, <1>2, <1>3 DEF NGramsInv

LEMMA CountPreserves ==
  ASSUME NGramsInv, CountFile
  PROVE  NGramsInv'
<1>1. /\ pass = "count" /\ UNCHANGED <<files, ngramsTopK, rows>>
      /\ files \in Seq(Seq(Item)) /\ listAll \in Seq(Item) /\ file \in 0 .. Len(files)
      /\ rows = <<>> /\ (NoReturn => Joined(file))
      /\ Len(files) \in Nat /\ NoReturn' = NoReturn
  BY LenProperties DEF CountFile, NGramsInv, NoReturn
<1>2. CASE file = Len(files) /\ pass' = "choose" /\ file' = 0 /\ UNCHANGED listAll
  <2>1. NoReturn' => Joined(Len(files))'
    BY <1>1, <1>2 DEF Joined
  <2> QED
    BY <1>1, <1>2, <2>1 DEF NGramsInv
<1>3. CASE /\ file < Len(files)
           /\ file' = file + 1
           /\ listAll' = listAll \o Before(files[file + 1])
           /\ UNCHANGED pass
  <2> DEFINE text == files[file + 1]
  <2>1. file + 1 \in 1 .. Len(files) /\ file \in Nat /\ file + 1 \in DOMAIN files
    BY <1>1, <1>3, LenProperties
  <2>2. text \in Seq(Item)
    BY <1>1, <2>1, ElementOfSeq
  <2>3. Before(text) \in Seq(Item)
    BY <2>2, BeforeIsText
  <2>4. listAll' \in Seq(Item)
    BY <1>1, <1>3, <2>3, ConcatProperties
  <2>5. ASSUME NoReturn
        PROVE  Joined(file)'
    <3>1. listAll' = listAll \o text
      BY <1>3, <2>1, <2>5, NoReturnTakesAll
    <3>2. PICK ends \in [0 .. file -> 0 .. Len(listAll)] :
            /\ ends[0] = 0 /\ ends[file] = Len(listAll)
            /\ \A f \in 1 .. file :
                 /\ ends[f] = ends[f - 1] + Len(files[f])
                 /\ \A k \in 1 .. Len(files[f]) : listAll[ends[f - 1] + k] = files[f][k]
      BY <1>1, <2>5 DEF Joined
    <3> HIDE DEF text
    <3> DEFINE a == Len(listAll)
               b == Len(text)
               more == [f \in 0 .. file + 1 |-> IF f <= file THEN ends[f] ELSE a + b]
    <3>3. /\ a \in Nat /\ b \in Nat /\ Len(listAll') = a + b
          /\ \A k \in 1 .. a : listAll'[k] = listAll[k]
          /\ \A k \in 1 .. b : listAll'[a + k] = text[k]
      <4>1. listAll \in Seq(Item) /\ text \in Seq(Item) /\ a \in Nat /\ b \in Nat
        BY <1>1, <2>2, LenProperties
      <4>2. /\ Len(listAll \o text) = Len(listAll) + Len(text)
            /\ \A k \in 1 .. Len(listAll) + Len(text) :
                 (listAll \o text)[k] = IF k <= Len(listAll) THEN listAll[k] ELSE text[k - Len(listAll)]
        BY <4>1, ConcatProperties
      <4>3. \A k \in 1 .. a : k \in 1 .. a + b /\ k <= a
        BY <4>1
      <4>4. \A k \in 1 .. b : a + k \in 1 .. a + b /\ ~(a + k <= a) /\ a + k - a = k
        BY <4>1
      <4> QED
        BY <3>1, <4>1, <4>2, <4>3, <4>4
    <3>4. /\ more \in [0 .. file + 1 -> 0 .. a + b]
          /\ \A f \in 0 .. file : more[f] = ends[f]
          /\ more[file + 1] = a + b
      BY <2>1, <3>2, <3>3
    <3>5. ASSUME NEW f \in 1 .. file + 1
          PROVE  /\ more[f] = more[f - 1] + Len(files[f])
                 /\ \A k \in 1 .. Len(files[f]) : listAll'[more[f - 1] + k] = files[f][k]
      <4>1. CASE f = file + 1
        <5>1. f - 1 = file /\ file \in 0 .. file /\ files[f] = text
          BY <2>1, <4>1 DEF text
        <5> HIDE DEF more
        <5>2. more[f - 1] = a
          BY <3>2, <3>4, <5>1
        <5> QED
          BY <3>3, <3>4, <4>1, <5>1, <5>2
      <4>2. CASE f # file + 1
        <5>1. f \in 1 .. file /\ f \in 0 .. file /\ f - 1 \in 0 .. file
          BY <2>1, <4>2
        <5> HIDE DEF more
        <5>2. more[f] = ends[f] /\ more[f - 1] = ends[f - 1]
          BY <3>4, <5>1
        <5>3. ends[f] \in 0 .. a /\ ends[f - 1] \in 0 .. a /\ Len(files[f]) \in Nat
          <6>1. f \in 1 .. Len(files)
            BY <1>1, <5>1
          <6>2. files[f] \in Seq(Item)
            BY <1>1, <6>1, ElementOfSeq
          <6> QED
            BY <3>2, <5>1, <6>2, LenProperties
        <5>4. ends[f] = ends[f - 1] + Len(files[f])
          BY <3>2, <5>1
        <5>5. ASSUME NEW k \in 1 .. Len(files[f])
              PROVE  listAll'[ends[f - 1] + k] = files[f][k]
          <6>1. ends[f - 1] + k \in 1 .. a
            BY <3>3, <5>3, <5>4
          <6>2. listAll[ends[f - 1] + k] = files[f][k]
            BY <3>2, <5>1
          <6> QED
            BY <3>3, <6>1, <6>2
        <5> QED
          BY <5>2, <5>4, <5>5
      <4> QED
        BY <4>1, <4>2
    <3>6. more[0] = 0
      BY <2>1, <3>2, <3>4
    <3> HIDE DEF more
    <3>7. more \in [0 .. file' -> 0 .. Len(listAll')] /\ more[file'] = Len(listAll')
      BY <1>3, <3>3, <3>4
    <3>8. \A f \in 1 .. file' :
            /\ more[f] = more[f - 1] + Len(files'[f])
            /\ \A k \in 1 .. Len(files'[f]) : listAll'[more[f - 1] + k] = files'[f][k]
      BY <1>1, <1>3, <3>5
    <3> QED
      BY <3>6, <3>7, <3>8 DEF Joined
  <2>6. file' \in 0 .. Len(files')
    BY <1>1, <1>3, <2>1
  <2> QED
    BY <1>1, <1>3, <2>4, <2>5, <2>6 DEF NGramsInv
<1> QED
  BY <1>2, <1>3 DEF CountFile

LEMMA ChoosePreserves ==
  ASSUME NGramsInv, Choose
  PROVE  NGramsInv'
<1>1. /\ pass = "choose" /\ pass' = "write" /\ UNCHANGED <<files, file, listAll, rows>>
      /\ ngramsTopK' \in MostFrequent(NGramsOf(listAll))
      /\ rows = <<>> /\ file = 0 /\ (NoReturn => Joined(Len(files)))
  BY DEF Choose, NGramsInv
<1>2. MostFrequent(NGramsOf(listAll))' = MostFrequent(NGramsOf(listAll))
  BY <1>1 DEF MostFrequent, Times, NGramsOf, Places, NGramAt
<1>3. NoReturn' => Joined(Len(files))'
  BY <1>1 DEF NoReturn, Joined
<1>4. rows' \in Seq([ngramsTopK' -> Nat]) /\ Len(rows') = 0 /\ file' = 0 /\ 1 .. 0 = {}
  BY <1>1, EmptySeq
<1>5. \A f \in 1 .. file' : \A key \in ngramsTopK' : rows'[f][key] = Times(key, files'[f])
  BY <1>4
<1> QED
  BY <1>1, <1>2, <1>3, <1>4, <1>5 DEF NGramsInv

LEMMA WritePreserves ==
  ASSUME NGramsInv, WriteRow
  PROVE  NGramsInv'
<1> DEFINE f == file + 1
           row == [key \in ngramsTopK |-> Times(key, files[f])]
<1>1. /\ pass = "write" /\ UNCHANGED <<files, pass, listAll, ngramsTopK>>
      /\ file < Len(files) /\ file' = f /\ rows' = Append(rows, row)
  BY DEF WriteRow, Current
<1>2. /\ files \in Seq(Seq(Item)) /\ file \in 0 .. Len(files) /\ Len(files) \in Nat
      /\ (NoReturn => Joined(Len(files)))
      /\ ngramsTopK \in MostFrequent(NGramsOf(listAll))
      /\ rows \in Seq([ngramsTopK -> Nat]) /\ Len(rows) = file
      /\ \A g \in 1 .. file : \A key \in ngramsTopK : rows[g][key] = Times(key, files[g])
  BY <1>1, LenProperties DEF NGramsInv
<1>3. f \in 1 .. Len(files) /\ f \in 0 .. Len(files) /\ file \in Nat
  BY <1>1, <1>2
<1>4. files[f] \in Seq(Item)
  BY <1>2, <1>3, ElementOfSeq
<1>5. row \in [ngramsTopK -> Nat]
  BY <1>4, PlacesProperties
<1>6. MostFrequent(NGramsOf(listAll))' = MostFrequent(NGramsOf(listAll))
  BY <1>1 DEF MostFrequent, Times, NGramsOf, Places, NGramAt
<1>7. NoReturn' => Joined(Len(files))'
  <2>1. NoReturn' = NoReturn
    BY <1>1 DEF NoReturn
  <2>2. Joined(Len(files))' = Joined(Len(files))
    BY <1>1 DEF Joined
  <2> QED
    BY <1>2, <2>1, <2>2
<1>8. \A key \in ngramsTopK : row[key] = Times(key, files[f])
  OBVIOUS
<1> HIDE DEF row
<1>9. /\ rows' \in Seq([ngramsTopK -> Nat]) /\ Len(rows') = f
      /\ \A g \in 1 .. file : rows'[g] = rows[g]
      /\ rows'[f] = row
  BY <1>1, <1>2, <1>5, AppendProperties
<1>10. \A g \in 1 .. f : \A key \in ngramsTopK : rows'[g][key] = Times(key, files[g])
  <2> SUFFICES ASSUME NEW g \in 1 .. f
               PROVE  \A key \in ngramsTopK : rows'[g][key] = Times(key, files[g])
    OBVIOUS
  <2>1. g \in 1 .. file \/ g = f
    BY <1>3
  <2> QED
    BY <1>2, <1>8, <1>9, <2>1
<1>11. \A g \in 1 .. file' : \A key \in ngramsTopK' : rows'[g][key] = Times(key, files'[g])
  BY <1>1, <1>10
<1> HIDE DEF f
<1> QED
  BY <1>1, <1>2, <1>3, <1>6, <1>7, <1>9, <1>11 DEF NGramsInv

LEMMA NGramProperties ==
  ASSUME NEW S, NEW list \in Seq(S), NEW k \in Places(list)
  PROVE  /\ NGramAt(list, k) \in Seq(S) /\ Len(NGramAt(list, k)) = N
         /\ \A l \in 1 .. N : k + l - 1 \in 1 .. Len(list) /\ NGramAt(list, k)[l] = list[k + l - 1]
<1>1. /\ N \in Nat \ {0} /\ Len(list) \in Nat /\ k \in 1 .. Len(list) - N + 1
      /\ k \in Int /\ k + N - 1 \in Int
  BY NGramsAssumption, PlacesProperties, LenProperties
<1>2. \A l \in k .. k + N - 1 : l \in 1 .. Len(list)
  BY <1>1
<1>3. \A l \in k .. k + N - 1 : list[l] \in S
  BY <1>2, ElementOfSeq
<1> DEFINE last == k + N - 1
<1>4. last \in Int /\ k <= last /\ last - k + 1 = N
  BY <1>1
<1>5. \A l \in 1 .. N : k + l - 1 \in k .. k + N - 1
  BY <1>1
<1> HIDE DEF last
<1>6. /\ SubSeq(list, k, last) \in Seq(S)
      /\ Len(SubSeq(list, k, last)) = IF k <= last THEN last - k + 1 ELSE 0
      /\ \A l \in 1 .. last - k + 1 : SubSeq(list, k, last)[l] = list[k + l - 1]
  BY <1>1, <1>3, <1>4, SubSeqProperties DEF last
<1>7. NGramAt(list, k) = SubSeq(list, k, last)
  BY DEF NGramAt, last
<1> QED
  BY <1>2, <1>4, <1>5, <1>6, <1>7

\* The list has that part after its first o items.
HasPart(list, part, o) ==
  /\ o \in Nat /\ o + Len(part) <= Len(list)
  /\ \A k \in 1 .. Len(part) : list[o + k] = part[k]

\* An n-gram of a part of a list is one of the list.
LEMMA NGramOfPart ==
  ASSUME NEW S, NEW part \in Seq(S), NEW list \in Seq(S), NEW o, HasPart(list, part, o),
         NEW k \in Int, k >= 1, k + N - 1 <= Len(part)
  PROVE  /\ k \in Places(part) /\ o + k \in Places(list)
         /\ NGramAt(list, o + k) = NGramAt(part, k)
<1>1. /\ N \in Nat \ {0} /\ Len(part) \in Nat /\ Len(list) \in Nat
      /\ Places(part) = 1 .. Len(part) - N + 1 /\ Places(list) = 1 .. Len(list) - N + 1
  BY NGramsAssumption, PlacesProperties, LenProperties
<1>2. k \in Places(part) /\ o + k \in Places(list) /\ o \in Nat
  BY <1>1 DEF HasPart
<1> DEFINE m == NGramAt(part, k)
           n == NGramAt(list, o + k)
<1>3. /\ m \in Seq(S) /\ Len(m) = N
      /\ \A l \in 1 .. N : k + l - 1 \in 1 .. Len(part) /\ m[l] = part[k + l - 1]
  BY <1>2, NGramProperties
<1>4. /\ n \in Seq(S) /\ Len(n) = N
      /\ \A l \in 1 .. N : n[l] = list[(o + k) + l - 1]
  BY <1>2, NGramProperties
<1> HIDE DEF m, n
<1>5. ASSUME NEW l \in 1 .. N
      PROVE  n[l] = m[l]
  <2>1. PICK p \in 1 .. Len(part) : p = k + l - 1 /\ m[l] = part[p]
    BY <1>3
  <2>2. o + p = (o + k) + l - 1
    BY <1>1, <1>2, <2>1
  <2>3. list[o + p] = part[p] /\ n[l] = list[(o + k) + l - 1]
    BY <1>4 DEF HasPart
  <2> QED
    BY <2>1, <2>2, <2>3
<1>6. m = n
  BY <1>3, <1>4, <1>5, SeqEqual
<1> QED
  BY <1>2, <1>6 DEF m, n

\* What holds of the two passes when there is no carriage return.
Ends(ends) ==
  /\ ends \in [0 .. Len(files) -> 0 .. Len(listAll)]
  /\ ends[0] = 0 /\ ends[Len(files)] = Len(listAll)
  /\ \A f \in 1 .. Len(files) :
       /\ ends[f] = ends[f - 1] + Len(files[f])
       /\ \A k \in 1 .. Len(files[f]) : listAll[ends[f - 1] + k] = files[f][k]

\* The n-grams of a file are those that the first pass has at its places.
LEMMA FileIsPart ==
  ASSUME NGramsInv, NEW ends, Ends(ends), NEW f \in 1 .. Len(files),
         NEW k \in Int, k >= 1, k + N - 1 <= Len(files[f])
  PROVE  /\ k \in Places(files[f]) /\ ends[f - 1] + k \in Places(listAll)
         /\ NGramAt(listAll, ends[f - 1] + k) = NGramAt(files[f], k)
<1> DEFINE o == ends[f - 1]
           part == files[f]
<1>1. listAll \in Seq(Item) /\ files \in Seq(Seq(Item)) /\ Len(files) \in Nat /\ Len(listAll) \in Nat
  BY LenProperties DEF NGramsInv
<1>2. f \in 0 .. Len(files) /\ f - 1 \in 0 .. Len(files)
  BY <1>1
<1>3. part \in Seq(Item)
  BY <1>1, ElementOfSeq
<1>4. o \in Nat /\ o + Len(part) <= Len(listAll)
  <2>1. ends[f] \in 0 .. Len(listAll) /\ o \in 0 .. Len(listAll) /\ ends[f] = o + Len(part)
    BY <1>2 DEF Ends
  <2> QED
    BY <1>1, <2>1
<1>5. \A p \in 1 .. Len(part) : listAll[o + p] = part[p]
  BY DEF Ends
<1>6. HasPart(listAll, part, o)
  BY <1>4, <1>5 DEF HasPart
<1> HIDE DEF o, part
<1>7. /\ k \in Places(part) /\ o + k \in Places(listAll)
      /\ NGramAt(listAll, o + k) = NGramAt(part, k)
  <2>1. k + N - 1 <= Len(part)
    BY DEF part
  <2> QED
    BY <1>1, <1>3, <1>6, <2>1, NGramOfPart
<1> QED
  BY <1>7 DEF o, part

LEMMA ChosenProperties ==
  ASSUME NGramsInv, pass = "write"
  PROVE  /\ IsFiniteSet(NGramsOf(listAll)) /\ ngramsTopK \subseteq NGramsOf(listAll)
         /\ AllFit => ngramsTopK = NGramsOf(listAll)
<1> DEFINE keys == NGramsOf(listAll)
           n == Cardinality(keys)
<1>1. IsFiniteSet(keys) /\ n \in Nat /\ K \in Nat
  BY PlacesProperties, NGramsAssumption DEF NGramsInv
<1>2. ngramsTopK \subseteq keys /\ Cardinality(ngramsTopK) = Min({K, n})
  BY DEF NGramsInv, MostFrequent
<1>3. ASSUME AllFit
      PROVE  ngramsTopK = keys
  <2>1. n <= K
    BY <1>3, <1>1 DEF AllFit
  <2>2. \A m \in {K, n} : (\A l \in {K, n} : m <= l) <=> m = n
    BY <1>1, <2>1
  <2> HIDE DEF n
  <2>3. Min({K, n}) = n
    BY <2>2 DEF Min
  <2> QED
    BY <1>1, <1>2, <2>3, FS_Subset DEF n
<1> QED
  BY <1>1, <1>2, <1>3

LEMMA WholeRows == NGramsInv => RowsAreWhole
<1> SUFFICES ASSUME NGramsInv, Written, AllFit, NoReturn, NEW f \in DOMAIN files
             PROVE  CountsOf(rows[f]) = Cardinality(Places(files[f]))
  BY DEF RowsAreWhole
<1> DEFINE keys == NGramsOf(listAll)
           text == files[f]
           n == Len(text) - N + 1
           g == [k \in Places(text) |-> NGramAt(text, k)]
           sizes == [key \in keys |-> Cardinality({k \in 1 .. n : g[k] = key})]
<1>1. /\ files \in Seq(Seq(Item)) /\ Len(files) \in Nat /\ f \in 1 .. Len(files)
      /\ pass = "write" /\ file = Len(files)
      /\ \A h \in 1 .. file : \A key \in ngramsTopK : rows[h][key] = Times(key, files[h])
  BY LenProperties DEF NGramsInv, Written
<1>2. text \in Seq(Item)
  BY <1>1, ElementOfSeq
<1>3. n \in Int /\ Places(text) = 1 .. n
  BY <1>2, PlacesProperties
<1>4. IsFiniteSet(keys) /\ ngramsTopK = keys
  BY <1>1, ChosenProperties
<1>5. PICK ends : Ends(ends)
  <2>1. Joined(Len(files))
    BY <1>1 DEF NGramsInv
  <2> QED
    BY <2>1 DEF Joined, Ends
<1>6. \A k \in 1 .. n : g[k] \in keys
  <2> SUFFICES ASSUME NEW k \in 1 .. n
               PROVE  NGramAt(text, k) \in keys
    BY <1>3
  <2>1. ends[f - 1] + k \in Places(listAll) /\ NGramAt(listAll, ends[f - 1] + k) = NGramAt(text, k)
    <3>1. Len(text) \in Nat /\ N \in Nat
      BY <1>2, LenProperties, NGramsAssumption
    <3>2. k \in Int /\ k >= 1 /\ k + N - 1 <= Len(text)
      BY <1>3, <3>1
    <3> QED
      BY <1>1, <1>5, <3>2, FileIsPart
  <2> QED
    BY <2>1 DEF NGramsOf
<1>7. \A key \in keys : rows[f][key] = sizes[key]
  <2> SUFFICES ASSUME NEW key \in keys
               PROVE  rows[f][key] = sizes[key]
    OBVIOUS
  <2>1. rows[f][key] = Times(key, text)
    BY <1>1, <1>4
  <2>2. {k \in Places(text) : NGramAt(text, k) = key} = {k \in 1 .. n : g[k] = key}
    BY <1>3
  <2> QED
    BY <2>1, <2>2 DEF Times
<1>8. CountsOf(rows[f]) = SumFunctionOnSet(sizes, keys)
  <2> HIDE DEF sizes, keys
  <2> QED
    BY <1>4, <1>7, SumOfEqual DEF CountsOf
<1>9. CASE n >= 0
  <2>1. n \in Nat
    BY <1>3, <1>9
  <2> HIDE DEF n, g, keys
  <2>2. SumFunctionOnSet(sizes, keys) = n
    BY <1>4, <1>6, <2>1, ClassesCoverPlaces
  <2>3. Cardinality(1 .. n) = n
    <3>1. Cardinality(1 .. n) = IF 1 > n THEN 0 ELSE n - 1 + 1
      BY <2>1, FS_Interval
    <3> QED
      BY <2>1, <3>1
  <2> QED
    BY <1>3, <1>8, <2>2, <2>3
<1>10. CASE n < 0
  <2>1. 1 .. n = {}
    BY <1>3, <1>10
  <2>2. \A key \in keys : sizes[key] = 0
    BY <2>1, FS_EmptySet
  <2> HIDE DEF sizes, keys
  <2>3. SumFunctionOnSet(sizes, keys) = 0
    BY <1>4, <2>2, SumOfZeroes
  <2> QED
    BY <1>3, <1>8, <2>1, <2>3, FS_EmptySet
<1> QED
  BY <1>3, <1>9, <1>10

\* An n-gram of no file begins in one file that is not the last and ends in
\* another, at most N - 2 places from the end of the first.
LEMMA AbsentCrosses ==
  ASSUME NGramsInv, Written, NEW ends, Ends(ends), NEW key \in Absent
  PROVE  \E f \in 1 .. Len(files) - 1, d \in 0 .. N - 2 : NGramAt(listAll, ends[f] - d) = key
<1> DEFINE F == Len(files)
           a == Len(listAll)
<1>1. /\ F \in Nat /\ a \in Nat /\ N \in Nat \ {0} /\ files \in Seq(Seq(Item)) /\ listAll \in Seq(Item)
      /\ DOMAIN rows = 1 .. F /\ pass = "write"
      /\ \A h \in 1 .. F : \A y \in ngramsTopK : rows[h][y] = Times(y, files[h])
  BY LenProperties, NGramsAssumption DEF NGramsInv, Written
<1>2. key \in ngramsTopK /\ \A f \in 1 .. F : rows[f][key] = 0
  BY <1>1 DEF Absent
<1>3. PICK k \in Places(listAll) : NGramAt(listAll, k) = key
  <2>1. key \in NGramsOf(listAll)
    BY <1>1, <1>2, ChosenProperties
  <2> QED
    BY <2>1 DEF NGramsOf
<1>4. k \in Int /\ k >= 1 /\ k + N - 1 <= a
  BY <1>1, <1>3, PlacesProperties
<1>5. /\ \A f \in 0 .. F : ends[f] \in Int
      /\ ends[0] = 0 /\ ends[F] = a
      /\ \A f \in 1 .. F : ends[f] = ends[f - 1] + Len(files[f])
  BY DEF Ends
<1> HIDE DEF F, a
<1> DEFINE Past == {f \in 0 .. F : k <= ends[f]}
<1>6. F \in Past /\ Past \subseteq Nat
  BY <1>1, <1>4, <1>5
<1>7. PICK f \in Past : \A h \in Past : f <= h
  <2> HIDE DEF Past
  <2>1. PICK f \in Past : \A h \in Past : f <= h
    BY <1>6, LeastNumber
  <2> QED
    BY <2>1
<1>8. f \in 1 .. F /\ f - 1 \in 0 .. F /\ k <= ends[f] /\ ends[f - 1] < k
  <2>1. f \in 0 .. F /\ k <= ends[f] /\ f # 0
    BY <1>4, <1>5
  <2>2. f \in 1 .. F /\ f - 1 \in 0 .. F /\ f \in Int /\ f - 1 \in Int /\ ~(f <= f - 1)
    BY <1>1, <2>1
  <2>3. f - 1 \notin Past
    <3> HIDE DEF Past
    <3> QED
      BY <1>7, <2>2
  <2>4. ends[f - 1] \in Int /\ ~(k <= ends[f - 1])
    BY <1>5, <2>2, <2>3
  <2> QED
    BY <1>4, <2>1, <2>2, <2>4
<1> HIDE DEF Past
<1>9. ends[f] < k + N - 1
  <2> SUFFICES ASSUME k + N - 1 <= ends[f]
               PROVE  FALSE
    <3>1. ends[f] \in Int
      BY <1>5, <1>8
    <3> QED
      BY <1>1, <1>4, <3>1
  <2> DEFINE j == k - ends[f - 1]
  <2>1. Len(files[f]) \in Nat /\ files[f] \in Seq(Item)
    BY <1>1, <1>8, ElementOfSeq, LenProperties DEF F
  <2>2. ends[f] \in Int /\ ends[f - 1] \in Int /\ ends[f] = ends[f - 1] + Len(files[f])
    BY <1>5, <1>8
  <2>3. j \in Int /\ j >= 1 /\ j + N - 1 <= Len(files[f]) /\ ends[f - 1] + j = k
    <3>1. PICK x \in Int, y \in Int, z \in Nat : x = ends[f] /\ y = ends[f - 1] /\ z = Len(files[f])
      BY <2>1, <2>2
    <3>2. x = y + z /\ k + N - 1 <= x /\ y < k /\ k \in Int /\ N \in Nat
      BY <1>1, <1>4, <1>8, <2>2, <3>1
    <3>3. k - y \in Int /\ k - y >= 1 /\ (k - y) + N - 1 <= z /\ y + (k - y) = k
      BY <3>2
    <3> QED
      BY <3>1, <3>3
  <2> HIDE DEF j
  <2>4. j \in Places(files[f]) /\ NGramAt(files[f], j) = key
    BY <1>3, <1>8, <2>3, FileIsPart DEF F
  <2>5. Times(key, files[f]) # 0
    BY <2>1, <2>4, PlacesProperties
  <2> QED
    BY <1>1, <1>2, <1>8, <2>5
<1>10. f \in 1 .. F - 1
  <2>1. f # F
    BY <1>1, <1>4, <1>5, <1>9
  <2> QED
    BY <1>1, <1>8, <2>1
<1> DEFINE d == ends[f] - k
<1>11. d \in 0 .. N - 2 /\ ends[f] - d = k
  <2>1. ends[f] \in Int
    BY <1>5, <1>8
  <2> QED
    BY <1>1, <1>4, <1>8, <1>9, <2>1
<1> HIDE DEF d
<1>12. NGramAt(listAll, ends[f] - d) = key
  BY <1>3, <1>11
<1> QED
  BY <1>10, <1>11, <1>12 DEF F

LEMMA FewAbsent == NGramsInv => FewColumnsAbsent
<1> SUFFICES ASSUME NGramsInv, Written, NoReturn
             PROVE  Cardinality(Absent) <= (N - 1) * Max({0, Len(files) - 1})
  BY DEF FewColumnsAbsent
<1> DEFINE F == Len(files)
           A == 1 .. F - 1
           B == 0 .. N - 2
<1>1. F \in Nat /\ N \in Nat \ {0} /\ pass = "write"
  BY LenProperties, NGramsAssumption DEF NGramsInv, Written
<1>2. PICK ends : Ends(ends)
  <2>1. Joined(Len(files))
    BY <1>1 DEF NGramsInv
  <2> QED
    BY <2>1 DEF Joined, Ends
<1> DEFINE g == [p \in A \X B |-> NGramAt(listAll, ends[p[1]] - p[2])]
           T == {g[p] : p \in A \X B}
<1>3. Absent \subseteq T
  <2> SUFFICES ASSUME NEW key \in Absent
               PROVE  key \in T
    OBVIOUS
  <2>1. PICK f \in A, d \in B : NGramAt(listAll, ends[f] - d) = key
    BY <1>2, AbsentCrosses
  <2> HIDE DEF A, B
  <2>2. <<f, d>> \in A \X B /\ g[<<f, d>>] = key
    BY <2>1
  <2> QED
    BY <2>2
<1>4. /\ IsFiniteSet(A) /\ Cardinality(A) = IF 1 > F - 1 THEN 0 ELSE (F - 1) - 1 + 1
      /\ IsFiniteSet(B) /\ Cardinality(B) = IF 0 > N - 2 THEN 0 ELSE (N - 2) - 0 + 1
  <2>1. PICK x \in Int, y \in Int : x = F - 1 /\ y = N - 2
    BY <1>1
  <2>2. /\ IsFiniteSet(1 .. x) /\ Cardinality(1 .. x) = IF 1 > x THEN 0 ELSE x - 1 + 1
        /\ IsFiniteSet(0 .. y) /\ Cardinality(0 .. y) = IF 0 > y THEN 0 ELSE y - 0 + 1
    BY FS_Interval
  <2> QED
    BY <2>1, <2>2
<1>5. Cardinality(A) = Max({0, F - 1}) /\ Max({0, F - 1}) \in Nat
  <2> DEFINE m == IF 1 > F - 1 THEN 0 ELSE F - 1
  <2>1. \A x \in {0, F - 1} : (\A y \in {0, F - 1} : x >= y) <=> x = m
    BY <1>1
  <2>2. m \in {0, F - 1} /\ m \in Nat /\ Cardinality(A) = m
    BY <1>1, <1>4
  <2> HIDE DEF m, F
  <2>3. Max({0, F - 1}) = m
    BY <2>1, <2>2 DEF Max
  <2> QED
    BY <2>2, <2>3
<1>6. Cardinality(B) = N - 1
  BY <1>1, <1>4
<1> HIDE DEF A, B
<1>7. IsFiniteSet(A \X B) /\ Cardinality(A \X B) = Cardinality(A) * Cardinality(B)
  BY <1>4, FS_Product
<1>8. IsFiniteSet(T) /\ Cardinality(T) <= Cardinality(A \X B)
  <2>1. g \in [A \X B -> T] /\ \A key \in T : \E p \in A \X B : g[p] = key
    OBVIOUS
  <2> HIDE DEF g, T
  <2>2. g \in Surjection(A \X B, T)
    BY <2>1 DEF Surjection
  <2> QED
    BY <1>7, <2>2, FS_Surjection
<1>9. Cardinality(Absent) <= Cardinality(T) /\ Cardinality(Absent) \in Nat /\ Cardinality(T) \in Nat
  <2> HIDE DEF T
  <2> QED
    BY <1>3, <1>8, FS_Subset, FS_CardinalityType
<1> DEFINE m == Max({0, Len(files) - 1})
<1>10. m \in Nat /\ Cardinality(A) = m
  BY <1>5 DEF F
<1> HIDE DEF T, m, F
<1>11. Cardinality(A \X B) = m * (N - 1) /\ m * (N - 1) \in Nat /\ m * (N - 1) = (N - 1) * m
  BY <1>1, <1>6, <1>7, <1>10
<1>12. Cardinality(Absent) <= (N - 1) * m
  BY <1>8, <1>9, <1>11
<1> QED
  BY <1>12 DEF m

\* The two passes over the files agree: with a column for every n-gram a row
\* counts every place of its file, and the columns that only the joints of
\* the files account for are few.  For every N, K and option, over any number
\* of files of any length.
THEOREM TwoPassesAgree == NGramsSpec => []PassesAgree
<1>1. NGramsInv /\ [NGramsNext]_ngramsVars => NGramsInv'
  <2> SUFFICES ASSUME NGramsInv, [NGramsNext]_ngramsVars
               PROVE  NGramsInv'
    OBVIOUS
  <2>1. CASE UNCHANGED ngramsVars
    <3>1. UNCHANGED <<files, pass, file, listAll, ngramsTopK, rows>>
      BY <2>1 DEF ngramsVars
    <3>2. NoReturn' = NoReturn /\ Joined(file)' = Joined(file) /\ Joined(Len(files))' = Joined(Len(files))
      BY <3>1 DEF NoReturn, Joined
    <3>3. MostFrequent(NGramsOf(listAll))' = MostFrequent(NGramsOf(listAll))
      BY <3>1 DEF MostFrequent, Times, NGramsOf, Places, NGramAt
    <3> QED
      BY <3>1, <3>2, <3>3 DEF NGramsInv
  <2> QED
    BY <2>1, ListPreserves, CountPreserves, ChoosePreserves, WritePreserves DEF NGramsNext
<1>2. NGramsInv => PassesAgree
  BY WholeRows, FewAbsent DEF PassesAgree
<1> QED
  BY <1>1, <1>2, NGramsInvInitially, PTL DEF NGramsSpec
-----------------------------------------------------------------------------
(***************************************************************************)
(* get_words.  Suffixes, character by character.                           *)
(***************************************************************************)
LEMMA SuffixMeans ==
  ASSUME NEW S, NEW e \in Seq(S), NEW w \in Seq(S)
  PROVE  IsSuffix(e, w) <=>
           /\ Len(e) <= Len(w)
           /\ \A k \in 1 .. Len(e) : e[k] = w[Len(w) - Len(e) + k]
<1> DEFINE m == Len(e)
           n == Len(w)
           re == Reverse(e)
           rw == Reverse(w)
<1>1. m \in Nat /\ n \in Nat /\ DOMAIN e = 1 .. m /\ DOMAIN w = 1 .. n
  BY LenProperties
<1>2. /\ re \in Seq(S) /\ Len(re) = m /\ \A k \in 1 .. m : re[k] = e[(m - k) + 1]
      /\ rw \in Seq(S) /\ Len(rw) = n /\ \A k \in 1 .. n : rw[k] = w[(n - k) + 1]
  <2>1. \A k \in 1 .. m : (m - k) + 1 \in 1 .. m
    BY <1>1
  <2>2. \A k \in 1 .. n : (n - k) + 1 \in 1 .. n
    BY <1>1
  <2>3. (\A k \in 1 .. m : e[k] \in S) /\ (\A k \in 1 .. n : w[k] \in S)
    BY ElementOfSeq
  <2>4. re = [k \in 1 .. m |-> e[(m - k) + 1]] /\ rw = [k \in 1 .. n |-> w[(n - k) + 1]]
    BY DEF Reverse
  <2>5. re \in [1 .. m -> S] /\ rw \in [1 .. n -> S]
    BY <2>1, <2>2, <2>3, <2>4
  <2> QED
    BY <1>1, <2>4, <2>5, SeqDef, LenProperties
<1>3. IsSuffix(e, w) <=> m <= n /\ SubSeq(re, 1, m) = SubSeq(rw, 1, m)
  BY <1>2 DEF IsSuffix, IsPrefix
<1> HIDE DEF m, n, re, rw
<1>4. ASSUME m <= n
      PROVE  SubSeq(re, 1, m) = SubSeq(rw, 1, m) <=> \A k \in 1 .. m : re[k] = rw[k]
  <2>1. /\ \A k \in 1 .. m : re[k] \in S
        /\ \A k \in 1 .. m : k \in 1 .. n
    BY <1>1, <1>2, <1>4, ElementOfSeq
  <2>2. \A k \in 1 .. m : rw[k] \in S
    BY <1>2, <2>1, ElementOfSeq
  <2>3. /\ SubSeq(re, 1, m) \in Seq(S) /\ Len(SubSeq(re, 1, m)) = m
        /\ \A k \in 1 .. m : SubSeq(re, 1, m)[k] = re[k]
    <3>1. m - 1 + 1 = m /\ \A k \in 1 .. m : 1 + k - 1 = k
      BY <1>1
    <3>2. /\ SubSeq(re, 1, m) \in Seq(S) /\ Len(SubSeq(re, 1, m)) = IF 1 <= m THEN m - 1 + 1 ELSE 0
          /\ \A k \in 1 .. m - 1 + 1 : SubSeq(re, 1, m)[k] = re[1 + k - 1]
      BY <1>1, <2>1, SubSeqProperties
    <3> QED
      BY <1>1, <3>1, <3>2
  <2>4. /\ SubSeq(rw, 1, m) \in Seq(S) /\ Len(SubSeq(rw, 1, m)) = m
        /\ \A k \in 1 .. m : SubSeq(rw, 1, m)[k] = rw[k]
    <3>1. m - 1 + 1 = m /\ \A k \in 1 .. m : 1 + k - 1 = k
      BY <1>1
    <3>2. /\ SubSeq(rw, 1, m) \in Seq(S) /\ Len(SubSeq(rw, 1, m)) = IF 1 <= m THEN m - 1 + 1 ELSE 0
          /\ \A k \in 1 .. m - 1 + 1 : SubSeq(rw, 1, m)[k] = rw[1 + k - 1]
      BY <1>1, <2>2, SubSeqProperties
    <3> QED
      BY <1>1, <3>1, <3>2
  <2> QED
    BY <2>3, <2>4, SeqEqual
<1>5. ASSUME m <= n
      PROVE  (\A k \in 1 .. m : re[k] = rw[k]) <=> \A k \in 1 .. m : e[k] = w[n - m + k]
  <2>1. ASSUME NEW k \in 1 .. m
        PROVE  /\ (m - k) + 1 \in 1 .. m /\ (m - ((m - k) + 1)) + 1 = k
               /\ k \in 1 .. n /\ n - m + ((m - k) + 1) = (n - k) + 1
               /\ (m - k) + 1 \in 1 .. n /\ (n - ((m - k) + 1)) + 1 = n - m + k
    BY <1>1, <1>5
  <2>2. ASSUME \A k \in 1 .. m : re[k] = rw[k], NEW k \in 1 .. m
        PROVE  e[k] = w[n - m + k]
    <3>1. PICK j \in 1 .. m : (m - j) + 1 = k /\ j \in 1 .. n /\ (n - j) + 1 = n - m + k
      BY <2>1
    <3>2. re[j] = e[(m - j) + 1] /\ rw[j] = w[(n - j) + 1] /\ re[j] = rw[j]
      BY <1>2, <2>2, <3>1
    <3> QED
      BY <3>1, <3>2
  <2>3. ASSUME \A k \in 1 .. m : e[k] = w[n - m + k], NEW k \in 1 .. m
        PROVE  re[k] = rw[k]
    <3>1. re[k] = e[(m - k) + 1] /\ rw[k] = w[(n - k) + 1]
      BY <1>2, <2>1
    <3>2. e[(m - k) + 1] = w[n - m + ((m - k) + 1)]
      BY <2>1, <2>3
    <3> QED
      BY <2>1, <3>1, <3>2
  <2> QED
    BY <2>2, <2>3
<1> QED
  BY <1>3, <1>4, <1>5 DEF m, n

\* What is left when the last n characters are cut off.
LEMMA WithoutLastProperties ==
  ASSUME NEW S, NEW w \in Seq(S), NEW n \in Nat, n <= Len(w)
  PROVE  /\ WithoutLast(w, n) \in Seq(S)
         /\ Len(WithoutLast(w, n)) = Len(w) - n
         /\ \A k \in 1 .. Len(w) - n : WithoutLast(w, n)[k] = w[k]
<1> DEFINE m == Len(w) - n
<1>1. m \in Nat /\ m <= Len(w) /\ m - 1 + 1 = m /\ \A k \in 1 .. m : 1 + k - 1 = k /\ k \in 1 .. Len(w)
  BY LenProperties
<1>2. \A k \in 1 .. m : w[k] \in S
  BY <1>1, ElementOfSeq
<1> HIDE DEF m
<1>3. /\ SubSeq(w, 1, m) \in Seq(S) /\ Len(SubSeq(w, 1, m)) = IF 1 <= m THEN m - 1 + 1 ELSE 0
      /\ \A k \in 1 .. m - 1 + 1 : SubSeq(w, 1, m)[k] = w[1 + k - 1]
  BY <1>1, <1>2, SubSeqProperties
<1>4. WithoutLast(w, n) = SubSeq(w, 1, m)
  BY DEF WithoutLast, m
<1>5. Len(SubSeq(w, 1, m)) = m /\ \A k \in 1 .. m : SubSeq(w, 1, m)[k] = w[k]
  BY <1>1, <1>3
<1> QED
  BY <1>3, <1>4, <1>5 DEF m

\* The characters of the suffixes that stem knows, and the letters.
Stock == Letter \cup {"s", "e", "i", "d", "n", "g", "a", "t", "b", "l", "z"}

\* One suffix after another, as the characters at the end of a word.
LEMMA SuffixOf1 ==
  ASSUME NEW w \in Seq(Stock), NEW a \in Stock
  PROVE  IsSuffix(<<a>>, w) <=> Len(w) >= 1 /\ w[Len(w)] = a
<1>1. <<a>> \in Seq(Stock) /\ Len(<<a>>) = 1 /\ <<a>>[1] = a /\ Len(w) \in Nat
  BY LenProperties
<1>2. IsSuffix(<<a>>, w) <=> 1 <= Len(w) /\ \A k \in 1 .. 1 : <<a>>[k] = w[Len(w) - 1 + k]
  BY <1>1, SuffixMeans
<1>3. 1 .. 1 = {1} /\ Len(w) - 1 + 1 = Len(w)
  BY <1>1
<1> QED
  BY <1>1, <1>2, <1>3

LEMMA SuffixOf2 ==
  ASSUME NEW w \in Seq(Stock), NEW a \in Stock, NEW b \in Stock
  PROVE  IsSuffix(<<a, b>>, w) <=> Len(w) >= 2 /\ w[Len(w) - 1] = a /\ w[Len(w)] = b
<1>1. <<a, b>> \in Seq(Stock) /\ Len(<<a, b>>) = 2 /\ <<a, b>>[1] = a /\ <<a, b>>[2] = b /\ Len(w) \in Nat
  BY LenProperties
<1>2. IsSuffix(<<a, b>>, w) <=> 2 <= Len(w) /\ \A k \in 1 .. 2 : <<a, b>>[k] = w[Len(w) - 2 + k]
  BY <1>1, SuffixMeans
<1>3. 1 .. 2 = {1, 2} /\ Len(w) - 2 + 2 = Len(w) /\ Len(w) - 2 + 1 = Len(w) - 1
  BY <1>1
<1> QED
  BY <1>1, <1>2, <1>3

LEMMA SuffixOf3 ==
  ASSUME NEW w \in Seq(Stock), NEW a \in Stock, NEW b \in Stock, NEW c \in Stock
  PROVE  IsSuffix(<<a, b, c>>, w) <=>
           Len(w) >= 3 /\ w[Len(w) - 2] = a /\ w[Len(w) - 1] = b /\ w[Len(w)] = c
<1>1. /\ <<a, b, c>> \in Seq(Stock) /\ Len(<<a, b, c>>) = 3 /\ Len(w) \in Nat
      /\ <<a, b, c>>[1] = a /\ <<a, b, c>>[2] = b /\ <<a, b, c>>[3] = c
  BY LenProperties
<1>2. IsSuffix(<<a, b, c>>, w) <=> 3 <= Len(w) /\ \A k \in 1 .. 3 : <<a, b, c>>[k] = w[Len(w) - 3 + k]
  BY <1>1, SuffixMeans
<1>3. /\ 1 .. 3 = {1, 2, 3} /\ Len(w) - 3 + 3 = Len(w)
      /\ Len(w) - 3 + 1 = Len(w) - 2 /\ Len(w) - 3 + 2 = Len(w) - 1
  BY <1>1
<1> QED
  BY <1>1, <1>2, <1>3

LEMMA SuffixOf4 ==
  ASSUME NEW w \in Seq(Stock), NEW a \in Stock, NEW b \in Stock, NEW c \in Stock, NEW d \in Stock
  PROVE  IsSuffix(<<a, b, c, d>>, w) <=>
           Len(w) >= 4 /\ w[Len(w) - 3] = a /\ w[Len(w) - 2] = b /\ w[Len(w) - 1] = c /\ w[Len(w)] = d
<1>1. /\ <<a, b, c, d>> \in Seq(Stock) /\ Len(<<a, b, c, d>>) = 4 /\ Len(w) \in Nat
      /\ <<a, b, c, d>>[1] = a /\ <<a, b, c, d>>[2] = b /\ <<a, b, c, d>>[3] = c /\ <<a, b, c, d>>[4] = d
  BY LenProperties
<1>2. IsSuffix(<<a, b, c, d>>, w) <=> 4 <= Len(w) /\ \A k \in 1 .. 4 : <<a, b, c, d>>[k] = w[Len(w) - 4 + k]
  BY <1>1, SuffixMeans
<1>3. /\ 1 .. 4 = {1, 2, 3, 4} /\ Len(w) - 4 + 4 = Len(w) /\ Len(w) - 4 + 1 = Len(w) - 3
      /\ Len(w) - 4 + 2 = Len(w) - 2 /\ Len(w) - 4 + 3 = Len(w) - 1
  BY <1>1
<1> QED
  BY <1>1, <1>2, <1>3

\* What a step of stem makes of w: a word that is no longer.
Shortened(v, w) == v \in Seq(Letter) /\ Len(v) \in Nat /\ Len(v) <= Len(w)

LEMMA CutShortens ==
  ASSUME NEW w \in Seq(Letter), NEW n \in Nat, n <= Len(w)
  PROVE  Shortened(WithoutLast(w, n), w) /\ Shortened(w, w)
  BY WithoutLastProperties, LenProperties DEF Shortened

\* A suffix is no longer than the word.
LEMMA SuffixFits ==
  ASSUME NEW w \in Seq(Stock)
  PROVE  /\ Len(w) \in Nat
         /\ IsSuffix(<<"s", "s", "e", "s">>, w) => Len(w) >= 4
         /\ IsSuffix(<<"i", "e", "s">>, w) => Len(w) >= 3
         /\ IsSuffix(<<"e", "e", "d">>, w) => Len(w) >= 3
         /\ IsSuffix(<<"i", "n", "g">>, w) => Len(w) >= 3
         /\ IsSuffix(<<"e", "d">>, w) => Len(w) >= 2
         /\ IsSuffix(<<"a", "t">>, w) => Len(w) >= 2
         /\ IsSuffix(<<"b", "l">>, w) => Len(w) >= 2
         /\ IsSuffix(<<"i", "z">>, w) => Len(w) >= 2
<1>1. "s" \in Stock /\ "e" \in Stock /\ "i" \in Stock /\ "d" \in Stock /\ "n" \in Stock /\ "g" \in Stock
  BY DEF Stock
<1>2. "a" \in Stock /\ "t" \in Stock /\ "b" \in Stock /\ "l" \in Stock /\ "z" \in Stock
  BY DEF Stock
<1>3. Len(w) \in Nat
  BY LenProperties
<1>4. IsSuffix(<<"s", "s", "e", "s">>, w) => Len(w) >= 4
  BY <1>1, SuffixOf4
<1>5. /\ IsSuffix(<<"i", "e", "s">>, w) => Len(w) >= 3
      /\ IsSuffix(<<"e", "e", "d">>, w) => Len(w) >= 3
      /\ IsSuffix(<<"i", "n", "g">>, w) => Len(w) >= 3
  BY <1>1, SuffixOf3
<1>6. /\ IsSuffix(<<"e", "d">>, w) => Len(w) >= 2
      /\ IsSuffix(<<"a", "t">>, w) => Len(w) >= 2
      /\ IsSuffix(<<"b", "l">>, w) => Len(w) >= 2
      /\ IsSuffix(<<"i", "z">>, w) => Len(w) >= 2
  BY <1>1, <1>2, SuffixOf2
<1> QED
  BY <1>3, <1>4, <1>5, <1>6

LEMMA LettersAreStock == Seq(Letter) \subseteq Seq(Stock)
  BY SeqMonotonic DEF Stock

LEMMA PluralShortens == \A w \in Seq(Letter) : Shortened(Plural(w), w)
<1> SUFFICES ASSUME NEW w \in Seq(Letter)
             PROVE  Shortened(Plural(w), w)
  OBVIOUS
<1>1. CASE IsSuffix(<<"s", "s", "e", "s">>, w) \/ IsSuffix(<<"i", "e", "s">>, w)
  <2>1. Plural(w) = WithoutLast(w, 2)
    BY <1>1 DEF Plural
  <2>2. 2 <= Len(w)
    BY <1>1, SuffixFits, LettersAreStock
  <2> QED
    BY <2>1, <2>2, CutShortens
<1>2. CASE ~ (IsSuffix(<<"s", "s", "e", "s">>, w) \/ IsSuffix(<<"i", "e", "s">>, w))
  <2>1. Plural(w) = w \/ (Plural(w) = WithoutLast(w, 1) /\ Len(w) > 1)
    BY <1>2 DEF Plural
  <2>2. Shortened(w, w) /\ (Len(w) > 1 => Shortened(WithoutLast(w, 1), w))
    BY CutShortens, LenProperties
  <2> QED
    BY <2>1, <2>2
<1> QED
  BY <1>1, <1>2

LEMMA EndsShorten ==
  \A w \in Seq(Letter) : Shortened(Eed(w), w) /\ Shortened(Ed(w), w) /\ Shortened(Ing(w), w)
<1> SUFFICES ASSUME NEW w \in Seq(Letter)
             PROVE  Shortened(Eed(w), w) /\ Shortened(Ed(w), w) /\ Shortened(Ing(w), w)
  OBVIOUS
<1>1. \A n \in Nat : n <= Len(w) => Shortened(WithoutLast(w, n), w)
  BY CutShortens
<1>2. Shortened(w, w) /\ Len(w) \in Nat
  BY CutShortens, LenProperties
<1>3. /\ IsSuffix(<<"e", "e", "d">>, w) => Len(w) >= 3
      /\ IsSuffix(<<"i", "n", "g">>, w) => Len(w) >= 3
      /\ IsSuffix(<<"e", "d">>, w) => Len(w) >= 2
  BY SuffixFits, LettersAreStock
<1>4. Shortened(Eed(w), w)
  BY <1>1, <1>2, <1>3 DEF Eed
<1>5. Shortened(Ed(w), w)
  BY <1>1, <1>2, <1>3 DEF Ed
<1>6. Shortened(Ing(w), w)
  BY <1>1, <1>2, <1>3 DEF Ing
<1> QED
  BY <1>4, <1>5, <1>6

\* A stem is of letters and by one at most longer; nothing has none.
LEMMA StemProperties ==
  /\ \A w \in Seq(Letter) : /\ stem(w) \in Seq(Letter)
                            /\ Len(stem(w)) \in Nat /\ Len(w) \in Nat /\ Len(stem(w)) <= Len(w) + 1
  /\ stem(<<>>) = <<>>
<1>1. ASSUME NEW w \in Seq(Letter)
      PROVE  Shortened(Ing(Ed(Eed(Plural(w)))), w)
  <2>1. Shortened(Plural(w), w)
    BY PluralShortens
  <2>2. Shortened(Eed(Plural(w)), Plural(w))
    BY <2>1, EndsShorten DEF Shortened
  <2>3. Shortened(Ed(Eed(Plural(w))), Eed(Plural(w)))
    BY <2>2, EndsShorten DEF Shortened
  <2>4. Shortened(Ing(Ed(Eed(Plural(w)))), Ed(Eed(Plural(w))))
    BY <2>3, EndsShorten DEF Shortened
  <2> QED
    BY <2>1, <2>2, <2>3, <2>4, LenProperties DEF Shortened
<1>2. ASSUME NEW w \in Seq(Letter)
      PROVE  FinalE(w) \in Seq(Letter) /\ Len(FinalE(w)) \in Nat /\ Len(FinalE(w)) <= Len(w) + 1
  <2>1. Append(w, "e") \in Seq(Letter) /\ Len(Append(w, "e")) = Len(w) + 1 /\ Len(w) \in Nat
    BY WordReaderAssumption, AppendProperties, LenProperties
  <2>2. FinalE(w) = w \/ FinalE(w) = Append(w, "e")
    BY DEF FinalE
  <2> QED
    BY <2>1, <2>2
<1>3. ASSUME NEW w \in Seq(Letter)
      PROVE  /\ stem(w) \in Seq(Letter)
             /\ Len(stem(w)) \in Nat /\ Len(w) \in Nat /\ Len(stem(w)) <= Len(w) + 1
  <2> DEFINE v == Ing(Ed(Eed(Plural(w))))
  <2>1. v \in Seq(Letter) /\ Len(v) \in Nat /\ Len(v) <= Len(w) /\ Len(w) \in Nat
    BY <1>1, LenProperties DEF Shortened
  <2>2. stem(w) = FinalE(v)
    BY DEF stem
  <2> HIDE DEF v
  <2>3. FinalE(v) \in Seq(Letter) /\ Len(FinalE(v)) \in Nat /\ Len(FinalE(v)) <= Len(v) + 1
    BY <1>2, <2>1
  <2> QED
    BY <2>1, <2>2, <2>3
<1>4. stem(<<>>) = <<>>
  <2> DEFINE v == Ing(Ed(Eed(Plural(<<>>))))
  <2>1. <<>> \in Seq(Letter) /\ Len(<<>>) = 0 /\ <<>> \in Seq(Stock)
    BY EmptySeq
  <2>2. v \in Seq(Letter) /\ Len(v) \in Nat /\ Len(v) <= 0
    BY <1>1, <2>1 DEF Shortened
  <2>3. stem(<<>>) = FinalE(v)
    BY DEF stem
  <2> HIDE DEF v
  <2>4. v = <<>>
    BY <2>2, EmptySeq
  <2>5. FinalE(v) = v
    <3>1. v \in Seq(Stock) /\ ~ (Len(v) >= 2)
      BY <2>2, LettersAreStock
    <3>2. /\ ~ IsSuffix(<<"a", "t">>, v) /\ ~ IsSuffix(<<"b", "l">>, v)
          /\ ~ IsSuffix(<<"i", "z">>, v)
      BY <3>1, SuffixFits
    <3> QED
      BY <3>2 DEF FinalE
  <2> QED
    BY <2>3, <2>4, <2>5
<1> QED
  BY <1>3, <1>4

\* Stripping a token leaves letters of it, none of nothing.
LEMMA StripProperties ==
  /\ \A t : t \in Seq(Range(t)) =>
       /\ remove_punctuation(t) \in Seq(Letter)
       /\ Len(remove_punctuation(t)) <= Len(t) /\ Len(t) \in Nat
  /\ remove_punctuation(<<>>) = <<>>
<1>1. ASSUME NEW t, t \in Seq(Range(t))
      PROVE  /\ remove_punctuation(t) \in Seq(Letter)
             /\ Len(remove_punctuation(t)) <= Len(t) /\ Len(t) \in Nat
             /\ Len(remove_punctuation(t)) \in Nat
  <2> DEFINE P == {k \in DOMAIN t : t[k] \in Letter \cup DOMAIN LowerCase}
             kept == Picked(t, P)
             n == Cardinality(P)
  <2>1. Len(t) \in Nat /\ DOMAIN t = 1 .. Len(t)
    BY <1>1, LenProperties
  <2>2. IsFiniteSet(1 .. Len(t)) /\ Cardinality(1 .. Len(t)) = Len(t)
    <3>1. PICK l \in Nat : l = Len(t)
      BY <2>1
    <3>2. IsFiniteSet(1 .. l) /\ Cardinality(1 .. l) = l
      BY FS_Interval
    <3> QED
      BY <3>1, <3>2
  <2>3. P \subseteq 1 .. Len(t)
    BY <2>1
  <2>4. P \subseteq Int /\ IsFiniteSet(P) /\ n <= Len(t) /\ n \in Nat
    <3>1. IsFiniteSet(P) /\ n <= Len(t)
      BY <2>2, <2>3, FS_Subset
    <3> QED
      BY <2>3, <3>1, FS_CardinalityType
  <2>5. remove_punctuation(t) = [k \in DOMAIN kept |-> IF kept[k] \in Letter THEN kept[k] ELSE LowerCase[kept[k]]]
    BY DEF remove_punctuation
  <2>6. \A k \in P : t[k] \in Letter \cup DOMAIN LowerCase
    OBVIOUS
  <2> HIDE DEF P, n
  <2>7. DOMAIN kept = 1 .. n /\ \A k \in 1 .. n : kept[k] \in Letter \cup DOMAIN LowerCase
    <3>1. /\ DOMAIN kept = 1 .. n
          /\ \A k \in 1 .. n : Ascending(P)[k] \in P /\ kept[k] = t[Ascending(P)[k]]
      <4>1. P \subseteq Int /\ IsFiniteSet(P)
        BY <2>4
      <4>2. Ascending(P) \in [1 .. n -> P]
        BY <4>1, AscendingProperties DEF n
      <4>3. kept = [k \in 1 .. n |-> t[Ascending(P)[k]]]
        BY DEF Picked, n
      <4> QED
        BY <4>2, <4>3
    <3> QED
      BY <2>6, <3>1
  <2> HIDE DEF kept
  <2>8. remove_punctuation(t) \in [1 .. n -> Letter]
    BY <2>5, <2>7, WordReaderAssumption
  <2>9. remove_punctuation(t) \in Seq(Letter) /\ Len(remove_punctuation(t)) = n
    BY <2>4, <2>8, SeqDef, LenProperties
  <2> QED
    BY <2>1, <2>4, <2>9
<1>2. remove_punctuation(<<>>) = <<>>
  <2>1. <<>> \in Seq(Range(<<>>)) /\ Len(<<>>) = 0
    <3>1. \A S : <<>> \in Seq(S) /\ Len(<<>>) = 0
      BY EmptySeq
    <3> QED
      BY <3>1, Zenon
  <2>2. PICK t : t = <<>>
    OBVIOUS
  <2>3. t \in Seq(Range(t)) /\ Len(t) = 0
    BY <2>1, <2>2, Zenon
  <2>4. remove_punctuation(t) \in Seq(Letter) /\ Len(remove_punctuation(t)) = 0
    <3>1. t \in Seq(Range(t))
      BY <2>3
    <3>2. /\ remove_punctuation(t) \in Seq(Letter)
          /\ Len(remove_punctuation(t)) <= Len(t) /\ Len(remove_punctuation(t)) \in Nat
      BY <1>1, <3>1, Zenon
    <3> QED
      BY <2>3, <3>2
  <2> QED
    BY <2>2, <2>4, EmptySeq
<1> QED
  BY <1>1, <1>2

\* The plural of w, and w with a longer ending, character by character.
LEMMA PluralForm ==
  ASSUME NEW w \in Seq(Stock), w # <<>>,
         ~ EndsIn(w, {<<"s">>, <<"i", "e">>, <<"s", "s", "e">>})
  PROVE  Plural(w \o <<"s">>) = w /\ Plural(w) = w
<1> DEFINE a == w \o <<"s">>
           n == Len(w)
<1>1. n \in Nat /\ n >= 1
  BY LenProperties, EmptySeq
<1>2. a \in Seq(Stock) /\ Len(a) = n + 1 /\ a[n + 1] = "s" /\ \A k \in 1 .. n : a[k] = w[k]
  <2>1. <<"s">> \in Seq(Stock) /\ Len(<<"s">>) = 1 /\ <<"s">>[1] = "s"
    BY DEF Stock
  <2>2. /\ w \o <<"s">> \in Seq(Stock) /\ Len(w \o <<"s">>) = n + 1
        /\ \A k \in 1 .. n + 1 : (w \o <<"s">>)[k] = IF k <= n THEN w[k] ELSE <<"s">>[k - n]
    BY <2>1, ConcatProperties
  <2>3. /\ \A k \in 1 .. n : k \in 1 .. n + 1 /\ k <= n
        /\ n + 1 \in 1 .. n + 1 /\ ~ (n + 1 <= n) /\ (n + 1) - n = 1
    BY <1>1
  <2> QED
    BY <2>1, <2>2, <2>3
<1>3. "s" \in Stock /\ "i" \in Stock /\ "e" \in Stock
  BY DEF Stock
<1>4. ~ IsSuffix(<<"s">>, w) /\ ~ IsSuffix(<<"i", "e">>, w) /\ ~ IsSuffix(<<"s", "s", "e">>, w)
  BY DEF EndsIn
<1> HIDE DEF a, n
<1>5. /\ w[n] # "s"
      /\ n >= 2 => ~ (w[n - 1] = "i" /\ w[n] = "e")
      /\ n >= 3 => ~ (w[n - 2] = "s" /\ w[n - 1] = "s" /\ w[n] = "e")
  BY <1>1, <1>3, <1>4, SuffixOf1, SuffixOf2, SuffixOf3 DEF n
<1>6. /\ (n + 1) - 1 = n /\ (n + 1) - 2 = n - 1 /\ (n + 1) - 3 = n - 2
      /\ n \in 1 .. n /\ (n >= 2 => n - 1 \in 1 .. n) /\ (n >= 3 => n - 2 \in 1 .. n)
      /\ (n + 1 >= 4 => n >= 3) /\ (n + 1 >= 3 => n >= 2)
  BY <1>1
<1>7. ~ IsSuffix(<<"s", "s", "e", "s">>, a)
  <2>1. IsSuffix(<<"s", "s", "e", "s">>, a) =>
          Len(a) >= 4 /\ a[Len(a) - 3] = "s" /\ a[Len(a) - 2] = "s" /\ a[Len(a) - 1] = "e"
    <3>1. IsSuffix(<<"s", "s", "e", "s">>, a) <=>
            /\ Len(a) >= 4 /\ a[Len(a) - 3] = "s" /\ a[Len(a) - 2] = "s"
            /\ a[Len(a) - 1] = "e" /\ a[Len(a)] = "s"
      <4>1. a \in Seq(Stock)
        BY <1>2
      <4> QED
        BY <1>3, <4>1, SuffixOf4
    <3> QED
      BY <3>1
  <2> QED
    BY <1>2, <1>5, <1>6, <2>1
<1>8. ~ IsSuffix(<<"i", "e", "s">>, a)
  <2>1. IsSuffix(<<"i", "e", "s">>, a) => Len(a) >= 3 /\ a[Len(a) - 2] = "i" /\ a[Len(a) - 1] = "e"
    BY <1>2, <1>3, SuffixOf3
  <2> QED
    BY <1>2, <1>5, <1>6, <2>1
<1>9. ~ IsSuffix(<<"s", "s">>, a)
  <2>1. IsSuffix(<<"s", "s">>, a) => Len(a) >= 2 /\ a[Len(a) - 1] = "s"
    BY <1>2, <1>3, SuffixOf2
  <2> QED
    BY <1>2, <1>5, <1>6, <2>1
<1>10. IsSuffix(<<"s">>, a) /\ Len(a) > 1
  <2>1. Len(a) >= 1 /\ a[Len(a)] = "s" => IsSuffix(<<"s">>, a)
    BY <1>2, <1>3, SuffixOf1
  <2> QED
    BY <1>1, <1>2, <2>1
<1>11. Plural(a) = WithoutLast(a, 1)
  BY <1>7, <1>8, <1>9, <1>10 DEF Plural
<1>12. WithoutLast(a, 1) = w
  <2>1. 1 \in Nat /\ 1 <= Len(a) /\ Len(a) - 1 = n
    BY <1>1, <1>2
  <2>2. /\ WithoutLast(a, 1) \in Seq(Stock) /\ Len(WithoutLast(a, 1)) = n
        /\ \A k \in 1 .. n : WithoutLast(a, 1)[k] = a[k]
    BY <1>2, <2>1, WithoutLastProperties
  <2> QED
    BY <1>2, <2>2, SeqEqual DEF n
<1>13. Plural(w) = w
  <2>1. ~ IsSuffix(<<"s", "s", "e", "s">>, w)
    BY <1>3, <1>5, SuffixOf4 DEF n
  <2>2. ~ IsSuffix(<<"i", "e", "s">>, w)
    BY <1>3, <1>5, SuffixOf3 DEF n
  <2> QED
    BY <1>4, <2>1, <2>2 DEF Plural
<1> QED
  BY <1>11, <1>12, <1>13 DEF a

LEMMA PastForm ==
  ASSUME NEW w \in Seq(Stock), w # <<>>, ~ EndsIn(w, {<<"e">>, <<"i", "n", "g">>})
  PROVE  Ing(Ed(Eed(Plural(w \o <<"e", "d">>)))) = w
<1> DEFINE a == w \o <<"e", "d">>
           n == Len(w)
<1>1. n \in Nat /\ n >= 1
  BY LenProperties, EmptySeq
<1>2. /\ a \in Seq(Stock) /\ Len(a) = n + 2 /\ a[n + 1] = "e" /\ a[n + 2] = "d"
      /\ \A k \in 1 .. n : a[k] = w[k]
  <2>1. /\ <<"e", "d">> \in Seq(Stock) /\ Len(<<"e", "d">>) = 2
        /\ <<"e", "d">>[1] = "e" /\ <<"e", "d">>[2] = "d"
    BY DEF Stock
  <2>2. /\ w \o <<"e", "d">> \in Seq(Stock) /\ Len(w \o <<"e", "d">>) = n + 2
        /\ \A k \in 1 .. n + 2 : (w \o <<"e", "d">>)[k] = IF k <= n THEN w[k] ELSE <<"e", "d">>[k - n]
    BY <2>1, ConcatProperties
  <2>3. /\ \A k \in 1 .. n : k \in 1 .. n + 2 /\ k <= n
        /\ n + 1 \in 1 .. n + 2 /\ ~ (n + 1 <= n) /\ (n + 1) - n = 1
        /\ n + 2 \in 1 .. n + 2 /\ ~ (n + 2 <= n) /\ (n + 2) - n = 2
    BY <1>1
  <2> QED
    BY <2>1, <2>2, <2>3
<1>3. "s" \in Stock /\ "i" \in Stock /\ "e" \in Stock /\ "d" \in Stock /\ "n" \in Stock /\ "g" \in Stock
  BY DEF Stock
<1>4. ~ IsSuffix(<<"e">>, w) /\ ~ IsSuffix(<<"i", "n", "g">>, w)
  BY DEF EndsIn
<1> HIDE DEF a, n
<1>5. w[n] # "e"
  BY <1>1, <1>3, <1>4, SuffixOf1 DEF n
<1>6. Plural(a) = a
  <2>1. IsSuffix(<<"s", "s", "e", "s">>, a) => a[Len(a)] = "s"
    <3>1. IsSuffix(<<"s", "s", "e", "s">>, a) <=>
            /\ Len(a) >= 4 /\ a[Len(a) - 3] = "s" /\ a[Len(a) - 2] = "s"
            /\ a[Len(a) - 1] = "e" /\ a[Len(a)] = "s"
      <4>1. a \in Seq(Stock)
        BY <1>2
      <4> QED
        BY <1>3, <4>1, SuffixOf4
    <3> QED
      BY <3>1
  <2>2. IsSuffix(<<"i", "e", "s">>, a) => a[Len(a)] = "s"
    BY <1>2, <1>3, SuffixOf3
  <2>3. IsSuffix(<<"s">>, a) => a[Len(a)] = "s"
    BY <1>2, <1>3, SuffixOf1
  <2>4. a[Len(a)] # "s"
    BY <1>2
  <2> QED
    BY <2>1, <2>2, <2>3, <2>4 DEF Plural
<1>7. Eed(a) = a
  <2>1. IsSuffix(<<"e", "e", "d">>, a) => a[Len(a) - 2] = "e"
    BY <1>2, <1>3, SuffixOf3
  <2>2. Len(a) - 2 = n /\ n \in 1 .. n
    BY <1>1, <1>2
  <2> QED
    BY <1>2, <1>5, <2>1, <2>2 DEF Eed
<1>8. Ed(a) = w
  <2>1. Len(a) >= 2 /\ Len(a) - 1 = n + 1 /\ Len(a) - 2 = n
    BY <1>1, <1>2
  <2>2. IsSuffix(<<"e", "d">>, a)
    BY <1>2, <1>3, <2>1, SuffixOf2
  <2>3. 2 \in Nat /\ 2 <= Len(a)
    BY <2>1, <1>1, <1>2
  <2>4. /\ WithoutLast(a, 2) \in Seq(Stock) /\ Len(WithoutLast(a, 2)) = n
        /\ \A k \in 1 .. n : WithoutLast(a, 2)[k] = a[k]
    BY <1>2, <2>1, <2>3, WithoutLastProperties
  <2>5. WithoutLast(a, 2) = w
    BY <1>2, <2>4, SeqEqual DEF n
  <2> QED
    BY <2>2, <2>5 DEF Ed
<1>9. Ing(w) = w
  BY <1>4 DEF Ing
<1> QED
  BY <1>6, <1>7, <1>8, <1>9 DEF a

LEMMA PresentForm ==
  ASSUME NEW w \in Seq(Stock), w # <<>>
  PROVE  Ing(Ed(Eed(Plural(w \o <<"i", "n", "g">>)))) = w
<1> DEFINE a == w \o <<"i", "n", "g">>
           n == Len(w)
<1>1. n \in Nat /\ n >= 1
  BY LenProperties, EmptySeq
<1>2. /\ a \in Seq(Stock) /\ Len(a) = n + 3 /\ a[n + 1] = "i" /\ a[n + 2] = "n" /\ a[n + 3] = "g"
      /\ \A k \in 1 .. n : a[k] = w[k]
  <2>1. /\ <<"i", "n", "g">> \in Seq(Stock) /\ Len(<<"i", "n", "g">>) = 3
        /\ <<"i", "n", "g">>[1] = "i" /\ <<"i", "n", "g">>[2] = "n" /\ <<"i", "n", "g">>[3] = "g"
    BY DEF Stock
  <2>2. /\ w \o <<"i", "n", "g">> \in Seq(Stock) /\ Len(w \o <<"i", "n", "g">>) = n + 3
        /\ \A k \in 1 .. n + 3 :
             (w \o <<"i", "n", "g">>)[k] = IF k <= n THEN w[k] ELSE <<"i", "n", "g">>[k - n]
    BY <2>1, ConcatProperties
  <2>3. /\ \A k \in 1 .. n : k \in 1 .. n + 3 /\ k <= n
        /\ n + 1 \in 1 .. n + 3 /\ ~ (n + 1 <= n) /\ (n + 1) - n = 1
        /\ n + 2 \in 1 .. n + 3 /\ ~ (n + 2 <= n) /\ (n + 2) - n = 2
        /\ n + 3 \in 1 .. n + 3 /\ ~ (n + 3 <= n) /\ (n + 3) - n = 3
    BY <1>1
  <2> QED
    BY <2>1, <2>2, <2>3
<1>3. "s" \in Stock /\ "i" \in Stock /\ "e" \in Stock /\ "d" \in Stock /\ "n" \in Stock /\ "g" \in Stock
  BY DEF Stock
<1> HIDE DEF a, n
<1>4. a[Len(a)] # "s" /\ a[Len(a)] # "d"
  BY <1>2
<1>5. Plural(a) = a
  <2>1. IsSuffix(<<"s", "s", "e", "s">>, a) => a[Len(a)] = "s"
    <3>1. IsSuffix(<<"s", "s", "e", "s">>, a) <=>
            /\ Len(a) >= 4 /\ a[Len(a) - 3] = "s" /\ a[Len(a) - 2] = "s"
            /\ a[Len(a) - 1] = "e" /\ a[Len(a)] = "s"
      <4>1. a \in Seq(Stock)
        BY <1>2
      <4> QED
        BY <1>3, <4>1, SuffixOf4
    <3> QED
      BY <3>1
  <2>2. IsSuffix(<<"i", "e", "s">>, a) => a[Len(a)] = "s"
    BY <1>2, <1>3, SuffixOf3
  <2>3. IsSuffix(<<"s">>, a) => a[Len(a)] = "s"
    BY <1>2, <1>3, SuffixOf1
  <2> QED
    BY <1>4, <2>1, <2>2, <2>3 DEF Plural
<1>6. Eed(a) = a /\ Ed(a) = a
  <2>1. IsSuffix(<<"e", "e", "d">>, a) => a[Len(a)] = "d"
    BY <1>2, <1>3, SuffixOf3
  <2>2. IsSuffix(<<"e", "d">>, a) => a[Len(a)] = "d"
    BY <1>2, <1>3, SuffixOf2
  <2> QED
    BY <1>4, <2>1, <2>2 DEF Eed, Ed
<1>7. Ing(a) = w
  <2>1. Len(a) >= 3 /\ Len(a) - 1 = n + 2 /\ Len(a) - 2 = n + 1 /\ Len(a) - 3 = n
    BY <1>1, <1>2
  <2>2. IsSuffix(<<"i", "n", "g">>, a)
    BY <1>2, <1>3, <2>1, SuffixOf3
  <2>3. 3 \in Nat /\ 3 <= Len(a)
    BY <2>1, <1>1, <1>2
  <2>4. /\ WithoutLast(a, 3) \in Seq(Stock) /\ Len(WithoutLast(a, 3)) = n
        /\ \A k \in 1 .. n : WithoutLast(a, 3)[k] = a[k]
    BY <1>2, <2>1, <2>3, WithoutLastProperties
  <2>5. WithoutLast(a, 3) = w
    BY <1>2, <2>4, SeqEqual DEF n
  <2> QED
    BY <2>2, <2>5 DEF Ing
<1> QED
  BY <1>5, <1>6, <1>7 DEF a

\* A root is its own stem, but for FinalE.
LEMMA RootForm ==
  ASSUME NEW w \in Seq(Stock), w # <<>>, IsRoot(w)
  PROVE  Ing(Ed(Eed(Plural(w)))) = w
<1>1. Len(w) \in Nat
  BY LenProperties
<1>2. /\ ~IsSuffix(<<"e", "d">>, w) /\ ~IsSuffix(<<"i", "n", "g">>, w)
      /\ IsSuffix(<<"s">>, w) => IsSuffix(<<"s", "s">>, w)
  BY DEF IsRoot, EndsIn
<1>3. "s" \in Stock /\ "i" \in Stock /\ "e" \in Stock /\ "d" \in Stock
  BY DEF Stock
<1>4. IsSuffix(<<"e", "e", "d">>, w) => IsSuffix(<<"e", "d">>, w)
  <2>1. Len(w) >= 3 => Len(w) >= 2
    BY <1>1
  <2> QED
    BY <1>3, <2>1, SuffixOf2, SuffixOf3
<1>5. IsSuffix(<<"s", "s">>, w) => w[Len(w) - 1] = "s"
  BY <1>3, SuffixOf2
<1>6. IsSuffix(<<"s", "s", "e", "s">>, w) => w[Len(w) - 1] = "e" /\ w[Len(w)] = "s" /\ Len(w) >= 1
  <2>1. IsSuffix(<<"s", "s", "e", "s">>, w) => Len(w) >= 4 /\ w[Len(w) - 1] = "e" /\ w[Len(w)] = "s"
    BY <1>3, SuffixOf4
  <2>2. Len(w) >= 4 => Len(w) >= 1
    BY <1>1
  <2> QED
    BY <2>1, <2>2
<1>7. IsSuffix(<<"i", "e", "s">>, w) => w[Len(w) - 1] = "e" /\ w[Len(w)] = "s" /\ Len(w) >= 1
  <2>1. IsSuffix(<<"i", "e", "s">>, w) => Len(w) >= 3 /\ w[Len(w) - 1] = "e" /\ w[Len(w)] = "s"
    BY <1>3, SuffixOf3
  <2>2. Len(w) >= 3 => Len(w) >= 1
    BY <1>1
  <2> QED
    BY <2>1, <2>2
<1>8. w[Len(w)] = "s" /\ Len(w) >= 1 => IsSuffix(<<"s">>, w)
  BY <1>3, SuffixOf1
<1>9. ~IsSuffix(<<"s", "s", "e", "s">>, w) /\ ~IsSuffix(<<"i", "e", "s">>, w)
  BY <1>2, <1>5, <1>6, <1>7, <1>8
<1>10. Plural(w) = w
  BY <1>2, <1>9 DEF Plural
<1>11. Eed(w) = w /\ Ed(w) = w /\ Ing(w) = w
  BY <1>2, <1>4 DEF Eed, Ed, Ing
<1> QED
  BY <1>10, <1>11

\* What a word in -ate, -ble or -ize is without its e.
LEMMA DroppedE ==
  ASSUME NEW w \in Seq(Stock), NEW x \in Stock, NEW y \in Stock, IsSuffix(<<x, y, "e">>, w)
  PROVE  /\ WithoutLast(w, 1) \in Seq(Stock) /\ IsSuffix(<<x, y>>, WithoutLast(w, 1))
         /\ WithoutLast(w, 1) # <<>>
         /\ Append(WithoutLast(w, 1), "e") = w
         /\ WithoutLast(w, 1) \o <<"e", "d">> = Append(w, "d")
<1> DEFINE v == WithoutLast(w, 1)
           n == Len(w)
<1>1. n \in Nat
  BY LenProperties
<1>2. "e" \in Stock /\ "d" \in Stock
  BY DEF Stock
<1>3. n >= 3 /\ w[n - 2] = x /\ w[n - 1] = y /\ w[n] = "e"
  BY <1>2, SuffixOf3
<1>4. v \in Seq(Stock) /\ Len(v) = n - 1 /\ \A k \in 1 .. n - 1 : v[k] = w[k]
  <2>1. 1 \in Nat /\ 1 <= n
    BY <1>1, <1>3
  <2> QED
    BY <2>1, WithoutLastProperties
<1> HIDE DEF v, n
<1>5. PICK m \in Nat : m = n - 1 /\ m + 1 = n /\ m - 1 = n - 2 /\ m >= 2
  <2>1. n >= 3
    BY <1>3
  <2> QED
    BY <1>1, <2>1
<1>6. m - 1 \in 1 .. m /\ m \in 1 .. m
  BY <1>5
<1>7. IsSuffix(<<x, y>>, v)
  <2>1. v[m - 1] = x /\ v[m] = y
    BY <1>3, <1>4, <1>5, <1>6
  <2>2. Len(v) = m
    BY <1>4, <1>5
  <2> QED
    BY <1>4, <1>5, <2>1, <2>2, SuffixOf2
<1>8. v # <<>>
  <2>1. Len(v) = m /\ m # 0
    BY <1>4, <1>5
  <2> QED
    BY <1>4, <2>1, EmptySeq
<1>9. /\ Append(v, "e") \in Seq(Stock) /\ Len(Append(v, "e")) = n
      /\ Append(v, "e")[n] = "e" /\ \A k \in 1 .. m : Append(v, "e")[k] = w[k]
  BY <1>2, <1>4, <1>5, AppendProperties
<1>10. \A k \in 1 .. n : k \in 1 .. m \/ k = n
  BY <1>1, <1>5
<1>11. Append(v, "e") = w
  BY <1>3, <1>9, <1>10, SeqEqual DEF n
<1>12. v \o <<"e", "d">> = Append(w, "d")
  <2>1. /\ <<"e", "d">> \in Seq(Stock) /\ Len(<<"e", "d">>) = 2
        /\ <<"e", "d">>[1] = "e" /\ <<"e", "d">>[2] = "d"
    BY DEF Stock
  <2>2. /\ v \o <<"e", "d">> \in Seq(Stock) /\ Len(v \o <<"e", "d">>) = m + 2
        /\ \A k \in 1 .. m + 2 : (v \o <<"e", "d">>)[k] = IF k <= m THEN v[k] ELSE <<"e", "d">>[k - m]
    BY <1>4, <1>5, <2>1, ConcatProperties
  <2>3. /\ Append(w, "d") \in Seq(Stock) /\ Len(Append(w, "d")) = n + 1
        /\ Append(w, "d")[n + 1] = "d" /\ \A k \in 1 .. n : Append(w, "d")[k] = w[k]
    BY <1>2, AppendProperties DEF n
  <2>4. /\ n + 1 = m + 2
        /\ \A k \in 1 .. m : k \in 1 .. m + 2 /\ k <= m /\ k \in 1 .. n
        /\ n \in 1 .. m + 2 /\ ~(n <= m) /\ n - m = 1 /\ n \in 1 .. n
        /\ n + 1 \in 1 .. m + 2 /\ ~(n + 1 <= m) /\ (n + 1) - m = 2
        /\ \A k \in 1 .. m + 2 : k \in 1 .. m \/ k = n \/ k = n + 1
    BY <1>5
  <2>5. \A k \in 1 .. m : (v \o <<"e", "d">>)[k] = Append(w, "d")[k]
    <3>1. \A k \in 1 .. m : v[k] = w[k]
      BY <1>4, <1>5
    <3> QED
      BY <2>2, <2>3, <2>4, <3>1
  <2>6. (v \o <<"e", "d">>)[n] = Append(w, "d")[n]
    <3>1. (v \o <<"e", "d">>)[n] = "e"
      BY <2>1, <2>2, <2>4
    <3>2. Append(w, "d")[n] = "e"
      BY <1>3, <2>3, <2>4
    <3> QED
      BY <3>1, <3>2
  <2>7. (v \o <<"e", "d">>)[n + 1] = Append(w, "d")[n + 1]
    <3>1. (v \o <<"e", "d">>)[n + 1] = "d"
      BY <2>1, <2>2, <2>4
    <3> QED
      BY <2>3, <3>1
  <2>8. Len(v \o <<"e", "d">>) = Len(Append(w, "d"))
    BY <2>2, <2>3, <2>4
  <2>9. \A k \in 1 .. Len(v \o <<"e", "d">>) : (v \o <<"e", "d">>)[k] = Append(w, "d")[k]
    BY <2>2, <2>4, <2>5, <2>6, <2>7
  <2> QED
    BY <2>2, <2>3, <2>8, <2>9, SeqEqual
<1> QED
  BY <1>4, <1>7, <1>8, <1>11, <1>12 DEF v

\* The e comes back.
LEMMA EComesBack ==
  ASSUME NEW w \in Seq(Stock),
         NEW x \in Stock, NEW y \in Stock, y \notin {"e", "g"},
         <<x, y>> \in {<<"a", "t">>, <<"b", "l">>, <<"i", "z">>}, IsSuffix(<<x, y, "e">>, w)
  PROVE  /\ stem(w) = w
         /\ stem(Append(w, "d")) = w
         /\ stem(WithoutLast(w, 1) \o <<"i", "n", "g">>) = w
<1> DEFINE v == WithoutLast(w, 1)
<1>1. /\ v \in Seq(Stock) /\ IsSuffix(<<x, y>>, v) /\ v # <<>>
      /\ Append(v, "e") = w /\ v \o <<"e", "d">> = Append(w, "d")
  BY DroppedE
<1> HIDE DEF v
<1>2. FinalE(v) = w
  BY <1>1 DEF FinalE
<1>3. /\ "e" \in Stock /\ "g" \in Stock /\ "i" \in Stock /\ "n" \in Stock /\ "s" \in Stock /\ "d" \in Stock
      /\ "a" \in Stock /\ "t" \in Stock /\ "b" \in Stock /\ "l" \in Stock /\ "z" \in Stock
  BY DEF Stock
<1>4. v[Len(v)] = y
  BY <1>1, SuffixOf2
<1>5. ~EndsIn(v, {<<"e">>, <<"i", "n", "g">>})
  <2>1. IsSuffix(<<"e">>, v) => v[Len(v)] = "e"
    BY <1>1, <1>3, SuffixOf1
  <2>2. IsSuffix(<<"i", "n", "g">>, v) => v[Len(v)] = "g"
    BY <1>1, <1>3, SuffixOf3
  <2> QED
    BY <1>4, <2>1, <2>2 DEF EndsIn
<1>6. stem(v \o <<"e", "d">>) = w
  BY <1>1, <1>2, <1>5, PastForm DEF stem
<1>7. stem(v \o <<"i", "n", "g">>) = w
  BY <1>1, <1>2, PresentForm DEF stem
<1>8. w[Len(w)] = "e"
  BY <1>3, SuffixOf3
<1>9. /\ ~IsSuffix(<<"s", "s", "e", "s">>, w) /\ ~IsSuffix(<<"i", "e", "s">>, w) /\ ~IsSuffix(<<"s">>, w)
      /\ ~IsSuffix(<<"e", "e", "d">>, w) /\ ~IsSuffix(<<"e", "d">>, w) /\ ~IsSuffix(<<"i", "n", "g">>, w)
      /\ ~IsSuffix(<<"a", "t">>, w) /\ ~IsSuffix(<<"b", "l">>, w) /\ ~IsSuffix(<<"i", "z">>, w)
  <2>1. IsSuffix(<<"s", "s", "e", "s">>, w) => w[Len(w)] = "s"
    BY <1>3, SuffixOf4
  <2>2. /\ IsSuffix(<<"i", "e", "s">>, w) => w[Len(w)] = "s"
        /\ IsSuffix(<<"e", "e", "d">>, w) => w[Len(w)] = "d"
        /\ IsSuffix(<<"i", "n", "g">>, w) => w[Len(w)] = "g"
    BY <1>3, SuffixOf3
  <2>3. /\ IsSuffix(<<"e", "d">>, w) => w[Len(w)] = "d"
        /\ IsSuffix(<<"a", "t">>, w) => w[Len(w)] = "t"
        /\ IsSuffix(<<"b", "l">>, w) => w[Len(w)] = "l"
        /\ IsSuffix(<<"i", "z">>, w) => w[Len(w)] = "z"
    BY <1>3, SuffixOf2
  <2>4. IsSuffix(<<"s">>, w) => w[Len(w)] = "s"
    BY <1>3, SuffixOf1
  <2> QED
    BY <1>8, <2>1, <2>2, <2>3, <2>4
<1>10. Plural(w) = w /\ Eed(w) = w /\ Ed(w) = w /\ Ing(w) = w /\ FinalE(w) = w
  BY <1>9 DEF Plural, Eed, Ed, Ing, FinalE
<1>11. stem(w) = w
  BY <1>10 DEF stem
<1> QED
  BY <1>1, <1>6, <1>7, <1>11 DEF v

\* What has been read is of the files, and made into words.
Tokens == UNION {Range(f) : f \in Files}

ReaderInv ==
  /\ infile \in Seq(Tokens) /\ read \subseteq Tokens
  /\ db = {stem(remove_punctuation(t)) : t \in read} \ {<<>>}

LEMMA TokensProperties ==
  /\ \A f \in Files : f \in Seq(Tokens)
  /\ \A t \in Tokens : t \in Seq(Range(t))
<1>1. ASSUME NEW f \in Files PROVE f \in Seq(Tokens)
  <2>1. f \in Seq(Range(f)) /\ Range(f) \subseteq Tokens
    BY WordReaderAssumption DEF Tokens
  <2> QED
    BY <2>1, SeqMonotonic
<1>2. \A t \in Tokens : t \in Seq(Range(t))
  BY WordReaderAssumption DEF Tokens
<1> QED
  BY <1>1, <1>2

LEMMA ReaderInvAlways == ReaderSpec => []ReaderInv
<1>1. ReaderInit => ReaderInv
  <2> SUFFICES ASSUME ReaderInit
               PROVE  ReaderInv
    OBVIOUS
  <2>1. infile = <<>> /\ read = {} /\ db = {}
    BY DEF ReaderInit
  <2>2. <<>> \in Seq(Tokens)
    BY EmptySeq
  <2> QED
    BY <2>1, <2>2 DEF ReaderInv
<1>2. ReaderInv /\ [ReaderNext]_readerVars => ReaderInv'
  <2> SUFFICES ASSUME ReaderInv, [ReaderNext]_readerVars
               PROVE  ReaderInv'
    OBVIOUS
  <2>1. CASE GetWords
    <3>1. infile' \in Files /\ read' = {} /\ db' = {}
      BY <2>1 DEF GetWords
    <3> QED
      BY <3>1, TokensProperties DEF ReaderInv, Tokens
  <2>2. CASE ReadWord /\ infile = <<>>
    <3>1. /\ buf' = stem(remove_punctuation(<<>>)) /\ UNCHANGED <<infile, read>>
          /\ db' = db \cup Insert(buf')
      BY <2>2 DEF ReadWord, Extract, Nothing
    <3>2. buf' = <<>>
      BY <3>1, StripProperties, StemProperties
    <3>3. Insert(buf') = {}
      <4>1. Len(<<>>) < 1
        BY EmptySeq
      <4> QED
        BY <3>2, <4>1 DEF Insert
    <3> QED
      BY <3>1, <3>3 DEF ReaderInv, Tokens
  <2>3. CASE ReadWord /\ infile # <<>>
    <3> DEFINE t == Head(infile)
               w == stem(remove_punctuation(t))
    <3>1. /\ buf' = w /\ infile' = Tail(infile) /\ read' = read \cup {t}
          /\ db' = db \cup Insert(w)
      BY <2>3 DEF ReadWord, Extract
    <3>2. t \in Tokens /\ infile' \in Seq(Tokens)
      BY <2>3, <3>1, HeadTailProperties DEF ReaderInv
    <3>3. w \in Seq(Letter) /\ Len(w) \in Nat
      BY <3>2, TokensProperties, StripProperties, StemProperties
    <3> HIDE DEF w
    <3>4. Insert(w) = {w} \ {<<>>}
      <4>1. Len(w) = 0 <=> w = <<>>
        BY <3>3, EmptySeq
      <4> QED
        BY <3>3, <4>1 DEF Insert
    <3> HIDE DEF t
    <3>5. db' = {stem(remove_punctuation(u)) : u \in read'} \ {<<>>}
      <4>1. db = {stem(remove_punctuation(u)) : u \in read} \ {<<>>}
        BY DEF ReaderInv
      <4> QED
        BY <3>1, <3>4, <4>1 DEF w
    <3>6. read' \subseteq Tokens
      BY <3>1, <3>2 DEF ReaderInv
    <3> QED
      BY <3>2, <3>5, <3>6 DEF ReaderInv, Tokens
  <2>4. CASE UNCHANGED readerVars
    BY <2>4 DEF readerVars, ReaderInv, Tokens
  <2> QED
    BY <2>1, <2>2, <2>3, <2>4 DEF ReaderNext
<1> QED
  BY <1>1, <1>2, PTL DEF ReaderSpec

(***************************************************************************)
(* get_words leaves the stems of all tokens and nothing else, each a word  *)
(* of small letters that SuffixTree can be trained on, by one letter at    *)
(* most longer than its token: whatever is in the file, its last token     *)
(* followed by white space or not.                                         *)
(***************************************************************************)
THEOREM WordsReadAreStems == ReaderSpec => []WordsAreStems
<1>1. ReaderInv => WordsAreStems
  <2> SUFFICES ASSUME ReaderInv, NEW v \in db
               PROVE  /\ v \in Seq(Letter) /\ v # <<>>
                      /\ \E t \in read : Len(v) <= Len(t) + 1
    BY DEF WordsAreStems, ReaderInv
  <2>1. PICK t \in read : v = stem(remove_punctuation(t))
    BY DEF ReaderInv
  <2>2. t \in Seq(Range(t))
    BY TokensProperties DEF ReaderInv
  <2> DEFINE w == remove_punctuation(t)
  <2>3. w \in Seq(Letter) /\ Len(w) <= Len(t) /\ Len(t) \in Nat
    BY <2>2, StripProperties
  <2> HIDE DEF w
  <2>4. stem(w) \in Seq(Letter) /\ Len(stem(w)) \in Nat /\ Len(w) \in Nat /\ Len(stem(w)) <= Len(w) + 1
    BY <2>3, StemProperties
  <2>5. v = stem(w) /\ v # <<>>
    BY <2>1 DEF w, ReaderInv
  <2>6. Len(v) <= Len(t) + 1
    BY <2>3, <2>4, <2>5
  <2> QED
    BY <2>4, <2>5, <2>6
<1> QED
  BY <1>1, ReaderInvAlways, PTL

(***************************************************************************)
(* stem takes a word, its plural, its past and its present participle for  *)
(* one, whatever the word is, unless a rule of stem takes its own end for  *)
(* a suffix, and those of a word in -ate, -ble or -ize, too, which drops   *)
(* its e and gets it back.                                                 *)
(***************************************************************************)
THEOREM FormsOfAWordMeet == ReaderSpec => []FormsMeet
<1>1. ReaderInv => FormsMeet
  <2> DEFINE Meets(w, form) == stem(form) = stem(w)
  <2> SUFFICES ASSUME ReaderInv, NEW t \in read, NEW w, w = remove_punctuation(t), w # <<>>
               PROVE  /\ ~EndsIn(w, {<<"s">>, <<"i", "e">>, <<"s", "s", "e">>}) => Meets(w, w \o <<"s">>)
                      /\ IsRoot(w) => Meets(w, w \o <<"e", "d">>) /\ Meets(w, w \o <<"i", "n", "g">>)
                      /\ EndsIn(w, {<<"a", "t", "e">>, <<"b", "l", "e">>, <<"i", "z", "e">>}) =>
                           Meets(w, Append(w, "d")) /\ Meets(w, WithoutLast(w, 1) \o <<"i", "n", "g">>)
    BY DEF FormsMeet
  <2>1. w \in Seq(Stock)
    <3>1. t \in Seq(Range(t))
      BY TokensProperties DEF ReaderInv
    <3> QED
      BY <3>1, StripProperties, LettersAreStock
  <2>2. ~EndsIn(w, {<<"s">>, <<"i", "e">>, <<"s", "s", "e">>}) => Meets(w, w \o <<"s">>)
    BY <2>1, PluralForm DEF stem
  <2>3. ASSUME IsRoot(w)
        PROVE  Meets(w, w \o <<"e", "d">>) /\ Meets(w, w \o <<"i", "n", "g">>)
    <3>1. ~EndsIn(w, {<<"e">>, <<"i", "n", "g">>})
      BY <2>3 DEF IsRoot, EndsIn
    <3> QED
      BY <2>1, <2>3, <3>1, RootForm, PastForm, PresentForm DEF stem
  <2>4. ASSUME EndsIn(w, {<<"a", "t", "e">>, <<"b", "l", "e">>, <<"i", "z", "e">>})
        PROVE  Meets(w, Append(w, "d")) /\ Meets(w, WithoutLast(w, 1) \o <<"i", "n", "g">>)
    <3>1. IsSuffix(<<"a", "t", "e">>, w) \/ IsSuffix(<<"b", "l", "e">>, w) \/ IsSuffix(<<"i", "z", "e">>, w)
      BY <2>4 DEF EndsIn
    <3>2. "a" \in Stock /\ "t" \in Stock /\ "b" \in Stock /\ "l" \in Stock /\ "i" \in Stock /\ "z" \in Stock
      BY DEF Stock
    <3> QED
      BY <2>1, <3>1, <3>2, EComesBack
  <2> QED
    BY <2>2, <2>3, <2>4
<1> QED
  BY <1>1, ReaderInvAlways, PTL
-----------------------------------------------------------------------------
(***************************************************************************)
(* classify_bruteforce.py.  Flag k of the n-th line is binary digit        *)
(* nFeatures - k of n, the zeroes put in front of it included; so the      *)
(* lines are of different sets, and there are as many of both.             *)
(***************************************************************************)
Bit(n, d) == (n \div 2 ^ d) % 2

\* The next digit of a number, and what is left of it after that.
LEMMA NextDigit ==
  ASSUME NEW n \in Nat, NEW d \in Nat
  PROVE  /\ n \div 2 ^ d \in Nat /\ Bit(n, d) \in {0, 1}
         /\ n \div 2 ^ (d + 1) \in Nat
         /\ n \div 2 ^ d = 2 * (n \div 2 ^ (d + 1)) + Bit(n, d)
<1> DEFINE p == 2 ^ d
           r == 2 ^ (d + 1)
<1>1. p \in Nat /\ p > 0 /\ r = 2 * p
  BY PowersOfTwo
<1> HIDE DEF p, r
<1>2. n \div p \in Nat /\ n \div r \in Nat /\ n \div r = (n \div p) \div 2
  BY <1>1
<1> DEFINE q == n \div p
<1>3. q = 2 * (q \div 2) + (q % 2) /\ q % 2 \in {0, 1}
  <2>1. q \in Nat
    BY <1>2
  <2> HIDE DEF q
  <2> QED
    BY <2>1
<1> QED
  BY <1>2, <1>3 DEF Bit, p, r

\* Numbers of the same digits are the same.
LEMMA DigitsDetermine ==
  ASSUME NEW F \in Nat, NEW m \in Nat, NEW n \in Nat, m < 2 ^ F, n < 2 ^ F,
         \A d \in 0 .. F - 1 : Bit(m, d) = Bit(n, d)
  PROVE  m = n
<1> DEFINE Same(k) == m \div 2 ^ (F - k) = n \div 2 ^ (F - k)
           T == {k \in Nat : k <= F => Same(k)}
<1>1. 2 ^ F \in Nat /\ 2 ^ 0 = 1
  BY PowersOfTwo
<1>2. 0 \in T
  <2>1. F - 0 = F /\ m \div 2 ^ F = 0 /\ n \div 2 ^ F = 0
    <3> DEFINE p == 2 ^ F
    <3>1. p \in Nat /\ m < p /\ n < p
      BY <1>1
    <3> HIDE DEF p
    <3>2. m \div p = 0 /\ n \div p = 0
      BY <3>1
    <3> QED
      BY <3>2 DEF p
  <2> QED
    BY <2>1
<1>3. ASSUME NEW k \in Nat, k \in T PROVE k + 1 \in T
  <2> SUFFICES ASSUME k + 1 <= F PROVE Same(k + 1)
    OBVIOUS
  <2> DEFINE d == F - (k + 1)
  <2>1. d \in Nat /\ d \in 0 .. F - 1 /\ d + 1 = F - k /\ k <= F
    OBVIOUS
  <2>2. m \div 2 ^ (d + 1) = n \div 2 ^ (d + 1)
    BY <1>3, <2>1
  <2> HIDE DEF d
  <2>3. m \div 2 ^ d = 2 * (m \div 2 ^ (d + 1)) + Bit(m, d)
    BY <2>1, NextDigit
  <2>4. n \div 2 ^ d = 2 * (n \div 2 ^ (d + 1)) + Bit(n, d)
    BY <2>1, NextDigit
  <2>5. m \div 2 ^ d = n \div 2 ^ d
    BY <2>1, <2>2, <2>3, <2>4
  <2> QED
    BY <2>5 DEF d
<1>4. F \in T
  <2> HIDE DEF T
  <2> QED
    BY <1>2, <1>3, CountingUp
<1>5. m \div 2 ^ (F - F) = n \div 2 ^ (F - F) /\ F - F = 0
  BY <1>4
<1>6. m \div 1 = n \div 1
  BY <1>1, <1>5
<1> QED
  BY <1>6

\* A number has digits: from the first on that is too large for it, none.
LEMMA DigitsProperties ==
  ASSUME NEW n \in Nat, n > 0
  PROVE  /\ Digits(n) \in Nat \ {0}
         /\ 2 ^ (Digits(n) - 1) <= n /\ n < 2 ^ Digits(n)
<1> DEFINE T == {d \in Nat : n < 2 ^ d}
<1>1. n \in T
  BY PowersOfTwo
<1>2. PICK d \in T : \A c \in T : d <= c
  <2>1. T \subseteq Nat /\ T # {}
    BY <1>1
  <2> HIDE DEF T
  <2> QED
    BY <2>1, LeastNumber
<1>3. d # 0
  <2>1. ~ (n < 2 ^ 0)
    BY PowersOfTwo
  <2> QED
    BY <1>2, <2>1
<1>4. d - 1 \in Nat /\ d - 1 \notin T
  BY <1>2, <1>3
<1>5. 2 ^ (d - 1) \in Nat
  BY <1>4, PowersOfTwo
<1>6. 2 ^ (d - 1) <= n /\ n < 2 ^ d /\ d \in 1 .. n
  BY <1>1, <1>2, <1>3, <1>4, <1>5
<1>7. \E c \in 1 .. n : 2 ^ (c - 1) <= n /\ n < 2 ^ c
  BY <1>6
<1> DEFINE c == CHOOSE e \in 1 .. n : 2 ^ (e - 1) <= n /\ n < 2 ^ e
<1>8. c \in 1 .. n /\ 2 ^ (c - 1) <= n /\ n < 2 ^ c
  BY <1>7
<1>9. Digits(n) = c
  <2>1. n # 0
    OBVIOUS
  <2> QED
    BY <2>1, Zenon DEF Digits
<1> HIDE DEF c
<1> QED
  BY <1>8, <1>9

\* Powers of two go up with their exponents.
LEMMA PowersAscend ==
  ASSUME NEW a \in Nat, NEW b \in Nat
  PROVE  2 ^ a <= 2 ^ (a + b) /\ 2 ^ a \in Nat /\ 2 ^ (a + b) \in Nat
<1> DEFINE T == {k \in Nat : 2 ^ a <= 2 ^ (a + k)}
<1>1. 2 ^ a \in Nat
  BY PowersOfTwo
<1>2. 0 \in T
  BY <1>1
<1>3. ASSUME NEW k \in Nat, k \in T PROVE k + 1 \in T
  <2>1. a + k \in Nat /\ a + (k + 1) = (a + k) + 1
    OBVIOUS
  <2>2. 2 ^ (a + k) \in Nat /\ 2 ^ ((a + k) + 1) = 2 * 2 ^ (a + k)
    BY <2>1, PowersOfTwo
  <2> QED
    BY <1>1, <1>3, <2>1, <2>2
<1>4. b \in T
  <2> HIDE DEF T
  <2> QED
    BY <1>2, <1>3, CountingUp
<1>5. a + b \in Nat
  OBVIOUS
<1> QED
  BY <1>1, <1>4, <1>5, PowersOfTwo

\* The flags of the n-th line, the zeroes in front included.
LEMMA FlagsAreDigits ==
  ASSUME nFeatures \in Nat, NEW n \in Nat, n > 0, n < 2 ^ nFeatures
  PROVE  /\ featureCombo(n) \in Seq({0, 1})
         /\ Len(featureCombo(n)) = nFeatures /\ DOMAIN featureCombo(n) = 1 .. nFeatures
         /\ \A k \in 1 .. nFeatures : featureCombo(n)[k] = Bit(n, nFeatures - k)
         /\ \E k \in 1 .. nFeatures : featureCombo(n)[k] = 1
<1> DEFINE F == nFeatures
           d == Digits(n)
           zeroes == [k \in 1 .. F - d |-> 0]
<1>1. d \in Nat \ {0} /\ 2 ^ (d - 1) <= n /\ n < 2 ^ d /\ featureCombo(n) = zeroes \o binStr(n)
  BY DigitsProperties DEF featureCombo
<1>2. F \in Nat /\ n < 2 ^ F
  OBVIOUS
<1>3. DOMAIN binStr(n) = 1 .. d /\ \A k \in 1 .. d : binStr(n)[k] = Bit(n, d - k)
  BY DEF binStr, Bit
<1>4. d <= F
  <2>1. PICK a \in Nat \ {0}, b \in Nat : a = d /\ b = F
    BY <1>1, <1>2
  <2> HIDE DEF d, F
  <2> SUFFICES ASSUME b < a
               PROVE  FALSE
    BY <2>1
  <2>2. PICK e \in Nat : b + e = a - 1
    <3>1. a - 1 - b \in Nat /\ b + (a - 1 - b) = a - 1
      OBVIOUS
    <3> QED
      BY <3>1
  <2>3. a - 1 \in Nat
    OBVIOUS
  <2>4. 2 ^ b <= 2 ^ (a - 1) /\ 2 ^ b \in Nat /\ 2 ^ (a - 1) \in Nat
    BY <2>2, <2>3, PowersAscend
  <2>5. 2 ^ (a - 1) <= n /\ n < 2 ^ b
    BY <1>1, <1>2, <2>1
  <2> QED
    BY <2>4, <2>5
<1>5. \A c \in Nat : Bit(n, c) \in {0, 1}
  BY NextDigit
<1>6. zeroes \in Seq({0, 1}) /\ Len(zeroes) = F - d /\ \A k \in 1 .. F - d : zeroes[k] = 0
  <2>1. F - d \in Nat
    BY <1>1, <1>2, <1>4
  <2>2. zeroes \in [1 .. F - d -> {0, 1}]
    OBVIOUS
  <2> QED
    BY <2>1, <2>2, SeqDef, LenProperties
<1> HIDE DEF d, F, zeroes
<1>7. binStr(n) \in Seq({0, 1}) /\ Len(binStr(n)) = d
  <2>1. \A k \in 1 .. d : d - k \in Nat
    BY <1>1
  <2>2. \A k \in 1 .. d : binStr(n)[k] \in {0, 1}
    BY <1>3, <1>5, <2>1
  <2>3. binStr(n) = [k \in 1 .. d |-> binStr(n)[k]]
    BY <1>3 DEF binStr, d
  <2>4. binStr(n) \in [1 .. d -> {0, 1}]
    BY <2>2, <2>3
  <2> QED
    BY <1>1, <2>4, SeqDef, LenProperties
<1>8. /\ featureCombo(n) \in Seq({0, 1}) /\ Len(featureCombo(n)) = F
      /\ \A k \in 1 .. F : featureCombo(n)[k] = IF k <= F - d THEN 0 ELSE binStr(n)[k - (F - d)]
  <2>1. (F - d) + d = F
    BY <1>1, <1>2
  <2>2. /\ zeroes \o binStr(n) \in Seq({0, 1}) /\ Len(zeroes \o binStr(n)) = (F - d) + d
        /\ \A k \in 1 .. (F - d) + d : (zeroes \o binStr(n))[k] = IF k <= F - d THEN zeroes[k] ELSE binStr(n)[k - (F - d)]
    <3>1. /\ zeroes \o binStr(n) \in Seq({0, 1})
          /\ Len(zeroes \o binStr(n)) = Len(zeroes) + Len(binStr(n))
          /\ \A k \in 1 .. Len(zeroes) + Len(binStr(n)) :
               (zeroes \o binStr(n))[k] = IF k <= Len(zeroes) THEN zeroes[k] ELSE binStr(n)[k - Len(zeroes)]
      BY <1>6, <1>7, ConcatProperties
    <3> QED
      BY <1>6, <1>7, <3>1
  <2>3. \A k \in 1 .. F : k <= F - d => k \in 1 .. F - d
    BY <1>1, <1>2
  <2> QED
    BY <1>1, <1>6, <2>1, <2>2, <2>3
<1>9. DOMAIN featureCombo(n) = 1 .. F
  BY <1>8, LenProperties
<1>10. ASSUME NEW k \in 1 .. F
       PROVE  featureCombo(n)[k] = Bit(n, F - k)
  <2>1. CASE k <= F - d
    <3> DEFINE p == 2 ^ (F - k)
    <3>1. (F - k) - d \in Nat /\ F - k = d + ((F - k) - d)
      BY <1>1, <1>2, <2>1
    <3>2. 2 ^ d <= p /\ 2 ^ d \in Nat /\ p \in Nat
      BY <1>1, <3>1, PowersAscend
    <3> HIDE DEF p
    <3>3. n < p
      BY <1>1, <3>2
    <3>4. n \div p = 0
      BY <3>2, <3>3
    <3>5. Bit(n, F - k) = 0
      BY <3>4 DEF Bit, p
    <3> QED
      BY <1>8, <2>1, <3>5
  <2>2. CASE ~ (k <= F - d)
    <3>1. k - (F - d) \in 1 .. d /\ d - (k - (F - d)) = F - k
      BY <1>1, <1>2, <2>2
    <3> QED
      BY <1>3, <1>8, <2>2, <3>1
  <2> QED
    BY <2>1, <2>2
<1>11. \E k \in 1 .. F : featureCombo(n)[k] = 1
  <2> DEFINE p == 2 ^ (d - 1)
             k == F - (d - 1)
  <2>1. d - 1 \in Nat /\ (d - 1) + 1 = d /\ k \in 1 .. F /\ F - k = d - 1
    BY <1>1, <1>2, <1>4
  <2>2. p \in Nat /\ 2 ^ d = 2 * p
    BY <2>1, PowersOfTwo
  <2> HIDE DEF p, k
  <2>3. p <= n /\ n < 2 * p
    BY <1>1, <2>2 DEF p
  <2>4. n \div p = 1
    BY <2>2, <2>3
  <2>5. Bit(n, F - k) = 1
    BY <2>1, <2>4 DEF Bit, p
  <2> QED
    BY <1>10, <2>1, <2>5
<1> QED
  BY <1>8, <1>9, <1>10, <1>11 DEF F

\* The columns of a line: some, and those that its flags are for.
LEMMA ColumnsOfLine ==
  ASSUME nFeatures \in Nat, DOMAIN columns = 1 .. nFeatures,
         \A k, l \in 1 .. nFeatures : columns[k] = columns[l] => k = l,
         NEW n \in Nat, n > 0, n < 2 ^ nFeatures
  PROVE  /\ featureCombo2(n) \in (SUBSET Range(columns)) \ {{}}
         /\ \A k \in 1 .. nFeatures : featureCombo(n)[k] = 1 <=> columns[k] \in featureCombo2(n)
<1>1. DOMAIN featureCombo(n) = 1 .. nFeatures /\ \E k \in 1 .. nFeatures : featureCombo(n)[k] = 1
  BY FlagsAreDigits
<1>2. featureCombo2(n) = {columns[k] : k \in {l \in 1 .. nFeatures : featureCombo(n)[l] = 1}}
  BY <1>1, Zenon DEF featureCombo2
<1>3. ASSUME NEW k \in 1 .. nFeatures
      PROVE  featureCombo(n)[k] = 1 <=> columns[k] \in featureCombo2(n)
  BY <1>2
<1>4. featureCombo2(n) \subseteq Range(columns)
  BY <1>2 DEF Range
<1>5. featureCombo2(n) # {}
  BY <1>1, <1>3
<1> QED
  BY <1>3, <1>4, <1>5

\* No two lines are of the same columns.
LEMMA LinesDiffer ==
  ASSUME nFeatures \in Nat, DOMAIN columns = 1 .. nFeatures,
         \A k, l \in 1 .. nFeatures : columns[k] = columns[l] => k = l,
         NEW m \in Nat, m > 0, m < 2 ^ nFeatures,
         NEW n \in Nat, n > 0, n < 2 ^ nFeatures, featureCombo2(m) = featureCombo2(n)
  PROVE  m = n
<1>1. ASSUME NEW d \in 0 .. nFeatures - 1
      PROVE  Bit(m, d) = Bit(n, d)
  <2> DEFINE k == nFeatures - d
  <2>1. k \in 1 .. nFeatures /\ nFeatures - k = d /\ d \in Nat
    OBVIOUS
  <2> HIDE DEF k
  <2>2. featureCombo(m)[k] = Bit(m, d) /\ featureCombo(n)[k] = Bit(n, d)
    BY <2>1, FlagsAreDigits
  <2>3. (featureCombo(m)[k] = 1 <=> columns[k] \in featureCombo2(m)) /\ (featureCombo(n)[k] = 1 <=> columns[k] \in featureCombo2(n))
    BY <2>1, ColumnsOfLine
  <2>4. Bit(m, d) \in {0, 1} /\ Bit(n, d) \in {0, 1}
    BY <2>1, NextDigit
  <2> QED
    BY <2>2, <2>3, <2>4
<1> QED
  BY <1>1, DigitsDetermine

\* What is written is line after line, of columns that do not change.
Lines == [flags : Seq({0, 1}), of : SUBSET Range(columns)]

SubsetInv ==
  /\ nFeatures \in Nat /\ DOMAIN columns = 1 .. nFeatures
  /\ \A k, l \in 1 .. nFeatures : columns[k] = columns[l] => k = l
  /\ fout \in Seq(Lines)
  /\ i = Len(fout) + 1 /\ i <= 2 ^ nFeatures
  /\ \A k \in 1 .. Len(fout) : fout[k].flags = featureCombo(k) /\ fout[k].of = featureCombo2(k)
  /\ phase = "load" => fout = <<>>
  /\ phase = "done" => i = 2 ^ nFeatures

LEMMA NoLines ==
  fout = <<>> => fout \in Seq(Lines) /\ Len(fout) = 0 /\ 1 .. Len(fout) = {}
  OBVIOUS

LEMMA SubsetInvInitially == SubsetInit => SubsetInv
<1> SUFFICES ASSUME SubsetInit
             PROVE  SubsetInv
  OBVIOUS
<1>1. nFeatures = 0 /\ DOMAIN columns = {} /\ 1 .. 0 = {} /\ 2 ^ 0 = 1
  BY DEF SubsetInit, nFeatures
<1> QED
  BY <1>1, NoLines DEF SubsetInit, SubsetInv

LEMMA LoadPreserves ==
  ASSUME SubsetInv, LoadTable
  PROVE  SubsetInv'
<1>1. PICK selected \in Selections :
        columns' = Picked(StatsOrder, {k \in DOMAIN StatsOrder : StatsOrder[k] \in selected})
  BY DEF LoadTable
<1> DEFINE P == {k \in DOMAIN StatsOrder : StatsOrder[k] \in selected}
           A == Ascending(P)
           n == Cardinality(P)
<1>2. DOMAIN StatsOrder = 1 .. 15
  BY DEF StatsOrder
<1>3. \A k, l \in 1 .. 15 : StatsOrder[k] = StatsOrder[l] => k = l
  BY DEF StatsOrder
<1>4. P \subseteq 1 .. 15 /\ P \subseteq Int /\ IsFiniteSet(P)
  <2>1. IsFiniteSet(1 .. 15)
    <3>1. PICK last \in Int : last = 15
      OBVIOUS
    <3>2. IsFiniteSet(1 .. last)
      BY FS_Interval
    <3> QED
      BY <3>1, <3>2, Zenon
  <2>2. P \subseteq 1 .. 15
    BY <1>2
  <2> QED
    BY <2>1, <2>2, FS_Subset
<1> HIDE DEF P
<1>5. /\ n \in Nat /\ DOMAIN columns' = 1 .. n
      /\ \A k \in 1 .. n : A[k] \in P /\ columns'[k] = StatsOrder[A[k]]
      /\ \A k, l \in 1 .. n : k < l => A[k] < A[l]
  <2>1. columns' = Picked(StatsOrder, P)
    BY <1>1 DEF P
  <2>2. n \in Nat /\ \A k \in 1 .. n : A[k] \in P
    BY <1>4, AscendingProperties
  <2>3. Picked(StatsOrder, P) = [k \in 1 .. n |-> StatsOrder[A[k]]]
    BY DEF Picked
  <2>4. \A k, l \in 1 .. n : k < l => A[k] < A[l]
    BY <1>4, AscendingProperties
  <2> HIDE DEF A, n
  <2> QED
    BY <2>1, <2>2, <2>3, <2>4
<1> HIDE DEF A, n
<1>6. ASSUME NEW k \in 1 .. n, NEW l \in 1 .. n, columns'[k] = columns'[l]
      PROVE  k = l
  <2>1. A[k] \in 1 .. 15 /\ A[l] \in 1 .. 15 /\ StatsOrder[A[k]] = StatsOrder[A[l]]
    BY <1>4, <1>5, <1>6
  <2>2. A[k] = A[l] /\ A[k] \in Int /\ A[l] \in Int
    BY <1>3, <2>1
  <2>3. ~ (k < l) /\ ~ (l < k)
    BY <1>5, <2>2
  <2> QED
    BY <1>5, <2>3
<1>7. nFeatures' = n
  <2>1. columns' = [k \in 1 .. n |-> columns'[k]]
    BY <1>1, <1>5 DEF Picked, n, A, P
  <2> QED
    BY <1>5, <2>1, LenProperties DEF nFeatures
<1>8. i = 1 /\ i' = i /\ fout' = fout /\ fout = <<>> /\ phase' = "loop"
  BY DEF LoadTable, SubsetInv
<1>9. fout' \in Seq(Lines') /\ Len(fout') = 0
  BY <1>8
<1>10. 1 <= 2 ^ n
  BY <1>5, PowersOfTwo
<1> QED
  BY <1>5, <1>6, <1>7, <1>8, <1>9, <1>10 DEF SubsetInv

LEMMA RunPreserves ==
  ASSUME SubsetInv, RunSubset
  PROVE  SubsetInv'
<1> DEFINE m == Len(fout)
           e == [flags |-> featureCombo(i), of |-> featureCombo2(i)]
<1>1. /\ fout' = Append(fout, e) /\ i' = i + 1 /\ columns' = columns /\ phase' = "loop"
      /\ i < 2 ^ nFeatures
  BY DEF RunSubset
<1>2. m \in Nat /\ i = m + 1 /\ fout \in Seq(Lines) /\ nFeatures \in Nat /\ 2 ^ nFeatures \in Nat
  BY PowersOfTwo DEF SubsetInv
<1>3. e \in Lines
  <2>1. i \in Nat /\ i > 0 /\ i < 2 ^ nFeatures
    BY <1>1, <1>2
  <2>2. featureCombo(i) \in Seq({0, 1})
    BY <1>2, <2>1, FlagsAreDigits
  <2>3. featureCombo2(i) \in SUBSET Range(columns)
    BY <1>2, <2>1, ColumnsOfLine DEF SubsetInv
  <2> QED
    BY <2>2, <2>3 DEF Lines
<1> HIDE DEF e
<1>4. /\ fout' \in Seq(Lines) /\ Len(fout') = m + 1
      /\ \A k \in 1 .. m : fout'[k] = fout[k]
      /\ fout'[m + 1] = e
  BY <1>1, <1>2, <1>3, AppendProperties
<1>5. nFeatures' = nFeatures /\ Lines' = Lines
  BY <1>1 DEF nFeatures, Lines
<1>6. \A k : featureCombo(k)' = featureCombo(k) /\ featureCombo2(k)' = featureCombo2(k)
  BY <1>1 DEF featureCombo, featureCombo2, nFeatures
<1>7. ASSUME NEW k \in 1 .. m + 1
      PROVE  fout'[k].flags = featureCombo(k) /\ fout'[k].of = featureCombo2(k)
  <2>1. CASE k = m + 1
    BY <1>2, <1>4, <2>1 DEF e
  <2>2. CASE k # m + 1
    <3>1. k \in 1 .. m
      BY <1>2, <2>2
    <3> QED
      BY <1>4, <3>1 DEF SubsetInv
  <2> QED
    BY <2>1, <2>2
<1>8. i' = Len(fout') + 1 /\ i' <= 2 ^ nFeatures
  BY <1>1, <1>2, <1>4
<1>9. \A k \in 1 .. Len(fout') : fout'[k].flags = featureCombo(k)' /\ fout'[k].of = featureCombo2(k)'
  BY <1>4, <1>6, <1>7
<1> HIDE DEF m
<1>10. /\ nFeatures' \in Nat /\ DOMAIN columns' = 1 .. nFeatures'
       /\ \A k, l \in 1 .. nFeatures' : columns'[k] = columns'[l] => k = l
  BY <1>1, <1>5 DEF SubsetInv
<1>11. fout' \in Seq(Lines') /\ i' <= 2 ^ nFeatures'
  BY <1>4, <1>5, <1>8
<1> QED
  BY <1>1, <1>8, <1>9, <1>10, <1>11 DEF SubsetInv

LEMMA LinesAreSubsets == SubsetInv => EverySubsetOnce
<1> SUFFICES ASSUME SubsetInv
             PROVE  EverySubsetOnce
  OBVIOUS
<1> DEFINE m == Len(fout)
           R == Range(columns)
<1>1. /\ m \in Nat /\ DOMAIN fout = 1 .. m /\ nFeatures \in Nat /\ 2 ^ nFeatures \in Nat
      /\ m < 2 ^ nFeatures
  BY LenProperties, PowersOfTwo DEF SubsetInv
<1>2. \A k \in 1 .. m : /\ fout[k].flags = featureCombo(k) /\ fout[k].of = featureCombo2(k)
                        /\ k \in Nat /\ k > 0 /\ k < 2 ^ nFeatures
  BY <1>1 DEF SubsetInv
<1>3. /\ DOMAIN columns = 1 .. nFeatures
      /\ \A k, l \in 1 .. nFeatures : columns[k] = columns[l] => k = l
  BY DEF SubsetInv
<1> HIDE DEF m, R
<1>4. \A k, l \in DOMAIN fout : fout[k].of = fout[l].of => k = l
  BY <1>1, <1>2, <1>3, LinesDiffer
<1>5. ASSUME phase = "done"
      PROVE  {fout[k].of : k \in DOMAIN fout} = (SUBSET R) \ {{}}
  <2> DEFINE T == (SUBSET R) \ {{}}
             f == [k \in 1 .. m |-> fout[k].of]
  <2>1. \A k \in 1 .. m : fout[k].of \in T
    BY <1>1, <1>2, <1>3, ColumnsOfLine DEF R
  <2>2. m = 2 ^ nFeatures - 1
    BY <1>1, <1>5 DEF SubsetInv, m
  <2>3. IsFiniteSet(R) /\ Cardinality(R) = nFeatures
    <3>1. IsFiniteSet(1 .. nFeatures) /\ Cardinality(1 .. nFeatures) = nFeatures
      BY <1>1, FS_Interval
    <3> DEFINE g == [k \in 1 .. nFeatures |-> columns[k]]
    <3>2. g \in Surjection(1 .. nFeatures, R)
      BY <1>3 DEF Surjection, R, Range
    <3>3. g \in Injection(1 .. nFeatures, R)
      BY <1>3, <3>2 DEF Injection, Surjection, IsInjective
    <3> HIDE DEF g
    <3> QED
      BY <3>1, <3>2, <3>3, FS_Surjection
  <2>4. IsFiniteSet(SUBSET R) /\ Cardinality(SUBSET R) = 2 ^ nFeatures
    BY <2>3, FS_SUBSET
  <2>5. IsFiniteSet(T) /\ Cardinality(T) = 2 ^ nFeatures - 1
    <3>1. {} \in SUBSET R
      OBVIOUS
    <3> DEFINE U == SUBSET R
    <3> HIDE DEF U
    <3>2. IsFiniteSet(U \ {{}}) /\ Cardinality(U \ {{}}) = Cardinality(U) - 1
      BY <2>4, <3>1, FS_RemoveElement DEF U
    <3> QED
      BY <2>4, <3>2 DEF U
  <2>6. IsFiniteSet(1 .. m) /\ Cardinality(1 .. m) = m
    BY <1>1, FS_Interval
  <2> HIDE DEF T
  <2>7. f \in [1 .. m -> T] /\ \A k, l \in 1 .. m : f[k] = f[l] => k = l
    BY <1>1, <1>4, <2>1
  <2> HIDE DEF f
  <2>8. \A t \in T : \E k \in 1 .. m : f[k] = t
    BY <2>2, <2>5, <2>6, <2>7, AsManyIsAll
  <2>9. \A t \in T : \E k \in 1 .. m : fout[k].of = t
    BY <2>8 DEF f
  <2> QED
    BY <1>1, <2>1, <2>9 DEF T
<1>6. \A k \in DOMAIN fout :
        /\ Len(fout[k].flags) = nFeatures
        /\ \A n \in 1 .. nFeatures : fout[k].flags[n] = 1 <=> columns[n] \in fout[k].of
  BY <1>1, <1>2, <1>3, FlagsAreDigits, ColumnsOfLine
<1> QED
  BY <1>4, <1>5, <1>6 DEF EverySubsetOnce, R

(***************************************************************************)
(* classify_bruteforce.py runs the classifier with every set of columns    *)
(* but the empty one exactly once, whatever features were selected, and    *)
(* the zeroes it puts in front of a number's digits are as many as it      *)
(* takes: the flags of a line stand for the columns one by one.            *)
(***************************************************************************)
THEOREM SubsetsAreTriedOnce == SubsetSpec => []EverySubsetOnce
<1>1. SubsetInv /\ [SubsetNext]_subsetVars => SubsetInv'
  <2> SUFFICES ASSUME SubsetInv, [SubsetNext]_subsetVars
               PROVE  SubsetInv'
    OBVIOUS
  <2>1. CASE LoadTable
    BY <2>1, LoadPreserves
  <2>2. CASE RunSubset
    BY <2>2, RunPreserves
  <2>3. CASE SubsetRaises \/ EndLoop \/ UNCHANGED subsetVars
    <3>1. /\ UNCHANGED <<columns, i, fout>>
          /\ phase' = "load" => phase = "load"
          /\ phase' = "done" => phase = "done" \/ i >= 2 ^ nFeatures
      BY <2>3 DEF SubsetRaises, EndLoop, subsetVars
    <3>2. i \in Nat /\ 2 ^ nFeatures \in Nat
      BY PowersOfTwo DEF SubsetInv
    <3>3. nFeatures' = nFeatures /\ Lines' = Lines
      BY <3>1 DEF nFeatures, Lines
    <3>4. \A k : featureCombo(k)' = featureCombo(k) /\ featureCombo2(k)' = featureCombo2(k)
      BY <3>1 DEF featureCombo, featureCombo2, nFeatures
    <3> QED
      BY <3>1, <3>2, <3>3, <3>4 DEF SubsetInv
  <2> QED
    BY <2>1, <2>2, <2>3 DEF SubsetNext
<1> QED
  BY <1>1, SubsetInvInitially, LinesAreSubsets, PTL DEF SubsetSpec
-----------------------------------------------------------------------------
(***************************************************************************)
(* The programs share no state: each, when the user runs it, takes its own *)
(* steps and no others, and takes none while another runs.  So what is     *)
(* proved of a program above holds in Scripts.                             *)
(***************************************************************************)
THEOREM EachProgramAlone == Spec => TextSpec /\ NGramsSpec /\ ReaderSpec /\ SubsetSpec
<1>1. Init => TextInit /\ NGramsInit /\ ReaderInit /\ SubsetInit
  BY DEF Init
<1>2. [Next]_scriptVars =>
        [TextNext]_textVars /\ [NGramsNext]_ngramsVars /\ [ReaderNext]_readerVars /\ [SubsetNext]_subsetVars
  <2> SUFFICES ASSUME [Next]_scriptVars
               PROVE  /\ TextNext \/ UNCHANGED textVars
                      /\ NGramsNext \/ UNCHANGED ngramsVars
                      /\ ReaderNext \/ UNCHANGED readerVars
                      /\ SubsetNext \/ UNCHANGED subsetVars
    OBVIOUS
  <2>1. CASE CountText
    BY <2>1 DEF CountText, TextNext
  <2>2. CASE CountNGrams
    BY <2>2 DEF CountNGrams, NGramsNext
  <2>3. CASE ReadWords
    BY <2>3 DEF ReadWords, ReaderNext
  <2>4. CASE TrySubsets
    BY <2>4 DEF TrySubsets, SubsetNext
  <2>5. CASE UNCHANGED scriptVars
    BY <2>5 DEF scriptVars
  <2> QED
    BY <2>1, <2>2, <2>3, <2>4, <2>5 DEF Next
<1> QED
  BY <1>1, <1>2, PTL DEF Spec, TextSpec, NGramsSpec, ReaderSpec, SubsetSpec

(***************************************************************************)
(* Whichever program the user runs, what it is to do it does.              *)
(***************************************************************************)
THEOREM ProgramsAreCorrect ==
  Spec => /\ []CountsArrowOperators /\ []DepthIsNesting /\ []KeywordsCountedOnce
          /\ []PassesAgree
          /\ []WordsAreStems /\ []FormsMeet
          /\ []EverySubsetOnce
<1>1. Spec => TextSpec /\ NGramsSpec /\ ReaderSpec /\ SubsetSpec
  BY EachProgramAlone
<1>2. TextSpec => []CountsArrowOperators /\ []DepthIsNesting /\ []KeywordsCountedOnce
  BY ArrowsAreOperators, DepthsAreNestings, KeywordsAreCounted
<1>3. NGramsSpec => []PassesAgree
  BY TwoPassesAgree
<1>4. ReaderSpec => []WordsAreStems /\ []FormsMeet
  BY WordsReadAreStems, FormsOfAWordMeet
<1>5. SubsetSpec => []EverySubsetOnce
  BY SubsetsAreTriedOnce
<1> QED
  BY <1>1, <1>2, <1>3, <1>4, <1>5
=============================================================================
