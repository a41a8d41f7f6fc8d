------------------------ MODULE FunctionParserProofs ------------------------
(***************************************************************************)
(* Proofs about functionParser.py's scanner, for every set of rows.  TLC   *)
(* checks the same formulas on MCParser's instances.                       *)
(***************************************************************************)
EXTENDS ParserOnSource, SequenceTheorems, TLAPS

\* The first and the last row of a non-empty run are places in the source.
LEMMA EndsType ==
  ASSUME NEW s \in Seq(Line), s # <<>>
  PROVE  /\ Len(s) \in Nat \ {0}
         /\ First(s) \in Nat \ {0}
         /\ Final(s) \in Nat \ {0}
<1>1. Len(s) \in Nat \ {0}
  BY EmptySeq
<1>2. s[1] \in Line /\ s[Len(s)] \in Line
  BY <1>1, ElementOfSeq
<1> QED
  BY <1>1, <1>2 DEF First, Final, Line

\* Appending the next row keeps a run of rows contiguous and moves its end.
LEMMA AppendNextRow ==
  ASSUME NEW s \in Seq(Line), s # <<>>, Contiguous(s),
         NEW l \in Line, l.at = Final(s) + 1
  PROVE  /\ Append(s, l) \in Seq(Line)
         /\ Append(s, l) # <<>>
         /\ Contiguous(Append(s, l))
         /\ Final(Append(s, l)) = l.at
         /\ First(Append(s, l)) = First(s)
<1> DEFINE t == Append(s, l)
<1>1. Len(s) \in Nat \ {0}
  BY EndsType
<1>2. /\ t \in Seq(Line)
      /\ t # <<>>
      /\ Len(t) = Len(s) + 1
      /\ \A i \in 1 .. Len(s) : t[i] = s[i]
      /\ t[Len(s) + 1] = l
  BY AppendProperties
<1>3. Contiguous(t)
  <2> HIDE DEF t
  <2> SUFFICES ASSUME NEW i \in 1 .. Len(t) - 1
               PROVE  t[i + 1].at = t[i].at + 1
    BY DEF Contiguous
  <2>1. CASE i < Len(s)
    BY <1>1, <1>2, <2>1 DEF Contiguous
  <2>2. CASE i = Len(s)
    BY <1>1, <1>2, <2>2 DEF Final
  <2> QED
    BY <1>1, <1>2, <2>1, <2>2
<1> QED
  BY <1>1, <1>2, <1>3 DEF Final, First

\* A single row is a contiguous run.
LEMMA OneRow ==
  ASSUME NEW l \in Line
  PROVE  /\ <<l>> \in Seq(Line)
         /\ <<l>> # <<>>
         /\ Contiguous(<<l>>)
         /\ Final(<<l>>) = l.at
         /\ First(<<l>>) = l.at
  BY DEF Contiguous, Final, First, Line

\* The line ReadRow hands to the branches of the loop.
LEMMA NextLine ==
  ASSUME TypeOK, NEW r \in Row
  PROVE  [at |-> pos + 1, row |-> r] \in Line
  BY DEF TypeOK, Line

\* What the invariant says of the file opened last.
LEMMA LastFile ==
  ASSUME IInv, files # <<>>
  PROVE  /\ Len(files) \in Nat \ {0}
         /\ files[Len(files)] \in Seq(Line)
         /\ files[Len(files)] # <<>>
         /\ Contiguous(files[Len(files)])
         /\ Final(files[Len(files)]) \in Nat
         /\ Final(files[Len(files)]) <= pos
<1>1. files \in Seq(Seq(Line)) /\ Len(files) \in Nat \ {0}
  BY EmptySeq DEF IInv, TypeOK
<1>2. Len(files) \in DOMAIN files
  BY <1>1, LenProperties
<1>3. files[Len(files)] \in Seq(Line) /\ files[Len(files)] # <<>>
  BY <1>1, <1>2, ElementOfSeq, LenProperties DEF IInv, FilesInv
<1> QED
  BY <1>1, <1>2, <1>3, EndsType DEF IInv, FilesInv, FilesAreContiguous

\* The head a row leaves behind in state 1 is a run of rows that ends with it
\* and lies behind every file.
LEMMA HeadWithProperties ==
  ASSUME IInv, state # 2, NEW l \in Line, l.at = pos + 1, StateWith(l) = 1
  PROVE  /\ HeadWith(l) \in Seq(Line)
         /\ HeadWith(l) # <<>>
         /\ Contiguous(HeadWith(l))
         /\ First(HeadWith(l)) <= pos + 1 /\ Final(HeadWith(l)) = pos + 1
         /\ files # <<>> => Final(files[Len(files)]) < First(HeadWith(l))
         /\ \A i \in DOMAIN HeadWith(l) :
              i # Len(HeadWith(l)) => ~Has(HeadWith(l)[i], "open")
         /\ HeadWith(l)[Len(HeadWith(l))] = l
<1>1. CASE StartsHead(l)
  <2>1. HeadWith(l) = <<l>>
    BY <1>1 DEF HeadWith
  <2>2. files # <<>> => Final(files[Len(files)]) <= pos /\ Final(files[Len(files)]) \in Int
    BY LastFile
  <2> QED
    BY <2>1, <2>2, OneRow DEF IInv, TypeOK
<1>2. CASE ~StartsHead(l)
  <2>1. state = 1 /\ HeadWith(l) = Append(functionHead, l)
    BY <1>2 DEF HeadWith, StateWith
  <2>2. /\ functionHead \in Seq(Line)
        /\ functionHead # <<>>
        /\ Contiguous(functionHead)
        /\ First(functionHead) <= pos + 1 /\ Final(functionHead) = pos
        /\ \A i \in DOMAIN functionHead : ~Has(functionHead[i], "open")
        /\ files # <<>> => Final(files[Len(files)]) < First(functionHead)
    <3>1. functionHead \in Seq(Line) /\ functionHead # <<>> /\ pos \in Nat
      BY <2>1 DEF IInv, TypeOK, HeadInv
    <3>2. First(functionHead) \in Nat
      BY <3>1, EndsType
    <3> QED
      BY <2>1, <3>1, <3>2 DEF IInv, HeadInv
  <2>3. /\ Append(functionHead, l) \in Seq(Line)
        /\ Append(functionHead, l) # <<>>
        /\ Contiguous(Append(functionHead, l))
        /\ Final(Append(functionHead, l)) = l.at
        /\ First(Append(functionHead, l)) = First(functionHead)
    BY <2>2, AppendNextRow
  <2>4. /\ Len(Append(functionHead, l)) = Len(functionHead) + 1
        /\ \A i \in 1 .. Len(functionHead) : Append(functionHead, l)[i] = functionHead[i]
        /\ Append(functionHead, l)[Len(functionHead) + 1] = l
        /\ DOMAIN Append(functionHead, l) = 1 .. Len(functionHead) + 1
        /\ DOMAIN functionHead = 1 .. Len(functionHead)
        /\ Len(functionHead) \in Nat
    BY <2>2, AppendProperties, LenProperties
  <2>5. \A i \in DOMAIN Append(functionHead, l) :
           i # Len(Append(functionHead, l)) => ~Has(Append(functionHead, l)[i], "open")
    BY <2>2, <2>4
  <2> QED
    BY <2>1, <2>2, <2>3, <2>4, <2>5
<1> QED
  BY <1>1, <1>2

-----------------------------------------------------------------------------
\* The steps that write to no file preserve what is said of the files.
LEMMA NoFileWritten ==
  ASSUME IInv, UNCHANGED <<files, functionNum>>, state # 2, state' # 2,
         pos' = pos + 1
  PROVE  FilesInv' /\ FilesAreContiguous' /\ FilesAreDisjoint' /\ BodyEndsAtFirstBrace'
<1>1. files # <<>> => Final(files[Len(files)]) <= pos + 1
  BY LastFile DEF IInv, TypeOK
<1>2. FilesInv'
  BY <1>1 DEF IInv, FilesInv, Final
<1>3. FilesAreContiguous' /\ FilesAreDisjoint'
  BY DEF IInv, FilesAreContiguous, FilesAreDisjoint, Contiguous, Final, First
<1>4. BodyEndsAtFirstBrace'
  BY DEF IInv, BodyEndsAtFirstBrace, Has
<1> QED
  BY <1>2, <1>3, <1>4

\* Opening a file for a completed head.
LEMMA OpenFileStep ==
  ASSUME IInv, NEW l \in Line, l.at = pos + 1, pos' = pos + 1, OpenFile(l)
  PROVE  IInv'
<1> DEFINE h == HeadWith(l)
<1>1. /\ state # 2 /\ state' = 2 /\ StateWith(l) = 1
      /\ functionNum' = functionNum + 1
      /\ files' = Append(files, h)
      /\ functionHead' = h
  BY DEF OpenFile, Open
<1>2. /\ h \in Seq(Line) /\ h # <<>> /\ Contiguous(h) /\ Final(h) = pos + 1
      /\ files # <<>> => Final(files[Len(files)]) < First(h)
      /\ \A i \in DOMAIN h : i # Len(h) => ~Has(h[i], "open")
      /\ h[Len(h)] = l
  BY <1>1, HeadWithProperties
<1> HIDE DEF h
<1>3. files \in Seq(Seq(Line)) /\ Len(files) \in Nat /\ pos \in Nat
  BY LenProperties DEF IInv, TypeOK
<1>4. /\ files' \in Seq(Seq(Line))
      /\ files' # <<>>
      /\ Len(files') = Len(files) + 1
      /\ DOMAIN files' = 1 .. Len(files) + 1
      /\ \A n \in 1 .. Len(files) : files'[n] = files[n]
      /\ files'[Len(files) + 1] = h
  BY <1>1, <1>2, <1>3, AppendProperties, LenProperties
<1>5. DOMAIN files = 1 .. Len(files)
  BY <1>3, LenProperties
<1>6. TypeOK'
  BY <1>1, <1>2, <1>3, <1>4 DEF IInv, TypeOK
<1>7. HeadInv'
  BY <1>1 DEF HeadInv
<1>8. FilesInv'
  BY <1>1, <1>2, <1>3, <1>4, <1>5 DEF IInv, FilesInv, Final
<1>9. FilesAreContiguous'
  <2> SUFFICES ASSUME NEW n \in DOMAIN files'
               PROVE  Contiguous(files'[n])
    BY DEF FilesAreContiguous
  <2>1. CASE n = Len(files) + 1
    BY <1>2, <1>4, <2>1
  <2>2. CASE n # Len(files) + 1
    <3>1. n \in DOMAIN files /\ files'[n] = files[n]
      BY <1>3, <1>4, <1>5, <2>2
    <3> QED
      BY <3>1 DEF IInv, FilesAreContiguous
  <2> QED
    BY <2>1, <2>2
<1>10. FilesAreDisjoint'
  <2> SUFFICES ASSUME NEW n \in 1 .. Len(files)
               PROVE  Final(files'[n]) < First(files'[n + 1])
    BY <1>3, <1>4 DEF FilesAreDisjoint, Final, First
  <2>1. CASE n < Len(files)
    <3>1. n \in 1 .. Len(files) - 1 /\ n + 1 \in 1 .. Len(files)
      BY <1>3, <2>1
    <3>2. files'[n] = files[n] /\ files'[n + 1] = files[n + 1]
      BY <1>4, <3>1
    <3> QED
      BY <3>1, <3>2 DEF IInv, FilesAreDisjoint
  <2>2. CASE n = Len(files)
    <3>1. files # <<>>
      BY <1>3, <2>2, EmptySeq
    <3>2. files'[n] = files[Len(files)] /\ files'[n + 1] = h
      BY <1>4, <2>2
    <3> QED
      BY <1>2, <3>1, <3>2
  <2> QED
    BY <1>3, <2>1, <2>2
<1>11. BodyEndsAtFirstBrace'
  <2> SUFFICES ASSUME NEW n \in DOMAIN files',
                      NEW i \in DOMAIN files'[n], NEW j \in DOMAIN files'[n], i < j,
                      Has(files'[n][i], "open"), Has(files'[n][j], "close")
               PROVE  j = Len(files'[n]) /\ (n = Len(files') => state' # 2)
    BY DEF BodyEndsAtFirstBrace, Has
  <2>1. CASE n = Len(files) + 1
    <3>1. i \in 1 .. Len(h) /\ j \in 1 .. Len(h) /\ Len(h) \in Nat
      BY <1>2, <1>4, <2>1, LenProperties
    <3>2. i = Len(h)
      BY <1>2, <1>4, <2>1
    <3> QED
      BY <3>1, <3>2
  <2>2. CASE n # Len(files) + 1
    <3>1. n \in DOMAIN files /\ files'[n] = files[n] /\ n # Len(files')
      BY <1>3, <1>4, <1>5, <2>2
    <3> QED
      BY <3>1 DEF IInv, BodyEndsAtFirstBrace
  <2> QED
    BY <2>1, <2>2
<1> QED
  BY <1>6, <1>7, <1>8, <1>9, <1>10, <1>11 DEF IInv

\* Any row that is not copied leaves a well-typed head.
LEMMA HeadWithType ==
  ASSUME TypeOK, NEW l \in Line
  PROVE  HeadWith(l) \in Seq(Line) /\ StateWith(l) \in 0..2
<1>1. <<l>> \in Seq(Line)
  BY OneRow
<1>2. Append(functionHead, l) \in Seq(Line)
  BY AppendProperties DEF TypeOK
<1> QED
  BY <1>1, <1>2 DEF HeadWith, StateWith, TypeOK

\* Giving up a head at a bad row.
LEMMA RejectRowStep ==
  ASSUME IInv, NEW l \in Line, pos' = pos + 1, RejectRow(l)
  PROVE  IInv'
<1>1. /\ state # 2 /\ state' = 0
      /\ UNCHANGED <<functionHead, functionNum, files>>
  BY DEF RejectRow
<1>2. TypeOK' /\ HeadInv'
  BY <1>1 DEF IInv, TypeOK, HeadInv, Line
<1> QED
  BY <1>1, <1>2, NoFileWritten DEF IInv

\* Beginning or extending a head.
LEMMA ScanRowStep ==
  ASSUME IInv, NEW l \in Line, l.at = pos + 1, pos' = pos + 1, ScanRow(l)
  PROVE  IInv'
<1>1. /\ state # 2 /\ state' = StateWith(l)
      /\ functionHead' = HeadWith(l)
      /\ ~(StateWith(l) = 1 /\ Has(l, "open"))
      /\ functionNum' = functionNum /\ files' = files
  BY DEF ScanRow
<1>2. HeadWith(l) \in Seq(Line) /\ StateWith(l) \in 0..2 /\ state' # 2
  BY <1>1, HeadWithType DEF IInv, StateWith
<1>3. TypeOK'
  BY <1>1, <1>2 DEF IInv, TypeOK
<1>4. HeadInv'
  <2> SUFFICES ASSUME StateWith(l) = 1
               PROVE  /\ HeadWith(l) # <<>>
                      /\ Contiguous(HeadWith(l))
                      /\ First(HeadWith(l)) <= pos + 1 /\ Final(HeadWith(l)) = pos + 1
                      /\ \A i \in DOMAIN HeadWith(l) : ~Has(HeadWith(l)[i], "open")
                      /\ files # <<>> => Final(files[Len(files)]) < First(HeadWith(l))
    BY <1>1 DEF HeadInv, Contiguous, Final, First, Has
  <2> QED
    BY <1>1, HeadWithProperties
<1> QED
  BY <1>1, <1>2, <1>3, <1>4, NoFileWritten DEF IInv

\* Giving up a head because of what it holds as a whole.
LEMMA RejectHeadStep ==
  ASSUME IInv, NEW l \in Line, pos' = pos + 1, RejectHead(l)
  PROVE  IInv'
<1>1. /\ state # 2 /\ state' = 0
      /\ functionHead' = HeadWith(l)
      /\ functionNum' = functionNum /\ files' = files
  BY DEF RejectHead
<1>2. TypeOK' /\ HeadInv'
  BY <1>1, HeadWithType DEF IInv, TypeOK, HeadInv
<1> QED
  BY <1>1, <1>2, NoFileWritten DEF IInv

\* Copying a row of a body to the open file.
LEMMA CopyRowFiles ==
  ASSUME IInv, NEW l \in Line, l.at = pos + 1, CopyRow(l)
  PROVE  /\ Len(files) \in Nat \ {0} /\ functionNum = Len(files)
         /\ files' \in Seq(Seq(Line))
         /\ files' # <<>>
         /\ Len(files') = Len(files)
         /\ DOMAIN files' = 1 .. Len(files)
         /\ \A n \in 1 .. Len(files) - 1 : files'[n] = files[n]
         /\ files[Len(files)] \in Seq(Line)
         /\ files'[Len(files)] = Append(files[Len(files)], l)
         /\ files'[Len(files)] # <<>>
         /\ Contiguous(files'[Len(files)])
         /\ Final(files'[Len(files)]) = pos + 1
         /\ First(files'[Len(files)]) = First(files[Len(files)])
<1> DEFINE last == files[Len(files)]
<1>1. /\ files \in Seq(Seq(Line)) /\ files # <<>>
      /\ functionNum = Len(files)
      /\ Final(last) = pos
  BY DEF IInv, TypeOK, FilesInv, CopyRow
<1>2. /\ Len(files) \in Nat \ {0}
      /\ last \in Seq(Line) /\ last # <<>> /\ Contiguous(last)
  BY <1>1, LastFile
<1>3. /\ Append(last, l) \in Seq(Line)
      /\ Append(last, l) # <<>>
      /\ Contiguous(Append(last, l))
      /\ Final(Append(last, l)) = pos + 1
      /\ First(Append(last, l)) = First(last)
  BY <1>1, <1>2, AppendNextRow
<1>4. files' = [files EXCEPT ![Len(files)] = Append(last, l)]
  BY <1>1 DEF CopyRow
<1>5. /\ files' \in Seq(Seq(Line))
      /\ Len(files') = Len(files)
      /\ \A n \in 1 .. Len(files) :
           files'[n] = IF n = Len(files) THEN Append(last, l) ELSE files[n]
  BY <1>1, <1>2, <1>3, <1>4, ExceptSeq
<1>6. files' # <<>> /\ DOMAIN files' = 1 .. Len(files)
  BY <1>2, <1>5, LenProperties, EmptySeq
<1>7. files'[Len(files)] = Append(last, l)
  <2>1. Len(files) \in 1 .. Len(files)
    BY <1>2
  <2> QED
    BY <1>5, <2>1
<1>8. \A n \in 1 .. Len(files) - 1 : files'[n] = files[n]
  <2> TAKE n \in 1 .. Len(files) - 1
  <2>1. n \in 1 .. Len(files) /\ n # Len(files)
    BY <1>2
  <2> QED
    BY <1>5, <2>1
<1> QED
  BY <1>1, <1>2, <1>3, <1>5, <1>6, <1>7, <1>8

LEMMA CopyRowStep ==
  ASSUME IInv, NEW l \in Line, l.at = pos + 1, pos' = pos + 1, CopyRow(l)
  PROVE  IInv'
<1> DEFINE k == Len(files)
<1>1. /\ state = 2 /\ state' = IF Has(l, "close") THEN 0 ELSE 2
      /\ functionHead' = functionHead /\ functionNum' = functionNum
      /\ pos \in Nat
  BY DEF IInv, TypeOK, CopyRow
<1>2. /\ k \in Nat \ {0} /\ functionNum = k
      /\ files' \in Seq(Seq(Line)) /\ files' # <<>>
      /\ Len(files') = k /\ DOMAIN files' = 1 .. k /\ DOMAIN files = 1 .. k
      /\ \A n \in 1 .. k - 1 : files'[n] = files[n]
      /\ files[k] \in Seq(Line) /\ files[k] # <<>>
      /\ files'[k] = Append(files[k], l) /\ files'[k] # <<>>
      /\ Contiguous(files'[k])
      /\ Final(files'[k]) = pos + 1
      /\ First(files'[k]) = First(files[k])
  <2>1. files \in Seq(Seq(Line)) /\ files # <<>>
    BY <1>1 DEF IInv, TypeOK, FilesInv
  <2> QED
    BY <2>1, CopyRowFiles, LastFile, LenProperties
<1> HIDE DEF k
<1>3. TypeOK' /\ HeadInv'
  BY <1>1, <1>2 DEF IInv, TypeOK, HeadInv
<1>4. FilesInv'
  <2>1. \A n \in 1 .. k : files'[n] # <<>>
    <3> SUFFICES ASSUME NEW n \in 1 .. k PROVE files'[n] # <<>>
      OBVIOUS
    <3>1. CASE n = k
      BY <1>2, <3>1
    <3>2. CASE n # k
      <4>1. n \in 1 .. k - 1 /\ n \in DOMAIN files
        BY <1>2, <3>2
      <4> QED
        BY <1>2, <4>1 DEF IInv, FilesInv
    <3> QED
      BY <3>1, <3>2
  <2>2. functionNum' = Len(files') /\ Final(files'[Len(files')]) = pos'
    BY <1>1, <1>2
  <2>3. pos' <= pos'
    BY <1>1
  <2> QED
    BY <1>2, <2>1, <2>2, <2>3 DEF FilesInv, Final
<1>5. FilesAreContiguous'
  <2> SUFFICES ASSUME NEW n \in 1 .. k PROVE Contiguous(files'[n])
    BY <1>2 DEF FilesAreContiguous, Contiguous
  <2>1. CASE n = k
    BY <1>2, <2>1
  <2>2. CASE n # k
    <3>1. files'[n] = files[n] /\ n \in DOMAIN files
      BY <1>2, <2>2
    <3> QED
      BY <3>1 DEF IInv, FilesAreContiguous
  <2> QED
    BY <2>1, <2>2
<1>6. FilesAreDisjoint'
  <2> SUFFICES ASSUME NEW n \in 1 .. k - 1
               PROVE  Final(files'[n]) < First(files'[n + 1])
    BY <1>2 DEF FilesAreDisjoint, Final, First
  <2>1. files'[n] = files[n] /\ Final(files[n]) < First(files[n + 1])
    BY <1>2 DEF IInv, FilesAreDisjoint, k
  <2>2. First(files'[n + 1]) = First(files[n + 1])
    <3>1. CASE n + 1 = k
      BY <1>2, <3>1
    <3>2. CASE n + 1 # k
      <4>1. n + 1 \in 1 .. k - 1
        BY <1>2, <3>2
      <4> QED
        BY <1>2, <4>1
    <3> QED
      BY <3>1, <3>2
  <2> QED
    BY <2>1, <2>2
<1>7. BodyEndsAtFirstBrace'
  <2> SUFFICES ASSUME NEW n \in 1 .. k,
                      NEW i \in DOMAIN files'[n], NEW j \in DOMAIN files'[n], i < j,
                      Has(files'[n][i], "open"), Has(files'[n][j], "close")
               PROVE  j = Len(files'[n]) /\ (n = k => state' # 2)
    BY <1>2 DEF BodyEndsAtFirstBrace, Has
  <2>1. CASE n # k
    <3>1. files'[n] = files[n] /\ n \in DOMAIN files
      BY <1>2, <2>1
    <3> QED
      BY <2>1, <3>1 DEF IInv, BodyEndsAtFirstBrace
  <2>2. CASE n = k
    <3> DEFINE m == Len(files[k])
    <3>1. /\ m \in Nat
          /\ DOMAIN files[k] = 1 .. m
          /\ DOMAIN files'[k] = 1 .. m + 1
          /\ Len(files'[k]) = m + 1
          /\ \A p \in 1 .. m : files'[k][p] = files[k][p]
          /\ files'[k][m + 1] = l
      BY <1>2, AppendProperties, LenProperties
    <3> HIDE DEF m
    <3>2. CASE j = m + 1
      BY <1>1, <2>2, <3>1, <3>2
    <3>3. CASE j # m + 1
      <4>1. /\ i \in DOMAIN files[k] /\ j \in DOMAIN files[k]
            /\ Has(files[k][i], "open") /\ Has(files[k][j], "close")
        <5>1. i \in 1 .. m + 1 /\ j \in 1 .. m + 1
          BY <2>2, <3>1
        <5>2. i \in 1 .. m /\ j \in 1 .. m
          BY <3>1, <3>3, <5>1
        <5>3. files'[k][i] = files[k][i] /\ files'[k][j] = files[k][j]
          BY <3>1, <5>2
        <5> QED
          BY <2>2, <3>1, <5>2, <5>3
      <4>2. k \in DOMAIN files /\ k = Len(files)
        BY <1>2 DEF k
      <4> QED
        BY <1>1, <4>1, <4>2 DEF IInv, BodyEndsAtFirstBrace
    <3> QED
      BY <3>2, <3>3
  <2> QED
    BY <2>1, <2>2
<1> QED
  BY <1>3, <1>4, <1>5, <1>6, <1>7 DEF IInv
-----------------------------------------------------------------------------
LEMMA InitEstablishes == Init => IInv
<1> SUFFICES ASSUME Init PROVE IInv
  OBVIOUS
<1>1. /\ pos = 0 /\ state = 0 /\ functionHead = <<>> /\ functionNum = 0 /\ files = <<>>
      /\ <<>> \in Seq(Line) /\ <<>> \in Seq(Seq(Line)) /\ Len(files) = 0
      /\ DOMAIN files = {}
  BY EmptySeq, LenProperties DEF Init
<1>2. TypeOK /\ HeadInv /\ FilesInv
  BY <1>1 DEF TypeOK, HeadInv, FilesInv
<1>3. FilesAreContiguous /\ FilesAreDisjoint /\ BodyEndsAtFirstBrace
  BY <1>1 DEF FilesAreContiguous, FilesAreDisjoint, BodyEndsAtFirstBrace
<1> QED
  BY <1>2, <1>3 DEF IInv

LEMMA NextPreserves == IInv /\ [Next]_vars => IInv'
<1> SUFFICES ASSUME IInv, [Next]_vars PROVE IInv'
  OBVIOUS
<1>1. CASE UNCHANGED vars
  BY <1>1 DEF vars, IInv, TypeOK, HeadInv, FilesInv, FilesAreContiguous,
              FilesAreDisjoint, BodyEndsAtFirstBrace, Contiguous, Final, First, Has
<1>2. ASSUME NEW r \in Row, ReadRow(r)
      PROVE  IInv'
  <2> DEFINE l == [at |-> pos + 1, row |-> r]
  <2>1. l \in Line /\ l.at = pos + 1 /\ pos' = pos + 1
    BY <1>2, NextLine DEF IInv, ReadRow
  <2>2. RejectRow(l) \/ ScanRow(l) \/ RejectHead(l) \/ OpenFile(l) \/ CopyRow(l)
    BY <1>2 DEF ReadRow
  <2> HIDE DEF l
  <2>3. CASE RejectRow(l)
    BY <2>1, <2>3, RejectRowStep
  <2>4. CASE ScanRow(l)
    BY <2>1, <2>4, ScanRowStep
  <2>5. CASE RejectHead(l)
    BY <2>1, <2>5, RejectHeadStep
  <2>6. CASE OpenFile(l)
    BY <2>1, <2>6, OpenFileStep
  <2>7. CASE CopyRow(l)
    BY <2>1, <2>7, CopyRowStep
  <2> QED
    BY <2>2, <2>3, <2>4, <2>5, <2>6, <2>7
<1> QED
  BY <1>1, <1>2 DEF Next

\* The scanner's variables keep their types and the invariant IInv for every
\* source text, of whatever rows.
THEOREM Invariance == Spec => []IInv
<1> QED
  BY InitEstablishes, NextPreserves, PTL DEF Spec

\* functionParser.py never leaves a row out of a file it is writing, nor writes
\* the rows of a file out of order.
THEOREM Contiguity == Spec => []FilesAreContiguous
<1>1. IInv => FilesAreContiguous
  BY DEF IInv
<1> QED
  BY <1>1, Invariance, PTL

\* functionParser.py never writes one row of its input to two files.
THEOREM Disjointness == Spec => []FilesAreDisjoint
<1>1. IInv => FilesAreDisjoint
  BY DEF IInv
<1> QED
  BY <1>1, Invariance, PTL

\* functionParser.py always ends a function at the first right brace in column
\* 0 behind its head.
THEOREM BodyEnd == Spec => []BodyEndsAtFirstBrace
<1>1. IInv => BodyEndsAtFirstBrace
  BY DEF IInv
<1> QED
  BY <1>1, Invariance, PTL
-----------------------------------------------------------------------------
\* The refinement mapping, one slice per file.
LEMMA SlicesProperties ==
  ASSUME IInv
  PROVE  /\ Slices \in Seq(Slicer!Slice)
         /\ Len(Slices) = Len(files)
         /\ \A n \in 1 .. Len(files) :
              Slices[n] = [from |-> First(files[n]), to |-> Final(files[n])]
<1>1. Len(files) \in Nat /\ files \in Seq(Seq(Line)) /\ DOMAIN files = 1 .. Len(files)
  BY LenProperties DEF IInv, TypeOK
<1>2. ASSUME NEW n \in 1 .. Len(files)
      PROVE  [from |-> First(files[n]), to |-> Final(files[n])] \in Slicer!Slice
  <2>1. files[n] \in Seq(Line) /\ files[n] # <<>>
    BY <1>1, ElementOfSeq DEF IInv, FilesInv
  <2> QED
    BY <2>1, EndsType DEF Slicer!Slice
<1> QED
  BY <1>1, <1>2 DEF Slices

\* A row that is written to no file is skipped by the abstract scanner.
LEMMA SkipStep ==
  ASSUME IInv, IInv', pos' = pos + 1, files' = files, state # 2, state' # 2
  PROVE  Slicer!Skip
<1>1. Slices' = Slices
  BY DEF Slices, First, Final
<1> QED
  BY <1>1 DEF Slicer!Skip

\* Opening a file cuts a slice behind the earlier ones.
LEMMA CutStep ==
  ASSUME IInv, IInv', NEW l \in Line, l.at = pos + 1, pos' = pos + 1, OpenFile(l)
  PROVE  Slicer!Cut
<1> DEFINE h == HeadWith(l)
           s == [from |-> First(h), to |-> pos + 1]
           k == Len(files)
<1>1. /\ state # 2 /\ state' = 2 /\ StateWith(l) = 1 /\ files' = Append(files, h)
  BY DEF OpenFile, Open
<1>2. /\ h \in Seq(Line) /\ h # <<>>
      /\ First(h) <= pos + 1 /\ Final(h) = pos + 1
      /\ files # <<>> => Final(files[k]) < First(h)
  BY <1>1, HeadWithProperties
<1>3. First(h) \in Nat \ {0} /\ pos \in Nat
  BY <1>2, EndsType DEF IInv, TypeOK
<1> HIDE DEF h
<1>4. /\ files \in Seq(Seq(Line)) /\ k \in Nat
      /\ Len(files') = k + 1
      /\ \A n \in 1 .. k : files'[n] = files[n]
      /\ files'[k + 1] = h
  BY <1>1, <1>2, AppendProperties, LenProperties DEF IInv, TypeOK
<1>5. s \in Slicer!Slice
  BY <1>3 DEF Slicer!Slice
<1> HIDE DEF k
<1>6. /\ Slices \in Seq(Slicer!Slice) /\ Len(Slices) = k
      /\ \A n \in 1 .. k : Slices[n] = [from |-> First(files[n]), to |-> Final(files[n])]
  BY SlicesProperties DEF k
<1>7. /\ Slices' \in Seq(Slicer!Slice) /\ Len(Slices') = k + 1
      /\ \A n \in 1 .. k + 1 :
           Slices'[n] = [from |-> First(files'[n]), to |-> Final(files'[n])]
  <2>1. (/\ Slices \in Seq(Slicer!Slice)
         /\ Len(Slices) = Len(files)
         /\ \A n \in 1 .. Len(files) :
              Slices[n] = [from |-> First(files[n]), to |-> Final(files[n])])'
    BY SlicesProperties, PTL
  <2> QED
    BY <1>4, <2>1 DEF First, Final, Slicer!Slice
<1>8. Slices' = Append(Slices, s)
  <2>1. /\ Append(Slices, s) \in Seq(Slicer!Slice)
        /\ Len(Append(Slices, s)) = k + 1
        /\ \A n \in 1 .. k : Append(Slices, s)[n] = Slices[n]
        /\ Append(Slices, s)[k + 1] = s
    BY <1>5, <1>6, AppendProperties
  <2>2. ASSUME NEW n \in 1 .. k + 1 PROVE Slices'[n] = Append(Slices, s)[n]
    <3>1. CASE n = k + 1
      BY <1>2, <1>4, <1>7, <2>1, <3>1
    <3>2. CASE n # k + 1
      <4>1. n \in 1 .. k
        BY <1>4, <3>2
      <4> QED
        BY <1>4, <1>6, <1>7, <2>1, <4>1
    <3> QED
      BY <3>1, <3>2
  <2> QED
    BY <1>7, <2>1, <2>2, SeqEqual
<1>9. First(h) \in Slicer!Written + 1 .. pos + 1
  <2>1. CASE files = <<>>
    <3>1. Slices = <<>>
      BY <1>6, <2>1, EmptySeq DEF k
    <3> QED
      BY <1>2, <1>3, <3>1 DEF Slicer!Written
  <2>2. CASE files # <<>>
    <3>1. k \in 1 .. k /\ Slices # <<>> /\ Final(files[k]) \in Nat
      BY <1>4, <1>6, <2>2, LastFile, EmptySeq DEF k
    <3>2. Slicer!Written = Final(files[k])
      BY <1>6, <3>1 DEF Slicer!Written
    <3> QED
      BY <1>2, <1>3, <2>2, <3>1, <3>2
  <2> QED
    BY <2>1, <2>2
<1> QED
  BY <1>1, <1>8, <1>9 DEF Slicer!Cut

\* Copying a row grows the last slice by that row.
LEMMA ExtendStep ==
  ASSUME IInv, IInv', NEW l \in Line, l.at = pos + 1, pos' = pos + 1, CopyRow(l)
  PROVE  Slicer!Extend
<1> DEFINE k == Len(files)
           t == [Slices EXCEPT ![Len(Slices)].to = pos + 1]
<1>1. state = 2 /\ state' \in {0, 2}
  BY DEF CopyRow
<1>2. /\ k \in Nat \ {0} /\ Len(files') = k
      /\ \A n \in 1 .. k - 1 : files'[n] = files[n]
      /\ Final(files'[k]) = pos + 1
      /\ First(files'[k]) = First(files[k])
  BY CopyRowFiles
<1> HIDE DEF k
<1>3. /\ Slices \in Seq(Slicer!Slice) /\ Len(Slices) = k
      /\ \A n \in 1 .. k : Slices[n] = [from |-> First(files[n]), to |-> Final(files[n])]
  BY SlicesProperties DEF k
<1>4. /\ Slices' \in Seq(Slicer!Slice) /\ Len(Slices') = k
      /\ \A n \in 1 .. k :
           Slices'[n] = [from |-> First(files'[n]), to |-> Final(files'[n])]
  <2>1. (/\ Slices \in Seq(Slicer!Slice)
         /\ Len(Slices) = Len(files)
         /\ \A n \in 1 .. Len(files) :
              Slices[n] = [from |-> First(files[n]), to |-> Final(files[n])])'
    BY SlicesProperties, PTL
  <2> QED
    BY <1>2, <2>1 DEF First, Final, Slicer!Slice
<1>5. k \in 1 .. k /\ Slices[k] \in Slicer!Slice /\ pos \in Nat
  BY <1>2, <1>3, ElementOfSeq DEF IInv, TypeOK
<1>6. t = [Slices EXCEPT ![k] = [from |-> First(files[k]), to |-> pos + 1]]
  <2>1. Slices[k] = [from |-> First(files[k]), to |-> Final(files[k])]
    BY <1>3, <1>5
  <2>2. [Slices[k] EXCEPT !.to = pos + 1] = [from |-> First(files[k]), to |-> pos + 1]
    BY <2>1
  <2>3. t = [Slices EXCEPT ![k] = [Slices[k] EXCEPT !.to = pos + 1]]
    BY <1>3 DEF t
  <2> QED
    BY <2>2, <2>3
<1>7. [from |-> First(files[k]), to |-> pos + 1] \in Slicer!Slice
  BY <1>3, <1>5 DEF Slicer!Slice
<1>8. /\ t \in Seq(Slicer!Slice) /\ Len(t) = k
      /\ \A n \in 1 .. k : t[n] = IF n = k THEN [from |-> First(files[k]), to |-> pos + 1]
                                           ELSE Slices[n]
  BY <1>3, <1>5, <1>6, <1>7, ExceptSeq
<1>9. Slices' = t
  <2>1. ASSUME NEW n \in 1 .. k PROVE Slices'[n] = t[n]
    <3>1. CASE n = k
      BY <1>2, <1>4, <1>8, <3>1
    <3>2. CASE n # k
      <4>1. n \in 1 .. k - 1
        BY <1>2, <3>2
      <4> QED
        BY <1>2, <1>3, <1>4, <1>8, <3>2, <4>1
    <3> QED
      BY <3>1, <3>2
  <2> HIDE DEF t
  <2> QED
    BY <1>4, <1>8, <2>1, SeqEqual
<1> QED
  BY <1>1, <1>9 DEF Slicer!Extend

LEMMA StepRefines ==
  IInv /\ IInv' /\ [Next]_vars => [Slicer!SlicerNext]_(Slicer!slicerVars)
<1> SUFFICES ASSUME IInv, IInv', [Next]_vars
             PROVE  [Slicer!SlicerNext]_(Slicer!slicerVars)
  OBVIOUS
<1>1. CASE UNCHANGED vars
  BY <1>1 DEF vars, Slicer!slicerVars, Slices, First, Final
<1>2. ASSUME NEW r \in Row, ReadRow(r)
      PROVE  Slicer!SlicerNext
  <2> DEFINE l == [at |-> pos + 1, row |-> r]
  <2>1. l \in Line /\ l.at = pos + 1 /\ pos' = pos + 1
    BY <1>2, NextLine DEF IInv, ReadRow
  <2>2. RejectRow(l) \/ ScanRow(l) \/ RejectHead(l) \/ OpenFile(l) \/ CopyRow(l)
    BY <1>2 DEF ReadRow
  <2> HIDE DEF l
  <2>3. CASE RejectRow(l) \/ ScanRow(l) \/ RejectHead(l)
    <3>1. files' = files /\ state # 2 /\ state' # 2
      BY <2>3 DEF RejectRow, ScanRow, RejectHead, StateWith
    <3> QED
      BY <2>1, <3>1, SkipStep DEF Slicer!SlicerNext
  <2>4. CASE OpenFile(l)
    BY <2>1, <2>4, CutStep DEF Slicer!SlicerNext
  <2>5. CASE CopyRow(l)
    BY <2>1, <2>5, ExtendStep DEF Slicer!SlicerNext
  <2> QED
    BY <2>2, <2>3, <2>4, <2>5
<1> QED
  BY <1>1, <1>2 DEF Next

\* functionParser.py implements FunctionSlicer: whatever the text, what it
\* writes are intervals of the source's rows, one behind the other.
THEOREM Refinement == Spec => SlicerSpec
<1>1. Init => Slicer!SlicerInit
  <2> SUFFICES ASSUME Init PROVE Slicer!SlicerInit
    OBVIOUS
  <2>1. files = <<>> /\ Len(files) = 0 /\ pos = 0 /\ state = 0
    BY EmptySeq DEF Init
  <2>2. Slices = <<>>
    BY <2>1, InitEstablishes, SlicesProperties, EmptySeq
  <2> QED
    BY <2>1, <2>2 DEF Slicer!SlicerInit
<1> QED
  BY <1>1, Invariance, StepRefines, PTL DEF Spec, SlicerSpec, Slicer!SlicerSpec
-----------------------------------------------------------------------------
(***************************************************************************)
(* The scanner on C text whose functions are known.  It copes with any     *)
(* style in which functions are opened and closed in column 0, on rows of  *)
(* their own, unless it has both heads that take function pointers and     *)
(* block macros that look like heads.                                      *)
(***************************************************************************)
Readable(s) == {"oneLine", "early"} \cap s = {} /\ ~ ({"callback", "each"} \subseteq s)

\* What the tests of the scanner see of each kind of row.
LEMMA Shapes ==
  ASSUME NEW kind
  PROVE  /\ kind \in {"decl", "table", "headMid", "inner"} => Text[kind] = Shape(0, 0, {})
         /\ kind \in {"protoFirst", "headFirst", "callFirst"} => Text[kind] = Shape(1, 0, {})
         /\ kind \in {"protoLast", "callLast"} => Text[kind] = Shape(0, 1, {})
         /\ kind = "brace" => Text[kind] = Shape(0, 0, {"close"})
         /\ kind = "stmt" => Text[kind] = Shape(1, 1, {})
         /\ kind = "symbols" => Text[kind] = Shape(0, 0, {"sym"})
         /\ kind = "callback" => Text[kind] = Shape(2, 2, {"open"})
         /\ kind \in {"head", "each"} => Text[kind] = Shape(1, 1, {"open"})
         /\ kind = "headLast" => Text[kind] = Shape(0, 1, {"open"})
         /\ kind = "branch" => Text[kind] = Shape(1, 1, {"ctl", "open"})
BY DEF Text

\* Where each kind of row may come, and what it leaves the text inside of.
LEMMA Places ==
  ASSUME NEW kind \in style, Readable(style), Emit(kind)
  PROVE  \/ kind = "decl" /\ place = "top" /\ place' = "top"
         \/ kind = "protoFirst" /\ place = "top" /\ place' = "proto"
         \/ kind = "protoLast" /\ place = "proto" /\ place' = "top"
         \/ kind = "table" /\ place = "top" /\ place' = "table"
         \/ kind = "symbols" /\ place = "table" /\ place' = "table"
         \/ kind = "brace" /\ place = "table" /\ place' = "top"
         \/ kind \in {"head", "callback"} /\ place = "top" /\ place' = "body"
         \/ kind = "headFirst" /\ place = "top" /\ place' = "head"
         \/ kind = "headMid" /\ place = "head" /\ place' = "head"
         \/ kind = "headLast" /\ place = "head" /\ place' = "body"
         \/ kind \in {"stmt", "symbols", "branch", "each", "inner"} /\ place = "body" /\ place' = "body"
         \/ kind = "callFirst" /\ place = "body" /\ place' = "call"
         \/ kind = "callLast" /\ place = "call" /\ place' = "body"
         \/ kind = "brace" /\ place = "body" /\ place' = "top"
<1>1. kind \notin {"oneLine", "early"}
  BY DEF Readable
<1> QED
  BY <1>1 DEF Emit, Rules, Rule

Between == {"top", "proto", "table"}
Within == {"body", "call"}

SourceInv ==
  /\ style \in Styles
  /\ place \in Between \cup Within \cup {"head"}
  /\ fn \in Nat
  /\ owner \in Seq(Nat) /\ Len(owner) = pos
  /\ \A q \in DOMAIN owner : owner[q] <= fn
  /\ place \in Within \cup {"head"} => fn > 0
  /\ pointers \subseteq 1 .. fn /\ (place = "head" => fn \notin pointers)

HeadRows == {functionHead[k].at : k \in DOMAIN functionHead}

\* In a head of the text the scanner has that head, from its first row.  In a body
\* either it copies, or the head took a function pointer and was given up; a head
\* begun at a call there already holds both of its parentheses when the statement
\* ends, so that the next row with two more is not taken for the end of a head.
ScannerInv ==
  /\ state = 2 => place \in Within
  /\ place = "head" =>
       /\ state = 1 /\ HeadRows = RowsOf(fn)
       /\ \A k \in DOMAIN functionHead :
            /\ ~ Has(functionHead[k], "sym")
            /\ functionHead[k].row.lp = (IF k = 1 THEN 1 ELSE 0)
  /\ place \in Within /\ state # 2 => "callback" \in style
  /\ place \in Within /\ state = 1 => \E k \in DOMAIN functionHead : functionHead[k].row.lp > 0
  /\ place = "body" /\ state = 1 => \E k \in DOMAIN functionHead : functionHead[k].row.rp > 0

\* Each file is the function it belongs to, and that function is over unless the
\* file is still being written.
HoldsOne(n) == \E f \in (1 .. fn) \ pointers : RowsIn(n) = RowsOf(f) /\ (f = fn => place \in Between)
HoldsLast(n) == RowsIn(n) = RowsOf(fn) /\ fn \notin pointers
FilesOwned == \A n \in DOMAIN files : IF Finished(n) THEN HoldsOne(n) ELSE HoldsLast(n)

\* Each function that is over has its file; the body the text is in is being copied.
Found ==
  \A f \in (1 .. fn) \ pointers :
    IF f = fn /\ place \notin Between THEN place \in Within => state = 2
                                     ELSE \E n \in DOMAIN files : RowsIn(n) = RowsOf(f)

\* badChars on one row, and on a head.
LEMMA BadRow ==
  ASSUME NEW l \in Line
  PROVE  badChars(<<l>>) <=> Has(l, "sym") \/ (l.row.lp > 1 /\ l.row.rp > 1)
<1>1. DOMAIN <<l>> = {1} /\ <<l>>[1] = l
  OBVIOUS
<1>2. Several(<<l>>, "lp") <=> l.row.lp > 1
  <2>1. l.row.lp \in 0 .. 2
    BY RowAssumption DEF Line
  <2> QED
    BY <1>1, <2>1 DEF Several
<1>3. Several(<<l>>, "rp") <=> l.row.rp > 1
  <2>1. l.row.rp \in 0 .. 2
    BY RowAssumption DEF Line
  <2> QED
    BY <1>1, <2>1 DEF Several
<1> QED
  BY <1>1, <1>2, <1>3 DEF badChars

LEMMA GoodHead ==
  ASSUME NEW h \in Seq(Line),
         \A k \in DOMAIN h : ~ Has(h[k], "sym") /\ h[k].row.lp = (IF k = 1 THEN 1 ELSE 0)
  PROVE  ~ badChars(h)
<1>1. ~ Several(h, "lp")
  BY DEF Several
<1> QED
  BY <1>1 DEF badChars

LEMMA TwoCalls ==
  ASSUME NEW h \in Seq(Line), NEW l \in Line, l.row.lp > 0, l.row.rp > 0,
         \E k \in DOMAIN h : h[k].row.lp > 0, \E k \in DOMAIN h : h[k].row.rp > 0
  PROVE  badChars(Append(h, l))
<1>1. PICK a \in DOMAIN h : h[a].row.lp > 0
  OBVIOUS
<1>2. PICK b \in DOMAIN h : h[b].row.rp > 0
  OBVIOUS
<1>3. /\ DOMAIN h = 1 .. Len(h) /\ Len(h) \in Nat
      /\ Append(h, l) \in Seq(Line) /\ Len(Append(h, l)) = Len(h) + 1
      /\ \A k \in 1 .. Len(h) : Append(h, l)[k] = h[k]
      /\ Append(h, l)[Len(h) + 1] = l
  BY AppendProperties, LenProperties
<1>4. DOMAIN Append(h, l) = 1 .. Len(h) + 1
  BY <1>3, LenProperties
<1> DEFINE t == Append(h, l)
           m == Len(h) + 1
<1>5. a \in DOMAIN t /\ b \in DOMAIN t /\ m \in DOMAIN t /\ a # m /\ b # m
  BY <1>3, <1>4
<1>6. t[a] = h[a] /\ t[b] = h[b] /\ t[m] = l
  BY <1>3
<1> HIDE DEF t, m
<1>7. Several(t, "lp") /\ Several(t, "rp")
  BY <1>1, <1>2, <1>5, <1>6 DEF Several
<1> QED
  BY <1>7 DEF badChars, t

-----------------------------------------------------------------------------
\* Reading the next row of the text is reading a row.
LEMMA ScanReads ==
  ASSUME style \in Styles, NEW kind \in style, Scan(kind), TypeOK
  PROVE  /\ Text[kind] \in Row
         /\ [at |-> pos + 1, row |-> Text[kind]] \in Line
         /\ ReadRow(Text[kind]) /\ Emit(kind)
         /\ pos' = pos + 1 /\ pos \in Nat
<1>1. Text[kind] \in Row
  BY SourceAssumption
<1> QED
  BY <1>1, NextLine DEF Scan, ReadRow, TypeOK

\* Every step of the two together is a step of the scanner.
LEMMA SystemPreservesIInv == IInv /\ SourceInv /\ [SystemNext]_systemVars => IInv'
<1>1. ASSUME IInv, SourceInv, SystemNext PROVE [Next]_vars
  <2>1. PICK kind \in style : Scan(kind)
    BY <1>1 DEF SystemNext
  <2> QED
    BY <1>1, <2>1, ScanReads DEF IInv, SourceInv, Next
<1> QED
  BY <1>1, NextPreserves DEF systemVars

\* The function the next row belongs to.
OwnerOf(kind) == IF Begins(kind) THEN fn + 1 ELSE IF place \in {"head", "body", "call"} THEN fn ELSE 0

LEMMA OwnerGrows ==
  ASSUME IInv, SourceInv, NEW kind, Emit(kind), pos' = pos + 1
  PROVE  /\ fn' = (IF Begins(kind) THEN fn + 1 ELSE fn) /\ fn' \in Nat
         /\ owner' \in Seq(Nat) /\ Len(owner') = pos'
         /\ \A q \in DOMAIN owner' : owner'[q] <= fn'
         /\ \A f \in Nat : RowsOf(f)' = IF f = OwnerOf(kind) THEN RowsOf(f) \cup {pos + 1} ELSE RowsOf(f)
         /\ Begins(kind) => RowsOf(fn)' = {pos + 1}
         /\ ~ Begins(kind) /\ place \in {"head", "body", "call"} => RowsOf(fn)' = RowsOf(fn) \cup {pos + 1}
<1> DEFINE o == OwnerOf(kind)
<1>1. /\ fn' = (IF Begins(kind) THEN fn + 1 ELSE fn) /\ fn \in Nat /\ fn' \in Nat
      /\ owner' = Append(owner, o) /\ o \in Nat /\ o <= fn'
      /\ owner \in Seq(Nat) /\ Len(owner) = pos /\ pos \in Nat
      /\ \A q \in DOMAIN owner : owner[q] <= fn
  BY DEF Emit, OwnerOf, SourceInv, IInv, TypeOK
<1> HIDE DEF o
<1>2. /\ owner' \in Seq(Nat) /\ Len(owner') = pos + 1
      /\ \A q \in 1 .. pos : owner'[q] = owner[q]
      /\ owner'[pos + 1] = o
  BY <1>1, AppendProperties
<1>3. DOMAIN owner = 1 .. pos /\ DOMAIN owner' = 1 .. pos + 1
  BY <1>1, <1>2, LenProperties
<1>4. \A q \in DOMAIN owner' : owner'[q] <= fn'
  <2> SUFFICES ASSUME NEW q \in 1 .. pos + 1 PROVE owner'[q] <= fn'
    BY <1>3
  <2>1. CASE q = pos + 1
    BY <1>1, <1>2, <2>1
  <2>2. CASE q # pos + 1
    <3>1. q \in 1 .. pos
      BY <1>1, <2>2
    <3>2. owner'[q] = owner[q] /\ owner[q] <= fn /\ owner[q] \in Nat
      BY <1>1, <1>2, <1>3, <3>1, ElementOfSeq
    <3> QED
      BY <1>1, <3>2
  <2> QED
    BY <2>1, <2>2
<1>5. ASSUME NEW f \in Nat
      PROVE  RowsOf(f)' = IF f = o THEN RowsOf(f) \cup {pos + 1} ELSE RowsOf(f)
  <2>1. RowsOf(f)' = {q \in 1 .. pos + 1 : owner'[q] = f} /\ RowsOf(f) = {q \in 1 .. pos : owner[q] = f}
    BY <1>3 DEF RowsOf
  <2> QED
    BY <1>1, <1>2, <2>1
<1>6. RowsOf(fn + 1) = {}
  <2> SUFFICES ASSUME NEW q \in DOMAIN owner, owner[q] = fn + 1 PROVE FALSE
    BY DEF RowsOf
  <2> QED
    BY <1>1
<1>7. PICK g \in Nat : g = fn'
  BY <1>1
<1>8. RowsOf(fn)' = RowsOf(g)'
  BY <1>7 DEF RowsOf
<1>9. RowsOf(g)' = IF g = o THEN RowsOf(g) \cup {pos + 1} ELSE RowsOf(g)
  BY <1>5
<1>10. Begins(kind) => RowsOf(fn)' = {pos + 1}
  BY <1>1, <1>6, <1>7, <1>8, <1>9 DEF o, OwnerOf
<1>11. ~ Begins(kind) /\ place \in {"head", "body", "call"} => RowsOf(fn)' = RowsOf(fn) \cup {pos + 1}
  BY <1>1, <1>7, <1>8, <1>9 DEF o, OwnerOf
<1> QED
  BY <1>1, <1>2, <1>4, <1>5, <1>10, <1>11 DEF o

LEMMA PointersStep ==
  ASSUME IInv, SourceInv, Readable(style), NEW kind \in style, Emit(kind), pos' = pos + 1
  PROVE  /\ pointers' \subseteq 1 .. fn' /\ (place' = "head" => fn' \notin pointers')
         /\ \A f \in 1 .. fn : f \in pointers' <=> f \in pointers
         /\ kind \in {"head", "headLast"} => fn' \notin pointers'
         /\ kind = "callback" => fn' \in pointers'
<1>1. /\ pointers' = IF kind = "callback" THEN pointers \cup {fn + 1} ELSE pointers
      /\ pointers \subseteq 1 .. fn /\ (place = "head" => fn \notin pointers) /\ fn \in Nat
      /\ fn' = IF Begins(kind) THEN fn + 1 ELSE fn
  BY OwnerGrows DEF Emit, SourceInv
<1>2. fn + 1 \notin 1 .. fn /\ 1 .. fn \subseteq 1 .. fn + 1 /\ fn + 1 \in 1 .. fn + 1
  BY <1>1
<1>3. fn + 1 \notin pointers
  BY <1>1, <1>2
<1>4. CASE kind = "callback"
  <2>1. place' = "body" /\ fn' = fn + 1
    BY <1>1, <1>4, Places DEF Begins
  <2> QED
    BY <1>1, <1>2, <1>4, <2>1
<1>5. CASE kind # "callback"
  <2>1. pointers' = pointers /\ pointers' \subseteq 1 .. fn'
    BY <1>1, <1>2, <1>5
  <2>2. place' = "head" => kind = "headFirst" \/ (~ Begins(kind) /\ place = "head")
    BY Places DEF Begins
  <2>3. kind = "headLast" => ~ Begins(kind) /\ place = "head"
    BY Places DEF Begins
  <2>4. Begins(kind) => fn' \notin pointers'
    BY <1>1, <1>3, <2>1
  <2>5. ~ Begins(kind) /\ place = "head" => fn' \notin pointers'
    BY <1>1, <2>1
  <2>6. kind \in {"head", "headFirst"} => Begins(kind)
    BY DEF Begins
  <2> QED
    BY <1>5, <2>1, <2>2, <2>3, <2>4, <2>5, <2>6
<1> QED
  BY <1>4, <1>5

LEMMA SourceStep ==
  ASSUME IInv, SourceInv, Readable(style), NEW kind \in style, Emit(kind), pos' = pos + 1
  PROVE  SourceInv' /\ style' = style
<1>1. /\ style' = style /\ style \in Styles /\ fn \in Nat
      /\ place \in {"head", "body", "call"} => fn > 0
  BY DEF Emit, SourceInv, Within
<1>2. fn' = (IF Begins(kind) THEN fn + 1 ELSE fn)
  BY OwnerGrows
<1>3. place' \in Between \cup Within \cup {"head"} /\ (place' \in Within \cup {"head"} => fn' > 0)
  BY <1>1, <1>2, Places DEF Between, Within, Begins
<1> QED
  BY <1>1, <1>3, OwnerGrows, PointersStep DEF SourceInv

\* What the scanner makes of each kind of row where it is not copying.
LEMMA Outside ==
  ASSUME IInv, SourceInv, ScannerInv, Readable(style), state # 2,
         NEW kind \in style, Scan(kind),
         NEW l, l = [at |-> pos + 1, row |-> Text[kind]]
  PROVE  \/ /\ kind \in {"decl", "table", "headMid", "inner", "brace", "protoLast", "callLast", "stmt"}
            /\ state' = state /\ functionHead' = Append(functionHead, l)
            /\ UNCHANGED <<functionNum, files>>
         \/ /\ kind \in {"protoFirst", "headFirst", "callFirst"}
            /\ state' = 1 /\ functionHead' = <<l>>
            /\ UNCHANGED <<functionNum, files>>
         \/ /\ kind \in {"callback", "symbols", "branch"}
            /\ state' = 0
            /\ UNCHANGED <<functionNum, files>>
         \/ /\ kind \in {"head", "headLast"}
            /\ state' = 2 /\ functionNum' = functionNum + 1
            /\ functionHead' = IF kind = "head" THEN <<l>> ELSE Append(functionHead, l)
            /\ files' = Append(files, functionHead')
<1> USE DEF Shape
<1>1. /\ l \in Line /\ l.row = Text[kind] /\ Emit(kind)
      /\ RejectRow(l) \/ ScanRow(l) \/ RejectHead(l) \/ OpenFile(l) \/ CopyRow(l)
  BY ScanReads DEF IInv, SourceInv, ReadRow
<1>2. ~ CopyRow(l)
  BY DEF CopyRow
<1>3. functionHead \in Seq(Line) /\ state \in {0, 1}
  BY DEF IInv, TypeOK
<1>4. CASE kind \in {"decl", "table", "headMid", "inner", "brace", "protoLast", "callLast", "stmt"}
  <2>1. ~ badChars(<<l>>) /\ ~ StartsHead(l) /\ ~ Has(l, "open")
    BY <1>1, <1>4, Shapes, BadRow DEF StartsHead, Has
  <2> QED
    BY <1>1, <1>2, <1>4, <2>1 DEF RejectRow, ScanRow, RejectHead, OpenFile, Open, HeadWith, StateWith
<1>5. CASE kind \in {"protoFirst", "headFirst", "callFirst"}
  <2>1. ~ badChars(<<l>>) /\ StartsHead(l) /\ ~ Has(l, "open")
    BY <1>1, <1>5, Shapes, BadRow DEF StartsHead, Has
  <2> QED
    BY <1>1, <1>2, <1>5, <2>1 DEF RejectRow, ScanRow, RejectHead, OpenFile, Open, HeadWith, StateWith
<1>6. CASE kind \in {"callback", "symbols"}
  <2>1. badChars(<<l>>)
    BY <1>1, <1>6, Shapes, BadRow DEF Has
  <2> QED
    BY <1>1, <1>2, <1>6, <2>1 DEF RejectRow, ScanRow, RejectHead, OpenFile, Open
<1>7. CASE kind = "branch"
  <2>1. ~ badChars(<<l>>) /\ ~ StartsHead(l) /\ Has(l, "open") /\ l.row.lp > 0 /\ l.row.rp > 0
    BY <1>1, <1>7, Shapes, BadRow DEF StartsHead, Has
  <2>2. place = "body"
    BY <1>1, <1>7, Places
  <2>3. state = 1 => badChars(Append(functionHead, l))
    BY <1>1, <1>3, <2>1, <2>2, TwoCalls DEF ScannerInv, Within
  <2> QED
    BY <1>1, <1>2, <1>3, <1>7, <2>1, <2>3
       DEF RejectRow, ScanRow, RejectHead, OpenFile, Open, HeadWith, StateWith
<1>8. CASE kind = "head"
  <2>1. ~ badChars(<<l>>) /\ StartsHead(l) /\ Has(l, "open")
    BY <1>1, <1>8, Shapes, BadRow DEF StartsHead, Has
  <2> QED
    BY <1>1, <1>2, <1>8, <2>1 DEF RejectRow, ScanRow, RejectHead, OpenFile, Open, HeadWith, StateWith
<1>9. CASE kind = "headLast"
  <2>1. ~ badChars(<<l>>) /\ ~ StartsHead(l) /\ Has(l, "open") /\ ~ Has(l, "sym") /\ l.row.lp = 0
    BY <1>1, <1>9, Shapes, BadRow DEF StartsHead, Has
  <2>2. place = "head"
    BY <1>1, <1>9, Places
  <2>3. state = 1 /\ ~ badChars(Append(functionHead, l))
    <3>1. /\ state = 1
          /\ \A k \in DOMAIN functionHead :
               /\ ~ Has(functionHead[k], "sym")
               /\ functionHead[k].row.lp = (IF k = 1 THEN 1 ELSE 0)
      BY <2>2 DEF ScannerInv
    <3>2. functionHead # <<>>
      BY <3>1 DEF IInv, HeadInv
    <3>3. LET h == Append(functionHead, l) IN
            /\ h \in Seq(Line)
            /\ \A k \in DOMAIN h : ~ Has(h[k], "sym") /\ h[k].row.lp = (IF k = 1 THEN 1 ELSE 0)
      <4> DEFINE h == Append(functionHead, l)
      <4>1. /\ h \in Seq(Line) /\ Len(h) = Len(functionHead) + 1
            /\ \A k \in 1 .. Len(functionHead) : h[k] = functionHead[k]
            /\ h[Len(functionHead) + 1] = l
            /\ Len(functionHead) \in Nat \ {0} /\ DOMAIN functionHead = 1 .. Len(functionHead)
        BY <1>1, <1>3, <3>2, AppendProperties, LenProperties, EmptySeq
      <4> HIDE DEF h
      <4>2. DOMAIN h = 1 .. Len(functionHead) + 1
        BY <4>1, LenProperties
      <4>3. \A k \in DOMAIN h : k \in DOMAIN functionHead \/ k = Len(functionHead) + 1
        BY <4>1, <4>2
      <4>4. \A k \in DOMAIN h : ~ Has(h[k], "sym") /\ h[k].row.lp = (IF k = 1 THEN 1 ELSE 0)
        <5> SUFFICES ASSUME NEW k \in DOMAIN h
                     PROVE  ~ Has(h[k], "sym") /\ h[k].row.lp = (IF k = 1 THEN 1 ELSE 0)
          OBVIOUS
        <5>1. CASE k \in DOMAIN functionHead
          BY <3>1, <4>1, <5>1
        <5>2. CASE k = Len(functionHead) + 1
          BY <2>1, <4>1, <5>2
        <5> QED
          BY <4>3, <5>1, <5>2
      <4> QED
        BY <4>1, <4>4 DEF h
    <3> QED
      BY <3>1, <3>3, GoodHead
  <2> QED
    BY <1>1, <1>2, <1>9, <2>1, <2>3
       DEF RejectRow, ScanRow, RejectHead, OpenFile, Open, HeadWith, StateWith
<1>10. kind # "each"
  <2>1. ASSUME kind = "each" PROVE FALSE
    <3>1. place = "body"
      BY <1>1, <2>1, Places
    <3>2. "callback" \in style
      BY <3>1 DEF ScannerInv, Within
    <3> QED
      BY <2>1, <3>2 DEF Readable
  <2> QED
    BY <2>1
<1> QED
  BY <1>1, <1>4, <1>5, <1>6, <1>7, <1>8, <1>9, <1>10, Places

\* The rows of a sequence to which one more is appended.
LEMMA RowsAppended ==
  ASSUME NEW s \in Seq(Line), NEW l \in Line, NEW t, t = Append(s, l)
  PROVE  /\ \A k \in DOMAIN s : k \in DOMAIN t /\ t[k] = s[k]
         /\ \A k \in DOMAIN t : k \in DOMAIN s \/ (k = Len(s) + 1 /\ t[k] = l)
         /\ Len(s) + 1 \in DOMAIN t /\ t[Len(s) + 1] = l
         /\ {t[k].at : k \in DOMAIN t} = {s[k].at : k \in DOMAIN s} \cup {l.at}
<1> DEFINE m == Len(s)
<1>1. /\ t \in Seq(Line) /\ m \in Nat /\ Len(t) = m + 1 /\ DOMAIN s = 1 .. m
      /\ \A k \in 1 .. m : t[k] = s[k]
      /\ t[m + 1] = l
  BY AppendProperties, LenProperties
<1> HIDE DEF m
<1>2. DOMAIN t = 1 .. m + 1
  BY <1>1, LenProperties
<1>3. \A k \in DOMAIN s : k \in DOMAIN t /\ t[k] = s[k]
  BY <1>1, <1>2
<1>4. \A k \in DOMAIN t : k \in DOMAIN s \/ (k = m + 1 /\ t[k] = l)
  BY <1>1, <1>2
<1>5. m + 1 \in DOMAIN t /\ t[m + 1] = l
  BY <1>1, <1>2
<1>6. {t[k].at : k \in DOMAIN t} = {s[k].at : k \in DOMAIN s} \cup {l.at}
  BY <1>3, <1>4, <1>5
<1> QED
  BY <1>3, <1>4, <1>5, <1>6 DEF m

\* The invariant of the scanner in the text, where it is not copying.
LEMMA ScannerOutside ==
  ASSUME IInv, SourceInv, ScannerInv, Readable(style), state # 2,
         NEW kind \in style, Scan(kind)
  PROVE  ScannerInv'
<1> USE DEF Shape
<1> DEFINE l == [at |-> pos + 1, row |-> Text[kind]]
<1>1. /\ l \in Line /\ l.row = Text[kind] /\ l.at = pos + 1 /\ Emit(kind) /\ pos' = pos + 1
      /\ style' = style /\ functionHead \in Seq(Line) /\ pos \in Nat /\ fn \in Nat
  BY ScanReads DEF IInv, TypeOK, SourceInv, Emit
<1> HIDE DEF l
<1>2. /\ fn' = (IF Begins(kind) THEN fn + 1 ELSE fn)
      /\ Begins(kind) => RowsOf(fn)' = {pos + 1}
      /\ ~ Begins(kind) /\ place \in {"head", "body", "call"} => RowsOf(fn)' = RowsOf(fn) \cup {pos + 1}
  BY <1>1, OwnerGrows
<1>3. CASE kind \in {"decl", "table", "headMid", "inner", "brace", "protoLast", "callLast", "stmt"}
  <2>1. state' = state /\ functionHead' = Append(functionHead, l)
    BY <1>3, Outside DEF l
  <2>2. /\ \A k \in DOMAIN functionHead : k \in DOMAIN functionHead' /\ functionHead'[k] = functionHead[k]
        /\ \A k \in DOMAIN functionHead' :
             k \in DOMAIN functionHead \/ (k = Len(functionHead) + 1 /\ functionHead'[k] = l)
        /\ Len(functionHead) + 1 \in DOMAIN functionHead' /\ functionHead'[Len(functionHead) + 1] = l
        /\ HeadRows' = HeadRows \cup {pos + 1}
    BY <1>1, <2>1, RowsAppended DEF HeadRows
  <2>3. CASE kind = "headMid"
    <3>1. place = "head" /\ place' = "head"
      BY <1>1, <2>3, Places
    <3>2. /\ state = 1 /\ HeadRows = RowsOf(fn)
          /\ \A k \in DOMAIN functionHead :
               ~ Has(functionHead[k], "sym") /\ functionHead[k].row.lp = (IF k = 1 THEN 1 ELSE 0)
          /\ functionHead # <<>>
      BY <3>1 DEF ScannerInv, IInv, HeadInv
    <3>3. ~ Has(l, "sym") /\ l.row.lp = 0 /\ Len(functionHead) \in Nat \ {0}
      BY <1>1, <2>3, <3>2, Shapes, EmptySeq, LenProperties DEF Has
    <3>4. RowsOf(fn)' = RowsOf(fn) \cup {pos + 1}
      BY <1>2, <2>3, <3>1 DEF Begins
    <3>5. HeadRows' = RowsOf(fn)'
      BY <2>2, <3>2, <3>4
    <3>6. \A k \in DOMAIN functionHead' :
            ~ Has(functionHead'[k], "sym") /\ functionHead'[k].row.lp = (IF k = 1 THEN 1 ELSE 0)
      BY <2>2, <3>2, <3>3
    <3> QED
      BY <2>1, <3>1, <3>2, <3>5, <3>6 DEF ScannerInv, Within, Has
  <2>4. CASE kind # "headMid"
    <3>1. place' # "head" /\ (place' \in Within => place \in Within) /\ (place' # "call")
      BY <1>1, <1>3, <2>4, Places DEF Within
    <3>2. state' = 1 /\ place' = "body" => \E k \in DOMAIN functionHead' : functionHead'[k].row.rp > 0
      <4>1. CASE kind = "inner"
        <5>1. place = "body"
          BY <1>1, <4>1, Places
        <5> QED
          BY <2>1, <2>2, <5>1 DEF ScannerInv
      <4>2. CASE kind \in {"callLast", "stmt"}
        <5>1. l.row.rp = 1
          BY <1>1, <4>2, Shapes
        <5> QED
          BY <2>2, <5>1
      <4> QED
        BY <1>1, <1>3, <2>4, <4>1, <4>2, Places
    <3>3. state' = 1 /\ place' \in Within => \E k \in DOMAIN functionHead' : functionHead'[k].row.lp > 0
      BY <2>1, <2>2, <3>1 DEF ScannerInv
    <3>4. place' \in Within /\ state' # 2 => "callback" \in style'
      BY <1>1, <2>1, <3>1 DEF ScannerInv
    <3> QED
      BY <2>1, <3>1, <3>2, <3>3, <3>4 DEF ScannerInv
  <2> QED
    BY <2>3, <2>4
<1>4. CASE kind \in {"protoFirst", "headFirst", "callFirst"}
  <2>1. state' = 1 /\ functionHead' = <<l>>
    BY <1>4, Outside DEF l
  <2>2. DOMAIN functionHead' = {1} /\ functionHead'[1] = l /\ HeadRows' = {pos + 1}
    <3>1. DOMAIN <<l>> = {1} /\ <<l>>[1] = l
      OBVIOUS
    <3> QED
      BY <1>1, <2>1, <3>1 DEF HeadRows
  <2>3. l.row.lp = 1 /\ ~ Has(l, "sym")
    BY <1>1, <1>4, Shapes DEF Has
  <2>4. CASE kind = "headFirst"
    <3>1. place' = "head"
      BY <1>1, <2>4, Places
    <3>2. RowsOf(fn)' = {pos + 1}
      BY <1>2, <2>4 DEF Begins
    <3> QED
      BY <2>1, <2>2, <2>3, <3>1, <3>2 DEF ScannerInv, Within, Has
  <2>5. CASE kind = "callFirst"
    <3>1. place = "body" /\ place' = "call"
      BY <1>1, <2>5, Places
    <3>2. "callback" \in style'
      BY <1>1, <3>1 DEF ScannerInv, Within
    <3> QED
      BY <2>1, <2>2, <2>3, <3>1, <3>2 DEF ScannerInv
  <2>6. CASE kind = "protoFirst"
    <3>1. place' = "proto"
      BY <1>1, <2>6, Places
    <3> QED
      BY <2>1, <3>1 DEF ScannerInv, Within
  <2> QED
    BY <1>4, <2>4, <2>5, <2>6
<1>5. CASE kind \in {"callback", "symbols", "branch"}
  <2>1. state' = 0
    BY <1>5, Outside DEF l
  <2>2. place' # "head" /\ (place' \in Within => place \in Within \/ kind = "callback")
    BY <1>1, <1>5, Places DEF Within
  <2>3. place' \in Within => "callback" \in style'
    BY <1>1, <2>2 DEF ScannerInv
  <2> QED
    BY <2>1, <2>2, <2>3 DEF ScannerInv
<1>6. CASE kind \in {"head", "headLast"}
  <2>1. state' = 2
    BY <1>6, Outside DEF l
  <2>2. place' = "body"
    BY <1>1, <1>6, Places
  <2> QED
    BY <2>1, <2>2 DEF ScannerInv, Within
<1> QED
  BY <1>3, <1>4, <1>5, <1>6, Outside DEF l

\* Where it is copying, a row stays within the body until its brace.
LEMMA CopiedRow ==
  ASSUME IInv, SourceInv, ScannerInv, Readable(style), state = 2,
         NEW kind \in style, Scan(kind),
         NEW l, l = [at |-> pos + 1, row |-> Text[kind]]
  PROVE  /\ CopyRow(l) /\ l \in Line /\ l.at = pos + 1
         /\ IF kind = "brace" THEN state' = 0 /\ place' = "top" ELSE state' = 2 /\ place' \in Within
         /\ place \in Within /\ ~ Begins(kind) /\ fn' = fn /\ OwnerOf(kind) = fn
<1> USE DEF Shape
<1>1. /\ l \in Line /\ l.row = Text[kind] /\ l.at = pos + 1 /\ Emit(kind) /\ pos' = pos + 1
      /\ RejectRow(l) \/ ScanRow(l) \/ RejectHead(l) \/ OpenFile(l) \/ CopyRow(l)
  BY ScanReads DEF IInv, SourceInv, ReadRow
<1>2. CopyRow(l)
  BY <1>1 DEF RejectRow, ScanRow, RejectHead, OpenFile, Open
<1>3. place \in Within
  BY DEF ScannerInv
<1>4. kind \in {"stmt", "symbols", "branch", "each", "inner", "callFirst", "callLast", "brace"}
  BY <1>1, <1>3, Places DEF Within
<1>5. Has(l, "close") <=> kind = "brace"
  BY <1>1, <1>4, Shapes DEF Has
<1>6. IF kind = "brace" THEN place' = "top" ELSE place' \in Within
  BY <1>1, <1>3, <1>4, Places DEF Within
<1> QED
  BY <1>1, <1>2, <1>3, <1>4, <1>5, <1>6, OwnerGrows DEF CopyRow, Begins, OwnerOf, Within

LEMMA ScannerCopying ==
  ASSUME IInv, SourceInv, ScannerInv, Readable(style), state = 2,
         NEW kind \in style, Scan(kind)
  PROVE  ScannerInv'
<1>1. PICK l : l = [at |-> pos + 1, row |-> Text[kind]]
  OBVIOUS
<1>2. IF kind = "brace" THEN state' = 0 /\ place' = "top" ELSE state' = 2 /\ place' \in Within
  BY <1>1, CopiedRow
<1> QED
  BY <1>2 DEF ScannerInv, Within

\* A function that is over gets no more rows.
LEMMA OverStaysOver ==
  ASSUME IInv, SourceInv, Readable(style), NEW kind \in style, Emit(kind), pos' = pos + 1,
         NEW f \in 1 .. fn, f = fn => place \in Between
  PROVE  /\ f \in 1 .. fn' /\ f \in Nat \ {0}
         /\ RowsOf(f)' = RowsOf(f)
         /\ f = fn' => place' \in Between
         /\ f \in pointers' <=> f \in pointers
<1>1. /\ fn' = (IF Begins(kind) THEN fn + 1 ELSE fn) /\ fn \in Nat
      /\ f \in Nat \ {0}
      /\ RowsOf(f)' = IF f = OwnerOf(kind) THEN RowsOf(f) \cup {pos + 1} ELSE RowsOf(f)
  BY OwnerGrows DEF SourceInv
<1>2. f # OwnerOf(kind)
  BY <1>1 DEF OwnerOf, Between
<1>3. ~ Begins(kind) /\ place \in Between => place' \in Between
  BY Places DEF Between, Begins
<1> QED
  BY <1>1, <1>2, <1>3, PointersStep

\* A file that holds a function which is over holds it after a step that leaves the file alone.
LEMMA StillHeld ==
  ASSUME IInv, SourceInv, Readable(style), NEW kind \in style, Emit(kind), pos' = pos + 1,
         NEW n, HoldsOne(n), RowsIn(n)' = RowsIn(n)
  PROVE  HoldsOne(n)'
<1>1. PICK f \in (1 .. fn) \ pointers : RowsIn(n) = RowsOf(f) /\ (f = fn => place \in Between)
  BY DEF HoldsOne
<1>2. /\ f \in 1 .. fn' /\ RowsOf(f)' = RowsOf(f)
      /\ f = fn' => place' \in Between
      /\ f \notin pointers'
  BY <1>1, OverStaysOver
<1> QED
  BY <1>1, <1>2 DEF HoldsOne

LEMMA FilesKept ==
  ASSUME IInv, SourceInv, FilesOwned, Readable(style), NEW kind \in style, Emit(kind), pos' = pos + 1,
         state # 2, state' # 2, files' = files
  PROVE  FilesOwned'
<1> SUFFICES ASSUME NEW n \in DOMAIN files
             PROVE  HoldsOne(n)'
  BY DEF FilesOwned, Finished
<1>1. HoldsOne(n)
  BY DEF FilesOwned, Finished
<1>2. RowsIn(n)' = RowsIn(n)
  BY DEF RowsIn
<1> QED
  BY <1>1, <1>2, StillHeld

LEMMA FilesOpened ==
  ASSUME IInv, SourceInv, ScannerInv, FilesOwned, Readable(style), state # 2,
         NEW kind \in {"head", "headLast"}, kind \in style, Scan(kind)
  PROVE  FilesOwned'
<1> DEFINE l == [at |-> pos + 1, row |-> Text[kind]]
           h == IF kind = "head" THEN <<l>> ELSE Append(functionHead, l)
<1>1. /\ l \in Line /\ l.at = pos + 1 /\ Emit(kind) /\ pos' = pos + 1
      /\ functionHead \in Seq(Line) /\ files \in Seq(Seq(Line))
  BY ScanReads DEF IInv, TypeOK, SourceInv
<1>2. state' = 2 /\ files' = Append(files, h)
  BY Outside
<1> HIDE DEF l
<1>3. h \in Seq(Line) /\ {h[k].at : k \in DOMAIN h} = RowsOf(fn)'
  <2>1. CASE kind = "head"
    <3>1. h \in Seq(Line) /\ {h[k].at : k \in DOMAIN h} = {pos + 1}
      <4>1. DOMAIN <<l>> = {1} /\ <<l>>[1] = l /\ <<l>> \in Seq(Line)
        BY <1>1, OneRow
      <4> QED
        BY <1>1, <2>1, <4>1
    <3>2. RowsOf(fn)' = {pos + 1}
      BY <1>1, <2>1, OwnerGrows DEF Begins
    <3> QED
      BY <3>1, <3>2
  <2>2. CASE kind = "headLast"
    <3>1. place = "head"
      BY <1>1, <2>2, Places
    <3>2. HeadRows = RowsOf(fn)
      BY <3>1 DEF ScannerInv
    <3>3. h \in Seq(Line) /\ h = Append(functionHead, l)
      BY <1>1, <2>2, AppendProperties
    <3> HIDE DEF h
    <3>4. {h[k].at : k \in DOMAIN h} = HeadRows \cup {pos + 1}
      <4>1. /\ \A i \in DOMAIN functionHead : i \in DOMAIN h /\ h[i] = functionHead[i]
            /\ \A i \in DOMAIN h :
                 i \in DOMAIN functionHead \/ (i = Len(functionHead) + 1 /\ h[i] = l)
            /\ Len(functionHead) + 1 \in DOMAIN h /\ h[Len(functionHead) + 1] = l
        BY <1>1, <3>3, RowsAppended
      <4> QED
        BY <1>1, <4>1 DEF HeadRows
    <3>5. RowsOf(fn)' = RowsOf(fn) \cup {pos + 1}
      BY <1>1, <2>2, <3>1, OwnerGrows DEF Begins
    <3> QED
      BY <3>2, <3>3, <3>4, <3>5
  <2> QED
    BY <2>1, <2>2
<1> HIDE DEF h
<1>4. /\ Len(files) \in Nat /\ DOMAIN files = 1 .. Len(files)
      /\ Len(files') = Len(files) + 1 /\ DOMAIN files' = 1 .. Len(files) + 1
      /\ \A n \in 1 .. Len(files) : files'[n] = files[n]
      /\ files'[Len(files) + 1] = h
  BY <1>1, <1>2, <1>3, AppendProperties, LenProperties
<1>5. ASSUME NEW n \in DOMAIN files
      PROVE  Finished(n)' /\ HoldsOne(n)'
  <2>1. HoldsOne(n)
    BY DEF FilesOwned, Finished
  <2>2. RowsIn(n)' = RowsIn(n)
    BY <1>4 DEF RowsIn
  <2>3. Finished(n)'
    BY <1>4 DEF Finished
  <2> QED
    BY <1>1, <2>1, <2>2, <2>3, StillHeld
<1>6. ASSUME NEW n, n = Len(files) + 1
      PROVE  ~ Finished(n)' /\ HoldsLast(n)'
  <2>1. RowsIn(n)' = {h[k].at : k \in DOMAIN h}
    BY <1>4, <1>6 DEF RowsIn
  <2>2. ~ Finished(n)'
    BY <1>2, <1>4, <1>6 DEF Finished
  <2>3. fn' \notin pointers'
    BY <1>1, PointersStep
  <2> QED
    BY <1>3, <2>1, <2>2, <2>3 DEF HoldsLast
<1>7. ASSUME NEW n \in DOMAIN files'
      PROVE  IF Finished(n)' THEN HoldsOne(n)' ELSE HoldsLast(n)'
  <2>1. n \in DOMAIN files \/ n = Len(files) + 1
    BY <1>4
  <2> QED
    BY <1>5, <1>6, <2>1
<1> QED
  BY <1>7 DEF FilesOwned

\* The last file holds its function, and the others are left alone.
LEMMA FilesCopied ==
  ASSUME IInv, SourceInv, ScannerInv, FilesOwned, Readable(style), state = 2,
         NEW kind \in style, Scan(kind)
  PROVE  /\ FilesOwned' /\ DOMAIN files' = DOMAIN files
         /\ \A n \in DOMAIN files : n # Len(files) => RowsIn(n)' = RowsIn(n)
         /\ Len(files) \in DOMAIN files /\ HoldsLast(Len(files)) /\ HoldsLast(Len(files))'
<1>1. PICK l : l = [at |-> pos + 1, row |-> Text[kind]]
  OBVIOUS
<1> DEFINE k == Len(files)
<1>2. /\ CopyRow(l) /\ l \in Line /\ l.at = pos + 1
      /\ IF kind = "brace" THEN state' = 0 /\ place' = "top" ELSE state' = 2 /\ place' \in Within
      /\ place \in Within /\ ~ Begins(kind) /\ fn' = fn
      /\ Emit(kind) /\ pos' = pos + 1 /\ fn \in Nat /\ fn > 0
  BY <1>1, CopiedRow, ScanReads DEF IInv, SourceInv
<1>3. /\ k \in Nat \ {0} /\ Len(files') = k /\ DOMAIN files' = 1 .. k
      /\ \A n \in 1 .. k - 1 : files'[n] = files[n]
      /\ files[k] \in Seq(Line) /\ files'[k] = Append(files[k], l)
  BY <1>2, CopyRowFiles
<1>4. DOMAIN files = 1 .. k
  BY LenProperties DEF IInv, TypeOK
<1> HIDE DEF k
<1>5. ASSUME NEW n \in 1 .. k - 1
      PROVE  Finished(n)' /\ HoldsOne(n)' /\ RowsIn(n)' = RowsIn(n)
  <2>1. Finished(n) /\ Finished(n)' /\ n \in DOMAIN files
    BY <1>3, <1>4 DEF Finished, k
  <2>2. HoldsOne(n)
    BY <2>1 DEF FilesOwned
  <2>3. RowsIn(n)' = RowsIn(n)
    BY <1>3 DEF RowsIn
  <2> QED
    BY <1>2, <2>1, <2>2, <2>3, StillHeld
<1>6. ASSUME NEW n, n = k
      PROVE  /\ IF Finished(n)' THEN HoldsOne(n)' ELSE HoldsLast(n)'
             /\ n \in DOMAIN files /\ HoldsLast(n) /\ HoldsLast(n)'
  <2>1. ~ Finished(n) /\ n \in DOMAIN files
    BY <1>3, <1>4, <1>6 DEF Finished, k
  <2>2. RowsIn(n) = RowsOf(fn) /\ fn \notin pointers
    BY <2>1 DEF FilesOwned, HoldsLast
  <2>3. RowsIn(n)' = RowsIn(n) \cup {pos + 1}
    <3>1. PICK t : t = files'[n]
      OBVIOUS
    <3>2. /\ \A i \in DOMAIN files[n] : i \in DOMAIN t /\ t[i] = files[n][i]
          /\ \A i \in DOMAIN t : i \in DOMAIN files[n] \/ (i = Len(files[n]) + 1 /\ t[i] = l)
          /\ Len(files[n]) + 1 \in DOMAIN t /\ t[Len(files[n]) + 1] = l
      BY <1>2, <1>3, <1>6, <3>1, RowsAppended
    <3> QED
      BY <1>2, <3>1, <3>2 DEF RowsIn
  <2>4. RowsOf(fn)' = RowsOf(fn) \cup {pos + 1}
    BY <1>2, OwnerGrows DEF Within
  <2>5. Finished(n)' => kind = "brace"
    BY <1>2, <1>3, <1>6 DEF Finished
  <2>6. PICK g \in 1 .. fn' : g = fn'
    BY <1>2
  <2>7. RowsOf(g)' = RowsOf(fn)'
    BY <2>6 DEF RowsOf
  <2>8. kind = "brace" => place' \in Between
    BY <1>2 DEF Between
  <2>9. fn' \notin pointers'
    <3>1. fn \in 1 .. fn
      BY <1>2
    <3> QED
      BY <1>2, <2>2, <3>1, PointersStep
  <2>10. HoldsLast(n) /\ HoldsLast(n)'
    BY <2>2, <2>3, <2>4, <2>9 DEF HoldsLast
  <2>11. Finished(n)' => HoldsOne(n)'
    BY <2>2, <2>3, <2>4, <2>5, <2>6, <2>7, <2>8, <2>9 DEF HoldsOne
  <2> QED
    BY <2>1, <2>10, <2>11
<1>7. ASSUME NEW n \in DOMAIN files'
      PROVE  IF Finished(n)' THEN HoldsOne(n)' ELSE HoldsLast(n)'
  <2>1. n \in 1 .. k - 1 \/ n = k
    BY <1>3
  <2> QED
    BY <1>5, <1>6, <2>1
<1>8. ASSUME NEW n \in DOMAIN files, n # k
      PROVE  RowsIn(n)' = RowsIn(n)
  <2>1. n \in 1 .. k - 1
    BY <1>3, <1>4, <1>8
  <2> QED
    BY <1>5, <2>1
<1> QED
  BY <1>3, <1>4, <1>6, <1>7, <1>8 DEF FilesOwned, k

\* A row belongs to one function.
LEMMA OneOwner ==
  ASSUME NEW f, NEW g, RowsOf(f) = RowsOf(g), RowsOf(f) # {}
  PROVE  f = g
BY DEF RowsOf

LEMMA FileNotEmpty ==
  ASSUME IInv, NEW n \in DOMAIN files
  PROVE  RowsIn(n) # {}
<1>1. files[n] \in Seq(Line) /\ files[n] # <<>>
  <2>1. files \in Seq(Seq(Line)) /\ DOMAIN files = 1 .. Len(files)
    BY LenProperties DEF IInv, TypeOK
  <2> QED
    BY <2>1, ElementOfSeq DEF IInv, FilesInv
<1>2. 1 \in DOMAIN files[n]
  <2>1. Len(files[n]) \in Nat /\ Len(files[n]) # 0 /\ DOMAIN files[n] = 1 .. Len(files[n])
    BY <1>1, EmptySeq, LenProperties
  <2> QED
    BY <2>1
<1> QED
  BY <1>2 DEF RowsIn

\* A function that is over keeps its file.
LEMMA FileStays ==
  ASSUME IInv, SourceInv, ScannerInv, FilesOwned, Readable(style), NEW kind \in style, Scan(kind),
         NEW f \in (1 .. fn) \ pointers, f = fn => place \in Between,
         NEW n \in DOMAIN files, RowsIn(n) = RowsOf(f)
  PROVE  n \in DOMAIN files' /\ RowsIn(n)' = RowsIn(n)
<1>1. PICK l : l = [at |-> pos + 1, row |-> Text[kind]]
  OBVIOUS
<1>2. CASE state = 2
  <2>1. place \in Within
    BY <1>2 DEF ScannerInv
  <2>2. f # fn
    BY <2>1 DEF Within, Between
  <2>3. HoldsLast(Len(files))
    BY <1>2, FilesCopied
  <2>4. n # Len(files)
    BY <2>2, <2>3, FileNotEmpty, OneOwner DEF HoldsLast
  <2> QED
    BY <1>2, <2>4, FilesCopied
<1>3. CASE state # 2
  <2>1. CASE kind \in {"head", "headLast"}
    <3>1. files' = Append(files, functionHead') /\ functionHead' \in Seq(Line)
      <4>1. files' = Append(files, functionHead')
        BY <1>1, <1>3, <2>1, Outside
      <4>2. IInv'
        BY SystemPreservesIInv DEF SystemNext
      <4> QED
        BY <4>1, <4>2 DEF IInv, TypeOK
    <3>2. /\ files \in Seq(Seq(Line)) /\ DOMAIN files = 1 .. Len(files) /\ Len(files) \in Nat
      BY LenProperties DEF IInv, TypeOK
    <3>3. /\ files' \in Seq(Seq(Line)) /\ Len(files') = Len(files) + 1
          /\ \A k \in 1 .. Len(files) : files'[k] = files[k]
      BY <3>1, <3>2, AppendProperties
    <3>4. n \in DOMAIN files'
      <4>1. DOMAIN files' = 1 .. Len(files) + 1
        BY <3>3, LenProperties
      <4> QED
        BY <3>2, <4>1
    <3>5. files'[n] = files[n]
      BY <3>2, <3>3
    <3> QED
      BY <3>4, <3>5 DEF RowsIn
  <2>2. CASE kind \notin {"head", "headLast"}
    <3>1. files' = files
      BY <1>1, <1>3, <2>2, Outside
    <3> QED
      BY <3>1 DEF RowsIn
  <2> QED
    BY <2>1, <2>2
<1> QED
  BY <1>2, <1>3

\* No function is lost but those whose heads take function pointers.
LEMMA FoundStep ==
  ASSUME IInv, SourceInv, ScannerInv, FilesOwned, Found, Readable(style), NEW kind \in style, Scan(kind)
  PROVE  Found'
<1> SUFFICES ASSUME NEW f \in (1 .. fn') \ pointers'
             PROVE  IF f = fn' /\ place' \notin Between
                      THEN place' \in Within => state' = 2
                      ELSE \E n \in DOMAIN files' : RowsIn(n)' = RowsOf(f)'
  BY DEF Found
<1>0. PICK l : l = [at |-> pos + 1, row |-> Text[kind]]
  OBVIOUS
<1>1. /\ Emit(kind) /\ pos' = pos + 1 /\ fn \in Nat
      /\ fn' = (IF Begins(kind) THEN fn + 1 ELSE fn)
  BY ScanReads, OwnerGrows DEF IInv, SourceInv
<1>2. CASE f \in 1 .. fn /\ (f = fn => place \in Between)
  <2>1. f \notin pointers /\ RowsOf(f)' = RowsOf(f) /\ (f = fn' => place' \in Between)
    BY <1>1, <1>2, OverStaysOver
  <2>2. PICK n \in DOMAIN files : RowsIn(n) = RowsOf(f)
    BY <1>2, <2>1 DEF Found
  <2>3. n \in DOMAIN files' /\ RowsIn(n)' = RowsIn(n)
    BY <1>2, <2>1, <2>2, FileStays
  <2> QED
    BY <2>1, <2>2, <2>3
<1>3. CASE f = fn /\ f \in 1 .. fn /\ place \notin Between
  <2>1. ~ Begins(kind) /\ fn' = fn /\ f \notin pointers
    <3>1. ~ Begins(kind)
      BY <1>1, <1>3, Places DEF Begins, Between
    <3> QED
      BY <1>1, <1>3, <3>1, PointersStep
  <2>2. CASE place \in Within
    <3>1. state = 2
      BY <1>3, <2>1, <2>2 DEF Found
    <3>2. IF kind = "brace" THEN place' = "top" ELSE state' = 2 /\ place' \in Within
      BY <1>0, <3>1, CopiedRow
    <3>3. \E n \in DOMAIN files' : RowsIn(n)' = RowsOf(fn)'
      BY <3>1, FilesCopied DEF HoldsLast
    <3>4. RowsOf(f)' = RowsOf(fn)'
      BY <1>3, <2>1 DEF RowsOf
    <3> QED
      BY <1>3, <2>1, <3>2, <3>3, <3>4 DEF Between, Within
  <2>3. CASE place \notin Within
    <3>1. place = "head"
      BY <1>3, <2>3 DEF SourceInv
    <3>2. (kind = "headMid" /\ place' = "head") \/ (kind = "headLast" /\ place' = "body")
      BY <1>1, <3>1, Places
    <3>3. kind = "headLast" => state' = 2
      <4>1. state # 2
        BY <3>1 DEF ScannerInv
      <4> QED
        BY <1>0, <4>1, Outside
    <3> QED
      BY <1>3, <2>1, <3>2, <3>3 DEF Between, Within
  <2> QED
    BY <2>2, <2>3
<1>4. CASE f \notin 1 .. fn
  <2>1. Begins(kind) /\ f = fn'
    BY <1>1, <1>4
  <2>2. /\ kind \in {"head", "headFirst", "callback"} /\ place = "top"
        /\ place' = IF kind = "headFirst" THEN "head" ELSE "body"
    BY <1>1, <2>1, Places DEF Begins
  <2>3. kind # "callback"
    BY <1>1, <2>1, PointersStep
  <2>4. kind = "head" => state' = 2
    <3>1. state # 2
      BY <2>2 DEF ScannerInv, Within
    <3> QED
      BY <1>0, <3>1, Outside
  <2> QED
    BY <2>1, <2>2, <2>3, <2>4 DEF Between, Within
<1> QED
  BY <1>2, <1>3, <1>4

SystemInv == IInv /\ SourceInv /\ ScannerInv /\ Found /\ FilesOwned

LEMMA SystemStarts == SystemInit => SystemInv
<1> SUFFICES ASSUME SystemInit PROVE SystemInv
  OBVIOUS
<1>1. /\ Init /\ style \in Styles /\ place = "top" /\ fn = 0 /\ owner = <<>> /\ pointers = {}
      /\ pos = 0 /\ state = 0 /\ functionNum = 0 /\ files = <<>>
  BY DEF SystemInit, SourceInit, Init
<1>2. IInv
  BY <1>1, InitEstablishes
<1>3. /\ DOMAIN owner = {} /\ owner \in Seq(Nat) /\ Len(owner) = 0 /\ DOMAIN files = {}
  BY <1>1, EmptySeq, LenProperties
<1>4. SourceInv
  BY <1>1, <1>3 DEF SourceInv, Between, Within
<1>5. ScannerInv
  BY <1>1 DEF ScannerInv, Within
<1>6. Found /\ FilesOwned
  BY <1>1, <1>3 DEF Found, FilesOwned
<1> QED
  BY <1>2, <1>4, <1>5, <1>6 DEF SystemInv

LEMMA SystemSteps ==
  ASSUME \A s \in Styles : Readable(s), SystemInv, [SystemNext]_systemVars
  PROVE  SystemInv'
<1>1. CASE UNCHANGED systemVars
  <2>1. IInv'
    BY <1>1, SystemPreservesIInv DEF SystemInv
  <2>2. SourceInv' /\ ScannerInv'
    BY <1>1 DEF systemVars, vars, sourceVars, SystemInv, SourceInv, ScannerInv, HeadRows, RowsOf, Has
  <2>3. FilesOwned'
    BY <1>1 DEF systemVars, vars, sourceVars, SystemInv, FilesOwned, HoldsOne, HoldsLast, Finished, RowsIn, RowsOf
  <2>4. Found'
    BY <1>1 DEF systemVars, vars, sourceVars, SystemInv, Found, RowsIn, RowsOf
  <2> QED
    BY <2>1, <2>2, <2>3, <2>4 DEF SystemInv
<1>2. ASSUME NEW kind \in style, Scan(kind)
      PROVE  SystemInv'
  <2>1. IInv /\ SourceInv /\ ScannerInv /\ Found /\ FilesOwned /\ Readable(style)
    BY DEF SystemInv, SourceInv
  <2>2. IInv'
    BY <1>2, <2>1, SystemPreservesIInv DEF SystemNext
  <2>3. Emit(kind) /\ pos' = pos + 1
    BY <1>2, <2>1, ScanReads DEF IInv, SourceInv
  <2>4. SourceInv'
    BY <2>1, <2>3, SourceStep
  <2>5. ScannerInv'
    BY <1>2, <2>1, ScannerOutside, ScannerCopying
  <2>6. Found'
    BY <1>2, <2>1, FoundStep
  <2>7. FilesOwned'
    <3>1. CASE state = 2
      BY <1>2, <2>1, <3>1, FilesCopied
    <3>2. CASE state # 2 /\ kind \in {"head", "headLast"}
      BY <1>2, <2>1, <3>2, FilesOpened
    <3>3. CASE state # 2 /\ kind \notin {"head", "headLast"}
      <4>1. state \in {0, 1}
        BY <2>1, <3>3 DEF IInv, TypeOK
      <4>2. PICK l : l = [at |-> pos + 1, row |-> Text[kind]]
        OBVIOUS
      <4>3. state' # 2 /\ files' = files
        BY <1>2, <2>1, <3>3, <4>1, <4>2, Outside
      <4> QED
        BY <2>1, <2>3, <3>3, <4>3, FilesKept
    <3> QED
      BY <3>1, <3>2, <3>3
  <2> QED
    BY <2>2, <2>4, <2>5, <2>6, <2>7 DEF SystemInv
<1> QED
  BY <1>1, <1>2 DEF SystemNext

\* Together, on text of readable styles.
THEOREM ScannerOnReadableText ==
  ASSUME \A s \in Styles : Readable(s)
  PROVE  SystemSpec => []SystemInv
<1>1. SystemInv /\ [SystemNext]_systemVars => SystemInv'
  BY SystemSteps
<1> QED
  BY <1>1, SystemStarts, PTL DEF SystemSpec

\* functionParser.py cuts readable text along its functions: a file holds rows
\* of one function only, and once closed all of them, however many functions,
\* prototypes, tables, blocks and calls over several rows the text has.
THEOREM FilesAreFunctions ==
  ASSUME \A s \in Styles : Readable(s)
  PROVE  SystemSpec => []OneFunctionPerFile
<1>1. SystemInv => OneFunctionPerFile
  <2> SUFFICES ASSUME SystemInv, NEW n \in DOMAIN files
               PROVE  \E f \in 1 .. fn : /\ RowsIn(n) \subseteq RowsOf(f)
                                         /\ Finished(n) => RowsIn(n) = RowsOf(f)
    BY DEF OneFunctionPerFile
  <2>1. CASE Finished(n)
    BY <2>1 DEF SystemInv, FilesOwned, HoldsOne
  <2>2. CASE ~ Finished(n)
    <3>1. RowsIn(n) = RowsOf(fn) /\ state = 2
      BY <2>2 DEF SystemInv, FilesOwned, HoldsLast, Finished
    <3>2. fn \in 1 .. fn
      BY <3>1 DEF SystemInv, ScannerInv, SourceInv
    <3> QED
      BY <2>2, <3>1, <3>2
  <2> QED
    BY <2>1, <2>2
<1> QED
  BY <1>1, ScannerOnReadableText, PTL

\* Of readable text functionParser.py finds each function whose head takes no
\* function pointer, and has a file that holds the whole of it; those whose heads
\* take one it loses, and no other function with them.
THEOREM NothingIsMissed ==
  ASSUME \A s \in Styles : Readable(s)
  PROVE  SystemSpec => []NoneMissed
<1>1. SystemInv => NoneMissed
  <2> SUFFICES ASSUME SystemInv, place = "top", NEW f \in 1 .. fn
               PROVE  f \notin pointers <=> \E n \in DOMAIN files : RowsIn(n) = RowsOf(f)
    BY DEF NoneMissed
  <2>1. f \notin pointers => \E n \in DOMAIN files : RowsIn(n) = RowsOf(f)
    BY DEF SystemInv, Found, Between
  <2>2. ASSUME NEW n \in DOMAIN files, RowsIn(n) = RowsOf(f)
        PROVE  f \notin pointers
    <3>1. Finished(n)
      BY DEF Finished, SystemInv, ScannerInv, Within
    <3>2. PICK g \in (1 .. fn) \ pointers : RowsIn(n) = RowsOf(g)
      BY <3>1 DEF SystemInv, FilesOwned, HoldsOne
    <3>3. RowsIn(n) # {}
      BY FileNotEmpty DEF SystemInv
    <3> QED
      BY <2>2, <3>2, <3>3, OneOwner
  <2> QED
    BY <2>1, <2>2
<1> QED
  BY <1>1, ScannerOnReadableText, PTL

\* functionParser.py opens a file only at the last row of a function's head: a
\* statement of a body it has lost never looks like one.
THEOREM OpenedAtHeads ==
  ASSUME \A s \in Styles : Readable(s)
  PROVE  SystemSpec => FilesOpenAtHeads
<1>1. SystemInv /\ [SystemNext]_systemVars
        => [functionNum' > functionNum => place \in {"top", "head"}]_systemVars
  <2> SUFFICES ASSUME SystemInv, NEW kind \in style, Scan(kind), functionNum' > functionNum
               PROVE  place \in {"top", "head"}
    BY DEF SystemNext
  <2>1. IInv /\ SourceInv /\ ScannerInv /\ Readable(style) /\ functionNum \in Nat
    BY DEF SystemInv, SourceInv, IInv, TypeOK
  <2>2. PICK l : l = [at |-> pos + 1, row |-> Text[kind]]
    OBVIOUS
  <2>3. state # 2
    BY <2>1, <2>2, CopiedRow DEF CopyRow
  <2>4. kind \in {"head", "headLast"}
    BY <2>1, <2>2, <2>3, Outside
  <2> QED
    BY <2>1, <2>4, ScanReads, Places DEF IInv, SourceInv
<1> QED
  BY <1>1, ScannerOnReadableText, PTL DEF SystemSpec, FilesOpenAtHeads
=============================================================================
