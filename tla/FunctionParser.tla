--------------------------- MODULE FunctionParser ---------------------------
(***************************************************************************)
(* functionParser.py: one pass over the rows of a combined source file     *)
(* (combo_0 or combo_1) that copies every function it recognises to a file *)
(* of its own under extractedFunctions_prep/.                              *)
(*                                                                         *)
(* A row is what the script's tests see of a line of text: whether it has  *)
(* no, one, or more than one '(' and ')', and which of the marks below.    *)
(***************************************************************************)
EXTENDS Integers, Sequences

CONSTANT Row   \* the kinds of row the scanned source may hold

\* "sym"   one of | ! == && . - > <          "ctl"   .*(if|while|do|for|switch)\s*\(
\* "open"  contains "){"                     "close" starts with "}"
Mark == {"sym", "ctl", "open", "close"}

ASSUME RowAssumption == Row \subseteq [lp: 0..2, rp: 0..2, marks: SUBSET Mark]

VARIABLES
  pos,           \* number of rows read
  state,         \* 1 in a function head, 2 in a function body, 0 in neither
  functionHead,  \* the rows accumulated as the current head
  functionNum,   \* number of functions recognised
  files          \* files[n]: the rows written to the file of function n

vars == <<pos, state, functionHead, functionNum, files>>

\* A row of the source together with its place in it.
Line == [at: Nat \ {0}, row: Row]

Has(l, mark) == mark \in l.row.marks

\* The text `lines` holds more than one of the parentheses counted by `side`.
Several(lines, side) ==
  \E i, j \in DOMAIN lines : /\ lines[i].row[side] > 0
                             /\ lines[j].row[side] > 0
                             /\ i # j \/ lines[i].row[side] > 1

badChars(lines) ==
  \/ \E i \in DOMAIN lines : Has(lines[i], "sym")
  \/ Several(lines, "lp") /\ Several(lines, "rp")

\* A slip: the test for control keywords is forgotten.
StartsHead_NoKeywordTest(l) ==
  /\ l.row.lp > 0
  /\ ~(l.row.rp > 0 /\ ~Has(l, "open"))

\* A row that can begin a function head: no control keyword, and an opening
\* parenthesis that is left unclosed unless the body opens on the same row.
StartsHead(l) ==
  /\ ~Has(l, "ctl")
  /\ l.row.lp > 0
  /\ ~(l.row.rp > 0 /\ ~Has(l, "open"))

Init ==
  /\ pos = 0
  /\ state = 0
  /\ functionHead = <<>>
  /\ functionNum = 0
  /\ files = <<>>

\* A slip: a head is only begun where none is open.
HeadWith_OnlyInState0(l) ==
  IF StartsHead(l) /\ state = 0 THEN <<l>> ELSE Append(functionHead, l)

\* The head after row l, and the state before the body test on l.
HeadWith(l) == IF StartsHead(l) THEN <<l>> ELSE Append(functionHead, l)
StateWith(l) == IF StartsHead(l) THEN 1 ELSE state

\* `if badChars(row)`: no head can contain the row, so any head is given up.
RejectRow(l) ==
  /\ state # 2
  /\ badChars(<<l>>)
  /\ state' = 0
  /\ UNCHANGED <<functionHead, functionNum, files>>

\* The row is added to the head (or begins a new one), which stays incomplete.
ScanRow(l) ==
  /\ state # 2
  /\ ~badChars(<<l>>)
  /\ ~(StateWith(l) = 1 /\ Has(l, "open"))
  /\ state' = StateWith(l)
  /\ functionHead' = HeadWith(l)
  /\ UNCHANGED <<functionNum, files>>

\* The row completes a head that, taken as a whole, cannot be one.
RejectHead(l) ==
  /\ state # 2
  /\ ~badChars(<<l>>)
  /\ StateWith(l) = 1 /\ Has(l, "open")
  /\ badChars(HeadWith(l))
  /\ state' = 0
  /\ functionHead' = HeadWith(l)
  /\ UNCHANGED <<functionNum, files>>

\* A file is opened for the function in head, numbered so, and text written to
\* it; the row is the last of the head.
Open(l, next, number, text) ==
  /\ state # 2
  /\ ~badChars(<<l>>)
  /\ StateWith(l) = 1 /\ Has(l, "open")
  /\ ~badChars(HeadWith(l))
  /\ state' = next
  /\ functionHead' = HeadWith(l)
  /\ functionNum' = number
  /\ files' = Append(files, text)

\* Slips: the row is written in place of the head; all functions have one number.
OpenFile_WritesRow(l) == Open(l, 2, functionNum + 1, <<l>>)
OpenFile_SameNumber(l) == Open(l, 2, 1, HeadWith(l))

\* The row completes a head: the next file is opened and the head written.
OpenFile(l) == Open(l, 2, functionNum + 1, HeadWith(l))

\* A slip: the state is not reset at the end of the function.
CopyRow_NeverCloses(l) ==
  /\ state = 2
  /\ files' = [files EXCEPT ![functionNum] = Append(@, l)]
  /\ UNCHANGED <<state, functionHead, functionNum>>

\* A row of a body; a right brace in column 0 ends the function.
CopyRow(l) ==
  /\ state = 2
  /\ files' = [files EXCEPT ![functionNum] = Append(@, l)]
  /\ state' = IF Has(l, "close") THEN 0 ELSE 2
  /\ UNCHANGED <<functionHead, functionNum>>

\* One iteration of the loop over the rows of the input.
ReadRow(r) ==
  LET l == [at |-> pos + 1, row |-> r]
  IN  /\ pos' = pos + 1
      /\ \/ RejectRow(l)
         \/ ScanRow(l)
         \/ RejectHead(l)
         \/ OpenFile(l)
         \/ CopyRow(l)

Next == \E r \in Row : ReadRow(r)

Spec == Init /\ [][Next]_vars
-----------------------------------------------------------------------------
TypeOK ==
  /\ pos \in Nat
  /\ state \in 0..2
  /\ functionHead \in Seq(Line)
  /\ functionNum \in Nat
  /\ files \in Seq(Seq(Line))

\* Consecutive rows of the source, without gap or repetition.
Contiguous(lines) ==
  \A i \in 1 .. Len(lines) - 1 : lines[i + 1].at = lines[i].at + 1

First(lines) == lines[1].at
Final(lines) == lines[Len(lines)].at

(***************************************************************************)
(* Every output file is a contiguous piece of the source: no row inside a  *)
(* function is dropped, even when a head was started over, given up at a   *)
(* bad row or accumulated outside any head before the function opened.     *)
(***************************************************************************)
FilesAreContiguous == \A n \in DOMAIN files : Contiguous(files[n])

(***************************************************************************)
(* No row is written to two files, and files follow the source's order:    *)
(* what functionHead kept from before cannot reach the next file.          *)
(***************************************************************************)
FilesAreDisjoint ==
  \A n \in 1 .. Len(files) - 1 : Final(files[n]) < First(files[n + 1])

(***************************************************************************)
(* The body in a file runs from the row that opens it to the first right   *)
(* brace in column 0 and no further: such a brace is never inside a file.  *)
(***************************************************************************)
BodyEndsAtFirstBrace ==
  \A n \in DOMAIN files : \A i, j \in DOMAIN files[n] :
    /\ i < j
    /\ Has(files[n][i], "open")
    /\ Has(files[n][j], "close")
    => j = Len(files[n]) /\ (n = Len(files) => state # 2)
\* A head being accumulated: consecutive rows up to the one just read, behind
\* every file already written, none of which opens a body.
HeadInv ==
  state = 1 =>
    /\ functionHead # <<>>
    /\ Contiguous(functionHead)
    /\ First(functionHead) <= pos /\ Final(functionHead) = pos
    /\ \A i \in DOMAIN functionHead : ~Has(functionHead[i], "open")
    /\ files # <<>> => Final(files[Len(files)]) < First(functionHead)

\* The files are never empty, and the last one reaches the row just read
\* exactly while a body is being copied to it.
FilesInv ==
  /\ functionNum = Len(files)
  /\ \A n \in DOMAIN files : files[n] # <<>>
  /\ files # <<>> => Final(files[Len(files)]) <= pos
  /\ state = 2 => files # <<>> /\ Final(files[Len(files)]) = pos

(***************************************************************************)
(* The inductive invariant behind the properties above: a head is an       *)
(* unbroken run of rows up to the one just read, behind all files.         *)
(***************************************************************************)
IInv ==
  /\ TypeOK
  /\ HeadInv
  /\ FilesInv
  /\ FilesAreContiguous
  /\ FilesAreDisjoint
  /\ BodyEndsAtFirstBrace
-----------------------------------------------------------------------------
\* The intervals of rows the files hold, for the abstract specification.
Slices == [n \in 1 .. Len(files) |->
             [from |-> First(files[n]), to |-> Final(files[n])]]

Slicer == INSTANCE FunctionSlicer
            WITH at <- pos, slices <- Slices, writing <- (state = 2)

(***************************************************************************)
(* The scanner implements FunctionSlicer: read forward once, each file one *)
(* interval of rows behind all the files opened before it.                 *)
(***************************************************************************)
SlicerSpec == Slicer!SlicerSpec
=============================================================================
