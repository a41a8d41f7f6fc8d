--------------------------- MODULE FunctionSlicer ---------------------------
(***************************************************************************)
(* What functionParser.py promises of its output files, whatever its line  *)
(* tests are: the rows of the combined source are read once, in order, and *)
(* each output file is one interval of rows, opened at or before the row   *)
(* being read but after every earlier file, and grown a row at a time.     *)
(***************************************************************************)
EXTENDS Integers, Sequences

VARIABLES
  at,       \* rows read so far
  slices,   \* the intervals written, in the order their files were opened
  writing   \* is the last interval still growing?

slicerVars == <<at, slices, writing>>

Slice == [from: Nat \ {0}, to: Nat]

\* The last row that some file already holds.
Written == IF slices = <<>> THEN 0 ELSE slices[Len(slices)].to

SlicerInit ==
  /\ at = 0
  /\ slices = <<>>
  /\ writing = FALSE

\* A row that goes to no file, for now.
Skip ==
  /\ ~writing
  /\ at' = at + 1
  /\ UNCHANGED <<slices, writing>>

\* The row read completes a function head: a file opens with the rows of it.
Cut ==
  /\ ~writing
  /\ at' = at + 1
  /\ writing' = TRUE
  /\ \E from \in Written + 1 .. at + 1 :
       slices' = Append(slices, [from |-> from, to |-> at + 1])

\* A row of a function body is written to the open file, and may close it.
Extend ==
  /\ writing
  /\ at' = at + 1
  /\ slices' = [slices EXCEPT ![Len(slices)].to = at + 1]
  /\ writing' \in BOOLEAN

SlicerNext == Skip \/ Cut \/ Extend

SlicerSpec == SlicerInit /\ [][SlicerNext]_slicerVars
=============================================================================
