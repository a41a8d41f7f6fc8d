--------------------------- MODULE ParserOnSource ---------------------------
(***************************************************************************)
(* The scanner of functionParser.py reading C text whose functions are     *)
(* known, row by row: what it takes for a function against what is one.    *)
(***************************************************************************)
EXTENDS FunctionParser, CSource

CONSTANT MaxRows   \* bound on the rows of the combined file

\* The scanner knows every row that may be written.
ASSUME SourceAssumption ==
  \A s \in Styles : s \subseteq DOMAIN Text /\ \A kind \in s : Text[kind] \in Row

SystemInit == Init /\ SourceInit

\* The scanner reads the next row of the text, until the text ends.
Scan(kind) ==
  /\ pos < MaxRows
  /\ Emit(kind)
  /\ ReadRow(Text[kind])

SystemNext == \E kind \in style : Scan(kind)

systemVars == <<vars, sourceVars>>

SystemSpec == SystemInit /\ [][SystemNext]_systemVars
-----------------------------------------------------------------------------
RowsOf(f) == {p \in DOMAIN owner : owner[p] = f}
RowsIn(n) == {files[n][i].at : i \in DOMAIN files[n]}
Finished(n) == n < Len(files) \/ state # 2

(***************************************************************************)
(* README: every extracted file holds a function.  A file never mixes rows *)
(* of two functions or rows outside any, and once closed holds the whole   *)
(* of its function, from its own head to its own last brace.               *)
(***************************************************************************)
OneFunctionPerFile ==
  \A n \in DOMAIN files : \E f \in 1 .. fn :
    /\ RowsIn(n) \subseteq RowsOf(f)
    /\ Finished(n) => RowsIn(n) = RowsOf(f)

(***************************************************************************)
(* Between functions, no function of the text has been overlooked or cut   *)
(* in two: each has a file that holds the whole of it, but for those whose *)
(* head takes a function pointer, at whose parentheses the scanner gives   *)
(* up, and nothing else is lost with them.                                 *)
(***************************************************************************)
NoneMissed ==
  place = "top" =>
    \A f \in 1 .. fn : f \notin pointers <=> \E n \in DOMAIN files : RowsIn(n) = RowsOf(f)

(***************************************************************************)
(* functionParser.py:12, one direction: state 2 means "in a function body".*)
(***************************************************************************)
StateTwoMeansBody == state = 2 => place \in {"body", "call"}

(***************************************************************************)
(* functionParser.py:40: a row that starts with a right brace signifies    *)
(* the end of the function.  When a file is closed, no more rows of the    *)
(* function in it are to come.                                             *)
(***************************************************************************)
BraceEndsFunction ==
  \A n \in DOMAIN files : Finished(n) =>
    \A f \in 1 .. fn : RowsIn(n) \cap RowsOf(f) # {} => f < fn \/ place = "top"

(***************************************************************************)
(* A file is opened only where a function of the text begins its body: a   *)
(* head the scanner gave up costs that one function, and no statement of   *)
(* the body left behind is ever taken for the head of another.             *)
(***************************************************************************)
FilesOpenAtHeads ==
  [][functionNum' > functionNum => place \in {"top", "head"}]_systemVars
=============================================================================
