------------------------------ MODULE CSource -------------------------------
(***************************************************************************)
(* The text functionParser.py is run on, as a generator of rows: the .c    *)
(* files of originals/ after gcc has dropped the comments and              *)
(* fixCurlyBraces.py has pulled every "{" up to the text before it.  It    *)
(* knows what the scanner has to guess: where each function lies.          *)
(***************************************************************************)
EXTENDS Integers, Sequences

CONSTANT Styles   \* a style is the set of kinds of row a programmer uses

VARIABLES
  style,   \* the one this source is written in
  place,   \* the construct the text is inside of
  depth,   \* brace nesting
  fn,      \* number of functions begun
  owner,   \* owner[p]: the function row p belongs to, 0 if none
  pointers \* the functions whose head takes a function pointer

sourceVars == <<style, place, depth, fn, owner, pointers>>

Shape(l, r, m) == [lp |-> l, rp |-> r, marks |-> m]

Text ==
  [ decl       |-> Shape(0, 0, {}),               \* int x;
    protoFirst |-> Shape(1, 0, {}),               \* int f(int a,
    protoLast  |-> Shape(0, 1, {}),               \*       int b);
    table      |-> Shape(0, 0, {}),               \* int t[]={
    head       |-> Shape(1, 1, {"open"}),         \* int f(int a){
    headFirst  |-> Shape(1, 0, {}),               \* int f(int a,
    headMid    |-> Shape(0, 0, {}),               \*       int b,
    headLast   |-> Shape(0, 1, {"open"}),         \*       int c){
    callback   |-> Shape(2, 2, {"open"}),         \* int f(int (*g)(int)){
    oneLine    |-> Shape(1, 1, {"open"}),         \* int f(int a){ return a; }
    stmt       |-> Shape(1, 1, {}),               \*   g(a);
    callFirst  |-> Shape(1, 0, {}),               \*   g(a,
    callLast   |-> Shape(0, 1, {}),               \*     b);
    symbols    |-> Shape(0, 0, {"sym"}),          \*   a->b = x.y;
    branch     |-> Shape(1, 1, {"ctl", "open"}),  \*   if (a){
    each       |-> Shape(1, 1, {"open"}),         \*   list_for_each_entry(p){
    inner      |-> Shape(0, 0, {}),               \*   }
    early      |-> Shape(0, 0, {"close"}),        \* } of an inner block, in column 0
    brace      |-> Shape(0, 0, {"close"}) ]       \* }

Rule(kind, from, to, nest) ==
  [kind |-> kind, from |-> from, to |-> to, nest |-> nest]

Rules ==
  { Rule("decl", "top", "top", 0), Rule("oneLine", "top", "top", 0),
    Rule("protoFirst", "top", "proto", 0), Rule("protoLast", "proto", "top", 0),
    Rule("table", "top", "table", 1), Rule("symbols", "table", "table", 0),
    Rule("brace", "table", "top", -1),
    Rule("head", "top", "body", 1), Rule("callback", "top", "body", 1),
    Rule("headFirst", "top", "head", 0), Rule("headMid", "head", "head", 0),
    Rule("headLast", "head", "body", 1),
    Rule("stmt", "body", "body", 0), Rule("symbols", "body", "body", 0),
    Rule("callFirst", "body", "call", 0), Rule("callLast", "call", "body", 0),
    Rule("branch", "body", "body", 1), Rule("each", "body", "body", 1),
    Rule("inner", "body", "body", -1), Rule("early", "body", "body", -1),
    Rule("brace", "body", "top", -1) }

Begins(kind) == kind \in {"head", "headFirst", "callback", "oneLine"}

SourceInit ==
  /\ style \in Styles
  /\ place = "top"
  /\ depth = 0
  /\ fn = 0
  /\ owner = <<>>
  /\ pointers = {}

\* The next row of the text is of the given kind.  The brace that takes the
\* nesting to 0 closes the construct, any other closes a block inside it.
Emit(kind) ==
  /\ \E rule \in Rules :
       /\ rule.kind = kind
       /\ rule.from = place
       /\ rule.nest = -1 => (depth = 1 <=> kind = "brace")
       /\ place' = rule.to
       /\ depth' = depth + rule.nest
  /\ fn' = IF Begins(kind) THEN fn + 1 ELSE fn
  /\ owner' = Append(owner, IF Begins(kind) THEN fn + 1
                            ELSE IF place \in {"head", "body", "call"} THEN fn
                            ELSE 0)
  /\ pointers' = IF kind = "callback" THEN pointers \cup {fn + 1} ELSE pointers
  /\ UNCHANGED style
=============================================================================
