---------------------------- MODULE TextFeatures -----------------------------
(***************************************************************************)
(* The features that are counted in one pass over the text of a function:  *)
(* arrowCount.py and maxNestingDepth.py character by character, ifCount.py,*)
(* ifComplexity.py, whileCount.py and forCount.py line by line, all as if  *)
(* they read the file together.                                            *)
(*                                                                         *)
(* A character is one of a few kinds: "-", ">", "{", "}", " ", "newline".  *)
(* A keyword counts as one, and so do "(x)", something in parentheses, and *)
(* "(;;)", where two semicolons are in it.                                 *)
(***************************************************************************)
EXTENDS SequencesExt, FiniteSetsExt, Integers

CONSTANTS
  Alphabets,  \* the sets of characters a file may be written with
  MaxLength   \* bound on the length of a file

ASSUME TextAssumption == MaxLength \in Nat

VARIABLES
  chars,    \* the characters of the file
  data,     \* the characters read
  line,     \* those of the line being read
  ended,    \* the file has been read
  state, arrowCount,      \* arrowCount.py; state 1: a "-" may begin an arrow
  depth, maxDepth,        \* maxNestingDepth.py
  ifCount, elseifCount, elseCount,   \* ifComplexity.py
  whileCount, forCount    \* of the scripts of these names

charCounts == <<state, arrowCount, depth, maxDepth>>
lineCounts == <<ifCount, elseifCount, elseCount, whileCount, forCount>>
textVars == <<chars, data, line, ended, charCounts, lineCounts>>

\* No file is open: the one before, if any, has been read.
TextInit ==
  /\ chars = {} /\ data = <<>> /\ line = <<>> /\ ended = TRUE
  /\ state = 0 /\ arrowCount = 0 /\ depth = 0 /\ maxDepth = 0
  /\ ifCount = 0 /\ elseifCount = 0 /\ elseCount = 0 /\ whileCount = 0 /\ forCount = 0

\* A slip: after the second "-" of "--" an arrow may begin.
Arrow_KeepsState(c) ==
  /\ state' = IF c = "-" THEN 1 ELSE 0
  /\ arrowCount' = IF state = 1 /\ c = ">" THEN arrowCount + 1 ELSE arrowCount
Arrow(c) ==
  /\ state' = IF state = 0 /\ c = "-" THEN 1 ELSE 0
  /\ arrowCount' = IF state = 1 /\ c = ">" THEN arrowCount + 1 ELSE arrowCount

\* A slip: the left brace counts from the next character on.
Nesting_Late(c) ==
  /\ depth' = CASE c = "{" -> depth + 1 [] c = "}" -> depth - 1 [] OTHER -> depth
  /\ maxDepth' = IF depth > maxDepth THEN depth ELSE maxDepth
Nesting(c) ==
  /\ depth' = CASE c = "{" -> depth + 1 [] c = "}" -> depth - 1 [] OTHER -> depth
  /\ maxDepth' = IF depth' > maxDepth THEN depth' ELSE maxDepth

\* "\s*<words>.*": l begins with blanks and these words.
Begins(l, words) ==
  \E k \in 0 .. Len(l) - Len(words) :
    /\ \A i \in 1 .. k : l[i] = " "
    /\ SubSeq(l, k + 1, k + Len(words)) = words

\* ".*\(.+\).*".  No word holds one, so it comes after what l begins with.
Parenthesis(l) == {"(x)", "(;;)"} \cap Range(l) # {}

IsElseIf(l) == Begins(l, <<"else", " ", "if">>) /\ Parenthesis(l)
IsElse(l) == Begins(l, <<"else">>) /\ Parenthesis(l)
IsIf(l) == Begins(l, <<"if">>) /\ Parenthesis(l)
IsWhile(l) == Begins(l, <<"while">>) /\ Parenthesis(l)
\* ".*for.*\(.*\;.*\;.*\).*"
IsFor(l) == \E i, j \in DOMAIN l : i < j /\ l[i] = "for" /\ l[j] = "(;;)"

Increment(count, counts) == IF counts THEN count + 1 ELSE count

\* A slip: the three tests of ifComplexity.py are not chained by elif.
CountLine_NotChained(l) ==
  /\ elseifCount' = Increment(elseifCount, IsElseIf(l))
  /\ elseCount' = Increment(elseCount, IsElse(l))
  /\ ifCount' = Increment(ifCount, IsIf(l))
  /\ whileCount' = Increment(whileCount, IsWhile(l))
  /\ forCount' = Increment(forCount, IsFor(l))
\* The body of `for line in fin`, of each of the four scripts.
CountLine(l) ==
  /\ elseifCount' = Increment(elseifCount, IsElseIf(l))
  /\ elseCount' = Increment(elseCount, IsElse(l) /\ ~IsElseIf(l))
  /\ ifCount' = Increment(ifCount, IsIf(l))
  /\ whileCount' = Increment(whileCount, IsWhile(l))
  /\ forCount' = Increment(forCount, IsFor(l))

ReadChar(c) ==
  /\ ~ended /\ Len(data) < MaxLength
  /\ data' = Append(data, c)
  /\ Arrow(c)
  /\ Nesting(c)
  /\ IF c = "newline" THEN line' = <<>> /\ CountLine(line)
                      ELSE line' = Append(line, c) /\ UNCHANGED lineCounts
  /\ UNCHANGED <<chars, ended>>

\* The last line may end without a newline.  The counts are written.
EndOfFile ==
  /\ ~ended
  /\ ended' = TRUE
  /\ CountLine(line)
  /\ UNCHANGED <<chars, data, line, charCounts>>

NextFile ==
  /\ ended
  /\ chars' \in Alphabets
  /\ data' = <<>> /\ line' = <<>> /\ ended' = FALSE
  /\ state' = 0 /\ arrowCount' = 0 /\ depth' = 0 /\ maxDepth' = 0
  /\ ifCount' = 0 /\ elseifCount' = 0 /\ elseCount' = 0 /\ whileCount' = 0 /\ forCount' = 0

TextNext == (\E c \in chars : ReadChar(c)) \/ EndOfFile \/ NextFile

TextSpec == TextInit /\ [][TextNext]_textVars
-----------------------------------------------------------------------------
At(c) == {k \in DOMAIN data : data[k] = c}

\* The operators "->" of C: "--" is read first, so the "-" before the ">"
\* must be the last of an odd number.
ArrowOperators ==
  {k \in At(">") : \E n \in 1 .. k - 1 :
     /\ n % 2 = 1
     /\ \A i \in k - n .. k - 1 : data[i] = "-"
     /\ k - n = 1 \/ data[k - n - 1] # "-"}

(***************************************************************************)
(* arrowCount.py counts the operators "->" of a file: not "--" and ">" as  *)
(* in "x-->y", but the "->" after a "--", in any run of "-".               *)
(***************************************************************************)
CountsArrowOperators == arrowCount = Cardinality(ArrowOperators)

\* The braces in the text up to k that are not closed there.
Open(k) ==
  {i \in At("{") : i <= k /\ \A m \in i .. k :
     Cardinality(At("}") \cap i .. m) < Cardinality(At("{") \cap i .. m)}

(***************************************************************************)
(* maxNestingDepth.py finds the largest number of blocks that lie in each  *)
(* other, provided that none is closed that was not opened.                *)
(***************************************************************************)
DepthIsNesting ==
  LET balanced == \A k \in DOMAIN data : Cardinality(At("}") \cap 1 .. k) <= Cardinality(At("{") \cap 1 .. k)
  IN  balanced => maxDepth = Max({Cardinality(Open(k)) : k \in DOMAIN data} \cup {0})

\* "else" that an "if" follows after a blank, and any other "else".
ElseIfs == {k \in At("else") : k + 2 \in At("if") /\ k + 1 \in At(" ")}
Elses == At("else") \ ElseIfs

FirstOfLine(k) == k = 1 \/ data[k - 1] = "newline"
\* What follows k on its line.
RestOfLine(k) == {i \in DOMAIN data : i > k /\ \A j \in k .. i : data[j] # "newline"}
Condition(k) == \E i \in RestOfLine(k) : data[i] \in {"(x)", "(;;)"}
\* There is nothing but blanks before k on its line.
Leads(k) == \E s \in 1 .. k : FirstOfLine(s) /\ \A q \in s .. k - 1 : data[q] = " "

Led(places) == {k \in places : Leads(k) /\ Condition(k)}
\* The first "for" of each line that has two semicolons in parentheses after it.
LoopHeads ==
  {k \in At("for") : /\ \E i \in RestOfLine(k) : data[i] = "(;;)"
                     /\ \A m \in At("for") : m < k => k \notin RestOfLine(m)}

(***************************************************************************)
(* Which keywords are counted, each of them once and as what it is: of     *)
(* "if", "else if", "else" and "while" those that lead their line and have *)
(* parentheses after them on it, so that a condition on the next line, the *)
(* "while" after a "}", the "if" of an "else if" and an "else" without a   *)
(* call or condition behind it count for nothing; and of "for" the first   *)
(* of a line, wherever it stands.                                          *)
(***************************************************************************)
KeywordsCountedOnce ==
  ended =>
    /\ elseifCount = Cardinality(Led(ElseIfs))
    /\ elseCount = Cardinality(Led(Elses))
    /\ ifCount = Cardinality(Led(At("if")))
    /\ whileCount = Cardinality(Led(At("while")))
    /\ forCount = Cardinality(LoopHeads)

(***************************************************************************)
(* ifCount.py:3 and whileCount.py:3.  They compute the number of "if" and  *)
(* of "while" substrings; here of a text that has them where statements    *)
(* begin, at most after a "}" and an "else", with the condition on the     *)
(* line.                                                                   *)
(***************************************************************************)
SubstringsCounted ==
  LET before(k) == {data[i] : i \in {m \in 1 .. k - 1 : k \in RestOfLine(m)}}
  IN  ended /\ (\A k \in At("if") \cup At("while") : before(k) \subseteq {" ", "}", "else"} /\ Condition(k))
        => ifCount = Cardinality(At("if")) /\ whileCount = Cardinality(At("while"))
=============================================================================
