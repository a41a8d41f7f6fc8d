----------------------------- MODULE MCScripts ------------------------------
\* Instances of Scripts for TLC.
EXTENDS Scripts

\* Arrows and braces; branches; loops.
SomeAlphabets ==
  { {"-", ">", "{", "}"},
    {"if", "else", "(x)", "}", " ", "newline"},
    {"while", "for", "(x)", "(;;)", "}", "newline"} }

\* Up to three files of up to two items.
ShortTexts == UNION {[1 .. k -> {"x", "y", "CR"}] : k \in 0 .. 2}
UpToThreeFiles == UNION {[1 .. k -> ShortTexts] : k \in 0 .. 3}

SmallLetters == {"s", "e", "d", "i", "n", "g", "a", "t"}
Capitals == [c \in {"S", "E"} |-> IF c = "S" THEN "s" ELSE "e"]
TokensOf(characters, n) == UNION {[1 .. k -> characters] : k \in 1 .. n}
\* One token of up to four letters, or three that are shorter.
SomeFiles ==
  {<<t>> : t \in TokensOf(SmallLetters, 4)} \cup
  TokensOf({<<"'">>, <<"S", "'">>, <<"e", "d", "e", "d">>, <<"i", "E", "s">>, <<"i", "n", "g", "s">>}, 3) \cup
  {<<>>}

UpToFour == UNION {kSubset(n, {StatsOrder[k] : k \in {1, 2, 7, 8, 13, 15}}) : n \in 1 .. 4}
=============================================================================
