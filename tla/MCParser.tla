------------------------------ MODULE MCParser ------------------------------
(***************************************************************************)
(* Instances of ParserOnSource for TLC: four habits of writing C.          *)
(***************************************************************************)
EXTENDS ParserOnSource

\* Functions opened and closed in column 0, one parenthesis pair in a head.
HouseStyle == DOMAIN Text \ {"callback", "oneLine", "early"}

\* Heads with function pointers as well, but no block macros.
CallbackStyle == (HouseStyle \cup {"callback"}) \
                   {"each", "table", "protoFirst", "protoLast", "headMid"}

\* One-line functions as well.
OneLineStyle == {"decl", "head", "oneLine", "stmt", "brace"}

\* Braces of inner blocks in column 0.
EarlyStyle == {"decl", "head", "branch", "stmt", "inner", "early", "brace"}

HouseStyles == {HouseStyle, CallbackStyle}
OneLineStyles == {OneLineStyle}
EarlyStyles == {EarlyStyle}

SourceRows == {Text[kind] : kind \in UNION Styles}
=============================================================================
