----------------------------- MODULE WordReader ------------------------------
(***************************************************************************)
(* get_words of suffixTrees/ST.cpp, with remove_punctuation and stem: the  *)
(* set of words a file is made of, which SuffixTree is trained on and      *)
(* which it scores.                                                        *)
(*                                                                         *)
(* A file is a sequence of tokens, the pieces between white space; a token *)
(* is a sequence of characters.  The file can be opened, and stopwords is  *)
(* empty, since main never calls preprocessing.                            *)
(***************************************************************************)
EXTENDS SequencesExt, Order

CONSTANTS
  Letter,     \* the small letters
  LowerCase,  \* the small letter of each capital
  Files       \* the files that may be read

ASSUME WordReaderAssumption ==
  /\ "e" \in Letter
  /\ LowerCase \in [DOMAIN LowerCase -> Letter]
  /\ \A f \in Files : f \in Seq(Range(f)) /\ \A t \in Range(f) : t \in Seq(Range(t))

VARIABLES
  infile,    \* the tokens that have not been read
  trailing,  \* the file ends with white space
  eof,
  buf,
  db,        \* the words found
  read       \* history: the tokens read

readerVars == <<infile, trailing, eof, buf, db, read>>

ReaderInit ==
  /\ infile = <<>> /\ trailing = FALSE /\ eof = TRUE
  /\ buf = <<>> /\ db = {} /\ read = {}

\* A call opens the file and forgets the words of the call before.
GetWords ==
  /\ eof
  /\ infile' \in Files /\ trailing' \in BOOLEAN /\ eof' = FALSE
  /\ buf' = <<>> /\ db' = {} /\ read' = {}

remove_punctuation(s) ==
  LET kept == Picked(s, {k \in DOMAIN s : s[k] \in Letter \cup DOMAIN LowerCase})
  IN  [k \in DOMAIN kept |-> IF kept[k] \in Letter THEN kept[k] ELSE LowerCase[kept[k]]]

WithoutLast(w, n) == SubSeq(w, 1, Len(w) - n)

Plural(w) ==
  IF IsSuffix(<<"s", "s", "e", "s">>, w) \/ IsSuffix(<<"i", "e", "s">>, w) THEN WithoutLast(w, 2)
  ELSE IF Len(w) > 1 /\ IsSuffix(<<"s">>, w) /\ ~IsSuffix(<<"s", "s">>, w) THEN WithoutLast(w, 1)
  ELSE w
Eed(w) == IF IsSuffix(<<"e", "e", "d">>, w) THEN WithoutLast(w, 1) ELSE w
Ed(w) == IF IsSuffix(<<"e", "d">>, w) THEN WithoutLast(w, 2) ELSE w
Ing_Short(w) == IF IsSuffix(<<"i", "n", "g">>, w) THEN WithoutLast(w, 2) ELSE w   \* len-2
Ing(w) == IF IsSuffix(<<"i", "n", "g">>, w) THEN WithoutLast(w, 3) ELSE w
FinalE(w) ==
  IF \E end \in {<<"a", "t">>, <<"b", "l">>, <<"i", "z">>} : IsSuffix(end, w)
    THEN Append(w, "e") ELSE w

stem(w) == FinalE(Ing(Ed(Eed(Plural(w)))))

\* What a read that meets the end of the file leaves in buf.
Nothing_KeepsBuf == buf   \* without buf[0]=0
Nothing == <<>>

\* infile>>buf.
Extract ==
  IF infile = <<>>
    THEN buf' = stem(remove_punctuation(Nothing)) /\ eof' = TRUE /\ UNCHANGED <<infile, read>>
    ELSE /\ buf' = stem(remove_punctuation(Head(infile)))
         /\ infile' = Tail(infile)
         /\ eof' = (infile' = <<>> /\ ~trailing)
         /\ read' = read \cup {Head(infile)}

Insert(w) == IF Len(w) < 1 THEN {} ELSE {w}

\* One round of the loop: read a token, strip and stem it in place, keep it.
ReadWord ==
  /\ ~eof
  /\ Extract
  /\ db' = db \cup Insert(buf')
  /\ UNCHANGED trailing

ReaderNext == GetWords \/ ReadWord

ReaderSpec == ReaderInit /\ [][ReaderNext]_readerVars
-----------------------------------------------------------------------------
(***************************************************************************)
(* What is read is the stem of every token and nothing else; in particular *)
(* the last word is not taken, and stemmed, a second time when white space *)
(* follows it.  It is what SuffixTree assumes of its words: of small       *)
(* letters and not empty, although a token may be nothing but punctuation  *)
(* or a suffix; and only by one letter is a word longer than its token.    *)
(* That nothing but letters is left is what the code does; ST.cpp:43 says  *)
(* that apostrophes are left, too: see ApostrophesAreKept.                 *)
(***************************************************************************)
WordsAreStems ==
  /\ db = {stem(remove_punctuation(t)) : t \in read} \ {<<>>}
  /\ \A w \in db : /\ w \in Seq(Letter) /\ w # <<>>
                   /\ \E t \in read : Len(w) <= Len(t) + 1

(***************************************************************************)
(* ST.cpp:43.  All symbols are removed but letters and "'": the tokens     *)
(* with an apostrophe leave a word with one.  remove_punctuation removes   *)
(* it, and no path of SuffixTree's that is for apostrophes is ever taken.  *)
(***************************************************************************)
ApostrophesAreKept ==
  (\E t \in read : "'" \in Range(t)) => \E w \in db : "'" \in Range(w)

EndsIn(w, ends) == \E end \in ends : IsSuffix(end, w)

\* stem leaves w as it is, but perhaps for an e at its end, and no -ed after w is an -eed.
IsRoot(w) ==
  /\ ~EndsIn(w, {<<"e">>, <<"e", "d">>, <<"i", "n", "g">>})
  /\ EndsIn(w, {<<"s">>}) => EndsIn(w, {<<"s", "s">>})

(***************************************************************************)
(* ST.cpp:59-60.  Stemming gets rid of plurals and of -ed and -ing: w has  *)
(* one stem with its plural, and with its forms in -ed and -ing, unless a  *)
(* rule of stem takes w's own end, or the end w makes with the suffix, for *)
(* a suffix; a word in -ate, -ble or -ize gets back the e that its forms   *)
(* drop.                                                                   *)
(***************************************************************************)
FormsMeet ==
  \A t \in read :
    LET w == remove_punctuation(t)
        SameStem(form) == stem(form) = stem(w)
    IN  w # <<>> =>
          /\ ~EndsIn(w, {<<"s">>, <<"i", "e">>, <<"s", "s", "e">>}) => SameStem(w \o <<"s">>)
          /\ IsRoot(w) => SameStem(w \o <<"e", "d">>) /\ SameStem(w \o <<"i", "n", "g">>)
          /\ EndsIn(w, {<<"a", "t", "e">>, <<"b", "l", "e">>, <<"i", "z", "e">>}) =>
               SameStem(Append(w, "d")) /\ SameStem(WithoutLast(w, 1) \o <<"i", "n", "g">>)
=============================================================================
