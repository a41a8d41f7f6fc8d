------------------------------- MODULE NGrams --------------------------------
(***************************************************************************)
(* ngrams.py: a first pass over the files of extractedFunctions/ finds the *)
(* K most frequent n-grams of them all; a second one writes how frequent   *)
(* each is in every file, one row per file, under a header of their names. *)
(* An item is a character (option "c") or a word (option "w").             *)
(***************************************************************************)
EXTENDS SequencesExt, FiniteSetsExt, Integers

CONSTANTS
  Option,        \* "c" or "w"
  N, K,          \* the other two arguments
  Directories    \* what extractedFunctions/ may hold: sequences of files, each of items

ASSUME NGramsAssumption ==
  /\ Option \in {"c", "w"} /\ N \in Nat \ {0} /\ K \in Nat
  /\ \A d \in Directories :
       d \in Seq(Range(d)) /\ \A text \in Range(d) : text \in Seq(Range(text))

VARIABLES
  files,         \* the files, in order of their names
  pass,          \* "start"; "count", the first; "choose"; "write", the second
  file,          \* the number of files read in this pass
  listAll,       \* the items of the files read in the first pass
  ngramsTopK,    \* the n-grams that have a column
  rows           \* rows[i][key]: the times that key is in file i

ngramsVars == <<files, pass, file, listAll, ngramsTopK, rows>>

NGramsInit ==
  /\ files = <<>> /\ pass = "start" /\ file = 0 /\ listAll = <<>>
  /\ ngramsTopK = {} /\ rows = <<>>

ListFiles ==
  /\ pass = "start"
  /\ files' \in Directories
  /\ pass' = "count"
  /\ UNCHANGED <<file, listAll, ngramsTopK, rows>>

NGramAt(list, k) == SubSeq(list, k, k + N - 1)

\* Where the n-grams of a list begin.
Places(list) == 1 .. Len(list) - N + 1
\* getNGrams, as a set, and the Counter of it.
NGramsOf(list) == {NGramAt(list, k) : k \in Places(list)}
Times(key, list) == Cardinality({k \in Places(list) : NGramAt(list, k) = key})

\* Pass 1 reads a file up to a carriage return, if it reads characters.
Before(text) ==
  LET returns == {k \in DOMAIN text : text[k] = "CR"}
  IN  IF Option = "c" /\ returns # {} THEN SubSeq(text, 1, Min(returns) - 1) ELSE text

CountFile ==
  /\ pass = "count"
  /\ \/ /\ file < Len(files)
        /\ file' = file + 1
        /\ listAll' = listAll \o Before(files[file + 1])
        /\ UNCHANGED pass
     \/ file = Len(files) /\ pass' = "choose" /\ file' = 0 /\ UNCHANGED listAll
  /\ UNCHANGED <<files, ngramsTopK, rows>>

\* Some K n-grams that none of the others is more frequent than.
MostFrequent(keys) ==
  {top \in SUBSET keys :
     /\ Cardinality(top) = Min({K, Cardinality(keys)})
     /\ \A x \in top, y \in keys \ top : Times(x, listAll) >= Times(y, listAll)}

Choose ==
  /\ pass = "choose"
  /\ ngramsTopK' \in MostFrequent(NGramsOf(listAll))
  /\ pass' = "write"
  /\ UNCHANGED <<files, file, listAll, rows>>

\* A slip: listCurrent = [] is outside the loop over the files.
Current_NotReset(f) == FlattenSeq(SubSeq(files, 1, f))
\* listCurrent, of the f-th file: pass 2 reads all of it.
Current(f) == files[f]

WriteRow ==
  /\ pass = "write" /\ file < Len(files)
  /\ file' = file + 1
  /\ rows' = Append(rows, [key \in ngramsTopK |-> Times(key, Current(file + 1))])
  /\ UNCHANGED <<files, pass, listAll, ngramsTopK>>

NGramsNext == ListFiles \/ CountFile \/ Choose \/ WriteRow

NGramsSpec == NGramsInit /\ [][NGramsNext]_ngramsVars
-----------------------------------------------------------------------------
Written == pass = "write" /\ file = Len(files)

AllFit == K >= Cardinality(NGramsOf(listAll))
NoReturn == \A f \in DOMAIN files : "CR" \notin Range(files[f])

CountsOf(row) == SumFunctionOnSet(row, ngramsTopK)

(***************************************************************************)
(* The two passes agree: with K large enough, as getStats.bash has it, and *)
(* no carriage return, a row counts every place of its own file at which   *)
(* an n-gram begins, and no other.                                         *)
(***************************************************************************)
RowsAreWhole ==
  Written /\ AllFit /\ NoReturn =>
    \A f \in DOMAIN files : CountsOf(rows[f]) = Cardinality(Places(files[f]))

Absent == {key \in ngramsTopK : \A f \in DOMAIN rows : rows[f][key] = 0}

(***************************************************************************)
(* The files are joined before n-grams are taken, so some are of the end   *)
(* of one and the beginning of the next, and their columns are all 0.      *)
(* There are at most N - 1 such columns for each pair of files.            *)
(***************************************************************************)
FewColumnsAbsent ==
  Written /\ NoReturn =>
    Cardinality(Absent) <= (N - 1) * Max({0, Len(files) - 1})

(***************************************************************************)
(* Both: what the second pass finds in the files, the first has found.     *)
(***************************************************************************)
PassesAgree == RowsAreWhole /\ FewColumnsAbsent
=============================================================================
