------------------------------ MODULE Scripts -------------------------------
(***************************************************************************)
(* The programs whose result depends on one input alone: the scripts that  *)
(* count in one pass, run together (TextFeatures), ngrams.py,              *)
(* classify_bruteforce.py, and get_words of ST.cpp.  The user runs one of  *)
(* them.  They share no state; each leaves that of the others alone.       *)
(***************************************************************************)
EXTENDS TextFeatures, NGrams, WordReader, BruteForce

VARIABLE script   \* the program being run, "none" before the user has chosen

scriptVars == <<script, textVars, ngramsVars, readerVars, subsetVars>>

Init ==
  /\ script = "none"
  /\ TextInit /\ NGramsInit /\ ReaderInit /\ SubsetInit

Run(program) == script = "none" /\ script' = program
Running(program) == script = program /\ UNCHANGED script

CountText ==
  /\ \/ Run("TextFeatures") /\ NextFile
     \/ Running("TextFeatures") /\ TextNext
  /\ UNCHANGED <<ngramsVars, readerVars, subsetVars>>

CountNGrams ==
  /\ \/ Run("NGrams") /\ ListFiles
     \/ Running("NGrams") /\ NGramsNext
  /\ UNCHANGED <<textVars, readerVars, subsetVars>>

\* One call of get_words is enough: it begins by forgetting the one before.
ReadWords ==
  /\ \/ Run("get_words") /\ GetWords
     \/ Running("get_words") /\ ReadWord
  /\ UNCHANGED <<textVars, ngramsVars, subsetVars>>

TrySubsets ==
  /\ \/ Run("BruteForce") /\ LoadTable
     \/ Running("BruteForce") /\ SubsetNext
  /\ UNCHANGED <<textVars, ngramsVars, readerVars>>

Next == CountText \/ CountNGrams \/ ReadWords \/ TrySubsets

Spec == Init /\ [][Next]_scriptVars
=============================================================================
