------------------------------- MODULE Tables -------------------------------
(***************************************************************************)
(* What becomes of the table of features: getStats.bash with the files it  *)
(* has its commands write (StatsPipeline), performanceCalc.py followed by  *)
(* classify.py on any table (FeatureSelection), and one call of cmCalc in  *)
(* any of the programs that have it (CrossValidation).  The table is a     *)
(* parameter of the last two, and a behaviour is of one of the three: the  *)
(* others have nothing to work on and stay as they are.                    *)
(***************************************************************************)
EXTENDS StatsPipeline, FeatureSelection, CrossValidation

VARIABLE program   \* which of the three it is

tablesVars == <<program, statsVars, selectionVars, vars>>

NoCall == CHOOSE c \in Calls : TRUE

TablesInit ==
  /\ program \in {"getStats", "performanceCalc", "cmCalc"}
  /\ StatsInit
  /\ program # "performanceCalc" => sampleClass = <<>>
  /\ SelectionInit
  /\ program # "cmCalc" => call = NoCall
  /\ Init

RunScript ==
  /\ program = "getStats" /\ StatsNext
  /\ UNCHANGED <<program, selectionVars, vars>>

SelectFeatures ==
  /\ program = "performanceCalc" /\ SelectionNext
  /\ UNCHANGED <<program, statsVars, vars>>

CrossValidate ==
  /\ program = "cmCalc" /\ Next
  /\ UNCHANGED <<program, statsVars, selectionVars>>

TablesNext == RunScript \/ SelectFeatures \/ CrossValidate

TablesSpec == TablesInit /\ [][TablesNext]_tablesVars
=============================================================================
