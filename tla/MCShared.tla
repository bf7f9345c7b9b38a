------------------------------ MODULE MCShared ------------------------------
(***************************************************************************)
(* Small instances of the three modules about files that the GUI and the   *)
(* daemon both write: settings.json, with one thread of each, as the       *)
(* threads of one process save one at a time; test_results.json, with the  *)
(* page that reads it; and the folder of all the data, copied and moved.   *)
(* They are taken in turn.                                                 *)
(***************************************************************************)
EXTENDS Settings, TestResults, MCFolder, TLC

CONSTANTS Gui, Daemon, g1, d1, v1

VARIABLE component

MCHome == g1 :> Gui @@ d1 :> Daemon

SharedVars == <<vars, resultsVars, folderVars, component>>

SharedInit ==
    /\ SInit /\ ResultsInit /\ chosen = v1 /\ FolderInit
    /\ component \in {"settings", "results", "folder"}
    /\ component # "settings" => file = Blank
    /\ component # "folder" => written = [f \in Files |-> Absent]

SharedNext ==
    /\ component' = component
    /\ \/ component = "settings" /\ SNext /\ UNCHANGED <<resultsVars, folderVars>>
       \/ component = "results" /\ ResultsNext /\ UNCHANGED <<vars, folderVars>>
       \/ component = "folder" /\ FolderNext /\ UNCHANGED <<vars, resultsVars>>

SharedSpec == SharedInit /\ [][SharedNext]_SharedVars
=============================================================================
