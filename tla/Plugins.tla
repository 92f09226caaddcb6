------------------------------ MODULE Plugins ------------------------------
(***************************************************************************)
(* The plugins of one process: their method calls, and the data that those *)
(* of firebase_database and of firebase_storage move.  The three share no  *)
(* variable, so a behaviour of all is one of each with steps of the others *)
(* between; part says whose steps these are, and the others stand still.   *)
(***************************************************************************)
EXTENDS PluginCalls, DatabaseData, StorageData

VARIABLE part

pluginVars == <<vars, databaseData, storageData, part>>

PluginsInit ==
  /\ part \in {"calls", "database", "storage"}
  /\ Init /\ DatabaseDataInit /\ StorageDataInit

PluginsNext ==
  /\ \/ part = "calls" /\ Next /\ UNCHANGED <<databaseData, storageData>>
     \/ part = "database" /\ DatabaseDataNext /\ UNCHANGED <<vars, storageData>>
     \/ part = "storage" /\ StorageDataNext /\ UNCHANGED <<vars, databaseData>>
  /\ UNCHANGED part

PluginsSpec == PluginsInit /\ [][PluginsNext]_pluginVars /\ (part = "calls" => Fairness)
=============================================================================
