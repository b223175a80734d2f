------------------------------- MODULE Stores -------------------------------
(***************************************************************************)
(* The files that several processes change: the configuration, the managed *)
(* accounts with their homes, and the history.  Nothing the properties say *)
(* relates a state of one to a state of another, so a behaviour exercises  *)
(* one of them, the scene, while the others rest.                          *)
(***************************************************************************)
EXTENDS ConfigStore, ManagedCodex, History

VARIABLE scene

storesVars == <<scene, configVars, managedVars, historyVars>>

\* A component that rests is in one of its initial states.
ConfigRests ==
  /\ file = Absent /\ foreign = 0
  /\ holder = [l \in Locks |-> Nobody]
  /\ writer = [w \in Writers |-> Ended(CHOOSE l \in Locks : TRUE)]

ManagedRests == ManagedInit /\ active = Live

HistoryRests ==
  /\ HistoryInit
  /\ history = EmptyDocument /\ tick = 0
  /\ \A r, s \in Recorders : recorder[r].process = recorder[s].process
  /\ \A r \in Recorders : recorder[r].process = (CHOOSE q \in Processes : TRUE)

StoresInit ==
  \/ scene = "configuration" /\ ConfigInit /\ ManagedRests /\ HistoryRests
  \/ scene = "managed accounts" /\ ManagedInit /\ ConfigRests /\ HistoryRests
  \/ scene = "history" /\ HistoryInit /\ ConfigRests /\ ManagedRests

StoresNext ==
  \/ /\ scene = "configuration" /\ ConfigNext
     /\ UNCHANGED <<scene, managedVars, historyVars>>
  \/ /\ scene = "managed accounts" /\ ManagedNext
     /\ UNCHANGED <<scene, configVars, historyVars>>
  \/ /\ scene = "history" /\ HistoryNext
     /\ UNCHANGED <<scene, configVars, managedVars>>

StoresSpec ==
  /\ StoresInit /\ [][StoresNext]_storesVars
  /\ \A w \in Writers : WF_configVars(Transaction(w))
=============================================================================
