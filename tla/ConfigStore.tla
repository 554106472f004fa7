---------------------------- MODULE ConfigStore ----------------------------
(***************************************************************************)
(* What the registry expects of its configuration files: at any moment one *)
(* configuration is stored.  A save replaces it by another at one instant, *)
(* a crash keeps it, and a load returns it.                                *)
(***************************************************************************)
CONSTANTS
  Configs,   \* the configurations a registry may have
  Nothing    \* no configuration, none of Configs: not loaded, or not being saved

VARIABLES
  stored,    \* the configuration a load would return
  saving,    \* the configuration that is being saved
  loaded     \* the configuration the running process has loaded

vars == <<stored, saving, loaded>>

Init ==
  /\ stored \in Configs
  /\ saving = Nothing
  /\ loaded = Nothing

Load ==
  /\ saving = Nothing
  /\ loaded' = stored
  /\ UNCHANGED <<stored, saving>>

BeginSave(c) ==
  /\ loaded # Nothing /\ saving = Nothing
  /\ saving' = c
  /\ UNCHANGED <<stored, loaded>>

EndSave ==
  /\ saving # Nothing
  /\ stored' = saving
  /\ saving' = Nothing
  /\ UNCHANGED loaded

Crash ==
  /\ saving' = Nothing
  /\ loaded' = Nothing
  /\ UNCHANGED stored

Next == Load \/ (\E c \in Configs : BeginSave(c)) \/ EndSave \/ Crash

Spec == Init /\ [][Next]_vars
===========================================================================
