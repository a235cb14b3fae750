----------------------------- MODULE Household -----------------------------
(***************************************************************************)
(* The names the hub's components share: the family registry's members     *)
(* (core/family.py) and the persons, who are token names (auth.py).  The   *)
(* hub's stores live on one disk, whose faults they share too.             *)
(***************************************************************************)
CONSTANTS Members,     \* ids in the registry file
          Persons,     \* names of the tokens clients present
          DiskFaults,  \* may a write of a store file raise OSError?
          ReadFaults   \* may a store file be unreadable when the hub boots?

ASSUME HouseholdAssumption == {DiskFaults, ReadFaults} \subseteq BOOLEAN

\* core/family.py: awake, loaded and serving; busy, loaded and mid-task;
\* waking, weights loading; asleep, not loaded.
PRESENCE_STATES == {"awake", "busy", "waking", "asleep"}
=============================================================================
