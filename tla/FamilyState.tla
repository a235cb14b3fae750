---------------------------- MODULE FamilyState ----------------------------
(***************************************************************************)
(* nodes/brainstem_4070/family_state.py: presence and the durable inbox of *)
(* every family member.  Every operation below is one critical section of  *)
(* FamilyState._lock, so it is one atomic action; what the hub does        *)
(* between two of them is FamilyHub's.                                     *)
(*                                                                         *)
(* A message is the chat request it was made from (enqueue's uuid is       *)
(* fresh), so Chats names both.  The insertion order of the inbox dict,    *)
(* which is the drain order, is the number `seq` given at insertion; the   *)
(* JSON file keeps it.  The presence_log stamps are read only by the       *)
(* briefing, which changes no state, and are left out here.                *)
(***************************************************************************)
EXTENDS Naturals, Household

CONSTANTS Texts,  \* every request that carries a prompt
          Chats,  \* those sent to /members/{id}/chat
          To,     \* To[x]: the member request x is addressed to
          DefaultPresence  \* member_default_presence of the hub's settings

ASSUME FamilyAssumption ==
    /\ Chats \subseteq Texts
    /\ To \in [Texts -> Members]
    /\ DefaultPresence \in PRESENCE_STATES

VARIABLES presence,     \* _presence: in memory only
          inbox,        \* _inbox
          inbox_store,  \* the JSON file
          arrivals      \* how many messages were ever inserted

familyVars == <<presence, inbox, inbox_store, arrivals>>

Message == [status : {"absent", "queued", "answered"}, seq : Nat]

NoMessage == [status |-> "absent", seq |-> 0]

\* The pending messages of member m.
Queued(m) == {c \in Chats : To[c] = m /\ inbox[c].status = "queued"}

FamilyInit ==
    /\ presence = [m \in Members |-> DefaultPresence]
    /\ inbox = [c \in Chats |-> NoMessage]
    /\ inbox_store = inbox
    /\ arrivals = 0

-----------------------------------------------------------------------------
\* Mutant: the change is left for a later flush.
FlushSkipped(new) ==
    /\ inbox' = new
    /\ UNCHANGED inbox_store

\* tmp file + os.replace of the whole map: all of it or nothing, and an
\* OSError is logged and swallowed.
FlushLocked(new) ==
    /\ inbox' = new
    /\ \/ inbox_store' = new
       \/ DiskFaults /\ UNCHANGED inbox_store

SetPresence(m, state) ==
    /\ presence' = [presence EXCEPT ![m] = state]
    /\ FlushLocked(inbox)
    /\ UNCHANGED arrivals

Enqueue(c) ==
    /\ arrivals' = arrivals + 1
    /\ FlushLocked([inbox EXCEPT ![c] = [status |-> "queued", seq |-> arrivals + 1]])
    /\ UNCHANGED presence

\* Nothing checks that the message is still queued.
CompleteMessage(c) ==
    /\ IF inbox[c].status = "absent"
       THEN UNCHANGED <<inbox, inbox_store>>
       ELSE FlushLocked([inbox EXCEPT ![c].status = "answered"])
    /\ UNCHANGED <<presence, arrivals>>

\* Mutant: the new process starts with an empty inbox.
RestartEmpty ==
    /\ presence' = [m \in Members |-> DefaultPresence]
    /\ inbox' = [c \in Chats |-> NoMessage]
    /\ UNCHANGED <<inbox_store, arrivals>>

\* A new process reads the file, or starts empty when it cannot (the next flush
\* then replaces the file); every member starts at the default presence.
FamilyRestart ==
    /\ presence' = [m \in Members |-> DefaultPresence]
    /\ \/ inbox' = inbox_store
       \/ ReadFaults /\ inbox' = [c \in Chats |-> NoMessage]
    /\ UNCHANGED <<inbox_store, arrivals>>

FamilyTypeOK ==
    /\ presence \in [Members -> PRESENCE_STATES]
    /\ inbox \in [Chats -> Message]
    /\ inbox_store \in [Chats -> Message]
    /\ arrivals \in Nat
=============================================================================
