---------------------------- MODULE HubSessions ----------------------------
(***************************************************************************)
(* nodes/brainstem_4070/sessions.py, the (person, member) sessions the hub *)
(* mints and persists, and the runtime counter of server.py that they      *)
(* seed, _turn_idx_by_session.  The store's operations are critical        *)
(* sections of HubSessionStore._lock; the counter has no lock, so FamilyHub *)
(* reads and writes it in steps of their own.                              *)
(***************************************************************************)
EXTENDS Integers, Household

CONSTANTS Sids,        \* session ids, the clients' own included
          NoSid,       \* a pair not yet minted
          ClientSids   \* ids that legacy clients send in X-Session-Id

ASSUME SessionAssumption ==
    /\ NoSid \notin Sids
    /\ ClientSids \subseteq Sids

VARIABLES sessions,             \* _sessions, keyed by (person, member)
          session_store,        \* the JSON file
          minted,               \* ids in use: uuid4 never repeats one
          turn_idx_by_session   \* the runtime counter; Absent: no entry

sessionVars == <<sessions, session_store, minted, turn_idx_by_session>>

Pairs == Persons \X Members

Absent == -1

Session == [sid : Sids \cup {NoSid}, turn_idx : Nat]

Unminted == [sid |-> NoSid, turn_idx |-> 0]

\* Mutant: a plain dict, read for an entry it may not have.
RawCounter(s) == turn_idx_by_session[s]

\* Reading the defaultdict: a missing entry is 0 (and is created).
Counter(s) == IF turn_idx_by_session[s] = Absent THEN 0 ELSE turn_idx_by_session[s]

SessionsInit ==
    /\ sessions = [k \in Pairs |-> Unminted]
    /\ session_store = sessions
    /\ minted = ClientSids
    /\ turn_idx_by_session = [s \in Sids |-> Absent]

-----------------------------------------------------------------------------
\* get_or_mint on a pair that has a session.
Known(k) ==
    /\ sessions[k].sid # NoSid
    /\ UNCHANGED sessionVars

\* get_or_mint on first contact.
Mint(k, s) ==
    /\ sessions[k].sid = NoSid
    /\ s \in Sids \ minted
    /\ sessions' = [sessions EXCEPT ![k] = [sid |-> s, turn_idx |-> 0]]
    /\ session_store' = sessions'
    /\ minted' = minted \cup {s}
    /\ UNCHANGED turn_idx_by_session

\* get_or_mint whose flush raises: the entry stays in memory and the OSError
\* leaves the handler.
MintUnflushed(k, s) ==
    /\ DiskFaults
    /\ sessions[k].sid = NoSid
    /\ s \in Sids \ minted
    /\ sessions' = [sessions EXCEPT ![k] = [sid |-> s, turn_idx |-> 0]]
    /\ minted' = minted \cup {s}
    /\ UNCHANGED <<session_store, turn_idx_by_session>>

\* Overwrites: nothing compares the new index with the stored one.
RecordTurn(k, turn_idx) ==
    /\ IF sessions[k].sid = NoSid
       THEN UNCHANGED <<sessions, session_store>>
       ELSE /\ sessions' = [sessions EXCEPT ![k].turn_idx = turn_idx]
            /\ \/ session_store' = sessions'
               \/ DiskFaults /\ UNCHANGED session_store
    /\ UNCHANGED <<minted, turn_idx_by_session>>

SetCounter(s, n) ==
    /\ turn_idx_by_session' = [turn_idx_by_session EXCEPT ![s] = n]
    /\ UNCHANGED <<sessions, session_store, minted>>

\* A new process reads the file, or starts empty when it cannot; it has no
\* runtime counter.
SessionsRestart ==
    /\ \/ sessions' = session_store
       \/ ReadFaults /\ sessions' = [k \in Pairs |-> Unminted]
    /\ turn_idx_by_session' = [s \in Sids |-> Absent]
    /\ UNCHANGED <<session_store, minted>>

SessionsTypeOK ==
    /\ sessions \in [Pairs -> Session]
    /\ session_store \in [Pairs -> Session]
    /\ minted \subseteq Sids
    /\ turn_idx_by_session \in [Sids -> Nat \cup {Absent}]
=============================================================================
