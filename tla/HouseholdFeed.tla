--------------------------- MODULE HouseholdFeed ---------------------------
(***************************************************************************)
(* The household feed and the wake-up briefing: POST /household/events,    *)
(* GET /household/timeline and GET /members/{id}/briefing of               *)
(* nodes/brainstem_4070/server.py over the embedder's store and the        *)
(* presence log of family_state.py.  Timestamps are the ISO-8601 strings   *)
(* of the code, which are compared as strings; a ts that a Jetson brings   *)
(* itself is taken to be in the hub's format and UTC, so that they order   *)
(* as the numbers here do.                                                 *)
(***************************************************************************)
EXTENDS MemoryScopes

CONSTANTS Sleepers,     \* members whose presence changes
          MaxTime,      \* bound on the clock
          Day,          \* the 24 h of the fallback window, in ticks
          FetchLimit,   \* rows get_where fetches: 1000 in the code
          EventCap,     \* BRIEFING_EVENT_CAP: 50 in the code
          DefaultPresence   \* settings.member_default_presence

ASSUME FeedAssumption ==
    /\ Sleepers \subseteq Members
    /\ {MaxTime, Day, FetchLimit} \subseteq Nat
    /\ EventCap \in 0..200   \* what the briefing asks the timeline for
    /\ None \notin Nat
    /\ DefaultPresence \in {"awake", "busy", "waking", "asleep"}

VARIABLES now,
          presence,         \* as of the last report
          last_asleep_at,   \* of the presence log; None: never
          slept,            \* history: when the member last stopped being awake
          calledAsleep      \* history: when it was last reported asleep

vars == <<memoryVars, now, presence, last_asleep_at, slept, calledAsleep>>

PRESENCE_STATES == {"awake", "busy", "waking", "asleep"}

Init ==
    /\ MemoryInit
    /\ now = 0
    /\ presence = [m \in Members |-> DefaultPresence]
    /\ last_asleep_at = [m \in Members |-> None]
    /\ slept = [m \in Members |-> None]
    /\ calledAsleep = [m \in Members |-> None]

Memory ==
    /\ MemoryStep(now)
    /\ UNCHANGED <<now, presence, last_asleep_at, slept, calledAsleep>>

\* A Jetson reports what it saw, now or in a batch later.
HouseholdEvent(id, ts) ==
    /\ ts <= now
    /\ MemoryEvent(id, ts)
    /\ UNCHANGED <<now, presence, last_asleep_at, slept, calledAsleep>>

\* History: the sleep began when the member stopped being awake.
RememberSleep(m, p) ==
    /\ calledAsleep' = IF p = "asleep" THEN [calledAsleep EXCEPT ![m] = now] ELSE calledAsleep
    /\ slept' = IF p = "asleep" /\ presence[m] \in {"awake", "busy"}
                THEN [slept EXCEPT ![m] = now] ELSE slept

\* set_presence stamps every asleep report, the one of a load that failed
\* included.
SetPresence(m, p) ==
    /\ presence' = [presence EXCEPT ![m] = p]
    /\ last_asleep_at' = IF p = "asleep" THEN [last_asleep_at EXCEPT ![m] = now]
                         ELSE last_asleep_at
    /\ RememberSleep(m, p)
    /\ UNCHANGED <<memoryVars, now>>

Tick ==
    /\ now < MaxTime
    /\ now' = now + 1
    /\ UNCHANGED <<memoryVars, presence, last_asleep_at, slept, calledAsleep>>

Next ==
    \/ Memory
    \/ \E id \in Events, ts \in 0..now : HouseholdEvent(id, ts)
    \/ \E m \in Sleepers, p \in PRESENCE_STATES : SetPresence(m, p)
    \/ Tick

Spec == Init /\ [][Next]_vars

-----------------------------------------------------------------------------
SharedRows == {id \in Ids : Stored(id) /\ rows[id].scope = SHARED_SCOPE}

\* newest_first: ids of S are a prefix of S sorted by ts, newest first.
NewestFirst(S, limit) ==
    {T \in SUBSET S :
       /\ Cardinality(T) = IF Cardinality(S) < limit THEN Cardinality(S) ELSE limit
       /\ \A a \in T, b \in S \ T : rows[a].ts >= rows[b].ts}

\* get_where fetches FetchLimit of the shared rows, in no order.
Fetched == {F \in SUBSET SharedRows :
              Cardinality(F) = IF Cardinality(SharedRows) < FetchLimit
                               THEN Cardinality(SharedRows) ELSE FetchLimit}

\* What GET /memory/timeline may answer.
Timelines(limit) == UNION {NewestFirst(F, limit) : F \in Fetched}

Cutoff(m) == IF last_asleep_at[m] # None THEN last_asleep_at[m]
             ELSE IF now < Day THEN 0 ELSE now - Day

\* Mutant: an event at the instant of the sleep edge is left out.
AfterCutoff(m, T) == {id \in T : rows[id].ts > Cutoff(m)}

SinceCutoff(m, T) == {id \in T : rows[id].ts >= Cutoff(m)}

\* The events a briefing of m may hold.
Briefings(m) == UNION {NewestFirst(SinceCutoff(m, T), EventCap) : T \in Timelines(200)}

-----------------------------------------------------------------------------
FeedTypeOK ==
    /\ MemoryTypeOK
    /\ now \in 0..MaxTime
    /\ presence \in [Members -> PRESENCE_STATES]
    /\ {last_asleep_at, slept, calledAsleep} \subseteq [Members -> Nat \cup {None}]

\* While the shared rows fit the fetch, a briefing leaves out no row stamped
\* since its member was last reported asleep, unless it is at its cap with rows
\* at least as new: neither the timeline's limit nor the two sorts drop one.  A
\* row that carries an older ts than its arrival is not promised.
BriefingCoversLastReport ==
    \A m \in Members :
      (calledAsleep[m] # None /\ Cardinality(SharedRows) <= FetchLimit) =>
        \A B \in Briefings(m), id \in SharedRows :
          rows[id].ts >= calledAsleep[m] =>
            \/ id \in B
            \/ Cardinality(B) = EventCap /\ \A b \in B : rows[b].ts >= rows[id].ts

\* server.py:885, "windowed to the member's last sleep edge".
WindowIsSleepEdge ==
    \A m \in Members : slept[m] # None =>
      \A B \in Briefings(m) : \A id \in SharedRows : rows[id].ts >= slept[m] => id \in B
=============================================================================
