----------------------------- MODULE FamilyHub -----------------------------
(***************************************************************************)
(* The hub's request handlers (nodes/brainstem_4070/server.py) over its    *)
(* three stores: member chat, the legacy /generate, and the presence       *)
(* report with the inbox drain it runs.                                    *)
(*                                                                         *)
(* The endpoints are `def` functions, so each request runs in a thread of  *)
(* the server's pool and any two interleave wherever one is not inside a   *)
(* store's lock.  A handler is a process with a stage pc[h]; a stage ends  *)
(* at the next access to shared state.  What a step reads or writes of its *)
(* own (the prompt's system text, retrieval, timings) belongs to the stage *)
(* it falls in.  Retrieval and the briefing change no state and their      *)
(* failures are tolerated, so they are not stages.                         *)
(***************************************************************************)
EXTENDS FamilyState, HubSessions, EmbedderMemory, FiniteSets

CONSTANTS Generates,   \* requests to /generate
          ClientSid,   \* the X-Session-Id of each of them
          From,        \* From[x]: the person who sent request x
          Reporters,   \* who reports presence: the model manager, an operator
          Workers,     \* threads in the server's pool
          MaxCrashes,  \* bound: how often the hub process dies
          CortexFaults, \* may a cortex call fail, its retries included?
          LateWrites,  \* may the embedder store a row after its caller gave up?
          NoMember,
          NoText

ASSUME HubAssumption ==
    /\ Texts = Chats \cup Generates
    /\ Chats \cap Generates = {}
    /\ Texts \cap Reporters = {}
    /\ From \in [Texts -> Persons]
    /\ ClientSid \in [Generates -> ClientSids]
    \* /generate runs as family_registry.members[0]
    /\ \A g1, g2 \in Generates : To[g1] = To[g2]
    /\ Workers \in Nat \ {0}
    /\ MaxCrashes \in Nat
    /\ {CortexFaults, LateWrites} \subseteq BOOLEAN
    /\ NoMember \notin Members
    /\ NoText \notin Texts

VARIABLES pc,        \* the stage of each handler
          member,    \* _drain_inbox's member_id
          todo,      \* what is left of the drain's snapshot
          msg,       \* the request whose turn runs
          sid,       \* session_id
          carried,   \* a counter value held between two accesses: get_or_mint's
                     \* stored_turn_idx, then the argument of record_turn
          turn_idx,  \* _run_turn's turn_idx
          metrics,   \* the metric records of turns with memory_written
          crashes

localVars == <<pc, member, todo, msg, sid, carried, turn_idx>>

vars == <<familyVars, sessionVars, rows, localVars, metrics, crashes>>

Handlers == Texts \cup Reporters

\* Stages of a request that has an answer, or never will.
Ended == {"queued", "loading", "down", "answered", "failed", "lost"}

\* Stages at which no thread works on the request.
Resting == Ended \cup {"new", "idle"}

\* From session on, one turn of the pipeline.
TurnStages == {"session", "seedtest", "seed", "cortex", "write", "bump",
               "count", "record", "complete"}

Stages == Resting \cup {"enqueue", "snapshot", "next"} \cup TurnStages

WorkerFree == Cardinality({h \in Handlers : pc[h] \notin Resting}) < Workers

\* Mutant: one session for all who talk to the member.
PairOfMember(x) == <<CHOOSE p \in Persons : TRUE, To[x]>>

Pair(x) == <<From[x], To[x]>>

Init ==
    /\ FamilyInit
    /\ SessionsInit
    /\ rows = {}
    /\ pc = [h \in Handlers |-> IF h \in Reporters THEN "idle" ELSE "new"]
    /\ member = [h \in Handlers |-> NoMember]
    /\ todo = [h \in Handlers |-> {}]
    /\ msg = [h \in Handlers |-> IF h \in Texts THEN h ELSE NoText]
    /\ sid = [h \in Handlers |-> NoSid]
    /\ carried = [h \in Handlers |-> 0]
    /\ turn_idx = [h \in Handlers |-> 0]
    /\ metrics = {}
    /\ crashes = 0

-----------------------------------------------------------------------------
Goto(h, stage) == pc' = [pc EXCEPT ![h] = stage]

\* The handler's frame is gone.
Leave(h, stage) ==
    /\ Goto(h, stage)
    /\ member' = [member EXCEPT ![h] = NoMember]
    /\ todo' = [todo EXCEPT ![h] = {}]
    /\ msg' = [msg EXCEPT ![h] = IF h \in Texts THEN h ELSE NoText]
    /\ sid' = [sid EXCEPT ![h] = NoSid]
    /\ carried' = [carried EXCEPT ![h] = 0]
    /\ turn_idx' = [turn_idx EXCEPT ![h] = 0]

\* A turn that cannot go on: a request gets `stage`, a drain stops and the
\* presence request returns (or, for "failed", raises).
Abort(h, stage) == Leave(h, IF h \in Reporters THEN "idle" ELSE stage)

\* member_chat up to its branch on presence, which it reads without the lock.
\* A waking member gives the 503, member_loading.
ReadPresence(c) ==
    /\ pc[c] = "new" /\ WorkerFree
    /\ Goto(c, CASE presence[To[c]] = "waking" -> "loading"
                 [] presence[To[c]] \in {"asleep", "busy"} -> "enqueue"
                 [] OTHER -> "session")
    /\ UNCHANGED <<familyVars, sessionVars, rows, member, todo, msg, sid, carried,
                   turn_idx, metrics, crashes>>

\* The message is in the inbox; 202 goes out after.
EnqueueMessage(c) ==
    /\ pc[c] = "enqueue"
    /\ Enqueue(c)
    /\ Leave(c, "queued")
    /\ UNCHANGED <<sessionVars, rows, metrics, crashes>>

\* A client told to come back (503 with Retry-After) sends the prompt again.
Resend(x) ==
    /\ pc[x] \in {"loading", "down"}
    /\ Goto(x, "new")
    /\ UNCHANGED <<familyVars, sessionVars, rows, member, todo, msg, sid, carried,
                   turn_idx, metrics, crashes>>

\* /generate: the client's own session, no presence, no seeding.
Generate(g) ==
    /\ pc[g] = "new" /\ WorkerFree
    /\ Goto(g, "cortex")
    /\ sid' = [sid EXCEPT ![g] = ClientSid[g]]
    /\ UNCHANGED <<familyVars, sessionVars, rows, member, todo, msg, carried, turn_idx,
                   metrics, crashes>>

-----------------------------------------------------------------------------
\* member_presence: the report is recorded, and one that says awake goes on to
\* drain the inbox in the same request.
Report(r, m, state) ==
    /\ pc[r] = "idle" /\ WorkerFree
    /\ SetPresence(m, state)
    /\ IF state = "awake"
       THEN /\ Goto(r, "snapshot")
            /\ member' = [member EXCEPT ![r] = m]
       ELSE UNCHANGED <<pc, member>>
    /\ UNCHANGED <<sessionVars, rows, todo, msg, sid, carried, turn_idx, metrics, crashes>>

\* queued_now = family_state.queued_messages(member_id)
Snapshot(r) ==
    /\ pc[r] = "snapshot"
    /\ Goto(r, "next")
    /\ todo' = [todo EXCEPT ![r] = Queued(member[r])]
    /\ UNCHANGED <<familyVars, sessionVars, rows, member, msg, sid, carried, turn_idx,
                   metrics, crashes>>

\* Mutant: the loop takes the messages in no particular order.
NextOfAny(r) ==
    /\ pc[r] = "next"
    /\ \/ /\ todo[r] = {}
          /\ Leave(r, "idle")
       \/ \E c \in todo[r] :
            /\ Goto(r, "session")
            /\ msg' = [msg EXCEPT ![r] = c]
            /\ UNCHANGED <<member, todo, sid, carried, turn_idx>>
    /\ UNCHANGED <<familyVars, sessionVars, rows, metrics, crashes>>

\* for msg in queued_now: the oldest message of the snapshot is next.
NextMessage(r) ==
    /\ pc[r] = "next"
    /\ \/ /\ todo[r] = {}
          /\ Leave(r, "idle")
       \/ \E c \in todo[r] :
            /\ \A d \in todo[r] : inbox[c].seq <= inbox[d].seq
            /\ Goto(r, "session")
            /\ msg' = [msg EXCEPT ![r] = c]
            /\ UNCHANGED <<member, todo, sid, carried, turn_idx>>
    /\ UNCHANGED <<familyVars, sessionVars, rows, metrics, crashes>>

-----------------------------------------------------------------------------
\* _live_member_turn: get_or_mint on the sender's own pair.  A mint whose flush
\* raises ends the request with a 500.
OpenSession(h) ==
    /\ pc[h] = "session"
    /\ LET k == Pair(msg[h]) IN
       \/ /\ Known(k) \/ (\E s \in Sids : Mint(k, s))
          /\ Goto(h, "seedtest")
          /\ sid' = [sid EXCEPT ![h] = sessions'[k].sid]
          /\ carried' = [carried EXCEPT ![h] = sessions'[k].turn_idx]
          /\ UNCHANGED <<member, todo, msg, turn_idx>>
       \/ /\ \E s \in Sids : MintUnflushed(k, s)
          /\ Abort(h, "failed")
    /\ UNCHANGED <<familyVars, rows, metrics, crashes>>

\* if session_id not in _turn_idx_by_session
SeedTest(h) ==
    /\ pc[h] = "seedtest"
    /\ Goto(h, IF turn_idx_by_session[sid[h]] = Absent THEN "seed" ELSE "cortex")
    /\ UNCHANGED <<familyVars, sessionVars, rows, member, todo, msg, sid, carried,
                   turn_idx, metrics, crashes>>

Seed(h) ==
    /\ pc[h] = "seed"
    /\ SetCounter(sid[h], carried[h])
    /\ Goto(h, "cortex")
    /\ UNCHANGED <<familyVars, rows, member, todo, msg, sid, carried, turn_idx, metrics,
                   crashes>>

\* The cortex answers, after however long; then the turn's index is read.
CortexAnswers(h) ==
    /\ pc[h] = "cortex"
    /\ turn_idx' = [turn_idx EXCEPT ![h] = Counter(sid[h])]
    /\ SetCounter(sid[h], Counter(sid[h]))
    /\ Goto(h, "write")
    /\ UNCHANGED <<familyVars, rows, member, todo, msg, sid, carried, metrics, crashes>>

\* Mutant: the turn starts over while the cortex is down.
CortexRetried(h) ==
    /\ CortexFaults
    /\ pc[h] = "cortex"
    /\ SetCounter(sid[h], Counter(sid[h]))
    /\ Goto(h, IF h \in Generates THEN "cortex" ELSE "session")
    /\ UNCHANGED <<familyVars, rows, member, todo, msg, sid, carried, turn_idx,
                   metrics, crashes>>

\* CortexError after the retries: the structured 503; a drain stops here and
\* leaves the rest of its messages queued.
CortexDown(h) ==
    /\ CortexFaults
    /\ pc[h] = "cortex"
    /\ SetCounter(sid[h], Counter(sid[h]))
    /\ Abort(h, "down")
    /\ UNCHANGED <<familyVars, rows, metrics, crashes>>

\* After a turn: live and drained turns go on to record_turn, /generate returns.
AfterTurn(h) == IF h \in Generates THEN Leave(h, "answered")
                ELSE /\ Goto(h, "count")
                     /\ UNCHANGED <<member, todo, msg, sid, carried, turn_idx>>

\* embedder.memory_write, for the sender and the member of the message.
WriteTurn(h) ==
    MemoryWrite(sid[h], turn_idx[h], msg[h], From[msg[h]], To[msg[h]])

MemoryWritten(h) ==
    /\ pc[h] = "write"
    /\ WriteTurn(h)
    /\ Goto(h, "bump")
    /\ UNCHANGED <<familyVars, sessionVars, member, todo, msg, sid, carried, turn_idx,
                   metrics, crashes>>

\* Mutant: the counter moves on though nothing was written.
BumpedAnyway(h) ==
    /\ pc[h] = "write"
    /\ Goto(h, "bump")
    /\ UNCHANGED <<familyVars, sessionVars, rows, member, todo, msg, sid, carried,
                   turn_idx, metrics, crashes>>

\* EmbedderError: the turn stands, memory_written stays False.  On a timeout the
\* embedder may have stored the row all the same.
MemoryWriteFails(h) ==
    /\ pc[h] = "write"
    /\ \/ UNCHANGED rows
       \/ LateWrites /\ WriteTurn(h)
    /\ AfterTurn(h)
    /\ UNCHANGED <<familyVars, sessionVars, metrics, crashes>>

\* Mutant: the counter stays where it was.
CounterKept(h) ==
    /\ pc[h] = "bump"
    /\ SetCounter(sid[h], turn_idx[h])
    /\ metrics' = metrics \cup
         {[sid |-> sid[h], turn_idx |-> turn_idx[h], text |-> msg[h]]}
    /\ AfterTurn(h)
    /\ UNCHANGED <<familyVars, rows, crashes>>

\* memory_written = True, the counter moves on, the metric record goes out.
BumpCounter(h) ==
    /\ pc[h] = "bump"
    /\ SetCounter(sid[h], turn_idx[h] + 1)
    /\ metrics' = metrics \cup
         {[sid |-> sid[h], turn_idx |-> turn_idx[h], text |-> msg[h]]}
    /\ AfterTurn(h)
    /\ UNCHANGED <<familyVars, rows, crashes>>

\* The argument of record_turn is read before its lock is taken.
ReadCounter(h) ==
    /\ pc[h] = "count"
    /\ carried' = [carried EXCEPT ![h] = Counter(sid[h])]
    /\ Goto(h, "record")
    /\ UNCHANGED <<familyVars, sessionVars, rows, member, todo, msg, sid, turn_idx,
                   metrics, crashes>>

\* The live chat answers 200; the drain goes on to complete its message.
Record(h) ==
    /\ pc[h] = "record"
    /\ RecordTurn(Pair(msg[h]), carried[h])
    /\ IF h \in Reporters
       THEN /\ Goto(h, "complete")
            /\ UNCHANGED <<member, todo, msg, sid, carried, turn_idx>>
       ELSE Leave(h, "answered")
    /\ UNCHANGED <<familyVars, rows, metrics, crashes>>

\* The drain's frame between two messages.
TurnDone(r) ==
    /\ Goto(r, "next")
    /\ todo' = [todo EXCEPT ![r] = @ \ {msg[r]}]
    /\ msg' = [msg EXCEPT ![r] = NoText]
    /\ sid' = [sid EXCEPT ![r] = NoSid]
    /\ carried' = [carried EXCEPT ![r] = 0]
    /\ turn_idx' = [turn_idx EXCEPT ![r] = 0]

\* Mutant: the drain goes on without complete_message.
NotCompleted(r) ==
    /\ pc[r] = "complete"
    /\ TurnDone(r)
    /\ UNCHANGED <<familyVars, sessionVars, rows, member, metrics, crashes>>

\* complete_message, and on to the next one.
Complete(r) ==
    /\ pc[r] = "complete"
    /\ CompleteMessage(msg[r])
    /\ TurnDone(r)
    /\ UNCHANGED <<sessionVars, rows, member, metrics, crashes>>

-----------------------------------------------------------------------------
\* The hub process dies and a new one boots: what is not in a file is gone, and
\* so are the requests in flight.  Rows and metrics are outside the process.
Crash ==
    /\ crashes < MaxCrashes
    /\ crashes' = crashes + 1
    /\ FamilyRestart
    /\ SessionsRestart
    /\ pc' = [h \in Handlers |-> IF pc[h] \in Resting THEN pc[h]
                                 ELSE IF h \in Reporters THEN "idle" ELSE "lost"]
    /\ member' = [h \in Handlers |-> NoMember]
    /\ todo' = [h \in Handlers |-> {}]
    /\ msg' = [h \in Handlers |-> IF h \in Texts THEN h ELSE NoText]
    /\ sid' = [h \in Handlers |-> NoSid]
    /\ carried' = [h \in Handlers |-> 0]
    /\ turn_idx' = [h \in Handlers |-> 0]
    /\ UNCHANGED <<rows, metrics>>

\* One step of the turn pipeline, whoever runs it.
TurnStep(h) ==
    \/ OpenSession(h) \/ SeedTest(h) \/ Seed(h)
    \/ CortexAnswers(h) \/ CortexDown(h)
    \/ MemoryWritten(h) \/ MemoryWriteFails(h)
    \/ BumpCounter(h) \/ ReadCounter(h) \/ Record(h)

DrainStep(r) == Snapshot(r) \/ NextMessage(r) \/ Complete(r)

Next ==
    \/ \E c \in Chats : ReadPresence(c) \/ EnqueueMessage(c)
    \/ \E x \in Texts : Resend(x)
    \/ \E g \in Generates : Generate(g)
    \/ \E r \in Reporters, m \in Members, state \in PRESENCE_STATES : Report(r, m, state)
    \/ \E r \in Reporters : DrainStep(r)
    \/ \E h \in Handlers : TurnStep(h)
    \/ Crash

Spec == Init /\ [][Next]_vars

-----------------------------------------------------------------------------
(* Turn indexes are not protected by any lock, and hub_session_race and       *)
(* hub_turns_after_crash show what that costs.  ApartSpec is the hub without  *)
(* just these two events: turns of one session that overlap, and a death that *)
(* takes a counter not yet saved.  Turns of other sessions still interleave.  *)

\* h is numbering a turn of session sid[h].
Numbering(h) == pc[h] \in TurnStages \ {"session", "complete"}

TurnsApart ==
    \A h, g \in Handlers : Numbering(h) /\ Numbering(g) /\ sid[h] = sid[g] => h = g

\* No turn is between its memory and its counter, and each counter is in the
\* file of the pair it belongs to.
CountersSaved ==
    /\ \A h \in Handlers : pc[h] # "bump"
    /\ \A s \in Sids : Counter(s) > 0 =>
         \E k \in Pairs : session_store[k] = [sid |-> s, turn_idx |-> Counter(s)]

Apart ==
    /\ TurnsApart'
    /\ crashes' = crashes \/ CountersSaved

ApartSpec == Init /\ [][Next /\ Apart]_vars

-----------------------------------------------------------------------------
(* Fairness: the pool runs a thread that can move.  The cortex and embedder  *)
(* calls return or time out (config.py gives each a timeout), which is what  *)
(* weak fairness of the stage says of them; nothing is assumed of which      *)
(* outcome a call has, nor that anybody sends, resends or reports.           *)
HandlerFairness ==
    /\ \A c \in Chats : WF_vars(EnqueueMessage(c))
    /\ \A r \in Reporters : WF_vars(DrainStep(r))
    /\ \A h \in Handlers : WF_vars(TurnStep(h))

(* The member keeps waking up, and the cortex does not fail every drained    *)
(* turn: what test_inbox_drain.py calls "retried on the next wake".          *)
WakeFairness ==
    /\ \A m \in Members : SF_vars(\E r \in Reporters : Report(r, m, "awake"))
    /\ \A r \in Reporters : SF_vars(CortexAnswers(r))

FairSpec == Spec /\ HandlerFairness /\ WakeFairness

-----------------------------------------------------------------------------
MetricRecord == [sid : Sids, turn_idx : Nat, text : Texts]

Row == [sid : Sids, turn_idx : Nat, text : Texts, person : Persons, member : Members]

\* Type invariant of the hub's state: stores, handler frames, rows, metrics.
TypeOK ==
    /\ FamilyTypeOK
    /\ SessionsTypeOK
    /\ rows \subseteq Row
    /\ pc \in [Handlers -> Stages]
    /\ member \in [Handlers -> Members \cup {NoMember}]
    /\ todo \in [Handlers -> SUBSET Chats]
    /\ msg \in [Handlers -> Texts \cup {NoText}]
    /\ sid \in [Handlers -> Sids \cup {NoSid}]
    /\ carried \in [Handlers -> Nat]
    /\ turn_idx \in [Handlers -> Nat]
    /\ metrics \subseteq MetricRecord
    /\ crashes \in 0..MaxCrashes

\* Answered messages come before the ones still queued, of the same member.
AnsweredFirst(box) ==
    \A a, b \in Chats :
        /\ To[a] = To[b]
        /\ box[a].status = "queued"
        /\ box[b].status = "answered"
        => box[b].seq < box[a].seq

\* A member's messages are answered in arrival order, whatever drains overlap,
\* stop early or die, and the file agrees (Card 5: "drain in arrival order").
ArrivalOrder == AnsweredFirst(inbox) /\ AnsweredFirst(inbox_store)

\* A sender who got the 202 has a message in the file, so a restart finds it
\* (test_queued_messages_survive_restart; disk faults aside).
CustodyIsDurable ==
    \A c \in Chats : pc[c] = "queued" => inbox_store[c].status # "absent"

\* The inbox keeps the promise of Custody: what it holds is never dropped,
\* reordered or un-answered, by any handler or by a crash (disk faults aside).
TheCustody == INSTANCE Custody WITH
    arrival <- [c \in Chats |-> inbox[c].seq],
    answered <- {c \in Chats : inbox[c].status = "answered"}
CustodySpec == TheCustody!Spec

\* "Custody, not memory": a message that is still queued has no row in any
\* scope, unless the drain that is answering it has just written its turn (or
\* a crash took that drain before it could complete the message).
CustodyIsNotMemory ==
    crashes = 0 =>
        \A row \in rows :
            row.text \in Chats /\ inbox[row.text].status = "queued" =>
                \E r \in Reporters :
                    /\ msg[r] = row.text
                    /\ pc[r] \in {"bump", "count", "record", "complete"}

\* Every turn index below n has a row in session s.
RowsBelow(s, n) == \A i \in 0..(n - 1) : \E row \in rows : row.sid = s /\ row.turn_idx = i

\* The turn counter of a session, in memory or in the file, never runs ahead of
\* what the embedder holds: the numbers below it name rows, without a gap.
CounterBehindMemory ==
    /\ \A s \in Sids : RowsBelow(s, Counter(s))
    /\ \A k \in Pairs :
         /\ RowsBelow(sessions[k].sid, sessions[k].turn_idx)
         /\ RowsBelow(session_store[k].sid, session_store[k].turn_idx)

\* A turn is remembered under the person who sent it and the member who
\* answered it, whoever's request ran it: a session of the hub holds one pair's
\* turns only, drained ones included.
SessionIsPrivate ==
    \A row \in rows :
        /\ row.person = From[row.text] /\ row.member = To[row.text]
        /\ \A k \in Pairs : sessions[k].sid = row.sid => k = <<row.person, row.member>>

\* A reply that says memory_written means the turn's own text is in memory.
ClaimedMemoryIsKept ==
    \A a \in metrics : \E row \in rows :
        row.sid = a.sid /\ row.turn_idx = a.turn_idx /\ row.text = a.text

\* No two turns of a session report the same turn_idx
\* (docs/manual_integration_test_plan.md, G4: "no duplicate idx").
NoDuplicateTurnIdx ==
    \A a, b \in metrics : a.sid = b.sid /\ a.turn_idx = b.turn_idx => a = b

\* A message is answered once: complete_message marks "a queued message" (its
\* docstring), so it never replaces a reply that the sender may have read.
AnsweredOnce ==
    [][\A r \in Reporters : Complete(r) => inbox[msg[r]].status = "queued"]_vars

\* Once every request has its answer, a member who is awake has no mail
\* waiting, provided the cortex served every turn (presence handler: "waking up
\* means answering what accumulated while asleep").
NoStrandedMessage ==
    (\A h \in Handlers : pc[h] \in Ended \cup {"idle"}) =>
        \A c \in Chats : inbox[c].status = "queued" => presence[To[c]] # "awake"

\* Every request gets an answer: no handler runs for ever, however many
\* messages its drain has taken on ("never a hang").
HandlersFinish == \A h \in Handlers : pc[h] \notin Resting ~> pc[h] \in Resting

\* A queued message is answered in the end if the member keeps waking.
QueuedIsAnswered ==
    \A c \in Chats : inbox[c].status = "queued" ~> inbox[c].status = "answered"
=============================================================================
