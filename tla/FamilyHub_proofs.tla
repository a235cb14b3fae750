-------------------------- MODULE FamilyHub_proofs --------------------------
(***************************************************************************)
(* Proofs about the hub: its type invariant, the order in which an inbox   *)
(* is answered, and that the inbox implements Custody.                     *)
(***************************************************************************)
EXTENDS FamilyHub, TLAPS

\* What a handler's frame holds at each stage of a turn.
TurnFrames ==
    /\ \A x \in Texts : msg[x] = x
    /\ \A h \in Handlers :
         pc[h] \in TurnStages =>
            /\ msg[h] \in Texts
            /\ pc[h] # "session" => sid[h] \in Sids

\* The handlers' part of TypeOK, and TurnFrames.
FramesOK ==
    /\ pc \in [Handlers -> Stages]
    /\ member \in [Handlers -> Members \cup {NoMember}]
    /\ todo \in [Handlers -> SUBSET Chats]
    /\ msg \in [Handlers -> Texts \cup {NoText}]
    /\ sid \in [Handlers -> Sids \cup {NoSid}]
    /\ carried \in [Handlers -> Nat]
    /\ turn_idx \in [Handlers -> Nat]
    /\ TurnFrames

\* What is outside the hub process, and the bound on crashes.
OutsideOK ==
    /\ rows \subseteq Row
    /\ metrics \subseteq MetricRecord
    /\ crashes \in 0..MaxCrashes

TypeInv == FamilyTypeOK /\ SessionsTypeOK /\ FramesOK /\ OutsideOK

-----------------------------------------------------------------------------
(* The operators the handlers are built from keep the types of what they write. *)

LEMMA LeaveFrames ==
    ASSUME FramesOK, NEW h \in Handlers, NEW stage \in Resting, Leave(h, stage)
    PROVE  FramesOK'
  BY DEF FramesOK, TurnFrames, Leave, Goto, Stages, Resting, Ended, TurnStages, Handlers

LEMMA AbortFrames ==
    ASSUME FramesOK, NEW h \in Handlers, NEW stage \in Resting, Abort(h, stage)
    PROVE  FramesOK'
<1>1. (IF h \in Reporters THEN "idle" ELSE stage) \in Resting
  BY DEF Resting
<1>2. QED  BY <1>1, LeaveFrames DEF Abort

\* A step to another stage of the turn.
LEMMA GotoFrames ==
    ASSUME FramesOK, NEW h \in Handlers, NEW stage \in TurnStages, Goto(h, stage),
           msg[h] \in Texts, sid[h] \in Sids,
           UNCHANGED <<member, todo, msg, sid>>,
           carried' \in [Handlers -> Nat], turn_idx' \in [Handlers -> Nat]
    PROVE  FramesOK'
  BY DEF FramesOK, TurnFrames, Goto, Stages

LEMMA AfterTurnFrames ==
    ASSUME FramesOK, NEW h \in Handlers, pc[h] \in TurnStages \ {"session"}, AfterTurn(h)
    PROVE  FramesOK'
<1>1. CASE h \in Generates
  BY <1>1, LeaveFrames DEF AfterTurn, Resting, Ended
<1>2. CASE h \notin Generates
  BY <1>2, GotoFrames DEF AfterTurn, FramesOK, TurnFrames, TurnStages
<1>3. QED  BY <1>1, <1>2

LEMMA CounterType ==
    ASSUME SessionsTypeOK, NEW s \in Sids
    PROVE  Counter(s) \in Nat
  BY DEF SessionsTypeOK, Counter, Absent

LEMMA SetCounterType ==
    ASSUME SessionsTypeOK, NEW s \in Sids, NEW n \in Nat, SetCounter(s, n)
    PROVE  SessionsTypeOK'
  BY DEF SessionsTypeOK, SetCounter, Session, Pairs

LEMMA FlushType ==
    ASSUME FamilyTypeOK, NEW new \in [Chats -> Message], FlushLocked(new)
    PROVE  inbox' \in [Chats -> Message] /\ inbox_store' \in [Chats -> Message]
  BY DEF FamilyTypeOK, FlushLocked

LEMMA PairType ==
    ASSUME NEW x \in Texts
    PROVE  Pair(x) \in Pairs
  BY FamilyAssumption, HubAssumption DEF Pair, Pairs

LEMMA WriteTurnType ==
    ASSUME FramesOK, OutsideOK, NEW h \in Handlers,
           pc[h] \in TurnStages \ {"session"}, WriteTurn(h)
    PROVE  rows' \subseteq Row
<1>1. msg[h] \in Texts /\ sid[h] \in Sids /\ turn_idx[h] \in Nat
  BY DEF FramesOK, TurnFrames
<1>2. From[msg[h]] \in Persons /\ To[msg[h]] \in Members
  BY <1>1, FamilyAssumption, HubAssumption
<1>3. TurnRow(sid[h], turn_idx[h], msg[h], From[msg[h]], To[msg[h]]) \in Row
  BY <1>1, <1>2 DEF TurnRow, Row
<1>4. QED
  BY <1>3 DEF WriteTurn, MemoryWrite, AddRow, OutsideOK

-----------------------------------------------------------------------------
(* Type correctness. *)

LEMMA TypeInit == Init => TypeInv
<1> SUFFICES ASSUME Init PROVE TypeInv
  OBVIOUS
<1> USE DEF Init
<1>1. FamilyTypeOK
  BY FamilyAssumption DEF FamilyInit, FamilyTypeOK, Message, NoMessage
<1>2. SessionsTypeOK
  BY SessionAssumption DEF SessionsInit, SessionsTypeOK, Session, Unminted, Absent, Pairs
<1>3. FramesOK
  BY DEF FramesOK, TurnFrames, Handlers, Stages, Resting, Ended, TurnStages
<1>4. OutsideOK
  BY HubAssumption DEF OutsideOK
<1>5. QED  BY <1>1, <1>2, <1>3, <1>4 DEF TypeInv

LEMMA TypeStep == TypeInv /\ [Next]_vars => TypeInv'
<1> SUFFICES ASSUME TypeInv, [Next]_vars PROVE TypeInv'
  OBVIOUS
<1> USE DEF TypeInv
<1>0. ASSUME UNCHANGED familyVars PROVE FamilyTypeOK'
  BY <1>0 DEF familyVars, FamilyTypeOK
<1>s. ASSUME UNCHANGED sessionVars PROVE SessionsTypeOK'
  BY <1>s DEF sessionVars, SessionsTypeOK
<1>o. ASSUME UNCHANGED <<rows, metrics, crashes>> PROVE OutsideOK'
  BY <1>o DEF OutsideOK
<1>a. Texts \subseteq Handlers /\ Chats \subseteq Texts /\ Reporters \subseteq Handlers
  BY FamilyAssumption DEF Handlers
<1>1. ASSUME NEW c \in Chats, ReadPresence(c) PROVE TypeInv'
  <2>1. FramesOK'
    BY <1>1, <1>a DEF ReadPresence, Goto, FramesOK, TurnFrames, Stages, Resting, Ended,
                      TurnStages
  <2>2. QED  BY <1>1, <2>1, <1>0, <1>s, <1>o DEF ReadPresence
<1>2. ASSUME NEW c \in Chats, EnqueueMessage(c) PROVE TypeInv'
  <2>1. FramesOK'
    BY <1>2, <1>a, LeaveFrames DEF EnqueueMessage, Resting, Ended
  <2> DEFINE new == [inbox EXCEPT ![c] = [status |-> "queued", seq |-> arrivals + 1]]
  <2>2. new \in [Chats -> Message]
    BY DEF FamilyTypeOK, Message
  <2>f. FlushLocked(new) /\ arrivals' = arrivals + 1 /\ presence' = presence
    BY <1>2 DEF EnqueueMessage, Enqueue
  <2> HIDE DEF new
  <2>3. FamilyTypeOK'
    BY <2>2, <2>f, FlushType DEF FamilyTypeOK
  <2>4. QED  BY <1>2, <2>1, <2>3, <1>s, <1>o DEF EnqueueMessage
<1>3. ASSUME NEW x \in Texts, Resend(x) PROVE TypeInv'
  <2>1. FramesOK'
    BY <1>3, <1>a DEF Resend, Goto, FramesOK, TurnFrames, Stages, Resting, Ended, TurnStages
  <2>2. QED  BY <1>3, <2>1, <1>0, <1>s, <1>o DEF Resend
<1>4. ASSUME NEW g \in Generates, Generate(g) PROVE TypeInv'
  <2>1. g \in Handlers /\ g \in Texts /\ ClientSid[g] \in Sids
    BY HubAssumption, SessionAssumption DEF Handlers
  <2>2. FramesOK'
    BY <1>4, <2>1 DEF Generate, Goto, FramesOK, TurnFrames, Stages, TurnStages
  <2>3. QED  BY <1>4, <2>2, <1>0, <1>s, <1>o DEF Generate
<1>5. ASSUME NEW r \in Reporters, NEW m \in Members, NEW state \in PRESENCE_STATES,
             Report(r, m, state)
      PROVE TypeInv'
  <2>1. FamilyTypeOK'
    BY <1>5, FlushType DEF Report, SetPresence, FamilyTypeOK
  <2>2. FramesOK'
    BY <1>5, <1>a DEF Report, Goto, FramesOK, TurnFrames, Stages, TurnStages
  <2>3. QED  BY <1>5, <2>1, <2>2, <1>s, <1>o DEF Report
<1>6. ASSUME NEW r \in Reporters, Snapshot(r) PROVE TypeInv'
  <2>1. Queued(member[r]) \in SUBSET Chats
    BY DEF Queued
  <2>2. FramesOK'
    BY <1>6, <1>a, <2>1 DEF Snapshot, Goto, FramesOK, TurnFrames, Stages, TurnStages
  <2>3. QED  BY <1>6, <2>2, <1>0, <1>s, <1>o DEF Snapshot
<1>7. ASSUME NEW r \in Reporters, NextMessage(r) PROVE TypeInv'
  <2>1. ASSUME Leave(r, "idle") PROVE FramesOK'
    BY <2>1, <1>a, LeaveFrames DEF Resting
  <2>2. ASSUME NEW c \in todo[r], Goto(r, "session"), msg' = [msg EXCEPT ![r] = c],
               UNCHANGED <<member, todo, sid, carried, turn_idx>>
        PROVE  FramesOK'
    <3>1. c \in Texts /\ r \in Handlers /\ r \notin Texts
      BY <1>a, HubAssumption DEF FramesOK
    <3>2. QED  BY <2>2, <3>1 DEF Goto, FramesOK, TurnFrames, Stages, TurnStages
  <2>3. FramesOK'
    BY <1>7, <2>1, <2>2 DEF NextMessage
  <2>4. QED  BY <1>7, <2>3, <1>0, <1>s, <1>o DEF NextMessage
<1>8. ASSUME NEW r \in Reporters, Complete(r) PROVE TypeInv'
  <2>1. FramesOK'
    BY <1>8, <1>a, HubAssumption DEF Complete, TurnDone, Goto, FramesOK, TurnFrames, Stages,
                                     TurnStages
  <2>2. [inbox EXCEPT ![msg[r]].status = "answered"] \in [Chats -> Message]
    BY DEF FamilyTypeOK, Message
  <2>3. FamilyTypeOK'
    BY <1>8, <2>2, FlushType DEF Complete, CompleteMessage, FamilyTypeOK
  <2>4. QED  BY <1>8, <2>1, <2>3, <1>s, <1>o DEF Complete
<1>9. ASSUME NEW h \in Handlers, TurnStep(h) PROVE TypeInv'
  <2>t. ASSUME pc[h] \in TurnStages
        PROVE  msg[h] \in Texts /\ (pc[h] # "session" => sid[h] \in Sids)
    BY <2>t DEF FramesOK, TurnFrames
  <2>1. ASSUME OpenSession(h) PROVE TypeInv'
    <3> DEFINE k == Pair(msg[h])
    <3>k. k \in Pairs
      BY <2>1, <2>t, PairType DEF OpenSession, TurnStages
    <3>1. ASSUME Known(k) \/ (\E s \in Sids : Mint(k, s))
          PROVE  SessionsTypeOK' /\ sessions'[k].sid \in Sids /\ sessions'[k].turn_idx \in Nat
      <4>1. CASE Known(k)
        BY <4>1, <3>k, <1>s DEF Known, sessionVars, SessionsTypeOK, Session
      <4>2. ASSUME NEW s \in Sids, Mint(k, s)
            PROVE  SessionsTypeOK' /\ sessions'[k].sid \in Sids /\ sessions'[k].turn_idx \in Nat
        BY <4>2, <3>k DEF Mint, SessionsTypeOK, Session
      <4>3. QED  BY <3>1, <4>1, <4>2
    <3>2. ASSUME NEW s \in Sids, MintUnflushed(k, s) PROVE SessionsTypeOK'
      BY <3>2, <3>k DEF MintUnflushed, SessionsTypeOK, Session
    <3>3. SessionsTypeOK'
      BY <2>1, <3>1, <3>2 DEF OpenSession
    <3>4. CASE /\ Known(k) \/ (\E s \in Sids : Mint(k, s))
               /\ Goto(h, "seedtest")
               /\ sid' = [sid EXCEPT ![h] = sessions'[k].sid]
               /\ carried' = [carried EXCEPT ![h] = sessions'[k].turn_idx]
               /\ UNCHANGED <<member, todo, msg, turn_idx>>
      <4>1. sessions'[k].sid \in Sids /\ sessions'[k].turn_idx \in Nat /\ msg[h] \in Texts
        BY <3>4, <3>1, <2>1, <2>t DEF OpenSession, TurnStages
      <4>2. FramesOK'
        BY <3>4, <4>1 DEF Goto, FramesOK, TurnFrames, Stages, TurnStages
      <4>3. QED  BY <4>2, <3>3, <2>1, <1>0, <1>o DEF OpenSession
    <3>5. CASE (\E s \in Sids : MintUnflushed(k, s)) /\ Abort(h, "failed")
      <4>1. FramesOK'
        BY <3>5, AbortFrames DEF Resting, Ended
      <4>2. QED  BY <4>1, <3>3, <2>1, <1>0, <1>o DEF OpenSession
    <3>6. QED  BY <2>1, <3>4, <3>5 DEF OpenSession
  <2>2. ASSUME SeedTest(h) PROVE TypeInv'
    <3>1. FramesOK'
      BY <2>2, <2>t DEF SeedTest, Goto, FramesOK, TurnFrames, Stages, TurnStages
    <3>2. QED  BY <2>2, <3>1, <1>0, <1>s, <1>o DEF SeedTest
  <2>3. ASSUME Seed(h) PROVE TypeInv'
    <3>1. SessionsTypeOK'
      BY <2>3, <2>t, SetCounterType DEF Seed, FramesOK, TurnStages
    <3>2. FramesOK'
      BY <2>3, <2>t, GotoFrames DEF Seed, FramesOK, TurnStages
    <3>3. QED  BY <2>3, <3>1, <3>2, <1>0, <1>o DEF Seed
  <2>4. ASSUME CortexAnswers(h) PROVE TypeInv'
    <3>1. msg[h] \in Texts /\ sid[h] \in Sids /\ Counter(sid[h]) \in Nat
      BY <2>4, <2>t, CounterType DEF CortexAnswers, TurnStages
    <3>2. SessionsTypeOK'
      BY <2>4, <3>1, SetCounterType DEF CortexAnswers
    <3>3. FramesOK'
      BY <2>4, <3>1, GotoFrames DEF CortexAnswers, FramesOK, TurnStages
    <3>4. QED  BY <2>4, <3>2, <3>3, <1>0, <1>o DEF CortexAnswers
  <2>5. ASSUME CortexDown(h) PROVE TypeInv'
    <3>1. sid[h] \in Sids /\ Counter(sid[h]) \in Nat
      BY <2>5, <2>t, CounterType DEF CortexDown, TurnStages
    <3>2. SessionsTypeOK' /\ FramesOK'
      BY <2>5, <3>1, SetCounterType, AbortFrames DEF CortexDown, Resting, Ended
    <3>3. QED  BY <2>5, <3>2, <1>0, <1>o DEF CortexDown
  <2>6. ASSUME MemoryWritten(h) PROVE TypeInv'
    <3>1. OutsideOK'
      BY <2>6, WriteTurnType DEF MemoryWritten, TurnStages, OutsideOK
    <3>2. FramesOK'
      BY <2>6, <2>t, GotoFrames DEF MemoryWritten, FramesOK, TurnStages
    <3>3. QED  BY <2>6, <3>1, <3>2, <1>0, <1>s DEF MemoryWritten
  <2>7. ASSUME MemoryWriteFails(h) PROVE TypeInv'
    <3>1. OutsideOK'
      BY <2>7, WriteTurnType DEF MemoryWriteFails, TurnStages, OutsideOK
    <3>2. FramesOK'
      BY <2>7, AfterTurnFrames DEF MemoryWriteFails, TurnStages
    <3>3. QED  BY <2>7, <3>1, <3>2, <1>0, <1>s DEF MemoryWriteFails
  <2>8. ASSUME BumpCounter(h) PROVE TypeInv'
    <3>1. msg[h] \in Texts /\ sid[h] \in Sids /\ turn_idx[h] \in Nat
      BY <2>8, <2>t DEF BumpCounter, TurnStages, FramesOK
    <3>2. SessionsTypeOK'
      BY <2>8, <3>1, SetCounterType DEF BumpCounter
    <3>3. FramesOK'
      BY <2>8, AfterTurnFrames DEF BumpCounter, TurnStages
    <3>4. OutsideOK'
      BY <2>8, <3>1 DEF BumpCounter, OutsideOK, MetricRecord
    <3>5. QED  BY <2>8, <3>2, <3>3, <3>4, <1>0 DEF BumpCounter
  <2>9. ASSUME ReadCounter(h) PROVE TypeInv'
    <3>1. sid[h] \in Sids /\ msg[h] \in Texts /\ Counter(sid[h]) \in Nat
      BY <2>9, <2>t, CounterType DEF ReadCounter, TurnStages
    <3>2. FramesOK'
      BY <2>9, <3>1, GotoFrames DEF ReadCounter, FramesOK, TurnStages
    <3>3. QED  BY <2>9, <3>2, <1>0, <1>s, <1>o DEF ReadCounter
  <2>10. ASSUME Record(h) PROVE TypeInv'
    <3>1. msg[h] \in Texts /\ sid[h] \in Sids /\ Pair(msg[h]) \in Pairs /\ carried[h] \in Nat
      BY <2>10, <2>t, PairType DEF Record, TurnStages, FramesOK
    <3>2. SessionsTypeOK'
      BY <2>10, <3>1 DEF Record, RecordTurn, SessionsTypeOK, Session
    <3>3. FramesOK'
      <4>1. CASE h \in Reporters
        BY <2>10, <4>1, <3>1, GotoFrames DEF Record, FramesOK, TurnStages
      <4>2. CASE h \notin Reporters
        BY <2>10, <4>2, LeaveFrames DEF Record, Resting, Ended
      <4>3. QED  BY <4>1, <4>2
    <3>4. QED  BY <2>10, <3>2, <3>3, <1>0, <1>o DEF Record
  <2>11. QED
    BY <1>9, <2>1, <2>2, <2>3, <2>4, <2>5, <2>6, <2>7, <2>8, <2>9, <2>10 DEF TurnStep
<1>10. ASSUME Crash PROVE TypeInv'
  <2>1. FamilyTypeOK'
    BY <1>10, FamilyAssumption DEF Crash, FamilyRestart, FamilyTypeOK, NoMessage, Message
  <2>2. SessionsTypeOK'
    BY <1>10 DEF Crash, SessionsRestart, SessionsTypeOK, Unminted, Session
  <2>3. FramesOK'
    BY <1>10 DEF Crash, FramesOK, TurnFrames, Handlers, Stages, Resting, Ended, TurnStages
  <2>4. OutsideOK'
    BY <1>10, HubAssumption DEF Crash, OutsideOK
  <2>5. QED  BY <2>1, <2>2, <2>3, <2>4
<1>11. CASE UNCHANGED vars
  BY <1>11, <1>0, <1>s, <1>o DEF vars, localVars, FramesOK, TurnFrames
<1>12. QED
  BY <1>1, <1>2, <1>3, <1>4, <1>5, <1>6, <1>7, <1>8, <1>9, <1>10, <1>11 DEF Next, DrainStep

\* The hub's state keeps its types, through every interleaving of the handlers
\* and every crash.
THEOREM TypeCorrect == Spec => []TypeOK
<1>1. TypeInv => TypeOK
  BY DEF TypeInv, TypeOK, FramesOK, OutsideOK
<1>2. QED
  BY <1>1, TypeInit, TypeStep, PTL DEF Spec

-----------------------------------------------------------------------------
(* The order of answers.  ArrivalOrder speaks of the two boxes only; that the *)
(* next answer keeps it depends on the snapshots the drains hold.             *)

\* What holds of the inbox, and of its file, when n messages have arrived and the
\* senders are at the stages `at`: numbers are arrival numbers, no two alike, and a
\* message is there only if its sender was told so.
BoxOK(box, n, at) ==
    /\ \A c \in Chats :
         /\ box[c].seq <= n
         /\ box[c].status = "absent" <=> box[c].seq = 0
         /\ box[c].status # "absent" => at[c] = "queued"
    /\ \A c, d \in Chats :
         c # d /\ box[c].seq = box[d].seq => box[c].status = "absent"
    /\ AnsweredFirst(box)

\* What holds of a drain's snapshot: it is closed under older queued messages,
\* and the message whose turn runs is its oldest.
DrainOK(r) ==
    /\ pc[r] = "idle" => todo[r] = {}
    /\ \A c \in todo[r] : To[c] = member[r] /\ inbox[c].status # "absent"
    /\ \A c \in Chats, d \in todo[r] :
         /\ To[c] = member[r]
         /\ inbox[c].status = "queued"
         /\ inbox[c].seq < inbox[d].seq
         => c \in todo[r]
    /\ pc[r] \in TurnStages =>
         /\ msg[r] \in todo[r]
         /\ \A d \in todo[r] : inbox[msg[r]].seq <= inbox[d].seq

BoxesOK == BoxOK(inbox, arrivals, pc) /\ BoxOK(inbox_store, arrivals, pc)

OrderInv == BoxesOK /\ \A r \in Reporters : DrainOK(r)

\* A handler's step leaves the frames of the others alone.
OwnFrame(h) ==
    \A g \in Handlers \ {h} :
        /\ pc'[g] = pc[g]
        /\ member'[g] = member[g]
        /\ todo'[g] = todo[g]
        /\ msg'[g] = msg[g]

LEMMA BoxLater ==
    ASSUME NEW box \in [Chats -> Message], NEW n \in Nat, NEW n2 \in Nat, NEW at, NEW at2,
           BoxOK(box, n, at), n <= n2,
           \A c \in Chats : at[c] = "queued" => at2[c] = "queued"
    PROVE  BoxOK(box, n2, at2)
  BY DEF BoxOK, Message

LEMMA LeaveOwnFrame ==
    ASSUME FramesOK, NEW h \in Handlers, NEW stage, Leave(h, stage)
    PROVE  OwnFrame(h)
  BY DEF FramesOK, Leave, Goto, OwnFrame

\* A turn touches neither box; its frame stays in the turn with the same message,
\* or is gone.
LEMMA TurnStepShape ==
    ASSUME TypeInv, NEW h \in Handlers, TurnStep(h)
    PROVE  /\ UNCHANGED familyVars
           /\ pc[h] \in TurnStages
           /\ OwnFrame(h)
           /\ \/ pc'[h] \in TurnStages /\ UNCHANGED <<member, todo, msg>>
              \/ h \in Reporters /\ Leave(h, "idle")
              \/ h \notin Reporters
<1> USE DEF TypeInv
<1>g. ASSUME NEW stage \in TurnStages, Goto(h, stage), UNCHANGED <<member, todo, msg>>
      PROVE  OwnFrame(h) /\ pc'[h] \in TurnStages
  BY <1>g DEF FramesOK, Goto, OwnFrame
<1>a. ASSUME NEW stage, Abort(h, stage)
      PROVE  OwnFrame(h) /\ (h \in Reporters => Leave(h, "idle"))
  BY <1>a, LeaveOwnFrame DEF Abort
<1>t. ASSUME AfterTurn(h)
      PROVE  /\ OwnFrame(h)
             /\ h \in Reporters => pc'[h] \in TurnStages /\ UNCHANGED <<member, todo, msg>>
  <2>1. CASE h \in Generates
    BY <1>t, <2>1, LeaveOwnFrame, HubAssumption DEF AfterTurn
  <2>2. CASE h \notin Generates
    BY <1>t, <2>2, <1>g DEF AfterTurn, TurnStages
  <2>3. QED  BY <2>1, <2>2
<1>1. CASE OpenSession(h)
  BY <1>1, <1>g, <1>a DEF OpenSession, TurnStages
<1>2. CASE SeedTest(h)
  BY <1>2, <1>g DEF SeedTest, TurnStages
<1>3. CASE Seed(h)
  BY <1>3, <1>g DEF Seed, TurnStages
<1>4. CASE CortexAnswers(h)
  BY <1>4, <1>g DEF CortexAnswers, TurnStages
<1>5. CASE CortexDown(h)
  BY <1>5, <1>a DEF CortexDown, TurnStages
<1>6. CASE MemoryWritten(h)
  BY <1>6, <1>g DEF MemoryWritten, TurnStages
<1>7. CASE MemoryWriteFails(h)
  BY <1>7, <1>t DEF MemoryWriteFails, TurnStages
<1>8. CASE BumpCounter(h)
  BY <1>8, <1>t DEF BumpCounter, TurnStages
<1>9. CASE ReadCounter(h)
  BY <1>9, <1>g DEF ReadCounter, TurnStages
<1>10. CASE Record(h)
  BY <1>10, <1>g, LeaveOwnFrame DEF Record, TurnStages
<1>11. QED
  BY <1>1, <1>2, <1>3, <1>4, <1>5, <1>6, <1>7, <1>8, <1>9, <1>10 DEF TurnStep

LEMMA OrderInit == Init => OrderInv
  BY DEF Init, FamilyInit, NoMessage, OrderInv, BoxesOK, BoxOK, AnsweredFirst, DrainOK,
         Handlers, TurnStages

\* Steps that leave the boxes as they are.
LEMMA BoxesKept ==
    ASSUME TypeInv, BoxesOK, UNCHANGED <<inbox, inbox_store, arrivals>>,
           \A c \in Chats : pc[c] = "queued" => pc'[c] = "queued"
    PROVE  BoxesOK'
  BY BoxLater DEF BoxesOK, TypeInv, FamilyTypeOK

\* A flush of a map that is in order leaves both boxes in order.
LEMMA BoxesFlushed ==
    ASSUME TypeInv, BoxesOK, NEW new, FlushLocked(new),
           BoxOK(new, arrivals', pc'),
           arrivals' \in Nat, arrivals <= arrivals',
           \A c \in Chats : pc[c] = "queued" => pc'[c] = "queued"
    PROVE  BoxesOK'
<1>1. BoxOK(inbox_store, arrivals', pc')
  BY BoxLater DEF BoxesOK, TypeInv, FamilyTypeOK
<1>2. QED  BY <1>1 DEF FlushLocked, BoxesOK

\* A snapshot stays in order while messages only arrive or get answered.
LEMMA OthersDrainOK ==
    ASSUME TypeInv, TypeInv', BoxesOK, NEW h \in Handlers, OwnFrame(h),
           NEW r \in Reporters, r # h, DrainOK(r),
           \A c \in Chats : inbox[c].status # "absent" =>
               /\ inbox'[c].status # "absent"
               /\ inbox'[c].seq = inbox[c].seq
               /\ inbox'[c].status = "queued" => inbox[c].status = "queued",
           \A c, d \in Chats :
               /\ inbox[c].status = "absent" /\ inbox'[c].status = "queued"
               /\ inbox[d].status # "absent"
               => inbox[d].seq < inbox'[c].seq
    PROVE  DrainOK(r)'
<1>1. r \in Handlers /\ todo[r] \subseteq Chats
  BY DEF TypeInv, FramesOK, Handlers
<1>2. /\ pc'[r] = pc[r] /\ member'[r] = member[r]
      /\ todo'[r] = todo[r] /\ msg'[r] = msg[r]
  BY <1>1 DEF OwnFrame
<1>3. \A d \in todo[r] : inbox[d].status # "absent" /\ inbox'[d].seq = inbox[d].seq
  BY <1>1 DEF DrainOK
<1>4. ASSUME NEW c \in Chats, NEW d \in todo[r],
             To[c] = member[r], inbox'[c].status = "queued", inbox'[c].seq < inbox[d].seq
      PROVE  c \in todo[r]
  <2>1. inbox[c].status # "absent"
    <3> SUFFICES ASSUME inbox[c].status = "absent" PROVE FALSE
      OBVIOUS
    <3>1. inbox[d].seq < inbox'[c].seq
      BY <1>1, <1>3, <1>4
    <3>2. inbox[d].seq \in Nat /\ inbox[c].seq \in Nat
      BY <1>1 DEF TypeInv, FamilyTypeOK, Message
    <3>3. inbox'[c].seq \in Nat
      BY DEF TypeInv, FamilyTypeOK, Message
    <3>4. QED  BY <3>1, <3>2, <3>3, <1>4
  <2>2. QED  BY <2>1, <1>4 DEF DrainOK
<1>5. QED
  BY <1>1, <1>2, <1>3, <1>4 DEF DrainOK

\* What a drain completes is older than all that its member has queued.
LEMMA CompletesOldest ==
    ASSUME TypeInv, OrderInv, NEW r \in Reporters, pc[r] = "complete"
    PROVE  /\ msg[r] \in Chats
           /\ inbox[msg[r]].status # "absent"
           /\ \A d \in Chats :
                To[d] = To[msg[r]] /\ d # msg[r] /\ inbox[d].status = "queued"
                    => inbox[msg[r]].seq < inbox[d].seq
<1> DEFINE c == msg[r]
<1>1. /\ c \in todo[r] /\ c \in Chats /\ todo[r] \subseteq Chats
      /\ To[c] = member[r] /\ inbox[c].status # "absent"
      /\ \A d \in todo[r] : inbox[c].seq <= inbox[d].seq
  BY DEF OrderInv, DrainOK, TurnStages, TypeInv, FramesOK, Handlers
<1>2. \A d \in Chats : inbox[d].seq \in Nat
  BY DEF TypeInv, FamilyTypeOK, Message
<1>3. ASSUME NEW d \in Chats, To[d] = To[c], d # c, inbox[d].status = "queued"
      PROVE  inbox[c].seq <= inbox[d].seq
  <2>1. CASE d \in todo[r]
    BY <2>1, <1>1
  <2>2. CASE d \notin todo[r]
    BY <2>2, <1>3, <1>1, <1>2 DEF OrderInv, DrainOK
  <2>3. QED  BY <2>1, <2>2
<1>4. QED  BY <1>1, <1>2, <1>3 DEF OrderInv, BoxesOK, BoxOK

LEMMA OrderStep == TypeInv /\ TypeInv' /\ OrderInv /\ [Next]_vars => OrderInv'
<1> SUFFICES ASSUME TypeInv, TypeInv', OrderInv, [Next]_vars PROVE OrderInv'
  OBVIOUS
<1> USE DEF OrderInv
<1>a. /\ Chats \subseteq Texts /\ Texts \subseteq Handlers /\ Reporters \subseteq Handlers
      /\ \A r \in Reporters : r \notin Texts
  BY FamilyAssumption, HubAssumption DEF Handlers
\* A request's step from a stage that is not "queued", with the boxes left alone.
<1>q. ASSUME NEW h \in Handlers, pc[h] # "queued", OwnFrame(h), UNCHANGED familyVars,
             h \in Reporters => DrainOK(h)'
      PROVE  OrderInv'
  <2>1. \A c \in Chats : pc[c] = "queued" => pc'[c] = "queued"
    BY <1>q, <1>a DEF OwnFrame
  <2>2. BoxesOK'
    BY <1>q, <2>1, BoxesKept DEF familyVars
  <2>3. ASSUME NEW r \in Reporters PROVE DrainOK(r)'
    BY <1>q, <2>3, OthersDrainOK DEF familyVars
  <2>4. QED  BY <2>2, <2>3
<1>1. ASSUME NEW c \in Chats, ReadPresence(c) PROVE OrderInv'
  <2>1. c \in Handlers /\ c \notin Reporters /\ pc[c] # "queued" /\ OwnFrame(c)
    BY <1>1, <1>a DEF ReadPresence, Goto, OwnFrame, TypeInv, FramesOK
  <2>2. QED  BY <1>1, <2>1, <1>q DEF ReadPresence
<1>2. ASSUME NEW c \in Chats, EnqueueMessage(c) PROVE OrderInv'
  <2> DEFINE new == [inbox EXCEPT ![c] = [status |-> "queued", seq |-> arrivals + 1]]
  <2>1. /\ FlushLocked(new) /\ arrivals' = arrivals + 1 /\ arrivals \in Nat
        /\ pc[c] = "enqueue" /\ pc' = [pc EXCEPT ![c] = "queued"]
    BY <1>2 DEF EnqueueMessage, Enqueue, Leave, Goto, TypeInv, FamilyTypeOK
  <2>2. c \in Handlers /\ c \notin Reporters /\ OwnFrame(c)
    BY <1>2, <1>a, LeaveOwnFrame DEF EnqueueMessage, TypeInv
  <2>3. inbox[c].status = "absent"
    BY <2>1 DEF BoxesOK, BoxOK
  <2>4. /\ inbox \in [Chats -> Message] /\ new \in [Chats -> Message]
        /\ pc \in [Handlers -> Stages]
    BY <2>1 DEF Message, TypeInv, FamilyTypeOK, FramesOK
  <2>5. \A d \in Chats : pc'[d] = IF d = c THEN "queued" ELSE pc[d]
    BY <2>1, <2>4, <1>a
  <2>6. \A d \in Chats : /\ inbox[d].seq \in Nat /\ inbox[d].seq <= arrivals
                         /\ new[d] = IF d = c THEN [status |-> "queued", seq |-> arrivals + 1]
                                     ELSE inbox[d]
    BY <2>4 DEF BoxesOK, BoxOK, Message
  <2>7. BoxOK(new, arrivals', pc')
    <3> HIDE DEF new
    <3>1. \A d \in Chats :
             /\ new[d].seq <= arrivals'
             /\ new[d].status = "absent" <=> new[d].seq = 0
             /\ new[d].status # "absent" => pc'[d] = "queued"
      BY <2>1, <2>5, <2>6 DEF BoxesOK, BoxOK
    <3>2. \A d, e \in Chats :
             d # e /\ new[d].seq = new[e].seq => new[d].status = "absent"
      BY <2>1, <2>6 DEF BoxesOK, BoxOK
    <3>3. AnsweredFirst(new)
      BY <2>1, <2>6 DEF BoxesOK, BoxOK, AnsweredFirst
    <3>4. QED  BY <3>1, <3>2, <3>3 DEF BoxOK
  <2>8. BoxesOK'
    <3> HIDE DEF new
    <3>1. arrivals' \in Nat /\ arrivals <= arrivals'
      BY <2>1
    <3>2. \A d \in Chats : pc[d] = "queued" => pc'[d] = "queued"
      BY <2>5
    <3>3. QED  BY <2>1, <2>7, <3>1, <3>2, BoxesFlushed
  <2>9. inbox' = new
    BY <2>1 DEF FlushLocked
  <2>10. ASSUME NEW r \in Reporters PROVE DrainOK(r)'
    <3> HIDE DEF new
    <3>1. r # c /\ DrainOK(r)
      BY <2>2
    <3>2. \A d \in Chats : inbox[d].status # "absent" => inbox'[d] = inbox[d]
      BY <2>3, <2>6, <2>9
    <3>3. \A d, e \in Chats :
             /\ inbox[d].status = "absent" /\ inbox'[d].status = "queued"
             /\ inbox[e].status # "absent"
             => inbox[e].seq < inbox'[d].seq
      BY <2>1, <2>6, <2>9
    <3>4. QED  BY <3>1, <3>2, <3>3, <2>2, OthersDrainOK
  <2>11. QED  BY <2>8, <2>10
<1>3. ASSUME NEW x \in Texts, Resend(x) PROVE OrderInv'
  <2>1. x \in Handlers /\ x \notin Reporters /\ pc[x] # "queued" /\ OwnFrame(x)
    BY <1>3, <1>a DEF Resend, Goto, OwnFrame, TypeInv, FramesOK
  <2>2. QED  BY <1>3, <2>1, <1>q DEF Resend
<1>4. ASSUME NEW g \in Generates, Generate(g) PROVE OrderInv'
  <2>1. g \in Handlers /\ g \notin Reporters /\ pc[g] # "queued" /\ OwnFrame(g)
    BY <1>4, <1>a, HubAssumption DEF Generate, Goto, OwnFrame, TypeInv, FramesOK
  <2>2. QED  BY <1>4, <2>1, <1>q DEF Generate
<1>5. ASSUME NEW r \in Reporters, NEW m \in Members, NEW state \in PRESENCE_STATES,
             Report(r, m, state)
      PROVE OrderInv'
  <2>1. /\ FlushLocked(inbox) /\ inbox' = inbox /\ arrivals' = arrivals
        /\ pc[r] = "idle" /\ todo' = todo /\ msg' = msg
    BY <1>5 DEF Report, SetPresence, FlushLocked
  <2>2. /\ OwnFrame(r) /\ pc'[r] \in {"idle", "snapshot"}
        /\ pc \in [Handlers -> Stages]
    BY <1>5, <1>a DEF Report, Goto, OwnFrame, TypeInv, FramesOK
  <2>3. \A c \in Chats : pc[c] = "queued" => pc'[c] = "queued"
    BY <2>2, <1>a DEF OwnFrame
  <2>4. BoxOK(inbox, arrivals', pc') /\ arrivals \in Nat
    BY <2>1, <2>3, BoxLater DEF BoxesOK, TypeInv, FamilyTypeOK
  <2>5. BoxesOK'
    BY <2>1, <2>3, <2>4, BoxesFlushed
  <2>6. DrainOK(r)'
    BY <2>1, <2>2 DEF DrainOK, TurnStages
  <2>7. ASSUME NEW q \in Reporters PROVE DrainOK(q)'
    BY <2>1, <2>2, <2>6, <1>a, OthersDrainOK
  <2>8. QED  BY <2>5, <2>7
<1>6. ASSUME NEW r \in Reporters, Snapshot(r) PROVE OrderInv'
  <2>1. /\ pc[r] = "snapshot" /\ OwnFrame(r) /\ pc'[r] = "next"
        /\ member' = member /\ inbox' = inbox
        /\ todo'[r] = Queued(member[r])
    BY <1>6, <1>a DEF Snapshot, Goto, OwnFrame, TypeInv, FramesOK, familyVars
  <2>2. DrainOK(r)'
    BY <2>1 DEF DrainOK, Queued, TurnStages
  <2>3. QED  BY <1>6, <2>1, <2>2, <1>a, <1>q DEF Snapshot
<1>7. ASSUME NEW r \in Reporters, NextMessage(r) PROVE OrderInv'
  <2>1. pc[r] = "next" /\ inbox' = inbox /\ r \in Handlers
    BY <1>7, <1>a DEF NextMessage, familyVars
  <2>2. ASSUME Leave(r, "idle") PROVE OwnFrame(r) /\ DrainOK(r)'
    <3>1. OwnFrame(r) /\ pc'[r] = "idle" /\ todo'[r] = {}
      BY <2>1, <2>2, LeaveOwnFrame DEF TypeInv, FramesOK, Leave, Goto
    <3>2. QED  BY <3>1 DEF DrainOK, TurnStages
  <2>3. ASSUME NEW c \in todo[r], \A d \in todo[r] : inbox[c].seq <= inbox[d].seq,
               Goto(r, "session"), msg' = [msg EXCEPT ![r] = c],
               UNCHANGED <<member, todo, sid, carried, turn_idx>>
        PROVE  OwnFrame(r) /\ DrainOK(r)'
    <3>1. OwnFrame(r) /\ pc'[r] = "session" /\ msg'[r] = c
      BY <2>1, <2>3 DEF TypeInv, FramesOK, Goto, OwnFrame
    <3>2. QED  BY <2>1, <2>3, <3>1 DEF DrainOK
  <2>4. OwnFrame(r) /\ DrainOK(r)'
    BY <1>7, <2>2, <2>3 DEF NextMessage
  <2>5. QED  BY <1>7, <2>1, <2>4, <1>q DEF NextMessage
<1>8. ASSUME NEW r \in Reporters, Complete(r) PROVE OrderInv'
  <2> DEFINE c == msg[r]
             new == [inbox EXCEPT ![c].status = "answered"]
  <2>1. /\ pc[r] = "complete" /\ r \in Handlers /\ r \notin Chats
        /\ c \in todo[r] /\ c \in Chats /\ todo[r] \subseteq Chats
        /\ To[c] = member[r] /\ inbox[c].status # "absent"
        /\ \A d \in todo[r] : inbox[c].seq <= inbox[d].seq
    BY <1>8, <1>a DEF Complete, DrainOK, TurnStages, TypeInv, FramesOK
  <2>2. /\ FlushLocked(new) /\ inbox' = new /\ arrivals' = arrivals
        /\ pc'[r] = "next" /\ member'[r] = member[r] /\ todo'[r] = todo[r] \ {c}
        /\ OwnFrame(r)
    BY <1>8, <2>1 DEF Complete, CompleteMessage, FlushLocked, TurnDone, Goto, OwnFrame,
                      TypeInv, FramesOK
  <2>3. \A d \in Chats : pc[d] = "queued" => pc'[d] = "queued"
    BY <2>1, <2>2, <1>a DEF OwnFrame
  <2>4. inbox \in [Chats -> Message] /\ new \in [Chats -> Message] /\ arrivals \in Nat
    BY DEF TypeInv, FamilyTypeOK, Message
  <2>5. \A d \in Chats : /\ inbox[d].seq \in Nat /\ new[d].seq = inbox[d].seq
                         /\ new[d].status = IF d = c THEN "answered" ELSE inbox[d].status
    BY <2>4 DEF Message
  <2>6. \A d \in Chats : To[d] = To[c] /\ d # c /\ inbox[d].status = "queued"
                           => inbox[c].seq < inbox[d].seq
    BY <2>1, CompletesOldest
  <2>7. BoxOK(new, arrivals', pc')
    <3> HIDE DEF new
    <3>1. AnsweredFirst(new)
      BY <2>1, <2>5, <2>6 DEF BoxesOK, BoxOK, AnsweredFirst
    <3>2. QED  BY <2>1, <2>2, <2>3, <2>5, <3>1 DEF BoxesOK, BoxOK
  <2>8. BoxesOK'
    <3> HIDE DEF new
    <3>1. QED  BY <2>2, <2>3, <2>4, <2>7, BoxesFlushed
  <2>9. DrainOK(r)'
    <3> HIDE DEF new
    <3>1. QED  BY <2>1, <2>2, <2>5 DEF DrainOK, TurnStages
  <2>10. ASSUME NEW q \in Reporters PROVE DrainOK(q)'
    <3> HIDE DEF new
    <3>1. QED  BY <2>1, <2>2, <2>5, <2>9, OthersDrainOK
  <2>11. QED  BY <2>8, <2>10
<1>9. ASSUME NEW h \in Handlers, TurnStep(h) PROVE OrderInv'
  <2>1. /\ UNCHANGED familyVars /\ pc[h] \in TurnStages /\ OwnFrame(h)
        /\ \/ pc'[h] \in TurnStages /\ UNCHANGED <<member, todo, msg>>
           \/ h \in Reporters /\ Leave(h, "idle")
           \/ h \notin Reporters
    BY <1>9, TurnStepShape
  <2>2. ASSUME h \in Reporters PROVE DrainOK(h)'
    <3>1. CASE pc'[h] \in TurnStages /\ UNCHANGED <<member, todo, msg>>
      BY <2>1, <2>2, <3>1 DEF DrainOK, TurnStages, familyVars
    <3>2. CASE Leave(h, "idle")
      <4>1. pc'[h] = "idle" /\ todo'[h] = {}
        BY <3>2 DEF Leave, Goto, TypeInv, FramesOK
      <4>2. QED  BY <4>1 DEF DrainOK, TurnStages
    <3>3. QED  BY <2>1, <2>2, <3>1, <3>2
  <2>3. QED  BY <2>1, <2>2, <1>q DEF TurnStages
<1>10. ASSUME Crash PROVE OrderInv'
  <2>1. /\ inbox_store' = inbox_store /\ arrivals' = arrivals
        /\ \A h \in Handlers : pc[h] = "queued" => pc'[h] = "queued"
        /\ \A h \in Handlers : pc'[h] \notin TurnStages /\ todo'[h] = {}
    BY <1>10 DEF Crash, FamilyRestart, Resting, Ended, TurnStages
  <2>2. BoxOK(inbox_store, arrivals, pc')
    BY <2>1, <1>a, BoxLater DEF BoxesOK, TypeInv, FamilyTypeOK
  <2>3. CASE inbox' = inbox_store
    BY <2>1, <2>2, <2>3, <1>a DEF BoxesOK, DrainOK
  <2>4. CASE inbox' = [c \in Chats |-> NoMessage]
    <3>1. BoxOK([c \in Chats |-> NoMessage], arrivals, pc')
      BY <1>a DEF BoxOK, AnsweredFirst, NoMessage, TypeInv, FamilyTypeOK
    <3>2. QED  BY <2>1, <2>2, <2>4, <3>1, <1>a DEF BoxesOK, DrainOK
  <2>5. QED  BY <1>10, <2>3, <2>4 DEF Crash, FamilyRestart
<1>11. CASE UNCHANGED vars
  BY <1>11 DEF vars, familyVars, localVars, BoxesOK, BoxOK, AnsweredFirst, DrainOK
<1>12. QED
  BY <1>1, <1>2, <1>3, <1>4, <1>5, <1>6, <1>7, <1>8, <1>9, <1>10, <1>11 DEF Next, DrainStep

\* A member answers its messages in the order they arrived, and the file says
\* the same: however many drains overlap, whatever turn fails, wherever the hub
\* dies, and whether or not the disk takes its writes.
THEOREM AnswersInArrivalOrder == Spec => []ArrivalOrder
<1>1. OrderInv => ArrivalOrder
  BY DEF OrderInv, BoxesOK, BoxOK, ArrivalOrder
<1>2. QED
  BY <1>1, TypeInit, TypeStep, OrderInit, OrderStep, PTL DEF Spec

LEMMA OrderInvariant == Spec => [](TypeInv /\ OrderInv)
  BY TypeInit, TypeStep, OrderInit, OrderStep, PTL DEF Spec

-----------------------------------------------------------------------------
(* Custody.  With a disk that takes every write and gives it back, the file  *)
(* is the inbox, so a crash loses nothing, and the hub implements the        *)
(* abstract inbox.                                                           *)

FileIsInbox == inbox_store = inbox

\* Whoever was told "queued" has a message in the inbox.
ToldIsQueued == \A c \in Chats : pc[c] = "queued" => inbox[c].status # "absent"

LEMMA TurnStepTellsNobody ==
    ASSUME TypeInv, NEW h \in Handlers, TurnStep(h)
    PROVE  \A g \in Handlers : pc'[g] = "queued" => pc[g] = "queued"
<1>1. ASSUME NEW stage, stage # "queued", Goto(h, stage)
      PROVE  \A g \in Handlers : pc'[g] = "queued" => pc[g] = "queued"
  BY <1>1 DEF Goto, TypeInv, FramesOK
<1>2. PICK stage : stage # "queued" /\ Goto(h, stage)
  BY DEF TurnStep, OpenSession, SeedTest, Seed, CortexAnswers, CortexDown, MemoryWritten,
         MemoryWriteFails, BumpCounter, ReadCounter, Record, AfterTurn, Abort, Leave
<1>3. QED  BY <1>1, <1>2

\* All but an arrival and an answer leave the inbox as it is.
LEMMA InboxUntouched ==
    ASSUME DiskFaults = FALSE, ReadFaults = FALSE, TypeInv, FileIsInbox, [Next]_vars,
           ~ \E c \in Chats : EnqueueMessage(c),
           ~ \E r \in Reporters : Complete(r)
    PROVE  /\ inbox' = inbox /\ inbox_store' = inbox
           /\ \A c \in Chats : pc'[c] = "queued" => pc[c] = "queued"
<1>a. Chats \subseteq Texts /\ Texts \subseteq Handlers /\ pc \in [Handlers -> Stages]
  BY FamilyAssumption DEF Handlers, TypeInv, FramesOK
<1> USE DEF FileIsInbox, familyVars
<1>1. ASSUME NEW c \in Chats, ReadPresence(c)
      PROVE  /\ inbox' = inbox /\ inbox_store' = inbox
             /\ \A g \in Handlers : pc'[g] = "queued" => pc[g] = "queued"
  BY <1>1, <1>a DEF ReadPresence, Goto
<1>2. ASSUME NEW x \in Texts, Resend(x)
      PROVE  /\ inbox' = inbox /\ inbox_store' = inbox
             /\ \A g \in Handlers : pc'[g] = "queued" => pc[g] = "queued"
  BY <1>2, <1>a DEF Resend, Goto
<1>3. ASSUME NEW g \in Generates, Generate(g)
      PROVE  /\ inbox' = inbox /\ inbox_store' = inbox
             /\ \A h \in Handlers : pc'[h] = "queued" => pc[h] = "queued"
  BY <1>3, <1>a DEF Generate, Goto
<1>4. ASSUME NEW r \in Reporters, NEW m \in Members, NEW state \in PRESENCE_STATES,
             Report(r, m, state)
      PROVE  /\ inbox' = inbox /\ inbox_store' = inbox
             /\ \A h \in Handlers : pc'[h] = "queued" => pc[h] = "queued"
  BY <1>4, <1>a DEF Report, SetPresence, FlushLocked, Goto
<1>5. ASSUME NEW r \in Reporters, Snapshot(r) \/ NextMessage(r)
      PROVE  /\ inbox' = inbox /\ inbox_store' = inbox
             /\ \A h \in Handlers : pc'[h] = "queued" => pc[h] = "queued"
  BY <1>5, <1>a DEF Snapshot, NextMessage, Leave, Goto
<1>6. ASSUME NEW h \in Handlers, TurnStep(h)
      PROVE  /\ inbox' = inbox /\ inbox_store' = inbox
             /\ \A g \in Handlers : pc'[g] = "queued" => pc[g] = "queued"
  BY <1>6, TurnStepShape, TurnStepTellsNobody
<1>7. ASSUME Crash
      PROVE  /\ inbox' = inbox /\ inbox_store' = inbox
             /\ \A g \in Handlers : pc'[g] = "queued" => pc[g] = "queued"
  BY <1>7 DEF Crash, FamilyRestart
<1>8. CASE UNCHANGED vars
  BY <1>8 DEF vars, localVars
<1>9. QED
  BY <1>1, <1>2, <1>3, <1>4, <1>5, <1>6, <1>7, <1>8, <1>a DEF Next, DrainStep

LEMMA EnqueueEffect ==
    ASSUME DiskFaults = FALSE, TypeInv, OrderInv, NEW c \in Chats, EnqueueMessage(c)
    PROVE  /\ inbox[c].seq = 0 /\ inbox[c].status = "absent" /\ arrivals \in Nat
           /\ \A d \in Chats :
                /\ inbox[d].seq \in Nat /\ inbox[d].seq <= arrivals
                /\ inbox'[d].seq = IF d = c THEN arrivals + 1 ELSE inbox[d].seq
                /\ inbox'[d].status = IF d = c THEN "queued" ELSE inbox[d].status
                /\ d # c => pc'[d] = pc[d]
           /\ inbox_store' = inbox'
<1> DEFINE new == [inbox EXCEPT ![c] = [status |-> "queued", seq |-> arrivals + 1]]
<1>1. /\ pc[c] = "enqueue" /\ FlushLocked(new) /\ pc' = [pc EXCEPT ![c] = "queued"]
      /\ inbox \in [Chats -> Message] /\ arrivals \in Nat /\ pc \in [Handlers -> Stages]
      /\ Chats \subseteq Handlers
  BY FamilyAssumption
     DEF EnqueueMessage, Enqueue, Leave, Goto, TypeInv, FamilyTypeOK, FramesOK, Handlers
<1>2. inbox' = new /\ inbox_store' = inbox'
  BY <1>1 DEF FlushLocked
<1>3. \A d \in Chats : new[d] = IF d = c THEN [status |-> "queued", seq |-> arrivals + 1]
                                ELSE inbox[d]
  BY <1>1
<1>4. \A d \in Chats : inbox[d].seq \in Nat /\ inbox[d].seq <= arrivals
  BY <1>1 DEF Message, OrderInv, BoxesOK, BoxOK
<1>5. inbox[c].status = "absent" /\ inbox[c].seq = 0
  BY <1>1 DEF OrderInv, BoxesOK, BoxOK
<1> HIDE DEF new
<1>6. \A d \in Chats : d # c => pc'[d] = pc[d]
  BY <1>1
<1>7. QED  BY <1>1, <1>2, <1>3, <1>4, <1>5, <1>6

LEMMA CompleteEffect ==
    ASSUME DiskFaults = FALSE, TypeInv, OrderInv, NEW r \in Reporters, Complete(r)
    PROVE  /\ inbox_store' = inbox'
           /\ \A d \in Chats :
                /\ inbox[d].seq \in Nat
                /\ inbox[d].status \in {"absent", "queued", "answered"}
                /\ inbox'[d].seq = inbox[d].seq
                /\ inbox'[d].status = IF d = msg[r] THEN "answered" ELSE inbox[d].status
                /\ pc'[d] = "queued" => pc[d] = "queued"
<1> DEFINE new == [inbox EXCEPT ![msg[r]].status = "answered"]
<1>1. inbox[msg[r]].status # "absent" /\ r \in Handlers /\ Chats \subseteq Handlers
  BY CompletesOldest, FamilyAssumption DEF Complete, Handlers
<1>2. /\ FlushLocked(new) /\ inbox \in [Chats -> Message] /\ pc \in [Handlers -> Stages]
      /\ pc' = [pc EXCEPT ![r] = "next"]
  BY <1>1 DEF Complete, CompleteMessage, TurnDone, Goto, TypeInv, FamilyTypeOK, FramesOK
<1>3. inbox' = new /\ inbox_store' = inbox'
  BY <1>2 DEF FlushLocked
<1>4. \A d \in Chats :
         /\ inbox[d].seq \in Nat /\ inbox[d].status \in {"absent", "queued", "answered"}
         /\ new[d].seq = inbox[d].seq
         /\ new[d].status = IF d = msg[r] THEN "answered" ELSE inbox[d].status
  BY <1>2 DEF Message
<1> HIDE DEF new
<1>5. \A d \in Chats : pc'[d] = "queued" => pc[d] = "queued"
  BY <1>1, <1>2
<1>6. QED  BY <1>3, <1>4, <1>5

LEMMA DurableInit == Init => FileIsInbox /\ ToldIsQueued
  BY FamilyAssumption, HubAssumption DEF Init, FamilyInit, FileIsInbox, ToldIsQueued, Handlers

LEMMA DurableStep ==
    ASSUME DiskFaults = FALSE, ReadFaults = FALSE
    PROVE  TypeInv /\ OrderInv /\ FileIsInbox /\ ToldIsQueued /\ [Next]_vars
               => (FileIsInbox /\ ToldIsQueued)'
<1> SUFFICES ASSUME TypeInv, OrderInv, FileIsInbox, ToldIsQueued, [Next]_vars
             PROVE  (FileIsInbox /\ ToldIsQueued)'
  OBVIOUS
<1>b. inbox \in [Chats -> Message]
  BY DEF TypeInv, FamilyTypeOK
<1>1. CASE \E c \in Chats : EnqueueMessage(c)
  BY <1>1, <1>b, EnqueueEffect DEF FileIsInbox, ToldIsQueued
<1>2. CASE \E r \in Reporters : Complete(r)
  BY <1>2, <1>b, CompleteEffect, CompletesOldest DEF FileIsInbox, ToldIsQueued, Message
<1>3. CASE ~ (\E c \in Chats : EnqueueMessage(c)) /\ ~ (\E r \in Reporters : Complete(r))
  BY <1>3, InboxUntouched DEF FileIsInbox, ToldIsQueued
<1>4. QED  BY <1>1, <1>2, <1>3

\* A sender who was told that the message is queued finds it in the file, so a
\* restart keeps it, if the disk takes the hub's writes and the file can be read.
THEOREM QueuedIsDurable ==
    ASSUME DiskFaults = FALSE, ReadFaults = FALSE
    PROVE  Spec => []CustodyIsDurable
<1>1. FileIsInbox /\ ToldIsQueued => CustodyIsDurable
  BY DEF FileIsInbox, ToldIsQueued, CustodyIsDurable
<1>2. QED
  BY <1>1, OrderInvariant, DurableInit, DurableStep, PTL DEF Spec

LEMMA CustodyStep ==
    ASSUME DiskFaults = FALSE, ReadFaults = FALSE
    PROVE  TypeInv /\ OrderInv /\ FileIsInbox /\ [Next]_vars
               => [TheCustody!Next]_(TheCustody!custodyVars)
<1> SUFFICES ASSUME TypeInv, OrderInv, FileIsInbox, [Next]_vars
             PROVE  [TheCustody!Next]_(TheCustody!custodyVars)
  OBVIOUS
<1>b. inbox \in [Chats -> Message]
  BY DEF TypeInv, FamilyTypeOK
<1>1. ASSUME NEW c \in Chats, EnqueueMessage(c) PROVE TheCustody!Accept(c)
  <2>1. /\ inbox[c].seq = 0 /\ inbox[c].status = "absent" /\ arrivals \in Nat
        /\ \A d \in Chats :
             /\ inbox[d].seq \in Nat /\ inbox[d].seq <= arrivals
             /\ inbox'[d].seq = IF d = c THEN arrivals + 1 ELSE inbox[d].seq
             /\ inbox'[d].status = IF d = c THEN "queued" ELSE inbox[d].status
    BY <1>1, EnqueueEffect
  <2> DEFINE arr == [d \in Chats |-> inbox[d].seq]
             arr2 == [d \in Chats |-> inbox'[d].seq]
  <2>2. \A d \in Chats : arr[d] = inbox[d].seq /\ arr2[d] = inbox'[d].seq
    OBVIOUS
  <2>3. arr2 = [arr EXCEPT ![c] = arr2[c]]
    BY <2>1, <2>2
  <2>4. {d \in Chats : inbox'[d].status = "answered"}
            = {d \in Chats : inbox[d].status = "answered"}
    BY <2>1
  <2>5. arr[c] = 0 /\ arr2[c] = arrivals + 1 /\ \A d \in Chats : arr[d] <= arrivals
    BY <2>1, <2>2
  <2>6. \A d \in Chats : arr[d] < arr2[c]
    BY <2>1, <2>2, <2>5
  <2>7. QED
    BY <2>1, <2>3, <2>4, <2>5, <2>6 DEF TheCustody!Accept, TheCustody!InCustody
<1>2. ASSUME NEW r \in Reporters, Complete(r), NEW c \in Chats, c = msg[r]
      PROVE  TheCustody!Answer(c) \/ UNCHANGED TheCustody!custodyVars
  <2>1. /\ inbox[c].status # "absent"
        /\ \A d \in Chats : To[d] = To[c] /\ d # c /\ inbox[d].status = "queued"
                               => inbox[c].seq < inbox[d].seq
    BY <1>2, CompletesOldest DEF Complete
  <2>2. \A d \in Chats : /\ inbox'[d].seq = inbox[d].seq /\ inbox[d].seq \in Nat
                         /\ inbox[d].status \in {"absent", "queued", "answered"}
                         /\ inbox[d].status = "absent" <=> inbox[d].seq = 0
                         /\ inbox'[d].status = IF d = c THEN "answered" ELSE inbox[d].status
    BY <1>2, CompleteEffect DEF OrderInv, BoxesOK, BoxOK
  <2>3. [d \in Chats |-> inbox'[d].seq] = [d \in Chats |-> inbox[d].seq]
    BY <2>2
  <2>4. {d \in Chats : inbox'[d].status = "answered"}
            = {d \in Chats : inbox[d].status = "answered"} \cup {c}
    BY <2>1, <2>2
  <2>5. CASE inbox[c].status = "answered"
    BY <2>1, <2>3, <2>4, <2>5 DEF TheCustody!custodyVars
  <2>6. CASE inbox[c].status # "answered"
    <3>1. inbox[c].seq > 0
      BY <2>1, <2>2
    <3>2. \A d \in Chats :
             To[d] = To[c] /\ inbox[d].seq > 0 /\ inbox[d].seq < inbox[c].seq
                 => inbox[d].status = "answered"
      BY <2>1, <2>2
    <3>3. QED
      BY <2>1, <2>3, <2>4, <2>6, <3>1, <3>2 DEF TheCustody!Answer, TheCustody!InCustody
  <2>7. QED  BY <2>5, <2>6
<1>3. CASE ~ (\E c \in Chats : EnqueueMessage(c)) /\ ~ (\E r \in Reporters : Complete(r))
  BY <1>3, InboxUntouched DEF TheCustody!custodyVars
<1>4. QED
  <2>1. CASE \E c \in Chats : EnqueueMessage(c)
    <3>1. PICK c \in Chats : EnqueueMessage(c)
      BY <2>1
    <3>2. TheCustody!Accept(c)
      BY <3>1, <1>1
    <3>3. QED  BY <3>2, Zenon DEF TheCustody!Next
  <2>2. CASE \E r \in Reporters : Complete(r)
    <3>1. PICK r \in Reporters : Complete(r)
      BY <2>2
    <3>2. PICK c \in Chats : c = msg[r]
      BY <3>1, CompletesOldest DEF Complete
    <3>3. TheCustody!Answer(c) \/ UNCHANGED TheCustody!custodyVars
      BY <3>1, <3>2, <1>2
    <3>4. QED  BY <3>3, Zenon DEF TheCustody!Next
  <2>3. QED  BY <1>3, <2>1, <2>2

\* The hub implements Custody: no handler and no crash drops a message, reorders
\* or undoes an answer, if the disk takes the hub's writes and gives them back.
THEOREM InboxKeepsCustody ==
    ASSUME DiskFaults = FALSE, ReadFaults = FALSE
    PROVE  Spec => CustodySpec
<1>1. Init => TheCustody!Init
  BY DEF Init, FamilyInit, NoMessage, TheCustody!Init
<1>2. QED
  BY <1>1, OrderInvariant, DurableInit, DurableStep, CustodyStep, PTL
     DEF Spec, CustodySpec, TheCustody!Spec

-----------------------------------------------------------------------------
(* What is left of custody when the disk may refuse a write.               *)

\* The file lags: what it holds is in the inbox, under the same number, and
\* answered there if it is answered in the file.
FileIsBehind ==
    \A c \in Chats : inbox_store[c].status # "absent" =>
        /\ inbox[c].status # "absent"
        /\ inbox[c].seq = inbox_store[c].seq
        /\ inbox_store[c].status = "answered" => inbox[c].status = "answered"

\* What the file holds stays in it, in its place, and an answer is not undone.
FileForgetsNothing ==
    [][\A c \in Chats : inbox_store[c].status # "absent" =>
          /\ inbox_store'[c].seq = inbox_store[c].seq
          /\ inbox_store'[c].status \in {inbox_store[c].status, "answered"}]_vars

\* What the inbox may do between two crashes.
InboxAdvances ==
    \A c \in Chats : inbox[c].status # "absent" =>
        /\ inbox'[c].seq = inbox[c].seq
        /\ inbox'[c].status \in {inbox[c].status, "answered"}

\* Every step lets the inbox advance and brings the file up to it or leaves the
\* file alone; a crash goes back to the file.
LEMMA FileStepShape ==
    ASSUME ReadFaults = FALSE, TypeInv, OrderInv, [Next]_vars
    PROVE  \/ InboxAdvances /\ inbox_store' \in {inbox_store, inbox'}
           \/ inbox' = inbox_store /\ inbox_store' = inbox_store
<1>k. ASSUME inbox' = inbox PROVE InboxAdvances
  BY <1>k DEF InboxAdvances
<1> USE DEF familyVars
<1>1. ASSUME NEW c \in Chats, ReadPresence(c)
      PROVE  InboxAdvances /\ inbox_store' = inbox_store
  BY <1>1, <1>k DEF ReadPresence
<1>2. ASSUME NEW c \in Chats, EnqueueMessage(c)
      PROVE  InboxAdvances /\ inbox_store' \in {inbox_store, inbox'}
  <2>1. inbox[c].status = "absent"
    BY <1>2 DEF EnqueueMessage, OrderInv, BoxesOK, BoxOK
  <2>2. \A d \in Chats : d # c => inbox'[d] = inbox[d]
    BY <1>2 DEF EnqueueMessage, Enqueue, FlushLocked, TypeInv, FamilyTypeOK
  <2>3. inbox_store' \in {inbox_store, inbox'}
    BY <1>2 DEF EnqueueMessage, Enqueue, FlushLocked
  <2>4. QED  BY <2>1, <2>2, <2>3 DEF InboxAdvances
<1>3. ASSUME NEW x \in Texts, Resend(x)
      PROVE  InboxAdvances /\ inbox_store' = inbox_store
  BY <1>3, <1>k DEF Resend
<1>4. ASSUME NEW g \in Generates, Generate(g)
      PROVE  InboxAdvances /\ inbox_store' = inbox_store
  BY <1>4, <1>k DEF Generate
<1>5. ASSUME NEW r \in Reporters, NEW m \in Members, NEW state \in PRESENCE_STATES,
             Report(r, m, state)
      PROVE  InboxAdvances /\ inbox_store' \in {inbox_store, inbox'}
  BY <1>5, <1>k DEF Report, SetPresence, FlushLocked
<1>6. ASSUME NEW r \in Reporters, Snapshot(r) \/ NextMessage(r)
      PROVE  InboxAdvances /\ inbox_store' = inbox_store
  BY <1>6, <1>k DEF Snapshot, NextMessage
<1>7. ASSUME NEW r \in Reporters, Complete(r)
      PROVE  InboxAdvances /\ inbox_store' \in {inbox_store, inbox'}
  <2>1. inbox[msg[r]].status # "absent"
    BY <1>7, CompletesOldest DEF Complete
  <2>2. /\ inbox' = [inbox EXCEPT ![msg[r]].status = "answered"]
        /\ inbox_store' \in {inbox_store, inbox'}
    BY <1>7, <2>1 DEF Complete, CompleteMessage, FlushLocked
  <2>3. QED  BY <2>2 DEF InboxAdvances, TypeInv, FamilyTypeOK, Message
<1>8. ASSUME NEW h \in Handlers, TurnStep(h)
      PROVE  InboxAdvances /\ inbox_store' = inbox_store
  BY <1>8, <1>k, TurnStepShape
<1>9. ASSUME Crash PROVE inbox' = inbox_store /\ inbox_store' = inbox_store
  BY <1>9 DEF Crash, FamilyRestart
<1>10. CASE UNCHANGED vars
  BY <1>10, <1>k DEF vars
<1>11. QED
  BY <1>1, <1>2, <1>3, <1>4, <1>5, <1>6, <1>7, <1>8, <1>9, <1>10 DEF Next, DrainStep

LEMMA FileStep ==
    ASSUME ReadFaults = FALSE, TypeInv, OrderInv, FileIsBehind, [Next]_vars
    PROVE  /\ FileIsBehind'
           /\ \A c \in Chats : inbox_store[c].status # "absent" =>
                 /\ inbox_store'[c].seq = inbox_store[c].seq
                 /\ inbox_store'[c].status \in {inbox_store[c].status, "answered"}
<1>1. \A c \in Chats : inbox[c].status \in {"absent", "queued", "answered"}
  BY DEF TypeInv, FamilyTypeOK, Message
<1>2. \A c \in Chats : inbox_store[c].status \in {"absent", "queued", "answered"}
  BY DEF TypeInv, FamilyTypeOK, Message
<1>3. CASE InboxAdvances /\ inbox_store' = inbox_store
  BY <1>1, <1>2, <1>3 DEF InboxAdvances, FileIsBehind
<1>4. CASE InboxAdvances /\ inbox_store' = inbox'
  BY <1>1, <1>2, <1>4 DEF InboxAdvances, FileIsBehind
<1>5. CASE inbox' = inbox_store /\ inbox_store' = inbox_store
  BY <1>5 DEF FileIsBehind
<1>6. QED  BY <1>3, <1>4, <1>5, FileStepShape

\* Whatever writes the disk refuses and wherever the hub dies, the file never drops,
\* renumbers or un-answers a message it holds, if every boot can read it: a crash
\* costs the writes that were refused, and nothing that was ever on the disk.
THEOREM FileNeverGoesBack == ASSUME ReadFaults = FALSE PROVE Spec => FileForgetsNothing
<1>1. Init => FileIsBehind
  BY DEF Init, FamilyInit, NoMessage, FileIsBehind
<1>2. TypeInv /\ OrderInv /\ FileIsBehind /\ [Next]_vars
        => /\ FileIsBehind'
           /\ [\A c \in Chats : inbox_store[c].status # "absent" =>
                  /\ inbox_store'[c].seq = inbox_store[c].seq
                  /\ inbox_store'[c].status \in {inbox_store[c].status, "answered"}]_vars
  BY FileStep
<1>3. QED
  BY <1>1, <1>2, OrderInvariant, PTL DEF Spec, FileForgetsNothing
=============================================================================
