--------------------------- MODULE HubTurns_proofs ---------------------------
(***************************************************************************)
(* Proofs about what a turn leaves behind: a message in custody has no     *)
(* row, and, while the turns of a session stay apart and no death takes an *)
(* unsaved counter, every turn is remembered under an index of its own.    *)
(***************************************************************************)
EXTENDS HubMemory_proofs

LEMMA HandlerSets ==
    /\ Chats \subseteq Texts /\ Texts \subseteq Handlers /\ Reporters \subseteq Handlers
    /\ Handlers = Chats \cup Generates \cup Reporters /\ Texts \cap Reporters = {}
    /\ Chats \cap Generates = {} /\ Chats \cap Reporters = {} /\ Generates \cap Reporters = {}
  BY FamilyAssumption, HubAssumption DEF Handlers

\* The frames of the others stay where they are, whoever moves.
LEMMA TurnOthers ==
    ASSUME TypeInv, NEW h \in Handlers, TurnStep(h)
    PROVE  Others(h)
<1>1. ASSUME NEW stage, Goto(h, stage),
             \A g \in Handlers \ {h} : /\ msg'[g] = msg[g] /\ sid'[g] = sid[g]
                                       /\ carried'[g] = carried[g] /\ turn_idx'[g] = turn_idx[g]
      PROVE  Others(h)
  BY <1>1, GotoMoves
<1>2. ASSUME NEW stage \in Resting, Leave(h, stage) \/ Abort(h, stage) PROVE Others(h)
  BY <1>2, LeaveMoves, AbortMoves
<1>3. ASSUME AfterTurn(h) PROVE Others(h)
  BY <1>1, <1>2, <1>3 DEF AfterTurn, Resting, Ended
<1>4. sid \in [Handlers -> Sids \cup {NoSid}] /\ carried \in [Handlers -> Nat]
      /\ turn_idx \in [Handlers -> Nat]
  BY DEF TypeInv, FramesOK
<1>5. CASE OpenSession(h)
  BY <1>1, <1>2, <1>4, <1>5 DEF OpenSession, Resting, Ended
<1>6. CASE SeedTest(h) \/ Seed(h) \/ MemoryWritten(h)
  BY <1>1, <1>6 DEF SeedTest, Seed, MemoryWritten
<1>7. CASE CortexAnswers(h) \/ ReadCounter(h)
  BY <1>1, <1>4, <1>7 DEF CortexAnswers, ReadCounter
<1>8. CASE CortexDown(h)
  BY <1>2, <1>8 DEF CortexDown, Resting, Ended
<1>9. CASE MemoryWriteFails(h) \/ BumpCounter(h)
  BY <1>3, <1>9 DEF MemoryWriteFails, BumpCounter
<1>10. CASE Record(h)
  BY <1>1, <1>2, <1>10 DEF Record, Resting, Ended
<1>11. QED  BY <1>5, <1>6, <1>7, <1>8, <1>9, <1>10 DEF TurnStep

-----------------------------------------------------------------------------
(* Custody, not memory.                                                    *)

\* A live chat, and a drain, whose turn may have a row.
Remembered == {"bump", "count", "record", "answered"}
Remembering == {"bump", "count", "record", "complete"}

\* A row that tells of a message of the inbox is the turn of its answer.
RowsAreAnswers ==
    crashes = 0 =>
      \A row \in rows : row.text \in Chats =>
        \/ inbox[row.text].status = "answered"
        \/ inbox[row.text].status = "absent" /\ pc[row.text] \in Remembered
        \/ \E r \in Reporters : msg[r] = row.text /\ pc[r] \in Remembering

\* A step that adds no row keeps this if no turn that may have one gets lost.
LEMMA AnswersKept ==
    ASSUME RowsAreAnswers, rows' = rows, crashes' = crashes,
           \A c \in Chats : inbox'[c].status \in {inbox[c].status, "answered"},
           \A c \in Chats : pc[c] \in Remembered => pc'[c] \in Remembered,
           \A r \in Reporters : pc[r] \in Remembering =>
             (pc'[r] \in Remembering /\ msg'[r] = msg[r]) \/ inbox'[msg[r]].status = "answered"
    PROVE  RowsAreAnswers'
  BY DEF RowsAreAnswers

\* A turn that may have a row goes on to its end.
LEMMA TurnGoesOn ==
    ASSUME TypeInv, NEW h \in Handlers, TurnStep(h)
    PROVE  /\ h \in Chats /\ pc[h] \in Remembered => pc'[h] \in Remembered
           /\ h \in Reporters /\ pc[h] \in Remembering => pc'[h] \in Remembering /\ msg'[h] = msg[h]
           /\ rows' # rows => /\ pc[h] = "write" /\ WriteTurn(h)
                              /\ h \notin Generates => pc'[h] \in {"bump", "count"} /\ msg'[h] = msg[h]
<1>1. \A stage : Goto(h, stage) => pc'[h] = stage
  BY DEF Goto, TypeInv, FramesOK
<1>2. ASSUME AfterTurn(h), h \notin Generates PROVE pc'[h] = "count" /\ msg' = msg
  BY <1>1, <1>2 DEF AfterTurn
<1>3. h \in Chats \/ h \in Reporters => h \notin Generates
  BY HandlerSets
<1>4. h \in Chats => h \notin Reporters
  BY HandlerSets
<1>5. CASE pc[h] \in {"session", "seedtest", "seed", "cortex"}
  <2>1. OpenSession(h) \/ SeedTest(h) \/ Seed(h) \/ CortexAnswers(h) \/ CortexDown(h)
    BY <1>5 DEF TurnStep, MemoryWritten, MemoryWriteFails, BumpCounter, ReadCounter, Record
  <2>2. rows' = rows
    BY <2>1 DEF OpenSession, SeedTest, Seed, CortexAnswers, CortexDown
  <2>3. QED  BY <1>5, <2>2 DEF Remembered, Remembering
<1>6. CASE pc[h] = "write"
  <2>1. MemoryWritten(h) \/ MemoryWriteFails(h)
    BY <1>6 DEF TurnStep, OpenSession, SeedTest, Seed, CortexAnswers, CortexDown, BumpCounter,
       ReadCounter, Record
  <2>2. rows' # rows => WriteTurn(h)
    BY <2>1 DEF MemoryWritten, MemoryWriteFails
  <2>3. h \notin Generates => pc'[h] \in {"bump", "count"} /\ msg' = msg
    BY <1>1, <1>2, <2>1 DEF MemoryWritten, MemoryWriteFails
  <2>4. QED  BY <1>6, <2>2, <2>3 DEF Remembered, Remembering
<1>7. CASE pc[h] = "bump"
  <2>1. BumpCounter(h)
    BY <1>7 DEF TurnStep, OpenSession, SeedTest, Seed, CortexAnswers, CortexDown, MemoryWritten,
       MemoryWriteFails, ReadCounter, Record
  <2>2. QED  BY <1>2, <1>3, <2>1 DEF BumpCounter, Remembered, Remembering
<1>8. CASE pc[h] = "count"
  <2>1. ReadCounter(h)
    BY <1>8 DEF TurnStep, OpenSession, SeedTest, Seed, CortexAnswers, CortexDown, MemoryWritten,
       MemoryWriteFails, BumpCounter, Record
  <2>2. QED  BY <1>1, <2>1 DEF ReadCounter, Remembered, Remembering
<1>9. CASE pc[h] = "record"
  <2>1. Record(h)
    BY <1>9 DEF TurnStep, OpenSession, SeedTest, Seed, CortexAnswers, CortexDown, MemoryWritten,
       MemoryWriteFails, BumpCounter, ReadCounter
  <2>2. h \notin Reporters => pc'[h] = "answered"
    BY <1>1, <2>1 DEF Record, Leave
  <2>3. QED  BY <1>1, <1>4, <2>1, <2>2 DEF Record, Remembered, Remembering
<1>10. CASE pc[h] = "complete"
  BY <1>10 DEF TurnStep, OpenSession, SeedTest, Seed, CortexAnswers, CortexDown, MemoryWritten,
     MemoryWriteFails, BumpCounter, ReadCounter, Record
<1>11. pc[h] \in TurnStages
  BY TurnStepShape
<1>12. QED  BY <1>5, <1>6, <1>7, <1>8, <1>9, <1>10, <1>11 DEF TurnStages

LEMMA TurnStepAnswers ==
    ASSUME TypeInv, OrderInv, RowsAreAnswers, NEW h \in Handlers, TurnStep(h)
    PROVE  RowsAreAnswers'
<1>1. /\ inbox' = inbox /\ crashes' = crashes /\ pc[h] \in TurnStages
      /\ \A g \in Handlers \ {h} : pc'[g] = pc[g] /\ msg'[g] = msg[g]
  <2>1. crashes' = crashes
    BY DEF TurnStep, OpenSession, SeedTest, Seed, CortexAnswers, CortexDown, MemoryWritten,
       MemoryWriteFails, BumpCounter, ReadCounter, Record
  <2>2. QED  BY <2>1, TurnStepShape, TurnOthers DEF familyVars, Others
<1>2. \A c \in Chats : pc[c] \in Remembered => pc'[c] \in Remembered
  BY <1>1, TurnGoesOn, HandlerSets
<1>3. \A r \in Reporters : pc[r] \in Remembering => pc'[r] \in Remembering /\ msg'[r] = msg[r]
  BY <1>1, TurnGoesOn, HandlerSets
<1>4. CASE rows' = rows
  <2>1. \A c \in Chats : inbox'[c].status \in {inbox[c].status, "answered"}
    BY <1>1
  <2>2. QED  BY <1>1, <1>2, <1>3, <1>4, <2>1, AnswersKept
<1>5. CASE rows' # rows
  <2>1. /\ pc[h] = "write" /\ WriteTurn(h)
        /\ h \notin Generates => pc'[h] \in {"bump", "count"} /\ msg'[h] = msg[h]
    BY <1>5, TurnGoesOn
  <2>2. \A row \in rows' : row \in rows \/ row.text = msg[h]
    BY <2>1 DEF WriteTurn, MemoryWrite, AddRow, TurnRow
  <2>3. ASSUME msg[h] \in Chats
        PROVE  \/ inbox'[msg[h]].status = "absent" /\ pc'[msg[h]] \in Remembered
               \/ \E r \in Reporters : msg'[r] = msg[h] /\ pc'[r] \in Remembering
    <3>1. CASE h \in Reporters
      BY <2>1, <3>1, HandlerSets DEF Remembering
    <3>2. CASE h \in Texts
      <4>1. msg[h] = h /\ h \in Chats /\ h \notin Generates
        BY <2>3, <3>2, HandlerSets DEF TypeInv, FramesOK, TurnFrames
      <4>2. inbox[h].status = "absent"
        BY <2>1, <4>1 DEF OrderInv, BoxesOK, BoxOK
      <4>3. QED  BY <1>1, <2>1, <4>1, <4>2 DEF Remembered
    <3>3. QED  BY <3>1, <3>2 DEF Handlers
  <2>4. ASSUME NEW row \in rows, row.text \in Chats, crashes = 0
        PROVE  \/ inbox'[row.text].status = "answered"
               \/ inbox'[row.text].status = "absent" /\ pc'[row.text] \in Remembered
               \/ \E r \in Reporters : msg'[r] = row.text /\ pc'[r] \in Remembering
    BY <1>1, <1>2, <1>3, <2>4 DEF RowsAreAnswers
  <2>5. QED  BY <1>1, <2>2, <2>3, <2>4 DEF RowsAreAnswers
<1>6. QED  BY <1>4, <1>5

\* What a member receives has no row yet: no turn has run on it.
LEMMA EnqueueAnswers ==
    ASSUME TypeInv, OrderInv, RowsAreAnswers, NEW c \in Chats, EnqueueMessage(c)
    PROVE  RowsAreAnswers'
<1>1. /\ c \in Handlers /\ c \notin Reporters /\ Chats \subseteq Handlers
      /\ Reporters \subseteq Handlers /\ Chats \cap Reporters = {}
  BY HandlerSets
<1>2. /\ pc[c] = "enqueue" /\ rows' = rows /\ crashes' = crashes /\ inbox[c].status = "absent"
      /\ \A d \in Chats \ {c} : inbox'[d].status = inbox[d].status
  BY <1>1 DEF EnqueueMessage, Enqueue, FlushLocked, OrderInv, BoxesOK, BoxOK, TypeInv,
              FamilyTypeOK
<1>3. \A g \in Handlers \ {c} : pc'[g] = pc[g] /\ msg'[g] = msg[g]
  BY <1>1, LeaveMoves DEF EnqueueMessage, Others, Resting, Ended
<1>4. \A r \in Reporters : pc[r] \in Remembering => msg[r] # c
  BY <1>2 DEF OrderInv, DrainOK, Remembering, TurnStages
<1>5. ASSUME crashes = 0, NEW row \in rows, row.text \in Chats PROVE row.text # c
  BY <1>2, <1>4, <1>5 DEF RowsAreAnswers, Remembered
<1>6. QED  BY <1>1, <1>2, <1>3, <1>5 DEF RowsAreAnswers

LEMMA CompleteAnswers ==
    ASSUME TypeInv, OrderInv, RowsAreAnswers, NEW r \in Reporters, Complete(r)
    PROVE  RowsAreAnswers'
<1>1. r \in Handlers /\ Chats \subseteq Handlers \ {r} /\ Reporters \subseteq Handlers
  BY HandlerSets
<1>2. pc[r] = "complete" /\ rows' = rows /\ crashes' = crashes
  BY DEF Complete
<1>3. \A g \in Handlers \ {r} : pc'[g] = pc[g] /\ msg'[g] = msg[g]
  BY <1>1 DEF Complete, TurnDone, Goto, TypeInv, FramesOK
<1>4. msg[r] \in Chats /\ inbox[msg[r]].status # "absent"
  BY <1>2, CompletesOldest
<1>5. \A c \in Chats : inbox'[c].status = IF c = msg[r] THEN "answered" ELSE inbox[c].status
  BY <1>4 DEF Complete, CompleteMessage, FlushLocked, TypeInv, FamilyTypeOK, Message
<1>6. QED  BY <1>1, <1>2, <1>3, <1>4, <1>5, AnswersKept

LEMMA AnswersStep == TypeInv /\ OrderInv /\ RowsAreAnswers /\ [Next]_vars => RowsAreAnswers'
<1> SUFFICES ASSUME TypeInv, OrderInv, RowsAreAnswers, [Next]_vars PROVE RowsAreAnswers'
  OBVIOUS
\* A step outside the turns leaves their stages and the inbox alone.
<1>q. ASSUME NEW h \in Handlers, rows' = rows, crashes' = crashes, inbox' = inbox,
             pc[h] \notin Remembered \cup Remembering,
             \A g \in Handlers \ {h} : pc'[g] = pc[g] /\ msg'[g] = msg[g]
      PROVE  RowsAreAnswers'
  <2>1. \A c \in Chats : pc[c] \in Remembered => pc'[c] \in Remembered
    BY <1>q, HandlerSets
  <2>2. \A r \in Reporters : pc[r] \in Remembering => pc'[r] \in Remembering /\ msg'[r] = msg[r]
    BY <1>q, HandlerSets
  <2>3. QED  BY <1>q, <2>1, <2>2, AnswersKept
<1> USE DEF familyVars, Remembered, Remembering
<1>1. ASSUME NEW c \in Chats, ReadPresence(c) PROVE RowsAreAnswers'
  BY <1>1, <1>q, HandlerSets DEF ReadPresence, Goto, TypeInv, FramesOK
<1>2. ASSUME NEW x \in Texts, Resend(x) PROVE RowsAreAnswers'
  BY <1>2, <1>q, HandlerSets DEF Resend, Goto, TypeInv, FramesOK
<1>3. ASSUME NEW g \in Generates, Generate(g) PROVE RowsAreAnswers'
  BY <1>3, <1>q, HandlerSets DEF Generate, Goto, TypeInv, FramesOK
<1>4. ASSUME NEW r \in Reporters, NEW m \in Members, NEW state \in PRESENCE_STATES,
             Report(r, m, state)
      PROVE RowsAreAnswers'
  <2>1. inbox' = inbox /\ rows' = rows /\ crashes' = crashes /\ pc[r] = "idle"
    BY <1>4 DEF Report, SetPresence, FlushLocked
  <2>2. \A g \in Handlers \ {r} : pc'[g] = pc[g] /\ msg'[g] = msg[g]
    BY <1>4 DEF Report, Goto, TypeInv, FramesOK
  <2>3. QED  BY <2>1, <2>2, <1>q, HandlerSets
<1>5. ASSUME NEW r \in Reporters, Snapshot(r) PROVE RowsAreAnswers'
  BY <1>5, <1>q, HandlerSets DEF Snapshot, Goto, TypeInv, FramesOK
<1>6. ASSUME NEW r \in Reporters, NextMessage(r) PROVE RowsAreAnswers'
  <2>1. inbox' = inbox /\ rows' = rows /\ crashes' = crashes /\ pc[r] = "next"
    BY <1>6 DEF NextMessage
  <2>2. \A g \in Handlers \ {r} : pc'[g] = pc[g] /\ msg'[g] = msg[g]
    BY <1>6 DEF NextMessage, Leave, Goto, TypeInv, FramesOK
  <2>3. QED  BY <2>1, <2>2, <1>q, HandlerSets
<1>7. ASSUME Crash PROVE RowsAreAnswers'
  BY <1>7 DEF Crash, RowsAreAnswers, TypeInv, OutsideOK
<1>8. CASE UNCHANGED vars
  BY <1>8 DEF vars, localVars, RowsAreAnswers
<1>9. QED
  BY <1>1, <1>2, <1>3, <1>4, <1>5, <1>6, <1>7, <1>8, EnqueueAnswers, CompleteAnswers,
     TurnStepAnswers
  DEF Next, DrainStep

\* A message in custody is not in memory: no handler writes a row for it but
\* the drain that is about to answer it, however many requests run at once.
\* (A crash may part the two: the row is kept and the drain is gone.)
THEOREM CustodyKeepsOutOfMemory == Spec => []CustodyIsNotMemory
<1>1. Init => RowsAreAnswers
  BY DEF Init, RowsAreAnswers
<1>2. RowsAreAnswers => CustodyIsNotMemory
  BY DEF RowsAreAnswers, CustodyIsNotMemory, Remembering
<1>3. Spec => []RowsAreAnswers
  BY <1>1, OrderInvariant, AnswersStep, PTL DEF Spec
<1>4. QED  BY <1>2, <1>3, PTL

-----------------------------------------------------------------------------
(* Turn numbers, of the hub of ApartSpec.  MCFamilyHub shows what the two    *)
(* events it leaves out do to them.                                          *)

Unseeded(s) == turn_idx_by_session[s] = Absent

\* No turn of session s that is still to come gets number i: the runtime counter
\* is past it or, before the first turn since a restart, all that may seed the
\* counter is: both session maps, and the index a handler took from them.
Spent(s, i) ==
    /\ s \in minted
    /\ ~ Unseeded(s) => i < Counter(s)
    /\ Unseeded(s) =>
         /\ s \notin ClientSids
         /\ \A k \in Pairs : sessions[k].sid = s => i < sessions[k].turn_idx
         /\ \A k \in Pairs : session_store[k].sid = s => i < session_store[k].turn_idx
         /\ \A h \in Handlers :
              pc[h] \in {"seedtest", "seed"} /\ sid[h] = s => i < carried[h]

\* A turn seeds a counter nobody has seeded, and past that the counter is there;
\* the number a turn holds is its session's next one.
Numbered(h) ==
    /\ pc[h] = "seed" => Unseeded(sid[h])
    /\ pc[h] = "cortex" /\ h \notin Generates => ~ Unseeded(sid[h])
    /\ pc[h] \in {"count", "record"} => ~ Unseeded(sid[h])
    /\ pc[h] \in {"write", "bump"} =>
         ~ Unseeded(sid[h]) /\ turn_idx[h] = Counter(sid[h])

NumbersInv ==
    /\ TurnsApart
    /\ \A h \in Handlers : Numbered(h)
    /\ \A a \in metrics : Spent(a.sid, a.turn_idx)
    /\ NoDuplicateTurnIdx

\* What was spent stays spent.
SpentStays == \A s \in Sids, i \in Nat : Spent(s, i) => Spent(s, i)'

LEMMA SidIsMinted ==
    ASSUME TypeInv, SessionInv, NEW h \in Handlers, InTurn(h)
    PROVE  sid[h] \in minted
<1>1. msg[h] \in Texts /\ sid[h] \in Sids
  BY DEF InTurn, TypeInv, FramesOK, TurnFrames
<1>2. CASE h \in Generates
  BY <1>2 DEF SessionInv, SidOK
<1>3. CASE h \notin Generates
  <2>1. Pair(msg[h]) \in Pairs /\ sid[h] = sessions[Pair(msg[h])].sid
    BY <1>1, <1>3, PairType DEF SessionInv, SidOK
  <2>2. QED  BY <1>1, <2>1, SessionAssumption DEF SessionInv, Accounted
<1>4. QED  BY <1>2, <1>3

\* A step that leaves the sessions and the counters alone, of a handler that
\* takes no index from them.
LEMMA QuietSpent ==
    ASSUME UNCHANGED sessionVars, NEW h \in Handlers, Others(h),
           pc'[h] \in {"seedtest", "seed"} =>
             pc[h] \in {"seedtest", "seed"} /\ sid'[h] = sid[h] /\ carried'[h] = carried[h]
    PROVE  SpentStays
<1>1. /\ sessions' = sessions /\ session_store' = session_store /\ minted' = minted
      /\ turn_idx_by_session' = turn_idx_by_session
  BY DEF sessionVars
<1>2. \A s : Counter(s)' = Counter(s) /\ Unseeded(s)' = Unseeded(s)
  BY <1>1 DEF Counter, Unseeded
<1> SUFFICES ASSUME NEW s \in Sids, NEW i \in Nat, Spent(s, i) PROVE Spent(s, i)'
  BY DEF SpentStays
<1>3. ASSUME NEW g \in Handlers, pc'[g] \in {"seedtest", "seed"}, sid'[g] = s, Unseeded(s)
      PROVE  i < carried'[g]
  BY <1>3 DEF Others, Spent
<1>4. QED  BY <1>1, <1>2, <1>3 DEF Spent

LEMMA QuietNumbered ==
    ASSUME UNCHANGED turn_idx_by_session, NEW h \in Handlers, Others(h), Numbered(h)',
           \A g \in Handlers : Numbered(g)
    PROVE  \A g \in Handlers : Numbered(g)'
<1>1. \A s : Counter(s)' = Counter(s) /\ Unseeded(s)' = Unseeded(s)
  BY DEF Counter, Unseeded
<1> SUFFICES ASSUME NEW g \in Handlers \ {h} PROVE Numbered(g)'
  OBVIOUS
<1>2. pc'[g] = pc[g] /\ sid'[g] = sid[g] /\ turn_idx'[g] = turn_idx[g]
  BY DEF Others
<1>3. Numbered(g)
  OBVIOUS
<1>4. QED  BY <1>1, <1>2, <1>3 DEF Numbered

\* A turn sets its session's counter: not back, and from the session's stored
\* index if there was none.
LEMMA CounterMoves ==
    ASSUME TypeInv, NEW h \in Handlers, Others(h), sid[h] \in Sids, NEW n \in Nat,
           SetCounter(sid[h], n), pc'[h] \notin {"seedtest", "seed"},
           ~ Unseeded(sid[h]) => Counter(sid[h]) <= n,
           Unseeded(sid[h]) => sid[h] \in ClientSids \/ (pc[h] = "seed" /\ n = carried[h])
    PROVE  /\ SpentStays
           /\ \A s \in Sids : s # sid[h] =>
                (Unseeded(s)' <=> Unseeded(s)) /\ Counter(s)' = Counter(s)
           /\ turn_idx_by_session'[sid[h]] = n
<1>1. /\ sessions' = sessions /\ session_store' = session_store /\ minted' = minted
      /\ \A s \in Sids : turn_idx_by_session'[s] = IF s = sid[h] THEN n
                                                   ELSE turn_idx_by_session[s]
      /\ \A s \in Sids : turn_idx_by_session[s] \in Nat \cup {Absent}
  BY DEF SetCounter, TypeInv, SessionsTypeOK
<1>2. \A s \in Sids : s # sid[h] => Counter(s)' = Counter(s) /\ (Unseeded(s)' <=> Unseeded(s))
  BY <1>1 DEF Counter, Unseeded
<1>3. turn_idx_by_session'[sid[h]] = n
  BY <1>1
<1>4. ASSUME NEW s \in Sids, NEW i \in Nat, Spent(s, i) PROVE Spent(s, i)'
  <2>1. CASE s = sid[h]
    <3>1. i < n
      <4>1. CASE Unseeded(s)
        BY <4>1, <1>4, <2>1 DEF Spent
      <4>2. CASE ~ Unseeded(s)
        BY <4>2, <1>1, <1>4, <2>1 DEF Spent, Counter, Unseeded, Absent
      <4>3. QED  BY <4>1, <4>2
    <3>2. turn_idx_by_session'[s] = n /\ s \in minted'
      BY <1>1, <1>4, <2>1 DEF Spent
    <3>3. ~ Unseeded(s)' /\ i < Counter(s)'
      BY <3>1, <3>2 DEF Unseeded, Counter, Absent
    <3>4. QED  BY <3>2, <3>3 DEF Spent
  <2>2. CASE s # sid[h]
    <3>1. ASSUME NEW g \in Handlers, pc'[g] \in {"seedtest", "seed"}, sid'[g] = s
          PROVE  pc[g] \in {"seedtest", "seed"} /\ sid[g] = s /\ carried'[g] = carried[g]
      BY <3>1 DEF Others
    <3>2. Counter(s)' = Counter(s) /\ (Unseeded(s)' <=> Unseeded(s))
      BY <1>2, <2>2
    <3>3. QED  BY <1>1, <1>4, <3>1, <3>2 DEF Spent
  <2>3. QED  BY <2>1, <2>2
<1>5. QED  BY <1>2, <1>3, <1>4 DEF SpentStays

\* No other turn holds a number of the session whose counter moves.
LEMMA CounterNumbered ==
    ASSUME TypeInv, NumbersInv, NEW h \in Handlers, Others(h), Numbering(h), sid[h] \in Sids,
           \A s \in Sids : s # sid[h] => (Unseeded(s)' <=> Unseeded(s)) /\ Counter(s)' = Counter(s)
    PROVE  \A g \in Handlers \ {h} : Numbered(g)'
<1> SUFFICES ASSUME NEW g \in Handlers \ {h} PROVE Numbered(g)'
  OBVIOUS
<1>1. pc'[g] = pc[g] /\ sid'[g] = sid[g] /\ turn_idx'[g] = turn_idx[g]
  BY DEF Others
<1>2. CASE ~ Numbering(g)
  BY <1>1, <1>2 DEF Numbering, Numbered, TurnStages
<1>3. CASE Numbering(g)
  <2>1. sid[g] # sid[h]
    BY <1>3 DEF NumbersInv, TurnsApart
  <2>2. sid[g] \in Sids
    BY <1>3 DEF Numbering, TypeInv, FramesOK, TurnFrames
  <2>3. Numbered(g)
    BY DEF NumbersInv
  <2>4. (Unseeded(sid[g])' <=> Unseeded(sid[g])) /\ Counter(sid[g])' = Counter(sid[g])
    BY <1>1, <2>1, <2>2 DEF Unseeded, Counter
  <2>5. QED  BY <1>1, <2>3, <2>4 DEF Numbered
<1>4. QED  BY <1>2, <1>3

\* A turn opens its session: a new id has no numbers yet, and a known one brings
\* the index that the session map holds.
LEMMA OpenNumbers ==
    ASSUME TypeInv, MemoryInv, NumbersInv, NEW h \in Handlers, OpenSession(h)
    PROVE  SpentStays /\ \A g \in Handlers : Numbered(g)'
<1> DEFINE k == Pair(msg[h])
<1>1. Others(h) /\ pc[h] = "session" /\ msg[h] \in Texts
  BY TurnOthers DEF TurnStep, OpenSession, TypeInv, FramesOK, TurnFrames, TurnStages
<1>2. k \in Pairs
  BY <1>1, PairType
<1>3. turn_idx_by_session' = turn_idx_by_session
  BY DEF OpenSession, Known, Mint, MintUnflushed, sessionVars
<1>4. /\ pc'[h] \in {"seedtest"} \cup Resting
      /\ pc'[h] = "seedtest" => sid'[h] = sessions'[k].sid /\ carried'[h] = sessions'[k].turn_idx
  <2>1. CASE /\ Goto(h, "seedtest")
             /\ sid' = [sid EXCEPT ![h] = sessions'[k].sid]
             /\ carried' = [carried EXCEPT ![h] = sessions'[k].turn_idx]
    BY <2>1 DEF Goto, TypeInv, FramesOK
  <2>2. CASE Abort(h, "failed")
    BY <2>2 DEF Abort, Leave, Goto, TypeInv, FramesOK, Resting, Ended
  <2>3. QED  BY <2>1, <2>2 DEF OpenSession
<1>5. Numbered(h)'
  BY <1>4 DEF Numbered, Resting, Ended
<1>6. \A g \in Handlers : Numbered(g)'
  BY <1>1, <1>3, <1>5, QuietNumbered DEF NumbersInv
<1>7. \/ UNCHANGED <<sessions, session_store, minted>>
      \/ \E s \in Sids : Minting(k, s)
  BY DEF OpenSession, Known, Mint, MintUnflushed, Minting, sessionVars
<1> HIDE DEF k
<1>8. ASSUME NEW s \in Sids, NEW i \in Nat, Spent(s, i) PROVE Spent(s, i)'
  <2>1. (Unseeded(s)' <=> Unseeded(s)) /\ Counter(s)' = Counter(s)
    BY <1>3 DEF Unseeded, Counter
  <2>2. /\ s \in minted'
        /\ \A l \in Pairs : sessions'[l].sid = s =>
             sessions[l].sid = s /\ sessions'[l].turn_idx = sessions[l].turn_idx
        /\ \A l \in Pairs : session_store'[l].sid = s =>
             \/ session_store[l].sid = s /\ session_store'[l].turn_idx = session_store[l].turn_idx
             \/ sessions[l].sid = s /\ session_store'[l].turn_idx = sessions[l].turn_idx
    <3>1. CASE UNCHANGED <<sessions, session_store, minted>>
      BY <3>1, <1>8 DEF Spent
    <3>2. CASE \E t \in Sids : Minting(k, t)
      <4>1. PICK t \in Sids : Minting(k, t)
        BY <3>2
      <4>2. t \notin minted /\ minted' = minted \cup {t} /\ s \in minted
        BY <4>1, <1>8 DEF Minting, Spent
      <4>3. \A l \in Pairs : sessions'[l] = IF l = k THEN [sid |-> t, turn_idx |-> 0]
                                            ELSE sessions[l]
        BY <4>1, <1>2 DEF Minting, TypeInv, SessionsTypeOK
      <4>4. session_store' = session_store \/ session_store' = sessions'
        BY <4>1 DEF Minting
      <4>5. QED  BY <4>2, <4>3, <4>4
    <3>3. QED  BY <1>7, <3>1, <3>2
  <2>3. ASSUME Unseeded(s), NEW g \in Handlers, pc'[g] \in {"seedtest", "seed"}, sid'[g] = s
        PROVE  i < carried'[g]
    <3>1. CASE g = h
      BY <3>1, <2>2, <2>3, <1>2, <1>4, <1>8 DEF Spent, Resting, Ended
    <3>2. CASE g # h
      BY <3>2, <2>3, <1>1, <1>8 DEF Spent, Others
    <3>3. QED  BY <3>1, <3>2
  <2>4. QED  BY <1>8, <2>1, <2>2, <2>3 DEF Spent
<1>9. QED  BY <1>6, <1>8 DEF SpentStays

\* record_turn overwrites the index of a session whose counter is there; the flush
\* takes along what memory holds of the others.
LEMMA RecordNumbers ==
    ASSUME TypeInv, MemoryInv, NumbersInv, NEW h \in Handlers, Record(h)
    PROVE  SpentStays /\ \A g \in Handlers : Numbered(g)'
<1> DEFINE k == Pair(msg[h])
<1>1. /\ Others(h) /\ pc[h] = "record" /\ InTurn(h) /\ msg[h] \in Texts
      /\ UNCHANGED <<minted, turn_idx_by_session>>
  BY TurnOthers
     DEF TurnStep, Record, RecordTurn, InTurn, TypeInv, FramesOK, TurnFrames, TurnStages
<1>2. k \in Pairs
  BY <1>1, PairType
<1>3. sid[h] = sessions[k].sid /\ ~ Unseeded(sid[h])
  BY <1>1 DEF MemoryInv, SessionInv, SidOK, MemberStages, NumbersInv, Numbered
<1>4. pc'[h] \in {"complete"} \cup Resting
  BY DEF Record, Leave, Goto, TypeInv, FramesOK, Resting, Ended
<1>5. Numbered(h)'
  BY <1>4 DEF Numbered, Resting, Ended
<1>6. \A g \in Handlers : Numbered(g)'
  BY <1>1, <1>5, QuietNumbered DEF NumbersInv
<1>7. \A l \in Pairs : /\ sessions'[l].sid = sessions[l].sid
                       /\ l # k => sessions'[l] = sessions[l]
  BY <1>2 DEF Record, RecordTurn, TypeInv, SessionsTypeOK, Session
<1>8. session_store' = session_store \/ session_store' = sessions'
  BY DEF Record, RecordTurn
<1> HIDE DEF k
<1>9. ASSUME NEW s \in Sids, NEW i \in Nat, Spent(s, i) PROVE Spent(s, i)'
  <2>1. (Unseeded(s)' <=> Unseeded(s)) /\ Counter(s)' = Counter(s) /\ minted' = minted
    BY <1>1 DEF Unseeded, Counter
  <2>2. CASE ~ Unseeded(s)
    BY <1>9, <2>1, <2>2 DEF Spent
  <2>3. CASE Unseeded(s)
    <3>1. \A l \in Pairs : sessions'[l].sid = s => i < sessions'[l].turn_idx
      BY <1>3, <1>7, <1>9, <2>3 DEF Spent
    <3>2. \A l \in Pairs : session_store'[l].sid = s => i < session_store'[l].turn_idx
      BY <1>8, <1>9, <2>3, <3>1 DEF Spent
    <3>3. \A g \in Handlers : pc'[g] \in {"seedtest", "seed"} =>
             pc[g] \in {"seedtest", "seed"} /\ sid'[g] = sid[g] /\ carried'[g] = carried[g]
      BY <1>1, <1>4 DEF Others, Resting, Ended
    <3>4. QED  BY <1>9, <2>1, <2>3, <3>1, <3>2, <3>3 DEF Spent
  <2>4. QED  BY <2>2, <2>3
<1>10. QED  BY <1>6, <1>9 DEF SpentStays

LEMMA TurnStepNumbers ==
    ASSUME TypeInv, MemoryInv, NumbersInv, NEW h \in Handlers, TurnStep(h)
    PROVE  SpentStays /\ \A g \in Handlers : Numbered(g)'
<1>o. Others(h) /\ pc[h] \in TurnStages
  BY TurnOthers, TurnStepShape
<1>s. /\ pc[h] # "session" => sid[h] \in Sids /\ Counter(sid[h]) \in Nat
      /\ pc[h] \notin {"session", "complete"} => Numbering(h)
  BY <1>o, CounterType DEF TypeInv, FramesOK, TurnFrames, Numbering
<1>t. /\ carried \in [Handlers -> Nat] /\ pc \in [Handlers -> Stages]
      /\ turn_idx \in [Handlers -> Nat] /\ sid \in [Handlers -> Sids \cup {NoSid}]
      /\ turn_idx_by_session \in [Sids -> Nat \cup {Absent}]
  BY DEF TypeInv, FramesOK, SessionsTypeOK
<1>n. Numbered(h) /\ \A g \in Handlers : Numbered(g)
  BY DEF NumbersInv
\* A turn that is over.
<1>l. ASSUME NEW stage \in Resting, Leave(h, stage) \/ Abort(h, stage)
      PROVE  pc'[h] \notin {"seedtest", "seed"} /\ Numbered(h)'
  <2>1. pc'[h] \in Resting
    BY <1>l, <1>t DEF Leave, Abort, Goto, Resting
  <2>2. QED  BY <2>1 DEF Resting, Ended, Numbered
\* The end of the turn's numbering: its counter stays.
<1>a. ASSUME AfterTurn(h), turn_idx_by_session'[sid[h]] # Absent
      PROVE  pc'[h] \notin {"seedtest", "seed"} /\ Numbered(h)'
  <2>1. CASE Leave(h, "answered")
    BY <2>1, <1>l DEF Resting, Ended
  <2>2. CASE Goto(h, "count") /\ UNCHANGED <<member, todo, msg, sid, carried, turn_idx>>
    <3>1. pc'[h] = "count" /\ sid' = sid
      BY <2>2, <1>t DEF Goto
    <3>2. QED  BY <3>1, <1>a DEF Numbered, Unseeded
  <2>3. QED  BY <1>a, <2>1, <2>2 DEF AfterTurn
<1>1. CASE OpenSession(h)
  BY <1>1, OpenNumbers
<1>2. CASE SeedTest(h)
  <2>1. /\ pc[h] = "seedtest" /\ UNCHANGED <<sessionVars, sid, carried, turn_idx>>
        /\ pc'[h] = IF Unseeded(sid[h]) THEN "seed" ELSE "cortex"
    BY <1>2, <1>t DEF SeedTest, Goto, Unseeded
  <2>2. turn_idx_by_session' = turn_idx_by_session
    BY <2>1 DEF sessionVars
  <2>3. Numbered(h)'
    BY <2>1, <2>2 DEF Numbered, Unseeded
  <2>4. QED  BY <1>o, <1>n, <2>1, <2>2, <2>3, QuietSpent, QuietNumbered
<1>3. CASE Seed(h)
  <2>1. pc[h] = "seed" /\ pc'[h] = "cortex" /\ sid' = sid /\ SetCounter(sid[h], carried[h])
    BY <1>3, <1>t DEF Seed, Goto
  <2>2. Unseeded(sid[h])
    BY <1>n, <2>1 DEF Numbered
  <2>3. /\ SpentStays /\ turn_idx_by_session'[sid[h]] = carried[h]
        /\ \A g \in Handlers \ {h} : Numbered(g)'
    BY <1>o, <1>s, <1>t, <2>1, <2>2, CounterMoves, CounterNumbered
  <2>4. Numbered(h)'
    BY <1>t, <2>1, <2>3 DEF Numbered, Unseeded, Absent
  <2>5. QED  BY <2>3, <2>4
<1>4. CASE CortexAnswers(h)
  <2>1. /\ pc[h] = "cortex" /\ pc'[h] = "write" /\ sid' = sid
        /\ SetCounter(sid[h], Counter(sid[h])) /\ turn_idx'[h] = Counter(sid[h])
    BY <1>4, <1>t DEF CortexAnswers, Goto
  <2>2. Unseeded(sid[h]) => sid[h] \in ClientSids
    BY <1>n, <2>1 DEF Numbered, MemoryInv, SessionInv, SidOK, InTurn, TurnStages
  <2>3. /\ SpentStays /\ turn_idx_by_session'[sid[h]] = Counter(sid[h])
        /\ \A g \in Handlers \ {h} : Numbered(g)'
    BY <1>o, <1>s, <2>1, <2>2, CounterMoves, CounterNumbered
  <2>4. Numbered(h)'
    BY <1>s, <2>1, <2>3 DEF Numbered, Unseeded, Counter, Absent
  <2>5. QED  BY <2>3, <2>4
<1>5. CASE CortexDown(h)
  <2>1. /\ pc[h] = "cortex" /\ SetCounter(sid[h], Counter(sid[h]))
        /\ pc'[h] \notin {"seedtest", "seed"} /\ Numbered(h)'
    BY <1>5, <1>l DEF CortexDown, Resting, Ended
  <2>2. Unseeded(sid[h]) => sid[h] \in ClientSids
    BY <1>n, <2>1 DEF Numbered, MemoryInv, SessionInv, SidOK, InTurn, TurnStages
  <2>3. SpentStays /\ \A g \in Handlers \ {h} : Numbered(g)'
    BY <1>o, <1>s, <2>1, <2>2, CounterMoves, CounterNumbered
  <2>4. QED  BY <2>1, <2>3
<1>6. CASE MemoryWritten(h)
  <2>1. /\ pc[h] = "write" /\ pc'[h] = "bump" /\ UNCHANGED <<sessionVars, sid, turn_idx>>
    BY <1>6, <1>t DEF MemoryWritten, Goto
  <2>2. turn_idx_by_session' = turn_idx_by_session
    BY <2>1 DEF sessionVars
  <2>3. Numbered(h)'
    BY <1>n, <2>1, <2>2 DEF Numbered, Unseeded, Counter
  <2>4. QED  BY <1>o, <1>n, <2>1, <2>2, <2>3, QuietSpent, QuietNumbered
<1>7. CASE MemoryWriteFails(h)
  <2>1. pc[h] = "write" /\ UNCHANGED sessionVars /\ AfterTurn(h)
    BY <1>7 DEF MemoryWriteFails
  <2>2. turn_idx_by_session' = turn_idx_by_session
    BY <2>1 DEF sessionVars
  <2>3. turn_idx_by_session'[sid[h]] # Absent
    BY <1>n, <2>1, <2>2 DEF Numbered, Unseeded
  <2>4. QED  BY <1>o, <1>n, <1>a, <2>1, <2>2, <2>3, QuietSpent, QuietNumbered
<1>8. CASE BumpCounter(h)
  <2>1. /\ pc[h] = "bump" /\ AfterTurn(h) /\ SetCounter(sid[h], turn_idx[h] + 1)
    BY <1>8 DEF BumpCounter
  <2>2. ~ Unseeded(sid[h]) /\ turn_idx[h] = Counter(sid[h]) /\ turn_idx[h] \in Nat
    BY <1>n, <1>t, <2>1 DEF Numbered
  <2>3. turn_idx_by_session'[sid[h]] = turn_idx[h] + 1
    BY <1>s, <1>t, <2>1 DEF SetCounter
  <2>4. pc'[h] \notin {"seedtest", "seed"} /\ Numbered(h)'
    BY <1>a, <2>1, <2>2, <2>3 DEF Absent
  <2>5. SpentStays /\ \A g \in Handlers \ {h} : Numbered(g)'
    BY <1>o, <1>s, <2>1, <2>2, <2>4, CounterMoves, CounterNumbered
  <2>6. QED  BY <2>4, <2>5
<1>9. CASE ReadCounter(h)
  <2>1. /\ pc[h] = "count" /\ pc'[h] = "record" /\ UNCHANGED <<sessionVars, sid, turn_idx>>
    BY <1>9, <1>t DEF ReadCounter, Goto
  <2>2. turn_idx_by_session' = turn_idx_by_session
    BY <2>1 DEF sessionVars
  <2>3. Numbered(h)'
    BY <1>n, <2>1, <2>2 DEF Numbered, Unseeded
  <2>4. QED  BY <1>o, <1>n, <2>1, <2>2, <2>3, QuietSpent, QuietNumbered
<1>10. CASE Record(h)
  BY <1>10, RecordNumbers
<1>11. QED
  BY <1>1, <1>2, <1>3, <1>4, <1>5, <1>6, <1>7, <1>8, <1>9, <1>10 DEF TurnStep

\* The steps outside a turn and a crash leave sessions, counters, rows and metrics
\* alone, and move one handler to a stage that holds no number.
LEMMA OutsideTurns ==
    ASSUME TypeInv, Next, ~ Crash, ~ \E h \in Handlers : TurnStep(h)
    PROVE  /\ UNCHANGED <<sessionVars, rows, metrics>>
           /\ \E h \in Handlers :
                /\ Others(h) /\ pc[h] # "bump"
                /\ pc'[h] \notin {"seedtest", "seed", "write", "bump", "count", "record"}
                /\ pc'[h] = "cortex" => h \in Generates
<1> DEFINE Outside(h) ==
             /\ UNCHANGED <<sessionVars, rows, metrics>>
             /\ Others(h) /\ pc[h] # "bump"
             /\ pc'[h] \notin {"seedtest", "seed", "write", "bump", "count", "record"}
             /\ pc'[h] = "cortex" => h \in Generates
<1>t. pc \in [Handlers -> Stages] /\ sid \in [Handlers -> Sids \cup {NoSid}]
      /\ msg \in [Handlers -> Texts \cup {NoText}]
  BY DEF TypeInv, FramesOK
<1>1. ASSUME NEW c \in Chats, ReadPresence(c) PROVE Outside(c)
  <2>1. c \in Handlers /\ Others(c)
    BY <1>1, HandlerSets, GotoMoves DEF ReadPresence
  <2>2. pc'[c] \in {"loading", "enqueue", "session"}
    BY <1>1, <1>t, <2>1 DEF ReadPresence, Goto
  <2>3. QED  BY <1>1, <2>1, <2>2 DEF ReadPresence
<1>2. ASSUME NEW c \in Chats, EnqueueMessage(c) PROVE Outside(c)
  <2>1. c \in Handlers /\ Others(c) /\ pc'[c] = "queued"
    BY <1>2, HandlerSets, LeaveMoves
       DEF EnqueueMessage, Leave, Goto, TypeInv, FramesOK, Resting, Ended
  <2>2. QED  BY <1>2, <2>1 DEF EnqueueMessage
<1>3. ASSUME NEW x \in Texts, Resend(x) PROVE Outside(x)
  BY <1>3, HandlerSets, GotoMoves DEF Resend
<1>4. ASSUME NEW g \in Generates, Generate(g) PROVE Outside(g)
  <2>1. g \in Handlers /\ \A h \in Handlers \ {g} : msg'[h] = msg[h] /\ sid'[h] = sid[h]
    BY <1>4, <1>t, HandlerSets DEF Generate
  <2>2. Others(g) /\ pc'[g] = "cortex"
    BY <1>4, <2>1, GotoMoves DEF Generate
  <2>3. QED  BY <1>4, <2>2 DEF Generate
<1>5. ASSUME NEW r \in Reporters, NEW m \in Members, NEW state \in PRESENCE_STATES,
             Report(r, m, state)
      PROVE Outside(r)
  <2>1. CASE state = "awake"
    <3>1. Others(r) /\ pc'[r] = "snapshot"
      BY <1>5, <2>1, HandlerSets, GotoMoves DEF Report
    <3>2. QED  BY <1>5, <3>1 DEF Report
  <2>2. CASE state # "awake"
    <3>1. Others(r) /\ pc' = pc /\ pc[r] = "idle"
      BY <1>5, <2>2 DEF Report, Others
    <3>2. QED  BY <1>5, <3>1 DEF Report
  <2>3. QED  BY <2>1, <2>2
<1>6. ASSUME NEW r \in Reporters, Snapshot(r) PROVE Outside(r)
  BY <1>6, HandlerSets, GotoMoves DEF Snapshot
<1>7. ASSUME NEW r \in Reporters, NextMessage(r) PROVE Outside(r)
  <2>0. r \in Handlers /\ pc[r] = "next" /\ UNCHANGED <<sessionVars, rows, metrics>>
    BY <1>7, HandlerSets DEF NextMessage
  <2>1. CASE Leave(r, "idle")
    <3>1. Others(r) /\ pc'[r] = "idle"
      BY <2>0, <2>1, LeaveMoves DEF Leave, Goto, TypeInv, FramesOK, Resting
    <3>2. QED  BY <2>0, <3>1
  <2>2. ASSUME NEW c \in todo[r], Goto(r, "session"), msg' = [msg EXCEPT ![r] = c],
               UNCHANGED <<member, todo, sid, carried, turn_idx>>
        PROVE  Outside(r)
    <3>1. \A g \in Handlers \ {r} : msg'[g] = msg[g]
      BY <1>t, <2>2
    <3>2. Others(r) /\ pc'[r] = "session"
      BY <2>0, <2>2, <3>1, GotoMoves
    <3>3. QED  BY <2>0, <3>2
  <2>3. QED  BY <1>7, <2>1, <2>2 DEF NextMessage
<1>8. ASSUME NEW r \in Reporters, Complete(r) PROVE Outside(r)
  <2>1. r \in Handlers /\ Others(r) /\ pc'[r] = "next"
    BY <1>8, HandlerSets DEF Complete, TurnDone, Goto, Others, TypeInv, FramesOK
  <2>2. QED  BY <1>8, <2>1 DEF Complete
<1> HIDE DEF Outside
<1>9. \E h \in Handlers : Outside(h)
  BY <1>1, <1>2, <1>3, <1>4, <1>5, <1>6, <1>7, <1>8, HandlerSets DEF Next, DrainStep
<1>10. QED  BY <1>9 DEF Outside

\* A death that takes no unsaved counter leaves every spent number below what the
\* file seeds the counter with.
LEMMA CrashNumbers ==
    ASSUME TypeInv, MemoryInv, Crash, CountersSaved
    PROVE  SpentStays /\ \A g \in Handlers : Numbered(g)' /\ pc'[g] # "bump"
<1>1. /\ session_store' = session_store /\ minted' = minted
      /\ \A s \in Sids : Unseeded(s)'
      /\ \A h \in Handlers : pc'[h] \in Resting
  BY DEF Crash, SessionsRestart, Unseeded, Resting, Ended
<1>2. \/ sessions' = session_store
      \/ \A k \in Pairs : sessions'[k].sid = NoSid
  BY DEF Crash, SessionsRestart, Unminted
<1>3. \A g \in Handlers : Numbered(g)' /\ pc'[g] \notin {"bump", "seedtest", "seed"}
  BY <1>1 DEF Numbered, Resting, Ended
<1>4. ASSUME NEW s \in Sids, NEW i \in Nat, Spent(s, i) PROVE Spent(s, i)'
  <2>1. /\ s \notin ClientSids
        /\ \A k \in Pairs : session_store[k].sid = s => i < session_store[k].turn_idx
    <3>1. CASE Unseeded(s)
      BY <3>1, <1>4 DEF Spent
    <3>2. CASE ~ Unseeded(s)
      <4>1. i < Counter(s) /\ Counter(s) \in Nat
        BY <3>2, <1>4, CounterType DEF Spent, TypeInv
      <4>2. PICK k \in Pairs : session_store[k] = [sid |-> s, turn_idx |-> Counter(s)]
        BY <4>1 DEF CountersSaved
      <4>3. session_store[k].sid = s /\ session_store[k].turn_idx = Counter(s)
        BY <4>2
      <4>4. s # NoSid
        BY SessionAssumption
      <4>5. s \notin ClientSids
        BY <4>3, <4>4 DEF MemoryInv, SessionInv, Accounted
      <4>6. \A l \in Pairs : session_store[l].sid = s => l = k
        BY <4>3, <4>4 DEF MemoryInv, SessionInv, Distinct
      <4>7. QED  BY <4>1, <4>3, <4>5, <4>6
    <3>3. QED  BY <3>1, <3>2
  <2>2. \A k \in Pairs : sessions'[k].sid = s => i < sessions'[k].turn_idx
    BY <1>2, <2>1, SessionAssumption
  <2>3. s \in minted'
    BY <1>1, <1>4 DEF Spent
  <2>4. QED  BY <1>1, <1>3, <2>1, <2>2, <2>3 DEF Spent
<1>5. QED  BY <1>3, <1>4 DEF SpentStays

\* So what is spent stays spent at every step, and turns stay numbered.
LEMMA NumbersKept ==
    ASSUME TypeInv, MemoryInv, NumbersInv, Next, Apart
    PROVE  SpentStays /\ \A g \in Handlers : Numbered(g)'
<1>1. CASE \E h \in Handlers : TurnStep(h)
  BY <1>1, TurnStepNumbers
<1>2. CASE Crash
  BY <1>2, CrashNumbers DEF Apart, Crash, TypeInv, OutsideOK
<1>3. CASE ~ Crash /\ ~ \E h \in Handlers : TurnStep(h)
  <2>1. PICK h \in Handlers :
          /\ UNCHANGED sessionVars
          /\ Others(h)
          /\ pc'[h] \notin {"seedtest", "seed", "write", "bump", "count", "record"}
          /\ pc'[h] = "cortex" => h \in Generates
    BY <1>3, OutsideTurns
  <2>2. Numbered(h)'
    BY <2>1 DEF Numbered
  <2>3. turn_idx_by_session' = turn_idx_by_session
    BY <2>1 DEF sessionVars
  <2>4. QED  BY <2>1, <2>2, <2>3, QuietSpent, QuietNumbered DEF NumbersInv
<1>4. QED  BY <1>1, <1>2, <1>3

\* Metrics are added by the step that moves the counter past their number.
LEMMA MetricsGrow ==
    ASSUME TypeInv, Next
    PROVE  \/ metrics' = metrics
           \/ \E h \in Handlers : BumpCounter(h)
<1>1. CASE \E h \in Handlers : TurnStep(h)
  BY <1>1 DEF TurnStep, OpenSession, SeedTest, Seed, CortexAnswers, CortexDown, MemoryWritten,
     MemoryWriteFails, ReadCounter, Record
<1>2. CASE Crash
  BY <1>2 DEF Crash
<1>3. CASE ~ Crash /\ ~ \E h \in Handlers : TurnStep(h)
  BY <1>3, OutsideTurns
<1>4. QED  BY <1>1, <1>2, <1>3

\* The number of a turn about to move the counter is the next one, and the step
\* spends it.
BumpSpends(h) ==
    /\ ~ Unseeded(sid[h]) /\ turn_idx[h] = Counter(sid[h]) /\ turn_idx[h] \in Nat
    /\ \A s, i : s = sid[h] /\ i = turn_idx[h] => Spent(s, i)'

LEMMA BumpIsSpent ==
    ASSUME TypeInv, MemoryInv, NumbersInv, NEW h \in Handlers, BumpCounter(h)
    PROVE  BumpSpends(h)
<1>1. pc[h] = "bump" /\ SetCounter(sid[h], turn_idx[h] + 1)
  BY DEF BumpCounter
<1>2. sid[h] \in Sids /\ turn_idx[h] \in Nat /\ InTurn(h)
  BY <1>1 DEF InTurn, TypeInv, FramesOK, TurnFrames, TurnStages
<1>3. ~ Unseeded(sid[h]) /\ turn_idx[h] = Counter(sid[h])
  BY <1>1 DEF NumbersInv, Numbered
<1>4. sid[h] \in minted /\ minted' = minted
  BY <1>1, <1>2, SidIsMinted DEF MemoryInv, SetCounter
<1>5. turn_idx_by_session'[sid[h]] = turn_idx[h] + 1
  BY <1>1, <1>2 DEF SetCounter, TypeInv, SessionsTypeOK
<1>6. ASSUME NEW s, NEW i, s = sid[h], i = turn_idx[h] PROVE Spent(s, i)'
  <2>1. ~ Unseeded(s)' /\ Counter(s)' = i + 1 /\ i \in Nat
    BY <1>2, <1>5, <1>6 DEF Unseeded, Counter, Absent
  <2>2. QED  BY <1>4, <1>6, <2>1 DEF Spent
<1>7. QED  BY <1>2, <1>3, <1>6 DEF BumpSpends

LEMMA NumbersInit == Init => NumbersInv
  BY DEF Init, NumbersInv, TurnsApart, Numbering, Numbered, NoDuplicateTurnIdx, TurnStages

LEMMA NumbersStep == TypeInv /\ MemoryInv /\ NumbersInv /\ [Next /\ Apart]_vars => NumbersInv'
<1> SUFFICES ASSUME TypeInv, MemoryInv, NumbersInv, [Next /\ Apart]_vars PROVE NumbersInv'
  OBVIOUS
<1>t. \A a \in metrics : a.sid \in Sids /\ a.turn_idx \in Nat
  BY DEF TypeInv, OutsideOK, MetricRecord
<1>1. CASE UNCHANGED vars
  BY <1>1 DEF vars, localVars, sessionVars, NumbersInv, TurnsApart, Numbering, Numbered,
              Unseeded, Spent, Counter, NoDuplicateTurnIdx
<1>2. CASE Next /\ Apart
  <2>1. SpentStays /\ \A g \in Handlers : Numbered(g)'
    BY <1>2, NumbersKept
  <2>2. TurnsApart'
    BY <1>2 DEF Apart
  <2>3. \A a \in metrics : Spent(a.sid, a.turn_idx) /\ Spent(a.sid, a.turn_idx)'
    BY <1>t, <2>1 DEF SpentStays, NumbersInv
  <2>4. CASE metrics' = metrics
    <3>1. \A a \in metrics' : Spent(a.sid, a.turn_idx)'
      BY <2>3, <2>4
    <3>2. NoDuplicateTurnIdx'
      BY <2>4 DEF NumbersInv, NoDuplicateTurnIdx
    <3>3. QED  BY <2>1, <2>2, <3>1, <3>2 DEF NumbersInv
  <2>5. ASSUME NEW h \in Handlers, BumpCounter(h) PROVE NumbersInv'
    <3>0. PICK new : new = [sid |-> sid[h], turn_idx |-> turn_idx[h], text |-> msg[h]]
      OBVIOUS
    <3>1. /\ metrics' = metrics \cup {new}
          /\ new.sid = sid[h] /\ new.turn_idx = turn_idx[h]
      BY <2>5, <3>0 DEF BumpCounter
    <3>2. BumpSpends(h)
      BY <2>5, BumpIsSpent
    <3>3. \A a \in metrics : ~ (a.sid = new.sid /\ a.turn_idx = new.turn_idx)
      BY <1>t, <2>3, <3>1, <3>2 DEF BumpSpends, Spent
    <3>4. Spent(new.sid, new.turn_idx)'
      BY <3>1, <3>2 DEF BumpSpends
    <3>5. \A a \in metrics' : Spent(a.sid, a.turn_idx)'
      BY <2>3, <3>1, <3>4
    <3>6. NoDuplicateTurnIdx'
      BY <3>1, <3>3 DEF NumbersInv, NoDuplicateTurnIdx
    <3>7. QED  BY <2>1, <2>2, <3>5, <3>6 DEF NumbersInv
  <2>6. QED  BY <1>2, <2>4, <2>5, MetricsGrow
<1>3. QED  BY <1>1, <1>2

\* No two turns report the same index of a session, however many requests run at
\* once and whatever fails, if turns of one session do not overlap and no death
\* takes an unsaved counter; a row that arrives late changes nothing here.
THEOREM NoIndexTwice == ApartSpec => []NoDuplicateTurnIdx
<1>1. NumbersInv => NoDuplicateTurnIdx
  BY DEF NumbersInv
<1>2. [Next /\ Apart]_vars => [Next]_vars
  OBVIOUS
<1>3. QED
  BY <1>1, <1>2, TypeInit, TypeStep, MemoryInit, MemoryStep, NumbersInit, NumbersStep, PTL
     DEF ApartSpec

-----------------------------------------------------------------------------
(* What a reply claims to remember, if the embedder stores no row after its  *)
(* caller gave it up.                                                        *)

\* The rows with number i of session s are the one of the turn about to move the
\* counter past it.
Pending(s, i) == \E h \in Handlers : pc[h] = "bump" /\ sid[h] = s /\ turn_idx[h] = i

\* The row of turn h, under its own number.
OwnRow(h) ==
    \E row \in rows : row.sid = sid[h] /\ row.turn_idx = turn_idx[h] /\ row.text = msg[h]

RowsInv ==
    /\ \A row \in rows : Spent(row.sid, row.turn_idx) \/ Pending(row.sid, row.turn_idx)
    /\ \A h \in Handlers : pc[h] = "bump" => OwnRow(h)
    /\ ClaimedMemoryIsKept

\* A step that adds no row and no metric, and leaves the turns about to move a
\* counter where they are.
LEMMA RowsKept ==
    ASSUME TypeInv, RowsInv, SpentStays, UNCHANGED <<rows, metrics>>, NEW h \in Handlers,
           Others(h), pc[h] # "bump", pc'[h] # "bump"
    PROVE  RowsInv'
<1>1. \A row \in rows : row.sid \in Sids /\ row.turn_idx \in Nat
  BY DEF TypeInv, OutsideOK, Row
<1>2. \A g \in Handlers : pc'[g] = "bump" <=> pc[g] = "bump"
  BY DEF Others
<1>3. \A g \in Handlers : pc[g] = "bump" =>
        sid'[g] = sid[g] /\ turn_idx'[g] = turn_idx[g] /\ msg'[g] = msg[g]
  BY DEF Others
<1>4. ASSUME NEW row \in rows
      PROVE  Spent(row.sid, row.turn_idx)' \/ Pending(row.sid, row.turn_idx)'
  <2>1. CASE Spent(row.sid, row.turn_idx)
    BY <1>1, <2>1 DEF SpentStays
  <2>2. CASE Pending(row.sid, row.turn_idx)
    BY <1>2, <1>3, <2>2 DEF Pending
  <2>3. QED  BY <2>1, <2>2 DEF RowsInv
<1>5. \A g \in Handlers : pc'[g] = "bump" => OwnRow(g)'
  BY <1>2, <1>3 DEF RowsInv, OwnRow
<1>6. ClaimedMemoryIsKept'
  BY DEF RowsInv, ClaimedMemoryIsKept
<1>7. QED  BY <1>4, <1>5, <1>6 DEF RowsInv

\* The row of a turn goes in: no row has its id, because the counter is past them
\* all and no other turn of the session holds the same number.
LEMMA RowIsNew ==
    ASSUME TypeInv, NumbersInv, RowsInv, SpentStays, NEW h \in Handlers, MemoryWritten(h)
    PROVE  RowsInv'
<1>1. pc[h] = "write" /\ sid[h] \in Sids /\ turn_idx[h] \in Nat
  BY DEF MemoryWritten, TypeInv, FramesOK, TurnFrames, TurnStages
<1>2. /\ Others(h) /\ pc'[h] = "bump" /\ sid' = sid /\ turn_idx' = turn_idx /\ msg' = msg
      /\ metrics' = metrics
  BY GotoMoves DEF MemoryWritten
<1>3. ~ Unseeded(sid[h]) /\ turn_idx[h] = Counter(sid[h])
  BY <1>1 DEF NumbersInv, Numbered
<1>4. PICK new : new = TurnRow(sid[h], turn_idx[h], msg[h], From[msg[h]], To[msg[h]])
  OBVIOUS
<1>5. new.sid = sid[h] /\ new.turn_idx = turn_idx[h] /\ new.text = msg[h]
  BY <1>4 DEF TurnRow
<1>6. ASSUME NEW row \in rows PROVE ~ SameId(row, new)
  <2>1. ~ Spent(sid[h], turn_idx[h])
    BY <1>1, <1>3 DEF Spent
  <2>2. ~ Pending(sid[h], turn_idx[h])
    BY <1>1 DEF Pending, NumbersInv, TurnsApart, Numbering, TurnStages
  <2>3. QED  BY <1>5, <2>1, <2>2 DEF RowsInv, SameId
<1>7. rows' = rows \cup {new}
  BY <1>4, <1>6 DEF MemoryWritten, WriteTurn, MemoryWrite, AddRow
<1>8. \A row \in rows : row.sid \in Sids /\ row.turn_idx \in Nat
  BY DEF TypeInv, OutsideOK, Row
<1>9. ASSUME NEW row \in rows'
      PROVE  Spent(row.sid, row.turn_idx)' \/ Pending(row.sid, row.turn_idx)'
  <2>1. CASE row = new
    BY <1>2, <1>5, <2>1 DEF Pending
  <2>2. CASE row \in rows /\ Spent(row.sid, row.turn_idx)
    BY <1>8, <2>2 DEF SpentStays
  <2>3. CASE row \in rows /\ Pending(row.sid, row.turn_idx)
    BY <1>1, <1>2, <2>3 DEF Pending, Others
  <2>4. QED  BY <1>7, <2>1, <2>2, <2>3 DEF RowsInv
<1>10. ASSUME NEW g \in Handlers, pc'[g] = "bump" PROVE OwnRow(g)'
  <2>1. CASE g = h
    BY <1>2, <1>5, <1>7, <2>1 DEF OwnRow
  <2>2. CASE g # h
    BY <1>2, <1>7, <1>10, <2>2 DEF OwnRow, Others, RowsInv
  <2>3. QED  BY <2>1, <2>2
<1>11. ClaimedMemoryIsKept'
  BY <1>2, <1>7 DEF RowsInv, ClaimedMemoryIsKept
<1>12. QED  BY <1>9, <1>10, <1>11 DEF RowsInv

\* The counter moves past the turn's own row, which the metric names.
LEMMA RowIsSpent ==
    ASSUME TypeInv, MemoryInv, NumbersInv, RowsInv, SpentStays, NEW h \in Handlers, BumpCounter(h)
    PROVE  RowsInv'
<1>1. Others(h) /\ pc[h] = "bump" /\ rows' = rows
  BY TurnOthers DEF TurnStep, BumpCounter
<1>2. pc'[h] # "bump"
  BY DEF BumpCounter, AfterTurn, Leave, Goto, TypeInv, FramesOK
<1>3. BumpSpends(h)
  BY BumpIsSpent
<1>4. \A row \in rows : row.sid \in Sids /\ row.turn_idx \in Nat
  BY DEF TypeInv, OutsideOK, Row
<1>5. ASSUME NEW row \in rows
      PROVE  Spent(row.sid, row.turn_idx)' \/ Pending(row.sid, row.turn_idx)'
  <2>1. CASE Spent(row.sid, row.turn_idx)
    BY <1>4, <2>1 DEF SpentStays
  <2>2. CASE row.sid = sid[h] /\ row.turn_idx = turn_idx[h]
    BY <1>3, <2>2 DEF BumpSpends
  <2>3. ASSUME NEW g \in Handlers \ {h}, pc[g] = "bump", sid[g] = row.sid,
               turn_idx[g] = row.turn_idx
        PROVE  Pending(row.sid, row.turn_idx)'
    BY <1>1, <2>3 DEF Pending, Others
  <2>4. QED  BY <2>1, <2>2, <2>3 DEF RowsInv, Pending
<1>6. \A g \in Handlers : pc'[g] = "bump" => OwnRow(g)'
  BY <1>1, <1>2 DEF RowsInv, OwnRow, Others
<1>7. ClaimedMemoryIsKept'
  BY <1>1 DEF RowsInv, OwnRow, ClaimedMemoryIsKept, BumpCounter
<1>8. QED  BY <1>5, <1>6, <1>7, <1>1 DEF RowsInv

LEMMA RowsStep ==
    ASSUME LateWrites = FALSE
    PROVE  TypeInv /\ MemoryInv /\ NumbersInv /\ RowsInv /\ [Next /\ Apart]_vars => RowsInv'
<1> SUFFICES ASSUME TypeInv, MemoryInv, NumbersInv, RowsInv, [Next /\ Apart]_vars PROVE RowsInv'
  OBVIOUS
<1>1. CASE UNCHANGED vars
  BY <1>1 DEF vars, localVars, sessionVars, RowsInv, Pending, OwnRow, Unseeded, Spent, Counter,
              ClaimedMemoryIsKept
<1>2. CASE Next /\ Apart
  <2>s. SpentStays
    BY <1>2, NumbersKept
  <2>1. ASSUME NEW h \in Handlers, TurnStep(h), ~ MemoryWritten(h), ~ BumpCounter(h)
        PROVE  RowsInv'
    <3>1. Others(h) /\ UNCHANGED <<rows, metrics>>
      BY <2>1, TurnOthers DEF TurnStep, OpenSession, SeedTest, Seed, CortexAnswers, CortexDown,
         MemoryWriteFails, ReadCounter, Record
    <3>2. pc[h] # "bump"
      BY <2>1 DEF TurnStep, OpenSession, SeedTest, Seed, CortexAnswers, CortexDown,
         MemoryWriteFails, ReadCounter, Record
    <3>3. pc'[h] # "bump"
      BY <2>1 DEF TurnStep, OpenSession, SeedTest, Seed, CortexAnswers, CortexDown,
         MemoryWriteFails, ReadCounter, Record, AfterTurn, Abort, Leave, Goto, TypeInv, FramesOK
    <3>4. QED  BY <2>s, <3>1, <3>2, <3>3, RowsKept
  <2>2. CASE Crash
    <3>1. UNCHANGED <<rows, metrics>> /\ \A h \in Handlers : pc[h] # "bump" /\ pc'[h] # "bump"
      BY <1>2, <2>2, CrashNumbers DEF Apart, CountersSaved, Crash, TypeInv, OutsideOK
    <3>2. \A row \in rows : row.sid \in Sids /\ row.turn_idx \in Nat
      BY DEF TypeInv, OutsideOK, Row
    <3>3. \A row \in rows : Spent(row.sid, row.turn_idx)'
      BY <2>s, <3>1, <3>2 DEF RowsInv, Pending, SpentStays
    <3>4. QED  BY <3>1, <3>3 DEF RowsInv, ClaimedMemoryIsKept
  <2>3. CASE ~ Crash /\ ~ \E h \in Handlers : TurnStep(h)
    BY <1>2, <2>s, <2>3, OutsideTurns, RowsKept
  <2>4. QED  BY <2>s, <2>1, <2>2, <2>3, RowIsNew, RowIsSpent
<1>3. QED  BY <1>1, <1>2

\* A reply that says memory_written names a row of the embedder that holds the
\* text it answered, under the same two conditions, and if the embedder stores
\* no row after its caller gave it up.
THEOREM ClaimsAreKept ==
    ASSUME LateWrites = FALSE
    PROVE  ApartSpec => []ClaimedMemoryIsKept
<1>1. Init => RowsInv
  BY DEF Init, RowsInv, ClaimedMemoryIsKept
<1>2. RowsInv => ClaimedMemoryIsKept
  BY DEF RowsInv
<1>3. [Next /\ Apart]_vars => [Next]_vars
  OBVIOUS
<1>4. QED
  BY <1>1, <1>2, <1>3, TypeInit, TypeStep, MemoryInit, MemoryStep, NumbersInit, NumbersStep,
     RowsStep, PTL
     DEF ApartSpec
=============================================================================
