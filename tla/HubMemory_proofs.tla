-------------------------- MODULE HubMemory_proofs --------------------------
(***************************************************************************)
(* Proofs about what the hub remembers: the turn counter never runs ahead  *)
(* of the embedder's rows, and a session's rows belong to one person and   *)
(* one member.  Both hold whatever the disk, the cortex and the embedder   *)
(* do, and across crashes.                                                 *)
(***************************************************************************)
EXTENDS FamilyHub_proofs

InTurn(h) == pc[h] \in TurnStages \ {"session"}

-----------------------------------------------------------------------------
(* Which session a turn runs in.                                           *)

\* Stages that only the turn of a member chat, live or drained, goes through.
MemberStages == {"session", "count", "record"}

\* A drained or live turn runs in the session of its sender and member; a
\* /generate in the one its client named.
SidOK(h) ==
    /\ h \in Generates => pc[h] \notin MemberStages
    /\ InTurn(h) => IF h \in Generates THEN sid[h] \in ClientSids
                                       ELSE sid[h] = sessions[Pair(msg[h])].sid

\* Both copies of the session map, and any mix of them, give a session to one
\* pair; the ids in use are accounted for.
Distinct(a, b) ==
    \A k, l \in Pairs : a[k].sid = b[l].sid /\ a[k].sid # NoSid => k = l

Accounted(map) ==
    \A k \in Pairs : map[k].sid # NoSid => map[k].sid \in minted \ ClientSids

SessionInv ==
    /\ \A h \in Handlers : SidOK(h)
    /\ Accounted(sessions) /\ Accounted(session_store)
    /\ ClientSids \subseteq minted
    /\ Distinct(sessions, sessions)
    /\ Distinct(sessions, session_store)
    /\ Distinct(session_store, session_store)

\* A step that leaves the sids of both maps, and `minted`, as they are.
SidsKept ==
    /\ minted' = minted
    /\ \A k \in Pairs : /\ sessions'[k].sid = sessions[k].sid
                        /\ session_store'[k].sid \in {session_store[k].sid, sessions[k].sid}

\* What a step of handler h does to the frames of the others.
Others(h) ==
    \A g \in Handlers \ {h} :
        /\ pc'[g] = pc[g] /\ msg'[g] = msg[g] /\ sid'[g] = sid[g]
        /\ carried'[g] = carried[g] /\ turn_idx'[g] = turn_idx[g]

\* A turn that goes on keeps its session.
LEMMA TurnKeepsSid ==
    ASSUME TypeInv, NEW h \in Handlers, InTurn(h), SidOK(h),
           h \in Generates => pc'[h] \notin MemberStages,
           msg'[h] = msg[h], sid'[h] = sid[h],
           \A k \in Pairs : sessions'[k].sid = sessions[k].sid
    PROVE  SidOK(h)'
<1>1. msg[h] \in Texts
  BY DEF InTurn, TypeInv, FramesOK, TurnFrames
<1>2. Pair(msg[h]) \in Pairs
  BY <1>1, PairType
<1>3. Pair(msg[h])' = Pair(msg[h])
  BY DEF Pair
<1>4. QED  BY <1>2, <1>3 DEF SidOK

LEMMA OthersSidOK ==
    ASSUME TypeInv, NEW h \in Handlers, Others(h), \A g \in Handlers : SidOK(g),
           SidOK(h)', \A k \in Pairs : sessions'[k].sid = sessions[k].sid
    PROVE  \A g \in Handlers : SidOK(g)'
<1> SUFFICES ASSUME NEW g \in Handlers \ {h} PROVE SidOK(g)'
  OBVIOUS
<1>1. pc'[g] = pc[g] /\ msg'[g] = msg[g] /\ sid'[g] = sid[g]
  BY DEF Others
<1>2. CASE InTurn(g)
  BY <1>1, <1>2, TurnKeepsSid DEF SidOK
<1>3. CASE ~ InTurn(g)
  BY <1>1, <1>3 DEF SidOK, InTurn
<1>4. QED  BY <1>2, <1>3

LEMMA SidsKeptInv ==
    ASSUME SessionInv, SidsKept, \A g \in Handlers : SidOK(g)'
    PROVE  SessionInv'
  BY DEF SessionInv, SidsKept, Accounted, Distinct

\* A new id for pair k, in memory and maybe in the file.
Minting(k, s) ==
    /\ sessions[k].sid = NoSid
    /\ s \in Sids \ minted
    /\ sessions' = [sessions EXCEPT ![k] = [sid |-> s, turn_idx |-> 0]]
    /\ session_store' \in {session_store, sessions'}
    /\ minted' = minted \cup {s}

LEMMA MintingInv ==
    ASSUME TypeInv, SessionInv, NEW k \in Pairs, NEW s \in Sids, Minting(k, s),
           \A g \in Handlers : SidOK(g)'
    PROVE  SessionInv'
<1>1. /\ \A l \in Pairs : sessions'[l] = IF l = k THEN [sid |-> s, turn_idx |-> 0]
                                         ELSE sessions[l]
      /\ s \notin minted /\ s # NoSid /\ s \notin ClientSids
  BY SessionAssumption DEF Minting, TypeInv, SessionsTypeOK, SessionInv
<1>2. /\ \A l \in Pairs : /\ sessions'[l].sid = IF l = k THEN s ELSE sessions[l].sid
                          /\ sessions[l].sid # s /\ session_store[l].sid # s
  BY <1>1 DEF SessionInv, Accounted
<1>3. /\ Accounted(sessions)' /\ Accounted(session_store)' /\ ClientSids \subseteq minted'
  <2>1. minted' = minted \cup {s} /\ session_store' \in {session_store, sessions'}
    BY DEF Minting
  <2>2. \A l \in Pairs : sessions'[l].sid # NoSid => sessions'[l].sid \in minted' \ ClientSids
    BY <1>1, <1>2, <2>1 DEF SessionInv, Accounted
  <2>3. \A l \in Pairs : session_store[l].sid # NoSid
                            => session_store[l].sid \in minted' \ ClientSids
    BY <2>1 DEF SessionInv, Accounted
  <2>4. QED  BY <2>1, <2>2, <2>3 DEF SessionInv, Accounted
<1>4. Distinct(sessions', sessions')
  BY <1>2 DEF SessionInv, Distinct
<1>5. Distinct(sessions', session_store)
  BY <1>1, <1>2 DEF SessionInv, Distinct, Minting
<1>6. \/ session_store' = session_store
      \/ session_store' = sessions'
  BY DEF Minting
<1>7. Distinct(sessions', session_store') /\ Distinct(session_store', session_store')
  BY <1>4, <1>5, <1>6 DEF SessionInv
<1>8. QED  BY <1>3, <1>4, <1>7 DEF SessionInv, Distinct

\* The frames of turns that run elsewhere keep their session when k gets one:
\* none of them is in a session of k.
LEMMA MintingSidOK ==
    ASSUME TypeInv, SessionInv, NEW k \in Pairs, NEW s \in Sids, Minting(k, s),
           NEW h \in Handlers, NEW g \in Handlers, g # h, Others(h)
    PROVE  SidOK(g)'
<1> SUFFICES ASSUME InTurn(g)
             PROVE  IF g \in Generates THEN sid[g] \in ClientSids
                                       ELSE sid[g] = sessions'[Pair(msg[g])].sid
  BY DEF SidOK, InTurn, Pair, Others, SessionInv
<1>1. msg[g] \in Texts /\ sid[g] \in Sids
  BY DEF InTurn, TypeInv, FramesOK, TurnFrames
<1>2. Pair(msg[g]) \in Pairs
  BY <1>1, PairType
<1>3. CASE g \in Generates
  BY <1>3 DEF SessionInv, SidOK
<1>4. CASE g \notin Generates
  <2>1. Pair(msg[g]) # k
    BY <1>1, <1>4, SessionAssumption DEF SessionInv, SidOK, Minting
  <2>2. QED  BY <1>2, <1>4, <2>1 DEF SessionInv, SidOK, Minting, TypeInv, SessionsTypeOK
<1>5. QED  BY <1>3, <1>4

-----------------------------------------------------------------------------
(* The counter.                                                            *)

\* RowsBelow, of a given set of rows.
Below(R, s, n) == \A i \in 0..(n - 1) : \E row \in R : row.sid = s /\ row.turn_idx = i

\* What a turn carries from one access of the counter to the next has rows below it.
FrameDense(h) ==
    /\ pc[h] \in {"seedtest", "seed", "record"} => Below(rows, sid[h], carried[h])
    /\ pc[h] = "write" => Below(rows, sid[h], turn_idx[h])
    /\ pc[h] = "bump" => Below(rows, sid[h], turn_idx[h] + 1)

CountersDense == \A s \in Sids : Below(rows, s, Counter(s))

MapDense(map) == \A k \in Pairs : Below(rows, map[k].sid, map[k].turn_idx)

DenseInv ==
    /\ CountersDense
    /\ MapDense(sessions) /\ MapDense(session_store)
    /\ \A h \in Handlers : FrameDense(h)

LEMMA BelowGrows ==
    ASSUME NEW R, NEW Q, R \subseteq Q, NEW s, NEW n, Below(R, s, n)
    PROVE  Below(Q, s, n)
  BY DEF Below

LEMMA BelowZero ==
    ASSUME NEW R, NEW s
    PROVE  Below(R, s, 0)
  BY DEF Below

LEMMA OthersDense ==
    ASSUME NEW h \in Handlers, Others(h), rows \subseteq rows',
           \A g \in Handlers : FrameDense(g), FrameDense(h)'
    PROVE  \A g \in Handlers : FrameDense(g)'
<1> SUFFICES ASSUME NEW g \in Handlers \ {h} PROVE FrameDense(g)'
  OBVIOUS
<1>1. /\ pc'[g] = pc[g] /\ sid'[g] = sid[g]
      /\ carried'[g] = carried[g] /\ turn_idx'[g] = turn_idx[g]
  BY DEF Others
<1>2. QED  BY <1>1, BelowGrows DEF FrameDense

\* Rows only ever get added, so a counter or a map that did not change stays dense.
LEMMA DenseKept ==
    ASSUME rows \subseteq rows'
    PROVE  /\ CountersDense /\ UNCHANGED turn_idx_by_session => CountersDense'
           /\ MapDense(sessions) /\ UNCHANGED sessions => MapDense(sessions)'
           /\ MapDense(session_store) /\ UNCHANGED session_store => MapDense(session_store)'
<1>1. CountersDense /\ UNCHANGED turn_idx_by_session => CountersDense'
  BY BelowGrows DEF CountersDense, Counter
<1>2. MapDense(sessions) /\ UNCHANGED sessions => MapDense(sessions)'
  BY BelowGrows DEF MapDense
<1>3. MapDense(session_store) /\ UNCHANGED session_store => MapDense(session_store)'
  BY BelowGrows DEF MapDense
<1>4. QED  BY <1>1, <1>2, <1>3

LEMMA SetCounterDense ==
    ASSUME TypeInv, CountersDense, NEW s \in Sids, NEW n \in Nat, SetCounter(s, n),
           Below(rows, s, n), UNCHANGED rows
    PROVE  CountersDense'
<1>1. \A t \in Sids : Counter(t)' = IF t = s THEN n ELSE Counter(t)
  BY DEF SetCounter, Counter, TypeInv, SessionsTypeOK, Absent
<1>2. QED  BY <1>1 DEF CountersDense

-----------------------------------------------------------------------------
(* Whose rows a session holds.                                             *)

PrivateInv ==
    \A row \in rows :
        /\ row.person = From[row.text] /\ row.member = To[row.text]
        /\ row.sid \in minted
        /\ \A k \in Pairs :
             sessions[k].sid = row.sid \/ session_store[k].sid = row.sid
                 => k = <<row.person, row.member>>

LEMMA PrivateKept ==
    ASSUME PrivateInv, SidsKept, UNCHANGED rows
    PROVE  PrivateInv'
  BY DEF PrivateInv, SidsKept

LEMMA PrivateMinting ==
    ASSUME TypeInv, SessionInv, PrivateInv, NEW k \in Pairs, NEW s \in Sids, Minting(k, s),
           UNCHANGED rows
    PROVE  PrivateInv'
<1>1. /\ \A l \in Pairs : sessions'[l].sid = IF l = k THEN s ELSE sessions[l].sid
      /\ s \notin minted /\ minted' = minted \cup {s}
      /\ session_store' = session_store \/ session_store' = sessions'
  BY DEF Minting, TypeInv, SessionsTypeOK
<1>2. QED  BY <1>1 DEF PrivateInv

\* The row a turn writes is its sender's and its member's, and so is its session.
LEMMA PrivateWrite ==
    ASSUME TypeInv, SessionInv, PrivateInv, NEW h \in Handlers, InTurn(h), WriteTurn(h),
           UNCHANGED <<sessions, session_store, minted>>
    PROVE  PrivateInv' /\ rows \subseteq rows'
<1> DEFINE new == TurnRow(sid[h], turn_idx[h], msg[h], From[msg[h]], To[msg[h]])
<1>1. rows' = rows \/ rows' = rows \cup {new}
  BY DEF WriteTurn, MemoryWrite, AddRow
<1>2. msg[h] \in Texts /\ sid[h] \in Sids
  BY DEF InTurn, TypeInv, FramesOK, TurnFrames
<1>3. sid[h] \in minted
  <2>1. CASE h \in Generates
    BY <2>1 DEF SessionInv, SidOK
  <2>2. CASE h \notin Generates
    BY <2>2, <1>2, PairType, SessionAssumption DEF SessionInv, SidOK, Accounted
  <2>3. QED  BY <2>1, <2>2
<1>4. ASSUME NEW k \in Pairs, sessions[k].sid = sid[h] \/ session_store[k].sid = sid[h]
      PROVE  k = Pair(msg[h])
  <2>1. sid[h] # NoSid
    BY <1>2, SessionAssumption
  <2>2. h \notin Generates
    BY <1>4, <2>1 DEF SessionInv, SidOK, Accounted
  <2>3. sid[h] = sessions[Pair(msg[h])].sid /\ Pair(msg[h]) \in Pairs
    BY <1>2, <2>2, PairType DEF SessionInv, SidOK
  <2>4. QED  BY <1>4, <2>1, <2>3 DEF SessionInv, Distinct
<1>5. /\ new.person = From[new.text] /\ new.member = To[new.text] /\ new.sid \in minted
      /\ \A k \in Pairs : sessions[k].sid = new.sid \/ session_store[k].sid = new.sid
                             => k = <<new.person, new.member>>
  BY <1>3, <1>4 DEF TurnRow, Pair
<1> HIDE DEF new
<1>6. PrivateInv'
  BY <1>1, <1>5 DEF PrivateInv
<1>7. QED  BY <1>1, <1>6

\* Either way of storing a row gives the session a row of that number.
LEMMA WriteTurnDense ==
    ASSUME TypeInv, NEW h \in Handlers, InTurn(h), WriteTurn(h),
           Below(rows, sid[h], turn_idx[h])
    PROVE  Below(rows', sid[h], turn_idx[h] + 1)
<1> DEFINE new == TurnRow(sid[h], turn_idx[h], msg[h], From[msg[h]], To[msg[h]])
<1>1. new.sid = sid[h] /\ new.turn_idx = turn_idx[h] /\ turn_idx[h] \in Nat
  BY DEF TurnRow, TypeInv, FramesOK
<1>2. /\ rows \subseteq rows'
      /\ \E row \in rows' : row.sid = sid[h] /\ row.turn_idx = turn_idx[h]
  BY <1>1 DEF WriteTurn, MemoryWrite, AddRow, SameId
<1> HIDE DEF new
<1>3. ASSUME NEW i \in 0..(turn_idx[h] + 1 - 1)
      PROVE  \E row \in rows' : row.sid = sid[h] /\ row.turn_idx = i
  <2>1. CASE i = turn_idx[h]
    BY <2>1, <1>2
  <2>2. CASE i # turn_idx[h]
    <3>1. i \in 0..(turn_idx[h] - 1)
      BY <1>1, <2>2
    <3>2. PICK row \in rows : row.sid = sid[h] /\ row.turn_idx = i
      BY <3>1 DEF Below
    <3>3. QED  BY <1>2, <3>2
  <2>3. QED  BY <2>1, <2>2
<1>4. QED  BY <1>1, <1>3 DEF Below

-----------------------------------------------------------------------------
(* The three together.                                                     *)

MemoryInv == SessionInv /\ DenseInv /\ PrivateInv

LEMMA MemoryInit == Init => MemoryInv
<1> SUFFICES ASSUME Init PROVE MemoryInv
  OBVIOUS
<1>1. /\ \A h \in Handlers : pc[h] \in {"new", "idle"}
      /\ \A k \in Pairs : sessions[k] = [sid |-> NoSid, turn_idx |-> 0]
      /\ session_store = sessions /\ minted = ClientSids /\ rows = {}
      /\ \A s \in Sids : Counter(s) = 0
  BY DEF Init, SessionsInit, Unminted, Counter, Absent
<1>2. SessionInv
  BY <1>1 DEF SessionInv, SidOK, InTurn, TurnStages, MemberStages, Accounted, Distinct
<1>3. DenseInv
  BY <1>1, BelowZero DEF DenseInv, CountersDense, MapDense, FrameDense
<1>4. PrivateInv
  BY <1>1 DEF PrivateInv
<1>5. QED  BY <1>2, <1>3, <1>4 DEF MemoryInv

\* A step that touches no session, no counter and no row.
LEMMA QuietStep ==
    ASSUME TypeInv, MemoryInv, UNCHANGED <<sessionVars, rows>>,
           NEW h \in Handlers, Others(h), SidOK(h)', FrameDense(h)'
    PROVE  MemoryInv'
<1>1. /\ SidsKept /\ rows \subseteq rows'
      /\ UNCHANGED <<sessions, session_store, turn_idx_by_session>>
  BY DEF SidsKept, sessionVars
<1>2. SessionInv'
  BY <1>1, OthersSidOK, SidsKeptInv DEF MemoryInv, SessionInv
<1>3. DenseInv'
  BY <1>1, OthersDense, DenseKept DEF MemoryInv, DenseInv
<1>4. PrivateInv'
  BY <1>1, PrivateKept DEF MemoryInv
<1>5. QED  BY <1>2, <1>3, <1>4 DEF MemoryInv

\* A step that sets the counter of a turn's session to a value with rows below it.
LEMMA CounterStep ==
    ASSUME TypeInv, MemoryInv, NEW h \in Handlers, Others(h), SidOK(h)', FrameDense(h)',
           sid[h] \in Sids, NEW n \in Nat, SetCounter(sid[h], n), Below(rows, sid[h], n),
           UNCHANGED rows
    PROVE  MemoryInv'
<1>1. SidsKept /\ rows \subseteq rows' /\ UNCHANGED <<sessions, session_store>>
  BY DEF SidsKept, SetCounter
<1>2. SessionInv'
  BY <1>1, OthersSidOK, SidsKeptInv DEF MemoryInv, SessionInv
<1>3. CountersDense'
  BY SetCounterDense DEF MemoryInv, DenseInv
<1>4. DenseInv'
  BY <1>1, <1>3, OthersDense, DenseKept DEF MemoryInv, DenseInv
<1>5. PrivateInv'
  BY <1>1, PrivateKept DEF MemoryInv
<1>6. QED  BY <1>2, <1>4, <1>5 DEF MemoryInv

\* A step that adds the row of a turn, or none.
LEMMA WriteStep ==
    ASSUME TypeInv, MemoryInv, NEW h \in Handlers, Others(h), SidOK(h)', FrameDense(h)',
           InTurn(h), WriteTurn(h) \/ UNCHANGED rows, UNCHANGED sessionVars
    PROVE  MemoryInv'
<1>1. UNCHANGED <<sessions, session_store, minted, turn_idx_by_session>>
  BY DEF sessionVars
<1>2. PrivateInv' /\ rows \subseteq rows'
  <2>1. CASE WriteTurn(h)
    BY <2>1, <1>1, PrivateWrite DEF MemoryInv
  <2>2. CASE UNCHANGED rows
    BY <2>2, <1>1, PrivateKept DEF MemoryInv, SidsKept
  <2>3. QED  BY <2>1, <2>2
<1>3. SessionInv'
  BY <1>1, OthersSidOK, SidsKeptInv DEF MemoryInv, SessionInv, SidsKept
<1>4. DenseInv'
  BY <1>1, <1>2, OthersDense, DenseKept DEF MemoryInv, DenseInv
<1>5. QED  BY <1>2, <1>3, <1>4 DEF MemoryInv

\* What the operators that move a handler do to its frame and to the others'.
LEMMA LeaveMoves ==
    ASSUME TypeInv, NEW h \in Handlers, NEW stage \in Resting, Leave(h, stage)
    PROVE  Others(h) /\ SidOK(h)' /\ FrameDense(h)'
<1>1. Others(h) /\ pc'[h] = stage
  BY DEF Leave, Goto, Others, TypeInv, FramesOK
<1>2. QED  BY <1>1 DEF SidOK, InTurn, FrameDense, Resting, Ended, TurnStages, MemberStages

LEMMA AbortMoves ==
    ASSUME TypeInv, NEW h \in Handlers, NEW stage \in Resting, Abort(h, stage)
    PROVE  Others(h) /\ SidOK(h)' /\ FrameDense(h)'
<1>1. (IF h \in Reporters THEN "idle" ELSE stage) \in Resting
  BY DEF Resting
<1>2. QED  BY <1>1, LeaveMoves DEF Abort

LEMMA GotoMoves ==
    ASSUME TypeInv, NEW h \in Handlers, NEW stage, Goto(h, stage),
           \A g \in Handlers \ {h} :
             /\ msg'[g] = msg[g] /\ sid'[g] = sid[g]
             /\ carried'[g] = carried[g] /\ turn_idx'[g] = turn_idx[g]
    PROVE  Others(h) /\ pc'[h] = stage
  BY DEF Goto, Others, TypeInv, FramesOK

LEMMA TurnStepMemory ==
    ASSUME TypeInv, MemoryInv, NEW h \in Handlers, TurnStep(h)
    PROVE  MemoryInv'
<1>t. InTurn(h) => msg[h] \in Texts /\ sid[h] \in Sids /\ turn_idx[h] \in Nat /\ carried[h] \in Nat
  BY DEF InTurn, TypeInv, FramesOK, TurnFrames
<1>c. InTurn(h) => Counter(sid[h]) \in Nat /\ Below(rows, sid[h], Counter(sid[h]))
  BY <1>t, CounterType DEF MemoryInv, DenseInv, CountersDense, TypeInv
<1>d. FrameDense(h) /\ SidOK(h)
  BY DEF MemoryInv, DenseInv, SessionInv
\* A step to another stage of the turn, the session maps left alone.
<1>g. ASSUME NEW stage \in {"seed", "cortex", "write", "bump", "count", "record", "complete"},
             h \in Generates => stage \notin MemberStages,
             InTurn(h), Goto(h, stage), UNCHANGED <<msg, sid, sessions>>,
             \A g \in Handlers \ {h} : carried'[g] = carried[g] /\ turn_idx'[g] = turn_idx[g]
      PROVE  Others(h) /\ pc'[h] = stage /\ SidOK(h)'
  <2>1. Others(h) /\ pc'[h] = stage
    BY <1>g, GotoMoves
  <2>2. SidOK(h)'
    BY <1>g, <2>1, <1>d, TurnKeepsSid
  <2>3. QED  BY <2>1, <2>2
\* The end of a turn, whoever ran it.
<1>a. ASSUME InTurn(h), AfterTurn(h), UNCHANGED sessions
      PROVE  Others(h) /\ SidOK(h)' /\ FrameDense(h)'
  <2>1. CASE h \in Generates
    BY <1>a, <2>1, LeaveMoves DEF AfterTurn, Resting, Ended
  <2>2. CASE h \notin Generates
    <3>1. Others(h) /\ pc'[h] = "count" /\ SidOK(h)'
      BY <1>a, <2>2, <1>g DEF AfterTurn
    <3>2. QED  BY <3>1 DEF FrameDense
  <2>3. QED  BY <2>1, <2>2
\* A session is minted: it has no turns yet.
<1>m. ASSUME NEW k \in Pairs, NEW s \in Sids, Minting(k, s),
             UNCHANGED <<turn_idx_by_session, rows>>, Others(h), SidOK(h)',
             \/ pc'[h] = "seedtest" /\ carried'[h] = sessions'[k].turn_idx
             \/ FrameDense(h)'
      PROVE  MemoryInv'
  <2>1. \A g \in Handlers : SidOK(g)'
    BY <1>m, MintingSidOK DEF MemoryInv
  <2>2. SessionInv' /\ PrivateInv'
    BY <1>m, <2>1, MintingInv, PrivateMinting DEF MemoryInv
  <2>3. sessions'[k].turn_idx = 0
    BY <1>m DEF Minting, TypeInv, SessionsTypeOK
  <2>4. FrameDense(h)'
    BY <1>m, <2>3, BelowZero DEF FrameDense
  <2>5. MapDense(sessions)'
    BY <1>m, <2>3, BelowZero
       DEF Minting, MapDense, MemoryInv, DenseInv, TypeInv, SessionsTypeOK
  <2>6. MapDense(session_store)'
    BY <1>m, <2>5 DEF Minting, MapDense, MemoryInv, DenseInv
  <2>7. DenseInv'
    BY <1>m, <2>4, <2>5, <2>6, OthersDense, DenseKept DEF MemoryInv, DenseInv
  <2>8. QED  BY <2>2, <2>7 DEF MemoryInv
<1>1. CASE OpenSession(h)
  <2> DEFINE k == Pair(msg[h])
  <2>k. k \in Pairs /\ h \notin Generates
    <3>1. msg[h] \in Texts /\ pc[h] = "session"
      BY <1>1 DEF OpenSession, TurnStages, TypeInv, FramesOK, TurnFrames
    <3>2. QED  BY <3>1, <1>d, PairType DEF SidOK, MemberStages
  <2>1. CASE /\ Known(k) \/ (\E s \in Sids : Mint(k, s))
             /\ Goto(h, "seedtest")
             /\ sid' = [sid EXCEPT ![h] = sessions'[k].sid]
             /\ carried' = [carried EXCEPT ![h] = sessions'[k].turn_idx]
             /\ UNCHANGED <<member, todo, msg, turn_idx>>
    <3>1. /\ Others(h) /\ pc'[h] = "seedtest" /\ msg' = msg /\ rows' = rows
          /\ sid'[h] = sessions'[k].sid /\ carried'[h] = sessions'[k].turn_idx
      BY <1>1, <2>1, GotoMoves DEF OpenSession, TypeInv, FramesOK
    <3>2. SidOK(h)'
      BY <2>k, <3>1 DEF SidOK, Pair
    <3>3. CASE Known(k)
      <4>1. UNCHANGED <<sessionVars, rows>> /\ sessions' = sessions
        BY <3>1, <3>3 DEF Known, sessionVars
      <4>2. FrameDense(h)'
        BY <2>k, <3>1, <4>1 DEF FrameDense, MemoryInv, DenseInv, MapDense
      <4>3. QED  BY <3>1, <3>2, <4>1, <4>2, QuietStep
    <3>4. CASE \E s \in Sids : Mint(k, s)
      <4>1. PICK s \in Sids : Mint(k, s)
        BY <3>4
      <4>2. Minting(k, s) /\ UNCHANGED turn_idx_by_session
        BY <4>1 DEF Mint, Minting
      <4>3. QED  BY <2>k, <3>1, <3>2, <4>2, <1>m
    <3>5. QED  BY <2>1, <3>3, <3>4
  <2>2. CASE (\E s \in Sids : MintUnflushed(k, s)) /\ Abort(h, "failed")
    <3>1. PICK s \in Sids : MintUnflushed(k, s)
      BY <2>2
    <3>2. Minting(k, s) /\ UNCHANGED <<turn_idx_by_session, rows>>
      BY <1>1, <3>1 DEF MintUnflushed, Minting, OpenSession
    <3>3. Others(h) /\ SidOK(h)' /\ pc'[h] \in Resting
      BY <2>2, AbortMoves DEF Resting, Ended, Abort, Leave, Goto, TypeInv, FramesOK
    <3>4. pc'[h] # "seedtest" /\ FrameDense(h)'
      BY <3>3 DEF FrameDense, Resting, Ended
    <3>5. QED  BY <2>k, <3>2, <3>3, <3>4, <1>m
  <2>3. QED  BY <1>1, <2>1, <2>2 DEF OpenSession
<1>2. CASE SeedTest(h)
  <2>1. InTurn(h) /\ pc[h] = "seedtest"
    BY <1>2 DEF SeedTest, InTurn, TurnStages
  <2>2. /\ Others(h) /\ SidOK(h)' /\ sid' = sid /\ carried' = carried
        /\ pc'[h] \in {"seed", "cortex"}
    BY <1>2, <2>1, <1>g, <1>d DEF SeedTest, sessionVars, MemberStages, SidOK
  <2>3. FrameDense(h)'
    BY <1>2, <2>1, <2>2, <1>d DEF FrameDense, SeedTest
  <2>4. QED  BY <1>2, <2>2, <2>3, QuietStep DEF SeedTest
<1>3. CASE Seed(h)
  <2>1. InTurn(h) /\ pc[h] = "seed"
    BY <1>3 DEF Seed, InTurn, TurnStages
  <2>2. Others(h) /\ SidOK(h)' /\ pc'[h] = "cortex"
    BY <1>3, <2>1, <1>g, <1>d DEF Seed, SetCounter, MemberStages, SidOK
  <2>3. FrameDense(h)' /\ Below(rows, sid[h], carried[h])
    BY <2>1, <2>2, <1>d DEF FrameDense
  <2>4. QED  BY <1>3, <1>t, <2>1, <2>2, <2>3, CounterStep DEF Seed
<1>4. CASE CortexAnswers(h)
  <2>1. InTurn(h)
    BY <1>4 DEF CortexAnswers, InTurn, TurnStages
  <2>2. Others(h) /\ SidOK(h)' /\ pc'[h] = "write"
    BY <1>4, <2>1, <1>g, <1>d DEF CortexAnswers, SetCounter, TypeInv, FramesOK, MemberStages, SidOK
  <2>3. sid'[h] = sid[h] /\ turn_idx'[h] = Counter(sid[h]) /\ rows' = rows
    BY <1>4 DEF CortexAnswers, TypeInv, FramesOK
  <2>4. FrameDense(h)'
    BY <1>c, <2>1, <2>2, <2>3 DEF FrameDense
  <2>5. QED  BY <1>4, <1>t, <1>c, <2>1, <2>2, <2>4, CounterStep DEF CortexAnswers
<1>5. CASE CortexDown(h)
  <2>1. InTurn(h)
    BY <1>5 DEF CortexDown, InTurn, TurnStages
  <2>2. Others(h) /\ SidOK(h)' /\ FrameDense(h)'
    BY <1>5, AbortMoves DEF CortexDown, Resting, Ended
  <2>3. QED  BY <1>5, <1>t, <1>c, <2>1, <2>2, CounterStep DEF CortexDown
<1>6. CASE MemoryWritten(h)
  <2>1. InTurn(h) /\ pc[h] = "write"
    BY <1>6 DEF MemoryWritten, InTurn, TurnStages
  <2>2. Others(h) /\ SidOK(h)' /\ pc'[h] = "bump" /\ sid' = sid /\ turn_idx' = turn_idx
    BY <1>6, <2>1, <1>g, <1>d DEF MemoryWritten, sessionVars, MemberStages, SidOK
  <2>3. Below(rows', sid[h], turn_idx[h] + 1)
    BY <1>6, <2>1, <1>d, WriteTurnDense DEF MemoryWritten, FrameDense
  <2>4. FrameDense(h)'
    BY <2>2, <2>3 DEF FrameDense
  <2>5. QED  BY <1>6, <2>1, <2>2, <2>4, WriteStep DEF MemoryWritten
<1>7. CASE MemoryWriteFails(h)
  <2>1. InTurn(h)
    BY <1>7 DEF MemoryWriteFails, InTurn, TurnStages
  <2>2. Others(h) /\ SidOK(h)' /\ FrameDense(h)'
    BY <1>7, <2>1, <1>a DEF MemoryWriteFails, sessionVars
  <2>3. QED  BY <1>7, <2>1, <2>2, WriteStep DEF MemoryWriteFails
<1>8. CASE BumpCounter(h)
  <2>1. InTurn(h) /\ pc[h] = "bump"
    BY <1>8 DEF BumpCounter, InTurn, TurnStages
  <2>2. Others(h) /\ SidOK(h)' /\ FrameDense(h)'
    BY <1>8, <2>1, <1>a DEF BumpCounter, SetCounter
  <2>3. Below(rows, sid[h], turn_idx[h] + 1) /\ turn_idx[h] + 1 \in Nat
    BY <2>1, <1>d, <1>t DEF FrameDense
  <2>4. QED  BY <1>8, <1>t, <2>1, <2>2, <2>3, CounterStep DEF BumpCounter
<1>9. CASE ReadCounter(h)
  <2>1. InTurn(h)
    BY <1>9 DEF ReadCounter, InTurn, TurnStages
  <2>2. Others(h) /\ SidOK(h)' /\ pc'[h] = "record"
    BY <1>9, <2>1, <1>g, <1>d DEF ReadCounter, sessionVars, TypeInv, FramesOK, MemberStages, SidOK
  <2>3. sid'[h] = sid[h] /\ carried'[h] = Counter(sid[h]) /\ rows' = rows
    BY <1>9 DEF ReadCounter, TypeInv, FramesOK
  <2>4. FrameDense(h)'
    BY <1>c, <2>1, <2>2, <2>3 DEF FrameDense
  <2>5. QED  BY <1>9, <2>2, <2>4, QuietStep DEF ReadCounter
<1>10. CASE Record(h)
  <2> DEFINE k == Pair(msg[h])
  <2>1. InTurn(h) /\ pc[h] = "record" /\ rows' = rows
    BY <1>10 DEF Record, InTurn, TurnStages
  <2>2. k \in Pairs /\ Below(rows, sid[h], carried[h])
    BY <2>1, <1>t, <1>d, PairType DEF FrameDense
  <2>3. /\ \/ UNCHANGED sessions
           \/ sessions' = [sessions EXCEPT ![k].turn_idx = carried[h]]
        /\ session_store' \in {session_store, sessions'}
        /\ UNCHANGED <<minted, turn_idx_by_session>>
    BY <1>10 DEF Record, RecordTurn
  <2>4. \A l \in Pairs :
           /\ sessions'[l].sid = sessions[l].sid
           /\ \/ sessions'[l].turn_idx = sessions[l].turn_idx
              \/ l = k /\ sessions'[l].turn_idx = carried[h]
    <3>1. sessions \in [Pairs -> Session]
      BY DEF TypeInv, SessionsTypeOK
    <3>2. CASE UNCHANGED sessions
      BY <3>2
    <3>3. CASE sessions' = [sessions EXCEPT ![k].turn_idx = carried[h]]
      BY <3>1, <3>3 DEF Session
    <3>4. QED  BY <2>3, <3>2, <3>3
  <2>5. SidsKept
    BY <2>3, <2>4 DEF SidsKept
  <2>6. Others(h) /\ SidOK(h)' /\ FrameDense(h)'
    <3>1. CASE h \in Reporters
      <4>1. /\ Others(h) /\ pc'[h] = "complete" /\ msg' = msg /\ sid' = sid
        BY <1>10, <3>1, GotoMoves DEF Record
      <4>2. SidOK(h)' /\ FrameDense(h)'
        BY <2>1, <2>4, <4>1, <1>d, TurnKeepsSid DEF FrameDense, MemberStages
      <4>3. QED  BY <4>1, <4>2
    <3>2. CASE h \notin Reporters
      BY <1>10, <3>2, LeaveMoves DEF Record, Resting, Ended
    <3>3. QED  BY <3>1, <3>2
  <2>7. SessionInv' /\ PrivateInv'
    BY <2>1, <2>4, <2>5, <2>6, OthersSidOK, SidsKeptInv, PrivateKept DEF MemoryInv, SessionInv
  <2>8. MapDense(sessions)'
    <3>1. h \notin Generates => Below(rows, sessions[k].sid, carried[h])
      BY <2>1, <2>2, <1>d DEF SidOK
    <3>2. h \notin Generates
      BY <2>1, <1>d DEF SidOK, MemberStages
    <3>3. QED
      BY <2>1, <2>4, <3>1, <3>2 DEF MapDense, MemoryInv, DenseInv
  <2>9. MapDense(session_store)'
    BY <2>1, <2>3, <2>8 DEF MapDense, MemoryInv, DenseInv
  <2>10. DenseInv'
    BY <2>1, <2>3, <2>6, <2>8, <2>9, OthersDense, DenseKept DEF MemoryInv, DenseInv
  <2>11. QED  BY <2>7, <2>10 DEF MemoryInv
<1>11. QED
  BY <1>1, <1>2, <1>3, <1>4, <1>5, <1>6, <1>7, <1>8, <1>9, <1>10 DEF TurnStep

LEMMA MemoryStep == TypeInv /\ MemoryInv /\ [Next]_vars => MemoryInv'
<1> SUFFICES ASSUME TypeInv, MemoryInv, [Next]_vars PROVE MemoryInv'
  OBVIOUS
<1>a. /\ Chats \subseteq Texts /\ Texts \subseteq Handlers /\ Reporters \subseteq Handlers
      /\ \A r \in Reporters : r \notin Generates
      /\ \A c \in Chats : c \notin Generates
  BY FamilyAssumption, HubAssumption DEF Handlers
\* A handler outside the turn goes to a stage that carries nothing.
<1>g. ASSUME NEW h \in Handlers, NEW stage \in {"new", "loading", "enqueue", "session",
                                                "snapshot", "next", "idle"},
             h \in Generates => stage # "session", Goto(h, stage),
             \A g \in Handlers \ {h} : msg'[g] = msg[g],
             UNCHANGED <<sessionVars, rows, sid, carried, turn_idx>>
      PROVE  MemoryInv'
  <2>1. Others(h) /\ pc'[h] = stage
    BY <1>g, GotoMoves
  <2>2. SidOK(h)' /\ FrameDense(h)'
    BY <1>g, <2>1 DEF SidOK, FrameDense, InTurn, TurnStages, MemberStages
  <2>3. QED  BY <1>g, <2>1, <2>2, QuietStep
<1>1. ASSUME NEW c \in Chats, ReadPresence(c) PROVE MemoryInv'
  BY <1>1, <1>a, <1>g DEF ReadPresence
<1>2. ASSUME NEW c \in Chats, EnqueueMessage(c) PROVE MemoryInv'
  BY <1>2, <1>a, LeaveMoves, QuietStep DEF EnqueueMessage, Resting, Ended
<1>3. ASSUME NEW x \in Texts, Resend(x) PROVE MemoryInv'
  BY <1>3, <1>a, <1>g DEF Resend
<1>4. ASSUME NEW g \in Generates, Generate(g) PROVE MemoryInv'
  <2>1. g \in Handlers /\ ClientSid[g] \in ClientSids
    BY <1>a, HubAssumption
  <2>2. Others(g) /\ pc'[g] = "cortex" /\ sid'[g] = ClientSid[g]
    BY <1>4, <2>1, GotoMoves DEF Generate, TypeInv, FramesOK
  <2>3. SidOK(g)' /\ FrameDense(g)'
    BY <2>1, <2>2 DEF SidOK, FrameDense, MemberStages
  <2>4. QED  BY <1>4, <2>1, <2>2, <2>3, QuietStep DEF Generate
<1>5. ASSUME NEW r \in Reporters, NEW m \in Members, NEW state \in PRESENCE_STATES,
             Report(r, m, state)
      PROVE MemoryInv'
  <2>1. CASE state = "awake"
    BY <1>5, <2>1, <1>a, <1>g DEF Report
  <2>2. CASE state # "awake"
    <3>1. Others(r) /\ UNCHANGED <<sessionVars, rows, pc, msg, sid, carried, turn_idx>>
      BY <1>5, <2>2 DEF Report, Others
    <3>2. pc'[r] = "idle"
      BY <1>5, <3>1 DEF Report
    <3>3. SidOK(r)' /\ FrameDense(r)'
      BY <3>2 DEF SidOK, FrameDense, InTurn, TurnStages, MemberStages
    <3>4. QED  BY <1>a, <3>1, <3>3, QuietStep
  <2>3. QED  BY <2>1, <2>2
<1>6. ASSUME NEW r \in Reporters, Snapshot(r) PROVE MemoryInv'
  BY <1>6, <1>a, <1>g DEF Snapshot
<1>7. ASSUME NEW r \in Reporters, NextMessage(r) PROVE MemoryInv'
  <2>1. CASE Leave(r, "idle")
    BY <1>7, <2>1, <1>a, LeaveMoves, QuietStep DEF NextMessage, Resting
  <2>2. CASE \E c \in todo[r] : /\ Goto(r, "session")
                                /\ msg' = [msg EXCEPT ![r] = c]
                                /\ UNCHANGED <<member, todo, sid, carried, turn_idx>>
    <3>1. \A g \in Handlers \ {r} : msg'[g] = msg[g]
      BY <2>2 DEF TypeInv, FramesOK
    <3>2. QED  BY <1>7, <2>2, <3>1, <1>a, <1>g DEF NextMessage
  <2>3. QED  BY <1>7, <2>1, <2>2 DEF NextMessage
<1>8. ASSUME NEW r \in Reporters, Complete(r) PROVE MemoryInv'
  <2>1. Others(r) /\ pc'[r] = "next"
    BY <1>8, <1>a DEF Complete, TurnDone, Goto, Others, TypeInv, FramesOK
  <2>2. SidOK(r)' /\ FrameDense(r)'
    BY <2>1 DEF SidOK, FrameDense, InTurn, TurnStages, MemberStages
  <2>3. QED  BY <1>8, <1>a, <2>1, <2>2, QuietStep DEF Complete
<1>9. ASSUME NEW h \in Handlers, TurnStep(h) PROVE MemoryInv'
  BY <1>9, TurnStepMemory
<1>10. ASSUME Crash PROVE MemoryInv'
  <2>1. /\ session_store' = session_store /\ minted' = minted /\ rows' = rows
        /\ \A s \in Sids : Counter(s)' = 0
        /\ \A h \in Handlers : pc'[h] \notin TurnStages
    BY <1>10 DEF Crash, SessionsRestart, Counter, Absent, Resting, Ended, TurnStages
  <2>2. \/ sessions' = session_store
        \/ \A k \in Pairs : sessions'[k].sid = NoSid /\ sessions'[k].turn_idx = 0
    BY <1>10 DEF Crash, SessionsRestart, Unminted
  <2>3. SessionInv'
    <3>1. \A h \in Handlers : SidOK(h)'
      BY <2>1 DEF SidOK, InTurn, TurnStages, MemberStages
    <3>2. CASE sessions' = session_store
      BY <2>1, <3>1, <3>2 DEF MemoryInv, SessionInv, Accounted, Distinct
    <3>3. CASE \A k \in Pairs : sessions'[k].sid = NoSid /\ sessions'[k].turn_idx = 0
      BY <2>1, <3>1, <3>3 DEF MemoryInv, SessionInv, Accounted, Distinct
    <3>4. QED  BY <2>2, <3>2, <3>3
  <2>4. DenseInv'
    <3>1. MapDense(sessions)'
      BY <2>1, <2>2, BelowZero DEF MemoryInv, DenseInv, MapDense
    <3>2. MapDense(session_store)'
      BY <2>1 DEF MemoryInv, DenseInv, MapDense
    <3>3. QED  BY <2>1, <3>1, <3>2, BelowZero DEF DenseInv, CountersDense, FrameDense, TurnStages
  <2>5. PrivateInv'
    <3>1. \A row \in rows : row.sid # NoSid
      BY SessionAssumption DEF TypeInv, OutsideOK, Row
    <3>2. QED  BY <2>1, <2>2, <3>1 DEF MemoryInv, PrivateInv
  <2>6. QED  BY <2>3, <2>4, <2>5 DEF MemoryInv
<1>11. CASE UNCHANGED vars
  BY <1>11 DEF vars, localVars, sessionVars, MemoryInv, SessionInv, SidOK, InTurn, Pair,
               Accounted, Distinct, DenseInv, CountersDense, Counter, MapDense, FrameDense,
               PrivateInv
<1>12. QED
  BY <1>1, <1>2, <1>3, <1>4, <1>5, <1>6, <1>7, <1>8, <1>9, <1>10, <1>11 DEF Next, DrainStep

LEMMA MemoryInvariant == Spec => [](TypeInv /\ MemoryInv)
  BY TypeInit, TypeStep, MemoryInit, MemoryStep, PTL DEF Spec

\* The turn counter, live, persisted or in flight between the two, never runs
\* ahead of the rows: below it every turn of the session has a row.
THEOREM CounterStaysBehindMemory == Spec => []CounterBehindMemory
<1>1. DenseInv => CounterBehindMemory
  BY DEF DenseInv, CountersDense, MapDense, Below, CounterBehindMemory, RowsBelow
<1>2. QED  BY <1>1, MemoryInvariant, PTL DEF MemoryInv

\* A session the hub minted holds the turns of one person with one member,
\* each filed under the person who sent it, drained turns included.
THEOREM SessionsArePrivate == Spec => []SessionIsPrivate
<1>1. PrivateInv => SessionIsPrivate
  BY DEF PrivateInv, SessionIsPrivate
<1>2. QED  BY <1>1, MemoryInvariant, PTL DEF MemoryInv

-----------------------------------------------------------------------------
(* Who talks to whom in which session, over time.                          *)

\* The sids of both maps after a step: what memory knew it still knows, and the
\* file has its old id or the one in memory; or a crash took memory back.
LEMMA SidStepShape ==
    ASSUME ReadFaults = FALSE, TypeInv, [Next]_vars
    PROVE  \A k \in Pairs :
             \/ /\ sessions[k].sid # NoSid => sessions'[k].sid = sessions[k].sid
                /\ session_store'[k].sid \in {session_store[k].sid, sessions'[k].sid}
                /\ ~ DiskFaults =>
                     session_store'[k].sid = sessions'[k].sid \/ UNCHANGED <<sessions, session_store>>
             \/ sessions' = session_store /\ session_store' = session_store
<1> DEFINE Kept(k) ==
             /\ sessions[k].sid # NoSid => sessions'[k].sid = sessions[k].sid
             /\ session_store'[k].sid \in {session_store[k].sid, sessions'[k].sid}
             /\ ~ DiskFaults =>
                  session_store'[k].sid = sessions'[k].sid \/ UNCHANGED <<sessions, session_store>>
<1>u. ASSUME UNCHANGED <<sessions, session_store>> PROVE \A k \in Pairs : Kept(k)
  BY <1>u
<1>b. sessions \in [Pairs -> Session] /\ session_store \in [Pairs -> Session]
  BY DEF TypeInv, SessionsTypeOK
<1>1. ASSUME NEW h \in Handlers, OpenSession(h) PROVE \A k \in Pairs : Kept(k)
  <2>1. CASE Known(Pair(msg[h]))
    BY <2>1, <1>u DEF Known, sessionVars
  <2>2. ASSUME NEW s \in Sids, Mint(Pair(msg[h]), s) PROVE \A k \in Pairs : Kept(k)
    BY <2>2, <1>b DEF Mint, Session
  <2>3. ASSUME NEW s \in Sids, MintUnflushed(Pair(msg[h]), s) PROVE \A k \in Pairs : Kept(k)
    BY <2>3, <1>b DEF MintUnflushed, Session
  <2>4. QED  BY <1>1, <2>1, <2>2, <2>3 DEF OpenSession
<1>2. ASSUME NEW h \in Handlers, Record(h) PROVE \A k \in Pairs : Kept(k)
  <2>1. CASE sessions[Pair(msg[h])].sid = NoSid
    BY <2>1, <1>2, <1>u DEF Record, RecordTurn
  <2>2. CASE sessions[Pair(msg[h])].sid # NoSid
    <3>1. /\ sessions' = [sessions EXCEPT ![Pair(msg[h])].turn_idx = carried[h]]
          /\ session_store' = sessions' \/ (DiskFaults /\ session_store' = session_store)
      BY <1>2, <2>2 DEF Record, RecordTurn
    <3>2. \A k \in Pairs : sessions'[k].sid = sessions[k].sid
      BY <3>1, <1>b DEF Session
    <3>3. QED  BY <3>1, <3>2
  <2>3. QED  BY <2>1, <2>2
<1>3. ASSUME NEW h \in Handlers, TurnStep(h) PROVE \A k \in Pairs : Kept(k)
  <2>1. CASE SeedTest(h) \/ MemoryWritten(h) \/ MemoryWriteFails(h) \/ ReadCounter(h)
    BY <2>1, <1>u DEF SeedTest, MemoryWritten, MemoryWriteFails, ReadCounter, sessionVars
  <2>2. CASE Seed(h) \/ CortexAnswers(h) \/ CortexDown(h) \/ BumpCounter(h)
    BY <2>2, <1>u DEF Seed, CortexAnswers, CortexDown, BumpCounter, SetCounter
  <2>3. QED  BY <1>1, <1>2, <1>3, <2>1, <2>2 DEF TurnStep
<1>4. ASSUME NEW c \in Chats, ReadPresence(c) \/ EnqueueMessage(c) PROVE \A k \in Pairs : Kept(k)
  BY <1>4, <1>u DEF ReadPresence, EnqueueMessage, sessionVars
<1>5. ASSUME NEW x \in Texts, Resend(x) PROVE \A k \in Pairs : Kept(k)
  BY <1>5, <1>u DEF Resend, sessionVars
<1>6. ASSUME NEW g \in Generates, Generate(g) PROVE \A k \in Pairs : Kept(k)
  BY <1>6, <1>u DEF Generate, sessionVars
<1>7. ASSUME NEW r \in Reporters, NEW m \in Members, NEW state \in PRESENCE_STATES,
             Report(r, m, state)
      PROVE \A k \in Pairs : Kept(k)
  BY <1>7, <1>u DEF Report, sessionVars
<1>8. ASSUME NEW r \in Reporters, DrainStep(r) PROVE \A k \in Pairs : Kept(k)
  BY <1>8, <1>u DEF DrainStep, Snapshot, NextMessage, Complete, sessionVars
<1>9. ASSUME Crash PROVE sessions' = session_store /\ session_store' = session_store
  BY <1>9 DEF Crash, SessionsRestart
<1>10. CASE UNCHANGED vars
  BY <1>10, <1>u DEF vars, sessionVars
<1>11. QED
  BY <1>3, <1>4, <1>5, <1>6, <1>7, <1>8, <1>9, <1>10 DEF Next

\* The file's session of a pair is the one in memory.
StoreIsBehind ==
    \A k \in Pairs : session_store[k].sid # NoSid => sessions[k].sid = session_store[k].sid

\* A pair that has a session in the file keeps it.
SessionsAreKept ==
    [][\A k \in Pairs : session_store[k].sid # NoSid
                            => session_store'[k].sid = session_store[k].sid]_vars

\* Once a pair's session is in the file, the pair has that one for good, if every
\* boot can read the file: no handler, no refused write and no crash gives it another.
THEOREM SessionsLast == ASSUME ReadFaults = FALSE PROVE Spec => SessionsAreKept
<1>1. Init => StoreIsBehind
  BY DEF Init, SessionsInit, StoreIsBehind
<1>2. TypeInv /\ StoreIsBehind /\ [Next]_vars
        => /\ StoreIsBehind'
           /\ [\A k \in Pairs : session_store[k].sid # NoSid
                                    => session_store'[k].sid = session_store[k].sid]_vars
  BY SidStepShape DEF StoreIsBehind
<1>3. QED
  BY <1>1, <1>2, TypeInit, TypeStep, PTL DEF Spec, SessionsAreKept

-----------------------------------------------------------------------------
(* One conversation.                                                       *)

\* With a disk that takes every write the two maps agree on the ids ...
FileHasSids == \A k \in Pairs : session_store[k].sid = sessions[k].sid

\* ... so a chat's row stays in its pair's session.
RowsInSession ==
    \A row \in rows : row.text \in Chats => row.sid = sessions[Pair(row.text)].sid

\* All that a person and a member ever said to each other is in one session.
OneConversation ==
    \A a, b \in rows :
        /\ {a.text, b.text} \subseteq Chats
        /\ a.person = b.person /\ a.member = b.member
        => a.sid = b.sid

LEMMA ConversationStep ==
    ASSUME DiskFaults = FALSE, ReadFaults = FALSE, TypeInv, MemoryInv, FileHasSids, RowsInSession, [Next]_vars
    PROVE  FileHasSids' /\ RowsInSession'
<1>1. FileHasSids'
  BY SidStepShape DEF FileHasSids
<1>2. \A k \in Pairs : sessions[k].sid # NoSid => sessions'[k].sid = sessions[k].sid
  BY SidStepShape DEF FileHasSids
<1>3. \A row \in rows : row.text \in Texts /\ row.sid \in Sids /\ Pair(row.text) \in Pairs
  BY PairType DEF TypeInv, OutsideOK, Row
<1>4. \A row \in rows : row.text \in Chats => row.sid = sessions'[Pair(row.text)].sid
  BY <1>2, <1>3, SessionAssumption DEF RowsInSession
<1>5. CASE rows' = rows
  BY <1>1, <1>4, <1>5 DEF RowsInSession, Pair
<1>6. CASE rows' # rows
  <2>1. PICK h \in Handlers : MemoryWritten(h) \/ MemoryWriteFails(h)
    BY <1>6 DEF Next, ReadPresence, EnqueueMessage, Resend, Generate, Report, DrainStep, Snapshot,
       NextMessage, Complete, TurnStep, OpenSession, SeedTest, Seed, CortexAnswers, CortexDown,
       BumpCounter, ReadCounter, Record, Crash, vars
  <2>2. pc[h] = "write" /\ WriteTurn(h) /\ sessions' = sessions
    BY <1>6, <2>1 DEF MemoryWritten, MemoryWriteFails, sessionVars
  <2>3. \A row \in rows' : row \in rows \/ (row.text = msg[h] /\ row.sid = sid[h])
    BY <2>2 DEF WriteTurn, MemoryWrite, AddRow, TurnRow
  <2>4. ASSUME msg[h] \in Chats PROVE sid[h] = sessions[Pair(msg[h])].sid
    <3>1. h \notin Generates
      BY <2>4, FamilyAssumption, HubAssumption DEF TypeInv, FramesOK, TurnFrames
    <3>2. InTurn(h)
      BY <2>2 DEF InTurn, TurnStages
    <3>3. QED  BY <3>1, <3>2 DEF MemoryInv, SessionInv, SidOK
  <2>5. QED  BY <1>1, <1>4, <2>2, <2>3, <2>4 DEF RowsInSession, Pair
<1>7. QED  BY <1>5, <1>6

\* Live or drained, before or after a crash, however many requests run at once:
\* the turns of one person with one member are rows of one session, if the disk
\* takes the hub's writes and gives them back.
THEOREM ConversationsStayWhole ==
    ASSUME DiskFaults = FALSE, ReadFaults = FALSE
    PROVE  Spec => []OneConversation
<1>1. Init => FileHasSids /\ RowsInSession
  BY DEF Init, SessionsInit, FileHasSids, RowsInSession
<1>2. TypeInv /\ MemoryInv /\ FileHasSids /\ RowsInSession => OneConversation
  <2> SUFFICES ASSUME MemoryInv, RowsInSession, NEW a \in rows, NEW b \in rows,
                      a.text \in Chats, b.text \in Chats,
                      a.person = b.person, a.member = b.member
               PROVE  a.sid = b.sid
    BY DEF OneConversation
  <2>1. \A row \in rows : row.person = From[row.text] /\ row.member = To[row.text]
    BY DEF MemoryInv, PrivateInv
  <2>2. Pair(a.text) = Pair(b.text)
    BY <2>1 DEF Pair
  <2>3. QED  BY <2>2 DEF RowsInSession
<1>3. QED
  BY <1>1, <1>2, ConversationStep, MemoryInvariant, PTL DEF Spec
=============================================================================
