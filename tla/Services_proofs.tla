--------------------------- MODULE Services_proofs ---------------------------
(***************************************************************************)
(* Proofs about three components that stand beside the hub's turns: the    *)
(* agent registry, the legacy memory path and the clients.                 *)
(***************************************************************************)
EXTENDS AgentRegistry, LegacyMemory, NexusClient, FiniteSetTheorems, TLAPS

(* The agent registry.  The sweep pops what its snapshot found expired.    *)

\* An entry past the expiry is late, and so is each one the sweep will pop,
\* stamped since or not.
RegistryInv ==
    /\ \A a \in entries : age[a] > Expiry => a \in late
    /\ \A a \in sweep.todo \cap sweep.expired : a \in entries /\ a \in late

LEMMA RegistryStart == RegistryInit => RegistryTypeOK /\ RegistryInv
  BY RegistryAssumption DEF RegistryInit, RegistryTypeOK, RegistryInv, Resting

LEMMA RegistryStep ==
    RegistryTypeOK /\ RegistryInv /\ [RegistryNext]_registryVars
        => RegistryTypeOK' /\ RegistryInv'
<1> SUFFICES ASSUME RegistryTypeOK, RegistryInv, [RegistryNext]_registryVars
             PROVE  RegistryTypeOK' /\ RegistryInv'
  OBVIOUS
<1> USE RegistryAssumption DEF RegistryTypeOK
<1>1. ASSUME NEW a \in Agents, SendHeartbeat(a) \/ AgentStops(a) \/ BadMessage(a)
      PROVE  RegistryTypeOK' /\ RegistryInv'
  BY <1>1 DEF SendHeartbeat, AgentStops, BadMessage, RegistryInv
<1>2. ASSUME NEW a \in Agents, OnMessage(a) PROVE RegistryTypeOK' /\ RegistryInv'
  BY <1>2 DEF OnMessage, RegistryInv
<1>3. CASE SweepBegin
  BY <1>3 DEF SweepBegin, RegistryInv
<1>4. ASSUME NEW a \in Agents, SweepOne(a) PROVE RegistryTypeOK' /\ RegistryInv'
  <2>1. \E active \in SUBSET Agents :
          sweep' = [sweep EXCEPT !.todo = @ \ {a}, !.active = active]
    BY <1>4 DEF SweepOne
  <2>2. /\ sweep'.todo = sweep.todo \ {a} /\ sweep'.expired = sweep.expired
        /\ sweep' \in [pc : {"sleep", "walk"}, todo : SUBSET Agents,
                      expired : SUBSET Agents, active : SUBSET Agents]
    BY <2>1
  <2>3. /\ entries' = entries \/ entries' = entries \ {a}
        /\ UNCHANGED <<running, inflight, age, late>>
    BY <1>4 DEF SweepOne
  <2>4. QED  BY <2>2, <2>3 DEF RegistryInv
<1>5. CASE SweepEnd
  BY <1>5 DEF SweepEnd, Resting, RegistryInv
<1>6. CASE Tick
  BY <1>6 DEF Tick, RegistryInv
<1>7. CASE UNCHANGED registryVars
  BY <1>7 DEF registryVars, RegistryInv
<1>8. QED
  BY <1>1, <1>2, <1>3, <1>4, <1>5, <1>6, <1>7 DEF RegistryNext

\* For any agents and expiry: the pop without a lock, of an entry that may have
\* been stamped since, never takes an agent whose heartbeats were all in time.
THEOREM PunctualAgentsAreKept == RegistrySpec => PunctualAgentsStay
<1>1. RegistryTypeOK /\ RegistryInv /\ [RegistryNext]_registryVars
        => [\A a \in Agents : a \in entries \ entries' => a \in late]_registryVars
  BY DEF RegistryTypeOK, RegistryInv, RegistryNext, registryVars, SendHeartbeat, AgentStops,
         BadMessage, OnMessage, SweepBegin, SweepOne, SweepEnd, Tick
<1>2. QED
  BY <1>1, RegistryStart, RegistryStep, PTL DEF RegistrySpec, PunctualAgentsStay

-----------------------------------------------------------------------------
(* The legacy memory path.                                                 *)

CallOK ==
    call \in [Callers -> [pc : {"idle", "store", "log"}, texts : Seq(Texts),
                          ids : Seq((1..MaxBoots) \X Texts)]]

\* The event a caller is about to log names the row it has just stored.
EventIsStored(c) ==
    call[c].pc = "log" =>
      /\ call[c].ids # <<>>
      /\ \E row \in rows : row.id = call[c].ids[Len(call[c].ids)] /\ row.text = Head(call[c].texts)

LogOK == log \in Seq(Line) /\ cut \in BOOLEAN /\ tears \in Nat

\* The events that were acknowledged and cannot be read.
Unreadable(lines) == {i \in DOMAIN lines : lines[i].known /\ ~lines[i].ok}

\* A cut last line is nobody's event yet; each tear pays for one that is lost.
TearsPay ==
    /\ cut => log # <<>> /\ ~log[Len(log)].known /\ ~log[Len(log)].ok
    /\ Cardinality(Unreadable(log)) + (IF cut THEN 1 ELSE 0) <= tears

LegacyInv ==
    /\ CallOK /\ LogOK
    /\ \A c \in Callers : call[c].pc # "idle" => call[c].texts # <<>>
    /\ boot \in 1..MaxBoots
    /\ \A row \in rows : row.id[2] = row.text
    /\ \A c \in Callers : EventIsStored(c)
    /\ EventsHaveRows
    /\ TearsPay

LEMMA LegacyStart == LegacyInit => LegacyInv
<1> SUFFICES ASSUME LegacyInit PROVE LegacyInv
  OBVIOUS
<1>1. Unreadable(log) = {}
  BY DEF LegacyInit, Unreadable
<1>2. TearsPay
  BY <1>1, FS_EmptySet DEF LegacyInit, TearsPay
<1>3. CallOK /\ log \in Seq(Line) /\ tears \in Nat
  BY DEF LegacyInit, NoCall, CallOK
<1>l. cut \in BOOLEAN
  BY DEF LegacyInit
<1>4. EventsHaveRows /\ \A c \in Callers : EventIsStored(c) /\ call[c].pc = "idle"
  BY DEF LegacyInit, NoCall, EventIsStored, EventsHaveRows
<1>5. boot \in 1..MaxBoots /\ rows = {}
  BY LegacyAssumption DEF LegacyInit
<1>6. QED  BY <1>2, <1>3, <1>l, <1>4, <1>5 DEF LegacyInv, LogOK

\* A step that leaves the log alone and drops no row.
LEMMA LogKept ==
    ASSUME LegacyInv, rows \subseteq rows', UNCHANGED <<log, cut, tears>>
    PROVE  LogOK' /\ EventsHaveRows' /\ TearsPay'
  BY DEF LegacyInv, LogOK, EventsHaveRows, TearsPay, Unreadable

LEMMA UnreadableIsFinite ==
    ASSUME NEW lines \in Seq(Line)
    PROVE  IsFiniteSet(Unreadable(lines)) /\ Cardinality(Unreadable(lines)) \in Nat
<1>1. Len(lines) \in Int /\ Unreadable(lines) \subseteq 1..Len(lines)
  BY DEF Unreadable
<1>2. IsFiniteSet(1..Len(lines))
  BY <1>1, FS_Interval
<1>3. IsFiniteSet(Unreadable(lines))
  BY <1>1, <1>2, FS_Subset
<1>4. QED  BY <1>3, FS_CardinalityType

\* A line that is readable, or was never acknowledged, at the end of a whole log.
LEMMA LineAdded ==
    ASSUME LegacyInv, ~cut, NEW line \in Line, line.ok \/ ~line.known,
           log' = Append(log, line),
           line.ok => \E row \in rows : row.id = line.memory /\ row.text = line.text,
           rows' = rows,
           \/ cut' = FALSE /\ tears' = tears
           \/ cut' = TRUE /\ tears' = tears + 1 /\ ~line.known /\ ~line.ok
    PROVE  LogOK' /\ EventsHaveRows' /\ TearsPay'
<1>1. /\ log \in Seq(Line) /\ log' \in Seq(Line) /\ Len(log') = Len(log) + 1 /\ log' # <<>>
      /\ log'[Len(log')] = line /\ DOMAIN log' = DOMAIN log \cup {Len(log')}
      /\ \A i \in DOMAIN log : log'[i] = log[i]
  BY DEF LegacyInv, LogOK
<1>2. Unreadable(log') = Unreadable(log)
  BY <1>1 DEF Unreadable
<1>3. EventsHaveRows'
  BY <1>1 DEF LegacyInv, EventsHaveRows
<1>4. tears \in Nat /\ tears' \in Nat
  BY DEF LegacyInv, LogOK
<1>c. cut' \in BOOLEAN
  OBVIOUS
<1>5. Cardinality(Unreadable(log)) \in Nat
  BY <1>1, UnreadableIsFinite
<1>6. Cardinality(Unreadable(log)) <= tears
  BY <1>5 DEF LegacyInv, TearsPay
<1>7. Cardinality(Unreadable(log')) + (IF cut' THEN 1 ELSE 0) <= tears'
  BY <1>2, <1>4, <1>5, <1>6
<1>8. cut' => log' # <<>> /\ ~log'[Len(log')].known /\ ~log'[Len(log')].ok
  BY <1>1
<1>9. LogOK' /\ TearsPay'
  BY <1>1, <1>4, <1>c, <1>7, <1>8 DEF LogOK, TearsPay
<1>10. QED  BY <1>3, <1>9

\* A line glued to the cut one: at most this one event goes with it.
LEMMA LineGlued ==
    ASSUME LegacyInv, cut, NEW line \in Line, ~line.ok, cut' = FALSE,
           log' = [log EXCEPT ![Len(log)] = line], UNCHANGED <<rows, tears>>
    PROVE  LogOK' /\ EventsHaveRows' /\ TearsPay'
<1>1. /\ log \in Seq(Line) /\ log # <<>> /\ Len(log) \in DOMAIN log
      /\ log' \in Seq(Line) /\ DOMAIN log' = DOMAIN log
      /\ \A i \in DOMAIN log : log'[i] = IF i = Len(log) THEN line ELSE log[i]
  BY DEF LegacyInv, LogOK, TearsPay
<1>2. LogOK' /\ tears \in Nat
  BY <1>1 DEF LegacyInv, LogOK
<1>3. EventsHaveRows'
  BY <1>1 DEF LegacyInv, EventsHaveRows
<1>4. Unreadable(log') \subseteq Unreadable(log) \cup {Len(log)}
  BY <1>1 DEF Unreadable
<1>5. /\ IsFiniteSet(Unreadable(log)) /\ Cardinality(Unreadable(log)) \in Nat
      /\ Cardinality(Unreadable(log')) \in Nat
  BY <1>1, UnreadableIsFinite
<1>6. /\ IsFiniteSet(Unreadable(log) \cup {Len(log)})
      /\ Cardinality(Unreadable(log) \cup {Len(log)})
           = IF Len(log) \in Unreadable(log) THEN Cardinality(Unreadable(log))
                                         ELSE Cardinality(Unreadable(log)) + 1
  BY <1>5, FS_AddElement
<1>7. Cardinality(Unreadable(log')) <= Cardinality(Unreadable(log) \cup {Len(log)})
  BY <1>4, <1>6, FS_Subset
<1>8. Cardinality(Unreadable(log)) + 1 <= tears
  BY DEF LegacyInv, TearsPay
<1>9. Cardinality(Unreadable(log')) + 0 <= tears
  BY <1>2, <1>5, <1>6, <1>7, <1>8
<1>10. TearsPay'
  BY <1>9 DEF TearsPay
<1>11. QED  BY <1>2, <1>3, <1>10

CallRec == [pc : {"idle", "store", "log"}, texts : Seq(Texts),
            ids : Seq((1..MaxBoots) \X Texts)]

CallsInv ==
    /\ CallOK
    /\ \A c \in Callers : call[c].pc # "idle" => call[c].texts # <<>>
    /\ \A c \in Callers : EventIsStored(c)

\* A call moves on, or is over, and the rows of the others stay.
LEMMA CallMoves ==
    ASSUME LegacyInv, rows \subseteq rows', NEW c \in Callers, NEW new \in CallRec,
           call' = [call EXCEPT ![c] = new],
           new.pc # "idle" => new.texts # <<>>,
           new.pc = "log" =>
             /\ new.ids # <<>>
             /\ \E row \in rows' : row.id = new.ids[Len(new.ids)] /\ row.text = Head(new.texts)
    PROVE  CallsInv'
<1>1. CallOK'
  BY DEF LegacyInv, CallOK, CallRec
<1>2. \A d \in Callers : call'[d] = IF d = c THEN new ELSE call[d]
  BY DEF LegacyInv, CallOK
<1>3. \A d \in Callers : EventIsStored(d)'
  BY <1>2 DEF LegacyInv, EventIsStored
<1>4. QED  BY <1>1, <1>2, <1>3 DEF LegacyInv, CallsInv

LEMMA ReplyMoves ==
    ASSUME LegacyInv, rows \subseteq rows', NEW c \in Callers, Reply(c)
    PROVE  CallsInv'
<1>1. NoCall \in CallRec /\ NoCall.pc = "idle"
  BY DEF NoCall, CallRec
<1>2. QED  BY <1>1, CallMoves DEF Reply

\* What a row holds, and that its id tells.
LEMMA AddItemAdds ==
    ASSUME LegacyInv, NEW text \in Texts, AddItem(text)
    PROVE  /\ rows \subseteq rows'
           /\ \A row \in rows' : row.id[2] = row.text
           /\ \E row \in rows' : row.id = <<boot, text>> /\ row.text = text
<1> DEFINE new == [id |-> <<boot, text>>, text |-> text]
<1>1. CASE \E row \in rows : row.id = <<boot, text>>
  <2>1. rows' = rows
    BY <1>1 DEF AddItem
  <2>2. PICK row \in rows : row.id = <<boot, text>>
    BY <1>1
  <2>3. row.text = text
    BY <2>2 DEF LegacyInv
  <2>4. QED  BY <2>1, <2>2, <2>3 DEF LegacyInv
<1>2. CASE ~ \E row \in rows : row.id = <<boot, text>>
  <2>1. rows' = rows \cup {new}
    BY <1>2 DEF AddItem
  <2>2. new.id = <<boot, text>> /\ new.text = text /\ new.id[2] = new.text
    OBVIOUS
  <2> HIDE DEF new
  <2>3. QED  BY <2>1, <2>2 DEF LegacyInv
<1>3. QED  BY <1>1, <1>2

\* The line a caller is about to log.
LEMMA EventType ==
    ASSUME LegacyInv, NEW c \in Callers, call[c].pc = "log", NEW known \in BOOLEAN
    PROVE  /\ Event(c, known) \in Line
           /\ [Event(c, known) EXCEPT !.ok = FALSE] \in Line
           /\ \E row \in rows : row.id = Event(c, known).memory /\ row.text = Event(c, known).text
<1>1. /\ call[c] \in CallRec /\ call[c].texts # <<>> /\ call[c].ids # <<>>
      /\ \E row \in rows : row.id = call[c].ids[Len(call[c].ids)] /\ row.text = Head(call[c].texts)
  BY DEF LegacyInv, CallOK, CallRec, EventIsStored
<1>2. Head(call[c].texts) \in Texts
  BY <1>1 DEF CallRec
<1>3. call[c].ids[Len(call[c].ids)] \in (1..MaxBoots) \X Texts
  BY <1>1 DEF CallRec
<1>4. /\ Event(c, known) \in Line
      /\ [Event(c, known) EXCEPT !.ok = FALSE] \in Line
  BY <1>2, <1>3 DEF Event, Line
<1>5. QED  BY <1>1, <1>4 DEF Event

\* Appending to a sequence, and what is left of one.
LEMMA AppendFact ==
    ASSUME NEW S, NEW q \in Seq(S), NEW e \in S
    PROVE  /\ Append(q, e) \in Seq(S) /\ Append(q, e) # <<>>
           /\ Append(q, e)[Len(Append(q, e))] = e
<1>1. Len(q) \in Nat /\ Len(Append(q, e)) = Len(q) + 1
  OBVIOUS
<1>2. QED  BY <1>1

LEMMA TailFact ==
    ASSUME NEW S, NEW q \in Seq(S), Len(q) > 1
    PROVE  Tail(q) \in Seq(S) /\ Tail(q) # <<>>
<1>1. q # <<>> /\ Len(q) \in Nat
  OBVIOUS
<1>2. Tail(q) \in Seq(S) /\ Len(Tail(q)) = Len(q) - 1
  BY <1>1
<1>3. Tail(q) # <<>>
  <2>1. Len(Tail(q)) # 0 /\ Len(<<>>) = 0
    BY <1>1, <1>2
  <2>2. QED  BY <2>1
<1>4. QED  BY <1>2, <1>3

LEMMA IdsGrow ==
    ASSUME NEW ids \in Seq((1..MaxBoots) \X Texts), NEW id \in (1..MaxBoots) \X Texts
    PROVE  /\ Append(ids, id) \in Seq((1..MaxBoots) \X Texts) /\ Append(ids, id) # <<>>
           /\ Append(ids, id)[Len(Append(ids, id))] = id
<1> DEFINE Ids == (1..MaxBoots) \X Texts
<1>1. ids \in Seq(Ids) /\ id \in Ids
  OBVIOUS
<1> HIDE DEF Ids
<1>2. /\ Append(ids, id) \in Seq(Ids) /\ Append(ids, id) # <<>>
      /\ Append(ids, id)[Len(Append(ids, id))] = id
  BY <1>1, AppendFact
<1>3. QED  BY <1>2 DEF Ids

LEMMA LegacyStep == LegacyInv /\ [LegacyNext]_legacyVars => LegacyInv'
<1> SUFFICES ASSUME LegacyInv, [LegacyNext]_legacyVars PROVE LegacyInv'
  OBVIOUS
<1>b. boot \in 1..MaxBoots /\ \A row \in rows : row.id[2] = row.text
  BY DEF LegacyInv
<1>k. ASSUME CallsInv', rows \subseteq rows', \A row \in rows' : row.id[2] = row.text,
             UNCHANGED <<log, cut, tears, boot>>
      PROVE  LegacyInv'
  BY <1>k, <1>b, LogKept DEF CallsInv, LegacyInv
<1>r. ASSUME CallsInv', LogOK', EventsHaveRows', TearsPay', UNCHANGED <<rows, boot>>
      PROVE  LegacyInv'
  BY <1>r, <1>b DEF CallsInv, LegacyInv
<1>1. ASSUME NEW c \in Callers, NEW texts \in Seq(Texts), texts # <<>>, EmbedBegin(c, texts)
      PROVE  LegacyInv'
  <2>1. [pc |-> "store", texts |-> texts, ids |-> <<>>] \in CallRec
    BY <1>1 DEF CallRec
  <2>2. CallsInv' /\ rows' = rows
    BY <1>1, <2>1, CallMoves DEF EmbedBegin
  <2>3. QED  BY <1>1, <1>b, <1>k, <2>2 DEF EmbedBegin
<1>2. ASSUME NEW c \in Callers, WriteSemantic(c) PROVE LegacyInv'
  <2> DEFINE id == <<boot, Head(call[c].texts)>>
             ids == Append(call[c].ids, id)
             new == [pc |-> "log", texts |-> call[c].texts, ids |-> ids]
  <2>1. call[c] \in CallRec /\ call[c].texts # <<>>
    BY <1>2 DEF WriteSemantic, LegacyInv, CallOK, CallRec
  <2>2. Head(call[c].texts) \in Texts
    BY <2>1 DEF CallRec
  <2>3. /\ rows \subseteq rows' /\ \A row \in rows' : row.id[2] = row.text
        /\ \E row \in rows' : row.id = id /\ row.text = Head(call[c].texts)
    BY <1>2, <2>2, AddItemAdds DEF WriteSemantic
  <2>4. id \in (1..MaxBoots) \X Texts
    BY <1>b, <2>2
  <2>5. call' = [call EXCEPT ![c] = new]
    BY <1>2 DEF WriteSemantic
  <2> HIDE DEF id
  <2>a. call[c].ids \in Seq((1..MaxBoots) \X Texts)
    BY <2>1 DEF CallRec
  <2>6. ids \in Seq((1..MaxBoots) \X Texts) /\ ids # <<>> /\ ids[Len(ids)] = id
    BY <2>a, <2>4, IdsGrow
  <2> HIDE DEF ids
  <2>7. new \in CallRec /\ new.ids = ids /\ new.texts = call[c].texts /\ new.pc = "log"
    BY <2>1, <2>6 DEF CallRec
  <2> HIDE DEF new
  <2>8. CallsInv'
    BY <2>1, <2>3, <2>5, <2>6, <2>7, CallMoves
  <2>9. QED  BY <1>2, <1>k, <2>3, <2>8 DEF WriteSemantic
<1>3. ASSUME NEW c \in Callers, WriteSemanticFails(c) PROVE LegacyInv'
  <2>1. Head(call[c].texts) \in Texts
    BY <1>3 DEF WriteSemanticFails, LegacyInv, CallOK
  <2>2. rows \subseteq rows' /\ \A row \in rows' : row.id[2] = row.text
    BY <1>3, <1>b, <2>1, AddItemAdds DEF WriteSemanticFails
  <2>3. QED  BY <1>3, <1>k, <2>2, ReplyMoves DEF WriteSemanticFails
<1>4. ASSUME NEW c \in Callers, LogEvent(c) PROVE LegacyInv'
  <2> DEFINE new == [pc |-> "store", texts |-> Tail(call[c].texts), ids |-> call[c].ids]
  <2>1. call[c].pc = "log" /\ rows' = rows /\ UNCHANGED <<tears, boot>>
    BY <1>4 DEF LogEvent
  <2>2. CallsInv'
    <3>1. CASE Reply(c)
      BY <2>1, <3>1, ReplyMoves
    <3>2. CASE Len(call[c].texts) > 1
      <4>1. call[c] \in CallRec
        BY DEF LegacyInv, CallOK, CallRec
      <4>a. call[c].texts \in Seq(Texts)
        BY <4>1 DEF CallRec
      <4>2. Tail(call[c].texts) \in Seq(Texts) /\ Tail(call[c].texts) # <<>>
        BY <3>2, <4>a, TailFact, Zenon
      <4>3. new \in CallRec /\ new.texts # <<>> /\ new.pc = "store"
        BY <4>1, <4>2 DEF CallRec
      <4>4. call' = [call EXCEPT ![c] = new]
        BY <1>4, <3>2 DEF LogEvent
      <4> HIDE DEF new
      <4>5. QED  BY <2>1, <4>3, <4>4, CallMoves
    <3>3. QED  BY <1>4, <3>1, <3>2 DEF LogEvent
  <2>3. LogOK' /\ EventsHaveRows' /\ TearsPay'
    <3> DEFINE line == Event(c, TRUE)
    <3>1. /\ line \in Line /\ line.ok
          /\ [line EXCEPT !.ok = FALSE] \in Line /\ ~[line EXCEPT !.ok = FALSE].ok
          /\ \E row \in rows : row.id = line.memory /\ row.text = line.text
      BY <2>1, EventType DEF Event
    <3>2. AppendLine(line)
      BY <1>4 DEF LogEvent
    <3> HIDE DEF line
    <3>3. CASE cut
      BY <2>1, <3>1, <3>2, <3>3, LineGlued DEF AppendLine
    <3>4. CASE ~cut
      BY <2>1, <3>1, <3>2, <3>4, LineAdded DEF AppendLine
    <3>5. QED  BY <3>3, <3>4
  <2>4. QED  BY <1>r, <2>1, <2>2, <2>3
<1>5. ASSUME NEW c \in Callers, LogEventFails(c) PROVE LegacyInv'
  <2>1. call[c].pc = "log" /\ rows' = rows /\ boot' = boot /\ CallsInv'
    BY <1>5, ReplyMoves DEF LogEventFails
  <2>2. LogOK' /\ EventsHaveRows' /\ TearsPay'
    <3> DEFINE line == Event(c, FALSE)
               front == [line EXCEPT !.ok = FALSE]
    <3>1. /\ line \in Line /\ line.ok /\ ~line.known
          /\ front \in Line /\ ~front.ok /\ ~front.known
          /\ \E row \in rows : row.id = line.memory /\ row.text = line.text
      BY <2>1, EventType DEF Event
    <3>2. \/ UNCHANGED <<log, cut, tears>>
          \/ AppendLine(line) /\ UNCHANGED tears
          \/ ~cut /\ log' = Append(log, front) /\ cut' = TRUE /\ tears' = tears + 1
      BY <1>5 DEF LogEventFails
    <3>3. AppendLine(line) => IF cut THEN log' = [log EXCEPT ![Len(log)] = front] /\ cut' = FALSE
                                     ELSE log' = Append(log, line) /\ cut' = FALSE
      BY DEF AppendLine
    <3> HIDE DEF line, front
    <3>4. CASE UNCHANGED <<log, cut, tears>>
      BY <2>1, <3>4, LogKept
    <3>5. CASE AppendLine(line) /\ UNCHANGED tears /\ cut
      BY <2>1, <3>1, <3>3, <3>5, LineGlued
    <3>6. CASE AppendLine(line) /\ UNCHANGED tears /\ ~cut
      BY <2>1, <3>1, <3>3, <3>6, LineAdded
    <3>7. CASE ~cut /\ log' = Append(log, front) /\ cut' = TRUE /\ tears' = tears + 1
      BY <2>1, <3>1, <3>7, LineAdded
    <3>8. QED  BY <3>2, <3>4, <3>5, <3>6, <3>7
  <2>3. QED  BY <1>r, <2>1, <2>2
<1>6. CASE NasRestart
  <2>1. boot' \in 1..MaxBoots
    BY <1>6, LegacyAssumption DEF NasRestart, LegacyInv
  <2>2. QED
    BY <1>6, <2>1, LogKept DEF NasRestart, LegacyInv, CallOK, EventIsStored
<1>7. CASE LegacyHubRestart
  <2>1. \A c \in Callers : call'[c] = NoCall
    BY <1>7 DEF LegacyHubRestart
  <2>2. CallsInv'
    BY <1>7, <2>1 DEF LegacyHubRestart, NoCall, CallsInv, CallOK, EventIsStored
  <2>3. QED  BY <1>7, <1>b, <1>k, <2>2 DEF LegacyHubRestart
<1>8. ASSUME NEW text \in Texts, StmWrite(text) PROVE LegacyInv'
  BY <1>8, LogKept DEF StmWrite, LegacyInv, CallOK, EventIsStored
<1>9. CASE UNCHANGED legacyVars
  BY <1>9, LogKept DEF legacyVars, LegacyInv, CallOK, EventIsStored
<1>10. ASSUME NEW c \in Callers, NEW s \in Texts, NEW t \in Texts,
              EmbedBegin(c, <<s>>) \/ EmbedBegin(c, <<s, t>>)
       PROVE  LegacyInv'
  <2>1. <<s>> \in Seq(Texts) /\ <<s>> # <<>> /\ <<s, t>> \in Seq(Texts) /\ <<s, t>> # <<>>
    OBVIOUS
  <2>2. QED  BY <1>1, <1>10, <2>1
<1>11. QED
  BY <1>2, <1>3, <1>4, <1>5, <1>6, <1>7, <1>8, <1>9, <1>10 DEF LegacyNext

\* For any callers, texts and bounds: what the episodic log says was created is
\* in the semantic store, wherever either call of a pair fails and whichever of
\* the two processes restarts.
THEOREM LoggedIsStored == LegacySpec => []EventsHaveRows
<1>1. LegacyInv => EventsHaveRows
  BY DEF LegacyInv
<1>2. QED  BY <1>1, LegacyStart, LegacyStep, PTL DEF LegacySpec

\* A log line cut short takes at most one acknowledged event with it.
THEOREM TornLineCostsOne == LegacySpec => []OneEventPerTear
<1>1. ASSUME LegacyInv PROVE OneEventPerTear
  <2>1. Cardinality(Unreadable(log)) \in Nat /\ tears \in Nat
    BY <1>1, UnreadableIsFinite DEF LegacyInv, LogOK
  <2>2. Cardinality(Unreadable(log)) <= tears
    BY <1>1, <2>1 DEF LegacyInv, TearsPay
  <2>3. QED  BY <2>2 DEF OneEventPerTear, Unreadable
<1>2. QED  BY <1>1, LegacyStart, LegacyStep, PTL DEF LegacySpec
-----------------------------------------------------------------------------
(* The clients.  One prompt is in the loop at a time; what a POST left at   *)
(* the hub is told prompt by prompt.                                        *)

LoopRec == [pc : {"idle", "wait", "sleep", "poll"}, n : 0..MaxPrompts,
            loading : 0..MAX_MEMBER_LOADING_RETRIES, cortex : BOOLEAN,
            posts : Nat, polls : 0..MaxPolls]

ClientRec == [ui : {"cli", "web"}, path : {"member", "legacy"},
              typed : 0..MaxPrompts, loop : LoopRec]

Paths == {"member", "legacy"}

HistoryOK ==
    /\ post \in [Prompts -> Paths \cup {"none", "ok", "cortex", "error", "loading", "queued"}]
    /\ inbox \in [Prompts -> {"none", "queued", "answered"}]
    /\ effects \in [Prompts -> Nat]
    /\ lost \subseteq Prompts
    /\ shown \in [Prompts -> {"nothing", "answer", "failed", "queued", "lost contact"}]
    /\ presence \in {"awake", "busy", "waking", "asleep"}

\* A prompt the client still works on was typed and is not called ended; the
\* one it sleeps on left nothing, the one it polls for is in the inbox.
LoopOK ==
    /\ client.loop.pc \in {"wait", "sleep"} =>
         client.loop.n \in 1..client.typed /\ shown[client.loop.n] = "nothing"
    /\ client.loop.pc = "sleep" => post[client.loop.n] = "none" /\ effects[client.loop.n] = 0
    /\ client.loop.pc = "poll" =>
         client.loop.n \in 1..client.typed /\ inbox[client.loop.n] # "none"

\* What a prompt's POST has at the hub, its reply and its report agree.
PromptOK(n) ==
    /\ n \notin 1..client.typed =>
         post[n] = "none" /\ inbox[n] = "none" /\ effects[n] = 0 /\ shown[n] = "nothing"
    /\ effects[n] = 0 \/ effects[n] = 1
    /\ post[n] \in Paths => effects[n] = 0
    /\ inbox[n] # "none" => effects[n] = 1
    /\ post[n] \notin Paths \cup {"none"} => client.loop.pc = "wait" /\ client.loop.n = n
    /\ post[n] = "ok" => effects[n] = 1 /\ inbox[n] = "none"
    /\ post[n] \in {"cortex", "loading"} => effects[n] = 0
    /\ post[n] = "error" /\ n \notin lost => effects[n] = 0
    /\ post[n] = "queued" => inbox[n] # "none"
    /\ shown[n] = "answer" => effects[n] = 1 /\ inbox[n] # "queued"
    /\ shown[n] \in {"queued", "lost contact"} => inbox[n] # "none"
    /\ shown[n] = "failed" /\ n \notin lost => effects[n] = 0 /\ post[n] \notin Paths

ClientInv ==
    /\ client \in ClientRec
    /\ HistoryOK
    /\ LoopOK
    /\ \A n \in Prompts : PromptOK(n)

LEMMA ClientStart == ClientInit => ClientInv
<1> SUFFICES ASSUME ClientInit PROVE ClientInv
  OBVIOUS
<1>1. Loop \in LoopRec /\ Loop.pc = "idle"
  BY ClientAssumption DEF Loop, LoopRec, MAX_MEMBER_LOADING_RETRIES
<1>2. PICK ui \in {"cli", "web"}, path \in Paths :
        client = [ui |-> ui, path |-> path, typed |-> 0, loop |-> Loop]
  BY DEF ClientInit, Paths
<1>3. client \in ClientRec /\ client.loop = Loop
  BY <1>1, <1>2, ClientAssumption DEF ClientRec, Paths
<1>4. HistoryOK
  BY DEF ClientInit, HistoryOK
<1>5. LoopOK
  BY <1>1, <1>3 DEF LoopOK
<1>6. \A n \in Prompts : PromptOK(n)
  BY DEF ClientInit, PromptOK, Paths
<1>7. QED  BY <1>3, <1>4, <1>5, <1>6 DEF ClientInv

\* The loop of the client is replaced as a whole.
LEMMA LoopsTo ==
    ASSUME client \in ClientRec, NEW loop \in LoopRec, Loops(loop)
    PROVE  client' \in ClientRec /\ client'.loop = loop /\ client'.typed = client.typed
  BY DEF Loops, ClientRec

LEMMA LoopIsOver ==
    ASSUME client \in ClientRec, Loops(Loop)
    PROVE  client' \in ClientRec /\ client'.loop.pc = "idle" /\ client'.typed = client.typed
<1>1. Loop \in LoopRec /\ Loop.pc = "idle"
  BY ClientAssumption DEF Loop, LoopRec, MAX_MEMBER_LOADING_RETRIES
<1>2. QED  BY <1>1, LoopsTo
\* A reply goes to the client that waits for it, or nowhere.
LEMMA ReplyGoes ==
    ASSUME ClientInv, NEW n \in Prompts, NEW reply, Replies(n, reply)
    PROVE  \E r : /\ post' = [post EXCEPT ![n] = r]
                  /\ r # "none" => r = reply /\ client.loop.pc = "wait" /\ client.loop.n = n
  BY DEF Replies, At, Current

\* A request the hub still has left nothing there yet.
LEMMA NothingYet ==
    ASSUME NEW n, PromptOK(n), post[n] \in Paths
    PROVE  /\ effects[n] = 0 /\ inbox[n] = "none" /\ n \in 1..client.typed
           /\ shown[n] \notin {"answer", "queued", "lost contact"}
           /\ shown[n] = "failed" => n \in lost
<1>1. effects[n] = 0
  BY DEF PromptOK
<1>2. effects[n] # 1
  BY <1>1
<1>3. inbox[n] = "none"
  BY <1>2, Zenon DEF PromptOK
<1>4. n \in 1..client.typed
  <2>1. post[n] # "none"
    BY DEF Paths
  <2>2. QED  BY <2>1, Zenon DEF PromptOK
<1>5. shown[n] # "answer"
  BY <1>2, Zenon DEF PromptOK
<1>6. shown[n] # "queued" /\ shown[n] # "lost contact"
  BY <1>3 DEF PromptOK
<1>7. shown[n] = "failed" => n \in lost
  BY Zenon DEF PromptOK
<1>8. QED  BY <1>1, <1>3, <1>4, <1>5, <1>6, <1>7

\* What the hub does to one request: the client is where it was.
HubAnswers(n, r, e, i) ==
    /\ UNCHANGED <<client, shown, presence>>
    /\ post[n] \in Paths /\ post' = [post EXCEPT ![n] = r]
    /\ r \in {"none", "ok", "cortex", "error", "loading", "queued"}
    /\ r # "none" => client.loop.pc = "wait" /\ client.loop.n = n
    /\ effects' = [effects EXCEPT ![n] = e] /\ e \in Nat /\ (e = 0 \/ e = 1)
    /\ inbox' = [inbox EXCEPT ![n] = i] /\ i \in {"none", "queued"}
    /\ lost' \subseteq Prompts /\ lost \subseteq lost'
    /\ r = "ok" => e = 1 /\ i = "none"
    /\ r \in {"cortex", "loading"} => e = 0
    /\ r = "error" /\ n \notin lost' => e = 0
    /\ r = "queued" => i = "queued"
    /\ i = "queued" => e = 1

LEMMA HubStepKeeps ==
    ASSUME ClientInv, NEW n \in Prompts, NEW r, NEW e, NEW i, HubAnswers(n, r, e, i)
    PROVE  ClientInv'
<1>1. HistoryOK /\ client \in ClientRec /\ PromptOK(n) /\ LoopOK
  BY DEF ClientInv
<1>2. /\ post'[n] = r /\ effects'[n] = e /\ inbox'[n] = i /\ (n \in lost => n \in lost')
      /\ client' = client /\ shown' = shown
  BY <1>1 DEF HistoryOK, HubAnswers
<1>a. ASSUME NEW m \in Prompts, m # n
      PROVE  /\ post'[m] = post[m] /\ effects'[m] = effects[m] /\ inbox'[m] = inbox[m]
             /\ shown'[m] = shown[m] /\ (m \in lost => m \in lost')
  BY <1>1, <1>a DEF HistoryOK, HubAnswers
<1>3. HistoryOK'
  BY <1>1 DEF HistoryOK, HubAnswers, Paths
<1>c. post[n] \in Paths
  BY DEF HubAnswers
<1>4. effects[n] = 0 /\ inbox[n] = "none" /\ n \in 1..client.typed
  BY <1>1, <1>c, NothingYet
<1>5. /\ shown[n] \notin {"answer", "queued", "lost contact"}
      /\ shown[n] = "failed" => n \in lost
  BY <1>1, <1>c, NothingYet
<1>b. /\ r \in {"none", "ok", "cortex", "error", "loading", "queued"}
      /\ r # "none" => client.loop.pc = "wait" /\ client.loop.n = n
      /\ e = 0 \/ e = 1
      /\ i \in {"none", "queued"}
      /\ r = "ok" => e = 1 /\ i = "none"
      /\ r \in {"cortex", "loading"} => e = 0
      /\ r = "error" /\ n \notin lost' => e = 0
      /\ r = "queued" => i = "queued"
      /\ i = "queued" => e = 1
  BY DEF HubAnswers
<1>6. PromptOK(n)'
  <2>1. n \in 1..client'.typed /\ (effects'[n] = 0 \/ effects'[n] = 1)
    BY <1>2, <1>4, <1>b
  <2>2. post'[n] \notin Paths /\ (inbox'[n] # "none" => effects'[n] = 1)
    BY <1>2, <1>b DEF Paths
  <2>3. /\ post'[n] # "none" => client'.loop.pc = "wait" /\ client'.loop.n = n
        /\ post'[n] = "ok" => effects'[n] = 1 /\ inbox'[n] = "none"
        /\ post'[n] \in {"cortex", "loading"} => effects'[n] = 0
        /\ post'[n] = "error" /\ n \notin lost' => effects'[n] = 0
        /\ post'[n] = "queued" => inbox'[n] # "none"
    BY <1>2, <1>b
  <2>4. /\ shown'[n] \notin {"answer", "queued", "lost contact"}
        /\ shown'[n] = "failed" => n \in lost'
    BY <1>2, <1>5
  <2>5. /\ post'[n] \in Paths => effects'[n] = 0
        /\ post'[n] \notin Paths \cup {"none"} => client'.loop.pc = "wait" /\ client'.loop.n = n
        /\ shown'[n] = "answer" => effects'[n] = 1 /\ inbox'[n] # "queued"
        /\ shown'[n] \in {"queued", "lost contact"} => inbox'[n] # "none"
        /\ shown'[n] = "failed" /\ n \notin lost' => effects'[n] = 0 /\ post'[n] \notin Paths
    BY <2>2, <2>3, <2>4
  <2>6. QED  BY <2>1, <2>2, <2>3, <2>5, Zenon DEF PromptOK
<1>7. ASSUME NEW m \in Prompts, m # n PROVE PromptOK(m)'
  <2>1. PromptOK(m)
    BY DEF ClientInv
  <2>2. QED  BY <1>2, <1>7, <1>a, <2>1 DEF PromptOK
<1>8. LoopOK'
  <2>1. client.typed \in 0..MaxPrompts
    BY <1>1 DEF ClientRec
  <2>2. 1..client.typed \subseteq Prompts
    BY <2>1, ClientAssumption DEF Prompts
  <2>3. client.loop.pc = "sleep" => client.loop.n \in Prompts /\ client.loop.n # n
    BY <1>1, <2>2 DEF LoopOK, HubAnswers, Paths
  <2>4. client.loop.pc = "poll" => client.loop.n \in Prompts /\ client.loop.n # n
    BY <1>1, <1>4, <2>2 DEF LoopOK
  <2>5. QED  BY <1>1, <1>2, <1>a, <2>3, <2>4 DEF LoopOK
<1>9. QED  BY <1>1, <1>2, <1>3, <1>6, <1>7, <1>8 DEF ClientInv

\* A prompt ends: the reply it waited for is taken, or it has none.
PromptStops(n, outcome) ==
    /\ Ends(n, outcome) /\ outcome \in {"answer", "failed", "queued", "lost contact"}
    /\ post' = post \/ post' = [post EXCEPT ![n] = "none"]
    /\ n = client.loop.n /\ post'[n] \in Paths \cup {"none"}
    /\ UNCHANGED <<inbox, effects, presence>>
    /\ lost' \subseteq Prompts /\ lost \subseteq lost'
    /\ outcome = "answer" => effects[n] = 1 /\ inbox[n] # "queued"
    /\ outcome \in {"queued", "lost contact"} => inbox[n] # "none"
    /\ outcome = "failed" /\ n \notin lost' => effects[n] = 0 /\ post'[n] \notin Paths

LEMMA PromptEnds ==
    ASSUME ClientInv, NEW n \in Prompts, n \in 1..client.typed, NEW outcome,
           PromptStops(n, outcome)
    PROVE  ClientInv'
<1>1. /\ client' \in ClientRec /\ client'.loop.pc = "idle" /\ client'.typed = client.typed
      /\ HistoryOK /\ PromptOK(n)
  BY LoopIsOver DEF ClientInv, Ends, PromptStops
<1>2. HistoryOK'
  <2>1. post' \in [Prompts -> Paths \cup {"none", "ok", "cortex", "error", "loading", "queued"}]
    BY <1>1 DEF HistoryOK, PromptStops
  <2>2. shown' \in [Prompts -> {"nothing", "answer", "failed", "queued", "lost contact"}]
    BY <1>1 DEF HistoryOK, Ends, PromptStops
  <2>3. QED  BY <1>1, <2>1, <2>2 DEF HistoryOK, PromptStops
<1>3. LoopOK'
  BY <1>1 DEF LoopOK
<1>4. /\ shown'[n] = outcome /\ post'[n] \in Paths \cup {"none"} /\ (n \in lost => n \in lost')
      /\ post'[n] \in Paths => post'[n] = post[n]
      /\ inbox' = inbox /\ effects' = effects
  BY <1>1 DEF HistoryOK, Ends, PromptStops, Paths
<1>b. /\ outcome \in {"answer", "failed", "queued", "lost contact"}
      /\ outcome = "answer" => effects[n] = 1 /\ inbox[n] # "queued"
      /\ outcome \in {"queued", "lost contact"} => inbox[n] # "none"
      /\ outcome = "failed" /\ n \notin lost' => effects[n] = 0 /\ post'[n] \notin Paths
  BY DEF PromptStops
<1>5. PromptOK(n)'
  <2>1. n \in 1..client'.typed /\ (effects'[n] = 0 \/ effects'[n] = 1)
    BY <1>1, <1>4 DEF PromptOK
  <2>2. post'[n] \in Paths => effects'[n] = 0
    BY <1>1, <1>4 DEF PromptOK
  <2>3. inbox'[n] # "none" => effects'[n] = 1
    BY <1>1, <1>4 DEF PromptOK
  <2>4. post'[n] \notin {"ok", "cortex", "loading", "error", "queued"}
    BY <1>4 DEF Paths
  <2>5. /\ shown'[n] = "answer" => effects'[n] = 1 /\ inbox'[n] # "queued"
        /\ shown'[n] \in {"queued", "lost contact"} => inbox'[n] # "none"
        /\ shown'[n] = "failed" /\ n \notin lost' => effects'[n] = 0 /\ post'[n] \notin Paths
    BY <1>4, <1>b
  <2>6. /\ post'[n] \notin Paths \cup {"none"} => client'.loop.pc = "wait" /\ client'.loop.n = n
        /\ post'[n] = "ok" => effects'[n] = 1 /\ inbox'[n] = "none"
        /\ post'[n] \in {"cortex", "loading"} => effects'[n] = 0
        /\ post'[n] = "error" /\ n \notin lost' => effects'[n] = 0
        /\ post'[n] = "queued" => inbox'[n] # "none"
    BY <1>4, <2>4
  <2>7. QED  BY <2>1, <2>2, <2>3, <2>5, <2>6, Zenon DEF PromptOK
<1>6. ASSUME NEW m \in Prompts, m # n PROVE PromptOK(m)'
  <2>1. /\ post'[m] = post[m] /\ shown'[m] = shown[m] /\ (m \in lost => m \in lost')
        /\ inbox' = inbox /\ effects' = effects
    BY <1>1, <1>6 DEF HistoryOK, Ends, PromptStops
  <2>2. post[m] \in Paths \cup {"none"} /\ PromptOK(m)
    BY <1>6 DEF ClientInv, PromptOK, PromptStops
  <2>3. QED  BY <1>1, <2>1, <2>2 DEF PromptOK
<1>7. QED  BY <1>1, <1>2, <1>3, <1>5, <1>6 DEF ClientInv

\* The prompt goes on: the client sleeps on it, posts it again, or polls.
PromptMoves(n, loop, new) ==
    /\ loop \in LoopRec /\ Loops(loop) /\ loop.n = n /\ n = client.loop.n
    /\ UNCHANGED <<inbox, effects, lost, shown, presence>>
    /\ post' = [post EXCEPT ![n] = new] /\ new \in Paths \cup {"none"}
    /\ new \in Paths => effects[n] = 0 /\ loop.pc = "wait"
    /\ loop.pc = "sleep" => effects[n] = 0 /\ new = "none"
    /\ loop.pc \in {"sleep", "wait"} => shown[n] = "nothing"
    /\ loop.pc = "poll" => inbox[n] # "none"

LEMMA PromptGoesOn ==
    ASSUME ClientInv, NEW n \in Prompts, n \in 1..client.typed, NEW loop, NEW new,
           PromptMoves(n, loop, new)
    PROVE  ClientInv'
<1>1. /\ client' \in ClientRec /\ client'.loop = loop /\ client'.typed = client.typed
      /\ HistoryOK /\ PromptOK(n)
  BY LoopsTo DEF ClientInv, PromptMoves
<1>2. HistoryOK'
  BY <1>1 DEF HistoryOK, PromptMoves
<1>4. /\ post'[n] = new /\ inbox' = inbox /\ effects' = effects /\ shown' = shown /\ lost' = lost
  BY <1>1 DEF HistoryOK, PromptMoves
<1>3. LoopOK'
  BY <1>1, <1>4 DEF LoopOK, PromptMoves
<1>5. PromptOK(n)'
  BY <1>1, <1>4 DEF PromptOK, Paths, PromptMoves
<1>6. ASSUME NEW m \in Prompts, m # n PROVE PromptOK(m)'
  <2>1. post'[m] = post[m] /\ post[m] \in Paths \cup {"none"} /\ PromptOK(m)
    BY <1>1, <1>6 DEF ClientInv, PromptOK, HistoryOK, PromptMoves
  <2>2. QED  BY <1>1, <1>4, <2>1 DEF PromptOK
<1>7. QED  BY <1>1, <1>2, <1>3, <1>5, <1>6 DEF ClientInv
\* Where a reply is taken off the connection, the prompt is the typed one.
LEMMA Waiting ==
    ASSUME ClientInv, client.loop.pc \in {"wait", "sleep", "poll"}
    PROVE  /\ client.loop.n \in Prompts /\ client.loop.n \in 1..client.typed
           /\ PromptOK(client.loop.n) /\ client.loop \in LoopRec
<1>1. client \in ClientRec /\ LoopOK
  BY DEF ClientInv
<1>2. client.typed \in 0..MaxPrompts /\ client.loop \in LoopRec
  BY <1>1 DEF ClientRec
<1>3. client.loop.n \in 1..client.typed
  BY <1>1 DEF LoopOK
<1>4. client.loop.n \in Prompts
  BY <1>2, <1>3, ClientAssumption DEF Prompts
<1>5. QED  BY <1>2, <1>3, <1>4 DEF ClientInv

LEMMA HubMoves ==
    ASSUME ClientInv, NEW n \in Prompts, HubSteps(n)
    PROVE  ClientInv'
<1>1. HistoryOK /\ PromptOK(n)
  BY DEF ClientInv
<1>2. CASE HubRunsTurn(n)
  <2>1. /\ post[n] \in Paths /\ UNCHANGED <<client, inbox, shown, presence>>
        /\ lost' \subseteq Prompts /\ lost \subseteq lost'
    BY <1>1, <1>2 DEF HubRunsTurn, Paths, HistoryOK
  <2>2. effects[n] = 0 /\ inbox[n] = "none"
    BY <1>1, <2>1, NothingYet
  <2>3. inbox' = [inbox EXCEPT ![n] = "none"]
    BY <1>1, <2>1, <2>2 DEF HistoryOK
  <2>4. effects' = effects => effects' = [effects EXCEPT ![n] = 0]
    BY <1>1, <2>2 DEF HistoryOK
  <2>5. Effect(n) => effects' = [effects EXCEPT ![n] = 1]
    BY <2>2 DEF Effect
  <2>6. CASE Effect(n) /\ Replies(n, "ok") /\ UNCHANGED lost
    <3>1. PICK r : /\ post' = [post EXCEPT ![n] = r]
                   /\ r # "none" => r = "ok" /\ client.loop.pc = "wait" /\ client.loop.n = n
      BY <2>6, ReplyGoes
    <3>2. HubAnswers(n, r, 1, "none")
      BY <2>1, <2>3, <2>5, <2>6, <3>1 DEF HubAnswers
    <3>3. QED  BY <3>2, HubStepKeeps
  <2>7. ASSUME NEW reply \in {"cortex", "error"}, Replies(n, reply), UNCHANGED <<effects, lost>>
        PROVE  ClientInv'
    <3>1. PICK r : /\ post' = [post EXCEPT ![n] = r]
                   /\ r # "none" => r = reply /\ client.loop.pc = "wait" /\ client.loop.n = n
      BY <2>7, ReplyGoes
    <3>2. HubAnswers(n, r, 0, "none")
      BY <2>1, <2>3, <2>4, <2>7, <3>1 DEF HubAnswers
    <3>3. QED  BY <3>2, HubStepKeeps
  <2>8. CASE Effect(n) /\ Replies(n, "error") /\ lost' = lost \cup {n}
    <3>1. PICK r : /\ post' = [post EXCEPT ![n] = r]
                   /\ r # "none" => r = "error" /\ client.loop.pc = "wait" /\ client.loop.n = n
      BY <2>8, ReplyGoes
    <3>2. HubAnswers(n, r, 1, "none")
      BY <2>1, <2>3, <2>5, <2>8, <3>1 DEF HubAnswers
    <3>3. QED  BY <3>2, HubStepKeeps
  <2>9. QED  BY <1>2, <2>6, <2>7, <2>8 DEF HubRunsTurn
<1>3. CASE HubSaysLoading(n)
  <2>1. /\ post[n] \in Paths /\ UNCHANGED <<client, shown, presence>>
        /\ UNCHANGED <<inbox, effects, lost>> /\ lost \subseteq Prompts
    BY <1>1, <1>3 DEF HubSaysLoading, Paths, HistoryOK
  <2>2. effects[n] = 0 /\ inbox[n] = "none"
    BY <1>1, <2>1, NothingYet
  <2>3. inbox' = [inbox EXCEPT ![n] = "none"] /\ effects' = [effects EXCEPT ![n] = 0]
    BY <1>1, <2>1, <2>2 DEF HistoryOK
  <2>4. PICK r : /\ post' = [post EXCEPT ![n] = r]
                 /\ r # "none" => r = "loading" /\ client.loop.pc = "wait" /\ client.loop.n = n
    BY <1>3, ReplyGoes DEF HubSaysLoading
  <2>5. HubAnswers(n, r, 0, "none")
    BY <2>1, <2>3, <2>4 DEF HubAnswers
  <2>6. QED  BY <2>5, HubStepKeeps
<1>4. CASE HubEnqueues(n)
  <2>1. /\ post[n] \in Paths /\ UNCHANGED <<client, shown, presence, lost>>
        /\ lost \subseteq Prompts /\ inbox' = [inbox EXCEPT ![n] = "queued"]
    BY <1>1, <1>4 DEF HubEnqueues, Paths, HistoryOK
  <2>2. effects[n] = 0
    BY <1>1, <2>1 DEF PromptOK
  <2>3. effects' = [effects EXCEPT ![n] = 1]
    BY <1>4, <2>2 DEF HubEnqueues, Effect
  <2>4. PICK r : /\ post' = [post EXCEPT ![n] = r]
                 /\ r # "none" => r = "queued" /\ client.loop.pc = "wait" /\ client.loop.n = n
    BY <1>4, ReplyGoes DEF HubEnqueues
  <2>5. HubAnswers(n, r, 1, "queued")
    BY <2>1, <2>3, <2>4 DEF HubAnswers
  <2>6. QED  BY <2>5, HubStepKeeps
<1>5. QED  BY <1>2, <1>3, <1>4 DEF HubSteps

LEMMA DrainMoves ==
    ASSUME ClientInv, NEW n \in Prompts, HubDrains(n)
    PROVE  ClientInv'
<1>1. /\ HistoryOK /\ LoopOK /\ client \in ClientRec
      /\ UNCHANGED <<client, post, effects, lost, shown, presence>>
      /\ inbox[n] = "queued" /\ inbox' = [inbox EXCEPT ![n] = "answered"]
  BY DEF ClientInv, HubDrains
<1>2. HistoryOK'
  BY <1>1 DEF HistoryOK
<1>3. \A m \in Prompts : inbox'[m] = IF m = n THEN "answered" ELSE inbox[m]
  BY <1>1 DEF HistoryOK
<1>4. ASSUME NEW m \in Prompts PROVE PromptOK(m)'
  <2>1. PromptOK(m)
    BY DEF ClientInv
  <2>2. CASE m # n
    BY <1>1, <1>3, <2>1, <2>2 DEF PromptOK
  <2>3. CASE m = n
    <3>1. inbox[m] = "queued" /\ inbox'[m] = "answered"
      BY <1>1, <1>3, <2>3
    <3>2. QED  BY <1>1, <2>1, <3>1 DEF PromptOK
  <2>4. QED  BY <2>2, <2>3
<1>5. LoopOK'
  <2>1. client.loop.pc = "poll" => client.loop.n \in Prompts
    BY Waiting
  <2>2. QED  BY <1>1, <1>3, <2>1 DEF LoopOK
<1>6. QED  BY <1>1, <1>2, <1>4, <1>5 DEF ClientInv
\* The steps of the client on its prompt.
LEMMA ClientMoves ==
    ASSUME ClientInv, ClientSteps
    PROVE  ClientInv'
<1> DEFINE n == client.loop.n
<1>1. HistoryOK /\ LoopOK /\ client \in ClientRec
  BY DEF ClientInv
<1>2. client.path \in Paths
  BY <1>1 DEF ClientRec, Paths
<1>t. ASSUME NEW reply, Takes(reply)
      PROVE  /\ client.loop.pc = "wait" /\ post[n] = reply /\ post' = [post EXCEPT ![n] = "none"]
             /\ n \in Prompts /\ n \in 1..client.typed /\ PromptOK(n) /\ post'[n] = "none"
             /\ client.loop \in LoopRec /\ shown[n] = "nothing"
  <2>1. client.loop.pc = "wait" /\ post[n] = reply /\ post' = [post EXCEPT ![n] = "none"]
    BY <1>t DEF Takes, At, Current
  <2>2. /\ n \in Prompts /\ n \in 1..client.typed /\ PromptOK(n)
        /\ client.loop \in LoopRec
    BY <2>1, Waiting
  <2>3. post'[n] = "none" /\ shown[n] = "nothing"
    BY <1>1, <2>1, <2>2 DEF HistoryOK, LoopOK
  <2>4. QED  BY <2>1, <2>2, <2>3
<1>p. ASSUME At("poll")
      PROVE  /\ client.loop.pc = "poll" /\ n \in Prompts /\ n \in 1..client.typed /\ PromptOK(n)
             /\ client.loop \in LoopRec /\ inbox[n] # "none" /\ post[n] \in Paths \cup {"none"}
             /\ client.loop.polls \in 0..MaxPolls
  <2>1. client.loop.pc = "poll"
    BY <1>p DEF At
  <2>2. /\ n \in Prompts /\ n \in 1..client.typed /\ PromptOK(n)
        /\ client.loop \in LoopRec
    BY <2>1, Waiting
  <2>3. client.loop.polls \in 0..MaxPolls
    BY <2>2 DEF LoopRec
  <2>4. inbox[n] # "none"
    BY <1>1, <2>1 DEF LoopOK
  <2>5. post[n] \in Paths \cup {"none"}
    BY <2>1, <2>2 DEF PromptOK
  <2>6. QED  BY <2>1, <2>2, <2>3, <2>4, <2>5
<1>l. lost \subseteq Prompts
  BY <1>1 DEF HistoryOK
<1>3. CASE Answered
  <2>1. Takes("ok") /\ Ends(n, "answer") /\ UNCHANGED <<inbox, effects, lost, presence>>
    BY <1>3 DEF Answered, Current
  <2>2. effects[n] = 1 /\ inbox[n] = "none"
    BY <1>t, <2>1 DEF PromptOK
  <2>3. PromptStops(n, "answer")
    BY <1>t, <1>l, <2>1, <2>2 DEF PromptStops
  <2>4. QED  BY <1>t, <2>1, <2>3, PromptEnds
<1>4. CASE Refused
  <2>1. /\ Takes("error") \/ Takes("cortex")
        /\ Ends(n, "failed") /\ UNCHANGED <<inbox, effects, lost, presence>>
    BY <1>4 DEF Refused, Current
  <2>2. n \notin lost => effects[n] = 0
    BY <1>t, <2>1 DEF PromptOK
  <2>3. post'[n] \notin Paths
    BY <1>t, <2>1 DEF Paths
  <2>4. PromptStops(n, "failed")
    BY <1>t, <1>l, <2>1, <2>2, <2>3 DEF PromptStops
  <2>5. QED  BY <1>t, <2>1, <2>4, PromptEnds
<1>5. CASE CortexDown
  <2> DEFINE loop == [client.loop EXCEPT !.pc = "sleep", !.cortex = TRUE]
  <2>1. /\ Takes("cortex") /\ Loops(loop)
        /\ UNCHANGED <<inbox, effects, lost, shown, presence>>
    BY <1>5 DEF CortexDown
  <2>2. loop \in LoopRec /\ loop.pc = "sleep" /\ loop.n = n
    BY <1>t, <2>1 DEF LoopRec
  <2> HIDE DEF loop
  <2>3. effects[n] = 0
    BY <1>t, <2>1 DEF PromptOK
  <2>4. PromptMoves(n, loop, "none")
    BY <1>t, <2>1, <2>2, <2>3 DEF PromptMoves, Paths
  <2>5. QED  BY <1>t, <2>1, <2>4, PromptGoesOn
<1>6. CASE MemberLoading
  <2>1. Takes("loading") /\ UNCHANGED <<inbox, effects, lost, presence>>
    BY <1>6 DEF MemberLoading
  <2>2. effects[n] = 0
    BY <1>t, <2>1 DEF PromptOK
  <2>3. CASE Ends(n, "failed")
    <3>1. post'[n] \notin Paths
      BY <1>t, <2>1 DEF Paths
    <3>2. PromptStops(n, "failed")
      BY <1>t, <1>l, <2>1, <2>2, <2>3, <3>1 DEF PromptStops
    <3>3. QED  BY <1>t, <2>1, <3>2, PromptEnds
  <2>4. CASE ~Ends(n, "failed")
    <3> DEFINE loop == [client.loop EXCEPT !.pc = "sleep", !.loading = client.loop.loading + 1]
    <3>1. client.loop.loading < MAX_MEMBER_LOADING_RETRIES /\ Loops(loop) /\ UNCHANGED shown
      BY <1>6, <2>4 DEF MemberLoading, Current
    <3>2. client.loop.loading + 1 \in 0..MAX_MEMBER_LOADING_RETRIES
      BY <1>t, <2>1, <3>1 DEF LoopRec, MAX_MEMBER_LOADING_RETRIES
    <3>3. loop \in LoopRec /\ loop.pc = "sleep" /\ loop.n = n
      BY <1>t, <2>1, <3>2 DEF LoopRec
    <3> HIDE DEF loop
    <3>4. PromptMoves(n, loop, "none")
      BY <1>t, <2>1, <2>2, <3>1, <3>3 DEF PromptMoves, Paths
    <3>5. QED  BY <1>t, <2>1, <3>4, PromptGoesOn
  <2>5. QED  BY <2>3, <2>4
<1>7. CASE PostAgain
  <2> DEFINE loop == [client.loop EXCEPT !.pc = "wait", !.posts = client.loop.posts + 1]
  <2>1. /\ client.loop.pc = "sleep" /\ Loops(loop) /\ post' = [post EXCEPT ![n] = client.path]
        /\ UNCHANGED <<inbox, effects, lost, shown, presence>>
    BY <1>7 DEF PostAgain, At, Current
  <2>2. n \in Prompts /\ n \in 1..client.typed /\ client.loop \in LoopRec
    BY <2>1, Waiting
  <2>a. client.loop.posts + 1 \in Nat
    BY <2>2 DEF LoopRec
  <2>3. loop \in LoopRec /\ loop.pc = "wait" /\ loop.n = n
    BY <2>2, <2>a DEF LoopRec
  <2> HIDE DEF loop
  <2>4. effects[n] = 0 /\ shown[n] = "nothing"
    BY <1>1, <2>1 DEF LoopOK
  <2>5. PromptMoves(n, loop, client.path)
    BY <1>2, <2>1, <2>3, <2>4 DEF PromptMoves
  <2>6. QED  BY <2>2, <2>5, PromptGoesOn
<1>8. CASE NoAnswer
  <2>1. /\ client.loop.pc = "wait" /\ lost' = lost \cup {n} /\ Ends(n, "failed")
        /\ UNCHANGED <<inbox, effects, presence>>
        /\ \/ post[n] = client.path /\ post' = post
           \/ post' = [post EXCEPT ![n] = "none"]
    BY <1>8 DEF NoAnswer, At, Current
  <2>2. n \in Prompts /\ n \in 1..client.typed
    BY <2>1, Waiting
  <2>3. post'[n] \in Paths \cup {"none"}
    BY <1>1, <1>2, <2>1, <2>2 DEF HistoryOK
  <2>4. PromptStops(n, "failed")
    BY <1>l, <2>1, <2>2, <2>3 DEF PromptStops
  <2>5. QED  BY <2>2, <2>4, PromptEnds
<1>9. CASE Queued
  <2> DEFINE loop == [client.loop EXCEPT !.pc = "poll"]
  <2>1. /\ Takes("queued") /\ Loops(loop)
        /\ UNCHANGED <<inbox, effects, lost, shown, presence>>
    BY <1>9 DEF Queued
  <2>2. loop \in LoopRec /\ loop.pc = "poll" /\ loop.n = n
    BY <1>t, <2>1 DEF LoopRec
  <2> HIDE DEF loop
  <2>3. inbox[n] # "none"
    BY <1>t, <2>1 DEF PromptOK
  <2>4. PromptMoves(n, loop, "none")
    BY <1>t, <2>1, <2>2, <2>3 DEF PromptMoves, Paths
  <2>5. QED  BY <1>t, <2>1, <2>4, PromptGoesOn
<1>10. CASE Poll \/ PollFails
  <2>1. At("poll") /\ UNCHANGED <<post, inbox, effects, lost, presence>>
    BY <1>10 DEF Poll, PollFails
  <2>2. CASE inbox[n] = "answered" /\ Ends(n, "answer")
    <3>1. effects[n] = 1
      BY <1>p, <2>1, <2>2 DEF PromptOK
    <3>2. PromptStops(n, "answer")
      BY <1>p, <1>l, <2>1, <2>2, <3>1 DEF PromptStops
    <3>3. QED  BY <1>p, <2>1, <3>2, PromptEnds
  <2>3. ASSUME NEW outcome \in {"queued", "lost contact"}, Ends(n, outcome)
        PROVE  ClientInv'
    <3>1. PromptStops(n, outcome)
      BY <1>p, <1>l, <2>1, <2>3 DEF PromptStops
    <3>2. QED  BY <1>p, <2>1, <3>1, PromptEnds
  <2>4. ASSUME client.loop.polls < MaxPolls, UNCHANGED shown,
               Loops([client.loop EXCEPT !.polls = client.loop.polls + 1])
        PROVE  ClientInv'
    <3> DEFINE loop == [client.loop EXCEPT !.polls = client.loop.polls + 1]
    <3>1. client.loop.polls + 1 \in 0..MaxPolls
      BY <1>p, <2>1, <2>4, ClientAssumption
    <3>2. loop \in LoopRec /\ loop.pc = "poll" /\ loop.n = n
      BY <1>p, <2>1, <3>1 DEF LoopRec
    <3>3. Loops(loop)
      BY <2>4
    <3> HIDE DEF loop
    <3>4. post' = [post EXCEPT ![n] = post[n]]
      BY <1>1, <2>1 DEF HistoryOK
    <3>5. post[n] \in Paths => effects[n] = 0 /\ inbox[n] = "none"
      BY <1>p, <2>1, NothingYet
    <3>6. PromptMoves(n, loop, post[n])
      BY <1>p, <2>1, <2>4, <3>2, <3>3, <3>4, <3>5 DEF PromptMoves
    <3>7. QED  BY <1>p, <2>1, <3>6, PromptGoesOn
  <2>5. QED  BY <1>10, <2>2, <2>3, <2>4 DEF Poll, PollFails, Current
<1>11. QED
  BY <1>3, <1>4, <1>5, <1>6, <1>7, <1>8, <1>9, <1>10 DEF ClientSteps
\* The user's steps.
LEMMA UserMoves ==
    ASSUME ClientInv,
           SwitchPath \/ \E n \in Prompts : TypePrompt(n) \/ CheckInbox(n)
    PROVE  ClientInv'
<1>1. HistoryOK /\ LoopOK /\ client \in ClientRec
  BY DEF ClientInv
<1>2. CASE SwitchPath
  <2>1. PICK path \in Paths : client' = [client EXCEPT !.path = path]
    BY <1>2 DEF SwitchPath, Paths
  <2>2. client' \in ClientRec /\ client'.loop = client.loop /\ client'.typed = client.typed
    BY <1>1, <2>1 DEF ClientRec, Paths
  <2>3. UNCHANGED <<post, inbox, effects, lost, shown, presence>>
    BY <1>2 DEF SwitchPath
  <2>4. HistoryOK' /\ LoopOK'
    BY <1>1, <2>2, <2>3 DEF HistoryOK, LoopOK
  <2>5. ASSUME NEW m \in Prompts PROVE PromptOK(m)'
    <3>1. PromptOK(m)
      BY DEF ClientInv
    <3>2. QED  BY <2>2, <2>3, <3>1 DEF PromptOK
  <2>6. QED  BY <2>2, <2>4, <2>5 DEF ClientInv
<1>3. ASSUME NEW n \in Prompts, TypePrompt(n) PROVE ClientInv'
  <2> DEFINE loop == [Loop EXCEPT !.pc = "wait", !.n = n, !.posts = 1]
  <2>1. /\ client.loop.pc = "idle" /\ n = client.typed + 1
        /\ client' = [client EXCEPT !.typed = n, !.loop = loop]
        /\ post' = [post EXCEPT ![n] = client.path]
        /\ UNCHANGED <<inbox, effects, lost, shown, presence>>
    BY <1>3 DEF TypePrompt, At
  <2>2. Loop \in LoopRec /\ n \in 0..MaxPrompts /\ 1 \in Nat
    BY ClientAssumption DEF Loop, LoopRec, MAX_MEMBER_LOADING_RETRIES, Prompts
  <2>3. loop \in LoopRec /\ loop.pc = "wait" /\ loop.n = n
    BY <2>2 DEF LoopRec
  <2> HIDE DEF loop
  <2>4. client' \in ClientRec /\ client'.loop = loop /\ client'.typed = n
    BY <1>1, <2>1, <2>2, <2>3 DEF ClientRec
  <2>5. client.path \in Paths /\ client.typed \in Nat
    BY <1>1, ClientAssumption DEF ClientRec, Paths
  <2>6. n \notin 1..client.typed /\ n \in 1..n /\ 1..client.typed \subseteq 1..n
    BY <2>1, <2>5
  <2>7. PromptOK(n)
    BY DEF ClientInv
  <2>8. post[n] = "none" /\ inbox[n] = "none" /\ effects[n] = 0 /\ shown[n] = "nothing"
    BY <2>6, <2>7, Zenon DEF PromptOK
  <2>9. HistoryOK'
    BY <1>1, <2>1, <2>5 DEF HistoryOK
  <2>10. LoopOK'
    BY <2>1, <2>3, <2>4, <2>6, <2>8 DEF LoopOK
  <2>11. post'[n] \in Paths
    BY <1>1, <2>1, <2>5 DEF HistoryOK
  <2>12. PromptOK(n)'
    BY <2>1, <2>4, <2>6, <2>8, <2>11 DEF PromptOK, Paths
  <2>13. ASSUME NEW m \in Prompts, m # n PROVE PromptOK(m)'
    <3>1. PromptOK(m) /\ post'[m] = post[m]
      BY <1>1, <2>1, <2>13 DEF ClientInv, HistoryOK
    <3>2. post[m] \in Paths \cup {"none"}
      BY <2>1, <3>1 DEF PromptOK
    <3>3. QED  BY <2>1, <2>4, <2>6, <3>1, <3>2 DEF PromptOK
  <2>14. QED  BY <2>4, <2>9, <2>10, <2>12, <2>13 DEF ClientInv
<1>4. ASSUME NEW n \in Prompts, CheckInbox(n) PROVE ClientInv'
  <2> DEFINE loop == [Loop EXCEPT !.pc = "poll", !.n = n]
  <2>1. /\ client.loop.pc = "idle" /\ shown[n] = "queued" /\ Loops(loop)
        /\ UNCHANGED <<post, inbox, effects, lost, shown, presence>>
    BY <1>4 DEF CheckInbox, At
  <2>2. Loop \in LoopRec /\ n \in 0..MaxPrompts
    BY ClientAssumption DEF Loop, LoopRec, MAX_MEMBER_LOADING_RETRIES, Prompts
  <2>3. loop \in LoopRec /\ loop.pc = "poll" /\ loop.n = n
    BY <2>2 DEF LoopRec
  <2> HIDE DEF loop
  <2>4. client' \in ClientRec /\ client'.loop = loop /\ client'.typed = client.typed
    BY <1>1, <2>1, <2>3, LoopsTo
  <2>5. PromptOK(n)
    BY DEF ClientInv
  <2>6. inbox[n] # "none"
    BY <2>1, <2>5 DEF PromptOK
  <2>7. n \in 1..client.typed
    BY <2>6, <2>5, Zenon DEF PromptOK
  <2>8. HistoryOK' /\ LoopOK'
    BY <1>1, <2>1, <2>3, <2>4, <2>6, <2>7 DEF HistoryOK, LoopOK
  <2>9. ASSUME NEW m \in Prompts PROVE PromptOK(m)'
    <3>1. PromptOK(m)
      BY DEF ClientInv
    <3>2. post[m] \in Paths \cup {"none"}
      BY <2>1, <3>1 DEF PromptOK
    <3>3. QED  BY <2>1, <2>4, <3>1, <3>2 DEF PromptOK
  <2>10. QED  BY <2>4, <2>8, <2>9 DEF ClientInv
<1>5. QED  BY <1>2, <1>3, <1>4

LEMMA ClientStep == ClientInv /\ [ClientNext]_clientVars => ClientInv'
<1> SUFFICES ASSUME ClientInv, [ClientNext]_clientVars PROVE ClientInv'
  OBVIOUS
<1>1. ASSUME NEW p \in {"awake", "busy", "waking", "asleep"}, PresenceChanges(p)
      PROVE  ClientInv'
  BY <1>1 DEF PresenceChanges, ClientInv, HistoryOK, LoopOK, PromptOK
<1>2. CASE UNCHANGED clientVars
  BY <1>2 DEF clientVars, ClientInv, HistoryOK, LoopOK, PromptOK
<1>3. QED
  BY <1>1, <1>2, ClientMoves, UserMoves, HubMoves, DrainMoves DEF ClientNext

\* For any number of prompts and of polls: a prompt typed once is one turn or
\* one queued message, whatever is retried, lost or late.
THEOREM OnePromptOneEffect == ClientSpec => []OneEffectPerPrompt
<1>1. ASSUME ClientInv PROVE OneEffectPerPrompt
  <2>1. ASSUME NEW n \in Prompts PROVE effects[n] <= 1
    <3>1. effects[n] = 0 \/ effects[n] = 1
      BY <1>1, Zenon DEF ClientInv, PromptOK
    <3>2. QED  BY <3>1
  <2>2. QED  BY <2>1 DEF OneEffectPerPrompt
<1>2. QED  BY <1>1, ClientStart, ClientStep, PTL DEF ClientSpec

\* And what the user is told of a prompt is so.
THEOREM UserIsToldTheTruth == ClientSpec => []ReportIsTrue
<1>1. ASSUME ClientInv PROVE ReportIsTrue
  <2>1. ASSUME NEW n \in Prompts
        PROVE  /\ shown[n] = "answer" => effects[n] = 1 /\ inbox[n] # "queued"
               /\ shown[n] \in {"queued", "lost contact"} => inbox[n] # "none"
               /\ shown[n] = "failed" /\ n \notin lost => effects[n] = 0
    BY <1>1, Zenon DEF ClientInv, PromptOK
  <2>2. QED  BY <2>1 DEF ReportIsTrue
<1>2. QED  BY <1>1, ClientStart, ClientStep, PTL DEF ClientSpec
\* The POSTs of a prompt: the first, and one for each retry.
PostsOf(loop) ==
    /\ loop.posts <= 5
    /\ loop.pc = "wait" => /\ loop.posts <= loop.loading + 2
                           /\ loop.cortex = FALSE => loop.posts <= loop.loading + 1
    /\ loop.pc = "sleep" => /\ loop.posts <= loop.loading + 1
                            /\ loop.cortex = FALSE => loop.posts <= loop.loading

LEMMA PostsStep ==
    ASSUME ClientInv, PostsOf(client.loop), [ClientNext]_clientVars
    PROVE  PostsOf(client.loop)'
<1>1. client \in ClientRec /\ client.loop \in LoopRec
  BY DEF ClientInv, ClientRec
<1>2. /\ client.loop.posts \in Nat /\ client.loop.loading \in 0..3
      /\ client.loop.cortex \in BOOLEAN
  BY <1>1 DEF LoopRec, MAX_MEMBER_LOADING_RETRIES
<1>l. ASSUME NEW loop, client' = [client EXCEPT !.loop = loop] PROVE client'.loop = loop
  BY <1>1, <1>l DEF ClientRec
<1>f. PostsOf(Loop)
  BY DEF PostsOf, Loop
<1>e. ASSUME NEW n, NEW outcome, Ends(n, outcome) PROVE PostsOf(client.loop)'
  BY <1>e, <1>l, <1>f DEF Ends, Loops
<1>s. ASSUME client'.loop = client.loop PROVE PostsOf(client.loop)'
  BY <1>s DEF PostsOf
<1>3. CASE Answered \/ Refused \/ NoAnswer
  BY <1>3, <1>e DEF Answered, Refused, NoAnswer
<1>4. CASE CortexDown
  <2> DEFINE loop == [client.loop EXCEPT !.pc = "sleep", !.cortex = TRUE]
  <2>1. client.loop.pc = "wait" /\ client.loop.cortex = FALSE /\ client'.loop = loop
    BY <1>2, <1>4, <1>l DEF CortexDown, Takes, At, Loops
  <2>2. /\ loop.pc = "sleep" /\ loop.cortex = TRUE /\ loop.posts = client.loop.posts
        /\ loop.loading = client.loop.loading
    BY <1>1 DEF LoopRec
  <2> HIDE DEF loop
  <2>3. PostsOf(loop)
    BY <1>2, <2>1, <2>2 DEF PostsOf
  <2>4. QED  BY <2>1, <2>3
<1>5. CASE MemberLoading
  <2> DEFINE loop == [client.loop EXCEPT !.pc = "sleep", !.loading = client.loop.loading + 1]
  <2>1. CASE Ends(Current, "failed")
    BY <1>e, <2>1
  <2>2. CASE ~Ends(Current, "failed")
    <3>1. client.loop.pc = "wait" /\ client'.loop = loop
      BY <1>5, <1>l, <2>2 DEF MemberLoading, Takes, At, Loops
    <3>2. /\ loop.pc = "sleep" /\ loop.cortex = client.loop.cortex
          /\ loop.posts = client.loop.posts /\ loop.loading = client.loop.loading + 1
      BY <1>1 DEF LoopRec
    <3> HIDE DEF loop
    <3>3. PostsOf(loop)
      BY <1>2, <3>1, <3>2 DEF PostsOf
    <3>4. QED  BY <3>1, <3>3
  <2>3. QED  BY <2>1, <2>2
<1>6. CASE PostAgain
  <2> DEFINE loop == [client.loop EXCEPT !.pc = "wait", !.posts = client.loop.posts + 1]
  <2>1. client.loop.pc = "sleep" /\ client'.loop = loop
    BY <1>6, <1>l DEF PostAgain, At, Loops
  <2>2. /\ loop.pc = "wait" /\ loop.cortex = client.loop.cortex
        /\ loop.posts = client.loop.posts + 1 /\ loop.loading = client.loop.loading
    BY <1>1 DEF LoopRec
  <2> HIDE DEF loop
  <2>3. PostsOf(loop)
    BY <1>2, <2>1, <2>2 DEF PostsOf
  <2>4. QED  BY <2>1, <2>3
<1>7. CASE Queued
  <2> DEFINE loop == [client.loop EXCEPT !.pc = "poll"]
  <2>1. client'.loop = loop
    BY <1>7, <1>l DEF Queued, Loops
  <2>2. loop.pc = "poll" /\ loop.posts = client.loop.posts
    BY <1>1 DEF LoopRec
  <2> HIDE DEF loop
  <2>3. QED  BY <2>1, <2>2 DEF PostsOf
<1>8. CASE Poll \/ PollFails
  <2> DEFINE loop == [client.loop EXCEPT !.polls = client.loop.polls + 1]
  <2>1. client.loop.pc = "poll"
    BY <1>8 DEF Poll, PollFails, At
  <2>2. (\E outcome : Ends(Current, outcome)) \/ client'.loop = loop
    BY <1>8, <1>l DEF Poll, PollFails, Loops
  <2>3. loop.pc = client.loop.pc /\ loop.posts = client.loop.posts
    BY <1>1 DEF LoopRec
  <2> HIDE DEF loop
  <2>4. PostsOf(loop)
    BY <2>1, <2>3 DEF PostsOf
  <2>5. QED  BY <1>e, <2>2, <2>4
<1>9. ASSUME NEW n \in Prompts, TypePrompt(n) PROVE PostsOf(client.loop)'
  <2> DEFINE loop == [Loop EXCEPT !.pc = "wait", !.n = n, !.posts = 1]
  <2>1. client'.loop = loop
    BY <1>1, <1>9 DEF TypePrompt, ClientRec
  <2>2. PostsOf(loop)
    BY DEF PostsOf, Loop
  <2> HIDE DEF loop
  <2>3. QED  BY <2>1, <2>2
<1>10. ASSUME NEW n \in Prompts, CheckInbox(n) PROVE PostsOf(client.loop)'
  <2> DEFINE loop == [Loop EXCEPT !.pc = "poll", !.n = n]
  <2>1. client'.loop = loop
    BY <1>l, <1>10 DEF CheckInbox, Loops
  <2>2. PostsOf(loop)
    BY DEF PostsOf, Loop
  <2> HIDE DEF loop
  <2>3. QED  BY <2>1, <2>2
<1>11. CASE SwitchPath
  BY <1>1, <1>11, <1>s DEF SwitchPath, ClientRec
<1>12. ASSUME \/ \E n \in Prompts : HubSteps(n) \/ HubDrains(n)
              \/ \E p \in {"awake", "busy", "waking", "asleep"} : PresenceChanges(p)
              \/ UNCHANGED clientVars
       PROVE  PostsOf(client.loop)'
  <2>1. client' = client
    BY <1>12 DEF HubSteps, HubRunsTurn, HubSaysLoading, HubEnqueues, HubDrains,
                 PresenceChanges, clientVars
  <2>2. QED  BY <1>s, <2>1
<1>13. QED
  BY <1>3, <1>4, <1>5, <1>6, <1>7, <1>8, <1>9, <1>10, <1>11, <1>12 DEF ClientNext, ClientSteps

\* The types; and no more than five POSTs for a prompt, whatever the hub says.
THEOREM FivePostsAtMost == ClientSpec => []ClientTypeOK
<1>1. ASSUME ClientInit PROVE PostsOf(client.loop)
  <2>1. client.loop = Loop
    BY <1>1 DEF ClientInit
  <2>2. QED  BY <2>1 DEF PostsOf, Loop
<1>2. ASSUME ClientInv, PostsOf(client.loop) PROVE ClientTypeOK
  <2>1. client \in ClientRec /\ HistoryOK
    BY <1>2 DEF ClientInv
  <2>2. client.loop.posts \in 0..MAX_MEMBER_LOADING_RETRIES + 2
    BY <1>2, <2>1 DEF ClientRec, LoopRec, PostsOf, MAX_MEMBER_LOADING_RETRIES
  <2> DEFINE Narrow == [pc : {"idle", "wait", "sleep", "poll"}, n : 0..MaxPrompts,
                        loading : 0..MAX_MEMBER_LOADING_RETRIES, cortex : BOOLEAN,
                        posts : 0..MAX_MEMBER_LOADING_RETRIES + 2, polls : 0..MaxPolls]
  <2>3. client.loop \in Narrow
    BY <2>1, <2>2 DEF ClientRec, LoopRec
  <2>4. client \in [ui : {"cli", "web"}, path : {"member", "legacy"}, typed : 0..MaxPrompts,
                    loop : Narrow]
    BY <2>1, <2>3 DEF ClientRec
  <2>5. QED  BY <2>1, <2>4 DEF ClientTypeOK, HistoryOK, Paths
<1>3. QED
  BY <1>1, <1>2, ClientStart, ClientStep, PostsStep, PTL DEF ClientSpec

-----------------------------------------------------------------------------
\* What the user was told of a prompt stands: an answer stays the answer and a
\* failure a failure; "queued" is only followed by the answer, or by a page
\* that lost contact while it looked.
ReportsStand ==
    [][\A n \in Prompts : shown'[n] # shown[n] =>
         \/ shown[n] = "nothing"
         \/ shown[n] = "queued" /\ shown'[n] \in {"answer", "lost contact"}]_clientVars

\* A prompt that is polled for is one whose end the user was not told.
PollsOpen == client.loop.pc = "poll" => shown[client.loop.n] \in {"nothing", "queued"}

\* What a step does to the reports.
Reports ==
    \A n \in Prompts : shown'[n] # shown[n] =>
      \/ shown[n] = "nothing"
      \/ shown[n] = "queued" /\ shown'[n] \in {"answer", "lost contact"}

LEMMA ReportsStep ==
    ASSUME ClientInv, PollsOpen, [ClientNext]_clientVars
    PROVE  Reports /\ PollsOpen'
<1>1. client \in ClientRec /\ client.loop \in LoopRec /\ HistoryOK /\ LoopOK
  BY DEF ClientInv, ClientRec
<1>l. ASSUME NEW loop, Loops(loop) PROVE client'.loop = loop
  BY <1>1, <1>l DEF ClientRec, Loops
<1>2. ASSUME shown' = shown, client'.loop.pc # "poll" PROVE Reports /\ PollsOpen'
  BY <1>2 DEF Reports, PollsOpen
<1>3. ASSUME shown' = shown, client'.loop = client.loop PROVE Reports /\ PollsOpen'
  BY <1>3 DEF Reports, PollsOpen
<1>4. ASSUME NEW outcome, Ends(Current, outcome),
             \/ client.loop.pc = "wait"
             \/ client.loop.pc = "poll" /\ outcome \in {"answer", "queued", "lost contact"}
      PROVE  Reports /\ PollsOpen'
  <2>1. client'.loop.pc = "idle" /\ shown' = [shown EXCEPT ![Current] = outcome]
    BY <1>1, <1>4, LoopIsOver DEF Ends
  <2>2. /\ client.loop.pc = "wait" => shown[Current] = "nothing"
        /\ client.loop.pc = "poll" => shown[Current] \in {"nothing", "queued"}
    BY <1>1 DEF LoopOK, PollsOpen, Current
  <2>3. Reports
    BY <1>1, <1>4, <2>1, <2>2 DEF Reports, HistoryOK
  <2>4. QED  BY <2>1, <2>3 DEF PollsOpen
<1>5. CASE Answered \/ Refused \/ NoAnswer
  BY <1>4, <1>5 DEF Answered, Refused, NoAnswer, Takes, At
<1>6. CASE CortexDown
  <2>1. client'.loop = [client.loop EXCEPT !.pc = "sleep", !.cortex = TRUE] /\ shown' = shown
    BY <1>6, <1>l DEF CortexDown
  <2>2. client'.loop.pc = "sleep"
    BY <1>1, <2>1 DEF LoopRec
  <2>3. QED  BY <1>2, <2>1, <2>2
<1>7. CASE MemberLoading
  <2>1. client.loop.pc = "wait"
    BY <1>7 DEF MemberLoading, Takes, At
  <2>2. CASE Ends(Current, "failed")
    BY <1>4, <2>1, <2>2
  <2>3. CASE /\ Loops([client.loop EXCEPT !.pc = "sleep", !.loading = client.loop.loading + 1])
             /\ UNCHANGED shown
    <3>1. client'.loop.pc = "sleep"
      BY <1>1, <1>l, <2>3 DEF LoopRec
    <3>2. QED  BY <1>2, <2>3, <3>1
  <2>4. QED  BY <1>7, <2>2, <2>3 DEF MemberLoading
<1>8. CASE PostAgain
  <2>1. client'.loop = [client.loop EXCEPT !.pc = "wait", !.posts = client.loop.posts + 1]
        /\ shown' = shown
    BY <1>8, <1>l DEF PostAgain
  <2>2. client'.loop.pc = "wait"
    BY <1>1, <2>1 DEF LoopRec
  <2>3. QED  BY <1>2, <2>1, <2>2
<1>9. CASE Queued
  <2>1. /\ client'.loop = [client.loop EXCEPT !.pc = "poll"] /\ shown' = shown
        /\ client.loop.pc = "wait"
    BY <1>9, <1>l DEF Queued, Takes, At
  <2>2. client'.loop.n = client.loop.n /\ shown[client.loop.n] = "nothing"
    BY <1>1, <2>1 DEF LoopRec, LoopOK
  <2>3. QED  BY <2>1, <2>2 DEF Reports, PollsOpen
<1>10. CASE Poll \/ PollFails
  <2>1. client.loop.pc = "poll"
    BY <1>10 DEF Poll, PollFails, At
  <2>2. CASE \E outcome \in {"answer", "queued", "lost contact"} : Ends(Current, outcome)
    BY <1>4, <2>1, <2>2
  <2>3. CASE /\ Loops([client.loop EXCEPT !.polls = client.loop.polls + 1])
             /\ UNCHANGED shown
    <3>1. client'.loop.n = client.loop.n
      BY <1>1, <1>l, <2>3 DEF LoopRec
    <3>2. QED  BY <2>1, <2>3, <3>1 DEF Reports, PollsOpen
  <2>4. QED  BY <1>10, <2>2, <2>3 DEF Poll, PollFails
<1>11. ASSUME NEW n \in Prompts, TypePrompt(n) PROVE Reports /\ PollsOpen'
  <2>1. client'.loop = [Loop EXCEPT !.pc = "wait", !.n = n, !.posts = 1] /\ shown' = shown
    BY <1>1, <1>11 DEF TypePrompt, ClientRec
  <2>2. client'.loop.pc = "wait"
    BY <2>1 DEF Loop
  <2>3. QED  BY <1>2, <2>1, <2>2
<1>12. ASSUME NEW n \in Prompts, CheckInbox(n) PROVE Reports /\ PollsOpen'
  <2>1. client'.loop = [Loop EXCEPT !.pc = "poll", !.n = n] /\ shown' = shown
    BY <1>l, <1>12 DEF CheckInbox
  <2>2. client'.loop.n = n /\ shown[n] = "queued"
    BY <1>12, <2>1 DEF CheckInbox, Loop
  <2>3. QED  BY <2>1, <2>2 DEF Reports, PollsOpen
<1>13. CASE SwitchPath
  BY <1>1, <1>3, <1>13 DEF SwitchPath, ClientRec
<1>14. ASSUME \/ \E n \in Prompts : HubSteps(n) \/ HubDrains(n)
              \/ \E p \in {"awake", "busy", "waking", "asleep"} : PresenceChanges(p)
              \/ UNCHANGED clientVars
       PROVE  Reports /\ PollsOpen'
  <2>1. client' = client /\ shown' = shown
    BY <1>14 DEF HubSteps, HubRunsTurn, HubSaysLoading, HubEnqueues, HubDrains,
                 PresenceChanges, clientVars
  <2>2. QED  BY <1>3, <2>1
<1>15. QED
  BY <1>5, <1>6, <1>7, <1>8, <1>9, <1>10, <1>11, <1>12, <1>13, <1>14 DEF ClientNext, ClientSteps

\* Whatever is retried, lost or late, what the user was told is not taken back.
THEOREM NothingIsTakenBack == ClientSpec => ReportsStand
<1>1. ClientInit => PollsOpen
  BY DEF ClientInit, PollsOpen, Loop
<1>2. ClientInv /\ PollsOpen /\ [ClientNext]_clientVars => PollsOpen' /\ [Reports]_clientVars
  BY ReportsStep
<1>3. ClientSpec => [][Reports]_clientVars
  BY <1>1, <1>2, ClientStart, ClientStep, PTL DEF ClientSpec
<1>4. QED  BY <1>3 DEF ReportsStand, Reports
=============================================================================
