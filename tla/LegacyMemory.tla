---------------------------- MODULE LegacyMemory ----------------------------
(***************************************************************************)
(* The memory path from before the embedder: the hub's POST /embed and     *)
(* POST /stm/write, core/nas_client.py, and the NAS memory service         *)
(* (nodes/nas_memory: a semantic store in Chroma and an episodic log, one  *)
(* JSON line per event).  The hub stores each text and then logs that it   *)
(* did, as two calls; nothing undoes the first when the second fails.      *)
(*                                                                         *)
(* A row's id is a hash of its text, and Python salts the hash per         *)
(* process: an id is the pair of the process and the text.                 *)
(***************************************************************************)
EXTENDS Naturals, Sequences, FiniteSets

CONSTANTS Callers, Texts,
          MaxLines,     \* bound on the lines of the episodic log
          MaxBoots,     \* bound on the starts of the NAS service
          MaxStm        \* settings.max_stm_items

ASSUME LegacyAssumption == MaxLines \in Nat /\ {MaxBoots, MaxStm} \subseteq Nat \ {0}

VARIABLES rows,     \* the semantic collection
          log,      \* episodic.jsonl
          cut,      \* its last line has no newline: the disk was full
          tears,    \* history: how often that happened
          boot,     \* which process of the NAS service runs
          call,     \* the hub's POST /embed requests
          stm       \* the hub's stm_buffer

legacyVars == <<rows, log, cut, tears, boot, call, stm>>

Row == [id : (1..MaxBoots) \X Texts, text : Texts]

\* known: the writer was told that the event is stored.
Line == [memory : (1..MaxBoots) \X Texts, text : Texts, ok : BOOLEAN, known : BOOLEAN]

NoCall == [pc |-> "idle", texts |-> <<>>, ids |-> <<>>]

LegacyInit ==
    /\ rows = {} /\ log = <<>> /\ cut = FALSE /\ tears = 0 /\ boot = 1
    /\ call = [c \in Callers |-> NoCall]
    /\ stm = <<>>

Reply(c) == call' = [call EXCEPT ![c] = NoCall]

-----------------------------------------------------------------------------
\* /embed, once the embedder has answered with a vector per text.
EmbedBegin(c, texts) ==
    /\ call[c].pc = "idle"
    /\ call' = [call EXCEPT ![c] = [pc |-> "store", texts |-> texts, ids |-> <<>>]]
    /\ UNCHANGED <<rows, log, cut, tears, boot, stm>>

\* SemanticStore.add: Chroma leaves a row that has the id as it is.
AddItem(text) ==
    LET id == <<boot, text>> IN
      rows' = IF \E row \in rows : row.id = id THEN rows
                                               ELSE rows \cup {[id |-> id, text |-> text]}

\* Mutant: the text is logged first, under the id it will get.
LogFirst(c) ==
    /\ call[c].pc = "store"
    /\ Len(log) < MaxLines /\ ~cut
    /\ log' = Append(log, [memory |-> <<boot, Head(call[c].texts)>>,
                           text |-> Head(call[c].texts), ok |-> TRUE, known |-> TRUE])
    /\ call' = [call EXCEPT ![c].pc = "log", ![c].ids = Append(@, <<boot, Head(call[c].texts)>>)]
    /\ UNCHANGED <<rows, cut, tears, boot, stm>>

\* write_semantic: the id is made by the NAS, which returns it.
WriteSemantic(c) ==
    /\ call[c].pc = "store"
    /\ AddItem(Head(call[c].texts))
    /\ call' = [call EXCEPT ![c] =
                  [pc |-> "log", texts |-> @.texts,
                   ids |-> Append(@.ids, <<boot, Head(@.texts)>>)]]
    /\ UNCHANGED <<log, cut, tears, boot, stm>>

\* The post fails, before or after the NAS did its part: a 500, no undo.
WriteSemanticFails(c) ==
    /\ call[c].pc = "store"
    /\ AddItem(Head(call[c].texts)) \/ UNCHANGED rows
    /\ Reply(c)
    /\ UNCHANGED <<log, cut, tears, boot, stm>>

\* What the caller's next event would be in the log.
Event(c, known) ==
    [memory |-> call[c].ids[Len(call[c].ids)], text |-> Head(call[c].texts),
     ok |-> TRUE, known |-> known]

\* Mutant: a line is written without its newline.
AppendUnended(line) ==
    /\ cut' = FALSE
    /\ IF log # <<>> THEN log' = [log EXCEPT ![Len(log)] = [line EXCEPT !.ok = FALSE]]
                     ELSE Len(log) < MaxLines /\ log' = Append(log, line)

\* write_event appends a line, to the end of the cut one when there is one:
\* that makes a line that no longer parses.
AppendLine(line) ==
    /\ cut' = FALSE
    /\ IF cut THEN log' = [log EXCEPT ![Len(log)] = [line EXCEPT !.ok = FALSE]]
              ELSE Len(log) < MaxLines /\ log' = Append(log, line)

\* log_event for the row just written; then the next text, or the reply.
LogEvent(c) ==
    /\ call[c].pc = "log"
    /\ AppendLine(Event(c, TRUE))
    /\ IF Len(call[c].texts) > 1
       THEN call' = [call EXCEPT ![c] = [pc |-> "store", texts |-> Tail(@.texts), ids |-> @.ids]]
       ELSE Reply(c)
    /\ UNCHANGED <<rows, tears, boot, stm>>

\* The post fails: nothing was written, or all of it, or, on a full disk, the
\* front of the line.
LogEventFails(c) ==
    /\ call[c].pc = "log"
    /\ \/ UNCHANGED <<log, cut, tears>>
       \/ AppendLine(Event(c, FALSE)) /\ UNCHANGED tears
       \/ /\ ~cut /\ Len(log) < MaxLines
          /\ log' = Append(log, [Event(c, FALSE) EXCEPT !.ok = FALSE])
          /\ cut' = TRUE /\ tears' = tears + 1
    /\ Reply(c)
    /\ UNCHANGED <<rows, boot, stm>>

\* The NAS service restarts on the same files, with another salt.
NasRestart ==
    /\ boot < MaxBoots
    /\ boot' = boot + 1
    /\ UNCHANGED <<rows, log, cut, tears, call, stm>>

\* The hub restarts: its calls and its short-term memory go.
LegacyHubRestart ==
    /\ call' = [c \in Callers |-> NoCall]
    /\ stm' = <<>>
    /\ UNCHANGED <<rows, log, cut, tears, boot>>

\* /stm/write of a text that passes basic_validation and is embedded.
StmWrite(text) ==
    /\ stm' = IF Len(stm) = MaxStm THEN Append(Tail(stm), text) ELSE Append(stm, text)
    /\ UNCHANGED <<rows, log, cut, tears, boot, call>>

-----------------------------------------------------------------------------
LegacyNext ==
    \/ \E c \in Callers : \/ \E s, t \in Texts : EmbedBegin(c, <<s>>) \/ EmbedBegin(c, <<s, t>>)
                          \/ WriteSemantic(c) \/ WriteSemanticFails(c)
                          \/ LogEvent(c) \/ LogEventFails(c)
    \/ \E t \in Texts : StmWrite(t)
    \/ NasRestart \/ LegacyHubRestart

LegacySpec == LegacyInit /\ [][LegacyNext]_legacyVars

-----------------------------------------------------------------------------
LegacyTypeOK ==
    /\ rows \subseteq Row
    /\ log \in Seq(Line) /\ Len(log) <= MaxLines
    /\ cut \in BOOLEAN /\ tears \in Nat /\ boot \in 1..MaxBoots
    /\ \A c \in Callers : /\ call[c].pc \in {"idle", "store", "log"}
                          /\ call[c].texts \in Seq(Texts)
                          /\ call[c].ids \in Seq((1..MaxBoots) \X Texts)
    /\ stm \in Seq(Texts) /\ Len(stm) <= MaxStm

\* Each time the log is cut short, at most one event whose writer was told it
\* is stored becomes unreadable with it, and list_events skips that one.
OneEventPerTear ==
    Cardinality({i \in DOMAIN log : log[i].known /\ ~log[i].ok}) <= tears

\* What the episodic log says was created is in the semantic store, under
\* that id and with that text, wherever either call of the pair fails.
EventsHaveRows ==
    \A i \in DOMAIN log : log[i].ok =>
      \E row \in rows : row.id = log[i].memory /\ row.text = log[i].text
=============================================================================
