--------------------------- MODULE AgentRegistry ---------------------------
(***************************************************************************)
(* core/registry.py and core/main.py with the agents of agent/agent.py:    *)
(* agents publish heartbeats over MQTT, which Nexus Core's network thread  *)
(* stamps into a dict while its main thread lists the active ones and pops *)
(* the expired from the same dict, without a lock.                         *)
(*                                                                         *)
(* Time is kept as the age of each entry, in units of which the expiry is  *)
(* Expiry; an age above Expiry stays at Expiry + 1.                        *)
(***************************************************************************)
EXTENDS Naturals

CONSTANTS Agents, Expiry

ASSUME RegistryAssumption == Expiry \in Nat \ {0}

VARIABLES running,    \* the agents whose loop runs
          inflight,   \* heartbeats published and not received
          entries,    \* the agents in AgentRegistry._agents
          age,        \* the time since the last_seen of each entry
          sweep,      \* get_active_agents: the snapshot it walks
          late        \* history: entries that have been older than Expiry

registryVars == <<running, inflight, entries, age, sweep, late>>

Resting == [pc |-> "sleep", todo |-> {}, expired |-> {}, active |-> {}]

RegistryInit ==
    /\ running = Agents
    /\ inflight = {} /\ entries = {} /\ late = {}
    /\ age = [a \in Agents |-> 0]
    /\ sweep = Resting

\* One round of the agent's loop; a broker that loses it is a step not taken.
SendHeartbeat(a) ==
    /\ a \in running
    /\ inflight' = inflight \cup {a}
    /\ UNCHANGED <<running, entries, age, sweep, late>>

\* The loop ends: a shutdown, or a publish that raised.  Nothing restarts it.
AgentStops(a) ==
    /\ running' = running \ {a}
    /\ UNCHANGED <<inflight, entries, age, sweep, late>>

\* on_message.  What the agent says of its status is not looked at.
OnMessage(a) ==
    /\ a \in inflight
    /\ inflight' = inflight \ {a}
    /\ entries' = entries \cup {a}
    /\ age' = [age EXCEPT ![a] = 0]
    /\ late' = IF a \in entries THEN late ELSE late \ {a}
    /\ UNCHANGED <<running, sweep>>

\* A heartbeat that does not validate is logged, and changes nothing.
BadMessage(a) ==
    /\ a \in inflight
    /\ inflight' = inflight \ {a}
    /\ UNCHANGED <<running, entries, age, sweep, late>>

\* Mutant: an entry as old as the expiry is expired already.
SweepEarly ==
    /\ sweep.pc = "sleep"
    /\ sweep' = [pc |-> "walk", todo |-> entries, active |-> {},
                 expired |-> {a \in entries : age[a] >= Expiry}]
    /\ UNCHANGED <<running, inflight, entries, age, late>>

\* now, and the list of the items.
SweepBegin ==
    /\ sweep.pc = "sleep"
    /\ sweep' = [pc |-> "walk", todo |-> entries, active |-> {},
                 expired |-> {a \in entries : age[a] > Expiry}]
    /\ UNCHANGED <<running, inflight, entries, age, late>>

\* Mutant: an expired agent is left out of the list, not out of the registry.
SweepSkips(a) ==
    /\ sweep.pc = "walk" /\ a \in sweep.todo
    /\ sweep' = [sweep EXCEPT !.todo = @ \ {a}]
    /\ UNCHANGED <<running, inflight, entries, age, late>>

\* One round of the loop: the decision is the snapshot's, the pop is by id.
SweepOne(a) ==
    /\ sweep.pc = "walk" /\ a \in sweep.todo
    /\ \/ /\ a \in sweep.expired
          /\ entries' = entries \ {a}
          /\ sweep' = [sweep EXCEPT !.todo = @ \ {a}]
       \/ /\ a \notin sweep.expired
          /\ sweep' = [sweep EXCEPT !.todo = @ \ {a}, !.active = @ \cup {a}]
          /\ UNCHANGED entries
    /\ UNCHANGED <<running, inflight, age, late>>

\* The list is printed, and the main thread sleeps.
SweepEnd ==
    /\ sweep.pc = "walk" /\ sweep.todo = {}
    /\ sweep' = Resting
    /\ UNCHANGED <<running, inflight, entries, age, late>>

Tick ==
    /\ age' = [a \in Agents |-> IF a \in entries /\ age[a] <= Expiry THEN age[a] + 1 ELSE age[a]]
    /\ late' = late \cup {a \in entries : age[a] >= Expiry}
    /\ UNCHANGED <<running, inflight, entries, sweep>>

RegistryNext ==
    \/ \E a \in Agents : \/ SendHeartbeat(a) \/ AgentStops(a) \/ OnMessage(a)
                         \/ BadMessage(a) \/ SweepOne(a)
    \/ SweepBegin \/ SweepEnd \/ Tick

\* Time passes, the two threads of the core run, and MQTT delivers.
RegistryFairness ==
    /\ WF_registryVars(Tick)
    /\ WF_registryVars(SweepBegin) /\ WF_registryVars(SweepEnd)
    /\ \A a \in Agents : /\ WF_registryVars(SweepOne(a))
                         /\ WF_registryVars(OnMessage(a) \/ BadMessage(a))

RegistrySpec == RegistryInit /\ [][RegistryNext]_registryVars /\ RegistryFairness

-----------------------------------------------------------------------------
RegistryTypeOK ==
    /\ running \subseteq Agents /\ inflight \subseteq Agents
    /\ entries \subseteq Agents /\ late \subseteq Agents
    /\ age \in [Agents -> 0..Expiry + 1]
    /\ sweep \in [pc : {"sleep", "walk"}, todo : SUBSET Agents,
                  expired : SUBSET Agents, active : SUBSET Agents]

\* The pop by id after the snapshot may hit an entry that was stamped since,
\* but never that of an agent whose heartbeats all came within the expiry.
PunctualAgentsStay ==
    [][\A a \in Agents : a \in entries \ entries' => a \in late]_registryVars

\* An agent that stopped leaves the registry for good.
StoppedAgentsLeave ==
    \A a \in Agents : (a \notin running) ~> [](a \notin entries)
=============================================================================
