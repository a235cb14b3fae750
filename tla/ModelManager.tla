---------------------------- MODULE ModelManager ----------------------------
(***************************************************************************)
(* nodes/model_manager_4090: weights placement (tiering.py), the llama.cpp *)
(* lifecycle (manager.py) and its routes (server.py), which FastAPI runs   *)
(* in a thread pool without a lock, so a request is a sequence of steps.   *)
(* The host is the Windows machine of config.py ("D:/family_weights"): a   *)
(* file someone has open can be neither replaced nor unlinked there.       *)
(*                                                                         *)
(* The regime of a behaviour is how the manager is driven.  "serial": one  *)
(* request at a time.  "overlap": requests may run together.  "fetch": one *)
(* at a time, and scripts/fetch_weights.py also writes into the tiers.     *)
(***************************************************************************)
EXTENDS Naturals

CONSTANTS Members, Requests,
          Procs, NoProc,   \* handles of llama-server processes
          MaxFaults,       \* bound on faults in a behaviour
          Regimes,         \* the regimes explored
          DefaultPresence  \* settings.member_default_presence of the hub

\* The registry loader refuses a family without members.
ASSUME ManagerAssumption ==
    /\ Members # {}
    /\ NoProc \notin Procs
    /\ MaxFaults \in Nat
    /\ Regimes \subseteq {"serial", "overlap", "fetch"}
    /\ DefaultPresence \in {"awake", "busy", "waking", "asleep"}

VARIABLES disk,      \* the weights file of each member on each tier
          staging,   \* its .staging file on the hot tier
          procs,     \* state of each llama-server process
          loaded,    \* ModelManager.loaded
          req,       \* program counter and locals of each request
          hub,       \* the presence the hub holds
          report,    \* history: what became of the manager's last report
          faults,    \* how many faults happened
          regime

vars == <<disk, staging, procs, loaded, req, hub, report, faults, regime>>

Lower == {"warm", "cold"}

TIER_ORDER == {"hot"} \cup Lower

\* "short": fewer bytes than the published weights; "corrupt": as many, not
\* the same.
Copies == {"none", "short", "corrupt", "whole"}

\* st_size tells a corrupt copy from a whole one no better than two lengths.
SameSize(a, b) == a = b \/ {a, b} \subseteq {"corrupt", "whole"}

\* "orphan": the server of a manager that died, still holding the port.
Alive == {"starting", "serving"}

PCs == {"idle", "copy", "copying", "verify", "replace", "waking", "spawn",
        "wait", "publish", "awake", "stop", "asleep"}

Idle == [pc |-> "idle", m |-> CHOOSE m \in Members : TRUE, p |-> NoProc, from |-> "hot"]

Init ==
    /\ disk \in [TIER_ORDER -> [Members -> {"none", "whole"}]]
    /\ staging = [m \in Members |-> "none"]
    /\ procs = [p \in Procs |-> "dead"]
    /\ loaded = [m \in Members |-> NoProc]
    /\ req = [r \in Requests |-> Idle]
    /\ hub = [m \in Members |-> DefaultPresence]
    /\ report = [m \in Members |-> "never"]
    /\ faults = 0
    /\ regime \in Regimes

Goto(r, pc) == req' = [req EXCEPT ![r].pc = pc]

Return(r) == req' = [req EXCEPT ![r] = Idle]

Fault == faults < MaxFaults /\ faults' = faults + 1

MayStart(r) ==
    /\ req[r].pc = "idle"
    /\ regime # "overlap" => \A o \in Requests : req[o].pc = "idle"

\* Another request for the same weights is writing, or reading, .staging.
Elsewhere(r, pc) == \E o \in Requests \ {r} : req[o].pc = pc /\ req[o].m = req[r].m

-----------------------------------------------------------------------------
\* tiering.py: find_weights, the hottest tier that has the file.
Located(m, t) ==
    /\ disk[t][m] # "none"
    /\ t # "hot" => disk["hot"][m] = "none"
    /\ t = "cold" => disk["warm"][m] = "none"

\* load of a member who is not loaded (one who is returns at once; weights on
\* no tier are a 404).  Weights already hot are not copied.
Load(r, m, t) ==
    /\ MayStart(r)
    /\ loaded[m] = NoProc
    /\ Located(m, t)
    /\ req' = [req EXCEPT ![r] = [pc |-> IF t = "hot" THEN "waking" ELSE "copy",
                                  m |-> m, p |-> NoProc, from |-> t]]
    /\ UNCHANGED <<disk, staging, procs, loaded, hub, report, faults, regime>>

\* Mutant: the copy goes straight to its final name.
CopyInPlace(r) ==
    /\ req[r].pc = "copy"
    /\ disk' = [disk EXCEPT !["hot"][req[r].m] = "short"]
    /\ staging' = [staging EXCEPT ![req[r].m] = "short"]
    /\ Goto(r, "copying")
    /\ UNCHANGED <<procs, loaded, hub, report, faults, regime>>

\* copyfile opens .staging, which truncates it ...
OpenStaging(r) ==
    /\ req[r].pc = "copy"
    /\ staging' = [staging EXCEPT ![req[r].m] = "short"]
    /\ Goto(r, "copying")
    /\ UNCHANGED <<disk, procs, loaded, hub, report, faults, regime>>

\* ... and fills it.  A copy may come out wrong, or raise part-way.
CopyWeights(r) ==
    /\ req[r].pc = "copying"
    /\ \/ /\ staging' = [staging EXCEPT ![req[r].m] = disk[req[r].from][req[r].m]]
          /\ Goto(r, "verify")
          /\ UNCHANGED faults
       \/ /\ \E c \in {"short", "corrupt"} : staging' = [staging EXCEPT ![req[r].m] = c]
          /\ Goto(r, "verify") \/ Return(r)
          /\ Fault
    /\ UNCHANGED <<disk, procs, loaded, hub, report, regime>>

\* Both digests; two copies that are not whole may still differ.  A mismatch
\* unlinks .staging, which fails while someone else has it open; the request
\* is a 502 either way.
Verify(r) ==
    /\ req[r].pc = "verify"
    /\ \/ /\ staging[req[r].m] = disk[req[r].from][req[r].m]
          /\ Goto(r, "replace") /\ UNCHANGED staging
       \/ /\ {staging[req[r].m], disk[req[r].from][req[r].m]} # {"whole"}
          /\ Return(r)
          /\ \/ ~Elsewhere(r, "copying") /\ staging' = [staging EXCEPT ![req[r].m] = "none"]
             \/ Elsewhere(r, "copying") /\ UNCHANGED staging
    /\ UNCHANGED <<disk, procs, loaded, hub, report, faults, regime>>

\* os.replace, which fails when .staging is gone or open elsewhere, and may
\* fail when a file is hot by now, which a server may have open.
ReplaceHot(r) ==
    /\ req[r].pc = "replace"
    /\ \/ /\ staging[req[r].m] # "none" /\ ~Elsewhere(r, "copying")
          /\ disk' = [disk EXCEPT !["hot"][req[r].m] = staging[req[r].m]]
          /\ staging' = [staging EXCEPT ![req[r].m] = "none"]
          /\ Goto(r, "waking")
       \/ /\ \/ staging[req[r].m] = "none" \/ disk["hot"][req[r].m] # "none"
             \/ Elsewhere(r, "copying") \/ Elsewhere(r, "verify")
          /\ Return(r)
          /\ UNCHANGED <<disk, staging>>
    /\ UNCHANGED <<procs, loaded, hub, report, faults, regime>>

-----------------------------------------------------------------------------
\* HubPresenceClient.report: a failed post is logged, not raised.  The hub may
\* have acted on it: it drains the inbox before it answers an awake one.
Tell(m, presence) ==
    \/ /\ hub' = [hub EXCEPT ![m] = presence]
       /\ report' = [report EXCEPT ![m] = "heard"]
       /\ UNCHANGED faults
    \/ /\ hub' = hub \/ hub' = [hub EXCEPT ![m] = presence]
       /\ report' = [report EXCEPT ![m] = "lost"]
       /\ Fault

\* Mutant: the presence is called what the hub's 503 calls it.
ReportLoading(r) ==
    /\ req[r].pc = "waking"
    /\ Tell(req[r].m, "loading")
    /\ Goto(r, "spawn")
    /\ UNCHANGED <<disk, staging, procs, loaded, regime>>

ReportWaking(r) ==
    /\ req[r].pc = "waking"
    /\ Tell(req[r].m, "waking")
    /\ Goto(r, "spawn")
    /\ UNCHANGED <<disk, staging, procs, loaded, regime>>

Spawnable(p) ==
    /\ procs[p] = "dead"
    /\ \A m \in Members : loaded[m] # p
    /\ \A r \in Requests : req[r].p # p

\* Popen, which may raise; then the except branch reports asleep.
Spawn(r) ==
    /\ req[r].pc = "spawn"
    /\ \/ \E p \in Procs :
            /\ Spawnable(p)
            /\ procs' = [procs EXCEPT ![p] = "starting"]
            /\ req' = [req EXCEPT ![r].pc = "wait", ![r].p = p]
            /\ UNCHANGED faults
       \/ Fault /\ Goto(r, "asleep") /\ UNCHANGED procs
       \/ /\ \A p \in Procs : ~Spawnable(p)
          /\ Goto(r, "asleep") /\ UNCHANGED <<procs, faults>>
    /\ UNCHANGED <<disk, staging, loaded, hub, report, regime>>

\* /health of the one llama_port: whichever server holds it answers.
Healthy == \E p \in Procs : procs[p] \in {"serving", "orphan"}

\* Mutant: the process is not terminated when the wait times out.
WaitNoTerminate(r) ==
    /\ req[r].pc = "wait"
    /\ \/ procs[req[r].p] = "dead" /\ Goto(r, "asleep")
       \/ procs[req[r].p] # "dead" /\ Healthy /\ Goto(r, "publish")
       \/ procs[req[r].p] # "dead" /\ Goto(r, "asleep")
    /\ UNCHANGED <<disk, staging, procs, loaded, hub, report, faults, regime>>

\* Mutant: the wait has no deadline.
WaitForever(r) ==
    /\ req[r].pc = "wait"
    /\ \/ procs[req[r].p] = "dead" /\ Goto(r, "asleep")
       \/ procs[req[r].p] # "dead" /\ Healthy /\ Goto(r, "publish")
    /\ UNCHANGED <<disk, staging, procs, loaded, hub, report, faults, regime>>

\* _wait_healthy: dead raises, healthy returns, the deadline terminates.
WaitHealthy(r) ==
    /\ req[r].pc = "wait"
    /\ LET p == req[r].p IN
       \/ procs[p] = "dead" /\ Goto(r, "asleep") /\ UNCHANGED procs
       \/ procs[p] # "dead" /\ Healthy /\ Goto(r, "publish") /\ UNCHANGED procs
       \/ /\ procs[p] # "dead"
          /\ procs' = [procs EXCEPT ![p] = "dead"]
          /\ Goto(r, "asleep")
    /\ UNCHANGED <<disk, staging, loaded, hub, report, faults, regime>>

Publish(r) ==
    /\ req[r].pc = "publish"
    /\ loaded' = [loaded EXCEPT ![req[r].m] = req[r].p]
    /\ Goto(r, "awake")
    /\ UNCHANGED <<disk, staging, procs, hub, report, faults, regime>>

\* The last report of a load that worked.
ReportAwake(r) ==
    /\ req[r].pc = "awake"
    /\ Tell(req[r].m, "awake")
    /\ Return(r)
    /\ UNCHANGED <<disk, staging, procs, loaded, regime>>

\* Mutant: the except branch raises without a report.
RaiseSilently(r) ==
    /\ req[r].pc = "asleep"
    /\ Return(r)
    /\ UNCHANGED <<disk, staging, procs, loaded, hub, report, faults, regime>>

\* The last report of a load that failed, and of an unload.
ReportAsleep(r) ==
    /\ req[r].pc = "asleep"
    /\ Tell(req[r].m, "asleep")
    /\ Return(r)
    /\ UNCHANGED <<disk, staging, procs, loaded, regime>>

\* unload pops the entry first; a member who is not loaded is a no-op.
Unload(r, m) ==
    /\ MayStart(r)
    /\ loaded[m] # NoProc
    /\ loaded' = [loaded EXCEPT ![m] = NoProc]
    /\ req' = [req EXCEPT ![r] = [pc |-> "stop", m |-> m, p |-> loaded[m], from |-> "hot"]]
    /\ UNCHANGED <<disk, staging, procs, hub, report, faults, regime>>

\* terminate, wait, kill after the grace period, wait.
StopServer(r) ==
    /\ req[r].pc = "stop"
    /\ procs' = [procs EXCEPT ![req[r].p] = "dead"]
    /\ Goto(r, "asleep")
    /\ UNCHANGED <<disk, staging, loaded, hub, report, faults, regime>>

\* Mutant: only files that nobody pinned are spared, not the only copies.
EvictUnpinned(S) ==
    /\ S # {} /\ \A m \in S : disk["hot"][m] # "none"
    /\ disk' = [disk EXCEPT !["hot"] = [m \in Members |-> IF m \in S THEN "none" ELSE @[m]]]
    /\ UNCHANGED <<staging, procs, loaded, req, hub, report, faults, regime>>

\* evict_from_hot: of the files with a same-size copy on a lower tier, those
\* the byte count, the pins and LRU pick.
Evict(S) ==
    /\ S # {}
    /\ \A m \in S : /\ disk["hot"][m] # "none"
                    /\ \E t \in Lower : disk[t][m] # "none" /\ SameSize(disk[t][m], disk["hot"][m])
    /\ disk' = [disk EXCEPT !["hot"] = [m \in Members |-> IF m \in S THEN "none" ELSE @[m]]]
    /\ UNCHANGED <<staging, procs, loaded, req, hub, report, faults, regime>>

-----------------------------------------------------------------------------
\* External, llama-server: binds the port, or exits when it is taken.
Bind(p) ==
    /\ procs[p] = "starting"
    /\ procs' = [procs EXCEPT ![p] = IF Healthy THEN "dead" ELSE "serving"]
    /\ UNCHANGED <<disk, staging, loaded, req, hub, report, faults, regime>>

ServerDies(p) ==
    /\ procs[p] \in Alive \cup {"orphan"}
    /\ procs' = [procs EXCEPT ![p] = "dead"]
    /\ Fault
    /\ UNCHANGED <<disk, staging, loaded, req, hub, report, regime>>

\* A restart at either end: what was heard before it is history.
Restarted == report' = [m \in Members |-> IF report[m] = "heard" THEN "restarted" ELSE report[m]]

\* The manager dies: its requests and its table go, its servers stay.  The one
\* that starts afterwards tells the hub nothing.
ManagerCrash ==
    /\ Fault
    /\ req' = [r \in Requests |-> Idle]
    /\ loaded' = [m \in Members |-> NoProc]
    /\ procs' = [p \in Procs |-> IF procs[p] \in Alive THEN "orphan" ELSE procs[p]]
    /\ Restarted
    /\ UNCHANGED <<disk, staging, hub, regime>>

\* The hub restarts, and gives every member its default presence.
HubRestart ==
    /\ Fault
    /\ hub' = [m \in Members |-> DefaultPresence]
    /\ Restarted
    /\ UNCHANGED <<disk, staging, procs, loaded, req, regime>>

\* scripts/fetch_weights.py copies the download onto the file's final name.
FetchBegin(t, m) ==
    /\ regime = "fetch"
    /\ disk' = [disk EXCEPT ![t][m] = "short"]
    /\ UNCHANGED <<staging, procs, loaded, req, hub, report, faults, regime>>

FetchEnd(t, m) ==
    /\ regime = "fetch"
    /\ disk[t][m] = "short"
    /\ disk' = [disk EXCEPT ![t][m] = "whole"]
    /\ UNCHANGED <<staging, procs, loaded, req, hub, report, faults, regime>>

-----------------------------------------------------------------------------
\* What a thread of the pool does once a request has started.
Handle(r) ==
    \/ OpenStaging(r) \/ CopyWeights(r) \/ Verify(r) \/ ReplaceHot(r)
    \/ ReportWaking(r) \/ Spawn(r) \/ WaitHealthy(r) \/ Publish(r)
    \/ ReportAwake(r) \/ ReportAsleep(r) \/ StopServer(r)

Next ==
    \/ \E r \in Requests, m \in Members, t \in TIER_ORDER : Load(r, m, t)
    \/ \E r \in Requests, m \in Members : Unload(r, m)
    \/ \E r \in Requests : Handle(r)
    \/ \E S \in SUBSET Members : Evict(S)
    \/ \E p \in Procs : Bind(p) \/ ServerDies(p)
    \/ ManagerCrash \/ HubRestart
    \/ \E t \in TIER_ORDER, m \in Members : FetchBegin(t, m) \/ FetchEnd(t, m)

\* Threads run, and every call a handler makes has a timeout.
Spec == Init /\ [][Next]_vars /\ \A r \in Requests : WF_vars(Handle(r))

-----------------------------------------------------------------------------
\* Type correctness of the manager's state.
ManagerTypeOK ==
    /\ disk \in [TIER_ORDER -> [Members -> Copies]]
    /\ staging \in [Members -> Copies]
    /\ procs \in [Procs -> Alive \cup {"dead", "orphan"}]
    /\ loaded \in [Members -> Procs \cup {NoProc}]
    /\ req \in [Requests -> [pc : PCs, m : Members, p : Procs \cup {NoProc}, from : TIER_ORDER]]
    /\ hub \in [Members -> {"awake", "busy", "waking", "asleep"}]
    /\ report \in [Members -> {"never", "heard", "lost", "restarted"}]
    /\ faults \in 0..MaxFaults
    /\ regime \in Regimes

\* Safety rule 2 of tiering.py: whatever copy fails, and wherever the manager
\* dies, the file a load finds hot is a complete copy.
HotIsWhole == regime = "serial" => \A m \in Members : disk["hot"][m] \in {"none", "whole"}

\* Safety rule 1 of tiering.py: staging, eviction and crashes never lose the
\* last good copy of a member's weights, however requests overlap.
WeightsSurvive ==
    [][regime # "fetch" =>
         \A m \in Members : (\E t \in TIER_ORDER : disk[t][m] = "whole")
                             => \E t \in TIER_ORDER : disk'[t][m] = "whole"]_vars

\* A failed load, a timeout, a lost report or a dying server leaves no
\* llama-server that no entry and no request of the manager refers to: such a
\* one would hold the port and could not be unloaded.
EveryServerIsOwned ==
    regime = "serial" =>
      \A p \in Procs : procs[p] \in Alive =>
        \/ \E m \in Members : loaded[m] = p
        \/ \E r \in Requests : req[r].p = p

\* The presence of a member by the manager's own table.
Presence(m) == IF loaded[m] = NoProc THEN "asleep" ELSE "awake"

Quiet == regime = "serial" /\ \A r \in Requests : req[r].pc = "idle"

\* Whatever step of a load or an unload fails, the last report it makes is the
\* right one: once no request runs, the hub agrees with the manager's table
\* about every member whose last report it answered, unless one of the two
\* restarted since.  Until the first report the hub holds its default.
QuietHubIsRight ==
    Quiet => \A m \in Members : report[m] = "heard" => hub[m] = Presence(m)

\* Every request returns, whatever llama-server, the disk and the hub do.
RequestsEnd == \A r \in Requests : (req[r].pc # "idle") ~> (req[r].pc = "idle")

\* A member whom a load reported waking is reported awake or asleep later,
\* unless a report is lost or the manager dies first.
WakingEnds ==
    \A m \in Members, f \in 0..MaxFaults :
      (/\ hub[m] = "waking" /\ faults = f
       /\ \E r \in Requests : req[r].m = m /\ req[r].pc \in {"spawn", "wait", "publish", "awake"})
        ~> (hub[m] # "waking" \/ faults > f)

\* manager.py:17-19, "nothing in here assumes that: load/unload are
\* per-member": a member in the table whose server did not fail by itself is
\* served by it.
LoadIsPerMember ==
    faults = 0 => \A m \in Members : loaded[m] # NoProc => procs[loaded[m]] # "dead"
=============================================================================
