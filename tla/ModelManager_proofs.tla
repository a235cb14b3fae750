------------------------ MODULE ModelManager_proofs ------------------------
(***************************************************************************)
(* Proofs about the model manager, for any members, requests, server       *)
(* processes and number of faults: the weights a load finds are whole and  *)
(* are never lost, and no llama-server is left without an owner.           *)
(***************************************************************************)
EXTENDS ModelManager, TLAPS

Frame == [pc : PCs, m : Members, p : Procs \cup {NoProc}, from : TIER_ORDER]

Presences == {"awake", "busy", "waking", "asleep"}

Reports == {"never", "heard", "lost", "restarted"}

LEMMA IdleType == Idle \in Frame
<1>1. (CHOOSE m \in Members : TRUE) \in Members
  BY ManagerAssumption
<1>2. QED  BY <1>1 DEF Idle, Frame, PCs, TIER_ORDER, Lower

\* Every step of a request goes on, returns, or starts it.
LEMMA GotoType ==
    ASSUME req \in [Requests -> Frame], NEW r \in Requests, NEW pc \in PCs, Goto(r, pc)
    PROVE  req' \in [Requests -> Frame]
  BY DEF Goto, Frame

LEMMA ReturnType ==
    ASSUME req \in [Requests -> Frame], NEW r \in Requests, Return(r)
    PROVE  req' \in [Requests -> Frame]
  BY IdleType DEF Return

LEMMA TellType ==
    ASSUME ManagerTypeOK, NEW m \in Members, NEW s \in Presences, Tell(m, s)
    PROVE  /\ hub' \in [Members -> Presences] /\ report' \in [Members -> Reports]
           /\ faults' \in 0..MaxFaults
<1>1. hub \in [Members -> Presences] /\ report \in [Members -> Reports] /\ faults \in 0..MaxFaults
  BY DEF ManagerTypeOK, Presences, Reports
<1>2. hub' \in [Members -> Presences]
  BY <1>1 DEF Tell
<1>3. report' \in [Members -> Reports]
  BY <1>1 DEF Tell, Reports
<1>4. faults' \in 0..MaxFaults
  BY <1>1, ManagerAssumption DEF Tell, Fault
<1>5. QED  BY <1>2, <1>3, <1>4

LEMMA FaultType == ASSUME ManagerTypeOK, Fault PROVE faults' \in 0..MaxFaults
  BY ManagerAssumption DEF Fault, ManagerTypeOK

\* One cell of the table of copies changes.
LEMMA SetCopy ==
    ASSUME NEW d \in [TIER_ORDER -> [Members -> Copies]],
           NEW t \in TIER_ORDER, NEW m \in Members, NEW v \in Copies
    PROVE  /\ [d EXCEPT ![t][m] = v] \in [TIER_ORDER -> [Members -> Copies]]
           /\ [d EXCEPT ![t][m] = v][t][m] = v
           /\ \A u \in TIER_ORDER, n \in Members :
                u # t \/ n # m => [d EXCEPT ![t][m] = v][u][n] = d[u][n]
<1> DEFINE row == [d[t] EXCEPT ![m] = v]
<1>1. row \in [Members -> Copies] /\ row[m] = v /\ \A n \in Members : n # m => row[n] = d[t][n]
  OBVIOUS
<1>2. [d EXCEPT ![t][m] = v] = [d EXCEPT ![t] = row]
  OBVIOUS
<1> HIDE DEF row
<1>3. QED  BY <1>1, <1>2

\* One file of the hot tier changes.
LEMMA SetHot ==
    ASSUME ManagerTypeOK, NEW m \in Members, NEW v \in Copies,
           disk' = [disk EXCEPT !["hot"][m] = v]
    PROVE  /\ disk' \in [TIER_ORDER -> [Members -> Copies]]
           /\ disk'["hot"][m] = v
           /\ \A u \in TIER_ORDER, n \in Members :
                u # "hot" \/ n # m => disk'[u][n] = disk[u][n]
<1>1. "hot" \in TIER_ORDER /\ disk \in [TIER_ORDER -> [Members -> Copies]]
  BY DEF TIER_ORDER, ManagerTypeOK
<1>2. QED  BY <1>1, SetCopy

\* The files of the members in S leave the hot tier.
LEMMA DropHot ==
    ASSUME ManagerTypeOK, NEW S \in SUBSET Members, Evict(S)
    PROVE  /\ disk' \in [TIER_ORDER -> [Members -> Copies]]
           /\ \A n \in Members : disk'["hot"][n] = IF n \in S THEN "none" ELSE disk["hot"][n]
           /\ \A u \in TIER_ORDER : u # "hot" => disk'[u] = disk[u]
<1> DEFINE row == [m \in Members |-> IF m \in S THEN "none" ELSE disk["hot"][m]]
<1>1. "hot" \in TIER_ORDER /\ disk \in [TIER_ORDER -> [Members -> Copies]]
  BY DEF TIER_ORDER, ManagerTypeOK
<1>2. row \in [Members -> Copies]
  BY <1>1 DEF Copies
<1>3. disk' = [disk EXCEPT !["hot"] = row]
  BY DEF Evict
<1>4. \A n \in Members : row[n] = IF n \in S THEN "none" ELSE disk["hot"][n]
  OBVIOUS
<1> HIDE DEF row
<1>5. QED  BY <1>1, <1>2, <1>3, <1>4

LEMMA InitType == Init => ManagerTypeOK
<1> SUFFICES ASSUME Init PROVE ManagerTypeOK
  OBVIOUS
<1>1. req \in [Requests -> Frame]
  BY IdleType DEF Init
<1>2. disk \in [TIER_ORDER -> [Members -> Copies]]
  BY DEF Init, Copies
<1>3. report \in [Members -> Reports]
  BY DEF Init, Reports
<1>4. QED  BY <1>1, <1>2, <1>3, ManagerAssumption DEF Init, ManagerTypeOK, Frame, Copies, Reports

LEMMA TypeStep == ASSUME ManagerTypeOK, Next PROVE ManagerTypeOK'
<1> USE ManagerAssumption
<1>0. req \in [Requests -> Frame] /\ \A r \in Requests : req[r] \in Frame
  BY DEF ManagerTypeOK, Frame
<1>1. ASSUME NEW r \in Requests, NEW m \in Members, NEW t \in TIER_ORDER, Load(r, m, t)
      PROVE  ManagerTypeOK'
  <2> DEFINE f == [pc |-> IF t = "hot" THEN "waking" ELSE "copy", m |-> m, p |-> NoProc, from |-> t]
  <2>1. f \in Frame
    BY DEF Frame, PCs
  <2>2. req' \in [Requests -> Frame]
    BY <1>0, <1>1, <2>1 DEF Load
  <2>3. QED  BY <1>1, <2>2 DEF Load, ManagerTypeOK, Frame
<1>2. ASSUME NEW r \in Requests, NEW m \in Members, Unload(r, m) PROVE ManagerTypeOK'
  <2> DEFINE f == [pc |-> "stop", m |-> m, p |-> loaded[m], from |-> "hot"]
  <2>1. f \in Frame
    BY DEF Frame, PCs, ManagerTypeOK, TIER_ORDER
  <2>2. req' \in [Requests -> Frame]
    BY <1>0, <1>2, <2>1 DEF Unload
  <2>3. loaded' \in [Members -> Procs \cup {NoProc}]
    BY <1>2 DEF Unload, ManagerTypeOK
  <2>4. QED  BY <1>2, <2>2, <2>3 DEF Unload, ManagerTypeOK, Frame
<1>3. ASSUME NEW r \in Requests, OpenStaging(r) PROVE ManagerTypeOK'
  <2>1. req' \in [Requests -> Frame]
    BY <1>0, <1>3, GotoType DEF OpenStaging, PCs
  <2>2. staging' \in [Members -> Copies]
    BY <1>3 DEF OpenStaging, ManagerTypeOK, Copies
  <2>3. QED  BY <1>3, <2>1, <2>2 DEF OpenStaging, ManagerTypeOK, Frame
<1>4. ASSUME NEW r \in Requests, CopyWeights(r) PROVE ManagerTypeOK'
  <2>1. req' \in [Requests -> Frame]
    BY <1>0, <1>4, GotoType, ReturnType DEF CopyWeights, PCs
  <2>2. staging' \in [Members -> Copies]
    <3>1. disk[req[r].from][req[r].m] \in Copies
      BY <1>0 DEF ManagerTypeOK, Frame
    <3>2. QED  BY <1>4, <3>1 DEF CopyWeights, ManagerTypeOK, Copies
  <2>3. faults' \in 0..MaxFaults
    BY <1>4, FaultType DEF CopyWeights, ManagerTypeOK
  <2>4. QED  BY <1>4, <2>1, <2>2, <2>3 DEF CopyWeights, ManagerTypeOK, Frame
<1>5. ASSUME NEW r \in Requests, Verify(r) PROVE ManagerTypeOK'
  <2>1. req' \in [Requests -> Frame]
    BY <1>0, <1>5, GotoType, ReturnType DEF Verify, PCs
  <2>2. staging' \in [Members -> Copies]
    BY <1>5 DEF Verify, ManagerTypeOK, Copies
  <2>3. QED  BY <1>5, <2>1, <2>2 DEF Verify, ManagerTypeOK, Frame
<1>6. ASSUME NEW r \in Requests, ReplaceHot(r) PROVE ManagerTypeOK'
  <2>1. req' \in [Requests -> Frame]
    BY <1>0, <1>6, GotoType, ReturnType DEF ReplaceHot, PCs
  <2>2. staging' \in [Members -> Copies]
    BY <1>6 DEF ReplaceHot, ManagerTypeOK, Copies
  <2>3. disk' \in [TIER_ORDER -> [Members -> Copies]]
    <3>1. req[r].m \in Members /\ staging[req[r].m] \in Copies
      BY <1>0 DEF Frame, ManagerTypeOK
    <3>2. QED  BY <1>6, <3>1, SetHot DEF ReplaceHot, ManagerTypeOK
  <2>4. QED  BY <1>6, <2>1, <2>2, <2>3 DEF ReplaceHot, ManagerTypeOK, Frame
<1>7. ASSUME NEW r \in Requests, ReportWaking(r) PROVE ManagerTypeOK'
  <2>1. req' \in [Requests -> Frame]
    BY <1>0, <1>7, GotoType DEF ReportWaking, PCs
  <2>2. /\ hub' \in [Members -> Presences] /\ report' \in [Members -> Reports]
        /\ faults' \in 0..MaxFaults
    BY <1>0, <1>7, TellType DEF ReportWaking, Frame, Presences
  <2>3. QED  BY <1>7, <2>1, <2>2 DEF ReportWaking, ManagerTypeOK, Frame, Presences, Reports
<1>8. ASSUME NEW r \in Requests, Spawn(r) PROVE ManagerTypeOK'
  <2>1. ASSUME NEW p \in Procs, procs' = [procs EXCEPT ![p] = "starting"],
               req' = [req EXCEPT ![r].pc = "wait", ![r].p = p], UNCHANGED faults
        PROVE  ManagerTypeOK'
    <3>1. req' \in [Requests -> Frame]
      BY <1>0, <2>1 DEF Frame, PCs
    <3>2. procs' \in [Procs -> Alive \cup {"dead", "orphan"}]
      BY <2>1 DEF ManagerTypeOK, Alive
    <3>3. QED  BY <1>8, <2>1, <3>1, <3>2 DEF Spawn, ManagerTypeOK, Frame
  <2>2. CASE Goto(r, "asleep") /\ UNCHANGED procs /\ (Fault \/ UNCHANGED faults)
    <3>1. req' \in [Requests -> Frame]
      BY <1>0, <2>2, GotoType DEF PCs
    <3>2. faults' \in 0..MaxFaults
      BY <2>2, FaultType DEF ManagerTypeOK
    <3>3. QED  BY <1>8, <2>2, <3>1, <3>2 DEF Spawn, ManagerTypeOK, Frame
  <2>3. QED  BY <1>8, <2>1, <2>2 DEF Spawn
<1>9. ASSUME NEW r \in Requests, WaitHealthy(r) PROVE ManagerTypeOK'
  <2>1. req' \in [Requests -> Frame]
    BY <1>0, <1>9, GotoType DEF WaitHealthy, PCs
  <2>2. procs' \in [Procs -> Alive \cup {"dead", "orphan"}]
    BY <1>9 DEF WaitHealthy, ManagerTypeOK
  <2>3. QED  BY <1>9, <2>1, <2>2 DEF WaitHealthy, ManagerTypeOK, Frame
<1>10. ASSUME NEW r \in Requests, Publish(r) PROVE ManagerTypeOK'
  <2>1. req' \in [Requests -> Frame]
    BY <1>0, <1>10, GotoType DEF Publish, PCs
  <2>2. loaded' \in [Members -> Procs \cup {NoProc}]
    BY <1>0, <1>10 DEF Publish, ManagerTypeOK, Frame
  <2>3. QED  BY <1>10, <2>1, <2>2 DEF Publish, ManagerTypeOK, Frame
<1>11. ASSUME NEW r \in Requests, ReportAwake(r) \/ ReportAsleep(r) PROVE ManagerTypeOK'
  <2>1. req' \in [Requests -> Frame]
    BY <1>0, <1>11, ReturnType DEF ReportAwake, ReportAsleep
  <2>2. /\ hub' \in [Members -> Presences] /\ report' \in [Members -> Reports]
        /\ faults' \in 0..MaxFaults
    BY <1>0, <1>11, TellType DEF ReportAwake, ReportAsleep, Frame, Presences
  <2>3. QED  BY <1>11, <2>1, <2>2 DEF ReportAwake, ReportAsleep, ManagerTypeOK, Frame, Presences, Reports
<1>12. ASSUME NEW r \in Requests, StopServer(r) PROVE ManagerTypeOK'
  <2>1. req' \in [Requests -> Frame]
    BY <1>0, <1>12, GotoType DEF StopServer, PCs
  <2>2. procs' \in [Procs -> Alive \cup {"dead", "orphan"}]
    BY <1>12 DEF StopServer, ManagerTypeOK
  <2>3. QED  BY <1>12, <2>1, <2>2 DEF StopServer, ManagerTypeOK, Frame
<1>13. ASSUME NEW S \in SUBSET Members, Evict(S) PROVE ManagerTypeOK'
  <2>1. disk' \in [TIER_ORDER -> [Members -> Copies]]
    BY <1>13, DropHot
  <2>2. QED  BY <1>13, <2>1 DEF Evict, ManagerTypeOK
<1>14. ASSUME NEW p \in Procs, Bind(p) \/ ServerDies(p) PROVE ManagerTypeOK'
  <2>1. procs' \in [Procs -> Alive \cup {"dead", "orphan"}]
    BY <1>14 DEF Bind, ServerDies, ManagerTypeOK, Alive
  <2>2. faults' \in 0..MaxFaults
    BY <1>14, FaultType DEF Bind, ServerDies, ManagerTypeOK
  <2>3. QED  BY <1>14, <2>1, <2>2 DEF Bind, ServerDies, ManagerTypeOK
<1>15. CASE ManagerCrash
  <2>1. req' \in [Requests -> Frame]
    BY <1>15, IdleType DEF ManagerCrash
  <2>2. procs' \in [Procs -> Alive \cup {"dead", "orphan"}]
    BY <1>15 DEF ManagerCrash, ManagerTypeOK
  <2>3. faults' \in 0..MaxFaults
    BY <1>15, FaultType DEF ManagerCrash
  <2>4. report' \in [Members -> Reports]
    BY <1>15 DEF ManagerCrash, Restarted, ManagerTypeOK, Reports
  <2>5. QED  BY <1>15, <2>1, <2>2, <2>3, <2>4 DEF ManagerCrash, ManagerTypeOK, Frame, Reports
<1>16. ASSUME NEW t \in TIER_ORDER, NEW m \in Members, FetchBegin(t, m) \/ FetchEnd(t, m)
       PROVE  ManagerTypeOK'
  <2>1. disk \in [TIER_ORDER -> [Members -> Copies]] /\ {"short", "whole"} \subseteq Copies
    BY DEF ManagerTypeOK, Copies
  <2>2. disk' \in [TIER_ORDER -> [Members -> Copies]]
    <3>1. PICK v \in Copies : disk' = [disk EXCEPT ![t][m] = v]
      BY <1>16, <2>1 DEF FetchBegin, FetchEnd
    <3> HIDE <1>16
    <3>2. [disk EXCEPT ![t][m] = v] \in [TIER_ORDER -> [Members -> Copies]]
      BY <2>1, SetCopy
    <3>3. QED  BY <3>1, <3>2
  <2>3. QED  BY <1>16, <2>2 DEF FetchBegin, FetchEnd, ManagerTypeOK
<1>17. CASE HubRestart
  <2>1. faults' \in 0..MaxFaults
    BY <1>17, FaultType DEF HubRestart
  <2>2. report' \in [Members -> Reports] /\ hub' \in [Members -> Presences]
    BY <1>17 DEF HubRestart, Restarted, ManagerTypeOK, Reports, Presences
  <2>3. QED  BY <1>17, <2>1, <2>2 DEF HubRestart, ManagerTypeOK, Frame, Reports, Presences
<1>18. QED
  BY <1>1, <1>2, <1>3, <1>4, <1>5, <1>6, <1>7, <1>8, <1>9, <1>10, <1>11, <1>12, <1>13, <1>14,
     <1>15, <1>16, <1>17 DEF Next, Handle

\* The manager's tables, and the locals of its requests, have their types.
THEOREM ManagerTyped == Spec => []ManagerTypeOK
<1>1. ManagerTypeOK /\ UNCHANGED vars => ManagerTypeOK'
  BY DEF ManagerTypeOK, vars
<1>2. QED  BY <1>1, InitType, TypeStep, PTL DEF Spec

-----------------------------------------------------------------------------
Active(r) == req[r].pc # "idle"

\* Unless requests may overlap, at most one runs.
OneAtATime == regime # "overlap" => \A r, o \in Requests : Active(r) /\ Active(o) => r = o

\* A step of a request leaves the others alone.
LEMMA HandleFrame ==
    ASSUME ManagerTypeOK, NEW r \in Requests, Handle(r)
    PROVE  /\ Active(r)
           /\ regime' = regime
           /\ \A o \in Requests : o # r => req'[o] = req[o]
<1>1. req \in [Requests -> Frame]
  BY DEF ManagerTypeOK, Frame
<1>2. \A pc \in PCs : Goto(r, pc) => \A o \in Requests : o # r => req'[o] = req[o]
  BY <1>1 DEF Goto
<1>3. Return(r) => \A o \in Requests : o # r => req'[o] = req[o]
  BY <1>1 DEF Return
<1>4. Spawn(r) => \A o \in Requests : o # r => req'[o] = req[o]
  BY <1>1, <1>2 DEF Spawn, PCs
<1>5. \A o \in Requests : o # r => req'[o] = req[o]
  BY <1>2, <1>3, <1>4 DEF Handle, OpenStaging, CopyWeights, Verify, ReplaceHot, ReportWaking,
     WaitHealthy, Publish, ReportAwake, ReportAsleep, StopServer, PCs
<1>6. QED  BY <1>5 DEF Active, Handle, OpenStaging, CopyWeights, Verify, ReplaceHot, ReportWaking,
     Spawn, WaitHealthy, Publish, ReportAwake, ReportAsleep, StopServer

\* So does a request that starts.
LEMMA StartFrame ==
    ASSUME ManagerTypeOK, NEW r \in Requests, NEW m \in Members,
           Unload(r, m) \/ \E t \in TIER_ORDER : Load(r, m, t)
    PROVE  /\ MayStart(r)
           /\ regime' = regime
           /\ \A o \in Requests : o # r => req'[o] = req[o]
<1>1. req \in [Requests -> Frame]
  BY DEF ManagerTypeOK, Frame
<1>2. QED  BY <1>1 DEF Unload, Load

\* Everything else leaves the requests alone, or, in a crash, ends them all.
LEMMA NextCases ==
    ASSUME Next
    PROVE  \/ \E r \in Requests, m \in Members : Unload(r, m) \/ \E t \in TIER_ORDER : Load(r, m, t)
           \/ \E r \in Requests : Handle(r)
           \/ req' = req /\ regime' = regime
           \/ ManagerCrash
<1>1. \A S \in SUBSET Members : Evict(S) => req' = req /\ regime' = regime
  BY DEF Evict
<1>2. \A p \in Procs : Bind(p) \/ ServerDies(p) => req' = req /\ regime' = regime
  BY DEF Bind, ServerDies
<1>3. \A t \in TIER_ORDER, m \in Members : FetchBegin(t, m) \/ FetchEnd(t, m) => req' = req /\ regime' = regime
  BY DEF FetchBegin, FetchEnd
<1>4. HubRestart => req' = req /\ regime' = regime
  BY DEF HubRestart
<1>5. QED  BY <1>1, <1>2, <1>3, <1>4 DEF Next

LEMMA OneStep == ASSUME ManagerTypeOK, OneAtATime, Next PROVE OneAtATime'
<1>1. ASSUME NEW r \in Requests, NEW m \in Members,
             Unload(r, m) \/ \E t \in TIER_ORDER : Load(r, m, t)
      PROVE  OneAtATime'
  BY <1>1, StartFrame DEF MayStart, OneAtATime, Active
<1>2. ASSUME NEW r \in Requests, Handle(r) PROVE OneAtATime'
  BY <1>2, HandleFrame DEF OneAtATime, Active
<1>3. CASE req' = req /\ regime' = regime
  BY <1>3 DEF OneAtATime, Active
<1>4. CASE ManagerCrash
  BY <1>4 DEF ManagerCrash, Idle, OneAtATime, Active
<1>5. QED  BY <1>1, <1>2, <1>3, <1>4, NextCases

-----------------------------------------------------------------------------
Copying(r) == req[r].pc \in {"copy", "copying", "verify", "replace"}

\* The manager writes to the hot tier only, and a request copies a file from
\* a lower tier that is complete there.
SourcesAreWhole ==
    regime # "fetch" =>
      /\ \A t \in Lower, m \in Members : disk[t][m] \in {"none", "whole"}
      /\ \A r \in Requests : Copying(r) => /\ req[r].from \in Lower
                                           /\ disk[req[r].from][req[r].m] = "whole"

LEMMA LowerStays ==
    ASSUME ManagerTypeOK, Next, regime # "fetch"
    PROVE  regime' = regime /\ \A t \in Lower, m \in Members : disk'[t][m] = disk[t][m]
<1>0. Lower \subseteq TIER_ORDER /\ "hot" \notin Lower
  BY DEF Lower, TIER_ORDER
<1>1. ASSUME NEW r \in Requests, ReplaceHot(r)
      PROVE  \A t \in Lower, m \in Members : disk'[t][m] = disk[t][m]
  <2>1. req[r].m \in Members /\ staging[req[r].m] \in Copies
    BY DEF ManagerTypeOK
  <2>2. CASE UNCHANGED disk
    BY <2>2
  <2>3. CASE disk' = [disk EXCEPT !["hot"][req[r].m] = staging[req[r].m]]
    BY <1>0, <2>1, <2>3, SetHot
  <2>4. QED  BY <1>1, <2>2, <2>3 DEF ReplaceHot
<1>2. ASSUME NEW r \in Requests, Handle(r), ~ReplaceHot(r) PROVE disk' = disk
  BY <1>2 DEF Handle, OpenStaging, CopyWeights, Verify, ReportWaking, Spawn, WaitHealthy, Publish,
     ReportAwake, ReportAsleep, StopServer
<1>3. ASSUME NEW r \in Requests, Handle(r) PROVE regime' = regime
  BY <1>3, HandleFrame
<1>4. ASSUME NEW S \in SUBSET Members, Evict(S)
      PROVE  regime' = regime /\ \A t \in Lower, m \in Members : disk'[t][m] = disk[t][m]
  BY <1>0, <1>4, DropHot DEF Evict
<1>5. \A t \in TIER_ORDER, m \in Members : ~FetchBegin(t, m) /\ ~FetchEnd(t, m)
  BY DEF FetchBegin, FetchEnd
<1>6. \A r \in Requests, m \in Members :
         Unload(r, m) \/ (\E t \in TIER_ORDER : Load(r, m, t)) => regime' = regime /\ disk' = disk
  BY DEF Unload, Load
<1>7. \A p \in Procs : Bind(p) \/ ServerDies(p) => regime' = regime /\ disk' = disk
  BY DEF Bind, ServerDies
<1>8. ManagerCrash \/ HubRestart => regime' = regime /\ disk' = disk
  BY DEF ManagerCrash, HubRestart
<1>9. QED  BY <1>1, <1>2, <1>3, <1>4, <1>5, <1>6, <1>7, <1>8 DEF Next

\* A request that copies after a step of its own did so before, with the
\* same file.
LEMMA CopyingGoesOn ==
    ASSUME ManagerTypeOK, NEW r \in Requests, Handle(r), Copying(r)'
    PROVE  Copying(r) /\ req'[r].m = req[r].m /\ req'[r].from = req[r].from
<1>0. req \in [Requests -> Frame]
  BY DEF ManagerTypeOK, Frame
<1>1. \A pc \in PCs : Goto(r, pc) => /\ req'[r].pc = pc
                                     /\ req'[r].m = req[r].m /\ req'[r].from = req[r].from
  BY <1>0 DEF Goto, Frame
<1>2. ~Return(r)
  BY <1>0 DEF Return, Idle, Copying
<1>3. OpenStaging(r) \/ CopyWeights(r) \/ Verify(r)
  <2>1. ~ReplaceHot(r)
    BY <1>1, <1>2 DEF ReplaceHot, Copying, PCs
  <2>2. ~ReportWaking(r) /\ ~WaitHealthy(r) /\ ~Publish(r) /\ ~StopServer(r)
    BY <1>1 DEF ReportWaking, WaitHealthy, Publish, StopServer, Copying, PCs
  <2>3. ~ReportAwake(r) /\ ~ReportAsleep(r)
    BY <1>2 DEF ReportAwake, ReportAsleep
  <2>4. ~Spawn(r)
    <3>1. \A p \in Procs : req' = [req EXCEPT ![r].pc = "wait", ![r].p = p] => req'[r].pc = "wait"
      BY <1>0 DEF Frame
    <3>2. QED  BY <1>1, <3>1 DEF Spawn, Copying, PCs
  <2>5. QED  BY <2>1, <2>2, <2>3, <2>4 DEF Handle
<1>4. QED  BY <1>1, <1>2, <1>3 DEF OpenStaging, CopyWeights, Verify, Copying, PCs

LEMMA SourcesStep == ASSUME ManagerTypeOK, SourcesAreWhole, Next PROVE SourcesAreWhole'
<1> SUFFICES ASSUME regime' # "fetch" PROVE SourcesAreWhole'
  BY DEF SourcesAreWhole
<1>0. regime # "fetch"
  BY NextCases, HandleFrame, StartFrame DEF ManagerCrash
<1>1. \A t \in Lower, m \in Members : disk'[t][m] = disk[t][m] /\ disk'[t][m] \in {"none", "whole"}
  BY <1>0, LowerStays DEF SourcesAreWhole
<1>2. ASSUME NEW o \in Requests, Copying(o)'
      PROVE  req'[o].from \in Lower /\ disk'[req'[o].from][req'[o].m] = "whole"
  <2>0. req[o].m \in Members
    BY DEF ManagerTypeOK
  <2>1. CASE req'[o] = req[o]
    BY <1>0, <1>1, <1>2, <2>0, <2>1 DEF SourcesAreWhole, Copying
  <2>2. CASE Handle(o)
    BY <1>0, <1>1, <1>2, <2>0, <2>2, CopyingGoesOn DEF SourcesAreWhole
  <2>3. ASSUME NEW m \in Members, NEW t \in TIER_ORDER, Load(o, m, t)
        PROVE  req'[o].from \in Lower /\ disk'[req'[o].from][req'[o].m] = "whole"
    <3>1. req'[o] = [pc |-> IF t = "hot" THEN "waking" ELSE "copy", m |-> m, p |-> NoProc, from |-> t]
      BY <2>3 DEF Load, ManagerTypeOK
    <3>2. t \in Lower
      BY <1>2, <3>1 DEF Copying, TIER_ORDER
    <3>3. disk[t][m] = "whole"
      BY <1>0, <2>3, <3>2 DEF Load, Located, SourcesAreWhole
    <3>4. QED  BY <1>1, <3>1, <3>2, <3>3
  <2>4. ~\E m \in Members : Unload(o, m)
    BY <1>2 DEF Unload, Copying, ManagerTypeOK
  <2>5. ~ManagerCrash
    BY <1>2 DEF ManagerCrash, Copying, Idle
  <2>6. QED  BY <2>1, <2>2, <2>3, <2>4, <2>5, NextCases, HandleFrame, StartFrame
<1>3. QED  BY <1>1, <1>2 DEF SourcesAreWhole

\* A step that loses the good copies of a member would have to take the hot
\* one, which it only does while a lower tier has another.
LEMMA WeightsStep ==
    ASSUME ManagerTypeOK, SourcesAreWhole, Next, regime # "fetch",
           NEW m \in Members, NEW t \in TIER_ORDER, disk[t][m] = "whole"
    PROVE  \E u \in TIER_ORDER : disk'[u][m] = "whole"
<1>0. Lower \subseteq TIER_ORDER /\ "hot" \in TIER_ORDER /\ (t \in Lower \/ t = "hot")
  BY DEF Lower, TIER_ORDER
<1>1. CASE \E u \in Lower : disk[u][m] = "whole"
  BY <1>0, <1>1, LowerStays
<1>2. CASE t = "hot" /\ \A u \in Lower : disk[u][m] # "whole"
  <2>1. ASSUME NEW r \in Requests, ReplaceHot(r) PROVE disk'["hot"][m] = "whole"
    <3>1. req[r].m # m
      BY <1>2, <2>1 DEF ReplaceHot, SourcesAreWhole, Copying
    <3>2. req[r].m \in Members /\ staging[req[r].m] \in Copies
      BY DEF ManagerTypeOK
    <3>3. CASE UNCHANGED disk
      BY <1>2, <3>3
    <3>4. CASE disk' = [disk EXCEPT !["hot"][req[r].m] = staging[req[r].m]]
      BY <1>0, <1>2, <3>1, <3>2, <3>4, SetHot
    <3>5. QED  BY <2>1, <3>3, <3>4 DEF ReplaceHot
  <2>2. ASSUME NEW S \in SUBSET Members, Evict(S) PROVE disk'["hot"][m] = "whole"
    <3>1. m \notin S
      BY <1>2, <2>2 DEF Evict, SameSize, SourcesAreWhole
    <3>2. QED  BY <1>0, <1>2, <2>2, <3>1, DropHot
  <2>3. \A r \in Requests : Handle(r) /\ ~ReplaceHot(r) => disk' = disk
    BY DEF Handle, OpenStaging, CopyWeights, Verify, ReportWaking, Spawn, WaitHealthy, Publish,
       ReportAwake, ReportAsleep, StopServer
  <2>4. \A u \in TIER_ORDER, n \in Members : ~FetchBegin(u, n) /\ ~FetchEnd(u, n)
    BY DEF FetchBegin, FetchEnd
  <2>5. \A r \in Requests, n \in Members :
           Unload(r, n) \/ (\E u \in TIER_ORDER : Load(r, n, u)) => disk' = disk
    BY DEF Unload, Load
  <2>6. /\ ManagerCrash \/ HubRestart => disk' = disk
        /\ \A p \in Procs : Bind(p) \/ ServerDies(p) => disk' = disk
    BY DEF ManagerCrash, HubRestart, Bind, ServerDies
  <2>7. QED  BY <1>0, <1>2, <2>1, <2>2, <2>3, <2>4, <2>5, <2>6 DEF Next
<1>3. QED  BY <1>0, <1>1, <1>2

LEMMA InitSources == Init => OneAtATime /\ SourcesAreWhole
<1> SUFFICES ASSUME Init PROVE OneAtATime /\ SourcesAreWhole
  OBVIOUS
<1>1. \A r \in Requests : req[r].pc = "idle"
  BY DEF Init, Idle
<1>2. \A t \in Lower, m \in Members : disk[t][m] \in {"none", "whole"}
  BY DEF Init, TIER_ORDER
<1>3. QED  BY <1>1, <1>2 DEF OneAtATime, Active, SourcesAreWhole, Copying

\* For any members, requests and faults: however requests overlap, copies fail
\* and the manager dies, no step of the manager, and no eviction, takes the
\* last good copy of a member's weights.
THEOREM LastCopyStays == Spec => WeightsSurvive
<1> DEFINE Kept == regime # "fetch" =>
         \A m \in Members : (\E t \in TIER_ORDER : disk[t][m] = "whole")
                             => \E t \in TIER_ORDER : disk'[t][m] = "whole"
<1>1. Init => ManagerTypeOK /\ SourcesAreWhole
  BY InitType, InitSources
<1>2. ManagerTypeOK /\ SourcesAreWhole /\ [Next]_vars => (ManagerTypeOK /\ SourcesAreWhole)'
  <2>1. ASSUME ManagerTypeOK, SourcesAreWhole, UNCHANGED vars PROVE (ManagerTypeOK /\ SourcesAreWhole)'
    BY <2>1 DEF vars, ManagerTypeOK, SourcesAreWhole, Copying
  <2>2. QED  BY <2>1, TypeStep, SourcesStep
<1>3. ManagerTypeOK /\ SourcesAreWhole /\ [Next]_vars => [Kept]_vars
  BY WeightsStep
<1> HIDE DEF Kept
<1>4. Spec => [][Kept]_vars
  BY <1>1, <1>2, <1>3, PTL DEF Spec
<1>5. QED  BY <1>4 DEF WeightsSurvive, Kept

-----------------------------------------------------------------------------
\* What is about to be renamed onto the hot tier is a complete copy.
StagedIsWhole ==
    regime = "serial" =>
      \A r \in Requests : req[r].pc = "replace" => staging[req[r].m] = "whole"

HotInv == ManagerTypeOK /\ OneAtATime /\ SourcesAreWhole /\ StagedIsWhole /\ HotIsWhole

\* What a step sets the program counter of its request to.
LEMMA GotoPc ==
    ASSUME ManagerTypeOK, NEW r \in Requests, NEW pc \in PCs, Goto(r, pc)
    PROVE  /\ req'[r].pc = pc /\ req'[r].m = req[r].m /\ req'[r].p = req[r].p
           /\ req'[r].from = req[r].from
<1>1. req \in [Requests -> Frame]
  BY DEF ManagerTypeOK, Frame
<1>2. QED  BY <1>1 DEF Goto, Frame

LEMMA ReturnPc ==
    ASSUME ManagerTypeOK, NEW r \in Requests, Return(r)
    PROVE  req'[r].pc = "idle" /\ req'[r].p = NoProc
  BY DEF ManagerTypeOK, Return, Idle

\* Only a verified copy is renamed.
LEMMA ReplaceFollowsVerify ==
    ASSUME ManagerTypeOK, NEW r \in Requests, Handle(r), req'[r].pc = "replace"
    PROVE  /\ req[r].pc = "verify" /\ UNCHANGED staging /\ req'[r].m = req[r].m
           /\ staging[req[r].m] = disk[req[r].from][req[r].m]
<1>0. ~Return(r)
  BY ReturnPc
<1>1. \A pc \in PCs : Goto(r, pc) => req'[r].pc = pc /\ req'[r].m = req[r].m
  BY GotoPc
<1>2. ~OpenStaging(r) /\ ~CopyWeights(r) /\ ~ReplaceHot(r)
  BY <1>0, <1>1 DEF OpenStaging, CopyWeights, ReplaceHot, PCs
<1>3. ~ReportWaking(r) /\ ~WaitHealthy(r) /\ ~Publish(r) /\ ~StopServer(r)
  BY <1>1 DEF ReportWaking, WaitHealthy, Publish, StopServer, PCs
<1>4. ~ReportAwake(r) /\ ~ReportAsleep(r)
  BY <1>0 DEF ReportAwake, ReportAsleep
<1>5. ~Spawn(r)
  <2>1. \A p \in Procs : req' = [req EXCEPT ![r].pc = "wait", ![r].p = p] => req'[r].pc = "wait"
    BY DEF ManagerTypeOK
  <2>2. QED  BY <1>1, <2>1 DEF Spawn, PCs
<1>6. Verify(r)
  BY <1>2, <1>3, <1>4, <1>5 DEF Handle
<1>7. QED  BY <1>0, <1>1, <1>6 DEF Verify, PCs

LEMMA HotStep == ASSUME HotInv, Next PROVE StagedIsWhole' /\ HotIsWhole'
<1> USE DEF HotInv
<1> SUFFICES ASSUME regime' = "serial" PROVE StagedIsWhole' /\ HotIsWhole'
  BY DEF StagedIsWhole, HotIsWhole
<1>0. regime = "serial"
  BY NextCases, HandleFrame, StartFrame DEF ManagerCrash
<1>1. ASSUME NEW r \in Requests, Handle(r) PROVE StagedIsWhole' /\ HotIsWhole'
  <2>1. ASSUME NEW o \in Requests, req'[o].pc = "replace" PROVE staging'[req'[o].m] = "whole"
    <3>1. o = r
      BY <1>0, <1>1, <2>1, HandleFrame DEF OneAtATime, Active
    <3>2. /\ req[r].pc = "verify" /\ UNCHANGED staging /\ req'[r].m = req[r].m
          /\ staging[req[r].m] = disk[req[r].from][req[r].m]
      BY <1>1, <2>1, <3>1, ReplaceFollowsVerify
    <3>3. QED  BY <1>0, <3>1, <3>2 DEF SourcesAreWhole, Copying
  <2>2. ASSUME NEW m \in Members PROVE disk'["hot"][m] \in {"none", "whole"}
    <3>1. "hot" \in TIER_ORDER /\ req[r].m \in Members /\ staging[req[r].m] \in Copies
      BY DEF TIER_ORDER, ManagerTypeOK
    <3>2. CASE disk' = disk
      BY <1>0, <3>2 DEF HotIsWhole
    <3>3. CASE ReplaceHot(r) /\ disk' # disk
      <4>1. staging[req[r].m] = "whole"
        BY <1>0, <3>3 DEF ReplaceHot, StagedIsWhole
      <4>2. disk' = [disk EXCEPT !["hot"][req[r].m] = staging[req[r].m]]
        BY <3>3 DEF ReplaceHot
      <4>3. QED  BY <1>0, <3>1, <4>1, <4>2, SetHot DEF HotIsWhole
    <3>4. ReplaceHot(r) \/ disk' = disk
      BY <1>1 DEF Handle, OpenStaging, CopyWeights, Verify, ReportWaking, Spawn, WaitHealthy, Publish,
         ReportAwake, ReportAsleep, StopServer
    <3>5. QED  BY <3>2, <3>3, <3>4
  <2>3. QED  BY <2>1, <2>2 DEF StagedIsWhole, HotIsWhole
<1>2. ASSUME NEW r \in Requests, NEW m \in Members,
             Unload(r, m) \/ \E t \in TIER_ORDER : Load(r, m, t)
      PROVE  StagedIsWhole' /\ HotIsWhole'
  <2>1. disk' = disk
    BY <1>2 DEF Unload, Load
  <2>2. req'[r].pc \in {"stop", "waking", "copy"}
    BY <1>2 DEF Unload, Load, ManagerTypeOK
  <2>3. \A o \in Requests : req'[o].pc # "replace"
    BY <1>0, <1>2, <2>2, StartFrame DEF MayStart
  <2>4. QED  BY <1>0, <2>1, <2>3 DEF StagedIsWhole, HotIsWhole
<1>3. ASSUME NEW S \in SUBSET Members, Evict(S) PROVE StagedIsWhole' /\ HotIsWhole'
  <2>1. \A m \in Members : disk'["hot"][m] \in {"none", "whole"}
    BY <1>0, <1>3, DropHot DEF HotIsWhole
  <2>2. QED  BY <1>0, <1>3, <2>1 DEF Evict, StagedIsWhole, HotIsWhole
<1>4. ASSUME NEW p \in Procs, Bind(p) \/ ServerDies(p) PROVE StagedIsWhole' /\ HotIsWhole'
  BY <1>0, <1>4 DEF Bind, ServerDies, StagedIsWhole, HotIsWhole
<1>5. CASE ManagerCrash
  BY <1>0, <1>5 DEF ManagerCrash, Idle, StagedIsWhole, HotIsWhole
<1>h. CASE HubRestart
  BY <1>0, <1>h DEF HubRestart, StagedIsWhole, HotIsWhole
<1>6. \A t \in TIER_ORDER, m \in Members : ~FetchBegin(t, m) /\ ~FetchEnd(t, m)
  BY <1>0 DEF FetchBegin, FetchEnd
<1>7. QED  BY <1>1, <1>2, <1>3, <1>4, <1>5, <1>h, <1>6 DEF Next

LEMMA HotInvHolds == Spec => []HotInv
<1>1. Init => HotInv
  <2> SUFFICES ASSUME Init PROVE StagedIsWhole /\ HotIsWhole
    BY InitType, InitSources DEF HotInv
  <2>1. QED  BY DEF Init, Idle, StagedIsWhole, HotIsWhole, TIER_ORDER
<1>2. HotInv /\ [Next]_vars => HotInv'
  <2>1. ASSUME HotInv, UNCHANGED vars PROVE HotInv'
    BY <2>1 DEF vars, HotInv, ManagerTypeOK, OneAtATime, Active, SourcesAreWhole, Copying,
       StagedIsWhole, HotIsWhole
  <2>2. ASSUME HotInv, Next PROVE HotInv'
    BY <2>2, TypeStep, OneStep, SourcesStep, HotStep DEF HotInv
  <2>3. QED  BY <2>1, <2>2
<1>3. QED  BY <1>1, <1>2, PTL DEF Spec

\* For any members and faults, of a manager that serves one request at a time:
\* whichever copies fail and wherever it dies, a file of the hot tier is whole.
THEOREM HotWeightsAreWhole == Spec => []HotIsWhole
  BY HotInvHolds, PTL DEF HotInv

-----------------------------------------------------------------------------
\* What a request holds at each of its steps: no handle before Popen; the
\* member's table entry stays empty from then on until it is published; after
\* that it is this handle; and a load that failed leaves a dead server.
Held(r) ==
    LET q == req[r] IN
    /\ q.pc \in {"idle", "copy", "copying", "verify", "replace", "waking", "spawn"} => q.p = NoProc
    /\ q.pc \in {"copy", "copying", "verify", "replace", "waking", "spawn", "wait", "publish",
                 "stop", "asleep"} => loaded[q.m] = NoProc
    /\ q.pc \in {"wait", "publish"} => q.p \in Procs
    /\ q.pc = "awake" => q.p \in Procs /\ loaded[q.m] = q.p
    /\ q.pc = "asleep" => q.p = NoProc \/ procs[q.p] = "dead"

HandlesAreHeld == regime = "serial" => \A r \in Requests : Held(r)

OwnInv == ManagerTypeOK /\ OneAtATime /\ HandlesAreHeld /\ EveryServerIsOwned

Early == {"copy", "copying", "verify", "replace", "waking", "spawn"}

LEMMA EarlySteps ==
    ASSUME ManagerTypeOK, NEW r \in Requests,
           OpenStaging(r) \/ CopyWeights(r) \/ Verify(r) \/ ReplaceHot(r) \/ ReportWaking(r)
    PROVE  /\ req[r].pc \in Early
           /\ UNCHANGED <<procs, loaded>>
           /\ \/ req'[r].pc \in Early /\ req'[r].m = req[r].m /\ req'[r].p = req[r].p
              \/ req'[r].pc = "idle" /\ req'[r].p = NoProc
<1>1. \A pc \in PCs : Goto(r, pc) => req'[r].pc = pc /\ req'[r].m = req[r].m /\ req'[r].p = req[r].p
  BY GotoPc
<1>2. Return(r) => req'[r].pc = "idle" /\ req'[r].p = NoProc
  BY ReturnPc
<1>3. QED  BY <1>1, <1>2 DEF OpenStaging, CopyWeights, Verify, ReplaceHot, ReportWaking, Early, PCs

\* While a request runs in the serial regime, the others are idle.
LEMMA OthersIdle ==
    ASSUME ManagerTypeOK, OneAtATime, regime = "serial", NEW r \in Requests, Handle(r)
    PROVE  \A o \in Requests : o # r => req[o].pc = "idle" /\ req'[o] = req[o]
  BY HandleFrame DEF OneAtATime, Active

\* Then only what this request holds has to be looked at.
LEMMA OthersHold ==
    ASSUME ManagerTypeOK, OneAtATime, HandlesAreHeld, regime = "serial",
           NEW r \in Requests, Handle(r), Held(r)'
    PROVE  HandlesAreHeld'
<1>1. ASSUME NEW o \in Requests, o # r PROVE Held(o)'
  <2>1. req'[o].pc = "idle" /\ req'[o].p = NoProc
    BY <1>1, OthersIdle DEF HandlesAreHeld, Held
  <2>2. QED  BY <2>1 DEF Held
<1>2. QED  BY <1>1 DEF HandlesAreHeld

LEMMA OwnHandle ==
    ASSUME OwnInv, regime = "serial", NEW r \in Requests, Handle(r)
    PROVE  HandlesAreHeld' /\ EveryServerIsOwned'
<1> USE DEF OwnInv
<1>0. /\ regime' = regime /\ Held(r)
      /\ \A o \in Requests : o # r => req'[o] = req[o]
      /\ \A p \in Procs : procs[p] \in Alive =>
           (\E m \in Members : loaded[m] = p) \/ \E o \in Requests : req[o].p = p
  BY HandleFrame DEF HandlesAreHeld, EveryServerIsOwned
<1>q. req[r].m \in Members /\ req[r].p \in Procs \cup {NoProc} /\ NoProc \notin Procs
  BY ManagerAssumption DEF ManagerTypeOK
<1>g. \A pc \in PCs : Goto(r, pc) => req'[r].pc = pc /\ req'[r].m = req[r].m /\ req'[r].p = req[r].p
  BY GotoPc
<1>1. CASE OpenStaging(r) \/ CopyWeights(r) \/ Verify(r) \/ ReplaceHot(r) \/ ReportWaking(r)
  <2>1. /\ req[r].pc \in Early
        /\ UNCHANGED <<procs, loaded>>
        /\ \/ req'[r].pc \in Early /\ req'[r].m = req[r].m /\ req'[r].p = req[r].p
           \/ req'[r].pc = "idle" /\ req'[r].p = NoProc
    BY <1>1, EarlySteps
  <2>2. Held(r)'
    BY <1>0, <2>1 DEF Held, Early
  <2>3. EveryServerIsOwned'
    <3>1. req[r].p = NoProc
      BY <1>0, <2>1 DEF Held, Early
    <3>2. QED  BY <1>0, <1>q, <2>1, <3>1 DEF EveryServerIsOwned
  <2>4. QED  BY <2>2, <2>3, OthersHold
<1>2. CASE Spawn(r)
  <2>1. ASSUME NEW p \in Procs, procs' = [procs EXCEPT ![p] = "starting"],
               req' = [req EXCEPT ![r].pc = "wait", ![r].p = p]
        PROVE  Held(r)' /\ EveryServerIsOwned'
    <3>1. req'[r].pc = "wait" /\ req'[r].p = p /\ req'[r].m = req[r].m
      BY <2>1 DEF ManagerTypeOK
    <3>2. \A s \in Procs : s # p => procs'[s] = procs[s]
      BY <2>1 DEF ManagerTypeOK
    <3>3. loaded' = loaded /\ req[r].p = NoProc
      BY <1>0, <1>2 DEF Spawn, Held
    <3>4. loaded[req[r].m] = NoProc
      BY <1>0, <1>2 DEF Spawn, Held
    <3>5. Held(r)'
      BY <3>1, <3>3, <3>4 DEF Held
    <3>6. EveryServerIsOwned'
      BY <1>0, <1>q, <3>1, <3>2, <3>3 DEF EveryServerIsOwned
    <3>7. QED  BY <3>5, <3>6
  <2>2. ASSUME Goto(r, "asleep"), UNCHANGED procs PROVE Held(r)' /\ EveryServerIsOwned'
    <3>1. req'[r].pc = "asleep" /\ req'[r].m = req[r].m /\ req'[r].p = req[r].p
      BY <1>g, <2>2 DEF PCs
    <3>2. loaded' = loaded /\ req[r].pc = "spawn"
      BY <1>2 DEF Spawn
    <3>3. Held(r)'
      BY <1>0, <3>1, <3>2 DEF Held
    <3>4. EveryServerIsOwned'
      BY <1>0, <2>2, <3>1, <3>2 DEF EveryServerIsOwned
    <3>5. QED  BY <3>3, <3>4
  <2>3. Held(r)' /\ EveryServerIsOwned'
    BY <1>2, <2>1, <2>2 DEF Spawn
  <2>4. QED  BY <2>3, OthersHold
<1>3. CASE WaitHealthy(r)
  <2>1. req[r].pc = "wait" /\ loaded' = loaded /\ req'[r].m = req[r].m /\ req'[r].p = req[r].p
    BY <1>3, <1>g DEF WaitHealthy, PCs
  <2>2. req[r].p \in Procs
    BY <1>0, <2>1 DEF Held
  <2>3. \/ req'[r].pc = "publish" /\ UNCHANGED procs
        \/ /\ req'[r].pc = "asleep" /\ procs'[req[r].p] = "dead"
           /\ \A s \in Procs : s # req[r].p => procs'[s] = procs[s]
    <3>1. CASE procs[req[r].p] = "dead" /\ Goto(r, "asleep") /\ UNCHANGED procs
      BY <1>g, <3>1 DEF PCs
    <3>2. CASE Goto(r, "publish") /\ UNCHANGED procs
      BY <1>g, <3>2 DEF PCs
    <3>3. CASE procs' = [procs EXCEPT ![req[r].p] = "dead"] /\ Goto(r, "asleep")
      BY <1>g, <2>2, <3>3 DEF PCs, ManagerTypeOK
    <3>4. QED  BY <1>3, <3>1, <3>2, <3>3 DEF WaitHealthy
  <2>4. Held(r)'
    BY <1>0, <2>1, <2>2, <2>3 DEF Held
  <2>5. EveryServerIsOwned'
    BY <1>0, <2>1, <2>2, <2>3 DEF EveryServerIsOwned, Alive
  <2>6. QED  BY <2>4, <2>5, OthersHold
<1>4. CASE Publish(r)
  <2>1. /\ req[r].pc = "publish" /\ procs' = procs
        /\ req'[r].pc = "awake" /\ req'[r].m = req[r].m /\ req'[r].p = req[r].p
    BY <1>4, <1>g DEF Publish, PCs
  <2>2. /\ loaded'[req[r].m] = req[r].p
        /\ \A n \in Members : n # req[r].m => loaded'[n] = loaded[n]
    BY <1>4, <1>q DEF Publish, ManagerTypeOK
  <2>3. req[r].p \in Procs /\ loaded[req[r].m] = NoProc
    BY <1>0, <2>1 DEF Held
  <2>4. Held(r)'
    BY <2>1, <2>2, <2>3 DEF Held
  <2>5. EveryServerIsOwned'
    BY <1>0, <1>q, <2>1, <2>2, <2>3 DEF EveryServerIsOwned
  <2>6. QED  BY <2>4, <2>5, OthersHold
<1>5. CASE ReportAwake(r) \/ ReportAsleep(r)
  <2>1. /\ req[r].pc \in {"awake", "asleep"} /\ UNCHANGED <<procs, loaded>>
        /\ req'[r].pc = "idle" /\ req'[r].p = NoProc
    BY <1>5, ReturnPc DEF ReportAwake, ReportAsleep
  <2>2. Held(r)'
    BY <2>1 DEF Held
  <2>3. req[r].p = NoProc \/ procs[req[r].p] = "dead" \/ loaded[req[r].m] = req[r].p
    BY <1>0, <2>1 DEF Held
  <2>4. EveryServerIsOwned'
    BY <1>0, <1>q, <2>1, <2>3 DEF EveryServerIsOwned, Alive
  <2>5. QED  BY <2>2, <2>4, OthersHold
<1>6. CASE StopServer(r)
  <2>1. /\ req[r].pc = "stop" /\ loaded' = loaded
        /\ req'[r].pc = "asleep" /\ req'[r].m = req[r].m /\ req'[r].p = req[r].p
    BY <1>6, <1>g DEF StopServer, PCs
  <2>2. \A s \in Procs : procs'[s] = IF s = req[r].p THEN "dead" ELSE procs[s]
    BY <1>6 DEF StopServer, ManagerTypeOK
  <2>3. Held(r)'
    BY <1>0, <1>q, <2>1, <2>2 DEF Held
  <2>4. EveryServerIsOwned'
    BY <1>0, <2>1, <2>2 DEF EveryServerIsOwned, Alive
  <2>5. QED  BY <2>3, <2>4, OthersHold
<1>7. QED  BY <1>1, <1>2, <1>3, <1>4, <1>5, <1>6 DEF Handle

LEMMA OwnStep == ASSUME OwnInv, Next PROVE HandlesAreHeld' /\ EveryServerIsOwned'
<1> USE DEF OwnInv
<1> SUFFICES ASSUME regime' = "serial" PROVE HandlesAreHeld' /\ EveryServerIsOwned'
  BY DEF HandlesAreHeld, EveryServerIsOwned
<1>0. regime = "serial"
  BY NextCases, HandleFrame, StartFrame DEF ManagerCrash
<1>i. /\ \A r \in Requests : Held(r)
      /\ \A p \in Procs : procs[p] \in Alive =>
           (\E m \in Members : loaded[m] = p) \/ \E o \in Requests : req[o].p = p
  BY <1>0 DEF HandlesAreHeld, EveryServerIsOwned
<1>1. ASSUME NEW r \in Requests, NEW m \in Members, NEW t \in TIER_ORDER, Load(r, m, t)
      PROVE  HandlesAreHeld' /\ EveryServerIsOwned'
  <2>1. /\ req'[r].pc \in {"copy", "waking"} /\ req'[r].m = m /\ req'[r].p = NoProc
        /\ UNCHANGED <<procs, loaded>> /\ loaded[m] = NoProc
    BY <1>1 DEF Load, ManagerTypeOK
  <2>2. \A o \in Requests : req[o].p = NoProc /\ (o # r => req'[o] = req[o] /\ req[o].pc = "idle")
    BY <1>0, <1>1, <1>i, StartFrame DEF MayStart, Held
  <2>3. HandlesAreHeld'
    BY <2>1, <2>2 DEF HandlesAreHeld, Held
  <2>4. EveryServerIsOwned'
    BY <1>i, <2>1, <2>2, ManagerAssumption DEF EveryServerIsOwned
  <2>5. QED  BY <2>3, <2>4
<1>2. ASSUME NEW r \in Requests, NEW m \in Members, Unload(r, m)
      PROVE  HandlesAreHeld' /\ EveryServerIsOwned'
  <2>1. req'[r].pc = "stop" /\ req'[r].m = m /\ req'[r].p = loaded[m] /\ UNCHANGED procs
    BY <1>2 DEF Unload, ManagerTypeOK
  <2>2. \A n \in Members : loaded'[n] = IF n = m THEN NoProc ELSE loaded[n]
    BY <1>2 DEF Unload, ManagerTypeOK
  <2>3. \A o \in Requests : req[o].p = NoProc /\ (o # r => req'[o] = req[o] /\ req[o].pc = "idle")
    BY <1>0, <1>2, <1>i, StartFrame DEF MayStart, Held
  <2>4. HandlesAreHeld'
    BY <2>1, <2>2, <2>3 DEF HandlesAreHeld, Held
  <2>5. EveryServerIsOwned'
    BY <1>i, <2>1, <2>2, <2>3, ManagerAssumption DEF EveryServerIsOwned
  <2>6. QED  BY <2>4, <2>5
<1>3. ASSUME NEW S \in SUBSET Members, Evict(S) PROVE HandlesAreHeld' /\ EveryServerIsOwned'
  BY <1>0, <1>i, <1>3 DEF Evict, HandlesAreHeld, Held, EveryServerIsOwned
<1>4. ASSUME NEW p \in Procs, Bind(p) \/ ServerDies(p) PROVE HandlesAreHeld' /\ EveryServerIsOwned'
  <2>1. loaded' = loaded /\ req' = req
    BY <1>4 DEF Bind, ServerDies
  <2>2. \A s \in Procs : /\ procs'[s] \in Alive => procs[s] \in Alive
                         /\ procs[s] = "dead" => procs'[s] = "dead"
    BY <1>4 DEF Bind, ServerDies, Alive, ManagerTypeOK
  <2>3. HandlesAreHeld'
    <3>1. \A r \in Requests : req[r].p \in Procs \cup {NoProc}
      BY DEF ManagerTypeOK
    <3>2. ASSUME NEW r \in Requests PROVE Held(r)'
      <4>1. Held(r) /\ req'[r] = req[r] /\ loaded' = loaded
        BY <1>i, <2>1
      <4>2. req[r].p = NoProc \/ procs[req[r].p] = "dead" => req[r].p = NoProc \/ procs'[req[r].p] = "dead"
        BY <2>2, <3>1
      <4>3. QED  BY <4>1, <4>2 DEF Held
    <3>3. QED  BY <3>2 DEF HandlesAreHeld
  <2>4. EveryServerIsOwned'
    BY <1>i, <2>1, <2>2 DEF EveryServerIsOwned
  <2>5. QED  BY <2>3, <2>4
<1>5. CASE ManagerCrash
  <2>1. \A r \in Requests : req'[r].pc = "idle" /\ req'[r].p = NoProc
    BY <1>5 DEF ManagerCrash, Idle
  <2>2. \A p \in Procs : procs'[p] \notin Alive
    BY <1>5 DEF ManagerCrash, Alive
  <2>3. QED  BY <2>1, <2>2 DEF HandlesAreHeld, Held, EveryServerIsOwned
<1>h. CASE HubRestart
  BY <1>0, <1>i, <1>h DEF HubRestart, HandlesAreHeld, Held, EveryServerIsOwned
<1>6. \A t \in TIER_ORDER, m \in Members : ~FetchBegin(t, m) /\ ~FetchEnd(t, m)
  BY <1>0 DEF FetchBegin, FetchEnd
<1>7. ASSUME NEW r \in Requests, Handle(r) PROVE HandlesAreHeld' /\ EveryServerIsOwned'
  BY <1>0, <1>7, OwnHandle
<1>8. QED  BY <1>1, <1>2, <1>3, <1>4, <1>5, <1>h, <1>6, <1>7 DEF Next

LEMMA OwnInvHolds == Spec => []OwnInv
<1>1. Init => OwnInv
  <2> SUFFICES ASSUME Init PROVE HandlesAreHeld /\ EveryServerIsOwned
    BY InitType, InitSources DEF OwnInv
  <2>1. QED  BY DEF Init, Idle, HandlesAreHeld, Held, EveryServerIsOwned, Alive
<1>2. OwnInv /\ [Next]_vars => OwnInv'
  <2>1. ASSUME OwnInv, UNCHANGED vars PROVE OwnInv'
    BY <2>1 DEF vars, OwnInv, ManagerTypeOK, OneAtATime, Active, HandlesAreHeld, Held, EveryServerIsOwned
  <2>2. ASSUME OwnInv, Next PROVE OwnInv'
    BY <2>2, TypeStep, OneStep, OwnStep DEF OwnInv
  <2>3. QED  BY <2>1, <2>2
<1>3. QED  BY <1>1, <1>2, PTL DEF Spec

\* For any members, requests, servers and faults, of a manager that serves one
\* request at a time: every llama-server it started is in its table or held by
\* a request, whichever load, report or server fails.
THEOREM NoServerIsLost == Spec => []EveryServerIsOwned
  BY OwnInvHolds, PTL DEF OwnInv

-----------------------------------------------------------------------------
BeforeReport == Early \ {"spawn"}

\* The hub is right about every member no request is busy with whose last
\* report it heard, and calls such a member asleep while the weights are still
\* being prepared.
HubFollows ==
    regime = "serial" =>
      /\ \A m \in Members :
           (\A r \in Requests : Active(r) => req[r].m # m) /\ report[m] = "heard"
             => hub[m] = Presence(m)
      /\ \A r \in Requests :
           req[r].pc \in BeforeReport /\ report[req[r].m] = "heard" => hub[req[r].m] = "asleep"

HubInv == OwnInv /\ HubFollows

\* Faults are counted, so a step to no fault is from no fault, and is none.
LEMMA NoFaultBefore ==
    ASSUME ManagerTypeOK, Next, faults' = 0
    PROVE  faults = 0 /\ ~Fault
<1>1. faults \in Nat
  BY ManagerAssumption DEF ManagerTypeOK
<1>2. faults' = faults \/ Fault
  <2>1. \A r \in Requests : Handle(r) => faults' = faults \/ Fault
    BY DEF Handle, OpenStaging, CopyWeights, Verify, ReplaceHot, ReportWaking, Spawn, WaitHealthy,
       Publish, ReportAwake, ReportAsleep, StopServer, Tell
  <2>2. QED  BY <2>1 DEF Next, Load, Unload, Evict, Bind, ServerDies, ManagerCrash, HubRestart,
               FetchBegin, FetchEnd
<1>3. QED  BY <1>1, <1>2 DEF Fault

\* A report is about one member, and one that was heard is what the hub holds.
LEMMA TellFrame ==
    ASSUME ManagerTypeOK, NEW m \in Members, NEW s, Tell(m, s)
    PROVE  /\ \A n \in Members : n # m => hub'[n] = hub[n] /\ report'[n] = report[n]
           /\ report'[m] = "heard" => hub'[m] = s
<1>1. hub \in [Members -> Presences] /\ report \in [Members -> Reports]
  BY DEF ManagerTypeOK, Presences, Reports
<1>2. CASE hub' = [hub EXCEPT ![m] = s] /\ report' = [report EXCEPT ![m] = "heard"]
  BY <1>1, <1>2
<1>3. CASE /\ hub' = hub \/ hub' = [hub EXCEPT ![m] = s]
           /\ report' = [report EXCEPT ![m] = "lost"]
  <2>1. report'[m] = "lost" /\ \A n \in Members : n # m => report'[n] = report[n]
    BY <1>1, <1>3
  <2>2. \A n \in Members : n # m => hub'[n] = hub[n]
    BY <1>1, <1>3
  <2>3. QED  BY <2>1, <2>2
<1>4. QED  BY <1>2, <1>3 DEF Tell

\* A step of a request changes the presence, and the entry, of its own member.
LEMMA HandleMember ==
    ASSUME ManagerTypeOK, NEW r \in Requests, Handle(r)
    PROVE  /\ \A n \in Members : n # req[r].m =>
                hub'[n] = hub[n] /\ report'[n] = report[n] /\ loaded'[n] = loaded[n]
           /\ req'[r].m = req[r].m \/ Return(r)
<1>0. req[r].m \in Members /\ loaded \in [Members -> Procs \cup {NoProc}]
  BY DEF ManagerTypeOK
<1>1. \A s : Tell(req[r].m, s) =>
         \A n \in Members : n # req[r].m => hub'[n] = hub[n] /\ report'[n] = report[n]
  BY <1>0, TellFrame
<1>2. \A n \in Members : n # req[r].m =>
         hub'[n] = hub[n] /\ report'[n] = report[n] /\ loaded'[n] = loaded[n]
  BY <1>0, <1>1 DEF Handle, OpenStaging, CopyWeights, Verify, ReplaceHot, ReportWaking, Spawn,
     WaitHealthy, Publish, ReportAwake, ReportAsleep, StopServer
<1>3. \A pc \in PCs : Goto(r, pc) => req'[r].m = req[r].m
  BY GotoPc
<1>4. Spawn(r) => req'[r].m = req[r].m
  <2>1. \A p \in Procs : req' = [req EXCEPT ![r].pc = "wait", ![r].p = p] => req'[r].m = req[r].m
    BY DEF ManagerTypeOK
  <2>2. QED  BY <1>3, <2>1 DEF Spawn, PCs
<1>5. QED  BY <1>2, <1>3, <1>4 DEF Handle, OpenStaging, CopyWeights, Verify, ReplaceHot, ReportWaking,
     WaitHealthy, Publish, ReportAwake, ReportAsleep, StopServer, PCs

\* The member of a request that returns is told right, if the hub heard it.
LEMMA ReturnTells ==
    ASSUME HubInv, regime = "serial", NEW r \in Requests, Handle(r), Return(r),
           NEW k \in Members, k = req[r].m, report'[k] = "heard"
    PROVE  hub'[k] = Presence(k)'
<1> USE DEF HubInv, OwnInv
<1>0. Held(r)
  BY DEF HandlesAreHeld
<1>1. CASE OpenStaging(r) \/ CopyWeights(r) \/ Verify(r) \/ ReplaceHot(r)
  <2>1. req[r].pc \in BeforeReport /\ UNCHANGED <<hub, report, loaded>>
    BY <1>1 DEF OpenStaging, CopyWeights, Verify, ReplaceHot, BeforeReport, Early
  <2>2. loaded[k] = NoProc
    BY <1>0, <2>1 DEF Held, BeforeReport, Early
  <2>3. hub[k] = "asleep"
    BY <2>1 DEF HubFollows
  <2>4. QED  BY <2>1, <2>2, <2>3 DEF Presence
<1>2. CASE ReportAwake(r)
  <2>1. hub'[k] = "awake" /\ loaded' = loaded
    BY <1>2, TellFrame DEF ReportAwake
  <2>2. loaded[k] # NoProc
    BY <1>0, <1>2, ManagerAssumption DEF Held, ReportAwake
  <2>3. QED  BY <2>1, <2>2 DEF Presence
<1>3. CASE ReportAsleep(r)
  <2>1. hub'[k] = "asleep" /\ loaded' = loaded
    BY <1>3, TellFrame DEF ReportAsleep
  <2>2. loaded[k] = NoProc
    BY <1>0, <1>3 DEF Held, ReportAsleep
  <2>3. QED  BY <2>1, <2>2 DEF Presence
<1>4. ASSUME ReportWaking(r) \/ Spawn(r) \/ WaitHealthy(r) \/ Publish(r) \/ StopServer(r)
      PROVE  FALSE
  <2>1. req'[r].pc = "idle"
    BY ReturnPc
  <2>2. \A pc \in PCs : Goto(r, pc) => req'[r].pc = pc
    BY GotoPc
  <2>3. \A p \in Procs : req' = [req EXCEPT ![r].pc = "wait", ![r].p = p] => req'[r].pc = "wait"
    BY DEF ManagerTypeOK
  <2>4. QED  BY <1>4, <2>1, <2>2, <2>3 DEF ReportWaking, Spawn, WaitHealthy, Publish, StopServer, PCs
<1>5. QED  BY <1>1, <1>2, <1>3, <1>4 DEF Handle

LEMMA HubHandle ==
    ASSUME HubInv, regime = "serial", NEW r \in Requests, Handle(r)
    PROVE  HubFollows'
<1> USE DEF HubInv, OwnInv
<1>0. /\ req[r].m \in Members
      /\ \A o \in Requests : o # r => req[o].pc = "idle" /\ req'[o] = req[o]
  BY OthersIdle DEF ManagerTypeOK
<1>1. /\ \A n \in Members : n # req[r].m =>
           hub'[n] = hub[n] /\ report'[n] = report[n] /\ loaded'[n] = loaded[n]
      /\ req'[r].m = req[r].m \/ Return(r)
  BY HandleMember
<1>2. \A n \in Members : n # req[r].m /\ report[n] = "heard" => hub[n] = Presence(n)
  BY <1>0 DEF HubFollows, Active
<1>g. \A pc \in PCs : Goto(r, pc) => req'[r].pc = pc
  BY GotoPc
<1>s. \A p \in Procs : req' = [req EXCEPT ![r].pc = "wait", ![r].p = p] => req'[r].pc = "wait"
  BY DEF ManagerTypeOK
<1>3. ASSUME NEW n \in Members, \A o \in Requests : Active(o)' => req'[o].m # n, report'[n] = "heard"
      PROVE  hub'[n] = Presence(n)'
  <2>1. CASE n # req[r].m
    BY <1>1, <1>2, <1>3, <2>1 DEF Presence
  <2>2. CASE n = req[r].m
    <3>1. Return(r)
      <4>1. CASE req'[r].pc = "idle"
        BY <1>g, <1>s, <4>1 DEF Handle, OpenStaging, CopyWeights, Verify, ReplaceHot, ReportWaking,
           Spawn, WaitHealthy, Publish, ReportAwake, ReportAsleep, StopServer, PCs
      <4>2. QED  BY <1>1, <1>3, <2>2, <4>1 DEF Active
    <3>2. QED  BY <1>3, <2>2, <3>1, ReturnTells
  <2>3. QED  BY <2>1, <2>2
<1>4. ASSUME NEW o \in Requests, req'[o].pc \in BeforeReport, report'[req'[o].m] = "heard"
      PROVE  hub'[req'[o].m] = "asleep"
  <2>1. o = r
    BY <1>0, <1>4 DEF BeforeReport, Early
  <2>2. ~Return(r)
    BY <1>4, <2>1, ReturnPc DEF BeforeReport, Early
  <2>3. OpenStaging(r) \/ CopyWeights(r) \/ Verify(r) \/ ReplaceHot(r)
    BY <1>4, <1>g, <1>s, <2>1, <2>2 DEF Handle, ReportWaking, Spawn, WaitHealthy, Publish, ReportAwake,
       ReportAsleep, StopServer, PCs, BeforeReport, Early
  <2>4. req[r].pc \in BeforeReport /\ UNCHANGED <<hub, report>>
    BY <2>3 DEF OpenStaging, CopyWeights, Verify, ReplaceHot, BeforeReport, Early
  <2>5. QED  BY <1>1, <1>4, <2>1, <2>2, <2>4 DEF HubFollows
<1>5. QED  BY <1>3, <1>4 DEF HubFollows

LEMMA HubStep == ASSUME HubInv, Next PROVE HubFollows'
<1> USE DEF HubInv, OwnInv
<1> SUFFICES ASSUME regime' = "serial" PROVE HubFollows'
  BY DEF HubFollows
<1>0. regime = "serial"
  BY NextCases, HandleFrame, StartFrame DEF ManagerCrash
<1>1. ASSUME NEW r \in Requests, Handle(r) PROVE HubFollows'
  BY <1>0, <1>1, HubHandle
<1>2. ASSUME NEW r \in Requests, NEW m \in Members,
             Unload(r, m) \/ \E t \in TIER_ORDER : Load(r, m, t)
      PROVE  HubFollows'
  <2>1. \A n \in Members : report[n] = "heard" => hub[n] = Presence(n)
    BY <1>0, <1>2, StartFrame DEF MayStart, HubFollows, Active
  <2>2. \A o \in Requests : o # r => req'[o].pc = "idle"
    BY <1>0, <1>2, StartFrame DEF MayStart
  <2>3. req'[r].m = m /\ req'[r].pc # "idle" /\ hub' = hub /\ report' = report
    BY <1>2 DEF Unload, Load, ManagerTypeOK
  <2>4. \A n \in Members : n # m => loaded'[n] = loaded[n]
    BY <1>2 DEF Unload, Load, ManagerTypeOK
  <2>5. req'[r].pc \in BeforeReport => loaded[m] = NoProc
    BY <1>2 DEF Unload, Load, ManagerTypeOK, BeforeReport, Early
  <2>6. ASSUME NEW n \in Members, \A o \in Requests : Active(o)' => req'[o].m # n, report'[n] = "heard"
        PROVE  hub'[n] = Presence(n)'
    BY <2>1, <2>3, <2>4, <2>6 DEF Presence, Active
  <2>7. ASSUME NEW o \in Requests, req'[o].pc \in BeforeReport, report'[req'[o].m] = "heard"
        PROVE  hub'[req'[o].m] = "asleep"
    <3>1. o = r
      BY <2>2, <2>7 DEF BeforeReport, Early
    <3>2. QED  BY <2>1, <2>3, <2>5, <2>7, <3>1 DEF Presence
  <2>8. QED  BY <2>6, <2>7 DEF HubFollows
<1>3. ASSUME hub' = hub, report' = report, loaded' = loaded, req' = req PROVE HubFollows'
  BY <1>0, <1>3 DEF HubFollows, Presence, Active
<1>4. (\E S \in SUBSET Members : Evict(S)) \/ (\E p \in Procs : Bind(p) \/ ServerDies(p))
        => hub' = hub /\ report' = report /\ loaded' = loaded /\ req' = req
  BY DEF Evict, Bind, ServerDies
<1>5. CASE ManagerCrash \/ HubRestart
  <2>1. \A m \in Members : report'[m] # "heard"
    BY <1>5 DEF ManagerCrash, HubRestart, Restarted
  <2>2. \A r \in Requests : req'[r].m \in Members
    BY TypeStep DEF ManagerTypeOK
  <2>3. QED  BY <2>1, <2>2 DEF HubFollows
<1>6. \A t \in TIER_ORDER, m \in Members : ~FetchBegin(t, m) /\ ~FetchEnd(t, m)
  BY <1>0 DEF FetchBegin, FetchEnd
<1>7. QED  BY <1>1, <1>2, <1>3, <1>4, <1>5, <1>6 DEF Next

\* For any members, requests and faults, and any default presence, of a manager
\* that serves one request at a time: whichever step of a load or an unload
\* fails, once it is over the hub agrees with the manager's table about every
\* member whose last report it answered, up to a restart of either.
THEOREM QuietHubIsRightAlways == Spec => []QuietHubIsRight
<1>1. Init => HubFollows
  <2> SUFFICES ASSUME Init PROVE HubFollows
    OBVIOUS
  <2>1. \A m \in Members : report[m] # "heard"
    BY DEF Init
  <2>2. \A r \in Requests : req[r].m \in Members
    BY InitType DEF ManagerTypeOK
  <2>3. QED  BY <2>1, <2>2 DEF HubFollows
<1>2. HubInv /\ [Next]_vars => HubFollows'
  <2>1. ASSUME HubInv, UNCHANGED vars PROVE HubFollows'
    BY <2>1 DEF vars, HubInv, HubFollows, Active, Presence
  <2>2. QED  BY <2>1, HubStep
<1>3. HubFollows => QuietHubIsRight
  BY DEF HubFollows, QuietHubIsRight, Quiet, Active, Presence
<1>4. Spec => []OwnInv
  BY OwnInvHolds
<1>5. QED  BY <1>1, <1>2, <1>3, <1>4, PTL DEF Spec, HubInv

-----------------------------------------------------------------------------
(* One port, one member.                                                   *)

\* Without a fault there is one llama-server at a time, nobody's orphan; the
\* table names one that serves, and so does a request about to enter it.
OneServer ==
    (regime = "serial" /\ faults = 0) =>
      /\ \A m \in Members : loaded[m] # NoProc => procs[loaded[m]] = "serving"
      /\ \A r \in Requests : req[r].pc = "publish" => procs[req[r].p] = "serving"
      /\ \A p \in Procs : procs[p] # "orphan"
      /\ \A p, q \in Procs : procs[p] # "dead" /\ procs[q] # "dead" => p = q

LEMMA OneServerHandle ==
    ASSUME OwnInv, OneServer, regime = "serial", faults = 0, ~Fault,
           \A m, n \in Members : m = n, NEW r \in Requests, Handle(r)
    PROVE  OneServer'
<1> USE DEF OwnInv
<1>0. /\ Held(r) /\ req[r].m \in Members /\ procs \in [Procs -> Alive \cup {"dead", "orphan"}]
      /\ \A o \in Requests : o # r => req[o].pc = "idle" /\ req'[o] = req[o] /\ req[o].p = NoProc
  BY OthersIdle DEF HandlesAreHeld, ManagerTypeOK, Held
<1>s. /\ \A m \in Members : loaded[m] # NoProc => procs[loaded[m]] = "serving"
      /\ req[r].pc = "publish" => procs[req[r].p] = "serving"
      /\ \A p \in Procs : procs[p] # "orphan"
      /\ \A p, q \in Procs : procs[p] # "dead" /\ procs[q] # "dead" => p = q
  BY DEF OneServer
<1>g. \A pc \in PCs : Goto(r, pc) => req'[r].pc = pc /\ req'[r].m = req[r].m /\ req'[r].p = req[r].p
  BY GotoPc
\* The rest of OneServer' is about the servers, and about r if it is to publish.
<1>p. ASSUME req'[r].pc = "publish" => procs'[req'[r].p] = "serving",
             \A m \in Members : loaded'[m] # NoProc => procs'[loaded'[m]] = "serving",
             \A p \in Procs : procs'[p] # "orphan",
             \A p, q \in Procs : procs'[p] # "dead" /\ procs'[q] # "dead" => p = q
      PROVE  OneServer'
  BY <1>0, <1>p DEF OneServer
<1>1. CASE Handle(r) /\ UNCHANGED <<procs, loaded>> /\ req'[r].pc # "publish"
  BY <1>1, <1>s, <1>p
<1>2. CASE OpenStaging(r) \/ CopyWeights(r) \/ Verify(r) \/ ReplaceHot(r) \/ ReportWaking(r)
  BY <1>1, <1>2, EarlySteps DEF Early
<1>3. CASE Spawn(r)
  <2>1. ASSUME NEW p \in Procs, procs' = [procs EXCEPT ![p] = "starting"],
               req' = [req EXCEPT ![r].pc = "wait", ![r].p = p]
        PROVE  OneServer'
    <3>1. \A q \in Procs : procs'[q] = IF q = p THEN "starting" ELSE procs[q]
      BY <1>0, <2>1
    <3>w. req'[r].pc = "wait"
      BY <2>1 DEF ManagerTypeOK
    <3>l. loaded' = loaded
      BY <1>3 DEF Spawn
    <3>2. req[r].p = NoProc /\ \A m \in Members : loaded[m] = NoProc
      BY <1>0, <1>3 DEF Held, Spawn
    <3>3. \A q \in Procs : procs[q] = "dead"
      BY <1>0, <1>s, <3>2, ManagerAssumption DEF EveryServerIsOwned, Alive
    <3>4. QED  BY <1>p, <3>1, <3>w, <3>l, <3>2, <3>3
  <2>2. CASE Goto(r, "asleep") /\ UNCHANGED procs
    BY <1>1, <1>3, <1>g, <2>2 DEF Spawn, PCs
  <2>3. QED  BY <1>3, <2>1, <2>2 DEF Spawn
<1>4. CASE WaitHealthy(r)
  <2>1. loaded' = loaded /\ req[r].p \in Procs /\ \A m \in Members : loaded[m] = NoProc
    BY <1>0, <1>4 DEF Held, WaitHealthy
  <2>2. CASE Goto(r, "asleep") /\ UNCHANGED procs
    BY <1>1, <1>4, <1>g, <2>1, <2>2 DEF PCs
  <2>3. CASE procs[req[r].p] # "dead" /\ Healthy /\ Goto(r, "publish") /\ UNCHANGED procs
    <3>1. procs[req[r].p] = "serving"
      BY <1>s, <2>1, <2>3 DEF Healthy
    <3>2. QED  BY <1>g, <1>p, <1>s, <2>1, <2>3, <3>1 DEF PCs
  <2>4. CASE procs' = [procs EXCEPT ![req[r].p] = "dead"] /\ Goto(r, "asleep")
    <3>1. \A q \in Procs : procs'[q] = IF q = req[r].p THEN "dead" ELSE procs[q]
      BY <1>0, <2>1, <2>4
    <3>2. QED  BY <1>g, <1>p, <1>s, <2>1, <2>4, <3>1 DEF PCs
  <2>5. QED  BY <1>4, <2>2, <2>3, <2>4 DEF WaitHealthy
<1>5. CASE Publish(r)
  <2>1. /\ req[r].pc = "publish" /\ procs' = procs /\ req'[r].pc = "awake"
        /\ \A m \in Members : loaded'[m] = req[r].p
    BY <1>0, <1>5, <1>g DEF Publish, PCs, ManagerTypeOK
  <2>2. QED  BY <1>p, <1>s, <2>1
<1>6. CASE ReportAwake(r) \/ ReportAsleep(r)
  BY <1>1, <1>6, ReturnPc DEF ReportAwake, ReportAsleep
<1>7. CASE StopServer(r)
  <2>1. /\ req'[r].pc = "asleep" /\ loaded' = loaded
        /\ \A q \in Procs : procs'[q] = IF q = req[r].p THEN "dead" ELSE procs[q]
    BY <1>0, <1>7, <1>g DEF StopServer, PCs
  <2>2. \A m \in Members : loaded[m] = NoProc
    BY <1>0, <1>7 DEF Held, StopServer
  <2>3. QED  BY <1>p, <1>s, <2>1, <2>2
<1>8. QED  BY <1>2, <1>3, <1>4, <1>5, <1>6, <1>7 DEF Handle

LEMMA OneServerStep ==
    ASSUME OwnInv, OneServer, \A m, n \in Members : m = n, Next
    PROVE  OneServer'
<1> USE DEF OwnInv
<1> SUFFICES ASSUME regime' = "serial", faults' = 0 PROVE OneServer'
  BY DEF OneServer
<1>0. regime = "serial" /\ faults = 0 /\ ~Fault
  BY NextCases, HandleFrame, StartFrame, NoFaultBefore DEF ManagerCrash
<1>1. ASSUME NEW r \in Requests, Handle(r) PROVE OneServer'
  BY <1>0, <1>1, OneServerHandle
<1>2. ASSUME NEW r \in Requests, NEW m \in Members, NEW t \in TIER_ORDER, Load(r, m, t)
      PROVE  OneServer'
  <2>1. /\ UNCHANGED <<procs, loaded>> /\ req'[r].pc # "publish"
        /\ \A o \in Requests : o # r => req'[o] = req[o]
    BY <1>2 DEF Load, ManagerTypeOK
  <2>2. QED  BY <1>0, <2>1 DEF OneServer
<1>3. ASSUME NEW r \in Requests, NEW m \in Members, Unload(r, m) PROVE OneServer'
  <2>1. /\ procs' = procs /\ req'[r].pc # "publish"
        /\ \A o \in Requests : o # r => req'[o] = req[o]
        /\ \A n \in Members : loaded'[n] = IF n = m THEN NoProc ELSE loaded[n]
    BY <1>3 DEF Unload, ManagerTypeOK
  <2>2. QED  BY <1>0, <2>1 DEF OneServer
<1>4. ASSUME NEW S \in SUBSET Members, Evict(S) PROVE OneServer'
  BY <1>0, <1>4 DEF Evict, OneServer
<1>5. ASSUME NEW p \in Procs, Bind(p) PROVE OneServer'
  <2>1. ~Healthy
    BY <1>0, <1>5 DEF Bind, Healthy, OneServer
  <2>2. /\ procs[p] = "starting" /\ UNCHANGED <<loaded, req>>
        /\ \A q \in Procs : procs'[q] = IF q = p THEN "serving" ELSE procs[q]
    BY <1>5, <2>1 DEF Bind, ManagerTypeOK
  <2>3. \A m \in Members : loaded[m] \in Procs \cup {NoProc}
    BY DEF ManagerTypeOK
  <2>4. \A r \in Requests : req[r].pc = "publish" => req[r].p \in Procs
    BY <1>0 DEF HandlesAreHeld, Held
  <2>5. QED  BY <1>0, <2>2, <2>3, <2>4 DEF OneServer
<1>6. ~ManagerCrash /\ ~HubRestart /\ \A p \in Procs : ~ServerDies(p)
  BY <1>0 DEF ManagerCrash, HubRestart, ServerDies
<1>7. \A t \in TIER_ORDER, m \in Members : ~FetchBegin(t, m) /\ ~FetchEnd(t, m)
  BY <1>0 DEF FetchBegin, FetchEnd
<1>8. QED  BY <1>1, <1>2, <1>3, <1>4, <1>5, <1>6, <1>7 DEF Next

\* In a family of one, of a manager that serves one request at a time: a member
\* in the table has a server of its own that answers, unless something failed.
\* The run manager_two_members shows what a second member does to this.
THEOREM OneMemberIsServed ==
    ASSUME \A m, n \in Members : m = n, Regimes = {"serial"}
    PROVE  Spec => []LoadIsPerMember
<1>1. Init => OneServer
  <2> SUFFICES ASSUME Init PROVE OneServer
    OBVIOUS
  <2>1. \A r \in Requests : req[r].pc = "idle"
    BY DEF Init, Idle
  <2>2. QED  BY <2>1 DEF Init, OneServer
<1>2. OwnInv /\ OneServer /\ [Next]_vars => OneServer'
  <2>1. ASSUME OneServer, UNCHANGED vars PROVE OneServer'
    BY <2>1 DEF vars, OneServer
  <2>2. QED  BY <2>1, OneServerStep
<1>3. OwnInv /\ OneServer => LoadIsPerMember
  BY DEF OwnInv, ManagerTypeOK, OneServer, LoadIsPerMember
<1>4. QED  BY <1>1, <1>2, <1>3, OwnInvHolds, PTL DEF Spec
=============================================================================
