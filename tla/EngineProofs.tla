---------------------------- MODULE EngineProofs ----------------------------
(***************************************************************************)
(* Proofs about the engine launcher, for every set of threads, strategies  *)
(* and process ids.  The argument: a thread holds the lock exactly while   *)
(* it is in a critical section; past "kill" no engine is left and _proc is *)
(* None; so a spawn finds an empty machine and puts its child in _proc.    *)
(***************************************************************************)
EXTENDS Engine, TLAPS

(* What a thread leaves in "call" has the type of a call. *)
LEMMA CallTypes ==
    ASSUME call \in [Threads -> CallRec], NEW t \in Threads
    PROVE  /\ \A pc \in CallPcs : Goto(t, pc) => call' \in [Threads -> CallRec]
           /\ \A r \in {"none", "ok", "failed", "raised"} :
                  Finish(t, r) => call' \in [Threads -> CallRec]
           /\ NoCall \in CallRec
           /\ call[t].name \in Names
           /\ call[t].attempt \in 0..DriverRetries
<1>1. call[t] \in CallRec
  OBVIOUS
<1>2. ASSUME NEW pc \in CallPcs, Goto(t, pc) PROVE call' \in [Threads -> CallRec]
  BY <1>2 DEF Goto, CallRec
<1>3. ASSUME NEW r \in {"none", "ok", "failed", "raised"}, Finish(t, r)
      PROVE  call' \in [Threads -> CallRec]
  <2>1. [call[t] EXCEPT !.pc = "done", !.result = r] \in CallRec
    BY <1>1 DEF CallRec, CallPcs
  <2>2. call' = [call EXCEPT ![t] = [call[t] EXCEPT !.pc = "done", !.result = r]]
    BY <1>3 DEF Finish
  <2> QED BY <2>1, <2>2
<1>4. NoCall \in CallRec
  BY EngineAssumption DEF NoCall, CallRec, CallPcs, Names
<1> QED BY <1>1, <1>2, <1>3, <1>4 DEF CallRec

(* Every status the runner or the monitor writes has the type of a status. *)
LEMMA StatusTypes ==
    ASSUME rt \in StatusRec, NEW n \in Names, NEW p \in MaybePids
    PROVE  {MarkStarting(n), MarkRunning(n, p), MarkStopping, MarkStopped,
            MarkFailed(n), SyncUp(p, n), SyncDown} \subseteq StatusRec
<1> USE DEF StatusRec, Phases, MaybePids, Names
<1>1. MarkStarting(n) \in StatusRec BY DEF MarkStarting
<1>2. MarkRunning(n, p) \in StatusRec BY DEF MarkRunning
<1>3. MarkStopping \in StatusRec BY DEF MarkStopping
<1>4. MarkStopped \in StatusRec BY DEF MarkStopped
<1>5. MarkFailed(n) \in StatusRec BY DEF MarkFailed
<1>6. SyncUp(p, n) \in StatusRec BY DEF SyncUp
<1>7. SyncDown \in StatusRec BY <1>4 DEF SyncDown
<1> QED BY <1>1, <1>2, <1>3, <1>4, <1>5, <1>6, <1>7

(* The same for the updates of the runner's own record. *)
LEMMA RunnerTypes ==
    ASSUME runner \in RunnerRec, NEW ph \in Phases, NEW n \in Names, NEW p \in MaybePids,
           NEW b \in BOOLEAN
    PROVE  /\ [runner EXCEPT !.phase = ph] \in RunnerRec
           /\ [runner EXCEPT !.phase = ph, !.name = n] \in RunnerRec
           /\ [runner EXCEPT !.proc = p, !.piped = b] \in RunnerRec
           /\ [runner EXCEPT !.phase = ph, !.piped = b] \in RunnerRec
           /\ [runner EXCEPT !.phase = ph, !.proc = p, !.piped = b] \in RunnerRec
BY DEF RunnerRec

(* And for those of the monitor's record. *)
LEMMA MonTypes ==
    ASSUME mon \in MonRec, NEW p \in MaybePids
    PROVE  /\ [mon EXCEPT !.pc = "read", !.misses = 0, !.last = p, !.seen = p] \in MonRec
           /\ [mon EXCEPT !.misses = 0] \in MonRec
           /\ mon.misses + 1 < DebounceMisses =>
                  [mon EXCEPT !.misses = @ + 1] \in MonRec
           /\ [mon EXCEPT !.pc = "down", !.misses = 0, !.last = NoPid] \in MonRec
<1> DEFINE Count == 0..DebounceMisses
<1>1. 0 \in Count /\ \A k \in Count : k + 1 < DebounceMisses => k + 1 \in Count
  BY EngineAssumption
<1>2. MonRec = [pc : {"off", "probe", "read", "up", "down"}, seen : MaybePids,
                name : Names, last : MaybePids, misses : Count]
  BY DEF MonRec
<1>3. NoPid \in MaybePids
  BY DEF MaybePids
<1> HIDE DEF Count
<1>4. [mon EXCEPT !.pc = "read", !.misses = 0, !.last = p, !.seen = p] \in MonRec
  BY <1>1, <1>2
<1>5. [mon EXCEPT !.misses = 0] \in MonRec
  BY <1>1, <1>2
<1>6. mon.misses + 1 < DebounceMisses => [mon EXCEPT !.misses = @ + 1] \in MonRec
  BY <1>1, <1>2
<1>7. [mon EXCEPT !.pc = "down", !.misses = 0, !.last = NoPid] \in MonRec
  BY <1>1, <1>2, <1>3
<1> QED BY <1>4, <1>5, <1>6, <1>7

\* Every action that moves a thread through the runner.
RunnerStep(t) == Step(t) \/ Return(t) \/ CallStop(t) \/ \E s \in Strategies : CallStart(t, s)

(* The other actions: the operating system and the monitor. *)
OtherStep == (\E p \in Pids : EngineExits(p)) \/ StartMonitor \/ MonitorStep

LEMMA TypeStepRunner ==
    ASSUME TypeOK, NEW t \in Threads, RunnerStep(t)
    PROVE  TypeOK'
<1>0. /\ NoPid \in MaybePids /\ NoName \in Names /\ call[t].name \in Names
      /\ Phases = {"idle", "starting", "running", "stopping", "failed"}
      /\ MaybePids = Pids \cup {NoPid}
  BY CallTypes DEF TypeOK, MaybePids, Names, Phases
<1>p. \A pc \in CallPcs : Goto(t, pc) => call' \in [Threads -> CallRec]
  BY CallTypes DEF TypeOK
<1>r. \A r \in {"none", "ok", "failed", "raised"} :
          Finish(t, r) => call' \in [Threads -> CallRec]
  BY CallTypes DEF TypeOK
<1>s. \A n \in Names, p \in MaybePids :
          {MarkStarting(n), MarkRunning(n, p), MarkStopping, MarkStopped,
           MarkFailed(n), SyncUp(p, n), SyncDown} \subseteq StatusRec
  BY StatusTypes DEF TypeOK
<1>c. CallPcs = {"idle", "enter", "kill", "clear", "cooldown", "announce",
                 "spawn", "wait", "pause", "done"}
  BY DEF CallPcs
<1> USE DEF TypeOK
<1>1. CASE Enter(t)
  BY <1>1, <1>0, <1>p, <1>s, <1>c, RunnerTypes DEF Enter
<1>2. CASE KillEngines(t)
  <2>1. PICK survivors \in SUBSET Alive :
            os' = [p \in Pids |-> IF p \in survivors THEN os[p] ELSE Absent]
    BY <1>2 DEF KillEngines
  <2>2. Absent \in EngineRec
    BY DEF Absent, EngineRec, Names
  <2>3. os' \in [Pids -> EngineRec]
    BY <2>1, <2>2
  <2> QED BY <1>2, <2>3, <1>0, <1>p, <1>c, RunnerTypes DEF KillEngines
<1>3. CASE FinishStop(t)
  BY <1>3, <1>0, <1>p, <1>s, <1>c, RunnerTypes DEF FinishStop
<1>4. CASE Cooldown(t)
  BY <1>4, <1>r DEF Cooldown
<1>5. CASE Announce(t)
  BY <1>5, <1>0, <1>p, <1>s, <1>c, RunnerTypes DEF Announce
<1>6. CASE Spawn(t)
  <2>1. PICK p \in Pids :
            /\ os' = [os EXCEPT ![p] = [state |-> "up", name |-> call[t].name]]
            /\ runner' = [runner EXCEPT !.proc = p, !.piped = TRUE]
    BY <1>6 DEF Spawn
  <2>2. [state |-> "up", name |-> call[t].name] \in EngineRec
    BY <1>0 DEF EngineRec
  <2>3. os' \in [Pids -> EngineRec]
    BY <2>1, <2>2
  <2>4. runner' \in RunnerRec
    BY <2>1, <1>0, RunnerTypes
  <2> QED BY <1>6, <2>3, <2>4, <1>p, <1>c DEF Spawn
<1>7. CASE SpawnFails(t)
  BY <1>7, <1>0, <1>r, <1>s, RunnerTypes DEF SpawnFails
<1>8. CASE ConfirmUp(t)
  <2>1. runner.proc \in MaybePids
    BY DEF RunnerRec
  <2> QED BY <1>8, <2>1, <1>0, <1>r, <1>s, RunnerTypes DEF ConfirmUp, Wakes
<1>9. CASE ConfirmDown(t)
  <2>1. call' \in [Threads -> CallRec]
    <3>1. CASE ProcState = "busy" /\ call[t].attempt < DriverRetries
      <4>1. call[t] \in CallRec /\ call[t].attempt + 1 \in 0..DriverRetries
        BY <3>1, CallTypes, EngineAssumption
      <4>2. [call[t] EXCEPT !.pc = "pause", !.attempt = call[t].attempt + 1] \in CallRec
        BY <4>1 DEF CallRec, CallPcs
      <4>3. call' = [call EXCEPT ![t] =
                        [call[t] EXCEPT !.pc = "pause", !.attempt = call[t].attempt + 1]]
        BY <1>9, <3>1 DEF ConfirmDown
      <4> QED BY <4>2, <4>3
    <3>2. CASE ~ (ProcState = "busy" /\ call[t].attempt < DriverRetries)
      BY <1>9, <3>2, <1>r DEF ConfirmDown
    <3> QED BY <3>1, <3>2
  <2>2. runner' \in RunnerRec
    BY <1>9, <1>0, RunnerTypes DEF ConfirmDown
  <2>3. rt' \in StatusRec
    BY <1>9, <1>0, <1>s DEF ConfirmDown
  <2> QED BY <1>9, <2>1, <2>2, <2>3 DEF ConfirmDown, Wakes
<1>10. CASE ConfirmRaises(t)
  BY <1>10, <1>r DEF ConfirmRaises, Wakes
<1>11. CASE Retry(t)
  BY <1>11, <1>p, <1>c DEF Retry
<1>12. CASE Return(t)
  BY <1>12, CallTypes DEF Return
<1>13. CASE CallStop(t)
  <2>1. [NoCall EXCEPT !.pc = "enter"] \in CallRec
    BY CallTypes DEF CallRec, CallPcs
  <2> QED BY <1>13, <2>1 DEF CallStop
<1>14. CASE \E s \in Strategies : CallStart(t, s)
  <2>1. PICK s \in Strategies : CallStart(t, s)
    BY <1>14
  <2>2. [NoCall EXCEPT !.pc = "enter", !.op = "start", !.name = s] \in CallRec
    BY CallTypes DEF CallRec, CallPcs, Names
  <2> QED BY <2>1, <2>2 DEF CallStart
<1> QED
  BY <1>1, <1>2, <1>3, <1>4, <1>5, <1>6, <1>7, <1>8, <1>9, <1>10, <1>11, <1>12,
     <1>13, <1>14 DEF RunnerStep, Step

LEMMA TypeStepOther ==
    ASSUME TypeOK, OtherStep
    PROVE  TypeOK'
<1> USE DEF TypeOK
<1>1. CASE \E p \in Pids : EngineExits(p)
  <2>1. PICK p \in Pids, cause \in {"exited", "busy", "absent"} :
            os' = [os EXCEPT ![p] = [state |-> cause, name |-> NoName]]
    BY <1>1 DEF EngineExits
  <2>2. [state |-> cause, name |-> NoName] \in EngineRec
    BY DEF EngineRec, Names
  <2> QED BY <1>1, <2>1, <2>2 DEF EngineExits
<1>2. CASE StartMonitor
  BY <1>2 DEF StartMonitor, MonRec
<1>3. CASE \E p \in MaybePids : Probe(p)
  <2>1. PICK p \in MaybePids : Probe(p)
    BY <1>3
  <2>2. mon' \in MonRec
    BY <2>1, MonTypes DEF Probe
  <2> QED BY <2>1, <2>2 DEF Probe
<1>4. CASE ReadName
  BY <1>4 DEF ReadName, MonRec, StatusRec
<1>5. CASE ReportUp
  <2>1. mon.seen \in MaybePids /\ mon.name \in Names /\ mon' \in MonRec
    BY <1>5 DEF ReportUp, MonRec, MaybePids, Names
  <2> QED BY <1>5, <2>1, StatusTypes DEF ReportUp
<1>6. CASE ReportDown
  <2>1. mon' \in MonRec /\ NoPid \in MaybePids /\ NoName \in Names
    BY <1>6 DEF ReportDown, MonRec, MaybePids, Names
  <2> QED BY <1>6, <2>1, StatusTypes DEF ReportDown
<1> QED
  BY <1>1, <1>2, <1>3, <1>4, <1>5, <1>6 DEF OtherStep, MonitorStep

-----------------------------------------------------------------------------
(* What a step does to the program counters.                               *)

LEMMA PcAfter ==
    ASSUME call \in [Threads -> CallRec], NEW t \in Threads
    PROVE  /\ \A pc : Goto(t, pc) =>
                  /\ call'[t].pc = pc
                  /\ \A u \in Threads \ {t} : call'[u].pc = call[u].pc
           /\ \A r : Finish(t, r) =>
                  /\ call'[t].pc = "done"
                  /\ \A u \in Threads \ {t} : call'[u].pc = call[u].pc
BY DEF Goto, Finish, CallRec

(* The outcomes of one thread's step, as the invariants see them: what     *)
(* changes is the thread's place and, per action, a few fields.            *)
LEMMA OutsideStep ==
    ASSUME IInv, NEW t \in Threads,
           Return(t) \/ CallStop(t) \/ (\E s \in Strategies : CallStart(t, s)) \/ Retry(t)
    PROVE  /\ UNCHANGED <<os, lock, runner, rt>>
           /\ call[t].pc \in {"idle", "done", "pause"}
           /\ call'[t].pc \in {"idle", "enter"}
           /\ \A u \in Threads \ {t} : call'[u].pc = call[u].pc
<1> USE DEF IInv, TypeOK, At, NoCall
<1>1. CASE Return(t) BY <1>1 DEF Return
<1>2. CASE CallStop(t) BY <1>2 DEF CallStop
<1>3. CASE \E s \in Strategies : CallStart(t, s) BY <1>3 DEF CallStart
<1>4. CASE Retry(t) BY <1>4, PcAfter DEF Retry
<1> QED BY <1>1, <1>2, <1>3, <1>4

LEMMA AfterConfirmDown ==
    ASSUME call \in [Threads -> CallRec], NEW t \in Threads, ConfirmDown(t)
    PROVE  /\ call'[t].pc \in {"pause", "done"}
           /\ \A u \in Threads \ {t} : call'[u].pc = call[u].pc
<1>1. CASE ProcState = "busy" /\ call[t].attempt < DriverRetries
  BY <1>1 DEF ConfirmDown, CallRec
<1>2. CASE ~ (ProcState = "busy" /\ call[t].attempt < DriverRetries)
  BY <1>2, PcAfter DEF ConfirmDown
<1> QED BY <1>1, <1>2

LEMMA LockOwnerStep ==
    ASSUME IInv, NEW t \in Threads, RunnerStep(t)
    PROVE  LockOwner'
<1> USE EngineAssumption DEF LockOwner, HoldsLock
<1>0. call \in [Threads -> CallRec] /\ LockOwner
  BY DEF IInv, TypeOK
<1>1. CASE Enter(t) BY <1>0, <1>1, PcAfter DEF Enter, At
<1>2. CASE KillEngines(t) BY <1>0, <1>2, PcAfter DEF KillEngines, At
<1>3. CASE FinishStop(t) BY <1>0, <1>3, PcAfter DEF FinishStop, At
<1>4. CASE Cooldown(t) BY <1>0, <1>4, PcAfter DEF Cooldown, At
<1>5. CASE Announce(t) BY <1>0, <1>5, PcAfter DEF Announce, At
<1>6. CASE Spawn(t) BY <1>0, <1>6, PcAfter DEF Spawn, At
<1>7. CASE SpawnFails(t) BY <1>0, <1>7, PcAfter DEF SpawnFails, At
<1>8. CASE ConfirmUp(t) BY <1>0, <1>8, PcAfter DEF ConfirmUp, Wakes, At
<1>9. CASE ConfirmDown(t) BY <1>0, <1>9, AfterConfirmDown DEF ConfirmDown, Wakes, At
<1>10. CASE ConfirmRaises(t) BY <1>0, <1>10, PcAfter DEF ConfirmRaises, Wakes, At
<1>11. CASE Return(t) \/ CallStop(t) \/ (\E s \in Strategies : CallStart(t, s)) \/ Retry(t)
  BY <1>0, <1>11, OutsideStep
<1> QED
  BY <1>1, <1>2, <1>3, <1>4, <1>5, <1>6, <1>7, <1>8, <1>9, <1>10, <1>11 DEF RunnerStep, Step

(* While one thread is in a critical section, or the lock is free, no other *)
(* thread is in one.                                                        *)
LEMMA Exclusive ==
    ASSUME IInv, NEW t \in Threads, call[t].pc \in HoldsLock \/ lock = NoThread
    PROVE  \A u \in Threads \ {t} : call[u].pc \notin HoldsLock
BY EngineAssumption DEF IInv, LockOwner

(* What a step can do to the set of engines. *)
LEMMA AliveAfter ==
    ASSUME TypeOK
    PROVE  /\ \A t \in Threads : KillEngines(t) =>
                  /\ ~ KillMayFail => Alive' = {}
                  /\ Alive' \subseteq Alive
                  /\ \A p \in Alive' : os'[p] = os[p]
           /\ \A t \in Threads : Spawn(t) =>
                  \E p \in Pids : /\ Alive' = Alive \cup {p}
                                  /\ runner'.proc = p /\ runner'.piped
                                  /\ runner'.phase = runner.phase
                                  /\ os' = [os EXCEPT ![p] =
                                              [state |-> "up", name |-> call[t].name]]
           /\ \A p \in Pids : EngineExits(p) =>
                  /\ Alive' = Alive \ {p}
                  /\ \A q \in Alive' : os'[q] = os[q]
<1> USE DEF TypeOK
<1>1. ASSUME NEW t \in Threads, KillEngines(t)
      PROVE  /\ ~ KillMayFail => Alive' = {}
             /\ Alive' \subseteq Alive
             /\ \A p \in Alive' : os'[p] = os[p]
  <2>1. PICK survivors \in IF KillMayFail THEN SUBSET Alive ELSE {{}} :
            os' = [p \in Pids |-> IF p \in survivors THEN os[p] ELSE Absent]
    BY <1>1 DEF KillEngines
  <2>2. \A p \in Pids : os'[p] = IF p \in survivors THEN os[p] ELSE Absent
    BY <2>1
  <2>3. Absent.state # "up"
    BY DEF Absent
  <2> QED BY <2>1, <2>2, <2>3 DEF Alive
<1>2. ASSUME NEW t \in Threads, Spawn(t)
      PROVE  \E p \in Pids : /\ Alive' = Alive \cup {p}
                             /\ runner'.proc = p /\ runner'.piped
                             /\ runner'.phase = runner.phase
                             /\ os' = [os EXCEPT ![p] =
                                         [state |-> "up", name |-> call[t].name]]
  <2>1. PICK p \in Pids :
            /\ os' = [os EXCEPT ![p] = [state |-> "up", name |-> call[t].name]]
            /\ runner' = [runner EXCEPT !.proc = p, !.piped = TRUE]
    BY <1>2 DEF Spawn
  <2>2. runner'.proc = p /\ runner'.piped /\ runner'.phase = runner.phase
    BY <2>1 DEF RunnerRec
  <2>3. Alive' = Alive \cup {p}
    BY <2>1 DEF Alive
  <2> QED BY <2>1, <2>2, <2>3
<1>3. ASSUME NEW p \in Pids, EngineExits(p)
      PROVE  Alive' = Alive \ {p} /\ \A q \in Alive' : os'[q] = os[q]
  <2>1. PICK cause \in {"exited", "busy", "absent"} :
            os' = [os EXCEPT ![p] = [state |-> cause, name |-> NoName]]
    BY <1>3 DEF EngineExits
  <2> QED BY <2>1 DEF Alive
<1> QED BY <1>1, <1>2, <1>3

LEMMA ProgressStep ==
    ASSUME IInv, NEW t \in Threads, RunnerStep(t)
    PROVE  Progress'
<1> USE DEF Progress, At
<1>0. /\ call \in [Threads -> CallRec] /\ runner \in RunnerRec /\ TypeOK
      /\ Progress
  BY DEF IInv, TypeOK
<1>h. HoldsLock = {"kill", "clear", "cooldown", "announce", "spawn"}
  BY DEF HoldsLock
<1>1. CASE Enter(t)
  <2>1. runner'.phase = "stopping"
    BY <1>0, <1>1 DEF Enter, RunnerRec
  <2> QED BY <1>0, <1>1, <1>h, <2>1, PcAfter, Exclusive DEF Enter
<1>2. CASE KillEngines(t)
  <2>1. runner'.phase = runner.phase /\ runner'.proc = NoPid
    BY <1>0, <1>2 DEF KillEngines, RunnerRec
  <2> QED BY <1>0, <1>2, <1>h, <2>1, PcAfter, Exclusive, AliveAfter DEF KillEngines
<1>3. CASE FinishStop(t)
  <2>1. runner'.phase = "idle" /\ runner'.proc = runner.proc /\ Alive' = Alive
    BY <1>0, <1>3 DEF FinishStop, RunnerRec, Alive
  <2> QED BY <1>0, <1>3, <1>h, <2>1, PcAfter, Exclusive DEF FinishStop
<1>4. CASE Cooldown(t)
  BY <1>0, <1>4, <1>h, PcAfter, Exclusive DEF Cooldown
<1>5. CASE Announce(t)
  <2>1. runner'.phase = "starting" /\ runner'.proc = runner.proc /\ Alive' = Alive
    BY <1>0, <1>5 DEF Announce, RunnerRec, Alive
  <2> QED BY <1>0, <1>5, <1>h, <2>1, PcAfter, Exclusive DEF Announce
<1>6. CASE Spawn(t)
  BY <1>0, <1>6, <1>h, PcAfter, Exclusive DEF Spawn
<1>7. CASE SpawnFails(t)
  BY <1>0, <1>7, <1>h, PcAfter, Exclusive DEF SpawnFails
<1>8. CASE ConfirmUp(t)
  BY <1>0, <1>8, <1>h, PcAfter, Exclusive DEF ConfirmUp, Wakes
<1>9. CASE ConfirmDown(t)
  BY <1>0, <1>9, <1>h, AfterConfirmDown, Exclusive DEF ConfirmDown, Wakes
<1>10. CASE ConfirmRaises(t)
  BY <1>0, <1>10, <1>h, PcAfter DEF ConfirmRaises, Wakes, Alive
<1>11. CASE Return(t) \/ CallStop(t) \/ (\E s \in Strategies : CallStart(t, s)) \/ Retry(t)
  BY <1>0, <1>11, <1>h, OutsideStep DEF Alive
<1> QED
  BY <1>1, <1>2, <1>3, <1>4, <1>5, <1>6, <1>7, <1>8, <1>9, <1>10, <1>11 DEF RunnerStep, Step

LEMMA EnginesStep ==
    ASSUME IInv, NEW t \in Threads, RunnerStep(t)
    PROVE  OneEngine' /\ NoLostEngine'
<1> USE DEF OneEngine, NoLostEngine
<1>0. TypeOK /\ OneEngine /\ NoLostEngine
  BY DEF IInv
<1>1. CASE UNCHANGED <<os, runner.proc>>
  BY <1>0, <1>1 DEF Alive
<1>2. CASE KillEngines(t)
  BY <1>0, <1>2, AliveAfter
<1>3. CASE Spawn(t)
  <2>1. ~ KillMayFail => Alive = {}
    BY <1>3 DEF Spawn, IInv, Progress, At, HoldsLock
  <2> QED BY <1>0, <1>3, <2>1, AliveAfter
<1>4. CASE ConfirmDown(t)
  <2>1. runner.proc \notin Alive
    BY <1>4, <1>0, EngineAssumption DEF ConfirmDown, ProcState, Alive
  <2>2. Alive' = Alive /\ os' = os
    BY <1>4 DEF ConfirmDown, Alive
  <2> QED BY <1>0, <2>1, <2>2
<1>5. CASE Enter(t) \/ FinishStop(t) \/ Cooldown(t) \/ Announce(t) \/ SpawnFails(t)
           \/ ConfirmUp(t) \/ ConfirmRaises(t)
  <2>1. runner \in RunnerRec
    BY <1>0 DEF TypeOK
  <2> QED
    BY <1>1, <1>5, <2>1 DEF Enter, FinishStop, Cooldown, Announce, SpawnFails, ConfirmUp,
       ConfirmRaises, RunnerRec
<1>6. CASE Return(t) \/ CallStop(t) \/ (\E s \in Strategies : CallStart(t, s)) \/ Retry(t)
  BY <1>1, <1>6, OutsideStep
<1> QED BY <1>1, <1>2, <1>3, <1>4, <1>5, <1>6 DEF RunnerStep, Step

LEMMA RunnerCoherentStep ==
    ASSUME IInv, NEW t \in Threads, RunnerStep(t)
    PROVE  RunnerCoherent'
<1> USE EngineAssumption DEF RunnerCoherent
<1>0. /\ runner \in RunnerRec /\ RunnerCoherent /\ TypeOK /\ Progress
      /\ At(t, "kill") \/ At(t, "clear") \/ At(t, "announce") => lock = t
      /\ At(t, "cooldown") => runner.phase = "idle" /\ runner.proc = NoPid
      /\ At(t, "spawn") => runner.phase = "starting" /\ runner.proc = NoPid
  BY DEF IInv, TypeOK, Progress, LockOwner, HoldsLock, At
<1>1. CASE Enter(t) \/ KillEngines(t) \/ FinishStop(t) \/ Announce(t)
  <2>1. lock' = t
    BY <1>0, <1>1 DEF Enter, KillEngines, FinishStop, Announce
  <2> QED BY <2>1
<1>2. CASE Cooldown(t)
  BY <1>0, <1>2 DEF Cooldown
<1>3. CASE Spawn(t)
  <2>1. runner'.phase = "starting" /\ runner'.proc \in Pids
    BY <1>0, <1>3, AliveAfter DEF Spawn
  <2> QED BY <2>1
<1>4. CASE SpawnFails(t)
  <2>1. runner'.phase = "failed" /\ runner'.proc = NoPid
    BY <1>0, <1>4 DEF SpawnFails, RunnerRec
  <2> QED BY <2>1
<1>5. CASE ConfirmUp(t)
  <2>1. runner'.phase = "running" /\ runner'.proc # NoPid
    BY <1>0, <1>5 DEF ConfirmUp, ProcState, RunnerRec
  <2> QED BY <2>1
<1>6. CASE ConfirmDown(t)
  <2>1. runner'.phase = "failed" /\ runner'.proc = NoPid
    BY <1>0, <1>6 DEF ConfirmDown, RunnerRec
  <2> QED BY <2>1
<1>7. CASE ConfirmRaises(t)
  BY <1>0, <1>7 DEF ConfirmRaises, Wakes
<1>8. CASE Return(t) \/ CallStop(t) \/ (\E s \in Strategies : CallStart(t, s)) \/ Retry(t)
  BY <1>0, <1>8, OutsideStep
<1> QED
  BY <1>1, <1>2, <1>3, <1>4, <1>5, <1>6, <1>7, <1>8 DEF RunnerStep, Step

(* The phase the runner publishes at each step. *)
LEMMA PhaseAfter ==
    ASSUME TypeOK, NEW t \in Threads
    PROVE  /\ Enter(t) => rt'.phase = "stopping"
           /\ FinishStop(t) => rt'.phase = "idle"
           /\ Announce(t) => rt'.phase = "starting"
           /\ SpawnFails(t) \/ ConfirmDown(t) => rt'.phase = "failed"
           /\ ConfirmUp(t) => rt'.phase = "running"
BY DEF TypeOK, StatusRec, Enter, FinishStop, Announce, SpawnFails, ConfirmDown, ConfirmUp,
   MarkStarting, MarkRunning, MarkStopping, MarkStopped, MarkFailed

LEMMA PipeClosedStep ==
    ASSUME IInv, NEW t \in Threads, RunnerStep(t)
    PROVE  PipeClosed'
<1> USE EngineAssumption DEF PipeClosed
<1>0. /\ runner \in RunnerRec /\ PipeClosed /\ TypeOK
      /\ At(t, "announce") => runner.proc = NoPid
  BY DEF IInv, TypeOK, Progress, HoldsLock, At
<1>1. CASE KillEngines(t)
  BY <1>0, <1>1 DEF KillEngines, RunnerRec
<1>2. CASE Announce(t)
  BY <1>0, <1>2 DEF Announce, RunnerRec
<1>3. CASE Spawn(t)
  BY <1>0, <1>3, AliveAfter
<1>4. CASE Enter(t) \/ FinishStop(t) \/ SpawnFails(t) \/ ConfirmUp(t) \/ ConfirmDown(t)
  BY <1>0, <1>4, PhaseAfter
<1>5. CASE Cooldown(t) \/ ConfirmRaises(t)
  BY <1>0, <1>5 DEF Cooldown, ConfirmRaises
<1>6. CASE Return(t) \/ CallStop(t) \/ (\E s \in Strategies : CallStart(t, s)) \/ Retry(t)
  BY <1>0, <1>6, OutsideStep
<1> QED BY <1>1, <1>2, <1>3, <1>4, <1>5, <1>6 DEF RunnerStep, Step

LEMMA TransientHasOwnerStep ==
    ASSUME IInv, NEW t \in Threads, RunnerStep(t)
    PROVE  TransientHasOwner'
<1> USE DEF TransientHasOwner, At
<1>0. /\ call \in [Threads -> CallRec] /\ TransientHasOwner /\ TypeOK
  BY DEF IInv, TypeOK
<1>1. CASE Enter(t)
  BY <1>0, <1>1, PhaseAfter, PcAfter DEF Enter
<1>2. CASE KillEngines(t)
  BY <1>0, <1>2, PcAfter DEF KillEngines
<1>3. CASE FinishStop(t)
  BY <1>0, <1>3, PhaseAfter
<1>4. CASE Cooldown(t)
  BY <1>0, <1>4, PcAfter DEF Cooldown
<1>5. CASE Announce(t)
  BY <1>0, <1>5, PhaseAfter, PcAfter DEF Announce
<1>6. CASE Spawn(t)
  BY <1>0, <1>6, PcAfter DEF Spawn
<1>7. CASE SpawnFails(t) \/ ConfirmUp(t) \/ ConfirmDown(t)
  BY <1>0, <1>7, PhaseAfter
<1>8. CASE ConfirmRaises(t)
  <2>1. runner.proc # NoPid /\ ~ runner.piped /\ rt' = rt /\ lock = NoThread
    BY <1>8 DEF ConfirmRaises, Wakes, ProcState
  <2>2. rt.phase # "starting"
    BY <2>1 DEF IInv, PipeClosed
  <2>3. rt.phase # "stopping"
    <3>1. \A u \in Threads : call[u].pc \notin {"kill", "clear"}
      BY <2>1, EngineAssumption DEF IInv, LockOwner, HoldsLock
    <3> QED BY <1>0, <3>1
  <2> QED BY <2>1, <2>2, <2>3
<1>9. CASE Return(t) \/ CallStop(t) \/ (\E s \in Strategies : CallStart(t, s)) \/ Retry(t)
  BY <1>0, <1>9, OutsideStep
<1> QED
  BY <1>1, <1>2, <1>3, <1>4, <1>5, <1>6, <1>7, <1>8, <1>9 DEF RunnerStep, Step

(* The operating system and the monitor touch neither lock, runner nor      *)
(* callers; they can only take an engine away and correct a settled status. *)
LEMMA InvariantStepOther ==
    ASSUME IInv, OtherStep
    PROVE  IInv'
<1>1. UNCHANGED <<lock, runner, call>>
  BY DEF OtherStep, MonitorStep, EngineExits, StartMonitor, Probe, ReadName, ReportUp,
     ReportDown
<1>2. Alive' \subseteq Alive /\ \A p \in Alive' : os'[p] = os[p]
  <2>1. CASE \E p \in Pids : EngineExits(p)
    BY <2>1, AliveAfter DEF IInv
  <2>2. CASE StartMonitor \/ MonitorStep
    BY <2>2 DEF StartMonitor, MonitorStep, Probe, ReadName, ReportUp, ReportDown, Alive
  <2> QED BY <2>1, <2>2 DEF OtherStep
<1>3. \/ rt' = rt
      \/ rt.phase \notin {"starting", "stopping"} /\ rt'.phase \notin {"starting", "stopping"}
  <2>1. CASE ReportUp
    <3>1. rt' = SyncUp(mon.seen, mon.name)
      BY <2>1 DEF ReportUp
    <3>2. CASE rt.phase \in {"starting", "stopping"}
      BY <3>1, <3>2 DEF SyncUp
    <3>3. CASE rt.phase \notin {"starting", "stopping"}
      <4>1. rt'.phase = "running"
        BY <3>1, <3>3 DEF SyncUp
      <4> QED BY <3>3, <4>1
    <3> QED BY <3>2, <3>3
  <2>2. CASE ReportDown
    BY <2>2 DEF ReportDown, SyncDown, MarkStopped
  <2>3. CASE (\E p \in Pids : EngineExits(p)) \/ StartMonitor \/ ReadName
               \/ \E p \in MaybePids : Probe(p)
    BY <2>3 DEF EngineExits, StartMonitor, Probe, ReadName
  <2> QED BY <2>1, <2>2, <2>3 DEF OtherStep, MonitorStep
<1>4. TypeOK'
  BY TypeStepOther DEF IInv
<1>5. LockOwner' /\ Progress' /\ RunnerCoherent'
  BY <1>1, <1>2 DEF IInv, LockOwner, Progress, RunnerCoherent, At
<1>6. OneEngine' /\ NoLostEngine'
  BY <1>1, <1>2 DEF IInv, OneEngine, NoLostEngine
<1>7. PipeClosed' /\ TransientHasOwner'
  BY <1>1, <1>3 DEF IInv, PipeClosed, TransientHasOwner
<1> QED BY <1>4, <1>5, <1>6, <1>7 DEF IInv

LEMMA InvariantInit ==
    ASSUME Init
    PROVE  IInv
<1> USE EngineAssumption DEF Init
<1>1. PICK orphan \in {{}} \cup {{p} : p \in Pids} :
          os = [p \in Pids |-> IF p \in orphan THEN [state |-> "up", name |-> NoName]
                               ELSE Absent]
  OBVIOUS
<1>2. \A p \in Pids : /\ os[p].name = NoName
                      /\ os[p].state = "up" <=> p \in orphan
  BY <1>1 DEF Absent
<1>3. TypeOK
  <2>1. os \in [Pids -> EngineRec]
    BY <1>1 DEF Absent, EngineRec, Names
  <2>2. NoCall \in CallRec
    BY DEF NoCall, CallRec, CallPcs, Names
  <2>3. runner \in RunnerRec /\ rt \in StatusRec
    BY DEF RunnerRec, StatusRec, MarkStopped, MaybePids, Names, Phases
  <2>4. mon \in MonRec
    BY DEF MonRec, MaybePids, Names
  <2> QED BY <2>1, <2>2, <2>3, <2>4 DEF TypeOK
<1>4. OneEngine /\ NoLostEngine
  BY <1>2 DEF OneEngine, NoLostEngine, Alive
<1>5. LockOwner /\ Progress /\ PipeClosed /\ RunnerCoherent /\ TransientHasOwner
  BY DEF LockOwner, Progress, PipeClosed, RunnerCoherent, TransientHasOwner, NoCall, At,
     HoldsLock, MarkStopped
<1> QED BY <1>3, <1>4, <1>5 DEF IInv

LEMMA InvariantNext ==
    ASSUME IInv, [Next]_vars
    PROVE  IInv'
<1>1. ASSUME NEW t \in Threads, RunnerStep(t) PROVE IInv'
  BY <1>1, TypeStepRunner, LockOwnerStep, ProgressStep, PipeClosedStep, EnginesStep,
     RunnerCoherentStep, TransientHasOwnerStep DEF IInv
<1>2. CASE OtherStep
  BY <1>2, InvariantStepOther
<1>3. CASE UNCHANGED vars
  BY <1>3 DEF vars, IInv, TypeOK, LockOwner, Progress, PipeClosed, OneEngine, NoLostEngine,
     RunnerCoherent, TransientHasOwner, Alive, At
<1>4. Next => (\E t \in Threads : RunnerStep(t)) \/ OtherStep
  BY EngineAssumption DEF Next, RunnerStep, OtherStep
<1> QED BY <1>1, <1>2, <1>3, <1>4

-----------------------------------------------------------------------------
(* Every record of the launcher keeps its shape: the attempt count of a     *)
(* driver-busy retry and the monitor's misses stay within their bounds.     *)
THEOREM TypeCorrect == Spec => []TypeOK
<1>1. Init => IInv
  BY InvariantInit
<1>2. IInv /\ [Next]_vars => IInv'
  BY InvariantNext
<1>3. IInv => TypeOK
  BY DEF IInv
<1> QED BY <1>1, <1>2, <1>3, PTL DEF Spec

(* The inductive invariant holds in every reachable state. *)
THEOREM EngineInvariant == Spec => []IInv
<1>1. Init => IInv
  BY InvariantInit
<1>2. IInv /\ [Next]_vars => IInv'
  BY InvariantNext
<1> QED BY <1>1, <1>2, PTL DEF Spec

(* Two engines never filter together, when taskkill works.                  *)
THEOREM NeverTwoEngines == Spec => []OneEngine
<1>1. IInv => OneEngine
  BY DEF IInv
<1> QED BY <1>1, EngineInvariant, PTL

(* Each engine started by this daemon is the one WinwsRunner._proc holds,   *)
(* when taskkill works.                                                     *)
THEOREM NoEngineLost == Spec => []NoLostEngine
<1>1. IInv => NoLostEngine
  BY DEF IInv
<1> QED BY <1>1, EngineInvariant, PTL

(* Whatever the interleaving, and whether or not taskkill works: a free     *)
(* lock means a coherent runner, and a busy status means somebody who will  *)
(* settle it.                                                               *)
THEOREM BusyMeansSomeoneInside == Spec => [](RunnerCoherent /\ TransientHasOwner)
<1>1. IInv => RunnerCoherent /\ TransientHasOwner
  BY DEF IInv
<1> QED BY <1>1, EngineInvariant, PTL

-----------------------------------------------------------------------------
(* The status names the engine that runs.  The argument needs one start at *)
(* a time: then the name the runner announces is that of its child from    *)
(* the spawn on, and the monitor, which may still hold the name of an      *)
(* earlier engine, has probed again before the start is confirmed.         *)

Starting(t) == call[t].pc \notin {"idle", "done"} /\ call[t].op = "start"

OneStarter == \A t, u \in Threads : Starting(t) /\ Starting(u) => t = u

(* Only a start announces, spawns, waits and pauses, and it has a name. *)
CallOps ==
    \A t \in Threads :
        /\ call[t].op = "start" => call[t].name \in Strategies
        /\ call[t].pc \in {"announce", "spawn", "wait", "pause"} => call[t].op = "start"
        /\ call[t].pc = "cooldown" => call[t].op = "stop"

(* Between its announcement and its spawn nobody renames a start, and       *)
(* while it waits the engine, if there still is one, is its own.            *)
StartShown ==
    \A t \in Threads :
        /\ At(t, "spawn") => rt.phase = "starting" /\ rt.name = call[t].name
        /\ At(t, "wait") =>
              \A p \in Alive : /\ rt.phase \in {"starting", "stopping"}
                               /\ os[p].name = call[t].name

(* A monitor that has probed since the last spawn holds no other name.      *)
Sampled == \A t \in Threads : At(t, "wait") => t \in sampled

MonitorInStep ==
    Sampled /\ mon.pc # "off" =>
        \A p \in Alive : /\ mon.pc # "down"
                         /\ mon.pc = "up" => mon.name \in {NoName, os[p].name}

StatusInv ==
    /\ CallOps /\ StartShown /\ MonitorInStep
    /\ \A p \in Alive : rt.name = os[p].name

(* What a step leaves of a call: its operation and name, and the others'.   *)
SameCall(t) ==
    /\ call'[t].op = call[t].op /\ call'[t].name = call[t].name
    /\ \A u \in Threads \ {t} : call'[u] = call[u]

LEMMA CallAfter ==
    ASSUME call \in [Threads -> CallRec], NEW t \in Threads
    PROVE  /\ \A pc : Goto(t, pc) => SameCall(t) /\ call'[t].pc = pc
           /\ \A r : Finish(t, r) =>
                  SameCall(t) /\ call'[t].pc = "done" /\ call'[t].result = r
           /\ ConfirmDown(t) =>
                  /\ SameCall(t) /\ call'[t].pc \in {"pause", "done"}
                  /\ call'[t].pc = "done" => call'[t].result = "failed"
<1>1. \A pc : Goto(t, pc) => SameCall(t) /\ call'[t].pc = pc
  BY DEF Goto, CallRec, SameCall
<1>2. \A r : Finish(t, r) => SameCall(t) /\ call'[t].pc = "done" /\ call'[t].result = r
  BY DEF Finish, CallRec, SameCall
<1>3. ASSUME ConfirmDown(t)
      PROVE  /\ SameCall(t) /\ call'[t].pc \in {"pause", "done"}
             /\ call'[t].pc = "done" => call'[t].result = "failed"
  <2>1. CASE ProcState = "busy" /\ call[t].attempt < DriverRetries
    BY <1>3, <2>1 DEF ConfirmDown, CallRec, SameCall
  <2>2. CASE ~ (ProcState = "busy" /\ call[t].attempt < DriverRetries)
    BY <1>3, <2>2, <1>2 DEF ConfirmDown
  <2> QED BY <2>1, <2>2
<1> QED BY <1>1, <1>2, <1>3

LEMMA CallOpsStep ==
    ASSUME IInv, CallOps, NEW t \in Threads, RunnerStep(t)
    PROVE  CallOps'
<1> USE DEF CallOps, At
<1>0. call \in [Threads -> CallRec]
  BY DEF IInv, TypeOK
<1>1. ASSUME SameCall(t),
             call'[t].pc \in {"announce", "spawn", "wait", "pause"} => call[t].op = "start",
             call'[t].pc = "cooldown" => call[t].op = "stop"
      PROVE  CallOps'
  BY <1>1 DEF SameCall
<1>2. CASE Enter(t) \/ KillEngines(t) \/ Retry(t)
  BY <1>0, <1>1, <1>2, CallAfter DEF Enter, KillEngines, Retry
<1>3. CASE FinishStop(t)
  <2>1. call[t].op \in {"start", "stop"}
    BY <1>0 DEF CallRec
  <2> QED BY <1>0, <1>1, <1>3, <2>1, CallAfter DEF FinishStop
<1>4. CASE Announce(t) \/ Spawn(t)
  <2>1. call[t].pc \in {"announce", "spawn"} /\ \E pc \in {"spawn", "wait"} : Goto(t, pc)
    BY <1>4 DEF Announce, Spawn
  <2> QED BY <1>0, <1>1, <2>1, CallAfter
<1>5. CASE Cooldown(t) \/ SpawnFails(t) \/ ConfirmUp(t) \/ ConfirmRaises(t)
  BY <1>0, <1>1, <1>5, CallAfter DEF Cooldown, SpawnFails, ConfirmUp, ConfirmRaises
<1>6. CASE ConfirmDown(t)
  BY <1>0, <1>1, <1>6, CallAfter DEF ConfirmDown, Wakes
<1>7. CASE Return(t)
  BY <1>0, <1>7 DEF Return, NoCall
<1>8. CASE CallStop(t)
  BY <1>0, <1>8 DEF CallStop, NoCall
<1>9. CASE \E s \in Strategies : CallStart(t, s)
  BY <1>0, <1>9 DEF CallStart, NoCall
<1> QED BY <1>2, <1>3, <1>4, <1>5, <1>6, <1>7, <1>8, <1>9, RunnerStep(t) DEF RunnerStep, Step

(* With no engine left there is nothing for the status to misname.          *)
LEMMA EmptyStatus ==
    ASSUME CallOps', Alive' = {},
           \A u \in Threads : call'[u].pc = "spawn" =>
               rt'.phase = "starting" /\ rt'.name = call'[u].name
    PROVE  StatusInv'
BY DEF StatusInv, StartShown, MonitorInStep, At

(* A thread in the critical section past its kill has emptied the machine.  *)
LEMMA StatusLocked ==
    ASSUME IInv, StatusInv, ~ KillMayFail, NEW t \in Threads,
           KillEngines(t) \/ FinishStop(t) \/ Cooldown(t) \/ Announce(t) \/ SpawnFails(t)
    PROVE  StatusInv'
<1> USE DEF At
<1>0. call \in [Threads -> CallRec] /\ TypeOK
  BY DEF IInv, TypeOK
<1>1. CallOps'
  BY CallOpsStep DEF StatusInv, RunnerStep, Step
<1>2. Alive' = {}
  <2>1. CASE KillEngines(t)
    BY <1>0, <2>1, AliveAfter
  <2>2. CASE FinishStop(t) \/ Cooldown(t) \/ Announce(t) \/ SpawnFails(t)
    <3>1. Alive = {} /\ os' = os
      BY <2>2 DEF IInv, Progress, HoldsLock, FinishStop, Cooldown, Announce, SpawnFails
    <3> QED BY <3>1 DEF Alive
  <2> QED BY <2>1, <2>2
<1>3. \A u \in Threads \ {t} : call[u].pc # "spawn" /\ call'[u] = call[u]
  <2>1. call[t].pc \in HoldsLock
    BY DEF KillEngines, FinishStop, Cooldown, Announce, SpawnFails, HoldsLock
  <2>2. SameCall(t)
    BY <1>0, CallAfter DEF KillEngines, FinishStop, Cooldown, Announce, SpawnFails
  <2> QED BY <2>1, <2>2, Exclusive DEF HoldsLock, SameCall
<1>4. call'[t].pc = "spawn" => rt'.phase = "starting" /\ rt'.name = call'[t].name
  <2>1. CASE Announce(t)
    <3>1. rt' = MarkStarting(call[t].name) /\ call'[t].name = call[t].name
      BY <1>0, <2>1, CallAfter DEF Announce, SameCall
    <3> QED BY <3>1 DEF MarkStarting
  <2>2. CASE KillEngines(t) \/ FinishStop(t) \/ Cooldown(t) \/ SpawnFails(t)
    BY <1>0, <2>2, CallAfter DEF KillEngines, FinishStop, Cooldown, SpawnFails
  <2> QED BY <2>1, <2>2
<1> QED BY <1>1, <1>2, <1>3, <1>4, EmptyStatus

LEMMA StatusSpawn ==
    ASSUME IInv, StatusInv, ~ KillMayFail, OneStarter, NEW t \in Threads, Spawn(t)
    PROVE  StatusInv'
<1> USE DEF At
<1>0. call \in [Threads -> CallRec] /\ TypeOK
  BY DEF IInv, TypeOK
<1>1. CallOps'
  BY CallOpsStep DEF StatusInv, RunnerStep, Step
<1>2. /\ SameCall(t) /\ call[t].pc = "spawn" /\ call'[t].pc = "wait"
      /\ rt' = rt /\ t \notin sampled'
      /\ rt.phase = "starting" /\ rt.name = call[t].name
  BY <1>0, CallAfter DEF Spawn, StatusInv, StartShown
<1>3. \A u \in Threads \ {t} : call'[u].pc \notin {"spawn", "wait"}
  BY <1>2 DEF StatusInv, CallOps, OneStarter, Starting, SameCall
<1>4. \A p \in Alive' : os'[p].name = call[t].name
  <2>1. Alive = {}
    BY <1>2 DEF IInv, Progress, HoldsLock
  <2>2. PICK p \in Pids : /\ Alive' = {p}
                          /\ os' = [os EXCEPT ![p] = [state |-> "up", name |-> call[t].name]]
    BY <2>1, <1>0, AliveAfter
  <2> QED BY <2>2, <1>0 DEF TypeOK
<1>5. StartShown' /\ MonitorInStep'
  BY <1>2, <1>3, <1>4 DEF StartShown, MonitorInStep, Sampled, SameCall
<1> QED BY <1>1, <1>2, <1>4, <1>5 DEF StatusInv

(* A start wakes: its engine runs and is reported by its name, or none does. *)
LEMMA StatusWakes ==
    ASSUME IInv, StatusInv, ~ KillMayFail, MonitorKeepsUp, OneStarter, NEW t \in Threads,
           ConfirmUp(t) \/ ConfirmDown(t) \/ ConfirmRaises(t)
    PROVE  StatusInv'
<1> USE DEF At
<1>0. call \in [Threads -> CallRec] /\ TypeOK
  BY DEF IInv, TypeOK
<1>1. CallOps'
  BY CallOpsStep DEF StatusInv, RunnerStep, Step
<1>2. /\ SameCall(t) /\ call[t].pc = "wait" /\ call'[t].pc \in {"pause", "done"}
      /\ lock = NoThread /\ os' = os /\ mon' = mon /\ sampled' = sampled \ {t}
      /\ mon.pc # "off" => t \in sampled
  BY <1>0, CallAfter DEF ConfirmUp, ConfirmDown, ConfirmRaises, Wakes
<1>3. /\ Alive' = Alive
      /\ \A p \in Alive : os[p].name = call[t].name /\ call[t].name # NoName
  BY <1>2, EngineAssumption DEF StatusInv, StartShown, CallOps, Alive
<1>4. \A u \in Threads : call'[u].pc \notin {"spawn", "wait"}
  BY <1>2 DEF StatusInv, CallOps, OneStarter, Starting, SameCall
<1>5. CASE ConfirmUp(t)
  <2>1. rt' = MarkRunning(call[t].name, runner.proc)
    BY <1>5 DEF ConfirmUp
  <2>2. rt'.name = call[t].name
    BY <2>1 DEF MarkRunning
  <2>3. mon.pc # "off" => Sampled
    BY <1>2 DEF StatusInv, CallOps, OneStarter, Starting, Sampled
  <2>4. StartShown' /\ MonitorInStep'
    BY <1>2, <1>3, <1>4, <2>3 DEF StartShown, MonitorInStep, StatusInv
  <2> QED BY <1>1, <1>2, <1>3, <2>2, <2>4 DEF StatusInv
<1>6. CASE ConfirmDown(t) \/ ConfirmRaises(t)
  <2>1. ProcState # "up"
    BY <1>6 DEF ConfirmDown, ConfirmRaises
  <2>2. \A p \in Alive : p = runner.proc
    BY <1>3 DEF IInv, NoLostEngine
  <2>3. Alive = {}
    BY <2>1, <2>2, EngineAssumption DEF ProcState, Alive
  <2> QED BY <1>1, <1>3, <1>4, <2>3, EmptyStatus
<1> QED BY <1>5, <1>6

(* Into the critical section the name stays; outside it, everything does.    *)
LEMMA StatusEnters ==
    ASSUME IInv, StatusInv, NEW t \in Threads,
           Enter(t) \/ Retry(t) \/ Return(t) \/ CallStop(t)
             \/ \E s \in Strategies : CallStart(t, s)
    PROVE  StatusInv'
<1> USE DEF At
<1>0. call \in [Threads -> CallRec] /\ TypeOK
  BY DEF IInv, TypeOK
<1>1. CallOps'
  BY CallOpsStep DEF StatusInv, RunnerStep, Step
<1>2. /\ UNCHANGED <<os, mon, sampled>> /\ Alive' = Alive
      /\ call[t].pc \in {"idle", "done", "pause", "enter"}
      /\ call'[t].pc \in {"idle", "enter", "kill"}
      /\ \A u \in Threads \ {t} : call'[u] = call[u]
      /\ \/ rt' = rt
         \/ lock = NoThread /\ rt' = MarkStopping
  <2>1. CASE Enter(t)
    BY <1>0, <2>1, CallAfter DEF Enter, SameCall, Alive
  <2>2. CASE Retry(t)
    BY <1>0, <2>2, CallAfter DEF Retry, SameCall, Alive
  <2>3. CASE Return(t)
    BY <1>0, <2>3 DEF Return, NoCall, Alive
  <2>4. CASE CallStop(t)
    BY <1>0, <2>4 DEF CallStop, NoCall, Alive
  <2>5. CASE \E s \in Strategies : CallStart(t, s)
    BY <1>0, <2>5 DEF CallStart, NoCall, Alive
  <2> QED BY <2>1, <2>2, <2>3, <2>4, <2>5
<1>3. /\ rt'.name = rt.name
      /\ \/ rt' = rt
         \/ rt'.phase = "stopping" /\ \A u \in Threads : call[u].pc # "spawn"
  <2>1. CASE lock = NoThread /\ rt' = MarkStopping
    <3>1. rt'.name = rt.name /\ rt'.phase = "stopping"
      BY <1>0, <2>1 DEF MarkStopping, TypeOK, StatusRec
    <3>2. \A u \in Threads : call[u].pc # "spawn"
      BY <2>1, EngineAssumption DEF IInv, LockOwner, HoldsLock
    <3> QED BY <3>1, <3>2
  <2> QED BY <1>2, <2>1
<1>4. StartShown'
  BY <1>2, <1>3 DEF StatusInv, StartShown
<1>5. MonitorInStep'
  BY <1>2 DEF StatusInv, MonitorInStep, Sampled
<1> QED BY <1>1, <1>2, <1>3, <1>4, <1>5 DEF StatusInv

LEMMA StatusOther ==
    ASSUME IInv, StatusInv, ~ KillMayFail, OtherStep
    PROVE  StatusInv'
<1> USE DEF At
<1>0. TypeOK /\ call' = call
  BY DEF IInv, OtherStep, MonitorStep, EngineExits, StartMonitor, Probe, ReadName, ReportUp,
     ReportDown
<1>1. CallOps'
  BY <1>0 DEF StatusInv, CallOps
<1>2. CASE \E p \in Pids : EngineExits(p)
  <2>1. Alive' = {}
    BY <1>0, <1>2, AliveAfter DEF IInv, OneEngine, EngineExits
  <2>2. rt' = rt
    BY <1>2 DEF EngineExits
  <2> QED BY <1>0, <1>1, <2>1, <2>2, EmptyStatus DEF StatusInv, StartShown
<1>3. ASSUME UNCHANGED <<os, rt>>, MonitorInStep' PROVE StatusInv'
  <2>1. Alive' = Alive
    BY <1>3 DEF Alive
  <2> QED BY <1>0, <1>1, <1>3, <2>1 DEF StatusInv, StartShown
<1>4. CASE StartMonitor
  <2>1. mon'.pc = "probe" /\ UNCHANGED <<os, rt>>
    BY <1>0, <1>4 DEF StartMonitor, TypeOK, MonRec
  <2> QED BY <1>3, <2>1 DEF MonitorInStep
<1>5. ASSUME NEW q \in MaybePids, Probe(q) PROVE StatusInv'
  <2>1. mon \in MonRec /\ UNCHANGED <<os, rt>> /\ Alive' = Alive
    BY <1>0, <1>5 DEF TypeOK, Probe, Alive
  <2>2. /\ mon'.pc \in {"probe", "read", "down"}
        /\ mon'.pc = "down" => q = NoPid
    <3>1. CASE q # NoPid /\ q # mon.last
      BY <1>5, <2>1, <3>1 DEF Probe, MonRec
    <3>2. CASE q # NoPid /\ q = mon.last
      BY <1>5, <2>1, <3>2 DEF Probe, MonRec
    <3>3. CASE q = NoPid
      BY <1>5, <2>1, <3>3 DEF Probe, MonRec
    <3> QED BY <3>1, <3>2, <3>3
  <2>3. q = NoPid => Alive = {}
    BY <1>5, EngineAssumption DEF Probe, Alive
  <2> QED BY <1>3, <2>1, <2>2, <2>3 DEF MonitorInStep
<1>6. CASE ReadName
  <2>1. mon'.pc = "up" /\ mon'.name = rt.name /\ UNCHANGED <<os, rt>> /\ Alive' = Alive
    BY <1>0, <1>6 DEF ReadName, TypeOK, MonRec, Alive
  <2> QED BY <1>3, <2>1 DEF MonitorInStep, StatusInv
<1>7. CASE (ReportUp \/ ReportDown) /\ rt' = rt
  <2>1. mon'.pc = "probe" /\ os' = os
    BY <1>0, <1>7 DEF ReportUp, ReportDown, TypeOK, MonRec
  <2> QED BY <1>3, <1>7, <2>1 DEF MonitorInStep
<1>8. CASE (ReportUp \/ ReportDown) /\ rt' # rt
  <2>1. rt.phase \notin {"starting", "stopping"}
    BY <1>8 DEF ReportUp, ReportDown, SyncUp, SyncDown
  <2>2. mon'.pc = "probe" /\ mon.pc # "off" /\ os' = os /\ Alive' = Alive
    BY <1>0, <1>8 DEF ReportUp, ReportDown, TypeOK, MonRec, Alive
  <2>3. /\ \A u \in Threads : call[u].pc # "spawn"
        /\ Alive # {} => \A u \in Threads : call[u].pc # "wait"
    BY <2>1 DEF StatusInv, StartShown
  <2>4. ASSUME NEW p \in Alive PROVE rt'.name = os[p].name
    <3>1. mon.pc # "down" /\ (mon.pc = "up" => mon.name \in {NoName, os[p].name})
      BY <2>2, <2>3 DEF StatusInv, MonitorInStep, Sampled
    <3>2. ReportUp /\ rt' = SyncUp(mon.seen, mon.name)
      BY <1>8, <3>1 DEF ReportUp, ReportDown
    <3>3. rt'.name = IF mon.name # NoName THEN mon.name ELSE rt.name
      BY <2>1, <3>2 DEF SyncUp
    <3>4. mon.pc = "up" /\ rt.name = os[p].name
      BY <3>2 DEF ReportUp, StatusInv
    <3> QED BY <3>1, <3>3, <3>4
  <2>5. StartShown' /\ MonitorInStep'
    BY <1>0, <2>2, <2>3 DEF StartShown, MonitorInStep
  <2> QED BY <1>1, <2>2, <2>4, <2>5 DEF StatusInv
<1> QED BY <1>2, <1>4, <1>5, <1>6, <1>7, <1>8 DEF OtherStep, MonitorStep

LEMMA StatusInit ==
    ASSUME Init
    PROVE  StatusInv
<1>1. \A t \in Threads : call[t] = NoCall
  BY DEF Init
<1>2. CallOps /\ StartShown
  BY <1>1 DEF NoCall, CallOps, StartShown, At
<1>3. mon.pc \in {"off", "probe"} /\ rt.name = NoName
  BY DEF Init, MarkStopped
<1>4. \A p \in Pids : os[p].name = NoName
  BY DEF Init, Absent
<1> QED BY <1>2, <1>3, <1>4 DEF StatusInv, MonitorInStep, Alive

LEMMA StatusNext ==
    ASSUME IInv, StatusInv, ~ KillMayFail, MonitorKeepsUp, OneStarter, [Next]_vars
    PROVE  StatusInv'
<1>1. ASSUME NEW t \in Threads, RunnerStep(t) PROVE StatusInv'
  BY <1>1, StatusLocked, StatusSpawn, StatusWakes, StatusEnters DEF RunnerStep, Step
<1>2. CASE OtherStep
  BY <1>2, StatusOther
<1>3. CASE UNCHANGED vars
  BY <1>3 DEF vars, StatusInv, CallOps, StartShown, MonitorInStep, Sampled, Alive, At
<1>4. Next => (\E t \in Threads : RunnerStep(t)) \/ OtherStep
  BY EngineAssumption DEF Next, RunnerStep, OtherStep
<1> QED BY <1>1, <1>2, <1>3, <1>4

LEMMA StatusNames == StatusInv => StatusNamesEngine
BY DEF StatusInv, StatusNamesEngine

(* Who may start at all in Engine: with one starter, one start at a time.   *)
StartersStart == \A t \in Threads : call[t].op = "start" => t \in Starters

LEMMA StartersStartNext ==
    ASSUME TypeOK, StartersStart, [Next]_vars
    PROVE  StartersStart'
<1> USE DEF StartersStart
<1>0. call \in [Threads -> CallRec]
  BY DEF TypeOK
<1>1. ASSUME NEW t \in Threads, Step(t) PROVE StartersStart'
  <2>1. SameCall(t)
    BY <1>0, <1>1, CallAfter DEF Step, Enter, KillEngines, FinishStop, Cooldown, Announce,
       Spawn, SpawnFails, ConfirmUp, ConfirmRaises, Retry
  <2> QED BY <2>1 DEF SameCall
<1>2. ASSUME NEW t \in Threads, Return(t) \/ CallStop(t) PROVE StartersStart'
  BY <1>0, <1>2 DEF Return, CallStop, NoCall
<1>3. ASSUME NEW t \in Starters, NEW s \in Strategies, CallStart(t, s) PROVE StartersStart'
  BY <1>0, <1>3, EngineAssumption DEF CallStart, NoCall
<1>4. CASE (\E p \in Pids : EngineExits(p)) \/ StartMonitor \/ MonitorStep \/ UNCHANGED vars
  BY <1>4 DEF EngineExits, StartMonitor, MonitorStep, Probe, ReadName, ReportUp, ReportDown,
     vars
<1> QED BY <1>1, <1>2, <1>3, <1>4 DEF Next

(* If one thread alone starts engines, taskkill works and every startup     *)
(* wait contains a probe, the status never puts one strategy's name on      *)
(* another's engine, whoever stops it and whenever it exits.                *)
THEOREM StatusNamesTruly ==
    ASSUME ~ KillMayFail, MonitorKeepsUp, \A t, u \in Starters : t = u
    PROVE  Spec => []StatusNamesEngine
<1> DEFINE Inv == StatusInv /\ StartersStart
<1>1. Init => Inv
  BY StatusInit DEF Init, NoCall, StartersStart
<1>2. IInv /\ Inv /\ [Next]_vars => Inv'
  <2>1. StartersStart => OneStarter
    BY DEF StartersStart, OneStarter, Starting
  <2> QED BY <2>1, StatusNext, StartersStartNext DEF IInv
<1>3. Inv => StatusNamesEngine
  BY StatusNames
<1> HIDE DEF Inv
<1> QED BY <1>1, <1>2, <1>3, EngineInvariant, PTL DEF Spec

-----------------------------------------------------------------------------
(* Refinement: the slot holds the name of the engine that is alive.         *)

SlotMatches ==
    /\ \A p \in Alive : InSlot = os[p].name
    /\ InSlot = NoPid <=> Alive = {}
    /\ InSlot \in Names \cup {NoPid}

(* Stated without hypotheses so that it also holds of the next state. *)
LEMMA SlotHolds == TypeOK /\ OneEngine /\ ~ KillMayFail => SlotMatches
<1> SUFFICES ASSUME TypeOK, OneEngine, ~ KillMayFail PROVE SlotMatches
  OBVIOUS
<1>1. \A p \in Alive : InSlot = os[p].name
  <2> SUFFICES ASSUME NEW p \in Alive PROVE InSlot = os[p].name
    OBVIOUS
  <2>1. (CHOOSE q \in Alive : TRUE) \in Alive
    OBVIOUS
  <2>2. (CHOOSE q \in Alive : TRUE) = p
    BY <2>1 DEF OneEngine
  <2> QED BY <2>2 DEF InSlot
<1>2. \A p \in Alive : os[p].name \in Names
  BY DEF Alive, TypeOK, EngineRec
<1>3. NoPid \notin Names
  BY EngineAssumption DEF Names
<1>4. Alive = {} => InSlot = NoPid
  BY DEF InSlot
<1> QED BY <1>1, <1>2, <1>3, <1>4 DEF SlotMatches

LEMMA SlotHoldsNext == (TypeOK /\ OneEngine /\ ~ KillMayFail => SlotMatches)'
BY SlotHolds, PTL

LEMMA SlotStep ==
    ASSUME IInv, IInv', [Next]_vars, ~ KillMayFail
    PROVE  [Slot!Next]_InSlot
<1> USE DEF Slot!Next, Slot!Load, Slot!Unload
<1>0. TypeOK /\ OneEngine /\ TypeOK' /\ OneEngine'
  BY DEF IInv
<1>now. /\ \A p \in Alive : InSlot = os[p].name
        /\ InSlot = NoPid <=> Alive = {}
  BY <1>0, SlotHolds DEF SlotMatches
<1>next. /\ \A p \in Alive' : InSlot' = os'[p].name
         /\ InSlot' = NoPid <=> Alive' = {}
  BY <1>0, SlotHoldsNext DEF SlotMatches
<1>1. CASE os' = os
  BY <1>1 DEF InSlot, Alive
<1>2. ASSUME NEW t \in Threads, KillEngines(t) PROVE [Slot!Next]_InSlot
  <2>1. Alive' = {}
    BY <1>0, <1>2, AliveAfter
  <2> QED BY <2>1, <1>now, <1>next
<1>3. ASSUME NEW t \in Threads, Spawn(t) PROVE [Slot!Next]_InSlot
  <2>1. Alive = {}
    BY <1>3 DEF Spawn, IInv, Progress, At, HoldsLock
  <2>2. PICK p \in Pids : /\ Alive' = {p}
                          /\ os' = [os EXCEPT ![p] = [state |-> "up", name |-> call[t].name]]
    BY <2>1, <1>0, <1>3, AliveAfter
  <2>3. InSlot' = call[t].name /\ call[t].name \in Names
    BY <2>2, <1>next, <1>0, CallTypes DEF TypeOK
  <2> QED BY <2>1, <2>3, <1>now
<1>4. ASSUME NEW p \in Pids, EngineExits(p) PROVE [Slot!Next]_InSlot
  <2>1. Alive' = {} /\ Alive # {}
    BY <1>0, <1>4, AliveAfter DEF OneEngine, EngineExits
  <2> QED BY <2>1, <1>now, <1>next
<1>5. ASSUME NEW t \in Threads, RunnerStep(t) PROVE [Slot!Next]_InSlot
  <2>1. KillEngines(t) \/ Spawn(t) \/ os' = os
    BY <1>5 DEF RunnerStep, Step, Enter, FinishStop, Cooldown, Announce, SpawnFails,
       ConfirmUp, ConfirmDown, ConfirmRaises, Retry, Return, CallStop, CallStart
  <2> QED BY <2>1, <1>1, <1>2, <1>3
<1>6. CASE OtherStep
  <2>1. (\E p \in Pids : EngineExits(p)) \/ os' = os
    BY <1>6 DEF OtherStep, MonitorStep, StartMonitor, Probe, ReadName, ReportUp, ReportDown
  <2> QED BY <2>1, <1>1, <1>4
<1>7. CASE UNCHANGED vars
  BY <1>7, <1>1 DEF vars
<1>8. Next => (\E t \in Threads : RunnerStep(t)) \/ OtherStep
  BY EngineAssumption DEF Next, RunnerStep, OtherStep
<1> QED BY <1>5, <1>6, <1>7, <1>8

(* The launcher implements the one-engine slot for any number of callers,   *)
(* strategies and process ids, provided taskkill does not fail.             *)
THEOREM LauncherImplementsSlot ==
    ASSUME ~ KillMayFail
    PROVE  Spec => ImplementsSlot
<1>1. Init => Slot!Init
  BY InvariantInit, SlotHolds DEF Slot!Init, SlotMatches, IInv
<1>2. IInv /\ IInv' /\ [Next]_vars => [Slot!Next]_InSlot
  BY SlotStep
<1> QED BY <1>1, <1>2, EngineInvariant, PTL DEF Spec, ImplementsSlot, Slot!Spec
=============================================================================
