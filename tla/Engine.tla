------------------------------- MODULE Engine -------------------------------
(***************************************************************************)
(* The engine launcher of the daemon: kernel/winws_runner.py (WinwsRunner) *)
(* starts and stops winws2.exe on behalf of any thread, publishes what it  *)
(* does in kernel/runtime_state.py, and kernel/process_monitor.py corrects *)
(* that status from what the process table shows.                          *)
(*                                                                         *)
(* A thread inside the runner is a record in "call".  One action is one    *)
(* step of the runner between two points where another thread, the monitor *)
(* or the operating system can get in: the runner's RLock is held from     *)
(* "kill" to "cooldown" or "spawn", and is not held while a start sleeps   *)
(* ("wait") or pauses before its next attempt ("pause").                   *)
(***************************************************************************)
EXTENDS Naturals, FiniteSets

CONSTANTS
    Threads,         \* threads that call the runner
    Starters,        \* those of them that may call start
    Strategies,      \* what a caller may ask to start
    Pids,            \* process ids; Windows reuses them, so none is spent
    NoThread, NoPid, NoName,
    DriverRetries,   \* DRIVER_RETRIES
    DebounceMisses,  \* DEBOUNCE_MISSES
    KillMayFail,     \* taskkill runs with check=False: TRUE lets engines survive
    MonitorKeepsUp   \* STARTUP_WAIT exceeds the monitor's INTERVAL_SECONDS:
                     \* TRUE makes every startup wait contain a probe

ASSUME EngineAssumption ==
    /\ NoThread \notin Threads
    /\ Starters \subseteq Threads
    /\ NoPid \notin Pids
    /\ NoName \notin Strategies
    /\ NoPid \notin Strategies \cup {NoName}
    /\ DriverRetries \in Nat
    /\ DebounceMisses \in Nat \ {0}
    /\ KillMayFail \in BOOLEAN
    /\ MonitorKeepsUp \in BOOLEAN

VARIABLES
    os,       \* process table: state and strategy of each canonical engine
    lock,     \* WinwsRunner._lock: the thread that holds it
    runner,   \* WinwsRunner._proc, _phase, _strategy_name; whether stderr is open
    rt,       \* runtime_state: _phase, _strategy_name, _pid
    call,     \* where each thread is inside the runner
    mon,      \* ProcessMonitor: its loop, _last_pid and _miss_count
    sampled   \* waiting starters the monitor has probed for since their spawn

vars == <<os, lock, runner, rt, call, mon, sampled>>

Names     == Strategies \cup {NoName}
MaybePids == Pids \cup {NoPid}
Phases    == {"idle", "starting", "running", "stopping", "failed"}
CallPcs   == {"idle", "enter", "kill", "clear", "cooldown", "announce",
              "spawn", "wait", "pause", "done"}
HoldsLock == {"kill", "clear", "cooldown", "announce", "spawn"}

Absent == [state |-> "absent", name |-> NoName]
Alive  == {p \in Pids : os[p].state = "up"}

NoCall == [pc |-> "idle", op |-> "stop", name |-> NoName, attempt |-> 0,
           result |-> "none"]

EngineRec == [state : {"absent", "up", "exited", "busy"}, name : Names]
RunnerRec == [proc : MaybePids, phase : Phases, name : Names, piped : BOOLEAN]
StatusRec == [phase : Phases, name : Names, pid : MaybePids]
CallRec   == [pc : CallPcs, op : {"start", "stop"}, name : Names,
              attempt : 0..DriverRetries, result : {"none", "ok", "failed", "raised"}]
MonRec    == [pc : {"off", "probe", "read", "up", "down"}, seen : MaybePids,
              name : Names, last : MaybePids, misses : 0..DebounceMisses]

TypeOK ==
    /\ os \in [Pids -> EngineRec]
    /\ lock \in Threads \cup {NoThread}
    /\ runner \in RunnerRec
    /\ rt \in StatusRec
    /\ call \in [Threads -> CallRec]
    /\ mon \in MonRec
    /\ sampled \in SUBSET Threads

-----------------------------------------------------------------------------
(* runtime_state: what the runner publishes                                *)

MarkStarting(n)   == [phase |-> "starting", name |-> n, pid |-> NoPid]
MarkRunning(n, p) == [phase |-> "running", name |-> n, pid |-> p]
MarkStopping      == [rt EXCEPT !.phase = "stopping"]
MarkStopped       == [phase |-> "idle", name |-> NoName, pid |-> NoPid]
MarkFailed(n)     == [phase |-> "failed", name |-> n, pid |-> NoPid]

(* Three deviations, for mutation runs: a report that overrides a start or  *)
(* stop under way, that never revives the status, that keeps a known pid.   *)
SyncUpAlways(p, n) ==
    [phase |-> "running", name |-> IF n # NoName THEN n ELSE rt.name, pid |-> p]
SyncUpKnown(p, n) ==
    IF rt.phase # "running" THEN rt
    ELSE [phase |-> "running", name |-> IF n # NoName THEN n ELSE rt.name, pid |-> p]
SyncDownUnknown == IF rt.phase = "running" /\ rt.pid = NoPid THEN MarkStopped ELSE rt

SyncUp(p, n) ==
    IF rt.phase \in {"starting", "stopping"} THEN rt
    ELSE [phase |-> "running", name |-> IF n # NoName THEN n ELSE rt.name, pid |-> p]

SyncDown == IF rt.phase = "running" THEN MarkStopped ELSE rt

-----------------------------------------------------------------------------
(* Calls into the runner                                                   *)

At(t, pc) == call[t].pc = pc

Goto(t, pc) == call' = [call EXCEPT ![t].pc = pc]

Finish(t, result) == call' = [call EXCEPT ![t].pc = "done", ![t].result = result]

CallStart(t, s) ==
    /\ At(t, "idle")
    /\ call' = [call EXCEPT ![t] = [NoCall EXCEPT !.pc = "enter", !.op = "start", !.name = s]]
    /\ UNCHANGED <<os, lock, runner, rt, mon, sampled>>

CallStop(t) ==
    /\ At(t, "idle")
    /\ call' = [call EXCEPT ![t] = [NoCall EXCEPT !.pc = "enter"]]
    /\ UNCHANGED <<os, lock, runner, rt, mon, sampled>>

Return(t) ==
    /\ At(t, "done")
    /\ call' = [call EXCEPT ![t] = NoCall]
    /\ UNCHANGED <<os, lock, runner, rt, mon, sampled>>

(* Deviations: a stop that does not wait for the lock, and one that kills   *)
(* only the runner's own child.                                             *)
EnterUnlocked(t) ==
    /\ At(t, "enter")
    /\ lock' = t
    /\ runner' = [runner EXCEPT !.phase = "stopping"]
    /\ rt' = MarkStopping
    /\ Goto(t, "kill")
    /\ UNCHANGED <<os, mon, sampled>>
KillOwn(t) ==
    /\ At(t, "kill")
    /\ os' = [p \in Pids |-> IF p = runner.proc THEN Absent ELSE os[p]]
    /\ runner' = [runner EXCEPT !.proc = NoPid, !.piped = FALSE]
    /\ Goto(t, "clear")
    /\ UNCHANGED <<lock, rt, mon, sampled>>
(* stop_locked, which a start runs first *)
Enter(t) ==
    /\ At(t, "enter")
    /\ lock = NoThread
    /\ lock' = t
    /\ runner' = [runner EXCEPT !.phase = "stopping"]
    /\ rt' = MarkStopping
    /\ Goto(t, "kill")
    /\ UNCHANGED <<os, mon, sampled>>

KillEngines(t) ==
    /\ At(t, "kill")
    /\ \E survivors \in IF KillMayFail THEN SUBSET Alive ELSE {{}} :
          os' = [p \in Pids |-> IF p \in survivors THEN os[p] ELSE Absent]
    /\ runner' = [runner EXCEPT !.proc = NoPid, !.piped = FALSE]
    /\ Goto(t, "clear")
    /\ UNCHANGED <<lock, rt, mon, sampled>>

FinishStop(t) ==
    /\ At(t, "clear")
    /\ runner' = [runner EXCEPT !.phase = "idle", !.name = NoName]
    /\ rt' = MarkStopped
    /\ Goto(t, IF call[t].op = "stop" THEN "cooldown" ELSE "announce")
    /\ UNCHANGED <<os, lock, mon, sampled>>

Cooldown(t) ==
    /\ At(t, "cooldown")
    /\ lock' = NoThread
    /\ Finish(t, "ok")
    /\ UNCHANGED <<os, runner, rt, mon, sampled>>

(* _start_once: the part under the lock, the unlocked sleep, the verdict *)
Announce(t) ==
    /\ At(t, "announce")
    /\ runner' = [runner EXCEPT !.phase = "starting", !.name = call[t].name]
    /\ rt' = MarkStarting(call[t].name)
    /\ Goto(t, "spawn")
    /\ UNCHANGED <<os, lock, mon, sampled>>

Spawn(t) ==
    /\ At(t, "spawn")
    /\ \E p \in Pids \ Alive :
          /\ os' = [os EXCEPT ![p] = [state |-> "up", name |-> call[t].name]]
          /\ runner' = [runner EXCEPT !.proc = p, !.piped = TRUE]
    /\ lock' = NoThread
    /\ Goto(t, "wait")
    /\ sampled' = sampled \ {t}
    /\ UNCHANGED <<rt, mon>>

SpawnFails(t) ==
    /\ At(t, "spawn")
    /\ runner' = [runner EXCEPT !.phase = "failed"]
    /\ rt' = MarkFailed(call[t].name)
    /\ lock' = NoThread
    /\ Finish(t, "failed")
    /\ UNCHANGED <<os, mon, sampled>>

ProcState == IF runner.proc = NoPid THEN "none" ELSE os[runner.proc].state

(* The sleep is over and the thread takes the lock again. *)
Wakes(t) ==
    /\ At(t, "wait")
    /\ lock = NoThread
    /\ MonitorKeepsUp /\ mon.pc # "off" => t \in sampled
    /\ sampled' = sampled \ {t}

ConfirmUp(t) ==
    /\ Wakes(t)
    /\ ProcState = "up"
    /\ runner' = [runner EXCEPT !.phase = "running", !.piped = FALSE]
    /\ rt' = MarkRunning(call[t].name, runner.proc)
    /\ Finish(t, "ok")
    /\ UNCHANGED <<os, lock, mon>>

ConfirmDown(t) ==
    /\ Wakes(t)
    /\ ProcState # "up"
    /\ ProcState = "none" \/ runner.piped
    /\ runner' = [runner EXCEPT !.phase = "failed", !.proc = NoPid, !.piped = FALSE]
    /\ rt' = MarkFailed(call[t].name)
    /\ IF ProcState = "busy" /\ call[t].attempt < DriverRetries
       THEN call' = [call EXCEPT ![t].pc = "pause", ![t].attempt = @ + 1]
       ELSE Finish(t, "failed")
    /\ UNCHANGED <<os, lock, mon>>

(* Another starter confirmed this process and closed its stderr: reading   *)
(* the closed pipe raises ValueError, which _read_startup_error lets pass. *)
ConfirmRaises(t) ==
    /\ Wakes(t)
    /\ ProcState \in {"exited", "busy"}
    /\ ~ runner.piped
    /\ Finish(t, "raised")
    /\ UNCHANGED <<os, lock, runner, rt, mon>>

Retry(t) ==
    /\ At(t, "pause")
    /\ Goto(t, "enter")
    /\ UNCHANGED <<os, lock, runner, rt, mon, sampled>>

(* What the scheduler owes a thread that is inside the runner. *)
Step(t) ==
    \/ Enter(t) \/ KillEngines(t) \/ FinishStop(t) \/ Cooldown(t)
    \/ Announce(t) \/ Spawn(t) \/ SpawnFails(t)
    \/ ConfirmUp(t) \/ ConfirmDown(t) \/ ConfirmRaises(t) \/ Retry(t)

-----------------------------------------------------------------------------
(* The operating system and the monitor                                    *)

(* An engine exits on its own; only the runner's child leaves an exit code *)
(* and a message, which may say that the WinDivert driver was busy.        *)
EngineExits(p) ==
    /\ p \in Alive
    /\ \E cause \in IF p = runner.proc THEN {"exited", "busy"} ELSE {"absent"} :
          os' = [os EXCEPT ![p] = [state |-> cause, name |-> NoName]]
    /\ UNCHANGED <<lock, runner, rt, call, mon, sampled>>

StartMonitor ==
    /\ mon.pc = "off"
    /\ mon' = [mon EXCEPT !.pc = "probe"]
    /\ UNCHANGED <<os, lock, runner, rt, call, sampled>>

Probe(p) ==
    /\ mon.pc = "probe"
    /\ IF Alive = {} THEN p = NoPid ELSE p \in Alive
    /\ sampled' = IF MonitorKeepsUp
                  THEN sampled \cup {t \in Threads : At(t, "wait")}
                  ELSE sampled
    /\ mon' = CASE p # NoPid /\ p # mon.last ->
                     [mon EXCEPT !.pc = "read", !.misses = 0, !.last = p, !.seen = p]
                [] p # NoPid /\ p = mon.last -> [mon EXCEPT !.misses = 0]
                [] p = NoPid /\ mon.last = NoPid -> mon
                [] p = NoPid /\ mon.last # NoPid /\ mon.misses + 1 < DebounceMisses ->
                     [mon EXCEPT !.misses = @ + 1]
                [] OTHER -> [mon EXCEPT !.pc = "down", !.misses = 0, !.last = NoPid]
    /\ UNCHANGED <<os, lock, runner, rt, call>>

ReadName ==
    /\ mon.pc = "read"
    /\ mon' = [mon EXCEPT !.pc = "up", !.name = rt.name]
    /\ UNCHANGED <<os, lock, runner, rt, call, sampled>>

ReportUp ==
    /\ mon.pc = "up"
    /\ rt' = SyncUp(mon.seen, mon.name)
    /\ mon' = [mon EXCEPT !.pc = "probe", !.seen = NoPid, !.name = NoName]
    /\ UNCHANGED <<os, lock, runner, call, sampled>>

ReportDown ==
    /\ mon.pc = "down"
    /\ rt' = SyncDown
    /\ mon' = [mon EXCEPT !.pc = "probe"]
    /\ UNCHANGED <<os, lock, runner, call, sampled>>

MonitorStep ==
    \/ \E p \in MaybePids : Probe(p)
    \/ ReadName \/ ReportUp \/ ReportDown

-----------------------------------------------------------------------------
(* An engine left by a daemon that died may be running at the start.  The
   daemon starts the monitor before the first call, or never when its
   bootstrap fails early. *)
Init ==
    /\ os \in {[p \in Pids |-> IF p \in orphan THEN [state |-> "up", name |-> NoName]
                               ELSE Absent] : orphan \in {{}} \cup {{p} : p \in Pids}}
    /\ lock = NoThread
    /\ runner = [proc |-> NoPid, phase |-> "idle", name |-> NoName, piped |-> FALSE]
    /\ rt = MarkStopped
    /\ call = [t \in Threads |-> NoCall]
    /\ mon \in [pc : {"off", "probe"}, seen : {NoPid}, name : {NoName},
                last : {NoPid}, misses : {0}]
    /\ sampled = {}

Next ==
    \/ \E t \in Threads : Step(t) \/ Return(t) \/ CallStop(t)
    \/ \E t \in Starters, s \in Strategies : CallStart(t, s)
    \/ \E p \in Pids : EngineExits(p)
    \/ StartMonitor \/ MonitorStep

Spec == Init /\ [][Next]_vars

(* Callers, crashes and the start of the monitor are owed nothing; a thread
   inside the runner and the monitor's loop keep running.  The lock is not
   fair, so a waiter gets it only if it comes free again and again. *)
Fairness ==
    /\ \A t \in Threads : SF_vars(Step(t)) /\ WF_vars(Return(t))
    /\ WF_vars(MonitorStep)

FairSpec == Spec /\ Fairness

-----------------------------------------------------------------------------
(* Properties                                                              *)

InCall(t) == call[t].pc \notin {"idle", "done"}

(* The lock and the kill before every launch keep two engines from ever    *)
(* filtering together, however starts, stops and retries interleave.       *)
OneEngine == ~ KillMayFail => \A p, q \in Alive : p = q

(* The runner never loses an engine it started: every engine of this       *)
(* daemon is the one in _proc, so the next stop reaches it through its     *)
(* handle, whichever starter gave up or was overtaken.                     *)
NoLostEngine ==
    ~ KillMayFail =>
        \A p \in Alive : os[p].name # NoName => p = runner.proc

(* With the lock free, _proc and _phase tell the same story: no process    *)
(* stands behind "idle" and "failed", one behind "starting" and "running". *)
RunnerCoherent ==
    lock = NoThread =>
        /\ runner.phase # "stopping"
        /\ runner.phase \in {"idle", "failed"} <=> runner.proc = NoPid

(* The monitor never corrects "starting" and "stopping": a thread still    *)
(* inside the runner must be there to resolve them, or the status would    *)
(* stay busy for good.                                                     *)
TransientHasOwner ==
    /\ rt.phase = "stopping" => \E t \in Threads : call[t].pc \in {"kill", "clear"}
    /\ rt.phase = "starting" => \E t \in Threads : call[t].pc \in {"spawn", "wait"}

(* What makes the four invariants above inductive: who holds the lock, how *)
(* far a critical section has come, and that a closed pipe behind _proc    *)
(* means that the start of that process has been reported already.         *)
LockOwner == \A t \in Threads : call[t].pc \in HoldsLock <=> lock = t

Progress ==
    \A t \in Threads :
        /\ At(t, "kill") => runner.phase = "stopping"
        /\ At(t, "clear") => runner.phase = "stopping"
        /\ At(t, "cooldown") => runner.phase = "idle"
        /\ At(t, "announce") => runner.phase = "idle"
        /\ At(t, "spawn") => runner.phase = "starting"
        /\ call[t].pc \in HoldsLock \ {"kill"} =>
               runner.proc = NoPid /\ (~ KillMayFail => Alive = {})

PipeClosed == runner.proc # NoPid /\ ~ runner.piped => rt.phase # "starting"

IInv ==
    /\ TypeOK /\ LockOwner /\ Progress /\ PipeClosed
    /\ OneEngine /\ NoLostEngine /\ RunnerCoherent /\ TransientHasOwner

(* The status never puts one strategy's name on another's engine.  The     *)
(* monitor copies the name it read before a stop back after it, so this    *)
(* too takes one start at a time and a probe in every startup wait.        *)
StatusNamesEngine ==
    rt.phase = "running" /\ rt.pid \in Alive => rt.name = os[rt.pid].name

InSlot == IF Alive = {} THEN NoPid ELSE os[CHOOSE p \in Alive : TRUE].name

(* The launcher implements the one-engine slot: killing, spawning and the  *)
(* engine's own end are its only moves, at every interleaving.             *)
Slot == INSTANCE EngineSlot WITH Empty <- NoPid, slot <- InSlot

ImplementsSlot == Slot!Spec

(* The status follows the engine.  Once no engine runs any more it stops   *)
(* saying that one does, the monitor's misses repair what the runner did   *)
(* not see; an engine that keeps running with nobody inside the runner     *)
(* ends up shown as running, the one left by a previous daemon too.  It    *)
(* takes one start at a time, which Daemon shows to be the case, and a     *)
(* startup wait long enough for a probe.                                   *)
StatusFollows ==
    [](mon.pc # "off") =>
        /\ <>[](Alive = {}) => <>[](rt.phase # "running")
        /\ <>[](Alive # {} /\ \A t \in Threads : ~ InCall(t)) => <>[](rt.phase = "running")
=============================================================================
