------------------------------- MODULE Daemon -------------------------------
(***************************************************************************)
(* The 2Wings daemon around the launcher (daemon/main.py): the threads     *)
(* that serve IPC commands and the tray, the bootstrap thread, and the     *)
(* strategy tests (modules/strategy_testing/runner.py).  All of them call  *)
(* the same WinwsRunner; only the commands take _operation_lock.           *)
(*                                                                         *)
(* Every variable of Engine moves only as Engine says, but for the         *)
(* bootstrap's mark_failed: a step here is a step of Engine, or a step of  *)
(* a daemon thread between two calls into the runner.                      *)
(***************************************************************************)
EXTENDS Engine

CONSTANTS
    Uis,               \* threads serving an IPC client or the tray menu
    Boot,              \* the bootstrap thread
    Tester,            \* the strategy test thread, a new one for each job
    JobSize,           \* strategies in a test job
    BootstrapMayFail   \* TRUE lets the bootstrap raise

ASSUME DaemonAssumption ==
    /\ Threads = Uis \cup {Boot, Tester}
    /\ Starters = Threads
    /\ Boot \notin Uis /\ Tester \notin Uis /\ Boot # Tester
    /\ JobSize \in Nat \ {0}
    /\ BootstrapMayFail \in BOOLEAN

VARIABLES
    op,        \* _operation_lock: the thread that holds it
    task,      \* the command each Uis thread serves and how far it is
    boot,      \* how far _bootstrap_runtime is
    job,       \* the test thread: place, strategies left, was_running, _stop_requested
    selected,  \* settings.selected_strategy
    power      \* "on" or "down" (_shutdown is set)

daemon == <<op, task, boot, job, selected, power>>
dvars  == <<vars, daemon>>

Commands == {"start", "stop", "tests", "stoptests", "update", "shutdown"}
NoTask   == [pc |-> "idle", cmd |-> "stop", want |-> NoName]

TaskRec == [pc : {"idle", "queue", "call", "apply", "reapply", "warn", "closing"},
            cmd : Commands, want : Names]
BootPcs == {"setup", "update", "upqueue", "upcall", "launch", "call", "raised",
            "finally", "gone"}
JobRec  == [pc : {"gone", "begin", "clear", "loop", "ready", "trial", "probe", "unload",
                  "restore", "restart", "final", "last"},
            left : 0..JobSize, was : BOOLEAN, stop : BOOLEAN]

DTypeOK ==
    /\ op \in Threads \cup {NoThread}
    /\ task \in [Uis -> TaskRec]
    /\ boot \in BootPcs
    /\ job \in JobRec
    /\ selected \in Names
    /\ power \in {"on", "down"}

BootDone   == boot = "gone"        \* _bootstrap_done
TestsAlive == job.pc # "gone"      \* StrategyTestRunner.running
Returned(t, results) == At(t, "done") /\ call[t].result \in results

\* A thread of the daemon between two calls leaves the engine alone.
Quietly == UNCHANGED vars

-----------------------------------------------------------------------------
(* Commands: _handle_command and the tray menu                             *)

At2(t, pc, cmd) == task[t].pc = pc /\ task[t].cmd = cmd

Serve(t, pc) == task' = [task EXCEPT ![t].pc = pc]

Done(t) == task' = [task EXCEPT ![t] = NoTask]

(* The bootstrap check comes before the lock.  A start names its strategy, *)
(* or leaves it to the settings (NoName).                                  *)
ReceiveEarly(t, cmd, want) ==       \* deviation: no bootstrap check
    /\ task[t].pc = "idle"
    /\ want # NoName => cmd = "start"
    /\ cmd = "shutdown" => power = "on" /\ ~ TestsAlive
    /\ task' = [task EXCEPT ![t] = [pc |-> "queue", cmd |-> cmd, want |-> want]]
    /\ Quietly
    /\ UNCHANGED <<op, boot, job, selected, power>>

Receive(t, cmd, want) ==
    /\ task[t].pc = "idle"
    /\ cmd \in {"start", "tests"} => BootDone
    /\ want # NoName => cmd = "start"
    /\ cmd = "shutdown" => power = "on" /\ ~ TestsAlive
    /\ task' = [task EXCEPT ![t] = [pc |-> "queue", cmd |-> cmd, want |-> want]]
    /\ Quietly
    /\ UNCHANGED <<op, boot, job, selected, power>>

TakeBusy(t, cmd) == At2(t, "queue", cmd)     \* deviation: the lock is not waited for

Take(t, cmd) ==
    /\ At2(t, "queue", cmd)
    /\ op = NoThread

(* A command that stops the engine first and goes on when it is stopped. *)
StopUnderLock(t) ==
    /\ op' = t
    /\ Serve(t, "call")
    /\ CallStop(t)

Refuse(t) ==
    /\ Done(t)
    /\ Quietly
    /\ UNCHANGED <<op, boot, job, selected, power>>

(* The strategy is the one named, or the selected one; it is not found, or *)
(* the launch cannot be built, and nothing happens.                        *)
Launch(t, want) ==
    /\ op' = t
    /\ want # NoName
    /\ task' = [task EXCEPT ![t] = [pc |-> "call", cmd |-> "start", want |-> want]]
    /\ CallStart(t, want)
    /\ UNCHANGED <<boot, job, selected, power>>

Wanted(t) == IF task[t].want # NoName THEN task[t].want ELSE selected

StartRegardless(t) ==               \* deviation: tests are not looked at
    /\ Take(t, "start")
    /\ \/ Launch(t, Wanted(t))
       \/ Refuse(t)

Start(t) ==
    /\ Take(t, "start")
    /\ \/ ~ TestsAlive /\ Launch(t, Wanted(t))
       \/ Refuse(t)

Stop(t) ==
    /\ Take(t, "stop")
    /\ IF TestsAlive
       THEN Refuse(t)
       ELSE StopUnderLock(t) /\ UNCHANGED <<boot, job, selected, power>>

StartTests(t) ==
    /\ Take(t, "tests")
    /\ IF TestsAlive
       THEN Refuse(t)
       ELSE StopUnderLock(t) /\ UNCHANGED <<boot, job, selected, power>>

StopTests(t) ==
    /\ Take(t, "stoptests")
    /\ IF TestsAlive
       THEN /\ StopUnderLock(t)
            /\ job' = [job EXCEPT !.stop = TRUE]
            /\ UNCHANGED <<boot, selected, power>>
       ELSE Refuse(t)

UpdateStrategies(t) ==
    /\ Take(t, "update")
    /\ \/ TestsAlive /\ Refuse(t)
       \/ /\ ~ TestsAlive /\ rt.phase = "running"
          /\ StopUnderLock(t)
          /\ UNCHANGED <<boot, job, selected, power>>
       \/ /\ ~ TestsAlive /\ rt.phase # "running"
          /\ op' = t
          /\ Serve(t, "apply")
          /\ Quietly
          /\ UNCHANGED <<boot, job, selected, power>>

AppliedHolding(t) ==                \* deviation: the lock is not released
    /\ task[t].pc \in {"apply", "reapply"}
    /\ \/ /\ task[t].pc = "reapply" /\ BootDone
          /\ Launch(t, selected)
       \/ /\ Done(t)
          /\ Quietly
          /\ UNCHANGED <<op, boot, job, selected, power>>

(* check_and_apply is over.  The restart goes through _tray_start, which   *)
(* takes the lock again and makes its own checks.                          *)
Applied(t) ==
    /\ task[t].pc \in {"apply", "reapply"}
    /\ \/ /\ task[t].pc = "reapply" /\ BootDone
          /\ Launch(t, selected)
       \/ /\ op' = NoThread
          /\ Done(t)
          /\ Quietly
          /\ UNCHANGED <<boot, job, selected, power>>

(* _request_shutdown looks at the tests before it takes the lock. *)
ShutdownStopsTests(t) ==
    /\ task[t].pc = "idle"
    /\ power = "on" /\ TestsAlive
    /\ job' = [job EXCEPT !.stop = TRUE]
    /\ task' = [task EXCEPT ![t] = [NoTask EXCEPT !.pc = "warn", !.cmd = "shutdown"]]
    /\ CallStop(t)
    /\ UNCHANGED <<op, boot, selected, power>>

ShutdownQueues(t) ==
    /\ At2(t, "warn", "shutdown")
    /\ Return(t)
    /\ Serve(t, "queue")
    /\ UNCHANGED <<op, boot, job, selected, power>>

Shutdown(t) ==
    /\ Take(t, "shutdown")
    /\ StopUnderLock(t)
    /\ UNCHANGED <<boot, job, selected, power>>

(* The proxy is stopped and the windows are closed: _shutdown is set. *)
ShutdownSet(t) ==
    /\ task[t].pc = "closing"
    /\ power' = "down"
    /\ Done(t)
    /\ Quietly
    /\ UNCHANGED <<op, boot, job, selected>>

(* A strategy that started becomes the selected one (kernel/public.py). *)
RememberNothing(t) == UNCHANGED selected       \* deviation

Remember(t) == selected' = IF call[t].result = "ok" THEN call[t].name ELSE selected

(* The call of a command comes back. *)
Reply(t) ==
    /\ task[t].pc = "call"
    /\ Return(t)
    /\ UNCHANGED <<boot, power>>
    /\ \/ /\ task[t].cmd \in {"stop", "stoptests"}
          /\ Done(t) /\ op' = NoThread /\ UNCHANGED <<job, selected>>
       \/ /\ task[t].cmd = "start"
          /\ Remember(t)
          /\ Done(t) /\ op' = NoThread /\ UNCHANGED job
       \/ /\ task[t].cmd = "tests"
          /\ job' \in {job, [pc |-> "begin", left |-> JobSize, was |-> FALSE, stop |-> FALSE]}
          /\ Done(t) /\ op' = NoThread /\ UNCHANGED selected
       \/ /\ task[t].cmd = "update"
          /\ Serve(t, "reapply") /\ UNCHANGED <<op, job, selected>>
       \/ /\ task[t].cmd = "shutdown"
          /\ Serve(t, "closing") /\ op' = NoThread /\ UNCHANGED <<job, selected>>

Command(t) ==
    \/ Start(t) \/ Stop(t) \/ StartTests(t) \/ StopTests(t) \/ UpdateStrategies(t)
    \/ Applied(t) \/ ShutdownQueues(t) \/ Shutdown(t) \/ ShutdownSet(t) \/ Reply(t)

-----------------------------------------------------------------------------
(* _bootstrap_runtime                                                      *)

Moves(pc) == boot' = pc

StartsMonitor ==
    /\ boot = "setup"
    /\ StartMonitor
    /\ Moves("update")
    /\ UNCHANGED <<op, task, job, selected, power>>

(* run_startup_updates: with nothing to install, or no engine running, it  *)
(* is only network and files.  Otherwise check_and_apply asks the daemon   *)
(* itself, over IPC, to stop the engine; the serving thread is folded into *)
(* this one, which waits for its answer.                                   *)
StartupUpdate ==
    /\ boot = "update"
    /\ \/ Moves("launch")
       \/ rt.phase = "running" /\ Moves("upqueue")
    /\ Quietly
    /\ UNCHANGED <<op, task, job, selected, power>>

StartupUpdateWaits ==               \* deviation: Stop, too, waits for the bootstrap
    /\ boot = "upqueue" /\ BootDone
    /\ op = NoThread
    /\ op' = Boot
    /\ CallStop(Boot)
    /\ Moves("upcall")
    /\ UNCHANGED <<task, job, selected, power>>

StartupUpdateStops ==
    /\ boot = "upqueue"
    /\ op = NoThread
    /\ op' = Boot
    /\ CallStop(Boot)
    /\ Moves("upcall")
    /\ UNCHANGED <<task, job, selected, power>>

(* The restart it asks for afterwards is refused: bootstrap is not done.   *)
StartupUpdated ==
    /\ boot = "upcall"
    /\ Return(Boot)
    /\ op' = NoThread
    /\ Moves("launch")
    /\ UNCHANGED <<task, job, selected, power>>

(* launch_last_strategy_if_configured takes no lock of the daemon's. *)
LaunchLast ==
    /\ boot = "launch"
    /\ \/ /\ rt.phase # "running" /\ selected # NoName
          /\ CallStart(Boot, selected)
          /\ Moves("call")
       \/ Quietly /\ Moves("finally")
    /\ UNCHANGED <<op, task, job, selected, power>>

LaunchedLast ==
    /\ boot = "call"
    /\ Return(Boot)
    /\ Moves(IF call[Boot].result = "raised" THEN "raised" ELSE "finally")
    /\ UNCHANGED <<op, task, job, selected, power>>

BootstrapFails ==
    /\ BootstrapMayFail /\ boot \in {"setup", "update", "launch", "raised"}
    /\ rt' = [rt EXCEPT !.phase = "failed", !.pid = NoPid]
    /\ Moves("finally")
    /\ UNCHANGED <<os, lock, runner, call, mon, sampled>>
    /\ UNCHANGED <<op, task, job, selected, power>>

BootstrapDone ==
    /\ boot = "finally"
    /\ Moves("gone")
    /\ Quietly
    /\ UNCHANGED <<op, task, job, selected, power>>

BootStep ==
    \/ StartsMonitor \/ StartupUpdate \/ StartupUpdateStops \/ StartupUpdated
    \/ LaunchLast \/ LaunchedLast \/ BootstrapDone

-----------------------------------------------------------------------------
(* The strategy tests                                                      *)

Goes(pc)  == job' = [job EXCEPT !.pc = pc]
SameOne   == job' = [job EXCEPT !.pc = "loop"]       \* deviation: no progress
NextOne   == job' = [job EXCEPT !.pc = "loop", !.left = @ - 1]
Elsewhere == UNCHANGED <<op, task, boot, selected, power>>

(* The preflight fails and nothing has to be restored, or the state before *)
(* the tests is captured and the engine stopped.                           *)
TestsBegin ==
    /\ job.pc = "begin"
    /\ \/ Goes("final") /\ Quietly
       \/ /\ job' = [job EXCEPT !.pc = "clear", !.was = (rt.phase = "running")]
          /\ CallStop(Tester)
    /\ Elsewhere

TestsCleared ==
    /\ job.pc = "clear"
    /\ Return(Tester)
    /\ Goes("loop")
    /\ Elsewhere

(* The next strategy, one that cannot be built, the end of the job, or an  *)
(* exception on the way.                                                   *)
NextStrategy ==
    /\ job.pc = "loop"
    /\ IF job.stop \/ job.left = 0
       THEN Goes("restore")
       ELSE Goes("ready") \/ NextOne \/ Goes("restore")
    /\ Quietly
    /\ Elsewhere

Trial(s) ==
    /\ job.pc = "ready"
    /\ CallStart(Tester, s)
    /\ Goes("trial")
    /\ Elsewhere

TrialStarted ==
    /\ job.pc = "trial"
    /\ Return(Tester)
    /\ \/ call[Tester].result = "ok" /\ Goes("probe")
       \/ call[Tester].result = "failed" /\ NextOne
       \/ call[Tester].result = "raised" /\ Goes("restore")
    /\ Elsewhere

(* Probing the targets raises, or the engine is stopped after it. *)
Probed ==
    /\ job.pc = "probe"
    /\ \/ Quietly /\ Goes("restore")
       \/ CallStop(Tester) /\ Goes("unload")
    /\ Elsewhere

Unloaded ==
    /\ job.pc = "unload"
    /\ Return(Tester)
    /\ NextOne
    /\ Elsewhere

(* The finally clause: restore what was captured, then stop once more. *)
Restore ==
    /\ job.pc = "restore"
    /\ \/ /\ job.was /\ selected # NoName
          /\ CallStart(Tester, selected)
          /\ Goes("restart")
       \/ Quietly /\ Goes("final")
    /\ Elsewhere

Restored ==
    /\ job.pc = "restart"
    /\ Return(Tester)
    /\ Goes("final")
    /\ Elsewhere

LastStop ==
    /\ job.pc = "final"
    /\ CallStop(Tester)
    /\ Goes("last")
    /\ Elsewhere

TestsEnd ==
    /\ job.pc = "last"
    /\ Return(Tester)
    /\ job' = [pc |-> "gone", left |-> 0, was |-> FALSE, stop |-> FALSE]
    /\ Elsewhere

TestStep ==
    \/ TestsBegin \/ TestsCleared \/ NextStrategy \/ (\E s \in Strategies : Trial(s))
    \/ TrialStarted \/ Probed \/ Unloaded \/ Restore \/ Restored \/ LastStop \/ TestsEnd

-----------------------------------------------------------------------------
DInit ==
    /\ Init /\ mon.pc = "off"
    /\ op = NoThread
    /\ task = [t \in Uis |-> NoTask]
    /\ boot = "setup"
    /\ job = [pc |-> "gone", left |-> 0, was |-> FALSE, stop |-> FALSE]
    /\ selected \in Names
    /\ power = "on"

(* A step of the launcher, the monitor or an engine. *)
Below ==
    /\ \/ \E t \in Threads : Step(t)
       \/ MonitorStep
       \/ \E p \in Pids : EngineExits(p)
    /\ UNCHANGED daemon

DNext ==
    \/ Below
    \/ \E t \in Uis, cmd \in Commands, want \in Names : Receive(t, cmd, want)
    \/ \E t \in Uis : ShutdownStopsTests(t) \/ Command(t)
    \/ BootStep \/ BootstrapFails \/ TestStep

DSpec == DInit /\ [][DNext]_dvars

(* A thread of the daemon is inside the runner or between two calls, one   *)
(* place at a time.                                                        *)
ThreadStep(t) ==
    \/ Step(t) /\ UNCHANGED daemon
    \/ t \in Uis /\ Command(t)
    \/ t = Boot /\ BootStep
    \/ t = Tester /\ TestStep

(* Nobody has to send a command, no engine has to exit, and the monitor is *)
(* owed nothing here; the threads of the daemon keep running.  Neither     *)
(* lock is fair: a waiter is served if the lock comes free time and again. *)
DFairness == \A t \in Threads : SF_dvars(ThreadStep(t))

FairDSpec == DSpec /\ DFairness

-----------------------------------------------------------------------------
(* Properties                                                              *)

InStart(t) == InCall(t) /\ call[t].op = "start"

(* Commands, bootstrap and tests reach the runner by three routes, two of  *)
(* which take no lock of the daemon's: still only one start is ever under  *)
(* way, which the runner's unlocked startup wait cannot do without.        *)
StartsSerialised == \A t, u \in Threads : InStart(t) /\ InStart(u) => t = u

(* A Stop served after the bootstrap is final: while it stops the engine   *)
(* nobody has a launch pending, a start that sleeps before its next        *)
(* attempt at the busy driver included.                                    *)
StopIsFinal ==
    \A t \in Uis :
        BootDone /\ task[t].pc = "call" /\ task[t].cmd \in {"stop", "update", "tests"}
        => \A u \in Threads : ~ InStart(u)

(* While the tests run, the engine is the one they are trying or the one   *)
(* they restore: a command never launches one in between.                  *)
TestsOwnEngine ==
    TestsAlive => \A t \in Threads \ {Tester} : ~ InStart(t)

(* Between commands, with the bootstrap over and no tests, nobody is left  *)
(* inside the runner; a shutdown that first stops the tests is the one     *)
(* caller that takes no lock.                                              *)
QuietRunner ==
    /\ op = NoThread /\ BootDone /\ ~ TestsAlive
    /\ \A t \in Uis : task[t].pc # "warn"
    => \A t \in Threads : ~ InCall(t)

(* What a start leaves running is what the settings will launch next time, *)
(* unless the bootstrap or the tests are still at work.                    *)
EngineIsSelected ==
    op = NoThread /\ BootDone /\ ~ TestsAlive =>
        \A p \in Alive : os[p].name \in {NoName, selected}

(* What makes the first four inductive: a thread is inside the runner      *)
(* exactly when its place says so, a command inside or past its guards     *)
(* holds the lock, and those that hold it during the bootstrap or the      *)
(* tests are not starts.                                                   *)
Places ==
    /\ \A t \in Uis :
          /\ call[t].pc # "idle" <=> task[t].pc \in {"call", "warn"}
          /\ InStart(t) => task[t].pc = "call" /\ task[t].cmd = "start"
    /\ call[Boot].pc # "idle" <=> boot \in {"upcall", "call"}
    /\ InStart(Boot) => boot = "call"
    /\ call[Tester].pc # "idle" <=>
           job.pc \in {"clear", "trial", "unload", "restart", "last"}
    /\ InStart(Tester) => job.pc \in {"trial", "restart"}

OpOwner ==
    /\ \A t \in Uis : task[t].pc \in {"call", "apply", "reapply"} <=> op = t
    /\ boot = "upcall" <=> op = Boot
    /\ op # Tester

Guards ==
    /\ \A t \in Uis :
          task[t].pc # "idle" /\ task[t].cmd \in {"start", "tests"} => BootDone
    /\ TestsAlive =>
          /\ BootDone
          /\ \A t \in Uis :
                /\ task[t].pc \notin {"apply", "reapply"}
                /\ task[t].pc = "call" => task[t].cmd \in {"stoptests", "shutdown"}

TrialsLeft == job.pc \in {"ready", "trial", "probe", "unload"} => job.left # 0

DInv == DTypeOK /\ IInv /\ Places /\ OpOwner /\ Guards /\ TrialsLeft

(* The tests restart what was running before them; their own last step     *)
(* never takes that engine away again.                                     *)
RestoredEngineKept ==
    [][job.was /\ ~ job.stop /\ job.pc = "last" /\ call'[Tester] # call[Tester]
         => Alive \subseteq Alive']_dvars

(* Every command is answered, a shutdown included: the two locks are never *)
(* waited for in a circle, and neither tests nor bootstrap hold one up.    *)
CommandsAnswered == \A t \in Uis : task[t].pc # "idle" ~> task[t].pc = "idle"

(* A test job comes to its end, whether its engines start, fail, exit, or  *)
(* are stopped by a command, and the bootstrap lets commands in, whatever  *)
(* stops its engine meanwhile.                                             *)
JobsEnd == (TestsAlive ~> ~ TestsAlive) /\ <>BootDone
=============================================================================
