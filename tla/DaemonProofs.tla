---------------------------- MODULE DaemonProofs ----------------------------
(***************************************************************************)
(* Proofs about the daemon, for any number of command threads, strategies, *)
(* process ids and tests.  The argument has two halves.  Every step of the *)
(* daemon is, for the launcher's variables, a step of Engine or the        *)
(* bootstrap's mark_failed, so the launcher's invariant carries over.  And *)
(* what _operation_lock, _bootstrap_done and the test thread guard against *)
(* one another (Places, OpOwner, Guards) leaves room for one start only.   *)
(***************************************************************************)
EXTENDS Daemon, EngineProofs

LEMMA ThreadsAre ==
    /\ Boot \in Threads /\ Tester \in Threads /\ Uis \subseteq Threads
    /\ Threads = Uis \cup {Boot, Tester} /\ Starters = Threads
    /\ Boot \notin Uis /\ Tester \notin Uis /\ Boot # Tester
    /\ NoThread \notin Threads
BY DaemonAssumption, EngineAssumption

(* The steps of the daemon that call the launcher call it as it allows. *)
LEMMA DaemonStepsEngine ==
    ASSUME DTypeOK, DNext
    PROVE  [Next]_vars \/ BootstrapFails
<1> USE ThreadsAre
<1>n. \A s \in Names : s # NoName => s \in Strategies
  BY DEF Names
<1>c. \A t \in Threads : CallStop(t) \/ Return(t) => Next
  BY DEF Next
<1>s. \A t \in Threads, s \in Strategies : CallStart(t, s) => Next
  BY DEF Next
<1>1. CASE Below
  BY <1>1 DEF Below, Next
<1>2. CASE \E t \in Uis, cmd \in Commands, want \in Names : Receive(t, cmd, want)
  BY <1>2 DEF Receive, Quietly
<1>3. ASSUME NEW t \in Uis, ShutdownStopsTests(t) \/ Command(t)
      PROVE  Next \/ UNCHANGED vars
  <2>1. ShutdownStopsTests(t) => CallStop(t)
    BY DEF ShutdownStopsTests
  <2>2. Start(t) => Next \/ UNCHANGED vars
    <3>1. Wanted(t) \in Names
      BY DEF Wanted, DTypeOK, TaskRec
    <3> QED BY <3>1, <1>n, <1>s DEF Start, Launch, Refuse, Quietly
  <2>3. Stop(t) \/ StartTests(t) \/ StopTests(t) \/ UpdateStrategies(t) \/ Shutdown(t)
            => CallStop(t) \/ UNCHANGED vars
    BY DEF Stop, StartTests, StopTests, UpdateStrategies, Shutdown, StopUnderLock, Refuse,
       Quietly
  <2>4. Applied(t) => Next \/ UNCHANGED vars
    BY <1>n, <1>s DEF Applied, Launch, Quietly, DTypeOK
  <2>5. ShutdownQueues(t) \/ Reply(t) => Return(t)
    BY DEF ShutdownQueues, Reply
  <2>6. ShutdownSet(t) => UNCHANGED vars
    BY DEF ShutdownSet, Quietly
  <2> QED BY <1>3, <1>c, <2>1, <2>2, <2>3, <2>4, <2>5, <2>6 DEF Command
<1>4. CASE BootStep
  <2>1. StartsMonitor => Next
    BY DEF StartsMonitor, Next
  <2>2. StartupUpdate \/ BootstrapDone => UNCHANGED vars
    BY DEF StartupUpdate, BootstrapDone, Quietly
  <2>3. StartupUpdateStops \/ StartupUpdated \/ LaunchedLast => CallStop(Boot) \/ Return(Boot)
    BY DEF StartupUpdateStops, StartupUpdated, LaunchedLast
  <2>4. LaunchLast => Next \/ UNCHANGED vars
    BY <1>n, <1>s DEF LaunchLast, Quietly, DTypeOK
  <2> QED BY <1>4, <1>c, <2>1, <2>2, <2>3, <2>4 DEF BootStep
<1>5. CASE TestStep
  <2>1. TestsBegin \/ TestsCleared \/ TrialStarted \/ Probed \/ Unloaded \/ Restored
            \/ LastStop \/ TestsEnd
            => CallStop(Tester) \/ Return(Tester) \/ UNCHANGED vars
    BY DEF TestsBegin, TestsCleared, TrialStarted, Probed, Unloaded, Restored, LastStop,
       TestsEnd, Quietly
  <2>2. NextStrategy => UNCHANGED vars
    BY DEF NextStrategy, Quietly
  <2>3. (\E s \in Strategies : Trial(s)) => Next
    BY <1>s DEF Trial
  <2>4. Restore => Next \/ UNCHANGED vars
    BY <1>n, <1>s DEF Restore, Quietly, DTypeOK
  <2> QED BY <1>5, <1>c, <2>1, <2>2, <2>3, <2>4 DEF TestStep
<1> QED BY <1>1, <1>2, <1>3, <1>4, <1>5 DEF DNext

(* The bootstrap's mark_failed is the one step that Engine has not. *)
LEMMA MarksFailedKeeps ==
    ASSUME IInv, BootstrapFails
    PROVE  IInv'
<1>1. rt' \in StatusRec /\ rt'.phase = "failed"
  BY DEF BootstrapFails, IInv, TypeOK, StatusRec, Phases, MaybePids
<1>2. UNCHANGED <<os, lock, runner, call, mon, sampled, Alive>>
  BY DEF BootstrapFails, Alive
<1>3. TypeOK'
  BY <1>1, <1>2 DEF IInv, TypeOK
<1>4. LockOwner' /\ Progress' /\ RunnerCoherent' /\ OneEngine' /\ NoLostEngine'
  BY <1>2 DEF IInv, LockOwner, Progress, RunnerCoherent, OneEngine, NoLostEngine, At
<1>5. PipeClosed' /\ TransientHasOwner'
  BY <1>1 DEF PipeClosed, TransientHasOwner
<1> QED BY <1>3, <1>4, <1>5 DEF IInv

(* The launcher's invariant holds of the launcher inside the daemon. *)
LEMMA EngineInDaemon ==
    ASSUME IInv, DTypeOK, [DNext]_dvars
    PROVE  IInv'
<1>1. [Next]_vars \/ BootstrapFails
  BY DaemonStepsEngine DEF dvars
<1> QED BY <1>1, InvariantNext, MarksFailedKeeps

-----------------------------------------------------------------------------
(* What a step does to the places of the threads.                           *)

LEMMA CallsAfter ==
    ASSUME TypeOK, NEW t \in Threads
    PROVE  /\ \A s : CallStart(t, s) =>
                  /\ call[t].pc = "idle" /\ call'[t].pc = "enter" /\ call'[t].op = "start"
                  /\ \A u \in Threads \ {t} : call'[u] = call[u]
           /\ CallStop(t) =>
                  /\ call[t].pc = "idle" /\ call'[t].pc = "enter" /\ call'[t].op = "stop"
                  /\ \A u \in Threads \ {t} : call'[u] = call[u]
           /\ Return(t) =>
                  /\ call[t].pc = "done" /\ call'[t].pc = "idle"
                  /\ \A u \in Threads \ {t} : call'[u] = call[u]
           /\ Step(t) =>
                  /\ call[t].pc # "idle" /\ call'[t].pc # "idle"
                  /\ call[t].pc # "done" /\ call'[t].op = call[t].op
                  /\ \A u \in Threads \ {t} : call'[u] = call[u]
<1>0. call \in [Threads -> CallRec]
  BY DEF TypeOK
<1>1. ASSUME NEW pc, pc # "idle", Goto(t, pc)
      PROVE  /\ call'[t].pc # "idle" /\ call'[t].op = call[t].op
             /\ \A u \in Threads \ {t} : call'[u] = call[u]
  BY <1>0, <1>1 DEF Goto, CallRec
<1>2. ASSUME NEW r, Finish(t, r)
      PROVE  /\ call'[t].pc # "idle" /\ call'[t].op = call[t].op
             /\ \A u \in Threads \ {t} : call'[u] = call[u]
  BY <1>0, <1>2 DEF Finish, CallRec
<1>3. ASSUME Step(t)
      PROVE  /\ call[t].pc # "idle" /\ call'[t].pc # "idle"
             /\ call[t].pc # "done" /\ call'[t].op = call[t].op
             /\ \A u \in Threads \ {t} : call'[u] = call[u]
  <2>1. CASE Enter(t) BY <2>1, <1>1 DEF Enter, At
  <2>2. CASE KillEngines(t) BY <2>2, <1>1 DEF KillEngines, At
  <2>3. CASE FinishStop(t) BY <2>3, <1>1 DEF FinishStop, At
  <2>4. CASE Cooldown(t) BY <2>4, <1>2 DEF Cooldown, At
  <2>5. CASE Announce(t) BY <2>5, <1>1 DEF Announce, At
  <2>6. CASE Spawn(t) BY <2>6, <1>1 DEF Spawn, At
  <2>7. CASE SpawnFails(t) BY <2>7, <1>2 DEF SpawnFails, At
  <2>8. CASE ConfirmUp(t) BY <2>8, <1>2 DEF ConfirmUp, Wakes, At
  <2>9. CASE ConfirmDown(t)
    <3>1. CASE ProcState = "busy" /\ call[t].attempt < DriverRetries
      BY <2>9, <3>1, <1>0 DEF ConfirmDown, Wakes, At, CallRec
    <3>2. CASE ~ (ProcState = "busy" /\ call[t].attempt < DriverRetries)
      BY <2>9, <3>2, <1>2 DEF ConfirmDown, Wakes, At
    <3> QED BY <3>1, <3>2
  <2>10. CASE ConfirmRaises(t) BY <2>10, <1>2 DEF ConfirmRaises, Wakes, At
  <2>11. CASE Retry(t) BY <2>11, <1>1 DEF Retry, At
  <2> QED
    BY <1>3, <2>1, <2>2, <2>3, <2>4, <2>5, <2>6, <2>7, <2>8, <2>9, <2>10, <2>11 DEF Step
<1>4. ASSUME NEW s, CallStart(t, s)
      PROVE  /\ call[t].pc = "idle" /\ call'[t].pc = "enter" /\ call'[t].op = "start"
             /\ \A u \in Threads \ {t} : call'[u] = call[u]
  BY <1>0, <1>4 DEF CallStart, At, NoCall
<1>5. ASSUME CallStop(t)
      PROVE  /\ call[t].pc = "idle" /\ call'[t].pc = "enter" /\ call'[t].op = "stop"
             /\ \A u \in Threads \ {t} : call'[u] = call[u]
  BY <1>0, <1>5 DEF CallStop, At, NoCall
<1>6. ASSUME Return(t)
      PROVE  /\ call[t].pc = "done" /\ call'[t].pc = "idle"
             /\ \A u \in Threads \ {t} : call'[u] = call[u]
  BY <1>0, <1>6 DEF Return, At, NoCall
<1> QED BY <1>3, <1>4, <1>5, <1>6

LEMMA TasksAfter ==
    ASSUME DTypeOK, NEW t \in Uis
    PROVE  /\ \A pc : Serve(t, pc) =>
                  /\ task'[t].pc = pc /\ task'[t].cmd = task[t].cmd
                  /\ \A u \in Uis \ {t} : task'[u] = task[u]
           /\ Done(t) =>
                  /\ task'[t].pc = "idle"
                  /\ \A u \in Uis \ {t} : task'[u] = task[u]
           /\ \A cmd, want : task' = [task EXCEPT ![t] =
                                         [pc |-> "call", cmd |-> cmd, want |-> want]] =>
                  /\ task'[t].pc = "call" /\ task'[t].cmd = cmd
                  /\ \A u \in Uis \ {t} : task'[u] = task[u]
BY DEF DTypeOK, TaskRec, Serve, Done, NoTask

(* The types of the daemon's own records. *)
LEMMA TaskTypes ==
    ASSUME DTypeOK, NEW t \in Uis
    PROVE  /\ \A pc \in {"idle", "queue", "call", "apply", "reapply", "warn", "closing"} :
                  Serve(t, pc) => task' \in [Uis -> TaskRec]
           /\ Done(t) => task' \in [Uis -> TaskRec]
           /\ \A want \in Names :
                  task' = [task EXCEPT ![t] =
                              [pc |-> "call", cmd |-> "start", want |-> want]]
                  => task' \in [Uis -> TaskRec]
           /\ Wanted(t) \in Names
<1>1. NoTask \in TaskRec
  BY DEF NoTask, TaskRec, Commands, Names
<1> QED BY <1>1 DEF DTypeOK, TaskRec, Serve, Done, Wanted, Commands

LEMMA JobTypes ==
    ASSUME DTypeOK
    PROVE  /\ \A pc \in {"gone", "begin", "clear", "loop", "ready", "trial", "probe",
                         "unload", "restore", "restart", "final", "last"} :
                  /\ Goes(pc) => job' \in JobRec /\ job'.pc = pc
                  /\ \A b \in BOOLEAN : [job EXCEPT !.pc = pc, !.was = b] \in JobRec
           /\ NextOne /\ job.left # 0 => job' \in JobRec
           /\ NextOne => job'.pc = "loop"
           /\ [job EXCEPT !.stop = TRUE] \in JobRec
           /\ \A pc \in {"gone", "begin"}, k \in {0, JobSize} :
                  [pc |-> pc, left |-> k, was |-> FALSE, stop |-> FALSE] \in JobRec
<1> DEFINE Left == 0..JobSize
<1>1. /\ 0 \in Left /\ JobSize \in Left
      /\ \A k \in Left : k # 0 => k - 1 \in Left
  BY DaemonAssumption
<1>2. JobRec = [pc : {"gone", "begin", "clear", "loop", "ready", "trial", "probe", "unload",
                      "restore", "restart", "final", "last"},
                left : Left, was : BOOLEAN, stop : BOOLEAN]
  BY DEF JobRec
<1>3. job \in JobRec
  BY DEF DTypeOK
<1> HIDE DEF Left
<1>4. \A pc \in {"gone", "begin", "clear", "loop", "ready", "trial", "probe",
                 "unload", "restore", "restart", "final", "last"} :
          /\ Goes(pc) => job' \in JobRec /\ job'.pc = pc
          /\ \A b \in BOOLEAN : [job EXCEPT !.pc = pc, !.was = b] \in JobRec
  BY <1>2, <1>3 DEF Goes
<1>5. (NextOne /\ job.left # 0 => job' \in JobRec) /\ (NextOne => job'.pc = "loop")
  BY <1>1, <1>2, <1>3 DEF NextOne
<1>6. [job EXCEPT !.stop = TRUE] \in JobRec
  BY <1>2, <1>3
<1>7. \A pc \in {"gone", "begin"}, k \in {0, JobSize} :
          [pc |-> pc, left |-> k, was |-> FALSE, stop |-> FALSE] \in JobRec
  BY <1>1, <1>2
<1> QED BY <1>4, <1>5, <1>6, <1>7

LEMMA DTypesCommand ==
    ASSUME TypeOK, DTypeOK, NEW t \in Uis, ShutdownStopsTests(t) \/ Command(t)
    PROVE  DTypeOK'
<1> USE ThreadsAre
<1>0. /\ op \in Threads \cup {NoThread} /\ task \in [Uis -> TaskRec] /\ boot \in BootPcs
      /\ job \in JobRec /\ selected \in Names /\ power \in {"on", "down"}
  BY DEF DTypeOK
<1>r. Refuse(t) => DTypeOK'
  BY <1>0, TaskTypes DEF Refuse, DTypeOK
<1>u. StopUnderLock(t) => op' \in Threads \cup {NoThread} /\ task' \in [Uis -> TaskRec]
  BY TaskTypes DEF StopUnderLock
<1>l. \A want \in Names : Launch(t, want) => DTypeOK'
  BY <1>0, TaskTypes DEF Launch, DTypeOK
<1>1. CASE ShutdownStopsTests(t)
  <2>1. [NoTask EXCEPT !.pc = "warn", !.cmd = "shutdown"] \in TaskRec
    BY DEF NoTask, TaskRec, Commands, Names
  <2> QED BY <1>0, <1>1, <2>1, JobTypes DEF ShutdownStopsTests, DTypeOK
<1>2. CASE Start(t)
  BY <1>2, <1>r, <1>l, TaskTypes DEF Start
<1>3. CASE Stop(t) \/ StartTests(t) \/ Shutdown(t)
  BY <1>0, <1>3, <1>r, <1>u DEF Stop, StartTests, Shutdown, DTypeOK
<1>4. CASE StopTests(t)
  BY <1>0, <1>4, <1>r, <1>u, JobTypes DEF StopTests, DTypeOK
<1>5. CASE UpdateStrategies(t)
  BY <1>0, <1>5, <1>r, <1>u, TaskTypes DEF UpdateStrategies, DTypeOK
<1>6. CASE Applied(t)
  BY <1>0, <1>6, <1>l, TaskTypes DEF Applied, DTypeOK
<1>7. CASE ShutdownQueues(t)
  BY <1>0, <1>7, TaskTypes DEF ShutdownQueues, DTypeOK
<1>8. CASE ShutdownSet(t)
  BY <1>0, <1>8, TaskTypes DEF ShutdownSet, DTypeOK
<1>9. CASE Reply(t)
  <2>1. [pc |-> "begin", left |-> JobSize, was |-> FALSE, stop |-> FALSE] \in JobRec
    BY JobTypes
  <2>2. task' \in [Uis -> TaskRec] /\ op' \in Threads \cup {NoThread} /\ job' \in JobRec
    BY <1>0, <1>9, <2>1, TaskTypes DEF Reply
  <2>3. call[t].name \in Names
    BY DEF TypeOK, CallRec
  <2> QED BY <1>0, <1>9, <2>2, <2>3 DEF Reply, Remember, DTypeOK
<1> QED BY <1>1, <1>2, <1>3, <1>4, <1>5, <1>6, <1>7, <1>8, <1>9,
           ShutdownStopsTests(t) \/ Command(t) DEF Command

LEMMA DTypesOther ==
    ASSUME DTypeOK, TrialsLeft, Below \/ BootStep \/ BootstrapFails \/ TestStep
    PROVE  DTypeOK'
<1> USE ThreadsAre
<1>0. /\ op \in Threads \cup {NoThread} /\ task \in [Uis -> TaskRec] /\ boot \in BootPcs
      /\ job \in JobRec /\ selected \in Names /\ power \in {"on", "down"}
  BY DEF DTypeOK
<1>1. CASE Below
  BY <1>0, <1>1 DEF Below, daemon, DTypeOK
<1>2. CASE BootStep \/ BootstrapFails
  <2>1. boot' \in BootPcs /\ op' \in Threads \cup {NoThread}
    BY <1>0, <1>2 DEF BootStep, BootstrapFails, StartsMonitor, StartupUpdate,
       StartupUpdateStops, StartupUpdated, LaunchLast, LaunchedLast, BootstrapDone, Moves,
       BootPcs
  <2>2. UNCHANGED <<task, job, selected, power>>
    BY <1>2 DEF BootStep, BootstrapFails, StartsMonitor, StartupUpdate,
       StartupUpdateStops, StartupUpdated, LaunchLast, LaunchedLast, BootstrapDone
  <2> QED BY <1>0, <2>1, <2>2 DEF DTypeOK
<1>3. CASE TestStep
  <2>0. UNCHANGED <<op, task, boot, selected, power>>
    BY <1>3 DEF TestStep, TestsBegin, TestsCleared, NextStrategy, Trial, TrialStarted, Probed,
       Unloaded, Restore, Restored, LastStop, TestsEnd, Elsewhere
  <2>1. ASSUME TestsBegin \/ TestsEnd PROVE job' \in JobRec
    BY <1>0, <2>1, JobTypes DEF TestsBegin, TestsEnd
  <2>2. ASSUME TestsCleared \/ (\E s \in Strategies : Trial(s)) \/ Restore \/ Restored
                 \/ LastStop
        PROVE  job' \in JobRec
    BY <2>2, JobTypes DEF TestsCleared, Trial, Restore, Restored, LastStop
  <2>3. ASSUME NextStrategy \/ TrialStarted \/ Probed \/ Unloaded PROVE job' \in JobRec
    BY <2>3, JobTypes DEF NextStrategy, TrialStarted, Probed, Unloaded, TrialsLeft
  <2> QED BY <1>0, <1>3, <2>0, <2>1, <2>2, <2>3 DEF TestStep, DTypeOK
<1> QED BY <1>1, <1>2, <1>3

-----------------------------------------------------------------------------
(* The places: what one thread does leaves the others where they are.       *)

LEMMA InStartAfter ==
    ASSUME NEW t \in Threads
    PROVE  /\ call'[t].pc = "idle" => ~ InStart(t)'
           /\ call'[t].op = "stop" => ~ InStart(t)'
           /\ call'[t] = call[t] => InStart(t)' = InStart(t)
           /\ InStart(t)' => call'[t].pc # "idle"
           /\ call[t].pc \notin {"idle", "done"} /\ call'[t].op = call[t].op
                  => (InStart(t)' => InStart(t))
BY DEF InStart, InCall

LEMMA CommandPlaces ==
    ASSUME Places, NEW t \in Uis, boot' = boot,
           job'.pc = job.pc \/ (job.pc = "gone" /\ job'.pc = "begin"),
           \A u \in Threads \ {t} : call'[u] = call[u],
           \A u \in Uis \ {t} : task'[u] = task[u],
           call'[t].pc # "idle" <=> task'[t].pc \in {"call", "warn"},
           InStart(t)' => task'[t].pc = "call" /\ task'[t].cmd = "start"
    PROVE  Places'
<1> USE ThreadsAre
<1>1. \A u \in Threads \ {t} : InStart(u)' = InStart(u)
  BY InStartAfter
<1>2. ASSUME NEW u \in Uis
      PROVE  /\ call'[u].pc # "idle" <=> task'[u].pc \in {"call", "warn"}
             /\ InStart(u)' => task'[u].pc = "call" /\ task'[u].cmd = "start"
  BY <1>1 DEF Places
<1>3. /\ call'[Boot].pc # "idle" <=> boot' \in {"upcall", "call"}
      /\ InStart(Boot)' => boot' = "call"
  BY <1>1 DEF Places
<1>4. /\ call'[Tester].pc # "idle" <=>
             job'.pc \in {"clear", "trial", "unload", "restart", "last"}
      /\ InStart(Tester)' => job'.pc \in {"trial", "restart"}
  BY <1>1 DEF Places
<1> QED BY <1>2, <1>3, <1>4 DEF Places

LEMMA BootPlaces ==
    ASSUME Places, UNCHANGED task, job'.pc = job.pc,
           \A u \in Threads \ {Boot} : call'[u] = call[u],
           call'[Boot].pc # "idle" <=> boot' \in {"upcall", "call"},
           InStart(Boot)' => boot' = "call"
    PROVE  Places'
<1> USE ThreadsAre
<1>1. \A u \in Threads \ {Boot} : InStart(u)' = InStart(u)
  BY InStartAfter
<1>2. ASSUME NEW u \in Uis
      PROVE  /\ call'[u].pc # "idle" <=> task'[u].pc \in {"call", "warn"}
             /\ InStart(u)' => task'[u].pc = "call" /\ task'[u].cmd = "start"
  BY <1>1 DEF Places
<1>3. /\ call'[Tester].pc # "idle" <=>
             job'.pc \in {"clear", "trial", "unload", "restart", "last"}
      /\ InStart(Tester)' => job'.pc \in {"trial", "restart"}
  BY <1>1 DEF Places
<1> QED BY <1>2, <1>3 DEF Places

LEMMA TesterPlaces ==
    ASSUME Places, UNCHANGED <<task, boot>>,
           \A u \in Threads \ {Tester} : call'[u] = call[u],
           call'[Tester].pc # "idle" <=>
               job'.pc \in {"clear", "trial", "unload", "restart", "last"},
           InStart(Tester)' => job'.pc \in {"trial", "restart"}
    PROVE  Places'
<1> USE ThreadsAre
<1>1. \A u \in Threads \ {Tester} : InStart(u)' = InStart(u)
  BY InStartAfter
<1>2. ASSUME NEW u \in Uis
      PROVE  /\ call'[u].pc # "idle" <=> task'[u].pc \in {"call", "warn"}
             /\ InStart(u)' => task'[u].pc = "call" /\ task'[u].cmd = "start"
  BY <1>1 DEF Places
<1>3. /\ call'[Boot].pc # "idle" <=> boot' \in {"upcall", "call"}
      /\ InStart(Boot)' => boot' = "call"
  BY <1>1 DEF Places
<1> QED BY <1>2, <1>3 DEF Places

LEMMA BelowPlaces ==
    ASSUME TypeOK, Places, Below
    PROVE  Places'
<1> USE ThreadsAre
<1>0. UNCHANGED <<task, boot, job>>
  BY DEF Below, daemon
<1>1. ASSUME NEW t \in Threads, Step(t)
      PROVE  /\ \A u \in Threads : call'[u].pc # "idle" <=> call[u].pc # "idle"
             /\ \A u \in Threads : InStart(u)' => InStart(u)
  <2>1. /\ call[t].pc # "idle" /\ call'[t].pc # "idle"
        /\ call[t].pc # "done" /\ call'[t].op = call[t].op
        /\ \A u \in Threads \ {t} : call'[u] = call[u]
    BY <1>1, CallsAfter
  <2>2. InStart(t)' => InStart(t)
    BY <2>1, InStartAfter
  <2> QED BY <2>1, <2>2, InStartAfter
<1>2. ASSUME UNCHANGED call
      PROVE  /\ \A u \in Threads : call'[u].pc # "idle" <=> call[u].pc # "idle"
             /\ \A u \in Threads : InStart(u)' => InStart(u)
  BY <1>2 DEF InStart, InCall
<1>3. MonitorStep \/ (\E p \in Pids : EngineExits(p)) => UNCHANGED call
  BY DEF MonitorStep, Probe, ReadName, ReportUp, ReportDown, EngineExits
<1>4. /\ \A u \in Threads : call'[u].pc # "idle" <=> call[u].pc # "idle"
      /\ \A u \in Threads : InStart(u)' => InStart(u)
  BY <1>1, <1>2, <1>3 DEF Below
<1> QED BY <1>0, <1>4 DEF Places

-----------------------------------------------------------------------------
(* What the commands leave true.                                            *)

Discipline == Places /\ OpOwner /\ Guards /\ TrialsLeft

(* A command that has taken the lock and calls the runner. *)
LEMMA LockedCall ==
    ASSUME DInv, NEW t \in Uis, NEW cmd, op = NoThread, op' = t,
           task'[t].pc = "call", task'[t].cmd = cmd,
           \A u \in Uis \ {t} : task'[u] = task[u],
           \A u \in Threads \ {t} : call'[u] = call[u],
           call'[t].pc = "enter", call'[t].op = "start" => cmd = "start",
           cmd \in {"start", "tests"} => BootDone,
           TestsAlive => cmd \in {"stoptests", "shutdown"},
           boot' = boot, job'.pc = job.pc, job'.left = job.left
    PROVE  Discipline'
<1> USE ThreadsAre DEF DInv
<1>1. call'[t].op = "stop" \/ cmd = "start" \/ ~ InStart(t)'
  BY InStartAfter DEF InStart, InCall
<1>2. InStart(t)' => task'[t].cmd = "start"
  BY DEF InStart
<1>3. Places'
  BY <1>2, CommandPlaces
<1>4. OpOwner'
  BY DEF OpOwner
<1>5. Guards' /\ TrialsLeft'
  BY DEF Guards, OpOwner, TrialsLeft, BootDone, TestsAlive
<1> QED BY <1>3, <1>4, <1>5 DEF Discipline

LEMMA RefuseKeeps ==
    ASSUME DInv, NEW t \in Uis, task[t].pc = "queue", Refuse(t)
    PROVE  Discipline'
<1> USE ThreadsAre DEF DInv
<1>1. /\ UNCHANGED <<call, op, boot, job>> /\ task'[t].pc = "idle"
      /\ \A u \in Uis \ {t} : task'[u] = task[u]
  BY TasksAfter DEF Refuse, Quietly, vars
<1>2. call[t].pc = "idle"
  BY DEF Places
<1>3. Places'
  BY <1>1, <1>2, CommandPlaces, InStartAfter
<1>4. OpOwner' /\ Guards' /\ TrialsLeft'
  BY <1>1 DEF OpOwner, Guards, TrialsLeft, BootDone, TestsAlive
<1> QED BY <1>3, <1>4 DEF Discipline

LEMMA TakenKeeps ==
    ASSUME DInv, NEW t \in Uis,
           Start(t) \/ Stop(t) \/ StartTests(t) \/ StopTests(t) \/ Shutdown(t)
    PROVE  Discipline'
<1> USE ThreadsAre DEF DInv
<1>1. CASE Refuse(t)
  BY <1>1, RefuseKeeps DEF Start, Stop, StartTests, StopTests, Shutdown, Take, At2,
     StopUnderLock
<1>2. ASSUME Start(t), ~ TestsAlive, Launch(t, Wanted(t)) PROVE Discipline'
  <2>1. /\ op = NoThread /\ op' = t /\ task[t].cmd = "start" /\ task[t].pc = "queue"
        /\ UNCHANGED <<boot, job>>
    BY <1>2 DEF Start, Take, At2, Launch
  <2>2. /\ task'[t].pc = "call" /\ task'[t].cmd = "start"
        /\ \A u \in Uis \ {t} : task'[u] = task[u]
    BY <1>2, TasksAfter DEF Launch
  <2>3. /\ call'[t].pc = "enter" /\ \A u \in Threads \ {t} : call'[u] = call[u]
    BY <1>2, CallsAfter DEF Launch, IInv
  <2>4. BootDone
    BY <2>1 DEF Guards
  <2> QED BY <1>2, <2>1, <2>2, <2>3, <2>4, LockedCall
<1>3. ASSUME StopUnderLock(t), Stop(t) \/ StartTests(t) \/ StopTests(t) \/ Shutdown(t)
      PROVE  Discipline'
  <2>1. /\ op = NoThread /\ op' = t /\ task[t].pc = "queue" /\ task[t].cmd # "start"
        /\ boot' = boot /\ job'.pc = job.pc /\ job'.left = job.left
    BY <1>3 DEF StopUnderLock, Refuse, Stop, StartTests, StopTests, Shutdown, Take, At2,
       DTypeOK, JobRec
  <2>2. /\ task'[t].pc = "call" /\ task'[t].cmd = task[t].cmd
        /\ \A u \in Uis \ {t} : task'[u] = task[u]
    BY <1>3, TasksAfter DEF StopUnderLock
  <2>3. /\ call'[t].pc = "enter" /\ call'[t].op = "stop"
        /\ \A u \in Threads \ {t} : call'[u] = call[u]
    BY <1>3, CallsAfter DEF StopUnderLock, IInv
  <2>4. task[t].cmd \in {"start", "tests"} => BootDone
    BY <2>1 DEF Guards
  <2>5. TestsAlive => task[t].cmd \in {"stoptests", "shutdown"}
    <3>1. Refuse(t) => task'[t].pc = "idle"
      BY TasksAfter DEF Refuse
    <3> QED BY <1>3, <2>2, <3>1 DEF Stop, StartTests, StopTests, Shutdown, Take, At2
  <2> QED BY <2>1, <2>2, <2>3, <2>4, <2>5, LockedCall
<1>4. Start(t) => Refuse(t) \/ (~ TestsAlive /\ Launch(t, Wanted(t)))
  BY DEF Start
<1>5. Stop(t) \/ StartTests(t) \/ StopTests(t) \/ Shutdown(t) => Refuse(t) \/ StopUnderLock(t)
  BY DEF Stop, StartTests, StopTests, Shutdown
<1> QED BY <1>1, <1>2, <1>3, <1>4, <1>5

LEMMA UpdateKeeps ==
    ASSUME DInv, NEW t \in Uis, UpdateStrategies(t)
    PROVE  Discipline'
<1> USE ThreadsAre DEF DInv
<1>0. op = NoThread /\ task[t].pc = "queue" /\ task[t].cmd = "update"
  BY DEF UpdateStrategies, Take, At2
<1>1. CASE Refuse(t)
  BY <1>0, <1>1, RefuseKeeps
<1>2. CASE ~ TestsAlive /\ StopUnderLock(t) /\ UNCHANGED <<boot, job, selected, power>>
  <2>1. /\ op' = t /\ task'[t].pc = "call" /\ task'[t].cmd = "update"
        /\ \A u \in Uis \ {t} : task'[u] = task[u]
    BY <1>0, <1>2, TasksAfter DEF StopUnderLock
  <2>2. /\ call'[t].pc = "enter" /\ call'[t].op = "stop"
        /\ \A u \in Threads \ {t} : call'[u] = call[u]
    BY <1>2, CallsAfter DEF StopUnderLock, IInv
  <2> QED BY <1>0, <1>2, <2>1, <2>2, LockedCall
<1>3. CASE ~ TestsAlive /\ op' = t /\ Serve(t, "apply") /\ Quietly /\ UNCHANGED <<boot, job>>
  <2>1. /\ task'[t].pc = "apply" /\ task'[t].cmd = "update"
        /\ \A u \in Uis \ {t} : task'[u] = task[u]
    BY <1>0, <1>3, TasksAfter
  <2>2. UNCHANGED call /\ call[t].pc = "idle"
    BY <1>0, <1>3 DEF Quietly, vars, Places
  <2>3. Places'
    BY <1>3, <2>1, <2>2, CommandPlaces, InStartAfter
  <2>4. OpOwner' /\ Guards' /\ TrialsLeft'
    BY <1>0, <1>3, <2>1 DEF OpOwner, Guards, TrialsLeft, BootDone, TestsAlive
  <2> QED BY <2>3, <2>4 DEF Discipline
<1> QED BY <1>1, <1>2, <1>3 DEF UpdateStrategies

LEMMA AppliedKeeps ==
    ASSUME DInv, NEW t \in Uis, Applied(t)
    PROVE  Discipline'
<1> USE ThreadsAre DEF DInv
<1>0. op = t /\ ~ TestsAlive
  BY DEF Applied, OpOwner, Guards
<1>1. CASE task[t].pc = "reapply" /\ BootDone /\ Launch(t, selected)
  <2>1. /\ op' = t /\ task'[t].pc = "call" /\ task'[t].cmd = "start"
        /\ \A u \in Uis \ {t} : task'[u] = task[u]
    BY <1>1, TasksAfter DEF Launch
  <2>2. /\ call'[t].pc = "enter" /\ \A u \in Threads \ {t} : call'[u] = call[u]
    BY <1>1, CallsAfter DEF Launch, IInv
  <2>4. UNCHANGED <<boot, job>>
    BY <1>1 DEF Launch
  <2>5. Places'
    BY <2>1, <2>2, <2>4, CommandPlaces
  <2>6. OpOwner' /\ Guards' /\ TrialsLeft'
    BY <1>0, <1>1, <2>1, <2>4 DEF OpOwner, Guards, TrialsLeft, BootDone, TestsAlive
  <2> QED BY <2>5, <2>6 DEF Discipline
<1>2. CASE op' = NoThread /\ Done(t) /\ Quietly /\ UNCHANGED <<boot, job, selected, power>>
  <2>1. /\ task'[t].pc = "idle" /\ \A u \in Uis \ {t} : task'[u] = task[u]
    BY <1>2, TasksAfter
  <2>2. UNCHANGED call /\ call[t].pc = "idle"
    BY <1>2 DEF Applied, Quietly, vars, Places
  <2>3. Places'
    BY <1>2, <2>1, <2>2, CommandPlaces, InStartAfter
  <2>4. OpOwner' /\ Guards' /\ TrialsLeft'
    BY <1>0, <1>2, <2>1 DEF OpOwner, Guards, TrialsLeft, BootDone, TestsAlive
  <2> QED BY <2>3, <2>4 DEF Discipline
<1> QED BY <1>1, <1>2 DEF Applied

LEMMA ReplyKeeps ==
    ASSUME DInv, NEW t \in Uis, Reply(t)
    PROVE  Discipline'
<1> USE ThreadsAre DEF DInv
<1>0. /\ op = t /\ boot' = boot /\ task[t].pc = "call"
      /\ job' = job \/ (task[t].cmd = "tests" /\ job'.pc = "begin")
  BY DEF Reply, OpOwner
<1>1. /\ call'[t].pc = "idle" /\ ~ InStart(t)'
      /\ \A u \in Threads \ {t} : call'[u] = call[u]
  BY CallsAfter, InStartAfter DEF Reply, IInv
<1>2. /\ \/ op' = NoThread /\ task'[t].pc \in {"idle", "closing"}
         \/ op' = t /\ task'[t].pc = "reapply" /\ task[t].cmd = "update"
      /\ task'[t].cmd = task[t].cmd \/ task'[t].pc = "idle"
      /\ \A u \in Uis \ {t} : task'[u] = task[u]
  BY <1>0, TasksAfter DEF Reply
<1>3. job' = job \/ (job.pc = "gone" /\ job'.pc = "begin" /\ BootDone)
  BY <1>0 DEF Guards, TestsAlive
<1>4. Places'
  BY <1>0, <1>1, <1>2, <1>3, CommandPlaces
<1>5. OpOwner'
  BY <1>0, <1>2 DEF OpOwner
<1>6. Guards' /\ TrialsLeft'
  BY <1>0, <1>2, <1>3 DEF Guards, OpOwner, TrialsLeft, BootDone, TestsAlive
<1> QED BY <1>4, <1>5, <1>6 DEF Discipline

LEMMA UnlockedKeeps ==
    ASSUME DInv, NEW t \in Uis,
           ShutdownStopsTests(t) \/ ShutdownQueues(t) \/ ShutdownSet(t)
             \/ \E cmd \in Commands, want \in Names : Receive(t, cmd, want)
    PROVE  Discipline'
<1> USE ThreadsAre DEF DInv
<1>0. op' = op /\ boot' = boot /\ job'.pc = job.pc /\ job'.left = job.left
  BY DEF ShutdownStopsTests, ShutdownQueues, ShutdownSet, Receive, DTypeOK, JobRec
<1>1. /\ task[t].pc \in {"idle", "warn", "closing"}
      /\ task'[t].pc \in {"idle", "warn", "queue"}
      /\ task'[t].cmd \in {"start", "tests"} /\ task'[t].pc # "idle" => BootDone
      /\ \A u \in Uis \ {t} : task'[u] = task[u]
  <2>1. ShutdownStopsTests(t) => task[t].pc = "idle" /\ task'[t].pc = "warn"
                                   /\ task'[t].cmd = "shutdown"
                                   /\ \A u \in Uis \ {t} : task'[u] = task[u]
    BY DEF ShutdownStopsTests, DTypeOK, NoTask
  <2>2. ShutdownQueues(t) => task[t].pc = "warn" /\ task'[t].pc = "queue"
                                   /\ task'[t].cmd = "shutdown"
                                   /\ \A u \in Uis \ {t} : task'[u] = task[u]
    BY TasksAfter DEF ShutdownQueues, At2
  <2>3. ShutdownSet(t) => task[t].pc = "closing" /\ task'[t].pc = "idle"
                                   /\ \A u \in Uis \ {t} : task'[u] = task[u]
    BY TasksAfter DEF ShutdownSet
  <2>4. ASSUME NEW cmd, NEW want, Receive(t, cmd, want)
        PROVE  /\ task[t].pc = "idle" /\ task'[t].pc = "queue" /\ task'[t].cmd = cmd
               /\ cmd \in {"start", "tests"} => BootDone
               /\ \A u \in Uis \ {t} : task'[u] = task[u]
    BY <2>4 DEF Receive, DTypeOK
  <2> QED BY <2>1, <2>2, <2>3, <2>4
<1>2. /\ call'[t].pc # "idle" <=> task'[t].pc \in {"call", "warn"}
      /\ ~ InStart(t)'
      /\ \A u \in Threads \ {t} : call'[u] = call[u]
  <2>1. CASE ShutdownStopsTests(t)
    <3>1. CallStop(t) /\ task'[t].pc = "warn"
      BY <2>1 DEF ShutdownStopsTests, DTypeOK
    <3> QED BY <3>1, CallsAfter, InStartAfter DEF IInv
  <2>2. CASE ShutdownQueues(t)
    <3>1. Return(t) /\ task'[t].pc = "queue"
      BY <2>2, TasksAfter DEF ShutdownQueues
    <3> QED BY <3>1, CallsAfter, InStartAfter DEF IInv
  <2>3. ASSUME UNCHANGED vars, task[t].pc \in {"idle", "closing"},
               task'[t].pc \in {"idle", "queue"}
        PROVE  /\ call'[t].pc # "idle" <=> task'[t].pc \in {"call", "warn"}
               /\ ~ InStart(t)'
               /\ \A u \in Threads \ {t} : call'[u] = call[u]
    BY <2>3, InStartAfter DEF Places, vars
  <2>4. ShutdownSet(t) => UNCHANGED vars /\ task[t].pc = "closing" /\ task'[t].pc = "idle"
    BY TasksAfter DEF ShutdownSet, Quietly
  <2>5. \A cmd, want : Receive(t, cmd, want) =>
            UNCHANGED vars /\ task[t].pc = "idle" /\ task'[t].pc = "queue"
    BY DEF Receive, Quietly, DTypeOK
  <2> QED BY <2>1, <2>2, <2>3, <2>4, <2>5
<1>3. Places'
  BY <1>0, <1>2, <1>1, CommandPlaces
<1>4. OpOwner'
  BY <1>0, <1>1 DEF OpOwner
<1>5. Guards' /\ TrialsLeft'
  BY <1>0, <1>1 DEF Guards, TrialsLeft, BootDone, TestsAlive
<1> QED BY <1>3, <1>4, <1>5 DEF Discipline

(* What the bootstrap leaves true: whatever it does, it is not over.        *)
LEMMA BootKeeps ==
    ASSUME DInv, BootStep \/ BootstrapFails
    PROVE  Discipline'
<1> USE ThreadsAre DEF DInv
<1>0. UNCHANGED <<task, job>> /\ boot # "gone"
  BY DEF BootStep, BootstrapFails, StartsMonitor, StartupUpdate, StartupUpdateStops,
     StartupUpdated, LaunchLast, LaunchedLast, BootstrapDone
<1>1. ~ TestsAlive
  BY <1>0 DEF Guards, BootDone
<1>2. \A u \in Uis : task[u].pc # "idle" => task[u].cmd \notin {"start", "tests"}
  BY <1>0 DEF Guards, BootDone
<1>3. Guards' /\ TrialsLeft'
  BY <1>0, <1>1, <1>2 DEF Guards, TrialsLeft, TestsAlive
<1>4. /\ \A u \in Threads \ {Boot} : call'[u] = call[u]
      /\ call'[Boot].pc # "idle" <=> boot' \in {"upcall", "call"}
      /\ InStart(Boot)' => boot' = "call"
  <2>1. CASE StartupUpdateStops
    BY <2>1, CallsAfter, InStartAfter DEF StartupUpdateStops, IInv, Moves
  <2>2. CASE StartupUpdated
    BY <2>2, CallsAfter, InStartAfter DEF StartupUpdated, IInv, Moves
  <2>3. CASE LaunchedLast
    BY <2>3, CallsAfter, InStartAfter DEF LaunchedLast, IInv, Moves
  <2>4. CASE boot = "launch" /\ CallStart(Boot, selected) /\ Moves("call")
    BY <2>4, CallsAfter DEF IInv, Moves
  <2>5. ASSUME UNCHANGED call, boot \notin {"upcall", "call"}, boot' \notin {"upcall", "call"}
        PROVE  /\ \A u \in Threads \ {Boot} : call'[u] = call[u]
               /\ call'[Boot].pc # "idle" <=> boot' \in {"upcall", "call"}
               /\ InStart(Boot)' => boot' = "call"
    BY <2>5, InStartAfter DEF Places
  <2>6. StartsMonitor \/ StartupUpdate \/ BootstrapFails \/ BootstrapDone
          \/ (boot = "launch" /\ Quietly /\ Moves("finally"))
          => /\ UNCHANGED call
             /\ boot \notin {"upcall", "call"} /\ boot' \notin {"upcall", "call"}
    BY DEF StartsMonitor, StartMonitor, StartupUpdate, BootstrapFails, BootstrapDone, Quietly,
       vars, Moves
  <2>7. LaunchLast => \/ boot = "launch" /\ CallStart(Boot, selected) /\ Moves("call")
                      \/ boot = "launch" /\ Quietly /\ Moves("finally")
    BY DEF LaunchLast
  <2> QED BY <2>1, <2>2, <2>3, <2>4, <2>5, <2>6, <2>7 DEF BootStep
<1>5. Places'
  BY <1>0, <1>4, BootPlaces
<1>6. OpOwner'
  BY <1>0 DEF OpOwner, BootStep, BootstrapFails, StartsMonitor, StartupUpdate,
     StartupUpdateStops, StartupUpdated, LaunchLast, LaunchedLast, BootstrapDone, Moves
<1> QED BY <1>3, <1>5, <1>6 DEF Discipline

(* What the test thread leaves true: it is alive, and it never holds op.    *)
LEMMA TestsKeep ==
    ASSUME DInv, TestStep
    PROVE  Discipline'
<1> USE ThreadsAre DEF DInv
<1>0. UNCHANGED <<op, task, boot>> /\ TestsAlive
  BY DEF TestStep, TestsBegin, TestsCleared, NextStrategy, Trial, TrialStarted, Probed,
     Unloaded, Restore, Restored, LastStop, TestsEnd, Elsewhere, TestsAlive
<1> DEFINE In == {"clear", "trial", "unload", "restart", "last"}
           Good == /\ \A u \in Threads \ {Tester} : call'[u] = call[u]
                   /\ call'[Tester].pc # "idle" <=> job'.pc \in In
                   /\ InStart(Tester)' => job'.pc \in {"trial", "restart"}
<1>1. ASSUME CallStop(Tester), job'.pc \in In PROVE Good
  BY <1>1, CallsAfter, InStartAfter DEF IInv
<1>2. ASSUME Return(Tester), job'.pc \notin In PROVE Good
  BY <1>2, CallsAfter, InStartAfter DEF IInv
<1>3. ASSUME NEW s, CallStart(Tester, s), job'.pc \in {"trial", "restart"} PROVE Good
  BY <1>3, CallsAfter DEF IInv
<1>4. ASSUME Quietly, job.pc \notin In, job'.pc \notin In PROVE Good
  BY <1>4, InStartAfter DEF Quietly, vars, Places
<1>5. /\ \A pc \in {"gone", "begin", "clear", "loop", "ready", "trial", "probe",
                    "unload", "restore", "restart", "final", "last"} :
            Goes(pc) => job'.pc = pc /\ job'.left = job.left
      /\ NextOne => job'.pc = "loop"
  <2>1. job \in JobRec
    BY DEF DTypeOK
  <2>2. ASSUME NEW pc, Goes(pc) PROVE job'.pc = pc /\ job'.left = job.left
    BY <2>1, <2>2 DEF Goes, JobRec
  <2>3. NextOne => job'.pc = "loop"
    BY <2>1 DEF NextOne, JobRec
  <2> QED BY <2>2, <2>3
<1>6. Good /\ TrialsLeft'
  <2> HIDE DEF Good
  <2>1. CASE TestsBegin
    <3>1. CASE Goes("final") /\ Quietly
      BY <2>1, <3>1, <1>4, <1>5 DEF TestsBegin, TrialsLeft
    <3>2. CASE job' = [job EXCEPT !.pc = "clear", !.was = (rt.phase = "running")]
                 /\ CallStop(Tester)
      <4>1. job'.pc = "clear"
        BY <3>2 DEF DTypeOK, JobRec
      <4> QED BY <3>2, <4>1, <1>1 DEF TrialsLeft
    <3> QED BY <2>1, <3>1, <3>2 DEF TestsBegin
  <2>2. CASE TestsCleared
    BY <2>2, <1>2, <1>5 DEF TestsCleared, TrialsLeft
  <2>3. CASE NextStrategy
    BY <2>3, <1>4, <1>5 DEF NextStrategy, TrialsLeft
  <2>4. CASE \E s \in Strategies : Trial(s)
    BY <2>4, <1>3, <1>5 DEF Trial, TrialsLeft
  <2>5. CASE TrialStarted
    BY <2>5, <1>2, <1>5 DEF TrialStarted, TrialsLeft
  <2>6. CASE Probed
    BY <2>6, <1>1, <1>4, <1>5 DEF Probed, TrialsLeft
  <2>7. CASE Unloaded
    BY <2>7, <1>2, <1>5 DEF Unloaded, TrialsLeft
  <2>8. CASE Restore
    BY <2>8, <1>3, <1>4, <1>5 DEF Restore, TrialsLeft
  <2>9. CASE Restored
    BY <2>9, <1>2, <1>5 DEF Restored, TrialsLeft
  <2>10. CASE LastStop
    BY <2>10, <1>1, <1>5 DEF LastStop, TrialsLeft
  <2>11. CASE TestsEnd
    BY <2>11, <1>2 DEF TestsEnd, TrialsLeft
  <2> QED BY <2>1, <2>2, <2>3, <2>4, <2>5, <2>6, <2>7, <2>8, <2>9, <2>10, <2>11 DEF TestStep
<1>7. Places'
  BY <1>0, <1>6, TesterPlaces
<1>8. OpOwner' /\ Guards'
  BY <1>0 DEF OpOwner, Guards, BootDone
<1> QED BY <1>6, <1>7, <1>8 DEF Discipline

LEMMA BelowKeeps ==
    ASSUME DInv, Below
    PROVE  Discipline'
<1>1. Places'
  BY BelowPlaces DEF DInv, IInv
<1>2. UNCHANGED daemon
  BY DEF Below
<1>3. OpOwner' /\ Guards' /\ TrialsLeft'
  BY <1>2 DEF DInv, daemon, OpOwner, Guards, TrialsLeft, BootDone, TestsAlive
<1> QED BY <1>1, <1>3 DEF Discipline

-----------------------------------------------------------------------------
LEMMA DaemonInit ==
    ASSUME DInit
    PROVE  DInv
<1> USE ThreadsAre
<1>1. IInv
  BY InvariantInit DEF DInit
<1>2. DTypeOK
  <2>1. NoTask \in TaskRec
    BY DEF NoTask, TaskRec, Commands, Names
  <2>2. 0 \in 0..JobSize
    BY DaemonAssumption
  <2> QED BY <2>1, <2>2 DEF DInit, DTypeOK, BootPcs, JobRec
<1>3. \A t \in Threads : call[t].pc = "idle" /\ ~ InStart(t)
  BY DEF DInit, Init, NoCall, InStart, InCall
<1>4. Places /\ OpOwner /\ Guards /\ TrialsLeft
  BY <1>3 DEF DInit, NoTask, Places, OpOwner, Guards, TrialsLeft, TestsAlive
<1> QED BY <1>1, <1>2, <1>4 DEF DInv

LEMMA DaemonStep ==
    ASSUME DInv, [DNext]_dvars
    PROVE  DInv'
<1>1. IInv'
  BY EngineInDaemon DEF DInv
<1>2. CASE DNext
  <2>1. DTypeOK'
    <3>1. ASSUME NEW t \in Uis, NEW cmd \in Commands, NEW want \in Names,
                 Receive(t, cmd, want)
          PROVE  DTypeOK'
      BY <3>1 DEF DInv, Receive, DTypeOK, TaskRec
    <3> QED BY <1>2, <3>1, DTypesCommand, DTypesOther DEF DInv, IInv, DNext
  <2>2. Discipline'
    <3>1. ASSUME NEW t \in Uis, ShutdownStopsTests(t) \/ Command(t)
          PROVE  Discipline'
      BY <3>1, TakenKeeps, UpdateKeeps, AppliedKeeps, ReplyKeeps, UnlockedKeeps DEF Command
    <3> QED BY <1>2, <3>1, UnlockedKeeps, BelowKeeps, BootKeeps, TestsKeep DEF DNext
  <2> QED BY <1>1, <2>1, <2>2 DEF DInv, Discipline
<1>3. CASE UNCHANGED dvars
  <2>1. DTypeOK'
    BY <1>3 DEF DInv, dvars, daemon, DTypeOK
  <2>2. Places'
    BY <1>3 DEF DInv, dvars, vars, daemon, Places, InStart, InCall
  <2>3. OpOwner' /\ Guards' /\ TrialsLeft'
    BY <1>3 DEF DInv, dvars, daemon, OpOwner, Guards, TrialsLeft, BootDone, TestsAlive
  <2> QED BY <1>1, <2>1, <2>2, <2>3 DEF DInv
<1> QED BY <1>2, <1>3

-----------------------------------------------------------------------------
(* The daemon keeps its invariant: whatever commands arrive, however they  *)
(* interleave with the bootstrap and the tests, for any number of threads. *)
THEOREM DaemonInvariant == DSpec => []DInv
<1>1. DInit => DInv
  BY DaemonInit
<1>2. DInv /\ [DNext]_dvars => DInv'
  BY DaemonStep
<1> QED BY <1>1, <1>2, PTL DEF DSpec

(* Who may be inside a start: nobody, the bootstrap before it is over, the *)
(* one command that holds the lock, or the test thread.                    *)
LEMMA WhoStarts ==
    ASSUME DInv, NEW t \in Threads, InStart(t)
    PROVE  \/ t = Boot /\ ~ BootDone /\ ~ TestsAlive
           \/ t \in Uis /\ BootDone /\ ~ TestsAlive /\ op = t /\ task[t].cmd = "start"
           \/ t = Tester /\ BootDone /\ TestsAlive
<1> USE ThreadsAre DEF DInv
<1>1. CASE t \in Uis
  BY <1>1, InStart(t) DEF Places, OpOwner, Guards
<1>2. CASE t = Boot
  BY <1>2, InStart(t) DEF Places, Guards, BootDone
<1>3. CASE t = Tester
  BY <1>3, InStart(t) DEF Places, Guards, TestsAlive
<1> QED BY <1>1, <1>2, <1>3

(* However the three routes into the runner interleave, only one start is  *)
(* under way: the commands' lock, the refusals while the bootstrap or the  *)
(* tests are at work and the places they are made at are enough for it.    *)
THEOREM OneStartAtATime == DSpec => []StartsSerialised
<1>1. DInv => StartsSerialised
  <2>1. SUFFICES ASSUME DInv, NEW t \in Threads, NEW u \in Threads,
                        InStart(t), InStart(u)
                 PROVE  t = u
    BY DEF StartsSerialised
  <2> QED BY <2>1, WhoStarts
<1> QED BY <1>1, DaemonInvariant, PTL

(* While the tests run no command and no bootstrap launches an engine.     *)
THEOREM TestsAreUndisturbed == DSpec => []TestsOwnEngine
<1>1. DInv => TestsOwnEngine
  <2>1. SUFFICES ASSUME DInv, TestsAlive, NEW t \in Threads \ {Tester}, InStart(t)
                 PROVE  FALSE
    BY DEF TestsOwnEngine
  <2> QED BY <2>1, WhoStarts
<1> QED BY <1>1, DaemonInvariant, PTL

(* After the bootstrap, a Stop, an update and the start of the tests stop  *)
(* an engine that nobody is about to launch again.                         *)
THEOREM StopWins == DSpec => []StopIsFinal
<1>1. DInv => StopIsFinal
  <2>1. SUFFICES ASSUME DInv, NEW t \in Uis, BootDone, task[t].pc = "call",
                        task[t].cmd \in {"stop", "update", "tests"},
                        NEW u \in Threads, InStart(u)
                 PROVE  FALSE
    BY DEF StopIsFinal
  <2>2. op = t
    BY <2>1 DEF DInv, OpOwner
  <2>3. ~ TestsAlive
    BY <2>1 DEF DInv, Guards
  <2> QED BY <2>1, <2>2, <2>3, WhoStarts
<1> QED BY <1>1, DaemonInvariant, PTL

(* With the lock free and no shutdown stopping tests, the runner is empty. *)
THEOREM RunnerFallsQuiet == DSpec => []QuietRunner
<1> USE ThreadsAre
<1>1. DInv => QuietRunner
  <2>1. SUFFICES ASSUME DInv, op = NoThread, BootDone, ~ TestsAlive,
                        \A t \in Uis : task[t].pc # "warn", NEW t \in Threads, InCall(t)
                 PROVE  FALSE
    BY DEF QuietRunner
  <2>2. call[t].pc # "idle"
    BY <2>1 DEF InCall
  <2> QED BY <2>1, <2>2 DEF DInv, Places, OpOwner, BootDone, TestsAlive
<1> QED BY <1>1, DaemonInvariant, PTL

(* The launcher's guarantees survive the bootstrap's mark_failed and every *)
(* thread of the daemon: one engine, never lost, its state coherent.       *)
THEOREM EngineSafeInDaemon == DSpec => []IInv
<1>1. DInv => IInv
  BY DEF DInv
<1> QED BY <1>1, DaemonInvariant, PTL

-----------------------------------------------------------------------------
(* The status names the engine that runs, in the daemon too: that only one *)
(* start is under way needs no assumption there.                           *)
LEMMA DaemonStartsOne ==
    ASSUME DInv
    PROVE  OneStarter
<1>1. SUFFICES ASSUME NEW t \in Threads, NEW u \in Threads, InStart(t), InStart(u)
               PROVE  t = u
  BY DEF OneStarter, Starting, InStart, InCall
<1> QED BY <1>1, WhoStarts

(* The bootstrap marks a failure only while nobody starts an engine.        *)
LEMMA StatusBootFails ==
    ASSUME DInv, StatusInv, BootstrapFails
    PROVE  StatusInv'
<1> USE ThreadsAre
<1>1. \A t \in Threads : ~ InStart(t)
  BY WhoStarts DEF BootstrapFails, BootDone, DInv, Places
<1>2. \A t \in Threads : call[t].pc \notin {"spawn", "wait"}
  BY <1>1 DEF StatusInv, CallOps, InStart, InCall
<1>3. rt'.name = rt.name /\ UNCHANGED <<os, call, mon, sampled, Alive>>
  BY DEF BootstrapFails, DInv, IInv, TypeOK, StatusRec, Alive
<1> QED BY <1>2, <1>3 DEF StatusInv, CallOps, StartShown, MonitorInStep, Sampled, At

(* If taskkill works and every startup wait contains a probe, the daemon's  *)
(* status never puts one strategy's name on another's engine, however       *)
(* commands, bootstrap and tests start and stop it.                         *)
THEOREM DaemonNamesTruly ==
    ASSUME ~ KillMayFail, MonitorKeepsUp
    PROVE  DSpec => []StatusNamesEngine
<1>1. DInit => StatusInv
  BY StatusInit DEF DInit
<1>2. DInv /\ StatusInv /\ [DNext]_dvars => StatusInv'
  <2>1. DInv /\ [DNext]_dvars => [Next]_vars \/ BootstrapFails
    BY DaemonStepsEngine DEF DInv, dvars
  <2>2. DInv => IInv /\ OneStarter
    BY DaemonStartsOne DEF DInv
  <2> QED BY <2>1, <2>2, StatusNext, StatusBootFails
<1> QED BY <1>1, <1>2, StatusNames, DaemonInvariant, PTL DEF DSpec

-----------------------------------------------------------------------------
(* What runs is what is selected.  A command's start names its engine at   *)
(* the spawn and the settings at the reply; in between (Fresh) the two may *)
(* differ, and nobody else launches.                                       *)

Fresh(t) ==
    /\ task[t].pc = "call" /\ task[t].cmd = "start"
    /\ At(t, "wait") \/ (At(t, "done") /\ call[t].result = "ok")

Named(n) == \A p \in Alive : os[p].name \in {NoName, n}

(* A command to start calls start; a start of the bootstrap asks for what   *)
(* is selected.                                                             *)
StartOps ==
    /\ \A t \in Uis : task[t].pc = "call" /\ task[t].cmd = "start" => call[t].op = "start"
    /\ InStart(Boot) => call[Boot].name = selected

FreshNamed == \A t \in Uis : Fresh(t) => Named(call[t].name)

Settled == ~ TestsAlive /\ (\A t \in Uis : ~ Fresh(t)) => Named(selected)

(* The last stop of the tests leaves nothing running. *)
LastEmpty == job.pc = "last" /\ At(Tester, "done") => Alive = {}

SelectedInv == CallOps /\ StartOps /\ FreshNamed /\ Settled /\ LastEmpty

(* Only one command at a time can be fresh, outside bootstrap and tests.    *)
LEMMA FreshIsAlone ==
    ASSUME DInv, NEW t \in Uis, Fresh(t)
    PROVE  op = t /\ BootDone /\ ~ TestsAlive
BY DEF DInv, Fresh, OpOwner, Guards

LEMMA SelectedSpawn ==
    ASSUME DInv, SelectedInv, ~ KillMayFail, NEW t \in Threads, Spawn(t), UNCHANGED daemon
    PROVE  FreshNamed' /\ Settled' /\ LastEmpty'
<1> USE ThreadsAre DEF At
<1>0. TypeOK /\ call \in [Threads -> CallRec]
  BY DEF DInv, IInv, TypeOK
<1>1. UNCHANGED <<task, job, boot, selected, op>>
  BY DEF daemon
<1>2. SameCall(t) /\ call[t].pc = "spawn" /\ call'[t].pc = "wait"
  BY <1>0, CallAfter DEF Spawn
<1>3. \A p \in Alive' : os'[p].name = call[t].name
  <2>1. Alive = {}
    BY <1>2 DEF DInv, IInv, Progress, HoldsLock
  <2>2. PICK p \in Pids : /\ Alive' = {p}
                          /\ os' = [os EXCEPT ![p] = [state |-> "up", name |-> call[t].name]]
    BY <2>1, <1>0, AliveAfter
  <2> QED BY <2>2, <1>0 DEF TypeOK
<1>4. InStart(t)
  BY <1>2 DEF SelectedInv, CallOps, InStart, InCall
<1>5. LastEmpty'
  BY <1>1, <1>2, <1>4, WhoStarts DEF LastEmpty, TestsAlive, DInv, Places, SameCall
<1>6. CASE t = Boot /\ ~ BootDone
  <2>1. call[t].name = selected
    BY <1>4, <1>6 DEF SelectedInv, StartOps
  <2>2. \A u \in Uis : ~ Fresh(u)'
    BY <1>1, <1>6 DEF Fresh, DInv, Guards
  <2> QED BY <1>1, <1>3, <1>5, <2>1, <2>2 DEF FreshNamed, Settled, Named
<1>7. CASE t \in Uis /\ op = t /\ task[t].cmd = "start"
  <2>1. Fresh(t)'
    BY <1>1, <1>2, <1>7 DEF Fresh, DInv, OpOwner, Places, InStart
  <2>2. \A u \in Uis : Fresh(u)' => u = t
    BY <1>1, <1>7 DEF Fresh, DInv, OpOwner
  <2> QED BY <1>2, <1>3, <1>5, <1>7, <2>1, <2>2 DEF FreshNamed, Settled, Named, SameCall
<1>8. CASE t = Tester /\ TestsAlive
  <2>1. TestsAlive' /\ \A u \in Uis : ~ Fresh(u)'
    BY <1>1, <1>8 DEF Fresh, DInv, Guards, TestsAlive
  <2> QED BY <1>5, <2>1 DEF FreshNamed, Settled
<1> QED BY <1>4, <1>6, <1>7, <1>8, WhoStarts

(* An engine whose start finds it gone was the only one with a name.        *)
LEMMA NamelessAfter ==
    ASSUME IInv, ~ KillMayFail, NEW t \in Threads, ConfirmDown(t) \/ ConfirmRaises(t)
    PROVE  \A p \in Alive : os[p].name = NoName
<1>1. ProcState # "up"
  BY DEF ConfirmDown, ConfirmRaises
<1> QED BY <1>1, EngineAssumption DEF IInv, NoLostEngine, ProcState, Alive

LEMMA SelectedRuns ==
    ASSUME DInv, SelectedInv, ~ KillMayFail, NEW t \in Threads, Step(t), ~ Spawn(t),
           UNCHANGED daemon
    PROVE  FreshNamed' /\ Settled' /\ LastEmpty'
<1> USE ThreadsAre DEF At
<1>0. TypeOK /\ call \in [Threads -> CallRec]
  BY DEF DInv, IInv, TypeOK
<1>1. UNCHANGED <<task, job, boot, selected, op>>
  BY DEF daemon
<1>2. CASE KillEngines(t)
  <2>1. Alive' = {}
    BY <1>0, <1>2, AliveAfter
  <2> QED BY <2>1 DEF FreshNamed, Settled, LastEmpty, Named
<1>3. CASE ~ KillEngines(t)
  <2>1. os' = os /\ Alive' = Alive
    BY <1>3 DEF Step, Enter, FinishStop, Cooldown, Announce, SpawnFails, ConfirmUp,
       ConfirmDown, ConfirmRaises, Retry, Alive
  <2>2. /\ SameCall(t)
        /\ call'[t].pc # "wait" /\ call[t].pc # "done"
        /\ call'[t].pc = "done" =>
              \/ Cooldown(t) \/ SpawnFails(t)
              \/ call[t].pc = "wait" /\ (call'[t].result = "ok" => ConfirmUp(t))
        /\ call[t].pc = "wait" =>
              \/ ConfirmDown(t) \/ ConfirmRaises(t)
              \/ call'[t].pc = "done" /\ call'[t].result = "ok"
    <3>1. CASE Enter(t) \/ FinishStop(t) \/ Announce(t) \/ Retry(t)
      BY <1>0, <3>1, CallAfter DEF Enter, FinishStop, Announce, Retry
    <3>2. CASE Cooldown(t) \/ SpawnFails(t)
      BY <1>0, <3>2, CallAfter DEF Cooldown, SpawnFails
    <3>3. CASE ConfirmUp(t) \/ ConfirmRaises(t)
      BY <1>0, <3>3, CallAfter DEF ConfirmUp, ConfirmRaises, Wakes
    <3>4. CASE ConfirmDown(t)
      BY <1>0, <3>4, CallAfter DEF ConfirmDown, Wakes
    <3> QED BY <1>3, <3>1, <3>2, <3>3, <3>4 DEF Step
  <2>3. (Cooldown(t) => call[t].op = "stop") /\ (SpawnFails(t) => call'[t].result = "failed")
    BY <1>0, CallAfter DEF Cooldown, SpawnFails, SelectedInv, CallOps
  <2>4. \A u \in Uis : Fresh(u)' => Fresh(u) /\ call'[u].name = call[u].name
    BY <1>1, <2>2, <2>3 DEF Fresh, SelectedInv, StartOps, SameCall
  <2>5. FreshNamed'
    BY <2>1, <2>4 DEF FreshNamed, SelectedInv, Named
  <2>6. Settled'
    <3>1. CASE \A u \in Uis : ~ Fresh(u)
      BY <1>1, <2>1, <3>1 DEF Settled, SelectedInv, Named, TestsAlive
    <3>2. ASSUME NEW u \in Uis, Fresh(u), ~ Fresh(u)' PROVE Named(selected)'
      <4>1. u = t
        BY <1>1, <2>2, <3>2 DEF Fresh, SameCall
      <4>2. ConfirmDown(t) \/ ConfirmRaises(t)
        BY <1>1, <2>2, <3>2, <4>1 DEF Fresh
      <4> QED BY <2>1, <4>2, NamelessAfter DEF DInv, Named
    <3> QED BY <3>1, <3>2 DEF Settled
  <2>7. LastEmpty'
    <3>1. SUFFICES ASSUME job.pc = "last", call'[Tester].pc = "done" PROVE Alive = {}
      BY <1>1, <2>1 DEF LastEmpty
    <3>2. CASE Tester # t
      BY <2>2, <3>1, <3>2 DEF SelectedInv, LastEmpty, SameCall
    <3>3. CASE Tester = t
      <4>1. call[t].pc \notin {"spawn", "wait"}
        BY <3>1, <3>3 DEF SelectedInv, CallOps, DInv, Places, InStart, InCall
      <4>2. Cooldown(t)
        BY <2>2, <3>1, <3>3, <4>1 DEF SpawnFails
      <4> QED BY <4>2 DEF Cooldown, DInv, IInv, Progress, HoldsLock
    <3> QED BY <3>2, <3>3
  <2> QED BY <2>5, <2>6, <2>7
<1> QED BY <1>2, <1>3

LEMMA SelectedBelow ==
    ASSUME DInv, SelectedInv, ~ KillMayFail, Below
    PROVE  StartOps' /\ FreshNamed' /\ Settled' /\ LastEmpty'
<1> USE ThreadsAre
<1>0. TypeOK /\ UNCHANGED <<task, job, boot, selected, op>> /\ UNCHANGED daemon
  BY DEF DInv, IInv, Below, daemon
<1>1. ASSUME NEW t \in Threads, Step(t)
      PROVE  StartOps' /\ FreshNamed' /\ Settled' /\ LastEmpty'
  <2>1. SameCall(t)
    BY <1>0, <1>1, CallAfter DEF TypeOK, Step, Enter, KillEngines, FinishStop, Cooldown,
       Announce, Spawn, SpawnFails, ConfirmUp, ConfirmRaises, Retry
  <2>2. call[t].pc \notin {"idle", "done"}
    BY <1>0, <1>1, CallsAfter
  <2>3. InStart(Boot)' => InStart(Boot)
    BY <2>1, <2>2 DEF InStart, InCall, SameCall
  <2>4. StartOps'
    BY <1>0, <2>1, <2>3 DEF StartOps, SelectedInv, SameCall
  <2> QED BY <1>0, <1>1, <2>4, SelectedSpawn, SelectedRuns
<1>2. ASSUME call' = call, Alive' \subseteq Alive, \A p \in Alive' : os'[p] = os[p]
      PROVE  StartOps' /\ FreshNamed' /\ Settled' /\ LastEmpty'
  <2>1. StartOps'
    BY <1>0, <1>2 DEF SelectedInv, StartOps, InStart, InCall
  <2>2. FreshNamed' /\ Settled' /\ LastEmpty'
    BY <1>0, <1>2 DEF SelectedInv, FreshNamed, Settled, LastEmpty, Fresh, Named, At, TestsAlive
  <2> QED BY <2>1, <2>2
<1>3. ASSUME NEW p \in Pids, EngineExits(p)
      PROVE  call' = call /\ Alive' \subseteq Alive /\ \A q \in Alive' : os'[q] = os[q]
  BY <1>0, <1>3, AliveAfter DEF EngineExits
<1>4. MonitorStep => call' = call /\ Alive' = Alive /\ os' = os
  BY DEF MonitorStep, Probe, ReadName, ReportUp, ReportDown, Alive
<1> QED BY <1>1, <1>2, <1>3, <1>4 DEF Below

(* What a command does to its task and its call.                            *)
LEMMA CommandShape ==
    ASSUME DInv, NEW t \in Uis,
           ShutdownStopsTests(t) \/ Command(t)
             \/ \E cmd \in Commands, want \in Names : Receive(t, cmd, want)
    PROVE  /\ os' = os /\ boot' = boot
           /\ \A u \in Threads \ {t} : call'[u] = call[u]
           /\ \A u \in Uis \ {t} : task'[u] = task[u]
           /\ task'[t].pc = "call" /\ task'[t].cmd = "start" =>
                  call'[t].pc = "enter" /\ call'[t].op = "start"
           /\ Reply(t) \/ (task[t].pc # "call" /\ selected' = selected /\ job'.pc = job.pc)
<1> USE ThreadsAre
<1> DEFINE Shape ==
        /\ os' = os /\ boot' = boot
        /\ \A u \in Threads \ {t} : call'[u] = call[u]
        /\ \A u \in Uis \ {t} : task'[u] = task[u]
        /\ task'[t].pc = "call" /\ task'[t].cmd = "start" =>
               call'[t].pc = "enter" /\ call'[t].op = "start"
           Kept == task[t].pc # "call" /\ selected' = selected /\ job'.pc = job.pc
<1>0. TypeOK /\ DTypeOK
  BY DEF DInv, IInv
<1>c. (\A s : CallStart(t, s) => os' = os) /\ (CallStop(t) \/ Return(t) => os' = os)
  BY DEF CallStart, CallStop, Return
<1>q. Quietly => UNCHANGED <<os, call>>
  BY DEF Quietly, vars
<1>1. ASSUME NEW want, Launch(t, want), task[t].pc # "call" PROVE Shape /\ Kept
  <2>1. task'[t].pc = "call" /\ \A u \in Uis \ {t} : task'[u] = task[u]
    BY <1>0, <1>1, TasksAfter DEF Launch
  <2>2. /\ call'[t].pc = "enter" /\ call'[t].op = "start" /\ os' = os
        /\ \A u \in Threads \ {t} : call'[u] = call[u]
    BY <1>0, <1>1, <1>c, CallsAfter DEF Launch
  <2> QED BY <1>1, <2>1, <2>2 DEF Launch
<1>2. ASSUME StopUnderLock(t), task[t].cmd # "start", boot' = boot PROVE Shape
  <2>1. task'[t].cmd = task[t].cmd /\ \A u \in Uis \ {t} : task'[u] = task[u]
    BY <1>0, <1>2, TasksAfter DEF StopUnderLock
  <2>2. os' = os /\ \A u \in Threads \ {t} : call'[u] = call[u]
    BY <1>0, <1>2, <1>c, CallsAfter DEF StopUnderLock
  <2> QED BY <1>2, <2>1, <2>2
<1>3. ASSUME Done(t), Quietly, boot' = boot PROVE Shape
  BY <1>0, <1>3, <1>q, TasksAfter
<1>4. CASE Start(t)
  BY <1>1, <1>3, <1>4 DEF Start, Take, At2, Refuse
<1>5. CASE Stop(t) \/ StartTests(t) \/ StopTests(t) \/ Shutdown(t)
  <2>1. task[t].pc # "call" /\ task[t].cmd # "start"
    BY <1>5 DEF Stop, StartTests, StopTests, Shutdown, Take, At2
  <2>2. boot' = boot /\ selected' = selected /\ job'.pc = job.pc
    BY <1>0, <1>5 DEF Stop, StartTests, StopTests, Shutdown, Refuse, DTypeOK, JobRec
  <2>3. StopUnderLock(t) \/ (Done(t) /\ Quietly)
    BY <1>5 DEF Stop, StartTests, StopTests, Shutdown, Refuse
  <2> QED BY <1>2, <1>3, <2>1, <2>2, <2>3
<1>6. CASE UpdateStrategies(t)
  <2>1. task[t].pc = "queue" /\ task[t].cmd = "update"
    BY <1>6 DEF UpdateStrategies, Take, At2
  <2>2. boot' = boot /\ selected' = selected /\ job' = job
    BY <1>6 DEF UpdateStrategies, Refuse
  <2>3. CASE Serve(t, "apply") /\ Quietly
    BY <1>0, <1>q, <2>1, <2>2, <2>3, TasksAfter
  <2>4. StopUnderLock(t) \/ (Done(t) /\ Quietly) \/ (Serve(t, "apply") /\ Quietly)
    BY <1>6 DEF UpdateStrategies, Refuse
  <2> QED BY <1>2, <1>3, <2>1, <2>2, <2>3, <2>4
<1>7. CASE Applied(t)
  BY <1>1, <1>3, <1>7 DEF Applied
<1>8. CASE ShutdownQueues(t)
  BY <1>0, <1>8, <1>c, TasksAfter, CallsAfter DEF ShutdownQueues, At2
<1>9. CASE ShutdownSet(t)
  BY <1>3, <1>9 DEF ShutdownSet
<1>10. CASE ShutdownStopsTests(t)
  <2>1. task'[t].pc = "warn" /\ \A u \in Uis \ {t} : task'[u] = task[u]
    BY <1>0, <1>10 DEF ShutdownStopsTests, DTypeOK, NoTask
  <2>2. os' = os /\ \A u \in Threads \ {t} : call'[u] = call[u]
    BY <1>0, <1>10, <1>c, CallsAfter DEF ShutdownStopsTests
  <2>3. job'.pc = job.pc
    BY <1>0, <1>10 DEF ShutdownStopsTests, DTypeOK, JobRec
  <2> QED BY <1>10, <2>1, <2>2, <2>3 DEF ShutdownStopsTests
<1>11. CASE \E cmd \in Commands, want \in Names : Receive(t, cmd, want)
  <2>1. task'[t].pc = "queue" /\ \A u \in Uis \ {t} : task'[u] = task[u]
    BY <1>0, <1>11 DEF Receive, DTypeOK
  <2> QED BY <1>11, <1>q, <2>1 DEF Receive
<1>12. CASE Reply(t)
  <2>1. os' = os /\ boot' = boot /\ \A u \in Threads \ {t} : call'[u] = call[u]
    BY <1>0, <1>12, <1>c, CallsAfter DEF Reply
  <2>2. task'[t].pc \in {"idle", "reapply", "closing"} /\ \A u \in Uis \ {t} : task'[u] = task[u]
    BY <1>0, <1>12, TasksAfter DEF Reply
  <2> QED BY <1>12, <2>1, <2>2
<1> QED BY <1>4, <1>5, <1>6, <1>7, <1>8, <1>9, <1>10, <1>11, <1>12 DEF Command

LEMMA SelectedCommand ==
    ASSUME DInv, SelectedInv, NEW t \in Uis,
           ShutdownStopsTests(t) \/ Command(t)
             \/ \E cmd \in Commands, want \in Names : Receive(t, cmd, want)
    PROVE  StartOps' /\ FreshNamed' /\ Settled' /\ LastEmpty'
<1> USE ThreadsAre DEF At
<1>1. /\ os' = os /\ boot' = boot /\ Alive' = Alive
      /\ \A u \in Threads \ {t} : call'[u] = call[u]
      /\ \A u \in Uis \ {t} : task'[u] = task[u]
      /\ task'[t].pc = "call" /\ task'[t].cmd = "start" =>
             call'[t].pc = "enter" /\ call'[t].op = "start"
      /\ Reply(t) \/ (task[t].pc # "call" /\ selected' = selected /\ job'.pc = job.pc)
  BY CommandShape DEF Alive
<1>2. ~ Fresh(t)' /\ \A u \in Uis \ {t} : Fresh(u)' <=> Fresh(u)
  BY <1>1 DEF Fresh
<1>3. FreshNamed'
  BY <1>1, <1>2 DEF SelectedInv, FreshNamed, Named
<1>4. CASE task[t].pc # "call" /\ selected' = selected /\ job'.pc = job.pc
  <2>1. ~ Fresh(t)
    BY <1>4 DEF Fresh
  <2>2. Settled' /\ LastEmpty'
    BY <1>1, <1>2, <1>4, <2>1 DEF SelectedInv, Settled, LastEmpty, Named, TestsAlive
  <2>3. StartOps'
    BY <1>1, <1>4 DEF SelectedInv, StartOps, InStart, InCall
  <2> QED BY <1>3, <2>2, <2>3
<1>5. CASE Reply(t)
  <2>1. task[t].pc = "call" /\ op = t /\ call[t].pc = "done"
    BY <1>5 DEF Reply, DInv, OpOwner, Return
  <2>2. \A u \in Uis \ {t} : ~ Fresh(u)
    BY <2>1, FreshIsAlone
  <2>3. /\ task[t].cmd # "start" => selected' = selected
        /\ task[t].cmd = "start" =>
              selected' = IF call[t].result = "ok" THEN call[t].name ELSE selected
        /\ task[t].cmd # "start" => ~ Fresh(t)
        /\ job' = job \/ job'.pc = "begin"
        /\ job' = job \/ task[t].cmd = "tests"
    BY <1>5 DEF Reply, Remember, Fresh
  <2>4. Settled'
    <3>1. CASE Fresh(t)
      <4>1. selected' = call[t].name /\ Named(call[t].name)
        BY <2>1, <2>3, <3>1 DEF Fresh, SelectedInv, FreshNamed
      <4> QED BY <1>1, <4>1 DEF Settled, Named
    <3>2. CASE ~ Fresh(t)
      <4>1. selected' = selected
        BY <2>1, <2>3, <3>2 DEF Fresh
      <4>2. ~ TestsAlive' => ~ TestsAlive
        BY <2>3 DEF TestsAlive
      <4> QED BY <1>1, <2>2, <3>2, <4>1, <4>2 DEF SelectedInv, Settled, Named
    <3> QED BY <3>1, <3>2
  <2>5. LastEmpty'
    BY <1>1, <2>3 DEF SelectedInv, LastEmpty
  <2>6. StartOps'
    <3>1. InStart(Boot)' => selected' = selected /\ InStart(Boot)
      BY <1>1, <2>1, <2>3 DEF DInv, Places, Guards, BootDone, InStart, InCall
    <3> QED BY <1>1, <3>1 DEF SelectedInv, StartOps
  <2> QED BY <1>3, <2>4, <2>5, <2>6
<1> QED BY <1>1, <1>4, <1>5

LEMMA SelectedBoot ==
    ASSUME DInv, SelectedInv, BootStep \/ BootstrapFails
    PROVE  StartOps' /\ FreshNamed' /\ Settled' /\ LastEmpty'
<1> USE ThreadsAre DEF At
<1>0. TypeOK
  BY DEF DInv, IInv
<1>1. UNCHANGED <<task, job, selected>>
  BY DEF BootStep, BootstrapFails, StartsMonitor, StartupUpdate, StartupUpdateStops,
     StartupUpdated, LaunchLast, LaunchedLast, BootstrapDone
<1>2. /\ os' = os /\ Alive' = Alive
      /\ \A u \in Threads \ {Boot} : call'[u] = call[u]
      /\ InStart(Boot)' => call'[Boot].name = selected
  <2>1. CASE CallStop(Boot) \/ Return(Boot)
    <3>1. os' = os
      BY <2>1 DEF CallStop, Return
    <3> QED BY <1>0, <2>1, <3>1, CallsAfter, InStartAfter DEF Alive
  <2>2. CASE CallStart(Boot, selected)
    <3>1. os' = os /\ call'[Boot].name = selected
      BY <1>0, <2>2 DEF CallStart, NoCall, TypeOK
    <3> QED BY <1>0, <2>2, <3>1, CallsAfter DEF Alive
  <2>3. CASE UNCHANGED <<os, call>>
    BY <2>3 DEF SelectedInv, StartOps, InStart, InCall, Alive
  <2>4. StartsMonitor \/ StartupUpdate \/ BootstrapDone \/ BootstrapFails => UNCHANGED <<os, call>>
    BY DEF StartsMonitor, StartMonitor, StartupUpdate, BootstrapDone, BootstrapFails, Quietly,
       vars
  <2>5. LaunchLast => CallStart(Boot, selected) \/ UNCHANGED <<os, call>>
    BY DEF LaunchLast, Quietly, vars
  <2>6. StartupUpdateStops \/ StartupUpdated \/ LaunchedLast => CallStop(Boot) \/ Return(Boot)
    BY DEF StartupUpdateStops, StartupUpdated, LaunchedLast
  <2> QED BY <2>1, <2>2, <2>3, <2>4, <2>5, <2>6 DEF BootStep
<1>3. \A u \in Uis : Fresh(u)' <=> Fresh(u)
  BY <1>1, <1>2 DEF Fresh
<1> QED BY <1>1, <1>2, <1>3 DEF SelectedInv, StartOps, FreshNamed, Settled, LastEmpty, Named,
           TestsAlive

LEMMA SelectedTests ==
    ASSUME DInv, SelectedInv, TestStep
    PROVE  StartOps' /\ FreshNamed' /\ Settled' /\ LastEmpty'
<1> USE ThreadsAre DEF At
<1>0. TypeOK /\ job \in JobRec
  BY DEF DInv, IInv, DTypeOK
<1>1. UNCHANGED <<task, boot, selected>> /\ TestsAlive
  BY DEF TestStep, TestsBegin, TestsCleared, NextStrategy, Trial, TrialStarted, Probed,
     Unloaded, Restore, Restored, LastStop, TestsEnd, Elsewhere, TestsAlive
<1>2. os' = os /\ Alive' = Alive /\ \A u \in Threads \ {Tester} : call'[u] = call[u]
  <2>1. CASE CallStop(Tester) \/ Return(Tester) \/ \E s : CallStart(Tester, s)
    <3>1. os' = os
      BY <2>1 DEF CallStop, Return, CallStart
    <3> QED BY <1>0, <2>1, <3>1, CallsAfter DEF Alive
  <2>2. CASE Quietly
    BY <2>2 DEF Quietly, vars, Alive
  <2>3. CallStop(Tester) \/ Return(Tester) \/ (\E s : CallStart(Tester, s)) \/ Quietly
    BY DEF TestStep, TestsBegin, TestsCleared, NextStrategy, Trial, TrialStarted, Probed,
       Unloaded, Restore, Restored, LastStop, TestsEnd
  <2> QED BY <2>1, <2>2, <2>3
<1>3. \A u \in Uis : Fresh(u)' <=> Fresh(u)
  BY <1>1, <1>2 DEF Fresh
<1>4. StartOps' /\ FreshNamed'
  BY <1>1, <1>2, <1>3 DEF SelectedInv, StartOps, FreshNamed, Named, InStart, InCall
<1>5. CASE LastStop
  <2>1. call'[Tester].pc = "enter" /\ job'.pc = "last"
    BY <1>0, <1>5, CallsAfter, JobTypes DEF LastStop, DInv
  <2> QED BY <1>4, <2>1 DEF LastEmpty, Settled, TestsAlive
<1>6. CASE TestsEnd
  <2>1. Alive = {} /\ job'.pc = "gone"
    BY <1>6 DEF TestsEnd, Return, SelectedInv, LastEmpty
  <2> QED BY <1>2, <1>4, <2>1 DEF LastEmpty, Settled, Named
<1>7. CASE ~ LastStop /\ ~ TestsEnd
  <2>1. job'.pc \notin {"last", "gone"}
    <3>1. \A pc \in {"clear", "loop", "ready", "trial", "probe", "unload", "restore",
                     "restart", "final"} : Goes(pc) => job'.pc = pc
      BY <1>0 DEF Goes, JobRec
    <3>2. NextOne => job'.pc = "loop"
      BY JobTypes DEF DInv
    <3>3. TestsBegin => job'.pc \in {"final", "clear"}
      BY <1>0, <3>1 DEF TestsBegin, JobRec
    <3>4. TestsCleared \/ NextStrategy \/ TrialStarted \/ Probed \/ Unloaded
            => job'.pc \notin {"last", "gone"}
      BY <3>1, <3>2 DEF TestsCleared, NextStrategy, TrialStarted, Probed, Unloaded
    <3>5. (\E s \in Strategies : Trial(s)) \/ Restore \/ Restored => job'.pc \notin {"last", "gone"}
      BY <3>1 DEF Trial, Restore, Restored
    <3> QED BY <1>7, <3>3, <3>4, <3>5 DEF TestStep
  <2> QED BY <1>4, <2>1 DEF LastEmpty, Settled, TestsAlive
<1> QED BY <1>5, <1>6, <1>7

LEMMA SelectedInit ==
    ASSUME DInit
    PROVE  SelectedInv
<1> USE ThreadsAre
<1>1. \A t \in Threads : call[t] = NoCall
  BY DEF DInit, Init
<1>2. \A p \in Pids : os[p].name = NoName
  BY DEF DInit, Init, Absent
<1>3. \A t \in Uis : task[t].pc = "idle"
  BY DEF DInit, NoTask
<1>4. StartOps /\ FreshNamed /\ LastEmpty /\ CallOps
  BY <1>1, <1>3 DEF NoCall, StartOps, FreshNamed, Fresh, LastEmpty, CallOps, InStart, InCall,
     At
<1>5. Settled
  BY <1>2 DEF Settled, Named, Alive
<1> QED BY <1>4, <1>5 DEF SelectedInv

LEMMA SelectedNext ==
    ASSUME DInv, SelectedInv, ~ KillMayFail, [DNext]_dvars
    PROVE  SelectedInv'
<1>1. CallOps'
  <2>1. ASSUME NEW t \in Threads, RunnerStep(t) PROVE CallOps'
    BY <2>1, CallOpsStep DEF DInv, SelectedInv
  <2>2. CASE call' = call
    BY <2>2 DEF SelectedInv, CallOps
  <2>3. [Next]_vars \/ BootstrapFails
    BY DaemonStepsEngine DEF DInv, dvars
  <2>4. Next => (\E t \in Threads : RunnerStep(t)) \/ OtherStep
    BY EngineAssumption DEF Next, RunnerStep, OtherStep
  <2>5. OtherStep \/ UNCHANGED vars \/ BootstrapFails => call' = call
    BY DEF OtherStep, MonitorStep, EngineExits, StartMonitor, Probe, ReadName, ReportUp,
       ReportDown, vars, BootstrapFails
  <2> QED BY <2>1, <2>2, <2>3, <2>4, <2>5
<1>2. CASE DNext
  <2>1. StartOps' /\ FreshNamed' /\ Settled' /\ LastEmpty'
    BY <1>2, SelectedBelow, SelectedCommand, SelectedBoot, SelectedTests DEF DNext
  <2> QED BY <1>1, <2>1 DEF SelectedInv
<1>3. CASE UNCHANGED dvars
  <2>1. UNCHANGED <<os, call, task, job, selected, Alive>>
    BY <1>3 DEF dvars, vars, daemon, Alive
  <2> QED BY <1>1, <2>1 DEF SelectedInv, StartOps, FreshNamed, Settled, LastEmpty, Fresh, Named,
             TestsAlive, InStart, InCall, At
<1> QED BY <1>2, <1>3

(* If taskkill works, then between commands, after bootstrap and tests, an  *)
(* engine of the daemon's is the one the settings will launch next time,    *)
(* whatever was started, stopped, tested and given up before.               *)
THEOREM SelectedEngineRuns ==
    ASSUME ~ KillMayFail
    PROVE  DSpec => []EngineIsSelected
<1> USE ThreadsAre
<1>1. DInit => SelectedInv
  BY SelectedInit
<1>2. DInv /\ SelectedInv /\ [DNext]_dvars => SelectedInv'
  BY SelectedNext
<1>3. DInv /\ SelectedInv => EngineIsSelected
  <2>1. SUFFICES ASSUME DInv, SelectedInv, op = NoThread, ~ TestsAlive
                 PROVE  Named(selected)
    BY DEF EngineIsSelected, Named
  <2>2. \A t \in Uis : ~ Fresh(t)
    BY <2>1, FreshIsAlone
  <2> QED BY <2>1, <2>2 DEF SelectedInv, Settled
<1> QED BY <1>1, <1>2, <1>3, DaemonInvariant, PTL DEF DSpec
=============================================================================
