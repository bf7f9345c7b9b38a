------------------------------ MODULE TestResults ------------------------------
(***************************************************************************)
(* What a test run says of the strategies, on its way to the page: the job *)
(* thread of the daemon with its tables (strategy_testing/runner.py and    *)
(* results.py), the cache file that both processes rewrite (cache.py), the *)
(* answers to test_status (daemon/main.py) and the page that polls them    *)
(* (ui/pages/strategies.py).  A result is the run it comes from; a table   *)
(* of probes is as far as its slowest cell.  The daemon's lock and engine  *)
(* are those of Daemon: here a start is served or refused in one step.     *)
(***************************************************************************)
EXTENDS Naturals, FiniteSets

CONSTANTS
    Tested,        \* strategies
    Releases,      \* installed versions of the strategies
    Clicks,        \* calls of test_start that may be under way at once
    MaxTurns,      \* bound on test runs and changes of the version together
    CacheApart,    \* TRUE keeps the two processes' rewritings of the cache apart
    CacheMayFail,  \* TRUE lets a reading of the cache fail, which reads as empty
    Nobody         \* no strategy, no version

ASSUME NobodyIsNoStrategy == Nobody \notin Tested

VARIABLES
    run,      \* the test runner of the daemon and its job thread
    probes,   \* the daemon's tables of probes
    cache,    \* test_results.json
    copy,     \* the cache as the job thread read it
    chosen,   \* active_version of the page's process
    switched, \* how often it was changed
    page,     \* what the page remembers of the answers
    ask,      \* calls of test_start
    poll,     \* the call of test_status under way
    shown,    \* the results in the page's process
    table,    \* its tables of probes
    purge,    \* the removal of a version by the page's process
    dropped,  \* versions removed by the page's process
    overtaken, \* history: starts on their way when an answer was applied or the version changed
    late      \* history: runs about which the page may have taken an answer for that of another

runnerVars  == <<run, probes, copy>>
pageVars    == <<page, shown, table>>
resultsVars == <<runnerVars, cache, chosen, switched, pageVars, ask, poll, purge, dropped, overtaken, late>>

NoResult == [run |-> 0, rows |-> FALSE]
Empty    == [v \in Releases |-> [s \in Tested |-> NoResult]]
Unprobed == [v \in Releases |-> [s \in Tested |-> "none"]]
NoAsk    == [st |-> "none", ids |-> {}, version |-> Nobody]
NoPurge  == [pc |-> "none", version |-> Nobody, data |-> Empty]
NoPoll   == [pc |-> "none", active |-> Nobody, version |-> Nobody, running |-> FALSE,
             phase |-> "idle", completed |-> {}, probe |-> "none", over |-> 0]
NewPage  == [running |-> FALSE, seen |-> {}, current |-> Nobody, upto |-> 0]

Readings == {cache} \cup IF CacheMayFail THEN {Empty} ELSE {}
Running  == run.pc # "gone"
RunAt(pc) == run.pc = pc
Sent     == {c \in Clicks : ask[c].st = "sent"}

-----------------------------------------------------------------------------
(* The page asks for a run *)

(* Deviation: what the page has seen of the last run is not forgotten. *)
StartClickedKeeping(c, ids) ==
    /\ ask[c].st = "none" /\ ~page.running /\ ids # {}
    /\ ask' = [ask EXCEPT ![c] = [st |-> "sent", ids |-> ids, version |-> chosen]]
    /\ page' = [page EXCEPT !.current = Nobody]
    /\ overtaken' = overtaken \ {c}
    /\ UNCHANGED <<runnerVars, cache, chosen, switched, shown, table, poll, purge, dropped, late>>

(* The button stays active until the answer is there. *)
StartClicked(c, ids) ==
    /\ ask[c].st = "none" /\ ~page.running /\ ids # {}
    /\ ask' = [ask EXCEPT ![c] = [st |-> "sent", ids |-> ids, version |-> chosen]]
    /\ page' = [page EXCEPT !.seen = {}, !.current = Nobody]
    /\ overtaken' = overtaken \ {c}
    /\ UNCHANGED <<runnerVars, cache, chosen, switched, shown, table, poll, purge, dropped, late>>

StartRefused(c) ==
    /\ ask[c].st = "sent"
    /\ ask' = [ask EXCEPT ![c].st = "refused"]
    /\ UNCHANGED <<runnerVars, cache, chosen, switched, pageVars, poll, purge, dropped, overtaken, late>>

(* An answer applied after this lists the run before it. *)
StartServed(c) ==
    /\ ask[c].st = "sent" /\ ~Running /\ run.n + switched < MaxTurns
    /\ ask' = [ask EXCEPT ![c].st = "ok"]
    /\ run' = [pc |-> "begin", n |-> run.n + 1, version |-> ask[c].version, left |-> ask[c].ids,
               active |-> Nobody, phase |-> "idle", completed |-> {}, rows |-> FALSE]
    /\ late' = late \cup IF c \in overtaken \/ poll.pc = "apply" THEN {run.n + 1} ELSE {}
    /\ UNCHANGED <<probes, copy, cache, chosen, switched, pageVars, poll, purge, dropped, overtaken>>

StartAnswered(c) ==
    /\ ask[c].st \in {"ok", "refused"}
    /\ page' = [page EXCEPT !.running = (ask[c].st = "ok")]
    /\ ask' = [ask EXCEPT ![c] = NoAsk]
    /\ UNCHANGED <<runnerVars, cache, chosen, switched, shown, table, poll, purge, dropped, overtaken, late>>

(* The request to stop is looked at where the next strategy would be taken. *)
StopServed ==
    /\ page.running /\ Running
    /\ run' = [run EXCEPT !.left = {}]
    /\ UNCHANGED <<probes, copy, cache, chosen, switched, pageVars, ask, poll, purge, dropped, overtaken, late>>

-----------------------------------------------------------------------------
(* The job thread *)

Besides == UNCHANGED <<chosen, switched, pageVars, ask, poll, purge, dropped, overtaken, late>>

RunGoes(pc) == run' = [run EXCEPT !.pc = pc]

Table(state) == probes' = [probes EXCEPT ![run.version][run.active] = state]

(* No strategy found or no engine: the run is over before its first test. *)
RunBegins ==
    /\ RunAt("begin")
    /\ RunGoes("loop") \/ RunGoes("last")
    /\ UNCHANGED <<probes, copy, cache>> /\ Besides

NextTested(s) ==
    /\ RunAt("loop") /\ s \in run.left
    /\ run' = [run EXCEPT !.pc = "start", !.left = @ \ {s}, !.active = s, !.phase = "testing"]
    /\ probes' = [probes EXCEPT ![run.version][s] = "pending"]
    /\ UNCHANGED <<copy, cache>> /\ Besides

EndOfList ==
    /\ RunAt("loop") /\ run.left = {}
    /\ RunGoes("last")
    /\ UNCHANGED <<probes, copy, cache>> /\ Besides

Launched ==
    /\ RunAt("start")
    /\ RunGoes("probe")
    /\ Table("loading")
    /\ UNCHANGED <<copy, cache>> /\ Besides

NotLaunched ==
    /\ RunAt("start")
    /\ run' = [run EXCEPT !.pc = "read", !.rows = FALSE]
    /\ UNCHANGED <<probes, copy, cache>> /\ Besides

(* Deviation: a strategy counts as completed before its result is saved. *)
SetResultMarked ==
    /\ RunAt("probe")
    /\ run' = [run EXCEPT !.pc = "read", !.rows = TRUE, !.completed = @ \cup {run.active}]
    /\ Table("done")
    /\ UNCHANGED <<copy, cache>> /\ Besides

(* The last cell is there; set_result goes on with the cache. *)
SetResult ==
    /\ RunAt("probe")
    /\ run' = [run EXCEPT !.pc = "read", !.rows = TRUE]
    /\ Table("done")
    /\ UNCHANGED <<copy, cache>> /\ Besides

(* A probe or the writing of the cache raises, and the run ends. *)
TestRaises ==
    /\ RunAt("probe") \/ RunAt("write")
    /\ RunGoes("last")
    /\ UNCHANGED <<probes, copy, cache>> /\ Besides

ReadCache ==
    /\ RunAt("read")
    /\ CacheApart => purge = NoPurge
    /\ RunGoes("write")
    /\ copy' \in Readings
    /\ UNCHANGED <<probes, cache>> /\ Besides

SaveResult ==
    /\ RunAt("write")
    /\ RunGoes("mark")
    /\ cache' = [copy EXCEPT ![run.version][run.active] = [run |-> run.n, rows |-> run.rows]]
    /\ copy' = Empty
    /\ UNCHANGED probes /\ Besides

(* After the result of a probe the engine is stopped before the pause. *)
MarkCompleted ==
    /\ RunAt("mark")
    /\ run' = [run EXCEPT !.pc = "loop", !.phase = "pause", !.rows = FALSE,
                          !.completed = @ \cup {run.active}]
    /\ UNCHANGED <<probes, copy, cache>> /\ Besides

RunEnds ==
    /\ \/ RunAt("last") /\ run' = [run EXCEPT !.pc = "end", !.phase = "idle", !.active = Nobody,
                                                    !.rows = FALSE]
       \/ RunAt("end") /\ RunGoes("gone")
    /\ copy' = Empty
    /\ UNCHANGED <<probes, cache>> /\ Besides

-----------------------------------------------------------------------------
(* The page polls test_status; the daemon reads the answer piece by piece *)

Polling == UNCHANGED <<runnerVars, cache, chosen, switched, ask, purge, dropped, late>>

PollStarts ==
    /\ poll.pc = "none"
    /\ poll' = [NoPoll EXCEPT !.pc = "running", !.active = run.active, !.version = run.version]
    /\ UNCHANGED <<pageVars, overtaken>> /\ Polling

ReadRunning ==
    /\ poll.pc = "running"
    /\ poll' = [poll EXCEPT !.pc = "lists", !.running = Running, !.phase = run.phase,
                            !.over = IF Running THEN 0 ELSE run.n]
    /\ UNCHANGED <<pageVars, overtaken>> /\ Polling

ReadLists ==
    /\ poll.pc = "lists"
    /\ poll' = [poll EXCEPT !.pc = "apply", !.completed = run.completed,
                            !.probe = IF poll.active = Nobody THEN "none"
                                      ELSE probes[poll.version][poll.active],
                            !.over = IF @ = run.n THEN @ ELSE 0]
    /\ UNCHANGED <<pageVars, overtaken>> /\ Polling

(* New results are read from the cache, of the version the page is at. *)
Reloadable == {s \in poll.completed \ page.seen : cache[chosen][s] # NoResult}

HydratedTable ==
    [table EXCEPT ![chosen] =
        [s \in Tested |-> IF s \in Reloadable /\ cache[chosen][s].rows THEN "done" ELSE @[s]]]

(* Then comes the table in the answer, of the version of the run. *)
RemoteTable ==
    IF poll.probe = "none" THEN HydratedTable
    ELSE [HydratedTable EXCEPT ![poll.version][poll.active] = poll.probe]

RemoteCurrent == IF poll.phase = "testing" THEN poll.active ELSE Nobody

Applied ==
    /\ poll.pc = "apply"
    /\ poll' = NoPoll
    /\ shown' = [shown EXCEPT ![chosen] =
                    [s \in Tested |-> IF s \in Reloadable THEN cache[chosen][s] ELSE @[s]]]
    /\ table' = IF /\ RemoteCurrent \notin {page.current, Nobody}
                   /\ RemoteTable[poll.version][RemoteCurrent] = "none"
                THEN [RemoteTable EXCEPT ![poll.version][RemoteCurrent] = "pending"]
                ELSE RemoteTable
    /\ page' = [running |-> poll.running, seen |-> page.seen \cup poll.completed,
                current |-> RemoteCurrent,
                upto |-> IF poll.over = 0 THEN page.upto ELSE poll.over]
    /\ overtaken' = overtaken \cup Sent
    /\ Polling

-----------------------------------------------------------------------------
(* The rest of the page's process *)

(* The settings page: another installed version. *)
SwitchVersion(v) ==
    /\ v \notin dropped \cup {chosen}
    /\ run.n + switched < MaxTurns /\ switched' = switched + 1
    /\ chosen' = v
    /\ overtaken' = overtaken \cup Sent
    /\ late' = late \cup IF Running \/ page.upto # run.n THEN {run.n} ELSE {}
    /\ UNCHANGED <<runnerVars, cache, pageVars, ask, poll, purge, dropped>>

(* 2Wings is closed and opened again: its results are those of the cache. *)
PageOpened ==
    /\ purge = NoPurge /\ \A c \in Clicks : ask[c] = NoAsk
    /\ shown' = cache
    /\ table' = [v \in Releases |-> [s \in Tested |->
                    IF cache[v][s].rows THEN "done" ELSE "none"]]
    /\ page' = NewPage
    /\ poll' = NoPoll
    /\ late' = late \cup IF Running /\ chosen # run.version THEN {run.n} ELSE {}
    /\ UNCHANGED <<runnerVars, cache, chosen, switched, ask, purge, dropped, overtaken>>

Purging == UNCHANGED <<runnerVars, chosen, switched, page, ask, poll, overtaken, late>>

(* The folder of a version is gone, and its results with it; one that was
   never chosen has none. *)
PurgeBegins(v) ==
    /\ purge = NoPurge /\ switched > 0 /\ v \notin dropped \cup {chosen}
    /\ CacheApart => ~RunAt("write")
    /\ \E data \in Readings :
        purge' = IF data[v] = Empty[v] THEN NoPurge
                 ELSE [pc |-> "write", version |-> v, data |-> data]
    /\ dropped' = dropped \cup {v}
    /\ shown' = [shown EXCEPT ![v] = Empty[v]]
    /\ table' = [table EXCEPT ![v] =
                    [s \in Tested |-> IF shown[v][s] = NoResult THEN @[s] ELSE "none"]]
    /\ UNCHANGED cache /\ Purging

PurgeWrites ==
    /\ purge.pc = "write"
    /\ cache' = [purge.data EXCEPT ![purge.version] = Empty[purge.version]]
    /\ purge' = NoPurge
    /\ UNCHANGED <<shown, table, dropped>> /\ Purging

-----------------------------------------------------------------------------
ResultsInit ==
    /\ chosen \in Releases /\ switched = 0
    /\ run = [pc |-> "gone", n |-> 0, version |-> chosen, left |-> {}, active |-> Nobody,
              phase |-> "idle", completed |-> {}, rows |-> FALSE]
    /\ probes = Unprobed
    /\ cache = Empty /\ copy = Empty
    /\ page = NewPage
    /\ ask = [c \in Clicks |-> NoAsk]
    /\ poll = NoPoll
    /\ shown = Empty /\ table = Unprobed
    /\ purge = NoPurge
    /\ dropped = {} /\ overtaken = {} /\ late = {}

ResultsNext ==
    \/ \E c \in Clicks :
        \/ \E ids \in SUBSET Tested : StartClicked(c, ids)
        \/ StartRefused(c) \/ StartServed(c) \/ StartAnswered(c)
    \/ StopServed
    \/ RunBegins \/ EndOfList \/ Launched \/ NotLaunched \/ SetResult \/ TestRaises
    \/ ReadCache \/ SaveResult \/ MarkCompleted \/ RunEnds
    \/ \E s \in Tested : NextTested(s)
    \/ PollStarts \/ ReadRunning \/ ReadLists \/ Applied
    \/ \E v \in Releases : SwitchVersion(v) \/ PurgeBegins(v)
    \/ PageOpened \/ PurgeWrites

ResultsSpec == ResultsInit /\ [][ResultsNext]_resultsVars

-----------------------------------------------------------------------------
(* What is said to be completed can be read back: the result of this run is
   in the cache before the strategy is in the list, and no other writer of
   the cache takes it away, but for the removal of its version. *)
ResultsKept ==
    run.version \notin dropped =>
        \A s \in run.completed : cache[run.version][s].run = run.n

(* With the last answer about a run the page has the results of that run, and
   no table is left waiting for a probe: results are only reloaded for names
   that are new in the list, so one answer too many or too early loses them. *)
Fetched(n) == ~Running /\ run.n = n /\ page.upto = n /\ purge = NoPurge

ResultsShown ==
    Fetched(run.n) =>
        \A s \in run.completed :
            /\ shown[run.version][s] = cache[run.version][s]
            /\ cache[run.version][s].rows => table[run.version][s] = "done"

ShownUnlessLate == run.n \in late \/ ResultsShown
=============================================================================
