# 2Wings in TLA+

2Wings (repository Tigo) is a Windows desktop program that runs `winws2.exe`, a
packet filter built on the WinDivert driver, with one of many argument sets
("strategies"). A background daemon owns the engine; a GUI process, a tray
menu, a test job and the daemon's own bootstrap all ask it to start and stop
that engine. Beside the engine the program keeps strategies, settings, test
results, DNS servers and the hosts file, updates itself and its parts, and
carries a local proxy for Telegram. The modules here model the parts of it
where threads, processes, tasks and failures meet, check them with TLC on small
instances and prove their safety with TLAPS for every value of the constants.

All source paths below are relative to the repository's `src/` package unless
they begin with `tests/`, `docs/` or `assets/`.

## Inventory

What each part keeps, what it does, and what makes it correct.

| Part | State | Operations | Interacts with | Hard behaviour | Correct when |
|---|---|---|---|---|---|
| Engine launcher, `kernel/winws_runner.py`, `kernel/public.py` | `_proc`, `_phase`, `_strategy_name`, an RLock | start with driver-busy retries, stop | process table, runtime status; called from any thread | the startup wait and the retry pause sleep without the lock; `taskkill` runs with `check=False` | one engine at most, none lost |
| Runtime status, `kernel/runtime_state.py` | phase, name, pid | `mark_*`, `sync_probe` | written by launcher, monitor, bootstrap; read by all | the monitor writes what it read before | the name is that of the engine that runs |
| Monitor, `kernel/process_monitor.py`, `process_probe.py` | last pid, miss counter | a loop of probes | process table, runtime status | races every start and stop | the status follows the process table in the end |
| Daemon, `daemon/main.py` | `_operation_lock`, `_bootstrap_done`, `_shutdown` | commands, bootstrap, shutdown | launcher, tests, updates, settings | three routes into the runner, two without the daemon's lock | one start at a time; Stop is final; every command is answered |
| Strategy tests, `modules/strategy_testing/runner.py` | job thread, `_stop_requested`, snapshot | start, stop, a trial per strategy, restore | launcher, filters, settings | stop requests and exceptions at any step | undisturbed, ends, and puts back what was running |
| Test results, `results.py`, `cache.py`, `ui/pages/strategies.py` | tables in both processes, a cache file | record, poll, load, purge | written by the daemon, read and purged by the GUI | answers older than the click that waits for them | no result lost or revived; what is shown is of this run |
| Settings, `core/settings.py` | cached object and snapshot per process, `settings.json` | get, save, reload | every part, in both processes | stale caches, in-place changes, unlocked read-merge-write | a save writes its own changes and nobody else's |
| Data folder, `core/paths.py`, `modules/storage/migrate.py` | the files in three folders, `storage_root` | first copy, move | both processes, all other parts | a copy cut off, repeated, or left behind | the last write of a file is never lost |
| Strategies' versions, `modules/updates/service.py`, `strategies/repository.py` | version directories, `active_version` | check, install, select, prune | filters, settings, engine | a crash between two files | a selected version is whole or put right |
| Filters, `modules/filters` | flag file, list file and its backup, two settings | apply, detect, sync | tests, updates, GUI | the list's mode is two files renamed into each other | the full list is never lost |
| Engine files, `modules/updates/engine.py` | binaries, scripts, version record | download, stage, replace, record | the engine, which locks its files | a crash between two files | files of two releases are noticed |
| Application update, `modules/updates/app.py`, `update_splash` | installer, `.part`, status file | download, verify, install, wait | a second process, the new version | several at once, stale status | "done" is true |
| DNS, `modules/dns` | adapter settings | list, set, clean up | page and daemon | adapter by adapter, each may fail | no retired server stays |
| Hosts editor, `modules/hosts` | the system hosts file, backup, catalogue | apply, clear, refresh | the user's editor, other jobs | truncated and written in place | the user's lines survive |
| TLS exclude watcher, `modules/tls_exclude/watcher.py`, `assets/lua/twowings-tls-watch.lua` | the alerts file, the file taken, the exclude lists | report, take, apply | engine process writes, daemon thread reads | a file handed over while it is being written, I/O errors, a kill | no report lost, none listed twice |
| Telegram proxy service, `modules/tg_ws_proxy/service.py` | `_thread`, `_async_stop`, `_last_error`, an RLock | apply, stop, status | proxy thread with its event loop, the port | joins and starts with timeouts, threads that outlive them | no proxy abandoned; off is off |
| Proxy: clients, `proxy/tg_ws_proxy.py`, `bridge.py` | tasks, counters, marks of attempts, lanes | accept, try routes in turn, end | pool, lanes, TCP | cancellation at every await | one upstream per client, nothing left behind |
| Proxy: streams, `fake_tls.py`, `bridge.py`, `raw_websocket.py` | buffers of a connection | read records, cut packets, join frames | | chunks cut anywhere | every byte once, in order |
| Proxy: pools, `pool.py` | idle WebSockets, refill tasks | get, refill, rotate, reset | clients | a reset while a refill is under way | each socket has one owner |
| Proxy: HTTP/2, `h2_transport.py`, `cf_h2.py` | streams, windows, channels, replay history | request, replay, rotate, close | the library `h2`, clients | who sleeps on which event; requests cancelled before they begin | nobody sleeps through; capacity counted once; a packet kept while it may be needed |
| Strategies, `modules/strategies` | | parse, convert to winws2 arguments | launcher, updates | text conversion | the arguments mean what the batch file said |
| IPC, `daemon/ipc.py`, `protocol.py` | a local socket, a thread per client | request, reply | GUI and daemon | client timeouts against long commands | a late reply is nobody else's |
| Tray, GUI launcher, UI pages | the GUI processes registered, widgets | open, close, draw | Windows shell, daemon | | |
| Core helpers, service API, build | | | Windows | | |

The last four rows are not modelled; see the end.

## Modules

Seventeen modules describe the program, one the promise of the launcher, one
what filters of lists share. A module
about one component has the component's name; modules that compose say so.

| Module | Models | Checked by | Proved in |
|---|---|---|---|
| `EngineSlot` | the promise: a slot that holds one engine or none | as a property of `Engine` | `EngineProofs` |
| `Engine` | launcher, runtime status, monitor, process table | `MCSystem`, `MCFollowers` | `EngineProofs` |
| `Daemon` | commands, bootstrap, tests, shutdown over `Engine` | `MCDaemon` | `DaemonProofs` |
| `Settings` | `settings.json` and its cached copies | `MCShared` | `SharedProofs` |
| `TestResults` | results between test job, cache file and page | `MCShared`, `Retest.cfg` | `SharedProofs` |
| `DataFolder` | the folder of all data, copied and moved | `MCShared`, `MCFolder` | `SharedProofs` |
| `StrategyStore` | versions of the strategies, and the filters | `MCSystem` | `SystemProofs` |
| `EngineFiles` | the engine's files and their replacement | `MCSystem` | `SystemProofs` |
| `AppUpdate` | the program's own installer | `MCSystem` | `SystemProofs` |
| `Dns` | servers of the adapters, page and cleanup | `MCSystem` | `SystemProofs` |
| `Hosts` | blocks in the hosts file | `MCSystem` | `SystemProofs` |
| `TlsExclude` | alerts file, watcher thread, exclude lists | `MCFollowers` | `ServiceProofs` |
| `TgService` | the proxy's thread, its event, its port | `MCTgService` | `ServiceProofs` |
| `ProxyClient` | a run of the proxy and its clients | `MCProxy` | `ProxyProofs` |
| `ProxyStreams` | the bytes of one connection | `MCProxy` | `ProxyProofs` |
| `WsPool` | the pools of idle WebSockets | `MCProxy` | `ProxyProofs` |
| `H2Streams` | requests on one HTTP/2 connection | `MCProxy` | `ProxyProofs` |
| `H2Channel` | channels over a lane, replays, close | `MCChannel` | `ChannelProofs` |
| `Places` | what a loop over a list keeps, for `Dns`, `Hosts` and `WsPool` | with these | `PlacesTheorems` |

`MCFollowers`, `MCShared`, `MCSystem` and `MCProxy` take several modules that
share no state in turn: a variable `component`, chosen at the start, says which
one moves. That is the same as a run for each and says no more than these would.

Every module ends with its properties. A definition whose comment begins with
"Deviation" (`ReceiveEarly`, `MergedWhole`, `UnlinkBoth`, ...) is no part of the
specification: it is a plausible mistake in the operation beside it, kept to
show that a property notices it.

### Engine

One action is one step between two points where another thread, the monitor or
the operating system can get in. A thread inside the runner is a record
`call[t]` with its place, operation, strategy, attempt and result:

    enter - kill - clear - cooldown - announce - spawn - wait - (pause - enter ...) - done

From "kill" to "cooldown" (a stop) or "spawn" (a start) it holds
`WinwsRunner._lock`; in "wait" (the startup wait) and "pause" (before the next
attempt at a busy driver) it does not, exactly as the code sleeps there.
`os` is the process table: each pid is absent, up, exited, or exited with the
driver-busy code. `rt` is `runtime_state`, `runner` is what `WinwsRunner` keeps,
`mon` the monitor's loop with `_last_pid` and `_miss_count`. Engines may exit at
any moment, an engine of a previous daemon may be there from the start, pids are
reused. `KillMayFail` lets `taskkill` fail; `MonitorKeepsUp` says that the monitor
gets a whole probe into each startup wait. Building the command line and reading
the engine's error text are left out.

### Daemon

Extends `Engine` with the threads that call it: `Uis` (a thread that serves an
IPC client or the tray), the bootstrap thread and the test thread. A step is a
step of `Engine` or a step of such a thread between two calls. `op` is
`_operation_lock`. The commands are start, stop, start and stop of the tests,
the strategy update and the shutdown, each with its refusals (bootstrap not
done, tests running) in the order of the code: the bootstrap is checked before
the lock, the tests under it. The test thread goes through its captures, trials,
stop requests, exceptions and the `finally` clause; a probe is a success or an
exception.

### Settings, TestResults, DataFolder

`Settings`: a process caches one object (an id in `heap`), which its threads
change in place, and a snapshot of what it last read or wrote. Get, set, load,
merge, write, publish and snap are steps of their own, as in `save_settings` and
`_set_settings_cache`, so that two threads of a process and two processes can
overlap at each. A thread sets one field that bears its name: what a save
changes has an author. Three constants say what may happen: `OneAtATime`
(threads of a process do not overlap), `SavesApart` (nor do saves of two
processes), `ReadMayFail` (`load` may fall back to the defaults).

`TestResults`: a result is the run it comes from. The job thread records results
and rewrites the cache from the copy it has read; the page polls `test_status`
with a request that may be answered before or after a click on "start" is
served, and reads the results of strategies that are new in the answer's list.
`overtaken` and `late` are history variables: starts on their way while an answer
was applied or the version changed, and runs of which the page may therefore
have taken an answer for that of another. `CacheApart` keeps the two processes' rewritings of the
cache apart, `CacheMayFail` lets a reading fail.

`DataFolder`: a file's content is the number of the write that made it, or
`Torn`. The first copy (`paths.py`, from the folder of the program's previous
name) and the move (`migrate.py`) go item by item and file by file; either may
fail or end anywhere and is then begun again by whoever starts next. GUI and
daemon each remember the folder they read in the settings last.

### StrategyStore, EngineFiles, AppUpdate

`StrategyStore`: an actor is a thread of the GUI or the daemon that checks,
downloads, unpacks, writes lists, strategies and `version.txt`, activates and
prunes; that chooses a version; or that switches a filter. Each file operation is
a step and the process may die between two. The ip list of a version is a file
and a backup, each absent, full or a dummy. `PicksUnfinished` says whether the
user may select a version that is half installed, `OneAtATime` whether the
file work of two actors overlaps.

`EngineFiles`: a file is the release it comes from. The replacement goes file by
file over `.partial` files; the engine may be started meanwhile, which locks the
binaries, and others may remove files at any time.

`AppUpdate`: updaters (windows, and the application's own thread) over one
installer, one `.part` file, one status file, with Windows' rules for open files.

### Dns, Hosts

`Dns`: registry writes adapter by adapter and family by family from the page's
job and the cleanup thread; each write may fail. `Hosts`: the file is a sequence
of lines; a job reads, computes and writes in place, the user's editor comes in
between. `mine` and `first` are history variables: the user's own lines, and the
file before the first change.

### TlsExclude

The engine opens `tls-alerts.txt`, appends a line and closes it in separate
steps; the watcher moves the file, reads it, removes it, asks the setting and
appends to each list, in separate steps. A file is no file or a set of reports; an
open file keeps its place when it is renamed (`writing.file`).
`ReplaceBlocks` says whether an open file can be renamed; the comment in
`take_reports` assumes that it cannot. `IoMayFail` and `DaemonMayDie` add errors
and a kill at every step; what these cost is in `lost`. Which domains and
addresses are usable is the constant `ListOf`.

### TgService

`apply_settings` and `stop` hold `_lock` throughout, so the variable `place` is
that of the one holder, from the reading of the settings over the event, the
join and the new thread to the three checks of the waiting loop. A proxy
thread is booting, paired (`_async_stop` set), up, closing, closed or gone;
`Bind` reads the configured port as it is then. `status` changes nothing and is
left out. `JoinMayTimeOut` and `BootMayBeSlow` let the
5 s and 2 s end first, `ForeignPorts` lets another program listen. The
LISTENER_RESTART_DELAY between the death of a listening socket and its rebinding
is left out.

### ProxyClient, ProxyStreams, WsPool, H2Streams, H2Channel

All of these run on one event loop: a step is what a task does between two
awaits, and a task can be cancelled at each await. The package is a vendored copy
of another program with its own licence; it is modelled because the service runs
it as its own.

- `ProxyClient`: the coroutine `_run` with its listener, each client's task from
  its init over the routes (pool, worker, Cloudflare domain, HTTP/2 lane, TCP) to
  the `finally` clause; the mark of a TCP attempt and the lock of a lane, which
  clients share; how the run ends while connections are still accepted. The
  proxy asks for one data center.
- `ProxyStreams`: a byte is its place in the client's stream. Records are read
  into `_read_buf`, the splitter cuts packets, frames come back whole or in
  fragments with pings between them.
- `WsPool`: get, refill, rotation, warm-up, reset and close over one key, as either
  class of pool; a reset forgets a refill that is still under way.
- `H2Streams`: connection, streams and their windows; a request sleeps on the
  event of its stream or of the connection. The library `h2` is external.
- `H2Channel`: channels with slots for requests, a lane's capacity, the queue
  of answers, replay history, failure and close. Time is what may have passed,
  bounds on bytes are bounds on packets. A task cancelled before it began runs
  nothing, its `finally` clause included; the Conditions rely on that and on
  Python 3.12 (`docs/BUILD.md:6`), and so does the model.

## Runs

| Run | Instance | Shows |
|---|---|---|
| `followers` | monitor with one starter, 2 strategies, 2 pids, 1 retry, 2 misses; watcher with a domain and an address, every failure, and either a third unusable report or one restart; fair | `StatusNamesEngine`: no engine under another's name; `StatusFollows`: the status follows the engine down and up; `Accounted`: no report vanishes but in a failed step; `ReportsLand`: each arrives |
| `daemon_safety` | 2 commands, bootstrap, tests; 1 strategy and pid | `StartsSerialised`, `StopIsFinal`, `TestsOwnEngine`, `EngineIsSelected` |
| `daemon_live` | 1 command, bootstrap, tests, fair | `CommandsAnswered`, `JobsEnd` |
| `daemon_restore` | 2 pids, 1 retry | *violation* of `RestoredEngineKept`: the restored engine is stopped again |
| `shared` | settings with a thread of each process and 3 objects; results with 1 strategy, 2 versions, 1 click, 2 turns; data folder with 3 folders, 2 writes, 1 crash | `NoClobber`, `OwnChangeSaved`; `ResultsKept`, `ShownUnlessLate`; `StillThere` |
| `tg_service` | 2 threads, 2 ports, one of them wanted by others, all time limits; fair | `Owned`, `Answers`, `OffLasts`: until a wait ends early no proxy is abandoned and off lasts |
| `tg_leak` | a join may time out, fair | *violation* of `OffForGood`: a proxy turned off goes on |
| `retest` | 1 strategy, 1 click | *violation* of `ResultsShown`: the results of a second test are never read |
| `system` | launcher with 2 callers, 2 strategies, 2 pids, 2 retries, 3 misses; store with 2 versions, 2 actors; engine files with 2 binaries, 1 script, 3 releases; 2 updaters; 2 adapters; hosts with 1 preset, 1 service, 1 job at a time | `OneEngine`, `NoLostEngine`, `ImplementsSlot`; `Repairable`, `ListKept`; `MixNoticed`; `DoneIsNew`; `RetiredGone`; `HostsKept`, `ChoiceInStep` |
| `channel` | 1 channel of 2 requests; 2 packets with the lane to itself, or 3 with half a lane | `Accounts`, `ReplaysSound`, `NoSleep`, `LastWord`, `RetiredKept` |
| `proxy` | 2 clients, 2 domains; 2 packets and 3 messages of either framing; 3 sockets, 2 refills, pool of 2; 2 requests on 1 stream, window 3, batch 2 | `AttemptsOwned`, `OneUpstream`, `NothingLeft`; `StreamsWhole`; `SocketsOwned`; `SleepsRightly`, `WindowReturned` |
| `moved` | no crash | *violation* of `FoundAgain`: data moved away and back are those of the first move |

### Bounds

- Two threads inside the launcher are enough for every pair of steps that can
  overlap; a third only queues for the lock. Two pids let a new engine have the
  same or another pid than the one before; two strategies let a name be wrong.
- The retry and miss bounds of `system` are the code's own
  (`DRIVER_RETRIES` = 2, `DEBOUNCE_MISSES` = 3). The daemon's runs lower them,
  for the properties there are about who starts, not about how often; that they
  hold with any number of retries is proved.
- The daemon's runs have one strategy: with "no strategy" that makes two names,
  which is what `EngineIsSelected` tells apart. Two commands at once let one
  overtake the other.
- Three objects suffice in the settings: two cached and one being read.
- `MaxTurns` = 2 is the least number of runs of which one can be taken for the
  other; one call of `test_start` is enough for it, and a second is refused.
- One torn copy and its repetition (`MaxCrashes` = 1), and a file written once
  before and once after it (`MaxWrites` = 2), are the cases a copy can meet.
- In `TlsExclude` one entry per list suffices for order between lists, and one
  restart of the engine makes it report again; without the bound on the daemon's
  restarts it could die at every poll and nothing would ever arrive.
- In `TgService` two thread names, used again when a thread has ended, let one
  proxy be abandoned while another serves: no command that starts a proxy is
  given while all names are in use.
- `Versions` 9 and 10 are in the other order as directory names, which is how
  retention sorts them.
- `MaxRecord` = 2 cuts every packet's header at each of its places; lengths 0 and
  2 words give the empty packet and both forms of the header.
- `MaxHistory` = 2 with three packets makes the history drop one; `MaxLane` = 2
  with one request of others makes a channel wait for room that another gives.
- Of the two clients in `proxy` one tries the workers: clients share nothing there.
- `MaxBlanks`, `MaxCatalog`, `MaxEdits`, `MaxRelease`, `MaxGen` and `MaxMessages`
  only end what could go on for ever.

Four constants stand for a condition that the code does not enforce and the
runs assume: `OneAtATime` (in `Settings` and `StrategyStore`), `PicksUnfinished`
FALSE, `MigrateAlone`, `CacheApart`. What happens otherwise is listed below.
`KillMayFail` TRUE is in no run; the theorems cover it.

`CHECK_DEADLOCK FALSE` stands where the system may really stop: the daemon's
runs (after a shutdown), `shared` and `moved` (all writes made), `retest` (all
turns taken), `system` and `proxy` (parts that are done). Symmetry is used in
`daemon_safety` and `channel`, which check no liveness.

### Fairness

- `followers`, launcher: weak fairness of the monitor's loop and of a return;
  strong fairness of a thread's steps in the runner, since waiters for the RLock
  take turns with others that come and go; none for callers, exits of engines or
  the user. Watcher: weak fairness of its loop and of the engine's write, for a
  file is open for the time of one write. The user need not toggle, the engine need
  not report.
- `daemon_live`: the launcher's, for the daemon's threads; nobody has to send a
  command. `LiveSpec` begins with a strategy selected.
- `tg_service`, `tg_leak`: weak fairness of the holder of the lock and of each
  proxy thread. A proxy that is told to stop ends by itself; no socket has to die,
  nobody has to apply.

## Where the code does something else than it says

Runs that show it:

- `daemon_restore`: the test thread restores the engine that ran before
  (`runner.py:192`) and then calls `stop_strategy` (`runner.py:196`), while
  `tests/test_runner_filter_restore.py:15` promises a restart; it calls the
  restore alone.
- `tg_leak`: a proxy that outlives the 5 s join clears the event of the next one
  (`service.py:93`), which then is not told to stop.
- `retest`: a poll answered between the click on a second test and its start fills
  the page's list of seen strategies with those of the first
  (`ui/pages/strategies.py:463`): the new results are never read.
- `moved`: both ways of a move copy and merge without replacing
  (`migrate.py:69`), so what is moved back is what the first move left there.

Seen with a constant changed:

- `NoClobber` fails if two threads of a process overlap (`Settings!OneAtATime`
  FALSE), for `_set_settings_cache` publishes the object before its snapshot; if
  saves of two processes overlap (`SavesApart` FALSE), although
  `tests/test_settings.py:27` says that a save of the daemon does not overwrite a
  field of the GUI; and if the file cannot be read (`ReadMayFail` TRUE), for `load`
  then answers with the defaults and the save writes them.
- `ListKept` fails if two actors overlap (`StrategyStore!OneAtATime` FALSE),
  `Repairable` if an unfinished version is selected (`PicksUnfinished` TRUE).
- `ResultsKept` fails if the page's purge and the daemon's save overlap
  (`CacheApart` FALSE): both rewrite one file over one temporary name. An
  unreadable cache reads as empty, the next save loses the rest, and a missed
  reload is not repeated (`CacheMayFail` TRUE).
- `StillThere` fails if two processes copy the old data at once (`MigrateAlone`
  FALSE): the later copy goes over what the other process has written since.

Met while modelling:

- *Strategies.* Retention sorts versions by directory name. The change of the
  ip list from "any" to "none" writes no file. The version compared and the
  version installed come from two sources. `skip_list_updates` leaves a new version
  without lists. The tests' restore takes back what the GUI chose meanwhile.
- *Engine files.* A replacement cut off, followed by a download that fails,
  launches an engine of mixed files. `MixNoticed` says that they are noticed, not
  that they are not used.
- *Application update.* The lock is given back once the window is open. A second
  updater may truncate `.part` between the verification and `os.replace`, though
  `app.py:1` calls the file verified.
- *DNS.* The page marks the current selection as applied, not the one its job
  applied (`ui/pages/dns.py:139`); the cleanup keeps two servers at most, against
  its docstring (`dns/cleanup.py:21,30`); an adapter that is gone while selected is
  replaced by the first.
- *Hosts.* Jobs of GUI and daemon can read the file between another's truncation
  and its write; a crash there leaves it empty. A begin marker without an end
  removes all that follows. Applying the same services again adds blank lines
  without bound, since `text != current` (`service.py:150`) is never false, though
  `hosts_file.py:3` says "byte-for-byte".
- *Test results.* `reload_strategy` uses the GUI's current version, not the
  answer's. A version purged during the tests comes back in the cache. A second
  click is refused and turns the page's session off until the next poll. Probe
  tables stay "loading" when a probe raises.
- *Data folder.* A file torn by a crash is taken for copied by the retry; a first
  copy cut off after `settings.json` is never resumed; the daemon goes on using the
  old folder until it reloads its settings.
- *TLS watcher.* `take_reports` removes the file although it could not be read, an
  append that fails drops what is left, and a `.taken` file is never picked up again;
  the engine does not repeat itself. `lost` is what goes this way.
- *Proxy service.* A start takes any open port for the proxy's own. `status` reads
  `_thread` twice without the lock and can raise (`service.py:105`); so does
  `strategy_testing/runner.py:118`.
- *Proxy.* With Fake TLS an end between two records is an exception and the
  splitter's tail is not sent (`fake_tls.py:167`, `bridge.py:342`); a record of
  length zero ends a session. A WebSocket whose server sent a close frame, or
  whose first send fails, is left to the garbage collector. A client is cancelled
  once when the proxy stops, so a stalled peer in `ws.close` can hold the stop; a
  client that does not read holds its bridge. A worker pool found empty is not
  refilled (`pool.py:266`), so after a warm-up that failed it stays empty; its
  `report_failure` returns at once (`pool.py:331`).

## What is proved

For every number of threads, processes, strategies, pids, versions, files,
clients, requests, ...:

| Theorem | Says | Assumes |
|---|---|---|
| `EngineInvariant`, `TypeCorrect` | `IInv`, `TypeOK` | |
| `NeverTwoEngines`, `NoEngineLost` | one engine, and it is the one in `_proc` | `taskkill` works |
| `BusyMeansSomeoneInside` | a busy status has a thread to resolve it; with the lock free the runner is coherent | |
| `LauncherImplementsSlot` | every step of `Engine` is a step of `EngineSlot` or none | `taskkill` works |
| `StatusNamesTruly` | the status never puts a strategy's name on another's engine | `taskkill` works, one starter, the monitor keeps up |
| `DaemonInvariant` | `DInv` | |
| `OneStartAtATime`, `TestsAreUndisturbed`, `StopWins`, `RunnerFallsQuiet`, `EngineSafeInDaemon` | `StartsSerialised`, `TestsOwnEngine`, `StopIsFinal`, `QuietRunner`, `IInv` in the daemon | |
| `DaemonNamesTruly` | `StatusNamesEngine` in the daemon, where "one starter" is no hypothesis but a consequence | `taskkill` works, the monitor keeps up |
| `SelectedEngineRuns` | `EngineIsSelected`: the daemon's engine is the one the settings name | `taskkill` works |
| `SettingsInvariant`, `UnsavedStaysHome`, `NothingClobbered`, `OwnChangeIsSaved` | `SInv`, `UnsavedIsOwn`, `NoClobber`, `OwnChangeSaved` | `Orderly`: no overlap, readable file |
| `ResultsInvariant`, `ResultsAreKept`, `RunsAreShown` | `ResultsInv`, `ResultsKept`, `ShownUnlessLate` | `CacheApart`, not `CacheMayFail` |
| `NothingLost` | `StillThere` | `MigrateAlone` |
| `ListedOnce` | no entry twice, whatever fails | |
| `TlsInvariant`, `NoReportVanishes` | `TInv`, `Accounted` | `ReplaceBlocks` |
| `TgInvariant`, `NoneAbandoned`, `ClaimsTrue` | `GInv`, `Owned`, `Claimed` | the properties say: until a wait ends early |
| `BrokenInstallsShow` | `MixNoticed` | |
| `UpdatersReportTruth` | `DoneIsNew` | |
| `UpdatesRepair` | `Repairable` | `OneAtATime`, not `PicksUnfinished` |
| `IpsetKept` | `ListKept` | `OneAtATime` |
| `DnsInvariant`, `RetiredStayGone` | `DnsInv`, `RetiredGone` | `TypedCurrent`: the user types no retired server |
| `HostsInvariant`, `UserLinesStay`, `ChoiceStaysInStep` | `HostsInv`, `HostsKept`, `ChoiceInStep` | `OneJob`: one job at a time |
| `AttemptsGivenBack`, `OneUpstreamOnly`, `ProxyLeavesNothing` | `AttemptsOwned`, `OneUpstream`, `NothingLeft` | |
| `StreamsInvariant`, `StreamsStayWhole` | `StreamsInv`, `StreamsWhole` | |
| `PoolInvariant`, `PoolSocketsOwned` | `PoolInv`, `SocketsOwned` | |
| `SleepersAreWoken`, `WindowsReturned` | `SleepsRightly`, `WindowReturned` | |
| `ChannelsInvariant`, `ChannelsTyped` | `ChannelInv`, `H2TypeOK` | |
| `LaneAccounts`, `ReplaysAreSound`, `UploadsAreWoken`, `LastWordHeard`, `RetiredPacketsStay` | `Accounts`, `ReplaysSound`, `NoSleep`, `LastWord`, `RetiredKept` | |

The other assumptions are the named ASSUMEs of the modules: that distinguished
values are distinct, that counters are natural numbers, that threads have homes.

How the arguments go:

- *Engine.* `OneEngine` alone is not inductive: a start spawns only because
  nothing is left after its kill, and that is true at "spawn" only because it has
  held the lock since. `LockOwner` says who holds it, `Progress` what each place in
  the critical section has established, `PipeClosed` that a pipe closed behind
  `_proc` means the start is already reported. One lemma per kind of step.
- *The status* (`StatusInv`). The monitor reports what it read, and between the
  two a stop and another start may lie. `StartShown`: from its announcement to the
  end of its startup wait a start bears its own name in the status, and what runs
  is its own. `MonitorInStep`: a monitor that has probed in each wait under way
  has no report in hand that would name what runs otherwise. `MonitorKeepsUp` is
  needed: a report read before a startup wait that no probe falls into may be
  made after it.
- *Daemon.* Starts overlap only if two of three routes are open at once.
  `Places` ties a thread's place in the daemon to its call, `OpOwner` says who
  holds `_operation_lock`, `Guards` carries the result of an early check
  ("bootstrap done", "no tests") to the later place where it is still needed.
  Every step of the daemon is a step of `Engine` or leaves it alone, but for the
  bootstrap's `mark_failed`, for which `IInv` is shown separately.
- *The selected engine* (`SelectedInv`). Between the launch and the record of it in
  the settings the engine is not the selected one. The invariant says which
  thread is then still to record it: what runs after the spawn of a command
  bears that command's name (`FreshNamed`), and with no such command and no
  test what runs bears the selected one (`Settled`); the last step of the tests
  leaves nothing running (`LastEmpty`). Engines of a daemon before have no name.
- *Settings.* What a cached object differs from its snapshot in belongs to threads
  of that process (`CacheInv`), a snapshot and the file differ only in what
  others have saved since (`SnapInv`), and a copy of the file being merged differs
  from the file in the merger's own fields (`DiskInv`).
- *Data folder* (`FolderInv`). A copy under way has files that are there at its
  source and, open in its target, nobody else's (`CopyOf`); the old name's folder
  never changes, and while it is copied nobody runs unless nothing is left to copy
  (`LegacyOf`, `RunsInv`). So a copy puts nothing in the place of a last write,
  and no last write goes to a file that a copy has open.
- *DNS* (`DnsInv`). Nobody has a retired server in hand: the writes of the page's
  job come from what is offered or typed, the cleanup's from what it has read
  without them. So a list that was looked at stays clean through writes that were
  queued before. No slot of an excluded adapter is in any list of work.
- *Hosts* (`HostsInv`). A file is `Tidy` if its blocks are whole and none is there
  twice. Each operator of the rewriting keeps a tidy file tidy and the user's lines
  as they are, and changes the blocks only as it says (`Rewritten`); so what a job
  has read and is about to write fits the file (`TextFits`) until it is written.
  `OneJob` is needed just for that: of two jobs one writes over what the other
  has written or the user has added to it, and over a restored file, and
  `HostsKept` is false. The page has one job at a time; the daemon's do overlap
  with it (see the notes on the code).
- *Test results* (`ResultsInv`). `Turns` orders the runs: which answers are about
  one that is over. `CacheWhole`: who rewrites the cache file has it as it is, which
  is what `CacheApart` is for. `Follows` says what the page shows of the run unless
  the run is in `late`, that is unless a start has been overtaken by an answer about
  the run before (the finding of `retest`).
- *TlsExclude.* `TInv` says where the reports are at each place of the watcher:
  moved but not read, read and still in the file, only in the variable. A failed
  step moves what it had in hand to the history variable `lost`, and a file left
  behind holds lost reports only.
- *TgService.* At most one proxy thread is alive, it is the one in `_thread`, and
  it has its event before the start can be reported: `OneProxy` excludes the
  window in which `stop` would find no event, which `Owned` alone does not. A
  join that times out, a start given up and a port that answers for another set
  the history variable `slipped`, after which nothing of the kind is claimed.
- *Installations.* `FilesInv`: no release is newer than the newest, and what has
  been replaced so far is of the release being installed. `UpdateInv`: no status
  file of an update before is left once a window is at work, and a window that
  waits has seen an installer succeed. `StoreInv` says how far each job has come:
  an update past the conversion has a whole version (`UpdateOf`), each rename of
  the ip list leaves its content in one of the two files (`ListOf`), and a selected
  version that is not whole is older than what the next check finds.
- *Proxy.* `ClientInv` ties the place of a task to what it holds: the route it is
  on (`RouteOK`), the mark of its TCP attempt (`TcpOwned`), the lock of its lane
  (`LanesOwned`), its share in the counter (`Counted`), and what is left at each
  step of the end (`Ending`). `H2SInv` says what each request may wait for
  (`Connecting`, `ReqOK`), what a window lacks (`WindowOK`), and that whoever
  sleeps has reason to (`SleepOK`).
- *Streams* (`StreamsInv`). A byte is its position, so what was sent up, what the
  splitter keeps, what `readexactly` left over and what is on the wire are four
  stretches of positions that meet (`Pieces`), and every action moves the borders
  between them only (`StretchJoin`, `StretchCut`, `StretchMeets`). While the framing
  is understood the first border is the end of a packet (`FramesOK`). The loop of
  `split` keeps this in each of its rounds (`CutFits`): at the end of a packet the
  next length it reads is that of the client's next packet (`NextLenIs`), since two
  packets never end at the same place (`EndsGrow`).
- *Pools* (`PoolInv`). `BucketOwned`: the bucket holds what is idle or stale, each
  once. `HeldOwned`: what is made and not handed over belongs to one refill.
  `RefillOK`: only the current refill connects, and what it still wants fits
  beside what it has and what the bucket has.
- *Lists.* What a loop over a list keeps is `Picked(s, I)`, the elements at a set of
  places, defined by a recursive function. Induction with an operator is out of the
  prover's reach, so `PlacesTheorems` takes the least place at which a fact would
  fail: `Picked` has the type of the list, keeps the order, has each element kept
  and no other, and is as long as the list only if it keeps all. In the same way
  `FlattenSeq` of two lists is that of one and then the other (`FlattenConcat`), and a
  loop that counts up keeps what each of its rounds keeps (`LoopStays`).
- *Channels of a lane* (`ChannelInv`). Most of the steps are quiet: no request is
  made, ends or is forgotten. The invariants are shown for these and for six other
  kinds of step only (`StepKinds`): a request ends, a packet is sent or sent
  again, a channel ends, another channel moves. `ReplaysSound` needs to know that
  what a pass of the recovery is about to replace is still a replay of its own
  channel when it comes back from waiting (`PassOK`), and that a request whose
  packet the history still has is one the history knows (`Tracked`); `LastWord`
  needs an order of the last things a channel does (`LastInv`).

### Only model-checked

Liveness, which the prover does not handle (fairness, ENABLED): `StatusFollows`,
`ReportsLand`, `CommandsAnswered`, `JobsEnd`, `Answers`, `OffLasts`. Every other
property of the passing runs is a theorem, under the assumptions of the table.

## Not modelled

- *IPC.* Length-prefixed JSON, one request per connection; in `Daemon` a request is
  a command of a `Uis` thread. The client's 15 s timeout (`ipc.py:23`) is a hazard
  that no property covers: a start with driver-busy retries takes longer, and what a
  client does then differs from caller to caller.
- *The end of the daemon.* Its threads are killed once `run()` returns
  (`main.py:353`), wherever they are. In `Daemon` they just stop. A hazard without
  a property, too.
- *Strategies: parsing and conversion to winws2 arguments.* Regular expressions
  and tables over text, without state.
- *Journal and probes of the tests.* curl's output turned into cells: text and network.
- *Layout migrations* (`paths.py`, the reordering of files inside a folder), and
  the lookup of a moved folder: only the copies are in `DataFolder`.
- *The proxy's handshakes, ciphers and frame masking*, which keep every byte in
  its place.
- *Tray, GUI launcher, UI pages*: Windows calls and widgets. What the pages do to
  state is in `Dns`, `Hosts`, `StrategyStore`, `TestResults` and `DataFolder`;
  what they ask of the daemon are its commands.
- *Core helpers, service API, WinDivert cleanup, build*: logging, paths and calls
  to the service manager, whose effect, the busy driver, is an exit in `Engine`.

## What is left

1. `Ipc`: requests, replies and client timeouts, refining an atomic call; then
   `Daemon` driven through it, which shows what a GUI believes after a start that
   timed out.
2. `Client`: `kernel/public.py` and the pages: `restart_if_running`, which on the
   daemon branch leaves out a custom strategy (`public.py:108`).
3. The conversion to winws2 arguments as operators over sequences, against a
   reference definition on bounded inputs.
