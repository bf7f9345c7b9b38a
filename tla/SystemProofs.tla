---------------------------- MODULE SystemProofs ----------------------------
(***************************************************************************)
(* Theorems about what 2Wings keeps on the machine: StrategyStore (the     *)
(* versions of the strategies and their ipset lists), EngineFiles (winws2  *)
(* and its drivers), AppUpdate (the program itself), Dns (the servers of   *)
(* the adapters) and Hosts (the blocks of 2Wings in the hosts file).       *)
(***************************************************************************)
EXTENDS StrategyStore, EngineFiles, AppUpdate, Dns, Hosts, PlacesTheorems, FiniteSetTheorems, TLAPS

(* Engine files.                                                           *)

FilesTypeOK ==
    /\ file \in [EngineFilesSet -> Nat]
    /\ version \in Nat /\ newest \in Nat \ {0}
    /\ install \in [pc : {"idle", "download", "stage", "replace", "record"},
                    release : Nat, todo : SUBSET EngineFilesSet]

(* A release is never older than what is recorded, and what is done of an  *)
(* installation bears its release: only so does the record at its end, or  *)
(* the old one after a break, say something of every file.                 *)
InstallInv ==
    /\ version <= newest
    /\ install.pc # "idle" => version <= install.release /\ install.release <= newest
    /\ install.pc = "replace" =>
          \A f \in EngineFilesSet \ install.todo : file[f] \in {0, install.release}
    /\ install.pc = "record" => \A f \in EngineFilesSet : file[f] \in {0, install.release}

FilesInv == FilesTypeOK /\ InstallInv /\ MixNoticed

LEMMA FilesStart == FilesInit => FilesInv
<1> SUFFICES ASSUME FilesInit PROVE FilesInv
  OBVIOUS
<1> USE DEF FilesInit, IdleInstall
<1>1. FilesTypeOK
  BY DEF FilesTypeOK
<1>2. InstallInv
  BY DEF InstallInv
<1>3. MixNoticed
  BY DEF MixNoticed
<1> QED BY <1>1, <1>2, <1>3 DEF FilesInv

LEMMA FilesStep == FilesInv /\ [FilesNext]_fileVars => FilesInv'
<1> SUFFICES ASSUME FilesInv, [FilesNext]_fileVars PROVE FilesInv'
  OBVIOUS
<1> USE DEF FilesInv, FilesTypeOK, InstallInv, MixNoticed, IdleInstall
<1>1. ASSUME NEW allow \in BOOLEAN, EnsureRuntimeInstalled(allow) PROVE FilesInv'
  <2>1. /\ install' = [pc |-> "download", release |-> newest, todo |-> {}]
        /\ UNCHANGED <<file, version, newest>>
    BY <1>1 DEF EnsureRuntimeInstalled
  <2>2. FilesTypeOK' /\ InstallInv'
    BY <2>1
  <2>3. MixNoticed'
    BY <2>1
  <2> QED BY <2>2, <2>3
<1>2. CASE EngineDownloaded
  <2>0. install = [pc |-> install.pc, release |-> install.release, todo |-> install.todo]
    OBVIOUS
  <2>1. /\ \/ install' = [pc |-> "stage", release |-> install.release, todo |-> EngineFilesSet]
           \/ install' = [pc |-> "idle", release |-> 0, todo |-> {}]
        /\ install.pc = "download"
        /\ UNCHANGED <<file, version, newest>>
    BY <1>2, <2>0 DEF EngineDownloaded, InstallFails
  <2>2. MixNoticed'
    BY <2>1
  <2>3. FilesTypeOK'
    BY <2>1
  <2>4. InstallInv'
    BY <2>1
  <2> QED BY <2>2, <2>3, <2>4
<1>3. ASSUME NEW f \in EngineFilesSet, StageFile(f) PROVE FilesInv'
  <2>0. install = [pc |-> install.pc, release |-> install.release, todo |-> install.todo]
    OBVIOUS
  <2>1. /\ \/ install' = [pc |-> "replace", release |-> install.release, todo |-> EngineFilesSet]
           \/ install' = [pc |-> "stage", release |-> install.release, todo |-> install.todo \ {f}]
           \/ install' = [pc |-> "idle", release |-> 0, todo |-> {}]
        /\ install.pc = "stage"
        /\ UNCHANGED <<file, version, newest>>
    BY <1>3, <2>0 DEF StageFile, InstallFails
  <2>2. MixNoticed'
    BY <2>1
  <2>3. FilesTypeOK'
    BY <2>1
  <2>4. InstallInv'
    BY <2>1
  <2> QED BY <2>2, <2>3, <2>4
<1>4. ASSUME NEW f \in EngineFilesSet, ReplaceFile(f) PROVE FilesInv'
  <2>1. CASE running /\ f \in Binaries
    BY <1>4, <2>1 DEF ReplaceFile, InstallFails
  <2>2. CASE ~ (running /\ f \in Binaries)
    <3>1. /\ install.pc = "replace" /\ f \in install.todo
          /\ file' = [file EXCEPT ![f] = install.release]
          /\ partial' = [partial EXCEPT ![f] = FALSE]
          /\ install' = [install EXCEPT !.todo = @ \ {f},
                                        !.pc = IF install.todo = {f} THEN "record" ELSE @]
          /\ UNCHANGED <<version, newest, running>>
      BY <1>4, <2>2 DEF ReplaceFile
    <3>2. FilesTypeOK'
      BY <3>1
    <3>3. InstallInv'
      BY <3>1
    <3>4. MixNoticed'
      BY <3>1
    <3> QED BY <3>2, <3>3, <3>4
  <2> QED BY <2>1, <2>2
<1>5. CASE RecordVersion
  BY <1>5 DEF RecordVersion
<1>6. CASE InstallerKilled
  BY <1>6 DEF InstallerKilled
<1>7. CASE EngineRuns
  BY <1>7 DEF EngineRuns
<1>8. CASE ReleasePublished
  BY <1>8 DEF ReleasePublished
<1>9. ASSUME NEW f \in EngineFilesSet, FileTaken(f) PROVE FilesInv'
  BY <1>9 DEF FileTaken
<1>10. CASE UNCHANGED fileVars
  BY <1>10 DEF fileVars
<1> QED
  BY <1>1, <1>2, <1>3, <1>4, <1>5, <1>6, <1>7, <1>8, <1>9, <1>10 DEF FilesNext

(* For any files and releases: an installation broken off anywhere, one of *)
(* older files or a file taken away leaves nothing that runtime_installed  *)
(* and engine_update_available together take for a finished one.           *)
THEOREM BrokenInstallsShow == FilesSpec => []MixNoticed
<1>1. FilesInv => MixNoticed
  BY DEF FilesInv
<1> QED BY <1>1, FilesStart, FilesStep, PTL DEF FilesSpec
-----------------------------------------------------------------------------
(* Updates of the program.                                                 *)

UpdaterRec ==
    [pc : {"none", "start", "download", "verify", "replace", "verified", "install", "wait",
           "done", "error"},
     window : BOOLEAN, exe : {"installer", "part"}]

(* The old version is gone for good once the new one is in its place; a    *)
(* window that was opened has seen the status cleared, and who waits has   *)
(* seen the installer succeed.                                             *)
UpdateInv ==
    /\ upd \in [Updaters -> UpdaterRec] /\ installed \in {"old", "new"}
    /\ installed = "new" => runs # "old"
    /\ \A u \in Updaters :
          /\ upd[u].window /\ upd[u].pc # "none" => done # "stale"
          /\ upd[u].window /\ upd[u].pc \in {"wait", "done"} => installed = "new"

LEMMA UpdateStart == UpdateInit => UpdateInv
BY DEF UpdateInit, UpdateInv, UpdaterRec

LEMMA UpdateStep == UpdateInv /\ [UpdateNext]_updateVars => UpdateInv'
<1> SUFFICES ASSUME UpdateInv, [UpdateNext]_updateVars PROVE UpdateInv'
  OBVIOUS
<1> USE DEF UpdateInv, UpdaterRec, UpdaterAt, UpdaterTo
<1>1. ASSUME NEW u \in Updaters, NEW window \in BOOLEAN, CheckAndInstallApp(u, window)
      PROVE  UpdateInv'
  <2>1. installed = "old" /\ \A v \in Updaters : upd[v].pc = "wait" => ~ upd[v].window
    BY <1>1 DEF CheckAndInstallApp
  <2> QED BY <1>1, <2>1 DEF CheckAndInstallApp, StatusCleared
<1>2. ASSUME NEW u \in Updaters, FetchChecksum(u) PROVE UpdateInv'
  BY <1>2 DEF FetchChecksum, StatusCleared
<1>3. ASSUME NEW u \in Updaters, DownloadEnds(u) PROVE UpdateInv'
  BY <1>3 DEF DownloadEnds
<1>4. ASSUME NEW u \in Updaters, VerifyInstaller(u) PROVE UpdateInv'
  BY <1>4 DEF VerifyInstaller
<1>5. ASSUME NEW u \in Updaters, ReplaceInstaller(u) PROVE UpdateInv'
  BY <1>5 DEF ReplaceInstaller
<1>6. ASSUME NEW u \in Updaters, RunInstaller(u) PROVE UpdateInv'
  BY <1>6 DEF RunInstaller
<1>7. ASSUME NEW u \in Updaters, InstallerEnds(u) PROVE UpdateInv'
  BY <1>7 DEF InstallerEnds
<1>8. ASSUME NEW u \in Updaters, WaitEnds(u) PROVE UpdateInv'
  BY <1>8 DEF WaitEnds
<1>9. ASSUME NEW relaunch \in BOOLEAN, AppStarts(relaunch) PROVE UpdateInv'
  BY <1>9 DEF AppStarts
<1>10. CASE AppExits
  BY <1>10 DEF AppExits
<1>11. CASE UNCHANGED updateVars
  BY <1>11 DEF updateVars
<1> QED
  BY <1>1, <1>2, <1>3, <1>4, <1>5, <1>6, <1>7, <1>8, <1>9, <1>10, <1>11 DEF UpdateNext, WindowOpens

(* However many updaters there are and whatever each downloads or runs, a  *)
(* window that waits for the new version or has reported it done reports   *)
(* the truth.                                                              *)
THEOREM UpdatersReportTruth == UpdateSpec => []DoneIsNew
<1>1. UpdateInv => DoneIsNew
  BY DEF UpdateInv, DoneIsNew, UpdaterAt
<1> QED BY <1>1, UpdateStart, UpdateStep, PTL DEF UpdateSpec
-----------------------------------------------------------------------------
(* Strategy versions and lists.                                            *)

(* What holds as long as two actors do not work on the files at once.      *)
OnlyOne == \A a, b \in Actors : Busy(a) /\ Busy(b) => a = b

(* How far the ipset list of the actor's version has come.                 *)
ListOf(a) ==
    LET d == disk[Ver(a)] IN
    /\ job[a].pc \in {"detect", "drop", "move", "write", "save"} => Ver(a) \in Versions
    /\ job[a].pc \in {"drop", "move"} =>
          (d.list = "full" <=> job[a].mode # "loaded")
    /\ job[a].pc = "move" /\ job[a].mode = "loaded" => d.backup = "full"
    /\ job[a].pc = "write" /\ d.lists => d.backup = "full"

(* How far an update has come with its version.                            *)
Updating == {"release", "download", "unpack", "lists", "copy", "unlink", "convert", "meta", "activate"}
UpdateOf(a) ==
    LET d == disk[Ver(a)] IN
    /\ job[a].pc \in Updating =>
          /\ job[a].update
          /\ active # None /\ ~ PicksUnfinished => remote > active
    /\ job[a].pc \in (Updating \ {"release"}) \cup {"retain", "sync", "keep"} => Ver(a) \in Versions
    /\ job[a].update => job[a].pc # "idle" /\ (job[a].pc # "release" => Ver(a) \in Versions)
    /\ job[a].pc \in {"lists", "copy", "unlink", "convert"} => staging = Ver(a)
    /\ job[a].pc \in {"lists", "copy"} => ~ SkipLists
    /\ job[a].pc \in {"unlink", "convert"} => d.lists \/ SkipLists
    /\ job[a].pc \in {"meta", "activate"} => Whole(Ver(a))

StoreInv ==
    /\ StoreTypeOK /\ OnlyOne /\ ListKept
    /\ \A a \in Actors : ListOf(a) /\ UpdateOf(a)
    /\ \A a \in Actors : job[a].pc = "testing" => Ver(a) \in Versions
    /\ active # None /\ ~ PicksUnfinished /\ ~ Whole(active) => remote > active

TestOf(a) == job[a].pc = "testing" => Ver(a) \in Versions
ActiveWhole == active # None /\ ~ PicksUnfinished /\ ~ Whole(active) => remote > active

LEMMA StoreStart == StoreInit => StoreInv
<1> SUFFICES ASSUME StoreInit PROVE StoreInv
  OBVIOUS
<1> USE StoreAssumption DEF StoreInit
<1>1. StoreTypeOK
  BY DEF StoreTypeOK, DirRec, JobRec, Places, IpsetModes, GameModes, Idle, Complete, Gone
<1>2. OnlyOne
  BY DEF OnlyOne, Busy, Idle
<1>3. ListKept
  BY DEF ListKept, Complete, Gone
<1>4. \A a \in Actors : ListOf(a) /\ UpdateOf(a) /\ job[a].pc # "testing"
  BY DEF ListOf, UpdateOf, Idle, Updating
<1>5. active # None => Whole(active)
  BY DEF Whole, Complete
<1> QED BY <1>1, <1>2, <1>3, <1>4, <1>5 DEF StoreInv

(* While one actor is busy, or begins, no other is; what an idle one was   *)
(* doing says nothing of the files.                                        *)
LEMMA OneActor ==
    ASSUME OneAtATime, StoreInv, NEW a \in Actors, Busy(a) \/ MayBegin(a),
           \A b \in Actors \ {a} : job'[b] = job[b],
           StoreTypeOK', ListKept', ActiveWhole', ListOf(a)', UpdateOf(a)', TestOf(a)'
    PROVE  StoreInv'
<1>1. ASSUME NEW b \in Actors \ {a}
      PROVE  ~ Busy(b) /\ ~ Busy(b)' /\ ListOf(b)' /\ UpdateOf(b)' /\ TestOf(b)'
  <2>1. ~ Busy(b)
    BY DEF StoreInv, OnlyOne, MayBegin
  <2>2. job[b].pc \in {"idle", "testing"} /\ job'[b] = job[b]
    BY <2>1 DEF Busy
  <2>3. ListOf(b)'
    BY <2>2 DEF ListOf
  <2>4. UpdateOf(b)' /\ TestOf(b)'
    BY <2>2 DEF StoreInv, UpdateOf, TestOf, Updating, Ver
  <2> QED BY <2>1, <2>2, <2>3, <2>4 DEF Busy
<1>2. OnlyOne'
  BY <1>1 DEF OnlyOne
<1> QED BY <1>1, <1>2 DEF StoreInv, TestOf, ActiveWhole

LEMMA GoFacts ==
    ASSUME StoreTypeOK, NEW a \in Actors, NEW pc \in Places, Go(a, pc)
    PROVE  /\ job' \in [Actors -> JobRec] /\ \A b \in Actors \ {a} : job'[b] = job[b]
           /\ job'[a].pc = pc /\ job'[a].ver = job[a].ver /\ job'[a].mode = job[a].mode
           /\ job'[a].update = job[a].update
BY DEF StoreTypeOK, Go, JobRec

LEMMA EndFacts ==
    ASSUME StoreTypeOK, NEW a \in Actors, End(a)
    PROVE  /\ job' \in [Actors -> JobRec] /\ \A b \in Actors \ {a} : job'[b] = job[b]
           /\ job'[a].pc = "idle" /\ ~ job'[a].update
           /\ ListOf(a)' /\ UpdateOf(a)' /\ TestOf(a)'
<1>1. /\ job' \in [Actors -> JobRec] /\ \A b \in Actors \ {a} : job'[b] = job[b]
      /\ job'[a] = Idle
  BY DEF StoreTypeOK, End, JobRec, Idle, Places, IpsetModes, GameModes
<1> QED BY <1>1 DEF Idle, ListOf, UpdateOf, TestOf, Updating

(* Steps that leave the files and the choice of the version alone. *)
LEMMA JobOnly ==
    ASSUME OneAtATime, StoreInv, NEW a \in Actors, Busy(a) \/ MayBegin(a),
           job' \in [Actors -> JobRec], \A b \in Actors \ {a} : job'[b] = job[b],
           ipset' \in IpsetModes, game' \in GameModes, flag' \in GameModes,
           staging' \in Versions \cup {None},
           UNCHANGED <<active, disk, net>>,
           ListOf(a)', UpdateOf(a)', TestOf(a)'
    PROVE  StoreInv'
<1>1. StoreTypeOK' /\ ListKept' /\ ActiveWhole'
  BY DEF StoreInv, StoreTypeOK, ListKept, ActiveWhole, Whole, net
<1> QED BY <1>1, OneActor

-----------------------------------------------------------------------------
(* The update, up to the files *)

LEMMA UpdateBegins ==
    ASSUME OneAtATime, StoreInv, NEW a \in Actors,
           CheckForUpdate(a) \/ FetchLatestRelease(a) \/ DownloadRelease(a) \/ ExtractZip(a)
    PROVE  StoreInv'
<1> USE DEF StoreInv
<1>1. CASE CheckForUpdate(a)
  <2>1. /\ MayBegin(a) /\ job' = [job EXCEPT ![a] = [Idle EXCEPT !.pc = "release", !.update = TRUE]]
        /\ UNCHANGED <<options, flag, disk, staging, net>>
        /\ active # None /\ ~ PicksUnfinished => remote > active
    BY <1>1 DEF CheckForUpdate, NeedsUpdate, HasStrategies, Newer, Whole
  <2>2. /\ job' \in [Actors -> JobRec] /\ \A b \in Actors \ {a} : job'[b] = job[b]
        /\ job'[a].pc = "release" /\ job'[a].update
    BY <2>1 DEF StoreTypeOK, JobRec, Idle, Places, IpsetModes, GameModes
  <2>3. ListOf(a)' /\ UpdateOf(a)' /\ TestOf(a)'
    BY <2>1, <2>2 DEF ListOf, UpdateOf, TestOf, Updating, options, net
  <2> QED BY <2>1, <2>2, <2>3, JobOnly DEF options, StoreTypeOK
<1>2. CASE FetchLatestRelease(a)
  <2>1. /\ Busy(a) /\ job[a].pc = "release" /\ UpdateOf(a)
        /\ UNCHANGED <<options, flag, disk, staging, net>>
    BY <1>2 DEF FetchLatestRelease, Doing, Busy
  <2>2. /\ job' \in [Actors -> JobRec] /\ \A b \in Actors \ {a} : job'[b] = job[b]
        /\ job'[a].pc = "download" /\ job'[a].ver = latest /\ job'[a].update = job[a].update
    <3>1. job' = [job EXCEPT ![a].pc = "download", ![a].ver = latest]
      BY <1>2 DEF FetchLatestRelease
    <3>2. latest \in Versions /\ job \in [Actors -> JobRec]
      BY DEF StoreTypeOK
    <3>3. \A b \in Actors \ {a} : job'[b] = job[b]
      BY <3>1, <3>2
    <3>4. job'[a].pc = "download" /\ job'[a].ver = latest /\ job'[a].update = job[a].update
      BY <3>1, <3>2 DEF JobRec
    <3>5. job' \in [Actors -> JobRec]
      <4>1. "download" \in Places
        BY DEF Places
      <4> QED BY <3>1, <3>2, <4>1 DEF JobRec
    <3> QED BY <3>3, <3>4, <3>5
  <2>3. ListOf(a)' /\ UpdateOf(a)' /\ TestOf(a)'
    BY <2>1, <2>2 DEF ListOf, UpdateOf, TestOf, Updating, options, net, Ver, StoreTypeOK
  <2> QED BY <2>1, <2>2, <2>3, JobOnly DEF options, StoreTypeOK
<1>3. CASE DownloadRelease(a)
  <2>1. /\ Busy(a) /\ job[a].pc = "download" /\ UpdateOf(a) /\ Go(a, "unpack") /\ staging' = None
        /\ UNCHANGED <<options, flag, disk, net>>
    BY <1>3 DEF DownloadRelease, Doing, Busy
  <2>2. /\ job' \in [Actors -> JobRec] /\ \A b \in Actors \ {a} : job'[b] = job[b]
        /\ job'[a].pc = "unpack" /\ job'[a].ver = job[a].ver /\ job'[a].update = job[a].update
    BY <2>1, GoFacts DEF Places
  <2>3. ListOf(a)' /\ UpdateOf(a)' /\ TestOf(a)'
    BY <2>1, <2>2 DEF ListOf, UpdateOf, TestOf, Updating, options, net, Ver
  <2> QED BY <2>1, <2>2, <2>3, JobOnly DEF options, StoreTypeOK
<1>4. CASE ExtractZip(a)
  <2> DEFINE pc == IF SkipLists THEN "unlink" ELSE "lists"
  <2>1. /\ Busy(a) /\ job[a].pc = "unpack" /\ UpdateOf(a) /\ Go(a, pc) /\ staging' = Ver(a)
        /\ UNCHANGED <<options, flag, disk, net>>
    BY <1>4 DEF ExtractZip, Doing, Busy
  <2>2. /\ job' \in [Actors -> JobRec] /\ \A b \in Actors \ {a} : job'[b] = job[b]
        /\ job'[a].pc = pc /\ job'[a].ver = job[a].ver /\ job'[a].update = job[a].update
    BY <2>1, GoFacts DEF Places
  <2>3. Ver(a) \in Versions
    BY <2>1 DEF UpdateOf, Updating
  <2>4. ListOf(a)' /\ UpdateOf(a)' /\ TestOf(a)'
    BY <2>1, <2>2, <2>3 DEF ListOf, UpdateOf, TestOf, Updating, options, net, Ver
  <2> QED BY <2>1, <2>2, <2>3, <2>4, JobOnly DEF options, StoreTypeOK
<1> QED BY <1>1, <1>2, <1>3, <1>4

-----------------------------------------------------------------------------
(* Steps that write to the directory of one version *)

LEMMA OneDirectory ==
    ASSUME OneAtATime, StoreInv, NEW a \in Actors, Busy(a), NEW v \in Versions,
           job' \in [Actors -> JobRec], \A b \in Actors \ {a} : job'[b] = job[b],
           disk' \in [Versions -> DirRec], \A w \in Versions \ {v} : disk'[w] = disk[w],
           disk'[v].lists => "full" \in {disk'[v].list, disk'[v].backup},
           active = v /\ ~ PicksUnfinished /\ ~ Whole(v)' => remote > active,
           staging' \in Versions \cup {None},
           UNCHANGED <<options, flag, net>>,
           ListOf(a)', UpdateOf(a)', TestOf(a)'
    PROVE  StoreInv'
<1>1. StoreTypeOK'
  BY DEF StoreInv, StoreTypeOK, options, net
<1>2. ListKept'
  BY DEF StoreInv, ListKept
<1>3. ActiveWhole'
  <2>1. active' = active /\ remote' = remote /\ active \in Versions \cup {None}
    BY DEF options, net, StoreInv, StoreTypeOK
  <2>2. CASE active = v
    BY <2>1, <2>2 DEF ActiveWhole
  <2>3. CASE active # v
    BY <2>1, <2>3 DEF ActiveWhole, Whole, StoreInv
  <2> QED BY <2>2, <2>3
<1> QED BY <1>1, <1>2, <1>3, OneActor

LEMMA WriteTxt ==
    ASSUME StoreTypeOK, NEW a \in Actors, Ver(a) \in Versions, NEW t \in {"none", "part", "full"},
           Write(a, "txt", t)
    PROVE  /\ disk' \in [Versions -> DirRec]
           /\ \A w \in Versions \ {Ver(a)} : disk'[w] = disk[w]
           /\ disk'[Ver(a)].txt = t
           /\ disk'[Ver(a)].lists = disk[Ver(a)].lists
           /\ disk'[Ver(a)].list = disk[Ver(a)].list
           /\ disk'[Ver(a)].backup = disk[Ver(a)].backup
BY DEF StoreTypeOK, Write, DirRec

LEMMA WriteIpset ==
    ASSUME StoreTypeOK, NEW a \in Actors, Ver(a) \in Versions, NEW l \in {"absent", "empty", "dummy", "full"},
           Write(a, "list", l)
    PROVE  /\ disk' \in [Versions -> DirRec]
           /\ \A w \in Versions \ {Ver(a)} : disk'[w] = disk[w]
           /\ disk'[Ver(a)].txt = disk[Ver(a)].txt
           /\ disk'[Ver(a)].lists = disk[Ver(a)].lists
           /\ disk'[Ver(a)].list = l
           /\ disk'[Ver(a)].backup = disk[Ver(a)].backup
BY DEF StoreTypeOK, Write, DirRec

LEMMA DropBackup ==
    ASSUME StoreTypeOK, NEW a \in Actors, Ver(a) \in Versions,
           Write(a, "backup", "absent")
    PROVE  /\ disk' \in [Versions -> DirRec]
           /\ \A w \in Versions \ {Ver(a)} : disk'[w] = disk[w]
           /\ disk'[Ver(a)].txt = disk[Ver(a)].txt
           /\ disk'[Ver(a)].lists = disk[Ver(a)].lists
           /\ disk'[Ver(a)].list = disk[Ver(a)].list
           /\ disk'[Ver(a)].backup = "absent"
BY DEF StoreTypeOK, Write, DirRec

LEMMA WriteVersion ==
    ASSUME StoreTypeOK, NEW a \in Actors, Ver(a) \in Versions,
           Write(a, "meta", TRUE)
    PROVE  /\ disk' \in [Versions -> DirRec]
           /\ \A w \in Versions \ {Ver(a)} : disk'[w] = disk[w]
           /\ disk'[Ver(a)].txt = disk[Ver(a)].txt
           /\ disk'[Ver(a)].lists = disk[Ver(a)].lists
           /\ disk'[Ver(a)].list = disk[Ver(a)].list
           /\ disk'[Ver(a)].backup = disk[Ver(a)].backup
BY DEF StoreTypeOK, Write, DirRec

LEMMA UpdateWrites ==
    ASSUME OneAtATime, StoreInv, NEW a \in Actors,
           ClearLists(a) \/ CopyLists(a) \/ UnlinkStrategies(a) \/ ConvertStrategies(a) \/ WriteMeta(a)
    PROVE  StoreInv'
<1> DEFINE v == Ver(a)
<1>1. /\ job[a].pc \in {"lists", "copy", "unlink", "convert", "meta"} /\ Busy(a)
      /\ UpdateOf(a) /\ v \in Versions /\ (active # None /\ ~ PicksUnfinished => remote > active)
      /\ job[a].update /\ (job[a].pc # "meta" => staging = v /\ staging # None)
      /\ StoreTypeOK /\ ListKept /\ staging \in Versions \cup {None}
  BY StoreAssumption DEF ClearLists, CopyLists, UnlinkStrategies, ConvertStrategies, WriteMeta, Doing, Busy,
         StoreInv, StoreTypeOK, UpdateOf, Updating
<1>2. active = v => active # None
  BY <1>1, StoreAssumption
<1>3. CASE ClearLists(a)
  <2>1. /\ Go(a, "copy") /\ UNCHANGED <<options, flag, staging, net>> /\ job[a].pc = "lists"
        /\ disk' = [disk EXCEPT ![v].lists = FALSE, ![v].list = "absent", ![v].backup = "absent"]
    BY <1>1, <1>3 DEF ClearLists, Doing
  <2>2. /\ job' \in [Actors -> JobRec] /\ \A b \in Actors \ {a} : job'[b] = job[b]
        /\ job'[a].pc = "copy" /\ job'[a].ver = job[a].ver /\ job'[a].update = job[a].update
    BY <1>1, <2>1, GoFacts DEF Places
  <2>3. /\ disk' \in [Versions -> DirRec] /\ \A w \in Versions \ {v} : disk'[w] = disk[w]
        /\ ~ disk'[v].lists
    <3> DEFINE d1 == [disk EXCEPT ![v].lists = FALSE]
               d2 == [d1 EXCEPT ![v].list = "absent"]
    <3>1. d1 \in [Versions -> DirRec] /\ ~ d1[v].lists /\ \A w \in Versions \ {v} : d1[w] = disk[w]
      BY <1>1 DEF StoreTypeOK, DirRec
    <3> HIDE DEF d1
    <3>2. d2 \in [Versions -> DirRec] /\ ~ d2[v].lists /\ \A w \in Versions \ {v} : d2[w] = disk[w]
      BY <1>1, <3>1 DEF DirRec
    <3> HIDE DEF d2
    <3>3. disk' = [d2 EXCEPT ![v].backup = "absent"]
      BY <2>1 DEF d1, d2
    <3> QED BY <1>1, <3>2, <3>3 DEF DirRec
  <2>4. ListOf(a)' /\ UpdateOf(a)' /\ TestOf(a)'
    BY <1>1, <2>1, <2>2 DEF ListOf, UpdateOf, TestOf, Updating, options, net, Ver
  <2> QED BY <1>1, <1>2, <2>1, <2>2, <2>3, <2>4, OneDirectory
<1>4. CASE CopyLists(a)
  <2>1. /\ Go(a, "unlink") /\ UNCHANGED <<options, flag, staging, net>> /\ job[a].pc = "copy"
        /\ disk' = [disk EXCEPT ![v].lists = TRUE, ![v].list = "full"]
    BY <1>1, <1>4 DEF CopyLists, Doing
  <2>2. /\ job' \in [Actors -> JobRec] /\ \A b \in Actors \ {a} : job'[b] = job[b]
        /\ job'[a].pc = "unlink" /\ job'[a].ver = job[a].ver /\ job'[a].update = job[a].update
    BY <1>1, <2>1, GoFacts DEF Places
  <2>3. /\ disk' \in [Versions -> DirRec] /\ \A w \in Versions \ {v} : disk'[w] = disk[w]
        /\ disk'[v].lists /\ disk'[v].list = "full"
    BY <1>1, <2>1 DEF StoreTypeOK, DirRec
  <2>4. ListOf(a)' /\ UpdateOf(a)' /\ TestOf(a)'
    BY <1>1, <2>1, <2>2, <2>3 DEF ListOf, UpdateOf, TestOf, Updating, options, net, Ver
  <2> QED BY <1>1, <1>2, <2>1, <2>2, <2>3, <2>4, OneDirectory
<1>5. CASE UnlinkStrategies(a)
  <2>1. /\ Go(a, "convert") /\ UNCHANGED <<options, flag, staging, net>> /\ job[a].pc = "unlink"
        /\ Write(a, "txt", "none")
    BY <1>1, <1>5 DEF UnlinkStrategies, Doing
  <2>2. /\ job' \in [Actors -> JobRec] /\ \A b \in Actors \ {a} : job'[b] = job[b]
        /\ job'[a].pc = "convert" /\ job'[a].ver = job[a].ver /\ job'[a].update = job[a].update
    BY <1>1, <2>1, GoFacts DEF Places
  <2>3. /\ disk' \in [Versions -> DirRec] /\ \A w \in Versions \ {v} : disk'[w] = disk[w]
        /\ disk'[v].lists = disk[v].lists /\ disk'[v].list = disk[v].list
        /\ disk'[v].backup = disk[v].backup
    BY <1>1, <2>1, WriteTxt
  <2>4. ListOf(a)' /\ UpdateOf(a)' /\ TestOf(a)'
    BY <1>1, <2>1, <2>2, <2>3 DEF ListOf, UpdateOf, TestOf, Updating, options, net, Ver
  <2> QED BY <1>1, <1>2, <2>1, <2>2, <2>3, <2>4, OneDirectory DEF ListKept
<1>6. CASE ConvertStrategies(a)
  <2>1. /\ UNCHANGED <<options, flag, staging, net>> /\ job[a].pc = "convert"
        /\ \/ Write(a, "txt", "part") /\ UNCHANGED job
           \/ Write(a, "txt", "full") /\ Go(a, "meta")
    BY <1>1, <1>6 DEF ConvertStrategies, Doing
  <2>2. /\ disk' \in [Versions -> DirRec] /\ \A w \in Versions \ {v} : disk'[w] = disk[w]
        /\ disk'[v].lists = disk[v].lists /\ disk'[v].list = disk[v].list
        /\ disk'[v].backup = disk[v].backup
        /\ \/ disk'[v].txt = "part" /\ UNCHANGED job
           \/ disk'[v].txt = "full" /\ Go(a, "meta")
    BY <1>1, <2>1, WriteTxt
  <2>3. /\ job' \in [Actors -> JobRec] /\ \A b \in Actors \ {a} : job'[b] = job[b]
        /\ job'[a].ver = job[a].ver /\ job'[a].update = job[a].update
        /\ \/ job'[a].pc = "convert"
           \/ job'[a].pc = "meta" /\ disk'[v].txt = "full"
    BY <1>1, <2>1, <2>2, GoFacts DEF Places, StoreTypeOK
  <2>4. ListOf(a)' /\ UpdateOf(a)' /\ TestOf(a)'
    BY <1>1, <2>1, <2>2, <2>3 DEF ListOf, UpdateOf, TestOf, Updating, options, net, Ver, Whole
  <2> QED BY <1>1, <1>2, <2>1, <2>2, <2>3, <2>4, OneDirectory DEF ListKept
<1>7. CASE WriteMeta(a)
  <2>1. /\ Go(a, "activate") /\ UNCHANGED <<options, flag, net>> /\ job[a].pc = "meta"
        /\ Write(a, "meta", TRUE) /\ staging' = None
    BY <1>1, <1>7 DEF WriteMeta, Doing
  <2>2. /\ job' \in [Actors -> JobRec] /\ \A b \in Actors \ {a} : job'[b] = job[b]
        /\ job'[a].pc = "activate" /\ job'[a].ver = job[a].ver /\ job'[a].update = job[a].update
    BY <1>1, <2>1, GoFacts DEF Places
  <2>3. /\ disk' \in [Versions -> DirRec] /\ \A w \in Versions \ {v} : disk'[w] = disk[w]
        /\ disk'[v].lists = disk[v].lists /\ disk'[v].list = disk[v].list
        /\ disk'[v].backup = disk[v].backup /\ disk'[v].txt = disk[v].txt
    BY <1>1, <2>1, WriteVersion
  <2>4. ListOf(a)' /\ UpdateOf(a)' /\ TestOf(a)'
    BY <1>1, <2>1, <2>2, <2>3 DEF ListOf, UpdateOf, TestOf, Updating, options, net, Ver, Whole
  <2> QED BY <1>1, <1>2, <2>1, <2>2, <2>3, <2>4, OneDirectory DEF ListKept
<1> QED BY <1>3, <1>4, <1>5, <1>6, <1>7

LEMMA UpdateEnds ==
    ASSUME OneAtATime, StoreInv, NEW a \in Actors,
           SetActive(a) \/ Retain(a) \/ SyncGameFilter(a) \/ KeepIpsetMode(a) \/ UpdateFails(a)
    PROVE  StoreInv'
<1> USE DEF StoreInv
<1>1. CASE SetActive(a)
  <2>1. /\ Busy(a) /\ job[a].pc = "activate" /\ UpdateOf(a) /\ Go(a, "retain") /\ active' = Ver(a)
        /\ UNCHANGED <<ipset, game, flag, disk, staging, net>>
    BY <1>1 DEF SetActive, Doing, Busy
  <2>2. /\ job' \in [Actors -> JobRec] /\ \A b \in Actors \ {a} : job'[b] = job[b]
        /\ job'[a].pc = "retain" /\ job'[a].ver = job[a].ver /\ job'[a].update = job[a].update
    BY <2>1, GoFacts DEF Places
  <2>3. Ver(a) \in Versions /\ Whole(Ver(a))
    BY <2>1 DEF UpdateOf, Updating
  <2>4. ListOf(a)' /\ UpdateOf(a)' /\ TestOf(a)'
    BY <2>1, <2>2, <2>3 DEF ListOf, UpdateOf, TestOf, Updating, Ver
  <2>5. StoreTypeOK' /\ ListKept' /\ ActiveWhole'
    BY <2>1, <2>2, <2>3 DEF StoreTypeOK, ListKept, ActiveWhole, Whole, net
  <2> QED BY <2>1, <2>2, <2>4, <2>5, OneActor
<1>2. CASE Retain(a)
  <2> DEFINE victims == IF Keep = 0 THEN {} ELSE Stale(Keep)
  <2>1. /\ Busy(a) /\ job[a].pc = "retain" /\ UpdateOf(a)
        /\ job' = [job EXCEPT ![a].pc = "purge", ![a].victims = victims]
        /\ UNCHANGED <<options, flag, disk, staging, net>>
    BY <1>2 DEF Retain, Doing, Busy
  <2>2. victims \subseteq Versions /\ "purge" \in Places
    BY DEF Stale, Installed, Places
  <2> HIDE DEF victims
  <2>3. /\ job' \in [Actors -> JobRec] /\ \A b \in Actors \ {a} : job'[b] = job[b]
        /\ job'[a].pc = "purge" /\ job'[a].ver = job[a].ver /\ job'[a].update = job[a].update
    BY <2>1, <2>2 DEF StoreTypeOK, JobRec
  <2>4. ListOf(a)' /\ UpdateOf(a)' /\ TestOf(a)'
    BY <2>1, <2>3 DEF ListOf, UpdateOf, TestOf, Updating, Ver
  <2> QED BY <2>1, <2>3, <2>4, JobOnly DEF options, StoreTypeOK
<1>3. CASE SyncGameFilter(a)
  <2>1. /\ Busy(a) /\ job[a].pc = "sync" /\ UpdateOf(a) /\ Go(a, "keep")
        /\ game' \in GameModes /\ flag' \in GameModes
        /\ UNCHANGED <<active, ipset, disk, staging, net>>
    BY <1>3 DEF SyncGameFilter, Doing, Busy, StoreTypeOK
  <2>2. /\ job' \in [Actors -> JobRec] /\ \A b \in Actors \ {a} : job'[b] = job[b]
        /\ job'[a].pc = "keep" /\ job'[a].ver = job[a].ver /\ job'[a].update = job[a].update
    BY <2>1, GoFacts DEF Places
  <2>3. ListOf(a)' /\ UpdateOf(a)' /\ TestOf(a)'
    BY <2>1, <2>2 DEF ListOf, UpdateOf, TestOf, Updating, Ver
  <2> QED BY <2>1, <2>2, <2>3, JobOnly DEF StoreTypeOK
<1>4. CASE KeepIpsetMode(a)
  <2>1. /\ Busy(a) /\ job[a].pc = "keep" /\ UpdateOf(a)
        /\ job' = [job EXCEPT ![a].pc = "detect", ![a].mode = ipset]
        /\ UNCHANGED <<options, flag, disk, staging, net>>
    BY <1>4 DEF KeepIpsetMode, Doing, Busy
  <2>2. "detect" \in Places
    BY DEF Places
  <2>3. /\ job' \in [Actors -> JobRec] /\ \A b \in Actors \ {a} : job'[b] = job[b]
        /\ job'[a].pc = "detect" /\ job'[a].ver = job[a].ver /\ job'[a].update = job[a].update
    BY <2>1, <2>2 DEF StoreTypeOK, JobRec
  <2>4. ListOf(a)' /\ UpdateOf(a)' /\ TestOf(a)'
    BY <2>1, <2>3 DEF ListOf, UpdateOf, TestOf, Updating, Ver
  <2> QED BY <2>1, <2>3, <2>4, JobOnly DEF options, StoreTypeOK
<1>5. CASE UpdateFails(a)
  <2>1. Busy(a) /\ End(a) /\ staging' = None /\ UNCHANGED <<options, flag, disk, net>>
    BY <1>5 DEF UpdateFails
  <2> QED BY <2>1, EndFacts, JobOnly DEF options, StoreTypeOK
<1> QED BY <1>1, <1>2, <1>3, <1>4, <1>5

-----------------------------------------------------------------------------
(* Retention, and what an idle actor does *)

(* An actor that is not at the files, before or after the step. *)
LEMMA IdleActor ==
    ASSUME StoreInv, NEW a \in Actors, ~ Busy(a), ~ Busy(a)',
           job' \in [Actors -> JobRec], \A b \in Actors \ {a} : job'[b] = job[b],
           UNCHANGED <<options, flag, disk, staging, net>>,
           ListOf(a)', UpdateOf(a)', TestOf(a)'
    PROVE  StoreInv'
<1>1. StoreTypeOK' /\ ListKept' /\ ActiveWhole'
  BY DEF StoreInv, StoreTypeOK, ListKept, ActiveWhole, Whole, options, net
<1>2. ASSUME NEW b \in Actors \ {a} PROVE ListOf(b)' /\ UpdateOf(b)' /\ TestOf(b)' /\ (Busy(b)' <=> Busy(b))
  <2>1. job'[b] = job[b]
    OBVIOUS
  <2>2. ListOf(b)'
    BY <2>1 DEF StoreInv, ListOf, Ver
  <2>3. UpdateOf(b)'
    BY <2>1 DEF StoreInv, UpdateOf, Ver, Whole, options, net
  <2> QED BY <2>1, <2>2, <2>3 DEF StoreInv, TestOf, Ver, Busy
<1>3. OnlyOne'
  BY <1>2 DEF StoreInv, OnlyOne
<1> QED BY <1>1, <1>2, <1>3 DEF StoreInv, TestOf, ActiveWhole

LEMMA Retention ==
    ASSUME OneAtATime, StoreInv, NEW a \in Actors,
           PurgeStale(a) \/ Purge(a) \/ Die(a) \/ \E v \in Versions : PickVersion(a, v)
    PROVE  StoreInv'
<1> USE DEF StoreInv
<1>1. CASE PurgeStale(a)
  <2>1. /\ MayBegin(a)
        /\ job' = [job EXCEPT ![a] = [Idle EXCEPT !.pc = "purge", !.victims = Stale(1)]]
        /\ UNCHANGED <<options, flag, disk, staging, net>>
    BY <1>1 DEF PurgeStale
  <2>2. Stale(1) \subseteq Versions
    BY DEF Stale, Installed
  <2>3. /\ job' \in [Actors -> JobRec] /\ \A b \in Actors \ {a} : job'[b] = job[b]
        /\ job'[a].pc = "purge" /\ ~ job'[a].update
    BY <2>1, <2>2 DEF StoreTypeOK, JobRec, Idle, Places, IpsetModes, GameModes
  <2>4. ListOf(a)' /\ UpdateOf(a)' /\ TestOf(a)'
    BY <2>3 DEF ListOf, UpdateOf, TestOf, Updating
  <2> QED BY <2>1, <2>3, <2>4, JobOnly DEF options, StoreTypeOK
<1>2. CASE Purge(a)
  <2>1. /\ Busy(a) /\ job[a].pc = "purge" /\ UpdateOf(a)
        /\ UNCHANGED <<options, flag, staging, net>>
    BY <1>2 DEF Purge, Doing, Busy
  <2>2. CASE (IF job[a].update THEN Go(a, "sync") ELSE End(a)) /\ UNCHANGED disk
    <3>1. CASE End(a) /\ UNCHANGED disk
      BY <2>1, <3>1, EndFacts, JobOnly DEF options, StoreTypeOK
    <3>2. CASE job[a].update /\ Go(a, "sync") /\ UNCHANGED disk
      <4>1. /\ job' \in [Actors -> JobRec] /\ \A b \in Actors \ {a} : job'[b] = job[b]
            /\ job'[a].pc = "sync" /\ job'[a].ver = job[a].ver /\ job'[a].update = job[a].update
        BY <3>2, GoFacts DEF Places
      <4>2. ListOf(a)' /\ UpdateOf(a)' /\ TestOf(a)'
        BY <2>1, <3>2, <4>1 DEF ListOf, UpdateOf, TestOf, Updating, Ver
      <4> QED BY <2>1, <3>2, <4>1, <4>2, JobOnly DEF options, StoreTypeOK
    <3> QED BY <2>2, <3>1, <3>2
  <2>3. ASSUME NEW v \in job[a].victims,
               job' = [job EXCEPT ![a].victims = @ \ {v}],
               IF v = active THEN UNCHANGED disk
               ELSE \E left \in {Gone, [Gone EXCEPT !.txt = "part"]} : disk' = [disk EXCEPT ![v] = left]
        PROVE  StoreInv'
    <3>1. v \in Versions
      BY DEF StoreTypeOK, JobRec
    <3>2. /\ job' \in [Actors -> JobRec] /\ \A b \in Actors \ {a} : job'[b] = job[b]
          /\ job'[a].pc = "purge" /\ job'[a].ver = job[a].ver /\ job'[a].update = job[a].update
      BY <2>1, <2>3 DEF StoreTypeOK, JobRec
    <3>3. ListOf(a)' /\ UpdateOf(a)' /\ TestOf(a)'
      BY <2>1, <3>2 DEF ListOf, UpdateOf, TestOf, Updating, Ver
    <3>4. CASE v = active
      BY <2>1, <2>3, <3>2, <3>3, <3>4, JobOnly DEF options, StoreTypeOK
    <3>5. CASE v # active
      <4>1. PICK left \in {Gone, [Gone EXCEPT !.txt = "part"]} : disk' = [disk EXCEPT ![v] = left]
        BY <2>3, <3>5
      <4>2. left \in DirRec /\ ~ left.lists
        <5>1. Gone \in DirRec /\ ~ Gone.lists
          BY DEF DirRec, Gone
        <5>2. [Gone EXCEPT !.txt = "part"] \in DirRec /\ ~ [Gone EXCEPT !.txt = "part"].lists
          BY <5>1 DEF DirRec
        <5> QED BY <4>1, <5>1, <5>2
      <4>3. /\ disk' \in [Versions -> DirRec] /\ \A w \in Versions \ {v} : disk'[w] = disk[w]
            /\ ~ disk'[v].lists
        BY <3>1, <4>1, <4>2 DEF StoreTypeOK
      <4> QED BY <2>1, <3>1, <3>2, <3>3, <3>5, <4>3, OneDirectory DEF StoreTypeOK
    <3> QED BY <3>4, <3>5
  <2> QED BY <1>2, <2>2, <2>3 DEF Purge
<1>3. CASE Die(a)
  <2>1. End(a) /\ UNCHANGED <<options, flag, disk, staging, net>>
    BY <1>3 DEF Die
  <2>2. CASE Busy(a)
    BY <2>1, <2>2, EndFacts, JobOnly DEF options, StoreTypeOK
  <2>3. CASE ~ Busy(a)
    <3>1. ~ Busy(a)'
      BY <2>1, EndFacts DEF Busy
    <3> QED BY <2>1, <2>3, <3>1, EndFacts, IdleActor
  <2> QED BY <2>2, <2>3
<1>4. ASSUME NEW v \in Versions, PickVersion(a, v) PROVE StoreInv'
  <2>1. /\ MayBegin(a) /\ active' = v /\ (~ PicksUnfinished => Whole(v)) /\ job[a].pc = "idle"
        /\ UNCHANGED <<ipset, game, flag, disk, staging, net, job>>
    BY <1>4 DEF PickVersion, Doing, Whole
  <2>2. StoreTypeOK' /\ ListKept' /\ ActiveWhole'
    BY <2>1 DEF StoreTypeOK, ListKept, ActiveWhole, Whole, net
  <2>3. ListOf(a)' /\ UpdateOf(a)' /\ TestOf(a)'
    BY <2>1 DEF ListOf, UpdateOf, TestOf, Updating
  <2> QED BY <2>1, <2>2, <2>3, OneActor
<1> QED BY <1>1, <1>2, <1>3, <1>4

-----------------------------------------------------------------------------
(* Filters *)

LEMMA FilterBegins ==
    ASSUME OneAtATime, StoreInv, NEW a \in Actors,
           \/ \E mode \in IpsetModes : SetIpsetMode(a, mode)
           \/ \E mode \in GameModes : SetGameFilter(a, mode)
           \/ SaveGameFilter(a) \/ CaptureFilters(a) \/ RestoreFilters(a)
    PROVE  StoreInv'
<1> USE DEF StoreInv
<1>1. ASSUME NEW mode \in IpsetModes, SetIpsetMode(a, mode) PROVE StoreInv'
  <2>1. /\ MayBegin(a) /\ active \in Versions
        /\ job' = [job EXCEPT ![a] = [Idle EXCEPT !.pc = "detect", !.ver = active, !.mode = mode]]
        /\ UNCHANGED <<options, flag, disk, staging, net>>
    BY <1>1 DEF SetIpsetMode, StoreTypeOK
  <2>2. /\ job' \in [Actors -> JobRec] /\ \A b \in Actors \ {a} : job'[b] = job[b]
        /\ job'[a].pc = "detect" /\ ~ job'[a].update /\ job'[a].ver \in Versions
    BY <2>1 DEF StoreTypeOK, JobRec, Idle, Places, IpsetModes, GameModes
  <2>3. ListOf(a)' /\ UpdateOf(a)' /\ TestOf(a)'
    BY <2>2 DEF ListOf, UpdateOf, TestOf, Updating, Ver
  <2> QED BY <2>1, <2>2, <2>3, JobOnly DEF options, StoreTypeOK
<1>2. ASSUME NEW mode \in GameModes, SetGameFilter(a, mode) PROVE StoreInv'
  <2>1. /\ MayBegin(a) /\ flag' = mode
        /\ job' = [job EXCEPT ![a] = [Idle EXCEPT !.pc = "game", !.game = mode]]
        /\ UNCHANGED <<options, disk, staging, net>>
    BY <1>2 DEF SetGameFilter
  <2>2. /\ job' \in [Actors -> JobRec] /\ \A b \in Actors \ {a} : job'[b] = job[b]
        /\ job'[a].pc = "game" /\ ~ job'[a].update
    BY <2>1 DEF StoreTypeOK, JobRec, Idle, Places, IpsetModes, GameModes
  <2>3. ListOf(a)' /\ UpdateOf(a)' /\ TestOf(a)'
    BY <2>2 DEF ListOf, UpdateOf, TestOf, Updating
  <2> QED BY <2>1, <2>2, <2>3, JobOnly DEF options, StoreTypeOK
<1>3. CASE SaveGameFilter(a)
  <2>1. /\ Busy(a) /\ job[a].pc = "game" /\ UpdateOf(a)
        /\ game' \in GameModes /\ Ver(a) \in Versions \cup {None}
        /\ UNCHANGED <<active, ipset, flag, disk, staging, net>>
        /\ job' = [job EXCEPT ![a] = IF Ver(a) = None THEN Idle
                                     ELSE [@ EXCEPT !.pc = "detect", !.game = "off"]]
    BY <1>3 DEF SaveGameFilter, Doing, Busy, StoreTypeOK, JobRec, Ver
  <2>2. CASE Ver(a) = None
    <3>1. End(a)
      BY <2>1, <2>2 DEF End
    <3> QED BY <2>1, <3>1, EndFacts, JobOnly DEF StoreTypeOK
  <2>3. CASE Ver(a) # None
    <3>1. job' = [job EXCEPT ![a].pc = "detect", ![a].game = "off"]
      BY <2>1, <2>3 DEF StoreTypeOK
    <3>2. "detect" \in Places /\ "off" \in GameModes
      BY DEF Places, GameModes
    <3>3. /\ job' \in [Actors -> JobRec] /\ \A b \in Actors \ {a} : job'[b] = job[b]
          /\ job'[a].pc = "detect" /\ job'[a].ver = job[a].ver /\ job'[a].update = job[a].update
      BY <3>1, <3>2 DEF StoreTypeOK, JobRec
    <3>4. ListOf(a)' /\ UpdateOf(a)' /\ TestOf(a)'
      BY <2>1, <2>3, <3>3 DEF ListOf, UpdateOf, TestOf, Updating, Ver
    <3> QED BY <2>1, <3>3, <3>4, JobOnly DEF StoreTypeOK
  <2> QED BY <2>2, <2>3
<1>4. CASE CaptureFilters(a)
  <2>1. /\ job[a].pc = "idle" /\ active \in Versions
        /\ job' = [job EXCEPT ![a] = [Idle EXCEPT !.pc = "testing", !.ver = active,
                                                  !.mode = ipset, !.game = game]]
        /\ UNCHANGED <<options, flag, disk, staging, net>>
    BY <1>4 DEF CaptureFilters, Doing, StoreTypeOK
  <2> DEFINE rec == [Idle EXCEPT !.pc = "testing", !.ver = active, !.mode = ipset, !.game = game]
  <2>2. rec \in JobRec /\ rec.pc = "testing" /\ rec.ver = active /\ ~ rec.update
    <3>1. Idle \in JobRec /\ ~ Idle.update /\ "testing" \in Places
      BY DEF Idle, JobRec, Places, IpsetModes, GameModes
    <3> QED BY <2>1, <3>1 DEF JobRec, StoreTypeOK
  <2> HIDE DEF rec
  <2>3. /\ job' \in [Actors -> JobRec] /\ \A b \in Actors \ {a} : job'[b] = job[b]
        /\ job'[a] = rec
    BY <2>1, <2>2 DEF StoreTypeOK, rec
  <2>4. ListOf(a)' /\ UpdateOf(a)' /\ TestOf(a)'
    BY <2>1, <2>2, <2>3 DEF ListOf, UpdateOf, TestOf, Updating, Ver
  <2>5. ~ Busy(a) /\ ~ Busy(a)'
    BY <2>1, <2>2, <2>3 DEF Busy
  <2> QED BY <2>1, <2>3, <2>4, <2>5, IdleActor
<1>5. CASE RestoreFilters(a)
  <2>1. /\ MayBegin(a) /\ job[a].pc = "testing" /\ flag' \in GameModes /\ Go(a, "game")
        /\ UNCHANGED <<options, disk, staging, net>> /\ Ver(a) \in Versions
    BY <1>5 DEF RestoreFilters, Doing, StoreTypeOK, JobRec
  <2>2. /\ job' \in [Actors -> JobRec] /\ \A b \in Actors \ {a} : job'[b] = job[b]
        /\ job'[a].pc = "game" /\ job'[a].ver = job[a].ver
    BY <2>1, GoFacts DEF Places
  <2>3. ListOf(a)' /\ UpdateOf(a)' /\ TestOf(a)'
    BY <2>1, <2>2 DEF ListOf, UpdateOf, TestOf, Updating, Ver
  <2> QED BY <2>1, <2>2, <2>3, JobOnly DEF options, StoreTypeOK
<1> QED BY <1>1, <1>2, <1>3, <1>4, <1>5

LEMMA ModeSteps ==
    ASSUME OneAtATime, StoreInv, NEW a \in Actors,
           DetectIpsetMode(a) \/ DropOldFile(a) \/ MoveList(a) \/ WriteList(a) \/ SaveIpsetMode(a)
    PROVE  StoreInv'
<1> DEFINE v == Ver(a)
           d == disk[v]
<1>1. /\ job[a].pc \in {"detect", "drop", "move", "write", "save"} /\ Busy(a) /\ v \in Versions
      /\ ListOf(a) /\ UpdateOf(a) /\ StoreTypeOK /\ ListKept
      /\ staging \in Versions \cup {None} /\ ipset \in IpsetModes /\ d \in DirRec
  BY DEF DetectIpsetMode, DropOldFile, MoveList, WriteList, SaveIpsetMode, Doing, Busy,
         StoreInv, StoreTypeOK, ListOf
<1>2. d.list \in {"absent", "empty", "dummy", "full"} /\ d.backup \in {"absent", "full"}
      /\ (d.lists => d.list = "full" \/ d.backup = "full")
  BY <1>1 DEF DirRec, ListKept
<1>3. Whole(v) = (d.txt = "full" /\ (d.lists \/ SkipLists)) /\ (active = v /\ ~ PicksUnfinished /\ ~ Whole(v) => remote > active)
  BY <1>1, StoreAssumption DEF Whole, StoreInv
<1>4. ASSUME NEW pc \in Places \ (Updating \cup {"retain", "sync", "keep", "idle", "testing", "release"}),
             Go(a, pc)
      PROVE  /\ job' \in [Actors -> JobRec] /\ \A b \in Actors \ {a} : job'[b] = job[b]
             /\ job'[a].pc = pc /\ job'[a].ver = job[a].ver /\ job'[a].mode = job[a].mode
             /\ UpdateOf(a)' /\ TestOf(a)'
  <2>1. /\ job' \in [Actors -> JobRec] /\ \A b \in Actors \ {a} : job'[b] = job[b]
        /\ job'[a].pc = pc /\ job'[a].ver = job[a].ver /\ job'[a].mode = job[a].mode
        /\ job'[a].update = job[a].update
    BY <1>1, <1>4, GoFacts
  <2> QED BY <1>1, <2>1 DEF UpdateOf, TestOf, Updating, Ver
<1>5. CASE DetectIpsetMode(a)
  <2>1. /\ job[a].pc = "detect" /\ UNCHANGED <<options, flag, disk, staging, net>>
        /\ \/ Go(a, "save")
           \/ Go(a, "drop") /\ (d.list = "full" <=> job[a].mode # "loaded")
           \/ Go(a, "write") /\ d.list = "dummy"
    BY <1>2, <1>5 DEF DetectIpsetMode, Detected, Doing
  <2>2. PICK pc \in {"save", "drop", "write"} :
            /\ Go(a, pc)
            /\ pc = "drop" => (d.list = "full" <=> job[a].mode # "loaded")
            /\ pc = "write" => d.list = "dummy"
    BY <2>1
  <2>3. /\ job' \in [Actors -> JobRec] /\ \A b \in Actors \ {a} : job'[b] = job[b]
        /\ job'[a].pc = pc /\ job'[a].ver = job[a].ver /\ job'[a].mode = job[a].mode
        /\ UpdateOf(a)' /\ TestOf(a)'
    BY <1>4, <2>2 DEF Places, Updating
  <2>4. ListOf(a)'
    BY <1>1, <1>2, <2>1, <2>2, <2>3 DEF ListOf, Ver
  <2> QED BY <1>1, <2>1, <2>3, <2>4, JobOnly DEF options, StoreTypeOK
<1>6. CASE DropOldFile(a)
  <2>1. /\ job[a].pc = "drop" /\ UNCHANGED <<active, game, flag, staging, net>>
        /\ (d.list = "full" <=> job[a].mode # "loaded")
    BY <1>1, <1>6 DEF DropOldFile, Doing, ListOf
  <2>2. CASE job[a].mode # "loaded" /\ Write(a, "backup", "absent") /\ Go(a, "move") /\ UNCHANGED ipset
    <3>1. /\ disk' \in [Versions -> DirRec] /\ \A w \in Versions \ {v} : disk'[w] = disk[w]
          /\ disk'[v].txt = d.txt /\ disk'[v].lists = d.lists /\ disk'[v].list = "full"
      BY <1>1, <2>1, <2>2, DropBackup
    <3>2. /\ job' \in [Actors -> JobRec] /\ \A b \in Actors \ {a} : job'[b] = job[b]
          /\ job'[a].pc = "move" /\ job'[a].ver = job[a].ver /\ job'[a].mode = job[a].mode
          /\ UpdateOf(a)' /\ TestOf(a)'
      BY <1>4, <2>2 DEF Places, Updating
    <3>3. ListOf(a)'
      BY <1>1, <2>1, <2>2, <3>1, <3>2 DEF ListOf, Ver
    <3> QED BY <1>1, <1>3, <2>1, <2>2, <3>1, <3>2, <3>3, OneDirectory DEF options, Whole
  <2>3. CASE /\ job[a].mode = "loaded" /\ d.backup # "absent" /\ Write(a, "list", "absent")
             /\ Go(a, "move") /\ UNCHANGED ipset
    <3>1. /\ disk' \in [Versions -> DirRec] /\ \A w \in Versions \ {v} : disk'[w] = disk[w]
          /\ disk'[v].txt = d.txt /\ disk'[v].lists = d.lists /\ disk'[v].list = "absent"
          /\ disk'[v].backup = "full"
      BY <1>1, <1>2, <2>3, WriteIpset
    <3>2. /\ job' \in [Actors -> JobRec] /\ \A b \in Actors \ {a} : job'[b] = job[b]
          /\ job'[a].pc = "move" /\ job'[a].ver = job[a].ver /\ job'[a].mode = job[a].mode
          /\ UpdateOf(a)' /\ TestOf(a)'
      BY <1>4, <2>3 DEF Places, Updating
    <3>3. ListOf(a)'
      BY <1>1, <2>1, <2>3, <3>1, <3>2 DEF ListOf, Ver
    <3> QED BY <1>1, <1>3, <2>1, <2>3, <3>1, <3>2, <3>3, OneDirectory DEF options, Whole
  <2>4. CASE ipset' = (IF job[a].update THEN Detected(v) ELSE ipset) /\ End(a) /\ UNCHANGED disk
    <3>1. ipset' \in IpsetModes
      BY <1>1, <1>2, <2>4 DEF Detected, IpsetModes
    <3> QED BY <1>1, <2>1, <2>4, <3>1, EndFacts, JobOnly DEF StoreTypeOK
  <2> QED BY <1>6, <2>2, <2>3, <2>4 DEF DropOldFile
<1>7. CASE MoveList(a)
  <2>1. /\ job[a].pc = "move" /\ UNCHANGED <<options, flag, staging, net>>
        /\ (d.list = "full" <=> job[a].mode # "loaded")
        /\ (job[a].mode = "loaded" => d.backup = "full")
    BY <1>1, <1>7 DEF MoveList, Doing, ListOf
  <2>2. CASE job[a].mode = "loaded"
    <3>1. /\ disk' = [disk EXCEPT ![v].list = "full", ![v].backup = "absent"] /\ Go(a, "save")
      BY <1>7, <2>1, <2>2 DEF MoveList
    <3>2. /\ disk' \in [Versions -> DirRec] /\ \A w \in Versions \ {v} : disk'[w] = disk[w]
          /\ disk'[v].txt = d.txt /\ disk'[v].lists = d.lists /\ disk'[v].list = "full"
      BY <1>1, <3>1 DEF StoreTypeOK, DirRec
    <3>3. /\ job' \in [Actors -> JobRec] /\ \A b \in Actors \ {a} : job'[b] = job[b]
          /\ job'[a].pc = "save" /\ job'[a].ver = job[a].ver
          /\ UpdateOf(a)' /\ TestOf(a)'
      BY <1>4, <3>1 DEF Places, Updating
    <3>4. ListOf(a)'
      BY <1>1, <3>3 DEF ListOf, Ver
    <3> QED BY <1>1, <1>3, <2>1, <3>2, <3>3, <3>4, OneDirectory DEF options, Whole
  <2>3. CASE job[a].mode # "loaded"
    <3>1. /\ disk' = [disk EXCEPT ![v].list = "absent", ![v].backup = "full"] /\ Go(a, "write")
      BY <1>7, <2>1, <2>3 DEF MoveList
    <3>2. /\ disk' \in [Versions -> DirRec] /\ \A w \in Versions \ {v} : disk'[w] = disk[w]
          /\ disk'[v].txt = d.txt /\ disk'[v].lists = d.lists /\ disk'[v].backup = "full"
      BY <1>1, <3>1 DEF StoreTypeOK, DirRec
    <3>3. /\ job' \in [Actors -> JobRec] /\ \A b \in Actors \ {a} : job'[b] = job[b]
          /\ job'[a].pc = "write" /\ job'[a].ver = job[a].ver
          /\ UpdateOf(a)' /\ TestOf(a)'
      BY <1>4, <3>1 DEF Places, Updating
    <3>4. ListOf(a)'
      BY <1>1, <3>2, <3>3 DEF ListOf, Ver
    <3> QED BY <1>1, <1>3, <2>1, <3>2, <3>3, <3>4, OneDirectory DEF options, Whole
  <2> QED BY <2>2, <2>3
<1>8. CASE WriteList(a)
  <2>1. /\ UNCHANGED <<options, flag, staging, net>> /\ Go(a, "save") /\ (d.lists => d.backup = "full")
        /\ \E l \in {"dummy", "empty"} : Write(a, "list", l)
    BY <1>1, <1>8 DEF WriteList, Doing, ListOf
  <2>2. /\ disk' \in [Versions -> DirRec] /\ \A w \in Versions \ {v} : disk'[w] = disk[w]
        /\ disk'[v].txt = d.txt /\ disk'[v].lists = d.lists /\ disk'[v].backup = d.backup
    BY <1>1, <2>1, WriteIpset
  <2>3. /\ job' \in [Actors -> JobRec] /\ \A b \in Actors \ {a} : job'[b] = job[b]
        /\ job'[a].pc = "save" /\ job'[a].ver = job[a].ver
        /\ UpdateOf(a)' /\ TestOf(a)'
    BY <1>4, <2>1 DEF Places, Updating
  <2>4. ListOf(a)'
    BY <1>1, <2>3 DEF ListOf, Ver
  <2> QED BY <1>1, <1>3, <2>1, <2>2, <2>3, <2>4, OneDirectory DEF options, Whole
<1>9. CASE SaveIpsetMode(a)
  <2>1. End(a) /\ ipset' \in IpsetModes /\ UNCHANGED <<active, game, flag, disk, staging, net>>
    BY <1>1, <1>9 DEF SaveIpsetMode, StoreTypeOK, JobRec
  <2> QED BY <1>1, <2>1, EndFacts, JobOnly DEF StoreTypeOK
<1> QED BY <1>5, <1>6, <1>7, <1>8, <1>9

-----------------------------------------------------------------------------
LEMMA PublishStep ==
    ASSUME StoreInv, Publish
    PROVE  StoreInv'
<1>1. /\ UNCHANGED <<options, flag, disk, staging, job>> /\ remote' \in Versions /\ latest' \in Versions
      /\ remote' >= remote /\ remote \in Nat /\ active \in Versions \cup {None}
  BY StoreAssumption DEF Publish, StoreInv, StoreTypeOK, options
<1>2. \A v : Whole(v)' = Whole(v)
  BY <1>1 DEF Whole
<1>3. active # None /\ remote > active => remote' > active
  BY <1>1, StoreAssumption
<1>4. StoreTypeOK' /\ OnlyOne' /\ ListKept'
  BY <1>1 DEF StoreInv, StoreTypeOK, OnlyOne, Busy, ListKept, options
<1>5. ASSUME NEW a \in Actors PROVE ListOf(a)' /\ UpdateOf(a)' /\ TestOf(a)'
  BY <1>1, <1>2, <1>3 DEF StoreInv, ListOf, UpdateOf, TestOf, Ver, options
<1> QED BY <1>1, <1>2, <1>3, <1>4, <1>5 DEF StoreInv, TestOf, options

LEMMA StoreNextStep ==
    ASSUME OneAtATime, StoreInv, [StoreNext]_svars
    PROVE  StoreInv'
<1>1. CASE UNCHANGED svars
  <2>1. UNCHANGED <<options, flag, disk, staging, net, job>>
    BY <1>1 DEF svars
  <2> QED BY <2>1 DEF StoreInv, StoreTypeOK, OnlyOne, Busy, ListKept, ListOf, UpdateOf, Ver, Whole, options, net
<1>2. ASSUME NEW a \in Actors, StoreStep(a) PROVE StoreInv'
  BY <1>2, UpdateBegins, UpdateWrites, UpdateEnds, Retention, FilterBegins, ModeSteps
     DEF StoreStep, Update, Filter
<1> QED BY <1>1, <1>2, PublishStep DEF StoreNext

(* For any versions and actors that take turns at the files: a selected    *)
(* version that is not whole is put right by the next update, wherever     *)
(* installations, retentions and choices broke off.                        *)
THEOREM UpdatesRepair == OneAtATime /\ ~ PicksUnfinished => (StoreSpec => []Repairable)
<1> SUFFICES ASSUME OneAtATime, ~ PicksUnfinished PROVE StoreSpec => []Repairable
  OBVIOUS
<1>1. StoreInv /\ [StoreNext]_svars => StoreInv'
  BY StoreNextStep
<1>2. StoreInv => Repairable
  BY DEF StoreInv, StoreTypeOK, Repairable, NeedsUpdate, Newer
<1> QED BY <1>1, <1>2, StoreStart, PTL DEF StoreSpec

(* And the content of ipset-all.txt of a version that has its lists is     *)
(* there, whatever modes are chosen and wherever a change breaks off.      *)
THEOREM IpsetKept == OneAtATime => (StoreSpec => []ListKept)
<1> SUFFICES ASSUME OneAtATime PROVE StoreSpec => []ListKept
  OBVIOUS
<1>1. StoreInv /\ [StoreNext]_svars => StoreInv'
  BY StoreNextStep
<1>2. StoreInv => ListKept
  BY DEF StoreInv
<1> QED BY <1>1, <1>2, StoreStart, PTL DEF StoreSpec
-----------------------------------------------------------------------------
(* The DNS servers.                                                        *)

(* Adapters that may be listed, and servers of which none is retired.      *)
Listed == {a \in Adapters : ~Info[a].excluded}
Servers == {s \in Seq(STRING) : \A i \in DOMAIN s : s[i] \notin Retired}
(* The user types no retired server. *)
TypedCurrent == \A i \in DOMAIN Custom : Custom[i] \notin Retired

DnsWriteRec == [adapter : Listed, family : Families, servers : Servers]
Cleanups == [todo : {"no", "run", "write"}, left : Seq(Listed \X Families), read : Seq(STRING),
             clean : SUBSET (Listed \X Families)]
(* What was applied, and the adapters of a job, are not looked into.       *)
PageTyped(p) ==
    /\ p = [adapter |-> p.adapter, choice |-> p.choice, applied |-> p.applied]
    /\ p.adapter \in Adapters \cup {All} /\ p.choice \in Selections
JobTyped(j) ==
    /\ j = [kind |-> j.kind, of |-> j.of, targets |-> j.targets, writes |-> j.writes, failed |-> j.failed]
    /\ j.writes \in Seq(DnsWriteRec)

DnsInv ==
    /\ ns \in [Adapters -> [Families -> Seq(STRING)]]
    /\ PageTyped(page) /\ JobTyped(dnsJob) /\ cleanup \in Cleanups
    /\ dnsJob.kind = "none" => dnsJob.writes = <<>>
    /\ cleanup.todo = "write" => cleanup.left # <<>>
    /\ \A slot \in cleanup.clean : ns[slot[1]][slot[2]] \in Servers
    /\ \A a \in Adapters : Info[a].excluded => ns[a] = Found[a]

(* What is written holds only servers that were asked for.                 *)
LEMMA NormalizedFacts ==
    ASSUME NEW s \in Seq(STRING)
    PROVE  Normalized(s) \in Seq(STRING) /\ (s \in Servers => Normalized(s) \in Servers)
<1> DEFINE I == {i \in DOMAIN s : \A k \in 1 .. i - 1 : s[k] # s[i]}
<1>1. I \in SUBSET DOMAIN s
  OBVIOUS
<1> HIDE DEF I
<1>2. /\ Picked(s, I) \in Seq(STRING)
      /\ \A i \in DOMAIN Picked(s, I) : \E k \in I : Picked(s, I)[i] = s[k]
  BY <1>1, PickedFacts, PickedElements
<1>3. Normalized(s) = Picked(s, I)
  BY DEF Normalized, I
<1> QED BY <1>1, <1>2, <1>3 DEF Servers

LEMMA KeptServers ==
    ASSUME NEW s \in Seq(STRING)
    PROVE  Kept(s) \in Servers /\ (Len(Kept(s)) = Len(s) => s \in Servers)
<1> DEFINE I == {i \in DOMAIN s : s[i] \notin Retired}
<1>1. I \in SUBSET DOMAIN s /\ \A i \in I : s[i] \notin Retired
  OBVIOUS
<1>s. I = DOMAIN s => s \in Servers
  BY DEF Servers
<1> HIDE DEF I
<1>2. /\ Picked(s, I) \in Seq(STRING)
      /\ Len(Picked(s, I)) = Len(s) <=> I = DOMAIN s
  BY <1>1, PickedFacts
<1>3. \A i \in DOMAIN Picked(s, I) : \E k \in I : Picked(s, I)[i] = s[k]
  BY <1>1, PickedElements
<1>4. Kept(s) = Picked(s, I)
  BY DEF Kept, I
<1> QED BY <1>1, <1>s, <1>2, <1>3, <1>4 DEF Servers

LEMMA FirstFacts ==
    ASSUME NEW S, NEW s \in Seq(S), NEW n \in Nat
    PROVE  First(n, s) \in Seq(S) /\ \A i \in DOMAIN First(n, s) : i \in DOMAIN s /\ First(n, s)[i] = s[i]
<1> DEFINE m == IF Len(s) < n THEN Len(s) ELSE n
<1>1. m \in 0 .. Len(s) /\ Len(s) \in Nat
  OBVIOUS
<1> HIDE DEF m
<1>2. SubSeq(s, 1, m) \in Seq(S) /\ Len(SubSeq(s, 1, m)) = m /\ \A i \in 1 .. m : SubSeq(s, 1, m)[i] = s[i]
  BY <1>1
<1>3. First(n, s) = SubSeq(s, 1, m)
  BY DEF First, m
<1> QED BY <1>1, <1>2, <1>3

LEMMA FirstTwoFacts == \A s \in Seq(STRING) : FirstTwo(s) \in Seq(STRING) /\ (s \in Servers => FirstTwo(s) \in Servers)
<1> SUFFICES ASSUME NEW s \in Seq(STRING)
    PROVE FirstTwo(s) \in Seq(STRING) /\ (s \in Servers => FirstTwo(s) \in Servers)
  OBVIOUS
<1>1. /\ First(2, s) \in Seq(STRING)
      /\ \A i \in DOMAIN First(2, s) : i \in DOMAIN s /\ First(2, s)[i] = s[i]
  BY FirstFacts
<1> QED BY <1>1 DEF FirstTwo, Servers

(* Whatever the listing falls back on, no excluded adapter is in it.       *)
LEMMA ListingFacts == \A source \in Sources : Listing(source) \subseteq Listed
<1>1. Listing("wmi") \subseteq Listed
  BY DEF Listing, RegistryConnections, SupportedAdapter, Listed
<1>2. CASE RegistryConnections = {}
  <2>1. Listing("native") = NativeAdapters
    BY <1>2 DEF Listing
  <2> QED BY <1>1, <2>1 DEF Sources, NativeAdapters, Listed
<1>3. CASE RegistryConnections # {}
  <2>1. Listing("native") = {a \in RegistryConnections : RegistryAdapter(a)}
    BY <1>3 DEF Listing
  <2> QED BY <1>1, <2>1 DEF Sources, RegistryConnections, RegistryAdapter, Listed
<1> QED BY <1>2, <1>3

LEMMA OrderedFacts ==
    ASSUME NEW nics \in SUBSET Listed
    PROVE  Ordered(nics) \in Seq(Listed)
<1> DEFINE I == {i \in DOMAIN AdapterOrder : AdapterOrder[i] \in nics}
<1>1. I \in SUBSET DOMAIN AdapterOrder /\ AdapterOrder \in Seq(Adapters)
      /\ \A i \in I : AdapterOrder[i] \in nics
  BY DnsAssumption
<1> HIDE DEF I
<1>2. Picked(AdapterOrder, I) \in Seq(Adapters)
  BY <1>1, PickedFacts
<1>3. \A i \in DOMAIN Picked(AdapterOrder, I) : \E k \in I : Picked(AdapterOrder, I)[i] = AdapterOrder[k]
  BY <1>1, PickedElements
<1>4. Ordered(nics) = Picked(AdapterOrder, I)
  BY DEF Ordered, I
<1>5. \A i \in DOMAIN Ordered(nics) : Ordered(nics)[i] \in Listed
  BY <1>1, <1>3, <1>4
<1> QED BY <1>2, <1>4, <1>5

LEMMA TargetsFacts ==
    ASSUME NEW selected, NEW nics \in SUBSET Listed
    PROVE  Targets(selected, nics) \in Seq(Listed)
<1>1. Ordered(nics) \in Seq(Listed)
  BY OrderedFacts
<1>2. First(1, Ordered(nics)) \in Seq(Listed)
  BY <1>1, FirstFacts
<1>3. CASE selected = All
  <2>1. selected \notin nics
    BY <1>3, DnsAssumption DEF All, Listed
  <2>2. Targets(selected, nics) = Ordered(nics)
    BY <1>3, <2>1 DEF Targets
  <2> QED BY <1>1, <2>2
<1>4. CASE selected # All /\ selected \in nics
  <2>1. Targets(selected, nics) = <<selected>>
    BY <1>4 DEF Targets
  <2>2. <<selected>> \in Seq(Listed)
    BY <1>4
  <2> QED BY <2>1, <2>2
<1>5. CASE selected # All /\ selected \notin nics
  <2>1. Targets(selected, nics) = First(1, Ordered(nics))
    BY <1>5 DEF Targets
  <2> QED BY <2>1, <1>2
<1> QED BY <1>3, <1>4, <1>5

(* Where the slots of one and of two families lie.                         *)
LEMMA SlotPlace ==
    ASSUME NEW m \in Nat, NEW n \in 0 .. 2, NEW i \in 1 .. m * n
    PROVE  ((i - 1) \div n) + 1 \in 1 .. m /\ ((i - 1) % n) + 1 \in 1 .. n
<1>1. \A j \in 1 .. m * 2 : ((j - 1) \div 2) + 1 \in 1 .. m /\ ((j - 1) % 2) + 1 \in 1 .. 2
  OBVIOUS
<1>2. \A j \in 1 .. m * 1 : ((j - 1) \div 1) + 1 \in 1 .. m /\ ((j - 1) % 1) + 1 \in 1 .. 1
  OBVIOUS
<1>3. n # 0
  OBVIOUS
<1> QED BY <1>1, <1>2, <1>3

LEMMA SlotsFacts ==
    ASSUME NEW nics \in Seq(Listed), NEW fs \in Seq(Families), Len(fs) \in 0 .. 2
    PROVE  Slots(nics, fs) \in Seq(Listed \X Families)
<1> DEFINE n == Len(fs)
           m == Len(nics)
           slot(i) == <<nics[((i - 1) \div n) + 1], fs[((i - 1) % n) + 1]>>
<1>1. m \in Nat /\ n \in 0 .. 2
  OBVIOUS
<1>n. m * n \in Nat
  BY <1>1
<1>2. ASSUME NEW i \in 1 .. m * n PROVE slot(i) \in Listed \X Families
  <2>1. ((i - 1) \div n) + 1 \in 1 .. m /\ ((i - 1) % n) + 1 \in 1 .. n
    <3> HIDE DEF m, n
    <3> QED BY <1>1, SlotPlace
  <2> QED BY <2>1
<1>3. Slots(nics, fs) = [i \in 1 .. m * n |-> slot(i)]
  BY DEF Slots
<1> HIDE DEF slot, n, m
<1> QED BY <1>n, <1>2, <1>3

LEMMA WritesAre ==
    ASSUME NEW slots \in Seq(Listed \X Families), NEW servers \in [Families -> Servers]
    PROVE  DnsWrites(slots, servers) \in Seq(DnsWriteRec)
<1> DEFINE w(i) == [adapter |-> slots[i][1], family |-> slots[i][2], servers |-> servers[slots[i][2]]]
<1>1. \A i \in DOMAIN slots : w(i) \in DnsWriteRec
  BY DEF DnsWriteRec
<1>2. DnsWrites(slots, servers) = [i \in 1 .. Len(slots) |-> w(i)] /\ Len(slots) \in Nat
      /\ DOMAIN slots = 1 .. Len(slots)
  BY DEF DnsWrites
<1> HIDE DEF w
<1> QED BY <1>1, <1>2

LEMMA BothAre == BothFamilies \in Seq(Families) /\ Len(BothFamilies) = 2
BY DEF BothFamilies, Families

LEMMA AutoWritesAre == \A nics \in Seq(Listed) : AutoWrites(nics) \in Seq(DnsWriteRec)
<1> SUFFICES ASSUME NEW nics \in Seq(Listed) PROVE AutoWrites(nics) \in Seq(DnsWriteRec)
  OBVIOUS
<1>1. Slots(nics, BothFamilies) \in Seq(Listed \X Families)
  BY BothAre, SlotsFacts
<1>2. [f \in Families |-> <<>>] \in [Families -> Servers]
  BY DEF Servers
<1> QED BY <1>1, <1>2, WritesAre DEF AutoWrites

(* Whatever is chosen, none of the servers to write is retired.            *)
LEMMA ChosenWrites ==
    ASSUME TypedCurrent, NEW chosen \in Selections, NEW nics \in Seq(Listed)
    PROVE  Writes(chosen, nics) \in Seq(DnsWriteRec)
<1>1. CASE chosen = Automatic
  <2>1. Writes(chosen, nics) = AutoWrites(nics)
    BY <1>1 DEF Writes, Automatic, Typed
  <2> QED BY <2>1, AutoWritesAre
<1>2. CASE chosen = Typed
  <2>1. Writes(chosen, nics) = CustomWrites(nics)
    BY <1>2 DEF Writes, Automatic, Typed
  <2>2. Custom \in Seq(STRING) /\ Custom \in Servers
    BY DnsAssumption DEF TypedCurrent, Servers
  <2>3. [f \in Families |-> FirstTwo(Custom)] \in [Families -> Servers]
    BY <2>2, FirstTwoFacts
  <2>4. <<"IPv4">> \in Seq(Families) /\ Len(<<"IPv4">>) \in 0 .. 2
    BY DEF Families
  <2>5. Slots(nics, <<"IPv4">>) \in Seq(Listed \X Families)
    BY <2>4, SlotsFacts
  <2> QED BY <2>1, <2>3, <2>5, WritesAre DEF CustomWrites
<1>3. CASE chosen \notin {Automatic, Typed}
  <2> DEFINE set == {i \in DOMAIN BothFamilies :
                  LET f == BothFamilies[i] IN Providers[chosen][f] # <<>> /\ (f = "IPv6" => Ipv6)}
  <2>1. chosen \in DOMAIN Providers /\ Writes(chosen, nics) = ProviderWrites(nics, chosen)
    BY <1>3 DEF Writes, Selections
  <2>2. ProviderWrites(nics, chosen) =
          DnsWrites(Slots(nics, Picked(BothFamilies, set)), [f \in Families |-> FirstTwo(Providers[chosen][f])])
    BY DEF ProviderWrites
  <2>3. set \in SUBSET DOMAIN BothFamilies
    OBVIOUS
  <2> HIDE DEF set
  <2>4. Picked(BothFamilies, set) \in Seq(Families) /\ Len(Picked(BothFamilies, set)) <= 2
    BY <2>3, BothAre, PickedFacts
  <2>5. Len(Picked(BothFamilies, set)) \in 0 .. 2
    <3>1. \A q \in Seq(Families) : Len(q) \in Nat
      OBVIOUS
    <3>2. Len(Picked(BothFamilies, set)) \in Nat
      BY <2>4, <3>1
    <3>3. \A x \in Nat : x <= 2 => x \in 0 .. 2
      OBVIOUS
    <3>4. Len(Picked(BothFamilies, set)) <= 2
      BY <2>4
    <3> QED BY <3>2, <3>3, <3>4
  <2>6. Slots(nics, Picked(BothFamilies, set)) \in Seq(Listed \X Families)
    BY <2>4, <2>5, SlotsFacts
  <2>7. ASSUME NEW f \in Families PROVE FirstTwo(Providers[chosen][f]) \in Servers
    <3>1. Providers[chosen][f] \in Seq(STRING) /\ Providers[chosen][f] \in Servers
      BY <2>1, DnsAssumption DEF Families, Servers
    <3> QED BY <3>1, FirstTwoFacts
  <2>8. [f \in Families |-> FirstTwo(Providers[chosen][f])] \in [Families -> Servers]
    BY <2>7
  <2> QED BY <2>1, <2>2, <2>6, <2>8, WritesAre
<1> QED BY <1>1, <1>2, <1>3

LEMMA DnsStart == DnsInit => DnsInv
<1> SUFFICES ASSUME DnsInit PROVE DnsInv
  OBVIOUS
<1>1. JobTyped(dnsJob) /\ dnsJob.writes = <<>>
  BY DEF DnsInit, NoJob, JobTyped
<1>2. cleanup \in Cleanups /\ cleanup.todo = "no" /\ cleanup.clean = {}
  BY DEF DnsInit, Cleanups
<1>3. PageTyped(page)
  BY DEF DnsInit, Selections, PageTyped
<1>4. ns \in [Adapters -> [Families -> Seq(STRING)]] /\ ns = Found
  BY DnsAssumption DEF DnsInit, Families
<1> QED BY <1>1, <1>2, <1>3, <1>4 DEF DnsInv

(* A write of good servers to a listed adapter.                            *)
LEMMA WriteFacts ==
    ASSUME DnsInv, NEW a \in Listed, NEW f \in Families, NEW s \in Servers, NEW ok \in BOOLEAN,
           IF ok THEN SetServers(a, f, s) ELSE ns' = ns
    PROVE  /\ ns' \in [Adapters -> [Families -> Seq(STRING)]]
           /\ \A slot \in Listed \X Families :
                 ns[slot[1]][slot[2]] \in Servers => ns'[slot[1]][slot[2]] \in Servers
           /\ ok => ns'[a][f] \in Servers
           /\ \A b \in Adapters : Info[b].excluded => ns'[b] = ns[b]
<1> DEFINE n == Normalized(s)
<1>1. n \in Servers /\ n \in Seq(STRING)
  BY NormalizedFacts DEF Servers
<1>2. ok => ns' = [ns EXCEPT ![a][f] = n]
  BY DEF SetServers
<1> HIDE DEF n
<1>3. ns \in [Adapters -> [Families -> Seq(STRING)]] /\ a \in Adapters /\ ~Info[a].excluded
  BY DEF DnsInv, Listed
<1>4. CASE ~ok
  BY <1>3, <1>4
<1>5. CASE ok
  <2>1. ns' = [ns EXCEPT ![a][f] = n]
    BY <1>2, <1>5
  <2>2. \A b \in Adapters, g \in Families : ns'[b][g] = IF b = a /\ g = f THEN n ELSE ns[b][g]
    BY <1>3, <2>1
  <2>3. ns' \in [Adapters -> [Families -> Seq(STRING)]]
    BY <1>1, <1>3, <2>1
  <2>4. \A b \in Adapters : Info[b].excluded => ns'[b] = ns[b]
    BY <1>3, <2>1
  <2> QED BY <1>1, <1>3, <2>2, <2>3, <2>4 DEF Listed
<1> QED BY <1>4, <1>5

LEMMA DnsStep ==
    ASSUME TypedCurrent, DnsInv, [DnsNext]_dnsVars
    PROVE  DnsInv'
<1>0. /\ ns \in [Adapters -> [Families -> Seq(STRING)]]
      /\ PageTyped(page) /\ JobTyped(dnsJob) /\ cleanup \in Cleanups
  BY DEF DnsInv
<1>c. /\ cleanup.left \in Seq(Listed \X Families) /\ cleanup.read \in Seq(STRING)
      /\ cleanup.clean \subseteq Listed \X Families
  BY <1>0 DEF Cleanups
<1>1. CASE UNCHANGED dnsVars
  BY <1>1 DEF dnsVars, DnsInv
<1>2. ASSUME NEW a \in Adapters \cup {All}, OnAdapterChange(a) PROVE DnsInv'
  <2>1. page' = [page EXCEPT !.adapter = a, !.applied = NothingApplied] /\ UNCHANGED <<ns, dnsJob, cleanup>>
    BY <1>2 DEF OnAdapterChange
  <2>2. PageTyped(page)'
    BY <1>0, <2>1 DEF PageTyped
  <2> QED BY <2>1, <2>2 DEF DnsInv
<1>3. ASSUME NEW c \in Selections, OnDnsChoiceChange(c) PROVE DnsInv'
  <2>1. page' = [page EXCEPT !.choice = c] /\ UNCHANGED <<ns, dnsJob, cleanup>>
    BY <1>3 DEF OnDnsChoiceChange
  <2>2. PageTyped(page)'
    BY <1>0, <2>1 DEF PageTyped
  <2> QED BY <2>1, <2>2 DEF DnsInv
<1>4. ASSUME NEW source \in Sources, ApplyDns(source) \/ ResetDns(source) PROVE DnsInv'
  <2> DEFINE nics == Targets(page.adapter, Listing(source))
             all == {Writes(page.choice, nics), AutoWrites(nics)}
  <2>1. nics \in Seq(Listed)
    BY ListingFacts, TargetsFacts
  <2>2. /\ \E k \in {"apply", "reset"}, of \in {Snapshot, <<page.adapter, Automatic>>}, w \in all :
              dnsJob' = [kind |-> k, of |-> of, targets |-> nics, writes |-> w, failed |-> {}]
        /\ UNCHANGED <<ns, page, cleanup>>
    BY <1>4 DEF ApplyDns, ResetDns
  <2>3. \A w \in all : w \in Seq(DnsWriteRec)
    <3> HIDE DEF nics
    <3>1. page.choice \in Selections
      BY <1>0 DEF PageTyped
    <3> QED BY <2>1, <3>1, ChosenWrites, AutoWritesAre
  <2> HIDE DEF nics, all
  <2>4. JobTyped(dnsJob)' /\ dnsJob'.kind # "none"
    BY <2>2, <2>3 DEF JobTyped
  <2> QED BY <2>2, <2>4 DEF DnsInv
<1>5. ASSUME NEW source \in Sources, BeginCleanup(source) PROVE DnsInv'
  <2>1. Ordered(Listing(source)) \in Seq(Listed)
    BY ListingFacts, OrderedFacts
  <2> DEFINE slots == Slots(Ordered(Listing(source)), BothFamilies)
  <2>2. slots \in Seq(Listed \X Families)
    BY <2>1, BothAre, SlotsFacts
  <2>3. cleanup' = [cleanup EXCEPT !.todo = "run", !.left = slots] /\ UNCHANGED <<ns, page, dnsJob>>
    BY <1>5 DEF BeginCleanup
  <2> HIDE DEF slots
  <2>4. cleanup' \in Cleanups /\ cleanup'.todo = "run" /\ cleanup'.clean = cleanup.clean
    BY <1>0, <2>2, <2>3 DEF Cleanups
  <2> QED BY <2>3, <2>4 DEF DnsInv
<1>6. ASSUME NEW ok \in BOOLEAN, WriteServers(ok) PROVE DnsInv'
  <2> DEFINE w == Head(dnsJob.writes)
             failed == IF ok THEN dnsJob.failed ELSE dnsJob.failed \cup {w.adapter}
  <2>1. /\ dnsJob.writes # <<>> /\ UNCHANGED <<page, cleanup>>
        /\ dnsJob' = [dnsJob EXCEPT !.writes = Tail(@), !.failed = failed]
        /\ IF ok THEN SetServers(w.adapter, w.family, w.servers) ELSE ns' = ns
    BY <1>6 DEF WriteServers
  <2>w. w \in DnsWriteRec /\ Tail(dnsJob.writes) \in Seq(DnsWriteRec)
    BY <1>0, <2>1 DEF JobTyped
  <2> HIDE DEF w, failed
  <2>2. JobTyped(dnsJob)' /\ dnsJob'.kind = dnsJob.kind /\ dnsJob.kind # "none"
    BY <1>0, <2>1, <2>w DEF JobTyped, DnsInv
  <2>3. w.adapter \in Listed /\ w.family \in Families /\ w.servers \in Servers
    BY <2>w DEF DnsWriteRec
  <2>4. /\ ns' \in [Adapters -> [Families -> Seq(STRING)]]
        /\ \A slot \in Listed \X Families :
              ns[slot[1]][slot[2]] \in Servers => ns'[slot[1]][slot[2]] \in Servers
        /\ \A b \in Adapters : Info[b].excluded => ns'[b] = ns[b]
    BY <2>1, <2>3, WriteFacts
  <2> QED BY <1>c, <2>1, <2>2, <2>4 DEF DnsInv
<1>7. ASSUME NEW ok \in BOOLEAN, WriteKept(ok) PROVE DnsInv'
  <2> DEFINE slot == Head(cleanup.left)
             s == FirstTwo(Kept(cleanup.read))
             clean == IF ok THEN cleanup.clean \cup {slot} ELSE cleanup.clean
  <2>1. /\ cleanup.todo = "write" /\ UNCHANGED <<page, dnsJob>>
        /\ IF ok THEN SetServers(slot[1], slot[2], s) ELSE ns' = ns
        /\ cleanup' = [cleanup EXCEPT !.todo = "run", !.left = Tail(@), !.read = <<>>, !.clean = clean]
    BY <1>7 DEF WriteKept
  <2>2. cleanup.left # <<>> /\ slot \in Listed \X Families /\ Tail(cleanup.left) \in Seq(Listed \X Families)
    BY <1>c, <2>1 DEF DnsInv
  <2>3. s \in Servers
    <3>1. Kept(cleanup.read) \in Servers
      BY <1>c, KeptServers
    <3> QED BY <3>1, FirstTwoFacts DEF Servers
  <2>4. clean \subseteq Listed \X Families /\ \A t \in clean : t \in cleanup.clean \/ (ok /\ t = slot)
    <3> HIDE DEF slot
    <3> QED BY <1>c, <2>2
  <2> HIDE DEF slot, s, clean
  <2>5. slot[1] \in Listed /\ slot[2] \in Families
    BY <2>2
  <2>6. /\ ns' \in [Adapters -> [Families -> Seq(STRING)]]
        /\ \A t \in Listed \X Families :
              ns[t[1]][t[2]] \in Servers => ns'[t[1]][t[2]] \in Servers
        /\ ok => ns'[slot[1]][slot[2]] \in Servers
        /\ \A b \in Adapters : Info[b].excluded => ns'[b] = ns[b]
    BY <2>1, <2>3, <2>5, WriteFacts
  <2>7. cleanup' \in Cleanups /\ cleanup'.todo = "run" /\ cleanup'.clean = clean
    <3>1. <<>> \in Seq(STRING)
      OBVIOUS
    <3> QED BY <1>0, <2>1, <2>2, <2>4, <3>1 DEF Cleanups
  <2>8. \A t \in cleanup'.clean : ns'[t[1]][t[2]] \in Servers
    BY <1>c, <2>4, <2>6, <2>7 DEF DnsInv
  <2> QED BY <2>1, <2>6, <2>7, <2>8 DEF DnsInv
<1>8. CASE JobDone
  <2>1. /\ dnsJob' = NoJob /\ UNCHANGED <<ns, cleanup>>
        /\ \/ page' = page
           \/ page' = [page EXCEPT !.choice = ShownChoice, !.applied = <<page.adapter, ShownChoice>>]
    BY <1>8 DEF JobDone
  <2>2. ShownChoice \in Selections
    BY <1>0 DEF ShownChoice, Selections, PageTyped
  <2>3. PageTyped(page)'
    BY <1>0, <2>1, <2>2 DEF PageTyped
  <2>4. JobTyped(dnsJob)' /\ dnsJob'.writes = <<>>
    <3>1. <<>> \in Seq(DnsWriteRec)
      OBVIOUS
    <3> QED BY <2>1, <3>1 DEF JobTyped, NoJob
  <2> QED BY <2>1, <2>3, <2>4 DEF DnsInv
<1>9. CASE ReadServers
  <2> DEFINE slot == Head(cleanup.left)
             current == ns[slot[1]][slot[2]]
  <2>1. /\ cleanup.todo = "run" /\ cleanup.left # <<>> /\ UNCHANGED <<ns, page, dnsJob>>
        /\ cleanup' = IF Len(Kept(current)) = Len(current)
                      THEN [cleanup EXCEPT !.left = Tail(@), !.clean = cleanup.clean \cup {slot}]
                      ELSE [cleanup EXCEPT !.todo = "write", !.read = current]
    BY <1>9 DEF ReadServers
  <2>2. slot \in Listed \X Families /\ Tail(cleanup.left) \in Seq(Listed \X Families)
    BY <1>c, <2>1
  <2>3. current \in Seq(STRING)
    <3> HIDE DEF slot
    <3>1. slot[1] \in Adapters /\ slot[2] \in Families
      BY <2>2 DEF Listed
    <3> QED BY <1>0, <3>1
  <2>4. Len(Kept(current)) = Len(current) => current \in Servers
    <3> HIDE DEF current
    <3> QED BY <2>3, KeptServers
  <2>5. CASE Len(Kept(current)) = Len(current)
    <3>1. cleanup' = [cleanup EXCEPT !.left = Tail(@), !.clean = cleanup.clean \cup {slot}]
      BY <2>1, <2>5
    <3>2. \A t \in cleanup.clean \cup {slot} : ns[t[1]][t[2]] \in Servers
      BY <2>4, <2>5 DEF DnsInv
    <3> HIDE DEF slot
    <3>4. cleanup.clean \cup {slot} \subseteq Listed \X Families
      BY <1>c, <2>2
    <3>5. cleanup.todo = "run"
      BY <2>1
    <3>3. cleanup' \in Cleanups /\ cleanup'.todo = "run" /\ cleanup'.clean = cleanup.clean \cup {slot}
      BY <1>0, <2>2, <3>1, <3>4, <3>5 DEF Cleanups
    <3> QED BY <2>1, <3>2, <3>3 DEF DnsInv
  <2>6. CASE Len(Kept(current)) # Len(current)
    <3>1. cleanup' = [cleanup EXCEPT !.todo = "write", !.read = current]
      BY <2>1, <2>6
    <3> HIDE DEF current
    <3>2. cleanup' \in Cleanups /\ cleanup'.left = cleanup.left /\ cleanup'.clean = cleanup.clean
      BY <1>0, <2>3, <3>1 DEF Cleanups
    <3> QED BY <2>1, <3>2 DEF DnsInv
  <2> QED BY <2>5, <2>6
<1> QED BY <1>1, <1>2, <1>3, <1>4, <1>5, <1>6, <1>7, <1>8, <1>9 DEF DnsNext

(* Every adapter and list keeps its type, and what the cleanup has looked  *)
(* at holds no retired server.                                             *)
THEOREM DnsInvariant == ASSUME TypedCurrent PROVE DnsSpec => []DnsInv
<1>1. TypedCurrent /\ DnsInv /\ [DnsNext]_dnsVars => DnsInv'
  BY DnsStep
<1>2. DnsInv /\ [DnsNext]_dnsVars => DnsInv'
  BY <1>1
<1> QED BY <1>2, DnsStart, PTL DEF DnsSpec

(* RetiredGone: once the cleanup has passed over a list no retired server  *)
(* is in it again, and excluded adapters keep what they had.               *)
THEOREM RetiredStayGone == ASSUME TypedCurrent PROVE DnsSpec => []RetiredGone
<1>1. DnsInv => RetiredGone
  <2> SUFFICES ASSUME DnsInv PROVE RetiredGone
    OBVIOUS
  <2>1. ASSUME NEW slot \in cleanup.clean, NEW r \in Retired PROVE ~Contains(ns[slot[1]][slot[2]], r)
    <3>1. ns[slot[1]][slot[2]] \in Servers
      BY DEF DnsInv
    <3> QED BY <3>1 DEF Servers, Contains
  <2> QED BY <2>1 DEF DnsInv, RetiredGone
<1> QED BY <1>1, DnsInvariant, PTL
-----------------------------------------------------------------------------
(* The hosts file.                                                         *)

(* A file with each block whole, and none twice.                           *)
Names == Blocks \cup {"", "new"} \cup {HostsFound[i].of : i \in DOMAIN HostsFound}
                \cup {DefaultHosts[i].of : i \in DOMAIN DefaultHosts}
LineRec == [k : {"user", "blank", "begin", "row", "end"}, of : Names, at : Nat]
Whole3(lines, i) ==
    /\ lines[i] = Line("begin", lines[i].of)
    /\ i + 1 \in DOMAIN lines /\ i + 2 \in DOMAIN lines
    /\ lines[i + 1].k = "row" /\ lines[i + 2] = Line("end", lines[i].of)
Tidy(lines) ==
    /\ lines \in Seq(LineRec)
    /\ \A i \in DOMAIN lines : lines[i].k = "begin" => Whole3(lines, i)
    /\ \A i, n \in DOMAIN lines :
          lines[i].k = "begin" /\ lines[n].k = "begin" /\ lines[i].of = lines[n].of => i = n

(* What lies in a block is its three lines.                                *)
LEMMA InBlockIs ==
    ASSUME NEW lines, Tidy(lines), NEW b \in Names, NEW i \in DOMAIN lines
    PROVE  InBlock(lines, b, i) <=>
              \E k \in DOMAIN lines : lines[k] = Line("begin", b) /\ (i = k \/ i = k + 1 \/ i = k + 2)
<1>0. Len(lines) \in Nat /\ DOMAIN lines = 1 .. Len(lines) /\ i \in Nat
  BY DEF Tidy
<1>b. ASSUME NEW k \in DOMAIN lines, lines[k] = Line("begin", b)
      PROVE  /\ k \in Nat /\ k + 1 \in DOMAIN lines /\ k + 2 \in DOMAIN lines
             /\ lines[k + 1].k = "row" /\ lines[k + 2] = Line("end", b)
  <2>1. lines[k].k = "begin" /\ lines[k].of = b
    BY <1>b DEF Line
  <2> QED BY <1>0, <2>1 DEF Tidy, Whole3
<1>1. ASSUME InBlock(lines, b, i)
      PROVE  \E k \in DOMAIN lines : lines[k] = Line("begin", b) /\ (i = k \/ i = k + 1 \/ i = k + 2)
  <2>1. PICK k \in 1 .. i : lines[k] = Line("begin", b) /\ \A n \in k + 1 .. i - 1 : lines[n] # Line("end", b)
    BY <1>1 DEF InBlock
  <2>2. k \in DOMAIN lines
    BY <1>0
  <2>3. k \in Nat /\ k <= i /\ lines[k + 2] = Line("end", b)
    BY <1>b, <2>1, <2>2
  <2>4. ~(k + 2 <= i - 1)
    <3> SUFFICES ASSUME k + 2 <= i - 1 PROVE FALSE
      OBVIOUS
    <3>1. k + 2 \in k + 1 .. i - 1
      BY <1>0, <2>3
    <3> QED BY <2>1, <2>3, <3>1
  <2>5. i = k \/ i = k + 1 \/ i = k + 2
    BY <1>0, <2>3, <2>4
  <2> QED BY <2>1, <2>2, <2>5
<1>2. ASSUME NEW k \in DOMAIN lines, lines[k] = Line("begin", b), i = k \/ i = k + 1 \/ i = k + 2
      PROVE  InBlock(lines, b, i)
  <2>1. k \in 1 .. i
    BY <1>0, <1>2
  <2>2. ASSUME NEW n \in k + 1 .. i - 1 PROVE lines[n] # Line("end", b)
    <3>1. n = k + 1
      BY <1>0, <1>2, <2>1, <2>2
    <3>2. lines[n].k = "row"
      BY <1>b, <1>2, <3>1
    <3> QED BY <3>2 DEF Line
  <2> QED BY <1>2, <2>1, <2>2 DEF InBlock
<1> QED BY <1>1, <1>2

Users(lines) == {i \in DOMAIN lines : lines[i].k = "user"}

(* Without a block the rest is as tidy, and no line of the user is gone.   *)
LEMMA RemoveBlockFacts ==
    ASSUME NEW lines, Tidy(lines), NEW b \in Names
    PROVE  /\ Tidy(RemoveBlock(lines, b))
           /\ UserLines(RemoveBlock(lines, b)) = UserLines(lines)
           /\ BlocksOf(RemoveBlock(lines, b)) \subseteq BlocksOf(lines) \ {b}
<1> DEFINE I == {i \in DOMAIN lines : ~InBlock(lines, b, i)}
           r == Picked(lines, I)
<1>0. /\ lines \in Seq(LineRec) /\ Len(lines) \in Nat /\ DOMAIN lines = 1 .. Len(lines)
      /\ I \in SUBSET DOMAIN lines /\ I \in SUBSET Nat
  BY DEF Tidy
<1>r. RemoveBlock(lines, b) = r
  BY DEF RemoveBlock
<1>i. \A i \in DOMAIN lines : i \notin I <=>
          \E k \in DOMAIN lines : lines[k] = Line("begin", b) /\ (i = k \/ i = k + 1 \/ i = k + 2)
  BY InBlockIs
<1>b. ASSUME NEW k \in DOMAIN lines, lines[k].k = "begin"
      PROVE  /\ k \in Nat /\ lines[k] = Line("begin", lines[k].of) /\ k + 1 \in DOMAIN lines /\ k + 2 \in DOMAIN lines
             /\ lines[k + 1].k = "row" /\ lines[k + 2] = Line("end", lines[k].of) /\ lines[k + 2].k = "end"
  <2>1. Whole3(lines, k) /\ k \in Nat
    BY <1>0, <1>b DEF Tidy
  <2> QED BY <2>1 DEF Whole3, Line
<1>u. ASSUME NEW i \in DOMAIN lines, lines[i].k = "user" PROVE i \in I
  <2> SUFFICES ASSUME i \notin I PROVE FALSE
    OBVIOUS
  <2>1. PICK k \in DOMAIN lines : lines[k] = Line("begin", b) /\ (i = k \/ i = k + 1 \/ i = k + 2)
    BY <1>i
  <2>2. lines[k].k = "begin"
    BY <2>1 DEF Line
  <2> QED BY <1>b, <1>u, <2>1, <2>2
<1>k. ASSUME NEW i \in I, lines[i].k = "begin"
      PROVE  lines[i].of # b /\ i + 1 \in I /\ i + 2 \in I
  <2>0. i \in DOMAIN lines /\ i \in Nat /\ lines[i] = Line("begin", lines[i].of)
        /\ i + 1 \in DOMAIN lines /\ i + 2 \in DOMAIN lines /\ lines[i + 1].k = "row" /\ lines[i + 2].k = "end"
    BY <1>0, <1>b, <1>k
  <2>1. lines[i].of # b
    BY <1>i, <2>0
  <2>2. ASSUME NEW n \in {i + 1, i + 2}, n \notin I PROVE FALSE
    <3>1. PICK k \in DOMAIN lines : lines[k] = Line("begin", b) /\ (n = k \/ n = k + 1 \/ n = k + 2)
      BY <1>i, <2>0, <2>2
    <3>2. lines[k].k = "begin" /\ lines[k].of = b
      BY <3>1 DEF Line
    <3>3. k \in Nat /\ lines[k + 1].k = "row" /\ lines[k + 2].k = "end"
      BY <1>b, <3>2
    <3>4. k # i + 1 /\ k # i + 2 /\ k # i /\ k + 1 # i /\ k + 2 # i
      BY <1>k, <2>0, <2>1, <3>2, <3>3
    <3>5. k = i - 1 \/ k = i \/ k = i + 1 \/ k = i + 2
      BY <2>0, <2>2, <3>1, <3>3
    <3> QED BY <2>0, <3>3, <3>4, <3>5
  <2> QED BY <2>1, <2>2
<1> HIDE DEF I
<1>1. PICK p \in [DOMAIN r -> I] : InOrder(lines, I, r, p)
  BY <1>0, PickedInOrder
<1>2. r \in Seq(LineRec) /\ Len(r) \in Nat /\ DOMAIN r = 1 .. Len(r)
  <2>1. r \in Seq(LineRec)
    BY <1>0, PickedFacts
  <2> HIDE DEF r
  <2> QED BY <2>1
<1> HIDE DEF r
<1>p. PlacesOf(LineRec, lines, I, r, p)
  BY <1>1, <1>2 DEF PlacesOf
<1>3. \A q \in DOMAIN r : p[q] \in I /\ p[q] \in DOMAIN lines /\ r[q] = lines[p[q]] /\ q \in Nat
  BY <1>0, <1>1, <1>2 DEF InOrder
<1>4. ASSUME NEW q \in DOMAIN r, r[q].k = "begin"
      PROVE  /\ r[q].of # b /\ q + 1 \in DOMAIN r /\ q + 2 \in DOMAIN r
             /\ p[q + 1] = p[q] + 1 /\ p[q + 2] = p[q] + 2
  <2>1. lines[p[q]].of # b /\ p[q] + 1 \in I /\ p[q] + 2 \in I /\ r[q].of = lines[p[q]].of /\ p[q] \in Nat
    BY <1>0, <1>3, <1>4, <1>k
  <2>2. q + 1 \in DOMAIN r /\ p[q + 1] = p[q] + 1
    BY <1>0, <1>p, <2>1, NextPlace
  <2>3. p[q + 1] + 1 \in I
    BY <2>1, <2>2
  <2>4. (q + 1) + 1 \in DOMAIN r /\ p[(q + 1) + 1] = p[q + 1] + 1
    BY <1>0, <1>p, <2>2, <2>3, NextPlace
  <2>5. (q + 1) + 1 = q + 2
    BY <1>3
  <2> QED BY <2>1, <2>2, <2>4, <2>5
<1>5. ASSUME NEW q \in DOMAIN r, r[q].k = "begin" PROVE Whole3(r, q)
  <2>1. r[q] = lines[p[q]] /\ r[q + 1] = lines[p[q] + 1] /\ r[q + 2] = lines[p[q] + 2]
    BY <1>3, <1>4, <1>5
  <2>2. lines[p[q]].k = "begin" /\ p[q] \in DOMAIN lines
    BY <1>3, <1>5
  <2> QED BY <1>b, <1>4, <1>5, <2>1, <2>2 DEF Whole3
<1>6. ASSUME NEW q \in DOMAIN r, NEW m \in DOMAIN r,
             r[q].k = "begin" /\ r[m].k = "begin" /\ r[q].of = r[m].of
      PROVE  q = m
  <2>1. p[q] = p[m] /\ p[q] \in Nat /\ p[m] \in Nat
    BY <1>0, <1>3, <1>6 DEF Tidy
  <2>2. (q < m => p[q] < p[m]) /\ (m < q => p[m] < p[q]) /\ q \in Nat /\ m \in Nat
    BY <1>1, <1>3 DEF InOrder
  <2> QED BY <2>1, <2>2
<1>7. Tidy(r)
  BY <1>2, <1>5, <1>6 DEF Tidy
<1>8. BlocksOf(r) \subseteq BlocksOf(lines) \ {b}
  <2> SUFFICES ASSUME NEW q \in DOMAIN r, r[q].k = "begin"
               PROVE  r[q].of \in BlocksOf(lines) \ {b}
    BY DEF BlocksOf
  <2>1. p[q] \in DOMAIN lines /\ lines[p[q]].k = "begin" /\ r[q].of = lines[p[q]].of /\ r[q].of # b
    BY <1>3, <1>4
  <2> QED BY <2>1 DEF BlocksOf
<1>9. UserLines(r) = UserLines(lines)
  <2> DEFINE h == [q \in Users(r) |-> p[q]]
  <2>1. Users(r) \in SUBSET DOMAIN r /\ Users(lines) \in SUBSET DOMAIN lines
    BY DEF Users
  <2>2. h \in [Users(r) -> Users(lines)] /\ \A q \in Users(r) : lines[h[q]] = r[q]
    BY <1>3 DEF Users
  <2>3. \A q, m \in Users(r) : q < m => h[q] < h[m]
    BY <1>1, <2>1 DEF InOrder
  <2>4. ASSUME NEW i \in Users(lines) PROVE \E q \in Users(r) : h[q] = i
    <3>1. i \in I /\ lines[i].k = "user"
      BY <1>u DEF Users
    <3>2. PICK q \in DOMAIN r : p[q] = i
      BY <1>1, <3>1 DEF InOrder
    <3>3. q \in Users(r)
      BY <1>3, <3>1, <3>2 DEF Users
    <3> QED BY <3>2, <3>3
  <2> HIDE DEF h
  <2>c. Corresponds(r, Users(r), lines, Users(lines), h)
    BY <2>2, <2>3, <2>4 DEF Corresponds
  <2>5. Picked(r, Users(r)) = Picked(lines, Users(lines))
    BY <1>0, <1>2, <2>1, <2>c, SamePicked
  <2> QED BY <2>5 DEF UserLines, Users
<1> QED BY <1>r, <1>7, <1>8, <1>9

(* What is added at the end without a line of the user's.                  *)
LEMMA ExtendedFacts ==
    ASSUME NEW t \in Seq(LineRec), NEW u \in Seq(LineRec), Len(t) <= Len(u),
           \A i \in DOMAIN t : u[i] = t[i], \A i \in DOMAIN u : i > Len(t) => u[i].k # "user"
    PROVE  UserLines(u) = UserLines(t)
<1>0. /\ Len(t) \in Nat /\ DOMAIN t = 1 .. Len(t) /\ Len(u) \in Nat /\ DOMAIN u = 1 .. Len(u)
      /\ DOMAIN t \subseteq DOMAIN u
  OBVIOUS
<1>1. Users(t) \in SUBSET DOMAIN t /\ Users(u) \in SUBSET DOMAIN u
  BY DEF Users
<1> DEFINE h == [i \in Users(t) |-> i]
<1>2. \A i \in Users(t) : i \in Users(u)
  BY <1>0 DEF Users
<1>3. \A i \in Users(u) : i \in Users(t)
  <2> SUFFICES ASSUME NEW i \in Users(u) PROVE i \in Users(t)
    OBVIOUS
  <2>1. i \in DOMAIN u /\ u[i].k = "user" /\ ~(i > Len(t))
    BY DEF Users
  <2>2. i \in DOMAIN t
    BY <1>0, <2>1
  <2> QED BY <2>1, <2>2 DEF Users
<1>4. Corresponds(t, Users(t), u, Users(u), h)
  <2>1. h \in [Users(t) -> Users(u)]
    BY <1>2
  <2>2. \A i \in Users(t) : u[h[i]] = t[i]
    BY <1>1
  <2> QED BY <1>3, <2>1, <2>2 DEF Corresponds
<1> HIDE DEF h
<1>5. Picked(t, Users(t)) = Picked(u, Users(u))
  BY <1>1, <1>4, SamePicked
<1> QED BY <1>5 DEF UserLines, Users

(* Trimmed cuts off blank lines only.                                      *)
LEMMA TrimmedIs ==
    ASSUME NEW lines \in Seq(LineRec)
    PROVE  \E m \in 0 .. Len(lines) : /\ Trimmed(lines) = SubSeq(lines, 1, m)
                                      /\ \A i \in DOMAIN lines : lines[i].k # "blank" => i <= m
<1> DEFINE filled == {i \in DOMAIN lines : lines[i].k # "blank"}
           last == CHOOSE i \in filled : \A k \in filled : k <= i
<1>0. Len(lines) \in Nat /\ DOMAIN lines = 1 .. Len(lines) /\ filled \subseteq 1 .. Len(lines)
  OBVIOUS
<1>t. Trimmed(lines) = IF filled = {} THEN <<>> ELSE SubSeq(lines, 1, last)
  BY DEF Trimmed
<1>1. CASE filled = {}
  <2>1. Trimmed(lines) = SubSeq(lines, 1, 0)
    BY <1>t, <1>1
  <2>2. 0 \in 0 .. Len(lines) /\ \A i \in DOMAIN lines : lines[i].k # "blank" => i <= 0
    BY <1>0, <1>1
  <2> QED BY <2>1, <2>2
<1>2. CASE filled # {}
  <2> DEFINE above == {n \in Nat : \A k \in filled : k <= n}
  <2>1. Len(lines) \in above
    BY <1>0
  <2>2. PICK x \in above : \A y \in above : x <= y
    <3>1. above \in SUBSET Nat /\ above # {}
      BY <2>1
    <3> HIDE DEF above
    <3> QED BY <3>1, LeastOne
  <2>3. x \in filled
    <3> SUFFICES ASSUME x \notin filled PROVE FALSE
      OBVIOUS
    <3>1. PICK k \in filled : k <= x
      BY <1>2, <2>2
    <3>2. x \in Nat /\ k \in Nat /\ k >= 1 /\ x # 0 /\ x - 1 \in Nat
      BY <1>0, <2>2, <3>1
    <3>3. \A n \in filled : n <= x - 1
      <4> SUFFICES ASSUME NEW n \in filled PROVE n <= x - 1
        OBVIOUS
      <4>1. n <= x /\ n # x /\ n \in Nat
        BY <1>0, <2>2
      <4> HIDE DEF filled, above
      <4> QED BY <3>2, <4>1
    <3>4. x - 1 \in above
      BY <3>2, <3>3
    <3>5. x <= x - 1
      BY <2>2, <3>4
    <3> HIDE DEF filled, above
    <3> QED BY <3>2, <3>5
  <2>4. \E i \in filled : \A k \in filled : k <= i
    BY <2>2, <2>3
  <2>5. last \in filled /\ \A k \in filled : k <= last
    <3> HIDE DEF filled
    <3> QED BY <2>4
  <2> HIDE DEF last
  <2>6. last \in 0 .. Len(lines) /\ \A i \in DOMAIN lines : lines[i].k # "blank" => i <= last
    BY <1>0, <2>5
  <2>7. Trimmed(lines) = SubSeq(lines, 1, last)
    BY <1>t, <1>2
  <2> QED BY <2>6, <2>7
<1> QED BY <1>1, <1>2

LEMMA TrimmedFacts ==
    ASSUME NEW lines, Tidy(lines)
    PROVE  /\ Tidy(Trimmed(lines)) /\ UserLines(Trimmed(lines)) = UserLines(lines)
           /\ BlocksOf(Trimmed(lines)) \subseteq BlocksOf(lines)
<1>0. lines \in Seq(LineRec) /\ Len(lines) \in Nat /\ DOMAIN lines = 1 .. Len(lines)
  BY DEF Tidy
<1>1. PICK m \in 0 .. Len(lines) : /\ Trimmed(lines) = SubSeq(lines, 1, m)
                                   /\ \A i \in DOMAIN lines : lines[i].k # "blank" => i <= m
  BY <1>0, TrimmedIs
<1> DEFINE t == Trimmed(lines)
<1>2. /\ t \in Seq(LineRec) /\ Len(t) = m /\ DOMAIN t = 1 .. m /\ m \in Nat /\ m <= Len(lines)
      /\ \A i \in 1 .. m : t[i] = lines[i]
  BY <1>0, <1>1
<1> HIDE DEF t
<1>3. \A i \in DOMAIN lines : i > m => lines[i].k = "blank"
  BY <1>0, <1>1, <1>2
<1>4. UserLines(lines) = UserLines(t)
  <2>1. \A i \in DOMAIN lines : i > Len(t) => lines[i].k # "user"
    BY <1>2, <1>3
  <2>2. Len(t) <= Len(lines) /\ \A i \in DOMAIN t : lines[i] = t[i]
    BY <1>2
  <2> QED BY <1>0, <1>2, <2>1, <2>2, ExtendedFacts
<1>5. ASSUME NEW i \in DOMAIN t, t[i].k = "begin" PROVE Whole3(t, i)
  <2>1. i \in DOMAIN lines /\ lines[i] = t[i] /\ lines[i].k = "begin" /\ i \in Nat
    BY <1>0, <1>2, <1>5
  <2>2. Whole3(lines, i)
    BY <2>1 DEF Tidy
  <2>3. i + 2 \in DOMAIN lines /\ lines[i + 2].k = "end"
    BY <2>2 DEF Whole3, Line
  <2>4. ~(i + 2 > m)
    BY <1>3, <2>3
  <2>5. i + 1 \in DOMAIN t /\ i + 2 \in DOMAIN t
    BY <1>2, <2>1, <2>4
  <2>6. t[i + 1] = lines[i + 1] /\ t[i + 2] = lines[i + 2]
    BY <1>2, <2>5
  <2> QED BY <2>1, <2>2, <2>5, <2>6 DEF Whole3
<1>6. Tidy(t)
  <2>1. ASSUME NEW i \in DOMAIN t, NEW n \in DOMAIN t,
               t[i].k = "begin" /\ t[n].k = "begin" /\ t[i].of = t[n].of
        PROVE  i = n
    BY <1>0, <1>2, <2>1 DEF Tidy
  <2> QED BY <1>2, <1>5, <2>1 DEF Tidy
<1>7. BlocksOf(t) \subseteq BlocksOf(lines)
  BY <1>0, <1>2 DEF BlocksOf
<1> QED BY <1>4, <1>6, <1>7 DEF t

(* A blank line and a whole block at the end.                              *)
LEMMA BlankAdded ==
    ASSUME NEW t, Tidy(t)
    PROVE  /\ Tidy(t \o <<Blank>>) /\ UserLines(t \o <<Blank>>) = UserLines(t)
           /\ BlocksOf(t \o <<Blank>>) = BlocksOf(t)
<1> DEFINE u == t \o <<Blank>>
<1>0. t \in Seq(LineRec) /\ Len(t) \in Nat /\ DOMAIN t = 1 .. Len(t)
  BY DEF Tidy
<1>1. Blank \in LineRec /\ Blank.k = "blank"
  BY DEF Blank, Line, LineRec, Names
<1>2. /\ u \in Seq(LineRec) /\ Len(u) = Len(t) + 1 /\ DOMAIN u = 1 .. Len(t) + 1
      /\ u[Len(t) + 1] = Blank /\ \A i \in 1 .. Len(t) : u[i] = t[i]
  <2>1. u = Append(t, Blank)
    BY <1>0
  <2> HIDE DEF u
  <2> QED BY <1>0, <1>1, <2>1
<1> HIDE DEF u
<1>3. \A i \in DOMAIN u : u[i].k # "blank" => i \in DOMAIN t /\ u[i] = t[i]
  <2> SUFFICES ASSUME NEW i \in DOMAIN u, u[i].k # "blank" PROVE i \in DOMAIN t /\ u[i] = t[i]
    OBVIOUS
  <2>1. i # Len(t) + 1
    BY <1>1, <1>2
  <2> QED BY <1>0, <1>2, <2>1
<1>4. UserLines(u) = UserLines(t)
  <2>1. \A i \in DOMAIN u : i > Len(t) => u[i].k # "user"
    BY <1>0, <1>3
  <2>2. Len(t) <= Len(u) /\ \A i \in DOMAIN t : u[i] = t[i]
    BY <1>0, <1>2
  <2> QED BY <1>0, <1>2, <2>1, <2>2, ExtendedFacts
<1>5. ASSUME NEW i \in DOMAIN u, u[i].k = "begin" PROVE Whole3(u, i)
  <2>1. i \in DOMAIN t /\ u[i] = t[i]
    BY <1>3, <1>5
  <2>2. Whole3(t, i)
    BY <1>5, <2>1 DEF Tidy
  <2>3. i + 1 \in DOMAIN t /\ i + 2 \in DOMAIN t
    BY <2>2 DEF Whole3
  <2>4. u[i + 1] = t[i + 1] /\ u[i + 2] = t[i + 2] /\ i + 1 \in DOMAIN u /\ i + 2 \in DOMAIN u
    BY <1>0, <1>2, <2>3
  <2> QED BY <2>1, <2>2, <2>4 DEF Whole3
<1>6. Tidy(u)
  <2>1. ASSUME NEW i \in DOMAIN u, NEW n \in DOMAIN u,
               u[i].k = "begin" /\ u[n].k = "begin" /\ u[i].of = u[n].of
        PROVE  i = n
    BY <1>3, <2>1 DEF Tidy
  <2> QED BY <1>2, <1>5, <2>1 DEF Tidy
<1>7. BlocksOf(u) = BlocksOf(t)
  <2>1. \A i \in DOMAIN t : i \in DOMAIN u /\ u[i] = t[i]
    BY <1>0, <1>2
  <2>2. {i \in DOMAIN u : u[i].k = "begin"} = {i \in DOMAIN t : t[i].k = "begin"}
    BY <1>3, <2>1
  <2> QED BY <2>1, <2>2 DEF BlocksOf
<1> QED BY <1>4, <1>6, <1>7 DEF u

WithBlock(t, b, n) == t \o <<Line("begin", b)>> \o <<Row(b, n)>> \o <<Line("end", b)>>

LEMMA BlockAdded ==
    ASSUME NEW t, Tidy(t), NEW b \in Names, b \notin BlocksOf(t), NEW n \in Nat
    PROVE  /\ Tidy(WithBlock(t, b, n)) /\ UserLines(WithBlock(t, b, n)) = UserLines(t)
           /\ BlocksOf(WithBlock(t, b, n)) \subseteq BlocksOf(t) \cup {b}
<1> DEFINE u == WithBlock(t, b, n)
           m == Len(t)
           x == Line("begin", b)
           y == Row(b, n)
           z == Line("end", b)
<1>0. t \in Seq(LineRec) /\ m \in Nat /\ DOMAIN t = 1 .. m
  BY DEF Tidy
<1>1. /\ x \in LineRec /\ y \in LineRec /\ z \in LineRec
      /\ x.k = "begin" /\ x.of = b /\ y.k = "row" /\ z.k = "end"
  BY DEF Line, Row, LineRec
<1>2. u = Append(Append(Append(t, x), y), z)
  <2> HIDE DEF x, y, z
  <2>1. t \o <<x>> = Append(t, x) /\ Append(t, x) \in Seq(LineRec)
    BY <1>0, <1>1
  <2>2. Append(t, x) \o <<y>> = Append(Append(t, x), y) /\ Append(Append(t, x), y) \in Seq(LineRec)
    BY <1>1, <2>1
  <2>3. Append(Append(t, x), y) \o <<z>> = Append(Append(Append(t, x), y), z)
    BY <1>1, <2>2
  <2>4. u = t \o <<x>> \o <<y>> \o <<z>>
    BY DEF x, y, z, WithBlock
  <2> HIDE DEF u
  <2> QED BY <2>1, <2>2, <2>3, <2>4
<1> HIDE DEF x, y, z, u
<1>3. /\ u \in Seq(LineRec) /\ Len(u) = m + 3 /\ DOMAIN u = 1 .. m + 3
      /\ u[m + 1] = x /\ u[m + 2] = y /\ u[m + 3] = z
      /\ \A i \in 1 .. m : u[i] = t[i]
  <2> DEFINE v == Append(t, x)
             w == Append(v, y)
  <2>1. /\ v \in Seq(LineRec) /\ Len(v) = m + 1 /\ v[m + 1] = x /\ \A i \in 1 .. m : v[i] = t[i]
    BY <1>0, <1>1
  <2> HIDE DEF v, m
  <2>2. /\ w \in Seq(LineRec) /\ Len(w) = m + 2 /\ w[m + 2] = y /\ w[m + 1] = x /\ \A i \in 1 .. m : w[i] = t[i]
    BY <1>0, <1>1, <2>1
  <2> HIDE DEF w
  <2>3. u = Append(w, z)
    BY <1>2 DEF v, w
  <2>4. Len(w) = m + 2 /\ m \in Nat
    BY <1>0, <2>2
  <2>5. u \in Seq(LineRec) /\ Len(u) = Len(w) + 1 /\ u[Len(w) + 1] = z /\ \A i \in 1 .. Len(w) : u[i] = w[i]
    BY <1>1, <2>2, <2>3
  <2>6. Len(u) = m + 3 /\ Len(w) + 1 = m + 3 /\ m + 1 \in 1 .. Len(w) /\ m + 2 \in 1 .. Len(w)
        /\ \A i \in 1 .. m : i \in 1 .. Len(w)
    BY <2>4, <2>5
  <2>7. DOMAIN u = 1 .. Len(u)
    BY <2>5
  <2> QED BY <2>2, <2>5, <2>6, <2>7
<1> HIDE DEF m
<1>4. \A i \in DOMAIN u : u[i].k = "begin" => i = m + 1 \/ (i \in DOMAIN t /\ u[i] = t[i])
  <2> SUFFICES ASSUME NEW i \in DOMAIN u, u[i].k = "begin", i # m + 1 PROVE i \in DOMAIN t /\ u[i] = t[i]
    OBVIOUS
  <2>1. i # m + 2 /\ i # m + 3
    BY <1>1, <1>3
  <2> QED BY <1>0, <1>3, <2>1
<1>5. UserLines(u) = UserLines(t)
  <2>1. ASSUME NEW i \in DOMAIN u, i > Len(t) PROVE u[i].k # "user"
    <3>1. i = m + 1 \/ i = m + 2 \/ i = m + 3
      BY <1>0, <1>3, <2>1 DEF m
    <3> QED BY <1>1, <1>3, <3>1
  <2>2. Len(t) <= Len(u) /\ \A i \in DOMAIN t : u[i] = t[i]
    BY <1>0, <1>3 DEF m
  <2> QED BY <1>0, <1>3, <2>1, <2>2, ExtendedFacts
<1>6. ASSUME NEW i \in DOMAIN u, u[i].k = "begin" PROVE Whole3(u, i)
  <2>1. CASE i = m + 1
    <3>1. u[i] = x /\ u[i + 1] = y /\ u[i + 2] = z /\ i + 1 \in DOMAIN u /\ i + 2 \in DOMAIN u
      BY <1>0, <1>3, <2>1
    <3> QED BY <1>1, <3>1 DEF Whole3, x, z
  <2>2. CASE i \in DOMAIN t /\ u[i] = t[i]
    <3>1. Whole3(t, i)
      BY <1>6, <2>2 DEF Tidy
    <3>2. i + 1 \in DOMAIN t /\ i + 2 \in DOMAIN t
      BY <3>1 DEF Whole3
    <3>3. u[i + 1] = t[i + 1] /\ u[i + 2] = t[i + 2] /\ i + 1 \in DOMAIN u /\ i + 2 \in DOMAIN u
      BY <1>0, <1>3, <3>2
    <3> QED BY <2>2, <3>1, <3>3 DEF Whole3
  <2> QED BY <1>4, <1>6, <2>1, <2>2
<1>7. ASSUME NEW i \in DOMAIN u, u[i].k = "begin"
      PROVE  IF i = m + 1 THEN u[i].of = b ELSE i \in DOMAIN t /\ u[i] = t[i] /\ u[i].of \in BlocksOf(t)
  BY <1>1, <1>3, <1>4, <1>7 DEF BlocksOf
<1>8. Tidy(u)
  <2>1. ASSUME NEW i \in DOMAIN u, NEW j \in DOMAIN u,
               u[i].k = "begin" /\ u[j].k = "begin" /\ u[i].of = u[j].of
        PROVE  i = j
    BY <1>7, <2>1 DEF Tidy
  <2> QED BY <1>3, <1>6, <2>1 DEF Tidy
<1>9. BlocksOf(u) \subseteq BlocksOf(t) \cup {b}
  <2> SUFFICES ASSUME NEW i \in DOMAIN u, u[i].k = "begin" PROVE u[i].of \in BlocksOf(t) \cup {b}
    BY DEF BlocksOf
  <2> QED BY <1>7
<1> QED BY <1>5, <1>8, <1>9 DEF u

(* set_block: the file stays tidy, the user's lines stay, the block is     *)
(* there if there is something in it.                                      *)
RowsOf(b) == {<<>>} \cup {<<Row(b, n)>> : n \in Nat}
Rewritten(from, to, blocks) ==
    /\ Tidy(to) /\ UserLines(to) = UserLines(from) /\ BlocksOf(to) \subseteq blocks

LEMMA SetBlockFacts ==
    ASSUME NEW lines, Tidy(lines), NEW b \in Names, NEW rows \in RowsOf(b)
    PROVE  Rewritten(lines, SetBlock(lines, b, rows),
                     (BlocksOf(lines) \ {b}) \cup (IF rows = <<>> THEN {} ELSE {b}))
<1> DEFINE rest == Trimmed(RemoveBlock(lines, b))
           t == rest \o (IF rest = <<>> THEN <<>> ELSE <<Blank>>)
<1>1. /\ Tidy(rest) /\ UserLines(rest) = UserLines(lines) /\ BlocksOf(rest) \subseteq BlocksOf(lines) \ {b}
  <2>1. /\ Tidy(RemoveBlock(lines, b)) /\ UserLines(RemoveBlock(lines, b)) = UserLines(lines)
        /\ BlocksOf(RemoveBlock(lines, b)) \subseteq BlocksOf(lines) \ {b}
    BY RemoveBlockFacts
  <2>2. /\ Tidy(rest) /\ UserLines(rest) = UserLines(RemoveBlock(lines, b))
        /\ BlocksOf(rest) \subseteq BlocksOf(RemoveBlock(lines, b))
    BY <2>1, TrimmedFacts
  <2> QED BY <2>1, <2>2
<1>s. SetBlock(lines, b, rows) = IF rows = <<>> THEN rest
                                  ELSE t \o <<Line("begin", b)>> \o rows \o <<Line("end", b)>>
  BY DEF SetBlock
<1> HIDE DEF rest
<1>2. CASE rows = <<>>
  BY <1>1, <1>2, <1>s DEF Rewritten
<1>3. CASE rows # <<>>
  <2>1. Tidy(t) /\ UserLines(t) = UserLines(rest) /\ BlocksOf(t) = BlocksOf(rest)
    <3>1. CASE rest = <<>>
      <4>1. t = <<>> \o <<>>
        BY <3>1
      <4>2. t = rest
        BY <3>1, <4>1
      <4> QED BY <1>1, <4>2
    <3>2. CASE rest # <<>>
      <4>1. t = rest \o <<Blank>>
        BY <3>2
      <4> QED BY <1>1, <4>1, BlankAdded
    <3> QED BY <3>1, <3>2
  <2>2. PICK n \in Nat : rows = <<Row(b, n)>>
    BY <1>3 DEF RowsOf
  <2> DEFINE u == SetBlock(lines, b, rows)
  <2>3. u = WithBlock(t, b, n)
    BY <1>3, <1>s, <2>2 DEF WithBlock
  <2>4. b \notin BlocksOf(t)
    BY <1>1, <2>1
  <2> HIDE DEF u, t
  <2>5. Tidy(u) /\ UserLines(u) = UserLines(t) /\ BlocksOf(u) \subseteq BlocksOf(t) \cup {b}
    BY <2>1, <2>3, <2>4, BlockAdded
  <2>6. Rewritten(lines, u, (BlocksOf(lines) \ {b}) \cup {b})
    BY <1>1, <2>1, <2>5 DEF Rewritten
  <2> QED BY <1>3, <2>6 DEF u
<1> QED BY <1>2, <1>3

(* Blocks set one after the other.                                         *)
SetOne(f, list, rows, k) == SetBlock(f[k - 1], list[k], rows[list[k]])
SetUpTo(lines, list, rows, f, n) == [k \in 0 .. n |-> IF k = 0 THEN lines ELSE SetOne(f, list, rows, k)]

LEMMA SetExists ==
    ASSUME NEW lines, NEW list, NEW rows, NEW m \in Nat
    PROVE  \E f : f = SetUpTo(lines, list, rows, f, m)
<1> DEFINE T == {n \in Nat : \E f : f = SetUpTo(lines, list, rows, f, n)}
<1>1. 0 \in T
  <2> DEFINE f == [k \in 0 .. 0 |-> lines]
  <2>1. f = SetUpTo(lines, list, rows, f, 0)
    BY DEF SetUpTo
  <2> HIDE DEF f
  <2> QED BY <2>1
<1>2. ASSUME NEW n \in Nat, n \in T PROVE n + 1 \in T
  <2>1. PICK f : f = SetUpTo(lines, list, rows, f, n)
    BY <1>2
  <2> DEFINE g == [k \in 0 .. n + 1 |-> IF k = n + 1 THEN SetOne(f, list, rows, n + 1) ELSE f[k]]
  <2>2. ASSUME NEW k \in 0 .. n + 1
        PROVE  g[k] = IF k = 0 THEN lines ELSE SetOne(g, list, rows, k)
    <3>1. CASE k = n + 1
      <4>1. k # 0 /\ k - 1 = n /\ (n + 1) - 1 = n /\ g[n] = f[n]
        BY <3>1
      <4>2. g[k] = SetOne(f, list, rows, n + 1)
        BY <3>1
      <4> HIDE DEF g
      <4> QED BY <3>1, <4>1, <4>2 DEF SetOne
    <3>2. CASE k = 0
      BY <2>1, <3>2 DEF SetUpTo
    <3>3. CASE k \in 1 .. n
      <4>1. g[k] = f[k] /\ g[k - 1] = f[k - 1] /\ k \in 0 .. n /\ k # 0
        BY <3>3
      <4>2. f[k] = SetUpTo(lines, list, rows, f, n)[k]
        BY <2>1
      <4>3. f[k] = SetOne(f, list, rows, k)
        BY <4>1, <4>2 DEF SetUpTo
      <4> HIDE DEF g
      <4> QED BY <4>1, <4>3 DEF SetOne
    <3> QED BY <3>1, <3>2, <3>3
  <2>3. g = [k \in 0 .. n + 1 |-> g[k]]
    OBVIOUS
  <2> HIDE DEF g
  <2>4. g = SetUpTo(lines, list, rows, g, n + 1)
    BY <2>2, <2>3 DEF SetUpTo
  <2> QED BY <2>4
<1> HIDE DEF T
<1>3. m \in T
  BY <1>1, <1>2, FromZero
<1> QED BY <1>3 DEF T

OneByOne(lines, list, rows, f) ==
    /\ SetBlocks(lines, list, rows) = f[Len(list)] /\ f[0] = lines
    /\ \A n \in 1 .. Len(list) : f[n] = SetBlock(f[n - 1], list[n], rows[list[n]])

LEMMA SetBlocksIs ==
    ASSUME NEW lines, NEW list \in Seq(Names), NEW rows
    PROVE  \E f : OneByOne(lines, list, rows, f)
<1> DEFINE f == CHOOSE g : g = SetUpTo(lines, list, rows, g, Len(list))
<1>0. Len(list) \in Nat
  OBVIOUS
<1>1. f = SetUpTo(lines, list, rows, f, Len(list))
  <2>1. \E g : g = SetUpTo(lines, list, rows, g, Len(list))
    BY <1>0, SetExists
  <2> QED BY <2>1, Zenon
<1>2. SetBlocks(lines, list, rows) = f[Len(list)]
  BY DEF SetBlocks, SetUpTo, SetOne
<1> HIDE DEF f
<1>3. \A k \in 0 .. Len(list) : f[k] = SetUpTo(lines, list, rows, f, Len(list))[k]
  BY <1>1
<1>4. /\ f[0] = lines
      /\ \A n \in 1 .. Len(list) : f[n] = SetBlock(f[n - 1], list[n], rows[list[n]])
  BY <1>3 DEF SetUpTo, SetOne
<1> QED BY <1>2, <1>4 DEF OneByOne

(* The blocks that may be in the file once the first n are set.            *)
SetAfter(lines, list, rows, n) ==
    {x \in BlocksOf(lines) \cup {list[i] : i \in 1 .. n} : \A i \in 1 .. n : x = list[i] => rows[x] # <<>>}

LEMMA SetBlocksFacts ==
    ASSUME NEW lines, Tidy(lines), NEW list \in Seq(Names), NEW rows,
           \A i \in DOMAIN list : rows[list[i]] \in RowsOf(list[i])
    PROVE  Rewritten(lines, SetBlocks(lines, list, rows), SetAfter(lines, list, rows, Len(list)))
<1>0. Len(list) \in Nat /\ DOMAIN list = 1 .. Len(list)
  OBVIOUS
<1>s. PICK f : OneByOne(lines, list, rows, f)
  BY SetBlocksIs
<1>1. /\ SetBlocks(lines, list, rows) = f[Len(list)] /\ f[0] = lines
      /\ \A n \in 1 .. Len(list) : f[n] = SetBlock(f[n - 1], list[n], rows[list[n]])
  BY <1>s DEF OneByOne
<1> DEFINE After(n) == SetAfter(lines, list, rows, n)
           T == {n \in 0 .. Len(list) : Rewritten(lines, f[n], After(n))}
<1>2. 0 \in T
  <2>1. BlocksOf(lines) \subseteq After(0)
    BY DEF SetAfter
  <2> QED BY <1>0, <1>1, <2>1 DEF Rewritten
<1>3. ASSUME NEW n \in 0 .. (Len(list) - 1), n \in T PROVE n + 1 \in T
  <2> DEFINE b == list[n + 1]
             r == rows[b]
  <2>1. n + 1 \in DOMAIN list /\ n + 1 \in 1 .. Len(list) /\ (n + 1) - 1 = n /\ n \in Nat /\ n + 1 \in 0 .. Len(list)
    BY <1>0
  <2>2. b \in Names /\ r \in RowsOf(b)
    BY <2>1
  <2>3. f[n + 1] = SetBlock(f[n], b, r)
    BY <1>1, <2>1
  <2>4. Tidy(f[n]) /\ UserLines(f[n]) = UserLines(lines) /\ BlocksOf(f[n]) \subseteq After(n)
    BY <1>3 DEF Rewritten
  <2>b. b = list[n + 1] /\ r = rows[b]
    OBVIOUS
  <2> HIDE DEF b, r, After
  <2>5. Rewritten(f[n], f[n + 1], (BlocksOf(f[n]) \ {b}) \cup (IF r = <<>> THEN {} ELSE {b}))
    BY <2>2, <2>3, <2>4, SetBlockFacts
  <2>6. (BlocksOf(f[n]) \ {b}) \cup (IF r = <<>> THEN {} ELSE {b}) \subseteq After(n + 1)
    <3>1. \A i \in 1 .. n + 1 : i \in 1 .. n \/ list[i] = b
      BY <2>1, <2>b
    <3>2. \A i \in 1 .. n : i \in 1 .. n + 1
      BY <2>1
    <3>3. \A x \in After(n) : x # b => x \in After(n + 1)
      BY <3>1, <3>2 DEF After, SetAfter
    <3>4. r # <<>> => b \in After(n + 1)
      <4>1. n + 1 \in 1 .. n + 1
        BY <2>1
      <4> QED BY <4>1, <2>b DEF After, SetAfter
    <3> QED BY <2>4, <3>3, <3>4
  <2>7. Rewritten(lines, f[n + 1], After(n + 1))
    BY <2>4, <2>5, <2>6 DEF Rewritten
  <2> QED BY <2>1, <2>7
<1> HIDE DEF T
<1>4. 0 .. Len(list) \subseteq T
  BY <1>0, <1>2, <1>3, FromZeroTo
<1>5. Len(list) \in T
  BY <1>0, <1>4
<1> QED BY <1>1, <1>5 DEF T

(* A list of a finite set has every element.                               *)
LEMMA ListOfSet ==
    ASSUME NEW S, IsFiniteSet(S)
    PROVE  SetToSeq(S) \in Seq(S) /\ \A x \in S : \E i \in DOMAIN SetToSeq(S) : SetToSeq(S)[i] = x
<1> DEFINE n == Cardinality(S)
           f == SetToSeq(S)
<1>1. n \in Nat /\ ExistsBijection(1 .. n, S)
  BY FS_CardinalityType
<1>2. PICK g \in Bijection(1 .. n, S) : TRUE
  BY <1>1 DEF ExistsBijection
<1>3. g \in [1 .. n -> S] /\ IsInjective(g)
  BY <1>2 DEF Bijection, Injection, IsInjective
<1>4. f \in [1 .. n -> S] /\ IsInjective(f)
  BY <1>3 DEF SetToSeq
<1> HIDE DEF f
<1>5. f \in Injection(1 .. n, S)
  BY <1>4 DEF Injection, IsInjective
<1>6. Cardinality(1 .. n) = Cardinality(S)
  BY <1>1, FS_Interval DEF n
<1>7. f \in Surjection(1 .. n, S)
  BY <1>5, <1>6, FS_Injection
<1>8. f \in Seq(S) /\ DOMAIN f = 1 .. n
  BY <1>1, <1>4
<1> QED BY <1>7, <1>8 DEF Surjection, f

(* _services_text: of the services only those asked for have a block.      *)
LEMMA ServicesTextFacts ==
    ASSUME NEW lines, Tidy(lines), NEW rows, DOMAIN rows \subseteq Services,
           \A s \in DOMAIN rows : rows[s] \in RowsOf(s)
    PROVE  /\ Tidy(ServicesText(lines, rows)) /\ UserLines(ServicesText(lines, rows)) = UserLines(lines)
           /\ BlocksOf(ServicesText(lines, rows)) \cap Services \subseteq DOMAIN rows
<1> DEFINE G == (BlocksOf(lines) \cap Services) \ DOMAIN rows
           gone == SetToSeq(G)
           none == [b \in Services |-> <<>>]
           set == SetToSeq(DOMAIN rows)
           without == SetBlocks(lines, gone, none)
<1>0. IsFiniteSet(G) /\ IsFiniteSet(DOMAIN rows) /\ Services \subseteq Names /\ G \subseteq Services
  <2>1. IsFiniteSet(Services)
    BY HostsAssumption
  <2>2. G \in SUBSET Services
    OBVIOUS
  <2>3. IsFiniteSet(G) /\ IsFiniteSet(DOMAIN rows)
    BY <2>1, <2>2, FS_Subset
  <2> QED BY <2>2, <2>3 DEF Names, Blocks
<1> HIDE DEF G
<1>1. gone \in Seq(G) /\ \A x \in G : \E i \in DOMAIN gone : gone[i] = x
  BY <1>0, ListOfSet
<1>2. set \in Seq(DOMAIN rows)
  BY <1>0, ListOfSet
<1>e. ServicesText(lines, rows) = SetBlocks(without, set, rows)
  BY DEF ServicesText, G
<1> HIDE DEF gone, set
<1>3. gone \in Seq(Names) /\ \A i \in DOMAIN gone : gone[i] \in Services
  BY <1>0, <1>1
<1>4. set \in Seq(Names) /\ \A i \in DOMAIN set : set[i] \in DOMAIN rows
  BY <1>0, <1>2
<1>n. \A s \in Services : none[s] = <<>>
  OBVIOUS
<1> HIDE DEF none
<1>5. Rewritten(lines, without, SetAfter(lines, gone, none, Len(gone)))
  <2>1. \A i \in DOMAIN gone : none[gone[i]] \in RowsOf(gone[i])
    BY <1>3, <1>n DEF RowsOf
  <2> QED BY <1>3, <2>1, SetBlocksFacts
<1>6. BlocksOf(without) \cap Services \subseteq DOMAIN rows
  <2> SUFFICES ASSUME NEW x \in BlocksOf(without), x \in Services PROVE x \in DOMAIN rows
    OBVIOUS
  <2>0. DOMAIN gone = 1 .. Len(gone)
    BY <1>3
  <2>1. x \in SetAfter(lines, gone, none, Len(gone))
    BY <1>5 DEF Rewritten
  <2>2. \A i \in DOMAIN gone : x # gone[i]
    BY <1>n, <2>0, <2>1 DEF SetAfter
  <2>3. x \in BlocksOf(lines)
    BY <2>0, <2>1, <2>2 DEF SetAfter
  <2>4. x \notin G
    BY <1>1, <2>2
  <2> QED BY <2>3, <2>4 DEF G
<1> HIDE DEF without
<1>7. Rewritten(without, SetBlocks(without, set, rows), SetAfter(without, set, rows, Len(set)))
  <2>1. \A i \in DOMAIN set : rows[set[i]] \in RowsOf(set[i])
    BY <1>4
  <2>2. Tidy(without)
    BY <1>5 DEF Rewritten
  <2> QED BY <1>4, <2>1, <2>2, SetBlocksFacts
<1>8. SetAfter(without, set, rows, Len(set)) \cap Services \subseteq DOMAIN rows
  <2>1. DOMAIN set = 1 .. Len(set)
    BY <1>4
  <2> QED BY <1>4, <1>6, <2>1 DEF SetAfter
<1> QED BY <1>e, <1>5, <1>7, <1>8 DEF Rewritten

(* The user's own edits: a line in front, at the end, or away.             *)
LEMMA InFrontFacts ==
    ASSUME NEW t, Tidy(t), NEW l \in LineRec, l.k = "user"
    PROVE  /\ Tidy(<<l>> \o t) /\ UserLines(<<l>> \o t) = <<l>> \o UserLines(t)
           /\ BlocksOf(<<l>> \o t) = BlocksOf(t)
<1> DEFINE u == <<l>> \o t
<1>0. t \in Seq(LineRec) /\ Len(t) \in Nat /\ DOMAIN t = 1 .. Len(t)
  BY DEF Tidy
<1>1. /\ u \in Seq(LineRec) /\ Len(u) = Len(t) + 1 /\ DOMAIN u = 1 .. Len(t) + 1
      /\ u[1] = l /\ \A i \in 1 .. Len(t) : u[i + 1] = t[i]
  BY <1>0
<1> HIDE DEF u
<1>2. ASSUME NEW i \in DOMAIN u, i # 1
      PROVE  i - 1 \in DOMAIN t /\ u[i] = t[i - 1] /\ (i - 1) + 1 = i
  <2>1. i - 1 \in 1 .. Len(t) /\ (i - 1) + 1 = i
    BY <1>0, <1>1, <1>2
  <2> QED BY <1>0, <1>1, <2>1
<1>3. ASSUME NEW i \in DOMAIN t
      PROVE  i + 1 \in DOMAIN u /\ u[i + 1] = t[i] /\ i + 1 # 1 /\ i \in Nat
  BY <1>0, <1>1
<1>4. UserLines(u) = <<l>> \o UserLines(t)
  <2>1. Users(u) = {1} \cup {i + 1 : i \in Users(t)}
    <3>1. \A i \in Users(u) : i = 1 \/ (i - 1 \in Users(t) /\ i = (i - 1) + 1)
      BY <1>2 DEF Users
    <3>2. 1 \in Users(u)
      BY <1>0, <1>1 DEF Users
    <3>3. \A i \in Users(t) : i + 1 \in Users(u)
      BY <1>3 DEF Users
    <3> QED BY <3>1, <3>2, <3>3
  <2>2. Users(t) \in SUBSET DOMAIN t
    BY DEF Users
  <2>3. InFront(l, t, Users(t), u, Users(u))
    BY <2>1 DEF u, InFront
  <2>4. Picked(u, Users(u)) = <<l>> \o Picked(t, Users(t))
    BY <1>0, <2>2, <2>3, PickedFront
  <2> QED BY <2>4 DEF UserLines, Users
<1>5. ASSUME NEW i \in DOMAIN u, u[i].k = "begin" PROVE i # 1 /\ Whole3(u, i)
  <2>1. i # 1
    BY <1>1, <1>5
  <2>2. i - 1 \in DOMAIN t /\ u[i] = t[i - 1] /\ (i - 1) + 1 = i
    BY <1>2, <2>1
  <2>3. Whole3(t, i - 1)
    BY <1>5, <2>2 DEF Tidy
  <2>4. i \in DOMAIN t /\ i + 1 \in DOMAIN t /\ t[i].k = "row" /\ t[i + 1] = Line("end", u[i].of)
        /\ u[i] = Line("begin", u[i].of) /\ i \in Nat
    <3>1. i \in Nat /\ (i - 1) + 1 = i /\ (i - 1) + 2 = i + 1
      BY <1>0, <2>2
    <3> QED BY <2>2, <2>3, <3>1 DEF Whole3
  <2>5. i + 1 \in DOMAIN u /\ u[i + 1] = t[i] /\ i + 2 \in DOMAIN u /\ u[i + 2] = t[i + 1]
    <3>1. (i + 1) + 1 = i + 2
      BY <2>4
    <3>2. (i + 1) + 1 \in DOMAIN u /\ u[(i + 1) + 1] = t[i + 1]
      BY <1>3, <2>4
    <3> QED BY <1>3, <2>4, <3>1, <3>2
  <2> QED BY <2>1, <2>4, <2>5 DEF Whole3
<1>6. Tidy(u)
  <2>1. ASSUME NEW i \in DOMAIN u, NEW n \in DOMAIN u,
               u[i].k = "begin" /\ u[n].k = "begin" /\ u[i].of = u[n].of
        PROVE  i = n
    <3>1. i - 1 = n - 1
      BY <1>2, <1>5, <2>1 DEF Tidy
    <3>2. (i - 1) + 1 = i /\ (n - 1) + 1 = n
      BY <1>2, <1>5, <2>1
    <3> QED BY <3>1, <3>2
  <2> QED BY <1>1, <1>5, <2>1 DEF Tidy
<1>7. BlocksOf(u) = BlocksOf(t)
  <2>1. \A i \in DOMAIN u : u[i].k = "begin" => \E n \in DOMAIN t : t[n].k = "begin" /\ t[n].of = u[i].of
    BY <1>2, <1>5
  <2>2. \A i \in DOMAIN t : t[i].k = "begin" => \E n \in DOMAIN u : u[n].k = "begin" /\ u[n].of = t[i].of
    BY <1>3
  <2> QED BY <2>1, <2>2 DEF BlocksOf
<1> QED BY <1>4, <1>6, <1>7 DEF u

LEMMA AtEndFacts ==
    ASSUME NEW t, Tidy(t), NEW l \in LineRec, l.k = "user"
    PROVE  /\ Tidy(Append(t, l)) /\ UserLines(Append(t, l)) = Append(UserLines(t), l)
           /\ BlocksOf(Append(t, l)) = BlocksOf(t)
<1> DEFINE u == Append(t, l)
<1>0. t \in Seq(LineRec) /\ Len(t) \in Nat /\ DOMAIN t = 1 .. Len(t)
  BY DEF Tidy
<1>1. /\ u \in Seq(LineRec) /\ Len(u) = Len(t) + 1 /\ DOMAIN u = 1 .. Len(t) + 1
      /\ u[Len(t) + 1] = l /\ \A i \in 1 .. Len(t) : u[i] = t[i]
  BY <1>0
<1> HIDE DEF u
<1>2. \A i \in DOMAIN u : i # Len(t) + 1 => i \in DOMAIN t /\ u[i] = t[i]
  BY <1>0, <1>1
<1>3. \A i \in DOMAIN t : i \in DOMAIN u /\ u[i] = t[i] /\ i # Len(t) + 1
  BY <1>0, <1>1
<1>4. UserLines(u) = Append(UserLines(t), l)
  <2>1. Users(u) = Users(t) \cup {Len(t) + 1}
    <3>1. \A i \in Users(u) : i = Len(t) + 1 \/ i \in Users(t)
      BY <1>2 DEF Users
    <3>2. Len(t) + 1 \in Users(u)
      BY <1>0, <1>1 DEF Users
    <3>3. \A i \in Users(t) : i \in Users(u)
      BY <1>3 DEF Users
    <3> QED BY <3>1, <3>2, <3>3
  <2>2. Users(t) \in SUBSET DOMAIN t
    BY DEF Users
  <2>3. AtEnd(l, t, Users(t), u, Users(u))
    BY <2>1 DEF u, AtEnd
  <2>4. Followed(Picked(t, Users(t)), l, Picked(u, Users(u)))
    BY <1>0, <2>2, <2>3, PickedEnd
  <2> QED BY <2>4 DEF Followed, UserLines, Users
<1>5. \A i \in DOMAIN u : u[i].k = "begin" => i \in DOMAIN t /\ u[i] = t[i]
  BY <1>1, <1>2
<1>6. Tidy(u)
  <2>1. ASSUME NEW i \in DOMAIN u, u[i].k = "begin" PROVE Whole3(u, i)
    <3>1. Whole3(t, i) /\ u[i] = t[i]
      BY <1>5, <2>1 DEF Tidy
    <3> QED BY <1>3, <3>1 DEF Whole3
  <2>2. ASSUME NEW i \in DOMAIN u, NEW n \in DOMAIN u,
               u[i].k = "begin" /\ u[n].k = "begin" /\ u[i].of = u[n].of
        PROVE  i = n
    BY <1>5, <2>2 DEF Tidy
  <2> QED BY <1>1, <2>1, <2>2 DEF Tidy
<1>7. BlocksOf(u) = BlocksOf(t)
  <2>1. \A i \in DOMAIN u : u[i].k = "begin" => \E n \in DOMAIN t : t[n].k = "begin" /\ t[n].of = u[i].of
    BY <1>5
  <2>2. \A i \in DOMAIN t : t[i].k = "begin" => \E n \in DOMAIN u : u[n].k = "begin" /\ u[n].of = t[i].of
    BY <1>3
  <2> QED BY <2>1, <2>2 DEF BlocksOf
<1> QED BY <1>4, <1>6, <1>7 DEF u

LEMMA Joined ==
    ASSUME NEW S, NEW x \in Seq(S), NEW y \in Seq(S)
    PROVE  /\ x \o y \in Seq(S) /\ Len(x \o y) = Len(x) + Len(y)
           /\ \A i \in 1 .. Len(x \o y) : (x \o y)[i] = IF i <= Len(x) THEN x[i] ELSE y[i - Len(x)]
OBVIOUS

LEMMA LineGoneFacts ==
    ASSUME NEW t, Tidy(t), NEW g \in DOMAIN t, t[g].k = "user"
    PROVE  Tidy(RemoveAt(t, g)) /\ BlocksOf(RemoveAt(t, g)) \subseteq BlocksOf(t)
<1> DEFINE u == RemoveAt(t, g)
           was(i) == IF i < g THEN i ELSE i + 1
<1>0. t \in Seq(LineRec) /\ Len(t) \in Nat /\ DOMAIN t = 1 .. Len(t) /\ g \in 1 .. Len(t)
  BY DEF Tidy
<1>1. /\ u \in Seq(LineRec) /\ Len(u) = Len(t) - 1 /\ DOMAIN u = 1 .. Len(t) - 1
      /\ \A i \in DOMAIN u : u[i] = t[was(i)]
  <2> DEFINE x == SubSeq(t, 1, g - 1)
             y == SubSeq(t, g + 1, Len(t))
  <2>1. x \in Seq(LineRec) /\ Len(x) = g - 1 /\ \A i \in 1 .. g - 1 : x[i] = t[i]
    BY <1>0
  <2>2. y \in Seq(LineRec) /\ Len(y) = Len(t) - g /\ \A i \in 1 .. Len(t) - g : y[i] = t[g + i]
    BY <1>0
  <2>3. u = x \o y
    BY DEF RemoveAt
  <2> HIDE DEF x, y, u
  <2>c. u \in Seq(LineRec) /\ Len(u) = Len(x) + Len(y)
        /\ \A i \in 1 .. Len(u) : u[i] = IF i <= Len(x) THEN x[i] ELSE y[i - Len(x)]
    BY <2>1, <2>2, <2>3, Joined
  <2>4. u \in Seq(LineRec) /\ Len(u) = Len(t) - 1 /\ DOMAIN u = 1 .. Len(t) - 1
    <3>1. Len(u) = Len(t) - 1
      BY <1>0, <2>1, <2>2, <2>c
    <3>2. DOMAIN u = 1 .. Len(u)
      BY <2>c
    <3> QED BY <2>c, <3>1, <3>2
  <2>5. ASSUME NEW i \in DOMAIN u PROVE u[i] = t[was(i)]
    <3>1. u[i] = IF i <= g - 1 THEN x[i] ELSE y[i - (g - 1)]
      <4>1. i \in 1 .. Len(u)
        BY <2>4
      <4> QED BY <2>1, <2>c, <4>1
    <3>2. CASE i < g
      BY <1>0, <2>1, <2>4, <3>1, <3>2
    <3>3. CASE ~(i < g)
      <4>1. i - (g - 1) \in 1 .. Len(t) - g /\ g + (i - (g - 1)) = i + 1
        BY <1>0, <2>4, <3>3
      <4>2. u[i] = y[i - (g - 1)]
        BY <1>0, <2>4, <3>1, <3>3
      <4> QED BY <2>2, <3>3, <4>1, <4>2
    <3> QED BY <3>2, <3>3
  <2> QED BY <2>4, <2>5
<1> HIDE DEF u
<1>2. ASSUME NEW i \in DOMAIN u PROVE was(i) \in DOMAIN t /\ was(i) # g /\ i \in Nat
  BY <1>0, <1>1
<1>3. ASSUME NEW i \in DOMAIN u, u[i].k = "begin" PROVE Whole3(u, i) /\ t[was(i)] = u[i]
  <2>0. t[was(i)] = u[i] /\ was(i) \in DOMAIN t /\ i \in Nat
    BY <1>1, <1>2
  <2>1. Whole3(t, was(i))
    BY <1>3, <2>0 DEF Tidy
  <2>2. /\ t[was(i)] = Line("begin", u[i].of)
        /\ was(i) + 1 \in DOMAIN t /\ was(i) + 2 \in DOMAIN t
        /\ t[was(i) + 1].k = "row" /\ t[was(i) + 2] = Line("end", u[i].of) /\ t[was(i) + 2].k = "end"
    BY <2>0, <2>1 DEF Whole3, Line
  <2>3. was(i) + 1 # g /\ was(i) + 2 # g
    BY <2>2
  <2>4. /\ i + 1 \in DOMAIN u /\ i + 2 \in DOMAIN u
        /\ was(i + 1) = was(i) + 1 /\ was(i + 2) = was(i) + 2
    BY <1>0, <1>1, <2>0, <2>2, <2>3
  <2> HIDE DEF was
  <2> QED BY <1>1, <2>0, <2>2, <2>4 DEF Whole3
<1>4. Tidy(u)
  <2>1. ASSUME NEW i \in DOMAIN u, NEW n \in DOMAIN u,
               u[i].k = "begin" /\ u[n].k = "begin" /\ u[i].of = u[n].of
        PROVE  i = n
    <3>1. was(i) \in DOMAIN t /\ was(n) \in DOMAIN t /\ t[was(i)] = u[i] /\ t[was(n)] = u[n] /\ i \in Nat /\ n \in Nat
      BY <1>1, <1>2
    <3>2. was(i) = was(n)
      <4> HIDE DEF was
      <4> QED BY <2>1, <3>1 DEF Tidy
    <3> QED BY <1>0, <3>1, <3>2
  <2> QED BY <1>1, <1>3, <2>1 DEF Tidy
<1>5. BlocksOf(u) \subseteq BlocksOf(t)
  <2>1. \A i \in DOMAIN u : u[i].k = "begin" => \E n \in DOMAIN t : t[n].k = "begin" /\ t[n].of = u[i].of
    BY <1>2, <1>3
  <2> QED BY <2>1 DEF BlocksOf
<1> QED BY <1>4, <1>5 DEF u

(* The files that do not come from 2Wings.                                 *)
LEMMA PlainIsTidy ==
    ASSUME NEW t \in {HostsFound, DefaultHosts, <<>>}
    PROVE  Tidy(t) /\ BlocksOf(t) = {}
<1>1. CASE t = <<>>
  <2>1. t \in Seq(LineRec) /\ DOMAIN t = {}
    BY <1>1
  <2> QED BY <2>1 DEF Tidy, BlocksOf
<1>2. CASE t \in {HostsFound, DefaultHosts}
  <2>1. t \in Seq([k : {"user", "blank"}, of : STRING, at : {0}])
    BY <1>2, HostsAssumption DEF HostsAssumption
  <2>2. Len(t) \in Nat /\ DOMAIN t = 1 .. Len(t) /\ t = [i \in 1 .. Len(t) |-> t[i]]
    BY <2>1
  <2>3. ASSUME NEW i \in DOMAIN t PROVE t[i] \in LineRec /\ t[i].k # "begin"
    <3> DEFINE S == [k : {"user", "blank"}, of : STRING, at : {0}]
    <3>1. t[i] \in S
      <4>1. t \in Seq(S)
        BY <2>1
      <4> HIDE DEF S
      <4> QED BY <4>1
    <3>2. t[i].of \in Names
      BY <1>2 DEF Names
    <3> QED BY <3>1, <3>2 DEF LineRec
  <2>4. t \in Seq(LineRec)
    BY <2>2, <2>3
  <2> QED BY <2>3, <2>4 DEF Tidy, BlocksOf
<1> QED BY <1>1, <1>2

(* With one job of the page at a time, what a job holds fits the file it   *)
(* has read: what it writes has the lines of the user that are in the file *)
(* now, and only blocks of services that are chosen, or will be.           *)
OneJob == \A j, k \in HJobs : j = k
Askers == {"services", "refresh"}
Restores == {"default", "backup"}
Later(op, sel) == IF op \in Restores THEN {} ELSE sel
Wanted(op, sel) == IF op = "preset" THEN choice ELSE Later(op, sel)
TextFits(op, sel, text) ==
    /\ Tidy(text) /\ BlocksOf(text) \cap Services \subseteq Wanted(op, sel)
    /\ op \notin Restores => UserLines(text) = mine
Job(op, pc, sel, rows, text, current) ==
    [op |-> op, pc |-> pc, sel |-> sel, rows |-> rows, text |-> text, current |-> current]
JobKept(w) ==
    /\ w = Job(w.op, w.pc, w.sel, w.rows, w.text, w.current)
    /\ w.current \in Nat /\ w.current <= Active /\ (w.pc = "fetch" => w.current = Active)
    /\ w.pc \in {"fetch", "ask"} => w.op \in Askers
    /\ w.op = "preset" => w.pc # "save" /\ \E b \in Presets : w.sel = {b}
    /\ w.op \in Askers => w.sel \subseteq Services
    /\ w.pc = "read" /\ w.op \in Askers => DOMAIN w.rows = w.sel /\ \A s \in w.sel : w.rows[s] \in RowsOf(s)
    /\ w.pc \in {"write", "fill"} => TextFits(w.op, w.sel, w.text)
    /\ w.pc = "fill" => backup # NoBackup
    /\ w.pc = "save" => BlocksOf(hosts) \cap Services \subseteq Later(w.op, w.sel)
    /\ w.pc # "idle" => w.op \in {"preset"} \cup Askers \cup Restores

CatalogKept == catalog = [cached |-> catalog.cached, due |-> catalog.due] /\ catalog.cached \in Nat
FileKept ==
    /\ Tidy(hosts) /\ backup = first /\ choice \subseteq Services
    /\ IF backup = NoBackup THEN BlocksOf(hosts) \cap Services = {}
       ELSE Tidy(backup) /\ BlocksOf(backup) \cap Services = {}
UsersKept == (\A j \in HJobs : hjob[j].pc # "fill") => UserLines(hosts) = mine
ChoiceKept == (\A j \in HJobs : hjob[j].pc # "save") => BlocksOf(hosts) \cap Services \subseteq choice
HostsInv ==
    /\ hjob = [j \in HJobs |-> hjob[j]] /\ \A j \in HJobs : JobKept(hjob[j])
    /\ CatalogKept /\ FileKept /\ UsersKept /\ ChoiceKept

LEMMA HostsInitInv == HostsInit => HostsInv
<1> SUFFICES ASSUME HostsInit PROVE HostsInv
  OBVIOUS
<1>1. Tidy(HostsFound) /\ BlocksOf(HostsFound) = {}
  BY PlainIsTidy
<1>2. \A j \in HJobs : hjob[j] = Job("none", "idle", {}, <<>>, <<>>, 0)
  BY DEF HostsInit, HIdle, Job
<1>3. CatalogKept /\ catalog.cached = 0
  BY DEF HostsInit, CatalogKept
<1>4. ASSUME NEW j \in HJobs PROVE JobKept(hjob[j])
  <2>1. Active \in Nat /\ 0 <= Active
    BY <1>3 DEF Active
  <2> HIDE DEF Active
  <2> QED BY <1>2, <2>1 DEF JobKept, Job, Askers
<1> QED BY <1>1, <1>2, <1>3, <1>4 DEF HostsInit, HostsInv, FileKept, UsersKept, ChoiceKept

(* How a job's record changes. *)
LEMMA JobBecomes ==
    ASSUME OneJob, HostsInv, NEW j \in HJobs
    PROVE  /\ hjob[j] = Job(hjob[j].op, hjob[j].pc, hjob[j].sel, hjob[j].rows, hjob[j].text, hjob[j].current)
           /\ \A pc : HostsGo(j, pc) => hjob' = [k \in HJobs |->
                 Job(hjob[j].op, pc, hjob[j].sel, hjob[j].rows, hjob[j].text, hjob[j].current)]
           /\ \A text, pc : ReadText(j, text, pc) => hjob' = [k \in HJobs |->
                 Job(hjob[j].op, pc, hjob[j].sel, hjob[j].rows, text, hjob[j].current)]
           /\ EndHosts(j) => hjob' = [k \in HJobs |-> Job("none", "idle", {}, <<>>, <<>>, 0)]
<1>1. hjob = [k \in HJobs |-> hjob[k]] /\ \A k \in HJobs : k = j
  BY DEF HostsInv, OneJob
<1>2. hjob[j] = Job(hjob[j].op, hjob[j].pc, hjob[j].sel, hjob[j].rows, hjob[j].text, hjob[j].current)
  BY DEF HostsInv, JobKept
<1>4. ASSUME NEW pc, HostsGo(j, pc)
      PROVE  hjob' = [k \in HJobs |-> Job(hjob[j].op, pc, hjob[j].sel, hjob[j].rows, hjob[j].text, hjob[j].current)]
  <2>1. hjob' = [hjob EXCEPT ![j] = [hjob[j] EXCEPT !.pc = pc]]
    BY <1>4 DEF HostsGo
  <2>2. [hjob[j] EXCEPT !.pc = pc] = Job(hjob[j].op, pc, hjob[j].sel, hjob[j].rows, hjob[j].text, hjob[j].current)
    BY <1>2 DEF Job
  <2> QED BY <1>1, <2>1, <2>2
<1>5. ASSUME NEW text, NEW pc, ReadText(j, text, pc)
      PROVE  hjob' = [k \in HJobs |-> Job(hjob[j].op, pc, hjob[j].sel, hjob[j].rows, text, hjob[j].current)]
  <2>1. hjob' = [hjob EXCEPT ![j] = [hjob[j] EXCEPT !.text = text, !.pc = pc]]
    BY <1>1, <1>5 DEF ReadText
  <2>2. [hjob[j] EXCEPT !.text = text, !.pc = pc] = Job(hjob[j].op, pc, hjob[j].sel, hjob[j].rows, text, hjob[j].current)
    <3> DEFINE v == hjob[j]
               w == [v EXCEPT !.text = text]
    <3>1. v = Job(v.op, v.pc, v.sel, v.rows, v.text, v.current)
      BY <1>2
    <3> HIDE DEF v
    <3>2. w = Job(v.op, v.pc, v.sel, v.rows, text, v.current)
      BY <3>1 DEF Job
    <3> HIDE DEF w
    <3>3. [w EXCEPT !.pc = pc] = Job(v.op, pc, v.sel, v.rows, text, v.current)
      BY <3>2 DEF Job
    <3>4. [v EXCEPT !.text = text, !.pc = pc] = [w EXCEPT !.pc = pc]
      BY DEF w
    <3> QED BY <3>3, <3>4 DEF v
  <2> QED BY <1>1, <2>1, <2>2
<1>6. ASSUME EndHosts(j) PROVE hjob' = [k \in HJobs |-> Job("none", "idle", {}, <<>>, <<>>, 0)]
  BY <1>1, <1>6 DEF EndHosts, HIdle, Job
<1> QED BY <1>2, <1>4, <1>5, <1>6

(* A step of a job that leaves the file alone. *)
LEMMA FileAlone ==
    ASSUME OneJob, HostsInv, NEW j \in HJobs, hjob[j].pc \notin {"fill", "save"},
           UNCHANGED <<hosts, backup, choice, mine, first>>, CatalogKept',
           NEW w, hjob' = [k \in HJobs |-> w], JobKept(hjob[j])'
    PROVE  HostsInv'
<1>1. \A k \in HJobs : k = j /\ hjob'[k] = w
  BY DEF OneJob
<1>2. hjob' = [k \in HJobs |-> hjob'[k]] /\ \A k \in HJobs : JobKept(hjob[k])'
  BY <1>1
<1>3. FileKept'
  BY DEF HostsInv, FileKept
<1>4. UserLines(hosts) = mine /\ BlocksOf(hosts) \cap Services \subseteq choice
  BY <1>1 DEF HostsInv, UsersKept, ChoiceKept
<1>5. UsersKept' /\ ChoiceKept'
  BY <1>4 DEF UsersKept, ChoiceKept
<1> QED BY <1>2, <1>3, <1>5 DEF HostsInv

LEMMA BeginKeeps ==
    ASSUME OneJob, HostsInv, NEW j \in HJobs,
           \/ \E b \in Presets : BeginPreset(j, b)
           \/ \E sel \in SUBSET Services : BeginServices(j, sel)
           \/ \E op \in Restores : BeginRestore(j, op)
           \/ \E force \in BOOLEAN : BeginRefresh(j, force)
    PROVE  HostsInv'
<1>1. PICK op, sel, pc : /\ Begin(j, op, sel, pc)
                         /\ \/ op = "preset" /\ pc = "read" /\ \E b \in Presets : sel = {b}
                            \/ op = "services" /\ pc = "ask" /\ sel \subseteq Services
                            \/ op \in Restores /\ pc = "read"
                            \/ op = "refresh" /\ pc = "fetch" /\ sel = {}
  BY DEF BeginPreset, BeginServices, BeginRestore, BeginRefresh
<1>2. hjob' = [k \in HJobs |-> Job(op, pc, sel, <<>>, <<>>, Active)]
  <2>1. [HIdle EXCEPT !.op = op, !.sel = sel, !.pc = pc, !.current = Active] = Job(op, pc, sel, <<>>, <<>>, Active)
    <3> DEFINE r0 == HIdle
               r1 == [r0 EXCEPT !.op = op]
               r2 == [r1 EXCEPT !.sel = sel]
               r3 == [r2 EXCEPT !.pc = pc]
               none == "none"
               idle == "idle"
               nothing == {}
               list == <<>>
               zero == 0
    <3>0. r0 = Job(none, idle, nothing, list, list, zero)
      BY DEF HIdle, Job
    <3>l. list = <<>>
      OBVIOUS
    <3> HIDE DEF r0, none, idle, nothing, list, zero
    <3>1. r1 = Job(op, idle, nothing, list, list, zero)
      BY <3>0 DEF Job
    <3> HIDE DEF r1
    <3>2. r2 = Job(op, idle, sel, list, list, zero)
      BY <3>1 DEF Job
    <3> HIDE DEF r2
    <3>3. r3 = Job(op, pc, sel, list, list, zero)
      BY <3>2 DEF Job
    <3> HIDE DEF r3
    <3>4. [r3 EXCEPT !.current = Active] = Job(op, pc, sel, list, list, Active)
      BY <3>3 DEF Job
    <3>5. [HIdle EXCEPT !.op = op, !.sel = sel, !.pc = pc, !.current = Active] = [r3 EXCEPT !.current = Active]
      BY DEF r0, r1, r2, r3
    <3> QED BY <3>4, <3>5, <3>l
  <2>2. hjob' = [hjob EXCEPT ![j] = Job(op, pc, sel, <<>>, <<>>, Active)]
    BY <1>1, <2>1 DEF Begin
  <2>3. hjob = [k \in HJobs |-> hjob[k]] /\ \A k \in HJobs : k = j
    BY DEF HostsInv, OneJob
  <2> QED BY <2>2, <2>3
<1>3. /\ hjob[j].pc \notin {"fill", "save"} /\ UNCHANGED <<hosts, backup, choice, catalog, mine, first>>
  BY <1>1 DEF Begin
<1>4. CatalogKept' /\ Active' = Active /\ Active \in Nat
  BY <1>3 DEF HostsInv, CatalogKept, Active
<1> HIDE DEF Active
<1>5. JobKept(hjob[j])'
  <2>1. hjob'[j] = Job(op, pc, sel, <<>>, <<>>, Active)
    BY <1>2
  <2> QED BY <1>1, <1>4, <2>1 DEF JobKept, Job, Askers, Restores
<1> QED BY <1>2, <1>3, <1>4, <1>5, FileAlone

LEMMA JobGivesUp ==
    ASSUME OneJob, HostsInv, NEW j \in HJobs, hjob[j].pc \notin {"fill", "save"}, EndHosts(j),
           UNCHANGED <<hosts, backup, choice, mine, first>>, CatalogKept'
    PROVE  HostsInv'
<1>1. hjob' = [k \in HJobs |-> Job("none", "idle", {}, <<>>, <<>>, 0)]
  BY JobBecomes
<1>2. JobKept(hjob[j])'
  <2>1. hjob'[j] = Job("none", "idle", {}, <<>>, <<>>, 0)
    BY <1>1
  <2>2. Active' \in Nat /\ 0 <= Active'
    BY DEF CatalogKept, Active
  <2> HIDE DEF Active
  <2> QED BY <2>1, <2>2 DEF JobKept, Job, Askers
<1> QED BY <1>1, <1>2, FileAlone

(* What a job takes from the file before it writes.                        *)
LEMMA ReadKeeps ==
    ASSUME OneJob, HostsInv, NEW j \in HJobs, hjob[j].pc = "read",
           NEW text, NEW pc, ReadText(j, text, pc),
           UNCHANGED <<hosts, backup, choice, catalog, mine, first>>,
           TextFits(hjob[j].op, hjob[j].sel, text),
           pc = "write" \/ (pc = "save" /\ text = hosts /\ hjob[j].op # "preset")
    PROVE  HostsInv'
<1>1. /\ JobKept(hjob[j])
      /\ hjob' = [k \in HJobs |-> Job(hjob[j].op, pc, hjob[j].sel, hjob[j].rows, text, hjob[j].current)]
  BY JobBecomes DEF HostsInv
<1>2. CatalogKept' /\ Active' = Active
  BY DEF HostsInv, CatalogKept, Active
<1>3. hjob'[j] = Job(hjob[j].op, pc, hjob[j].sel, hjob[j].rows, text, hjob[j].current)
  BY <1>1
<1>4. /\ hjob'[j].op = hjob[j].op /\ hjob'[j].pc = pc /\ hjob'[j].sel = hjob[j].sel
      /\ hjob'[j].rows = hjob[j].rows /\ hjob'[j].text = text /\ hjob'[j].current = hjob[j].current
  BY <1>3 DEF Job
<1>5. JobKept(hjob[j])'
  <2>1. TextFits(hjob[j].op, hjob[j].sel, hjob[j].text)'
    BY <1>4 DEF TextFits, Wanted
  <2>2. pc = "save" => BlocksOf(hosts) \cap Services \subseteq Later(hjob[j].op, hjob[j].sel)
    BY DEF TextFits, Wanted
  <2>3. (hjob[j] = Job(hjob[j].op, hjob[j].pc, hjob[j].sel, hjob[j].rows, hjob[j].text, hjob[j].current))'
    BY <1>3, <1>4
  <2> HIDE DEF Active
  <2> QED BY <1>1, <1>2, <1>4, <2>1, <2>2, <2>3 DEF JobKept
<1> QED BY <1>1, <1>2, <1>5, FileAlone

LEMMA ReadPresetKeeps ==
    ASSUME OneJob, HostsInv, NEW j \in HJobs, ReadPreset(j)
    PROVE  HostsInv'
<1> DEFINE b == CHOOSE x \in hjob[j].sel : TRUE
           rows == IF b \in BlocksOf(hosts) THEN <<>> ELSE <<Row(b, 0)>>
<1>1. b \in Presets /\ b \notin Services /\ b \in Names
  <2>1. PICK x \in Presets : hjob[j].sel = {x}
    BY DEF HostsInv, JobKept, ReadPreset
  <2>2. b \in Presets
    BY <2>1
  <2> QED BY <2>2, HostsAssumption DEF HostsAssumption, Names, Blocks
<1>2. /\ ReadText(j, SetBlock(hosts, b, rows), "write")
      /\ hjob[j].op = "preset" /\ hjob[j].pc = "read" /\ UNCHANGED <<hosts, backup, choice, catalog, mine, first>>
  BY DEF ReadPreset
<1> HIDE DEF b
<1>3. rows \in RowsOf(b)
  BY DEF RowsOf
<1> HIDE DEF rows
<1>4. UserLines(hosts) = mine /\ BlocksOf(hosts) \cap Services \subseteq choice /\ Tidy(hosts)
  BY <1>2 DEF OneJob, HostsInv, UsersKept, ChoiceKept, FileKept
<1>5. TextFits("preset", hjob[j].sel, SetBlock(hosts, b, rows))
  <2>1. Rewritten(hosts, SetBlock(hosts, b, rows),
                  (BlocksOf(hosts) \ {b}) \cup (IF rows = <<>> THEN {} ELSE {b}))
    BY <1>1, <1>3, <1>4, SetBlockFacts
  <2> QED BY <1>1, <1>4, <2>1 DEF TextFits, Wanted, Rewritten
<1> QED BY <1>2, <1>5, ReadKeeps

LEMMA ReadRestoreKeeps ==
    ASSUME OneJob, HostsInv, NEW j \in HJobs, ReadRestore(j)
    PROVE  HostsInv'
<1>1. /\ hjob[j].op \in Restores /\ hjob[j].pc = "read" /\ UNCHANGED <<hosts, backup, choice, catalog, mine, first>>
  BY DEF ReadRestore, Restores
<1>2. ASSUME NEW text, Tidy(text), BlocksOf(text) \cap Services = {}, ReadText(j, text, "write")
      PROVE  HostsInv'
  <2>1. TextFits(hjob[j].op, hjob[j].sel, text)
    BY <1>1, <1>2 DEF TextFits, Wanted, Later, Restores
  <2> QED BY <1>1, <1>2, <2>1, ReadKeeps
<1>3. CASE hjob[j].op = "default"
  <2>1. ReadText(j, DefaultHosts, "write")
    BY <1>3 DEF ReadRestore
  <2>2. Tidy(DefaultHosts) /\ BlocksOf(DefaultHosts) = {}
    BY PlainIsTidy
  <2> QED BY <1>2, <2>1, <2>2
<1>4. CASE hjob[j].op = "backup" /\ backup = NoBackup
  <2>1. EndHosts(j)
    BY <1>4 DEF ReadRestore
  <2>2. CatalogKept'
    BY <1>1 DEF HostsInv, CatalogKept
  <2> QED BY <1>1, <2>1, <2>2, JobGivesUp
<1>5. CASE hjob[j].op = "backup" /\ backup # NoBackup
  <2>1. ReadText(j, backup, "write")
    BY <1>5 DEF ReadRestore
  <2>2. Tidy(backup) /\ BlocksOf(backup) \cap Services = {}
    BY <1>5 DEF HostsInv, FileKept
  <2> QED BY <1>2, <2>1, <2>2
<1> QED BY <1>1, <1>3, <1>4, <1>5 DEF Restores

LEMMA ReadServicesKeeps ==
    ASSUME OneJob, HostsInv, NEW j \in HJobs, ReadServices(j)
    PROVE  HostsInv'
<1> DEFINE text == ServicesText(hosts, hjob[j].rows)
<1>1. /\ hjob[j].op \in Askers /\ hjob[j].pc = "read" /\ UNCHANGED <<hosts, backup, choice, catalog, mine, first>>
      /\ ReadText(j, text, IF text = hosts THEN "save" ELSE "write")
  BY DEF ReadServices, Askers
<1>2. /\ hjob[j].sel \subseteq Services /\ DOMAIN hjob[j].rows = hjob[j].sel
      /\ \A s \in hjob[j].sel : hjob[j].rows[s] \in RowsOf(s)
  BY <1>1 DEF HostsInv, JobKept
<1>3. UserLines(hosts) = mine /\ Tidy(hosts)
  BY <1>1 DEF OneJob, HostsInv, UsersKept, FileKept
<1>4. Tidy(text) /\ UserLines(text) = UserLines(hosts) /\ BlocksOf(text) \cap Services \subseteq hjob[j].sel
  BY <1>2, <1>3, ServicesTextFacts
<1>5. TextFits(hjob[j].op, hjob[j].sel, text)
  BY <1>1, <1>3, <1>4 DEF TextFits, Wanted, Later, Askers, Restores
<1> HIDE DEF text
<1>6. hjob[j].op # "preset"
  BY <1>1 DEF Askers
<1> QED BY <1>1, <1>5, <1>6, ReadKeeps

LEMMA FetchedKeeps ==
    ASSUME OneJob, HostsInv, NEW j \in HJobs, NEW v \in 1 .. MaxCatalog, Fetched(j, v)
    PROVE  HostsInv'
<1>1. /\ hjob[j].pc = "fetch" /\ UNCHANGED <<hosts, backup, choice, mine, first>>
      /\ catalog' = [cached |-> IF v > hjob[j].current THEN v ELSE catalog.cached, due |-> FALSE]
      /\ JobKept(hjob[j])
  BY DEF Fetched, HostsInv
<1>2. hjob[j].current = Active /\ hjob[j].current \in Nat /\ catalog.cached \in Nat
  BY <1>1 DEF JobKept, HostsInv, CatalogKept
<1>3. CatalogKept'
  BY <1>1, <1>2 DEF CatalogKept
<1>4. Active' \in Nat /\ hjob[j].current <= Active'
  <2>1. catalog'.cached = IF v > hjob[j].current THEN v ELSE catalog.cached
    BY <1>1
  <2> QED BY <1>2, <2>1 DEF Active
<1> HIDE DEF Active
<1>5. CASE choice = {}
  <2>1. EndHosts(j)
    BY <1>5 DEF Fetched
  <2> QED BY <1>1, <1>3, <2>1, JobGivesUp
<1>6. CASE choice # {}
  <2> DEFINE v0 == hjob[j]
             w == Job(v0.op, "ask", choice, v0.rows, v0.text, v0.current)
  <2>1. hjob' = [k \in HJobs |-> w]
    <3>1. hjob' = [hjob EXCEPT ![j] = [v0 EXCEPT !.pc = "ask", !.sel = choice]]
      <4>1. hjob = [k \in HJobs |-> hjob[k]]
        BY DEF HostsInv
      <4> QED BY <1>6, <4>1 DEF Fetched
    <3>2. [v0 EXCEPT !.pc = "ask", !.sel = choice] = w
      <4> DEFINE r == [v0 EXCEPT !.pc = "ask"]
      <4>1. v0 = Job(v0.op, v0.pc, v0.sel, v0.rows, v0.text, v0.current)
        BY <1>1 DEF JobKept
      <4> HIDE DEF v0
      <4>2. r = Job(v0.op, "ask", v0.sel, v0.rows, v0.text, v0.current)
        BY <4>1 DEF Job
      <4> HIDE DEF r
      <4>3. [r EXCEPT !.sel = choice] = w
        BY <4>2 DEF Job
      <4>4. [v0 EXCEPT !.pc = "ask", !.sel = choice] = [r EXCEPT !.sel = choice]
        BY DEF r
      <4> QED BY <4>3, <4>4
    <3>3. hjob = [k \in HJobs |-> hjob[k]] /\ \A k \in HJobs : k = j
      BY DEF HostsInv, OneJob
    <3> HIDE DEF w
    <3> QED BY <3>1, <3>2, <3>3
  <2>2. JobKept(hjob[j])'
    <3>1. hjob'[j] = w
      BY <2>1
    <3>2. /\ hjob'[j].op = hjob[j].op /\ hjob'[j].pc = "ask" /\ hjob'[j].sel = choice
          /\ hjob'[j].rows = hjob[j].rows /\ hjob'[j].text = hjob[j].text /\ hjob'[j].current = hjob[j].current
      BY <3>1 DEF Job
    <3>3. (hjob[j] = Job(hjob[j].op, hjob[j].pc, hjob[j].sel, hjob[j].rows, hjob[j].text, hjob[j].current))'
      BY <3>1, <3>2
    <3>4. hjob[j].op \in Askers /\ choice \subseteq Services
      BY <1>1 DEF JobKept, HostsInv, FileKept
    <3> QED BY <1>2, <1>4, <3>2, <3>3, <3>4 DEF JobKept, Askers
  <2>3. hjob[j].pc \notin {"fill", "save"}
    BY <1>1
  <2> HIDE DEF w
  <2> QED BY <1>1, <1>3, <2>1, <2>2, <2>3, FileAlone
<1> QED BY <1>5, <1>6

LEMMA AskedKeeps ==
    ASSUME OneJob, HostsInv, NEW j \in HJobs, NEW alive, Asked(j, alive)
    PROVE  HostsInv'
<1> DEFINE v0 == hjob[j]
           rows == [s \in v0.sel |-> IF s \in alive THEN <<Row(s, Active)>> ELSE <<>>]
           w == Job(v0.op, "read", v0.sel, rows, v0.text, v0.current)
<1>1. hjob[j].pc = "ask" /\ UNCHANGED <<hosts, backup, choice, catalog, mine, first>> /\ JobKept(hjob[j])
  BY DEF Asked, HostsInv
<1>2. CatalogKept' /\ Active' = Active /\ Active \in Nat
  BY <1>1 DEF HostsInv, CatalogKept, Active
<1> HIDE DEF Active
<1>3. DOMAIN rows = v0.sel /\ \A s \in v0.sel : rows[s] \in RowsOf(s)
  BY <1>2 DEF RowsOf
<1>4. hjob' = [hjob EXCEPT ![j] = [v0 EXCEPT !.pc = "read", !.rows = rows]]
  <2>1. hjob = [k \in HJobs |-> hjob[k]]
    BY DEF HostsInv
  <2> QED BY <2>1 DEF Asked
<1> HIDE DEF rows
<1>5. [v0 EXCEPT !.pc = "read", !.rows = rows] = w
  <2> DEFINE r == [v0 EXCEPT !.pc = "read"]
  <2>1. v0 = Job(v0.op, v0.pc, v0.sel, v0.rows, v0.text, v0.current)
    BY <1>1 DEF JobKept
  <2> HIDE DEF v0
  <2>2. r = Job(v0.op, "read", v0.sel, v0.rows, v0.text, v0.current)
    BY <2>1 DEF Job
  <2> HIDE DEF r
  <2>3. [r EXCEPT !.rows = rows] = w
    BY <2>2 DEF Job
  <2>4. [v0 EXCEPT !.pc = "read", !.rows = rows] = [r EXCEPT !.rows = rows]
    BY DEF r
  <2> QED BY <2>3, <2>4
<1>6. hjob' = [k \in HJobs |-> w]
  <2>1. hjob = [k \in HJobs |-> hjob[k]] /\ \A k \in HJobs : k = j
    BY DEF HostsInv, OneJob
  <2> HIDE DEF w
  <2> QED BY <1>4, <1>5, <2>1
<1>7. JobKept(hjob[j])'
  <2>1. hjob'[j] = w
    BY <1>6
  <2>2. /\ hjob'[j].op = hjob[j].op /\ hjob'[j].pc = "read" /\ hjob'[j].sel = hjob[j].sel
        /\ hjob'[j].rows = rows /\ hjob'[j].text = hjob[j].text /\ hjob'[j].current = hjob[j].current
    BY <2>1 DEF Job
  <2>3. (hjob[j] = Job(hjob[j].op, hjob[j].pc, hjob[j].sel, hjob[j].rows, hjob[j].text, hjob[j].current))'
    BY <2>1, <2>2
  <2>4. hjob[j].op \in Askers
    BY <1>1 DEF JobKept
  <2> QED BY <1>1, <1>2, <1>3, <2>2, <2>3, <2>4 DEF JobKept, Askers
<1>8. hjob[j].pc \notin {"fill", "save"}
  BY <1>1
<1> HIDE DEF w
<1> QED BY <1>1, <1>2, <1>6, <1>7, <1>8, FileAlone

LEMMA TidyIsNoMark == ASSUME NEW t, Tidy(t) PROVE t # NoBackup
<1> DEFINE l == Line("none", "")
<1>1. NoBackup = <<l>> /\ l.k = "none"
  BY DEF NoBackup, Line
<1> HIDE DEF l
<1>2. l \notin LineRec
  BY <1>1 DEF LineRec
<1>3. t \in Seq(LineRec)
  BY DEF Tidy
<1>4. <<l>> \notin Seq(LineRec)
  <2>1. 1 \in DOMAIN <<l>> /\ <<l>>[1] = l
    OBVIOUS
  <2> QED BY <1>2, <2>1
<1> QED BY <1>1, <1>3, <1>4

LEMMA TruncateKeeps ==
    ASSUME OneJob, HostsInv, NEW j \in HJobs, Truncate(j)
    PROVE  HostsInv'
<1>1. /\ hjob[j].pc = "write" /\ hosts' = <<>> /\ UNCHANGED <<choice, catalog, mine>> /\ HostsGo(j, "fill")
      /\ backup' = (IF backup = NoBackup THEN hosts ELSE backup)
      /\ first' = (IF first = NoBackup THEN hosts ELSE first)
  BY DEF Truncate
<1>2. /\ hjob' = [k \in HJobs |-> Job(hjob[j].op, "fill", hjob[j].sel, hjob[j].rows, hjob[j].text, hjob[j].current)]
      /\ JobKept(hjob[j]) /\ \A k \in HJobs : k = j
  BY <1>1, JobBecomes DEF HostsInv, OneJob
<1>3. hjob'[j] = Job(hjob[j].op, "fill", hjob[j].sel, hjob[j].rows, hjob[j].text, hjob[j].current)
  BY <1>2
<1>4. /\ hjob'[j].op = hjob[j].op /\ hjob'[j].pc = "fill" /\ hjob'[j].sel = hjob[j].sel
      /\ hjob'[j].rows = hjob[j].rows /\ hjob'[j].text = hjob[j].text /\ hjob'[j].current = hjob[j].current
  BY <1>3 DEF Job
<1>5. CatalogKept' /\ Active' = Active
  BY <1>1 DEF HostsInv, CatalogKept, Active
<1>6. Tidy(hosts) /\ hosts # NoBackup
  BY TidyIsNoMark DEF HostsInv, FileKept
<1>7. Tidy(hosts') /\ BlocksOf(hosts') = {}
  BY <1>1, PlainIsTidy
<1>8. FileKept'
  <2>1. backup' # NoBackup /\ Tidy(backup') /\ BlocksOf(backup') \cap Services = {}
    BY <1>1, <1>6 DEF HostsInv, FileKept
  <2>2. backup' = first' /\ choice' \subseteq Services
    BY <1>1 DEF HostsInv, FileKept
  <2> QED BY <1>7, <2>1, <2>2 DEF FileKept
<1>9. UsersKept' /\ ChoiceKept'
  BY <1>4, <1>7 DEF UsersKept, ChoiceKept
<1>10. JobKept(hjob[j])'
  <2>1. TextFits(hjob[j].op, hjob[j].sel, hjob[j].text)'
    <3>1. TextFits(hjob[j].op, hjob[j].sel, hjob[j].text)
      BY <1>1, <1>2 DEF JobKept
    <3> QED BY <1>1, <1>4, <3>1 DEF TextFits, Wanted
  <2>2. (hjob[j] = Job(hjob[j].op, hjob[j].pc, hjob[j].sel, hjob[j].rows, hjob[j].text, hjob[j].current))'
    BY <1>3, <1>4
  <2>3. backup' # NoBackup
    BY <1>1, <1>6
  <2> HIDE DEF Active
  <2> QED BY <1>1, <1>2, <1>4, <1>5, <2>1, <2>2, <2>3 DEF JobKept
<1>11. hjob' = [k \in HJobs |-> hjob'[k]] /\ \A k \in HJobs : JobKept(hjob[k])'
  BY <1>2, <1>10
<1> QED BY <1>5, <1>8, <1>9, <1>11 DEF HostsInv

LEMMA FillKeeps ==
    ASSUME OneJob, HostsInv, NEW j \in HJobs, Fill(j)
    PROVE  HostsInv'
<1>1. /\ hjob[j].pc = "fill" /\ hosts' = hjob[j].text /\ UNCHANGED <<backup, choice, catalog, first>>
      /\ mine' = IF hjob[j].op \in Restores THEN UserLines(hosts') ELSE mine
  BY DEF Fill, Restores
<1>2. JobKept(hjob[j]) /\ \A k \in HJobs : k = j
  BY DEF HostsInv, OneJob
<1>3. /\ Tidy(hosts') /\ BlocksOf(hosts') \cap Services \subseteq Wanted(hjob[j].op, hjob[j].sel)
      /\ UserLines(hosts') = mine' /\ backup # NoBackup
  BY <1>1, <1>2 DEF JobKept, TextFits
<1>4. CatalogKept' /\ Active' = Active
  BY <1>1 DEF HostsInv, CatalogKept, Active
<1> HIDE DEF Active
<1>5. FileKept'
  BY <1>1, <1>3 DEF HostsInv, FileKept
<1>6. UsersKept'
  BY <1>3 DEF UsersKept
<1>7. CASE hjob[j].op = "preset"
  <2>1. EndHosts(j)
    BY <1>7 DEF Fill
  <2>2. hjob' = [k \in HJobs |-> Job("none", "idle", {}, <<>>, <<>>, 0)]
    BY <2>1, JobBecomes
  <2>3. hjob'[j] = Job("none", "idle", {}, <<>>, <<>>, 0)
    BY <2>2
  <2>4. JobKept(hjob[j])'
    <3>1. Active' \in Nat /\ 0 <= Active'
      BY <1>4 DEF HostsInv, CatalogKept, Active
    <3> QED BY <2>3, <3>1 DEF JobKept, Job, Askers
  <2>5. ChoiceKept'
    BY <1>1, <1>3, <1>7 DEF ChoiceKept, Wanted
  <2>6. hjob' = [k \in HJobs |-> hjob'[k]] /\ \A k \in HJobs : JobKept(hjob[k])'
    BY <1>2, <2>2, <2>4
  <2> QED BY <1>4, <1>5, <1>6, <2>5, <2>6 DEF HostsInv
<1>8. CASE hjob[j].op # "preset"
  <2>1. HostsGo(j, "save")
    BY <1>8 DEF Fill
  <2>2. hjob' = [k \in HJobs |-> Job(hjob[j].op, "save", hjob[j].sel, hjob[j].rows, hjob[j].text, hjob[j].current)]
    BY <2>1, JobBecomes
  <2>3. hjob'[j] = Job(hjob[j].op, "save", hjob[j].sel, hjob[j].rows, hjob[j].text, hjob[j].current)
    BY <2>2
  <2>4. /\ hjob'[j].op = hjob[j].op /\ hjob'[j].pc = "save" /\ hjob'[j].sel = hjob[j].sel
        /\ hjob'[j].rows = hjob[j].rows /\ hjob'[j].text = hjob[j].text /\ hjob'[j].current = hjob[j].current
    BY <2>3 DEF Job
  <2>5. JobKept(hjob[j])'
    <3>1. (hjob[j] = Job(hjob[j].op, hjob[j].pc, hjob[j].sel, hjob[j].rows, hjob[j].text, hjob[j].current))'
      BY <2>3, <2>4
    <3>2. BlocksOf(hosts') \cap Services \subseteq Later(hjob[j].op, hjob[j].sel)
      BY <1>3, <1>8 DEF Wanted
    <3> QED BY <1>1, <1>2, <1>4, <1>8, <2>4, <3>1, <3>2 DEF JobKept
  <2>6. ChoiceKept'
    BY <2>4 DEF ChoiceKept
  <2>7. hjob' = [k \in HJobs |-> hjob'[k]] /\ \A k \in HJobs : JobKept(hjob[k])'
    BY <1>2, <2>2, <2>5
  <2> QED BY <1>4, <1>5, <1>6, <2>6, <2>7 DEF HostsInv
<1> QED BY <1>7, <1>8

LEMMA SaveChoiceKeeps ==
    ASSUME OneJob, HostsInv, NEW j \in HJobs, SaveChoice(j)
    PROVE  HostsInv'
<1>1. /\ hjob[j].pc = "save" /\ UNCHANGED <<hosts, backup, catalog, mine, first>> /\ EndHosts(j)
      /\ choice' = Later(hjob[j].op, hjob[j].sel)
  BY DEF SaveChoice, Remembered, Later, Restores
<1>2. JobKept(hjob[j]) /\ \A k \in HJobs : k = j
  BY DEF HostsInv, OneJob
<1>3. hjob' = [k \in HJobs |-> Job("none", "idle", {}, <<>>, <<>>, 0)]
  BY <1>1, JobBecomes
<1>4. hjob'[j] = Job("none", "idle", {}, <<>>, <<>>, 0)
  BY <1>3
<1>5. CatalogKept'
  BY <1>1 DEF HostsInv, CatalogKept
<1>6. JobKept(hjob[j])'
  <2>1. Active' \in Nat /\ 0 <= Active'
    BY <1>5 DEF CatalogKept, Active
  <2> HIDE DEF Active
  <2> QED BY <1>4, <2>1 DEF JobKept, Job, Askers
<1>7. choice' \subseteq Services /\ BlocksOf(hosts) \cap Services \subseteq choice'
  <2>1. hjob[j].op \notin Restores => hjob[j].sel \subseteq Services
    BY <1>1, <1>2 DEF JobKept
  <2> QED BY <1>1, <1>2, <2>1 DEF JobKept, Later
<1>8. UserLines(hosts) = mine
  BY <1>1, <1>2 DEF HostsInv, UsersKept
<1>9. FileKept' /\ UsersKept' /\ ChoiceKept'
  BY <1>1, <1>7, <1>8 DEF HostsInv, FileKept, UsersKept, ChoiceKept
<1>10. hjob' = [k \in HJobs |-> hjob'[k]] /\ \A k \in HJobs : JobKept(hjob[k])'
  BY <1>2, <1>3, <1>6
<1> QED BY <1>5, <1>9, <1>10 DEF HostsInv

LEMMA UserKeeps ==
    ASSUME OneJob, HostsInv, UserEdits \/ CheckDue \/ \E i \in DOMAIN hosts : UserRemoves(i)
    PROVE  HostsInv'
<1>1. ASSUME CheckDue PROVE HostsInv'
  <2>1. UNCHANGED <<hosts, backup, choice, hjob, mine, first>> /\ catalog' = [catalog EXCEPT !.due = TRUE]
    BY <1>1 DEF CheckDue
  <2>2. CatalogKept' /\ Active' = Active
    <3>1. catalog' = [cached |-> catalog.cached, due |-> TRUE] /\ catalog.cached \in Nat
      BY <2>1 DEF HostsInv, CatalogKept
    <3> QED BY <3>1 DEF CatalogKept, Active
  <2> HIDE DEF Active
  <2>3. \A j \in HJobs : JobKept(hjob[j])'
    <3>1. ASSUME NEW j \in HJobs PROVE JobKept(hjob[j])'
      <4>1. JobKept(hjob[j])
        BY DEF HostsInv
      <4> QED BY <2>1, <2>2, <4>1 DEF JobKept, TextFits, Wanted
    <3> QED BY <3>1
  <2> QED BY <2>1, <2>2, <2>3 DEF HostsInv, FileKept, UsersKept, ChoiceKept
<1>2. ASSUME Quiet, UNCHANGED <<backup, choice, catalog, hjob, first>>,
             Tidy(hosts'), BlocksOf(hosts') \subseteq BlocksOf(hosts), UserLines(hosts') = mine'
      PROVE  HostsInv'
  <2>1. CatalogKept' /\ Active' = Active
    BY <1>2 DEF HostsInv, CatalogKept, Active
  <2> HIDE DEF Active
  <2>2. \A j \in HJobs : JobKept(hjob[j])'
    <3>1. ASSUME NEW j \in HJobs PROVE JobKept(hjob[j])'
      <4>1. JobKept(hjob[j]) /\ hjob[j].pc \in {"idle", "fetch", "ask"}
        BY <1>2 DEF HostsInv, Quiet
      <4> QED BY <1>2, <2>1, <4>1 DEF JobKept
    <3> QED BY <3>1
  <2>3. FileKept' /\ UsersKept'
    BY <1>2 DEF HostsInv, FileKept, UsersKept
  <2>4. ChoiceKept'
    BY <1>2 DEF HostsInv, ChoiceKept, Quiet
  <2> QED BY <1>2, <2>1, <2>2, <2>3, <2>4 DEF HostsInv
<1>3. ASSUME Quiet PROVE UserLines(hosts) = mine /\ Tidy(hosts)
  BY <1>3 DEF Quiet, HostsInv, UsersKept, FileKept
<1>4. ASSUME UserEdits PROVE HostsInv'
  <2> DEFINE l == Line("user", "new")
  <2>1. /\ Quiet /\ UNCHANGED <<backup, choice, catalog, hjob, first>>
        /\ \/ hosts' = <<l>> \o hosts /\ mine' = <<l>> \o mine
           \/ hosts' = Append(hosts, l) /\ mine' = Append(mine, l)
    BY <1>4 DEF UserEdits
  <2>2. l \in LineRec /\ l.k = "user"
    BY DEF Line, LineRec, Names
  <2> HIDE DEF l
  <2>3. Tidy(hosts) /\ UserLines(hosts) = mine
    BY <1>3, <2>1
  <2>4. CASE hosts' = <<l>> \o hosts /\ mine' = <<l>> \o mine
    <3>1. Tidy(<<l>> \o hosts) /\ UserLines(<<l>> \o hosts) = <<l>> \o UserLines(hosts)
          /\ BlocksOf(<<l>> \o hosts) = BlocksOf(hosts)
      BY <2>2, <2>3, InFrontFacts
    <3> QED BY <1>2, <2>1, <2>3, <2>4, <3>1
  <2>5. CASE hosts' = Append(hosts, l) /\ mine' = Append(mine, l)
    <3>1. Tidy(Append(hosts, l)) /\ UserLines(Append(hosts, l)) = Append(UserLines(hosts), l)
          /\ BlocksOf(Append(hosts, l)) = BlocksOf(hosts)
      BY <2>2, <2>3, AtEndFacts
    <3> QED BY <1>2, <2>1, <2>3, <2>5, <3>1
  <2> QED BY <2>1, <2>4, <2>5
<1>5. ASSUME NEW i \in DOMAIN hosts, UserRemoves(i) PROVE HostsInv'
  <2>1. /\ Quiet /\ hosts[i].k = "user" /\ UNCHANGED <<backup, choice, catalog, hjob, first>>
        /\ hosts' = RemoveAt(hosts, i) /\ mine' = UserLines(hosts')
    BY <1>5 DEF UserRemoves
  <2>2. Tidy(RemoveAt(hosts, i)) /\ BlocksOf(RemoveAt(hosts, i)) \subseteq BlocksOf(hosts)
    BY <1>3, <2>1, LineGoneFacts
  <2> QED BY <1>2, <2>1, <2>2
<1> QED BY <1>1, <1>4, <1>5

LEMMA HostsNextInv ==
    ASSUME OneJob, HostsInv, [HostsNext]_hostsVars PROVE HostsInv'
<1>1. CASE UNCHANGED hostsVars
  BY <1>1 DEF hostsVars, HostsInv, JobKept, TextFits, Wanted, CatalogKept, FileKept, UsersKept, ChoiceKept, Active
<1>2. ASSUME NEW j \in HJobs, HostsJobFails(j) \/ AccessDenied(j) PROVE HostsInv'
  <2>1. /\ hjob[j].pc \notin {"fill", "save"} /\ EndHosts(j)
        /\ UNCHANGED <<hosts, backup, choice, catalog, mine, first>>
    BY <1>2 DEF HostsJobFails, AccessDenied
  <2>2. CatalogKept'
    BY <2>1 DEF HostsInv, CatalogKept
  <2> QED BY <2>1, <2>2, JobGivesUp
<1>3. ASSUME NEW j \in HJobs,
             \/ \E b \in Presets : BeginPreset(j, b)
             \/ \E sel \in SUBSET Services : BeginServices(j, sel) \/ Asked(j, sel)
             \/ \E op \in {"default", "backup"} : BeginRestore(j, op)
             \/ \E force \in BOOLEAN : BeginRefresh(j, force)
             \/ \E v \in 1 .. MaxCatalog : Fetched(j, v)
             \/ ReadPreset(j) \/ ReadRestore(j) \/ ReadServices(j) \/ HostsJobFails(j)
             \/ Truncate(j) \/ AccessDenied(j) \/ Fill(j) \/ SaveChoice(j)
      PROVE  HostsInv'
  <2>1. CASE \/ \E b \in Presets : BeginPreset(j, b)
             \/ \E sel \in SUBSET Services : BeginServices(j, sel)
             \/ \E op \in Restores : BeginRestore(j, op)
             \/ \E force \in BOOLEAN : BeginRefresh(j, force)
    BY <2>1, BeginKeeps
  <2>2. CASE \E sel \in SUBSET Services : Asked(j, sel)
    BY <2>2, AskedKeeps
  <2>3. CASE \E v \in 1 .. MaxCatalog : Fetched(j, v)
    BY <2>3, FetchedKeeps
  <2>4. CASE ReadPreset(j)
    BY <2>4, ReadPresetKeeps
  <2>5. CASE ReadRestore(j)
    BY <2>5, ReadRestoreKeeps
  <2>6. CASE ReadServices(j)
    BY <2>6, ReadServicesKeeps
  <2>7. CASE HostsJobFails(j) \/ AccessDenied(j)
    BY <1>2, <2>7
  <2>8. CASE Truncate(j)
    BY <2>8, TruncateKeeps
  <2>9. CASE Fill(j)
    BY <2>9, FillKeeps
  <2>10. CASE SaveChoice(j)
    BY <2>10, SaveChoiceKeeps
  <2> QED BY <1>3, <2>1, <2>2, <2>3, <2>4, <2>5, <2>6, <2>7, <2>8, <2>9, <2>10 DEF Restores
<1>4. CASE UserEdits \/ CheckDue \/ \E i \in DOMAIN hosts : UserRemoves(i)
  BY <1>4, UserKeeps
<1> QED BY <1>1, <1>3, <1>4 DEF HostsNext

(* ui/pages/hosts.py, service.py: with one job of the page at a time, what *)
(* a job is about to write agrees with the file, all the way.              *)
THEOREM HostsInvariant == ASSUME OneJob PROVE HostsSpec => []HostsInv
BY HostsInitInv, HostsNextInv, PTL DEF HostsSpec

(* hosts_file.py: what the user wrote stays, in its order, and the backup  *)
(* is the file as it was before the first change (HostsKept).              *)
THEOREM UserLinesStay == ASSUME OneJob PROVE HostsSpec => []HostsKept
<1>1. HostsInv => HostsKept
  BY DEF HostsInv, HostsKept, FileKept, UsersKept
<1> QED BY <1>1, HostsInvariant, PTL

(* service.py: the blocks of services in the file are of services that are *)
(* remembered, each is there once, and no catalog takes the place of a     *)
(* newer one (ChoiceInStep).                                               *)
THEOREM ChoiceStaysInStep == ASSUME OneJob PROVE HostsSpec => []ChoiceInStep
<1>1. ASSUME HostsInv PROVE ChoiceInStep
  <2>1. (\A j \in HJobs : hjob[j].pc = "idle") => BlocksOf(hosts) \cap Services \subseteq choice
    BY <1>1 DEF HostsInv, ChoiceKept
  <2>2. ASSUME NEW b \in Blocks, NEW i \in Begins(b), NEW k \in Begins(b) PROVE i = k
    <3>1. /\ i \in DOMAIN hosts /\ k \in DOMAIN hosts
          /\ hosts[i].k = "begin" /\ hosts[k].k = "begin" /\ hosts[i].of = hosts[k].of
      BY DEF Begins, Line
    <3>2. Tidy(hosts)
      BY <1>1 DEF HostsInv, FileKept
    <3> QED BY <3>1, <3>2 DEF Tidy
  <2>3. \A j \in HJobs : hjob[j].current <= Active
    BY <1>1 DEF HostsInv, JobKept
  <2> QED BY <2>1, <2>2, <2>3 DEF ChoiceInStep
<1> QED BY <1>1, HostsInvariant, PTL
=============================================================================
