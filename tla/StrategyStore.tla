---------------------------- MODULE StrategyStore ----------------------------
(***************************************************************************)
(* The installed versions of the strategies: modules/updates/service.py,   *)
(* github.py and transformer.py install one, strategies/repository.py      *)
(* picks and removes them, modules/filters switches the ipset list of a    *)
(* version between its own content, a dummy and nothing.                   *)
(*                                                                         *)
(* An actor is a thread of the GUI or of the daemon that does one of these.*)
(* Each file operation is a step; between two of them the process may die. *)
(***************************************************************************)
EXTENDS Naturals, FiniteSets

CONSTANTS
    Actors,
    Tester,          \* the one whose process runs the strategy tests: the daemon's
    Versions,        \* release numbers
    NameRank,        \* their order as directory names: "1.10.0" comes before "1.9.0"
    Keep,            \* versions that retention keeps; 0: all of them
    SkipLists,       \* the setting skip_list_updates
    OneAtATime,      \* TRUE: what two actors do to files does not overlap
    PicksUnfinished, \* TRUE: the user may select a version that is half installed
    None

ASSUME StoreAssumption ==
    /\ Tester \in Actors /\ Versions \subseteq Nat /\ None \notin Versions /\ None \notin Actors
    /\ NameRank \in [Versions -> Nat]
    /\ \A v, w \in Versions : NameRank[v] = NameRank[w] => v = w
    /\ Keep \in Nat
    /\ SkipLists \in BOOLEAN /\ OneAtATime \in BOOLEAN /\ PicksUnfinished \in BOOLEAN

VARIABLES
    active,       \* settings.active_version
    ipset, game,  \* settings.ipset_filter, settings.game_filter
    flag,         \* what utils/game_filter.enabled says
    disk,         \* each version's directory
    staging,      \* the version unpacked in the staging directory
    remote,       \* what version.txt on GitHub says
    latest,       \* the newest release there
    job           \* each actor: where it is, and with what

net == <<remote, latest>>
options == <<active, ipset, game>>
svars == <<options, flag, disk, staging, net, job>>

IpsetModes == {"any", "none", "loaded"}
GameModes == {"off", "all"}

(* txt: the converted strategies; lists: the version's lists are copied;   *)
(* list and backup: ipset-all.txt and ipset-all.txt.backup.                *)
DirRec == [txt: {"none", "part", "full"}, meta: BOOLEAN, lists: BOOLEAN,
           list: {"absent", "empty", "dummy", "full"}, backup: {"absent", "full"}]
Gone == [txt |-> "none", meta |-> FALSE, lists |-> FALSE, list |-> "absent", backup |-> "absent"]
Complete == [txt |-> "full", meta |-> TRUE, lists |-> TRUE, list |-> "full", backup |-> "absent"]

Places == {"idle", "release", "download", "unpack", "lists", "copy", "unlink", "convert", "meta",
           "activate", "retain", "purge", "sync", "keep", "testing", "flag", "game",
           "detect", "drop", "move", "write", "save"}
JobRec == [pc: Places, ver: Versions \cup {None}, mode: IpsetModes, game: GameModes,
           victims: SUBSET Versions, update: BOOLEAN]
Idle == [pc |-> "idle", ver |-> None, mode |-> "any", game |-> "off",
         victims |-> {}, update |-> FALSE]

StoreTypeOK ==
    /\ active \in Versions \cup {None} /\ ipset \in IpsetModes
    /\ game \in GameModes /\ flag \in GameModes
    /\ disk \in [Versions -> DirRec] /\ staging \in Versions \cup {None}
    /\ remote \in Versions /\ latest \in Versions
    /\ job \in [Actors -> JobRec]

Busy(a) == job[a].pc \notin {"idle", "testing"}
MayBegin(a) == ~Busy(a) /\ (OneAtATime => \A b \in Actors : ~Busy(b))
Go(a, pc) == job' = [job EXCEPT ![a].pc = pc]
End(a) == job' = [job EXCEPT ![a] = Idle]
Doing(a, pc) == job[a].pc = pc
Ver(a) == job[a].ver
Write(a, field, content) == disk' = [disk EXCEPT ![Ver(a)][field] = content]

HasStrategies(v) == IF v = None THEN FALSE ELSE disk[v].txt # "none"
Newer(local, other) == IF local = None THEN TRUE ELSE other > local
Installed == {v \in Versions : disk[v].txt # "none" \/ disk[v].meta}

(* check_for_update: a version without any strategy counts as none.        *)
NeedsUpdate == ~HasStrategies(active) \/ Newer(active, remote)

-----------------------------------------------------------------------------
(* check_and_apply *)

(* The version that is compared comes from version.txt ... *)
CheckForUpdate(a) ==
    /\ Doing(a, "idle") /\ MayBegin(a) /\ NeedsUpdate
    /\ job' = [job EXCEPT ![a] = [Idle EXCEPT !.pc = "release", !.update = TRUE]]
    /\ UNCHANGED <<options, flag, disk, staging, net>>

(* ... the one that is installed from the release page: it may be the one  *)
(* that is active.                                                         *)
FetchLatestRelease(a) ==
    /\ Doing(a, "release")
    /\ job' = [job EXCEPT ![a].pc = "download", ![a].ver = latest]
    /\ UNCHANGED <<options, flag, disk, staging, net>>

(* Staging is emptied before the archive is written to it. *)
DownloadRelease(a) ==
    /\ Doing(a, "download")
    /\ staging' = None
    /\ Go(a, "unpack")
    /\ UNCHANGED <<options, flag, disk, net>>

ExtractZip(a) ==
    /\ Doing(a, "unpack")
    /\ staging' = Ver(a)
    /\ Go(a, IF SkipLists THEN "unlink" ELSE "lists")
    /\ UNCHANGED <<options, flag, disk, net>>

(* What is in lists goes first, the backup of ipset-all.txt included. *)
ClearLists(a) ==
    /\ Doing(a, "lists")
    /\ IF staging = None
       THEN Go(a, "unlink") /\ UNCHANGED disk
       ELSE /\ disk' = [disk EXCEPT ![Ver(a)].lists = FALSE,
                                    ![Ver(a)].list = "absent", ![Ver(a)].backup = "absent"]
            /\ Go(a, "copy")
    /\ UNCHANGED <<options, flag, staging, net>>

CopyLists(a) ==
    /\ Doing(a, "copy") /\ staging # None
    /\ disk' = [disk EXCEPT ![Ver(a)].lists = TRUE, ![Ver(a)].list = "full"]
    /\ Go(a, "unlink")
    /\ UNCHANGED <<options, flag, staging, net>>

UnlinkStrategies(a) ==
    /\ Doing(a, "unlink")
    /\ Write(a, "txt", "none")
    /\ Go(a, "convert")
    /\ UNCHANGED <<options, flag, staging, net>>

(* One file after the other; an empty staging has no batch files at all. *)
ConvertStrategies(a) ==
    /\ Doing(a, "convert")
    /\ \/ staging = None /\ disk[Ver(a)].txt = "none" /\ Go(a, "meta") /\ UNCHANGED disk
       \/ staging # None /\ disk[Ver(a)].txt = "none" /\ Write(a, "txt", "part") /\ UNCHANGED job
       \/ staging # None /\ disk[Ver(a)].txt = "part" /\ Write(a, "txt", "full") /\ Go(a, "meta")
    /\ UNCHANGED <<options, flag, staging, net>>

(* promote_staging removes staging, then meta.json is written. *)
WriteMeta(a) ==
    /\ Doing(a, "meta")
    /\ staging' = None
    /\ Write(a, "meta", TRUE)
    /\ Go(a, "activate")
    /\ UNCHANGED <<options, flag, net>>

SetActive(a) ==
    /\ Doing(a, "activate")
    /\ active' = Ver(a)
    /\ Go(a, "retain")
    /\ UNCHANGED <<ipset, game, flag, disk, staging, net>>

(* An exception anywhere in the update: staging is removed, that is all.   *)
UpdateFails(a) ==
    /\ Busy(a) /\ job[a].update
    /\ staging' = None
    /\ End(a)
    /\ UNCHANGED <<options, flag, disk, net>>

-----------------------------------------------------------------------------
(* Retention *)

Stale(keep) ==
    {v \in Installed : Cardinality({w \in Installed : NameRank[w] > NameRank[v]}) >= keep}

Retain(a) ==
    /\ Doing(a, "retain")
    /\ job' = [job EXCEPT ![a].pc = "purge", ![a].victims = IF Keep = 0 THEN {} ELSE Stale(Keep)]
    /\ UNCHANGED <<options, flag, disk, staging, net>>

(* purge_stale_versions, from the settings page *)
PurgeStale(a) ==
    /\ Doing(a, "idle") /\ MayBegin(a)
    /\ job' = [job EXCEPT ![a] = [Idle EXCEPT !.pc = "purge", !.victims = Stale(1)]]
    /\ UNCHANGED <<options, flag, disk, staging, net>>

(* Deviation: the active version is not spared. *)
PurgeAny(a) ==
    /\ Doing(a, "purge")
    /\ \/ /\ job[a].victims = {}
          /\ IF job[a].update THEN Go(a, "sync") ELSE End(a)
          /\ UNCHANGED disk
       \/ \E v \in job[a].victims :
            /\ job' = [job EXCEPT ![a].victims = @ \ {v}]
            /\ disk' = [disk EXCEPT ![v] = [Gone EXCEPT !.txt = "part"]]
    /\ UNCHANGED <<options, flag, staging, net>>

(* rmtree ignores errors: some of the files may stay. *)
Purge(a) ==
    /\ Doing(a, "purge")
    /\ \/ /\ job[a].victims = {}
          /\ IF job[a].update THEN Go(a, "sync") ELSE End(a)
          /\ UNCHANGED disk
       \/ \E v \in job[a].victims :
            /\ job' = [job EXCEPT ![a].victims = @ \ {v}]
            /\ IF v = active THEN UNCHANGED disk
               ELSE \E left \in {Gone, [Gone EXCEPT !.txt = "part"]} :
                        disk' = [disk EXCEPT ![v] = left]
    /\ UNCHANGED <<options, flag, staging, net>>

(* The options of the settings page: the active version is among them. *)
VersionOptions == {v \in Versions : v \in Installed \/ v = active}

(* _on_version_change *)
PickVersion(a, v) ==
    /\ Doing(a, "idle") /\ MayBegin(a) /\ v \in VersionOptions
    /\ PicksUnfinished \/ (disk[v].txt = "full" /\ (disk[v].lists \/ SkipLists))
    /\ active' = v
    /\ UNCHANGED <<ipset, game, flag, disk, staging, net, job>>

-----------------------------------------------------------------------------
(* Filters *)

(* ensure_game_filter_synced: a flag that the settings do not know of is   *)
(* adopted, otherwise the settings win.                                    *)
SyncGameFilter(a) ==
    /\ Doing(a, "sync")
    /\ IF game = "off" THEN game' = flag /\ UNCHANGED flag
                       ELSE flag' = game /\ UNCHANGED game
    /\ Go(a, "keep")
    /\ UNCHANGED <<active, ipset, disk, staging, net>>

(* keep_ipset_mode: the user's choice is applied to the new version. *)
KeepIpsetMode(a) ==
    /\ Doing(a, "keep")
    /\ job' = [job EXCEPT ![a].pc = "detect", ![a].mode = ipset]
    /\ UNCHANGED <<options, flag, disk, staging, net>>

SetIpsetMode(a, mode) ==
    /\ Doing(a, "idle") /\ MayBegin(a) /\ active # None
    /\ job' = [job EXCEPT ![a] = [Idle EXCEPT !.pc = "detect", !.ver = active, !.mode = mode]]
    /\ UNCHANGED <<options, flag, disk, staging, net>>

(* apply_game_filter: the flag, then the setting. *)
SetGameFilter(a, mode) ==
    /\ Doing(a, "idle") /\ MayBegin(a) /\ active # None
    /\ flag' = mode
    /\ job' = [job EXCEPT ![a] = [Idle EXCEPT !.pc = "game", !.game = mode]]
    /\ UNCHANGED <<options, disk, staging, net>>

SaveGameFilter(a) ==
    /\ Doing(a, "game")
    /\ game' = job[a].game
    /\ job' = [job EXCEPT ![a] = IF Ver(a) = None THEN Idle
                                 ELSE [@ EXCEPT !.pc = "detect", !.game = "off"]]
    /\ UNCHANGED <<active, ipset, flag, disk, staging, net>>

(* The test job remembers both filters, and restores them when it ends,    *)
(* whatever was chosen or installed in between.                            *)
CaptureFilters(a) ==
    /\ a = Tester /\ Doing(a, "idle") /\ active # None
    /\ job' = [job EXCEPT ![a] = [Idle EXCEPT !.pc = "testing", !.ver = active,
                                              !.mode = ipset, !.game = game]]
    /\ UNCHANGED <<options, flag, disk, staging, net>>

RestoreFilters(a) ==
    /\ Doing(a, "testing") /\ MayBegin(a)
    /\ flag' = job[a].game
    /\ Go(a, "game")
    /\ UNCHANGED <<options, disk, staging, net>>

(* detect_ipset_mode *)
Detected(v) ==
    CASE disk[v].list \in {"absent", "empty"} -> "any"
      [] disk[v].list = "dummy" -> "none"
      [] disk[v].list = "full" -> "loaded"

(* apply_ipset_mode: from the content of the list to the steps to take.    *)
DetectIpsetMode(a) ==
    LET seen == Detected(Ver(a)) IN
    /\ Doing(a, "detect")
    /\ \/ job[a].mode = seen /\ Go(a, "save")
       \/ job[a].mode = "none" /\ seen = "any" /\ Go(a, "save")
       \/ /\ job[a].mode # seen
          /\ seen = "loaded" \/ job[a].mode = "loaded"
          /\ Go(a, "drop")
       \/ job[a].mode = "any" /\ seen = "none" /\ Go(a, "write")
    /\ UNCHANGED <<options, flag, disk, staging, net>>

(* Deviation: the backup that is to be loaded goes too. *)
DropBoth(a) ==
    /\ Doing(a, "drop")
    /\ disk' = [disk EXCEPT ![Ver(a)].backup = "absent",
                            ![Ver(a)].list = IF job[a].mode = "loaded" THEN "absent" ELSE @]
    /\ Go(a, "move")
    /\ UNCHANGED <<options, flag, staging, net>>

(* The older of the two files goes; without a backup there is nothing to   *)
(* load, and after an update the setting follows the file.                 *)
DropOldFile(a) ==
    /\ Doing(a, "drop")
    /\ \/ /\ job[a].mode # "loaded"
          /\ Write(a, "backup", "absent")
          /\ Go(a, "move") /\ UNCHANGED ipset
       \/ /\ job[a].mode = "loaded" /\ disk[Ver(a)].backup # "absent"
          /\ Write(a, "list", "absent")
          /\ Go(a, "move") /\ UNCHANGED ipset
       \/ /\ job[a].mode = "loaded" /\ disk[Ver(a)].backup = "absent"
          /\ ipset' = IF job[a].update THEN Detected(Ver(a)) ELSE ipset
          /\ End(a) /\ UNCHANGED disk
    /\ UNCHANGED <<active, game, flag, staging, net>>

MoveList(a) ==
    LET d == disk[Ver(a)] IN
    /\ Doing(a, "move")
    /\ IF job[a].mode = "loaded"
       THEN /\ disk' = [disk EXCEPT ![Ver(a)].list = d.backup, ![Ver(a)].backup = "absent"]
            /\ Go(a, "save")
       ELSE /\ IF d.list = "full"
               THEN disk' = [disk EXCEPT ![Ver(a)].list = "absent", ![Ver(a)].backup = "full"]
               ELSE disk' = [disk EXCEPT ![Ver(a)].list = "absent"]
            /\ Go(a, "write")
    /\ UNCHANGED <<options, flag, staging, net>>

WriteList(a) ==
    /\ Doing(a, "write")
    /\ Write(a, "list", IF job[a].mode = "none" THEN "dummy" ELSE "empty")
    /\ Go(a, "save")
    /\ UNCHANGED <<options, flag, staging, net>>

SaveIpsetMode(a) ==
    /\ Doing(a, "save")
    /\ ipset' = job[a].mode
    /\ End(a)
    /\ UNCHANGED <<active, game, flag, disk, staging, net>>

-----------------------------------------------------------------------------
(* version.txt is changed in the repository, the release follows. *)
Publish ==
    /\ \/ \E v \in Versions : v > remote /\ remote' = v /\ UNCHANGED latest
       \/ latest # remote /\ latest' = remote /\ UNCHANGED remote
    /\ UNCHANGED <<options, flag, disk, staging, job>>

(* The process of an actor ends. *)
Die(a) ==
    /\ ~Doing(a, "idle")
    /\ End(a)
    /\ UNCHANGED <<options, flag, disk, staging, net>>

Update(a) ==
    \/ CheckForUpdate(a) \/ FetchLatestRelease(a) \/ DownloadRelease(a) \/ ExtractZip(a)
    \/ ClearLists(a) \/ CopyLists(a) \/ UnlinkStrategies(a) \/ ConvertStrategies(a)
    \/ WriteMeta(a) \/ SetActive(a) \/ Retain(a) \/ SyncGameFilter(a) \/ KeepIpsetMode(a)
    \/ UpdateFails(a)

Filter(a) ==
    \/ \E mode \in IpsetModes : SetIpsetMode(a, mode)
    \/ \E mode \in GameModes : SetGameFilter(a, mode)
    \/ SaveGameFilter(a) \/ CaptureFilters(a) \/ RestoreFilters(a)
    \/ DetectIpsetMode(a) \/ DropOldFile(a) \/ MoveList(a) \/ WriteList(a) \/ SaveIpsetMode(a)

StoreStep(a) ==
    \/ Update(a) \/ Filter(a) \/ Die(a)
    \/ PurgeStale(a) \/ Purge(a)
    \/ \E v \in Versions : PickVersion(a, v)

(* Nothing is installed, or the newest release, or the one before. *)
StoreInit ==
    /\ remote \in Versions /\ latest = remote
    /\ active \in {None} \cup {v \in Versions : v <= latest}
    /\ disk = [v \in Versions |-> IF v = active THEN Complete ELSE Gone]
    /\ ipset = "loaded" /\ game = "off" /\ flag = "off"
    /\ staging = None
    /\ job = [a \in Actors |-> Idle]

StoreNext == Publish \/ \E a \in Actors : StoreStep(a)

StoreSpec == StoreInit /\ [][StoreNext]_svars

-----------------------------------------------------------------------------
(* An active version that is not complete is being installed, or the next  *)
(* check finds that it has to be: whatever dies where, an update puts it   *)
(* right.  (check_and_apply, service.py:85, asks for any strategy at all   *)
(* and for a newer number, never whether the directory is complete.)       *)
Whole(v) == disk[v].txt = "full" /\ (disk[v].lists \/ SkipLists)

Repairable ==
    active # None /\ ~Whole(active) =>
        \/ NeedsUpdate
        \/ \E a \in Actors : job[a].update /\ Busy(a) /\ Ver(a) = active

(* Whatever modes are chosen, in the GUI, by an update or by the end of a  *)
(* test, and wherever that is cut off: a version that has its lists has    *)
(* the content of ipset-all.txt, in the file or in its backup.             *)
ListKept == \A v \in Versions : disk[v].lists => "full" \in {disk[v].list, disk[v].backup}
=============================================================================
