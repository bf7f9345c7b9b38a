------------------------------ MODULE EngineFiles ------------------------------
(***************************************************************************)
(* The files of the engine and their updates: modules/updates/engine.py,   *)
(* ensure_runtime_installed (service.py) and runtime_installed (paths.py). *)
(* The daemon installs at its start; it may be killed at any step, the     *)
(* engine may be started meanwhile, which locks its files, and a file may  *)
(* be taken away by others.  A file is the release it comes from, 0 when   *)
(* it is missing.                                                          *)
(***************************************************************************)
EXTENDS Naturals, FiniteSets

CONSTANTS
    Binaries, Scripts,  \* ENGINE_BIN_FILES, which locks what runs, and ENGINE_LUA_FILES
    MaxRelease          \* bound on the releases of zapret2

VARIABLES
    file,       \* the installed files
    partial,    \* the files .partial beside them
    version,    \* the version file, 0 when missing or empty
    newest,     \* the newest release on GitHub
    install,    \* the call of ensure_runtime_installed under way
    running     \* the engine runs

fileVars == <<file, partial, version, newest, install, running>>
EngineFilesSet == Binaries \cup Scripts
IdleInstall == [pc |-> "idle", release |-> 0, todo |-> {}]

MissingEngineFiles == {f \in EngineFilesSet : file[f] = 0}
RuntimeInstalled == MissingEngineFiles = {}

(* The release is compared with the version file, "0" when that is empty. *)
EngineUpdateAvailable == newest > version

(* install_engine gives up: what was staged is removed, the files of the   *)
(* archive with it.                                                        *)
InstallFails ==
    /\ install' = IdleInstall /\ partial' = [f \in EngineFilesSet |-> FALSE]

(* Lookup of the release, which may fail.  What is installed is replaced   *)
(* only by something newer, and only while the engine is not running.      *)
EnsureRuntimeInstalled(allow_update) ==
    /\ install.pc = "idle"
    /\ RuntimeInstalled => allow_update /\ ~running /\ EngineUpdateAvailable
    /\ install' = [IdleInstall EXCEPT !.pc = "download", !.release = newest]
    /\ UNCHANGED <<file, partial, version, newest, running>>

(* Deviation: the version is written once the archive is there. *)
DownloadRecorded ==
    /\ install.pc = "download"
    /\ install' = [install EXCEPT !.pc = "stage", !.todo = EngineFilesSet]
    /\ version' = install.release
    /\ UNCHANGED <<file, partial, newest, running>>

(* _download: the archive is as GitHub's digest says, or it is refused.    *)
EngineDownloaded ==
    /\ install.pc = "download"
    /\ \/ install' = [install EXCEPT !.pc = "stage", !.todo = EngineFilesSet] /\ partial' = partial
       \/ InstallFails
    /\ UNCHANGED <<file, version, newest, running>>

(* Every file is unpacked beside its place; a binary that is not what the  *)
(* author's sums say ends the installation.                                *)
StageFile(f) ==
    /\ install.pc = "stage" /\ f \in install.todo
    /\ \/ /\ partial' = [partial EXCEPT ![f] = TRUE]
          /\ install' = IF install.todo = {f} THEN [install EXCEPT !.pc = "replace", !.todo = EngineFilesSet]
                        ELSE [install EXCEPT !.todo = @ \ {f}]
       \/ f \in Binaries /\ InstallFails
    /\ UNCHANGED <<file, version, newest, running>>

(* os.replace, which fails for what runs.                                  *)
ReplaceFile(f) ==
    /\ install.pc = "replace" /\ f \in install.todo
    /\ IF running /\ f \in Binaries THEN InstallFails /\ file' = file
       ELSE /\ file' = [file EXCEPT ![f] = install.release]
            /\ partial' = [partial EXCEPT ![f] = FALSE]
            /\ install' = [install EXCEPT !.todo = @ \ {f}, !.pc = IF install.todo = {f} THEN "record" ELSE @]
    /\ UNCHANGED <<version, newest, running>>

RecordVersion ==
    /\ install.pc = "record"
    /\ version' = install.release /\ install' = IdleInstall
    /\ UNCHANGED <<file, partial, newest, running>>

(* The daemon is killed; the version file may be left empty.               *)
InstallerKilled ==
    /\ install.pc # "idle" /\ install' = IdleInstall
    /\ \/ version' = version
       \/ install.pc = "record" /\ version' = 0
    /\ UNCHANGED <<file, partial, newest, running>>

(* Someone starts the engine, which needs all its files; or stops it.      *)
EngineRuns ==
    /\ running \/ RuntimeInstalled
    /\ running' = ~running
    /\ UNCHANGED <<file, partial, version, newest, install>>

ReleasePublished ==
    /\ newest < MaxRelease /\ newest' = newest + 1
    /\ UNCHANGED <<file, partial, version, install, running>>

FileTaken(f) ==
    /\ ~(running /\ f \in Binaries)
    /\ file' = [file EXCEPT ![f] = 0]
    /\ UNCHANGED <<partial, version, newest, install, running>>

FilesInit ==
    /\ file = [f \in EngineFilesSet |-> 0] /\ partial = [f \in EngineFilesSet |-> FALSE]
    /\ version = 0 /\ newest = 1 /\ install = IdleInstall /\ running = FALSE

FilesNext ==
    \/ \E allow \in BOOLEAN : EnsureRuntimeInstalled(allow)
    \/ EngineDownloaded \/ RecordVersion \/ InstallerKilled \/ EngineRuns \/ ReleasePublished
    \/ \E f \in EngineFilesSet : StageFile(f) \/ ReplaceFile(f) \/ FileTaken(f)

FilesSpec == FilesInit /\ [][FilesNext]_fileVars
-----------------------------------------------------------------------------
(* Files of several releases, left by an installation that broke off, are  *)
(* never taken for a complete one: the version file names no release that  *)
(* some file has not reached, so that the next start still finds one that  *)
(* is newer.                                                               *)
MixNoticed ==
    /\ \A f \in EngineFilesSet : file[f] # 0 => file[f] >= version
    /\ (\E f \in EngineFilesSet : file[f] \notin {0, version}) => newest > version
=============================================================================
