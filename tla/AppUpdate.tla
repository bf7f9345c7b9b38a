------------------------------- MODULE AppUpdate -------------------------------
(***************************************************************************)
(* An update of the application: check_and_install_app (modules/updates/   *)
(* app.py) hands it to a window of its own, TwoWingsUpdate                 *)
(* (splash_launcher.py, update_splash/worker.py), which downloads, checks, *)
(* runs the installer and waits for the new version to say that it runs    *)
(* (splash_status.py, run.py); without the window 2Wings installs itself.  *)
(* Several may be under way: the lock is held until the window is open.    *)
(*                                                                         *)
(* Files are shared as Windows does it: what is open may be opened and     *)
(* written by another, but neither removed nor replaced.                   *)
(***************************************************************************)
EXTENDS Naturals, FiniteSets

CONSTANTS Updaters    \* windows, and the application's own thread

VARIABLES
    installer,  \* the file of the installer: "none", "good" or "bad"
    part,       \* the file .part
    done,       \* the status file: "no", "yes", or "stale", said by an update before
    installed,  \* the version in the program's folder, "old" or "new"
    runs,       \* the version of 2Wings that runs, or "none"
    upd         \* each updater: pc, and whether it is a window

updateVars == <<installer, part, done, installed, runs, upd>>

Writers == {u \in Updaters : upd[u].pc = "download"}
Installing == {u \in Updaters : upd[u].pc = "install"}
UpdaterAt(u, pc) == upd[u].pc = pc
UpdaterTo(u, pc) == upd' = [upd EXCEPT ![u].pc = pc]
Finished == {"none", "done", "error"}

(* launch_updater: the window is copied out of the program's folder and    *)
(* started, or there is none to start.                                     *)
WindowOpens == BOOLEAN

(* clear_update_status, by who opens the window and by the window itself.  *)
StatusCleared(window) == IF window THEN "no" ELSE done

(* fetch_app_update found a newer version; launch_updater clears the       *)
(* status and opens a window, if there is one to open.                     *)
CheckAndInstallApp(u, window) ==
    /\ runs = "old" /\ upd[u].pc \in Finished
    /\ \A q \in Updaters : upd[q].window \/ upd[q].pc \in Finished
    /\ upd' = [upd EXCEPT ![u] = [pc |-> "start", window |-> window, exe |-> "installer"]]
    /\ done' = StatusCleared(window)
    /\ UNCHANGED <<installer, part, installed, runs>>

(* _job and download_verified_installer: the published sum is fetched; a   *)
(* file that has it is used.  The application, but not a window, removes   *)
(* an old .part first, which fails while somebody writes it.               *)
FetchChecksum(u) ==
    /\ UpdaterAt(u, "start")
    /\ \/ UpdaterTo(u, "error") /\ UNCHANGED <<installer, part>>
       \/ /\ installer = "good" /\ UpdaterTo(u, "verified") /\ UNCHANGED <<installer, part>>
       \/ /\ installer # "good" /\ UpdaterTo(u, "download") /\ part' = "bad"
          /\ upd[u].window \/ Writers = {}
          /\ installer' = installer
    /\ done' = StatusCleared(upd[u].window)
    /\ UNCHANGED <<installed, runs>>

(* The download ends, well or not.  If another writes the same file, it    *)
(* may have cut it.                                                        *)
DownloadEnds(u) ==
    /\ UpdaterAt(u, "download")
    /\ \/ /\ UpdaterTo(u, "verify")
          /\ part' \in IF Writers = {u} /\ part # "none" THEN {"good"} ELSE {"good", "bad"}
       \/ /\ UpdaterTo(u, "error")
          /\ part' \in IF Writers = {u} THEN {"bad"} ELSE {"good", "bad"}
    /\ UNCHANGED <<installer, done, installed, runs>>

(* SHA-256 of the file; one that differs is removed.                       *)
VerifyInstaller(u) ==
    /\ UpdaterAt(u, "verify")
    /\ IF part = "good" THEN UpdaterTo(u, "replace") /\ part' = part
       ELSE UpdaterTo(u, "error") /\ part' = IF Writers = {} THEN "none" ELSE part
    /\ UNCHANGED <<installer, done, installed, runs>>

(* os.replace.  Where the application installs itself and the file in its  *)
(* place is in use, the .part is run.                                      *)
ReplaceInstaller(u) ==
    /\ UpdaterAt(u, "replace")
    /\ IF part # "none" /\ Writers = {} /\ \A q \in Installing : upd[q].exe = "part"
       THEN installer' = part /\ part' = "none" /\ UpdaterTo(u, "verified")
       ELSE /\ IF upd[u].window \/ part = "none" THEN UpdaterTo(u, "error")
               ELSE upd' = [upd EXCEPT ![u].pc = "verified", ![u].exe = "part"]
            /\ UNCHANGED <<installer, part>>
    /\ UNCHANGED <<done, installed, runs>>

(* The installer closes what runs from the program's folder.               *)
RunInstaller(u) ==
    /\ UpdaterAt(u, "verified")
    /\ UpdaterTo(u, "install")
    /\ runs' \in {"none", runs}
    /\ UNCHANGED <<installer, part, done, installed>>

(* Deviation: the exit code is not looked at. *)
InstallerAlwaysFine(u) ==
    /\ UpdaterAt(u, "install")
    /\ UpdaterTo(u, IF upd[u].window THEN "wait" ELSE "done")
    /\ installed' \in {"old", "new"} /\ runs' = runs
    /\ UNCHANGED <<installer, part, done>>

(* It ends: the files are there, 2Wings was closed and is started again;   *)
(* or with another exit code, and what was closed stays so.                *)
InstallerEnds(u) ==
    /\ UpdaterAt(u, "install")
    /\ \/ /\ UpdaterTo(u, IF upd[u].window THEN "wait" ELSE "done")
          /\ installed' = "new" /\ runs' = "none"
       \/ UpdaterTo(u, "error") /\ UNCHANGED <<installed, runs>>
    /\ UNCHANGED <<installer, part, done>>

(* The application started by the installer says so at once; started by    *)
(* hand it says nothing, but its daemon answers.                           *)
AppStarts(relaunch) ==
    /\ runs = "none" /\ runs' = installed
    /\ relaunch => installed = "new"
    /\ done' = IF relaunch THEN "yes" ELSE done
    /\ UNCHANGED <<installer, part, installed, upd>>

AppExits == runs # "none" /\ runs' = "none" /\ UNCHANGED <<installer, part, done, installed, upd>>

(* _wait_for_twowings: the status file, or the port of the daemon.         *)
WaitEnds(u) ==
    /\ UpdaterAt(u, "wait")
    /\ UpdaterTo(u, IF done # "no" \/ runs # "none" THEN "done" ELSE "error")
    /\ UNCHANGED <<installer, part, done, installed, runs>>

UpdateInit ==
    /\ installer = "none" /\ part = "none" /\ done = "stale" /\ installed = "old" /\ runs = "old"
    /\ upd = [u \in Updaters |-> [pc |-> "none", window |-> TRUE, exe |-> "installer"]]

UpdateNext ==
    \/ AppExits \/ \E relaunch \in BOOLEAN : AppStarts(relaunch)
    \/ \E u \in Updaters :
          \/ FetchChecksum(u) \/ DownloadEnds(u) \/ VerifyInstaller(u) \/ ReplaceInstaller(u)
          \/ RunInstaller(u) \/ InstallerEnds(u) \/ WaitEnds(u)
          \/ \E window \in WindowOpens : CheckAndInstallApp(u, window)

UpdateSpec == UpdateInit /\ [][UpdateNext]_updateVars
-----------------------------------------------------------------------------
(* A window that waits for the new version is not misled by what it finds: *)
(* the old version is gone, the new one in its place, and the status file  *)
(* was written by no update before; so what it reports done is.            *)
DoneIsNew ==
    \A u \in Updaters : upd[u].window /\ upd[u].pc \in {"wait", "done"} =>
        installed = "new" /\ runs # "old" /\ (UpdaterAt(u, "wait") => done # "stale")
=============================================================================
