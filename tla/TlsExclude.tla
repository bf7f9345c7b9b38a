----------------------------- MODULE TlsExclude -----------------------------
(***************************************************************************)
(* modules/tls_exclude/watcher.py and assets/lua/twowings-tls-watch.lua:   *)
(* the engine appends a line per server that rejects a desynced TLS        *)
(* handshake to tls-alerts.txt, and a thread of the daemon moves the file  *)
(* aside, reads it, removes it and appends the new entries to the user's   *)
(* exclude lists.                                                          *)
(*                                                                         *)
(* A file is NoFile or File(the reports in it); a list is the number of    *)
(* lines each entry has in it.                                             *)
(***************************************************************************)
EXTENDS Naturals, FiniteSets

CONSTANTS
    Reports,         \* what the engine may report: one per server and kind
    Lists,           \* the domain list and the address list
    ListOf,          \* the list a report goes to; outside Lists if unusable
    NoReport,
    ReplaceBlocks,   \* TRUE: tls-alerts.txt cannot be moved while it is open
    IoMayFail,       \* TRUE: reading or appending may raise OSError
    DaemonMayDie,    \* TRUE: the daemon may be killed and started again
    Restarts         \* bound on restarts of the engine and of the daemon

ASSUME TlsAssumption ==
    /\ NoReport \notin Reports
    /\ Restarts \in Nat
    /\ ReplaceBlocks \in BOOLEAN /\ IoMayFail \in BOOLEAN /\ DaemonMayDie \in BOOLEAN

VARIABLES
    reported,   \* twowings_reported, gone with the engine
    writing,    \* the report the engine has tls-alerts.txt open for, and where it is
    alerts,     \* tls-alerts.txt
    taken,      \* tls-alerts.txt.taken
    pc, text,   \* the watcher: its place, and the reports it has read
    lines,      \* the exclude lists
    auto,       \* the setting tls_auto_exclude
    restarts,
    said,       \* history: reports whose line was written
    waived,     \* history: reports that came while the setting was off
    lost        \* history: reports in hand when a step failed

tvars == <<reported, writing, alerts, taken, pc, text, lines, auto, restarts, said, waived, lost>>
engine == <<reported, writing, restarts, said>>
daemon == <<pc, text, lines, taken, waived, lost>>

Usable == {r \in Reports : ListOf[r] \in Lists}
NoFile == {}
File(reports) == {reports}
In(file) == UNION file
Files == {NoFile} \cup {File(reports) : reports \in SUBSET Reports}
Listed == {r \in Usable : lines[r] > 0}

TTypeOK ==
    /\ reported \subseteq Reports
    /\ writing \in [report : Reports \cup {NoReport}, file : {"alerts", "taken", "gone"}]
    /\ alerts \in Files /\ taken \in Files
    /\ pc \in {"idle", "replace", "read", "unlink", "check", "apply"}
    /\ text \subseteq Reports
    /\ lines \in [Usable -> Nat]
    /\ auto \in BOOLEAN /\ restarts \in 0..Restarts
    /\ said \subseteq Reports /\ waived \subseteq Reports /\ lost \subseteq Reports

Closed == [report |-> NoReport, file |-> "gone"]

(* What is open, when the file at one place goes to another. *)
Now(place, next) ==
    IF writing.file = place THEN [report |-> writing.report, file |-> next] ELSE writing

-----------------------------------------------------------------------------
(* The engine *)

(* A rejection not seen before: the file is opened for appending.  If that *)
(* fails the engine stays silent about the server all the same.            *)
Open(r) ==
    /\ writing.report = NoReport /\ r \notin reported
    /\ reported' = reported \cup {r}
    /\ \/ /\ alerts' = File(In(alerts))
          /\ writing' = [report |-> r, file |-> "alerts"]
       \/ /\ IoMayFail
          /\ UNCHANGED <<alerts, writing>>
    /\ UNCHANGED <<daemon, auto, restarts, said>>

(* The line is written and the file closed, wherever the file is by now. *)
WriteLine ==
    LET r == writing.report IN
    /\ r # NoReport
    /\ writing' = Closed
    /\ said' = said \cup {r}
    /\ alerts' = IF writing.file = "alerts" THEN File(In(alerts) \cup {r}) ELSE alerts
    /\ taken' = IF writing.file = "taken" THEN File(In(taken) \cup {r}) ELSE taken
    /\ UNCHANGED <<reported, pc, text, lines, auto, restarts, waived, lost>>

(* A new engine has seen nothing. *)
EngineRestarts ==
    /\ restarts < Restarts
    /\ restarts' = restarts + 1
    /\ reported' = {} /\ writing' = Closed
    /\ UNCHANGED <<daemon, alerts, auto, said>>

-----------------------------------------------------------------------------
(* The watcher *)

Poll ==
    /\ pc = "idle" /\ alerts # NoFile
    /\ pc' = "replace"
    /\ UNCHANGED <<engine, alerts, taken, text, lines, auto, waived, lost>>

(* What is left of an earlier .taken is overwritten. *)
Replace ==
    /\ pc = "replace"
    /\ \/ /\ ReplaceBlocks => writing.file # "alerts"
          /\ pc' = "read"
          /\ taken' = alerts /\ alerts' = NoFile
          /\ writing' = Now("alerts", "taken")
       \/ /\ ReplaceBlocks /\ writing.file = "alerts"
          /\ pc' = "idle"
          /\ UNCHANGED <<taken, alerts, writing>>
    /\ UNCHANGED <<reported, restarts, said, text, lines, auto, waived, lost>>

Read ==
    /\ pc = "read"
    /\ pc' = "unlink"
    /\ text' = In(taken)
    /\ UNCHANGED <<engine, alerts, taken, lines, auto, waived, lost>>

(* Deviation: what is at the first path by now is removed as well. *)
UnlinkBoth ==
    /\ pc = "unlink"
    /\ pc' = "check"
    /\ taken' = NoFile /\ alerts' = NoFile
    /\ writing' = [writing EXCEPT !.file = "gone"]
    /\ UNCHANGED <<reported, restarts, said, text, lines, auto, waived, lost>>

Unlink ==
    /\ \/ pc = "unlink" /\ pc' = "check" /\ UNCHANGED lost
       \/ /\ IoMayFail /\ pc = "read"       \* read_text raised: removed all the same
          /\ pc' = "idle"
          /\ lost' = lost \cup In(taken)
    /\ taken' = NoFile
    /\ writing' = Now("taken", "gone")
    /\ UNCHANGED <<reported, restarts, said, alerts, text, lines, auto, waived>>

(* The setting decides once, for all that was read. *)
Check ==
    /\ pc = "check"
    /\ IF auto THEN pc' = "apply" /\ UNCHANGED <<text, waived>>
               ELSE pc' = "idle" /\ text' = {} /\ waived' = waived \cup text
    /\ UNCHANGED <<engine, alerts, taken, lines, auto, lost>>

(* The entries of a list; those it has already are left out. *)
Appended(entries) ==
    [r \in Usable |-> IF r \in entries /\ lines[r] = 0 THEN 1 ELSE lines[r]]

(* One list after the other; one that cannot be written ends the poll, and *)
(* the reports not yet applied with it.                                    *)
ApplyReports(l) ==
    LET entries == {r \in text : ListOf[r] = l} IN
    /\ pc = "apply" /\ entries # {}
    /\ \/ /\ lines' = Appended(entries)
          /\ text' = text \ entries
          /\ UNCHANGED <<pc, lost>>
       \/ /\ IoMayFail
          /\ pc' = "idle" /\ text' = {}
          /\ lost' = lost \cup text
          /\ UNCHANGED lines
    /\ UNCHANGED <<engine, alerts, taken, auto, waived>>

(* Deviation: the first list is the last. *)
AppliedEarly ==
    /\ pc = "apply"
    /\ pc' = "idle" /\ text' = {}
    /\ UNCHANGED <<engine, alerts, taken, lines, auto, waived, lost>>

Applied ==
    /\ pc = "apply" /\ text \cap Usable = {}
    /\ pc' = "idle" /\ text' = {}
    /\ UNCHANGED <<engine, alerts, taken, lines, auto, waived, lost>>

(* The daemon is killed and comes up again; the engine may live on.  No    *)
(* code reads a .taken that is left behind.                                *)
Die ==
    /\ DaemonMayDie /\ pc # "idle" /\ restarts < Restarts
    /\ restarts' = restarts + 1
    /\ pc' = "idle" /\ text' = {}
    /\ lost' = lost \cup text \cup In(taken)
    /\ UNCHANGED <<reported, writing, said, alerts, taken, lines, auto, waived>>

(* The user turns the setting on or off. *)
Toggle ==
    /\ auto' = ~auto
    /\ UNCHANGED <<engine, daemon, alerts>>

TInit ==
    /\ reported = {} /\ writing = Closed /\ restarts = 0
    /\ alerts \in Files /\ taken = NoFile
    /\ pc = "idle" /\ text = {}
    /\ lines = [r \in Usable |-> 0]
    /\ auto \in BOOLEAN
    /\ said = In(alerts) /\ waived = {} /\ lost = {}

Watch == Poll \/ Replace \/ Read \/ Unlink \/ Check \/ (\E l \in Lists : ApplyReports(l)) \/ Applied

TNext == Watch \/ (\E r \in Reports : Open(r)) \/ WriteLine \/ EngineRestarts \/ Die \/ Toggle

TSpec == TInit /\ [][TNext]_tvars

(* The watcher's loop goes on, and a line begun is written: a file is open *)
(* for the time of one write.                                              *)
FairTSpec == TSpec /\ WF_tvars(Watch) /\ WF_tvars(WriteLine)

-----------------------------------------------------------------------------
(* Properties                                                              *)

(* No report vanishes on its way through two files and a variable, though  *)
(* the engine writes at any moment: until it is in a list, or dropped      *)
(* because the setting is off, it is somewhere.  Only a read or an append  *)
(* that fails, or the daemon's end, loses what was in hand.                *)
Accounted ==
    said \cap Usable \subseteq
        In(alerts) \cup In(taken) \cup text \cup Listed \cup waived \cup lost

(* No entry is in a list twice, though engines report again what an        *)
(* earlier one reported, and the daemon dies between any two steps.        *)
NothingTwice == \A r \in Usable : lines[r] <= 1

(* Every report written reaches its list, or the setting's refusal, unless *)
(* a failure takes it: none is left lying in a file.                       *)
ReportsLand == \A r \in Usable : r \in said ~> r \in Listed \cup waived \cup lost

(* Inductive: a file is out of the engine's reach before it is read, its   *)
(* reports are in hand before it is removed, and one that is left behind   *)
(* holds lost reports only.                                                *)
TInv ==
    /\ TTypeOK /\ Accounted /\ NothingTwice
    /\ writing.report # NoReport => writing.file = "alerts" /\ alerts # NoFile
    /\ pc \notin {"read", "unlink"} => In(taken) \subseteq lost
    /\ pc = "unlink" => text = In(taken)
    /\ pc \in {"idle", "replace", "read"} => text = {}
    /\ pc = "replace" => alerts # NoFile
=============================================================================
