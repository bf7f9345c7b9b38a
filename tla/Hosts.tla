-------------------------------- MODULE Hosts --------------------------------
(***************************************************************************)
(* modules/hosts: 2Wings keeps blocks of its own in the hosts file, one    *)
(* for each preset and each service the user chose.  The file is rewritten *)
(* by jobs of the page (ui/pages/hosts.py, one at a time) and by the       *)
(* daemon's threads (catalog refresh, cleanup of retired relays), with     *)
(* nothing between them but the file.                                      *)
(*                                                                         *)
(* A line is a record; comments are blank lines, the addresses of a block  *)
(* one row with the version of the catalog they were asked with.           *)
(***************************************************************************)
EXTENDS Naturals, Sequences, SequencesExt, Places

CONSTANTS
    Presets, Services,
    HJobs,        \* the jobs that may run at once
    HostsFound,   \* the user's lines at the start
    DefaultHosts, \* DEFAULT_HOSTS
    MaxBlanks,    \* bound on the blank lines of a file that is rewritten
    MaxCatalog,   \* bound on the versions of the catalog; 1 comes with the program
    MaxEdits      \* bound on the user's edits

(* Blocks of services have a prefix of their own; the file is as it was    *)
(* before 2Wings came.                                                     *)
ASSUME HostsAssumption ==
    /\ Presets \cap Services = {} /\ IsFiniteSet(Services)
    /\ {HostsFound, DefaultHosts} \subseteq Seq([k : {"user", "blank"}, of : STRING, at : {0}])

VARIABLES
    hosts, backup,
    choice,       \* settings.hosts_services
    catalog,      \* version of the cached catalog, and if the next check is due
    hjob,
    mine, first   \* what the user's lines are; the file before the first change

hostsVars == <<hosts, backup, choice, catalog, hjob, mine, first>>
Blocks == Presets \cup Services

Line(k, of) == [k |-> k, of |-> of, at |-> 0]
Row(of, at) == [k |-> "row", of |-> of, at |-> at]
Blank == Line("blank", "")
NoBackup == <<Line("none", "")>>
BlankLines(lines) == Cardinality({i \in DOMAIN lines : lines[i].k = "blank"})
HIdle == [op |-> "none", pc |-> "idle", sel |-> {}, rows |-> <<>>, text |-> <<>>, current |-> 0]
Active == IF catalog.cached > 1 THEN catalog.cached ELSE 1

-----------------------------------------------------------------------------
(* Deviation: all that follows the block goes with it. *)
RemoveRest(lines, b) ==
    LET before == {i \in DOMAIN lines : \A k \in 1 .. i : lines[k] # Line("begin", b)}
    IN  [i \in before |-> lines[i]]

(* hosts_file.py.  remove_block: from each begin of the block to the next  *)
(* end of it, or to the end of the file.                                   *)
InBlock(lines, b, i) ==
    \E k \in 1 .. i : /\ lines[k] = Line("begin", b)
                      /\ \A n \in k + 1 .. i - 1 : lines[n] # Line("end", b)
RemoveBlock(lines, b) == Picked(lines, {i \in DOMAIN lines : ~InBlock(lines, b, i)})

Trimmed(lines) ==
    LET filled == {i \in DOMAIN lines : lines[i].k # "blank"}
    IN  IF filled = {} THEN <<>> ELSE SubSeq(lines, 1, CHOOSE i \in filled : \A k \in filled : k <= i)

SetBlock(lines, b, rows) ==
    LET rest == Trimmed(RemoveBlock(lines, b)) IN
    IF rows = <<>> THEN rest
    ELSE rest \o (IF rest = <<>> THEN <<>> ELSE <<Blank>>)
              \o <<Line("begin", b)>> \o rows \o <<Line("end", b)>>

BlocksOf(lines) == {lines[i].of : i \in {n \in DOMAIN lines : lines[n].k = "begin"}}

SetBlocks(lines, list, rows) ==
    LET text[n \in 0 .. Len(list)] ==
          IF n = 0 THEN lines ELSE SetBlock(text[n - 1], list[n], rows[list[n]])
    IN  text[Len(list)]

(* Deviation: what is not wanted any more is left. *)
ServicesOnlySet(lines, rows) == SetBlocks(lines, SetToSeq(DOMAIN rows), rows)

(* _services_text: blocks of services that are not wanted go, the others   *)
(* are set one by one.                                                     *)
ServicesText(lines, rows) ==
    LET gone == SetToSeq((BlocksOf(lines) \cap Services) \ DOMAIN rows)
    IN  SetBlocks(SetBlocks(lines, gone, [b \in Services |-> <<>>]), SetToSeq(DOMAIN rows), rows)

-----------------------------------------------------------------------------
(* service.py: a job reads the file, makes the new text and writes it.     *)

Begin(j, op, sel, pc) ==
    /\ hjob[j].pc = "idle" /\ BlankLines(hosts) <= MaxBlanks
    /\ hjob' = [hjob EXCEPT ![j] = [HIdle EXCEPT !.op = op, !.sel = sel, !.pc = pc, !.current = Active]]
    /\ UNCHANGED <<hosts, backup, choice, catalog, mine, first>>

HostsGo(j, pc) == hjob' = [hjob EXCEPT ![j].pc = pc]
ReadText(j, text, pc) == hjob' = [hjob EXCEPT ![j].text = text, ![j].pc = pc]
EndHosts(j) == hjob' = [hjob EXCEPT ![j] = HIdle]

BeginPreset(j, b) == Begin(j, "preset", {b}, "read")
BeginServices(j, sel) == Begin(j, "services", sel, "ask")
BeginRestore(j, op) == Begin(j, op, {}, "read")
BeginRefresh(j, force) == (force \/ catalog.due) /\ Begin(j, "refresh", {}, "fetch")

(* A preset that has entries is switched off, else on.                     *)
ReadPreset(j) ==
    /\ hjob[j].op = "preset" /\ hjob[j].pc = "read"
    /\ LET b == CHOOSE x \in hjob[j].sel : TRUE
           rows == IF b \in BlocksOf(hosts) THEN <<>> ELSE <<Row(b, 0)>>
       IN  ReadText(j, SetBlock(hosts, b, rows), "write")
    /\ UNCHANGED <<hosts, backup, choice, catalog, mine, first>>

ReadRestore(j) ==
    /\ hjob[j].op \in {"default", "backup"} /\ hjob[j].pc = "read"
    /\ CASE hjob[j].op = "default" -> ReadText(j, DefaultHosts, "write")
         [] hjob[j].op = "backup" /\ backup = NoBackup -> EndHosts(j)
         [] hjob[j].op = "backup" /\ backup # NoBackup -> ReadText(j, backup, "write")
    /\ UNCHANGED <<hosts, backup, choice, catalog, mine, first>>

(* update_catalog: only a newer one is kept; the services are asked again  *)
(* in any case.                                                            *)
Fetched(j, v) ==
    /\ hjob[j].pc = "fetch"
    /\ catalog' = [cached |-> IF v > hjob[j].current THEN v ELSE catalog.cached, due |-> FALSE]
    /\ IF choice = {} THEN EndHosts(j)
       ELSE hjob' = [hjob EXCEPT ![j].pc = "ask", ![j].sel = choice]
    /\ UNCHANGED <<hosts, backup, choice, mine, first>>

(* collect_service_rows: the services of alive have an address that        *)
(* answers.                                                                *)
Asked(j, alive) ==
    /\ hjob[j].pc = "ask" /\ alive \subseteq hjob[j].sel
    /\ hjob' = [hjob EXCEPT ![j].pc = "read", ![j].rows =
          [s \in hjob[j].sel |-> IF s \in alive THEN <<Row(s, Active)>> ELSE <<>>]]
    /\ UNCHANGED <<hosts, backup, choice, catalog, mine, first>>

(* No server answers, or the catalog cannot be had. *)
HostsJobFails(j) ==
    /\ hjob[j].pc \in {"fetch", "ask"} /\ EndHosts(j)
    /\ UNCHANGED <<hosts, backup, choice, catalog, mine, first>>

ReadServices(j) ==
    /\ hjob[j].op \in {"services", "refresh"} /\ hjob[j].pc = "read"
    /\ LET text == ServicesText(hosts, hjob[j].rows)
       IN  ReadText(j, text, IF text = hosts THEN "save" ELSE "write")
    /\ UNCHANGED <<hosts, backup, choice, catalog, mine, first>>

(* write_hosts: the copy comes before the first change, then the file is   *)
(* emptied and written; without access nothing is.                         *)
Truncate(j) ==
    /\ hjob[j].pc = "write"
    /\ backup' = IF backup = NoBackup THEN hosts ELSE backup
    /\ first' = IF first = NoBackup THEN hosts ELSE first
    /\ hosts' = <<>>
    /\ HostsGo(j, "fill")
    /\ UNCHANGED <<choice, catalog, mine>>

AccessDenied(j) ==
    /\ hjob[j].pc = "write" /\ EndHosts(j)
    /\ UNCHANGED <<hosts, backup, choice, catalog, mine, first>>

UserLines(lines) == Picked(lines, {i \in DOMAIN lines : lines[i].k = "user"})

Fill(j) ==
    /\ hjob[j].pc = "fill"
    /\ hosts' = hjob[j].text
    /\ mine' = IF hjob[j].op \in {"default", "backup"} THEN UserLines(hosts') ELSE mine
    /\ IF hjob[j].op = "preset" THEN EndHosts(j) ELSE HostsGo(j, "save")
    /\ UNCHANGED <<backup, choice, catalog, first>>

(* The choice is remembered; a restored file has none (_forget_services).  *)
Remembered(j) == IF hjob[j].op \in {"default", "backup"} THEN {} ELSE hjob[j].sel

SaveChoice(j) ==
    /\ hjob[j].pc = "save"
    /\ choice' = Remembered(j)
    /\ EndHosts(j)
    /\ UNCHANGED <<hosts, backup, catalog, mine, first>>

(* The user edits the file in a text editor (open_in_editor).  His lines   *)
(* go in front or to the end; markers he leaves alone; he does not save in *)
(* the instants between a job's reading and writing.                       *)
Quiet == \A j \in HJobs : hjob[j].pc \in {"idle", "fetch", "ask"}
UserEdits ==
    /\ Quiet /\ Len(mine) < Len(UserLines(HostsFound)) + MaxEdits
    /\ \E l \in {Line("user", "new")} :
          \/ hosts' = <<l>> \o hosts /\ mine' = <<l>> \o mine
          \/ hosts' = Append(hosts, l) /\ mine' = Append(mine, l)
    /\ UNCHANGED <<backup, choice, catalog, hjob, first>>

UserRemoves(i) ==
    /\ Quiet /\ i \in DOMAIN hosts /\ hosts[i].k = "user"
    /\ hosts' = RemoveAt(hosts, i) /\ mine' = UserLines(hosts')
    /\ UNCHANGED <<backup, choice, catalog, hjob, first>>

CheckDue == /\ ~catalog.due /\ catalog' = [catalog EXCEPT !.due = TRUE]
            /\ UNCHANGED <<hosts, backup, choice, hjob, mine, first>>

HostsInit ==
    /\ hosts = HostsFound /\ backup = NoBackup /\ choice = {}
    /\ catalog = [cached |-> 0, due |-> TRUE]
    /\ hjob = [j \in HJobs |-> HIdle]
    /\ mine = UserLines(HostsFound) /\ first = NoBackup

HostsNext ==
    \/ \E j \in HJobs :
          \/ \E b \in Presets : BeginPreset(j, b)
          \/ \E sel \in SUBSET Services : BeginServices(j, sel) \/ Asked(j, sel)
          \/ \E op \in {"default", "backup"} : BeginRestore(j, op)
          \/ \E force \in BOOLEAN : BeginRefresh(j, force)
          \/ \E v \in 1 .. MaxCatalog : Fetched(j, v)
          \/ ReadPreset(j) \/ ReadRestore(j) \/ ReadServices(j) \/ HostsJobFails(j)
          \/ Truncate(j) \/ AccessDenied(j) \/ Fill(j) \/ SaveChoice(j)
    \/ UserEdits \/ CheckDue
    \/ \E i \in DOMAIN hosts : UserRemoves(i)

HostsSpec == HostsInit /\ [][HostsNext]_hostsVars
-----------------------------------------------------------------------------
(* What the user wrote stays, in its order, through every rewriting of the *)
(* blocks, and the backup is the file as it was before the first change.   *)
HostsKept ==
    /\ backup = first
    /\ (\A j \in HJobs : hjob[j].pc # "fill") => UserLines(hosts) = mine

(* A block in the file is a service that is chosen, and there once: else   *)
(* a refresh would no longer renew its addresses.  No catalog is replaced  *)
(* by an older one.                                                        *)
Begins(b) == {i \in DOMAIN hosts : hosts[i] = Line("begin", b)}
ChoiceInStep ==
    /\ (\A j \in HJobs : hjob[j].pc = "idle") => BlocksOf(hosts) \cap Services \subseteq choice
    /\ \A b \in Blocks : \A i, k \in Begins(b) : i = k
    /\ \A j \in HJobs : hjob[j].current <= Active
=============================================================================
