------------------------------ MODULE DataFolder ------------------------------
(***************************************************************************)
(* The folder with 2Wings' data: at the first start after the program was  *)
(* renamed the data are copied from the old name's folder (core/paths.py,  *)
(* migrate_legacy_app_data), later the user may choose another folder      *)
(* (modules/storage/migrate.py, apply_storage_root).  Both only copy, item *)
(* by item and file by file.  GUI and daemon each remember which folder    *)
(* the settings named when they read them last; the settings stay put.     *)
(*                                                                         *)
(* A file's content is the number of the write that made it.  A file that  *)
(* is being copied is open: nobody replaces it meanwhile.                  *)
(***************************************************************************)
EXTENDS Naturals

CONSTANTS
    Folders,
    Old, NewHome,  \* the folder of the previous name, the default one of this name
    Items,         \* the entries of a data folder
    SettingsItem,
    FilesOf,       \* the files of each
    Users, Mover,  \* GUI and daemon; the GUI, whose page moves the folder
    MigrateAlone,  \* while one process copies the old data, no other starts
    MaxWrites, MaxCrashes

ASSUME FolderAssumption ==
    /\ Old \in Folders /\ NewHome \in Folders /\ Old # NewHome
    /\ Mover \in Users
    /\ SettingsItem \in Items /\ MigrateAlone \in BOOLEAN
    /\ \A i, j \in Items : i # j => FilesOf[i] \cap FilesOf[j] = {}
    /\ MaxWrites \in Nat \ {0} /\ MaxCrashes \in Nat

VARIABLES
    content,   \* of each file in each folder
    made,      \* the directories there are in each folder
    root,      \* storage_root in the settings
    proc,      \* the processes: the folder each uses, and its copy job
    written,   \* the last write of each file
    crashes

folderVars == <<content, made, root, proc, written, crashes>>
Absent == 0
Torn == MaxWrites + 1      \* cut off, or being copied
Files == UNION {FilesOf[i] : i \in Items}
Copy(pc, d, from, to, todo) ==
    [pc |-> pc, using |-> d, from |-> from, to |-> to, todo |-> todo, files |-> {}, file |-> {}]
Job(r, todo, files, file) ==
    [pc |-> r.pc, using |-> r.using, from |-> r.from, to |-> r.to,
     todo |-> todo, files |-> files, file |-> file]
Idle(pc, d) == Copy(pc, d, NewHome, NewHome, {})
Off == Idle("off", NewHome)
Exists(d, f) == content[d][f] # Absent
Pc(p, pc) == proc[p].pc = pc
Becomes(p, rec) == proc' = [proc EXCEPT ![p] = rec]
Copying(d, f) == \E p \in Users : proc[p].to = d /\ f \in proc[p].file
-----------------------------------------------------------------------------
(* A start: without settings in the new folder the old one's data come.    *)
There(d, i) == IF i = SettingsItem THEN \E f \in FilesOf[i] : Exists(d, f) ELSE i \in made[d]
Holds(d) == {i \in Items : There(d, i)}
LegacyDue == ~There(NewHome, SettingsItem) /\ Holds(Old) # {}
Launch(p) ==
    /\ Pc(p, "off") /\ (MigrateAlone => \A q \in Users : ~Pc(q, "legacy"))
    /\ IF LegacyDue
       THEN Becomes(p, Copy("legacy", NewHome, Old, NewHome, Holds(Old)))
       ELSE Becomes(p, Idle("layout", NewHome))
    /\ UNCHANGED <<content, made, root, written, crashes>>

(* ensure_layout makes the directories, in the folder of the settings.     *)
EnsureLayout(p) ==
    /\ Pc(p, "layout")
    /\ made' = [made EXCEPT ![root] = @ \cup (Items \ {SettingsItem})]
    /\ Becomes(p, Idle("runs", root))
    /\ UNCHANGED <<content, root, written, crashes>>

(* get_settings keeps what it has read; reload_settings reads again. *)
ReloadSettings(p) ==
    /\ Pc(p, "runs") /\ Becomes(p, Idle("runs", root))
    /\ UNCHANGED <<content, made, root, written, crashes>>

(* Lists, results and versions go to the folder, the settings stay.  (What *)
(* a process writes beside its own copying, the other writes as well.)     *)
WriteFile(p, i, f) ==
    LET d == IF i = SettingsItem THEN NewHome ELSE proc[p].using IN
    /\ Pc(p, "runs") /\ f \in FilesOf[i] /\ ~Copying(d, f) /\ written[f] < MaxWrites
    /\ written' = [written EXCEPT ![f] = @ + 1]
    /\ content' = [content EXCEPT ![d][f] = written[f] + 1]
    /\ made' = [made EXCEPT ![d] = @ \cup ({i} \ {SettingsItem})]
    /\ UNCHANGED <<root, proc, crashes>>

(* apply_storage_root; the same folder again is only saved.                *)
ApplyStorage(p, d) ==
    /\ p = Mover /\ Pc(p, "runs") /\ d # Old
    /\ IF d = proc[p].using
       THEN root' = d /\ Becomes(p, Idle("layout", d))
       ELSE /\ root' = root
            /\ Becomes(p, Copy("move", proc[p].using, proc[p].using, d,
                               Holds(proc[p].using) \ {SettingsItem}))
    /\ UNCHANGED <<content, made, written, crashes>>

(* Another item.  An old one that is there already, were it half, is left  *)
(* out; a move adds what is missing in it.                                 *)
NextItem(p, i) ==
    LET r == proc[p] IN
    /\ i \in r.todo /\ r.files = {} /\ r.file = {}
    /\ Becomes(p, Job(r, r.todo \ {i}, IF r.pc = "legacy" /\ There(r.to, i) THEN {}
                                      ELSE {f \in FilesOf[i] : Exists(r.from, f)}, {}))
    /\ made' = [made EXCEPT ![r.to] = @ \cup ({i} \ {SettingsItem})]
    /\ UNCHANGED <<content, root, written, crashes>>

(* Deviation: what is there is written over. *)
CopyOver(p, f) ==
    LET r == proc[p] IN
    /\ f \in r.files /\ r.file = {}
    /\ content' = [content EXCEPT ![r.to][f] = Torn]
    /\ Becomes(p, Job(r, r.todo, r.files \ {f}, {f}))
    /\ UNCHANGED <<made, root, written, crashes>>

(* _merge_copytree leaves files that are there; copytree, into a directory *)
(* that was not, does not look.                                            *)
CopyFile(p, f) ==
    LET r == proc[p] IN
    /\ f \in r.files /\ r.file = {}
    /\ IF r.pc = "move" /\ Exists(r.to, f)
       THEN content' = content /\ Becomes(p, Job(r, r.todo, r.files \ {f}, {}))
       ELSE /\ ~Copying(r.to, f) /\ content' = [content EXCEPT ![r.to][f] = Torn]
            /\ Becomes(p, Job(r, r.todo, r.files \ {f}, {f}))
    /\ UNCHANGED <<made, root, written, crashes>>

FileCopied(p) ==
    LET r == proc[p] IN
    /\ r.file # {}
    /\ content' = [content EXCEPT ![r.to] = [f \in Files |-> IF f \in r.file THEN content[r.from][f] ELSE @[f]]]
    /\ Becomes(p, Job(r, r.todo, r.files, {}))
    /\ UNCHANGED <<made, root, written, crashes>>

AllCopied(p) == proc[p].todo = {} /\ proc[p].files = {} /\ proc[p].file = {}

LegacyCopied(p) ==
    /\ Pc(p, "legacy") /\ AllCopied(p)
    /\ Becomes(p, Idle("layout", NewHome))
    /\ UNCHANGED <<content, made, root, written, crashes>>

(* The settings name the new folder when everything is there.              *)
Moved(p) ==
    /\ Pc(p, "move") /\ AllCopied(p)
    /\ root' = proc[p].to
    /\ Becomes(p, Idle("layout", NewHome))
    /\ UNCHANGED <<content, made, written, crashes>>

(* A file that cannot be read, a full disk: the job of the page ends, or   *)
(* the process that starts.                                                *)
CopyFails(p) ==
    /\ proc[p].pc \in {"legacy", "move"} /\ ~AllCopied(p) /\ crashes < MaxCrashes
    /\ crashes' = crashes + 1
    /\ Becomes(p, IF Pc(p, "legacy") THEN Off ELSE Idle("runs", proc[p].using))
    /\ UNCHANGED <<content, made, root, written>>

(* The end of a process, wherever it is. *)
ProcEnds(p) ==
    /\ ~Pc(p, "off") /\ crashes < MaxCrashes
    /\ crashes' = crashes + 1 /\ Becomes(p, Off)
    /\ UNCHANGED <<content, made, root, written>>

FolderInit ==
    /\ \E old \in SUBSET Files :
          /\ written = [f \in Files |-> IF f \in old THEN 1 ELSE Absent]
          /\ content = [d \in Folders |-> [f \in Files |-> IF d = Old /\ f \in old THEN 1 ELSE Absent]]
          /\ made = [d \in Folders |-> {i \in Items \ {SettingsItem} : d = Old /\ FilesOf[i] \cap old # {}}]
    /\ root = NewHome /\ proc = [p \in Users |-> Off] /\ crashes = 0

FolderNext == \E p \in Users :
    \/ Launch(p) \/ EnsureLayout(p) \/ ReloadSettings(p) \/ FileCopied(p)
    \/ LegacyCopied(p) \/ Moved(p) \/ CopyFails(p) \/ ProcEnds(p)
    \/ \E d \in Folders : ApplyStorage(p, d)
    \/ \E f \in Files : CopyFile(p, f) \/ \E i \in Items : WriteFile(p, i, f)
    \/ \E i \in Items : NextItem(p, i)

FolderSpec == FolderInit /\ [][FolderNext]_folderVars
-----------------------------------------------------------------------------
(* What was written last of a file is in some folder, whole, whatever ends *)
(* or fails in the middle of a copy, and however the folders were used     *)
(* before.                                                                 *)
StillThere == \A f \in Files : written[f] # Absent => \E d \in Folders : content[d][f] = written[f]

(* What makes it inductive: copies are of files that are there, to files   *)
(* that are open (Torn) until they end; the old name's folder never        *)
(* changes, and while its data are copied nobody else writes the new one:  *)
(* who runs already has seen to it that nothing is left to copy.           *)
FolderTypeOK ==
    /\ written \in [Files -> 0 .. MaxWrites]
    /\ content \in [Folders -> [Files -> 0 .. Torn]]
    /\ made \in [Folders -> SUBSET Items]
    /\ root \in Folders \ {Old}
    /\ proc \in [Users -> [pc : {"off", "legacy", "layout", "runs", "move"},
                           using : Folders \ {Old}, from : Folders, to : Folders \ {Old},
                           todo : SUBSET Items, files : SUBSET Files, file : SUBSET Files]]

Runs(p) == proc[p].pc \in {"layout", "runs", "move"}
Due(p) == proc[p].files \cup proc[p].file
AllThere == \A i \in Items : There(Old, i) => There(NewHome, i)

CopyOf(p) ==
    /\ proc[p].pc \notin {"legacy", "move"} => AllCopied(p)
    /\ \A f \in Due(p) :
          /\ Exists(proc[p].from, f)
          /\ \A i \in Items \ {SettingsItem} : f \in FilesOf[i] => i \in made[proc[p].to]
    /\ \A f \in proc[p].file :
          /\ content[proc[p].to][f] = Torn
          /\ \A q \in Users \ {p} : proc[q].to = proc[p].to => f \notin proc[q].file

LegacyOf(p) ==
    /\ proc[p].from = Old /\ proc[p].to = NewHome
    /\ \A q \in Users \ {p} : ~Pc(q, "legacy") /\ (Runs(q) => AllThere)
    /\ \A f \in proc[p].files : ~Exists(NewHome, f)
    /\ proc[p].files # {} => \A q \in Users : ~Runs(q)
    /\ \A i \in Items \ proc[p].todo :
          There(Old, i) => \/ There(NewHome, i)
                           \/ i = SettingsItem /\ proc[p].files \cap FilesOf[i] # {}

MadeInv ==
    \A d \in Folders, i \in Items \ {SettingsItem} : \A f \in FilesOf[i] : Exists(d, f) => i \in made[d]

RunsInv == \A p \in Users : Runs(p) => There(NewHome, SettingsItem) \/ AllThere

FolderInv ==
    /\ FolderTypeOK /\ MadeInv /\ RunsInv /\ StillThere
    /\ \A p \in Users : CopyOf(p) /\ (Pc(p, "legacy") => LegacyOf(p))

(* A process whose move is done finds there what it wrote last.  ("Данные  *)
(* перенесены", the data have been moved, migrate.py:57.)                  *)
FoundAgain ==
    [][\A p \in Users : Pc(p, "move") /\ root' # root =>
          \A i \in Items \ {SettingsItem} : \A f \in FilesOf[i] :
              content[proc[p].from][f] = written[f] => content[root'][f] = written[f]]_folderVars
=============================================================================
