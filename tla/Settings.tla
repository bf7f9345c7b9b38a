------------------------------ MODULE Settings ------------------------------
(***************************************************************************)
(* core/settings.py: settings.json shared by the GUI and the daemon.  Each *)
(* process keeps one cached settings object, which its threads change in   *)
(* place, and a snapshot of what it last read or wrote; a save merges the  *)
(* fields that differ from the snapshot into the file as it is now.        *)
(*                                                                         *)
(* An object is an id in "heap", since a thread goes on holding the one it *)
(* got after the process has cached another.  A thread sets one field of   *)
(* its own, which bears its name, so every change has one author.          *)
(***************************************************************************)
EXTENDS Naturals, FiniteSets

CONSTANTS
    Procs, Threads,
    Home,              \* the process of each thread
    Objects,           \* ids of settings objects; a dropped one is reused
    NoObject,
    Values, Default,   \* of a field; Default is the one in AppSettings
    OneAtATime,        \* TRUE: one thread of a process at a time, from get to save
    SavesApart,        \* TRUE: no two processes between reading and writing the file
    ReadMayFail        \* TRUE: the file may be unreadable, and Default is used

ASSUME SettingsAssumption ==
    /\ Home \in [Threads -> Procs]
    /\ NoObject \notin Objects
    /\ Default \in Values
    /\ OneAtATime \in BOOLEAN /\ SavesApart \in BOOLEAN /\ ReadMayFail \in BOOLEAN

VARIABLES
    file,      \* settings.json
    heap,      \* the settings objects
    cached,    \* _settings of each process
    snap,      \* _settings_snapshot of each process
    pc, held,  \* where each thread is and the object it holds
    disk,      \* the copy a thread has read and is merging into
    want       \* what each thread set its field to last

vars == <<file, heap, cached, snap, pc, held, disk, want>>

Fields == Threads
Data   == [Fields -> Values]
Blank  == [f \in Fields |-> Default]
Pcs    == {"idle", "held", "load", "merge", "write", "publish", "snap"}

STypeOK ==
    /\ file \in Data
    /\ heap \in [Objects -> Data]
    /\ cached \in [Procs -> Objects \cup {NoObject}]
    /\ snap \in [Procs -> Data]
    /\ pc \in [Threads -> Pcs]
    /\ held \in [Threads -> Objects \cup {NoObject}]
    /\ disk \in [Threads -> Data]
    /\ want \in Data

Goto(t, place) == pc' = [pc EXCEPT ![t] = place]

(* A call is over: its locals are gone. *)
Leave(t) ==
    /\ Goto(t, "idle")
    /\ held' = [held EXCEPT ![t] = NoObject]
    /\ disk' = [disk EXCEPT ![t] = Blank]

Mates(t) == {u \in Threads \ {t} : Home[u] = Home[t]}

(* What the discipline of the callers, if any, lets a thread begin. *)
MayBegin(t) == OneAtATime => \A u \in Mates(t) : pc[u] = "idle"
MayLoad(t)  == SavesApart => \A u \in Threads : pc[u] \notin {"merge", "write"}

Unused(o) == (\A p \in Procs : cached[p] # o) /\ (\A t \in Threads : held[t] # o)

Contents == {file} \cup IF ReadMayFail THEN {Blank} ELSE {}

(* Deviations: the object is written whole; whatever in it is not the      *)
(* default is.                                                             *)
MergedWhole(mine, base, theirs) == mine
MergedNonDefault(mine, base, theirs) ==
    [f \in Fields |-> IF mine[f] # Default THEN mine[f] ELSE theirs[f]]
(* The fields of "mine" that differ from the snapshot go over what was read. *)
Merged(mine, base, theirs) ==
    [f \in Fields |-> IF mine[f] # base[f] THEN mine[f] ELSE theirs[f]]

-----------------------------------------------------------------------------
(* get_settings: the object everybody in the process shares, loaded by the *)
(* first to ask.                                                           *)
Get(t) ==
    /\ pc[t] = "idle" /\ MayBegin(t)
    /\ Goto(t, "held")
    /\ \/ /\ cached[Home[t]] # NoObject
          /\ held' = [held EXCEPT ![t] = cached[Home[t]]]
          /\ UNCHANGED <<heap, cached, snap>>
       \/ /\ cached[Home[t]] = NoObject
          /\ \E o \in Objects, d \in Contents :
                /\ Unused(o)
                /\ heap' = [heap EXCEPT ![o] = d]
                /\ cached' = [cached EXCEPT ![Home[t]] = o]
                /\ snap' = [snap EXCEPT ![Home[t]] = d]
                /\ held' = [held EXCEPT ![t] = o]
    /\ UNCHANGED <<file, disk, want>>

(* The caller sets its field and calls save_settings with the object. *)
Set(t, v) ==
    /\ pc[t] = "held"
    /\ heap' = [heap EXCEPT ![held[t]][t] = v]
    /\ want' = [want EXCEPT ![t] = v]
    /\ Goto(t, "load")
    /\ UNCHANGED <<file, cached, snap, held, disk>>

Load(t) ==
    /\ pc[t] = "load" /\ MayLoad(t)
    /\ \E d \in Contents : disk' = [disk EXCEPT ![t] = d]
    /\ Goto(t, "merge")
    /\ UNCHANGED <<file, heap, cached, snap, held, want>>

Merge(t) ==
    /\ pc[t] = "merge"
    /\ disk' = [disk EXCEPT ![t] = Merged(heap[held[t]], snap[Home[t]], disk[t])]
    /\ Goto(t, "write")
    /\ UNCHANGED <<file, heap, cached, snap, held, want>>

(* A temporary file replaces settings.json, or cannot: then save_settings  *)
(* raises, and the changed object stays cached.                            *)
Write(t) ==
    /\ pc[t] = "write"
    /\ \/ file' = disk[t] /\ Goto(t, "publish") /\ UNCHANGED <<held, disk>>
       \/ UNCHANGED file /\ Leave(t)
    /\ UNCHANGED <<heap, cached, snap, want>>

(* reload_settings reads; what follows is _set_settings_cache, as after a  *)
(* save.                                                                   *)
Reload(t) ==
    /\ pc[t] = "idle" /\ MayBegin(t)
    /\ \E d \in Contents : disk' = [disk EXCEPT ![t] = d]
    /\ Goto(t, "publish")
    /\ UNCHANGED <<file, heap, cached, snap, held, want>>

(* The new object is there for other threads before its snapshot is. *)
Publish(t) ==
    /\ pc[t] = "publish"
    /\ \E o \in Objects :
          /\ Unused(o)
          /\ heap' = [heap EXCEPT ![o] = disk[t]]
          /\ cached' = [cached EXCEPT ![Home[t]] = o]
          /\ held' = [held EXCEPT ![t] = o]
    /\ Goto(t, "snap")
    /\ UNCHANGED <<file, snap, disk, want>>

Snap(t) ==
    /\ pc[t] = "snap"
    /\ snap' = [snap EXCEPT ![Home[t]] = heap[held[t]]]
    /\ Leave(t)
    /\ UNCHANGED <<file, heap, cached, want>>

SInit ==
    /\ file \in Data
    /\ heap = [o \in Objects |-> Blank]
    /\ cached = [p \in Procs |-> NoObject]
    /\ snap = [p \in Procs |-> Blank]
    /\ pc = [t \in Threads |-> "idle"]
    /\ held = [t \in Threads |-> NoObject]
    /\ disk = [t \in Threads |-> Blank]
    /\ want = file

SNext ==
    \E t \in Threads :
        \/ Get(t) \/ (\E v \in Values : Set(t, v)) \/ Load(t) \/ Merge(t) \/ Write(t)
        \/ Reload(t) \/ Publish(t) \/ Snap(t)

SSpec == SInit /\ [][SNext]_vars

-----------------------------------------------------------------------------
(* Properties                                                              *)

(* A field of the file only ever changes to what its author set it to,     *)
(* unless the author's own save is still to come: no save takes another's  *)
(* setting back, of its own process or of the other, whatever was cached   *)
(* when.                                                                   *)
Saving == {"load", "merge", "write"}
NoClobber ==
    [][\A f \in Fields : file'[f] # file[f] /\ pc[f] \notin Saving
                         => file'[f] = want[f]]_vars

(* A save that went through has written what its caller set. *)
OwnChangeSaved ==
    [][\A t \in Threads : pc[t] = "write" /\ pc'[t] = "publish" => file'[t] = want[t]]_vars

(* What an object holds unsaved is its own process's: a field that another *)
(* process changes is never seen as changed here, so no save writes it.    *)
(* It is the snapshot that tells one from the other, and the object and    *)
(* the snapshot are replaced in two steps, by whichever thread comes.      *)
UnsavedIsOwn ==
    \A t \in Threads, f \in Fields :
        /\ pc[t] \in {"held", "load", "merge"}
        /\ heap[held[t]][f] # snap[Home[t]][f]
        => Home[f] = Home[t] /\ heap[held[t]][f] = want[f]

-----------------------------------------------------------------------------
(* The inductive invariant, for a process that lets its threads at the     *)
(* settings one at a time and processes that do not save at once.          *)

Inside(p, places) == \E t \in Threads : Home[t] = p /\ pc[t] \in places

Alone == \A t \in Threads : \A u \in Mates(t) : pc[t] = "idle" \/ pc[u] = "idle"

OneMerging ==
    \A t, u \in Threads : pc[t] \in {"merge", "write"} /\ pc[u] \in {"merge", "write"} => t = u

HeldIsCached ==
    \A t \in Threads : pc[t] \in {"held", "load", "merge", "write", "snap"} =>
        held[t] # NoObject /\ held[t] = cached[Home[t]]

CachesApart ==
    \A p, q \in Procs : cached[p] # NoObject /\ cached[p] = cached[q] => p = q

CacheInv ==
    \A p \in Procs, f \in Fields :
        cached[p] # NoObject /\ ~Inside(p, {"snap"}) /\ heap[cached[p]][f] # snap[p][f]
        => Home[f] = p /\ heap[cached[p]][f] = want[f]

SnapInv ==
    \A p \in Procs, f \in Fields :
        cached[p] # NoObject /\ Home[f] = p /\ ~Inside(p, {"publish", "snap"})
        => snap[p][f] = file[f]

DiskInv ==
    \A t \in Threads, f \in Fields :
        /\ pc[t] = "merge" => disk[t] = file
        /\ pc[t] = "write" /\ disk[t][f] # file[f] => Home[f] = Home[t] /\ disk[t][f] = want[f]
        /\ pc[t] = "publish" /\ Home[f] = Home[t] => disk[t][f] = file[f]
        /\ pc[t] = "snap" /\ Home[f] = Home[t] => heap[held[t]][f] = file[f]

SetInv ==
    \A t \in Threads :
        /\ pc[t] \in {"load", "merge"} => heap[held[t]][t] = want[t]
        /\ pc[t] = "write" => disk[t][t] = want[t]

SInv ==
    /\ STypeOK /\ Alone /\ OneMerging /\ HeldIsCached /\ CachesApart
    /\ CacheInv /\ SnapInv /\ DiskInv /\ SetInv
=============================================================================
