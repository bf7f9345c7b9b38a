---------------------------- MODULE SharedProofs ----------------------------
(***************************************************************************)
(* Proofs about the modules of what GUI and daemon both write: the         *)
(* settings, the data folder and the results of the tests.                 *)
(***************************************************************************)
EXTENDS Settings, DataFolder, TestResults, TLAPS

-----------------------------------------------------------------------------
(***************************************************************************)
(* Proofs about Settings, for any processes, threads, objects and values:  *)
(* what the merge in save_settings guarantees, and from what.              *)
(***************************************************************************)
(* The conditions the guarantees rest on: one thread of a process at a     *)
(* time, saves of different processes apart, a file that can be read.      *)
Orderly == OneAtATime /\ SavesApart /\ ~ReadMayFail

(* The defaults are settings like others. *)
LEMMA BlankIsData == Blank \in Data
BY SettingsAssumption DEF Blank, Data

(* At first nothing is cached and nobody is inside. *)
LEMMA InitInv ==
    ASSUME Orderly PROVE SInit => SInv
BY SettingsAssumption, BlankIsData
   DEF SInit, SInv, Pcs, Mates, Inside, STypeOK, Alone, OneMerging, HeldIsCached, CachesApart, CacheInv, SnapInv, DiskInv, SetInv

(* The object got is the cached one, or a fresh copy of the file. *)
LEMMA GetKeeps ==
    ASSUME Orderly, SInv, NEW t \in Threads, Get(t)
    PROVE SInv'
<1> USE SettingsAssumption, BlankIsData
    DEF Orderly, SInv, STypeOK, Get, Goto, Pcs, Mates, Inside, MayBegin, Contents, Unused
<1>1. STypeOK'
  <2>1. CASE cached[Home[t]] # NoObject
    BY <2>1
  <2>2. CASE cached[Home[t]] = NoObject
    BY <2>2
  <2> QED BY <2>1, <2>2
<1>2. Alone'
    BY DEF Alone
<1>3. OneMerging'
    BY DEF OneMerging
<1>4. HeldIsCached'
  <2>1. CASE cached[Home[t]] # NoObject
    BY <2>1 DEF HeldIsCached, Alone
  <2>2. CASE cached[Home[t]] = NoObject
    <3>1. PICK o \in Objects, d \in Contents :
              /\ Unused(o)
              /\ heap' = [heap EXCEPT ![o] = d]
              /\ cached' = [cached EXCEPT ![Home[t]] = o]
              /\ snap' = [snap EXCEPT ![Home[t]] = d]
              /\ held' = [held EXCEPT ![t] = o]
      BY <2>2
    <3> QED BY <2>2, <3>1 DEF HeldIsCached, Alone
  <2> QED BY <2>1, <2>2
<1>5. CachesApart'
    BY DEF CachesApart
<1>6. CacheInv'
  <2>1. CASE cached[Home[t]] # NoObject
    BY <2>1 DEF CacheInv, HeldIsCached, CachesApart, Alone
  <2>2. CASE cached[Home[t]] = NoObject
    <3>1. PICK o \in Objects, d \in Contents :
              /\ Unused(o)
              /\ heap' = [heap EXCEPT ![o] = d]
              /\ cached' = [cached EXCEPT ![Home[t]] = o]
              /\ snap' = [snap EXCEPT ![Home[t]] = d]
              /\ held' = [held EXCEPT ![t] = o]
      BY <2>2
    <3> QED BY <2>2, <3>1 DEF CacheInv, HeldIsCached, CachesApart, Alone
  <2> QED BY <2>1, <2>2
<1>7. SnapInv'
  <2>1. CASE cached[Home[t]] # NoObject
    BY <2>1 DEF SnapInv, DiskInv, HeldIsCached, Alone
  <2>2. CASE cached[Home[t]] = NoObject
    <3>1. PICK o \in Objects, d \in Contents :
              /\ Unused(o)
              /\ heap' = [heap EXCEPT ![o] = d]
              /\ cached' = [cached EXCEPT ![Home[t]] = o]
              /\ snap' = [snap EXCEPT ![Home[t]] = d]
              /\ held' = [held EXCEPT ![t] = o]
      BY <2>2
    <3> QED BY <2>2, <3>1 DEF SnapInv, DiskInv, HeldIsCached, Alone
  <2> QED BY <2>1, <2>2
<1>8. DiskInv'
    BY DEF DiskInv, SnapInv, CacheInv, HeldIsCached, CachesApart, Alone, OneMerging
<1>9. SetInv'
    BY DEF SetInv, HeldIsCached, CachesApart, Alone
<1> QED BY <1>1, <1>2, <1>3, <1>4, <1>5, <1>6, <1>7, <1>8, <1>9

(* Only the caller's field changes, in the one object of its process. *)
LEMMA SetKeeps ==
    ASSUME Orderly, SInv, NEW t \in Threads, NEW v \in Values, Set(t, v)
    PROVE SInv'
<1> USE SettingsAssumption, BlankIsData
    DEF Orderly, SInv, STypeOK, Set, Goto, Pcs, Mates, Inside
<1>a. \A o \in Objects, f \in Fields :
          heap'[o][f] = IF o = held[t] /\ f = t THEN v ELSE heap[o][f]
    BY DEF Data, Fields, HeldIsCached
<1>b. t \in Fields /\ \A f \in Fields : want'[f] = IF f = t THEN v ELSE want[f]
    BY DEF Data, Fields
<1>c. \A u \in Threads : u # t /\ Home[u] = Home[t] => pc[u] = "idle"
    BY DEF Alone
<1>d. held[t] = cached[Home[t]] /\ held[t] # NoObject
    BY DEF HeldIsCached
<1>e. \A p \in Procs : cached[p] = held[t] => p = Home[t]
    BY <1>d DEF CachesApart
<1>1. STypeOK'
    BY DEF HeldIsCached, Data, Fields
<1>2. Alone'
    BY DEF Alone
<1>3. OneMerging'
    BY DEF OneMerging
<1>4. HeldIsCached'
    BY DEF HeldIsCached, Alone
<1>5. CachesApart'
    BY DEF CachesApart
<1>6. CacheInv'
    BY <1>a, <1>b, <1>c, <1>d, <1>e DEF Fields, CacheInv
<1>7. SnapInv'
    BY <1>a, <1>b, <1>c, <1>d, <1>e DEF Fields, SnapInv
<1>8. DiskInv'
    BY <1>a, <1>b, <1>c, <1>d, <1>e DEF Fields, DiskInv, HeldIsCached
<1>9. SetInv'
    BY <1>a, <1>b, <1>c, <1>d, <1>e DEF Fields, SetInv, HeldIsCached
<1> QED BY <1>1, <1>2, <1>3, <1>4, <1>5, <1>6, <1>7, <1>8, <1>9

(* No other save is under way, so the copy stays equal to the file. *)
LEMMA LoadKeeps ==
    ASSUME Orderly, SInv, NEW t \in Threads, Load(t)
    PROVE SInv'
<1> USE SettingsAssumption, BlankIsData
    DEF Orderly, SInv, STypeOK, Load, Goto, Pcs, Mates, Inside, MayLoad, Contents
<1>1. STypeOK'
    OBVIOUS
<1>2. Alone'
    BY DEF Alone
<1>3. OneMerging'
    BY DEF OneMerging
<1>4. HeldIsCached'
    BY DEF HeldIsCached, Alone
<1>5. CachesApart'
    BY DEF CachesApart
<1>6. CacheInv'
    BY DEF CacheInv, HeldIsCached, CachesApart, Alone
<1>7. SnapInv'
    BY DEF SnapInv, DiskInv, HeldIsCached, Alone
<1>8. DiskInv'
    BY DEF DiskInv, SnapInv, CacheInv, HeldIsCached, CachesApart, Alone, OneMerging
<1>9. SetInv'
    BY DEF SetInv, HeldIsCached, CachesApart, Alone
<1> QED BY <1>1, <1>2, <1>3, <1>4, <1>5, <1>6, <1>7, <1>8, <1>9

(* Over the file go this process's unsaved fields alone (f), and the
   caller's is among them or already there (g). *)
LEMMA MergeKeeps ==
    ASSUME Orderly, SInv, NEW t \in Threads, Merge(t)
    PROVE SInv'
<1> USE SettingsAssumption, BlankIsData
    DEF Orderly, SInv, STypeOK, Merge, Goto, Pcs, Mates, Inside, Merged
<1>a. /\ t \in Fields /\ disk[t] = file
      /\ \A u \in Threads : u # t => disk'[u] = disk[u] /\ pc'[u] = pc[u]
    BY DEF DiskInv, Fields
<1>b. \A f \in Fields :
          disk'[t][f] = IF heap[held[t]][f] # snap[Home[t]][f] THEN heap[held[t]][f] ELSE file[f]
    BY <1>a
<1>c. ~Inside(Home[t], {"snap"}) /\ ~Inside(Home[t], {"publish", "snap"})
    BY DEF Alone
<1>d. held[t] = cached[Home[t]] /\ held[t] # NoObject
    BY DEF HeldIsCached
<1>e. \A u \in Threads : u # t => pc[u] # "merge"
    BY DEF OneMerging
<1>f. \A f \in Fields : heap[held[t]][f] # snap[Home[t]][f]
          => Home[f] = Home[t] /\ heap[held[t]][f] = want[f]
  <2>1. TAKE f \in Fields
  <2>2. Home[t] \in Procs /\ cached[Home[t]] # NoObject
    BY <1>d
  <2>3. CacheInv
    OBVIOUS
  <2> HIDE DEF Inside, SInv, Merge, STypeOK
  <2>4. heap[cached[Home[t]]][f] # snap[Home[t]][f]
        => Home[f] = Home[t] /\ heap[cached[Home[t]]][f] = want[f]
    BY <1>c, <2>2, <2>3 DEF CacheInv
  <2> QED BY <1>d, <2>4
<1>g. snap[Home[t]][t] = file[t] /\ heap[held[t]][t] = want[t]
  <2>1. Home[t] \in Procs /\ cached[Home[t]] # NoObject /\ SnapInv
    BY <1>d
  <2>2. heap[held[t]][t] = want[t]
    BY DEF SetInv
  <2> HIDE DEF Inside, SInv, Merge, STypeOK
  <2>3. snap[Home[t]][t] = file[t]
    BY <1>a, <1>c, <2>1 DEF SnapInv
  <2> QED BY <2>2, <2>3
<1>h. /\ pc[t] = "merge" /\ pc'[t] = "write"
      /\ file' = file /\ heap' = heap /\ want' = want /\ held' = held
    OBVIOUS
<1>1. STypeOK'
    BY DEF HeldIsCached, Data, Fields
<1>2. Alone'
    BY DEF Alone
<1>3. OneMerging'
    BY DEF OneMerging
<1>4. HeldIsCached'
    BY DEF HeldIsCached, Alone
<1>5. CachesApart'
    BY DEF CachesApart
<1>6. CacheInv'
    BY DEF Fields, CacheInv
<1>7. SnapInv'
    BY DEF SnapInv, DiskInv, HeldIsCached, Alone
<1>8. DiskInv'
    BY <1>a, <1>b, <1>e, <1>f, <1>h DEF DiskInv
<1>9. SetInv'
    BY <1>a, <1>b, <1>g, <1>h DEF SetInv
<1> QED BY <1>1, <1>2, <1>3, <1>4, <1>5, <1>6, <1>7, <1>8, <1>9

(* What is written differs from the file in own fields only. *)
LEMMA WriteKeeps ==
    ASSUME Orderly, SInv, NEW t \in Threads, Write(t)
    PROVE SInv'
<1> USE SettingsAssumption, BlankIsData
    DEF Orderly, SInv, STypeOK, Write, Goto, Pcs, Mates, Inside, Leave
<1>1. STypeOK'
    OBVIOUS
<1>2. Alone'
    BY DEF Alone
<1>3. OneMerging'
    BY DEF OneMerging
<1>4. HeldIsCached'
    BY DEF HeldIsCached, Alone
<1>5. CachesApart'
    BY DEF CachesApart
<1>6. CacheInv'
    BY DEF CacheInv, HeldIsCached, CachesApart, Alone
<1>7. SnapInv'
    BY DEF SnapInv, DiskInv, HeldIsCached, Alone
<1>8. DiskInv'
    BY DEF DiskInv, SnapInv, CacheInv, HeldIsCached, CachesApart, Alone, OneMerging
<1>9. SetInv'
    BY DEF SetInv, HeldIsCached, CachesApart, Alone
<1> QED BY <1>1, <1>2, <1>3, <1>4, <1>5, <1>6, <1>7, <1>8, <1>9

(* The copy agrees with the file on own fields until it is published. *)
LEMMA ReloadKeeps ==
    ASSUME Orderly, SInv, NEW t \in Threads, Reload(t)
    PROVE SInv'
<1> USE SettingsAssumption, BlankIsData
    DEF Orderly, SInv, STypeOK, Reload, Goto, Pcs, Mates, Inside, MayBegin, Contents
<1>1. STypeOK'
    OBVIOUS
<1>2. Alone'
    BY DEF Alone
<1>3. OneMerging'
    BY DEF OneMerging
<1>4. HeldIsCached'
    BY DEF HeldIsCached, Alone
<1>5. CachesApart'
    BY DEF CachesApart
<1>6. CacheInv'
    BY DEF CacheInv, HeldIsCached, CachesApart, Alone
<1>7. SnapInv'
    BY DEF SnapInv, DiskInv, HeldIsCached, Alone
<1>8. DiskInv'
    BY DEF DiskInv, SnapInv, CacheInv, HeldIsCached, CachesApart, Alone, OneMerging
<1>9. SetInv'
    BY DEF SetInv, HeldIsCached, CachesApart, Alone
<1> QED BY <1>1, <1>2, <1>3, <1>4, <1>5, <1>6, <1>7, <1>8, <1>9

(* The published object is nobody else's. *)
LEMMA PublishKeeps ==
    ASSUME Orderly, SInv, NEW t \in Threads, Publish(t)
    PROVE SInv'
<1> USE SettingsAssumption, BlankIsData
    DEF Orderly, SInv, STypeOK, Publish, Goto, Pcs, Mates, Inside, Unused
<1>1. STypeOK'
  <2>1. PICK o \in Objects :
            /\ heap' = [heap EXCEPT ![o] = disk[t]]
            /\ cached' = [cached EXCEPT ![Home[t]] = o]
            /\ held' = [held EXCEPT ![t] = o]
    OBVIOUS
  <2> QED BY <2>1
<1>2. Alone'
    BY DEF Alone
<1>3. OneMerging'
    BY DEF OneMerging
<1>4. HeldIsCached'
  <2>1. \A u \in Threads : u # t /\ Home[u] = Home[t] => pc[u] = "idle"
    BY DEF Alone
  <2>2. PICK o \in Objects :
            Unused(o) /\ cached' = [cached EXCEPT ![Home[t]] = o] /\ held' = [held EXCEPT ![t] = o]
    OBVIOUS
  <2> QED BY <2>1, <2>2 DEF HeldIsCached
<1>5. CachesApart'
    BY DEF CachesApart
<1>6. CacheInv'
    BY DEF CacheInv, HeldIsCached, CachesApart, Alone
<1>7. SnapInv'
    BY DEF SnapInv, DiskInv, HeldIsCached, Alone
<1>8. DiskInv'
    BY DEF DiskInv, SnapInv, CacheInv, HeldIsCached, CachesApart, Alone, OneMerging
<1>9. SetInv'
    BY DEF SetInv, HeldIsCached, CachesApart, Alone
<1> QED BY <1>1, <1>2, <1>3, <1>4, <1>5, <1>6, <1>7, <1>8, <1>9

(* With the snapshot taken nothing is unsaved. *)
LEMMA SnapKeeps ==
    ASSUME Orderly, SInv, NEW t \in Threads, Snap(t)
    PROVE SInv'
<1> USE SettingsAssumption, BlankIsData
    DEF Orderly, SInv, STypeOK, Snap, Goto, Pcs, Mates, Inside, Leave
<1>1. STypeOK'
    BY DEF HeldIsCached
<1>2. Alone'
    BY DEF Alone
<1>3. OneMerging'
    BY DEF OneMerging
<1>4. HeldIsCached'
    BY DEF HeldIsCached, Alone
<1>5. CachesApart'
    BY DEF CachesApart
<1>6. CacheInv'
    BY DEF CacheInv, HeldIsCached, CachesApart, Alone
<1>7. SnapInv'
    BY DEF SnapInv, DiskInv, HeldIsCached, Alone
<1>8. DiskInv'
    BY DEF DiskInv, SnapInv, CacheInv, HeldIsCached, CachesApart, Alone, OneMerging
<1>9. SetInv'
    BY DEF SetInv, HeldIsCached, CachesApart, Alone
<1> QED BY <1>1, <1>2, <1>3, <1>4, <1>5, <1>6, <1>7, <1>8, <1>9

(* Every step keeps the inductive invariant. *)
LEMMA StepKeeps ==
    ASSUME Orderly, SInv, [SNext]_vars PROVE SInv'
<1>1. CASE UNCHANGED vars
    BY <1>1 DEF vars, SInv, STypeOK, Alone, OneMerging, HeldIsCached, CachesApart, CacheInv,
                SnapInv, DiskInv, SetInv, Inside, Mates
<1>2. CASE SNext
    BY <1>2, GetKeeps, SetKeeps, LoadKeeps, MergeKeeps, WriteKeeps, ReloadKeeps, PublishKeeps,
       SnapKeeps DEF SNext
<1> QED BY <1>1, <1>2

(* The inductive invariant of Settings, for any number of processes and    *)
(* threads: whose changes a cache holds, and what a copy of the file that  *)
(* is being merged may differ from the file in.                            *)
THEOREM SettingsInvariant ==
    ASSUME Orderly PROVE SSpec => []SInv
BY InitInv, StepKeeps, PTL DEF SSpec

(* What a process holds unsaved in its cached settings is its own: a save  *)
(* never carries a field another process changed.                          *)
THEOREM UnsavedStaysHome ==
    ASSUME Orderly PROVE SSpec => []UnsavedIsOwn
<1>1. SInv => UnsavedIsOwn
  <2>1. SUFFICES ASSUME SInv, NEW t \in Threads, NEW f \in Fields,
                        pc[t] \in {"held", "load", "merge"},
                        heap[held[t]][f] # snap[Home[t]][f]
                 PROVE  Home[f] = Home[t] /\ heap[held[t]][f] = want[f]
    BY DEF UnsavedIsOwn
  <2>2. held[t] # NoObject /\ held[t] = cached[Home[t]] /\ Home[t] \in Procs
    BY <2>1, SettingsAssumption DEF SInv, HeldIsCached
  <2>3. ~Inside(Home[t], {"snap"})
    BY <2>1 DEF SInv, Alone, Mates, Inside
  <2> QED BY <2>1, <2>2, <2>3 DEF SInv, CacheInv
<1> QED BY <1>1, SettingsInvariant, PTL

(* A save of settings.json changes nothing but fields its own process set: *)
(* the settings of the GUI survive the daemon's saves and the reverse.     *)
THEOREM NothingClobbered ==
    ASSUME Orderly PROVE SSpec => NoClobber
<1>1. ASSUME SInv, [SNext]_vars, NEW f \in Fields, file'[f] # file[f]
      PROVE  file'[f] = want[f]
  <2>1. PICK t \in Threads : Write(t)
    BY <1>1 DEF SNext, vars, Get, Set, Load, Merge, Reload, Publish, Snap
  <2>2. pc[t] = "write" /\ file' = disk[t]
    BY <1>1, <2>1 DEF Write
  <2> QED BY <1>1, <2>2 DEF SInv, DiskInv
<1>2. SInv /\ [SNext]_vars =>
          [\A f \in Fields : file'[f] # file[f] /\ pc[f] \notin Saving => file'[f] = want[f]]_vars
    BY <1>1
<1> QED BY <1>2, SettingsInvariant, PTL DEF SSpec, NoClobber

(* A save that replaces the file leaves in it what its caller had set.     *)
THEOREM OwnChangeIsSaved ==
    ASSUME Orderly PROVE SSpec => OwnChangeSaved
<1>1. ASSUME SInv, [SNext]_vars, NEW t \in Threads, pc[t] = "write", pc'[t] = "publish"
      PROVE  file'[t] = want[t]
  <2>1. Write(t)
    BY <1>1 DEF SNext, vars, Get, Set, Load, Merge, Write, Reload, Publish, Snap, Goto, Leave,
                SInv, STypeOK
  <2>2. file' = disk[t]
    BY <1>1, <2>1 DEF Write, Leave, Goto, SInv, STypeOK
  <2> QED BY <1>1, <2>2 DEF SInv, SetInv
<1>2. SInv /\ [SNext]_vars =>
          [\A t \in Threads : pc[t] = "write" /\ pc'[t] = "publish" => file'[t] = want[t]]_vars
    BY <1>1
<1> QED BY <1>2, SettingsInvariant, PTL DEF SSpec, OwnChangeSaved

-----------------------------------------------------------------------------
(***************************************************************************)
(* Theorems about DataFolder: no copy of the data folder, however it ends, *)
(* costs a file its last write.                                            *)
(***************************************************************************)
LEMMA Numbers ==
    /\ 0 \in 0 .. MaxWrites /\ 1 \in 0 .. Torn /\ Torn \in 0 .. Torn /\ Torn # 0
    /\ 0 .. MaxWrites \subseteq 0 .. Torn
    /\ \A w \in 0 .. MaxWrites : w # Torn
    /\ \A w \in 0 .. MaxWrites : w < MaxWrites => w + 1 \in 0 .. MaxWrites /\ w + 1 # 0
BY FolderAssumption DEF Torn

LEMMA FilesAre == \A i \in Items : FilesOf[i] \subseteq Files
BY DEF Files

LEMMA FileItem == \A f \in Files : \E i \in Items : f \in FilesOf[i]
BY DEF Files

(* What is there stays there, and the old name's folder as it is. *)
Kept ==
    /\ \A d \in Folders : \A f \in Files : Exists(d, f) => content'[d][f] # Absent
    /\ \A d \in Folders : made[d] \subseteq made'[d]
    /\ content'[Old] = content[Old] /\ made'[Old] = made[Old]

LEMMA ThereKept ==
    ASSUME Kept
    PROVE  /\ \A d \in Folders, i \in Items : There(d, i) => There(d, i)'
           /\ \A i \in Items : There(Old, i)' <=> There(Old, i)
           /\ AllThere => AllThere'
<1>1. ASSUME NEW d \in Folders, NEW i \in Items, There(d, i) PROVE There(d, i)'
  <2>1. CASE i = SettingsItem
    BY <1>1, <2>1, FilesAre DEF There, Kept, Exists
  <2>2. CASE i # SettingsItem
    BY <1>1, <2>2 DEF There, Kept
  <2> QED BY <2>1, <2>2
<1>2. ASSUME NEW i \in Items PROVE There(Old, i)' <=> There(Old, i)
  BY DEF There, Kept, Exists
<1>3. AllThere => AllThere'
  BY <1>1, <1>2, FolderAssumption DEF AllThere
<1> QED BY <1>1, <1>2, <1>3

(* Steps that leave the files alone. *)
LEMMA StillThereSame == StillThere /\ UNCHANGED <<content, written>> => StillThere'
BY DEF StillThere

(* One process p takes a step.  Others keep their copies if it writes none *)
(* of the files they have open.                                            *)
LEMMA CopyStep ==
    ASSUME FolderInv, NEW p \in Users, NEW rec, Becomes(p, rec), Kept, CopyOf(p)',
           \A d \in Folders, f \in Files :
               content'[d][f] # content[d][f] =>
                   \A q \in Users \ {p} : proc[q].to = d => f \notin proc[q].file
    PROVE  \A q \in Users : CopyOf(q)'
<1> SUFFICES ASSUME NEW q \in Users \ {p} PROVE CopyOf(q)'
  OBVIOUS
<1>1. /\ proc'[q] = proc[q] /\ CopyOf(q) /\ proc[q].to \in Folders /\ proc[q].from \in Folders
      /\ proc[q].files \subseteq Files /\ proc[q].file \subseteq Files
      /\ \A r \in Users \ {p} : proc'[r] = proc[r]
  BY DEF FolderInv, FolderTypeOK, Becomes
<1>2. (proc[q].pc \notin {"legacy", "move"} => AllCopied(q))'
  BY <1>1 DEF CopyOf, AllCopied
<1>3. ASSUME NEW f \in Due(q)'
      PROVE  /\ Exists(proc[q].from, f)'
             /\ \A i \in Items \ {SettingsItem} : f \in FilesOf[i] => i \in made'[proc'[q].to]
  BY <1>1, <1>3 DEF CopyOf, Due, Kept, Exists
<1>4. ASSUME NEW f \in proc'[q].file
      PROVE  /\ content'[proc'[q].to][f] = Torn
             /\ \A r \in Users \ {q} : proc'[r].to = proc'[q].to => f \notin proc'[r].file
  <2>1. content'[proc'[q].to][f] = Torn
    BY <1>1, <1>4 DEF CopyOf
  <2>2. ASSUME NEW r \in Users \ {q}, proc'[r].to = proc'[q].to PROVE f \notin proc'[r].file
    <3>1. CASE r = p
      BY <1>4, <2>2, <3>1 DEF CopyOf
    <3>2. CASE r # p
      BY <1>1, <1>4, <2>2, <3>2 DEF CopyOf
    <3> QED BY <3>1, <3>2
  <2> QED BY <2>1, <2>2
<1> QED BY <1>2, <1>3, <1>4 DEF CopyOf

(* Who is at work while another copies the old data has found all there.   *)
LEMMA LegacyStep ==
    ASSUME FolderInv, NEW p \in Users, NEW rec, Becomes(p, rec), Kept,
           Runs(p) \/ Pc(p, "legacy"),
           Runs(p)' => Runs(p) \/ AllThere',
           Pc(p, "legacy")' => Pc(p, "legacy") /\ LegacyOf(p)'
    PROVE  RunsInv' /\ \A q \in Users : Pc(q, "legacy")' => LegacyOf(q)'
<1>1. \A r \in Users \ {p} : proc'[r] = proc[r]
  BY DEF FolderInv, FolderTypeOK, Becomes
<1>2. RunsInv'
  <2> SUFFICES ASSUME NEW r \in Users, Runs(r)' PROVE (There(NewHome, SettingsItem) \/ AllThere)'
    BY DEF RunsInv
  <2>1. CASE Runs(r)
    BY <2>1, ThereKept, FolderAssumption DEF FolderInv, RunsInv
  <2>2. CASE ~ Runs(r)
    BY <1>1, <2>2 DEF Runs
  <2> QED BY <2>1, <2>2
<1>3. ASSUME NEW q \in Users \ {p}, Pc(q, "legacy")' PROVE LegacyOf(q)'
  <2>1. /\ Pc(q, "legacy") /\ LegacyOf(q) /\ proc'[q] = proc[q]
        /\ ~ Pc(p, "legacy") /\ Runs(p)
    BY <1>1, <1>3 DEF FolderInv, LegacyOf, Pc
  <2>2. AllThere /\ AllThere' /\ proc[q].files = {}
    BY <2>1, ThereKept DEF LegacyOf
  <2>3. \A i \in Items : There(Old, i)' => There(NewHome, i)'
    BY <2>2 DEF AllThere
  <2>4. \A r \in Users \ {q} : ~ Pc(r, "legacy")'
    BY <1>1, <2>1 DEF LegacyOf, Pc
  <2> QED BY <2>1, <2>2, <2>3, <2>4 DEF LegacyOf
<1> QED BY <1>2, <1>3

-----------------------------------------------------------------------------
(* Steps that write no file and make at most directories. *)
LEMMA QuietStep ==
    ASSUME FolderInv, NEW p \in Users, NEW rec, Becomes(p, rec),
           UNCHANGED <<content, written>>, made' \in [Folders -> SUBSET Items],
           \A d \in Folders : made[d] \subseteq made'[d], made'[Old] = made[Old],
           FolderTypeOK', CopyOf(p)',
           Runs(p) \/ Pc(p, "legacy"),
           Runs(p)' => Runs(p) \/ AllThere',
           Pc(p, "legacy")' => Pc(p, "legacy") /\ LegacyOf(p)'
    PROVE  FolderInv'
<1>1. Kept
  BY DEF Kept, Exists
<1>2. MadeInv'
  BY DEF FolderInv, MadeInv, Exists
<1>3. StillThere'
  BY StillThereSame DEF FolderInv
<1>4. \A q \in Users : CopyOf(q)'
  BY <1>1, CopyStep
<1>5. RunsInv' /\ \A q \in Users : Pc(q, "legacy")' => LegacyOf(q)'
  BY <1>1, LegacyStep
<1> QED BY <1>2, <1>3, <1>4, <1>5 DEF FolderInv

(* A process without a copy to make. *)
LEMMA Nothing ==
    ASSUME NEW p, proc'[p].todo = {}, proc'[p].files = {}, proc'[p].file = {}
    PROVE  CopyOf(p)'
BY DEF CopyOf, AllCopied, Due

LEMMA LaunchStep ==
    ASSUME MigrateAlone, FolderInv, NEW p \in Users, Launch(p)
    PROVE  FolderInv'
<1>1. /\ \A q \in Users : ~ Pc(q, "legacy")
      /\ UNCHANGED <<content, made, root, written, crashes>>
      /\ FolderTypeOK /\ RunsInv
  BY DEF Launch, FolderInv
<1>2. Kept
  BY <1>1 DEF Kept, Exists
<1>3. MadeInv' /\ StillThere'
  BY <1>1, StillThereSame DEF FolderInv, MadeInv, Exists
<1>4. \A i \in Items : There(Old, i)' <=> There(Old, i)
  BY <1>2, ThereKept
<1>5. CASE LegacyDue
  <2>1. Becomes(p, [pc |-> "legacy", using |-> NewHome, from |-> Old, to |-> NewHome,
                    todo |-> Holds(Old), files |-> {}, file |-> {}])
    BY <1>5 DEF Launch, Copy
  <2>2. FolderTypeOK'
    BY <1>1, <2>1, FolderAssumption DEF FolderTypeOK, Becomes, Holds
  <2>3. /\ proc'[p] = [pc |-> "legacy", using |-> NewHome, from |-> Old, to |-> NewHome,
                       todo |-> Holds(Old), files |-> {}, file |-> {}]
        /\ \A q \in Users \ {p} : proc'[q] = proc[q]
    BY <1>1, <2>1 DEF FolderTypeOK, Becomes
  <2>4. CopyOf(p)'
    BY <2>3 DEF CopyOf, Due
  <2>5. \A q \in Users : CopyOf(q)'
    BY <1>1, <1>2, <2>1, <2>4, CopyStep
  <2>6. \A q \in Users \ {p} : Runs(q)' => AllThere'
    BY <1>1, <1>2, <1>5, <2>3, ThereKept DEF RunsInv, Runs, LegacyDue
  <2>7. RunsInv'
    BY <2>3, <2>6 DEF RunsInv, Runs
  <2>8. LegacyOf(p)'
    BY <1>1, <1>4, <2>3, <2>6 DEF LegacyOf, Pc, Holds
  <2>9. \A q \in Users \ {p} : ~ Pc(q, "legacy")'
    BY <1>1, <2>3 DEF Pc
  <2> QED BY <1>3, <2>2, <2>5, <2>7, <2>8, <2>9 DEF FolderInv
<1>6. CASE ~ LegacyDue
  <2>1. Becomes(p, [pc |-> "layout", using |-> NewHome, from |-> NewHome, to |-> NewHome,
                    todo |-> {}, files |-> {}, file |-> {}])
    BY <1>6 DEF Launch, Idle, Copy
  <2>2. FolderTypeOK'
    BY <1>1, <2>1, FolderAssumption DEF FolderTypeOK, Becomes
  <2>3. /\ proc'[p] = [pc |-> "layout", using |-> NewHome, from |-> NewHome, to |-> NewHome,
                       todo |-> {}, files |-> {}, file |-> {}]
        /\ \A q \in Users \ {p} : proc'[q] = proc[q]
    BY <1>1, <2>1 DEF FolderTypeOK, Becomes
  <2>4. CopyOf(p)'
    BY <2>3, Nothing
  <2>5. \A q \in Users : CopyOf(q)'
    BY <1>1, <1>2, <2>1, <2>4, CopyStep
  <2>6. There(NewHome, SettingsItem) \/ AllThere
    BY <1>6 DEF LegacyDue, Holds, AllThere
  <2>7. RunsInv'
    BY <1>1, <1>2, <2>3, <2>6, ThereKept, FolderAssumption DEF RunsInv, Runs
  <2>8. \A q \in Users : ~ Pc(q, "legacy")'
    BY <1>1, <2>3 DEF Pc
  <2> QED BY <1>3, <2>2, <2>5, <2>7, <2>8 DEF FolderInv
<1> QED BY <1>5, <1>6

(* A process that ends its job, or had none. *)
LEMMA IdleStep ==
    ASSUME FolderInv, NEW p \in Users, NEW at \in {"off", "layout", "runs"},
           NEW d \in Folders \ {Old}, Becomes(p, Idle(at, d)),
           UNCHANGED <<content, written>>, root' \in Folders \ {Old},
           made' \in [Folders -> SUBSET Items],
           \A e \in Folders : made[e] \subseteq made'[e], made'[Old] = made[Old],
           Runs(p) \/ Pc(p, "legacy"),
           at = "off" \/ Runs(p) \/ AllThere
    PROVE  FolderInv'
<1>1. proc'[p] = [pc |-> at, using |-> d, from |-> NewHome, to |-> NewHome,
                  todo |-> {}, files |-> {}, file |-> {}]
  BY DEF FolderInv, FolderTypeOK, Becomes, Idle, Copy
<1>2. FolderTypeOK'
  BY FolderAssumption DEF FolderInv, FolderTypeOK, Becomes, Idle, Copy
<1>3. CopyOf(p)'
  BY <1>1, Nothing
<1>4. Runs(p)' => Runs(p) \/ AllThere'
  <2>1. Kept
    BY DEF Kept, Exists
  <2> QED BY <1>1, <2>1, ThereKept DEF Runs
<1>5. ~ Pc(p, "legacy")'
  BY <1>1 DEF Pc
<1> QED BY <1>2, <1>3, <1>4, <1>5, QuietStep

LEMMA EnsureLayoutStep ==
    ASSUME FolderInv, NEW p \in Users, EnsureLayout(p)
    PROVE  FolderInv'
<1>1. /\ made' \in [Folders -> SUBSET Items] /\ made'[Old] = made[Old]
      /\ \A e \in Folders : made[e] \subseteq made'[e]
  BY DEF EnsureLayout, FolderInv, FolderTypeOK
<1>2. Runs(p)
  BY DEF EnsureLayout, Pc, Runs
<1> QED BY <1>1, <1>2, IdleStep DEF EnsureLayout, FolderInv, FolderTypeOK

LEMMA ReloadStep ==
    ASSUME FolderInv, NEW p \in Users, ReloadSettings(p)
    PROVE  FolderInv'
<1>1. Runs(p)
  BY DEF ReloadSettings, Pc, Runs
<1> QED BY <1>1, IdleStep DEF ReloadSettings, FolderInv, FolderTypeOK

LEMMA MovedStep ==
    ASSUME FolderInv, NEW p \in Users, Moved(p)
    PROVE  FolderInv'
<1>1. Runs(p)
  BY DEF Moved, Pc, Runs
<1>2. root' \in Folders \ {Old}
  BY DEF Moved, FolderInv, FolderTypeOK
<1> QED BY <1>1, <1>2, IdleStep, FolderAssumption DEF Moved, FolderInv, FolderTypeOK

LEMMA LegacyCopiedStep ==
    ASSUME FolderInv, NEW p \in Users, LegacyCopied(p)
    PROVE  FolderInv'
<1>1. AllThere
  BY DEF LegacyCopied, AllCopied, FolderInv, LegacyOf, AllThere
<1> QED BY <1>1, IdleStep, FolderAssumption DEF LegacyCopied, FolderInv, FolderTypeOK

LEMMA EndsStep ==
    ASSUME FolderInv, NEW p \in Users, CopyFails(p) \/ ProcEnds(p)
    PROVE  FolderInv'
<1>1. FolderTypeOK
  BY DEF FolderInv
<1>2. Runs(p) \/ Pc(p, "legacy")
  BY <1>1 DEF CopyFails, ProcEnds, Runs, Pc, FolderTypeOK
<1>3. /\ UNCHANGED <<content, made, root, written>>
      /\ made \in [Folders -> SUBSET Items] /\ root \in Folders \ {Old}
      /\ proc[p].using \in Folders \ {Old} /\ NewHome \in Folders \ {Old}
  BY <1>1, FolderAssumption DEF CopyFails, ProcEnds, FolderTypeOK
<1>4. CASE Becomes(p, Off)
  BY <1>2, <1>3, <1>4, IdleStep DEF Off
<1>5. CASE Becomes(p, Idle("runs", proc[p].using)) /\ Runs(p)
  BY <1>2, <1>3, <1>5, IdleStep
<1> QED BY <1>4, <1>5 DEF CopyFails, ProcEnds, Pc, Runs

LEMMA ApplyStep ==
    ASSUME FolderInv, NEW p \in Users, NEW d \in Folders, ApplyStorage(p, d)
    PROVE  FolderInv'
<1>1. Runs(p) /\ FolderTypeOK /\ d \in Folders \ {Old}
  BY DEF ApplyStorage, Pc, Runs, FolderInv
<1>2. CASE d = proc[p].using
  BY <1>1, <1>2, IdleStep DEF ApplyStorage, FolderTypeOK
<1>3. CASE d # proc[p].using
  <2> DEFINE rec == Copy("move", proc[p].using, proc[p].using, d,
                         Holds(proc[p].using) \ {SettingsItem})
  <2>1. Becomes(p, rec) /\ UNCHANGED <<content, made, root, written, crashes>>
    BY <1>3 DEF ApplyStorage
  <2>2. /\ proc'[p] = [pc |-> "move", using |-> proc[p].using, from |-> proc[p].using,
                       to |-> d, todo |-> Holds(proc[p].using) \ {SettingsItem},
                       files |-> {}, file |-> {}]
        /\ FolderTypeOK'
    BY <1>1, <2>1 DEF FolderTypeOK, Becomes, Copy, Holds
  <2>3. CopyOf(p)'
    BY <2>2 DEF CopyOf, Due
  <2>4. ~ Pc(p, "legacy")'
    BY <2>2 DEF Pc
  <2> QED BY <1>1, <2>1, <2>2, <2>3, <2>4, QuietStep DEF FolderTypeOK
<1> QED BY <1>2, <1>3

LEMMA OneItem ==
    ASSUME NEW i \in Items, NEW j \in Items, NEW f \in FilesOf[i], f \in FilesOf[j]
    PROVE  i = j
BY FolderAssumption

LEMMA NextItemStep ==
    ASSUME FolderInv, NEW p \in Users, NEW i \in Items, NextItem(p, i)
    PROVE  FolderInv'
<1> DEFINE r == proc[p]
           new == IF r.pc = "legacy" /\ There(r.to, i) THEN {}
                  ELSE {f \in FilesOf[i] : Exists(r.from, f)}
<1>1. /\ FolderTypeOK /\ CopyOf(p) /\ MadeInv
      /\ Pc(p, "legacy") => LegacyOf(p)
  BY DEF FolderInv
<1>2. /\ i \in r.todo /\ r.files = {} /\ r.file = {}
      /\ Becomes(p, Job(r, r.todo \ {i}, new, {}))
      /\ made' = [made EXCEPT ![r.to] = @ \cup ({i} \ {SettingsItem})]
      /\ UNCHANGED <<content, root, written, crashes>>
  BY DEF NextItem
<1>3. /\ proc'[p].pc = r.pc /\ proc'[p].from = r.from /\ proc'[p].to = r.to
      /\ proc'[p].todo = r.todo \ {i} /\ proc'[p].files = new /\ proc'[p].file = {}
      /\ \A q \in Users \ {p} : proc'[q] = proc[q]
  BY <1>1, <1>2 DEF FolderTypeOK, Becomes, Job
<1>4. /\ r.to \in Folders \ {Old} /\ r.from \in Folders
      /\ made' \in [Folders -> SUBSET Items] /\ made'[Old] = made[Old]
      /\ \A d \in Folders : made[d] \subseteq made'[d]
      /\ i # SettingsItem => i \in made'[r.to]
  BY <1>1, <1>2 DEF FolderTypeOK
<1>5. FolderTypeOK'
  <2>1. new \subseteq Files
    BY FilesAre
  <2> QED BY <1>1, <1>2, <1>4, <2>1 DEF FolderTypeOK, Becomes, Job
<1>6. Runs(p) \/ Pc(p, "legacy")
  BY <1>1, <1>2 DEF CopyOf, AllCopied, Runs, Pc
<1>7. CopyOf(p)'
  <2>1. proc'[p].pc \in {"legacy", "move"}
    BY <1>1, <1>2, <1>3 DEF CopyOf, AllCopied
  <2>2. \A f \in new : f \in FilesOf[i] /\ Exists(r.from, f)
    OBVIOUS
  <2>3. ASSUME NEW f \in new
        PROVE  /\ Exists(r.from, f)'
               /\ \A j \in Items \ {SettingsItem} : f \in FilesOf[j] => j \in made'[r.to]
    BY <1>2, <1>3, <1>4, <2>2, <2>3, OneItem DEF Exists
  <2> QED BY <1>3, <2>1, <2>3 DEF CopyOf, Due, Exists
<1>8. Kept
  BY <1>2, <1>4 DEF Kept, Exists
<1>9. ASSUME Pc(p, "legacy")' PROVE Pc(p, "legacy") /\ LegacyOf(p)'
  <2>1. /\ Pc(p, "legacy") /\ LegacyOf(p) /\ r.from = Old /\ r.to = NewHome /\ ~ Runs(p)
    BY <1>1, <1>3, <1>9 DEF Pc, LegacyOf, Runs
  <2>2. \A q \in Users \ {p} : ~ Pc(q, "legacy")' /\ (Runs(q)' => AllThere')
    BY <1>3, <1>8, <2>1, ThereKept DEF LegacyOf, Pc, Runs
  <2>3. ASSUME NEW f \in new
        PROVE  /\ ~ Exists(NewHome, f)' /\ ~ There(NewHome, i) /\ There(Old, i)
    <3>1. f \in FilesOf[i] /\ Exists(Old, f) /\ ~ There(NewHome, i)
      BY <2>1, <2>3 DEF Pc
    <3>2. There(Old, i)
      BY <1>1, <3>1, FolderAssumption DEF MadeInv, There
    <3>3. ~ Exists(NewHome, f)
      BY <1>1, <3>1, FolderAssumption DEF MadeInv, There
    <3> QED BY <1>2, <3>1, <3>2, <3>3 DEF Exists
  <2>4. new # {} => \A q \in Users : ~ Runs(q)'
    <3> SUFFICES ASSUME NEW f \in new, NEW q \in Users PROVE ~ Runs(q)'
      OBVIOUS
    <3>1. ~ AllThere
      BY <2>3 DEF AllThere
    <3>2. ~ Runs(q)
      BY <2>1, <3>1 DEF LegacyOf
    <3> QED BY <1>3, <3>2 DEF Runs
  <2>5. ASSUME NEW j \in Items \ (r.todo \ {i}), There(Old, j)'
        PROVE  There(NewHome, j)' \/ (j = SettingsItem /\ new \cap FilesOf[j] # {})
    <3>1. There(Old, j)
      BY <1>8, <2>5, ThereKept
    <3>2. CASE There(NewHome, j)
      BY <1>8, <3>2, ThereKept, FolderAssumption
    <3>3. CASE ~ There(NewHome, j)
      <4>1. j = i
        BY <1>2, <2>1, <3>1, <3>3 DEF LegacyOf
      <4>2. CASE j = SettingsItem
        BY <2>1, <3>1, <3>3, <4>1, <4>2 DEF There
      <4>3. CASE j # SettingsItem
        BY <1>4, <2>1, <4>1, <4>3 DEF There
      <4> QED BY <4>2, <4>3
    <3> QED BY <3>2, <3>3
  <2> QED BY <1>3, <2>1, <2>2, <2>3, <2>4, <2>5 DEF LegacyOf, Exists
<1>10. Runs(p)' => Runs(p)
  BY <1>3 DEF Runs
<1> QED BY <1>2, <1>4, <1>5, <1>6, <1>7, <1>9, <1>10, QuietStep

-----------------------------------------------------------------------------
(* Steps that write a file.  What a copy makes was not there before.       *)
LEMMA NotThere ==
    ASSUME FolderInv, NEW p \in Users, NEW f \in Files, CopyFile(p, f),
           ~ (Pc(p, "move") /\ Exists(proc[p].to, f))
    PROVE  ~ Exists(proc[p].to, f)
BY DEF FolderInv, CopyFile, CopyOf, AllCopied, LegacyOf, Pc

LEMMA CopyFileStep ==
    ASSUME FolderInv, NEW p \in Users, NEW f \in Files, CopyFile(p, f)
    PROVE  FolderInv'
<1> DEFINE r == proc[p]
<1>1. /\ FolderTypeOK /\ CopyOf(p) /\ MadeInv /\ StillThere
      /\ Pc(p, "legacy") => LegacyOf(p)
      /\ r.to \in Folders \ {Old} /\ r.from \in Folders
      /\ f \in r.files /\ r.file = {}
      /\ UNCHANGED <<made, root, written, crashes>>
  BY DEF FolderInv, FolderTypeOK, CopyFile
<1>2. r.pc \in {"legacy", "move"}
  BY <1>1 DEF CopyOf, AllCopied
<1>3. Runs(p) \/ Pc(p, "legacy")
  BY <1>2 DEF Runs, Pc
<1>4. CASE r.pc = "move" /\ Exists(r.to, f)
  <2>1. Becomes(p, Job(r, r.todo, r.files \ {f}, {})) /\ content' = content
    BY <1>4 DEF CopyFile
  <2>2. FolderTypeOK'
    BY <1>1, <2>1 DEF FolderTypeOK, Becomes, Job
  <2>3. /\ proc'[p].pc = "move" /\ proc'[p].from = r.from /\ proc'[p].to = r.to
        /\ proc'[p].files = r.files \ {f} /\ proc'[p].file = {}
    BY <1>1, <1>4, <2>1 DEF FolderTypeOK, Becomes, Job
  <2>4. CopyOf(p)'
    BY <1>1, <2>1, <2>3 DEF CopyOf, Due, Exists
  <2>5. Runs(p) /\ ~ Pc(p, "legacy")'
    BY <1>4, <2>3 DEF Runs, Pc
  <2> QED BY <1>1, <2>1, <2>2, <2>4, <2>5, QuietStep DEF FolderTypeOK
<1>5. CASE ~ (r.pc = "move" /\ Exists(r.to, f))
  <2>1. /\ Becomes(p, Job(r, r.todo, r.files \ {f}, {f})) /\ ~ Copying(r.to, f)
        /\ content' = [content EXCEPT ![r.to][f] = Torn]
    BY <1>5 DEF CopyFile
  <2>2. \A d \in Folders, g \in Files :
            content'[d][g] = IF d = r.to /\ g = f THEN Torn ELSE content[d][g]
    BY <1>1, <2>1 DEF FolderTypeOK
  <2>3. /\ proc'[p].pc = r.pc /\ proc'[p].from = r.from /\ proc'[p].to = r.to
        /\ proc'[p].todo = r.todo
        /\ proc'[p].files = r.files \ {f} /\ proc'[p].file = {f}
        /\ \A q \in Users \ {p} : proc'[q] = proc[q]
    BY <1>1, <2>1 DEF FolderTypeOK, Becomes, Job
  <2>4. FolderTypeOK'
    BY <1>1, <2>1, Numbers DEF FolderTypeOK, Becomes, Job
  <2>5. Kept
    <3>1. content'[Old] = content[Old]
      BY <1>1, <2>1, FolderAssumption DEF FolderTypeOK
    <3> QED BY <1>1, <2>2, <3>1, Numbers DEF Kept, Exists, Absent
  <2>6. ~ Exists(r.to, f)
    BY <1>5, NotThere DEF Pc
  <2>7. StillThere'
    BY <1>1, <2>2, <2>6 DEF StillThere, Exists
  <2>8. MadeInv'
    BY <1>1, <2>2, FilesAre DEF MadeInv, Exists, CopyOf, Due
  <2>9. CopyOf(p)'
    <3>1. \A g \in Due(p)' : g \in Due(p)
      BY <1>1, <2>3 DEF Due
    <3>2. \A g \in Due(p) : g \in Files
      BY <1>1 DEF Due, FolderTypeOK
    <3>3. \A q \in Users \ {p} : proc'[q].to = r.to => f \notin proc'[q].file
      BY <2>1, <2>3 DEF Copying
    <3>4. content'[r.to][f] = Torn
      BY <1>1, <2>2
    <3> QED BY <1>1, <1>2, <2>3, <2>5, <3>1, <3>2, <3>3, <3>4 DEF CopyOf, Kept, Exists
  <2>10. \A q \in Users : CopyOf(q)'
    <3>1. \A d \in Folders, g \in Files :
              content'[d][g] # content[d][g] =>
                  \A q \in Users \ {p} : proc[q].to = d => g \notin proc[q].file
      BY <2>1, <2>2 DEF Copying
    <3> QED BY <2>1, <2>5, <2>9, <3>1, CopyStep
  <2>11. ASSUME Pc(p, "legacy")' PROVE Pc(p, "legacy") /\ LegacyOf(p)'
    <3>1. /\ Pc(p, "legacy") /\ LegacyOf(p) /\ r.from = Old /\ r.to = NewHome
      BY <1>1, <2>3, <2>11 DEF Pc, LegacyOf
    <3>2. \A q \in Users \ {p} : ~ Pc(q, "legacy")' /\ (Runs(q)' => AllThere')
      BY <2>3, <2>5, <3>1, ThereKept DEF LegacyOf, Pc, Runs
    <3>3. \A g \in r.files \ {f} : ~ Exists(NewHome, g)'
      BY <1>1, <2>2, <3>1 DEF LegacyOf, Exists, FolderTypeOK
    <3>4. \A q \in Users : ~ Runs(q)'
      BY <1>1, <2>3, <3>1 DEF LegacyOf, Runs
    <3>5. ASSUME NEW j \in Items \ r.todo, There(Old, j)'
          PROVE  \/ There(NewHome, j)'
                 \/ j = SettingsItem /\ (r.files \ {f}) \cap FilesOf[j] # {}
      <4>1. There(Old, j)
        BY <2>5, <3>5, ThereKept
      <4>2. CASE There(NewHome, j)
        BY <2>5, <4>2, ThereKept, FolderAssumption
      <4>3. CASE ~ There(NewHome, j)
        <5>1. j = SettingsItem /\ r.files \cap FilesOf[j] # {}
          BY <3>1, <4>1, <4>3 DEF LegacyOf
        <5>2. CASE f \in FilesOf[j]
          BY <1>1, <2>2, <3>1, <5>1, <5>2, Numbers DEF There, Exists, Absent
        <5>3. CASE f \notin FilesOf[j]
          BY <5>1, <5>3
        <5> QED BY <5>2, <5>3
      <4> QED BY <4>2, <4>3
    <3> QED BY <2>3, <3>1, <3>2, <3>3, <3>4, <3>5 DEF LegacyOf
  <2>12. RunsInv' /\ \A q \in Users : Pc(q, "legacy")' => LegacyOf(q)'
    <3>1. Runs(p)' => Runs(p)
      BY <2>3 DEF Runs
    <3> QED BY <1>3, <2>1, <2>5, <2>11, <3>1, LegacyStep
  <2> QED BY <2>4, <2>7, <2>8, <2>10, <2>12 DEF FolderInv
<1> QED BY <1>4, <1>5

LEMMA FileCopiedStep ==
    ASSUME FolderInv, NEW p \in Users, FileCopied(p)
    PROVE  FolderInv'
<1> DEFINE r == proc[p]
<1>1. /\ FolderTypeOK /\ CopyOf(p) /\ MadeInv /\ StillThere
      /\ Pc(p, "legacy") => LegacyOf(p)
      /\ r.to \in Folders \ {Old} /\ r.from \in Folders
      /\ r.file # {} /\ r.file \subseteq Files /\ r.files \subseteq Files
      /\ Becomes(p, Job(r, r.todo, r.files, {}))
      /\ UNCHANGED <<made, root, written, crashes>>
  BY DEF FolderInv, FolderTypeOK, FileCopied
<1>2. Runs(p) \/ Pc(p, "legacy")
  BY <1>1 DEF Runs, Pc, CopyOf, AllCopied
<1>3. \A d \in Folders, g \in Files :
          content'[d][g] = IF d = r.to /\ g \in r.file THEN content[r.from][g]
                           ELSE content[d][g]
  BY <1>1 DEF FolderTypeOK, FileCopied
<1>4. /\ proc'[p].pc = r.pc /\ proc'[p].from = r.from /\ proc'[p].to = r.to
      /\ proc'[p].todo = r.todo /\ proc'[p].files = r.files /\ proc'[p].file = {}
      /\ \A q \in Users \ {p} : proc'[q] = proc[q]
  BY <1>1 DEF FolderTypeOK, Becomes, Job
<1>5. FolderTypeOK'
  <2>1. content' \in [Folders -> [Files -> 0 .. Torn]]
    BY <1>1 DEF FolderTypeOK, FileCopied
  <2>2. proc' \in [Users -> [pc : {"off", "legacy", "layout", "runs", "move"},
                           using : Folders \ {Old}, from : Folders, to : Folders \ {Old},
                           todo : SUBSET Items, files : SUBSET Files, file : SUBSET Files]]
    BY <1>1 DEF FolderTypeOK, Becomes, Job
  <2> QED BY <1>1, <2>1, <2>2 DEF FolderTypeOK
<1>6. \A g \in r.file : /\ Exists(r.from, g) /\ content[r.to][g] = Torn
                       /\ \A q \in Users \ {p} : proc[q].to = r.to => g \notin proc[q].file
  BY <1>1 DEF CopyOf, Due
<1>7. Kept
  <2>1. content'[Old] = content[Old]
    BY <1>1, FolderAssumption DEF FolderTypeOK, FileCopied
  <2> QED BY <1>1, <1>3, <1>6, <2>1 DEF Kept, Exists
<1>8. StillThere'
  <2>1. \A g \in Files : written[g] # Torn
    BY <1>1, Numbers DEF FolderTypeOK
  <2> QED BY <1>1, <1>3, <1>6, <2>1 DEF StillThere
<1>9. MadeInv'
  BY <1>1, <1>3, FilesAre DEF MadeInv, Exists, CopyOf, Due
<1>10. CopyOf(p)'
  <2>1. \A g \in Due(p)' : g \in Due(p) /\ g \in Files
    BY <1>1, <1>4 DEF Due
  <2>2. proc'[p].pc \in {"legacy", "move"}
    BY <1>1, <1>4 DEF CopyOf, AllCopied
  <2> QED BY <1>1, <1>4, <1>7, <2>1, <2>2 DEF CopyOf, Kept, Exists
<1>11. \A q \in Users : CopyOf(q)'
  <2>1. \A d \in Folders, g \in Files :
            content'[d][g] # content[d][g] =>
                \A q \in Users \ {p} : proc[q].to = d => g \notin proc[q].file
    BY <1>3, <1>6
  <2> QED BY <1>1, <1>7, <1>10, <2>1, CopyStep
<1>12. ASSUME Pc(p, "legacy")' PROVE Pc(p, "legacy") /\ LegacyOf(p)'
  <2>1. /\ Pc(p, "legacy") /\ LegacyOf(p) /\ r.from = Old /\ r.to = NewHome
    BY <1>1, <1>4, <1>12 DEF Pc, LegacyOf
  <2>2. \A q \in Users \ {p} : ~ Pc(q, "legacy")' /\ (Runs(q)' => AllThere')
    BY <1>4, <1>7, <2>1, ThereKept DEF LegacyOf, Pc, Runs
  <2>3. \A g \in r.files : ~ Exists(NewHome, g)'
    BY <1>1, <1>3, <1>6, <2>1, Numbers DEF LegacyOf, Exists, Absent
  <2>4. r.files # {} => \A q \in Users : ~ Runs(q)'
    BY <1>4, <2>1 DEF LegacyOf, Runs
  <2>5. ASSUME NEW j \in Items \ r.todo, There(Old, j)'
        PROVE  \/ There(NewHome, j)'
               \/ j = SettingsItem /\ r.files \cap FilesOf[j] # {}
    BY <1>7, <2>1, <2>5, ThereKept, FolderAssumption DEF LegacyOf
  <2> QED BY <1>4, <2>1, <2>2, <2>3, <2>4, <2>5 DEF LegacyOf
<1>13. RunsInv' /\ \A q \in Users : Pc(q, "legacy")' => LegacyOf(q)'
  <2>1. Runs(p)' => Runs(p)
    BY <1>4 DEF Runs
  <2> QED BY <1>1, <1>2, <1>7, <1>12, <2>1, LegacyStep
<1> QED BY <1>5, <1>8, <1>9, <1>11, <1>13 DEF FolderInv

LEMMA WriteFileStep ==
    ASSUME FolderInv, NEW p \in Users, NEW i \in Items, NEW f \in Files, WriteFile(p, i, f)
    PROVE  FolderInv'
<1> DEFINE d == IF i = SettingsItem THEN NewHome ELSE proc[p].using
<1>1. /\ FolderTypeOK /\ CopyOf(p) /\ MadeInv /\ StillThere
      /\ Pc(p, "runs") /\ f \in FilesOf[i] /\ ~ Copying(d, f) /\ written[f] < MaxWrites
      /\ written' = [written EXCEPT ![f] = @ + 1]
      /\ content' = [content EXCEPT ![d][f] = written[f] + 1]
      /\ made' = [made EXCEPT ![d] = @ \cup ({i} \ {SettingsItem})]
      /\ UNCHANGED <<root, proc, crashes>>
  BY DEF FolderInv, WriteFile
<1>2. d \in Folders \ {Old} /\ written[f] \in 0 .. MaxWrites
  BY <1>1, FolderAssumption DEF FolderTypeOK
<1>3. written[f] + 1 \in 0 .. MaxWrites /\ written[f] + 1 \in 0 .. Torn /\ written[f] + 1 # 0
  BY <1>1, <1>2, Numbers
<1> HIDE DEF d
<1>4. \A e \in Folders, g \in Files :
          content'[e][g] = IF e = d /\ g = f THEN written[f] + 1 ELSE content[e][g]
  BY <1>1, <1>2 DEF FolderTypeOK
<1>5. FolderTypeOK'
  BY <1>1, <1>2, <1>3 DEF FolderTypeOK
<1>6. Kept
  <2>1. content'[Old] = content[Old] /\ made'[Old] = made[Old]
    BY <1>1, <1>2, FolderAssumption DEF FolderTypeOK
  <2>2. \A e \in Folders : made[e] \subseteq made'[e]
    BY <1>1, <1>2 DEF FolderTypeOK
  <2> QED BY <1>3, <1>4, <2>1, <2>2 DEF Kept, Exists, Absent
<1>7. StillThere'
  <2>1. \A g \in Files : written'[g] = IF g = f THEN written[f] + 1 ELSE written[g]
    BY <1>1 DEF FolderTypeOK
  <2> QED BY <1>1, <1>2, <1>4, <2>1 DEF StillThere
<1>8. MadeInv'
  <2> SUFFICES ASSUME NEW e \in Folders, NEW j \in Items \ {SettingsItem},
                      NEW g \in FilesOf[j], Exists(e, g)'
               PROVE  j \in made'[e]
    BY DEF MadeInv
  <2>1. CASE e = d /\ g = f
    BY <1>1, <1>2, <2>1, OneItem DEF FolderTypeOK
  <2>2. CASE ~ (e = d /\ g = f)
    BY <1>1, <1>4, <1>6, <2>2, FilesAre DEF MadeInv, Exists, Kept
  <2> QED BY <2>1, <2>2
<1>9. Becomes(p, proc[p])
  BY <1>1 DEF Becomes, FolderTypeOK
<1>10. CopyOf(p)'
  BY <1>1, Nothing DEF CopyOf, AllCopied, Pc
<1>11. \A q \in Users : CopyOf(q)'
  <2>1. \A e \in Folders, g \in Files :
            content'[e][g] # content[e][g] =>
                \A q \in Users \ {p} : proc[q].to = e => g \notin proc[q].file
    BY <1>1, <1>4 DEF Copying
  <2> QED BY <1>6, <1>9, <1>10, <2>1, CopyStep
<1>12. RunsInv' /\ \A q \in Users : Pc(q, "legacy")' => LegacyOf(q)'
  <2>1. Runs(p) /\ ~ Pc(p, "legacy")'
    BY <1>1 DEF Runs, Pc
  <2> QED BY <1>6, <1>9, <2>1, LegacyStep
<1> QED BY <1>5, <1>7, <1>8, <1>11, <1>12 DEF FolderInv

-----------------------------------------------------------------------------
LEMMA FolderStart == FolderInit => FolderInv
<1> SUFFICES ASSUME FolderInit PROVE FolderInv
  OBVIOUS
<1>1. PICK old \in SUBSET Files :
          /\ written = [f \in Files |-> IF f \in old THEN 1 ELSE Absent]
          /\ content = [d \in Folders |-> [f \in Files |-> IF d = Old /\ f \in old THEN 1 ELSE Absent]]
          /\ made = [d \in Folders |-> {i \in Items \ {SettingsItem} : d = Old /\ FilesOf[i] \cap old # {}}]
  BY DEF FolderInit
<1>2. /\ root = NewHome
      /\ proc = [p \in Users |-> [pc |-> "off", using |-> NewHome, from |-> NewHome, to |-> NewHome,
                                 todo |-> {}, files |-> {}, file |-> {}]]
  BY DEF FolderInit, Off, Idle, Copy
<1>3. FolderTypeOK
  <2>1. 1 \in 0 .. MaxWrites
    BY FolderAssumption
  <2> QED BY <1>1, <1>2, <2>1, Numbers, FolderAssumption DEF FolderTypeOK, Absent
<1>4. MadeInv
  BY <1>1, FilesAre DEF MadeInv, Exists, Absent
<1>5. RunsInv
  BY <1>2 DEF RunsInv, Runs
<1>6. StillThere
  <2> SUFFICES ASSUME NEW f \in Files, written[f] # Absent
               PROVE  content[Old][f] = written[f]
    BY FolderAssumption DEF StillThere
  <2> QED BY <1>1, FolderAssumption
<1>7. \A p \in Users : CopyOf(p) /\ ~ Pc(p, "legacy")
  BY <1>2 DEF CopyOf, AllCopied, Due, Pc
<1> QED BY <1>3, <1>4, <1>5, <1>6, <1>7 DEF FolderInv

LEMMA FolderStep ==
    ASSUME MigrateAlone, FolderInv, [FolderNext]_folderVars
    PROVE  FolderInv'
<1>1. CASE UNCHANGED folderVars
  <2>1. UNCHANGED content /\ UNCHANGED made /\ UNCHANGED root /\ UNCHANGED proc /\ UNCHANGED written
    BY <1>1 DEF folderVars
  <2>2. FolderTypeOK' /\ MadeInv' /\ StillThere'
    BY <2>1 DEF FolderInv, FolderTypeOK, MadeInv, StillThere, Exists
  <2>3. /\ RunsInv' /\ \A d \in Folders, i \in Items : There(d, i)' <=> There(d, i)
    BY <2>1 DEF FolderInv, RunsInv, AllThere, Exists, There, Runs
  <2>4. ASSUME NEW p \in Users PROVE CopyOf(p)' /\ (Pc(p, "legacy")' => LegacyOf(p)')
    <3>1. CopyOf(p)'
      BY <2>1 DEF FolderInv, CopyOf, AllCopied, Due, Exists
    <3>2. Pc(p, "legacy")' => LegacyOf(p)'
      BY <2>1, <2>3, FolderAssumption DEF FolderInv, LegacyOf, AllThere, Exists, Pc, Runs
    <3> QED BY <3>1, <3>2
  <2> QED BY <2>2, <2>3, <2>4 DEF FolderInv
<1>2. CASE FolderNext
  <2>1. PICK p \in Users :
            \/ Launch(p) \/ EnsureLayout(p) \/ ReloadSettings(p) \/ FileCopied(p)
            \/ LegacyCopied(p) \/ Moved(p) \/ CopyFails(p) \/ ProcEnds(p)
            \/ \E d \in Folders : ApplyStorage(p, d)
            \/ \E f \in Files : CopyFile(p, f) \/ \E i \in Items : WriteFile(p, i, f)
            \/ \E i \in Items : NextItem(p, i)
    BY <1>2 DEF FolderNext
  <2> QED BY <2>1, LaunchStep, EnsureLayoutStep, ReloadStep, FileCopiedStep, LegacyCopiedStep,
             MovedStep, EndsStep, ApplyStep, CopyFileStep, WriteFileStep, NextItemStep
<1> QED BY <1>1, <1>2

(* Whatever was written last of a file is in some folder, whole, provided  *)
(* one process alone copies the old name's data.                           *)
THEOREM NothingLost == MigrateAlone => (FolderSpec => []StillThere)
<1> SUFFICES ASSUME MigrateAlone PROVE FolderSpec => []StillThere
  OBVIOUS
<1>1. FolderInv /\ [FolderNext]_folderVars => FolderInv'
  BY FolderStep
<1>2. FolderInv => StillThere
  BY DEF FolderInv
<1> QED BY FolderStart, <1>1, <1>2, PTL DEF FolderSpec

-----------------------------------------------------------------------------
(***************************************************************************)
(* Theorems about TestResults, if the cache is rewritten by one process at *)
(* a time and can be read: no result is lost, and the page shows those of  *)
(* the run that is over.                                                   *)
(***************************************************************************)
RunPcs == {"begin", "loop", "start", "probe", "read", "write", "mark", "last", "end", "gone"}
Phases == {"idle", "testing", "pause"}
Cells == {"none", "pending", "loading", "done"}
Results == [Releases -> [Tested -> [run: Nat, rows: BOOLEAN]]]
ProbeTables == [Releases -> [Tested -> Cells]]
RunRec == [pc: RunPcs, n: Nat, version: Releases, left: SUBSET Tested, active: Tested \cup {Nobody},
           phase: Phases, completed: SUBSET Tested, rows: BOOLEAN]
AskRec == [st: {"none", "sent", "ok", "refused"}, ids: SUBSET Tested, version: Releases \cup {Nobody}]
PollRec == [pc: {"none", "running", "lists", "apply"}, active: Tested \cup {Nobody},
            version: Releases \cup {Nobody}, running: BOOLEAN, phase: Phases, completed: SUBSET Tested,
            probe: Cells, over: Nat]
PageRec == [running: BOOLEAN, seen: SUBSET Tested, current: Tested \cup {Nobody}, upto: Nat]
PurgeRec == [pc: {"none", "write"}, version: Releases \cup {Nobody}, data: Results]

(* What an action of the job thread makes of its state. *)
RunIs(at, left, active, completed, rows) ==
    /\ run' \in RunRec /\ run'.n = run.n /\ run'.version = run.version
    /\ run'.pc = at /\ run'.left = left /\ run'.active = active
    /\ run'.completed = completed /\ run'.rows = rows

LEMMA RunChanges ==
    ASSUME run \in RunRec
    PROVE  /\ \A at \in RunPcs : RunGoes(at) => RunIs(at, run.left, run.active, run.completed, run.rows)
           /\ \A s \in Tested : NextTested(s) => RunIs("start", run.left \ {s}, s, run.completed, run.rows)
           /\ NotLaunched => RunIs("read", run.left, run.active, run.completed, FALSE)
           /\ SetResult => RunIs("read", run.left, run.active, run.completed, TRUE)
           /\ StopServed => RunIs(run.pc, {}, run.active, run.completed, run.rows)
           /\ MarkCompleted /\ run.active \in Tested =>
                 RunIs("loop", run.left, run.active, run.completed \cup {run.active}, FALSE)
           /\ RunAt("last") /\ RunEnds => RunIs("end", run.left, Nobody, run.completed, FALSE)
           /\ RunAt("end") /\ RunEnds => RunIs("gone", run.left, run.active, run.completed, run.rows)
<1>1. \A at \in RunPcs : RunGoes(at) => RunIs(at, run.left, run.active, run.completed, run.rows)
  BY DEF RunGoes, RunIs, RunRec
<1>2. \A s \in Tested : NextTested(s) => RunIs("start", run.left \ {s}, s, run.completed, run.rows)
  <2> SUFFICES ASSUME NEW s \in Tested, NextTested(s)
               PROVE  RunIs("start", run.left \ {s}, s, run.completed, run.rows)
    OBVIOUS
  <2> DEFINE left == run.left \ {s}
             r == [run EXCEPT !.pc = "start", !.left = left]
  <2>1. left \in SUBSET Tested
    BY DEF RunRec
  <2>2. run' = [r EXCEPT !.active = s, !.phase = "testing"]
    BY DEF NextTested
  <2> HIDE DEF left
  <2>3. /\ r \in RunRec /\ r.pc = "start" /\ r.left = left /\ r.n = run.n /\ r.version = run.version
        /\ r.completed = run.completed /\ r.rows = run.rows
    BY <2>1 DEF RunRec, RunPcs
  <2> HIDE DEF r
  <2>4. RunIs("start", left, s, run.completed, run.rows)
    BY <2>2, <2>3 DEF RunIs, RunRec, Phases
  <2> QED BY <2>4 DEF left
<1>3. NotLaunched => RunIs("read", run.left, run.active, run.completed, FALSE)
  BY DEF NotLaunched, RunIs, RunRec, RunPcs, Phases
<1>4. SetResult => RunIs("read", run.left, run.active, run.completed, TRUE)
  BY DEF SetResult, RunIs, RunRec, RunPcs, Phases
<1>5. StopServed => RunIs(run.pc, {}, run.active, run.completed, run.rows)
  BY DEF StopServed, RunIs, RunRec, RunPcs, Phases
<1>6. MarkCompleted /\ run.active \in Tested =>
                 RunIs("loop", run.left, run.active, run.completed \cup {run.active}, FALSE)
  <2> SUFFICES ASSUME MarkCompleted, run.active \in Tested
               PROVE  RunIs("loop", run.left, run.active, run.completed \cup {run.active}, FALSE)
    OBVIOUS
  <2> DEFINE completed == run.completed \cup {run.active}
             r == [run EXCEPT !.pc = "loop", !.phase = "pause"]
  <2>1. completed \in SUBSET Tested
    BY DEF RunRec
  <2>2. run' = [r EXCEPT !.rows = FALSE, !.completed = completed]
    BY DEF MarkCompleted
  <2> HIDE DEF completed
  <2>3. /\ r \in RunRec /\ r.pc = "loop" /\ r.left = run.left /\ r.n = run.n /\ r.version = run.version
        /\ r.active = run.active
    BY DEF RunRec, RunPcs, Phases
  <2> HIDE DEF r
  <2>4. RunIs("loop", run.left, run.active, completed, FALSE)
    BY <2>1, <2>2, <2>3 DEF RunIs, RunRec
  <2> QED BY <2>4 DEF completed
<1>7. RunAt("last") /\ RunEnds => RunIs("end", run.left, Nobody, run.completed, FALSE)
  BY DEF RunAt, RunEnds, RunIs, RunRec, RunPcs, Phases
<1>8. RunAt("end") /\ RunEnds => RunIs("gone", run.left, run.active, run.completed, run.rows)
  BY DEF RunAt, RunEnds, RunGoes, RunIs, RunRec, RunPcs, Phases
<1> QED BY <1>1, <1>2, <1>3, <1>4, <1>5, <1>6, <1>7, <1>8

Busy == run.pc \in {"start", "probe", "read", "write", "mark"}

RunTypes == run \in RunRec /\ (Busy => run.active \in Tested) /\ probes \in ProbeTables /\ copy \in Results
PageTypes == page \in PageRec /\ shown \in Results /\ table \in ProbeTables
AskTypes == ask \in [Clicks -> AskRec] /\ \A c \in Clicks : ask[c].st = "sent" => ask[c].version \in Releases
PollTypes == poll \in PollRec /\ (poll.pc # "none" => poll.version \in Releases)
PurgeTypes == purge \in PurgeRec /\ (purge.pc = "write" => purge.version \in Releases)
ResultsTypes ==
    /\ RunTypes /\ PageTypes /\ AskTypes /\ PollTypes /\ PurgeTypes
    /\ cache \in Results /\ chosen \in Releases

LEMMA Constants ==
    /\ NoResult \in [run: Nat, rows: BOOLEAN] /\ NoResult.run = 0 /\ NoResult.rows = FALSE
    /\ Empty \in Results /\ Unprobed \in ProbeTables
    /\ NoAsk \in AskRec /\ NoAsk.st = "none"
    /\ NoPurge \in PurgeRec /\ NoPurge.pc = "none"
    /\ NoPoll \in PollRec /\ NoPoll.pc = "none" /\ NoPoll.over = 0
    /\ NewPage \in PageRec /\ NewPage.seen = {} /\ NewPage.upto = 0
<1>1. NoResult \in [run: Nat, rows: BOOLEAN] /\ NoResult.run = 0 /\ NoResult.rows = FALSE
  BY DEF NoResult
<1>2. Empty \in Results
  BY <1>1 DEF Empty, Results
<1>3. Unprobed \in ProbeTables
  BY DEF Unprobed, ProbeTables, Cells
<1>4. NoAsk \in AskRec /\ NoAsk.st = "none"
  BY DEF NoAsk, AskRec
<1>5. NoPurge \in PurgeRec /\ NoPurge.pc = "none"
  BY <1>2 DEF NoPurge, PurgeRec
<1>6. NoPoll \in PollRec /\ NoPoll.pc = "none" /\ NoPoll.over = 0
  BY DEF NoPoll, PollRec, Phases, Cells
<1>7. NewPage \in PageRec /\ NewPage.seen = {} /\ NewPage.upto = 0
  BY DEF NewPage, PageRec
<1> QED BY <1>1, <1>2, <1>3, <1>4, <1>5, <1>6, <1>7

-----------------------------------------------------------------------------
(* The job thread keeps the types of its state.                            *)

JobSteps ==
    \/ StopServed
    \/ RunBegins \/ EndOfList \/ Launched \/ NotLaunched \/ SetResult \/ TestRaises
    \/ ReadCache \/ SaveResult \/ MarkCompleted \/ RunEnds
    \/ \E s \in Tested : NextTested(s)

LEMMA JobFrame ==
    ASSUME JobSteps
    PROVE  UNCHANGED <<chosen, switched, pageVars, ask, poll, purge, dropped, overtaken, late>>
BY DEF JobSteps, StopServed, RunBegins, EndOfList, Launched, NotLaunched, SetResult, TestRaises, ReadCache,
       SaveResult, MarkCompleted, RunEnds, NextTested, Besides

LEMMA RunIsTypes ==
    ASSUME RunTypes, NEW at, NEW left, NEW active, NEW completed, NEW rows,
           RunIs(at, left, active, completed, rows),
           at \in {"start", "probe", "read", "write", "mark"} => active \in Tested,
           probes' \in ProbeTables, copy' \in Results
    PROVE  RunTypes'
BY DEF RunTypes, RunIs, Busy

LEMMA TableTypes ==
    ASSUME RunTypes, NEW x \in Cells, Table(x) PROVE probes' \in ProbeTables
BY DEF RunTypes, Table, ProbeTables

LEMMA ReadingTypes ==
    ASSUME cache \in Results PROVE Readings \in SUBSET Results
BY Constants DEF Readings

LEMMA JobTypes ==
    ASSUME ResultsTypes, JobSteps PROVE RunTypes' /\ cache' \in Results
<1>1. RunTypes /\ run \in RunRec /\ cache \in Results /\ copy \in Results /\ probes \in ProbeTables
  BY DEF ResultsTypes, RunTypes
<1>2. CASE StopServed
  BY <1>1, <1>2, RunChanges, RunIsTypes DEF StopServed, RunTypes, Busy
<1>3. CASE RunBegins \/ EndOfList \/ TestRaises
  <2>1. PICK at \in {"loop", "last"} : RunGoes(at)
    BY <1>3 DEF RunBegins, EndOfList, TestRaises
  <2> QED BY <1>1, <1>3, <2>1, RunChanges, RunIsTypes DEF RunBegins, EndOfList, TestRaises, RunPcs
<1>4. CASE Launched
  <2>1. Busy /\ RunIs("probe", run.left, run.active, run.completed, run.rows)
    BY <1>1, <1>4, RunChanges DEF Launched, RunPcs, RunAt, Busy
  <2>2. probes' \in ProbeTables
    BY <1>1, <1>4, TableTypes DEF Launched, Cells
  <2> QED BY <1>1, <1>4, <2>1, <2>2, RunIsTypes DEF Launched, RunTypes
<1>5. CASE NotLaunched
  BY <1>1, <1>5, RunChanges, RunIsTypes DEF NotLaunched, RunAt, RunTypes, Busy
<1>6. CASE SetResult
  <2>1. Busy /\ RunIs("read", run.left, run.active, run.completed, TRUE)
    BY <1>1, <1>6, RunChanges DEF SetResult, RunAt, Busy
  <2>2. probes' \in ProbeTables
    BY <1>1, <1>6, TableTypes DEF SetResult, Cells
  <2> QED BY <1>1, <1>6, <2>1, <2>2, RunIsTypes DEF SetResult, RunTypes
<1>7. CASE ReadCache
  <2>1. Busy /\ RunIs("write", run.left, run.active, run.completed, run.rows) /\ copy' \in Results
    BY <1>1, <1>7, RunChanges, ReadingTypes DEF ReadCache, RunPcs, RunAt, Busy
  <2> QED BY <1>1, <1>7, <2>1, RunIsTypes DEF ReadCache, RunTypes
<1>8. CASE SaveResult
  <2>1. Busy /\ RunIs("mark", run.left, run.active, run.completed, run.rows)
    BY <1>1, <1>8, RunChanges DEF SaveResult, RunPcs, RunAt, Busy
  <2>2. cache' \in Results
    <3> DEFINE r == [run |-> run.n, rows |-> run.rows]
    <3>1. r \in [run: Nat, rows: BOOLEAN] /\ cache' = [copy EXCEPT ![run.version][run.active] = r]
      BY <1>1, <1>8 DEF SaveResult, RunRec
    <3> HIDE DEF r
    <3> QED BY <1>1, <3>1 DEF Results
  <2> QED BY <1>1, <1>8, <2>1, <2>2, RunIsTypes, Constants DEF SaveResult, RunTypes
<1>9. CASE MarkCompleted
  <2>1. run.active \in Tested
    BY <1>1, <1>9 DEF MarkCompleted, RunAt, RunTypes, Busy
  <2> QED BY <1>1, <1>9, <2>1, RunChanges, RunIsTypes DEF MarkCompleted
<1>10. CASE RunEnds
  BY <1>1, <1>10, RunChanges, RunIsTypes, Constants DEF RunEnds, RunAt
<1>11. ASSUME NEW s \in Tested, NextTested(s) PROVE RunTypes' /\ cache' \in Results
  <2>1. probes' \in ProbeTables
    BY <1>1, <1>11 DEF NextTested, ProbeTables, Cells
  <2> QED BY <1>1, <1>11, <2>1, RunChanges, RunIsTypes DEF NextTested
<1> QED BY <1>2, <1>3, <1>4, <1>5, <1>6, <1>7, <1>8, <1>9, <1>10, <1>11 DEF JobSteps

-----------------------------------------------------------------------------
(* Calls of test_start. *)

(* Only the call of c changes. *)
AskIs(c, st, version) ==
    /\ AskTypes' /\ ask'[c].st = st /\ ask'[c].version = version
    /\ \A d \in Clicks \ {c} : ask'[d] = ask[d]

PageIs(seen, upto) == page' \in PageRec /\ page'.seen = seen /\ page'.upto = upto

LEMMA AskOne ==
    ASSUME AskTypes, NEW c \in Clicks, NEW a \in AskRec, ask' = [ask EXCEPT ![c] = a],
           a.st = "sent" => a.version \in Releases
    PROVE  AskIs(c, a.st, a.version)
BY DEF AskTypes, AskIs

LEMMA Click ==
    ASSUME ResultsTypes, NEW c \in Clicks, NEW ids \in SUBSET Tested, StartClicked(c, ids)
    PROVE  AskIs(c, "sent", chosen) /\ PageIs({}, page.upto)
<1> DEFINE a == [st |-> "sent", ids |-> ids, version |-> chosen]
<1>1. a \in AskRec /\ a.st = "sent" /\ a.version = chosen /\ chosen \in Releases
  BY DEF AskRec, ResultsTypes
<1>2. ask' = [ask EXCEPT ![c] = a]
  BY DEF StartClicked
<1> HIDE DEF a
<1>3. AskIs(c, "sent", chosen)
  BY <1>1, <1>2, AskOne DEF ResultsTypes
<1>4. PageIs({}, page.upto)
  BY DEF StartClicked, PageIs, PageRec, ResultsTypes, PageTypes
<1> QED BY <1>3, <1>4

LEMMA AskMoves ==
    ASSUME AskTypes, NEW c \in Clicks, NEW x \in {"refused", "ok"}, ask' = [ask EXCEPT ![c].st = x]
    PROVE  AskIs(c, x, ask[c].version)
<1> DEFINE a == [ask[c] EXCEPT !.st = x]
<1>1. a \in AskRec /\ a.st = x /\ a.version = ask[c].version
  BY DEF AskRec, AskTypes
<1>2. ask' = [ask EXCEPT ![c] = a]
  OBVIOUS
<1> HIDE DEF a
<1> QED BY <1>1, <1>2, AskOne

LEMMA Serve ==
    ASSUME ResultsTypes, NEW c \in Clicks, StartServed(c)
    PROVE  /\ AskIs(c, "ok", ask[c].version) /\ ask[c].st = "sent"
           /\ run' \in RunRec /\ run'.pc = "begin" /\ run'.n = run.n + 1 /\ run'.version = ask[c].version
           /\ run'.completed = {} /\ run'.rows = FALSE
           /\ RunTypes'
<1>1. ask' = [ask EXCEPT ![c].st = "ok"] /\ ask[c].st = "sent" /\ UNCHANGED <<probes, copy>>
  BY DEF StartServed
<1>2. AskIs(c, "ok", ask[c].version)
  BY <1>1, AskMoves DEF ResultsTypes
<1>3. ask[c].version \in Releases /\ ask[c].ids \in SUBSET Tested /\ run.n + 1 \in Nat
  BY <1>1 DEF ResultsTypes, AskTypes, AskRec, RunTypes, RunRec
<1> DEFINE version == ask[c].version
           left == ask[c].ids
           n == run.n + 1
<1>4. run' = [pc |-> "begin", n |-> n, version |-> version, left |-> left,
               active |-> Nobody, phase |-> "idle", completed |-> {}, rows |-> FALSE]
  BY DEF StartServed
<1>5. version \in Releases /\ left \in SUBSET Tested /\ n \in Nat
  BY <1>3
<1> HIDE DEF version, left, n
<1>6. run' \in RunRec
  BY <1>4, <1>5 DEF RunRec, RunPcs, Phases
<1>7. run'.pc = "begin" /\ run'.n = n /\ run'.version = version /\ run'.completed = {} /\ run'.rows = FALSE
  BY <1>4
<1>8. RunTypes'
  BY <1>1, <1>6, <1>7 DEF RunTypes, Busy, ResultsTypes
<1> QED BY <1>1, <1>2, <1>6, <1>7, <1>8 DEF version, n

LEMMA Answer ==
    ASSUME ResultsTypes, NEW c \in Clicks, StartAnswered(c)
    PROVE  AskIs(c, "none", Nobody) /\ PageIs(page.seen, page.upto)
<1>1. AskIs(c, "none", Nobody)
  BY Constants, AskOne DEF StartAnswered, ResultsTypes, NoAsk
<1>2. PageIs(page.seen, page.upto)
  BY DEF StartAnswered, PageIs, PageRec, ResultsTypes, PageTypes
<1> QED BY <1>1, <1>2

-----------------------------------------------------------------------------
(* Calls of test_status. *)

PollIs(at, active, version, completed, probe, over) ==
    /\ poll' \in PollRec /\ poll'.pc = at /\ poll'.active = active /\ poll'.version = version
    /\ poll'.completed = completed /\ poll'.probe = probe /\ poll'.over = over

LEMMA PollBegins ==
    ASSUME ResultsTypes, PollStarts
    PROVE  PollIs("running", run.active, run.version, {}, "none", 0)
<1> DEFINE q == [NoPoll EXCEPT !.pc = "running"]
<1>1. /\ q \in PollRec /\ q.pc = "running" /\ q.completed = {} /\ q.probe = "none" /\ q.over = 0
  BY DEF NoPoll, PollRec, Phases, Cells
<1>2. poll' = [q EXCEPT !.active = run.active, !.version = run.version]
  BY DEF PollStarts
<1>3. run.active \in Tested \cup {Nobody} /\ run.version \in Releases
  BY DEF ResultsTypes, RunTypes, RunRec
<1> HIDE DEF q
<1> QED BY <1>1, <1>2, <1>3 DEF PollIs, PollRec

LEMMA PollReadsRunning ==
    ASSUME ResultsTypes, ReadRunning
    PROVE  PollIs("lists", poll.active, poll.version, poll.completed, poll.probe, IF Running THEN 0 ELSE run.n)
<1> DEFINE over == IF Running THEN 0 ELSE run.n
           q == [poll EXCEPT !.pc = "lists", !.running = Running]
<1>1. poll \in PollRec /\ Running \in BOOLEAN /\ run.phase \in Phases /\ over \in Nat
  BY DEF ResultsTypes, PollTypes, Running, RunTypes, RunRec
<1>2. poll' = [q EXCEPT !.phase = run.phase, !.over = over]
  BY DEF ReadRunning
<1>3. /\ q \in PollRec /\ q.pc = "lists" /\ q.active = poll.active /\ q.version = poll.version
      /\ q.completed = poll.completed /\ q.probe = poll.probe
  BY <1>1 DEF PollRec
<1> HIDE DEF q, over
<1>4. PollIs("lists", poll.active, poll.version, poll.completed, poll.probe, over)
  BY <1>1, <1>2, <1>3 DEF PollIs, PollRec
<1> QED BY <1>4 DEF over

Probe == IF poll.active = Nobody THEN "none" ELSE probes[poll.version][poll.active]
LEMMA PollReadsLists ==
    ASSUME ResultsTypes, poll.version \in Releases, ReadLists
    PROVE  PollIs("apply", poll.active, poll.version, run.completed, Probe,
                  IF poll.over = run.n THEN poll.over ELSE 0)
<1> DEFINE over == IF poll.over = run.n THEN poll.over ELSE 0
           q == [poll EXCEPT !.pc = "apply", !.completed = run.completed]
<1>1. poll \in PollRec /\ run.completed \in SUBSET Tested /\ over \in Nat
  BY DEF ResultsTypes, PollTypes, RunTypes, RunRec, PollRec
<1>2. Probe \in Cells
  BY DEF Probe, Cells, ResultsTypes, RunTypes, ProbeTables, PollTypes, PollRec
<1>3. poll' = [q EXCEPT !.probe = Probe, !.over = over]
  BY DEF ReadLists, Probe
<1>4. /\ q \in PollRec /\ q.pc = "apply" /\ q.active = poll.active /\ q.version = poll.version
      /\ q.completed = run.completed /\ q.over = poll.over
  BY <1>1 DEF PollRec
<1> HIDE DEF q, over
<1>5. PollIs("apply", poll.active, poll.version, run.completed, Probe, over)
  BY <1>1, <1>2, <1>3, <1>4 DEF PollIs, PollRec
<1> QED BY <1>5 DEF over

(* The tables of the page once an answer is applied: what was reloaded and *)
(* then the table in the answer.                                           *)
Hydrated(v, s) == IF v = chosen /\ s \in Reloadable /\ cache[chosen][s].rows THEN "done" ELSE table[v][s]

LEMMA HydratedFacts ==
    ASSUME ResultsTypes
    PROVE  /\ HydratedTable \in ProbeTables
           /\ \A v \in Releases, s \in Tested : HydratedTable[v][s] = Hydrated(v, s)
<1> DEFINE row == [s \in Tested |->
               IF s \in Reloadable /\ cache[chosen][s].rows THEN "done" ELSE table[chosen][s]]
<1>1. table \in ProbeTables /\ chosen \in Releases
  BY DEF ResultsTypes, PageTypes
<1>2. HydratedTable = [table EXCEPT ![chosen] = row]
  BY DEF HydratedTable
<1>3. row \in [Tested -> Cells]
  BY <1>1 DEF ProbeTables, Cells
<1>4. \A s \in Tested : row[s] = Hydrated(chosen, s)
  BY DEF Hydrated
<1> HIDE DEF row
<1>5. HydratedTable \in ProbeTables
  BY <1>1, <1>2, <1>3 DEF ProbeTables
<1>6. \A v \in Releases, s \in Tested : v # chosen => HydratedTable[v][s] = table[v][s]
  BY <1>1, <1>2 DEF ProbeTables
<1>7. \A s \in Tested : HydratedTable[chosen][s] = Hydrated(chosen, s)
  BY <1>1, <1>2, <1>4 DEF ProbeTables
<1> QED BY <1>5, <1>6, <1>7 DEF Hydrated

LEMMA RemoteFacts ==
    ASSUME ResultsTypes
    PROVE  /\ RemoteTable \in ProbeTables
           /\ \A v \in Releases, s \in Tested :
                 RemoteTable[v][s] = IF poll.probe # "none" /\ v = poll.version /\ s = poll.active
                                     THEN poll.probe ELSE Hydrated(v, s)
<1> DEFINE h == HydratedTable
<1>1. h \in ProbeTables /\ \A v \in Releases, s \in Tested : h[v][s] = Hydrated(v, s)
  BY HydratedFacts
<1>2. poll.probe \in Cells
  BY DEF ResultsTypes, PollTypes, PollRec
<1>3. RemoteTable = IF poll.probe = "none" THEN h ELSE [h EXCEPT ![poll.version][poll.active] = poll.probe]
  BY DEF RemoteTable
<1> HIDE DEF h
<1>4. CASE poll.probe = "none"
  BY <1>1, <1>3, <1>4
<1>5. CASE poll.probe # "none"
  <2>1. RemoteTable = [h EXCEPT ![poll.version][poll.active] = poll.probe]
    BY <1>3, <1>5
  <2>2. RemoteTable \in ProbeTables
    BY <1>1, <1>2, <2>1 DEF ProbeTables
  <2>3. \A v \in Releases, s \in Tested :
           RemoteTable[v][s] = IF v = poll.version /\ s = poll.active THEN poll.probe ELSE h[v][s]
    BY <1>1, <2>1 DEF ProbeTables
  <2> QED BY <1>1, <1>5, <2>2, <2>3
<1> QED BY <1>4, <1>5

LEMMA Apply ==
    ASSUME ResultsTypes, Applied
    PROVE  /\ PageIs(page.seen \cup poll.completed, IF poll.over = 0 THEN page.upto ELSE poll.over)
           /\ PageTypes' /\ poll' = NoPoll
           /\ \A v \in Releases, s \in Tested :
                 shown'[v][s] = IF v = chosen /\ s \in Reloadable THEN cache[v][s] ELSE shown[v][s]
           /\ \A v \in Releases, s \in Tested :
                 /\ Hydrated(v, s) = "done"
                 /\ v = poll.version /\ s = poll.active => poll.probe \in {"none", "done"}
                 => table'[v][s] = "done"
<1>1. /\ poll \in PollRec /\ page \in PageRec /\ shown \in Results /\ cache \in Results /\ chosen \in Releases
  BY DEF ResultsTypes, PollTypes, PageTypes
<1>2. PageIs(page.seen \cup poll.completed, IF poll.over = 0 THEN page.upto ELSE poll.over)
  <2> DEFINE seen == page.seen \cup poll.completed
             upto == IF poll.over = 0 THEN page.upto ELSE poll.over
  <2>1. /\ seen \in SUBSET Tested /\ upto \in Nat /\ RemoteCurrent \in Tested \cup {Nobody}
        /\ poll.running \in BOOLEAN
    BY <1>1 DEF RemoteCurrent, PageRec, PollRec
  <2>2. page' = [running |-> poll.running, seen |-> seen, current |-> RemoteCurrent, upto |-> upto]
    BY DEF Applied
  <2> HIDE DEF seen, upto
  <2>3. PageIs(seen, upto)
    BY <2>1, <2>2 DEF PageIs, PageRec
  <2> QED BY <2>3 DEF seen, upto
<1>3. /\ shown' \in Results
      /\ \A v \in Releases, s \in Tested :
            shown'[v][s] = IF v = chosen /\ s \in Reloadable THEN cache[v][s] ELSE shown[v][s]
  <2> DEFINE row == [s \in Tested |-> IF s \in Reloadable THEN cache[chosen][s] ELSE shown[chosen][s]]
  <2>1. shown' = [shown EXCEPT ![chosen] = row]
    BY DEF Applied
  <2>2. row \in [Tested -> [run: Nat, rows: BOOLEAN]]
    BY <1>1 DEF Results
  <2>3. \A s \in Tested : row[s] = IF s \in Reloadable THEN cache[chosen][s] ELSE shown[chosen][s]
    OBVIOUS
  <2> HIDE DEF row
  <2> QED BY <1>1, <2>1, <2>2, <2>3 DEF Results
<1>4. /\ table' \in ProbeTables
      /\ \A v \in Releases, s \in Tested : table'[v][s] = RemoteTable[v][s] \/ RemoteTable[v][s] = "none"
  <2> DEFINE r == RemoteTable
             w == poll.version
  <2>1. r \in ProbeTables
    BY RemoteFacts
  <2>2. \/ table' = r
        \/ /\ r[w][RemoteCurrent] = "none"
           /\ table' = [r EXCEPT ![w][RemoteCurrent] = "pending"]
    BY DEF Applied
  <2> HIDE DEF r
  <2>3. table' \in ProbeTables
    BY <2>1, <2>2 DEF ProbeTables, Cells
  <2>4. \A v \in Releases, s \in Tested : table'[v][s] = r[v][s] \/ r[v][s] = "none"
    BY <2>1, <2>2 DEF ProbeTables
  <2> QED BY <2>3, <2>4 DEF r
<1>5. ASSUME NEW v \in Releases, NEW s \in Tested, Hydrated(v, s) = "done",
             v = poll.version /\ s = poll.active => poll.probe \in {"none", "done"}
      PROVE  table'[v][s] = "done"
  <2>1. RemoteTable[v][s] = "done"
    BY <1>5, RemoteFacts
  <2> QED BY <1>4, <2>1
<1>6. poll' = NoPoll
  BY DEF Applied
<1> QED BY <1>2, <1>3, <1>4, <1>5, <1>6 DEF PageIs, PageTypes

-----------------------------------------------------------------------------
(* The rest of the page's process. *)

LEMMA Open ==
    ASSUME ResultsTypes, PageOpened
    PROVE  /\ PageTypes' /\ PageIs({}, 0) /\ shown' = cache
           /\ \A v \in Releases, s \in Tested : cache[v][s].rows => table'[v][s] = "done"
<1>1. PageIs({}, 0)
  BY Constants DEF PageOpened, PageIs
<1>2. table' \in ProbeTables
  BY DEF PageOpened, ProbeTables, Cells
<1>3. shown' = cache /\ cache \in Results
  BY DEF PageOpened, ResultsTypes
<1>4. \A v \in Releases, s \in Tested : cache[v][s].rows => table'[v][s] = "done"
  BY DEF PageOpened
<1> QED BY <1>1, <1>2, <1>3, <1>4 DEF PageIs, PageTypes

LEMMA PurgeStarts ==
    ASSUME ResultsTypes, NEW v \in Releases, PurgeBegins(v)
    PROVE  /\ PurgeTypes' /\ PageTypes'
           /\ \E data \in Readings :
                 \/ purge' = NoPurge /\ \A s \in Tested : data[v][s] = NoResult
                 \/ purge'.pc = "write" /\ purge'.version = v /\ purge'.data = data
           /\ \A w \in Releases, s \in Tested : shown'[w][s] = IF w = v THEN NoResult ELSE shown[w][s]
           /\ \A w \in Releases \ {v}, s \in Tested : table'[w][s] = table[w][s]
<1>1. page \in PageRec /\ shown \in Results /\ table \in ProbeTables /\ cache \in Results
  BY DEF ResultsTypes, PageTypes
<1>2. PICK data \in Readings :
          purge' = IF data[v] = Empty[v] THEN NoPurge ELSE [pc |-> "write", version |-> v, data |-> data]
  BY DEF PurgeBegins
<1>3. data \in Results
  BY <1>1, <1>2, ReadingTypes
<1>4. \A s \in Tested : Empty[v][s] = NoResult
  BY DEF Empty
<1>5. ASSUME data[v] = Empty[v]
      PROVE  PurgeTypes' /\ purge' = NoPurge /\ \A s \in Tested : data[v][s] = NoResult
  <2>1. purge' = NoPurge /\ \A s \in Tested : data[v][s] = NoResult
    BY <1>2, <1>4, <1>5
  <2>2. PurgeTypes'
    BY <2>1, Constants DEF PurgeTypes
  <2> QED BY <2>1, <2>2
<1>6. ASSUME data[v] # Empty[v]
      PROVE  PurgeTypes' /\ purge'.pc = "write" /\ purge'.version = v /\ purge'.data = data
  <2>1. purge'.pc = "write" /\ purge'.version = v /\ purge'.data = data /\ purge' \in PurgeRec
    BY <1>2, <1>3, <1>6 DEF PurgeRec
  <2>2. PurgeTypes'
    BY <2>1 DEF PurgeTypes
  <2> QED BY <2>1, <2>2
<1>7. /\ shown' \in Results
      /\ \A w \in Releases, s \in Tested : shown'[w][s] = IF w = v THEN NoResult ELSE shown[w][s]
  <2> DEFINE row == Empty[v]
  <2>1. row \in [Tested -> [run: Nat, rows: BOOLEAN]]
    BY Constants DEF Results
  <2>2. shown' = [shown EXCEPT ![v] = row]
    BY DEF PurgeBegins
  <2>3. \A s \in Tested : row[s] = NoResult
    BY <1>4
  <2> HIDE DEF row
  <2> QED BY <1>1, <2>1, <2>2, <2>3 DEF Results
<1>8. table' \in ProbeTables /\ \A w \in Releases \ {v}, s \in Tested : table'[w][s] = table[w][s]
  <2> DEFINE row == [s \in Tested |-> IF shown[v][s] = NoResult THEN table[v][s] ELSE "none"]
  <2>1. row \in [Tested -> Cells]
    BY <1>1 DEF ProbeTables, Cells
  <2>2. table' = [table EXCEPT ![v] = row]
    BY DEF PurgeBegins
  <2> HIDE DEF row
  <2> QED BY <1>1, <2>1, <2>2 DEF ProbeTables
<1>9. page' = page
  BY DEF PurgeBegins, Purging
<1>10. PurgeTypes' /\ PageTypes'
  BY <1>1, <1>5, <1>6, <1>7, <1>8, <1>9 DEF PageTypes
<1>11. \/ purge' = NoPurge /\ \A s \in Tested : data[v][s] = NoResult
       \/ purge'.pc = "write" /\ purge'.version = v /\ purge'.data = data
  BY <1>5, <1>6
<1> QED BY <1>2, <1>7, <1>8, <1>10, <1>11

LEMMA PurgeEnds ==
    ASSUME ResultsTypes, PurgeWrites
    PROVE  /\ cache' \in Results /\ purge' = NoPurge /\ PurgeTypes' /\ purge.version \in Releases
           /\ \A w \in Releases, s \in Tested :
                 cache'[w][s] = IF w = purge.version THEN NoResult ELSE purge.data[w][s]
<1> DEFINE v == purge.version
           row == Empty[v]
           data == purge.data
<1>1. v \in Releases /\ data \in Results
  BY DEF PurgeWrites, ResultsTypes, PurgeTypes, PurgeRec
<1>2. row \in [Tested -> [run: Nat, rows: BOOLEAN]]
  BY <1>1, Constants DEF Results
<1>3. \A s \in Tested : row[s] = NoResult
  BY <1>1 DEF Empty
<1>4. cache' = [data EXCEPT ![v] = row] /\ purge' = NoPurge
  BY DEF PurgeWrites
<1> HIDE DEF v, row, data
<1>5. /\ cache' \in Results
      /\ \A w \in Releases, s \in Tested : cache'[w][s] = IF w = v THEN NoResult ELSE data[w][s]
  BY <1>1, <1>2, <1>3, <1>4 DEF Results
<1>6. PurgeTypes'
  BY <1>4, Constants DEF PurgeTypes
<1> QED BY <1>1, <1>4, <1>5, <1>6 DEF v, data

-----------------------------------------------------------------------------
(* Every step keeps the types. *)

Asks == \E c \in Clicks :
    \/ \E ids \in SUBSET Tested : StartClicked(c, ids)
    \/ StartRefused(c) \/ StartServed(c) \/ StartAnswered(c)
Polls == PollStarts \/ ReadRunning \/ ReadLists \/ Applied
Manages == \/ \E v \in Releases : SwitchVersion(v) \/ PurgeBegins(v)
           \/ PageOpened \/ PurgeWrites

LEMMA Kinds ==
    ASSUME ResultsNext PROVE Asks \/ JobSteps \/ Polls \/ Manages
BY DEF ResultsNext, Asks, JobSteps, Polls, Manages

LEMMA AsksTypes ==
    ASSUME ResultsTypes, Asks PROVE ResultsTypes'
<1>1. PICK c \in Clicks : \/ \E ids \in SUBSET Tested : StartClicked(c, ids)
                          \/ StartRefused(c) \/ StartServed(c) \/ StartAnswered(c)
  BY DEF Asks
<1>2. ASSUME NEW ids \in SUBSET Tested, StartClicked(c, ids) PROVE ResultsTypes'
  BY <1>2, Click
     DEF StartClicked, AskIs, PageIs, ResultsTypes, RunTypes, PageTypes, PollTypes, PurgeTypes, Busy, runnerVars
<1>3. CASE StartRefused(c)
  <2>1. AskTypes'
    BY <1>3, AskMoves DEF StartRefused, AskIs, ResultsTypes
  <2> QED BY <1>3, <2>1
     DEF StartRefused, ResultsTypes, RunTypes, PageTypes, PollTypes, PurgeTypes, Busy, runnerVars, pageVars
<1>4. CASE StartServed(c)
  BY <1>4, Serve DEF StartServed, AskIs, ResultsTypes, PageTypes, PollTypes, PurgeTypes, pageVars
<1>5. CASE StartAnswered(c)
  BY <1>5, Answer
     DEF StartAnswered, AskIs, PageIs, ResultsTypes, RunTypes, PageTypes, PollTypes, PurgeTypes, Busy, runnerVars
<1> QED BY <1>1, <1>2, <1>3, <1>4, <1>5

LEMMA PollsTypes ==
    ASSUME ResultsTypes, Polls PROVE ResultsTypes'
<1>1. PageTypes' /\ PollTypes'
  <2>1. CASE PollStarts
    BY <2>1, PollBegins DEF PollStarts, PollIs, ResultsTypes, PageTypes, PollTypes, RunTypes, RunRec, pageVars
  <2>2. CASE ReadRunning
    BY <2>2, PollReadsRunning DEF ReadRunning, PollIs, ResultsTypes, PageTypes, PollTypes, pageVars
  <2>3. CASE ReadLists
    BY <2>3, PollReadsLists DEF ReadLists, PollIs, ResultsTypes, PageTypes, PollTypes, pageVars
  <2>4. CASE Applied
    BY <2>4, Apply, Constants DEF PollTypes
  <2> QED BY <2>1, <2>2, <2>3, <2>4 DEF Polls
<1>2. UNCHANGED <<runnerVars, cache, chosen, ask, purge>>
  BY DEF Polls, PollStarts, ReadRunning, ReadLists, Applied, Polling
<1> QED BY <1>1, <1>2 DEF ResultsTypes, RunTypes, AskTypes, PurgeTypes, Busy, runnerVars

LEMMA ManagesTypes ==
    ASSUME ResultsTypes, Manages PROVE ResultsTypes'
<1>1. ASSUME NEW v \in Releases, SwitchVersion(v) PROVE ResultsTypes'
  BY <1>1 DEF SwitchVersion, ResultsTypes, RunTypes, PageTypes, AskTypes, PollTypes, PurgeTypes, Busy,
              runnerVars, pageVars
<1>2. ASSUME NEW v \in Releases, PurgeBegins(v) PROVE ResultsTypes'
  BY <1>2, PurgeStarts
     DEF PurgeBegins, Purging, ResultsTypes, RunTypes, AskTypes, PollTypes, Busy, runnerVars
<1>3. CASE PageOpened
  <2>1. PollTypes'
    BY <1>3, Constants DEF PageOpened, PollTypes
  <2> QED BY <1>3, <2>1, Open DEF PageOpened, ResultsTypes, RunTypes, AskTypes, PurgeTypes, Busy, runnerVars
<1>4. CASE PurgeWrites
  BY <1>4, PurgeEnds
     DEF PurgeWrites, Purging, ResultsTypes, RunTypes, PageTypes, AskTypes, PollTypes, Busy, runnerVars
<1> QED BY <1>1, <1>2, <1>3, <1>4 DEF Manages

LEMMA TypesStep ==
    ASSUME ResultsTypes, [ResultsNext]_resultsVars PROVE ResultsTypes'
<1>1. CASE JobSteps
  BY <1>1, JobFrame, JobTypes DEF ResultsTypes, PageTypes, AskTypes, PollTypes, PurgeTypes, pageVars
<1>2. CASE UNCHANGED resultsVars
  BY <1>2 DEF resultsVars, runnerVars, pageVars, ResultsTypes, RunTypes, PageTypes, AskTypes, PollTypes,
              PurgeTypes, Busy
<1> QED BY <1>1, <1>2, Kinds, AsksTypes, PollsTypes, ManagesTypes

-----------------------------------------------------------------------------
(* Which answers are about the run that is over, and what is left of it.   *)

Turns ==
    /\ run.left \cap run.completed = {}
    /\ Busy => run.active \notin run.completed \cup run.left
    /\ run.n = 0 => ~Running /\ run.completed = {}
    /\ page.upto <= run.n /\ poll.over <= run.n
    /\ Running => page.upto # run.n /\ poll.over # run.n
    /\ poll.pc = "apply" /\ poll.over = run.n /\ run.n # 0 => poll.completed = run.completed
    /\ poll.pc = "none" => poll = NoPoll
    /\ \A k \in late : k \in 0 .. run.n

(* What a step of the job thread does to the run and its tables of probes. *)
JobEffect ==
    /\ Running /\ run'.n = run.n /\ run'.version = run.version
    /\ \/ run'.completed = run.completed
       \/ /\ RunAt("mark") /\ run'.pc = "loop" /\ UNCHANGED <<cache, probes>>
          /\ run'.completed = run.completed \cup {run.active}
    /\ run'.left \cap run'.completed = {}
    /\ Busy' => run'.active \notin run'.completed \cup run'.left
    /\ \A s \in run.completed : probes'[run.version][s] = probes[run.version][s]

LEMMA JobDoes ==
    ASSUME ResultsTypes, Turns, JobSteps PROVE JobEffect
<1>1. /\ run \in RunRec /\ probes \in ProbeTables /\ (Busy => run.active \in Tested)
      /\ run.left \cap run.completed = {} /\ (Busy => run.active \notin run.completed \cup run.left)
      /\ run.left \in SUBSET Tested /\ run.completed \in SUBSET Tested /\ run.version \in Releases
  BY DEF ResultsTypes, RunTypes, RunRec, Turns
<1>2. CASE StopServed
  BY <1>1, <1>2, RunChanges DEF StopServed, RunIs, JobEffect, Busy
<1>3. CASE RunBegins \/ EndOfList \/ TestRaises
  <2>1. PICK at \in {"loop", "last"} : RunGoes(at)
    BY <1>3 DEF RunBegins, EndOfList, TestRaises
  <2>2. RunIs(at, run.left, run.active, run.completed, run.rows)
    BY <1>1, <2>1, RunChanges DEF RunPcs
  <2>3. Running /\ UNCHANGED probes
    BY <1>3 DEF RunBegins, EndOfList, TestRaises, RunAt, Running
  <2> QED BY <1>1, <2>2, <2>3 DEF RunIs, JobEffect, Busy
<1>4. ASSUME Launched \/ SetResult PROVE JobEffect
  <2>1. PICK at \in {"probe", "read"}, rows \in BOOLEAN : RunIs(at, run.left, run.active, run.completed, rows)
    BY <1>1, <1>4, RunChanges DEF Launched, SetResult, RunPcs, RunRec
  <2>2. Busy /\ Running
    BY <1>4 DEF Launched, SetResult, RunAt, Busy, Running
  <2>3. PICK x : Table(x)
    BY <1>4 DEF Launched, SetResult
  <2>4. \A s \in run.completed : probes'[run.version][s] = probes[run.version][s]
    BY <1>1, <2>2, <2>3 DEF Table, ProbeTables
  <2> QED BY <1>1, <2>1, <2>2, <2>4 DEF RunIs, JobEffect, Busy
<1>5. CASE NotLaunched \/ ReadCache \/ SaveResult
  <2>1. PICK at \in {"read", "write", "mark"}, rows \in BOOLEAN :
            RunIs(at, run.left, run.active, run.completed, rows)
    BY <1>1, <1>5, RunChanges DEF NotLaunched, ReadCache, SaveResult, RunPcs, RunRec
  <2>2. Busy /\ Running /\ UNCHANGED probes
    BY <1>5 DEF NotLaunched, ReadCache, SaveResult, RunAt, Busy, Running
  <2> QED BY <1>1, <2>1, <2>2 DEF RunIs, JobEffect, Busy
<1>6. CASE MarkCompleted
  <2>1. Busy /\ Running /\ RunAt("mark") /\ UNCHANGED <<cache, probes>>
    BY <1>6 DEF MarkCompleted, RunAt, Busy, Running
  <2>2. RunIs("loop", run.left, run.active, run.completed \cup {run.active}, FALSE)
    BY <1>1, <1>6, <2>1, RunChanges
  <2> QED BY <1>1, <2>1, <2>2 DEF RunIs, JobEffect, Busy
<1>7. CASE RunEnds
  <2>1. PICK at \in {"end", "gone"}, active \in Tested \cup {Nobody}, rows \in BOOLEAN :
            RunIs(at, run.left, active, run.completed, rows)
    BY <1>1, <1>7, RunChanges DEF RunEnds, RunRec
  <2>2. Running /\ UNCHANGED probes
    BY <1>7 DEF RunEnds, RunAt, Running
  <2> QED BY <1>1, <2>1, <2>2 DEF RunIs, JobEffect, Busy
<1>8. ASSUME NEW s \in Tested, NextTested(s) PROVE JobEffect
  <2>1. RunIs("start", run.left \ {s}, s, run.completed, run.rows)
    BY <1>1, <1>8, RunChanges
  <2>2. Running /\ s \in run.left
    BY <1>8 DEF NextTested, RunAt, Running
  <2>3. \A t \in run.completed : probes'[run.version][t] = probes[run.version][t]
    BY <1>1, <1>8, <2>2 DEF NextTested, ProbeTables
  <2> QED BY <1>1, <2>1, <2>2, <2>3 DEF RunIs, JobEffect, Busy
<1> QED BY <1>2, <1>3, <1>4, <1>5, <1>6, <1>7, <1>8 DEF JobSteps

LEMMA TurnsAsks ==
    ASSUME ResultsTypes, Turns, Asks PROVE Turns'
<1>1. run \in RunRec /\ run.n \in Nat /\ page.upto \in Nat /\ poll.over \in Nat
  BY DEF ResultsTypes, RunTypes, RunRec, PageTypes, PageRec, PollTypes, PollRec
<1>2. PICK c \in Clicks : \/ \E ids \in SUBSET Tested : StartClicked(c, ids)
                          \/ StartRefused(c) \/ StartServed(c) \/ StartAnswered(c)
  BY DEF Asks
<1>3. ASSUME \/ \E ids \in SUBSET Tested : StartClicked(c, ids)
             \/ StartRefused(c) \/ StartAnswered(c)
      PROVE  Turns'
  <2>1. UNCHANGED <<run, poll, late>>
    BY <1>3 DEF StartClicked, StartRefused, StartAnswered, runnerVars
  <2>2. page'.upto = page.upto
    BY <1>3, Click, Answer DEF StartRefused, PageIs, pageVars
  <2> QED BY <2>1, <2>2 DEF Turns, Busy, Running
<1>4. CASE StartServed(c)
  <2>1. /\ run' \in RunRec /\ run'.pc = "begin" /\ run'.n = run.n + 1 /\ run'.completed = {}
        /\ UNCHANGED <<page, poll>> /\ late' \subseteq late \cup {run.n + 1}
    BY <1>4, Serve DEF StartServed, pageVars
  <2> QED BY <1>1, <2>1 DEF Turns, Busy, Running
<1> QED BY <1>2, <1>3, <1>4

LEMMA TurnsPolls ==
    ASSUME ResultsTypes, Turns, Polls PROVE Turns'
<1>1. run \in RunRec /\ run.n \in Nat /\ page.upto \in Nat /\ poll.over \in Nat
  BY DEF ResultsTypes, RunTypes, RunRec, PageTypes, PageRec, PollTypes, PollRec
<1>2. UNCHANGED <<run, late>>
  BY DEF Polls, PollStarts, ReadRunning, ReadLists, Applied, Polling, runnerVars
<1>3. CASE PollStarts
  <2>1. poll'.pc = "running" /\ poll'.over = 0 /\ page' = page
    BY <1>3, PollBegins DEF PollStarts, PollIs, pageVars
  <2> QED BY <1>1, <1>2, <2>1 DEF Turns, Busy, Running
<1>4. CASE ReadRunning
  <2>1. poll'.pc = "lists" /\ page' = page /\ poll'.over = IF Running THEN 0 ELSE run.n
    BY <1>4, PollReadsRunning DEF ReadRunning, PollIs, pageVars
  <2> QED BY <1>1, <1>2, <2>1 DEF Turns, Busy, Running
<1>5. CASE ReadLists
  <2>1. /\ poll'.pc = "apply" /\ page' = page /\ poll'.completed = run.completed
        /\ poll'.over = IF poll.over = run.n THEN poll.over ELSE 0
    BY <1>5, PollReadsLists DEF ReadLists, PollIs, pageVars, ResultsTypes, PollTypes
  <2> QED BY <1>1, <1>2, <2>1 DEF Turns, Busy, Running
<1>6. CASE Applied
  <2>1. poll' = NoPoll /\ page'.upto = IF poll.over = 0 THEN page.upto ELSE poll.over
    BY <1>6, Apply DEF PageIs
  <2> QED BY <1>1, <1>2, <2>1, Constants DEF Turns, Busy, Running
<1> QED BY <1>3, <1>4, <1>5, <1>6 DEF Polls

LEMMA TurnsStep ==
    ASSUME ResultsTypes, Turns, [ResultsNext]_resultsVars PROVE Turns'
<1>1. run \in RunRec /\ run.n \in Nat /\ page.upto \in Nat /\ poll.over \in Nat
  BY DEF ResultsTypes, RunTypes, RunRec, PageTypes, PageRec, PollTypes, PollRec
<1>2. CASE JobSteps
  <2>1. JobEffect /\ UNCHANGED <<page, poll, late>>
    BY <1>2, JobDoes, JobFrame DEF pageVars
  <2> QED BY <1>1, <2>1 DEF JobEffect, Turns
<1>3. ASSUME NEW v \in Releases, SwitchVersion(v) PROVE Turns'
  <2>1. UNCHANGED <<run, page, poll>> /\ late' \subseteq late \cup {run.n}
    BY <1>3 DEF SwitchVersion, runnerVars, pageVars
  <2> QED BY <1>1, <2>1 DEF Turns, Busy, Running
<1>4. ASSUME NEW v \in Releases, PurgeBegins(v) PROVE Turns'
  BY <1>4 DEF PurgeBegins, Purging, runnerVars, Turns, Busy, Running
<1>5. CASE PageOpened
  <2>1. run' = run /\ page'.upto = 0 /\ poll' = NoPoll /\ late' \subseteq late \cup {run.n}
    BY <1>5, Open DEF PageOpened, PageIs, runnerVars
  <2> QED BY <1>1, <2>1, Constants DEF Turns, Busy, Running
<1>6. CASE PurgeWrites
  BY <1>6 DEF PurgeWrites, Purging, runnerVars, Turns, Busy, Running
<1>7. CASE UNCHANGED resultsVars
  BY <1>7 DEF resultsVars, runnerVars, pageVars, Turns, Busy, Running
<1> QED BY <1>2, <1>3, <1>4, <1>5, <1>6, <1>7, Kinds, TurnsAsks, TurnsPolls DEF Manages

-----------------------------------------------------------------------------
(* Whoever rewrites the cache has it as it is.                             *)

Undisturbed == CacheApart /\ ~CacheMayFail

CacheWhole ==
    /\ chosen \notin dropped
    /\ purge.pc = "none" => purge = NoPurge
    /\ RunAt("write") => purge = NoPurge /\ copy = cache
    /\ purge.pc = "write" => purge.data = cache /\ purge.version \in dropped

(* The result under way is in the cache before the strategy is completed.  *)
Marked == RunAt("mark") /\ run.version \notin dropped => cache[run.version][run.active].run = run.n

(* What the job thread does to the cache, and to what it knows of the      *)
(* result under way.                                                       *)
Saves ==
    /\ RunAt("write") /\ run'.pc = "mark" /\ run'.active = run.active
    /\ run'.completed = run.completed /\ UNCHANGED probes
    /\ \A v \in Releases, s \in Tested :
          cache'[v][s] = IF v = run.version /\ s = run.active THEN [run |-> run.n, rows |-> run.rows]
                         ELSE cache[v][s]
Carries ==
    /\ run'.pc = "mark" => Saves \/ (RunAt("mark") /\ run'.active = run.active /\ UNCHANGED <<cache, probes>>)
    /\ run'.pc = "write" => ReadCache \/ (RunAt("write") /\ UNCHANGED <<cache, copy>>)
    /\ run'.pc \in {"read", "write"} /\ run'.rows =>
          \/ probes'[run.version][run'.active] = "done"
          \/ run.pc \in {"read", "write"} /\ run.rows /\ run'.active = run.active /\ UNCHANGED probes
    /\ UNCHANGED cache \/ Saves

LEMMA JobCarries ==
    ASSUME ResultsTypes, CacheWhole, JobSteps PROVE Carries
<1>1. /\ run \in RunRec /\ cache \in Results /\ (Busy => run.active \in Tested) /\ run.version \in Releases
      /\ probes \in ProbeTables
  BY DEF ResultsTypes, RunTypes, RunRec
<1>2. CASE SaveResult
  <2>1. RunAt("write") /\ copy = cache /\ UNCHANGED probes /\ run.active \in Tested
    BY <1>1, <1>2 DEF SaveResult, CacheWhole, RunAt, Busy
  <2>2. RunIs("mark", run.left, run.active, run.completed, run.rows)
    BY <1>1, <1>2, RunChanges DEF SaveResult, RunPcs
  <2> DEFINE r == [run |-> run.n, rows |-> run.rows]
  <2>3. cache' = [cache EXCEPT ![run.version][run.active] = r]
    BY <1>2, <2>1 DEF SaveResult
  <2> HIDE DEF r
  <2>4. \A v \in Releases, s \in Tested :
            cache'[v][s] = IF v = run.version /\ s = run.active THEN r ELSE cache[v][s]
    BY <1>1, <2>1, <2>3 DEF Results
  <2>5. Saves
    BY <2>1, <2>2, <2>4 DEF Saves, RunIs, r
  <2>6. run'.pc = "mark"
    BY <2>2 DEF RunIs
  <2> QED BY <2>5, <2>6 DEF Carries
<1>3. CASE StopServed
  <2>1. RunIs(run.pc, {}, run.active, run.completed, run.rows) /\ UNCHANGED <<cache, copy, probes>>
    BY <1>1, <1>3, RunChanges DEF StopServed
  <2> QED BY <2>1 DEF RunIs, Carries, RunAt
<1>4. CASE ReadCache
  <2>1. /\ RunIs("write", run.left, run.active, run.completed, run.rows)
        /\ UNCHANGED <<cache, probes>> /\ RunAt("read")
    BY <1>1, <1>4, RunChanges DEF ReadCache, RunPcs
  <2>2. run'.pc = "write" /\ run'.active = run.active /\ run'.rows = run.rows /\ run.pc = "read"
    BY <2>1 DEF RunIs, RunAt
  <2> QED BY <1>4, <2>1, <2>2 DEF Carries
<1>5. CASE NotLaunched
  <2>1. RunIs("read", run.left, run.active, run.completed, FALSE) /\ UNCHANGED cache
    BY <1>1, <1>5, RunChanges DEF NotLaunched
  <2> QED BY <2>1 DEF RunIs, Carries
<1>6. CASE SetResult
  <2>1. RunIs("read", run.left, run.active, run.completed, TRUE) /\ UNCHANGED cache /\ run.active \in Tested
    BY <1>1, <1>6, RunChanges DEF SetResult, RunAt, Busy
  <2>2. probes'[run.version][run.active] = "done"
    BY <1>1, <1>6, <2>1 DEF SetResult, Table, ProbeTables
  <2> QED BY <2>1, <2>2 DEF RunIs, Carries
<1>7. ASSUME RunBegins \/ EndOfList \/ TestRaises \/ Launched PROVE Carries
  <2>1. PICK at \in {"loop", "last", "probe"} : RunGoes(at)
    BY <1>7 DEF RunBegins, EndOfList, TestRaises, Launched
  <2>2. RunIs(at, run.left, run.active, run.completed, run.rows) /\ UNCHANGED cache
    BY <1>1, <1>7, <2>1, RunChanges DEF RunPcs, RunBegins, EndOfList, TestRaises, Launched
  <2> QED BY <2>2 DEF RunIs, Carries
<1>8. CASE MarkCompleted
  <2>1. RunIs("loop", run.left, run.active, run.completed \cup {run.active}, FALSE) /\ UNCHANGED cache
    BY <1>1, <1>8, RunChanges DEF MarkCompleted, RunAt, Busy
  <2> QED BY <2>1 DEF RunIs, Carries
<1>9. CASE RunEnds
  <2>1. run'.pc \in {"end", "gone"} /\ UNCHANGED cache
    BY <1>1, <1>9, RunChanges DEF RunEnds, RunIs
  <2> QED BY <2>1 DEF Carries
<1>10. ASSUME NEW s \in Tested, NextTested(s) PROVE Carries
  <2>1. run'.pc = "start" /\ UNCHANGED cache
    BY <1>1, <1>10, RunChanges DEF NextTested, RunIs
  <2> QED BY <2>1 DEF Carries
<1> QED BY <1>2, <1>3, <1>4, <1>5, <1>6, <1>7, <1>8, <1>9, <1>10 DEF JobSteps

(* What the steps of the page's process leave to the job thread.           *)
LEMMA AsksFrame ==
    ASSUME ResultsTypes, Asks
    PROVE  /\ UNCHANGED <<probes, copy, cache, chosen, switched, shown, table, poll, purge, dropped>>
           /\ run' = run \/ (run'.pc = "begin" /\ run'.completed = {})
<1>1. PICK c \in Clicks : \/ \E ids \in SUBSET Tested : StartClicked(c, ids)
                          \/ StartRefused(c) \/ StartServed(c) \/ StartAnswered(c)
  BY DEF Asks
<1>2. CASE StartServed(c)
  BY <1>2, Serve DEF StartServed, pageVars
<1>3. CASE ~StartServed(c)
  BY <1>1, <1>3 DEF StartClicked, StartRefused, StartAnswered, runnerVars, pageVars
<1> QED BY <1>2, <1>3

LEMMA PollsFrame ==
    ASSUME Polls PROVE UNCHANGED <<run, probes, copy, cache, chosen, switched, ask, purge, dropped, late>>
BY DEF Polls, PollStarts, ReadRunning, ReadLists, Applied, Polling, runnerVars

LEMMA OnlyReading ==
    ASSUME Undisturbed PROVE Readings = {cache}
BY DEF Undisturbed, Readings

LEMMA WholeStep ==
    ASSUME Undisturbed, ResultsTypes, CacheWhole, [ResultsNext]_resultsVars PROVE CacheWhole'
<1>1. CASE JobSteps
  <2>1. Carries /\ UNCHANGED <<chosen, purge, dropped>>
    BY <1>1, JobCarries, JobFrame
  <2>2. purge.pc = "write" => UNCHANGED cache
    BY <2>1, Constants DEF Carries, Saves, CacheWhole
  <2>3. CASE ReadCache
    <3>1. purge = NoPurge /\ copy' = cache /\ UNCHANGED cache
      BY <2>3, OnlyReading DEF ReadCache, Undisturbed
    <3> QED BY <2>1, <2>2, <3>1 DEF CacheWhole
  <2> QED BY <2>1, <2>2, <2>3 DEF Carries, CacheWhole, RunAt
<1>2. CASE Asks
  <2>1. run' = run \/ run'.pc = "begin"
    BY <1>2, AsksFrame
  <2> QED BY <1>2, <2>1, AsksFrame DEF CacheWhole, RunAt
<1>3. CASE Polls
  BY <1>3, PollsFrame DEF CacheWhole, RunAt
<1>4. ASSUME NEW v \in Releases, SwitchVersion(v) PROVE CacheWhole'
  BY <1>4 DEF SwitchVersion, runnerVars, CacheWhole, RunAt
<1>5. ASSUME NEW v \in Releases, PurgeBegins(v) PROVE CacheWhole'
  <2>1. /\ ~RunAt("write") /\ UNCHANGED <<run, copy, cache, chosen>> /\ dropped' = dropped \cup {v} /\ v # chosen
    BY <1>5 DEF PurgeBegins, Purging, runnerVars, Undisturbed
  <2>2. \/ purge' = NoPurge
        \/ purge'.pc = "write" /\ purge'.version = v /\ purge'.data = cache
    BY <1>5, PurgeStarts, OnlyReading
  <2> QED BY <2>1, <2>2, Constants DEF CacheWhole, RunAt
<1>6. CASE PageOpened
  BY <1>6 DEF PageOpened, runnerVars, CacheWhole, RunAt
<1>7. CASE PurgeWrites
  <2>1. purge.pc = "write" /\ purge' = NoPurge /\ UNCHANGED <<run, copy, chosen, dropped>>
    BY <1>7 DEF PurgeWrites, Purging, runnerVars
  <2> QED BY <2>1, Constants DEF CacheWhole, RunAt
<1>8. CASE UNCHANGED resultsVars
  BY <1>8 DEF resultsVars, runnerVars, CacheWhole, RunAt
<1> QED BY <1>1, <1>2, <1>3, <1>4, <1>5, <1>6, <1>7, <1>8, Kinds DEF Manages

LEMMA KeptStep ==
    ASSUME ResultsTypes, Turns, CacheWhole, Marked, ResultsKept, [ResultsNext]_resultsVars
    PROVE  Marked' /\ ResultsKept'
<1>1. /\ run \in RunRec /\ run.version \in Releases /\ run.completed \in SUBSET Tested
      /\ (Busy => run.active \in Tested /\ run.active \notin run.completed)
  BY DEF ResultsTypes, RunTypes, RunRec, Turns
<1>2. CASE JobSteps
  <2>1. Carries /\ JobEffect /\ UNCHANGED dropped
    BY <1>2, JobCarries, JobDoes, JobFrame
  <2>2. CASE Saves
    <3>1. Busy /\ run'.pc = "mark" /\ run'.active = run.active /\ run'.completed = run.completed
      BY <2>2 DEF Saves, RunAt, Busy
    <3>2. cache'[run.version][run.active].run = run.n
      BY <1>1, <2>2, <3>1 DEF Saves
    <3>3. \A s \in run.completed : cache'[run.version][s] = cache[run.version][s]
      BY <1>1, <2>2, <3>1 DEF Saves
    <3> QED BY <2>1, <3>1, <3>2, <3>3 DEF JobEffect, Marked, ResultsKept, RunAt
  <2>3. CASE UNCHANGED cache /\ ~Saves
    BY <2>1, <2>3 DEF Carries, JobEffect, Marked, ResultsKept, RunAt
  <2> QED BY <2>1, <2>2, <2>3 DEF Carries
<1>3. CASE Asks
  <2>1. run' = run \/ (run'.pc = "begin" /\ run'.completed = {})
    BY <1>3, AsksFrame
  <2> QED BY <1>3, <2>1, AsksFrame DEF Marked, ResultsKept, RunAt
<1>4. CASE Polls
  BY <1>4, PollsFrame DEF Marked, ResultsKept, RunAt
<1>5. ASSUME NEW v \in Releases, SwitchVersion(v) PROVE Marked' /\ ResultsKept'
  BY <1>5 DEF SwitchVersion, runnerVars, Marked, ResultsKept, RunAt
<1>6. ASSUME NEW v \in Releases, PurgeBegins(v) PROVE Marked' /\ ResultsKept'
  BY <1>6 DEF PurgeBegins, Purging, runnerVars, Marked, ResultsKept, RunAt
<1>7. CASE PageOpened
  BY <1>7 DEF PageOpened, runnerVars, Marked, ResultsKept, RunAt
<1>8. CASE PurgeWrites
  <2>1. purge.pc = "write" /\ UNCHANGED <<run, dropped>>
    BY <1>8 DEF PurgeWrites, Purging, runnerVars
  <2>2. run.version \notin dropped =>
            \A s \in Tested : cache'[run.version][s] = cache[run.version][s]
    BY <1>1, <1>8, <2>1, PurgeEnds DEF CacheWhole
  <2>3. RunAt("mark") => run.active \in Tested
    BY <1>1 DEF RunAt, Busy
  <2> QED BY <1>1, <2>1, <2>2, <2>3 DEF Marked, ResultsKept, RunAt
<1>9. CASE UNCHANGED resultsVars
  BY <1>9 DEF resultsVars, runnerVars, Marked, ResultsKept, RunAt
<1> QED BY <1>2, <1>3, <1>4, <1>5, <1>6, <1>7, <1>8, <1>9, Kinds DEF Manages

-----------------------------------------------------------------------------
(* What the page knows of a run it has taken no wrong answer for.          *)

(* A call on its way that nothing has overtaken finds the page as it left  *)
(* it.                                                                     *)
Starts ==
    \A c \in Clicks : ask[c].st = "sent" /\ c \notin overtaken => page.seen = {} /\ ask[c].version = chosen

(* The result that the cache is going to keep, and the page that shows it. *)
Stored(v, s) == IF purge.pc = "write" /\ purge.version = v THEN NoResult ELSE cache[v][s]
Right(s) ==
    /\ shown[run.version][s] = Stored(run.version, s)
    /\ Stored(run.version, s).rows => table[run.version][s] = "done"
Settled == \A s \in run.completed : Right(s)
Final == ~Running /\ page.upto = run.n

SeenRight == page.seen \subseteq run.completed /\ \A s \in page.seen : Right(s)
FinalRight == Final => Settled
AwayRight == chosen # run.version => ~Running /\ Settled
ListOld == poll.pc = "apply" => poll.completed \subseteq run.completed
CompletedProbed == \A s \in run.completed : Stored(run.version, s).rows => probes[run.version][s] = "done"
ActiveProbed ==
    /\ run.pc \in {"read", "write"} /\ run.rows => probes[run.version][run.active] = "done"
    /\ RunAt("mark") /\ cache[run.version][run.active].rows => probes[run.version][run.active] = "done"
(* A table in an answer that is not the last word is of a strategy whose   *)
(* results are still to be read.                                           *)
TableOld ==
    /\ poll.pc = "apply" /\ poll.version = run.version /\ poll.active \in run.completed
    /\ poll.active \in poll.completed \cup page.seen \/ Final \/ chosen # run.version
    /\ Stored(run.version, poll.active).rows
    => poll.probe = "done"

Informed == SeenRight /\ FinalRight /\ AwayRight /\ ListOld /\ CompletedProbed /\ ActiveProbed /\ TableOld
Follows == run.n \notin late => Informed

LEMMA StartsStep ==
    ASSUME ResultsTypes, Starts, [ResultsNext]_resultsVars PROVE Starts'
<1>1. ask \in [Clicks -> AskRec]
  BY DEF ResultsTypes, AskTypes
<1>2. CASE JobSteps
  <2>1. UNCHANGED <<ask, page, chosen, overtaken>>
    BY <1>2, JobFrame DEF pageVars
  <2> QED BY <2>1 DEF Starts
<1>3. ASSUME NEW c \in Clicks, NEW ids \in SUBSET Tested, StartClicked(c, ids) PROVE Starts'
  <2>1. /\ page'.seen = {} /\ chosen' = chosen /\ overtaken' = overtaken \ {c}
        /\ ask'[c].version = chosen /\ \A d \in Clicks \ {c} : ask'[d] = ask[d]
    BY <1>3, Click DEF StartClicked, PageIs, AskIs
  <2> QED BY <2>1 DEF Starts
<1>4. ASSUME NEW c \in Clicks, StartRefused(c) PROVE Starts'
  <2>1. /\ UNCHANGED <<page, chosen, overtaken>>
        /\ ask'[c].st = "refused" /\ \A d \in Clicks \ {c} : ask'[d] = ask[d]
    BY <1>4, AskMoves DEF StartRefused, AskIs, pageVars, ResultsTypes
  <2> QED BY <2>1 DEF Starts
<1>5. ASSUME NEW c \in Clicks, StartServed(c) PROVE Starts'
  <2>1. /\ UNCHANGED <<page, chosen, overtaken>>
        /\ ask'[c].st = "ok" /\ \A d \in Clicks \ {c} : ask'[d] = ask[d]
    BY <1>5, Serve DEF StartServed, AskIs, pageVars
  <2> QED BY <2>1 DEF Starts
<1>6. ASSUME NEW c \in Clicks, StartAnswered(c) PROVE Starts'
  <2>1. /\ UNCHANGED <<chosen, overtaken>> /\ page'.seen = page.seen
        /\ ask'[c].st = "none" /\ \A d \in Clicks \ {c} : ask'[d] = ask[d]
    BY <1>6, Answer DEF StartAnswered, AskIs, PageIs
  <2> QED BY <2>1 DEF Starts
<1>7. CASE PollStarts \/ ReadRunning \/ ReadLists
  BY <1>7 DEF PollStarts, ReadRunning, ReadLists, Polling, pageVars, Starts
<1>8. CASE Applied
  BY <1>8 DEF Applied, Polling, Sent, Starts
<1>9. ASSUME NEW v \in Releases, SwitchVersion(v) PROVE Starts'
  BY <1>9 DEF SwitchVersion, Sent, Starts
<1>10. ASSUME NEW v \in Releases, PurgeBegins(v) PROVE Starts'
  BY <1>10 DEF PurgeBegins, Purging, Starts
<1>11. CASE PageOpened
  BY <1>11, Constants DEF PageOpened, Starts
<1>12. CASE PurgeWrites
  BY <1>12 DEF PurgeWrites, Purging, Starts
<1>13. CASE UNCHANGED resultsVars
  BY <1>13 DEF resultsVars, pageVars, Starts
<1> QED BY <1>2, <1>3, <1>4, <1>5, <1>6, <1>7, <1>8, <1>9, <1>10, <1>11, <1>12, <1>13, Kinds
        DEF Asks, Polls, Manages

(* Nothing moves that the page or the cache says of a run. *)
LEMMA Steady ==
    ASSUME Informed, UNCHANGED <<run, probes, cache, chosen, shown, table, purge>>,
           page'.seen \subseteq page.seen, page'.upto = page.upto,
           poll' = poll \/ poll'.pc # "apply"
    PROVE  Informed'
<1>1. /\ \A s : Stored(run.version, s)' = Stored(run.version, s)
      /\ \A s : Right(s)' <=> Right(s)
  BY DEF Stored, Right
<1>2. SeenRight' /\ FinalRight' /\ AwayRight'
  BY <1>1 DEF Informed, SeenRight, FinalRight, AwayRight, Final, Settled, Running
<1>3. ListOld' /\ CompletedProbed' /\ ActiveProbed'
  BY <1>1 DEF Informed, ListOld, CompletedProbed, ActiveProbed, RunAt
<1>4. TableOld'
  BY <1>1 DEF Informed, TableOld, Final, Running
<1> QED BY <1>2, <1>3, <1>4 DEF Informed

LEMMA StoredRows ==
    ASSUME NEW v, NEW s, Stored(v, s).rows PROVE cache[v][s].rows
BY Constants DEF Stored

(* A step of the job thread: the page waits, at the version tested. *)
LEMMA JobInforms ==
    ASSUME ResultsTypes, Turns, CacheWhole, Informed, JobSteps PROVE Informed'
<1> DEFINE v == run.version
           a == run.active
<1>1. /\ run \in RunRec /\ v \in Releases /\ run.completed \in SUBSET Tested /\ page.upto \in Nat
      /\ (Busy => a \in Tested /\ a \notin run.completed) /\ cache \in Results
  BY DEF ResultsTypes, RunTypes, RunRec, Turns, PageTypes, PageRec
<1>2. Carries /\ JobEffect /\ UNCHANGED <<chosen, page, shown, table, poll, purge>>
  BY JobCarries, JobDoes, JobFrame DEF pageVars
<1>3. Running /\ chosen = v /\ ~Final /\ ~Final' /\ run'.version = v
  BY <1>2 DEF JobEffect, Informed, AwayRight, Turns, Final
<1>4. run.completed \subseteq run'.completed
  BY <1>2 DEF JobEffect
<1>5. ASSUME NEW s \in run.completed PROVE cache'[v][s] = cache[v][s]
  BY <1>1, <1>2 DEF Carries, Saves, RunAt, Busy
<1>6. ASSUME NEW s \in run.completed PROVE Stored(v, s)' = Stored(v, s)
  BY <1>2, <1>3, <1>5 DEF Stored
<1>7. ASSUME NEW s \in run.completed, Right(s) PROVE Right(s)'
  BY <1>2, <1>3, <1>6, <1>7 DEF Right
<1>8. SeenRight' /\ FinalRight' /\ AwayRight' /\ ListOld'
  BY <1>2, <1>3, <1>4, <1>7 DEF Informed, SeenRight, FinalRight, AwayRight, ListOld
<1>9. ActiveProbed'
  <2>1. ASSUME run'.pc \in {"read", "write"}, run'.rows PROVE probes'[v][run'.active] = "done"
    BY <1>2, <2>1 DEF Carries, Informed, ActiveProbed
  <2>2. ASSUME run'.pc = "mark", cache'[v][run'.active].rows PROVE probes'[v][run'.active] = "done"
    <3>1. CASE Saves
      <4>1. cache'[v][a] = [run |-> run.n, rows |-> run.rows] /\ run'.active = a /\ run.pc = "write"
        BY <1>1, <3>1 DEF Saves, RunAt, Busy
      <4>2. run.rows
        BY <2>2, <4>1
      <4> QED BY <3>1, <4>1, <4>2 DEF Saves, Informed, ActiveProbed
    <3>2. CASE ~Saves
      BY <1>2, <2>2, <3>2 DEF Carries, Informed, ActiveProbed
    <3> QED BY <3>1, <3>2
  <2> QED BY <1>3, <2>1, <2>2 DEF ActiveProbed, RunAt
<1>10. CompletedProbed'
  <2> SUFFICES ASSUME NEW s \in run'.completed, Stored(v, s)'.rows PROVE probes'[v][s] = "done"
    BY <1>3 DEF CompletedProbed
  <2>1. CASE s \in run.completed
    BY <1>2, <1>6, <2>1 DEF JobEffect, Informed, CompletedProbed
  <2>2. CASE s \notin run.completed
    <3>1. s = a /\ RunAt("mark") /\ UNCHANGED <<cache, probes>>
      BY <1>2, <2>2 DEF JobEffect
    <3>2. Stored(v, s)' = Stored(v, s)
      BY <1>2, <1>3, <3>1 DEF Stored
    <3> QED BY <3>1, <3>2, StoredRows DEF Informed, ActiveProbed
  <2> QED BY <2>1, <2>2
<1>11. TableOld'
  <2> SUFFICES ASSUME NEW s, s = poll.active, poll.pc = "apply", poll.version = v,
                      s \in poll.completed \cup page.seen, Stored(v, s)'.rows
               PROVE  poll.probe = "done"
    BY <1>2, <1>3 DEF TableOld
  <2>1. s \in run.completed
    BY DEF Informed, SeenRight, ListOld
  <2>2. Stored(v, s).rows
    BY <1>6, <2>1
  <2> QED BY <2>1, <2>2 DEF Informed, TableOld
<1> QED BY <1>8, <1>9, <1>10, <1>11 DEF Informed

(* A new run, with nothing of another about it. *)
LEMMA StartInforms ==
    ASSUME ResultsTypes, Starts, NEW c \in Clicks, StartServed(c), run'.n \notin late' PROVE Informed'
<1>1. /\ run'.pc = "begin" /\ run'.n = run.n + 1 /\ run'.version = ask[c].version /\ run'.completed = {}
      /\ ask[c].st = "sent"
  BY Serve
<1>2. c \notin overtaken /\ poll.pc # "apply" /\ UNCHANGED <<page, poll, chosen>>
  BY <1>1 DEF StartServed, pageVars
<1>3. page.seen = {} /\ ask[c].version = chosen
  BY <1>1, <1>2 DEF Starts
<1> QED BY <1>1, <1>2, <1>3
        DEF Informed, SeenRight, FinalRight, Final, AwayRight, Settled, ListOld, CompletedProbed, ActiveProbed,
            TableOld, RunAt, Running

LEMMA AsksInform ==
    ASSUME ResultsTypes, Turns, Starts, Follows, Asks, run'.n \notin late' PROVE Informed'
<1>1. PICK c \in Clicks : \/ \E ids \in SUBSET Tested : StartClicked(c, ids)
                          \/ StartRefused(c) \/ StartServed(c) \/ StartAnswered(c)
  BY DEF Asks
<1>2. ASSUME ~StartServed(c) PROVE Informed'
  <2>1. UNCHANGED <<run, probes, cache, chosen, shown, table, poll, purge, late>>
    BY <1>1, <1>2 DEF StartClicked, StartRefused, StartAnswered, runnerVars, pageVars
  <2>2. page'.seen \subseteq page.seen /\ page'.upto = page.upto
    BY <1>1, <1>2, Click, Answer DEF StartRefused, PageIs, pageVars
  <2> QED BY <2>1, <2>2, Steady DEF Follows
<1> QED BY <1>2, StartInforms

(* The answer read last is about the run as it is. *)
LEMMA ListInforms ==
    ASSUME ResultsTypes, Turns, CacheWhole, Informed, ReadLists PROVE Informed'
<1>1. PollIs("apply", poll.active, poll.version, run.completed, Probe,
             IF poll.over = run.n THEN poll.over ELSE 0)
  BY PollReadsLists DEF ReadLists, ResultsTypes, PollTypes
<1>2. UNCHANGED <<run, probes, cache, chosen, page, shown, table, purge>>
  BY DEF ReadLists, Polling, runnerVars, pageVars
<1>3. /\ \A s : Stored(run.version, s)' = Stored(run.version, s)
      /\ \A s : Right(s)' <=> Right(s)
  BY <1>2 DEF Stored, Right
<1>4. SeenRight' /\ FinalRight' /\ AwayRight'
  BY <1>2, <1>3 DEF Informed, SeenRight, FinalRight, AwayRight, Final, Settled, Running
<1>5. ListOld' /\ CompletedProbed' /\ ActiveProbed'
  BY <1>1, <1>2, <1>3 DEF PollIs, Informed, ListOld, CompletedProbed, ActiveProbed, RunAt
<1>6. TableOld'
  <2> SUFFICES ASSUME NEW s, s = poll.active, s \in run.completed, poll.version = run.version,
                      Stored(run.version, s).rows
               PROVE  Probe = "done"
    BY <1>1, <1>2, <1>3 DEF PollIs, TableOld
  <2>1. s # Nobody
    BY NobodyIsNoStrategy DEF ResultsTypes, RunTypes, RunRec
  <2> QED BY <2>1 DEF Probe, Informed, CompletedProbed
<1> QED BY <1>4, <1>5, <1>6 DEF Informed

(* An answer of this run brings what it says. *)
LEMMA AppliedRight ==
    ASSUME ResultsTypes, Turns, CacheWhole, ResultsKept, Informed, Applied, NEW s \in run.completed,
           \/ s \in poll.completed \cup page.seen \/ Final \/ chosen # run.version
    PROVE  Right(s)'
<1> DEFINE v == run.version
<1>1. v \in Releases /\ s \in Tested /\ run.n \in Nat /\ poll.probe \in Cells
  BY DEF ResultsTypes, RunTypes, RunRec, PollTypes, PollRec
<1>2. UNCHANGED <<run, cache, purge, chosen>> /\ poll.pc = "apply"
  BY DEF Applied, Polling, runnerVars
<1>3. Stored(v, s)' = Stored(v, s)
  BY <1>2 DEF Stored
<1>4. shown'[v][s] = IF v = chosen /\ s \in Reloadable THEN cache[v][s] ELSE shown[v][s]
  BY <1>1, Apply
<1>5. /\ Hydrated(v, s) = "done" /\ (v = poll.version /\ s = poll.active => poll.probe \in {"none", "done"})
      => table'[v][s] = "done"
  BY <1>1, Apply
<1>6. Stored(v, s).rows /\ v = poll.version /\ s = poll.active => poll.probe = "done"
  BY <1>2 DEF Informed, TableOld
<1>7. CASE v = chosen /\ s \in Reloadable
  <2>1. Stored(v, s) = cache[v][s]
    BY <1>7 DEF Stored, CacheWhole
  <2>2. Stored(v, s).rows => Hydrated(v, s) = "done"
    BY <1>7, <2>1 DEF Hydrated
  <2> QED BY <1>2, <1>3, <1>4, <1>5, <1>6, <1>7, <2>1, <2>2 DEF Right
<1>8. CASE ~(v = chosen /\ s \in Reloadable)
  <2>1. Right(s)
    <3>1. CASE s \in page.seen \/ Final \/ chosen # v
      BY <3>1 DEF Informed, SeenRight, FinalRight, AwayRight, Settled
    <3>2. CASE s \in poll.completed \ page.seen /\ chosen = v
      <4>1. cache[v][s].run = run.n /\ run.n # 0
        BY <3>2 DEF ResultsKept, CacheWhole, Turns
      <4>2. s \in Reloadable
        BY <3>2, <4>1, Constants DEF Reloadable
      <4> QED BY <1>8, <3>2, <4>2
    <3> QED BY <3>1, <3>2
  <2>2. shown'[v][s] = Stored(v, s)
    BY <1>4, <1>8, <2>1 DEF Right
  <2>3. Stored(v, s).rows => Hydrated(v, s) = "done"
    BY <2>1 DEF Right, Hydrated
  <2> QED BY <1>2, <1>3, <1>5, <1>6, <2>2, <2>3 DEF Right
<1> QED BY <1>7, <1>8

LEMMA AppliedInforms ==
    ASSUME ResultsTypes, Turns, CacheWhole, ResultsKept, Informed, Applied PROVE Informed'
<1>1. /\ poll.pc = "apply" /\ poll'.pc = "none"
      /\ UNCHANGED <<run, probes, cache, purge, chosen>>
      /\ page'.seen = page.seen \cup poll.completed
      /\ page'.upto = IF poll.over = 0 THEN page.upto ELSE poll.over
  BY Apply, Constants DEF Applied, Polling, runnerVars, PageIs
<1>2. SeenRight'
  <2>1. page'.seen \subseteq run.completed
    BY <1>1 DEF Informed, SeenRight, ListOld
  <2>2. \A s \in page'.seen : Right(s)'
    BY <1>1, <2>1, AppliedRight
  <2> QED BY <1>1, <2>1, <2>2 DEF SeenRight
<1>3. FinalRight'
  <2> SUFFICES ASSUME Final', NEW s \in run.completed PROVE Right(s)'
    BY <1>1 DEF FinalRight, Settled
  <2>1. CASE poll.over = 0
    <3>1. Final
      BY <1>1, <2>1 DEF Final, Running
    <3> QED BY <3>1, AppliedRight
  <2>2. CASE poll.over # 0
    <3>1. poll.over = run.n
      BY <1>1, <2>2 DEF Final
    <3>2. s \in poll.completed
      BY <1>1, <2>2, <3>1 DEF Turns
    <3> QED BY <3>2, AppliedRight
  <2> QED BY <2>1, <2>2
<1>4. AwayRight'
  <2> SUFFICES ASSUME chosen # run.version PROVE ~Running /\ \A s \in run.completed : Right(s)'
    BY <1>1 DEF AwayRight, Settled, Running
  <2> QED BY AppliedRight DEF Informed, AwayRight
<1>5. \A s : Stored(run.version, s)' = Stored(run.version, s)
  BY <1>1 DEF Stored
<1>6. ListOld' /\ TableOld' /\ CompletedProbed' /\ ActiveProbed'
  BY <1>1, <1>5 DEF Informed, ListOld, TableOld, CompletedProbed, ActiveProbed, RunAt
<1> QED BY <1>2, <1>3, <1>4, <1>6 DEF Informed

LEMMA PollsInform ==
    ASSUME ResultsTypes, Turns, CacheWhole, ResultsKept, Informed, Polls PROVE Informed'
<1>1. CASE PollStarts
  <2>1. poll'.pc = "running"
    BY <1>1, PollBegins DEF PollIs
  <2> QED BY <1>1, <2>1, PollsFrame, Steady DEF PollStarts, pageVars
<1>2. CASE ReadRunning
  <2>1. poll'.pc = "lists"
    BY <1>2, PollReadsRunning DEF PollIs
  <2> QED BY <1>2, <2>1, PollsFrame, Steady DEF ReadRunning, pageVars
<1> QED BY <1>1, <1>2, ListInforms, AppliedInforms DEF Polls

(* The page leaves a run that is over and shown. *)
LEMMA SwitchInforms ==
    ASSUME Follows, NEW v \in Releases, SwitchVersion(v), run'.n \notin late' PROVE Informed'
<1>1. UNCHANGED <<run, probes, cache, purge, poll, page, shown, table>>
  BY DEF SwitchVersion, runnerVars, pageVars
<1>2. run.n \notin late /\ Final
  BY <1>1 DEF SwitchVersion, Final
<1>3. Informed /\ Settled /\ ~Running
  BY <1>2 DEF Follows, Informed, FinalRight, Final
<1>4. /\ \A s : Stored(run.version, s)' = Stored(run.version, s)
      /\ \A s : Right(s)' <=> Right(s)
  BY <1>1 DEF Stored, Right
<1>5. SeenRight' /\ FinalRight' /\ AwayRight'
  BY <1>1, <1>3, <1>4 DEF Informed, SeenRight, FinalRight, AwayRight, Settled, Running
<1>6. ListOld' /\ CompletedProbed' /\ ActiveProbed'
  BY <1>1, <1>3, <1>4 DEF Informed, ListOld, CompletedProbed, ActiveProbed, RunAt
<1>7. TableOld'
  BY <1>1, <1>2, <1>3, <1>4 DEF Informed, TableOld
<1> QED BY <1>5, <1>6, <1>7 DEF Informed

(* The results of a page just opened are those of the cache. *)
LEMMA OpenInforms ==
    ASSUME ResultsTypes, Follows, PageOpened, run'.n \notin late' PROVE Informed'
<1>1. /\ UNCHANGED <<run, probes, cache, purge, chosen>> /\ poll'.pc = "none" /\ purge = NoPurge
      /\ page'.seen = {} /\ shown' = cache /\ run.n \notin late
      /\ chosen # run.version => ~Running
  BY Open, Constants DEF PageOpened, runnerVars, PageIs
<1>2. Informed
  BY <1>1 DEF Follows
<1>3. run.version \in Releases /\ run.completed \in SUBSET Tested
  BY DEF ResultsTypes, RunTypes, RunRec
<1>4. \A s : Stored(run.version, s)' = Stored(run.version, s) /\ Stored(run.version, s) = cache[run.version][s]
  BY <1>1, Constants DEF Stored
<1>5. ASSUME NEW s \in run.completed PROVE Right(s)'
  BY <1>1, <1>3, <1>4, Open DEF Right
<1>6. SeenRight' /\ FinalRight' /\ AwayRight'
  BY <1>1, <1>5 DEF SeenRight, FinalRight, AwayRight, Settled, Running
<1>7. ListOld' /\ CompletedProbed' /\ ActiveProbed' /\ TableOld'
  BY <1>1, <1>2, <1>4 DEF Informed, ListOld, CompletedProbed, ActiveProbed, TableOld, RunAt
<1> QED BY <1>6, <1>7 DEF Informed

(* What is purged is gone from the page at once, and from the cache in the *)
(* end.                                                                    *)
LEMMA PurgeInforms ==
    ASSUME Undisturbed, ResultsTypes, CacheWhole, Informed, NEW v \in Releases, PurgeBegins(v) PROVE Informed'
<1>1. /\ UNCHANGED <<run, probes, cache, poll, page, chosen>> /\ purge = NoPurge
      /\ \A w \in Releases, s \in Tested : shown'[w][s] = IF w = v THEN NoResult ELSE shown[w][s]
      /\ \A w \in Releases \ {v}, s \in Tested : table'[w][s] = table[w][s]
  BY PurgeStarts DEF PurgeBegins, Purging, runnerVars
<1>2. \/ purge' = NoPurge /\ \A s \in Tested : cache[v][s] = NoResult
      \/ purge'.pc = "write" /\ purge'.version = v
  BY PurgeStarts, OnlyReading
<1>3. run.version \in Releases /\ run.completed \in SUBSET Tested
  BY DEF ResultsTypes, RunTypes, RunRec
<1>4. ASSUME NEW s \in Tested
      PROVE  Stored(run.version, s)' = IF run.version = v THEN NoResult ELSE Stored(run.version, s)
  BY <1>1, <1>2, Constants DEF Stored
<1>5. ASSUME NEW s \in Tested, Stored(run.version, s)'.rows PROVE Stored(run.version, s).rows
  BY <1>4, <1>5, Constants
<1>6. ASSUME NEW s \in run.completed, Right(s) PROVE Right(s)'
  <2>1. CASE run.version = v
    BY <1>1, <1>3, <1>4, <2>1, Constants DEF Right
  <2>2. CASE run.version # v
    BY <1>1, <1>3, <1>4, <1>6, <2>2 DEF Right
  <2> QED BY <2>1, <2>2
<1>7. SeenRight' /\ FinalRight' /\ AwayRight'
  BY <1>1, <1>6 DEF Informed, SeenRight, FinalRight, Final, AwayRight, Settled, Running
<1>8. ListOld' /\ ActiveProbed'
  BY <1>1 DEF Informed, ListOld, ActiveProbed, RunAt
<1>9. CompletedProbed'
  BY <1>1, <1>3, <1>5 DEF Informed, CompletedProbed
<1>10. TableOld'
  <2> SUFFICES ASSUME NEW s, s = poll.active, poll.pc = "apply", poll.version = run.version, s \in run.completed,
                      s \in poll.completed \cup page.seen \/ Final \/ chosen # run.version,
                      Stored(run.version, s)'.rows
               PROVE  poll.probe = "done"
    BY <1>1 DEF TableOld, Final, Running
  <2>1. Stored(run.version, s).rows
    BY <1>3, <1>5
  <2> QED BY <2>1 DEF Informed, TableOld
<1> QED BY <1>7, <1>8, <1>9, <1>10 DEF Informed

LEMMA PurgedInforms ==
    ASSUME ResultsTypes, CacheWhole, Informed, PurgeWrites PROVE Informed'
<1>1. /\ UNCHANGED <<run, probes, poll, page, chosen, shown, table>> /\ purge.pc = "write" /\ purge' = NoPurge
      /\ \A w \in Releases, s \in Tested : cache'[w][s] = IF w = purge.version THEN NoResult ELSE cache[w][s]
  BY PurgeEnds DEF PurgeWrites, Purging, runnerVars, CacheWhole
<1>2. /\ run.version \in Releases /\ run.completed \in SUBSET Tested
      /\ (RunAt("mark") => run.active \in Tested)
  BY DEF ResultsTypes, RunTypes, RunRec, RunAt, Busy
<1>3. ASSUME NEW s \in Tested PROVE Stored(run.version, s)' = Stored(run.version, s)
  BY <1>1, <1>2, Constants DEF Stored
<1>4. ASSUME NEW s \in run.completed PROVE Right(s)' <=> Right(s)
  BY <1>1, <1>2, <1>3 DEF Right
<1>5. SeenRight' /\ FinalRight' /\ AwayRight'
  BY <1>1, <1>4 DEF Informed, SeenRight, FinalRight, Final, AwayRight, Settled, Running
<1>6. ListOld'
  BY <1>1 DEF Informed, ListOld
<1>7. CompletedProbed'
  BY <1>1, <1>2, <1>3 DEF Informed, CompletedProbed
<1>8. ActiveProbed'
  BY <1>1, <1>2, Constants DEF Informed, ActiveProbed, RunAt
<1>9. TableOld'
  <2> SUFFICES ASSUME NEW s, s = poll.active, poll.pc = "apply", poll.version = run.version, s \in run.completed,
                      s \in poll.completed \cup page.seen \/ Final \/ chosen # run.version,
                      Stored(run.version, s)'.rows
               PROVE  poll.probe = "done"
    BY <1>1 DEF TableOld, Final, Running
  <2>1. Stored(run.version, s).rows
    BY <1>2, <1>3
  <2> QED BY <2>1 DEF Informed, TableOld
<1> QED BY <1>5, <1>6, <1>7, <1>8, <1>9 DEF Informed

-----------------------------------------------------------------------------
(* Theorems *)

ResultsInv == ResultsTypes /\ Turns /\ CacheWhole /\ Marked /\ ResultsKept /\ Starts /\ Follows

LEMMA ResultsBegin ==
    ASSUME ResultsInit PROVE ResultsInv
<1> DEFINE idle == [pc |-> "gone", n |-> 0, version |-> chosen, left |-> {}, active |-> Nobody,
                    phase |-> "idle", completed |-> {}, rows |-> FALSE]
<1>1. /\ chosen \in Releases /\ run = idle /\ probes = Unprobed /\ cache = Empty /\ copy = Empty
      /\ page = NewPage /\ ask = [c \in Clicks |-> NoAsk] /\ poll = NoPoll /\ shown = Empty /\ table = Unprobed
      /\ purge = NoPurge /\ dropped = {} /\ late = {}
  BY DEF ResultsInit
<1>2. /\ run \in RunRec /\ run.pc = "gone" /\ run.n = 0 /\ run.completed = {} /\ run.left = {}
      /\ run.version = chosen
  BY <1>1 DEF RunRec, RunPcs, Phases
<1> HIDE DEF idle
<1>3. ResultsTypes
  <2>1. RunTypes /\ PageTypes
    BY <1>1, <1>2, Constants DEF RunTypes, Busy, PageTypes
  <2>2. AskTypes
    BY <1>1, Constants DEF AskTypes
  <2>3. PollTypes /\ PurgeTypes
    BY <1>1, Constants DEF PollTypes, PurgeTypes
  <2> QED BY <1>1, <2>1, <2>2, <2>3, Constants DEF ResultsTypes
<1>4. Turns
  BY <1>1, <1>2, Constants DEF Turns, Busy, Running
<1>5. CacheWhole /\ Marked /\ ResultsKept
  BY <1>1, <1>2, Constants DEF CacheWhole, Marked, ResultsKept, RunAt
<1>6. Starts
  BY <1>1, Constants DEF Starts
<1>7. Informed
  BY <1>1, <1>2, Constants
     DEF Informed, SeenRight, FinalRight, AwayRight, Settled, ListOld, CompletedProbed, ActiveProbed, TableOld,
         Running, RunAt
<1> QED BY <1>3, <1>4, <1>5, <1>6, <1>7 DEF ResultsInv, Follows

LEMMA FollowsStep ==
    ASSUME Undisturbed, ResultsInv, [ResultsNext]_resultsVars PROVE Follows'
<1> SUFFICES ASSUME run'.n \notin late' PROVE Informed'
  BY DEF Follows
<1>1. CASE JobSteps
  <2>1. run'.n = run.n /\ late' = late
    BY <1>1, JobDoes, JobFrame DEF JobEffect, ResultsInv
  <2> QED BY <1>1, <2>1, JobInforms DEF ResultsInv, Follows
<1>2. CASE Asks
  BY <1>2, AsksInform DEF ResultsInv
<1>3. CASE Polls
  BY <1>3, PollsFrame, PollsInform DEF ResultsInv, Follows
<1>4. ASSUME NEW v \in Releases, SwitchVersion(v) PROVE Informed'
  BY <1>4, SwitchInforms DEF ResultsInv
<1>5. ASSUME NEW v \in Releases, PurgeBegins(v) PROVE Informed'
  BY <1>5, PurgeInforms DEF ResultsInv, Follows, PurgeBegins, Purging, runnerVars
<1>6. CASE PageOpened
  BY <1>6, OpenInforms DEF ResultsInv
<1>7. CASE PurgeWrites
  BY <1>7, PurgedInforms DEF ResultsInv, Follows, PurgeWrites, Purging, runnerVars
<1>8. CASE UNCHANGED resultsVars
  BY <1>8, Steady DEF ResultsInv, Follows, resultsVars, runnerVars, pageVars
<1> QED BY <1>1, <1>2, <1>3, <1>4, <1>5, <1>6, <1>7, <1>8, Kinds DEF Manages

(* What runs, answers and files say of each other holds together, whatever *)
(* interleaves, if the two processes' rewritings of the cache do not.      *)
THEOREM ResultsInvariant ==
    ASSUME CacheApart, ~CacheMayFail PROVE ResultsSpec => []ResultsInv
<1>1. ResultsInit => ResultsInv
  BY ResultsBegin
<1>2. ResultsInv /\ [ResultsNext]_resultsVars => ResultsInv'
  <2> SUFFICES ASSUME ResultsInv, [ResultsNext]_resultsVars PROVE ResultsInv'
    OBVIOUS
  <2>1. Undisturbed
    BY DEF Undisturbed
  <2>2. ResultsTypes' /\ Turns' /\ Starts'
    BY TypesStep, TurnsStep, StartsStep DEF ResultsInv
  <2>3. CacheWhole' /\ Marked' /\ ResultsKept'
    BY <2>1, WholeStep, KeptStep DEF ResultsInv
  <2> QED BY <2>1, <2>2, <2>3, FollowsStep DEF ResultsInv
<1> QED BY <1>1, <1>2, PTL DEF ResultsSpec

(* What is said to be completed can be read back (MarkCompleted after      *)
(* SaveResult; ResultsCache.purge of another version).                     *)
THEOREM ResultsAreKept ==
    ASSUME CacheApart, ~CacheMayFail PROVE ResultsSpec => []ResultsKept
<1>1. ResultsInv => ResultsKept
  BY DEF ResultsInv
<1> QED BY <1>1, ResultsInvariant, PTL

LEMMA InformedShows ==
    ASSUME ResultsInv PROVE ShownUnlessLate
<1> SUFFICES ASSUME run.n \notin late, Fetched(run.n), NEW s \in run.completed
             PROVE  /\ shown[run.version][s] = cache[run.version][s]
                    /\ cache[run.version][s].rows => table[run.version][s] = "done"
  BY DEF ShownUnlessLate, ResultsShown
<1>1. Right(s)
  BY DEF ResultsInv, Follows, Informed, FinalRight, Final, Settled, Fetched
<1>2. Stored(run.version, s) = cache[run.version][s]
  BY Constants DEF Fetched, Stored
<1> QED BY <1>1, <1>2 DEF Right

(* With the last answer about a run the page shows its results, unless an  *)
(* answer was applied while its start was on the way, or the version was   *)
(* changed (_start_tests, _apply_state, _on_version_change).               *)
THEOREM RunsAreShown ==
    ASSUME CacheApart, ~CacheMayFail PROVE ResultsSpec => []ShownUnlessLate
<1>1. ResultsInv => ShownUnlessLate
  BY InformedShows
<1> QED BY <1>1, ResultsInvariant, PTL
=============================================================================
