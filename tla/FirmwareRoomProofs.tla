------------------------- MODULE FirmwareRoomProofs -------------------------
(***************************************************************************)
(* Proofs about the room that FirmwareStore takes on /boot and the         *)
(* directories that interrupted setups leave there, for every set of files,*)
(* inodes and setup processes, every capacity and every number of faults.  *)
(* They build on the invariant of FirmwareStoreProofs.                     *)
(***************************************************************************)
EXTENDS FirmwareStoreProofs, FiniteSetTheorems

(* A setup has a directory from its creation on, and the entry of that     *)
(* directory is gone or renamed when the setup leaves provision's try.     *)
Filling == {"copy", "write", "fsync", "sync", "rename", "cleanup"}
WorkInv ==
    \A p \in Procs :
        /\ pc[p] \in {"idle", "check", "provision"} => work[p] = NoDir
        /\ pc[p] \notin Filling => work[p] \notin mem.tmp

(* The headroom is there in view t.                                        *)
Headroom(t) == Cardinality(Stored(t)) + MinFree <= Capacity

(* Beside what directory w holds there is room for the whole policy.       *)
Room(t, w) ==
    Cardinality(Stored(t) \ ({w} \X Files)) + Cardinality(Files) + MinFree <= Capacity

(* The headroom is there in memory and after any power loss, and while p   *)
(* copies, the room that check_space found is still reserved for it.       *)
RoomInv ==
    /\ Headroom(mem) /\ Headroom(jnl)
    /\ \A p \in Procs :
         pc[p] \in {"provision", "copy", "write", "fsync"} => Room(mem, work[p])

(* The temporary directories that no running setup owns.                   *)
Residue == mem.tmp \ {work[p] : p \in Procs}

(* Faults excuse what is left over, and what a power loss would bring back.*)
ResidueInv ==
    /\ Cardinality(Residue) <= faults
    /\ Cardinality(jnl.tmp) <= faults + 1
    /\ power # "on" => Cardinality(jnl.tmp) <= faults

----------------------------------------------------------------------------
(* What a view stores.                                                     *)

(* Files are stored below entries; there are finitely many, and less is    *)
(* stored where the set is smaller.                                        *)
LEMMA StoredFinite ==
    ASSUME NEW t \in Tree
    PROVE  /\ Stored(t) \subseteq Dirs \X Files
           /\ IsFiniteSet(Stored(t)) /\ Cardinality(Stored(t)) \in Nat
           /\ \A S \in SUBSET Stored(t) :
                IsFiniteSet(S) /\ Cardinality(S) \in Nat
                /\ Cardinality(S) <= Cardinality(Stored(t))
           /\ \A d : Stored(t) \ ({d} \X Files) \in SUBSET Stored(t)
<1>1. Stored(t) \subseteq Dirs \X Files
  BY DEF Stored, Tree
<1>2. IsFiniteSet(Dirs \X Files)
  BY FS_Product, ConstAssumption
<1>3. IsFiniteSet(Stored(t))
  BY <1>1, <1>2, FS_Subset
<1>4. QED
  BY <1>1, <1>3, FS_Subset, FS_CardinalityType

(* Views with the same entries and the same files store the same.          *)
LEMMA StoredSame ==
    ASSUME NEW t \in Tree, NEW u \in Tree, u.tmp = t.tmp, u.dest = t.dest,
           \A d \in Dirs, f \in Files : (u.file[d][f] = "absent") = (t.file[d][f] = "absent")
    PROVE  Stored(u) = Stored(t)
<1>1. t.tmp \cup ({t.dest} \ {NoDir}) \subseteq Dirs
  BY DEF Tree
<1>2. QED
  BY <1>1 DEF Stored

(* Neither a journal commit, nor writing back, nor rot makes or removes a  *)
(* file.                                                                   *)
LEMMA StoredKept ==
    ASSUME NEW t \in Tree
    PROVE  /\ Stored(OnMedium(t)) = Stored(t) /\ Stored(WrittenBack(t)) = Stored(t)
           /\ \A d \in Dirs, f \in Files : Stored(Rot(t, d, f)) = Stored(t)
<1>1. Stored(OnMedium(t)) = Stored(t)
  <2>1. \A d \in Dirs, f \in Files :
          OnMedium(t).file[d][f] = IF t.file[d][f] = "written" THEN "partial" ELSE t.file[d][f]
    BY DEF OnMedium, Tree
  <2>2. OnMedium(t) \in Tree /\ OnMedium(t).tmp = t.tmp /\ OnMedium(t).dest = t.dest
    BY OnMediumTree DEF MediumTree
  <2>3. QED
    BY <2>1, <2>2, StoredSame
<1>2. Stored(WrittenBack(t)) = Stored(t)
  <2>1. \A d \in Dirs, f \in Files :
          WrittenBack(t).file[d][f] = IF t.file[d][f] = "written" THEN "good" ELSE t.file[d][f]
    BY DEF WrittenBack, Tree
  <2>2. WrittenBack(t) \in Tree /\ WrittenBack(t).tmp = t.tmp /\ WrittenBack(t).dest = t.dest
    BY WrittenBackTree DEF MediumTree
  <2>3. QED
    BY <2>1, <2>2, StoredSame
<1>3. ASSUME NEW d \in Dirs, NEW f \in Files PROVE Stored(Rot(t, d, f)) = Stored(t)
  <2>1. \A e \in Dirs, g \in Files :
          (Rot(t, d, f).file[e][g] = "absent") = (t.file[e][g] = "absent")
    BY RotTree
  <2>2. Rot(t, d, f) \in Tree /\ Rot(t, d, f).tmp = t.tmp /\ Rot(t, d, f).dest = t.dest
    BY RotTree
  <2>3. QED
    BY <2>1, <2>2, StoredSame
<1>4. QED
  BY <1>1, <1>2, <1>3

(* A view that stores no more has the headroom too.                        *)
LEMMA HeadroomShrinks ==
    ASSUME NEW t \in Tree, NEW u, Stored(u) \subseteq Stored(t), Headroom(t)
    PROVE  Headroom(u)
<1>1. Cardinality(Stored(u)) \in Nat /\ Cardinality(Stored(u)) <= Cardinality(Stored(t))
      /\ Cardinality(Stored(t)) \in Nat
  BY StoredFinite
<1>2. QED
  BY <1>1, ConstAssumption DEF Headroom

----------------------------------------------------------------------------
(* The steps of a setup.                                                   *)

(* What a setup stores beside its own directory never grows; only while it *)
(* copies does its directory grow.                                         *)
StoresWithin(p) ==
    /\ mem' \in Tree
    /\ \/ Stored(mem') \subseteq Stored(mem)
       \/ pc[p] = "copy" /\ Stored(mem') \subseteq Stored(mem) \cup ({work[p]} \X Files)
    /\ Stored(jnl') \in {Stored(jnl), Stored(mem), Stored(mem')}

(* Creating, writing, syncing and removing a file.                         *)
LEMMA FileStepStores ==
    ASSUME NEW p \in Procs, NEW f \in Files, StoreInv,
           CreateFile(p, f) \/ WriteFile(p, f) \/ FsyncFile(p, f) \/ RemoveFile(p, f)
    PROVE  /\ StoresWithin(p) /\ mem'.tmp = mem.tmp /\ work' = work
           /\ jnl'.tmp \in {jnl.tmp, mem.tmp}
           /\ RemoveFile(p, f) => Stored(mem') \subseteq Stored(mem)
<1>1. mem \in Tree /\ jnl \in Tree /\ work[p] \in Dirs
  BY DEF StoreInv, TypeOK, StoreType, MediumTree, ProcInv, ProcOK, OwnsWork,
         CreateFile, WriteFile, FsyncFile, RemoveFile, At
<1>2. PICK c \in {"absent", "partial", "written", "good"} :
        /\ mem' = [mem EXCEPT !.file[work[p]][f] = c]
        /\ c = "absent" => RemoveFile(p, f)
        /\ c = "partial" => CreateFile(p, f)
        /\ c \in {"written", "good"} => mem.file[work[p]][f] # "absent"
  BY DEF CreateFile, WriteFile, FsyncFile, RemoveFile, SetFile
<1>3. c \in Content
  BY DEF Content
<1>4. /\ mem' \in Tree
      /\ mem'.dest = mem.dest /\ mem'.karg = mem.karg /\ mem'.tmp = mem.tmp
      /\ mem'.file[work[p]][f] = c
      /\ \A e \in Dirs, g \in Files :
           e # work[p] \/ g # f => mem'.file[e][g] = mem.file[e][g]
  BY <1>1, <1>2, <1>3, SetFileTree
<1>5. Stored(mem) \subseteq Dirs \X Files /\ Stored(mem') \subseteq Dirs \X Files
  BY <1>1, <1>4, StoredFinite
<1>6. Stored(mem') \subseteq Stored(mem) \cup {<<work[p], f>>}
  BY <1>4, <1>5 DEF Stored
<1>7. c # "partial" => Stored(mem') \subseteq Stored(mem)
  BY <1>2, <1>4, <1>5 DEF Stored
<1>8. CreateFile(p, f) => pc[p] = "copy"
  BY DEF CreateFile, At
<1>9. Stored(jnl') \in {Stored(jnl), Stored(mem')} /\ jnl'.tmp \in {jnl.tmp, mem.tmp}
  <2>1. jnl' = jnl \/ jnl' = OnMedium(mem')
    BY DEF CreateFile, WriteFile, FsyncFile, RemoveFile
  <2>2. QED
    BY <1>4, <2>1, OnMediumTree, StoredKept
<1>10. work' = work
  BY DEF CreateFile, WriteFile, FsyncFile, RemoveFile, Goto, procVars
<1>11. RemoveFile(p, f) => c # "partial"
  BY <1>2 DEF RemoveFile, CreateFile, At
<1>12. QED
  BY <1>2, <1>4, <1>6, <1>7, <1>8, <1>9, <1>10, <1>11 DEF StoresWithin

(* A new directory is empty; until it was made, only its entry was free.   *)
LEMMA MakeTemporaryStores ==
    ASSUME NEW p \in Procs, StoreInv, MakeTemporary(p)
    PROVE  /\ mem' \in Tree /\ Stored(mem') \subseteq Stored(mem) /\ jnl' = jnl
           /\ \E d \in Dirs \ mem.tmp :
                work' = [work EXCEPT ![p] = d] /\ mem'.tmp = mem.tmp \cup {d}
<1>1. mem \in Tree /\ mem.dest = NoDir
  BY DEF StoreInv, TypeOK, StoreType, MakeTemporary
<1>2. PICK d \in Dirs \ mem.tmp :
        /\ mem' = [mem EXCEPT !.tmp = @ \cup {d}, !.file[d] = NoFiles]
        /\ work' = [work EXCEPT ![p] = d]
  BY DEF MakeTemporary
<1>3. /\ mem' \in Tree /\ mem'.dest = mem.dest /\ mem'.tmp = mem.tmp \cup {d}
      /\ mem'.file[d] = NoFiles
      /\ \A e \in Dirs : e # d => mem'.file[e] = mem.file[e]
  <2>1. d \in Dirs
    BY <1>2
  <2> DEFINE u == [mem EXCEPT !.tmp = @ \cup {d}, !.file[d] = NoFiles]
  <2>2. /\ u \in Tree /\ u.dest = mem.dest /\ u.tmp = mem.tmp \cup {d}
        /\ u.file[d] = NoFiles
        /\ \A e \in Dirs : e # d => u.file[e] = mem.file[e]
    BY <1>1, <2>1, NewTemporaryTree
  <2>3. mem' = u
    BY <1>2
  <2> HIDE DEF u
  <2>4. QED
    BY <2>2, <2>3
<1>4. Stored(mem') \subseteq Stored(mem)
  <2>1. SUFFICES ASSUME NEW x \in Stored(mem') PROVE x \in Stored(mem)
    OBVIOUS
  <2>2. /\ x \in (mem'.tmp \cup ({mem'.dest} \ {NoDir})) \X Files
        /\ mem'.file[x[1]][x[2]] # "absent"
    BY <2>1 DEF Stored
  <2>3. x \in Dirs \X Files
    BY <1>3, <2>1, StoredFinite
  <2>4. x[1] # d
    BY <1>3, <2>2, <2>3 DEF NoFiles
  <2>5. QED
    BY <1>1, <1>3, <2>2, <2>3, <2>4 DEF Stored
<1>5. QED
  BY <1>2, <1>3, <1>4 DEF MakeTemporary

(* The steps after the copy, and the removal of the directory.             *)
LEMMA PublishStores ==
    ASSUME NEW p \in Procs, StoreInv,
           SyncCopy(p) \/ Rename(p) \/ SyncStore(p) \/ RemoveTemporary(p)
           \/ FlushStore(p) \/ SetKarg(p) \/ FlushKarg(p)
    PROVE  /\ mem' \in Tree /\ Stored(mem') \subseteq Stored(mem)
           /\ Stored(jnl') \in {Stored(jnl), Stored(mem)}
           /\ jnl'.tmp \in {jnl.tmp, mem.tmp}
           /\ mem'.tmp = IF Rename(p) \/ RemoveTemporary(p) THEN mem.tmp \ {work[p]}
                                                            ELSE mem.tmp
<1>1. mem \in Tree /\ jnl \in Tree
  BY DEF StoreInv, TypeOK, StoreType, MediumTree
<1>2. pc[p] \in {"rename", "cleanup"} => work[p] \in Dirs /\ work[p] \in mem.tmp
  BY DEF StoreInv, ProcInv, ProcOK, OwnsWork
<1>3. CASE Rename(p)
  <2>1. mem' = [mem EXCEPT !.dest = work[p], !.tmp = @ \ {work[p]}] /\ jnl' = jnl
        /\ mem.dest = NoDir /\ work[p] \in Dirs /\ work[p] \in mem.tmp
    BY <1>2, <1>3 DEF Rename, At
  <2>2. mem' \in Tree /\ mem'.dest = work[p] /\ mem'.tmp = mem.tmp \ {work[p]}
        /\ mem'.file = mem.file
    BY <1>1, <2>1, RenamedTree
  <2>3. Stored(mem') \subseteq Stored(mem)
    BY <2>1, <2>2 DEF Stored
  <2>4. QED
    BY <1>3, <2>1, <2>2, <2>3
<1>4. CASE RemoveTemporary(p)
  <2>1. mem' = [mem EXCEPT !.tmp = @ \ {work[p]}] /\ jnl' = jnl /\ work[p] \in Dirs
    BY <1>2, <1>4 DEF RemoveTemporary, At
  <2>2. mem' \in Tree /\ mem'.dest = mem.dest /\ mem'.tmp = mem.tmp \ {work[p]}
        /\ mem'.file = mem.file
    BY <1>1, <2>1, RemovedTree
  <2>3. Stored(mem') \subseteq Stored(mem)
    BY <2>2 DEF Stored
  <2>4. QED
    BY <1>4, <2>1, <2>2, <2>3
<1>5. CASE SyncCopy(p) \/ SyncStore(p)
  <2>1. mem' = mem /\ (jnl' = jnl \/ jnl' = OnMedium(mem))
    BY <1>5 DEF SyncCopy, SyncStore
  <2>2. ~Rename(p) /\ ~RemoveTemporary(p)
    BY <1>5 DEF SyncCopy, SyncStore, Rename, RemoveTemporary, At
  <2>3. QED
    BY <1>1, <2>1, <2>2, OnMediumTree, StoredKept
<1>6. CASE FlushStore(p) \/ FlushKarg(p)
  <2>1. mem' = WrittenBack(mem) /\ jnl' = mem'
    BY <1>6 DEF FlushStore, FlushKarg, Flush
  <2>2. ~Rename(p) /\ ~RemoveTemporary(p)
    BY <1>6 DEF FlushStore, FlushKarg, Rename, RemoveTemporary, At
  <2>3. WrittenBack(mem) \in Tree /\ WrittenBack(mem).tmp = mem.tmp
        /\ Stored(WrittenBack(mem)) = Stored(mem)
    BY <1>1, WrittenBackTree, StoredKept DEF MediumTree
  <2>4. QED
    BY <2>1, <2>2, <2>3
<1>7. CASE SetKarg(p)
  <2>1. mem' = [mem EXCEPT !.karg = TRUE] /\ jnl' = jnl
    BY <1>7 DEF SetKarg
  <2>2. mem' \in Tree /\ mem'.dest = mem.dest /\ mem'.tmp = mem.tmp /\ mem'.file = mem.file
    BY <1>1, <2>1, OptedInTree
  <2>3. Stored(mem') = Stored(mem)
    BY <2>2 DEF Stored
  <2>4. ~Rename(p) /\ ~RemoveTemporary(p)
    BY <1>7 DEF SetKarg, Rename, RemoveTemporary, At
  <2>5. QED
    BY <2>1, <2>2, <2>3, <2>4
<1>8. QED
  BY <1>3, <1>4, <1>5, <1>6, <1>7

----------------------------------------------------------------------------
(* Who owns which directory.                                               *)

(* While one setup runs the others have no directory.                      *)
LEMMA OthersHaveNone ==
    ASSUME StoreInv, WorkInv, NEW p \in Procs, pc[p] # "idle" \/ lock = NoProc
    PROVE  \A q \in Procs \ {p} : pc[q] = "idle" /\ work[q] = NoDir
  BY ConstAssumption DEF StoreInv, LockInv, WorkInv

(* Entries of a view are directories.                                      *)
LEMMA NoDirNoEntry ==
    ASSUME NEW t \in Tree
    PROVE  NoDir \notin t.tmp /\ t.tmp \subseteq Dirs
  BY ConstAssumption DEF Tree

(* A step of one setup leaves the others alone.                            *)
LEMMA OneSetupMoves ==
    ASSUME StoreInv, NEW p \in Procs, AcquireLock(p) \/ SetupStep(p) \/ Kill(p)
    PROVE  /\ \A q \in Procs \ {p} : pc'[q] = pc[q] /\ work'[q] = work[q]
           /\ pc[p] # "idle" \/ lock = NoProc
<1> USE DEF StoreInv, TypeOK, SetupType
<1>1. CASE AcquireLock(p)
  BY <1>1 DEF AcquireLock
<1>2. CASE Kill(p)
  BY <1>2 DEF Kill, Exit
<1>3. CASE SetupStep(p)
  <2>1. \/ \E label \in Labels : Goto(p, label)
        \/ Exit(p)
        \/ MakeTemporary(p)
        \/ UNCHANGED procVars
    BY <1>3, SetupControl
  <2>2. pc[p] # "idle"
    BY <1>3, SetupActive
  <2>3. QED
    BY <2>1, <2>2 DEF Goto, Exit, MakeTemporary, procVars
<1>4. QED
  BY <1>1, <1>2, <1>3

(* What p has to show for its own directory.                               *)
WorkOf(p) ==
    /\ pc[p] \in {"idle", "check", "provision"} => work[p] = NoDir
    /\ pc[p] \notin Filling => work[p] \notin mem.tmp

(* A step that touches neither the store nor the machine.                  *)
LEMMA QuietWork ==
    ASSUME StoreInv, WorkInv, NEW p \in Procs, QuietStep(p)
    PROVE  /\ WorkOf(p)' /\ UNCHANGED storeVars
           /\ Kill(p) \/ work'[p] = work[p] \/ work[p] \notin mem.tmp
<1>1. UNCHANGED storeVars /\ NoDir \notin mem.tmp /\ WorkOf(p)
  BY QuietSteps, NoDirNoEntry DEF StoreInv, TypeOK, StoreType, WorkInv, WorkOf
<1>2. mem' = mem
  BY <1>1 DEF storeVars
<1>3. CASE Kill(p) \/ Refuse(p) \/ SetKargsFails(p) \/ Finish(p)
  <2>1. Exit(p)
    BY <1>3 DEF Kill, Refuse, SetKargsFails, Finish
  <2>2. pc'[p] = "idle" /\ work'[p] = NoDir
    BY <2>1 DEF Exit, StoreInv, TypeOK, SetupType
  <2>3. ~Kill(p) => pc[p] \notin Filling
    BY <1>3 DEF Refuse, SetKargsFails, Finish, At, Filling
  <2>4. QED
    BY <1>1, <1>2, <2>2, <2>3 DEF WorkOf, Filling
<1>4. CASE AcquireLock(p) \/ CheckSpace(p)
  <2>1. work' = work /\ pc'[p] \in {"check", "provision"} /\ pc[p] \in {"idle", "check"}
    BY <1>4 DEF AcquireLock, CheckSpace, Goto, At, StoreInv, TypeOK, SetupType
  <2>2. QED
    BY <1>1, <1>2, <2>1 DEF WorkOf, Filling
<1>5. CASE VerifyCopy(p) \/ FailCopy(p)
  <2>1. work' = work /\ pc'[p] \in Filling
    BY <1>5 DEF VerifyCopy, FailCopy, Goto, Filling, StoreInv, TypeOK, SetupType
  <2>2. QED
    BY <1>1, <2>1 DEF WorkOf, Filling
<1>6. CASE ReuseBundle(p) \/ CheckBundle(p)
  <2>1. pc[p] \in {"provision", "recheck"}
    BY <1>6 DEF ReuseBundle, CheckBundle, At
  <2>2. \/ work'[p] = work[p] /\ pc'[p] \in {"recheck", "optin"}
        \/ work'[p] = NoDir /\ pc'[p] = "idle"
    BY <1>6 DEF ReuseBundle, CheckBundle, Goto, Exit, StoreInv, TypeOK, SetupType
  <2>3. QED
    BY <1>1, <1>2, <2>1, <2>2 DEF WorkOf, Filling
<1>7. QED
  BY <1>1, <1>3, <1>4, <1>5, <1>6 DEF QuietStep

(* A setup that works on the store.                                        *)
LEMMA BusyWork ==
    ASSUME StoreInv, WorkInv, NEW p \in Procs, SetupStep(p), ~QuietStep(p)
    PROVE  /\ WorkOf(p)' /\ mem' \in Tree /\ jnl'.tmp \in {jnl.tmp, mem.tmp}
           /\ mem'.tmp \subseteq mem.tmp \cup {work'[p]}
           /\ work'[p] = work[p] \/ work[p] \notin mem'.tmp
<1>1. mem \in Tree /\ NoDir \notin mem.tmp /\ WorkOf(p)
  BY NoDirNoEntry DEF StoreInv, TypeOK, StoreType, WorkInv, WorkOf
<1> USE DEF At, StoreInv, TypeOK, SetupType
<1>2. ASSUME NEW f \in Files,
             CreateFile(p, f) \/ WriteFile(p, f) \/ FsyncFile(p, f) \/ RemoveFile(p, f)
      PROVE  WorkOf(p)' /\ mem' \in Tree /\ jnl'.tmp \in {jnl.tmp, mem.tmp}
             /\ mem'.tmp \subseteq mem.tmp /\ work'[p] = work[p]
  <2>1. mem' \in Tree /\ mem'.tmp = mem.tmp /\ work' = work /\ jnl'.tmp \in {jnl.tmp, mem.tmp}
    BY <1>2, FileStepStores DEF StoresWithin
  <2>2. pc'[p] \in Filling
    BY <1>2 DEF CreateFile, WriteFile, FsyncFile, RemoveFile, Goto, procVars, Filling
  <2>3. QED
    BY <2>1, <2>2 DEF WorkOf, Filling
<1>3. CASE MakeTemporary(p)
  <2>1. PICK d \in Dirs \ mem.tmp :
          work' = [work EXCEPT ![p] = d] /\ mem'.tmp = mem.tmp \cup {d}
    BY <1>3, MakeTemporaryStores
  <2>2. mem' \in Tree /\ jnl' = jnl
    BY <1>3, MakeTemporaryStores
  <2>3. work'[p] = d /\ pc'[p] = "copy" /\ pc[p] = "provision"
    BY <1>3, <2>1 DEF MakeTemporary
  <2>4. work[p] = NoDir /\ NoDir \notin mem'.tmp
    BY <1>1, <2>2, <2>3, NoDirNoEntry DEF WorkOf
  <2>5. QED
    BY <2>1, <2>2, <2>3, <2>4 DEF WorkOf, Filling
<1>4. CASE Rename(p)
  <2>1. mem' \in Tree /\ mem'.tmp = mem.tmp \ {work[p]} /\ jnl'.tmp \in {jnl.tmp, mem.tmp}
    BY <1>4, PublishStores
  <2>2. work' = work /\ pc'[p] = "syncstore"
    BY <1>4 DEF Rename, Goto
  <2>3. QED
    BY <2>1, <2>2 DEF WorkOf, Filling
<1>5. CASE RemoveTemporary(p)
  <2>1. mem' \in Tree /\ mem'.tmp = mem.tmp \ {work[p]} /\ jnl'.tmp \in {jnl.tmp, mem.tmp}
    BY <1>5, PublishStores
  <2>2. work'[p] = NoDir /\ pc'[p] = "idle"
    BY <1>5 DEF RemoveTemporary, Exit
  <2>3. QED
    BY <1>1, <2>1, <2>2 DEF WorkOf, Filling
<1>6. CASE SyncCopy(p) \/ SyncStore(p) \/ FlushStore(p) \/ SetKarg(p) \/ FlushKarg(p)
  <2>1. ~Rename(p) /\ ~RemoveTemporary(p)
    BY <1>6 DEF SyncCopy, SyncStore, FlushStore, SetKarg, FlushKarg, Rename, RemoveTemporary
  <2>2. mem' \in Tree /\ mem'.tmp = mem.tmp /\ jnl'.tmp \in {jnl.tmp, mem.tmp}
    BY <1>6, <2>1, PublishStores
  <2>3. \/ work' = work /\ pc[p] = "sync" /\ pc'[p] = "rename"
        \/ work' = work /\ pc[p] \notin Filling
           /\ pc'[p] \in {"recheck", "swap", "flush", "done"}
        \/ work'[p] = NoDir /\ pc[p] \notin Filling /\ pc'[p] = "idle"
    BY <1>6 DEF SyncCopy, SyncStore, FlushStore, SetKarg, FlushKarg, Goto, Exit, Filling
  <2>4. QED
    BY <1>1, <2>2, <2>3 DEF WorkOf, Filling
<1>7. QED
  BY <1>2, <1>3, <1>4, <1>5, <1>6 DEF SetupStep, QuietStep

----------------------------------------------------------------------------
(* The machine.                                                            *)

(* Journal and checkpoint, rot, the loader and the start of a boot leave   *)
(* what is stored and who owns it.                                         *)
LEMMA QuietMachine ==
    ASSUME StoreInv,
           \/ Commit \/ Checkpoint \/ Boot \/ LoaderStep \/ LoaderTimeout \/ UNCHANGED vars
           \/ \E d \in Dirs, f \in Files : Corrupt(d, f)
    PROVE  /\ mem'.tmp = mem.tmp /\ Stored(mem') = Stored(mem)
           /\ UNCHANGED procVars /\ (power' # "on" => power # "on")
           /\ faults' \in Nat /\ faults <= faults'
           /\ \/ jnl'.tmp = jnl.tmp /\ Stored(jnl') = Stored(jnl)
              \/ power' = "on" /\ jnl'.tmp = mem.tmp /\ Stored(jnl') = Stored(mem)
<1>1. mem \in Tree /\ jnl \in Tree /\ faults \in Nat
  BY DEF StoreInv, TypeOK, StoreType, LoaderType, MediumTree
<1>2. CASE Commit
  <2>1. mem' = mem /\ jnl' = OnMedium(mem) /\ UNCHANGED procVars /\ UNCHANGED machineVars
        /\ power = "on"
    BY <1>2 DEF Commit
  <2>2. QED
    BY <1>1, <2>1, OnMediumTree, StoredKept DEF machineVars
<1>3. CASE Checkpoint
  BY <1>1, <1>3 DEF Checkpoint, machineVars
<1>4. CASE Boot
  BY <1>1, <1>4 DEF Boot, storeVars
<1>5. CASE LoaderStep \/ LoaderTimeout
  BY <1>1, <1>5, LoaderSteps DEF storeVars
<1>6. CASE UNCHANGED vars
  BY <1>1, <1>6 DEF vars, procVars
<1>7. ASSUME NEW d \in Dirs, NEW f \in Files, Corrupt(d, f)
      PROVE  /\ mem'.tmp = mem.tmp /\ Stored(mem') = Stored(mem)
             /\ jnl'.tmp = jnl.tmp /\ Stored(jnl') = Stored(jnl)
             /\ UNCHANGED procVars /\ power' = power /\ faults' = faults + 1
  <2>1. mem' = Rot(mem, d, f) /\ jnl' = Rot(jnl, d, f)
        /\ UNCHANGED procVars /\ power' = power /\ faults' = faults + 1
    BY <1>7 DEF Corrupt, Fault
  <2>2. QED
    BY <1>1, <2>1, RotTree, StoredKept
<1>8. QED
  BY <1>1, <1>2, <1>3, <1>4, <1>5, <1>6, <1>7

(* The directories in memory: at most one is owned, none while all setups  *)
(* are idle.                                                               *)
LEMMA ResidueCounts ==
    ASSUME StoreInv, WorkInv
    PROVE  /\ IsFiniteSet(mem.tmp) /\ Cardinality(mem.tmp) \in Nat
           /\ IsFiniteSet(jnl.tmp) /\ Cardinality(jnl.tmp) \in Nat
           /\ IsFiniteSet(Residue) /\ Cardinality(Residue) \in Nat
           /\ Cardinality(mem.tmp) <= Cardinality(Residue) + 1
           /\ (\A p \in Procs : pc[p] = "idle") => Residue = mem.tmp
<1>1. mem \in Tree /\ jnl \in Tree
  BY DEF StoreInv, TypeOK, StoreType, MediumTree
<1>2. NoDir \notin mem.tmp /\ mem.tmp \subseteq Dirs /\ jnl.tmp \subseteq Dirs
  BY <1>1, NoDirNoEntry
<1>3. IsFiniteSet(mem.tmp) /\ IsFiniteSet(jnl.tmp)
  BY <1>2, FS_Subset, ConstAssumption
<1>4. IsFiniteSet(Residue)
  BY <1>3, FS_Subset DEF Residue
<1>5. Cardinality(mem.tmp) \in Nat /\ Cardinality(jnl.tmp) \in Nat /\ Cardinality(Residue) \in Nat
  BY <1>3, <1>4, FS_CardinalityType
<1>6. (\A p \in Procs : pc[p] = "idle") => Residue = mem.tmp
  BY <1>2 DEF WorkInv, Residue
<1>7. ASSUME NEW p \in Procs, pc[p] # "idle"
      PROVE  Cardinality(mem.tmp) <= Cardinality(Residue) + 1
  <2>1. \A q \in Procs \ {p} : work[q] = NoDir
    BY <1>7, OthersHaveNone
  <2>2. mem.tmp \subseteq Residue \cup {work[p]}
    BY <1>2, <2>1 DEF Residue
  <2>3. IsFiniteSet(Residue \cup {work[p]})
        /\ Cardinality(Residue \cup {work[p]}) \in {Cardinality(Residue), Cardinality(Residue) + 1}
    BY <1>4, FS_AddElement
  <2>4. Cardinality(mem.tmp) <= Cardinality(Residue \cup {work[p]})
    BY <2>2, <2>3, FS_Subset
  <2>5. QED
    BY <1>5, <2>3, <2>4
<1>8. QED
  BY <1>3, <1>4, <1>5, <1>6, <1>7

----------------------------------------------------------------------------
(* The three invariants.                                                   *)

(* A setup keeps to the directory it made.                                 *)
LEMMA WorkInvStep == StoreInv /\ WorkInv /\ [Next]_vars => WorkInv'
<1> SUFFICES ASSUME StoreInv, WorkInv, [Next]_vars PROVE WorkInv'
  OBVIOUS
<1>1. mem \in Tree /\ jnl \in Tree
  BY DEF StoreInv, TypeOK, StoreType, MediumTree
<1>2. ASSUME NEW p \in Procs, AcquireLock(p) \/ SetupStep(p) \/ Kill(p) PROVE WorkInv'
  <2>1. WorkOf(p)' /\ mem' \in Tree
    BY <1>1, <1>2, QuietWork, BusyWork DEF QuietStep, storeVars
  <2>2. \A q \in Procs \ {p} : pc'[q] = "idle" /\ work'[q] = NoDir
    BY <1>2, OneSetupMoves, OthersHaveNone
  <2>3. NoDir \notin mem'.tmp
    BY <2>1, NoDirNoEntry
  <2>4. QED
    BY <2>1, <2>2, <2>3 DEF WorkInv, WorkOf
<1>3. CASE \/ Commit \/ Checkpoint \/ Boot \/ LoaderStep \/ LoaderTimeout \/ UNCHANGED vars
           \/ \E d \in Dirs, f \in Files : Corrupt(d, f)
  <2>1. mem'.tmp = mem.tmp /\ UNCHANGED procVars
    BY <1>3, QuietMachine
  <2>2. QED
    BY <2>1 DEF procVars, WorkInv
<1>4. CASE PowerLoss \/ Shutdown
  <2>1. \A p \in Procs : work'[p] = NoDir
    BY <1>4 DEF PowerLoss, Shutdown, Stopped
  <2>2. mem' \in Tree
    BY <1>1, <1>4, WrittenBackTree DEF PowerLoss, Shutdown, Flush, MediumTree
  <2>3. QED
    BY <2>1, <2>2, NoDirNoEntry DEF WorkInv
<1>5. CASE SwitchRoot
  <2>1. mem' = jnl /\ UNCHANGED procVars /\ \A p \in Procs : pc[p] = "idle"
    BY <1>5 DEF SwitchRoot, StoreInv, LockInv
  <2>2. QED
    BY <1>1, <2>1, NoDirNoEntry DEF WorkInv, procVars
<1>6. QED
  BY <1>2, <1>3, <1>4, <1>5 DEF Next

(* Only a kill or a power loss leaves a directory behind.                  *)
LEMMA ResidueInvStep ==
    StoreInv /\ WorkInv /\ StoreInv' /\ WorkInv' /\ ResidueInv /\ [Next]_vars => ResidueInv'
<1> SUFFICES ASSUME StoreInv, WorkInv, StoreInv', WorkInv', ResidueInv, [Next]_vars
             PROVE  ResidueInv'
  OBVIOUS
<1>1. /\ Cardinality(mem.tmp) \in Nat /\ Cardinality(jnl.tmp) \in Nat
      /\ IsFiniteSet(Residue) /\ Cardinality(Residue) \in Nat
      /\ Cardinality(mem.tmp) <= Cardinality(Residue) + 1
      /\ (\A p \in Procs : pc[p] = "idle") => Residue = mem.tmp
  BY ResidueCounts
<1>2. /\ Cardinality(jnl'.tmp) \in Nat
      /\ IsFiniteSet(Residue') /\ Cardinality(Residue') \in Nat
      /\ (\A p \in Procs : pc'[p] = "idle") => Residue' = mem'.tmp
  <2>1. mem' \in Tree /\ jnl' \in Tree
    BY DEF StoreInv, TypeOK, StoreType, MediumTree
  <2>2. NoDir \notin mem'.tmp /\ mem'.tmp \subseteq Dirs /\ jnl'.tmp \subseteq Dirs
    BY <2>1, NoDirNoEntry
  <2>3. IsFiniteSet(mem'.tmp) /\ IsFiniteSet(jnl'.tmp)
    BY <2>2, FS_Subset, ConstAssumption
  <2>4. IsFiniteSet(Residue')
    BY <2>3, FS_Subset DEF Residue
  <2>5. Cardinality(jnl'.tmp) \in Nat /\ Cardinality(Residue') \in Nat
    BY <2>3, <2>4, FS_CardinalityType
  <2>6. QED
    BY <2>2, <2>4, <2>5 DEF WorkInv, Residue
<1>3. faults \in Nat
  BY DEF StoreInv, TypeOK, LoaderType
<1>4. Cardinality(mem.tmp) <= faults + 1 /\ Cardinality(jnl.tmp) <= faults + 1
      /\ Cardinality(Residue) <= faults
  BY <1>1, <1>3 DEF ResidueInv
<1>5. ASSUME NEW S, IsFiniteSet(S), Residue' \subseteq S PROVE Cardinality(Residue') <= Cardinality(S)
  BY <1>5, FS_Subset
<1>6. ASSUME NEW p \in Procs, AcquireLock(p) \/ SetupStep(p), ~Kill(p) PROVE ResidueInv'
  <2>1. UNCHANGED machineVars /\ power = "on"
    BY <1>6, SetupKeepsMachine
  <2>2. \A q \in Procs \ {p} : work'[q] = work[q]
    BY <1>6, OneSetupMoves
  <2>3. jnl'.tmp \in {jnl.tmp, mem.tmp} /\ mem'.tmp \subseteq mem.tmp \cup {work'[p]}
        /\ (work'[p] = work[p] \/ work[p] \notin mem'.tmp)
    BY <1>6, QuietWork, BusyWork DEF QuietStep, storeVars
  <2>4. Residue' \subseteq Residue
    BY <2>2, <2>3 DEF Residue
  <2>5. QED
    BY <1>1, <1>2, <1>3, <1>4, <1>5, <2>1, <2>3, <2>4 DEF ResidueInv, machineVars
<1>7. ASSUME NEW p \in Procs, Kill(p) PROVE ResidueInv'
  <2>1. UNCHANGED storeVars /\ power' = "on" /\ faults' = faults + 1
    BY <1>7 DEF Kill, Fault
  <2>2. \A q \in Procs \ {p} : work'[q] = work[q]
    BY <1>7, OneSetupMoves
  <2>3. Residue' \subseteq Residue \cup {work[p]}
    BY <2>1, <2>2 DEF Residue, storeVars
  <2>4. IsFiniteSet(Residue \cup {work[p]})
        /\ Cardinality(Residue \cup {work[p]}) \in {Cardinality(Residue), Cardinality(Residue) + 1}
    BY <1>1, FS_AddElement
  <2>5. Cardinality(Residue') <= Cardinality(Residue \cup {work[p]})
    BY <1>5, <2>3, <2>4
  <2>6. Cardinality(Residue') <= faults'
    BY <1>1, <1>2, <1>3, <1>4, <2>1, <2>4, <2>5
  <2>7. jnl' = jnl
    BY <2>1 DEF storeVars
  <2>8. QED
    BY <1>1, <1>3, <1>4, <2>1, <2>6, <2>7 DEF ResidueInv
<1>8. CASE \/ Commit \/ Checkpoint \/ Boot \/ LoaderStep \/ LoaderTimeout \/ UNCHANGED vars
           \/ \E d \in Dirs, f \in Files : Corrupt(d, f)
  <2>1. /\ mem'.tmp = mem.tmp /\ UNCHANGED procVars /\ (power' # "on" => power # "on")
        /\ faults' \in Nat /\ faults <= faults'
        /\ \/ jnl'.tmp = jnl.tmp
           \/ power' = "on" /\ jnl'.tmp = mem.tmp
    BY <1>8, QuietMachine
  <2>2. Residue' = Residue
    BY <2>1 DEF Residue, procVars
  <2>3. QED
    BY <1>1, <1>2, <1>3, <1>4, <2>1, <2>2 DEF ResidueInv
<1>9. CASE PowerLoss
  <2>1. mem' = jnl /\ jnl' = jnl /\ faults' = faults + 1 /\ \A p \in Procs : pc'[p] = "idle"
    BY <1>9 DEF PowerLoss, Stopped, Fault
  <2>2. Residue' = jnl.tmp
    BY <1>2, <2>1
  <2>3. QED
    BY <1>1, <1>3, <1>4, <2>1, <2>2 DEF ResidueInv
<1>10. CASE Shutdown
  <2>1. mem'.tmp = mem.tmp /\ jnl'.tmp = mem.tmp
    BY <1>10, WrittenBackTree DEF Shutdown, Flush, StoreInv, TypeOK, StoreType
  <2>2. \A p \in Procs : pc'[p] = "idle"
    BY <1>10 DEF Shutdown, Stopped
  <2>3. Residue' = mem.tmp
    BY <1>2, <2>1, <2>2
  <2>4. Cardinality(mem.tmp) <= faults' /\ faults' \in Nat
    <3>1. CASE (\A p \in Procs : pc[p] = "idle") /\ UNCHANGED faults
      BY <1>1, <1>3, <1>4, <3>1
    <3>2. CASE faults' = faults + 1
      BY <1>1, <1>3, <1>4, <3>2
    <3>3. QED
      BY <1>10, <3>1, <3>2 DEF Shutdown, Fault
  <2>5. QED
    BY <1>1, <2>1, <2>3, <2>4 DEF ResidueInv
<1>11. CASE SwitchRoot
  <2>1. mem' = jnl /\ jnl' = jnl /\ UNCHANGED procVars /\ UNCHANGED faults /\ power = "initramfs"
    BY <1>11 DEF SwitchRoot
  <2>2. \A p \in Procs : pc'[p] = "idle"
    BY <2>1 DEF StoreInv, LockInv, procVars
  <2>3. Residue' = jnl.tmp /\ Cardinality(jnl.tmp) <= faults
    BY <1>2, <2>1, <2>2 DEF ResidueInv
  <2>4. QED
    BY <1>1, <1>3, <1>4, <2>1, <2>3 DEF ResidueInv
<1>12. QED
  BY <1>6, <1>7, <1>8, <1>9, <1>10, <1>11 DEF Next

----------------------------------------------------------------------------
(* Cardinalities of what is stored.                                        *)

(* A directory that is filled up takes no more than the whole policy.      *)
LEMMA FillingFits ==
    ASSUME NEW t \in Tree, NEW u, NEW w, Room(t, w),
           Stored(u) \subseteq Stored(t) \cup ({w} \X Files)
    PROVE  Headroom(u)
<1> DEFINE W == {w} \X Files
           A == Stored(t) \ W
<1>1. IsFiniteSet(W) /\ Cardinality(W) = Cardinality(Files)
  <2>1. IsFiniteSet({w}) /\ Cardinality({w}) = 1
    BY FS_Singleton
  <2>2. IsFiniteSet(W) /\ Cardinality(W) = Cardinality({w}) * Cardinality(Files)
    BY <2>1, FS_Product, ConstAssumption
  <2>3. Cardinality(Files) \in Nat
    BY FS_CardinalityType, ConstAssumption
  <2>4. \A n \in Nat : 1 * n = n
    OBVIOUS
  <2>5. QED
    BY <2>1, <2>2, <2>3, <2>4
<1>2. IsFiniteSet(A) /\ Cardinality(A) \in Nat
  BY StoredFinite
<1>3. Stored(u) \subseteq A \cup W
  OBVIOUS
<1> HIDE DEF A, W
<1>4. /\ IsFiniteSet(A \cup W)
      /\ Cardinality(A \cup W) = Cardinality(A) + Cardinality(W) - Cardinality(A \cap W)
  BY <1>1, <1>2, FS_Union
<1>5. IsFiniteSet(A \cap W) /\ IsFiniteSet(Stored(u))
      /\ Cardinality(Stored(u)) <= Cardinality(A \cup W)
  BY <1>1, <1>3, <1>4, FS_Subset
<1>6. /\ Cardinality(A \cap W) \in Nat /\ Cardinality(Stored(u)) \in Nat
      /\ Cardinality(W) \in Nat /\ Cardinality(A \cup W) \in Nat
  BY <1>1, <1>4, <1>5, FS_CardinalityType
<1>7. Cardinality(A) + Cardinality(W) + MinFree <= Capacity
  BY <1>1 DEF Room, A, W
<1>8. QED
  BY <1>2, <1>4, <1>5, <1>6, <1>7, ConstAssumption DEF Headroom

(* Room stays where nothing is added outside the directory.                *)
LEMMA RoomKept ==
    ASSUME NEW t \in Tree, NEW u, NEW w, NEW v, Room(t, w),
           Stored(u) \ ({v} \X Files) \subseteq Stored(t) \ ({w} \X Files)
    PROVE  Room(u, v)
<1> DEFINE A == Stored(t) \ ({w} \X Files)
           B == Stored(u) \ ({v} \X Files)
<1>1. IsFiniteSet(A) /\ Cardinality(A) \in Nat
  BY StoredFinite
<1>2. B \subseteq A
  OBVIOUS
<1> HIDE DEF A, B
<1>3. IsFiniteSet(B) /\ Cardinality(B) <= Cardinality(A)
  BY <1>1, <1>2, FS_Subset
<1>4. Cardinality(B) \in Nat /\ Cardinality(Files) \in Nat
  BY <1>3, FS_CardinalityType, ConstAssumption
<1>5. Cardinality(A) + Cardinality(Files) + MinFree <= Capacity
  BY DEF Room, A
<1>6. Cardinality(B) + Cardinality(Files) + MinFree <= Capacity
  BY <1>1, <1>3, <1>4, <1>5, ConstAssumption
<1>7. QED
  BY <1>6 DEF Room, B

(* Room beside nothing is headroom for the whole policy; check_space finds *)
(* exactly that.                                                           *)
LEMMA CheckedRoom ==
    ASSUME NEW t \in Tree, t = mem, Free >= MinFree + Cardinality(Files)
    PROVE  Room(t, NoDir)
<1>1. /\ Cardinality(Stored(t)) \in Nat
      /\ Cardinality(Stored(t) \ ({NoDir} \X Files)) \in Nat
      /\ Cardinality(Stored(t) \ ({NoDir} \X Files)) <= Cardinality(Stored(t))
  BY StoredFinite
<1>2. Cardinality(Files) \in Nat
  BY FS_CardinalityType, ConstAssumption
<1>3. Capacity - Cardinality(Stored(t)) >= MinFree + Cardinality(Files)
  BY DEF Free
<1>4. QED
  BY <1>1, <1>2, <1>3, ConstAssumption DEF Room

(* Nothing is stored under the absent entry.                               *)
LEMMA NothingUnderNoDir ==
    ASSUME NEW t \in Tree
    PROVE  Stored(t) \ ({NoDir} \X Files) = Stored(t)
  BY StoredFinite, ConstAssumption

----------------------------------------------------------------------------
(* The room on /boot.                                                      *)

Reserving == {"provision", "copy", "write", "fsync"}

(* check_space reserves the room, and no other quiet step needs any.       *)
LEMMA QuietRoom ==
    ASSUME StoreInv, WorkInv, RoomInv, NEW p \in Procs, QuietStep(p)
    PROVE  pc'[p] \in Reserving => Room(mem', work'[p])
<1> USE DEF At, Reserving
<1>1. mem \in Tree /\ pc \in [Procs -> Labels] /\ work \in [Procs -> Dirs \cup {NoDir}]
  BY DEF StoreInv, TypeOK, StoreType, SetupType
<1>2. CASE CheckSpace(p)
  <2>1. work' = work /\ mem' = mem /\ work[p] = NoDir
    BY <1>2 DEF CheckSpace, Goto, storeVars, WorkInv
  <2>2. Room(mem, NoDir)
    BY <1>1, <1>2, CheckedRoom DEF CheckSpace
  <2>3. QED
    BY <2>1, <2>2
<1>3. CASE AcquireLock(p)
  BY <1>1, <1>3 DEF AcquireLock
<1>4. CASE \/ Refuse(p) \/ ReuseBundle(p) \/ VerifyCopy(p) \/ FailCopy(p)
           \/ CheckBundle(p) \/ SetKargsFails(p) \/ Finish(p) \/ Kill(p)
  <2>1. Exit(p) \/ \E label \in {"recheck", "sync", "cleanup", "optin"} : Goto(p, label)
    BY <1>4 DEF Refuse, ReuseBundle, VerifyCopy, FailCopy, CheckBundle, SetKargsFails,
                Finish, Kill
  <2>2. pc'[p] \in {"idle", "recheck", "sync", "cleanup", "optin"}
    BY <1>1, <2>1 DEF Exit, Goto
  <2>3. QED
    BY <2>2
<1>5. QED
  BY <1>2, <1>3, <1>4 DEF QuietStep

(* A setup that works on the store stays within its room.                  *)
LEMMA BusyRoom ==
    ASSUME StoreInv, WorkInv, RoomInv, NEW p \in Procs, SetupStep(p), ~QuietStep(p)
    PROVE  /\ mem' \in Tree /\ Headroom(mem')
           /\ Stored(jnl') \in {Stored(jnl), Stored(mem), Stored(mem')}
           /\ pc'[p] \in Reserving => Room(mem', work'[p])
<1> USE DEF At, Reserving
<1>1. /\ mem \in Tree /\ Headroom(mem)
      /\ pc \in [Procs -> Labels] /\ work \in [Procs -> Dirs \cup {NoDir}]
      /\ pc[p] \in Reserving => Room(mem, work[p])
  BY DEF StoreInv, TypeOK, StoreType, SetupType, RoomInv
<1>2. CASE MakeTemporary(p)
  <2>1. mem' \in Tree /\ Stored(mem') \subseteq Stored(mem) /\ jnl' = jnl
    BY <1>2, MakeTemporaryStores
  <2>2. pc[p] = "provision" /\ work[p] = NoDir
    BY <1>2 DEF MakeTemporary, WorkInv
  <2>3. Room(mem, NoDir)
    BY <1>1, <2>2
  <2>4. Stored(mem') \ ({work'[p]} \X Files) \subseteq Stored(mem) \ ({NoDir} \X Files)
    BY <1>1, <2>1, NothingUnderNoDir
  <2>5. Room(mem', work'[p])
    BY <1>1, <2>3, <2>4, RoomKept
  <2>6. QED
    BY <1>1, <2>1, <2>5, HeadroomShrinks
<1>3. ASSUME NEW f \in Files,
             CreateFile(p, f) \/ WriteFile(p, f) \/ FsyncFile(p, f) \/ RemoveFile(p, f)
      PROVE  /\ mem' \in Tree /\ Headroom(mem')
             /\ Stored(jnl') \in {Stored(jnl), Stored(mem), Stored(mem')}
             /\ pc'[p] \in Reserving => Room(mem', work'[p])
  <2>1. /\ mem' \in Tree /\ work' = work
        /\ Stored(jnl') \in {Stored(jnl), Stored(mem), Stored(mem')}
        /\ \/ Stored(mem') \subseteq Stored(mem)
           \/ pc[p] = "copy" /\ Stored(mem') \subseteq Stored(mem) \cup ({work[p]} \X Files)
    BY <1>3, FileStepStores DEF StoresWithin
  <2>2. Headroom(mem')
    BY <1>1, <2>1, HeadroomShrinks, FillingFits
  <2>3. pc'[p] \in Reserving => pc[p] \in Reserving
    BY <1>3 DEF CreateFile, WriteFile, FsyncFile, RemoveFile, procVars
  <2>4. Stored(mem') \ ({work[p]} \X Files) \subseteq Stored(mem) \ ({work[p]} \X Files)
    BY <2>1
  <2>5. Room(mem, work[p]) => Room(mem', work[p])
    BY <1>1, <2>4, RoomKept
  <2>6. QED
    BY <1>1, <2>1, <2>2, <2>3, <2>5
<1>4. CASE \/ SyncCopy(p) \/ Rename(p) \/ SyncStore(p) \/ RemoveTemporary(p)
           \/ FlushStore(p) \/ SetKarg(p) \/ FlushKarg(p)
  <2>1. /\ mem' \in Tree /\ Stored(mem') \subseteq Stored(mem)
        /\ Stored(jnl') \in {Stored(jnl), Stored(mem)}
    BY <1>4, PublishStores
  <2>2. \/ Exit(p)
        \/ \E label \in {"rename", "syncstore", "recheck", "swap", "flush", "done"} :
             Goto(p, label)
    BY <1>4 DEF SyncCopy, Rename, SyncStore, RemoveTemporary, FlushStore, SetKarg, FlushKarg
  <2>3. pc'[p] \notin Reserving
    BY <1>1, <2>2 DEF Exit, Goto
  <2>4. QED
    BY <1>1, <2>1, <2>3, HeadroomShrinks
<1>5. QED
  BY <1>2, <1>3, <1>4 DEF SetupStep, QuietStep

(* The room that check_space found stays until the copy is done.           *)
LEMMA RoomInvStep ==
    StoreInv /\ WorkInv /\ RoomInv /\ [Next]_vars => RoomInv'
<1> SUFFICES ASSUME StoreInv, WorkInv, RoomInv, [Next]_vars PROVE RoomInv'
  OBVIOUS
<1> USE DEF Reserving
<1>1. mem \in Tree /\ jnl \in Tree /\ Headroom(mem) /\ Headroom(jnl)
  BY DEF StoreInv, TypeOK, StoreType, MediumTree, RoomInv
<1>2. \A u : Stored(u) = Stored(mem) \/ Stored(u) = Stored(jnl) => Headroom(u)
  BY <1>1 DEF Headroom
<1>3. ASSUME NEW p \in Procs, AcquireLock(p) \/ SetupStep(p) \/ Kill(p) PROVE RoomInv'
  <2>1. \A q \in Procs \ {p} : pc'[q] = "idle"
    BY <1>3, OneSetupMoves, OthersHaveNone
  <2>2. CASE QuietStep(p)
    <3>1. mem' = mem /\ jnl' = jnl
      BY <2>2, QuietSteps DEF storeVars
    <3>2. pc'[p] \in Reserving => Room(mem', work'[p])
      BY <2>2, QuietRoom
    <3>3. QED
      BY <1>1, <2>1, <3>1, <3>2 DEF RoomInv
  <2>3. CASE ~QuietStep(p)
    <3>1. SetupStep(p)
      BY <1>3, <2>3 DEF QuietStep
    <3>2. /\ Headroom(mem')
          /\ Stored(jnl') \in {Stored(jnl), Stored(mem), Stored(mem')}
          /\ pc'[p] \in Reserving => Room(mem', work'[p])
      BY <2>3, <3>1, BusyRoom
    <3>3. Headroom(jnl')
      BY <1>2, <3>2 DEF Headroom
    <3>4. QED
      BY <2>1, <3>2, <3>3 DEF RoomInv
  <2>4. QED
    BY <2>2, <2>3
<1>4. CASE \/ Commit \/ Checkpoint \/ Boot \/ LoaderStep \/ LoaderTimeout \/ UNCHANGED vars
           \/ \E d \in Dirs, f \in Files : Corrupt(d, f)
  <2>1. /\ Stored(mem') = Stored(mem) /\ pc' = pc /\ work' = work
        /\ Stored(jnl') \in {Stored(mem), Stored(jnl)}
    BY <1>4, QuietMachine DEF procVars
  <2>2. Headroom(mem') /\ Headroom(jnl')
    BY <1>2, <2>1
  <2>3. \A w : Room(mem, w) => Room(mem', w)
    BY <2>1 DEF Room
  <2>4. QED
    BY <2>1, <2>2, <2>3 DEF RoomInv
<1>5. CASE PowerLoss \/ Shutdown \/ SwitchRoot
  <2>1. \A p \in Procs : pc'[p] = "idle"
    BY <1>5 DEF PowerLoss, Shutdown, Stopped, SwitchRoot, procVars, StoreInv, LockInv
  <2>2. /\ Stored(mem') \in {Stored(mem), Stored(jnl)}
        /\ Stored(jnl') \in {Stored(mem), Stored(jnl)}
    <3>1. Stored(WrittenBack(mem)) = Stored(mem)
      BY <1>1, StoredKept
    <3>2. \/ mem' = jnl /\ jnl' = jnl
          \/ mem' = WrittenBack(mem) /\ jnl' = WrittenBack(mem)
      BY <1>5 DEF PowerLoss, Shutdown, Flush, SwitchRoot
    <3>3. QED
      BY <3>1, <3>2
  <2>3. Headroom(mem') /\ Headroom(jnl')
    BY <1>2, <2>2
  <2>4. QED
    BY <2>1, <2>3 DEF RoomInv
<1>6. QED
  BY <1>3, <1>4, <1>5 DEF Next

----------------------------------------------------------------------------
(* The theorems.                                                           *)

(* Nothing is stored, owned or left over on a fresh machine.               *)
LEMMA FreshStore ==
    ASSUME Init
    PROVE  WorkInv /\ ResidueInv /\ (MinFree <= Capacity => RoomInv)
<1>1. /\ mem = EmptyTree /\ jnl = EmptyTree /\ power = "on" /\ faults = 0
      /\ \A p \in Procs : pc[p] = "idle" /\ work[p] = NoDir
  BY DEF Init
<1>2. EmptyTree.tmp = {} /\ EmptyTree.dest = NoDir
  BY DEF EmptyTree
<1>3. Stored(EmptyTree) = {} /\ Cardinality({}) = 0
  BY <1>2, FS_EmptySet DEF Stored
<1>4. WorkInv
  BY <1>1, <1>2 DEF WorkInv
<1>5. ResidueInv
  <2>1. Residue = {}
    BY <1>1, <1>2 DEF Residue
  <2>2. QED
    BY <1>1, <1>2, <1>3, <2>1 DEF ResidueInv
<1>6. ASSUME MinFree <= Capacity PROVE RoomInv
  <2>1. Headroom(EmptyTree)
    BY <1>3, <1>6, ConstAssumption DEF Headroom
  <2>2. QED
    BY <1>1, <2>1 DEF RoomInv
<1>7. QED
  BY <1>4, <1>5, <1>6

(* A setup that fails by itself leaves nothing behind: each directory that *)
(* no running setup owns is accounted for by a fault.                      *)
THEOREM ResidueExcused == Spec => []ResidueOnlyFromFaults
<1>1. Init => WorkInv /\ ResidueInv
  BY FreshStore
<1>2. StoreInv /\ StoreInv' /\ WorkInv /\ ResidueInv /\ [Next]_vars => WorkInv' /\ ResidueInv'
  BY WorkInvStep, ResidueInvStep
<1>3. ResidueInv => ResidueOnlyFromFaults
  BY DEF ResidueInv, Residue, ResidueOnlyFromFaults
<1>4. QED
  BY <1>1, <1>2, <1>3, StoreInvariant, PTL DEF Spec

(* On a /boot that is larger than its headroom no setup ever eats into the *)
(* headroom, whatever was killed, cut off or left behind before.           *)
THEOREM HeadroomSuffices ==
    ASSUME MinFree <= Capacity
    PROVE  Spec => []HeadroomKept
<1>1. Init => WorkInv /\ RoomInv
  BY FreshStore
<1>2. StoreInv /\ WorkInv /\ RoomInv /\ [Next]_vars => WorkInv' /\ RoomInv'
  BY WorkInvStep, RoomInvStep
<1>3. StoreInv /\ RoomInv => HeadroomKept
  <2>1. SUFFICES ASSUME StoreInv, RoomInv PROVE HeadroomKept
    OBVIOUS
  <2>2. Cardinality(Stored(mem)) \in Nat
    BY <2>1, StoredFinite DEF StoreInv, TypeOK, StoreType
  <2>3. QED
    BY <2>1, <2>2, ConstAssumption DEF RoomInv, Headroom, HeadroomKept, Free
<1>4. QED
  BY <1>1, <1>2, <1>3, StoreInvariant, PTL DEF Spec

============================================================================
