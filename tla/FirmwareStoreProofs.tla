------------------------ MODULE FirmwareStoreProofs ------------------------
(***************************************************************************)
(* Proofs about FirmwareStore for every set of files, inodes and setup     *)
(* processes, every capacity and every number of faults.                   *)
(***************************************************************************)
EXTENDS FirmwareStore, TLAPS

Stable == {"absent", "good", "rotten"}
Whole == {"good", "rotten"}

(* Only the lock holder is past its idle state.                            *)
LockInv ==
    /\ \A p \in Procs : pc[p] # "idle" => lock = p
    /\ power # "on" => \A p \in Procs : pc[p] = "idle"

(* A process that fills or removes a temporary directory owns its entry.   *)
OwnsWork(p) ==
    pc[p] \in {"copy", "write", "fsync", "sync", "rename", "cleanup"} =>
        work[p] \in Dirs /\ work[p] \in mem.tmp

(* The files of the temporary directory at each stage of copy_verified: at *)
(* most the current one is not on the medium.                              *)
AllButOneStable(d, c) ==
    \E g \in Files : /\ mem.file[d][g] = c
                     /\ \A f \in Files \ {g} : mem.file[d][f] \in Stable

CopyStage(p) ==
    /\ pc[p] = "copy" => AllHold(mem.file[work[p]], Stable)
    /\ pc[p] = "write" => AllButOneStable(work[p], "partial")
    /\ pc[p] = "fsync" => AllButOneStable(work[p], "written")
    /\ pc[p] \in {"sync", "rename"} => AllHold(mem.file[work[p]], Whole)

(* What a setup may rely on once the bundle is published.                  *)
Published(p) ==
    /\ pc[p] \in {"syncstore", "recheck", "optin", "swap", "flush", "done"} =>
         mem.dest # NoDir
    /\ pc[p] \in {"swap", "flush", "done"} => Complete(home)
    /\ pc[p] = "flush" => mem.karg
    /\ pc[p] = "done" => home.karg

ProcOK(p) == OwnsWork(p) /\ CopyStage(p) /\ Published(p)
ProcInv == \A p \in Procs : ProcOK(p)

(* What is published is whole, in memory and after journal replay.         *)
MemInv == mem.dest \notin mem.tmp /\ (mem.dest # NoDir => Complete(mem))

(* Each view lags behind the one before it, and never contradicts it.      *)
LagInv ==
    /\ jnl.dest \notin jnl.tmp
    /\ jnl.dest # NoDir => mem.dest = jnl.dest
    /\ home.dest # NoDir => jnl.dest = home.dest
    /\ home.karg => jnl.karg
    /\ jnl.karg => mem.karg

(* The opt-in exists only where the loader would find the bundle.          *)
OptInInv == mem.karg => Complete(home)

(* The loader exposes what it has verified, in a boot that asked for it.   *)
LoaderInv ==
    /\ fwpath => AllHold(ram, {"good"}) /\ cmdline
    /\ boot \in {"expose", "exit"} => AllHold(ram, {"good"})
    /\ boot \in {"copy", "verify", "expose", "exit"} => cmdline
    /\ cmdline => home.karg
    /\ boot \in {"find", "copy", "verify", "expose"} => ~fwpath
    /\ boot = "copy" => power = "initramfs" /\ home.dest # NoDir
    /\ power = "off" => ~cmdline /\ ~fwpath

TreeInv == MemInv /\ DurableBundleWhole /\ LagInv /\ OptInInv
StoreInv == TypeOK /\ LockInv /\ ProcInv /\ TreeInv /\ LoaderInv

----------------------------------------------------------------------------
(* The views made by a commit and by a write-back are trees with the same  *)
(* entries; what was on the medium keeps its content.                      *)
LEMMA OnMediumTree ==
    ASSUME NEW t \in Tree
    PROVE  /\ OnMedium(t) \in MediumTree
           /\ OnMedium(t).dest = t.dest /\ OnMedium(t).karg = t.karg
           /\ OnMedium(t).tmp = t.tmp
           /\ \A d \in Dirs, f \in Files :
                t.file[d][f] # "written" => OnMedium(t).file[d][f] = t.file[d][f]
<1> DEFINE contents == [d \in Dirs |-> [f \in Files |->
                IF t.file[d][f] = "written" THEN "partial" ELSE t.file[d][f]]]
<1>1. contents \in [Dirs -> [Files -> Content]]
  BY DEF Tree, Content
<1>2. \A d \in Dirs, f \in Files :
        /\ contents[d][f] # "written"
        /\ t.file[d][f] # "written" => contents[d][f] = t.file[d][f]
  OBVIOUS
<1>3. OnMedium(t) = [t EXCEPT !.file = contents]
  BY DEF OnMedium
<1> HIDE DEF contents
<1>4. /\ OnMedium(t) \in Tree
      /\ OnMedium(t).file = contents
      /\ OnMedium(t).dest = t.dest /\ OnMedium(t).karg = t.karg
      /\ OnMedium(t).tmp = t.tmp
  BY <1>1, <1>3 DEF Tree
<1>5. OnMedium(t) \in MediumTree
  BY <1>2, <1>4 DEF MediumTree
<1>6. QED
  BY <1>2, <1>4, <1>5

(* What writing back every dirty page keeps: entries and argument.         *)
LEMMA WrittenBackTree ==
    ASSUME NEW t \in Tree
    PROVE  /\ WrittenBack(t) \in MediumTree
           /\ WrittenBack(t).dest = t.dest /\ WrittenBack(t).karg = t.karg
           /\ WrittenBack(t).tmp = t.tmp
           /\ \A d \in Dirs, f \in Files :
                t.file[d][f] # "written" => WrittenBack(t).file[d][f] = t.file[d][f]
<1> DEFINE contents == [d \in Dirs |-> [f \in Files |->
                IF t.file[d][f] = "written" THEN "good" ELSE t.file[d][f]]]
<1>1. contents \in [Dirs -> [Files -> Content]]
  BY DEF Tree, Content
<1>2. \A d \in Dirs, f \in Files :
        /\ contents[d][f] # "written"
        /\ t.file[d][f] # "written" => contents[d][f] = t.file[d][f]
  OBVIOUS
<1>3. WrittenBack(t) = [t EXCEPT !.file = contents]
  BY DEF WrittenBack
<1> HIDE DEF contents
<1>4. /\ WrittenBack(t) \in Tree
      /\ WrittenBack(t).file = contents
      /\ WrittenBack(t).dest = t.dest /\ WrittenBack(t).karg = t.karg
      /\ WrittenBack(t).tmp = t.tmp
  BY <1>1, <1>3 DEF Tree
<1>5. WrittenBack(t) \in MediumTree
  BY <1>2, <1>4 DEF MediumTree
<1>6. QED
  BY <1>2, <1>4, <1>5

(* A corrupted file leaves a well-formed view with the same entries.       *)
LEMMA RotTree ==
    ASSUME NEW t \in Tree, NEW d \in Dirs, NEW f \in Files
    PROVE  /\ Rot(t, d, f) \in Tree
           /\ t \in MediumTree => Rot(t, d, f) \in MediumTree
           /\ Rot(t, d, f).dest = t.dest /\ Rot(t, d, f).karg = t.karg
           /\ Rot(t, d, f).tmp = t.tmp
           /\ \A e \in Dirs, g \in Files :
                \/ Rot(t, d, f).file[e][g] = t.file[e][g]
                \/ t.file[e][g] = "good" /\ Rot(t, d, f).file[e][g] = "rotten"
  BY DEF Rot, Tree, MediumTree, Content

(* Changing one file of a view.                                            *)
LEMMA SetFileTree ==
    ASSUME NEW t \in Tree, NEW d \in Dirs, NEW f \in Files, NEW c \in Content
    PROVE  LET u == [t EXCEPT !.file[d][f] = c]
           IN /\ u \in Tree
              /\ u.dest = t.dest /\ u.karg = t.karg /\ u.tmp = t.tmp
              /\ u.file[d][f] = c
              /\ \A e \in Dirs, g \in Files :
                   e # d \/ g # f => u.file[e][g] = t.file[e][g]
  BY DEF Tree, Content

(* The fields of a view.                                                   *)
LEMMA TreeFields ==
    ASSUME NEW t \in Tree
    PROVE  /\ t.dest \in Dirs \cup {NoDir} /\ t.karg \in BOOLEAN /\ t.tmp \in SUBSET Dirs
           /\ t.file \in [Dirs -> [Files -> Content]]
           /\ \A d \in Dirs : t.file[d] \in [Files -> Content]
           /\ \A d \in Dirs, f \in Files : t.file[d][f] \in Content
  BY DEF Tree

(* The other updates of a view.                                            *)
LEMMA NewTemporaryTree ==
    ASSUME NEW t \in Tree, NEW d \in Dirs
    PROVE  LET u == [t EXCEPT !.tmp = @ \cup {d}, !.file[d] = NoFiles]
           IN /\ u \in Tree
              /\ u.dest = t.dest /\ u.karg = t.karg /\ u.tmp = t.tmp \cup {d}
              /\ u.file[d] = NoFiles
              /\ \A e \in Dirs : e # d => u.file[e] = t.file[e]
  BY DEF Tree, NoFiles, Content

(* The view after the rename that publishes a bundle (provision).          *)
LEMMA RenamedTree ==
    ASSUME NEW t \in Tree, NEW d \in Dirs
    PROVE  LET u == [t EXCEPT !.dest = d, !.tmp = @ \ {d}]
           IN /\ u \in Tree
              /\ u.dest = d /\ u.karg = t.karg /\ u.tmp = t.tmp \ {d}
              /\ u.file = t.file
  BY DEF Tree

(* The view after a temporary directory is gone (rmtree).                  *)
LEMMA RemovedTree ==
    ASSUME NEW t \in Tree, NEW d \in Dirs
    PROVE  LET u == [t EXCEPT !.tmp = @ \ {d}]
           IN /\ u \in Tree
              /\ u.dest = t.dest /\ u.karg = t.karg /\ u.tmp = t.tmp \ {d}
              /\ u.file = t.file
  BY DEF Tree

(* The view after set-kargs replaced the boot entry.                       *)
LEMMA OptedInTree ==
    ASSUME NEW t \in Tree
    PROVE  LET u == [t EXCEPT !.karg = TRUE]
           IN /\ u \in Tree
              /\ u.dest = t.dest /\ u.karg = TRUE /\ u.tmp = t.tmp
              /\ u.file = t.file
  BY DEF Tree

(* A partial checkpoint of the journal is again a well-formed view.        *)
LEMMA CheckpointTree ==
    ASSUME NEW t \in MediumTree, NEW j \in MediumTree
    PROVE  /\ LET u == [t EXCEPT !.dest = j.dest, !.tmp = j.tmp]
              IN /\ u \in MediumTree /\ u.dest = j.dest /\ u.tmp = j.tmp
                 /\ u.file = t.file /\ u.karg = t.karg
           /\ LET u == [t EXCEPT !.file = j.file]
              IN /\ u \in MediumTree /\ u.dest = t.dest /\ u.tmp = t.tmp
                 /\ u.file = j.file /\ u.karg = t.karg
           /\ LET u == [t EXCEPT !.karg = j.karg]
              IN /\ u \in MediumTree /\ u.dest = t.dest /\ u.tmp = t.tmp
                 /\ u.file = t.file /\ u.karg = j.karg
  BY DEF Tree, MediumTree

----------------------------------------------------------------------------
(* What whole groups of actions leave alone.                               *)

QuietStep(p) ==
    \/ AcquireLock(p) \/ CheckSpace(p) \/ Refuse(p) \/ ReuseBundle(p)
    \/ VerifyCopy(p) \/ FailCopy(p) \/ CheckBundle(p) \/ SetKargsFails(p)
    \/ Finish(p) \/ Kill(p)

(* The steps of a setup that touch neither the store nor the machine.      *)
LEMMA QuietSteps ==
    ASSUME NEW p \in Procs, QuietStep(p)
    PROVE  UNCHANGED storeVars
  BY DEF QuietStep, AcquireLock, CheckSpace, Refuse, ReuseBundle, VerifyCopy,
         FailCopy, CheckBundle, SetKargsFails, Finish, Kill

(* load-firmware.sh and its timeout leave the store and setups alone.      *)
LEMMA LoaderSteps ==
    ASSUME LoaderStep \/ LoaderTimeout
    PROVE  /\ UNCHANGED storeVars /\ UNCHANGED procVars
           /\ power = "initramfs" /\ UNCHANGED <<power, cmdline, faults>>
  BY DEF LoaderStep, LoaderTimeout, LoaderSkip, LoaderFind, LoaderCopy, LoaderVerify,
         LoaderExpose, LoaderExit, LoaderFails, LoaderOnly, Loading

(* A setup changes nothing of the machine it runs on.                      *)
LEMMA SetupKeepsMachine ==
    ASSUME NEW p \in Procs, AcquireLock(p) \/ SetupStep(p)
    PROVE  UNCHANGED machineVars /\ power = "on"
<1>1. ASSUME NEW f \in Files,
             CreateFile(p, f) \/ WriteFile(p, f) \/ FsyncFile(p, f) \/ RemoveFile(p, f)
      PROVE  UNCHANGED machineVars /\ power = "on"
  BY <1>1 DEF CreateFile, WriteFile, FsyncFile, RemoveFile, At
<1>2. ASSUME MakeTemporary(p) \/ SyncCopy(p) \/ Rename(p) \/ SyncStore(p)
             \/ RemoveTemporary(p) \/ FlushStore(p) \/ SetKarg(p) \/ FlushKarg(p)
      PROVE  UNCHANGED machineVars /\ power = "on"
  BY <1>2 DEF MakeTemporary, SyncCopy, Rename, SyncStore, RemoveTemporary,
              FlushStore, SetKarg, FlushKarg, At
<1>3. ASSUME AcquireLock(p) \/ CheckSpace(p) \/ Refuse(p) \/ ReuseBundle(p)
             \/ VerifyCopy(p) \/ FailCopy(p) \/ CheckBundle(p)
             \/ SetKargsFails(p) \/ Finish(p)
      PROVE  UNCHANGED machineVars /\ power = "on"
  BY <1>3 DEF AcquireLock, CheckSpace, Refuse, ReuseBundle, VerifyCopy,
              FailCopy, CheckBundle, SetKargsFails, Finish, At
<1>4. QED
  BY <1>1, <1>2, <1>3 DEF SetupStep

(* Every step of a setup moves it on, ends it, or empties its directory.   *)
LEMMA SetupControl ==
    ASSUME NEW p \in Procs, SetupStep(p)
    PROVE  \/ \E label \in Labels : Goto(p, label)
           \/ Exit(p)
           \/ MakeTemporary(p)
           \/ UNCHANGED procVars
<1>1. ASSUME NEW f \in Files,
             CreateFile(p, f) \/ WriteFile(p, f) \/ FsyncFile(p, f) \/ RemoveFile(p, f)
      PROVE  (\E label \in Labels : Goto(p, label)) \/ UNCHANGED procVars
  BY <1>1 DEF CreateFile, WriteFile, FsyncFile, RemoveFile, Labels
<1>2. ASSUME SyncCopy(p) \/ Rename(p) \/ SyncStore(p)
             \/ RemoveTemporary(p) \/ FlushStore(p) \/ SetKarg(p) \/ FlushKarg(p)
      PROVE  (\E label \in Labels : Goto(p, label)) \/ Exit(p)
  BY <1>2 DEF SyncCopy, Rename, SyncStore, RemoveTemporary, FlushStore, SetKarg,
              FlushKarg, Labels
<1>3. ASSUME CheckSpace(p) \/ Refuse(p) \/ ReuseBundle(p)
             \/ VerifyCopy(p) \/ FailCopy(p) \/ CheckBundle(p)
             \/ SetKargsFails(p) \/ Finish(p)
      PROVE  (\E label \in Labels : Goto(p, label)) \/ Exit(p)
  BY <1>3 DEF CheckSpace, Refuse, ReuseBundle, VerifyCopy, FailCopy, CheckBundle,
              SetKargsFails, Finish, Labels
<1>4. QED
  BY <1>1, <1>2, <1>3 DEF SetupStep

----------------------------------------------------------------------------
(* Type correctness.                                                       *)

(* The control state of the setups keeps its type.                         *)
LEMMA SetupTypeStep == SetupType /\ [Next]_vars => SetupType'
<1> SUFFICES ASSUME SetupType, [Next]_vars PROVE SetupType'
  OBVIOUS
<1> USE DEF SetupType
<1>1. ASSUME NEW p \in Procs, AcquireLock(p) PROVE SetupType'
  BY <1>1 DEF AcquireLock, Labels
<1>2. ASSUME NEW p \in Procs, SetupStep(p) PROVE SetupType'
  <2>1. ASSUME NEW label \in Labels, Goto(p, label) PROVE SetupType'
    BY <2>1 DEF Goto
  <2>2. CASE Exit(p)
    BY <2>2 DEF Exit, Labels
  <2>3. CASE MakeTemporary(p)
    BY <2>3 DEF MakeTemporary, Labels
  <2>4. CASE UNCHANGED procVars
    BY <2>4 DEF procVars
  <2>5. QED
    BY <1>2, <2>1, <2>2, <2>3, <2>4, SetupControl
<1>3. ASSUME NEW p \in Procs, Kill(p) PROVE SetupType'
  BY <1>3 DEF Kill, Exit, Labels
<1>4. CASE PowerLoss \/ Shutdown
  BY <1>4 DEF PowerLoss, Shutdown, Stopped, Labels
<1>5. CASE UNCHANGED procVars
  BY <1>5 DEF procVars
<1>6. CASE LoaderStep \/ LoaderTimeout
  BY <1>5, <1>6, LoaderSteps
<1>7. ASSUME NEW d \in Dirs, NEW f \in Files, Corrupt(d, f) PROVE SetupType'
  BY <1>5, <1>7 DEF Corrupt
<1>8. CASE Commit \/ Checkpoint \/ Boot \/ SwitchRoot
  BY <1>5, <1>8 DEF Commit, Checkpoint, Boot, SwitchRoot
<1>9. CASE UNCHANGED vars
  BY <1>5, <1>9 DEF vars, procVars
<1>10. QED
  BY <1>1, <1>2, <1>3, <1>4, <1>6, <1>7, <1>8, <1>9 DEF Next

(* The state of the machine and the loader keeps its type.                 *)
LEMMA LoaderTypeStep == StoreType /\ LoaderType /\ LoaderInv /\ [Next]_vars => LoaderType'
<1> SUFFICES ASSUME StoreType, LoaderType, LoaderInv, [Next]_vars PROVE LoaderType'
  OBVIOUS
<1> USE DEF LoaderType
<1>0. NoFiles \in [Files -> Content]
  BY DEF NoFiles, Content
<1>1. CASE UNCHANGED machineVars
  BY <1>1 DEF machineVars
<1>2. ASSUME NEW p \in Procs, AcquireLock(p) \/ SetupStep(p) PROVE LoaderType'
  BY <1>1, <1>2, SetupKeepsMachine
<1>3. ASSUME NEW p \in Procs, Kill(p) PROVE LoaderType'
  BY <1>3 DEF Kill, Fault, loaderVars
<1>4. ASSUME NEW d \in Dirs, NEW f \in Files, Corrupt(d, f) PROVE LoaderType'
  BY <1>4 DEF Corrupt, Fault, loaderVars
<1>5. CASE PowerLoss \/ Shutdown
  <2>1. Stopped
    BY <1>5 DEF PowerLoss, Shutdown
  <2>2. faults' \in Nat
    BY <1>5 DEF PowerLoss, Shutdown, Fault
  <2>3. QED
    BY <1>0, <2>1, <2>2 DEF Stopped
<1>6. CASE Boot
  BY <1>6, TreeFields DEF Boot, StoreType, MediumTree
<1>7. CASE SwitchRoot
  BY <1>7 DEF SwitchRoot
<1>8. CASE LoaderFails
  BY <1>0, <1>8 DEF LoaderFails, LoaderOnly
<1>9. CASE LoaderSkip \/ LoaderExpose \/ LoaderExit
  BY <1>9 DEF LoaderSkip, LoaderExpose, LoaderExit, LoaderOnly
<1>10. CASE LoaderFind
  BY <1>8, <1>10 DEF LoaderFind, LoaderOnly
<1>11. CASE LoaderCopy
  <2>1. home.file[home.dest] \in [Files -> Content]
    BY <1>11, TreeFields DEF LoaderCopy, Loading, LoaderInv, StoreType, MediumTree
  <2>2. QED
    BY <1>8, <1>11, <2>1 DEF LoaderCopy, LoaderOnly
<1>12. CASE LoaderVerify
  BY <1>8, <1>12 DEF LoaderVerify, LoaderOnly
<1>13. CASE LoaderTimeout
  BY <1>8, <1>13 DEF LoaderTimeout
<1>14. CASE Commit \/ Checkpoint \/ UNCHANGED vars
  BY <1>1, <1>14 DEF Commit, Checkpoint, vars, machineVars
<1>15. QED
  BY <1>2, <1>3, <1>4, <1>5, <1>6, <1>7, <1>9, <1>10, <1>11, <1>12, <1>13, <1>14
     DEF Next, LoaderStep

----------------------------------------------------------------------------
(* The lock.                                                               *)

(* A process that takes a step is past its idle state.                     *)
LEMMA SetupActive ==
    ASSUME NEW p \in Procs, SetupStep(p)
    PROVE  pc[p] # "idle"
  BY DEF SetupStep, CheckSpace, Refuse, ReuseBundle, MakeTemporary, CreateFile,
         WriteFile, FsyncFile, VerifyCopy, SyncCopy, Rename, SyncStore, FailCopy,
         RemoveFile, RemoveTemporary, CheckBundle, FlushStore, SetKarg, FlushKarg,
         SetKargsFails, Finish, At

(* flock serializes: only the holder is active, nobody when power is off.  *)
LEMMA LockStep == SetupType /\ LockInv /\ [Next]_vars => LockInv'
<1> SUFFICES ASSUME SetupType, LockInv, [Next]_vars PROVE LockInv'
  OBVIOUS
<1> USE DEF LockInv
<1>1. CASE UNCHANGED procVars /\ UNCHANGED power
  BY <1>1 DEF procVars
<1>2. ASSUME NEW p \in Procs, AcquireLock(p) PROVE LockInv'
  <2>1. power = "on" /\ power' = "on"
    BY <1>2, SetupKeepsMachine DEF machineVars
  <2>2. \A q \in Procs : q # p => pc'[q] = "idle"
    BY <1>2, ConstAssumption DEF AcquireLock, SetupType
  <2>3. QED
    BY <1>2, <2>1, <2>2 DEF AcquireLock
<1>3. ASSUME NEW p \in Procs, SetupStep(p) PROVE LockInv'
  <2>1. power = "on" /\ power' = "on"
    BY <1>3, SetupKeepsMachine DEF machineVars
  <2>2. lock = p /\ \A q \in Procs : q # p => pc[q] = "idle"
    BY <1>3, SetupActive
  <2>3. ASSUME NEW label \in Labels, Goto(p, label) PROVE LockInv'
    BY <2>1, <2>2, <2>3 DEF Goto, SetupType
  <2>4. CASE Exit(p)
    BY <2>1, <2>2, <2>4 DEF Exit, SetupType
  <2>5. CASE MakeTemporary(p)
    BY <2>1, <2>2, <2>5 DEF MakeTemporary, SetupType
  <2>6. CASE UNCHANGED procVars
    BY <2>1, <2>2, <2>6 DEF procVars
  <2>7. QED
    BY <1>3, <2>3, <2>4, <2>5, <2>6, SetupControl
<1>4. ASSUME NEW p \in Procs, Kill(p) PROVE LockInv'
  <2>1. lock = p /\ \A q \in Procs : q # p => pc[q] = "idle"
    BY <1>4 DEF Kill
  <2>2. QED
    BY <1>4, <2>1 DEF Kill, Exit, SetupType
<1>5. CASE PowerLoss \/ Shutdown
  BY <1>5 DEF PowerLoss, Shutdown, Stopped
<1>6. CASE LoaderStep \/ LoaderTimeout
  BY <1>1, <1>6, LoaderSteps
<1>7. ASSUME NEW d \in Dirs, NEW f \in Files, Corrupt(d, f) PROVE LockInv'
  BY <1>1, <1>7 DEF Corrupt
<1>8. CASE Commit \/ Checkpoint
  BY <1>1, <1>8 DEF Commit, Checkpoint, machineVars
<1>9. CASE Boot \/ SwitchRoot
  BY <1>9 DEF Boot, SwitchRoot, procVars
<1>10. CASE UNCHANGED vars
  BY <1>1, <1>10 DEF vars, procVars
<1>11. QED
  BY <1>2, <1>3, <1>4, <1>5, <1>6, <1>7, <1>8, <1>9, <1>10 DEF Next

----------------------------------------------------------------------------
(* The three ways a step changes the views.                                *)

(* Steps that change only what processes see keep what is durable.         *)
LEMMA MemoryOnly ==
    ASSUME StoreType, TreeInv, UNCHANGED <<jnl, home>>, mem' \in Tree, MemInv',
           mem.dest # NoDir => mem'.dest = mem.dest,
           mem.karg => mem'.karg,
           mem'.karg => Complete(home)
    PROVE  StoreType' /\ TreeInv'
  BY DEF StoreType, TreeInv, DurableBundleWhole, LagInv, OptInInv, Complete

(* A journal commit keeps the relations between the three views.           *)
LEMMA Committed ==
    ASSUME StoreType, TreeInv, mem' \in Tree, MemInv', home' = home,
           mem'.dest = mem.dest, mem'.karg = mem.karg,
           jnl' = OnMedium(mem')
    PROVE  StoreType' /\ TreeInv'
<1>1. /\ jnl' \in MediumTree
      /\ jnl'.dest = mem'.dest /\ jnl'.karg = mem'.karg /\ jnl'.tmp = mem'.tmp
      /\ \A d \in Dirs, f \in Files :
           mem'.file[d][f] # "written" => jnl'.file[d][f] = mem'.file[d][f]
  BY OnMediumTree
<1>2. DurableBundleWhole'
  BY <1>1, TreeFields DEF DurableBundleWhole, MemInv, Complete, AllHold
<1>3. LagInv'
  BY <1>1 DEF TreeInv, LagInv, MemInv
<1>4. QED
  BY <1>1, <1>2, <1>3 DEF StoreType, TreeInv, OptInInv, Complete

(* So does a flush of memory to the home blocks.                           *)
LEMMA Flushed ==
    ASSUME StoreType, TreeInv, Flush
    PROVE  /\ StoreType' /\ TreeInv'
           /\ mem'.dest = mem.dest /\ mem'.karg = mem.karg
           /\ home'.karg = mem.karg
           /\ mem.dest # NoDir => Complete(home)'
<1>1. /\ mem' \in MediumTree /\ jnl' = mem' /\ home' = mem'
      /\ mem'.dest = mem.dest /\ mem'.karg = mem.karg /\ mem'.tmp = mem.tmp
      /\ \A d \in Dirs, f \in Files :
           mem.file[d][f] # "written" => mem'.file[d][f] = mem.file[d][f]
  BY WrittenBackTree DEF Flush, StoreType
<1>2. mem.dest # NoDir => Complete(mem)'
  BY <1>1, TreeFields DEF TreeInv, MemInv, Complete, AllHold, StoreType
<1>3. mem.karg => mem.dest # NoDir
  BY DEF TreeInv, OptInInv, LagInv, Complete
<1>4. QED
  BY <1>1, <1>2, <1>3
     DEF StoreType, MediumTree, TreeInv, MemInv, DurableBundleWhole, LagInv, OptInInv, Complete

----------------------------------------------------------------------------
(* Each step of a setup keeps the views sound, and what the process that   *)
(* takes it may rely on.                                                   *)

(* An idle process relies on nothing.                                      *)
LEMMA IdleOK ==
    ASSUME NEW p \in Procs, pc[p] = "idle"
    PROVE  ProcOK(p)
  BY DEF ProcOK, OwnsWork, CopyStage, Published

(* A process that leaves main() relies on nothing any more.                *)
LEMMA ExitOK ==
    ASSUME NEW p \in Procs, SetupType, Exit(p)
    PROVE  ProcOK(p)'
  BY DEF SetupType, Exit, ProcOK, OwnsWork, CopyStage, Published

(* Checks, failures and reports keep what every process relies on.         *)
LEMMA QuietOK ==
    ASSUME NEW p \in Procs, StoreInv, QuietStep(p)
    PROVE  StoreType' /\ TreeInv' /\ ProcOK(p)'
<1>1. UNCHANGED <<mem, jnl, home>>
  BY QuietSteps DEF storeVars
<1>2. StoreType' /\ TreeInv'
  BY <1>1 DEF StoreInv, TypeOK, StoreType, TreeInv, MemInv, DurableBundleWhole,
              LagInv, OptInInv, Complete
<1>3. SetupType /\ ProcOK(p)
  BY DEF StoreInv, TypeOK, ProcInv
<1>4. CASE Exit(p)
  BY <1>2, <1>3, <1>4, ExitOK
<1>5. CASE AcquireLock(p) \/ CheckSpace(p)
  <2>1. pc'[p] \in {"check", "provision"}
    BY <1>3, <1>5 DEF AcquireLock, CheckSpace, Goto, SetupType
  <2>2. QED
    BY <1>2, <2>1 DEF ProcOK, OwnsWork, CopyStage, Published
<1>6. CASE ReuseBundle(p) /\ ~Exit(p)
  <2>1. pc'[p] = "recheck" /\ mem.dest # NoDir
    BY <1>3, <1>6 DEF ReuseBundle, Goto, SetupType
  <2>2. QED
    BY <1>1, <1>2, <2>1 DEF ProcOK, OwnsWork, CopyStage, Published
<1>7. CASE VerifyCopy(p)
  <2>1. AllHold(mem.file[work[p]], Whole)
    BY <1>3, <1>7 DEF VerifyCopy, At, Verified, ProcOK, CopyStage, AllHold, Stable, Whole
  <2>2. work[p] \in Dirs /\ work[p] \in mem.tmp
    BY <1>3, <1>7 DEF VerifyCopy, At, ProcOK, OwnsWork
  <2>3. pc'[p] = "sync" /\ work'[p] = work[p]
    BY <1>3, <1>7 DEF VerifyCopy, Goto, SetupType
  <2>4. QED
    BY <1>1, <1>2, <2>1, <2>2, <2>3 DEF ProcOK, OwnsWork, CopyStage, Published, AllHold
<1>8. CASE FailCopy(p)
  <2>1. work[p] \in Dirs /\ work[p] \in mem.tmp
    BY <1>3, <1>8 DEF FailCopy, At, ProcOK, OwnsWork
  <2>2. pc'[p] = "cleanup" /\ work'[p] = work[p]
    BY <1>3, <1>8 DEF FailCopy, Goto, SetupType
  <2>3. QED
    BY <1>1, <1>2, <2>1, <2>2 DEF ProcOK, OwnsWork, CopyStage, Published
<1>9. CASE CheckBundle(p) /\ ~Exit(p)
  <2>1. pc'[p] = "optin" /\ mem.dest # NoDir
    BY <1>3, <1>9 DEF CheckBundle, Verified, Goto, SetupType
  <2>2. QED
    BY <1>1, <1>2, <2>1 DEF ProcOK, OwnsWork, CopyStage, Published
<1>10. CASE Refuse(p) \/ SetKargsFails(p) \/ Finish(p) \/ Kill(p)
  BY <1>4, <1>10 DEF Refuse, SetKargsFails, Finish, Kill
<1>11. QED
  BY <1>4, <1>5, <1>6, <1>7, <1>8, <1>9, <1>10 DEF QuietStep

(* mkdtemp gives the setup an empty directory that nobody else owns.       *)
LEMMA MakeTemporaryOK ==
    ASSUME NEW p \in Procs, StoreInv, MakeTemporary(p)
    PROVE  StoreType' /\ TreeInv' /\ ProcOK(p)'
<1> USE DEF StoreInv, TypeOK
<1>1. PICK d \in Dirs \ mem.tmp :
        /\ mem' = [mem EXCEPT !.tmp = @ \cup {d}, !.file[d] = NoFiles]
        /\ work' = [work EXCEPT ![p] = d]
  BY DEF MakeTemporary
<1>2. /\ mem' \in Tree /\ mem'.dest = NoDir /\ mem'.karg = mem.karg
      /\ mem'.tmp = mem.tmp \cup {d} /\ mem'.file[d] = NoFiles
  BY <1>1, NewTemporaryTree DEF MakeTemporary, StoreType
<1>3. MemInv'
  BY <1>2, ConstAssumption, TreeFields DEF TreeInv, MemInv, StoreType, MakeTemporary
<1>4. StoreType' /\ TreeInv'
  BY <1>2, <1>3, MemoryOnly DEF MakeTemporary, TreeInv, OptInInv
<1>5. work'[p] = d /\ pc'[p] = "copy"
  BY <1>1 DEF MakeTemporary, SetupType
<1>6. QED
  BY <1>2, <1>4, <1>5
     DEF ProcOK, OwnsWork, CopyStage, Published, AllHold, NoFiles, Stable

(* The four steps that write below the temporary directory.                *)
LEMMA FileStepOK ==
    ASSUME NEW p \in Procs, NEW f \in Files, StoreInv,
           CreateFile(p, f) \/ WriteFile(p, f) \/ FsyncFile(p, f) \/ RemoveFile(p, f)
    PROVE  StoreType' /\ TreeInv' /\ ProcOK(p)'
<1> USE DEF StoreInv, TypeOK
<1> DEFINE d == work[p]
<1>1. d \in Dirs /\ d \in mem.tmp /\ mem.dest # d
  BY DEF CreateFile, WriteFile, FsyncFile, RemoveFile, At, ProcInv, ProcOK, OwnsWork,
         TreeInv, MemInv
<1>2. ASSUME NEW c \in Content, SetFile(d, f, c)
      PROVE  /\ mem' \in Tree /\ mem'.dest = mem.dest /\ mem'.karg = mem.karg
             /\ mem'.tmp = mem.tmp /\ mem'.file[d][f] = c
             /\ \A e \in Dirs, g \in Files :
                  e # d \/ g # f => mem'.file[e][g] = mem.file[e][g]
             /\ MemInv'
  <2>1. /\ mem' \in Tree /\ mem'.dest = mem.dest /\ mem'.karg = mem.karg
        /\ mem'.tmp = mem.tmp /\ mem'.file[d][f] = c
        /\ \A e \in Dirs, g \in Files :
             e # d \/ g # f => mem'.file[e][g] = mem.file[e][g]
    BY <1>1, <1>2, SetFileTree DEF SetFile, StoreType
  <2>2. MemInv'
    BY <1>1, <2>1, TreeFields DEF TreeInv, MemInv, Complete, AllHold, StoreType
  <2>3. QED
    BY <2>1, <2>2
<1> HIDE DEF d
<1>3. CASE CreateFile(p, f)
  <2>1. SetFile(d, f, "partial") /\ "partial" \in Content
    BY <1>3 DEF CreateFile, Content, d
  <2>2. StoreType' /\ TreeInv'
    BY <1>2, <1>3, <2>1, MemoryOnly DEF CreateFile, TreeInv, OptInInv
  <2>3. pc'[p] = "write" /\ work'[p] = d
    BY <1>3 DEF CreateFile, Goto, SetupType, d
  <2>4. \A g \in Files : mem.file[d][g] \in Stable
    BY <1>3 DEF CreateFile, At, ProcInv, ProcOK, CopyStage, AllHold, d
  <2>5. AllButOneStable(work[p], "partial")'
    BY <1>1, <1>2, <2>1, <2>3, <2>4 DEF AllButOneStable
  <2>6. QED
    BY <1>1, <1>2, <2>1, <2>2, <2>3, <2>5 DEF ProcOK, OwnsWork, CopyStage, Published
<1>4. CASE WriteFile(p, f)
  <2>1. SetFile(d, f, "written") /\ "written" \in Content
    BY <1>4 DEF WriteFile, Content, d
  <2>2. StoreType' /\ TreeInv'
    BY <1>2, <1>4, <2>1, MemoryOnly DEF WriteFile, TreeInv, OptInInv
  <2>3. pc'[p] = "fsync" /\ work'[p] = d
    BY <1>4 DEF WriteFile, Goto, SetupType, d
  <2>4. \A g \in Files \ {f} : mem.file[d][g] \in Stable
    BY <1>4 DEF WriteFile, At, ProcInv, ProcOK, CopyStage, AllButOneStable, Stable, d
  <2>5. AllButOneStable(work[p], "written")'
    BY <1>1, <1>2, <2>1, <2>3, <2>4 DEF AllButOneStable
  <2>6. QED
    BY <1>1, <1>2, <2>1, <2>2, <2>3, <2>5 DEF ProcOK, OwnsWork, CopyStage, Published
<1>5. CASE FsyncFile(p, f)
  <2>1. SetFile(d, f, "good") /\ "good" \in Content
    BY <1>5 DEF FsyncFile, Content, d
  <2>2. StoreType' /\ TreeInv'
    BY <1>2, <1>5, <2>1, Committed DEF FsyncFile
  <2>3. pc'[p] = "copy" /\ work'[p] = d
    BY <1>5 DEF FsyncFile, Goto, SetupType, d
  <2>4. \A g \in Files \ {f} : mem.file[d][g] \in Stable
    BY <1>5 DEF FsyncFile, At, ProcInv, ProcOK, CopyStage, AllButOneStable, Stable, d
  <2>5. AllHold(mem.file[work[p]], Stable)'
    BY <1>1, <1>2, <2>1, <2>3, <2>4 DEF AllHold, Stable
  <2>6. QED
    BY <1>1, <1>2, <2>1, <2>2, <2>3, <2>5 DEF ProcOK, OwnsWork, CopyStage, Published
<1>6. CASE RemoveFile(p, f)
  <2>1. SetFile(d, f, "absent") /\ "absent" \in Content
    BY <1>6 DEF RemoveFile, Content, d
  <2>2. StoreType' /\ TreeInv'
    BY <1>2, <1>6, <2>1, MemoryOnly DEF RemoveFile, TreeInv, OptInInv
  <2>3. pc'[p] = "cleanup" /\ work'[p] = d
    BY <1>6 DEF RemoveFile, At, procVars, d
  <2>4. QED
    BY <1>1, <1>2, <2>1, <2>2, <2>3 DEF ProcOK, OwnsWork, CopyStage, Published
<1>7. QED
  BY <1>3, <1>4, <1>5, <1>6

(* Sync, rename and sync again publish a whole bundle and nothing else.    *)
LEMMA PublishOK ==
    ASSUME NEW p \in Procs, StoreInv,
           SyncCopy(p) \/ Rename(p) \/ SyncStore(p) \/ RemoveTemporary(p)
    PROVE  StoreType' /\ TreeInv' /\ ProcOK(p)'
<1>1. StoreType /\ SetupType /\ TreeInv /\ MemInv /\ ProcOK(p) /\ mem \in Tree
  BY DEF StoreInv, TypeOK, StoreType, ProcInv, TreeInv
<1>2. ASSUME mem' = mem PROVE MemInv'
  BY <1>1, <1>2 DEF MemInv, Complete
<1>3. CASE SyncCopy(p)
  <2>1. StoreType' /\ TreeInv'
    BY <1>1, <1>2, <1>3, Committed DEF SyncCopy
  <2>2. pc'[p] = "rename" /\ work'[p] = work[p] /\ pc[p] = "sync"
    BY <1>1, <1>3 DEF SyncCopy, At, Goto, SetupType
  <2>3. QED
    BY <1>1, <1>3, <2>1, <2>2
       DEF SyncCopy, ProcOK, OwnsWork, CopyStage, Published, AllHold
<1>4. CASE Rename(p)
  <2> DEFINE d == work[p]
  <2>1. d \in Dirs /\ AllHold(mem.file[d], Whole)
    BY <1>1, <1>4 DEF Rename, At, ProcOK, OwnsWork, CopyStage
  <2>2. /\ mem' \in Tree /\ mem'.dest = d /\ mem'.karg = mem.karg
        /\ mem'.tmp = mem.tmp \ {d} /\ mem'.file = mem.file
    BY <1>1, <1>4, <2>1, RenamedTree DEF Rename
  <2>3. MemInv'
    BY <2>1, <2>2, ConstAssumption DEF MemInv, Complete, AllHold, Whole
  <2>4. StoreType' /\ TreeInv'
    BY <1>1, <1>4, <2>2, <2>3, MemoryOnly DEF Rename, TreeInv, OptInInv
  <2>5. pc'[p] = "syncstore" /\ d # NoDir
    BY <1>1, <1>4, <2>1, ConstAssumption DEF Rename, Goto, SetupType
  <2>6. QED
    BY <2>2, <2>4, <2>5 DEF ProcOK, OwnsWork, CopyStage, Published
<1>5. CASE SyncStore(p) /\ Exit(p) /\ UNCHANGED jnl
  <2>1. ProcOK(p)'
    BY <1>1, <1>5, ExitOK
  <2>2. StoreType' /\ TreeInv'
    BY <1>1, <1>2, <1>5, MemoryOnly DEF SyncStore, TreeInv, OptInInv
  <2>3. QED
    BY <2>1, <2>2
<1>6. CASE SyncStore(p) /\ Goto(p, "recheck") /\ jnl' = OnMedium(mem)
  <2>1. StoreType' /\ TreeInv'
    BY <1>1, <1>2, <1>6, Committed DEF SyncStore
  <2>2. pc'[p] = "recheck" /\ mem'.dest # NoDir
    BY <1>1, <1>6 DEF SyncStore, At, Goto, SetupType, ProcOK, Published
  <2>3. QED
    BY <2>1, <2>2 DEF ProcOK, OwnsWork, CopyStage, Published
<1>7. CASE RemoveTemporary(p)
  <2> DEFINE d == work[p]
  <2>1. d \in Dirs /\ d \in mem.tmp
    BY <1>1, <1>7 DEF RemoveTemporary, At, ProcOK, OwnsWork
  <2>2. /\ mem' \in Tree /\ mem'.dest = mem.dest /\ mem'.karg = mem.karg
        /\ mem'.tmp = mem.tmp \ {d} /\ mem'.file = mem.file
    BY <1>1, <1>7, <2>1, RemovedTree DEF RemoveTemporary
  <2>3. MemInv'
    BY <1>1, <2>2 DEF MemInv, Complete
  <2>4. StoreType' /\ TreeInv'
    BY <1>1, <1>7, <2>2, <2>3, MemoryOnly DEF RemoveTemporary, TreeInv, OptInInv
  <2>5. ProcOK(p)'
    BY <1>1, <1>7, ExitOK DEF RemoveTemporary
  <2>6. QED
    BY <2>4, <2>5
<1>8. QED
  BY <1>3, <1>4, <1>5, <1>6, <1>7 DEF SyncStore

(* set-kargs opts in only after the bundle has reached the home blocks.    *)
LEMMA OptInOK ==
    ASSUME NEW p \in Procs, StoreInv, FlushStore(p) \/ SetKarg(p) \/ FlushKarg(p)
    PROVE  StoreType' /\ TreeInv' /\ ProcOK(p)'
<1>1. StoreType /\ SetupType /\ TreeInv /\ MemInv /\ ProcOK(p) /\ mem \in Tree
  BY DEF StoreInv, TypeOK, StoreType, ProcInv, TreeInv
<1>2. CASE FlushStore(p)
  <2>1. mem.dest # NoDir /\ pc'[p] = "swap"
    BY <1>1, <1>2 DEF FlushStore, At, Goto, SetupType, ProcOK, Published
  <2>2. StoreType' /\ TreeInv' /\ mem'.dest # NoDir /\ Complete(home)'
    BY <1>1, <1>2, <2>1, Flushed DEF FlushStore
  <2>3. QED
    BY <2>1, <2>2 DEF ProcOK, OwnsWork, CopyStage, Published
<1>3. CASE SetKarg(p)
  <2>1. mem.dest # NoDir /\ Complete(home) /\ pc'[p] = "flush"
    BY <1>1, <1>3 DEF SetKarg, At, Goto, SetupType, ProcOK, Published
  <2>2. /\ mem' \in Tree /\ mem'.dest = mem.dest /\ mem'.karg = TRUE
        /\ mem'.tmp = mem.tmp /\ mem'.file = mem.file
    BY <1>1, <1>3, OptedInTree DEF SetKarg
  <2>3. MemInv'
    BY <1>1, <2>2 DEF MemInv, Complete
  <2>4. StoreType' /\ TreeInv'
    BY <1>1, <1>3, <2>1, <2>2, <2>3, MemoryOnly DEF SetKarg
  <2>5. Complete(home)'
    BY <1>3, <2>1 DEF SetKarg, Complete
  <2>6. QED
    BY <2>1, <2>2, <2>4, <2>5 DEF ProcOK, OwnsWork, CopyStage, Published
<1>4. CASE FlushKarg(p)
  <2>1. mem.dest # NoDir /\ mem.karg /\ pc'[p] = "done"
    BY <1>1, <1>4 DEF FlushKarg, At, Goto, SetupType, ProcOK, Published
  <2>2. StoreType' /\ TreeInv' /\ mem'.dest # NoDir /\ Complete(home)' /\ home'.karg
    BY <1>1, <1>4, <2>1, Flushed DEF FlushKarg
  <2>3. QED
    BY <2>1, <2>2 DEF ProcOK, OwnsWork, CopyStage, Published
<1>5. QED
  BY <1>2, <1>3, <1>4

(* Every step of a setup keeps what setups and the store rely on.          *)
LEMMA SetupStepOK ==
    ASSUME NEW p \in Procs, StoreInv, AcquireLock(p) \/ SetupStep(p) \/ Kill(p)
    PROVE  StoreType' /\ TreeInv' /\ ProcInv'
<1>1. StoreType' /\ TreeInv' /\ ProcOK(p)'
  BY QuietOK, MakeTemporaryOK, FileStepOK, PublishOK, OptInOK DEF SetupStep, QuietStep
<1>2. \A q \in Procs : q # p => pc[q] = "idle"
  BY SetupActive, ConstAssumption DEF StoreInv, LockInv, AcquireLock, Kill
<1>3. \A q \in Procs : q # p => pc'[q] = "idle"
  <2>1. SetupType
    BY DEF StoreInv, TypeOK
  <2>2. ASSUME NEW label \in Labels, Goto(p, label)
        PROVE  \A q \in Procs : q # p => pc'[q] = "idle"
    BY <1>2, <2>1, <2>2 DEF Goto, SetupType
  <2>3. CASE Exit(p)
    BY <1>2, <2>1, <2>3 DEF Exit, SetupType
  <2>4. CASE AcquireLock(p) \/ MakeTemporary(p)
    BY <1>2, <2>1, <2>4 DEF AcquireLock, MakeTemporary, SetupType
  <2>5. CASE UNCHANGED procVars
    BY <1>2, <2>5 DEF procVars
  <2>6. CASE Kill(p)
    BY <2>3, <2>6 DEF Kill
  <2>7. QED
    BY <2>2, <2>3, <2>4, <2>5, <2>6, SetupControl
<1>4. \A q \in Procs : q # p => ProcOK(q)'
  BY <1>3 DEF ProcOK, OwnsWork, CopyStage, Published
<1>5. QED
  BY <1>1, <1>4 DEF ProcInv

----------------------------------------------------------------------------
(* The file system and the machine.                                        *)

(* The periodic journal commit keeps the store invariant.                  *)
LEMMA CommitOK ==
    ASSUME StoreInv, Commit
    PROVE  StoreType' /\ TreeInv' /\ ProcInv'
<1>1. StoreType /\ TreeInv /\ MemInv /\ ProcInv
  BY DEF StoreInv, TypeOK, TreeInv
<1>2. MemInv' /\ mem' \in Tree
  BY <1>1 DEF Commit, MemInv, Complete, StoreType
<1>3. StoreType' /\ TreeInv'
  BY <1>1, <1>2, Committed DEF Commit
<1>4. ProcInv'
  BY <1>1 DEF Commit, procVars, ProcInv, ProcOK, OwnsWork, CopyStage, Published,
              AllButOneStable, AllHold, Complete
<1>5. QED
  BY <1>3, <1>4

(* Checkpointing parts of the journal keeps the store invariant.           *)
LEMMA CheckpointOK ==
    ASSUME StoreInv, Checkpoint
    PROVE  /\ StoreType' /\ TreeInv' /\ ProcInv'
           /\ home.karg => home'.karg
<1>1. StoreType /\ TreeInv /\ ProcInv
  BY DEF StoreInv, TypeOK
<1>2. /\ home' \in MediumTree
      /\ \/ home'.dest = jnl.dest /\ home'.file = home.file /\ home'.karg = home.karg
         \/ home'.dest = home.dest /\ home'.file = jnl.file /\ home'.karg = home.karg
         \/ home'.dest = home.dest /\ home'.file = home.file /\ home'.karg = jnl.karg
  <2>1. home \in MediumTree /\ jnl \in MediumTree
    BY <1>1 DEF StoreType
  <2>2. CASE home' = [home EXCEPT !.dest = jnl.dest, !.tmp = jnl.tmp]
    BY <2>1, <2>2, CheckpointTree
  <2>3. CASE home' = [home EXCEPT !.file = jnl.file]
    BY <2>1, <2>3, CheckpointTree
  <2>4. CASE home' = [home EXCEPT !.karg = jnl.karg]
    BY <2>1, <2>4, CheckpointTree
  <2>5. QED
    BY <2>2, <2>3, <2>4 DEF Checkpoint
<1>3. Complete(home) => Complete(home)'
  BY <1>1, <1>2 DEF Complete, AllHold, TreeInv, LagInv, DurableBundleWhole
<1>4. StoreType'
  BY <1>1, <1>2 DEF Checkpoint, StoreType
<1>5. TreeInv'
  BY <1>1, <1>2, <1>3
     DEF Checkpoint, TreeInv, MemInv, DurableBundleWhole, LagInv, OptInInv, Complete
<1>6. home.karg => home'.karg
  BY <1>1, <1>2 DEF TreeInv, LagInv
<1>7. ProcInv'
  <2>1. UNCHANGED <<mem, pc, work>>
    BY DEF Checkpoint, procVars
  <2>2. QED
    BY <1>1, <1>3, <1>6, <2>1
       DEF ProcInv, ProcOK, OwnsWork, CopyStage, Published, AllButOneStable, AllHold
<1>8. QED
  BY <1>4, <1>5, <1>6, <1>7

(* Corruption of a published file keeps the store invariant.               *)
LEMMA CorruptOK ==
    ASSUME NEW d \in Dirs, NEW f \in Files, StoreInv, Corrupt(d, f)
    PROVE  /\ StoreType' /\ TreeInv' /\ ProcInv'
           /\ home'.karg = home.karg
<1>1. StoreType /\ TreeInv /\ ProcInv /\ mem \in Tree /\ jnl \in Tree /\ home \in Tree
  BY DEF StoreInv, TypeOK, StoreType, MediumTree
<1>2. /\ mem' = Rot(mem, d, f) /\ jnl' = Rot(jnl, d, f) /\ home' = Rot(home, d, f)
      /\ UNCHANGED <<pc, work>>
  BY DEF Corrupt, procVars
<1>3. StoreType'
  BY <1>1, <1>2, RotTree DEF StoreType
<1>4. /\ mem'.dest = mem.dest /\ mem'.karg = mem.karg /\ mem'.tmp = mem.tmp
      /\ jnl'.dest = jnl.dest /\ jnl'.karg = jnl.karg /\ jnl'.tmp = jnl.tmp
      /\ home'.dest = home.dest /\ home'.karg = home.karg
  BY <1>1, <1>2, RotTree
<1>5. \A e \in Dirs, g \in Files :
        /\ \/ mem'.file[e][g] = mem.file[e][g]
           \/ mem.file[e][g] = "good" /\ mem'.file[e][g] = "rotten"
        /\ \/ jnl'.file[e][g] = jnl.file[e][g]
           \/ jnl.file[e][g] = "good" /\ jnl'.file[e][g] = "rotten"
        /\ \/ home'.file[e][g] = home.file[e][g]
           \/ home.file[e][g] = "good" /\ home'.file[e][g] = "rotten"
  BY <1>1, <1>2, RotTree, SMTT(30)
<1>6. /\ Complete(mem) => Complete(mem)'
      /\ Complete(jnl) => Complete(jnl)'
      /\ Complete(home) => Complete(home)'
  BY <1>1, <1>4, <1>5, TreeFields DEF Complete, AllHold
<1>7. TreeInv'
  BY <1>1, <1>4, <1>6 DEF TreeInv, MemInv, DurableBundleWhole, LagInv, OptInInv
<1>8. ASSUME NEW p \in Procs PROVE ProcOK(p)'
  <2>1. ProcOK(p)
    BY <1>1 DEF ProcInv
  <2>2. OwnsWork(p)'
    BY <1>2, <1>4, <2>1 DEF ProcOK, OwnsWork
  <2>3. Published(p)'
    BY <1>2, <1>4, <1>6, <2>1 DEF ProcOK, Published
  <2>4. CopyStage(p)'
    BY <1>2, <1>5, <2>1
       DEF ProcOK, OwnsWork, CopyStage, AllButOneStable, AllHold, Stable, Whole
  <2>5. QED
    BY <2>2, <2>3, <2>4 DEF ProcOK
<1>9. QED
  BY <1>3, <1>4, <1>7, <1>8 DEF ProcInv

(* Power loss, shutdown, boot and switch-root keep the store invariant.    *)
LEMMA MachineOK ==
    ASSUME StoreInv, PowerLoss \/ Shutdown \/ Boot \/ SwitchRoot
    PROVE  /\ StoreType' /\ TreeInv' /\ ProcInv'
           /\ home.karg => home'.karg
<1>1. StoreType /\ TreeInv /\ ProcInv /\ LockInv
  BY DEF StoreInv, TypeOK
<1>2. ProcInv'
  <2>1. \A p \in Procs : pc'[p] = "idle"
    BY <1>1 DEF PowerLoss, Shutdown, Stopped, Boot, SwitchRoot, procVars, LockInv
  <2>2. QED
    BY <2>1 DEF ProcInv, ProcOK, OwnsWork, CopyStage, Published
<1>3. CASE PowerLoss \/ SwitchRoot
  <2>1. mem' = jnl /\ jnl' = jnl /\ (home' = home \/ home' = jnl)
    BY <1>3 DEF PowerLoss, SwitchRoot
  <2>2. QED
    BY <1>1, <1>2, <2>1
       DEF StoreType, MediumTree, TreeInv, MemInv, DurableBundleWhole, LagInv, OptInInv,
           Complete
<1>4. CASE Shutdown
  BY <1>1, <1>2, <1>4, Flushed DEF Shutdown, TreeInv, LagInv
<1>5. CASE Boot
  BY <1>1, <1>2, <1>5 DEF Boot, StoreType, TreeInv, MemInv, DurableBundleWhole, LagInv,
     OptInInv, Complete, storeVars
<1>6. QED
  BY <1>3, <1>4, <1>5

----------------------------------------------------------------------------
(* The loader.                                                             *)

(* The loader keeps what setups and the store rely on.                     *)
LEMMA LoaderStepOK ==
    ASSUME StoreInv, LoaderStep \/ LoaderTimeout
    PROVE  LoaderInv'
<1>1. LoaderInv /\ LoaderType
  BY DEF StoreInv, TypeOK
<1>2. power = "initramfs" /\ power' = power /\ cmdline' = cmdline /\ home' = home
  BY LoaderSteps DEF storeVars
<1> USE DEF LoaderInv, AllHold
<1>3. CASE LoaderFails
  BY <1>1, <1>2, <1>3 DEF LoaderFails
<1>4. CASE LoaderSkip
  BY <1>1, <1>2, <1>4 DEF LoaderSkip
<1>5. CASE LoaderFind
  BY <1>1, <1>2, <1>3, <1>5 DEF LoaderFind, Loading
<1>6. CASE LoaderCopy
  BY <1>1, <1>2, <1>3, <1>6 DEF LoaderCopy, Loading
<1>7. CASE LoaderVerify
  BY <1>1, <1>2, <1>3, <1>7 DEF LoaderVerify, Loading
<1>8. CASE LoaderExpose
  BY <1>1, <1>2, <1>8 DEF LoaderExpose, Loading
<1>9. CASE LoaderExit
  BY <1>1, <1>2, <1>9 DEF LoaderExit, Loading
<1>10. CASE LoaderTimeout
  BY <1>3, <1>10 DEF LoaderTimeout
<1>11. QED
  BY <1>4, <1>5, <1>6, <1>7, <1>8, <1>9, <1>10 DEF LoaderStep

(* The opt-in that GRUB reads is never taken back.                         *)
LEMMA SetupKeepsKarg ==
    ASSUME NEW p \in Procs, StoreInv, AcquireLock(p) \/ SetupStep(p) \/ Kill(p)
    PROVE  home.karg => home'.karg
<1>1. CASE QuietStep(p)
  BY <1>1, QuietSteps DEF storeVars
<1>2. CASE FlushStore(p) \/ FlushKarg(p)
  <2>1. home.karg => mem.karg
    BY DEF StoreInv, TreeInv, LagInv
  <2>2. home'.karg = mem.karg
    BY <1>2, Flushed DEF FlushStore, FlushKarg, StoreInv, TypeOK
  <2>3. QED
    BY <2>1, <2>2
<1>3. ASSUME NEW f \in Files,
             CreateFile(p, f) \/ WriteFile(p, f) \/ FsyncFile(p, f) \/ RemoveFile(p, f)
      PROVE  home' = home
  BY <1>3 DEF CreateFile, WriteFile, FsyncFile, RemoveFile
<1>4. CASE MakeTemporary(p) \/ SyncCopy(p) \/ Rename(p) \/ SyncStore(p)
           \/ RemoveTemporary(p) \/ SetKarg(p)
  BY <1>4 DEF MakeTemporary, SyncCopy, Rename, SyncStore, RemoveTemporary, SetKarg
<1>5. QED
  BY <1>1, <1>2, <1>3, <1>4 DEF SetupStep, QuietStep

(* The loader invariant: verified before exposed, asked for by the boot.   *)
LEMMA LoaderInvStep == StoreInv /\ [Next]_vars => LoaderInv'
<1> SUFFICES ASSUME StoreInv, [Next]_vars PROVE LoaderInv'
  OBVIOUS
<1>1. LoaderInv /\ LoaderType
  BY DEF StoreInv, TypeOK
<1>2. ASSUME UNCHANGED <<boot, cmdline, ram, fwpath, power>>,
             home.karg => home'.karg, power = "on" \/ home' = home
      PROVE  LoaderInv'
  BY <1>1, <1>2 DEF LoaderInv, AllHold
<1>3. ASSUME NEW p \in Procs, AcquireLock(p) \/ SetupStep(p) PROVE LoaderInv'
  BY <1>2, <1>3, SetupKeepsMachine, SetupKeepsKarg DEF machineVars
<1>4. ASSUME NEW p \in Procs, Kill(p) PROVE LoaderInv'
  BY <1>2, <1>4, SetupKeepsKarg DEF Kill, loaderVars
<1>5. CASE Commit
  BY <1>2, <1>5 DEF Commit, machineVars
<1>6. CASE Checkpoint
  BY <1>2, <1>6, CheckpointOK DEF Checkpoint, machineVars
<1>7. ASSUME NEW d \in Dirs, NEW f \in Files, Corrupt(d, f) PROVE LoaderInv'
  BY <1>2, <1>7, CorruptOK DEF Corrupt, loaderVars
<1>8. CASE PowerLoss \/ Shutdown
  BY <1>8 DEF PowerLoss, Shutdown, Stopped, LoaderInv
<1>9. CASE Boot
  BY <1>1, <1>9 DEF Boot, LoaderInv, storeVars
<1>10. CASE SwitchRoot
  <2>1. home.karg => home'.karg
    BY <1>10, MachineOK
  <2>2. QED
    BY <1>1, <1>10, <2>1 DEF SwitchRoot, LoaderInv
<1>11. CASE LoaderStep \/ LoaderTimeout
  BY <1>11, LoaderStepOK
<1>12. CASE UNCHANGED vars
  BY <1>2, <1>12 DEF vars
<1>13. QED
  BY <1>3, <1>4, <1>5, <1>6, <1>7, <1>8, <1>9, <1>10, <1>11, <1>12 DEF Next

----------------------------------------------------------------------------
(* The inductive invariant.                                                *)

(* The inductive invariant holds on a fresh machine.                       *)
LEMMA StoreInvInit == Init => StoreInv
<1> SUFFICES ASSUME Init PROVE StoreInv
  OBVIOUS
<1>1. EmptyTree \in MediumTree
  BY DEF EmptyTree, MediumTree, Tree, NoFiles, Content
<1>2. TypeOK
  BY <1>1 DEF Init, TypeOK, StoreType, SetupType, LoaderType, MediumTree, Labels,
              NoFiles, Content
<1>3. ProcInv
  BY IdleOK DEF Init, ProcInv
<1>4. TreeInv
  BY DEF Init, TreeInv, MemInv, DurableBundleWhole, LagInv, OptInInv, EmptyTree
<1>5. QED
  BY <1>2, <1>3, <1>4 DEF Init, StoreInv, LockInv, LoaderInv

(* Every step keeps the inductive invariant.                               *)
LEMMA StoreInvStep == StoreInv /\ [Next]_vars => StoreInv'
<1> SUFFICES ASSUME StoreInv, [Next]_vars PROVE StoreInv'
  OBVIOUS
<1>1. StoreType' /\ TreeInv' /\ ProcInv'
  <2>1. CASE UNCHANGED <<mem, jnl, home>> /\ UNCHANGED procVars
    BY <2>1 DEF procVars, StoreInv, TypeOK, StoreType, TreeInv, MemInv,
       DurableBundleWhole, LagInv, OptInInv, Complete, AllHold, ProcInv, ProcOK,
       OwnsWork, CopyStage, AllButOneStable, Published
  <2>2. CASE LoaderStep \/ LoaderTimeout \/ UNCHANGED vars
    BY <2>1, <2>2, LoaderSteps DEF vars, storeVars, procVars
  <2>3. QED
    BY <2>2, SetupStepOK, CommitOK, CheckpointOK, CorruptOK, MachineOK DEF Next
<1>2. SetupType' /\ LockInv'
  BY SetupTypeStep, LockStep DEF StoreInv, TypeOK
<1>3. LoaderType' /\ LoaderInv'
  BY LoaderTypeStep, LoaderInvStep DEF StoreInv, TypeOK
<1>4. QED
  BY <1>1, <1>2, <1>3 DEF StoreInv, TypeOK

(* The inductive invariant from which the other theorems follow.           *)
THEOREM StoreInvariant == Spec => []StoreInv
  BY StoreInvInit, StoreInvStep, PTL DEF Spec

(* Type correctness: what is on the medium was written back.               *)
THEOREM TypeCorrect == Spec => []TypeOK
  BY StoreInvariant, PTL DEF StoreInv

----------------------------------------------------------------------------
(* The properties of the component.                                        *)

(* copy_verified and provision: a durable bundle is whole.                 *)
THEOREM BundleWhole == Spec => []DurableBundleWhole
<1>1. StoreInv => DurableBundleWhole
  BY DEF StoreInv, TreeInv
<1>2. QED
  BY <1>1, StoreInvariant, PTL

(* install_store sets the kernel argument last: where GRUB finds it, the   *)
(* loader finds the bundle.                                                *)
THEOREM OptInSafe == Spec => []OptInFindsBundle
<1>1. StoreInv => OptInFindsBundle
  BY DEF StoreInv, TreeInv, LagInv, OptInInv, OptInFindsBundle
<1>2. QED
  BY <1>1, StoreInvariant, PTL

(* load-firmware.sh exposes nothing it has not verified in RAM.            *)
THEOREM LoaderSafe == Spec => []OnlyVerifiedExposed
<1>1. StoreInv => OnlyVerifiedExposed
  BY DEF StoreInv, LoaderInv, OnlyVerifiedExposed
<1>2. QED
  BY <1>1, StoreInvariant, PTL

(* A setup that reports success survives any later power loss.             *)
THEOREM SuccessSafe == Spec => []SuccessIsDurable
<1>1. StoreInv => SuccessIsDurable
  <2> SUFFICES ASSUME StoreInv, NEW p \in Procs, At(p, "done")
               PROVE  home.karg /\ jnl.karg /\ Complete(jnl)
    BY DEF SuccessIsDurable
  <2>1. home.karg /\ Complete(home)
    BY DEF StoreInv, ProcInv, ProcOK, Published, At
  <2>2. QED
    BY <2>1 DEF StoreInv, TreeInv, LagInv, DurableBundleWhole, Complete
<1>2. QED
  BY <1>1, StoreInvariant, PTL

(* What becomes durable is what memory held, or stays as it was.           *)
LEMMA JournalStep ==
    ASSUME StoreInv, [Next]_vars
    PROVE  \/ jnl'.dest = jnl.dest /\ jnl'.karg = jnl.karg
           \/ jnl'.dest = mem.dest /\ jnl'.karg = mem.karg
<1> DEFINE Kept == \/ jnl'.dest = jnl.dest /\ jnl'.karg = jnl.karg
                   \/ jnl'.dest = mem.dest /\ jnl'.karg = mem.karg
<1>1. mem \in Tree /\ jnl \in Tree
  BY DEF StoreInv, TypeOK, StoreType, MediumTree
<1>2. CASE jnl' = jnl
  BY <1>2
<1>3. CASE jnl' = OnMedium(mem)
  BY <1>1, <1>3, OnMediumTree
<1>4. CASE Flush
  BY <1>1, <1>4, WrittenBackTree DEF Flush
<1>5. ASSUME NEW p \in Procs, NEW f \in Files, FsyncFile(p, f)
      PROVE  Kept
  <2>1. work[p] \in Dirs /\ "good" \in Content
    BY <1>5 DEF FsyncFile, At, StoreInv, ProcInv, ProcOK, OwnsWork, Content
  <2>2. mem' = [mem EXCEPT !.file[work[p]][f] = "good"] /\ jnl' = OnMedium(mem')
    BY <1>5 DEF FsyncFile, SetFile
  <2>3. mem' \in Tree /\ mem'.dest = mem.dest /\ mem'.karg = mem.karg
    BY <1>1, <2>1, <2>2, SetFileTree
  <2>4. QED
    BY <2>2, <2>3, OnMediumTree
<1>6. ASSUME NEW d \in Dirs, NEW f \in Files, Corrupt(d, f)
      PROVE  Kept
  BY <1>1, <1>6, RotTree DEF Corrupt
<1>7. ASSUME NEW p \in Procs, QuietStep(p) PROVE Kept
  BY <1>2, <1>7, QuietSteps DEF storeVars
<1>8. ASSUME NEW p \in Procs, NEW f \in Files,
             CreateFile(p, f) \/ WriteFile(p, f) \/ RemoveFile(p, f)
      PROVE  jnl' = jnl
  BY <1>8 DEF CreateFile, WriteFile, RemoveFile
<1>9. ASSUME NEW p \in Procs, MakeTemporary(p) \/ Rename(p) \/ RemoveTemporary(p)
                              \/ SetKarg(p)
      PROVE  jnl' = jnl
  BY <1>9 DEF MakeTemporary, Rename, RemoveTemporary, SetKarg
<1>10. ASSUME NEW p \in Procs, SyncCopy(p) \/ SyncStore(p) \/ FlushStore(p) \/ FlushKarg(p)
       PROVE  Kept
  BY <1>2, <1>3, <1>4, <1>10 DEF SyncCopy, SyncStore, FlushStore, FlushKarg
<1>11. ASSUME NEW p \in Procs, SetupStep(p) PROVE Kept
  BY <1>2, <1>5, <1>7, <1>8, <1>9, <1>10, <1>11 DEF SetupStep, QuietStep
<1>12. CASE LoaderStep \/ LoaderTimeout \/ UNCHANGED vars
  BY <1>2, <1>12, LoaderSteps DEF storeVars, vars
<1>13. CASE Commit \/ Checkpoint \/ PowerLoss \/ Shutdown \/ Boot \/ SwitchRoot
  BY <1>2, <1>3, <1>4, <1>13
     DEF Commit, Checkpoint, PowerLoss, Shutdown, Boot, SwitchRoot, storeVars
<1>14. QED
  BY <1>6, <1>7, <1>11, <1>12, <1>13 DEF Next, QuietStep

(* A durable bundle keeps its inode: the memory view already had it.       *)
LEMMA PublishedStep ==
    ASSUME StoreInv, [Next]_vars, jnl.dest # NoDir
    PROVE  jnl'.dest = jnl.dest
  BY JournalStep DEF StoreInv, TreeInv, LagInv

(* provision never replaces, repairs or withdraws a published bundle.      *)
THEOREM PublishedOnce == Spec => PublishedForGood
<1>1. StoreInv /\ [Next]_vars => [jnl.dest # NoDir => jnl'.dest = jnl.dest]_vars
  BY PublishedStep
<1>2. QED
  BY <1>1, StoreInvariant, PTL DEF Spec, PublishedForGood

(* Only the end of a successful load exposes firmware, only the end of a   *)
(* session hides it.                                                       *)
LEMMA ExposureStep ==
    ASSUME [Next]_vars
    PROVE  \/ fwpath' = fwpath
           \/ LoaderExpose
           \/ fwpath' = FALSE
<1>1. ASSUME NEW p \in Procs, AcquireLock(p) \/ SetupStep(p) PROVE fwpath' = fwpath
  BY <1>1, SetupKeepsMachine DEF machineVars
<1>2. ASSUME NEW p \in Procs, Kill(p) PROVE fwpath' = fwpath
  BY <1>2 DEF Kill, loaderVars
<1>3. ASSUME NEW d \in Dirs, NEW f \in Files, Corrupt(d, f) PROVE fwpath' = fwpath
  BY <1>3 DEF Corrupt, loaderVars
<1>4. CASE Commit \/ Checkpoint \/ Boot \/ SwitchRoot \/ UNCHANGED vars
  BY <1>4 DEF Commit, Checkpoint, Boot, SwitchRoot, machineVars, vars
<1>5. CASE PowerLoss \/ Shutdown
  BY <1>5 DEF PowerLoss, Shutdown, Stopped
<1>6. CASE LoaderStep \/ LoaderTimeout
  BY <1>6 DEF LoaderStep, LoaderTimeout, LoaderSkip, LoaderFind, LoaderCopy,
              LoaderVerify, LoaderExit, LoaderFails
<1>7. QED
  BY <1>1, <1>2, <1>3, <1>4, <1>5, <1>6 DEF Next

(* The component implements FirmwarePromise on its durable state.          *)
THEOREM StoreImplementsPromise == Spec => ImplementsPromise
<1>1. Init => Promise!Init
  BY DEF Init, Promise!Init, EmptyTree, Complete
<1>2. StoreInv /\ StoreInv' /\ [Next]_vars => [Promise!Next]_(Promise!vars)
  <2> SUFFICES ASSUME StoreInv, StoreInv', [Next]_vars
               PROVE  [Promise!Next]_(Promise!vars)
    OBVIOUS
  <2> USE DEF Promise!Next, Promise!Publish, Promise!OptIn, Promise!Expose,
              Promise!Restart, Promise!vars
  <2>1. /\ Complete(jnl) \in BOOLEAN /\ Complete(jnl)' \in BOOLEAN
        /\ jnl.karg \in BOOLEAN /\ jnl'.karg \in BOOLEAN
        /\ fwpath \in BOOLEAN /\ fwpath' \in BOOLEAN
    BY TreeFields DEF StoreInv, TypeOK, StoreType, MediumTree, LoaderType, Complete, AllHold
  <2>2. Complete(jnl) => Complete(jnl)'
    BY PublishedStep DEF StoreInv, TreeInv, DurableBundleWhole, Complete
  <2>3. (jnl.karg => jnl'.karg) /\ (jnl'.karg => Complete(jnl))
    <3>1. mem.karg => Complete(jnl)
      BY DEF StoreInv, TreeInv, OptInInv, LagInv, DurableBundleWhole, Complete
    <3>2. jnl.karg => mem.karg
      BY DEF StoreInv, TreeInv, LagInv
    <3>3. QED
      BY <3>1, <3>2, JournalStep
  <2>4. fwpath => jnl.karg /\ Complete(jnl)
    <3>1. fwpath => home.karg
      BY DEF StoreInv, LoaderInv
    <3>2. home.karg => jnl.karg /\ jnl.dest # NoDir
      BY DEF StoreInv, TreeInv, LagInv, OptInInv, Complete
    <3>3. QED
      BY <3>1, <3>2 DEF StoreInv, TreeInv, DurableBundleWhole
  <2>5. CASE fwpath' = fwpath
    BY <2>1, <2>2, <2>3, <2>5
  <2>6. CASE LoaderExpose
    <3>1. jnl' = jnl
      BY <2>6, LoaderSteps DEF LoaderStep, storeVars
    <3>2. ~fwpath /\ fwpath' /\ jnl.karg
      BY <2>1, <2>6 DEF LoaderExpose, Loading, StoreInv, LoaderInv, TreeInv, LagInv
    <3>3. QED
      BY <2>1, <3>1, <3>2 DEF Complete
  <2>7. CASE fwpath' = FALSE
    BY <2>1, <2>2, <2>3, <2>4, <2>7
  <2>8. QED
    BY <2>5, <2>6, <2>7, ExposureStep
<1>3. QED
  BY <1>1, <1>2, StoreInvariant, PTL DEF Spec, ImplementsPromise, Promise!Spec
============================================================================
