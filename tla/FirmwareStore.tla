--------------------------- MODULE FirmwareStore ---------------------------
(***************************************************************************)
(* The persistent firmware store on /boot: azurefin-setup-firmware         *)
(* (setup_firmware_store.py, firmware_bundle.py, firmware_store_probe.py), *)
(* the lock it runs under, the ext4 file system it writes to, and the      *)
(* initramfs loader that reads the store at the next boot                  *)
(* (dracut/91azurefin-firmware).                                           *)
(*                                                                         *)
(* One image, hence one firmware policy and one bundle id, is booted.      *)
(* The file system is seen at three places: `mem` is what processes see,   *)
(* `jnl` what journal replay restores after a power loss, and `home` what  *)
(* a reader that does not replay the journal sees, which is what GRUB and  *)
(* the loader's `mount -o ro,noload` read.                                 *)
(***************************************************************************)
EXTENDS Naturals, FiniteSets

CONSTANTS
    Files,      \* the files of the firmware policy
    Dirs,       \* inodes that can hold a bundle or a `.preparing-*` directory
    Procs,      \* concurrent azurefin-setup-firmware processes
    NoDir,      \* absence of a directory entry
    NoProc,     \* the lock is free
    Capacity,   \* room on /boot, in files of firmware
    MinFree,    \* firmware_preflight.MIN_FREE, in the same unit
    MaxFaults   \* bound on kills, power losses and media corruptions

ASSUME ConstAssumption ==
    /\ IsFiniteSet(Files) /\ Files # {}
    /\ IsFiniteSet(Dirs)
    /\ NoDir \notin Dirs
    /\ NoProc \notin Procs
    /\ Capacity \in Nat /\ MinFree \in Nat /\ MaxFaults \in Nat

VARIABLES
    mem, jnl, home,   \* the three views of the store, records of type Tree
    lock,             \* holder of /var/lib/azurefin/firmware-store.lock
    pc,               \* control state of each setup process
    work,             \* its temporary directory
    power,            \* "on", "off" or "initramfs"
    boot,             \* progress of the loader during one boot
    cmdline,          \* azurefin.boot_uuid is on the running kernel's command line
    ram,              \* the loader's copy of the bundle below /run
    fwpath,           \* firmware_class path points at the copy
    failed,           \* /run/azurefin-firmware.failed exists
    faults            \* faults so far

storeVars == <<mem, jnl, home>>
procVars == <<lock, pc, work>>
loaderVars == <<boot, cmdline, ram, fwpath, failed>>
machineVars == <<power, boot, cmdline, ram, fwpath, failed, faults>>
vars == <<mem, jnl, home, lock, pc, work, power, boot, cmdline, ram, fwpath,
          failed, faults>>

(* What a file holds: "written" is complete but only in the page cache,    *)
(* "good" is complete on the medium, "rotten" was good and got corrupted.  *)
Content == {"absent", "partial", "written", "good", "rotten"}

(* dest: the entry named by the bundle id; tmp: the `.preparing-*` entries *)
(* karg: the boot loader entry carries azurefin.boot_uuid.                 *)
Tree == [dest : Dirs \cup {NoDir}, tmp : SUBSET Dirs,
         file : [Dirs -> [Files -> Content]], karg : BOOLEAN]
MediumTree == {t \in Tree : \A d \in Dirs, f \in Files : t.file[d][f] # "written"}

NoFiles == [f \in Files |-> "absent"]
EmptyTree == [dest |-> NoDir, tmp |-> {}, file |-> [d \in Dirs |-> NoFiles],
              karg |-> FALSE]

AllHold(contents, allowed) == \A f \in Files : contents[f] \in allowed

(* inventory(): every policy file is there with the policy's checksum.     *)
Verified(t, d) == d # NoDir /\ AllHold(t.file[d], {"written", "good"})

(* The bundle of view t was completely written to the medium.              *)
Complete(t) == t.dest # NoDir /\ AllHold(t.file[t.dest], {"good", "rotten"})

OnMedium_DirtyPagesCount(t) == t

(* What a journal commit makes durable: data not yet written back is lost. *)
OnMedium(t) ==
    [t EXCEPT !.file = [d \in Dirs |-> [f \in Files |->
        IF t.file[d][f] = "written" THEN "partial" ELSE t.file[d][f]]]]

(* What writing back every dirty page makes of a view.                     *)
WrittenBack(t) ==
    [t EXCEPT !.file = [d \in Dirs |-> [f \in Files |->
        IF t.file[d][f] = "written" THEN "good" ELSE t.file[d][f]]]]

Stored(t) == {x \in (t.tmp \cup ({t.dest} \ {NoDir})) \X Files :
                t.file[x[1]][x[2]] # "absent"}
Free == Capacity - Cardinality(Stored(mem))

Init ==
    /\ mem = EmptyTree /\ jnl = EmptyTree /\ home = EmptyTree
    /\ lock = NoProc
    /\ pc = [p \in Procs |-> "idle"]
    /\ work = [p \in Procs |-> NoDir]
    /\ power = "on" /\ boot = "none"
    /\ cmdline = FALSE /\ ram = NoFiles /\ fwpath = FALSE /\ failed = FALSE
    /\ faults = 0

----------------------------------------------------------------------------
(* azurefin-setup-firmware.  A step of p needs a running system.           *)

At(p, label) == power = "on" /\ pc[p] = label

Goto(p, label) ==
    /\ pc' = [pc EXCEPT ![p] = label]
    /\ UNCHANGED <<lock, work>>

(* Leaving main(): the lock file is closed and the lock released.          *)
Exit(p) ==
    /\ pc' = [pc EXCEPT ![p] = "idle"]
    /\ work' = [work EXCEPT ![p] = NoDir]
    /\ lock' = NoProc

SetFile(d, f, c) == mem' = [mem EXCEPT !.file[d][f] = c]

(* flock(LOCK_EX | LOCK_NB); when the lock is taken main() raises, which   *)
(* changes nothing.                                                        *)
AcquireLock(p) ==
    /\ At(p, "idle") /\ lock = NoProc
    /\ lock' = p
    /\ pc' = [pc EXCEPT ![p] = "check"]
    /\ UNCHANGED work /\ UNCHANGED storeVars /\ UNCHANGED machineVars

CheckSpace_NoReserve(p) ==
    /\ At(p, "check") /\ Free >= MinFree
    /\ Goto(p, "provision")
    /\ UNCHANGED storeVars /\ UNCHANGED machineVars

(* check_space with the room of the largest bundle deducted.               *)
CheckSpace(p) ==
    /\ At(p, "check")
    /\ Free >= MinFree + Cardinality(Files)
    /\ Goto(p, "provision")
    /\ UNCHANGED storeVars /\ UNCHANGED machineVars

(* Any validation of main(), the extraction, or install_store's directory  *)
(* checks fail before provision() has created anything.                    *)
Refuse(p) ==
    /\ At(p, "check")
    /\ Exit(p)
    /\ UNCHANGED storeVars /\ UNCHANGED machineVars

ReuseBundle_Repairs(p) ==
    /\ At(p, "provision") /\ mem.dest # NoDir
    /\ IF Verified(mem, mem.dest)
       THEN Goto(p, "recheck") /\ UNCHANGED mem
       ELSE Exit(p) /\ mem' = [mem EXCEPT !.dest = NoDir, !.tmp = @ \cup {mem.dest}]
    /\ UNCHANGED <<jnl, home>> /\ UNCHANGED machineVars

ReuseBundle_AssumesOptedIn(p) ==
    /\ At(p, "provision") /\ mem.dest # NoDir
    /\ IF Verified(mem, mem.dest) THEN Goto(p, "done") ELSE Exit(p)
    /\ UNCHANGED storeVars /\ UNCHANGED machineVars

(* provision() finds the bundle: verify it, never replace or repair it.    *)
ReuseBundle(p) ==
    /\ At(p, "provision") /\ mem.dest # NoDir
    /\ \/ Verified(mem, mem.dest) /\ Goto(p, "recheck")
       \/ ~Verified(mem, mem.dest) /\ Exit(p)
    /\ UNCHANGED storeVars /\ UNCHANGED machineVars

MakeTemporary(p) ==
    /\ At(p, "provision") /\ mem.dest = NoDir
    /\ \E d \in Dirs \ mem.tmp :
         /\ mem' = [mem EXCEPT !.tmp = @ \cup {d}, !.file[d] = NoFiles]
         /\ work' = [work EXCEPT ![p] = d]
    /\ pc' = [pc EXCEPT ![p] = "copy"]
    /\ UNCHANGED <<jnl, home, lock>> /\ UNCHANGED machineVars

(* copy_verified, one file: create exclusively, write and compare the      *)
(* checksum of what was read, then flush and fsync.                        *)
CreateFile(p, f) ==
    /\ At(p, "copy") /\ mem.file[work[p]][f] = "absent"
    /\ SetFile(work[p], f, "partial")
    /\ Goto(p, "write")
    /\ UNCHANGED <<jnl, home>> /\ UNCHANGED machineVars

WriteFile(p, f) ==
    /\ At(p, "write") /\ mem.file[work[p]][f] = "partial"
    /\ SetFile(work[p], f, "written")
    /\ Goto(p, "fsync")
    /\ UNCHANGED <<jnl, home>> /\ UNCHANGED machineVars

FsyncFile_Skipped(p, f) ==
    /\ At(p, "fsync") /\ mem.file[work[p]][f] = "written"
    /\ Goto(p, "copy")
    /\ UNCHANGED storeVars /\ UNCHANGED machineVars

FsyncFile(p, f) ==
    /\ At(p, "fsync") /\ mem.file[work[p]][f] = "written"
    /\ SetFile(work[p], f, "good")
    /\ jnl' = OnMedium(mem')
    /\ Goto(p, "copy")
    /\ UNCHANGED home /\ UNCHANGED machineVars

(* inventory(temporary) after the last file.                               *)
VerifyCopy(p) ==
    /\ At(p, "copy") /\ Verified(mem, work[p])
    /\ Goto(p, "sync")
    /\ UNCHANGED storeVars /\ UNCHANGED machineVars

(* sync_directory of the copied tree, bottom up.                           *)
SyncCopy(p) ==
    /\ At(p, "sync")
    /\ jnl' = OnMedium(mem)
    /\ Goto(p, "rename")
    /\ UNCHANGED <<mem, home>> /\ UNCHANGED machineVars

(* rename(2) refuses to replace a directory that has entries; main() then  *)
(* fails like any other copy.                                              *)
Rename(p) ==
    /\ At(p, "rename") /\ mem.dest = NoDir
    /\ mem' = [mem EXCEPT !.dest = work[p], !.tmp = @ \ {work[p]}]
    /\ Goto(p, "syncstore")
    /\ UNCHANGED <<jnl, home>> /\ UNCHANGED machineVars

(* sync_directory(store); if it raises there is no temporary directory     *)
(* left to remove and main() exits with the bundle published.              *)
SyncStore(p) ==
    /\ At(p, "syncstore")
    /\ \/ jnl' = OnMedium(mem) /\ Goto(p, "recheck")
       \/ UNCHANGED jnl /\ Exit(p)
    /\ UNCHANGED <<mem, home>> /\ UNCHANGED machineVars

FailCopy_OptsIn(p) ==
    /\ \E label \in {"copy", "write", "fsync", "sync", "rename"} : At(p, label)
    /\ Goto(p, "optin")
    /\ UNCHANGED storeVars /\ UNCHANGED machineVars

FailCopy_NoCleanup(p) ==
    /\ \E label \in {"copy", "write", "fsync", "sync", "rename"} : At(p, label)
    /\ Exit(p)
    /\ UNCHANGED storeVars /\ UNCHANGED machineVars

(* A source with the wrong checksum, a full or failing disk, an interrupt: *)
(* the exception takes provision() to its finally block.  An rmtree that   *)
(* fails there leaves what a kill at "cleanup" leaves.                     *)
FailCopy(p) ==
    /\ \E label \in {"copy", "write", "fsync", "sync", "rename"} : At(p, label)
    /\ Goto(p, "cleanup")
    /\ UNCHANGED storeVars /\ UNCHANGED machineVars

(* shutil.rmtree(temporary), one entry at a time.                          *)
RemoveFile(p, f) ==
    /\ At(p, "cleanup") /\ mem.file[work[p]][f] # "absent"
    /\ SetFile(work[p], f, "absent")
    /\ UNCHANGED <<jnl, home>> /\ UNCHANGED procVars /\ UNCHANGED machineVars

RemoveTemporary(p) ==
    /\ At(p, "cleanup") /\ mem.file[work[p]] = NoFiles
    /\ mem' = [mem EXCEPT !.tmp = @ \ {work[p]}]
    /\ Exit(p)
    /\ UNCHANGED <<jnl, home>> /\ UNCHANGED machineVars

(* check_bundle(BOOT) before opting in.                                    *)
CheckBundle(p) ==
    /\ At(p, "recheck")
    /\ \/ Verified(mem, mem.dest) /\ Goto(p, "optin")
       \/ ~Verified(mem, mem.dest) /\ Exit(p)
    /\ UNCHANGED storeVars /\ UNCHANGED machineVars

(* ostree admin instutil set-kargs: write back and freeze /boot, which     *)
(* empties the journal; replace the boot entry; freeze it again.           *)
Flush ==
    /\ mem' = WrittenBack(mem)
    /\ jnl' = mem' /\ home' = mem'

FlushStore(p) ==
    /\ At(p, "optin") /\ Flush
    /\ Goto(p, "swap")
    /\ UNCHANGED machineVars

SetKarg(p) ==
    /\ At(p, "swap")
    /\ mem' = [mem EXCEPT !.karg = TRUE]
    /\ Goto(p, "flush")
    /\ UNCHANGED <<jnl, home>> /\ UNCHANGED machineVars

FlushKarg(p) ==
    /\ At(p, "flush") /\ Flush
    /\ Goto(p, "done")
    /\ UNCHANGED machineVars

SetKargsFails(p) ==
    /\ \E label \in {"optin", "swap", "flush"} : At(p, label)
    /\ Exit(p)
    /\ UNCHANGED storeVars /\ UNCHANGED machineVars

Finish(p) ==
    /\ At(p, "done")
    /\ Exit(p)
    /\ UNCHANGED storeVars /\ UNCHANGED machineVars

SetupStep(p) ==
    \/ CheckSpace(p) \/ Refuse(p) \/ ReuseBundle(p) \/ MakeTemporary(p)
    \/ \E f \in Files : CreateFile(p, f) \/ WriteFile(p, f) \/ FsyncFile(p, f)
                        \/ RemoveFile(p, f)
    \/ VerifyCopy(p) \/ SyncCopy(p) \/ Rename(p) \/ SyncStore(p)
    \/ FailCopy(p) \/ RemoveTemporary(p) \/ CheckBundle(p)
    \/ FlushStore(p) \/ SetKarg(p) \/ FlushKarg(p) \/ SetKargsFails(p)
    \/ Finish(p)

----------------------------------------------------------------------------
(* The kernel's file system and the machine: external to the repository.   *)

(* The periodic journal commit.                                            *)
Commit ==
    /\ power = "on"
    /\ jnl' = OnMedium(mem)
    /\ UNCHANGED <<mem, home>> /\ UNCHANGED procVars /\ UNCHANGED machineVars

(* Checkpointing writes committed blocks home in any order: the directory  *)
(* of the store, what is below its directories, or the boot entry.         *)
Checkpoint ==
    /\ power = "on"
    /\ \/ home' = [home EXCEPT !.dest = jnl.dest, !.tmp = jnl.tmp]
       \/ home' = [home EXCEPT !.file = jnl.file]
       \/ home' = [home EXCEPT !.karg = jnl.karg]
    /\ UNCHANGED <<mem, jnl>> /\ UNCHANGED procVars /\ UNCHANGED machineVars

Fault == faults < MaxFaults /\ faults' = faults + 1

(* One setup process is killed: its lock goes, its files stay.             *)
Kill(p) ==
    /\ power = "on" /\ pc[p] # "idle" /\ Fault
    /\ Exit(p)
    /\ UNCHANGED storeVars /\ UNCHANGED power /\ UNCHANGED loaderVars

Rot(t, d, f) == IF t.file[d][f] = "good"
                THEN [t EXCEPT !.file[d][f] = "rotten"] ELSE t

(* The medium corrupts the data of one file of the published bundle.       *)
Corrupt(d, f) ==
    /\ power = "on" /\ home.dest = d /\ home.file[d][f] = "good" /\ Fault
    /\ mem' = Rot(mem, d, f) /\ jnl' = Rot(jnl, d, f) /\ home' = Rot(home, d, f)
    /\ UNCHANGED procVars /\ UNCHANGED power /\ UNCHANGED loaderVars

Stopped ==
    /\ power' = "off" /\ boot' = "none"
    /\ cmdline' = FALSE /\ ram' = NoFiles /\ fwpath' = FALSE /\ failed' = FALSE
    /\ lock' = NoProc
    /\ pc' = [p \in Procs |-> "idle"] /\ work' = [p \in Procs |-> NoDir]

PowerLoss ==
    /\ power # "off" /\ Fault
    /\ Stopped
    /\ mem' = jnl
    /\ UNCHANGED <<jnl, home>>

(* An orderly shutdown terminates the processes and unmounts /boot; it is  *)
(* a fault for a setup that was running.                                   *)
Shutdown ==
    /\ power = "on"
    /\ \/ (\A p \in Procs : pc[p] = "idle") /\ UNCHANGED faults
       \/ (\E p \in Procs : pc[p] # "idle") /\ Fault
    /\ Stopped /\ Flush

(* GRUB takes the kernel command line from the boot entry it can read.     *)
Boot ==
    /\ power = "off"
    /\ power' = "initramfs" /\ boot' = "find" /\ cmdline' = home.karg
    /\ UNCHANGED <<ram, fwpath, failed, faults>>
    /\ UNCHANGED storeVars /\ UNCHANGED procVars

(* systemd mounts /boot, replaying the journal.                            *)
SwitchRoot ==
    /\ power = "initramfs" /\ boot = "ready"
    /\ power' = "on" /\ boot' = "none"
    /\ mem' = jnl /\ home' = jnl
    /\ UNCHANGED <<jnl, cmdline, ram, fwpath, failed, faults>>
    /\ UNCHANGED procVars

----------------------------------------------------------------------------
(* load-firmware.sh, run by pre-udev.sh under a timeout.                   *)

Loading(stage) == power = "initramfs" /\ boot = stage

LoaderOnly == UNCHANGED storeVars /\ UNCHANGED procVars /\ UNCHANGED <<power, cmdline, faults>>

(* No azurefin.boot_uuid: nothing was requested.                           *)
LoaderSkip ==
    /\ Loading("find") /\ ~cmdline
    /\ boot' = "ready"
    /\ UNCHANGED <<ram, fwpath, failed>> /\ LoaderOnly

(* set -e: the script stops with a non-zero status at a failed check, and  *)
(* pre-udev.sh leaves the failure marker; a copy that was not exposed is   *)
(* never looked at again.                                                  *)
LoaderFails ==
    /\ boot' = "ready" /\ failed' = TRUE
    /\ ram' = IF fwpath THEN ram ELSE NoFiles
    /\ UNCHANGED fwpath /\ LoaderOnly

LoaderFind_Always ==
    /\ Loading("find") /\ home.dest # NoDir
    /\ boot' = "copy"
    /\ UNCHANGED <<ram, fwpath, failed>> /\ LoaderOnly

(* Mount without journal replay and look for the bundle of this image;     *)
(* the boot device may also be missing.                                    *)
LoaderFind ==
    /\ Loading("find") /\ cmdline
    /\ \/ /\ home.dest # NoDir
          /\ boot' = "copy"
          /\ UNCHANGED <<ram, fwpath, failed>> /\ LoaderOnly
       \/ LoaderFails

(* Copy each file of the manifest to RAM; a missing file ends the script.  *)
LoaderCopy ==
    /\ Loading("copy")
    /\ \/ /\ \E f \in Files : home.file[home.dest][f] = "absent"
          /\ LoaderFails
       \/ /\ \A f \in Files : home.file[home.dest][f] # "absent"
          /\ ram' = home.file[home.dest]
          /\ boot' = "verify"
          /\ UNCHANGED <<fwpath, failed>> /\ LoaderOnly

LoaderVerify_Skipped ==
    /\ Loading("verify")
    /\ boot' = "expose"
    /\ UNCHANGED <<ram, fwpath, failed>> /\ LoaderOnly

(* sha256sum -c on the copy.                                               *)
LoaderVerify ==
    /\ Loading("verify")
    /\ \/ /\ AllHold(ram, {"good"})
          /\ boot' = "expose"
          /\ UNCHANGED <<ram, fwpath, failed>> /\ LoaderOnly
       \/ /\ ~AllHold(ram, {"good"})
          /\ LoaderFails

LoaderExpose ==
    /\ Loading("expose")
    /\ boot' = "exit" /\ fwpath' = TRUE
    /\ UNCHANGED <<ram, failed>> /\ LoaderOnly

LoaderExit ==
    /\ Loading("exit")
    /\ boot' = "ready"
    /\ UNCHANGED <<ram, fwpath, failed>> /\ LoaderOnly

LoaderTimeout_DeviceOnly == Loading("find") /\ LoaderFails

(* timeout 90: the loader is killed wherever it hangs.                     *)
LoaderTimeout ==
    /\ power = "initramfs" /\ boot # "ready"
    /\ LoaderFails

LoaderStep == LoaderSkip \/ LoaderFind \/ LoaderCopy \/ LoaderVerify
              \/ LoaderExpose \/ LoaderExit

----------------------------------------------------------------------------
Next ==
    \/ \E p \in Procs : AcquireLock(p) \/ SetupStep(p) \/ Kill(p)
    \/ Commit \/ Checkpoint
    \/ \E d \in Dirs, f \in Files : Corrupt(d, f)
    \/ PowerLoss \/ Shutdown \/ Boot \/ SwitchRoot
    \/ LoaderStep \/ LoaderTimeout

(* The setup's own steps and the commands it runs end; the loader may hang *)
(* anywhere, so only its timeout and the boot around it are fair.          *)
Fairness ==
    /\ \A p \in Procs : WF_vars(SetupStep(p))
    /\ WF_vars(LoaderTimeout) /\ WF_vars(SwitchRoot)

Spec == Init /\ [][Next]_vars
FairSpec == Spec /\ Fairness
----------------------------------------------------------------------------
Labels == {"idle", "check", "provision", "copy", "write", "fsync", "sync",
           "rename", "syncstore", "cleanup", "recheck", "optin", "swap", "flush",
           "done"}

StoreType == mem \in Tree /\ jnl \in MediumTree /\ home \in MediumTree

SetupType ==
    /\ lock \in Procs \cup {NoProc}
    /\ pc \in [Procs -> Labels]
    /\ work \in [Procs -> Dirs \cup {NoDir}]

LoaderType ==
    /\ power \in {"on", "off", "initramfs"}
    /\ boot \in {"none", "find", "copy", "verify", "expose", "exit", "ready"}
    /\ cmdline \in BOOLEAN /\ fwpath \in BOOLEAN /\ failed \in BOOLEAN
    /\ ram \in [Files -> Content]
    /\ faults \in Nat

(* Only what has been written back is ever on the medium: the journal and  *)
(* the home blocks hold no file that exists in the page cache alone.       *)
TypeOK == StoreType /\ SetupType /\ LoaderType

(* A bundle that survives a power loss is whole: fsync of every file comes *)
(* before the rename that gives the directory its bundle id                *)
(* (firmware_bundle.copy_verified and provision).                          *)
DurableBundleWhole == jnl.dest # NoDir => Complete(jnl)

(* Whenever GRUB would pass azurefin.boot_uuid, the loader's mount without *)
(* journal replay finds the whole bundle: install_store sets the kernel    *)
(* argument last, "a failed copy must never opt the machine into the       *)
(* loader", whatever was killed, cut off or retried before.                *)
OptInFindsBundle == home.karg => Complete(home)

(* The firmware class never points at a copy that has a byte the policy    *)
(* does not name, even when the loader read a half-checkpointed or         *)
(* corrupted store (load-firmware.sh, pre-udev.sh: "A failed loader never  *)
(* exposes unchecked firmware").                                           *)
OnlyVerifiedExposed == fwpath => AllHold(ram, {"good"})

(* A setup never eats into the diagnostic headroom of /boot, however many  *)
(* abandoned temporary directories earlier, killed setups have left        *)
(* (check_space with 128 MiB deducted).                                    *)
HeadroomKept == Free >= MinFree

(* A temporary directory that no running setup owns is the residue of a    *)
(* fault: a setup that fails by itself removes what it created             *)
(* (provision's finally block).                                            *)
ResidueOnlyFromFaults ==
    power # "off" =>
        Cardinality(mem.tmp \ {work[p] : p \in Procs}) <= faults

(* When setup reports success the opt-in and the bundle survive any cut of *)
(* power that follows ("Reboot when ready to test the loader").            *)
SuccessIsDurable ==
    \A p \in Procs : At(p, "done") => home.karg /\ jnl.karg /\ Complete(jnl)

(* A published bundle is never replaced, repaired or withdrawn, by a retry,*)
(* a concurrent setup or a power loss (provision: an existing destination  *)
(* is only verified).                                                      *)
PublishedForGood ==
    [][jnl.dest # NoDir => jnl'.dest = jnl.dest]_vars

(* A boot never hangs in the loader: it reaches the system with firmware   *)
(* exposed, without a request, or with the failure marker (pre-udev.sh).   *)
BootCompletes == power = "initramfs" ~> power # "initramfs"

(* The whole component implements the three-step promise of FirmwarePromise*)
(* on durable state: publication, then opt-in, then exposure, none undone  *)
(* but exposure by a restart (install_store's order, load-firmware.sh).    *)
Promise == INSTANCE FirmwarePromise WITH
    published <- Complete(jnl), optedIn <- jnl.karg, exposed <- fwpath
ImplementsPromise == Promise!Spec
============================================================================
