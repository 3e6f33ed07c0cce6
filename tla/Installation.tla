---------------------------- MODULE Installation ----------------------------
(***************************************************************************)
(* From the installer medium to the installed system.                      *)
(*                                                                         *)
(* On the console (release_workspace.py, installer_prepare.py) a USB       *)
(* workspace is chosen and mounted, an MSI found, a payload prepared, and  *)
(* a kickstart written that Anaconda includes.  From the live desktop      *)
(* (live-session/launch-installer.py) Anaconda is started directly.  Then  *)
(* Anaconda partitions a disk, and %post corrects the fstab.               *)
(*                                                                         *)
(* Disks are known to the code by their kernel name, which belongs to      *)
(* whatever is plugged in; a disk with a mounted file system keeps it.     *)
(***************************************************************************)
EXTENDS InstalledFstab

CONSTANTS
    Disks,     \* external USB disks
    Labelled,  \* those with an AZUREFIN_WORK partition
    None,      \* no disk; as a name: not plugged in
    MaxPlugs   \* bound on disks plugged in while the installer runs

Names == 1..Cardinality(Disks)   \* sda, sdb, ...

ASSUME InstallationAssumption ==
    /\ IsFiniteSet(Disks) /\ Labelled \subseteq Disks
    /\ None \notin Disks /\ \A names \in SUBSET Names : names # None
    /\ MaxPlugs \in Nat

VARIABLES
    pc,          \* control state of the console tools or the launcher
    name,        \* the kernel name of each disk
    mounted,     \* each disk: "no", "rw" on /run/azurefin-work, "ro" for its MSI
    workspace,   \* the disk on top of /run/azurefin-work
    work,        \* name of the workspace disk, chosen and later excluded
    source,      \* name of the disk with the chosen MSI
    msi,         \* that disk itself, a history variable
    payload,     \* the disk with the payload prepare() accepted
    ks,          \* names the prepared kickstart excludes, None without one
    repo,        \* /run/install/repo on the live desktop: none, rw, ro
    plugs,       \* disks plugged in so far
    swapped,     \* a disk went between the workspace's scan and its mount
    replugged,   \* the MSI's disk went after the choice
    bound        \* the launcher stopped between its two mounts

usb == <<name, mounted, plugs, swapped, replugged>>
choice == <<workspace, work, source, msi, payload>>
vars == <<pc, usb, choice, ks, repo, bound, fstabVars>>

Init ==
    /\ FstabInit
    /\ pc \in {"scan", "desktop"}
    /\ name \in {n \in [Disks -> Names \cup {0}] :
                   \A c, d \in Disks : n[c] = n[d] => c = d \/ n[c] = 0}
    /\ mounted = [d \in Disks |-> "no"]
    /\ workspace = None /\ work = 0 /\ source = 0 /\ msi = None /\ payload = None
    /\ ks = None /\ repo = "none"
    /\ plugs = 0 /\ swapped = FALSE /\ replugged = FALSE /\ bound = FALSE

Plugged == {d \in Disks : name[d] # 0}
ReadOnly == {d \in Disks : mounted[d] = "ro"}
Move(from, to) == pc = from /\ pc' = to

(* Any refusal, cancellation, end of input or failed command ends the tool *)
(* with status 1, and Anaconda does not go on (%pre --erroronfail).        *)
Fails(from) == Move(from, "failed") /\ UNCHANGED <<usb, choice, ks, repo, bound, fstabVars>>

----------------------------------------------------------------------------
(* release_workspace.main                                                  *)

Candidates == {d \in Labelled \cap Plugged : mounted[d] = "no"}

\* lsblk, and the question that names the device; with no or several
\* candidates the user is asked to scan again.
ScanWorkspaces ==
    /\ Move("scan", "ask")
    /\ Cardinality(Candidates) = 1
    /\ \E d \in Candidates : work' = name[d]
    /\ UNCHANGED <<usb, workspace, source, msi, payload, ks, repo, bound, fstabVars>>

DeclineWorkspace ==
    Move("ask", "scan") /\ UNCHANGED <<usb, choice, ks, repo, bound, fstabVars>>

\* The answer is yes: mount mounts whatever has the name by now.
MountWorkspace ==
    /\ Move("ask", "main")
    /\ \E d \in Plugged :
         /\ name[d] = work /\ mounted[d] = "no"
         /\ mounted' = [mounted EXCEPT ![d] = "rw"] /\ workspace' = d
    /\ UNCHANGED <<name, plugs, swapped, replugged, work, source, msi, payload,
                   ks, repo, bound, fstabVars>>

----------------------------------------------------------------------------
(* installer_prepare.main                                                  *)

\* No symbolic links in the workspace, no earlier kickstart.
Begin ==
    /\ Move("main", "menu")
    /\ ks = None
    /\ source' = 0 /\ msi' = None /\ payload' = None
    /\ UNCHANGED <<usb, workspace, work, ks, repo, bound, fstabVars>>

Choose(way) ==
    Move("menu", way) /\ UNCHANGED <<usb, choice, ks, repo, bound, fstabVars>>

\* usb_msi_files: every other USB disk is mounted read-only, if it can be.
MountSources ==
    /\ Move("msi", "pick")
    /\ \E found \in SUBSET {d \in Plugged : name[d] # work} :
         mounted' = [d \in Disks |-> IF d \in found THEN "ro" ELSE mounted[d]]
    /\ UNCHANGED <<name, plugs, swapped, replugged, choice, ks, repo, bound, fstabVars>>

PickMsi ==
    /\ Move("pick", "script")
    /\ \E d \in ReadOnly \cup {workspace} : source' = name[d] /\ msi' = d
    /\ UNCHANGED <<usb, workspace, work, payload, ks, repo, bound, fstabVars>>

Rescan == Move("pick", "rescan") /\ UNCHANGED <<usb, choice, ks, repo, bound, fstabVars>>

\* prepare: the script's exit status, its announcement and prepared_path's
\* checks; a preparation that fails is reported after the sources are left.
Prepare ==
    /\ pc = "script" /\ payload' \in {workspace, None}
    /\ pc' = IF source # 0 THEN "release" ELSE IF payload' # None THEN "write" ELSE "failed"
    /\ UNCHANGED <<usb, workspace, work, source, msi, ks, repo, bound, fstabVars>>

\* The finally block of usb_msi_files; umount may find a source busy.
ReleaseSources ==
    /\ pc \in {"rescan", "release"}
    /\ \E busy \in SUBSET ReadOnly :
         mounted' = [d \in Disks |-> IF d \in ReadOnly \ busy THEN "no" ELSE mounted[d]]
    /\ pc' = IF pc = "rescan" THEN "msi" ELSE IF payload # None THEN "write" ELSE "failed"
    /\ UNCHANGED <<name, plugs, swapped, replugged, choice, ks, repo, bound, fstabVars>>

Ignored_Unfiltered == {work, source}
Ignored_WorkspaceOnly == {work}

\* kickstart: ignoredisk names the workspace's disk and the MSI's.
Ignored == {work, source} \ {0}

WriteKickstart ==
    /\ Move("write", "chvt")
    /\ ks = None /\ ks' = Ignored
    /\ UNCHANGED <<usb, choice, repo, bound, fstabVars>>

\* The file is there before its text is checked and written.
CutKickstart ==
    /\ Move("write", "failed")
    /\ ks = None /\ ks' = {}
    /\ UNCHANGED <<usb, choice, repo, bound, fstabVars>>

HandOver ==
    Move("chvt", "anaconda") /\ UNCHANGED <<usb, choice, ks, repo, bound, fstabVars>>

\* From the installer's shell; a reboot starts over with everything unmounted.
RunAgain == Move("failed", "scan") /\ UNCHANGED <<usb, choice, ks, repo, bound, fstabVars>>

Console ==
    \/ ScanWorkspaces \/ DeclineWorkspace \/ MountWorkspace
    \/ Begin \/ Choose("script") \/ Choose("msi") \/ MountSources \/ PickMsi \/ Rescan
    \/ Prepare \/ ReleaseSources \/ WriteKickstart \/ CutKickstart \/ HandOver \/ RunAgain
    \/ \E from \in {"scan", "ask", "main", "menu", "msi", "pick", "write", "chvt"} : Fails(from)

----------------------------------------------------------------------------
(* launch-installer.main, started again whenever it has failed.            *)

Launch ==
    /\ IF repo = "none" THEN Move("desktop", "bound") /\ repo' = "rw"
                        ELSE Move("desktop", "session") /\ UNCHANGED repo
    /\ UNCHANGED <<usb, choice, ks, bound, fstabVars>>

Remount ==
    /\ pc = "bound"
    /\ \/ pc' = "session" /\ repo' = "ro" /\ UNCHANGED bound
       \/ pc' = "desktop" /\ bound' = TRUE /\ UNCHANGED repo
    /\ UNCHANGED <<usb, choice, ks, fstabVars>>

Session ==
    /\ Move("session", "anaconda") \/ Move("session", "desktop")
    /\ UNCHANGED <<usb, choice, ks, repo, bound, fstabVars>>

----------------------------------------------------------------------------
(* Anaconda and the user: external.                                        *)

\* External disks the user may choose to install on, besides the internal one.
Offered == {d \in Plugged : ks # None => name[d] \notin ks}

\* The chosen disk is partitioned and the system deployed.
Install ==
    /\ Move("anaconda", "post")
    /\ WriteInstalled
    /\ UNCHANGED <<usb, choice, ks, repo, bound>>

Unplug(d) ==
    /\ pc # "post" /\ name[d] # 0 /\ mounted[d] = "no"
    /\ name' = [name EXCEPT ![d] = 0]
    /\ swapped' = (swapped \/ pc = "ask") /\ replugged' = (replugged \/ d = msi)
    /\ UNCHANGED <<pc, mounted, plugs, choice, ks, repo, bound, fstabVars>>

Plug(d) ==
    /\ pc # "post" /\ name[d] = 0 /\ plugs < MaxPlugs
    /\ name' = [name EXCEPT ![d] = Min(Names \ {name[c] : c \in Plugged})]
    /\ plugs' = plugs + 1
    /\ UNCHANGED <<pc, mounted, swapped, replugged, choice, ks, repo, bound, fstabVars>>

Post ==
    /\ pc = "post" /\ FixNext
    /\ UNCHANGED <<pc, usb, choice, ks, repo, bound>>

Next ==
    \/ Console \/ Launch \/ Remount \/ Session \/ Install \/ Post
    \/ \E d \in Disks : Unplug(d) \/ Plug(d)

Spec == Init /\ [][Next]_vars

----------------------------------------------------------------------------
(* Every variable has its type, a kernel name belongs to one disk and stays*)
(* with a disk that is mounted, and the kickstart ignores real names only. *)
TypeOK ==
    /\ FstabType
    /\ pc \in {"scan", "ask", "main", "menu", "msi", "pick", "rescan", "script", "release",
               "write", "chvt", "failed", "desktop", "bound", "session", "anaconda", "post"}
    /\ name \in [Disks -> Names \cup {0}]
    /\ \A c, d \in Plugged : name[c] = name[d] => c = d
    /\ mounted \in [Disks -> {"no", "rw", "ro"}]
    /\ \A d \in Disks \ Plugged : mounted[d] = "no"
    /\ {workspace, msi, payload} \subseteq Disks \cup {None}
    /\ {work, source} \subseteq Names \cup {0}
    /\ ks # None => ks \subseteq Names
    /\ repo \in {"none", "rw", "ro"}
    /\ plugs \in 0..MaxPlugs /\ {swapped, replugged, bound} \subseteq BOOLEAN

(* The one disk that is written before the user confirms an installation   *)
(* has the workspace's label, unless another disk took its name while the  *)
(* question was on the screen (release_workspace.main).                    *)
OnlyWorkspaceWritten ==
    \A d \in Disks : mounted[d] = "rw" => d \in Labelled \/ swapped

(* "The installer must exclude that workspace disk from installation       *)
(* targets", and excludes the MSI's, unless that was replugged.            *)
MediaSpared ==
    pc = "anaconda" /\ ks # None =>
        payload \notin Offered /\ (msi \in Offered => replugged)

(* Anaconda starts with a payload that was prepared, and from the live     *)
(* desktop with its medium read-only, unless a launcher stopped between its*)
(* two mounts: the next one finds a mount point and leaves it.             *)
SourceReady ==
    pc = "anaconda" => IF ks # None THEN payload # None ELSE repo = "ro" \/ bound

(* However disks come and go, preparations fail and are run again, the     *)
(* installation reads and spares the media it should.                      *)
MediaRespected == OnlyWorkspaceWritten /\ MediaSpared /\ SourceReady
============================================================================
