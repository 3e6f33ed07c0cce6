---------------------------- MODULE SystemUpdate ----------------------------
(***************************************************************************)
(* Updating an installed Azurefin system: `ujust update` and the scheduled *)
(* uupd.service (surface/build/uupd), both behind the preflight of         *)
(* system_update_preflight.py and the lock that azurefin-setup-firmware    *)
(* also takes; the deployments bootc keeps; and the `testing` channel that *)
(* scripts/promote-testing.sh moves while machines look at it.             *)
(*                                                                         *)
(* The firmware store is seen here as FirmwarePromise describes it: which  *)
(* bundles are published, and which boot entries carry azurefin.boot_uuid. *)
(* Room on /boot is counted in units of one firmware bundle.               *)
(***************************************************************************)
EXTENDS Naturals, Sequences, FiniteSets

CONSTANTS
    MaxVersion,      \* versions are 1..MaxVersion, ordered as validate_version does
    Bundles,         \* firmware bundle ids
    ChannelContract, \* firmware_bundle of surface/update-contract.json on main
    Capacity,        \* room on /boot
    KernelRoom,      \* room one deployment's kernel and initramfs take on /boot
    UpdateFloor,     \* room the update preflight demands (768 MiB)
    SetupFloor,      \* room the firmware preflight demands (512 MiB)
    MaxEntries,      \* bound on boot entries, pinned ones included
    MaxPromotions,   \* bound on channel moves
    MaxReboots       \* bound on reboots

ASSUME UpdateAssumption ==
    /\ MaxVersion \in Nat \ {0} /\ ChannelContract \in Bundles
    /\ {Capacity, KernelRoom, UpdateFloor, SetupFloor} \subseteq Nat
    /\ {MaxPromotions, MaxReboots} \subseteq Nat /\ MaxEntries \in Nat \ {0, 1}
    /\ KernelRoom <= UpdateFloor

Updaters == {"ujust", "uupd"}

Image == [version : 1..MaxVersion, bundle : Bundles]
Deployment == [image : Image, karg : BOOLEAN]
None == <<>>

VARIABLES
    deps,        \* the boot entries, the default one first
    booted,      \* index of the booted entry
    cmdline,     \* azurefin.boot_uuid is on the running kernel's command line
    exposed,     \* the loader exposed this image's firmware at this boot
    staged,      \* the deployment the next shutdown finalizes, or None
    published,   \* bundles in the firmware store
    lock,        \* holder of firmware-store.lock, "free" if none
    pc,          \* control state of the two updaters
    setup,       \* control state of azurefin-setup-firmware
    channel,     \* the image tagged `testing`, or None
    raced,       \* history: the channel moved between the last inspection and upgrade
    promotions, reboots

machine == <<deps, booted, cmdline, exposed, staged, published>>
remote == <<channel, raced, promotions>>
vars == <<machine, lock, pc, setup, remote, reboots>>

Current == deps[booted].image
RollbackQueued == booted # 1
Free == Capacity - Cardinality(published) - KernelRoom * Len(deps)

(* A fresh installation: one deployment, nothing provisioned.              *)
Init ==
    /\ \E i \in Image : deps = <<[image |-> i, karg |-> FALSE]>>
    /\ booted = 1 /\ cmdline = FALSE /\ exposed = FALSE
    /\ staged = None /\ published = {}
    /\ lock = "free" /\ pc = [u \in Updaters |-> "idle"] /\ setup = "idle"
    /\ channel = None /\ raced = FALSE
    /\ promotions = 0 /\ reboots = 0

----------------------------------------------------------------------------
(* The updaters: flock --nonblock, the preflight, then bootc upgrade.      *)

Goto(u, label) == pc' = [pc EXCEPT ![u] = label]

(* A step of u that only passes a check.                                   *)
Pass(u, label) == Goto(u, label) /\ UNCHANGED <<machine, lock, setup, remote, reboots>>

(* ujust refuses while uupd.service is active; the timer just starts it.   *)
Begin(u) ==
    /\ pc[u] = "idle"
    /\ u = "ujust" => pc["uupd"] = "idle"
    /\ Pass(u, "lock")

TakeLock_Skipped(u) == pc[u] = "lock" /\ Pass(u, "status")

TakeLock(u) ==
    /\ pc[u] = "lock" /\ lock = "free"
    /\ lock' = u /\ Goto(u, "status")
    /\ UNCHANGED <<machine, setup, remote, reboots>>

CheckStatus_IgnoresStaged(u) == pc[u] = "status" /\ ~RollbackQueued /\ Pass(u, "store")

(* validate_status; the origin of an installed system is the channel.      *)
CheckStatus(u) ==
    /\ pc[u] = "status"
    /\ staged = None /\ ~RollbackQueued
    /\ Pass(u, "store")

CheckStore_NoCmdline(u) ==
    /\ pc[u] = "store"
    /\ Current.bundle \in published /\ Free >= SetupFloor /\ Free >= UpdateFloor
    /\ Pass(u, "inspect")

CheckStore_DiagnosticFloor(u) ==
    /\ pc[u] = "store"
    /\ cmdline /\ Current.bundle \in published /\ Free >= SetupFloor
    /\ Pass(u, "inspect")

(* firmware_preflight.main, then the room for another kernel.              *)
CheckStore(u) ==
    /\ pc[u] = "store"
    /\ cmdline /\ Current.bundle \in published /\ Free >= SetupFloor
    /\ Free >= UpdateFloor
    /\ Pass(u, "inspect")

(* skopeo inspect of the channel, validate_target and validate_version.    *)
InspectIf(u, accepted) ==
    /\ pc[u] = "inspect" /\ channel # None /\ accepted
    /\ raced' = FALSE /\ Goto(u, "upgrade")
    /\ UNCHANGED <<machine, lock, setup, channel, promotions, reboots>>

Inspect_AnyVersion(u) == InspectIf(u, channel.bundle = Current.bundle)
Inspect_AnyContract(u) == InspectIf(u, channel.version >= Current.version)

Inspect(u) ==
    InspectIf(u, channel.bundle = Current.bundle /\ channel.version >= Current.version)

(* bootc upgrade resolves the tag again; a new image is staged with the    *)
(* arguments of the booted entry, the current one changes nothing.  The    *)
(* lock covers only this part of ujust, but all of uupd.                   *)
Upgrade(u) ==
    /\ pc[u] = "upgrade"
    /\ staged' = IF channel = Current THEN staged
                 ELSE [image |-> channel, karg |-> deps[booted].karg]
    /\ lock' = IF u = "ujust" THEN "free" ELSE lock
    /\ Goto(u, "apps")
    /\ UNCHANGED <<deps, booted, cmdline, exposed, published, setup, remote, reboots>>

(* Flatpak and Homebrew follow; any refusal or failure ends the run.       *)
End(u) ==
    /\ pc[u] # "idle"
    /\ Goto(u, "idle")
    /\ lock' = IF lock = u THEN "free" ELSE lock
    /\ UNCHANGED <<machine, setup, remote, reboots>>

UpdaterStep(u) == Begin(u) \/ TakeLock(u) \/ CheckStatus(u) \/ CheckStore(u)
                  \/ Inspect(u) \/ Upgrade(u) \/ End(u)

----------------------------------------------------------------------------
(* azurefin-setup-firmware at the level of FirmwarePromise.                *)

(* flock, validate_host and check_space.                                   *)
SetupStart ==
    /\ setup = "idle" /\ lock = "free"
    /\ staged = None /\ ~RollbackQueued
    /\ Free >= SetupFloor + 1
    /\ setup' = "copy" /\ lock' = "setup"
    /\ UNCHANGED <<machine, pc, remote, reboots>>

Publish ==
    /\ setup = "copy"
    /\ published' = published \cup {Current.bundle}
    /\ setup' = "optin"
    /\ UNCHANGED <<deps, booted, cmdline, exposed, staged, lock, pc, remote, reboots>>

(* ostree admin instutil set-kargs edits the default boot entry.           *)
OptIn ==
    /\ setup = "optin"
    /\ deps' = [deps EXCEPT ![1].karg = TRUE]
    /\ setup' = "done"
    /\ UNCHANGED <<booted, cmdline, exposed, staged, published, lock, pc, remote,
                   reboots>>

SetupEnd ==
    /\ setup # "idle"
    /\ setup' = "idle" /\ lock' = "free"
    /\ UNCHANGED <<machine, pc, remote, reboots>>

SetupStep == SetupStart \/ Publish \/ OptIn \/ SetupEnd

----------------------------------------------------------------------------
Promote_AnyContract(i) ==
    /\ promotions < MaxPromotions /\ i # channel
    /\ channel' = i /\ promotions' = promotions + 1
    /\ raced' = (raced \/ \E u \in Updaters : pc[u] = "upgrade")
    /\ UNCHANGED <<machine, lock, pc, setup, reboots>>

(* promote-testing.sh: only images with main's firmware contract move the  *)
(* channel; their version is not compared with the one they replace.       *)
Promote(i) ==
    /\ promotions < MaxPromotions /\ i # channel
    /\ i.bundle = ChannelContract
    /\ channel' = i /\ promotions' = promotions + 1
    /\ raced' = (raced \/ \E u \in Updaters : pc[u] = "upgrade")
    /\ UNCHANGED <<machine, lock, pc, setup, reboots>>

(* The machine starts the entry chosen in the boot menu; the loader exposes*)
(* firmware for an opted-in entry whose bundle is published.  Every process*)
(* of the last boot is gone, and so is what was staged in /run.            *)
Restart ==
    /\ reboots < MaxReboots /\ reboots' = reboots + 1
    /\ booted' \in 1..Len(deps')
    /\ cmdline' = deps'[booted'].karg
    /\ exposed' = (cmdline' /\ deps'[booted'].image.bundle \in published)
    /\ staged' = None
    /\ lock' = "free" /\ pc' = [u \in Updaters |-> "idle"] /\ setup' = "idle"
    /\ UNCHANGED <<published, remote>>

(* An orderly shutdown makes the staged deployment the default entry; the  *)
(* booted one stays for rollback, and others only if they are pinned.      *)
Finalize ==
    /\ staged # None
    /\ \/ deps' = <<staged, deps[booted]>>
       \/ Len(deps) < MaxEntries /\ deps' = <<staged>> \o deps
    /\ Restart

(* A reboot with nothing staged, or one that does not finalize it.         *)
Reboot == UNCHANGED deps /\ Restart

Next ==
    \/ \E u \in Updaters : UpdaterStep(u)
    \/ SetupStep
    \/ \E i \in Image : Promote(i)
    \/ Finalize \/ Reboot

Spec == Init /\ [][Next]_vars

----------------------------------------------------------------------------
(* What the lock protects: preflight and staging, and the whole setup.     *)
Critical == {"status", "store", "inspect", "upgrade"}

(* Every variable has its type, and firmware-store.lock serializes firmware*)
(* setup and both updaters from the first check to the staged deployment   *)
(* (update.just: "do not provision concurrently with staging").            *)
TypeOK ==
    /\ deps \in Seq(Deployment) /\ Len(deps) \in 1..MaxEntries
    /\ booted \in 1..Len(deps)
    /\ cmdline \in BOOLEAN /\ exposed \in BOOLEAN /\ raced \in BOOLEAN
    /\ staged \in Deployment \cup {None}
    /\ published \subseteq Bundles
    /\ lock \in Updaters \cup {"setup", "free"}
    /\ pc \in [Updaters ->
               {"idle", "lock", "status", "store", "inspect", "upgrade", "apps"}]
    /\ setup \in {"idle", "copy", "optin", "done"}
    /\ lock = "setup" <=> setup # "idle"
    /\ \A u \in Updaters : pc[u] \in Critical => lock = u
    /\ channel \in Image \cup {None}
    /\ promotions \in 0..MaxPromotions /\ reboots \in 0..MaxReboots

Provisioned(d) == d.karg /\ d.image.bundle \in published

(* Nothing that waits to be booted, staged or kept for rollback, lacks the *)
(* opt-in or the bundle of its own image (validate_mount, check_bundle and *)
(* validate_target before bootc upgrade).                                  *)
EveryEntryProvisioned ==
    /\ staged # None => Provisioned(staged)
    /\ Len(deps) > 1 => \A k \in 1..Len(deps) : Provisioned(deps[k])

(* Once a boot has had its firmware, no update, setup, promotion or choice *)
(* of boot entry makes a later boot lose it (UBLUE-UPDATES.md: "Verified   *)
(* versioned bundles remain across OS updates and rollback").              *)
FirmwareSurvives == [][exposed => exposed']_vars

(* Whatever is staged can still be finalized: the room that the preflight  *)
(* found on /boot is not taken by a firmware setup before the shutdown     *)
(* ("Leave space for another kernel/initramfs", and the shared lock).      *)
StagedKernelFits == staged # None => Free >= KernelRoom

(* A pending deployment is never replaced by another update                *)
(* (validate_status: "Finish the pending deployment").                     *)
StagedIsKept == [][staged # None => staged' \in {staged, None}]_vars

(* The version check keeps a stale channel from staging a downgrade as     *)
(* long as the channel does not move between the check and the download.   *)
NoDowngradeUnraced ==
    staged # None /\ ~raced => staged.image.version >= Current.version

(* "An outdated channel must not silently downgrade an installation"       *)
(* (UBLUE-UPDATES.md; validate_version).                                   *)
NoSilentDowngrade == staged # None => staged.image.version >= Current.version

(* The update layer, with its reboots and rollbacks, keeps the promise of  *)
(* the firmware store for the entry that boots by default.                 *)
Firmware == INSTANCE FirmwarePromise WITH
    published <- deps[1].image.bundle \in published, optedIn <- deps[1].karg
KeepsPromise == Firmware!Spec
============================================================================
