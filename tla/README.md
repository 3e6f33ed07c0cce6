# Azurefin in TLA+

Azurefin is a bootc/ostree desktop image with a Surface hardware variant. Its
Surface side keeps firmware that may not be redistributed outside of the image,
in a verified store on `/boot`, loads it from the initramfs, and wraps operating
system updates, channel promotion and ISO publication in checks that protect that
arrangement. These modules model that logic. Line references are to the
repository (`src/` below is its root).

## Components

| component | source | state | operations | module |
|---|---|---|---|---|
| persistent firmware store and setup | `surface/setup_firmware_store.py`, `firmware_bundle.py`, `firmware_preflight.py`, `firmware_store_probe.py` | `/boot/azurefin/firmware/<bundle>`, `.preparing-*` directories, boot entry argument, `/var/lib/azurefin/firmware-store.lock` | `azurefin-setup-firmware`: lock, validate, check room, provision (copy, verify, fsync, rename), recheck, `set-kargs` | `FirmwareStore` |
| initramfs loader | `surface/dracut/91azurefin-firmware` | copy in `/run`, firmware class path, failure marker | `pre-udev.sh` runs `load-firmware.sh` under a timeout | `FirmwareStore` |
| OS updates | `surface/system_update_preflight.py`, `surface/build/uupd`, `17-uupd.sh` | staged deployment, boot entries, the same lock | `ujust update`, `uupd.service`: lock, preflight, `bootc upgrade`, applications | `SystemUpdate` |
| testing channel | `scripts/promote-testing.sh`, `scripts/check-update-contract.py`, `surface/update-contract.json` | the `testing` tag | promotion | `SystemUpdate` |
| CPU parking | `custom/usr/src/cpu-parking/cpu_parking.c` | `parked_mask`, delayed work, `enabled` | tick, parameter write, load, unload | `CpuParking` |
| ISO publication | `release-iso.yml`, `publish-sourceforge.yml`, `surface/assemble_release_iso.py`, `surface/finalize_iso_release.py` | release assets and notes, SourceForge directory | compose and attach, reassemble, upload, compare, finalize | `IsoPublication` |
| private image update, post-install provisioning | `surface/update.py`, `postinstall_firmware.py`, `28-prepare-installer-payload.sh`, `Containerfile.provision` | `setup.lock`, workspaces, `READY` markers, staged image | verify base, prepare, `bootc switch` | `PrivateUpdate` |
| Bluetooth address | `surface/bluetooth_address.py` | storage module, MTD device, address file | load module, read flash, unload, store address | `BluetoothAddress`, `FactoryRecord` |
| console installer preparation | `surface/installer_prepare.py`, `release_workspace.py`, kickstarts | USB workspace, mounted MSI sources, prepared kickstart | choose workspace, find an MSI, prepare, exclude disks | `Installation` |
| installed-system fixes | `surface/installer_fix_fstab.py`, `reset_installer_machine_id.py`, `patch_*.py`, `*_grub.py` | one configuration file each | rewrite | `InstalledFstab`; the others are not modelled |
| ISO composition and audit | `surface/40-*.sh` … `65-*.sh`, `iso_workspace.py`, `compare_installer_trees.py`, `verify_*.py`, `scripts/audit-release.py` | intermediates on disk | sequential build, audit | not modelled |
| image builds and signing | Containerfiles, `build/`, `surface/build/`, `scripts/sign-native-ota.sh`, workflows | none of their own | install, copy, sign | not modelled |
| live session | `surface/live-session` | files of an ephemeral root, `/run/install/repo` | setup at boot, launch of Anaconda | launcher: `Installation` |
| EC reset, diagnostics | `custom/usr/libexec/ec_reboot.py`, `surface/diagnostics` | none kept | a few commands in a row | not modelled |
| desktop customization | `custom/brew`, `custom/flatpaks`, `custom/ujust`, `custom/etc` | none | lists and recipes | not modelled |
| repository automation | `.github`, `Justfile`, `iso` | none | lint, dependency updates | not modelled |

How they interact: firmware setup and both updaters exclude each other with one
lock and share the room on `/boot`. What setup leaves there and in the boot entry is
what the loader reads at the next boot, and what the update preflight demands
before it stages anything. Promotion moves, from another machine, the tag that the
preflight inspects and `bootc upgrade` resolves. ISO publication shares only
releases with the rest; the parking driver shares nothing. The private-image tools
stage deployments too, under a lock of their own. The Bluetooth step runs under the
setup's lock, inside of firmware setup or alone. The console installer runs the same
preparation script as the private-image tools and leaves its payload to Anaconda;
what Anaconda installs is then corrected by the fstab script.

What is hard, and what makes each part correct:

* **Store and loader.** Page cache, journal and medium disagree; the loader mounts
  with `noload` and sees only the last. Anything can be killed or lose power, copies
  are retried, media rot. Correct means: no durable bundle is partial, no boot asks
  for a bundle that the loader cannot find, nothing unverified reaches the kernel,
  failures end in a booted system and leave `/boot` its headroom.
* **Updates.** Two updaters, setup, a moving tag, rollbacks and a staged
  deployment that exists until shutdown. Correct means: every entry one can boot
  still gets its firmware, a pending deployment is not replaced, its kernel fits, and
  a stale channel does not downgrade.
* **Parking.** Work, parameter writes, hotplug and unload interleave. Correct
  means: polling never dies while enabled, cores taken are remembered and given back.
* **Private images.** Hours of downloads and builds in retained workspaces, in two
  processes of which one holds the lock. Correct means: only the whole payload of a
  preparation that succeeded, from the verified base, is staged; the disk holds; the
  lock comes back.
* **Publication.** Jobs stop anywhere and are run again, mirrors lag, the
  maintainer edits the same release. Correct means: a published ISO is always held
  whole somewhere, links lead to it, nothing published is replaced, and the
  temporary parts do go.
* **Installation.** Disks are named by the kernel and come and go while a person
  answers questions; a step that fails is run again from a shell. Correct means: only
  a workspace is written before the person confirms an installation, the disks with
  workspace and MSI are not offered as targets, Anaconda has a whole payload to
  install, and the fstab it wrote is never lost and ends in the right mount order.
* **Bluetooth address.** A flash is parsed as root, through a module that others load
  and unload. Correct means: two copies agree that have no byte in common, the module
  and the device are given back on every path, and a stored address is kept.

## Modules

### FirmwareStore, FirmwarePromise

`mem`, `jnl` and `home` are three views of the store: what processes see, what
journal replay restores, and what a reader without replay sees. Each is a record of
the entry named by the bundle id (`dest`), the `.preparing-*` entries (`tmp`), the
content of every file, and whether the boot entry carries `azurefin.boot_uuid`
(`karg`). A file is absent, partial, written (page cache only), good (on the medium)
or rotten.

`pc[p]` follows one run of `azurefin-setup-firmware`:

| label | code |
|---|---|
| `idle` → `check` | `AcquireLock`: `flock` without waiting |
| `check` | `CheckSpace`, or `Refuse` for every validation that can fail |
| `provision` | `ReuseBundle` verifies what is there; `MakeTemporary` otherwise |
| `copy`, `write`, `fsync` | `copy_verified`, one file at a time |
| `sync`, `rename`, `syncstore` | directory syncs around the `rename` |
| `cleanup` | the `finally` block's `rmtree` |
| `recheck` | `check_bundle` before opting in |
| `optin`, `swap`, `flush` | `ostree admin instutil set-kargs`: flush, replace the entry, flush |

`Commit` and `Checkpoint` are the file system's own steps; blocks reach their home in
any order. `Kill`, `PowerLoss`, `Corrupt` and an interrupting `Shutdown` are faults,
counted by `MaxFaults`. `Boot` starts the loader: `LoaderFind`, `LoaderCopy`,
`LoaderVerify`, `LoaderExpose`, `LoaderExit`, each of which may fail or be cut off by
`LoaderTimeout`.

`FirmwarePromise` is the abstract specification: publish once, then opt in, then
expose per boot. `FirmwareStore` implements it (`ImplementsPromise`), and
`SystemUpdate` keeps it across updates (`KeepsPromise`).

### SystemUpdate

`deps` are the boot entries with the default first; `booted` is the running one.
`pc` follows both updaters through lock, `validate_status`, the store preflight,
`skopeo inspect` (`Inspect`), `bootc upgrade` (`Upgrade`, which resolves the tag a
second time) and the applications after it. `ujust` holds the lock only over the
preflight and staging, `uupd` until it ends. `SetupStart`, `Publish`, `OptIn`,
`SetupEnd` are firmware setup at the granularity of `FirmwarePromise`. `Promote`
moves the channel to any image with main's firmware contract. `Finalize` and
`Reboot` are the shutdown with and without the staged deployment becoming default,
into any entry of the boot menu. Room is counted in bundles: each published
bundle takes 1, each deployment `KernelRoom`.

### CpuParking

`pc["work"]` is `parking_work_fn`, `pc["exit"]` is `cpu_parking_exit`, `setter` is
`set_enabled`; `todo` is what the current loop over cores still has to visit. The
hotplug call and the change of `parked_mask` after it are separate steps. A sample
of the idle times is abstracted to its outcome. `taken` is a history variable: the
cores this driver took offline and nobody brought back. `Hotplug` and
`RacyUnload` switch on an administrator who uses hotplug, and writes to `enabled`
during the unload.

### IsoPublication

`asset`, `link` and `marker` are the GitHub release, `stored` and `public` the
SourceForge directory and what its download servers show. `iso` is the control
state of `release-iso.yml`, `pub` that of the publisher; a file is identified by
the build it comes from. `body` and `remove` are what `finalize_iso_release.main` read
from the release and writes back or deletes later. Either job may fail at any step
and be dispatched again; `ClearDirectory`, `ClearAssets` and `MarkTested` are the
maintainer's documented actions.

### PrivateUpdate

`pc[p]` follows `azurefin-update` (`room`, `inspect`, `fetch`, then as below) and
`azurefin-postinstall` (`prepare`, `wait`, `stage`); `script[w]` follows
`28-prepare-installer-payload.sh` from its check of the room to its last `echo`. An
image is known by its base: `source[w]` is what the imported OCI directory holds,
`expected[w]` the image id given to the script, `payload[w]` what `container` was
built from. `Fetch` uses the digest that `VerifyBase` resolved; the seed's directory
may hold anything by the time it is imported. `Kill` ends the Python process alone:
the script does not hold the lock and goes on, until it is done or fails writing to
its closed pipe. `Reboot`, `Reclaim` and `MoveTag` are the machine, the user and the
registry.

### Installation, InstalledFstab

A disk is known to the code by its kernel name; `name[d]` says which one it has, or
0 when it is not plugged in. `Plug` gives the lowest free name, as the kernel does,
and a mounted disk keeps its name. `pc` follows the console from
`release_workspace.main` (`scan`, `ask`) through `installer_prepare.main` (`main` to
`chvt`), or the live desktop's launcher (`desktop`, `bound`, `session`), to
`anaconda` and `post`:

| labels | code |
|---|---|
| `scan`, `ask` | `candidates` and the question; `MountWorkspace` mounts by name |
| `main`, `menu`, `msi`, `pick`, `rescan` | `main`, and `usb_msi_files` around the choice of a file |
| `script`, `release` | `prepare`, and the `finally` block that unmounts what it can |
| `write`, `chvt` | the kickstart is created, its text checked and written; `CutKickstart` is the exception in between |
| `failed` | any exit with status 1; `RunAgain` starts over with what is still mounted |

`Offered` are the disks the written kickstart leaves to Anaconda. `swapped`,
`replugged` and `bound` are history variables for the three events the code does not
guard against, so that the properties can say that nothing else leads there.

`InstalledFstab` is the script of `%post`. An fstab is the sequence of what its
entries mount; `Corrected` is `corrected_fstab`, `Refused` its refusals and `fixer` the
control state of `fix`. The copy to the backup and the rewriting in place each take
two steps, creation or truncation and content, and `FixCut` may come between any
two. `Agrees` is the reference: what an fstab has to be after the correction, without
the code's case distinction. The modules ending in `Proofs` are described under Proofs.

### BluetoothAddress, FactoryRecord

`pc` follows `configure` and `detect`; `mode` tells an automatic run from
`--detect-only` and from an address given by hand. `module` is the storage module,
read-only or not, `owned` is what `detect` found before loading it, `held` says that
somebody else has the device open. Others load, unload and use the module and write
the address at any time. `events` remembers what befell the run: others at the module
or the address, a failed `modprobe -r`, a kill. The command that saves the address may
survive a kill of the tool; if it ends after the tool's lock is gone, its write is one
of `WriteByHand`.

`FactoryRecord` is the parser. `reading` says what is read next, `place` and `length`
where, in `area`; `Pread` is `Reader.read` with its bounds and budget, `CopyRead` the
nested bound of `read_record`. Every field that is read from flash is chosen freely
within what the code accepts; what it rejects ends in `CloseDevice`, like a short or
failing read. An RWFS header, a directory slot and the record are one unit of
length each, a sector one or two. `seen` is a history variable: which units were read
for the GPT and for each copy.

## Runs

| run | module, configuration | question | bounds, and why they are enough |
|---|---|---|---|
| `store_safety` | `MCFirmwareStore` | No interleaving of setups, file system, faults, reboots and loader breaks the store, leaves residue without a fault or departs from the promise | 2 setups, 2 inodes, 2 files, 3 faults. Two files are needed for a half-copied bundle, two inodes for a bundle beside a residue, two faults for a failed retry; `Capacity` 6 lets a retry reuse a published bundle, which takes as much room as a first copy |
| `store_tight` | `MCFirmwareStore`, `…Tight` | Residues never let a setup eat into the headroom; every boot gets past the loader | 1 file, 3 faults, `Capacity` 2 and `MinFree` 1: one residue is as much as `/boot` can bear, so a retry beside it has to be refused |
| `update_safety` | `SystemUpdate` | Staging, setup, promotion, rollback and reboots keep firmware, room, pending deployment and version order | 3 versions (older, current, newer), 2 bundles of which one is the channel's, 3 entries for a pinned one, 3 promotions, 4 reboots |
| `update_race` | `SystemUpdate`, `…Race` | *Violated:* the tag moves between the inspection and the download | smallest instance |
| `parking` | `CpuParking` | Polling, bookkeeping, budget and unload under hotplug and refusals | 3 cores with one to be left online, 1 refused call |
| `parking_busy` | `CpuParking`, `…Busy` | *Violated:* a stale bit blocks unparking for good | 2 cores, no refusals |
| `parking_unload` | `CpuParking`, `…Unload` | *Violated:* work scheduled during the unload parks a core | 2 cores, no hotplug |
| `private_update` | `PrivateUpdate` | Failures, a moving tag, a changed seed, kills and reboots stage nothing unverified, fill no disk and keep no lock | 2 processes, 2 workspaces (a retained one beside a new one), 3 images (signed, moved to, seed), 1 kill; room for one update and a half |
| `installation` | `MCInstallation` | Disks under other names, failures and reruns neither write, erase nor lose the wrong disk; the fstab is corrected or left whole | 3 disks of which 2 are labelled as workspace (a duplicate, and one for the MSI), 2 of them plugged in again; every fstab of up to 4 entries (root, home, `/var` and one more) |
| `bluetooth` | `MCBluetoothAddress` | Any flash content, failures, a kill and other users of the module | flash of 12 or 16 units, which two copies beside the tables just fill; a budget that a flash of large sectors with a large table exceeds; 2 addresses |
| `publication` | `IsoPublication` | Failures and reruns at every step lose and replace nothing, and finalization completes | 2 parts, 2 builds (so that an asset set could mix them), 2 faults |
| `publication_marker` | `IsoPublication`, `…Marker` | *Violated:* the notes are written back from an early read | no faults |

Symmetry is used in `store_safety` (files, inodes, setups) and `bluetooth`
(addresses), neither of which checks liveness. `installation` uses a view: in `post`
only the fstab changes, and the invariants about disks speak of earlier states. `parking_unload` lets TLC stop without a next step, since the module may stay
unloaded with nobody left to load it.

### Disagreements the runs show

* `NoSilentDowngrade` — the preflight inspects the tag once and `bootc upgrade`
  resolves it again; a promotion to an older image with the same contract in
  between is staged. `UBLUE-UPDATES.md:69` rules a silent downgrade out.
  `NoDowngradeUnraced` shows that this race is the only way to one.
* `BusyUnparks` — `unpark_cpu` returns early for a core hotplug has already brought
  online and leaves its bit set; every later busy tick looks at that lowest bit and
  unparks nothing else.
* `UnloadedAllOnline` — `enabled` switched on between `cancel_delayed_work_sync` and
  the end of `unpark_all` schedules work that parks a core which the unload has
  passed, although the exit message says all cores are online.
* `MarkerIsKept` — finalization writes the notes it read before its downloads; a
  prebuilt marker added meanwhile is lost, where `RELEASING.md:258` says markers
  are preserved.

Other windows are open in the code and not ruled out by any text of the repository.
The model reaches each of them, but the property named here excuses it (by the history
variable in parentheses): it does not say that the window is harmless, it says that
nothing else leads to the same end. The hazards of these windows in `PROJECT.json`
therefore carry a note instead of a property, except where the property covers the
rest of the hazard:

* `OverlapOnlyByKill` (kills) — `setup.lock` belongs to the Python process and the preparation
  it started does not inherit it; only when that process alone is killed may a second
  preparation start beside the first.
* `MediaRespected` (`swapped`, `replugged`, `bound`) — a disk that is swapped while
  `release_workspace.main` waits for an answer is mounted read-write under the name of
  the workspace; an MSI disk that is plugged in again after the kickstart was written
  returns under a name that is not excluded, although the kickstart excludes the name
  it had (`RELEASING.md:399`); a launcher that stops between bind mount and remount
  leaves the medium writable for the next launch. What the property does cover is a
  busy source that stays mounted, a preparation that fails and is run again, and disks
  that come and go at any other moment.
* `FstabSafe` (`cut`) — a cut inside `write_text` leaves an empty fstab, which a rerun reports as
  already correct; the original is in the backup.
* `AddressKept`, `ModuleAsFound` (`events`) — an address written by hand during a
  detection is overwritten: `configure` looks once, before it detects. A module that
  somebody loads between the test and `modprobe` is unloaded, and one that
  `modprobe -r` could not remove stays. What `AddressKept` does cover is every failure,
  that of the cleanup after a successful read included, and `--detect-only`.

### Fairness

* `FirmwareStore`: setup's steps are weakly fair, since the process and the commands it
  runs end. Of the boot only `LoaderTimeout` and `SwitchRoot` are: the timeout in
  `pre-udev.sh` is what the code relies on, so nothing is assumed of the loader.
* `CpuParking`: the workqueue runs due work, a system call and the module exit get
  on. Parameter writes, hotplug and unloading are never forced.
* `IsoPublication`: a running job gets on unless it fails, mirrors catch up, and the
  maintainer returns to the documented `finalize_only` rerun (strong fairness, as the
  publisher is in between busy or idle). Failures are bounded by `MaxFaults`.
* `PrivateUpdate`: the tools and the scripts are weakly fair, as the commands they run
  end, well or not. Nobody has to start a tool, and kills are bounded.
* `SystemUpdate`, `Installation` and `BluetoothAddress` check safety only: a person, or
  the content of a flash, decides whether they get on.

## Proofs

Every invariant and every action property that a passing run checks, and both
refinements of `FirmwarePromise`, are theorems for all values of the constants, under
the named assumption of the module (third column) and nothing else unless stated.
The runs keep checking them on small instances, where their mutants fail.

| module | theorems: property | assumes |
|---|---|---|
| `FirmwareStoreProofs` | `StoreInvariant`, `TypeCorrect`, `BundleWhole`: `DurableBundleWhole`, `OptInSafe`: `OptInFindsBundle`, `LoaderSafe`: `OnlyVerifiedExposed`, `SuccessSafe`: `SuccessIsDurable`, `PublishedOnce`: `PublishedForGood`, `StoreImplementsPromise` | `ConstAssumption`: files and inodes are finite, and there is a file |
| `FirmwareRoomProofs` | `ResidueExcused`: `ResidueOnlyFromFaults`, `HeadroomSuffices`: `HeadroomKept` | the same; the second also `MinFree <= Capacity`, without which the headroom is missing from the start |
| `SystemUpdateProofs` | `TypeCorrect`, `EntriesProvisioned`: `EveryEntryProvisioned`, `StagedFits`: `StagedKernelFits`, `DowngradeNeedsRace`: `NoDowngradeUnraced`, `PendingIsKept`: `StagedIsKept`, `FirmwareNeverLost`: `FirmwareSurvives`, `UpdatesKeepPromise`: `KeepsPromise` | `UpdateAssumption`: the updaters' floor covers a kernel |
| `CpuParkingProofs` | `TypeCorrect`, `PollingGoesOn`: `PollingNeverStops`, `BudgetKept`: `TakenWithinBudget`; `TakenNotForgotten`: `TakenIsRemembered`, `UnloadLeavesNothing`: `UnloadIsClean` | `ParkingAssumption`: finitely many cores; the last two also `~RacyUnload`: `parking_unload` shows what a write during the unload does |
| `IsoPublicationProofs` | `TypeCorrect`, `IsoNeverLost`: `PublishedIsoIsHeld`, `LinkIsGood`: `LinkLeadsToIso`, `ReleaseNotReplaced`: `NothingReplaced` | `PublicationAssumption`: names and special values differ |
| `PrivateUpdateProofs` | `PrivateInvariant`, `TypeCorrect`, `StagedVerified`: `StagedIsVerified`, `RoomSuffices`: `RoomKept`, `OverlapNeedsKill`: `OverlapOnlyByKill` | `PrivateAssumption`: finitely many workspaces, and the two floors cover what is taken behind them |
| `BluetoothAddressProofs` | `BluetoothInvariant`, `TypeCorrect`, `CopiesAreIndependent`: `CopiesIndependent`, `ModuleLeftAsFound`: `ModuleAsFound`, `AddressIsKept`: `AddressKept` | `FactoryAssumption`: some smallest sector size, any flash made of sectors |
| `InstallationProofs` | `InstallInvariant`, `TypeCorrect`, `MediaAreRespected`: `MediaRespected`, `FstabIsSafe`: `FstabSafe` | `InstallationAssumption`: finitely many disks; `FstabAssumption` |

### The arguments

Hardly any of these properties is inductive. Each module strengthens them to an
invariant of named parts and proves that the initial states have it and that every
action keeps each part.

* **Store.** `StoreInv` adds `LockInv` (only the lock holder is past `idle`, and none
  while the machine is down), `ProcInv` (a process owns its temporary entry; at each
  stage at most the current file is not on the medium; after publication what it
  relies on is published), `MemInv` and `LagInv` (each view lags behind the one
  before and never contradicts it), `OptInInv` (an argument in memory already
  implies a whole bundle at home, which is why `set-kargs` flushes before it
  replaces the entry), and `LoaderInv` (exposure follows a verified copy in a boot
  that asked).
* **Room on `/boot`.** What is stored can only grow by what the lock holder copies:
  `WorkInv` names the one temporary directory that is somebody's, `RoomInv` reserves
  the room `check_space` found until the copy is done, in memory and in the journal, and
  `ResidueInv` charges every other temporary directory to a fault, those included that
  only a power loss would bring back. The lemmas count
  files: adding an inode's files, publishing them under another name, and going back
  to an older view.
* **Updates.** `GateInv` says what an updater still knows behind the preflight although
  promotion and the other updater go on: nothing is pending, the room is still there,
  since whoever takes any needs the lock, and only a promotion outdates the inspected
  image. `SetupInv` says the same of firmware setup; `BootInv` and `PendingInv` relate
  the entries, the store and the staged deployment. Each step, seen from the default
  entry, is one of the promise or a stutter.
* **Parking.** `SampleInv` carries the sampled count from the sample to `remove_cpu`: in
  between the driver itself takes nothing, and hotplug can only give cores back.
  `QuietInv` and `MemoryInv` follow the unload: behind the cancellation nothing queues
  work, and the cores `unpark_all` has still to look at contain all that are not owed
  to a refused call. Without `~RacyUnload` `QuietInv` fails first.
* **Publication.** `UploadInv`, `CompleteInv`, `PublisherInv` and `MirrorInv` say which
  build the assets, the SourceForge directory and its download servers hold at each
  step of both jobs: a complete set is of one build, and the parts are removed only
  when the servers have shown that build's checksum.
* **Private images.** `ToolInv` and `ScriptInv` tie tool, script and workspace together:
  a tool only fetches and prepares a base that was verified or pinned, and a script that
  is past the comparison of ids imported just that.
  `OrphanInv` counts scripts without a tool against kills, and `RoomInv` says how much
  of the room found by either floor is still untouched at each step, which holds
  because the holder of the lock is the only one who takes any.
* **Bluetooth address.** `HeaderInv`, `TableInv`, `CopiesInv`, `StageInv` and `DoneInv`
  say for each stage of the parser which blocks may have been read: the GPT's lie below
  the first usable block, each copy's within its own partition, and the two partitions
  are disjoint. `ModuleInv` and `AddressInv` say who owns module and device, what an
  automatic run has found in the address file, and that a run whose `modprobe -r`
  failed has nothing left to save.
* **Installation.** A mounted disk cannot go, so it keeps its name: `WorkspaceInv` and
  `MsiInv` therefore hold from the mount to Anaconda, and `KickstartInv` carries the
  two names into the list of ignored disks. `NameIsFree` shows that a disk that is
  plugged in finds a free name. For the fstab, `BackupInv` says that the file is
  truncated only beside a whole backup, `CorrectionInv` that it is always the
  original, its correction, or empty after a cut; `CorrectedAgrees` shows, for an
  fstab of any length, that the code's correction is what a reader expects and that
  correcting it again changes nothing. For this `MoveHomePlaces` describes the moved
  entries place by place, and `SameOrder` compares two fstabs by an order-preserving
  bijection of their places.

### Only model-checked

* Liveness, which is beyond the prover: `BootCompletes` (`store_tight`),
  `DisablingRestores` (`parking`), `TransportIsRemoved` (`publication`) and
  `LockIsReleased` (`private_update`).
* The four disagreements: a counterexample needs no proof.

## What is abstracted or left out

* One image and one firmware policy per store run; several bundles meet in
  `SystemUpdate`.
* ext4, `rename`, `ostree set-kargs`, `bootc`, the workqueue, SourceForge and the
  maintainer are external: modelled by what the code relies on. Data reported by
  `fsync` is on the medium; a journal commit alone keeps entries, not unwritten data.
* Extraction of the firmware, parsing of mount tables, of `bootc status` and of
  policies are outcomes: they succeed or refuse.
* `ChannelContract` never changes: a new contract is a new release line
  (`UBLUE-UPDATES.md:109`).
* Kernel room is charged to every deployment, also where two share a kernel.
* Of the parking parameters only `enabled` changes after loading.
* An `rmtree` that fails in the `finally` block of `provision` is not a step of its own:
  a kill at `cleanup` leaves the same files behind.
* `finalize_only` skips the upload and its comparison without a check of its own; that
  it is dispatched only after an upload that was compared (`compared`) is the operator's
  rule (`RELEASING.md:261`), assumed of the environment.
* `BUILD-INFO.txt` shares the fate of the audit log. The content the download
  servers serve for the ISO is not compared by the code and not constrained.
* `PrivateUpdate` charges a workspace for the base and twice for a preparation (storage
  and payload), with sizes the two floors allow (`PrivateAssumption`); the copy that
  `bootc switch` makes, the container build and the Bluetooth address that
  postinstall may write at the end are not modelled. It is not composed with
  `SystemUpdate`: what bootc does with two pending origins is not in this repository.
* `Installation` ends where Anaconda does; the user's choice of a disk, partitioning and
  the deployment are one external step. Names beyond `sdz`, partitions and the search
  for `.msi` files in two directories are abstracted to disks and outcomes. The optional
  Bluetooth address only adds a line to the kickstart.
* `InstalledFstab` sees a power loss as a cut: nothing is said of what unsynced writes
  leave on the medium of the new system, and a `write_text` that is cut off leaves an
  empty file, never one with a part of the text. Options and devices of an
  entry are abstracted to whether some boot entry selects the root. An entry indented
  by blanks, whose `/home` the regular expression of `corrected_fstab` would not
  rewrite, is left out: Anaconda writes none.
* `FactoryRecord` chooses content instead of computing checksums and names. An offset one
  past what a read can take stands for all farther ones. Records of other names are
  skipped, and a second record of the right name is a refusal.

### Not modelled

* Image builds, signing and repository automation: sequences of installations and copies
  in containers and jobs without state that outlives a failure; the scripts that rewrite
  boot menus, Lorax templates and the machine id edit one file of an image under
  construction each.
* ISO composition and audit: one sequential pass over a build directory with external
  tools. The audit and the comparison of installer trees only read.
* EC reset: a few `modprobe` calls of one process; after a refused unload the registry
  module is not loaded again, which nothing else in the repository depends on.
* The workspace selection by UUID of `installer-provision.ks`, an earlier form of
  `release_workspace.py`, and the unit that prepares the live desktop's ephemeral root.
* Desktop customization: lists and static configuration.

## Plan

1. `PrivateUpdate` beside `SystemUpdate`: which of the updaters' checks hold when a
   private image is staged or booted.
2. Proofs: `StagedIsVerified` down to an abstract specification of a private image
   (verify, prepare, stage), and the ISO publication as a refinement of "publish
   once, hold until it is replaced".
