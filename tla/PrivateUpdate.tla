--------------------------- MODULE PrivateUpdate ---------------------------
(***************************************************************************)
(* Private images with firmware, built on the machine itself:              *)
(* azurefin-update (update.py) from a signed release base and              *)
(* azurefin-postinstall (postinstall_firmware.py) from the installer's     *)
(* seed.  Both take setup.lock, start 28-prepare-installer-payload.sh in a *)
(* workspace of its own, and give its payload to `bootc switch`.           *)
(*                                                                         *)
(* An image is known by its base.  A workspace stands for the directories  *)
(* of one run; room is counted in the unit of the constants below.         *)
(***************************************************************************)
EXTENDS Naturals, FiniteSets

CONSTANTS
    Procs,         \* azurefin-update and azurefin-postinstall processes
    Spaces,        \* workspaces below /var/lib/azurefin/provisioning
    Images,        \* base images
    Signed,        \* those cosign accepts for the requested release
    SeedImage,     \* the image pinned by the installer seed's base-image-id
    Free, None,    \* the lock is free; no workspace, no image
    Capacity,      \* room below /var/lib
    UpdateFloor,   \* room update.py demands (60 GiB)
    PrepareFloor,  \* room 28-prepare-installer-payload.sh demands (30 GiB)
    BaseSize,      \* a fetched base with its support files
    PrepareSize,   \* the storage of one preparation, and again its payload
    MaxKills       \* bound on Python processes that are killed alone

ASSUME PrivateAssumption ==
    /\ Signed \subseteq Images /\ SeedImage \in Images
    /\ IsFiniteSet(Spaces)
    /\ Free \notin Procs /\ None \notin Spaces \cup Images
    /\ {Capacity, UpdateFloor, PrepareFloor, BaseSize, PrepareSize, MaxKills} \subseteq Nat
    /\ 2 * PrepareSize <= PrepareFloor /\ BaseSize + PrepareFloor <= UpdateFloor

VARIABLES
    lock,        \* holder of setup.lock
    pc, kind,    \* each process: control state, and which of the two tools
    base,        \* the base image each has verified, or pinned by the seed
    space,       \* the workspace of each process
    script,      \* the preparation script of each workspace: control state
    source,      \* the image in the OCI directory it imports
    expected,    \* the image id it was given
    payload,     \* `container`: the base of the image in it, or None
    ready,       \* READY names the container
    used,        \* room each workspace takes
    tag,         \* the image the release tag names in the registry
    staged, booted,  \* workspaces whose payload bootc staged, or runs
    kills

procs == <<lock, pc, kind, base, space>>
scripts == <<script, source, expected, payload, ready, used>>
host == <<staged, booted>>
vars == <<procs, scripts, tag, host, kills>>

(* The units of room that are taken, told apart by their workspace.        *)
Blocks == UNION {{w} \X (1..used[w]) : w \in Spaces}
FreeRoom == Capacity - Cardinality(Blocks)

Running == {w \in Spaces : script[w] \in {"check", "import", "compare", "build", "pending",
                                          "renamed", "ready", "announced"}}
Fresh == {w \in Spaces : script[w] = "none"}

Init ==
    /\ lock = Free /\ pc = [p \in Procs |-> "idle"] /\ kind = [p \in Procs |-> None]
    /\ base = [p \in Procs |-> None] /\ space = [p \in Procs |-> None]
    /\ script = [w \in Spaces |-> "none"] /\ source = [w \in Spaces |-> None]
    /\ expected = [w \in Spaces |-> None] /\ payload = [w \in Spaces |-> None]
    /\ ready = [w \in Spaces |-> FALSE] /\ used = [w \in Spaces |-> 0]
    /\ tag \in Images /\ staged = None /\ booted = None /\ kills = 0

----------------------------------------------------------------------------
(* main() of both tools.  Any refusal or failed command ends the process.  *)

Goto(p, label) == pc' = [pc EXCEPT ![p] = label]

Exit(p) ==
    /\ Goto(p, "idle")
    /\ lock' = IF lock = p THEN Free ELSE lock
    /\ kind' = [kind EXCEPT ![p] = None]
    /\ base' = [base EXCEPT ![p] = None] /\ space' = [space EXCEPT ![p] = None]

Begin_Unlocked(p, k) ==
    /\ pc[p] = "idle"
    /\ kind' = [kind EXCEPT ![p] = k] /\ UNCHANGED lock
    /\ Goto(p, IF k = "update" THEN "room" ELSE "prepare")
    /\ base' = [base EXCEPT ![p] = IF k = "update" THEN None ELSE SeedImage]
    /\ UNCHANGED <<space, scripts, tag, host, kills>>

(* flock(LOCK_EX | LOCK_NB) on setup.lock; postinstall goes straight on to *)
(* its preparation with the image id of the seed.                          *)
Begin(p, k) ==
    /\ pc[p] = "idle" /\ lock = Free
    /\ lock' = p /\ kind' = [kind EXCEPT ![p] = k]
    /\ Goto(p, IF k = "update" THEN "room" ELSE "prepare")
    /\ base' = [base EXCEPT ![p] = IF k = "update" THEN None ELSE SeedImage]
    /\ UNCHANGED <<space, scripts, tag, host, kills>>

CheckRoom_Skipped(p) ==
    /\ pc[p] = "room"
    /\ Goto(p, "inspect")
    /\ UNCHANGED <<lock, kind, base, space, scripts, tag, host, kills>>

CheckRoom(p) ==
    /\ pc[p] = "room" /\ FreeRoom >= UpdateFloor
    /\ Goto(p, "inspect")
    /\ UNCHANGED <<lock, kind, base, space, scripts, tag, host, kills>>

(* verified_manifest: resolve the tag once, verify that digest.            *)
VerifyBase(p) ==
    /\ pc[p] = "inspect" /\ tag \in Signed
    /\ base' = [base EXCEPT ![p] = tag]
    /\ Goto(p, "fetch")
    /\ UNCHANGED <<lock, kind, space, scripts, tag, host, kills>>

FetchOf(p, image) ==
    /\ pc[p] = "fetch"
    /\ \E w \in Fresh :
         /\ space' = [space EXCEPT ![p] = w]
         /\ script' = [script EXCEPT ![w] = "fetched"]
         /\ used' = [used EXCEPT ![w] = BaseSize]
    /\ base' = [base EXCEPT ![p] = image]
    /\ Goto(p, "prepare")
    /\ UNCHANGED <<lock, kind, source, expected, payload, ready, tag, host, kills>>

Fetch_ByTag(p) == FetchOf(p, tag)

(* A new workspace; copy by the verified digest and compare what came.     *)
Fetch(p) == FetchOf(p, base[p])

(* prepare(): start the script.  What is in the OCI directory of the       *)
(* installer seed is whatever the disk has by now.                         *)
Prepare(p) ==
    /\ pc[p] = "prepare"
    /\ \E w \in IF kind[p] = "update" THEN {space[p]} ELSE Fresh :
         /\ space' = [space EXCEPT ![p] = w]
         /\ script' = [script EXCEPT ![w] = "check"]
         /\ expected' = [expected EXCEPT ![w] = base[p]]
         /\ \E i \in IF kind[p] = "update" THEN {base[p]} ELSE Images :
              source' = [source EXCEPT ![w] = i]
    /\ Goto(p, "wait")
    /\ UNCHANGED <<lock, kind, base, payload, ready, used, tag, host, kills>>

Collected(p) ==
    /\ Goto(p, "stage")
    /\ UNCHANGED <<lock, kind, base, space, scripts, tag, host, kills>>

Collect_NoWait(p) ==
    /\ pc[p] = "wait"
    /\ script[space[p]] \in {"announced", "done"} /\ ready[space[p]]
    /\ Collected(p)

(* A payload announced with its READY marker, and exit status 0.           *)
Collect(p) ==
    /\ pc[p] = "wait"
    /\ script[space[p]] = "done" /\ ready[space[p]] /\ payload[space[p]] # None
    /\ Collected(p)

Rejected_LeavesLock(p) ==
    /\ pc[p] = "wait" /\ script[space[p]] = "failed"
    /\ Goto(p, "idle")
    /\ base' = [base EXCEPT ![p] = None] /\ space' = [space EXCEPT ![p] = None]
    /\ UNCHANGED <<lock, kind, scripts, tag, host, kills>>

(* "Firmware preparation failed; the booted deployment was not replaced."  *)
Rejected(p) ==
    /\ pc[p] = "wait" /\ script[space[p]] = "failed"
    /\ Exit(p)
    /\ UNCHANGED <<scripts, tag, host, kills>>

(* bootc switch: postinstall always, update with --stage.                  *)
Stage(p) ==
    /\ pc[p] = "stage"
    /\ staged' = space[p]
    /\ Exit(p)
    /\ UNCHANGED <<scripts, tag, booted, kills>>

(* A failed check or command; update without --stage ends here too.        *)
Stop(p) ==
    /\ pc[p] \in {"room", "inspect", "fetch", "prepare", "stage"}
    /\ Exit(p)
    /\ UNCHANGED <<scripts, tag, host, kills>>

ToolStep(p) == CheckRoom(p) \/ VerifyBase(p) \/ Fetch(p) \/ Prepare(p) \/ Collect(p)
               \/ Rejected(p) \/ Stage(p) \/ Stop(p)

----------------------------------------------------------------------------
(* 28-prepare-installer-payload.sh in workspace w                          *)

Advance(w, from, to) ==
    /\ script[w] = from
    /\ script' = [script EXCEPT ![w] = to]
    /\ UNCHANGED <<procs, source, expected, tag, host, kills>>

Takes(w, size) == used' = [used EXCEPT ![w] = @ + size]

CheckFloor_Skipped(w) == Advance(w, "check", "import") /\ UNCHANGED <<payload, ready, used>>

CheckFloor(w) ==
    /\ FreeRoom >= PrepareFloor
    /\ Advance(w, "check", "import") /\ UNCHANGED <<payload, ready, used>>

Import(w) ==
    /\ Advance(w, "import", "compare") /\ Takes(w, PrepareSize)
    /\ UNCHANGED <<payload, ready>>

CompareId_Skipped(w) == Advance(w, "compare", "build") /\ UNCHANGED <<payload, ready, used>>

(* "Base image ID did not match; refusing to run it."                      *)
CompareId(w) ==
    /\ source[w] = expected[w]
    /\ Advance(w, "compare", "build") /\ UNCHANGED <<payload, ready, used>>

(* podman build and save, to container.pending.                            *)
Build(w) ==
    /\ Advance(w, "build", "pending") /\ Takes(w, PrepareSize)
    /\ UNCHANGED <<payload, ready>>

Rename(w) ==
    /\ Advance(w, "pending", "renamed")
    /\ payload' = [payload EXCEPT ![w] = source[w]] /\ UNCHANGED <<ready, used>>

MarkReady(w) ==
    /\ Advance(w, "renamed", "ready")
    /\ ready' = [ready EXCEPT ![w] = TRUE] /\ UNCHANGED <<payload, used>>

Announce(w) == Advance(w, "ready", "announced") /\ UNCHANGED <<payload, ready, used>>

Done(w) == Advance(w, "announced", "done") /\ UNCHANGED <<payload, ready, used>>

(* set -e: any command may fail, the last echo included, and a script whose*)
(* parent is gone fails when it writes to the pipe.                        *)
ScriptFails(w) ==
    /\ w \in Running
    /\ Advance(w, script[w], "failed") /\ UNCHANGED <<payload, ready, used>>

ScriptStep(w) == CheckFloor(w) \/ Import(w) \/ CompareId(w) \/ Build(w) \/ Rename(w)
                 \/ MarkReady(w) \/ Announce(w) \/ Done(w) \/ ScriptFails(w)

----------------------------------------------------------------------------
(* The machine, its user and the registry: external.                       *)

(* The Python process dies alone.  Its lock goes with it, because the      *)
(* script does not inherit the descriptor; the script goes on.             *)
Kill(p) ==
    /\ pc[p] # "idle" /\ kills < MaxKills
    /\ kills' = kills + 1
    /\ Exit(p)
    /\ UNCHANGED <<scripts, tag, host>>

(* A reboot or power loss; the latter forgets what was staged.             *)
Reboot ==
    /\ booted' \in {booted, IF staged = None THEN booted ELSE staged}
    /\ staged' = None
    /\ script' = [w \in Spaces |-> IF w \in Running THEN "failed" ELSE script[w]]
    /\ lock' = Free /\ pc' = [p \in Procs |-> "idle"] /\ kind' = [p \in Procs |-> None]
    /\ base' = [p \in Procs |-> None] /\ space' = [p \in Procs |-> None]
    /\ UNCHANGED <<source, expected, payload, ready, used, tag, kills>>

(* The user reclaims a workspace that is finished and not deployed.        *)
Reclaim(w) ==
    /\ script[w] # "none" /\ w \notin Running
    /\ w \notin {staged, booted} /\ \A p \in Procs : space[p] # w
    /\ script' = [script EXCEPT ![w] = "none"] /\ used' = [used EXCEPT ![w] = 0]
    /\ source' = [source EXCEPT ![w] = None] /\ expected' = [expected EXCEPT ![w] = None]
    /\ payload' = [payload EXCEPT ![w] = None] /\ ready' = [ready EXCEPT ![w] = FALSE]
    /\ UNCHANGED <<procs, tag, host, kills>>

MoveTag(i) == i # tag /\ tag' = i /\ UNCHANGED <<procs, scripts, host, kills>>

Next ==
    \/ \E p \in Procs, k \in {"update", "postinstall"} : Begin(p, k)
    \/ \E p \in Procs : ToolStep(p) \/ Kill(p)
    \/ \E w \in Spaces : ScriptStep(w) \/ Reclaim(w)
    \/ Reboot
    \/ \E i \in Images : MoveTag(i)

Spec == Init /\ [][Next]_vars

(* Commands end, successfully or not, and so do the tools and the scripts  *)
(* that run them.                                                          *)
FairSpec ==
    /\ Spec
    /\ \A p \in Procs : WF_vars(ToolStep(p))
    /\ \A w \in Spaces : WF_vars(ScriptStep(w))
----------------------------------------------------------------------------
(* Every variable has its type; only the holder of setup.lock works, in a  *)
(* workspace that no other process has.                                    *)
TypeOK ==
    /\ lock \in Procs \cup {Free}
    /\ pc \in [Procs -> {"idle", "room", "inspect", "fetch", "prepare", "wait", "stage"}]
    /\ kind \in [Procs -> {"update", "postinstall", None}]
    /\ base \in [Procs -> Images \cup {None}] /\ space \in [Procs -> Spaces \cup {None}]
    /\ DOMAIN script = Spaces /\ used \in [Spaces -> Nat]
    /\ source \in [Spaces -> Images \cup {None}] /\ expected \in [Spaces -> Images \cup {None}]
    /\ payload \in [Spaces -> Images \cup {None}] /\ ready \in [Spaces -> BOOLEAN]
    /\ tag \in Images /\ {staged, booted} \subseteq Spaces \cup {None} /\ kills \in Nat
    /\ \A p \in Procs : pc[p] # "idle" => lock = p
    /\ \A p, q \in Procs : space[p] = space[q] => p = q \/ space[p] = None

(* What is staged or booted is the whole payload of a preparation that     *)
(* ended well, of the base that was verified or pinned for it, even when   *)
(* the release tag moves or the seed changes meanwhile (verified_manifest: *)
(* "Every later read uses the verified immutable digest"; prepare).        *)
StagedIsVerified ==
    \A w \in {staged, booted} \ {None} :
        /\ script[w] = "done" /\ ready[w]
        /\ payload[w] = expected[w] /\ payload[w] \in Signed \cup {SeedImage}

(* The two floors are enough: with every failed run retained, no run fills *)
(* the disk, unless a killed tool has let two preparations overlap         *)
(* (update.main and the script's df).                                      *)
RoomKept == kills = 0 => FreeRoom >= 0

(* Two preparations overlap only where a tool was killed on its own        *)
(* (prepare waits for the script whatever it has announced).               *)
OverlapOnlyByKill == Cardinality(Running) <= 1 + kills

(* setup.lock is given back, whatever fails in between, so that the next   *)
(* update can run.                                                         *)
LockIsReleased == \A p \in Procs : (lock = p) ~> (lock # p)
============================================================================
