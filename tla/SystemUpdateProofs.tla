------------------------- MODULE SystemUpdateProofs -------------------------
(***************************************************************************)
(* Proofs about SystemUpdate for every number of versions, set of bundles, *)
(* room, floors that respect UpdateAssumption, and bounds.                 *)
(***************************************************************************)
EXTENDS SystemUpdate, FiniteSetTheorems, SequenceTheorems, TLAPS

(* What an updater relies on at each stage behind the preflight.           *)
GateInv ==
    \A u \in Updaters :
        /\ pc[u] \in {"store", "inspect", "upgrade"} => staged = None /\ booted = 1
        /\ pc[u] \in {"inspect", "upgrade"} =>
             cmdline /\ Current.bundle \in published /\ Free >= UpdateFloor
        /\ pc[u] = "upgrade" =>
             /\ channel # None /\ channel.bundle = Current.bundle
             /\ ~raced => channel.version >= Current.version

(* What firmware setup relies on: it runs on the default entry, with       *)
(* nothing pending.                                                        *)
SetupInv ==
    /\ setup # "idle" => staged = None /\ booted = 1
    /\ setup \in {"optin", "done"} => Current.bundle \in published

(* The command line of this boot was that of an entry with the argument,   *)
(* and firmware was exposed for a bundle that is still in the store.       *)
BootInv ==
    /\ cmdline => deps[booted].karg
    /\ exposed => cmdline /\ Current.bundle \in published

(* The default entry is the booted one, and provisioned, while a           *)
(* deployment is pending; every promoted image has main's contract.        *)
PendingInv ==
    /\ staged # None => booted = 1 /\ Provisioned(deps[1])
    /\ channel # None => channel.bundle = ChannelContract
    /\ IsFiniteSet(published)

UpdateInv ==
    /\ TypeOK /\ GateInv /\ SetupInv /\ BootInv /\ PendingInv
    /\ EveryEntryProvisioned /\ StagedKernelFits /\ NoDowngradeUnraced

----------------------------------------------------------------------------
(* The empty sequence is neither a deployment nor an image.                *)
LEMMA NoneIsNothing == None \notin Deployment /\ None \notin Image
<1>1. ASSUME None \in Deployment PROVE FALSE
  <2>1. DOMAIN None = {"image", "karg"}
    BY <1>1 DEF Deployment
  <2>2. DOMAIN None = {}
    BY DEF None
  <2>3. QED
    BY <2>1, <2>2
<1>2. ASSUME None \in Image PROVE FALSE
  <2>1. DOMAIN None = {"version", "bundle"}
    BY <1>2 DEF Image
  <2>2. DOMAIN None = {}
    BY DEF None
  <2>3. QED
    BY <2>1, <2>2
<1>3. QED
  BY <1>1, <1>2

(* The booted entry is a deployment, and the room on /boot a number.       *)
LEMMA CurrentIsImage ==
    ASSUME TypeOK, IsFiniteSet(published)
    PROVE  /\ \A k \in 1..Len(deps) : deps[k] \in Deployment
           /\ deps[booted] \in Deployment /\ Current \in Image
           /\ Free \in Int
<1>1. \A k \in 1..Len(deps) : deps[k] \in Deployment
  BY ElementOfSeq DEF TypeOK
<1>2. Cardinality(published) \in Nat
  BY FS_CardinalityType
<1>3. QED
  BY <1>1, <1>2, UpdateAssumption DEF TypeOK, Deployment, Current, Free

(* A fresh installation.                                                   *)
LEMMA InitEstablishesUpdateInv == Init => UpdateInv
<1> SUFFICES ASSUME Init PROVE UpdateInv
  OBVIOUS
<1>1. PICK i \in Image : deps = <<[image |-> i, karg |-> FALSE]>>
  BY DEF Init
<1>2. deps \in Seq(Deployment) /\ Len(deps) = 1
  BY <1>1 DEF Deployment
<1>3. TypeOK
  <2>1. 1 \in 1..MaxEntries /\ 0 \in 0..MaxPromotions /\ 0 \in 0..MaxReboots
    BY UpdateAssumption
  <2>2. \A u \in Updaters : pc[u] = "idle"
    BY DEF Init
  <2>3. pc \in [Updaters ->
                 {"idle", "lock", "status", "store", "inspect", "upgrade", "apps"}]
    BY DEF Init
  <2>4. lock \in Updaters \cup {"setup", "free"} /\ (lock = "setup" <=> setup # "idle")
    BY DEF Init
  <2>5. \A u \in Updaters : pc[u] \in Critical => lock = u
    BY <2>2 DEF Critical
  <2>6. cmdline \in BOOLEAN /\ exposed \in BOOLEAN /\ raced \in BOOLEAN
    BY DEF Init
  <2>7. booted \in 1..Len(deps) /\ Len(deps) \in 1..MaxEntries
    BY <1>2, <2>1 DEF Init
  <2>8. staged \in Deployment \cup {None} /\ channel \in Image \cup {None}
        /\ published \subseteq Bundles
    BY DEF Init
  <2>9. promotions \in 0..MaxPromotions /\ reboots \in 0..MaxReboots
        /\ setup \in {"idle", "copy", "optin", "done"}
    BY <2>1 DEF Init
  <2>10. QED
    BY <1>2, <2>3, <2>4, <2>5, <2>6, <2>7, <2>8, <2>9 DEF TypeOK
<1>4. IsFiniteSet(published)
  BY FS_EmptySet DEF Init
<1>5. QED
  BY <1>2, <1>3, <1>4 DEF Init, UpdateInv, GateInv, SetupInv, BootInv, PendingInv,
     EveryEntryProvisioned, StagedKernelFits, NoDowngradeUnraced

(* The clauses about the machine alone survive a step that leaves it alone.*)
LEMMA MachineInvKept ==
    ASSUME UpdateInv, UNCHANGED machine
    PROVE  /\ BootInv' /\ EveryEntryProvisioned' /\ StagedKernelFits'
           /\ (staged # None => booted = 1 /\ Provisioned(deps[1]))'
           /\ IsFiniteSet(published)'
  BY DEF UpdateInv, machine, BootInv, EveryEntryProvisioned, StagedKernelFits,
     PendingInv, Provisioned, Current, Free

----------------------------------------------------------------------------
(* The updaters.                                                           *)

(* Holders of the lock exclude each other: while one updater is between    *)
(* its checks and its upgrade, the other one is not, nor is firmware setup.*)
LEMMA LockExcludes ==
    ASSUME TypeOK, NEW u \in Updaters, pc[u] \in Critical
    PROVE  /\ lock = u /\ setup = "idle"
           /\ \A v \in Updaters \ {u} : pc[v] \notin Critical
  BY DEF TypeOK, Updaters

(* An updater that begins has checked nothing yet.                         *)
LEMMA BeginKeepsUpdateInv ==
    ASSUME UpdateInv, NEW u \in Updaters, Begin(u)
    PROVE  UpdateInv'
<1> USE DEF UpdateInv, Begin, Pass, Goto
<1>1. UNCHANGED machine /\ UNCHANGED <<lock, setup, remote, reboots>>
      /\ pc' = [pc EXCEPT ![u] = "lock"]
  OBVIOUS
<1>2. TypeOK'
  BY <1>1 DEF TypeOK, machine, remote, Critical
<1>3. GateInv'
  BY <1>1 DEF GateInv, TypeOK, machine, remote, Current, Free
<1>4. SetupInv' /\ PendingInv' /\ NoDowngradeUnraced'
  BY <1>1, MachineInvKept DEF SetupInv, PendingInv, NoDowngradeUnraced, machine, remote, Current
<1>5. QED
  BY <1>1, <1>2, <1>3, <1>4, MachineInvKept

(* The lock goes to one updater while firmware setup and the other one are *)
(* outside.                                                                *)
LEMMA TakeLockKeepsUpdateInv ==
    ASSUME UpdateInv, NEW u \in Updaters, TakeLock(u)
    PROVE  UpdateInv'
<1> USE DEF UpdateInv, TakeLock, Goto
<1>1. UNCHANGED machine /\ UNCHANGED <<setup, remote, reboots>> /\ lock = "free" /\ lock' = u
      /\ pc' = [pc EXCEPT ![u] = "status"]
  OBVIOUS
<1>2. TypeOK'
  BY <1>1 DEF TypeOK, machine, remote, Critical, Updaters
<1>3. GateInv'
  BY <1>1 DEF GateInv, TypeOK, machine, remote, Current, Free
<1>4. SetupInv' /\ PendingInv' /\ NoDowngradeUnraced'
  BY <1>1, MachineInvKept DEF SetupInv, PendingInv, NoDowngradeUnraced, machine, remote, Current
<1>5. QED
  BY <1>1, <1>2, <1>3, <1>4, MachineInvKept

(* Past this check nothing is pending and no rollback is queued, and the   *)
(* lock keeps it so.                                                       *)
LEMMA CheckStatusKeepsUpdateInv ==
    ASSUME UpdateInv, NEW u \in Updaters, CheckStatus(u)
    PROVE  UpdateInv'
<1> USE DEF UpdateInv, CheckStatus, Pass, Goto
<1>1. UNCHANGED machine /\ UNCHANGED <<lock, setup, remote, reboots>>
      /\ pc' = [pc EXCEPT ![u] = "store"]
  OBVIOUS
<1>2. pc[u] \in Critical /\ lock = u
  BY DEF TypeOK, Critical
<1>3. TypeOK'
  BY <1>1, <1>2 DEF TypeOK, machine, remote, Critical
<1>4. GateInv'
  BY <1>1 DEF GateInv, TypeOK, machine, remote, Current, Free, RollbackQueued
<1>5. SetupInv' /\ PendingInv' /\ NoDowngradeUnraced'
  BY <1>1, MachineInvKept DEF SetupInv, PendingInv, NoDowngradeUnraced, machine, remote, Current
<1>6. QED
  BY <1>1, <1>3, <1>4, <1>5, MachineInvKept

(* Past this check the booted image is provisioned and another kernel      *)
(* fits.                                                                   *)
LEMMA CheckStoreKeepsUpdateInv ==
    ASSUME UpdateInv, NEW u \in Updaters, CheckStore(u)
    PROVE  UpdateInv'
<1> USE DEF UpdateInv, CheckStore, Pass, Goto
<1>1. UNCHANGED machine /\ UNCHANGED <<lock, setup, remote, reboots>>
      /\ pc' = [pc EXCEPT ![u] = "inspect"]
  OBVIOUS
<1>2. pc[u] \in Critical /\ lock = u
  BY DEF TypeOK, Critical
<1>3. TypeOK'
  BY <1>1, <1>2 DEF TypeOK, machine, remote, Critical
<1>4. GateInv'
  BY <1>1 DEF GateInv, TypeOK, machine, remote, Current, Free, RollbackQueued
<1>5. SetupInv' /\ PendingInv' /\ NoDowngradeUnraced'
  BY <1>1, MachineInvKept DEF SetupInv, PendingInv, NoDowngradeUnraced, machine, remote, Current
<1>6. QED
  BY <1>1, <1>3, <1>4, <1>5, MachineInvKept

(* The other updater is not behind its checks, so that a new inspection    *)
(* says nothing of it.                                                     *)
LEMMA InspectKeepsUpdateInv ==
    ASSUME UpdateInv, NEW u \in Updaters, Inspect(u)
    PROVE  UpdateInv'
<1> USE DEF UpdateInv, Inspect, InspectIf, Goto
<1>1. UNCHANGED machine /\ UNCHANGED <<lock, setup, channel, promotions, reboots>>
      /\ raced' = FALSE /\ pc' = [pc EXCEPT ![u] = "upgrade"]
      /\ channel # None /\ channel.bundle = Current.bundle
      /\ channel.version >= Current.version
  OBVIOUS
<1>2. pc[u] \in Critical /\ lock = u
  BY DEF TypeOK, Critical
<1>3. TypeOK'
  BY <1>1, <1>2 DEF TypeOK, machine, Critical
<1>4. GateInv'
  BY <1>1, <1>2 DEF GateInv, TypeOK, machine, Current, Free, Critical
<1>5. NoDowngradeUnraced'
  BY <1>1 DEF GateInv, NoDowngradeUnraced, machine
<1>6. SetupInv' /\ PendingInv'
  BY <1>1, MachineInvKept DEF SetupInv, PendingInv, machine, Current
<1>7. QED
  BY <1>1, <1>3, <1>4, <1>5, <1>6, MachineInvKept

(* What is staged has the contract of the booted image and its argument,   *)
(* and the room it needs is the floor that the preflight demanded.         *)
LEMMA UpgradeKeepsUpdateInv ==
    ASSUME UpdateInv, NEW u \in Updaters, Upgrade(u)
    PROVE  UpdateInv'
<1> USE DEF UpdateInv, Upgrade, Goto
<1>1. UNCHANGED <<deps, booted, cmdline, exposed, published, setup, channel, raced,
                  promotions, reboots>>
      /\ staged' \in {staged, [image |-> channel, karg |-> deps[booted].karg]}
      /\ lock' \in {lock, "free"} /\ pc' = [pc EXCEPT ![u] = "apps"]
  BY DEF remote
<1>2. staged = None /\ booted = 1 /\ deps[1].karg /\ Current.bundle \in published
      /\ Free >= UpdateFloor /\ channel # None /\ channel.bundle = Current.bundle
      /\ (~raced => channel.version >= Current.version)
  BY DEF GateInv, BootInv
<1>3. pc[u] \in Critical /\ lock = u /\ setup = "idle"
      /\ \A v \in Updaters \ {u} : pc[v] \notin Critical
  BY LockExcludes DEF Critical
<1>4. deps[booted] \in Deployment /\ Free \in Int
  BY CurrentIsImage DEF PendingInv
<1>5. deps[booted].karg \in BOOLEAN /\ channel \in Image
  BY <1>2, <1>4 DEF TypeOK, Deployment
<1>6. staged' \in Deployment \cup {None}
  BY <1>1, <1>2, <1>5 DEF Deployment
<1>7. TypeOK'
  BY <1>1, <1>3, <1>6 DEF TypeOK, Critical
<1>8. \A v \in Updaters : pc'[v] \notin Critical
  BY <1>1, <1>3 DEF TypeOK, Critical
<1>9. GateInv' /\ SetupInv'
  BY <1>1, <1>3, <1>8 DEF GateInv, SetupInv, Critical
<1>10. (staged # None => Provisioned(staged))'
  BY <1>1, <1>2 DEF Provisioned
<1>11. BootInv' /\ PendingInv' /\ EveryEntryProvisioned'
  BY <1>1, <1>2, <1>10 DEF BootInv, PendingInv, EveryEntryProvisioned, Provisioned, Current
<1>12. StagedKernelFits' /\ NoDowngradeUnraced'
  BY <1>1, <1>2, <1>4, UpdateAssumption
     DEF StagedKernelFits, NoDowngradeUnraced, Free, Current
<1>13. QED
  BY <1>7, <1>9, <1>11, <1>12

(* An updater that ends leaves the machine as it is.                       *)
LEMMA EndKeepsUpdateInv ==
    ASSUME UpdateInv, NEW u \in Updaters, End(u)
    PROVE  UpdateInv'
<1> USE DEF UpdateInv, End, Goto
<1>1. UNCHANGED machine /\ UNCHANGED <<setup, remote, reboots>>
      /\ lock' = (IF lock = u THEN "free" ELSE lock) /\ pc' = [pc EXCEPT ![u] = "idle"]
  OBVIOUS
<1>2. TypeOK'
  BY <1>1 DEF TypeOK, machine, remote, Critical, Updaters
<1>3. GateInv'
  BY <1>1 DEF GateInv, TypeOK, machine, remote, Current, Free
<1>4. SetupInv' /\ PendingInv' /\ NoDowngradeUnraced'
  BY <1>1, MachineInvKept DEF SetupInv, PendingInv, NoDowngradeUnraced, machine, remote, Current
<1>5. QED
  BY <1>1, <1>2, <1>3, <1>4, MachineInvKept

----------------------------------------------------------------------------
(* Firmware setup.                                                         *)

(* While it runs no updater is behind its checks.                          *)
LEMMA SetupExcludes ==
    ASSUME TypeOK, setup # "idle" \/ lock = "free"
    PROVE  \A u \in Updaters : pc[u] \notin Critical
  BY DEF TypeOK, Updaters

(* Firmware setup starts on the default entry with nothing pending, and    *)
(* with room for a bundle above its floor.                                 *)
LEMMA SetupStartKeepsUpdateInv ==
    ASSUME UpdateInv, SetupStart
    PROVE  UpdateInv'
<1> USE DEF UpdateInv, SetupStart
<1>1. UNCHANGED machine /\ UNCHANGED <<pc, remote, reboots>>
      /\ setup' = "copy" /\ lock' = "setup" /\ staged = None /\ booted = 1
  BY DEF RollbackQueued
<1>2. \A u \in Updaters : pc[u] \notin Critical
  BY SetupExcludes
<1>3. TypeOK'
  BY <1>1, <1>2 DEF TypeOK, machine, remote
<1>4. GateInv' /\ SetupInv'
  BY <1>1, <1>2 DEF GateInv, SetupInv, Critical, machine
<1>5. PendingInv' /\ NoDowngradeUnraced'
  BY <1>1, MachineInvKept DEF PendingInv, NoDowngradeUnraced, machine, remote
<1>6. QED
  BY <1>1, <1>3, <1>4, <1>5, MachineInvKept

(* A bundle is published while nothing is pending, so that it takes no     *)
(* pending kernel's room.                                                  *)
LEMMA PublishKeepsUpdateInv ==
    ASSUME UpdateInv, Publish
    PROVE  UpdateInv'
<1> USE DEF UpdateInv, Publish
<1>1. UNCHANGED <<deps, booted, cmdline, exposed, staged, lock, pc, channel, raced,
                  promotions, reboots>>
      /\ published' = published \cup {Current.bundle} /\ setup' = "optin"
      /\ staged = None /\ booted = 1 /\ lock = "setup"
  BY DEF remote, SetupInv, TypeOK
<1>2. \A u \in Updaters : pc[u] \notin Critical
  BY SetupExcludes
<1>3. Current \in Image
  BY CurrentIsImage DEF PendingInv
<1>4. published' \subseteq Bundles /\ IsFiniteSet(published')
  <2>1. Current.bundle \in Bundles
    BY <1>3 DEF Image
  <2>2. IsFiniteSet(published \cup {Current.bundle})
    BY FS_AddElement DEF PendingInv
  <2>3. QED
    BY <1>1, <2>1, <2>2 DEF TypeOK
<1>5. TypeOK'
  BY <1>1, <1>2, <1>4 DEF TypeOK
<1>6. GateInv' /\ SetupInv'
  BY <1>1, <1>2 DEF GateInv, SetupInv, Critical, Current
<1>7. BootInv' /\ PendingInv' /\ EveryEntryProvisioned'
  BY <1>1, <1>4 DEF BootInv, PendingInv, EveryEntryProvisioned, Provisioned, Current
<1>8. StagedKernelFits' /\ NoDowngradeUnraced'
  BY <1>1 DEF StagedKernelFits, NoDowngradeUnraced
<1>9. QED
  BY <1>5, <1>6, <1>7, <1>8

(* The argument goes to the default entry, which is the booted one, whose  *)
(* bundle is published.                                                    *)
LEMMA OptInKeepsUpdateInv ==
    ASSUME UpdateInv, OptIn
    PROVE  UpdateInv'
<1> USE DEF UpdateInv, OptIn
<1>1. UNCHANGED <<booted, cmdline, exposed, staged, published, lock, pc, channel, raced,
                  promotions, reboots>>
      /\ deps' = [deps EXCEPT ![1].karg = TRUE] /\ setup' = "done"
      /\ staged = None /\ booted = 1 /\ lock = "setup" /\ Current.bundle \in published
  BY DEF remote, SetupInv, TypeOK
<1>2. \A u \in Updaters : pc[u] \notin Critical
  BY SetupExcludes
<1>3. \A k \in 1..Len(deps) : deps[k] \in Deployment
  BY CurrentIsImage DEF PendingInv
<1>4. 1 \in 1..Len(deps) /\ [deps[1] EXCEPT !.karg = TRUE] \in Deployment
  BY <1>1, <1>3 DEF TypeOK, Deployment
<1>5. deps' \in Seq(Deployment) /\ Len(deps') = Len(deps)
      /\ \A k \in 1..Len(deps) :
           deps'[k] = IF k = 1 THEN [deps[1] EXCEPT !.karg = TRUE] ELSE deps[k]
  <2>1. deps' = [deps EXCEPT ![1] = [deps[1] EXCEPT !.karg = TRUE]]
    BY <1>1
  <2>2. QED
    BY <1>4, <2>1, ExceptSeq DEF TypeOK
<1>6. \A k \in 1..Len(deps) : deps'[k].image = deps[k].image /\ (deps[k].karg => deps'[k].karg)
  BY <1>3, <1>5 DEF Deployment
<1>7. deps'[1].karg
  BY <1>3, <1>4, <1>5 DEF Deployment
<1>8. TypeOK'
  BY <1>1, <1>2, <1>5 DEF TypeOK
<1>9. GateInv' /\ SetupInv'
  BY <1>1, <1>2, <1>4, <1>6 DEF GateInv, SetupInv, Critical, Current
<1>10. BootInv'
  BY <1>1, <1>4, <1>6 DEF BootInv, Current
<1>11. PendingInv' /\ EveryEntryProvisioned'
  BY <1>1, <1>4, <1>5, <1>6, <1>7
     DEF PendingInv, EveryEntryProvisioned, Provisioned, Current
<1>12. StagedKernelFits' /\ NoDowngradeUnraced'
  BY <1>1 DEF StagedKernelFits, NoDowngradeUnraced
<1>13. QED
  BY <1>8, <1>9, <1>10, <1>11, <1>12

(* Firmware setup gives the lock back.                                     *)
LEMMA SetupEndKeepsUpdateInv ==
    ASSUME UpdateInv, SetupEnd
    PROVE  UpdateInv'
<1> USE DEF UpdateInv, SetupEnd
<1>1. UNCHANGED machine /\ UNCHANGED <<pc, remote, reboots>>
      /\ setup' = "idle" /\ lock' = "free"
  OBVIOUS
<1>2. \A u \in Updaters : pc[u] \notin Critical
  BY SetupExcludes
<1>3. TypeOK'
  BY <1>1, <1>2 DEF TypeOK, machine, remote
<1>4. GateInv' /\ SetupInv'
  BY <1>1, <1>2 DEF GateInv, SetupInv, Critical
<1>5. PendingInv' /\ NoDowngradeUnraced'
  BY <1>1, MachineInvKept DEF PendingInv, NoDowngradeUnraced, machine, remote, Current
<1>6. QED
  BY <1>1, <1>3, <1>4, <1>5, MachineInvKept

----------------------------------------------------------------------------
(* The channel and the reboots.                                            *)

(* A promotion in the middle of an update is remembered as a race; it      *)
(* brings the contract that the replaced image had.                        *)
LEMMA PromoteKeepsUpdateInv ==
    ASSUME UpdateInv, NEW i \in Image, Promote(i)
    PROVE  UpdateInv'
<1> USE DEF UpdateInv, Promote
<1>1. UNCHANGED machine /\ UNCHANGED <<lock, pc, setup, reboots>>
      /\ channel' = i /\ i.bundle = ChannelContract /\ promotions' = promotions + 1
      /\ raced' = (raced \/ \E u \in Updaters : pc[u] = "upgrade")
      /\ promotions < MaxPromotions
  OBVIOUS
<1>2. TypeOK'
  <2>1. promotions' \in 0..MaxPromotions
    BY <1>1, UpdateAssumption DEF TypeOK
  <2>2. raced' \in BOOLEAN
    BY <1>1
  <2>3. QED
    BY <1>1, <2>1, <2>2 DEF TypeOK, machine
<1>3. i # None
  BY NoneIsNothing
<1>4. GateInv'
  <2>1. ASSUME NEW u \in Updaters, pc[u] = "upgrade"
        PROVE  raced' /\ channel'.bundle = Current'.bundle
    BY <1>1, <2>1 DEF GateInv, PendingInv, machine, Current
  <2>2. QED
    BY <1>1, <1>3, <2>1 DEF GateInv, machine, Current, Free
<1>5. SetupInv' /\ PendingInv'
  BY <1>1, MachineInvKept DEF SetupInv, PendingInv, machine, Current
<1>6. NoDowngradeUnraced'
  BY <1>1 DEF NoDowngradeUnraced, machine, Current
<1>7. QED
  BY <1>1, <1>2, <1>4, <1>5, <1>6, MachineInvKept

(* A boot of any list of entries that may be rolled back to safely.        *)
LEMMA RestartKeepsUpdateInv ==
    ASSUME UpdateInv, Restart,
           deps' \in Seq(Deployment), Len(deps') \in 1..MaxEntries,
           Len(deps') > 1 => \A k \in 1..Len(deps') : Provisioned(deps'[k])
    PROVE  UpdateInv'
<1> USE DEF UpdateInv, Restart
<1>1. booted' \in 1..Len(deps') /\ cmdline' = deps'[booted'].karg
      /\ exposed' = (cmdline' /\ deps'[booted'].image.bundle \in published)
      /\ staged' = None /\ published' = published /\ lock' = "free"
      /\ setup' = "idle" /\ reboots < MaxReboots /\ reboots' = reboots + 1
      /\ UNCHANGED <<channel, raced, promotions>>
  BY DEF remote
<1>2. pc' = [u \in Updaters |-> "idle"]
  OBVIOUS
<1>3. \A u \in Updaters : pc'[u] = "idle"
  BY <1>2
<1>4. deps'[booted'] \in Deployment
  BY <1>1, ElementOfSeq
<1>5. TypeOK'
  <2>1. cmdline' \in BOOLEAN /\ exposed' \in BOOLEAN /\ raced' \in BOOLEAN
    BY <1>1, <1>4 DEF Deployment, TypeOK
  <2>2. reboots' \in 0..MaxReboots /\ promotions' \in 0..MaxPromotions
    BY <1>1, UpdateAssumption DEF TypeOK
  <2>3. pc' \in [Updaters ->
                 {"idle", "lock", "status", "store", "inspect", "upgrade", "apps"}]
    BY <1>2
  <2>4. lock' \in Updaters \cup {"setup", "free"} /\ (lock' = "setup" <=> setup' # "idle")
        /\ setup' \in {"idle", "copy", "optin", "done"}
    BY <1>1
  <2>5. \A u \in Updaters : pc'[u] \in Critical => lock' = u
    BY <1>3 DEF Critical
  <2>6. staged' \in Deployment \cup {None} /\ channel' \in Image \cup {None}
        /\ published' \subseteq Bundles
    BY <1>1 DEF TypeOK
  <2>7. QED
    BY <1>1, <2>1, <2>2, <2>3, <2>4, <2>5, <2>6 DEF TypeOK
<1>6. GateInv' /\ SetupInv'
  BY <1>1, <1>3 DEF GateInv, SetupInv
<1>7. BootInv' /\ PendingInv'
  BY <1>1 DEF BootInv, PendingInv, Current
<1>8. EveryEntryProvisioned' /\ StagedKernelFits' /\ NoDowngradeUnraced'
  BY <1>1 DEF EveryEntryProvisioned, StagedKernelFits, NoDowngradeUnraced, Provisioned
<1>9. QED
  BY <1>5, <1>6, <1>7, <1>8

(* A finalized deployment was provisioned when it was staged, and so is    *)
(* the entry that staged it, and what stays pinned.                        *)
LEMMA FinalizedAreProvisioned ==
    ASSUME UpdateInv, Finalize
    PROVE  /\ deps' \in Seq(Deployment) /\ Len(deps') \in 1..MaxEntries
           /\ \A k \in 1..Len(deps') : Provisioned(deps'[k])
           /\ Provisioned(deps[1]) /\ booted = 1
<1> USE DEF UpdateInv, Finalize
<1>1. staged \in Deployment /\ Provisioned(staged) /\ booted = 1
      /\ deps[1] \in Deployment /\ Provisioned(deps[1])
  BY CurrentIsImage DEF TypeOK, PendingInv, EveryEntryProvisioned
<1>2. \A k \in 1..Len(deps) : Provisioned(deps[k])
  <2>1. Len(deps) > 1 \/ Len(deps) = 1
    BY DEF TypeOK
  <2>2. CASE Len(deps) > 1
    BY <2>2 DEF EveryEntryProvisioned
  <2>3. CASE Len(deps) = 1
    BY <1>1, <2>3
  <2>4. QED
    BY <2>1, <2>2, <2>3
<1>3. CASE deps' = <<staged, deps[booted]>>
  <2>1. deps' \in Seq(Deployment) /\ Len(deps') = 2 /\ deps'[1] = staged
        /\ deps'[2] = deps[1]
    BY <1>1, <1>3
  <2>2. Len(deps') \in 1..MaxEntries
    BY <2>1, UpdateAssumption
  <2>3. \A k \in 1..Len(deps') : Provisioned(deps'[k])
    <3>1. TAKE k \in 1..Len(deps')
    <3>2. k = 1 \/ k = 2
      BY <2>1
    <3>3. QED
      BY <1>1, <2>1, <3>2
  <2>4. QED
    BY <1>1, <2>1, <2>2, <2>3
<1>4. CASE Len(deps) < MaxEntries /\ deps' = <<staged>> \o deps
  <2>1. <<staged>> \in Seq(Deployment) /\ Len(<<staged>>) = 1 /\ <<staged>>[1] = staged
    BY <1>1
  <2>2. deps' \in Seq(Deployment) /\ Len(deps') = 1 + Len(deps)
        /\ \A k \in 1..(1 + Len(deps)) :
             deps'[k] = IF k <= 1 THEN <<staged>>[k] ELSE deps[k - 1]
    BY <1>4, <2>1, ConcatProperties DEF TypeOK
  <2>3. Len(deps') \in 1..MaxEntries
    BY <1>4, <2>2, UpdateAssumption DEF TypeOK
  <2>4. \A k \in 1..Len(deps') : Provisioned(deps'[k])
    <3>1. TAKE k \in 1..Len(deps')
    <3>2. k = 1 \/ (k - 1 \in 1..Len(deps) /\ ~(k <= 1))
      BY <2>2 DEF TypeOK
    <3>3. QED
      BY <1>1, <1>2, <2>1, <2>2, <3>2
  <2>5. QED
    BY <1>1, <2>2, <2>3, <2>4
<1>5. QED
  BY <1>3, <1>4

(* A shutdown that finalizes the pending deployment boots one of the       *)
(* entries, all of them provisioned.                                       *)
LEMMA FinalizeKeepsUpdateInv ==
    ASSUME UpdateInv, Finalize
    PROVE  UpdateInv'
  BY FinalizedAreProvisioned, RestartKeepsUpdateInv DEF Finalize

(* A reboot that finalizes nothing.                                        *)
LEMMA RebootKeepsUpdateInv ==
    ASSUME UpdateInv, Reboot
    PROVE  UpdateInv'
  BY RestartKeepsUpdateInv DEF UpdateInv, Reboot, TypeOK, EveryEntryProvisioned

(* A step that changes nothing.                                            *)
LEMMA StutterKeepsUpdateInv ==
    ASSUME UpdateInv, UNCHANGED vars
    PROVE  UpdateInv'
<1> USE DEF UpdateInv, vars, remote
<1>1. UNCHANGED machine
  OBVIOUS
<1>2. TypeOK' /\ GateInv' /\ SetupInv' /\ NoDowngradeUnraced'
  BY DEF TypeOK, GateInv, SetupInv, NoDowngradeUnraced, machine, Current, Free
<1>3. PendingInv'
  BY <1>1, MachineInvKept DEF PendingInv
<1>4. QED
  BY <1>1, <1>2, <1>3, MachineInvKept

(* Every step of the system keeps the invariant.                           *)
LEMMA NextKeepsUpdateInv == UpdateInv /\ [Next]_vars => UpdateInv'
<1> SUFFICES ASSUME UpdateInv, [Next]_vars PROVE UpdateInv'
  OBVIOUS
<1>1. ASSUME NEW u \in Updaters, UpdaterStep(u) PROVE UpdateInv'
  BY <1>1, BeginKeepsUpdateInv, TakeLockKeepsUpdateInv, CheckStatusKeepsUpdateInv,
     CheckStoreKeepsUpdateInv, InspectKeepsUpdateInv, UpgradeKeepsUpdateInv,
     EndKeepsUpdateInv DEF UpdaterStep
<1>2. CASE SetupStep
  BY <1>2, SetupStartKeepsUpdateInv, PublishKeepsUpdateInv, OptInKeepsUpdateInv,
     SetupEndKeepsUpdateInv DEF SetupStep
<1>3. ASSUME NEW i \in Image, Promote(i) PROVE UpdateInv'
  BY <1>3, PromoteKeepsUpdateInv
<1>4. CASE Finalize \/ Reboot
  BY <1>4, FinalizeKeepsUpdateInv, RebootKeepsUpdateInv
<1>5. CASE UNCHANGED vars
  BY <1>5, StutterKeepsUpdateInv
<1>6. QED
  BY <1>1, <1>2, <1>3, <1>4, <1>5 DEF Next

(* The invariant of the update layer holds in every reachable state.       *)
LEMMA UpdateInvariant == Spec => []UpdateInv
<1>1. Init => UpdateInv
  BY InitEstablishesUpdateInv
<1>2. UpdateInv /\ [Next]_vars => UpdateInv'
  BY NextKeepsUpdateInv
<1>3. QED
  BY <1>1, <1>2, PTL DEF Spec

----------------------------------------------------------------------------
(* The theorems.                                                           *)

(* The variables keep their types, and the lock serializes firmware setup  *)
(* and both updaters from their first check to the staged deployment.      *)
THEOREM TypeCorrect == Spec => []TypeOK
<1>1. UpdateInv => TypeOK
  BY DEF UpdateInv
<1>2. QED
  BY <1>1, UpdateInvariant, PTL

(* Whatever can be booted next has the opt-in and the bundle of its image. *)
THEOREM EntriesProvisioned == Spec => []EveryEntryProvisioned
<1>1. UpdateInv => EveryEntryProvisioned
  BY DEF UpdateInv
<1>2. QED
  BY <1>1, UpdateInvariant, PTL

(* The room that the preflight found is there when the staged deployment   *)
(* is finalized.                                                           *)
THEOREM StagedFits == Spec => []StagedKernelFits
<1>1. UpdateInv => StagedKernelFits
  BY DEF UpdateInv
<1>2. QED
  BY <1>1, UpdateInvariant, PTL

(* Without a promotion between the check and the download nothing older    *)
(* than the booted image is staged.                                        *)
THEOREM DowngradeNeedsRace == Spec => []NoDowngradeUnraced
<1>1. UpdateInv => NoDowngradeUnraced
  BY DEF UpdateInv
<1>2. QED
  BY <1>1, UpdateInvariant, PTL

(* Only the preflighted upgrade stages, and only a restart unstages.       *)
LEMMA StagedStep ==
    ASSUME UpdateInv, [Next]_vars
    PROVE  staged # None => staged' \in {staged, None}
<1>1. ASSUME NEW u \in Updaters, UpdaterStep(u), ~Upgrade(u) PROVE staged' = staged
  BY <1>1 DEF UpdaterStep, Begin, TakeLock, CheckStatus, CheckStore, Inspect, InspectIf,
              End, Pass, machine
<1>2. ASSUME NEW u \in Updaters, Upgrade(u) PROVE staged = None
  BY <1>2 DEF UpdateInv, GateInv, Upgrade
<1>3. CASE SetupStep \/ \E i \in Image : Promote(i)
  BY <1>3 DEF SetupStep, SetupStart, Publish, OptIn, SetupEnd, Promote, machine
<1>4. CASE Finalize \/ Reboot
  BY <1>4 DEF Finalize, Reboot, Restart
<1>5. CASE UNCHANGED vars
  BY <1>5 DEF vars, machine
<1>6. QED
  BY <1>1, <1>2, <1>3, <1>4, <1>5 DEF Next

(* A pending deployment is never replaced by another update.               *)
THEOREM PendingIsKept == Spec => StagedIsKept
<1>1. UpdateInv /\ [Next]_vars => [staged # None => staged' \in {staged, None}]_vars
  BY StagedStep
<1>2. QED
  BY <1>1, UpdateInvariant, PTL DEF Spec, StagedIsKept

(* What a restart finds: a boot with firmware is followed by another one,  *)
(* and only an entry that was provisioned before exposes any.              *)
LEMMA RestartStep ==
    ASSUME UpdateInv, Finalize \/ Reboot
    PROVE  /\ exposed => exposed'
           /\ exposed' => Provisioned(deps[1])
           /\ deps'[1] = deps[1] \/ (Provisioned(deps[1]) /\ Provisioned(deps'[1]))
           /\ published' = published /\ exposed' \in BOOLEAN
<1> DEFINE Bootable == \A k \in 1..Len(deps') : Provisioned(deps'[k])
<1>1. Restart /\ booted' \in 1..Len(deps') /\ published' = published
      /\ cmdline' = deps'[booted'].karg
      /\ exposed' = (cmdline' /\ deps'[booted'].image.bundle \in published)
  BY DEF Finalize, Reboot, Restart
<1>2. exposed => Provisioned(deps[booted])
  BY DEF UpdateInv, BootInv, Provisioned, Current
<1>3. exposed' => Provisioned(deps'[booted'])
  BY <1>1 DEF Provisioned
<1>4. Bootable => exposed'
  BY <1>1 DEF Provisioned
<1>5. exposed' \in BOOLEAN
  BY FinalizeKeepsUpdateInv, RebootKeepsUpdateInv DEF UpdateInv, TypeOK
<1>6. Len(deps) \in 1..MaxEntries /\ booted \in 1..Len(deps)
  BY DEF UpdateInv, TypeOK
<1>7. CASE Finalize
  <2>1. Bootable /\ Provisioned(deps[1]) /\ Len(deps') \in 1..MaxEntries
    BY <1>7, FinalizedAreProvisioned
  <2>2. Provisioned(deps'[1])
    BY <2>1, UpdateAssumption
  <2>3. QED
    BY <1>1, <1>4, <1>5, <2>1, <2>2
<1>8. CASE Reboot /\ Len(deps) > 1
  <2>1. deps' = deps /\ \A k \in 1..Len(deps) : Provisioned(deps[k])
    BY <1>8 DEF Reboot, UpdateInv, EveryEntryProvisioned
  <2>2. QED
    BY <1>1, <1>4, <1>5, <1>6, <2>1
<1>9. CASE Reboot /\ Len(deps) = 1
  <2>1. deps' = deps /\ booted' = booted /\ booted = 1
    BY <1>1, <1>6, <1>9 DEF Reboot
  <2>2. exposed => exposed'
    BY <1>1, <1>2, <2>1 DEF Provisioned
  <2>3. QED
    BY <1>1, <1>3, <1>5, <2>1, <2>2
<1>10. QED
  <2>1. Len(deps) \in Nat /\ Len(deps) # 0
    BY LenProperties DEF UpdateInv, TypeOK
  <2>2. \A n \in Nat : n # 0 => n > 1 \/ n = 1
    OBVIOUS
  <2>3. QED
    BY <1>7, <1>8, <1>9, <2>1, <2>2

(* Between two restarts only firmware setup touches the store and the boot *)
(* entries, and nothing changes what this boot has.                        *)
LEMMA UptimeStep ==
    ASSUME UpdateInv, [Next]_vars, ~Finalize, ~Reboot
    PROVE  /\ exposed' = exposed
           /\ \/ UNCHANGED <<deps, published>>
              \/ Publish \/ OptIn
<1>1. ASSUME NEW u \in Updaters, UpdaterStep(u) PROVE UNCHANGED <<deps, published, exposed>>
  BY <1>1 DEF UpdaterStep, Begin, TakeLock, CheckStatus, CheckStore, Inspect, InspectIf,
              Upgrade, End, Pass, machine
<1>2. CASE SetupStep \/ \E i \in Image : Promote(i)
  BY <1>2 DEF SetupStep, SetupStart, Publish, OptIn, SetupEnd, Promote, machine
<1>3. CASE UNCHANGED vars
  BY <1>3 DEF vars, machine
<1>4. QED
  BY <1>1, <1>2, <1>3 DEF Next

(* Once a boot has had its firmware, every later one has it.               *)
THEOREM FirmwareNeverLost == Spec => FirmwareSurvives
<1>1. UpdateInv /\ [Next]_vars => [exposed => exposed']_vars
  BY RestartStep, UptimeStep
<1>2. QED
  BY <1>1, UpdateInvariant, PTL DEF Spec, FirmwareSurvives

(* Seen from the entry that boots by default, the update layer implements  *)
(* FirmwarePromise.                                                        *)
THEOREM UpdatesKeepPromise == Spec => KeepsPromise
<1>1. Init => Firmware!Init
  BY DEF Init, Firmware!Init
<1>2. UpdateInv /\ [Next]_vars => [Firmware!Next]_(Firmware!vars)
  <2> SUFFICES ASSUME UpdateInv, [Next]_vars
               PROVE  [Firmware!Next]_(Firmware!vars)
    OBVIOUS
  <2> USE DEF Firmware!Next, Firmware!Publish, Firmware!OptIn, Firmware!Expose,
              Firmware!Restart, Firmware!vars
  <2>1. /\ \A k \in 1..Len(deps) : deps[k] \in Deployment
        /\ 1 \in 1..Len(deps) /\ deps[1].karg \in BOOLEAN /\ exposed \in BOOLEAN
    <3>1. \A k \in 1..Len(deps) : deps[k] \in Deployment
      BY CurrentIsImage DEF UpdateInv, PendingInv
    <3>2. 1 \in 1..Len(deps) /\ exposed \in BOOLEAN
      BY DEF UpdateInv, TypeOK
    <3>3. QED
      BY <3>1, <3>2 DEF Deployment
  <2>2. CASE Finalize \/ Reboot
    <3>1. /\ exposed => exposed'
          /\ exposed' => Provisioned(deps[1])
          /\ deps'[1] = deps[1] \/ (Provisioned(deps[1]) /\ Provisioned(deps'[1]))
          /\ published' = published /\ exposed' \in BOOLEAN
      BY <2>2, RestartStep
    <3>2. /\ (deps'[1].image.bundle \in published') = (deps[1].image.bundle \in published)
          /\ deps'[1].karg = deps[1].karg
      BY <2>1, <2>2, <3>1, RebootKeepsUpdateInv, FinalizeKeepsUpdateInv
         DEF Provisioned
    <3>3. QED
      BY <2>1, <3>1, <3>2 DEF Provisioned
  <2>3. CASE UNCHANGED <<deps, published, exposed>>
    BY <2>3
  <2>4. CASE Publish
    <3>1. deps' = deps /\ exposed' = exposed /\ deps[1].image.bundle \in published'
      BY <2>4 DEF Publish, UpdateInv, SetupInv, Current
    <3>2. QED
      BY <3>1
  <2>5. CASE OptIn
    <3>1. deps' = [deps EXCEPT ![1] = [deps[1] EXCEPT !.karg = TRUE]]
          /\ published' = published /\ exposed' = exposed
          /\ deps[1].image.bundle \in published
      BY <2>5 DEF OptIn, UpdateInv, SetupInv, Current
    <3>2. deps'[1] = [deps[1] EXCEPT !.karg = TRUE]
      <4>1. deps \in Seq(Deployment) /\ [deps[1] EXCEPT !.karg = TRUE] \in Deployment
        BY <2>1 DEF UpdateInv, TypeOK, Deployment
      <4>2. DOMAIN deps = 1..Len(deps)
        BY <4>1, LenProperties
      <4>3. QED
        BY <2>1, <3>1, <4>2
    <3>3. deps'[1].karg = TRUE /\ deps'[1].image = deps[1].image
      BY <2>1, <3>2 DEF Deployment
    <3>4. QED
      BY <2>1, <3>1, <3>3
  <2>6. QED
    BY <2>2, <2>3, <2>4, <2>5, UptimeStep
<1>3. QED
  BY <1>1, <1>2, UpdateInvariant, PTL DEF Spec, KeepsPromise, Firmware!Spec
============================================================================
