------------------------ MODULE PrivateUpdateProofs ------------------------
(***************************************************************************)
(* Proofs about PrivateUpdate for every set of processes, workspaces and   *)
(* images, every room, floors that respect PrivateAssumption, and any      *)
(* number of killed tools.                                                 *)
(***************************************************************************)
EXTENDS PrivateUpdate, FiniteSetTheorems, TLAPS

Verified == Signed \cup {SeedImage}
Active == {"check", "import", "compare", "build", "pending", "renamed", "ready", "announced"}

(* What each tool has at each of its steps.                                *)
ToolInv ==
    \A p \in Procs :
        /\ pc[p] \in {"room", "inspect", "fetch"} => kind[p] = "update" /\ space[p] = None
        /\ pc[p] \in {"fetch", "prepare"} => base[p] \in Verified
        /\ pc[p] = "prepare" =>
             \/ kind[p] = "postinstall" /\ space[p] = None
             \/ kind[p] = "update" /\ space[p] # None /\ script[space[p]] = "fetched"
        /\ pc[p] = "wait" => space[p] # None /\ script[space[p]] \in Active \cup {"done", "failed"}
        /\ pc[p] = "stage" =>
             space[p] # None /\ script[space[p]] = "done"
        /\ pc[p] = "idle" => space[p] = None

(* What the files of a workspace say of its script.                        *)
ScriptInv ==
    \A w \in Spaces :
        /\ script[w] \in Active \cup {"none", "fetched", "done", "failed"}
        /\ script[w] = "none" => used[w] = 0
        /\ script[w] \in Active \cup {"done"} => expected[w] \in Verified
        /\ script[w] \in {"build", "pending", "renamed", "ready", "announced", "done"} =>
             source[w] = expected[w]
        /\ script[w] \in {"renamed", "ready", "announced", "done"} => payload[w] = expected[w]
        /\ script[w] \in {"ready", "announced", "done"} => ready[w]

(* Only a finished preparation is staged or booted.                        *)
HostInv == \A w \in {staged, booted} \ {None} : script[w] = "done"

(* A script without its tool is one whose tool was killed.                 *)
Orphans == {w \in Running : \A p \in Procs : space[p] # w}
OrphanInv == IsFiniteSet(Orphans) /\ Cardinality(Orphans) <= kills

(* Without orphans the room that a run still takes was there when it was   *)
(* checked, and nobody else has taken it since.                            *)
RoomInv ==
    /\ IsFiniteSet(Blocks)
    /\ kills = 0 =>
        /\ FreeRoom >= 0
        /\ \A p \in Procs : pc[p] \in {"inspect", "fetch"} => FreeRoom >= BaseSize
        /\ \A w \in Spaces :
             /\ script[w] = "import" => FreeRoom >= 2 * PrepareSize
             /\ script[w] \in {"compare", "build"} => FreeRoom >= PrepareSize

PrivateInv == TypeOK /\ ToolInv /\ ScriptInv /\ HostInv /\ OrphanInv /\ RoomInv

----------------------------------------------------------------------------
(* The room that workspaces take.                                          *)

(* A workspace of n units has n blocks.                                    *)
LEMMA WorkspaceBlocks ==
    ASSUME NEW w, NEW n \in Nat
    PROVE  IsFiniteSet({w} \X (1..n)) /\ Cardinality({w} \X (1..n)) = n
<1>1. IsFiniteSet({w}) /\ Cardinality({w}) = 1
  BY FS_Singleton
<1>2. IsFiniteSet(1..n) /\ Cardinality(1..n) = n
  BY FS_Interval
<1>3. IsFiniteSet({w} \X (1..n))
      /\ Cardinality({w} \X (1..n)) = Cardinality({w}) * Cardinality(1..n)
  BY <1>1, <1>2, FS_Product
<1>4. QED
  BY <1>1, <1>2, <1>3

(* Two sets without a common element add up.                               *)
LEMMA DisjointUnion ==
    ASSUME NEW S, IsFiniteSet(S), NEW T, IsFiniteSet(T), S \cap T = {}
    PROVE  IsFiniteSet(S \cup T) /\ Cardinality(S \cup T) = Cardinality(S) + Cardinality(T)
<1>1. /\ IsFiniteSet(S \cup T)
      /\ Cardinality(S \cup T) = Cardinality(S) + Cardinality(T) - Cardinality(S \cap T)
  BY FS_Union
<1>2. Cardinality(S \cap T) = 0
  BY FS_EmptySet
<1>3. Cardinality(S) \in Nat /\ Cardinality(T) \in Nat
  BY FS_CardinalityType
<1>4. \A a, b \in Nat : a + b - 0 = a + b
  OBVIOUS
<1>5. QED
  BY <1>1, <1>2, <1>3, <1>4

(* When one workspace changes its size, the room that is taken changes by  *)
(* the difference.                                                         *)
LEMMA BlocksChange ==
    ASSUME used \in [Spaces -> Nat], IsFiniteSet(Blocks),
           NEW w \in Spaces, NEW n \in Nat, used' = [used EXCEPT ![w] = n]
    PROVE  /\ IsFiniteSet(Blocks') /\ Cardinality(Blocks) \in Nat
           /\ Cardinality(Blocks') = Cardinality(Blocks) - used[w] + n
<1> DEFINE Rest == UNION {{v} \X (1..used[v]) : v \in Spaces \ {w}}
           Old == {w} \X (1..used[w])
           New == {w} \X (1..n)
<1>1. Blocks = Rest \cup Old
  BY DEF Blocks
<1>2. Blocks' = Rest \cup New
  <2>1. used'[w] = n /\ \A v \in Spaces \ {w} : used'[v] = used[v]
    OBVIOUS
  <2>2. Blocks' = UNION {{v} \X (1..used'[v]) : v \in Spaces}
    BY DEF Blocks
  <2>3. QED
    BY <2>1, <2>2
<1>3. Rest \cap Old = {} /\ Rest \cap New = {}
  OBVIOUS
<1>4. IsFiniteSet(Rest)
  BY <1>1, FS_Subset
<1>5. IsFiniteSet(Old) /\ Cardinality(Old) = used[w] /\ IsFiniteSet(New) /\ Cardinality(New) = n
  BY WorkspaceBlocks
<1> HIDE DEF Rest, Old, New
<1>6. Cardinality(Rest) \in Nat /\ used[w] \in Nat
  BY <1>4, FS_CardinalityType
<1>7. Cardinality(Blocks) = Cardinality(Rest) + used[w]
  BY <1>1, <1>3, <1>4, <1>5, DisjointUnion
<1>8. IsFiniteSet(Blocks') /\ Cardinality(Blocks') = Cardinality(Rest) + n
  BY <1>2, <1>3, <1>4, <1>5, DisjointUnion
<1>9. QED
  BY <1>6, <1>7, <1>8

(* The room that is left is a number, and stays when no workspace grows.   *)
LEMMA FreeRoomType ==
    ASSUME IsFiniteSet(Blocks)
    PROVE  FreeRoom \in Int /\ (used' = used => FreeRoom' = FreeRoom /\ Blocks' = Blocks)
<1>1. Cardinality(Blocks) \in Nat
  BY FS_CardinalityType
<1>2. Capacity \in Nat
  BY PrivateAssumption
<1>3. used' = used => Blocks' = Blocks
  BY DEF Blocks
<1>4. QED
  BY <1>1, <1>2, <1>3 DEF FreeRoom

(* A workspace that has grown leaves that much less.                       *)
LEMMA FreeRoomChange ==
    ASSUME used \in [Spaces -> Nat], IsFiniteSet(Blocks),
           NEW w \in Spaces, NEW n \in Nat, used' = [used EXCEPT ![w] = n]
    PROVE  IsFiniteSet(Blocks') /\ FreeRoom' = FreeRoom + used[w] - n
<1>1. IsFiniteSet(Blocks') /\ Cardinality(Blocks) \in Nat
      /\ Cardinality(Blocks') = Cardinality(Blocks) - used[w] + n /\ used[w] \in Nat
  BY BlocksChange
<1>2. QED
  BY <1>1, PrivateAssumption DEF FreeRoom

----------------------------------------------------------------------------
(* Who works where.                                                        *)

(* Fewer orphans are still excused by as many kills.                       *)
LEMMA OrphansShrink ==
    ASSUME OrphanInv, kills \in Nat, Orphans' \subseteq Orphans, kills' = kills
    PROVE  OrphanInv'
<1>1. IsFiniteSet(Orphans') /\ Cardinality(Orphans') <= Cardinality(Orphans)
      /\ Cardinality(Orphans) \in Nat /\ Cardinality(Orphans') \in Nat
  BY FS_Subset, FS_CardinalityType DEF OrphanInv
<1>2. QED
  BY <1>1 DEF OrphanInv

(* While one tool works the others are idle and have no workspace.         *)
LEMMA OthersIdle ==
    ASSUME TypeOK, ToolInv, NEW p \in Procs, pc[p] # "idle" \/ lock = Free
    PROVE  \A q \in Procs \ {p} : pc[q] = "idle" /\ space[q] = None
  BY PrivateAssumption DEF TypeOK, ToolInv

(* Only the holder of the lock works; without kills every script that runs *)
(* is the one the holder waits for.                                        *)
LEMMA HolderWorksAlone ==
    ASSUME TypeOK, ToolInv, OrphanInv
    PROVE  /\ \A p, q \in Procs : pc[p] # "idle" /\ pc[q] # "idle" => p = q
           /\ kills = 0 => \A w \in Running : \E p \in Procs : pc[p] = "wait" /\ space[p] = w
           /\ \A p \in Procs : space[p] \in Running => pc[p] = "wait"
           /\ Running \subseteq Spaces /\ None \notin Running
<1>1. \A p, q \in Procs : pc[p] # "idle" /\ pc[q] # "idle" => p = q
  BY DEF TypeOK
<1>2. None \notin Spaces /\ Running \subseteq Spaces
  BY PrivateAssumption DEF Running
<1>3. ASSUME NEW p \in Procs, space[p] \in Running PROVE pc[p] = "wait"
  <2>1. space[p] # None /\ script[space[p]] \in Active
    BY <1>2, <1>3 DEF Running, Active
  <2>2. QED
    BY <2>1 DEF ToolInv, TypeOK, Active
<1>4. ASSUME kills = 0, NEW w \in Running
      PROVE  \E p \in Procs : pc[p] = "wait" /\ space[p] = w
  <2>1. Orphans = {}
    <3>1. Cardinality(Orphans) = 0
      BY <1>4, FS_CardinalityType DEF OrphanInv
    <3>2. QED
      BY <3>1, FS_EmptySet DEF OrphanInv
  <2>2. PICK p \in Procs : space[p] = w
    BY <2>1 DEF Orphans
  <2>3. QED
    BY <1>3, <2>2
<1>5. QED
  BY <1>1, <1>2, <1>3, <1>4

(* A tool begins with the lock and without a workspace; postinstall has    *)
(* the seed's image.                                                       *)
LEMMA BeginKeepsPrivateInv ==
    ASSUME PrivateInv, NEW p \in Procs, NEW k \in {"update", "postinstall"}, Begin(p, k)
    PROVE  PrivateInv'
<1> USE DEF PrivateInv, Begin, procs, scripts, host, Goto
<1>1. TypeOK'
  BY PrivateAssumption DEF TypeOK
<1>2. ToolInv'
  BY DEF ToolInv, TypeOK, Active, Verified
<1>3. ScriptInv'
  BY DEF ScriptInv, TypeOK, Active
<1>4. HostInv'
  BY DEF HostInv, TypeOK
<1>5. OrphanInv'
  <2>1. Orphans' \subseteq Orphans
    BY DEF Orphans, Running, TypeOK
  <2>2. QED
    BY <2>1, OrphansShrink DEF TypeOK
<1>6. RoomInv'
  BY FreeRoomType DEF RoomInv, TypeOK
<1>7. QED
  BY <1>1, <1>2, <1>3, <1>4, <1>5, <1>6

(* The floor of update.py is room for the base and a preparation.          *)
LEMMA CheckRoomKeepsPrivateInv ==
    ASSUME PrivateInv, NEW p \in Procs, CheckRoom(p)
    PROVE  PrivateInv'
<1> USE DEF PrivateInv, CheckRoom, procs, scripts, host, Goto
<1>1. TypeOK'
  BY DEF TypeOK
<1>2. ToolInv'
  BY DEF ToolInv, TypeOK, Active
<1>3. ScriptInv'
  BY DEF ScriptInv, TypeOK, Active
<1>4. HostInv'
  BY DEF HostInv, TypeOK
<1>5. OrphanInv'
  <2>1. Orphans' \subseteq Orphans
    BY DEF Orphans, Running, TypeOK
  <2>2. QED
    BY <2>1, OrphansShrink DEF TypeOK
<1>6. RoomInv'
  BY PrivateAssumption, FreeRoomType DEF RoomInv, TypeOK
<1>7. QED
  BY <1>1, <1>2, <1>3, <1>4, <1>5, <1>6

(* What the tag names at that moment is verified, and stays what the tool  *)
(* fetches.                                                                *)
LEMMA VerifyBaseKeepsPrivateInv ==
    ASSUME PrivateInv, NEW p \in Procs, VerifyBase(p)
    PROVE  PrivateInv'
<1> USE DEF PrivateInv, VerifyBase, procs, scripts, host, Goto
<1>1. TypeOK'
  BY PrivateAssumption DEF TypeOK
<1>2. ToolInv'
  BY DEF ToolInv, TypeOK, Active, Verified
<1>3. ScriptInv'
  BY DEF ScriptInv, TypeOK, Active
<1>4. HostInv'
  BY DEF HostInv, TypeOK
<1>5. OrphanInv'
  <2>1. Orphans' \subseteq Orphans
    BY DEF Orphans, Running, TypeOK
  <2>2. QED
    BY <2>1, OrphansShrink DEF TypeOK
<1>6. RoomInv'
  BY FreeRoomType DEF RoomInv, TypeOK
<1>7. QED
  BY <1>1, <1>2, <1>3, <1>4, <1>5, <1>6

(* The fetched base takes the room that was checked before, which nobody   *)
(* else has taken since.                                                   *)
LEMMA FetchKeepsPrivateInv ==
    ASSUME PrivateInv, NEW p \in Procs, Fetch(p)
    PROVE  PrivateInv'
<1> USE DEF PrivateInv, Fetch, FetchOf, Goto, host
<1>1. PICK w \in Spaces :
        /\ script[w] = "none" /\ script' = [script EXCEPT ![w] = "fetched"]
        /\ space' = [space EXCEPT ![p] = w] /\ used' = [used EXCEPT ![w] = BaseSize]
  BY DEF Fresh
<1>2. /\ pc[p] = "fetch" /\ pc' = [pc EXCEPT ![p] = "prepare"]
      /\ base' = [base EXCEPT ![p] = base[p]]
      /\ UNCHANGED <<lock, kind, source, expected, payload, ready, tag, staged, booted, kills>>
  OBVIOUS
<1>3. /\ \A q \in Procs \ {p} : pc[q] = "idle" /\ space[q] = None
      /\ kind[p] = "update" /\ space[p] = None /\ base[p] \in Verified
  BY <1>2, OthersIdle DEF ToolInv
<1>4. w # None /\ {w, None} \subseteq Spaces \cup {None} /\ BaseSize \in Nat
  BY PrivateAssumption
<1>5. TypeOK'
  <2>1. \A q, r \in Procs : space'[q] = space'[r] => q = r \/ space'[q] = None
    BY <1>1, <1>3, <1>4 DEF TypeOK
  <2>2. used' \in [Spaces -> Nat] /\ DOMAIN script' = Spaces
        /\ space' \in [Procs -> Spaces \cup {None}]
    BY <1>1, <1>4 DEF TypeOK
  <2>3. QED
    BY <1>2, <2>1, <2>2 DEF TypeOK
<1>6. ToolInv'
  BY <1>1, <1>2, <1>3, <1>4 DEF ToolInv, TypeOK, Active
<1>7. ScriptInv'
  BY <1>1, <1>2 DEF ScriptInv, TypeOK, Active
<1>8. HostInv'
  BY <1>1, <1>2 DEF HostInv, TypeOK
<1>9. Running' \subseteq Running
  BY <1>1 DEF Running, TypeOK
<1>10. OrphanInv'
  <2>1. Orphans' \subseteq Orphans
    <3>1. SUFFICES ASSUME NEW v \in Running', \A q \in Procs : space'[q] # v
                   PROVE  v \in Running /\ \A q \in Procs : space[q] # v
      BY DEF Orphans
    <3>2. v \in Running /\ v # None
      BY <1>9, HolderWorksAlone
    <3>3. QED
      BY <1>3, <3>2
  <2>2. QED
    BY <1>2, <2>1, OrphansShrink DEF TypeOK
<1>11. RoomInv'
  <2>1. IsFiniteSet(Blocks') /\ FreeRoom' = FreeRoom + used[w] - BaseSize /\ FreeRoom \in Int
    BY <1>1, <1>4, FreeRoomChange, FreeRoomType DEF RoomInv, TypeOK
  <2>2. used[w] = 0
    BY <1>1 DEF ScriptInv
  <2>3. kills = 0 => FreeRoom >= BaseSize
    BY <1>2 DEF RoomInv
  <2>4. \A q \in Procs : pc'[q] \notin {"inspect", "fetch"}
    BY <1>2, <1>3 DEF TypeOK
  <2>5. kills = 0 => \A v \in Spaces : script'[v] \notin {"import", "compare", "build"}
    <3>1. ASSUME kills = 0, NEW v \in Spaces PROVE script[v] \notin Active
      BY <1>2, <1>3, <3>1, HolderWorksAlone DEF Running, Active
    <3>2. QED
      BY <1>1, <3>1 DEF TypeOK, Active
  <2>6. QED
    BY <1>2, <1>4, <2>1, <2>2, <2>3, <2>4, <2>5 DEF RoomInv
<1>12. QED
  BY <1>5, <1>6, <1>7, <1>8, <1>10, <1>11

(* The script starts in a workspace of its own, with the image id that its *)
(* tool has verified.                                                      *)
LEMMA PrepareKeepsPrivateInv ==
    ASSUME PrivateInv, NEW p \in Procs, Prepare(p)
    PROVE  PrivateInv'
<1> USE DEF PrivateInv, Prepare, Goto, host
<1>1. /\ pc[p] = "prepare" /\ pc' = [pc EXCEPT ![p] = "wait"]
      /\ UNCHANGED <<lock, kind, base, payload, ready, used, tag, staged, booted, kills>>
  OBVIOUS
<1>2. /\ \A q \in Procs \ {p} : pc[q] = "idle" /\ space[q] = None
      /\ base[p] \in Verified
  BY <1>1, OthersIdle DEF ToolInv
<1>3. Verified \subseteq Images
  BY PrivateAssumption DEF Verified
<1>4. PICK w \in IF kind[p] = "update" THEN {space[p]} ELSE Fresh :
        /\ space' = [space EXCEPT ![p] = w]
        /\ script' = [script EXCEPT ![w] = "check"]
        /\ expected' = [expected EXCEPT ![w] = base[p]]
        /\ \E i \in IF kind[p] = "update" THEN {base[p]} ELSE Images :
             source' = [source EXCEPT ![w] = i]
  OBVIOUS
<1>5. PICK i \in Images : source' = [source EXCEPT ![w] = i]
  BY <1>2, <1>3, <1>4
<1>6. w \in Spaces /\ w # None /\ script[w] \in {"none", "fetched"} /\ space[p] \in {w, None}
  BY <1>1, <1>4, PrivateAssumption DEF ToolInv, TypeOK, Fresh
<1>7. TypeOK'
  <2>1. \A q, r \in Procs : space'[q] = space'[r] => q = r \/ space'[q] = None
    BY <1>2, <1>4, <1>6 DEF TypeOK
  <2>2. expected' \in [Spaces -> Images \cup {None}]
        /\ source' \in [Spaces -> Images \cup {None}] /\ DOMAIN script' = Spaces
        /\ space' \in [Procs -> Spaces \cup {None}]
    BY <1>2, <1>3, <1>4, <1>5, <1>6 DEF TypeOK
  <2>3. QED
    BY <1>1, <2>1, <2>2 DEF TypeOK
<1>8. ToolInv'
  BY <1>1, <1>2, <1>4, <1>6 DEF ToolInv, TypeOK, Active
<1>9. ScriptInv'
  <2>1. ASSUME NEW v \in Spaces, v # w
        PROVE  script'[v] = script[v] /\ expected'[v] = expected[v] /\ source'[v] = source[v]
    BY <1>4, <1>5, <1>6, <2>1 DEF TypeOK
  <2>2. script'[w] = "check" /\ expected'[w] = base[p]
    BY <1>4, <1>6 DEF TypeOK
  <2>3. QED
    BY <1>1, <1>2, <2>1, <2>2 DEF ScriptInv, Active
<1>10. HostInv'
  BY <1>1, <1>4, <1>6 DEF HostInv, TypeOK
<1>11. OrphanInv'
  <2>1. Orphans' \subseteq Orphans
    <3>1. SUFFICES ASSUME NEW v \in Running', \A q \in Procs : space'[q] # v
                   PROVE  v \in Running /\ \A q \in Procs : space[q] # v
      BY DEF Orphans
    <3>2. v # w
      BY <1>4, <1>6, <3>1 DEF TypeOK
    <3>3. v \in Running
      BY <1>4, <1>6, <3>2 DEF Running, TypeOK
    <3>4. v # None
      BY <3>3, HolderWorksAlone
    <3>5. QED
      BY <1>2, <1>6, <3>2, <3>3, <3>4
  <2>2. QED
    BY <1>1, <2>1, OrphansShrink DEF TypeOK
<1>12. RoomInv'
  <2>1. \A v \in Spaces : script'[v] \in {"import", "compare", "build"} => script'[v] = script[v]
    BY <1>4, <1>6 DEF TypeOK
  <2>2. \A q \in Procs : pc'[q] \notin {"inspect", "fetch"}
    BY <1>1, <1>2 DEF TypeOK
  <2>3. QED
    BY <1>1, <2>1, <2>2, FreeRoomType DEF RoomInv
<1>13. QED
  BY <1>7, <1>8, <1>9, <1>10, <1>11, <1>12

(* The tool goes on only after its script has ended well.                  *)
LEMMA CollectKeepsPrivateInv ==
    ASSUME PrivateInv, NEW p \in Procs, Collect(p)
    PROVE  PrivateInv'
<1> USE DEF PrivateInv, Collect, procs, scripts, host, Collected, Goto
<1>1. TypeOK'
  BY DEF TypeOK
<1>2. ToolInv'
  BY DEF ToolInv, TypeOK, Active
<1>3. ScriptInv'
  BY DEF ScriptInv, TypeOK, Active
<1>4. HostInv'
  BY DEF HostInv, TypeOK
<1>5. OrphanInv'
  <2>1. Orphans' \subseteq Orphans
    BY DEF Orphans, Running, TypeOK
  <2>2. QED
    BY <2>1, OrphansShrink DEF TypeOK
<1>6. RoomInv'
  BY FreeRoomType DEF RoomInv, TypeOK
<1>7. QED
  BY <1>1, <1>2, <1>3, <1>4, <1>5, <1>6

(* A tool whose script failed leaves nothing running behind.               *)
LEMMA RejectedKeepsPrivateInv ==
    ASSUME PrivateInv, NEW p \in Procs, Rejected(p)
    PROVE  PrivateInv'
<1> USE DEF PrivateInv, Rejected, procs, scripts, host, Exit, Goto
<1>1. TypeOK'
  BY PrivateAssumption DEF TypeOK
<1>2. ToolInv'
  BY DEF ToolInv, TypeOK, Active
<1>3. ScriptInv'
  BY DEF ScriptInv, TypeOK, Active
<1>4. HostInv'
  BY DEF HostInv, TypeOK
<1>5. OrphanInv'
  <2>1. Orphans' \subseteq Orphans
    BY DEF Orphans, Running, TypeOK
  <2>2. QED
    BY <2>1, OrphansShrink DEF TypeOK
<1>6. RoomInv'
  BY FreeRoomType DEF RoomInv, TypeOK
<1>7. QED
  BY <1>1, <1>2, <1>3, <1>4, <1>5, <1>6

(* What is staged is the workspace of a script that has ended well.        *)
LEMMA StageKeepsPrivateInv ==
    ASSUME PrivateInv, NEW p \in Procs, Stage(p)
    PROVE  PrivateInv'
<1> USE DEF PrivateInv, Stage, procs, scripts, host, Exit, Goto
<1>1. TypeOK'
  BY PrivateAssumption DEF TypeOK
<1>2. ToolInv'
  BY DEF ToolInv, TypeOK, Active
<1>3. ScriptInv'
  BY DEF ScriptInv, TypeOK, Active
<1>4. HostInv'
  BY DEF HostInv, ToolInv, TypeOK
<1>5. OrphanInv'
  <2>1. Orphans' \subseteq Orphans
    BY HolderWorksAlone DEF Orphans, Running, TypeOK
  <2>2. QED
    BY <2>1, OrphansShrink DEF TypeOK
<1>6. RoomInv'
  BY FreeRoomType DEF RoomInv, TypeOK
<1>7. QED
  BY <1>1, <1>2, <1>3, <1>4, <1>5, <1>6

(* A tool that stops before or after its preparation leaves no script      *)
(* without its tool.                                                       *)
LEMMA StopKeepsPrivateInv ==
    ASSUME PrivateInv, NEW p \in Procs, Stop(p)
    PROVE  PrivateInv'
<1> USE DEF PrivateInv, Stop, procs, scripts, host, Exit, Goto
<1>1. TypeOK'
  BY PrivateAssumption DEF TypeOK
<1>2. ToolInv'
  BY DEF ToolInv, TypeOK, Active
<1>3. ScriptInv'
  BY DEF ScriptInv, TypeOK, Active
<1>4. HostInv'
  BY DEF HostInv, TypeOK
<1>5. OrphanInv'
  <2>1. Orphans' \subseteq Orphans
    BY HolderWorksAlone DEF Orphans, Running, TypeOK
  <2>2. QED
    BY <2>1, OrphansShrink DEF TypeOK
<1>6. RoomInv'
  BY FreeRoomType DEF RoomInv, TypeOK
<1>7. QED
  BY <1>1, <1>2, <1>3, <1>4, <1>5, <1>6

(* The floor of the script is room for its storage and its payload.        *)
LEMMA CheckFloorKeepsPrivateInv ==
    ASSUME PrivateInv, NEW w \in Spaces, CheckFloor(w)
    PROVE  PrivateInv'
<1> USE DEF PrivateInv, CheckFloor, procs, scripts, host, Advance
<1>1. TypeOK'
  BY DEF TypeOK
<1>2. ToolInv'
  BY DEF ToolInv, TypeOK, Active
<1>3. ScriptInv'
  BY DEF ScriptInv, TypeOK, Active
<1>4. HostInv'
  BY DEF HostInv, TypeOK
<1>5. OrphanInv'
  <2>1. Orphans' \subseteq Orphans
    BY DEF Orphans, Running, TypeOK
  <2>2. QED
    BY <2>1, OrphansShrink DEF TypeOK
<1>6. RoomInv'
  BY PrivateAssumption, FreeRoomType DEF RoomInv, TypeOK
<1>7. QED
  BY <1>1, <1>2, <1>3, <1>4, <1>5, <1>6

(* The storage takes half of the room that was checked; only this script   *)
(* runs, so the other half is still there.                                 *)
LEMMA ImportKeepsPrivateInv ==
    ASSUME PrivateInv, NEW w \in Spaces, Import(w)
    PROVE  PrivateInv'
<1> USE DEF PrivateInv, Import, procs, scripts, host, Advance, Takes
<1>1. TypeOK'
  BY PrivateAssumption DEF TypeOK
<1>2. ToolInv'
  BY DEF ToolInv, TypeOK, Active
<1>3. ScriptInv'
  BY DEF ScriptInv, TypeOK, Active
<1>4. HostInv'
  BY DEF HostInv, TypeOK
<1>5. OrphanInv'
  <2>1. Orphans' \subseteq Orphans
    BY DEF Orphans, Running, TypeOK
  <2>2. QED
    BY <2>1, OrphansShrink DEF TypeOK
<1>6. RoomInv'
  <2>1. /\ script[w] = "import" /\ script' = [script EXCEPT ![w] = "compare"]
        /\ used' = [used EXCEPT ![w] = used[w] + PrepareSize]
        /\ UNCHANGED <<pc, kills>> /\ used[w] \in Nat /\ PrepareSize \in Nat
    BY PrivateAssumption DEF TypeOK
  <2>2. IsFiniteSet(Blocks') /\ FreeRoom' = FreeRoom + used[w] - (used[w] + PrepareSize)
        /\ FreeRoom \in Int
    <3>1. used \in [Spaces -> Nat] /\ IsFiniteSet(Blocks) /\ used[w] + PrepareSize \in Nat
      BY <2>1 DEF RoomInv, TypeOK
    <3> HIDE DEF Import, Build, Takes, PrivateInv
    <3>2. QED
      BY <2>1, <3>1, FreeRoomChange, FreeRoomType
  <2>3. kills = 0 => FreeRoom >= 2 * PrepareSize
    BY <2>1 DEF RoomInv
  <2>4. ASSUME kills = 0
        PROVE  /\ \A p \in Procs : pc[p] \notin {"inspect", "fetch"}
               /\ \A v \in Spaces : v # w => script[v] \notin {"import", "compare", "build"}
    <3>1. \A v \in Running : \E p \in Procs : pc[p] = "wait" /\ space[p] = v
      BY <2>4, HolderWorksAlone
    <3>2. w \in Running
      BY <2>1 DEF Running
    <3>3. PICK p \in Procs : pc[p] = "wait" /\ space[p] = w
      BY <3>1, <3>2
    <3>4. \A q \in Procs \ {p} : pc[q] = "idle"
      BY <3>3, OthersIdle
    <3>5. \A v \in Spaces : v # w => v \notin Running
      BY <3>1, <3>3, <3>4
    <3>6. QED
      BY <3>3, <3>4, <3>5 DEF Running
  <2>5. QED
    BY <2>1, <2>2, <2>3, <2>4 DEF RoomInv, TypeOK
<1>7. QED
  BY <1>1, <1>2, <1>3, <1>4, <1>5, <1>6

(* From here on the imported image is the expected one.                    *)
LEMMA CompareIdKeepsPrivateInv ==
    ASSUME PrivateInv, NEW w \in Spaces, CompareId(w)
    PROVE  PrivateInv'
<1> USE DEF PrivateInv, CompareId, procs, scripts, host, Advance
<1>1. TypeOK'
  BY DEF TypeOK
<1>2. ToolInv'
  BY DEF ToolInv, TypeOK, Active
<1>3. ScriptInv'
  BY DEF ScriptInv, TypeOK, Active
<1>4. HostInv'
  BY DEF HostInv, TypeOK
<1>5. OrphanInv'
  <2>1. Orphans' \subseteq Orphans
    BY DEF Orphans, Running, TypeOK
  <2>2. QED
    BY <2>1, OrphansShrink DEF TypeOK
<1>6. RoomInv'
  BY FreeRoomType DEF RoomInv, TypeOK
<1>7. QED
  BY <1>1, <1>2, <1>3, <1>4, <1>5, <1>6

(* The payload takes what the floor has left for it.                       *)
LEMMA BuildKeepsPrivateInv ==
    ASSUME PrivateInv, NEW w \in Spaces, Build(w)
    PROVE  PrivateInv'
<1> USE DEF PrivateInv, Build, procs, scripts, host, Advance, Takes
<1>1. TypeOK'
  BY PrivateAssumption DEF TypeOK
<1>2. ToolInv'
  BY DEF ToolInv, TypeOK, Active
<1>3. ScriptInv'
  BY DEF ScriptInv, TypeOK, Active
<1>4. HostInv'
  BY DEF HostInv, TypeOK
<1>5. OrphanInv'
  <2>1. Orphans' \subseteq Orphans
    BY DEF Orphans, Running, TypeOK
  <2>2. QED
    BY <2>1, OrphansShrink DEF TypeOK
<1>6. RoomInv'
  <2>1. /\ script[w] = "build" /\ script' = [script EXCEPT ![w] = "pending"]
        /\ used' = [used EXCEPT ![w] = used[w] + PrepareSize]
        /\ UNCHANGED <<pc, kills>> /\ used[w] \in Nat /\ PrepareSize \in Nat
    BY PrivateAssumption DEF TypeOK
  <2>2. IsFiniteSet(Blocks') /\ FreeRoom' = FreeRoom + used[w] - (used[w] + PrepareSize)
        /\ FreeRoom \in Int
    <3>1. used \in [Spaces -> Nat] /\ IsFiniteSet(Blocks) /\ used[w] + PrepareSize \in Nat
      BY <2>1 DEF RoomInv, TypeOK
    <3> HIDE DEF Import, Build, Takes, PrivateInv
    <3>2. QED
      BY <2>1, <3>1, FreeRoomChange, FreeRoomType
  <2>3. kills = 0 => FreeRoom >= PrepareSize
    BY <2>1 DEF RoomInv
  <2>4. ASSUME kills = 0
        PROVE  /\ \A p \in Procs : pc[p] \notin {"inspect", "fetch"}
               /\ \A v \in Spaces : v # w => script[v] \notin {"import", "compare", "build"}
    <3>1. \A v \in Running : \E p \in Procs : pc[p] = "wait" /\ space[p] = v
      BY <2>4, HolderWorksAlone
    <3>2. w \in Running
      BY <2>1 DEF Running
    <3>3. PICK p \in Procs : pc[p] = "wait" /\ space[p] = w
      BY <3>1, <3>2
    <3>4. \A q \in Procs \ {p} : pc[q] = "idle"
      BY <3>3, OthersIdle
    <3>5. \A v \in Spaces : v # w => v \notin Running
      BY <3>1, <3>3, <3>4
    <3>6. QED
      BY <3>3, <3>4, <3>5 DEF Running
  <2>5. QED
    BY <2>1, <2>2, <2>3, <2>4 DEF RoomInv, TypeOK
<1>7. QED
  BY <1>1, <1>2, <1>3, <1>4, <1>5, <1>6

(* The payload in its place is that of the image that was compared.        *)
LEMMA RenameKeepsPrivateInv ==
    ASSUME PrivateInv, NEW w \in Spaces, Rename(w)
    PROVE  PrivateInv'
<1> USE DEF PrivateInv, Rename, procs, scripts, host, Advance
<1>1. TypeOK'
  BY DEF TypeOK
<1>2. ToolInv'
  BY DEF ToolInv, TypeOK, Active
<1>3. ScriptInv'
  BY DEF ScriptInv, TypeOK, Active
<1>4. HostInv'
  BY DEF HostInv, TypeOK
<1>5. OrphanInv'
  <2>1. Orphans' \subseteq Orphans
    BY DEF Orphans, Running, TypeOK
  <2>2. QED
    BY <2>1, OrphansShrink DEF TypeOK
<1>6. RoomInv'
  BY FreeRoomType DEF RoomInv, TypeOK
<1>7. QED
  BY <1>1, <1>2, <1>3, <1>4, <1>5, <1>6

(* The marker is written after the payload is in its place.                *)
LEMMA MarkReadyKeepsPrivateInv ==
    ASSUME PrivateInv, NEW w \in Spaces, MarkReady(w)
    PROVE  PrivateInv'
<1> USE DEF PrivateInv, MarkReady, procs, scripts, host, Advance
<1>1. TypeOK'
  BY DEF TypeOK
<1>2. ToolInv'
  BY DEF ToolInv, TypeOK, Active
<1>3. ScriptInv'
  BY DEF ScriptInv, TypeOK, Active
<1>4. HostInv'
  BY DEF HostInv, TypeOK
<1>5. OrphanInv'
  <2>1. Orphans' \subseteq Orphans
    BY DEF Orphans, Running, TypeOK
  <2>2. QED
    BY <2>1, OrphansShrink DEF TypeOK
<1>6. RoomInv'
  BY FreeRoomType DEF RoomInv, TypeOK
<1>7. QED
  BY <1>1, <1>2, <1>3, <1>4, <1>5, <1>6

(* The announcement changes no file.                                       *)
LEMMA AnnounceKeepsPrivateInv ==
    ASSUME PrivateInv, NEW w \in Spaces, Announce(w)
    PROVE  PrivateInv'
<1> USE DEF PrivateInv, Announce, procs, scripts, host, Advance
<1>1. TypeOK'
  BY DEF TypeOK
<1>2. ToolInv'
  BY DEF ToolInv, TypeOK, Active
<1>3. ScriptInv'
  BY DEF ScriptInv, TypeOK, Active
<1>4. HostInv'
  BY DEF HostInv, TypeOK
<1>5. OrphanInv'
  <2>1. Orphans' \subseteq Orphans
    BY DEF Orphans, Running, TypeOK
  <2>2. QED
    BY <2>1, OrphansShrink DEF TypeOK
<1>6. RoomInv'
  BY FreeRoomType DEF RoomInv, TypeOK
<1>7. QED
  BY <1>1, <1>2, <1>3, <1>4, <1>5, <1>6

(* A script ends well only with its payload and its marker in place.       *)
LEMMA DoneKeepsPrivateInv ==
    ASSUME PrivateInv, NEW w \in Spaces, Done(w)
    PROVE  PrivateInv'
<1> USE DEF PrivateInv, Done, procs, scripts, host, Advance
<1>1. TypeOK'
  BY DEF TypeOK
<1>2. ToolInv'
  BY DEF ToolInv, TypeOK, Active
<1>3. ScriptInv'
  BY DEF ScriptInv, TypeOK, Active
<1>4. HostInv'
  BY DEF HostInv, TypeOK
<1>5. OrphanInv'
  <2>1. Orphans' \subseteq Orphans
    BY DEF Orphans, Running, TypeOK
  <2>2. QED
    BY <2>1, OrphansShrink DEF TypeOK
<1>6. RoomInv'
  BY FreeRoomType DEF RoomInv, TypeOK
<1>7. QED
  BY <1>1, <1>2, <1>3, <1>4, <1>5, <1>6

(* A script that fails was not staged.                                     *)
LEMMA ScriptFailsKeepsPrivateInv ==
    ASSUME PrivateInv, NEW w \in Spaces, ScriptFails(w)
    PROVE  PrivateInv'
<1> USE DEF PrivateInv, ScriptFails, procs, scripts, host, Advance
<1>1. TypeOK'
  BY DEF TypeOK
<1>2. ToolInv'
  BY DEF ToolInv, TypeOK, Active, Running
<1>3. ScriptInv'
  BY DEF ScriptInv, TypeOK, Active
<1>4. HostInv'
  BY DEF HostInv, TypeOK, Running
<1>5. OrphanInv'
  <2>1. Orphans' \subseteq Orphans
    BY DEF Orphans, Running, TypeOK
  <2>2. QED
    BY <2>1, OrphansShrink DEF TypeOK
<1>6. RoomInv'
  BY FreeRoomType DEF RoomInv, TypeOK
<1>7. QED
  BY <1>1, <1>2, <1>3, <1>4, <1>5, <1>6

(* A reboot ends all tools and scripts; what it boots was staged, or       *)
(* booted before.                                                          *)
LEMMA RebootKeepsPrivateInv ==
    ASSUME PrivateInv, Reboot
    PROVE  PrivateInv'
<1> USE DEF PrivateInv, Reboot, procs, scripts, host
<1>1. TypeOK'
  BY PrivateAssumption DEF TypeOK
<1>2. ToolInv'
  BY DEF ToolInv, TypeOK, Active
<1>3. ScriptInv'
  BY DEF ScriptInv, TypeOK, Active
<1>4. HostInv'
  BY DEF HostInv, TypeOK, Running
<1>5. OrphanInv'
  <2>1. Orphans' \subseteq Orphans
    BY DEF Orphans, Running, TypeOK
  <2>2. QED
    BY <2>1, OrphansShrink DEF TypeOK
<1>6. RoomInv'
  BY FreeRoomType DEF RoomInv, TypeOK
<1>7. QED
  BY <1>1, <1>2, <1>3, <1>4, <1>5, <1>6

(* Reclaiming a workspace that nobody uses only gives room back.           *)
LEMMA ReclaimKeepsPrivateInv ==
    ASSUME PrivateInv, NEW w \in Spaces, Reclaim(w)
    PROVE  PrivateInv'
<1> USE DEF PrivateInv, Reclaim, procs, scripts, host
<1>1. TypeOK'
  BY PrivateAssumption DEF TypeOK
<1>2. ToolInv'
  BY DEF ToolInv, TypeOK, Active
<1>3. ScriptInv'
  BY DEF ScriptInv, TypeOK, Active
<1>4. HostInv'
  BY DEF HostInv, TypeOK
<1>5. OrphanInv'
  <2>1. Orphans' \subseteq Orphans
    BY DEF Orphans, Running, TypeOK
  <2>2. QED
    BY <2>1, OrphansShrink DEF TypeOK
<1>6. RoomInv'
  <2>1. used' = [used EXCEPT ![w] = 0] /\ used[w] \in Nat /\ UNCHANGED <<pc, kills>>
        /\ \A v \in Spaces : script'[v] # "none" => script'[v] = script[v]
    BY DEF TypeOK
  <2>2. IsFiniteSet(Blocks') /\ FreeRoom' = FreeRoom + used[w] - 0 /\ FreeRoom \in Int
    <3>1. used \in [Spaces -> Nat] /\ IsFiniteSet(Blocks) /\ 0 \in Nat
      BY DEF RoomInv, TypeOK
    <3> HIDE DEF Reclaim, PrivateInv
    <3>2. QED
      BY <2>1, <3>1, FreeRoomChange, FreeRoomType
  <2>3. \A n \in Nat : FreeRoom >= n => FreeRoom' >= n
    BY <2>1, <2>2
  <2>4. {BaseSize, PrepareSize, 2 * PrepareSize, 0} \subseteq Nat
    BY PrivateAssumption
  <2>5. QED
    BY <2>1, <2>2, <2>3, <2>4 DEF RoomInv
<1>7. QED
  BY <1>1, <1>2, <1>3, <1>4, <1>5, <1>6

(* The release tag may move at any time.                                   *)
LEMMA MoveTagKeepsPrivateInv ==
    ASSUME PrivateInv, NEW i \in Images, MoveTag(i)
    PROVE  PrivateInv'
<1> USE DEF PrivateInv, MoveTag, procs, scripts, host
<1>1. TypeOK'
  BY DEF TypeOK
<1>2. ToolInv'
  BY DEF ToolInv, TypeOK, Active
<1>3. ScriptInv'
  BY DEF ScriptInv, TypeOK, Active
<1>4. HostInv'
  BY DEF HostInv, TypeOK
<1>5. OrphanInv'
  <2>1. Orphans' \subseteq Orphans
    BY DEF Orphans, Running, TypeOK
  <2>2. QED
    BY <2>1, OrphansShrink DEF TypeOK
<1>6. RoomInv'
  BY FreeRoomType DEF RoomInv, TypeOK
<1>7. QED
  BY <1>1, <1>2, <1>3, <1>4, <1>5, <1>6

(* A kill makes at most the workspace of the killed tool an orphan.        *)
LEMMA KillKeepsPrivateInv ==
    ASSUME PrivateInv, NEW p \in Procs, Kill(p)
    PROVE  PrivateInv'
<1> USE DEF PrivateInv, Kill, procs, scripts, host, Exit, Goto
<1>1. TypeOK'
  BY PrivateAssumption DEF TypeOK
<1>2. ToolInv'
  BY DEF ToolInv, TypeOK, Active
<1>3. ScriptInv'
  BY DEF ScriptInv, TypeOK, Active
<1>4. HostInv'
  BY DEF HostInv, TypeOK
<1>5. OrphanInv'
  <2>1. Orphans' \subseteq Orphans \cup {space[p]}
    BY DEF Orphans, Running, TypeOK
  <2>2. IsFiniteSet(Orphans) /\ Cardinality(Orphans) <= kills /\ kills \in Nat /\ kills' = kills + 1
    BY DEF OrphanInv, TypeOK
  <2>3. Cardinality(Orphans) \in Nat
    BY <2>2, FS_CardinalityType
  <2>4. IsFiniteSet(Orphans \cup {space[p]})
        /\ Cardinality(Orphans \cup {space[p]}) \in {Cardinality(Orphans), Cardinality(Orphans) + 1}
    BY <2>2, FS_AddElement
  <2>5. IsFiniteSet(Orphans') /\ Cardinality(Orphans') <= Cardinality(Orphans \cup {space[p]})
        /\ Cardinality(Orphans') \in Nat
    BY <2>1, <2>4, FS_Subset, FS_CardinalityType
  <2>6. QED
    BY <2>2, <2>3, <2>4, <2>5 DEF OrphanInv
<1>6. RoomInv'
  <2>1. kills' # 0
    BY DEF TypeOK
  <2>2. QED
    BY <2>1, FreeRoomType DEF RoomInv
<1>7. QED
  BY <1>1, <1>2, <1>3, <1>4, <1>5, <1>6

----------------------------------------------------------------------------
(* The invariant.                                                          *)

(* Nothing runs and nothing is taken at the start.                         *)
LEMMA InitPrivateInv ==
    ASSUME Init
    PROVE  PrivateInv
<1> USE DEF Init
<1>1. TypeOK
  BY PrivateAssumption DEF TypeOK
<1>2. ToolInv /\ ScriptInv /\ HostInv
  BY DEF ToolInv, ScriptInv, HostInv, Active
<1>3. OrphanInv
  <2>1. Orphans = {}
    BY DEF Orphans, Running
  <2>2. QED
    BY <2>1, FS_EmptySet DEF OrphanInv
<1>4. RoomInv
  <2>1. Blocks = {}
    BY DEF Blocks
  <2>2. IsFiniteSet(Blocks) /\ Cardinality(Blocks) = 0
    BY <2>1, FS_EmptySet
  <2>3. FreeRoom >= 0
    BY <2>2, PrivateAssumption DEF FreeRoom
  <2>4. QED
    BY <2>2, <2>3 DEF RoomInv
<1>5. QED
  BY <1>1, <1>2, <1>3, <1>4 DEF PrivateInv

(* What a step that changes nothing keeps.                                 *)
LEMMA StutterKeepsPrivateInv ==
    ASSUME PrivateInv, UNCHANGED vars
    PROVE  PrivateInv'
<1> USE DEF PrivateInv, vars, procs, scripts, host
<1>1. TypeOK' /\ ToolInv' /\ ScriptInv' /\ HostInv'
  BY DEF TypeOK, ToolInv, ScriptInv, HostInv
<1>2. Orphans' = Orphans
  BY DEF Orphans, Running
<1>3. OrphanInv'
  BY <1>2 DEF OrphanInv
<1>4. RoomInv'
  BY FreeRoomType DEF RoomInv
<1>5. QED
  BY <1>1, <1>3, <1>4

(* Every step keeps the invariant.                                         *)
LEMMA NextKeepsPrivateInv ==
    ASSUME PrivateInv, [Next]_vars
    PROVE  PrivateInv'
<1>1. ASSUME NEW p \in Procs, NEW k \in {"update", "postinstall"}, Begin(p, k)
      PROVE  PrivateInv'
  BY <1>1, BeginKeepsPrivateInv
<1>2. ASSUME NEW p \in Procs, ToolStep(p) PROVE PrivateInv'
  BY <1>2, CheckRoomKeepsPrivateInv, VerifyBaseKeepsPrivateInv, FetchKeepsPrivateInv,
     PrepareKeepsPrivateInv, CollectKeepsPrivateInv, RejectedKeepsPrivateInv,
     StageKeepsPrivateInv, StopKeepsPrivateInv DEF ToolStep
<1>3. ASSUME NEW p \in Procs, Kill(p) PROVE PrivateInv'
  BY <1>3, KillKeepsPrivateInv
<1>4. ASSUME NEW w \in Spaces, ScriptStep(w) PROVE PrivateInv'
  BY <1>4, CheckFloorKeepsPrivateInv, ImportKeepsPrivateInv, CompareIdKeepsPrivateInv,
     BuildKeepsPrivateInv, RenameKeepsPrivateInv, MarkReadyKeepsPrivateInv,
     AnnounceKeepsPrivateInv, DoneKeepsPrivateInv, ScriptFailsKeepsPrivateInv DEF ScriptStep
<1>5. ASSUME NEW w \in Spaces, Reclaim(w) PROVE PrivateInv'
  BY <1>5, ReclaimKeepsPrivateInv
<1>6. CASE Reboot
  BY <1>6, RebootKeepsPrivateInv
<1>7. ASSUME NEW i \in Images, MoveTag(i) PROVE PrivateInv'
  BY <1>7, MoveTagKeepsPrivateInv
<1>8. CASE UNCHANGED vars
  BY <1>8, StutterKeepsPrivateInv
<1>9. QED
  BY <1>1, <1>2, <1>3, <1>4, <1>5, <1>6, <1>7, <1>8 DEF Next

(* Every reachable state satisfies the invariant.                          *)
THEOREM PrivateInvariant == Spec => []PrivateInv
<1>1. Init => PrivateInv
  BY InitPrivateInv
<1>2. PrivateInv /\ [Next]_vars => PrivateInv'
  BY NextKeepsPrivateInv
<1>3. QED
  BY <1>1, <1>2, PTL DEF Spec

(* Every variable keeps its type, only the holder of setup.lock works, and *)
(* no workspace has two tools.                                             *)
THEOREM TypeCorrect == Spec => []TypeOK
<1>1. PrivateInv => TypeOK
  BY DEF PrivateInv
<1>2. QED
  BY <1>1, PrivateInvariant, PTL

(* What bootc stages or boots is the finished payload of a base that was   *)
(* verified, or pinned by the seed: whatever the tag, the seed's OCI       *)
(* directory, kills and reboots do between the steps.                      *)
THEOREM StagedVerified == Spec => []StagedIsVerified
<1>1. PrivateInv => StagedIsVerified
  <2>1. SUFFICES ASSUME PrivateInv, NEW w \in {staged, booted} \ {None}
                 PROVE  /\ script[w] = "done" /\ ready[w]
                        /\ payload[w] = expected[w] /\ payload[w] \in Verified
    BY DEF StagedIsVerified, Verified
  <2>2. w \in Spaces /\ script[w] = "done"
    BY <2>1 DEF PrivateInv, TypeOK, HostInv
  <2>3. QED
    BY <2>1, <2>2 DEF PrivateInv, ScriptInv
<1>2. QED
  BY <1>1, PrivateInvariant, PTL

(* As long as no tool is killed alone, the floors that update.py and the   *)
(* script demand are enough for all that a run takes.                      *)
THEOREM RoomSuffices == Spec => []RoomKept
<1>1. PrivateInv => RoomKept
  BY DEF PrivateInv, RoomInv, RoomKept
<1>2. QED
  BY <1>1, PrivateInvariant, PTL

(* Preparations overlap at most as often as a tool was killed alone.       *)
THEOREM OverlapNeedsKill == Spec => []OverlapOnlyByKill
<1>1. PrivateInv => OverlapOnlyByKill
  <2>1. SUFFICES ASSUME PrivateInv PROVE OverlapOnlyByKill
    OBVIOUS
  <2>2. IsFiniteSet(Orphans) /\ Cardinality(Orphans) <= kills /\ kills \in Nat
        /\ Cardinality(Orphans) \in Nat
    BY <2>1, FS_CardinalityType DEF PrivateInv, OrphanInv, TypeOK
  <2>3. \E s : Running \subseteq Orphans \cup {s}
    <3>1. \A p, q \in Procs : space[p] \in Running /\ space[q] \in Running => p = q
      BY <2>1, HolderWorksAlone DEF PrivateInv
    <3>2. CASE \E p \in Procs : space[p] \in Running
      <4>1. PICK p \in Procs : space[p] \in Running
        BY <3>2
      <4>2. Running \subseteq Orphans \cup {space[p]}
        BY <3>1, <4>1 DEF Orphans
      <4>3. QED
        BY <4>2
    <3>3. CASE \A p \in Procs : space[p] \notin Running
      BY <3>3 DEF Orphans
    <3>4. QED
      BY <3>2, <3>3
  <2>4. PICK s : Running \subseteq Orphans \cup {s}
    BY <2>3
  <2>5. IsFiniteSet(Orphans \cup {s})
        /\ Cardinality(Orphans \cup {s}) \in {Cardinality(Orphans), Cardinality(Orphans) + 1}
    BY <2>2, FS_AddElement
  <2>6. Cardinality(Running) <= Cardinality(Orphans \cup {s}) /\ Cardinality(Running) \in Nat
    BY <2>4, <2>5, FS_Subset, FS_CardinalityType
  <2>7. QED
    BY <2>2, <2>5, <2>6 DEF OverlapOnlyByKill
<1>2. QED
  BY <1>1, PrivateInvariant, PTL
============================================================================
