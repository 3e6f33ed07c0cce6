------------------------- MODULE InstallationProofs -------------------------
(***************************************************************************)
(* Proofs about Installation and InstalledFstab, for any external disks,   *)
(* any number of them plugged in and out, and an fstab of any length.      *)
(***************************************************************************)
EXTENDS Installation, FiniteSetTheorems, SequenceTheorems, WellFoundedInduction, TLAPS

Tools == {"main", "menu", "msi", "pick", "rescan", "script", "release", "write", "chvt"}

(* Anaconda, or the switch to its terminal, with a prepared kickstart.     *)
Excluding == pc \in {"chvt", "anaconda"} /\ ks # None

(* The name in the question is a workspace's until a disk goes.            *)
DiskInv ==
    /\ pc = "ask" /\ ~swapped => \E d \in Labelled : name[d] = work /\ work # 0
    /\ \A d \in Disks : mounted[d] = "rw" => d \in Labelled \/ swapped

(* While it is mounted the workspace's disk keeps the name it had.         *)
WorkspaceInv ==
    pc \in Tools \/ Excluding =>
        /\ workspace \in Disks
        /\ mounted[workspace] = "rw"
        /\ name[workspace] = work

(* So does the MSI's disk, until it goes.                                  *)
MsiInv ==
    /\ source # 0 => msi \in Disks
    /\ msi \in Disks /\ ~replugged => name[msi] = source /\ source # 0

(* A kickstart stays the one this workspace and this MSI were written into.*)
KickstartInv ==
    /\ pc \in {"menu", "msi", "pick", "rescan", "script", "release", "write"} => ks = None
    /\ pc = "chvt" => ks # None
    /\ Excluding => ks = Ignored
    /\ pc = "write" \/ Excluding => payload = workspace
    /\ pc = "release" => payload \in {workspace, None}
    /\ pc \in {"desktop", "bound", "session"} => ks = None

(* The medium is writable between the launcher's two mounts only.          *)
LiveInv ==
    /\ repo = "rw" => pc = "bound" \/ bound
    /\ pc = "session" \/ (pc = "anaconda" /\ ks = None) => repo = "ro" \/ bound

(* The fstab is Anaconda's until a whole backup of it exists.              *)
BackupInv ==
    /\ OriginalKept
    /\ fixer \in {"copy", "fill"} => fstab = original
    /\ fixer = "copy" => backup.is = "none"
    /\ fixer \in {"open", "write"} => backup.is = "whole" /\ backup.text = original

(* The fstab is Anaconda's, or that one corrected, or empty after a kill.  *)
CorrectionInv ==
    /\ original \in Seq(Entries) /\ At(original, {"rootcomment"}) = {}
    /\ \/ fstab = original
       \/ fstab = Corrected(original) /\ ~Refused(original)
       \/ fstab = <<>> /\ (cut \/ fixer = "write")
    /\ fixer \in {"copy", "fill", "open", "write"} => ~Refused(original)
    /\ fixer = "accepted" => \/ cut /\ fstab = <<>>
                             \/ fstab = Corrected(original) /\ ~Refused(original)

InstallInv ==
    /\ TypeOK /\ DiskInv /\ WorkspaceInv /\ MsiInv /\ KickstartInv /\ LiveInv
    /\ BackupInv /\ CorrectionInv

----------------------------------------------------------------------------
(* What the script makes of an fstab.                                      *)

(* A set of numbers that is not empty has a smallest one.                  *)
LEMMA MinExists ==
    ASSUME NEW S \in SUBSET Nat, S # {}
    PROVE  Min(S) \in S /\ \A y \in S : Min(S) <= y
<1>1. IsWellFoundedOn(OpToRel(<, Nat), Nat)
  BY NatLessThanWellFounded
<1>2. PICK x \in S : \A y \in S : <<y, x>> \notin OpToRel(<, Nat)
  BY <1>1, WFMin
<1>3. \A y \in S : ~(y < x)
  BY <1>2 DEF OpToRel
<1>4. \E y \in S : \A z \in S : y <= z
  BY <1>3
<1>5. QED
  BY <1>4 DEF Min

(* A set of positions in an fstab that is not empty has a last one.        *)
LEMMA MaxExists ==
    ASSUME NEW n \in Nat, NEW S \in SUBSET (1..n), S # {}
    PROVE  Max(S) \in S /\ \A y \in S : y <= Max(S)
<1> DEFINE T == {n - x : x \in S}
<1>1. T \in SUBSET Nat /\ T # {}
  <2>1. \A x \in S : n - x \in Nat
    OBVIOUS
  <2>2. QED
    BY <2>1
<1>2. PICK t \in T : \A y \in T : t <= y
  <2>1. Min(T) \in T /\ \A y \in T : Min(T) <= y
    BY <1>1, MinExists
  <2>2. QED
    BY <2>1
<1>3. PICK x \in S : t = n - x
  BY <1>2
<1>4. \A y \in S : x >= y
  <2>1. ASSUME NEW y \in S PROVE x >= y
    <3>1. n - x <= n - y
      BY <1>2, <1>3
    <3>2. x \in 1..n /\ y \in 1..n
      OBVIOUS
    <3>3. QED
      BY <3>1, <3>2
  <2>2. QED
    BY <2>1
<1>5. Max(S) \in S /\ \A y \in S : Max(S) >= y
  BY <1>4 DEF Max
<1>6. QED
  BY <1>5

(* RemoveAt closes the gap.                                                *)
LEMMA RemoveAtPlaces ==
    ASSUME NEW S, NEW s \in Seq(S), NEW h \in 1..Len(s)
    PROVE  /\ RemoveAt(s, h) \in Seq(S)
           /\ Len(RemoveAt(s, h)) = Len(s) - 1
           /\ \A i \in 1..Len(s) - 1 : RemoveAt(s, h)[i] = IF i < h THEN s[i] ELSE s[i + 1]
<1> DEFINE n == Len(s)
           before == SubSeq(s, 1, h - 1)
           after == SubSeq(s, h + 1, n)
<1>1. n \in Nat /\ h \in 1..n /\ \A i \in 1..n : s[i] \in S
  BY LenProperties, ElementOfSeq
<1>2. /\ before \in Seq(S) /\ Len(before) = h - 1
      /\ \A i \in 1..h - 1 : before[i] = s[i]
  <2>1. 1 \in Int /\ h - 1 \in Int /\ \A i \in 1..h - 1 : s[i] \in S
    BY <1>1
  <2>2. /\ before \in Seq(S) /\ Len(before) = IF 1 <= h - 1 THEN h - 1 - 1 + 1 ELSE 0
        /\ \A i \in 1..h - 1 - 1 + 1 : before[i] = s[1 + i - 1]
    BY <2>1, SubSeqProperties
  <2> HIDE DEF n, before
  <2>3. \A i \in 1..h - 1 : before[i] = s[i]
    BY <1>1, <2>2
  <2>4. QED
    BY <1>1, <2>2, <2>3
<1>3. /\ after \in Seq(S) /\ Len(after) = n - h
      /\ \A i \in 1..n - h : after[i] = s[h + i]
  <2>1. h + 1 \in Int /\ n \in Int /\ \A i \in h + 1..n : s[i] \in S
    BY <1>1
  <2>2. /\ after \in Seq(S) /\ Len(after) = IF h + 1 <= n THEN n - (h + 1) + 1 ELSE 0
        /\ \A i \in 1..n - (h + 1) + 1 : after[i] = s[h + 1 + i - 1]
    BY <2>1, SubSeqProperties
  <2> HIDE DEF n, after
  <2>3. \A i \in 1..n - h : after[i] = s[h + i]
    BY <1>1, <2>2
  <2>4. QED
    BY <1>1, <2>2, <2>3
<1>4. RemoveAt(s, h) = before \o after
  BY DEF RemoveAt
<1> HIDE DEF before, after
<1>5. /\ before \o after \in Seq(S)
      /\ Len(before \o after) = Len(before) + Len(after)
      /\ \A i \in 1..Len(before) + Len(after) :
           (before \o after)[i] = IF i <= Len(before) THEN before[i] ELSE after[i - Len(before)]
  BY <1>2, <1>3, ConcatProperties
<1> HIDE DEF n
<1>6. /\ Len(before \o after) = n - 1
      /\ \A i \in 1..n - 1 :
           (before \o after)[i] = IF i <= h - 1 THEN before[i] ELSE after[i - (h - 1)]
  BY <1>1, <1>2, <1>3, <1>5
<1>7. \A i \in 1..n - 1 : (before \o after)[i] = IF i < h THEN s[i] ELSE s[i + 1]
  <2>1. ASSUME NEW i \in 1..n - 1, i < h PROVE (before \o after)[i] = s[i]
    BY <1>1, <1>2, <1>6, <2>1
  <2>2. ASSUME NEW i \in 1..n - 1, ~(i < h) PROVE (before \o after)[i] = s[i + 1]
    <3>1. i - (h - 1) \in 1..n - h /\ h + (i - (h - 1)) = i + 1
      BY <1>1, <2>2
    <3>2. (before \o after)[i] = after[i - (h - 1)]
      BY <1>1, <1>6, <2>2
    <3>3. after[i - (h - 1)] = s[h + (i - (h - 1))]
      BY <1>3, <3>1
    <3>4. QED
      BY <3>1, <3>2, <3>3
  <2>3. QED
    BY <2>1, <2>2
<1>8. QED
  BY <1>4, <1>5, <1>6, <1>7 DEF n

(* InsertAt makes room.                                                    *)
LEMMA InsertAtPlaces ==
    ASSUME NEW S, NEW s \in Seq(S), NEW e \in S, NEW k \in 1..Len(s) + 1
    PROVE  /\ InsertAt(s, k, e) \in Seq(S)
           /\ Len(InsertAt(s, k, e)) = Len(s) + 1
           /\ \A i \in 1..Len(s) + 1 :
                InsertAt(s, k, e)[i] = IF i = k THEN e ELSE IF i < k THEN s[i] ELSE s[i - 1]
<1> DEFINE n == Len(s)
           before == SubSeq(s, 1, k - 1)
           after == SubSeq(s, k, n)
           head == before \o <<e>>
           all == head \o after
<1>1. n \in Nat /\ k \in 1..n + 1 /\ \A i \in 1..n : s[i] \in S
  BY LenProperties, ElementOfSeq
<1>2. /\ before \in Seq(S) /\ Len(before) = k - 1
      /\ \A i \in 1..k - 1 : before[i] = s[i]
  <2>1. 1 \in Int /\ k - 1 \in Int /\ \A i \in 1..k - 1 : s[i] \in S
    BY <1>1
  <2>2. /\ before \in Seq(S) /\ Len(before) = IF 1 <= k - 1 THEN k - 1 - 1 + 1 ELSE 0
        /\ \A i \in 1..k - 1 - 1 + 1 : before[i] = s[1 + i - 1]
    BY <2>1, SubSeqProperties
  <2> HIDE DEF n, before
  <2>3. \A i \in 1..k - 1 : before[i] = s[i]
    BY <1>1, <2>2
  <2>4. QED
    BY <1>1, <2>2, <2>3
<1>3. /\ after \in Seq(S) /\ Len(after) = n - k + 1
      /\ \A i \in 1..n - k + 1 : after[i] = s[k + i - 1]
  <2>1. k \in Int /\ n \in Int /\ \A i \in k..n : s[i] \in S
    BY <1>1
  <2>2. /\ after \in Seq(S) /\ Len(after) = IF k <= n THEN n - k + 1 ELSE 0
        /\ \A i \in 1..n - k + 1 : after[i] = s[k + i - 1]
    BY <2>1, SubSeqProperties
  <2> HIDE DEF n, after
  <2>3. QED
    BY <1>1, <2>2
<1>4. InsertAt(s, k, e) = all
  BY DEF InsertAt
<1>5. <<e>> \in Seq(S) /\ Len(<<e>>) = 1 /\ <<e>>[1] = e
  OBVIOUS
<1> HIDE DEF before, after
<1>6. /\ head \in Seq(S) /\ Len(head) = k
      /\ \A i \in 1..k : head[i] = IF i = k THEN e ELSE s[i]
  <2> DEFINE one == <<e>>
  <2>1. one \in Seq(S) /\ Len(one) = 1 /\ one[1] = e
    BY <1>5
  <2> HIDE DEF one
  <2>2. /\ before \o one \in Seq(S)
        /\ Len(before \o one) = Len(before) + Len(one)
        /\ \A i \in 1..Len(before) + Len(one) :
             (before \o one)[i] = IF i <= Len(before) THEN before[i] ELSE one[i - Len(before)]
    BY <1>2, <2>1, ConcatProperties
  <2>3. /\ before \o one \in Seq(S)
        /\ Len(before \o one) = k
        /\ \A i \in 1..k : (before \o one)[i] = IF i <= k - 1 THEN before[i] ELSE one[i - (k - 1)]
    BY <1>1, <1>2, <2>1, <2>2
  <2>4. \A i \in 1..k : (before \o one)[i] = IF i = k THEN e ELSE s[i]
    BY <1>1, <1>2, <2>1, <2>3
  <2>5. QED
    BY <2>3, <2>4 DEF one
<1> HIDE DEF head
<1>7. /\ all \in Seq(S)
      /\ Len(all) = Len(head) + Len(after)
      /\ \A i \in 1..Len(head) + Len(after) :
           all[i] = IF i <= Len(head) THEN head[i] ELSE after[i - Len(head)]
  BY <1>3, <1>6, ConcatProperties
<1> HIDE DEF all, n
<1>8. /\ Len(all) = n + 1
      /\ \A i \in 1..n + 1 : all[i] = IF i <= k THEN head[i] ELSE after[i - k]
  BY <1>1, <1>3, <1>6, <1>7
<1>9. ASSUME NEW i \in 1..n + 1
      PROVE  all[i] = IF i = k THEN e ELSE IF i < k THEN s[i] ELSE s[i - 1]
  <2>1. CASE i <= k
    BY <1>1, <1>6, <1>8, <2>1
  <2>2. CASE k < i
    <3>1. i - k \in 1..n - k + 1 /\ k + (i - k) - 1 = i - 1 /\ ~(i <= k) /\ i # k
      BY <1>1, <2>2
    <3>2. all[i] = after[i - k]
      BY <1>8, <3>1
    <3>3. after[i - k] = s[k + (i - k) - 1]
      BY <1>3, <3>1
    <3>4. ~(i < k)
      BY <1>1, <2>2
    <3>5. QED
      BY <3>1, <3>2, <3>3, <3>4
  <2>3. QED
    BY <1>1, <2>1, <2>2
<1>10. QED
  BY <1>4, <1>7, <1>8, <1>9 DEF n

(* Commenting the root out leaves every other entry where it is.           *)
LEMMA CommentedType ==
    ASSUME NEW f \in Seq(Entries)
    PROVE  /\ Commented(f) \in Seq(Entries) /\ Len(Commented(f)) = Len(f)
           /\ DOMAIN Commented(f) = 1..Len(f) /\ DOMAIN f = 1..Len(f)
           /\ \A i \in 1..Len(f) : Commented(f)[i] = IF f[i] = "root" THEN "rootcomment" ELSE f[i]
           /\ Homes(Commented(f)) = Homes(f)
           /\ Vars(Commented(f)) = Vars(f)
<1>1. Len(f) \in Nat /\ DOMAIN f = 1..Len(f)
  BY LenProperties
<1>2. \A i \in 1..Len(f) : f[i] \in Entries
  BY ElementOfSeq
<1>3. Commented(f) \in [1..Len(f) -> Entries]
  BY <1>1, <1>2 DEF Commented, Entries
<1>4. /\ Commented(f) \in Seq(Entries) /\ DOMAIN Commented(f) = 1..Len(f)
  BY <1>1, <1>3, SeqDef
<1>5. Len(Commented(f)) = Len(f)
  BY <1>1, <1>4, LenProperties
<1>6. Homes(Commented(f)) = Homes(f) /\ Vars(Commented(f)) = Vars(f)
  BY <1>1 DEF Commented, Homes, Vars, At
<1>7. QED
  BY <1>1, <1>4, <1>5, <1>6 DEF Commented

(* /home goes to the last /var behind it, or stays, and what was between   *)
(* moves up by one (MoveHome).                                             *)
LEMMA MoveHomePlaces ==
    ASSUME NEW f \in Seq(Entries), Homes(f) # {}
    PROVE  \E h \in Homes(f), k \in 1..Len(f) :
             /\ MoveHome(f) \in Seq(Entries) /\ Len(MoveHome(f)) = Len(f)
             /\ h <= k /\ \A v \in Vars(f) : v <= k
             /\ \A i \in 1..Len(f) :
                  MoveHome(f)[i] = IF i = k THEN "varhome"
                                   ELSE IF h <= i /\ i < k THEN f[i + 1] ELSE f[i]
<1> DEFINE h == CHOOSE i \in Homes(f) : TRUE
           later == {v \in Vars(f) : h < v}
           n == Len(f)
<1>1. n \in Nat /\ DOMAIN f = 1..n /\ \A i \in 1..n : f[i] \in Entries
  BY LenProperties, ElementOfSeq
<1>2. h \in Homes(f) /\ h \in 1..n
  BY <1>1 DEF Homes, At
<1>3. "varhome" \in Entries
  BY DEF Entries
<1>4. MoveHome(f) = IF later = {} THEN [f EXCEPT ![h] = "varhome"]
                    ELSE InsertAt(RemoveAt(f, h), Max(later), "varhome")
  BY DEF MoveHome
<1>5. Vars(f) \subseteq 1..n
  BY <1>1 DEF Vars, At
<1> HIDE DEF h
<1>6. CASE later = {}
  <2>1. /\ MoveHome(f) \in Seq(Entries) /\ Len(MoveHome(f)) = n
        /\ \A i \in 1..n : MoveHome(f)[i] = IF i = h THEN "varhome" ELSE f[i]
    BY <1>1, <1>2, <1>3, <1>4, <1>6
  <2>2. h <= h /\ \A v \in Vars(f) : v <= h
    BY <1>1, <1>2, <1>5, <1>6
  <2>3. \A i \in 1..n : ~(h <= i /\ i < h)
    BY <1>1, <1>2
  <2> HIDE DEF n, later
  <2>4. QED
    BY <1>2, <2>1, <2>2, <2>3 DEF n
<1>7. CASE later # {}
  <2> DEFINE k == Max(later)
             g == RemoveAt(f, h)
  <2>1. later \in SUBSET (1..n)
    BY <1>5
  <2>2. k \in later /\ \A v \in later : v <= k
    BY <1>1, <1>7, <2>1, MaxExists
  <2>3. k \in 1..n /\ h < k /\ \A v \in Vars(f) : v <= k
    <3> HIDE DEF k
    <3>1. k \in 1..n /\ h < k
      BY <1>5, <2>2
    <3> HIDE DEF n
    <3>2. ASSUME NEW v \in Vars(f) PROVE v <= k
      <4>1. v \in 1..n /\ (h < v => v \in later)
        BY <1>5
      <4> HIDE DEF later
      <4>2. QED
        BY <1>1, <1>2, <2>2, <3>1, <4>1
    <3>3. QED
      BY <3>1, <3>2
  <2>4. MoveHome(f) = InsertAt(g, k, "varhome")
    BY <1>4, <1>7
  <2> HIDE DEF k, later
  <2>5. /\ g \in Seq(Entries) /\ Len(g) = n - 1
        /\ \A i \in 1..n - 1 : g[i] = IF i < h THEN f[i] ELSE f[i + 1]
    BY <1>2, RemoveAtPlaces
  <2> HIDE DEF g
  <2>6. k \in 1..Len(g) + 1 /\ Len(g) + 1 = n
    BY <1>1, <2>3, <2>5
  <2>7. /\ MoveHome(f) \in Seq(Entries) /\ Len(MoveHome(f)) = n
        /\ \A i \in 1..n :
             MoveHome(f)[i] = IF i = k THEN "varhome" ELSE IF i < k THEN g[i] ELSE g[i - 1]
    BY <1>3, <2>4, <2>5, <2>6, InsertAtPlaces
  <2> HIDE DEF n
  <2>8. ASSUME NEW i \in 1..n, i # k
        PROVE  MoveHome(f)[i] = IF h <= i /\ i < k THEN f[i + 1] ELSE f[i]
    <3>1. CASE i < k
      <4>1. i \in 1..n - 1 /\ (h <= i <=> ~(i < h))
        BY <1>1, <1>2, <2>3, <3>1
      <4>2. MoveHome(f)[i] = g[i]
        BY <2>7, <2>8, <3>1
      <4>3. QED
        BY <2>5, <3>1, <4>1, <4>2
    <3>2. CASE k < i
      <4>1. i - 1 \in 1..n - 1 /\ ~(i - 1 < h) /\ (i - 1) + 1 = i /\ ~(i < k)
        BY <1>1, <1>2, <2>3, <3>2
      <4>2. MoveHome(f)[i] = g[i - 1]
        BY <2>7, <2>8, <4>1
      <4>3. g[i - 1] = f[(i - 1) + 1]
        BY <2>5, <4>1
      <4>4. QED
        BY <4>1, <4>2, <4>3
    <3>3. i < k \/ k < i
      BY <1>1, <2>3, <2>8
    <3>4. QED
      BY <3>1, <3>2, <3>3
  <2>9. h <= k
    BY <1>1, <1>2, <2>3
  <2>10. QED
    BY <1>2, <2>3, <2>7, <2>8, <2>9 DEF n
<1>8. QED
  BY <1>6, <1>7

(* The script writes entries.                                              *)
LEMMA CorrectedType ==
    ASSUME NEW f \in Seq(Entries)
    PROVE  Corrected(f) \in Seq(Entries)
  BY CommentedType, MoveHomePlaces DEF Corrected

(* Entries that stay where they are stay in order.                         *)
LEMMA InPlace ==
    ASSUME NEW f, NEW F, NEW g, NEW G, At(f, F) = At(g, G),
           \A i \in At(f, F) : g[i] = f[i]
    PROVE  SameOrder(f, F, g, G)
<1> DEFINE m == [i \in At(f, F) |-> i]
<1>1. m \in Bijection(At(f, F), At(g, G))
  BY DEF Bijection, Injection, Surjection, IsInjective
<1>2. \A i \in At(f, F) : m[i] = i
  OBVIOUS
<1> HIDE DEF m
<1>3. QED
  BY <1>1, <1>2 DEF SameOrder

(* Without a /home to move only the root's comment changes (fix).          *)
LEMMA AgreesInPlace ==
    ASSUME NEW f \in Seq(Entries), At(f, {"rootcomment"}) = {}, ~(canonical /\ Homes(f) # {})
    PROVE  Agrees(f, Corrected(f)) /\ Corrected(Corrected(f)) = Corrected(f)
<1> DEFINE g == Commented(f)
<1>1. /\ Len(g) = Len(f) /\ DOMAIN g = 1..Len(f) /\ DOMAIN f = 1..Len(f)
      /\ \A i \in 1..Len(f) : g[i] = IF f[i] = "root" THEN "rootcomment" ELSE f[i]
      /\ Homes(g) = Homes(f)
  BY CommentedType
<1>2. Corrected(f) = g
  BY DEF Corrected
<1>3. \A i \in 1..Len(f) : f[i] \in Entries /\ f[i] # "rootcomment"
  BY <1>1, ElementOfSeq DEF At
<1>4. At(g, {"root"}) = {}
  BY <1>1 DEF At
<1>5. Corrected(g) = Commented(g)
  BY <1>1 DEF Corrected
<1>6. Commented(g) = g
  BY <1>1, <1>4 DEF Commented, At
<1> HIDE DEF g
<1>7. SameOrder(f, {"other", "var"}, g, {"other", "var"})
  <2>1. At(f, {"other", "var"}) = At(g, {"other", "var"})
    BY <1>1 DEF At
  <2>2. \A i \in At(f, {"other", "var"}) : g[i] = f[i]
    BY <1>1 DEF At
  <2>3. QED
    BY <2>1, <2>2, InPlace
<1>8. SameOrder(f, Entries \ {"root"}, g, Entries \ {"rootcomment"})
  <2>1. At(f, Entries \ {"root"}) = At(g, Entries \ {"rootcomment"})
    BY <1>1, <1>3 DEF At
  <2>2. \A i \in At(f, Entries \ {"root"}) : g[i] = f[i]
    BY <1>1 DEF At
  <2>3. QED
    BY <2>1, <2>2, InPlace
<1>9. QED
  BY <1>1, <1>2, <1>4, <1>5, <1>6, <1>7, <1>8 DEF Agrees

(* With a /home to move nothing else changes its order, and correcting the *)
(* result once more changes nothing (fix).                                 *)
LEMMA AgreesMoved ==
    ASSUME NEW f \in Seq(Entries), At(f, {"rootcomment"}) = {}, canonical, NEW x, Homes(f) = {x}
    PROVE  Agrees(f, Corrected(f)) /\ Corrected(Corrected(f)) = Corrected(f)
<1> DEFINE c == Commented(f)
           g == MoveHome(c)
           n == Len(f)
<1>1. /\ c \in Seq(Entries) /\ Len(c) = n
      /\ DOMAIN c = 1..n /\ DOMAIN f = 1..n
      /\ \A i \in 1..n : c[i] = IF f[i] = "root" THEN "rootcomment" ELSE f[i]
      /\ Homes(c) = {x} /\ Vars(c) = Vars(f)
  BY CommentedType
<1>2. Corrected(f) = g
  BY DEF Corrected
<1> HIDE DEF c
<1>3. PICK h \in {x}, k \in 1..n :
        /\ g \in Seq(Entries) /\ Len(g) = n
        /\ h <= k /\ \A v \in Vars(c) : v <= k
        /\ \A i \in 1..n : g[i] = IF i = k THEN "varhome"
                                  ELSE IF h <= i /\ i < k THEN c[i + 1] ELSE c[i]
  <2>1. Homes(c) = {x} /\ Homes(c) # {} /\ c \in Seq(Entries) /\ Len(c) = n
    BY <1>1
  <2>2. \E h \in Homes(c), k \in 1..Len(c) :
          /\ g \in Seq(Entries) /\ Len(g) = Len(c)
          /\ h <= k /\ \A v \in Vars(c) : v <= k
          /\ \A i \in 1..Len(c) : g[i] = IF i = k THEN "varhome"
                                         ELSE IF h <= i /\ i < k THEN c[i + 1] ELSE c[i]
    BY <2>1, MoveHomePlaces
  <2> HIDE DEF g, n
  <2>3. QED
    BY <2>1, <2>2
<1> HIDE DEF g
<1>4. n \in Nat /\ DOMAIN g = 1..n
  BY <1>3, LenProperties
<1> HIDE DEF n
<1>5. h \in 1..n /\ Homes(c) = {h} /\ Homes(f) = {h}
  BY <1>1, <1>3 DEF Homes, At
<1>6. \A i \in 1..n : (c[i] \in {"home", "varhome"} <=> i = h)
                      /\ (f[i] \in {"home", "varhome"} <=> i = h)
  BY <1>1, <1>5 DEF Homes, At
<1>7. \A i \in 1..n : h <= i /\ i < k => i + 1 \in 1..n /\ i + 1 # h /\ i + 1 > h /\ i + 1 <= k
  BY <1>4, <1>5
<1>8. At(g, {"root"}) = {}
  <2>1. \A i \in 1..n : c[i] # "root"
    BY <1>1
  <2>2. \A i \in 1..n : g[i] # "root"
    BY <1>3, <1>7, <2>1
  <2>3. QED
    BY <1>4, <2>2 DEF At
<1>9. Homes(g) = {k} /\ g[k] = "varhome"
  <2>1. ASSUME NEW i \in 1..n, i # k PROVE g[i] \notin {"home", "varhome"}
    <3>1. CASE h <= i /\ i < k
      BY <1>3, <1>6, <1>7, <2>1, <3>1
    <3>2. CASE ~(h <= i /\ i < k)
      <4>1. i # h
        BY <1>3, <1>4, <1>5, <2>1, <3>2
      <4>2. g[i] = c[i]
        BY <1>3, <2>1, <3>2
      <4>3. QED
        BY <1>6, <4>1, <4>2
    <3>3. QED
      BY <3>1, <3>2
  <2>2. QED
    BY <1>3, <1>4, <2>1 DEF Homes, At
<1>10. \A v \in 1..n : g[v] = "var" => v < k
  <2>1. ASSUME NEW v \in 1..n, g[v] = "var", ~(v < k) PROVE FALSE
    <3>1. v # k /\ v > k
      BY <1>3, <1>4, <2>1
    <3>2. c[v] = "var"
      BY <1>3, <2>1, <3>1
    <3>3. v <= k
      BY <1>1, <1>3, <3>2 DEF Vars, At
    <3>4. QED
      BY <1>4, <3>1, <3>3
  <2>2. QED
    BY <2>1
<1>11. SameOrder(f, {"other", "var"}, g, {"other", "var"})
  <2> DEFINE F == At(f, {"other", "var"})
             G == At(g, {"other", "var"})
             to(i) == IF h < i /\ i <= k THEN i - 1 ELSE i
             m == [i \in F |-> to(i)]
  <2>1. \A i \in F : i \in 1..n /\ f[i] \in {"other", "var"} /\ i # h /\ c[i] = f[i]
    BY <1>1, <1>6 DEF At
  <2>2. ASSUME NEW i \in F
        PROVE  to(i) \in 1..n /\ to(i) # k /\ g[to(i)] = f[i]
    <3>1. CASE h < i /\ i <= k
      <4>1. /\ i - 1 \in 1..n /\ i - 1 # k /\ h <= i - 1 /\ i - 1 < k /\ (i - 1) + 1 = i
            /\ to(i) = i - 1
        BY <1>4, <1>5, <2>1, <3>1
      <4>2. g[i - 1] = c[(i - 1) + 1]
        BY <1>3, <4>1
      <4>3. QED
        BY <2>1, <4>1, <4>2
    <3>2. CASE ~(h < i /\ i <= k)
      <4>1. i # k /\ ~(h <= i /\ i < k) /\ to(i) = i
        BY <1>3, <1>4, <1>5, <2>1, <3>2
      <4>2. g[i] = c[i]
        BY <1>3, <2>1, <4>1
      <4>3. QED
        BY <2>1, <4>1, <4>2
    <3>3. QED
      BY <3>1, <3>2
  <2>3. \A i \in F : to(i) \in G
    BY <1>4, <2>1, <2>2 DEF At
  <2>4. \A i, j \in F : i < j => to(i) < to(j)
    BY <1>4, <1>5, <2>1
  <2>5. \A i, j \in F : to(i) = to(j) => i = j
    BY <1>4, <1>5, <2>1
  <2>6. ASSUME NEW j \in G PROVE \E i \in F : to(i) = j
    <3>1. j \in 1..n /\ g[j] \in {"other", "var"} /\ j # k
      BY <1>4, <1>9 DEF At
    <3>2. CASE h <= j /\ j < k
      <4>1. j + 1 \in 1..n /\ g[j] = c[j + 1] /\ to(j + 1) = j
        BY <1>3, <1>4, <1>5, <1>7, <3>1, <3>2
      <4>2. j + 1 \in F
        BY <1>1, <3>1, <4>1 DEF At
      <4>3. QED
        BY <4>1, <4>2
    <3>3. CASE ~(h <= j /\ j < k)
      <4>1. g[j] = c[j] /\ to(j) = j
        BY <1>3, <1>4, <1>5, <3>1, <3>3
      <4>2. j \in F
        BY <1>1, <3>1, <4>1 DEF At
      <4>3. QED
        BY <4>1, <4>2
    <3>4. QED
      BY <3>2, <3>3
  <2>7. \A i \in F : m[i] = to(i)
    OBVIOUS
  <2>8. DOMAIN m = F /\ m \in [F -> G]
    BY <2>3
  <2> HIDE DEF F, G, to, m
  <2>9. m \in Bijection(F, G)
    BY <2>5, <2>6, <2>7, <2>8 DEF Bijection, Injection, Surjection, IsInjective
  <2>10. (\A i \in F : g[m[i]] = f[i]) /\ \A i, j \in F : i < j => m[i] < m[j]
    BY <2>2, <2>4, <2>7
  <2>11. QED
    BY <2>9, <2>10 DEF SameOrder, F, G
<1>12. Cardinality(Homes(g)) = Cardinality(Homes(f))
  BY <1>5, <1>9, FS_Singleton
<1>13. Agrees(f, g)
  BY <1>4, <1>8, <1>9, <1>10, <1>11, <1>12 DEF Agrees
<1>14. Corrected(g) = g
  <2>1. Commented(g) = g
    <3>1. \A i \in DOMAIN g : g[i] # "root"
      BY <1>8 DEF At
    <3>2. g = [i \in DOMAIN g |-> g[i]]
      BY <1>3, <1>4
    <3>3. QED
      BY <3>1, <3>2 DEF Commented
  <2>2. (CHOOSE i \in Homes(g) : TRUE) = k
    BY <1>9
  <2>3. {v \in Vars(g) : k < v} = {}
    BY <1>4, <1>10 DEF Vars, At
  <2>4. MoveHome(g) = [g EXCEPT ![k] = "varhome"]
    BY <2>2, <2>3 DEF MoveHome
  <2>5. [g EXCEPT ![k] = "varhome"] = g
    BY <1>3, <1>4, <1>9
  <2>6. QED
    BY <1>9, <2>1, <2>4, <2>5 DEF Corrected
<1>15. QED
  BY <1>2, <1>13, <1>14

(* What is not refused is corrected as a reader would, and once for all.    *)
LEMMA CorrectedAgrees ==
    ASSUME NEW f \in Seq(Entries), At(f, {"rootcomment"}) = {}, ~Refused(f)
    PROVE  Agrees(f, Corrected(f)) /\ Corrected(Corrected(f)) = Corrected(f)
<1>1. CASE ~(canonical /\ Homes(f) # {})
  BY <1>1, AgreesInPlace
<1>2. CASE canonical /\ Homes(f) # {}
  <2>1. Len(f) \in Nat /\ Homes(f) \in SUBSET (1..Len(f))
    BY LenProperties DEF Homes, At
  <2>2. IsFiniteSet(Homes(f))
    <3>1. IsFiniteSet(1..Len(f))
      BY <2>1, FS_Interval
    <3>2. QED
      BY <2>1, <3>1, FS_Subset
  <2>3. ~(Cardinality(Homes(f)) > 1)
    BY <1>2 DEF Refused
  <2>4. Cardinality(Homes(f)) \in Nat /\ Cardinality(Homes(f)) # 0
    BY <1>2, <2>2, FS_CardinalityType, FS_EmptySet
  <2>5. Cardinality(Homes(f)) = 1
    <3>1. \A a \in Nat : a # 0 /\ ~(a > 1) => a = 1
      OBVIOUS
    <3>2. QED
      BY <2>3, <2>4, <3>1
  <2>6. PICK x : Homes(f) = {x}
    BY <2>2, <2>5, FS_Singleton
  <2>7. QED
    BY <1>2, <2>6, AgreesMoved
<1>3. QED
  BY <1>1, <1>2

(* Anaconda and every step of the script write entries (FixNext).          *)
LEMMA FstabTyped ==
    ASSUME FstabType, WriteInstalled \/ FixNext \/ UNCHANGED fstabVars
    PROVE  FstabType'
<1> USE DEF FstabType
<1>1. CASE WriteInstalled
  <2>1. \A f \in Fstabs : f \in Seq(Entries)
    <3>1. ASSUME NEW n \in 0..MaxLines, NEW f \in [1..n -> Entries \ {"rootcomment"}]
          PROVE  f \in Seq(Entries)
      <4>1. n \in Nat /\ f \in [1..n -> Entries]
        BY FstabAssumption
      <4>2. QED
        BY <4>1, SeqDef
    <3>2. QED
      BY <3>1 DEF Fstabs
  <2>2. QED
    BY <1>1, <2>1 DEF WriteInstalled
<1>2. CASE Examine
  BY <1>2 DEF Examine
<1>3. <<>> \in Seq(Entries)
  OBVIOUS
<1>4. CASE StartBackup
  BY <1>3, <1>4 DEF StartBackup
<1>5. CASE FillBackup
  BY <1>5 DEF FillBackup
<1>6. CASE Truncate
  BY <1>3, <1>6 DEF Truncate
<1>7. CASE WriteCorrected
  <2>1. Corrected(backup.text) \in Seq(Entries)
    BY CorrectedType
  <2>2. QED
    BY <1>7, <2>1 DEF WriteCorrected
<1>8. CASE FixCut
  BY <1>8 DEF FixCut
<1>9. CASE FixAgain
  BY <1>9 DEF FixAgain
<1>10. CASE UNCHANGED fstabVars
  BY <1>10 DEF fstabVars
<1>11. QED
  BY <1>1, <1>2, <1>4, <1>5, <1>6, <1>7, <1>8, <1>9, <1>10 DEF FixNext

(* The script is never between the backup and the new text without a whole *)
(* backup of what Anaconda wrote, whatever earlier runs left (fix).        *)
LEMMA FstabBackedUp ==
    ASSUME BackupInv, WriteInstalled \/ FixNext \/ UNCHANGED fstabVars
    PROVE  BackupInv'
<1> USE DEF BackupInv, OriginalKept
<1>1. CASE WriteInstalled
  BY <1>1 DEF WriteInstalled
<1>2. CASE Examine
  BY <1>2 DEF Examine
<1>3. CASE StartBackup
  BY <1>3 DEF StartBackup
<1>4. CASE FillBackup
  BY <1>4 DEF FillBackup
<1>5. CASE Truncate
  BY <1>5 DEF Truncate
<1>6. CASE WriteCorrected
  BY <1>6 DEF WriteCorrected
<1>7. CASE FixCut
  BY <1>7 DEF FixCut
<1>8. CASE FixAgain
  BY <1>8 DEF FixAgain
<1>9. CASE UNCHANGED fstabVars
  BY <1>9 DEF fstabVars
<1>10. QED
  BY <1>1, <1>2, <1>3, <1>4, <1>5, <1>6, <1>7, <1>8, <1>9 DEF FixNext

(* Whatever run wrote the fstab last, it is the correction of what Anaconda*)
(* wrote or the empty file that a kill inside write_text leaves (fix).     *)
LEMMA FstabCorrected ==
    ASSUME BackupInv, CorrectionInv, WriteInstalled \/ FixNext \/ UNCHANGED fstabVars
    PROVE  CorrectionInv'
<1> USE DEF CorrectionInv
<1>1. CASE WriteInstalled
  <2>1. ASSUME NEW n \in 0..MaxLines, NEW f \in [1..n -> Entries \ {"rootcomment"}]
        PROVE  f \in Seq(Entries) /\ At(f, {"rootcomment"}) = {}
    <3>1. n \in Nat /\ f \in [1..n -> Entries]
      BY FstabAssumption
    <3>2. f \in Seq(Entries)
      BY <3>1, SeqDef
    <3>3. QED
      BY <3>2 DEF At
  <2>2. \A f \in Fstabs : f \in Seq(Entries) /\ At(f, {"rootcomment"}) = {}
    BY <2>1 DEF Fstabs
  <2>3. /\ fstab' = original' /\ fixer' = "start"
        /\ original' \in Seq(Entries) /\ At(original', {"rootcomment"}) = {}
    BY <1>1, <2>2 DEF WriteInstalled
  <2>4. QED
    BY <2>3 DEF At
<1>2. ASSUME UNCHANGED <<original, selected, canonical>>
      PROVE  /\ Refused(original)' <=> Refused(original)
             /\ Corrected(original)' = Corrected(original)
             /\ At(original, {"rootcomment"})' = {}
  BY <1>2 DEF Refused, Corrected, At, Homes, Vars, Commented, MoveHome
<1>3. CASE Examine
  BY <1>2, <1>3 DEF Examine, BackupInv, OriginalKept
<1>4. CASE StartBackup
  BY <1>2, <1>4 DEF StartBackup
<1>5. CASE FillBackup
  BY <1>2, <1>5 DEF FillBackup
<1>6. CASE Truncate
  BY <1>2, <1>6 DEF Truncate
<1>7. CASE WriteCorrected
  BY <1>2, <1>7 DEF WriteCorrected, BackupInv
<1>8. CASE FixCut
  BY <1>2, <1>8 DEF FixCut
<1>9. CASE FixAgain
  BY <1>2, <1>9 DEF FixAgain
<1>10. CASE UNCHANGED fstabVars
  BY <1>2, <1>10 DEF fstabVars
<1>11. QED
  BY <1>1, <1>3, <1>4, <1>5, <1>6, <1>7, <1>8, <1>9, <1>10 DEF FixNext

----------------------------------------------------------------------------
(* Disks and their names.                                                  *)

(* A disk that is plugged in finds a name: there are as many as disks.     *)
LEMMA NameIsFree ==
    ASSUME TypeOK, NEW d \in Disks, name[d] = 0
    PROVE  Min(Names \ {name[c] : c \in Plugged}) \in Names \ {name[c] : c \in Plugged}
<1> DEFINE used == {name[c] : c \in Plugged}
           f == [c \in Plugged |-> name[c]]
           n == Cardinality(Disks)
<1>1. n \in Nat /\ Plugged \in SUBSET (Disks \ {d})
  BY InstallationAssumption, FS_CardinalityType DEF Plugged
<1>2. IsFiniteSet(Disks \ {d}) /\ Cardinality(Disks \ {d}) = n - 1
  BY InstallationAssumption, FS_RemoveElement
<1>3. IsFiniteSet(Plugged) /\ Cardinality(Plugged) <= n - 1
  BY <1>1, <1>2, FS_Subset
<1>4. f \in Surjection(Plugged, used)
  BY DEF Surjection
<1>5. IsFiniteSet(used) /\ Cardinality(used) <= Cardinality(Plugged)
  BY <1>3, <1>4, FS_Surjection
<1>6. Cardinality(Names) = n /\ IsFiniteSet(Names)
  <2>1. 1 \in Int /\ n \in Int
    BY <1>1
  <2>2. IsFiniteSet(1..n) /\ Cardinality(1..n) = IF 1 > n THEN 0 ELSE n - 1 + 1
    BY <2>1, FS_Interval
  <2> HIDE DEF n
  <2>3. n \in Nat => (IF 1 > n THEN 0 ELSE n - 1 + 1) = n
    OBVIOUS
  <2>4. Names = 1..n
    BY DEF Names, n
  <2>5. QED
    BY <1>1, <2>2, <2>3, <2>4
<1>7. Names \ used # {}
  <2>1. SUFFICES ASSUME Names \subseteq used PROVE FALSE
    OBVIOUS
  <2>2. Cardinality(Names) <= Cardinality(used)
    BY <1>5, <2>1, FS_Subset
  <2>3. Cardinality(used) \in Nat /\ Cardinality(Plugged) \in Nat
    BY <1>3, <1>5, FS_CardinalityType
  <2>4. \A a, b, c \in Nat : c <= b /\ a <= c /\ b <= a - 1 => FALSE
    OBVIOUS
  <2> HIDE DEF n, used
  <2>5. QED
    BY <1>1, <1>3, <1>5, <1>6, <2>2, <2>3, <2>4
<1>8. Names \ used \in SUBSET Nat
  BY <1>1 DEF Names
<1>9. QED
  BY <1>7, <1>8, MinExists

----------------------------------------------------------------------------
(* Every step keeps each part of the invariant.                            *)

(* Types are kept, and a kernel name belongs to one disk (every action).   *)
LEMMA TypeStep ==
    ASSUME InstallInv, [Next]_vars
    PROVE  TypeOK'
<1> USE InstallationAssumption
<1> TypeOK /\ WorkspaceInv
  BY DEF InstallInv
<1>a. UNCHANGED fstabVars => FstabType'
  BY FstabTyped DEF TypeOK
<1>1. CASE ScanWorkspaces
  BY <1>1, <1>a DEF ScanWorkspaces, Candidates, Move, usb, choice, TypeOK, Plugged
<1>2. CASE DeclineWorkspace
  BY <1>2, <1>a DEF DeclineWorkspace, Move, usb, choice, TypeOK, Plugged
<1>3. CASE MountWorkspace
  BY <1>3, <1>a DEF MountWorkspace, Move, usb, choice, TypeOK, Plugged
<1>4. CASE Begin
  BY <1>4, <1>a DEF Begin, Move, usb, choice, TypeOK, Plugged
<1>5. CASE Choose("script")
  BY <1>5, <1>a DEF Choose, Move, usb, choice, TypeOK, Plugged
<1>6. CASE Choose("msi")
  BY <1>6, <1>a DEF Choose, Move, usb, choice, TypeOK, Plugged
<1>7. CASE MountSources
  BY <1>7, <1>a DEF MountSources, Move, usb, choice, TypeOK, Plugged
<1>8. CASE PickMsi
  BY <1>8, <1>a
     DEF PickMsi, ReadOnly, WorkspaceInv, Tools, Move, usb, choice, TypeOK, Plugged
<1>9. CASE Rescan
  BY <1>9, <1>a DEF Rescan, Move, usb, choice, TypeOK, Plugged
<1>10. CASE Prepare
  BY <1>10, <1>a DEF Prepare, Move, usb, choice, TypeOK, Plugged
<1>11. CASE ReleaseSources
  BY <1>11, <1>a DEF ReleaseSources, Move, usb, choice, TypeOK, Plugged
<1>12. CASE WriteKickstart
  BY <1>12, <1>a DEF WriteKickstart, Ignored, Move, usb, choice, TypeOK, Plugged
<1>13. CASE CutKickstart
  BY <1>13, <1>a DEF CutKickstart, Move, usb, choice, TypeOK, Plugged
<1>14. CASE HandOver
  BY <1>14, <1>a DEF HandOver, Move, usb, choice, TypeOK, Plugged
<1>15. CASE RunAgain
  BY <1>15, <1>a DEF RunAgain, Move, usb, choice, TypeOK, Plugged
<1>16. CASE \E from \in {"scan", "ask", "main", "menu", "msi", "pick", "write", "chvt"} : Fails(from)
  BY <1>16, <1>a DEF Fails, Move, usb, choice, TypeOK, Plugged
<1>17. CASE Launch
  BY <1>17, <1>a DEF Launch, Move, usb, choice, TypeOK, Plugged
<1>18. CASE Remount
  BY <1>18, <1>a DEF Remount, Move, usb, choice, TypeOK, Plugged
<1>19. CASE Session
  BY <1>19, <1>a DEF Session, Move, usb, choice, TypeOK, Plugged
<1>20. CASE Install
  BY <1>20, FstabTyped DEF Install, Move, usb, choice, TypeOK, Plugged
<1>21. CASE Post
  BY <1>21, FstabTyped DEF Post, usb, choice, TypeOK, Plugged
<1>22. ASSUME NEW d \in Disks, Unplug(d) PROVE TypeOK'
  BY <1>22, <1>a DEF Unplug, Move, usb, choice, TypeOK, Plugged
<1>23. ASSUME NEW d \in Disks, Plug(d) PROVE TypeOK'
  <2> DEFINE free == Min(Names \ {name[c] : c \in Plugged})
  <2>1. free \in Names /\ \A c \in Plugged : name[c] # free
    BY <1>23, NameIsFree DEF Plug
  <2>2. name' = [name EXCEPT ![d] = free] /\ name[d] = 0 /\ plugs < MaxPlugs /\ plugs' = plugs + 1
        /\ UNCHANGED <<pc, mounted, swapped, replugged, choice, ks, repo, bound, fstabVars>>
    BY <1>23 DEF Plug
  <2> HIDE DEF free
  <2>3. name' \in [Disks -> Names \cup {0}]
    BY <2>1, <2>2 DEF TypeOK
  <2>4. \A e \in Disks : name'[e] = IF e = d THEN free ELSE name[e]
    BY <2>2 DEF TypeOK
  <2>5. (\A c, e \in Plugged : name[c] = name[e] => c = e)'
    BY <2>1, <2>4 DEF TypeOK, Plugged
  <2>6. (\A e \in Disks \ Plugged : mounted[e] = "no")'
    BY <2>2, <2>4 DEF TypeOK, Plugged
  <2>7. plugs' \in 0..MaxPlugs
    BY <2>2 DEF TypeOK
  <2>8. QED
    BY <1>a, <2>2, <2>3, <2>5, <2>6, <2>7 DEF TypeOK, choice
<1>24. CASE UNCHANGED vars
  BY <1>24, <1>a DEF vars, usb, choice, TypeOK, Plugged
<1>25. QED
  BY <1>1, <1>2, <1>3, <1>4, <1>5, <1>6, <1>7, <1>8, <1>9, <1>10, <1>11, <1>12,
     <1>13, <1>14, <1>15, <1>16, <1>17, <1>18, <1>19, <1>20, <1>21, <1>22, <1>23, <1>24
     DEF Next, Console

(* Only the workspace's disk is mounted writable, or another took its name.*)
LEMMA DiskStep ==
    ASSUME InstallInv, [Next]_vars
    PROVE  DiskInv'
<1> USE InstallationAssumption
<1> USE DEF InstallInv, DiskInv, TypeOK, Plugged, Candidates, ReadOnly,
           Move, usb, choice
<1>1. CASE ScanWorkspaces
  BY <1>1 DEF ScanWorkspaces
<1>2. CASE DeclineWorkspace
  BY <1>2 DEF DeclineWorkspace
<1>3. CASE MountWorkspace
  BY <1>3 DEF MountWorkspace
<1>4. CASE Begin
  BY <1>4 DEF Begin
<1>5. CASE Choose("script")
  BY <1>5 DEF Choose
<1>6. CASE Choose("msi")
  BY <1>6 DEF Choose
<1>7. CASE MountSources
  BY <1>7 DEF MountSources
<1>8. CASE PickMsi
  BY <1>8 DEF PickMsi
<1>9. CASE Rescan
  BY <1>9 DEF Rescan
<1>10. CASE Prepare
  BY <1>10 DEF Prepare
<1>11. CASE ReleaseSources
  BY <1>11 DEF ReleaseSources
<1>12. CASE WriteKickstart
  BY <1>12 DEF WriteKickstart
<1>13. CASE CutKickstart
  BY <1>13 DEF CutKickstart
<1>14. CASE HandOver
  BY <1>14 DEF HandOver
<1>15. CASE RunAgain
  BY <1>15 DEF RunAgain
<1>16. CASE \E from \in {"scan", "ask", "main", "menu", "msi", "pick", "write", "chvt"} : Fails(from)
  BY <1>16 DEF Fails
<1>17. CASE Launch
  BY <1>17 DEF Launch
<1>18. CASE Remount
  BY <1>18 DEF Remount
<1>19. CASE Session
  BY <1>19 DEF Session
<1>20. CASE Install
  BY <1>20 DEF Install
<1>21. CASE Post
  BY <1>21 DEF Post
<1>22. ASSUME NEW d \in Disks, Unplug(d) PROVE DiskInv'
  BY <1>22 DEF Unplug
<1>23. ASSUME NEW d \in Disks, Plug(d) PROVE DiskInv'
  BY <1>23 DEF Plug
<1>24. CASE UNCHANGED vars
  BY <1>24 DEF vars
<1>25. QED
  BY <1>1, <1>2, <1>3, <1>4, <1>5, <1>6, <1>7, <1>8, <1>9, <1>10, <1>11, <1>12,
     <1>13, <1>14, <1>15, <1>16, <1>17, <1>18, <1>19, <1>20, <1>21, <1>22, <1>23, <1>24
     DEF Next, Console

(* The workspace stays mounted under its name to the end (installer_prepare).*)
LEMMA WorkspaceStep ==
    ASSUME InstallInv, [Next]_vars
    PROVE  WorkspaceInv'
<1> USE InstallationAssumption
<1> USE DEF InstallInv, WorkspaceInv, KickstartInv, TypeOK, Tools, Excluding, Plugged, ReadOnly,
           Move, usb, choice
<1>1. CASE ScanWorkspaces
  BY <1>1 DEF ScanWorkspaces
<1>2. CASE DeclineWorkspace
  BY <1>2 DEF DeclineWorkspace
<1>3. CASE MountWorkspace
  BY <1>3 DEF MountWorkspace
<1>4. CASE Begin
  BY <1>4 DEF Begin
<1>5. CASE Choose("script")
  BY <1>5 DEF Choose
<1>6. CASE Choose("msi")
  BY <1>6 DEF Choose
<1>7. CASE MountSources
  BY <1>7 DEF MountSources
<1>8. CASE PickMsi
  BY <1>8 DEF PickMsi
<1>9. CASE Rescan
  BY <1>9 DEF Rescan
<1>10. CASE Prepare
  BY <1>10 DEF Prepare
<1>11. CASE ReleaseSources
  BY <1>11 DEF ReleaseSources
<1>12. CASE WriteKickstart
  BY <1>12 DEF WriteKickstart
<1>13. CASE CutKickstart
  BY <1>13 DEF CutKickstart
<1>14. CASE HandOver
  BY <1>14 DEF HandOver
<1>15. CASE RunAgain
  BY <1>15 DEF RunAgain
<1>16. CASE \E from \in {"scan", "ask", "main", "menu", "msi", "pick", "write", "chvt"} : Fails(from)
  BY <1>16 DEF Fails
<1>17. CASE Launch
  BY <1>17 DEF Launch
<1>18. CASE Remount
  BY <1>18 DEF Remount
<1>19. CASE Session
  BY <1>19 DEF Session
<1>20. CASE Install
  BY <1>20 DEF Install
<1>21. CASE Post
  BY <1>21 DEF Post
<1>22. ASSUME NEW d \in Disks, Unplug(d) PROVE WorkspaceInv'
  BY <1>22 DEF Unplug
<1>23. ASSUME NEW d \in Disks, Plug(d) PROVE WorkspaceInv'
  BY <1>23 DEF Plug
<1>24. CASE UNCHANGED vars
  BY <1>24 DEF vars
<1>25. QED
  BY <1>1, <1>2, <1>3, <1>4, <1>5, <1>6, <1>7, <1>8, <1>9, <1>10, <1>11, <1>12,
     <1>13, <1>14, <1>15, <1>16, <1>17, <1>18, <1>19, <1>20, <1>21, <1>22, <1>23, <1>24
     DEF Next, Console

(* The MSI's disk keeps its name as long as it stays (usb_msi_files).      *)
LEMMA MsiStep ==
    ASSUME InstallInv, [Next]_vars
    PROVE  MsiInv'
<1> USE InstallationAssumption
<1> USE DEF InstallInv, MsiInv, WorkspaceInv, TypeOK, Tools, Plugged, ReadOnly,
           Move, usb, choice
<1>1. CASE ScanWorkspaces
  BY <1>1 DEF ScanWorkspaces
<1>2. CASE DeclineWorkspace
  BY <1>2 DEF DeclineWorkspace
<1>3. CASE MountWorkspace
  BY <1>3 DEF MountWorkspace
<1>4. CASE Begin
  BY <1>4 DEF Begin
<1>5. CASE Choose("script")
  BY <1>5 DEF Choose
<1>6. CASE Choose("msi")
  BY <1>6 DEF Choose
<1>7. CASE MountSources
  BY <1>7 DEF MountSources
<1>8. CASE PickMsi
  BY <1>8 DEF PickMsi
<1>9. CASE Rescan
  BY <1>9 DEF Rescan
<1>10. CASE Prepare
  BY <1>10 DEF Prepare
<1>11. CASE ReleaseSources
  BY <1>11 DEF ReleaseSources
<1>12. CASE WriteKickstart
  BY <1>12 DEF WriteKickstart
<1>13. CASE CutKickstart
  BY <1>13 DEF CutKickstart
<1>14. CASE HandOver
  BY <1>14 DEF HandOver
<1>15. CASE RunAgain
  BY <1>15 DEF RunAgain
<1>16. CASE \E from \in {"scan", "ask", "main", "menu", "msi", "pick", "write", "chvt"} : Fails(from)
  BY <1>16 DEF Fails
<1>17. CASE Launch
  BY <1>17 DEF Launch
<1>18. CASE Remount
  BY <1>18 DEF Remount
<1>19. CASE Session
  BY <1>19 DEF Session
<1>20. CASE Install
  BY <1>20 DEF Install
<1>21. CASE Post
  BY <1>21 DEF Post
<1>22. ASSUME NEW d \in Disks, Unplug(d) PROVE MsiInv'
  BY <1>22 DEF Unplug
<1>23. ASSUME NEW d \in Disks, Plug(d) PROVE MsiInv'
  BY <1>23 DEF Plug
<1>24. CASE UNCHANGED vars
  BY <1>24 DEF vars
<1>25. QED
  BY <1>1, <1>2, <1>3, <1>4, <1>5, <1>6, <1>7, <1>8, <1>9, <1>10, <1>11, <1>12,
     <1>13, <1>14, <1>15, <1>16, <1>17, <1>18, <1>19, <1>20, <1>21, <1>22, <1>23, <1>24
     DEF Next, Console

(* No step changes what the kickstart was written from (kickstart).        *)
LEMMA KickstartStep ==
    ASSUME InstallInv, [Next]_vars
    PROVE  KickstartInv'
<1> USE InstallationAssumption
<1> USE DEF InstallInv, KickstartInv, Excluding, Ignored, TypeOK,
           Move, usb, choice
<1>1. CASE ScanWorkspaces
  BY <1>1 DEF ScanWorkspaces
<1>2. CASE DeclineWorkspace
  BY <1>2 DEF DeclineWorkspace
<1>3. CASE MountWorkspace
  BY <1>3 DEF MountWorkspace
<1>4. CASE Begin
  BY <1>4 DEF Begin
<1>5. CASE Choose("script")
  BY <1>5 DEF Choose
<1>6. CASE Choose("msi")
  BY <1>6 DEF Choose
<1>7. CASE MountSources
  BY <1>7 DEF MountSources
<1>8. CASE PickMsi
  BY <1>8 DEF PickMsi
<1>9. CASE Rescan
  BY <1>9 DEF Rescan
<1>10. CASE Prepare
  BY <1>10 DEF Prepare
<1>11. CASE ReleaseSources
  BY <1>11 DEF ReleaseSources
<1>12. CASE WriteKickstart
  BY <1>12 DEF WriteKickstart
<1>13. CASE CutKickstart
  BY <1>13 DEF CutKickstart
<1>14. CASE HandOver
  BY <1>14 DEF HandOver
<1>15. CASE RunAgain
  BY <1>15 DEF RunAgain
<1>16. CASE \E from \in {"scan", "ask", "main", "menu", "msi", "pick", "write", "chvt"} : Fails(from)
  BY <1>16 DEF Fails
<1>17. CASE Launch
  BY <1>17 DEF Launch
<1>18. CASE Remount
  BY <1>18 DEF Remount
<1>19. CASE Session
  BY <1>19 DEF Session
<1>20. CASE Install
  BY <1>20 DEF Install
<1>21. CASE Post
  BY <1>21 DEF Post
<1>22. ASSUME NEW d \in Disks, Unplug(d) PROVE KickstartInv'
  BY <1>22 DEF Unplug
<1>23. ASSUME NEW d \in Disks, Plug(d) PROVE KickstartInv'
  BY <1>23 DEF Plug
<1>24. CASE UNCHANGED vars
  BY <1>24 DEF vars
<1>25. QED
  BY <1>1, <1>2, <1>3, <1>4, <1>5, <1>6, <1>7, <1>8, <1>9, <1>10, <1>11, <1>12,
     <1>13, <1>14, <1>15, <1>16, <1>17, <1>18, <1>19, <1>20, <1>21, <1>22, <1>23, <1>24
     DEF Next, Console

(* Each launch leaves the medium read-only or a mark of its stop (main).   *)
LEMMA LiveStep ==
    ASSUME InstallInv, [Next]_vars
    PROVE  LiveInv'
<1> USE InstallationAssumption
<1> USE DEF InstallInv, LiveInv, TypeOK, KickstartInv,
           Move, usb, choice
<1>1. CASE ScanWorkspaces
  BY <1>1 DEF ScanWorkspaces
<1>2. CASE DeclineWorkspace
  BY <1>2 DEF DeclineWorkspace
<1>3. CASE MountWorkspace
  BY <1>3 DEF MountWorkspace
<1>4. CASE Begin
  BY <1>4 DEF Begin
<1>5. CASE Choose("script")
  BY <1>5 DEF Choose
<1>6. CASE Choose("msi")
  BY <1>6 DEF Choose
<1>7. CASE MountSources
  BY <1>7 DEF MountSources
<1>8. CASE PickMsi
  BY <1>8 DEF PickMsi
<1>9. CASE Rescan
  BY <1>9 DEF Rescan
<1>10. CASE Prepare
  BY <1>10 DEF Prepare
<1>11. CASE ReleaseSources
  BY <1>11 DEF ReleaseSources
<1>12. CASE WriteKickstart
  BY <1>12 DEF WriteKickstart
<1>13. CASE CutKickstart
  BY <1>13 DEF CutKickstart
<1>14. CASE HandOver
  BY <1>14 DEF HandOver
<1>15. CASE RunAgain
  BY <1>15 DEF RunAgain
<1>16. CASE \E from \in {"scan", "ask", "main", "menu", "msi", "pick", "write", "chvt"} : Fails(from)
  BY <1>16 DEF Fails
<1>17. CASE Launch
  BY <1>17 DEF Launch
<1>18. CASE Remount
  BY <1>18 DEF Remount
<1>19. CASE Session
  BY <1>19 DEF Session
<1>20. CASE Install
  BY <1>20 DEF Install
<1>21. CASE Post
  BY <1>21 DEF Post
<1>22. ASSUME NEW d \in Disks, Unplug(d) PROVE LiveInv'
  BY <1>22 DEF Unplug
<1>23. ASSUME NEW d \in Disks, Plug(d) PROVE LiveInv'
  BY <1>23 DEF Plug
<1>24. CASE UNCHANGED vars
  BY <1>24 DEF vars
<1>25. QED
  BY <1>1, <1>2, <1>3, <1>4, <1>5, <1>6, <1>7, <1>8, <1>9, <1>10, <1>11, <1>12,
     <1>13, <1>14, <1>15, <1>16, <1>17, <1>18, <1>19, <1>20, <1>21, <1>22, <1>23, <1>24
     DEF Next, Console

(* Only the script and Anaconda write the fstab.                           *)
LEMMA FstabStep ==
    ASSUME InstallInv, [Next]_vars
    PROVE  BackupInv' /\ CorrectionInv'
<1>1. WriteInstalled \/ FixNext \/ UNCHANGED fstabVars
  BY
     DEF vars, Next, Console, ScanWorkspaces, DeclineWorkspace, MountWorkspace, Begin, Choose,
         MountSources, PickMsi, Rescan, Prepare, ReleaseSources, WriteKickstart, CutKickstart,
         HandOver, RunAgain, Fails, Launch, Remount, Session, Install, Post, Unplug, Plug
<1>2. QED
  BY <1>1, FstabBackedUp, FstabCorrected DEF InstallInv

(* The parts together are inductive.                                       *)
THEOREM InstallInvariant == Spec => []InstallInv
<1>1. Init => InstallInv
  <2> SUFFICES ASSUME Init PROVE InstallInv
    OBVIOUS
  <2>1. <<>> \in Seq(Entries)
    OBVIOUS
  <2>2. TypeOK
    <3>1. FstabType
      BY <2>1 DEF Init, FstabInit, FstabType, NoBackup
    <3>2. 0 \in 0..MaxPlugs
      BY InstallationAssumption
    <3>3. mounted \in [Disks -> {"no", "rw", "ro"}] /\ \A d \in Disks : mounted[d] = "no"
      BY DEF Init
    <3>4. \A c, d \in Plugged : name[c] = name[d] => c = d
      BY DEF Init, Plugged
    <3>5. QED
      BY <3>1, <3>2, <3>3, <3>4 DEF Init, TypeOK
  <2>3. DiskInv /\ WorkspaceInv /\ MsiInv /\ KickstartInv /\ LiveInv
    BY InstallationAssumption
       DEF Init, DiskInv, WorkspaceInv, MsiInv, KickstartInv, LiveInv,
       Tools, Excluding
  <2>4. BackupInv /\ CorrectionInv
    BY <2>1 DEF Init, FstabInit, BackupInv, OriginalKept, CorrectionInv, At
  <2>5. QED
    BY <2>2, <2>3, <2>4 DEF InstallInv
<1>2. InstallInv /\ [Next]_vars => InstallInv'
  BY TypeStep, DiskStep, WorkspaceStep, MsiStep, KickstartStep, LiveStep, FstabStep
     DEF InstallInv
<1>3. QED
  BY <1>1, <1>2, PTL DEF Spec

(* Every variable of the installation keeps its type, and two disks that   *)
(* are plugged in never share a kernel name.                               *)
THEOREM TypeCorrect == Spec => []TypeOK
<1>1. InstallInv => TypeOK
  BY DEF InstallInv
<1>2. QED
  BY <1>1, InstallInvariant, PTL

(* However disks come and go and preparations are run again, only the      *)
(* workspace is written, the kickstart spares the payload's disk and the   *)
(* MSI's, and Anaconda has its medium (release_workspace, installer_prepare*)
(* and launch-installer).                                                  *)
THEOREM MediaAreRespected == Spec => []MediaRespected
<1>1. InstallInv => OnlyWorkspaceWritten
  BY DEF InstallInv, DiskInv, OnlyWorkspaceWritten
<1>2. InstallInv => MediaSpared
  <2> SUFFICES ASSUME InstallInv, pc = "anaconda", ks # None
               PROVE  payload \notin Offered /\ (msi \in Offered => replugged)
    BY DEF MediaSpared
  <2>1. /\ workspace \in Disks /\ mounted[workspace] = "rw" /\ name[workspace] = work
        /\ ks = Ignored /\ payload = workspace
    BY DEF InstallInv, WorkspaceInv, KickstartInv, Excluding
  <2>2. name[workspace] # 0
    BY <2>1 DEF InstallInv, TypeOK, Plugged
  <2>3. payload \notin Offered
    BY <2>1, <2>2 DEF Offered, Ignored
  <2>4. msi \in Offered => replugged
    BY <2>1 DEF InstallInv, MsiInv, Offered, Plugged, Ignored
  <2>5. QED
    BY <2>3, <2>4
<1>3. InstallInv => SourceReady
  BY InstallationAssumption
     DEF InstallInv, SourceReady, WorkspaceInv, KickstartInv, LiveInv, Excluding
<1>4. QED
  BY <1>1, <1>2, <1>3, InstallInvariant, PTL DEF MediaRespected

(* Wherever the script is cut off and however often it is run again, what  *)
(* Anaconda wrote is in the fstab or in a whole backup of it, and a run    *)
(* that succeeds leaves that fstab corrected and nothing else touched, or  *)
(* found the empty one of a run cut off inside write_text (fix).           *)
THEOREM FstabIsSafe == Spec => []FstabSafe
<1>1. InstallInv => FstabSafe
  <2> SUFFICES ASSUME InstallInv PROVE FstabSafe
    OBVIOUS
  <2>1. OriginalKept
    BY DEF InstallInv, BackupInv
  <2>2. ASSUME fstab = Corrected(original), ~Refused(original)
        PROVE  Agrees(original, fstab) /\ Corrected(fstab) = fstab
    BY <2>2, CorrectedAgrees DEF InstallInv, CorrectionInv
  <2>3. QED
    BY <2>1, <2>2 DEF InstallInv, CorrectionInv, FstabSafe
<1>2. QED
  BY <1>1, InstallInvariant, PTL
=============================================================================
