--------------------------- MODULE InstalledFstab ---------------------------
(***************************************************************************)
(* The %post script that corrects the fstab Anaconda wrote, in place, for  *)
(* an installed system whose root is composefs (installer_fix_fstab.py).   *)
(*                                                                         *)
(* An fstab is the sequence of its entries, each known by what it mounts.  *)
(* A kill can cut the script off between any two of its writes, and the    *)
(* installer's shell allows to run it again.                               *)
(***************************************************************************)
EXTENDS Integers, SequencesExt

CONSTANT MaxLines  \* bound on the length of the fstab

ASSUME FstabAssumption == MaxLines \in Nat

\* "rootcomment" is the root entry commented out, "broken" a line with too
\* few fields, "other" any mount the script does not look at.
Entries == {"root", "home", "var", "varhome", "rootcomment", "broken", "other"}
Fstabs == UNION {[1..n -> Entries \ {"rootcomment"}] : n \in 0..MaxLines}

VARIABLES
    fixer,      \* control state of the script
    fstab,      \* /etc/fstab
    original,   \* what Anaconda wrote, a history variable
    backup,     \* fstab.before-azurefin-composefs: none, partial or whole
    selected,   \* some boot entry selects the root entry and its subvolume
    canonical,  \* /home is the symbolic link to var/home
    cut         \* a kill left an empty fstab behind, a history variable

fstabVars == <<fixer, fstab, original, backup, selected, canonical, cut>>

At(f, mounts) == {i \in DOMAIN f : f[i] \in mounts}
Homes(f) == At(f, {"home", "varhome"})
Vars(f) == At(f, {"var"})

Refused(f) ==
    \/ At(f, {"broken"}) # {}
    \/ Cardinality(At(f, {"root"})) > 1
    \/ At(f, {"root"}) # {} /\ ~selected
    \/ /\ canonical /\ Homes(f) # {}
       /\ Cardinality(Homes(f)) > 1 \/ Cardinality(Vars(f)) > 1

Commented(f) == [i \in DOMAIN f |-> IF f[i] = "root" THEN "rootcomment" ELSE f[i]]

MoveHome_InPlace(f) == [i \in DOMAIN f |-> IF f[i] = "home" THEN "varhome" ELSE f[i]]

\* /home becomes /var/home and is mounted after /var.
MoveHome(f) ==
    LET h == CHOOSE i \in Homes(f) : TRUE
        later == {v \in Vars(f) : h < v}
    IN  IF later = {} THEN [f EXCEPT ![h] = "varhome"]
        ELSE InsertAt(RemoveAt(f, h), Max(later), "varhome")

Corrected(f) ==
    IF canonical /\ Homes(f) # {} THEN MoveHome(Commented(f)) ELSE Commented(f)

NoBackup == [is |-> "none", text |-> <<>>]

FstabInit ==
    /\ fixer = "none" /\ fstab = <<>> /\ original = <<>> /\ backup = NoBackup
    /\ selected = FALSE /\ canonical = FALSE /\ cut = FALSE

\* Anaconda has deployed the system and written its fstab: external.
WriteInstalled ==
    /\ \E f \in Fstabs : fstab' = f /\ original' = f
    /\ selected' \in BOOLEAN /\ canonical' \in BOOLEAN
    /\ fixer' = "start"
    /\ UNCHANGED <<backup, cut>>

\* fix() up to its first write; composefs that is not enabled refuses too.
Examine ==
    /\ fixer = "start"
    /\ \/ fixer' = "refused"
       \/ /\ ~Refused(fstab) /\ Corrected(fstab) = fstab
          /\ fixer' = "accepted"
       \/ /\ ~Refused(fstab) /\ Corrected(fstab) # fstab /\ backup.is = "none"
          /\ fixer' = "copy"
    /\ UNCHANGED <<fstab, original, backup, selected, canonical, cut>>

\* shutil.copy2 creates the backup and then fills it.
StartBackup ==
    /\ fixer = "copy" /\ fixer' = "fill"
    /\ backup' = [is |-> "partial", text |-> <<>>]
    /\ UNCHANGED <<fstab, original, selected, canonical, cut>>

FillBackup ==
    /\ fixer = "fill" /\ fixer' = "open"
    /\ backup' = [is |-> "whole", text |-> fstab]
    /\ UNCHANGED <<fstab, original, selected, canonical, cut>>

\* write_text truncates the file when it opens it and writes afterwards.
Truncate ==
    /\ fixer = "open" /\ fixer' = "write"
    /\ fstab' = <<>>
    /\ UNCHANGED <<original, backup, selected, canonical, cut>>

WriteCorrected ==
    /\ fixer = "write" /\ fixer' = "accepted"
    /\ fstab' = Corrected(backup.text)
    /\ UNCHANGED <<original, backup, selected, canonical, cut>>

\* A kill, or a write that fails, anywhere in the script.
FixCut ==
    /\ fixer \in {"start", "copy", "fill", "open", "write"}
    /\ fixer' = "killed" /\ cut' = (cut \/ fixer = "write")
    /\ UNCHANGED <<fstab, original, backup, selected, canonical>>

FixAgain ==
    /\ fixer \in {"killed", "refused", "accepted"} /\ fixer' = "start"
    /\ UNCHANGED <<fstab, original, backup, selected, canonical, cut>>

FixNext ==
    \/ Examine \/ StartBackup \/ FillBackup \/ Truncate \/ WriteCorrected
    \/ FixCut \/ FixAgain

----------------------------------------------------------------------------
FstabType ==
    /\ fixer \in {"none", "start", "copy", "fill", "open", "write",
                  "accepted", "refused", "killed"}
    /\ {fstab, original, backup.text} \subseteq Seq(Entries)
    /\ backup.is \in {"none", "partial", "whole"}
    /\ {selected, canonical, cut} \subseteq BOOLEAN

\* What Anaconda wrote is still somewhere, whole.
OriginalKept ==
    fstab = original \/ (backup.is = "whole" /\ backup.text = original)

\* g mounts what f mounts among these, and in the same order.
SameOrder(f, mountsF, g, mountsG) ==
    \E m \in Bijection(At(f, mountsF), At(g, mountsG)) :
        /\ \A i \in At(f, mountsF) : g[m[i]] = f[i]
        /\ \A i, j \in At(f, mountsF) : i < j => m[i] < m[j]

\* f, corrected to g, as a reader of the fstab would put it.
Agrees(f, g) ==
    /\ At(g, {"root"}) = {}
    /\ SameOrder(f, {"other", "var"}, g, {"other", "var"})
    /\ Cardinality(Homes(g)) = Cardinality(Homes(f))
    /\ IF canonical
       THEN \A h \in Homes(g), v \in DOMAIN g :
              g[h] = "varhome" /\ (g[v] = "var" => v < h)
       ELSE SameOrder(f, Entries \ {"root"}, g, Entries \ {"rootcomment"})

(* Whatever cuts the script off and however often it is run again, the     *)
(* fstab Anaconda wrote is recoverable; and when the script reports success*)
(* the fstab is that one corrected, with /var mounted before /var/home, no *)
(* composefs root and nothing else touched, unless an earlier run was cut  *)
(* off inside write_text: the empty file it leaves passes for "already     *)
(* correct" (fix).                                                         *)
FstabSafe ==
    /\ OriginalKept
    /\ fixer = "accepted" =>
         \/ Agrees(original, fstab) /\ Corrected(fstab) = fstab
         \/ cut /\ fstab = <<>>
============================================================================
