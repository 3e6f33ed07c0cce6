----------------------- MODULE BluetoothAddressProofs -----------------------
(***************************************************************************)
(* Proofs about BluetoothAddress and the flash reader of FactoryRecord, for*)
(* every flash, every sector size and every limit on what is read.         *)
(***************************************************************************)
EXTENDS BluetoothAddress, FiniteSetTheorems, TLAPS

Regions == Copies \cup {"gpt"}
Stages == {"first", "second", "directory", "record"}

Control == {"idle", "test", "load", "probe", "open", "read", "unload", "save"}
Modes == {"auto", "only", "manual"}
Events == {"module", "address", "unload", "killed"}

(* While the header is sought, only blocks before the first usable one are *)
(* read: a real header is at block 1, smaller sectors were tried before.   *)
HeaderInv ==
    reading = "header" =>
        /\ sector # 0
        /\ \A c \in Copies : seen[c] = {}
        /\ \A x \in seen["gpt"] : x < sector + sector

(* The table ends before the first usable block, and the last usable block *)
(* is on the flash.                                                        *)
TableInv ==
    reading = "table" =>
        /\ sector # 0
        /\ {gpt.first, gpt.last, gpt.table, gpt.length} \subseteq Nat
        /\ gpt.length > 0
        /\ gpt.table * sector + gpt.length <= gpt.first * sector
        /\ (gpt.last + 1) * sector <= format.size
        /\ \A c \in Copies : seen[c] = {}
        /\ \A x \in seen["gpt"] : x < gpt.first * sector

(* Two partitions that do not meet, behind the table; each copy was read   *)
(* within its own partition.                                               *)
CopiesInv ==
    reading \in Stages \cup {"done"} =>
        /\ ~Overlap(copies["DPP"], copies["DPP_BACKUP"])
        /\ \A c \in Copies :
             /\ copies[c].base + copies[c].length <= format.size
             /\ \A x \in seen["gpt"] : x < copies[c].base
             /\ \A x \in seen[c] : /\ copies[c].base <= x
                                   /\ x < copies[c].base + copies[c].length

(* One copy is read after the other, each from its start to its end: every *)
(* stage adds something to what was read before it.                        *)
StageInv ==
    reading \in Stages =>
        /\ length > 0
        /\ reading = "first" => place = 0
        /\ reading \in {"first", "second"} => length = HeaderLength
        /\ \A x \in seen[area] : x < copies[area].base + place
        /\ area = "DPP" => seen["DPP_BACKUP"] = {}
        /\ area = "DPP_BACKUP" => Cardinality(seen["DPP"]) >= 4
        /\ reading = "second" => Cardinality(seen[area]) >= 1
        /\ reading = "directory" => Cardinality(seen[area]) >= 2
        /\ reading = "record" => Cardinality(seen[area]) >= 3

DoneInv ==
    reading = "done" =>
        /\ values["DPP"] = values["DPP_BACKUP"] /\ values["DPP"] \in Addresses
        /\ \A c \in Copies : Cardinality(seen[c]) >= 4

ReaderInv ==
    /\ ReaderType
    /\ reading = "off" => Closed
    /\ HeaderInv /\ TableInv /\ CopiesInv /\ StageInv /\ DoneInv

(* Without anybody's interference the tool knows whose the module is.      *)
ModuleInv ==
    pc # "idle" /\ events \subseteq {"address"} =>
        /\ pc \in {"test", "load", "save"} => Present = before
        /\ pc = "load" => owned /\ ~before
        /\ pc \in {"probe", "open", "read", "unload"} =>
             /\ owned = ~before
             /\ ~owned => Present

(* A run whose modprobe -r failed is over, and what is to be saved is given*)
(* by hand or detected by an automatic run, which began without an address.*)
AddressInv ==
    /\ pc # "idle" => "unload" \notin events
    /\ pc = "save" => mode # "only"
    /\ pc # "idle" /\ mode = "auto" /\ "address" \notin events => config = None

BluetoothInv == TypeOK /\ ReaderInv /\ ModuleInv /\ AddressInv

----------------------------------------------------------------------------
(* Arithmetic.                                                             *)

(* A block that precedes another ends before it begins.                    *)
LEMMA BlocksInOrder ==
    ASSUME NEW a \in Nat, NEW b \in Nat, NEW s \in Nat, a <= b
    PROVE  a * s <= b * s /\ a * s \in Nat /\ b * s \in Nat
<1>1. PICK d \in Nat : b = a + d
  <2>1. b - a \in Nat /\ b = a + (b - a)
    OBVIOUS
  <2>2. QED
    BY <2>1
<1>2. (a + d) * s = a * s + d * s
  OBVIOUS
<1>3. a * s \in Nat /\ d * s \in Nat
  OBVIOUS
<1>4. QED
  BY <1>1, <1>2, <1>3

(* The blocks of a flash are on the flash.                                 *)
LEMMA BlocksFit ==
    ASSUME NEW n \in Nat, NEW s \in Nat \ {0}, NEW k \in Nat, k <= n \div s
    PROVE  k * s <= n
<1>1. n \div s \in Nat /\ n = s * (n \div s) + (n % s) /\ n % s \in Nat
  OBVIOUS
<1>2. k * s <= (n \div s) * s /\ (n \div s) * s \in Nat
  BY <1>1, BlocksInOrder
<1>3. (n \div s) * s = s * (n \div s)
  BY <1>1
<1>4. QED
  BY <1>1, <1>2, <1>3

(* Reading on from where the last read ended adds at least one unit.       *)
LEMMA ReadAdds ==
    ASSUME NEW b \in Nat, NEW p \in Nat, NEW n \in Nat \ {0}, NEW k \in Nat,
           NEW S \in SUBSET Nat, \A x \in S : b <= x /\ x < b + p,
           k = 0 \/ Cardinality(S) >= k
    PROVE  LET T == S \cup ((b + p)..(b + p + n - 1))
           IN  /\ Cardinality(T) >= k + 1
               /\ \A x \in T : b <= x /\ x < b + p + n
<1> DEFINE T == S \cup ((b + p)..(b + p + n - 1))
<1>1. S \subseteq b..(b + p - 1)
  OBVIOUS
<1>2. IsFiniteSet(S) /\ IsFiniteSet((b + p)..(b + p + n - 1))
  <2>1. b \in Int /\ b + p - 1 \in Int /\ b + p \in Int /\ b + p + n - 1 \in Int
    OBVIOUS
  <2>2. IsFiniteSet(b..(b + p - 1)) /\ IsFiniteSet((b + p)..(b + p + n - 1))
    BY <2>1, FS_Interval
  <2>3. QED
    BY <1>1, <2>2, FS_Subset
<1>3. IsFiniteSet(T) /\ Cardinality(T) \in Nat /\ Cardinality(S) \in Nat
  BY <1>2, FS_Union, FS_CardinalityType
<1>4. b + p \notin S /\ b + p \in T
  OBVIOUS
<1>5. /\ IsFiniteSet(S \cup {b + p})
      /\ Cardinality(S \cup {b + p}) = Cardinality(S) + 1
  BY <1>2, <1>4, FS_AddElement
<1>6. Cardinality(S \cup {b + p}) <= Cardinality(T)
  BY <1>3, <1>4, FS_Subset
<1>7. Cardinality(T) >= k + 1
  BY <1>3, <1>5, <1>6
<1>8. \A x \in T : b <= x /\ x < b + p + n
  OBVIOUS
<1>9. QED
  BY <1>7, <1>8

----------------------------------------------------------------------------
(* Opening, closing and the partition table.                               *)

(* The flash has a length and a sector size.                               *)
LEMMA FormatType ==
    ASSUME ReaderType
    PROVE  /\ format.size \in Nat /\ format.sector \in Sectors
           /\ Sectors \subseteq Nat \ {0} /\ Budget \in Nat /\ remaining \in Nat
           /\ \A r \in Regions : seen[r] \subseteq 0..format.size - 1 /\ seen[r] \subseteq Nat
  BY FactoryAssumption DEF ReaderType, Regions

(* A closed reader remembers nothing.                                      *)
LEMMA ClosedOK ==
    /\ Closed => ReaderInv
    /\ Close => Closed'
    /\ ReaderInv /\ Close => ReaderInv'
<1>1. AnyFormat \in Formats /\ AnyFormat.size \in Nat /\ Budget \in Nat
  BY FactoryAssumption DEF AnyFormat
<1>2. Closed => ReaderInv
  <2>1. SUFFICES ASSUME Closed PROVE ReaderInv
    OBVIOUS
  <2>2. ReaderType
    <3>1. copies \in [Copies -> [base : 0..format.size, length : 0..format.size]]
      BY <1>1, <2>1 DEF Closed, NoCopies
    <3>2. QED
      BY <1>1, <2>1, <3>1 DEF Closed, ReaderType, Copies
  <2>3. QED
    BY <2>1, <2>2 DEF ReaderInv, Closed, HeaderInv, TableInv, CopiesInv, StageInv, DoneInv,
                      Stages
<1>3. Close => Closed'
  BY DEF Close, Closed
<1>4. ReaderInv /\ Close => ReaderInv'
  <2>1. SUFFICES ASSUME Closed' PROVE ReaderInv'
    BY <1>3
  <2>2. ReaderType'
    <3>1. (copies \in [Copies -> [base : 0..format.size, length : 0..format.size]])'
      BY <1>1, <2>1 DEF Closed, NoCopies
    <3>2. QED
      BY <1>1, <2>1, <3>1 DEF Closed, ReaderType, Copies
  <2>3. QED
    BY <2>1, <2>2 DEF ReaderInv, Closed, HeaderInv, TableInv, CopiesInv, StageInv, DoneInv,
                      Stages
<1>5. QED
  BY <1>2, <1>3, <1>4

(* An opened reader seeks the header with the smallest sector size.        *)
LEMMA OpenOK == ReaderInv /\ reading = "off" /\ OpenReader => ReaderInv'
<1> SUFFICES ASSUME ReaderInv, reading = "off", OpenReader PROVE ReaderInv'
  OBVIOUS
<1>1. /\ reading' = "header" /\ format' \in Formats /\ remaining' = Budget
      /\ seen' = [a \in Regions |-> {}] /\ copies' = NoCopies
      /\ values' = values /\ area' = area /\ place' = place /\ length' = length
  BY DEF OpenReader, ReaderInv, Closed, Regions
<1>2. sector' \in Sectors /\ sector' # 0
  BY FactoryAssumption DEF OpenReader
<1>3. ReaderType'
  <2>1. format'.size \in Nat /\ Budget \in Nat
    BY <1>1, FactoryAssumption
  <2>2. (copies \in [Copies -> [base : 0..format.size, length : 0..format.size]])'
    BY <1>1, <2>1 DEF NoCopies
  <2>3. QED
    BY <1>1, <1>2, <2>1, <2>2 DEF ReaderType, ReaderInv, Regions
<1>4. QED
  BY <1>1, <1>2, <1>3 DEF ReaderInv, HeaderInv, TableInv, CopiesInv, StageInv, DoneInv,
                          Stages, Regions, Copies

(* A read stays within the flash and within the budget.                    *)
LEMMA PreadOK ==
    ASSUME ReaderType, NEW r \in Regions, NEW from \in Nat, NEW size \in Nat,
           Pread(r, from, size)
    PROVE  /\ remaining' \in 0..Budget /\ from + size <= format.size
           /\ seen' \in [Regions -> SUBSET (0..format.size - 1)]
           /\ seen'[r] = seen[r] \cup (from..from + size - 1)
           /\ \A q \in Regions \ {r} : seen'[q] = seen[q]
<1>1. format.size \in Nat /\ remaining \in 0..Budget /\ Budget \in Nat
  BY FormatType DEF ReaderType
<1>2. remaining' \in 0..Budget /\ from + size <= format.size
  BY <1>1 DEF Pread
<1>3. from..from + size - 1 \subseteq 0..format.size - 1
  BY <1>1, <1>2
<1>4. seen \in [Regions -> SUBSET (0..format.size - 1)]
  BY DEF ReaderType, Regions
<1>5. QED
  BY <1>2, <1>3, <1>4 DEF Pread

(* The next sector size is larger.                                         *)
LEMMA SkipHeaderOK == ReaderInv /\ SkipHeader => ReaderInv'
<1> SUFFICES ASSUME ReaderInv, SkipHeader PROVE ReaderInv'
  OBVIOUS
<1>1. /\ reading = "header" /\ Pread("gpt", sector, sector)
      /\ sector' \in Sectors /\ sector' > sector
      /\ UNCHANGED <<reading, format, gpt, copies, area, place, length, values>>
  BY DEF SkipHeader
<1>2. ReaderType /\ sector \in Nat /\ sector' \in Nat \ {0}
  BY <1>1, FactoryAssumption DEF ReaderInv, ReaderType
<1>3. /\ remaining' \in 0..Budget
      /\ seen' \in [Regions -> SUBSET (0..format.size - 1)]
      /\ seen'["gpt"] = seen["gpt"] \cup (sector..sector + sector - 1)
      /\ \A q \in Regions \ {"gpt"} : seen'[q] = seen[q]
  BY <1>1, <1>2, PreadOK DEF Regions
<1>4. ReaderType'
  BY <1>1, <1>2, <1>3 DEF ReaderType, Regions
<1>5. HeaderInv'
  <2>1. \A c \in Copies : seen'[c] = {}
    BY <1>1, <1>3 DEF ReaderInv, HeaderInv, Regions, Copies
  <2>2. \A x \in seen["gpt"] : x \in Nat /\ x < sector + sector
    BY <1>1, <1>2, FormatType DEF ReaderInv, HeaderInv, Regions
  <2>3. \A x \in seen'["gpt"] : x < sector' + sector'
    <3>1. \A x \in sector..sector + sector - 1 : x \in Nat /\ x < sector + sector
      BY <1>2
    <3>2. \A x \in seen'["gpt"] : x \in Nat /\ x < sector + sector
      BY <1>3, <2>2, <3>1
    <3>3. \A x, s, t \in Nat : x < s + s /\ t > s => x < t + t
      OBVIOUS
    <3>4. sector' \in Nat /\ sector' > sector
      BY <1>1, <1>2
    <3>5. QED
      BY <1>2, <3>2, <3>3, <3>4
  <2>4. QED
    BY <1>2, <2>1, <2>3 DEF HeaderInv
<1>6. QED
  BY <1>1, <1>4, <1>5 DEF ReaderInv, TableInv, CopiesInv, StageInv, DoneInv, Stages

(* The header's geometry puts the table before the first usable block.     *)
LEMMA ReadHeaderOK == ReaderInv /\ ReadHeader => ReaderInv'
<1> SUFFICES ASSUME ReaderInv, ReadHeader PROVE ReaderInv'
  OBVIOUS
<1> DEFINE blocks == format.size \div sector
<1>1. /\ reading = "header" /\ sector = format.sector /\ Pread("gpt", sector, sector)
      /\ reading' = "table"
      /\ UNCHANGED <<format, sector, copies, area, place, length, values>>
  BY DEF ReadHeader
<1>2. PICK first \in 2..blocks, last \in 2..blocks, table \in 2..blocks, size \in 1..TableLimit :
        /\ first <= last /\ last < blocks - 1
        /\ table * sector + size <= first * sector
        /\ gpt' = [first |-> first, last |-> last, table |-> table, length |-> size]
  BY DEF ReadHeader
<1>3. ReaderType /\ sector \in Nat \ {0} /\ format.size \in Nat /\ TableLimit \in Nat
  BY <1>1, FormatType, FactoryAssumption DEF ReaderInv
<1>4. blocks \in Nat
  BY <1>3
<1>5. first \in Nat /\ last \in Nat /\ table \in Nat /\ size \in Nat /\ size > 0 /\ 2 <= first
  BY <1>2, <1>3, <1>4
<1>6. /\ remaining' \in 0..Budget
      /\ seen' \in [Regions -> SUBSET (0..format.size - 1)]
      /\ seen'["gpt"] = seen["gpt"] \cup (sector..sector + sector - 1)
      /\ \A q \in Regions \ {"gpt"} : seen'[q] = seen[q]
  <2>1. "gpt" \in Regions /\ sector \in Nat
    BY <1>3 DEF Regions
  <2>2. QED
    BY <1>1, <1>3, <2>1, PreadOK
<1>7. ReaderType'
  BY <1>1, <1>3, <1>6 DEF ReaderType, Regions
<1>8. \A c \in Copies : seen'[c] = {}
  BY <1>1, <1>6 DEF ReaderInv, HeaderInv, Regions, Copies
<1>9. \A x \in seen'["gpt"] : x < first * sector
  <2>1. \A x \in seen["gpt"] : x \in Nat /\ x < sector + sector
    BY <1>1, <1>3, FormatType DEF ReaderInv, HeaderInv, Regions
  <2>2. \A x \in seen'["gpt"] : x \in Nat /\ x < sector + sector
    BY <1>3, <1>6, <2>1
  <2>3. 2 * sector <= first * sector /\ first * sector \in Nat
    BY <1>3, <1>5, BlocksInOrder
  <2>4. QED
    BY <1>3, <2>2, <2>3
<1>10. (last + 1) * sector <= format.size
  <2>1. last + 1 \in Nat /\ last + 1 <= blocks
    BY <1>2, <1>4, <1>5
  <2>2. QED
    BY <1>3, <2>1, BlocksFit
<1> HIDE DEF blocks
<1>11. TableInv'
  BY <1>1, <1>2, <1>3, <1>5, <1>8, <1>9, <1>10 DEF TableInv
<1>12. QED
  BY <1>1, <1>7, <1>11 DEF ReaderInv, HeaderInv, CopiesInv, StageInv, DoneInv, Stages

(* Both partitions lie behind the table and do not meet.                   *)
LEMMA ReadTableOK == ReaderInv /\ ReadTable => ReaderInv'
<1> SUFFICES ASSUME ReaderInv, ReadTable PROVE ReaderInv'
  OBVIOUS
<1> DEFINE pairs == {c \in (gpt.first..gpt.last) \X (gpt.first..gpt.last) : c[1] <= c[2]}
           usable == {Partition(b[1], b[2]) : b \in pairs}
<1>1. /\ reading = "table" /\ Pread("gpt", gpt.table * sector, gpt.length)
      /\ reading' = "first" /\ area' = "DPP" /\ place' = 0 /\ length' = HeaderLength
      /\ UNCHANGED <<format, sector, values>>
  BY DEF ReadTable, Then
<1>2. PICK p \in usable, q \in usable :
        ~Overlap(p, q) /\ copies' = [c \in Copies |-> IF c = "DPP" THEN p ELSE q]
  BY DEF ReadTable
<1>3. /\ ReaderType /\ sector \in Nat \ {0} /\ format.size \in Nat
      /\ gpt.first \in Nat /\ gpt.last \in Nat /\ gpt.table \in Nat
      /\ gpt.length \in Nat /\ gpt.length > 0
      /\ gpt.table * sector + gpt.length <= gpt.first * sector
      /\ (gpt.last + 1) * sector <= format.size
      /\ \A c \in Copies : seen[c] = {}
      /\ \A x \in seen["gpt"] : x \in Nat /\ x < gpt.first * sector
  BY <1>1, FormatType, FactoryAssumption DEF ReaderInv, TableInv, ReaderType, Regions
<1>4. ASSUME NEW part \in usable
      PROVE  /\ part = [base |-> part.base, length |-> part.length]
             /\ part.base \in Nat /\ part.length \in Nat
             /\ part.base + part.length <= format.size /\ gpt.first * sector <= part.base
  <2>1. PICK b \in pairs : part = Partition(b[1], b[2])
    BY <1>4
  <2>2. /\ b[1] \in gpt.first..gpt.last /\ b[2] \in gpt.first..gpt.last /\ b[1] <= b[2]
    BY <2>1
  <2> DEFINE s == b[1]
             n == b[2] - b[1] + 1
  <2>3. s \in Nat /\ n \in Nat /\ gpt.first <= s /\ s + n <= gpt.last + 1
    BY <1>3, <2>2
  <2>4. part = [base |-> s * sector, length |-> n * sector]
    BY <2>1 DEF Partition
  <2> HIDE DEF s, n
  <2>5. gpt.first * sector <= s * sector /\ s * sector \in Nat
    BY <1>3, <2>3, BlocksInOrder
  <2>6. n * sector \in Nat
    BY <1>3, <2>3
  <2>7. (s + n) * sector <= (gpt.last + 1) * sector
    <3>1. s + n \in Nat /\ gpt.last + 1 \in Nat
      BY <1>3, <2>3
    <3>2. QED
      BY <1>3, <2>3, <3>1, BlocksInOrder
  <2>8. (s + n) * sector = s * sector + n * sector
    BY <1>3, <2>3
  <2>9. (gpt.last + 1) * sector \in Nat
    BY <1>3
  <2>10. s * sector + n * sector <= format.size
    BY <1>3, <2>5, <2>6, <2>7, <2>8, <2>9
  <2>11. QED
    BY <2>4, <2>5, <2>6, <2>10
<1> HIDE DEF usable, pairs
<1>5. gpt.table * sector \in Nat /\ gpt.first * sector \in Nat
  BY <1>3
<1>6. /\ remaining' \in 0..Budget
      /\ seen' \in [Regions -> SUBSET (0..format.size - 1)]
      /\ seen'["gpt"] = seen["gpt"] \cup
                          (gpt.table * sector..gpt.table * sector + gpt.length - 1)
      /\ \A r \in Regions \ {"gpt"} : seen'[r] = seen[r]
  <2>1. "gpt" \in Regions
    BY DEF Regions
  <2>2. QED
    BY <1>1, <1>3, <1>5, <2>1, PreadOK
<1>7. copies'["DPP"] = p /\ copies'["DPP_BACKUP"] = q
  BY <1>2 DEF Copies
<1>8. ReaderType'
  <2>1. p \in [base : 0..format.size, length : 0..format.size]
        /\ q \in [base : 0..format.size, length : 0..format.size]
    BY <1>3, <1>4
  <2>2. copies' \in [Copies -> [base : 0..format.size, length : 0..format.size]]
    BY <1>2, <2>1
  <2>3. QED
    BY <1>1, <1>3, <1>6, <2>2 DEF ReaderType, Regions, Copies, HeaderLength
<1>9. \A c \in Copies : seen'[c] = {}
  BY <1>3, <1>6 DEF Regions, Copies
<1>10. \A x \in seen'["gpt"] : x \in Nat /\ x < gpt.first * sector
  BY <1>3, <1>5, <1>6
<1>11. \A c \in Copies : /\ copies'[c].base + copies'[c].length <= format.size
                         /\ gpt.first * sector <= copies'[c].base /\ copies'[c].base \in Nat
  BY <1>4, <1>7 DEF Copies
<1>12. CopiesInv'
  BY <1>1, <1>2, <1>5, <1>7, <1>9, <1>10, <1>11 DEF CopiesInv
<1>13. StageInv'
  BY <1>1, <1>9 DEF StageInv, Copies, HeaderLength
<1>14. QED
  BY <1>1, <1>8, <1>12, <1>13 DEF ReaderInv, HeaderInv, TableInv, DoneInv

----------------------------------------------------------------------------
(* The copies of the record.                                               *)

(* A read of a copy goes on where the last one ended.                      *)
LEMMA CopyReadOK ==
    ASSUME ReaderInv, reading \in Stages, CopyRead
    PROVE  /\ remaining' \in 0..Budget
           /\ seen' \in [Regions -> SUBSET (0..format.size - 1)]
           /\ \A r \in Regions \ {area} : seen'[r] = seen[r]
           /\ place + length <= copies[area].length
           /\ \A x \in seen'[area] : /\ copies[area].base <= x
                                     /\ x < copies[area].base + place + length
           /\ Cardinality(seen'[area]) >= 1
           /\ reading = "second" => Cardinality(seen'[area]) >= 2
           /\ reading = "directory" => Cardinality(seen'[area]) >= 3
           /\ reading = "record" => Cardinality(seen'[area]) >= 4
<1> DEFINE b == copies[area].base
<1>1. /\ ReaderType /\ area \in Copies /\ place \in Nat /\ length \in Nat /\ length > 0
      /\ b \in Nat /\ copies[area].length \in Nat
      /\ seen[area] \subseteq Nat
      /\ \A x \in seen[area] : b <= x /\ x < b + place
  <2>1. ReaderType /\ area \in Copies /\ area \in Regions /\ place \in Nat /\ length \in Nat
    BY DEF ReaderInv, ReaderType, Regions
  <2>2. copies[area] \in [base : 0..format.size, length : 0..format.size]
    BY <2>1 DEF ReaderType
  <2>3. format.size \in Nat /\ seen[area] \subseteq Nat
    BY <2>1, FormatType
  <2>4. b \in Nat /\ copies[area].length \in Nat
    BY <2>2, <2>3
  <2>5. length > 0 /\ \A x \in seen[area] : b <= x /\ x < b + place
    BY <2>1 DEF ReaderInv, CopiesInv, StageInv
  <2>6. QED
    BY <2>1, <2>3, <2>4, <2>5
<1>2. place + length <= copies[area].length /\ Pread(area, b + place, length)
  BY DEF CopyRead
<1> HIDE DEF b
<1>3. /\ remaining' \in 0..Budget
      /\ seen' \in [Regions -> SUBSET (0..format.size - 1)]
      /\ seen'[area] = seen[area] \cup (b + place..b + place + length - 1)
      /\ \A r \in Regions \ {area} : seen'[r] = seen[r]
  <2>1. area \in Regions /\ b + place \in Nat
    BY <1>1 DEF Regions
  <2>2. QED
    BY <1>1, <1>2, <2>1, PreadOK
<1>4. ASSUME NEW k \in Nat, k = 0 \/ Cardinality(seen[area]) >= k
      PROVE  /\ Cardinality(seen'[area]) >= k + 1
             /\ \A x \in seen'[area] : b <= x /\ x < b + place + length
  <2>1. length \in Nat \ {0}
    BY <1>1
  <2> DEFINE S == seen[area]
             T == S \cup ((b + place)..(b + place + length - 1))
  <2>2. Cardinality(T) >= k + 1 /\ \A x \in T : b <= x /\ x < b + place + length
    BY <1>1, <1>4, <2>1, ReadAdds
  <2>3. seen'[area] = T
    BY <1>3
  <2> HIDE DEF T
  <2>4. QED
    BY <2>2, <2>3
<1>5. Cardinality(seen'[area]) >= 0 + 1 /\ 0 + 1 = 1
      /\ \A x \in seen'[area] : b <= x /\ x < b + place + length
  BY <1>4
<1>6. reading = "second" => Cardinality(seen'[area]) >= 1 + 1 /\ 1 + 1 = 2
  BY <1>4 DEF ReaderInv, StageInv
<1>7. reading = "directory" => Cardinality(seen'[area]) >= 2 + 1 /\ 2 + 1 = 3
  BY <1>4 DEF ReaderInv, StageInv
<1>8. reading = "record" => Cardinality(seen'[area]) >= 3 + 1 /\ 3 + 1 = 4
  BY <1>4 DEF ReaderInv, StageInv
<1>9. QED
  BY <1>2, <1>3, <1>5, <1>6, <1>7, <1>8 DEF b

(* What was read of a copy stays within its partition.                     *)
LEMMA CopiesKept ==
    ASSUME ReaderInv, reading \in Stages, CopyRead, UNCHANGED <<format, copies>>
    PROVE  CopiesInv'
<1>1. /\ area \in Copies /\ place \in Nat /\ length \in Nat
      /\ \A c \in Copies : copies[c].base \in Nat /\ copies[c].length \in Nat
  <2>1. format.size \in Nat
    BY FormatType DEF ReaderInv
  <2>2. copies \in [Copies -> [base : 0..format.size, length : 0..format.size]]
    BY DEF ReaderInv, ReaderType
  <2>3. \A c \in Copies : copies[c].base \in Nat /\ copies[c].length \in Nat
    BY <2>1, <2>2
  <2>4. QED
    BY <2>3 DEF ReaderInv, ReaderType
<1>2. /\ \A r \in Regions \ {area} : seen'[r] = seen[r]
      /\ place + length <= copies[area].length
      /\ \A x \in seen'[area] : /\ copies[area].base <= x
                                /\ x < copies[area].base + place + length
      /\ seen' \in [Regions -> SUBSET (0..format.size - 1)]
  BY CopyReadOK
<1>3. seen'["gpt"] = seen["gpt"]
  BY <1>1, <1>2 DEF Regions, Copies
<1>4. ASSUME NEW c \in Copies, NEW x \in seen'[c]
      PROVE  copies[c].base <= x /\ x < copies[c].base + copies[c].length
  <2>1. CASE c = area
    <3>1. copies[c].base <= x /\ x < copies[c].base + place + length
      BY <1>2, <2>1
    <3>2. x \in Nat
      BY <1>2, <1>4, FormatType DEF Regions, ReaderInv
    <3>3. \A b, l, y \in Nat : place + length <= l /\ y < b + place + length => y < b + l
      BY <1>1
    <3>4. QED
      BY <1>1, <1>2, <2>1, <3>1, <3>2, <3>3
  <2>2. CASE c # area
    BY <1>2, <1>4, <2>2 DEF Regions, ReaderInv, CopiesInv
  <2>3. QED
    BY <2>1, <2>2
<1>5. ~Overlap(copies["DPP"], copies["DPP_BACKUP"])
      /\ \A c \in Copies : /\ copies[c].base + copies[c].length <= format.size
                           /\ \A x \in seen["gpt"] : x < copies[c].base
  BY DEF ReaderInv, CopiesInv
<1>6. QED
  BY <1>3, <1>4, <1>5 DEF CopiesInv

(* The headers and the directory: what is read next lies behind what was   *)
(* read.                                                                   *)
LEMMA ReadOnOK ==
    ASSUME ReaderInv, ReadFirst \/ ReadSecond \/ ReadDirectory
    PROVE  ReaderInv'
<1>1. /\ reading \in {"first", "second", "directory"} /\ CopyRead
      /\ UNCHANGED <<format, sector, gpt, copies, area, values>>
  BY DEF ReadFirst, ReadSecond, ReadDirectory
<1>2. /\ area \in Copies /\ place \in Nat /\ length \in Nat
      /\ copies[area].base \in Nat /\ copies[area].length \in Nat
      /\ DirectoryLimit \in Nat
  <2>1. format.size \in Nat
    BY FormatType DEF ReaderInv
  <2>2. copies[area] \in [base : 0..format.size, length : 0..format.size]
    BY DEF ReaderInv, ReaderType
  <2>3. copies[area].base \in Nat /\ copies[area].length \in Nat
    BY <2>1, <2>2
  <2>4. QED
    BY <2>3, FactoryAssumption DEF ReaderInv, ReaderType
<1>3. /\ remaining' \in 0..Budget
      /\ seen' \in [Regions -> SUBSET (0..format.size - 1)]
      /\ \A r \in Regions \ {area} : seen'[r] = seen[r]
      /\ \A x \in seen'[area] : /\ copies[area].base <= x
                                /\ x < copies[area].base + place + length
      /\ Cardinality(seen'[area]) >= 1
      /\ reading = "second" => Cardinality(seen'[area]) >= 2
      /\ reading = "directory" => Cardinality(seen'[area]) >= 3
  BY <1>1, CopyReadOK DEF Stages
<1>4. /\ place' \in Nat /\ length' \in Nat /\ length' > 0 /\ place + length <= place'
      /\ \/ reading = "first" /\ reading' = "second"
         \/ reading = "second" /\ reading' = "directory"
         \/ reading = "directory" /\ reading' = "record"
  <2>1. CASE ReadFirst
    <3>1. PICK at \in HeaderLength..copies[area].length : Then("second", at, HeaderLength)
      BY <2>1 DEF ReadFirst
    <3>2. place = 0 /\ length = HeaderLength
      BY <2>1 DEF ReadFirst, ReaderInv, StageInv, Stages
    <3>3. QED
      BY <1>2, <2>1, <3>1, <3>2 DEF ReadFirst, Then, HeaderLength
  <2>2. CASE ReadSecond
    <3>1. PICK table \in place + HeaderLength..copies[area].length, size \in 1..DirectoryLimit :
            Then("directory", table, size)
      BY <2>2 DEF ReadSecond
    <3>2. length = HeaderLength
      BY <2>2 DEF ReadSecond, ReaderInv, StageInv, Stages
    <3>3. QED
      BY <1>2, <2>2, <3>1, <3>2 DEF ReadSecond, Then, HeaderLength
  <2>3. CASE ReadDirectory
    <3>1. PICK start \in place + length..copies[area].length, offset \in 0..copies[area].length :
            Then("record", start + offset, RecordLength)
      BY <2>3 DEF ReadDirectory
    <3>2. QED
      BY <1>2, <2>3, <3>1 DEF ReadDirectory, Then, RecordLength
  <2>4. QED
    BY <2>1, <2>2, <2>3
<1>5. ReaderType'
  BY <1>1, <1>2, <1>3, <1>4 DEF ReaderInv, ReaderType, Regions
<1>6. CopiesInv'
  BY <1>1, CopiesKept DEF Stages
<1>7. \A x \in seen'[area] : x < copies[area].base + place'
  <2>1. \A x \in seen'[area] : x \in Nat
    BY <1>2, <1>3, FormatType DEF ReaderInv, Regions
  <2>2. \A x, y, b \in Nat : x < b + place + length /\ place + length <= y => x < b + y
    BY <1>2
  <2>3. QED
    BY <1>2, <1>3, <1>4, <2>1, <2>2
<1>8. /\ area = "DPP" => seen'["DPP_BACKUP"] = {}
      /\ area = "DPP_BACKUP" => Cardinality(seen'["DPP"]) >= 4
  BY <1>1, <1>3 DEF ReaderInv, StageInv, Stages, Regions, Copies
<1>9. reading' = "second" => length' = HeaderLength
  BY <1>1, <1>4 DEF ReadFirst, ReadSecond, ReadDirectory, Then
<1>10. StageInv'
  BY <1>1, <1>3, <1>4, <1>7, <1>8, <1>9 DEF StageInv
<1>11. QED
  BY <1>1, <1>4, <1>5, <1>6, <1>10 DEF ReaderInv, HeaderInv, TableInv, DoneInv

(* After the record of DPP the backup is read, from its start; after that  *)
(* of the backup both are there and agree.                                 *)
LEMMA ReadRecordOK == ReaderInv /\ ReadRecord => ReaderInv'
<1> SUFFICES ASSUME ReaderInv, ReadRecord PROVE ReaderInv'
  OBVIOUS
<1>1. reading = "record" /\ CopyRead /\ UNCHANGED <<format, sector, gpt, copies>>
  BY DEF ReadRecord
<1>2. PICK a \in Addresses :
        /\ values' = [values EXCEPT ![area] = a]
        /\ IF area = "DPP" THEN area' = "DPP_BACKUP" /\ Then("first", 0, HeaderLength)
           ELSE values["DPP"] = a /\ UNCHANGED area /\ Then("done", 0, 0)
  BY DEF ReadRecord
<1>3. area \in Copies /\ values \in [Copies -> Addresses \cup {None}]
  BY DEF ReaderInv, ReaderType
<1>4. /\ remaining' \in 0..Budget
      /\ seen' \in [Regions -> SUBSET (0..format.size - 1)]
      /\ \A r \in Regions \ {area} : seen'[r] = seen[r]
      /\ Cardinality(seen'[area]) >= 4
  BY <1>1, CopyReadOK DEF Stages
<1>5. ReaderType'
  BY <1>1, <1>2, <1>3, <1>4 DEF ReaderInv, ReaderType, Regions, Copies, Then, HeaderLength
<1>6. CopiesInv'
  BY <1>1, CopiesKept DEF Stages
<1>7. CASE area = "DPP"
  <2>1. /\ reading' = "first" /\ place' = 0 /\ length' = HeaderLength
        /\ area' = "DPP_BACKUP"
    BY <1>2, <1>7 DEF Then
  <2>2. seen'["DPP_BACKUP"] = {} /\ Cardinality(seen'["DPP"]) >= 4
    BY <1>1, <1>4, <1>7 DEF ReaderInv, StageInv, Stages, Regions, Copies
  <2>3. StageInv'
    BY <2>1, <2>2 DEF StageInv, HeaderLength
  <2>4. QED
    BY <1>5, <1>6, <2>1, <2>3 DEF ReaderInv, HeaderInv, TableInv, DoneInv
<1>8. CASE area = "DPP_BACKUP"
  <2>1. reading' = "done" /\ values["DPP"] = a
    BY <1>2, <1>8 DEF Then
  <2>2. values'["DPP"] = a /\ values'["DPP_BACKUP"] = a
    BY <1>2, <1>3, <1>8, <2>1 DEF Copies
  <2>3. \A c \in Copies : Cardinality(seen'[c]) >= 4
    BY <1>1, <1>4, <1>8 DEF ReaderInv, StageInv, Stages, Regions, Copies
  <2>4. DoneInv'
    BY <2>2, <2>3 DEF DoneInv
  <2>5. QED
    BY <1>5, <1>6, <2>1, <2>4 DEF ReaderInv, HeaderInv, TableInv, StageInv, Stages
<1>9. QED
  BY <1>3, <1>7, <1>8 DEF Copies

(* The reader's invariant survives everything the tool does with it.       *)
LEMMA ReaderSteps ==
    ASSUME ReaderInv,
           \/ reading = "off" /\ OpenReader
           \/ ReadStep \/ Close \/ UNCHANGED readerVars
    PROVE  ReaderInv'
<1>1. CASE UNCHANGED readerVars
  BY <1>1 DEF readerVars, ReaderInv, ReaderType, Closed, HeaderInv, TableInv, CopiesInv,
              Overlap, StageInv, DoneInv
<1>2. QED
  BY <1>1, OpenOK, ClosedOK, SkipHeaderOK, ReadHeaderOK, ReadTableOK, ReadOnOK, ReadRecordOK
     DEF ReadStep

(* What was read twice was read in places that do not meet.                *)
LEMMA IndependentCopies == ReaderInv => CopiesIndependent
<1> SUFFICES ASSUME ReaderInv PROVE CopiesIndependent
  OBVIOUS
<1>1. /\ DOMAIN seen = Regions /\ \A r \in Regions : seen[r] \subseteq Nat
      /\ reading \in {"off", "header", "table", "done"} \cup Stages
  BY FormatType DEF ReaderInv, ReaderType, Regions, Stages
<1>2. CASE reading \in {"off", "header", "table"}
  <2>1. \A c \in Copies : seen[c] = {}
    BY <1>2 DEF ReaderInv, Closed, HeaderInv, TableInv, Copies
  <2>2. QED
    BY <1>1, <1>2, <2>1 DEF CopiesIndependent, Regions, Copies
<1>3. CASE reading \in Stages \cup {"done"}
  <2>1. \A c \in Copies : copies[c].base \in Nat /\ copies[c].length \in Nat
    <3>1. format.size \in Nat
      BY FormatType DEF ReaderInv
    <3>2. copies \in [Copies -> [base : 0..format.size, length : 0..format.size]]
      BY DEF ReaderInv, ReaderType
    <3>3. QED
      BY <3>1, <3>2
  <2>2. ~Overlap(copies["DPP"], copies["DPP_BACKUP"])
        /\ \A c \in Copies :
             /\ \A x \in seen["gpt"] : x < copies[c].base
             /\ \A x \in seen[c] : /\ copies[c].base <= x
                                   /\ x < copies[c].base + copies[c].length
    BY <1>3 DEF ReaderInv, CopiesInv
  <2>3. \A c \in Copies : seen["gpt"] \cap seen[c] = {}
    <3>1. ASSUME NEW c \in Copies, NEW x \in Nat, x \in seen["gpt"], x \in seen[c] PROVE FALSE
      <4>1. x < copies[c].base /\ copies[c].base <= x
        BY <2>2, <3>1
      <4>2. QED
        BY <2>1, <3>1, <4>1
    <3>2. QED
      BY <1>1, <3>1 DEF Regions
  <2>4. seen["DPP"] \cap seen["DPP_BACKUP"] = {}
    <3>1. ASSUME NEW x \in Nat, x \in seen["DPP"], x \in seen["DPP_BACKUP"] PROVE FALSE
      <4>1. /\ copies["DPP"].base <= x /\ x < copies["DPP"].base + copies["DPP"].length
            /\ copies["DPP_BACKUP"].base <= x
            /\ x < copies["DPP_BACKUP"].base + copies["DPP_BACKUP"].length
        BY <2>2, <3>1 DEF Copies
      <4>2. /\ copies["DPP"].base \in Nat /\ copies["DPP"].length \in Nat
            /\ copies["DPP_BACKUP"].base \in Nat /\ copies["DPP_BACKUP"].length \in Nat
        BY <2>1 DEF Copies
      <4>3. QED
        BY <2>2, <3>1, <4>1, <4>2 DEF Overlap
    <3>2. QED
      BY <1>1, <3>1 DEF Regions, Copies
  <2>5. \A a, b \in DOMAIN seen : a # b => seen[a] \cap seen[b] = {}
    BY <1>1, <2>3, <2>4 DEF Regions, Copies
  <2>6. reading = "done" =>
          /\ values["DPP"] = values["DPP_BACKUP"] /\ None # values["DPP"]
          /\ \A c \in Copies : Cardinality(seen[c]) >= 2 * HeaderLength + RecordLength + 1
    <3>1. 2 * HeaderLength + RecordLength + 1 = 4
      BY DEF HeaderLength, RecordLength
    <3>2. QED
      BY <3>1, FactoryAssumption DEF ReaderInv, DoneInv
  <2>7. QED
    BY <2>5, <2>6 DEF CopiesIndependent
<1>4. QED
  BY <1>1, <1>2, <1>3

----------------------------------------------------------------------------
(* The tool and everybody else.                                            *)

(* What the tool does with the reader, and what the reader's steps leave.  *)
LEMMA ToolReads ==
    ASSUME BluetoothInv, [Next]_vars
    PROVE  ReaderInv' /\ (reading' # "off" <=> pc' = "read")
<1> USE DEF BluetoothInv, TypeOK
<1>1. CASE \/ \E m \in {"auto", "only", "manual"} : Start(m)
           \/ Test \/ Load \/ Probe \/ Unload \/ Save
  <2>1. UNCHANGED readerVars /\ pc # "read" /\ pc' # "read"
    BY <1>1 DEF Start, Test, Load, Probe, Unload, Save, After
  <2>2. QED
    BY <2>1, ReaderSteps DEF readerVars
<1>2. CASE Open
  <2>1. \/ pc' = "read" /\ reading = "off" /\ OpenReader
        \/ pc' = "unload" /\ reading = "off" /\ UNCHANGED readerVars
    BY <1>2 DEF Open
  <2>2. QED
    BY <2>1, ReaderSteps DEF readerVars, OpenReader
<1>3. CASE Read
  <2>1. ReadStep /\ pc' = "read" /\ reading' # "off"
    BY <1>3 DEF Read, toolVars, ReadStep, SkipHeader, ReadHeader, ReadTable, ReadFirst,
                ReadSecond, ReadDirectory, ReadRecord, Then
  <2>2. QED
    BY <2>1, ReaderSteps
<1>4. CASE CloseDevice \/ Kill
  <2>1. Close /\ pc' # "read" /\ reading' = "off"
    BY <1>4 DEF CloseDevice, Kill, Close
  <2>2. QED
    BY <2>1, ReaderSteps
<1>5. CASE Others \/ UNCHANGED vars
  <2>1. UNCHANGED readerVars /\ pc' = pc
    BY <1>5 DEF Others, LoadByOthers, UnloadByOthers, HoldDevice, WriteByHand, vars, toolVars
  <2>2. QED
    BY <2>1, ReaderSteps DEF readerVars
<1>6. QED
  BY <1>1, <1>2, <1>3, <1>4, <1>5 DEF Next, Tool

(* The control state, the module and the address keep their types.         *)
LEMMA ToolTypeStep == BluetoothInv /\ [Next]_vars => TypeOK'
<1> SUFFICES ASSUME BluetoothInv, [Next]_vars PROVE TypeOK'
  OBVIOUS
<1>1. ReaderType' /\ (reading' # "off" <=> pc' = "read")
  BY ToolReads DEF ReaderInv
<1>2. /\ pc \in Control /\ mode \in Modes /\ module \in {"absent", "rom", "rw"}
      /\ owned \in BOOLEAN /\ held \in BOOLEAN /\ before \in BOOLEAN
      /\ config \in Addresses \cup {None} /\ selected \in Addresses \cup {None}
      /\ events \subseteq Events
      /\ values["DPP"] \in Addresses \cup {None}
      /\ pc = "read" \/ held => module # "absent"
  BY DEF BluetoothInv, TypeOK, Present, Control, Modes, Events, ReaderType, Copies
<1> DEFINE ToolOK ==
      /\ pc' \in Control /\ mode' \in Modes /\ module' \in {"absent", "rom", "rw"}
      /\ owned' \in BOOLEAN /\ held' \in BOOLEAN /\ before' \in BOOLEAN
      /\ config' \in Addresses \cup {None} /\ selected' \in Addresses \cup {None}
      /\ events' \subseteq Events
      /\ pc' = "read" \/ held' => module' # "absent"
<1> SUFFICES ToolOK
  BY <1>1 DEF TypeOK, Control, Modes, Events, Present
<1>3. ASSUME NEW m \in Modes, Start(m) PROVE ToolOK
  BY <1>2, <1>3 DEF Start, Control, Present
<1>4. CASE Test
  BY <1>2, <1>4 DEF Test, Control, Present
<1>5. CASE Load
  <2>1. pc' \in {"probe", "unload"} /\ module' \in {module, "rom"}
        /\ (module # "absent" => module' # "absent")
    BY <1>2, <1>5 DEF Load, Present
  <2>2. UNCHANGED <<mode, owned, selected, before, held, config, events>>
    BY <1>5 DEF Load
  <2>3. QED
    BY <1>2, <2>1, <2>2 DEF Control, Events
<1>6. CASE Probe \/ Open
  <2>1. /\ UNCHANGED <<mode, owned, selected, before, module, held, config, events>>
        /\ \/ pc' \in {"open", "unload"}
           \/ pc' = "read" /\ module # "absent"
    BY <1>6 DEF Probe, Open, Present
  <2>2. QED
    BY <1>2, <2>1 DEF Control, Events
<1>7. CASE Read
  BY <1>2, <1>7 DEF Read, toolVars
<1>8. CASE CloseDevice
  BY <1>2, <1>8 DEF CloseDevice, Control
<1>9. CASE Unload
  <2>1. UNCHANGED <<mode, owned, before, held, config>>
    BY <1>9 DEF Unload
  <2>2. /\ pc' \in {"save", "idle"} /\ selected' \in {selected, None}
        /\ events' \in {events, events \cup {"unload"}}
        /\ \/ module' = module
           \/ module' = "absent" /\ ~held
    BY <1>2, <1>9 DEF Unload, After, Present
  <2>3. QED
    BY <1>2, <2>1, <2>2 DEF Control, Events
<1>10. CASE Save \/ Kill
  <2>1. UNCHANGED <<mode, owned, before, held, selected, module>>
        /\ pc' = "idle" /\ config' \in {config, selected}
        /\ events' \in {events, events \cup {"killed"}}
    BY <1>10 DEF Save, Kill
  <2>2. QED
    BY <1>2, <2>1 DEF Control, Events
<1>11. CASE LoadByOthers \/ UnloadByOthers \/ HoldDevice
  <2>1. UNCHANGED <<pc, mode, owned, before, config, selected>>
        /\ events' \in {events, events \cup {"module"}}
    BY <1>11 DEF LoadByOthers, UnloadByOthers, HoldDevice, toolVars
  <2>2. /\ module' \in {"absent", "rom", "rw"} /\ held' \in BOOLEAN
        /\ pc' = "read" \/ held' => module' # "absent"
    <3>1. CASE LoadByOthers
      BY <1>2, <3>1 DEF LoadByOthers, Present
    <3>2. CASE UnloadByOthers
      BY <1>2, <3>2 DEF UnloadByOthers, toolVars, Present
    <3>3. CASE HoldDevice
      BY <1>2, <3>3 DEF HoldDevice, toolVars, Present
    <3>4. QED
      BY <1>11, <3>1, <3>2, <3>3
  <2>3. QED
    BY <1>2, <2>1, <2>2 DEF Events
<1>12. CASE WriteByHand \/ UNCHANGED vars
  <2>1. UNCHANGED <<pc, mode, owned, selected, before, module, held>>
        /\ config' \in Addresses \cup {None}
        /\ events' \in {events, events \cup {"address"}}
    BY <1>2, <1>12 DEF WriteByHand, vars, toolVars
  <2>2. QED
    BY <1>2, <2>1 DEF Events
<1>13. QED
  BY <1>3, <1>4, <1>5, <1>6, <1>7, <1>8, <1>9, <1>10, <1>11, <1>12
     DEF Next, Tool, Others, Modes

(* Left alone, the tool keeps track of the module.                         *)
LEMMA ModuleStep == BluetoothInv /\ [Next]_vars => ModuleInv'
<1> SUFFICES ASSUME BluetoothInv, [Next]_vars PROVE ModuleInv'
  OBVIOUS
<1> USE DEF BluetoothInv, TypeOK, ModuleInv, Present
<1>1. ASSUME NEW m \in {"auto", "only", "manual"}, Start(m) PROVE ModuleInv'
  BY <1>1 DEF Start
<1>2. CASE Test
  BY <1>2 DEF Test
<1>3. CASE Load
  BY <1>3 DEF Load
<1>4. CASE Probe \/ Open \/ Read \/ CloseDevice
  BY <1>4 DEF Probe, Open, Read, CloseDevice, toolVars
<1>5. CASE Unload
  BY <1>5 DEF Unload, After
<1>6. CASE Save \/ Kill
  BY <1>6 DEF Save, Kill
<1>7. CASE Others
  BY <1>7 DEF Others, LoadByOthers, UnloadByOthers, HoldDevice, WriteByHand, toolVars
<1>8. CASE UNCHANGED vars
  BY <1>8 DEF vars, toolVars
<1>9. QED
  BY <1>1, <1>2, <1>3, <1>4, <1>5, <1>6, <1>7, <1>8 DEF Next, Tool

(* Only the tool's last step, or somebody else, stores an address.         *)
LEMMA AddressStep == BluetoothInv /\ [Next]_vars => AddressInv'
<1> SUFFICES ASSUME BluetoothInv, [Next]_vars PROVE AddressInv'
  OBVIOUS
<1> USE DEF BluetoothInv, AddressInv
<1>1. ASSUME NEW m \in {"auto", "only", "manual"}, Start(m) PROVE AddressInv'
  BY <1>1 DEF Start
<1>2. CASE \/ Test \/ Load \/ Probe \/ Open \/ Read \/ CloseDevice \/ Unload \/ Save \/ Kill
  BY <1>2 DEF Test, Load, Probe, Open, Read, CloseDevice, Unload, Save, Kill, After, toolVars
<1>3. CASE Others
  BY <1>3 DEF Others, LoadByOthers, UnloadByOthers, HoldDevice, WriteByHand, toolVars
<1>4. CASE UNCHANGED vars
  BY <1>4 DEF vars, toolVars
<1>5. QED
  BY <1>1, <1>2, <1>3, <1>4 DEF Next, Tool

----------------------------------------------------------------------------
(* The theorems.                                                           *)

(* The inductive invariant of the tool, its reader and the module.         *)
THEOREM BluetoothInvariant == Spec => []BluetoothInv
<1>1. Init => BluetoothInv
  <2>1. SUFFICES ASSUME Init PROVE BluetoothInv
    OBVIOUS
  <2>2. ReaderInv /\ reading = "off"
    BY <2>1, ClosedOK DEF Init, Closed
  <2>3. TypeOK
    BY <2>1, <2>2 DEF Init, TypeOK, Present, ReaderInv
  <2>4. QED
    BY <2>1, <2>2, <2>3 DEF Init, BluetoothInv, ModuleInv, AddressInv
<1>2. BluetoothInv /\ [Next]_vars => BluetoothInv'
  BY ToolReads, ToolTypeStep, ModuleStep, AddressStep DEF BluetoothInv
<1>3. QED
  BY <1>1, <1>2, PTL DEF Spec

(* Type correctness: reads stay within the flash and within their budget,  *)
(* and the device is open only while its module is loaded.                 *)
THEOREM TypeCorrect == Spec => []TypeOK
  BY BluetoothInvariant, PTL DEF BluetoothInv

(* dpp_partitions, read_record and read_factory: no byte of the flash      *)
(* counts for both copies, and an address is accepted only from both.      *)
THEOREM CopiesAreIndependent == Spec => []CopiesIndependent
<1>1. BluetoothInv => CopiesIndependent
  BY IndependentCopies DEF BluetoothInv
<1>2. QED
  BY <1>1, BluetoothInvariant, PTL

(* detect: whatever fails, a run leaves the module as it found it.         *)
THEOREM ModuleLeftAsFound == Spec => ModuleAsFound
<1>1. BluetoothInv /\ [Next]_vars =>
        [pc # "idle" /\ pc' = "idle" /\ events' \subseteq {"address"}
           => (module' # "absent") = before]_vars
  <2>1. SUFFICES ASSUME BluetoothInv, [Next]_vars, pc # "idle", pc' = "idle",
                        events' \subseteq {"address"}
                 PROVE  (module' # "absent") = before
    OBVIOUS
  <2> USE DEF BluetoothInv, TypeOK, ModuleInv, Present
  <2>2. CASE Test
    BY <2>1, <2>2 DEF Test
  <2>3. CASE Unload
    BY <2>1, <2>3 DEF Unload, After
  <2>4. CASE Save
    BY <2>1, <2>4 DEF Save
  <2>5. CASE Kill
    BY <2>1, <2>5 DEF Kill
  <2>6. CASE \/ \E m \in {"auto", "only", "manual"} : Start(m)
             \/ Load \/ Probe \/ Open \/ Read \/ CloseDevice
    BY <2>1, <2>6 DEF Start, Load, Probe, Open, Read, CloseDevice, toolVars
  <2>7. CASE Others \/ UNCHANGED vars
    BY <2>1, <2>7 DEF Others, LoadByOthers, UnloadByOthers, HoldDevice, WriteByHand, vars,
                      toolVars
  <2>8. QED
    BY <2>1, <2>2, <2>3, <2>4, <2>5, <2>6, <2>7 DEF Next, Tool
<1>2. QED
  BY <1>1, BluetoothInvariant, PTL DEF Spec, ModuleAsFound

(* configure and main: a detection that fails, and --detect-only, leave the*)
(* configuration alone; one that succeeds replaces no address it could see.*)
THEOREM AddressIsKept == Spec => AddressKept
<1>1. BluetoothInv /\ [Next]_vars =>
        [pc' # pc /\ config' # config /\ mode # "manual" =>
           /\ mode = "auto" /\ "unload" \notin events
           /\ config = None \/ "address" \in events]_vars
  <2>1. SUFFICES ASSUME BluetoothInv, [Next]_vars, pc' # pc, config' # config, mode # "manual"
                 PROVE  /\ mode = "auto" /\ "unload" \notin events
                        /\ config = None \/ "address" \in events
    OBVIOUS
  <2>2. CASE Save \/ Kill
    <3>1. pc = "save"
      BY <2>1, <2>2 DEF Save, Kill
    <3>2. QED
      BY <2>1, <3>1 DEF BluetoothInv, TypeOK, AddressInv
  <2>3. CASE \/ \E m \in {"auto", "only", "manual"} : Start(m)
             \/ Test \/ Load \/ Probe \/ Open \/ Read \/ CloseDevice \/ Unload
    BY <2>1, <2>3 DEF Start, Test, Load, Probe, Open, Read, CloseDevice, Unload, toolVars
  <2>4. CASE Others \/ UNCHANGED vars
    BY <2>1, <2>4 DEF Others, LoadByOthers, UnloadByOthers, HoldDevice, WriteByHand, vars,
                      toolVars
  <2>5. QED
    BY <2>1, <2>2, <2>3, <2>4 DEF Next, Tool
<1>2. QED
  BY <1>1, BluetoothInvariant, PTL DEF Spec, AddressKept

============================================================================
