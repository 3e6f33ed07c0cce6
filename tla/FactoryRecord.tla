--------------------------- MODULE FactoryRecord ---------------------------
(***************************************************************************)
(* How bluetooth_address.py finds the factory address on the flash: the    *)
(* GPT, the partitions DPP and DPP_BACKUP, and in each an RWFS header, a   *)
(* second header, a directory and the BT.Provision record.                 *)
(*                                                                         *)
(* What the flash holds is chosen when it is read.  Lengths are counted in *)
(* units: an RWFS header, a directory slot and the record are one unit     *)
(* each.  Content that the parser rejects, checksums that do not match, a  *)
(* short or failed read are all ReadFails.                                 *)
(***************************************************************************)
EXTENDS Integers, FiniteSets

CONSTANTS
    Formats,         \* [sector, size] of a flash: its block size and its length
    Sectors,         \* the sector sizes tried, 512 and 4096 bytes
    TableLimit,      \* largest partition table, 1 MiB
    DirectoryLimit,  \* largest RWFS directory, 4096 slots
    Budget,          \* bound on all reads together, 2 MiB
    Addresses, None

ASSUME FactoryAssumption ==
    /\ Sectors \subseteq Nat \ {0} /\ \E s \in Sectors : \A t \in Sectors : s <= t
    /\ Formats # {} /\ Formats \subseteq [sector : Sectors, size : Nat]
    /\ None \notin Addresses
    /\ {TableLimit, DirectoryLimit, Budget} \subseteq Nat

Copies == {"DPP", "DPP_BACKUP"}
HeaderLength == 1
RecordLength == 1

VARIABLES
    reading,    \* what is read next; "off" without an open device, "done"
    format,     \* the flash
    sector,     \* sector size being tried
    remaining,  \* Reader.remaining
    gpt,        \* the header: first and last usable block, place of the table
    copies,     \* base and length of both partitions
    area,       \* the partition that is read
    place,      \* offset in it of what is read next
    length,     \* and its length
    seen,       \* units read so far of the GPT and of each copy, history
    values      \* the address in each copy

readerVars == <<reading, format, sector, remaining, gpt, copies, area, place, length,
                seen, values>>

NoGpt == [first |-> 0, last |-> 0, table |-> 0, length |-> 0]
NoCopies == [c \in Copies |-> [base |-> 0, length |-> 0]]
AnyFormat == CHOOSE f \in Formats : TRUE

Closed ==
    /\ reading = "off" /\ format = AnyFormat /\ sector = 0 /\ remaining = 0 /\ gpt = NoGpt
    /\ copies = NoCopies /\ area = "DPP" /\ place = 0 /\ length = 0
    /\ seen = [a \in Copies \cup {"gpt"} |-> {}] /\ values = [c \in Copies |-> None]

Close ==
    /\ reading' = "off" /\ format' = AnyFormat /\ sector' = 0 /\ remaining' = 0
    /\ gpt' = NoGpt /\ copies' = NoCopies /\ area' = "DPP" /\ place' = 0 /\ length' = 0
    /\ seen' = [a \in Copies \cup {"gpt"} |-> {}] /\ values' = [c \in Copies |-> None]

OpenReader ==
    /\ reading' = "header" /\ format' \in Formats
    /\ sector' = CHOOSE s \in Sectors : \A t \in Sectors : s <= t
    /\ remaining' = Budget
    /\ UNCHANGED <<gpt, copies, area, place, length, seen, values>>

\* Reader.read
Pread(a, from, size) ==
    /\ from + size <= format.size /\ size <= remaining
    /\ remaining' = remaining - size
    /\ seen' = [seen EXCEPT ![a] = @ \cup (from..from + size - 1)]

\* read_record's read, relative to the partition
CopyRead ==
    /\ place + length <= copies[area].length
    /\ Pread(area, copies[area].base + place, length)

Then(what, at, size) == reading' = what /\ place' = at /\ length' = size

\* No GPT of this sector size: the next one is tried.
SkipHeader ==
    /\ reading = "header" /\ sector # format.sector
    /\ Pread("gpt", sector, sector)
    /\ \E s \in Sectors : s > sector /\ sector' = s
    /\ UNCHANGED <<reading, format, gpt, copies, area, place, length, values>>

ReadHeader ==
    /\ reading = "header" /\ sector = format.sector
    /\ Pread("gpt", sector, sector)
    /\ LET blocks == format.size \div sector
       IN  \E first, last, table \in 2..blocks, size \in 1..TableLimit :
             /\ first <= last /\ last < blocks - 1   \* a backup header follows
             /\ table * sector + size <= first * sector
             /\ gpt' = [first |-> first, last |-> last, table |-> table, length |-> size]
    /\ reading' = "table"
    /\ UNCHANGED <<format, sector, copies, area, place, length, values>>

Partition(start, end) == [base |-> start * sector, length |-> (end - start + 1) * sector]
Overlap_SameStart(p, q) == p.base = q.base
Overlap(p, q) == p.base < q.base + q.length /\ q.base < p.base + p.length

\* Both partitions, once each, within the usable blocks.
ReadTable ==
    /\ reading = "table"
    /\ Pread("gpt", gpt.table * sector, gpt.length)
    /\ LET usable == {Partition(b[1], b[2]) : b \in
                        {c \in (gpt.first..gpt.last) \X (gpt.first..gpt.last) : c[1] <= c[2]}}
       IN  \E p, q \in usable :
             /\ ~Overlap(p, q)
             /\ copies' = [c \in Copies |-> IF c = "DPP" THEN p ELSE q]
    /\ area' = "DPP" /\ Then("first", 0, HeaderLength)
    /\ gpt' = NoGpt
    /\ UNCHANGED <<format, sector, values>>

\* An offset one past what a read can take stands for all that are farther.
ReadFirst ==
    /\ reading = "first" /\ CopyRead
    /\ \E at \in HeaderLength..copies[area].length : Then("second", at, HeaderLength)
    /\ UNCHANGED <<format, sector, gpt, copies, area, values>>

ReadSecond ==
    /\ reading = "second" /\ CopyRead
    /\ \E table \in place + HeaderLength..copies[area].length, size \in 1..DirectoryLimit :
         Then("directory", table, size)
    /\ UNCHANGED <<format, sector, gpt, copies, area, values>>

\* One record of the right name, its data after the directory.  A region ends
\* within the partition and is no shorter than its record.
ReadDirectory ==
    /\ reading = "directory" /\ CopyRead
    /\ \E start \in place + length..copies[area].length, offset \in 0..copies[area].length :
         /\ RecordLength <= copies[area].length - (start + offset)
         /\ Then("record", start + offset, RecordLength)
    /\ UNCHANGED <<format, sector, gpt, copies, area, values>>

\* read_factory: the backup is read after DPP, and has to agree.
ReadRecord ==
    /\ reading = "record" /\ CopyRead
    /\ \E a \in Addresses :
         /\ values' = [values EXCEPT ![area] = a]
         /\ IF area = "DPP" THEN area' = "DPP_BACKUP" /\ Then("first", 0, HeaderLength)
            ELSE values["DPP"] = a /\ UNCHANGED area /\ Then("done", 0, 0)
    /\ UNCHANGED <<format, sector, gpt, copies>>

ReadStep ==
    \/ SkipHeader \/ ReadHeader \/ ReadTable
    \/ ReadFirst \/ ReadSecond \/ ReadDirectory \/ ReadRecord

----------------------------------------------------------------------------
ReaderType ==
    /\ reading \in {"off", "header", "table", "first", "second", "directory", "record", "done"}
    /\ format \in Formats /\ sector \in Sectors \cup {0}
    /\ remaining \in 0..Budget
    /\ copies \in [Copies -> [base : 0..format.size, length : 0..format.size]]
    /\ area \in Copies /\ place \in Nat /\ length \in Nat
    /\ seen \in [Copies \cup {"gpt"} -> SUBSET (0..format.size - 1)]
    /\ values \in [Copies -> Addresses \cup {None}]

(* The two copies that have to agree are independent evidence: no byte of  *)
(* the flash counts for both, none is partition table, and an address is   *)
(* accepted only from both ("Both DPP copies are required", dpp_partitions,*)
(* read_record and read_factory taken together).                           *)
CopiesIndependent ==
    /\ \A a, b \in DOMAIN seen : a # b => seen[a] \cap seen[b] = {}
    /\ reading = "done" =>
         /\ values["DPP"] = values["DPP_BACKUP"] /\ None # values["DPP"]
         /\ \A c \in Copies : Cardinality(seen[c]) >= 2 * HeaderLength + RecordLength + 1
============================================================================
