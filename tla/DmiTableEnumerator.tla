-------------------------- MODULE DmiTableEnumerator --------------------------
(***************************************************************************)
(* DmiTableEnumerator of system_info/serializer/dmi_impl.cc: reading the  *)
(* raw SMBIOS table with GetSystemFirmwareTable() (readSmBios) and        *)
(* walking its structures with advance() and table().                      *)
(*                                                                         *)
(* The firmware table is a list of structures, each a formatted area     *)
(* (type, length, handle, fields) followed by a string set ending in two  *)
(* NUL bytes.  The enumerator copies it into a fixed buffer of Cap bytes  *)
(* (SmBiosData) with its length.  Byte offsets are the code's pointer    *)
(* offsets from smbios_table_data[0]; Null is nullptr.                    *)
(*                                                                         *)
(* The client loop is not in the repository; it is modelled as the usual *)
(* enumerator loop: advance(), then table() until it returns the end.    *)
(***************************************************************************)
EXTENDS Naturals, Sequences, SequencesExt

CONSTANTS
    Cap,             \* bytes in SmBiosData::smbios_table_data
    Kinds,           \* structures the firmware may report
    MaxStructures,   \* most structures before the optional end marker
    GarbageFills,    \* what the buffer, 0 .. Cap-1, holds before it is written
    GarbageBytes,    \* what memory past the buffer may hold
    GarbageLengths,  \* what data_.length holds if nothing was written
    TruncatedTables, \* the reported length may cut the last structure
    Null

ASSUME Cap \in Nat /\ MaxStructures \in Nat
ASSUME TruncatedTables \in BOOLEAN

\* SMBIOS structure type 0 (DmiTable::TYPE_BIOS) and the end-of-table type.
TYPE_BIOS == 0
TYPE_END  == 127

EndOfTable == [type |-> TYPE_END, length |-> 4, extra |-> <<>>, strings |-> <<>>]

\* The bytes of one structure: header with a zero handle, the remaining
\* formatted bytes, then the string set ("\0\0" when there are no strings).
StringSet(ss) ==
    IF ss = <<>> THEN <<0, 0>>
    ELSE FlattenSeq([i \in 1 .. Len(ss) |-> ss[i] \o <<0>>]) \o <<0>>

Serialize(k) == <<k.type, k.length, 0, 0>> \o k.extra \o StringSet(k.strings)

Firmwares ==
    {l \o e : l \in BoundedSeq(Kinds, MaxStructures), e \in {<<>>, <<EndOfTable>>}}

FirmwareBytes(l) == FlattenSeq([i \in 1 .. Len(l) |-> Serialize(l[i])])

VARIABLES
    firmware,   \* the structures the firmware holds
    data_,      \* SmBiosData::smbios_table_data, 0 .. Cap-1 -> bytes
    length_,    \* SmBiosData::length
    current_,   \* offset of the current structure, or Null
    next_,      \* offset where advance() resumes, or Null
    visited,    \* <<offset, is a DmiBiosTable>> for every non-null table()
    maxRead,    \* the largest offset the enumerator has read, -1 if none
    read,       \* readSmBios(): "pending", "failed", "copied", "too_small"
    pc          \* the client: "ctor", "table", "advance", "done"

vars == <<firmware, data_, length_, current_, next_, visited, maxRead, read, pc>>

Init ==
    /\ firmware \in Firmwares
    /\ data_ \in GarbageFills
    /\ length_ \in GarbageLengths
    /\ current_ = Null /\ next_ = Null
    /\ visited = <<>>
    /\ maxRead = -1
    /\ read = "pending"
    /\ pc = "ctor"

\* A read of offset i: beyond the buffer the value is whatever memory
\* follows it, one fixed garbage byte.
Byte(i) == IF i < Cap THEN data_[i] ELSE CHOOSE g \in GarbageBytes : TRUE

Max2(a, b) == IF a > b THEN a ELSE b

-----------------------------------------------------------------------------
(***************************************************************************)
(* The constructor (lines 43-49) with readSmBios() (lines 22-35).  The    *)
(* call fails (returns 0) and the constructor returns early; or it copies *)
(* a table that fits; or the table does not fit, the call returns the     *)
(* size it needs, which readSmBios() takes for success, and the buffer    *)
(* and its length are left as they were.                                  *)
(***************************************************************************)
Construct ==
    LET fw == FirmwareBytes(firmware)
    IN
    /\ pc = "ctor"
    /\ \/ /\ read' = "failed"
          /\ pc' = "done"
          /\ UNCHANGED <<data_, length_, current_, next_>>
       \/ /\ Len(fw) <= Cap
          /\ data_' = [i \in 0 .. Cap - 1 |-> IF i < Len(fw) THEN fw[i + 1]
                                              ELSE data_[i]]
          /\ length_' \in IF TruncatedTables THEN 0 .. Len(fw) ELSE {Len(fw)}
          /\ read' = "copied"
          /\ current_' = 0 /\ next_' = 0
          /\ pc' = "advance"
       \/ /\ Len(fw) > Cap
          /\ read' = "too_small"
          /\ current_' = 0 /\ next_' = 0
          /\ pc' = "advance"
          /\ UNCHANGED <<data_, length_>>
    /\ UNCHANGED <<firmware, visited, maxRead>>

(***************************************************************************)
(* advance() (lines 51-91).  The loop body runs at most once: a short    *)
(* entry or the end marker breaks, a structure returns.  The scan for    *)
(* the double NUL (lines 77-85) reads next_[0], and next_[1] only when   *)
(* next_[0] is zero.                                                     *)
(***************************************************************************)
\* Mutant: the scan bound one byte too late.
ScanBoundLate(p) == p < length_

\* Line 78: next_[1] still lies inside the table.
ScanBound(p) == p + 1 < length_

\* Lines 77-82 from offset p: <<where the scan stops, largest offset read>>.
RECURSIVE Scan(_, _)
Scan(p, m) ==
    IF ~ScanBound(p) THEN <<p, m>>
    ELSE IF Byte(p) # 0 THEN Scan(p + 1, Max2(m, p))
    ELSE IF Byte(p + 1) # 0 THEN Scan(p + 1, Max2(m, p + 1))
    ELSE <<p, Max2(m, p + 1)>>

\* Mutant: the string scan starting right after the 4-byte header.
FormattedEndAfterHeader(cur, len) == cur + 4

\* Line 77: the string set starts where the formatted area ends.
FormattedEnd(cur, len) == cur + len

Advance ==
    LET cur == next_
        fits == cur # Null /\ cur + 4 <= length_
        type == Byte(cur)
        len  == Byte(cur + 1)
        scan == Scan(FormattedEnd(cur, len), cur + 1)
    IN
    /\ pc = "advance"
    /\ IF fits /\ len >= 4 /\ type # TYPE_END
         THEN /\ current_' = cur
              /\ next_' = scan[1] + 2
              /\ maxRead' = Max2(maxRead, scan[2])
              /\ pc' = "table"
         ELSE /\ current_' = Null /\ next_' = Null
              /\ maxRead' = IF fits THEN Max2(maxRead, cur + 1) ELSE maxRead
              /\ pc' = "done"
    /\ UNCHANGED <<firmware, data_, length_, visited, read>>

(***************************************************************************)
(* table() (lines 93-110), with the client's loop test: at the end (a    *)
(* null current_) the client stops; otherwise it reads the type byte and *)
(* gets a DmiBiosTable for type 0, nullptr for any other type.           *)
(***************************************************************************)
Table ==
    /\ pc = "table"
    /\ IF current_ = Null
         THEN /\ pc' = "done"
              /\ UNCHANGED <<visited, maxRead>>
         ELSE /\ visited' = Append(visited, <<current_, Byte(current_) = TYPE_BIOS>>)
              /\ maxRead' = Max2(maxRead, current_)
              /\ pc' = "advance"
    /\ UNCHANGED <<firmware, data_, length_, current_, next_, read>>

Next == Construct \/ Advance \/ Table

\* The walk ends: the client loop is over.
Spec == Init /\ [][Next]_vars

-----------------------------------------------------------------------------
(***************************************************************************)
(* The reference: the structures of the firmware's table that lie wholly *)
(* within the reported length, in order, up to the end marker or the     *)
(* first structure whose length is below the 4-byte header.              *)
(***************************************************************************)
RECURSIVE Structures(_, _, _)
Structures(l, off, len) ==
    IF l = <<>> THEN <<>>
    ELSE LET k    == Head(l)
             size == Len(Serialize(k))
         IN  IF k.type = TYPE_END \/ k.length < 4 \/ off + size > len THEN <<>>
             ELSE << <<off, k.type = TYPE_BIOS>> >> \o Structures(Tail(l), off + size, len)

(***************************************************************************)
(* When the table was read, the client sees every complete structure    *)
(* before the end marker exactly once, in order, and gets a DmiBiosTable *)
(* exactly for the BIOS ones: the pointer walk over lengths and string  *)
(* sets agrees with the layout the firmware wrote.                       *)
(***************************************************************************)
VisitsCompleteStructures ==
    pc = "done" /\ read = "copied" => visited = Structures(firmware, 0, length_)

(***************************************************************************)
(* advance() and table() never read a byte at or past data_.length: the  *)
(* header checks and the scan bound keep every read inside the table the *)
(* firmware reported.                                                    *)
(***************************************************************************)
ReadsWithinTable == maxRead < length_ \/ maxRead = -1

(***************************************************************************)
(* No read leaves the SmBiosData buffer.                                 *)
(***************************************************************************)
ReadsWithinBuffer == maxRead < Cap

=============================================================================
