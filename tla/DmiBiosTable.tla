----------------------------- MODULE DmiBiosTable -----------------------------
(***************************************************************************)
(* DmiTable::string() and the getters of DmiBiosTable in                  *)
(* system_info/serializer/dmi_impl.cc, over one SMBIOS type 0 structure.  *)
(*                                                                         *)
(* The structure is its bytes from table_[0]: the formatted area of       *)
(* `length` bytes, the string set, then whatever follows in the buffer.   *)
(* Fields whose offset is at or past `length` do not exist in the         *)
(* structure; reading them reads the string set or the bytes after it.    *)
(* number<T>() (not in the repository) reads a little-endian value.       *)
(* Strings are byte sequences without NUL; an empty QString is <<>>, and  *)
(* the strings hold no blanks, so trimmed() leaves them as they are.      *)
(***************************************************************************)
EXTENDS Naturals, Sequences, SequencesExt, Bitwise

CONSTANTS
    Lengths,      \* formatted-area lengths (SMBIOS 2.0 .. 3.1 BIOS tables)
    StringSets,   \* string sets the structure may carry
    Handles,      \* string numbers at offset 0x04 (manufacturer)
    OldSizes,     \* the byte at 0x09
    ExtSizes,     \* the word at 0x18 when the structure has it
    Revisions,    \* the bytes at 0x14 .. 0x17 when the structure has them
    Addresses,    \* the word at 0x06
    Chars,        \* the characteristics bytes 0x0A .. 0x0D (0x0E .. 0x11 are 0)
    ExtBytes,     \* the characteristics extension bytes 0x12 and 0x13
    TailBytes     \* what follows the string set in the buffer

NoValue == "none"

\* The structure's fields, by offset; absent ones are not written.
Field(t, off) ==
    CASE off = 1 -> t.length
      [] off = 4 -> t.handle
      [] off = 6 -> t.address % 256
      [] off = 7 -> t.address \div 256
      [] off = 9 -> t.oldSize
      [] off \in 10 .. 13 -> t.chars[off - 9]
      [] off = 18 -> t.ext1
      [] off = 19 -> t.ext2
      [] off \in 20 .. 23 -> t.revision[off - 19]
      [] off = 24 -> t.extSize % 256
      [] off = 25 -> t.extSize \div 256
      [] OTHER -> 0

StringSet(ss) ==
    IF ss = <<>> THEN <<0, 0>>
    ELSE FlattenSeq([i \in 1 .. Len(ss) |-> ss[i] \o <<0>>]) \o <<0>>

\* The bytes from table_[0] on, indexed from 0.
TableBytes(t) ==
    LET s == [i \in 1 .. t.length |-> Field(t, i - 1)]
             \o StringSet(t.strings) \o [i \in 1 .. 32 |-> t.tail]
    IN  [i \in 0 .. Len(s) - 1 |-> s[i + 1]]

VARIABLES
    table,    \* the structure a DmiBiosTable was built on
    queried,  \* the getters have been called
    result    \* what they returned

vars == <<table, queried, result>>

Init ==
    /\ table \in [length : Lengths, strings : StringSets, handle : Handles,
                  oldSize : OldSizes, extSize : ExtSizes, revision : Revisions,
                  address : Addresses, chars : Chars, ext1 : ExtBytes,
                  ext2 : ExtBytes, tail : TailBytes]
    /\ queried = FALSE
    /\ result = [r \in {} |-> NoValue]

-----------------------------------------------------------------------------
\* number<quint8>() and number<quint16>() (dmi_impl.h): little-endian reads.
Number8(b, off) == b[off]
Number16(b, off) == b[off] + 256 * b[off + 1]

\* strlen(): the bytes from p up to the next NUL.
RECURSIVE CString(_, _)
CString(b, p) == IF b[p] = 0 THEN <<>> ELSE <<b[p]>> \o CString(b, p + 1)

\* Mutant: the string walk one string too far.
SkipMoreStrings(handle) == handle > 0

\* Line 129: more strings to skip.
SkipStrings(handle) == handle > 1

\* Lines 128-133: skip handle - 1 strings, stopping at an empty one.
RECURSIVE StringAt(_, _, _)
StringAt(b, p, handle) ==
    IF SkipStrings(handle) /\ b[p] # 0
      THEN StringAt(b, p + Len(CString(b, p)) + 1, handle - 1)
      ELSE p

\* DmiTable::string() (lines 122-139).
String(b, offset) ==
    LET handle == Number8(b, offset)
        p      == StringAt(b, b[1], handle)
    IN  IF handle = 0 \/ b[p] = 0 THEN <<>> ELSE CString(b, p)

\* Mutant: the old size without its + 1.
OldBiosSizeUncounted(old) == old * 64

\* Line 170: (old_size + 1) << 6, in KB.
OldBiosSize(old) == (old + 1) * 64

\* DmiBiosTable::biosSize() (lines 166-190), in KB.
BiosSize(b) ==
    LET old      == Number8(b, 9)
        bitfield == Number16(b, 24)
        size     == IF b[1] >= 26 THEN bitfield % 16384 ELSE 16
        unit     == bitfield \div 16384
    IN  CASE old # 255 -> OldBiosSize(old)
          [] unit = 0  -> size * 1024
          [] unit = 1  -> size * 1024 * 1024
          [] OTHER     -> 0

\* biosRevision() and firmwareRevision() (lines 192-212): the version, or
\* an empty string when either byte is 0xFF.
Revision(b, off) ==
    IF b[off] = 255 \/ b[off + 1] = 255 THEN NoValue ELSE <<b[off], b[off + 1]>>

\* address() (lines 214-221), its hexadecimal formatting left out.
Address(b) == IF Number16(b, 6) = 0 THEN NoValue ELSE Number16(b, 6)

\* runtimeSize() (lines 223-235).  (0x10000 - address) << 4 is at most
\* 2^20 and fits the quint32.
RuntimeSize(b) ==
    LET address == Number16(b, 6)
        code    == (65536 - address) * 16
    IN  CASE address = 0       -> 0
          [] code % 1024 # 0   -> code
          [] OTHER             -> (code \div 1024) * 1024

\* BitSet::test(i) of number<quint64>(off), read from the byte holding bit i
\* (little-endian), since TLC's integers stop at 2^31.
BitAt(b, off, i) == (b[off + i \div 8] & 2^(i % 8)) # 0

\* Mutant: an extension byte taken as present one length too early.
HasByteEarly(len, off) == len >= off

\* Lines 274 and 288: byte off exists when length() >= off + 1.
HasByte(len, off) == len >= off + 1

\* characteristics() (lines 237-298): the indices of the flags set, per
\* field; a field the code does not fill stays zero from the memset().
Characteristics(b) ==
    [base |-> IF BitAt(b, 10, 3) THEN {} ELSE {i \in 4 .. 31 : BitAt(b, 10, i)},
     ext1 |-> IF HasByte(b[1], 18) THEN {i \in 0 .. 7 : BitAt(b, 18, i)} ELSE {},
     ext2 |-> IF HasByte(b[1], 19) THEN {i \in 0 .. 4 : BitAt(b, 19, i)} ELSE {}]

\* A DmiBiosTable built by table() and every getter called on it.
Query ==
    LET b == TableBytes(table)
    IN  /\ ~queried
        /\ queried' = TRUE
        /\ result' = [manufacturer     |-> String(b, 4),
                      biosSize         |-> BiosSize(b),
                      biosRevision     |-> Revision(b, 20),
                      firmwareRevision |-> Revision(b, 22),
                      address          |-> Address(b),
                      runtimeSize      |-> RuntimeSize(b),
                      characteristics  |-> Characteristics(b)]
        /\ UNCHANGED table

Next == Query

Spec == Init /\ [][Next]_vars

-----------------------------------------------------------------------------
(***************************************************************************)
(* string(0x04) returns the handle-th string of the string set, and an    *)
(* empty string for handle 0 or a handle past the last string: the       *)
(* pointer walk that skips strings by strlen() stays inside the set.     *)
(***************************************************************************)
StringMatchesReference ==
    queried =>
        result.manufacturer =
            IF table.handle \in 1 .. Len(table.strings)
              THEN table.strings[table.handle] ELSE <<>>

(***************************************************************************)
(* The sizes agree with SMBIOS: ROM size (old + 1) * 64 KB, or for an     *)
(* 0xFF old size in a 3.1 structure the extended size in MB or GB; the   *)
(* runtime size is (10000h - segment) * 16 bytes.                        *)
(***************************************************************************)
SizesMatchReference ==
    queried =>
        /\ table.oldSize # 255 \/ table.length >= 26 =>
              result.biosSize =
                  CASE table.oldSize # 255 -> (table.oldSize + 1) * 64
                    [] table.extSize \div 16384 = 0 -> (table.extSize % 16384) * 1024
                    [] table.extSize \div 16384 = 1 -> (table.extSize % 16384) * 1048576
                    [] OTHER -> 0
        /\ result.runtimeSize =
              IF table.address = 0 THEN 0 ELSE (65536 - table.address) * 16

(***************************************************************************)
(* The characteristics are the structure's own bits: bits 4..31 of the   *)
(* qword at 0x0A unless bit 3 says they are not supported, and the bits *)
(* of the extension bytes only in a structure long enough to have them   *)
(* (0x12 from SMBIOS 2.1, 0x13 from 2.3); never bits of the string set.  *)
(***************************************************************************)
Bits(x, n) == {i \in 0 .. n - 1 : (x \div 2^i) % 2 = 1}

CharacteristicsMatchReference ==
    queried =>
        LET word == UNION {{8 * k + i : i \in Bits(table.chars[k + 1], 8)} : k \in 0 .. 3}
        IN  result.characteristics =
              [base |-> IF 3 \in word THEN {} ELSE word \ 0 .. 3,
               ext1 |-> IF table.length > 18 THEN Bits(table.ext1, 8) ELSE {},
               ext2 |-> IF table.length > 19 THEN Bits(table.ext2, 5) ELSE {}]

(***************************************************************************)
(* A field the structure does not have is not reported: the revisions    *)
(* (0x14 .. 0x17, SMBIOS 2.4) need a length of at least 0x18, and without *)
(* the extended size (0x18, SMBIOS 3.1) biosSize() falls back to the     *)
(* 16 MB its comment names.                                              *)
(***************************************************************************)
AbsentFieldsNotReported ==
    queried =>
        /\ table.length < 24 => result.biosRevision = NoValue
                                /\ result.firmwareRevision = NoValue
        /\ table.length < 26 /\ table.oldSize = 255 => result.biosSize = 16 * 1024

=============================================================================
