------------------------- MODULE MCDmiTableEnumerator -------------------------
EXTENDS DmiTableEnumerator

\* A structure of type 0 (BIOS) or 1, with a 4- or 5-byte formatted area
\* (the fifth byte zero or not) and no strings or the string "x" (byte 1).
\* A 4-byte header that declares a length of 2 is a short entry.
MCKinds ==
    {[type |-> t, length |-> 4 + Len(e), extra |-> e, strings |-> s] :
        t \in {0, 1}, e \in {<<>>, <<0>>, <<1>>}, s \in {<<>>, << <<1>> >>}}
    \cup {[type |-> 1, length |-> 2, extra |-> <<>>, strings |-> <<>>]}

\* Structures take 6 to 8 bytes and the end marker 6: the buffer holds two
\* structures, or one and the end marker, and not two and the end marker.
MCCap == 16

\* SmBiosData before anything is written: all zero, all 4, or alternating
\* zero and 4, so that an unwritten structure may stop at any scan step.
MCGarbageFills ==
    {[i \in 0 .. MCCap - 1 |-> g] : g \in {0, 4}}
    \cup {[i \in 0 .. MCCap - 1 |-> IF i % 2 = 0 THEN 0 ELSE 4]}

\* data_.length before anything is written: zero, or one of two values past the buffer.
MCGarbageLengths == {0, 17, 18}
=============================================================================
