---------------------------- MODULE MCDmiBiosTable ----------------------------
EXTENDS DmiBiosTable

\* SMBIOS 2.0 (0x12), 2.1 (0x13), 2.4 (0x18) and 3.1 (0x1A) BIOS structures.
MCLengths == {18, 19, 24, 26}

\* Up to two strings of one or two 'A's, in either order.
MCStringSets == {<<>>, << <<65>> >>, << <<65, 65>> >>,
                 << <<65>>, <<65, 65>> >>, << <<65, 65>>, <<65>> >>}

\* Sizes in MB and GB, the largest 14-bit size, and a reserved unit.
MCExtSizes == {1, 16383, 16384 + 1, 49152 + 1}

\* Versions present, or marked absent with 0xFF.
MCRevisions == {<<2, 4, 1, 0>>, <<255, 255, 255, 255>>}

\* No runtime segment, the usual E000h, and the last paragraph.
MCAddresses == {0, 57344, 65535}

\* Characteristics not supported (bit 3), or ISA (bit 4) and NEC PC-98
\* (bit 31) supported.
MCChars == {<<8, 0, 0, 0>>, <<16, 0, 0, 128>>}

\* No extension flags, or ACPI/BIOS boot specification (bit 0) and bit 7.
MCExtBytes == {0, 129}
=============================================================================
