\* Every firmware table of up to two structures, with and without the end
\* marker; tables too large for the buffer leave it unwritten.
CONSTANTS
    Cap <- MCCap
    Kinds <- MCKinds
    MaxStructures = 2
    GarbageFills <- MCGarbageFills
    GarbageBytes = {0, 4}
    GarbageLengths <- MCGarbageLengths
    TruncatedTables = FALSE
    Null = Null
SPECIFICATION Spec
\* The enumeration is one pass of the client's loop: it ends.
CHECK_DEADLOCK FALSE
INVARIANT VisitsCompleteStructures
INVARIANT ReadsWithinTable
