CONSTANTS
    Cap <- MCCap
    Kinds <- MCKinds
    MaxStructures = 2
    GarbageFills <- MCGarbageFills
    GarbageBytes = {0, 4}
    GarbageLengths <- MCGarbageLengths
    TruncatedTables = FALSE
    Null = Null
SPECIFICATION Spec
\* The enumeration is one pass of the client's loop: it ends.
CHECK_DEADLOCK FALSE
INVARIANT ReadsWithinBuffer
