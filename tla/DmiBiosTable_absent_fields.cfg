CONSTANTS
    Lengths <- MCLengths
    StringSets <- MCStringSets
    Handles = {0, 1, 2, 3}
    OldSizes = {0, 255}
    ExtSizes <- MCExtSizes
    Revisions <- MCRevisions
    Addresses <- MCAddresses
    Chars <- MCChars
    ExtBytes <- MCExtBytes
    TailBytes = {0, 64}
SPECIFICATION Spec
\* A getter call returns; nothing follows it.
CHECK_DEADLOCK FALSE
INVARIANT AbsentFieldsNotReported
