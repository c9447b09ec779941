\* The worker, the parent's event loop and the destructor, with the cursor
\* feature on; spurious wakeups included.
CONSTANTS
    Interval <- MCInterval
    CursorEnabled = TRUE
SPECIFICATION Spec
INVARIANT TypeOK
INVARIANT AtMostOneOutstanding
PROPERTY CaptureCadence
PROPERTY TerminationCompletes
PROPERTY KeepsCapturing
\* After Join both threads have ended; the liveness properties rule out
\* any other state without a successor.
CHECK_DEADLOCK FALSE
