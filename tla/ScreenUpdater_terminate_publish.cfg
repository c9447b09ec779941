\* Termination requested while the worker is capturing.
CONSTANTS
    Interval <- MCInterval
    CursorEnabled = TRUE
SPECIFICATION Spec
PROPERTY NoPublishAfterTerminate
\* After Join both threads have ended; the liveness properties rule out
\* any other state without a successor.
CHECK_DEADLOCK FALSE
