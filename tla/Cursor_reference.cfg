CONSTANTS
    MonoSizes <- MCMonoSizes
    ColorSizes <- MCColorSizes
    ColorPixels <- MCColorPixels
SPECIFICATION Spec
\* mouseCursorFromHCursor() is one call that returns.
CHECK_DEADLOCK FALSE
INVARIANT TypeOK
INVARIANT CursorMatchesReference
