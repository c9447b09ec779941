\* One desktop, two display modes and painting, every allocation succeeding;
\* the cursor feature on.
CONSTANTS
    d1 = d1
    d2 = d2
    r1 = r1
    r2 = r2
    t1 = t1
    t2 = t2
    InvalidDesktop = InvalidDesktop
    NoRect = NoRect
    NoFrame = NoFrame
    NoPacket = NoPacket
    Desktops <- MCOneDesktop
    Rects <- MCRects
    Tiles <- MCTiles
    Interval <- MCInterval
    CursorEnabled = TRUE
    DCCanFail = FALSE
SPECIFICATION Spec
PROPERTY CapturerRefinesStream
PROPERTY LitTilesShown
