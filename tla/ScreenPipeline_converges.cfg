\* Two desktops and two display modes, every allocation succeeding; the
\* cursor feature on.  A desktop switch reallocates the ring at the same
\* size (TLC's trace); a display-mode change reallocates it at another.
CONSTANTS
    d1 = d1
    d2 = d2
    r1 = r1
    r2 = r2
    t1 = t1
    t2 = t2
    InvalidDesktop = InvalidDesktop
    NoRect = NoRect
    NoFrame = NoFrame
    NoPacket = NoPacket
    Desktops <- MCDesktops
    Rects <- MCRects
    Tiles <- MCTiles
    Interval <- MCInterval
    CursorEnabled = TRUE
    DCCanFail = FALSE
SPECIFICATION Spec
PROPERTY ShownConverges
