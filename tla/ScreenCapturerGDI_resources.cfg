\* Desktop switches, failed rebinds and display-mode changes, with every
\* OS allocation succeeding.
CONSTANTS
    d1 = d1
    d2 = d2
    r1 = r1
    r2 = r2
    t1 = t1
    t2 = t2
    InvalidDesktop = InvalidDesktop
    NoRect = NoRect
    NoFrame = NoFrame
    Desktops <- MCDesktops
    Rects <- MCRects
    Tiles <- MCTiles
    DCCanFail = FALSE
    FrameCanFail = FALSE
SPECIFICATION Spec
INVARIANT TypeOK
PROPERTY ResourcesValidWhenPrepared
