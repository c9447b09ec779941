\* As ScreenCapturerGDI_resources, with CreateCompatibleDC() and
\* DesktopFrameDIB::create() allowed to fail.
CONSTANTS
    d1 = d1
    d2 = d2
    r1 = r1
    r2 = r2
    t1 = t1
    t2 = t2
    InvalidDesktop = InvalidDesktop
    NoRect = NoRect
    NoFrame = NoFrame
    Desktops <- MCDesktops
    Rects <- MCRects
    Tiles <- MCTiles
    DCCanFail = TRUE
    FrameCanFail = TRUE
SPECIFICATION Spec
PROPERTY ResourcesValidWhenPrepared
