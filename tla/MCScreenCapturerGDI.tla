------------------------ MODULE MCScreenCapturerGDI ------------------------
(* Model values and bounds for checking ScreenCapturerGDI with TLC.       *)
EXTENDS ScreenCapturerGDI

CONSTANTS d1, d2, r1, r2, t1, t2

\* Two desktops (the default one and, say, Winlogon), two display modes.
MCDesktops == {d1, d2}
MCOneDesktop == {d1}
MCRects == {r1, r2}
MCTiles == {t1, t2}
=============================================================================
