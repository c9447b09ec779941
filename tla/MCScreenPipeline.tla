-------------------------- MODULE MCScreenPipeline --------------------------
(* Model values and bounds for checking ScreenPipeline with TLC.          *)
EXTENDS ScreenPipeline

CONSTANTS d1, d2, r1, r2, t1, t2

MCDesktops == {d1, d2}
MCOneDesktop == {d1}
MCRects == {r1, r2}
MCTiles == {t1, t2}
\* One tick: a cycle ends before or at its interval.
MCInterval == 1
=============================================================================
