--------------------------- MODULE MCScreenUpdater ---------------------------
(* Bounds for checking ScreenUpdater with TLC.                            *)
EXTENDS ScreenUpdater

\* Two ticks: enough for a cycle to end before, at and after its interval.
MCInterval == 2
=============================================================================
