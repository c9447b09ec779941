----------------------------- MODULE FrameStream -----------------------------
(***************************************************************************)
(* What a screen capturer promises the consumer of its frames: each       *)
(* capture samples the screen's bounds when it starts and its contents    *)
(* when it ends, and the consumer, applying what it is given, then shows  *)
(* exactly that picture.  Screen bounds and contents change at any time.  *)
(***************************************************************************)
EXTENDS Naturals

CONSTANTS
    Rects,   \* screen rectangles
    NoRect,  \* no rectangle: nothing shown yet / no capture in progress
    Tiles    \* the parts of the screen the picture tells apart

Images == [Tiles -> {0, 1}]

VARIABLES
    screenRect,  \* the screen's bounds
    screen,      \* the screen's contents
    pending,     \* the bounds sampled by the capture in progress, or NoRect
    image        \* what the consumer shows: [rect, pixels]

vars == <<screenRect, screen, pending, image>>

Init ==
    /\ screenRect \in Rects
    /\ screen \in Images
    /\ pending = NoRect
    /\ image = [rect |-> NoRect, pixels |-> [t \in Tiles |-> 0]]

\* A capture starts and samples the bounds.
BeginCapture ==
    /\ pending = NoRect
    /\ pending' = screenRect
    /\ UNCHANGED <<screenRect, screen, image>>

\* It ends: the consumer shows the sampled bounds with the current contents.
Deliver ==
    /\ pending # NoRect
    /\ image' = [rect |-> pending, pixels |-> screen]
    /\ pending' = NoRect
    /\ UNCHANGED <<screenRect, screen>>

ChangeBounds ==
    /\ screenRect' \in Rects \ {screenRect}
    /\ UNCHANGED <<screen, pending, image>>

Paint ==
    /\ screen' \in Images
    /\ UNCHANGED <<screenRect, pending, image>>

Next == BeginCapture \/ Deliver \/ ChangeBounds \/ Paint

Spec == Init /\ [][Next]_vars

=============================================================================
