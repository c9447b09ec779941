------------------------- MODULE ScreenCapturerGDI -------------------------
(***************************************************************************)
(* The GDI screen capturer of desktop_capture/screen_capturer_gdi.cc:     *)
(* prepareCaptureResources() and captureImage().                          *)
(*                                                                         *)
(* The capturer owns a resource set (a desktop DC, a memory DC, a ring of *)
(* two frames and a Differ sized to the screen) that it recreates lazily  *)
(* when the input desktop or the screen bounds change.  The operating     *)
(* system changes the input desktop, the screen bounds and the screen     *)
(* contents at any time; the OS allocations may fail.                     *)
(*                                                                         *)
(* A frame's pixels are abstracted to one value in {0, 1} per tile; 0 is  *)
(* black, the contents of freshly allocated DIB memory.  The Differ is    *)
(* not in the repository; it is modelled by its contract (spec 4.2): any *)
(* region that covers every changed tile, coarser than exact if it likes. *)
(***************************************************************************)
EXTENDS Naturals, FiniteSets

CONSTANTS
    Desktops,       \* desktops the input desktop can be (model values)
    InvalidDesktop, \* what Desktop::inputDesktop() returns when it fails
    Rects,          \* screen rectangles fullScreenRect() can return
    NoRect,         \* the null QRect()
    NoFrame,        \* a null frame pointer
    Tiles,          \* the parts of a frame the Differ tells apart
    DCCanFail,      \* CreateCompatibleDC() may return NULL
    FrameCanFail    \* DesktopFrameDIB::create() may return NULL

ASSUME /\ Desktops # {} /\ InvalidDesktop \notin Desktops
       /\ Rects # {} /\ NoRect \notin Rects
       /\ DCCanFail \in BOOLEAN /\ FrameCanFail \in BOOLEAN

kNumFrames == 2
FrameIds == 0 .. kNumFrames - 1
Pixels == {0, 1}
Black == 0

VARIABLES
    \* the operating system
    inputDesktop,   \* the desktop receiving user input
    screenRect,     \* the current full screen rectangle
    screen,         \* the screen contents, Tiles -> Pixels
    \* the capturer (members of ScreenCapturerGDI)
    desktop_,       \* the desktop the capture thread is assigned to
    desktop_dc_,    \* TRUE when the desktop DC object exists
    memory_dc_,     \* TRUE when the memory DC handle is non-NULL
    desktop_dc_rect_,
    frame_,         \* FrameIds -> frame record or NoFrame
    differ_,        \* the rect the Differ was built for, or NoRect
    curr_frame_id_,
    pc,             \* "idle", "prepared" (between the two functions), "crashed"
    \* history: what a consumer of the frames reconstructs
    lastFrame,      \* the last frame captureImage() returned, or NoFrame
    viewer          \* the image rebuilt by applying every returned dirty region

capturer == <<desktop_, desktop_dc_, memory_dc_, desktop_dc_rect_, frame_,
              differ_, curr_frame_id_, pc>>
os == <<inputDesktop, screenRect, screen>>
history == <<lastFrame, viewer>>
vars == <<os, capturer, history>>

Images == [Tiles -> Pixels]
Frames == [rect : Rects, pixels : Images]
Returned == [rect : Rects, pixels : Images, dirty : SUBSET Tiles]

\* DesktopFrameDIB::create(): a DIB section, zero-filled by the system.
FreshFrame(r) == [rect |-> r, pixels |-> [t \in Tiles |-> Black]]

\* The tiles in which two frames differ.
Changed(prev, curr) == {t \in Tiles : prev.pixels[t] # curr.pixels[t]}

\* Differ::calcDirtyRegion(): a conservative cover of the changed tiles.
DirtyRegions(prev, curr) == {d \in SUBSET Tiles : Changed(prev, curr) \subseteq d}

\* A consumer applying a frame's dirty region to its image; a frame of new
\* size starts the consumer from a black image of that size.
ApplyUpdate(img, f) ==
    LET base == IF img.rect = f.rect THEN img.pixels
                ELSE [t \in Tiles |-> Black]
    IN  [rect |-> f.rect,
         pixels |-> [t \in Tiles |-> IF t \in f.dirty THEN f.pixels[t]
                                     ELSE base[t]]]

Init ==
    /\ inputDesktop \in Desktops
    /\ screenRect \in Rects
    /\ screen \in Images
    /\ desktop_ = inputDesktop
    /\ desktop_dc_ = FALSE
    /\ memory_dc_ = FALSE
    /\ desktop_dc_rect_ = NoRect
    /\ frame_ = [i \in FrameIds |-> NoFrame]
    /\ differ_ = NoRect
    /\ curr_frame_id_ = 0
    /\ pc = "idle"
    /\ lastFrame = NoFrame
    /\ viewer = [rect |-> NoRect, pixels |-> [t \in Tiles |-> Black]]

-----------------------------------------------------------------------------
(***************************************************************************)
(* prepareCaptureResources(), with captureImage()'s early return when it  *)
(* fails.  Desktop::setThreadDesktop() may fail, leaving the thread on    *)
(* its old desktop.                                                        *)
(***************************************************************************)
\* Mutant: the validity check of line 23 dropped.
SwitchDesktopNoValidity == inputDesktop # desktop_

\* Desktop switch (lines 21-32): is the input desktop valid and different?
SwitchDesktop == inputDesktop # InvalidDesktop /\ inputDesktop # desktop_

\* Mutant: the bounds check of line 37 dropped.
BoundsChangedNever == FALSE

\* Mutant: the resources treated as stale on every call.
BoundsChangedAlways == TRUE

BoundsChanged == screenRect # desktop_dc_rect_

PrepareCaptureResources ==
    LET switched == SwitchDesktop
        bounds   == BoundsChanged
        \* desktop_dc_ survives lines 26 and 39 only if neither reset it
        held     == desktop_dc_ /\ ~switched /\ ~bounds
    IN
    /\ pc = "idle"
    /\ desktop_' \in IF switched THEN {inputDesktop, desktop_} ELSE {desktop_}
    /\ \/ \* line 45 false: the existing resources are kept, return true
          /\ held
          /\ pc' = "prepared"
          /\ UNCHANGED <<desktop_dc_, memory_dc_, desktop_dc_rect_, frame_,
                         differ_, lastFrame>>
       \/ \* lines 55-61: CreateCompatibleDC() fails, return false
          /\ ~held
          /\ DCCanFail
          /\ desktop_dc_' = TRUE
          /\ memory_dc_' = FALSE
          /\ desktop_dc_rect_' = IF bounds THEN NoRect ELSE desktop_dc_rect_
          /\ pc' = "idle"
          /\ lastFrame' = NoFrame
          /\ UNCHANGED <<frame_, differ_>>
       \/ \* lines 55-75: the DCs are created, then frames 0..n-1; frame n fails
          /\ ~held
          /\ desktop_dc_' = TRUE
          /\ memory_dc_' = TRUE
          /\ desktop_dc_rect_' = screenRect
          /\ \E n \in IF FrameCanFail THEN 0 .. kNumFrames ELSE {kNumFrames} :
               /\ frame_' = [i \in FrameIds |->
                               IF i < n THEN FreshFrame(screenRect)
                               ELSE IF i = n THEN NoFrame ELSE frame_[i]]
               /\ IF n = kNumFrames
                    THEN /\ differ_' = screenRect
                         /\ pc' = "prepared"
                         /\ UNCHANGED lastFrame
                    ELSE /\ pc' = "idle"
                         /\ lastFrame' = NoFrame
                         /\ UNCHANGED differ_
    /\ UNCHANGED <<os, curr_frame_id_, viewer>>

(***************************************************************************)
(* The rest of captureImage() (lines 85-113).  SelectObject() fails when  *)
(* memory_dc_ is NULL, and then BitBlt() is skipped and the slot keeps    *)
(* its old pixels.  A NULL frame pointer, or frames or a Differ of        *)
(* different sizes, is undefined behaviour: the model records a crash.    *)
(***************************************************************************)
PrevFrameId(c) == IF c - 1 < 0 THEN kNumFrames - 1 ELSE c - 1

CaptureImage ==
    LET prevId == PrevFrameId(curr_frame_id_)
        prev   == frame_[prevId]
        curr   == frame_[curr_frame_id_]
    IN
    /\ pc = "prepared"
    /\ IF prev = NoFrame \/ curr = NoFrame
          \/ prev.rect # curr.rect \/ differ_ # curr.rect
         THEN /\ pc' = "crashed"
              /\ UNCHANGED <<frame_, curr_frame_id_, history>>
         ELSE LET blitted == IF memory_dc_ THEN [curr EXCEPT !.pixels = screen]
                             ELSE curr
              IN  \E dirty \in DirtyRegions(prev, blitted) :
                  LET out == [rect |-> blitted.rect, pixels |-> blitted.pixels,
                              dirty |-> dirty]
                  IN
                  /\ frame_' = [frame_ EXCEPT ![curr_frame_id_] = blitted]
                  /\ curr_frame_id_' = prevId
                  /\ pc' = "idle"
                  /\ lastFrame' = out
                  /\ viewer' = ApplyUpdate(viewer, out)
    /\ UNCHANGED <<os, desktop_, desktop_dc_, memory_dc_, desktop_dc_rect_,
                   differ_>>

-----------------------------------------------------------------------------
(* The operating system: desktop switches, display changes, painting.     *)

SwitchInputDesktop ==
    /\ inputDesktop' \in (Desktops \cup {InvalidDesktop}) \ {inputDesktop}
    /\ UNCHANGED <<screenRect, screen, capturer, history>>

ChangeDisplayMode ==
    /\ screenRect' \in Rects \ {screenRect}
    /\ UNCHANGED <<inputDesktop, screen, capturer, history>>

Paint ==
    /\ \E t \in Tiles : screen' = [screen EXCEPT ![t] = 1 - @]
    /\ UNCHANGED <<inputDesktop, screenRect, capturer, history>>

Next ==
    \/ PrepareCaptureResources
    \/ CaptureImage
    \/ SwitchInputDesktop
    \/ ChangeDisplayMode
    \/ Paint

Spec == Init /\ [][Next]_vars

-----------------------------------------------------------------------------
TypeOK ==
    /\ inputDesktop \in Desktops \cup {InvalidDesktop}
    /\ screenRect \in Rects
    /\ screen \in Images
    /\ desktop_ \in Desktops
    /\ desktop_dc_ \in BOOLEAN /\ memory_dc_ \in BOOLEAN
    /\ desktop_dc_rect_ \in Rects \cup {NoRect}
    /\ frame_ \in [FrameIds -> Frames \cup {NoFrame}]
    /\ differ_ \in Rects \cup {NoRect}
    /\ curr_frame_id_ \in FrameIds
    /\ pc \in {"idle", "prepared", "crashed"}
    /\ lastFrame \in Returned \cup {NoFrame}
    /\ viewer \in [rect : Rects \cup {NoRect}, pixels : Images]

\* Both DCs exist, both frames exist and have the size the resources were
\* created for, and the Differ was built for that size.
CollectivelyValid ==
    /\ desktop_dc_ /\ memory_dc_
    /\ \A i \in FrameIds : frame_[i] # NoFrame
                           /\ frame_[i].rect = desktop_dc_rect_
    /\ differ_ = desktop_dc_rect_

(***************************************************************************)
(* Whenever prepareCaptureResources() returns true, the resource set is   *)
(* collectively valid and sized to the screen as that call observed it.   *)
(* captureImage() dereferences the frames and feeds them to the Differ    *)
(* without checking, so a partial failure that leaves part of the set    *)
(* stale or NULL must make a later call recreate it.                      *)
(***************************************************************************)
ResourcesValidWhenPrepared ==
    [][pc = "idle" /\ pc' = "prepared" =>
          CollectivelyValid' /\ desktop_dc_rect_' = screenRect]_vars

(***************************************************************************)
(* The capturer implements FrameStream.  A consumer that applies the     *)
(* dirty region of every frame captureImage() returns shows, after each  *)
(* capture, the screen contents at the blit in the bounds that           *)
(* prepareCaptureResources() sampled; a failed preparation is no step of *)
(* the stream.  This needs the resource set to match the screen, the     *)
(* blit to land in the frame the Differ compares, and the Differ's base  *)
(* to be the frame last returned: it is what lets the encoders send only *)
(* the dirty region.                                                     *)
(***************************************************************************)
Stream == INSTANCE FrameStream
              WITH pending <- IF pc = "prepared" THEN desktop_dc_rect_ ELSE NoRect,
                   image   <- viewer

FrameStreamRefined == Stream!Spec

=============================================================================
