--------------------------- MODULE ScreenPipeline ---------------------------
(***************************************************************************)
(* ScreenUpdater's worker driving ScreenCapturerGDI: the capture step of  *)
(* run() (lines 469-499) is the capturer's captureImage(), so the frame   *)
(* outcome the updater branches on is the one the capturer produced, and *)
(* the video packet it posts is that frame and its dirty region.  The     *)
(* parent applies each packet when it handles the UpdateEvent.            *)
(*                                                                         *)
(* captureImage() is two steps of the worker: prepareCaptureResources()   *)
(* and the rest, so that the operating system can change the screen      *)
(* between them, as it can in the code.  DesktopFrameDIB::create() is     *)
(* taken to succeed: a NULL frame crashes the process (capturer_alloc_    *)
(* failure) and is not what this composition is about.                    *)
(***************************************************************************)
EXTENDS Naturals, Sequences

CONSTANTS
    Interval, CursorEnabled,                       \* ScreenUpdater
    Desktops, InvalidDesktop, Rects, NoRect,       \* ScreenCapturerGDI
    NoFrame, Tiles, DCCanFail,
    NoPacket   \* an UpdateEvent without a video packet (a cursor shape only)

VARIABLES
    \* the worker, the parent and the scheduler (ScreenUpdater)
    pc, update_required_, terminate_, notified, elapsed, events, unacked,
    owner, termSeen,
    \* the operating system and the capturer (ScreenCapturerGDI)
    inputDesktop, screenRect, screen, desktop_, desktop_dc_, memory_dc_,
    desktop_dc_rect_, frame_, differ_, curr_frame_id_, cpc, lastFrame, viewer,
    \* the composition
    inCapture,  \* the worker has called prepareCaptureResources() this cycle
    packets,    \* the video packets of posted UpdateEvents, oldest first
    shown       \* the parent's picture, rebuilt from the packets it handled

U == INSTANCE ScreenUpdater

C == INSTANCE ScreenCapturerGDI WITH pc <- cpc, FrameCanFail <- FALSE

updater == <<pc, update_required_, terminate_, notified, elapsed, events,
             unacked, owner, termSeen>>
os == <<inputDesktop, screenRect, screen>>
capturer == <<desktop_, desktop_dc_, memory_dc_, desktop_dc_rect_, frame_,
              differ_, curr_frame_id_, cpc, lastFrame, viewer>>
vars == <<updater, os, capturer, inCapture, packets, shown>>

Black == 0

Init ==
    /\ U!Init
    /\ C!Init
    /\ inCapture = FALSE
    /\ packets = <<>>
    /\ shown = [rect |-> NoRect, pixels |-> [t \in Tiles |-> Black]]

-----------------------------------------------------------------------------
(***************************************************************************)
(* Line 469: captureImage() calls prepareCaptureResources() (line 82).     *)
(***************************************************************************)
Prepare ==
    /\ pc = "capturing"
    /\ ~inCapture
    /\ C!PrepareCaptureResources
    /\ inCapture' = TRUE
    /\ UNCHANGED <<updater, packets, shown>>

\* Line 475: the frame's updated region decides whether encode() runs.
Outcome(f) == IF f.dirty = {} THEN "unchanged" ELSE "changed"

(***************************************************************************)
(* Lines 84-113 and 470-499: captureImage() returns nullptr if the        *)
(* preparation failed (line 83); otherwise the frame is captured and     *)
(* diffed, encoded when its region is not empty, and posted with the     *)
(* cursor shape if either was produced.                                   *)
(***************************************************************************)
Return ==
    /\ inCapture
    /\ inCapture' = FALSE
    /\ \E cursorShape \in IF CursorEnabled THEN BOOLEAN ELSE {FALSE} :
         IF cpc = "idle"
           THEN /\ U!CaptureAndPublishWith("none", cursorShape)
                /\ packets' = IF U!Publishes("none", cursorShape)
                                THEN Append(packets, NoPacket) ELSE packets
                /\ UNCHANGED <<os, capturer>>
           ELSE /\ C!CaptureImage
                /\ cpc' = "idle"
                /\ LET out == Outcome(lastFrame') IN
                   /\ U!CaptureAndPublishWith(out, cursorShape)
                   /\ packets' =
                        IF U!Publishes(out, cursorShape)
                          THEN Append(packets,
                                      IF out = "changed" THEN lastFrame' ELSE NoPacket)
                          ELSE packets
    /\ UNCHANGED shown

\* The parent handles the oldest event; an UpdateEvent's packet is applied.
DeliverEvent ==
    /\ U!DeliverEvent
    /\ IF Head(events) = "update"
         THEN /\ packets' = Tail(packets)
              /\ shown' = IF Head(packets) = NoPacket THEN shown
                          ELSE C!ApplyUpdate(shown, Head(packets))
         ELSE UNCHANGED <<packets, shown>>
    /\ UNCHANGED <<os, capturer, inCapture>>

\* The updater's other steps touch neither the capturer nor the packets.
WorkerStep ==
    /\ \/ U!Setup \/ U!Exit \/ U!BeginCapture \/ U!PublishWaitWakeup
       \/ U!IdleEnter \/ U!IdleWaitWakeup \/ U!IdleWaitTimeout
    /\ UNCHANGED <<os, capturer, inCapture, packets, shown>>

ParentStep ==
    /\ \/ U!Acknowledge \/ U!RequestTerminate \/ U!DestructorUpdate \/ U!Join
    /\ UNCHANGED <<os, capturer, inCapture, packets, shown>>

Tick ==
    /\ U!Tick
    /\ UNCHANGED <<os, capturer, inCapture, packets, shown>>

\* Desktop switches, display changes and painting.
OsStep ==
    /\ \/ C!SwitchInputDesktop \/ C!ChangeDisplayMode \/ C!Paint
    /\ UNCHANGED <<updater, inCapture, packets, shown>>

Next ==
    \/ Prepare \/ Return \/ WorkerStep
    \/ DeliverEvent \/ ParentStep \/ Tick \/ OsStep

(***************************************************************************)
(* Fairness as in ScreenUpdater, with the capture steps part of the       *)
(* worker's.  The operating system's changes are not forced.              *)
(***************************************************************************)
Fairness ==
    /\ WF_vars(Prepare \/ Return
               \/ ((U!Setup \/ U!Exit \/ U!BeginCapture \/ U!IdleEnter
                    \/ U!IdleWaitTimeout)
                   /\ UNCHANGED <<os, capturer, inCapture, packets, shown>>))
    /\ WF_vars(notified /\ U!PublishWaitWakeup
               /\ UNCHANGED <<os, capturer, inCapture, packets, shown>>)
    /\ WF_vars(notified /\ U!IdleWaitWakeup
               /\ UNCHANGED <<os, capturer, inCapture, packets, shown>>)
    /\ WF_vars(DeliverEvent)
    /\ WF_vars(U!Acknowledge /\ UNCHANGED <<os, capturer, inCapture, packets, shown>>)
    /\ WF_vars(U!DestructorUpdate /\ UNCHANGED <<os, capturer, inCapture, packets, shown>>)
    /\ WF_vars(U!Join /\ UNCHANGED <<os, capturer, inCapture, packets, shown>>)
    /\ WF_vars(Tick)

Spec == Init /\ [][Next]_vars /\ Fairness

-----------------------------------------------------------------------------
(***************************************************************************)
(* The capturer, driven by the worker, still implements FrameStream: a    *)
(* consumer applying the dirty region of every frame captureImage()       *)
(* returns shows the screen as the capture sampled it.  Between the two   *)
(* halves of a capture the worker can be nowhere else, and the updater's  *)
(* waits are steps in which the capturer does nothing.                     *)
(***************************************************************************)
CapturerRefinesStream == C!FrameStreamRefined

\* A step that changes what there is to show: the screen, its bounds or the
\* input desktop changes, or prepareCaptureResources() fails.
Disturb ==
    \/ os' # os
    \/ ~inCapture /\ inCapture' /\ cpc' = "idle"

\* From some point on nothing disturbs the capture, and the owner neither
\* destroys the ScreenUpdater nor lost its worker to a setup error.
Settled ==
    /\ <>[][~Disturb]_vars
    /\ [](owner = "running" /\ pc # "done")

(***************************************************************************)
(* Once the screen stops changing, every lit (non-black) tile of it is    *)
(* eventually shown by the parent, and stays shown: each change reaches  *)
(* a dirty region (the Differ's contract against the ring's previous     *)
(* frame, or against a fresh black frame after a reallocation), every    *)
(* non-empty region is encoded and posted (line 485), the worker is not  *)
(* held at line 498 for ever, and the parent handles the event.           *)
(***************************************************************************)
LitTilesShown ==
    Settled =>
        <>[](\A t \in Tiles : screen[t] # Black => shown.pixels[t] = screen[t])

(***************************************************************************)
(* Once the screen stops changing the parent eventually shows exactly its *)
(* contents (spec: the pipeline turns successive frames into a stream of  *)
(* changes for a viewer).                                                  *)
(***************************************************************************)
ShownConverges ==
    Settled => <>[](shown.pixels = screen)

=============================================================================
