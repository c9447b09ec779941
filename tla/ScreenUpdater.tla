--------------------------- MODULE ScreenUpdater ---------------------------
(***************************************************************************)
(* The capture thread of host/screen_updater.cc and the thread that owns  *)
(* it.                                                                     *)
(*                                                                         *)
(* The worker (ScreenUpdater::run) captures a frame and a cursor, posts   *)
(* an UpdateEvent to its parent when either produced something, waits     *)
(* under update_lock_ until the parent acknowledges with update(), then   *)
(* waits out the rest of the capture interval.  The parent's thread       *)
(* delivers posted events in order, acknowledges updates, and eventually  *)
(* destroys the ScreenUpdater: ~ScreenUpdater sets terminate_, calls      *)
(* update() and joins the worker.  Both run on the parent's thread, so    *)
(* no event is handled while the destructor runs.                         *)
(*                                                                         *)
(* The condition variable is modelled explicitly: notify_one() wakes the  *)
(* worker only if it is waiting, a woken worker re-checks its predicate,  *)
(* and spurious wakeups may happen at any time.  Time is the CaptureScheduler's *)
(* elapsed time since beginCapture(), in ticks, saturated at Interval.   *)
(*                                                                         *)
(* terminate_ is written by the destructor without update_lock_ and read  *)
(* by the worker at line 465 without it: a data race.  A racy read may    *)
(* return the old value until the worker is ordered after the write,      *)
(* which happens when it acquires update_lock_ after the destructor's    *)
(* update() released it, or once it has read the new value.               *)
(***************************************************************************)
EXTENDS Naturals, Sequences

CONSTANTS
    Interval,       \* config_.update_interval(), in ticks
    CursorEnabled   \* config_.features() & FEATURE_CURSOR_SHAPE

ASSUME Interval \in Nat \ {0} /\ CursorEnabled \in BOOLEAN

VARIABLES
    pc,               \* the worker's place in run()
    update_required_, \* guarded by update_lock_
    terminate_,
    notified,         \* a notify_one() has woken the waiting worker
    elapsed,          \* CaptureScheduler: ticks since beginCapture()
    events,           \* events posted to the parent, not yet delivered
    unacked,          \* UpdateEvents the parent has handled but not acknowledged
    owner,            \* the parent thread: "running", "notifying", "joining", "joined"
    termSeen          \* the worker's reads of terminate_ are ordered after the write

vars == <<pc, update_required_, terminate_, notified, elapsed, events,
          unacked, owner, termSeen>>

WaitStates == {"publish_wait", "idle_wait"}

\* CaptureScheduler::nextCaptureDelay(): max(0, interval - elapsed).
NextCaptureDelay == IF Interval > elapsed THEN Interval - elapsed ELSE 0

Init ==
    /\ pc = "setup"
    /\ update_required_ = FALSE
    /\ terminate_ = FALSE
    /\ notified = FALSE
    /\ elapsed = Interval    \* no capture has begun: nothing to wait for
    /\ events = <<>>
    /\ unacked = 0
    /\ owner = "running"
    /\ termSeen = FALSE

-----------------------------------------------------------------------------
\* Mutant: update_lock_ taken as no ordering at all.
TermReadsUnordered(locked) ==
    IF termSeen THEN {terminate_} ELSE {FALSE, terminate_}

\* The values a read of terminate_ may return, with or without update_lock_
\* held: once the destructor's update() has released the lock, a locked read
\* is ordered after the write.
TermReads(locked) ==
    IF termSeen \/ (locked /\ owner \in {"joining", "joined"})
      THEN {terminate_} ELSE {FALSE, terminate_}

\* Whether the worker is ordered after the write once a step has read t.
Observed(t, locked) == termSeen \/ t \/ (locked /\ owner \in {"joining", "joined"})

(***************************************************************************)
(* update() (lines 415-420): set update_required_ and notify the worker.  *)
(***************************************************************************)
\* Mutant: update() without notify_one().
UpdateNoNotify ==
    /\ update_required_' = TRUE
    /\ UNCHANGED notified

Update ==
    /\ update_required_' = TRUE
    /\ notified' = (pc \in WaitStates)

(***************************************************************************)
(* The worker: ScreenUpdater::run() (lines 422-514).                       *)
(***************************************************************************)
\* Lines 424-452: the video encoder is created from the configuration; when
\* it is not (unsupported encoding, or the codec failed to initialise) an
\* ErrorEvent is posted and run() returns.
Setup ==
    /\ pc = "setup"
    /\ \/ /\ pc' = "top"
          /\ UNCHANGED events
       \/ /\ pc' = "done"
          /\ events' = Append(events, "error")
    /\ UNCHANGED <<update_required_, terminate_, notified, elapsed, unacked, owner, termSeen>>

\* Line 465: the loop ends when terminate_ is read as set; the capturer and
\* encoders are destroyed as run() returns.
Exit ==
    /\ pc = "top"
    /\ TRUE \in TermReads(FALSE)
    /\ pc' = "done"
    /\ termSeen' = TRUE
    /\ UNCHANGED <<update_required_, terminate_, notified, elapsed, events,
                   unacked, owner>>

\* Lines 465-467: a new cycle begins and the scheduler records its start.
BeginCapture ==
    /\ pc = "top"
    /\ FALSE \in TermReads(FALSE)
    /\ pc' = "capturing"
    /\ elapsed' = 0
    /\ UNCHANGED <<update_required_, terminate_, notified, events, unacked, owner,
                   termSeen>>

\* Mutant: the predicate of line 497 without update_required_.
TerminateOnly(t) == t

\* Mutant: a wakeup taken as the predicate holding ('if' for 'while').
AnyWakeup(t) == TRUE

\* The wait predicate of lines 497 and 505, terminate_ read as t.
UpdateRequiredOrTerminate(t) == update_required_ \/ t

(***************************************************************************)
(* Lines 469-499 up to the wait.  captureImage() returns no frame, a      *)
(* frame with an empty updated region, or one with a non-empty region    *)
(* (which encode() turns into a packet); with the cursor feature on, the  *)
(* cursor capturer and encoder may or may not produce a shape.  When      *)
(* something was produced, under update_lock_: update_required_ is        *)
(* cleared, the event is posted, and the worker waits unless terminate_   *)
(* is read as set.                                                         *)
(***************************************************************************)
\* Mutant: line 485 testing the cursor shape alone.
PublishesCursorOnly(frame, cursorShape) == frame # "none" /\ cursorShape

\* Line 485: a video packet (a non-empty region) or a cursor shape was produced.
Publishes(frame, cursorShape) ==
    frame # "none" /\ (frame = "changed" \/ cursorShape)

CaptureAndPublishWith(frame, cursorShape) ==
    /\ pc = "capturing"
    /\ IF Publishes(frame, cursorShape)
         THEN \E t \in TermReads(TRUE) :
                /\ update_required_' = FALSE
                /\ events' = Append(events, "update")
                /\ pc' = IF t THEN "idle_enter" ELSE "publish_wait"
                /\ termSeen' = Observed(t, TRUE)
         ELSE /\ pc' = "idle_enter"
              /\ UNCHANGED <<update_required_, events, termSeen>>
    /\ UNCHANGED <<terminate_, notified, elapsed, unacked, owner>>

\* The outcome of the capture and of the cursor capturer and encoder.
CaptureAndPublish ==
    \E frame \in {"none", "unchanged", "changed"},
       cursorShape \in IF CursorEnabled THEN BOOLEAN ELSE {FALSE} :
        CaptureAndPublishWith(frame, cursorShape)

\* Line 498: the worker wakes, by notification or spuriously, re-acquires
\* the lock and re-checks (terminate_ is read only if update_required_ is not set).
PublishWaitWakeup ==
    /\ pc = "publish_wait"
    /\ \E t \in TermReads(TRUE) :
         /\ pc' = IF UpdateRequiredOrTerminate(t) THEN "idle_enter" ELSE pc
         /\ termSeen' = Observed(t /\ ~update_required_, TRUE)
    /\ notified' = FALSE
    /\ UNCHANGED <<update_required_, terminate_, elapsed, events, unacked, owner>>

(***************************************************************************)
(* Lines 502-512: under update_lock_, update_required_ is cleared; then   *)
(* the worker waits for the scheduler's delay unless terminate_ is read  *)
(* as set; wait_for() with a zero delay times out at once.                *)
(***************************************************************************)
\* Mutant: line 503 missing, an earlier update() survives into the idle wait.
IdleEnterNoReset ==
    /\ pc = "idle_enter"
    /\ UNCHANGED update_required_
    /\ \E t \in TermReads(TRUE) :
         /\ pc' = IF update_required_ \/ t \/ NextCaptureDelay = 0
                    THEN "top" ELSE "idle_wait"
         /\ termSeen' = Observed(t, TRUE)
    /\ UNCHANGED <<terminate_, notified, elapsed, events, unacked, owner>>

IdleEnter ==
    /\ pc = "idle_enter"
    /\ update_required_' = FALSE
    /\ \E t \in TermReads(TRUE) :
         /\ pc' = IF update_required_' \/ t \/ NextCaptureDelay = 0
                    THEN "top" ELSE "idle_wait"
         /\ termSeen' = Observed(t, TRUE)
    /\ UNCHANGED <<terminate_, notified, elapsed, events, unacked, owner>>

\* Line 510: wait_for() returns on a notification or spuriously (the loop
\* re-checks the predicate and recomputes the delay) or times out (break);
\* either way it re-acquires the lock.
IdleWaitWakeup ==
    /\ pc = "idle_wait"
    /\ \E t \in TermReads(TRUE) :
         /\ pc' = IF UpdateRequiredOrTerminate(t) THEN "top" ELSE pc
         /\ termSeen' = Observed(t /\ ~update_required_, TRUE)
    /\ notified' = FALSE
    /\ UNCHANGED <<update_required_, terminate_, elapsed, events, unacked, owner>>

IdleWaitTimeout ==
    /\ pc = "idle_wait"
    /\ NextCaptureDelay = 0
    /\ pc' = "top"
    /\ termSeen' = Observed(FALSE, TRUE)
    /\ UNCHANGED <<update_required_, terminate_, notified, elapsed, events,
                   unacked, owner>>

(***************************************************************************)
(* The parent's thread.                                                    *)
(***************************************************************************)
\* The event loop delivers the oldest posted event.
DeliverEvent ==
    /\ owner = "running"
    /\ events # <<>>
    /\ events' = Tail(events)
    /\ unacked' = IF Head(events) = "update" THEN unacked + 1 ELSE unacked
    /\ UNCHANGED <<pc, update_required_, terminate_, notified, elapsed, owner, termSeen>>

\* Mutant: an acknowledgement with no update outstanding.
AcknowledgeUnguarded ==
    /\ owner = "running"
    /\ unacked' = unacked - 1
    /\ Update
    /\ UNCHANGED <<pc, terminate_, elapsed, events, owner, termSeen>>

\* The parent acknowledges a handled update by calling update().
Acknowledge ==
    /\ owner = "running"
    /\ unacked > 0
    /\ unacked' = unacked - 1
    /\ Update
    /\ UNCHANGED <<pc, terminate_, elapsed, events, owner, termSeen>>

\* ~ScreenUpdater (lines 408-413): terminate_ = true; update(); wait().
RequestTerminate ==
    /\ owner = "running"
    /\ terminate_' = TRUE
    /\ owner' = "notifying"
    /\ UNCHANGED <<pc, update_required_, notified, elapsed, events, unacked, termSeen>>

DestructorUpdate ==
    /\ owner = "notifying"
    /\ owner' = "joining"
    /\ Update
    /\ UNCHANGED <<pc, terminate_, elapsed, events, unacked, termSeen>>

Join ==
    /\ owner = "joining"
    /\ pc = "done"
    /\ owner' = "joined"
    /\ UNCHANGED <<pc, update_required_, terminate_, notified, elapsed, events,
                   unacked, termSeen>>

\* Time passes.
Tick ==
    /\ elapsed < Interval
    /\ elapsed' = elapsed + 1
    /\ UNCHANGED <<pc, update_required_, terminate_, notified, events, unacked,
                   owner, termSeen>>

Worker ==
    \/ Setup \/ Exit \/ BeginCapture \/ CaptureAndPublish
    \/ PublishWaitWakeup \/ IdleEnter \/ IdleWaitWakeup \/ IdleWaitTimeout

Parent ==
    \/ DeliverEvent \/ Acknowledge
    \/ RequestTerminate \/ DestructorUpdate \/ Join

\* Once the parent has joined the worker, both threads are done and no step
\* is enabled: the one state in which the system stops.
Next == Worker \/ Parent \/ Tick

(***************************************************************************)
(* Fairness.  The worker thread runs whenever it is not blocked; a wakeup *)
(* is only owed to it after a notification (spurious ones are not), which *)
(* weak fairness of the notified wakeup expresses.  The parent's event    *)
(* loop eventually delivers and acknowledges (the consumer contract), and *)
(* once the destructor has begun it runs to completion.  The clock runs.  *)
(* Destroying the ScreenUpdater is the owner's choice and is not forced.  *)
(***************************************************************************)
Fairness ==
    /\ WF_vars(Setup \/ Exit \/ BeginCapture \/ CaptureAndPublish
               \/ IdleEnter \/ IdleWaitTimeout)
    /\ WF_vars(notified /\ PublishWaitWakeup)
    /\ WF_vars(notified /\ IdleWaitWakeup)
    /\ WF_vars(DeliverEvent) /\ WF_vars(Acknowledge)
    /\ WF_vars(DestructorUpdate) /\ WF_vars(Join)
    /\ WF_vars(Tick)

Spec == Init /\ [][Next]_vars /\ Fairness

-----------------------------------------------------------------------------
TypeOK ==
    /\ pc \in {"setup", "top", "capturing", "publish_wait", "idle_enter",
               "idle_wait", "done"}
    /\ update_required_ \in BOOLEAN
    /\ terminate_ \in BOOLEAN
    /\ notified \in BOOLEAN
    /\ elapsed \in 0 .. Interval
    /\ events \in Seq({"update", "error"})
    /\ unacked \in Nat
    /\ owner \in {"running", "notifying", "joining", "joined"}
    /\ termSeen \in BOOLEAN

\* UpdateEvents posted and not yet acknowledged by the parent.
Outstanding == Len(SelectSeq(events, LAMBDA e : e = "update")) + unacked


(***************************************************************************)
(* The worker never posts an UpdateEvent while an earlier one is still    *)
(* unacknowledged (spec: the pipeline does not proceed past a produced,  *)
(* unconsumed update).  The wait at lines 497-498 is the only thing that *)
(* holds it back, against spurious wakeups and a stale update_required_. *)
(***************************************************************************)
AtMostOneOutstanding == Outstanding <= 1

(***************************************************************************)
(* A capture cycle never begins before the configured interval has       *)
(* passed since the previous one began, whether or not the previous      *)
(* cycle published: the acknowledgement that ends the wait of line 498   *)
(* must not also cut short the wait of line 510.                          *)
(***************************************************************************)
CaptureCadence == [][BeginCapture => elapsed = Interval]_vars

(***************************************************************************)
(* Once ~ScreenUpdater has begun, the worker leaves whatever wait it is  *)
(* in and the destructor's wait() returns, with no help from the parent's *)
(* event loop (which the destructor blocks).                               *)
(***************************************************************************)
TerminationCompletes == owner = "notifying" ~> owner = "joined"

(***************************************************************************)
(* Until termination the worker keeps capturing: every wait ends, by the *)
(* parent's acknowledgement or by the scheduler's timeout.                 *)
(***************************************************************************)
KeepsCapturing == []<>(pc \in {"capturing", "done"})

(***************************************************************************)
(* Once termination has been requested no further UpdateEvent is posted  *)
(* (spec: the worker exits without publishing further updates).          *)
(***************************************************************************)
Posted(evs) == Len(SelectSeq(evs, LAMBDA e : e = "update"))

NoPublishAfterTerminate == [][Posted(events') > Posted(events) => ~terminate_]_vars

=============================================================================
