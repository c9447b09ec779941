# TLA+ models of Aspia's screen capture pipeline

This directory holds TLA+ specifications of the host-side capture pipeline of
Aspia, and the TLC configurations that check them. The code they model is in
`src/source/desktop_capture/screen_capturer_gdi.cc`. That file bundles three
sources:

| Lines   | Source file                      |
|---------|----------------------------------|
| 17-114  | `desktop_capture/screen_capturer_gdi.cc` |
| 117-378 | `desktop_capture/win/cursor.cc`  |
| 379-516 | `host/screen_updater.cc`         |

There is also `src/unnamed/part_000`, the SMBIOS/DMI parser. All line numbers
below refer to these files.

## 1. The system

### Components

**ScreenCapturerGDI** (lines 17-114) keeps one resource set: a desktop DC, a
memory DC, a ring of two DIB frames, and a Differ sized to the screen.

`prepareCaptureResources()` runs at the start of each `captureImage()`. It
does three things:

- It follows the input desktop. On a switch it releases the DCs and calls
  `SetThreadDesktop`, which may fail.
- It drops the DCs when the screen bounds change.
- It recreates the resources when the desktop DC is gone. This step can fail
  partway: `CreateCompatibleDC`, or either frame allocation, may fail.

`captureImage()` then blits the screen into the current frame and computes its
dirty region against the previous frame. It advances the ring and returns the
frame.

**CursorCapturer / mouseCursorFromHCursor** (lines 149-376) turns a Windows
cursor into a premultiplied RGBA image. The input is either a monochrome
AND/XOR mask, or a mask plus a 32bpp colour bitmap. The steps are:

1. Detect an alpha channel.
2. If there is none, combine mask and colour through the table at lines
   330-355.
3. Add an in-place white outline when a reverse-screen pixel was met.
4. Premultiply.

**ScreenUpdater** (lines 401-514) is the capture thread. Each round it:

1. Starts a scheduler interval.
2. Captures a frame and a cursor, then encodes them.
3. If either produced something, posts an `UpdateEvent` to its parent and
   waits under `update_lock_` until the parent calls `update()`.
4. Waits out the rest of the interval. `update()` and termination cut this
   wait short.

The destructor sets `terminate_`, calls `update()` and joins the thread.

**CaptureScheduler, Differ, the encoders, DesktopFrameDIB and Desktop** are not
in the repository. Their behaviour is taken from `spec.md`.

**DMI parser** (`src/unnamed/part_000`, `system_info/serializer/dmi_impl.cc`)
is outside the capture pipeline. It has two parts:

- `DmiTableEnumerator` reads the raw SMBIOS table into a fixed `SmBiosData`
  buffer with `GetSystemFirmwareTable` (`readSmBios`, lines 22-35). Its
  constructor sets `current_` and `next_` to the first byte (lines 43-49).
  `advance()` (lines 51-91) checks the 4-byte header. It stops at a short
  entry or the type 127 end marker. Otherwise it skips the formatted area
  and scans for the double NUL that ends the string set. `table()` (lines
  93-110) returns a `DmiBiosTable` for type 0.
- `DmiTable::string()` (lines 122-139) and the `DmiBiosTable` getters (lines
  151-235) decode fields by fixed offsets from the structure's first byte.

### How they interact

`ScreenUpdater::run` owns a `ScreenCapturerGDI` and a cursor capturer. It
calls `captureImage()` once per round. The returned frame's dirty region
decides whether a video packet exists. The frame is valid only until the next
call.

The parent thread consumes `UpdateEvent`s in order. It acknowledges each one
with `update()`, and that acknowledgement is what lets the worker go on. The
cursor path feeds the same event.

`ScreenPipeline.tla` models this interaction. In it the updater's worker drives
the capturer, and the parent rebuilds its picture from the video packets it
handles. A capturer property and an updater property can each hold while the
pair still loses a change: the capturer returns a frame whose region is empty
relative to a fresh ring, and the updater rightly does not encode it.

### Hazards

Each hazard is listed in `PROJECT.json` at the line where it bites.

- Partial failure while the resource set is recreated (lines 57, 70).
- The diff base after a same-size reallocation (lines 67, 107).
- Encoding decided by the region alone, which after a reallocation is
  relative to black and not to what the parent has (line 475).
- A screen change reaching the parent only through five steps of two threads
  (line 485).
- Termination racing a capture in flight (lines 465 and 495).
- Spurious wakeups and stale `update_required_` in the two waits (lines 497
  and 505).
- A lost notification at destruction (line 411).
- The publish wait has no timeout (line 498).
- Halving of the monochrome mask (line 307).
- Edge guards of the in-place outline scan (line 185).
- The DMI walk over lengths read from firmware data (lines 58, 78).
- `readSmBios()` taking the "buffer too small" return for success (line 25).
- The order a client calls `table()` and `advance()` in (line 48).
- DMI getters reading fields that older structures do not have (lines 172,
  194), and the string walk by index (line 129).

## 2. Modules and how they correspond to the code

### `ScreenCapturerGDI.tla`

**Variables.** The members `desktop_`, `desktop_dc_`, `memory_dc_`,
`desktop_dc_rect_`, `frame_`, `differ_` and `curr_frame_id_` are variables.
`differ_` is the rect the Differ was built for. Three more variables hold the
operating system's state: `inputDesktop`, `screenRect` and `screen`.

**Data abstraction.**

- Pixels are one bit per tile. 0 is black, the content of a fresh DIB section.
- The Differ is modelled by its contract (`spec.md` §4.2). Its dirty region is
  any set of tiles that covers every changed tile, so the refinement holds
  for every conservative Differ, not only for the exact one.

**Actions.**

- `PrepareCaptureResources` is the whole of `prepareCaptureResources()`. When
  it returns false, `captureImage()` returns nullptr at lines 82-83. It has
  three outcomes:
  - The resources are kept.
  - `CreateCompatibleDC` fails.
  - The DCs are created and frames 0..n-1 are allocated. Frame n may fail.
- `CaptureImage` is lines 85-113. When `memory_dc_` is NULL, `SelectObject`
  fails and the blit is skipped. A NULL frame, or a size mismatch with the
  Differ, is recorded as `pc = "crashed"`.
- The environment switches the input desktop (possibly to an invalid one),
  changes the display mode, and paints.

**History variables.** `lastFrame` and `viewer` record what a consumer
rebuilds by applying every dirty region. The consumer starts from black when
the frame size changes.

### `FrameStream.tla` and the refinement

`FrameStream` is the abstract promise a capturer makes to its consumer. A
capture samples the screen bounds when it starts (`BeginCapture`). When it
ends (`Deliver`), the consumer shows those bounds with the screen contents of
that moment. Bounds and contents change at any time.

`ScreenCapturerGDI` instantiates it as `Stream`, using this refinement
mapping:

- `image` is `viewer`, the picture the consumer has rebuilt.
- `pending` is `desktop_dc_rect_` while `pc = "prepared"`, and `NoRect`
  otherwise.

A successful `prepareCaptureResources()` is `BeginCapture`, and
`captureImage()` is `Deliver`. A failed preparation and a desktop switch are
stutters. A crash has no abstract counterpart, so it breaks the refinement.
`FrameStreamRefined == Stream!Spec` is checked as a `PROPERTY`, through
`ScreenPipeline`'s `CapturerRefinesStream`. That check has the capturer driven
by the real worker: between its two steps the updater's waits are stutters.
Its run has one desktop and reliable allocation, so it never meets the
same-size reallocation (line 67), which breaks the refinement; that hazard is
checked end to end by pipeline_converges.

### `ScreenUpdater.tla`

**Variables.** `pc` is the worker's place in `run()`. The others are
`update_required_`, `terminate_`, `events` (the parent's queue), `unacked` and
`owner` (the parent: running, in the destructor, joined). The scheduler's
clock is `elapsed`, counted in ticks and saturated at `Interval`.

**Actions.**

- `CaptureAndPublish` is lines 469-499 up to the wait. It picks one of three
  capture outcomes: a nullptr frame, an empty dirty region, or a changed
  frame. It also picks whether a cursor shape was produced.
- The condition variable is explicit. `notify_one()` sets `notified` only
  when the worker waits. `PublishWaitWakeup` and `IdleWaitWakeup` re-check the
  predicate. They may also fire without a notification: these are spurious
  wakeups.
- The data race on `terminate_` is modelled. The destructor writes it at
  line 410 without `update_lock_`, and `run()` reads it at line 465, also
  without the lock. A read of `terminate_` may therefore still return FALSE
  after the write. `TermReads` is the set of values a read can return.
  `termSeen` records that the worker's reads are ordered after the write.
  That ordering comes from the worker having read TRUE, or from a read made
  under the lock after the destructor's `update()` took it. A mutant that
  drops the lock ordering (`TermReadsUnordered`) breaks termination.

### `Cursor.tla`

**Data.** Pixels are records of four bytes. Bitmaps are functions over
`0..w*h-1` in memory order.

**Definitions.**

- `HasAlphaChannel`, `CombineMask`, `NextToBlack`, `OutlineFrom` /
  `AddCursorOutline` (a RECURSIVE in-place pass) and `AlphaMul` are the helper
  functions and the table.
- `MouseCursorFromHCursor` is the whole function. It returns nullptr on an
  API failure.
- `ReferenceCursor` restates the spec's rules over coordinates. The outline is
  decided simultaneously. This is the reference the code is checked against.

### `DmiTableEnumerator.tla`

**Variables.** `data_` and `length_` are the two fields of `SmBiosData`.
`current_` and `next_` are byte offsets, or `Null` for nullptr. `firmware` is
the list of structures the firmware holds. `read` is the outcome of
`readSmBios()`, and `pc` is the client's place in its loop. `visited` and
`maxRead` are history: every non-null `table()` result, and the largest
offset any step has read.

**Data.** A structure is a record: type, formatted length, the formatted
bytes after the header, and its strings. `Serialize` lays it out as bytes.
Memory past the buffer reads as a fixed garbage byte.

**Actions.**

- `Construct` is the constructor with `readSmBios()`. The call fails, or
  copies a table that fits, or returns the size it needs without writing
  anything, which the code takes for success.
- `Advance` is the whole of `advance()`. Its loop body runs at most once. The
  recursive operator `Scan` is the double-NUL scan of lines 77-82.
- `Table` is `table()` together with the client's loop test.

The client loop is not in the repository. It is modelled as the usual
`advance()`-then-`table()` loop.

### `DmiBiosTable.tla`

One type 0 structure is laid out as bytes: the formatted area of `length`
bytes, its string set, then 32 bytes of whatever follows. Fields at or past
`length` are not written, so reading them reads the string set or beyond.
`Query` builds the table and calls every getter once. `String`, `StringAt`,
`BiosSize`, `Revision`, `Address` and `RuntimeSize` translate the functions
of the same names. `Characteristics` translates `characteristics()`
(lines 237-298): bit 3 of the 64-bit word means "not supported", and the
two extension bytes are read only when `length()` reaches them. `BitAt` is
`BitSet::test`. `number<T>()` is in `dmi_impl.h`, which is not in the
repository; it is modelled as a little-endian read.

### `ScreenPipeline.tla`

This module composes ScreenUpdater (`U == INSTANCE ScreenUpdater`) with
ScreenCapturerGDI (`C == INSTANCE ScreenCapturerGDI WITH pc <- cpc`). The
capturer's program counter is renamed `cpc` so that it does not clash with the
worker's `pc`. Its own variables are:

- `inCapture`: the worker is inside `captureImage()`;
- `packets`: the video packets of posted events;
- `shown`: the parent's picture.

**Actions.**

- `Prepare` is line 469 calling `prepareCaptureResources()` (line 82).
- `Return` is the rest of `captureImage()` together with lines 470-499. A
  failed preparation returns nullptr, which gives the updater the outcome
  `"none"`. Otherwise `C!CaptureImage` runs. `Outcome` turns its region into
  `"unchanged"` or `"changed"` (line 475), and
  `U!CaptureAndPublishWith` posts the frame as the packet when one was
  encoded.
- `DeliverEvent` is the parent handling the oldest event. It applies the
  packet of an `UpdateEvent` with the same `ApplyUpdate` the capturer's
  consumer uses.
- `WorkerStep`, `ParentStep`, `Tick` and `OsStep` are the components' other
  steps, each leaving the rest of the state alone.

The operating system can change the screen between `Prepare` and `Return`, as
it can in the code. `DesktopFrameDIB::create()` is taken to succeed. A NULL
frame is undefined behaviour that `capturer_alloc_failure` already shows, so a
capture never crashes here.

**Properties.**

- `Settled` says that from some point on no step changes the screen, its
  bounds or the input desktop, no preparation fails, and the owner keeps the
  updater running.
- `LitTilesShown`: under `Settled`, the parent eventually shows every lit
  tile of the screen, and keeps showing it.
- `ShownConverges`: under `Settled`, the parent eventually shows every tile.

### MC modules

`MCScreenPipeline`, `MCScreenCapturerGDI`, `MCScreenUpdater`, `MCCursor`, `MCDmiTableEnumerator`
and `MCDmiBiosTable` give the constants their values.

## 3. Runs

| Run | Expect | What it shows |
|-----|--------|---------------|
| capturer_resources | pass | With reliable allocation, every `prepareCaptureResources()` that returns true leaves DCs, both frames and the Differ valid and sized to the screen it read. This holds across desktop switches (valid, invalid, or a failed `SetThreadDesktop`) and display changes. |
| capturer_alloc_failure | violation | A failed frame allocation is never retried, so the next call returns true with a NULL frame. After a desktop switch, a failed `CreateCompatibleDC` likewise leaves a NULL memory DC that is never retried. Both are code bugs; TLC reports the shorter frame trace. |
| pipeline_stream | pass | With the worker driving the capturer, the capturer still implements `FrameStream`. This covers one desktop, display-mode changes, painting and reliable allocation. Once the screen stops changing, every lit tile of it reaches the parent through a posted, handled `UpdateEvent`. |
| pipeline_converges | violation | The parent need not converge to a screen that stopped changing. After a reallocation the ring is black, so a screen that is black where the parent still shows old content gives an empty region; the frame is not encoded and the old pixels stay for good. TLC's trace is a desktop switch, which recreates the ring at the same size (code_bug, line 67). A display-mode change reaches the same end in this run (spec_gap, line 475). |
| updater_handoff | pass | See the list after this table. |
| updater_terminate_publish | violation | An `UpdateEvent` is posted after `terminate_` is set (spec_code_divergence). |
| cursor_reference | pass | For every icon in the bounds, the code's cursor equals the spec's reference cursor. |
| dmi_walk | pass | When the table fits, the client sees every complete structure before the end marker once, in order, with a `DmiBiosTable` exactly for type 0. Whatever the buffer holds, no read reaches `data_.length`. |
| dmi_truncated | violation | A structure cut by `data_.length` is still returned, and its getters read past the table (code_bug). |
| dmi_too_small | violation | A table larger than `SmBiosData` is taken as read, and the walk goes past the buffer by an unwritten length (code_bug). |
| dmi_bios_getters | pass | `string()` returns the handle-th string, or an empty one. `biosSize()` and `runtimeSize()` agree with the SMBIOS encodings. `characteristics()` agrees with a bit-by-bit reference, and extension bytes are read only when the structure holds them. |
| dmi_bios_absent_fields | violation | A BIOS structure shorter than 0x18 reports string bytes as its BIOS and firmware revisions (code_bug). |

The updater_handoff run checks four properties:

- At most one `UpdateEvent` is posted or unacknowledged at a time.
- Every capture starts a full interval after the previous one.
- Destruction always joins the worker.
- The worker captures again and again until it is told to stop.

Every property of a passing run has a mutant in `PROJECT.json`. A mutant is a
plausible bug in the mapped code, and TLC finds the property violated by it.

## 4. Bounds

**ScreenCapturerGDI.**

- Two desktops plus the invalid one.
- Two screen rects.
- Two tiles.
- Two frames, as in the code.

This reaches every combination of the following:

- a switch at the same size and at a new size;
- a failure followed by a return to the previous size;
- a tile going 1→0 across a reallocation, which needs two tiles to tell apart
  from a full repaint.

**ScreenPipeline.** The bounds are:

- one desktop for pipeline_stream and two for pipeline_converges (a
  desktop switch is the same-size reallocation), and two screen rects;
- two tiles;
- `Interval = 1`;
- the cursor feature on.

These are the smallest bounds in which a lit tile goes black across a
reallocation and a cursor-only event interleaves with a video one. One tick
still separates a wait that ends at once from one that must time out. The
stream run reaches 517,936 distinct states. The converges run finds its
counterexample after about 1,050,000 distinct states, in about a minute.

**ScreenUpdater.** `Interval = 2` ticks, which separates "no wait", "partial
wait" and "full wait". Cursor capture is on, so an update can come from the
cursor alone.

**Cursor.**

- Monochrome icons of every shape up to 3x2 and 2x3. These contain pixels
  with neighbours on every existing side, and rows that wrap.
- Colour icons up to 2x2, over four colour pixels: transparent, white, grey
  without alpha, and grey with alpha.

**DmiTableEnumerator.** The firmware holds up to two structures, then
optionally the end marker. Each structure is of type 0 or 1, with a 4- or
5-byte formatted area and no strings or one string. A short entry with a
declared length of 2 is also included. The buffer holds 16 bytes: two
structures, or one and the end marker, but not two and the end marker, so
both the fitting and the too-small outcomes occur. Before it is written, the
buffer is all 0, all 4, or alternating 0 and 4. Its length is 0, 17 or 18.
These put an unwritten structure's scan end on either side of the bound at
line 78.

**DmiBiosTable.**

- Lengths 0x12, 0x13, 0x18 and 0x1A: SMBIOS 2.0, 2.3, 2.4 and 3.1.
- String sets of up to two strings. Handles 0 to 3, past the last string
  included.
- Old size 0 or 0xFF. Extended sizes in MB and GB at the 14-bit edge.
- Addresses 0, 0xE000 and 0xFFFF.
- Characteristics words with bit 3 set and with high bits set. Extension
  bytes 0 and 0x81, so that a read one byte too early shows up for length
  0x12 and 0x13.

## 5. Fairness

The worker thread is weakly fair on all of its non-blocking steps. A wait is
woken fairly only when a notification is pending. Spurious wakeups are allowed
but never assumed.

The parent's event loop is weakly fair on delivery and acknowledgement. This
is the consumer contract of `spec.md` §4.5: the worker blocks until the
consumer acknowledges. Once the destructor has begun, it runs to completion.

Destruction itself is never forced.

`ScreenPipeline` gives the capture steps the worker's weak fairness. The
operating system's changes stay unfair. A failed allocation, the owner's
destruction of the updater, and a setup error are not ruled out by fairness.
The liveness properties instead take their absence as a hypothesis
(`Settled`). Without it, no capture pipeline could promise convergence.

## 6. Not modelled

- **Allocation failures inside `ScreenPipeline`.** The composition has
  `FrameCanFail <- FALSE`, and both of its runs set `DCCanFail = FALSE`.
  With `CreateCompatibleDC()` failing, the capturer alone already breaks
  `FrameStream` (the failed-creation trace in the `code_bug` at line 67), and
  no liveness can hold while failures recur. The `nullptr` branch of `Return`
  is written out, but no run explores it. The standalone `updater_handoff`
  run covers the `"none"` outcome.
- **The encoders and DesktopFrameDIB.** Data transformation only. Their
  outcomes are the nondeterministic choices above.
- **The Differ's block algorithm.** It is not in the repository. The
  capturer uses it only through its contract: every changed tile is covered.
  Any cover is allowed, so the algorithm's choice of blocks cannot matter to
  the properties.
- **The DMI client loop.** It is not in the repository. Calling `table()`
  before the first `advance()` would show the first structure twice, and
  on an empty table would read an unwritten byte. This order is listed as a
  hazard and not checked.

## 7. Plan

1. ScreenCapturerGDI and ScreenUpdater. Done.
2. Cursor reconstruction. Done.
3. `ScreenPipeline`: done. It composes the updater and the capturer and
   checks end-to-end liveness.
4. The abstract `FrameStream` and its refinement. Done.
5. `Differ`: done through its contract (any cover of the changed tiles).
   The block algorithm itself is not in the repository.
6. The DMI parser. Done.
7. Not done: a violation run for the idle wait that follows a published
   and acknowledged update (lines 502-512). `spec.md` §4.5 waits only when
   nothing was published. The code's behaviour is what `CaptureCadence`
   checks. The spec's reading is not checked as a run of its own.
