---------------------------- MODULE StreamCapture ----------------------------
(***************************************************************************)
(* When QEMU's display gvt-stream (src/qemu/gvt-stream.c) captures the     *)
(* guest's picture for its clients.                                        *)
(*                                                                         *)
(* Each refresh of the display may capture: at a short interval as long as *)
(* something happens on the machine, at a long one when it is idle.  A     *)
(* probe, which compares the picture on a grid of points with a sample,    *)
(* tells whether something happens; so do input and the guest's pointer.   *)
(* What becomes of a captured picture is the subject of StreamEncoder:     *)
(* here it is pushed, or not.                                              *)
(*                                                                         *)
(* Time goes in ticks.  A time of the code, such as last_capture_ms, is    *)
(* its age in ticks, counted as far as the code looks, or Never.           *)
(***************************************************************************)
EXTENDS Integers, FiniteSetsExt

CONSTANTS
  MaxPicture,   \* pictures are 0 .. MaxPicture; how far two are apart is how much changed
  Delta,        \* what the probe overlooks, idle_pixel_delta and idle_changed_ppm
  CaptureMs, IdleCaptureMs, IdleAfterMs, IdleProbeMs,   \* in ticks
  Late,         \* ticks from one refresh to the next, at most
  CaptureMax,   \* capture_max
  Paths,        \* of "dmabuf", "cpu", and "dir": the CPU path with a capture_dir
  Faults,       \* of "import", "ppm", "push"
  Never, Unlimited

ASSUME StreamCaptureAssumption ==
  /\ {MaxPicture, Delta, IdleAfterMs, IdleProbeMs} \subseteq Nat
  /\ {CaptureMs, IdleCaptureMs, Late, CaptureMax} \subseteq Nat \ {0}
  /\ Paths \subseteq {"dmabuf", "cpu", "dir"} /\ Faults \subseteq {"import", "ppm", "push"}
  /\ {Never, Unlimited} \cap Int = {}

VARIABLES
  path,       \* encode_path and capture_dir, which never change
  scanout,    \* gdpy->scanout is set
  due,        \* ticks since the last refresh
  picture,    \* what the guest shows
  sample,     \* idle_sample
  quiet,      \* since the latest of last_activity_ms, last_input_ms, last_content_change_ms
  probed,     \* since last_probe_ms
  captured,   \* since last_capture_ms
  left,       \* capture_max less capture_count
  \* History.
  base,       \* the picture when the last change was noticed
  unseen,     \* how long it has visibly been another one
  awake,      \* how long the machine has not been idle
  pushed,     \* the last picture that went to the encoder
  stale       \* how long it has not been the guest's

probeVars   == <<sample, quiet, probed, base, unseen, awake>>
captureVars == <<captured, left, pushed, stale>>
vars == <<path, scanout, due, picture, probeVars, captureVars>>

\* The longest that anything should wait, from where on ages are not counted.
Long == Max({CaptureMs, IdleCaptureMs, IdleAfterMs, IdleProbeMs}) + Late + 1

Older(age) == IF age = Never THEN Never ELSE Min({age + 1, Long})

----------------------------------------------------------------------------
(***************************************************************************)
(* Idle or not.                                                            *)
(***************************************************************************)
\* The machine is not idle when nothing has happened for q.
Busy(q) == IdleCaptureMs <= CaptureMs \/ IdleAfterMs = 0 \/ q = Never \/ q <= IdleAfterMs

\* effective_capture_ms
Interval(q) == IF Busy(q) THEN CaptureMs ELSE IdleCaptureMs

Visible(p, q) == p - q > Delta \/ q - p > Delta

Differs == sample = Never \/ Visible(picture, sample)

\* The history of a probe: a change that is noticed wakes the machine up.
Noticed ==
  /\ base' = picture /\ unseen' = Never
  /\ awake' = IF awake = Never THEN 0 ELSE awake

\* A sample that follows every probe, so that a slow change is never noticed.
SampledAlways ==
  /\ sample' = picture
  /\ IF Differs THEN quiet' = 0 /\ Noticed ELSE UNCHANGED <<quiet, base, unseen, awake>>

\* update_idle_sample: the sample is that of the last change.
Sampled ==
  IF Differs THEN sample' = picture /\ quiet' = 0 /\ Noticed
  ELSE UNCHANGED <<sample, quiet, base, unseen, awake>>

\* The scanout cannot be imported, and the probe counts.
NotProbed ==
  /\ "import" \in Faults
  /\ unseen' = (IF unseen = Never THEN Never ELSE 0)
  /\ UNCHANGED <<sample, quiet, base, awake>>

\* probe_activity
Probe ==
  IF IdleProbeMs = 0 \/ (probed # Never /\ probed < IdleProbeMs) THEN UNCHANGED probeVars
  ELSE probed' = 0 /\ (Sampled \/ NotProbed)

----------------------------------------------------------------------------
(***************************************************************************)
(* Capturing.                                                              *)
(***************************************************************************)
\* A picture that is not pushed has to be captured again.
Missed == stale' = (IF stale = Never THEN Never ELSE 0) /\ UNCHANGED pushed

\* On the CPU path the scanout is imported and read back.
NotImported ==
  path # "dmabuf" /\ "import" \in Faults /\ Missed /\ UNCHANGED <<captured, left>>

\* Throttling starts over with every picture that is captured, also when it cannot be
\* pushed.
Counted == captured' = 0 /\ left' = IF left = Unlimited THEN Unlimited ELSE left - 1

\* write_ppm fails, and nothing is encoded.
NotWritten == path = "dir" /\ "ppm" \in Faults /\ Counted /\ Missed

NotPushed == "push" \in Faults /\ Counted /\ Missed

Pushed == Counted /\ pushed' = picture /\ stale' = Never

Throttled(q) == captured # Never /\ captured < Interval(q)

Capture == NotImported \/ NotWritten \/ NotPushed \/ Pushed

\* A probe that waits for the throttle.
CaptureFrameProbesLast ==
  IF left = 0 \/ Throttled(quiet) THEN UNCHANGED <<probeVars, captureVars>>
  ELSE Probe /\ Capture

\* capture_frame: the probe comes first, and what it finds sets the interval.
CaptureFrame ==
  IF left = 0 THEN UNCHANGED <<probeVars, captureVars>>
  ELSE Probe /\ IF Throttled(quiet') THEN UNCHANGED captureVars ELSE Capture

\* gl_update, on each refresh.
GlUpdate ==
  /\ scanout /\ due > 0 /\ due' = 0
  /\ CaptureFrame
  /\ UNCHANGED <<path, scanout, picture>>

\* scanout_dmabuf, which the same refresh calls before gl_update.
ScanoutDmabuf ==
  /\ ~scanout /\ scanout' = TRUE /\ due' = 1
  /\ unseen' = (IF unseen = Never THEN Never ELSE 0) /\ stale' = (IF stale = Never THEN Never ELSE 0)
  /\ UNCHANGED <<path, picture, sample, quiet, probed, base, awake, captured, left, pushed>>

ScanoutDisable ==
  /\ scanout /\ scanout' = FALSE /\ due' = 0
  /\ UNCHANGED <<path, picture, probeVars, captureVars>>

\* Input of a client, or the guest's pointer (process_line, cursor_dmabuf,
\* cursor_position).
Activity ==
  /\ quiet' = 0 /\ awake' = IF awake = Never THEN 0 ELSE awake
  /\ UNCHANGED <<path, scanout, due, picture, sample, probed, base, unseen, captureVars>>

\* Since when two pictures have not been the same.
Apart(apart, age) == IF ~apart THEN Never ELSE IF age = Never THEN 0 ELSE age

GuestDraws ==
  /\ picture' \in 0 .. MaxPicture
  /\ stale' = Apart(picture' # pushed, stale)
  /\ unseen' = Apart(base # Never /\ Visible(picture', base), unseen)
  /\ UNCHANGED <<path, scanout, due, sample, quiet, probed, base, awake, captured, left, pushed>>

\* The refresh timer is served before it is more than Late behind.
Tick ==
  /\ scanout => due < Late
  /\ due' = IF scanout THEN due + 1 ELSE 0
  /\ quiet' = Older(quiet) /\ probed' = Older(probed) /\ captured' = Older(captured)
  /\ unseen' = Older(unseen) /\ stale' = Older(stale)
  /\ awake' = IF Busy(Older(quiet)) THEN Older(awake) ELSE Never
  /\ UNCHANGED <<path, scanout, picture, sample, base, pushed, left>>

Init ==
  /\ path \in Paths /\ scanout = FALSE /\ due = 0 /\ picture = 0
  /\ sample = Never /\ quiet = Never /\ probed = Never /\ captured = Never
  /\ left \in {CaptureMax, Unlimited}
  /\ base = Never /\ unseen = Never /\ awake = 0 /\ pushed = Never /\ stale = 0

Next == GlUpdate \/ ScanoutDmabuf \/ ScanoutDisable \/ Activity \/ GuestDraws \/ Tick

Spec == Init /\ [][Next]_vars

----------------------------------------------------------------------------
\* A client sees what the guest shows in time: within the idle interval at the latest,
\* and within the short one when there is input, the pointer moves or a change has
\* been noticed - which happens to every visible change within IdleProbeMs, be it the
\* sum of steps that none of them is visible ("idle capture_ms=66, back to 16 on a
\* change or input", docs/SERVER_REQUIREMENTS.md:41).  A capture or a probe that
\* fails is made again after as long; the main loop adds less than Late.
PictureInTime ==
  scanout /\ left # 0 =>
    /\ stale # Never =>
         /\ stale < Max({IdleCaptureMs, CaptureMs}) + Late
         /\ awake # Never => Min({stale, awake}) < CaptureMs + Late
    /\ IdleProbeMs # 0 /\ unseen # Never => unseen < IdleProbeMs + Late

Age == 0 .. Long \cup {Never}

\* The type invariant; an idle machine has not woken up, and one without a sample has
\* not been seen to change.
TypeOK ==
  /\ path \in Paths /\ scanout \in BOOLEAN /\ due \in 0 .. Late /\ picture \in 0 .. MaxPicture
  /\ {sample, base, pushed} \subseteq 0 .. MaxPicture \cup {Never}
  /\ {quiet, probed, captured, unseen, awake, stale} \subseteq Age
  /\ left \in 0 .. CaptureMax \cup {Unlimited}
  /\ ~Busy(quiet) => awake = Never
  /\ sample = base
=============================================================================
