---------------------------- MODULE StreamEncoder ----------------------------
(***************************************************************************)
(* What QEMU's display gvt-stream (src/qemu/gvt-stream.c) does with the    *)
(* pictures it captures (StreamCapture): a GStreamer pipeline, begun with  *)
(* the first picture, encodes them and writes the video to a file, or      *)
(* sends it.  After encode_max pictures the video is brought to its end.   *)
(*                                                                         *)
(* The pipeline runs in threads of its own behind a queue that gives up    *)
(* its oldest buffer when it is full; a failure shows on its bus.  The     *)
(* display runs on QEMU's main loop, which waits for the end of the video  *)
(* no longer than five seconds.                                            *)
(***************************************************************************)
EXTENDS Integers, SequencesExt

CONSTANTS
  EncodeMax,  \* encode_max; 0 is no limit
  Frame,      \* 1 / encode_fps, in ticks: encode_duration, a second at most
  MaxGap,     \* the longest duration of a buffer, 1000 ms
  EosWait,    \* how long the end is waited for, 5 s
  QueueMax,   \* max-size-buffers of the pipeline's queue
  Faults,     \* of "start", "buffer", "push"
  MaxTime     \* bound on the clock

ASSUME StreamEncoderAssumption ==
  /\ EncodeMax \in Nat /\ MaxTime \in Nat
  /\ {Frame, MaxGap, EosWait, QueueMax} \subseteq Nat \ {0} /\ Frame <= MaxGap
  /\ Faults \subseteq {"start", "buffer", "push"}

VARIABLES
  now,       \* the clock
  tried,     \* when the display last tried to push a picture
  pipeline,  \* encode_pipeline: "none", "playing", "ending" while finish waits
  frames, pts, wall,   \* encode_count, encode_pts, last_encode_wall_ms
  queue,     \* the frames in the pipeline's queue
  bus,       \* messages on the pipeline's bus: "error", "eos"
  dead,      \* the pipeline has failed
  \* History.
  video,     \* the frames in the file
  first,     \* when the first buffer was stamped
  paused     \* two buffers were stamped more than MaxGap apart

stampVars == <<pts, wall, first, paused>>
gstVars   == <<queue, bus, dead>>
vars == <<now, tried, pipeline, frames, stampVars, gstVars, video>>

----------------------------------------------------------------------------
(***************************************************************************)
(* The pipeline's own threads.                                             *)
(***************************************************************************)
EncodeFrame ==
  /\ queue # <<>> /\ ~dead
  /\ video' = Append(video, Head(queue)) /\ queue' = Tail(queue)
  /\ UNCHANGED <<now, tried, pipeline, frames, stampVars, bus, dead>>

\* The end of the stream comes after all frames.
EncodeEnd ==
  /\ pipeline = "ending" /\ queue = <<>> /\ ~dead /\ "eos" \notin bus
  /\ bus' = bus \cup {"eos"}
  /\ UNCHANGED <<now, tried, pipeline, frames, stampVars, queue, dead, video>>

EncodeFails ==
  /\ pipeline # "none" /\ ~dead
  /\ dead' = TRUE /\ bus' = bus \cup {"error"}
  /\ UNCHANGED <<now, tried, pipeline, frames, stampVars, queue, video>>

----------------------------------------------------------------------------
(***************************************************************************)
(* encoder_push and encoder_push_dmabuf.                                   *)
(***************************************************************************)
\* A limit that holds back one picture too late, when the pipeline is gone.
EnoughLate == EncodeMax # 0 /\ frames > EncodeMax

Enough == EncodeMax # 0 /\ frames >= EncodeMax

\* The display tries to push a picture that it has captured.
Tries == pipeline # "ending" /\ tried < now /\ tried' = now /\ UNCHANGED now

PushNothing ==
  /\ Tries /\ Enough
  /\ UNCHANGED <<pipeline, frames, stampVars, gstVars, video>>

\* encoder_start creates the file.
Recorded == IF pipeline = "none" THEN <<>> ELSE video

\* encoder_start fails, and everything it made is given back.
PushNotStarted ==
  /\ Tries /\ ~Enough /\ "start" \in Faults /\ pipeline = "none"
  /\ video' = Recorded
  /\ UNCHANGED <<pipeline, frames, stampVars, gstVars>>

\* The pipeline plays, but the picture's format or file descriptor does not serve, or
\* there is no memory for a buffer.
PushNoBuffer ==
  /\ Tries /\ ~Enough /\ "buffer" \in Faults
  /\ pipeline' = "playing" /\ video' = Recorded /\ dead' = (dead /\ pipeline = "playing")
  /\ UNCHANGED <<frames, stampVars, queue, bus>>

\* Buffers that last one frame each, whenever they come.
DurationOfFrame == Frame

\* stamp_buffer measures the time since the last buffer, between a millisecond and a
\* second.
Duration ==
  IF wall = 0 THEN Frame
  ELSE IF now - wall < 1 THEN 1 ELSE IF now - wall > MaxGap THEN MaxGap ELSE now - wall

\* The buffer gets the time at which the one before it ends; n and at are its number
\* among the frames and when it was captured.
Stamped(n) == [n |-> n, pts |-> pts, at |-> now, paused |-> paused']

Stamp ==
  /\ pts' = pts + Duration
  /\ wall' = now
  /\ first' = (IF wall = 0 THEN now ELSE first)
  /\ paused' = (paused \/ (wall # 0 /\ now - wall > MaxGap))

\* queue leaky=downstream: a full queue gives up its oldest buffer.
Queued(q, f) == Append(IF Len(q) = QueueMax THEN Tail(q) ELSE q, f)

\* encoder_poll_bus: what is on the bus is logged and taken off it.
PolledBus == {}

\* The buffer is stamped, and taken by the pipeline or not; with the last frame
\* encoder_finish ends the stream and waits.
PushBuffer(ok) ==
  /\ Tries /\ ~Enough /\ (ok \/ "push" \in Faults)
  /\ Stamp
  /\ frames' = (IF ok THEN frames + 1 ELSE frames)
  /\ queue' = IF ok THEN Queued(queue, Stamped(frames + 1)) ELSE queue
  /\ video' = Recorded /\ dead' = (dead /\ pipeline = "playing") /\ bus' = PolledBus
  /\ pipeline' = IF ok /\ frames + 1 = EncodeMax THEN "ending" ELSE "playing"

\* The end of the stream or an error ends the wait, and so do five seconds.
Waited == bus # {} \/ now - wall >= EosWait

\* encoder_finish closes the pipeline, with what is still in it.
Finish ==
  /\ pipeline = "ending" /\ Waited
  /\ pipeline' = "none" /\ queue' = <<>> /\ bus' = {}
  /\ UNCHANGED <<now, tried, frames, stampVars, dead, video>>

Tick ==
  /\ now < MaxTime /\ now' = now + 1
  /\ UNCHANGED <<tried, pipeline, frames, stampVars, gstVars, video>>

Init ==
  /\ now = 1 /\ tried = 0 /\ pipeline = "none" /\ frames = 0
  /\ pts = 0 /\ wall = 0 /\ first = 0 /\ paused = FALSE
  /\ queue = <<>> /\ bus = {} /\ dead = FALSE /\ video = <<>>

Next ==
  \/ PushNothing \/ PushNotStarted \/ PushNoBuffer \/ PushBuffer(TRUE) \/ PushBuffer(FALSE)
  \/ Finish \/ EncodeFrame \/ EncodeEnd \/ EncodeFails \/ Tick

Spec == Init /\ [][Next]_vars

----------------------------------------------------------------------------
\* The pictures of the video are stamped one after the other and on the clock: none by
\* a frame or more later than it was captured, counted from the first, nor, while no
\* two come further apart than the longest buffer, earlier by more than that less a
\* frame.  (A buffer starts where the one before it ends, one frame after that was
\* captured, so a picture after a gap is shown early by the gap less a frame.)  Pushes
\* that fail and frames that the queue gives up leave the others where they are
\* (stamp_buffer, which measures the durations; encode_pts is their sum).
StampsFollowWall ==
  /\ \A i, j \in DOMAIN video : i < j => video[i].pts < video[j].pts
  /\ \A f \in Range(video) :
       LET early == (f.at - first) - f.pts
       IN  -Frame < early /\ (~f.paused => early <= MaxGap - Frame)

\* A video is never begun anew over the frames it has, whatever fails after how many
\* pictures, and where it is ended it has the last picture that was pushed, unless
\* the pipeline has failed or takes longer than the display waits (encoder_start
\* creates the file; the queue and encoder_finish could each lose the end).
OneCompleteRecording ==
  [][/\ IsPrefix(video, video')
     /\ pipeline = "ending" /\ pipeline' = "none" /\ ~dead /\ now - wall < EosWait
          => video # <<>> /\ Last(video).n = frames]_vars
=============================================================================
