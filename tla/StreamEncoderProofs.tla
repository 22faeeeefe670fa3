------------------------ MODULE StreamEncoderProofs ------------------------
(***************************************************************************)
(* Theorems about StreamEncoder for every limit, queue, frame rate and     *)
(* set of calls that may fail.                                             *)
(*                                                                         *)
(* StampInv: the last stamp is not later than the last try, which is not   *)
(* later than the clock; so two buffers are never stamped in one tick, and *)
(* the stamp of the next one is a frame after the last one was captured,   *)
(* but for the pauses.                                                     *)
(* BuffersInv: the stamps of the file and then of the queue increase, up   *)
(* to that of the next buffer, and each is on the clock.                   *)
(* VideoInv: a pipeline that is gone has left the file empty, or the limit *)
(* reached; and while the end is waited for, the last frame is the last    *)
(* one of the queue, or of the file when the queue is empty.               *)
(***************************************************************************)
EXTENDS StreamEncoder, SequenceTheorems, TLAPS

USE StreamEncoderAssumption

Buffers == [n : Nat, pts : Nat, at : Nat, paused : BOOLEAN]

\* Every variable has its type.
EncoderTypes ==
  /\ {now, tried, frames, pts, wall, first} \subseteq Nat
  /\ pipeline \in {"none", "playing", "ending"}
  /\ queue \in Seq(Buffers) /\ video \in Seq(Buffers)
  /\ bus \subseteq {"error", "eos"} /\ dead \in BOOLEAN /\ paused \in BOOLEAN

StampInv ==
  /\ wall <= tried /\ tried <= now /\ 0 < now /\ first <= wall
  /\ wall = 0 => pts = 0 /\ ~paused
  /\ wall # 0 => IF paused THEN pts < wall - first + Frame ELSE pts = wall - first + Frame

\* A frame of the file or the queue, stamped at a time at or after the first buffer.
OnClock(f) ==
  /\ wall # 0 /\ f.pts < pts
  /\ f.pts < f.at - first + Frame
  /\ ~f.paused => f.at - first <= f.pts + (MaxGap - Frame)

Increasing(s) == \A i, j \in DOMAIN s : i < j => s[i].pts < s[j].pts

BuffersInv ==
  /\ Increasing(video) /\ Increasing(queue)
  /\ \A f \in Range(video), g \in Range(queue) : f.pts < g.pts
  /\ \A f \in Range(video) \cup Range(queue) : OnClock(f)

\* Where the last frame is while the end of the video is waited for.
EndIsThere == IF queue = <<>> THEN video # <<>> /\ Last(video).n = frames ELSE Last(queue).n = frames

VideoInv ==
  /\ pipeline = "none" => queue = <<>> /\ bus = {} /\ (Enough \/ video = <<>>)
  /\ pipeline = "ending" => Enough /\ EndIsThere
  /\ "error" \in bus => dead
  /\ "eos" \in bus => pipeline = "ending" /\ queue = <<>>

IInv == EncoderTypes /\ StampInv /\ BuffersInv /\ VideoInv

----------------------------------------------------------------------------
(***************************************************************************)
(* Sequences.                                                              *)
(***************************************************************************)
LEMMA PrefixOfItself ==
  ASSUME NEW S, NEW s \in Seq(S)
  PROVE  IsPrefix(s, s) /\ (s = <<>> => \A u \in Seq(S) : IsPrefix(s, u))
<1>1. IsPrefix(s, s)
  BY LenProperties DEF IsPrefix
<1>2. ASSUME s = <<>>, NEW u \in Seq(S) PROVE IsPrefix(s, u)
  <2>1. Len(s) = 0 /\ Len(u) \in Nat
    BY <1>2, EmptySeq, LenProperties
  <2>2. SubSeq(s, 1, 0) = <<>> /\ SubSeq(u, 1, 0) = <<>>
    BY SubSeqEmpty
  <2>3. QED
    BY <2>1, <2>2 DEF IsPrefix
<1>3. QED
  BY <1>1, <1>2

LEMMA PrefixOfAppend ==
  ASSUME NEW S, NEW s \in Seq(S), NEW e \in S
  PROVE  IsPrefix(s, Append(s, e))
<1>1. Append(s, e) \in Seq(S) /\ Len(Append(s, e)) = Len(s) + 1 /\ Len(s) \in Nat
  BY AppendProperties, LenProperties
<1>2. \A i \in 1 .. Len(s) : s[i] \in S /\ Append(s, e)[i] = s[i]
  BY AppendProperties, ElementOfSeq
<1>3. /\ SubSeq(s, 1, Len(s)) \in Seq(S) /\ SubSeq(Append(s, e), 1, Len(s)) \in Seq(S)
      /\ Len(SubSeq(s, 1, Len(s))) = Len(s) /\ Len(SubSeq(Append(s, e), 1, Len(s))) = Len(s)
      /\ \A i \in 1 .. Len(s) : SubSeq(s, 1, Len(s))[i] = SubSeq(Append(s, e), 1, Len(s))[i]
  BY <1>1, <1>2, SubSeqProperties
<1>4. SubSeq(s, 1, Len(s)) = SubSeq(Append(s, e), 1, Len(s))
  BY <1>3, SeqEqual
<1>5. QED
  BY <1>1, <1>4 DEF IsPrefix

\* The buffer that is pushed is the last one of the queue, full or not.
LEMMA QueuedFacts ==
  ASSUME NEW q \in Seq(Buffers), NEW f \in Buffers
  PROVE  Queued(q, f) \in Seq(Buffers) /\ Queued(q, f) # <<>> /\ Last(Queued(q, f)) = f
<1> DEFINE r == IF Len(q) = QueueMax THEN Tail(q) ELSE q
<1>1. r \in Seq(Buffers)
  <2>1. Len(q) = QueueMax => q # <<>>
    BY EmptySeq
  <2>2. QED
    BY <2>1, HeadTailProperties
<1>2. Queued(q, f) = Append(r, f)
  BY DEF Queued
<1> HIDE DEF r
<1>3. QED
  BY <1>1, <1>2, AppendProperties DEF Last

\* Taking the first buffer of the queue leaves its last one, if there is another.
LEMMA TailFacts ==
  ASSUME NEW q \in Seq(Buffers), q # <<>>
  PROVE  /\ Head(q) \in Buffers /\ Tail(q) \in Seq(Buffers)
         /\ Last(q) = IF Tail(q) = <<>> THEN Head(q) ELSE Last(Tail(q))
<1>1. /\ Head(q) \in Buffers /\ Tail(q) \in Seq(Buffers) /\ Len(Tail(q)) = Len(q) - 1
      /\ \A i \in 1 .. Len(Tail(q)) : Tail(q)[i] = q[i + 1]
      /\ Len(q) \in Nat \ {0} /\ Head(q) = q[1]
  BY HeadTailProperties, EmptySeq
<1>2. CASE Tail(q) = <<>>
  <2>1. Len(q) = 1
    <3>1. Len(Tail(q)) = 0
      BY <1>2, EmptySeq
    <3>2. Len(q) \in Nat /\ Len(Tail(q)) = Len(q) - 1
      BY <1>1
    <3>3. QED
      BY ONLY <3>1, <3>2
  <2>2. QED
    BY <1>1, <1>2, <2>1 DEF Last
<1>3. CASE Tail(q) # <<>>
  <2>1. Len(Tail(q)) \in Nat \ {0}
    BY <1>1, <1>3, EmptySeq
  <2>2. Tail(q)[Len(Tail(q))] = q[Len(q)]
    BY <1>1, <2>1
  <2>3. QED
    BY <1>1, <1>3, <2>2 DEF Last
<1>4. QED
  BY <1>2, <1>3

LEMMA AppendFacts ==
  ASSUME NEW s \in Seq(Buffers), NEW e \in Buffers
  PROVE  Append(s, e) \in Seq(Buffers) /\ Append(s, e) # <<>> /\ Last(Append(s, e)) = e
BY AppendProperties DEF Last

LEMMA RangeOf ==
  ASSUME NEW s \in Seq(Buffers)
  PROVE  Range(s) \subseteq Buffers
BY ElementOfSeq, LenProperties DEF Range

LEMMA RangeOfAppend ==
  ASSUME NEW s \in Seq(Buffers), NEW e \in Buffers
  PROVE  /\ Range(Append(s, e)) = Range(s) \cup {e}
         /\ Increasing(s) /\ (\A f \in Range(s) : f.pts < e.pts) => Increasing(Append(s, e))
<1>1. PICK n \in Nat : n = Len(s) /\ DOMAIN s = 1 .. n
  BY LenProperties
<1>2. /\ DOMAIN Append(s, e) = 1 .. n + 1 /\ Append(s, e)[n + 1] = e
      /\ \A i \in 1 .. n : Append(s, e)[i] = s[i]
  BY <1>1, AppendProperties, LenProperties
<1> DEFINE a == Append(s, e)
<1>3. DOMAIN a = 1 .. n + 1 /\ a[n + 1] = e /\ \A i \in 1 .. n : a[i] = s[i]
  BY <1>2
<1> HIDE DEF a, Buffers
<1>4. Range(a) = Range(s) \cup {e}
  <2>1. \A i \in 1 .. n + 1 : i = n + 1 \/ i \in 1 .. n
    OBVIOUS
  <2>2. n + 1 \in 1 .. n + 1 /\ \A i \in 1 .. n : i \in 1 .. n + 1
    OBVIOUS
  <2>3. Range(a) \subseteq Range(s) \cup {e}
    BY <1>1, <1>3, <2>1 DEF Range
  <2>4. Range(s) \cup {e} \subseteq Range(a)
    BY <1>1, <1>3, <2>2 DEF Range
  <2>5. QED
    BY <2>3, <2>4
<1>5. ASSUME Increasing(s), \A f \in Range(s) : f.pts < e.pts PROVE Increasing(a)
  <2>1. SUFFICES ASSUME NEW i \in 1 .. n + 1, NEW j \in 1 .. n + 1, i < j PROVE a[i].pts < a[j].pts
    BY <1>3 DEF Increasing
  <2>2. i \in 1 .. n
    BY <2>1
  <2>3. a[i] = s[i] /\ s[i] \in Range(s)
    BY <1>1, <1>3, <2>2 DEF Range
  <2>4. CASE j = n + 1
    BY <1>3, <1>5, <2>3, <2>4
  <2>5. CASE j # n + 1
    <3>1. j \in 1 .. n
      BY <2>5
    <3>2. QED
      BY <1>1, <1>3, <1>5, <2>1, <2>2, <3>1 DEF Increasing
  <2>6. QED
    BY <2>4, <2>5
<1>6. QED
  BY <1>4, <1>5 DEF a

LEMMA RangeOfTail ==
  ASSUME NEW s \in Seq(Buffers), s # <<>>, Increasing(s)
  PROVE  /\ Head(s) \in Range(s) /\ Range(Tail(s)) \subseteq Range(s)
         /\ Increasing(Tail(s)) /\ \A f \in Range(Tail(s)) : Head(s).pts < f.pts
<1>1. PICK n \in Nat : n = Len(s) /\ DOMAIN s = 1 .. n /\ n # 0
  BY LenProperties, EmptySeq
<1>2. /\ Head(s) = s[1] /\ Tail(s) \in Seq(Buffers) /\ Len(Tail(s)) = n - 1
      /\ \A i \in 1 .. n - 1 : Tail(s)[i] = s[i + 1]
  BY <1>1, HeadTailProperties
<1>3. DOMAIN Tail(s) = 1 .. n - 1
  BY <1>2, LenProperties
<1> DEFINE t == Tail(s)
<1>4. Head(s) = s[1] /\ DOMAIN t = 1 .. n - 1 /\ \A i \in 1 .. n - 1 : t[i] = s[i + 1]
  BY <1>2, <1>3
<1> HIDE DEF t, Buffers
<1>5. 1 \in 1 .. n /\ \A i \in 1 .. n - 1 : i + 1 \in 1 .. n /\ 1 < i + 1
  BY <1>1
<1>6. Head(s) \in Range(s) /\ Range(t) \subseteq Range(s)
  <2>1. Head(s) \in Range(s)
    BY <1>1, <1>4, <1>5 DEF Range
  <2>2. ASSUME NEW i \in 1 .. n - 1 PROVE t[i] \in Range(s)
    BY <1>1, <1>4, <1>5 DEF Range
  <2>3. Range(t) \subseteq Range(s)
    BY <1>4, <2>2 DEF Range
  <2>4. QED
    BY <2>1, <2>3
<1>7. Increasing(t)
  <2>1. SUFFICES ASSUME NEW i \in 1 .. n - 1, NEW j \in 1 .. n - 1, i < j PROVE t[i].pts < t[j].pts
    BY <1>4 DEF Increasing
  <2>2. i + 1 < j + 1
    BY <2>1
  <2>3. QED
    BY <1>1, <1>4, <1>5, <2>2 DEF Increasing
<1>8. \A f \in Range(t) : Head(s).pts < f.pts
  <2>1. ASSUME NEW i \in 1 .. n - 1 PROVE s[1].pts < t[i].pts
    BY <1>1, <1>4, <1>5 DEF Increasing
  <2>2. QED
    BY <1>4, <2>1 DEF Range
<1>9. QED
  BY <1>6, <1>7, <1>8 DEF t

----------------------------------------------------------------------------
(***************************************************************************)
(* One step of the display, of the pipeline or of the clock.  What a step  *)
(* does to the video is part of each lemma.                                *)
(***************************************************************************)
VideoStep ==
  /\ IsPrefix(video, video')
  /\ pipeline = "ending" /\ pipeline' = "none" /\ ~dead /\ now - wall < EosWait
       => video # <<>> /\ Last(video).n = frames

\* A video that is begun has no frames yet.
LEMMA RecordedKeeps ==
  ASSUME IInv, ~Enough, video' = Recorded
  PROVE  video' = video
BY DEF IInv, VideoInv, Recorded

LEMMA SameVideo ==
  ASSUME IInv, video' = video, pipeline = "ending" => pipeline' # "none"
  PROVE  VideoStep
BY PrefixOfItself DEF IInv, EncoderTypes, VideoStep

\* The stamp follows the clock, because at least a tick has passed since the last one.
LEMMA StampKeeps ==
  ASSUME IInv, Stamp, tried < now, tried' = now, now' = now
  PROVE  StampInv' /\ {pts', wall', first'} \subseteq Nat /\ paused' \in BOOLEAN
<1>1. /\ now \in Nat /\ tried \in Nat /\ pts \in Nat /\ wall \in Nat /\ first \in Nat
      /\ paused \in BOOLEAN /\ Frame \in Nat \ {0} /\ MaxGap \in Nat \ {0}
  BY DEF IInv, EncoderTypes
<1>2. /\ pts' = pts + Duration /\ wall' = now
      /\ first' = IF wall = 0 THEN now ELSE first
      /\ paused' = (paused \/ (wall # 0 /\ now - wall > MaxGap))
  BY DEF Stamp
<1>3. CASE wall = 0
  <2>1. pts = 0 /\ paused = FALSE /\ Duration = Frame
    BY <1>1, <1>3 DEF IInv, StampInv, Duration
  <2>2. pts' = Frame /\ first' = now /\ paused' = FALSE
    BY <1>1, <1>2, <1>3, <2>1
  <2>3. QED
    BY <1>1, <1>2, <2>2 DEF IInv, StampInv
<1>4. CASE wall # 0
  <2>1. /\ wall < now /\ first <= wall /\ first' = first
        /\ IF paused THEN pts < wall - first + Frame ELSE pts = wall - first + Frame
    BY <1>1, <1>2, <1>4 DEF IInv, StampInv
  <2>2. Duration = IF now - wall > MaxGap THEN MaxGap ELSE now - wall
    BY <1>1, <1>4, <2>1 DEF Duration
  <2>3. CASE now - wall > MaxGap
    <3>1. paused' = TRUE /\ pts' = pts + MaxGap
      BY <1>2, <1>4, <2>2, <2>3
    <3>2. pts <= wall - first + Frame
      BY <1>1, <2>1
    <3>3. pts' < wall' - first' + Frame /\ pts' \in Nat
      BY <1>1, <1>2, <2>1, <2>3, <3>1, <3>2
    <3>4. QED
      BY <1>1, <1>2, <2>1, <3>1, <3>3 DEF IInv, StampInv
  <2>4. CASE ~(now - wall > MaxGap)
    <3>1. paused' = paused /\ pts' = pts + (now - wall)
      BY <1>1, <1>2, <1>4, <2>2, <2>4
    <3>2. pts' \in Nat /\ IF paused THEN pts' < wall' - first' + Frame ELSE pts' = wall' - first' + Frame
      BY <1>1, <1>2, <2>1, <3>1
    <3>3. QED
      BY <1>1, <1>2, <2>1, <3>1, <3>2 DEF IInv, StampInv
  <2>5. QED
    BY <2>3, <2>4
<1>5. QED
  BY <1>3, <1>4

\* The buffer that is stamped is on the clock, and behind those before it.
LEMMA StampedFacts ==
  ASSUME IInv, Stamp, tried < now, tried' = now, now' = now, NEW n \in Nat
  PROVE  /\ Stamped(n) \in Buffers /\ Stamped(n).pts = pts /\ Stamped(n).n = n
         /\ \A f \in Buffers : OnClock(f) \/ f = Stamped(n) => OnClock(f)'
<1>1. /\ now \in Nat /\ tried \in Nat /\ pts \in Nat /\ wall \in Nat /\ first \in Nat
      /\ paused \in BOOLEAN /\ Frame \in Nat \ {0} /\ MaxGap \in Nat \ {0} /\ Frame <= MaxGap
  BY DEF IInv, EncoderTypes
<1>2. /\ pts' = pts + Duration /\ wall' = now
      /\ first' = IF wall = 0 THEN now ELSE first
      /\ ~paused' => ~paused /\ (wall = 0 \/ ~(now - wall > MaxGap))
  BY DEF Stamp
<1>3. Duration \in Nat /\ Duration > 0 /\ wall' # 0
  <2>1. wall # 0 => now - wall \in Nat \ {0}
    BY <1>1 DEF IInv, StampInv
  <2>2. QED
    BY <1>1, <1>2, <2>1 DEF Duration, IInv, StampInv
<1>4. paused' \in BOOLEAN
  BY StampKeeps
<1>5. PICK b \in Buffers : b = Stamped(n) /\ b.pts = pts /\ b.n = n /\ b.at = now /\ b.paused = paused'
  <2>1. PICK p \in BOOLEAN : p = paused'
    BY <1>4
  <2>2. PICK t \in Nat, u \in Nat : t = pts /\ u = now
    BY <1>1
  <2>3. Stamped(n) = [n |-> n, pts |-> t, at |-> u, paused |-> p]
    BY <2>1, <2>2, Zenon DEF Stamped
  <2>4. [n |-> n, pts |-> t, at |-> u, paused |-> p] \in Buffers
    BY DEF Buffers
  <2>5. QED
    BY <2>1, <2>2, <2>3, <2>4
<1>6. OnClock(b)'
  <2>1. b.pts < pts'
    BY <1>1, <1>2, <1>3, <1>5
  <2>2. b.pts < now - first' + Frame /\ (~paused' => now - first' <= b.pts + (MaxGap - Frame))
    <3>1. CASE wall = 0
      BY <1>1, <1>2, <1>5, <3>1 DEF IInv, StampInv
    <3>2. CASE wall # 0
      <4>1. /\ wall < now /\ first <= wall /\ first' = first
            /\ IF paused THEN pts < wall - first + Frame ELSE pts = wall - first + Frame
        BY <1>1, <1>2, <3>2 DEF IInv, StampInv
      <4>2. ~paused' => ~paused /\ now - wall <= MaxGap
        <5>1. now \in Nat /\ wall \in Nat /\ MaxGap \in Nat /\ (~(now - wall > MaxGap) => now - wall <= MaxGap)
          BY <1>1
        <5>2. QED
          BY <1>2, <3>2, <5>1
      <4>3. pts <= wall - first + Frame
        BY <1>1, <4>1
      <4>4. pts < now - first + Frame
        BY <1>1, <4>1, <4>3
      <4>5. ~paused' => now - first <= pts + (MaxGap - Frame)
        BY <1>1, <4>1, <4>2
      <4>6. QED
        BY <1>5, <4>1, <4>4, <4>5
    <3>3. QED
      BY <3>1, <3>2
  <2>3. QED
    BY <1>3, <1>5, <2>1, <2>2 DEF OnClock
<1>7. ASSUME NEW f \in Buffers, OnClock(f) PROVE OnClock(f)'
  <2>1. f.pts \in Nat
    BY DEF Buffers
  <2>2. f.pts < pts' /\ first' = first
    BY <1>1, <1>2, <1>3, <1>7, <2>1 DEF OnClock
  <2>3. QED
    BY <1>3, <1>7, <2>2 DEF OnClock
<1>8. QED
  BY <1>5, <1>6, <1>7

\* Steps that stamp and move no buffer, or give up the queue.
LEMMA SameBuffers ==
  ASSUME IInv, UNCHANGED stampVars, video' = video, queue' = queue \/ queue' = <<>>
  PROVE  BuffersInv'
<1>1. \A f : OnClock(f) => OnClock(f)'
  BY DEF OnClock, stampVars
<1>2. Increasing(<<>>) /\ Range(<<>>) = {}
  BY DEF Increasing, Range
<1>3. CASE queue' = queue
  BY <1>1, <1>3 DEF IInv, BuffersInv
<1>4. CASE queue' = <<>>
  BY <1>1, <1>2, <1>4 DEF IInv, BuffersInv
<1>5. QED
  BY <1>3, <1>4

\* Steps that stamp nothing.
LEMMA NotStamped ==
  ASSUME IInv, UNCHANGED stampVars, now' \in Nat, now <= now', tried <= tried', tried' <= now', tried' \in Nat
  PROVE  StampInv'
BY DEF IInv, EncoderTypes, StampInv, stampVars

\* A try that does not come to a buffer.
LEMMA NoBufferKeeps ==
  ASSUME IInv, PushNothing \/ PushNotStarted \/ PushNoBuffer
  PROVE  IInv' /\ VideoStep
<1>1. /\ tried' = now /\ now' = now /\ UNCHANGED <<frames, stampVars, queue, bus>>
      /\ pipeline # "ending"
  BY DEF PushNothing, PushNotStarted, PushNoBuffer, Tries, gstVars
<1>2. StampInv'
  BY <1>1, NotStamped DEF IInv, EncoderTypes, StampInv
<1>3. video' = video
  BY RecordedKeeps DEF PushNothing, PushNotStarted, PushNoBuffer
<1>4. EncoderTypes'
  <2>1. pipeline' \in {"none", "playing", "ending"}
    BY DEF PushNothing, PushNotStarted, PushNoBuffer, IInv, EncoderTypes
  <2>2. dead' \in BOOLEAN
    BY DEF PushNothing, PushNotStarted, PushNoBuffer, IInv, EncoderTypes, gstVars
  <2>3. QED
    BY <1>1, <1>3, <2>1, <2>2 DEF IInv, EncoderTypes, stampVars
<1>5. VideoInv'
  <2>1. CASE PushNothing
    BY <2>1, <1>1, <1>3 DEF PushNothing, IInv, VideoInv, Enough, EndIsThere, gstVars
  <2>2. CASE PushNotStarted
    BY <2>2, <1>1, <1>3 DEF PushNotStarted, IInv, VideoInv, Enough, EndIsThere, gstVars
  <2>3. CASE PushNoBuffer
    <3>1. pipeline' = "playing" /\ bus \cap {"eos"} = {} /\ (dead' <=> dead /\ pipeline = "playing")
      BY <2>3, <1>1 DEF PushNoBuffer, IInv, VideoInv
    <3>2. "error" \in bus => dead'
      BY <3>1, <1>1 DEF IInv, EncoderTypes, VideoInv
    <3>3. QED
      BY <3>1, <3>2, <1>1 DEF VideoInv
  <2>4. QED
    BY <2>1, <2>2, <2>3
<1>6. VideoStep
  BY <1>1, <1>3, SameVideo
<1>7. BuffersInv'
  BY <1>1, <1>3, SameBuffers
<1>8. QED
  BY <1>2, <1>4, <1>5, <1>6, <1>7 DEF IInv

LEMMA PushBufferKeeps ==
  ASSUME IInv, NEW ok \in BOOLEAN, PushBuffer(ok)
  PROVE  IInv' /\ VideoStep
<1>1. /\ tried < now /\ tried' = now /\ now' = now /\ Stamp /\ ~Enough /\ pipeline # "ending"
      /\ bus' = {} /\ pipeline' \in {"playing", "ending"}
  BY DEF PushBuffer, Tries, PolledBus
<1>2. StampInv' /\ {pts', wall', first'} \subseteq Nat /\ paused' \in BOOLEAN
  BY <1>1, StampKeeps
<1>3. video' = video
  BY RecordedKeeps DEF PushBuffer
<1>0. /\ frames \in Nat /\ frames + 1 \in Nat /\ queue \in Seq(Buffers) /\ video \in Seq(Buffers)
      /\ frames' = IF ok THEN frames + 1 ELSE frames
      /\ queue' = IF ok THEN Queued(queue, Stamped(frames + 1)) ELSE queue
  BY DEF PushBuffer, IInv, EncoderTypes
<1> DEFINE b == Stamped(frames + 1)
<1>b. /\ b \in Buffers /\ b.pts = pts /\ b.n = frames + 1
      /\ \A f \in Buffers : OnClock(f) \/ f = b => OnClock(f)'
  BY <1>0, <1>1, StampedFacts
<1>4. /\ frames' \in Nat /\ queue' \in Seq(Buffers) /\ dead' \in BOOLEAN
      /\ ok => frames' = frames + 1 /\ queue' # <<>> /\ Last(queue').n = frames'
  <2>1. Queued(queue, b) \in Seq(Buffers) /\ Queued(queue, b) # <<>> /\ Last(Queued(queue, b)) = b
    BY <1>0, <1>b, QueuedFacts
  <2>2. dead' \in BOOLEAN
    BY DEF PushBuffer
  <2>3. QED
    BY <1>0, <1>b, <2>1, <2>2
<1>5. EncoderTypes'
  BY <1>1, <1>2, <1>3, <1>4 DEF IInv, EncoderTypes
<1>6. pipeline' = "ending" => Enough' /\ EndIsThere'
  <2>1. SUFFICES ASSUME pipeline' = "ending" PROVE Enough' /\ EndIsThere'
    OBVIOUS
  <2>2. ok = TRUE /\ frames + 1 = EncodeMax
    BY <2>1 DEF PushBuffer
  <2>3. QED
    BY <1>0, <1>4, <2>2 DEF Enough, EndIsThere
<1>7. VideoInv'
  BY <1>1, <1>6 DEF VideoInv
<1>8. BuffersInv'
  <2>1. /\ Increasing(video) /\ Increasing(queue)
        /\ \A f \in Range(video), g \in Range(queue) : f.pts < g.pts
        /\ \A f \in Range(video) \cup Range(queue) : OnClock(f) /\ f \in Buffers /\ f.pts < pts
    BY <1>0, RangeOf DEF IInv, BuffersInv, OnClock
  <2>2. /\ Range(queue') \subseteq Range(queue) \cup {b}
        /\ Increasing(queue')
    <3>1. CASE ~ok
      BY <1>0, <2>1, <3>1
    <3>2. CASE ok
      <4> DEFINE r == IF Len(queue) = QueueMax THEN Tail(queue) ELSE queue
      <4>1. r \in Seq(Buffers) /\ Increasing(r) /\ Range(r) \subseteq Range(queue)
        <5>1. CASE Len(queue) = QueueMax
          <6>1. queue # <<>>
            BY <5>1, EmptySeq
          <6>2. Tail(queue) \in Seq(Buffers)
            BY <1>0, <6>1, HeadTailProperties
          <6>3. QED
            BY <1>0, <2>1, <5>1, <6>1, <6>2, RangeOfTail
        <5>2. CASE Len(queue) # QueueMax
          BY <1>0, <2>1, <5>2
        <5>3. QED
          BY <5>1, <5>2
      <4>2. queue' = Append(r, b)
        BY <1>0, <3>2 DEF Queued
      <4> HIDE DEF r, b
      <4>3. \A f \in Range(r) : f.pts < b.pts
        BY <1>b, <2>1, <4>1
      <4>4. QED
        BY <1>b, <4>1, <4>2, <4>3, RangeOfAppend
    <3>3. QED
      BY <3>1, <3>2
  <2> HIDE DEF b
  <2>3. \A f \in Range(video'), g \in Range(queue') : f.pts < g.pts
    BY <1>3, <1>b, <2>1, <2>2
  <2>4. \A f \in Range(video') \cup Range(queue') : OnClock(f)'
    BY <1>3, <1>b, <2>1, <2>2
  <2>5. QED
    BY <1>3, <2>1, <2>2, <2>3, <2>4 DEF BuffersInv
<1>9. QED
  BY <1>1, <1>2, <1>3, <1>5, <1>7, <1>8, SameVideo DEF IInv

\* What ends the wait early is the end of the stream, if the pipeline has not failed.
LEMMA FinishKeeps ==
  ASSUME IInv, Finish
  PROVE  IInv' /\ VideoStep
<1>1. /\ pipeline = "ending" /\ Waited /\ pipeline' = "none" /\ queue' = <<>> /\ bus' = {}
      /\ UNCHANGED <<now, tried, frames, stampVars, dead, video>>
  BY DEF Finish
<1>2. EncoderTypes'
  BY <1>1, EmptySeq DEF IInv, EncoderTypes, stampVars
<1>3. StampInv'
  BY <1>1, NotStamped DEF IInv, EncoderTypes, StampInv
<1>4. VideoInv'
  BY <1>1 DEF IInv, VideoInv, Enough
<1>5. ~dead /\ now - wall < EosWait => video # <<>> /\ Last(video).n = frames
  <2>1. SUFFICES ASSUME ~dead, now - wall < EosWait PROVE video # <<>> /\ Last(video).n = frames
    OBVIOUS
  <2>2. now - wall \in Int /\ EosWait \in Int
    BY DEF IInv, EncoderTypes
  <2>3. bus # {}
    BY <1>1, <2>1, <2>2 DEF Waited
  <2>4. "eos" \in bus
    BY <2>1, <2>3 DEF IInv, EncoderTypes, VideoInv
  <2>5. QED
    BY <1>1, <2>4 DEF IInv, VideoInv, EndIsThere
<1>6. IsPrefix(video, video')
  BY <1>1, PrefixOfItself DEF IInv, EncoderTypes
<1>7. BuffersInv'
  BY <1>1, SameBuffers
<1>8. QED
  BY <1>2, <1>3, <1>4, <1>5, <1>6, <1>7 DEF IInv, VideoStep

LEMMA EncodeFrameKeeps ==
  ASSUME IInv, EncodeFrame
  PROVE  IInv' /\ VideoStep
<1>1. /\ queue # <<>> /\ video' = Append(video, Head(queue)) /\ queue' = Tail(queue)
      /\ UNCHANGED <<now, tried, pipeline, frames, stampVars, bus, dead>>
  BY DEF EncodeFrame
<1>2. queue \in Seq(Buffers) /\ video \in Seq(Buffers)
  BY DEF IInv, EncoderTypes
<1>3. /\ Head(queue) \in Buffers /\ queue' \in Seq(Buffers)
      /\ Last(queue) = IF queue' = <<>> THEN Head(queue) ELSE Last(queue')
  BY <1>1, <1>2, TailFacts
<1>4. video' \in Seq(Buffers) /\ video' # <<>> /\ Last(video') = Head(queue) /\ IsPrefix(video, video')
  BY <1>1, <1>2, <1>3, AppendFacts, PrefixOfAppend
<1>5. EncoderTypes'
  BY <1>1, <1>3, <1>4 DEF IInv, EncoderTypes, stampVars
<1>6. StampInv'
  BY <1>1, NotStamped DEF IInv, EncoderTypes, StampInv
<1>7. pipeline # "none" /\ "eos" \notin bus
  BY <1>1 DEF IInv, VideoInv
<1>8. EndIsThere => EndIsThere'
  BY <1>1, <1>3, <1>4 DEF EndIsThere
<1>9. VideoInv'
  BY <1>1, <1>7, <1>8 DEF IInv, VideoInv, Enough
<1>10. VideoStep
  BY <1>1, <1>4, <1>7 DEF VideoStep
<1>11. BuffersInv'
  <2>1. /\ Increasing(video) /\ Increasing(queue)
        /\ \A f \in Range(video), g \in Range(queue) : f.pts < g.pts
        /\ \A f \in Range(video) \cup Range(queue) : OnClock(f)
    BY DEF IInv, BuffersInv
  <2>2. /\ Head(queue) \in Range(queue) /\ Range(queue') \subseteq Range(queue) /\ Increasing(queue')
        /\ \A f \in Range(queue') : Head(queue).pts < f.pts
    BY <1>1, <1>2, <2>1, RangeOfTail
  <2>3. Range(video') = Range(video) \cup {Head(queue)} /\ Increasing(video')
    BY <1>1, <1>2, <1>3, <2>1, <2>2, RangeOfAppend
  <2>4. \A f \in Range(video'), g \in Range(queue') : f.pts < g.pts
    BY <2>1, <2>2, <2>3
  <2>5. \A f : OnClock(f) => OnClock(f)'
    BY <1>1 DEF OnClock, stampVars
  <2>6. \A f \in Range(video') \cup Range(queue') : OnClock(f)'
    BY <2>1, <2>2, <2>3, <2>5
  <2>7. QED
    BY <2>2, <2>3, <2>4, <2>6 DEF BuffersInv
<1>12. QED
  BY <1>5, <1>6, <1>9, <1>10, <1>11 DEF IInv

LEMMA PipelineKeeps ==
  ASSUME IInv, EncodeEnd \/ EncodeFails \/ Tick \/ UNCHANGED vars
  PROVE  IInv' /\ VideoStep
<1>1. /\ UNCHANGED <<tried, pipeline, frames, stampVars, queue, video>>
      /\ now' \in Nat /\ now <= now'
  BY DEF EncodeEnd, EncodeFails, Tick, vars, gstVars, IInv, EncoderTypes
<1>2. EncoderTypes'
  <2>1. dead' \in BOOLEAN
    BY DEF EncodeEnd, EncodeFails, Tick, vars, gstVars, IInv, EncoderTypes
  <2>2. bus' \subseteq {"error", "eos"}
    BY DEF EncodeEnd, EncodeFails, Tick, vars, gstVars, IInv, EncoderTypes
  <2>3. QED
    BY <1>1, <2>1, <2>2 DEF stampVars, IInv, EncoderTypes
<1>3. StampInv'
  BY <1>1, NotStamped DEF IInv, EncoderTypes, StampInv
<1>4. VideoInv'
  BY <1>1 DEF EncodeEnd, EncodeFails, Tick, vars, gstVars, IInv, VideoInv, Enough, EndIsThere
<1>5. BuffersInv'
  BY <1>1, SameBuffers
<1>6. QED
  BY <1>1, <1>2, <1>3, <1>4, <1>5, SameVideo DEF IInv

----------------------------------------------------------------------------
LEMMA InitIInv == Init => IInv
<1> SUFFICES ASSUME Init PROVE IInv
  OBVIOUS
<1>1. EncoderTypes
  <2>1. <<>> \in Seq(Buffers)
    BY EmptySeq
  <2>2. dead \in BOOLEAN /\ paused \in BOOLEAN
    BY DEF Init
  <2>3. QED
    BY <2>1, <2>2 DEF Init, EncoderTypes
<1>2. StampInv
  BY DEF Init, StampInv
<1>3. VideoInv
  BY DEF Init, VideoInv
<1>4. BuffersInv
  BY DEF Init, BuffersInv, Increasing, Range
<1>5. QED
  BY <1>1, <1>2, <1>3, <1>4 DEF IInv

LEMMA StepIInv == IInv /\ [Next]_vars => IInv' /\ VideoStep
BY NoBufferKeeps, PushBufferKeeps, FinishKeeps, EncodeFrameKeeps, PipelineKeeps DEF Next

\* Stamps, the queue, the file and the wait for its end agree in every state
\* (encoder_push, stamp_buffer, encoder_finish).
THEOREM Invariant == Spec => []IInv
BY InitIInv, StepIInv, PTL DEF Spec

\* The pictures of a video are stamped in order and on the clock, less than a frame late
\* and, but for pauses, early by no more than the longest duration less a frame, for any
\* frame rate and longest duration, whatever pushes fail and whatever frames the queue
\* gives up in between (stamp_buffer).
THEOREM StampsFollowTheClock == Spec => []StampsFollowWall
<1>1. ASSUME IInv PROVE StampsFollowWall
  <2>1. Range(video) \subseteq Buffers /\ first \in Nat
    BY <1>1, RangeOf DEF IInv, EncoderTypes
  <2>2. ASSUME NEW f \in Range(video)
        PROVE  LET early == (f.at - first) - f.pts
               IN  -Frame < early /\ (~f.paused => early <= MaxGap - Frame)
    <3>1. f.at \in Nat /\ f.pts \in Nat /\ Frame \in Nat /\ MaxGap \in Nat
      BY <2>1 DEF Buffers
    <3>2. f.pts < f.at - first + Frame /\ (~f.paused => f.at - first <= f.pts + (MaxGap - Frame))
      BY <1>1 DEF IInv, BuffersInv, OnClock
    <3>3. QED
      BY <2>1, <3>1, <3>2
  <2>3. QED
    BY <1>1, <2>2 DEF IInv, BuffersInv, Increasing, StampsFollowWall
<1>2. IInv => StampsFollowWall
  BY <1>1
<1>3. QED
  BY <1>2, Invariant, PTL

\* A video is never begun anew over its frames, and one that is ended in time by a
\* pipeline that works has its last picture, for any limit and any length of the queue.
THEOREM RecordingIsComplete == Spec => OneCompleteRecording
<1>1. IInv /\ [Next]_vars => [VideoStep]_vars
  BY StepIInv
<1>2. Spec => [][VideoStep]_vars
  BY <1>1, Invariant, PTL DEF Spec
<1>3. QED
  BY <1>2 DEF OneCompleteRecording, VideoStep
=============================================================================
