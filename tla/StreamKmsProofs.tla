--------------------------- MODULE StreamKmsProofs ---------------------------
(***************************************************************************)
(* Theorems about StreamKms for every set of buffers, pictures, modes and  *)
(* framebuffer ids, and every set of calls that the kernel may refuse.     *)
(*                                                                         *)
(* A callback goes from outcome to outcome, and the invariant is stated of *)
(* outcomes: PictureHeld is what every part of a callback keeps about the  *)
(* device and the monitor, PointerHeld about the pointer, and Known ties   *)
(* the pointer to a buffer that is compared by kms_present to the memory   *)
(* behind it.  GuestInv is what QEMU does with the buffers.                *)
(***************************************************************************)
EXTENDS StreamKms, TLAPS

USE StreamKmsAssumption

Outcome == [ kms : Kms, dev : Dev, undone : SUBSET {"host", "move", "hide"}, failed : BOOLEAN ]

PictureHeld(o) ==
  /\ Initialized(o) <=> o.kms.fd = TRUE
  /\ \A f \in FBs : o.dev.fbs[f] # NoImage <=> f = o.kms.fb
  /\ IF o.kms.fb = NoFb THEN o.dev.screen \in {Host, Off}
     ELSE Initialized(o) /\ o.dev.screen = o.kms.fb
  /\ "host" \notin o.undone => IF Initialized(o) THEN o.kms.old = Host ELSE o.dev.screen = Host

PointerHeld(o) ==
  /\ IF o.kms.handle = NoImage THEN o.dev.pointer = NoImage \/ "hide" \in o.undone
     ELSE /\ o.dev.pointer = o.kms.handle /\ "hide" \notin o.undone
          /\ Initialized(o) /\ o.kms.curBuf # NoBuf
  /\ o.kms.handle # NoImage /\ "move" \notin o.undone => o.dev.at = o.kms.at

\* The buffer that is on the monitor still is the memory that was imported from it.
Known(o) == o.kms.fb # NoFb /\ o.kms.fbBuf # NoBuf => o.dev.fbs[o.kms.fb] = mem[o.kms.fbBuf]

GuestInv ==
  /\ scanout = primary
  /\ primary # NoBuf => mem[primary] \in Scanouts
  /\ cursor # NoBuf => mem[cursor] \in Cursors
  /\ kms.curBuf \in {NoBuf, cursor}

IInv ==
  /\ TypeOK /\ GuestInv
  /\ PictureHeld(Now) /\ PointerHeld(Now) /\ Known(Now)
  /\ settled => scanout # NoBuf
  /\ FailuresAreSeen

----------------------------------------------------------------------------
(***************************************************************************)
(* What the parts of a callback leave alone.                               *)
(***************************************************************************)
PictureOf(o) ==
  <<o.kms.fd, o.kms.size, o.kms.ready, o.kms.active, o.kms.fb, o.kms.fbBuf, o.kms.old,
    o.kms.disabled, o.dev.fbs, o.dev.screen, o.undone \ {"move", "hide"}>>

PointerOf(o) ==
  <<o.kms.curBuf, o.kms.handle, o.kms.at, o.dev.pointer, o.dev.at, o.undone \ {"host"}>>

LEMMA SamePicture ==
  ASSUME NEW o \in Outcome, NEW r \in Outcome, PictureOf(r) = PictureOf(o)
  PROVE  /\ PictureHeld(o) => PictureHeld(r)
         /\ Known(o) => Known(r)
         /\ Initialized(r) <=> Initialized(o)
         /\ r.kms.disabled = o.kms.disabled /\ r.kms.size = o.kms.size
         /\ r.kms.fb = o.kms.fb /\ r.dev.fbs = o.dev.fbs /\ r.dev.screen = o.dev.screen
<1>1. /\ r.kms.fd = o.kms.fd /\ r.kms.size = o.kms.size /\ r.kms.fb = o.kms.fb
      /\ r.kms.fbBuf = o.kms.fbBuf /\ r.kms.old = o.kms.old /\ r.kms.disabled = o.kms.disabled
      /\ r.dev.fbs = o.dev.fbs /\ r.dev.screen = o.dev.screen
      /\ r.undone \ {"move", "hide"} = o.undone \ {"move", "hide"}
  BY DEF PictureOf
<1>2. "host" \in r.undone <=> "host" \in o.undone
  BY <1>1
<1>3. QED
  BY <1>1, <1>2 DEF PictureHeld, Known, Initialized

LEMMA FailedFacts ==
  ASSUME NEW o \in Outcome
  PROVE  /\ Failed(o) \in Outcome
         /\ Failed(o).kms = o.kms /\ Failed(o).dev = o.dev /\ Failed(o).undone = o.undone
         /\ Failed(o).failed = TRUE
BY DEF Failed, Outcome

LEMMA MovedFacts ==
  ASSUME NEW o \in Outcome, NEW r \in Moved(o)
  PROVE  /\ r \in Outcome /\ PictureOf(r) = PictureOf(o)
         /\ r.kms = o.kms /\ r.dev.pointer = o.dev.pointer
         /\ o.failed = TRUE => r.failed = TRUE
         /\ Initialized(o) /\ o.kms.handle # NoImage => r.dev.at = o.kms.at \/ "move" \in r.undone
         /\ r = o \/ (Initialized(o) /\ o.kms.handle # NoImage)
         /\ "hide" \in r.undone <=> "hide" \in o.undone
<1>1. CASE ~Initialized(o) \/ o.kms.handle = NoImage
  BY <1>1 DEF Moved
<1>2. CASE Initialized(o) /\ o.kms.handle # NoImage
  <2>1. CASE r = [o EXCEPT !.dev.at = o.kms.at, !.undone = @ \ {"move"}]
    BY <1>2, <2>1 DEF PictureOf, Outcome, Kms, Dev
  <2>2. CASE r = Failed([o EXCEPT !.undone = @ \cup {"move"}])
    <3> DEFINE u == [o EXCEPT !.undone = @ \cup {"move"}]
    <3>1. /\ u \in Outcome /\ u.kms = o.kms /\ u.dev = o.dev
          /\ u.undone = o.undone \cup {"move"}
      BY DEF Outcome
    <3> HIDE DEF u
    <3>2. /\ r \in Outcome /\ r.kms = o.kms /\ r.dev = o.dev /\ r.failed = TRUE
          /\ r.undone = o.undone \cup {"move"}
      BY <2>2, <3>1, FailedFacts DEF u
    <3>3. QED
      BY <1>2, <3>2 DEF PictureOf
  <2>3. QED
    BY <1>2, <2>1, <2>2 DEF Moved, Refused
<1>3. QED
  BY <1>1, <1>2

LEMMA ImagedFacts ==
  ASSUME NEW o \in Outcome, mem'[o.kms.curBuf] \in Cursors
  PROVE  /\ Imaged(o) \in Outcome /\ PictureOf(Imaged(o)) = PictureOf(o)
         /\ Imaged(o).kms.curBuf = o.kms.curBuf /\ Imaged(o).kms.at = o.kms.at
         /\ Imaged(o).kms.handle = mem'[o.kms.curBuf]
         /\ Imaged(o).dev.pointer = mem'[o.kms.curBuf]
         /\ Imaged(o).failed = o.failed /\ "hide" \notin Imaged(o).undone
BY DEF Imaged, PictureOf, Outcome, Kms, Dev

\* The pointer is shown, moved, or left out; the picture stays.
LEMMA PointedFacts ==
  ASSUME NEW o \in Outcome, PointerHeld(o), NEW r \in Pointed(o),
         o.kms.curBuf # NoBuf => mem'[o.kms.curBuf] \in Cursors
  PROVE  /\ r \in Outcome /\ PictureOf(r) = PictureOf(o) /\ PointerHeld(r)
         /\ r.kms.curBuf = o.kms.curBuf
         /\ o.failed = TRUE => r.failed = TRUE
<1>1. CASE r = o
  BY <1>1
<1>2. CASE r = Failed(o)
  <2>1. /\ r \in Outcome /\ r.kms = o.kms /\ r.dev = o.dev /\ r.undone = o.undone
        /\ r.failed = TRUE
    BY <1>2, FailedFacts
  <2>2. QED
    BY <2>1 DEF PictureOf, PointerHeld, Initialized
<1>3. CASE r \in Moved(o)
  <2>1. /\ r \in Outcome /\ PictureOf(r) = PictureOf(o)
        /\ r.kms = o.kms /\ r.dev.pointer = o.dev.pointer
        /\ o.failed = TRUE => r.failed = TRUE
        /\ r = o \/ r.dev.at = o.kms.at \/ "move" \in r.undone
        /\ "hide" \in r.undone <=> "hide" \in o.undone
    BY <1>3, MovedFacts
  <2>2. Initialized(r) <=> Initialized(o)
    BY <2>1 DEF Initialized
  <2>3. QED
    BY <2>1, <2>2 DEF PointerHeld
<1>4. CASE o.kms.curBuf # NoBuf /\ Initialized(o) /\ r \in Moved(Imaged(o))
  <2>1. /\ Imaged(o) \in Outcome /\ PictureOf(Imaged(o)) = PictureOf(o)
        /\ Imaged(o).kms.curBuf = o.kms.curBuf
        /\ Imaged(o).kms.handle = Imaged(o).dev.pointer /\ Imaged(o).kms.handle # NoImage
        /\ Imaged(o).failed = o.failed /\ "hide" \notin Imaged(o).undone
    BY <1>4, ImagedFacts
  <2>2. Initialized(Imaged(o))
    BY <1>4, <2>1, SamePicture
  <2>3. /\ r \in Outcome /\ PictureOf(r) = PictureOf(Imaged(o))
        /\ r.kms = Imaged(o).kms /\ r.dev.pointer = Imaged(o).dev.pointer
        /\ Imaged(o).failed = TRUE => r.failed = TRUE
        /\ r.dev.at = Imaged(o).kms.at \/ "move" \in r.undone
        /\ "hide" \notin r.undone
    BY <1>4, <2>1, <2>2, MovedFacts
  <2>4. Initialized(r)
    BY <2>1, <2>2, <2>3, SamePicture
  <2>5. QED
    BY <1>4, <2>1, <2>3, <2>4 DEF PointerHeld
<1>5. QED
  BY <1>1, <1>2, <1>3, <1>4 DEF Pointed, Refused

\* The display forgets the pointer; the kernel may keep it, and that is remembered.
LEMMA UnpointedFacts ==
  ASSUME NEW o \in Outcome, PictureHeld(o), PointerHeld(o), NEW r \in Unpointed(o)
  PROVE  /\ r \in Outcome /\ PictureOf(r) = PictureOf(o) /\ PointerHeld(r)
         /\ r.kms.handle = NoImage /\ r.kms.curBuf = NoBuf
         /\ r.failed = o.failed
<1> DEFINE u == [o EXCEPT !.kms.handle = NoImage, !.kms.curBuf = NoBuf]
<1>1. /\ u \in Outcome /\ PictureOf(u) = PictureOf(o) /\ u.dev = o.dev /\ u.undone = o.undone
      /\ u.kms.handle = NoImage /\ u.kms.curBuf = NoBuf /\ u.failed = o.failed
  BY DEF PictureOf, Outcome, Kms
<1>2. \/ r = u /\ (~o.kms.fd \/ o.dev.pointer = NoImage)
      \/ r = [u EXCEPT !.dev.pointer = NoImage, !.undone = @ \ {"hide"}]
      \/ r = [u EXCEPT !.undone = @ \cup {"hide"}]
  BY DEF Unpointed, Refused
<1> HIDE DEF u
<1>3. CASE r = u /\ (~o.kms.fd \/ o.dev.pointer = NoImage)
  <2>1. o.dev.pointer = NoImage \/ "hide" \in o.undone
    BY <1>3 DEF PictureHeld, PointerHeld
  <2>2. QED
    BY <1>1, <1>3, <2>1 DEF PointerHeld
<1>4. CASE r = [u EXCEPT !.dev.pointer = NoImage, !.undone = @ \ {"hide"}]
  <2>1. /\ r \in Outcome /\ r.kms = u.kms /\ r.dev.pointer = NoImage /\ r.failed = u.failed
        /\ r.dev.fbs = u.dev.fbs /\ r.dev.screen = u.dev.screen /\ r.undone = u.undone \ {"hide"}
    BY <1>1, <1>4 DEF Outcome, Dev
  <2>2. r.undone \ {"move", "hide"} = u.undone \ {"move", "hide"}
    BY <2>1
  <2>3. QED
    BY <1>1, <2>1, <2>2 DEF PointerHeld, PictureOf
<1>5. CASE r = [u EXCEPT !.undone = @ \cup {"hide"}]
  <2>1. /\ r \in Outcome /\ r.kms = u.kms /\ r.dev = u.dev /\ r.failed = u.failed
        /\ r.undone = u.undone \cup {"hide"}
    BY <1>1, <1>5 DEF Outcome
  <2>2. r.undone \ {"move", "hide"} = u.undone \ {"move", "hide"}
    BY <2>1
  <2>3. QED
    BY <1>1, <2>1, <2>2 DEF PointerHeld, PictureOf
<1>6. QED
  BY <1>2, <1>3, <1>4, <1>5

LEMMA WithoutFbFacts ==
  ASSUME NEW o \in Outcome, NEW f
  PROVE  /\ WithoutFb(o, f) \in Outcome
         /\ WithoutFb(o, f).kms = o.kms /\ WithoutFb(o, f).undone = o.undone
         /\ WithoutFb(o, f).failed = o.failed
         /\ WithoutFb(o, f).dev.pointer = o.dev.pointer /\ WithoutFb(o, f).dev.at = o.dev.at
         /\ WithoutFb(o, f).dev.fbs = [x \in FBs |-> IF x = f THEN NoImage ELSE o.dev.fbs[x]]
         /\ WithoutFb(o, f).dev.screen = IF o.dev.screen = f THEN Off ELSE o.dev.screen
BY DEF WithoutFb, Outcome, Dev

----------------------------------------------------------------------------
(***************************************************************************)
(* Taking the connector and giving it back.                                *)
(***************************************************************************)
LEMMA RestoredFacts ==
  ASSUME NEW o \in Outcome, NEW r \in Restored(o)
  PROVE  /\ r \in Outcome /\ r.kms = o.kms /\ r.failed = o.failed
         /\ r.dev.fbs = o.dev.fbs /\ r.dev.pointer = o.dev.pointer /\ r.dev.at = o.dev.at
         /\ "host" \in o.undone => "host" \in r.undone
         /\ r.undone \ {"host"} = o.undone \ {"host"}
         /\ o.kms.fd = TRUE /\ o.kms.old # NoCrtc => r.dev.screen = o.kms.old \/ "host" \in r.undone
         /\ o.kms.fd = FALSE \/ o.kms.old = NoCrtc => r = o
<1>1. CASE ~o.kms.fd \/ o.kms.old = NoCrtc
  BY <1>1 DEF Restored
<1>2. CASE o.kms.fd = TRUE /\ o.kms.old # NoCrtc
  <2>1. \/ r = [o EXCEPT !.dev.screen = o.kms.old]
        \/ r = [o EXCEPT !.undone = @ \cup {"host"}]
    BY <1>2 DEF Restored, Refused
  <2>2. o.kms.old \in {Host, Off}
    BY <1>2 DEF Outcome, Kms
  <2>3. CASE r = [o EXCEPT !.dev.screen = o.kms.old]
    BY <1>2, <2>2, <2>3 DEF Outcome, Dev
  <2>4. CASE r = [o EXCEPT !.undone = @ \cup {"host"}]
    BY <1>2, <2>4 DEF Outcome
  <2>5. QED
    BY <2>1, <2>3, <2>4
<1>3. QED
  BY <1>1, <1>2 DEF Outcome, Kms

\* kms_close leaves nothing behind, and the host's picture if it can.
LEMMA ClosedFacts ==
  ASSUME NEW o \in Outcome, PictureHeld(o), PointerHeld(o), NEW r \in Closed(o)
  PROVE  /\ r \in Outcome /\ PictureHeld(r) /\ PointerHeld(r)
         /\ r.kms.size = 0 /\ r.kms.fd = FALSE /\ r.kms.fb = NoFb /\ r.kms.curBuf = NoBuf
         /\ r.kms.disabled = o.kms.disabled /\ r.failed = o.failed
<1>0. PICK v : /\ v \in UNION {Restored(x) : x \in Unpointed(o)}
                /\ r = [v EXCEPT !.kms = [v.kms EXCEPT !.fd = FALSE, !.size = 0, !.ready = FALSE,
                                                       !.active = FALSE, !.fb = NoFb, !.fbBuf = NoBuf,
                                                       !.old = NoCrtc],
                                 !.dev.fbs = [f \in FBs |-> NoImage],
                                 !.dev.screen = IF @ \in FBs THEN Off ELSE @]
  BY DEF Closed
<1>1. PICK u : u \in Unpointed(o) /\ v \in Restored(u)
  BY <1>0
<1>2. /\ u \in Outcome /\ PictureOf(u) = PictureOf(o) /\ u.failed = o.failed
      /\ PointerHeld(u) /\ u.kms.handle = NoImage /\ u.kms.curBuf = NoBuf
  BY <1>1, UnpointedFacts
<1>3. PictureHeld(u) /\ u.kms.disabled = o.kms.disabled
  BY <1>2, SamePicture
<1>4. /\ v \in Outcome /\ v.kms = u.kms /\ v.failed = u.failed /\ v.dev.pointer = u.dev.pointer
      /\ "host" \in u.undone => "host" \in v.undone
      /\ v.undone \ {"host"} = u.undone \ {"host"}
      /\ u.kms.fd = TRUE /\ u.kms.old # NoCrtc => v.dev.screen = u.kms.old \/ "host" \in v.undone
      /\ u.kms.fd = FALSE \/ u.kms.old = NoCrtc => v = u
  <2>1. u \in Outcome /\ v \in Restored(u)
    BY <1>1, <1>2
  <2>2. QED
    BY <2>1, RestoredFacts
<1>5. "host" \notin v.undone => v.dev.screen = Host
  BY <1>3, <1>4 DEF PictureHeld
<1>6. /\ r.dev.fbs = [f \in FBs |-> NoImage] /\ r.dev.pointer = v.dev.pointer
      /\ r.dev.screen = IF v.dev.screen \in FBs THEN Off ELSE v.dev.screen
      /\ r.kms.fd = FALSE /\ r.kms.size = 0 /\ r.kms.fb = NoFb /\ r.kms.curBuf = v.kms.curBuf
      /\ r.kms.handle = v.kms.handle /\ r.kms.disabled = v.kms.disabled
      /\ r.undone = v.undone /\ r.failed = v.failed
  BY <1>0, <1>4 DEF Outcome, Kms, Dev
<1>7. r \in Outcome
  <2>1. /\ v.kms \in Kms /\ v.dev \in Dev
    BY <1>4 DEF Outcome
  <2>2. r.kms = [v.kms EXCEPT !.fd = FALSE, !.size = 0, !.ready = FALSE, !.active = FALSE,
                              !.fb = NoFb, !.fbBuf = NoBuf, !.old = NoCrtc]
    BY <1>0, <1>4 DEF Outcome
  <2>3. r.kms \in Kms
    BY <2>1, <2>2 DEF Kms
  <2>4. r.dev \in Dev
    BY <1>0, <1>4 DEF Outcome, Dev
  <2>5. r = [v EXCEPT !.kms = r.kms, !.dev = r.dev]
    BY <1>0, <1>4 DEF Outcome
  <2>6. QED
    BY <1>4, <2>3, <2>4, <2>5 DEF Outcome
<1>8. r.dev.screen \in {Host, Off}
  BY <1>4, <1>6 DEF Outcome, Dev
<1>9. PictureHeld(r)
  BY <1>5, <1>6, <1>8 DEF PictureHeld, Initialized
<1>10. QED
  <2>1. r.dev.pointer = NoImage \/ "hide" \in r.undone
    BY <1>2, <1>4, <1>6 DEF PointerHeld
  <2>2. QED
    BY <1>2, <1>3, <1>4, <1>6, <1>7, <1>9, <2>1 DEF PointerHeld

LEMMA OpenedFacts ==
  ASSUME NEW o \in Outcome, PictureHeld(o), PointerHeld(o), o.kms.size = 0, o.kms.fb = NoFb,
         NEW i \in Scanouts, NEW r \in Opened(o, SizeOf[i])
  PROVE  /\ r \in Outcome /\ PictureHeld(r) /\ PointerHeld(r)
         /\ r.kms.curBuf = o.kms.curBuf /\ r.kms.fb = NoFb
         /\ r.kms.size = SizeOf[i] \/ r.failed = TRUE
<1> DEFINE g == SizeOf[i]
<1>1. /\ o.kms.fd = FALSE /\ o.kms.handle = NoImage
      /\ o.dev.pointer = NoImage \/ "hide" \in o.undone
      /\ o.dev.screen \in {Host, Off} /\ \A f \in FBs : o.dev.fbs[f] = NoImage
      /\ "host" \notin o.undone => o.dev.screen = Host
  BY DEF PictureHeld, PointerHeld, Initialized, Outcome, Kms
<1>2. CASE r = Failed(o)
  <2>1. /\ r \in Outcome /\ r.kms = o.kms /\ r.dev = o.dev /\ r.undone = o.undone
        /\ r.failed = TRUE
    BY <1>2, FailedFacts
  <2>2. QED
    BY <2>1 DEF PictureHeld, PointerHeld, Initialized
<1>3. CASE r = Failed([o EXCEPT !.kms.disabled = TRUE])
  <2> DEFINE d == [o EXCEPT !.kms.disabled = TRUE]
  <2>1. /\ d \in Outcome /\ d.dev = o.dev /\ d.undone = o.undone /\ d.kms.fd = o.kms.fd
        /\ d.kms.size = o.kms.size /\ d.kms.fb = o.kms.fb /\ d.kms.handle = o.kms.handle
        /\ d.kms.curBuf = o.kms.curBuf /\ d.kms.at = o.kms.at
    BY DEF Outcome, Kms
  <2> HIDE DEF d
  <2>2. /\ r \in Outcome /\ r.kms = d.kms /\ r.dev = d.dev /\ r.undone = d.undone
        /\ r.failed = TRUE
    BY <1>3, <2>1, FailedFacts DEF d
  <2>3. QED
    BY <1>1, <2>1, <2>2 DEF PictureHeld, PointerHeld, Initialized
<1>4. ASSUME NEW atomic \in BOOLEAN, NEW read \in BOOLEAN, r = Taken(o, g, atomic, read)
      PROVE  /\ r \in Outcome /\ PictureHeld(r) /\ PointerHeld(r)
             /\ r.kms.curBuf = o.kms.curBuf /\ r.kms.fb = NoFb /\ r.kms.size = g
  <2>1. g \in {SizeOf[j] : j \in Scanouts} /\ g # 0
    OBVIOUS
  <2> HIDE DEF g
  <2>2. r.kms \in Kms /\ r.undone \in SUBSET {"host", "move", "hide"}
    <3>1. o.kms \in Kms /\ o.undone \in SUBSET {"host", "move", "hide"}
      BY DEF Outcome
    <3> DEFINE old == IF read THEN o.dev.screen ELSE NoCrtc
    <3>2. [o.kms EXCEPT !.fd = TRUE, !.size = g, !.ready = atomic, !.old = old] \in Kms
      <4>1. old \in {Host, Off, NoCrtc}
        BY <1>1
      <4> HIDE DEF old
      <4> DEFINE k == [o.kms EXCEPT !.fd = TRUE, !.size = g]
                 l == [k EXCEPT !.ready = atomic]
      <4>2. k \in Kms
        BY <2>1, <3>1 DEF Kms
      <4>3. ASSUME NEW m \in Kms PROVE [m EXCEPT !.ready = atomic] \in Kms
        BY <1>4 DEF Kms
      <4>4. ASSUME NEW m \in Kms PROVE [m EXCEPT !.old = old] \in Kms
        BY <4>1 DEF Kms
      <4>5. [l EXCEPT !.old = old] \in Kms
        <5>1. l \in Kms
          BY <4>2, <4>3
        <5> HIDE DEF l
        <5>2. QED
          BY <4>4, <5>1
      <4>6. QED
        BY <4>5
    <3>3. QED
      BY <1>4, <3>1, <3>2 DEF Taken, Outcome
  <2>3. r \in Outcome
    BY <1>4, <2>2 DEF Taken, Outcome
  <2>4. /\ r.kms.fd = TRUE /\ r.kms.size = g /\ r.kms.fb = o.kms.fb /\ r.dev = o.dev
        /\ r.kms.curBuf = o.kms.curBuf /\ r.kms.handle = o.kms.handle
        /\ r.kms.old = IF read THEN o.dev.screen ELSE NoCrtc
        /\ r.undone = IF read THEN o.undone ELSE o.undone \cup {"host"}
    BY <1>4 DEF Taken, Outcome, Kms
  <2>5. PictureHeld(r)
    BY <1>1, <2>1, <2>4 DEF PictureHeld, Initialized
  <2>6. PointerHeld(r)
    BY <1>1, <2>4 DEF PointerHeld
  <2>7. QED
    BY <2>3, <2>4, <2>5, <2>6
<1>5. OutputFor(g) \subseteq BOOLEAN /\ AtomicSetUp \subseteq BOOLEAN /\ CrtcRead \subseteq BOOLEAN
  BY DEF OutputFor, AtomicSetUp, CrtcRead, Refused
<1>6. ASSUME NEW output \in OutputFor(g), NEW atomic \in AtomicSetUp, NEW read \in CrtcRead,
             r = IF output THEN Taken(o, g, atomic, read) ELSE Failed(o)
      PROVE  r = Failed(o) \/ \E a, d \in BOOLEAN : r = Taken(o, g, a, d)
  <2>1. output \in BOOLEAN /\ atomic \in BOOLEAN /\ read \in BOOLEAN
    BY <1>5
  <2>2. CASE output = TRUE
    BY <1>6, <2>1, <2>2, Zenon
  <2>3. CASE output = FALSE
    BY <1>6, <2>3
  <2>4. QED
    BY <2>1, <2>2, <2>3
<1>7. CASE r \in Refused("open", Failed([o EXCEPT !.kms.disabled = TRUE]))
  BY <1>3, <1>7 DEF Refused
<1>8. CASE r \notin Refused("open", Failed([o EXCEPT !.kms.disabled = TRUE]))
  <2>1. \E output \in OutputFor(g), atomic \in AtomicSetUp, read \in CrtcRead :
           r = IF output THEN Taken(o, g, atomic, read) ELSE Failed(o)
    BY <1>8 DEF Opened
  <2>2. r = Failed(o) \/ \E a, d \in BOOLEAN : r = Taken(o, g, a, d)
    BY <1>6, <2>1
  <2>3. QED
    BY <1>2, <1>4, <2>2
<1>9. QED
  BY <1>7, <1>8

\* kms_init ends with the size that was asked for, or fails, or is disabled.
LEMMA ReadyFacts ==
  ASSUME NEW o \in Outcome, PictureHeld(o), PointerHeld(o), Known(o),
         NEW i \in Scanouts, NEW r \in Ready(o, SizeOf[i])
  PROVE  /\ r \in Outcome /\ PictureHeld(r) /\ PointerHeld(r) /\ Known(r)
         /\ r.kms.curBuf \in {o.kms.curBuf, NoBuf}
         /\ r.kms.size = SizeOf[i] \/ r.failed = TRUE \/ r.kms.disabled = TRUE
<1>1. CASE o.kms.disabled = TRUE \/ o.kms.size = SizeOf[i]
  <2>1. r = o
    BY <1>1 DEF Ready
  <2>2. QED
    BY <1>1, <2>1
<1>2. CASE ~ (o.kms.disabled = TRUE \/ o.kms.size = SizeOf[i])
  <2>1. o.kms.disabled = FALSE
    BY <1>2 DEF Outcome, Kms
  <2>2. PICK c \in Closed(o) : r \in Opened(c, SizeOf[i])
    BY <1>2, <2>1 DEF Ready
  <2>3. /\ c \in Outcome /\ PictureHeld(c) /\ PointerHeld(c)
        /\ c.kms.size = 0 /\ c.kms.fb = NoFb /\ c.kms.curBuf = NoBuf
    BY ClosedFacts
  <2>4. QED
    <3>1. /\ r \in Outcome /\ PictureHeld(r) /\ PointerHeld(r)
          /\ r.kms.curBuf = c.kms.curBuf /\ r.kms.fb = NoFb
          /\ r.kms.size = SizeOf[i] \/ r.failed = TRUE
      BY <2>2, <2>3, OpenedFacts
    <3>2. QED
      BY <2>3, <3>1 DEF Known
<1>3. QED
  BY <1>1, <1>2

----------------------------------------------------------------------------
(***************************************************************************)
(* Showing a framebuffer.  While kms_present has come from p to o, the new *)
(* framebuffer f is there beside the one that the display keeps, and the   *)
(* monitor shows one of the two.                                           *)
(***************************************************************************)
Pending(p, o, f) ==
  /\ o \in Outcome
  /\ o.dev.fbs = [x \in FBs |-> IF x = f THEN mem[scanout] ELSE p.dev.fbs[x]]
  /\ o.dev.screen \in {p.dev.screen, f}
  /\ <<o.kms.fd, o.kms.size, o.kms.fb, o.kms.fbBuf, o.kms.old, o.kms.disabled>>
       = <<p.kms.fd, p.kms.size, p.kms.fb, p.kms.fbBuf, p.kms.old, p.kms.disabled>>
  /\ PointerOf(o) = PointerOf(p) /\ o.undone = p.undone
  /\ p.failed = TRUE => o.failed = TRUE

\* The steps that leave a framebuffer pending, whatever the kernel refuses.
LEMMA FailedPends ==
  ASSUME NEW p \in Outcome, NEW f \in FBs, NEW o, Pending(p, o, f)
  PROVE  Pending(p, Failed(o), f) /\ Failed(o).dev = o.dev
<1>1. /\ Failed(o) \in Outcome
      /\ Failed(o).kms = o.kms /\ Failed(o).dev = o.dev /\ Failed(o).undone = o.undone
      /\ Failed(o).failed = TRUE
  BY FailedFacts DEF Pending
<1>2. QED
  BY <1>1 DEF Pending, PointerOf

LEMMA ShownPends ==
  ASSUME NEW p \in Outcome, NEW f \in FBs, NEW o, Pending(p, o, f)
  PROVE  Pending(p, Shown(o, f), f) /\ Shown(o, f).dev.screen = f
<1>1. o \in Outcome
  BY DEF Pending
<1>2. /\ Shown(o, f) \in Outcome
      /\ Shown(o, f).kms = o.kms /\ Shown(o, f).undone = o.undone /\ Shown(o, f).failed = o.failed
      /\ Shown(o, f).dev.fbs = o.dev.fbs /\ Shown(o, f).dev.pointer = o.dev.pointer
      /\ Shown(o, f).dev.at = o.dev.at /\ Shown(o, f).dev.screen = f
  BY <1>1 DEF Shown, Outcome, Dev
<1>3. QED
  BY <1>2 DEF Pending, PointerOf

LEMMA AddedPends ==
  ASSUME NEW p \in Outcome, NEW f \in FBs, mem[scanout] \in Scanouts
  PROVE  Pending(p, Added(p, f), f)
<1>1. /\ Added(p, f) \in Outcome
      /\ Added(p, f).kms = p.kms /\ Added(p, f).undone = p.undone /\ Added(p, f).failed = p.failed
      /\ Added(p, f).dev.fbs = [p.dev.fbs EXCEPT ![f] = mem[scanout]]
      /\ Added(p, f).dev.pointer = p.dev.pointer /\ Added(p, f).dev.at = p.dev.at
      /\ Added(p, f).dev.screen = p.dev.screen
  BY DEF Added, Outcome, Dev
<1>2. Added(p, f).dev.fbs = [x \in FBs |-> IF x = f THEN mem[scanout] ELSE p.dev.fbs[x]]
  BY <1>1 DEF Outcome, Dev
<1>3. QED
  BY <1>1, <1>2 DEF Pending, PointerOf

\* A commit that is refused gives the atomic way up, one that is not may be the first.
LEMMA CommitKindPends ==
  ASSUME NEW p \in Outcome, NEW f \in FBs, NEW o, Pending(p, o, f)
  PROVE  /\ Pending(p, [o EXCEPT !.kms.ready = FALSE], f)
         /\ Pending(p, [o EXCEPT !.kms.active = TRUE], f)
<1>1. o \in Outcome
  BY DEF Pending
<1> DEFINE c == [o EXCEPT !.kms.ready = FALSE]
           d == [o EXCEPT !.kms.active = TRUE]
<1>2. /\ c \in Outcome /\ c.dev = o.dev /\ c.undone = o.undone /\ c.failed = o.failed
      /\ c.kms.fd = o.kms.fd /\ c.kms.size = o.kms.size /\ c.kms.fb = o.kms.fb
      /\ c.kms.fbBuf = o.kms.fbBuf /\ c.kms.old = o.kms.old /\ c.kms.disabled = o.kms.disabled
      /\ c.kms.curBuf = o.kms.curBuf /\ c.kms.handle = o.kms.handle /\ c.kms.at = o.kms.at
  <2>1. [o.kms EXCEPT !.ready = FALSE] \in Kms
    <3>1. o.kms \in Kms
      BY <1>1 DEF Outcome
    <3>2. QED
      BY <3>1 DEF Kms
  <2>2. c \in Outcome /\ c.kms = [o.kms EXCEPT !.ready = FALSE]
    BY <1>1, <2>1 DEF Outcome
  <2>3. c.dev = o.dev /\ c.undone = o.undone /\ c.failed = o.failed
    BY <1>1 DEF Outcome
  <2>4. QED
    BY <2>1, <2>2, <2>3 DEF Kms
<1>3. /\ d \in Outcome /\ d.dev = o.dev /\ d.undone = o.undone /\ d.failed = o.failed
      /\ d.kms.fd = o.kms.fd /\ d.kms.size = o.kms.size /\ d.kms.fb = o.kms.fb
      /\ d.kms.fbBuf = o.kms.fbBuf /\ d.kms.old = o.kms.old /\ d.kms.disabled = o.kms.disabled
      /\ d.kms.curBuf = o.kms.curBuf /\ d.kms.handle = o.kms.handle /\ d.kms.at = o.kms.at
  <2>1. [o.kms EXCEPT !.active = TRUE] \in Kms
    <3>1. o.kms \in Kms
      BY <1>1 DEF Outcome
    <3>2. QED
      BY <3>1 DEF Kms
  <2>2. d \in Outcome /\ d.kms = [o.kms EXCEPT !.active = TRUE]
    BY <1>1, <2>1 DEF Outcome
  <2>3. d.dev = o.dev /\ d.undone = o.undone /\ d.failed = o.failed
    BY <1>1 DEF Outcome
  <2>4. QED
    BY <2>1, <2>2, <2>3 DEF Kms
<1> HIDE DEF c, d
<1>4. Pending(p, c, f) /\ Pending(p, d, f)
  BY <1>2, <1>3 DEF Pending, PointerOf
<1>5. QED
  BY <1>4 DEF c, d

LEMMA CommittedPends ==
  ASSUME NEW p \in Outcome, NEW f \in FBs, NEW o, Pending(p, o, f), NEW r \in Committed(o, f)
  PROVE  Pending(p, r, f)
<1>1. \/ r = o \/ r = Failed(o) \/ r = Failed([o EXCEPT !.kms.ready = FALSE])
      \/ r = [Shown(o, f) EXCEPT !.kms.active = TRUE]
  <2>1. CASE ~o.kms.ready
    BY <2>1 DEF Committed
  <2>2. CASE o.kms.ready
    <3>1. \/ r \in Refused("alloc", Failed(o)) \/ r \in Refused("property", o)
          \/ r \in Refused("commit", Failed([o EXCEPT !.kms.ready = FALSE]))
          \/ r \in {Failed([o EXCEPT !.kms.ready = FALSE])}
          \/ r \in {[Shown(o, f) EXCEPT !.kms.active = TRUE]}
      BY <2>2, Zenon DEF Committed
    <3>2. QED
      BY <3>1 DEF Refused
  <2>3. QED
    BY <2>1, <2>2
<1>2. CASE r = Failed([o EXCEPT !.kms.ready = FALSE])
  BY <1>2, FailedPends, CommitKindPends
<1>3. CASE r = [Shown(o, f) EXCEPT !.kms.active = TRUE]
  BY <1>3, ShownPends, CommitKindPends
<1>4. QED
  BY <1>1, <1>2, <1>3, FailedPends

LEMMA FlippedPends ==
  ASSUME NEW p \in Outcome, NEW f \in FBs, NEW o, Pending(p, o, f), NEW r \in Flipped(o, f)
  PROVE  Pending(p, r, f)
<1>1. r = o \/ r = Shown(o, f) \/ r = Failed(Shown(o, f))
  BY DEF Flipped, Refused
<1>2. QED
  BY <1>1, FailedPends, ShownPends

\* After SetCrtc the new framebuffer is on the monitor, or gone, with the failure counted.
LEMMA SetCrtcEnds ==
  ASSUME NEW p \in Outcome, NEW f \in FBs, NEW o, Pending(p, o, f), p.dev.screen # f,
         p.dev.fbs[f] = NoImage, NEW r \in SetCrtc(o, f)
  PROVE  \/ Pending(p, r, f) /\ r.dev.screen = f
         \/ /\ r \in Outcome /\ r.failed = TRUE /\ r.dev.screen # f
            /\ PictureOf(r) = <<p.kms.fd, p.kms.size, r.kms.ready, r.kms.active, p.kms.fb,
                                p.kms.fbBuf, p.kms.old, p.kms.disabled, p.dev.fbs, p.dev.screen,
                                p.undone \ {"move", "hide"}>>
            /\ PointerOf(r) = PointerOf(p)
<1>1. CASE r = o /\ o.dev.screen = f
  BY <1>1
<1>2. CASE r = Shown(o, f)
  BY <1>2, ShownPends
<1>3. CASE o.dev.screen # f /\ r = Failed(WithoutFb(o, f))
  <2>1. o \in Outcome
    BY DEF Pending
  <2>2. /\ WithoutFb(o, f) \in Outcome
        /\ WithoutFb(o, f).kms = o.kms /\ WithoutFb(o, f).undone = o.undone
        /\ WithoutFb(o, f).dev.pointer = o.dev.pointer /\ WithoutFb(o, f).dev.at = o.dev.at
        /\ WithoutFb(o, f).dev.fbs = [x \in FBs |-> IF x = f THEN NoImage ELSE o.dev.fbs[x]]
        /\ WithoutFb(o, f).dev.screen = o.dev.screen
    BY <1>3, <2>1, WithoutFbFacts
  <2>3. /\ r \in Outcome /\ r.kms = o.kms /\ r.undone = o.undone /\ r.failed = TRUE
        /\ r.dev = WithoutFb(o, f).dev
    BY <1>3, <2>2, FailedFacts
  <2>4. r.dev.fbs = p.dev.fbs
    <3>1. r.dev.fbs = [x \in FBs |-> IF x = f THEN NoImage ELSE p.dev.fbs[x]]
      BY <2>2, <2>3 DEF Pending
    <3>2. p.dev.fbs \in [FBs -> Scanouts \cup {NoImage}]
      BY DEF Outcome, Dev
    <3>3. QED
      BY <3>1, <3>2
  <2>5. r.dev.screen = p.dev.screen /\ r.dev.screen # f
    BY <1>3, <2>2, <2>3 DEF Pending
  <2>6. PointerOf(r) = PointerOf(p)
    BY <2>2, <2>3 DEF Pending, PointerOf
  <2>7. QED
    BY <2>3, <2>4, <2>5, <2>6 DEF Pending, PictureOf
<1>4. QED
  BY <1>1, <1>2, <1>3 DEF SetCrtc, Refused

\* What kms_present promises: it shows the scanout or counts a failure, unless the
\* display has another size.
Presents(p, r) ==
  /\ r \in Outcome /\ PictureHeld(r) /\ PointerHeld(r) /\ Known(r)
  /\ r.kms.curBuf = p.kms.curBuf
  /\ r.kms.size = p.kms.size /\ r.kms.disabled = p.kms.disabled
  /\ p.failed = TRUE => r.failed = TRUE
  /\ p.kms.size = SizeOf[mem[scanout]] /\ r.failed = FALSE
       => r.kms.fb # NoFb /\ r.dev.fbs[r.kms.fb] = mem[scanout]

\* The new framebuffer takes the place of the old one.
LEMMA KeptFacts ==
  ASSUME NEW p \in Outcome, PictureHeld(p), PointerHeld(p), Initialized(p),
         p.kms.curBuf # NoBuf => mem'[p.kms.curBuf] \in Cursors,
         NEW f \in FBs, p.dev.fbs[f] = NoImage, scanout \in Bufs, mem[scanout] \in Scanouts,
         NEW o, Pending(p, o, f), o.dev.screen = f, NEW r \in Kept(o, f)
  PROVE  Presents(p, r)
<1> DEFINE w == WithoutFb(o, o.kms.fb)
           q == [w EXCEPT !.kms.fb = f, !.kms.fbBuf = scanout]
<1>1. /\ o \in Outcome /\ o.kms.fb = p.kms.fb /\ o.kms.fd = p.kms.fd /\ o.kms.size = p.kms.size
      /\ o.kms.old = p.kms.old /\ o.kms.disabled = p.kms.disabled /\ o.undone = p.undone
      /\ o.dev.fbs = [x \in FBs |-> IF x = f THEN mem[scanout] ELSE p.dev.fbs[x]]
      /\ o.kms.curBuf = p.kms.curBuf /\ o.kms.handle = p.kms.handle /\ o.kms.at = p.kms.at
      /\ o.dev.pointer = p.dev.pointer /\ o.dev.at = p.dev.at
      /\ p.failed = TRUE => o.failed = TRUE
  BY DEF Pending, PointerOf
<1>2. p.kms.fb # f /\ f # NoFb
  BY DEF PictureHeld
<1>3. /\ w \in Outcome /\ w.kms = o.kms /\ w.undone = o.undone /\ w.failed = o.failed
      /\ w.dev.pointer = o.dev.pointer /\ w.dev.at = o.dev.at
      /\ w.dev.fbs = [x \in FBs |-> IF x = o.kms.fb THEN NoImage ELSE o.dev.fbs[x]]
      /\ w.dev.screen = f
  BY <1>1, <1>2, WithoutFbFacts
<1> HIDE DEF w
<1>4. /\ q \in Outcome /\ q.dev = w.dev /\ q.undone = w.undone /\ q.failed = w.failed
      /\ q.kms.fb = f /\ q.kms.fbBuf = scanout /\ q.kms.fd = w.kms.fd /\ q.kms.size = w.kms.size
      /\ q.kms.old = w.kms.old /\ q.kms.disabled = w.kms.disabled
      /\ q.kms.curBuf = w.kms.curBuf /\ q.kms.handle = w.kms.handle /\ q.kms.at = w.kms.at
  <2>1. w.kms \in Kms
    BY <1>3 DEF Outcome
  <2>2. [w.kms EXCEPT !.fb = f, !.fbBuf = scanout] \in Kms
    BY <2>1 DEF Kms
  <2>3. /\ q \in Outcome /\ q.kms = [w.kms EXCEPT !.fb = f, !.fbBuf = scanout]
        /\ q.dev = w.dev /\ q.undone = w.undone /\ q.failed = w.failed
    BY <1>3, <2>2 DEF Outcome
  <2> HIDE DEF q
  <2>4. QED
    BY <2>1, <2>3 DEF Kms
<1> HIDE DEF q
<1>5. q.dev.fbs[f] = mem[scanout] /\ \A x \in FBs : q.dev.fbs[x] # NoImage <=> x = f
  <2>1. ASSUME NEW x \in FBs
        PROVE  q.dev.fbs[x] = IF x = p.kms.fb THEN NoImage
                              ELSE IF x = f THEN mem[scanout] ELSE p.dev.fbs[x]
    BY <1>1, <1>3, <1>4
  <2>2. \A x \in FBs : p.dev.fbs[x] # NoImage <=> x = p.kms.fb
    BY DEF PictureHeld
  <2>3. QED
    BY <1>2, <2>1, <2>2
<1>6. PictureHeld(q)
  <2>1. /\ q.kms.fd = p.kms.fd /\ q.kms.size = p.kms.size /\ q.kms.old = p.kms.old
        /\ q.undone = p.undone /\ q.dev.screen = f
    BY <1>1, <1>3, <1>4
  <2>2. QED
    BY <1>2, <1>4, <1>5, <2>1 DEF PictureHeld, Initialized
<1>7. PointerHeld(q)
  <2>1. /\ q.kms.size = p.kms.size /\ q.undone = p.undone
        /\ q.kms.curBuf = p.kms.curBuf /\ q.kms.handle = p.kms.handle /\ q.kms.at = p.kms.at
        /\ q.dev.pointer = p.dev.pointer /\ q.dev.at = p.dev.at
    BY <1>1, <1>3, <1>4
  <2>2. QED
    BY <2>1 DEF PointerHeld, Initialized
<1>8. r \in Pointed(q)
  BY DEF Kept, q, w
<1>9. /\ r \in Outcome /\ PictureOf(r) = PictureOf(q) /\ PointerHeld(r)
      /\ r.kms.curBuf = q.kms.curBuf
      /\ q.failed = TRUE => r.failed = TRUE
  <2>1. q \in Outcome /\ q.kms.curBuf = p.kms.curBuf
    BY <1>1, <1>3, <1>4
  <2>2. q.kms.curBuf # NoBuf => mem'[q.kms.curBuf] \in Cursors
    BY <2>1
  <2>3. QED
    BY <1>7, <1>8, <2>1, <2>2, PointedFacts
<1>10. Known(q)
  BY <1>4, <1>5 DEF Known
<1>11. /\ PictureHeld(r) /\ Known(r) /\ r.kms.fb = f /\ r.dev.fbs[f] = mem[scanout]
       /\ r.kms.size = p.kms.size /\ r.kms.disabled = p.kms.disabled
  BY <1>1, <1>3, <1>4, <1>5, <1>6, <1>9, <1>10, SamePicture
<1>12. QED
  BY <1>1, <1>2, <1>3, <1>4, <1>9, <1>11 DEF Presents

LEMMA PresentFacts ==
  ASSUME NEW p \in Outcome, PictureHeld(p), PointerHeld(p), Known(p),
         p.kms.curBuf # NoBuf => mem'[p.kms.curBuf] \in Cursors,
         scanout \in Bufs, mem[scanout] \in Scanouts, NEW r \in Present(p)
  PROVE  Presents(p, r)
<1>1. CASE p.kms.size # SizeOf[mem[scanout]] \/ (p.kms.fbBuf = scanout /\ p.kms.fb # NoFb)
  <2>1. r = p
    BY <1>1 DEF Present
  <2>2. QED
    BY <1>1, <2>1 DEF Known, Presents
<1>2. CASE r = Failed(p)
  <2>1. /\ r \in Outcome /\ r.kms = p.kms /\ r.dev = p.dev /\ r.undone = p.undone
        /\ r.failed = TRUE
    BY <1>2, FailedFacts
  <2>2. QED
    BY <2>1 DEF PictureHeld, PointerHeld, Known, Initialized, Presents
<1>3. ASSUME p.kms.size = SizeOf[mem[scanout]],
             NEW f \in {x \in FBs : p.dev.fbs[x] = NoImage},
             NEW c \in Committed(Added(p, f), f), NEW d \in Flipped(c, f), NEW s \in SetCrtc(d, f),
             r \in Kept(s, f)
      PROVE  Presents(p, r)
  <2>1. f \in FBs /\ p.dev.fbs[f] = NoImage /\ f # NoFb /\ Initialized(p)
    BY <1>3 DEF Initialized
  <2>2. p.dev.screen # f
    BY <2>1 DEF PictureHeld
  <2>3. Pending(p, d, f)
    BY <2>1, AddedPends, CommittedPends, FlippedPends
  <2>4. CASE Pending(p, s, f) /\ s.dev.screen = f
    BY <1>3, <2>1, <2>4, KeptFacts
  <2>5. CASE ~ (Pending(p, s, f) /\ s.dev.screen = f)
    <3>1. /\ s \in Outcome /\ s.failed = TRUE /\ s.dev.screen # f
          /\ PictureOf(s) = <<p.kms.fd, p.kms.size, s.kms.ready, s.kms.active, p.kms.fb,
                              p.kms.fbBuf, p.kms.old, p.kms.disabled, p.dev.fbs, p.dev.screen,
                              p.undone \ {"move", "hide"}>>
          /\ PointerOf(s) = PointerOf(p)
      BY <2>1, <2>2, <2>3, <2>5, SetCrtcEnds
    <3>2. r = s
      BY <1>3, <3>1 DEF Kept
    <3>3. /\ s.kms.fd = p.kms.fd /\ s.kms.size = p.kms.size /\ s.kms.fb = p.kms.fb
          /\ s.kms.fbBuf = p.kms.fbBuf /\ s.kms.old = p.kms.old /\ s.kms.disabled = p.kms.disabled
          /\ s.dev.fbs = p.dev.fbs /\ s.dev.screen = p.dev.screen
          /\ s.undone \ {"move", "hide"} = p.undone \ {"move", "hide"}
      BY <3>1 DEF PictureOf
    <3>4. /\ s.kms.curBuf = p.kms.curBuf /\ s.kms.handle = p.kms.handle /\ s.kms.at = p.kms.at
          /\ s.dev.pointer = p.dev.pointer /\ s.dev.at = p.dev.at
          /\ s.undone \ {"host"} = p.undone \ {"host"}
      BY <3>1 DEF PointerOf
    <3>5. ("host" \in s.undone <=> "host" \in p.undone) /\ ("move" \in s.undone <=> "move" \in p.undone)
      BY <3>3, <3>4
    <3>6. PictureHeld(s) /\ Known(s)
      BY <3>3, <3>5 DEF PictureHeld, Known, Initialized
    <3>7. PointerHeld(s)
      BY <3>3, <3>4, <3>5 DEF PointerHeld, Initialized
    <3>8. QED
      BY <3>1, <3>2, <3>3, <3>4, <3>6, <3>7 DEF Presents
  <2>6. QED
    BY <2>4, <2>5
<1>4. CASE ~ (p.kms.size # SizeOf[mem[scanout]] \/ (p.kms.fbBuf = scanout /\ p.kms.fb # NoFb))
  <2>1. \/ r \in Refused("import", Failed(p)) \/ r \in Refused("addfb", Failed(p))
        \/ r \in UNION { UNION { UNION { UNION { Kept(s, f) : s \in SetCrtc(d, f) }
                                         : d \in Flipped(c, f) }
                                 : c \in Committed(Added(p, f), f) }
                         : f \in {x \in FBs : p.dev.fbs[x] = NoImage} }
    BY <1>4, Zenon DEF Present
  <2>2. \/ r = Failed(p)
        \/ \E f \in {x \in FBs : p.dev.fbs[x] = NoImage} : \E c \in Committed(Added(p, f), f) :
             \E d \in Flipped(c, f) : \E s \in SetCrtc(d, f) : r \in Kept(s, f)
    BY <2>1 DEF Refused
  <2>3. QED
    BY <1>2, <1>3, <1>4, <2>2
<1>5. QED
  BY <1>1, <1>4

----------------------------------------------------------------------------
(***************************************************************************)
(* The callbacks.                                                          *)
(***************************************************************************)
LEMMA NowFacts ==
  ASSUME TypeOK
  PROVE  /\ Now \in Outcome
         /\ Now.kms = kms /\ Now.dev = dev /\ Now.undone = undone /\ Now.failed = FALSE
BY DEF Now, Outcome, TypeOK

\* A callback that ends in an outcome keeps what the outcome keeps.
LEMMA BecomesFacts ==
  ASSUME NEW o \in Outcome, Becomes(o)
  PROVE  /\ kms' \in Kms /\ dev' \in Dev /\ undone' \subseteq {"host", "move", "hide"}
         /\ kms' = o.kms /\ dev' = o.dev
         /\ PictureHeld(o) => PictureHeld(Now)'
         /\ PointerHeld(o) => PointerHeld(Now)'
<1>1. /\ kms' = o.kms /\ dev' = o.dev /\ undone' = o.undone
      /\ kms' \in Kms /\ dev' \in Dev /\ undone' \subseteq {"host", "move", "hide"}
  BY DEF Becomes, Outcome
<1>2. PictureHeld(o) => PictureHeld(Now)'
  BY <1>1 DEF PictureHeld, Initialized, Now
<1>3. PointerHeld(o) => PointerHeld(Now)'
  BY <1>1 DEF PointerHeld, Initialized, Now
<1>4. QED
  BY <1>1, <1>2, <1>3

\* Memory that QEMU gets to show is memory that nothing is remembered of.
LEMMA FoundFacts ==
  ASSUME TypeOK, NEW b \in Bufs, NEW kind, kind = Scanouts \/ kind = Cursors, Found(b, kind)
  PROVE  /\ mem' \in [Bufs -> Scanouts \cup Cursors \cup {NoImage}]
         /\ mem'[b] \in kind
         /\ \A x \in Bufs : mem[x] # NoImage => mem'[x] = mem[x]
<1>1. mem \in [Bufs -> Scanouts \cup Cursors \cup {NoImage}]
  BY DEF TypeOK
<1>2. CASE mem[b] \in kind /\ UNCHANGED mem
  BY <1>1, <1>2
<1>3. CASE mem[b] = NoImage /\ \E i \in kind : mem' = [mem EXCEPT ![b] = i]
  <2>1. PICK i \in kind : mem' = [mem EXCEPT ![b] = i]
    BY <1>3
  <2>2. QED
    BY <1>1, <1>3, <2>1
<1>4. QED
  BY <1>2, <1>3 DEF Found

\* A callback that leaves the picture alone leaves the invariant of the picture alone.
LEMMA PictureStays ==
  ASSUME IInv, NEW o \in Outcome, PictureOf(o) = PictureOf(Now), PointerHeld(o), Becomes(o),
         UNCHANGED <<scanout, settled>>,
         mem' \in [Bufs -> Scanouts \cup Cursors \cup {NoImage}],
         \A x \in Bufs : mem[x] # NoImage => mem'[x] = mem[x],
         {primary', cursor'} \subseteq Bufs \cup {NoBuf}, GuestInv'
  PROVE  IInv'
<1>1. /\ Now \in Outcome
      /\ Now.kms = kms /\ Now.dev = dev /\ Now.undone = undone /\ Now.failed = FALSE
  BY NowFacts DEF IInv
<1>2. /\ PictureHeld(o) /\ kms'.disabled = kms.disabled /\ kms'.size = kms.size
      /\ kms'.fb = kms.fb /\ dev'.fbs = dev.fbs /\ dev'.screen = dev.screen
      /\ kms'.fbBuf = kms.fbBuf
  BY <1>1, SamePicture, BecomesFacts DEF IInv, PictureOf
<1>3. TypeOK' /\ PictureHeld(Now)' /\ PointerHeld(Now)'
  BY <1>2, BecomesFacts DEF IInv, TypeOK
<1>4. Known(Now)'
  <2>1. SUFFICES ASSUME kms.fb # NoFb, kms.fbBuf # NoBuf PROVE dev.fbs[kms.fb] = mem'[kms.fbBuf]
    BY <1>2 DEF Known, Now
  <2>2. kms.fb \in FBs /\ kms.fbBuf \in Bufs
    BY <2>1 DEF IInv, TypeOK, Kms
  <2>3. dev.fbs[kms.fb] = mem[kms.fbBuf] /\ dev.fbs[kms.fb] # NoImage
    BY <1>1, <2>1, <2>2 DEF IInv, Known, PictureHeld
  <2>4. QED
    BY <2>2, <2>3
<1>5. settled => scanout \in Bufs /\ mem[scanout] # NoImage
  BY DEF IInv, TypeOK, GuestInv
<1>6. FailuresAreSeen' /\ (settled' => scanout' # NoBuf)
  BY <1>2, <1>5 DEF IInv, FailuresAreSeen
<1>7. QED
  BY <1>3, <1>4, <1>6 DEF IInv

LEMMA ScanoutDmabufKeeps ==
  ASSUME IInv, NEW b \in Bufs, ScanoutDmabuf(b)
  PROVE  IInv'
<1>1. /\ Now \in Outcome
      /\ Now.kms = kms /\ Now.dev = dev /\ Now.undone = undone /\ Now.failed = FALSE
  BY NowFacts DEF IInv
<1>2. /\ primary' = b /\ scanout' = b /\ settled' = FALSE
      /\ UNCHANGED <<kms, dev, undone, cursor>>
  BY DEF ScanoutDmabuf
<1>3. /\ mem' \in [Bufs -> Scanouts \cup Cursors \cup {NoImage}]
      /\ mem'[b] \in Scanouts
      /\ \A x \in Bufs : mem[x] # NoImage => mem'[x] = mem[x]
  BY FoundFacts DEF IInv, ScanoutDmabuf
<1>4. TypeOK'
  BY <1>2, <1>3 DEF IInv, TypeOK
<1>5. GuestInv'
  <2>1. cursor # NoBuf => cursor \in Bufs /\ mem[cursor] # NoImage
    BY DEF IInv, TypeOK, GuestInv
  <2>2. QED
    BY <1>2, <1>3, <2>1 DEF IInv, GuestInv
<1>6. PictureHeld(Now)' /\ PointerHeld(Now)'
  BY <1>2 DEF IInv, PictureHeld, PointerHeld, Initialized, Now
<1>7. Known(Now)'
  <2>1. SUFFICES ASSUME kms.fb # NoFb, kms.fbBuf # NoBuf PROVE dev.fbs[kms.fb] = mem'[kms.fbBuf]
    BY <1>2 DEF Known, Now
  <2>2. kms.fb \in FBs /\ kms.fbBuf \in Bufs
    BY <2>1 DEF IInv, TypeOK, Kms
  <2>3. dev.fbs[kms.fb] = mem[kms.fbBuf] /\ dev.fbs[kms.fb] # NoImage
    BY <1>1, <2>1, <2>2 DEF IInv, Known, PictureHeld
  <2>4. QED
    BY <1>3, <2>2, <2>3
<1>8. QED
  BY <1>2, <1>4, <1>5, <1>6, <1>7 DEF IInv, FailuresAreSeen

LEMMA ScanoutDisableKeeps ==
  ASSUME IInv, ScanoutDisable
  PROVE  IInv'
<1>1. Now \in Outcome /\ PictureHeld(Now) /\ PointerHeld(Now)
  BY NowFacts DEF IInv
<1>2. PICK o \in Closed(Now) : Becomes(o)
  BY DEF ScanoutDisable
<1>3. o \in Outcome /\ PictureHeld(o) /\ PointerHeld(o) /\ o.kms.fb = NoFb /\ o.kms.curBuf = NoBuf
  BY <1>1, ClosedFacts
<1>4. /\ kms' \in Kms /\ dev' \in Dev /\ undone' \subseteq {"host", "move", "hide"}
      /\ kms' = o.kms /\ PictureHeld(Now)' /\ PointerHeld(Now)'
  BY <1>2, <1>3, BecomesFacts
<1>5. /\ scanout' = NoBuf /\ primary' = NoBuf /\ cursor' = NoBuf /\ settled' = FALSE /\ mem' = mem
  BY DEF ScanoutDisable
<1>6. TypeOK'
  BY <1>4, <1>5 DEF IInv, TypeOK
<1>7. GuestInv' /\ Known(Now)'
  BY <1>3, <1>4, <1>5 DEF GuestInv, Known, Now
<1>8. QED
  BY <1>4, <1>5, <1>6, <1>7 DEF IInv, FailuresAreSeen

LEMMA CursorDmabufKeeps ==
  ASSUME IInv, NEW b \in Bufs, CursorDmabuf(b)
  PROVE  IInv'
<1> DEFINE n == [Now EXCEPT !.kms.curBuf = b]
<1>1. /\ Now \in Outcome
      /\ Now.kms = kms /\ Now.dev = dev /\ Now.undone = undone /\ Now.failed = FALSE
  BY NowFacts DEF IInv
<1>2. /\ mem' \in [Bufs -> Scanouts \cup Cursors \cup {NoImage}]
      /\ mem'[b] \in Cursors
      /\ \A x \in Bufs : mem[x] # NoImage => mem'[x] = mem[x]
  BY FoundFacts DEF IInv, CursorDmabuf
<1>3. n \in Outcome /\ PictureOf(n) = PictureOf(Now) /\ n.kms.curBuf = b
      /\ n.dev = Now.dev /\ n.undone = Now.undone /\ n.kms.handle = Now.kms.handle
      /\ n.kms.at = Now.kms.at /\ n.kms.size = Now.kms.size
  BY <1>1 DEF PictureOf, Outcome, Kms
<1>4. PICK o \in Pointed(n) : Becomes(o)
  BY DEF CursorDmabuf
<1> HIDE DEF n
<1>5. PointerHeld(n)
  BY <1>3 DEF IInv, PointerHeld, Initialized
<1>6. o \in Outcome /\ PictureOf(o) = PictureOf(Now) /\ PointerHeld(o) /\ o.kms.curBuf = b
  BY <1>2, <1>3, <1>4, <1>5, PointedFacts
<1>7. cursor' = b /\ kms'.curBuf = b /\ UNCHANGED <<scanout, primary, settled>>
  BY <1>4, <1>6 DEF CursorDmabuf, Becomes
<1>8. GuestInv'
  <2>1. primary # NoBuf => primary \in Bufs /\ mem[primary] # NoImage
    BY DEF IInv, TypeOK, GuestInv
  <2>2. QED
    BY <1>2, <1>7, <2>1 DEF IInv, GuestInv
<1>9. QED
  BY <1>2, <1>4, <1>6, <1>7, <1>8, PictureStays DEF IInv, TypeOK

LEMMA CursorGoneKeeps ==
  ASSUME IInv, CursorGone
  PROVE  IInv'
<1>1. Now \in Outcome
  BY NowFacts DEF IInv
<1>2. PICK o \in Unpointed(Now) : Becomes(o)
  BY DEF CursorGone
<1>3. /\ o \in Outcome /\ PictureOf(o) = PictureOf(Now) /\ PointerHeld(o) /\ o.kms.curBuf = NoBuf
      /\ kms'.curBuf = NoBuf /\ cursor' = NoBuf /\ UNCHANGED <<scanout, mem, primary, settled>>
  BY <1>1, <1>2, UnpointedFacts DEF IInv, CursorGone, Becomes
<1>4. GuestInv'
  BY <1>3 DEF IInv, GuestInv
<1>5. QED
  BY <1>2, <1>3, <1>4, PictureStays DEF IInv, TypeOK

LEMMA CursorPositionKeeps ==
  ASSUME IInv, NEW p \in Positions, CursorPosition(p)
  PROVE  IInv'
<1> DEFINE n == [Now EXCEPT !.kms.at = p]
<1>1. /\ Now \in Outcome
      /\ Now.kms = kms /\ Now.dev = dev /\ Now.undone = undone /\ Now.failed = FALSE
  BY NowFacts DEF IInv
<1>2. n \in Outcome /\ PictureOf(n) = PictureOf(Now) /\ n.kms.curBuf = kms.curBuf
      /\ n.dev = Now.dev /\ n.kms.handle = Now.kms.handle /\ n.kms.size = Now.kms.size
      /\ n.undone = Now.undone
  BY <1>1 DEF PictureOf, Outcome, Kms
<1>3. PICK o \in Moved(n) : Becomes(o)
  BY DEF CursorPosition
<1> HIDE DEF n
<1>4. /\ o \in Outcome /\ PictureOf(o) = PictureOf(n) /\ o.kms = n.kms
      /\ o.dev.pointer = n.dev.pointer
      /\ Initialized(n) /\ n.kms.handle # NoImage => o.dev.at = n.kms.at \/ "move" \in o.undone
      /\ o = n \/ (Initialized(n) /\ n.kms.handle # NoImage)
      /\ "hide" \in o.undone <=> "hide" \in n.undone
  <2>1. n \in Outcome
    BY <1>2
  <2>2. QED
    BY <2>1, MovedFacts
<1>5. PointerHeld(o)
  BY <1>1, <1>2, <1>4 DEF IInv, PointerHeld, Initialized
<1>6. kms'.curBuf = kms.curBuf /\ UNCHANGED <<scanout, settled, mem, primary, cursor>>
  BY <1>2, <1>3, <1>4 DEF CursorPosition, Becomes, guest
<1>7. GuestInv'
  BY <1>6 DEF IInv, GuestInv
<1>8. QED
  BY <1>2, <1>3, <1>4, <1>5, <1>6, <1>7, PictureStays DEF IInv, TypeOK

LEMMA ReleaseDmabufKeeps ==
  ASSUME IInv, NEW b \in Bufs, ReleaseDmabuf(b)
  PROVE  IInv'
<1> DEFINE n == [Now EXCEPT !.kms.fbBuf = IF @ = b THEN NoBuf ELSE @]
<1>1. /\ Now \in Outcome
      /\ Now.kms = kms /\ Now.dev = dev /\ Now.undone = undone /\ Now.failed = FALSE
  BY NowFacts DEF IInv
<1>2. /\ b # primary /\ b # cursor /\ b # NoBuf
      /\ mem' = [mem EXCEPT ![b] = NoImage] /\ \E o \in Released(b) : Becomes(o)
      /\ UNCHANGED <<scanout, primary, cursor, settled>>
  BY DEF ReleaseDmabuf
<1>3. kms.curBuf # b
  BY <1>2 DEF IInv, GuestInv
<1>4. Released(b) = {n}
  BY <1>3 DEF Released
<1>5. n \in Outcome /\ n.dev = dev /\ n.undone = undone
      /\ n.kms.fbBuf = (IF kms.fbBuf = b THEN NoBuf ELSE kms.fbBuf)
      /\ n.kms.fd = kms.fd /\ n.kms.size = kms.size /\ n.kms.fb = kms.fb /\ n.kms.old = kms.old
      /\ n.kms.curBuf = kms.curBuf /\ n.kms.handle = kms.handle /\ n.kms.at = kms.at
      /\ n.kms.disabled = kms.disabled
  BY <1>1 DEF Outcome, Kms
<1> HIDE DEF n
<1>6. PictureHeld(n) /\ PointerHeld(n)
  BY <1>1, <1>5 DEF IInv, PictureHeld, PointerHeld, Initialized
<1>7. /\ kms' \in Kms /\ dev' \in Dev /\ undone' \subseteq {"host", "move", "hide"}
      /\ kms' = n.kms /\ dev' = n.dev /\ PictureHeld(Now)' /\ PointerHeld(Now)'
  BY <1>2, <1>4, <1>5, <1>6, BecomesFacts
<1>8. /\ mem' \in [Bufs -> Scanouts \cup Cursors \cup {NoImage}]
      /\ \A x \in Bufs \ {b} : mem'[x] = mem[x]
  BY <1>2 DEF IInv, TypeOK
<1>9. TypeOK' /\ GuestInv'
  BY <1>2, <1>5, <1>7, <1>8 DEF IInv, TypeOK, GuestInv
<1>10. Known(Now)'
  <2>1. SUFFICES ASSUME kms.fb # NoFb, kms'.fbBuf # NoBuf PROVE dev.fbs[kms.fb] = mem'[kms'.fbBuf]
    BY <1>5, <1>7 DEF Known, Now
  <2>2. kms'.fbBuf = kms.fbBuf /\ kms.fbBuf \in Bufs \ {b}
    BY <1>5, <1>7, <2>1 DEF IInv, TypeOK, Kms
  <2>3. dev.fbs[kms.fb] = mem[kms.fbBuf]
    BY <1>1, <2>1, <2>2 DEF IInv, Known
  <2>4. QED
    BY <1>8, <2>2, <2>3
<1>11. FailuresAreSeen' /\ (settled' => scanout' # NoBuf)
  <2>1. settled => scanout \in Bufs \ {b}
    BY <1>2 DEF IInv, TypeOK, GuestInv
  <2>2. QED
    BY <1>2, <1>5, <1>7, <1>8, <2>1 DEF IInv, FailuresAreSeen
<1>12. QED
  BY <1>7, <1>9, <1>10, <1>11 DEF IInv

\* Where an update counts no failure, the display has the size of the scanout when
\* kms_present begins, and shows it when kms_present ends.
LEMMA GlUpdateKeeps ==
  ASSUME IInv, GlUpdate
  PROVE  IInv'
<1>1. /\ Now \in Outcome
      /\ Now.kms = kms /\ Now.dev = dev /\ Now.undone = undone /\ Now.failed = FALSE
      /\ PictureHeld(Now) /\ PointerHeld(Now) /\ Known(Now)
  BY NowFacts DEF IInv
<1>2. /\ scanout \in Bufs /\ scanout # NoBuf /\ mem[scanout] \in Scanouts
      /\ UNCHANGED <<scanout, mem, primary, cursor>>
  BY DEF GlUpdate, IInv, TypeOK, GuestInv, guest
<1>3. PICK r \in Ready(Now, SizeOf[mem[scanout]]) :
        \E o \in Present(r) : Becomes(o) /\ settled' = ~o.failed
  BY DEF GlUpdate
<1>4. PICK o \in Present(r) : Becomes(o) /\ settled' = ~o.failed
  BY <1>3
<1>5. /\ r \in Outcome /\ PictureHeld(r) /\ PointerHeld(r) /\ Known(r)
      /\ r.kms.curBuf \in {kms.curBuf, NoBuf}
      /\ r.kms.size = SizeOf[mem[scanout]] \/ r.failed = TRUE \/ r.kms.disabled = TRUE
  BY <1>1, <1>2, <1>3, ReadyFacts
<1>6. r.kms.curBuf # NoBuf => r.kms.curBuf = cursor /\ mem'[r.kms.curBuf] \in Cursors
  BY <1>2, <1>5 DEF IInv, GuestInv
<1>7. Presents(r, o)
  BY <1>2, <1>4, <1>5, <1>6, PresentFacts
<1>8. /\ o \in Outcome /\ PictureHeld(o) /\ PointerHeld(o) /\ Known(o)
      /\ o.kms.curBuf = r.kms.curBuf
      /\ o.kms.size = r.kms.size /\ o.kms.disabled = r.kms.disabled
      /\ r.failed = TRUE => o.failed = TRUE
      /\ r.kms.size = SizeOf[mem[scanout]] /\ o.failed = FALSE
           => o.kms.fb # NoFb /\ o.dev.fbs[o.kms.fb] = mem[scanout]
  BY <1>7 DEF Presents
<1>9. /\ kms' \in Kms /\ dev' \in Dev /\ undone' \subseteq {"host", "move", "hide"}
      /\ kms' = o.kms /\ dev' = o.dev /\ PictureHeld(Now)' /\ PointerHeld(Now)'
  BY <1>4, <1>8, BecomesFacts
<1>10. settled' \in BOOLEAN /\ (settled' = TRUE => o.failed = FALSE)
  BY <1>4, <1>8 DEF Outcome
<1>11. TypeOK' /\ GuestInv' /\ Known(Now)'
  <2>1. TypeOK'
    BY <1>2, <1>9, <1>10 DEF IInv, TypeOK
  <2>2. GuestInv'
    BY <1>2, <1>5, <1>8, <1>9 DEF IInv, GuestInv
  <2>3. Known(Now)'
    BY <1>2, <1>8, <1>9 DEF Known, Now
  <2>4. QED
    BY <2>1, <2>2, <2>3
<1>12. FailuresAreSeen'
  <2>1. SUFFICES ASSUME settled', ~kms'.disabled
        PROVE  /\ kms'.fb # NoFb /\ dev'.screen = kms'.fb
               /\ dev'.fbs[kms'.fb] = mem[scanout] /\ kms'.size = SizeOf[mem[scanout]]
    BY <1>2 DEF FailuresAreSeen
  <2>2. o.failed = FALSE /\ r.failed # TRUE /\ r.kms.disabled # TRUE
    BY <1>8, <1>9, <1>10, <2>1
  <2>3. r.kms.size = SizeOf[mem[scanout]]
    BY <1>5, <2>2
  <2>4. QED
    BY <1>8, <1>9, <2>2, <2>3 DEF PictureHeld
<1>13. QED
  BY <1>2, <1>9, <1>11, <1>12 DEF IInv

LEMMA QuietKeeps ==
  ASSUME IInv, UNCHANGED vars
  PROVE  IInv'
BY DEF vars, guest, IInv, TypeOK, GuestInv, PictureHeld, PointerHeld, Known, FailuresAreSeen,
       Initialized, Now

LEMMA InitIInv == Init => IInv
<1> SUFFICES ASSUME Init PROVE IInv
  OBVIOUS
<1>1. TypeOK
  <2>1. kms \in Kms
    BY DEF Init, Kms
  <2>2. dev \in Dev
    BY DEF Init, Dev
  <2>3. QED
    BY <2>1, <2>2 DEF Init, TypeOK
<1>2. /\ dev.fbs = [f \in FBs |-> NoImage] /\ dev.screen = Host /\ dev.pointer = NoImage
  BY DEF Init
<1>3. PictureHeld(Now) /\ PointerHeld(Now)
  BY <1>2 DEF Init, PictureHeld, PointerHeld, Initialized, Now
<1>4. QED
  BY <1>1, <1>3 DEF Init, IInv, GuestInv, Known, FailuresAreSeen, Now

LEMMA StepIInv == IInv /\ [Next]_vars => IInv'
BY ScanoutDmabufKeeps, ScanoutDisableKeeps, CursorDmabufKeeps, CursorGoneKeeps, CursorPositionKeeps,
   ReleaseDmabufKeeps, GlUpdateKeeps, QuietKeeps DEF Next

\* The invariant of every behaviour of the display.
THEOREM Invariant == Spec => []IInv
BY InitIInv, StepIInv, PTL DEF Spec

\* Every variable keeps its type: no callback leaves a field of the display or of the
\* device with a value that the code gives it nowhere.
THEOREM TypeCorrect == Spec => []TypeOK
<1>1. IInv => TypeOK
  BY DEF IInv
<1>2. QED
  BY <1>1, Invariant, PTL

\* The kernel holds the framebuffer in kms_fb_id and no other, whatever is refused.
THEOREM FramebuffersAreOwned == Spec => []FramebuffersOwned
<1>1. IInv => FramebuffersOwned
  BY DEF IInv, PictureHeld, FramebuffersOwned, Now
<1>2. QED
  BY <1>1, Invariant, PTL

\* An update that counts no failure leaves the guest's scanout on the monitor,
\* however often pointers to buffers are used again.
THEOREM FailuresAreAlwaysSeen == Spec => []FailuresAreSeen
<1>1. IInv => FailuresAreSeen
  BY DEF IInv
<1>2. QED
  BY <1>1, Invariant, PTL

\* A display without a connector has given the host its picture back, unless the
\* kernel refused to tell what that was or to show it.
THEOREM HostPictureAlwaysReturns == Spec => []HostPictureReturns
<1>1. IInv => HostPictureReturns
  BY DEF IInv, TypeOK, Kms, PictureHeld, HostPictureReturns, Now
<1>2. QED
  BY <1>1, Invariant, PTL

\* A pointer is on the monitor only while the guest has one, where the guest has put
\* it or the kernel refused the last move; the exception is a pointer that the kernel
\* has refused to hide, of which the display does not learn (kms_clear_cursor).
THEOREM PointerAlwaysFollowsGuest == Spec => []PointerFollowsGuest
<1>1. IInv => PointerFollowsGuest
  BY DEF IInv, GuestInv, PictureHeld, PointerHeld, PointerFollowsGuest, Now
<1>2. QED
  BY <1>1, Invariant, PTL
=============================================================================
