------------------------------ MODULE StreamKms ------------------------------
(***************************************************************************)
(* The direct output of QEMU's display gvt-stream: without gvt-outputd, a  *)
(* single machine takes a connector of the host for itself and puts its    *)
(* scanout and its pointer on it (gvt_stream_kms_* in                      *)
(* src/qemu/gvt-stream.c).                                                 *)
(*                                                                         *)
(* QEMU calls the display back on its main loop, one callback after        *)
(* another, so each callback is one action.  Most calls of the kernel in   *)
(* it may be refused, and the display goes on.  The parts that callbacks   *)
(* share are written as outcomes: records of the display, the device and   *)
(* the failures that were counted on the way, or sets of them when a part  *)
(* may end in several ways.                                                *)
(*                                                                         *)
(* Buffers are known to the display as pointers that QEMU's vfio display   *)
(* owns: it allocates one for memory that the guest shows, frees it when   *)
(* the guest has gone on to other memory, and the allocator may hand the   *)
(* same pointer out again for other memory.                                *)
(*                                                                         *)
(* A page flip that is not confirmed within 100 ms counts as done, as the  *)
(* kernel has taken the new framebuffer by then.  Its event, read later,   *)
(* writes through a pointer into a stack frame that is gone; what that may *)
(* destroy is outside of this model.                                       *)
(***************************************************************************)
EXTENDS Naturals

CONSTANTS
  Bufs,       \* values of a QemuDmaBuf pointer
  Scanouts,   \* memory of the guest that holds a picture
  Cursors,    \* memory of the guest that holds the image of a pointer
  SizeOf,     \* the size of each scanout
  Modes,      \* the sizes that the connector has a mode for
  FBs,        \* framebuffer ids of the kernel
  Positions,  \* of the pointer
  Origin,     \* the position that a display starts with
  Atomic,     \* kms_atomic: GVT_STREAM_KMS_ATOMIC, on unless it is set to 0
  Faults,     \* the calls that may be refused
  Host, Off,  \* what else the CRTC may show: the host's own picture, nothing
  NoBuf, NoFb, NoImage, NoCrtc

(***************************************************************************)
(* "output": resources, connector, CRTC; "getcrtc": reading the CRTC;      *)
(* "atomic": capabilities, primary plane, properties and the mode's blob;  *)
(* "import": metadata and handle of a scanout; "alloc" and "property": of  *)
(* the atomic request; "event": the page flip is confirmed in time;        *)
(* "restore": the SetCrtc of kms_restore; "image": metadata, handle and    *)
(* SetCursor2 of a pointer; "hide": the SetCursor that hides it, of which    *)
(* nobody looks at the answer.                                             *)
(***************************************************************************)
FaultKinds ==
  { "open", "output", "getcrtc", "atomic", "import", "addfb", "alloc", "property",
    "commit", "flip", "event", "setcrtc", "restore", "image", "move", "hide" }

ASSUME StreamKmsAssumption ==
  /\ SizeOf \in [Scanouts -> Nat \ {0}] /\ Modes \subseteq Nat \ {0}
  /\ Atomic \in BOOLEAN /\ Faults \subseteq FaultKinds
  /\ NoBuf \notin Bufs /\ NoFb \notin FBs /\ Origin \in Positions
  /\ NoImage \notin Scanouts \cup Cursors /\ Scanouts \cap Cursors = {}
  /\ Host # Off /\ NoCrtc \notin {Host, Off} /\ {Host, Off} \cap FBs = {}

VARIABLES
  scanout,   \* gdpy->scanout
  kms,       \* the other fields of the display, see Kms
  dev,       \* the kernel: framebuffers of the device file, CRTC, pointer
  mem,       \* QEMU: the memory behind each pointer, NoImage when it is free
  primary,   \* QEMU: the buffer that the guest shows
  cursor,    \* QEMU: the buffer of the guest's pointer
  undone,    \* history: "host", its picture could not be read or put back; "move", the
             \*          last move of the pointer was refused; "hide", a pointer that
             \*          the kernel has refused to hide is still on the monitor
  settled    \* history: kms_present ran for this scanout and counted no failure

guest == <<mem, primary, cursor>>
vars  == <<scanout, kms, dev, undone, settled, guest>>

Kms == [ fd       : BOOLEAN,                              \* the device is open
         size     : {SizeOf[i] : i \in Scanouts} \cup {0}, \* kms_width and kms_height; 0: not initialized
         ready    : BOOLEAN,                              \* kms_atomic_ready
         active   : BOOLEAN,                              \* kms_atomic_active
         fb       : FBs \cup {NoFb},
         fbBuf    : Bufs \cup {NoBuf},                    \* kms_fb_dmabuf
         old      : {Host, Off, NoCrtc},                  \* kms_old_crtc
         curBuf   : Bufs \cup {NoBuf},                    \* kms_cursor_dmabuf
         handle   : Cursors \cup {NoImage},               \* kms_cursor_handle
         at       : Positions,                           \* kms_cursor_pos_x and _y
         disabled : BOOLEAN ]

Dev == [ fbs     : [FBs -> Scanouts \cup {NoImage}],
         screen  : FBs \cup {Host, Off},
         pointer : Cursors \cup {NoImage},
         at      : Positions ]

\* Where a callback starts from, and where it ends.
Now == [kms |-> kms, dev |-> dev, undone |-> undone, failed |-> FALSE]

Becomes(o) == kms' = o.kms /\ dev' = o.dev /\ undone' = o.undone

\* kms_fail_count is raised.
Failed(o) == [o EXCEPT !.failed = TRUE]

Refused(call, o) == IF call \in Faults THEN {o} ELSE {}

Initialized(o) == o.kms.size # 0

----------------------------------------------------------------------------
(***************************************************************************)
(* The pointer.                                                            *)
(***************************************************************************)
\* kms_move_cursor.
Moved(o) ==
  IF ~Initialized(o) \/ o.kms.handle = NoImage THEN {o}
  ELSE {[o EXCEPT !.dev.at = o.kms.at, !.undone = @ \ {"move"}]}
       \cup Refused("move", Failed([o EXCEPT !.undone = @ \cup {"move"}]))

\* The image of the guest's pointer is given to the kernel, and takes the place of one
\* that could not be hidden.
Imaged(o) ==
  [o EXCEPT !.kms.handle = mem'[o.kms.curBuf], !.dev.pointer = mem'[o.kms.curBuf],
            !.undone = @ \ {"hide"}]

\* An image that is shown where the last one was.
PointedWithoutMove(o) ==
  IF ~Initialized(o) \/ o.kms.curBuf = NoBuf THEN {o}
  ELSE IF o.kms.handle # NoImage THEN Moved(o)
  ELSE {Imaged(o)} \cup Refused("image", Failed(o))

(***************************************************************************)
(* kms_update_cursor.  kms_cursor_dmabuf is compared with a copy of itself *)
(* (1483, 1493), so as long as there is a handle the pointer is only moved *)
(* and keeps its image.                                                    *)
(***************************************************************************)
Pointed(o) ==
  IF ~Initialized(o) \/ o.kms.curBuf = NoBuf THEN {o}
  ELSE IF o.kms.handle # NoImage THEN Moved(o)
  ELSE Moved(Imaged(o)) \cup Refused("image", Failed(o))

(***************************************************************************)
(* kms_clear_cursor.  The display forgets the pointer, whatever the kernel *)
(* says, and counts no failure.                                            *)
(***************************************************************************)
Unpointed(o) ==
  LET u == [o EXCEPT !.kms.handle = NoImage, !.kms.curBuf = NoBuf]
  IN  IF ~o.kms.fd \/ o.dev.pointer = NoImage THEN {u}
      ELSE {[u EXCEPT !.dev.pointer = NoImage, !.undone = @ \ {"hide"}]}
           \cup Refused("hide", [u EXCEPT !.undone = @ \cup {"hide"}])

----------------------------------------------------------------------------
(***************************************************************************)
(* Taking the connector and giving it back.                                *)
(***************************************************************************)
\* drmModeRmFB: a CRTC that shows the framebuffer is turned off.
WithoutFb(o, f) ==
  [o EXCEPT !.dev.fbs = [x \in FBs |-> IF x = f THEN NoImage ELSE @[x]],
            !.dev.screen = IF @ = f THEN Off ELSE @]

\* A restore that is left to the kernel.
NotRestored(o) == {o}

\* kms_restore: the CRTC as it was before, if it could be read.
Restored(o) ==
  IF ~o.kms.fd \/ o.kms.old = NoCrtc THEN {o}
  ELSE {[o EXCEPT !.dev.screen = o.kms.old]} \cup Refused("restore", [o EXCEPT !.undone = @ \cup {"host"}])

(***************************************************************************)
(* kms_close: hides the pointer, restores the CRTC, removes the            *)
(* framebuffer and closes the device, with which the kernel removes the    *)
(* framebuffers that are left.  A pointer that is left stays.              *)
(***************************************************************************)
Closed(o) ==
  { [r EXCEPT !.kms = [r.kms EXCEPT !.fd = FALSE, !.size = 0, !.ready = FALSE, !.active = FALSE,
                                    !.fb = NoFb, !.fbBuf = NoBuf, !.old = NoCrtc],
              !.dev.fbs = [f \in FBs |-> NoImage],
              !.dev.screen = IF @ \in FBs THEN Off ELSE @]
    : r \in UNION {Restored(u) : u \in Unpointed(o)} }

\* kms_find_connector, kms_pick_mode, kms_pick_crtc, kms_crtc_index: is there a
\* CRTC for the connector, and a mode of exactly this size?
OutputFor(g) == IF g \in Modes THEN {TRUE} \cup Refused("output", FALSE) ELSE {FALSE}

\* kms_setup_atomic: capabilities, primary plane, properties and the mode's blob.
AtomicSetUp == IF Atomic THEN {TRUE} \cup Refused("atomic", FALSE) ELSE {FALSE}

\* drmModeGetCrtc: what the CRTC shows is read.
CrtcRead == {TRUE} \cup Refused("getcrtc", FALSE)

\* kms_init has found an output.
Taken(o, g, atomic, read) ==
  [o EXCEPT !.kms = [@ EXCEPT !.fd = TRUE, !.size = g, !.ready = atomic,
                              !.old = IF read THEN o.dev.screen ELSE NoCrtc],
            !.undone = IF read THEN @ ELSE @ \cup {"host"}]

\* kms_init after kms_close.  A device that cannot be opened is given up for good;
\* when there is no output it is closed, and tried again at the next update.
Opened(o, g) ==
  Refused("open", Failed([o EXCEPT !.kms.disabled = TRUE])) \cup
  { IF output THEN Taken(o, g, atomic, read) ELSE Failed(o) :
    output \in OutputFor(g), atomic \in AtomicSetUp, read \in CrtcRead }

\* kms_init.  Its last step, kms_update_cursor, does nothing: kms_close, its first
\* one, has forgotten the pointer.
Ready(o, g) ==
  IF o.kms.disabled \/ o.kms.size = g THEN {o}
  ELSE UNION { Opened(c, g) : c \in Closed(o) }

----------------------------------------------------------------------------
(***************************************************************************)
(* Showing a framebuffer.                                                  *)
(***************************************************************************)
Shown(o, f) == [o EXCEPT !.dev.screen = f]

(***************************************************************************)
(* kms_atomic_commit.  The first one turns the CRTC on; a refused commit   *)
(* is the last one that is tried.                                          *)
(***************************************************************************)
Committed(o, f) ==
  IF ~o.kms.ready THEN {o}
  ELSE Refused("alloc", Failed(o)) \cup Refused("property", o)
       \cup Refused("commit", Failed([o EXCEPT !.kms.ready = FALSE]))
       \cup (IF o.kms.active /\ o.dev.screen = Off THEN {Failed([o EXCEPT !.kms.ready = FALSE])}
             ELSE {[Shown(o, f) EXCEPT !.kms.active = TRUE]})

\* drmModePageFlip and kms_wait_page_flip, when there is a framebuffer to flip from.
Flipped(o, f) ==
  IF o.dev.screen = f \/ o.kms.fb = NoFb THEN {o}
  ELSE Refused("flip", o) \cup
       (IF o.dev.screen = Off THEN {o}
        ELSE {Shown(o, f)} \cup Refused("event", Failed(Shown(o, f))))

\* A SetCrtc whose refusal leaves the new framebuffer behind.
SetCrtcKeepsFb(o, f) ==
  IF o.dev.screen = f THEN {o}
  ELSE {Shown(o, f)} \cup Refused("setcrtc", Failed(o))

\* drmModeSetCrtc, when the flip was not even queued.
SetCrtc(o, f) ==
  IF o.dev.screen = f THEN {o}
  ELSE {Shown(o, f)} \cup Refused("setcrtc", Failed(WithoutFb(o, f)))

\* The end of kms_present: the new framebuffer takes the place of the old one.
Kept(o, f) ==
  IF o.dev.screen # f THEN {o}
  ELSE Pointed([WithoutFb(o, o.kms.fb) EXCEPT !.kms.fb = f, !.kms.fbBuf = scanout])

\* Import and AddFB2 of the scanout.
Added(o, f) == [o EXCEPT !.dev.fbs[f] = mem[scanout]]

(***************************************************************************)
(* kms_present, which gl_update calls on each refresh of the display.      *)
(***************************************************************************)
Present(o) ==
  IF o.kms.size # SizeOf[mem[scanout]] \/ (o.kms.fbBuf = scanout /\ o.kms.fb # NoFb) THEN {o}
  ELSE Refused("import", Failed(o)) \cup Refused("addfb", Failed(o))
       \cup UNION { UNION { UNION { UNION { Kept(s, f) : s \in SetCrtc(p, f) }
                                    : p \in Flipped(c, f) }
                            : c \in Committed(Added(o, f), f) }
                    : f \in {x \in FBs : o.dev.fbs[x] = NoImage} }

----------------------------------------------------------------------------
(***************************************************************************)
(* The callbacks.                                                          *)
(***************************************************************************)
\* QEMU's vfio display finds memory of a kind behind a pointer that it has, or
\* allocates a pointer for it.
Found(b, kind) ==
  \/ mem[b] \in kind /\ UNCHANGED mem
  \/ mem[b] = NoImage /\ \E i \in kind : mem' = [mem EXCEPT ![b] = i]

\* scanout_dmabuf: the guest shows other memory.
ScanoutDmabuf(b) ==
  /\ b # primary /\ Found(b, Scanouts)
  /\ primary' = b /\ scanout' = b /\ settled' = FALSE
  /\ UNCHANGED <<kms, dev, undone, cursor>>

\* scanout_disable: the machine is reset, and QEMU frees all its buffers.
ScanoutDisable ==
  /\ primary # NoBuf
  /\ scanout' = NoBuf /\ primary' = NoBuf /\ cursor' = NoBuf /\ settled' = FALSE
  /\ \E o \in Closed(Now) : Becomes(o)
  /\ UNCHANGED mem

\* cursor_dmabuf: the guest has another pointer, or another hot spot.
CursorDmabuf(b) ==
  /\ primary # NoBuf /\ Found(b, Cursors)
  /\ cursor' = b
  /\ \E o \in Pointed([Now EXCEPT !.kms.curBuf = b]) : Becomes(o)
  /\ UNCHANGED <<scanout, primary, settled>>

\* cursor_dmabuf without a buffer: the guest hides its pointer.
CursorGone ==
  /\ cursor # NoBuf
  /\ cursor' = NoBuf
  /\ \E o \in Unpointed(Now) : Becomes(o)
  /\ UNCHANGED <<scanout, mem, primary, settled>>

\* cursor_position.
CursorPosition(p) ==
  /\ cursor # NoBuf
  /\ \E o \in Moved([Now EXCEPT !.kms.at = p]) : Becomes(o)
  /\ UNCHANGED <<scanout, settled, guest>>

\* A release that keeps the framebuffer's buffer in mind.
ReleasedCursorOnly(b) == IF kms.curBuf = b THEN Unpointed(Now) ELSE {Now}

\* release_dmabuf: what the display remembers by its pointer is forgotten.
Released(b) ==
  { [o EXCEPT !.kms.fbBuf = IF @ = b THEN NoBuf ELSE @]
    : o \in IF kms.curBuf = b THEN Unpointed(Now) ELSE {Now} }

\* QEMU frees a buffer that the guest does not show any more.
ReleaseDmabuf(b) ==
  /\ mem[b] # NoImage /\ b \notin {primary, cursor}
  /\ mem' = [mem EXCEPT ![b] = NoImage]
  /\ \E o \in Released(b) : Becomes(o)
  /\ UNCHANGED <<scanout, primary, cursor, settled>>

\* gl_update: the display is refreshed.
GlUpdate ==
  /\ primary # NoBuf
  /\ UNCHANGED <<scanout, guest>>
  /\ \E r \in Ready(Now, SizeOf[mem[scanout]]) : \E o \in Present(r) :
       Becomes(o) /\ settled' = ~o.failed

Init ==
  /\ scanout = NoBuf /\ primary = NoBuf /\ cursor = NoBuf
  /\ mem = [b \in Bufs |-> NoImage]
  /\ kms = [ fd |-> FALSE, size |-> 0, ready |-> FALSE, active |-> FALSE, fb |-> NoFb,
             fbBuf |-> NoBuf, old |-> NoCrtc, curBuf |-> NoBuf, handle |-> NoImage,
             at |-> Origin, disabled |-> FALSE ]
  /\ dev \in [ fbs : {[f \in FBs |-> NoImage]}, screen : {Host}, pointer : {NoImage}, at : Positions ]
  /\ undone = {} /\ settled = FALSE

Next ==
  \/ \E b \in Bufs : ScanoutDmabuf(b) \/ CursorDmabuf(b) \/ ReleaseDmabuf(b)
  \/ \E p \in Positions : CursorPosition(p)
  \/ ScanoutDisable \/ CursorGone \/ GlUpdate

Spec == Init /\ [][Next]_vars

----------------------------------------------------------------------------
\* The type invariant.
TypeOK ==
  /\ kms \in Kms /\ dev \in Dev
  /\ mem \in [Bufs -> Scanouts \cup Cursors \cup {NoImage}]
  /\ {scanout, primary, cursor} \subseteq Bufs \cup {NoBuf}
  /\ undone \subseteq {"host", "move", "hide"} /\ settled \in BOOLEAN

\* The kernel holds the framebuffer in kms_fb_id and no other, on whichever path a
\* present, a change of size or a reset ended, and that one is on the monitor
\* (kms_present, kms_close).
FramebuffersOwned ==
  /\ \A f \in FBs : dev.fbs[f] # NoImage <=> f = kms.fb
  /\ kms.fb # NoFb => dev.screen = kms.fb

\* An update of the display that counts no failure leaves the guest's scanout on the
\* monitor, in its size, until the guest shows other memory.  kms_present compares
\* pointers to see whether there is anything to do, and pointers are used again.
\* Nothing is said of a display that has given KMS up (kms_disabled), whose updates
\* show nothing and count nothing.
FailuresAreSeen ==
  settled /\ ~kms.disabled
    => /\ kms.fb # NoFb /\ dev.screen = kms.fb
       /\ dev.fbs[kms.fb] = mem[scanout] /\ kms.size = SizeOf[mem[scanout]]

\* A display that holds no connector has given the monitor back to the host with the
\* picture it had, also after a change of size half way (kms_restore), unless the
\* kernel refused to tell what that was or to show it.
HostPictureReturns == ~kms.fd /\ "host" \notin undone => dev.screen = Host

\* The pointer is on the monitor only while the guest has one, unless the kernel has
\* refused to hide it, which the display does not learn of; and the guest's pointer is
\* where the guest has put it unless the kernel refused the last move
\* (kms_update_cursor, kms_clear_cursor).
PointerFollowsGuest ==
  dev.pointer # NoImage /\ "hide" \notin undone
    => cursor # NoBuf /\ kms.fd /\ ("move" \notin undone => dev.at = kms.at)
=============================================================================
