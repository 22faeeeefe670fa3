----------------------------- MODULE Snapshots -----------------------------
(***************************************************************************)
(* The way of a picture from a guest to the monitor: QEMU's display        *)
(* gvt-stream (src/qemu/gvt-stream.c) copies the guest's scanout into a    *)
(* ring of snapshots and hands each one as a DMABUF to gvt-outputd, whose  *)
(* module is Outputd.                                                      *)
(*                                                                         *)
(* Nobody tells QEMU when a snapshot is no longer on the monitor: the copy *)
(* goes to the next slot of the ring whatever the daemon does, and the     *)
(* daemon scans the memory of the slot out itself.  What is shown is thus  *)
(* right only as long as the daemon keeps up with the ring.                *)
(*                                                                         *)
(* The module follows one machine, Guest, among those the daemon serves.   *)
(* QEMU's display callbacks run on its main loop, one after another;       *)
(* sendmsg may hold one of them up, so a snapshot is drawn and handed over *)
(* in two actions.  The machine's scanout has one size: a slot of another  *)
(* size is new memory, as after a disabled scanout.                        *)
(***************************************************************************)
EXTENDS Naturals, Sequences

CONSTANTS
  Guest,        \* the machine whose pictures are followed
  Names, Slots, FBs, Faults, NoName, NoFb, NoPos, NoSlot, NoFile,   \* of Outputd
  Ring,         \* the number of snapshots, G_N_ELEMENTS(publish_fb)
  QueueMax,     \* datagrams that wait in the daemon's socket
  MaxPicture,   \* bound on the pictures that the guest draws
  StreamFaults, \* of QEMU: "export" of a snapshot, "send" by a call before sendmsg
  Old,          \* memory of a snapshot that the ring has given up
  None          \* no snapshot

ASSUME SnapshotsAssumption ==
  /\ Guest \in Names
  /\ Ring \in Nat \ {0} /\ QueueMax \in Nat \ {0} /\ MaxPicture \in Nat
  /\ StreamFaults \subseteq {"export", "send"}
  /\ Old \notin Nat /\ None \notin Nat \cup {Old}

VARIABLES
  picture,   \* what the guest has on its scanout: the number of the picture
  scanout,   \* gdpy->scanout is set
  content,   \* the picture in each slot of publish_fb
  index,     \* publish_fb_index
  pc,        \* "idle", or "send" with the snapshot of index in sendmsg
  recent,    \* this scanout was published less than 16 ms ago
  queue,     \* the daemon's socket: the snapshots of the machine's frames
  up,        \* the daemon runs
  held,      \* the snapshot that the machine's framebuffer in the daemon is made of
  missed,    \* history: a snapshot was drawn and did not become that framebuffer
  sources, active, card, ready, lit, cursor, failed, status, fbs, screen   \* of Outputd

Daemon == INSTANCE Outputd WITH Geoms <- {1}, Positions <- {}

ASSUME SnapshotsDaemonAssumption ==
  /\ NoName \notin Names /\ NoFile \notin Names \cup {NoName} /\ NoFb \notin FBs /\ NoSlot \notin Slots
  /\ Faults \subseteq Daemon!FaultKinds

guestVars  == <<picture, scanout>>
ringVars   == <<content, index>>
daemonVars == <<sources, active, card, ready, lit, cursor, failed, status, fbs, screen>>
vars == <<picture, scanout, content, index, pc, recent, queue, up, held, missed, daemonVars>>

RingSlots == 0 .. Ring - 1

\* The machine's framebuffer in the daemon, and whether it is on the monitor.
GuestFb == IF Daemon!Named(Guest) = {} THEN NoFb
           ELSE sources[CHOOSE s \in Daemon!Named(Guest) : TRUE].fb

Shown == GuestFb # NoFb /\ screen = GuestFb

----------------------------------------------------------------------------
(***************************************************************************)
(* QEMU.                                                                   *)
(***************************************************************************)
GuestDraws ==
  /\ picture < MaxPicture
  /\ picture' = picture + 1
  /\ UNCHANGED <<scanout, ringVars, pc, recent, queue, up, held, missed, daemonVars>>

\* A ring that uses one slot less, or goes one slot too far.
NextSlotOfTwo == (index + 1) % (Ring - 1)
NextSlotPastEnd == (index + 1) % (Ring + 1)

\* The ring goes on with every copy, whatever has become of the last one.
NextSlot == (index + 1) % Ring

\* publish_snapshot_dmabuf up to glFinish: the picture is copied to the next slot.
\* (When the scanout cannot be imported the function returns before that, and
\* leaves everything as it was.)
Copied ==
  /\ pc = "idle" /\ scanout'
  /\ index'   = NextSlot
  /\ content' = [content EXCEPT ![NextSlot] = picture]
  /\ UNCHANGED <<picture, recent, queue, up, held, daemonVars>>

\* The copy is exported, and goes to sendmsg.
Exported == Copied /\ pc' = "send" /\ UNCHANGED missed

\* It cannot be exported: the throttle is left alone, the slot is used up.
NotExported ==
  /\ "export" \in StreamFaults
  /\ Copied
  /\ missed' = TRUE
  /\ UNCHANGED pc

\* gl_update, on each refresh of the display: throttled to one copy in 16 ms.
GlUpdate == scanout /\ UNCHANGED scanout /\ ~recent /\ Exported

GlUpdateFails == scanout /\ UNCHANGED scanout /\ ~recent /\ NotExported

\* scanout_dmabuf: the guest flips; published whatever the throttle says.
ScanoutDmabuf == scanout' = TRUE /\ (Exported \/ NotExported)

\* sendmsg returns; with a full socket it waits.
SendSnapshot ==
  /\ pc = "send" /\ up /\ Len(queue) < QueueMax
  /\ queue' = Append(queue, index)
  /\ pc' = "idle" /\ recent' = TRUE
  /\ UNCHANGED <<guestVars, ringVars, up, held, missed, daemonVars>>

\* A sender that waits for a daemon that is not there.
SendAgain == pc = "send" /\ ~up /\ UNCHANGED vars

\* No daemon has the socket open, or a call before sendmsg fails: the frame is
\* counted as published all the same.
SendRefused ==
  /\ pc = "send"
  /\ ~up \/ "send" \in StreamFaults
  /\ pc' = "idle" /\ recent' = TRUE
  /\ missed' = (missed \/ up)
  /\ UNCHANGED <<guestVars, ringVars, queue, up, held, daemonVars>>

\* A throttle that the passing of time does not end.
ThrottleEndsOnDisable ==
  /\ recent /\ ~scanout
  /\ recent' = FALSE
  /\ UNCHANGED <<guestVars, ringVars, pc, queue, up, held, missed, daemonVars>>

\* 16 ms pass, or release_dmabuf forgets the scanout that was published last.
ThrottleEnds ==
  /\ recent
  /\ recent' = FALSE
  /\ UNCHANGED <<guestVars, ringVars, pc, queue, up, held, missed, daemonVars>>

\* scanout_disable: the ring lets go of its memory; the daemon's framebuffer and
\* the datagrams in its socket keep theirs.
ScanoutDisable ==
  /\ pc = "idle" /\ scanout
  /\ scanout' = FALSE
  /\ queue'   = [i \in DOMAIN queue |-> Old]
  /\ held'    = IF held = None THEN None ELSE Old
  /\ UNCHANGED <<picture, ringVars, pc, recent, up, missed, daemonVars>>

----------------------------------------------------------------------------
(***************************************************************************)
(* The daemon.                                                             *)
(***************************************************************************)
\* The daemon takes the first datagram out of its socket.
Received == up /\ queue # <<>> /\ queue' = Tail(queue)

\* recv_one of a frame of the machine: it becomes the machine's framebuffer,
\* unless handle_frame gives it up.
HandleSnapshot ==
  LET k == Head(queue)
  IN  /\ Received
      /\ Daemon!HandleFrame(Guest)
      /\ held'   = IF GuestFb' = GuestFb THEN held ELSE k
      /\ missed' = (missed \/ GuestFb' = GuestFb)
      /\ UNCHANGED <<guestVars, ringVars, pc, recent, up>>

\* Other machines are selected, and any machine may be removed.  Frames of the
\* others, which never reach this machine's source, are left to Outputd.
HandleOther ==
  /\ up
  /\ \E n \in Names : \/ \E s \in Daemon!SlotsFor(n) : Daemon!SelectSource(n, s)
                      \/ \E s \in Daemon!Named(n) : Daemon!RemoveSource(s)
  /\ held' = IF GuestFb' = NoFb THEN None ELSE held
  /\ UNCHANGED <<guestVars, ringVars, pc, recent, queue, up, missed>>

\* The daemon is stopped or dies: its framebuffers and what waits in its socket are gone.
DaemonStops ==
  /\ up
  /\ up' = FALSE
  /\ Daemon!Restart \/ Daemon!Crash
  /\ queue' = <<>> /\ held' = None /\ missed' = FALSE
  /\ UNCHANGED <<guestVars, ringVars, pc, recent>>

DaemonStarts ==
  /\ ~up
  /\ up' = TRUE
  /\ UNCHANGED <<guestVars, ringVars, pc, recent, queue, held, missed, daemonVars>>

----------------------------------------------------------------------------
Init ==
  /\ picture = 0 /\ scanout = FALSE
  /\ content = [k \in RingSlots |-> 0] /\ index = 0
  /\ pc = "idle" /\ recent = FALSE
  /\ queue = <<>> /\ up = FALSE /\ held = None /\ missed = FALSE
  /\ Daemon!Init

Next ==
  \/ GuestDraws
  \/ GlUpdate \/ GlUpdateFails \/ ScanoutDmabuf \/ ScanoutDisable
  \/ SendSnapshot \/ SendRefused \/ ThrottleEnds
  \/ HandleSnapshot \/ HandleOther
  \/ DaemonStops \/ DaemonStarts

\* The display is refreshed by a timer, the daemon polls its socket, and the
\* kernel wakes a sender when there is room or the receiver is gone.  (Each action
\* changes the variable that its condition is subscripted with.)
Fairness ==
  /\ WF_recent(ThrottleEnds)
  /\ WF_pc(SendSnapshot \/ SendRefused)
  /\ WF_queue(Received)

Spec == Init /\ [][Next]_vars /\ Fairness

----------------------------------------------------------------------------
\* The type invariant.
TypeOK ==
  /\ picture \in 0 .. MaxPicture /\ scanout \in BOOLEAN
  /\ content \in [RingSlots -> 0 .. MaxPicture] /\ index \in RingSlots
  /\ pc \in {"idle", "send"} /\ recent \in BOOLEAN
  /\ queue \in Seq(RingSlots \cup {Old}) /\ Len(queue) <= QueueMax
  /\ up \in BOOLEAN /\ missed \in BOOLEAN
  /\ held \in RingSlots \cup {Old, None}
  /\ held = None <=> GuestFb = NoFb
  /\ Daemon!TypeOK

\* The snapshots on their way, the one the daemon holds first.
OnTheWay == (IF held = None THEN <<>> ELSE <<held>>)
              \o queue \o (IF pc = "send" THEN <<index>> ELSE <<>>)

\* As long as fewer snapshots wait than the ring has slots, and each one drawn has
\* arrived, QEMU does not draw into the one the daemon shows or into one that
\* waits, and the monitor goes through the guest's pictures in the order in which
\* they were drawn (publish_fb_index, recv_one).  A sender held up in sendmsg has
\* drawn already, so the snapshot it holds counts as one that waits.
InOrder ==
  Len(queue) + (IF pc = "send" THEN 1 ELSE 0) < Ring /\ ~missed
    => \A i, j \in DOMAIN OnTheWay :
          i < j /\ OnTheWay[i] # Old
            => OnTheWay[i] # OnTheWay[j] /\ content[OnTheWay[i]] <= content[OnTheWay[j]]

\* A guest that has stopped drawing while it is the selected one ends up with its
\* last picture on the monitor, and it stays there: the throttle of 16 ms, a full
\* socket, a daemon that was restarted or a scanout that was off never leave an
\* earlier one, unless copies cannot be exported, or sent, for ever.
LastPictureShown ==
  WF_index(GlUpdate) /\ SF_pc(SendSnapshot) =>
    (<>[][UNCHANGED picture]_picture /\ <>[](scanout /\ Daemon!ActiveName = Guest)
       => <>[](Shown /\ held # Old /\ content[held] = picture))

\* The daemon cannot hold a machine up for ever: sendmsg, which runs on the main
\* loop of QEMU, comes back, also when the daemon stops while its socket is full.
SenderGoesOn == pc = "send" ~> pc = "idle"
=============================================================================
