------------------------------ MODULE Outputd ------------------------------
(***************************************************************************)
(* gvt-outputd, the daemon that owns the KMS device of the host and shows  *)
(* the desktop of one virtual machine on the monitor                       *)
(* (src/outputd/gvt-outputd.c).                                            *)
(*                                                                         *)
(* The daemon is one thread: it polls a datagram socket and handles one    *)
(* message per iteration, so each handler is one action.  What can go      *)
(* wrong lies in the order in which the messages of several QEMUs and of   *)
(* the control tools arrive, and in the calls that the kernel may refuse   *)
(* half way through a handler.                                             *)
(*                                                                         *)
(* The kernel is modelled from how the daemon uses it: the framebuffer ids *)
(* it has handed out, the one the primary plane scans out, the hardware    *)
(* pointer.  Removing the framebuffer that is on the plane turns the plane *)
(* off, as the kernel does.                                                *)
(***************************************************************************)
EXTENDS Naturals, FiniteSets

CONSTANTS
  Names,        \* source names that the senders use: the ids of the machines
  Slots,        \* the slots of the source table, GVT_OUTPUTD_MAX_SOURCES of them
  Geoms,        \* sizes of a frame, ordered: a larger frame has a larger number
  Positions,    \* positions of a guest's pointer
  FBs,          \* framebuffer ids the kernel hands out
  Faults,       \* the calls that may be refused; {} when nothing ever fails
  NoName, NoFb, NoPos, NoSlot,
  NoFile        \* the status file does not exist

(***************************************************************************)
(* The calls that may be refused: opening the card; the atomic capability; *)
(* finding connector, CRTC, mode, plane and properties; importing the      *)
(* DMABUF; AddFB2; allocating the atomic request; committing it; showing,  *)
(* moving and hiding the pointer; clearing the output; writing the status  *)
(* file.  "message" stands for a malformed datagram or a FRAME without its *)
(* fd.                                                                     *)
(***************************************************************************)
FaultKinds ==
  { "open", "atomic", "output", "import", "addfb", "alloc", "commit",
    "setcursor", "movecursor", "hide", "clear", "status", "message" }

ASSUME OutputdAssumption ==
  /\ Geoms \subseteq Nat \ {0}
  /\ NoName \notin Names /\ NoFile \notin Names \cup {NoName} /\ NoFb \notin FBs
  /\ NoPos \notin Positions /\ NoSlot \notin Slots
  /\ Faults \subseteq FaultKinds

Source == [ name   : Names \cup {NoName},   \* NoName: the slot is free
            geom   : Geoms \cup {0},
            fb     : FBs \cup {NoFb},
            cursor : Positions \cup {NoPos} ]

EmptySource == [name |-> NoName, geom |-> 0, fb |-> NoFb, cursor |-> NoPos]

VARIABLES
  sources,   \* the table of sources
  active,    \* the slot of the selected source, or NoSlot
  card,      \* kms.fd: "closed", or open with ("caps") or without ("nocaps") caps
  ready,     \* kms.ready: connector, CRTC, plane and mode have been chosen
  lit,       \* kms.active: a commit has turned the output on
  cursor,    \* [state: "absent", "hidden", "shown" or, hidden for the daemon but
             \* still on the monitor, "left"; at: where it was moved]
  failed,    \* the counter of failures has left zero
  status,    \* the name of the active source in the status file, or NoFile
  fbs,       \* kernel: the size of each live framebuffer, 0 when the id is free
  screen     \* kernel: the framebuffer that the primary plane scans out

kmsVars  == <<card, ready, lit>>
vars     == <<sources, active, card, ready, lit, cursor, failed, status, fbs, screen>>

\* How the call may end.
Answers(call) == IF call \in Faults THEN {"ok", "refused"} ELSE {"ok"}

----------------------------------------------------------------------------
(***************************************************************************)
(* The table of sources.                                                   *)
(***************************************************************************)
Named(n) == {s \in Slots : sources[s].name = n}

\* A lookup that takes a free slot before it has looked at all names.
SlotsForFreeFirst(n) == IF Named(NoName) # {} THEN Named(NoName) ELSE Named(n)

(***************************************************************************)
(* get_source: the slot of the name, or a free one; none when the table is *)
(* full.  The code takes the first free slot; since nothing depends on     *)
(* which one it is, the model takes any.                                   *)
(***************************************************************************)
SlotsFor(n) == IF Named(n) # {} THEN Named(n) ELSE Named(NoName)

\* The table after get_source: a free slot is wiped and takes the name.
Claimed(n, s) ==
  IF sources[s].name = n THEN sources
  ELSE [sources EXCEPT ![s] = [EmptySource EXCEPT !.name = n]]

ActiveName == IF active = NoSlot THEN NoName ELSE sources[active].name

\* A status that names the slot instead of the source.
WriteStatusOfSlot == status' = active'

\* write_status: the file is left alone when it cannot be written.
WriteStatus ==
  \E written \in Answers("status") :
     status' = IF written = "ok" THEN ActiveName' ELSE status

----------------------------------------------------------------------------
(***************************************************************************)
(* The kernel's framebuffers.                                              *)
(***************************************************************************)
Live(f) == fbs[f] # 0

FreeFbs == {f \in FBs : ~Live(f)}

\* drmModeRmFB on a set of framebuffers; NoFb stands for "none", as id 0 does.
Removed(table, f) == [x \in FBs |-> IF x = f THEN 0 ELSE table[x]]

Added(f, g) == [fbs EXCEPT ![f] = g]

----------------------------------------------------------------------------
(***************************************************************************)
(* The parts the handlers share.  A part that may be refused is the set of *)
(* its outcomes.                                                           *)
(***************************************************************************)
\* An init_kms that goes on when the atomic capability is refused.
BroughtUpWithoutCaps ==
  IF ready THEN { [card |-> card, ready |-> TRUE] }
  ELSE LET opened == IF card # "closed" THEN {card}
                     ELSE { IF caps = "ok" THEN "caps" ELSE "nocaps" : caps \in Answers("atomic") }
       IN  { [card |-> c, ready |-> found = "ok"] : c \in opened, found \in Answers("output") }

\* init_kms: the capabilities are asked for only when the card is opened.
BroughtUp ==
  IF ready THEN { [card |-> card, ready |-> TRUE] }
  ELSE LET opened == IF card # "closed" THEN {card}
                     ELSE { IF open # "ok" THEN "closed" ELSE IF caps = "ok" THEN "caps" ELSE "nocaps" :
                              open \in Answers("open"), caps \in Answers("atomic") }
       IN  { [card |-> c, ready |-> c = "caps" /\ found = "ok"] :
               c \in opened, found \in Answers("output") }

\* A pointer that stays where it was when the source has changed.
MovedNoMove(c, src, up) ==
  IF src.cursor = NoPos \/ ~up THEN { [cursor |-> c, failed |-> FALSE] }
  ELSE { [cursor |-> [state |-> "shown", at |-> IF c.state = "shown" THEN c.at ELSE src.cursor],
          failed |-> FALSE] }

\* move_cursor with ensure_cursor: nothing for a source that never sent a position.
Moved(c, src, up) ==
  IF src.cursor = NoPos \/ ~up THEN { [cursor |-> c, failed |-> FALSE] }
  ELSE { IF c.state # "shown" /\ shown = "refused" THEN [cursor |-> c, failed |-> TRUE]
         ELSE IF moved = "refused" THEN [cursor |-> [c EXCEPT !.state = "shown"], failed |-> TRUE]
         ELSE [cursor |-> [state |-> "shown", at |-> src.cursor], failed |-> FALSE] :
           shown \in Answers("setcursor"), moved \in Answers("movecursor") }

\* hide_cursor: only when KMS is ready and the cursor is visible.  What the kernel
\* answers is ignored: a pointer it does not take off counts as hidden all the same.
Hidden(c) ==
  IF ready /\ c.state = "shown"
  THEN { [c EXCEPT !.state = IF off = "ok" THEN "hidden" ELSE "left"] : off \in Answers("hide") }
  ELSE {c}

NotPresented(counted) == [shown |-> FALSE, failed |-> counted, cursor |-> cursor]

\* A present_source that commits only to turn the output on.
PresentedWhenDark(src, table) ==
  IF src.fb = NoFb \/ lit THEN { NotPresented(FALSE) }
  ELSE { [shown |-> TRUE, failed |-> m.failed, cursor |-> m.cursor] :
           m \in Moved(cursor, src, TRUE) }

(***************************************************************************)
(* present_source of a source whose framebuffer is in the given table.     *)
(* Nothing is shown, and nothing counted, for a source without a           *)
(* framebuffer or when the request cannot be allocated.  The kernel        *)
(* refuses a source rectangle that is larger than the framebuffer.  A      *)
(* source gets a framebuffer only after KMS is ready, so its call of       *)
(* init_kms returns at once (FramebuffersNeedKms below).                   *)
(***************************************************************************)
Presented(src, table) ==
  IF src.fb = NoFb THEN { NotPresented(FALSE) }
  ELSE LET fits == src.geom <= table[src.fb]
       IN  { NotPresented(FALSE) : x \in {"alloc"} \cap Faults }
           \cup { NotPresented(TRUE) : x \in IF fits THEN {"commit"} \cap Faults ELSE {"commit"} }
           \cup { [shown |-> TRUE, failed |-> m.failed, cursor |-> m.cursor] :
                    m \in IF fits THEN Moved(cursor, src, TRUE) ELSE {} }

\* A clear_output that forgets the pointer.
ClearedKeepsCursor(scr) ==
  IF ~ready \/ ~lit THEN { [lit |-> lit, screen |-> scr, cursor |-> cursor, failed |-> FALSE] }
  ELSE { [lit |-> FALSE, screen |-> NoFb, cursor |-> cursor, failed |-> FALSE] }

(***************************************************************************)
(* clear_output, with scr on the plane: the plane is turned off by an      *)
(* atomic commit or, when that is refused, by SetCrtc; when both are       *)
(* refused nothing but the failure counter changes.                        *)
(***************************************************************************)
Cleared(scr) ==
  IF ~ready \/ ~lit
  THEN { [lit |-> lit, screen |-> scr, cursor |-> h, failed |-> FALSE] : h \in Hidden(cursor) }
  ELSE { [lit |-> FALSE, screen |-> NoFb, cursor |-> h, failed |-> FALSE] : h \in Hidden(cursor) }
       \cup { [lit |-> lit, screen |-> scr, cursor |-> cursor, failed |-> TRUE] :
                x \in {"clear"} \cap Faults }

----------------------------------------------------------------------------
(***************************************************************************)
(* handle_frame.  The size that comes with the message is stored, and a    *)
(* first source becomes active, before the DMABUF is imported.             *)
(***************************************************************************)
\* The size is stored for the first frame of a source only.
FramedOnce(n, g, s) ==
  IF Claimed(n, s)[s].geom # 0 THEN Claimed(n, s) ELSE [Claimed(n, s) EXCEPT ![s].geom = g]

Framed(n, g, s) == [Claimed(n, s) EXCEPT ![s].geom = g]

\* A machine that draws takes the monitor over.
FrameActiveTakes(s) == s

FrameActive(s) == IF active = NoSlot THEN s ELSE active

\* The table is full: the frame is dropped.
FrameDropped(n) ==
  /\ SlotsFor(n) = {}
  /\ failed' = TRUE
  /\ UNCHANGED <<sources, active, kmsVars, cursor, status, fbs, screen>>

\* KMS is not there yet (not counted), or the DMABUF cannot be imported.
FrameNotImported(n, g, s) ==
  /\ sources' = Framed(n, g, s)
  /\ active'  = FrameActive(s)
  /\ \E k \in BroughtUp :
       /\ card' = k.card /\ ready' = k.ready
       /\ \/ ~k.ready /\ failed' = failed
          \/ k.ready /\ {"import", "addfb"} \cap Faults # {} /\ failed' = TRUE
  /\ UNCHANGED <<lit, cursor, status, fbs, screen>>

\* A frame of the active source: presented, then the framebuffer it replaces
\* is removed; when it cannot be presented, the new one is removed instead.
FrameOfActive(n, g, s, f) ==
  LET src   == [Framed(n, g, s)[s] EXCEPT !.fb = f]
      table == Added(f, g)
  IN  /\ s = FrameActive(s)
      /\ active' = s
      /\ \E k \in BroughtUp : k.ready /\ card' = k.card /\ ready' = TRUE
      /\ \E p \in Presented(src, table) :
           /\ lit'    = (lit \/ p.shown)
           /\ failed' = (failed \/ p.failed)
           /\ cursor' = p.cursor
           /\ \/ /\ p.shown
                 /\ sources' = [Framed(n, g, s) EXCEPT ![s].fb = f]
                 /\ fbs'     = Removed(table, Claimed(n, s)[s].fb)
                 /\ screen'  = f
              \/ /\ ~p.shown
                 /\ sources' = Framed(n, g, s)
                 /\ UNCHANGED <<fbs, screen>>
      /\ UNCHANGED status

\* The frame replaces the last one of its source, which is never removed.
FrameInBackgroundLeaks(n, g, s, f) ==
  /\ s # FrameActive(s)
  /\ \E k \in BroughtUp : k.ready /\ card' = k.card /\ ready' = TRUE
  /\ sources' = [Framed(n, g, s) EXCEPT ![s].fb = f]
  /\ fbs'     = Added(f, g)
  /\ UNCHANGED <<active, lit, cursor, failed, status, screen>>

\* Every frame goes to the plane, whoever sent it.
FrameInBackgroundPresented(n, g, s, f) ==
  /\ s # FrameActive(s)
  /\ \E k \in BroughtUp : k.ready /\ card' = k.card /\ ready' = TRUE
  /\ sources' = [Framed(n, g, s) EXCEPT ![s].fb = f]
  /\ fbs'     = Removed(Added(f, g), Claimed(n, s)[s].fb)
  /\ screen'  = f /\ lit' = TRUE
  /\ UNCHANGED <<active, cursor, failed, status>>

\* A frame of another source replaces the one that source sent before.
FrameInBackground(n, g, s, f) ==
  LET old == Claimed(n, s)[s].fb
  IN  /\ s # FrameActive(s)
      /\ \E k \in BroughtUp : k.ready /\ card' = k.card /\ ready' = TRUE
      /\ sources' = [Framed(n, g, s) EXCEPT ![s].fb = f]
      /\ fbs'     = Removed(Added(f, g), old)
      /\ screen'  = IF screen = old THEN NoFb ELSE screen
      /\ UNCHANGED <<active, lit, cursor, failed, status>>

HandleFrame(n) ==
  \/ FrameDropped(n)
  \/ \E s \in SlotsFor(n), g \in Geoms :
        \/ FrameNotImported(n, g, s)
        \/ \E f \in FreeFbs : FrameOfActive(n, g, s, f) \/ FrameInBackground(n, g, s, f)

----------------------------------------------------------------------------
(***************************************************************************)
(* The other messages, and the rest of the poll loop.                      *)
(***************************************************************************)
CursorDropped(n) ==
  /\ SlotsFor(n) = {}
  /\ failed' = TRUE
  /\ UNCHANGED <<sources, active, kmsVars, cursor, status, fbs, screen>>

HandleCursorPos(n, p, s) ==
  LET t == [Claimed(n, s) EXCEPT ![s].cursor = p]
  IN  /\ sources' = t
      /\ \E m \in IF s = active THEN Moved(cursor, t[s], ready)
                                ELSE { [cursor |-> cursor, failed |-> FALSE] } :
           cursor' = m.cursor /\ failed' = (failed \/ m.failed)
      /\ UNCHANGED <<active, kmsVars, status, fbs, screen>>

\* A selection that changes the active source without presenting it.
SelectWithoutPresent(n, s) ==
  /\ sources' = Claimed(n, s)
  /\ active'  = s
  /\ \E m \in Moved(cursor, Claimed(n, s)[s], ready) :
       cursor' = m.cursor /\ failed' = (failed \/ m.failed)
  /\ WriteStatus
  /\ UNCHANGED <<kmsVars, fbs, screen>>

\* select_source: a name nobody has sent yet takes a slot and becomes active.
SelectSource(n, s) ==
  LET src == Claimed(n, s)[s]
  IN  /\ sources' = Claimed(n, s)
      /\ active'  = s
      /\ \E p \in Presented(src, fbs) : \E m \in Moved(p.cursor, src, ready) :
           /\ screen' = IF p.shown THEN src.fb ELSE screen
           /\ lit'    = (lit \/ p.shown)
           /\ cursor' = m.cursor
           /\ failed' = (failed \/ p.failed \/ m.failed)
      /\ WriteStatus
      /\ UNCHANGED <<card, ready, fbs>>

\* "select unknown source": reached only when the table is full.
SelectUnknown(n) == SlotsFor(n) = {} /\ UNCHANGED vars

\* remove_source: the framebuffer goes first, then the slot, then the picture.
RemoveSource(s) ==
  LET old == sources[s].fb
      scr == IF screen = old THEN NoFb ELSE screen
  IN  /\ sources' = [sources EXCEPT ![s] = EmptySource]
      /\ fbs'     = Removed(fbs, old)
      /\ \/ /\ s = active
            /\ active' = NoSlot
            /\ \E c \in Cleared(scr) :
                 /\ lit' = c.lit /\ screen' = c.screen /\ cursor' = c.cursor
                 /\ failed' = (failed \/ c.failed)
         \/ /\ s # active
            /\ screen' = scr
            /\ UNCHANGED <<active, lit, cursor, failed>>
      /\ WriteStatus
      /\ UNCHANGED <<card, ready>>

\* recv_one: a malformed datagram, an unknown type, a FRAME without its fd.
BadMessage ==
  /\ "message" \in Faults
  /\ failed' = TRUE
  /\ UNCHANGED <<sources, active, kmsVars, cursor, status, fbs, screen>>

\* A report that has nothing to say while no source is active.
ReportOfActive ==
  /\ active # NoSlot
  /\ UNCHANGED <<sources, active, kmsVars, cursor, failed, fbs, screen>>
  /\ WriteStatus

\* report: the status file is rewritten at least once a second.
Report ==
  /\ UNCHANGED <<sources, active, kmsVars, cursor, failed, fbs, screen>>
  /\ WriteStatus

\* A new process: closing the card freed what the last one created in the kernel.
Forgotten ==
  /\ sources' = [s \in Slots |-> EmptySource]
  /\ active'  = NoSlot
  /\ card' = "closed" /\ ready' = FALSE /\ lit' = FALSE
  /\ cursor'  = [state |-> "absent", at |-> NoPos]
  /\ failed'  = FALSE
  /\ fbs'     = [f \in FBs |-> 0]
  /\ screen'  = NoFb

\* stop-outputd and start-outputd: the script removes the status file.
Restart == Forgotten /\ status' = NoFile

\* The daemon dies by itself, and start-outputd starts it again: the status file
\* stays as the old process left it.
Crash == Forgotten /\ UNCHANGED status

Init ==
  /\ sources = [s \in Slots |-> EmptySource]
  /\ active  = NoSlot
  /\ card = "closed" /\ ready = FALSE /\ lit = FALSE
  /\ cursor  = [state |-> "absent", at |-> NoPos]
  /\ failed  = FALSE
  /\ status  = NoFile
  /\ fbs     = [f \in FBs |-> 0]
  /\ screen  = NoFb

Next ==
  \/ \E n \in Names :
       \/ HandleFrame(n)
       \/ CursorDropped(n)
       \/ \E s \in SlotsFor(n) : \/ \E p \in Positions : HandleCursorPos(n, p, s)
                                \/ SelectSource(n, s)
       \/ SelectUnknown(n)
       \/ \E s \in Named(n) : RemoveSource(s)
  \/ BadMessage
  \/ Report
  \/ Restart
  \/ Crash

Spec == Init /\ [][Next]_vars

----------------------------------------------------------------------------
(***************************************************************************)
(* What the daemon guarantees whatever the kernel refuses.                 *)
(***************************************************************************)
\* The type invariant.
TypeOK ==
  /\ sources \in [Slots -> Source]
  /\ active \in Slots \cup {NoSlot}
  /\ card \in {"closed", "caps", "nocaps"}
  /\ ready \in BOOLEAN /\ lit \in BOOLEAN /\ failed \in BOOLEAN
  /\ cursor \in [state : {"absent", "hidden", "shown", "left"}, at : Positions \cup {NoPos}]
  /\ status \in Names \cup {NoName, NoFile}
  /\ fbs \in [FBs -> Geoms \cup {0}]
  /\ screen \in FBs \cup {NoFb}

\* No source is registered twice, and the active pointer never dangles: it names
\* a slot in use after any series of claims, removals and reuses of slots
\* (get_source, remove_source).
TableSound ==
  /\ \A s, t \in Slots :
       sources[s].name = sources[t].name /\ sources[s].name # NoName => s = t
  /\ active # NoSlot => sources[active].name # NoName

\* The kernel holds exactly the framebuffers that registered sources refer to,
\* each for one source: no path through handle_frame and remove_source leaks one,
\* removes one twice or keeps the id of one that is gone.
FramebufferOwnership ==
  /\ \A s \in Slots : sources[s].fb # NoFb => sources[s].name # NoName /\ Live(sources[s].fb)
  /\ \A f \in FBs : Live(f) => \E s \in Slots : sources[s].fb = f
  /\ \A s, t \in Slots : sources[s].fb = sources[t].fb /\ sources[s].fb # NoFb => s = t

\* A framebuffer, a lit output or a pointer exists only on a device that was
\* chosen with its capabilities; a guest picture is on the plane only while
\* kms.active says so, so clear_output never skips a picture that is there.
FramebuffersNeedKms ==
  /\ ready => card = "caps"
  /\ lit => ready
  /\ cursor.state # "absent" => ready
  /\ \A s \in Slots : sources[s].fb # NoFb => ready
  /\ screen # NoFb => lit /\ Live(screen)

\* When no source is active, nothing of a removed machine stays on the monitor,
\* neither its picture nor its pointer, unless clear_output failed and the failure
\* was counted.  One thing can be left and counted nowhere: a pointer that the
\* kernel refused to hide, which hide_cursor gives up on ("left").
NothingLeftBehind ==
  active = NoSlot /\ (screen # NoFb \/ cursor.state = "shown") => lit /\ failed

\* Whatever is put on the monitor belongs to the source that is active after the
\* step: a machine in the background never takes the monitor over.
OnlyActiveShown ==
  [][screen' # screen /\ screen' # NoFb
       => active' # NoSlot /\ screen' = sources'[active'].fb]_vars

----------------------------------------------------------------------------
(***************************************************************************)
(* What holds as long as the kernel refuses nothing (Faults = {}).         *)
(***************************************************************************)
\* The active source is on the monitor as soon as it has a framebuffer.
ActivePresented ==
  active # NoSlot => (sources[active].fb # NoFb => screen = sources[active].fb)

\* The size kept for a source, from which the plane's source rectangle is built,
\* is the size of the framebuffer that is presented with it.
SizesAgree ==
  \A s \in Slots : sources[s].fb # NoFb => sources[s].geom = fbs[sources[s].fb]

\* A visible pointer is where the active machine last put it, if it ever did.
PointerFollows ==
  active # NoSlot /\ cursor.state = "shown" /\ sources[active].cursor # NoPos
    => cursor.at = sources[active].cursor

\* What a user of the daemon knows beside the name of the active source: the
\* machines that have a picture, and the one whose picture is on the monitor.
WithPicture == {n \in Names : \E s \in Named(n) : sources[s].fb # NoFb}
OnMonitor   == {n \in Names : \E s \in Named(n) : screen # NoFb /\ sources[s].fb = screen}

Board == INSTANCE Switchboard WITH
  Nobody <- NoName, drawn <- WithPicture, selected <- ActiveName, shown <- OnMonitor

\* The daemon is a switchboard: the table and its slots, the two framebuffers that
\* a source has for a moment, the order in which remove_source gives things back
\* and a device that comes up late change nothing of what a user sees.
ImplementsSwitchboard == Board!Spec

----------------------------------------------------------------------------
(***************************************************************************)
(* Liveness.  The poll loop calls report at least once a second.           *)
(***************************************************************************)
FairSpec == Spec /\ WF_vars(Report)

\* The status file, from which the web page and the control service read the
\* active source, catches up with the daemon, whether the last process left it
\* with another name (Crash) or the script removed it (Restart), and although
\* handle_frame makes a first source active without writing it.  Once the active
\* source stays the same the file soon names no other, and it is written again
\* whenever a restart has removed it.
StatusCatchesUp ==
  \A n \in Names \cup {NoName} :
     <>[](ActiveName = n) => <>[](status \in {n, NoFile}) /\ []<>(status = n)

\* A machine that stays selected and keeps drawing gets the monitor, even when
\* it was selected before it had sent its first frame.
SelectedIsShown ==
  \A n \in Names :
     WF_vars(HandleFrame(n)) /\ <>[](ActiveName = n)
       => <>[](screen # NoFb /\ \E s \in Named(n) : screen = sources[s].fb)
=============================================================================
