--------------------------- MODULE SnapshotsProofs ---------------------------
(***************************************************************************)
(* Theorems about Snapshots for every size of the ring and of the socket,  *)
(* number of pictures and set of calls that may be refused.                *)
(*                                                                         *)
(* That the monitor goes through the pictures in order is inductive only   *)
(* with three facts.  RingInv: going back from the slot drawn last, the    *)
(* ring holds ever earlier pictures.  SlotsInv: the snapshots on their way *)
(* are the slots one gets going back, as far as there are slots, and those *)
(* of an earlier scanout come first.  DownInv: a daemon that does not run  *)
(* has nothing.                                                            *)
(*                                                                         *)
(* The daemon's part is that of OutputdProofs, instantiated here: every    *)
(* step of this module is one of the daemon, or leaves it alone.           *)
(***************************************************************************)
EXTENDS Snapshots, SequenceTheorems, TLAPS

DaemonProofs == INSTANCE OutputdProofs WITH Geoms <- {1}, Positions <- {}

USE SnapshotsAssumption, SnapshotsDaemonAssumption

\* The slot drawn a copies before the last one, for less copies than slots.
Back(a) == IF a <= index THEN index - a ELSE index + Ring - a

\* The snapshot in sendmsg counts as one that waits.
Waiting == Len(queue) + (IF pc = "send" THEN 1 ELSE 0)

RingInv ==
  /\ \A k \in RingSlots : content[k] <= picture
  /\ \A a, b \in RingSlots : a <= b => content[Back(b)] <= content[Back(a)]

SlotsInv ==
  ~missed =>
    /\ \A i \in DOMAIN queue :
         queue[i] # Old =>
           /\ Waiting - i < Ring => queue[i] = Back(Waiting - i)
           /\ \A j \in DOMAIN queue : i < j => queue[j] # Old
    /\ held \notin {Old, None} =>
         /\ Waiting < Ring => held = Back(Waiting)
         /\ \A j \in DOMAIN queue : queue[j] # Old

DownInv == ~up => queue = <<>> /\ held = None

IInv == TypeOK /\ DaemonProofs!IInv /\ RingInv /\ SlotsInv /\ DownInv

----------------------------------------------------------------------------
(***************************************************************************)
(* The daemon.                                                             *)
(***************************************************************************)
LEMMA SameSlots ==
  ASSUME NEW n
  PROVE  /\ Daemon!Named(n) = DaemonProofs!Named(n)
         /\ Daemon!SlotsFor(n) = DaemonProofs!SlotsFor(n)
         /\ Daemon!FreeFbs = DaemonProofs!FreeFbs
BY DEF Daemon!SlotsFor, DaemonProofs!SlotsFor, Daemon!Named, DaemonProofs!Named,
       Daemon!FreeFbs, DaemonProofs!FreeFbs, Daemon!Live, DaemonProofs!Live

LEMMA SameOutcomes ==
  /\ Daemon!BroughtUp = DaemonProofs!BroughtUp
  /\ \A src, table : Daemon!Presented(src, table) = DaemonProofs!Presented(src, table)
  /\ \A c, src, able : Daemon!Moved(c, src, able) = DaemonProofs!Moved(c, src, able)
<1>1. Daemon!BroughtUp = DaemonProofs!BroughtUp
  BY DEF Daemon!BroughtUp, DaemonProofs!BroughtUp, Daemon!Answers,
         DaemonProofs!Answers
<1>2. ASSUME NEW c, NEW src, NEW able
      PROVE  Daemon!Moved(c, src, able) = DaemonProofs!Moved(c, src, able)
  BY DEF Daemon!Moved, DaemonProofs!Moved, Daemon!Answers, DaemonProofs!Answers
<1>3. ASSUME NEW src, NEW table
      PROVE  Daemon!Presented(src, table) = DaemonProofs!Presented(src, table)
  BY <1>2 DEF Daemon!Presented, DaemonProofs!Presented, Daemon!NotPresented,
              DaemonProofs!NotPresented
<1>4. QED
  BY <1>1, <1>2, <1>3

LEMMA SameTables ==
  ASSUME NEW n, NEW g, NEW s
  PROVE  /\ Daemon!Claimed(n, s) = DaemonProofs!Claimed(n, s)
         /\ Daemon!Framed(n, g, s) = DaemonProofs!Framed(n, g, s)
         /\ Daemon!FrameActive(s) = DaemonProofs!FrameActive(s)
BY DEF Daemon!Claimed, DaemonProofs!Claimed, Daemon!Framed, DaemonProofs!Framed,
       Daemon!EmptySource, DaemonProofs!EmptySource, Daemon!FrameActive,
       DaemonProofs!FrameActive

LEMMA SameFrame ==
  ASSUME Daemon!HandleFrame(Guest)
  PROVE  DaemonProofs!HandleFrame(Guest)
<1>1. Daemon!FrameDropped(Guest) => DaemonProofs!FrameDropped(Guest)
  BY SameSlots DEF Daemon!FrameDropped, DaemonProofs!FrameDropped, Daemon!kmsVars,
                   DaemonProofs!kmsVars
<1>2. ASSUME NEW s, NEW g, Daemon!FrameNotImported(Guest, g, s)
      PROVE  DaemonProofs!FrameNotImported(Guest, g, s)
  BY <1>2, SameTables, SameOutcomes DEF Daemon!FrameNotImported, DaemonProofs!FrameNotImported
<1>3. ASSUME NEW s, NEW g, NEW f, Daemon!FrameInBackground(Guest, g, s, f)
      PROVE  DaemonProofs!FrameInBackground(Guest, g, s, f)
  <2>1. /\ Daemon!Claimed(Guest, s) = DaemonProofs!Claimed(Guest, s)
        /\ Daemon!Framed(Guest, g, s) = DaemonProofs!Framed(Guest, g, s)
        /\ Daemon!FrameActive(s) = DaemonProofs!FrameActive(s)
        /\ Daemon!BroughtUp = DaemonProofs!BroughtUp
    BY SameTables, SameOutcomes
  <2>2. ASSUME NEW old
        PROVE  Daemon!Removed(Daemon!Added(f, g), old)
                 = DaemonProofs!Removed(DaemonProofs!Added(f, g), old)
    BY DEF Daemon!Removed, DaemonProofs!Removed, Daemon!Added, DaemonProofs!Added
  <2>3. QED
    BY <1>3, <2>1, <2>2 DEF Daemon!FrameInBackground, DaemonProofs!FrameInBackground
<1>4. ASSUME NEW s, NEW g, NEW f, Daemon!FrameOfActive(Guest, g, s, f)
      PROVE  DaemonProofs!FrameOfActive(Guest, g, s, f)
  BY <1>4, SameTables, SameOutcomes
     DEF Daemon!FrameOfActive, DaemonProofs!FrameOfActive, Daemon!Removed,
         DaemonProofs!Removed, Daemon!Added, DaemonProofs!Added
<1>5. QED
  BY <1>1, <1>2, <1>3, <1>4, SameSlots DEF Daemon!HandleFrame, DaemonProofs!HandleFrame

LEMMA SameSelection ==
  ASSUME NEW n \in Names, NEW s, Daemon!SelectSource(n, s)
  PROVE  DaemonProofs!SelectSource(n, s)
<1>1. Daemon!Claimed(n, s) = DaemonProofs!Claimed(n, s)
  BY SameTables
<1>2. Daemon!WriteStatus <=> DaemonProofs!WriteStatus
  BY DEF Daemon!WriteStatus, DaemonProofs!WriteStatus, Daemon!ActiveName,
         DaemonProofs!ActiveName, Daemon!Answers, DaemonProofs!Answers
<1>3. QED
  BY <1>1, <1>2, SameOutcomes DEF Daemon!SelectSource, DaemonProofs!SelectSource

LEMMA SameRemoval ==
  ASSUME NEW s, Daemon!RemoveSource(s)
  PROVE  DaemonProofs!RemoveSource(s)
BY DEF Daemon!RemoveSource, DaemonProofs!RemoveSource, Daemon!EmptySource,
         DaemonProofs!EmptySource, Daemon!Removed, DaemonProofs!Removed,
         Daemon!Answers, DaemonProofs!Answers, Daemon!Cleared, DaemonProofs!Cleared,
         Daemon!Hidden, DaemonProofs!Hidden, Daemon!ActiveName,
         DaemonProofs!ActiveName, Daemon!WriteStatus, DaemonProofs!WriteStatus

LEMMA SameRestart ==
  /\ Daemon!Restart => DaemonProofs!Restart
  /\ Daemon!Crash => DaemonProofs!Crash
BY DEF Daemon!Restart, DaemonProofs!Restart, Daemon!Crash, DaemonProofs!Crash,
         Daemon!Forgotten, DaemonProofs!Forgotten, Daemon!EmptySource,
         DaemonProofs!EmptySource

LEMMA SameTypes ==
  /\ Daemon!TypeOK <=> DaemonProofs!TypeOK
  /\ Daemon!Init <=> DaemonProofs!Init
BY DEF Daemon!TypeOK, DaemonProofs!TypeOK, Daemon!Init, DaemonProofs!Init,
         Daemon!Source, DaemonProofs!Source, Daemon!EmptySource,
         DaemonProofs!EmptySource

\* What the instance of OutputdProofs assumes.
LEMMA DaemonAssumed ==
  {1} \subseteq Nat \ {0} /\ NoPos \notin {} /\ Faults \subseteq DaemonProofs!FaultKinds
BY DEF Daemon!FaultKinds, DaemonProofs!FaultKinds

\* A step here is a step of the daemon, or none of its business.
LEMMA DaemonStep ==
  ASSUME [Next]_vars
  PROVE  /\ [Daemon!Next]_daemonVars
         /\ [DaemonProofs!Next]_daemonVars
<1>1. CASE HandleSnapshot
  <2>1. Daemon!HandleFrame(Guest) /\ DaemonProofs!HandleFrame(Guest)
    BY <1>1, SameFrame DEF HandleSnapshot, Received
  <2>2. QED
    BY <2>1 DEF Daemon!Next, DaemonProofs!Next
<1>2. CASE HandleOther
  <2>1. PICK n \in Names : \/ \E s \in Daemon!SlotsFor(n) : Daemon!SelectSource(n, s)
                           \/ \E s \in Daemon!Named(n) : Daemon!RemoveSource(s)
    BY <1>2 DEF HandleOther
  <2>2. ASSUME NEW s \in Daemon!SlotsFor(n), Daemon!SelectSource(n, s)
        PROVE  Daemon!Next /\ DaemonProofs!Next
    <3>1. s \in DaemonProofs!SlotsFor(n) /\ DaemonProofs!SelectSource(n, s)
      BY <2>2, SameSlots, SameSelection
    <3>2. QED
      BY <2>2, <3>1 DEF Daemon!Next, DaemonProofs!Next
  <2>3. ASSUME NEW s \in Daemon!Named(n), Daemon!RemoveSource(s)
        PROVE  Daemon!Next /\ DaemonProofs!Next
    <3>1. s \in DaemonProofs!Named(n) /\ DaemonProofs!RemoveSource(s)
      BY <2>3, SameSlots, SameRemoval
    <3>2. QED
      BY <2>3, <3>1 DEF Daemon!Next, DaemonProofs!Next
  <2>4. QED
    BY <2>1, <2>2, <2>3
<1>3. CASE DaemonStops
  BY <1>3, SameRestart DEF DaemonStops, Daemon!Next, DaemonProofs!Next
<1>4. CASE ~ (HandleSnapshot \/ HandleOther \/ DaemonStops)
  <2>1. UNCHANGED daemonVars
    BY <1>4 DEF Next, vars, GuestDraws, GlUpdate, GlUpdateFails, ScanoutDmabuf, Exported,
                NotExported, Copied, SendSnapshot, SendRefused, ThrottleEnds,
                ScanoutDisable, DaemonStarts
  <2>2. QED
    BY <2>1
<1>5. QED
  BY <1>1, <1>2, <1>3, <1>4

LEMMA DaemonKeeps ==
  ASSUME DaemonProofs!IInv, [Next]_vars
  PROVE  DaemonProofs!IInv'
<1>1. [DaemonProofs!Next]_(DaemonProofs!vars)
  BY DaemonStep DEF daemonVars, DaemonProofs!vars
<1>2. DaemonProofs!IInv /\ [DaemonProofs!Next]_(DaemonProofs!vars) => DaemonProofs!IInv'
  BY DaemonAssumed, DaemonProofs!StepIInv
<1>3. QED
  BY <1>1, <1>2

----------------------------------------------------------------------------
(***************************************************************************)
(* The machine's framebuffer.                                              *)
(***************************************************************************)
HasPicture(table) == \E s \in Slots : table[s].name = Guest /\ table[s].fb # NoFb

\* What DaemonProofs!IInv says of the table.
TableInv(table) ==
  /\ table \in [Slots -> DaemonProofs!Source]
  /\ \A s, t \in Slots : table[s].name = table[t].name /\ table[s].name # NoName => s = t
  /\ \A s \in Slots : table[s].fb # NoFb => table[s].name # NoName

LEMMA TableInvFacts == DaemonProofs!IInv => TableInv(sources)
BY DEF DaemonProofs!IInv, DaemonProofs!TypeOK, DaemonProofs!TableSound,
       DaemonProofs!FramebufferOwnership, TableInv

\* The slot that CHOOSE finds is the only one of that name.
LEMMA FbOfGuest ==
  ASSUME NEW table, TableInv(table), NEW named, named = {s \in Slots : table[s].name = Guest}
  PROVE  (IF named = {} THEN NoFb ELSE table[CHOOSE s \in named : TRUE].fb) = NoFb
           <=> ~HasPicture(table)
<1>1. CASE named = {}
  BY <1>1 DEF HasPicture
<1>2. CASE named # {}
  <2>1. PICK c : c = CHOOSE s \in named : TRUE
    OBVIOUS
  <2>2. c \in named
    BY <1>2, <2>1
  <2>3. \A s \in named : s = c
    BY <2>2 DEF TableInv
  <2>4. HasPicture(table) <=> table[c].fb # NoFb
    BY <2>2, <2>3 DEF HasPicture
  <2>5. QED
    BY <1>2, <2>1, <2>4
<1>3. QED
  BY <1>1, <1>2

LEMMA GuestFbFacts ==
  ASSUME TableInv(sources), TableInv(sources')
  PROVE  /\ GuestFb = NoFb <=> ~HasPicture(sources)
         /\ GuestFb' = NoFb <=> ~HasPicture(sources')
<1>1. GuestFb = NoFb <=> ~HasPicture(sources)
  BY FbOfGuest DEF GuestFb, Daemon!Named
<1>2. GuestFb' = NoFb <=> ~HasPicture(sources')
  BY FbOfGuest DEF GuestFb, Daemon!Named
<1>3. QED
  BY <1>1, <1>2

\* A frame gives the machine a framebuffer, or leaves it the one it has.
LEMMA FrameKeepsPicture ==
  ASSUME DaemonProofs!IInv, Daemon!HandleFrame(Guest), HasPicture(sources)
  PROVE  HasPicture(sources')
<1>1. DaemonProofs!HandleFrame(Guest)
  BY SameFrame
<1>2. TableInv(sources)
  BY TableInvFacts
<1>3. PICK p \in Slots : sources[p].name = Guest /\ sources[p].fb # NoFb
  BY DEF HasPicture
<1>4. ASSUME NEW s \in DaemonProofs!SlotsFor(Guest), NEW g \in {1}
      PROVE  /\ s = p
             /\ DaemonProofs!Framed(Guest, g, s) \in [Slots -> DaemonProofs!Source]
             /\ DaemonProofs!Framed(Guest, g, s)[s].name = Guest
             /\ DaemonProofs!Framed(Guest, g, s)[s].fb = sources[s].fb
  <2>1. s = p
    BY <1>2, <1>3, <1>4 DEF DaemonProofs!SlotsFor, DaemonProofs!Named, TableInv
  <2>2. /\ DaemonProofs!Framed(Guest, g, s) \in [Slots -> DaemonProofs!Source]
        /\ DaemonProofs!Framed(Guest, g, s)[s].name = Guest
        /\ DaemonProofs!Framed(Guest, g, s)[s].fb = sources[s].fb
    BY <1>4, DaemonAssumed, DaemonProofs!FramedFacts
  <2>3. QED
    BY <2>1, <2>2
<1>5. CASE DaemonProofs!FrameDropped(Guest)
  BY <1>3, <1>5 DEF DaemonProofs!FrameDropped, HasPicture
<1>6. ASSUME NEW s \in DaemonProofs!SlotsFor(Guest), NEW g \in {1},
             sources' = DaemonProofs!Framed(Guest, g, s)
      PROVE  HasPicture(sources')
  BY <1>3, <1>4, <1>6 DEF HasPicture
<1>7. ASSUME NEW s \in DaemonProofs!SlotsFor(Guest), NEW g \in {1}, NEW f \in DaemonProofs!FreeFbs,
             sources' = [DaemonProofs!Framed(Guest, g, s) EXCEPT ![s].fb = f]
      PROVE  HasPicture(sources')
  <2>1. f # NoFb
    BY <1>7 DEF DaemonProofs!FreeFbs
  <2>2. s \in Slots
    BY <1>4, <1>7
  <2>3. sources'[s] = [DaemonProofs!Framed(Guest, g, s)[s] EXCEPT !.fb = f]
    BY <1>4, <1>7, <2>2
  <2>4. DaemonProofs!Framed(Guest, g, s)[s] \in DaemonProofs!Source
    BY <1>4, <1>7, <2>2
  <2>5. sources'[s].name = Guest /\ sources'[s].fb = f
    BY <1>4, <1>7, <2>3, <2>4 DEF DaemonProofs!Source
  <2>6. QED
    BY <2>1, <2>2, <2>5 DEF HasPicture
<1>8. ASSUME NEW s \in DaemonProofs!SlotsFor(Guest), NEW g \in {1},
             \/ DaemonProofs!FrameNotImported(Guest, g, s)
             \/ \E f \in DaemonProofs!FreeFbs : \/ DaemonProofs!FrameOfActive(Guest, g, s, f)
                                                \/ DaemonProofs!FrameInBackground(Guest, g, s, f)
      PROVE  HasPicture(sources')
  <2>1. CASE DaemonProofs!FrameNotImported(Guest, g, s)
    BY <1>6, <1>8, <2>1 DEF DaemonProofs!FrameNotImported
  <2>2. ASSUME NEW f \in DaemonProofs!FreeFbs, DaemonProofs!FrameOfActive(Guest, g, s, f)
        PROVE  HasPicture(sources')
    <3>1. \/ sources' = DaemonProofs!Framed(Guest, g, s)
          \/ sources' = [DaemonProofs!Framed(Guest, g, s) EXCEPT ![s].fb = f]
      BY <2>2 DEF DaemonProofs!FrameOfActive
    <3>2. QED
      BY <1>6, <1>7, <1>8, <2>2, <3>1
  <2>3. ASSUME NEW f \in DaemonProofs!FreeFbs, DaemonProofs!FrameInBackground(Guest, g, s, f)
        PROVE  HasPicture(sources')
    <3>1. sources' = [DaemonProofs!Framed(Guest, g, s) EXCEPT ![s].fb = f]
      BY <2>3 DEF DaemonProofs!FrameInBackground
    <3>2. QED
      BY <1>7, <1>8, <2>3, <3>1
  <2>4. QED
    BY <1>8, <2>1, <2>2, <2>3
<1>9. QED
  BY <1>1, <1>5, <1>8 DEF DaemonProofs!HandleFrame

\* No selection or removal gives the machine a framebuffer.
LEMMA OtherGivesNoPicture ==
  ASSUME DaemonProofs!IInv, HandleOther, HasPicture(sources')
  PROVE  HasPicture(sources)
<1>1. TableInv(sources)
  BY TableInvFacts
<1>2. PICK n \in Names : \/ \E s \in Daemon!SlotsFor(n) : Daemon!SelectSource(n, s)
                         \/ \E s \in Daemon!Named(n) : Daemon!RemoveSource(s)
  BY DEF HandleOther
<1>3. PICK p \in Slots : sources'[p].name = Guest /\ sources'[p].fb # NoFb
  BY DEF HasPicture
<1>4. ASSUME NEW s \in Daemon!SlotsFor(n), Daemon!SelectSource(n, s)
      PROVE  HasPicture(sources)
  <2>1. s \in Slots /\ sources' = Daemon!Claimed(n, s)
    BY <1>4 DEF Daemon!SlotsFor, Daemon!Named, Daemon!SelectSource
  <2>2. CASE sources[s].name = n
    BY <1>3, <2>1, <2>2 DEF Daemon!Claimed, HasPicture
  <2>3. CASE sources[s].name # n
    <3>1. sources' = [sources EXCEPT ![s] = [Daemon!EmptySource EXCEPT !.name = n]]
      BY <2>1, <2>3 DEF Daemon!Claimed
    <3>2. [Daemon!EmptySource EXCEPT !.name = n].fb = NoFb
      BY DEF Daemon!EmptySource
    <3>3. sources[p] = sources'[p]
      BY <1>1, <1>3, <2>1, <3>1, <3>2 DEF TableInv
    <3>4. QED
      BY <1>3, <3>3 DEF HasPicture
  <2>4. QED
    BY <2>2, <2>3
<1>5. ASSUME NEW s \in Daemon!Named(n), Daemon!RemoveSource(s)
      PROVE  HasPicture(sources)
  <2>1. s \in Slots /\ sources' = [sources EXCEPT ![s] = Daemon!EmptySource]
    BY <1>5 DEF Daemon!Named, Daemon!RemoveSource
  <2>2. Daemon!EmptySource.fb = NoFb
    BY DEF Daemon!EmptySource
  <2>3. sources[p] = sources'[p]
    BY <1>1, <1>3, <2>1, <2>2 DEF TableInv
  <2>4. QED
    BY <1>3, <2>3 DEF HasPicture
<1>6. QED
  BY <1>2, <1>4, <1>5

\* A daemon that has stopped has none.
LEMMA RestartTakesPicture ==
  ASSUME Daemon!Restart \/ Daemon!Crash
  PROVE  ~HasPicture(sources')
<1>1. sources' = [s \in Slots |-> Daemon!EmptySource] /\ Daemon!EmptySource.fb = NoFb
  BY DEF Daemon!Restart, Daemon!Crash, Daemon!Forgotten, Daemon!EmptySource
<1>2. QED
  BY <1>1 DEF HasPicture

----------------------------------------------------------------------------
(***************************************************************************)
(* The ring.                                                               *)
(***************************************************************************)
LEMMA NextSlotFacts ==
  ASSUME index \in RingSlots
  PROVE  /\ NextSlot \in RingSlots
         /\ NextSlot = IF index = Ring - 1 THEN 0 ELSE index + 1
<1>1. index \in Nat /\ index < Ring /\ Ring \in Nat \ {0}
  BY DEF RingSlots
<1>2. CASE index = Ring - 1
  <2>1. Ring % Ring = 0
    BY <1>1
  <2>2. QED
    BY <1>1, <1>2, <2>1 DEF NextSlot, RingSlots
<1>3. CASE index # Ring - 1
  <2>1. index + 1 \in Nat /\ index + 1 < Ring
    BY <1>1, <1>3
  <2>2. (index + 1) % Ring = index + 1
    BY <1>1, <2>1
  <2>3. QED
    BY <1>3, <2>1, <2>2 DEF NextSlot, RingSlots
<1>4. QED
  BY <1>2, <1>3

\* Going back, one meets every slot once.
LEMMA BackFacts ==
  ASSUME index \in RingSlots
  PROVE  /\ Back(0) = index
         /\ \A a \in RingSlots : Back(a) \in RingSlots
         /\ \A a, b \in RingSlots : Back(a) = Back(b) => a = b
BY DEF Back, RingSlots

\* A copy is one more to go back over.
LEMMA BackAfterCopy ==
  ASSUME index \in RingSlots, index' = NextSlot
  PROVE  /\ Back(0)' = NextSlot
         /\ \A a \in RingSlots : a + 1 \in RingSlots =>
              Back(a + 1)' = Back(a) /\ Back(a) # NextSlot
<1>1. /\ Ring \in Nat \ {0} /\ NextSlot \in RingSlots
      /\ NextSlot = IF index = Ring - 1 THEN 0 ELSE index + 1
  BY NextSlotFacts
<1>2. QED
  BY <1>1 DEF Back, RingSlots

----------------------------------------------------------------------------
(***************************************************************************)
(* QEMU's steps.                                                           *)
(***************************************************************************)
RingType ==
  /\ picture \in 0 .. MaxPicture /\ scanout \in BOOLEAN
  /\ content \in [RingSlots -> 0 .. MaxPicture] /\ index \in RingSlots
  /\ pc \in {"idle", "send"} /\ recent \in BOOLEAN

QueueType ==
  /\ queue \in Seq(RingSlots \cup {Old}) /\ Len(queue) <= QueueMax
  /\ up \in BOOLEAN /\ missed \in BOOLEAN
  /\ held \in RingSlots \cup {Old, None}

HeldInv == held = None <=> GuestFb = NoFb

\* The invariant without the daemon's part.
OwnInv == RingType /\ QueueType /\ HeldInv /\ RingInv /\ SlotsInv /\ DownInv

LEMMA OwnFacts == IInv <=> OwnInv /\ DaemonProofs!IInv
<1>1. DaemonProofs!IInv => Daemon!TypeOK
  BY SameTypes DEF DaemonProofs!IInv
<1>2. QED
  BY <1>1 DEF IInv, OwnInv, TypeOK, RingType, QueueType, HeldInv

\* A machine's framebuffer is what the daemon's variables say.
LEMMA GuestFbStays ==
  ASSUME UNCHANGED daemonVars
  PROVE  GuestFb' = GuestFb
BY DEF daemonVars, GuestFb, Daemon!Named

LEMMA GuestDrawsKeeps ==
  ASSUME OwnInv, GuestDraws
  PROVE  OwnInv'
<1>1. /\ picture' = picture + 1 /\ picture < MaxPicture
      /\ UNCHANGED <<scanout, content, index, pc, recent, queue, up, held, missed>>
      /\ GuestFb' = GuestFb
  BY GuestFbStays DEF GuestDraws, ringVars
<1>2. RingType' /\ QueueType' /\ HeldInv'
  BY <1>1 DEF OwnInv, RingType, QueueType, HeldInv
<1>3. RingInv'
  <2>1. \A k \in RingSlots : content'[k] <= picture'
    BY <1>1 DEF OwnInv, RingType, RingInv
  <2>2. QED
    BY <1>1, <2>1 DEF OwnInv, RingInv, Back
<1>4. SlotsInv' /\ DownInv'
  BY <1>1 DEF OwnInv, SlotsInv, DownInv, Waiting, Back
<1>5. QED
  BY <1>2, <1>3, <1>4 DEF OwnInv

\* A copy goes over the earliest picture of the ring.
LEMMA CopiedKeeps ==
  ASSUME OwnInv, Copied, pc' \in {"idle", "send"}, missed' \in BOOLEAN
  PROVE  RingType' /\ QueueType' /\ HeldInv' /\ RingInv' /\ DownInv'
<1>1. /\ pc = "idle" /\ scanout' = TRUE /\ index' = NextSlot
      /\ content' = [content EXCEPT ![NextSlot] = picture]
      /\ UNCHANGED <<picture, recent, queue, up, held>>
      /\ GuestFb' = GuestFb
  <2>1. scanout'
    BY DEF Copied
  <2>2. scanout' = TRUE
    BY <2>1
  <2>3. QED
    BY <2>2, GuestFbStays DEF Copied
<1>2. RingType /\ QueueType /\ HeldInv /\ RingInv /\ DownInv
  BY DEF OwnInv
<1>3. index \in RingSlots /\ NextSlot \in RingSlots
  BY <1>2, NextSlotFacts DEF RingType
<1>4. RingType'
  BY <1>1, <1>2, <1>3 DEF RingType
<1>5. QueueType' /\ HeldInv' /\ DownInv'
  BY <1>1, <1>2 DEF QueueType, HeldInv, DownInv
<1>6. content'[NextSlot] = picture /\ \A k \in RingSlots \ {NextSlot} : content'[k] = content[k]
  BY <1>1, <1>2, <1>3 DEF RingType
<1>7. /\ Back(0)' = NextSlot
      /\ \A a \in RingSlots : a + 1 \in RingSlots => Back(a + 1)' = Back(a) /\ Back(a) # NextSlot
      /\ \A a \in RingSlots : Back(a) \in RingSlots
  BY <1>1, <1>3, BackAfterCopy, BackFacts
<1>8. picture \in Nat
  BY <1>2 DEF RingType
<1>9. \A k \in RingSlots : content'[k] <= picture
  <2>1. ASSUME NEW k \in RingSlots PROVE content'[k] <= picture
    <3>1. CASE k = NextSlot
      BY <1>6, <1>8, <3>1
    <3>2. CASE k # NextSlot
      BY <1>2, <1>6, <3>2 DEF RingInv
    <3>3. QED
      BY <3>1, <3>2
  <2>2. QED
    BY <2>1
<1>10. \A a \in RingSlots \ {0} :
         a - 1 \in RingSlots /\ Back(a)' = Back(a - 1) /\ content'[Back(a)'] = content[Back(a - 1)]
  <2>1. SUFFICES ASSUME NEW a \in RingSlots \ {0}
                 PROVE  a - 1 \in RingSlots /\ Back(a)' = Back(a - 1)
                          /\ content'[Back(a)'] = content[Back(a - 1)]
    OBVIOUS
  <2>2. a - 1 \in RingSlots /\ (a - 1) + 1 = a
    BY <2>1 DEF RingSlots
  <2>3. Back(a)' = Back(a - 1) /\ Back(a - 1) # NextSlot /\ Back(a - 1) \in RingSlots
    BY <1>7, <2>1, <2>2
  <2>4. QED
    BY <1>6, <2>2, <2>3
<1>11. ASSUME NEW a \in RingSlots, NEW b \in RingSlots, a <= b
       PROVE  content'[Back(b)'] <= content'[Back(a)']
  <2>1. CASE a = 0
    <3>1. Back(b)' \in RingSlots
      <4>1. CASE b = 0
        BY <1>3, <1>7, <4>1
      <4>2. CASE b # 0
        BY <1>7, <1>10, <1>11, <4>2
      <4>3. QED
        BY <4>1, <4>2
    <3>2. content'[Back(a)'] = picture
      BY <1>6, <1>7, <2>1
    <3>3. QED
      BY <1>9, <3>1, <3>2
  <2>2. CASE a # 0
    <3>1. a - 1 <= b - 1 /\ b # 0
      BY <1>11, <2>2 DEF RingSlots
    <3>2. /\ a - 1 \in RingSlots /\ content'[Back(a)'] = content[Back(a - 1)]
          /\ b - 1 \in RingSlots /\ content'[Back(b)'] = content[Back(b - 1)]
      BY <1>10, <1>11, <2>2, <3>1
    <3>3. content[Back(b - 1)] <= content[Back(a - 1)]
      BY <1>2, <3>1, <3>2 DEF RingInv
    <3>4. QED
      BY <3>2, <3>3
  <2>3. QED
    BY <2>1, <2>2
<1>12. RingInv'
  BY <1>1, <1>9, <1>11 DEF RingInv
<1>13. QED
  BY <1>4, <1>5, <1>12

\* The snapshot of each waiting frame is one more copy back.
LEMMA ExportedKeeps ==
  ASSUME OwnInv, Exported
  PROVE  OwnInv'
<1>1. Copied /\ pc' = "send" /\ missed' = missed
  BY DEF Exported
<1>2. pc = "idle" /\ index' = NextSlot /\ queue' = queue /\ held' = held
  BY <1>1 DEF Copied
<1>3. RingType' /\ QueueType' /\ HeldInv' /\ RingInv' /\ DownInv'
  BY <1>1, CopiedKeeps DEF OwnInv, QueueType
<1>4. queue \in Seq(RingSlots \cup {Old}) /\ Len(queue) \in Nat /\ DOMAIN queue = 1 .. Len(queue)
  BY DEF OwnInv, QueueType
<1>5. PICK w \in Nat : w = Waiting' /\ w = Waiting + 1 /\ Waiting = Len(queue)
  BY <1>1, <1>2, <1>4 DEF Waiting
<1>6. ASSUME NEW a \in Nat, a + 1 < Ring PROVE Back(a + 1)' = Back(a)
  <2>1. a \in RingSlots /\ a + 1 \in RingSlots
    BY <1>6 DEF RingSlots
  <2>2. QED
    BY <1>2, <2>1, BackAfterCopy DEF OwnInv, RingType
<1>7. SlotsInv'
  <2>1. SUFFICES ASSUME ~missed
                 PROVE  /\ \A i \in DOMAIN queue :
                             queue[i] # Old =>
                               /\ w - i < Ring => queue[i] = Back(w - i)'
                               /\ \A j \in DOMAIN queue : i < j => queue[j] # Old
                        /\ held \notin {Old, None} =>
                             /\ w < Ring => held = Back(w)'
                             /\ \A j \in DOMAIN queue : queue[j] # Old
    BY <1>1, <1>2, <1>5 DEF SlotsInv, Back
  <2>2. ASSUME NEW i \in DOMAIN queue, queue[i] # Old, w - i < Ring
        PROVE  queue[i] = Back(w - i)'
    <3>1. Waiting - i \in Nat /\ (Waiting - i) + 1 < Ring /\ w - i = (Waiting - i) + 1
      BY <1>4, <1>5, <2>2
    <3>2. queue[i] = Back(Waiting - i)
      BY <2>1, <2>2, <3>1 DEF OwnInv, SlotsInv
    <3>3. QED
      BY <1>6, <3>1, <3>2
  <2>3. ASSUME held \notin {Old, None}, w < Ring PROVE held = Back(w)'
    <3>1. Waiting \in Nat /\ Waiting + 1 < Ring
      BY <1>4, <1>5, <2>3
    <3>2. held = Back(Waiting)
      BY <2>1, <2>3, <3>1 DEF OwnInv, SlotsInv
    <3>3. QED
      BY <1>5, <1>6, <3>1, <3>2
  <2>4. QED
    BY <2>1, <2>2, <2>3 DEF OwnInv, SlotsInv
<1>8. QED
  BY <1>3, <1>7 DEF OwnInv

LEMMA NotExportedKeeps ==
  ASSUME OwnInv, NotExported
  PROVE  OwnInv'
<1>1. Copied /\ pc' = pc /\ missed' = TRUE /\ pc = "idle"
  BY DEF NotExported, Copied
<1>2. RingType' /\ QueueType' /\ HeldInv' /\ RingInv' /\ DownInv'
  BY <1>1, CopiedKeeps
<1>3. SlotsInv'
  BY <1>1 DEF SlotsInv
<1>4. QED
  BY <1>2, <1>3 DEF OwnInv

LEMMA SendSnapshotKeeps ==
  ASSUME OwnInv, SendSnapshot
  PROVE  OwnInv'
<1>1. /\ pc = "send" /\ up /\ Len(queue) < QueueMax
      /\ queue' = Append(queue, index) /\ pc' = "idle" /\ recent' = TRUE
      /\ UNCHANGED <<picture, scanout, content, index, up, held, missed>>
      /\ GuestFb' = GuestFb
  BY GuestFbStays DEF SendSnapshot, guestVars, ringVars
<1>2. /\ queue \in Seq(RingSlots \cup {Old}) /\ Len(queue) \in Nat
      /\ index \in RingSlots /\ index # Old /\ index \in Nat
  BY DEF OwnInv, QueueType, RingType, RingSlots
<1>3. /\ queue' \in Seq(RingSlots \cup {Old}) /\ Len(queue') = Len(queue) + 1
      /\ DOMAIN queue' = 1 .. Len(queue) + 1 /\ DOMAIN queue = 1 .. Len(queue)
      /\ queue'[Len(queue) + 1] = index
      /\ \A i \in 1 .. Len(queue) : queue'[i] = queue[i]
  BY <1>1, <1>2
<1>4. RingType' /\ QueueType' /\ HeldInv' /\ DownInv'
  BY <1>1, <1>2, <1>3 DEF OwnInv, RingType, QueueType, HeldInv, DownInv
<1>5. RingInv'
  BY <1>1 DEF OwnInv, RingInv, Back
<1>6. Waiting = Len(queue) + 1 /\ Waiting' = Waiting /\ \A a : Back(a)' = Back(a)
  BY <1>1, <1>2, <1>3 DEF Waiting, Back
<1>7. SlotsInv'
  <2>1. SUFFICES ASSUME ~missed
                 PROVE  /\ \A i \in DOMAIN queue' :
                             queue'[i] # Old =>
                               /\ Waiting - i < Ring => queue'[i] = Back(Waiting - i)
                               /\ \A j \in DOMAIN queue' : i < j => queue'[j] # Old
                        /\ held \notin {Old, None} =>
                             /\ Waiting < Ring => held = Back(Waiting)
                             /\ \A j \in DOMAIN queue' : queue'[j] # Old
    BY <1>1, <1>6 DEF SlotsInv
  <2>2. ASSUME NEW i \in DOMAIN queue', queue'[i] # Old
        PROVE  /\ Waiting - i < Ring => queue'[i] = Back(Waiting - i)
               /\ \A j \in DOMAIN queue' : i < j => queue'[j] # Old
    <3>1. CASE i = Len(queue) + 1
      <4>1. Waiting - i = 0 /\ Back(0) = index
        BY <1>2, <1>6, <3>1, BackFacts
      <4>2. QED
        BY <1>2, <1>3, <3>1, <4>1
    <3>2. CASE i # Len(queue) + 1
      <4>1. i \in DOMAIN queue /\ queue'[i] = queue[i]
        BY <1>2, <1>3, <2>2, <3>2
      <4>2. /\ Waiting - i < Ring => queue[i] = Back(Waiting - i)
            /\ \A j \in DOMAIN queue : i < j => queue[j] # Old
        BY <2>1, <2>2, <4>1 DEF OwnInv, SlotsInv
      <4>3. \A j \in DOMAIN queue' : i < j => queue'[j] # Old
        BY <1>2, <1>3, <4>2
      <4>4. QED
        BY <4>1, <4>2, <4>3
    <3>3. QED
      BY <3>1, <3>2
  <2>3. ASSUME held \notin {Old, None}
        PROVE  /\ Waiting < Ring => held = Back(Waiting)
               /\ \A j \in DOMAIN queue' : queue'[j] # Old
    <3>1. /\ Waiting < Ring => held = Back(Waiting)
          /\ \A j \in DOMAIN queue : queue[j] # Old
      BY <2>1, <2>3 DEF OwnInv, SlotsInv
    <3>2. QED
      BY <1>2, <1>3, <3>1
  <2>4. QED
    BY <2>2, <2>3
<1>8. QED
  BY <1>4, <1>5, <1>7 DEF OwnInv

\* The frame is lost: either that is noted, or nothing was on its way.
LEMMA SendRefusedKeeps ==
  ASSUME OwnInv, SendRefused
  PROVE  OwnInv'
<1>1. /\ pc = "send" /\ pc' = "idle" /\ recent' = TRUE /\ missed' = (missed \/ up)
      /\ UNCHANGED <<picture, scanout, content, index, queue, up, held>>
      /\ GuestFb' = GuestFb
  BY GuestFbStays DEF SendRefused, guestVars, ringVars
<1>2. RingType' /\ QueueType' /\ HeldInv' /\ DownInv'
  BY <1>1 DEF OwnInv, RingType, QueueType, HeldInv, DownInv
<1>3. RingInv'
  BY <1>1 DEF OwnInv, RingInv, Back
<1>4. SlotsInv'
  <2>1. SUFFICES ASSUME ~missed' PROVE queue' = <<>> /\ held' = None
    BY DEF SlotsInv
  <2>2. QED
    BY <1>1, <2>1 DEF OwnInv, DownInv
<1>5. QED
  BY <1>2, <1>3, <1>4 DEF OwnInv

LEMMA ThrottleEndsKeeps ==
  ASSUME OwnInv, ThrottleEnds
  PROVE  OwnInv'
<1>1. /\ recent' = FALSE /\ GuestFb' = GuestFb
      /\ UNCHANGED <<picture, scanout, content, index, pc, queue, up, held, missed>>
  BY GuestFbStays DEF ThrottleEnds, guestVars, ringVars
<1>2. RingType' /\ QueueType' /\ HeldInv' /\ DownInv'
  BY <1>1 DEF OwnInv, RingType, QueueType, HeldInv, DownInv
<1>3. RingInv' /\ SlotsInv'
  BY <1>1 DEF OwnInv, RingInv, SlotsInv, Waiting, Back
<1>4. QED
  BY <1>2, <1>3 DEF OwnInv

\* Nothing of the ring is on its way any more.
LEMMA ScanoutDisableKeeps ==
  ASSUME OwnInv, ScanoutDisable
  PROVE  OwnInv'
<1>1. /\ scanout' = FALSE /\ GuestFb' = GuestFb
      /\ queue' = [i \in DOMAIN queue |-> Old]
      /\ held' = IF held = None THEN None ELSE Old
      /\ UNCHANGED <<picture, content, index, pc, recent, up, missed>>
  BY GuestFbStays DEF ScanoutDisable, ringVars
<1>2. /\ queue \in Seq(RingSlots \cup {Old}) /\ Len(queue) \in Nat /\ Len(queue) <= QueueMax
      /\ DOMAIN queue = 1 .. Len(queue)
  BY DEF OwnInv, QueueType
<1>3. /\ queue' \in Seq(RingSlots \cup {Old}) /\ Len(queue') = Len(queue)
      /\ DOMAIN queue' = DOMAIN queue /\ \A i \in DOMAIN queue : queue'[i] = Old
  BY <1>1, <1>2
<1>4. RingType' /\ QueueType'
  BY <1>1, <1>2, <1>3 DEF OwnInv, RingType, QueueType
<1>5. HeldInv'
  BY <1>1 DEF OwnInv, HeldInv
<1>6. DownInv'
  <2>1. SUFFICES ASSUME ~up' PROVE queue' = <<>> /\ held' = None
    BY DEF DownInv
  <2>2. queue = <<>> /\ held = None
    BY <1>1, <2>1 DEF OwnInv, DownInv
  <2>3. Len(queue') = 0
    BY <1>3, <2>2
  <2>4. QED
    BY <1>1, <1>3, <2>2, <2>3
<1>7. RingInv'
  BY <1>1 DEF OwnInv, RingInv, Back
<1>8. SlotsInv'
  BY <1>1, <1>3 DEF SlotsInv
<1>9. QED
  BY <1>4, <1>5, <1>6, <1>7, <1>8 DEF OwnInv

----------------------------------------------------------------------------
(***************************************************************************)
(* The daemon's steps.                                                     *)
(***************************************************************************)
\* The first snapshot that waits becomes the machine's framebuffer, or is missed.
LEMMA HandleSnapshotKeeps ==
  ASSUME IInv, DaemonProofs!IInv', HandleSnapshot
  PROVE  OwnInv'
<1>1. OwnInv /\ TableInv(sources) /\ TableInv(sources')
  <2>1. TableInv(sources')
    BY DEF DaemonProofs!IInv, DaemonProofs!TypeOK, DaemonProofs!TableSound,
           DaemonProofs!FramebufferOwnership, TableInv
  <2>2. QED
    BY <2>1, OwnFacts, TableInvFacts
<1>2. /\ up /\ queue # <<>> /\ queue' = Tail(queue)
      /\ Daemon!HandleFrame(Guest)
      /\ held' = IF GuestFb' = GuestFb THEN held ELSE Head(queue)
      /\ missed' = (missed \/ GuestFb' = GuestFb)
      /\ UNCHANGED <<picture, scanout, content, index, pc, recent, up>>
  BY DEF HandleSnapshot, Received, guestVars, ringVars
<1>3. /\ queue \in Seq(RingSlots \cup {Old}) /\ Len(queue) \in Nat \ {0} /\ Len(queue) <= QueueMax
      /\ Head(queue) = queue[1] /\ queue[1] \in RingSlots \cup {Old}
      /\ queue' \in Seq(RingSlots \cup {Old}) /\ Len(queue') = Len(queue) - 1
      /\ DOMAIN queue = 1 .. Len(queue) /\ DOMAIN queue' = 1 .. Len(queue) - 1
      /\ \A i \in 1 .. Len(queue) - 1 : queue'[i] = queue[i + 1]
  BY <1>1, <1>2 DEF OwnInv, QueueType
<1>4. RingType' /\ QueueType'
  BY <1>1, <1>2, <1>3 DEF OwnInv, RingType, QueueType
<1>5. HeldInv'
  <2>1. /\ GuestFb = NoFb <=> ~HasPicture(sources)
        /\ GuestFb' = NoFb <=> ~HasPicture(sources')
    BY <1>1, GuestFbFacts
  <2>2. HasPicture(sources) => HasPicture(sources')
    BY <1>2, FrameKeepsPicture DEF IInv
  <2>3. Head(queue) # None
    BY <1>3 DEF RingSlots
  <2>4. CASE GuestFb' = GuestFb
    BY <1>1, <1>2, <2>4 DEF OwnInv, HeldInv
  <2>5. CASE GuestFb' # GuestFb
    BY <1>2, <2>1, <2>2, <2>3, <2>5 DEF HeldInv
  <2>6. QED
    BY <2>4, <2>5
<1>6. RingInv' /\ DownInv'
  BY <1>1, <1>2 DEF OwnInv, RingInv, Back, DownInv
<1>7. Waiting \in Nat \ {0} /\ Waiting' = Waiting - 1 /\ \A a : Back(a)' = Back(a)
  BY <1>2, <1>3 DEF Waiting, Back
<1>8. PICK w \in Nat : w = Waiting' /\ w = Waiting - 1
  BY <1>7
<1>9. SlotsInv'
  <2>1. SUFFICES ASSUME ~missed'
                 PROVE  /\ \A i \in DOMAIN queue' :
                             queue'[i] # Old =>
                               /\ w - i < Ring => queue'[i] = Back(w - i)
                               /\ \A j \in DOMAIN queue' : i < j => queue'[j] # Old
                        /\ held' \notin {Old, None} =>
                             /\ w < Ring => held' = Back(w)
                             /\ \A j \in DOMAIN queue' : queue'[j] # Old
    BY <1>2, <1>8 DEF SlotsInv, Back
  <2>2. ~missed /\ held' = queue[1]
    BY <1>2, <1>3, <2>1
  <2>3. \A i \in DOMAIN queue :
          queue[i] # Old =>
            /\ Waiting - i < Ring => queue[i] = Back(Waiting - i)
            /\ \A j \in DOMAIN queue : i < j => queue[j] # Old
    BY <1>1, <2>2 DEF OwnInv, SlotsInv
  <2>4. \A i \in DOMAIN queue' : i + 1 \in DOMAIN queue /\ queue'[i] = queue[i + 1]
    BY <1>3
  <2>5. ASSUME NEW i \in DOMAIN queue', queue'[i] # Old
        PROVE  /\ w - i < Ring => queue'[i] = Back(w - i)
               /\ \A j \in DOMAIN queue' : i < j => queue'[j] # Old
    <3>1. /\ i + 1 \in DOMAIN queue /\ queue[i + 1] # Old /\ queue'[i] = queue[i + 1]
          /\ i \in Nat
      BY <1>3, <2>4, <2>5
    <3>2. w - i < Ring => queue'[i] = Back(w - i)
      <4>1. Waiting - (i + 1) = w - i
        BY <1>7, <1>8, <3>1
      <4>2. Waiting - (i + 1) < Ring => queue[i + 1] = Back(Waiting - (i + 1))
        BY <2>3, <3>1
      <4>3. QED
        BY <3>1, <4>1, <4>2
    <3>3. ASSUME NEW j \in DOMAIN queue', i < j PROVE queue'[j] # Old
      <4>1. j + 1 \in DOMAIN queue /\ i + 1 < j + 1 /\ queue'[j] = queue[j + 1]
        BY <1>3, <2>4, <3>1, <3>3
      <4>2. QED
        BY <2>3, <3>1, <4>1
    <3>4. QED
      BY <3>2, <3>3
  <2>6. ASSUME held' \notin {Old, None}
        PROVE  /\ w < Ring => held' = Back(w)
               /\ \A j \in DOMAIN queue' : queue'[j] # Old
    <3>1. 1 \in DOMAIN queue /\ queue[1] # Old /\ Waiting - 1 = w
      BY <1>3, <1>8, <2>2, <2>6
    <3>2. w < Ring => held' = Back(w)
      BY <2>2, <2>3, <3>1
    <3>3. ASSUME NEW j \in DOMAIN queue' PROVE queue'[j] # Old
      <4>1. j + 1 \in DOMAIN queue /\ 1 < j + 1 /\ queue'[j] = queue[j + 1]
        BY <1>3, <2>4, <3>3
      <4>2. QED
        BY <2>3, <3>1, <4>1
    <3>4. QED
      BY <3>2, <3>3
  <2>7. QED
    BY <2>5, <2>6
<1>10. QED
  BY <1>4, <1>5, <1>6, <1>9 DEF OwnInv

LEMMA HandleOtherKeeps ==
  ASSUME IInv, DaemonProofs!IInv', HandleOther
  PROVE  OwnInv'
<1>1. OwnInv /\ TableInv(sources) /\ TableInv(sources')
  <2>1. TableInv(sources')
    BY DEF DaemonProofs!IInv, DaemonProofs!TypeOK, DaemonProofs!TableSound,
           DaemonProofs!FramebufferOwnership, TableInv
  <2>2. QED
    BY <2>1, OwnFacts, TableInvFacts
<1>2. /\ up /\ held' = IF GuestFb' = NoFb THEN None ELSE held
      /\ UNCHANGED <<picture, scanout, content, index, pc, recent, queue, up, missed>>
  BY DEF HandleOther, guestVars, ringVars
<1>3. RingType' /\ QueueType'
  BY <1>1, <1>2 DEF OwnInv, RingType, QueueType
<1>4. HeldInv'
  <2>1. /\ GuestFb = NoFb <=> ~HasPicture(sources)
        /\ GuestFb' = NoFb <=> ~HasPicture(sources')
    BY <1>1, GuestFbFacts
  <2>2. HasPicture(sources') => HasPicture(sources)
    BY OtherGivesNoPicture DEF IInv
  <2>3. QED
    BY <1>1, <1>2, <2>1, <2>2 DEF OwnInv, HeldInv
<1>5. RingInv' /\ DownInv'
  BY <1>1, <1>2 DEF OwnInv, RingInv, Back, DownInv
<1>6. SlotsInv'
  BY <1>1, <1>2 DEF OwnInv, SlotsInv, Waiting, Back
<1>7. QED
  BY <1>3, <1>4, <1>5, <1>6 DEF OwnInv

LEMMA DaemonStopsKeeps ==
  ASSUME IInv, DaemonProofs!IInv', DaemonStops
  PROVE  OwnInv'
<1>1. OwnInv /\ TableInv(sources) /\ TableInv(sources')
  <2>1. TableInv(sources')
    BY DEF DaemonProofs!IInv, DaemonProofs!TypeOK, DaemonProofs!TableSound,
           DaemonProofs!FramebufferOwnership, TableInv
  <2>2. QED
    BY <2>1, OwnFacts, TableInvFacts
<1>2. /\ up' = FALSE /\ queue' = <<>> /\ held' = None /\ missed' = FALSE
      /\ Daemon!Restart \/ Daemon!Crash
      /\ UNCHANGED <<picture, scanout, content, index, pc, recent>>
  BY DEF DaemonStops, guestVars, ringVars
<1>3. RingType' /\ QueueType'
  <2>1. <<>> \in Seq(RingSlots \cup {Old}) /\ Len(<<>>) <= QueueMax
    OBVIOUS
  <2>2. QueueType'
    BY <1>2, <2>1 DEF QueueType
  <2>3. QED
    BY <1>1, <1>2, <2>2 DEF OwnInv, RingType
<1>4. HeldInv'
  <2>1. GuestFb' = NoFb <=> ~HasPicture(sources')
    BY <1>1, GuestFbFacts
  <2>2. ~HasPicture(sources')
    BY <1>2, RestartTakesPicture
  <2>3. QED
    BY <1>2, <2>1, <2>2 DEF HeldInv
<1>5. RingInv' /\ DownInv'
  BY <1>1, <1>2 DEF OwnInv, RingInv, Back, DownInv
<1>6. SlotsInv'
  BY <1>2 DEF SlotsInv
<1>7. QED
  BY <1>3, <1>4, <1>5, <1>6 DEF OwnInv

LEMMA QuietKeeps ==
  ASSUME OwnInv, DaemonStarts \/ UNCHANGED vars
  PROVE  OwnInv'
<1>1. /\ UNCHANGED <<picture, scanout, content, index, pc, recent, queue, held, missed>>
      /\ GuestFb' = GuestFb /\ up' \in {up, TRUE}
  BY GuestFbStays DEF DaemonStarts, vars, guestVars, ringVars
<1>2. RingType' /\ QueueType' /\ HeldInv' /\ DownInv'
  BY <1>1 DEF OwnInv, RingType, QueueType, HeldInv, DownInv
<1>3. RingInv' /\ SlotsInv'
  BY <1>1 DEF OwnInv, RingInv, SlotsInv, Waiting, Back
<1>4. QED
  BY <1>2, <1>3 DEF OwnInv

----------------------------------------------------------------------------
LEMMA InitIInv == Init => IInv
<1> SUFFICES ASSUME Init PROVE IInv
  OBVIOUS
<1>1. /\ picture = 0 /\ scanout = FALSE
      /\ content = [k \in RingSlots |-> 0] /\ index = 0
      /\ pc = "idle" /\ recent = FALSE
      /\ queue = <<>> /\ up = FALSE /\ held = None /\ missed = FALSE
      /\ DaemonProofs!Init
  BY SameTypes DEF Init
<1>2. DaemonProofs!IInv
  BY <1>1, DaemonAssumed, DaemonProofs!InitIInv
<1>3. 0 \in RingSlots
  BY DEF RingSlots
<1>4. RingType /\ QueueType
  BY <1>1, <1>3 DEF RingType, QueueType
<1>5. HeldInv
  <2>1. Daemon!Init
    BY DEF Init
  <2>2. sources = [s \in Slots |-> Daemon!EmptySource] /\ Daemon!EmptySource.name = NoName
    BY <2>1 DEF Daemon!Init, Daemon!EmptySource
  <2>3. Daemon!Named(Guest) = {}
    BY <2>2 DEF Daemon!Named
  <2>4. QED
    BY <1>1, <2>3 DEF HeldInv, GuestFb
<1>6. RingInv
  <2>1. \A a \in RingSlots : Back(a) \in RingSlots
    BY <1>1, <1>3, BackFacts
  <2>2. \A k \in RingSlots : content[k] = 0
    BY <1>1
  <2>3. QED
    BY <1>1, <2>1, <2>2 DEF RingInv
<1>7. SlotsInv /\ DownInv
  BY <1>1 DEF SlotsInv, DownInv
<1>8. QED
  BY <1>2, <1>4, <1>5, <1>6, <1>7, OwnFacts DEF OwnInv

LEMMA StepIInv == IInv /\ [Next]_vars => IInv'
<1> SUFFICES ASSUME IInv, [Next]_vars PROVE IInv'
  OBVIOUS
<1>1. OwnInv /\ DaemonProofs!IInv /\ DaemonProofs!IInv'
  BY OwnFacts, DaemonKeeps
<1>2. OwnInv'
  <2>1. CASE GuestDraws
    BY <1>1, <2>1, GuestDrawsKeeps
  <2>2. CASE Exported \/ NotExported
    BY <1>1, <2>2, ExportedKeeps, NotExportedKeeps
  <2>3. CASE SendSnapshot
    BY <1>1, <2>3, SendSnapshotKeeps
  <2>4. CASE SendRefused
    BY <1>1, <2>4, SendRefusedKeeps
  <2>5. CASE ThrottleEnds
    BY <1>1, <2>5, ThrottleEndsKeeps
  <2>6. CASE ScanoutDisable
    BY <1>1, <2>6, ScanoutDisableKeeps
  <2>7. CASE HandleSnapshot
    BY <1>1, <2>7, HandleSnapshotKeeps
  <2>8. CASE HandleOther
    BY <1>1, <2>8, HandleOtherKeeps
  <2>9. CASE DaemonStops
    BY <1>1, <2>9, DaemonStopsKeeps
  <2>10. CASE DaemonStarts \/ UNCHANGED vars
    BY <1>1, <2>10, QuietKeeps
  <2>11. QED
    BY <2>1, <2>2, <2>3, <2>4, <2>5, <2>6, <2>7, <2>8, <2>9, <2>10
       DEF Next, GlUpdate, GlUpdateFails, ScanoutDmabuf
<1>3. (OwnInv /\ DaemonProofs!IInv)' => IInv'
  BY OwnFacts, PTL
<1>4. QED
  BY <1>1, <1>2, <1>3

----------------------------------------------------------------------------
(***************************************************************************)
(* The snapshots on their way.                                             *)
(***************************************************************************)
\* What the daemon holds comes first, and what sendmsg has comes last.
LEMMA OnTheWayFacts ==
  ASSUME RingType, QueueType, NEW h, h = IF held = None THEN 0 ELSE 1
  PROVE  /\ DOMAIN OnTheWay = 1 .. h + Waiting
         /\ \A i \in 1 .. h + Waiting :
              OnTheWay[i] = IF i <= h THEN held
                            ELSE IF i <= h + Len(queue) THEN queue[i - h] ELSE index
<1> DEFINE E == RingSlots \cup {Old, None}
           first == IF held = None THEN <<>> ELSE <<held>>
           last == IF pc = "send" THEN <<index>> ELSE <<>>
           m == IF pc = "send" THEN 1 ELSE 0
<1>1. /\ first \in Seq(E) /\ Len(first) = h /\ h \in 0 .. 1
      /\ h = 1 => first[1] = held
  <2>1. CASE held = None
    BY <2>1
  <2>2. CASE held # None
    BY <2>2 DEF QueueType
  <2>3. QED
    BY <2>1, <2>2
<1>2. /\ last \in Seq(E) /\ Len(last) = m /\ m \in 0 .. 1
      /\ m = 1 => last[1] = index
  <2>1. CASE pc = "send"
    BY <2>1 DEF RingType
  <2>2. CASE pc # "send"
    BY <2>2
  <2>3. QED
    BY <2>1, <2>2
<1>3. queue \in Seq(E) /\ Len(queue) \in Nat
  BY DEF QueueType
<1>4. OnTheWay = first \o queue \o last /\ Waiting = Len(queue) + m
  BY DEF OnTheWay, Waiting
<1> HIDE DEF E, first, last, m
<1>5. /\ first \o queue \in Seq(E) /\ Len(first \o queue) = h + Len(queue)
      /\ \A i \in 1 .. h + Len(queue) :
           (first \o queue)[i] = IF i <= h THEN first[i] ELSE queue[i - h]
  BY <1>1, <1>3, ConcatProperties
<1>6. /\ OnTheWay \in Seq(E) /\ Len(OnTheWay) = h + Len(queue) + m
      /\ \A i \in 1 .. h + Len(queue) + m :
           OnTheWay[i] = IF i <= h + Len(queue) THEN (first \o queue)[i] ELSE last[i - (h + Len(queue))]
  BY <1>1, <1>2, <1>3, <1>4, <1>5
<1>7. h + Waiting = h + Len(queue) + m
  BY <1>1, <1>2, <1>3, <1>4
<1>8. DOMAIN OnTheWay = 1 .. h + Waiting
  BY <1>6, <1>7
<1>9. ASSUME NEW i \in 1 .. h + Waiting
      PROVE  OnTheWay[i] = IF i <= h THEN held
                           ELSE IF i <= h + Len(queue) THEN queue[i - h] ELSE index
  <2>1. CASE i <= h + Len(queue)
    <3>1. i \in 1 .. h + Len(queue) /\ OnTheWay[i] = (first \o queue)[i]
      BY <1>1, <1>2, <1>3, <1>6, <1>7, <1>9, <2>1
    <3>2. i <= h => i = 1 /\ h = 1
      BY <1>1, <1>3, <3>1
    <3>3. QED
      BY <1>1, <1>5, <2>1, <3>1, <3>2
  <2>2. CASE ~ (i <= h + Len(queue))
    <3>1. m = 1 /\ i - (h + Len(queue)) = 1 /\ ~ (i <= h)
      BY <1>1, <1>2, <1>3, <1>7, <1>9, <2>2
    <3>2. QED
      BY <1>2, <1>6, <1>7, <1>9, <2>2, <3>1
  <2>3. QED
    BY <2>1, <2>2
<1>10. QED
  BY <1>8, <1>9

\* They are what one meets going back, the last one at the end.
LEMMA Consecutive ==
  ASSUME OwnInv, Waiting < Ring, ~missed
  PROVE  \E n \in Nat :
           /\ DOMAIN OnTheWay = 1 .. n
           /\ \A i \in 1 .. n :
                OnTheWay[i] # Old =>
                  /\ n - i \in RingSlots /\ OnTheWay[i] = Back(n - i)
                  /\ \A j \in 1 .. n : i < j => OnTheWay[j] # Old
<1>1. RingType /\ QueueType /\ SlotsInv /\ index \in RingSlots /\ index # Old
  BY DEF OwnInv, RingType, RingSlots
<1>2. PICK h \in 0 .. 1 : h = IF held = None THEN 0 ELSE 1
  OBVIOUS
<1>3. /\ DOMAIN OnTheWay = 1 .. h + Waiting
      /\ \A i \in 1 .. h + Waiting :
           OnTheWay[i] = IF i <= h THEN held
                         ELSE IF i <= h + Len(queue) THEN queue[i - h] ELSE index
  BY <1>1, <1>2, OnTheWayFacts
<1>4. /\ Len(queue) \in Nat /\ Waiting \in Len(queue) .. Len(queue) + 1
      /\ DOMAIN queue = 1 .. Len(queue)
  BY <1>1 DEF QueueType, Waiting
<1>5. ASSUME NEW i \in 1 .. h + Waiting, OnTheWay[i] # Old
      PROVE  /\ (h + Waiting) - i \in RingSlots /\ OnTheWay[i] = Back((h + Waiting) - i)
             /\ \A j \in 1 .. h + Waiting : i < j => OnTheWay[j] # Old
  <2>1. CASE i <= h
    <3>1. i = 1 /\ h = 1 /\ OnTheWay[i] = held /\ held \notin {Old, None}
      BY <1>2, <1>3, <1>5, <2>1
    <3>2. held = Back(Waiting) /\ \A j \in DOMAIN queue : queue[j] # Old
      BY <1>1, <3>1 DEF SlotsInv
    <3>3. (h + Waiting) - i = Waiting /\ Waiting \in RingSlots
      BY <1>4, <3>1 DEF RingSlots
    <3>4. ASSUME NEW j \in 1 .. h + Waiting, i < j PROVE OnTheWay[j] # Old
      <4>1. CASE j <= h + Len(queue)
        <5>1. j - h \in DOMAIN queue /\ OnTheWay[j] = queue[j - h]
          BY <1>3, <1>4, <3>1, <3>4, <4>1
        <5>2. QED
          BY <3>2, <5>1
      <4>2. CASE ~ (j <= h + Len(queue))
        BY <1>1, <1>3, <3>1, <3>4, <4>2
      <4>3. QED
        BY <4>1, <4>2
    <3>5. QED
      BY <3>1, <3>2, <3>3, <3>4
  <2>2. CASE ~ (i <= h) /\ i <= h + Len(queue)
    <3>1. i - h \in DOMAIN queue /\ OnTheWay[i] = queue[i - h] /\ queue[i - h] # Old
      BY <1>2, <1>3, <1>4, <1>5, <2>2
    <3>2. (h + Waiting) - i = Waiting - (i - h) /\ Waiting - (i - h) \in RingSlots
      BY <1>2, <1>4, <2>2, <3>1 DEF RingSlots
    <3>3. Waiting - (i - h) < Ring
      BY <3>2 DEF RingSlots
    <3>4. /\ queue[i - h] = Back(Waiting - (i - h))
          /\ \A j \in DOMAIN queue : i - h < j => queue[j] # Old
      BY <1>1, <3>1, <3>3 DEF SlotsInv
    <3>5. ASSUME NEW j \in 1 .. h + Waiting, i < j PROVE OnTheWay[j] # Old
      <4>1. CASE j <= h + Len(queue)
        <5>1. j - h \in DOMAIN queue /\ i - h < j - h /\ OnTheWay[j] = queue[j - h]
          BY <1>2, <1>3, <1>4, <2>2, <3>5, <4>1
        <5>2. QED
          BY <3>4, <5>1
      <4>2. CASE ~ (j <= h + Len(queue))
        <5>1. ~ (j <= h)
          BY <1>2, <1>4, <4>2
        <5>2. QED
          BY <1>1, <1>3, <3>5, <4>2, <5>1
      <4>3. QED
        BY <4>1, <4>2
    <3>6. QED
      BY <3>1, <3>2, <3>4, <3>5
  <2>3. CASE ~ (i <= h) /\ ~ (i <= h + Len(queue))
    <3>1. OnTheWay[i] = index /\ i = h + Waiting
      BY <1>2, <1>3, <1>4, <1>5, <2>3
    <3>2. (h + Waiting) - i = 0 /\ 0 \in RingSlots
      BY <1>2, <1>4, <3>1 DEF RingSlots
    <3>3. QED
      BY <1>1, <1>2, <1>4, <3>1, <3>2, BackFacts
  <2>4. QED
    BY <2>1, <2>2, <2>3
<1>6. h + Waiting \in Nat
  BY <1>2, <1>4
<1>7. QED
  BY <1>3, <1>5, <1>6

----------------------------------------------------------------------------
\* The ring holds the latest pictures, the snapshots on their way are its last slots in
\* the order in which they were drawn, and the daemon's part is that of Outputd
\* (publish_snapshot_dmabuf, recv_one).
THEOREM Invariant == Spec => []IInv
BY InitIInv, StepIInv, PTL DEF Spec

\* The type invariant: the daemon has a snapshot of the machine exactly as long as its
\* table has a framebuffer for it (struct Source of gvt-outputd.c, publish_fb of
\* gvt-stream.c).
THEOREM TypeCorrect == Spec => []TypeOK
<1>1. IInv => TypeOK
  BY DEF IInv
<1>2. QED
  BY <1>1, Invariant, PTL

\* Among the machines' QEMUs the daemon is gvt-outputd of module Outputd, so all that
\* OutputdProofs shows of it holds here: waiting, losing and repeating frames makes
\* nothing of it that it is not alone.
THEOREM DaemonIsOutputd == Spec => Daemon!Spec
<1>1. Init => Daemon!Init
  BY DEF Init
<1>2. [Next]_vars => [Daemon!Next]_(Daemon!vars)
  BY DaemonStep DEF daemonVars, Daemon!vars
<1>3. QED
  BY <1>1, <1>2, PTL DEF Spec, Daemon!Spec

\* While fewer snapshots wait than the ring has slots, and none was lost, QEMU draws
\* neither into the one on the monitor nor into one that waits, and the monitor goes
\* through the guest's pictures in order, for a ring and a socket of any size
\* (publish_fb_index, recv_one).
THEOREM PicturesInOrder == Spec => []InOrder
<1>1. IInv => InOrder
  <2>1. SUFFICES ASSUME OwnInv, Waiting < Ring, ~missed,
                        NEW i \in DOMAIN OnTheWay, NEW j \in DOMAIN OnTheWay,
                        i < j, OnTheWay[i] # Old
                 PROVE  /\ OnTheWay[i] # OnTheWay[j]
                        /\ content[OnTheWay[i]] <= content[OnTheWay[j]]
    BY OwnFacts DEF InOrder, Waiting
  <2>2. PICK n \in Nat :
          /\ DOMAIN OnTheWay = 1 .. n
          /\ \A x \in 1 .. n :
               OnTheWay[x] # Old =>
                 /\ n - x \in RingSlots /\ OnTheWay[x] = Back(n - x)
                 /\ \A y \in 1 .. n : x < y => OnTheWay[y] # Old
    BY <2>1, Consecutive
  <2>3. /\ n - i \in RingSlots /\ OnTheWay[i] = Back(n - i)
        /\ n - j \in RingSlots /\ OnTheWay[j] = Back(n - j)
    BY <2>1, <2>2
  <2>4. n - j <= n - i /\ n - j # n - i
    BY <2>1, <2>2
  <2>5. Back(n - i) # Back(n - j)
    BY <2>1, <2>3, <2>4, BackFacts DEF OwnInv, RingType
  <2>6. content[Back(n - i)] <= content[Back(n - j)]
    BY <2>1, <2>3, <2>4 DEF OwnInv, RingInv
  <2>7. QED
    BY <2>3, <2>5, <2>6
<1>2. QED
  BY <1>1, Invariant, PTL

=============================================================================
