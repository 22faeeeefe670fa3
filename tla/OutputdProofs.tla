--------------------------- MODULE OutputdProofs ---------------------------
(***************************************************************************)
(* Theorems about Outputd for every set of machines, size of the table,    *)
(* set of framebuffer ids and set of calls that may be refused.            *)
(*                                                                         *)
(* IInv is the inductive invariant: the parts need each other.  That a     *)
(* framebuffer belongs to one source needs that no source is registered    *)
(* twice; that a picture left behind was counted needs that a picture is   *)
(* on the plane only while kms.active is set.                              *)
(***************************************************************************)
EXTENDS Outputd, TLAPS

IInv ==
  /\ TypeOK
  /\ TableSound
  /\ FramebufferOwnership
  /\ FramebuffersNeedKms
  /\ NothingLeftBehind

CursorType == [state : {"absent", "hidden", "shown", "left"}, at : Positions \cup {NoPos}]

USE OutputdAssumption

----------------------------------------------------------------------------
(***************************************************************************)
(* The table.                                                              *)
(***************************************************************************)
\* What a handler can rely on once get_source has returned a slot.
LEMMA ClaimedFacts ==
  ASSUME TypeOK, TableSound, FramebufferOwnership, NEW n \in Names, NEW s \in SlotsFor(n)
  PROVE  /\ s \in Slots
         /\ Claimed(n, s) \in [Slots -> Source]
         /\ Claimed(n, s)[s].name = n
         /\ \A x \in Slots : Claimed(n, s)[x].fb = sources[x].fb
         /\ \A x \in Slots \ {s} : Claimed(n, s)[x] = sources[x] /\ sources[x].name # n
<1>1. s \in Slots
  BY DEF SlotsFor, Named
<1>2. CASE Named(n) # {}
  <2>1. s \in Named(n) /\ Claimed(n, s) = sources
    BY <1>2 DEF SlotsFor, Named, Claimed
  <2>2. QED
    BY <1>1, <2>1 DEF TypeOK, TableSound, Named, Source
<1>3. CASE Named(n) = {}
  <2>1. s \in Named(NoName) /\ \A x \in Slots : sources[x].name # n
    BY <1>3 DEF SlotsFor, Named
  <2>2. Claimed(n, s) = [sources EXCEPT ![s] = [EmptySource EXCEPT !.name = n]]
    BY <1>1, <2>1 DEF Claimed
  <2>3. [EmptySource EXCEPT !.name = n] \in Source
    BY DEF EmptySource, Source
  <2>4. sources[s].fb = NoFb
    BY <1>1, <2>1 DEF FramebufferOwnership, Named
  <2>5. [EmptySource EXCEPT !.name = n].fb = NoFb /\ [EmptySource EXCEPT !.name = n].name = n
    BY DEF EmptySource
  <2>6. QED
    BY <1>1, <2>1, <2>2, <2>3, <2>4, <2>5 DEF TypeOK
<1>4. QED
  BY <1>2, <1>3

----------------------------------------------------------------------------
(***************************************************************************)
(* The outcomes of the shared parts.                                       *)
(***************************************************************************)
LEMMA BroughtUpFacts ==
  ASSUME TypeOK, FramebuffersNeedKms, NEW k \in BroughtUp
  PROVE  /\ k.card \in {"closed", "caps", "nocaps"}
         /\ k.ready \in BOOLEAN
         /\ k.ready => k.card = "caps"
         /\ ready => k.ready
<1>1. CASE ready
  <2>1. k = [card |-> card, ready |-> TRUE]
    BY <1>1 DEF BroughtUp
  <2>2. card = "caps"
    BY <1>1 DEF FramebuffersNeedKms
  <2>3. QED
    BY <2>1, <2>2
<1>2. CASE ~ready
  <2>1. PICK c \in {"closed", "caps", "nocaps"} :
           k = [card |-> c, ready |-> FALSE] \/ (c = "caps" /\ k = [card |-> c, ready |-> TRUE])
    BY <1>2 DEF BroughtUp, Answers, TypeOK
  <2>2. CASE k = [card |-> c, ready |-> FALSE]
    BY <1>2, <2>2
  <2>3. CASE c = "caps" /\ k = [card |-> c, ready |-> TRUE]
    BY <1>2, <2>3
  <2>4. QED
    BY <2>1, <2>2, <2>3
<1>3. QED
  BY <1>1, <1>2

LEMMA MovedFacts ==
  ASSUME NEW c \in CursorType, NEW src \in Source, NEW up \in BOOLEAN, NEW m \in Moved(c, src, up)
  PROVE  /\ m.cursor \in CursorType
         /\ m.failed \in BOOLEAN
         /\ m.cursor.state = c.state \/ up
<1>1. CASE src.cursor = NoPos \/ up = FALSE
  <2>1. m = [cursor |-> c, failed |-> FALSE]
    <3>1. CASE src.cursor = NoPos
      BY <3>1 DEF Moved
    <3>2. CASE up = FALSE
      BY <3>2 DEF Moved
    <3>3. QED
      BY <1>1, <3>1, <3>2
  <2>2. QED
    BY <2>1
<1>2. CASE src.cursor # NoPos /\ up = TRUE
  <2>1. \/ m = [cursor |-> c, failed |-> TRUE]
        \/ m = [cursor |-> [c EXCEPT !.state = "shown"], failed |-> TRUE]
        \/ m = [cursor |-> [state |-> "shown", at |-> src.cursor], failed |-> FALSE]
    BY <1>2 DEF Moved, Answers
  <2>2. src.cursor \in Positions \cup {NoPos}
    BY DEF Source
  <2>3. CASE m = [cursor |-> c, failed |-> TRUE]
    BY <1>2, <2>3
  <2>4. CASE m = [cursor |-> [c EXCEPT !.state = "shown"], failed |-> TRUE]
    BY <1>2, <2>4 DEF CursorType
  <2>5. CASE m = [cursor |-> [state |-> "shown", at |-> src.cursor], failed |-> FALSE]
    BY <1>2, <2>2, <2>5 DEF CursorType
  <2>6. QED
    BY <2>1, <2>3, <2>4, <2>5
<1>3. QED
  BY <1>1, <1>2

LEMMA HiddenFacts ==
  ASSUME NEW c \in CursorType, NEW h \in Hidden(c)
  PROVE  /\ h \in CursorType
         /\ h.state # "absent" => c.state # "absent"
         /\ ready => h.state # "shown"
<1>1. CASE ready /\ c.state = "shown"
  <2>1. \/ h = [c EXCEPT !.state = "hidden"]
        \/ h = [c EXCEPT !.state = "left"]
    BY <1>1 DEF Hidden, Answers
  <2>2. QED
    BY <1>1, <2>1 DEF CursorType
<1>2. CASE ~(ready /\ c.state = "shown")
  BY <1>2 DEF Hidden
<1>3. QED
  BY <1>1, <1>2

LEMMA PresentedFacts ==
  ASSUME TypeOK, NEW src \in Source, NEW table, NEW p \in Presented(src, table)
  PROVE  /\ p.shown \in BOOLEAN /\ p.failed \in BOOLEAN
         /\ p.cursor \in CursorType
         /\ p.shown => src.fb # NoFb
         /\ p.shown \/ p.cursor = cursor
<1>1. cursor \in CursorType
  BY DEF TypeOK, CursorType
<1>2. CASE p = NotPresented(FALSE) \/ p = NotPresented(TRUE)
  <2>1. CASE p = [shown |-> FALSE, failed |-> FALSE, cursor |-> cursor]
    BY <1>1, <2>1
  <2>2. CASE p = [shown |-> FALSE, failed |-> TRUE, cursor |-> cursor]
    BY <1>1, <2>2
  <2>3. QED
    BY <1>2, <2>1, <2>2 DEF NotPresented
<1>3. CASE ~ (p = NotPresented(FALSE) \/ p = NotPresented(TRUE))
  <2>1. src.fb # NoFb
    BY <1>3 DEF Presented
  <2>2. PICK m \in Moved(cursor, src, TRUE) :
          p = [shown |-> TRUE, failed |-> m.failed, cursor |-> m.cursor]
    BY <1>3, <2>1 DEF Presented
  <2>3. m.cursor \in CursorType /\ m.failed \in BOOLEAN
    BY <1>1, MovedFacts
  <2>4. QED
    BY <2>1, <2>2, <2>3
<1>4. QED
  BY <1>2, <1>3

\* What one outcome of clear_output is made of.
ClearedFactsOf(scr, c) ==
  /\ c.lit \in BOOLEAN /\ c.failed \in BOOLEAN /\ c.cursor \in CursorType
  /\ c.lit => lit
  /\ c.cursor.state # "absent" => cursor.state # "absent"
  /\ c.screen \in {scr, NoFb}
  /\ c.screen # NoFb => c.lit
  /\ c.screen # NoFb \/ c.cursor.state = "shown" => c.lit /\ c.failed

LEMMA ClearedFacts ==
  ASSUME TypeOK, FramebuffersNeedKms, NEW scr \in {screen, NoFb}, NEW c \in Cleared(scr)
  PROVE  /\ c.lit \in BOOLEAN /\ c.failed \in BOOLEAN /\ c.cursor \in CursorType
         /\ c.lit => lit
         /\ c.cursor.state # "absent" => cursor.state # "absent"
         /\ c.screen \in {scr, NoFb}
         /\ c.screen # NoFb => c.lit
         /\ c.screen # NoFb \/ c.cursor.state = "shown" => c.lit /\ c.failed
<1>1. cursor \in CursorType
  BY DEF TypeOK, CursorType
<1>2. CASE ~ready \/ ~lit
  <2>1. PICK h \in Hidden(cursor) :
          c = [lit |-> lit, screen |-> scr, cursor |-> h, failed |-> FALSE]
    BY <1>2 DEF Cleared
  <2>2. scr = NoFb
    BY <1>2 DEF FramebuffersNeedKms
  <2>3. /\ h \in CursorType
        /\ h.state # "absent" => cursor.state # "absent"
        /\ ready => h.state # "shown"
    BY <1>1, HiddenFacts
  <2>4. h.state # "shown"
    BY <2>3 DEF FramebuffersNeedKms
  <2>5. QED
    BY <2>1, <2>2, <2>3, <2>4 DEF TypeOK
<1>3. CASE ready /\ lit
  <2>1. \/ c \in { [lit |-> FALSE, screen |-> NoFb, cursor |-> h, failed |-> FALSE] : h \in Hidden(cursor) }
        \/ c = [lit |-> lit, screen |-> scr, cursor |-> cursor, failed |-> TRUE]
    BY <1>3 DEF Cleared
  <2>2. ASSUME NEW h \in Hidden(cursor), c = [lit |-> FALSE, screen |-> NoFb, cursor |-> h, failed |-> FALSE]
        PROVE  ClearedFactsOf(scr, c)
    BY <1>1, <1>3, <2>2, HiddenFacts DEF ClearedFactsOf
  <2>3. CASE c = [lit |-> lit, screen |-> scr, cursor |-> cursor, failed |-> TRUE]
    BY <1>1, <1>3, <2>3
  <2>4. QED
    BY <2>1, <2>2, <2>3 DEF ClearedFactsOf
<1>4. QED
  BY <1>2, <1>3 DEF TypeOK

----------------------------------------------------------------------------
(***************************************************************************)
(* The table after a message of source n.                                  *)
(***************************************************************************)
\* A table that keeps every framebuffer, and every name but that of slot s, which
\* is n, is as sound as the one before.
LEMMA SameFramebuffers ==
  ASSUME IInv, NEW n \in Names, NEW s \in SlotsFor(n), NEW t \in [Slots -> Source],
         t[s].name = n, t[s].fb = sources[s].fb,
         \A x \in Slots \ {s} : t[x] = sources[x],
         sources' = t, fbs' = fbs
  PROVE  /\ FramebufferOwnership'
         /\ \A x, y \in Slots : t[x].name = t[y].name /\ t[x].name # NoName => x = y
         /\ \A x \in Slots : t[x].fb = sources[x].fb
         /\ \A x \in Slots : sources[x].name # NoName => t[x].name # NoName
<1>1. s \in Slots /\ \A x \in Slots \ {s} : sources[x].name # n
  BY ClaimedFacts DEF IInv
<1>2. n # NoName
  OBVIOUS
<1>3. \A x \in Slots : t[x].fb = sources[x].fb
  BY <1>1
<1>4. \A x, y \in Slots : t[x].name = t[y].name /\ t[x].name # NoName => x = y
  BY <1>1 DEF IInv, TableSound
<1>5. \A x \in Slots : sources[x].name # NoName => t[x].name # NoName
  BY <1>1, <1>2
<1>6. FramebufferOwnership'
  BY <1>3, <1>5 DEF IInv, FramebufferOwnership, Live
<1>7. QED
  BY <1>3, <1>4, <1>5, <1>6

LEMMA FramedFacts ==
  ASSUME IInv, NEW n \in Names, NEW g \in Geoms, NEW s \in SlotsFor(n)
  PROVE  /\ s \in Slots
         /\ Framed(n, g, s) \in [Slots -> Source]
         /\ Framed(n, g, s)[s].name = n
         /\ Framed(n, g, s)[s].fb = sources[s].fb
         /\ Framed(n, g, s)[s].geom = g
         /\ \A x \in Slots \ {s} : Framed(n, g, s)[x] = sources[x] /\ sources[x].name # n
<1>1. /\ s \in Slots
      /\ Claimed(n, s) \in [Slots -> Source]
      /\ Claimed(n, s)[s].name = n
      /\ Claimed(n, s)[s].fb = sources[s].fb
      /\ \A x \in Slots \ {s} : Claimed(n, s)[x] = sources[x] /\ sources[x].name # n
  BY ClaimedFacts DEF IInv
<1>2. Framed(n, g, s)[s] = [Claimed(n, s)[s] EXCEPT !.geom = g]
  BY <1>1 DEF Framed
<1>3. [Claimed(n, s)[s] EXCEPT !.geom = g] \in Source
  BY <1>1 DEF Source
<1>4. Framed(n, g, s) \in [Slots -> Source]
  BY <1>1, <1>3 DEF Framed
<1>5. \A x \in Slots \ {s} : Framed(n, g, s)[x] = Claimed(n, s)[x]
  BY <1>1 DEF Framed
<1>6. /\ [Claimed(n, s)[s] EXCEPT !.geom = g].name = n
      /\ [Claimed(n, s)[s] EXCEPT !.geom = g].fb = sources[s].fb
      /\ [Claimed(n, s)[s] EXCEPT !.geom = g].geom = g
  BY <1>1 DEF Source
<1>7. QED
  BY <1>1, <1>2, <1>4, <1>5, <1>6

\* A new framebuffer replaces that of the source and the old one is removed.
LEMMA Replaced ==
  ASSUME IInv, NEW n \in Names, NEW g \in Geoms, NEW s \in SlotsFor(n), NEW f \in FreeFbs,
         sources' = [Framed(n, g, s) EXCEPT ![s].fb = f],
         fbs' = Removed(Added(f, g), Claimed(n, s)[s].fb)
  PROVE  /\ sources' \in [Slots -> Source]
         /\ fbs' \in [FBs -> Geoms \cup {0}]
         /\ f \in FBs /\ f # NoFb /\ ~Live(f) /\ Live(f)'
         /\ sources'[s].fb = f
         /\ \A x \in Slots : sources[x].name # NoName => sources'[x].name # NoName
         /\ sources'[s].name = n
         /\ \A x \in Slots \ {s} : sources'[x] = sources[x]
         /\ \A x, y \in Slots :
              sources'[x].name = sources'[y].name /\ sources'[x].name # NoName => x = y
         /\ FramebufferOwnership'
<1> DEFINE old == sources[s].fb
<1>1. f \in FBs /\ fbs[f] = 0 /\ f # NoFb /\ g # 0 /\ g \in Geoms
  BY DEF FreeFbs, Live
<1>2. Claimed(n, s)[s].fb = old /\ s \in Slots
  BY ClaimedFacts DEF IInv
<1>3. f # old
  BY <1>1, <1>2 DEF IInv, FramebufferOwnership, Live
<1>4. /\ fbs' = [x \in FBs |-> IF x = old THEN 0 ELSE [fbs EXCEPT ![f] = g][x]]
      /\ fbs \in [FBs -> Geoms \cup {0}]
  BY <1>2 DEF Removed, Added, IInv, TypeOK
<1>5. fbs' \in [FBs -> Geoms \cup {0}]
  BY <1>1, <1>4
<1>6. fbs'[f] = g /\ \A x \in FBs \ {f} : fbs'[x] = IF x = old THEN 0 ELSE fbs[x]
  BY <1>1, <1>3, <1>4
<1>7. sources'[s] = [Framed(n, g, s)[s] EXCEPT !.fb = f]
  BY <1>2, FramedFacts
<1>8. /\ [Framed(n, g, s)[s] EXCEPT !.fb = f] \in Source
      /\ [Framed(n, g, s)[s] EXCEPT !.fb = f].fb = f
      /\ [Framed(n, g, s)[s] EXCEPT !.fb = f].name = n
  <2>1. Framed(n, g, s)[s] \in Source /\ Framed(n, g, s)[s].name = n
    BY <1>2, FramedFacts
  <2>2. QED
    BY <1>1, <2>1 DEF Source
<1>9. \A x \in Slots \ {s} : sources'[x] = sources[x] /\ sources[x].name # n
  BY <1>2, FramedFacts
<1>10. sources' \in [Slots -> Source]
  BY <1>7, <1>8, FramedFacts
<1>11. n # NoName
  OBVIOUS
<1>12. \A x, y \in Slots :
         sources'[x].name = sources'[y].name /\ sources'[x].name # NoName => x = y
  BY <1>7, <1>8, <1>9 DEF IInv, TableSound
<1>13. FramebufferOwnership'
  <2>1. \A x \in Slots : sources'[x].fb # NoFb => sources'[x].name # NoName /\ fbs'[sources'[x].fb] # 0
    <3> SUFFICES ASSUME NEW x \in Slots, sources'[x].fb # NoFb
                 PROVE  sources'[x].name # NoName /\ fbs'[sources'[x].fb] # 0
      OBVIOUS
    <3>1. CASE x = s
      <4>1. sources'[s].fb = f /\ sources'[s].name = n
        BY <1>7, <1>8
      <4>2. fbs'[f] # 0
        BY <1>1, <1>6
      <4>3. QED
        BY <3>1, <4>1, <4>2, <1>11
    <3>2. CASE x # s
      <4>1. sources'[x] = sources[x]
        BY <3>2, <1>9
      <4>2. /\ sources[x].fb \in FBs /\ sources[x].name # NoName /\ fbs[sources[x].fb] # 0
            /\ sources[x].fb # old
        BY <3>2, <4>1, <1>2 DEF IInv, FramebufferOwnership, Live, TypeOK, Source
      <4>3. QED
        BY <4>1, <4>2, <1>1, <1>6
    <3>3. QED
      BY <3>1, <3>2
  <2>2. \A h \in FBs : fbs'[h] # 0 => \E x \in Slots : sources'[x].fb = h
    <3> SUFFICES ASSUME NEW h \in FBs, fbs'[h] # 0
                 PROVE  \E x \in Slots : sources'[x].fb = h
      OBVIOUS
    <3>1. CASE h = f
      BY <3>1, <1>2, <1>7, <1>8
    <3>2. CASE h # f
      <4>1. h # old /\ fbs[h] # 0
        BY <3>2, <1>6
      <4>2. PICK x \in Slots : sources[x].fb = h
        BY <4>1 DEF IInv, FramebufferOwnership, Live
      <4>3. QED
        BY <4>1, <4>2, <1>9
    <3>3. QED
      BY <3>1, <3>2
  <2>3. \A x, y \in Slots : sources'[x].fb = sources'[y].fb /\ sources'[x].fb # NoFb => x = y
    <3>1. \A x \in Slots : sources[x].fb # f
      BY <1>1 DEF IInv, FramebufferOwnership, Live
    <3>2. sources'[s].fb = f /\ \A x \in Slots \ {s} : sources'[x].fb = sources[x].fb
      BY <1>7, <1>8, <1>9
    <3>3. \A x, y \in Slots : sources[x].fb = sources[y].fb /\ sources[x].fb # NoFb => x = y
      BY DEF IInv, FramebufferOwnership
    <3>4. QED
      BY <3>1, <3>2, <3>3
  <2>4. QED
    BY <2>1, <2>2, <2>3 DEF FramebufferOwnership, Live
<1>14. QED
  BY <1>1, <1>5, <1>6, <1>7, <1>8, <1>9, <1>10, <1>11, <1>12, <1>13 DEF Live

LEMMA WrittenStatus ==
  ASSUME TypeOK, WriteStatus, sources' \in [Slots -> Source], active' \in Slots \cup {NoSlot}
  PROVE  status' \in Names \cup {NoName, NoFile}
<1>1. ActiveName' \in Names \cup {NoName}
  BY DEF ActiveName, Source
<1>2. status' = ActiveName' \/ status' = status
  BY DEF WriteStatus
<1>3. QED
  BY <1>1, <1>2 DEF TypeOK

----------------------------------------------------------------------------
(***************************************************************************)
(* One lemma per action: it keeps the invariant, and puts on the monitor   *)
(* nothing but the source that is active after it.                         *)
(***************************************************************************)
ShownIsActive ==
  screen' # screen /\ screen' # NoFb => active' # NoSlot /\ screen' = sources'[active'].fb

LEMMA FrameActiveFacts ==
  ASSUME TypeOK, TableSound, NEW s \in Slots
  PROVE  /\ FrameActive(s) \in Slots
         /\ FrameActive(s) = s \/ (FrameActive(s) = active /\ sources[active].name # NoName)
         /\ FrameActive(s) # s => active # NoSlot
BY DEF FrameActive, TypeOK, TableSound

LEMMA FrameNotImportedKeeps ==
  ASSUME IInv, NEW n \in Names, NEW g \in Geoms, NEW s \in SlotsFor(n), FrameNotImported(n, g, s)
  PROVE  IInv' /\ ShownIsActive
<1>1. /\ s \in Slots
      /\ Framed(n, g, s) \in [Slots -> Source]
      /\ Framed(n, g, s)[s].name = n /\ Framed(n, g, s)[s].fb = sources[s].fb
      /\ \A x \in Slots \ {s} : Framed(n, g, s)[x] = sources[x]
  BY FramedFacts
<1>2. sources' = Framed(n, g, s) /\ active' = FrameActive(s)
      /\ UNCHANGED <<lit, cursor, status, fbs, screen>>
  BY DEF FrameNotImported
<1>3. /\ FramebufferOwnership'
      /\ \A x, y \in Slots : sources'[x].name = sources'[y].name /\ sources'[x].name # NoName => x = y
      /\ \A x \in Slots : sources'[x].fb = sources[x].fb
      /\ \A x \in Slots : sources[x].name # NoName => sources'[x].name # NoName
  BY <1>1, <1>2, SameFramebuffers
<1>4. /\ active' \in Slots /\ active' # NoSlot
      /\ sources'[active'].name # NoName
  BY <1>1, <1>2, <1>3, FrameActiveFacts DEF IInv
<1>5. PICK k \in BroughtUp : /\ card' = k.card /\ ready' = k.ready
                             /\ failed' = failed \/ failed' = TRUE
  BY DEF FrameNotImported
<1>6. /\ card' \in {"closed", "caps", "nocaps"} /\ ready' \in BOOLEAN /\ failed' \in BOOLEAN
      /\ ready' => card' = "caps"
      /\ ready => ready'
  BY <1>5, BroughtUpFacts DEF IInv, TypeOK
<1>7. TypeOK'
  BY <1>1, <1>2, <1>4, <1>6 DEF IInv, TypeOK
<1>8. TableSound'
  BY <1>3, <1>4 DEF TableSound
<1>9. FramebuffersNeedKms'
  BY <1>2, <1>3, <1>6 DEF IInv, FramebuffersNeedKms, Live
<1>10. NothingLeftBehind'
  BY <1>4 DEF NothingLeftBehind
<1>11. QED
  BY <1>2, <1>3, <1>7, <1>8, <1>9, <1>10 DEF IInv, ShownIsActive

LEMMA FrameOfActiveKeeps ==
  ASSUME IInv, NEW n \in Names, NEW g \in Geoms, NEW s \in SlotsFor(n), NEW f \in FreeFbs,
         FrameOfActive(n, g, s, f)
  PROVE  IInv' /\ ShownIsActive
<1> DEFINE src == [Framed(n, g, s)[s] EXCEPT !.fb = f]
<1>1. /\ s \in Slots
      /\ Framed(n, g, s) \in [Slots -> Source]
      /\ Framed(n, g, s)[s].name = n /\ Framed(n, g, s)[s].fb = sources[s].fb
      /\ \A x \in Slots \ {s} : Framed(n, g, s)[x] = sources[x]
  BY FramedFacts
<1>2. src \in Source
  BY <1>1 DEF FreeFbs, Source
<1>3. PICK k \in BroughtUp : k.ready /\ card' = k.card /\ ready' = TRUE
  BY DEF FrameOfActive
<1>4. card' = "caps" /\ ready' = TRUE
  BY <1>3, BroughtUpFacts DEF IInv
<1>5. active' = s /\ active' # NoSlot /\ status' = status
  BY <1>1 DEF FrameOfActive
<1>6. PICK p \in Presented(src, Added(f, g)) :
        /\ lit'    = (lit \/ p.shown)
        /\ failed' = (failed \/ p.failed)
        /\ cursor' = p.cursor
        /\ \/ /\ p.shown
              /\ sources' = [Framed(n, g, s) EXCEPT ![s].fb = f]
              /\ fbs'     = Removed(Added(f, g), Claimed(n, s)[s].fb)
              /\ screen'  = f
           \/ /\ ~p.shown
              /\ sources' = Framed(n, g, s)
              /\ UNCHANGED <<fbs, screen>>
  BY DEF FrameOfActive
<1>7. p.shown \in BOOLEAN /\ p.failed \in BOOLEAN /\ p.cursor \in CursorType
  BY <1>2, PresentedFacts DEF IInv
<1>8. lit' \in BOOLEAN /\ failed' \in BOOLEAN /\ cursor' \in CursorType
  BY <1>6, <1>7 DEF IInv, TypeOK
<1>9. NothingLeftBehind'
  BY <1>5 DEF NothingLeftBehind
<1>10. CASE p.shown
  <2>1. /\ sources' = [Framed(n, g, s) EXCEPT ![s].fb = f]
        /\ fbs' = Removed(Added(f, g), Claimed(n, s)[s].fb)
        /\ screen' = f /\ lit' = TRUE
    BY <1>6, <1>7, <1>10
  <2>2. /\ sources' \in [Slots -> Source] /\ fbs' \in [FBs -> Geoms \cup {0}]
        /\ f \in FBs /\ Live(f)' /\ sources'[s].fb = f /\ sources'[s].name = n
        /\ \A x, y \in Slots :
             sources'[x].name = sources'[y].name /\ sources'[x].name # NoName => x = y
        /\ FramebufferOwnership'
    BY <2>1, Replaced, ZenonT(60)
  <2>3. TypeOK'
    BY <1>1, <1>4, <1>5, <1>8, <2>1, <2>2 DEF IInv, TypeOK, CursorType
  <2>4. TableSound'
    BY <1>5, <2>2 DEF TableSound
  <2>5. FramebuffersNeedKms'
    BY <1>4, <2>1, <2>2 DEF FramebuffersNeedKms, Live
  <2>6. ShownIsActive
    BY <1>5, <2>1, <2>2 DEF ShownIsActive
  <2>7. QED
    BY <1>9, <2>2, <2>3, <2>4, <2>5, <2>6 DEF IInv
<1>11. CASE ~p.shown
  <2>1. /\ sources' = Framed(n, g, s)
        /\ UNCHANGED <<fbs, screen>> /\ lit' = lit
    BY <1>6, <1>7, <1>11 DEF IInv, TypeOK
  <2>2. /\ FramebufferOwnership'
        /\ \A x, y \in Slots : sources'[x].name = sources'[y].name /\ sources'[x].name # NoName => x = y
    BY <1>1, <2>1, SameFramebuffers
  <2>3. TypeOK'
    BY <1>1, <1>4, <1>5, <1>8, <2>1 DEF IInv, TypeOK, CursorType
  <2>4. TableSound'
    BY <1>1, <1>5, <2>1, <2>2 DEF TableSound
  <2>5. FramebuffersNeedKms'
    BY <1>4, <2>1 DEF IInv, FramebuffersNeedKms, Live
  <2>6. QED
    BY <1>9, <2>1, <2>2, <2>3, <2>4, <2>5 DEF IInv, ShownIsActive
<1>12. QED
  BY <1>7, <1>10, <1>11

LEMMA FrameInBackgroundKeeps ==
  ASSUME IInv, NEW n \in Names, NEW g \in Geoms, NEW s \in SlotsFor(n), NEW f \in FreeFbs,
         FrameInBackground(n, g, s, f)
  PROVE  IInv' /\ ShownIsActive
<1>1. s \in Slots /\ Claimed(n, s)[s].fb = sources[s].fb
  BY ClaimedFacts DEF IInv
<1>2. /\ sources' = [Framed(n, g, s) EXCEPT ![s].fb = f]
      /\ fbs' = Removed(Added(f, g), Claimed(n, s)[s].fb)
      /\ screen' = IF screen = sources[s].fb THEN NoFb ELSE screen
      /\ UNCHANGED <<active, lit, cursor, failed, status>>
  BY <1>1 DEF FrameInBackground
<1>3. /\ sources' \in [Slots -> Source] /\ fbs' \in [FBs -> Geoms \cup {0}]
      /\ f \in FBs /\ ~Live(f)
      /\ \A x \in Slots : sources[x].name # NoName => sources'[x].name # NoName
      /\ \A x \in FBs : x # f /\ x # sources[s].fb => fbs'[x] = fbs[x]
      /\ \A x, y \in Slots :
           sources'[x].name = sources'[y].name /\ sources'[x].name # NoName => x = y
      /\ FramebufferOwnership'
  <2>1. /\ sources' = [Framed(n, g, s) EXCEPT ![s].fb = f]
        /\ fbs' = Removed(Added(f, g), Claimed(n, s)[s].fb)
    BY <1>2
  <2>2. \A x \in FBs : x # f /\ x # sources[s].fb => fbs'[x] = fbs[x]
    BY <1>1, <2>1 DEF Removed, Added, IInv, TypeOK
  <2>3. QED
    BY <2>1, <2>2, Replaced
<1>4. card' = "caps" /\ ready' = TRUE
  <2>1. PICK k \in BroughtUp : k.ready /\ card' = k.card /\ ready' = TRUE
    BY DEF FrameInBackground
  <2>2. QED
    BY <2>1, BroughtUpFacts DEF IInv
<1>5. active \in Slots /\ active # NoSlot
  BY <1>1, FrameActiveFacts DEF IInv, TypeOK, FrameInBackground
<1>6. screen' \in FBs \cup {NoFb} /\ (screen' = NoFb \/ screen' = screen)
  BY <1>2 DEF IInv, TypeOK
<1>7. TypeOK'
  BY <1>2, <1>3, <1>4, <1>6 DEF IInv, TypeOK
<1>8. TableSound'
  BY <1>2, <1>3, <1>5 DEF IInv, TableSound
<1>9. screen' # NoFb => lit' /\ Live(screen)'
  <2> SUFFICES ASSUME screen' # NoFb
               PROVE  lit' /\ fbs'[screen'] # 0
    BY DEF Live
  <2>1. screen' = screen /\ screen # sources[s].fb /\ screen \in FBs
    BY <1>2, <1>6
  <2>2. lit /\ fbs[screen] # 0
    BY <2>1 DEF IInv, FramebuffersNeedKms, Live
  <2>3. screen # f
    BY <1>3, <2>2 DEF Live
  <2>4. QED
    BY <1>2, <1>3, <2>1, <2>2, <2>3
<1>10. FramebuffersNeedKms'
  BY <1>2, <1>4, <1>9 DEF FramebuffersNeedKms
<1>11. NothingLeftBehind'
  BY <1>2, <1>5 DEF NothingLeftBehind
<1>12. QED
  BY <1>3, <1>6, <1>7, <1>8, <1>10, <1>11 DEF IInv, ShownIsActive

LEMMA HandleCursorPosKeeps ==
  ASSUME IInv, NEW n \in Names, NEW p \in Positions, NEW s \in SlotsFor(n), HandleCursorPos(n, p, s)
  PROVE  IInv' /\ ShownIsActive
<1> DEFINE t == [Claimed(n, s) EXCEPT ![s].cursor = p]
<1>1. /\ s \in Slots
      /\ Claimed(n, s) \in [Slots -> Source]
      /\ Claimed(n, s)[s].name = n /\ Claimed(n, s)[s].fb = sources[s].fb
      /\ \A x \in Slots \ {s} : Claimed(n, s)[x] = sources[x]
  BY ClaimedFacts DEF IInv
<1>2. t[s] = [Claimed(n, s)[s] EXCEPT !.cursor = p]
  BY <1>1
<1>3. t[s] \in Source /\ t[s].name = n /\ t[s].fb = sources[s].fb
  BY <1>1, <1>2 DEF Source
<1>4. t \in [Slots -> Source] /\ \A x \in Slots \ {s} : t[x] = sources[x]
  BY <1>1, <1>2, <1>3
<1>5. sources' = t /\ UNCHANGED <<active, card, ready, lit, status, fbs, screen>>
  BY DEF HandleCursorPos, kmsVars
<1> HIDE DEF t
<1>6. /\ FramebufferOwnership'
      /\ \A x, y \in Slots : sources'[x].name = sources'[y].name /\ sources'[x].name # NoName => x = y
      /\ \A x \in Slots : sources'[x].fb = sources[x].fb
      /\ \A x \in Slots : sources[x].name # NoName => sources'[x].name # NoName
  BY <1>3, <1>4, <1>5, SameFramebuffers
<1>7. /\ cursor' \in CursorType /\ failed' \in BOOLEAN
      /\ cursor'.state # "absent" => ready
      /\ active = NoSlot => cursor' = cursor /\ failed' = failed
  <2>1. PICK m \in IF s = active THEN Moved(cursor, t[s], ready)
                   ELSE { [cursor |-> cursor, failed |-> FALSE] } :
          cursor' = m.cursor /\ failed' = (failed \/ m.failed)
    BY DEF HandleCursorPos, t
  <2>2. CASE s = active
    <3>1. /\ m.cursor \in CursorType /\ m.failed \in BOOLEAN
          /\ m.cursor.state = cursor.state \/ ready
      BY <1>3, <2>1, <2>2, MovedFacts DEF IInv, TypeOK, CursorType
    <3>2. QED
      BY <1>1, <2>1, <2>2, <3>1 DEF IInv, TypeOK, FramebuffersNeedKms
  <2>3. CASE s # active
    BY <2>1, <2>3 DEF IInv, TypeOK, FramebuffersNeedKms, CursorType
  <2>4. QED
    BY <2>2, <2>3
<1>8. TypeOK'
  BY <1>4, <1>5, <1>7 DEF IInv, TypeOK, CursorType
<1>9. TableSound'
  BY <1>5, <1>6 DEF IInv, TableSound, TypeOK
<1>10. FramebuffersNeedKms'
  BY <1>5, <1>6, <1>7 DEF IInv, FramebuffersNeedKms, Live
<1>11. NothingLeftBehind'
  BY <1>5, <1>7 DEF IInv, NothingLeftBehind
<1>12. QED
  BY <1>5, <1>6, <1>8, <1>9, <1>10, <1>11 DEF IInv, ShownIsActive

LEMMA SelectSourceKeeps ==
  ASSUME IInv, NEW n \in Names, NEW s \in SlotsFor(n), SelectSource(n, s)
  PROVE  IInv' /\ ShownIsActive
<1> DEFINE src == Claimed(n, s)[s]
<1>1. /\ s \in Slots
      /\ Claimed(n, s) \in [Slots -> Source]
      /\ src \in Source /\ src.name = n /\ src.fb = sources[s].fb
      /\ \A x \in Slots \ {s} : Claimed(n, s)[x] = sources[x]
  BY ClaimedFacts DEF IInv
<1>2. PICK p \in Presented(src, fbs) : \E m \in Moved(p.cursor, src, ready) :
        /\ screen' = IF p.shown THEN src.fb ELSE screen
        /\ lit'    = (lit \/ p.shown)
        /\ cursor' = m.cursor
        /\ failed' = (failed \/ p.failed \/ m.failed)
  BY DEF SelectSource
<1>3. PICK m \in Moved(p.cursor, src, ready) :
        /\ screen' = IF p.shown THEN src.fb ELSE screen
        /\ lit'    = (lit \/ p.shown)
        /\ cursor' = m.cursor
        /\ failed' = (failed \/ p.failed \/ m.failed)
  BY <1>2
<1>4. /\ p.shown \in BOOLEAN /\ p.failed \in BOOLEAN /\ p.cursor \in CursorType
      /\ p.shown => src.fb # NoFb
      /\ p.shown \/ p.cursor = cursor
  BY <1>1, PresentedFacts DEF IInv
<1>5. /\ m.cursor \in CursorType /\ m.failed \in BOOLEAN
      /\ m.cursor.state = p.cursor.state \/ ready
  BY <1>1, <1>4, MovedFacts DEF IInv, TypeOK
<1>6. /\ sources' = Claimed(n, s) /\ active' = s /\ active' # NoSlot
      /\ UNCHANGED <<card, ready, fbs>>
  BY <1>1 DEF SelectSource
<1>7. /\ FramebufferOwnership'
      /\ \A x, y \in Slots : sources'[x].name = sources'[y].name /\ sources'[x].name # NoName => x = y
      /\ \A x \in Slots : sources'[x].fb = sources[x].fb
  BY <1>1, <1>6, SameFramebuffers
<1>8. status' \in Names \cup {NoName, NoFile}
  BY <1>1, <1>6, WrittenStatus DEF IInv, SelectSource
<1>9. p.shown => ready /\ src.fb \in FBs /\ fbs[src.fb] # 0
  BY <1>1, <1>4 DEF IInv, FramebuffersNeedKms, FramebufferOwnership, Live, Source
<1>10. /\ lit' \in BOOLEAN /\ failed' \in BOOLEAN /\ cursor' \in CursorType
       /\ screen' \in FBs \cup {NoFb}
       /\ lit' => ready
       /\ cursor'.state # "absent" => ready
       /\ screen' # NoFb => lit' /\ fbs[screen'] # 0
  <2>1. CASE p.shown
    BY <1>3, <1>4, <1>5, <1>9, <2>1 DEF IInv, TypeOK
  <2>2. CASE ~p.shown
    BY <1>3, <1>4, <1>5, <2>2 DEF IInv, TypeOK, FramebuffersNeedKms, Live
  <2>3. QED
    BY <1>4, <2>1, <2>2
<1>11. TypeOK'
  BY <1>1, <1>6, <1>8, <1>10 DEF IInv, TypeOK, CursorType
<1>12. TableSound'
  BY <1>1, <1>6, <1>7 DEF TableSound
<1>13. FramebuffersNeedKms'
  BY <1>6, <1>7, <1>10 DEF IInv, FramebuffersNeedKms, Live
<1>14. NothingLeftBehind'
  BY <1>6 DEF NothingLeftBehind
<1>15. ShownIsActive
  BY <1>1, <1>3, <1>6 DEF ShownIsActive
<1>16. QED
  BY <1>7, <1>11, <1>12, <1>13, <1>14, <1>15 DEF IInv

LEMMA RemoveSourceKeeps ==
  ASSUME IInv, NEW s \in Slots, sources[s].name # NoName, RemoveSource(s)
  PROVE  IInv' /\ ShownIsActive
<1> DEFINE old == sources[s].fb
           scr == IF screen = old THEN NoFb ELSE screen
<1>1. /\ sources' = [sources EXCEPT ![s] = EmptySource]
      /\ fbs' = [x \in FBs |-> IF x = old THEN 0 ELSE fbs[x]]
      /\ UNCHANGED <<card, ready>>
  BY DEF RemoveSource, Removed
<1>2. /\ EmptySource \in Source /\ EmptySource.name = NoName /\ EmptySource.fb = NoFb
  BY DEF EmptySource, Source
<1>3. /\ sources' \in [Slots -> Source]
      /\ sources'[s].name = NoName /\ sources'[s].fb = NoFb
      /\ \A x \in Slots \ {s} : sources'[x] = sources[x]
  BY <1>1, <1>2 DEF IInv, TypeOK
<1>4. fbs' \in [FBs -> Geoms \cup {0}]
  BY <1>1 DEF IInv, TypeOK
<1>5. FramebufferOwnership'
  <2>1. \A x \in Slots : sources'[x].fb # NoFb => sources'[x].name # NoName /\ fbs'[sources'[x].fb] # 0
    <3> SUFFICES ASSUME NEW x \in Slots, sources'[x].fb # NoFb
                 PROVE  sources'[x].name # NoName /\ fbs'[sources'[x].fb] # 0
      OBVIOUS
    <3>1. x # s /\ sources'[x] = sources[x]
      BY <1>3
    <3>2. /\ sources[x].fb # old /\ sources[x].fb \in FBs
          /\ sources[x].name # NoName /\ fbs[sources[x].fb] # 0
      BY <3>1 DEF IInv, FramebufferOwnership, Live, TypeOK, Source
    <3>3. QED
      BY <1>1, <3>1, <3>2
  <2>2. \A h \in FBs : fbs'[h] # 0 => \E x \in Slots : sources'[x].fb = h
    <3> SUFFICES ASSUME NEW h \in FBs, fbs'[h] # 0
                 PROVE  \E x \in Slots : sources'[x].fb = h
      OBVIOUS
    <3>1. h # old /\ fbs[h] # 0
      BY <1>1
    <3>2. PICK x \in Slots : sources[x].fb = h
      BY <3>1 DEF IInv, FramebufferOwnership, Live
    <3>3. QED
      BY <1>3, <3>1, <3>2
  <2>3. \A x, y \in Slots : sources'[x].fb = sources'[y].fb /\ sources'[x].fb # NoFb => x = y
    BY <1>3 DEF IInv, FramebufferOwnership
  <2>4. QED
    BY <2>1, <2>2, <2>3 DEF FramebufferOwnership, Live
<1>6. \A x, y \in Slots : sources'[x].name = sources'[y].name /\ sources'[x].name # NoName => x = y
  BY <1>3 DEF IInv, TableSound
<1>7. /\ scr \in {screen, NoFb} /\ scr \in FBs \cup {NoFb}
      /\ scr # NoFb => lit /\ fbs'[scr] # 0
  BY <1>1 DEF IInv, TypeOK, FramebuffersNeedKms, Live
<1>8. /\ active' \in Slots \cup {NoSlot}
      /\ active' # NoSlot => active' # s /\ active' = active
      /\ lit' \in BOOLEAN /\ failed' \in BOOLEAN /\ cursor' \in CursorType
      /\ screen' \in {screen, NoFb} /\ screen' \in FBs \cup {NoFb}
      /\ lit' => lit
      /\ cursor'.state # "absent" => cursor.state # "absent"
      /\ screen' # NoFb => lit' /\ fbs'[screen'] # 0
      /\ active' = NoSlot /\ (screen' # NoFb \/ cursor'.state = "shown") => lit' /\ failed'
  <2>1. CASE s = active
    <3>1. active' = NoSlot
      BY <2>1 DEF RemoveSource
    <3>2. PICK c \in Cleared(scr) :
            /\ lit' = c.lit /\ screen' = c.screen /\ cursor' = c.cursor
            /\ failed' = (failed \/ c.failed)
      BY <2>1 DEF RemoveSource
    <3>3. /\ c.lit \in BOOLEAN /\ c.failed \in BOOLEAN /\ c.cursor \in CursorType
          /\ c.lit => lit
          /\ c.cursor.state # "absent" => cursor.state # "absent"
          /\ c.screen \in {scr, NoFb}
          /\ c.screen # NoFb => c.lit
          /\ c.screen # NoFb \/ c.cursor.state = "shown" => c.lit /\ c.failed
      BY <1>7, <3>2, ClearedFacts DEF IInv
    <3>4. failed' \in BOOLEAN /\ (c.failed => failed')
      BY <3>2, <3>3 DEF IInv, TypeOK
    <3> HIDE DEF scr
    <3>5. QED
      BY <1>7, <3>1, <3>2, <3>3, <3>4
  <2>2. CASE s # active
    <3>1. screen' = scr /\ UNCHANGED <<active, lit, cursor, failed>>
      BY <2>2 DEF RemoveSource
    <3>2. QED
      BY <1>7, <2>2, <3>1 DEF IInv, TypeOK, NothingLeftBehind, CursorType
  <2>3. QED
    BY <2>1, <2>2
<1>9. status' \in Names \cup {NoName, NoFile}
  BY <1>3, <1>8, WrittenStatus DEF IInv, RemoveSource
<1>10. TypeOK'
  BY <1>1, <1>3, <1>4, <1>8, <1>9 DEF IInv, TypeOK, CursorType
<1>11. TableSound'
  BY <1>3, <1>6, <1>8 DEF IInv, TableSound, TypeOK
<1>12. FramebuffersNeedKms'
  BY <1>1, <1>3, <1>8 DEF IInv, FramebuffersNeedKms, Live
<1>13. NothingLeftBehind'
  BY <1>8 DEF NothingLeftBehind
<1>14. QED
  BY <1>5, <1>8, <1>10, <1>11, <1>12, <1>13 DEF IInv, ShownIsActive

LEMMA NewProcessKeeps ==
  ASSUME IInv, Forgotten, status' \in Names \cup {NoName, NoFile}
  PROVE  IInv' /\ ShownIsActive
<1>1. /\ EmptySource \in Source /\ EmptySource.name = NoName /\ EmptySource.fb = NoFb
  BY DEF EmptySource, Source
<1>2. /\ sources' \in [Slots -> Source]
      /\ \A s \in Slots : sources'[s].name = NoName /\ sources'[s].fb = NoFb
      /\ fbs' \in [FBs -> Geoms \cup {0}]
      /\ \A f \in FBs : fbs'[f] = 0
  BY <1>1 DEF Forgotten
<1>3. TypeOK'
  BY <1>2 DEF Forgotten, IInv, TypeOK
<1>4. TableSound' /\ FramebufferOwnership'
  BY <1>2 DEF Forgotten, TableSound, FramebufferOwnership, Live
<1>5. FramebuffersNeedKms' /\ NothingLeftBehind' /\ ShownIsActive
  BY <1>2 DEF Forgotten, FramebuffersNeedKms, NothingLeftBehind, ShownIsActive
<1>6. QED
  BY <1>3, <1>4, <1>5 DEF IInv

\* Steps that change nothing but the failure counter and the status file.
LEMMA QuietKeeps ==
  ASSUME IInv, UNCHANGED <<sources, active, kmsVars, cursor, fbs, screen>>,
         failed' \in BOOLEAN, failed => failed', status' \in Names \cup {NoName, NoFile}
  PROVE  IInv' /\ ShownIsActive
<1>1. UNCHANGED <<sources, active, card, ready, lit, cursor, fbs, screen>>
  BY DEF kmsVars
<1>2. TypeOK'
  BY <1>1 DEF IInv, TypeOK
<1>3. TableSound' /\ FramebufferOwnership' /\ FramebuffersNeedKms'
  BY <1>1 DEF IInv, TableSound, FramebufferOwnership, FramebuffersNeedKms, Live
<1>4. NothingLeftBehind' /\ ShownIsActive
  BY <1>1 DEF IInv, NothingLeftBehind, ShownIsActive
<1>5. QED
  BY <1>2, <1>3, <1>4 DEF IInv

----------------------------------------------------------------------------
LEMMA InitIInv == Init => IInv
<1> SUFFICES ASSUME Init PROVE IInv
  OBVIOUS
<1>1. /\ EmptySource \in Source /\ EmptySource.name = NoName /\ EmptySource.fb = NoFb
  BY DEF EmptySource, Source
<1>2. /\ sources \in [Slots -> Source]
      /\ \A s \in Slots : sources[s].name = NoName /\ sources[s].fb = NoFb
      /\ fbs \in [FBs -> Geoms \cup {0}]
      /\ \A f \in FBs : fbs[f] = 0
  BY <1>1 DEF Init
<1>3. TypeOK
  BY <1>2 DEF Init, TypeOK
<1>4. TableSound /\ FramebufferOwnership
  BY <1>2 DEF Init, TableSound, FramebufferOwnership, Live
<1>5. FramebuffersNeedKms /\ NothingLeftBehind
  BY <1>2 DEF Init, FramebuffersNeedKms, NothingLeftBehind
<1>6. QED
  BY <1>3, <1>4, <1>5 DEF IInv

LEMMA StepIInv == IInv /\ [Next]_vars => IInv' /\ ShownIsActive
<1> SUFFICES ASSUME IInv, [Next]_vars PROVE IInv' /\ ShownIsActive
  OBVIOUS
<1> USE DEF IInv
<1>1. ASSUME NEW n \in Names, HandleFrame(n) PROVE IInv' /\ ShownIsActive
  <2>1. CASE FrameDropped(n)
    BY <2>1, QuietKeeps DEF FrameDropped, TypeOK
  <2>2. CASE \E s \in SlotsFor(n), g \in Geoms : FrameNotImported(n, g, s)
    BY <2>2, FrameNotImportedKeeps
  <2>3. CASE \E s \in SlotsFor(n), g \in Geoms, f \in FreeFbs : FrameOfActive(n, g, s, f)
    BY <2>3, FrameOfActiveKeeps
  <2>4. CASE \E s \in SlotsFor(n), g \in Geoms, f \in FreeFbs : FrameInBackground(n, g, s, f)
    BY <2>4, FrameInBackgroundKeeps
  <2>5. QED
    BY <1>1, <2>1, <2>2, <2>3, <2>4 DEF HandleFrame
<1>2. ASSUME NEW n \in Names, CursorDropped(n) PROVE IInv' /\ ShownIsActive
  BY <1>2, QuietKeeps DEF CursorDropped, TypeOK
<1>3. ASSUME NEW n \in Names, NEW s \in SlotsFor(n), NEW p \in Positions, HandleCursorPos(n, p, s)
      PROVE  IInv' /\ ShownIsActive
  BY <1>3, HandleCursorPosKeeps
<1>4. ASSUME NEW n \in Names, NEW s \in SlotsFor(n), SelectSource(n, s)
      PROVE  IInv' /\ ShownIsActive
  BY <1>4, SelectSourceKeeps
<1>5. ASSUME NEW n \in Names, NEW s \in Named(n), RemoveSource(s)
      PROVE  IInv' /\ ShownIsActive
  <2>1. s \in Slots /\ sources[s].name # NoName
    BY DEF Named
  <2>2. QED
    BY <1>5, <2>1, RemoveSourceKeeps
<1>6. CASE BadMessage
  BY <1>6, QuietKeeps DEF BadMessage, TypeOK
<1>7. CASE Report
  <2>1. status' \in Names \cup {NoName, NoFile}
    BY <1>7, WrittenStatus DEF Report, TypeOK
  <2>2. QED
    BY <1>7, <2>1, QuietKeeps DEF Report, TypeOK
<1>8. CASE Restart \/ Crash
  <2>1. status' \in Names \cup {NoName, NoFile}
    BY <1>8 DEF Restart, Crash, TypeOK
  <2>2. QED
    BY <1>8, <2>1, NewProcessKeeps DEF Restart, Crash
<1>9. CASE UNCHANGED vars
  BY <1>9, QuietKeeps DEF vars, kmsVars, TypeOK
<1>10. QED
  BY <1>1, <1>2, <1>3, <1>4, <1>5, <1>6, <1>7, <1>8, <1>9 DEF Next, SelectUnknown

\* The invariant of every behaviour of the daemon.
THEOREM Invariant == Spec => []IInv
<1>1. IInv /\ [Next]_vars => IInv'
  BY StepIInv
<1>2. QED
  BY InitIInv, <1>1, PTL DEF Spec

\* Every variable keeps its type (the model's variables stand for the fields of
\* struct App, struct Kms and struct Source of gvt-outputd.c).
THEOREM TypeCorrect == Spec => []TypeOK
<1>1. IInv => TypeOK
  BY DEF IInv
<1>2. QED
  BY <1>1, Invariant, PTL

\* No source is registered twice and the active pointer never dangles, for any
\* number of machines and any size of the table.
THEOREM TableIsSound == Spec => []TableSound
<1>1. IInv => TableSound
  BY DEF IInv
<1>2. QED
  BY <1>1, Invariant, PTL

\* handle_frame and remove_source neither leak a framebuffer nor remove one twice,
\* whatever calls are refused and in whatever order the messages arrive.
THEOREM FramebuffersAreOwned == Spec => []FramebufferOwnership
<1>1. IInv => FramebufferOwnership
  BY DEF IInv
<1>2. QED
  BY <1>1, Invariant, PTL

\* A picture or a pointer is there only on a device that init_kms brought up.
THEOREM PictureNeedsKms == Spec => []FramebuffersNeedKms
<1>1. IInv => FramebuffersNeedKms
  BY DEF IInv
<1>2. QED
  BY <1>1, Invariant, PTL

\* After the active machine was removed, what stays on the monitor was counted, but for a
\* pointer that the kernel refused to hide (clear_output, hide_cursor).
THEOREM RemovalIsCleanOrCounted == Spec => []NothingLeftBehind
<1>1. IInv => NothingLeftBehind
  BY DEF IInv
<1>2. QED
  BY <1>1, Invariant, PTL

\* A machine in the background never takes the monitor over.
THEOREM BackgroundStaysThere == Spec => OnlyActiveShown
<1>1. IInv /\ [Next]_vars => [ShownIsActive]_vars
  BY StepIInv
<1>2. Spec => [][ShownIsActive]_vars
  BY <1>1, Invariant, PTL DEF Spec
<1>3. QED
  BY <1>2 DEF OnlyActiveShown, ShownIsActive

----------------------------------------------------------------------------
(***************************************************************************)
(* A kernel that refuses nothing.                                          *)
(***************************************************************************)
Settled == ActivePresented /\ SizesAgree

LEMMA NothingRefused ==
  ASSUME Faults = {}, NEW call
  PROVE  Answers(call) = {"ok"}
BY DEF Answers

\* A source whose size is that of its framebuffer is presented.
LEMMA FittingIsShown ==
  ASSUME Faults = {}, NEW src, NEW table, src.fb # NoFb,
         src.geom = table[src.fb], src.geom \in Nat, NEW p \in Presented(src, table)
  PROVE  p.shown = TRUE
<1>1. src.geom <= table[src.fb]
  OBVIOUS
<1>2. PICK m \in Moved(cursor, src, TRUE) :
        p = [shown |-> TRUE, failed |-> m.failed, cursor |-> m.cursor]
  BY <1>1 DEF Presented
<1>3. QED
  BY <1>2

\* The table keeps sizes and framebuffers, and the monitor its picture.
LEMMA SettledStays ==
  ASSUME Settled, UNCHANGED <<fbs, screen>>,
         \A x \in Slots : sources'[x].fb # NoFb =>
            sources'[x].fb = sources[x].fb /\ sources'[x].geom = sources[x].geom,
         active' \in Slots \cup {NoSlot},
         active' # NoSlot => active' = active \/ sources'[active'].fb = NoFb
  PROVE  Settled'
BY DEF Settled, ActivePresented, SizesAgree

LEMMA FrameNotImportedSettled ==
  ASSUME Faults = {}, IInv, Settled, NEW n \in Names, NEW g \in Geoms, NEW s \in SlotsFor(n),
         FrameNotImported(n, g, s)
  PROVE  Settled'
<1>1. PICK k \in BroughtUp : ~k.ready
  BY DEF FrameNotImported
<1>2. ~ready
  BY <1>1, BroughtUpFacts DEF IInv
<1>3. \A x \in Slots : sources[x].fb = NoFb
  BY <1>2 DEF IInv, FramebuffersNeedKms
<1>4. \A x \in Slots : sources'[x].fb = NoFb
  BY <1>3, FramedFacts DEF FrameNotImported
<1>5. active' \in Slots
  BY FramedFacts, FrameActiveFacts DEF FrameNotImported, IInv
<1>6. QED
  BY <1>4, <1>5 DEF Settled, ActivePresented, SizesAgree

\* The sizes after a new framebuffer has replaced that of the source.
LEMMA ReplacedSizes ==
  ASSUME IInv, Settled, NEW n \in Names, NEW g \in Geoms, NEW s \in SlotsFor(n), NEW f \in FreeFbs,
         sources' = [Framed(n, g, s) EXCEPT ![s].fb = f],
         fbs' = Removed(Added(f, g), Claimed(n, s)[s].fb)
  PROVE  SizesAgree'
<1>1. /\ s \in Slots /\ Claimed(n, s)[s].fb = sources[s].fb
      /\ Framed(n, g, s) \in [Slots -> Source] /\ Framed(n, g, s)[s].geom = g
  BY ClaimedFacts, FramedFacts DEF IInv
<1>2. /\ f \in FBs /\ f # NoFb /\ ~Live(f) /\ sources'[s].fb = f
      /\ \A x \in Slots \ {s} : sources'[x] = sources[x]
  BY Replaced
<1>3. sources'[s].geom = g
  BY <1>1 DEF Source
<1>4. f # sources[s].fb
  BY <1>1, <1>2 DEF IInv, FramebufferOwnership
<1>5. fbs'[f] = g
  BY <1>1, <1>2, <1>4 DEF Removed, Added, IInv, TypeOK
<1>6. ASSUME NEW x \in Slots \ {s}, sources[x].fb # NoFb
      PROVE  sources[x].geom = fbs'[sources[x].fb]
  <2>1. /\ sources[x].fb \in FBs /\ sources[x].fb # f /\ sources[x].fb # sources[s].fb
        /\ sources[x].geom = fbs[sources[x].fb]
    BY <1>1, <1>2, <1>6 DEF IInv, FramebufferOwnership, TypeOK, Source, Settled, SizesAgree
  <2>2. fbs'[sources[x].fb] = fbs[sources[x].fb]
    BY <1>1, <1>2, <2>1 DEF Removed, Added, IInv, TypeOK
  <2>3. QED
    BY <2>1, <2>2
<1>7. QED
  BY <1>1, <1>2, <1>3, <1>5, <1>6 DEF SizesAgree

LEMMA FrameOfActiveSettled ==
  ASSUME Faults = {}, IInv, Settled, NEW n \in Names, NEW g \in Geoms, NEW s \in SlotsFor(n),
         NEW f \in FreeFbs, FrameOfActive(n, g, s, f)
  PROVE  Settled'
<1> DEFINE src == [Framed(n, g, s)[s] EXCEPT !.fb = f]
<1>1. s \in Slots /\ Framed(n, g, s) \in [Slots -> Source] /\ Framed(n, g, s)[s].geom = g
  BY FramedFacts
<1>2. src.fb = f /\ src.geom = g /\ f \in FBs /\ f # NoFb /\ g \in Nat
  BY <1>1 DEF Source, FreeFbs
<1>3. Added(f, g)[f] = g
  BY <1>2 DEF Added, IInv, TypeOK
<1>4. PICK p \in Presented(src, Added(f, g)) :
        \/ /\ p.shown
           /\ sources' = [Framed(n, g, s) EXCEPT ![s].fb = f]
           /\ fbs'     = Removed(Added(f, g), Claimed(n, s)[s].fb)
           /\ screen'  = f
        \/ /\ ~p.shown
           /\ sources' = Framed(n, g, s)
           /\ UNCHANGED <<fbs, screen>>
  BY DEF FrameOfActive
<1> HIDE DEF src
<1>5. p.shown = TRUE
  BY <1>2, <1>3, <1>4, FittingIsShown
<1>6. /\ sources' = [Framed(n, g, s) EXCEPT ![s].fb = f]
      /\ fbs' = Removed(Added(f, g), Claimed(n, s)[s].fb)
      /\ screen' = f /\ active' = s
  BY <1>4, <1>5 DEF FrameOfActive
<1>7. SizesAgree' /\ sources'[s].fb = f
  <2>1. SizesAgree'
    BY <1>6, ReplacedSizes, Zenon
  <2>2. sources'[s].fb = f
    BY <1>6, Replaced, Zenon
  <2>3. QED
    BY <2>1, <2>2
<1>8. QED
  BY <1>6, <1>7 DEF Settled, ActivePresented

LEMMA FrameInBackgroundSettled ==
  ASSUME Faults = {}, IInv, Settled, NEW n \in Names, NEW g \in Geoms, NEW s \in SlotsFor(n),
         NEW f \in FreeFbs, FrameInBackground(n, g, s, f)
  PROVE  Settled'
<1>1. s \in Slots /\ Claimed(n, s)[s].fb = sources[s].fb
  BY ClaimedFacts DEF IInv
<1>2. /\ sources' = [Framed(n, g, s) EXCEPT ![s].fb = f]
      /\ fbs' = Removed(Added(f, g), Claimed(n, s)[s].fb)
      /\ screen' = IF screen = sources[s].fb THEN NoFb ELSE screen
      /\ active' = active
  BY <1>1 DEF FrameInBackground
<1>3. SizesAgree' /\ \A x \in Slots \ {s} : sources'[x] = sources[x]
  BY <1>2, ReplacedSizes, Replaced
<1>4. active \in Slots \ {s}
  BY <1>1, FrameActiveFacts DEF IInv, TypeOK, FrameInBackground, FrameActive
<1>5. sources[active].fb # NoFb => screen' = sources[active].fb
  BY <1>1, <1>2, <1>4 DEF Settled, ActivePresented, IInv, FramebufferOwnership
<1>6. QED
  BY <1>2, <1>3, <1>4, <1>5 DEF Settled, ActivePresented

LEMMA HandleCursorPosSettled ==
  ASSUME IInv, Settled, NEW n \in Names, NEW p \in Positions, NEW s \in SlotsFor(n),
         HandleCursorPos(n, p, s)
  PROVE  Settled'
<1>1. /\ s \in Slots /\ Claimed(n, s) \in [Slots -> Source]
      /\ \A x \in Slots : Claimed(n, s)[x].fb = sources[x].fb
      /\ \A x \in Slots \ {s} : Claimed(n, s)[x] = sources[x]
  BY ClaimedFacts DEF IInv
<1>2. sources[s].name # n => sources[s].fb = NoFb
  BY DEF SlotsFor, Named, IInv, FramebufferOwnership
<1>3. sources'[s] = [Claimed(n, s)[s] EXCEPT !.cursor = p]
      /\ \A x \in Slots \ {s} : sources'[x] = sources[x]
  BY <1>1 DEF HandleCursorPos
<1>4. sources'[s].fb = sources[s].fb /\ sources'[s].geom = Claimed(n, s)[s].geom
  BY <1>1, <1>3 DEF Source
<1>5. sources'[s].fb # NoFb => sources'[s].geom = sources[s].geom
  BY <1>2, <1>4 DEF Claimed
<1>6. UNCHANGED <<active, fbs, screen>>
  BY DEF HandleCursorPos
<1>7. QED
  BY <1>3, <1>4, <1>5, <1>6, SettledStays DEF IInv, TypeOK

LEMMA SelectSourceSettled ==
  ASSUME Faults = {}, IInv, Settled, NEW n \in Names, NEW s \in SlotsFor(n), SelectSource(n, s)
  PROVE  Settled'
<1> DEFINE src == Claimed(n, s)[s]
<1>1. /\ s \in Slots /\ src.fb = sources[s].fb /\ Claimed(n, s) \in [Slots -> Source]
      /\ \A x \in Slots \ {s} : Claimed(n, s)[x] = sources[x]
  BY ClaimedFacts DEF IInv
<1>2. src.fb # NoFb => sources[s].name = n
  BY <1>1 DEF SlotsFor, Named, IInv, FramebufferOwnership
<1>3. src.fb # NoFb => Claimed(n, s) = sources
  BY <1>2 DEF Claimed
<1>4. sources' = Claimed(n, s) /\ active' = s /\ fbs' = fbs
  BY DEF SelectSource
<1>5. SizesAgree'
  BY <1>1, <1>3, <1>4 DEF Settled, SizesAgree
<1>6. src.fb # NoFb => screen' = src.fb
  <2> SUFFICES ASSUME src.fb # NoFb PROVE screen' = src.fb
    OBVIOUS
  <2>1. src.geom = fbs[src.fb] /\ src.geom \in Nat
    BY <1>1, <1>3 DEF Settled, SizesAgree, Source
  <2>2. PICK p \in Presented(src, fbs) : screen' = IF p.shown THEN src.fb ELSE screen
    BY DEF SelectSource
  <2>3. p.shown = TRUE
    BY <2>1, <2>2, FittingIsShown
  <2>4. QED
    BY <2>2, <2>3
<1>7. QED
  BY <1>4, <1>5, <1>6 DEF Settled, ActivePresented

LEMMA RemoveSourceSettled ==
  ASSUME IInv, Settled, NEW s \in Slots, RemoveSource(s)
  PROVE  Settled'
<1>1. /\ sources' = [sources EXCEPT ![s] = EmptySource]
      /\ fbs' = [x \in FBs |-> IF x = sources[s].fb THEN 0 ELSE fbs[x]]
  BY DEF RemoveSource, Removed
<1>2. sources'[s].fb = NoFb /\ \A x \in Slots \ {s} : sources'[x] = sources[x]
  BY <1>1 DEF EmptySource, IInv, TypeOK
<1>3. SizesAgree'
  <2>1. ASSUME NEW x \in Slots \ {s}, sources[x].fb # NoFb
        PROVE  sources[x].geom = fbs'[sources[x].fb]
    <3>1. /\ sources[x].fb \in FBs /\ sources[x].fb # sources[s].fb
          /\ sources[x].geom = fbs[sources[x].fb]
      BY <2>1 DEF IInv, FramebufferOwnership, TypeOK, Source, Settled, SizesAgree
    <3>2. QED
      BY <1>1, <3>1
  <2>2. QED
    BY <1>2, <2>1 DEF SizesAgree
<1>4. ActivePresented'
  <2>1. CASE s = active
    BY <2>1 DEF RemoveSource, ActivePresented
  <2>2. CASE s # active
    <3>1. active' = active /\ screen' = IF screen = sources[s].fb THEN NoFb ELSE screen
      BY <2>2 DEF RemoveSource
    <3>2. QED
      BY <1>2, <2>2, <3>1 DEF Settled, ActivePresented, IInv, TypeOK, FramebufferOwnership
  <2>3. QED
    BY <2>1, <2>2
<1>5. QED
  BY <1>3, <1>4 DEF Settled

LEMMA StepSettled ==
  ASSUME Faults = {}
  PROVE  IInv /\ Settled /\ [Next]_vars => Settled'
<1> SUFFICES ASSUME IInv, Settled, [Next]_vars PROVE Settled'
  OBVIOUS
<1>1. ASSUME UNCHANGED <<sources, active, fbs, screen>> PROVE Settled'
  BY <1>1 DEF Settled, ActivePresented, SizesAgree
<1>2. ASSUME NEW n \in Names, HandleFrame(n) PROVE Settled'
  <2>1. CASE FrameDropped(n)
    BY <2>1, <1>1 DEF FrameDropped
  <2>2. CASE \E s \in SlotsFor(n), g \in Geoms : FrameNotImported(n, g, s)
    BY <2>2, FrameNotImportedSettled
  <2>3. CASE \E s \in SlotsFor(n), g \in Geoms, f \in FreeFbs : FrameOfActive(n, g, s, f)
    BY <2>3, FrameOfActiveSettled
  <2>4. CASE \E s \in SlotsFor(n), g \in Geoms, f \in FreeFbs : FrameInBackground(n, g, s, f)
    BY <2>4, FrameInBackgroundSettled
  <2>5. QED
    BY <1>2, <2>1, <2>2, <2>3, <2>4 DEF HandleFrame
<1>3. ASSUME NEW n \in Names, NEW s \in SlotsFor(n), NEW p \in Positions, HandleCursorPos(n, p, s)
      PROVE  Settled'
  BY <1>3, HandleCursorPosSettled
<1>4. ASSUME NEW n \in Names, NEW s \in SlotsFor(n), SelectSource(n, s) PROVE Settled'
  BY <1>4, SelectSourceSettled
<1>5. ASSUME NEW n \in Names, NEW s \in Named(n), RemoveSource(s) PROVE Settled'
  BY <1>5, RemoveSourceSettled DEF Named
<1>6. CASE Restart \/ Crash
  BY <1>6 DEF Restart, Crash, Forgotten, EmptySource, Settled, ActivePresented, SizesAgree
<1>7. CASE (\E n \in Names : CursorDropped(n)) \/ BadMessage \/ Report \/ UNCHANGED vars
  BY <1>7, <1>1 DEF CursorDropped, BadMessage, Report, vars
<1>8. QED
  BY <1>2, <1>3, <1>4, <1>5, <1>6, <1>7 DEF Next, SelectUnknown

LEMMA AlwaysSettled ==
  ASSUME Faults = {}
  PROVE  Spec => []Settled
<1>1. Init => Settled
  BY DEF Init, EmptySource, Settled, ActivePresented, SizesAgree
<1>2. QED
  BY <1>1, StepSettled, Invariant, PTL DEF Spec

\* While the kernel refuses nothing, the active machine is on the monitor whenever
\* it has sent a frame: after a select, after frames of any machine in any order,
\* after removals and reuses of slots.
THEOREM ActiveIsPresented ==
  ASSUME Faults = {}
  PROVE  Spec => []ActivePresented
<1>1. Settled => ActivePresented
  BY DEF Settled
<1>2. QED
  BY <1>1, AlwaysSettled, PTL

\* While the kernel refuses nothing, the size that present_source puts into the
\* plane's source rectangle is that of the framebuffer it presents.
THEOREM SizesAlwaysAgree ==
  ASSUME Faults = {}
  PROVE  Spec => []SizesAgree
<1>1. Settled => SizesAgree
  BY DEF Settled
<1>2. QED
  BY <1>1, AlwaysSettled, PTL

----------------------------------------------------------------------------
(***************************************************************************)
(* The pointer, on a kernel that refuses nothing.  That it follows the     *)
(* active source is inductive only with what clear_output leaves: a source *)
(* that becomes active with its first frame finds no pointer of another.   *)
(***************************************************************************)
PointerKept ==
  /\ PointerFollows
  /\ active = NoSlot => cursor.state # "shown"

LEMMA MovedToSource ==
  ASSUME Faults = {}, NEW c, NEW src, src.cursor # NoPos, NEW m \in Moved(c, src, TRUE)
  PROVE  m.cursor = [state |-> "shown", at |-> src.cursor]
<1>1. m = [cursor |-> [state |-> "shown", at |-> src.cursor], failed |-> FALSE]
  BY NothingRefused DEF Moved
<1>2. QED
  BY <1>1

LEMMA MovedNowhere ==
  ASSUME NEW c, NEW src, NEW m \in Moved(c, src, FALSE)
  PROVE  m.cursor = c
<1>1. m = [cursor |-> c, failed |-> FALSE]
  BY DEF Moved
<1>2. QED
  BY <1>1

\* A source that is shown has its pointer put where it says.
LEMMA PresentedToSource ==
  ASSUME Faults = {}, NEW src, NEW table, NEW p \in Presented(src, table), p.shown = TRUE
  PROVE  src.cursor # NoPos => p.cursor = [state |-> "shown", at |-> src.cursor]
<1>1. p # NotPresented(FALSE) /\ p # NotPresented(TRUE)
  BY DEF NotPresented
<1>2. PICK m \in Moved(cursor, src, TRUE) :
        p = [shown |-> TRUE, failed |-> m.failed, cursor |-> m.cursor]
  BY <1>1 DEF Presented
<1>3. p.cursor = m.cursor
  BY <1>2
<1>4. src.cursor # NoPos => m.cursor = [state |-> "shown", at |-> src.cursor]
  BY <1>2, MovedToSource
<1>5. QED
  BY <1>3, <1>4

LEMMA FrameNotImportedPointer ==
  ASSUME Faults = {}, IInv, PointerKept, NEW n \in Names, NEW g \in Geoms, NEW s \in SlotsFor(n),
         FrameNotImported(n, g, s)
  PROVE  PointerKept'
<1>1. PICK k \in BroughtUp : ~k.ready
  BY DEF FrameNotImported
<1>2. ~ready
  BY <1>1, BroughtUpFacts DEF IInv
<1>3. cursor' = cursor /\ cursor.state = "absent"
  BY <1>2 DEF FrameNotImported, IInv, FramebuffersNeedKms
<1>4. QED
  BY <1>3 DEF PointerKept, PointerFollows

LEMMA FrameOfActivePointer ==
  ASSUME Faults = {}, IInv, NEW n \in Names, NEW g \in Geoms, NEW s \in SlotsFor(n),
         NEW f \in FreeFbs, FrameOfActive(n, g, s, f)
  PROVE  PointerKept'
<1> DEFINE src == [Framed(n, g, s)[s] EXCEPT !.fb = f]
<1>1. s \in Slots /\ Framed(n, g, s) \in [Slots -> Source] /\ Framed(n, g, s)[s].geom = g
  BY FramedFacts
<1>2. /\ src.fb = f /\ src.geom = g /\ f \in FBs /\ f # NoFb /\ g \in Nat
      /\ src.cursor = Framed(n, g, s)[s].cursor
  BY <1>1 DEF Source, FreeFbs
<1>3. Added(f, g)[f] = g
  BY <1>2 DEF Added, IInv, TypeOK
<1>4. PICK p \in Presented(src, Added(f, g)) :
        /\ cursor' = p.cursor
        /\ p.shown => sources' = [Framed(n, g, s) EXCEPT ![s].fb = f]
  BY DEF FrameOfActive
<1>5. active' = s /\ s # NoSlot
  BY <1>1 DEF FrameOfActive
<1> HIDE DEF src
<1>6. p.shown = TRUE
  BY <1>2, <1>3, <1>4, FittingIsShown
<1>7. src.cursor # NoPos => p.cursor = [state |-> "shown", at |-> src.cursor]
  BY <1>4, <1>6, PresentedToSource
<1>8. sources' = [Framed(n, g, s) EXCEPT ![s].fb = f]
  BY <1>4, <1>6
<1>9. sources'[s].cursor = src.cursor
  BY <1>1, <1>2, <1>8 DEF Source
<1>10. src.cursor # NoPos => cursor'.at = src.cursor
  BY <1>4, <1>7
<1>11. QED
  BY <1>5, <1>9, <1>10 DEF PointerKept, PointerFollows

LEMMA FrameInBackgroundPointer ==
  ASSUME IInv, PointerKept, NEW n \in Names, NEW g \in Geoms, NEW s \in SlotsFor(n),
         NEW f \in FreeFbs, FrameInBackground(n, g, s, f)
  PROVE  PointerKept'
<1>1. /\ sources' = [Framed(n, g, s) EXCEPT ![s].fb = f]
      /\ fbs' = Removed(Added(f, g), Claimed(n, s)[s].fb)
      /\ active' = active /\ cursor' = cursor
  BY DEF FrameInBackground
<1>2. s \in Slots /\ \A x \in Slots \ {s} : sources'[x] = sources[x]
  BY <1>1, FramedFacts, Replaced
<1>3. active \in Slots \ {s}
  BY <1>2, FrameActiveFacts DEF IInv, TypeOK, FrameInBackground, FrameActive
<1>4. QED
  BY <1>1, <1>2, <1>3 DEF PointerKept, PointerFollows

LEMMA HandleCursorPosPointer ==
  ASSUME Faults = {}, IInv, PointerKept, NEW n \in Names, NEW p \in Positions, NEW s \in SlotsFor(n),
         HandleCursorPos(n, p, s)
  PROVE  PointerKept'
<1> DEFINE t == [Claimed(n, s) EXCEPT ![s].cursor = p]
<1>1. /\ s \in Slots /\ Claimed(n, s) \in [Slots -> Source]
      /\ \A x \in Slots \ {s} : Claimed(n, s)[x] = sources[x]
  BY ClaimedFacts DEF IInv
<1>2. t[s].cursor = p /\ \A x \in Slots \ {s} : t[x] = sources[x]
  BY <1>1 DEF Source
<1>3. sources' = t /\ active' = active /\ p # NoPos /\ ready \in BOOLEAN
  BY DEF HandleCursorPos, IInv, TypeOK
<1>4. PICK m \in IF s = active THEN Moved(cursor, t[s], ready)
                               ELSE { [cursor |-> cursor, failed |-> FALSE] } :
        cursor' = m.cursor
  BY DEF HandleCursorPos
<1> HIDE DEF t
<1>5. CASE s = active
  <2>1. m \in Moved(cursor, t[s], ready)
    BY <1>4, <1>5
  <2>2. CASE ready = TRUE
    <3>1. m.cursor = [state |-> "shown", at |-> t[s].cursor]
      <4>1. m \in Moved(cursor, t[s], TRUE) /\ t[s].cursor # NoPos
        BY <1>2, <1>3, <2>1, <2>2
      <4>2. QED
        BY <4>1, MovedToSource
    <3>2. cursor'.at = p
      BY <1>2, <1>4, <3>1
    <3>3. QED
      BY <1>1, <1>2, <1>3, <1>5, <3>2 DEF PointerKept, PointerFollows
  <2>3. CASE ready = FALSE
    <3>1. cursor' = cursor
      BY <1>4, <2>1, <2>3, MovedNowhere
    <3>2. cursor.state # "shown"
      BY <2>3 DEF IInv, FramebuffersNeedKms
    <3>3. QED
      BY <3>1, <3>2 DEF PointerKept, PointerFollows
  <2>4. QED
    BY <1>3, <2>2, <2>3
<1>6. CASE s # active
  <2>1. cursor' = cursor
    BY <1>4, <1>6
  <2>2. active # NoSlot => sources'[active] = sources[active]
    BY <1>2, <1>3, <1>6 DEF IInv, TypeOK
  <2>3. QED
    BY <1>3, <2>1, <2>2 DEF PointerKept, PointerFollows
<1>7. QED
  BY <1>5, <1>6

LEMMA SelectSourcePointer ==
  ASSUME Faults = {}, IInv, NEW n \in Names, NEW s \in SlotsFor(n), SelectSource(n, s)
  PROVE  PointerKept'
<1> DEFINE src == Claimed(n, s)[s]
<1>1. s \in Slots /\ Claimed(n, s) \in [Slots -> Source] /\ src.fb = sources[s].fb
  BY ClaimedFacts DEF IInv
<1>2. sources'[s] = src /\ active' = s /\ s # NoSlot
  BY <1>1 DEF SelectSource
<1>3. PICK p \in Presented(src, fbs) : \E m \in Moved(p.cursor, src, ready) : cursor' = m.cursor
  BY DEF SelectSource
<1>4. PICK m \in Moved(p.cursor, src, ready) : cursor' = m.cursor
  BY <1>3
<1>5. ready \in BOOLEAN /\ src \in Source
  BY <1>1 DEF IInv, TypeOK
<1> HIDE DEF src
<1>6. CASE ready = TRUE
  <2>1. src.cursor # NoPos => m.cursor = [state |-> "shown", at |-> src.cursor]
    BY <1>4, <1>6, MovedToSource
  <2>2. src.cursor # NoPos => cursor'.at = src.cursor
    BY <1>4, <2>1
  <2>3. QED
    BY <1>2, <2>2 DEF PointerKept, PointerFollows
<1>7. CASE ready = FALSE
  <2>1. src.fb = NoFb /\ cursor.state # "shown"
    BY <1>1, <1>7 DEF IInv, FramebuffersNeedKms
  <2>2. p.cursor = cursor
    BY <1>3, <1>5, <2>1, PresentedFacts DEF IInv
  <2>3. cursor' = cursor
    BY <1>4, <1>7, <2>2, MovedNowhere
  <2>4. QED
    BY <1>2, <2>1, <2>3 DEF PointerKept, PointerFollows
<1>8. QED
  BY <1>5, <1>6, <1>7

\* clear_output, which is not refused, hides the pointer.
LEMMA RemoveSourcePointer ==
  ASSUME Faults = {}, IInv, PointerKept, NEW s \in Slots, RemoveSource(s)
  PROVE  PointerKept'
<1> DEFINE scr == IF screen = sources[s].fb THEN NoFb ELSE screen
<1>1. CASE s = active
  <2>1. active' = NoSlot
    BY <1>1 DEF RemoveSource
  <2>2. PICK c \in Cleared(scr) : cursor' = c.cursor
    BY <1>1 DEF RemoveSource
  <2>3. c.cursor \in Hidden(cursor)
    BY <2>2 DEF Cleared
  <2>4. c.cursor.state # "shown"
    BY <2>3, HiddenFacts DEF IInv, TypeOK, CursorType, FramebuffersNeedKms
  <2>5. QED
    BY <2>1, <2>2, <2>3, <2>4 DEF PointerKept, PointerFollows
<1>2. CASE s # active
  <2>1. /\ active' = active /\ cursor' = cursor
        /\ sources' = [sources EXCEPT ![s] = EmptySource]
    BY <1>2 DEF RemoveSource
  <2>2. active # NoSlot => sources'[active] = sources[active]
    BY <1>2, <2>1 DEF IInv, TypeOK
  <2>3. QED
    BY <2>1, <2>2 DEF PointerKept, PointerFollows
<1>3. QED
  BY <1>1, <1>2

LEMMA StepPointer ==
  ASSUME Faults = {}
  PROVE  IInv /\ PointerKept /\ [Next]_vars => PointerKept'
<1> SUFFICES ASSUME IInv, PointerKept, [Next]_vars PROVE PointerKept'
  OBVIOUS
<1>1. ASSUME UNCHANGED <<sources, active, cursor>> PROVE PointerKept'
  BY <1>1 DEF PointerKept, PointerFollows
<1>2. ASSUME NEW n \in Names, HandleFrame(n) PROVE PointerKept'
  <2>1. CASE FrameDropped(n)
    BY <2>1, <1>1 DEF FrameDropped
  <2>2. CASE \E s \in SlotsFor(n), g \in Geoms : FrameNotImported(n, g, s)
    BY <2>2, FrameNotImportedPointer
  <2>3. CASE \E s \in SlotsFor(n), g \in Geoms, f \in FreeFbs : FrameOfActive(n, g, s, f)
    BY <2>3, FrameOfActivePointer
  <2>4. CASE \E s \in SlotsFor(n), g \in Geoms, f \in FreeFbs : FrameInBackground(n, g, s, f)
    BY <2>4, FrameInBackgroundPointer
  <2>5. QED
    BY <1>2, <2>1, <2>2, <2>3, <2>4 DEF HandleFrame
<1>3. ASSUME NEW n \in Names, NEW s \in SlotsFor(n), NEW p \in Positions, HandleCursorPos(n, p, s)
      PROVE  PointerKept'
  BY <1>3, HandleCursorPosPointer
<1>4. ASSUME NEW n \in Names, NEW s \in SlotsFor(n), SelectSource(n, s) PROVE PointerKept'
  BY <1>4, SelectSourcePointer
<1>5. ASSUME NEW n \in Names, NEW s \in Named(n), RemoveSource(s) PROVE PointerKept'
  BY <1>5, RemoveSourcePointer DEF Named
<1>6. CASE Restart \/ Crash
  BY <1>6 DEF Restart, Crash, Forgotten, PointerKept, PointerFollows
<1>7. CASE (\E n \in Names : CursorDropped(n)) \/ BadMessage \/ Report \/ UNCHANGED vars
  BY <1>7, <1>1 DEF CursorDropped, BadMessage, Report, vars
<1>8. QED
  BY <1>2, <1>3, <1>4, <1>5, <1>6, <1>7 DEF Next, SelectUnknown

\* While the kernel refuses nothing, a visible pointer is where the active machine
\* last put it, whichever machine the pointer was shown for before.
THEOREM PointerAlwaysFollows ==
  ASSUME Faults = {}
  PROVE  Spec => []PointerFollows
<1>1. Init => PointerKept
  BY DEF Init, PointerKept, PointerFollows
<1>2. PointerKept => PointerFollows
  BY DEF PointerKept
<1>3. QED
  BY <1>1, <1>2, StepPointer, Invariant, PTL DEF Spec

----------------------------------------------------------------------------
(***************************************************************************)
(* Outputd implements Switchboard while the kernel refuses nothing.  Every *)
(* message changes one slot, the one of its machine, so what a user sees   *)
(* of the other machines changes with the plane only (OneSlot).  That the  *)
(* picture of a new frame is on the plane for its machine alone needs that *)
(* framebuffers have one owner (IInv); that a selected machine with a      *)
(* picture is shown needs that sizes agree (Settled).                      *)
(***************************************************************************)
\* A step of the switchboard, or one that a user does not see.
Step == Board!Next \/ UNCHANGED <<WithPicture, ActiveName, OnMonitor>>

\* The slot that get_source returns is the only one that can be the machine's.
LEMMA SlotIsTheOnlyOne ==
  ASSUME IInv, NEW n \in Names, NEW s \in SlotsFor(n)
  PROVE  /\ s \in Slots
         /\ \A x \in Slots \ {s} : sources[x].name # n
         /\ sources[s].name # n => sources[s].name = NoName /\ sources[s].fb = NoFb
         /\ n \in WithPicture <=> sources[s].fb # NoFb
         /\ n \in OnMonitor <=> screen # NoFb /\ sources[s].fb = screen
         /\ active = s => ActiveName = n
<1>1. s \in Slots /\ \A x \in Slots \ {s} : sources[x].name # n
  BY ClaimedFacts DEF IInv
<1>2. sources[s].name # n => sources[s].name = NoName /\ sources[s].fb = NoFb
  BY <1>1 DEF SlotsFor, Named, IInv, FramebufferOwnership
<1>3. active = s => ActiveName = n
  BY <1>1, <1>2 DEF ActiveName, IInv, TableSound
<1>4. (n \in WithPicture <=> sources[s].fb # NoFb)
      /\ (n \in OnMonitor <=> screen # NoFb /\ sources[s].fb = screen)
  BY <1>1, <1>2 DEF WithPicture, OnMonitor, Named
<1>5. QED
  BY <1>1, <1>2, <1>3, <1>4

LEMMA OneSlot ==
  ASSUME IInv, NEW n \in Names, NEW s \in SlotsFor(n), sources'[s].name = n,
         \A x \in Slots \ {s} : sources'[x] = sources[x]
  PROVE  /\ n \in WithPicture' <=> sources'[s].fb # NoFb
         /\ n \in OnMonitor' <=> screen' # NoFb /\ sources'[s].fb = screen'
         /\ \A m \in Names \ {n} : m \in WithPicture' <=> m \in WithPicture
         /\ \A m \in Names \ {n} : m \in OnMonitor' <=>
              \E x \in Slots \ {s} : sources[x].name = m /\ screen' # NoFb /\ sources[x].fb = screen'
         /\ \A m \in Names \ {n} : m \in OnMonitor <=>
              \E x \in Slots \ {s} : sources[x].name = m /\ screen # NoFb /\ sources[x].fb = screen
         /\ active \in Slots /\ active' = active => ActiveName' = ActiveName
<1>1. /\ s \in Slots
      /\ \A x \in Slots \ {s} : sources[x].name # n
      /\ sources[s].name # n => sources[s].name = NoName /\ sources[s].fb = NoFb
  BY SlotIsTheOnlyOne
<1>2. \A m \in Names : m # NoName
  OBVIOUS
<1>3. (n \in WithPicture' <=> sources'[s].fb # NoFb)
      /\ (n \in OnMonitor' <=> screen' # NoFb /\ sources'[s].fb = screen')
  BY <1>1 DEF WithPicture, OnMonitor, Named
<1>4. \A m \in Names \ {n} : m \in WithPicture' <=> m \in WithPicture
  BY <1>1, <1>2 DEF WithPicture, Named
<1>5. \A m \in Names \ {n} : m \in OnMonitor' <=>
        \E x \in Slots \ {s} : sources[x].name = m /\ screen' # NoFb /\ sources[x].fb = screen'
  BY <1>1, <1>2 DEF OnMonitor, Named
<1>6. \A m \in Names \ {n} : m \in OnMonitor <=>
        \E x \in Slots \ {s} : sources[x].name = m /\ screen # NoFb /\ sources[x].fb = screen
  BY <1>1, <1>2 DEF OnMonitor, Named
<1>7. active \in Slots /\ active' = active => ActiveName' = ActiveName
  BY <1>1 DEF ActiveName, IInv, TableSound
<1>8. QED
  BY <1>3, <1>4, <1>5, <1>6, <1>7

----------------------------------------------------------------------------
(***************************************************************************)
(* One step of the switchboard for each message.                           *)
(***************************************************************************)
\* While KMS is not there no machine has a picture; the first to draw is selected.
LEMMA FrameNotImportedSeen ==
  ASSUME Faults = {}, IInv, NEW n \in Names, NEW g \in Geoms, NEW s \in SlotsFor(n),
         FrameNotImported(n, g, s)
  PROVE  Step
<1>1. PICK k \in BroughtUp : ~k.ready
  BY DEF FrameNotImported
<1>2. ~ready
  BY <1>1, BroughtUpFacts DEF IInv
<1>3. /\ \A x \in Slots : sources[x].fb = NoFb
      /\ screen = NoFb
  BY <1>2 DEF IInv, FramebuffersNeedKms
<1>4. /\ s \in Slots /\ sources'[s].name = n
      /\ \A x \in Slots : sources'[x].fb = NoFb
      /\ \A x \in Slots \ {s} : sources'[x] = sources[x]
  BY <1>3, FramedFacts DEF FrameNotImported
<1>5. WithPicture = {} /\ WithPicture' = {} /\ OnMonitor = {} /\ OnMonitor' = {}
  BY <1>3, <1>4 DEF FrameNotImported, WithPicture, OnMonitor, Named
<1>6. CASE active = NoSlot
  <2>1. ActiveName' = n
    BY <1>4, <1>6 DEF FrameNotImported, FrameActive, ActiveName
  <2>2. Board!Select(n)
    BY <1>5, <2>1 DEF Board!Select
  <2>3. QED
    BY <2>2 DEF Step, Board!Next
<1>7. CASE active # NoSlot
  <2>1. active \in Slots /\ active' = active
    BY <1>7 DEF IInv, TypeOK, FrameNotImported, FrameActive
  <2>2. QED
    BY <1>4, <1>5, <2>1, OneSlot DEF Step
<1>8. QED
  BY <1>6, <1>7

LEMMA FrameOfActiveSeen ==
  ASSUME Faults = {}, IInv, NEW n \in Names, NEW g \in Geoms, NEW s \in SlotsFor(n),
         NEW f \in FreeFbs, FrameOfActive(n, g, s, f)
  PROVE  Step
<1> DEFINE src == [Framed(n, g, s)[s] EXCEPT !.fb = f]
<1>1. s \in Slots /\ Framed(n, g, s) \in [Slots -> Source] /\ Framed(n, g, s)[s].geom = g
  BY FramedFacts
<1>2. src.fb = f /\ src.geom = g /\ f \in FBs /\ f # NoFb /\ g \in Nat
  BY <1>1 DEF Source, FreeFbs
<1>3. Added(f, g)[f] = g
  BY <1>2 DEF Added, IInv, TypeOK
<1>4. PICK p \in Presented(src, Added(f, g)) :
        \/ /\ p.shown
           /\ sources' = [Framed(n, g, s) EXCEPT ![s].fb = f]
           /\ fbs'     = Removed(Added(f, g), Claimed(n, s)[s].fb)
           /\ screen'  = f
        \/ ~p.shown
  BY DEF FrameOfActive
<1> HIDE DEF src
<1>5. p.shown = TRUE
  BY <1>2, <1>3, <1>4, FittingIsShown
<1>6. /\ sources' = [Framed(n, g, s) EXCEPT ![s].fb = f]
      /\ fbs' = Removed(Added(f, g), Claimed(n, s)[s].fb)
      /\ screen' = f /\ active' = s /\ s = FrameActive(s)
  BY <1>4, <1>5 DEF FrameOfActive
<1>7. /\ sources'[s].name = n /\ sources'[s].fb = f
      /\ \A x \in Slots \ {s} : sources'[x] = sources[x] /\ sources[x].fb # f
  <2>1. /\ sources'[s].name = n /\ sources'[s].fb = f /\ f # NoFb /\ ~Live(f)
        /\ \A x \in Slots \ {s} : sources'[x] = sources[x]
    BY <1>6, Replaced
  <2>2. \A x \in Slots : sources[x].fb # f
    BY <2>1 DEF IInv, FramebufferOwnership
  <2>3. QED
    BY <2>1, <2>2
<1>8. WithPicture' = WithPicture \cup {n} /\ OnMonitor' = {n}
  <2>1. \A m \in Names \ {n} : (m \in WithPicture' <=> m \in WithPicture) /\ m \notin OnMonitor'
    BY <1>6, <1>7, OneSlot
  <2>2. n \in WithPicture' /\ n \in OnMonitor'
    BY <1>2, <1>6, <1>7, OneSlot
  <2>3. WithPicture \subseteq Names /\ WithPicture' \subseteq Names /\ OnMonitor' \subseteq Names
    BY DEF WithPicture, OnMonitor
  <2>4. QED
    BY <2>1, <2>2, <2>3
<1>9. ActiveName' = n /\ (ActiveName = NoName \/ ActiveName = n)
  <2>1. ActiveName' = n
    BY <1>1, <1>6, <1>7 DEF ActiveName, IInv, TypeOK
  <2>2. active = NoSlot \/ active = s
    BY <1>6 DEF FrameActive
  <2>3. QED
    BY <2>1, <2>2, SlotIsTheOnlyOne DEF ActiveName
<1>10. Board!Draw(n)
  BY <1>8, <1>9 DEF Board!Draw
<1>11. QED
  BY <1>10 DEF Step, Board!Next

\* The monitor goes dark when it still showed the frame that is replaced.
LEMMA FrameInBackgroundSeen ==
  ASSUME IInv, NEW n \in Names, NEW g \in Geoms, NEW s \in SlotsFor(n), NEW f \in FreeFbs,
         FrameInBackground(n, g, s, f)
  PROVE  Step
<1>1. s \in Slots /\ Claimed(n, s)[s].fb = sources[s].fb
  BY ClaimedFacts DEF IInv
<1>2. /\ sources' = [Framed(n, g, s) EXCEPT ![s].fb = f]
      /\ fbs' = Removed(Added(f, g), Claimed(n, s)[s].fb)
      /\ screen' = IF screen = sources[s].fb THEN NoFb ELSE screen
      /\ active' = active
  BY <1>1 DEF FrameInBackground
<1>3. /\ sources'[s].name = n /\ sources'[s].fb = f /\ f # NoFb /\ ~Live(f)
      /\ \A x \in Slots \ {s} : sources'[x] = sources[x]
  BY <1>2, Replaced
<1>4. active \in Slots \ {s}
  BY <1>1, FrameActiveFacts DEF IInv, TypeOK, FrameInBackground, FrameActive
<1>5. ActiveName' = ActiveName /\ ActiveName # NoName /\ ActiveName # n
  BY <1>1, <1>2, <1>3, <1>4, OneSlot, SlotIsTheOnlyOne DEF ActiveName, IInv, TypeOK, TableSound
<1>6. screen' # f
  BY <1>2, <1>3 DEF IInv, FramebuffersNeedKms
<1>7. OnMonitor' = OnMonitor \ {n}
  <2>1. n \notin OnMonitor'
    BY <1>3, <1>6, OneSlot
  <2>2. \A m \in Names \ {n} : m \in OnMonitor' <=> m \in OnMonitor
    <3>1. CASE screen = sources[s].fb
      BY <3>1, <1>1, <1>2, <1>3, OneSlot DEF IInv, FramebufferOwnership
    <3>2. CASE screen # sources[s].fb
      BY <3>2, <1>2, <1>3, OneSlot
    <3>3. QED
      BY <3>1, <3>2
  <2>3. OnMonitor \subseteq Names /\ OnMonitor' \subseteq Names
    BY DEF OnMonitor
  <2>4. QED
    BY <2>1, <2>2, <2>3
<1>8. WithPicture' = WithPicture \cup {n}
  <2>1. n \in WithPicture' /\ \A m \in Names \ {n} : m \in WithPicture' <=> m \in WithPicture
    BY <1>3, OneSlot
  <2>2. WithPicture \subseteq Names /\ WithPicture' \subseteq Names
    BY DEF WithPicture
  <2>3. QED
    BY <2>1, <2>2
<1>9. Board!Draw(n)
  BY <1>5, <1>7, <1>8 DEF Board!Draw
<1>10. QED
  BY <1>9 DEF Step, Board!Next

\* A pointer takes a slot, but no user of the daemon sees that.
LEMMA HandleCursorPosSeen ==
  ASSUME IInv, NEW n \in Names, NEW p \in Positions, NEW s \in SlotsFor(n), HandleCursorPos(n, p, s)
  PROVE  Step
<1>1. /\ s \in Slots /\ Claimed(n, s) \in [Slots -> Source] /\ Claimed(n, s)[s].name = n
      /\ Claimed(n, s)[s].fb = sources[s].fb
      /\ \A x \in Slots \ {s} : Claimed(n, s)[x] = sources[x]
  BY ClaimedFacts DEF IInv
<1>2. sources'[s] = [Claimed(n, s)[s] EXCEPT !.cursor = p]
      /\ \A x \in Slots \ {s} : sources'[x] = sources[x]
  BY <1>1 DEF HandleCursorPos
<1>3. /\ sources'[s].fb = sources[s].fb /\ sources'[s].name = n
      /\ \A x \in Slots \ {s} : sources'[x] = sources[x]
  BY <1>1, <1>2 DEF Source
<1>4. active' = active /\ screen' = screen
  BY DEF HandleCursorPos
<1>5. ActiveName' = ActiveName
  BY <1>3, <1>4, OneSlot DEF ActiveName, IInv, TypeOK
<1>6. \A m \in Names : (m \in WithPicture' <=> m \in WithPicture) /\ (m \in OnMonitor' <=> m \in OnMonitor)
  <2>1. \A m \in Names \ {n} : (m \in WithPicture' <=> m \in WithPicture) /\ (m \in OnMonitor' <=> m \in OnMonitor)
    BY <1>3, <1>4, OneSlot
  <2>2. (n \in WithPicture' <=> n \in WithPicture) /\ (n \in OnMonitor' <=> n \in OnMonitor)
    <3>1. (n \in WithPicture' <=> sources'[s].fb # NoFb)
          /\ (n \in OnMonitor' <=> screen' # NoFb /\ sources'[s].fb = screen')
      BY <1>3, OneSlot
    <3>2. (n \in WithPicture <=> sources[s].fb # NoFb)
          /\ (n \in OnMonitor <=> screen # NoFb /\ sources[s].fb = screen)
      BY SlotIsTheOnlyOne
    <3>3. QED
      BY <1>3, <1>4, <3>1, <3>2
  <2>3. QED
    BY <2>1, <2>2
<1>7. WithPicture' = WithPicture /\ OnMonitor' = OnMonitor
  <2>1. /\ WithPicture \subseteq Names /\ WithPicture' \subseteq Names
        /\ OnMonitor \subseteq Names /\ OnMonitor' \subseteq Names
    BY DEF WithPicture, OnMonitor
  <2>2. QED
    BY <1>6, <2>1
<1>8. QED
  BY <1>5, <1>7 DEF Step

LEMMA SelectSourceSeen ==
  ASSUME Faults = {}, IInv, Settled, NEW n \in Names, NEW s \in SlotsFor(n), SelectSource(n, s)
  PROVE  Step
<1> DEFINE src == Claimed(n, s)[s]
<1>1. /\ s \in Slots /\ src.name = n /\ src.fb = sources[s].fb /\ Claimed(n, s) \in [Slots -> Source]
      /\ \A x \in Slots \ {s} : Claimed(n, s)[x] = sources[x]
  BY ClaimedFacts DEF IInv
<1>2. sources' = Claimed(n, s) /\ active' = s
  BY DEF SelectSource
<1>3. /\ sources'[s].name = n /\ sources'[s].fb = sources[s].fb
      /\ \A x \in Slots \ {s} : sources'[x] = sources[x]
  BY <1>1, <1>2
<1>4. ActiveName' = n
  BY <1>1, <1>2 DEF ActiveName
<1>5. WithPicture' = WithPicture
  <2>1. \A m \in Names : m \in WithPicture' <=> m \in WithPicture
    BY <1>3, OneSlot, SlotIsTheOnlyOne
  <2>2. WithPicture \subseteq Names /\ WithPicture' \subseteq Names
    BY DEF WithPicture
  <2>3. QED
    BY <2>1, <2>2
<1>6. PICK p \in Presented(src, fbs) : screen' = IF p.shown THEN src.fb ELSE screen
  BY DEF SelectSource
<1>7. OnMonitor' = IF n \in WithPicture THEN {n} ELSE OnMonitor
  <2>0. OnMonitor \subseteq Names /\ OnMonitor' \subseteq Names
    BY DEF OnMonitor
  <2>1. CASE sources[s].fb # NoFb
    <3>1. Claimed(n, s) = sources
      BY <2>1, SlotIsTheOnlyOne DEF Claimed
    <3>2. src.geom = fbs[src.fb] /\ src.geom \in Nat
      BY <1>1, <2>1, <3>1 DEF Settled, SizesAgree, Source
    <3>3. p.shown = TRUE
      BY <1>1, <1>6, <2>1, <3>2, FittingIsShown
    <3>4. screen' = sources[s].fb
      BY <1>1, <1>6, <3>3
    <3>5. n \in OnMonitor' /\ \A m \in Names \ {n} : m \notin OnMonitor'
      BY <1>1, <1>3, <2>1, <3>4, OneSlot DEF IInv, FramebufferOwnership
    <3>6. QED
      BY <2>0, <2>1, <3>5, SlotIsTheOnlyOne
  <2>2. CASE sources[s].fb = NoFb
    <3>1. p.shown = FALSE
      BY <1>1, <1>6, <2>2 DEF Presented, NotPresented
    <3>2. screen' = screen
      BY <1>6, <3>1
    <3>3. \A m \in Names : m \in OnMonitor' <=> m \in OnMonitor
      BY <1>3, <3>2, OneSlot, SlotIsTheOnlyOne
    <3>4. OnMonitor' = OnMonitor
      BY <2>0, <3>3
    <3>5. n \notin WithPicture
      BY <2>2, SlotIsTheOnlyOne
    <3>6. QED
      BY <3>4, <3>5
  <2>3. QED
    BY <2>1, <2>2
<1>8. Board!Select(n)
  BY <1>4, <1>5, <1>7 DEF Board!Select
<1>9. QED
  BY <1>8 DEF Step, Board!Next

LEMMA RemoveSourceSeen ==
  ASSUME Faults = {}, IInv, NEW n \in Names, NEW s \in Named(n), RemoveSource(s)
  PROVE  Step
<1>1. /\ s \in Slots /\ s \in SlotsFor(n) /\ sources[s].name = n /\ n # NoName
      /\ \A x \in Slots \ {s} : sources[x].name # n
  BY DEF Named, SlotsFor, IInv, TableSound
<1>2. /\ sources'[s].fb = NoFb /\ sources'[s].name = NoName
      /\ \A x \in Slots \ {s} : sources'[x] = sources[x]
  BY <1>1 DEF RemoveSource, EmptySource, IInv, TypeOK
<1>3. WithPicture' = WithPicture \ {n} /\ n \notin OnMonitor'
  <2>1. \A x \in Slots : sources'[x].name # n
    BY <1>1, <1>2
  <2>2. n \notin WithPicture' /\ n \notin OnMonitor'
    BY <2>1 DEF WithPicture, OnMonitor, Named
  <2>3. \A m \in Names \ {n} : m \in WithPicture' <=> m \in WithPicture
    BY <1>1, <1>2 DEF WithPicture, Named
  <2>4. WithPicture \subseteq Names /\ WithPicture' \subseteq Names
    BY DEF WithPicture
  <2>5. QED
    BY <2>2, <2>3, <2>4
<1>4. CASE s = active
  <2>1. ActiveName = n /\ ActiveName' = NoName
    BY <1>1, <1>4 DEF RemoveSource, ActiveName
  <2>2. PICK c \in Cleared(IF screen = sources[s].fb THEN NoFb ELSE screen) : screen' = c.screen
    BY <1>1, <1>4 DEF RemoveSource
  <2>3. screen' = NoFb
    BY <2>2 DEF Cleared, IInv, FramebuffersNeedKms
  <2>4. OnMonitor' = {}
    BY <2>3 DEF OnMonitor
  <2>5. Board!Withdraw(n)
    BY <1>3, <2>1, <2>4 DEF Board!Withdraw
  <2>6. QED
    BY <2>5 DEF Step, Board!Next
<1>5. CASE s # active
  <2>1. active' = active /\ screen' = IF screen = sources[s].fb THEN NoFb ELSE screen
    BY <1>5 DEF RemoveSource
  <2>2. ActiveName' = ActiveName /\ ActiveName # n
    BY <1>1, <1>2, <1>5, <2>1 DEF ActiveName, IInv, TypeOK
  <2>3. \A m \in Names \ {n} : m \in OnMonitor' <=> m \in OnMonitor
    <3>1. CASE screen = sources[s].fb
      BY <3>1, <1>1, <2>1 DEF OnMonitor, Named, IInv, FramebufferOwnership
    <3>2. CASE screen # sources[s].fb
      BY <3>2, <1>1, <1>2, <2>1 DEF OnMonitor, Named
    <3>3. QED
      BY <3>1, <3>2
  <2>4. OnMonitor' = OnMonitor \ {n}
    <3>1. OnMonitor \subseteq Names /\ OnMonitor' \subseteq Names
      BY DEF OnMonitor
    <3>2. QED
      BY <1>3, <2>3, <3>1
  <2>5. Board!Withdraw(n)
    BY <1>3, <2>2, <2>4 DEF Board!Withdraw
  <2>6. QED
    BY <2>5 DEF Step, Board!Next
<1>6. QED
  BY <1>4, <1>5

----------------------------------------------------------------------------
LEMMA QuietUnseen ==
  ASSUME UNCHANGED <<sources, active, screen>>
  PROVE  UNCHANGED <<WithPicture, ActiveName, OnMonitor>>
BY DEF WithPicture, ActiveName, OnMonitor, Named

LEMMA StepSeen ==
  ASSUME Faults = {}
  PROVE  IInv /\ Settled /\ [Next]_vars => Step
<1> SUFFICES ASSUME IInv, Settled, [Next]_vars PROVE Step
  OBVIOUS
<1>1. ASSUME UNCHANGED <<sources, active, screen>> PROVE Step
  BY <1>1, QuietUnseen DEF Step
<1>2. ASSUME NEW n \in Names, HandleFrame(n) PROVE Step
  <2>1. CASE FrameDropped(n)
    BY <2>1, <1>1 DEF FrameDropped
  <2>2. CASE \E s \in SlotsFor(n), g \in Geoms : FrameNotImported(n, g, s)
    BY <2>2, FrameNotImportedSeen
  <2>3. CASE \E s \in SlotsFor(n), g \in Geoms, f \in FreeFbs : FrameOfActive(n, g, s, f)
    BY <2>3, FrameOfActiveSeen
  <2>4. CASE \E s \in SlotsFor(n), g \in Geoms, f \in FreeFbs : FrameInBackground(n, g, s, f)
    BY <2>4, FrameInBackgroundSeen
  <2>5. QED
    BY <1>2, <2>1, <2>2, <2>3, <2>4 DEF HandleFrame
<1>3. ASSUME NEW n \in Names, NEW s \in SlotsFor(n), NEW p \in Positions, HandleCursorPos(n, p, s)
      PROVE  Step
  BY <1>3, HandleCursorPosSeen
<1>4. ASSUME NEW n \in Names, NEW s \in SlotsFor(n), SelectSource(n, s) PROVE Step
  BY <1>4, SelectSourceSeen
<1>5. ASSUME NEW n \in Names, NEW s \in Named(n), RemoveSource(s) PROVE Step
  BY <1>5, RemoveSourceSeen
<1>6. CASE Restart \/ Crash
  <2>1. WithPicture' = {} /\ ActiveName' = NoName /\ OnMonitor' = {}
    BY <1>6 DEF Restart, Crash, Forgotten, EmptySource, WithPicture, ActiveName, OnMonitor, Named
  <2>2. QED
    BY <2>1 DEF Step, Board!Next, Board!Reset
<1>7. CASE (\E n \in Names : CursorDropped(n)) \/ BadMessage \/ Report \/ UNCHANGED vars
  BY <1>7, <1>1 DEF CursorDropped, BadMessage, Report, vars
<1>8. CASE \E n \in Names : SelectUnknown(n)
  BY <1>8, <1>1 DEF SelectUnknown, vars
<1>9. QED
  BY <1>2, <1>3, <1>4, <1>5, <1>6, <1>7, <1>8 DEF Next

\* While the kernel refuses nothing, gvt-outputd is a switchboard: whatever messages
\* arrive in whatever order, who has a picture, who is selected and who is seen
\* change as in Switchboard, or not at all.
THEOREM OutputdIsASwitchboard ==
  ASSUME Faults = {}
  PROVE  Spec => ImplementsSwitchboard
<1>1. Init => Board!Init
  BY DEF Init, EmptySource, Board!Init, WithPicture, ActiveName, OnMonitor, Named
<1>2. IInv /\ Settled /\ [Next]_vars => [Board!Next]_(Board!vars)
  BY StepSeen DEF Step, Board!vars
<1>3. QED
  BY <1>1, <1>2, Invariant, AlwaysSettled, PTL DEF Spec, Board!Spec, ImplementsSwitchboard
=============================================================================
