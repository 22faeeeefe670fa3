------------------------ MODULE StreamCaptureProofs ------------------------
(***************************************************************************)
(* Theorems about StreamCapture for every interval, lateness of the        *)
(* display's timer, set of pictures and set of calls that may fail.        *)
(*                                                                         *)
(* That the client sees a change in time is inductive only with what a     *)
(* refresh leaves behind.  AgesInv: a picture has been out of date no      *)
(* longer than since the last capture, and a change has been overlooked no *)
(* longer than since the last probe.  RefreshInv: both are younger than    *)
(* the interval that applies plus the time since the last refresh.         *)
(***************************************************************************)
EXTENDS StreamCapture, TLAPS

USE StreamCaptureAssumption

LongInterval == Max({IdleCaptureMs, CaptureMs})

\* A change that has not been noticed is a visible one.
SeenInv == unseen # Never <=> base # Never /\ Visible(picture, base)

AgesInv ==
  /\ stale # Never /\ captured # Never => stale <= captured
  /\ unseen # Never /\ probed # Never => unseen <= probed

RefreshInv ==
  scanout /\ left # 0 =>
    /\ stale # Never =>
         /\ stale < LongInterval + due
         /\ awake # Never => stale < CaptureMs + due \/ awake < CaptureMs + due
    /\ IdleProbeMs # 0 /\ unseen # Never => unseen < IdleProbeMs + due

IInv == TypeOK /\ SeenInv /\ AgesInv /\ RefreshInv

----------------------------------------------------------------------------
(***************************************************************************)
(* Ages.                                                                   *)
(***************************************************************************)
LEMMA MinFacts ==
  ASSUME NEW a \in Int, NEW b \in Int
  PROVE  Min({a, b}) \in {a, b} /\ Min({a, b}) <= a /\ Min({a, b}) <= b
<1>1. \E x \in {a, b} : \A y \in {a, b} : x <= y
  <2>1. CASE a <= b
    BY <2>1
  <2>2. CASE b <= a
    BY <2>2
  <2>3. QED
    BY <2>1, <2>2
<1>2. Min({a, b}) \in {a, b} /\ \A y \in {a, b} : Min({a, b}) <= y
  BY <1>1 DEF Min
<1>3. QED
  BY <1>2

LEMMA MaxFacts ==
  ASSUME NEW a \in Int, NEW b \in Int
  PROVE  Max({a, b}) \in {a, b} /\ a <= Max({a, b}) /\ b <= Max({a, b})
<1>1. \E x \in {a, b} : \A y \in {a, b} : x >= y
  <2>1. CASE a <= b
    BY <2>1
  <2>2. CASE b <= a
    BY <2>2
  <2>3. QED
    BY <2>1, <2>2
<1>2. Max({a, b}) \in {a, b} /\ \A y \in {a, b} : Max({a, b}) >= y
  BY <1>1 DEF Max
<1>3. QED
  BY <1>2

LEMMA MaxOfFour ==
  ASSUME NEW a \in Nat, NEW b \in Nat, NEW c \in Nat, NEW d \in Nat
  PROVE  Max({a, b, c, d}) \in Nat
<1> DEFINE x == IF a >= b THEN a ELSE b
           y == IF c >= d THEN c ELSE d
           z == IF x >= y THEN x ELSE y
<1>1. x \in {a, b} /\ x >= a /\ x >= b
  OBVIOUS
<1>2. y \in {c, d} /\ y >= c /\ y >= d
  OBVIOUS
<1> HIDE DEF x, y
<1>3. x \in Nat /\ y \in Nat
  BY <1>1, <1>2
<1>4. z \in {x, y} /\ z >= x /\ z >= y
  BY <1>3
<1> HIDE DEF z
<1>5. z \in {a, b, c, d} /\ z >= a /\ z >= b /\ z >= c /\ z >= d
  BY <1>1, <1>2, <1>3, <1>4
<1>6. \E m \in {a, b, c, d} : \A n \in {a, b, c, d} : m >= n
  BY <1>5
<1>7. Max({a, b, c, d}) \in {a, b, c, d}
  BY <1>6 DEF Max
<1>8. QED
  BY <1>7

LEMMA LongFacts == Long \in Nat \ {0}
<1>1. Max({CaptureMs, IdleCaptureMs, IdleAfterMs, IdleProbeMs}) \in Nat
  BY MaxOfFour
<1>2. QED
  BY <1>1 DEF Long

\* An interval that applies, at its longest.
LEMMA IntervalFacts ==
  ASSUME NEW q
  PROVE  /\ LongInterval \in Nat \ {0} /\ CaptureMs <= LongInterval
         /\ Interval(q) \in Nat \ {0} /\ Interval(q) <= LongInterval
         /\ Busy(q) => Interval(q) = CaptureMs
<1>1. /\ LongInterval \in {IdleCaptureMs, CaptureMs}
      /\ IdleCaptureMs <= LongInterval /\ CaptureMs <= LongInterval
  BY MaxFacts DEF LongInterval
<1>2. QED
  BY <1>1 DEF Interval

\* Growing older keeps the order of two ages.
LEMMA OlderFacts ==
  ASSUME NEW age \in Age
  PROVE  /\ Older(age) \in Age
         /\ Older(age) = Never <=> age = Never
         /\ age # Never => Older(age) <= age + 1
         /\ \A b \in Age : age # Never /\ b # Never /\ age <= b => Older(age) <= Older(b)
<1>1. Long \in Nat /\ Never \notin Int
  BY LongFacts
<1>2. CASE age = Never
  BY <1>2 DEF Older
<1>3. ASSUME NEW x \in 0 .. Long
      PROVE  /\ Older(x) \in {x + 1, Long} /\ Older(x) <= x + 1 /\ Older(x) <= Long
  <2>1. x \in Int /\ x + 1 \in Int /\ x # Never
    BY <1>1
  <2>2. Older(x) = Min({x + 1, Long})
    BY <2>1 DEF Older
  <2>3. /\ Min({x + 1, Long}) \in {x + 1, Long}
        /\ Min({x + 1, Long}) <= x + 1 /\ Min({x + 1, Long}) <= Long
    BY <1>1, <2>1, MinFacts
  <2>4. QED
    BY <2>2, <2>3
<1>4. CASE age # Never
  <2>1. age \in 0 .. Long
    BY <1>4 DEF Age
  <2>2. Older(age) \in 0 .. Long /\ Older(age) <= age + 1
    BY <1>1, <1>3, <2>1
  <2>3. ASSUME NEW b \in Age, b # Never, age <= b PROVE Older(age) <= Older(b)
    <3>1. b \in 0 .. Long
      BY <2>3 DEF Age
    <3>2. QED
      BY <1>1, <1>3, <2>1, <2>3, <3>1
  <2>4. QED
    BY <1>1, <1>4, <2>2, <2>3 DEF Age
<1>5. QED
  BY <1>2, <1>4

----------------------------------------------------------------------------
(***************************************************************************)
(* A refresh.                                                              *)
(***************************************************************************)
\* Visible pictures are different ones.
LEMMA SeenSame ==
  ASSUME NEW p \in Nat
  PROVE  ~Visible(p, p)
BY DEF Visible

\* A probe leaves no change overlooked, or has been made less than its interval ago;
\* the machine that it wakes up is busy.
LEMMA ProbeFacts ==
  ASSUME IInv, Probe, UNCHANGED picture
  PROVE  /\ {sample', base'} \subseteq 0 .. MaxPicture \cup {Never}
         /\ {quiet', probed', unseen', awake'} \subseteq Age
         /\ ~Busy(quiet') => awake' = Never
         /\ sample' = base' /\ SeenInv'
         /\ unseen' # Never /\ probed' # Never => unseen' <= probed'
         /\ IdleProbeMs # 0 /\ unseen' # Never => unseen' < IdleProbeMs
<1> USE LongFacts
<1>1. /\ {sample, base} \subseteq 0 .. MaxPicture \cup {Never} /\ picture \in 0 .. MaxPicture
      /\ {quiet, probed, unseen, awake} \subseteq Age
      /\ ~Busy(quiet) => awake = Never
      /\ sample = base /\ SeenInv
      /\ unseen # Never /\ probed # Never => unseen <= probed
  BY DEF IInv, TypeOK, AgesInv
<1>2. 0 \in Age /\ Never \in Age /\ Never \notin Int
  BY DEF Age
<1>3. CASE UNCHANGED probeVars /\ (IdleProbeMs = 0 \/ (probed # Never /\ probed < IdleProbeMs))
  <2>1. UNCHANGED <<sample, quiet, probed, base, unseen, awake, picture>>
    BY <1>3 DEF probeVars
  <2>2. IdleProbeMs # 0 /\ unseen # Never => unseen < IdleProbeMs
    BY <1>1, <1>2, <1>3 DEF Age
  <2>3. QED
    BY <1>1, <2>1, <2>2 DEF SeenInv
<1>4. CASE probed' = 0 /\ Sampled /\ Differs
  <2>1. /\ sample' = picture /\ quiet' = 0 /\ base' = picture /\ unseen' = Never
        /\ awake' \in {0, awake}
    BY <1>4 DEF Sampled, Noticed
  <2>2. ~Visible(picture, picture) /\ Busy(0)
    BY <1>1, SeenSame DEF Busy
  <2>3. QED
    BY <1>1, <1>2, <1>4, <2>1, <2>2 DEF SeenInv
<1>5. CASE probed' = 0 /\ Sampled /\ ~Differs
  <2>1. UNCHANGED <<sample, quiet, base, unseen, awake>>
    BY <1>5 DEF Sampled
  <2>2. ~Visible(picture, base) /\ unseen = Never
    BY <1>1, <1>5 DEF Differs, SeenInv
  <2>3. QED
    BY <1>1, <1>2, <1>5, <2>1, <2>2 DEF SeenInv
<1>6. CASE probed' = 0 /\ NotProbed
  <2>1. /\ UNCHANGED <<sample, quiet, base, awake>>
        /\ unseen' = IF unseen = Never THEN Never ELSE 0
    BY <1>6 DEF NotProbed
  <2>2. unseen' # Never <=> unseen # Never
    BY <1>2, <2>1
  <2>3. QED
    BY <1>1, <1>2, <1>6, <2>1, <2>2 DEF SeenInv
<1>7. QED
  BY <1>3, <1>4, <1>5, <1>6 DEF Probe

\* What is captured is pushed, or out of date from now on.
LEMMA CaptureFacts ==
  ASSUME IInv, Capture, left # 0, UNCHANGED picture
  PROVE  /\ {captured', stale'} \subseteq Age /\ left' \in 0 .. CaptureMax \cup {Unlimited}
         /\ pushed' \in 0 .. MaxPicture \cup {Never}
         /\ stale' \in {Never, 0}
<1> USE LongFacts
<1>1. /\ {captured, stale} \subseteq Age /\ left \in 0 .. CaptureMax \cup {Unlimited}
      /\ pushed \in 0 .. MaxPicture \cup {Never} /\ picture \in 0 .. MaxPicture
      /\ 0 \in Age /\ Never \in Age
  BY DEF IInv, TypeOK, Age
<1>2. Counted => captured' = 0 /\ left' \in 0 .. CaptureMax \cup {Unlimited}
  <2>1. CASE left = Unlimited
    BY <2>1 DEF Counted
  <2>2. CASE left # Unlimited
    <3>1. left \in 1 .. CaptureMax
      BY <1>1, <2>2
    <3>2. QED
      BY <2>2, <3>1 DEF Counted
  <2>3. QED
    BY <2>1, <2>2
<1>3. Missed => stale' \in {Never, 0} /\ pushed' = pushed
  BY DEF Missed
<1>4. CASE NotImported
  BY <1>1, <1>3, <1>4 DEF NotImported
<1>5. CASE NotWritten \/ NotPushed
  BY <1>1, <1>2, <1>3, <1>5 DEF NotWritten, NotPushed
<1>6. CASE Pushed
  BY <1>1, <1>2, <1>6 DEF Pushed
<1>7. QED
  BY <1>4, <1>5, <1>6 DEF Capture

LEMMA GlUpdateKeeps ==
  ASSUME IInv, GlUpdate
  PROVE  IInv'
<1> USE LongFacts
<1>1. /\ scanout = TRUE /\ scanout' = TRUE /\ due' = 0 /\ UNCHANGED <<path, picture>> /\ CaptureFrame
  BY DEF GlUpdate, IInv, TypeOK
<1>2. CASE left = 0
  <2>1. UNCHANGED <<probeVars, captureVars>>
    BY <1>1, <1>2 DEF CaptureFrame
  <2>2. QED
    BY <1>1, <1>2, <2>1 DEF probeVars, captureVars, IInv, TypeOK, SeenInv, AgesInv, RefreshInv
<1>3. CASE left # 0
  <2>1. Probe /\ IF Throttled(quiet') THEN UNCHANGED captureVars ELSE Capture
    BY <1>1, <1>3 DEF CaptureFrame
  <2>2. /\ {sample', base'} \subseteq 0 .. MaxPicture \cup {Never}
        /\ {quiet', probed', unseen', awake'} \subseteq Age
        /\ ~Busy(quiet') => awake' = Never
        /\ sample' = base' /\ SeenInv'
        /\ unseen' # Never /\ probed' # Never => unseen' <= probed'
        /\ IdleProbeMs # 0 /\ unseen' # Never => unseen' < IdleProbeMs
    BY <1>1, <2>1, ProbeFacts
  <2>3. /\ {captured', stale'} \subseteq Age /\ left' \in 0 .. CaptureMax \cup {Unlimited}
        /\ pushed' \in 0 .. MaxPicture \cup {Never}
        /\ stale' # Never /\ captured' # Never => stale' <= captured'
        /\ stale' # Never => stale' < Interval(quiet')
    <3>1. CASE Throttled(quiet')
      <4>1. /\ UNCHANGED captureVars /\ captured # Never /\ captured < Interval(quiet')
            /\ stale # Never => stale <= captured
        BY <2>1, <3>1 DEF Throttled, IInv, AgesInv
      <4>2. /\ {captured, stale} \subseteq Age /\ Interval(quiet') \in Nat
        BY IntervalFacts DEF IInv, TypeOK
      <4>3. stale # Never => stale < Interval(quiet')
        BY <4>1, <4>2 DEF Age
      <4>4. QED
        BY <4>1, <4>2, <4>3 DEF captureVars, IInv, TypeOK
    <3>2. CASE ~Throttled(quiet')
      <4>1. /\ {captured', stale'} \subseteq Age /\ left' \in 0 .. CaptureMax \cup {Unlimited}
            /\ pushed' \in 0 .. MaxPicture \cup {Never} /\ stale' \in {Never, 0}
        BY <1>1, <1>3, <2>1, <3>2, CaptureFacts
      <4>2. captured' # Never => captured' \in Nat
        BY <4>1 DEF Age
      <4>3. Interval(quiet') \in Nat \ {0}
        BY IntervalFacts
      <4>4. QED
        BY <4>1, <4>2, <4>3
    <3>3. QED
      BY <3>1, <3>2
  <2>4. TypeOK'
    BY <1>1, <2>2, <2>3 DEF IInv, TypeOK
  <2>5. AgesInv'
    BY <2>2, <2>3 DEF AgesInv
  <2>6. /\ Interval(quiet') <= LongInterval /\ LongInterval \in Nat /\ Interval(quiet') \in Nat
        /\ Busy(quiet') => Interval(quiet') = CaptureMs
    BY IntervalFacts
  <2>7. /\ stale' # Never => stale' < LongInterval
        /\ stale' # Never /\ awake' # Never => stale' < CaptureMs
    BY <2>2, <2>3, <2>6 DEF Age
  <2>8. RefreshInv'
    BY <1>1, <2>2, <2>6, <2>7 DEF RefreshInv, LongInterval
  <2>9. QED
    BY <2>2, <2>4, <2>5, <2>8 DEF IInv
<1>4. QED
  BY <1>2, <1>3

----------------------------------------------------------------------------
(***************************************************************************)
(* The other steps.                                                        *)
(***************************************************************************)
\* A picture of a new scanout that differs has been waited for since now.
LEMMA ScanoutDmabufKeeps ==
  ASSUME IInv, ScanoutDmabuf
  PROVE  IInv'
<1> USE LongFacts
<1>1. /\ scanout' = TRUE /\ due' = 1
      /\ unseen' = (IF unseen = Never THEN Never ELSE 0)
      /\ stale' = (IF stale = Never THEN Never ELSE 0)
      /\ UNCHANGED <<path, picture, sample, quiet, probed, base, awake, captured, left, pushed>>
  BY DEF ScanoutDmabuf
<1>2. {captured, probed, awake} \subseteq Age /\ 0 \in Age /\ Never \in Age /\ 1 \in 0 .. Late
  BY DEF IInv, TypeOK, Age
<1>3. TypeOK'
  BY <1>1, <1>2 DEF IInv, TypeOK
<1>4. SeenInv' /\ AgesInv'
  BY <1>1, <1>2 DEF IInv, SeenInv, AgesInv, Age
<1>5. RefreshInv'
  <2>1. LongInterval \in Nat \ {0}
    BY IntervalFacts
  <2>2. QED
    BY <1>1, <2>1 DEF RefreshInv
<1>6. QED
  BY <1>3, <1>4, <1>5 DEF IInv

LEMMA ScanoutDisableKeeps ==
  ASSUME IInv, ScanoutDisable
  PROVE  IInv'
<1>1. /\ scanout' = FALSE /\ due' = 0
      /\ UNCHANGED <<path, picture, sample, quiet, probed, base, unseen, awake>>
      /\ UNCHANGED <<captured, left, pushed, stale>>
  BY DEF ScanoutDisable, probeVars, captureVars
<1>2. TypeOK'
  <2>1. scanout' \in BOOLEAN /\ due' \in 0 .. Late
    <3>1. Late \in Nat
      OBVIOUS
    <3>2. 0 \in 0 .. Late
      BY <3>1
    <3>3. QED
      BY <1>1, <3>2
  <2>2. QED
    BY <1>1, <2>1 DEF IInv, TypeOK
<1>3. SeenInv' /\ AgesInv'
  BY <1>1 DEF IInv, SeenInv, AgesInv
<1>4. RefreshInv'
  BY <1>1 DEF RefreshInv
<1>5. QED
  BY <1>2, <1>3, <1>4 DEF IInv

\* The machine is busy from now on, and the short interval starts.
LEMMA ActivityKeeps ==
  ASSUME IInv, Activity
  PROVE  IInv'
<1> USE LongFacts
<1>1. /\ quiet' = 0 /\ awake' \in {0, awake} /\ (awake # Never => awake' = awake)
      /\ UNCHANGED <<path, scanout, due, picture, sample, probed, base, unseen>>
      /\ UNCHANGED <<captured, left, pushed, stale>>
  BY DEF Activity, captureVars
<1>2. 0 \in Age /\ Busy(0) /\ due \in Nat
  BY DEF Age, Busy, IInv, TypeOK
<1>3. TypeOK'
  BY <1>1, <1>2 DEF IInv, TypeOK
<1>4. SeenInv' /\ AgesInv'
  BY <1>1 DEF IInv, SeenInv, AgesInv
<1>5. RefreshInv'
  BY <1>1, <1>2 DEF IInv, RefreshInv
<1>6. QED
  BY <1>3, <1>4, <1>5 DEF IInv

\* What Apart says of an age.
LEMMA ApartFacts ==
  ASSUME NEW apart \in BOOLEAN, NEW age
  PROVE  /\ Apart(apart, age) \in {Never, 0, age}
         /\ Apart(apart, age) # Never <=> apart
BY DEF Apart

LEMMA GuestDrawsKeeps ==
  ASSUME IInv, GuestDraws
  PROVE  IInv'
<1> USE LongFacts
<1> DEFINE a == picture' # pushed
           b == base # Never /\ Visible(picture', base)
<1>1. /\ picture' \in 0 .. MaxPicture
      /\ stale' = Apart(a, stale) /\ unseen' = Apart(b, unseen)
      /\ UNCHANGED <<path, scanout, due, sample, quiet, probed, base, awake, captured, left, pushed>>
  BY DEF GuestDraws
<1>2. a \in BOOLEAN /\ b \in BOOLEAN
  BY DEF Visible
<1>3. b <=> base' # Never /\ Visible(picture', base')
  BY <1>1
<1> HIDE DEF a, b
<1>4. /\ stale' \in {Never, 0, stale} /\ unseen' \in {Never, 0, unseen}
      /\ unseen' # Never <=> b
  BY <1>1, <1>2, ApartFacts
<1>5. 0 \in Age /\ Never \in Age /\ {captured, probed} \subseteq Age /\ due \in Nat
  BY DEF IInv, TypeOK, Age
<1>6. TypeOK'
  BY <1>1, <1>4, <1>5 DEF IInv, TypeOK
<1>7. SeenInv'
  BY <1>3, <1>4 DEF SeenInv
<1>8. AgesInv'
  BY <1>1, <1>4, <1>5 DEF IInv, AgesInv, Age
<1>9. RefreshInv'
  <2>1. LongInterval \in Nat \ {0}
    BY IntervalFacts
  <2>2. QED
    BY <1>1, <1>4, <1>5, <2>1 DEF IInv, RefreshInv
<1>10. QED
  BY <1>6, <1>7, <1>8, <1>9 DEF IInv

\* Everything is a tick older, and so is the last refresh.
LEMMA TickKeeps ==
  ASSUME IInv, Tick
  PROVE  IInv'
<1> USE LongFacts
<1>1. /\ scanout => due < Late
      /\ due' = IF scanout THEN due + 1 ELSE 0
      /\ quiet' = Older(quiet) /\ probed' = Older(probed) /\ captured' = Older(captured)
      /\ unseen' = Older(unseen) /\ stale' = Older(stale)
      /\ awake' = IF Busy(Older(quiet)) THEN Older(awake) ELSE Never
      /\ UNCHANGED <<path, scanout, picture, sample, base, pushed, left>>
  BY DEF Tick
<1>2. /\ {quiet, probed, captured, unseen, awake, stale} \subseteq Age /\ due \in 0 .. Late
      /\ scanout \in BOOLEAN /\ Never \in Age
  BY DEF IInv, TypeOK, Age
<1>3. /\ Older(quiet) \in Age /\ Older(probed) \in Age /\ Older(captured) \in Age
      /\ Older(unseen) \in Age /\ Older(stale) \in Age /\ Older(awake) \in Age
  BY <1>2, OlderFacts
<1>4. TypeOK'
  <2>1. due' \in 0 .. Late
    BY <1>1, <1>2
  <2>2. {quiet', probed', captured', unseen', awake', stale'} \subseteq Age
    BY <1>1, <1>2, <1>3
  <2>3. ~Busy(quiet') => awake' = Never
    BY <1>1
  <2>4. QED
    BY <1>1, <2>1, <2>2, <2>3 DEF IInv, TypeOK
<1>5. /\ unseen' = Never <=> unseen = Never
      /\ stale' = Never <=> stale = Never
      /\ captured' = Never <=> captured = Never
      /\ probed' = Never <=> probed = Never
      /\ awake' # Never => awake # Never /\ awake' = Older(awake)
  BY <1>1, <1>2, OlderFacts
<1>6. SeenInv'
  BY <1>1, <1>5 DEF IInv, SeenInv
<1>7. AgesInv'
  <2>1. ASSUME stale' # Never, captured' # Never PROVE stale' <= captured'
    <3>1. stale # Never /\ captured # Never /\ stale <= captured
      BY <1>5, <2>1 DEF IInv, AgesInv
    <3>2. QED
      BY <1>1, <1>2, <3>1, OlderFacts
  <2>2. ASSUME unseen' # Never, probed' # Never PROVE unseen' <= probed'
    <3>1. unseen # Never /\ probed # Never /\ unseen <= probed
      BY <1>5, <2>2 DEF IInv, AgesInv
    <3>2. QED
      BY <1>1, <1>2, <3>1, OlderFacts
  <2>3. QED
    BY <2>1, <2>2 DEF AgesInv
<1>8. RefreshInv'
  <2>1. SUFFICES ASSUME scanout', left' # 0
                 PROVE  /\ stale' # Never =>
                             /\ stale' < LongInterval + due'
                             /\ awake' # Never => stale' < CaptureMs + due' \/ awake' < CaptureMs + due'
                        /\ IdleProbeMs # 0 /\ unseen' # Never => unseen' < IdleProbeMs + due'
    BY DEF RefreshInv, LongInterval
  <2>2. /\ due' = due + 1
        /\ stale # Never =>
             /\ stale < LongInterval + due
             /\ awake # Never => stale < CaptureMs + due \/ awake < CaptureMs + due
        /\ IdleProbeMs # 0 /\ unseen # Never => unseen < IdleProbeMs + due
    BY <1>1, <2>1 DEF IInv, RefreshInv
  <2>3. /\ stale # Never => Older(stale) <= stale + 1 /\ stale \in Nat
        /\ awake # Never => Older(awake) <= awake + 1 /\ awake \in Nat
        /\ unseen # Never => Older(unseen) <= unseen + 1 /\ unseen \in Nat
    BY <1>2, OlderFacts DEF Age
  <2>4. /\ stale' # Never => stale # Never /\ stale' <= stale + 1 /\ stale' \in Nat
        /\ awake' # Never => awake # Never /\ awake' <= awake + 1 /\ awake' \in Nat
        /\ unseen' # Never => unseen # Never /\ unseen' <= unseen + 1 /\ unseen' \in Nat
    BY <1>1, <1>2, <1>3, <1>5, <2>3 DEF Age
  <2>5. LongInterval \in Nat
    BY IntervalFacts
  <2>6. QED
    BY <1>2, <2>2, <2>3, <2>4, <2>5
<1>9. QED
  BY <1>4, <1>6, <1>7, <1>8 DEF IInv

----------------------------------------------------------------------------
LEMMA InitIInv == Init => IInv
<1> SUFFICES ASSUME Init PROVE IInv
  OBVIOUS
<1>1. /\ path \in Paths /\ scanout = FALSE /\ due = 0 /\ picture = 0
      /\ sample = Never /\ quiet = Never /\ probed = Never /\ captured = Never
      /\ left \in {CaptureMax, Unlimited}
      /\ base = Never /\ unseen = Never /\ awake = 0 /\ pushed = Never /\ stale = 0
  BY DEF Init
<1>2. 0 \in Age /\ Never \in Age /\ Busy(Never)
  BY LongFacts DEF Age, Busy
<1>3. TypeOK
  <2>1. Late \in Nat /\ CaptureMax \in Nat /\ MaxPicture \in Nat
    OBVIOUS
  <2>2. due \in 0 .. Late /\ picture \in 0 .. MaxPicture /\ left \in 0 .. CaptureMax \cup {Unlimited}
    BY <1>1, <2>1
  <2>3. QED
    BY <1>1, <1>2, <2>2 DEF TypeOK
<1>4. SeenInv
  <2>1. base = Never
    BY <1>1
  <2>2. unseen = Never
    BY <1>1
  <2>3. QED
    BY <2>1, <2>2, Zenon DEF SeenInv
<1>5. AgesInv
  BY <1>1 DEF AgesInv
<1>6. RefreshInv
  BY <1>1 DEF RefreshInv
<1>7. QED
  BY <1>3, <1>4, <1>5, <1>6 DEF IInv

LEMMA StepIInv == IInv /\ [Next]_vars => IInv'
<1> SUFFICES ASSUME IInv, [Next]_vars PROVE IInv'
  OBVIOUS
<1>1. CASE GlUpdate
  BY <1>1, GlUpdateKeeps
<1>2. CASE ScanoutDmabuf
  BY <1>2, ScanoutDmabufKeeps
<1>3. CASE ScanoutDisable
  BY <1>3, ScanoutDisableKeeps
<1>4. CASE Activity
  BY <1>4, ActivityKeeps
<1>5. CASE GuestDraws
  BY <1>5, GuestDrawsKeeps
<1>6. CASE Tick
  BY <1>6, TickKeeps
<1>7. CASE UNCHANGED vars
  BY <1>7 DEF vars, probeVars, captureVars, IInv, TypeOK, SeenInv, AgesInv, RefreshInv
<1>8. QED
  BY <1>1, <1>2, <1>3, <1>4, <1>5, <1>6, <1>7 DEF Next

\* No picture is out of date for longer than since the last capture, nor a change
\* overlooked for longer than since the last probe, and both are bounded by the
\* interval that applies and the time since the last refresh (gl_update).
THEOREM Invariant == Spec => []IInv
BY InitIInv, StepIInv, PTL DEF Spec

\* The type invariant: an idle machine has not woken up, and the sample of the probe
\* is the picture of the last change that was noticed (update_idle_sample).
THEOREM TypeCorrect == Spec => []TypeOK
<1>1. IInv => TypeOK
  BY DEF IInv
<1>2. QED
  BY <1>1, Invariant, PTL

\* What the guest shows reaches the client within the idle interval, within the short
\* one when something happens on the machine, and every visible change is noticed
\* within the probe's interval, for all intervals, also when the idle one is the shorter
\* one, and with a probe, an import or a push that fails any number of times
\* (capture_frame, effective_capture_ms, probe_activity).
THEOREM PictureAlwaysInTime == Spec => []PictureInTime
<1>1. IInv => PictureInTime
  <2>1. SUFFICES ASSUME IInv, scanout, left # 0
                 PROVE  /\ stale # Never =>
                             /\ stale < LongInterval + Late
                             /\ awake # Never => Min({stale, awake}) < CaptureMs + Late
                        /\ IdleProbeMs # 0 /\ unseen # Never => unseen < IdleProbeMs + Late
    BY DEF PictureInTime, LongInterval
  <2>2. /\ due \in 0 .. Late
        /\ stale # Never => stale \in Nat
        /\ awake # Never => awake \in Nat
        /\ unseen # Never => unseen \in Nat
    BY <2>1, LongFacts DEF IInv, TypeOK, Age
  <2>3. /\ stale # Never =>
             /\ stale < LongInterval + due
             /\ awake # Never => stale < CaptureMs + due \/ awake < CaptureMs + due
        /\ IdleProbeMs # 0 /\ unseen # Never => unseen < IdleProbeMs + due
    BY <2>1 DEF IInv, RefreshInv
  <2>4. LongInterval \in Nat
    BY IntervalFacts
  <2>5. ASSUME stale # Never, awake # Never PROVE Min({stale, awake}) < CaptureMs + Late
    <3>1. stale \in Int /\ awake \in Int
      BY <2>2, <2>5
    <3>2. /\ Min({stale, awake}) \in {stale, awake}
          /\ Min({stale, awake}) <= stale /\ Min({stale, awake}) <= awake
      BY <3>1, MinFacts
    <3> DEFINE m == Min({stale, awake})
    <3>3. m \in Int /\ m <= stale /\ m <= awake
      BY <3>1, <3>2
    <3> HIDE DEF m
    <3>4. m < CaptureMs + Late
      BY <2>2, <2>3, <2>5, <3>1, <3>3
    <3>5. QED
      BY <3>4 DEF m
  <2>6. QED
    BY <2>2, <2>3, <2>4, <2>5
<1>2. QED
  BY <1>1, Invariant, PTL
=============================================================================
