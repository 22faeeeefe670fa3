------------------------- MODULE StreamInputProofs -------------------------
(***************************************************************************)
(* Theorems about StreamInput for every set of clients, lines and          *)
(* commands, size of a read and limit on a line.                           *)
(*                                                                         *)
(* That lines are handled whole is inductive only with where a piece is:   *)
(* before the k-th piece of a line are its k - 1 earlier ones (RunInv), so *)
(* that the buffer up to the first newline is exactly the next line.       *)
(*                                                                         *)
(* That keys are down as pressed speaks of folds over sequences.  What a   *)
(* fold, FlattenSeq and the unrolling of batches compute is proved by      *)
(* induction, in a form without operator parameters: a set that has 0 and  *)
(* n + 1 whenever it has n contains all numbers (Induction), and the same  *)
(* for sequences (SequenceInduction).                                      *)
(***************************************************************************)
EXTENDS StreamInput, SequenceTheorems, WellFoundedInduction, TLAPS

----------------------------------------------------------------------------
(**************************************************************************)
(* Induction over numbers and sequences, from well-founded sets, and what  *)
(* FlattenSeq computes.                                                    *)
(**************************************************************************)
\* What holds of 0, and of n + 1 whenever it holds of n, holds of every number.
LEMMA Induction ==
  ASSUME NEW S, 0 \in S, \A n \in Nat : n \in S => n + 1 \in S
  PROVE  Nat \subseteq S
<1> DEFINE T == Nat \ S
           R == OpToRel(<, Nat)
<1>1. SUFFICES ASSUME T # {} PROVE FALSE
  OBVIOUS
<1>2. PICK x \in T : \A y \in T : <<y, x>> \notin R
  <2>1. IsWellFoundedOn(R, Nat)
    BY NatLessThanWellFounded
  <2>2. T \subseteq Nat
    OBVIOUS
  <2> HIDE DEF T, R
  <2>3. QED
    BY <1>1, <2>1, <2>2, WFMin
<1>3. x # 0 /\ x - 1 \in Nat /\ x - 1 < x
  OBVIOUS
<1>4. <<x - 1, x>> \in R
  BY <1>3 DEF OpToRel
<1>5. x - 1 \in S
  BY <1>2, <1>3, <1>4
<1>6. QED
  BY <1>3, <1>5

\* What holds of the empty sequence, and of one with one more element, holds of all.
LEMMA SequenceInduction ==
  ASSUME NEW A, NEW Q, <<>> \in Q, \A s \in Seq(A), x \in A : s \in Q => Append(s, x) \in Q
  PROVE  Seq(A) \subseteq Q
<1> DEFINE S == {n \in Nat : \A s \in Seq(A) : Len(s) = n => s \in Q}
<1>1. 0 \in S
  <2>1. \A s \in Seq(A) : Len(s) = 0 => s = <<>>
    BY EmptySeq
  <2>2. QED
    BY <2>1
<1>2. ASSUME NEW n \in Nat, n \in S PROVE n + 1 \in S
  <2>1. ASSUME NEW s \in Seq(A), Len(s) = n + 1 PROVE s \in Q
    <3> DEFINE f == SubSeq(s, 1, n)
    <3>1. f \in Seq(A) /\ Len(f) = n /\ s[n + 1] \in A
      <4>1. \A i \in 1 .. n + 1 : s[i] \in A
        BY <2>1, ElementOfSeq
      <4>2. 1 \in Int /\ n \in Int /\ (\A i \in 1 .. n : s[i] \in A)
        BY <4>1
      <4>3. QED
        BY <4>1, <4>2, SubSeqProperties
    <3>2. s = Append(f, s[n + 1])
      <4>1. Append(f, s[n + 1]) \in Seq(A) /\ Len(Append(f, s[n + 1])) = n + 1
        BY <3>1, AppendProperties
      <4>2. ASSUME NEW i \in 1 .. n + 1 PROVE Append(f, s[n + 1])[i] = s[i]
        <5>1. CASE i = n + 1
          BY <5>1, <3>1, AppendProperties
        <5>2. CASE i # n + 1
          BY <5>2, <3>1, AppendProperties
        <5>3. QED
          BY <5>1, <5>2
      <4> HIDE DEF f
      <4>3. QED
        BY <2>1, <4>1, <4>2, SeqEqual
    <3> HIDE DEF f
    <3>3. f \in Q
      BY <1>2, <3>1
    <3>4. QED
      BY <3>1, <3>2, <3>3
  <2>2. QED
    BY <2>1
<1>3. Nat \subseteq S
  <2> HIDE DEF S
  <2>1. QED
    BY <1>1, <1>2, Induction
<1>4. QED
  BY <1>3, LenProperties

\* FlattenSeq is what the function Flat gives for the last position.
FlatDef(g, ss) == g = [i \in 1 .. Len(ss) |-> IF i = 1 THEN ss[i] ELSE g[i - 1] \o ss[i]]
Flat(ss) == CHOOSE g : FlatDef(g, ss)

LEMMA FlatOf == ASSUME NEW ss, Len(ss) # 0 PROVE FlattenSeq(ss) = Flat(ss)[Len(ss)]
BY DEF FlattenSeq, Flat, FlatDef

LEMMA FlatDefined ==
  ASSUME NEW ss, Len(ss) \in Nat
  PROVE  FlatDef(Flat(ss), ss)
<1> DEFINE D(g, n) == g = [i \in 1 .. n |-> IF i = 1 THEN ss[i] ELSE g[i - 1] \o ss[i]]
           S == {n \in Nat : \E g : D(g, n)}
<1>1. 0 \in S
  <2>1. D(<<>>, 0)
    OBVIOUS
  <2>2. QED
    BY <2>1
<1>2. ASSUME NEW n \in Nat, n \in S PROVE n + 1 \in S
  <2>1. PICK g : D(g, n)
    BY <1>2
  <2> DEFINE h == [i \in 1 .. n + 1 |-> IF i = 1 THEN ss[i] ELSE g[i - 1] \o ss[i]]
  <2>2. ASSUME NEW i \in 1 .. n PROVE h[i] = g[i]
    <3> DEFINE e == [j \in 1 .. n |-> IF j = 1 THEN ss[j] ELSE g[j - 1] \o ss[j]]
    <3>1. g = e
      BY <2>1, Zenon
    <3>2. e[i] = h[i]
      OBVIOUS
    <3>3. QED
      BY <3>1, <3>2, Zenon
  <2>3. D(h, n + 1)
    <3>1. \A i \in 1 .. n + 1 : i # 1 => i - 1 \in 1 .. n
      OBVIOUS
    <3> HIDE DEF h
    <3>2. \A i \in 1 .. n + 1 : i # 1 => h[i - 1] = g[i - 1]
      BY <2>2, <3>1
    <3>3. QED
      BY <3>2 DEF h
  <2> HIDE DEF h, D
  <2>4. n + 1 \in Nat /\ \E f : D(f, n + 1)
    BY <2>3
  <2>5. QED
    BY <2>4
<1>3. \E g : FlatDef(g, ss)
  <2>1. Nat \subseteq S
    <3> HIDE DEF S
    <3>1. QED
      BY <1>1, <1>2, Induction
  <2>2. QED
    BY <2>1 DEF FlatDef
<1>4. QED
  BY <1>3 DEF Flat

LEMMA FlatSteps ==
  ASSUME NEW A, NEW ss \in Seq(Seq(A))
  PROVE  \A i \in 1 .. Len(ss) : /\ Flat(ss)[i] \in Seq(A)
                                 /\ Flat(ss)[i] = IF i = 1 THEN ss[i] ELSE Flat(ss)[i - 1] \o ss[i]
<1> DEFINE F == Flat(ss)
           S == {n \in Nat : n + 1 \in 1 .. Len(ss) => F[n + 1] \in Seq(A)}
<1>1. Len(ss) \in Nat /\ \A i \in 1 .. Len(ss) : ss[i] \in Seq(A)
  BY LenProperties, ElementOfSeq
<1>2. \A i \in 1 .. Len(ss) : F[i] = IF i = 1 THEN ss[i] ELSE F[i - 1] \o ss[i]
  <2>1. FlatDef(F, ss)
    BY <1>1, FlatDefined
  <2> HIDE DEF F
  <2>2. QED
    BY <2>1 DEF FlatDef
<1> HIDE DEF F
<1>3. 0 \in S
  BY <1>1, <1>2
<1>4. ASSUME NEW n \in Nat, n \in S PROVE n + 1 \in S
  <2>1. SUFFICES ASSUME n + 2 \in 1 .. Len(ss) PROVE F[n + 2] \in Seq(A)
    OBVIOUS
  <2>2. F[n + 1] \in Seq(A) /\ ss[n + 2] \in Seq(A)
    BY <1>1, <1>4, <2>1
  <2>3. F[n + 2] = F[n + 1] \o ss[n + 2]
    <3>1. n + 2 # 1 /\ (n + 2) - 1 = n + 1
      OBVIOUS
    <3>2. QED
      BY <1>2, <2>1, <3>1
  <2>4. QED
    BY <2>2, <2>3, ConcatProperties
<1>5. Nat \subseteq S
  <2> HIDE DEF S
  <2>1. QED
    BY <1>3, <1>4, Induction
<1>6. ASSUME NEW i \in 1 .. Len(ss) PROVE F[i] \in Seq(A)
  <2>1. i - 1 \in Nat /\ (i - 1) + 1 = i
    BY <1>1
  <2>2. i - 1 \in S
    <3> HIDE DEF S
    <3>1. QED
      BY <1>5, <2>1
  <2>3. QED
    BY <2>1, <2>2
<1>7. QED
  BY <1>2, <1>6 DEF F

LEMMA FlattenEmpty == FlattenSeq(<<>>) = <<>>
BY DEF FlattenSeq

LEMMA FlattenTyped ==
  ASSUME NEW A, NEW ss \in Seq(Seq(A))
  PROVE  FlattenSeq(ss) \in Seq(A)
<1>1. CASE Len(ss) = 0
  <2>1. ss = <<>>
    BY <1>1, EmptySeq
  <2>2. QED
    BY <2>1, FlattenEmpty, EmptySeq
<1>2. CASE Len(ss) # 0
  <2>1. Len(ss) \in 1 .. Len(ss)
    BY <1>2, LenProperties
  <2>2. QED
    BY <1>2, <2>1, FlatOf, FlatSteps
<1>3. QED
  BY <1>1, <1>2

LEMMA FlattenAppend ==
  ASSUME NEW A, NEW ss \in Seq(Seq(A)), NEW x \in Seq(A)
  PROVE  FlattenSeq(Append(ss, x)) = FlattenSeq(ss) \o x
<1> DEFINE tt == Append(ss, x)
           F == Flat(ss)
           G == Flat(tt)
           n == Len(ss)
<1>1. /\ tt \in Seq(Seq(A)) /\ n \in Nat /\ Len(tt) = n + 1 /\ tt[n + 1] = x
      /\ \A i \in 1 .. n : tt[i] = ss[i]
  BY AppendProperties, LenProperties
<1>2. \A i \in 1 .. n : F[i] = IF i = 1 THEN ss[i] ELSE F[i - 1] \o ss[i]
  BY FlatSteps
<1>3. \A i \in 1 .. n + 1 : G[i] = IF i = 1 THEN tt[i] ELSE G[i - 1] \o tt[i]
  <2>1. tt \in Seq(Seq(A)) /\ Len(tt) = n + 1
    BY <1>1
  <2> HIDE DEF tt
  <2>2. \A i \in 1 .. Len(tt) : G[i] = IF i = 1 THEN tt[i] ELSE G[i - 1] \o tt[i]
    BY <2>1, FlatSteps
  <2>3. QED
    BY <2>1, <2>2
<1>4. FlattenSeq(tt) = G[n + 1]
  <2>1. Len(tt) # 0
    BY <1>1
  <2> HIDE DEF tt
  <2>2. QED
    BY <1>1, <2>1, FlatOf
<1> HIDE DEF tt, F, G
<1>5. CASE n = 0
  <2>1. ss = <<>> /\ G[1] = x
    BY <1>1, <1>3, <1>5, EmptySeq
  <2>2. QED
    BY <1>4, <1>5, <2>1, FlattenEmpty, ConcatEmptySeq DEF tt
<1>6. CASE n # 0
  <2> DEFINE S == {m \in Nat : m + 1 \in 1 .. n => G[m + 1] = F[m + 1]}
  <2>1. 0 \in S
    BY <1>1, <1>2, <1>3
  <2>2. ASSUME NEW m \in Nat, m \in S PROVE m + 1 \in S
    BY <1>1, <1>2, <1>3, <2>2
  <2>3. Nat \subseteq S
    <3> HIDE DEF S
    <3>1. QED
      BY <2>1, <2>2, Induction
  <2>4. G[n] = F[n]
    <3>1. n - 1 \in Nat /\ (n - 1) + 1 = n /\ n \in 1 .. n
      BY <1>1, <1>6
    <3>2. n - 1 \in S
      <4> HIDE DEF S
      <4>1. QED
        BY <2>3, <3>1
    <3>3. QED
      BY <3>1, <3>2
  <2>5. FlattenSeq(ss) = F[n]
    BY <1>6, FlatOf DEF F
  <2>6. G[n + 1] = G[n] \o x
    <3>1. n + 1 \in 1 .. n + 1 /\ n + 1 # 1 /\ (n + 1) - 1 = n
      BY <1>1, <1>6
    <3>2. QED
      BY <1>1, <1>3, <3>1
  <2>7. QED
    BY <1>4, <2>4, <2>5, <2>6 DEF tt
<1>7. QED
  BY <1>5, <1>6

----------------------------------------------------------------------------
(**************************************************************************)
(* The fold of events into the keys that are down: every event after those *)
(* before it.                                                              *)
(**************************************************************************)
\* Max of a set of numbers.
LEMMA MaxIsLargest ==
  ASSUME NEW n \in Nat, NEW s \in SUBSET (1 .. n), s # {}
  PROVE  Max(s) \in s /\ \A y \in s : Max(s) >= y
<1> DEFINE S == {m \in Nat : \A t \in SUBSET (1 .. m) : t # {} => \E x \in t : \A y \in t : x >= y}
<1>1. 0 \in S
  <2>1. \A t \in SUBSET (1 .. 0) : t = {}
    OBVIOUS
  <2>2. QED
    BY <2>1
<1>2. ASSUME NEW m \in Nat, m \in S PROVE m + 1 \in S
  <2>1. ASSUME NEW t \in SUBSET (1 .. m + 1), t # {} PROVE \E x \in t : \A y \in t : x >= y
    <3>1. CASE m + 1 \in t
      BY <3>1
    <3>2. CASE m + 1 \notin t
      <4>1. t \in SUBSET (1 .. m)
        BY <3>2
      <4>2. QED
        BY <1>2, <2>1, <4>1
    <3>3. QED
      BY <3>1, <3>2
  <2>2. QED
    BY <2>1
<1>3. Nat \subseteq S
  <2> HIDE DEF S
  <2>1. QED
    BY <1>1, <1>2, Induction
<1>4. \E x \in s : \A y \in s : x >= y
  BY <1>3
<1>5. QED
  BY <1>4 DEF Max

\* What one event does, and the fold of Applied over sets of positions.
Stroke(keys, e) == IF e.down THEN keys \cup {e.code} ELSE keys \ {e.code}

FoldDef(g, keys, es) ==
  g = [s \in SUBSET (DOMAIN es) |->
         IF s = {} THEN keys
         ELSE LET x == Max(s) IN IF es[x].down THEN g[s \ {x}] \cup {es[x].code} ELSE g[s \ {x}] \ {es[x].code}]
Folded(keys, es) == CHOOSE g : FoldDef(g, keys, es)

LEMMA AppliedIsFold ==
  ASSUME NEW keys, NEW es
  PROVE  Applied(keys, es) = Folded(keys, es)[DOMAIN es]
BY DEF Applied, FoldLeft, MapThenFoldSet, FoldDef, Folded

\* The keys that are down after the events of s alone.
Left(keys, es, s) ==
  { k \in keys \cup {es[i].code : i \in DOMAIN es} :
      \/ \E i \in s : es[i].code = k /\ es[i].down /\ \A j \in s : j > i => es[j].code # k
      \/ k \in keys /\ \A j \in s : es[j].code # k }

LEMMA LeftSteps ==
  ASSUME NEW keys, NEW es, NEW n \in Nat, DOMAIN es = 1 .. n, NEW s \in SUBSET (1 .. n), s # {}
  PROVE  Left(keys, es, s) = Stroke(Left(keys, es, s \ {Max(s)}), es[Max(s)])
<1> DEFINE x == Max(s)
           r == s \ {x}
<1>1. x \in s /\ x \in 1 .. n /\ \A y \in r : x > y
  <2>1. x \in s /\ \A y \in s : x >= y
    BY MaxIsLargest
  <2> HIDE DEF x
  <2>2. QED
    BY <2>1
<1> HIDE DEF x
<1>2. s = r \cup {x} /\ x \notin r /\ r \in SUBSET (1 .. n)
  BY <1>1
<1> HIDE DEF r
<1>3. ASSUME NEW k PROVE k \in Left(keys, es, s) <=> k \in Stroke(Left(keys, es, r), es[x])
  <2>1. CASE es[x].code # k
    <3>1. (\A j \in s : es[j].code # k) <=> \A j \in r : es[j].code # k
      BY <1>2, <2>1
    <3>2. (\E i \in s : es[i].code = k /\ es[i].down /\ \A j \in s : j > i => es[j].code # k)
            <=> \E i \in r : es[i].code = k /\ es[i].down /\ \A j \in r : j > i => es[j].code # k
      BY <1>2, <2>1
    <3>3. QED
      BY <2>1, <3>1, <3>2 DEF Left, Stroke
  <2>2. CASE es[x].code = k
    <3>1. ~\A j \in s : es[j].code # k
      BY <1>1, <2>2
    <3>2. (\E i \in s : es[i].code = k /\ es[i].down /\ \A j \in s : j > i => es[j].code # k) <=> es[x].down
      <4>1. \A i \in s : (\A j \in s : j > i => es[j].code # k) => i = x
        BY <1>1, <1>2, <2>2
      <4>2. \A j \in s : ~(j > x)
        BY <1>1, <1>2
      <4>3. QED
        BY <1>1, <2>2, <4>1, <4>2
    <3>3. k \in keys \cup {es[i].code : i \in DOMAIN es}
      BY <1>1, <2>2
    <3>4. k \in Left(keys, es, s) <=> es[x].down
      <4>1. k \in Left(keys, es, s) <=>
              /\ k \in keys \cup {es[i].code : i \in DOMAIN es}
              /\ \/ \E i \in s : es[i].code = k /\ es[i].down /\ \A j \in s : j > i => es[j].code # k
                 \/ k \in keys /\ \A j \in s : es[j].code # k
        BY Zenon DEF Left
      <4>2. QED
        BY <3>1, <3>2, <3>3, <4>1, Zenon
    <3>5. k \in Stroke(Left(keys, es, r), es[x]) <=> es[x].down
      BY <2>2 DEF Stroke
    <3>6. QED
      BY <3>4, <3>5
  <2>3. QED
    BY <2>1, <2>2
<1>4. QED
  BY <1>3 DEF x, r

LEMMA FoldDefined ==
  ASSUME NEW keys, NEW es, NEW n \in Nat, DOMAIN es = 1 .. n
  PROVE  FoldDef(Folded(keys, es), keys, es)
<1> DEFINE g == [s \in SUBSET (DOMAIN es) |-> Left(keys, es, s)]
           h == [s \in SUBSET (DOMAIN es) |->
                   IF s = {} THEN keys
                   ELSE LET x == Max(s) IN IF es[x].down THEN g[s \ {x}] \cup {es[x].code} ELSE g[s \ {x}] \ {es[x].code}]
<1>1. ASSUME NEW s \in SUBSET (DOMAIN es) PROVE g[s] = h[s]
  <2>1. CASE s = {}
    <3>1. Left(keys, es, {}) = keys
      BY DEF Left
    <3>2. QED
      BY <2>1, <3>1
  <2>2. CASE s # {}
    <3>1. Left(keys, es, s) = Stroke(Left(keys, es, s \ {Max(s)}), es[Max(s)])
      BY <2>2, LeftSteps
    <3>2. s \ {Max(s)} \in SUBSET (DOMAIN es)
      OBVIOUS
    <3>3. g[s \ {Max(s)}] = Left(keys, es, s \ {Max(s)})
      BY <3>2
    <3> HIDE DEF g
    <3>4. h[s] = Stroke(g[s \ {Max(s)}], es[Max(s)])
      BY <2>2 DEF Stroke
    <3>5. QED
      BY <3>1, <3>3, <3>4 DEF g
  <2>3. QED
    BY <2>1, <2>2
<1>2. g = h
  BY <1>1
<1>3. FoldDef(g, keys, es)
  BY <1>2 DEF FoldDef
<1>4. \E f : FoldDef(f, keys, es)
  <2> HIDE DEF g, h
  <2>1. QED
    BY <1>3
<1>5. QED
  BY <1>4 DEF Folded

LEMMA AppliedEmpty == ASSUME NEW keys PROVE Applied(keys, <<>>) = keys
<1>1. DOMAIN <<>> = 1 .. 0 /\ 0 \in Nat
  OBVIOUS
<1>2. FoldDef(Folded(keys, <<>>), keys, <<>>)
  BY <1>1, FoldDefined
<1>3. Folded(keys, <<>>)[{}] = keys
  BY <1>2 DEF FoldDef
<1>4. QED
  BY <1>1, <1>3, AppliedIsFold

\* What the fold makes of the first m events.
LEMMA FoldedSteps ==
  ASSUME NEW keys, NEW es, NEW n \in Nat, DOMAIN es = 1 .. n
  PROVE  /\ Folded(keys, es)[1 .. 0] = keys
         /\ \A m \in 1 .. n : Folded(keys, es)[1 .. m] = Stroke(Folded(keys, es)[1 .. m - 1], es[m])
<1> DEFINE g == Folded(keys, es)
           h == [s \in SUBSET (DOMAIN es) |->
                   IF s = {} THEN keys
                   ELSE LET x == Max(s) IN IF es[x].down THEN g[s \ {x}] \cup {es[x].code} ELSE g[s \ {x}] \ {es[x].code}]
<1>1. g = h
  <2>1. FoldDef(g, keys, es)
    BY FoldDefined
  <2> HIDE DEF g
  <2>2. QED
    BY <2>1, Zenon DEF FoldDef
<1> HIDE DEF g
<1>2. h[1 .. 0] = keys
  OBVIOUS
<1>3. ASSUME NEW m \in 1 .. n PROVE h[1 .. m] = Stroke(g[1 .. m - 1], es[m])
  <2>1. m \in 1 .. m /\ 1 .. m \in SUBSET (1 .. n) /\ m \in Nat
    OBVIOUS
  <2>2. Max(1 .. m) = m
    <3>1. 1 .. m # {} /\ 1 .. m \in SUBSET (1 .. m)
      BY <2>1
    <3>2. Max(1 .. m) \in 1 .. m /\ \A y \in 1 .. m : Max(1 .. m) >= y
      BY <2>1, <3>1, MaxIsLargest
    <3> HIDE DEF h
    <3>3. QED
      BY <2>1, <3>2
  <2>3. (1 .. m) \ {m} = 1 .. m - 1
    OBVIOUS
  <2>4. QED
    BY <2>1, <2>2, <2>3 DEF Stroke
<1>4. QED
  BY <1>1, <1>2, <1>3, Zenon DEF g

LEMMA AppliedAppend ==
  ASSUME NEW keys, NEW A, NEW es \in Seq(A), NEW e \in A
  PROVE  Applied(keys, Append(es, e)) = Stroke(Applied(keys, es), e)
<1> DEFINE tt == Append(es, e)
           F == Folded(keys, es)
           G == Folded(keys, tt)
           n == Len(es)
<1>1. /\ n \in Nat /\ DOMAIN es = 1 .. n /\ DOMAIN tt = 1 .. n + 1 /\ tt[n + 1] = e
      /\ \A i \in 1 .. n : tt[i] = es[i]
  <2>1. tt \in Seq(A) /\ Len(tt) = n + 1 /\ tt[n + 1] = e /\ \A i \in 1 .. n : tt[i] = es[i]
    BY AppendProperties
  <2>2. QED
    BY <2>1, LenProperties
<1> HIDE DEF tt, n
<1>2. F[1 .. 0] = keys /\ \A m \in 1 .. n : F[1 .. m] = Stroke(F[1 .. m - 1], es[m])
  <2>1. n \in Nat /\ DOMAIN es = 1 .. n
    BY <1>1
  <2>2. QED
    BY <2>1, FoldedSteps
<1>3. G[1 .. 0] = keys /\ \A m \in 1 .. n + 1 : G[1 .. m] = Stroke(G[1 .. m - 1], tt[m])
  <2>1. n + 1 \in Nat
    BY <1>1
  <2>2. QED
    BY <1>1, <2>1, FoldedSteps
<1> HIDE DEF F, G
<1>4. F[1 .. n] = G[1 .. n]
  <2> DEFINE S == {m \in Nat : m <= n => F[1 .. m] = G[1 .. m]}
  <2>1. 0 \in S
    BY <1>2, <1>3
  <2>2. ASSUME NEW m \in Nat, m \in S PROVE m + 1 \in S
    <3>1. CASE m + 1 <= n
      <4>1. m + 1 \in 1 .. n /\ m + 1 \in 1 .. n + 1 /\ (m + 1) - 1 = m
        BY <1>1, <3>1
      <4>2. F[1 .. m + 1] = Stroke(F[1 .. m], es[m + 1]) /\ G[1 .. m + 1] = Stroke(G[1 .. m], tt[m + 1])
        BY <1>2, <1>3, <4>1
      <4>3. F[1 .. m] = G[1 .. m]
        BY <1>1, <2>2, <3>1
      <4>4. QED
        BY <1>1, <4>1, <4>2, <4>3
    <3>2. CASE ~(m + 1 <= n)
      BY <3>2
    <3>3. QED
      BY <3>1, <3>2
  <2>3. Nat \subseteq S
    <3> HIDE DEF S
    <3>1. QED
      BY <2>1, <2>2, Induction
  <2>4. QED
    BY <1>1, <2>3
<1>5. G[1 .. n + 1] = Stroke(G[1 .. n], e)
  <2>1. n + 1 \in 1 .. n + 1 /\ (n + 1) - 1 = n
    BY <1>1
  <2>2. QED
    BY <1>1, <1>3, <2>1
<1>6. QED
  BY <1>1, <1>4, <1>5, AppliedIsFold DEF F, G, tt

LEMMA AppliedOne ==
  ASSUME NEW keys, NEW e
  PROVE  Applied(keys, <<e>>) = Stroke(keys, e)
<1> DEFINE A == {e}
           s == <<>>
<1>1. s \in Seq(A) /\ e \in A /\ <<e>> = Append(s, e)
  BY EmptySeq
<1> HIDE DEF A, s
<1>2. Applied(keys, Append(s, e)) = Stroke(Applied(keys, s), e)
  BY <1>1, AppliedAppend
<1>3. QED
  BY <1>1, <1>2, AppliedEmpty DEF s

LEMMA AppliedTwo ==
  ASSUME NEW keys, NEW e, NEW f
  PROVE  Applied(keys, <<e, f>>) = Stroke(Stroke(keys, e), f)
<1> DEFINE A == {e, f}
           s == <<e>>
<1>1. s \in Seq(A) /\ f \in A /\ <<e, f>> = Append(s, f)
  OBVIOUS
<1> HIDE DEF A, s
<1>2. Applied(keys, Append(s, f)) = Stroke(Applied(keys, s), f)
  BY <1>1, AppliedAppend
<1>3. QED
  BY <1>1, <1>2, AppliedOne DEF s

LEMMA ThreeParts ==
  ASSUME NEW A, NEW a \in Seq(A), NEW b \in Seq(A), NEW d \in Seq(A)
  PROVE  (a \o b) \o d = a \o (b \o d)
OBVIOUS

LEMMA ConcatAppend ==
  ASSUME NEW A, NEW a \in Seq(A), NEW s \in Seq(A), NEW x \in A
  PROVE  a \o Append(s, x) = Append(a \o s, x)
OBVIOUS

LEMMA AppliedConcat ==
  ASSUME NEW keys, NEW A, NEW a \in Seq(A), NEW b \in Seq(A)
  PROVE  Applied(keys, a \o b) = Applied(Applied(keys, a), b)
<1> DEFINE Q == {s \in Seq(A) : Applied(keys, a \o s) = Applied(Applied(keys, a), s)}
<1>1. <<>> \in Q
  BY AppliedEmpty, ConcatEmptySeq, EmptySeq
<1>2. ASSUME NEW s \in Seq(A), NEW x \in A, s \in Q PROVE Append(s, x) \in Q
  <2>1. a \o Append(s, x) = Append(a \o s, x)
    BY ConcatAppend
  <2>2. a \o s \in Seq(A) /\ Append(s, x) \in Seq(A)
    BY ConcatProperties, AppendProperties
  <2>3. Applied(keys, Append(a \o s, x)) = Stroke(Applied(keys, a \o s), x)
    BY <2>2, AppliedAppend
  <2>4. Applied(Applied(keys, a), Append(s, x)) = Stroke(Applied(Applied(keys, a), s), x)
    BY AppliedAppend
  <2>5. QED
    BY <1>2, <2>1, <2>2, <2>3, <2>4
<1> HIDE DEF Q
<1>3. Seq(A) \subseteq Q
  BY <1>1, <1>2, SequenceInduction
<1>4. QED
  BY <1>3 DEF Q

\* The sequence of what a function makes of the elements of s.
Mapped(f, s) == [i \in DOMAIN s |-> f[s[i]]]

LEMMA MappedTyped ==
  ASSUME NEW A, NEW B, NEW f, NEW s \in Seq(A), \A a \in A : f[a] \in B
  PROVE  Mapped(f, s) \in Seq(B)
<1>1. PICK n \in Nat : s \in [1 .. n -> A] /\ n = Len(s)
  BY LenProperties
<1>2. Mapped(f, s) \in [1 .. n -> B]
  BY <1>1 DEF Mapped
<1>3. QED
  BY <1>1, <1>2, SeqDef

LEMMA MappedLen ==
  ASSUME NEW A, NEW f, NEW s \in Seq(A)
  PROVE  Len(Mapped(f, s)) = Len(s)
BY LenProperties DEF Mapped

LEMMA MappedEmpty == ASSUME NEW f PROVE Mapped(f, <<>>) = <<>>
BY DEF Mapped

LEMMA MappedAppend ==
  ASSUME NEW A, NEW f, NEW s \in Seq(A), NEW x \in A
  PROVE  Mapped(f, Append(s, x)) = Append(Mapped(f, s), f[x])
<1> DEFINE B == {f[a] : a \in A}
           t == Append(s, x)
           u == Mapped(f, t)
           w == Mapped(f, s)
           v == Append(w, f[x])
<1>1. PICK n \in Nat : n = Len(s) /\ DOMAIN s = 1 .. n /\ \A i \in 1 .. n : s[i] \in A
  BY LenProperties, ElementOfSeq
<1>2. t \in Seq(A) /\ Len(t) = n + 1 /\ t[n + 1] = x /\ \A i \in 1 .. n : t[i] = s[i]
  BY <1>1, AppendProperties
<1> HIDE DEF t
<1>3. t \in Seq(A) /\ \A b \in A : f[b] \in B
  BY <1>2
<1> HIDE DEF B
<1>4. u \in Seq(B) /\ Len(u) = Len(t) /\ w \in Seq(B) /\ Len(w) = Len(s)
  <2> HIDE DEF u, w
  <2>1. u \in Seq(B)
    BY <1>3, MappedTyped DEF u
  <2>2. w \in Seq(B)
    BY <1>3, MappedTyped DEF w
  <2>3. Len(u) = Len(t) /\ Len(w) = Len(s)
    BY <1>3, MappedLen DEF u, w
  <2>4. QED
    BY <2>1, <2>2, <2>3
<1>5. DOMAIN t = 1 .. n + 1
  BY <1>2, LenProperties
<1>6. \A i \in 1 .. n + 1 : u[i] = f[t[i]]
  BY <1>5 DEF Mapped
<1>7. \A i \in 1 .. n : w[i] = f[s[i]]
  BY <1>1 DEF Mapped
<1> HIDE DEF u, w
<1>8. f[x] \in B
  BY <1>3
<1>9. /\ v \in Seq(B) /\ Len(v) = n + 1 /\ v[n + 1] = f[x]
      /\ \A i \in 1 .. n : v[i] = w[i]
  BY <1>1, <1>4, <1>8, AppendProperties
<1> HIDE DEF v
<1>10. \A i \in 1 .. n + 1 : u[i] = v[i]
  BY <1>2, <1>6, <1>7, <1>9
<1>11. u = v
  BY <1>2, <1>4, <1>9, <1>10, SeqEqual
<1>12. QED
  BY <1>11 DEF t, u, v, w

LEMMA RangeOfAppend ==
  ASSUME NEW A, NEW s \in Seq(A), NEW x \in A
  PROVE  Range(Append(s, x)) = Range(s) \cup {x}
<1>1. PICK n \in Nat : n = Len(s) /\ DOMAIN s = 1 .. n
  BY LenProperties
<1>2. /\ Append(s, x)[n + 1] = x /\ DOMAIN Append(s, x) = 1 .. n + 1
      /\ \A i \in 1 .. n : Append(s, x)[i] = s[i]
  BY <1>1, AppendProperties, LenProperties
<1>3. \A i : i \in 1 .. n + 1 <=> i \in 1 .. n \/ i = n + 1
  BY <1>1
<1>4. QED
  BY <1>1, <1>2, <1>3, Zenon DEF Range

\* Only presses add the keys they name, and only releases take them away.
LEMMA AppliedDown ==
  ASSUME NEW keys, NEW A, NEW s \in Seq(A)
  PROVE  Applied(keys, [i \in DOMAIN s |-> Event(s[i], TRUE)]) = keys \cup Range(s)
<1> DEFINE B == {Event(a, TRUE) : a \in A}
           f == [a \in A |-> Event(a, TRUE)]
           Q == {t \in Seq(A) : Applied(keys, Mapped(f, t)) = keys \cup Range(t)}
<1>1. \A x \in A : f[x] \in B /\ f[x] = Event(x, TRUE)
  OBVIOUS
<1> HIDE DEF f, B
<1>2. <<>> \in Q
  <2>1. Range(<<>>) = {}
    BY DEF Range
  <2>2. QED
    BY <2>1, MappedEmpty, AppliedEmpty, EmptySeq
<1>3. ASSUME NEW t \in Seq(A), NEW x \in A, t \in Q PROVE Append(t, x) \in Q
  <2>1. Mapped(f, t) \in Seq(B) /\ f[x] \in B
    BY <1>1, MappedTyped
  <2>2. Mapped(f, Append(t, x)) = Append(Mapped(f, t), f[x])
    BY MappedAppend
  <2>3. Applied(keys, Append(Mapped(f, t), f[x])) = Stroke(Applied(keys, Mapped(f, t)), f[x])
    BY <2>1, AppliedAppend
  <2>4. Stroke(Applied(keys, Mapped(f, t)), f[x]) = Applied(keys, Mapped(f, t)) \cup {x}
    <3>1. f[x] = Event(x, TRUE)
      BY <1>1
    <3>2. f[x].code = x /\ f[x].down
      BY <3>1 DEF Event
    <3>3. QED
      BY <3>2 DEF Stroke
  <2>5. Range(Append(t, x)) = Range(t) \cup {x}
    BY RangeOfAppend
  <2>6. Append(t, x) \in Seq(A)
    BY AppendProperties
  <2>7. QED
    BY <1>3, <2>2, <2>3, <2>4, <2>5, <2>6
<1> HIDE DEF Q
<1>4. s \in Q
  BY <1>2, <1>3, SequenceInduction
<1>5. Mapped(f, s) = [i \in DOMAIN s |-> Event(s[i], TRUE)]
  <2>1. \A i \in DOMAIN s : s[i] \in A
    BY ElementOfSeq, LenProperties
  <2>2. QED
    BY <1>1, <2>1 DEF Mapped
<1>6. QED
  BY <1>4, <1>5 DEF Q

LEMMA AppliedUp ==
  ASSUME NEW keys, NEW A, NEW s \in Seq(A)
  PROVE  Applied(keys, [i \in DOMAIN s |-> Event(s[i], FALSE)]) = keys \ Range(s)
<1> DEFINE B == {Event(a, FALSE) : a \in A}
           f == [a \in A |-> Event(a, FALSE)]
           Q == {t \in Seq(A) : Applied(keys, Mapped(f, t)) = keys \ Range(t)}
<1>1. \A x \in A : f[x] \in B /\ f[x] = Event(x, FALSE)
  OBVIOUS
<1> HIDE DEF f, B
<1>2. <<>> \in Q
  <2>1. Range(<<>>) = {}
    BY DEF Range
  <2>2. QED
    BY <2>1, MappedEmpty, AppliedEmpty, EmptySeq
<1>3. ASSUME NEW t \in Seq(A), NEW x \in A, t \in Q PROVE Append(t, x) \in Q
  <2>1. Mapped(f, t) \in Seq(B) /\ f[x] \in B
    BY <1>1, MappedTyped
  <2>2. Mapped(f, Append(t, x)) = Append(Mapped(f, t), f[x])
    BY MappedAppend
  <2>3. Applied(keys, Append(Mapped(f, t), f[x])) = Stroke(Applied(keys, Mapped(f, t)), f[x])
    BY <2>1, AppliedAppend
  <2>4. Stroke(Applied(keys, Mapped(f, t)), f[x]) = Applied(keys, Mapped(f, t)) \ {x}
    <3>1. f[x] = Event(x, FALSE)
      BY <1>1
    <3>2. f[x].code = x /\ ~f[x].down
      BY <3>1 DEF Event
    <3>3. QED
      BY <3>2 DEF Stroke
  <2>5. Range(Append(t, x)) = Range(t) \cup {x}
    BY RangeOfAppend
  <2>6. Append(t, x) \in Seq(A)
    BY AppendProperties
  <2>7. QED
    BY <1>3, <2>2, <2>3, <2>4, <2>5, <2>6
<1> HIDE DEF Q
<1>4. s \in Q
  BY <1>2, <1>3, SequenceInduction
<1>5. Mapped(f, s) = [i \in DOMAIN s |-> Event(s[i], FALSE)]
  <2>1. \A i \in DOMAIN s : s[i] \in A
    BY ElementOfSeq, LenProperties
  <2>2. QED
    BY <1>1, <2>1 DEF Mapped
<1>6. QED
  BY <1>4, <1>5 DEF Q

\* The keys of a combination that are known.
LEMMA KnownFacts ==
  ASSUME NEW A, NEW s \in Seq(A)
  PROVE  Known(s) \in Seq(Codes) /\ Range(Known(s)) = Range(s) \cap Codes
<1> DEFINE f == [x \in A |-> IF x \in Codes THEN <<x>> ELSE <<>>]
           Q == {t \in Seq(A) : Range(FlattenSeq(Mapped(f, t))) = Range(t) \cap Codes}
<1>1. \A x \in A : f[x] \in Seq(Codes) /\ Range(f[x]) = {x} \cap Codes
  <2>1. ASSUME NEW x \in A PROVE f[x] \in Seq(Codes) /\ Range(f[x]) = {x} \cap Codes
    <3>1. CASE x \in Codes
      BY <3>1 DEF Range
    <3>2. CASE x \notin Codes
      BY <3>2, EmptySeq DEF Range
    <3>3. QED
      BY <3>1, <3>2
  <2>2. QED
    BY <2>1
<1>2. \A x \in A : f[x] = IF x \in Codes THEN <<x>> ELSE <<>>
  OBVIOUS
<1> HIDE DEF f
<1>3. <<>> \in Q
  <2>1. Range(<<>>) = {}
    BY DEF Range
  <2>2. QED
    BY <2>1, MappedEmpty, FlattenEmpty, EmptySeq
<1>4. ASSUME NEW t \in Seq(A), NEW x \in A, t \in Q PROVE Append(t, x) \in Q
  <2>1. Mapped(f, t) \in Seq(Seq(Codes)) /\ f[x] \in Seq(Codes)
    BY <1>1, MappedTyped
  <2>2. Mapped(f, Append(t, x)) = Append(Mapped(f, t), f[x])
    BY MappedAppend
  <2>3. FlattenSeq(Append(Mapped(f, t), f[x])) = FlattenSeq(Mapped(f, t)) \o f[x]
    BY <2>1, FlattenAppend
  <2>4. Range(FlattenSeq(Mapped(f, t)) \o f[x]) = Range(FlattenSeq(Mapped(f, t))) \cup Range(f[x])
    BY <2>1, FlattenTyped, RangeConcatenation
  <2>5. Range(Append(t, x)) = Range(t) \cup {x}
    BY RangeOfAppend
  <2>6. Append(t, x) \in Seq(A)
    BY AppendProperties
  <2>7. QED
    BY <1>1, <1>4, <2>2, <2>3, <2>4, <2>5, <2>6
<1> HIDE DEF Q
<1>5. s \in Q
  BY <1>3, <1>4, SequenceInduction
<1>6. Known(s) = FlattenSeq(Mapped(f, s))
  <2>1. \A i \in DOMAIN s : s[i] \in A
    BY ElementOfSeq, LenProperties
  <2>2. Mapped(f, s) = [i \in DOMAIN s |-> IF s[i] \in Codes THEN <<s[i]>> ELSE <<>>]
    BY <1>2, <2>1 DEF Mapped
  <2>3. QED
    BY <2>2 DEF Known
<1>7. FlattenSeq(Mapped(f, s)) \in Seq(Codes)
  BY <1>1, MappedTyped, FlattenTyped
<1>8. QED
  BY <1>5, <1>6, <1>7 DEF Q

\* A combination leaves all its keys up.
LEMMA ComboApplied ==
  ASSUME NEW keys, NEW A, NEW s \in Seq(A)
  PROVE  /\ Combo(s) \in Seq([code : Codes, down : BOOLEAN])
         /\ Applied(keys, Combo(s)) = keys \ (Range(s) \cap Codes)
<1> DEFINE k == Known(s)
           r == Reverse(k)
           E == [code : Codes, down : BOOLEAN]
           down == [i \in DOMAIN k |-> Event(k[i], TRUE)]
           up == [i \in DOMAIN r |-> Event(r[i], FALSE)]
<1>1. k \in Seq(Codes) /\ Range(k) = Range(s) \cap Codes
  BY KnownFacts
<1> HIDE DEF k
<1>2. PICK n \in Nat : n = Len(k) /\ DOMAIN k = 1 .. n /\ k \in [1 .. n -> Codes]
  BY <1>1, LenProperties
<1>3. r \in [1 .. n -> Codes] /\ \A i \in 1 .. n : r[i] = k[(n - i) + 1]
  BY <1>2 DEF Reverse
<1>4. Range(r) = Range(k)
  <2>1. \A i \in 1 .. n : (n - i) + 1 \in 1 .. n /\ (n - ((n - i) + 1)) + 1 = i
    BY <1>2
  <2> HIDE DEF r
  <2>2. DOMAIN r = 1 .. n
    BY <1>3
  <2>3. \A i \in 1 .. n : k[i] = r[(n - i) + 1]
    BY <1>3, <2>1
  <2>4. Range(r) = {r[i] : i \in 1 .. n} /\ Range(k) = {k[i] : i \in 1 .. n}
    BY <1>2, <2>2 DEF Range
  <2>5. ASSUME NEW i \in 1 .. n PROVE r[i] \in Range(k) /\ k[i] \in Range(r)
    BY <1>3, <2>1, <2>3, <2>4
  <2>6. QED
    BY <2>4, <2>5
<1>5. r \in Seq(Codes)
  BY <1>2, <1>3, SeqDef
<1>6. down \in Seq(E) /\ up \in Seq(E)
  <2>1. down \in [1 .. n -> E]
    BY <1>2 DEF Event
  <2> HIDE DEF r
  <2>2. up \in [1 .. n -> E]
    BY <1>3 DEF Event
  <2> HIDE DEF down, up, E
  <2>3. [1 .. n -> E] \subseteq Seq(E)
    BY SeqDef
  <2>4. QED
    BY <2>1, <2>2, <2>3
<1>7. Combo(s) = down \o up
  <2>1. Reverse([i \in DOMAIN k |-> Event(k[i], FALSE)]) = up
    <3> DEFINE e == [i \in DOMAIN k |-> Event(k[i], FALSE)]
    <3>1. e \in [1 .. n -> E] /\ Len(e) = n
      BY <1>2 DEF Event
    <3>2. \A i \in 1 .. n : (n - i) + 1 \in 1 .. n
      BY <1>2
    <3>3. Reverse(e) = [i \in 1 .. n |-> e[(n - i) + 1]]
      BY <3>1 DEF Reverse
    <3>4. \A i \in 1 .. n : e[(n - i) + 1] = Event(r[i], FALSE)
      BY <1>2, <1>3, <3>2
    <3>5. DOMAIN r = 1 .. n
      BY <1>3
    <3> HIDE DEF e, r
    <3>6. Reverse(e) = up
      BY <3>3, <3>4, <3>5
    <3>7. QED
      BY <3>6 DEF e
  <2>2. QED
    BY <2>1 DEF Combo, k
<1>8. Applied(keys, down \o up) = Applied(Applied(keys, down), up)
  <2> HIDE DEF down, up, E
  <2>1. QED
    BY <1>6, AppliedConcat
<1>9. Applied(keys, down) = keys \cup Range(k)
  BY <1>1, AppliedDown
<1>10. Applied(Applied(keys, down), up) = Applied(keys, down) \ Range(r)
  <2> HIDE DEF r
  <2>1. QED
    BY <1>5, AppliedUp
<1> HIDE DEF down, up, E, r
<1>11. down \o up \in Seq(E)
  <2> DEFINE d == down
             u == up
  <2>1. d \in Seq(E) /\ u \in Seq(E)
    BY <1>6
  <2> HIDE DEF d, u
  <2>2. d \o u \in Seq(E)
    BY <2>1, Zenon, ConcatProperties
  <2>3. QED
    BY <2>2 DEF d, u
<1>12. QED
  BY <1>1, <1>4, <1>7, <1>8, <1>9, <1>10, <1>11 DEF E

----------------------------------------------------------------------------
(**************************************************************************)
(* The invariant.                                                          *)
(**************************************************************************)
USE StreamInputAssumption

Piece == Nat \X Nat

\* Every variable that the properties rest on has its type, a client has sent at most
\* all pieces of its last line, and there is a buffer only for who has been accepted.
InputTypes ==
  /\ conn \in [Clients -> {"none", "waiting", "open"}] /\ over \in [Clients -> BOOLEAN]
  /\ sent \in [Clients -> Seq(Lines)] /\ pieces \in [Clients -> Nat]
  /\ wire \in [Clients -> Seq(Piece)] /\ buffer \in [Clients -> Seq(Piece)]
  /\ handled \in [Clients -> Nat] /\ reading \in Clients \cup {Nobody}
  /\ \A c \in Clients :
       /\ IF sent[c] = <<>> THEN pieces[c] = 0 ELSE pieces[c] \in 1 .. Last(sent[c]).len
       /\ conn[c] # "open" => buffer[c] = <<>>

\* A piece of a line that was sent, with the earlier ones of its line before it.
RunInv(c) ==
  \A i \in DOMAIN Pending(c) :
    LET p == Pending(c)[i]
    IN  /\ p[1] \in DOMAIN sent[c] /\ p[2] \in 1 .. sent[c][p[1]].len /\ p[2] <= i
        /\ \A m \in 0 .. p[2] - 1 : Pending(c)[i - m] = <<p[1], p[2] - m>>

ClientInv(c) == conn[c] # "none" => Gapless(c) /\ RunInv(c)

IInv == InputTypes /\ ~garbled /\ \A c \in Clients : ClientInv(c)

----------------------------------------------------------------------------
(***************************************************************************)
(* The stream of a client.                                                 *)
(***************************************************************************)
LEMMA TwoCuts ==
  ASSUME NEW a \in Seq(Piece), NEW n \in 0 .. Len(a)
  PROVE  SubSeq(a, 1, n) \o SubSeq(a, n + 1, Len(a)) = a
<1>1. Len(a) \in Nat
  BY LenProperties
<1>2. 1 \in 1 .. Len(a) + 1 /\ n \in 1 - 1 .. Len(a) /\ Len(a) \in n .. Len(a)
  BY <1>1
<1> HIDE DEF Piece
<1>3. SubSeq(a, 1, n) \o SubSeq(a, n + 1, Len(a)) = SubSeq(a, 1, Len(a))
  BY <1>2, ConcatAdjacentSubSeq
<1>4. SubSeq(a, 1, Len(a)) = a
  BY SubSeqFull
<1>5. QED
  BY <1>3, <1>4

LEMMA PendingFacts ==
  ASSUME InputTypes, NEW c \in Clients
  PROVE  /\ buffer[c] \in Seq(Piece) /\ wire[c] \in Seq(Piece)
         /\ Len(buffer[c]) \in Nat /\ Len(wire[c]) \in Nat
         /\ Pending(c) \in Seq(Piece) /\ Len(Pending(c)) \in Nat
         /\ Len(Pending(c)) = Len(buffer[c]) + Len(wire[c])
         /\ DOMAIN Pending(c) = 1 .. Len(Pending(c))
         /\ \A i \in 1 .. Len(Pending(c)) : Pending(c)[i] \in Piece
         /\ \A i \in 1 .. Len(buffer[c]) : Pending(c)[i] = buffer[c][i]
<1>1. buffer[c] \in Seq(Piece) /\ wire[c] \in Seq(Piece)
  BY DEF InputTypes
<1>2. Len(buffer[c]) \in Nat /\ Len(wire[c]) \in Nat
  BY <1>1, LenProperties
<1>3. /\ Pending(c) \in Seq(Piece) /\ Len(Pending(c)) = Len(buffer[c]) + Len(wire[c])
      /\ \A i \in 1 .. Len(buffer[c]) + Len(wire[c]) :
           Pending(c)[i] = IF i <= Len(buffer[c]) THEN buffer[c][i] ELSE wire[c][i - Len(buffer[c])]
  <2> DEFINE a == buffer[c]
             b == wire[c]
  <2> HIDE DEF Piece, a, b
  <2>1. a \in Seq(Piece) /\ b \in Seq(Piece)
    BY <1>1 DEF a, b
  <2>2. /\ a \o b \in Seq(Piece) /\ Len(a \o b) = Len(a) + Len(b)
        /\ \A i \in 1 .. Len(a) + Len(b) : (a \o b)[i] = IF i <= Len(a) THEN a[i] ELSE b[i - Len(a)]
    BY <2>1, ConcatProperties
  <2>3. QED
    BY <2>2, Zenon DEF Pending, a, b
<1>4. DOMAIN Pending(c) = 1 .. Len(Pending(c)) /\ Len(Pending(c)) \in Nat
  <2>1. Pending(c) \in Seq(Piece)
    BY <1>3
  <2>2. QED
    BY <2>1, LenProperties
<1>5. \A i \in 1 .. Len(Pending(c)) : Pending(c)[i] \in Piece
  BY <1>3, ElementOfSeq
<1>6. ASSUME NEW i \in 1 .. Len(buffer[c]) PROVE Pending(c)[i] = buffer[c][i]
  <2>1. \A a \in Nat, b \in Nat : i \in 1 .. a => i \in 1 .. a + b /\ i <= a
    OBVIOUS
  <2>2. QED
    BY <1>2, <1>3, <2>1
<1>7. QED
  BY <1>1, <1>2, <1>3, <1>4, <1>5, <1>6

\* The lines that a client has sent, and the length of its last one.
LEMMA SentFacts ==
  ASSUME InputTypes, NEW c \in Clients
  PROVE  /\ sent[c] \in Seq(Lines) /\ Len(sent[c]) \in Nat /\ DOMAIN sent[c] = 1 .. Len(sent[c])
         /\ \A n \in 1 .. Len(sent[c]) : sent[c][n] \in Lines /\ sent[c][n].len \in Nat \ {0}
         /\ sent[c] = <<>> <=> Len(sent[c]) = 0
         /\ sent[c] # <<>> => Last(sent[c]) = sent[c][Len(sent[c])] /\ Last(sent[c]).len \in Nat \ {0}
<1>1. sent[c] \in Seq(Lines)
  BY DEF InputTypes
<1>2. Len(sent[c]) \in Nat /\ DOMAIN sent[c] = 1 .. Len(sent[c])
  BY <1>1, LenProperties
<1>3. sent[c] = <<>> <=> Len(sent[c]) = 0
  BY <1>1, <1>2, EmptySeq
<1>4. \A n \in 1 .. Len(sent[c]) : sent[c][n] \in Lines /\ sent[c][n].len \in Nat \ {0}
  BY <1>1, ElementOfSeq
<1>5. QED
  BY <1>1, <1>2, <1>3, <1>4 DEF Last

\* What a client's part of the invariant is about.
PartOf(c) == <<sent[c], pieces[c], over[c], handled[c], Pending(c)>>

LEMMA SamePart ==
  ASSUME NEW c \in Clients, ClientInv(c), PartOf(c)' = PartOf(c), conn[c] # "none" \/ conn'[c] = "none"
  PROVE  ClientInv(c)'
<1>1. /\ sent'[c] = sent[c] /\ pieces'[c] = pieces[c] /\ over'[c] = over[c]
      /\ handled'[c] = handled[c] /\ Pending(c)' = Pending(c)
  BY DEF PartOf
<1>2. Gapless(c) => Gapless(c)'
  BY <1>1 DEF Gapless, Due, Behind, IsNewline, IsSent, Upcoming, Complete
<1>3. RunInv(c) => RunInv(c)'
  BY <1>1 DEF RunInv
<1>4. QED
  BY <1>2, <1>3 DEF ClientInv

\* Up to its first newline, what is pending is the line after the last one handled.
LEMMA NextLine ==
  ASSUME IInv, NEW c \in Clients, conn[c] # "none", NEW i \in DOMAIN Pending(c),
         \A j \in 1 .. i - 1 : ~IsNewline(c, Pending(c)[j])
  PROVE  /\ handled[c] \in Nat /\ handled[c] + 1 \in DOMAIN sent[c]
         /\ i <= sent[c][handled[c] + 1].len
         /\ \A m \in 1 .. i : Pending(c)[m] = <<handled[c] + 1, m>>
<1> DEFINE P == Pending(c)
<1>1. /\ DOMAIN P = 1 .. Len(P) /\ Len(P) \in Nat
      /\ \A j \in 1 .. Len(P) : P[j] \in Piece
  BY PendingFacts, LenProperties DEF IInv
<1>2. Gapless(c) /\ RunInv(c) /\ handled[c] \in Nat
  BY DEF IInv, ClientInv, InputTypes
<1>3. i \in 1 .. Len(P) /\ i \in Nat
  BY <1>1
<1>4. PICK n \in Nat, k \in Nat : P[i] = <<n, k>>
  BY <1>1, <1>3 DEF Piece
<1>5. /\ n \in DOMAIN sent[c] /\ k \in 1 .. sent[c][n].len /\ k <= i
      /\ \A m \in 0 .. k - 1 : P[i - m] = <<n, k - m>>
  BY <1>2, <1>4 DEF RunInv
<1>6. sent[c][n].len \in Nat
  BY <1>5, SentFacts DEF IInv
<1>7. ASSUME k < i PROVE FALSE
  <2>1. PICK h \in 1 .. i - 1 : h = i - k
    BY <1>3, <1>5, <1>6, <1>7
  <2>2. h \in DOMAIN P /\ h + 1 \in DOMAIN P /\ h + 1 # 1 /\ (h + 1) - 1 = h
    BY <1>1, <1>3, <2>1
  <2>3. P[h + 1] = <<n, 1>>
    <3>1. k - 1 \in 0 .. k - 1 /\ i - (k - 1) = h + 1 /\ k - (k - 1) = 1
      BY <1>3, <1>5, <1>6, <2>1
    <3>2. QED
      BY <1>5, <3>1
  <2>4. P[h + 1] = Behind(c, P[h])
    BY <1>2, <2>2 DEF Gapless, Due
  <2>5. P[h + 1][2] = P[h][2] + 1
    BY <2>1, <2>4 DEF Behind
  <2>6. P[h] \in Piece
    BY <1>1, <2>2
  <2>7. P[h][1] \in DOMAIN sent[c] /\ P[h][2] \in 1 .. sent[c][P[h][1]].len
    BY <1>2, <2>2 DEF RunInv
  <2>8. sent[c][P[h][1]].len \in Nat
    BY <2>7, SentFacts DEF IInv
  <2>9. QED
    BY <2>3, <2>5, <2>7, <2>8
<1>8. k = i
  BY <1>3, <1>4, <1>5, <1>7
<1>9. ASSUME NEW m \in 1 .. i PROVE P[m] = <<n, m>>
  <2>1. i - m \in 0 .. k - 1 /\ i - (i - m) = m /\ k - (i - m) = m
    BY <1>3, <1>8
  <2>2. QED
    BY <2>1, <1>5
<1>10. P[1] = <<handled[c] + 1, 1>>
  BY <1>1, <1>2, <1>3 DEF Gapless, Due
<1>11. n = handled[c] + 1
  BY <1>3, <1>9, <1>10
<1>12. QED
  BY <1>2, <1>3, <1>5, <1>6, <1>8, <1>9, <1>11

----------------------------------------------------------------------------
(***************************************************************************)
(* The clients.                                                            *)
(***************************************************************************)
LEMMA ConnectKeeps ==
  ASSUME IInv, NEW c \in Clients, Connect(c)
  PROVE  IInv'
<1>1. InputTypes'
  <2>1. <<>> \in Seq(Piece) /\ <<>> \in Seq(Lines)
    BY EmptySeq
  <2>2. QED
    BY <2>1 DEF IInv, InputTypes, Connect
<1>2. ClientInv(c)'
  <2>1. sent'[c] = <<>> /\ pieces'[c] = 0 /\ handled'[c] = 0 /\ wire'[c] = <<>> /\ buffer'[c] = <<>>
    BY DEF IInv, InputTypes, Connect
  <2>2. Pending(c)' = <<>> /\ Len(<<>>) = 0 /\ DOMAIN (Pending(c)') = {}
    <3>1. Pending(c)' = <<>>
      BY <2>1, EmptySeq, ConcatEmptySeq DEF Pending
    <3>2. <<>> \in Seq(Piece) /\ Len(<<>>) = 0
      BY EmptySeq
    <3>3. DOMAIN <<>> = 1 .. 0
      BY <3>2, LenProperties
    <3>4. QED
      BY <3>1, <3>2, <3>3
  <2>3. QED
    BY <2>1, <2>2 DEF ClientInv, Gapless, RunInv, Due, Upcoming, Complete
<1>3. ASSUME NEW d \in Clients, d # c PROVE ClientInv(d)'
  <2>1. PartOf(d)' = PartOf(d) /\ conn'[d] = conn[d]
    BY <1>3 DEF IInv, InputTypes, Connect, PartOf, Pending
  <2>2. QED
    BY <2>1, SamePart DEF IInv
<1>4. QED
  BY <1>1, <1>2, <1>3 DEF IInv, Connect

\* The piece k of line n that a client sends, and what it does to the lines sent.
LEMMA SendFacts ==
  ASSUME IInv, NEW c \in Clients, Send(c)
  PROVE  \E n \in Nat \ {0}, k \in Nat \ {0} :
           /\ sent' \in [Clients -> Seq(Lines)] /\ pieces' \in [Clients -> Nat]
           /\ n = Len(sent'[c]) /\ DOMAIN sent'[c] = 1 .. n /\ sent'[c] # <<>> /\ pieces'[c] = k
           /\ Last(sent'[c]) = sent'[c][n] /\ sent'[c][n].len \in Nat \ {0} /\ k \in 1 .. sent'[c][n].len
           /\ Len(sent[c]) <= n /\ \A l \in 1 .. Len(sent[c]) : sent'[c][l] = sent[c][l]
           /\ Upcoming(c) = <<n, k>>
           /\ n = Len(sent[c]) => k = pieces[c] + 1 /\ k > 1
           /\ n # Len(sent[c]) => k = 1
           /\ \A d \in Clients \ {c} : sent'[d] = sent[d] /\ pieces'[d] = pieces[d]
<1>1. /\ sent[c] \in Seq(Lines) /\ Len(sent[c]) \in Nat /\ DOMAIN sent[c] = 1 .. Len(sent[c])
      /\ pieces[c] \in Nat
      /\ IF sent[c] = <<>> THEN pieces[c] = 0 /\ Len(sent[c]) = 0
         ELSE Last(sent[c]) = sent[c][Len(sent[c])] /\ Last(sent[c]).len \in Nat \ {0}
              /\ pieces[c] \in 1 .. Last(sent[c]).len /\ Len(sent[c]) # 0
  BY SentFacts DEF IInv, InputTypes
<1>2. CASE ~Complete(c) /\ pieces' = [pieces EXCEPT ![c] = @ + 1] /\ UNCHANGED <<sent, begun>>
  <2>1. sent[c] # <<>> /\ pieces[c] # Last(sent[c]).len
    BY <1>1, <1>2 DEF Complete
  <2>2. /\ sent' = sent /\ pieces' \in [Clients -> Nat] /\ pieces'[c] = pieces[c] + 1
        /\ \A d \in Clients \ {c} : pieces'[d] = pieces[d]
    BY <1>1, <1>2 DEF IInv, InputTypes
  <2>3. /\ pieces[c] + 1 \in 1 .. Last(sent[c]).len /\ pieces[c] + 1 > 1
        /\ Len(sent[c]) \in Nat \ {0} /\ pieces[c] + 1 \in Nat \ {0}
    BY <1>1, <2>1
  <2>4. Upcoming(c) = <<Len(sent[c]), pieces[c] + 1>>
    BY <1>2 DEF Upcoming
  <2>5. sent \in [Clients -> Seq(Lines)]
    BY DEF IInv, InputTypes
  <2>6. QED
    <3> WITNESS Len(sent[c]) \in Nat \ {0}, pieces[c] + 1 \in Nat \ {0}
    <3>1. /\ sent'[c] = sent[c] /\ Len(sent[c]) <= Len(sent[c])
          /\ Last(sent'[c]) = sent'[c][Len(sent[c])] /\ sent'[c][Len(sent[c])].len \in Nat \ {0}
          /\ pieces[c] + 1 \in 1 .. sent'[c][Len(sent[c])].len /\ DOMAIN sent'[c] = 1 .. Len(sent[c])
      BY <1>1, <2>1, <2>2, <2>3
    <3>2. QED
      BY <2>1, <2>2, <2>3, <2>4, <2>5, <3>1, Zenon
<1>3. CASE /\ Complete(c) /\ pieces' = [pieces EXCEPT ![c] = 1]
           /\ \E l \in Lines : sent' = [sent EXCEPT ![c] = Append(@, l)]
  <2>1. PICK l \in Lines : sent' = [sent EXCEPT ![c] = Append(@, l)]
    BY <1>3
  <2>2. sent'[c] = Append(sent[c], l) /\ pieces'[c] = 1
    BY <1>3, <2>1 DEF IInv, InputTypes
  <2>3. /\ Append(sent[c], l) \in Seq(Lines) /\ Append(sent[c], l) # <<>>
        /\ Len(Append(sent[c], l)) = Len(sent[c]) + 1
        /\ \A m \in 1 .. Len(sent[c]) : Append(sent[c], l)[m] = sent[c][m]
        /\ Append(sent[c], l)[Len(sent[c]) + 1] = l
    BY <1>1, AppendProperties
  <2>4. /\ DOMAIN sent'[c] = 1 .. Len(sent[c]) + 1 /\ Len(sent'[c]) = Len(sent[c]) + 1
        /\ Len(sent[c]) + 1 \in Nat \ {0} /\ Len(sent[c]) + 1 # Len(sent[c])
    BY <1>1, <2>2, <2>3, LenProperties
  <2>5. sent' \in [Clients -> Seq(Lines)] /\ pieces' \in [Clients -> Nat]
    BY <1>3, <2>1, <2>3 DEF IInv, InputTypes
  <2>6. /\ Last(sent'[c]) = sent'[c][Len(sent[c]) + 1] /\ sent'[c][Len(sent[c]) + 1] = l
        /\ l.len \in Nat \ {0}
    BY <2>2, <2>3, <2>4 DEF Last
  <2>7. Upcoming(c) = <<Len(sent[c]) + 1, 1>>
    BY <1>3 DEF Upcoming
  <2>8. \A d \in Clients \ {c} : sent'[d] = sent[d] /\ pieces'[d] = pieces[d]
    BY <1>3, <2>1 DEF IInv, InputTypes
  <2>9. Len(sent[c]) <= Len(sent[c]) + 1 /\ 1 \in 1 .. sent'[c][Len(sent[c]) + 1].len /\ 1 \in Nat \ {0}
    BY <1>1, <2>6
  <2>10. QED
    <3> WITNESS Len(sent[c]) + 1 \in Nat \ {0}, 1 \in Nat \ {0}
    <3>1. QED
      BY <2>2, <2>3, <2>4, <2>5, <2>6, <2>7, <2>8, <2>9
<1>4. QED
  BY <1>2, <1>3 DEF Send

LEMMA SendKeeps ==
  ASSUME IInv, NEW c \in Clients, Send(c)
  PROVE  IInv'
<1> DEFINE P == Pending(c)
<1>1. /\ sent[c] \in Seq(Lines) /\ Len(sent[c]) \in Nat /\ DOMAIN sent[c] = 1 .. Len(sent[c])
  BY SentFacts DEF IInv
<1>2. PICK n \in Nat \ {0}, k \in Nat \ {0} :
           /\ sent' \in [Clients -> Seq(Lines)] /\ pieces' \in [Clients -> Nat]
           /\ n = Len(sent'[c]) /\ DOMAIN sent'[c] = 1 .. n /\ sent'[c] # <<>> /\ pieces'[c] = k
           /\ Last(sent'[c]) = sent'[c][n] /\ sent'[c][n].len \in Nat \ {0} /\ k \in 1 .. sent'[c][n].len
           /\ Len(sent[c]) <= n /\ \A l \in 1 .. Len(sent[c]) : sent'[c][l] = sent[c][l]
           /\ Upcoming(c) = <<n, k>>
           /\ n = Len(sent[c]) => k = pieces[c] + 1 /\ k > 1
           /\ n # Len(sent[c]) => k = 1
           /\ \A d \in Clients \ {c} : sent'[d] = sent[d] /\ pieces'[d] = pieces[d]
  BY SendFacts
<1>3. /\ conn' = conn /\ over' = over /\ buffer' = buffer /\ handled' = handled /\ garbled' = garbled
      /\ reading' = reading /\ conn[c] # "none" /\ ~over[c]
      /\ wire' = [wire EXCEPT ![c] = Append(@, <<n, k>>)]
  BY <1>2 DEF Send, guestVars
<1>4. <<n, k>> \in Piece /\ n \in Nat /\ k \in Nat
  BY <1>2 DEF Piece
<1>5. /\ DOMAIN P = 1 .. Len(P) /\ Len(P) \in Nat /\ P \in Seq(Piece)
      /\ \A i \in 1 .. Len(P) : P[i] \in Piece
  BY PendingFacts, LenProperties DEF IInv
<1>6. Append(wire[c], <<n, k>>) \in Seq(Piece)
  BY <1>4, AppendProperties DEF IInv, InputTypes
<1>7. InputTypes'
  BY <1>2, <1>3, <1>6 DEF IInv, InputTypes
<1>8. Pending(c)' = Append(P, <<n, k>>)
  <2> DEFINE p == <<n, k>>
             a == buffer[c]
             s == wire[c]
  <2>1. s \in Seq(Piece) /\ a \in Seq(Piece) /\ p \in Piece
    BY <1>4 DEF IInv, InputTypes, Piece
  <2>2. wire'[c] = Append(s, p) /\ buffer'[c] = a
    BY <1>3 DEF IInv, InputTypes
  <2> HIDE DEF p, a, s
  <2>3. a \o Append(s, p) = Append(a \o s, p)
    BY <2>1, ConcatAppend
  <2>4. Pending(c)' = a \o Append(s, p) /\ P = a \o s
    BY <2>2 DEF Pending, a, s
  <2>5. QED
    BY <2>3, <2>4 DEF p
<1>9. /\ Len(Pending(c)') = Len(P) + 1 /\ DOMAIN (Pending(c)') = 1 .. Len(P) + 1
      /\ \A i \in 1 .. Len(P) : Pending(c)'[i] = P[i]
      /\ Pending(c)'[Len(P) + 1] = <<n, k>>
  BY <1>4, <1>5, <1>8, AppendProperties, LenProperties
<1>10. Gapless(c) /\ RunInv(c)
  BY <1>3 DEF IInv, ClientInv
<1>11. ASSUME NEW p \in Piece, p[1] \in 1 .. Len(sent[c])
       PROVE  /\ sent'[c][p[1]] = sent[c][p[1]] /\ Behind(c, p)' = Behind(c, p)
              /\ IsSent(c, p) => IsSent(c, p)'
  <2>1. sent'[c][p[1]] = sent[c][p[1]]
    BY <1>2, <1>11
  <2>2. p[1] \in Nat /\ p[2] \in Nat
    BY DEF Piece
  <2>3. p[1] < n \/ (p[1] = n /\ n = Len(sent[c]))
    BY <1>1, <1>2, <1>11, <2>2
  <2>4. IsSent(c, p) => IsSent(c, p)'
    <3>1. SUFFICES ASSUME p[1] = n, n = Len(sent[c]), IsSent(c, p) PROVE p[2] <= k
      BY <1>2, <2>3 DEF IsSent
    <3>2. p[2] <= pieces[c] /\ k = pieces[c] + 1 /\ pieces[c] \in Nat
      BY <1>2, <3>1 DEF IsSent, IInv, InputTypes
    <3>3. QED
      BY <2>2, <3>2
  <2>5. QED
    BY <2>1, <2>4 DEF Behind, IsNewline
<1>12. \A i \in 1 .. Len(P) : P[i] \in Piece /\ P[i][1] \in 1 .. Len(sent[c]) /\ P[i][2] \in Nat
  BY <1>1, <1>5, <1>10 DEF RunInv, Piece
<1>13. Due(c, Len(P) + 1) = <<n, k>>
  BY <1>2, <1>3, <1>10 DEF Gapless
<1>14. Gapless(c)'
  <2>1. ASSUME NEW i \in 1 .. Len(P) + 1 PROVE Due(c, i)' = Due(c, i)
    <3>1. CASE i = 1
      BY <1>3, <3>1 DEF Due
    <3>2. CASE i # 1
      <4>1. i - 1 \in 1 .. Len(P)
        BY <1>5, <3>2
      <4>2. PICK p \in Piece : p = P[i - 1] /\ p[1] \in 1 .. Len(sent[c])
        BY <1>12, <4>1
      <4>3. Pending(c)'[i - 1] = p
        BY <1>9, <4>1, <4>2
      <4>4. Due(c, i) = Behind(c, p) /\ Due(c, i)' = Behind(c, p)'
        BY <3>2, <4>2, <4>3 DEF Due
      <4>5. QED
        BY <1>11, <4>2, <4>4
    <3>3. QED
      BY <3>1, <3>2
  <2>2. ASSUME NEW i \in 1 .. Len(P) + 1 PROVE (Pending(c)[i] = Due(c, i) /\ IsSent(c, Pending(c)[i]))'
    <3>1. CASE i = Len(P) + 1
      <4>1. Pending(c)'[i] = <<n, k>> /\ Due(c, i)' = <<n, k>>
        BY <1>9, <1>13, <2>1, <3>1
      <4>2. IsSent(c, <<n, k>>)'
        BY <1>2 DEF IsSent
      <4>3. QED
        BY <4>1, <4>2
    <3>2. CASE i \in 1 .. Len(P)
      <4>1. PICK p \in Piece : p = P[i] /\ p[1] \in 1 .. Len(sent[c])
        BY <1>12, <3>2
      <4>2. p = Due(c, i) /\ IsSent(c, p)
        BY <1>5, <1>10, <3>2, <4>1 DEF Gapless
      <4>3. Pending(c)'[i] = p /\ Due(c, i)' = p /\ IsSent(c, p)'
        BY <1>9, <1>11, <2>1, <3>2, <4>1, <4>2
      <4>4. QED
        BY <4>3
    <3>3. QED
      BY <1>5, <3>1, <3>2
  <2>3. Due(c, Len(Pending(c)) + 1)' = Upcoming(c)'
    <3>1. PICK l \in Nat : l = Len(P)
      BY <1>5
    <3>2. Len(Pending(c)') + 1 = l + 2 /\ l + 2 # 1 /\ (l + 2) - 1 = l + 1 /\ Pending(c)'[l + 1] = <<n, k>>
      BY <1>9, <3>1
    <3>3. Due(c, l + 2)' = Behind(c, <<n, k>>)'
      BY <3>2 DEF Due
    <3>4. Behind(c, <<n, k>>)' = Upcoming(c)'
      BY <1>2 DEF Behind, IsNewline, Upcoming, Complete
    <3>5. Due(c, Len(Pending(c)) + 1)' = Due(c, l + 2)'
      BY <3>2 DEF Due
    <3>6. QED
      BY <3>3, <3>4, <3>5
  <2>4. QED
    BY <1>9, <2>2, <2>3 DEF Gapless
<1>15. RunInv(c)'
  <2>1. ASSUME NEW i \in 1 .. Len(P)
        PROVE  /\ P[i][1] \in DOMAIN sent'[c] /\ P[i][2] \in 1 .. sent'[c][P[i][1]].len /\ P[i][2] <= i
               /\ \A m \in 0 .. P[i][2] - 1 : Pending(c)'[i - m] = <<P[i][1], P[i][2] - m>>
    <3>1. /\ P[i][1] \in DOMAIN sent[c] /\ P[i][2] \in 1 .. sent[c][P[i][1]].len /\ P[i][2] <= i
          /\ \A m \in 0 .. P[i][2] - 1 : P[i - m] = <<P[i][1], P[i][2] - m>>
      BY <1>5, <1>10 DEF RunInv
    <3>2. \A m \in 0 .. P[i][2] - 1 : i - m \in 1 .. Len(P)
      BY <1>5, <1>12, <3>1
    <3>3. P[i][1] \in DOMAIN sent'[c] /\ sent'[c][P[i][1]] = sent[c][P[i][1]]
      BY <1>1, <1>2, <1>12
    <3>4. QED
      BY <1>9, <3>1, <3>2, <3>3
  <2>2. k <= Len(P) + 1 /\ \A m \in 1 .. k - 1 : P[Len(P) + 1 - m] = <<n, k - m>>
    <3>1. CASE n # Len(sent[c])
      BY <1>2, <1>5, <3>1
    <3>2. CASE n = Len(sent[c])
      <4>1. k > 1
        BY <1>2, <3>2
      <4>2. Len(P) # 0 /\ P[Len(P)] = <<n, k - 1>>
        <5>1. Len(P) # 0
          BY <1>4, <1>5, <1>13, <4>1 DEF Due
        <5>2. Behind(c, P[Len(P)]) = <<n, k>>
          BY <1>5, <1>13, <5>1 DEF Due
        <5>3. ~IsNewline(c, P[Len(P)])
          BY <1>4, <4>1, <5>2 DEF Behind
        <5>4. P[Len(P)] \in Piece
          BY <1>5, <5>1
        <5>5. QED
          BY <1>4, <5>1, <5>2, <5>3, <5>4 DEF Behind, Piece
      <4>3. k - 1 <= Len(P) /\ \A m \in 0 .. k - 2 : P[Len(P) - m] = <<n, k - 1 - m>>
        <5>1. Len(P) \in DOMAIN P /\ P[Len(P)][1] = n /\ P[Len(P)][2] = k - 1 /\ k - 1 - 1 = k - 2
          BY <1>4, <1>5, <4>2
        <5>2. QED
          BY <1>10, <5>1 DEF RunInv
      <4>4. ASSUME NEW m \in 1 .. k - 1 PROVE P[Len(P) + 1 - m] = <<n, k - m>>
        <5>1. m - 1 \in 0 .. k - 2 /\ Len(P) - (m - 1) = Len(P) + 1 - m /\ k - 1 - (m - 1) = k - m
          BY <1>4, <1>5
        <5>2. QED
          BY <4>3, <5>1
      <4>5. QED
        BY <1>4, <1>5, <4>3, <4>4
    <3>3. QED
      BY <3>1, <3>2
  <2>3. \A m \in 0 .. k - 1 : Pending(c)'[Len(P) + 1 - m] = <<n, k - m>>
    <3>1. SUFFICES ASSUME NEW m \in 0 .. k - 1 PROVE Pending(c)'[Len(P) + 1 - m] = <<n, k - m>>
      OBVIOUS
    <3>2. CASE m = 0
      BY <1>4, <1>5, <1>9, <3>2
    <3>3. CASE m # 0
      <4>1. Len(P) + 1 - m \in 1 .. Len(P) /\ m \in 1 .. k - 1
        BY <1>4, <1>5, <2>2, <3>3
      <4>2. QED
        BY <1>9, <2>2, <4>1
    <3>4. QED
      BY <3>2, <3>3
  <2>4. n \in DOMAIN sent'[c] /\ k \in 1 .. sent'[c][n].len
    BY <1>2
  <2>5. ASSUME NEW i \in DOMAIN (Pending(c)')
        PROVE  LET p == Pending(c)'[i]
               IN  /\ p[1] \in DOMAIN sent'[c] /\ p[2] \in 1 .. sent'[c][p[1]].len /\ p[2] <= i
                   /\ \A m \in 0 .. p[2] - 1 : Pending(c)'[i - m] = <<p[1], p[2] - m>>
    <3>1. CASE i = Len(P) + 1
      BY <1>4, <1>9, <2>2, <2>3, <2>4, <3>1
    <3>2. CASE i \in 1 .. Len(P)
      BY <1>9, <2>1, <3>2
    <3>3. QED
      BY <1>5, <1>9, <3>1, <3>2
  <2>6. QED
    BY <2>5 DEF RunInv
<1>16. ASSUME NEW d \in Clients, d # c PROVE ClientInv(d)'
  <2>1. PartOf(d)' = PartOf(d) /\ conn'[d] = conn[d]
    BY <1>2, <1>3, <1>16 DEF IInv, InputTypes, PartOf, Pending
  <2>2. QED
    BY <2>1, SamePart DEF IInv
<1>17. QED
  BY <1>3, <1>7, <1>14, <1>15, <1>16 DEF IInv, ClientInv

\* What was on its way may be lost: what is left is the beginning of it.
LEMMA HangUpKeeps ==
  ASSUME IInv, NEW c \in Clients, HangUp(c)
  PROVE  IInv'
<1> DEFINE P == Pending(c)
<1>1. /\ conn' = conn /\ sent' = sent /\ pieces' = pieces /\ buffer' = buffer /\ handled' = handled
      /\ garbled' = garbled /\ reading' = reading /\ over' = [over EXCEPT ![c] = TRUE]
      /\ wire' \in {wire, [wire EXCEPT ![c] = <<>>]}
  BY DEF HangUp, guestVars
<1>2. wire' \in [Clients -> Seq(Piece)] /\ \A d \in Clients \ {c} : wire'[d] = wire[d]
  <2>1. wire \in [Clients -> Seq(Piece)] /\ <<>> \in Seq(Piece)
    BY EmptySeq DEF IInv, InputTypes
  <2>2. CASE wire' = wire
    BY <2>1, <2>2
  <2>3. CASE wire' = [wire EXCEPT ![c] = <<>>]
    BY <2>1, <2>3
  <2>4. QED
    BY <1>1, <2>2, <2>3
<1>3. over' \in [Clients -> BOOLEAN] /\ over'[c] = TRUE /\ \A d \in Clients \ {c} : over'[d] = over[d]
  BY <1>1 DEF IInv, InputTypes
<1>4. InputTypes'
  BY <1>1, <1>2, <1>3 DEF IInv, InputTypes
<1>5. PICK a \in Nat, b \in Nat :
           /\ DOMAIN P = 1 .. a + b /\ DOMAIN buffer[c] = 1 .. a /\ buffer[c] \in Seq(Piece)
           /\ \A i \in 1 .. a : P[i] = buffer[c][i]
  <2>1. /\ DOMAIN P = 1 .. Len(P) /\ Len(P) = Len(buffer[c]) + Len(wire[c]) /\ buffer[c] \in Seq(Piece)
        /\ Len(buffer[c]) \in Nat /\ Len(wire[c]) \in Nat
        /\ \A i \in 1 .. Len(buffer[c]) : P[i] = buffer[c][i]
    BY PendingFacts DEF IInv
  <2>2. DOMAIN buffer[c] = 1 .. Len(buffer[c])
    BY <2>1, LenProperties
  <2>3. DOMAIN P = 1 .. Len(buffer[c]) + Len(wire[c])
    BY <2>1
  <2>4. QED
    BY <2>1, <2>2, <2>3, Zenon
<1>6. PICK l \in Nat : /\ l <= a + b /\ DOMAIN (Pending(c)') = 1 .. l
                      /\ \A i \in 1 .. l : Pending(c)'[i] = P[i]
  <2>1. CASE wire' = wire
    <3>1. Pending(c)' = P
      BY <1>1, <2>1 DEF Pending
    <3>2. a + b \in Nat /\ a + b <= a + b
      OBVIOUS
    <3>3. DOMAIN (Pending(c)') = 1 .. a + b /\ \A i \in 1 .. a + b : Pending(c)'[i] = P[i]
      BY <1>5, <3>1
    <3>4. QED
      BY <3>2, <3>3, Zenon
  <2>2. CASE wire' = [wire EXCEPT ![c] = <<>>]
    <3>1. wire'[c] = <<>> /\ buffer'[c] = buffer[c]
      BY <1>1, <2>2 DEF IInv, InputTypes
    <3>2. buffer[c] \o <<>> = buffer[c]
      BY <1>5, ConcatEmptySeq
    <3>3. Pending(c)' = buffer[c]
      BY <3>1, <3>2 DEF Pending
    <3>4. QED
      BY <1>5, <3>3
  <2>3. QED
    BY <1>1, <2>1, <2>2
<1>7. conn[c] # "none" => Gapless(c) /\ RunInv(c)
  BY DEF IInv, ClientInv
<1>8. ASSUME conn[c] # "none" PROVE Gapless(c)'
  <2>1. ASSUME NEW i \in 1 .. l PROVE (Pending(c)[i] = Due(c, i) /\ IsSent(c, Pending(c)[i]))'
    <3>1. i \in DOMAIN P /\ Pending(c)'[i] = P[i] /\ i \in Nat
      BY <1>5, <1>6
    <3>2. P[i] = Due(c, i) /\ IsSent(c, P[i])
      BY <1>7, <1>8, <3>1 DEF Gapless
    <3>3. i # 1 => Pending(c)'[i - 1] = P[i - 1]
      BY <1>6
    <3>4. Due(c, i)' = Due(c, i)
      BY <1>1, <3>3 DEF Due, Behind, IsNewline
    <3>5. IsSent(c, Pending(c)[i])'
      BY <1>1, <3>1, <3>2 DEF IsSent
    <3>6. QED
      BY <3>1, <3>2, <3>4, <3>5
  <2>2. QED
    BY <1>3, <1>6, <2>1 DEF Gapless
<1>9. ASSUME conn[c] # "none" PROVE RunInv(c)'
  <2>1. ASSUME NEW i \in 1 .. l
        PROVE  /\ P[i][1] \in DOMAIN sent[c] /\ P[i][2] \in 1 .. sent[c][P[i][1]].len /\ P[i][2] <= i
               /\ \A m \in 0 .. P[i][2] - 1 : Pending(c)'[i - m] = <<P[i][1], P[i][2] - m>>
    <3>1. i \in DOMAIN P
      BY <1>5, <1>6
    <3>2. /\ P[i][1] \in DOMAIN sent[c] /\ P[i][2] \in 1 .. sent[c][P[i][1]].len /\ P[i][2] <= i
          /\ \A m \in 0 .. P[i][2] - 1 : P[i - m] = <<P[i][1], P[i][2] - m>>
      BY <1>7, <1>9, <3>1 DEF RunInv
    <3>3. P[i][2] \in Nat
      BY <3>1, PendingFacts DEF IInv, Piece
    <3>4. \A m \in 0 .. P[i][2] - 1 : i - m \in 1 .. l
      BY <1>6, <3>2, <3>3
    <3>5. QED
      BY <1>6, <3>2, <3>4
  <2>2. ASSUME NEW i \in DOMAIN (Pending(c)')
        PROVE  LET p == Pending(c)'[i]
               IN  /\ p[1] \in DOMAIN sent'[c] /\ p[2] \in 1 .. sent'[c][p[1]].len /\ p[2] <= i
                   /\ \A m \in 0 .. p[2] - 1 : Pending(c)'[i - m] = <<p[1], p[2] - m>>
    BY <1>1, <1>6, <2>1
  <2>3. QED
    BY <2>2 DEF RunInv
<1>10. ASSUME NEW d \in Clients, d # c PROVE ClientInv(d)'
  <2>1. PartOf(d)' = PartOf(d) /\ conn'[d] = conn[d]
    BY <1>1, <1>2, <1>3, <1>10 DEF PartOf, Pending
  <2>2. QED
    BY <2>1, SamePart DEF IInv
<1>11. QED
  BY <1>1, <1>4, <1>8, <1>9, <1>10 DEF IInv, ClientInv

----------------------------------------------------------------------------
(***************************************************************************)
(* The server.                                                             *)
(***************************************************************************)
LEMMA AcceptKeeps ==
  ASSUME IInv, Accept
  PROVE  IInv'
<1>1. /\ sent' = sent /\ pieces' = pieces /\ wire' = wire /\ handled' = handled /\ over' = over
      /\ garbled' = garbled /\ reading' = reading
  BY DEF Accept, clientVars, guestVars
<1>2. buffer' = buffer
  <2>1. \A c \in Clients : conn[c] = "waiting" => buffer[c] = <<>>
    BY DEF IInv, InputTypes
  <2>2. QED
    BY <2>1 DEF Accept, IInv, InputTypes
<1>3. /\ conn' \in [Clients -> {"none", "waiting", "open"}]
      /\ \A c \in Clients : (conn[c] # "none" \/ conn'[c] = "none") /\ (conn'[c] # "open" => conn[c] # "open")
  BY DEF Accept, IInv, InputTypes
<1>4. InputTypes'
  <2>1. ASSUME NEW c \in Clients, conn'[c] # "open" PROVE buffer'[c] = <<>>
    <3>1. conn[c] # "open"
      BY <1>3, <2>1
    <3>2. QED
      BY <1>2, <3>1 DEF IInv, InputTypes
  <2>2. QED
    BY <1>1, <1>2, <1>3, <2>1 DEF IInv, InputTypes
<1>5. ASSUME NEW d \in Clients PROVE ClientInv(d)'
  <2>1. PartOf(d)' = PartOf(d) /\ (conn[d] # "none" \/ conn'[d] = "none")
    BY <1>1, <1>2, <1>3 DEF PartOf, Pending
  <2>2. QED
    BY <2>1, SamePart DEF IInv
<1>6. QED
  BY <1>1, <1>4, <1>5 DEF IInv

LEMMA ReadKeeps ==
  ASSUME IInv, NEW c \in Clients, Read(c)
  PROVE  IInv'
<1> DEFINE n == IF Len(wire[c]) < Chunk THEN Len(wire[c]) ELSE Chunk
<1>1. /\ conn' = conn /\ sent' = sent /\ pieces' = pieces /\ over' = over
      /\ handled' = handled /\ garbled' = garbled /\ reading' = c /\ conn[c] = "open"
      /\ buffer' = [buffer EXCEPT ![c] = @ \o SubSeq(wire[c], 1, n)]
      /\ wire' = [wire EXCEPT ![c] = SubSeq(@, n + 1, Len(@))]
  BY DEF Read, ReadyToRead, clientVars, guestVars
<1>2. buffer[c] \in Seq(Piece) /\ wire[c] \in Seq(Piece) /\ Len(wire[c]) \in Nat
  BY PendingFacts DEF IInv
<1>3. n \in 0 .. Len(wire[c])
  BY <1>2
<1> HIDE DEF n
<1>4. \A i \in 1 .. Len(wire[c]) : wire[c][i] \in Piece
  BY <1>2, ElementOfSeq
<1>5. SubSeq(wire[c], 1, n) \in Seq(Piece) /\ SubSeq(wire[c], n + 1, Len(wire[c])) \in Seq(Piece)
  <2>1. n \in Int /\ n + 1 \in Int /\ Len(wire[c]) \in Int
    BY <1>2, <1>3
  <2>2. \A i \in 1 .. n : wire[c][i] \in Piece
    BY <1>2, <1>3, <1>4
  <2>3. \A i \in n + 1 .. Len(wire[c]) : wire[c][i] \in Piece
    BY <1>2, <1>3, <1>4
  <2>4. SubSeq(wire[c], 1, n) \in Seq(Piece)
    BY <2>1, <2>2, SubSeqProperties
  <2>5. SubSeq(wire[c], n + 1, Len(wire[c])) \in Seq(Piece)
    BY <2>1, <2>3, SubSeqProperties
  <2>6. QED
    BY <2>4, <2>5
<1>6. SubSeq(wire[c], 1, n) \o SubSeq(wire[c], n + 1, Len(wire[c])) = wire[c]
  BY <1>2, <1>3, TwoCuts
<1>7. /\ buffer'[c] = buffer[c] \o SubSeq(wire[c], 1, n)
      /\ wire'[c] = SubSeq(wire[c], n + 1, Len(wire[c]))
      /\ \A d \in Clients \ {c} : buffer'[d] = buffer[d] /\ wire'[d] = wire[d]
  BY <1>1 DEF IInv, InputTypes
<1>8. InputTypes'
  <2>1. buffer[c] \o SubSeq(wire[c], 1, n) \in Seq(Piece)
    BY <1>2, <1>5, ConcatProperties
  <2>2. buffer' \in [Clients -> Seq(Piece)] /\ wire' \in [Clients -> Seq(Piece)]
    BY <1>1, <1>5, <2>1 DEF IInv, InputTypes
  <2>3. \A d \in Clients : conn[d] # "open" => buffer'[d] = <<>>
    BY <1>1, <1>7 DEF IInv, InputTypes
  <2>4. QED
    BY <1>1, <2>2, <2>3 DEF IInv, InputTypes
<1>9. ASSUME NEW d \in Clients PROVE ClientInv(d)'
  <2>1. Pending(d)' = Pending(d)
    <3>1. CASE d = c
      <4>1. (buffer[c] \o SubSeq(wire[c], 1, n)) \o SubSeq(wire[c], n + 1, Len(wire[c]))
              = buffer[c] \o (SubSeq(wire[c], 1, n) \o SubSeq(wire[c], n + 1, Len(wire[c])))
        <5> DEFINE a == buffer[c]
                   b == SubSeq(wire[c], 1, n)
                   e == SubSeq(wire[c], n + 1, Len(wire[c]))
        <5>1. a \in Seq(Piece) /\ b \in Seq(Piece) /\ e \in Seq(Piece)
          BY <1>2, <1>5
        <5> HIDE DEF a, b, e
        <5>2. (a \o b) \o e = a \o (b \o e)
          BY <5>1, ThreeParts
        <5>3. QED
          BY <5>2 DEF a, b, e
      <4>2. buffer'[c] \o wire'[c] = buffer[c] \o wire[c]
        BY <1>6, <1>7, <4>1
      <4>3. QED
        BY <3>1, <4>2 DEF Pending
    <3>2. CASE d # c
      BY <1>7, <3>2 DEF Pending
    <3>3. QED
      BY <3>1, <3>2
  <2>2. PartOf(d)' = PartOf(d) /\ conn'[d] = conn[d]
    BY <1>1, <2>1 DEF PartOf
  <2>3. QED
    BY <2>2, SamePart DEF IInv
<1>10. QED
  BY <1>1, <1>8, <1>9 DEF IInv

LEMMA CloseKeeps ==
  ASSUME IInv, NEW c \in Clients, Close(c)
  PROVE  IInv'
<1>1. /\ sent' = sent /\ pieces' = pieces /\ wire' = wire /\ handled' = handled /\ over' = over
      /\ garbled' = garbled /\ reading' = Nobody
      /\ conn' = [conn EXCEPT ![c] = "none"] /\ buffer' = [buffer EXCEPT ![c] = <<>>]
  BY DEF Close, clientVars, guestVars
<1>2. /\ conn'[c] = "none" /\ buffer'[c] = <<>>
      /\ \A d \in Clients \ {c} : conn'[d] = conn[d] /\ buffer'[d] = buffer[d]
  BY <1>1 DEF IInv, InputTypes
<1>3. InputTypes'
  <2>1. buffer' \in [Clients -> Seq(Piece)] /\ conn' \in [Clients -> {"none", "waiting", "open"}]
    BY <1>1, EmptySeq DEF IInv, InputTypes
  <2>2. \A d \in Clients : conn'[d] # "open" => buffer'[d] = <<>>
    BY <1>2 DEF IInv, InputTypes
  <2>3. QED
    BY <1>1, <2>1, <2>2 DEF IInv, InputTypes
<1>4. ASSUME NEW d \in Clients, d # c PROVE ClientInv(d)'
  <2>1. PartOf(d)' = PartOf(d) /\ conn'[d] = conn[d]
    BY <1>1, <1>2, <1>4 DEF PartOf, Pending
  <2>2. QED
    BY <2>1, SamePart DEF IInv
<1>5. QED
  BY <1>1, <1>2, <1>3, <1>4 DEF IInv, ClientInv

LEMMA ReadNothingKeeps ==
  ASSUME IInv, UNCHANGED <<conn, clientVars, wire, buffer, guestVars>>, reading' \in {reading, Nobody}
  PROVE  IInv'
<1>1. InputTypes'
  BY DEF IInv, InputTypes, clientVars, guestVars
<1>2. ASSUME NEW d \in Clients PROVE ClientInv(d)'
  <2>1. PartOf(d)' = PartOf(d) /\ conn'[d] = conn[d]
    BY DEF PartOf, Pending, clientVars, guestVars
  <2>2. QED
    BY <2>1, SamePart DEF IInv
<1>3. QED
  BY <1>1, <1>2 DEF IInv, guestVars

\* The text up to the first newline is the line that the client sent next, and what
\* is behind it begins the line after that.
LEMMA HandleLineKeeps ==
  ASSUME IInv, NEW c \in Clients, HandleLine(c), conn[c] # "none"
  PROVE  IInv'
<1> DEFINE P == Pending(c)
           h == handled[c] + 1
<1>1. PICK a \in Nat, w \in Nat :
           /\ DOMAIN buffer[c] = 1 .. a /\ buffer[c] \in Seq(Piece) /\ a = Len(buffer[c])
           /\ DOMAIN P = 1 .. a + w /\ Len(P) = a + w /\ wire[c] \in Seq(Piece) /\ w = Len(wire[c])
           /\ \A j \in 1 .. a + w : P[j] \in Piece
           /\ \A j \in 1 .. a : P[j] = buffer[c][j]
  <2>1. /\ DOMAIN P = 1 .. Len(P) /\ Len(P) = Len(buffer[c]) + Len(wire[c])
        /\ Len(buffer[c]) \in Nat /\ Len(wire[c]) \in Nat /\ buffer[c] \in Seq(Piece) /\ wire[c] \in Seq(Piece)
        /\ \A j \in 1 .. Len(P) : P[j] \in Piece
        /\ \A j \in 1 .. Len(buffer[c]) : P[j] = buffer[c][j]
    BY PendingFacts DEF IInv
  <2>2. DOMAIN buffer[c] = 1 .. Len(buffer[c])
    BY <2>1, LenProperties
  <2>3. /\ DOMAIN P = 1 .. Len(buffer[c]) + Len(wire[c])
        /\ \A j \in 1 .. Len(buffer[c]) + Len(wire[c]) : P[j] \in Piece
    BY <2>1
  <2>4. QED
    BY <2>1, <2>2, <2>3, Zenon
<1>2. /\ conn' = conn /\ sent' = sent /\ pieces' = pieces /\ over' = over /\ wire' = wire
      /\ reading' = reading
  BY DEF HandleLine, clientVars
<1>3. PICK i \in 1 .. a :
           /\ IsNewline(c, buffer[c][i]) /\ \A j \in 1 .. i - 1 : ~IsNewline(c, buffer[c][j])
           /\ ProcessLine(c, SubSeq(buffer[c], 1, i))
           /\ buffer' = [buffer EXCEPT ![c] = Rest(c, i)]
  BY <1>1 DEF HandleLine
<1>4. i \in Nat /\ i >= 1 /\ i \in 1 .. a + w /\ i \in DOMAIN P
  <2>1. i \in Nat /\ i >= 1 /\ i \in 1 .. a + w
    OBVIOUS
  <2>2. QED
    BY <1>1, <2>1
<1>5. /\ handled[c] \in Nat /\ h \in DOMAIN sent[c] /\ i <= sent[c][h].len
      /\ \A m \in 1 .. i : P[m] = <<h, m>>
  <2>1. ASSUME NEW j \in 1 .. i - 1 PROVE ~IsNewline(c, P[j])
    <3>1. j \in 1 .. a
      BY <1>4
    <3>2. QED
      BY <1>1, <1>3, <3>1
  <2>2. QED
    BY <1>4, <2>1, NextLine
<1>6. h \in Nat
  BY <1>5
<1> HIDE DEF h
<1>7. sent[c][h].len = i
  <2>1. i \in 1 .. i
    BY <1>4
  <2>2. buffer[c][i] = <<h, i>>
    BY <1>1, <1>5, <2>1
  <2>3. QED
    BY <1>3, <2>2 DEF IsNewline
<1>8. SubSeq(buffer[c], 1, i) = [m \in 1 .. sent[c][h].len |-> <<h, m>>]
  <2>1. ASSUME NEW m \in 1 .. i PROVE buffer[c][m] = <<h, m>> /\ buffer[c][m] \in Piece
    <3>1. m \in 1 .. a /\ m \in Nat
      BY <1>4
    <3>2. buffer[c][m] = <<h, m>>
      BY <1>1, <1>5, <3>1
    <3>3. QED
      BY <1>6, <3>1, <3>2 DEF Piece
  <2>2. /\ SubSeq(buffer[c], 1, i) \in Seq(Piece) /\ Len(SubSeq(buffer[c], 1, i)) = i
        /\ \A m \in 1 .. i : SubSeq(buffer[c], 1, i)[m] = buffer[c][m]
    <3>1. 1 \in Int /\ i \in Int /\ i - 1 + 1 = i /\ 1 <= i /\ \A m \in 1 .. i : 1 + m - 1 = m
      BY <1>4
    <3>2. \A m \in 1 .. i : buffer[c][m] \in Piece
      BY <2>1
    <3>3. QED
      BY <3>1, <3>2, SubSeqProperties
  <2>3. SubSeq(buffer[c], 1, i) \in [1 .. i -> Piece]
    BY <2>2, LenProperties
  <2>4. QED
    BY <1>7, <2>1, <2>2, <2>3
<1>9. handled' = [handled EXCEPT ![c] = @ + 1] /\ garbled' = garbled
  <2>1. SubSeq(buffer[c], 1, i)[1][1] = h
    BY <1>4, <1>7, <1>8
  <2>2. QED
    BY <1>3, <1>8, <2>1 DEF ProcessLine
<1>10. handled'[c] = h /\ handled' \in [Clients -> Nat] /\ \A d \in Clients \ {c} : handled'[d] = handled[d]
  BY <1>5, <1>9 DEF IInv, InputTypes, h
<1>11. /\ Rest(c, i) \in Seq(Piece) /\ Len(Rest(c, i)) = a - i
       /\ \A j \in 1 .. a - i : Rest(c, i)[j] = buffer[c][j + i]
  <2>1. i + 1 \in Int /\ a \in Int /\ \A m \in i + 1 .. a : m \in 1 .. a
    BY <1>1, <1>4
  <2>2. \A m \in i + 1 .. a : buffer[c][m] \in Piece
    BY <1>1, <2>1, ElementOfSeq
  <2>3. /\ SubSeq(buffer[c], i + 1, a) \in Seq(Piece)
        /\ Len(SubSeq(buffer[c], i + 1, a)) = IF i + 1 <= a THEN a - (i + 1) + 1 ELSE 0
        /\ \A j \in 1 .. a - (i + 1) + 1 : SubSeq(buffer[c], i + 1, a)[j] = buffer[c][(i + 1) + j - 1]
    BY <2>1, <2>2, SubSeqProperties
  <2>4. /\ a - (i + 1) + 1 = a - i /\ (~(i + 1 <= a) => a - i = 0)
        /\ \A j \in 1 .. a - i : (i + 1) + j - 1 = j + i
    BY <1>1, <1>4
  <2>5. QED
    BY <1>1, <2>3, <2>4 DEF Rest
<1>12. /\ buffer'[c] = Rest(c, i) /\ buffer' \in [Clients -> Seq(Piece)]
       /\ \A d \in Clients \ {c} : buffer'[d] = buffer[d]
  BY <1>3, <1>11 DEF IInv, InputTypes
<1>13. InputTypes'
  <2>1. ASSUME NEW d \in Clients, conn'[d] # "open" PROVE buffer'[d] = <<>>
    <3>1. buffer[d] = <<>>
      BY <1>2, <2>1 DEF IInv, InputTypes
    <3>2. d # c
      <4>1. buffer[c] # <<>>
        BY <1>1, <1>4, EmptySeq
      <4>2. QED
        BY <3>1, <4>1
    <3>3. QED
      BY <1>12, <3>1, <3>2
  <2>2. QED
    BY <1>2, <1>10, <1>12, <2>1 DEF IInv, InputTypes
\* The next pieces keep their places, i nearer to the front.
<1>14. PICK l \in Nat : /\ i + l = a + w /\ Len(Pending(c)') = l /\ DOMAIN (Pending(c)') = 1 .. l
                       /\ \A j \in 1 .. l : Pending(c)'[j] = P[j + i]
  <2>1. Pending(c)' = Rest(c, i) \o wire[c]
    BY <1>2, <1>12 DEF Pending
  <2>2. PICK l \in Nat : l = (a - i) + w /\ i + l = a + w
    <3>1. (a - i) + w \in Nat /\ i + ((a - i) + w) = a + w
      BY <1>4
    <3>2. QED
      BY <3>1
  <2>3. /\ Rest(c, i) \o wire[c] \in Seq(Piece) /\ Len(Rest(c, i) \o wire[c]) = l
        /\ \A j \in 1 .. l : (Rest(c, i) \o wire[c])[j]
                              = IF j <= a - i THEN Rest(c, i)[j] ELSE wire[c][j - (a - i)]
    <3>1. \A s, t \in Seq(Piece) :
            /\ s \o t \in Seq(Piece) /\ Len(s \o t) = Len(s) + Len(t)
            /\ \A j \in 1 .. Len(s) + Len(t) : (s \o t)[j] = IF j <= Len(s) THEN s[j] ELSE t[j - Len(s)]
      BY ConcatProperties
    <3>2. Len(Rest(c, i)) = a - i /\ Len(wire[c]) = w
      BY <1>1, <1>11
    <3>3. Rest(c, i) \in Seq(Piece) /\ wire[c] \in Seq(Piece)
      BY <1>1, <1>11
    <3>4. /\ Rest(c, i) \o wire[c] \in Seq(Piece)
          /\ Len(Rest(c, i) \o wire[c]) = Len(Rest(c, i)) + Len(wire[c])
          /\ \A j \in 1 .. Len(Rest(c, i)) + Len(wire[c]) :
               (Rest(c, i) \o wire[c])[j]
                 = IF j <= Len(Rest(c, i)) THEN Rest(c, i)[j] ELSE wire[c][j - Len(Rest(c, i))]
      BY <3>1, <3>3, Zenon
    <3>5. Len(Rest(c, i)) + Len(wire[c]) = l
      BY <2>2, <3>2
    <3>6. QED
      BY <3>2, <3>4, <3>5
  <2>4. \A j \in 1 .. a + w : P[j] = IF j <= a THEN buffer[c][j] ELSE wire[c][j - a]
    BY <1>1, ConcatProperties DEF Pending
  <2>5. ASSUME NEW j \in 1 .. l PROVE (Rest(c, i) \o wire[c])[j] = P[j + i]
    <3>1. j + i \in 1 .. a + w
      BY <1>4, <2>2
    <3>2. CASE j <= a - i
      <4>1. j \in 1 .. a - i /\ j + i <= a
        BY <1>4, <3>2
      <4>2. QED
        BY <1>11, <2>3, <2>4, <3>1, <4>1
    <3>3. CASE ~(j <= a - i)
      <4>1. ~(j + i <= a) /\ j - (a - i) = (j + i) - a
        BY <1>4, <3>3
      <4>2. QED
        BY <2>3, <2>4, <3>1, <3>3, <4>1
    <3>4. QED
      BY <3>2, <3>3
  <2>6. DOMAIN (Rest(c, i) \o wire[c]) = 1 .. l
    BY <2>3, LenProperties
  <2>7. QED
    BY <2>1, <2>2, <2>3, <2>5, <2>6
<1>15. Gapless(c) /\ RunInv(c)
  BY DEF IInv, ClientInv
<1>16. P[i] = <<h, i>> /\ Behind(c, <<h, i>>) = <<h + 1, 1>>
  BY <1>4, <1>5, <1>7 DEF Behind, IsNewline
\* What is due is due at the same piece.
<1>17. ASSUME NEW j \in 1 .. l + 1 PROVE Due(c, j)' = Due(c, j + i)
  <2>1. j + i # 1 /\ (j + i) - 1 = (j - 1) + i /\ j \in Nat
    BY <1>4
  <2>2. CASE j = 1
    <3>1. Due(c, j)' = <<h + 1, 1>>
      BY <1>10, <2>2 DEF Due
    <3>2. (j + i) - 1 = i
      BY <1>4, <2>2
    <3>3. Due(c, j + i) = Behind(c, <<h, i>>)
      BY <1>16, <2>1, <3>2 DEF Due
    <3>4. QED
      BY <1>16, <3>1, <3>3
  <2>3. CASE j # 1
    <3>1. j - 1 \in 1 .. l
      BY <2>3
    <3>2. Pending(c)'[j - 1] = P[(j - 1) + i]
      BY <1>14, <3>1
    <3>3. PICK p \in Piece : p = P[(j - 1) + i]
      <4>1. (j - 1) + i \in 1 .. a + w
        BY <1>4, <1>14, <3>1
      <4>2. QED
        BY <1>1, <4>1
    <3>4. Due(c, j)' = Behind(c, p)' /\ Due(c, j + i) = Behind(c, p)
      BY <2>1, <2>3, <3>2, <3>3 DEF Due
    <3>5. QED
      BY <1>2, <3>4 DEF Behind, IsNewline
  <2>4. QED
    BY <2>2, <2>3
<1>18. Gapless(c)'
  <2>1. ASSUME NEW j \in 1 .. l PROVE (Pending(c)[j] = Due(c, j) /\ IsSent(c, Pending(c)[j]))'
    <3>1. j + i \in DOMAIN P /\ j \in 1 .. l + 1
      <4>1. j + i \in 1 .. i + l /\ j \in 1 .. l + 1
        BY <1>4
      <4>2. QED
        BY <1>1, <1>14, <4>1
    <3>2. P[j + i] = Due(c, j + i) /\ IsSent(c, P[j + i])
      BY <1>15, <3>1 DEF Gapless
    <3>3. Pending(c)'[j] = P[j + i] /\ Due(c, j)' = Due(c, j + i)
      BY <1>14, <1>17, <3>1
    <3>4. IsSent(c, Pending(c)[j])'
      BY <1>2, <3>2, <3>3 DEF IsSent
    <3>5. QED
      BY <3>2, <3>3, <3>4
  <2>2. ASSUME ~over'[c] PROVE Due(c, Len(Pending(c)) + 1)' = Upcoming(c)'
    <3>1. Due(c, a + w + 1) = Upcoming(c)
      BY <1>2, <1>1, <1>15, <2>2 DEF Gapless
    <3>2. l + 1 \in 1 .. l + 1 /\ l + 1 + i = a + w + 1
      BY <1>4, <1>14
    <3>3. Due(c, l + 1)' = Upcoming(c)
      BY <1>17, <3>1, <3>2
    <3>4. Due(c, Len(Pending(c)) + 1)' = Due(c, l + 1)'
      BY <1>14 DEF Due
    <3>5. QED
      BY <1>2, <3>3, <3>4 DEF Upcoming, Complete
  <2>3. QED
    BY <1>14, <2>1, <2>2 DEF Gapless
<1>19. RunInv(c)'
  <2>1. ASSUME NEW j \in 1 .. l
        PROVE  LET p == Pending(c)'[j]
               IN  /\ p[1] \in DOMAIN sent'[c] /\ p[2] \in 1 .. sent'[c][p[1]].len /\ p[2] <= j
                   /\ \A m \in 0 .. p[2] - 1 : Pending(c)'[j - m] = <<p[1], p[2] - m>>
    <3>1. PICK g \in 1 .. a + w : g = j + i
      <4>1. j + i \in 1 .. i + l
        BY <1>4
      <4>2. QED
        BY <1>14, <4>1
    <3>2. PICK n \in Nat, k \in Nat : P[g] = <<n, k>> /\ Pending(c)'[j] = <<n, k>>
      <4>1. P[g] \in Piece /\ Pending(c)'[j] = P[g]
        BY <1>1, <1>14, <3>1
      <4>2. QED
        BY <4>1 DEF Piece
    <3>3. /\ n \in DOMAIN sent[c] /\ k \in 1 .. sent[c][n].len
          /\ \A m \in 0 .. k - 1 : P[g - m] = <<n, k - m>>
      <4>1. g \in DOMAIN P /\ P[g][1] = n /\ P[g][2] = k
        <5>1. g \in DOMAIN P
          BY <1>1
        <5>2. P[g][1] = n /\ P[g][2] = k
          BY <3>2
        <5>3. QED
          BY <5>1, <5>2
      <4>2. QED
        BY <1>15, <4>1 DEF RunInv
    <3>4. ASSUME j < k PROVE FALSE
      <4>1. j \in 0 .. k - 1 /\ j - 1 \in 0 .. k - 1 /\ g - j = i /\ g - (j - 1) = i + 1
        BY <1>4, <3>1, <3>2, <3>4
      <4>2. P[i + 1] = <<n, k - (j - 1)>>
        BY <3>3, <4>1
      <4>3. P[i] = <<n, k - j>>
        BY <3>3, <4>1
      <4>4. i + 1 \in DOMAIN P /\ i + 1 # 1 /\ (i + 1) - 1 = i
        <5>1. i + 1 \in 1 .. a + w /\ i + 1 # 1 /\ (i + 1) - 1 = i
          BY <1>4, <3>1
        <5>2. QED
          BY <1>1, <5>1
      <4>5. P[i + 1] = Behind(c, P[i])
        BY <1>15, <4>4 DEF Gapless, Due
      <4>6. n = h /\ n = h + 1
        BY <1>16, <4>2, <4>3, <4>5
      <4>7. QED
        BY <1>6, <4>6
    <3>5. ASSUME NEW m \in 0 .. k - 1 PROVE Pending(c)'[j - m] = <<n, k - m>>
      <4>1. j - m \in 1 .. l /\ (j - m) + i = g - m
        BY <1>4, <3>1, <3>2, <3>4
      <4>2. QED
        BY <1>14, <3>3, <4>1
    <3>6. k <= j
      BY <3>2, <3>4
    <3>7. QED
      BY <1>2, <3>2, <3>3, <3>5, <3>6
  <2>2. QED
    BY <1>14, <2>1 DEF RunInv
<1>20. ASSUME NEW d \in Clients, d # c PROVE ClientInv(d)'
  <2>1. PartOf(d)' = PartOf(d) /\ conn'[d] = conn[d]
    BY <1>2, <1>10, <1>12, <1>20 DEF PartOf, Pending
  <2>2. QED
    BY <2>1, SamePart DEF IInv
<1>21. QED
  BY <1>9, <1>13, <1>18, <1>19, <1>20 DEF IInv, ClientInv

\* Who is read has been accepted.
LEMMA ReadIsOpen ==
  ASSUME IInv, NEW c \in Clients, LineReady(c) \/ (reading = c /\ TooLong(c))
  PROVE  conn[c] = "open"
<1>1. buffer[c] # <<>>
  <2>1. buffer[c] \in Seq(Piece) /\ Limit \in Nat
    BY DEF IInv, InputTypes
  <2>2. buffer[c] = <<>> => DOMAIN buffer[c] = {} /\ Len(buffer[c]) = 0
    <3>1. Len(<<>>) = 0 /\ <<>> \in Seq(Piece)
      BY EmptySeq
    <3>2. DOMAIN <<>> = 1 .. 0
      BY <3>1, LenProperties
    <3>3. QED
      BY <3>1, <3>2
  <2>3. QED
    BY <2>1, <2>2 DEF LineReady, TooLong
<1>2. QED
  BY <1>1 DEF IInv, InputTypes

----------------------------------------------------------------------------
(***************************************************************************)
(* The properties of every behaviour.                                      *)
(***************************************************************************)
LEMMA InitIInv == Init => IInv
<1>1. SUFFICES ASSUME Init PROVE IInv
  OBVIOUS
<1>2. InputTypes
  BY <1>1, EmptySeq DEF Init, InputTypes
<1>3. QED
  BY <1>1, <1>2 DEF Init, IInv, ClientInv

LEMMA StepIInv == IInv /\ [Next]_vars => IInv'
<1>1. SUFFICES ASSUME IInv, [Next]_vars PROVE IInv'
  OBVIOUS
<1>2. CASE Accept
  BY <1>1, <1>2, AcceptKeeps
<1>3. ASSUME NEW c \in Clients, Connect(c) PROVE IInv'
  BY <1>1, <1>3, ConnectKeeps
<1>4. ASSUME NEW c \in Clients, Send(c) PROVE IInv'
  BY <1>1, <1>4, SendKeeps
<1>5. ASSUME NEW c \in Clients, HangUp(c) PROVE IInv'
  BY <1>1, <1>5, HangUpKeeps
<1>6. ASSUME NEW c \in Clients, Read(c) PROVE IInv'
  BY <1>1, <1>6, ReadKeeps
<1>7. ASSUME NEW c \in Clients, HandleLine(c) PROVE IInv'
  <2>1. conn[c] = "open"
    BY <1>1, <1>7, ReadIsOpen DEF HandleLine
  <2>2. QED
    BY <1>1, <1>7, <2>1, HandleLineKeeps
<1>8. ASSUME NEW c \in Clients, CloseTooLong(c) \/ ReadEnd(c) PROVE IInv'
  BY <1>1, <1>8, CloseKeeps DEF CloseTooLong, ReadEnd
<1>9. ASSUME NEW c \in Clients, ReadNothing(c) PROVE IInv'
  BY <1>1, <1>9, ReadNothingKeeps DEF ReadNothing
<1>10. CASE UNCHANGED vars
  <2>1. UNCHANGED <<conn, clientVars, wire, buffer, guestVars>> /\ reading' \in {reading, Nobody}
    BY <1>10 DEF vars, clientVars, guestVars
  <2>2. QED
    BY <1>1, <2>1, ReadNothingKeeps
<1>11. QED
  BY <1>1, <1>2, <1>3, <1>4, <1>5, <1>6, <1>7, <1>8, <1>9, <1>10 DEF Next, Handler

\* What the clients have sent and the server has not handled is a run of whole lines
\* and the beginning of one, at every cut of TCP (client_read).
THEOREM Invariant == Spec => []IInv
BY InitIInv, StepIInv, PTL DEF Spec

\* Lines are handled whole, in order and once each, and nothing is lost between the
\* last one handled and what the client sends next, for any number and length of
\* lines and any number of bytes that a read takes (client_read, accept).
THEOREM LinesAlwaysWhole == Spec => []LinesHandledWhole
<1>1. IInv => LinesHandledWhole
  BY DEF IInv, ClientInv, LinesHandledWhole
<1>2. QED
  BY <1>1, Invariant, PTL

\* In a buffer that is too long, no newline ends the next line, or a NUL is in it.
LEMMA TooLongIsOneLine ==
  ASSUME IInv, NEW c \in Clients, conn[c] # "none", TooLong(c)
  PROVE  /\ handled[c] < Len(sent[c]) /\ Len(Pending(c)) > Limit
         /\ sent[c][handled[c] + 1].len > Limit \/ sent[c][handled[c] + 1].nul # 0
<1> DEFINE Newline(j) == IsNewline(c, Pending(c)[j])
           next == sent[c][handled[c] + 1]
<1>1. PICK a \in Nat : a = Len(buffer[c]) /\ DOMAIN buffer[c] = 1 .. a /\ a > Limit
  BY PendingFacts, LenProperties DEF IInv, TooLong
<1>2. a \in 1 .. a
  BY <1>1
<1>3. PICK w \in Nat : w = Len(wire[c]) /\ Len(Pending(c)) = a + w /\ DOMAIN Pending(c) = 1 .. a + w
  BY <1>1, PendingFacts DEF IInv
<1>4. ASSUME NEW j \in 1 .. a PROVE j \in DOMAIN Pending(c) /\ Pending(c)[j] = buffer[c][j]
  <2>1. j \in 1 .. a + w
    BY <1>3
  <2>2. Pending(c)[j] = buffer[c][j]
    BY <1>1, PendingFacts DEF IInv
  <2>3. QED
    BY <1>3, <2>1, <2>2
<1>5. Len(Pending(c)) > Limit
  <2>1. Limit \in Nat
    OBVIOUS
  <2>2. \A x \in Nat, y \in Nat, l \in Nat : x > l => x + y > l
    OBVIOUS
  <2>3. a + w > Limit
    BY <1>1, <2>1, <2>2
  <2>4. QED
    BY <1>3, <2>3
<1>6. ASSUME NEW i \in 1 .. a, \A j \in 1 .. i - 1 : ~Newline(j)
      PROVE  /\ handled[c] \in Nat /\ handled[c] + 1 \in DOMAIN sent[c] /\ i <= next.len
             /\ \A m \in 1 .. i : Pending(c)[m] = <<handled[c] + 1, m>>
             /\ Len(sent[c]) \in Nat /\ DOMAIN sent[c] = 1 .. Len(sent[c]) /\ next.len \in Nat
  <2>1. i \in DOMAIN Pending(c)
    BY <1>4
  <2>2. /\ handled[c] \in Nat /\ handled[c] + 1 \in DOMAIN sent[c] /\ i <= next.len
        /\ \A m \in 1 .. i : Pending(c)[m] = <<handled[c] + 1, m>>
    BY <1>6, <2>1, NextLine
  <2>3. QED
    BY <2>2, SentFacts DEF IInv
<1>7. CASE \A j \in 1 .. a : ~Newline(j)
  <2>1. \A j \in 1 .. a - 1 : j \in 1 .. a
    BY <1>1
  <2>2. /\ handled[c] \in Nat /\ handled[c] + 1 \in DOMAIN sent[c] /\ a <= next.len
        /\ Pending(c)[a] = <<handled[c] + 1, a>>
        /\ Len(sent[c]) \in Nat /\ DOMAIN sent[c] = 1 .. Len(sent[c]) /\ next.len \in Nat
    BY <1>2, <1>6, <1>7, <2>1
  <2>3. a # next.len
    BY <1>2, <1>7, <2>2 DEF IsNewline
  <2>4. QED
    BY <1>1, <1>5, <2>2, <2>3
<1>8. CASE \E j \in 1 .. a : Newline(j)
  <2>1. PICK i \in 1 .. a : Newline(i) /\ \A j \in 1 .. i - 1 : ~Newline(j)
    <3> DEFINE S == { n \in Nat : \A j \in 1 .. n : j <= a => ~Newline(j) }
    <3>1. SUFFICES ASSUME \A i \in 1 .. a : Newline(i) => \E j \in 1 .. i - 1 : Newline(j) PROVE FALSE
      OBVIOUS
    <3>2. 0 \in S
      OBVIOUS
    <3>3. ASSUME NEW n \in Nat, n \in S PROVE n + 1 \in S
      <4> HIDE DEF Newline
      <4>1. ASSUME n + 1 <= a PROVE ~Newline(n + 1)
        <5>1. n + 1 \in 1 .. a /\ \A j \in 1 .. (n + 1) - 1 : ~Newline(j)
          BY <1>1, <3>3, <4>1
        <5>2. QED
          BY <3>1, <5>1
      <4>2. \A j \in 1 .. n + 1 : j = n + 1 \/ j \in 1 .. n
        OBVIOUS
      <4>3. QED
        BY <3>3, <4>1, <4>2
    <3> HIDE DEF S
    <3>4. a \in S
      BY <3>2, <3>3, Induction
    <3>5. QED
      BY <1>1, <1>8, <3>4 DEF S
  <2>2. PICK j \in 1 .. i : IsNul(c, buffer[c][j])
    <3>1. i \in DOMAIN buffer[c] /\ IsNewline(c, buffer[c][i])
      BY <1>1, <1>4, <2>1
    <3>2. QED
      BY <3>1 DEF TooLong, LineReady
  <2>3. j \in 1 .. a /\ buffer[c][j] = Pending(c)[j]
    BY <1>1, <1>4
  <2>4. /\ handled[c] \in Nat /\ handled[c] + 1 \in DOMAIN sent[c]
        /\ Pending(c)[j] = <<handled[c] + 1, j>>
        /\ Len(sent[c]) \in Nat /\ DOMAIN sent[c] = 1 .. Len(sent[c])
    BY <1>6, <2>1
  <2>5. next.nul # 0
    BY <2>2, <2>3, <2>4 DEF IsNul
  <2>6. QED
    BY <1>5, <2>4, <2>5
<1>9. QED
  BY <1>7, <1>8

\* A client that keeps its connection open loses it only for a line that is longer
\* than the limit, or that holds a NUL with more than the limit behind it unhandled,
\* for every limit and however many lines come with one read.
THEOREM ClosedOnlyForCause == Spec => ClosedForCause
<1> DEFINE Cause(c) ==
             /\ handled[c] < Len(sent[c]) /\ Len(Pending(c)) > Limit
             /\ LET next == sent[c][handled[c] + 1] IN next.len > Limit \/ next.nul # 0
           Closed == \A c \in Clients : conn[c] = "open" /\ conn'[c] # "open" /\ ~over[c] => Cause(c)
<1>1. IInv /\ [Next]_vars => [Closed]_vars
  <2>1. SUFFICES ASSUME IInv, Next, NEW c \in Clients, conn[c] = "open", conn'[c] # "open", ~over[c]
                 PROVE  Cause(c)
    OBVIOUS
  <2>2. conn \in [Clients -> {"none", "waiting", "open"}]
    BY <2>1 DEF IInv, InputTypes
  <2>3. ~Accept
    BY <2>1, <2>2 DEF Accept
  <2>4. ASSUME NEW d \in Clients,
               Connect(d) \/ Send(d) \/ HangUp(d) \/ Read(d) \/ HandleLine(d) \/ ReadNothing(d)
        PROVE  FALSE
    <3>1. ~Connect(d)
      BY <2>1, <2>2 DEF Connect
    <3>2. conn' = conn
      BY <2>4, <3>1 DEF Send, HangUp, Read, HandleLine, ReadNothing
    <3>3. QED
      BY <2>1, <3>2
  <2>5. ASSUME NEW d \in Clients, ReadEnd(d) PROVE FALSE
    BY <2>1, <2>2, <2>5 DEF ReadEnd, Close
  <2>6. ASSUME NEW d \in Clients, CloseTooLong(d) PROVE Cause(c)
    <3>1. d = c /\ TooLong(c)
      BY <2>1, <2>2, <2>6 DEF CloseTooLong, Close
    <3>2. QED
      BY <2>1, <3>1, TooLongIsOneLine
  <2>7. QED
    BY <2>1, <2>3, <2>4, <2>5, <2>6 DEF Next, Handler
<1>2. Spec => [][Closed]_vars
  BY <1>1, Invariant, PTL DEF Spec
<1>3. QED
  BY <1>2 DEF ClosedForCause

----------------------------------------------------------------------------
(**************************************************************************)
(* Commands: batches are taken apart, and each command leaves down what    *)
(* KeysAsPressed says.                                                     *)
(**************************************************************************)
\* The recursion over the nesting of batches, and the commands that are left of one.
UnrollDef(g, n) ==
  g = [d \in 0 .. n |->
         [c \in Commands |->
           IF c.type # "batch" THEN <<c>>
           ELSE IF d = 0 THEN <<>>
           ELSE FlattenSeq([i \in DOMAIN c.items |-> g[d - 1][c.items[i]]])]]
Unroll == CHOOSE g : UnrollDef(g, Depth)

LEMMA UnrolledIs == Unrolled = Unroll[Depth]
BY DEF Unrolled, Unroll, UnrollDef

LEMMA UnrollDefined == UnrollDef(Unroll, Depth)
<1> DEFINE R(f) == [c \in Commands |->
                      IF c.type # "batch" THEN <<c>>
                      ELSE FlattenSeq([i \in DOMAIN c.items |-> f[c.items[i]]])]
           B(g, n) == [d \in 0 .. n |->
                         [c \in Commands |->
                           IF c.type # "batch" THEN <<c>>
                           ELSE IF d = 0 THEN <<>>
                           ELSE FlattenSeq([i \in DOMAIN c.items |-> g[d - 1][c.items[i]]])]]
           S == {n \in Nat : \E g : UnrollDef(g, n)}
<1>1. 0 \in S
  <2> DEFINE g == B(<<>>, 0)
  <2>1. g = B(g, 0)
    OBVIOUS
  <2>2. UnrollDef(g, 0)
    BY <2>1, Zenon DEF UnrollDef
  <2>3. \E h : UnrollDef(h, 0)
    <3> HIDE DEF g
    <3>1. QED
      BY <2>2
  <2>4. QED
    BY <2>3
<1>2. ASSUME NEW n \in Nat, n \in S PROVE n + 1 \in S
  <2>1. PICK g : UnrollDef(g, n)
    BY <1>2
  <2> DEFINE h == B(g, n + 1)
             k == B(h, n + 1)
  <2>2. ASSUME NEW d \in 0 .. n PROVE h[d] = g[d]
    <3> DEFINE e == B(g, n)
    <3>1. g = e
      BY <2>1, Zenon DEF UnrollDef
    <3>2. e[d] = h[d]
      OBVIOUS
    <3>3. QED
      BY <3>1, <3>2, Zenon
  <2>3. h = k
    <3>1. ASSUME NEW d \in 0 .. n + 1 PROVE h[d] = k[d]
      <4>1. CASE d = 0
        BY <4>1
      <4>2. CASE d # 0
        <5>1. d - 1 \in 0 .. n
          BY <4>2
        <5>2. h[d - 1] = g[d - 1]
          BY <2>2, <5>1
        <5>3. h[d] = R(g[d - 1])
          BY <4>2
        <5> HIDE DEF h
        <5>4. k[d] = R(h[d - 1])
          BY <4>2
        <5> HIDE DEF R, k
        <5>5. QED
          BY <5>2, <5>3, <5>4
      <4>3. QED
        BY <4>1, <4>2
    <3> DEFINE D == 0 .. n + 1
    <3>2. h = [d \in D |-> h[d]] /\ k = [d \in D |-> k[d]]
      OBVIOUS
    <3> HIDE DEF D, h, k
    <3>3. \A d \in D : h[d] = k[d]
      BY <3>1 DEF D
    <3>4. [d \in D |-> h[d]] = [d \in D |-> k[d]]
      BY <3>3, Zenon
    <3>5. QED
      BY <3>2, <3>4, Zenon
  <2>4. UnrollDef(h, n + 1)
    <3> HIDE DEF h
    <3>1. QED
      BY <2>3, Zenon DEF UnrollDef
  <2> HIDE DEF h, k
  <2>5. n + 1 \in Nat /\ \E f : UnrollDef(f, n + 1)
    BY <2>4
  <2>6. QED
    BY <2>5
<1>3. \E g : UnrollDef(g, Depth)
  <2>1. Nat \subseteq S
    <3> HIDE DEF S
    <3>1. QED
      BY <1>1, <1>2, Induction
  <2>2. QED
    BY <2>1
<1>4. QED
  BY <1>3 DEF Unroll

\* Batches are taken apart into single commands.
LEMMA UnrolledTyped == Unrolled \in [Commands -> Seq(Commands)]
<1> DEFINE B == [d \in 0 .. Depth |->
                   [c \in Commands |->
                     IF c.type # "batch" THEN <<c>>
                     ELSE IF d = 0 THEN <<>>
                     ELSE FlattenSeq([i \in DOMAIN c.items |-> Unroll[d - 1][c.items[i]]])]]
           S == {d \in Nat : d <= Depth => Unroll[d] \in [Commands -> Seq(Commands)]}
<1>1. Unroll = B
  BY UnrollDefined, Zenon DEF UnrollDef
<1>2. ASSUME NEW d \in 0 .. Depth
      PROVE  Unroll[d] = [c \in Commands |->
                     IF c.type # "batch" THEN <<c>>
                     ELSE IF d = 0 THEN <<>>
                     ELSE FlattenSeq([i \in DOMAIN c.items |-> Unroll[d - 1][c.items[i]]])]
  <2>1. B[d] = [c \in Commands |->
                     IF c.type # "batch" THEN <<c>>
                     ELSE IF d = 0 THEN <<>>
                     ELSE FlattenSeq([i \in DOMAIN c.items |-> Unroll[d - 1][c.items[i]]])]
    OBVIOUS
  <2>2. QED
    BY <1>1, <2>1, Zenon
<1> HIDE DEF B
<1>3. 0 \in S
  <2>1. 0 \in 0 .. Depth /\ \A c \in Commands : <<c>> \in Seq(Commands) /\ <<>> \in Seq(Commands)
    BY EmptySeq
  <2>2. Unroll[0] = [c \in Commands |-> IF c.type # "batch" THEN <<c>> ELSE <<>>]
    BY <1>2, <2>1
  <2>3. QED
    BY <2>1, <2>2
<1>4. ASSUME NEW n \in Nat, n \in S PROVE n + 1 \in S
  <2>1. SUFFICES ASSUME n + 1 <= Depth PROVE Unroll[n + 1] \in [Commands -> Seq(Commands)]
    OBVIOUS
  <2>2. Unroll[n] \in [Commands -> Seq(Commands)]
    BY <1>4, <2>1
  <2>3. Unroll[n + 1] = [c \in Commands |->
                     IF c.type # "batch" THEN <<c>>
                     ELSE FlattenSeq([i \in DOMAIN c.items |-> Unroll[n][c.items[i]]])]
    <3>1. n + 1 \in 0 .. Depth /\ n + 1 # 0 /\ (n + 1) - 1 = n
      BY <2>1
    <3>2. Unroll[n + 1] = [c \in Commands |->
                     IF c.type # "batch" THEN <<c>>
                     ELSE IF n + 1 = 0 THEN <<>>
                     ELSE FlattenSeq([i \in DOMAIN c.items |-> Unroll[(n + 1) - 1][c.items[i]]])]
      BY <1>2, <3>1, Zenon
    <3>3. QED
      BY <3>1, <3>2
  <2>4. ASSUME NEW c \in Commands, c.type = "batch"
        PROVE  FlattenSeq([i \in DOMAIN c.items |-> Unroll[n][c.items[i]]]) \in Seq(Commands)
    <3>1. c.items \in Seq(Commands)
      BY <2>4, CommandsAssumption
    <3>2. Mapped(Unroll[n], c.items) \in Seq(Seq(Commands))
      BY <2>2, <3>1, MappedTyped
    <3>3. QED
      BY <3>2, FlattenTyped DEF Mapped
  <2>5. \A c \in Commands : <<c>> \in Seq(Commands)
    OBVIOUS
  <2>6. QED
    BY <2>3, <2>4, <2>5
<1>5. Nat \subseteq S
  <2> HIDE DEF S
  <2>1. QED
    BY <1>3, <1>4, Induction
<1>6. QED
  BY <1>5, UnrolledIs

\* The events of commands.
NamedCodes == Codes \cup {c.code : c \in Commands}
InputEvents == [code : NamedCodes, down : BOOLEAN]

\* What the commands in done leave down, as KeysAsPressed says it.
Pressed(done) ==
  { k \in Codes : \E i \in DOMAIN done :
      /\ done[i].type \in {"key", "button"} /\ done[i].code = k /\ done[i].down
      /\ \A j \in i + 1 .. Len(done) : k \notin Names(done[j]) }

LEMMA PressedAppend ==
  ASSUME NEW done \in Seq(Commands), NEW c \in Commands
  PROVE  Pressed(Append(done, c)) =
           (Pressed(done) \ Names(c))
             \cup { k \in Codes : c.type \in {"key", "button"} /\ c.code = k /\ c.down }
<1> DEFINE t == Append(done, c)
           P(s, k, i) == /\ s[i].type \in {"key", "button"} /\ s[i].code = k /\ s[i].down
                         /\ \A j \in i + 1 .. Len(s) : k \notin Names(s[j])
<1>1. PICK n \in Nat : n = Len(done) /\ DOMAIN done = 1 .. n
  BY LenProperties
<1>2. /\ Len(t) = n + 1 /\ DOMAIN t = 1 .. n + 1 /\ t[n + 1] = c
      /\ \A i \in 1 .. n : t[i] = done[i]
  <2>1. t \in Seq(Commands) /\ Len(t) = n + 1 /\ t[n + 1] = c /\ \A i \in 1 .. n : t[i] = done[i]
    BY <1>1, AppendProperties
  <2> HIDE DEF t
  <2>2. QED
    BY <2>1, LenProperties
<1> HIDE DEF t
<1>3. ASSUME NEW k, NEW i \in 1 .. n PROVE P(t, k, i) <=> P(done, k, i) /\ k \notin Names(c)
  <2>1. \A j \in i + 1 .. n + 1 : j = n + 1 \/ j \in i + 1 .. n
    BY <1>1
  <2>2. n + 1 \in i + 1 .. n + 1 /\ \A j \in i + 1 .. n : j \in i + 1 .. n + 1 /\ j \in 1 .. n
    BY <1>1
  <2>3. (\A j \in i + 1 .. n + 1 : k \notin Names(t[j]))
          <=> (\A j \in i + 1 .. n : k \notin Names(done[j])) /\ k \notin Names(c)
    BY <1>2, <2>1, <2>2
  <2>4. QED
    BY <1>1, <1>2, <2>3
<1>4. ASSUME NEW k PROVE P(t, k, n + 1) <=> c.type \in {"key", "button"} /\ c.code = k /\ c.down
  <2>1. (n + 1) + 1 .. n + 1 = {}
    BY <1>1
  <2>2. QED
    BY <1>2, <2>1
<1>5. \A k : (\E i \in 1 .. n + 1 : P(t, k, i)) <=> (\E i \in 1 .. n : P(t, k, i)) \/ P(t, k, n + 1)
  <2>1. \A i : i \in 1 .. n + 1 <=> i \in 1 .. n \/ i = n + 1
    BY <1>1
  <2> HIDE DEF P
  <2>2. QED
    BY <2>1, Zenon
<1>6. \A k : (\E i \in 1 .. n + 1 : P(t, k, i))
               <=> \/ (\E i \in 1 .. n : P(done, k, i)) /\ k \notin Names(c)
                   \/ c.type \in {"key", "button"} /\ c.code = k /\ c.down
  <2> HIDE DEF P
  <2>1. QED
    BY <1>3, <1>4, <1>5, Zenon
<1>7. Pressed(t) = {k \in Codes : \E i \in 1 .. n + 1 : P(t, k, i)}
  BY <1>2, Zenon DEF Pressed
<1>8. Pressed(done) = {k \in Codes : \E i \in 1 .. n : P(done, k, i)}
  BY <1>1, Zenon DEF Pressed
<1> HIDE DEF P
<1>9. QED
  BY <1>6, <1>7, <1>8 DEF t

LEMMA SingleApplied ==
  ASSUME NEW done \in Seq(Commands), NEW c \in Commands
  PROVE  /\ Single(c) \in Seq(InputEvents)
         /\ Applied(Pressed(done), Single(c)) = Pressed(Append(done, c))
<1> DEFINE p == Pressed(done)
<1>1. p \subseteq Codes
  BY DEF Pressed
<1>2. Pressed(Append(done, c)) =
        (p \ Names(c)) \cup { k \in Codes : c.type \in {"key", "button"} /\ c.code = k /\ c.down }
  BY PressedAppend
<1> HIDE DEF p
<1>3. ASSUME NEW b \in BOOLEAN, NEW k \in NamedCodes
      PROVE  Event(k, b) \in InputEvents /\ <<Event(k, b)>> \in Seq(InputEvents)
  BY DEF InputEvents, Event
<1>5. c.code \in NamedCodes
  BY DEF NamedCodes
<1>6. CASE c.type \in {"key", "button"} /\ c.code \in Codes
  <2>1. Single(c) = <<Event(c.code, c.down)>> /\ c.down \in BOOLEAN
    BY <1>6, CommandsAssumption DEF Single
  <2>2. Single(c) \in Seq(InputEvents) /\ Applied(p, Single(c)) = Stroke(p, Event(c.code, c.down))
    BY <1>3, <1>5, <2>1, AppliedOne
  <2>3. Names(c) = {c.code}
    BY <1>6 DEF Names
  <2>4. QED
    BY <1>2, <1>6, <2>1, <2>2, <2>3 DEF Stroke, Event, p
<1>7. CASE c.type \in {"key", "button"} /\ c.code \notin Codes
  <2>1. Single(c) = <<>>
    BY <1>7 DEF Single
  <2>2. Single(c) \in Seq(InputEvents) /\ Applied(p, Single(c)) = p
    BY <2>1, AppliedEmpty, EmptySeq
  <2>3. Names(c) = {c.code}
    BY <1>7 DEF Names
  <2>4. QED
    BY <1>1, <1>2, <1>7, <2>2, <2>3 DEF p
<1>8. CASE c.type = "wheel"
  <2> DEFINE e == Event(c.code, TRUE)
             f == Event(c.code, FALSE)
  <2>1. Single(c) = <<e, f>>
    BY <1>8 DEF Single
  <2>2. e \in InputEvents /\ f \in InputEvents
    BY <1>3, <1>5
  <2>3. e.code = c.code /\ f.code = c.code /\ e.down /\ ~f.down
    BY DEF Event
  <2> HIDE DEF e, f
  <2>4. Applied(p, Single(c)) = Stroke(Stroke(p, e), f)
    BY <2>1, AppliedTwo
  <2>5. Single(c) \in Seq(InputEvents)
    BY <2>1, <2>2
  <2>6. Stroke(Stroke(p, e), f) = p \ {c.code}
    BY <2>3 DEF Stroke
  <2>7. Names(c) = {c.code}
    BY <1>8 DEF Names
  <2>8. QED
    BY <1>2, <1>8, <2>4, <2>5, <2>6, <2>7 DEF p
<1>9. CASE c.type = "combo"
  <2>1. Single(c) = Combo(c.codes) /\ c.codes \in Seq(Range(c.codes))
    BY <1>9, CommandsAssumption DEF Single
  <2>2. /\ Combo(c.codes) \in Seq([code : Codes, down : BOOLEAN])
        /\ Applied(p, Combo(c.codes)) = p \ (Range(c.codes) \cap Codes)
    BY <2>1, ComboApplied
  <2>3. Seq([code : Codes, down : BOOLEAN]) \subseteq Seq(InputEvents)
    <3>1. [code : Codes, down : BOOLEAN] \subseteq InputEvents
      BY DEF InputEvents, NamedCodes
    <3>2. QED
      BY <3>1, SeqMonotonic
  <2>4. Names(c) = Range(c.codes)
    BY <1>9 DEF Names
  <2>5. QED
    BY <1>1, <1>2, <1>9, <2>1, <2>2, <2>3, <2>4 DEF p
<1>10. CASE c.type \notin {"key", "button", "wheel", "combo"}
  <2>1. Single(c) = <<>> /\ Names(c) = {}
    BY <1>10 DEF Single, Names
  <2>2. Single(c) \in Seq(InputEvents) /\ Applied(p, Single(c)) = p
    BY <2>1, AppliedEmpty, EmptySeq
  <2>3. QED
    BY <1>2, <1>10, <2>1, <2>2 DEF p
<1>11. QED
  BY <1>6, <1>7, <1>8, <1>9, <1>10

\* One command after the other does what all of them do.
LEMMA EventsApplied ==
  ASSUME NEW done \in Seq(Commands), NEW c \in Commands
  PROVE  Applied(Pressed(done), Events(c)) = Pressed(done \o Unrolled[c])
<1> DEFINE f == [x \in Commands |-> Single(x)]
           Q == {u \in Seq(Commands) :
                   Applied(Pressed(done), FlattenSeq(Mapped(f, u))) = Pressed(done \o u)}
<1>1. \A x \in Commands : f[x] \in Seq(InputEvents) /\ f[x] = Single(x)
  <2>1. \A x \in Commands : Single(x) \in Seq(InputEvents)
    BY SingleApplied
  <2>2. QED
    BY <2>1
<1> HIDE DEF f
<1>3. <<>> \in Q
  <2>1. done \o <<>> = done /\ <<>> \in Seq(Commands)
    BY ConcatEmptySeq, EmptySeq
  <2>2. QED
    BY <2>1, MappedEmpty, FlattenEmpty, AppliedEmpty
<1>4. ASSUME NEW u \in Seq(Commands), NEW x \in Commands, u \in Q PROVE Append(u, x) \in Q
  <2> DEFINE e == FlattenSeq(Mapped(f, u))
  <2>1. Mapped(f, u) \in Seq(Seq(InputEvents)) /\ f[x] \in Seq(InputEvents)
    BY <1>1, MappedTyped
  <2>2. Mapped(f, Append(u, x)) = Append(Mapped(f, u), f[x])
    BY MappedAppend
  <2>3. FlattenSeq(Append(Mapped(f, u), f[x])) = e \o f[x] /\ e \in Seq(InputEvents)
    BY <2>1, FlattenAppend, FlattenTyped
  <2> HIDE DEF e
  <2>4. Applied(Pressed(done), e \o f[x]) = Applied(Applied(Pressed(done), e), f[x])
    BY <2>1, <2>3, AppliedConcat
  <2>5. Applied(Pressed(done), e) = Pressed(done \o u)
    BY <1>4 DEF e
  <2>6. done \o u \in Seq(Commands) /\ Append(u, x) \in Seq(Commands)
    BY ConcatProperties, AppendProperties
  <2>7. Applied(Pressed(done \o u), f[x]) = Pressed(Append(done \o u, x))
    BY <1>1, <2>6, SingleApplied
  <2>8. Append(done \o u, x) = done \o Append(u, x)
    <3>1. done \in Seq(Commands) /\ u \in Seq(Commands) /\ x \in Commands
      OBVIOUS
    <3>2. done \o Append(u, x) = Append(done \o u, x)
      BY <3>1, ConcatAppend
    <3>3. QED
      BY <3>2
  <2>9. QED
    BY <2>2, <2>3, <2>4, <2>5, <2>6, <2>7, <2>8
<1> HIDE DEF Q
<1>5. Unrolled[c] \in Seq(Commands)
  BY UnrolledTyped
<1>6. Unrolled[c] \in Q
  BY <1>3, <1>4, <1>5, SequenceInduction
<1>7. Events(c) = FlattenSeq(Mapped(f, Unrolled[c]))
  <2> DEFINE u == Unrolled[c]
  <2>1. \A i \in DOMAIN u : u[i] \in Commands
    BY <1>5, ElementOfSeq, LenProperties
  <2> HIDE DEF u
  <2>2. Mapped(f, u) = [i \in DOMAIN u |-> Single(u[i])]
    BY <1>1, <2>1 DEF Mapped
  <2>3. QED
    BY <2>2 DEF Events, u
<1>8. QED
  BY <1>6, <1>7 DEF Q

\* What has been handled, taken apart.
Done(cmds) == FlattenSeq([k \in DOMAIN cmds |-> Unrolled[cmds[k]]])

LEMMA DoneAppend ==
  ASSUME NEW cmds \in Seq(Commands), NEW c \in Commands
  PROVE  /\ Done(cmds) \in Seq(Commands)
         /\ Done(Append(cmds, c)) = Done(cmds) \o Unrolled[c]
<1>1. \A s : Done(s) = FlattenSeq(Mapped(Unrolled, s))
  BY DEF Done, Mapped
<1>2. (\A x \in Commands : Unrolled[x] \in Seq(Commands)) /\ Unrolled[c] \in Seq(Commands)
  BY UnrolledTyped
<1>3. Mapped(Unrolled, cmds) \in Seq(Seq(Commands))
  BY <1>2, MappedTyped
<1>4. Mapped(Unrolled, Append(cmds, c)) = Append(Mapped(Unrolled, cmds), Unrolled[c])
  BY MappedAppend
<1>5. FlattenSeq(Append(Mapped(Unrolled, cmds), Unrolled[c])) = FlattenSeq(Mapped(Unrolled, cmds)) \o Unrolled[c]
  BY <1>2, <1>3, FlattenAppend
<1>6. QED
  BY <1>1, <1>3, <1>4, <1>5, FlattenTyped

----------------------------------------------------------------------------
(**************************************************************************)
(* The keys of the guest.                                                  *)
(**************************************************************************)
\* Everything handled is a command, and the keys are as it left them.
KeysInv == IInv /\ log \in Seq(Commands) /\ KeysAsPressed

LEMMA KeysAsPressedIs == KeysAsPressed <=> held = Pressed(Done(log))
BY DEF KeysAsPressed, Pressed, Done

\* The number that ProcessLine finds in a text is that of a line that was sent.
LEMMA TextIsOfALine ==
  ASSUME IInv, NEW c \in Clients, conn[c] # "none", NEW i \in DOMAIN buffer[c]
  PROVE  sent[c][SubSeq(buffer[c], 1, i)[1][1]].do \in Commands
<1>1. PICK a \in Nat : a = Len(buffer[c]) /\ DOMAIN buffer[c] = 1 .. a /\ buffer[c] \in Seq(Piece)
  BY PendingFacts, LenProperties DEF IInv
<1>2. i \in 1 .. a
  BY <1>1
<1>3. SubSeq(buffer[c], 1, i)[1] = buffer[c][1]
  <2>1. 1 \in Int /\ i \in Int /\ 1 \in 1 .. i - 1 + 1 /\ 1 + 1 - 1 = 1 /\ \A m \in 1 .. i : m \in 1 .. a
    BY <1>2
  <2>2. \A m \in 1 .. i : buffer[c][m] \in Piece
    BY <1>1, <2>1, ElementOfSeq
  <2>3. QED
    BY <2>1, <2>2, SubSeqProperties
<1>4. 1 \in DOMAIN Pending(c) /\ Pending(c)[1] = buffer[c][1]
  <2>1. PICK w \in Nat : w = Len(wire[c])
    BY PendingFacts DEF IInv
  <2>2. DOMAIN Pending(c) = 1 .. a + w /\ \A j \in 1 .. a : Pending(c)[j] = buffer[c][j]
    BY <1>1, <2>1, PendingFacts DEF IInv
  <2>3. 1 \in 1 .. a + w /\ 1 \in 1 .. a
    BY <1>2
  <2>4. QED
    BY <2>2, <2>3
<1>5. buffer[c][1][1] \in DOMAIN sent[c]
  BY <1>4 DEF IInv, ClientInv, RunInv
<1>6. sent[c][buffer[c][1][1]] \in Lines
  <2>1. DOMAIN sent[c] = 1 .. Len(sent[c]) /\ \A n \in 1 .. Len(sent[c]) : sent[c][n] \in Lines
    BY SentFacts DEF IInv
  <2>2. QED
    BY <1>5, <2>1, Zenon
<1>7. QED
  BY <1>3, <1>6

LEMMA HandleLineKeepsKeys ==
  ASSUME KeysInv, NEW c \in Clients, HandleLine(c)
  PROVE  log' \in Seq(Commands) /\ KeysAsPressed'
<1>1. conn[c] # "none"
  BY ReadIsOpen DEF KeysInv, HandleLine
<1>2. PICK i \in DOMAIN buffer[c] : ProcessLine(c, SubSeq(buffer[c], 1, i))
  BY DEF HandleLine
<1>3. PICK x \in Commands : x = sent[c][SubSeq(buffer[c], 1, i)[1][1]].do
  BY <1>1, TextIsOfALine DEF KeysInv
<1>4. CASE held' = Applied(held, Events(x)) /\ log' = Append(log, x)
  <2>1. log \in Seq(Commands) /\ held = Pressed(Done(log))
    BY KeysAsPressedIs DEF KeysInv
  <2>2. Done(log) \in Seq(Commands) /\ Done(log') = Done(log) \o Unrolled[x]
    BY <1>4, <2>1, DoneAppend
  <2>3. held' = Pressed(Done(log'))
    BY <1>4, <2>1, <2>2, EventsApplied
  <2>4. KeysAsPressed'
    BY <2>3 DEF KeysAsPressed, Pressed, Done
  <2>5. log' \in Seq(Commands)
    BY <1>4, <2>1, AppendProperties
  <2>6. QED
    BY <2>4, <2>5
<1>5. CASE UNCHANGED <<held, log>>
  BY <1>5 DEF KeysInv, KeysAsPressed
<1>6. QED
  BY <1>2, <1>3, <1>4, <1>5 DEF ProcessLine

LEMMA InitKeysInv == Init => KeysInv
<1>1. SUFFICES ASSUME Init PROVE KeysInv
  OBVIOUS
<1>2. held = {} /\ log = <<>>
  BY <1>1 DEF Init
<1>3. Done(log) = <<>>
  BY <1>2, MappedEmpty, FlattenEmpty DEF Done, Mapped
<1>4. Pressed(<<>>) = {}
  BY DEF Pressed
<1>5. QED
  BY <1>1, <1>2, <1>3, <1>4, InitIInv, KeysAsPressedIs, EmptySeq DEF KeysInv

LEMMA StepKeysInv == KeysInv /\ [Next]_vars => KeysInv'
<1>1. SUFFICES ASSUME KeysInv, [Next]_vars PROVE KeysInv'
  OBVIOUS
<1>2. IInv'
  BY <1>1, StepIInv DEF KeysInv
<1>3. ASSUME UNCHANGED <<held, log>> PROVE KeysInv'
  BY <1>1, <1>2, <1>3 DEF KeysInv, KeysAsPressed
<1>4. CASE Accept
  BY <1>3, <1>4 DEF Accept, guestVars
<1>5. ASSUME NEW c \in Clients, Connect(c) \/ Send(c) \/ HangUp(c) PROVE KeysInv'
  BY <1>3, <1>5 DEF Connect, Send, HangUp, guestVars
<1>6. ASSUME NEW c \in Clients, Read(c) \/ CloseTooLong(c) \/ ReadNothing(c) \/ ReadEnd(c) PROVE KeysInv'
  BY <1>3, <1>6 DEF Read, CloseTooLong, ReadNothing, ReadEnd, Close, guestVars
<1>7. ASSUME NEW c \in Clients, HandleLine(c) PROVE KeysInv'
  BY <1>1, <1>2, <1>7, HandleLineKeepsKeys DEF KeysInv
<1>8. CASE UNCHANGED vars
  BY <1>3, <1>8 DEF vars, guestVars
<1>9. QED
  BY <1>1, <1>4, <1>5, <1>6, <1>7, <1>8 DEF Next, Handler

\* Exactly those keys and buttons are down in the guest that were pressed by name and
\* not named again since, for all commands, batches of any depth, combinations of any
\* keys and any order in which the lines of clients are handled
\* (process_dict, process_batch, process_combo).
THEOREM KeysAlwaysAsPressed == Spec => []KeysAsPressed
<1>1. KeysInv => KeysAsPressed
  BY DEF KeysInv
<1>2. QED
  BY <1>1, InitKeysInv, StepKeysInv, PTL DEF Spec
=============================================================================
