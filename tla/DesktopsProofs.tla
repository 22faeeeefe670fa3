--------------------------- MODULE DesktopsProofs ---------------------------
(***************************************************************************)
(* Theorems about Desktops, for any number of requests that are served at  *)
(* the same time, any ids, names, ports and built-in desktops, and any     *)
(* steps that may fail.  Most of them lead to the last ones: Desktops     *)
(* implements Registry, and a registry keeps its word.                     *)
(***************************************************************************)
EXTENDS Desktops, FiniteSetTheorems, WellFoundedInduction, TLAPS

----------------------------------------------------------------------------
(* The actions keep the types of the variables.                             *)

LEMMA LoadedIsTable == ASSUME NEW c \in Content PROVE Loaded(c) \in Table
BY DEF Loaded, EmptyTable, Table, Content

LEMMA NextPortIsNat == ASSUME DesktopsAssumption, NEW k \in Kinds PROVE NextPort(k) \subseteq Nat
<1>1. ASSUME NEW p \in Candidates(k) PROVE p \in Nat
  <2>1. First[k] \in Nat /\ Step[k] \in Nat BY DEF DesktopsAssumption
  <2>2. PICK n \in 0 .. (Cardinality(BuiltIn) + Cardinality(Ids)) : p = First[k] + Step[k] * n
    BY DEF Candidates
  <2>3. n \in Nat BY <2>2
  <2> QED BY <2>1, <2>2, <2>3
<1> QED BY <1>1 DEF NextPort

LEMMA WrittenIsContent ==
  ASSUME TypeOK, NEW t \in Threads, WriteThrough(t) \/ WriteCut(t)
  PROVE  file' \in Content /\ tmp' \in Content /\ handle' \in [Threads -> {"none", "tmp", "file", "gone"}]
BY DEF TypeOK, WriteThrough, WriteCut, Overwritten, Content

LEMMA NextMacIsNat == ASSUME DesktopsAssumption PROVE NextMac \in Nat
<1>1. IsFiniteSet(Present(mem)) BY FS_Subset DEF DesktopsAssumption, Present
<1>2. Cardinality(Present(mem)) \in Nat /\ Cardinality(BuiltIn) \in Nat
  BY <1>1, FS_CardinalityType DEF DesktopsAssumption
<1> QED BY <1>2 DEF NextMac

LEMMA InitTyped == ASSUME Init PROVE TypeOK
BY DEF Init, TypeOK, EmptyTable, Table, Content, NoRequest

LEMMA CreateTyped ==
  ASSUME TypeOK, DesktopsAssumption, NEW t \in Threads,
         \/ \E i \in Ids, n \in Names : CreateChecked(t, i, n)
         \/ CreateImage(t) \/ AllocatePorts(t) \/ Insert(t)
  PROVE  TypeOK'
<1>1. CASE \E i \in Ids, n \in Names : CreateChecked(t, i, n)
  <2>1. PICK i \in Ids, n \in Names : CreateChecked(t, i, n) BY <1>1
  <2>2. [name |-> n, port |-> [k \in Kinds |-> 0], mac |-> 0] \in Desktop BY DEF Desktop
  <2> QED BY <2>1, <2>2 DEF TypeOK, CreateChecked, Goto
<1>2. CASE CreateImage(t) BY <1>2 DEF TypeOK, CreateImage, Goto, history
<1>3. CASE AllocatePorts(t)
  <2>1. PICK s \in NextPort("spice"), i \in NextPort("input"), v \in NextPort("video") :
          req' = [req EXCEPT ![t].desktop =
            [@ EXCEPT !.port = [k \in Kinds |-> CASE k = "spice" -> s [] k = "input" -> i [] OTHER -> v],
                      !.mac  = NextMac]]
    BY <1>3 DEF AllocatePorts
  <2>2. s \in Nat /\ i \in Nat /\ v \in Nat BY NextPortIsNat DEF Kinds
  <2>3. NextMac \in Nat BY NextMacIsNat
  <2>4. PICK ports \in [Kinds -> Nat], m \in Nat :
          req' = [req EXCEPT ![t].desktop = [@ EXCEPT !.port = ports, !.mac = m]]
    <3> DEFINE ports == [k \in Kinds |-> CASE k = "spice" -> s [] k = "input" -> i [] OTHER -> v]
    <3>1. ports \in [Kinds -> Nat]
      <4>1. ASSUME NEW k \in Kinds
            PROVE  (CASE k = "spice" -> s [] k = "input" -> i [] OTHER -> v) \in Nat
        <5>1. CASE k = "spice" BY <2>2, <5>1
        <5>2. CASE k = "input" BY <2>2, <5>2
        <5>3. CASE k # "spice" /\ k # "input" BY <2>2, <5>3
        <5> QED BY <5>1, <5>2, <5>3
      <4> QED BY <4>1
    <3>2. req' = [req EXCEPT ![t].desktop = [@ EXCEPT !.port = ports, !.mac = NextMac]] BY <2>1
    <3> HIDE DEF ports
    <3> QED BY <2>3, <3>1, <3>2
  <2>5. pc[t] = "allocate" /\ req[t].desktop \in Desktop /\ req[t].op = "create" /\ req[t].id \in Ids
    BY <1>3 DEF TypeOK, AllocatePorts
  <2> DEFINE d == [req[t].desktop EXCEPT !.port = ports, !.mac = m]
  <2>6. d \in Desktop BY <2>5 DEF Desktop
  <2>7. req' = [req EXCEPT ![t] = [op |-> "create", id |-> req[t].id, desktop |-> d]]
    <3>1. req[t] \in [op : {"none", "create", "delete", "set", "iso"}, id : Ids \cup {Nobody},
                      desktop : Desktop \cup {NoDesktop}]
      BY DEF TypeOK
    <3>2. [req[t] EXCEPT !.desktop = d] = [op |-> "create", id |-> req[t].id, desktop |-> d]
      BY <2>5, <3>1
    <3>3. req' = [req EXCEPT ![t] = [req[t] EXCEPT !.desktop = d]] BY <2>4
    <3> QED BY <3>2, <3>3
  <2> HIDE DEF d
  <2>8. req'[t] = [op |-> "create", id |-> req[t].id, desktop |-> d]
          /\ \A u \in Threads \ {t} : req'[u] = req[u]
    BY <2>7 DEF TypeOK
  <2>9. req' \in [Threads -> [op : {"none", "create", "delete", "set", "iso"}, id : Ids \cup {Nobody},
                             desktop : Desktop \cup {NoDesktop}]]
    BY <2>5, <2>6, <2>7 DEF TypeOK
  <2>10. pc'[t] = "insert" /\ \A u \in Threads \ {t} : pc'[u] = pc[u]
    BY <1>3 DEF TypeOK, AllocatePorts, Goto
  <2>11. \A u \in Threads :
           /\ pc'[u] # "idle" => req'[u].id \in Ids
           /\ pc'[u] \in {"image", "allocate", "insert"}
                => req'[u].op = "create" /\ req'[u].desktop \in Desktop
    BY <2>5, <2>6, <2>8, <2>10 DEF TypeOK
  <2> QED BY <1>3, <2>9, <2>11 DEF TypeOK, AllocatePorts, Goto, history
<1>4. CASE Insert(t) BY <1>4 DEF TypeOK, Insert, Goto, Table
<1> QED BY <1>1, <1>2, <1>3, <1>4

LEMMA OtherTyped ==
  ASSUME TypeOK, NEW t \in Threads,
         \/ \E i \in Ids : DeletePopped(t, i) \/ SetSetting(t, i)
         \/ DeleteOutput(t) \/ Respond(t) \/ RespondError(t)
  PROVE  TypeOK'
<1>1. CASE \E i \in Ids : DeletePopped(t, i) BY <1>1 DEF TypeOK, DeletePopped, Goto, Table
<1>2. CASE \E i \in Ids : SetSetting(t, i) BY <1>2 DEF TypeOK, SetSetting, Goto, history
<1>3. CASE DeleteOutput(t) BY <1>3 DEF TypeOK, DeleteOutput, Goto, history
<1>4. CASE Respond(t) BY <1>4 DEF TypeOK, Respond, Forgotten, Goto, NoRequest, Content
<1>5. CASE RespondError(t) BY <1>5 DEF TypeOK, RespondError, Forgotten, Goto, NoRequest, Content
<1> QED BY <1>1, <1>2, <1>3, <1>4, <1>5

LEMMA SaveTyped == ASSUME TypeOK, NEW t \in Threads, SaveStep(t) PROVE TypeOK'
<1>1. CASE SaveDump(t)
  <2>1. alone' \in [Threads -> BOOLEAN] /\ overlapped' \in BOOLEAN
    BY <1>1 DEF TypeOK, SaveDump, BeginWriting
  <2> QED BY <1>1, <2>1 DEF TypeOK, SaveDump, Goto, Content
<1>2. CASE SaveOpen(t) BY <1>2 DEF TypeOK, SaveOpen, Goto, history, Content
<1>3. CASE SaveWrite(t)
  <2>1. file' \in Content /\ tmp' \in Content /\ handle' \in [Threads -> {"none", "tmp", "file", "gone"}]
    BY <1>3, WrittenIsContent DEF SaveWrite
  <2> QED BY <1>3, <2>1 DEF TypeOK, SaveWrite, Goto, history
<1>4. CASE SaveReplace(t)
  <2>1. file' \in Content /\ tmp' \in Content /\ handle' \in [Threads -> {"none", "tmp", "file", "gone"}]
    BY <1>4 DEF TypeOK, SaveReplace, Content
  <2> QED BY <1>4, <2>1 DEF TypeOK, SaveReplace, Goto, history
<1> QED BY <1>1, <1>2, <1>3, <1>4 DEF SaveStep

LEMMA ScriptTyped == ASSUME TypeOK, NEW t \in Threads, ScriptStep(t) PROVE TypeOK'
<1>1. CASE ScriptRead(t)
  <2>1. alone' \in [Threads -> BOOLEAN] /\ overlapped' \in BOOLEAN /\ buf' \in [Threads -> Content]
    BY <1>1 DEF TypeOK, ScriptRead, BeginWriting
  <2> QED BY <1>1, <2>1 DEF TypeOK, ScriptRead, Goto, Content
<1>2. CASE ScriptTruncate(t) BY <1>2 DEF TypeOK, ScriptTruncate, Goto, history, Content
<1>3. CASE ScriptWrite(t)
  <2>1. file' \in Content /\ tmp' \in Content /\ handle' \in [Threads -> {"none", "tmp", "file", "gone"}]
    BY <1>3, WrittenIsContent DEF ScriptWrite
  <2>2. cut' \in BOOLEAN BY <1>3 DEF TypeOK, ScriptWrite
  <2> QED BY <1>3, <2>1, <2>2 DEF TypeOK, ScriptWrite, Goto
<1> QED BY <1>1, <1>2, <1>3 DEF ScriptStep

LEMMA RestartTyped == ASSUME TypeOK, Restart PROVE TypeOK'
<1>1. mem' \in Table BY LoadedIsTable DEF TypeOK, Restart
<1> QED BY <1>1 DEF TypeOK, Restart, NoRequest, Content

LEMMA StepTyped == ASSUME TypeOK, DesktopsAssumption, [Next]_vars PROVE TypeOK'
<1>1. CASE UNCHANGED vars BY <1>1 DEF TypeOK, vars, history
<1>2. CASE Next BY <1>2, CreateTyped, OtherTyped, SaveTyped, ScriptTyped, RestartTyped DEF Next
<1> QED BY <1>1, <1>2

\* Every variable keeps its type; in particular a request in hand always has an id,
\* and a creation a desktop (create_desktop, _save_state, _load_state).
THEOREM TypeCorrect == Spec => []TypeOK
<1>1. Init => TypeOK BY InitTyped
<1>2. TypeOK /\ [Next]_vars => TypeOK' BY StepTyped, DesktopsAssumption
<1> QED BY <1>1, <1>2, PTL DEF Spec

----------------------------------------------------------------------------
(***************************************************************************)
(* The search for a port.  The code counts on until it meets a port that   *)
(* is not in use; the module looks among as many candidates as there can   *)
(* be desktops, and one.  There are more of them than ports in use, so one *)
(* of them is free, and the first free one is where the code stops.        *)
(***************************************************************************)
Port(k, n) == First[k] + Step[k] * n

LEMMA PortsGrow ==
  ASSUME DesktopsAssumption, NEW k \in Kinds, NEW m \in Nat, NEW n \in Nat
  PROVE  Port(k, m) \in Nat /\ (m < n <=> Port(k, m) < Port(k, n)) /\ (m = n <=> Port(k, m) = Port(k, n))
<1>1. First[k] \in Nat /\ Step[k] \in Nat \ {0} BY DEF DesktopsAssumption
<1>2. \A f, s, x, y \in Nat : s # 0 /\ x < y => f + s * x < f + s * y
  <2> SUFFICES ASSUME NEW f \in Nat, NEW s \in Nat, NEW x \in Nat, NEW y \in Nat, s # 0, x < y
               PROVE  f + s * x < f + s * y
    OBVIOUS
  <2>1. PICK d \in Nat : y = x + d /\ d > 0
    <3>1. y - x \in Nat /\ y = x + (y - x) /\ y - x > 0 OBVIOUS
    <3> QED BY <3>1
  <2>2. s * y = s * x + s * d /\ s * d > 0 BY <2>1
  <2> QED BY <2>2
<1>3. m < n => Port(k, m) < Port(k, n) BY <1>1, <1>2 DEF Port
<1>4. n < m => Port(k, n) < Port(k, m) BY <1>1, <1>2 DEF Port
<1>5. Port(k, m) \in Nat /\ Port(k, n) \in Nat BY <1>1 DEF Port
<1> QED BY <1>3, <1>4, <1>5

LEMMA FewDesktops ==
  ASSUME DesktopsAssumption
  PROVE  IsFiniteSet(AllDesktops(mem)) /\ Cardinality(AllDesktops(mem)) <= Cardinality(BuiltIn) + Cardinality(Ids)
<1> DEFINE created == {mem[i] : i \in Present(mem)}
           entry == [i \in Present(mem) |-> mem[i]]
<1>1. IsFiniteSet(Present(mem)) /\ Cardinality(Present(mem)) <= Cardinality(Ids)
  BY FS_Subset DEF DesktopsAssumption, Present
<1>2. entry \in Surjection(Present(mem), created) BY DEF Surjection
<1>3. IsFiniteSet(created) /\ Cardinality(created) <= Cardinality(Present(mem))
  <2> HIDE DEF entry, created
  <2> QED BY <1>1, <1>2, FS_Surjection
<1>4. IsFiniteSet(BuiltIn) /\ IsFiniteSet(Ids) BY DEF DesktopsAssumption
<1> HIDE DEF created
<1>5. IsFiniteSet(BuiltIn \cap created) BY <1>4, FS_Subset
<1>6. /\ Cardinality(BuiltIn) \in Nat /\ Cardinality(Ids) \in Nat /\ Cardinality(created) \in Nat
      /\ Cardinality(Present(mem)) \in Nat /\ Cardinality(BuiltIn \cap created) \in Nat
  BY <1>1, <1>3, <1>4, <1>5, FS_CardinalityType
<1>7. /\ IsFiniteSet(BuiltIn \cup created)
      /\ Cardinality(BuiltIn \cup created)
           = Cardinality(BuiltIn) + Cardinality(created) - Cardinality(BuiltIn \cap created)
  BY <1>3, <1>4, FS_Union
<1>8. AllDesktops(mem) = BuiltIn \cup created BY DEF AllDesktops, created
<1> QED BY <1>1, <1>3, <1>6, <1>7, <1>8

LEMMA FewPortsUsed ==
  ASSUME DesktopsAssumption, NEW k \in Kinds
  PROVE  IsFiniteSet(Used(k)) /\ Cardinality(Used(k)) <= Cardinality(BuiltIn) + Cardinality(Ids)
<1> DEFINE portOf == [d \in AllDesktops(mem) |-> d.port[k]]
<1>1. portOf \in Surjection(AllDesktops(mem), Used(k)) BY DEF Surjection, Used
<1> HIDE DEF portOf
<1>2. IsFiniteSet(Used(k)) /\ Cardinality(Used(k)) <= Cardinality(AllDesktops(mem))
  BY <1>1, FewDesktops, FS_Surjection
<1>3. /\ Cardinality(BuiltIn) \in Nat /\ Cardinality(Ids) \in Nat
      /\ Cardinality(AllDesktops(mem)) \in Nat /\ Cardinality(Used(k)) \in Nat
  BY <1>2, FewDesktops, FS_CardinalityType DEF DesktopsAssumption
<1> QED BY <1>2, <1>3, FewDesktops

\* Not all the candidates can be in use.
LEMMA SomeCandidateFree ==
  ASSUME DesktopsAssumption, NEW k \in Kinds
  PROVE  \E n \in 0 .. (Cardinality(BuiltIn) + Cardinality(Ids)) : Port(k, n) \notin Used(k)
<1> DEFINE most == Cardinality(BuiltIn) + Cardinality(Ids)
           nth == [n \in 0 .. most |-> Port(k, n)]
<1>1. most \in Nat BY FS_CardinalityType DEF DesktopsAssumption
<1> HIDE DEF most
<1>2. IsFiniteSet(0 .. most) /\ Cardinality(0 .. most) = most + 1
  <2>1. 0 \in Int /\ most \in Int /\ ~(0 > most) /\ most - 0 + 1 = most + 1 BY <1>1
  <2>2. IsFiniteSet(0 .. most) /\ Cardinality(0 .. most) = IF 0 > most THEN 0 ELSE most - 0 + 1
    BY <2>1, FS_Interval
  <2> QED BY <2>1, <2>2
<1> SUFFICES ASSUME \A n \in 0 .. most : Port(k, n) \in Used(k) PROVE FALSE BY DEF most
<1>3. \A m, n \in 0 .. most : Port(k, m) = Port(k, n) => m = n BY <1>1, PortsGrow
<1>4. nth \in Injection(0 .. most, Used(k)) BY <1>3 DEF Injection, IsInjective
<1> HIDE DEF nth
<1>5. Cardinality(0 .. most) <= Cardinality(Used(k)) BY <1>4, FewPortsUsed, FS_Injection
<1>6. Cardinality(Used(k)) \in Nat /\ Cardinality(Used(k)) <= most BY FewPortsUsed, FS_CardinalityType DEF most
<1> QED BY <1>1, <1>2, <1>5, <1>6

\* Where the code's loop stops: the first n whose port is not in use.
StopsAt(k, n) == Port(k, n) \notin Used(k) /\ \A m \in 0 .. (n - 1) : Port(k, m) \in Used(k)

LEMMA LoopStops ==
  ASSUME DesktopsAssumption, NEW k \in Kinds
  PROVE  \E n \in 0 .. (Cardinality(BuiltIn) + Cardinality(Ids)) : StopsAt(k, n)
<1> DEFINE most == Cardinality(BuiltIn) + Cardinality(Ids)
           free == {n \in 0 .. most : Port(k, n) \notin Used(k)}
           R == OpToRel(<, Nat)
<1>1. most \in Nat BY FS_CardinalityType DEF DesktopsAssumption
<1>2. free # {} BY SomeCandidateFree
<1>3. free \subseteq Nat /\ free \subseteq 0 .. most BY <1>1
<1>4. PICK n \in free : \A m \in free : <<m, n>> \notin R
  <2>1. IsWellFoundedOn(R, Nat) BY NatLessThanWellFounded
  <2> HIDE DEF R, free
  <2> QED BY <1>2, <1>3, <2>1, WFMin
<1>5. \A m \in free : ~(m < n)
  <2> TAKE m \in free
  <2>1. m < n => <<m, n>> \in R BY <1>3 DEF OpToRel
  <2> QED BY <1>4, <2>1
<1>6. ASSUME NEW m \in 0 .. (n - 1) PROVE Port(k, m) \in Used(k)
  <2>1. n \in 0 .. most /\ m \in 0 .. most /\ m < n BY <1>1, <1>3
  <2> QED BY <1>5, <2>1
<1> QED BY <1>6 DEF StopsAt

LEMMA StopIsNextPort ==
  ASSUME DesktopsAssumption, NEW k \in Kinds, NEW n \in 0 .. (Cardinality(BuiltIn) + Cardinality(Ids)),
         StopsAt(k, n)
  PROVE  NextPort(k) = {Port(k, n)}
<1> DEFINE most == Cardinality(BuiltIn) + Cardinality(Ids)
<1>1. most \in Nat BY FS_CardinalityType DEF DesktopsAssumption
<1>2. Candidates(k) = {Port(k, m) : m \in 0 .. most} BY DEF Candidates, Port
<1> HIDE DEF most
<1>3. n \in 0 .. most BY DEF most
<1>4. \A m \in 0 .. most : Port(k, m) < Port(k, n) => Port(k, m) \in Used(k)
  <2> TAKE m \in 0 .. most
  <2> HAVE Port(k, m) < Port(k, n)
  <2>1. m \in Nat /\ n \in Nat BY <1>1, <1>3
  <2>2. m < n BY <2>1, PortsGrow
  <2>3. m \in 0 .. (n - 1) BY <2>1, <2>2
  <2> QED BY <2>3 DEF StopsAt
<1>5. Port(k, n) \in NextPort(k) BY <1>2, <1>3, <1>4 DEF NextPort, StopsAt
<1>6. ASSUME NEW p \in NextPort(k) PROVE p = Port(k, n)
  <2>1. PICK m \in 0 .. most : p = Port(k, m) BY <1>2 DEF NextPort
  <2>2. m \in Nat /\ n \in Nat BY <1>1, <1>3
  <2>3. ~(m < n)
    <3> SUFFICES ASSUME m < n PROVE FALSE OBVIOUS
    <3>1. m \in 0 .. (n - 1) BY <2>2
    <3> QED BY <2>1, <3>1 DEF StopsAt, NextPort
  <2>4. ~(n < m)
    <3> SUFFICES ASSUME n < m PROVE FALSE OBVIOUS
    <3>1. Port(k, n) < p BY <2>1, <2>2, PortsGrow
    <3> QED BY <1>2, <1>3, <3>1 DEF StopsAt, NextPort
  <2> QED BY <2>1, <2>2, <2>3, <2>4
<1> QED BY <1>5, <1>6

\* The loop of _allocate_ports, which has no bound, stops, and at the port that the
\* module takes.
PortsAreFound == \A k \in Kinds : \E n \in Nat : StopsAt(k, n) /\ NextPort(k) = {Port(k, n)}

\* A creation never looks for a port in vain, however many desktops there are: there are
\* more candidates than ports in use, and their bound changes nothing (_allocate_ports).
THEOREM PortSearchEnds == Spec => []PortsAreFound
<1>1. DesktopsAssumption => PortsAreFound
  <2> SUFFICES ASSUME DesktopsAssumption, NEW k \in Kinds
               PROVE  \E n \in Nat : StopsAt(k, n) /\ NextPort(k) = {Port(k, n)}
    BY DEF PortsAreFound
  <2>1. Cardinality(BuiltIn) + Cardinality(Ids) \in Nat BY FS_CardinalityType DEF DesktopsAssumption
  <2>2. PICK n \in 0 .. (Cardinality(BuiltIn) + Cardinality(Ids)) : StopsAt(k, n) BY LoopStops
  <2>3. n \in Nat BY <2>1, <2>2
  <2> QED BY <2>2, <2>3, StopIsNextPort
<1>2. PortsAreFound BY <1>1, DesktopsAssumption
<1> QED BY <1>2, PTL

----------------------------------------------------------------------------
(***************************************************************************)
(* Names and ports.  The table in memory is not inductive: a restart takes *)
(* the table of the file, which a save took from the temporary file, which *)
(* a thread wrote; so all of them are distinct.  And what a thread has     *)
(* checked and allocated is still free, unless its checks are stale.       *)
(***************************************************************************)
CopiesDistinct ==
  /\ Distinct(mem)
  /\ file \in Table => Distinct(file)
  /\ tmp \in Table => Distinct(tmp)
  /\ \A t \in Threads : buf[t] \in Table => Distinct(buf[t])

NameFree(t) == \A d \in AllDesktops(mem) : d.name # req[t].desktop.name

PortsFree(t) == \A d \in AllDesktops(mem), k \in Kinds : d.port[k] # req[t].desktop.port[k]

Fresh(t) ==
  ~stale[t] => /\ pc[t] \in {"image", "allocate", "insert"} => NameFree(t)
               /\ pc[t] = "insert" => PortsFree(t)

DistinctInv == raced \/ (CopiesDistinct /\ \A t \in Threads : Fresh(t))

LEMMA EmptyIsDistinct == Distinct(EmptyTable)
BY DEF Distinct, Present, EmptyTable

LEMMA LoadedIsDistinct ==
  ASSUME NEW c, c \in Table => Distinct(c) PROVE Distinct(Loaded(c))
BY EmptyIsDistinct DEF Loaded

\* A writer leaves a table it had in hand, one that was there, or something damaged.
LEMMA WrittenIsDistinct ==
  ASSUME TypeOK, DesktopsAssumption, CopiesDistinct, NEW t \in Threads, WriteThrough(t) \/ WriteCut(t)
  PROVE  (file' \in Table => Distinct(file')) /\ (tmp' \in Table => Distinct(tmp'))
BY DEF WriteThrough, WriteCut, Overwritten, CopiesDistinct, DesktopsAssumption

\* What was free stays free for a thread while the table only shrinks.
LEMMA FreshStays ==
  ASSUME NEW u \in Threads, Fresh(u), AllDesktops(mem)' \subseteq AllDesktops(mem), stale'[u] = stale[u],
         \/ pc'[u] \notin {"image", "allocate", "insert"}
         \/ req'[u] = req[u] /\ pc'[u] = pc[u]
         \/ req'[u] = req[u] /\ pc[u] = "image" /\ pc'[u] = "allocate"
  PROVE  Fresh(u)'
BY DEF Fresh, NameFree, PortsFree

LEMMA SameDesktops == mem' = mem => AllDesktops(mem)' = AllDesktops(mem)
BY DEF AllDesktops, Present

LEMMA DistinctInit == ASSUME Init, DesktopsAssumption PROVE DistinctInv
BY EmptyIsDistinct DEF Init, DistinctInv, CopiesDistinct, Fresh, DesktopsAssumption

LEMMA CheckedIsFree ==
  ASSUME TypeOK, DistinctInv, ~raced', NEW t \in Threads, NEW i \in Ids, NEW n \in Names,
         CreateChecked(t, i, n)
  PROVE  DistinctInv'
<1>1. CopiesDistinct' BY DEF DistinctInv, CopiesDistinct, CreateChecked
<1>2. ASSUME NEW u \in Threads PROVE Fresh(u)'
  <2>1. CASE u = t
    <3>1. pc'[t] = "image" /\ req'[t].desktop.name = n BY DEF TypeOK, CreateChecked, Goto
    <3>2. \A d \in AllDesktops(mem)' : d.name # n BY DEF CreateChecked, AllDesktops, Present
    <3> QED BY <2>1, <3>1, <3>2 DEF Fresh, NameFree
  <2>2. CASE u # t
    BY <2>2, FreshStays, SameDesktops DEF TypeOK, DistinctInv, CreateChecked, Goto
  <2> QED BY <2>1, <2>2
<1> QED BY <1>1, <1>2 DEF DistinctInv

LEMMA ImageKeepsDistinct ==
  ASSUME TypeOK, DistinctInv, ~raced', NEW t \in Threads, CreateImage(t) PROVE DistinctInv'
<1>1. CopiesDistinct' BY DEF DistinctInv, CopiesDistinct, CreateImage, history
<1>2. ASSUME NEW u \in Threads PROVE Fresh(u)'
  BY FreshStays, SameDesktops DEF TypeOK, DistinctInv, CreateImage, Goto, history
<1> QED BY <1>1, <1>2 DEF DistinctInv

LEMMA AllocatedIsFree ==
  ASSUME TypeOK, DesktopsAssumption, DistinctInv, ~raced', NEW t \in Threads, AllocatePorts(t)
  PROVE  DistinctInv'
<1>1. CopiesDistinct' BY DEF DistinctInv, CopiesDistinct, AllocatePorts, history
<1>2. ASSUME NEW u \in Threads PROVE Fresh(u)'
  <2>1. CASE u = t
    <3>1. PICK s \in NextPort("spice"), i \in NextPort("input"), v \in NextPort("video") :
            req' = [req EXCEPT ![t].desktop =
              [@ EXCEPT !.port = [k \in Kinds |-> CASE k = "spice" -> s [] k = "input" -> i [] OTHER -> v],
                        !.mac  = NextMac]]
      BY DEF AllocatePorts
    <3>2. pc[t] = "allocate" /\ req[t].desktop \in Desktop BY DEF TypeOK, AllocatePorts
    <3> DEFINE ports == [k \in Kinds |-> CASE k = "spice" -> s [] k = "input" -> i [] OTHER -> v]
    <3>3. ports["spice"] \in NextPort("spice") /\ ports["input"] \in NextPort("input")
            /\ ports["video"] \in NextPort("video")
      BY DEF Kinds
    <3>4. \A k \in Kinds : ports[k] \notin Used(k) BY <3>3 DEF Kinds, NextPort
    <3>5. req'[t].desktop.port = ports /\ req'[t].desktop.name = req[t].desktop.name
      BY <3>1, <3>2 DEF TypeOK, Desktop
    <3>6. PortsFree(t)'
      <4> HIDE DEF ports
      <4>1. AllDesktops(mem)' = AllDesktops(mem) BY DEF AllDesktops, Present, AllocatePorts
      <4> QED BY <3>4, <3>5, <4>1 DEF PortsFree, Used
    <3>7. ~stale[t] => NameFree(t)
      BY <3>2 DEF DistinctInv, Fresh, AllocatePorts, history
    <3>8. ~stale[t] => NameFree(t)'
      BY <3>5, <3>7 DEF NameFree, AllDesktops, Present, AllocatePorts
    <3>9. stale'[t] = stale[t] BY DEF AllocatePorts, history
    <3> HIDE DEF ports
    <3> QED BY <2>1, <3>6, <3>8, <3>9 DEF Fresh
  <2>2. CASE u # t
    BY <2>2, FreshStays, SameDesktops DEF TypeOK, DistinctInv, AllocatePorts, Goto, history
  <2> QED BY <2>1, <2>2
<1> QED BY <1>1, <1>2 DEF DistinctInv

LEMMA InsertedIsDistinct ==
  ASSUME TypeOK, DesktopsAssumption, DistinctInv, ~raced', NEW t \in Threads, Insert(t)
  PROVE  DistinctInv'
<1> DEFINE i == req[t].id
<1>1. ~raced /\ ~stale[t] /\ pc[t] = "insert" /\ i \in Ids /\ mem' = [mem EXCEPT ![i] = req[t].desktop]
  BY DEF TypeOK, Insert
<1>2. NameFree(t) /\ PortsFree(t) BY <1>1 DEF DistinctInv, Fresh
<1> HIDE DEF i
<1>3. ASSUME NEW d \in AllDesktops(mem) PROVE ~Clash(req[t].desktop, d) /\ ~Clash(d, req[t].desktop)
  BY <1>2, <1>3 DEF NameFree, PortsFree, Clash
<1>4. \A j \in Ids : j # i => mem'[j] = mem[j] BY <1>1 DEF TypeOK, Table
<1>5. mem'[i] = req[t].desktop BY <1>1 DEF TypeOK, Table
<1>6. Distinct(mem)'
  <2> SUFFICES ASSUME NEW j \in Ids, mem'[j] # NoDesktop
               PROVE  /\ \A k \in Ids : mem'[k] # NoDesktop /\ j # k => ~Clash(mem'[j], mem'[k])
                      /\ \A d \in BuiltIn : ~Clash(mem'[j], d)
    BY DEF Distinct, Present, Clash
  <2>1. CASE j = i
    <3>1. ASSUME NEW k \in Ids, mem'[k] # NoDesktop, j # k PROVE mem'[k] \in AllDesktops(mem)
      BY <2>1, <3>1, <1>4 DEF AllDesktops, Present
    <3>2. BuiltIn \subseteq AllDesktops(mem) BY DEF AllDesktops
    <3> QED BY <2>1, <3>1, <3>2, <1>3, <1>5
  <2>2. CASE j # i
    <3>1. mem'[j] = mem[j] /\ j \in Present(mem) BY <2>2, <1>4 DEF Present
    <3>2. mem[j] \in AllDesktops(mem) BY <3>1 DEF AllDesktops
    <3>3. Distinct(mem) BY <1>1 DEF DistinctInv, CopiesDistinct
    <3>4. ASSUME NEW k \in Ids, mem'[k] # NoDesktop, j # k PROVE ~Clash(mem'[j], mem'[k])
      <4>1. CASE k = i BY <4>1, <3>1, <3>2, <1>3, <1>5
      <4>2. CASE k # i
        <5>1. mem'[k] = mem[k] /\ k \in Present(mem) BY <4>2, <3>4, <1>4 DEF Present
        <5> QED BY <5>1, <3>1, <3>3, <3>4 DEF Distinct
      <4> QED BY <4>1, <4>2
    <3>5. \A d \in BuiltIn : ~Clash(mem'[j], d) BY <3>1, <3>3 DEF Distinct
    <3> QED BY <3>4, <3>5
  <2> QED BY <2>1, <2>2
<1>7. CopiesDistinct' BY <1>1, <1>6 DEF DistinctInv, CopiesDistinct, Insert
<1>8. ASSUME NEW u \in Threads PROVE Fresh(u)' BY DEF TypeOK, Insert, Goto, Fresh
<1> QED BY <1>7, <1>8 DEF DistinctInv

LEMMA PoppedIsDistinct ==
  ASSUME TypeOK, DistinctInv, ~raced', NEW t \in Threads, NEW i \in Ids, DeletePopped(t, i)
  PROVE  DistinctInv'
<1>1. ~raced /\ mem' = [mem EXCEPT ![i] = NoDesktop] BY DEF DeletePopped
<1>2. \A j \in Ids : mem'[j] # NoDesktop => mem'[j] = mem[j] /\ mem[j] # NoDesktop
  BY <1>1 DEF TypeOK, Table
<1>3. Distinct(mem) BY <1>1 DEF DistinctInv, CopiesDistinct
<1>4. Distinct(mem)' BY <1>2, <1>3 DEF Distinct, Present, Clash
<1>5. CopiesDistinct' BY <1>1, <1>4 DEF DistinctInv, CopiesDistinct, DeletePopped
<1>6. AllDesktops(mem)' \subseteq AllDesktops(mem) BY <1>2 DEF AllDesktops, Present
<1>7. ASSUME NEW u \in Threads PROVE Fresh(u)'
  BY <1>1, <1>6, FreshStays DEF TypeOK, DistinctInv, DeletePopped, Goto
<1> QED BY <1>5, <1>7 DEF DistinctInv

\* The steps that touch neither memory nor what a creation has in hand.
LEMMA BystandersDistinct ==
  ASSUME TypeOK, DistinctInv, ~raced', NEW t \in Threads,
         \/ \E i \in Ids : SetSetting(t, i)
         \/ DeleteOutput(t) \/ Respond(t) \/ RespondError(t)
  PROVE  DistinctInv'
<1>1. CASE \E i \in Ids : SetSetting(t, i)
  BY <1>1, FreshStays, SameDesktops DEF TypeOK, DistinctInv, CopiesDistinct, SetSetting, Goto, history
<1>2. CASE DeleteOutput(t)
  BY <1>2, FreshStays, SameDesktops DEF TypeOK, DistinctInv, CopiesDistinct, DeleteOutput, Goto, history
<1>3. CASE Respond(t)
  <2>1. ~raced /\ CopiesDistinct' BY <1>3, DesktopsAssumption
    DEF TypeOK, DistinctInv, CopiesDistinct, Respond, Forgotten, DesktopsAssumption
  <2>2. ASSUME NEW u \in Threads PROVE Fresh(u)'
    BY <1>3, <2>1, FreshStays, SameDesktops DEF TypeOK, DistinctInv, Respond, Forgotten, Goto
  <2> QED BY <2>1, <2>2 DEF DistinctInv
<1>4. CASE RespondError(t)
  <2>1. ~raced /\ CopiesDistinct' BY <1>4, DesktopsAssumption
    DEF TypeOK, DistinctInv, CopiesDistinct, RespondError, Forgotten, DesktopsAssumption
  <2>2. ASSUME NEW u \in Threads PROVE Fresh(u)'
    BY <1>4, <2>1, FreshStays, SameDesktops DEF TypeOK, DistinctInv, RespondError, Forgotten, Goto
  <2> QED BY <2>1, <2>2 DEF DistinctInv
<1> QED BY <1>1, <1>2, <1>3, <1>4

\* A step of a save or of the script changes no table in memory and no request.
LEMMA WriterFresh ==
  ASSUME TypeOK, DistinctInv, ~raced, NEW t \in Threads, SaveStep(t) \/ ScriptStep(t), NEW u \in Threads
  PROVE  Fresh(u)'
<1>1. mem' = mem /\ req' = req /\ stale' = stale
  BY DEF SaveStep, SaveDump, SaveOpen, SaveWrite, SaveReplace,
         ScriptStep, ScriptRead, ScriptTruncate, ScriptWrite, history
<1>2. pc'[u] = pc[u] \/ pc'[u] \notin {"image", "allocate", "insert"}
  BY DEF TypeOK, SaveStep, SaveDump, SaveOpen, SaveWrite, SaveReplace,
         ScriptStep, ScriptRead, ScriptTruncate, ScriptWrite, Goto
<1> QED BY <1>1, <1>2, FreshStays, SameDesktops DEF DistinctInv

LEMMA WriterKeepsDistinct ==
  ASSUME TypeOK, DesktopsAssumption, DistinctInv, ~raced', NEW t \in Threads, SaveStep(t) \/ ScriptStep(t)
  PROVE  DistinctInv'
<1>1. ~raced /\ CopiesDistinct
  BY DEF DistinctInv, SaveStep, SaveDump, SaveOpen, SaveWrite, SaveReplace,
         ScriptStep, ScriptRead, ScriptTruncate, ScriptWrite, history
<1>2. CopiesDistinct'
  <2>1. CASE SaveDump(t) BY <1>1, <2>1 DEF TypeOK, CopiesDistinct, SaveDump
  <2>2. CASE SaveOpen(t) BY <1>1, <2>2 DEF CopiesDistinct, SaveOpen, DesktopsAssumption
  <2>3. CASE SaveWrite(t) BY <1>1, <2>3, WrittenIsDistinct DEF CopiesDistinct, SaveWrite
  <2>4. CASE SaveReplace(t) BY <1>1, <2>4 DEF CopiesDistinct, SaveReplace, DesktopsAssumption
  <2>5. CASE ScriptRead(t) BY <1>1, <2>5 DEF TypeOK, CopiesDistinct, ScriptRead
  <2>6. CASE ScriptTruncate(t) BY <1>1, <2>6 DEF CopiesDistinct, ScriptTruncate, DesktopsAssumption
  <2>7. CASE ScriptWrite(t) BY <1>1, <2>7, WrittenIsDistinct DEF CopiesDistinct, ScriptWrite
  <2> QED BY <2>1, <2>2, <2>3, <2>4, <2>5, <2>6, <2>7 DEF SaveStep, ScriptStep
<1> QED BY <1>1, <1>2, WriterFresh DEF DistinctInv

LEMMA RestartKeepsDistinct ==
  ASSUME TypeOK, DesktopsAssumption, DistinctInv, ~raced', Restart PROVE DistinctInv'
<1>1. ~raced /\ mem' = Loaded(file) /\ file' = file /\ tmp' = tmp BY DEF Restart
<1>2. CopiesDistinct' BY <1>1, LoadedIsDistinct DEF DistinctInv, CopiesDistinct, Restart, DesktopsAssumption
<1>3. ASSUME NEW u \in Threads PROVE Fresh(u)' BY DEF Restart, Fresh
<1> QED BY <1>2, <1>3 DEF DistinctInv

LEMMA StepKeepsDistinct ==
  ASSUME TypeOK, DesktopsAssumption, DistinctInv, [Next]_vars PROVE DistinctInv'
<1>1. CASE raced' BY <1>1 DEF DistinctInv
<1>2. CASE ~raced' /\ UNCHANGED vars
  <2>1. ~raced /\ CopiesDistinct' BY <1>2 DEF DistinctInv, CopiesDistinct, vars, history
  <2>2. ASSUME NEW u \in Threads PROVE Fresh(u)'
    BY <1>2, <2>1, FreshStays, SameDesktops DEF DistinctInv, vars, history
  <2> QED BY <2>1, <2>2 DEF DistinctInv
<1>3. CASE ~raced' /\ Next
  BY <1>3, CheckedIsFree, ImageKeepsDistinct, AllocatedIsFree, InsertedIsDistinct, PoppedIsDistinct,
     BystandersDistinct, WriterKeepsDistinct, RestartKeepsDistinct DEF Next
<1> QED BY <1>1, <1>2, <1>3

\* Names and ports of each kind are unique, over any number of requests at the same
\* time, failures and restarts, unless an insertion went by stale checks
\* (create_desktop, _allocate_ports).
THEOREM DesktopsStayDistinct == Spec => []DesktopsDistinct
<1>1. Init => DistinctInv BY DistinctInit, DesktopsAssumption
<1>2. TypeOK /\ DistinctInv /\ [Next]_vars => DistinctInv' BY StepKeepsDistinct, DesktopsAssumption
<1>3. DistinctInv => DesktopsDistinct BY DEF DistinctInv, CopiesDistinct, DesktopsDistinct
<1> QED BY <1>1, <1>2, <1>3, TypeCorrect, PTL DEF Spec

----------------------------------------------------------------------------
(***************************************************************************)
(* state.json.  A thread that is alone is the only writer, has an open     *)
(* handle only while it is about to write, and finds in the file what it   *)
(* has put there itself, step by step.                                     *)
(***************************************************************************)
AloneInv ==
  \A t \in Threads : Writing(t) =>
     /\ alone[t] => \A u \in Threads : u # t => ~Writing(u)
     /\ alone[t] \/ overlapped

StageInv ==
  \A t \in Threads :
     /\ Writing(t) => buf[t] \in Table
     /\ pc[t] = "write" /\ alone[t]   => handle[t] = "tmp" /\ tmp = Empty
     /\ pc[t] = "replace" /\ alone[t] => tmp = buf[t]
     /\ pc[t] = "rewrite" /\ alone[t] => handle[t] = "file" /\ file = Empty

WriterInv == AloneInv /\ StageInv /\ FileReadable

LEMMA WriterInit == ASSUME Init PROVE WriterInv
BY DEF Init, WriterInv, AloneInv, StageInv, FileReadable, Writing

\* A step that is not part of a write leaves the writers and the files as they are.
LEMMA OutsideKeepsWriters ==
  ASSUME WriterInv, NEW t \in Threads,
         ~Writing(t), \A u \in Threads : u # t => pc'[u] = pc[u] /\ buf'[u] = buf[u],
         pc'[t] \notin {"open", "write", "replace", "truncate", "rewrite"},
         UNCHANGED <<file, tmp, handle, alone, overlapped, cut>>
  PROVE  WriterInv'
<1>1. \A u \in Threads : Writing(u)' <=> Writing(u) BY DEF Writing
<1>2. AloneInv' BY <1>1 DEF WriterInv, AloneInv
<1>3. StageInv' BY <1>1 DEF WriterInv, StageInv, Writing
<1>4. FileReadable' BY <1>1 DEF WriterInv, FileReadable, Writing
<1> QED BY <1>2, <1>3, <1>4 DEF WriterInv

\* The thread that begins to write is alone only if nobody else writes.
LEMMA BeginKeepsWriters ==
  ASSUME TypeOK, WriterInv, NEW t \in Threads, ~Writing(t), BeginWriting(t),
         \A u \in Threads : u # t => pc'[u] = pc[u] /\ buf'[u] = buf[u],
         pc'[t] \in {"open", "truncate"}, buf'[t] \in Table,
         UNCHANGED <<file, tmp, handle, cut>>
  PROVE  WriterInv'
<1>1. \A u \in Threads : u # t => (Writing(u)' <=> Writing(u)) BY DEF Writing
<1>2. \A u \in Threads : alone'[u] => u = t /\ \A v \in Threads : v # t => ~Writing(v)
  BY DEF BeginWriting
<1>3. alone'[t] \/ overlapped' BY DEF BeginWriting
<1>4. \A u \in Threads : u # t /\ Writing(u) => overlapped' BY DEF BeginWriting
<1>5. AloneInv' BY <1>1, <1>2, <1>3, <1>4 DEF AloneInv
<1>6. StageInv' BY <1>1, <1>2 DEF WriterInv, StageInv, Writing
<1>7. FileReadable'
  <2>1. overlapped => overlapped' BY DEF BeginWriting
  <2>2. \A u \in Threads : pc[u] = "rewrite" => pc'[u] = "rewrite" BY DEF Writing
  <2> QED BY <2>1, <2>2 DEF WriterInv, FileReadable
<1> QED BY <1>5, <1>6, <1>7 DEF WriterInv

\* While a thread writes, no other one that writes is alone.
LEMMA OnlyOneAlone ==
  ASSUME WriterInv, NEW t \in Threads, NEW u \in Threads, Writing(t), Writing(u), alone[u] PROVE u = t
BY DEF WriterInv, AloneInv

\* A step in the middle of a write changes what the others find only if they are not alone.
LEMMA MiddleKeepsWriters ==
  ASSUME TypeOK, WriterInv, NEW t \in Threads, Writing(t), UNCHANGED <<alone, overlapped>>,
         \A u \in Threads : u # t => pc'[u] = pc[u],
         buf' = buf,
         pc'[t] = "write" /\ alone[t]   => handle'[t] = "tmp" /\ tmp' = Empty,
         pc'[t] = "replace" /\ alone[t] => tmp' = buf[t],
         pc'[t] = "rewrite" /\ alone[t] => handle'[t] = "file" /\ file' = Empty,
         FileReadable'
  PROVE  WriterInv'
<1>1. \A u \in Threads : Writing(u)' => Writing(u) BY DEF Writing
<1>2. AloneInv' BY <1>1 DEF WriterInv, AloneInv
<1>3. \A u \in Threads : Writing(u) /\ alone[u] => u = t BY OnlyOneAlone
<1>4. \A u \in Threads : Writing(u)' => buf'[u] \in Table BY <1>1 DEF WriterInv, StageInv
<1>5. \A u \in Threads : pc'[u] \in {"write", "replace", "rewrite"} /\ alone'[u] => u = t
  BY <1>1, <1>3 DEF Writing
<1>6. StageInv' BY <1>4, <1>5 DEF StageInv
<1> QED BY <1>2, <1>6 DEF WriterInv

LEMMA SaveKeepsWriters ==
  ASSUME TypeOK, DesktopsAssumption, WriterInv, NEW t \in Threads, SaveStep(t) PROVE WriterInv'
<1>1. CASE SaveDump(t)
  BY <1>1, BeginKeepsWriters DEF TypeOK, SaveDump, Goto, Writing
<1>2. CASE SaveOpen(t)
  <2>1. Writing(t) /\ pc[t] = "open" /\ pc'[t] = "write" /\ handle'[t] = "tmp" /\ tmp' = Empty /\ file' = file
        /\ UNCHANGED <<alone, overlapped, cut>> /\ buf' = buf /\ \A u \in Threads : u # t => pc'[u] = pc[u]
    BY <1>2 DEF TypeOK, SaveOpen, Goto, Writing, history
  <2>2. FileReadable' BY <2>1 DEF WriterInv, FileReadable
  <2> QED BY <2>1, <2>2, MiddleKeepsWriters
<1>3. CASE SaveWrite(t)
  <2>1. Writing(t) /\ pc[t] = "write" /\ UNCHANGED <<alone, overlapped, cut>> /\ buf' = buf
        /\ \A u \in Threads : u # t => pc'[u] = pc[u]
    BY <1>3 DEF TypeOK, SaveWrite, Goto, Writing, history
  <2>2. alone[t] => handle[t] = "tmp" /\ tmp = Empty BY <2>1 DEF WriterInv, StageInv
  <2>3. overlapped \/ alone[t] BY <2>1 DEF WriterInv, AloneInv
  <2>4. CASE WriteThrough(t) /\ Goto(t, "replace")
    <3>1. pc'[t] = "replace" BY <2>4 DEF Goto, TypeOK
    <3>2. alone[t] => tmp' = buf[t] /\ file' = file BY <2>2, <2>4 DEF WriteThrough, Overwritten
    <3>3. FileReadable' BY <2>1, <2>3, <3>1, <3>2 DEF WriterInv, FileReadable
    <3> QED BY <2>1, <3>1, <3>2, <3>3, MiddleKeepsWriters
  <2>5. CASE Goto(t, "failed") /\ WriteCut(t)
    <3>1. pc'[t] = "failed" BY <2>5 DEF Goto, TypeOK
    <3>2. alone[t] => file' = file BY <2>2, <2>5 DEF WriteCut
    <3>3. FileReadable' BY <2>1, <2>3, <3>1, <3>2 DEF WriterInv, FileReadable
    <3> QED BY <2>1, <3>1, <3>3, MiddleKeepsWriters
  <2> QED BY <1>3, <2>4, <2>5 DEF SaveWrite
<1>4. CASE SaveReplace(t)
  <2>1. Writing(t) /\ pc[t] = "replace" /\ UNCHANGED <<alone, overlapped, cut>> /\ buf' = buf
        /\ pc'[t] \in {"failed", "script", "respond"} /\ \A u \in Threads : u # t => pc'[u] = pc[u]
    BY <1>4 DEF TypeOK, SaveReplace, Goto, Writing, history
  <2>2. alone[t] => tmp = buf[t] /\ buf[t] \in Table BY <2>1 DEF WriterInv, StageInv
  <2>3. overlapped \/ alone[t] BY <2>1 DEF WriterInv, AloneInv
  <2>4. alone[t] => file' \in Table BY <1>4, <2>2 DEF SaveReplace, DesktopsAssumption
  <2>5. FileReadable' BY <2>1, <2>3, <2>4 DEF WriterInv, FileReadable
  <2> QED BY <2>1, <2>5, MiddleKeepsWriters
<1> QED BY <1>1, <1>2, <1>3, <1>4 DEF SaveStep

LEMMA ScriptKeepsWriters ==
  ASSUME TypeOK, DesktopsAssumption, WriterInv, NEW t \in Threads, ScriptStep(t) PROVE WriterInv'
<1>1. CASE ScriptRead(t)
  <2>1. ~Writing(t) /\ UNCHANGED <<file, tmp, handle, cut>> /\ (\A u \in Threads : u # t => pc'[u] = pc[u])
    BY <1>1 DEF TypeOK, ScriptRead, Goto, Writing
  <2>2. CASE Goto(t, "failed") /\ UNCHANGED <<buf, alone, overlapped>>
    BY <2>1, <2>2, OutsideKeepsWriters DEF TypeOK, Goto
  <2>3. CASE Loaded(file)[req[t].id] # NoDesktop /\ buf' = [buf EXCEPT ![t] = file]
             /\ BeginWriting(t) /\ Goto(t, "truncate")
    <3>1. file \in Table
      <4>1. req[t].id \in Ids BY <1>1 DEF TypeOK, ScriptRead
      <4> QED BY <2>3, <4>1 DEF Loaded, EmptyTable
    <3> QED BY <2>1, <2>3, <3>1, BeginKeepsWriters DEF TypeOK, Goto
  <2> QED BY <1>1, <2>2, <2>3 DEF ScriptRead
<1>2. CASE ScriptTruncate(t)
  <2>1. Writing(t) /\ pc[t] = "truncate" /\ UNCHANGED <<alone, overlapped, cut>> /\ buf' = buf
        /\ \A u \in Threads : u # t => pc'[u] = pc[u]
    BY <1>2 DEF TypeOK, ScriptTruncate, Goto, Writing, history
  <2>2. \/ pc'[t] = "rewrite" /\ handle'[t] = "file" /\ file' = Empty
        \/ pc'[t] = "failed" /\ file' = file
    BY <1>2 DEF TypeOK, ScriptTruncate, Goto
  <2>3. FileReadable' BY <2>1, <2>2 DEF WriterInv, FileReadable
  <2> QED BY <2>1, <2>2, <2>3, MiddleKeepsWriters
<1>3. CASE ScriptWrite(t)
  <2>1. Writing(t) /\ pc[t] = "rewrite" /\ pc'[t] \in {"respond", "failed"} /\ UNCHANGED <<alone, overlapped>>
        /\ buf' = buf /\ (\A u \in Threads : u # t => pc'[u] = pc[u])
    BY <1>3 DEF TypeOK, ScriptWrite, Goto, Writing
  <2>2. alone[t] => handle[t] = "file" /\ file = Empty /\ buf[t] \in Table BY <2>1 DEF WriterInv, StageInv, Writing
  <2>3. alone[t] => cut' \/ file' \in Table BY <1>3, <2>2 DEF ScriptWrite, WriteThrough, Overwritten
  <2>4. overlapped \/ alone[t] BY <2>1 DEF WriterInv, AloneInv
  <2>5. FileReadable' BY <2>1, <2>3, <2>4 DEF FileReadable
  <2> QED BY <2>1, <2>5, MiddleKeepsWriters
<1> QED BY <1>1, <1>2, <1>3 DEF ScriptStep

LEMMA RequestKeepsWriters ==
  ASSUME TypeOK, WriterInv, NEW t \in Threads,
         \/ \E i \in Ids, n \in Names : CreateChecked(t, i, n)
         \/ \E i \in Ids : DeletePopped(t, i) \/ SetSetting(t, i)
         \/ CreateImage(t) \/ AllocatePorts(t) \/ Insert(t) \/ DeleteOutput(t)
         \/ Respond(t) \/ RespondError(t)
  PROVE  WriterInv'
<1>1. /\ ~Writing(t) /\ UNCHANGED <<file, tmp, handle, alone, overlapped, cut>>
      /\ pc'[t] \notin {"open", "write", "replace", "truncate", "rewrite"}
      /\ \A u \in Threads : u # t => pc'[u] = pc[u] /\ buf'[u] = buf[u]
  <2>1. CASE \/ \E i \in Ids, n \in Names : CreateChecked(t, i, n)
             \/ \E i \in Ids : DeletePopped(t, i) \/ SetSetting(t, i)
    BY <2>1 DEF TypeOK, CreateChecked, DeletePopped, SetSetting, Goto, Writing, history
  <2>2. CASE CreateImage(t) \/ AllocatePorts(t) \/ Insert(t) \/ DeleteOutput(t)
    BY <2>2 DEF TypeOK, CreateImage, AllocatePorts, Insert, DeleteOutput, Goto, Writing, history
  <2>3. CASE Respond(t) \/ RespondError(t)
    BY <2>3 DEF TypeOK, Respond, RespondError, Forgotten, Goto, Writing
  <2> QED BY <2>1, <2>2, <2>3
<1> QED BY <1>1, OutsideKeepsWriters

LEMMA RestartKeepsWriters == ASSUME TypeOK, WriterInv, Restart PROVE WriterInv'
<1>1. AloneInv' /\ StageInv' BY DEF Restart, AloneInv, StageInv, Writing
<1>2. FileReadable' BY DEF Restart, WriterInv, FileReadable
<1> QED BY <1>1, <1>2 DEF WriterInv

LEMMA StepKeepsWriters ==
  ASSUME TypeOK, DesktopsAssumption, WriterInv, [Next]_vars PROVE WriterInv'
<1>1. CASE UNCHANGED vars
  BY <1>1 DEF WriterInv, AloneInv, StageInv, FileReadable, Writing, vars, history
<1>2. CASE Next
  BY <1>2, RequestKeepsWriters, SaveKeepsWriters, ScriptKeepsWriters, RestartKeepsWriters DEF Next
<1> QED BY <1>1, <1>2

LEMMA WriterAlways == Spec => []WriterInv
<1>1. Init => WriterInv BY WriterInit
<1>2. TypeOK /\ WriterInv /\ [Next]_vars => WriterInv' BY StepKeepsWriters, DesktopsAssumption
<1> QED BY <1>1, <1>2, TypeCorrect, PTL DEF Spec

\* state.json can be read, also after a crash and after saves that failed, unless
\* saves have overlapped, the script's write was cut short by a crash or an error,
\* or the script is just now rewriting the file (_save_state, set_vm_mode).
THEOREM FileStaysReadable == Spec => []FileReadable
<1>1. WriterInv => FileReadable BY DEF WriterInv
<1> QED BY <1>1, WriterAlways, PTL

\* The only step that takes a thread from its replace to a script, an answer or an
\* error is its own replace.
LEMMA ReplaceLeaves ==
  ASSUME TypeOK, NEW t \in Threads, pc[t] = "replace", pc'[t] \in {"script", "respond", "failed"}, Next
  PROVE  SaveReplace(t)
<1>1. ~Restart BY DEF Restart
<1>2. PICK u \in Threads :
         \/ \E i \in Ids, n \in Names : CreateChecked(u, i, n)
         \/ \E i \in Ids : DeletePopped(u, i) \/ SetSetting(u, i)
         \/ CreateImage(u) \/ AllocatePorts(u) \/ Insert(u) \/ DeleteOutput(u)
         \/ SaveStep(u) \/ ScriptStep(u)
         \/ Respond(u) \/ RespondError(u)
  BY <1>1 DEF Next
<1>3. u = t
  BY <1>2 DEF TypeOK, CreateChecked, DeletePopped, SetSetting, CreateImage, AllocatePorts, Insert,
    DeleteOutput, SaveStep, SaveDump, SaveOpen, SaveWrite, SaveReplace, ScriptStep, ScriptRead,
    ScriptTruncate, ScriptWrite, Respond, RespondError, Forgotten, Goto
<1> QED BY <1>2, <1>3 DEF CreateChecked, DeletePopped, SetSetting, CreateImage, AllocatePorts, Insert,
    DeleteOutput, SaveStep, SaveDump, SaveOpen, SaveWrite, ScriptStep, ScriptRead,
    ScriptTruncate, ScriptWrite, Respond, RespondError

\* A save that no other writer overlaps repairs state.json, whatever was left in the
\* two files before (_save_state).
THEOREM QuietSavesRepair == Spec => QuietSaveRepairs
<1>1. ASSUME TypeOK, WriterInv, [Next]_vars, NEW t \in Threads, pc[t] = "replace", alone[t],
             pc'[t] \in {"script", "respond", "failed"}
      PROVE  file' = buf[t]
  <2>1. Next BY <1>1 DEF vars
  <2>2. SaveReplace(t) BY <1>1, <2>1, ReplaceLeaves
  <2>3. tmp = buf[t] /\ buf[t] \in Table BY <1>1 DEF WriterInv, StageInv, Writing
  <2>4. tmp # Absent BY <2>3, DesktopsAssumption DEF DesktopsAssumption
  <2> QED BY <2>2, <2>3, <2>4 DEF SaveReplace
<1>2. TypeOK /\ WriterInv /\ [Next]_vars =>
        [\A t \in Threads : pc[t] = "replace" /\ alone[t] /\ pc'[t] \in {"script", "respond", "failed"}
           => file' = buf[t]]_vars
  BY <1>1
<1> QED BY <1>2, TypeCorrect, WriterAlways, PTL DEF Spec, QuietSaveRepairs

----------------------------------------------------------------------------
(***************************************************************************)
(* Answers.  What a client was told of an id agrees with memory, with what *)
(* every writer is about to write and with state.json.  What it is about   *)
(* to be told agrees with memory, with what its own thread writes and,     *)
(* once that thread answers, with all of them.                             *)
(***************************************************************************)
Agrees(table, i, op) == (op = "create") <=> (table[i] # NoDesktop)

Settled(i, op) ==
  /\ Agrees(mem, i, op)
  /\ \A u \in Threads : Writing(u) => Agrees(buf[u], i, op)
  /\ (\E u \in Threads : pc[u] = "rewrite") \/ Agrees(Loaded(file), i, op)

Told(i) ==
  /\ standing[i] = "there" => Settled(i, "create")
  /\ standing[i] = "gone"  => Settled(i, "delete")

Pending(i, t) ==
  /\ req[t].id = i /\ req[t].op \in {"create", "delete"}
  /\ pc[t] \in {"output", "dump", "open", "write", "replace", "respond", "failed"}
  /\ Agrees(mem, i, req[t].op)
  /\ pc[t] \in {"open", "write", "replace"} => Agrees(buf[t], i, req[t].op)
  /\ pc[t] = "respond" => Settled(i, req[t].op)

AnswerInv ==
  overlapped \/ cut \/
  \A i \in Ids : Told(i) /\ \A t \in Threads : standing[i] = t => Pending(i, t)

LEMMA AnswerInit == ASSUME Init, DesktopsAssumption PROVE AnswerInv
BY DEF Init, AnswerInv, Told, DesktopsAssumption

\* A step of one thread that neither begins a write nor touches the file or the id.
LEMMA SettledStays ==
  ASSUME NEW t \in Threads, NEW i \in Ids, NEW op, Settled(i, op),
         mem'[i] = mem[i], file' = file,
         \A u \in Threads : u # t => pc'[u] = pc[u] /\ buf'[u] = buf[u],
         Writing(t)' => Writing(t) /\ buf'[t] = buf[t],
         pc[t] # "rewrite"
  PROVE  Settled(i, op)'
<1>1. \A u \in Threads : Writing(u)' => Writing(u) /\ buf'[u] = buf[u] BY DEF Writing
<1>2. \A u \in Threads : pc[u] = "rewrite" => pc'[u] = "rewrite" OBVIOUS
<1> QED BY <1>1, <1>2 DEF Settled, Agrees

\* The same for what other threads are about to answer.
LEMMA OthersStay ==
  ASSUME NEW t \in Threads, NEW i \in Ids, NEW u \in Threads, u # t, Pending(i, u),
         mem'[i] = mem[i], req'[u] = req[u], pc'[u] = pc[u], buf'[u] = buf[u],
         Settled(i, req[u].op) => Settled(i, req[u].op)'
  PROVE  Pending(i, u)'
BY DEF Pending, Agrees

\* Steps that change neither memory, nor files, nor what clients know.
LEMMA IdleStepAnswers ==
  ASSUME TypeOK, AnswerInv, ~overlapped', ~cut', NEW t \in Threads,
         UNCHANGED <<mem, file, standing, overlapped, cut>>,
         \A u \in Threads : u # t => pc'[u] = pc[u] /\ buf'[u] = buf[u] /\ req'[u] = req[u],
         Writing(t)' => Writing(t) /\ buf'[t] = buf[t], pc[t] # "rewrite",
         \A i \in Ids : standing[i] = t /\ Pending(i, t) => Pending(i, t)'
  PROVE  AnswerInv'
<1> SUFFICES ASSUME NEW i \in Ids
             PROVE  Told(i)' /\ \A u \in Threads : standing'[i] = u => Pending(i, u)'
  BY DEF AnswerInv
<1>1. Told(i) /\ \A u \in Threads : standing[i] = u => Pending(i, u) BY DEF AnswerInv
<1>2. \A op \in {"create", "delete"} : Settled(i, op) => Settled(i, op)' BY SettledStays
<1>3. Told(i)' BY <1>1, <1>2 DEF Told
<1>4. ASSUME NEW u \in Threads, standing'[i] = u PROVE Pending(i, u)'
  <2>1. CASE u = t BY <1>1, <1>4, <2>1
  <2>2. CASE u # t
    <3>1. Pending(i, u) BY <1>1, <1>4
    <3>2. req[u].op \in {"create", "delete"} BY <3>1 DEF Pending
    <3> QED BY <1>2, <2>2, <3>1, <3>2, OthersStay
  <2> QED BY <2>1, <2>2
<1> QED BY <1>3, <1>4

LEMMA RequestKeepsAnswers ==
  ASSUME TypeOK, AnswerInv, ~overlapped', ~cut', NEW t \in Threads,
         \/ \E i \in Ids, n \in Names : CreateChecked(t, i, n)
         \/ \E i \in Ids : SetSetting(t, i)
         \/ CreateImage(t) \/ AllocatePorts(t) \/ DeleteOutput(t)
  PROVE  AnswerInv'
<1>1. CASE \E i \in Ids, n \in Names : CreateChecked(t, i, n)
  <2>1. pc[t] = "idle" /\ pc'[t] = "image" BY <1>1 DEF TypeOK, CreateChecked, Goto
  <2>2. \A i \in Ids : ~Pending(i, t) BY <2>1 DEF Pending
  <2> QED BY <1>1, <2>1, <2>2, IdleStepAnswers DEF TypeOK, CreateChecked, Goto, Writing
<1>2. CASE \E i \in Ids : SetSetting(t, i)
  <2>1. pc[t] = "idle" /\ pc'[t] = "dump" BY <1>2 DEF TypeOK, SetSetting, Goto
  <2>2. \A i \in Ids : ~Pending(i, t) BY <2>1 DEF Pending
  <2> QED BY <1>2, <2>1, <2>2, IdleStepAnswers DEF TypeOK, SetSetting, Goto, Writing, history
<1>3. CASE CreateImage(t) \/ AllocatePorts(t)
  <2>1. pc[t] \in {"image", "allocate"} /\ pc'[t] \in {"allocate", "insert", "idle"}
    BY <1>3 DEF TypeOK, CreateImage, AllocatePorts, Goto
  <2>2. \A i \in Ids : ~Pending(i, t) BY <2>1 DEF Pending
  <2> QED BY <1>3, <2>1, <2>2, IdleStepAnswers DEF TypeOK, CreateImage, AllocatePorts, Goto, Writing, history
<1>4. CASE DeleteOutput(t)
  <2>1. pc[t] = "output" /\ pc'[t] \in {"dump", "failed"} /\ mem' = mem /\ req' = req
    BY <1>4 DEF TypeOK, DeleteOutput, Goto
  <2>2. \A i \in Ids : Pending(i, t) => Pending(i, t)' BY <2>1 DEF Pending, Agrees
  <2> QED BY <1>4, <2>1, <2>2, IdleStepAnswers DEF TypeOK, DeleteOutput, Goto, Writing, history
<1> QED BY <1>1, <1>2, <1>3, <1>4

\* A request that changes the table takes the id over.
LEMMA ChangeKeepsAnswers ==
  ASSUME TypeOK, DesktopsAssumption, AnswerInv, ~overlapped', ~cut', NEW t \in Threads, NEW j \in Ids,
         UNCHANGED <<file, overlapped, cut, buf>>,
         \A u \in Threads : u # t => pc'[u] = pc[u] /\ req'[u] = req[u],
         pc[t] \in {"idle", "insert"}, pc'[t] \in {"output", "dump"},
         standing' = [standing EXCEPT ![j] = t],
         \A i \in Ids : i # j => mem'[i] = mem[i],
         req'[t].id = j, req'[t].op \in {"create", "delete"}, Agrees(mem', j, req'[t].op)
  PROVE  AnswerInv'
<1> SUFFICES ASSUME NEW i \in Ids
             PROVE  Told(i)' /\ \A u \in Threads : standing'[i] = u => Pending(i, u)'
  BY DEF AnswerInv
<1>1. Told(i) /\ \A u \in Threads : standing[i] = u => Pending(i, u) BY DEF AnswerInv
<1>2. CASE i = j
  <2>1. standing'[i] = t BY <1>2 DEF TypeOK
  <2>2. Told(i)' BY <2>1 DEF Told, DesktopsAssumption
  <2>3. Pending(i, t)' BY <1>2 DEF Pending
  <2> QED BY <2>1, <2>2, <2>3
<1>3. CASE i # j
  <2>1. standing'[i] = standing[i] /\ mem'[i] = mem[i] BY <1>3 DEF TypeOK
  <2>2. \A op \in {"create", "delete"} : Settled(i, op) => Settled(i, op)'
    BY <2>1, SettledStays DEF Writing
  <2>3. Told(i)' BY <1>1, <2>1, <2>2 DEF Told
  <2>4. ASSUME NEW u \in Threads, standing'[i] = u PROVE Pending(i, u)'
    <3>1. Pending(i, u) /\ u # t BY <1>1, <2>1, <2>4 DEF Pending
    <3>2. req[u].op \in {"create", "delete"} BY <3>1 DEF Pending
    <3> QED BY <2>1, <2>2, <3>1, <3>2, OthersStay
  <2> QED BY <2>3, <2>4
<1> QED BY <1>2, <1>3

LEMMA InsertKeepsAnswers ==
  ASSUME TypeOK, DesktopsAssumption, AnswerInv, ~overlapped', ~cut', NEW t \in Threads, Insert(t)
  PROVE  AnswerInv'
<1> DEFINE j == req[t].id
<1>1. j \in Ids /\ req[t].op = "create" /\ req[t].desktop # NoDesktop /\ pc[t] = "insert"
  BY DEF TypeOK, Insert, DesktopsAssumption
<1>2. mem'[j] # NoDesktop /\ \A i \in Ids : i # j => mem'[i] = mem[i]
  BY <1>1 DEF TypeOK, Insert, Table
<1>3. UNCHANGED <<file, overlapped, cut, buf, req>> /\ standing' = [standing EXCEPT ![j] = t]
      /\ pc'[t] = "dump" /\ \A u \in Threads : u # t => pc'[u] = pc[u]
  BY DEF TypeOK, Insert, Goto
<1>4. Agrees(mem', j, "create") BY <1>2 DEF Agrees
<1>5. req'[t].id = j /\ req'[t].op = "create" /\ \A u \in Threads : u # t => req'[u] = req[u]
  BY <1>1, <1>3
<1> HIDE DEF j
<1>6. /\ UNCHANGED <<file, overlapped, cut, buf>>
      /\ \A u \in Threads : u # t => pc'[u] = pc[u] /\ req'[u] = req[u]
      /\ pc[t] \in {"idle", "insert"} /\ pc'[t] \in {"output", "dump"}
      /\ req'[t].op \in {"create", "delete"} /\ Agrees(mem', j, req'[t].op)
  BY <1>1, <1>3, <1>4, <1>5
<1> QED BY <1>1, <1>2, <1>3, <1>5, <1>6, ChangeKeepsAnswers, Zenon

LEMMA PopKeepsAnswers ==
  ASSUME TypeOK, DesktopsAssumption, AnswerInv, ~overlapped', ~cut', NEW t \in Threads, NEW j \in Ids,
         DeletePopped(t, j)
  PROVE  AnswerInv'
<1>1. mem'[j] = NoDesktop /\ (\A i \in Ids : i # j => mem'[i] = mem[i]) /\ pc[t] = "idle"
  BY DEF TypeOK, DeletePopped, Table
<1>2. UNCHANGED <<file, overlapped, cut, buf>> /\ standing' = [standing EXCEPT ![j] = t]
      /\ pc'[t] = "output" /\ req'[t].id = j /\ req'[t].op = "delete"
      /\ \A u \in Threads : u # t => pc'[u] = pc[u] /\ req'[u] = req[u]
  BY DEF TypeOK, DeletePopped, Goto
<1>3. Agrees(mem', j, "delete") BY <1>1 DEF Agrees
<1>4. /\ pc[t] \in {"idle", "insert"} /\ pc'[t] \in {"output", "dump"}
      /\ req'[t].op \in {"create", "delete"} /\ Agrees(mem', j, req'[t].op)
  BY <1>1, <1>2, <1>3
<1> QED BY <1>1, <1>2, <1>4, ChangeKeepsAnswers, Zenon

LEMMA ErrorKeepsAnswers ==
  ASSUME TypeOK, DesktopsAssumption, AnswerInv, ~overlapped', ~cut', NEW t \in Threads, RespondError(t)
  PROVE  AnswerInv'
<1>1. /\ UNCHANGED <<mem, file, overlapped, cut>> /\ pc[t] = "failed" /\ pc'[t] = "idle"
      /\ \A u \in Threads : u # t => pc'[u] = pc[u] /\ buf'[u] = buf[u] /\ req'[u] = req[u]
  BY DEF TypeOK, RespondError, Forgotten, Goto
<1>2. \A i \in Ids : standing'[i] \in {standing[i], Nobody} /\ (standing[i] = t => standing'[i] = Nobody)
  <2>1. ASSUME NEW i \in Ids, standing[i] = t PROVE i = req[t].id
    BY <1>1, <2>1 DEF AnswerInv, Pending, RespondError
  <2>2. pc[t] # "idle" /\ req[t].id \in Ids BY <1>1 DEF TypeOK
  <2> QED BY <2>1, <2>2 DEF TypeOK, RespondError
<1> SUFFICES ASSUME NEW i \in Ids
             PROVE  Told(i)' /\ \A u \in Threads : standing'[i] = u => Pending(i, u)'
  BY DEF AnswerInv
<1>3. Told(i) /\ \A u \in Threads : standing[i] = u => Pending(i, u) BY <1>1 DEF AnswerInv
<1>4. \A op \in {"create", "delete"} : Settled(i, op) => Settled(i, op)'
  BY <1>1, SettledStays DEF Writing
<1>5. Told(i)' BY <1>2, <1>3, <1>4 DEF Told, DesktopsAssumption
<1>6. ASSUME NEW u \in Threads, standing'[i] = u PROVE Pending(i, u)'
  <2>1. u # t /\ standing[i] = u BY <1>2, <1>6 DEF DesktopsAssumption
  <2>2. Pending(i, u) BY <1>3, <2>1
  <2>3. req[u].op \in {"create", "delete"} BY <2>2 DEF Pending
  <2> QED BY <1>1, <1>4, <2>1, <2>2, <2>3, OthersStay
<1> QED BY <1>5, <1>6

\* Answer 200: what was pending is settled by now.
LEMMA RespondKeepsAnswers ==
  ASSUME TypeOK, DesktopsAssumption, AnswerInv, ~overlapped', ~cut', NEW t \in Threads, Respond(t)
  PROVE  AnswerInv'
<1>1. /\ UNCHANGED <<mem, file, overlapped, cut>> /\ pc[t] = "respond" /\ pc'[t] = "idle"
      /\ \A u \in Threads : u # t => pc'[u] = pc[u] /\ buf'[u] = buf[u] /\ req'[u] = req[u]
  BY DEF TypeOK, Respond, Forgotten, Goto
<1>2. req[t].id \in Ids BY <1>1 DEF TypeOK
<1> SUFFICES ASSUME NEW i \in Ids
             PROVE  Told(i)' /\ \A u \in Threads : standing'[i] = u => Pending(i, u)'
  BY DEF AnswerInv
<1>3. Told(i) /\ \A u \in Threads : standing[i] = u => Pending(i, u) BY <1>1 DEF AnswerInv
<1>4. \A op \in {"create", "delete"} : Settled(i, op) => Settled(i, op)'
  BY <1>1, SettledStays DEF Writing
<1>5. CASE standing[i] = t
  <2>1. i = req[t].id /\ req[t].op \in {"create", "delete"} /\ Settled(i, req[t].op)
    BY <1>1, <1>3, <1>5 DEF Pending
  <2>2. standing'[i] = IF req[t].op = "create" THEN "there" ELSE "gone"
    BY <1>5, <2>1 DEF TypeOK, Respond
  <2>3. standing'[i] \notin Threads BY <2>2 DEF DesktopsAssumption
  <2>4. Told(i)' BY <1>4, <2>1, <2>2 DEF Told
  <2> QED BY <2>3, <2>4
<1>6. CASE standing[i] # t
  <2>1. standing'[i] = standing[i] BY <1>6 DEF TypeOK, Respond
  <2>2. Told(i)' BY <1>3, <1>4, <2>1 DEF Told
  <2>3. ASSUME NEW u \in Threads, standing'[i] = u PROVE Pending(i, u)'
    <3>1. u # t /\ Pending(i, u) BY <1>3, <1>6, <2>1, <2>3
    <3>2. req[u].op \in {"create", "delete"} BY <3>1 DEF Pending
    <3> QED BY <1>1, <1>4, <3>1, <3>2, OthersStay
  <2> QED BY <2>2, <2>3
<1> QED BY <1>5, <1>6

LEMMA BeginKeepsAnswers ==
  ASSUME TypeOK, AnswerInv, ~overlapped', ~cut', NEW t \in Threads,
         pc[t] \in {"dump", "script"}, pc'[t] \in {"open", "truncate"},
         BeginWriting(t), UNCHANGED <<mem, file, standing, req, cut>>,
         \A u \in Threads : u # t => pc'[u] = pc[u] /\ buf'[u] = buf[u],
         \A i \in Ids, op \in {"create", "delete"} : Settled(i, op) => Agrees(buf'[t], i, op),
         \A i \in Ids : standing[i] = t /\ Pending(i, t) => Agrees(buf'[t], i, req[t].op) /\ pc'[t] = "open"
  PROVE  AnswerInv'
<1> SUFFICES ASSUME NEW i \in Ids
             PROVE  Told(i)' /\ \A u \in Threads : standing'[i] = u => Pending(i, u)'
  BY DEF AnswerInv
<1>1. ~overlapped /\ (\A u \in Threads : u # t => ~Writing(u)) BY DEF BeginWriting
<1>2. \A u \in Threads : u # t => pc'[u] = pc[u] OBVIOUS
<1>3. Told(i) /\ \A u \in Threads : standing[i] = u => Pending(i, u) BY <1>1 DEF AnswerInv
<1>4. ASSUME NEW op \in {"create", "delete"}, Settled(i, op) PROVE Settled(i, op)'
  <2>1. \A u \in Threads : Writing(u)' => u = t BY <1>1, <1>2 DEF Writing
  <2>2. \A u \in Threads : pc[u] = "rewrite" => pc'[u] = "rewrite" BY <1>2
  <2>3. Agrees(buf'[t], i, op) BY <1>4
  <2> QED BY <1>4, <2>1, <2>2, <2>3 DEF Settled, Agrees
<1>5. Told(i)' BY <1>3, <1>4 DEF Told
<1>6. ASSUME NEW u \in Threads, standing'[i] = u PROVE Pending(i, u)'
  <2>1. Pending(i, u) BY <1>3, <1>6
  <2>2. CASE u = t
    <3>1. Agrees(buf'[t], i, req[t].op) /\ pc'[t] = "open" BY <1>6, <2>1, <2>2
    <3> QED BY <1>2, <2>1, <2>2, <3>1 DEF Pending, Agrees
  <2>3. CASE u # t
    <3>1. req[u].op \in {"create", "delete"} BY <2>1 DEF Pending
    <3> QED BY <1>2, <1>4, <2>1, <2>3, <3>1, OthersStay
  <2> QED BY <2>2, <2>3
<1> QED BY <1>5, <1>6

\* A writer that is alone puts into the file what agrees with every answer.
LEMMA EndKeepsAnswers ==
  ASSUME TypeOK, WriterInv, AnswerInv, ~overlapped', ~cut', NEW t \in Threads,
         Writing(t), alone[t], file' = buf[t], UNCHANGED <<mem, standing, req, buf, overlapped, cut>>,
         pc'[t] \in {"script", "respond", "failed"}, \A u \in Threads : u # t => pc'[u] = pc[u],
         \A i \in Ids : standing[i] = t /\ Pending(i, t) => pc[t] = "replace" /\ pc'[t] = "respond"
  PROVE  AnswerInv'
<1> SUFFICES ASSUME NEW i \in Ids
             PROVE  Told(i)' /\ \A u \in Threads : standing'[i] = u => Pending(i, u)'
  BY DEF AnswerInv
<1>1. Told(i) /\ \A u \in Threads : standing[i] = u => Pending(i, u) BY DEF AnswerInv
<1>2. \A u \in Threads : ~Writing(u)' BY DEF WriterInv, AloneInv, Writing
<1>3. Loaded(file)' = buf[t]
  <2>1. buf[t] \in Table BY DEF WriterInv, StageInv
  <2> QED BY <2>1 DEF Loaded
<1>4. ASSUME NEW op \in {"create", "delete"}, Settled(i, op) PROVE Settled(i, op)'
  BY <1>2, <1>3, <1>4 DEF Settled, Agrees
<1>5. Told(i)' BY <1>1, <1>4 DEF Told
<1>6. ASSUME NEW u \in Threads, standing'[i] = u PROVE Pending(i, u)'
  <2>1. Pending(i, u) /\ req[u].op \in {"create", "delete"} BY <1>1, <1>6 DEF Pending
  <2>2. CASE u = t
    <3>1. pc[t] = "replace" /\ pc'[t] = "respond" BY <1>6, <2>1, <2>2
    <3>2. Settled(i, req[t].op)' BY <1>2, <1>3, <2>1, <2>2, <3>1 DEF Pending, Settled, Agrees
    <3> QED BY <2>1, <2>2, <3>1, <3>2 DEF Pending, Agrees
  <2>3. CASE u # t BY <1>4, <2>1, <2>3, OthersStay
  <2> QED BY <2>2, <2>3
<1> QED BY <1>5, <1>6

LEMMA SaveKeepsAnswers ==
  ASSUME TypeOK, DesktopsAssumption, WriterInv, AnswerInv, ~overlapped', ~cut', NEW t \in Threads, SaveStep(t)
  PROVE  AnswerInv'
<1>1. CASE SaveDump(t)
  <2>1. buf'[t] = mem /\ \A u \in Threads : u # t => buf'[u] = buf[u] BY <1>1 DEF TypeOK, SaveDump
  <2>2. /\ pc[t] = "dump" /\ pc'[t] = "open" /\ BeginWriting(t)
        /\ UNCHANGED <<mem, file, standing, req, cut>>
        /\ \A u \in Threads : u # t => pc'[u] = pc[u]
    BY <1>1 DEF TypeOK, SaveDump, Goto
  <2>3. \A i \in Ids, op \in {"create", "delete"} : Settled(i, op) => Agrees(buf'[t], i, op)
    BY <2>1 DEF Settled
  <2>4. \A i \in Ids : standing[i] = t /\ Pending(i, t) => Agrees(buf'[t], i, req[t].op)
    BY <2>1 DEF Pending
  <2> QED BY <2>1, <2>2, <2>3, <2>4, BeginKeepsAnswers
<1>2. CASE SaveOpen(t)
  <2>1. /\ pc[t] = "open" /\ pc'[t] = "write" /\ UNCHANGED <<mem, file, req, buf, standing, overlapped, cut>>
        /\ \A u \in Threads : u # t => pc'[u] = pc[u]
    BY <1>2 DEF TypeOK, SaveOpen, Goto, history
  <2>2. \A i \in Ids : Pending(i, t) => Pending(i, t)' BY <2>1 DEF Pending, Agrees
  <2> QED BY <2>1, <2>2, IdleStepAnswers DEF Writing
<1>3. CASE SaveWrite(t)
  <2>1. /\ pc[t] = "write" /\ pc'[t] \in {"replace", "failed"}
        /\ UNCHANGED <<mem, req, buf, standing, overlapped, cut, alone>>
        /\ \A u \in Threads : u # t => pc'[u] = pc[u]
    BY <1>3 DEF TypeOK, SaveWrite, Goto, history
  <2>2. alone[t] BY <2>1 DEF WriterInv, AloneInv, Writing
  <2>3. handle[t] = "tmp" BY <2>1, <2>2 DEF WriterInv, StageInv
  <2>4. file' = file BY <1>3, <2>3 DEF SaveWrite, WriteThrough, WriteCut
  <2>5. \A i \in Ids : Pending(i, t) => Pending(i, t)' BY <2>1 DEF Pending, Agrees
  <2> QED BY <2>1, <2>4, <2>5, IdleStepAnswers DEF Writing
<1>4. CASE SaveReplace(t)
  <2>1. /\ pc[t] = "replace" /\ UNCHANGED <<mem, req, buf, standing, overlapped, cut, alone>>
        /\ \A u \in Threads : u # t => pc'[u] = pc[u]
    BY <1>4 DEF TypeOK, SaveReplace, Goto, history
  <2>2. Writing(t) /\ alone[t] BY <2>1 DEF WriterInv, AloneInv, Writing
  <2>3. tmp = buf[t] /\ buf[t] \in Table BY <2>1, <2>2 DEF WriterInv, StageInv
  <2>4. file' = buf[t] /\ pc' = [pc EXCEPT ![t] = IF req[t].op = "set" THEN "script" ELSE "respond"]
    BY <1>4, <2>3 DEF SaveReplace, DesktopsAssumption, Goto
  <2>5. pc'[t] = IF req[t].op = "set" THEN "script" ELSE "respond" BY <2>4 DEF TypeOK
  <2>6. \A i \in Ids : Pending(i, t) => pc'[t] = "respond" BY <2>5 DEF Pending
  <2> QED BY <2>1, <2>2, <2>4, <2>5, <2>6, EndKeepsAnswers
<1> QED BY <1>1, <1>2, <1>3, <1>4 DEF SaveStep

LEMMA ScriptKeepsAnswers ==
  ASSUME TypeOK, DesktopsAssumption, WriterInv, AnswerInv, ~overlapped', ~cut', NEW t \in Threads, ScriptStep(t)
  PROVE  AnswerInv'
<1>0. \A i \in Ids : pc[t] \in {"script", "truncate", "rewrite"} => ~Pending(i, t) BY DEF Pending
<1>1. CASE ScriptRead(t)
  <2>1. /\ pc[t] = "script" /\ UNCHANGED <<mem, file, req, standing, cut>>
        /\ \A u \in Threads : u # t => pc'[u] = pc[u]
    BY <1>1 DEF TypeOK, ScriptRead, Goto
  <2>2. CASE Goto(t, "failed") /\ UNCHANGED <<buf, alone, overlapped>>
    <3>1. pc'[t] = "failed" BY <2>2 DEF TypeOK, Goto
    <3> QED BY <1>0, <2>1, <2>2, <3>1, IdleStepAnswers DEF Writing
  <2>3. CASE Loaded(file)[req[t].id] # NoDesktop /\ buf' = [buf EXCEPT ![t] = file]
             /\ BeginWriting(t) /\ Goto(t, "truncate")
    <3>1. file \in Table
      <4>1. req[t].id \in Ids BY <1>1 DEF TypeOK, ScriptRead
      <4> QED BY <2>3, <4>1 DEF Loaded, EmptyTable
    <3>2. buf'[t] = Loaded(file) /\ pc'[t] = "truncate" /\ \A u \in Threads : u # t => buf'[u] = buf[u]
      BY <2>3, <3>1 DEF TypeOK, Loaded, Goto
    <3>3. \A u \in Threads : pc[u] # "rewrite"
      <4>1. \A u \in Threads \ {t} : ~Writing(u) BY <2>3 DEF BeginWriting
      <4> QED BY <2>1, <4>1 DEF Writing
    <3>4. \A i \in Ids, op \in {"create", "delete"} : Settled(i, op) => Agrees(buf'[t], i, op)
      BY <3>2, <3>3 DEF Settled
    <3> QED BY <1>0, <2>1, <2>3, <3>2, <3>4, BeginKeepsAnswers
  <2> QED BY <1>1, <2>2, <2>3 DEF ScriptRead
<1>2. CASE ScriptTruncate(t)
  <2>1. /\ pc[t] = "truncate" /\ UNCHANGED <<mem, req, buf, standing, overlapped, cut>>
        /\ pc'[t] = "rewrite" \/ (pc'[t] = "failed" /\ file' = file)
        /\ \A u \in Threads : u # t => pc'[u] = pc[u]
    BY <1>2 DEF TypeOK, ScriptTruncate, Goto, history
  <2>2. \A u \in Threads : (Writing(u)' => Writing(u)) /\ (pc[u] = "rewrite" => pc'[u] = "rewrite")
    BY <2>1 DEF Writing
  <2>3. \A i \in Ids, op \in {"create", "delete"} : Settled(i, op) => Settled(i, op)'
    BY <2>1, <2>2 DEF Settled, Agrees, Loaded
  <2>4. ASSUME NEW i \in Ids PROVE Told(i)' BY <2>1, <2>3 DEF AnswerInv, Told
  <2>5. ASSUME NEW i \in Ids, NEW u \in Threads, standing'[i] = u PROVE Pending(i, u)'
    <3>1. Pending(i, u) /\ u # t BY <1>0, <2>1, <2>5 DEF AnswerInv
    <3>2. req[u].op \in {"create", "delete"} BY <3>1 DEF Pending
    <3> QED BY <2>1, <2>3, <3>1, <3>2, OthersStay
  <2> QED BY <2>4, <2>5 DEF AnswerInv
<1>3. CASE ScriptWrite(t)
  <2>1. /\ pc[t] = "rewrite" /\ pc'[t] \in {"respond", "failed"}
        /\ UNCHANGED <<mem, req, buf, standing, overlapped, alone>> /\ cut' = cut /\ WriteThrough(t)
        /\ \A u \in Threads : u # t => pc'[u] = pc[u]
    BY <1>3 DEF TypeOK, ScriptWrite, Goto
  <2>2. Writing(t) /\ alone[t] BY <2>1 DEF WriterInv, AloneInv, Writing
  <2>3. handle[t] = "file" /\ file = Empty BY <2>1, <2>2 DEF WriterInv, StageInv
  <2>4. file' = buf[t] BY <2>1, <2>3 DEF WriteThrough, Overwritten
  <2> QED BY <1>0, <2>1, <2>2, <2>4, EndKeepsAnswers
<1> QED BY <1>1, <1>2, <1>3 DEF ScriptStep

LEMMA RestartKeepsAnswers ==
  ASSUME TypeOK, DesktopsAssumption, AnswerInv, ~overlapped', ~cut', Restart PROVE AnswerInv'
<1>1. ~overlapped /\ ~cut /\ (\A t \in Threads : pc[t] # "rewrite") /\ mem' = Loaded(file) /\ file' = file
      /\ \A u \in Threads : ~Writing(u)'
  BY DEF Restart, Writing
<1> SUFFICES ASSUME NEW i \in Ids PROVE Told(i)' /\ \A u \in Threads : standing'[i] # u
  BY DEF AnswerInv
<1>2. Told(i) BY <1>1 DEF AnswerInv
<1>3. standing'[i] = IF standing[i] \in Threads THEN Nobody ELSE standing[i] BY DEF Restart
<1>4. ASSUME NEW op, Settled(i, op) PROVE Settled(i, op)'
  BY <1>1, <1>4 DEF Settled, Agrees
<1>5. Told(i)' BY <1>2, <1>3, <1>4 DEF Told, DesktopsAssumption
<1> QED BY <1>3, <1>5 DEF DesktopsAssumption

LEMMA StepKeepsAnswers ==
  ASSUME TypeOK, DesktopsAssumption, WriterInv, AnswerInv, [Next]_vars PROVE AnswerInv'
<1>1. CASE overlapped' \/ cut' BY <1>1 DEF AnswerInv
<1>2. CASE ~overlapped' /\ ~cut' /\ UNCHANGED vars
  <2>1. \A i \in Ids, op \in {"create", "delete"} : Settled(i, op) <=> Settled(i, op)'
    BY <1>2 DEF Settled, Agrees, Writing, vars, history
  <2> QED BY <1>2, <2>1 DEF AnswerInv, Told, Pending, Agrees, vars, history
<1>3. CASE ~overlapped' /\ ~cut' /\ Next
  BY <1>3, RequestKeepsAnswers, InsertKeepsAnswers, PopKeepsAnswers, ErrorKeepsAnswers,
     RespondKeepsAnswers, SaveKeepsAnswers, ScriptKeepsAnswers, RestartKeepsAnswers DEF Next
<1> QED BY <1>1, <1>2, <1>3

LEMMA AnswerAlways == Spec => []AnswerInv
<1>1. Init => AnswerInv BY AnswerInit, DesktopsAssumption
<1>2. TypeOK /\ WriterInv /\ AnswerInv /\ [Next]_vars => AnswerInv' BY StepKeepsAnswers, DesktopsAssumption
<1> QED BY <1>1, <1>2, TypeCorrect, WriterAlways, PTL DEF Spec

\* A desktop whose creation was answered with 200 is in state.json, and one whose
\* deletion was answered with 200 is not, over any number of requests, failures and
\* restarts, unless saves have overlapped or the script's write was cut short by a
\* crash or an error, and except while the script rewrites the file
\* (create_desktop, delete_desktop, _save_state, _load_state).
THEOREM AnswersStayDurable == Spec => []AnswersAreDurable
<1>1. AnswerInv => AnswersAreDurable
  BY DEF AnswerInv, AnswersAreDurable, Told, Settled, Agrees
<1> QED BY <1>1, AnswerAlways, PTL

----------------------------------------------------------------------------
(***************************************************************************)
(* Desktops implements Registry.  While writers do not overlap there is at *)
(* most one (SoleWriter), so that what a save has read is one table, and   *)
(* what a restart would find is that of the file or the one the script has *)
(* in hand (View).  The script empties the file only after it has read     *)
(* what is there (ReadInv).                                                *)
(***************************************************************************)
ReadInv == \A t \in Threads : pc[t] = "truncate" /\ alone[t] => file = buf[t]

\* A step of the request that a thread serves.
StepOf(t) ==
  \/ \E i \in Ids, n \in Names : CreateChecked(t, i, n)
  \/ \E i \in Ids : DeletePopped(t, i) \/ SetSetting(t, i)
  \/ CreateImage(t) \/ AllocatePorts(t) \/ Insert(t) \/ DeleteOutput(t)
  \/ SaveStep(t) \/ ScriptStep(t)
  \/ Respond(t) \/ RespondError(t)

LEMMA NextIs == Next <=> Restart \/ \E t \in Threads : StepOf(t)
BY DEF Next, StepOf

\* What a step of one thread leaves alone of another, and that only a writer writes.
LEMMA StepLeavesOthers ==
  ASSUME TypeOK, NEW t \in Threads, StepOf(t)
  PROVE  /\ \A u \in Threads : u # t => pc'[u] = pc[u] /\ buf'[u] = buf[u] /\ (alone'[u] => alone[u])
         /\ Writing(t) \/ file' = file
<1>1. CASE \/ \E i \in Ids, n \in Names : CreateChecked(t, i, n)
           \/ \E i \in Ids : DeletePopped(t, i) \/ SetSetting(t, i)
  BY <1>1 DEF TypeOK, CreateChecked, DeletePopped, SetSetting, Goto, history
<1>2. CASE CreateImage(t) \/ AllocatePorts(t) \/ Insert(t) \/ DeleteOutput(t)
  BY <1>2 DEF TypeOK, CreateImage, AllocatePorts, Insert, DeleteOutput, Goto, history
<1>3. CASE SaveStep(t)
  BY <1>3 DEF TypeOK, SaveStep, SaveDump, SaveOpen, SaveWrite, SaveReplace, BeginWriting, Goto, Writing, history
<1>4. CASE ScriptStep(t)
  BY <1>4 DEF TypeOK, ScriptStep, ScriptRead, ScriptTruncate, ScriptWrite, BeginWriting, Goto, Writing, history
<1>5. CASE Respond(t) \/ RespondError(t)
  BY <1>5 DEF TypeOK, Respond, RespondError, Forgotten, Goto
<1> QED BY <1>1, <1>2, <1>3, <1>4, <1>5 DEF StepOf

\* The only step that takes a thread to the emptying of the file is the script's reading.
LEMMA TruncateFollowsRead ==
  ASSUME TypeOK, NEW t \in Threads, StepOf(t), pc'[t] = "truncate"
  PROVE  file' = file /\ buf'[t] = file
<1>1. ScriptRead(t)
  BY DEF TypeOK, StepOf, CreateChecked, DeletePopped, SetSetting, CreateImage, AllocatePorts, Insert,
    DeleteOutput, SaveStep, SaveDump, SaveOpen, SaveWrite, SaveReplace, ScriptStep,
    ScriptTruncate, ScriptWrite, Respond, RespondError, Forgotten, Goto
<1> QED BY <1>1 DEF TypeOK, ScriptRead, Goto

LEMMA StepKeepsRead ==
  ASSUME TypeOK, WriterInv, ReadInv, [Next]_vars PROVE ReadInv'
<1>1. CASE UNCHANGED vars BY <1>1 DEF ReadInv, vars, history
<1>2. CASE Restart BY <1>2 DEF ReadInv, Restart
<1>3. ASSUME NEW t \in Threads, StepOf(t) PROVE ReadInv'
  <2> SUFFICES ASSUME NEW u \in Threads, pc'[u] = "truncate", alone'[u] PROVE file' = buf'[u]
    BY DEF ReadInv
  <2>1. CASE u = t BY <1>3, <2>1, TruncateFollowsRead
  <2>2. CASE u # t
    <3>1. pc[u] = "truncate" /\ alone[u] /\ buf'[u] = buf[u] /\ (Writing(t) \/ file' = file)
      BY <1>3, <2>2, StepLeavesOthers
    <3>2. ~Writing(t) BY <2>2, <3>1 DEF WriterInv, AloneInv, Writing
    <3> QED BY <3>1, <3>2 DEF ReadInv
  <2> QED BY <2>1, <2>2
<1> QED BY <1>1, <1>2, <1>3, NextIs

LEMMA ReadAlways == Spec => []ReadInv
<1>1. Init => ReadInv BY DEF Init, ReadInv
<1>2. TypeOK /\ WriterInv /\ ReadInv /\ [Next]_vars => ReadInv' BY StepKeepsRead
<1> QED BY <1>1, <1>2, TypeCorrect, WriterAlways, PTL DEF Spec

LEMMA SoleWriter ==
  ASSUME WriterInv, ~overlapped, NEW t \in Threads, Writing(t)
  PROVE  alone[t] /\ \A u \in Threads : Writing(u) => u = t
BY DEF WriterInv, AloneInv

\* What shows of a thread that is the only writer, or not one.
View ==
  \A t \in Threads : (\A u \in Threads : Writing(u) => u = t) =>
    /\ Dumped = IF pc[t] \in {"open", "write", "replace"} THEN {buf[t]} ELSE {}
    /\ OnDisk = IF pc[t] = "rewrite" THEN buf[t] ELSE Loaded(file)

LEMMA ViewIs == View
<1> SUFFICES ASSUME NEW t \in Threads, \A u \in Threads : Writing(u) => u = t
             PROVE  /\ Dumped = IF pc[t] \in {"open", "write", "replace"} THEN {buf[t]} ELSE {}
                    /\ OnDisk = IF pc[t] = "rewrite" THEN buf[t] ELSE Loaded(file)
  BY DEF View
<1>1. Saving = IF pc[t] \in {"open", "write", "replace"} THEN {t} ELSE {} BY DEF Saving, Writing
<1>2. Rewriting = IF pc[t] = "rewrite" THEN {t} ELSE {} BY DEF Rewriting, Writing
<1>3. Dumped = IF pc[t] \in {"open", "write", "replace"} THEN {buf[t]} ELSE {} BY <1>1 DEF Dumped
<1>4. (CHOOSE u \in {t} : TRUE) = t OBVIOUS
<1>5. OnDisk = IF pc[t] = "rewrite" THEN buf[t] ELSE Loaded(file) BY <1>2, <1>4 DEF OnDisk
<1> QED BY <1>3, <1>5

LEMMA ViewNext == View'
BY ViewIs, PTL

\* A thread that does not write changes nothing of what is saved or kept.
LEMMA OutsideUnseen ==
  ASSUME NEW t \in Threads, ~Writing(t), ~Writing(t)', file' = file,
         \A u \in Threads : u # t => pc'[u] = pc[u] /\ buf'[u] = buf[u]
  PROVE  Dumped' = Dumped /\ OnDisk' = OnDisk
<1>1. Saving' = Saving /\ Rewriting' = Rewriting BY DEF Saving, Rewriting, Writing
<1>2. \A u \in Saving \cup Rewriting : buf'[u] = buf[u] BY DEF Saving, Rewriting, Writing
<1>3. Dumped' = Dumped BY <1>1, <1>2 DEF Dumped
<1>4. OnDisk' = OnDisk
  <2>1. CASE Rewriting = {} BY <1>1, <2>1 DEF OnDisk, Loaded
  <2>2. CASE Rewriting # {}
    <3>1. PICK w \in Rewriting : w = CHOOSE u \in Rewriting : TRUE BY <2>2
    <3>2. OnDisk = buf[w] BY <2>2, <3>1 DEF OnDisk
    <3>3. OnDisk' = buf'[w] BY <1>1, <2>2, <3>1 DEF OnDisk
    <3> QED BY <1>2, <3>2, <3>3
  <2> QED BY <2>1, <2>2
<1> QED BY <1>3, <1>4
Words == [i \in Ids |-> Word(i)]

\* A step of the registry, or one that nobody sees.
Seen ==
  \/ UNCHANGED <<mem, Dumped, OnDisk, Words>>
  \/ Dumped = {} /\ Dumped' = {mem} /\ UNCHANGED <<mem, OnDisk, Words>>
  \/ Dumped = {OnDisk'} /\ Dumped' = {} /\ UNCHANGED <<mem, Words>>
  \/ Dumped # {} /\ Dumped' = {} /\ UNCHANGED <<mem, OnDisk, Words>>
  \/ mem' = OnDisk /\ Dumped' = {} /\ UNCHANGED <<OnDisk, Words>>
  \/ \E i \in Ids :
       \/ /\ mem'[i] \in Desktop \cup {NoDesktop} /\ mem' = [mem EXCEPT ![i] = mem'[i]]
          /\ Words' = [Words EXCEPT ![i] = "unsure"]
          /\ UNCHANGED <<Dumped, OnDisk>>
       \/ /\ Words' = [Words EXCEPT ![i] = "there"]
          /\ \A table \in {mem, OnDisk} \cup Dumped : table[i] # NoDesktop
          /\ UNCHANGED <<mem, Dumped, OnDisk>>
       \/ /\ Words' = [Words EXCEPT ![i] = "gone"]
          /\ \A table \in {mem, OnDisk} \cup Dumped : table[i] = NoDesktop
          /\ UNCHANGED <<mem, Dumped, OnDisk>>

\* What is said of an id changes only with who stands for it.
LEMMA SameWords == standing' = standing => Words' = Words
BY DEF Words, Word

\* The steps of a request before its save and the answers that say nothing.
LEMMA BystanderSeen ==
  ASSUME TypeOK, NEW t \in Threads,
         \/ \E i \in Ids, n \in Names : CreateChecked(t, i, n)
         \/ \E i \in Ids : SetSetting(t, i)
         \/ CreateImage(t) \/ AllocatePorts(t) \/ DeleteOutput(t)
  PROVE  Seen
<1>1. /\ ~Writing(t) /\ ~Writing(t)' /\ UNCHANGED <<mem, file, standing>>
      /\ \A u \in Threads : u # t => pc'[u] = pc[u] /\ buf'[u] = buf[u]
  BY DEF TypeOK, CreateChecked, SetSetting, CreateImage, AllocatePorts, DeleteOutput, Goto, Writing, history
<1> QED BY <1>1, OutsideUnseen, SameWords DEF Seen

LEMMA InsertSeen ==
  ASSUME TypeOK, DesktopsAssumption, NEW t \in Threads, Insert(t) PROVE Seen
<1> DEFINE i == req[t].id
<1>1. /\ ~Writing(t) /\ ~Writing(t)' /\ file' = file
      /\ \A u \in Threads : u # t => pc'[u] = pc[u] /\ buf'[u] = buf[u]
  BY DEF TypeOK, Insert, Goto, Writing
<1>2. i \in Ids /\ req[t].desktop \in Desktop BY DEF TypeOK, Insert
<1>3. mem' = [mem EXCEPT ![i] = req[t].desktop] /\ standing' = [standing EXCEPT ![i] = t] BY DEF Insert
<1> HIDE DEF i
<1>4. mem'[i] = req[t].desktop BY <1>2, <1>3 DEF TypeOK, Table
<1>5. Words' = [Words EXCEPT ![i] = "unsure"]
  BY <1>2, <1>3 DEF TypeOK, Words, Word, DesktopsAssumption
<1>6. mem' = [mem EXCEPT ![i] = mem'[i]] BY <1>3, <1>4
<1>7. mem'[i] \in Desktop \cup {NoDesktop} BY <1>2, <1>4
<1>8. Dumped' = Dumped /\ OnDisk' = OnDisk BY <1>1, OutsideUnseen
<1> QED BY <1>2, <1>5, <1>6, <1>7, <1>8 DEF Seen

LEMMA PopSeen ==
  ASSUME TypeOK, DesktopsAssumption, NEW t \in Threads, NEW i \in Ids, DeletePopped(t, i) PROVE Seen
<1>1. /\ ~Writing(t) /\ ~Writing(t)' /\ file' = file
      /\ \A u \in Threads : u # t => pc'[u] = pc[u] /\ buf'[u] = buf[u]
  BY DEF TypeOK, DeletePopped, Goto, Writing
<1>2. mem' = [mem EXCEPT ![i] = NoDesktop] /\ standing' = [standing EXCEPT ![i] = t] BY DEF DeletePopped
<1>3. mem'[i] = NoDesktop BY <1>2 DEF TypeOK, Table
<1>4. Words' = [Words EXCEPT ![i] = "unsure"]
  BY <1>2 DEF TypeOK, Words, Word, DesktopsAssumption
<1>5. mem' = [mem EXCEPT ![i] = mem'[i]] BY <1>2, <1>3
<1>6. mem'[i] \in Desktop \cup {NoDesktop} BY <1>3
<1>7. Dumped' = Dumped /\ OnDisk' = OnDisk BY <1>1, OutsideUnseen
<1> QED BY <1>4, <1>5, <1>6, <1>7 DEF Seen

\* What is settled is true of memory, of the disk and of a save under way.
LEMMA SettledEverywhere ==
  ASSUME NEW i \in Ids, NEW op, Settled(i, op), NEW table \in {mem, OnDisk} \cup Dumped
  PROVE  Agrees(table, i, op)
<1>1. CASE table = mem BY <1>1 DEF Settled
<1>2. CASE table \in Dumped
  <2>1. PICK u \in Threads : Writing(u) /\ table = buf[u] BY <1>2 DEF Dumped, Saving, Writing
  <2> QED BY <2>1 DEF Settled
<1>3. CASE table = OnDisk
  <2>1. CASE Rewriting = {}
    <3>1. table = Loaded(file) BY <1>3, <2>1 DEF OnDisk
    <3> QED BY <2>1, <3>1 DEF Settled, Rewriting
  <2>2. CASE Rewriting # {}
    <3>1. PICK w \in Rewriting : w = CHOOSE u \in Rewriting : TRUE BY <2>2
    <3>2. table = buf[w] /\ w \in Threads /\ Writing(w) BY <1>3, <2>2, <3>1 DEF OnDisk, Rewriting, Writing
    <3> QED BY <3>2 DEF Settled
  <2> QED BY <2>1, <2>2
<1> QED BY <1>1, <1>2, <1>3

LEMMA RespondSeen ==
  ASSUME TypeOK, DesktopsAssumption, AnswerInv, ~overlapped, ~cut, NEW t \in Threads, Respond(t)
  PROVE  Seen
<1> DEFINE i == req[t].id
<1>1. /\ ~Writing(t) /\ ~Writing(t)' /\ UNCHANGED <<mem, file>> /\ pc[t] = "respond"
      /\ \A u \in Threads : u # t => pc'[u] = pc[u] /\ buf'[u] = buf[u]
  BY DEF TypeOK, Respond, Forgotten, Goto, Writing
<1>2. i \in Ids BY <1>1 DEF TypeOK
<1>3. standing' = IF standing[i] # t THEN standing
                  ELSE [standing EXCEPT ![i] = IF req[t].op = "create" THEN "there" ELSE "gone"]
  BY DEF Respond
<1> HIDE DEF i
<1>4. Dumped' = Dumped /\ OnDisk' = OnDisk BY <1>1, OutsideUnseen
<1>5. CASE standing[i] # t BY <1>1, <1>3, <1>4, <1>5, SameWords DEF Seen
<1>6. CASE standing[i] = t
  <2>1. req[t].op \in {"create", "delete"} /\ Settled(i, req[t].op)
    BY <1>1, <1>2, <1>6 DEF AnswerInv, Pending
  <2>2. \A table \in {mem, OnDisk} \cup Dumped : Agrees(table, i, req[t].op)
    BY <1>2, <2>1, SettledEverywhere
  <2>3. CASE req[t].op = "create"
    <3>1. Words' = [Words EXCEPT ![i] = "there"] BY <1>2, <1>3, <1>6, <2>3 DEF TypeOK, Words, Word
    <3>2. \A table \in {mem, OnDisk} \cup Dumped : table[i] # NoDesktop BY <2>2, <2>3 DEF Agrees
    <3> QED BY <1>1, <1>2, <1>4, <3>1, <3>2 DEF Seen
  <2>4. CASE req[t].op = "delete"
    <3>1. Words' = [Words EXCEPT ![i] = "gone"] BY <1>2, <1>3, <1>6, <2>4 DEF TypeOK, Words, Word
    <3>2. \A table \in {mem, OnDisk} \cup Dumped : table[i] = NoDesktop BY <2>2, <2>4 DEF Agrees
    <3> QED BY <1>1, <1>2, <1>4, <3>1, <3>2 DEF Seen
  <2> QED BY <2>1, <2>3, <2>4
<1> QED BY <1>5, <1>6

\* An error says nothing of an id that had not been spoken of.
LEMMA ErrorSeen ==
  ASSUME TypeOK, DesktopsAssumption, NEW t \in Threads, RespondError(t) PROVE Seen
<1>1. /\ ~Writing(t) /\ ~Writing(t)' /\ UNCHANGED <<mem, file>>
      /\ \A u \in Threads : u # t => pc'[u] = pc[u] /\ buf'[u] = buf[u]
  BY DEF TypeOK, RespondError, Forgotten, Goto, Writing
<1>2. \A i \in Ids : standing'[i] = standing[i] \/ (standing[i] = t /\ standing'[i] = Nobody)
  BY DEF TypeOK, RespondError
<1>3. t \notin {"there", "gone"} /\ Nobody \notin {"there", "gone"} BY DEF DesktopsAssumption
<1>4. \A i \in Ids : Word(i)' = Word(i) BY <1>2, <1>3 DEF Word
<1>5. Words' = Words BY <1>4 DEF Words
<1> QED BY <1>1, <1>5, OutsideUnseen DEF Seen
\* The thread that begins to write, while writers do not overlap, is the only one.
LEMMA BeginIsSole ==
  ASSUME NEW t \in Threads, BeginWriting(t), ~overlapped', ~Writing(t),
         \A u \in Threads : u # t => pc'[u] = pc[u]
  PROVE  (\A u \in Threads : Writing(u) => u = t) /\ (\A u \in Threads : Writing(u)' => u = t)
<1>1. \A u \in Threads : u # t => ~Writing(u) BY DEF BeginWriting
<1> QED BY <1>1 DEF Writing

LEMMA SaveSeen ==
  ASSUME TypeOK, DesktopsAssumption, WriterInv, ~overlapped, ~overlapped', NEW t \in Threads, SaveStep(t)
  PROVE  Seen
<1>1. /\ UNCHANGED <<mem, standing>> /\ (pc[t] # "dump" => buf' = buf)
      /\ \A u \in Threads : u # t => pc'[u] = pc[u]
  BY DEF TypeOK, SaveStep, SaveDump, SaveOpen, SaveWrite, SaveReplace, Goto, history
<1>2. Words' = Words BY <1>1, SameWords
<1>3. Writing(t) => alone[t] /\ (\A u \in Threads : Writing(u) => u = t)
                     /\ (\A u \in Threads : Writing(u)' => u = t)
  BY <1>1, SoleWriter DEF Writing
<1>4. CASE SaveDump(t)
  <2>1. pc[t] = "dump" /\ pc'[t] = "open" /\ buf'[t] = mem /\ file' = file /\ BeginWriting(t)
    BY <1>4 DEF TypeOK, SaveDump, Goto
  <2>2. (\A u \in Threads : Writing(u) => u = t) /\ (\A u \in Threads : Writing(u)' => u = t)
    BY <1>1, <2>1, BeginIsSole DEF Writing
  <2>3. Dumped = {} /\ OnDisk = Loaded(file) BY <2>1, <2>2, ViewIs DEF View
  <2>4. Dumped' = {buf'[t]} /\ OnDisk' = Loaded(file)' BY <2>1, <2>2, ViewNext DEF View
  <2>5. Loaded(file)' = Loaded(file) BY <2>1 DEF Loaded
  <2> QED BY <1>1, <1>2, <2>1, <2>3, <2>4, <2>5 DEF Seen
<1>5. CASE SaveOpen(t)
  <2>1. pc[t] = "open" /\ pc'[t] = "write" /\ file' = file BY <1>5 DEF TypeOK, SaveOpen, Goto
  <2>2. Dumped = {buf[t]} /\ OnDisk = Loaded(file) BY <1>3, <2>1, ViewIs DEF View, Writing
  <2>3. Dumped' = {buf'[t]} /\ OnDisk' = Loaded(file)' BY <1>3, <2>1, ViewNext DEF View, Writing
  <2>4. Loaded(file)' = Loaded(file) BY <2>1 DEF Loaded
  <2> QED BY <1>1, <1>2, <2>1, <2>2, <2>3, <2>4 DEF Seen
<1>6. CASE SaveWrite(t)
  <2>1. pc[t] = "write" /\ pc'[t] \in {"replace", "failed"} BY <1>6 DEF TypeOK, SaveWrite, Goto
  <2>2. handle[t] = "tmp" BY <1>3, <2>1 DEF WriterInv, StageInv, Writing
  <2>3. file' = file BY <1>6, <2>2 DEF SaveWrite, WriteThrough, WriteCut
  <2>4. Dumped = {buf[t]} /\ OnDisk = Loaded(file) BY <1>3, <2>1, ViewIs DEF View, Writing
  <2>5. Dumped' = (IF pc'[t] = "replace" THEN {buf'[t]} ELSE {}) /\ OnDisk' = Loaded(file)'
    BY <1>3, <2>1, ViewNext DEF View, Writing
  <2>6. Loaded(file)' = Loaded(file) BY <2>3 DEF Loaded
  <2> QED BY <1>1, <1>2, <2>1, <2>4, <2>5, <2>6 DEF Seen
<1>7. CASE SaveReplace(t)
  <2>1. pc[t] = "replace" /\ pc'[t] \in {"failed", "script", "respond"}
    BY <1>7 DEF TypeOK, SaveReplace, Goto
  <2>2. tmp = buf[t] /\ buf[t] \in Table BY <1>3, <2>1 DEF WriterInv, StageInv, Writing
  <2>3. file' = buf[t] BY <1>7, <2>2 DEF SaveReplace, DesktopsAssumption
  <2>4. Dumped = {buf[t]} BY <1>3, <2>1, ViewIs DEF View, Writing
  <2>5. Dumped' = {} /\ OnDisk' = Loaded(file)' BY <1>3, <2>1, ViewNext DEF View, Writing
  <2>6. Loaded(file)' = buf[t] BY <2>2, <2>3 DEF Loaded
  <2> QED BY <1>1, <1>2, <2>4, <2>5, <2>6 DEF Seen
<1> QED BY <1>4, <1>5, <1>6, <1>7 DEF SaveStep

LEMMA ScriptSeen ==
  ASSUME TypeOK, DesktopsAssumption, WriterInv, ReadInv, ~overlapped, ~overlapped', ~cut',
         NEW t \in Threads, ScriptStep(t)
  PROVE  Seen
<1>1. UNCHANGED <<mem, standing>> /\ \A u \in Threads : u # t => pc'[u] = pc[u] /\ buf'[u] = buf[u]
  BY DEF TypeOK, ScriptStep, ScriptRead, ScriptTruncate, ScriptWrite, Goto, history
<1>2. Words' = Words BY <1>1, SameWords
<1>3. Writing(t) => alone[t] /\ (\A u \in Threads : Writing(u) => u = t)
                     /\ (\A u \in Threads : Writing(u)' => u = t)
  BY <1>1, SoleWriter DEF Writing
<1>4. CASE ScriptRead(t) /\ pc'[t] = "failed"
  <2>1. ~Writing(t) /\ ~Writing(t)' /\ file' = file BY <1>4 DEF ScriptRead, Writing
  <2> QED BY <1>1, <1>2, <2>1, OutsideUnseen DEF Seen
<1>5. CASE ScriptRead(t) /\ pc'[t] # "failed"
  <2>1. pc[t] = "script" /\ pc'[t] = "truncate" /\ file' = file /\ BeginWriting(t)
    BY <1>5 DEF TypeOK, ScriptRead, Goto
  <2>2. (\A u \in Threads : Writing(u) => u = t) /\ (\A u \in Threads : Writing(u)' => u = t)
    BY <1>1, <2>1, BeginIsSole DEF Writing
  <2>3. Dumped = {} /\ OnDisk = Loaded(file) BY <2>1, <2>2, ViewIs DEF View
  <2>4. Dumped' = {} /\ OnDisk' = Loaded(file)' BY <2>1, <2>2, ViewNext DEF View
  <2>5. Loaded(file)' = Loaded(file) BY <2>1 DEF Loaded
  <2> QED BY <1>1, <1>2, <2>3, <2>4, <2>5 DEF Seen
<1>6. CASE ScriptTruncate(t)
  <2>1. pc[t] = "truncate" /\ buf' = buf /\ (pc'[t] = "rewrite" \/ (pc'[t] = "failed" /\ file' = file))
    BY <1>6 DEF TypeOK, ScriptTruncate, Goto, history
  <2>2. file = buf[t] /\ buf[t] \in Table BY <1>3, <2>1 DEF WriterInv, StageInv, ReadInv, Writing
  <2>3. Dumped = {} /\ OnDisk = Loaded(file) BY <1>3, <2>1, ViewIs DEF View, Writing
  <2>4. Dumped' = {} /\ OnDisk' = IF pc'[t] = "rewrite" THEN buf'[t] ELSE Loaded(file)'
    BY <1>3, <2>1, ViewNext DEF View, Writing
  <2>5. Loaded(file) = buf[t] BY <2>2 DEF Loaded
  <2>6. OnDisk' = OnDisk BY <2>1, <2>3, <2>4, <2>5 DEF Loaded
  <2> QED BY <1>1, <1>2, <2>3, <2>4, <2>6 DEF Seen
<1>7. CASE ScriptWrite(t)
  <2>1. pc[t] = "rewrite" /\ pc'[t] \in {"respond", "failed"} /\ WriteThrough(t)
    BY <1>7 DEF TypeOK, ScriptWrite, Goto
  <2>2. handle[t] = "file" /\ file = Empty /\ buf[t] \in Table
    BY <1>3, <2>1 DEF WriterInv, StageInv, Writing
  <2>3. file' = buf[t] BY <2>1, <2>2 DEF WriteThrough, Overwritten
  <2>4. Dumped = {} /\ OnDisk = buf[t] BY <1>3, <2>1, ViewIs DEF View, Writing
  <2>5. Dumped' = {} /\ OnDisk' = Loaded(file)' BY <1>3, <2>1, ViewNext DEF View, Writing
  <2>6. Loaded(file)' = buf[t] BY <2>2, <2>3 DEF Loaded
  <2> QED BY <1>1, <1>2, <2>4, <2>5, <2>6 DEF Seen
<1> QED BY <1>4, <1>5, <1>6, <1>7 DEF ScriptStep

\* A crash that does not cut the script finds on disk what was kept.
LEMMA RestartSeen == ASSUME TypeOK, DesktopsAssumption, ~cut', Restart PROVE Seen
<1>1. Rewriting = {} /\ Rewriting' = {} /\ Saving' = {} BY DEF Restart, Rewriting, Saving
<1>2. mem' = Loaded(file) /\ file' = file BY DEF Restart
<1>3. OnDisk = Loaded(file) /\ OnDisk' = Loaded(file)' /\ Dumped' = {} BY <1>1 DEF OnDisk, Dumped
<1>4. Loaded(file)' = Loaded(file) BY <1>2 DEF Loaded
<1>5. \A i \in Ids : Word(i)' = Word(i) BY DEF TypeOK, Restart, Word, DesktopsAssumption
<1>6. Words' = Words BY <1>5 DEF Words
<1> QED BY <1>2, <1>3, <1>4, <1>6 DEF Seen

\* Nothing that is lost is found again.
LEMMA LostStays == ASSUME TypeOK, [Next]_vars, ~Lost' PROVE ~Lost
<1>1. CASE UNCHANGED vars BY <1>1 DEF Lost, vars, history
<1>2. CASE Restart BY <1>2 DEF Lost, Restart
<1>3. ASSUME NEW t \in Threads, StepOf(t), ~overlapped', ~cut' PROVE ~overlapped /\ ~cut
  <2>1. CASE SaveDump(t) \/ ScriptRead(t)
    <3>1. cut' = cut /\ (BeginWriting(t) \/ overlapped' = overlapped) BY <2>1 DEF SaveDump, ScriptRead
    <3>2. overlapped => overlapped' BY <3>1 DEF BeginWriting
    <3> QED BY <1>3, <3>1, <3>2
  <2>2. CASE ScriptWrite(t)
    <3>1. overlapped' = overlapped /\ (cut' = cut \/ cut') BY <2>2 DEF ScriptWrite
    <3> QED BY <1>3, <3>1
  <2>3. CASE ~SaveDump(t) /\ ~ScriptRead(t) /\ ~ScriptWrite(t)
    <3>1. overlapped' = overlapped /\ cut' = cut
      BY <1>3, <2>3 DEF StepOf, CreateChecked, DeletePopped, SetSetting, CreateImage, AllocatePorts, Insert,
        DeleteOutput, SaveStep, SaveOpen, SaveWrite, SaveReplace, ScriptStep, ScriptTruncate,
        Respond, RespondError, history
    <3> QED BY <1>3, <3>1
  <2> QED BY <2>1, <2>2, <2>3
<1>4. (~Lost) = (~overlapped /\ ~cut) /\ (~Lost') = (~overlapped' /\ ~cut') BY DEF Lost
<1> QED BY <1>1, <1>2, <1>3, <1>4, NextIs

LEMMA StepSeen ==
  ASSUME TypeOK, DesktopsAssumption, WriterInv, ReadInv, AnswerInv, ~Lost, ~Lost', [Next]_vars PROVE Seen
<1>1. ~overlapped /\ ~overlapped' /\ ~cut /\ ~cut' BY DEF Lost
<1>2. CASE UNCHANGED vars
  <2>1. Dumped' = Dumped /\ OnDisk' = OnDisk
    BY <1>2 DEF Dumped, OnDisk, Saving, Rewriting, Loaded, vars, history
  <2> QED BY <1>2, <2>1, SameWords DEF Seen, vars, history
<1>3. CASE Restart BY <1>1, <1>3, RestartSeen
<1>4. ASSUME NEW t \in Threads, StepOf(t) PROVE Seen
  BY <1>1, <1>4, BystanderSeen, InsertSeen, PopSeen, RespondSeen, ErrorSeen, SaveSeen, ScriptSeen DEF StepOf
<1> QED BY <1>2, <1>3, <1>4, NextIs

\* What the registry sees of a state in which nothing is lost, and of the others.
LEMMA SeenIsBook ==
  ASSUME ~Lost, ~Lost', Seen PROVE [Book!Next]_(Book!vars)
<1>1. Live = mem /\ Taken = Dumped /\ Kept = OnDisk /\ Said = Words BY DEF Live, Taken, Kept, Said, Words
<1>2. Live' = mem' /\ Taken' = Dumped' /\ Kept' = OnDisk' /\ Said' = Words'
  BY DEF Live, Taken, Kept, Said, Words
<1>3. \/ UNCHANGED <<Live, Taken, Kept, Said>>
      \/ Book!Take \/ Book!Keep \/ Book!Drop \/ Book!Crash \/ \E i \in Ids : Book!Change(i) \/ Book!Answer(i)
  BY <1>1, <1>2 DEF Seen, Book!Take, Book!Keep, Book!Drop, Book!Crash, Book!Change, Book!Answer
<1>4. Lost' = Lost BY DEF Lost
<1> QED BY <1>3, <1>4 DEF Book!Next, Book!vars

LEMMA LosingIsLose == ASSUME Lost' PROVE Book!Lose
BY DEF Book!Lose, Book!Nothing, Book!NoWord, EmptyTable, Live, Taken, Kept, Said

\* Until two writers of state.json meet or the script's write is cut short, by a crash
\* or an error, the service is a registry of desktops, for any number of requests at
\* the same time and any other failures: what clients and a restart see changes as in Registry, or not at all (_save_state,
\* _load_state, set_vm_mode, create_desktop, delete_desktop).
THEOREM DesktopsIsARegistry == Spec => ImplementsRegistry
<1>1. Init => Book!Init
  BY DesktopsAssumption DEF Init, Book!Init, Book!Nothing, Book!NoWord, Lost, EmptyTable, Word, Dumped, Saving,
    OnDisk, Rewriting, Loaded, Live, Taken, Kept, Said, DesktopsAssumption
<1>2. TypeOK /\ WriterInv /\ ReadInv /\ AnswerInv /\ [Next]_vars => [Book!Next]_(Book!vars)
  <2> SUFFICES ASSUME TypeOK, WriterInv, ReadInv, AnswerInv, [Next]_vars PROVE [Book!Next]_(Book!vars)
    OBVIOUS
  <2>1. CASE Lost' BY <2>1, LosingIsLose DEF Book!Next
  <2>2. CASE ~Lost' BY <2>2, LostStays, StepSeen, SeenIsBook, DesktopsAssumption
  <2> QED BY <2>1, <2>2
<1> QED
  BY <1>1, <1>2, TypeCorrect, WriterAlways, ReadAlways, AnswerAlways, PTL DEF Spec, Book!Spec, ImplementsRegistry

----------------------------------------------------------------------------
(* What a registry promises holds in it, so it holds here.                  *)

LEMMA RegistryStarts == Book!Init => Book!TypeOK /\ Book!WordIsKept
BY DEF Book!Init, Book!Nothing, Book!NoWord, Book!TypeOK, Book!WordIsKept

LEMMA ChangeKeepsWord ==
  ASSUME Book!TypeOK, Book!WordIsKept, NEW i \in Ids, Book!Change(i)
  PROVE  (Book!TypeOK /\ Book!WordIsKept)'
<1>1. /\ Live'[i] \in Desktop \cup {NoDesktop}
      /\ Live' = [Live EXCEPT ![i] = Live'[i]]
      /\ Said' = [Said EXCEPT ![i] = "unsure"]
      /\ Taken' = Taken /\ Kept' = Kept
  BY DEF Book!Change
<1> HIDE DEF Live, Said, Taken, Kept
<1>2. Book!TypeOK' BY <1>1 DEF Book!TypeOK
<1>3. ASSUME NEW j \in Ids, j # i PROVE Live'[j] = Live[j] /\ Said'[j] = Said[j]
  BY <1>1, <1>3 DEF Book!TypeOK
<1>4. Said'[i] = "unsure" BY <1>1 DEF Book!TypeOK
<1>5. Book!WordIsKept' BY <1>1, <1>3, <1>4 DEF Book!WordIsKept
<1> QED BY <1>2, <1>5

LEMMA AnswerKeepsWord ==
  ASSUME Book!TypeOK, Book!WordIsKept, NEW i \in Ids, Book!Answer(i)
  PROVE  (Book!TypeOK /\ Book!WordIsKept)'
BY DEF Book!Answer, Book!TypeOK, Book!WordIsKept

LEMMA RegistryKeepsWord ==
  ASSUME Book!TypeOK, Book!WordIsKept, [Book!Next]_(Book!vars)
  PROVE  (Book!TypeOK /\ Book!WordIsKept)'
<1>1. CASE Book!Lose BY <1>1 DEF Book!Lose, Book!Nothing, Book!NoWord, Book!TypeOK, Book!WordIsKept
<1>2. CASE Book!Take BY <1>2 DEF Book!Take, Book!TypeOK, Book!WordIsKept
<1>3. CASE Book!Keep BY <1>3 DEF Book!Keep, Book!TypeOK, Book!WordIsKept
<1>4. CASE Book!Drop BY <1>4 DEF Book!Drop, Book!TypeOK, Book!WordIsKept
<1>5. CASE Book!Crash BY <1>5 DEF Book!Crash, Book!TypeOK, Book!WordIsKept
<1>6. CASE UNCHANGED Book!vars BY <1>6 DEF Book!vars, Book!TypeOK, Book!WordIsKept
<1>7. CASE \E i \in Ids : Book!Change(i) \/ Book!Answer(i)
  <2>1. PICK i \in Ids : Book!Change(i) \/ Book!Answer(i) BY <1>7
  <2>2. CASE Book!Change(i) BY <2>2, ChangeKeepsWord
  <2>3. CASE Book!Answer(i) BY <2>3, AnswerKeepsWord
  <2> QED BY <2>1, <2>2, <2>3
<1>8. Book!Next => Book!Lose \/ Book!Take \/ Book!Keep \/ Book!Drop \/ Book!Crash
                    \/ \E i \in Ids : Book!Change(i) \/ Book!Answer(i)
  BY DEF Book!Next
<1> QED BY <1>1, <1>2, <1>3, <1>4, <1>5, <1>6, <1>7, <1>8

\* A registry keeps its word, whatever the steps it takes and in whatever order.
THEOREM RegistryKeepsItsWord == Book!Spec => []Book!WordIsKept
<1>1. Book!TypeOK /\ Book!WordIsKept /\ [Book!Next]_(Book!vars) => (Book!TypeOK /\ Book!WordIsKept)'
  BY RegistryKeepsWord
<1> QED BY <1>1, RegistryStarts, PTL DEF Book!Spec

\* What a client was told of a desktop stays true of memory, of the file (while the
\* script rewrites it, of what the script has in hand) and of the save under way until
\* the desktop is changed again, two writers of state.json meet, or the script's write
\* is cut short (create_desktop, delete_desktop, _save_state): Desktops is a registry,
\* and a registry keeps its word.
THEOREM WordOfDesktopsIsKept == Spec => []Book!WordIsKept
BY DesktopsIsARegistry, RegistryKeepsItsWord, PTL DEF ImplementsRegistry
=============================================================================
