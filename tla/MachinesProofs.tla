--------------------------- MODULE MachinesProofs ---------------------------
(***************************************************************************)
(* Theorems about Machines for every set of commands, machines, pids and   *)
(* profiles.                                                               *)
(***************************************************************************)
EXTENDS Machines, TLAPS

Active(c) == pc[c] \in Stop \cup Start

USE DEF Machine, processes

----------------------------------------------------------------------------
(***************************************************************************)
(* Types                                                                   *)
(***************************************************************************)
LEMMA DeathKeepsTypes ==
  ASSUME TypeOK, NEW ps, Die(ps)
  PROVE  /\ owner' \in [Pids -> Machines \cup {Nobody}]
         /\ up' \subseteq {p \in Pids : owner'[p] # Nobody}
         /\ stale' \in [Machines -> SUBSET Pids]
BY DEF TypeOK, Die

Jobs == [machine : Machines \cup {Nobody}, restart : BOOLEAN, profile : Profiles \cup {NoProfile}]

\* A command that sets its profile keeps the types of all jobs.
LEMMA ProfileKeepsTypes ==
  ASSUME TypeOK, NEW c \in Commands, NEW f \in Profiles, NEW where, where # "idle", pc[c] # "idle",
         job' = [job EXCEPT ![c].profile = f], Goto(c, where)
  PROVE  /\ job' \in [Commands -> Jobs]
         /\ \A d \in Commands : /\ pc'[d] # "idle" => job'[d].machine \in Machines
                                /\ pc'[d] \in {"select", "choose", "create"} => job'[d].profile \in Profiles
<1>1. job[c] \in Jobs BY DEF TypeOK, Jobs
<1>2. job'[c] = [job[c] EXCEPT !.profile = f] BY DEF TypeOK
<1>3. job'[c] \in Jobs /\ job'[c].machine = job[c].machine /\ job'[c].profile = f BY <1>1, <1>2 DEF Jobs
<1>4. \A d \in Commands \ {c} : job'[d] = job[d] /\ pc'[d] = pc[d] BY DEF TypeOK, Goto
<1>5. DOMAIN job' = Commands /\ job' = [d \in DOMAIN job' |-> job'[d]] BY DEF TypeOK
<1>6. \A d \in Commands : job'[d] \in Jobs BY <1>3, <1>4 DEF TypeOK, Jobs
<1> QED BY <1>3, <1>4, <1>5, <1>6 DEF TypeOK

LEMMA SelectedAreProfiles ==
  ASSUME NEW f \in Profiles PROVE Selected(f) \subseteq Profiles
BY DEF Selected

LEMMA InitTypes == ASSUME Init PROVE TypeOK
BY DEF Init, TypeOK, NoJob

LEMMA BeginKeepsTypes ==
  ASSUME TypeOK, NEW c \in Commands, NEW m \in Machines, BeginStop(c, m) \/ BeginStart(c, m) \/ BeginRestart(c, m)
  PROVE  TypeOK'
<1>1. PICK where \in {"quit", "check"}, restart \in BOOLEAN : Begin(c, m, where, restart)
  BY DEF BeginStop, BeginStart, BeginRestart
<1>2. /\ pc'[c] = where /\ job'[c] = [machine |-> m, restart |-> restart, profile |-> NoProfile]
      /\ \A d \in Commands \ {c} : pc'[d] = pc[d] /\ job'[d] = job[d]
  BY <1>1 DEF Begin, Goto, TypeOK
<1>3. quiet' \in [Commands -> BOOLEAN] BY <1>1 DEF Begin, TypeOK
<1>4. pc' \in [Commands -> {"idle"} \cup Stop \cup Start \cup Ended]
  BY <1>1 DEF Begin, Goto, TypeOK, Stop, Start
<1>5. job' \in [Commands -> [machine : Machines \cup {Nobody}, restart : BOOLEAN, profile : Profiles \cup {NoProfile}]]
  BY <1>1 DEF Begin, TypeOK
<1>6. UNCHANGED <<system, found>> BY <1>1 DEF Begin
<1>7. \A d \in Commands : /\ pc'[d] # "idle" => job'[d].machine \in Machines
                          /\ pc'[d] \in {"select", "choose", "create"} => job'[d].profile \in Profiles
  BY <1>2 DEF TypeOK
<1> QED BY <1>3, <1>4, <1>5, <1>6, <1>7 DEF TypeOK, system

LEMMA StopKeepsTypes ==
  ASSUME TypeOK, NEW c \in Commands, StopStep(c) PROVE TypeOK'
<1>1. CASE StopQuit(c)
  <2>1. PICK ps : Die(ps) BY <1>1 DEF StopQuit
  <2> QED BY <1>1, <2>1, DeathKeepsTypes DEF StopQuit, Goto, TypeOK, Stop
<1>2. CASE StopCollect(c)
  <2> DEFINE ps == {p \in {pidfile[Machine(c)]} : Alive(p)} \cup PidsOf(Machine(c))
  <2>1. ps \subseteq Pids BY DEF Alive, PidsOf
  <2>2. found' \in [Commands -> SUBSET Pids] BY <1>2, <2>1 DEF StopCollect, TypeOK
  <2>3. PICK dead : Die(dead) BY <1>2 DEF StopCollect
  <2> QED BY <1>2, <2>2, <2>3, DeathKeepsTypes DEF StopCollect, Goto, TypeOK, Stop
<1>3. CASE StopKill(c)
  <2>1. Die({p \in found[c] : Alive(p)}) BY <1>3 DEF StopKill
  <2> QED BY <1>3, <2>1, DeathKeepsTypes DEF StopKill, Goto, TypeOK, Stop
<1>4. CASE StopClean(c) BY <1>4 DEF StopClean, Goto, TypeOK, Stop
<1>5. CASE StopRemoveMdev(c)
  <2>1. /\ pc' \in [Commands -> {"idle"} \cup Stop \cup Start \cup Ended]
        /\ pc'[c] \in {"check", "ok"} /\ pc[c] # "idle" /\ \A d \in Commands \ {c} : pc'[d] = pc[d]
    BY <1>5 DEF StopRemoveMdev, Goto, TypeOK, Start, Ended
  <2>2. job' = [job EXCEPT ![c].restart = FALSE] BY <1>5 DEF StopRemoveMdev
  <2>3. job[c] \in Jobs BY DEF TypeOK, Jobs
  <2>4. /\ job'[c] = [job[c] EXCEPT !.restart = FALSE]
        /\ \A d \in Commands \ {c} : job'[d] = job[d]
    BY <2>2 DEF TypeOK
  <2>5. job'[c] \in Jobs /\ job'[c].machine = job[c].machine BY <2>3, <2>4 DEF Jobs
  <2>6. DOMAIN job' = Commands /\ job' = [d \in DOMAIN job' |-> job'[d]] BY <2>2 DEF TypeOK
  <2>7. job' \in [Commands -> Jobs] BY <2>4, <2>5, <2>6 DEF TypeOK, Jobs
  <2>8. mdev' \in [Machines -> Profiles \cup {NoProfile}]
        /\ UNCHANGED <<owner, up, stale, pidfile, want, found, quiet>>
    BY <1>5 DEF StopRemoveMdev, TypeOK
  <2> QED BY <2>1, <2>4, <2>5, <2>7, <2>8 DEF TypeOK, Jobs
<1> QED BY <1>1, <1>2, <1>3, <1>4, <1>5 DEF StopStep

LEMMA StartKeepsTypes ==
  ASSUME TypeOK, NEW c \in Commands, StartStep(c) PROVE TypeOK'
<1> USE DEF Stop, Start, Ended
<1>1. CASE StartCheck(c) BY <1>1 DEF StartCheck, Goto, TypeOK, system
<1>2. CASE StartTap(c) BY <1>2 DEF StartTap, Goto, TypeOK, system
<1>3. CASE LookNone(c)
  <2>1. want[Machine(c)] \in Profiles BY <1>3 DEF LookNone, TypeOK
  <2>2. pc' \in [Commands -> {"idle"} \cup Stop \cup Start \cup Ended] BY <1>3 DEF LookNone, Goto, TypeOK
  <2>3. Goto(c, "select") /\ job' = [job EXCEPT ![c].profile = want[Machine(c)]] /\ pc[c] # "idle" BY <1>3 DEF LookNone
  <2>4. /\ job' \in [Commands -> Jobs]
        /\ \A d \in Commands : /\ pc'[d] # "idle" => job'[d].machine \in Machines
                               /\ pc'[d] \in {"select", "choose", "create"} => job'[d].profile \in Profiles
    BY <2>1, <2>3, ProfileKeepsTypes
  <2>5. UNCHANGED <<owner, up, stale, pidfile, mdev, want, found, quiet>> BY <1>3 DEF LookNone, system
  <2> QED BY <2>2, <2>4, <2>5 DEF TypeOK, Jobs
<1>4. CASE LookSame(c) BY <1>4 DEF LookSame, Goto, TypeOK, system
<1>5. CASE LookKeep(c) BY <1>5 DEF LookKeep, Goto, TypeOK
<1>6. CASE LookReplace(c)
  <2>1. CASE Goto(c, "failed") /\ UNCHANGED <<mdev, job>> BY <1>6, <2>1 DEF LookReplace, Goto, TypeOK
  <2>2. CASE Goto(c, "select") /\ job' = [job EXCEPT ![c].profile = want[Machine(c)]]
    <3>1. want[Machine(c)] \in Profiles BY <1>6 DEF LookReplace, TypeOK
    <3>2. mdev' \in [Machines -> Profiles \cup {NoProfile}] BY <1>6 DEF LookReplace, TypeOK
    <3>3. pc' \in [Commands -> {"idle"} \cup Stop \cup Start \cup Ended] BY <2>2 DEF Goto, TypeOK
    <3>4. pc[c] # "idle" BY <1>6 DEF LookReplace
    <3>5. /\ job' \in [Commands -> Jobs]
          /\ \A d \in Commands : /\ pc'[d] # "idle" => job'[d].machine \in Machines
                                 /\ pc'[d] \in {"select", "choose", "create"} => job'[d].profile \in Profiles
      BY <2>2, <3>1, <3>4, ProfileKeepsTypes
    <3>6. UNCHANGED <<owner, up, stale, pidfile, want, found, quiet>> BY <1>6 DEF LookReplace
    <3> QED BY <3>2, <3>3, <3>5, <3>6 DEF TypeOK, Jobs
  <2> QED BY <1>6, <2>1, <2>2 DEF LookReplace
<1>7. CASE StartReclaim(c) BY <1>7 DEF StartReclaim, Goto, TypeOK
<1>8. CASE StartChoose(c)
  <2>1. Selected(job[c].profile) \subseteq Profiles BY <1>8, SelectedAreProfiles DEF StartChoose, TypeOK
  <2>2. CASE Goto(c, "failed") /\ UNCHANGED <<want, job>> BY <1>8, <2>2 DEF StartChoose, Goto, TypeOK
  <2>3. ASSUME NEW f \in Profiles, job' = [job EXCEPT ![c].profile = f], Goto(c, "create"),
               want' \in {want, [want EXCEPT ![Machine(c)] = f]}
        PROVE  TypeOK'
    <3>1. want' \in [Machines -> Profiles] BY <2>3 DEF TypeOK
    <3>2. pc' \in [Commands -> {"idle"} \cup Stop \cup Start \cup Ended] BY <2>3 DEF Goto, TypeOK
    <3>4. pc[c] # "idle" BY <1>8 DEF StartChoose
    <3>5. /\ job' \in [Commands -> Jobs]
          /\ \A d \in Commands : /\ pc'[d] # "idle" => job'[d].machine \in Machines
                                 /\ pc'[d] \in {"select", "choose", "create"} => job'[d].profile \in Profiles
      BY <2>3, <3>4, ProfileKeepsTypes
    <3>6. UNCHANGED <<owner, up, stale, pidfile, mdev, found, quiet>> BY <1>8 DEF StartChoose
    <3> QED BY <3>1, <3>2, <3>5, <3>6 DEF TypeOK, Jobs
  <2> QED BY <1>8, <2>1, <2>2, <2>3 DEF StartChoose
<1>9. CASE StartCreate(c) BY <1>9 DEF StartCreate, Goto, TypeOK
<1>10. CASE StartCreated(c) BY <1>10 DEF StartCreated, Goto, TypeOK, system
<1>11. CASE StartLaunch(c)
  <2>1. PICK p \in Pids : /\ owner' = [owner EXCEPT ![p] = Machine(c)]
                          /\ pidfile' = [pidfile EXCEPT ![Machine(c)] = p]
                          /\ stale' = [m \in Machines |-> stale[m] \cup {q \in {p} : m # Machine(c) /\ Named(m, q)}]
    BY <1>11 DEF StartLaunch
  <2>2. Machine(c) \in Machines BY <1>11 DEF StartLaunch, TypeOK
  <2>3. stale' \in [Machines -> SUBSET Pids] BY <2>1 DEF TypeOK
  <2>4. owner' \in [Pids -> Machines \cup {Nobody}] /\ pidfile' \in [Machines -> Pids \cup {NoPid}]
    BY <2>1, <2>2 DEF TypeOK
  <2>5. up' \subseteq {q \in Pids : owner'[q] # Nobody} BY <1>11, <2>1, <2>2, MachinesAssumption DEF StartLaunch, TypeOK
  <2>6. pc' \in [Commands -> {"idle"} \cup Stop \cup Start \cup Ended]
        /\ \A d \in Commands : pc'[d] = pc[d] \/ (d = c /\ pc'[d] = "verify" /\ pc[d] = "launch")
    BY <1>11 DEF StartLaunch, Goto, TypeOK
  <2> QED BY <1>11, <2>3, <2>4, <2>5, <2>6 DEF StartLaunch, TypeOK
<1>12. CASE StartVerify(c) BY <1>12 DEF StartVerify, Goto, TypeOK, system
<1> QED BY <1>1, <1>2, <1>3, <1>4, <1>5, <1>6, <1>7, <1>8, <1>9, <1>10, <1>11, <1>12 DEF StartStep, Look

LEMMA NextKeepsTypes == ASSUME TypeOK, [Next]_vars PROVE TypeOK'
<1>1. CASE \E c \in Commands, m \in Machines : BeginStop(c, m) \/ BeginStart(c, m) \/ BeginRestart(c, m)
  BY <1>1, BeginKeepsTypes
<1>2. ASSUME NEW m \in Machines, NEW f \in Profiles, PutOnFile(m, f) PROVE TypeOK'
  BY <1>2 DEF PutOnFile, TypeOK
<1>3. ASSUME NEW c \in Commands, End(c) PROVE TypeOK'
  BY <1>3 DEF End, Goto, NoJob, TypeOK, system
<1>4. ASSUME NEW p \in Pids, QemuBoots(p) PROVE TypeOK'
  <2>1. CASE Die({p}) BY <1>4, <2>1, DeathKeepsTypes DEF QemuBoots, TypeOK
  <2>2. CASE ~Die({p}) BY <1>4, <2>2 DEF QemuBoots, TypeOK
  <2> QED BY <2>1, <2>2
<1>5. ASSUME NEW p \in Pids, QemuExits(p) PROVE TypeOK'
  BY <1>5, DeathKeepsTypes DEF QemuExits, TypeOK
<1>6. CASE HostReboots
  <2>1. Die(Pids) BY <1>6 DEF HostReboots
  <2> QED BY <1>6, <2>1, DeathKeepsTypes DEF HostReboots, TypeOK, NoJob
<1>7. CASE UNCHANGED vars BY <1>7 DEF vars, system, TypeOK
<1> QED BY <1>1, <1>2, <1>3, <1>4, <1>5, <1>6, <1>7, StopKeepsTypes, StartKeepsTypes
   DEF Next, SetProfile, ProfileReverts

\* The variables keep their types; a command in hand has a machine, and a start that
\* is choosing a vGPU has a profile (multivm_remote.sh).
THEOREM TypeCorrect == Spec => []TypeOK
BY InitTypes, NextKeepsTypes, PTL DEF Spec

----------------------------------------------------------------------------
(***************************************************************************)
(* A command that is quiet is the only one for its machine.                *)
(***************************************************************************)
Lone(c) == \A d \in Commands \ {c} : Active(d) => Machine(d) # Machine(c)

LoneInv == \A c \in Commands : quiet[c] /\ Active(c) => Lone(c)

LEMMA LoneInit == ASSUME Init PROVE LoneInv
BY DEF Init, LoneInv, Active, Stop, Start

\* Nothing but the beginning of a command can bring a second one to a machine.
LEMMA LoneStays ==
  ASSUME LoneInv,
         \A c \in Commands : /\ Active(c)' => Active(c) /\ Machine(c)' = Machine(c)
                             /\ quiet'[c] => quiet[c]
  PROVE  LoneInv'
BY DEF LoneInv, Lone

LEMMA BeginIsLone ==
  ASSUME TypeOK, LoneInv, NEW c \in Commands, NEW m \in Machines, NEW where \in {"quit", "check"},
         NEW restart \in BOOLEAN, Begin(c, m, where, restart)
  PROVE  LoneInv'
<1> DEFINE others == {d \in Commands \ {c} : pc[d] \in Stop \cup Start /\ Machine(d) = m}
<1>1. /\ job'[c].machine = m /\ ~Active(c)
      /\ \A d \in Commands \ {c} : pc'[d] = pc[d] /\ job'[d] = job[d]
  BY DEF Begin, Goto, TypeOK, Active, Stop, Start
<1>2. /\ quiet'[c] => others = {}
      /\ \A d \in Commands \ {c} : quiet'[d] => d \notin others /\ quiet[d]
  BY DEF Begin
<1>3. \A d \in Commands \ {c} : Active(d)' <=> Active(d) BY <1>1 DEF Active
<1>4. ASSUME NEW d \in Commands, quiet'[d], Active(d)' PROVE Lone(d)'
  <2>1. CASE d = c BY <1>1, <1>2, <1>3, <1>4, <2>1 DEF Lone, Active
  <2>2. CASE d # c BY <1>1, <1>2, <1>3, <1>4, <2>2 DEF Lone, Active, LoneInv
  <2> QED BY <2>1, <2>2
<1> QED BY <1>4 DEF LoneInv

\* A step of a command that has begun
Within(c) ==
  /\ Active(c)
  /\ \A d \in Commands : quiet'[d] = quiet[d] /\ job'[d].machine = job[d].machine
  /\ \A d \in Commands \ {c} : pc'[d] = pc[d] /\ job'[d] = job[d] /\ found'[d] = found[d]

LEMMA StopIsWithin == ASSUME TypeOK, NEW c \in Commands, StopStep(c) PROVE Within(c)
BY DEF StopStep, StopQuit, StopCollect, StopKill, StopClean, StopRemoveMdev, Within, Goto, TypeOK, Active, Stop

LEMMA StartIsWithin == ASSUME TypeOK, NEW c \in Commands, StartStep(c) PROVE Within(c)
<1> USE DEF Within, Goto, TypeOK, Active, Start, system
<1>1. CASE StartCheck(c) BY <1>1 DEF StartCheck
<1>2. CASE StartTap(c) BY <1>2 DEF StartTap
<1>3. CASE Look(c)
  <2>1. CASE LookNone(c) BY <2>1 DEF LookNone
  <2>2. CASE LookSame(c) BY <2>2 DEF LookSame
  <2>3. CASE LookKeep(c) BY <2>3 DEF LookKeep
  <2>4. CASE LookReplace(c)
    <3>1. CASE Goto(c, "failed") /\ job' = job BY <2>4, <3>1 DEF LookReplace
    <3>2. CASE Goto(c, "select") /\ job' = [job EXCEPT ![c].profile = want[Machine(c)]]
      BY <2>4, <3>2 DEF LookReplace
    <3> QED BY <2>4, <3>1, <3>2 DEF LookReplace
  <2> QED BY <1>3, <2>1, <2>2, <2>3, <2>4 DEF Look
<1>4. CASE StartReclaim(c) BY <1>4 DEF StartReclaim
<1>5. CASE StartChoose(c)
  <2>1. CASE Goto(c, "failed") /\ job' = job BY <1>5, <2>1 DEF StartChoose
  <2>2. ASSUME NEW f, Goto(c, "create"), job' = [job EXCEPT ![c].profile = f] PROVE Within(c)
    BY <1>5, <2>2 DEF StartChoose
  <2> QED BY <1>5, <2>1, <2>2 DEF StartChoose
<1>6. CASE StartCreate(c) BY <1>6 DEF StartCreate
<1>7. CASE StartCreated(c) BY <1>7 DEF StartCreated
<1>8. CASE StartLaunch(c) BY <1>8 DEF StartLaunch
<1>9. CASE StartVerify(c) BY <1>9 DEF StartVerify
<1> QED BY <1>1, <1>2, <1>3, <1>4, <1>5, <1>6, <1>7, <1>8, <1>9 DEF StartStep

LEMMA WithinKeepsLone == ASSUME LoneInv, NEW c \in Commands, Within(c) PROVE LoneInv'
BY LoneStays DEF Within, Active

LEMMA NextKeepsLone == ASSUME TypeOK, LoneInv, [Next]_vars PROVE LoneInv'
<1>1. ASSUME NEW c \in Commands, NEW m \in Machines, BeginStop(c, m) \/ BeginStart(c, m) \/ BeginRestart(c, m)
      PROVE  LoneInv'
  <2>1. PICK where \in {"quit", "check"}, restart \in BOOLEAN : Begin(c, m, where, restart)
    BY <1>1 DEF BeginStop, BeginStart, BeginRestart
  <2> QED BY <2>1, BeginIsLone
<1>2. ASSUME NEW m \in Machines, NEW f \in Profiles, PutOnFile(m, f) PROVE LoneInv'
  BY <1>2, LoneStays DEF PutOnFile, Active
<1>3. ASSUME NEW c \in Commands, End(c) PROVE LoneInv'
  <2>1. /\ ~Active(c)' /\ quiet'[c] = FALSE
        /\ \A d \in Commands \ {c} : pc'[d] = pc[d] /\ job'[d] = job[d] /\ quiet'[d] = quiet[d]
    BY <1>3 DEF End, Goto, TypeOK, Active, Stop, Start
  <2> QED BY <2>1, LoneStays DEF Active
<1>4. ASSUME NEW p \in Pids, QemuBoots(p) \/ QemuExits(p) PROVE LoneInv'
  BY <1>4, LoneStays DEF QemuBoots, QemuExits, Active
<1>5. CASE HostReboots BY <1>5, LoneStays DEF HostReboots, Active, Stop, Start
<1>6. CASE UNCHANGED vars BY <1>6, LoneStays DEF vars, Active
<1> QED BY <1>1, <1>2, <1>3, <1>4, <1>5, <1>6, StopIsWithin, StartIsWithin, WithinKeepsLone
   DEF Next, SetProfile, ProfileReverts

----------------------------------------------------------------------------
(***************************************************************************)
(* What a quiet command relies on between its steps                        *)
(***************************************************************************)
StopPart(c) ==
  /\ pc[c] = "kill" => PidsOf(Machine(c)) \subseteq found[c]
  /\ pc[c] \in {"clean", "unmdev"} => PidsOf(Machine(c)) = {}
  /\ pc[c] = "unmdev" => pidfile[Machine(c)] = NoPid

StartPart(c) ==
  /\ pc[c] \in {"select", "choose", "create"} => job[c].profile = want[Machine(c)]
  /\ pc[c] \in {"created", "launch", "verify"} => mdev[Machine(c)] \in {NoProfile, want[Machine(c)]}

QuietInv == \A c \in Commands : quiet[c] => StopPart(c) /\ StartPart(c)

LEMMA QuietInit == ASSUME Init PROVE QuietInv
BY DEF Init, QuietInv

\* What a step may do to a machine without a quiet command for it noticing
Calm(m) ==
  /\ PidsOf(m)' \subseteq PidsOf(m)
  /\ pidfile'[m] = pidfile[m] /\ want'[m] = want[m] /\ mdev'[m] \in {mdev[m], NoProfile}

LEMMA CalmKeepsParts ==
  ASSUME NEW c \in Commands, StopPart(c), StartPart(c), Calm(Machine(c)),
         pc'[c] = pc[c], job'[c] = job[c], found'[c] = found[c]
  PROVE  StopPart(c)' /\ StartPart(c)'
<1>1. Machine(c)' = Machine(c) OBVIOUS
<1>2. StopPart(c)' BY <1>1 DEF StopPart, Calm, PidsOf
<1>3. StartPart(c)' BY <1>1 DEF StartPart, Calm
<1> QED BY <1>2, <1>3

\* The machines that a step of a command leaves alone
LEMMA OthersKeepParts ==
  ASSUME TypeOK, LoneInv, QuietInv, NEW c \in Commands, Within(c),
         \A m \in Machines : m # Machine(c) => Calm(m),
         quiet[c] => StopPart(c)' /\ StartPart(c)'
  PROVE  QuietInv'
<1>1. ASSUME NEW d \in Commands, quiet'[d], d # c PROVE StopPart(d)' /\ StartPart(d)'
  <2>0. quiet[d] /\ pc'[d] = pc[d] /\ job'[d] = job[d] /\ found'[d] = found[d] BY <1>1 DEF Within
  <2>1. CASE Active(d)
    <3>1. Machine(c) # Machine(d) BY <2>0, <2>1, <1>1 DEF LoneInv, Lone, Within
    <3>2. Machine(d) \in Machines BY <2>1 DEF TypeOK, Active, Stop, Start
    <3>3. Calm(Machine(d)) BY <3>1, <3>2
    <3>4. StopPart(d) /\ StartPart(d) BY <2>0 DEF QuietInv
    <3> QED BY <2>0, <3>3, <3>4, CalmKeepsParts
  <2>2. CASE ~Active(d)
    <3>1. pc'[d] \notin Stop \cup Start BY <2>0, <2>2 DEF Active
    <3> QED BY <3>1 DEF StopPart, StartPart, Stop, Start
  <2> QED BY <2>1, <2>2
<1>2. quiet'[c] => quiet[c] BY DEF Within
<1> QED BY <1>1, <1>2 DEF QuietInv

LEMMA DeathIsCalm == ASSUME NEW ps, Die(ps), NEW m \in Machines PROVE PidsOf(m)' \subseteq PidsOf(m)
BY MachinesAssumption DEF Die, PidsOf

LEMMA StopKeepsQuiet ==
  ASSUME TypeOK, LoneInv, QuietInv, NEW c \in Commands, StopStep(c) PROVE QuietInv'
<1> DEFINE m == Machine(c)
<1>0. Within(c) BY StopIsWithin
<1>m. m \in Machines /\ Machine(c)' = m BY <1>0 DEF Within, Active, TypeOK, Stop, Start
<1>1. CASE StopQuit(c)
  <2>1. PICK ps : Die(ps) BY <1>1 DEF StopQuit
  <2>2. \A k \in Machines : k # m => Calm(k) BY <1>1, <2>1, DeathIsCalm DEF StopQuit, Calm
  <2>3. pc'[c] = "collect" BY <1>1 DEF StopQuit, Goto, TypeOK
  <2>4. StopPart(c)' /\ StartPart(c)' BY <2>3 DEF StopPart, StartPart
  <2> QED BY <1>0, <2>2, <2>4, OthersKeepParts
<1>2. CASE StopCollect(c)
  <2>1. PICK ps : Die(ps) BY <1>2 DEF StopCollect
  <2>2. \A k \in Machines : k # m => Calm(k) BY <1>2, <2>1, DeathIsCalm DEF StopCollect, Calm
  <2>3. pc'[c] = "kill" /\ PidsOf(m) \subseteq found'[c] BY <1>2 DEF StopCollect, Goto, TypeOK
  <2>4. PidsOf(m)' \subseteq found'[c] BY <2>1, <2>3, <1>m, DeathIsCalm
  <2>5. StopPart(c)' BY <2>3, <2>4, <1>m DEF StopPart, PidsOf
  <2>6. StartPart(c)' BY <2>3 DEF StartPart
  <2> QED BY <1>0, <2>2, <2>5, <2>6, OthersKeepParts
<1>3. CASE StopKill(c)
  <2>1. Die({p \in found[c] : Alive(p)}) BY <1>3 DEF StopKill
  <2>2. \A k \in Machines : k # m => Calm(k) BY <1>3, <2>1, DeathIsCalm DEF StopKill, Calm
  <2>3. pc'[c] = "clean" /\ pc[c] = "kill" BY <1>3 DEF StopKill, Goto, TypeOK
  <2>4. quiet[c] => PidsOf(m)' = {}
    <3>1. quiet[c] => PidsOf(m) \subseteq found[c] BY <2>3 DEF QuietInv, StopPart
    <3>2. m # Nobody BY <1>m, MachinesAssumption
    <3>3. \A p \in Pids : owner'[p] = m => owner[p] = m /\ ~(p \in found[c] /\ owner[p] # Nobody)
      BY <2>1, <3>2 DEF Die, Alive
    <3> QED BY <3>1, <3>2, <3>3, <1>m DEF PidsOf
  <2>5. quiet[c] => StopPart(c)' BY <2>3, <2>4, <1>m DEF StopPart, PidsOf
  <2>6. StartPart(c)' BY <2>3 DEF StartPart
  <2> QED BY <1>0, <2>2, <2>5, <2>6, OthersKeepParts
<1>4. CASE StopClean(c)
  <2>1. \A k \in Machines : k # m => Calm(k) BY <1>4 DEF StopClean, Calm, PidsOf, TypeOK
  <2>2. pc'[c] = "unmdev" /\ pc[c] = "clean" /\ pidfile'[m] = NoPid /\ PidsOf(m)' = PidsOf(m)
    BY <1>4, <1>m DEF StopClean, Goto, TypeOK, PidsOf
  <2>3. quiet[c] => PidsOf(m) = {} BY <2>2 DEF QuietInv, StopPart
  <2>4. quiet[c] => StopPart(c)' BY <2>2, <2>3, <1>m DEF StopPart, PidsOf
  <2>5. StartPart(c)' BY <2>2 DEF StartPart
  <2> QED BY <1>0, <2>1, <2>4, <2>5, OthersKeepParts
<1>5. CASE StopRemoveMdev(c)
  <2>1. \A k \in Machines : k # m => Calm(k) BY <1>5 DEF StopRemoveMdev, Calm, PidsOf, TypeOK
  <2>2. pc'[c] \in {"check", "ok"} BY <1>5 DEF StopRemoveMdev, Goto, TypeOK
  <2>3. StopPart(c)' /\ StartPart(c)' BY <2>2 DEF StopPart, StartPart
  <2> QED BY <1>0, <2>1, <2>3, OthersKeepParts
<1> QED BY <1>1, <1>2, <1>3, <1>4, <1>5 DEF StopStep

LEMMA StartKeepsQuiet ==
  ASSUME TypeOK, LoneInv, QuietInv, NEW c \in Commands, StartStep(c) PROVE QuietInv'
<1> DEFINE m == Machine(c)
<1>0. Within(c) BY StartIsWithin
<1>m. m \in Machines /\ Machine(c)' = m BY <1>0 DEF Within, Active, TypeOK, Stop, Start
<1> HIDE DEF m
<1>1. CASE StartCheck(c) \/ StartTap(c)
  <2>1. \A k \in Machines : Calm(k) BY <1>1 DEF StartCheck, StartTap, system, Calm, PidsOf
  <2>2. pc'[c] \in {"ok", "tap", "failed", "look"} BY <1>1 DEF StartCheck, StartTap, Goto, TypeOK
  <2>3. StopPart(c)' /\ StartPart(c)' BY <2>2 DEF StopPart, StartPart
  <2> QED BY <1>0, <2>1, <2>3, OthersKeepParts
<1>2. CASE LookNone(c)
  <2>1. \A k \in Machines : Calm(k) BY <1>2 DEF LookNone, system, Calm, PidsOf
  <2>2. pc'[c] = "select" /\ job'[c].profile = want[m] /\ want' = want
    BY <1>2, <1>m DEF LookNone, Goto, TypeOK, system, m
  <2>3. StopPart(c)' BY <2>2 DEF StopPart
  <2>4. StartPart(c)' BY <2>2, <1>m DEF StartPart
  <2> QED BY <1>0, <2>1, <2>3, <2>4, OthersKeepParts
<1>3. CASE LookSame(c) \/ LookKeep(c)
  <2>1. \A k \in Machines : k # m => Calm(k)
    BY <1>3, <1>m DEF LookSame, LookKeep, system, Calm, PidsOf, TypeOK, m
  <2>2. pc'[c] = "launch" /\ mdev'[m] = want'[m]
    BY <1>3, <1>m DEF LookSame, LookKeep, Goto, TypeOK, system, m
  <2>3. StopPart(c)' BY <2>2 DEF StopPart
  <2>4. StartPart(c)' BY <2>2, <1>m DEF StartPart
  <2> QED BY <1>0, <2>1, <2>3, <2>4, OthersKeepParts DEF m
<1>4. CASE LookReplace(c)
  <2>1. \A k \in Machines : k # m => Calm(k)
    BY <1>4, <1>m DEF LookReplace, Calm, PidsOf, TypeOK, m
  <2>2. want' = want /\ (pc'[c] = "failed" \/ (pc'[c] = "select" /\ job'[c].profile = want[m]))
    <3>1. want' = want BY <1>4 DEF LookReplace
    <3>2. CASE Goto(c, "failed") BY <3>1, <3>2 DEF Goto, TypeOK
    <3>3. CASE Goto(c, "select") /\ job' = [job EXCEPT ![c].profile = want[m]]
      BY <3>1, <3>3 DEF Goto, TypeOK
    <3> QED BY <1>4, <3>2, <3>3 DEF LookReplace, m
  <2>3. StopPart(c)' BY <2>2 DEF StopPart
  <2>4. StartPart(c)' BY <2>2, <1>m DEF StartPart
  <2> QED BY <1>0, <2>1, <2>3, <2>4, OthersKeepParts DEF m
<1>5. CASE StartReclaim(c)
  <2>1. \A k \in Machines : Calm(k) BY <1>5 DEF StartReclaim, Calm, PidsOf, TypeOK
  <2>2. pc'[c] = "choose" /\ pc[c] = "select" /\ job' = job /\ want' = want BY <1>5 DEF StartReclaim, Goto, TypeOK
  <2>3. StopPart(c)' BY <2>2 DEF StopPart
  <2>4. quiet[c] => StartPart(c)' BY <2>2, <1>m DEF StartPart, QuietInv
  <2> QED BY <1>0, <2>1, <2>3, <2>4, OthersKeepParts
<1>6. CASE StartChoose(c)
  <2>1. \A k \in Machines : k # m => Calm(k) BY <1>6, <1>m DEF StartChoose, Calm, PidsOf, TypeOK, m
  <2>2. pc[c] = "choose" /\ pc'[c] \in {"create", "failed"} BY <1>6 DEF StartChoose, Goto, TypeOK
  <2>3. quiet[c] => job[c].profile = want[m] BY <2>2 DEF StartPart, QuietInv, m
  <2>4. quiet[c] /\ pc'[c] = "create" => job'[c].profile = want'[m]
    <3>1. CASE Goto(c, "failed") BY <3>1 DEF Goto, TypeOK
    <3>2. ASSUME NEW f, job' = [job EXCEPT ![c].profile = f],
                 want' = IF f = job[c].profile THEN want ELSE [want EXCEPT ![m] = f]
          PROVE  quiet[c] => job'[c].profile = want'[m]
      <4>1. job'[c].profile = f BY <3>2 DEF TypeOK
      <4>2. CASE f = job[c].profile BY <3>2, <4>1, <4>2, <2>3
      <4>3. CASE f # job[c].profile
        <5>1. want' = [want EXCEPT ![m] = f] BY <3>2, <4>3
        <5>2. want'[m] = f BY <5>1, <1>m DEF TypeOK
        <5> QED BY <4>1, <5>2
      <4> QED BY <4>2, <4>3
    <3> QED BY <1>6, <3>1, <3>2 DEF StartChoose, m
  <2>5. StopPart(c)' BY <2>2 DEF StopPart
  <2>6. quiet[c] => StartPart(c)' BY <2>2, <2>4, <1>m DEF StartPart
  <2> QED BY <1>0, <2>1, <2>5, <2>6, OthersKeepParts DEF m
<1>7. CASE StartCreate(c)
  <2>1. \A k \in Machines : k # m => Calm(k) BY <1>7, <1>m DEF StartCreate, Calm, PidsOf, TypeOK, m
  <2>2. /\ pc[c] = "create" /\ want' = want
        /\ pc'[c] = "failed" \/ (pc'[c] = "created" /\ mdev'[m] = job[c].profile)
    <3>1. pc[c] = "create" /\ want' = want BY <1>7 DEF StartCreate
    <3>2. CASE Goto(c, "failed") BY <3>1, <3>2 DEF Goto, TypeOK
    <3>3. CASE Goto(c, "created") /\ mdev' = [mdev EXCEPT ![m] = job[c].profile]
      BY <3>1, <3>3, <1>m DEF Goto, TypeOK
    <3> QED BY <1>7, <3>2, <3>3 DEF StartCreate, m
  <2>3. quiet[c] => job[c].profile = want[m] BY <2>2 DEF StartPart, QuietInv, m
  <2>4. StopPart(c)' BY <2>2 DEF StopPart
  <2>5. quiet[c] => StartPart(c)' BY <2>2, <2>3, <1>m DEF StartPart
  <2> QED BY <1>0, <2>1, <2>4, <2>5, OthersKeepParts DEF m
<1>8. CASE StartCreated(c)
  <2>1. \A k \in Machines : Calm(k) BY <1>8 DEF StartCreated, system, Calm, PidsOf
  <2>2. pc[c] = "created" /\ pc'[c] \in {"failed", "launch"} /\ mdev' = mdev /\ want' = want
    BY <1>8 DEF StartCreated, Goto, TypeOK, system
  <2>3. StopPart(c)' BY <2>2 DEF StopPart
  <2>4. quiet[c] => StartPart(c)' BY <2>2, <1>m DEF StartPart, QuietInv, m
  <2> QED BY <1>0, <2>1, <2>3, <2>4, OthersKeepParts
<1>9. CASE StartLaunch(c)
  <2>1. \A k \in Machines : k # m => Calm(k)
    BY <1>9, <1>m DEF StartLaunch, Calm, PidsOf, TypeOK, m
  <2>2. pc[c] = "launch" /\ pc'[c] = "verify" /\ mdev' = mdev /\ want' = want
    BY <1>9 DEF StartLaunch, Goto, TypeOK
  <2>3. StopPart(c)' BY <2>2 DEF StopPart
  <2>4. quiet[c] => StartPart(c)' BY <2>2, <1>m DEF StartPart, QuietInv, m
  <2> QED BY <1>0, <2>1, <2>3, <2>4, OthersKeepParts DEF m
<1>10. CASE StartVerify(c)
  <2>1. \A k \in Machines : Calm(k) BY <1>10 DEF StartVerify, system, Calm, PidsOf
  <2>2. pc'[c] \in {"failed", "ok"} BY <1>10 DEF StartVerify, Goto, TypeOK
  <2>3. StopPart(c)' /\ StartPart(c)' BY <2>2 DEF StopPart, StartPart
  <2> QED BY <1>0, <2>1, <2>3, OthersKeepParts
<1> QED BY <1>1, <1>2, <1>3, <1>4, <1>5, <1>6, <1>7, <1>8, <1>9, <1>10 DEF StartStep, Look

\* A command that does not move, at a step that leaves every machine calm
LEMMA CalmKeepsQuiet ==
  ASSUME TypeOK, QuietInv, NEW c \in Commands, quiet[c], \A k \in Machines : Calm(k),
         pc'[c] = pc[c], job'[c] = job[c], found'[c] = found[c]
  PROVE  StopPart(c)' /\ StartPart(c)'
<1>1. CASE Active(c)
  <2>1. Machine(c) \in Machines BY <1>1 DEF TypeOK, Active, Stop, Start
  <2>2. Calm(Machine(c)) BY <2>1
  <2>3. StopPart(c) /\ StartPart(c) BY DEF QuietInv
  <2> QED BY <2>2, <2>3, CalmKeepsParts
<1>2. CASE ~Active(c)
  <2>1. pc'[c] \notin Stop \cup Start BY <1>2 DEF Active
  <2> QED BY <2>1 DEF StopPart, StartPart, Stop, Start
<1> QED BY <1>1, <1>2

LEMMA NextKeepsQuiet == ASSUME TypeOK, LoneInv, QuietInv, [Next]_vars PROVE QuietInv'
<1>0. ASSUME NEW c \in Commands, pc'[c] \notin Stop \cup Start PROVE StopPart(c)' /\ StartPart(c)'
  BY <1>0 DEF StopPart, StartPart, Stop, Start
<1>1. ASSUME NEW c \in Commands, NEW m \in Machines, BeginStop(c, m) \/ BeginStart(c, m) \/ BeginRestart(c, m)
      PROVE  QuietInv'
  <2>1. PICK where \in {"quit", "check"}, restart \in BOOLEAN : Begin(c, m, where, restart)
    BY <1>1 DEF BeginStop, BeginStart, BeginRestart
  <2>2. pc'[c] \in {"quit", "check"} BY <2>1 DEF Begin, Goto, TypeOK
  <2>3. StopPart(c)' /\ StartPart(c)' BY <2>2 DEF StopPart, StartPart
  <2>4. \A d \in Commands \ {c} : /\ pc'[d] = pc[d] /\ job'[d] = job[d] /\ found'[d] = found[d]
                                  /\ quiet'[d] => quiet[d]
    BY <2>1 DEF Begin, Goto, TypeOK
  <2>5. owner' = owner /\ pidfile' = pidfile /\ want' = want /\ mdev' = mdev BY <2>1 DEF Begin, system
  <2>6. \A k \in Machines : Calm(k) BY <2>5 DEF Calm, PidsOf
  <2>7. \A d \in Commands \ {c} : quiet'[d] => StopPart(d)' /\ StartPart(d)'
    BY <2>4, <2>6, CalmKeepsQuiet
  <2> QED BY <2>3, <2>7 DEF QuietInv
<1>2. ASSUME NEW m \in Machines, NEW f \in Profiles, PutOnFile(m, f) PROVE QuietInv'
  <2>1. /\ owner' = owner /\ pidfile' = pidfile /\ mdev' = mdev
        /\ pc' = pc /\ job' = job /\ found' = found
        /\ \A k \in Machines \ {m} : want'[k] = want[k]
        /\ \A c \in Commands : quiet'[c] => quiet[c] /\ (pc[c] \in Chosen => Machine(c) # m)
    BY <1>2 DEF PutOnFile, TypeOK
  <2>2. ASSUME NEW c \in Commands, quiet'[c] PROVE StopPart(c)' /\ StartPart(c)'
    <3>1. StopPart(c) /\ StartPart(c) BY <2>1, <2>2 DEF QuietInv
    <3>2. StopPart(c)' BY <2>1, <3>1 DEF StopPart, PidsOf
    <3>3. CASE pc[c] \in Chosen
      <4>1. Machine(c) \in Machines \ {m} BY <2>1, <2>2, <3>3 DEF TypeOK, Chosen
      <4> QED BY <2>1, <3>1, <3>2, <4>1 DEF StartPart
    <3>4. CASE pc[c] \notin Chosen BY <2>1, <3>2, <3>4 DEF StartPart, Chosen
    <3> QED BY <3>3, <3>4
  <2> QED BY <2>2 DEF QuietInv
<1>3. ASSUME NEW c \in Commands, End(c) PROVE QuietInv'
  <2>1. \A d \in Commands : quiet'[d] =>
          /\ quiet[d] /\ pc'[d] = pc[d] /\ job'[d] = job[d] /\ found'[d] = found[d]
    BY <1>3 DEF End, Goto, TypeOK
  <2>2. \A k \in Machines : Calm(k) BY <1>3 DEF End, system, Calm, PidsOf
  <2>3. \A d \in Commands : quiet'[d] => StopPart(d)' /\ StartPart(d)' BY <2>1, <2>2, CalmKeepsQuiet
  <2> QED BY <2>3 DEF QuietInv
<1>4. ASSUME NEW p \in Pids, QemuBoots(p) \/ QemuExits(p) PROVE QuietInv'
  <2>1. owner' = owner \/ Die({p}) BY <1>4 DEF QemuBoots, QemuExits
  <2>2. \A m \in Machines : PidsOf(m)' \subseteq PidsOf(m) BY <2>1, DeathIsCalm DEF PidsOf
  <2>3. \A m \in Machines : Calm(m) BY <1>4, <2>2 DEF QemuBoots, QemuExits, Calm
  <2>4. quiet' = quiet /\ pc' = pc /\ job' = job /\ found' = found BY <1>4 DEF QemuBoots, QemuExits
  <2>5. \A c \in Commands : quiet'[c] => StopPart(c)' /\ StartPart(c)' BY <2>3, <2>4, CalmKeepsQuiet
  <2> QED BY <2>4, <2>5 DEF QuietInv
<1>5. CASE HostReboots BY <1>5 DEF HostReboots, QuietInv
<1>6. CASE UNCHANGED vars
  <2>1. \A k \in Machines : Calm(k) BY <1>6 DEF vars, system, Calm, PidsOf
  <2>2. quiet' = quiet /\ pc' = pc /\ job' = job /\ found' = found BY <1>6 DEF vars
  <2>3. \A c \in Commands : quiet'[c] => StopPart(c)' /\ StartPart(c)' BY <2>1, <2>2, CalmKeepsQuiet
  <2> QED BY <2>3 DEF QuietInv
<1> QED BY <1>1, <1>2, <1>3, <1>4, <1>5, <1>6, StopKeepsQuiet, StartKeepsQuiet
   DEF Next, SetProfile, ProfileReverts

LEMMA AlwaysQuiet == Spec => [](TypeOK /\ LoneInv /\ QuietInv)
BY InitTypes, NextKeepsTypes, LoneInit, NextKeepsLone, QuietInit, NextKeepsQuiet, PTL DEF Spec

\* Which action has taken a command from where it was
LEMMA WhoMoves ==
  ASSUME TypeOK, [Next]_vars, NEW c \in Commands, pc[c] \in Stop \cup Start, pc'[c] # pc[c], pc'[c] # "idle"
  PROVE  StopStep(c) \/ StartStep(c)
<1>1. ~UNCHANGED vars BY DEF vars
<1>2. ASSUME NEW d \in Commands, StopStep(d) \/ StartStep(d) PROVE d = c
  BY <1>2, StopIsWithin, StartIsWithin DEF Within
<1>3. ~\E d \in Commands, m \in Machines : BeginStop(d, m) \/ BeginStart(d, m) \/ BeginRestart(d, m)
  BY DEF BeginStop, BeginStart, BeginRestart, Begin, Goto, TypeOK, Stop, Start
<1>4. ~\E m \in Machines, f \in Profiles : SetProfile(m, f) \/ ProfileReverts(m, f)
  BY DEF SetProfile, ProfileReverts, PutOnFile
<1>5. ~\E d \in Commands : End(d) BY DEF End, Goto, TypeOK, Stop, Start, Ended
<1>6. ~\E p \in Pids : QemuBoots(p) \/ QemuExits(p) BY DEF QemuBoots, QemuExits
<1>7. ~HostReboots BY DEF HostReboots
<1> QED BY <1>1, <1>2, <1>3, <1>4, <1>5, <1>6, <1>7 DEF Next

\* A stop that no other command for the machine overlaps leaves no QEMU of the
\* machine, no pid file and no vGPU, from any state that can be reached, for any
\* number of commands and machines, also when pids are used again (stop_one).
THEOREM StopsWhenQuiet == Spec => QuietStopStops
<1>1. ASSUME TypeOK, LoneInv, QuietInv, [Next]_vars, NEW c \in Commands, Stopped(c), quiet[c]
      PROVE  PidsOf(Machine(c))' = {} /\ pidfile'[Machine(c)] = NoPid /\ mdev'[Machine(c)] = NoProfile
  <2>1. pc[c] = "unmdev" /\ pc'[c] \in {"check", "ok"} BY <1>1 DEF Stopped
  <2>2. StopStep(c) \/ StartStep(c) BY <1>1, <2>1, WhoMoves DEF Stop
  <2>3. StopRemoveMdev(c)
    BY <2>1, <2>2 DEF StopStep, StopQuit, StopCollect, StopKill, StopClean, StartStep, StartCheck, StartTap,
       Look, LookNone, LookSame, LookKeep, LookReplace, StartReclaim, StartChoose, StartCreate, StartCreated,
       StartLaunch, StartVerify
  <2>4. PidsOf(Machine(c)) = {} /\ pidfile[Machine(c)] = NoPid BY <1>1, <2>1 DEF QuietInv, StopPart
  <2>5. Machine(c) \in Machines BY <1>1, <2>1 DEF TypeOK
  <2> QED BY <1>1, <2>3, <2>4, <2>5 DEF StopRemoveMdev, PidsOf, TypeOK
<1>2. TypeOK /\ LoneInv /\ QuietInv /\ [Next]_vars =>
        [\A c \in Commands : Stopped(c) /\ quiet[c] =>
           PidsOf(Machine(c))' = {} /\ pidfile'[Machine(c)] = NoPid /\ mdev'[Machine(c)] = NoProfile]_vars
  BY <1>1
<1> QED BY <1>2, AlwaysQuiet, PTL DEF Spec, QuietStopStops

\* A machine that a start has launched runs with the profile that is on file, for any
\* types of vGPU and any card, if no other command has concerned it and nobody has put
\* another profile on file since the start read it (ensure_mdev_for_vm).
THEOREM RunsWithProfileOnFile == Spec => RunsAsOnFile
<1>1. ASSUME TypeOK, LoneInv, QuietInv, NEW c \in Commands, Started(c), pc[c] = "verify", quiet[c]
      PROVE  mdev[Machine(c)] \in {NoProfile, want[Machine(c)]}
  BY <1>1 DEF QuietInv, StartPart
<1>2. TypeOK /\ LoneInv /\ QuietInv =>
        [\A c \in Commands : Started(c) /\ pc[c] = "verify" /\ quiet[c] =>
           mdev[Machine(c)] \in {NoProfile, want[Machine(c)]}]_vars
  BY <1>1
<1> QED BY <1>2, AlwaysQuiet, PTL DEF RunsAsOnFile

----------------------------------------------------------------------------
(***************************************************************************)
(* What the pid files and the stops take to be a machine's process         *)
(***************************************************************************)
\* The pid is that of a QEMU of the machine, or of nobody, or it has been given to
\* another machine's QEMU while the machine still named it.
Right(m, p) == owner[p] \in {Nobody, m} \/ p \in stale[m]

FileInv  == \A m \in Machines : pidfile[m] \in Pids => Right(m, pidfile[m])
FoundInv == \A c \in Commands : /\ pc[c] # "kill" => found[c] = {}
                                /\ \A p \in found[c] : Right(Machine(c), p)
PidInv == FileInv /\ FoundInv

LEMMA PidInit == ASSUME Init PROVE PidInv
BY MachinesAssumption DEF Init, PidInv, FileInv, FoundInv

StaysRight == \A m \in Machines, p \in Pids : Right(m, p) => Right(m, p)'

LEMMA DeathStaysRight == ASSUME TypeOK, NEW ps, Die(ps) PROVE StaysRight
<1> SUFFICES ASSUME NEW m \in Machines, NEW p \in Pids, Right(m, p) PROVE Right(m, p)'
  BY DEF StaysRight
<1>1. CASE p \in ps BY <1>1 DEF Die, Right
<1>2. CASE p \notin ps
  <2>1. owner'[p] = owner[p] /\ stale'[m] = stale[m] \ ps BY <1>2 DEF Die
  <2> QED BY <1>2, <2>1 DEF Right
<1> QED BY <1>1, <1>2

\* Who stops has a machine.
LEMMA KillersMachine ==
  ASSUME TypeOK, PidInv, NEW c \in Commands, NEW p \in found[c]
  PROVE  Machine(c) \in Machines /\ p \in Pids /\ Right(Machine(c), p)
<1>1. pc[c] = "kill" BY DEF PidInv, FoundInv
<1> QED BY <1>1 DEF PidInv, FoundInv, TypeOK

\* A step after which what was right is right keeps the invariant, if it names nothing new.
LEMMA RightKeepsPid ==
  ASSUME TypeOK, PidInv, StaysRight,
         \A m \in Machines : pidfile'[m] \in {NoPid, pidfile[m]},
         \A c \in Commands : \/ found'[c] = {}
                             \/ /\ found'[c] = found[c] /\ Machine(c)' = Machine(c)
                                /\ pc'[c] # "kill" => found[c] = {}
  PROVE  PidInv'
<1>1. ASSUME NEW m \in Machines, pidfile'[m] \in Pids PROVE Right(m, pidfile[m])' /\ pidfile'[m] = pidfile[m]
  <2>1. pidfile'[m] = pidfile[m] BY <1>1, MachinesAssumption
  <2>2. Right(m, pidfile[m]) BY <1>1, <2>1 DEF PidInv, FileInv
  <2> DEFINE p == pidfile[m]
  <2>3. Right(m, p)' <=> (owner'[p'] \in {Nobody, m} \/ p' \in stale'[m]) BY DEF Right
  <2>4. p' = p BY <2>1
  <2>5. owner'[p] \in {Nobody, m} \/ p \in stale'[m] BY <1>1, <2>1, <2>2 DEF StaysRight, Right
  <2> QED BY <2>1, <2>3, <2>4, <2>5
<1>2. FileInv' BY <1>1 DEF FileInv
<1>3. \A c \in Commands : pc'[c] # "kill" => found'[c] = {} BY DEF PidInv, FoundInv
<1>4. ASSUME NEW c \in Commands, NEW p \in found'[c] PROVE Right(Machine(c), p)'
  <2>1. found'[c] = found[c] /\ Machine(c)' = Machine(c) BY <1>4
  <2>2. Machine(c) \in Machines /\ p \in Pids /\ Right(Machine(c), p) BY <1>4, <2>1, KillersMachine
  <2>3. owner'[p] \in {Nobody, Machine(c)} \/ p \in stale'[Machine(c)] BY <2>2 DEF StaysRight, Right
  <2> QED BY <2>1, <2>3 DEF Right
<1> QED BY <1>2, <1>3, <1>4 DEF PidInv, FoundInv

LEMMA CollectKeepsPid ==
  ASSUME TypeOK, PidInv, NEW c \in Commands, StopCollect(c)
  PROVE  PidInv'
<1> DEFINE m  == Machine(c)
           ps == {p \in {pidfile[m]} : Alive(p)} \cup PidsOf(m)
<1>1. m \in Machines BY DEF StopCollect, TypeOK
<1>2. \A p \in ps : p \in Pids /\ Right(m, p)
  BY <1>1 DEF PidInv, FileInv, Alive, PidsOf, Right
<1>3. StaysRight BY DeathStaysRight DEF StopCollect
<1>4. found'[c] = ps /\ pc'[c] = "kill" /\ job' = job /\ pidfile' = pidfile
  BY DEF StopCollect, Goto, TypeOK
<1>5. \A d \in Commands \ {c} : found'[d] = found[d] /\ pc'[d] = pc[d]
  BY DEF StopCollect, Goto, TypeOK
<1>6. m' = m BY <1>4
<1> HIDE DEF ps
<1>7. ASSUME NEW p \in found'[c] PROVE Right(Machine(c), p)'
  <2>1. owner'[p] \in {Nobody, m} \/ p \in stale'[m] BY <1>1, <1>2, <1>3, <1>4, <1>7 DEF StaysRight, Right
  <2> QED BY <1>6, <2>1 DEF Right
<1>8. ASSUME NEW d \in Commands \ {c}, NEW p \in found'[d] PROVE Right(Machine(d), p)'
  <2>1. Machine(d) \in Machines /\ p \in Pids /\ Right(Machine(d), p) BY <1>5, <1>8, KillersMachine
  <2>2. owner'[p] \in {Nobody, Machine(d)} \/ p \in stale'[Machine(d)] BY <1>3, <2>1 DEF StaysRight, Right
  <2> QED BY <1>4, <2>2 DEF Right
<1>9. \A d \in Commands : pc'[d] # "kill" => found'[d] = {} BY <1>4, <1>5 DEF PidInv, FoundInv
<1>10. FileInv' BY <1>3, <1>4 DEF PidInv, FileInv, StaysRight, Right
<1> QED BY <1>7, <1>8, <1>9, <1>10 DEF PidInv, FoundInv

\* The pid that a new QEMU gets becomes stale for every other machine that names it.
LEMMA LaunchKeepsPid ==
  ASSUME TypeOK, PidInv, NEW c \in Commands, StartLaunch(c)
  PROVE  PidInv'
<1> DEFINE m == Machine(c)
<1>1. PICK p \in Pids : /\ owner' = [owner EXCEPT ![p] = m] /\ pidfile' = [pidfile EXCEPT ![m] = p]
                        /\ stale' = [n \in Machines |-> stale[n] \cup {q \in {p} : n # m /\ Named(n, q)}]
  BY DEF StartLaunch
<1>2. m \in Machines /\ found' = found /\ job' = job BY DEF StartLaunch, TypeOK
<1>3. /\ owner'[p] = m /\ pidfile'[m] = p
      /\ \A q \in Pids \ {p} : owner'[q] = owner[q]
      /\ \A n \in Machines \ {m} : pidfile'[n] = pidfile[n]
      /\ \A n \in Machines : stale[n] \subseteq stale'[n] /\ (n # m /\ Named(n, p) => p \in stale'[n])
  BY <1>1, <1>2 DEF TypeOK
<1>4. ASSUME NEW n \in Machines, NEW q \in Pids, Right(n, q), q = p => Named(n, q)
      PROVE  owner'[q] \in {Nobody, n} \/ q \in stale'[n]
  BY <1>3, <1>4 DEF Right
<1>5. ASSUME NEW n \in Machines, pidfile'[n] \in Pids PROVE Right(n, pidfile[n])'
  <2>1. CASE n = m BY <1>3, <2>1 DEF Right
  <2>2. CASE n # m
    <3>1. pidfile'[n] = pidfile[n] /\ Right(n, pidfile[n]) /\ Named(n, pidfile[n])
      BY <1>3, <1>5, <2>2 DEF PidInv, FileInv, Named
    <3> QED BY <1>4, <1>5, <3>1 DEF Right
  <2> QED BY <2>1, <2>2
<1>6. FileInv' BY <1>5 DEF FileInv
<1>7. ASSUME NEW d \in Commands, NEW q \in found'[d] PROVE Right(Machine(d), q)'
  <2>1. Machine(d) \in Machines /\ q \in Pids /\ Right(Machine(d), q) BY <1>2, <1>7, KillersMachine
  <2>2. Named(Machine(d), q) BY <1>2, <1>7 DEF Named
  <2>3. owner'[q] \in {Nobody, Machine(d)} \/ q \in stale'[Machine(d)] BY <1>4, <2>1, <2>2
  <2> QED BY <1>2, <2>3 DEF Right
<1>8. \A d \in Commands : pc'[d] # "kill" => pc[d] # "kill" BY DEF StartLaunch, Goto, TypeOK
<1>9. \A d \in Commands : pc'[d] # "kill" => found'[d] = {} BY <1>2, <1>8 DEF PidInv, FoundInv
<1> QED BY <1>6, <1>7, <1>9 DEF PidInv, FoundInv

LEMMA SameIsRight == ASSUME owner' = owner, stale' = stale PROVE StaysRight
BY DEF StaysRight, Right

LEMMA StopKeepsPid ==
  ASSUME TypeOK, PidInv, NEW c \in Commands, StopStep(c)
  PROVE  PidInv'
<1>0. \A d \in Commands : pc[d] # "kill" => found[d] = {} BY DEF PidInv, FoundInv
<1>1. CASE StopQuit(c)
  <2>1. StaysRight BY <1>1, DeathStaysRight DEF StopQuit
  <2>2. /\ found' = found /\ job' = job /\ pidfile' = pidfile
        /\ \A d \in Commands : pc'[d] # "kill" => pc[d] # "kill"
    BY <1>1 DEF StopQuit, Goto, TypeOK
  <2> QED BY <1>0, <2>1, <2>2, RightKeepsPid
<1>2. CASE StopKill(c)
  <2>1. StaysRight BY <1>2, DeathStaysRight DEF StopKill
  <2>2. /\ found'[c] = {} /\ job' = job /\ pidfile' = pidfile
        /\ \A d \in Commands \ {c} : found'[d] = found[d] /\ pc'[d] = pc[d]
    BY <1>2 DEF StopKill, Goto, TypeOK
  <2> QED BY <1>0, <2>1, <2>2, RightKeepsPid
<1>3. CASE StopClean(c)
  <2>1. StaysRight BY <1>3, SameIsRight DEF StopClean
  <2>2. /\ found' = found /\ job' = job /\ \A m \in Machines : pidfile'[m] \in {NoPid, pidfile[m]}
        /\ \A d \in Commands : pc'[d] # "kill" => pc[d] # "kill"
    BY <1>3 DEF StopClean, Goto, TypeOK
  <2> QED BY <1>0, <2>1, <2>2, RightKeepsPid
<1>4. CASE StopRemoveMdev(c)
  <2>1. StaysRight BY <1>4, SameIsRight DEF StopRemoveMdev
  <2>2. /\ found' = found /\ pidfile' = pidfile
        /\ \A d \in Commands : pc'[d] # "kill" => pc[d] # "kill"
    BY <1>4 DEF StopRemoveMdev, Goto, TypeOK
  <2>3. \A d \in Commands : Machine(d)' = Machine(d) BY StopIsWithin DEF Within
  <2> QED BY <1>0, <2>1, <2>2, <2>3, RightKeepsPid
<1> QED BY <1>1, <1>2, <1>3, <1>4, CollectKeepsPid DEF StopStep

\* A start changes no process and no pid file before it launches QEMU.
LEMMA StartKeepsPid ==
  ASSUME TypeOK, PidInv, NEW c \in Commands, StartStep(c)
  PROVE  PidInv'
<1>0. \A d \in Commands : pc[d] # "kill" => found[d] = {} BY DEF PidInv, FoundInv
<1>1. CASE StartLaunch(c) BY <1>1, LaunchKeepsPid
<1>2. CASE ~StartLaunch(c)
  <2>1. owner' = owner /\ stale' = stale /\ pidfile' = pidfile /\ found' = found
    BY <1>2 DEF StartStep, StartCheck, StartTap, Look, LookNone, LookSame, LookKeep, LookReplace, StartReclaim,
       StartChoose, StartCreate, StartCreated, StartVerify, system
  <2>2. \A d \in Commands : job'[d].machine = job[d].machine BY StartIsWithin DEF Within
  <2>3. pc[c] # "kill" /\ \A d \in Commands \ {c} : pc'[d] = pc[d]
    BY StartIsWithin DEF Within, StartStep, StartCheck, StartTap, Look, LookNone, LookSame, LookKeep, LookReplace,
       StartReclaim, StartChoose, StartCreate, StartCreated, StartLaunch, StartVerify
  <2>4. \A d \in Commands : pc'[d] # "kill" => found[d] = {} BY <1>0, <2>3
  <2> QED BY <2>1, <2>2, <2>4, RightKeepsPid, SameIsRight
<1> QED BY <1>1, <1>2

LEMMA NextKeepsPid == ASSUME TypeOK, PidInv, [Next]_vars PROVE PidInv'
<1>0. \A d \in Commands : pc[d] # "kill" => found[d] = {} BY DEF PidInv, FoundInv
<1>1. ASSUME NEW c \in Commands, NEW m \in Machines, BeginStop(c, m) \/ BeginStart(c, m) \/ BeginRestart(c, m)
      PROVE  PidInv'
  <2>1. PICK where \in {"quit", "check"}, restart \in BOOLEAN : Begin(c, m, where, restart)
    BY <1>1 DEF BeginStop, BeginStart, BeginRestart
  <2>2. owner' = owner /\ stale' = stale /\ pidfile' = pidfile /\ found' = found /\ found[c] = {}
    BY <1>0, <2>1 DEF Begin, system
  <2>3. \A d \in Commands \ {c} : pc'[d] = pc[d] /\ job'[d] = job[d] BY <2>1 DEF Begin, Goto, TypeOK
  <2> QED BY <1>0, <2>2, <2>3, RightKeepsPid, SameIsRight
<1>2. ASSUME NEW m \in Machines, NEW f \in Profiles, PutOnFile(m, f) PROVE PidInv'
  BY <1>0, <1>2, RightKeepsPid, SameIsRight DEF PutOnFile
<1>3. ASSUME NEW c \in Commands, End(c) PROVE PidInv'
  <2>1. owner' = owner /\ stale' = stale /\ pidfile' = pidfile /\ found' = found /\ found[c] = {}
    BY <1>0, <1>3 DEF End, system, Ended
  <2>2. \A d \in Commands \ {c} : pc'[d] = pc[d] /\ job'[d] = job[d] BY <1>3 DEF End, Goto, TypeOK
  <2> QED BY <1>0, <2>1, <2>2, RightKeepsPid, SameIsRight
<1>4. ASSUME NEW p \in Pids, QemuBoots(p) \/ QemuExits(p) PROVE PidInv'
  <2>1. StaysRight
    <3>1. Die({p}) \/ (owner' = owner /\ stale' = stale) BY <1>4 DEF QemuBoots, QemuExits
    <3> QED BY <3>1, DeathStaysRight, SameIsRight
  <2>2. pidfile' = pidfile /\ found' = found /\ job' = job /\ pc' = pc BY <1>4 DEF QemuBoots, QemuExits
  <2> QED BY <1>0, <2>1, <2>2, RightKeepsPid
<1>5. CASE HostReboots
  <2>1. StaysRight BY <1>5, DeathStaysRight DEF HostReboots
  <2>2. pidfile' = pidfile /\ \A d \in Commands : found'[d] = {} BY <1>5 DEF HostReboots
  <2> QED BY <2>1, <2>2, RightKeepsPid
<1>6. CASE UNCHANGED vars BY <1>0, <1>6, RightKeepsPid, SameIsRight DEF vars, system
<1> QED BY <1>1, <1>2, <1>3, <1>4, <1>5, <1>6, StopKeepsPid, StartKeepsPid DEF Next, SetProfile, ProfileReverts

LEMMA AlwaysPid == Spec => [](TypeOK /\ PidInv)
<1>1. TypeOK /\ PidInv /\ [Next]_vars => (TypeOK /\ PidInv)' BY NextKeepsTypes, NextKeepsPid
<1> QED BY <1>1, InitTypes, PidInit, PTL DEF Spec

\* A start that says that the machine runs is right, whatever commands race with it,
\* unless the pid in the machine's file has been given to another machine's QEMU while
\* the file still named it (start_one).
THEOREM StartsAreTrue == Spec => StartMeansRunning
<1>1. ASSUME TypeOK, PidInv, [Next]_vars, NEW c \in Commands, Started(c)
      PROVE  pidfile'[Machine(c)] \in PidsOf(Machine(c))' \cup stale'[Machine(c)]
  <2>1. pc[c] \in {"check", "verify"} /\ pc'[c] = "ok" BY <1>1 DEF Started
  <2>2. StopStep(c) \/ StartStep(c) BY <1>1, <2>1, WhoMoves DEF Start
  <2>3. StartCheck(c) \/ StartVerify(c)
    BY <2>1, <2>2 DEF StopStep, StopQuit, StopCollect, StopKill, StopClean, StopRemoveMdev, StartStep, StartTap,
       Look, LookNone, LookSame, LookKeep, LookReplace, StartReclaim, StartChoose, StartCreate, StartCreated,
       StartLaunch
  <2>4. Alive(pidfile[Machine(c)]) /\ owner' = owner /\ stale' = stale /\ pidfile' = pidfile /\ job' = job
    BY <1>1, <2>1, <2>3 DEF StartCheck, StartVerify, Goto, TypeOK, system
  <2>5. Machine(c) \in Machines BY <1>1, <2>1 DEF TypeOK
  <2> QED BY <1>1, <2>4, <2>5 DEF PidInv, FileInv, Right, Alive, PidsOf
<1>2. TypeOK /\ PidInv /\ [Next]_vars =>
        [\A c \in Commands : Started(c) =>
           pidfile'[Machine(c)] \in PidsOf(Machine(c))' \cup stale'[Machine(c)]]_vars
  BY <1>1
<1> QED BY <1>2, AlwaysPid, PTL DEF Spec, StartMeansRunning

\* A stop ends another machine's QEMU in one way only: that QEMU has got a pid that the
\* machine's pid file, or a stop of the machine, still named (stop_one).
THEOREM StopsAreSafe == Spec => StopsSpareOthers
<1>1. ASSUME TypeOK, PidInv, [Next]_vars, NEW c \in Commands, NEW p \in Pids, Kills(c), owner'[p] # owner[p]
      PROVE  owner[p] = Machine(c) \/ p \in stale[Machine(c)]
  <2>0. pc[c] \in {"collect", "kill"} /\ pc'[c] # pc[c] /\ pc'[c] # "idle" BY <1>1 DEF Kills
  <2>1. StopStep(c) \/ StartStep(c) BY <1>1, <2>0, WhoMoves DEF Stop
  <2>2. StopCollect(c) \/ StopKill(c)
    BY <2>0, <2>1 DEF StopStep, StopQuit, StopClean, StopRemoveMdev, StartStep, StartCheck, StartTap,
       Look, LookNone, LookSame, LookKeep, LookReplace, StartReclaim, StartChoose, StartCreate, StartCreated,
       StartLaunch, StartVerify
  <2>3. CASE StopCollect(c)
    <3> DEFINE ps == {q \in {pidfile[Machine(c)]} : Alive(q)} \cup PidsOf(Machine(c))
    <3>1. Machine(c) \in Machines BY <1>1, <2>3 DEF StopCollect, TypeOK
    <3>2. \A q \in ps : owner[q] = Machine(c) \/ q \in stale[Machine(c)]
      BY <1>1, <3>1 DEF PidInv, FileInv, Right, Alive, PidsOf
    <3>3. PICK dead \in SUBSET ps : Die(dead) BY <2>3 DEF StopCollect
    <3>4. p \in dead BY <1>1, <3>3 DEF Die, TypeOK
    <3> QED BY <3>2, <3>4
  <2>4. CASE StopKill(c)
    <3>1. p \in found[c] /\ Alive(p) BY <1>1, <2>4 DEF StopKill, Die, TypeOK
    <3> QED BY <1>1, <3>1 DEF PidInv, FoundInv, Right, Alive
  <2> QED BY <2>2, <2>3, <2>4
<1>2. TypeOK /\ PidInv /\ [Next]_vars =>
        [\A c \in Commands : Kills(c) =>
           \A p \in Pids : owner'[p] # owner[p] => owner[p] = Machine(c) \/ p \in stale[Machine(c)]]_vars
  BY <1>1
<1> QED BY <1>2, AlwaysPid, PTL DEF Spec, StopsSpareOthers
=============================================================================
