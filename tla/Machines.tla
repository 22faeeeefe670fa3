------------------------------ MODULE Machines ------------------------------
(***************************************************************************)
(* Starting and stopping machines (scripts/multivm_remote.sh): the QEMU    *)
(* processes, the files that hold their pids, and the mediated devices     *)
(* (vGPUs) that they use.                                                  *)
(*                                                                         *)
(* Every command is a process of its own and there is no lock, so that     *)
(* several run at the same time.  An action is what a command does between *)
(* two points where it sleeps or runs another program.  A machine's vGPU   *)
(* has the machine's uuid, hence at most one exists.  The disk, the tap    *)
(* and the ports of a machine are used by one QEMU at most, because the    *)
(* kernel and QEMU refuse the second one: this is what up stands for.      *)
(***************************************************************************)
EXTENDS Naturals, FiniteSets, Functions

CONSTANTS
  Commands,      \* commands that run at the same time
  Machines,
  Pids,
  Profiles,      \* types of vGPU
  Size,          \* of each type, in units of the graphics memory
  Pixels,        \* that each type shows
  Capacity,      \* of the card
  Nobody, NoPid, NoProfile

ASSUME MachinesAssumption ==
  /\ IsFiniteSet(Machines)
  /\ Size \in [Profiles -> Nat \ {0}] /\ Pixels \in [Profiles -> Nat] /\ Capacity \in Nat
  /\ Nobody \notin Machines /\ NoPid \notin Pids /\ NoProfile \notin Profiles

VARIABLES
  owner,     \* the machine whose QEMU has this pid
  up,        \* the processes that have opened the machine's devices
  stale,     \* pids that another machine's QEMU got while the machine's file or a stop
             \* of the machine still named them
  pidfile,   \* NAME.pid
  mdev,      \* the type of the machine's vGPU, if it exists
  want,      \* the profile that load_vm_meta reads
  pc,        \* where the command is
  job,       \* the machine, whether to start it once it is stopped, the profile; what
             \* a command does not look at again is forgotten
  found,     \* the pids it is going to kill
  quiet      \* no other command has concerned the machine since this one began, and
             \* nobody has put a profile on file for it since a start has read it

processes == <<owner, up, stale>>
system    == <<processes, pidfile, mdev, want>>
vars      == <<system, pc, job, found, quiet>>

Stop   == {"quit", "collect", "kill", "clean", "unmdev"}
Start  == {"check", "tap", "look", "select", "choose", "create", "created", "launch", "verify"}
Chosen == {"select", "choose", "create", "created", "launch", "verify"}
Ended  == {"ok", "failed"}

Machine(c) == job[c].machine

----------------------------------------------------------------------------
\* kill -0
Alive(p) == p \in Pids /\ owner[p] # Nobody

\* qemu_pids_for_vm
PidsOf(m) == {p \in Pids : owner[p] = m}

\* mdev_used_by_qemu looks at the arguments of processes, whether or not they have
\* opened the device.
UsedByQemu(m) == PidsOf(m) # {}

\* A QEMU has the device, the tap and the disk of the machine open.
Held(m) == PidsOf(m) \cap up # {}

\* The graphics memory of the vGPUs of some machines
Taken(ms) ==
  SumFunctionOnSet([m \in ms |-> IF mdev[m] = NoProfile THEN 0 ELSE Size[mdev[m]]], ms)

\* profile_available_instances
Available(f) == Taken(Machines) + Size[f] <= Capacity

\* select_available_profile: the one that was asked for, otherwise the one with most pixels.
Selected(f) ==
  IF Available(f) THEN {f}
  ELSE {g \in Profiles : Available(g) /\ \A h \in Profiles : Available(h) => Pixels[h] <= Pixels[g]}

NoJob == [machine |-> Nobody, restart |-> FALSE, profile |-> NoProfile]

Goto(c, where) == pc' = [pc EXCEPT ![c] = where]

\* Processes end; the kernel closes what they had open.
Die(ps) ==
  /\ owner' = [p \in Pids |-> IF p \in ps THEN Nobody ELSE owner[p]]
  /\ up' = up \ ps
  /\ stale' = [m \in Machines |-> stale[m] \ ps]

----------------------------------------------------------------------------
(***************************************************************************)
(* A command begins                                                        *)
(***************************************************************************)
Begin(c, m, where, restart) ==
  /\ pc[c] = "idle"
  /\ Goto(c, where)
  /\ job' = [job EXCEPT ![c] = [machine |-> m, restart |-> restart, profile |-> NoProfile]]
  /\ LET others == {d \in Commands \ {c} : pc[d] \in Stop \cup Start /\ Machine(d) = m}
     IN  quiet' = [d \in Commands |-> CASE d = c -> others = {}
                                        [] d \in others -> FALSE
                                        [] OTHER -> quiet[d]]
  /\ UNCHANGED <<system, found>>

BeginStop(c, m)  == Begin(c, m, "quit", FALSE)

\* start_vm
BeginStart(c, m) == Begin(c, m, "check", FALSE)

\* restart_vm, and start_vm when the machine runs for another client
BeginRestart(c, m) == Begin(c, m, "quit", TRUE)

\* The profile of a machine changes on file.
PutOnFile(m, f) ==
  /\ want[m] # f
  /\ want' = [want EXCEPT ![m] = f]
  /\ quiet' = [c \in Commands |-> quiet[c] /\ ~(pc[c] \in Chosen /\ Machine(c) = m)]
  /\ UNCHANGED <<processes, pidfile, mdev, pc, job, found>>

\* set_vm_profile, which is over at once; it is refused while the machine runs.
SetProfile(m, f) == PidsOf(m) = {} /\ PutOnFile(m, f)

\* The files are written as a whole, from a copy that somebody has read before: the
\* service saves what it has in memory, which never learns what this script has put on
\* file.  A save for anything else puts an older profile back, also while the machine
\* runs.  Which one is left open.
ProfileReverts(m, f) == PutOnFile(m, f)

----------------------------------------------------------------------------
(***************************************************************************)
(* stop_one                                                                *)
(***************************************************************************)
\* QMP's quit, which a QEMU may not answer
StopQuit(c) ==
  /\ pc[c] = "quit"
  /\ \E ps \in {{}} \cup {{p} : p \in PidsOf(Machine(c))} : Die(ps)
  /\ Goto(c, "collect")
  /\ UNCHANGED <<pidfile, mdev, want, job, found, quiet>>

\* A stop that believes the pid file alone.
StopCollectByFile(c) ==
  LET ps == {p \in {pidfile[Machine(c)]} : Alive(p)}
  IN  /\ pc[c] = "collect"
      /\ found' = [found EXCEPT ![c] = ps]
      /\ \E dead \in SUBSET ps : Die(dead)
      /\ Goto(c, "kill")
      /\ UNCHANGED <<pidfile, mdev, want, job, quiet>>

\* A stop that kills every QEMU.
StopCollectAll(c) ==
  LET ps == {p \in Pids : Alive(p)}
  IN  /\ pc[c] = "collect"
      /\ found' = [found EXCEPT ![c] = ps]
      /\ \E dead \in SUBSET ps : Die(dead)
      /\ Goto(c, "kill")
      /\ UNCHANGED <<pidfile, mdev, want, job, quiet>>

\* Two seconds later: the pid that the file names and those of the machine's QEMUs
\* get SIGTERM, which may not end them.
StopCollect(c) ==
  LET ps == {p \in {pidfile[Machine(c)]} : Alive(p)} \cup PidsOf(Machine(c))
  IN  /\ pc[c] = "collect"
      /\ found' = [found EXCEPT ![c] = ps]
      /\ \E dead \in SUBSET ps : Die(dead)
      /\ Goto(c, "kill")
      /\ UNCHANGED <<pidfile, mdev, want, job, quiet>>

\* Two seconds later: those that are still there get SIGKILL.
StopKill(c) ==
  /\ pc[c] = "kill"
  /\ Die({p \in found[c] : Alive(p)})
  /\ found' = [found EXCEPT ![c] = {}]
  /\ Goto(c, "clean")
  /\ UNCHANGED <<pidfile, mdev, want, job, quiet>>

StopClean(c) ==
  /\ pc[c] = "clean"
  /\ pidfile' = [pidfile EXCEPT ![Machine(c)] = NoPid]
  /\ Goto(c, "unmdev")
  /\ UNCHANGED <<processes, mdev, want, job, found, quiet>>

\* remove_vm_mdev: the kernel waits until nobody has the device open.
StopRemoveMdev(c) ==
  /\ pc[c] = "unmdev" /\ ~Held(Machine(c))
  /\ mdev' = [mdev EXCEPT ![Machine(c)] = NoProfile]
  /\ Goto(c, IF job[c].restart THEN "check" ELSE "ok")
  /\ job' = [job EXCEPT ![c].restart = FALSE]
  /\ UNCHANGED <<processes, pidfile, want, found, quiet>>

----------------------------------------------------------------------------
(***************************************************************************)
(* start_one and ensure_mdev_for_vm                                        *)
(***************************************************************************)
\* "already running": whatever process has the pid.
StartCheck(c) ==
  /\ pc[c] = "check"
  /\ Goto(c, IF Alive(pidfile[Machine(c)]) THEN "ok" ELSE "tap")
  /\ UNCHANGED <<system, job, found, quiet>>

\* setup_tap fails while a QEMU has the tap open.
StartTap(c) ==
  /\ pc[c] = "tap"
  /\ Goto(c, IF Held(Machine(c)) THEN "failed" ELSE "look")
  /\ UNCHANGED <<system, job, found, quiet>>

\* A start that does not remember the profile it was asked for.
LookForgets(c) ==
  LET m == Machine(c)
  IN  /\ pc[c] = "look" /\ mdev[m] = NoProfile
      /\ Goto(c, "select")
      /\ UNCHANGED <<system, job, found, quiet>>

\* There is no vGPU yet.
LookNone(c) ==
  LET m == Machine(c)
  IN  /\ pc[c] = "look" /\ mdev[m] = NoProfile
      /\ job' = [job EXCEPT ![c].profile = want[m]]
      /\ Goto(c, "select")
      /\ UNCHANGED <<system, found, quiet>>

\* There is one of the type that was asked for.
LookSame(c) ==
  LET m == Machine(c)
  IN  /\ pc[c] = "look" /\ mdev[m] = want[m]
      /\ Goto(c, "launch")
      /\ UNCHANGED <<system, job, found, quiet>>

\* There is one of another type and none of the type that was asked for is free:
\* the machine keeps what it has, and the profile is changed to that.
LookKeep(c) ==
  LET m == Machine(c)
  IN  /\ pc[c] = "look" /\ mdev[m] \notin {NoProfile, want[m]} /\ ~Available(want[m])
      /\ want' = [want EXCEPT ![m] = mdev[m]]
      /\ Goto(c, "launch")
      /\ UNCHANGED <<processes, pidfile, mdev, job, found, quiet>>

\* There is one of another type, which gives way unless the machine runs.
LookReplace(c) ==
  LET m == Machine(c)
  IN  /\ pc[c] = "look" /\ mdev[m] \notin {NoProfile, want[m]} /\ Available(want[m])
      /\ IF PidsOf(m) # {}
         THEN Goto(c, "failed") /\ UNCHANGED <<mdev, job>>
         ELSE /\ mdev' = [mdev EXCEPT ![m] = NoProfile]
              /\ job' = [job EXCEPT ![c].profile = want[m]]
              /\ Goto(c, "select")
      /\ UNCHANGED <<processes, pidfile, want, found, quiet>>

\* reclaim_idle_mdevs, when no type has a free instance
StartReclaim(c) ==
  /\ pc[c] = "select"
  /\ mdev' = IF Selected(job[c].profile) # {} THEN mdev
             ELSE [m \in Machines |-> IF m # Machine(c) /\ ~UsedByQemu(m) THEN NoProfile ELSE mdev[m]]
  /\ Goto(c, "choose")
  /\ UNCHANGED <<processes, pidfile, want, job, found, quiet>>

\* A fallback to another profile that is not put on file.
StartChooseSilently(c) ==
  /\ pc[c] = "choose"
  /\ \/ \E f \in Selected(job[c].profile) :
          /\ job' = [job EXCEPT ![c].profile = f]
          /\ Goto(c, "create")
     \/ /\ Selected(job[c].profile) = {}
        /\ Goto(c, "failed") /\ UNCHANGED job
  /\ UNCHANGED <<system, found, quiet>>

\* A second later: another profile than the one that was asked for is put on file.
StartChoose(c) ==
  /\ pc[c] = "choose"
  /\ \/ \E f \in Selected(job[c].profile) :
          /\ job' = [job EXCEPT ![c].profile = f]
          /\ want' = IF f = job[c].profile THEN want ELSE [want EXCEPT ![Machine(c)] = f]
          /\ Goto(c, "create")
     \/ /\ Selected(job[c].profile) = {}
        /\ Goto(c, "failed") /\ UNCHANGED <<want, job>>
  /\ UNCHANGED <<processes, pidfile, mdev, found, quiet>>

\* The kernel refuses when another command was faster.
StartCreate(c) ==
  LET m == Machine(c)
  IN  /\ pc[c] = "create"
      /\ IF mdev[m] = NoProfile /\ Available(job[c].profile)
         THEN mdev' = [mdev EXCEPT ![m] = job[c].profile] /\ Goto(c, "created")
         ELSE Goto(c, "failed") /\ UNCHANGED mdev
      /\ job' = [job EXCEPT ![c].profile = NoProfile]
      /\ UNCHANGED <<processes, pidfile, want, found, quiet>>

\* A second later
StartCreated(c) ==
  /\ pc[c] = "created"
  /\ Goto(c, IF mdev[Machine(c)] = NoProfile THEN "failed" ELSE "launch")
  /\ UNCHANGED <<system, job, found, quiet>>

\* A pid file, or a stop that is under way, takes a process to be this machine's.
Named(m, p) == pidfile[m] = p \/ \E c \in Commands : Machine(c) = m /\ p \in found[c]

\* The new process may get any pid that is free.
StartLaunch(c) ==
  /\ pc[c] = "launch"
  /\ \E p \in Pids :
       /\ owner[p] = Nobody
       /\ owner' = [owner EXCEPT ![p] = Machine(c)]
       /\ pidfile' = [pidfile EXCEPT ![Machine(c)] = p]
       /\ stale' = [m \in Machines |-> stale[m] \cup {q \in {p} : m # Machine(c) /\ Named(m, q)}]
  /\ Goto(c, "verify")
  /\ UNCHANGED <<up, mdev, want, job, found, quiet>>

\* A start that takes it that QEMU has come up.
StartVerifyNothing(c) ==
  /\ pc[c] = "verify"
  /\ Goto(c, "ok")
  /\ UNCHANGED <<system, job, found, quiet>>

\* Three seconds later
StartVerify(c) ==
  /\ pc[c] = "verify"
  /\ Goto(c, IF Alive(pidfile[Machine(c)]) THEN "ok" ELSE "failed")
  /\ UNCHANGED <<system, job, found, quiet>>

----------------------------------------------------------------------------
\* The command exits.
End(c) ==
  /\ pc[c] \in Ended
  /\ Goto(c, "idle")
  /\ job' = [job EXCEPT ![c] = NoJob]
  /\ quiet' = [quiet EXCEPT ![c] = FALSE]
  /\ UNCHANGED <<system, found>>

\* QEMU opens its devices, or exits because it cannot.
QemuBoots(p) ==
  /\ owner[p] # Nobody /\ p \notin up
  /\ IF mdev[owner[p]] # NoProfile /\ ~Held(owner[p])
     THEN up' = up \cup {p} /\ UNCHANGED <<owner, stale>>
     ELSE Die({p})
  /\ UNCHANGED <<pidfile, mdev, want, pc, job, found, quiet>>

\* The guest shuts down, or QEMU crashes.
QemuExits(p) ==
  /\ owner[p] # Nobody
  /\ Die({p})
  /\ UNCHANGED <<pidfile, mdev, want, pc, job, found, quiet>>

\* The host is booted: the pid files are on disk, the vGPUs are not.
HostReboots ==
  /\ Die(Pids)
  /\ mdev' = [m \in Machines |-> NoProfile]
  /\ pc' = [c \in Commands |-> "idle"]
  /\ job' = [c \in Commands |-> NoJob]
  /\ found' = [c \in Commands |-> {}]
  /\ quiet' = [c \in Commands |-> FALSE]
  /\ UNCHANGED <<pidfile, want>>

Init ==
  /\ owner = [p \in Pids |-> Nobody] /\ up = {} /\ stale = [m \in Machines |-> {}]
  /\ pidfile = [m \in Machines |-> NoPid]
  /\ mdev = [m \in Machines |-> NoProfile]
  /\ want \in [Machines -> Profiles]
  /\ pc = [c \in Commands |-> "idle"]
  /\ job = [c \in Commands |-> NoJob]
  /\ found = [c \in Commands |-> {}]
  /\ quiet = [c \in Commands |-> FALSE]

StopStep(c) ==
  StopQuit(c) \/ StopCollect(c) \/ StopKill(c) \/ StopClean(c) \/ StopRemoveMdev(c)

Look(c) == LookNone(c) \/ LookSame(c) \/ LookKeep(c) \/ LookReplace(c)

StartStep(c) ==
  \/ StartCheck(c) \/ StartTap(c) \/ Look(c) \/ StartReclaim(c) \/ StartChoose(c)
  \/ StartCreate(c) \/ StartCreated(c) \/ StartLaunch(c) \/ StartVerify(c)

Next ==
  \/ \E c \in Commands, m \in Machines : BeginStop(c, m) \/ BeginStart(c, m) \/ BeginRestart(c, m)
  \/ \E m \in Machines, f \in Profiles : SetProfile(m, f) \/ ProfileReverts(m, f)
  \/ \E c \in Commands : StopStep(c) \/ StartStep(c) \/ End(c)
  \/ \E p \in Pids : QemuBoots(p) \/ QemuExits(p)
  \/ HostReboots

Spec == Init /\ [][Next]_vars

\* A command that may go on does: the host schedules it.
FairSpec == Spec /\ \A c \in Commands : WF_vars(StopStep(c))

----------------------------------------------------------------------------
\* The type invariant.
TypeOK ==
  /\ owner \in [Pids -> Machines \cup {Nobody}] /\ up \subseteq {p \in Pids : owner[p] # Nobody}
  /\ stale \in [Machines -> SUBSET Pids] /\ pidfile \in [Machines -> Pids \cup {NoPid}]
  /\ mdev \in [Machines -> Profiles \cup {NoProfile}]
  /\ want \in [Machines -> Profiles]
  /\ pc \in [Commands -> {"idle"} \cup Stop \cup Start \cup Ended]
  /\ job \in [Commands -> [machine : Machines \cup {Nobody}, restart : BOOLEAN,
                           profile : Profiles \cup {NoProfile}]]
  /\ \A c \in Commands :
       /\ pc[c] # "idle" => Machine(c) \in Machines
       /\ pc[c] \in {"select", "choose", "create"} => job[c].profile \in Profiles
  /\ found \in [Commands -> SUBSET Pids]
  /\ quiet \in [Commands -> BOOLEAN]

\* The step ends the part of a command that stops its machine.
Stopped(c) == pc[c] = "unmdev" /\ pc'[c] \in {"check", "ok"}

\* The step ends a start, and the command says that it has succeeded.
Started(c) == pc[c] \in {"check", "verify"} /\ pc'[c] = "ok"

\* A stop with which no other command for the machine has overlapped leaves no QEMU
\* of the machine, no pid file and no vGPU, whatever racing starts and stops, dead
\* QEMUs and booting hosts have left before it (stop_one).
QuietStopStops ==
  [][\A c \in Commands : Stopped(c) /\ quiet[c] =>
        PidsOf(Machine(c))' = {} /\ pidfile'[Machine(c)] = NoPid /\ mdev'[Machine(c)] = NoProfile]_vars

\* A start that says "started" or "already running" is right: at that moment the pid
\* file names a QEMU of this machine, also when other commands for it race with it.
\* The one exception: the pid has been given to another machine's QEMU while the file
\* still named it (start_one).
StartMeansRunning ==
  [][\A c \in Commands : Started(c) =>
        pidfile'[Machine(c)] \in PidsOf(Machine(c))' \cup stale'[Machine(c)]]_vars

\* A machine that a start has launched runs with the profile that is on file for it,
\* whatever types were free, if no other command has concerned it and nobody has put
\* another profile on file since the start read it, not even a save of the whole file
\* from an older copy for something else (ensure_mdev_for_vm, persist_vm_profile;
\* _save_state of service.py).
RunsAsOnFile ==
  [][\A c \in Commands : Started(c) /\ pc[c] = "verify" /\ quiet[c] =>
        mdev[Machine(c)] \in {NoProfile, want[Machine(c)]}]_vars

\* The step is one of stop_one's that end processes.
Kills(c) == pc[c] \in {"collect", "kill"} /\ pc'[c] # pc[c] /\ pc'[c] # "idle"

\* A stop ends no other machine's QEMU (stop_one).
StopsOnlyItsOwn ==
  [][\A c \in Commands : Kills(c) =>
        \A p \in Pids : owner'[p] # owner[p] => owner[p] = Machine(c)]_vars

\* The one way in which a stop ends another machine's QEMU: that QEMU has got a pid
\* which the machine's pid file, or a stop of the machine, still named.  No race of
\* commands, failed start, crash or boot does it otherwise (stop_one).
StopsSpareOthers ==
  [][\A c \in Commands : Kills(c) =>
        \A p \in Pids : owner'[p] # owner[p] =>
          owner[p] = Machine(c) \/ p \in stale[Machine(c)]]_vars

\* A stop that no other command overlaps does not wait for ever for a QEMU to close
\* the vGPU, whatever is left of the machine when it begins (stop_one,
\* remove_vm_mdev).
QuietStopEnds ==
  \A c \in Commands : pc[c] = "quit" /\ quiet[c] ~> ~(pc[c] \in Stop /\ quiet[c])
=============================================================================
