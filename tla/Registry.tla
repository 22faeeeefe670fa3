------------------------------ MODULE Registry ------------------------------
(***************************************************************************)
(* What the control service promises of the desktops that clients create   *)
(* and delete, until two of its saves overlap or the host script's write   *)
(* is cut short: one table in memory and one on disk, each changed at      *)
(* once.  There are no threads, no files and no scripts here; Desktops     *)
(* implements this module.                                                 *)
(***************************************************************************)
CONSTANTS Ids, Records, NoDesktop

VARIABLES
  live,   \* the desktops in memory
  taken,  \* the table that is being saved: a set of at most one
  kept,   \* the desktops that a restart finds
  told,   \* what the last answer said of an id, unless it has been changed since
  lost    \* saves have overlapped or the script's write was cut: nothing is promised any more

vars == <<live, taken, kept, told, lost>>

Nothing == [i \in Ids |-> NoDesktop]
NoWord  == [i \in Ids |-> "unsure"]

Init == live = Nothing /\ taken = {} /\ kept = Nothing /\ told = NoWord /\ ~lost

\* A creation or a deletion changes one id, and takes back what was said of it.
Change(i) ==
  /\ live'[i] \in Records \cup {NoDesktop}
  /\ live' = [live EXCEPT ![i] = live'[i]]
  /\ told' = [told EXCEPT ![i] = "unsure"]
  /\ UNCHANGED <<taken, kept>>

\* A save takes the table as it is, and has all of it on disk at once, or gives up.
Take == taken = {} /\ taken' = {live} /\ UNCHANGED <<live, kept, told>>
Keep == taken = {kept'} /\ taken' = {} /\ UNCHANGED <<live, told>>
Drop == taken # {} /\ taken' = {} /\ UNCHANGED <<live, kept, told>>

\* A client is told what is true of memory, of the disk and of a save under way.
Answer(i) ==
  /\ \/ told' = [told EXCEPT ![i] = "there"] /\ \A table \in {live, kept} \cup taken : table[i] # NoDesktop
     \/ told' = [told EXCEPT ![i] = "gone"]  /\ \A table \in {live, kept} \cup taken : table[i] = NoDesktop
  /\ UNCHANGED <<live, taken, kept>>

\* After a crash memory is what was kept; what was said stays said.
Crash == live' = kept /\ taken' = {} /\ UNCHANGED <<kept, told>>

Lose == lost' /\ live' = Nothing /\ taken' = {} /\ kept' = Nothing /\ told' = NoWord

Next ==
  \/ Lose
  \/ /\ ~lost /\ ~lost'
     /\ Take \/ Keep \/ Drop \/ Crash \/ \E i \in Ids : Change(i) \/ Answer(i)

Spec == Init /\ [][Next]_vars

TypeOK ==
  /\ live \in [Ids -> Records \cup {NoDesktop}]
  /\ taken \subseteq [Ids -> Records \cup {NoDesktop}]
  /\ kept \in [Ids -> Records \cup {NoDesktop}]
  /\ told \in [Ids -> {"there", "gone", "unsure"}]

\* What a client was told of an id stays true, of memory, of the disk and of the table
\* that a save is about to put there, until the id is changed again: no save of another
\* request and no crash takes it back (create_desktop, delete_desktop, _save_state).
WordIsKept ==
  \A i \in Ids, table \in {live, kept} \cup taken :
    /\ told[i] = "there" => table[i] # NoDesktop
    /\ told[i] = "gone"  => table[i] = NoDesktop
=============================================================================
