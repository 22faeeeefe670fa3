------------------------------ MODULE Desktops ------------------------------
(***************************************************************************)
(* The desktops of the control service                                     *)
(* (server-control/gvt_cloud_server/service.py): creating and deleting     *)
(* them, changing their settings, and the file that keeps them.            *)
(*                                                                         *)
(* The service answers every request in a thread of its own and takes no   *)
(* lock, so a request is a sequence of steps, cut where the code does I/O  *)
(* or lets another thread run.  The table of desktops is in memory; each   *)
(* change is followed by a save, which writes state.json.tmp and renames   *)
(* it.  All saves use the same temporary name.  A change of a setting then *)
(* runs the host script, a process of its own that reads state.json and    *)
(* writes it in place.  Whether a machine runs, which delays deletion and  *)
(* changes of settings, is not part of this module.                        *)
(***************************************************************************)
EXTENDS Naturals, FiniteSets

CONSTANTS
  Threads,      \* requests that are served at the same time
  Ids, Names,   \* ids and names that requests ask for
  BuiltIn,      \* the desktops of the configuration, which never change
  First, Step,  \* of each kind of port: where to look first, how far apart
  Faults,       \* what may fail: "image", "output", "save", "script"
  NoDesktop, Absent, Empty, Torn, Nobody

Kinds == {"spice", "input", "video"}

Desktop == [name : Names, port : [Kinds -> Nat], mac : Nat]

Table == [Ids -> Desktop \cup {NoDesktop}]

\* What a file holds: no file, an empty one, one that is not JSON, or a table.
Content == Table \cup {Absent, Empty, Torn}

ASSUME DesktopsAssumption ==
  /\ IsFiniteSet(Ids) /\ IsFiniteSet(BuiltIn)
  /\ BuiltIn \subseteq [name : Names, port : [Kinds -> Nat], mac : Nat]
  /\ First \in [Kinds -> Nat] /\ Step \in [Kinds -> Nat \ {0}]
  /\ \A d, e \in BuiltIn :
       d # e => d.name # e.name /\ \A k \in Kinds : d.port[k] # e.port[k]
  /\ NoDesktop \notin Desktop
  /\ Absent \notin Table /\ Empty \notin Table /\ Torn \notin Table
  /\ Empty # Absent /\ Torn # Absent /\ Torn # Empty
  /\ Nobody \notin Threads
  /\ Threads \cap {"there", "gone"} = {} /\ Nobody \notin {"there", "gone"}

VARIABLES
  mem,      \* self._state: the desktops that were created and not deleted
  file,     \* state.json
  tmp,      \* state.json.tmp
  pc,       \* where the thread is
  req,      \* what it was asked for, and what it has worked out so far
  buf,      \* the table it is about to write
  handle,   \* the file it has open: the one that is now called tmp, file, or neither
  standing, \* what clients were told of an id, or the thread that is changing it
  stale,    \* the thread's checks are older than the latest insertion
  alone,    \* nobody else has written since the thread began to
  raced,    \* an insertion went by stale checks
  overlapped, \* two writers of state.json have overlapped
  cut       \* the script's write in place has been cut short, by a crash or an error

history == <<standing, stale, alone, raced, overlapped, cut>>
vars    == <<mem, file, tmp, pc, req, buf, handle, history>>

----------------------------------------------------------------------------
Present(table) == {i \in Ids : table[i] # NoDesktop}

\* _all_desktop_configs
AllDesktops(table) == BuiltIn \cup {table[i] : i \in Present(table)}

EmptyTable == [i \in Ids |-> NoDesktop]

\* A load that takes the file as it is.
LoadedUnchecked(content) == content

\* _load_state: a file that is missing or does not parse gives no desktops.
Loaded(content) == IF content \in Table THEN content ELSE EmptyTable

Used(k) == {d.port[k] : d \in AllDesktops(mem)}

Candidates(k) ==
  {First[k] + Step[k] * n : n \in 0 .. (Cardinality(BuiltIn) + Cardinality(Ids))}

\* A search that stops one port early, at the last one in use.
NextPortLastUsed(k) ==
  {p \in Candidates(k) : \A q \in Candidates(k) : q < p => q \in Used(k)}

\* _allocate_ports: the first port of the kind that no desktop uses.
NextPort(k) ==
  {p \in Candidates(k) : p \notin Used(k) /\ \A q \in Candidates(k) : q < p => q \in Used(k)}

\* _mac_for_index of the number of desktops and one
NextMac ==
  LET index == Cardinality(BuiltIn) + Cardinality(Present(mem)) + 1
  IN  IF index > 255 THEN 255 ELSE index

NoRequest == [op |-> "none", id |-> Nobody, desktop |-> NoDesktop]

Goto(t, where) == pc' = [pc EXCEPT ![t] = where]

Faulty(step) == step \in Faults

----------------------------------------------------------------------------
(***************************************************************************)
(* create_desktop                                                          *)
(***************************************************************************)
\* The name and the id are free; otherwise the answer is 409.
CreateChecked(t, i, n) ==
  /\ pc[t] = "idle"
  /\ mem[i] = NoDesktop
  /\ n \notin {d.name : d \in AllDesktops(mem)}
  /\ Goto(t, "image")
  /\ req' = [req EXCEPT ![t] =
       [op |-> "create", id |-> i, desktop |-> [name |-> n, port |-> [k \in Kinds |-> 0], mac |-> 0]]]
  /\ stale' = [stale EXCEPT ![t] = FALSE]
  /\ UNCHANGED <<mem, file, tmp, buf, handle, standing, alone, raced, overlapped, cut>>

\* create_qcow2 takes seconds; when it fails nothing has changed yet.
CreateImage(t) ==
  /\ pc[t] = "image"
  /\ \/ Goto(t, "allocate")
     \/ Faulty("image") /\ Goto(t, "idle")
  /\ UNCHANGED <<mem, file, tmp, req, buf, handle, history>>

AllocatePorts(t) ==
  /\ pc[t] = "allocate"
  /\ \E s \in NextPort("spice"), i \in NextPort("input"), v \in NextPort("video") :
       req' = [req EXCEPT ![t].desktop =
         [@ EXCEPT !.port = [k \in Kinds |-> CASE k = "spice" -> s [] k = "input" -> i [] OTHER -> v],
                   !.mac  = NextMac]]
  /\ Goto(t, "insert")
  /\ UNCHANGED <<mem, file, tmp, buf, handle, history>>

\* A creation that is answered before it is saved.
InsertUnsaved(t) ==
  LET i == req[t].id
  IN  /\ pc[t] = "insert"
      /\ mem' = [mem EXCEPT ![i] = req[t].desktop]
      /\ Goto(t, "respond")
      /\ standing' = [standing EXCEPT ![i] = t]
      /\ raced' = (raced \/ stale[t])
      /\ stale' = [u \in Threads |-> u # t]
      /\ UNCHANGED <<file, tmp, req, buf, handle, alone, overlapped, cut>>

\* The desktop enters the table, with what was allocated before the profile was read.
Insert(t) ==
  LET i == req[t].id
  IN  /\ pc[t] = "insert"
      /\ mem' = [mem EXCEPT ![i] = req[t].desktop]
      /\ Goto(t, "dump")
      /\ standing' = [standing EXCEPT ![i] = t]
      /\ raced' = (raced \/ stale[t])
      /\ stale' = [u \in Threads |-> u # t]
      /\ UNCHANGED <<file, tmp, req, buf, handle, alone, overlapped, cut>>

----------------------------------------------------------------------------
(***************************************************************************)
(* delete_desktop, set_desktop_mode and the other settings                 *)
(***************************************************************************)
\* The desktop and its settings leave the table first.
DeletePopped(t, i) ==
  /\ pc[t] = "idle" /\ mem[i] # NoDesktop
  /\ mem' = [mem EXCEPT ![i] = NoDesktop]
  /\ req' = [req EXCEPT ![t] = [op |-> "delete", id |-> i, desktop |-> NoDesktop]]
  /\ Goto(t, "output")
  /\ standing' = [standing EXCEPT ![i] = t]
  /\ UNCHANGED <<file, tmp, buf, handle, stale, alone, raced, overlapped, cut>>

\* remove_output and delete_file raise when the daemon's socket has no reader or
\* the disk cannot be removed: the request ends there, and nothing is saved.
DeleteOutput(t) ==
  /\ pc[t] = "output"
  /\ \/ Goto(t, "dump")
     \/ Faulty("output") /\ Goto(t, "failed")
  /\ UNCHANGED <<mem, file, tmp, req, buf, handle, history>>

\* set_desktop_mode, set_desktop_profile, set_desktop_resources, set_desktop_iso:
\* the setting changes in memory, and is saved; all but the last run the script.
SetSetting(t, i) ==
  /\ pc[t] = "idle" /\ mem[i] # NoDesktop
  /\ \E op \in {"set", "iso"} :
       req' = [req EXCEPT ![t] = [op |-> op, id |-> i, desktop |-> NoDesktop]]
  /\ Goto(t, "dump")
  /\ UNCHANGED <<mem, file, tmp, buf, handle, history>>

----------------------------------------------------------------------------
(***************************************************************************)
(* _save_state, in the steps of which another thread may come in, and the  *)
(* script's own way of writing the file.                                   *)
(***************************************************************************)
Writing(t) == pc[t] \in {"open", "write", "replace", "truncate", "rewrite"}

\* The thread becomes a writer of state.json; it is alone until another one does.
BeginWriting(t) ==
  LET others == {u \in Threads \ {t} : Writing(u)}
  IN  /\ alone' = [u \in Threads |-> IF u = t THEN others = {} ELSE FALSE]
      /\ overlapped' = (overlapped \/ others # {})

\* Writing from the start of a file that is open: what another thread has written
\* there since it was truncated shows behind a shorter text.
Overwritten(old, new) == IF old \in {Empty, new} THEN {new} ELSE {new, Torn}

\* The text goes to the file the thread has open, whatever it is called by now.
WriteThrough(t) ==
  /\ tmp'  \in IF handle[t] = "tmp"  THEN Overwritten(tmp, buf[t])  ELSE {tmp}
  /\ file' \in IF handle[t] = "file" THEN Overwritten(file, buf[t]) ELSE {file}
  /\ handle' = [handle EXCEPT ![t] = "none"]

\* The writing ends early: the file system is full or the process is killed.  What
\* is there is the old content, a part of the text, or all of it.
WriteCut(t) ==
  /\ tmp'  \in IF handle[t] = "tmp"  THEN {tmp, Torn} \cup Overwritten(tmp, buf[t])   ELSE {tmp}
  /\ file' \in IF handle[t] = "file" THEN {file, Torn} \cup Overwritten(file, buf[t]) ELSE {file}
  /\ handle' = [handle EXCEPT ![t] = "none"]

\* json.dumps
SaveDump(t) ==
  /\ pc[t] = "dump"
  /\ buf' = [buf EXCEPT ![t] = mem]
  /\ BeginWriting(t)
  /\ Goto(t, "open")
  /\ UNCHANGED <<mem, file, tmp, req, handle, standing, stale, raced, cut>>

\* A temporary file that is opened without being truncated.
SaveOpenKeeps(t) ==
  /\ pc[t] = "open"
  /\ tmp' = IF tmp = Absent THEN Empty ELSE tmp
  /\ handle' = [handle EXCEPT ![t] = "tmp"]
  /\ Goto(t, "write")
  /\ UNCHANGED <<mem, file, req, buf, history>>

\* A save that writes state.json itself.
SaveOpenInPlace(t) ==
  /\ pc[t] = "open"
  /\ tmp' = Empty /\ file' = Empty
  /\ handle' = [handle EXCEPT ![t] = "tmp"]
  /\ Goto(t, "write")
  /\ UNCHANGED <<mem, req, buf, history>>

\* write_text opens the temporary file, which truncates it.
SaveOpen(t) ==
  /\ pc[t] = "open"
  /\ tmp' = Empty
  /\ handle' = [handle EXCEPT ![t] = "tmp"]
  /\ Goto(t, "write")
  /\ UNCHANGED <<mem, file, req, buf, history>>

\* A save that goes on with what it could not write.
SaveWriteGoesOn(t) ==
  /\ pc[t] = "write"
  /\ \/ WriteThrough(t)
     \/ Faulty("save") /\ WriteCut(t)
  /\ Goto(t, "replace")
  /\ UNCHANGED <<mem, req, buf, history>>

\* The text is written and the file closed, or the writing fails.
SaveWrite(t) ==
  /\ pc[t] = "write"
  /\ \/ WriteThrough(t) /\ Goto(t, "replace")
     \/ Faulty("save") /\ WriteCut(t) /\ Goto(t, "failed")
  /\ UNCHANGED <<mem, req, buf, history>>

\* tmp.replace(path), which raises when another thread has renamed it already.
SaveReplace(t) ==
  /\ pc[t] = "replace"
  /\ IF tmp = Absent
     THEN Goto(t, "failed") /\ UNCHANGED <<file, tmp, handle>>
     ELSE /\ file' = tmp /\ tmp' = Absent
          /\ handle' = [u \in Threads |-> CASE handle[u] = "file" -> "gone"
                                            [] handle[u] = "tmp"  -> "file"
                                            [] OTHER -> handle[u]]
          /\ Goto(t, IF req[t].op = "set" THEN "script" ELSE "respond")
  /\ UNCHANGED <<mem, req, buf, history>>

\* set_vm_mode and its like exit when state.json does not know the desktop.
ScriptRead(t) ==
  LET known == Loaded(file)[req[t].id] # NoDesktop IN
  /\ pc[t] = "script"
  /\ \/ /\ known
        /\ buf' = [buf EXCEPT ![t] = file]
        /\ BeginWriting(t)
        /\ Goto(t, "truncate")
     \/ /\ ~known \/ Faulty("script")
        /\ Goto(t, "failed")
        /\ UNCHANGED <<buf, alone, overlapped>>
  /\ UNCHANGED <<mem, file, tmp, req, handle, standing, stale, raced, cut>>

\* write_text opens state.json itself, unless the script ends before that.
ScriptTruncate(t) ==
  /\ pc[t] = "truncate"
  /\ \/ /\ file' = Empty
        /\ handle' = [handle EXCEPT ![t] = "file"]
        /\ Goto(t, "rewrite")
     \/ Faulty("script") /\ Goto(t, "failed") /\ UNCHANGED <<file, handle>>
  /\ UNCHANGED <<mem, tmp, req, buf, history>>

\* The desktops are written back as they were read, or the writing ends early.
\* When the service gives the script up after 90 seconds it kills the shell only:
\* the program that writes goes on, as the thread does here, since the answer to
\* the request says nothing of the desktops.
ScriptWrite(t) ==
  /\ pc[t] = "rewrite"
  /\ \/ /\ WriteThrough(t)
        /\ Goto(t, "respond") \/ (Faulty("script") /\ Goto(t, "failed"))
        /\ cut' = cut
     \/ /\ Faulty("script") /\ WriteCut(t)
        /\ Goto(t, "failed")
        /\ cut' = TRUE
  /\ UNCHANGED <<mem, req, buf, standing, stale, alone, raced, overlapped>>

----------------------------------------------------------------------------
\* The thread has nothing left of its request.
Forgotten(t) ==
  /\ Goto(t, "idle")
  /\ req' = [req EXCEPT ![t] = NoRequest]
  /\ buf' = [buf EXCEPT ![t] = Empty]

\* Answer 200: the client knows what has become of the id.
Respond(t) ==
  LET i == req[t].id
  IN  /\ pc[t] = "respond"
      /\ standing' = IF standing[i] # t THEN standing
                     ELSE [standing EXCEPT ![i] = IF req[t].op = "create" THEN "there" ELSE "gone"]
      /\ Forgotten(t)
      /\ UNCHANGED <<mem, file, tmp, handle, stale, alone, raced, overlapped, cut>>

\* Answer 500: memory may have changed, and the client does not know.
RespondError(t) ==
  LET i == req[t].id
  IN  /\ pc[t] = "failed"
      /\ standing' = IF standing[i] # t THEN standing ELSE [standing EXCEPT ![i] = Nobody]
      /\ Forgotten(t)
      /\ UNCHANGED <<mem, file, tmp, handle, stale, alone, raced, overlapped, cut>>

\* The service dies, with the scripts it runs, and systemd starts it again.
Restart ==
  /\ mem' = Loaded(file)
  /\ cut' = (cut \/ \E t \in Threads : pc[t] = "rewrite")
  /\ pc'  = [t \in Threads |-> "idle"]
  /\ req' = [t \in Threads |-> NoRequest]
  /\ buf' = [t \in Threads |-> Empty]
  /\ handle' = [t \in Threads |-> "none"]
  /\ standing' = [i \in Ids |-> IF standing[i] \in Threads THEN Nobody ELSE standing[i]]
  /\ stale' = [t \in Threads |-> FALSE]
  /\ alone' = [t \in Threads |-> FALSE]
  /\ UNCHANGED <<file, tmp, raced, overlapped>>

Init ==
  /\ mem  = EmptyTable
  /\ file = Absent /\ tmp = Absent
  /\ pc   = [t \in Threads |-> "idle"]
  /\ req  = [t \in Threads |-> NoRequest]
  /\ buf  = [t \in Threads |-> Empty]
  /\ handle = [t \in Threads |-> "none"]
  /\ standing = [i \in Ids |-> Nobody]
  /\ stale = [t \in Threads |-> FALSE]
  /\ alone = [t \in Threads |-> FALSE]
  /\ raced = FALSE /\ overlapped = FALSE /\ cut = FALSE

SaveStep(t)   == SaveDump(t) \/ SaveOpen(t) \/ SaveWrite(t) \/ SaveReplace(t)
ScriptStep(t) == ScriptRead(t) \/ ScriptTruncate(t) \/ ScriptWrite(t)

Next ==
  \/ \E t \in Threads :
       \/ \E i \in Ids, n \in Names : CreateChecked(t, i, n)
       \/ \E i \in Ids : DeletePopped(t, i) \/ SetSetting(t, i)
       \/ CreateImage(t) \/ AllocatePorts(t) \/ Insert(t) \/ DeleteOutput(t)
       \/ SaveStep(t) \/ ScriptStep(t)
       \/ Respond(t) \/ RespondError(t)
  \/ Restart

Spec == Init /\ [][Next]_vars

----------------------------------------------------------------------------
\* The type invariant.
TypeOK ==
  /\ mem \in Table /\ file \in Content /\ tmp \in Content
  /\ pc \in [Threads -> {"idle", "image", "allocate", "insert", "output", "dump", "open", "write",
                         "replace", "script", "truncate", "rewrite", "respond", "failed"}]
  /\ req \in [Threads -> [op : {"none", "create", "delete", "set", "iso"},
                          id : Ids \cup {Nobody}, desktop : Desktop \cup {NoDesktop}]]
  /\ \A t \in Threads :
       /\ pc[t] # "idle" => req[t].id \in Ids
       /\ pc[t] \in {"image", "allocate", "insert"} => req[t].op = "create" /\ req[t].desktop \in Desktop
  /\ buf \in [Threads -> Content]
  /\ handle \in [Threads -> {"none", "tmp", "file", "gone"}]
  /\ standing \in [Ids -> Threads \cup {Nobody, "there", "gone"}]
  /\ stale \in [Threads -> BOOLEAN] /\ alone \in [Threads -> BOOLEAN]
  /\ raced \in BOOLEAN /\ overlapped \in BOOLEAN /\ cut \in BOOLEAN

Clash(d, e) == d.name = e.name \/ \E k \in Kinds : d.port[k] = e.port[k]

\* No two desktops of a table share a name or a port of the same kind.
Distinct(table) ==
  \A i \in Present(table) :
     /\ \A j \in Present(table) : i # j => ~Clash(table[i], table[j])
     /\ \A d \in BuiltIn : ~Clash(table[i], d)

\* Names and ports stay unique over creations, deletions, half-done requests and
\* restarts, as long as no desktop enters the table while another request is
\* between its checks and its own insertion (create_desktop, _allocate_ports).
DesktopsDistinct == raced \/ Distinct(mem)

\* state.json can be read, also after a crash and after saves that failed, as long
\* as nothing has hit the script, the only one to write it in place: no other save
\* has overlapped it, and its writing has not been cut short by a crash, a full
\* disk or an error.  While the script is between truncating and writing the file
\* is empty, for whoever reads it then (_save_state, set_vm_mode).
FileReadable ==
  overlapped \/ cut \/ (\E t \in Threads : pc[t] = "rewrite") \/ file \in Table \cup {Absent}

\* A desktop whose creation was answered with 200 is found again after a restart,
\* and one whose deletion was answered with 200 is not, whatever other requests
\* failed half way, under the same conditions; the script's rewriting of the file
\* takes what was answered away for as long as it lasts, and for good if it is cut
\* short (create_desktop, delete_desktop).
AnswersAreDurable ==
  overlapped \/ cut \/ (\E t \in Threads : pc[t] = "rewrite") \/
  \A i \in Ids : /\ standing[i] = "there" => Loaded(file)[i] # NoDesktop
                 /\ standing[i] = "gone"  => Loaded(file)[i] = NoDesktop

\* A save that no other writer overlaps leaves in state.json exactly what it had
\* read from memory, whatever overlapping saves, failed ones and crashes have left
\* in the two files before: the next quiet save repairs the file.
QuietSaveRepairs ==
  [][\A t \in Threads : pc[t] = "replace" /\ alone[t] /\ pc'[t] \in {"script", "respond", "failed"}
        => file' = buf[t]]_vars

----------------------------------------------------------------------------
(***************************************************************************)
(* What there is to a client and to a restart, until the writers of        *)
(* state.json have met.                                                    *)
(***************************************************************************)
Lost == overlapped \/ cut

Saving    == {t \in Threads : pc[t] \in {"open", "write", "replace"}}
Rewriting == {t \in Threads : pc[t] = "rewrite"}

Dumped == {buf[t] : t \in Saving}

\* The script has the whole table in hand while the file is empty.
OnDisk == IF Rewriting = {} THEN Loaded(file) ELSE buf[CHOOSE t \in Rewriting : TRUE]

Word(i) == IF standing[i] \in {"there", "gone"} THEN standing[i] ELSE "unsure"

Live  == IF Lost THEN EmptyTable ELSE mem
Taken == IF Lost THEN {} ELSE Dumped
Kept  == IF Lost THEN EmptyTable ELSE OnDisk
Said  == [i \in Ids |-> IF Lost THEN "unsure" ELSE Word(i)]

Book == INSTANCE Registry WITH
  Records <- Desktop, live <- Live, taken <- Taken, kept <- Kept, told <- Said, lost <- Lost

\* While no two writers of state.json overlap and the script's write is never cut
\* short, neither by a crash nor by an error, the service is a registry: the steps of a save, its failures, the temporary file, the
\* script's reading and writing back and all requests in between show as one table
\* in memory that changes one id at a time, one on disk (the file, or what the script
\* has in hand while the file is empty) that is replaced as a whole by what a save
\* had read, and answers that are true of both (_save_state, _load_state,
\* set_vm_mode).
ImplementsRegistry == Book!Spec

=============================================================================
