# Specifications of gvt-cloud-server

gvt-cloud-server runs several Windows desktops on one host with an Intel GPU,
each in a QEMU with a mediated vGPU, and shows one of them on the monitor of the
host. This directory holds TLA+ models of its parts, the TLC configurations that
check them on small instances, and proofs of the theorems that hold for every
instance. File and line references are relative to the repository.

## 1. Inventory

| Part | Source | State it keeps | Operations |
| --- | --- | --- | --- |
| Display daemon | `src/outputd/gvt-outputd.c` | source table (8 slots), active source, KMS device, pointer, status file | FRAME, CURSOR, SELECT, REMOVE datagrams; report once a second |
| QEMU display | `src/qemu/gvt-stream.c` | scan-out DMABUF, ring of 3 snapshots, cursor, KMS state, encoder, idle detector, input clients | display callbacks, timers, input lines |
| Control service | `server-control/gvt_cloud_server/*.py` | tokens, desktops and selections in memory, `state.json` | HTTP requests, one thread each, no locks |
| Host script | `scripts/multivm_remote.sh` | pid files, `config.env`, `state.json`, mediated devices | one process per command |
| Output web page | `src/outputd/gvt-output-web.py` | none (reads the status file) | select, remove |
| Kernel shadow framebuffer | `kernel/shadow_fb.c` | shadow pages, plane description; disabled by `init` | ioctls |
| Direct stream server | `src/direct-stream-server/gvt-shadowfb-rtp.c` | adaptive interval | capture loop |

How they interact. Each QEMU sends its frames (a descriptor and a size) and its
pointer positions to the daemon as datagrams on one Unix socket; the control
service and the web page send SELECT and REMOVE to the same socket, and read the
status file that the daemon writes. The control service runs the host script as
a child process; both write `state.json`. The script starts and stops QEMUs and
the daemon, and creates and removes mediated devices under sysfs.

What is hard. *Ordering*: messages of several senders reach the daemon in any
order, frames of a machine that is not shown, late frames of one that was
removed, selections of one that has not drawn. *Partial failure*: each kernel
call may be refused in the middle of a handler; each child process of the
service may fail after the service has saved its own state. *Concurrency*: the
service handles every request in a thread of its own without a lock; two
invocations of the script race for mediated devices. *Restart*: the daemon, the
service and the machines restart independently. *Bounds*: the source table, the
snapshot ring, the datagram queue, the input buffer.

What each part must get right.

- Display daemon: the kernel holds exactly the framebuffers the table refers to;
  nothing but the active machine is put on the monitor; a removed machine leaves
  nothing behind; the size presented belongs to the framebuffer; status catches up.
- QEMU display: a snapshot is not overwritten while it is on the monitor; a
  machine that draws is published again after a refused send; the monitor that QEMU
  drives itself shows the guest's scan-out or a failure is counted, and goes back
  to the host; clients see a picture in time, stamped in order and near the time of
  its capture; lines of input are handled whole, and keys go up as they went down.
- Control service: ports, MAC addresses and names are unique; what it reports as
  selected exists; a failed command does not leave a state nobody asked for.
- Host script: a mediated device is used by at most one machine; stop ends the
  machine it is asked to stop.

## 2. Modules

| Module | What it is |
| --- | --- |
| `Outputd` | the display daemon and the kernel's framebuffers, as the daemon uses them |
| `MCOutputd` | instances for TLC |
| `OutputdProofs` | theorems about `Outputd` for every value of its constants, among them that it implements `Switchboard` |
| `Switchboard` | what the daemon promises to those who select machines: who has a picture, who is selected, who is seen |
| `Desktops` | the desktops of the control service, its saves, and the script's writing of the same file |
| `MCDesktops` | instances for TLC, with the ports of the two configured machines |
| `Registry` | what the service promises to clients and to a restart: one table in memory, one on disk, answers that are true of both |
| `DesktopsProofs` | theorems about `Desktops` for every value of its constants, among them that it implements `Registry` |
| `Machines` | the script's start, stop and restart of machines: QEMU processes, pid files, mediated devices |
| `MCMachines` | instances for TLC, with two types of vGPU of different size |
| `MachinesProofs` | theorems about `Machines` for every value of its constants |
| `Snapshots` | the way of a guest's picture: QEMU's ring of snapshots, the socket, and the daemon as an instance of `Outputd` |
| `MCSnapshots` | an instance for TLC |
| `SnapshotsProofs` | theorems about `Snapshots`, with those of `OutputdProofs` by `INSTANCE` |
| `StreamKms`, `MCStreamKms` | the monitor that a single machine's QEMU drives by itself, and an instance for TLC |
| `StreamCapture`, `MCStreamCapture` | when QEMU captures a picture for its clients: the probe, idle detection, the throttle; and an instance |
| `StreamEncoder`, `MCStreamEncoder` | the GStreamer pipeline that pictures are pushed into, time stamps and the end of a video; and an instance |
| `StreamInput`, `MCStreamInput` | the input server: clients, TCP, lines, keys and buttons; and an instance |
| `StreamKmsProofs`, `StreamCaptureProofs`, `StreamEncoderProofs`, `StreamInputProofs` | theorems about these four for every value of their constants |

### Outputd

One action is one iteration of the poll loop (`main`, `recv_one`): the daemon is
one thread and handles a message to its end.

| Code | Model |
| --- | --- |
| `app.sources[8]`, `app.active` | `sources`, `active` (a slot, or `NoSlot`) |
| `kms.fd`, `kms.ready`, `kms.active` | `card`, `ready`, `lit` |
| `kms.cursor_visible`, the pointer on the monitor and its position | `cursor`: `"left"` is a pointer that the kernel refused to hide |
| `failed` counter | `failed`: it has left zero |
| the status file | `status` (`NoFile` when there is none) |
| framebuffer ids of the kernel, the primary plane | `fbs`, `screen` |

| Code | Action |
| --- | --- |
| `handle_frame` | `FrameDropped`, `FrameNotImported`, `FrameOfActive`, `FrameInBackground` |
| `handle_cursor_pos` | `HandleCursorPos`, `CursorDropped` |
| `select_source` | `SelectSource`, `SelectUnknown` |
| `remove_source` | `RemoveSource` |
| malformed datagrams | `BadMessage` |
| `report` | `Report` |
| `stop-outputd`, which removes the status file, and `start-outputd` | `Restart` |
| the daemon dies and `start-outputd` starts it again | `Crash`: the status file stays |

`Faults` is the set of calls that the kernel or the file system may refuse, any
time; `Answers` gives the outcomes of a call. Sizes are ordered numbers, because
the only thing a size decides is whether the source rectangle fits in the
framebuffer. The kernel is external: removing a framebuffer that is on the plane
turns the plane off.

`Board` is `Switchboard` by `INSTANCE`, with `WithPicture`, `ActiveName` and
`OnMonitor` for its variables: a machine has a picture when its slot has a
framebuffer, and is seen when that framebuffer is on the plane. A frame is a
`Draw`, a selection a `Select`, a removal a `Withdraw`, a restart or a crash a `Reset`;
pointers, reports and refused messages are steps that a user does not see.

### Desktops

A request is served by a thread of its own (`ThreadingHTTPServer`) and nothing
takes a lock, so one action is one stretch of a request between two points where
it does I/O or where a context switch matters: the checks, `qemu-img`, the
allocation, the insertion, and each system call of a save.

| Code | Model |
| --- | --- |
| `self._state["desktops"]` | `mem` |
| `state.json`, `state.json.tmp` | `file`, `tmp` (a table, or `Absent`, `Empty`, `Torn`) |
| the local variables of a request | `pc`, `req`, `buf` |
| the open file of `write_text` | `handle` (it follows its file through a rename) |

| Code | Action |
| --- | --- |
| `create_desktop` | `CreateChecked`, `CreateImage`, `AllocatePorts`, `Insert` |
| `delete_desktop` | `DeletePopped`, `DeleteOutput` |
| `set_desktop_mode`, `_profile`, `_resources`, `_iso` | `SetSetting` |
| `_save_state` | `SaveDump`, `SaveOpen`, `SaveWrite`, `SaveReplace` |
| `set_vm_mode` and its like in the script | `ScriptRead`, `ScriptTruncate`, `ScriptWrite` |
| the answer of `handle_api` | `Respond`, `RespondError` |
| the service is killed and started | `Restart` |

Six variables hold nothing of the program and tell the properties what has
happened: `standing` (what a client was told of an id), `stale` and `raced` (an
insertion by checks that are older than another insertion), `alone`,
`overlapped` and `cut` (two writers of `state.json` at the same time; the script's
write in place cut short, by a crash of the host, a full disk, or the service's time
limit for the script, which kills it). A property that is true only of requests that
do not race says so with one of them.

`Book` is `Registry` by `INSTANCE`. Its table in memory is `mem`; what is being saved
is what the thread between `SaveDump` and `SaveReplace` has in hand (`Dumped`); what is
kept is what the file says, or, while the script has emptied it, the table that the
script is about to write back (`OnDisk`); what was told of an id is `standing` when
that is an answer. From the first overlap of two writers on, and once the script's write has been
cut short, `lost` is set and nothing is promised any more (`Lose`). The
numbers of ports and the checks of a creation are not in it.

### Machines

Each command is a process of the script, started by the control service or by
hand; nothing takes a lock. One action is what a command does between two points
where it sleeps or runs a program that takes long: the sleeps of `stop_one` and
`start_one` (two to three seconds each) are where other commands come in.

| Code | Model |
| --- | --- |
| processes that `pgrep` finds | `owner` (the machine of each pid), `up` (those that have opened their devices), `stale` (see below) |
| `NAME.pid` | `pidfile` |
| `/sys/bus/mdev/devices/UUID` | `mdev` (its type) |
| the profile that `load_vm_meta` reads | `want` |
| the local variables of a command | `pc`, `job`, `found` |

| Code | Action |
| --- | --- |
| `start_vm`, `stop_vm`, `restart_vm` | `BeginStart`, `BeginStop`, `BeginRestart` |
| `stop_one` | `StopQuit`, `StopCollect`, `StopKill`, `StopClean`, `StopRemoveMdev` |
| `start_one`, `setup_tap` | `StartCheck`, `StartTap`, `StartLaunch`, `StartVerify` |
| `ensure_mdev_for_vm` | `LookNone`, `LookSame`, `LookKeep`, `LookReplace`, `StartReclaim`, `StartChoose`, `StartCreate`, `StartCreated` |
| `set_vm_profile` | `SetProfile` |
| whoever else writes `state.json` or `config.env` as a whole (`service.py:394`) | `ProfileReverts` |
| the guest shuts down, QEMU crashes or cannot open a device, the host boots | `QemuExits`, `QemuBoots`, `HostReboots` |

A vGPU is counted by its size: a card of capacity 2 has two small instances or a
large one, which is how `available_instances` of one type depends on the others.

A new QEMU may get any pid that is free, also one that a pid file or a command still
names. `stale` remembers for each machine which pids went to another machine's QEMU
that way, until that QEMU ends; the properties that pids decide except these and
nothing else. That such a pid goes to another program than a QEMU is not modelled.

The profile of a machine is a field of files that are rewritten as a whole, from
copies read earlier: the service saves its memory, and never learns of what
`persist_vm_profile` has put into `state.json`. `ProfileReverts` lets the profile on file
become any other at any time, also while the machine runs. `quiet` holds nothing of the
program: no other command has concerned the machine since the command began, and
nobody has put a profile on file for it since a start has read it.

The reclaiming of idle vGPUs
reads and removes them in one action, although another command may come in
between; the run that shows what goes wrong with it does not need that.

### Snapshots

QEMU's display callbacks and timers run on its main loop, one after another, so
each is one action, but for a copy, which is drawn (`pc` is then `"send"`) and
handed over by `sendmsg` in two: the call blocks when the daemon's socket is full.
The daemon is `Daemon == INSTANCE Outputd`, with one size of frame and no pointer,
since neither concerns the ring.

| Code | Model |
| --- | --- |
| the guest's scan-out, `gdpy->scanout` | `picture` (a number that grows), `scanout` |
| `publish_fb[3]`, `publish_fb_index` | `content`, `index` |
| `last_publish_ms`, `last_publish_dmabuf` | `recent`: the throttle holds |
| the daemon's socket | `queue`, up to `QueueMax` datagrams of this machine |
| the memory behind the machine's framebuffer in the daemon | `held` |

| Code | Action |
| --- | --- |
| `gl_update` with `publish_snapshot_dmabuf` | `GlUpdate`, `GlUpdateFails` |
| `scanout_dmabuf` with `publish_snapshot_dmabuf` | `ScanoutDmabuf` |
| `publish_dmabuf` | `SendSnapshot`, `SendRefused` |
| `scanout_disable`, `release_dmabuf` | `ScanoutDisable`, `ThrottleEnds` |
| `recv_one` of a FRAME of the machine | `Received`, `HandleSnapshot` |
| selections and removals | `HandleOther` |
| the daemon stops, starts | `DaemonStops`, `DaemonStarts` |

A snapshot travels as a descriptor, so `queue` and `held` name slots of the ring
and not pictures: what the monitor shows is what the slot has by then. `Old`
stands for memory that the ring has given up and that nobody draws into any more.
`missed` holds nothing of the program and says that a snapshot was drawn and did
not become the machine's framebuffer since the daemon started.

### StreamKms

The display of a machine that has `GVT_STREAM_KMS_CONNECTOR` set. Each callback
of QEMU's display runs to its end on the main loop and is one action; the kernel
calls in it are operators from one state to the set of states that may follow,
one for each outcome.

| Code | Model |
| --- | --- |
| `kms_fd`, `kms_initialized`, `kms_disabled`, `kms_atomic_ready`, `kms_crtc_id`, `kms_width`, ... | the record `kms` |
| `kms_fb_id`, `kms_fb_dmabuf`, `kms_cursor_*` | its fields `fb`, `fbBuf`, `cur...` |
| framebuffers, what the CRTC shows, the pointer, of the kernel | the record `dev` |
| `gdpy->scanout`, `QemuDmaBuf`s and what they are of | `scanout`, `mem` |

| Code | Action or operator |
| --- | --- |
| `kms_init`, `kms_find_connector`, `kms_pick_mode`, `kms_pick_crtc`, `kms_setup_atomic` | `Opened`, `OutputFor`, `CrtcRead`, `Taken`, `AtomicSetUp`, `Ready` |
| `kms_present` | `Present`, from `Added`, `Committed`, `Flipped`, `SetCrtc`, `Kept` |
| `kms_restore`, `kms_close` | `Restored`, `Closed` |
| `kms_update_cursor`, `kms_move_cursor`, `kms_clear_cursor` | `Pointed`, `Moved`, `Unpointed` |
| `scanout_dmabuf`, `scanout_disable`, `cursor_dmabuf`, `cursor_position`, `release_dmabuf`, `gl_update` | actions of these names |

A pointer is a name that is used again for other memory after `release_dmabuf`,
as QEMU's allocator may. `settled` holds nothing of the program: the last update
counted no failure and nothing has changed since. A pointer that the kernel refuses to
hide (`kms_clear_cursor` does not look at the answer) stays on the monitor, also when the
device is closed, until an image is set again. Four things that the model
follows and no property rules out: the image of the pointer never changes once
there is a handle (1483, 1493); a pointer that is set before the first update is
forgotten by the `kms_close` at the head of `kms_init`; the display gives KMS up for
good when the card cannot be opened once; the event of a page flip that is later
than 100 ms is read by the wait for the next one, and writes through a pointer
into a stack frame that is gone (1289-1359). The last is outside the model.

### StreamCapture and StreamEncoder

Two halves of `capture_frame`, checked apart. `StreamCapture` says when a picture
is captured; what becomes of it is one of three outcomes. `StreamEncoder` gets
pictures at any times and follows the pipeline.

| Code | Model |
| --- | --- |
| `last_activity_ms`, `last_input_ms`, `last_content_change_ms` | `quiet`, the age of the latest of them, all that the code looks at |
| `last_probe_ms`, `last_capture_ms` | `probed`, `captured`, as ages |
| `idle_sample` | `sample` |
| `capture_max - capture_count` | `left` |
| the time since the last refresh | `due`, at most `Late` |
| `encode_pipeline` | `pipeline` |
| `encode_count`, `encode_pts`, `last_encode_wall_ms` | `frames`, `pts`, `wall` |
| the queue of the pipeline, its bus, its failure | `queue` (frames with their stamps), `bus`, `dead` |

| Code | Action or operator |
| --- | --- |
| `effective_capture_ms` | `Busy`, `Interval` |
| `probe_activity`, `update_idle_sample` | `Probe`, `Sampled`, `NotProbed` |
| `capture_frame`, `write_ppm` | `CaptureFrame`, `Capture`, `NotImported`, `NotWritten` |
| `encoder_start` | `PushNotStarted`, `Recorded`, `Queued` (its pipeline) |
| `encoder_push`, `encoder_push_dmabuf` | `PushNothing`, `PushNoBuffer`, `PushBuffer` |
| `stamp_buffer` | `Duration`, `Stamped` (the buffer), `Stamp` (the encoder's sums) |
| `encoder_poll_bus`, `encoder_finish` | `PolledBus`, `Finish` |
| GStreamer's threads | `EncodeFrame`, `EncodeEnd`, `EncodeFails` |

A picture is a number, and the distance of two is how much of the screen differs:
what matters is whether the grid of the probe sees it (more than `Delta`), and that
small changes add up. The variables called history measure how long something has
waited; the code does not read them.

A change of the scan-out's size is left out: the pipeline keeps the caps of the
first picture, so buffers of another size go to a pipeline that does not expect
them. What GStreamer makes of that is not said by this code.

### StreamInput

A line is a number of pieces, of which the last holds the newline, and one may hold a
NUL byte; `wire` and `buffer` are sequences of pieces, so that a read may end anywhere. The handler of
a client goes on until its socket is empty, and nobody else is served in between
(`reading`); each turn of its two loops is an action.

| Code | Model |
| --- | --- |
| `server->clients`, the listening socket | `conn` |
| `client->buffer` | `buffer` |
| the socket | `wire`, `over` |
| the keys and buttons that QEMU holds down | `held` |

| Code | Action or operator |
| --- | --- |
| `input_accept` | `Accept`, of everybody who waits or, when `accept` fails, of some |
| `input_client_read` | `Handler`: `Read`, `HandleLine`, `CloseTooLong`, `ReadEnd`, `ReadNothing` |
| `input_process_line`, `_dict`, `_batch`, `_combo` | `ProcessLine`, `Single`, `Unrolled`, `Combo`, `Known` (the codes that there is a key for) |
| clients | `Connect`, `Send`, `HangUp` |

Three things that the code leaves so. Keys that a client has pressed stay down when it
leaves. A line with a NUL byte is never handled, nor any line behind it: `strchr` (772)
takes the buffer for a string that ends there, and the client is closed once a
mebibyte has come. A client that never pauses keeps the others (and QEMU's main loop)
waiting, since the read loop ends at `EAGAIN` only; `MaxLines` leaves that one out of
the model. No line of the repository says otherwise.

## 3. Runs

| Run | Instance | What it shows |
| --- | --- | --- |
| `outputd_faults` | 3 machines, 2 slots, 2 sizes, 3 framebuffers, every call may be refused | the table, the framebuffers and the picture stay consistent; only the active machine is put on the monitor |
| `outputd_live` | 2 machines, 2 slots, 2 sizes, 2 pointer positions, no call refused | the active machine is on the monitor as soon as it has a frame, sizes agree, the pointer follows, the daemon implements `Switchboard`; a machine that stays selected and draws gets the monitor; the status file catches up, after crashes that leave it and restarts that remove it |
| `desktops_saves` | 2 requests at a time, 1 id, every step may fail, crashes | while writers do not overlap and the script's write is not cut short: `state.json` is readable but for the time that the script rewrites it, and what clients were told survives; a save that runs alone repairs the file, whatever overlapping saves and crashes have left; the service implements `Registry` |
| `desktops_threads` | 2 requests at a time, 2 ids, no failure | names and ports stay unique but for stale insertions |
| `machines_quiet` | 2 commands, 2 machines, 2 pids that are used again, profiles that are put back at any time | a stop that no command overlaps cleans up; a start that says so has started, with the profile on file; a stop spares other machines; the last two but for pids that another machine's QEMU got while they were still named, or a profile put on file after the start has read it |
| `machines_ends` | 2 commands, 1 machine, 2 pids that are used again, room for one vGPU of each type | a stop that no command overlaps ends, whatever has been left before |
| `machines_stop` | a small instance | violated, see the findings |
| `snapshots` | a ring of 3, a socket for 2, 2 pictures, 2 machines, QEMU's calls may be refused | the ring does not draw into what is shown or waits, and pictures keep their order, while fewer snapshots wait than the ring has slots; a guest's last picture reaches the monitor; a full socket holds QEMU up only for a time |
| `kms` | 3 buffers, 4 scan-outs (two of one size, one wider, one of a size that the connector has no mode for), 2 pointer images, 2 modes, 2 framebuffers, every call may be refused | the kernel holds one framebuffer, the display's, and none when it has closed; an update that counts no failure shows the guest's scan-out; the host gets its picture back; the pointer is where the guest put it, and gone with the guest's unless the kernel refused to hide it |
| `capture` | intervals of 2 and 4 ticks, idle after 3, a probe every 2, refreshes up to 2 ticks apart, 3 pictures, refused imports, files and pushes, 2 captures at most or no limit | a picture waits less than the idle interval and `Late`, less than the short one and `Late` from when the machine has woken up; a visible change is noticed in less than the probe's interval and `Late` |
| `encoder` | 4 pictures, 12 ticks, gaps of up to 3 ticks, a queue of 2, every call may be refused, the pipeline may fail or be slow | the pictures of the video are stamped in order, less than a frame late and early by no more than the longest gap less a frame; a video is not begun anew and ends with its last picture |
| `input` | 2 clients that may come back, 2 lines of 1, 2 or 4 pieces, with or without a NUL, reads of 2 pieces, a limit of 2 | lines are handled whole, in order, once, and in the end unless a NUL comes before; a client is closed only for a line that is too long or has a NUL; keys and buttons are down as pressed |

Bounds. Three machines on two slots make the table overflow and make a slot be
reused by another machine; two sizes make a frame that is larger and one that is
smaller than the framebuffer it is mistaken for; one framebuffer more than slots
is what the daemon needs, because a new framebuffer is made before the old one
is removed.

In `Desktops`, two ids and two names beside the two configured machines make a
name, an id and a port be given back and taken again, and two threads make every
race of two requests. The candidates for a port are as many as there can be
desktops and one, so that the search always ends, as it does in the code
(`PortSearchEnds` proves it).
`desktops_threads` has the constraint `SavesApart`: behaviours are not followed
beyond the first overlap of two saves, which change no desktop; `desktops_saves` has no such constraint.

In `Machines`, two commands make every race of a start and a stop of one machine
and of two starts that want the same room; with two pids each machine has its QEMU, or
one machine has two (the second fails when it opens the devices), and every pid that
becomes free is used again; one small and one large
type on a card that is full with two small ones make the fallback, the reclaiming
and the refusal happen, and one with more room, in `machines_ends`, the
replacement of a vGPU. Nothing in the code compares more than two machines.

In `Snapshots`, a socket for two datagrams and a third in `sendmsg` are as many
as the ring has slots, so that the condition of `InOrder` is left and entered
again; with `<=` in place of `<` in it TLC finds the picture on the monitor drawn
into. The socket of the host takes more datagrams than that
(`net.unix.max_dgram_qlen`), so the guarantee is one for a daemon that keeps up:
one that falls three snapshots behind shows pictures that change while they are
scanned out, and may show a newer picture before an older one. Two pictures make
an older and a newer one.

In `StreamKms`, three buffers are the one shown, the next one and one that QEMU has
freed and makes again; two framebuffers are what a present needs at a time; the
four scan-outs make the presents that go on in the mode that is set, that need
another mode, and that find none.

In `StreamCapture`, the long interval is longer than the probe's and both are
longer than the short one, so that each of them decides somewhere; each bound of
`PictureInTime` is reached: with one tick less TLC finds it violated. Pictures 0 and
2 differ visibly, 0 and 1 do not: a change in two invisible steps is the one that
a sample which follows every probe would miss. The ages stop where the code no
longer looks at them, so time has no bound. In `StreamEncoder`, whose clock stops
at 12, pauses longer than the longest duration, a queue that overflows and a wait
for the end that runs out all happen with four pictures.

In `StreamInput`, a line of two pieces is cut by a read or not, one of four is too
long before its newline comes, and one piece of a line next to the end of another
makes a buffer that is over the limit for a moment; a line with a NUL and another one
after it are over the limit together and neither of them alone. Two lines are one of each of
two clients or two of one; three pieces of state (`held`, `log`, `buffer`) depend on
no more than the lines that meet in them.

Fairness. `StreamInput` has fairness of the main loop: the handler of each client is
strongly fair, since another client's may be running again and again (`poll` reports
all sockets, and each is served once before the next `poll`); one that runs has a
next step until it returns. Accepting is not fair: it fails as long as QEMU has no
descriptor left. `Snapshots` has weak fairness of the end of the throttle (time passes),
of `sendmsg` (the kernel wakes a sender when there is room or the receiver is
gone) and of the daemon's reading (`Received`, its poll loop; whatever it reads it
handles, if only by counting a failure). That the display is refreshed
and that copies can be exported and sent now and then is on the left of
`LastPictureShown`, and so is that the guest has stopped drawing. `FairSpec` of `Outputd` has weak fairness of `Report`: the poll has a
timeout of one second and `report` is called on every iteration. That a machine
keeps drawing is no assumption: `SelectedIsShown` has it, as weak fairness of the
machine's `HandleFrame`, on the left of its implication. `FairSpec` of
`Machines` has weak fairness of the steps of a stop: the host runs a process that
can go on. Nothing is assumed of QEMU, which may ignore QMP and SIGTERM and may
never open its devices or exit.

## 4. Proofs

`OutputdProofs` proves, for any sets of machines, slots, sizes, positions and
framebuffers and any set of calls that may be refused, `TypeOK`, `TableSound`,
`FramebufferOwnership`, `FramebuffersNeedKms`, `NothingLeftBehind` and the
action property `OnlyActiveShown`. The assumption is `OutputdAssumption`: sizes
are positive and the null values are not among the values.

The inductive invariant `IInv` is the conjunction of the five invariants; none is
inductive alone. `FramebufferOwnership` needs `TableSound` (a slot other than the
claimed one never has the claimed name) and `TypeOK`; `FramebuffersNeedKms`
needs `FramebufferOwnership` (the framebuffer on the plane is not the one that a
background frame replaces, or it leaves the plane with it); `NothingLeftBehind`
needs `FramebuffersNeedKms` (a picture is on the plane only while `kms.active` is
set, so `clear_output` does not skip it); it excepts a pointer that the kernel
refused to hide, which `hide_cursor` takes for hidden. The lemmas `ClaimedFacts` to
`Replaced` say what `get_source` and the shared parts return; then one lemma per
action proves the invariant and `ShownIsActive` for it.

With `Faults = {}` the invariants of the fault-free run are theorems too,
`ActivePresented`, `SizesAgree` and `PointerFollows`. The first two are inductive
together with `IInv`, as `Settled`: a frame whose size differs from that of the framebuffer it replaces
gets a framebuffer of its own size, and one of the right size is never refused
by the kernel (`FittingIsShown`), so that the active source is presented by the
very step that makes it active or gives it a framebuffer. `PointerFollows` is
inductive as `PointerKept`, with what `clear_output` leaves behind: while no source
is active no pointer is shown, so that a machine that becomes active with its
first frame does not find the pointer of another.

The last section of `OutputdProofs` proves that with `Faults = {}` every behaviour of `Outputd` is
one of `Switchboard`. A message changes the slot of its machine alone (`OneSlot`),
so that the others are seen as before unless the plane changes; that a new frame
shows its own machine and no other is `FramebufferOwnership`, that a selected
machine with a picture is presented is `Settled`, and that a picture which goes
with its framebuffer was on the plane of one machine only is both. A frame that
comes before the device can be brought up is a `Select`: no machine has a picture
then.

`DesktopsProofs` proves `TypeOK`, `DesktopsDistinct`, `FileReadable`,
`QuietSaveRepairs`, `AnswersAreDurable` and `ImplementsRegistry` for any finite set of ids, any sets of
threads and names, any configured machines and any set of steps that may fail,
from `DesktopsAssumption`: the configured machines are distinct, the ports that are
tried are one or more apart and the null values are not among the values. Along the way:

- `PortSearchEnds` says that the bound on the candidates is none: there are fewer
  ports in use than candidates (`FewPortsUsed`), so one of these is free, and the first of
  them is where the loop of `_allocate_ports` stops (`StopsAt`).

- `DesktopsDistinct` is inductive with `DistinctInv`, which says of a request
  past its checks that it is stale, or that the desktop it is about to insert
  clashes with none in memory; a deletion in between can only help.
- `FileReadable` and `QuietSaveRepairs` rest on `WriterInv`: a thread that is
  alone among the writers is the only one with a descriptor on the file that is
  now called `state.json.tmp`, and that file holds what the thread will rename.
- `AnswersAreDurable` rests on `AnswerInv`, which follows a request from the
  change in memory to the answer: what a client was told of an id agrees with
  `mem`, with what a writer has in hand, and with the file.
- `ImplementsRegistry` needs all of these. While writers do not overlap there is one
  at most (`SoleWriter`), so that what is being saved is one table and what is kept is
  known (`View`). `SaveDump` is then `Take`, `SaveReplace` is `Keep`, a write that
  fails is `Drop`, `Insert` and `DeletePopped` are `Change`, and the other steps of a
  save and all of the script's are not seen. That a crash before the script's write
  loses nothing is `ReadInv`: the script empties the file only of what it has read.
  That an answer is true of memory, disk and a save under way is `AnswerInv`.
- `WordOfDesktopsIsKept` is what that is good for: `WordIsKept` is proved of `Registry`
  in a few lines (`RegistryKeepsItsWord`), and holds of `Desktops` by the refinement. It
  says more than `AnswersAreDurable`, which is about the file alone.

`MachinesProofs` proves `TypeOK` and the action properties `QuietStopStops`,
`RunsAsOnFile`, `StartMeansRunning` and `StopsSpareOthers` for any sets of commands,
machines, pids and profiles, any sizes and capacity, from `MachinesAssumption`: there
are finitely many machines, a type takes some of the card and shows some pixels, and the
null values are not among the values. Pids may be used again in all of them.

- `QuietStopStops` and `RunsAsOnFile` rest on `QuietInv`: a quiet command that is past the
  collecting of pids has, in `found`, all QEMUs that the machine has, later none, and a
  quiet start has in `job` the profile on file. It is inductive with `LoneInv`, that
  two commands under way for one machine are never both quiet, so that whatever changes a
  quiet command's machine is the command itself, a process that ends, or a profile
  that is put on file (`Calm`, `OthersKeepParts`).
- `StartMeansRunning` and `StopsSpareOthers` need no quiet: `FileInv` and `FoundInv` say
  that what a pid file or `found` names is a QEMU of that machine, nothing, or in
  `stale` (`Right`). A step that only ends processes and forgets names keeps that
  (`StaysRight`), which leaves the two that name a pid, `StopCollect` and `StartLaunch`.

`SnapshotsProofs` proves `TypeOK` and `InOrder` for a ring and a socket of any
size, any number of pictures, any machines beside the guest's and any set of
failures, from `SnapshotsAssumption` and `SnapshotsDaemonAssumption`: ring and
socket have room for one, and the null values are not among the values. It also
proves that every behaviour of the composition is one of `Outputd` in the daemon's
variables (`DaemonIsOutputd`); the invariant of the daemon comes from
`OutputdProofs` by `INSTANCE` and is not proved again. `InOrder` is inductive with
`RingInv`, that the pictures in the ring get older going back from the slot drawn
last, and `SlotsInv`, that while none was lost the snapshots under way (in
`sendmsg`, in the socket, in the daemon) are the last slots drawn, in that order.
A send counts as waiting from the moment the slot is drawn, which is what makes
the bound tight: with as many waiting as there are slots, the last was drawn over
the one that the monitor shows.

`StreamKmsProofs` proves `TypeOK`, `FramebuffersOwned`, `FailuresAreSeen`,
`HostPictureReturns` and the action property `PointerFollowsGuest`, for any buffers,
sizes, modes, positions and set of calls that the kernel may refuse, with atomic
mode setting and without, from `StreamKmsAssumption`: sizes are positive, a scan-out is
not the image of a pointer, and the null values are not among the values. A callback
runs through states that no action ends in, so the invariant is stated of those
(`PictureHeld`, `PointerHeld`, `Known`, each of an outcome `o`), with one lemma for
each part of a callback and one step for each action that composes them.
`GuestInv` ties the display's pointers to the memory that QEMU has behind them;
`FailuresAreSeen` needs it because a pointer may be used again.

`StreamCaptureProofs` proves `TypeOK` and `PictureInTime` for any intervals (none of
them for the probe and for idling included), any lateness of the timer and any set
of failures, from `StreamCaptureAssumption`: the two intervals of the capture are
positive. The display looks at the guest only when it is refreshed, so that this is
inductive only with what holds between two of them: a change that waits came after
the last capture, or the last probe (`AgesInv`), and has waited for less than the
interval and what has passed since the last refresh (`RefreshInv`). `SeenInv` says that a
change that has not been noticed is one that the sample shows.

`StreamEncoderProofs` proves `StampsFollowWall` and the action property
`OneCompleteRecording` for any frame rate, longest gap, length of the queue, limit of
the encoder and wait for its end, from `StreamEncoderAssumption`: these times and the
queue are positive, and a frame lasts no longer than the longest gap (the code takes 1
to 120 frames a second, and gaps up to a second). `StampInv` orders the clocks, the last
stamp, the last try, now, and says that without pauses the next buffer will be stamped one
frame after the last one was captured. `BuffersInv` has the property of the file and
of the queue, whose frames may be given up in between, and orders the stamps of both
below that of the next buffer. `VideoInv` says that a pipeline that is gone has
left an empty file, or has counted its last frame; and that while the end of the
stream is waited for, the last frame is the last of the queue or of the file.

`StreamInputProofs` proves `LinesHandledWhole`, `KeysAsPressed` and the action property
`ClosedForCause` for any clients, lines and commands, any length of a line, size of a
read and limit of the buffer. `StreamInputAssumption` says that a line has at least one
piece (its newline) and a NUL in one of them or none, `CommandsAssumption` what a key, a button, a combination and a
batch consist of. `LinesHandledWhole` says of what is between a
client and the handler, in the buffer and in the socket, that it goes on without a
gap from the last line handled to the last piece sent. That the handler then
cuts at the right place is `RunInv`, that the k-th piece of a line has the k-1
earlier ones before it: up to the first newline of the buffer is exactly the next
line (`NextLine`). A buffer without a newline is then a part of that line alone; one
whose first newline is hidden has the NUL before it, in that line (`TooLongIsOneLine`).
So only a line that is longer than the limit or has a NUL closes a connection.

`KeysAsPressed` compares two ways to get at the same keys: the code's, which applies
each line's events to `held` as they come, batches taken apart level by level;
and the log's, which is applied from its beginning at once. It is inductive with the
type of the log (`KeysInv`); the work is in what the operators compute. The theorems
of the library for induction take an operator as a parameter and cannot be used here,
so `Induction` is proved from well-founded sets with a set in its place, and
`SequenceInduction` from that. A fold is the value of a function on sets of indices
(`FoldDef`, `Folded`), which gives `Applied` of a sequence with one more event
(`AppliedAppend`), of two sequences (`AppliedConcat`) and of a combination, whose keys
go down in order and up in reverse (`ComboApplied`). `EventsApplied` says that the
events of a command are those of the single commands it is unrolled to, whatever the
depth of its batches.

Each of these inductive invariants was checked by TLC on its run's instance as well.

Checked by TLC only: liveness under fairness (`StatusCatchesUp`, `SelectedIsShown`,
`QuietStopEnds`, `LastPictureShown`, `SenderGoesOn`, `CompleteLinesHandled`), which is
out of the prover's reach. Every other property that a passing run checks is a theorem.

## 5. Findings

`machines_stop`: `docs/SERVER_REQUIREMENTS.md:127` asks for a stop through QMP,
then a kill of the old QEMU. `stop_one` kills whatever process the pid file names.
The pid files are on disk and outlive a guest that shuts down and a boot of the
host; when the pid has been used again, stopping one machine kills another. In
the same situation `start_one` says that the machine is "already running", exits
with 0 and starts nothing. `StopsSpareOthers` and `StartMeansRunning` show that it
happens in no other way.

Seen while modelling; no run is kept for them, and no property says the opposite:

- SPICE ports are looked for among SPICE ports only, from 5900 up, and input ports
  from 5905 up (`service.py:456`): the fourth desktop that is created gets the port
  of `vm1`'s input server, while `docs/SERVER_REQUIREMENTS.md:144` asks for a SPICE
  port of its own for each machine.
- The MAC address is made from the number of desktops (`service.py:160`), so that a
  creation after a deletion repeats one that is in use; lines 197 to 209 of the
  same document give each machine one of its own.
- A machine that was left on the monitor, because the one selected has not drawn
  yet, goes off it with its own next frame (`gvt-outputd.c:787` removes the
  framebuffer that is on the plane): the monitor is dark until the selected one
  draws. `Switchboard` has it so, in `Draw`.
- A vGPU counts as idle (`multivm_remote.sh:343`) until a QEMU has it among its
  arguments. A start creates it, sleeps for a second and launches QEMU after that;
  another start that finds no room in between removes it.
- "requested GVT-g profile but no instance is available" (`multivm_remote.sh:470`)
  is also said when the room is taken by the machine's own vGPU, which a guest that
  shut down has left in place; the profile that was set is then overwritten.
- A fallback profile that `persist_vm_profile` puts into `state.json`
  (`multivm_remote.sh:393`) is lost with the service's next save, whose memory has the
  old one (`service.py:394`).
- `drmModeSetCursor` may fail to hide the pointer, in the daemon (`gvt-outputd.c:426`)
  and in QEMU (`gvt-stream.c:1453`); both take it for hidden, count nothing and do not
  try again, so that a pointer can stay on a monitor that nobody uses.
- After a refused import a source has its old framebuffer and the size of the frame that
  was refused (`gvt-outputd.c:716`); the next selection presents the one with the other.
- A buffer's stamp is that at which the buffer before it ends (`gvt-stream.c:2315`), one
  frame after that was captured: a picture that comes after a second without one is
  shown almost a second early, and stays until the next.
- A NUL byte in a line of input hides every newline after it (`gvt-stream.c:772`).

## 6. Hazards

`PROJECT.json` lists what is hard to test in this code, at the line where it
bites, with the properties that cover it. Four of them have none: the selection
after a restart of the daemon, and the ports, the reclaimed vGPU and the size after a
refused import of the findings. Lesser ones that are not listed there: descriptors left open by malformed
datagrams (`gvt-outputd.c:936`), MAC addresses, a disk that is deleted before the
deletion is saved (`service.py:297`), a disk that two creations of one id share
(`service.py:154`), tap names cut to 15 characters (`service.py:176`), page-flip
events that come late (`gvt-stream.c:1766`), pictures that change their size while
they are encoded (`gvt-stream.c:2040`), keys that stay down when a client leaves
(`gvt-stream.c:748`).

## 7. Plan

The order is that of the importance of what can go wrong. 1 to 3, 5 and 7 to 9 are
done.

1. `Outputd` with `Switchboard`, and their theorems.
2. `Desktops` with `Registry`, and their theorems.
3. `Machines`, with its theorems.
4. `Settings`: modes, profiles, resources and installation media of a machine as
   the service's memory, `state.json`, `config.env` and the running machine have
   them; commands that fail half way; which of the copies a start reads. Runs: one
   desktop and one configured machine, two values of each setting. Properties: a
   start uses what the last answer said; a failed command leaves all copies as
   they were. Theorem: the copies agree while no command fails.
5. `Snapshots`, composed with `Outputd`, with its theorems.
6. `Relay`: `Outputd` by `INSTANCE`, a queue of datagrams of several senders, the
   stop of a machine by the script (REMOVE before QEMU has ended, frames still in
   the queue), restarts of the daemon. Property: no stopped machine stays on the
   monitor.
7. `StreamKms`, with its theorems.
8. `StreamInput`, with its theorems.
9. `StreamCapture` and `StreamEncoder`, with their theorems.
10. `Sessions`: tokens, expiry, the threads that read and purge them.
11. Pure computations as functions over bounded inputs, against reference
    definitions: the tiling and swizzling of `shadow_fb.c`, the adaptive interval
    of `gvt-shadowfb-rtp.c`.

Each module that is done has an inductive invariant and a module of theorems. Those
about `Settings` and `Relay` would go next to the ones about `Machines` and `Outputd`,
whose state they share; 10 and 11 stay with TLC.

## 8. What is not modelled

- Of the host script: `start`, `stop` and `setup`, which do for both configured
  machines in a row what `Machines` does for one; the start of the daemon and of
  the web page; disks, networks and QEMU's arguments, as data.
- Of the control service: starting and stopping machines (it calls the script),
  settings of the configured machines, selections, sessions, uploads (planned as
  far as they change shared state).
- Of `gvt-stream.c`: in the ring and in the encoder, the size of a scan-out; several
  consoles; the build without GBM; what the encoder's settings do to the video; the
  statistics in the log.
- `kernel/shadow_fb.c`, whose `init` leaves it disabled, and `gvt-shadowfb-rtp.c`,
  which reads its pictures.
- The kernel, GBM, GStreamer, QEMU and the guests: they appear as what the code
  sees of them, with every outcome of a call that the code handles.
- The pages and styles of the two web servers, the client-side scripts, the
  kernel patches and build files, `gvt-stream-low-latency-baseline.c` (an older
  copy): no state of their own, or out of use.
