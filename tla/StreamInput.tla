----------------------------- MODULE StreamInput -----------------------------
(***************************************************************************)
(* The input server of QEMU's display gvt-stream (gvt_stream_input_* in    *)
(* src/qemu/gvt-stream.c): clients send lines of JSON over TCP, each of    *)
(* which moves the guest's pointer or presses and releases keys.           *)
(*                                                                         *)
(* TCP cuts the lines anywhere.  A line is therefore a number of pieces,   *)
(* of which one read takes as many as have arrived and fit into its        *)
(* buffer; the last piece holds the newline.                               *)
(*                                                                         *)
(* The handlers run on QEMU's main loop.  One that reads goes on until the *)
(* socket is empty, so what a client sends while the handler runs is read  *)
(* by the same call, and nobody else is served until it returns.           *)
(***************************************************************************)
EXTENDS Naturals, SequencesExt

CONSTANTS
  Clients,    \* who may connect; any number of them at a time
  Commands,   \* the JSON objects that are sent, and the items of batches
  Lines,      \* what is sent: records of a command, its length in pieces, and the piece
              \* that holds a NUL byte, 0 if none does
  Depth,      \* how deep batches are nested
  Codes,      \* names of keys and buttons that QEMU knows
  Chunk,      \* pieces that one read takes, char tmp[4096]
  Limit,      \* pieces of an unfinished line, 1024 * 1024
  MaxLines,   \* bound on the lines that all clients begin
  Nobody

ASSUME StreamInputAssumption ==
  /\ \A l \in Lines : l.do \in Commands /\ l.len \in Nat \ {0} /\ l.nul \in 0 .. l.len
  /\ Depth \in Nat /\ Chunk \in Nat \ {0} /\ Limit \in Nat /\ MaxLines \in Nat
  /\ Nobody \notin Clients

\* What process_dict takes from a command by its type; keys and buttons that do not say
\* whether they are down are up.
ASSUME CommandsAssumption ==
  \A c \in Commands :
    /\ c.type = "batch" => c.items \in Seq(Commands)
    /\ c.type = "combo" => c.codes \in Seq(Range(c.codes))
    /\ c.type \in {"key", "button"} => c.down \in BOOLEAN

VARIABLES
  conn,      \* "none", "waiting" to be accepted, or "open"
  sent,      \* the lines that the client began to send on its connection
  pieces,    \* how many pieces of the last one it has sent
  wire,      \* the pieces in the socket, each <<number of the line, piece of it>>
  over,      \* the client has closed its end
  begun,     \* the lines begun by all clients, for the bound
  buffer,    \* client->buffer
  reading,   \* the client whose handler runs, or Nobody
  held,      \* keys and buttons that are down in the guest
  handled,   \* history: how many lines of the connection have been handled
  garbled,   \* history: something else than a line that was sent has been handled
  log        \* history: the commands in the order in which they were handled

clientVars == <<sent, pieces, over, begun>>
guestVars  == <<held, handled, garbled, log>>
vars == <<conn, clientVars, wire, buffer, reading, guestVars>>

----------------------------------------------------------------------------
(***************************************************************************)
(* What a command does to the keys and buttons of the guest.  Moves, which *)
(* change none of them, have no events here.                               *)
(***************************************************************************)
Event(code, down) == [code |-> code, down |-> down]

\* The keys of a combination that gvt_stream_parse_qcode knows, in their order.
Known(codes) ==
  FlattenSeq([i \in DOMAIN codes |-> IF codes[i] \in Codes THEN <<codes[i]>> ELSE <<>>])

\* A combination that does not release the key it has pressed first.
ComboKeepsFirst(codes) ==
  LET known == Known(codes)
  IN  [i \in DOMAIN known |-> Event(known[i], TRUE)]
        \o Reverse([i \in 1 .. Len(known) - 1 |-> Event(known[i + 1], FALSE)])

\* process_combo: all keys that are known are pressed in order, and released from
\* the last to the first.
Combo(codes) ==
  LET known == Known(codes)
  IN  [i \in DOMAIN known |-> Event(known[i], TRUE)]
        \o Reverse([i \in DOMAIN known |-> Event(known[i], FALSE)])

\* A key, a button or a notch of the wheel; an unknown name or type is an error
\* that is counted and has no events.
Single(c) ==
  CASE c.type \in {"key", "button"} /\ c.code \in Codes -> <<Event(c.code, c.down)>>
    [] c.type = "wheel" -> <<Event(c.code, TRUE), Event(c.code, FALSE)>>
    [] c.type = "combo" -> Combo(c.codes)
    [] OTHER -> <<>>

\* process_dict, which calls itself for the items of a batch.
Unrolled ==
  LET to[d \in 0 .. Depth] ==
        [c \in Commands |->
           IF c.type # "batch" THEN <<c>>
           ELSE IF d = 0 THEN <<>>
           ELSE FlattenSeq([i \in DOMAIN c.items |-> to[d - 1][c.items[i]]])]
  IN  to[Depth]

Events(c) == FlattenSeq([i \in DOMAIN Unrolled[c] |-> Single(Unrolled[c][i])])

\* QEMU's input layer.
Applied(keys, events) ==
  FoldLeft(LAMBDA k, e : IF e.down THEN k \cup {e.code} ELSE k \ {e.code}, keys, events)

----------------------------------------------------------------------------
(***************************************************************************)
(* The clients and the network.                                            *)
(***************************************************************************)
Connect(c) ==
  /\ conn[c] = "none"
  /\ conn' = [conn EXCEPT ![c] = "waiting"]
  /\ sent' = [sent EXCEPT ![c] = <<>>] /\ pieces' = [pieces EXCEPT ![c] = 0]
  /\ wire' = [wire EXCEPT ![c] = <<>>] /\ over' = [over EXCEPT ![c] = FALSE]
  /\ handled' = [handled EXCEPT ![c] = 0]
  /\ UNCHANGED <<begun, buffer, reading, held, garbled, log>>

\* The last line of the client is out.
Complete(c) == pieces[c] = IF sent[c] = <<>> THEN 0 ELSE Last(sent[c]).len

Send(c) ==
  /\ conn[c] # "none" /\ ~over[c]
  /\ \/ /\ ~Complete(c)
        /\ pieces' = [pieces EXCEPT ![c] = @ + 1]
        /\ UNCHANGED <<sent, begun>>
     \/ /\ Complete(c) /\ begun < MaxLines
        /\ \E l \in Lines : sent' = [sent EXCEPT ![c] = Append(@, l)]
        /\ pieces' = [pieces EXCEPT ![c] = 1] /\ begun' = begun + 1
  /\ wire' = [wire EXCEPT ![c] = Append(@, <<Len(sent'[c]), pieces'[c]>>)]
  /\ UNCHANGED <<conn, over, buffer, reading, guestVars>>

\* The client closes its end, or is gone and what it sent is lost.
HangUp(c) ==
  /\ conn[c] # "none" /\ ~over[c]
  /\ over' = [over EXCEPT ![c] = TRUE]
  /\ wire' \in {wire, [wire EXCEPT ![c] = <<>>]}
  /\ UNCHANGED <<conn, sent, pieces, begun, buffer, reading, guestVars>>

----------------------------------------------------------------------------
(***************************************************************************)
(* The server.                                                             *)
(***************************************************************************)
\* input_accept: everybody who waits gets an empty buffer and a handler, or only some
\* do, when accept fails before the socket is empty.
Accept ==
  /\ reading = Nobody
  /\ \E some \in SUBSET { c \in Clients : conn[c] = "waiting" } :
       /\ some # {}
       /\ conn' = [c \in Clients |-> IF c \in some THEN "open" ELSE conn[c]]
       /\ buffer' = [c \in Clients |-> IF c \in some THEN <<>> ELSE buffer[c]]
  /\ UNCHANGED <<clientVars, wire, reading, guestVars>>

\* A newline is the last piece of a line; a NUL comes before it.
IsNewline(c, piece) == piece[2] = sent[c][piece[1]].len
IsNul(c, piece) == piece[2] = sent[c][piece[1]].nul

\* A look at the last piece only.
LineReadyAtEnd(c) == buffer[c] # <<>> /\ IsNewline(c, Last(buffer[c]))

\* strchr finds a newline in the buffer, which it takes to end at a NUL.
LineReady(c) ==
  \E i \in DOMAIN buffer[c] :
    IsNewline(c, buffer[c][i]) /\ \A j \in 1 .. i : ~IsNul(c, buffer[c][j])

\* A limit on everything that a read has found, complete lines included.
TooLongWithLines(c) == Len(buffer[c]) > Limit

\* Only what is behind the last newline that was found counts against the limit.
TooLong(c) == ~LineReady(c) /\ Len(buffer[c]) > Limit

\* client_read calls read: the handler of c starts, or goes round its loop.
ReadyToRead(c) ==
  /\ conn[c] = "open" /\ reading \in {Nobody, c}
  /\ ~LineReady(c) /\ ~TooLong(c)

\* read returns what has arrived, as far as it fits.
Read(c) ==
  LET n == IF Len(wire[c]) < Chunk THEN Len(wire[c]) ELSE Chunk
  IN  /\ ReadyToRead(c) /\ n > 0
      /\ buffer' = [buffer EXCEPT ![c] = @ \o SubSeq(wire[c], 1, n)]
      /\ wire' = [wire EXCEPT ![c] = SubSeq(@, n + 1, Len(@))]
      /\ reading' = c
      /\ UNCHANGED <<conn, clientVars, guestVars>>

\* What is left of the buffer when the line up to piece i has been taken from it.
RestForgotten(c, i) == <<>>
Rest(c, i) == SubSeq(buffer[c], i + 1, Len(buffer[c]))

\* process_line: a text is handled as the line that the client sent if all its pieces
\* are there.
ProcessLine(c, text) ==
  LET n == text[1][1]
  IN  IF text = [i \in 1 .. sent[c][n].len |-> <<n, i>>]
      THEN /\ held' = Applied(held, Events(sent[c][n].do))
           /\ log' = Append(log, sent[c][n].do)
           /\ handled' = [handled EXCEPT ![c] = @ + 1]
           /\ UNCHANGED garbled
      ELSE garbled' = TRUE /\ UNCHANGED <<held, log, handled>>

\* One turn of the loop over the lines of the buffer.
HandleLine(c) ==
  /\ reading = c /\ LineReady(c)
  /\ \E i \in DOMAIN buffer[c] :
       /\ IsNewline(c, buffer[c][i]) /\ \A j \in 1 .. i - 1 : ~IsNewline(c, buffer[c][j])
       /\ ProcessLine(c, SubSeq(buffer[c], 1, i))
       /\ buffer' = [buffer EXCEPT ![c] = Rest(c, i)]
  /\ UNCHANGED <<conn, clientVars, wire, reading>>

\* client_close; the keys that the client holds stay down.
Close(c) ==
  /\ conn' = [conn EXCEPT ![c] = "none"]
  /\ buffer' = [buffer EXCEPT ![c] = <<>>]
  /\ reading' = Nobody
  /\ UNCHANGED <<clientVars, wire, guestVars>>

CloseTooLong(c) == reading = c /\ TooLong(c) /\ Close(c)

\* read finds the end of the stream, or an error: an unfinished line is dropped.
ReadEnd(c) == ReadyToRead(c) /\ wire[c] = <<>> /\ over[c] /\ Close(c)

\* read would block, and the handler returns.
ReadNothing(c) ==
  /\ reading = c /\ ReadyToRead(c) /\ wire[c] = <<>> /\ ~over[c]
  /\ reading' = Nobody
  /\ UNCHANGED <<conn, clientVars, wire, buffer, guestVars>>

Init ==
  /\ conn = [c \in Clients |-> "none"]
  /\ sent = [c \in Clients |-> <<>>] /\ pieces = [c \in Clients |-> 0]
  /\ wire = [c \in Clients |-> <<>>] /\ over = [c \in Clients |-> FALSE]
  /\ begun = 0 /\ buffer = [c \in Clients |-> <<>>] /\ reading = Nobody
  /\ held = {} /\ handled = [c \in Clients |-> 0] /\ garbled = FALSE /\ log = <<>>

\* What the handler of a client does next.
Handler(c) == Read(c) \/ HandleLine(c) \/ CloseTooLong(c) \/ ReadNothing(c) \/ ReadEnd(c)

Next ==
  \/ Accept
  \/ \E c \in Clients : Connect(c) \/ Send(c) \/ HangUp(c) \/ Handler(c)

\* The main loop calls the handlers of all sockets that have something for them, and one
\* that runs goes on: it has a next step until it returns.  Nobody is sure to be accepted.
Fairness == \A c \in Clients : SF_vars(Handler(c))

Spec == Init /\ [][Next]_vars /\ Fairness

----------------------------------------------------------------------------
\* What a client has sent and the server has not handled.
Pending(c) == buffer[c] \o wire[c]

\* The piece of the client's stream behind piece p.
Behind(c, p) == IF IsNewline(c, p) THEN <<p[1] + 1, 1>> ELSE <<p[1], p[2] + 1>>

\* The i-th piece that there should be, behind the lines that have been handled and
\* the pieces before it.
Due(c, i) == IF i = 1 THEN <<handled[c] + 1, 1>> ELSE Behind(c, Pending(c)[i - 1])

\* The piece that the client sends next, and those that it has sent.
Upcoming(c) == IF Complete(c) THEN <<Len(sent[c]) + 1, 1>> ELSE <<Len(sent[c]), pieces[c] + 1>>
IsSent(c, p) == p[1] < Len(sent[c]) \/ (p[1] = Len(sent[c]) /\ p[2] <= pieces[c])

\* No piece is missing, twice or out of place, up to what the client sends next.
Gapless(c) ==
  /\ \A i \in DOMAIN Pending(c) : Pending(c)[i] = Due(c, i) /\ IsSent(c, Pending(c)[i])
  /\ ~over[c] => Due(c, Len(Pending(c)) + 1) = Upcoming(c)

\* Wherever TCP cuts a stream, and whoever is read in between, the lines of a client
\* are handled whole, in order and once each, and what is not handled yet is in its
\* buffer and its socket (client_read; a stream that was lost on the way ends early).
LinesHandledWhole == ~garbled /\ \A c \in Clients : conn[c] # "none" => Gapless(c)

\* The server closes a connection that the client keeps open only because of the line
\* that comes next: it is too long, or a NUL in it hides its newline and those behind
\* it until too much has come.  However many short lines a read brings are no cause.
ClosedForCause ==
  [][\A c \in Clients :
       conn[c] = "open" /\ conn'[c] # "open" /\ ~over[c]
         => /\ handled[c] < Len(sent[c]) /\ Len(Pending(c)) > Limit
            /\ LET next == sent[c][handled[c] + 1] IN next.len > Limit \/ next.nul # 0]_vars

\* The keys and buttons that a command names.
Names(c) == IF c.type = "combo" THEN Range(c.codes) ELSE IF c.type \in {"key", "button", "wheel"} THEN {c.code} ELSE {}

\* Exactly those keys are down in the guest that were pressed by name and not named
\* again since: combinations and the wheel leave up what they press, also with
\* unknown keys among theirs, in batches, and when several clients take turns
\* (process_combo, process_batch).
KeysAsPressed ==
  LET done == FlattenSeq([k \in DOMAIN log |-> Unrolled[log[k]]])
  IN  held = { k \in Codes : \E i \in DOMAIN done :
                 /\ done[i].type \in {"key", "button"} /\ done[i].code = k /\ done[i].down
                 /\ \A j \in i + 1 .. Len(done) : k \notin Names(done[j]) }

\* The client has sent its first n lines, without a NUL.
IsOut(c, n) ==
  /\ Len(sent[c]) >= n /\ (Len(sent[c]) = n => Complete(c))
  /\ \A m \in (1 .. n) \cap DOMAIN sent[c] : sent[c][m].nul = 0

\* The lines that are complete on the accepted connections whose clients stay, with no
\* NUL in them or before them, have been handled.
Served ==
  \A c \in Clients : \A n \in 1 .. MaxLines :
    conn[c] = "open" /\ ~over[c] /\ IsOut(c, n) => handled[c] >= n

\* Again and again nothing complete is left to handle: no newline waits in a buffer for
\* what comes after it, and no client is passed over.  MaxLines leaves out that a client
\* that never stops sending keeps the handler in its loop, and the lines of everybody
\* else unread (client_read returns only when nothing is left to read).
CompleteLinesHandled == []<>Served
=============================================================================
