----------------------------- MODULE SplitterConn -----------------------------
(***************************************************************************)
(* One TCP connection of the splitter (VirtConn in src/splitter.rs): the   *)
(* client handler that uploads, closes and waits out the close grace, the  *)
(* handlers of the reassembler's frames in the read loops of different     *)
(* tunnels, the task that writes to the client, and the heartbeat's sweep. *)
(*                                                                         *)
(* The reassembler answers with DATA 1..N and FIN with seq N + 1.  Process *)
(* s handles DATA s, process 0 the FIN; either may be lost with a tunnel.  *)
(* A frame handler holds a guard of the conns map while it works on the    *)
(* connection, and the sweep locks the map's shard.                        *)
(* Time is left out: a timeout, or a silence long enough for a sweep, may  *)
(* end at any moment.  The reorder buffer is the set of seqs pushed so far *)
(* (ReorderBuf).  How ids and slots are handed out is the subject of       *)
(* ClientSlots.                                                            *)
(***************************************************************************)
EXTENDS Naturals, Sequences

CONSTANTS N,                  \* number of response DATA frames
          M,                  \* bound: number of upload DATA frames
          CLIENT_CHANNEL_CAP  \* capacity of the client channel, 512 in the code

ASSUME SizeAssumption == N \in Nat /\ M \in Nat
ASSUME ChannelAssumption == CLIENT_CHANNEL_CAP \in Nat \ {0}

VARIABLES
    in_conns,       \* the connection is in the conns map
    closed, rst, fin_received, fin_seq, grace_waiting,   \* VirtConn
    notify,         \* permit of VirtConn.notify
    pushed,         \* seqs the reorder buffer has accepted
    fpc,            \* control state of each frame handler
    ready,          \* chunks a frame handler has still to put in the channel
    chan,           \* the channel to the client's writer task
    wpc,            \* control state of the writer task
    chunk,          \* the chunk it is writing
    client,         \* what the client has received
    cut,            \* history: the writer gave up on a chunk
    pc,             \* control state of handle_tcp_client
    reason,         \* close_reason, "none" while the loop runs
    force_rst,      \* handle_tcp_client's flag of the same name
    seq,            \* the next upload seq
    hb,             \* control state of the heartbeat's sweep
    queued,         \* history: upload seqs a tunnel has taken
    fin_out,        \* history: the seq of the FIN sent, 0 before
    rst_out,        \* history: an RST for the reassembler was handed to the pool
    rst_in,         \* history: the reassembler's RST was handled
    dropped,        \* history: a chunk did not fit into the channel
    gave_up,        \* history: the close wait expired
    early           \* history: the close wait read fin_seq before it was stored

flags   == <<closed, rst, fin_received, fin_seq, grace_waiting, notify>>
frames  == <<pushed, fpc, ready>>
writer  == <<wpc, chunk, client, cut>>
handler == <<pc, reason, force_rst, seq>>
sent    == <<queued, fin_out, rst_out>>
history == <<rst_in, dropped, gave_up, early>>
vars == <<in_conns, flags, frames, chan, writer, handler, hb, sent, history>>

Seqs == 1..N
FIN == 0
FrameHandler == Seqs \cup {FIN}

Init ==
    /\ in_conns = FALSE
    /\ closed = FALSE /\ rst = FALSE /\ notify = FALSE
    /\ fin_received = FALSE /\ fin_seq = 0 /\ grace_waiting = FALSE
    /\ pushed = {}
    /\ fpc = [h \in FrameHandler |-> "coming"]
    /\ ready = [s \in Seqs |-> <<>>]
    /\ chan = <<>> /\ wpc = "none" /\ chunk = 0 /\ client = <<>>
    /\ cut = FALSE
    /\ pc = "insert" /\ reason = "none" /\ force_rst = FALSE /\ seq = 1
    /\ hb = "idle"
    /\ queued = {} /\ fin_out = 0 /\ rst_out = FALSE
    /\ rst_in = FALSE /\ dropped = FALSE /\ gave_up = FALSE /\ early = FALSE

\* The SYN is out, so the reassembler may answer.
SynSent == pc \notin {"insert", "syn", "failed"}

\* The shard of the conns map is free for a writer, or for a reader.
Unlocked == hb = "idle"
Removable ==
    /\ Unlocked
    /\ \A h \in FrameHandler : fpc[h] \notin {"push", "deliver", "overflow", "store"}

Complete(n) == 1..(n - 1) \subseteq pushed

------------------------------------------------------------------------------
(* handle_tcp_client: insert, then SYN (BUG-6) *)

ConnInsert(from, to) ==
    /\ pc = from
    /\ in_conns' = TRUE
    /\ pc' = to
    /\ UNCHANGED <<flags, frames, chan, writer, reason, force_rst, seq, hb, sent,
                   history>>

SynQueued(from, to) ==
    /\ pc = from
    /\ pc' = to
    /\ UNCHANGED <<in_conns, flags, frames, chan, writer, reason, force_rst, seq, hb,
                   sent, history>>

\* B35: with the SYN queued the client gets its reply (or does not take it in
\* time), then the writer is spawned.
Reply ==
    /\ pc = "reply"
    /\ pc' = "read"
    /\ wpc' = "recv"
    /\ UNCHANGED <<in_conns, flags, frames, chan, chunk, client, cut, reason,
                   force_rst, seq, hb, sent, history>>

\* No tunnel takes the SYN: the entry is removed and the client refused.
SynFails(from) ==
    /\ pc = from
    /\ Removable
    /\ in_conns' = FALSE
    /\ pc' = "failed"
    /\ UNCHANGED <<flags, frames, chan, writer, reason, force_rst, seq, hb, sent,
                   history>>

\* Mutant: before BUG-6 the SYN went out before the insert.
OpenSynFirst ==
    \/ SynQueued("insert", "late") \/ SynFails("insert")
    \/ ConnInsert("late", "reply") \/ Reply

Open ==
    \/ ConnInsert("insert", "syn")
    \/ SynQueued("syn", "reply") \/ SynFails("syn")
    \/ Reply

------------------------------------------------------------------------------
(* handle_tcp_client: the upload loop *)

Leave(why) == reason' = why /\ pc' = "fin"

ReadChunk ==
    /\ pc = "read" /\ seq <= M
    /\ pc' = "sending"
    /\ UNCHANGED <<in_conns, flags, frames, chan, writer, reason, force_rst, seq,
                   hb, sent, history>>

\* The client closes its side, or reading from it fails.
ReadEnds ==
    /\ pc = "read"
    /\ Leave("eof") \/ Leave("read_error")
    /\ UNCHANGED <<in_conns, flags, frames, chan, writer, force_rst, seq, hb, sent,
                   history>>

\* D3: only a teardown ends the loop, not the remote FIN.
Notified ==
    /\ pc = "read" /\ notify
    /\ notify' = FALSE
    /\ \/ closed /\ Leave(IF rst THEN "rst" ELSE "timeout")
       \/ ~closed /\ UNCHANGED <<reason, pc>>
    /\ UNCHANGED <<in_conns, closed, rst, fin_received, fin_seq, grace_waiting,
                   frames, chan, writer, force_rst, seq, hb, sent, history>>

DataSent ==
    /\ pc = "sending"
    /\ queued' = queued \cup {seq}
    /\ seq' = seq + 1
    /\ pc' = "read"
    /\ UNCHANGED <<in_conns, flags, frames, chan, writer, reason, force_rst, hb,
                   fin_out, rst_out, history>>

\* Mutant: before B61 a DATA frame that timed out was followed by FIN.
DataTimeoutFins ==
    /\ pc = "sending"
    /\ seq' = seq + 1
    /\ Leave("no_tunnel")
    /\ UNCHANGED <<in_conns, flags, frames, chan, writer, force_rst, hb, sent,
                   history>>

\* B61: no tunnel took the frame in time, the connection must be reset.
DataTimeout ==
    /\ pc = "sending"
    /\ force_rst' = TRUE
    /\ Leave("no_tunnel")
    /\ UNCHANGED <<in_conns, flags, frames, chan, writer, seq, hb, sent, history>>

------------------------------------------------------------------------------
(* handle_tcp_client: FIN, the close grace, removal *)

FinSent ==
    /\ pc = "fin" /\ reason # "rst" /\ ~force_rst
    /\ fin_out' = seq
    /\ pc' = IF reason = "eof" THEN "enter" ELSE "tombstone"
    /\ UNCHANGED <<in_conns, flags, frames, chan, writer, reason, force_rst, seq,
                   hb, queued, rst_out, history>>

\* Mutant: before BUG-11 a FIN that found no tunnel was given up.
FinTimeoutMute ==
    /\ pc = "fin" /\ reason # "rst"
    /\ pc' = "tombstone"
    /\ UNCHANGED <<in_conns, flags, frames, chan, writer, reason, force_rst, seq,
                   hb, sent, history>>

\* No FIN, or none that a tunnel takes in time (BUG-11): RST instead.
FinTimeout ==
    /\ pc = "fin" /\ reason # "rst"
    /\ rst_out' = TRUE
    /\ pc' = "tombstone"
    /\ UNCHANGED <<in_conns, flags, frames, chan, writer, reason, force_rst, seq,
                   hb, queued, fin_out, history>>

\* On RST the peer is tearing down already.
FinSkipped ==
    /\ pc = "fin" /\ reason = "rst"
    /\ pc' = "tombstone"
    /\ UNCHANGED <<in_conns, flags, frames, chan, writer, reason, force_rst, seq,
                   hb, sent, history>>

GraceEnter ==
    /\ pc = "enter"
    /\ grace_waiting' = TRUE
    /\ pc' = "grace"
    /\ UNCHANGED <<in_conns, closed, rst, fin_received, fin_seq, notify, frames,
                   chan, writer, reason, force_rst, seq, hb, sent, history>>

\* Mutant: before BUG-2 the FIN itself ended the wait.
GraceOver(n) == fin_received

\* Every frame below the FIN's seq has been delivered.
GraceComplete(n) == fin_received /\ Complete(n)

\* One round of the wait: it ends on a teardown (B26), on completion, or when
\* CLOSE_GRACE_MAX or CLOSE_QUIET_TIMEOUT is over.
Grace ==
    /\ pc = "grace"
    /\ pc' = "tombstone"
    /\ \/ closed /\ UNCHANGED <<gave_up, early>>
       \/ /\ ~closed /\ GraceComplete(fin_seq)
          /\ early' = (fin_seq = 0)
          /\ UNCHANGED gave_up
       \/ /\ ~closed /\ ~GraceComplete(fin_seq)
          /\ gave_up' = TRUE
          /\ UNCHANGED early
    /\ UNCHANGED <<in_conns, flags, frames, chan, writer, reason, force_rst, seq,
                   hb, sent, rst_in, dropped>>

\* The id goes to TIME_WAIT and our entry, if it is still there, is removed;
\* dropping vconn then ends the writer task, which is awaited.
ConnRemove ==
    /\ pc = "tombstone"
    /\ Removable
    /\ in_conns' = FALSE
    /\ pc' = "await"
    /\ UNCHANGED <<flags, frames, chan, writer, reason, force_rst, seq, hb, sent,
                   history>>

Awaited ==
    /\ pc = "await" /\ wpc = "ended"
    /\ pc' = "done"
    /\ UNCHANGED <<in_conns, flags, frames, chan, writer, reason, force_rst, seq,
                   hb, sent, history>>

------------------------------------------------------------------------------
(* handle_inbound_frame *)

FrameTo(h, l) == fpc' = [fpc EXCEPT ![h] = l]

FrameLost(h) ==
    /\ fpc[h] = "coming"
    /\ FrameTo(h, "done")
    /\ UNCHANGED <<in_conns, flags, pushed, ready, chan, writer, handler, hb, sent,
                   history>>

\* reset_conn: tombstone, remove, mark and wake the handler; RST in any case.
reset_conn ==
    /\ Removable
    /\ in_conns' = FALSE
    /\ rst' = (rst \/ in_conns) /\ closed' = (closed \/ in_conns)
    /\ notify' = (notify \/ in_conns)
    /\ rst_out' = TRUE

\* DATA for an id that is in TIME_WAIT or unknown is answered with RST.
DataLookup(s) ==
    /\ fpc[s] = "coming" /\ SynSent /\ Unlocked
    /\ \/ in_conns /\ FrameTo(s, "push") /\ UNCHANGED rst_out
       \/ ~in_conns /\ FrameTo(s, "done") /\ rst_out' = TRUE
    /\ UNCHANGED <<in_conns, flags, pushed, ready, chan, writer, handler, hb,
                   queued, fin_out, history>>

\* The seqs from lo that the buffer can hand on once p has been pushed.
ReadyLen(p, lo) == CHOOSE k \in 0..N :
    /\ \A i \in lo..(lo + k - 1) : i \in p
    /\ lo + k \notin p
Expected == 1 + ReadyLen(pushed, 1)
Run(s) == [i \in 1..ReadyLen(pushed \cup {s}, Expected) |-> Expected + i - 1]

\* The reorder lock is held from push to the last channel write.
LockFree == \A s \in Seqs : fpc[s] \notin {"deliver", "overflow"}

\* on_frame: push.  A frame ahead of the window overflows it.
Pushed(s) ==
    /\ fpc[s] = "push"
    /\ \/ /\ pushed' = pushed \cup {s}
          /\ ready' = [ready EXCEPT ![s] = Run(s)]
          /\ FrameTo(s, IF Run(s) = <<>> THEN "done" ELSE "deliver")
       \/ /\ s > Expected
          /\ FrameTo(s, "reset")
          /\ UNCHANGED <<pushed, ready>>
    /\ UNCHANGED <<in_conns, flags, chan, writer, handler, hb, sent, history>>

\* Mutant: the lock is released after push.
PushUnlocked(s) == Pushed(s)

DataPush(s) == LockFree /\ Pushed(s)

\* The channel takes a chunk as long as the writer task holds its receiver.
Room == wpc # "ended" /\ Len(chan) < CLIENT_CHANNEL_CAP

\* on_frame: one try_send.  A failed one is noted and the loop goes on.
DataDeliver(s) ==
    /\ fpc[s] \in {"deliver", "overflow"}
    /\ LET over == fpc[s] = "overflow" \/ ~Room
           last == Len(ready[s]) = 1
       IN  /\ chan' = IF Room THEN Append(chan, Head(ready[s])) ELSE chan
           /\ ready' = [ready EXCEPT ![s] = Tail(@)]
           /\ FrameTo(s, CASE last /\ over  -> "reset"
                           [] last /\ ~over -> "done"
                           [] ~last         -> IF over THEN "overflow" ELSE "deliver")
    /\ dropped' = (dropped \/ ~Room)
    /\ UNCHANGED <<in_conns, flags, pushed, writer, handler, hb, sent, rst_in,
                   gave_up, early>>

DataReset(s) ==
    /\ fpc[s] = "reset"
    /\ reset_conn
    /\ FrameTo(s, "done")
    /\ UNCHANGED <<fin_received, fin_seq, grace_waiting, pushed, ready, chan, writer,
                   handler, hb, queued, fin_out, history>>

\* FIN: fin_received is stored first.
FinLookup ==
    /\ fpc[FIN] = "coming" /\ SynSent /\ Unlocked
    /\ \/ in_conns /\ fin_received' = TRUE /\ FrameTo(FIN, "store")
       \/ ~in_conns /\ FrameTo(FIN, "done") /\ UNCHANGED fin_received
    /\ UNCHANGED <<in_conns, closed, rst, fin_seq, grace_waiting, notify, pushed,
                   ready, chan, writer, handler, hb, sent, history>>

FinStore ==
    /\ fpc[FIN] = "store"
    /\ fin_seq' = N + 1
    /\ notify' = TRUE
    /\ FrameTo(FIN, "done")
    /\ UNCHANGED <<in_conns, closed, rst, fin_received, grace_waiting, pushed, ready,
                   chan, writer, handler, hb, sent, history>>

RemoteRst ==
    /\ SynSent /\ ~rst_in
    /\ rst_in' = TRUE
    /\ reset_conn
    /\ UNCHANGED <<fin_received, fin_seq, grace_waiting, frames, chan, writer,
                   handler, hb, queued, fin_out, dropped, gave_up, early>>

------------------------------------------------------------------------------
(* The client's writer task *)

WriterRecv ==
    /\ wpc = "recv" /\ chan # <<>>
    /\ chunk' = Head(chan) /\ chan' = Tail(chan)
    /\ wpc' = "write"
    /\ UNCHANGED <<in_conns, flags, frames, client, cut, handler, hb, sent, history>>

WriterWrites ==
    /\ wpc = "write"
    /\ client' = Append(client, chunk)
    /\ chunk' = 0 /\ wpc' = "recv"
    /\ UNCHANGED <<in_conns, flags, frames, chan, cut, handler, hb, sent, history>>

\* Write error, or CLIENT_WRITE_TIMEOUT: the loop is left.
WriterFails ==
    /\ wpc = "write"
    /\ chunk' = 0 /\ wpc' = "shutdown" /\ cut' = TRUE
    /\ UNCHANGED <<in_conns, flags, frames, chan, client, handler, hb, sent, history>>

\* The last Arc of the connection is gone, and with it the sender.
WriterDrained ==
    /\ wpc = "recv" /\ chan = <<>>
    /\ pc \in {"await", "done"} /\ ~in_conns
    /\ wpc' = "shutdown"
    /\ UNCHANGED <<in_conns, flags, frames, chan, chunk, client, cut, handler, hb,
                   sent, history>>

\* Either way the stream to the client is shut down in good order; the receiver
\* goes with what is queued.
WriterShutdown ==
    /\ wpc = "shutdown"
    /\ wpc' = "ended" /\ chan' = <<>>
    /\ UNCHANGED <<in_conns, flags, frames, chunk, client, cut, handler, hb, sent,
                   history>>

------------------------------------------------------------------------------
(* The heartbeat *)

\* Silent for long enough.  With a FIN received the handler's own grace wait is
\* left alone (D3).
Sweepable == in_conns /\ Removable /\ (fin_received => ~grace_waiting)

SweepClose ==
    /\ Sweepable
    /\ closed' = TRUE
    /\ hb' = "closing"
    /\ UNCHANGED <<in_conns, rst, fin_received, fin_seq, grace_waiting, notify,
                   frames, chan, writer, handler, sent, history>>

SweepRemove ==
    /\ hb = "closing"
    /\ hb' = "idle"
    /\ rst' = TRUE /\ notify' = TRUE
    /\ rst_out' = TRUE
    /\ in_conns' = FALSE
    /\ UNCHANGED <<closed, fin_received, fin_seq, grace_waiting, frames, chan,
                   writer, handler, queued, fin_out, history>>

------------------------------------------------------------------------------

\* What the handler does without the client's help.
HandlerStep ==
    \/ Open
    \/ Notified \/ DataSent \/ DataTimeout
    \/ FinSent \/ FinTimeout \/ FinSkipped
    \/ GraceEnter \/ Grace \/ ConnRemove \/ Awaited

FrameStep(h) ==
    \/ h \in Seqs /\ (DataPush(h) \/ DataDeliver(h) \/ DataReset(h))
    \/ h = FIN /\ FinStore

WriterStep ==
    WriterRecv \/ WriterWrites \/ WriterFails \/ WriterDrained \/ WriterShutdown

Next ==
    \/ HandlerStep \/ ReadChunk \/ ReadEnds
    \/ \E h \in FrameHandler : FrameStep(h) \/ FrameLost(h)
    \/ \E s \in Seqs : DataLookup(s)
    \/ FinLookup \/ RemoteRst
    \/ WriterStep
    \/ SweepClose \/ SweepRemove

\* Tasks that can run do run and timeouts end; the client, the reassembler's
\* frames and the sweep come when they like.
Fairness ==
    /\ WF_vars(HandlerStep) /\ WF_vars(WriterStep) /\ WF_vars(SweepRemove)
    /\ \A h \in FrameHandler : WF_vars(FrameStep(h))

Spec == Init /\ [][Next]_vars
FairSpec == Spec /\ Fairness

------------------------------------------------------------------------------
(* Properties *)

\* The shape of the state.
TypeOK ==
    /\ {in_conns, closed, rst, fin_received, grace_waiting, notify, force_rst,
        rst_out, rst_in, dropped, gave_up, early, cut} \subseteq BOOLEAN
    /\ fin_seq \in {0, N + 1} /\ fin_out \in 0..(M + 1) /\ seq \in 1..(M + 1)
    /\ pushed \subseteq Seqs /\ queued \subseteq 1..M
    /\ fpc \in [FrameHandler -> {"coming", "push", "deliver", "overflow", "reset",
                                 "store", "done"}]
    /\ ready \in [Seqs -> Seq(Seqs)]
    /\ chan \in Seq(Seqs) /\ Len(chan) <= CLIENT_CHANNEL_CAP
    /\ wpc \in {"none", "recv", "write", "shutdown", "ended"} /\ chunk \in 0..N
    /\ client \in Seq(Seqs)
    /\ pc \in {"insert", "syn", "failed", "reply", "read", "sending", "fin",
               "enter", "grace", "tombstone", "await", "done"}
    /\ reason \in {"none", "eof", "read_error", "rst", "timeout", "no_tunnel"}
    /\ hb \in {"idle", "closing"}

IsRun(s) == s = [i \in 1..Len(s) |-> i]

\* on_frame (splitter.rs:107): the reorder lock is held across push and the
\* channel writes, so deliveries of several tunnels do not interleave: unless a
\* chunk was dropped for want of room, the client holds a gap-free prefix.
ClientPrefix == ~dropped => IsRun(client)

\* BUG-2: the client has closed its side and our FIN is out.  If its own stream
\* is then shut down, which looks to it like the end of the response, it has
\* received the whole response, except that
\*   the connection was torn down (RST, overflow or sweep),
\*   the close wait was given up, or looked between the two stores of a FIN,
\*   a chunk was dropped for want of room,
\*   the writer gave up on a write that failed or stalled (splitter.rs:816-822
\*   shuts the stream down in this case too).
CleanEndIsComplete ==
    (/\ wpc = "ended" /\ reason = "eof" /\ fin_out > 0
     /\ ~closed /\ ~gave_up /\ ~early /\ ~dropped /\ ~cut)
        => client = [i \in 1..N |-> i]

\* B61: the seq of our FIN tells the reassembler which DATA to wait for before
\* it closes the target's side: a tunnel has taken every frame below it, and
\* none above it ever follows.
FinCoversUpload == fin_out > 0 => queued = 1..(fin_out - 1)

\* BUG-11: a handler that has ended has told the reassembler: a tunnel took its
\* FIN, or it, the sweep or a frame handler has handed an RST to the pool.
PeerTold == pc = "done" => fin_out > 0 \/ rst_out

\* BUG-6/B26: whoever ends the connection - the reassembler's RST, a reset, the
\* sweep or the client - its handler comes to its end, and so does the writer:
\* no order of insert, SYN and an early RST leaves them waiting.
HandlerEnds ==
    (rst_in \/ closed \/ reason # "none")
        ~> \/ pc = "failed" /\ wpc = "none"
           \/ pc = "done" /\ wpc = "ended"

\* README.md:104: both ends close the write half once all DATA below the FIN is
\* delivered, so the end of a complete response that the reassembler has not
\* reset comes from a half-close and not from a reset.
ResponseEndsInHalfClose ==
    (wpc = "ended" /\ fin_seq > 0 /\ client = [i \in 1..N |-> i] /\ ~rst_in)
        => ~rst

\* splitter.rs:82 (BUG-2): all frames below fin_seq must be delivered before the
\* connection may be torn down.
GraceWaitsForData ==
    (/\ wpc = "ended" /\ reason = "eof" /\ fin_out > 0 /\ fin_received
     /\ ~closed /\ ~gave_up /\ ~cut)
        => Seqs \subseteq pushed

\* README.md:104: the write half is closed once all DATA below the FIN has been
\* delivered, so a client that did not get all of it does not see a clean end.
EndIsDelivery ==
    (/\ wpc = "ended" /\ fin_seq > 0
     /\ reason = "none" \/ (reason = "eof" /\ fin_out > 0)
     /\ ~closed /\ ~gave_up /\ ~early /\ ~dropped)
        => client = [i \in 1..N |-> i]

==============================================================================
