------------------------------- MODULE HalfClose -------------------------------
(***************************************************************************)
(* One established TCP connection of the reassembler (VirtConnDe): the     *)
(* DATA and FIN handlers that run in the read loops of different tunnels,  *)
(* the half-close state machine they share, its force timer, the egress    *)
(* writer and reader tasks, and the teardown paths (src/reassembler.rs).   *)
(*                                                                         *)
(* The splitter sends DATA 1..N and then FIN with seq N + 1.  Each frame   *)
(* has its own handler process: process s handles DATA s, a process of Fins*)
(* handles a copy of the FIN.  A DATA handler holds a read guard of the    *)
(* conns map from its lookup until it is done with the connection, so      *)
(* conns.remove waits for it.                                              *)
(* The reorder buffer is the set of seqs pushed so far: ReorderBuf shows   *)
(* that is_complete_through(n) is 1..(n-1) \subseteq pushed.               *)
(***************************************************************************)
EXTENDS Naturals, Sequences

CONSTANTS N,                  \* number of DATA frames
          Fins,               \* the handlers of the FIN and its duplicates
          EGRESS_CHANNEL_CAP  \* capacity of the egress channel, 512 in the code

ASSUME NAssumption == N \in Nat
ASSUME FinsAssumption == Fins \subseteq Nat /\ Fins \cap 1..N = {}
ASSUME CapAssumption == EGRESS_CHANNEL_CAP \in Nat \ {0}

VARIABLES
    in_conns,         \* the connection is in the conns map
    pc,               \* control state of each handler
    pushed,           \* seqs the reorder buffer has accepted
    ready,            \* chunks the holder of its lock has still to write
    fin_received, fin_seq, half_close_state, egress_eof,  \* VirtConnDe
    half_close, cancel, cancel_writer,                    \* Notify permits
    timer,            \* the force-close timer: "off", "armed", "fired"
    chan,             \* the egress write channel
    wpc,              \* control state of write_to_egress
    chunk,            \* the chunk it is writing
    target,           \* what the target has received, a sequence of seqs
    eof,              \* why write_to_egress ended, "none" while it runs
    rpc,              \* control state of read_from_egress
    forced,           \* history: the force timer closed the write half
    early,            \* history: a closer read fin_seq before it was stored
    broken            \* history: an egress write did not fit

reorder  == <<pushed, ready>>
connVars == <<fin_received, fin_seq, half_close_state, egress_eof>>
permits  == <<half_close, cancel, cancel_writer>>
writer   == <<chan, wpc, chunk, target, eof>>
history  == <<forced, early, broken>>
vars == <<in_conns, pc, reorder, connVars, permits, timer, writer, rpc, history>>

Seqs == 1..N
Handler == Seqs \cup Fins

Init ==
    /\ in_conns = TRUE
    /\ pc = [h \in Handler |-> "coming"]
    /\ pushed = {} /\ ready = <<>>
    /\ fin_received = FALSE /\ fin_seq = 0
    /\ half_close_state = 0 /\ egress_eof = FALSE
    /\ half_close = FALSE /\ cancel = FALSE /\ cancel_writer = FALSE
    /\ timer = "off"
    /\ chan = <<>> /\ wpc = "select" /\ chunk = 0 /\ target = <<>>
    /\ eof = "none"
    /\ rpc = "read"
    /\ forced = FALSE /\ early = FALSE /\ broken = FALSE

GoTo(h, l) == pc' = [pc EXCEPT ![h] = l]

\* DATA handlers that hold a guard of the conns map.
Guarded(h) == h \in Seqs /\ pc[h] \in {"push", "deliver", "test", "cas",
                                       "eval", "rollback", "commit"}
Removable == in_conns /\ \A h \in Handler : ~Guarded(h)

\* Mutant: before B50 one notify_one for both tasks, won by either.
TeardownWakesOne ==
    \/ cancel' = TRUE /\ UNCHANGED cancel_writer
    \/ cancel_writer' = TRUE /\ UNCHANGED cancel

signal_teardown == cancel' = TRUE /\ cancel_writer' = TRUE

\* Mutant: FIN's seq taken for the last seq instead of the next one.
CompleteBelowLast(n) == 1..(n - 2) \subseteq pushed

\* is_complete_through of the reorder buffer.
Complete(n) == 1..(n - 1) \subseteq pushed

------------------------------------------------------------------------------
(* DATA *)

\* The frame never arrives: the tunnel that carried it died.
FrameLost(h) ==
    /\ pc[h] = "coming"
    /\ GoTo(h, "done")
    /\ UNCHANGED <<in_conns, reorder, connVars, permits, timer, writer, rpc,
                   history>>

\* conns.get: an absent connection is answered with RST.
DataLookup(s) ==
    /\ pc[s] = "coming"
    /\ GoTo(s, IF in_conns THEN "push" ELSE "done")
    /\ UNCHANGED <<in_conns, reorder, connVars, permits, timer, writer, rpc,
                   history>>

\* The seqs from lo that the buffer can hand on once p has been pushed.
ReadyLen(p, lo) == CHOOSE k \in 0..N :
    /\ \A i \in lo..(lo + k - 1) : i \in p
    /\ lo + k \notin p
Expected == 1 + ReadyLen(pushed, 1)
Run(s) == [i \in 1..ReadyLen(pushed \cup {s}, Expected) |-> Expected + i - 1]

\* The reorder lock is held from push to the last egress write.
LockFree == ready = <<>>

Room == wpc # "closed" /\ Len(chan) < EGRESS_CHANNEL_CAP

\* push.  A frame ahead of the window overflows it.
DataPush(s) ==
    /\ pc[s] = "push" /\ LockFree
    /\ \/ /\ pushed' = pushed \cup {s}
          /\ ready' = Run(s)
          /\ GoTo(s, IF Run(s) = <<>> THEN "test" ELSE "deliver")
       \/ /\ s > Expected
          /\ GoTo(s, "fail")
          /\ UNCHANGED reorder
    /\ UNCHANGED <<in_conns, connVars, permits, timer, writer, rpc, history>>

\* One write to the egress channel.  A full or closed one breaks the stream.
DataDeliver(s) ==
    /\ pc[s] = "deliver"
    /\ \/ /\ Room
          /\ chan' = Append(chan, Head(ready))
          /\ ready' = Tail(ready)
          /\ GoTo(s, IF Len(ready) = 1 THEN "test" ELSE "deliver")
          /\ UNCHANGED broken
       \/ /\ ~Room
          /\ ready' = <<>>
          /\ broken' = TRUE
          /\ GoTo(s, "fail")
          /\ UNCHANGED chan
    /\ UNCHANGED <<in_conns, pushed, connVars, permits, timer, wpc, chunk, target,
                   eof, rpc, forced, early>>

\* The reset after a broken stream: tombstone, remove, teardown, RST.
DataFail(s) ==
    /\ pc[s] = "fail"
    /\ \/ Removable /\ in_conns' = FALSE /\ signal_teardown
       \/ ~in_conns /\ UNCHANGED <<in_conns, cancel, cancel_writer>>
    /\ GoTo(s, "done")
    /\ UNCHANGED <<reorder, connVars, half_close, timer, writer, rpc, history>>

DataTestFin(s) ==
    /\ pc[s] = "test"
    /\ GoTo(s, IF fin_received THEN "cas" ELSE "done")
    /\ UNCHANGED <<in_conns, reorder, connVars, permits, timer, writer, rpc,
                   history>>

------------------------------------------------------------------------------
(* FIN: start_half_close *)

\* The lookup clones the Arc and releases the guard at once.
FinLookup(h) ==
    /\ pc[h] = "coming"
    /\ GoTo(h, IF in_conns THEN "swap" ELSE "done")
    /\ UNCHANGED <<in_conns, reorder, connVars, permits, timer, writer, rpc,
                   history>>

FinSwap(h) ==
    /\ pc[h] = "swap"
    /\ fin_received' = TRUE
    /\ GoTo(h, IF fin_received THEN "finish" ELSE "store")
    /\ UNCHANGED <<in_conns, reorder, fin_seq, half_close_state, egress_eof,
                   permits, timer, writer, rpc, history>>

FinStore(h) ==
    /\ pc[h] = "store"
    /\ fin_seq' = N + 1
    /\ timer' = "armed"
    /\ GoTo(h, "cas")
    /\ UNCHANGED <<in_conns, reorder, fin_received, half_close_state, egress_eof,
                   permits, writer, rpc, history>>

------------------------------------------------------------------------------
(* close_write_half *)

\* Mutant: the swap/store pair of before BUG-5, lost to a closer under way.
ForceCloseYields ==
    /\ timer = "armed"
    /\ timer' = "fired"
    /\ half_close_state' = IF half_close_state = 0 THEN 2 ELSE half_close_state
    /\ half_close' = (half_close \/ half_close_state = 0)
    /\ forced' = (forced \/ half_close_state = 0)
    /\ UNCHANGED <<in_conns, pc, reorder, fin_received, fin_seq, egress_eof,
                   cancel, cancel_writer, writer, rpc, early, broken>>

\* HALF_CLOSE_FALLBACK expired: swap to closed; the first closer notifies.
ForceClose ==
    /\ timer = "armed"
    /\ timer' = "fired"
    /\ half_close_state' = 2
    /\ half_close' = (half_close \/ half_close_state # 2)
    /\ forced' = (forced \/ half_close_state # 2)
    /\ UNCHANGED <<in_conns, pc, reorder, fin_received, fin_seq, egress_eof,
                   cancel, cancel_writer, writer, rpc, early, broken>>

\* Only the caller that moves 0 -> 1 evaluates completeness.
CloseCas(h) ==
    /\ pc[h] = "cas"
    /\ \/ /\ half_close_state = 0
          /\ half_close_state' = 1
          /\ GoTo(h, "eval")
       \/ /\ half_close_state # 0
          /\ GoTo(h, "finish")
          /\ UNCHANGED half_close_state
    /\ UNCHANGED <<in_conns, reorder, fin_received, fin_seq, egress_eof, permits,
                   timer, writer, rpc, history>>

CloseEval(h) ==
    /\ pc[h] = "eval" /\ LockFree
    /\ GoTo(h, IF Complete(fin_seq) THEN "commit" ELSE "rollback")
    /\ early' = (early \/ fin_seq = 0)
    /\ UNCHANGED <<in_conns, reorder, connVars, permits, timer, writer, rpc,
                   forced, broken>>

\* Mutant: the rollback stores 0 over a force close (BUG-5).
RollbackStores(h) ==
    /\ pc[h] = "rollback"
    /\ half_close_state' = 0
    /\ GoTo(h, "finish")
    /\ UNCHANGED <<in_conns, reorder, fin_received, fin_seq, egress_eof, permits,
                   timer, writer, rpc, history>>

CloseRollback(h) ==
    /\ pc[h] = "rollback"
    /\ half_close_state' = IF half_close_state = 1 THEN 0 ELSE half_close_state
    /\ GoTo(h, "finish")
    /\ UNCHANGED <<in_conns, reorder, fin_received, fin_seq, egress_eof, permits,
                   timer, writer, rpc, history>>

CloseCommit(h) ==
    /\ pc[h] = "commit"
    /\ half_close_state' = 2
    /\ half_close' = TRUE
    /\ GoTo(h, "finish")
    /\ UNCHANGED <<in_conns, reorder, fin_received, fin_seq, egress_eof, cancel,
                   cancel_writer, timer, writer, rpc, history>>

\* finish_if_done: remove the connection once both directions are finished.
BothDone == fin_received /\ egress_eof /\ half_close_state = 2
finish_if_done ==
    \/ /\ BothDone /\ Removable
       /\ in_conns' = FALSE
    \/ /\ ~BothDone \/ ~in_conns
       /\ UNCHANGED in_conns

\* Mutant: the frame handlers leave the removal to the egress reader.
FinishForgotten(h) ==
    /\ pc[h] = "finish"
    /\ GoTo(h, "done")
    /\ UNCHANGED <<in_conns, reorder, connVars, permits, timer, writer, rpc,
                   history>>

Finish(h) ==
    /\ pc[h] = "finish"
    /\ finish_if_done
    /\ GoTo(h, "done")
    /\ UNCHANGED <<reorder, connVars, permits, timer, writer, rpc, history>>

------------------------------------------------------------------------------
(* write_to_egress *)

\* Out of the loop: the socket is shut down, the channel still open.
WriterEnds(why) == wpc' = "shutdown" /\ eof' = why /\ chunk' = 0

\* Every select is biased: cancel_writer comes first (B48, B51).  While it
\* drains, the task looks at it only with a chunk in hand.
WriterCancelled ==
    /\ cancel_writer
    /\ wpc \in {"select", "write"} \/ (wpc = "drain" /\ chan # <<>>)
    /\ cancel_writer' = FALSE
    /\ WriterEnds("cancel")
    /\ UNCHANGED <<in_conns, pc, reorder, connVars, half_close, cancel, timer,
                   chan, target, rpc, history>>

WriterRecv ==
    /\ wpc = "select" /\ ~cancel_writer /\ chan # <<>>
    /\ chunk' = Head(chan) /\ chan' = Tail(chan)
    /\ wpc' = "write"
    /\ UNCHANGED <<in_conns, pc, reorder, connVars, permits, timer, target, eof,
                   rpc, history>>

WriterWrites ==
    /\ wpc = "write" /\ ~cancel_writer
    /\ target' = Append(target, chunk)
    /\ chunk' = 0
    /\ wpc' = "select"
    /\ UNCHANGED <<in_conns, pc, reorder, connVars, permits, timer, chan, eof,
                   rpc, history>>

\* Write error, or EGRESS_WRITE_TIMEOUT.
WriterFails ==
    /\ wpc = "write" /\ ~cancel_writer
    /\ WriterEnds("error")
    /\ UNCHANGED <<in_conns, pc, reorder, connVars, permits, timer, chan, target,
                   rpc, history>>

\* Mutant: the half_close arm wins over queued chunks and drops them.
HalfCloseDropsQueue ==
    /\ wpc = "select" /\ ~cancel_writer /\ half_close
    /\ half_close' = FALSE
    /\ WriterEnds("half_close")
    /\ UNCHANGED <<in_conns, pc, reorder, connVars, cancel, cancel_writer, timer,
                   chan, target, rpc, history>>

\* The half_close arm is polled last, when no chunk is queued.
WriterHalfClose ==
    /\ wpc = "select" /\ ~cancel_writer /\ chan = <<>> /\ half_close
    /\ half_close' = FALSE
    /\ wpc' = "drain"
    /\ UNCHANGED <<in_conns, pc, reorder, connVars, cancel, cancel_writer, timer,
                   chan, chunk, target, eof, rpc, history>>

WriterDrain ==
    /\ wpc = "drain"
    /\ \/ /\ chan # <<>> /\ ~cancel_writer
          /\ target' = Append(target, Head(chan))
          /\ chan' = Tail(chan)
          /\ UNCHANGED <<wpc, chunk, eof>>
       \/ /\ chan # <<>> /\ ~cancel_writer
          /\ chan' = Tail(chan)
          /\ WriterEnds("error") /\ UNCHANGED target
       \/ /\ chan = <<>>
          /\ WriterEnds("half_close") /\ UNCHANGED <<chan, target>>
    /\ UNCHANGED <<in_conns, pc, reorder, connVars, permits, timer, rpc, history>>

\* The last Arc of the connection is gone and with it the sender.
WriterOrphaned ==
    /\ wpc = "select" /\ ~cancel_writer /\ chan = <<>>
    /\ ~in_conns /\ timer # "armed" /\ rpc = "done"
    /\ \A h \in Handler : pc[h] \in {"coming", "done"}
    /\ WriterEnds("dropped")
    /\ UNCHANGED <<in_conns, pc, reorder, connVars, permits, timer, chan, target,
                   rpc, history>>

\* The task returns and drops the receiver with what is queued.
WriterReturns ==
    /\ wpc = "shutdown"
    /\ wpc' = "closed"
    /\ chan' = <<>>
    /\ UNCHANGED <<in_conns, pc, reorder, connVars, permits, timer, chunk, target,
                   eof, rpc, history>>

------------------------------------------------------------------------------
(* read_from_egress *)

\* The target closes its side, or the read fails.
ReaderEof ==
    /\ rpc = "read"
    /\ rpc' = "fin"
    /\ UNCHANGED <<in_conns, pc, reorder, connVars, permits, timer, writer,
                   history>>

ReaderCancelled ==
    /\ rpc = "read" /\ cancel
    /\ cancel' = FALSE
    /\ rpc' = "done"
    /\ UNCHANGED <<in_conns, pc, reorder, connVars, half_close, cancel_writer,
                   timer, writer, history>>

\* B42: no tunnel took a response frame in time.
ReaderSendFails ==
    /\ rpc = "read"
    /\ rpc' = "reset"
    /\ UNCHANGED <<in_conns, pc, reorder, connVars, permits, timer, writer,
                   history>>

ReaderReset ==
    /\ rpc = "reset"
    /\ \/ Removable /\ in_conns' = FALSE /\ signal_teardown
       \/ ~in_conns /\ UNCHANGED <<in_conns, cancel, cancel_writer>>
    /\ rpc' = "done"
    /\ UNCHANGED <<pc, reorder, connVars, half_close, timer, writer, history>>

\* FIN (or the RST fallback, or a cancel) is out: the direction is finished.
ReaderSetsEof ==
    /\ rpc = "fin"
    /\ egress_eof' = TRUE
    /\ rpc' = "finish"
    /\ UNCHANGED <<in_conns, pc, reorder, fin_received, fin_seq,
                   half_close_state, permits, timer, writer, history>>

ReaderFinish ==
    /\ rpc = "finish"
    /\ finish_if_done
    /\ rpc' = "done"
    /\ UNCHANGED <<pc, reorder, connVars, permits, timer, writer, history>>

------------------------------------------------------------------------------

\* An RST from the splitter, or the heartbeat's idle sweep.
Torndown ==
    /\ Removable
    /\ in_conns' = FALSE
    /\ signal_teardown
    /\ UNCHANGED <<pc, reorder, connVars, half_close, timer, writer, rpc, history>>

HandlerStep(h) ==
    \/ CloseCas(h) \/ CloseEval(h) \/ CloseRollback(h) \/ CloseCommit(h)
    \/ Finish(h)
    \/ h \in Fins /\ (FinSwap(h) \/ FinStore(h))
    \/ h \in Seqs /\ (DataPush(h) \/ DataDeliver(h) \/ DataFail(h) \/ DataTestFin(h))

WriterStep ==
    \/ WriterCancelled \/ WriterRecv \/ WriterWrites \/ WriterFails
    \/ WriterHalfClose \/ WriterDrain \/ WriterOrphaned
    \/ WriterReturns

ReaderStep == ReaderCancelled \/ ReaderReset \/ ReaderSetsEof \/ ReaderFinish

Next ==
    \/ \E h \in Handler : HandlerStep(h) \/ FrameLost(h)
    \/ \E s \in Seqs : DataLookup(s)
    \/ \E h \in Fins : FinLookup(h)
    \/ ForceClose
    \/ WriterStep
    \/ ReaderStep \/ ReaderEof \/ ReaderSendFails
    \/ Torndown

\* Handlers, timers and tasks that can run do run; the frames, the target, RST
\* and the idle sweep come when they like.
Fairness ==
    /\ \A h \in Handler : WF_vars(HandlerStep(h))
    /\ WF_vars(ForceClose) /\ WF_vars(WriterStep) /\ WF_vars(ReaderStep)

Spec == Init /\ [][Next]_vars
FairSpec == Spec /\ Fairness

------------------------------------------------------------------------------
(* Properties *)

\* The shape of the state.
TypeOK ==
    /\ {in_conns, fin_received, egress_eof, half_close, cancel, cancel_writer,
        forced, early, broken} \subseteq BOOLEAN
    /\ pc \in [Handler -> {"coming", "push", "deliver", "test", "cas", "eval",
                           "rollback", "commit", "finish", "fail", "swap", "store",
                           "done"}]
    /\ pushed \subseteq Seqs /\ ready \in Seq(Seqs)
    /\ fin_seq \in {0, N + 1}
    /\ half_close_state \in 0..2
    /\ timer \in {"off", "armed", "fired"}
    /\ chan \in Seq(Seqs) /\ Len(chan) <= EGRESS_CHANNEL_CAP
    /\ wpc \in {"select", "write", "drain", "shutdown", "closed"}
    /\ chunk \in 0..N
    /\ target \in Seq(Seqs)
    /\ eof \in {"none", "cancel", "error", "half_close", "dropped"}
    /\ rpc \in {"read", "fin", "finish", "reset", "done"}

\* The handlers and the reader that may still act on the connection.
Quiet ==
    /\ \A h \in Handler : pc[h] \in {"coming", "done"}
    /\ rpc \in {"read", "done"}

\* BUG-5: the write half, once closed, stays closed: no rollback overwrites it.
ClosedIsFinal == [][half_close_state = 2 => half_close_state' = 2]_vars

\* One closer at a time holds the closing state, unless a force close has
\* taken it over: completeness is judged by the caller that won the CAS.
OneCloser ==
    LET closing == {h \in Handler : pc[h] \in {"eval", "rollback", "commit"}}
    IN  /\ \A g, h \in closing : g = h
        /\ half_close_state = 1 => closing # {}

\* A normal close waits for all the data: the write half is closed only when
\* every frame below the FIN's seq was delivered, when the fallback timer
\* forced it, or when a DATA handler ran between the two stores of
\* start_half_close.
CloseAccounted ==
    (half_close_state = 2 /\ ~forced /\ ~early) => Seqs \subseteq pushed

\* A clean EOF means the whole stream: if the writer shut the target's side
\* down for the half-close, or because the finished connection is gone, and
\* nothing of the above cut it short, nor had a chunk been dropped for want of
\* room, the target has received every DATA frame, in order.  A writer that was
\* cancelled, or whose write failed or stalled, shuts the socket down as well
\* (reassembler.rs:1512, 1517), and the target cannot tell: eof keeps these apart.
CleanEofIsComplete ==
    (eof \in {"half_close", "dropped"} /\ ~forced /\ ~early /\ ~broken)
        => target = [i \in 1..N |-> i]

\* BUG-5: after a FIN the write half is closed in the end, whatever becomes of
\* the data, and the egress writer hears of it and ends the target's stream.
EofHappens == fin_received ~> (half_close_state = 2 /\ wpc = "closed")

\* B50: a connection that has left the map leaves neither egress task behind.
NoTaskLeak == ~in_conns ~> (wpc = "closed" /\ rpc = "done")

\* D3: when no handler is running and the timer did not do the closing, a
\* connection whose two directions are finished has been removed.
DoneIsRemoved == (Quiet /\ BothDone /\ ~forced) => ~in_conns

\* reassembler.rs:119: all frames below fin_seq must be delivered before the
\* write half may close (other than by force).
NoEarlyClose == (half_close_state = 2 /\ ~forced) => Seqs \subseteq pushed

\* reassembler.rs:1446: a rolled-back close is retried by a later delivery, so
\* with the FIN and every DATA frame handled the write half is closed.
RollbackIsRetried ==
    (Quiet /\ in_conns /\ fin_received /\ Seqs \subseteq pushed) => half_close_state = 2

\* reassembler.rs:1647: the connection is removed once both directions are
\* finished, also when the timer finished the second one.
FinishedIsRemoved == (Quiet /\ BothDone) => ~in_conns

\* README.md:14: the missing frames are waited for and delivery is in order,
\* so the target holds a gap-free prefix of the stream.
TargetSeesPrefix == target = [i \in 1..Len(target) |-> i]

==============================================================================
