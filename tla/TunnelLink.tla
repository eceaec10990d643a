------------------------------ MODULE TunnelLink ------------------------------
(***************************************************************************)
(* The pool of tunnel links (src/tunnel.rs) with the tasks that live around*)
(* each link: the drain task that writes queued frames to the tunnel, the  *)
(* read loop that notices the tunnel's end, the owner that recovers lost   *)
(* frames and reconnects (splitter.rs) or the listener that accepts the    *)
(* next link (reassembler.rs), the heartbeat, and the senders.             *)
(*                                                                         *)
(* A link is one TunnelLink object; a tunnel has several in turn.  Every   *)
(* DATA frame here belongs to a connection of its own and is sent by a     *)
(* task of its own with send_async; control frames go through send.        *)
(* The frame contents, the byte counters and the rates are left out:       *)
(* weighted_pick is any candidate, send starts anywhere in the ring.       *)
(***************************************************************************)
EXTENDS Naturals, Sequences, FiniteSets, Functions

CONSTANTS
    Role,         \* "splitter" or "reassembler": who owns the links
    Tunnel,       \* the configured tunnels
    MaxSessions,  \* bound: links per tunnel over time
    Data,         \* the DATA frames sent, one per connection
    Oversized,    \* those of them that encode_into refuses
    Ctl,          \* the control frames sent, by send
    Cap,          \* TUNNEL_CHANNEL_CAP, 128 in the code
    MAX_TUNNEL_LINKS,  \* accept limit of the reassembler, 64 in the code
    None          \* no frame, no link

ASSUME RoleAssumption == Role \in {"splitter", "reassembler"}
ASSUME BoundAssumption ==
    /\ MaxSessions \in Nat \ {0}
    /\ Cap \in Nat \ {0}
    /\ MAX_TUNNEL_LINKS \in Nat \ {0}
ASSUME FrameAssumption ==
    /\ Oversized \subseteq Data
    /\ Data \cap Ctl = {}
    /\ {<<"rst", f>> : f \in Data} \cap (Data \cup Ctl) = {}
    /\ None \notin Data \cup Ctl \cup {<<"rst", f>> : f \in Data}

VARIABLES
    pool,         \* TunnelPool.links
    session,      \* number of links each tunnel has had
    admitted,     \* tunnels whose listener has passed the accept limit
    alive,        \* TunnelLink.alive
    queue,        \* the link's mpsc channel
    rx,           \* the channel's receiver exists
    stop,         \* permit of TunnelLink.stop
    writer_died,  \* permit of TunnelLink.writer_died
    lost_frames,  \* TunnelLink.lost_frames
    net,          \* the TCP connection: "up", "ended" (for the reader, with EOF
                  \* or an error) or "silent" (partition)
    dpc,          \* control state of the drain task
    inflight,     \* the frame the drain task has dequeued
    rpc,          \* control state of the read loop and what follows it
    batch,        \* lost frames taken for recovery and not yet handled
    spc,          \* control state of the send_async of each DATA frame
    picked,       \* the link weighted_pick returned to it
    full,         \* its skip list of saturated links
    woken,        \* add() ran since its Notified future was created
    conns,        \* DATA frames whose connection is in the conns map
    accepted,     \* history: frames some channel has taken
    written,      \* history: frames written to a tunnel
    was_reset,    \* history: DATA frames whose connection was reset
    discarded,    \* history: recovery had nowhere to put them
    unreported    \* history: frames dropped without a trace

owners   == <<pool, session, admitted>>
linkVars == <<alive, queue, rx, stop, writer_died, lost_frames, net>>
taskVars == <<dpc, inflight, rpc, batch>>
sendVars == <<spc, picked, full, woken>>
history  == <<accepted, written, was_reset, discarded, unreported>>
vars == <<pool, session, admitted, linkVars, taskVars, sendVars, conns, history>>

Link == Tunnel \X (1..MaxSessions)
Rst(f) == <<"rst", f>>
Frame == Data \cup Ctl \cup {Rst(f) : f \in Data}
IsControl(f) == f \notin Data

AliveLinks == {l \in pool : alive[l]}

Init ==
    /\ pool = {}
    /\ session = [t \in Tunnel |-> 0]
    /\ admitted = {}
    /\ alive = [l \in Link |-> FALSE]
    /\ queue = [l \in Link |-> <<>>]
    /\ rx = [l \in Link |-> FALSE]
    /\ stop = [l \in Link |-> FALSE]
    /\ writer_died = [l \in Link |-> FALSE]
    /\ lost_frames = [l \in Link |-> {}]
    /\ net = [l \in Link |-> "none"]
    /\ dpc = [l \in Link |-> "none"]
    /\ inflight = [l \in Link |-> None]
    /\ rpc = [l \in Link |-> "none"]
    /\ batch = [l \in Link |-> {}]
    /\ spc = [f \in Data |-> "loop"]
    /\ picked = [f \in Data |-> None]
    /\ full = [f \in Data |-> {}]
    /\ woken = [f \in Data |-> FALSE]
    /\ conns = Data
    /\ accepted = {} /\ written = {} /\ was_reset = {}
    /\ discarded = {} /\ unreported = {}

------------------------------------------------------------------------------
(* Establishing a link *)

\* A listener of the reassembler, one per port, accepts a connection and finds
\* alive_count below the limit; above it the connection is dropped.
Accept(t) ==
    /\ Role = "reassembler" /\ t \notin admitted /\ session[t] < MaxSessions
    /\ Cardinality(AliveLinks) < MAX_TUNNEL_LINKS
    /\ admitted' = admitted \cup {t}
    /\ UNCHANGED <<pool, session, linkVars, taskVars, sendVars, conns, history>>

\* The splitter's owner task dials again only after the previous link has
\* been recovered.
MayOpen(t) ==
    IF Role = "reassembler" THEN t \in admitted
    ELSE /\ session[t] < MaxSessions
         /\ session[t] > 0 => rpc[<<t, session[t]>>] = "done"

\* Mutant: before B47 the Notified future was created after the check that no
\* link is alive, and notify_waiters missed a sender that was in between.
NotifyMissesSome ==
    \E missed \in SUBSET {f \in Data : spc[f] = "wait"} :
        woken' = [f \in Data |-> f \notin missed]

\* added.notify_waiters() reaches every Notified future created before it.
notify_waiters == woken' = [f \in Data |-> TRUE]

\* A new TunnelLink, TunnelPool::add with its notify_waiters, and the two
\* tasks spawned for the link.
Open(t) ==
    LET l == <<t, session[t] + 1>> IN
    /\ MayOpen(t)
    /\ session' = [session EXCEPT ![t] = @ + 1]
    /\ admitted' = admitted \ {t}
    /\ pool' = pool \cup {l}
    /\ alive' = [alive EXCEPT ![l] = TRUE]
    /\ rx' = [rx EXCEPT ![l] = TRUE]
    /\ net' = [net EXCEPT ![l] = "up"]
    /\ dpc' = [dpc EXCEPT ![l] = "recv"]
    /\ rpc' = [rpc EXCEPT ![l] = "read"]
    /\ notify_waiters
    /\ UNCHANGED <<queue, stop, writer_died, lost_frames, inflight, batch, spc,
                   picked, full, conns, history>>

------------------------------------------------------------------------------
(* drain_frames *)

DrainTo(l, pc) == dpc' = [dpc EXCEPT ![l] = pc]
Report(l, f) == lost_frames' = [lost_frames EXCEPT ![l] = @ \cup {f}]

\* stop fires while the task waits for a frame.
DrainStopped(l) ==
    /\ dpc[l] = "recv" /\ stop[l]
    /\ stop' = [stop EXCEPT ![l] = FALSE]
    /\ DrainTo(l, "drain")
    /\ UNCHANGED <<owners, alive, queue, rx, writer_died, lost_frames,
                   net, inflight, rpc, batch, sendVars, conns, history>>

\* Mutant: before B24 the refused frame was dropped.
DrainRecvDropsOversized(l) ==
    /\ dpc[l] = "recv" /\ queue[l] # <<>>
    /\ queue' = [queue EXCEPT ![l] = Tail(@)]
    /\ LET f == Head(queue[l]) IN
       IF f \in Oversized
       THEN DrainTo(l, "drain") /\ UNCHANGED inflight
       ELSE inflight' = [inflight EXCEPT ![l] = f] /\ DrainTo(l, "write")
    /\ UNCHANGED <<owners, alive, rx, stop, writer_died, lost_frames, net,
                   rpc, batch, sendVars, conns, history>>

\* rx.recv() yields a frame; encode_into refuses an oversized one (B24).
DrainRecv(l) ==
    /\ dpc[l] = "recv" /\ queue[l] # <<>>
    /\ queue' = [queue EXCEPT ![l] = Tail(@)]
    /\ LET f == Head(queue[l]) IN
       IF f \in Oversized
       THEN Report(l, f) /\ DrainTo(l, "drain") /\ UNCHANGED inflight
       ELSE /\ inflight' = [inflight EXCEPT ![l] = f]
            /\ DrainTo(l, "write")
            /\ UNCHANGED lost_frames
    /\ UNCHANGED <<owners, alive, rx, stop, writer_died, net, rpc, batch,
                   sendVars, conns, history>>

\* Mutant: before B24 the frame being written was dropped on stop.
WriteStoppedUnreported(l) ==
    /\ dpc[l] = "write" /\ stop[l]
    /\ stop' = [stop EXCEPT ![l] = FALSE]
    /\ inflight' = [inflight EXCEPT ![l] = None]
    /\ DrainTo(l, "drain")
    /\ UNCHANGED <<owners, alive, queue, rx, writer_died, lost_frames,
                   net, rpc, batch, sendVars, conns, history>>

\* stop fires during the write: the dequeued frame is reported (B24).
DrainWriteStopped(l) ==
    /\ dpc[l] = "write" /\ stop[l]
    /\ stop' = [stop EXCEPT ![l] = FALSE]
    /\ Report(l, inflight[l])
    /\ inflight' = [inflight EXCEPT ![l] = None]
    /\ DrainTo(l, "drain")
    /\ UNCHANGED <<owners, alive, queue, rx, writer_died, net, rpc, batch,
                   sendVars, conns, history>>

\* The write completes, into the socket's buffer at least: also when the peer
\* sends no more, has sent what the decoder refuses, or is no longer heard.
DrainWritten(l) ==
    /\ dpc[l] = "write"
    /\ written' = written \cup {inflight[l]}
    /\ inflight' = [inflight EXCEPT ![l] = None]
    /\ DrainTo(l, "recv")
    /\ UNCHANGED <<owners, linkVars, rpc, batch, sendVars, conns,
                   accepted, was_reset, discarded, unreported>>

\* Write error, or the 60 s stall timeout: only `dead` is set.
DrainWriteFailed(l) ==
    /\ dpc[l] = "write" /\ net[l] # "up"
    /\ unreported' = unreported \cup {inflight[l]}
    /\ inflight' = [inflight EXCEPT ![l] = None]
    /\ DrainTo(l, "drain")
    /\ UNCHANGED <<owners, linkVars, rpc, batch, sendVars, conns,
                   accepted, written, was_reset, discarded>>

\* One round of the try_recv loop after the main loop.
DrainReport(l) ==
    /\ dpc[l] = "drain" /\ queue[l] # <<>>
    /\ Report(l, Head(queue[l]))
    /\ queue' = [queue EXCEPT ![l] = Tail(@)]
    /\ UNCHANGED <<owners, alive, rx, stop, writer_died, net, taskVars,
                   sendVars, conns, history>>

\* Mutant: before B56 the drain task ended without telling the read loop.
DrainEndsMute(l) ==
    /\ dpc[l] = "drain" /\ queue[l] = <<>>
    /\ DrainTo(l, "shutdown")
    /\ UNCHANGED <<owners, linkVars, inflight, rpc, batch, sendVars,
                   conns, history>>

\* try_recv found nothing: writer_died (B56), then the shutdown is awaited.
DrainNotify(l) ==
    /\ dpc[l] = "drain" /\ queue[l] = <<>>
    /\ writer_died' = [writer_died EXCEPT ![l] = TRUE]
    /\ DrainTo(l, "shutdown")
    /\ UNCHANGED <<owners, alive, queue, rx, stop, lost_frames, net,
                   inflight, rpc, batch, sendVars, conns, history>>

\* drain_frames returns and drops the receiver with what is still queued; the
\* reassembler's writer task goes on to take the lost frames.
DrainReturn(l) ==
    /\ dpc[l] = "shutdown"
    /\ unreported' = unreported \cup Range(queue[l])
    /\ queue' = [queue EXCEPT ![l] = <<>>]
    /\ rx' = [rx EXCEPT ![l] = FALSE]
    /\ DrainTo(l, "done")
    /\ IF Role = "reassembler"
       THEN /\ batch' = [batch EXCEPT ![l] = lost_frames[l]]
            /\ lost_frames' = [lost_frames EXCEPT ![l] = {}]
       ELSE UNCHANGED <<batch, lost_frames>>
    /\ UNCHANGED <<owners, alive, stop, writer_died, net, inflight, rpc,
                   sendVars, conns, accepted, written, was_reset, discarded>>

------------------------------------------------------------------------------
(* The read loop, and the owner after it *)

\* EOF, a read error, a frame the decoder refuses or writer_died ends the loop:
\* alive is cleared and the drain task told to stop.
ReadLoopEnds(l) ==
    /\ rpc[l] = "read"
    /\ net[l] = "ended" \/ writer_died[l]
    /\ alive' = [alive EXCEPT ![l] = FALSE]
    /\ stop' = [stop EXCEPT ![l] = TRUE]
    /\ rpc' = [rpc EXCEPT ![l] = IF Role = "splitter" THEN "await" ELSE "done"]
    /\ UNCHANGED <<owners, queue, rx, writer_died, lost_frames, net, dpc,
                   inflight, batch, sendVars, conns, history>>

\* Mutant: the lost frames are taken without awaiting the drain task.
TakeLostEarly(l) ==
    /\ rpc[l] = "await"
    /\ batch' = [batch EXCEPT ![l] = lost_frames[l]]
    /\ lost_frames' = [lost_frames EXCEPT ![l] = {}]
    /\ rpc' = [rpc EXCEPT ![l] = "recover"]
    /\ UNCHANGED <<owners, alive, queue, rx, stop, writer_died, net, dpc,
                   inflight, sendVars, conns, history>>

\* The splitter awaits the drain task, then takes the lost frames.
TakeLost(l) ==
    /\ rpc[l] = "await" /\ dpc[l] = "done"
    /\ batch' = [batch EXCEPT ![l] = lost_frames[l]]
    /\ lost_frames' = [lost_frames EXCEPT ![l] = {}]
    /\ rpc' = [rpc EXCEPT ![l] = "recover"]
    /\ UNCHANGED <<owners, alive, queue, rx, stop, writer_died, net, dpc,
                   inflight, sendVars, conns, history>>

\* The channel takes a frame: try_send returns Ok.
HasRoom(l) == rx[l] /\ Len(queue[l]) < Cap

Takers == {l \in AliveLinks : HasRoom(l)}
Closed == {l \in AliveLinks : ~rx[l]}

\* TunnelPool::send: the first link of the ring that takes the frame gets it,
\* closed ones met before it are marked dead; FALSE when none takes it.
send(f) ==
    \/ \E l \in Takers, dead \in SUBSET Closed :
          /\ queue' = [queue EXCEPT ![l] = Append(@, f)]
          /\ alive' = [k \in Link |-> alive[k] /\ k \notin dead]
          /\ accepted' = accepted \cup {f}
          /\ UNCHANGED discarded
    \/ /\ Takers = {}
       /\ alive' = [k \in Link |-> alive[k] /\ k \notin Closed]
       /\ discarded' = discarded \cup {f}
       /\ UNCHANGED <<queue, accepted>>

\* Which task runs the recovery loop, and which frames it holds.
Recovering(l) ==
    IF Role = "splitter" THEN rpc[l] = "recover" ELSE dpc[l] = "done"

Handled(l, f) == batch' = [batch EXCEPT ![l] = @ \ {f}]

\* D1: a lost control frame is sent again, its result ignored.
ResendControl(l, f) ==
    /\ Recovering(l) /\ f \in batch[l] /\ IsControl(f)
    /\ Handled(l, f)
    /\ send(f)
    /\ UNCHANGED <<owners, rx, stop, writer_died, lost_frames, net, dpc,
                   inflight, rpc, sendVars, conns, written, was_reset,
                   unreported>>

\* D1: lost DATA resets its connection.  The splitter does so only while the
\* connection is in its map (reset_conn); the reassembler always sends RST.
ResetData(l, f) ==
    /\ Recovering(l) /\ f \in batch[l] /\ ~IsControl(f)
    /\ Role = "splitter" => f \in conns
    /\ Handled(l, f)
    /\ was_reset' = was_reset \cup {f}
    /\ conns' = IF Role = "splitter" THEN conns \ {f} ELSE conns
    /\ send(Rst(f))
    /\ UNCHANGED <<owners, rx, stop, writer_died, lost_frames, net, dpc,
                   inflight, rpc, sendVars, written, unreported>>

ForgetData(l, f) ==
    /\ Role = "splitter"
    /\ Recovering(l) /\ f \in batch[l] /\ ~IsControl(f)
    /\ f \notin conns
    /\ Handled(l, f)
    /\ discarded' = discarded \cup {f}
    /\ UNCHANGED <<owners, linkVars, dpc, inflight, rpc, sendVars, conns,
                   accepted, written, was_reset, unreported>>

\* The recovery loop is over: the splitter goes on to back off and redial.
OwnerDone(l) ==
    /\ rpc[l] = "recover" /\ batch[l] = {}
    /\ rpc' = [rpc EXCEPT ![l] = "done"]
    /\ UNCHANGED <<owners, linkVars, dpc, inflight, batch, sendVars,
                   conns, history>>

------------------------------------------------------------------------------
(* Senders *)

\* A frame sent once by send, in the code SYN, RST and the DATA of UDP.  FIN goes
\* by send_async like DATA, but is recovered like the frames here.
SendControl(f) ==
    /\ f \notin accepted \cup discarded
    /\ send(f)
    /\ UNCHANGED <<owners, rx, stop, writer_died, lost_frames, net,
                   taskVars, sendVars, conns, written, was_reset, unreported>>

SenderTo(f, pc) == spc' = [spc EXCEPT ![f] = pc]

\* send_async: the Notified future is created before the pick (B47).
CreateNotified(f) ==
    /\ spc[f] = "loop"
    /\ woken' = [woken EXCEPT ![f] = FALSE]
    /\ SenderTo(f, "pick")
    /\ UNCHANGED <<owners, linkVars, taskVars, picked, full, conns,
                   history>>

weighted_pick(f) ==
    /\ spc[f] = "pick"
    /\ \/ \E l \in AliveLinks \ full[f] :
             picked' = [picked EXCEPT ![f] = l] /\ SenderTo(f, "try")
       \/ /\ AliveLinks \subseteq full[f]
          /\ SenderTo(f, "none") /\ UNCHANGED picked
    /\ UNCHANGED <<owners, linkVars, taskVars, full, woken, conns,
                   history>>

try_send(f) ==
    LET l == picked[f] IN
    /\ spc[f] = "try"
    /\ picked' = [picked EXCEPT ![f] = None]
    /\ \/ /\ HasRoom(l)
          /\ queue' = [queue EXCEPT ![l] = Append(@, f)]
          /\ accepted' = accepted \cup {f}
          /\ SenderTo(f, "sent")
          /\ UNCHANGED <<alive, full>>
       \/ /\ ~rx[l]
          /\ alive' = [alive EXCEPT ![l] = FALSE]
          /\ SenderTo(f, "loop")
          /\ UNCHANGED <<queue, accepted, full>>
       \/ /\ rx[l] /\ ~HasRoom(l)
          /\ full' = [full EXCEPT ![f] = @ \cup {l}]
          /\ SenderTo(f, "loop")
          /\ UNCHANGED <<queue, accepted, alive>>
    /\ UNCHANGED <<owners, rx, stop, writer_died, lost_frames, net,
                   taskVars, woken, conns, written, was_reset, discarded,
                   unreported>>

\* Mutant: the skip list of saturated links is never cleared.
FullNeverCleared(f) ==
    /\ spc[f] = "none"
    /\ SenderTo(f, IF AliveLinks # {} THEN "sleep" ELSE "wait")
    /\ UNCHANGED <<owners, linkVars, taskVars, picked, full, woken, conns,
                   history>>

\* No candidate: sleep 1 ms and start over if a link lives (B65), else wait.
NoCandidate(f) ==
    /\ spc[f] = "none"
    /\ \/ /\ AliveLinks # {}
          /\ full' = [full EXCEPT ![f] = {}]
          /\ SenderTo(f, "sleep")
       \/ /\ AliveLinks = {}
          /\ SenderTo(f, "wait") /\ UNCHANGED full
    /\ UNCHANGED <<owners, linkVars, taskVars, picked, woken, conns,
                   history>>

Resume(f) ==
    /\ spc[f] = "sleep" \/ (spc[f] = "wait" /\ woken[f])
    /\ SenderTo(f, "loop")
    /\ UNCHANGED <<owners, linkVars, taskVars, picked, full, woken,
                   conns, history>>

\* The caller's DATA_SEND_TIMEOUT drops the future at one of its awaits; the
\* caller then resets the connection.
SendTimeout(f) ==
    /\ spc[f] \in {"sleep", "wait"}
    /\ SenderTo(f, "failed")
    /\ UNCHANGED <<owners, linkVars, taskVars, picked, full, woken,
                   conns, history>>

\* A connection whose DATA was sent ends and leaves the map.
ConnEnds(f) ==
    /\ f \in conns /\ spc[f] = "sent"
    /\ conns' = conns \ {f}
    /\ UNCHANGED <<owners, linkVars, taskVars, sendVars, history>>

------------------------------------------------------------------------------
(* Heartbeat and network *)

compact ==
    /\ pool # AliveLinks
    /\ pool' = AliveLinks
    /\ UNCHANGED <<session, admitted, linkVars, taskVars, sendVars, conns,
                   history>>

\* Mutant: the sweep marks the link dead and leaves its drain task running.
SweepWithoutStop(l) ==
    /\ l \in AliveLinks
    /\ alive' = [alive EXCEPT ![l] = FALSE]
    /\ UNCHANGED <<owners, queue, rx, stop, writer_died, lost_frames, net,
                   taskVars, sendVars, conns, history>>

\* The stamp last_active_ms is older than LINK_IDLE_TIMEOUT.  The drain task
\* may be anywhere: it stamps only after a write, so a frame can be queued, or
\* its write under way, on a link that has been silent for long.
sweep_idle(l) ==
    /\ l \in AliveLinks
    /\ alive' = [alive EXCEPT ![l] = FALSE]
    /\ stop' = [stop EXCEPT ![l] = TRUE]
    /\ UNCHANGED <<owners, queue, rx, writer_died, lost_frames, net,
                   taskVars, sendVars, conns, history>>

\* The peer's stream ends, breaks or becomes undecodable, or the peer is no longer
\* heard.  From then on writes may fail or stall.
NetFails(l) ==
    /\ net[l] = "up"
    /\ \E s \in {"ended", "silent"} : net' = [net EXCEPT ![l] = s]
    /\ UNCHANGED <<owners, alive, queue, rx, stop, writer_died,
                   lost_frames, taskVars, sendVars, conns, history>>

------------------------------------------------------------------------------

DrainStep(l) ==
    \/ DrainStopped(l) \/ DrainRecv(l) \/ DrainWriteStopped(l)
    \/ DrainWritten(l) \/ DrainWriteFailed(l)
    \/ DrainReport(l) \/ DrainNotify(l) \/ DrainReturn(l)

OwnerStep(l) ==
    \/ ReadLoopEnds(l) \/ TakeLost(l) \/ OwnerDone(l)
    \/ \E f \in batch[l] :
          ResendControl(l, f) \/ ResetData(l, f) \/ ForgetData(l, f)

SenderStep(f) ==
    \/ CreateNotified(f) \/ weighted_pick(f) \/ try_send(f)
    \/ NoCandidate(f) \/ Resume(f)

Next ==
    \/ \E t \in Tunnel : Accept(t) \/ Open(t)
    \/ \E l \in Link : DrainStep(l) \/ OwnerStep(l) \/ sweep_idle(l) \/ NetFails(l)
    \/ \E f \in Data : SenderStep(f) \/ SendTimeout(f) \/ ConnEnds(f)
    \/ \E f \in Ctl : SendControl(f)
    \/ compact

\* Spawned tasks are scheduled, sleeps and the write timeout elapse.  Nothing
\* is assumed of the network, of the heartbeat or of the send timeout.
Fairness ==
    /\ \A l \in Link : WF_vars(DrainStep(l)) /\ WF_vars(OwnerStep(l))
    /\ \A f \in Data : WF_vars(SenderStep(f))

Spec == Init /\ [][Next]_vars
FairSpec == Spec /\ Fairness

------------------------------------------------------------------------------
(* Properties *)

\* The shape of the state.
TypeOK ==
    /\ pool \subseteq Link
    /\ session \in [Tunnel -> 0..MaxSessions] /\ admitted \subseteq Tunnel
    /\ {alive, rx, stop, writer_died} \subseteq [Link -> BOOLEAN]
    /\ \A l \in Link : /\ Range(queue[l]) \subseteq Frame
                       /\ Len(queue[l]) <= Cap
                       /\ inflight[l] \in Frame \cup {None}
                       /\ dpc[l] = "write" <=> inflight[l] # None
    /\ {lost_frames, batch} \subseteq [Link -> SUBSET Frame]
    /\ net \in [Link -> {"none", "up", "ended", "silent"}]
    /\ dpc \in [Link -> {"none", "recv", "write", "drain", "shutdown", "done"}]
    /\ rpc \in [Link -> {"none", "read", "await", "recover", "done"}]
    /\ spc \in [Data -> {"loop", "pick", "try", "none", "sleep", "wait", "sent",
                         "failed"}]
    /\ full \in [Data -> SUBSET Link]

\* The places in which a frame is: a slot of a channel, the hand of a drain
\* task, a list of lost frames, a batch under recovery, or settled.
InQueue(f) == {"queue"} \X {p \in Link \X (1..Cap) :
                  p[2] <= Len(queue[p[1]]) /\ queue[p[1]][p[2]] = f}
InHand(f)  == {"inflight"} \X {l \in Link : inflight[l] = f}
InLost(f)  == {"lost_frames"} \X {l \in Link : f \in lost_frames[l]}
InBatch(f) == {"batch"} \X {l \in Link : f \in batch[l]}
Settled(f) == {"settled"} \X
                 {h \in {"written", "was_reset", "discarded", "unreported"} :
                    \/ h = "written" /\ f \in written
                    \/ h = "was_reset" /\ f \in was_reset
                    \/ h = "discarded" /\ f \in discarded
                    \/ h = "unreported" /\ f \in unreported}

Places(f) == InQueue(f) \cup InHand(f) \cup InLost(f) \cup InBatch(f) \cup Settled(f)

One(S) == \E p \in S : S = {p}

\* D1/B24: whatever the order of the link's death, its teardown and the
\* senders, a frame a channel has accepted is in one place: queued, being
\* written, written, reported as lost, recovered from there (its connection
\* reset, or recovery could do nothing for it), or dropped by one of the two
\* exits of drain_frames that report nothing.  Never in two, never in none.
FrameConserved == \A f \in accepted : One(Places(f))

\* D1: when both tasks of a link are finished no frame is left in its
\* lost_frames: the list was complete when the owner took it.
LostListComplete ==
    \A l \in Link :
        (rpc[l] = "done" /\ dpc[l] = "done") => lost_frames[l] = {}

\* B22/B56/B57: the two halves of a link cannot miss each other's end.  While
\* the drain task runs on a link that is marked dead it has a stop permit to
\* find, and while the read loop runs after the drain task it has a
\* writer_died permit to find.
TeardownSignalled ==
    \A l \in Link :
        /\ (dpc[l] \in {"recv", "write"} /\ ~alive[l]) => stop[l]
        /\ (dpc[l] \in {"shutdown", "done"} /\ rpc[l] = "read") => writer_died[l]

\* B47: a send_async parked on `added` without a wakeup under way has not
\* missed a link: none is alive.
NoLostWakeup ==
    \A f \in Data : (spc[f] = "wait" /\ ~woken[f]) => AliveLinks = {}

\* B22/B56/B57: a link that is marked dead or has lost its drain loop is torn
\* down completely, even if its peer never says another word.
Teardown ==
    \A l \in Link :
        (net[l] # "none" /\ (~alive[l] \/ dpc[l] \in {"drain", "shutdown", "done"}))
            ~> (dpc[l] = "done" /\ rpc[l] = "done" /\ batch[l] = {})

\* B45/B47/B65: a send_async gets its frame into a channel (or its caller gives
\* up) if from some point on a link with a working tunnel stays alive.
SenderProgress ==
    \A f \in Data :
        <>[](\E l \in AliveLinks : net[l] = "up")
            => (spc[f] = "loop" ~> spc[f] \in {"sent", "failed"})

\* D1 as documented: a frame the drain task dequeued is written or reported.
DequeuedIsReported ==
    [][\A l \in Link :
          (inflight[l] # None /\ inflight'[l] # inflight[l])
              => inflight[l] \in written' \cup lost_frames'[l]]_vars

\* D1 as documented: frames still queued when the link died are reported, so
\* the receiver is dropped with an empty queue.
QueuedIsReported ==
    [][\A l \in Link : (rx[l] /\ ~rx'[l]) => queue[l] = <<>>]_vars

\* reassembler.rs:53: the number of live links is capped at MAX_TUNNEL_LINKS.
LinksAreCapped ==
    Role = "reassembler" => Cardinality(AliveLinks) <= MAX_TUNNEL_LINKS

==============================================================================
