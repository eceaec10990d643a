------------------------------ MODULE SynHandshake ------------------------------
(***************************************************************************)
(* The birth of one TCP connection or UDP association at the reassembler   *)
(* (handle_frame in src/reassembler.rs): SYN, DATA, FIN and RST frames of  *)
(* one cid reach it through the read loops of different tunnels, and the   *)
(* SYN handler runs in a task of its own while it connects to the target,  *)
(* or binds the sockets of the association.  Their handlers share four     *)
(* concurrent maps, conns, pending, closed and handshaking, and the global *)
(* counter pending_bytes.  One step is one access to a map.                *)
(*                                                                         *)
(* What happens to an established connection is the subject of HalfClose;  *)
(* here its inbox is the set of frames that reached it.  Every DATA payload*)
(* is one byte long.  Other cids appear as the evictions they cause and as *)
(* the MAX_PENDING_CIDS limit they reach.                                  *)
(***************************************************************************)
EXTENDS Integers, FiniteSets

CONSTANTS
    Syns,     \* handlers of SYN frames: the SYN and its duplicates
    Datas,    \* handlers of DATA frames, and the frames themselves
    Fins,     \* handlers of FIN frames, and the frames themselves
    Rsts,     \* handlers of RST frames
    Sweepers, \* the heartbeat, or nothing: sweep_stale_pending
    Evictors, \* handlers of other cids that reserve over budget
    MAX_PENDING_BYTES,            \* 64 MB in the code
    MAX_PENDING_FRAMES_PER_CID,   \* 256 in the code
    USIZE,    \* range of the counter pending_bytes, 2^64 in the code
    None      \* no entry, no handler

ASSUME HandlersAssumption ==
    /\ Syns \cap (Datas \cup Fins \cup Rsts) = {}
    /\ Datas \cap (Fins \cup Rsts) = {} /\ Fins \cap Rsts = {}
    /\ (Sweepers \cup Evictors) \cap (Syns \cup Datas \cup Fins \cup Rsts) = {}
    /\ Sweepers \cap Evictors = {}
    /\ None \notin Syns \cup Datas \cup Fins \cup Rsts \cup Sweepers \cup Evictors
ASSUME LimitsAssumption ==
    /\ MAX_PENDING_BYTES \in Nat /\ MAX_PENDING_FRAMES_PER_CID \in Nat \ {0}
    /\ USIZE \in Nat /\ USIZE > MAX_PENDING_BYTES + 1

VARIABLES
    proto,          \* the protocol the SYN asks for
    pc,             \* control state of each handler
    in_conns,       \* the cid is in conns
    inbox,          \* frames that reached the established connection
    pending,        \* the cid's PendingEntry, or None
    closed,         \* the cid has a tombstone
    handshaking,    \* the SYN handler registered for the cid, or None
    pending_bytes,  \* the global counter
    cancelled,      \* permits of the SYN handlers' cancel Notify
    replay,         \* frames a SYN handler took from the pending entry
    victim,         \* the entry an evicting process has chosen
    rst_sent,       \* an RST went to the splitter
    overwritten,    \* history: an insert replaced an entry with frames
    vanished,       \* history: FINs dropped because their entry had vanished
    unheard,        \* history: an RST left no trace a SYN handler looks at again
    miscounted      \* history: an eviction refunds another size than it removed

maps == <<in_conns, inbox, pending, closed, handshaking, pending_bytes>>
local == <<cancelled, replay, victim>>
history == <<rst_sent, overwritten, vanished, unheard, miscounted>>
vars == <<proto, pc, maps, local, history>>

Evicting == Sweepers \cup Evictors \cup Datas
Handler == Syns \cup Datas \cup Fins \cup Rsts \cup Sweepers \cup Evictors
Frame == Datas \cup Fins

PendingEntry == [frames : SUBSET Frame, bytes : Nat, cancelled : BOOLEAN,
                 cancel : Syns \cup {None}]
ASSUME NoneAssumption == None \notin PendingEntry

Entry(fs, n, c, k) == [frames |-> fs, bytes |-> n, cancelled |-> c, cancel |-> k]

Init ==
    /\ proto \in {"tcp", "udp"}
    /\ pc = [h \in Handler |-> "coming"]
    /\ in_conns = FALSE /\ inbox = {}
    /\ pending = None
    /\ closed = FALSE
    /\ handshaking = None
    /\ pending_bytes = 0
    /\ cancelled = [h \in Syns |-> FALSE]
    /\ replay = {}
    /\ victim = [e \in Evicting |-> None]
    /\ rst_sent = FALSE
    /\ overwritten = FALSE /\ miscounted = FALSE
    /\ vanished = {} /\ unheard = FALSE

GoTo(h, l) == pc' = [pc EXCEPT ![h] = l] /\ UNCHANGED proto

\* fetch_sub wraps around.
Refund(n) == pending_bytes' = (pending_bytes - n) % USIZE
BytesOf(entry) == IF entry = None THEN 0 ELSE entry.bytes

remove_pending == pending' = None /\ Refund(BytesOf(pending))

\* notify_one on the Notify the entry holds, if it holds one.
NotifyCancel(entry) ==
    cancelled' = [h \in Syns |->
        cancelled[h] \/ (entry # None /\ entry.cancel = h)]

------------------------------------------------------------------------------
(* SYN *)

SynCheckConns(h) ==
    /\ pc[h] = "coming"
    /\ GoTo(h, IF in_conns THEN "done" ELSE "claim")
    /\ UNCHANGED <<maps, local, history>>

\* Mutant: the answer of handshaking.insert is ignored.
SynClaimAlways(h) ==
    /\ pc[h] = "claim"
    /\ handshaking' = h
    /\ GoTo(h, "reserve")
    /\ UNCHANGED <<in_conns, inbox, pending, closed, pending_bytes, local, history>>

\* One SYN handshake per cid at a time.
SynClaim(h) ==
    /\ pc[h] = "claim"
    /\ \/ /\ handshaking = None
          /\ handshaking' = h
          /\ GoTo(h, "reserve")
       \/ /\ handshaking # None
          /\ GoTo(h, "done")
          /\ UNCHANGED handshaking
    /\ UNCHANGED <<in_conns, inbox, pending, closed, pending_bytes, local, history>>

\* The entry API keeps frames that came before the SYN.
SynReserve(h) ==
    /\ pc[h] = "reserve"
    /\ pending' = IF pending = None THEN Entry({}, 0, FALSE, h)
                  ELSE [pending EXCEPT !.cancel = h]
    /\ GoTo(h, "check")
    /\ UNCHANGED <<in_conns, inbox, closed, handshaking, pending_bytes,
                   local, history>>

SynCheckClosed(h) ==
    /\ pc[h] = "check"
    /\ GoTo(h, IF closed THEN "drop" ELSE "decode")
    /\ UNCHANGED <<maps, local, history>>

\* The payload names a TCP target or a UDP association, or the SYN is refused.
SynDecode(h) ==
    /\ pc[h] = "decode"
    /\ \/ GoTo(h, IF proto = "tcp" THEN "connect" ELSE "bind")
       \/ GoTo(h, "refuse")
    /\ UNCHANGED <<maps, local, history>>

\* The connect races its 10 s timeout and the cancel Notify.
SynConnect(h) ==
    /\ pc[h] = "connect"
    /\ \/ GoTo(h, "recheck") /\ UNCHANGED cancelled
       \/ GoTo(h, "refuse") /\ UNCHANGED cancelled
       \/ /\ cancelled[h]
          /\ cancelled' = [cancelled EXCEPT ![h] = FALSE]
          /\ GoTo(h, "abort")
    /\ UNCHANGED <<maps, replay, victim, history>>

\* B38: the sockets of a UDP association, or a refusal; no second look at closed.
SynBind(h) ==
    /\ pc[h] = "bind"
    /\ GoTo(h, "insert") \/ GoTo(h, "refuse")
    /\ UNCHANGED <<maps, local, history>>

\* Mutant: before B36 the tombstone was not looked at again.
SynRecheckNothing(h) ==
    /\ pc[h] = "recheck"
    /\ GoTo(h, "insert")
    /\ UNCHANGED <<maps, local, history>>

SynRecheckClosed(h) ==
    /\ pc[h] = "recheck"
    /\ GoTo(h, IF closed THEN "drop" ELSE "insert")
    /\ UNCHANGED <<maps, local, history>>

SynInsertConn(h) ==
    /\ pc[h] = "insert"
    /\ in_conns' = TRUE
    /\ inbox' = {}
    /\ GoTo(h, "take")
    /\ UNCHANGED <<pending, closed, handshaking, pending_bytes, local, history>>

\* remove_pending: replay its frames, or tear down if an RST cancelled it.
SynTakePending(h) ==
    /\ pc[h] = "take"
    /\ remove_pending
    /\ replay' = IF pending = None THEN {} ELSE pending.frames
    /\ GoTo(h, IF pending # None /\ pending.cancelled THEN "teardown"
               ELSE "replay")
    /\ UNCHANGED <<in_conns, inbox, closed, handshaking, cancelled, victim,
                   history>>

\* What the connection makes use of: a UDP association has no half-close.
Accepted == IF proto = "tcp" THEN Frame ELSE Datas

\* The frames go to the connection, which may have been removed meanwhile; an
\* overflow or a failed egress write resets a TCP connection (B62).
SynReplay(h) ==
    /\ pc[h] = "replay"
    /\ \/ /\ inbox' = IF in_conns THEN inbox \cup (replay \cap Accepted) ELSE inbox
          /\ GoTo(h, "release")
          /\ UNCHANGED in_conns
       \/ /\ proto = "tcp" /\ replay \cap Datas # {}
          /\ in_conns' = FALSE
          /\ GoTo(h, "reset")
          /\ UNCHANGED inbox
    /\ replay' = {}
    /\ UNCHANGED <<pending, closed, handshaking, pending_bytes, cancelled, victim,
                   history>>

\* BUG-4: an RST raced the connect.
SynTeardown(h) ==
    /\ pc[h] = "teardown"
    /\ in_conns' = FALSE
    /\ replay' = {}
    /\ GoTo(h, "torn")
    /\ UNCHANGED <<inbox, pending, closed, handshaking, pending_bytes, cancelled,
                   victim, history>>

\* The failures before the connection exists drop the pending entry first.
SynDropPending(h) ==
    /\ pc[h] \in {"drop", "refuse", "abort"}
    /\ remove_pending
    /\ GoTo(h, CASE pc[h] = "drop"   -> "release"
                 [] pc[h] = "refuse" -> "refused"
                 [] pc[h] = "abort"  -> "aborted")
    /\ UNCHANGED <<in_conns, inbox, closed, handshaking, local, history>>

\* Mutant: the handshaking flag leaks (B29).
SynReleaseLeaks(h) ==
    /\ pc[h] \in {"release", "refused", "aborted"}
    /\ GoTo(h, CASE pc[h] = "release" -> "done"
                 [] pc[h] = "refused" -> "refused_tombstone"
                 [] pc[h] = "aborted" -> "aborted_tombstone")
    /\ UNCHANGED <<maps, local, history>>

\* handshaking.remove.  Those failures tombstone the cid after it.
SynRelease(h) ==
    /\ pc[h] \in {"release", "refused", "aborted"}
    /\ handshaking' = None
    /\ GoTo(h, CASE pc[h] = "release" -> "done"
                 [] pc[h] = "refused" -> "refused_tombstone"
                 [] pc[h] = "aborted" -> "aborted_tombstone")
    /\ UNCHANGED <<in_conns, inbox, pending, closed, pending_bytes, local, history>>

\* closed.insert and, unless the splitter asked for it, RST.
SynTombstone(h) ==
    /\ pc[h] \in {"reset", "torn", "refused_tombstone", "aborted_tombstone"}
    /\ closed' = TRUE
    /\ rst_sent' = (rst_sent \/ pc[h] \in {"reset", "refused_tombstone"})
    /\ GoTo(h, IF pc[h] \in {"reset", "torn"} THEN "release" ELSE "done")
    /\ UNCHANGED <<in_conns, inbox, pending, handshaking, pending_bytes, local,
                   overwritten, vanished, unheard, miscounted>>

------------------------------------------------------------------------------
(* DATA and FIN *)

\* Delivered when the connection exists, else on to the pending path.
FrameCheckConns(f) ==
    /\ pc[f] = "coming"
    /\ \/ in_conns /\ inbox' = inbox \cup ({f} \cap Accepted) /\ GoTo(f, "done")
       \/ ~in_conns /\ GoTo(f, "check") /\ UNCHANGED inbox
    /\ UNCHANGED <<in_conns, pending, closed, handshaking, pending_bytes,
                   local, history>>

\* A late frame for a closed cid: RST for DATA, nothing for FIN.
FrameCheckClosed(f) ==
    /\ pc[f] = "check"
    /\ GoTo(f, IF closed THEN "done" ELSE "lookup")
    /\ rst_sent' = (rst_sent \/ (closed /\ f \in Datas))
    /\ UNCHANGED <<maps, local, overwritten, vanished, unheard, miscounted>>

\* pending.contains_key; without an entry MAX_PENDING_CIDS may be reached.
FrameLookup(f) ==
    /\ pc[f] = "lookup"
    /\ \/ pending # None
          /\ GoTo(f, IF f \in Datas THEN "reserve_push" ELSE "push")
       \/ pending = None
          /\ \/ GoTo(f, IF f \in Datas THEN "reserve_new" ELSE "new")
             \/ GoTo(f, "fail")
    /\ UNCHANGED <<maps, local, history>>

Fits == (pending_bytes + 1) % USIZE <= MAX_PENDING_BYTES

\* Mutant: the budget is checked and not charged.
ReserveUncharged(f, next) ==
    /\ GoTo(f, IF Fits THEN next ELSE "fail")
    /\ UNCHANGED pending_bytes

\* Mutant: off by one on the budget.
ReserveOneMore(f, next) ==
    \/ /\ pending_bytes <= MAX_PENDING_BYTES
       /\ pending_bytes' = pending_bytes + 1
       /\ GoTo(f, next)
    \/ /\ pending_bytes > MAX_PENDING_BYTES
       /\ GoTo(f, "fail")
       /\ UNCHANGED pending_bytes

\* The CAS of try_reserve_pending (B32).  Over budget, the oldest entry other
\* than the caller's is evicted (EvictRead); without one the answer is no.
try_reserve_pending(f, next) ==
    \/ /\ Fits
       /\ pending_bytes' = (pending_bytes + 1) % USIZE
       /\ GoTo(f, next)
    \/ /\ ~Fits
       /\ next = "push" \/ pending = None
       /\ GoTo(f, "fail")
       /\ UNCHANGED pending_bytes

DataReserve(f) ==
    /\ \/ pc[f] = "reserve_push" /\ try_reserve_pending(f, "push")
       \/ pc[f] = "reserve_new" /\ try_reserve_pending(f, "new")
    /\ UNCHANGED <<in_conns, inbox, pending, closed, handshaking, local, history>>

Size(f) == IF f \in Datas THEN 1 ELSE 0

\* pending.get_mut finds the entry: the frame is queued if there is room.
FramePush(f) ==
    /\ pc[f] = "push" /\ pending # None
    /\ \/ /\ Cardinality(pending.frames) < MAX_PENDING_FRAMES_PER_CID
          /\ pending' = [pending EXCEPT !.frames = @ \cup {f},
                                        !.bytes = @ + Size(f)]
          /\ GoTo(f, "done")
          /\ UNCHANGED pending_bytes
       \/ /\ Cardinality(pending.frames) >= MAX_PENDING_FRAMES_PER_CID
          /\ Refund(Size(f))
          /\ GoTo(f, "fail")
          /\ UNCHANGED pending
    /\ UNCHANGED <<in_conns, inbox, closed, handshaking, local, history>>

\* Mutant: before B27 the frame of a vanished entry was dropped.
VanishedDropped(f) ==
    /\ pc[f] = "push" /\ pending = None
    /\ Refund(Size(f))
    /\ GoTo(f, "done")
    /\ UNCHANGED <<in_conns, inbox, pending, closed, handshaking, local, history>>

\* The entry vanished since contains_key: DATA is refunded and, if the
\* connection exists by now, handled afresh (B27); FIN is dropped.
FrameVanished(f) ==
    /\ pc[f] = "push" /\ pending = None
    /\ Refund(Size(f))
    /\ GoTo(f, IF f \in Datas THEN "again" ELSE "done")
    /\ vanished' = vanished \cup ({f} \cap Fins)
    /\ UNCHANGED <<in_conns, inbox, pending, closed, handshaking, local, rst_sent,
                   overwritten, unheard, miscounted>>

DataAgain(f) ==
    /\ pc[f] = "again"
    /\ GoTo(f, IF in_conns THEN "coming" ELSE "done")
    /\ UNCHANGED <<maps, local, history>>

\* An RST or a failure has marked the entry.
Marked == pending # None /\ pending.cancelled

\* pending.insert of a fresh entry, whatever is there by now.
FrameInsert(f) ==
    /\ pc[f] = "new"
    /\ pending' = Entry({f}, Size(f), FALSE, None)
    /\ overwritten' = (overwritten \/ (pending # None /\ pending.frames # {}))
    /\ unheard' = (unheard \/ Marked)
    /\ GoTo(f, "done")
    /\ UNCHANGED <<in_conns, inbox, closed, handshaking, pending_bytes, local,
                   rst_sent, vanished, miscounted>>

\* fail_pending_conn: cancel the entry, then tombstone and RST.
FailCancel(f) ==
    /\ pc[f] = "fail"
    /\ pending' = IF pending = None THEN None
                  ELSE [pending EXCEPT !.cancelled = TRUE]
    /\ NotifyCancel(pending)
    /\ GoTo(f, "tombstone")
    /\ UNCHANGED <<in_conns, inbox, closed, handshaking, pending_bytes, replay,
                   victim, history>>

FailTombstone(f) ==
    /\ pc[f] = "tombstone"
    /\ closed' = TRUE /\ rst_sent' = TRUE
    /\ GoTo(f, "done")
    /\ UNCHANGED <<in_conns, inbox, pending, handshaking, pending_bytes, local,
                   overwritten, vanished, unheard, miscounted>>

------------------------------------------------------------------------------
(* RST *)

RstRemoveConn(r) ==
    /\ pc[r] = "coming"
    /\ in_conns' = FALSE
    /\ GoTo(r, IF in_conns THEN "tombstone" ELSE "cancel")
    /\ UNCHANGED <<inbox, pending, closed, handshaking, pending_bytes, local,
                   history>>

RstCancelPending(r) ==
    /\ pc[r] = "cancel"
    /\ pending' = IF pending = None THEN None
                  ELSE [pending EXCEPT !.cancelled = TRUE]
    /\ NotifyCancel(pending)
    /\ GoTo(r, "tombstone")
    /\ UNCHANGED <<in_conns, inbox, closed, handshaking, pending_bytes, replay,
                   victim, history>>

\* A SYN handler that will not look at closed again has still to take the entry,
\* or has built the connection.
BeforeTake ==
    \E h \in Syns : pc[h] \in {"insert", "take"}
                               \cup (IF proto = "udp" THEN {"decode", "bind"} ELSE {})
Built == in_conns /\ \A h \in Syns : pc[h] \notin {"take", "teardown"}

\* B36: in any case.
RstTombstone(r) ==
    /\ pc[r] = "tombstone"
    /\ closed' = TRUE
    /\ unheard' = (unheard \/ Built \/ (BeforeTake /\ ~Marked))
    /\ GoTo(r, "done")
    /\ UNCHANGED <<in_conns, inbox, pending, handshaking, pending_bytes, local,
                   rst_sent, overwritten, vanished, miscounted>>

------------------------------------------------------------------------------
(* Eviction: by the heartbeat's sweep_stale_pending, or in the loop of
   try_reserve_pending, which other cids run and a DATA handler of this cid too
   if it found no entry of its own when it looked *)

EvictTo(e, l, v) == GoTo(e, l) /\ victim' = [victim EXCEPT ![e] = v]

\* pending.retain removes and reads the entry under one guard.
SweepRemove(e) ==
    /\ e \in Sweepers /\ pc[e] = "coming"
    /\ pending # None
    /\ pending' = None
    /\ EvictTo(e, "refund", pending)
    /\ unheard' = (unheard \/ Marked)
    /\ UNCHANGED <<in_conns, inbox, closed, handshaking, pending_bytes, cancelled,
                   replay, rst_sent, overwritten, vanished, miscounted>>

\* try_reserve_pending reads the oldest entry's size and Notify, and lets the
\* guard go.
EvictRead(e) ==
    /\ \/ e \in Evictors /\ pc[e] = "coming"
       \/ e \in Datas /\ pc[e] = "reserve_new" /\ ~Fits
    /\ pending # None
    /\ EvictTo(e, "evict", pending)
    /\ UNCHANGED <<maps, cancelled, replay, history>>

Resumed(e) == IF e \in Datas THEN "reserve_new" ELSE "coming"

\* pending.remove takes whatever entry is there now.
EvictRemove(e) ==
    /\ pc[e] = "evict"
    /\ \/ /\ pending # None
          /\ EvictTo(e, "refund", victim[e])
       \/ /\ pending = None
          /\ EvictTo(e, Resumed(e), None)
    /\ pending' = None
    /\ miscounted' = (miscounted \/ (pending # None
                                     /\ pending.bytes # victim[e].bytes))
    /\ unheard' = (unheard \/ Marked)
    /\ UNCHANGED <<in_conns, inbox, closed, handshaking, pending_bytes, cancelled,
                   replay, rst_sent, overwritten, vanished>>

\* The refund is the size read before, and so is the Notify.
EvictRefund(e) ==
    /\ pc[e] = "refund"
    /\ Refund(victim[e].bytes)
    /\ NotifyCancel(victim[e])
    /\ EvictTo(e, "evicted", None)
    /\ UNCHANGED <<in_conns, inbox, pending, closed, handshaking, replay, history>>

\* B33/B34: the evicted cid is reset.
EvictTombstone(e) ==
    /\ pc[e] = "evicted"
    /\ closed' = TRUE /\ rst_sent' = TRUE
    /\ GoTo(e, Resumed(e))
    /\ UNCHANGED <<in_conns, inbox, pending, handshaking, pending_bytes, local,
                   overwritten, vanished, unheard, miscounted>>

------------------------------------------------------------------------------

SynStep(h) ==
    \/ SynClaim(h) \/ SynReserve(h) \/ SynCheckClosed(h) \/ SynDecode(h)
    \/ SynConnect(h) \/ SynBind(h) \/ SynRecheckClosed(h) \/ SynInsertConn(h)
    \/ SynTakePending(h) \/ SynReplay(h) \/ SynTeardown(h)
    \/ SynDropPending(h) \/ SynRelease(h) \/ SynTombstone(h)

FrameStep(f) ==
    \/ FrameCheckClosed(f) \/ FrameLookup(f) \/ DataReserve(f) \/ FramePush(f)
    \/ FrameVanished(f) \/ DataAgain(f) \/ FrameInsert(f)
    \/ FailCancel(f) \/ FailTombstone(f)

RstStep(r) == RstCancelPending(r) \/ RstTombstone(r)

EvictStep(e) == EvictRemove(e) \/ EvictRefund(e) \/ EvictTombstone(e)

Next ==
    \/ \E h \in Syns : SynCheckConns(h) \/ SynStep(h)
    \/ \E f \in Frame : FrameCheckConns(f) \/ FrameStep(f)
    \/ \E r \in Rsts : RstRemoveConn(r) \/ RstStep(r)
    \/ \E e \in Evicting : SweepRemove(e) \/ EvictRead(e) \/ EvictStep(e)

\* A handler that has started goes on: the connect is bounded by its timeout.
\* Frames arrive, or do not, when they like.
Fairness ==
    /\ \A h \in Syns : WF_vars(SynStep(h))
    /\ \A f \in Frame : WF_vars(FrameStep(f))
    /\ \A r \in Rsts : WF_vars(RstStep(r))
    /\ \A e \in Evicting : WF_vars(EvictStep(e))

Spec == Init /\ [][Next]_vars
FairSpec == Spec /\ Fairness

------------------------------------------------------------------------------
(* Properties *)

\* The shape of the state.
TypeOK ==
    /\ {in_conns, closed, rst_sent, overwritten, unheard, miscounted}
          \subseteq BOOLEAN
    /\ inbox \subseteq Accepted /\ replay \subseteq Frame /\ vanished \subseteq Fins
    /\ pending # None =>
          /\ pending \in PendingEntry
          /\ Cardinality(pending.frames) <= MAX_PENDING_FRAMES_PER_CID
    /\ handshaking \in Syns \cup {None}
    /\ cancelled \in [Syns -> BOOLEAN]
    /\ pending_bytes \in 0..(USIZE - 1)

\* No handler is between two of its steps.
Quiet == \A h \in Handler : pc[h] \in {"coming", "done"}

\* The handler is building the connection: past its claim, not yet released.
Handshake(h) ==
    pc[h] \notin {"coming", "claim", "done", "refused_tombstone",
                  "aborted_tombstone"}

\* One SYN handshake per cid at a time: the handler that builds the connection
\* is alone, and it is the registered one.
OneHandshake ==
    \A h \in Syns : Handshake(h) => handshaking = h

\* DATA handlers that have reserved a byte and not queued their frame yet.
Reserving == {f \in Datas : pc[f] \in {"push", "new"}}

\* The bytes that evictions have removed and not refunded yet.
Owed == UNION {{e} \X (1..victim[e].bytes) : e \in {x \in Evicting : pc[x] = "refund"}}

\* B32: the CAS keeps the budget, however many handlers reserve at once, as
\* long as no eviction has refunded a size it read too early.
BudgetRespected == ~miscounted => pending_bytes <= MAX_PENDING_BYTES

\* BUG-7: under the same condition the counter covers what is buffered,
\* reserved and about to be refunded, so no refund takes it below zero.
BudgetCovers ==
    ~miscounted =>
        pending_bytes >= BytesOf(pending) + Cardinality(Reserving) + Cardinality(Owed)

\* B27/BUG-1: a frame of an open connection is in its inbox, unless it waits in
\* a pending entry or an insert has thrown it away: before, during or after the
\* handshake no order of lookups drops it, but for a FIN whose entry vanished
\* between contains_key and get_mut (reassembler.rs:1205).  It is stated for one
\* SYN: a second connection replaces the first with its inbox.
FramesArrive ==
    (Quiet /\ in_conns /\ ~closed /\ ~overwritten /\ pending = None)
        => {f \in Accepted : pc[f] = "done"} \ vanished \subseteq inbox

\* BUG-4/B36: once an RST is handled and the handlers are through, no connection
\* is left, in whatever order the RST met the connect or bind, the insert and
\* the drain of the SYN - but for the window in which it finds no connection,
\* marks no entry that is still to be taken, and sets its tombstone after the last
\* look at it (reassembler.rs:1232; UDP, which looks once, at 692), and for a mark
\* lost with an overwritten or evicted entry.
ResetTakesEffect ==
    (Quiet /\ ~unheard /\ \E r \in Rsts : pc[r] = "done") => ~in_conns

\* B23/B29: a handshake comes to its end and gives the cid free.
HandshakeEnds == handshaking # None ~> handshaking = None

\* reassembler.rs:1120: a pending slot is created so that DATA is not lost:
\* while the cid has not been reset, a DATA frame that was handled is queued,
\* being replayed, or delivered.
DataIsKept ==
    ~closed => {f \in Datas : pc[f] = "done"}
                  \subseteq inbox \cup replay
                            \cup (IF pending = None THEN {} ELSE pending.frames)

\* BUG-7: the byte budget of the pending entries is refunded: with nothing
\* buffered and no handler running the counter is back at zero.
BudgetIsRefunded == (Quiet /\ pending = None) => pending_bytes = 0

\* BUG-7: an eviction gives back what the evicted entry held: the refund never
\* raises the counter, which would have every later reservation refused.
RefundLowers ==
    [][\A e \in Evicting :
          (pc[e] = "refund" /\ pc'[e] = "evicted")
              => pending_bytes' <= pending_bytes]_vars

\* reassembler.rs:1121: the SYN handler drains the pending slot, so no frame
\* waits there once the connection is established.
NothingStranded == (Quiet /\ in_conns) => pending = None

\* BUG-1: a FIN that comes while the SYN is handled is queued for the SYN
\* handler, so the established connection gets it.
FinArrives ==
    (Quiet /\ proto = "tcp" /\ in_conns /\ ~closed /\ pending = None /\ ~overwritten)
        => {f \in Fins : pc[f] = "done"} \subseteq inbox

\* reassembler.rs:629: a duplicate SYN does not build a second egress
\* connection over the first one.
NoSecondConnection ==
    [][\A h \in Syns :
          (pc[h] = "insert" /\ pc'[h] = "take") => ~in_conns]_vars

\* BUG-4/B36: no egress connection is left for a cid the splitter has reset.
NoZombie ==
    (Quiet /\ \E r \in Rsts : pc[r] = "done") => ~in_conns

==============================================================================
