------------------------------ MODULE ClientSlots ------------------------------
(***************************************************************************)
(* The splitter's side of many clients (src/splitter.rs): the accept loop  *)
(* with its connection limit and the Notify that wakes it, the SOCKS5      *)
(* handshakes that count as half open, the random conn_ids with TIME_WAIT, *)
(* and every way an entry of the conns map comes and goes: handlers of TCP *)
(* and UDP clients, reset_conn in the tunnels' read loops, the heartbeat.  *)
(*                                                                         *)
(* What a connection carries is the subject of SplitterConn.  Time is left *)
(* out: a timeout, a silence or a TIME_WAIT_TTL may end at any moment, but *)
(* not between two statements that follow each other without an await.     *)
(***************************************************************************)
EXTENDS Integers, FiniteSets

CONSTANTS Clients,              \* the clients that connect
          Ids,                  \* the conn_ids, all 32-bit numbers but 0 in the code
          MAX_CONCURRENT_CONNS, \* 4096 in the code
          Nobody                \* no client, no id

ASSUME ClientsAssumption == IsFiniteSet(Clients) /\ Nobody \notin Clients
ASSUME IdsAssumption == Ids # {} /\ Nobody \notin Ids
ASSUME LimitAssumption == MAX_CONCURRENT_CONNS \in Nat \ {0}

VARIABLES
    apc,        \* control state of the accept loop
    seen,       \* conns.len() as it has read it
    slot,       \* permit of conn_slot
    shutdown,   \* the flag set by SIGINT or SIGTERM
    half_open,  \* number of handshakes in flight
    conns,      \* the client whose connection is entered under an id
    time_wait,  \* the ids in TIME_WAIT
    pc,         \* control state of each client's handler
    id,         \* the id its handler has drawn
    closed,     \* VirtConn.closed
    resetting,  \* the id reset_conn is about to remove
    stale,      \* history: ids with frames of a removed connection in flight
    collided,   \* history: two handlers held the same id between draw and insert
    overstayed, \* history: a TIME_WAIT expired before its handler was through
    exhausted   \* history: alloc_conn_id found no free id

accept  == <<apc, seen>>
handler == <<pc, id>>
history == <<stale, collided, overstayed, exhausted>>
vars == <<accept, slot, shutdown, half_open, conns, time_wait, handler, closed,
          resetting, history>>

Init ==
    /\ apc = "check" /\ seen = 0 /\ slot = FALSE /\ shutdown = FALSE
    /\ half_open = 0
    /\ conns = [i \in Ids |-> Nobody] /\ time_wait = {}
    /\ pc = [c \in Clients |-> "backlog"]
    /\ id = [c \in Clients |-> Nobody]
    /\ closed = [c \in Clients |-> FALSE]
    /\ resetting = Nobody
    /\ stale = {} /\ collided = FALSE /\ overstayed = FALSE /\ exhausted = FALSE

Entered == {i \in Ids : conns[i] # Nobody}
Counted == Cardinality(Entered) + half_open

\* When main returns the process ends with all its tasks.
Running == apc # "returned"

HandlerTo(c, l) == pc' = [pc EXCEPT ![c] = l]

------------------------------------------------------------------------------
(* The accept loop *)

AcceptTop ==
    /\ apc = "check"
    /\ \/ shutdown /\ apc' = "returned" /\ UNCHANGED seen
       \/ ~shutdown /\ apc' = "count" /\ seen' = Cardinality(Entered)
    /\ UNCHANGED <<slot, shutdown, half_open, conns, time_wait, handler, closed,
                   resetting, history>>

\* The second read of the limit check, which coincides with nothing.
AcceptCount ==
    /\ apc = "count"
    /\ apc' = IF seen + half_open >= MAX_CONCURRENT_CONNS THEN "full" ELSE "accept"
    /\ seen' = 0
    /\ UNCHANGED <<slot, shutdown, half_open, conns, time_wait, handler,
                   closed, resetting, history>>

\* conn_slot.notified() is created: notify_waiters reaches it from here on.
AcceptWaits ==
    /\ apc = "full"
    /\ apc' = "wait"
    /\ UNCHANGED <<seen, slot, shutdown, half_open, conns, time_wait, handler,
                   closed, resetting, history>>

AcceptWoken ==
    /\ apc = "wait" /\ slot
    /\ slot' = FALSE
    /\ apc' = "check"
    /\ UNCHANGED <<seen, shutdown, half_open, conns, time_wait, handler, closed,
                   resetting, history>>

Accept(c) ==
    /\ apc = "accept" /\ pc[c] = "backlog"
    /\ HandlerTo(c, "spawned")
    /\ apc' = "check"
    /\ UNCHANGED <<seen, slot, shutdown, half_open, conns, time_wait, id,
                   closed, resetting, history>>

ShutdownSignal ==
    /\ ~shutdown
    /\ shutdown' = TRUE
    /\ UNCHANGED <<accept, slot, half_open, conns, time_wait, handler, closed,
                   resetting, history>>

------------------------------------------------------------------------------
(* handle_client *)

HandshakeStart(c) ==
    /\ pc[c] = "spawned"
    /\ half_open' = half_open + 1
    /\ HandlerTo(c, "shake")
    /\ UNCHANGED <<accept, slot, shutdown, conns, time_wait, id, closed,
                   resetting, history>>

\* HANDSHAKE_TIMEOUT, or an error: the slot is free, and the loop is told.
HandshakeFails(c) ==
    /\ pc[c] = "shake"
    /\ half_open' = half_open - 1
    /\ HandlerTo(c, "notify")
    /\ UNCHANGED <<accept, slot, shutdown, conns, time_wait, id, closed,
                   resetting, history>>

\* B64: no notification here, the client is about to enter conns.
HandshakeDone(c) ==
    /\ pc[c] = "shake"
    /\ half_open' = half_open - 1
    /\ HandlerTo(c, "alloc")
    /\ UNCHANGED <<accept, slot, shutdown, conns, time_wait, id, closed, resetting,
                   history>>

\* Between reading conns and the insert of the id.
Holds(c, i) == id[c] = i /\ pc[c] \in {"drawn", "insert"}

\* One read of alloc_conn_id for a random id.
Draw(c, i) ==
    /\ id' = [id EXCEPT ![c] = i]
    /\ HandlerTo(c, "drawn")
    /\ collided' = (collided \/ \E d \in Clients \ {c} : Holds(d, i))

\* Every id is taken: the 1024 rounds run out.
NoFreeId == Ids = Entered \cup time_wait

\* Mutant: TIME_WAIT is looked up first, conns second.
AllocSwapped(c) ==
    \/ /\ pc[c] = "alloc" /\ ~NoFreeId
       /\ \E i \in Ids \ time_wait : Draw(c, i)
       /\ UNCHANGED <<accept, slot, shutdown, half_open, conns, time_wait, closed,
                      resetting, stale, overstayed, exhausted>>
    \/ /\ pc[c] = "drawn"
       /\ HandlerTo(c, IF id[c] \in Entered THEN "alloc" ELSE "insert")
       /\ UNCHANGED <<accept, slot, shutdown, half_open, conns, time_wait, id,
                      closed, resetting, history>>

\* alloc_conn_id: an id that is not in conns, then not in TIME_WAIT, or another
\* round.
Alloc(c) ==
    \/ /\ pc[c] = "alloc" /\ ~NoFreeId
       /\ \E i \in Ids \ Entered : Draw(c, i)
       /\ UNCHANGED <<accept, slot, shutdown, half_open, conns, time_wait, closed,
                      resetting, stale, overstayed, exhausted>>
    \/ /\ pc[c] = "drawn"
       /\ HandlerTo(c, IF id[c] \in time_wait THEN "alloc" ELSE "insert")
       /\ UNCHANGED <<accept, slot, shutdown, half_open, conns, time_wait, id,
                      closed, resetting, history>>

\* All rounds failed: the client is dropped, and nobody is told.
AllocFails(c) ==
    /\ pc[c] = "alloc" /\ NoFreeId
    /\ exhausted' = TRUE
    /\ HandlerTo(c, "done")
    /\ UNCHANGED <<accept, slot, shutdown, half_open, conns, time_wait, id, closed,
                   resetting, stale, collided, overstayed>>

------------------------------------------------------------------------------
(* handle_tcp_client and handle_udp_client *)

Insert(c) ==
    /\ pc[c] = "insert"
    /\ conns' = [conns EXCEPT ![id[c]] = c]
    /\ HandlerTo(c, "syn")
    /\ UNCHANGED <<accept, slot, shutdown, half_open, time_wait, id, closed,
                   resetting, history>>

SynSent(c) ==
    /\ pc[c] = "syn"
    /\ HandlerTo(c, "live")
    /\ UNCHANGED <<accept, slot, shutdown, half_open, conns, time_wait, id,
                   closed, resetting, history>>

Without(i) == [conns EXCEPT ![i] = Nobody]

\* No tunnel takes the SYN: the entry goes, a TCP handler's only if it is its own.
SynFails(c) ==
    /\ pc[c] = "syn"
    /\ \/ conns' = Without(id[c])
       \/ conns[id[c]] # c /\ UNCHANGED conns
    /\ HandlerTo(c, "notify")
    /\ UNCHANGED <<accept, slot, shutdown, half_open, time_wait, id, closed,
                   resetting, history>>

\* The connection ends: the id is in TIME_WAIT before the entry is removed.  A
\* handler whose entry was taken from it has gone on sending until now.
Tombstone(c) ==
    /\ pc[c] = "live"
    /\ time_wait' = time_wait \cup {id[c]}
    /\ stale' = IF closed[c] THEN stale \cup {id[c]} ELSE stale
    /\ HandlerTo(c, "remove")
    /\ UNCHANGED <<accept, slot, shutdown, half_open, conns, id, closed,
                   resetting, collided, overstayed, exhausted>>

\* Mutant: before B25 the entry was removed whoever had made it.
RemoveAny(c) ==
    /\ pc[c] = "remove"
    /\ conns' = Without(id[c])
    /\ stale' = stale \cup {id[c]}
    /\ HandlerTo(c, "notify")
    /\ UNCHANGED <<accept, slot, shutdown, half_open, time_wait, id, closed,
                   resetting, collided, overstayed, exhausted>>

\* B25: only our own entry.
RemoveOwn(c) ==
    /\ pc[c] = "remove"
    /\ LET own == conns[id[c]] = c
       IN  /\ conns' = IF own THEN Without(id[c]) ELSE conns
           /\ stale' = IF own THEN stale \cup {id[c]} ELSE stale
    /\ HandlerTo(c, "notify")
    /\ UNCHANGED <<accept, slot, shutdown, half_open, time_wait, id, closed,
                   resetting, collided, overstayed, exhausted>>

\* The handler returns, and its variables with it.
Return(c) ==
    /\ pc[c] = "notify"
    /\ HandlerTo(c, "done")
    /\ id' = [id EXCEPT ![c] = Nobody]
    /\ closed' = [closed EXCEPT ![c] = FALSE]
    /\ UNCHANGED <<accept, shutdown, half_open, conns, time_wait, resetting, history>>

\* Mutant: the handler ends without a word.
NotifyNobody(c) == Return(c) /\ UNCHANGED slot

\* B32: notify_one leaves a permit when the accept loop is not waiting.
NotifyOne(c) == Return(c) /\ slot' = TRUE

------------------------------------------------------------------------------
(* reset_conn and the heartbeat *)

\* A frame under id i may make a read loop reset it: an RST, an overflow, or
\* DATA lost with a tunnel.
ResetTombstone(i) ==
    /\ resetting = Nobody
    /\ i \in stale \/ \E c \in Clients : id[c] = i /\ pc[c] \in {"live", "remove"}
    /\ time_wait' = time_wait \cup {i}
    /\ resetting' = i
    /\ UNCHANGED <<accept, slot, shutdown, half_open, conns, handler, closed,
                   history>>

\* The entry under i goes, and its handler is told.
Drop(i) ==
    /\ conns' = Without(i)
    /\ closed' = [c \in Clients |-> closed[c] \/ conns[i] = c]
    /\ stale' = IF conns[i] = Nobody THEN stale ELSE stale \cup {i}

ResetRemove ==
    /\ resetting # Nobody
    /\ Drop(resetting)
    /\ resetting' = Nobody
    /\ UNCHANGED <<accept, slot, shutdown, half_open, time_wait, handler, collided,
                   overstayed, exhausted>>

\* Idle for too long.  The tombstone is set under the lock of the entry.
Sweep(c) ==
    /\ ~shutdown
    /\ pc[c] = "live" /\ conns[id[c]] = c
    /\ time_wait' = time_wait \cup {id[c]}
    /\ Drop(id[c])
    /\ UNCHANGED <<accept, slot, shutdown, half_open, handler, resetting, collided,
                   overstayed, exhausted>>

\* notify_waiters wakes the loop if it waits, and leaves no permit.
HeartbeatNotify ==
    /\ ~shutdown
    /\ apc = "wait"
    /\ apc' = "check"
    /\ UNCHANGED <<seen, slot, shutdown, half_open, conns, time_wait, handler,
                   closed, resetting, history>>

\* TIME_WAIT_TTL after the last tombstone: longer than any frame lives.  A handler
\* between its look at TIME_WAIT and its SYN, or between its tombstone and its
\* removal, does not wait, so the tombstone of its id is a new one.
TimeWaitExpires(i) ==
    /\ ~shutdown
    /\ i \in time_wait /\ resetting # i
    /\ ~ \E c \in Clients : pc[c] \in {"insert", "syn", "remove"} /\ id[c] = i
    /\ time_wait' = time_wait \ {i}
    /\ stale' = stale \ {i}
    /\ overstayed' =
        (overstayed \/ \E c \in Clients : pc[c] = "live" /\ closed[c] /\ id[c] = i)
    /\ UNCHANGED <<accept, slot, shutdown, half_open, conns, handler, closed,
                   resetting, collided, exhausted>>

------------------------------------------------------------------------------

AcceptStep == Running /\ (AcceptTop \/ AcceptCount \/ AcceptWaits \/ AcceptWoken)

\* What a handler does without its client's help.
HandlerStep(c) ==
    /\ Running
    /\ \/ HandshakeStart(c) \/ HandshakeFails(c) \/ HandshakeDone(c)
       \/ Alloc(c) \/ AllocFails(c)
       \/ Insert(c) \/ SynSent(c) \/ SynFails(c)
       \/ closed[c] /\ Tombstone(c)
       \/ RemoveOwn(c) \/ NotifyOne(c)

Next ==
    \/ AcceptStep
    \/ \E c \in Clients : HandlerStep(c)
    \/ /\ Running
       /\ \/ ResetRemove \/ ShutdownSignal \/ HeartbeatNotify
          \/ \E c \in Clients : Accept(c) \/ (~closed[c] /\ Tombstone(c)) \/ Sweep(c)
          \/ \E i \in Ids : ResetTombstone(i) \/ TimeWaitExpires(i)

\* A round of alloc_conn_id that draws a free id.
LuckyDraw(c) == Alloc(c) /\ pc[c] = "alloc" /\ id'[c] \notin time_wait

\* Tasks that can run do run, handshakes time out, and random draws do not miss
\* a free id for ever.  Clients come and go as they like, and nothing is asked
\* of the heartbeat.
Fairness ==
    /\ WF_vars(AcceptStep) /\ WF_vars(Running /\ ResetRemove)
    /\ \A c \in Clients : WF_vars(HandlerStep(c)) /\ SF_vars(Running /\ LuckyDraw(c))

Spec == Init /\ [][Next]_vars
FairSpec == Spec /\ Fairness

------------------------------------------------------------------------------
(* Properties *)

\* The shape of the state; half_open never runs below zero.
TypeOK ==
    /\ apc \in {"check", "count", "full", "wait", "accept", "returned"}
    /\ seen \in Nat /\ half_open \in Nat
    /\ {slot, shutdown, collided, overstayed, exhausted} \subseteq BOOLEAN
    /\ conns \in [Ids -> Clients \cup {Nobody}]
    /\ time_wait \subseteq Ids /\ stale \subseteq Ids
    /\ pc \in [Clients -> {"backlog", "spawned", "shake", "alloc", "drawn", "insert",
                           "syn", "live", "remove", "notify", "done"}]
    /\ id \in [Clients -> Ids \cup {Nobody}]
    /\ closed \in [Clients -> BOOLEAN]
    /\ resetting \in Ids \cup {Nobody}

\* B25: alloc_conn_id (splitter.rs:504) reads conns before TIME_WAIT, and every
\* removal sets the tombstone first, so an id is never entered while frames of
\* its previous connection are in flight.  Two handlers that hold one id at once
\* (B40: the 2^-32 window) and a handler that outlives TIME_WAIT_TTL are left out.
NoStaleId ==
    (~collided /\ ~overstayed) => Entered \cap stale = {}

\* B25: a live connection that nobody has reset or swept can be reached by its
\* frames: no other handler's late exit, not even one that comes after its id
\* was given away again, takes its entry out of conns.
LiveIsEntered ==
    \A c \in Clients :
        (~collided /\ pc[c] = "live" /\ ~closed[c]) => conns[id[c]] = c

\* B32/B64: the accept loop does not sleep on a free slot: every path that frees
\* one leaves a permit, without help from the heartbeat.  alloc_conn_id's last
\* resort and two handlers on one id are left out.
SlotWakeup ==
    (apc = "wait" /\ Counted < MAX_CONCURRENT_CONNS)
        ~> \/ apc # "wait" \/ Counted >= MAX_CONCURRENT_CONNS
           \/ exhausted \/ collided

\* splitter.rs:445, BUG-6: connections and half-open handshakes together stay
\* within the limit (violated: an accepted client is not counted until its task
\* runs, nor between its handshake and its insert).
TableWithinLimit == Counted <= MAX_CONCURRENT_CONNS

\* lib.rs:15: SIGINT and SIGTERM shut the splitter down (violated: the flag is
\* read at the top of the accept loop only, and neither accept nor the wait for
\* a slot is interrupted).
ShutdownCompletes == shutdown ~> apc = "returned"

==============================================================================
