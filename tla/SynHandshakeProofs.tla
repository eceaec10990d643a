-------------------------- MODULE SynHandshakeProofs --------------------------
(***************************************************************************)
(* Proofs about the birth of a connection at the reassembler, for every    *)
(* number of SYN, DATA, FIN and RST handlers, of sweeps and evictions, and *)
(* for every limit.                                                        *)
(***************************************************************************)
EXTENDS SynHandshake, FiniteSetTheorems, TLAPS

\* The control states of the handlers of all kinds.
Label == {"coming", "claim", "reserve", "check", "decode", "connect", "bind",
          "recheck", "insert", "take", "replay", "teardown", "drop", "refuse",
          "abort", "release", "refused", "aborted", "reset", "torn",
          "refused_tombstone", "aborted_tombstone", "lookup", "reserve_push",
          "reserve_new", "push", "new", "again", "fail", "tombstone", "cancel",
          "evict", "refund", "evicted", "done"}

\* The part of the shape of the state that the arguments below use, and which
\* of the two ways through the handshake a SYN handler is on.
Types ==
    /\ proto \in {"tcp", "udp"}
    /\ pc \in [Handler -> Label]
    /\ pending \in PendingEntry \cup {None}
    /\ in_conns \in BOOLEAN /\ closed \in BOOLEAN /\ unheard \in BOOLEAN
    /\ \A h \in Syns : /\ pc[h] = "bind" => proto = "udp"
                       /\ pc[h] \in {"connect", "recheck"} => proto = "tcp"

IInv == Types /\ OneHandshake

\* A SYN handler is none of the others.
LEMMA Disjoint ==
    /\ Syns \subseteq Handler /\ Frame \subseteq Handler /\ Rsts \subseteq Handler
    /\ Evicting \subseteq Handler
    /\ Syns \cap Frame = {} /\ Syns \cap Rsts = {} /\ Syns \cap Evicting = {}
    /\ Rsts \cap Frame = {} /\ Rsts \cap Evicting = {}
    /\ None \notin Syns
BY HandlersAssumption DEF Handler, Frame, Evicting

LEMMA InitIInv == Init => IInv
<1> SUFFICES ASSUME Init PROVE IInv
    OBVIOUS
<1>1. pc \in [Handler -> Label] /\ \A h \in Syns : pc[h] = "coming"
    BY Disjoint DEF Init, Label
<1> QED
    BY <1>1 DEF Init, IInv, Types, OneHandshake, Handshake

\* Where a handler goes, and that the others stay.
LEMMA Goes ==
    ASSUME Types, NEW g \in Handler, NEW l \in Label, GoTo(g, l)
    PROVE  /\ pc' \in [Handler -> Label] /\ pc'[g] = l /\ proto' = proto
           /\ \A h \in Handler \ {g} : pc'[h] = pc[h]
BY DEF GoTo, Types

\* A handler past its claim and not yet released.
Building == Label \ {"coming", "claim", "done", "refused_tombstone",
                     "aborted_tombstone"}

\* A SYN handler moves: it has the claim if it goes on with the handshake, and
\* takes nobody else's.
LEMMA SynMoves ==
    ASSUME IInv, NEW h \in Syns, NEW l \in Label, GoTo(h, l),
           l \in Building => handshaking' = h,
           \A g \in Syns \ {h} : handshaking = g => handshaking' = g,
           l = "bind" => proto = "udp",
           l \in {"connect", "recheck"} => proto = "tcp",
           pending' \in PendingEntry \cup {None},
           in_conns' \in BOOLEAN, closed' \in BOOLEAN, unheard' \in BOOLEAN
    PROVE  IInv'
<1>1. /\ pc' \in [Handler -> Label] /\ pc'[h] = l /\ proto' = proto
      /\ \A g \in Syns \ {h} : pc'[g] = pc[g]
    BY Goes, Disjoint DEF IInv
<1>2. Types'
    BY <1>1, Disjoint DEF IInv, Types
<1>3. ASSUME NEW g \in Syns, Handshake(g)' PROVE handshaking' = g
  <2>1. CASE g = h
      BY <1>1, <1>3, <2>1 DEF Handshake, Building
  <2>2. CASE g # h
      BY <1>1, <1>3, <2>2 DEF Handshake, IInv, OneHandshake
  <2> QED
      BY <2>1, <2>2
<1> QED
    BY <1>2, <1>3 DEF IInv, OneHandshake

\* A step of a frame, an RST or an evicting handler leaves the SYN handlers
\* where they are.
LEMMA OthersMove ==
    ASSUME IInv, NEW g \in Handler \ Syns, NEW l \in Label,
           GoTo(g, l), UNCHANGED handshaking,
           pending' \in PendingEntry \cup {None},
           in_conns' \in BOOLEAN, closed' \in BOOLEAN, unheard' \in BOOLEAN
    PROVE  IInv' /\ \A h \in Syns : pc'[h] = pc[h]
<1>1. /\ pc' \in [Handler -> Label] /\ proto' = proto
      /\ \A h \in Syns : pc'[h] = pc[h]
    BY Goes, Disjoint DEF IInv
<1>2. Types'
    BY <1>1 DEF IInv, Types
<1>3. OneHandshake'
    BY <1>1 DEF IInv, OneHandshake, Handshake
<1> QED
    BY <1>1, <1>2, <1>3 DEF IInv

------------------------------------------------------------------------------
(* What a step does to the pending entry *)

LEMMA EntryIsPending ==
    ASSUME NEW fs \in SUBSET Frame, NEW n \in Nat, NEW c \in BOOLEAN,
           NEW k \in Syns \cup {None}
    PROVE  Entry(fs, n, c, k) \in PendingEntry
BY DEF Entry, PendingEntry

\* Changing one field of an entry leaves an entry, and its mark where it was or
\* raised.
LEMMA EntryExcept ==
    ASSUME NEW e \in PendingEntry
    PROVE  /\ \A h \in Syns : [e EXCEPT !.cancel = h] \in PendingEntry
           /\ [e EXCEPT !.cancelled = TRUE] \in PendingEntry
           /\ \A h \in Syns : [e EXCEPT !.cancel = h].cancelled = e.cancelled
           /\ [e EXCEPT !.cancelled = TRUE].cancelled
           /\ \A f \in Frame, n \in Nat :
                 /\ [e EXCEPT !.frames = @ \cup {f}, !.bytes = @ + n] \in PendingEntry
                 /\ [e EXCEPT !.frames = @ \cup {f}, !.bytes = @ + n].cancelled
                       = e.cancelled
<1>1. /\ \A h \in Syns : [e EXCEPT !.cancel = h] \in PendingEntry
      /\ [e EXCEPT !.cancelled = TRUE] \in PendingEntry
    BY DEF PendingEntry
<1>2. /\ \A h \in Syns : [e EXCEPT !.cancel = h].cancelled = e.cancelled
      /\ [e EXCEPT !.cancelled = TRUE].cancelled
    BY DEF PendingEntry
<1>3. ASSUME NEW f \in Frame, NEW n \in Nat
      PROVE  /\ [e EXCEPT !.frames = @ \cup {f}, !.bytes = @ + n] \in PendingEntry
             /\ [e EXCEPT !.frames = @ \cup {f}, !.bytes = @ + n].cancelled
                   = e.cancelled
  <2>1. e.frames \cup {f} \in SUBSET Frame /\ e.bytes + n \in Nat
      BY DEF PendingEntry
  <2> QED
      BY <2>1 DEF PendingEntry
<1> QED
    BY <1>1, <1>2, <1>3

------------------------------------------------------------------------------
(* One handshake at a time *)

LEMMA SynKeepsIInv ==
    ASSUME IInv, NEW h \in Syns, SynCheckConns(h) \/ SynStep(h)
    PROVE  IInv'
<1> USE DEF maps, local, history
<1>0. /\ pc[h] \in Building => handshaking = h
      /\ pc[h] = "bind" => proto = "udp"
      /\ pc[h] \in {"connect", "recheck"} => proto = "tcp"
      /\ proto \in {"tcp", "udp"}
      /\ pending \in PendingEntry \cup {None}
      /\ in_conns \in BOOLEAN /\ closed \in BOOLEAN /\ unheard \in BOOLEAN
    BY DEF IInv, Types, OneHandshake, Handshake, Building
<1>1. CASE SynCheckConns(h)
  <2>1. PICK l \in {"claim", "done"} : GoTo(h, l)
      BY <1>1 DEF SynCheckConns
  <2> QED
      BY <1>0, <1>1, <2>1, SynMoves DEF SynCheckConns, Label, Building
<1>2. CASE SynClaim(h)
  <2>1. CASE handshaking = None /\ handshaking' = h /\ GoTo(h, "reserve")
      BY <1>0, <1>2, <2>1, SynMoves, Disjoint DEF SynClaim, Label
  <2>2. CASE UNCHANGED handshaking /\ GoTo(h, "done")
      BY <1>0, <1>2, <2>2, SynMoves DEF SynClaim, Label, Building
  <2> QED
      BY <1>2, <2>1, <2>2 DEF SynClaim
<1>3. CASE SynReserve(h)
  <2>1. pending' \in PendingEntry
      BY <1>0, <1>3, EntryIsPending, EntryExcept DEF SynReserve
  <2> QED
      BY <1>0, <1>3, <2>1, SynMoves DEF SynReserve, Label, Building
<1>4. CASE SynCheckClosed(h)
  <2>1. PICK l \in {"drop", "decode"} : GoTo(h, l)
      BY <1>4 DEF SynCheckClosed
  <2> QED
      BY <1>0, <1>4, <2>1, SynMoves DEF SynCheckClosed, Label, Building
<1>5. CASE SynDecode(h)
  <2>1. PICK l \in {"connect", "bind", "refuse"} :
            /\ GoTo(h, l) /\ (l = "connect" => proto = "tcp")
            /\ l = "bind" => proto # "tcp"
      BY <1>5 DEF SynDecode
  <2> QED
      BY <1>0, <1>5, <2>1, SynMoves DEF SynDecode, Label, Building
<1>6. CASE SynConnect(h)
  <2>1. PICK l \in {"recheck", "refuse", "abort"} : GoTo(h, l)
      BY <1>6 DEF SynConnect
  <2> QED
      BY <1>0, <1>6, <2>1, SynMoves DEF SynConnect, Label, Building
<1>7. CASE SynBind(h)
  <2>1. PICK l \in {"insert", "refuse"} : GoTo(h, l)
      BY <1>7 DEF SynBind
  <2> QED
      BY <1>0, <1>7, <2>1, SynMoves DEF SynBind, Label, Building
<1>8. CASE SynRecheckClosed(h)
  <2>1. PICK l \in {"drop", "insert"} : GoTo(h, l)
      BY <1>8 DEF SynRecheckClosed
  <2> QED
      BY <1>0, <1>8, <2>1, SynMoves DEF SynRecheckClosed, Label, Building
<1>9. CASE SynInsertConn(h)
    BY <1>0, <1>9, SynMoves DEF SynInsertConn, Label, Building
<1>10. CASE SynTakePending(h)
  <2>1. PICK l \in {"teardown", "replay"} : GoTo(h, l)
      BY <1>10 DEF SynTakePending
  <2> QED
      BY <1>0, <1>10, <2>1, SynMoves DEF SynTakePending, remove_pending, Label, Building
<1>11. CASE SynReplay(h)
  <2>1. PICK l \in {"release", "reset"} : GoTo(h, l) /\ in_conns' \in BOOLEAN
      BY <1>0, <1>11 DEF SynReplay
  <2> QED
      BY <1>0, <1>11, <2>1, SynMoves DEF SynReplay, Label, Building
<1>12. CASE SynTeardown(h)
    BY <1>0, <1>12, SynMoves DEF SynTeardown, Label, Building
<1>13. CASE SynDropPending(h)
  <2>1. PICK l \in {"release", "refused", "aborted"} : GoTo(h, l)
      BY <1>13 DEF SynDropPending
  <2> QED
      BY <1>0, <1>13, <2>1, SynMoves DEF SynDropPending, remove_pending, Label, Building
<1>14. CASE SynRelease(h)
  <2>1. PICK l \in {"done", "refused_tombstone", "aborted_tombstone"} : GoTo(h, l)
      BY <1>14 DEF SynRelease
  <2>2. handshaking = h
      BY <1>0, <1>14 DEF SynRelease, Label, Building
  <2> QED
      BY <1>0, <1>14, <2>1, <2>2, SynMoves DEF SynRelease, Label, Building
<1>15. CASE SynTombstone(h)
  <2>1. CASE pc[h] \in {"reset", "torn"} /\ GoTo(h, "release")
      BY <1>0, <1>15, <2>1, SynMoves DEF SynTombstone, Label, Building
  <2>2. CASE GoTo(h, "done")
      BY <1>0, <1>15, <2>2, SynMoves DEF SynTombstone, Label, Building
  <2> QED
      BY <1>15, <2>1, <2>2 DEF SynTombstone
<1> QED
    BY <1>1, <1>2, <1>3, <1>4, <1>5, <1>6, <1>7, <1>8, <1>9, <1>10, <1>11, <1>12,
       <1>13, <1>14, <1>15 DEF SynStep

\* The frame, RST and eviction handlers.
LEMMA OthersKeepIInv ==
    ASSUME IInv, NEW g \in Handler \ Syns,
           \/ g \in Frame /\ (FrameCheckConns(g) \/ FrameStep(g))
           \/ g \in Rsts /\ (RstRemoveConn(g) \/ RstStep(g))
           \/ g \in Evicting /\ (SweepRemove(g) \/ EvictRead(g) \/ EvictStep(g))
    PROVE  IInv' /\ \A h \in Syns : pc'[h] = pc[h]
<1> USE DEF maps, local, history
<1>0. /\ pending \in PendingEntry \cup {None}
      /\ in_conns \in BOOLEAN /\ closed \in BOOLEAN /\ unheard \in BOOLEAN
    BY DEF IInv, Types
<1>1. CASE FrameCheckConns(g)
  <2>1. PICK l \in {"done", "check"} : GoTo(g, l)
      BY <1>1 DEF FrameCheckConns
  <2> QED
      BY <1>0, <1>1, <2>1, OthersMove DEF FrameCheckConns, Label
<1>2. CASE FrameCheckClosed(g)
  <2>1. PICK l \in {"done", "lookup"} : GoTo(g, l)
      BY <1>2 DEF FrameCheckClosed
  <2> QED
      BY <1>0, <1>2, <2>1, OthersMove DEF FrameCheckClosed, Label
<1>3. CASE FrameLookup(g)
  <2>1. PICK l \in {"reserve_push", "push", "reserve_new", "new", "fail"} : GoTo(g, l)
      BY <1>3 DEF FrameLookup
  <2> QED
      BY <1>0, <1>3, <2>1, OthersMove DEF FrameLookup, Label
<1>4. CASE DataReserve(g)
  <2>1. PICK l \in {"push", "new", "fail"} : GoTo(g, l)
      BY <1>4 DEF DataReserve, try_reserve_pending
  <2> QED
      BY <1>0, <1>4, <2>1, OthersMove DEF DataReserve, Label
<1>5. CASE g \in Frame /\ FramePush(g)
  <2>1. PICK l \in {"done", "fail"} : GoTo(g, l)
      BY <1>5 DEF FramePush
  <2>2. pending' \in PendingEntry
    <3>1. pending \in PendingEntry /\ Size(g) \in Nat
        BY <1>0, <1>5 DEF FramePush, Size
    <3>2. [pending EXCEPT !.frames = @ \cup {g}, !.bytes = @ + Size(g)] \in PendingEntry
        BY <1>5, <3>1, EntryExcept, Zenon
    <3> QED
        BY <1>5, <3>1, <3>2 DEF FramePush
  <2> QED
      BY <1>0, <1>5, <2>1, <2>2, OthersMove DEF FramePush, Label
<1>6. CASE FrameVanished(g)
  <2>1. PICK l \in {"again", "done"} : GoTo(g, l)
      BY <1>6 DEF FrameVanished
  <2> QED
      BY <1>0, <1>6, <2>1, OthersMove DEF FrameVanished, Label
<1>7. CASE DataAgain(g)
  <2>1. PICK l \in {"coming", "done"} : GoTo(g, l)
      BY <1>7 DEF DataAgain
  <2> QED
      BY <1>0, <1>7, <2>1, OthersMove DEF DataAgain, Label
<1>8. CASE g \in Frame /\ FrameInsert(g)
  <2>1. pending' \in PendingEntry
      BY <1>8, EntryIsPending DEF FrameInsert, Size
  <2>2. unheard' \in BOOLEAN
      BY <1>0, <1>8 DEF FrameInsert, Marked
  <2> QED
      BY <1>0, <1>8, <2>1, <2>2, OthersMove DEF FrameInsert, Label
<1>9. CASE FailCancel(g) \/ RstCancelPending(g)
  <2>1. pending' \in PendingEntry \cup {None}
      BY <1>0, <1>9, EntryExcept DEF FailCancel, RstCancelPending
  <2> QED
      BY <1>0, <1>9, <2>1, OthersMove DEF FailCancel, RstCancelPending, Label
<1>10. CASE FailTombstone(g)
    BY <1>0, <1>10, OthersMove DEF FailTombstone, Label
<1>11. CASE RstRemoveConn(g)
  <2>1. PICK l \in {"tombstone", "cancel"} : GoTo(g, l)
      BY <1>11 DEF RstRemoveConn
  <2> QED
      BY <1>0, <1>11, <2>1, OthersMove DEF RstRemoveConn, Label
<1>12. CASE RstTombstone(g)
  <2>1. unheard' \in BOOLEAN
      BY <1>0, <1>12, Zenon DEF RstTombstone, Built, Marked, BeforeTake
  <2> QED
      BY <1>0, <1>12, <2>1, OthersMove DEF RstTombstone, Label
<1>13. CASE SweepRemove(g) \/ EvictRead(g) \/ EvictRemove(g)
  <2>1. PICK l \in {"refund", "evict", "reserve_new", "coming"} : GoTo(g, l)
      BY <1>13 DEF SweepRemove, EvictRead, EvictRemove, EvictTo, Resumed
  <2>2. unheard' \in BOOLEAN /\ pending' \in PendingEntry \cup {None}
      BY <1>0, <1>13 DEF SweepRemove, EvictRead, EvictRemove, Marked
  <2> QED
      BY <1>0, <1>13, <2>1, <2>2, OthersMove DEF SweepRemove, EvictRead, EvictRemove, Label
<1>14. CASE EvictRefund(g)
    BY <1>0, <1>14, OthersMove DEF EvictRefund, EvictTo, Label
<1>15. CASE EvictTombstone(g)
  <2>1. PICK l \in {"reserve_new", "coming"} : GoTo(g, l)
      BY <1>15 DEF EvictTombstone, Resumed
  <2> QED
      BY <1>0, <1>15, <2>1, OthersMove DEF EvictTombstone, Label
<1> QED
    BY <1>1, <1>2, <1>3, <1>4, <1>5, <1>6, <1>7, <1>8, <1>9, <1>10, <1>11, <1>12,
       <1>13, <1>14, <1>15 DEF FrameStep, RstStep, EvictStep

LEMMA NextIInv == IInv /\ [Next]_vars => IInv'
<1> SUFFICES ASSUME IInv, [Next]_vars PROVE IInv'
    OBVIOUS
<1>1. CASE UNCHANGED vars
    BY <1>1 DEF vars, maps, history, IInv, Types, OneHandshake, Handshake
<1>2. ASSUME NEW h \in Syns, SynCheckConns(h) \/ SynStep(h) PROVE IInv'
    BY <1>2, SynKeepsIInv
<1>3. ASSUME NEW f \in Frame, FrameCheckConns(f) \/ FrameStep(f) PROVE IInv'
    BY <1>3, OthersKeepIInv, Disjoint
<1>4. ASSUME NEW r \in Rsts, RstRemoveConn(r) \/ RstStep(r) PROVE IInv'
    BY <1>4, OthersKeepIInv, Disjoint
<1>5. ASSUME NEW e \in Evicting, SweepRemove(e) \/ EvictRead(e) \/ EvictStep(e)
      PROVE  IInv'
    BY <1>5, OthersKeepIInv, Disjoint
<1> QED
    BY <1>1, <1>2, <1>3, <1>4, <1>5 DEF Next

LEMMA IInvHolds == Spec => []IInv
BY InitIInv, NextIInv, PTL DEF Spec

\* One SYN handshake per cid at a time, however many duplicates of the SYN
\* arrive: the handler that builds the connection is the registered one.
THEOREM HandshakeIsAlone == Spec => []OneHandshake
<1>1. IInv => OneHandshake
    BY DEF IInv
<1> QED
    BY <1>1, IInvHolds, PTL

------------------------------------------------------------------------------
(* A reset takes effect *)

\* Once an RST has been handled and its mark was not lost: the tombstone is set,
\* a SYN handler that will not look at it again finds its entry marked, and a
\* connection that is still there has its builder on the way to tear it down.
ResetInv ==
    (~unheard /\ \E r \in Rsts : pc[r] = "done")
        => /\ closed
           /\ BeforeTake => Marked
           /\ in_conns => \E h \in Syns : pc[h] \in {"take", "teardown"}

\* The labels at which a SYN handler is past its last look at closed.
PastLook(h) == \/ pc[h] \in {"insert", "take"}
               \/ proto = "udp" /\ pc[h] \in {"decode", "bind"}

LEMMA BeforeTakeLabels ==
    /\ BeforeTake <=> \E h \in Syns : PastLook(h)
    /\ BeforeTake' <=> \E h \in Syns : PastLook(h)'
BY DEF BeforeTake, PastLook

\* A handler in the handshake is the only one.
LEMMA Alone ==
    ASSUME IInv, NEW h \in Syns, pc[h] \in Building
    PROVE  \A g \in Syns \ {h} : pc[g] \notin Building
<1>1. \A g \in Syns : pc[g] \in Building => handshaking = g
    BY DEF IInv, OneHandshake, Handshake, Building
<1> QED
    BY <1>1

LEMMA SynKeepsReset ==
    ASSUME IInv, ResetInv, NEW h \in Syns, SynCheckConns(h) \/ SynStep(h)
    PROVE  ResetInv'
<1> USE DEF maps, local, history
<1> SUFFICES ASSUME ~unheard', NEW r \in Rsts, pc'[r] = "done"
             PROVE  /\ closed'
                    /\ BeforeTake' => Marked'
                    /\ in_conns' => \E g \in Syns : pc'[g] \in {"take", "teardown"}
    BY DEF ResetInv
<1>0. UNCHANGED unheard
    BY DEF SynStep, SynCheckConns, SynClaim, SynReserve, SynCheckClosed, SynDecode,
           SynConnect, SynBind, SynRecheckClosed, SynInsertConn, SynTakePending,
           SynReplay, SynTeardown, SynDropPending, SynRelease, SynTombstone
<1>1. PICK l \in Label : GoTo(h, l)
    BY DEF SynStep, SynCheckConns, SynClaim, SynReserve, SynCheckClosed, SynDecode,
           SynConnect, SynBind, SynRecheckClosed, SynInsertConn, SynTakePending,
           SynReplay, SynTeardown, SynDropPending, SynRelease, SynTombstone, Label
<1>2. /\ pc'[h] = l /\ proto' = proto /\ \A g \in Syns \ {h} : pc'[g] = pc[g]
      /\ pc[r] = "done"
    BY <1>1, Goes, Disjoint DEF IInv
<1>3. /\ closed /\ (BeforeTake => Marked)
      /\ in_conns => \E g \in Syns : pc[g] \in {"take", "teardown"}
    BY <1>0, <1>2 DEF ResetInv
\* Steps that neither pass the last look at closed nor touch the connection.
<1>4. CASE /\ pc[h] \notin {"take", "teardown"} /\ l \notin {"insert", "take"}
           /\ l \in {"decode", "bind"} => proto = "tcp"
           /\ closed' /\ UNCHANGED in_conns /\ (Marked => Marked')
  <2>1. ASSUME BeforeTake' PROVE BeforeTake
    <3>1. PICK g \in Syns : PastLook(g)'
        BY <2>1, BeforeTakeLabels
    <3>2. g # h
        BY <1>2, <1>4, <3>1 DEF PastLook
    <3> QED
        BY <1>2, <3>1, <3>2, BeforeTakeLabels DEF PastLook
  <2>2. ASSUME in_conns' PROVE \E g \in Syns : pc'[g] \in {"take", "teardown"}
    <3>1. PICK g \in Syns : pc[g] \in {"take", "teardown"}
        BY <1>3, <1>4, <2>2
    <3> QED
        BY <1>2, <1>4, <3>1
  <2> QED
      BY <1>3, <1>4, <2>1, <2>2
<1>5. UNCHANGED pending => Marked' = Marked
    BY DEF Marked
<1>6. CASE SynCheckConns(h) \/ SynClaim(h) \/ SynRelease(h) \/ SynTombstone(h)
    BY <1>2, <1>3, <1>4, <1>5, <1>6
       DEF SynCheckConns, SynClaim, SynRelease, SynTombstone, GoTo, IInv, Types
<1>7. CASE SynReserve(h)
  <2>1. Marked => Marked'
    <3>1. ASSUME Marked PROVE /\ pending' = [pending EXCEPT !.cancel = h]
                              /\ pending \in PendingEntry /\ pending.cancelled
        BY <1>7, <3>1 DEF SynReserve, Marked, IInv, Types
    <3> QED
        BY <3>1, EntryExcept, NoneAssumption DEF Marked
  <2> QED
      BY <1>2, <1>3, <1>4, <1>7, <2>1 DEF SynReserve, GoTo, IInv, Types
<1>8. CASE SynCheckClosed(h) \/ SynRecheckClosed(h)
  <2>1. l = "drop"
      BY <1>2, <1>3, <1>8, Disjoint DEF SynCheckClosed, SynRecheckClosed, GoTo, IInv, Types
  <2> QED
      BY <1>3, <1>4, <1>5, <1>8, <2>1 DEF SynCheckClosed, SynRecheckClosed
<1>9. CASE SynConnect(h)
  <2>1. l \in {"recheck", "refuse", "abort"}
      BY <1>2, <1>9, Disjoint DEF SynConnect, GoTo, IInv, Types
  <2> QED
      BY <1>3, <1>4, <1>5, <1>9, <2>1 DEF SynConnect
<1>10. CASE SynDecode(h) \/ SynBind(h)
  <2>1. \/ l \in {"connect", "refuse"}
        \/ l \in {"bind", "insert"} /\ proto = "udp"
      BY <1>2, <1>10, Disjoint DEF SynDecode, SynBind, GoTo, IInv, Types
  <2>2. CASE l \in {"connect", "refuse"}
      BY <1>3, <1>4, <1>5, <1>10, <2>2 DEF SynDecode, SynBind
  <2>3. CASE l \in {"bind", "insert"} /\ proto = "udp"
    <3>1. BeforeTake
        BY <1>10, <2>3, BeforeTakeLabels DEF SynDecode, SynBind, PastLook
    <3>2. Marked' /\ closed' /\ UNCHANGED in_conns /\ pc[h] \in {"decode", "bind"}
        BY <1>3, <1>5, <1>10, <3>1 DEF SynDecode, SynBind
    <3> QED
        BY <1>2, <1>3, <3>2
  <2> QED
      BY <2>1, <2>2, <2>3
<1>12. CASE SynInsertConn(h)
  <2>1. BeforeTake /\ l = "take"
      BY <1>2, <1>12, BeforeTakeLabels, Disjoint
         DEF SynInsertConn, PastLook, GoTo, IInv, Types
  <2>2. Marked' /\ closed'
      BY <1>3, <1>5, <1>12, <2>1 DEF SynInsertConn
  <2> QED
      BY <1>2, <2>1, <2>2
\* From here on the handler is alone in its handshake and past its last look.
<1>13. ASSUME pc[h] \in Building, ~PastLook(h)', closed',
              ~in_conns' \/ pc'[h] \in {"take", "teardown"}
       PROVE  /\ closed' /\ ~BeforeTake'
              /\ in_conns' => \E g \in Syns : pc'[g] \in {"take", "teardown"}
  <2>1. \A g \in Syns \ {h} : ~PastLook(g)'
      BY <1>2, <1>13, Alone DEF PastLook, Building, Label
  <2> QED
      BY <1>13, <2>1, BeforeTakeLabels
<1>14. CASE SynTakePending(h)
  <2>1. Marked
      BY <1>3, <1>14, BeforeTakeLabels DEF SynTakePending, PastLook
  <2>2. l = "teardown"
      BY <1>2, <1>14, <2>1, Disjoint DEF SynTakePending, Marked, GoTo, IInv, Types
  <2> QED
      BY <1>2, <1>3, <1>13, <1>14, <2>2 DEF SynTakePending, PastLook, Building, Label
<1>15. CASE SynTeardown(h)
  <2>1. l = "torn"
      BY <1>2, <1>15, Disjoint DEF SynTeardown, GoTo, IInv, Types
  <2> QED
      BY <1>2, <1>3, <1>13, <1>15, <2>1 DEF SynTeardown, PastLook, Building, Label
<1>16. CASE SynReplay(h) \/ SynDropPending(h)
  <2>1. l \in {"release", "reset", "refused", "aborted"} /\ pc[h] \in Building
        /\ pc[h] \notin {"take", "teardown"}
      BY <1>2, <1>16, Disjoint
         DEF SynReplay, SynDropPending, GoTo, IInv, Types, Building, Label
  <2>2. ~in_conns
      BY <1>3, <2>1, Alone DEF Building, Label
  <2>3. ~in_conns' /\ closed'
    <3>1. (in_conns' = FALSE \/ UNCHANGED in_conns) /\ UNCHANGED closed
        BY <1>16 DEF SynReplay, SynDropPending
    <3> QED
        BY <1>3, <2>2, <3>1
  <2> QED
      BY <1>2, <1>13, <2>1, <2>3 DEF PastLook
<1> QED
    BY <1>6, <1>7, <1>8, <1>9, <1>10, <1>12, <1>14, <1>15, <1>16 DEF SynStep

\* The frame, RST and eviction handlers: an entry that loses its mark is noted.
LEMMA OthersKeepReset ==
    ASSUME IInv, ResetInv, NEW g \in Handler \ Syns,
           \/ g \in Frame /\ (FrameCheckConns(g) \/ FrameStep(g))
           \/ g \in Rsts /\ (RstRemoveConn(g) \/ RstStep(g))
           \/ g \in Evicting /\ (SweepRemove(g) \/ EvictRead(g) \/ EvictStep(g))
    PROVE  ResetInv'
<1> USE DEF maps, local, history
<1> SUFFICES ASSUME ~unheard', NEW r \in Rsts, pc'[r] = "done"
             PROVE  /\ closed'
                    /\ BeforeTake' => Marked'
                    /\ in_conns' => \E h \in Syns : pc'[h] \in {"take", "teardown"}
    BY DEF ResetInv
<1>1. /\ \A h \in Syns : pc'[h] = pc[h]
      /\ proto' = proto
  <2>1. \A h \in Syns : pc'[h] = pc[h]
      BY OthersKeepIInv
  <2>2. proto' = proto
      BY DEF FrameCheckConns, FrameStep, FrameCheckClosed, FrameLookup, DataReserve,
             try_reserve_pending, FramePush, FrameVanished, DataAgain, FrameInsert,
             FailCancel, FailTombstone, RstRemoveConn, RstStep, RstCancelPending,
             RstTombstone, SweepRemove, EvictRead, EvictStep, EvictRemove, EvictRefund,
             EvictTombstone, EvictTo, GoTo
  <2> QED
      BY <2>1, <2>2
<1>2. BeforeTake' <=> BeforeTake
    BY <1>1 DEF BeforeTake
<1>3. UNCHANGED pending => Marked' = Marked
    BY DEF Marked
\* Every step but the tombstone of an RST leaves the RST handlers that are done.
<1>4. ASSUME ~unheard, pc[r] = "done", closed', in_conns' => in_conns,
             BeforeTake /\ Marked => Marked'
      PROVE  /\ closed' /\ (BeforeTake' => Marked')
             /\ in_conns' => \E h \in Syns : pc'[h] \in {"take", "teardown"}
  <2>1. /\ BeforeTake => Marked
        /\ in_conns => \E h \in Syns : pc[h] \in {"take", "teardown"}
      BY <1>4 DEF ResetInv
  <2> QED
      BY <1>1, <1>2, <1>4, <2>1
<1>5. ASSUME ~unheard, pc[r] = "done" PROVE closed
    BY <1>5 DEF ResetInv
<1>6. pc \in [Handler -> Label] /\ pending \in PendingEntry \cup {None}
    BY DEF IInv, Types
<1>7. ASSUME NEW l, GoTo(g, l), g \in Rsts => l # "done" PROVE pc[r] = "done"
    BY <1>6, <1>7, Disjoint DEF GoTo
<1>8. CASE g \in Frame \/ g \in Evicting
  <2>1. g \notin Rsts
      BY <1>8, Disjoint
  <2>2. pc[r] = "done"
    <3>1. \E l : GoTo(g, l)
        BY <1>8, <2>1 DEF FrameCheckConns, FrameStep, FrameCheckClosed, FrameLookup,
           DataReserve, try_reserve_pending, FramePush, FrameVanished, DataAgain,
           FrameInsert, FailCancel, FailTombstone, SweepRemove, EvictRead, EvictStep,
           EvictRemove, EvictRefund, EvictTombstone, EvictTo
    <3> QED
        BY <1>7, <2>1, <3>1
  <2>3. CASE \/ FrameCheckConns(g) \/ FrameCheckClosed(g) \/ FrameLookup(g)
             \/ DataReserve(g) \/ FrameVanished(g) \/ DataAgain(g) \/ EvictRead(g)
             \/ EvictRefund(g) \/ FailTombstone(g) \/ EvictTombstone(g)
    <3>1. UNCHANGED <<pending, in_conns, unheard>> /\ (closed => closed')
        BY <2>3 DEF FrameCheckConns, FrameCheckClosed, FrameLookup, DataReserve,
           FrameVanished, DataAgain, EvictRead, EvictRefund, FailTombstone, EvictTombstone
    <3> QED
        BY <1>3, <1>4, <1>5, <2>2, <3>1
  <2>4. CASE g \in Frame /\ FramePush(g)
    <3>1. Marked => Marked'
      <4>1. CASE UNCHANGED pending
          BY <4>1 DEF Marked
      <4>2. CASE pending' = [pending EXCEPT !.frames = @ \cup {g}, !.bytes = @ + Size(g)]
        <5>1. pending \in PendingEntry
            BY <1>6, <2>4 DEF FramePush
        <5>2. pending'.cancelled = pending.cancelled
            BY <4>2, <5>1 DEF PendingEntry
        <5>3. pending' # None
          <6>1. g \in Frame /\ Size(g) \in Nat
              BY <2>4 DEF Size
          <6>2. [pending EXCEPT !.frames = @ \cup {g}, !.bytes = @ + Size(g)]
                  \in PendingEntry
              BY <5>1, <6>1, EntryExcept, Zenon
          <6> QED
              BY <4>2, <6>2, NoneAssumption
        <5> QED
            BY <5>2, <5>3 DEF Marked
      <4> QED
          BY <2>4, <4>1, <4>2 DEF FramePush
    <3> QED
        BY <1>4, <1>5, <2>2, <2>4, <3>1 DEF FramePush
  <2>5. CASE FailCancel(g)
    <3>1. Marked => Marked'
        BY <1>6, <2>5, EntryExcept, NoneAssumption DEF FailCancel, Marked
    <3> QED
        BY <1>4, <1>5, <2>2, <2>5, <3>1 DEF FailCancel
  <2>6. CASE FrameInsert(g) \/ SweepRemove(g) \/ EvictRemove(g)
    <3>1. ~unheard /\ ~Marked
        BY <2>6 DEF FrameInsert, SweepRemove, EvictRemove
    <3>2. UNCHANGED <<in_conns, closed>>
        BY <2>6 DEF FrameInsert, SweepRemove, EvictRemove
    <3> QED
        BY <1>4, <1>5, <2>2, <3>1, <3>2
  <2> QED
      BY <1>8, <2>1, <2>3, <2>4, <2>5, <2>6 DEF FrameStep, EvictStep
<1>9. CASE g \in Rsts /\ RstRemoveConn(g)
  <2>1. pc[r] = "done"
      BY <1>7, <1>9 DEF RstRemoveConn
  <2> QED
      BY <1>3, <1>4, <1>5, <1>9, <2>1 DEF RstRemoveConn
<1>10. CASE g \in Rsts /\ RstCancelPending(g)
  <2>1. pc[r] = "done"
      BY <1>7, <1>10 DEF RstCancelPending
  <2>2. Marked => Marked'
      BY <1>6, <1>10, EntryExcept, NoneAssumption DEF RstCancelPending, Marked
  <2> QED
      BY <1>4, <1>5, <1>10, <2>1, <2>2 DEF RstCancelPending
<1>11. CASE RstTombstone(g)
  <2>1. ~Built /\ (BeforeTake => Marked) /\ closed' /\ UNCHANGED <<pending, in_conns>>
      BY <1>11 DEF RstTombstone
  <2> QED
      BY <1>1, <1>2, <1>3, <2>1 DEF Built
<1> QED
    BY <1>8, <1>9, <1>10, <1>11, Disjoint DEF RstStep

LEMMA NextReset == IInv /\ ResetInv /\ [Next]_vars => ResetInv'
<1> SUFFICES ASSUME IInv, ResetInv, [Next]_vars PROVE ResetInv'
    OBVIOUS
<1>1. CASE UNCHANGED vars
    BY <1>1 DEF vars, maps, history, ResetInv, BeforeTake, Marked
<1>2. ASSUME NEW h \in Syns, SynCheckConns(h) \/ SynStep(h) PROVE ResetInv'
    BY <1>2, SynKeepsReset
<1>3. ASSUME NEW f \in Frame, FrameCheckConns(f) \/ FrameStep(f) PROVE ResetInv'
    BY <1>3, OthersKeepReset, Disjoint
<1>4. ASSUME NEW r \in Rsts, RstRemoveConn(r) \/ RstStep(r) PROVE ResetInv'
    BY <1>4, OthersKeepReset, Disjoint
<1>5. ASSUME NEW e \in Evicting, SweepRemove(e) \/ EvictRead(e) \/ EvictStep(e)
      PROVE  ResetInv'
    BY <1>5, OthersKeepReset, Disjoint
<1> QED
    BY <1>1, <1>2, <1>3, <1>4, <1>5 DEF Next

\* BUG-4/B36: an RST whose mark was not lost leaves no connection behind, in
\* whatever order it meets the steps of the handshake.
THEOREM ResetIsEffective == Spec => []ResetTakesEffect
<1>1. Init => ResetInv
    BY Disjoint DEF Init, ResetInv
<1>2. ResetInv => ResetTakesEffect
    BY Disjoint DEF ResetInv, ResetTakesEffect, Quiet
<1> QED
    BY <1>1, <1>2, IInvHolds, NextReset, PTL DEF Spec

------------------------------------------------------------------------------
(* The byte budget *)

\* What the budget's arguments need of the shape of the state.
Purse ==
    /\ pending_bytes \in 0..(USIZE - 1)
    /\ miscounted \in BOOLEAN
    /\ victim \in [Evicting -> PendingEntry \cup {None}]
    /\ \A e \in Evicting : pc[e] \in {"evict", "refund"} => victim[e] \in PendingEntry

\* As long as no eviction has refunded another size than it removed: the counter
\* is within the budget and covers every byte that somebody will give back.
Ledger ==
    ~miscounted =>
        /\ pending_bytes <= MAX_PENDING_BYTES
        /\ IsFiniteSet(Reserving) /\ IsFiniteSet(Owed)
        /\ pending_bytes
              >= BytesOf(pending) + Cardinality(Reserving) + Cardinality(Owed)

\* Within the range of the counter there is no wrap-around.
LEMMA NoWrap == \A n \in 0..(USIZE - 1) : n % USIZE = n
BY LimitsAssumption

LEMMA BytesAreNat ==
    ASSUME NEW e \in PendingEntry \cup {None}
    PROVE  BytesOf(e) \in Nat /\ (e # None => BytesOf(e) = e.bytes)
BY DEF BytesOf, PendingEntry

LEMMA CancelKeepsBytes ==
    ASSUME pending \in PendingEntry \cup {None},
           pending' = IF pending = None THEN None
                      ELSE [pending EXCEPT !.cancelled = TRUE]
    PROVE  BytesOf(pending') = BytesOf(pending)
<1>1. CASE pending = None
    BY <1>1
<1>2. CASE pending # None
  <2>1. pending \in PendingEntry /\ pending' = [pending EXCEPT !.cancelled = TRUE]
      BY <1>2
  <2>2. pending'.bytes = pending.bytes
      BY <2>1 DEF PendingEntry
  <2>3. pending' # None
      BY <2>1, EntryExcept, NoneAssumption
  <2> QED
      BY <1>2, <2>2, <2>3 DEF BytesOf
<1> QED
    BY <1>1, <1>2

\* The frames in the entry.
Waiting == IF pending = None THEN {} ELSE pending.frames

LEMMA CancelKeepsFrames ==
    ASSUME pending \in PendingEntry \cup {None},
           pending' = IF pending = None THEN None
                      ELSE [pending EXCEPT !.cancelled = TRUE]
    PROVE  Waiting' = Waiting /\ (pending' = None => pending = None)
<1>1. CASE pending = None
    BY <1>1 DEF Waiting
<1>2. CASE pending # None
  <2>1. pending \in PendingEntry /\ pending' = [pending EXCEPT !.cancelled = TRUE]
      BY <1>2
  <2>2. pending'.frames = pending.frames
      BY <2>1 DEF PendingEntry
  <2>3. pending' # None
      BY <2>1, EntryExcept, NoneAssumption
  <2> QED
      BY <1>2, <2>2, <2>3 DEF Waiting
<1> QED
    BY <1>1, <1>2

\* The bytes one eviction owes.
LEMMA Portion ==
    ASSUME NEW e, NEW n \in Nat
    PROVE  IsFiniteSet({e} \X (1..n)) /\ Cardinality({e} \X (1..n)) = n
<1> DEFINE pair == [i \in 1..n |-> <<e, i>>]
<1>1. pair \in Bijection(1..n, {e} \X (1..n))
  <2>1. pair \in [1..n -> {e} \X (1..n)]
      OBVIOUS
  <2>2. \A i, j \in 1..n : pair[i] = pair[j] => i = j
      OBVIOUS
  <2>3. \A p \in {e} \X (1..n) : \E i \in 1..n : pair[i] = p
      OBVIOUS
  <2> QED
      BY <2>1, <2>2, <2>3 DEF Bijection, Injection, IsInjective, Surjection
<1>2. IsFiniteSet(1..n) /\ Cardinality(1..n) = n
    BY FS_Interval
<1> HIDE DEF pair
<1>3. ExistsBijection(1..n, {e} \X (1..n))
    BY <1>1 DEF ExistsBijection
<1> QED
    BY <1>2, <1>3, FS_Bijection

LEMMA OwedPairs ==
    /\ \A p : p \in Owed <=> \E e \in Evicting : /\ pc[e] = "refund"
                                                  /\ p \in {e} \X (1..victim[e].bytes)
    /\ \A p : p \in Owed' <=> \E e \in Evicting : /\ pc'[e] = "refund"
                                                   /\ p \in {e} \X (1..victim'[e].bytes)
BY DEF Owed

\* An eviction that has removed its entry begins to owe, and owes no more when
\* it has refunded.
LEMMA OwedStep ==
    ASSUME NEW g \in Evicting,
           \A e \in Evicting \ {g} : pc'[e] = pc[e] /\ victim'[e] = victim[e]
    PROVE  /\ (pc[g] # "refund" /\ pc'[g] # "refund") => Owed' = Owed
           /\ (pc[g] # "refund" /\ pc'[g] = "refund")
                 => /\ Owed' = Owed \cup ({g} \X (1..victim'[g].bytes))
                    /\ Owed \cap ({g} \X (1..victim'[g].bytes)) = {}
           /\ (pc[g] = "refund" /\ pc'[g] # "refund")
                 => /\ Owed = Owed' \cup ({g} \X (1..victim[g].bytes))
                    /\ Owed' \cap ({g} \X (1..victim[g].bytes)) = {}
<1>1. CASE pc[g] # "refund" /\ pc'[g] # "refund"
    BY <1>1, OwedPairs
<1>2. CASE pc[g] # "refund" /\ pc'[g] = "refund"
    BY <1>2, OwedPairs
<1>3. CASE pc[g] = "refund" /\ pc'[g] # "refund"
    BY <1>3, OwedPairs
<1> QED
    BY <1>1, <1>2, <1>3

\* A handler that moves without taking part in an eviction.
LEMMA MovesOn ==
    ASSUME IInv, Purse, NEW g \in Handler, NEW l \in Label, GoTo(g, l),
           UNCHANGED <<victim, miscounted>>, pending_bytes' \in 0..(USIZE - 1),
           g \in Evicting => (pc[g] # "refund" /\ l \notin {"evict", "refund"})
    PROVE  /\ Purse' /\ UNCHANGED Owed
           /\ (g \in Datas /\ l \in {"push", "new"}) => Reserving' = Reserving \cup {g}
           /\ (g \in Datas /\ l \notin {"push", "new"}) => Reserving' = Reserving \ {g}
           /\ (g \in Datas /\ pc[g] \in {"push", "new"}) => g \in Reserving
           /\ (g \in Datas /\ pc[g] \notin {"push", "new"}) => g \notin Reserving
           /\ g \notin Datas => Reserving' = Reserving
<1>1. pc'[g] = l /\ \A h \in Handler \ {g} : pc'[h] = pc[h]
    BY Goes DEF IInv
<1>2. Purse'
    BY <1>1, Disjoint DEF Purse
<1>3. Owed' = Owed
  <2>1. CASE g \in Evicting
      BY <1>1, <2>1, OwedStep, Disjoint
  <2>2. CASE g \notin Evicting
    <3>1. \A e \in Evicting : pc'[e] = pc[e] /\ victim'[e] = victim[e]
        BY <1>1, <2>2, Disjoint
    <3> QED
        BY <3>1, OwedPairs
  <2> QED
      BY <2>1, <2>2
<1>4. Datas \subseteq Handler
    BY DEF Handler
<1> QED
    BY <1>1, <1>2, <1>3, <1>4 DEF Reserving

\* Steps that neither reserve nor give back.
LEMMA SpendsNothing ==
    ASSUME IInv, Purse, Ledger, NEW g \in Handler, NEW l \in Label, GoTo(g, l),
           UNCHANGED <<victim, miscounted, pending_bytes>>,
           BytesOf(pending') = BytesOf(pending),
           g \in Evicting => (pc[g] # "refund" /\ l \notin {"evict", "refund"}),
           g \in Datas => (pc[g] \notin {"push", "new"} /\ l \notin {"push", "new"})
    PROVE  Purse' /\ Ledger'
<1>1. Purse' /\ UNCHANGED Owed /\ UNCHANGED Reserving
    BY MovesOn DEF Purse
<1> QED
    BY <1>1 DEF Ledger

\* remove_pending gives back what the entry was charged.
LEMMA GivesBack ==
    ASSUME IInv, Purse, Ledger, NEW g \in Syns, NEW l \in Label, GoTo(g, l),
           remove_pending, UNCHANGED <<victim, miscounted>>
    PROVE  Purse' /\ Ledger'
<1>1. BytesOf(pending) \in Nat /\ BytesOf(pending') = 0
    BY BytesAreNat DEF IInv, Types, remove_pending, BytesOf
<1>2. pending_bytes' = (pending_bytes - BytesOf(pending)) % USIZE
    BY DEF remove_pending, Refund
<1>3. pending_bytes' \in 0..(USIZE - 1)
    BY <1>1, <1>2, LimitsAssumption DEF Purse
<1>4. Purse' /\ UNCHANGED Owed /\ UNCHANGED Reserving
    BY <1>3, MovesOn, Disjoint DEF Evicting
<1>5. ASSUME ~miscounted
      PROVE  /\ Cardinality(Reserving) \in Nat /\ Cardinality(Owed) \in Nat
             /\ pending_bytes' = pending_bytes - BytesOf(pending)
  <2>1. Cardinality(Reserving) \in Nat /\ Cardinality(Owed) \in Nat
      BY <1>5, FS_CardinalityType DEF Ledger
  <2>2. pending_bytes - BytesOf(pending) \in 0..(USIZE - 1)
    <3>1. \A p, b, r, o \in Nat : p >= b + r + o => p - b >= 0 /\ p - b <= p
        OBVIOUS
    <3>2. pending_bytes >= BytesOf(pending) + Cardinality(Reserving) + Cardinality(Owed)
        BY <1>5 DEF Ledger
    <3> QED
        BY <1>1, <2>1, <3>1, <3>2, LimitsAssumption DEF Purse
  <2> QED
      BY <1>2, <2>1, <2>2, NoWrap
<1>6. ASSUME ~miscounted
      PROVE  /\ pending_bytes' <= MAX_PENDING_BYTES
             /\ pending_bytes' >= 0 + Cardinality(Reserving) + Cardinality(Owed)
  <2>1. /\ pending_bytes <= MAX_PENDING_BYTES /\ pending_bytes \in Nat
        /\ pending_bytes >= BytesOf(pending) + Cardinality(Reserving) + Cardinality(Owed)
      BY <1>6, LimitsAssumption DEF Ledger, Purse
  <2> QED
      BY <1>1, <1>5, <1>6, <2>1, LimitsAssumption
<1> QED
    BY <1>1, <1>4, <1>6 DEF Ledger

LEMMA SynKeepsLedger ==
    ASSUME IInv, Purse, Ledger, NEW h \in Syns, SynCheckConns(h) \/ SynStep(h)
    PROVE  Purse' /\ Ledger'
<1> USE DEF maps, local, history
<1>1. h \in Handler /\ h \notin Evicting /\ h \notin Datas
    BY Disjoint DEF Evicting
<1>2. PICK l \in Label : GoTo(h, l)
    BY DEF SynStep, SynCheckConns, SynClaim, SynReserve, SynCheckClosed, SynDecode,
           SynConnect, SynBind, SynRecheckClosed, SynInsertConn, SynTakePending,
           SynReplay, SynTeardown, SynDropPending, SynRelease, SynTombstone, Label
<1>3. UNCHANGED <<victim, miscounted>>
    BY DEF SynStep, SynCheckConns, SynClaim, SynReserve, SynCheckClosed, SynDecode,
           SynConnect, SynBind, SynRecheckClosed, SynInsertConn, SynTakePending,
           SynReplay, SynTeardown, SynDropPending, SynRelease, SynTombstone
<1>4. CASE SynTakePending(h) \/ SynDropPending(h)
    BY <1>2, <1>3, <1>4, GivesBack DEF SynTakePending, SynDropPending
<1>5. CASE SynReserve(h)
  <2>1. BytesOf(pending') = BytesOf(pending)
    <3>1. CASE pending = None
      <4>1. Entry({}, 0, FALSE, h) \in PendingEntry /\ pending' = Entry({}, 0, FALSE, h)
          BY <1>5, <3>1, EntryIsPending DEF SynReserve
      <4> QED
          BY <3>1, <4>1, NoneAssumption DEF BytesOf, Entry
    <3>2. CASE pending # None
      <4>1. /\ pending \in PendingEntry /\ pending' = [pending EXCEPT !.cancel = h]
            /\ pending' \in PendingEntry
          BY <1>5, <3>2, EntryExcept DEF SynReserve, IInv, Types
      <4>2. pending'.bytes = pending.bytes
          BY <4>1 DEF PendingEntry
      <4> QED
          BY <4>1, <4>2, NoneAssumption DEF BytesOf
    <3> QED
        BY <3>1, <3>2
  <2> QED
      BY <1>1, <1>2, <1>3, <1>5, <2>1, SpendsNothing DEF SynReserve
<1>6. CASE ~(SynTakePending(h) \/ SynDropPending(h) \/ SynReserve(h))
  <2>1. UNCHANGED <<pending, pending_bytes>>
      BY <1>6 DEF SynStep, SynCheckConns, SynClaim, SynCheckClosed, SynDecode,
           SynConnect, SynBind, SynRecheckClosed, SynInsertConn,
           SynReplay, SynTeardown, SynRelease, SynTombstone
  <2>2. BytesOf(pending') = BytesOf(pending)
      BY <2>1
  <2> QED
      BY <1>1, <1>2, <1>3, <2>1, <2>2, SpendsNothing
<1> QED
    BY <1>4, <1>5, <1>6

\* The ledger's entries are numbers.
LEMMA Balance ==
    ASSUME IInv, Purse, Ledger, ~miscounted
    PROVE  /\ pending_bytes \in Nat /\ pending_bytes <= MAX_PENDING_BYTES
           /\ BytesOf(pending) \in Nat
           /\ IsFiniteSet(Reserving) /\ Cardinality(Reserving) \in Nat
           /\ IsFiniteSet(Owed) /\ Cardinality(Owed) \in Nat
           /\ pending_bytes
                 >= BytesOf(pending) + Cardinality(Reserving) + Cardinality(Owed)
<1>1. IsFiniteSet(Reserving) /\ IsFiniteSet(Owed)
    BY DEF Ledger
<1>2. Cardinality(Reserving) \in Nat /\ Cardinality(Owed) \in Nat
    BY <1>1, FS_CardinalityType
<1>3. BytesOf(pending) \in Nat
    BY BytesAreNat DEF IInv, Types
<1> QED
    BY <1>1, <1>2, <1>3, LimitsAssumption DEF Ledger, Purse

\* A DATA handler gives up its reservation, and n of its bytes are now counted
\* with the entry or, if the frame was refused, refunded.
LEMMA Settles ==
    ASSUME IInv, Purse, Ledger, NEW g \in Frame, NEW l \in Label \ {"push", "new", "evict", "refund"},
           GoTo(g, l), pc[g] \in {"push", "new"}, UNCHANGED <<victim, miscounted>>,
           \/ /\ UNCHANGED pending_bytes
              /\ BytesOf(pending') \in Nat
              /\ BytesOf(pending') <= BytesOf(pending) + Size(g)
           \/ /\ Refund(Size(g))
              /\ BytesOf(pending') = BytesOf(pending)
    PROVE  Purse' /\ Ledger'
<1> DEFINE n == Size(g)
<1>1. n \in {0, 1} /\ (n = 1 <=> g \in Datas)
    BY DEF Size
<1>2. g \in Handler /\ pc[g] # "refund"
    BY Disjoint
<1>3. pending_bytes' \in 0..(USIZE - 1)
    BY <1>1, LimitsAssumption DEF Purse, Refund
<1>4. /\ Purse' /\ UNCHANGED Owed
      /\ (g \in Datas => Reserving' = Reserving \ {g} /\ g \in Reserving)
      /\ (g \notin Datas => Reserving' = Reserving)
    BY <1>2, <1>3, MovesOn
<1> HIDE DEF n
<1>5. ASSUME ~miscounted
      PROVE  /\ IsFiniteSet(Reserving')
             /\ Cardinality(Reserving') = Cardinality(Reserving) - n
             /\ Cardinality(Reserving') \in Nat
  <2>1. CASE g \in Datas
      BY <1>1, <1>4, <1>5, <2>1, Balance, FS_RemoveElement, FS_CardinalityType
  <2>2. CASE g \notin Datas
      BY <1>1, <1>4, <1>5, <2>2, Balance
  <2> QED
      BY <2>1, <2>2
<1>6. ASSUME ~miscounted
      PROVE  /\ pending_bytes' <= MAX_PENDING_BYTES
             /\ pending_bytes'
                  >= BytesOf(pending') + Cardinality(Reserving') + Cardinality(Owed)
  <2>1. CASE /\ UNCHANGED pending_bytes
             /\ BytesOf(pending') \in Nat
             /\ BytesOf(pending') <= BytesOf(pending) + n
      BY <1>1, <1>5, <1>6, <2>1, Balance, LimitsAssumption
  <2>2. CASE Refund(n) /\ BytesOf(pending') = BytesOf(pending)
    <3>1. pending_bytes - n \in 0..(USIZE - 1)
        BY <1>1, <1>5, <1>6, Balance, LimitsAssumption
    <3>2. pending_bytes' = pending_bytes - n
        BY <2>2, <3>1, NoWrap DEF Refund
    <3> QED
        BY <1>1, <1>5, <1>6, <2>2, <3>2, Balance, LimitsAssumption
  <2> QED
      BY <2>1, <2>2 DEF n
<1> QED
    BY <1>4, <1>5, <1>6 DEF Ledger

\* The compare-and-swap of try_reserve_pending.
LEMMA Reserves ==
    ASSUME IInv, Purse, Ledger, NEW g \in Frame, NEW l \in {"push", "new"}, GoTo(g, l),
           pc[g] \notin {"push", "new", "refund"}, Fits,
           pending_bytes' = (pending_bytes + 1) % USIZE,
           UNCHANGED <<victim, miscounted, pending>>
    PROVE  Purse' /\ Ledger'
<1>1. g \in Handler /\ l \in Label
    BY Disjoint DEF Label
<1>2. pending_bytes' \in 0..(USIZE - 1)
    BY LimitsAssumption DEF Purse
<1>3. Purse' /\ UNCHANGED Owed /\ Reserving' \in {Reserving \cup {g}, Reserving}
    BY <1>1, <1>2, MovesOn
<1>4. ASSUME ~miscounted
      PROVE  /\ IsFiniteSet(Reserving') /\ Cardinality(Reserving') \in Nat
             /\ Cardinality(Reserving') <= Cardinality(Reserving) + 1
  <2>1. IsFiniteSet(Reserving) /\ Cardinality(Reserving) \in Nat
      BY <1>4, Balance
  <2>2. /\ IsFiniteSet(Reserving \cup {g}) /\ Cardinality(Reserving \cup {g}) \in Nat
        /\ Cardinality(Reserving \cup {g}) <= Cardinality(Reserving) + 1
    <3>1. /\ IsFiniteSet(Reserving \cup {g})
          /\ \/ Cardinality(Reserving \cup {g}) = Cardinality(Reserving)
             \/ Cardinality(Reserving \cup {g}) = Cardinality(Reserving) + 1
        BY <2>1, FS_AddElement, Zenon
    <3> QED
        BY <2>1, <3>1
  <2>3. CASE Reserving' = Reserving \cup {g}
      BY <2>2, <2>3
  <2>4. CASE Reserving' = Reserving
      BY <2>1, <2>4
  <2> QED
      BY <1>3, <2>3, <2>4
<1>5. ASSUME ~miscounted
      PROVE  /\ pending_bytes' <= MAX_PENDING_BYTES
             /\ pending_bytes'
                  >= BytesOf(pending) + Cardinality(Reserving') + Cardinality(Owed)
  <2>1. pending_bytes + 1 \in 0..(USIZE - 1)
      BY <1>5, Balance, LimitsAssumption
  <2>2. pending_bytes' = pending_bytes + 1
      BY <2>1, NoWrap
  <2> QED
      BY <1>4, <1>5, <2>2, Balance, LimitsAssumption DEF Fits
<1>6. BytesOf(pending') = BytesOf(pending)
    OBVIOUS
<1> QED
    BY <1>3, <1>4, <1>5, <1>6 DEF Ledger

LEMMA FrameKeepsLedger ==
    ASSUME IInv, Purse, Ledger, NEW g \in Frame, FrameCheckConns(g) \/ FrameStep(g)
    PROVE  Purse' /\ Ledger'
<1> USE DEF maps, local, history
<1>0. g \in Handler /\ pending \in PendingEntry \cup {None}
    BY Disjoint DEF IInv, Types
<1>1. CASE FrameCheckConns(g) \/ FrameCheckClosed(g) \/ DataAgain(g) \/ FailTombstone(g)
  <2>1. /\ pc[g] \in {"coming", "check", "again", "tombstone"}
        /\ UNCHANGED <<pending, pending_bytes, victim, miscounted>>
      BY <1>1 DEF FrameCheckConns, FrameCheckClosed, DataAgain, FailTombstone
  <2>2. PICK l \in {"done", "check", "lookup", "coming"} : GoTo(g, l)
      BY <1>1 DEF FrameCheckConns, FrameCheckClosed, DataAgain, FailTombstone
  <2>3. BytesOf(pending') = BytesOf(pending)
      BY <2>1
  <2> QED
      BY <1>0, <2>1, <2>2, <2>3, SpendsNothing DEF Label
<1>2. CASE FrameLookup(g)
  <2>1. PICK l \in {"reserve_push", "push", "reserve_new", "new", "fail"} :
            GoTo(g, l) /\ (g \in Datas => l \notin {"push", "new"})
      BY <1>2 DEF FrameLookup
  <2>2. UNCHANGED <<pending, pending_bytes, victim, miscounted>> /\ pc[g] = "lookup"
      BY <1>2 DEF FrameLookup
  <2>3. BytesOf(pending') = BytesOf(pending)
      BY <2>2
  <2> QED
      BY <1>0, <2>1, <2>2, <2>3, SpendsNothing DEF Label
<1>3. CASE DataReserve(g)
  <2>1. pc[g] \in {"reserve_push", "reserve_new"} /\ UNCHANGED <<pending, victim, miscounted>>
      BY <1>3 DEF DataReserve
  <2>2. PICK next \in {"push", "new"} : try_reserve_pending(g, next)
      BY <1>3 DEF DataReserve
  <2>3. CASE Fits /\ pending_bytes' = (pending_bytes + 1) % USIZE /\ GoTo(g, next)
      BY <2>1, <2>3, Reserves
  <2>4. CASE UNCHANGED pending_bytes /\ GoTo(g, "fail")
    <3>1. BytesOf(pending') = BytesOf(pending)
        BY <2>1
    <3> QED
        BY <1>0, <2>1, <2>4, <3>1, SpendsNothing DEF Label
  <2> QED
      BY <2>2, <2>3, <2>4 DEF try_reserve_pending
<1>4. CASE FramePush(g)
  <2>1. /\ pc[g] = "push" /\ UNCHANGED <<victim, miscounted>> /\ pending \in PendingEntry
        /\ Size(g) \in Nat
      BY <1>0, <1>4 DEF FramePush, Size
  <2>2. CASE /\ pending' = [pending EXCEPT !.frames = @ \cup {g}, !.bytes = @ + Size(g)]
             /\ GoTo(g, "done") /\ UNCHANGED pending_bytes
    <3>1. pending' \in PendingEntry
        BY <2>1, <2>2, EntryExcept, Zenon
    <3>2. pending'.bytes = pending.bytes + Size(g)
        BY <2>1, <2>2 DEF PendingEntry
    <3>3. BytesOf(pending') = BytesOf(pending) + Size(g) /\ BytesOf(pending') \in Nat
        BY <2>1, <3>1, <3>2, BytesAreNat, NoneAssumption
    <3> QED
        BY <2>1, <2>2, <3>3, Settles, BytesAreNat DEF Label
  <2>3. CASE Refund(Size(g)) /\ GoTo(g, "fail") /\ UNCHANGED pending
    <3>1. BytesOf(pending') = BytesOf(pending)
        BY <2>3
    <3> QED
        BY <2>1, <2>3, <3>1, Settles DEF Label
  <2> QED
      BY <1>4, <2>2, <2>3 DEF FramePush
<1>5. CASE FrameVanished(g)
  <2>1. /\ pc[g] = "push" /\ UNCHANGED <<victim, miscounted, pending>> /\ Refund(Size(g))
      BY <1>5 DEF FrameVanished
  <2>2. PICK l \in {"again", "done"} : GoTo(g, l)
      BY <1>5 DEF FrameVanished
  <2>3. BytesOf(pending') = BytesOf(pending)
      BY <2>1
  <2> QED
      BY <2>1, <2>2, <2>3, Settles DEF Label
<1>6. CASE FrameInsert(g)
  <2>1. /\ pc[g] = "new" /\ UNCHANGED <<victim, miscounted, pending_bytes>>
        /\ GoTo(g, "done") /\ pending' = Entry({g}, Size(g), FALSE, None)
      BY <1>6 DEF FrameInsert
  <2>2. pending' \in PendingEntry
      BY <2>1, EntryIsPending DEF Size
  <2>3. BytesOf(pending') = Size(g) /\ Size(g) \in Nat
      BY <2>1, <2>2, NoneAssumption DEF BytesOf, Entry, Size
  <2>4. BytesOf(pending') <= BytesOf(pending) + Size(g)
      BY <1>0, <2>3, BytesAreNat
  <2> QED
      BY <2>1, <2>3, <2>4, Settles DEF Label
<1>7. CASE FailCancel(g)
  <2>1. /\ pc[g] = "fail" /\ UNCHANGED <<victim, miscounted, pending_bytes>>
        /\ GoTo(g, "tombstone")
        /\ pending' = IF pending = None THEN None
                      ELSE [pending EXCEPT !.cancelled = TRUE]
      BY <1>7 DEF FailCancel
  <2> QED
      BY <1>0, <2>1, CancelKeepsBytes, SpendsNothing DEF Label
<1> QED
    BY <1>1, <1>2, <1>3, <1>4, <1>5, <1>6, <1>7 DEF FrameStep

LEMMA RstKeepsLedger ==
    ASSUME IInv, Purse, Ledger, NEW r \in Rsts, RstRemoveConn(r) \/ RstStep(r)
    PROVE  Purse' /\ Ledger'
<1> USE DEF maps, local, history
<1>0. r \in Handler /\ r \notin Evicting /\ r \notin Datas
      /\ pending \in PendingEntry \cup {None}
    BY Disjoint DEF IInv, Types, Evicting
<1>1. UNCHANGED <<victim, miscounted, pending_bytes>>
    BY DEF RstRemoveConn, RstStep, RstCancelPending, RstTombstone
<1>2. PICK l \in {"tombstone", "cancel", "done"} : GoTo(r, l)
    BY DEF RstRemoveConn, RstStep, RstCancelPending, RstTombstone
<1>3. \/ UNCHANGED pending
      \/ pending' = IF pending = None THEN None
                    ELSE [pending EXCEPT !.cancelled = TRUE]
    BY DEF RstRemoveConn, RstStep, RstCancelPending, RstTombstone
<1>4. BytesOf(pending') = BytesOf(pending)
    BY <1>0, <1>3, CancelKeepsBytes
<1> QED
    BY <1>0, <1>1, <1>2, <1>4, SpendsNothing DEF Label

\* The moves of an eviction.
LEMMA EvictMoves ==
    ASSUME IInv, Purse, NEW e \in Evicting, NEW l \in Label, NEW v \in PendingEntry \cup {None},
           EvictTo(e, l, v), miscounted' \in BOOLEAN, pending_bytes' \in 0..(USIZE - 1),
           l \in {"evict", "refund"} => v \in PendingEntry,
           {pc[e], l} \cap {"push", "new"} = {}
    PROVE  /\ Purse' /\ UNCHANGED Reserving /\ pc'[e] = l /\ victim'[e] = v
           /\ \A x \in Evicting \ {e} : pc'[x] = pc[x] /\ victim'[x] = victim[x]
<1>1. /\ pc' \in [Handler -> Label] /\ pc'[e] = l
      /\ \A x \in Handler \ {e} : pc'[x] = pc[x]
    BY Goes, Disjoint DEF EvictTo, IInv
<1>2. /\ victim' \in [Evicting -> PendingEntry \cup {None}] /\ victim'[e] = v
      /\ \A x \in Evicting \ {e} : victim'[x] = victim[x]
    BY DEF EvictTo, Purse
<1>3. Purse'
    BY <1>1, <1>2, Disjoint DEF Purse
<1>4. Datas \subseteq Handler
    BY DEF Handler
<1>5. Reserving' = Reserving
    BY <1>1, <1>4 DEF Reserving
<1> QED
    BY <1>1, <1>2, <1>3, <1>5, Disjoint

\* An entry is removed and its size will be refunded.
LEMMA TakesOver ==
    ASSUME IInv, Purse, Ledger, NEW e \in Evicting, NEW v \in PendingEntry,
           EvictTo(e, "refund", v), pc[e] \notin {"refund", "push", "new"},
           pending \in PendingEntry, pending' = None,
           miscounted' = (miscounted \/ pending.bytes # v.bytes),
           UNCHANGED pending_bytes
    PROVE  Purse' /\ Ledger'
<1>1. miscounted' \in BOOLEAN
    BY DEF Purse
<1>2. /\ Purse' /\ UNCHANGED Reserving /\ pc'[e] = "refund" /\ victim'[e] = v
      /\ \A x \in Evicting \ {e} : pc'[x] = pc[x] /\ victim'[x] = victim[x]
    BY <1>1, EvictMoves DEF Purse, Label
<1>3. /\ Owed' = Owed \cup ({e} \X (1..v.bytes))
      /\ Owed \cap ({e} \X (1..v.bytes)) = {}
    BY <1>2, OwedStep
<1>4. BytesOf(pending') = 0 /\ BytesOf(pending) = pending.bytes /\ v.bytes \in Nat
    BY BytesAreNat, NoneAssumption DEF BytesOf, PendingEntry
<1>5. ASSUME ~miscounted'
      PROVE  /\ IsFiniteSet(Owed') /\ Cardinality(Owed') = Cardinality(Owed) + pending.bytes
             /\ ~miscounted
  <2>1. ~miscounted /\ pending.bytes = v.bytes
      BY <1>5
  <2>2. IsFiniteSet(Owed) /\ Cardinality(Owed) \in Nat
      BY <2>1, Balance
  <2>3. IsFiniteSet({e} \X (1..v.bytes)) /\ Cardinality({e} \X (1..v.bytes)) = v.bytes
      BY <1>4, Portion
  <2>4. Cardinality(Owed') = Cardinality(Owed) + v.bytes - 0 /\ IsFiniteSet(Owed')
      BY <1>3, <2>2, <2>3, FS_Union, FS_EmptySet
  <2> QED
      BY <1>4, <2>1, <2>2, <2>4
<1>6. ASSUME ~miscounted'
      PROVE  pending_bytes' >= 0 + Cardinality(Reserving) + Cardinality(Owed')
    BY <1>4, <1>5, <1>6, Balance
<1> QED
    BY <1>2, <1>4, <1>5, <1>6, Balance DEF Ledger

LEMMA EvictKeepsLedger ==
    ASSUME IInv, Purse, Ledger, NEW e \in Evicting,
           SweepRemove(e) \/ EvictRead(e) \/ EvictStep(e)
    PROVE  Purse' /\ Ledger'
<1> USE DEF maps, local, history
<1>0. /\ e \in Handler /\ pending \in PendingEntry \cup {None}
      /\ miscounted \in BOOLEAN /\ pending_bytes \in 0..(USIZE - 1)
    BY Disjoint DEF IInv, Types, Purse
<1>1. CASE SweepRemove(e)
  <2>1. pending \in PendingEntry /\ UNCHANGED miscounted
      BY <1>0, <1>1 DEF SweepRemove
  <2> QED
      BY <1>0, <1>1, <2>1, TakesOver DEF SweepRemove
<1>2. CASE EvictRead(e)
  <2>1. /\ pending \in PendingEntry /\ EvictTo(e, "evict", pending)
        /\ pc[e] \in {"coming", "reserve_new"}
        /\ UNCHANGED <<pending, pending_bytes, miscounted>>
      BY <1>0, <1>2 DEF EvictRead
  <2>2. /\ Purse' /\ UNCHANGED Reserving /\ pc'[e] = "evict"
        /\ \A x \in Evicting \ {e} : pc'[x] = pc[x] /\ victim'[x] = victim[x]
      BY <1>0, <2>1, EvictMoves DEF Label
  <2>3. UNCHANGED Owed
      BY <2>1, <2>2, OwedStep
  <2>4. BytesOf(pending') = BytesOf(pending)
      BY <2>1
  <2> QED
      BY <2>1, <2>2, <2>3, <2>4 DEF Ledger
<1>3. CASE EvictRemove(e) /\ pending # None
  <2>1. victim[e] \in PendingEntry /\ pc[e] = "evict" /\ pending \in PendingEntry
      BY <1>0, <1>3 DEF EvictRemove, Purse
  <2>2. miscounted' = (miscounted \/ pending.bytes # victim[e].bytes)
      BY <1>3 DEF EvictRemove
  <2> QED
      BY <1>3, <2>1, <2>2, TakesOver DEF EvictRemove
<1>4. CASE EvictRemove(e) /\ pending = None
  <2>1. /\ EvictTo(e, Resumed(e), None) /\ pc[e] = "evict"
        /\ UNCHANGED <<pending, pending_bytes, miscounted>>
      BY <1>0, <1>4 DEF EvictRemove
  <2>2. Resumed(e) \in {"coming", "reserve_new"}
      BY DEF Resumed
  <2>3. /\ Purse' /\ UNCHANGED Reserving /\ pc'[e] = Resumed(e)
        /\ \A x \in Evicting \ {e} : pc'[x] = pc[x] /\ victim'[x] = victim[x]
      BY <1>0, <2>1, <2>2, EvictMoves DEF Label
  <2>4. UNCHANGED Owed
      BY <2>1, <2>2, <2>3, OwedStep
  <2>5. BytesOf(pending') = BytesOf(pending)
      BY <2>1
  <2> QED
      BY <2>1, <2>3, <2>4, <2>5 DEF Ledger
<1>5. CASE EvictRefund(e)
  <2> DEFINE n == victim[e].bytes
  <2>1. /\ pc[e] = "refund" /\ EvictTo(e, "evicted", None) /\ Refund(n)
        /\ UNCHANGED <<pending, miscounted>>
      BY <1>5 DEF EvictRefund
  <2>2. n \in Nat
      BY <2>1 DEF Purse, PendingEntry
  <2>3. pending_bytes' \in 0..(USIZE - 1)
      BY <1>0, <2>1, <2>2, LimitsAssumption DEF Refund
  <2>4. /\ Purse' /\ UNCHANGED Reserving /\ pc'[e] = "evicted"
        /\ \A x \in Evicting \ {e} : pc'[x] = pc[x] /\ victim'[x] = victim[x]
      BY <1>0, <2>1, <2>3, EvictMoves DEF Label
  <2>5. Owed = Owed' \cup ({e} \X (1..n)) /\ Owed' \cap ({e} \X (1..n)) = {}
      BY <2>1, <2>4, OwedStep
  <2> HIDE DEF n
  <2>6. ASSUME ~miscounted
        PROVE  /\ IsFiniteSet(Owed') /\ Cardinality(Owed') \in Nat
               /\ Cardinality(Owed) = Cardinality(Owed') + n
    <3>1. IsFiniteSet(Owed) /\ Owed' \in SUBSET Owed
        BY <2>5, <2>6, Balance
    <3>2. IsFiniteSet(Owed') /\ Cardinality(Owed') \in Nat
        BY <3>1, FS_Subset, FS_CardinalityType
    <3>3. IsFiniteSet({e} \X (1..n)) /\ Cardinality({e} \X (1..n)) = n
        BY <2>2, Portion
    <3>4. Cardinality(Owed) = Cardinality(Owed') + n - 0
        BY <2>5, <3>2, <3>3, FS_Union, FS_EmptySet
    <3> QED
        BY <2>2, <3>2, <3>4
  <2>7. ASSUME ~miscounted
        PROVE  /\ pending_bytes' <= MAX_PENDING_BYTES
               /\ pending_bytes'
                    >= BytesOf(pending) + Cardinality(Reserving) + Cardinality(Owed')
    <3>1. pending_bytes - n \in 0..(USIZE - 1)
        BY <2>2, <2>6, <2>7, Balance, LimitsAssumption
    <3>2. pending_bytes' = pending_bytes - n
        BY <2>1, <3>1, NoWrap DEF Refund
    <3> QED
        BY <2>2, <2>6, <2>7, <3>2, Balance, LimitsAssumption
  <2>8. BytesOf(pending') = BytesOf(pending)
      BY <2>1
  <2> QED
      BY <2>1, <2>4, <2>6, <2>7, <2>8, Balance DEF Ledger
<1>6. CASE EvictTombstone(e)
  <2>1. /\ pc[e] = "evicted" /\ GoTo(e, Resumed(e))
        /\ UNCHANGED <<pending, pending_bytes, victim, miscounted>>
      BY <1>6 DEF EvictTombstone
  <2>2. Resumed(e) \in {"coming", "reserve_new"}
      BY DEF Resumed
  <2>3. BytesOf(pending') = BytesOf(pending)
      BY <2>1
  <2> QED
      BY <1>0, <2>1, <2>2, <2>3, SpendsNothing DEF Label
<1> QED
    BY <1>1, <1>2, <1>3, <1>4, <1>5, <1>6 DEF EvictStep

LEMMA LedgerHolds == Spec => [](Purse /\ Ledger)
<1>1. Init => Purse /\ Ledger
  <2> SUFFICES ASSUME Init PROVE Purse /\ Ledger
      OBVIOUS
  <2>1. Reserving = {} /\ Owed = {} /\ BytesOf(pending) = 0
      BY Disjoint, OwedPairs DEF Init, Reserving, Handler, BytesOf
  <2>2. Purse
    <3>1. /\ victim \in [Evicting -> PendingEntry \cup {None}]
          /\ \A e \in Evicting : pc[e] = "coming"
        BY Disjoint DEF Init
    <3>2. pending_bytes \in 0..(USIZE - 1)
        BY LimitsAssumption DEF Init
    <3>3. miscounted \in BOOLEAN
        BY DEF Init
    <3> QED
        BY <3>1, <3>2, <3>3 DEF Purse
  <2>3. Ledger
      BY <2>1, FS_EmptySet, LimitsAssumption DEF Init, Ledger
  <2> QED
      BY <2>2, <2>3
<1>2. ASSUME IInv, Purse, Ledger, [Next]_vars PROVE Purse' /\ Ledger'
  <2>1. CASE UNCHANGED vars
      BY <1>2, <2>1
         DEF vars, maps, local, history, Purse, Ledger, Reserving, Owed, BytesOf
  <2>2. ASSUME NEW h \in Syns, SynCheckConns(h) \/ SynStep(h) PROVE Purse' /\ Ledger'
      BY <1>2, <2>2, SynKeepsLedger
  <2>3. ASSUME NEW f \in Frame, FrameCheckConns(f) \/ FrameStep(f) PROVE Purse' /\ Ledger'
      BY <1>2, <2>3, FrameKeepsLedger
  <2>4. ASSUME NEW r \in Rsts, RstRemoveConn(r) \/ RstStep(r) PROVE Purse' /\ Ledger'
      BY <1>2, <2>4, RstKeepsLedger
  <2>5. ASSUME NEW e \in Evicting, SweepRemove(e) \/ EvictRead(e) \/ EvictStep(e)
        PROVE  Purse' /\ Ledger'
      BY <1>2, <2>5, EvictKeepsLedger
  <2> QED
      BY <1>2, <2>1, <2>2, <2>3, <2>4, <2>5 DEF Next
<1> QED
    BY <1>1, <1>2, IInvHolds, PTL DEF Spec

\* B32: try_reserve_pending keeps the budget, however many handlers reserve and
\* refund at once, as long as no eviction has refunded a size it read too early.
THEOREM BudgetIsRespected == Spec => []BudgetRespected
<1>1. Ledger => BudgetRespected
    BY DEF Ledger, BudgetRespected
<1> QED
    BY <1>1, LedgerHolds, PTL

\* BUG-7: under the same condition the counter covers what is buffered, reserved
\* and owed by evictions under way: no refund takes it below zero.
THEOREM BudgetIsCovered == Spec => []BudgetCovers
<1>1. Ledger => BudgetCovers
    BY DEF Ledger, BudgetCovers
<1> QED
    BY <1>1, LedgerHolds, PTL

------------------------------------------------------------------------------
(* The frames of an open connection arrive *)

\* On the way to a tombstone.
Ending == {"refuse", "abort", "refused", "aborted", "refused_tombstone",
           "aborted_tombstone", "reset", "torn", "teardown", "tombstone", "cancel",
           "refund", "evicted", "fail"}

\* The cid has a tombstone, or will have one.
Doomed == closed \/ \E h \in Handler : pc[h] \in Ending

\* The connection has been built, and if it is gone again the cid is doomed.
Settled == in_conns \/ Doomed

\* The handler has not built the connection yet.
Early == {"coming", "claim", "reserve", "check", "decode", "connect", "bind",
          "recheck", "insert"}

Stages ==
    /\ \A h \in Syns : pc[h] \in Early => ~in_conns /\ inbox = {}
    /\ \A h \in Syns : pc[h] \in {"take", "replay"} => Settled
    /\ \A h \in Syns : pc[h] = "drop" => closed
    /\ replay # {} => \E h \in Syns : pc[h] \in {"replay", "teardown"}

\* A frame that found an entry and then none has a settled cid, for whoever
\* removed the entry has built the connection or dooms it.
Found ==
    \A f \in Frame :
        (pc[f] = "again" \/ (pc[f] \in {"reserve_push", "push"} /\ pending = None))
            => Settled

\* A handled frame is somewhere.
Somewhere ==
    ~overwritten =>
        \A f \in Accepted : (pc[f] = "done" /\ f \notin vanished)
            => f \in inbox \cup replay \cup Waiting \/ Doomed

Arrival == Stages /\ Found /\ Somewhere

\* Once doomed always doomed, and once settled always settled.
LEMMA DoomStays ==
    ASSUME IInv, NEW g \in Handler, NEW l \in Label, GoTo(g, l), closed => closed',
           pc[g] \in Ending => (closed' \/ l \in Ending),
           in_conns => (in_conns' \/ l \in Ending)
    PROVE  /\ (Doomed => Doomed') /\ (Settled => Settled')
           /\ l \in Ending => Doomed'
<1>1. pc'[g] = l /\ \A h \in Handler \ {g} : pc'[h] = pc[h]
    BY Goes DEF IInv
<1>2. l \in Ending => Doomed'
    BY <1>1 DEF Doomed
<1>3. Doomed => Doomed'
  <2>1. CASE closed
      BY <2>1 DEF Doomed
  <2>2. ASSUME NEW h \in Handler, pc[h] \in Ending PROVE Doomed'
      BY <1>1, <2>2 DEF Doomed
  <2> QED
      BY <2>1, <2>2 DEF Doomed
<1> QED
    BY <1>2, <1>3 DEF Settled

\* What a step has to see to.
LEMMA Passes ==
    ASSUME \A h, k \in Syns : h = k, IInv, Arrival,
           NEW g \in Handler, NEW l \in Label, GoTo(g, l), closed => closed',
           pc[g] \in Ending => (closed' \/ l \in Ending),
           in_conns => (in_conns' \/ l \in Ending),
           g \in Syns => /\ l \in Early => pc[g] \in Early /\ UNCHANGED <<in_conns, inbox>>
                         /\ l \in {"take", "replay"} => Settled'
                         /\ l = "drop" => closed'
                         /\ replay' # {} => l \in {"replay", "teardown"},
           g \notin Syns => /\ in_conns' => in_conns
                            /\ inbox' = inbox \/ in_conns
                            /\ UNCHANGED replay,
           pending' = None => (pending = None \/ Settled'),
           g \in Frame =>
               /\ l \in {"reserve_push", "push"} => (pending' # None \/ pc[g] = "reserve_push")
               /\ l = "again" => Settled'
               /\ (l = "done" /\ g \in Accepted /\ g \notin vanished' /\ ~overwritten')
                      => (g \in inbox' \cup replay' \cup Waiting' \/ Doomed'),
           vanished \subseteq vanished', overwritten => overwritten',
           overwritten' \/ Doomed'
             \/ (inbox \cup replay \cup Waiting) \cap Accepted
                   \subseteq inbox' \cup replay' \cup Waiting'
    PROVE  Arrival'
<1>1. /\ pc'[g] = l /\ \A h \in Handler \ {g} : pc'[h] = pc[h]
      /\ proto' = proto
    BY Goes DEF IInv
<1>2. /\ (Doomed => Doomed') /\ (Settled => Settled')
      /\ l \in Ending => Doomed'
    BY DoomStays
<1>3. Stages'
  <2>1. CASE g \in Syns
    <3>1. \A h \in Syns : pc'[h] = l
        BY <1>1, <2>1
    <3> QED
        BY <1>2, <2>1, <3>1 DEF Stages, Arrival
  <2>2. CASE g \notin Syns
    <3>1. \A h \in Syns : pc'[h] = pc[h]
        BY <1>1, <2>2, Disjoint
    <3>2. \A h \in Syns : pc'[h] \in Early => ~in_conns' /\ inbox' = {}
        BY <2>2, <3>1 DEF Stages, Arrival
    <3>3. \A h \in Syns : pc'[h] \in {"take", "replay"} => Settled'
        BY <1>2, <3>1 DEF Stages, Arrival
    <3>4. \A h \in Syns : pc'[h] = "drop" => closed'
        BY <3>1 DEF Stages, Arrival
    <3>5. replay' # {} => \E h \in Syns : pc'[h] \in {"replay", "teardown"}
        BY <2>2, <3>1 DEF Stages, Arrival
    <3> QED
        BY <3>2, <3>3, <3>4, <3>5 DEF Stages
  <2> QED
      BY <2>1, <2>2
<1>4. Found'
  <2> SUFFICES ASSUME NEW f \in Frame,
                      pc'[f] = "again" \/ (pc'[f] \in {"reserve_push", "push"} /\ pending' = None)
               PROVE  Settled'
      BY DEF Found
  <2>0. /\ pc[f] = "again" => Settled
        /\ (pc[f] \in {"reserve_push", "push"} /\ pending = None) => Settled
      BY DEF Found, Arrival
  <2>1. CASE f # g
    <3>1. pc'[f] = pc[f]
        BY <1>1, <2>1, Disjoint
    <3> QED
        BY <1>2, <2>0, <3>1
  <2>2. CASE f = g
    <3>1. pc'[f] = l
        BY <1>1, <2>2
    <3> QED
        BY <1>2, <2>0, <2>2, <3>1
  <2> QED
      BY <2>1, <2>2
<1>5. Somewhere'
  <2> SUFFICES ASSUME ~overwritten', NEW f \in Accepted, pc'[f] = "done", f \notin vanished',
                      ~Doomed'
               PROVE  f \in inbox' \cup replay' \cup Waiting'
      BY <1>1 DEF Somewhere, Accepted
  <2>0. f \in Frame
      BY DEF Accepted, Frame
  <2>1. CASE f # g
      BY <1>1, <1>2, <2>0, <2>1, Disjoint DEF Somewhere, Arrival
  <2>2. CASE f = g /\ l = "done"
      BY <2>0, <2>2
  <2> QED
      BY <1>1, <2>1, <2>2
<1> QED
    BY <1>3, <1>4, <1>5 DEF Arrival

LEMMA SynKeepsArrival ==
    ASSUME \A h, k \in Syns : h = k, IInv, Arrival,
           NEW h \in Syns, SynCheckConns(h) \/ SynStep(h)
    PROVE  Arrival'
<1> USE DEF maps, local, history
<1>0. /\ h \in Handler /\ h \notin Frame
      /\ UNCHANGED <<vanished, overwritten>> /\ (closed => closed')
  <2>1. h \in Handler /\ h \notin Frame
      BY Disjoint
  <2>2. UNCHANGED <<vanished, overwritten>>
      BY DEF SynStep, SynCheckConns, SynClaim, SynReserve, SynCheckClosed, SynDecode,
             SynConnect, SynBind, SynRecheckClosed, SynInsertConn, SynTakePending,
             SynReplay, SynTeardown, SynDropPending, SynRelease, SynTombstone
  <2>3. closed' = closed \/ closed' = TRUE
      BY DEF SynStep, SynCheckConns, SynClaim, SynReserve, SynCheckClosed, SynDecode,
             SynConnect, SynBind, SynRecheckClosed, SynInsertConn, SynTakePending,
             SynReplay, SynTeardown, SynDropPending, SynRelease, SynTombstone
  <2> QED
      BY <2>1, <2>2, <2>3
<1>1. /\ pc[h] \notin {"replay", "teardown"} => replay = {}
      /\ pc[h] \in Early => ~in_conns /\ inbox = {}
      /\ pc[h] \in {"take", "replay"} => Settled
      /\ pc[h] = "drop" => closed
    BY DEF Arrival, Stages
\* Steps of the SYN handler that leave the frames where they are.
<1>2. ASSUME NEW l \in Label \ {"take", "replay"}, GoTo(h, l),
             UNCHANGED <<in_conns, inbox, replay>>, Waiting' = Waiting,
             pending' = None => pending = None,
             pc[h] \notin {"replay", "teardown"}, l \in Early => pc[h] \in Early,
             l = "drop" => closed', pc[h] \in Ending => (closed' \/ l \in Ending)
      PROVE  Arrival'
    BY <1>0, <1>1, <1>2, Passes
<1>3. UNCHANGED pending => Waiting' = Waiting
    BY DEF Waiting
<1>4. CASE SynCheckConns(h) \/ SynClaim(h) \/ SynDecode(h) \/ SynConnect(h) \/ SynBind(h)
  <2>1. PICK l \in {"done", "claim", "reserve", "connect", "bind", "refuse", "recheck",
                    "abort", "insert"} : GoTo(h, l)
      BY <1>4 DEF SynCheckConns, SynClaim, SynDecode, SynConnect, SynBind
  <2>2. /\ pc[h] \in {"coming", "claim", "decode", "connect", "bind"}
        /\ UNCHANGED <<in_conns, inbox, replay, pending>>
      BY <1>4 DEF SynCheckConns, SynClaim, SynDecode, SynConnect, SynBind
  <2> QED
      BY <1>2, <1>3, <2>1, <2>2 DEF Label, Early, Ending
<1>5. CASE SynCheckClosed(h) \/ SynRecheckClosed(h)
  <2>1. PICK l \in {"drop", "decode", "insert"} : GoTo(h, l) /\ (l = "drop" => closed)
      BY <1>5 DEF SynCheckClosed, SynRecheckClosed
  <2>2. /\ pc[h] \in {"check", "recheck"}
        /\ UNCHANGED <<in_conns, inbox, replay, pending, closed>>
      BY <1>5 DEF SynCheckClosed, SynRecheckClosed
  <2> QED
      BY <1>2, <1>3, <2>1, <2>2 DEF Label, Early, Ending
<1>6. CASE SynRelease(h)
  <2>1. PICK l \in {"done", "refused_tombstone", "aborted_tombstone"} :
            GoTo(h, l) /\ (pc[h] = "release" \/ l \in Ending)
      BY <1>6 DEF SynRelease, Ending
  <2>2. /\ pc[h] \in {"release", "refused", "aborted"}
        /\ UNCHANGED <<in_conns, inbox, replay, pending>>
      BY <1>6 DEF SynRelease
  <2> QED
      BY <1>2, <1>3, <2>1, <2>2 DEF Label, Early, Ending
<1>7. CASE SynTombstone(h)
  <2>1. PICK l \in {"release", "done"} : GoTo(h, l)
      BY <1>7 DEF SynTombstone
  <2>2. /\ pc[h] \in {"reset", "torn", "refused_tombstone", "aborted_tombstone"}
        /\ UNCHANGED <<in_conns, inbox, replay, pending>> /\ closed'
      BY <1>7 DEF SynTombstone
  <2> QED
      BY <1>2, <1>3, <2>1, <2>2 DEF Label, Early, Ending
<1>8. CASE SynReserve(h)
  <2>1. /\ pc[h] = "reserve" /\ GoTo(h, "check") /\ UNCHANGED <<in_conns, inbox, replay>>
      BY <1>8 DEF SynReserve
  <2>2. Waiting' = Waiting /\ pending' # None
    <3>1. CASE pending = None
      <4>1. /\ pending' = Entry({}, 0, FALSE, h) /\ Entry({}, 0, FALSE, h) \in PendingEntry
          BY <1>8, <3>1, EntryIsPending DEF SynReserve
      <4> QED
          BY <3>1, <4>1, NoneAssumption DEF Waiting, Entry
    <3>2. CASE pending # None
      <4>1. /\ pending \in PendingEntry /\ pending' = [pending EXCEPT !.cancel = h]
            /\ pending' \in PendingEntry
          BY <1>8, <3>2, EntryExcept DEF SynReserve, IInv, Types
      <4>2. pending'.frames = pending.frames
          BY <4>1 DEF PendingEntry
      <4> QED
          BY <3>2, <4>1, <4>2, NoneAssumption DEF Waiting
    <3> QED
        BY <3>1, <3>2
  <2> QED
      BY <1>2, <2>1, <2>2 DEF Label, Early, Ending
<1>9. CASE SynInsertConn(h)
  <2>1. /\ pc[h] = "insert" /\ GoTo(h, "take") /\ in_conns' /\ inbox' = {}
        /\ UNCHANGED <<pending, replay>>
      BY <1>9 DEF SynInsertConn
  <2>2. inbox = {} /\ replay = {} /\ Settled'
      BY <1>1, <2>1 DEF Early, Settled
  <2> QED
      BY <1>0, <1>3, <2>1, <2>2, Passes DEF Label, Early, Ending
<1>10. CASE SynTakePending(h)
  <2>1. /\ pc[h] = "take" /\ pending' = None /\ replay' = Waiting /\ UNCHANGED <<in_conns, inbox>>
      BY <1>10 DEF SynTakePending, remove_pending, Waiting
  <2>2. PICK l \in {"teardown", "replay"} : GoTo(h, l)
      BY <1>10 DEF SynTakePending
  <2>3. l \in Label /\ pc[h] \notin Ending /\ l \notin Early
      BY <2>1 DEF Label, Ending, Early
  <2>4. Settled'
      BY <1>0, <1>1, <2>1, <2>2, <2>3, DoomStays
  <2>5. replay = {}
      BY <1>1, <2>1
  <2> QED
      BY <1>0, <2>1, <2>2, <2>3, <2>4, <2>5, Passes
<1>11. CASE SynReplay(h)
  <2>1. pc[h] = "replay" /\ replay' = {} /\ UNCHANGED pending
      BY <1>11 DEF SynReplay
  <2>2. CASE /\ inbox' = IF in_conns THEN inbox \cup (replay \cap Accepted) ELSE inbox
             /\ GoTo(h, "release") /\ UNCHANGED in_conns
    <3>1. CASE in_conns
      <4>1. "release" \in Label /\ "release" \notin Early /\ pc[h] \notin Ending
          BY <2>1 DEF Label, Early, Ending
      <4>2. (inbox \cup replay \cup Waiting) \cap Accepted
              \subseteq inbox' \cup replay' \cup Waiting'
          BY <1>3, <2>1, <2>2, <3>1
      <4> QED
          BY <1>0, <2>1, <2>2, <3>1, <4>1, <4>2, Passes
    <3>2. CASE ~in_conns
      <4>1. Doomed
          BY <1>1, <2>1, <3>2 DEF Settled
      <4>2. "release" \in Label /\ "release" \notin Early /\ pc[h] \notin Ending
          BY <2>1 DEF Label, Early, Ending
      <4>3. Doomed'
          BY <1>0, <2>2, <4>1, <4>2, DoomStays
      <4> QED
          BY <1>0, <2>1, <2>2, <4>2, <4>3, Passes
    <3> QED
        BY <3>1, <3>2
  <2>3. CASE in_conns' = FALSE /\ GoTo(h, "reset") /\ UNCHANGED inbox
    <3>1. "reset" \in Label /\ "reset" \notin Early /\ "reset" \in Ending /\ pc[h] \notin Ending
        BY <2>1 DEF Label, Early, Ending
    <3>2. Doomed'
        BY <1>0, <2>3, <3>1, DoomStays
    <3> QED
        BY <1>0, <2>1, <2>3, <3>1, <3>2, Passes
  <2> QED
      BY <1>11, <2>2, <2>3 DEF SynReplay
<1>12. CASE SynTeardown(h)
  <2>1. /\ pc[h] = "teardown" /\ GoTo(h, "torn") /\ replay' = {} /\ in_conns' = FALSE
        /\ UNCHANGED <<inbox, pending>>
      BY <1>12 DEF SynTeardown
  <2>2. "torn" \in Label /\ "torn" \notin Early /\ "torn" \in Ending
      BY DEF Label, Early, Ending
  <2>3. Doomed'
      BY <1>0, <2>1, <2>2, DoomStays
  <2> QED
      BY <1>0, <2>1, <2>2, <2>3, Passes
<1>13. CASE SynDropPending(h)
  <2>1. /\ pc[h] \in {"drop", "refuse", "abort"} /\ UNCHANGED <<in_conns, inbox, replay, closed>>
      BY <1>13 DEF SynDropPending
  <2>2. PICK l \in {"release", "refused", "aborted"} :
            GoTo(h, l) /\ (pc[h] = "drop" \/ l \in Ending)
      BY <1>13 DEF SynDropPending, Ending
  <2>3. l \in Label /\ l \notin Early /\ l \notin {"take", "replay", "drop"} /\ replay = {}
        /\ (pc[h] \in Ending => l \in Ending)
      BY <1>1, <2>1, <2>2 DEF Label, Early, Ending
  <2>4. Doomed' /\ Settled'
    <3>1. closed \/ l \in Ending
        BY <1>1, <2>2
    <3> QED
        BY <1>0, <2>1, <2>2, <2>3, <3>1, DoomStays DEF Doomed, Settled
  <2> QED
      BY <1>0, <2>1, <2>2, <2>3, <2>4, Passes
<1> QED
    BY <1>4, <1>5, <1>6, <1>7, <1>8, <1>9, <1>10, <1>11, <1>12, <1>13 DEF SynStep

LEMMA FrameKeepsArrival ==
    ASSUME \A h, k \in Syns : h = k, IInv, Arrival,
           NEW f \in Frame, FrameCheckConns(f) \/ FrameStep(f)
    PROVE  Arrival'
<1> USE DEF maps, local, history
<1>0. /\ f \in Handler /\ f \notin Syns /\ pending \in PendingEntry \cup {None}
    BY Disjoint DEF IInv, Types
<1>1. UNCHANGED <<in_conns, replay>>
    BY DEF FrameCheckConns, FrameStep, FrameCheckClosed, FrameLookup, DataReserve,
           FramePush, FrameVanished, DataAgain, FrameInsert, FailCancel, FailTombstone
<1>2. UNCHANGED pending => Waiting' = Waiting
    BY DEF Waiting
<1>3. CASE FrameCheckConns(f)
  <2>1. pc[f] = "coming" /\ UNCHANGED <<pending, closed, vanished, overwritten>>
      BY <1>3 DEF FrameCheckConns
  <2>2. CASE in_conns /\ inbox' = inbox \cup ({f} \cap Accepted) /\ GoTo(f, "done")
      BY <1>0, <1>1, <1>2, <2>1, <2>2, Passes DEF Label, Ending
  <2>3. CASE GoTo(f, "check") /\ UNCHANGED inbox
      BY <1>0, <1>1, <1>2, <2>1, <2>3, Passes DEF Label, Ending
  <2> QED
      BY <1>3, <2>2, <2>3 DEF FrameCheckConns
<1>4. CASE FrameCheckClosed(f) \/ FrameLookup(f) \/ DataAgain(f) \/ DataReserve(f)
  <2>1. /\ pc[f] \in {"check", "lookup", "again", "reserve_push", "reserve_new"}
        /\ UNCHANGED <<inbox, pending, closed, vanished, overwritten>>
      BY <1>4 DEF FrameCheckClosed, FrameLookup, DataAgain, DataReserve
  <2>2. PICK l \in {"lookup", "done", "reserve_push", "push", "reserve_new", "new", "fail",
                    "coming"} :
            /\ GoTo(f, l)
            /\ l = "done" => closed \/ (pc[f] = "again" /\ ~in_conns)
            /\ l \in {"reserve_push", "push"} => (pending # None \/ pc[f] = "reserve_push")
    <3>1. CASE FrameCheckClosed(f)
        BY <3>1 DEF FrameCheckClosed
    <3>2. CASE FrameLookup(f)
        BY <3>2 DEF FrameLookup
    <3>3. CASE DataAgain(f)
        BY <3>3 DEF DataAgain
    <3>4. CASE DataReserve(f)
        BY <3>4 DEF DataReserve, try_reserve_pending
    <3> QED
        BY <1>4, <3>1, <3>2, <3>3, <3>4
  <2>3. l \in Label /\ pc[f] \notin Ending /\ l # "again"
      BY <2>1 DEF Label, Ending
  <2>4. l = "done" => Doomed'
    <3>1. l = "done" => Doomed
        BY <2>2 DEF Doomed, Arrival, Found, Settled
    <3> QED
        BY <1>0, <1>1, <2>1, <2>2, <2>3, <3>1, DoomStays
  <2> QED
      BY <1>0, <1>1, <1>2, <2>1, <2>2, <2>3, <2>4, Passes
<1>5. CASE FramePush(f)
  <2>1. /\ pc[f] = "push" /\ pending # None /\ UNCHANGED <<inbox, closed, vanished, overwritten>>
      BY <1>5 DEF FramePush
  <2>2. CASE /\ pending' = [pending EXCEPT !.frames = @ \cup {f}, !.bytes = @ + Size(f)]
             /\ GoTo(f, "done")
    <3>1. pending \in PendingEntry /\ Size(f) \in Nat
        BY <1>0, <2>1 DEF Size
    <3>2. pending' \in PendingEntry
        BY <2>2, <3>1, EntryExcept, Zenon
    <3>3. pending'.frames = pending.frames \cup {f}
        BY <2>2, <3>1 DEF PendingEntry
    <3>4. Waiting' = Waiting \cup {f} /\ pending' # None
        BY <2>1, <3>2, <3>3, NoneAssumption DEF Waiting
    <3> QED
        BY <1>0, <1>1, <2>1, <2>2, <3>4, Passes DEF Label, Ending
  <2>3. CASE GoTo(f, "fail") /\ UNCHANGED pending
      BY <1>0, <1>1, <1>2, <2>1, <2>3, Passes DEF Label, Ending
  <2> QED
      BY <1>5, <2>2, <2>3 DEF FramePush
<1>6. CASE FrameVanished(f)
  <2>1. /\ pc[f] = "push" /\ pending = None /\ UNCHANGED <<inbox, pending, closed, overwritten>>
        /\ vanished' = vanished \cup ({f} \cap Fins)
      BY <1>6 DEF FrameVanished
  <2>2. PICK l \in {"again", "done"} : GoTo(f, l) /\ (l = "done" => f \in Fins)
      BY <1>6 DEF FrameVanished, Frame
  <2>3. l \in Label /\ pc[f] \notin Ending
      BY <2>1 DEF Label, Ending
  <2>4. Settled
      BY <2>1 DEF Arrival, Found
  <2>5. Settled'
      BY <1>0, <1>1, <2>1, <2>2, <2>3, <2>4, DoomStays
  <2> QED
      BY <1>0, <1>1, <1>2, <2>1, <2>2, <2>3, <2>5, Passes
<1>7. CASE FrameInsert(f)
  <2>1. /\ pc[f] = "new" /\ UNCHANGED <<inbox, closed, vanished>> /\ GoTo(f, "done")
        /\ pending' = Entry({f}, Size(f), FALSE, None)
        /\ overwritten' = (overwritten \/ (pending # None /\ pending.frames # {}))
      BY <1>7 DEF FrameInsert
  <2>2. pending' \in PendingEntry
      BY <2>1, EntryIsPending DEF Size
  <2>3. Waiting' = {f} /\ pending' # None
      BY <2>1, <2>2, NoneAssumption DEF Waiting, Entry
  <2>4. overwritten' \/ Waiting = {}
      BY <2>1 DEF Waiting
  <2>5. overwritten => overwritten'
      BY <2>1
  <2> QED
      BY <1>0, <1>1, <2>1, <2>3, <2>4, <2>5, Passes DEF Label, Ending
<1>8. CASE FailCancel(f)
  <2>1. /\ pc[f] = "fail" /\ GoTo(f, "tombstone")
        /\ UNCHANGED <<inbox, closed, vanished, overwritten>>
        /\ pending' = IF pending = None THEN None
                      ELSE [pending EXCEPT !.cancelled = TRUE]
      BY <1>8 DEF FailCancel
  <2> QED
      BY <1>0, <1>1, <2>1, CancelKeepsFrames, Passes DEF Label, Ending
<1>9. CASE FailTombstone(f)
  <2>1. /\ pc[f] = "tombstone" /\ GoTo(f, "done") /\ closed'
        /\ UNCHANGED <<inbox, pending, vanished, overwritten>>
      BY <1>9 DEF FailTombstone
  <2>2. Doomed'
      BY <2>1 DEF Doomed
  <2> QED
      BY <1>0, <1>1, <1>2, <2>1, <2>2, Passes DEF Label, Ending
<1> QED
    BY <1>3, <1>4, <1>5, <1>6, <1>7, <1>8, <1>9 DEF FrameStep

LEMMA RstKeepsArrival ==
    ASSUME \A h, k \in Syns : h = k, IInv, Arrival,
           NEW r \in Rsts, RstRemoveConn(r) \/ RstStep(r)
    PROVE  Arrival'
<1> USE DEF maps, local, history
<1>0. /\ r \in Handler /\ r \notin Syns /\ r \notin Frame
      /\ pending \in PendingEntry \cup {None} /\ in_conns \in BOOLEAN
      /\ UNCHANGED <<inbox, replay, vanished, overwritten>>
  <2>1. /\ r \in Handler /\ r \notin Syns /\ r \notin Frame
        /\ pending \in PendingEntry \cup {None} /\ in_conns \in BOOLEAN
      BY Disjoint DEF IInv, Types
  <2> QED
      BY <2>1 DEF RstRemoveConn, RstStep, RstCancelPending, RstTombstone
<1>1. UNCHANGED pending => Waiting' = Waiting
    BY DEF Waiting
<1>2. CASE RstRemoveConn(r)
  <2>1. /\ pc[r] = "coming" /\ in_conns' = FALSE /\ UNCHANGED <<pending, closed>>
      BY <1>2 DEF RstRemoveConn
  <2>2. PICK l \in {"tombstone", "cancel"} : GoTo(r, l)
      BY <1>2 DEF RstRemoveConn
  <2> QED
      BY <1>0, <1>1, <2>1, <2>2, Passes DEF Label, Ending
<1>3. CASE RstCancelPending(r)
  <2>1. /\ pc[r] = "cancel" /\ UNCHANGED <<in_conns, closed>> /\ GoTo(r, "tombstone")
        /\ pending' = IF pending = None THEN None
                      ELSE [pending EXCEPT !.cancelled = TRUE]
      BY <1>3 DEF RstCancelPending
  <2> QED
      BY <1>0, <2>1, CancelKeepsFrames, Passes DEF Label, Ending
<1>4. CASE RstTombstone(r)
  <2>1. /\ pc[r] = "tombstone" /\ UNCHANGED <<in_conns, pending>> /\ GoTo(r, "done") /\ closed'
      BY <1>4 DEF RstTombstone
  <2> QED
      BY <1>0, <1>1, <2>1, Passes DEF Label, Ending
<1> QED
    BY <1>2, <1>3, <1>4 DEF RstStep

LEMMA EvictKeepsArrival ==
    ASSUME \A h, k \in Syns : h = k, IInv, Arrival,
           NEW e \in Evicting, SweepRemove(e) \/ EvictRead(e) \/ EvictStep(e)
    PROVE  Arrival'
<1> USE DEF maps, local, history
<1>0. /\ e \in Handler /\ e \notin Syns
      /\ UNCHANGED <<in_conns, inbox, replay, vanished, overwritten>>
  <2>1. e \in Handler /\ e \notin Syns
      BY Disjoint
  <2> QED
      BY <2>1 DEF SweepRemove, EvictRead, EvictStep, EvictRemove, EvictRefund, EvictTombstone
<1>1. UNCHANGED pending => Waiting' = Waiting
    BY DEF Waiting
<1>2. CASE SweepRemove(e) \/ (EvictRemove(e) /\ pending # None)
  <2>1. /\ pc[e] \in {"coming", "evict"} /\ GoTo(e, "refund") /\ UNCHANGED closed
      BY <1>2 DEF SweepRemove, EvictRemove, EvictTo
  <2>2. "refund" \in Label /\ "refund" \in Ending /\ pc[e] \notin Ending
      BY <2>1 DEF Label, Ending
  <2>3. Doomed' /\ Settled'
      BY <1>0, <2>1, <2>2, DoomStays DEF Settled
  <2> QED
      BY <1>0, <2>1, <2>2, <2>3, Passes
<1>3. CASE EvictRead(e) \/ (EvictRemove(e) /\ pending = None)
  <2>1. /\ pc[e] \in {"coming", "reserve_new", "evict"} /\ UNCHANGED <<pending, closed>>
      BY <1>3 DEF EvictRead, EvictRemove
  <2>2. PICK l \in {"evict", "coming", "reserve_new"} : GoTo(e, l)
      BY <1>3 DEF EvictRead, EvictRemove, EvictTo, Resumed
  <2> QED
      BY <1>0, <1>1, <2>1, <2>2, Passes DEF Label, Ending
<1>4. CASE EvictRefund(e)
  <2>1. /\ pc[e] = "refund" /\ UNCHANGED <<pending, closed>> /\ GoTo(e, "evicted")
      BY <1>4 DEF EvictRefund, EvictTo
  <2> QED
      BY <1>0, <1>1, <2>1, Passes DEF Label, Ending
<1>5. CASE EvictTombstone(e)
  <2>1. /\ pc[e] = "evicted" /\ UNCHANGED pending /\ closed'
      BY <1>5 DEF EvictTombstone
  <2>2. PICK l \in {"coming", "reserve_new"} : GoTo(e, l)
      BY <1>5 DEF EvictTombstone, Resumed
  <2> QED
      BY <1>0, <1>1, <2>1, <2>2, Passes DEF Label, Ending
<1> QED
    BY <1>2, <1>3, <1>4, <1>5 DEF EvictStep

\* B27/BUG-1: with one SYN, every handled frame of an open connection is in its
\* inbox once nothing waits, however lookups, pushes, the drain and the insert
\* interleave; an overwritten entry and a FIN whose entry vanished excepted.  A
\* duplicate SYN that gets through replaces the connection and its inbox
\* (NoSecondConnection), hence the hypothesis.
THEOREM FramesDoArrive == (\A h, k \in Syns : h = k) => (Spec => []FramesArrive)
<1> SUFFICES ASSUME \A h, k \in Syns : h = k PROVE Spec => []FramesArrive
    OBVIOUS
<1>1. Init => Arrival
  <2> SUFFICES ASSUME Init PROVE Arrival
      OBVIOUS
  <2>1. \A h \in Handler : pc[h] = "coming"
      BY DEF Init
  <2>2. Accepted \subseteq Frame
      BY DEF Accepted, Frame
  <2> QED
      BY <2>1, <2>2, Disjoint DEF Init, Arrival, Stages, Found, Somewhere
<1>2. ASSUME IInv, Arrival, [Next]_vars PROVE Arrival'
  <2>1. CASE UNCHANGED vars
      BY <1>2, <2>1 DEF vars, maps, local, history, Arrival, Stages, Found, Somewhere,
         Settled, Doomed, Waiting, Accepted
  <2>2. ASSUME NEW h \in Syns, SynCheckConns(h) \/ SynStep(h) PROVE Arrival'
      BY <1>2, <2>2, SynKeepsArrival
  <2>3. ASSUME NEW f \in Frame, FrameCheckConns(f) \/ FrameStep(f) PROVE Arrival'
      BY <1>2, <2>3, FrameKeepsArrival
  <2>4. ASSUME NEW r \in Rsts, RstRemoveConn(r) \/ RstStep(r) PROVE Arrival'
      BY <1>2, <2>4, RstKeepsArrival
  <2>5. ASSUME NEW e \in Evicting, SweepRemove(e) \/ EvictRead(e) \/ EvictStep(e)
        PROVE  Arrival'
      BY <1>2, <2>5, EvictKeepsArrival
  <2> QED
      BY <1>2, <2>1, <2>2, <2>3, <2>4, <2>5 DEF Next
<1>3. Arrival => FramesArrive
  <2> SUFFICES ASSUME Arrival, Quiet, in_conns, ~closed, ~overwritten, pending = None,
                      NEW f \in Accepted, pc[f] = "done", f \notin vanished
               PROVE  f \in inbox
      BY DEF FramesArrive
  <2>1. ~Doomed
      BY DEF Doomed, Quiet, Ending
  <2>2. replay = {} /\ Waiting = {}
      BY Disjoint DEF Arrival, Stages, Quiet, Waiting
  <2> QED
      BY <2>1, <2>2 DEF Arrival, Somewhere
<1> QED
    BY <1>1, <1>2, <1>3, IInvHolds, PTL DEF Spec

------------------------------------------------------------------------------
(* The shape of the state *)

\* The rest of TypeOK, the entry's frames aside.
Flags ==
    /\ rst_sent \in BOOLEAN /\ overwritten \in BOOLEAN
    /\ inbox \subseteq Accepted /\ replay \subseteq Frame /\ vanished \subseteq Fins
    /\ handshaking \in Syns \cup {None}
    /\ cancelled \in [Syns -> BOOLEAN]

\* The entry's queue is within its cap, and can be counted.
Capped ==
    pending # None =>
        /\ IsFiniteSet(pending.frames)
        /\ Cardinality(pending.frames) <= MAX_PENDING_FRAMES_PER_CID

LEMMA CancelIsFlag ==
    ASSUME NEW entry, NotifyCancel(entry)
    PROVE  cancelled' \in [Syns -> BOOLEAN]
<1>1. [h \in Syns |-> cancelled[h] \/ (entry # None /\ entry.cancel = h)]
         \in [Syns -> BOOLEAN]
    BY Zenon
<1> QED
    BY <1>1 DEF NotifyCancel

LEMMA NextFlags == IInv /\ Flags /\ [Next]_vars => Flags'
<1> SUFFICES ASSUME IInv, Flags, [Next]_vars PROVE Flags'
    OBVIOUS
<1> USE DEF maps, local, history, GoTo, Accepted
<1>0. pending \in PendingEntry \cup {None} /\ Frame = Datas \cup Fins
    BY DEF IInv, Types, Frame
<1>1. CASE UNCHANGED <<proto, maps, local, history>>
    BY <1>1 DEF Flags
<1>2. ASSUME NEW h \in Syns, SynCheckConns(h) \/ SynStep(h) PROVE Flags'
  <2>1. CASE SynCheckConns(h) \/ SynCheckClosed(h) \/ SynDecode(h) \/ SynBind(h)
             \/ SynRecheckClosed(h)
      BY <1>1, <2>1 DEF SynCheckConns, SynCheckClosed, SynDecode, SynBind,
                        SynRecheckClosed
  <2>2. CASE SynClaim(h)
      BY <2>2 DEF SynClaim, Flags
  <2>3. CASE SynReserve(h)
      BY <2>3 DEF SynReserve, Flags
  <2>4. CASE SynConnect(h)
      BY <2>4 DEF SynConnect, Flags
  <2>5. CASE SynInsertConn(h)
      BY <2>5 DEF SynInsertConn, Flags
  <2>6. CASE SynTakePending(h)
    <3>1. replay' \subseteq Frame
        BY <1>0, <2>6 DEF SynTakePending, PendingEntry
    <3> QED
        BY <2>6, <3>1 DEF SynTakePending, Flags
  <2>7. CASE SynReplay(h)
      BY <2>7 DEF SynReplay, Flags
  <2>8. CASE SynTeardown(h) \/ SynDropPending(h) \/ SynRelease(h)
      BY <2>8 DEF SynTeardown, SynDropPending, SynRelease, Flags
  <2>9. CASE SynTombstone(h)
    <3>1. rst_sent' \in BOOLEAN
        BY <2>9 DEF SynTombstone
    <3> QED
        BY <2>9, <3>1 DEF SynTombstone, Flags
  <2> QED
      BY <1>2, <2>1, <2>2, <2>3, <2>4, <2>5, <2>6, <2>7, <2>8, <2>9 DEF SynStep
<1>3. ASSUME NEW f \in Frame, FrameCheckConns(f) \/ FrameStep(f) PROVE Flags'
  <2>1. CASE FrameCheckConns(f)
      BY <2>1 DEF FrameCheckConns, Flags
  <2>2. CASE FrameCheckClosed(f)
    <3>1. rst_sent' \in BOOLEAN
        BY <2>2 DEF FrameCheckClosed
    <3> QED
        BY <2>2, <3>1 DEF FrameCheckClosed, Flags
  <2>3. CASE FrameLookup(f) \/ DataAgain(f)
      BY <1>1, <2>3 DEF FrameLookup, DataAgain
  <2>4. CASE DataReserve(f) \/ FramePush(f)
    <3>1. UNCHANGED <<proto, inbox, handshaking, local, history>>
        BY <2>4 DEF DataReserve, FramePush, try_reserve_pending
    <3> QED
        BY <3>1 DEF Flags
  <2>5. CASE FrameVanished(f)
      BY <2>5 DEF FrameVanished, Flags
  <2>6. CASE FrameInsert(f)
    <3>1. overwritten' \in BOOLEAN
        BY <2>6 DEF FrameInsert
    <3> QED
        BY <2>6, <3>1 DEF FrameInsert, Flags
  <2>7. CASE FailCancel(f)
    <3>1. cancelled' \in [Syns -> BOOLEAN]
        BY <2>7, CancelIsFlag DEF FailCancel
    <3> QED
        BY <2>7, <3>1 DEF FailCancel, Flags
  <2>8. CASE FailTombstone(f)
      BY <2>8 DEF FailTombstone, Flags
  <2> QED
      BY <1>3, <2>1, <2>2, <2>3, <2>4, <2>5, <2>6, <2>7, <2>8 DEF FrameStep
<1>4. ASSUME NEW r \in Rsts, RstRemoveConn(r) \/ RstStep(r) PROVE Flags'
  <2>1. CASE RstRemoveConn(r) \/ RstTombstone(r)
      BY <2>1 DEF RstRemoveConn, RstTombstone, Flags
  <2>2. CASE RstCancelPending(r)
    <3>1. cancelled' \in [Syns -> BOOLEAN]
        BY <2>2, CancelIsFlag DEF RstCancelPending
    <3> QED
        BY <2>2, <3>1 DEF RstCancelPending, Flags
  <2> QED
      BY <1>4, <2>1, <2>2 DEF RstStep
<1>5. ASSUME NEW e \in Evicting, SweepRemove(e) \/ EvictRead(e) \/ EvictStep(e)
      PROVE  Flags'
  <2>1. CASE SweepRemove(e) \/ EvictRead(e) \/ EvictRemove(e)
    <3>1. UNCHANGED <<proto, inbox, handshaking, cancelled, replay, rst_sent,
                      overwritten, vanished>>
        BY <2>1 DEF SweepRemove, EvictRead, EvictRemove, EvictTo
    <3> QED
        BY <3>1 DEF Flags
  <2>2. CASE EvictRefund(e)
    <3>1. cancelled' \in [Syns -> BOOLEAN]
        BY <2>2, CancelIsFlag DEF EvictRefund
    <3> QED
        BY <2>2, <3>1 DEF EvictRefund, EvictTo, Flags
  <2>3. CASE EvictTombstone(e)
      BY <2>3 DEF EvictTombstone, Flags
  <2> QED
      BY <1>5, <2>1, <2>2, <2>3 DEF EvictStep
<1>6. CASE UNCHANGED vars
    BY <1>1, <1>6 DEF vars
<1> QED
    BY <1>2, <1>3, <1>4, <1>5, <1>6 DEF Next

\* An entry is created with one frame at most, and grows only below the cap.
LEMMA NextCapped == IInv /\ Capped /\ [Next]_vars => Capped'
<1> SUFFICES ASSUME IInv, Capped, [Next]_vars PROVE Capped'
    OBVIOUS
<1> USE DEF maps, local, history
<1>0. /\ pending \in PendingEntry \cup {None}
      /\ MAX_PENDING_FRAMES_PER_CID \in Nat \ {0}
    BY LimitsAssumption DEF IInv, Types
<1>1. CASE UNCHANGED pending
    BY <1>1 DEF Capped
<1>2. CASE pending' = None
    BY <1>2 DEF Capped
<1>3. CASE pending # None /\ pending'.frames = pending.frames
    BY <1>3 DEF Capped
<1>4. ASSUME NEW h \in Syns, SynCheckConns(h) \/ SynStep(h) PROVE Capped'
  <2>1. CASE SynReserve(h)
    <3>1. CASE pending = None
      <4>1. pending'.frames = {}
          BY <2>1, <3>1 DEF SynReserve, Entry
      <4> QED
          BY <1>0, <4>1, FS_EmptySet DEF Capped
    <3>2. CASE pending # None
      <4>1. pending'.frames = pending.frames
          BY <1>0, <2>1, <3>2 DEF SynReserve, PendingEntry
      <4> QED
          BY <1>3, <3>2, <4>1
    <3> QED
        BY <3>1, <3>2
  <2>2. CASE SynTakePending(h) \/ SynDropPending(h)
      BY <1>2, <2>2 DEF SynTakePending, SynDropPending, remove_pending
  <2>3. CASE ~SynReserve(h) /\ ~SynTakePending(h) /\ ~SynDropPending(h)
    <3>1. UNCHANGED pending
        BY <1>4, <2>3 DEF SynCheckConns, SynStep, SynClaim, SynCheckClosed, SynDecode,
              SynConnect, SynBind, SynRecheckClosed, SynInsertConn, SynReplay,
              SynTeardown, SynRelease, SynTombstone
    <3> QED
        BY <1>1, <3>1
  <2> QED
      BY <2>1, <2>2, <2>3
<1>5. ASSUME NEW f \in Frame, FrameCheckConns(f) \/ FrameStep(f) PROVE Capped'
  <2>1. CASE FramePush(f)
    <3>1. CASE UNCHANGED pending
        BY <1>1, <3>1
    <3>2. CASE /\ Cardinality(pending.frames) < MAX_PENDING_FRAMES_PER_CID
               /\ pending' = [pending EXCEPT !.frames = @ \cup {f},
                                             !.bytes = @ + Size(f)]
      <4>1. pending # None /\ pending \in PendingEntry
          BY <1>0, <2>1 DEF FramePush
      <4>2. pending'.frames = pending.frames \cup {f}
          BY <3>2, <4>1 DEF PendingEntry
      <4>3. IsFiniteSet(pending.frames) /\ Cardinality(pending.frames) \in Nat
          BY <4>1, FS_CardinalityType DEF Capped
      <4>4. /\ IsFiniteSet(pending.frames \cup {f})
            /\ \/ Cardinality(pending.frames \cup {f}) = Cardinality(pending.frames)
               \/ Cardinality(pending.frames \cup {f}) = Cardinality(pending.frames) + 1
          BY <4>3, FS_AddElement
      <4> QED
          BY <1>0, <3>2, <4>2, <4>3, <4>4 DEF Capped
    <3> QED
        BY <2>1, <3>1, <3>2 DEF FramePush
  <2>2. CASE FrameInsert(f)
    <3>1. pending'.frames = {f}
        BY <2>2 DEF FrameInsert, Entry
    <3> QED
        BY <1>0, <3>1, FS_Singleton DEF Capped
  <2>3. CASE FailCancel(f)
    <3>1. pending = None => pending' = None
        BY <2>3 DEF FailCancel
    <3>2. pending # None => pending'.frames = pending.frames
        BY <1>0, <2>3 DEF FailCancel, PendingEntry
    <3> QED
        BY <1>2, <1>3, <3>1, <3>2
  <2>4. CASE ~FramePush(f) /\ ~FrameInsert(f) /\ ~FailCancel(f)
    <3>1. UNCHANGED pending
        BY <1>5, <2>4 DEF FrameCheckConns, FrameStep, FrameCheckClosed, FrameLookup,
              DataReserve, FrameVanished, DataAgain, FailTombstone
    <3> QED
        BY <1>1, <3>1
  <2> QED
      BY <2>1, <2>2, <2>3, <2>4
<1>6. ASSUME NEW r \in Rsts, RstRemoveConn(r) \/ RstStep(r) PROVE Capped'
  <2>1. CASE RstCancelPending(r)
    <3>1. pending = None => pending' = None
        BY <2>1 DEF RstCancelPending
    <3>2. pending # None => pending'.frames = pending.frames
        BY <1>0, <2>1 DEF RstCancelPending, PendingEntry
    <3> QED
        BY <1>2, <1>3, <3>1, <3>2
  <2>2. CASE RstRemoveConn(r) \/ RstTombstone(r)
      BY <1>1, <2>2 DEF RstRemoveConn, RstTombstone
  <2> QED
      BY <1>6, <2>1, <2>2 DEF RstStep
<1>7. ASSUME NEW e \in Evicting, SweepRemove(e) \/ EvictRead(e) \/ EvictStep(e)
      PROVE  Capped'
  <2>1. UNCHANGED pending \/ pending' = None
      BY <1>7 DEF SweepRemove, EvictRead, EvictStep, EvictRemove, EvictRefund,
                  EvictTombstone
  <2> QED
      BY <1>1, <1>2, <2>1
<1>8. CASE UNCHANGED vars
    BY <1>1, <1>8 DEF vars
<1> QED
    BY <1>4, <1>5, <1>6, <1>7, <1>8 DEF Next

\* The state keeps its shape; no entry holds more frames than its cap, although
\* lookup, reservation and push are steps apart.
THEOREM TypeCorrect == Spec => []TypeOK
<1>1. Init => Flags /\ Capped
    BY DEF Init, Flags, Capped
<1>2. IInv /\ Purse /\ Flags /\ Capped => TypeOK
    BY DEF IInv, Types, Purse, Flags, Capped, TypeOK
<1> QED
    BY <1>1, <1>2, IInvHolds, LedgerHolds, NextFlags, NextCapped, PTL DEF Spec

==============================================================================
