---------------------------- MODULE HalfCloseProofs ----------------------------
(***************************************************************************)
(* Proofs about an established connection of the reassembler, for every    *)
(* number of DATA frames, of copies of the FIN, and every capacity of the  *)
(* egress channel.                                                         *)
(***************************************************************************)
EXTENDS HalfClose, DeliveryLemmas

------------------------------------------------------------------------------
(* What the reorder buffer hands on *)

LEMMA ReadyLenExists ==
    ASSUME NEW p \in SUBSET Seqs, NEW lo \in 1..(N + 1)
    PROVE  /\ ReadyLen(p, lo) \in 0..N
           /\ IsReadyLen(p, lo, ReadyLen(p, lo))
<1>1. \E k \in 0..N : IsReadyLen(p, lo, k)
    BY GapExists, NAssumption DEF Seqs
<1> QED
    BY <1>1 DEF ReadyLen, IsReadyLen

LEMMA ReadyLenUnique ==
    ASSUME NEW p \in SUBSET Seqs, NEW lo \in 1..(N + 1), NEW k \in 0..N,
           IsReadyLen(p, lo, k)
    PROVE  ReadyLen(p, lo) = k
<1>1. ReadyLen(p, lo) \in Nat /\ IsReadyLen(p, lo, ReadyLen(p, lo))
    BY ReadyLenExists, NAssumption
<1>2. lo \in Nat /\ k \in Nat
    BY NAssumption
<1> QED
    BY <1>1, <1>2, GapUnique

\* What push hands on: the seqs from Expected up to the next gap.
LEMMA RunFacts ==
    ASSUME pushed \in SUBSET Seqs, NEW s \in Seqs
    PROVE  /\ Expected \in 1..(N + 1)
           /\ Run(s) \in Seq(Seqs)
           /\ Len(Run(s)) = ReadyLen(pushed \cup {s}, Expected)
           /\ \A i \in 1..Len(Run(s)) : Run(s)[i] = Expected + i - 1
           /\ IsReadyLen(pushed \cup {s}, Expected, Len(Run(s)))
<1> DEFINE q == pushed \cup {s}
           r == ReadyLen(q, Expected)
<1>1. ReadyLen(pushed, 1) \in 0..N
    BY ReadyLenExists, NAssumption
<1>2. Expected \in 1..(N + 1)
    BY <1>1, NAssumption DEF Expected
<1>3. q \in SUBSET Seqs
    OBVIOUS
<1>4. r \in 0..N /\ IsReadyLen(q, Expected, r)
    BY <1>2, <1>3, ReadyLenExists
<1>5. Run(s) = [i \in 1..r |-> Expected + i - 1]
    BY DEF Run
<1> HIDE DEF q, r
<1>6. ASSUME NEW i \in 1..r PROVE Expected + i - 1 \in Seqs
  <2>1. Expected + i - 1 \in Expected..(Expected + r - 1)
      BY <1>2, <1>4, NAssumption
  <2> QED
      BY <1>3, <1>4, <2>1 DEF IsReadyLen
<1>7. Run(s) \in [1..r -> Seqs]
    BY <1>5, <1>6
<1>8. Run(s) \in Seq(Seqs) /\ Len(Run(s)) = r
  <2>1. r \in Nat
      BY <1>4, NAssumption
  <2>2. Run(s) \in Seq(Seqs)
      BY <1>7, <2>1, SeqDef
  <2> QED
      BY <1>7, <2>1, <2>2, LenProperties
<1> QED
    BY <1>2, <1>4, <1>5, <1>8 DEF q, r

------------------------------------------------------------------------------
(* The shape of the state and the reorder lock *)

Label == {"coming", "push", "deliver", "test", "cas", "eval", "rollback",
          "commit", "finish", "fail", "swap", "store", "done"}

TReorder == pushed \in SUBSET Seqs /\ ready \in Seq(Seqs)
TConn ==
    /\ fin_received \in BOOLEAN /\ egress_eof \in BOOLEAN
    /\ fin_seq \in {0, N + 1} /\ half_close_state \in {0, 1, 2}
TPermits == half_close \in BOOLEAN /\ cancel \in BOOLEAN /\ cancel_writer \in BOOLEAN
TWriter ==
    /\ chan \in Seq(Seqs) /\ Len(chan) <= EGRESS_CHANNEL_CAP
    /\ wpc \in {"select", "write", "drain", "shutdown", "closed"}
    /\ chunk \in 0..N /\ (wpc = "write" <=> chunk # 0)
    /\ target \in Seq(Seqs)
    /\ eof \in {"none", "cancel", "error", "half_close", "dropped"}
    /\ (eof = "none" <=> wpc \in {"select", "write", "drain"})
THistory == forced \in BOOLEAN /\ early \in BOOLEAN /\ broken \in BOOLEAN
TTasks ==
    /\ in_conns \in BOOLEAN
    /\ timer \in {"off", "armed", "fired"}
    /\ rpc \in {"read", "fin", "finish", "reset", "done"}
TPc == pc \in [Handler -> Label]

Types == TPc /\ TReorder /\ TConn /\ TPermits /\ TWriter /\ THistory /\ TTasks

\* Who delivers holds the reorder lock: one handler at a time, which has
\* chunks left; and no handler on its way to push has pushed its frame yet.
Lock ==
    /\ \A g, h \in Handler : (pc[g] = "deliver" /\ pc[h] = "deliver") => g = h
    /\ \A h \in Handler : pc[h] = "deliver" => ready # <<>>
    /\ \A s \in Seqs : pc[s] \in {"coming", "push"} => s \notin pushed

Shape == Types /\ Lock

LEMMA ShapeImpliesTypeOK == Shape => TypeOK
BY DEF Shape, Types, TPc, TReorder, TConn, TPermits, TWriter, THistory, TTasks,
       TypeOK, Label

LEMMA Goes ==
    ASSUME TPc, NEW h \in Handler, NEW l \in Label, GoTo(h, l)
    PROVE  /\ TPc'
           /\ pc'[h] = l
           /\ \A g \in Handler \ {h} : pc'[g] = pc[g]
BY DEF GoTo, TPc

LEMMA MovesOn ==
    ASSUME Shape, NEW h \in Handler, NEW l \in Label, GoTo(h, l), UNCHANGED reorder,
           l \notin {"coming", "deliver"},
           (l = "push" /\ h \in Seqs) => h \notin pushed
    PROVE  TPc' /\ TReorder' /\ Lock'
<1>1. TPc' /\ pc'[h] = l /\ \A g \in Handler \ {h} : pc'[g] = pc[g]
    BY Goes DEF Shape, Types
<1>2. Lock'
    BY <1>1 DEF Shape, Lock, reorder, Handler
<1> QED
    BY <1>1, <1>2 DEF Shape, Types, TReorder, reorder

\* What a step leaves alone keeps its shape.
LEMMA Kept ==
    ASSUME Shape
    PROVE  /\ UNCHANGED reorder => TReorder'
           /\ UNCHANGED connVars => TConn'
           /\ UNCHANGED permits => TPermits'
           /\ UNCHANGED writer => TWriter'
           /\ UNCHANGED history => THistory'
           /\ UNCHANGED <<in_conns, timer, rpc>> => TTasks'
           /\ UNCHANGED <<pc, reorder>> => TPc' /\ Lock'
BY DEF Shape, Types, TPc, TReorder, TConn, TPermits, TWriter, THistory, TTasks, Lock,
       reorder, connVars, permits, writer, history

LEMMA ShapeHolds == Spec => []Shape
<1>1. Init => Shape
  <2> SUFFICES ASSUME Init PROVE Shape
      OBVIOUS
  <2>1. TPc /\ TReorder
      BY EmptySeq DEF Init, TPc, TReorder, Label
  <2>2. TConn /\ TPermits /\ THistory /\ TTasks
      BY DEF Init, TConn, TPermits, THistory, TTasks
  <2>3. TWriter
      BY NAssumption, CapAssumption, EmptySeq DEF Init, TWriter
  <2>4. Lock
      BY DEF Init, Lock, Handler
  <2> QED
      BY <2>1, <2>2, <2>3, <2>4 DEF Shape, Types
<1>2. ASSUME Shape, [Next]_vars PROVE Shape'
  <2> USE <1>2, NAssumption, CapAssumption
  <2> SUFFICES TPc' /\ TReorder' /\ TConn' /\ TPermits' /\ TWriter' /\ THistory'
               /\ TTasks' /\ Lock'
      BY DEF Shape, Types
  <2> DEFINE G == TPc' /\ TReorder' /\ TConn' /\ TPermits' /\ TWriter' /\ THistory'
                  /\ TTasks' /\ Lock'
  <2>1. ASSUME NEW h \in Handler, FrameLost(h) PROVE G
    <3>1. PICK l \in {"done"} : GoTo(h, l)
        BY <2>1 DEF FrameLost
    <3>2. TPc' /\ TReorder' /\ Lock'
        BY <2>1, <3>1, MovesOn DEF FrameLost, Label, Shape, Lock, Handler, reorder
    <3> QED
        BY <2>1, <3>1, <3>2, Kept DEF FrameLost
  <2>2. ASSUME NEW s \in Seqs, DataLookup(s) PROVE G
    <3>1. PICK l \in {"push", "done"} : GoTo(s, l)
        BY <2>2 DEF DataLookup
    <3>2. TPc' /\ TReorder' /\ Lock'
        BY <2>2, <3>1, MovesOn DEF DataLookup, Label, Shape, Lock, Handler, reorder
    <3> QED
        BY <2>2, <3>1, <3>2, Kept DEF DataLookup
  <2>3. ASSUME NEW h \in Fins, FinLookup(h) PROVE G
    <3>1. PICK l \in {"swap", "done"} : GoTo(h, l)
        BY <2>3 DEF FinLookup
    <3>2. TPc' /\ TReorder' /\ Lock'
        BY <2>3, <3>1, MovesOn DEF FinLookup, Label, Shape, Lock, Handler, reorder
    <3> QED
        BY <2>3, <3>1, <3>2, Kept DEF FinLookup
  <2>4. ASSUME NEW h \in Fins, FinSwap(h) PROVE G
    <3>1. PICK l \in {"finish", "store"} : GoTo(h, l)
        BY <2>4 DEF FinSwap
    <3>2. TPc' /\ TReorder' /\ Lock'
        BY <2>4, <3>1, MovesOn DEF FinSwap, Label, Shape, Lock, Handler, reorder
    <3>3. TConn'
        BY <2>4 DEF FinSwap, Shape, Types, TConn
    <3> QED
        BY <2>4, <3>1, <3>2, <3>3, Kept DEF FinSwap
  <2>5. ASSUME NEW h \in Fins, FinStore(h) PROVE G
    <3>1. PICK l \in {"cas"} : GoTo(h, l)
        BY <2>5 DEF FinStore
    <3>2. TPc' /\ TReorder' /\ Lock'
        BY <2>5, <3>1, MovesOn DEF FinStore, Label, Shape, Lock, Handler, reorder
    <3>3. TConn' /\ TTasks'
        BY <2>5 DEF FinStore, Shape, Types, TConn, TTasks
    <3> QED
        BY <2>5, <3>1, <3>2, <3>3, Kept DEF FinStore
  <2>6. ASSUME NEW s \in Seqs, DataTestFin(s) PROVE G
    <3>1. PICK l \in {"cas", "done"} : GoTo(s, l)
        BY <2>6 DEF DataTestFin
    <3>2. TPc' /\ TReorder' /\ Lock'
        BY <2>6, <3>1, MovesOn DEF DataTestFin, Label, Shape, Lock, Handler, reorder
    <3> QED
        BY <2>6, <3>1, <3>2, Kept DEF DataTestFin
  <2>7. ASSUME NEW s \in Seqs, DataFail(s) PROVE G
    <3>1. PICK l \in {"done"} : GoTo(s, l)
        BY <2>7 DEF DataFail
    <3>2. TPc' /\ TReorder' /\ Lock'
        BY <2>7, <3>1, MovesOn DEF DataFail, Label, Shape, Lock, Handler, reorder
    <3>3. TPermits' /\ TTasks'
        BY <2>7 DEF DataFail, signal_teardown, Shape, Types, TPermits, TTasks
    <3> QED
        BY <2>7, <3>1, <3>2, <3>3, Kept DEF DataFail
  <2>8. ASSUME NEW h \in Handler, CloseCas(h) PROVE G
    <3>1. PICK l \in {"eval", "finish"} : GoTo(h, l)
        BY <2>8 DEF CloseCas
    <3>2. TPc' /\ TReorder' /\ Lock'
        BY <2>8, <3>1, MovesOn DEF CloseCas, Label, Shape, Lock, Handler, reorder
    <3>3. TConn'
        BY <2>8 DEF CloseCas, Shape, Types, TConn
    <3> QED
        BY <2>8, <3>1, <3>2, <3>3, Kept DEF CloseCas
  <2>9. ASSUME NEW h \in Handler, CloseEval(h) PROVE G
    <3>1. PICK l \in {"commit", "rollback"} : GoTo(h, l)
        BY <2>9 DEF CloseEval
    <3>2. TPc' /\ TReorder' /\ Lock'
        BY <2>9, <3>1, MovesOn DEF CloseEval, Label, Shape, Lock, Handler, reorder
    <3>3. THistory'
        BY <2>9 DEF CloseEval, Shape, Types, THistory
    <3> QED
        BY <2>9, <3>1, <3>2, <3>3, Kept DEF CloseEval
  <2>10. ASSUME NEW h \in Handler, CloseRollback(h) PROVE G
    <3>1. PICK l \in {"finish"} : GoTo(h, l)
        BY <2>10 DEF CloseRollback
    <3>2. TPc' /\ TReorder' /\ Lock'
        BY <2>10, <3>1, MovesOn DEF CloseRollback, Label, Shape, Lock, Handler, reorder
    <3>3. TConn'
        BY <2>10 DEF CloseRollback, Shape, Types, TConn
    <3> QED
        BY <2>10, <3>1, <3>2, <3>3, Kept DEF CloseRollback
  <2>11. ASSUME NEW h \in Handler, CloseCommit(h) PROVE G
    <3>1. PICK l \in {"finish"} : GoTo(h, l)
        BY <2>11 DEF CloseCommit
    <3>2. TPc' /\ TReorder' /\ Lock'
        BY <2>11, <3>1, MovesOn DEF CloseCommit, Label, Shape, Lock, Handler, reorder
    <3>3. TConn' /\ TPermits'
        BY <2>11 DEF CloseCommit, Shape, Types, TConn, TPermits
    <3> QED
        BY <2>11, <3>1, <3>2, <3>3, Kept DEF CloseCommit
  <2>12. ASSUME NEW h \in Handler, Finish(h) PROVE G
    <3>1. PICK l \in {"done"} : GoTo(h, l)
        BY <2>12 DEF Finish
    <3>2. TPc' /\ TReorder' /\ Lock'
        BY <2>12, <3>1, MovesOn DEF Finish, Label, Shape, Lock, Handler, reorder
    <3>3. TTasks'
        BY <2>12 DEF Finish, finish_if_done, Shape, Types, TTasks
    <3> QED
        BY <2>12, <3>1, <3>2, <3>3, Kept DEF Finish
  <2>13. ASSUME NEW s \in Seqs, DataPush(s) PROVE G
    <3>1. s \in Handler /\ ready = <<>> /\ pc[s] = "push"
        BY <2>13 DEF DataPush, LockFree, Handler
    <3>2. CASE s > Expected /\ GoTo(s, "fail") /\ UNCHANGED reorder
      <4>1. TPc' /\ TReorder' /\ Lock'
          BY <3>1, <3>2, MovesOn DEF Label
      <4> QED
          BY <2>13, <4>1, Kept DEF DataPush
    <3>3. CASE /\ pushed' = pushed \cup {s} /\ ready' = Run(s)
               /\ GoTo(s, IF Run(s) = <<>> THEN "test" ELSE "deliver")
      <4>1. PICK l \in {"test", "deliver"} :
                 GoTo(s, l) /\ (l = "test" <=> Run(s) = <<>>)
          BY <3>3
      <4>2. TPc' /\ pc'[s] = l /\ \A g \in Handler \ {s} : pc'[g] = pc[g]
          BY <3>1, <4>1, Goes DEF Label, Shape, Types
      <4>3. TReorder'
          BY <3>3, RunFacts DEF Shape, Types, TReorder
      <4>4. \A g \in Handler : pc[g] # "deliver"
          BY <3>1 DEF Shape, Lock
      <4>5. Lock'
          BY <3>1, <3>3, <4>1, <4>2, <4>4 DEF Shape, Lock, Handler
      <4> QED
          BY <2>13, <4>2, <4>3, <4>5, Kept DEF DataPush
    <3> QED
        BY <2>13, <3>2, <3>3 DEF DataPush
  <2>14. ASSUME NEW s \in Seqs, DataDeliver(s) PROVE G
    <3>1. s \in Handler /\ ready # <<>> /\ pc[s] = "deliver" /\ ready \in Seq(Seqs)
        BY <2>14 DEF DataDeliver, Handler, Shape, Lock, Types, TReorder
    <3>2. PICK l \in {"test", "deliver", "fail"} :
               GoTo(s, l) /\ (l = "deliver" => ready' # <<>>)
      <4>1. CASE Room
          BY <2>14, <3>1, <4>1, TailFacts DEF DataDeliver
      <4>2. CASE ~Room
          BY <2>14, <4>2 DEF DataDeliver
      <4> QED
          BY <4>1, <4>2
    <3>3. TPc' /\ pc'[s] = l /\ \A g \in Handler \ {s} : pc'[g] = pc[g]
        BY <3>1, <3>2, Goes DEF Label, Shape, Types
    <3>4. pushed' = pushed
        BY <2>14 DEF DataDeliver
    <3>5. TReorder'
        BY <2>14, <3>1, TailFacts, EmptySeq DEF DataDeliver, Shape, Types, TReorder
    <3>6. Lock'
        BY <3>1, <3>2, <3>3, <3>4 DEF Shape, Lock, Handler
    <3>7. TWriter'
      <4>1. CASE Room
        <5>1. chan \in Seq(Seqs) /\ Head(ready) \in Seqs
            BY <3>1, TailFacts DEF Shape, Types, TWriter
        <5>2. chan' \in Seq(Seqs) /\ Len(chan') = Len(chan) + 1 /\ Len(chan) \in Nat
            BY <2>14, <4>1, <5>1, AppendFacts DEF DataDeliver
        <5> QED
            BY <2>14, <4>1, <5>2 DEF DataDeliver, Room, Shape, Types, TWriter
      <4>2. CASE ~Room
          BY <2>14, <4>2 DEF DataDeliver, Shape, Types, TWriter
      <4> QED
          BY <4>1, <4>2
    <3>8. THistory'
        BY <2>14 DEF DataDeliver, Shape, Types, THistory
    <3> QED
        BY <2>14, <3>3, <3>5, <3>6, <3>7, <3>8, Kept DEF DataDeliver
  <2>15. ASSUME ForceClose PROVE G
    <3>1. TConn' /\ TPermits' /\ THistory' /\ TTasks'
        BY <2>15 DEF ForceClose, Shape, Types, TConn, TPermits, THistory, TTasks
    <3> QED
        BY <2>15, <3>1, Kept DEF ForceClose
  <2>16. ASSUME WriterCancelled PROVE G
    <3>1. TPermits'
        BY <2>16 DEF WriterCancelled, Shape, Types, TPermits
    <3>2. TWriter'
        BY <2>16 DEF WriterCancelled, WriterEnds, Shape, Types, TWriter
    <3> QED
        BY <2>16, <3>1, <3>2, Kept DEF WriterCancelled
  <2>17. ASSUME WriterRecv PROVE G
    <3>1. TWriter'
      <4>1. chan \in Seq(Seqs) /\ chan # <<>>
          BY <2>17 DEF WriterRecv, Shape, Types, TWriter
      <4>2. Head(chan) \in Seqs /\ Tail(chan) \in Seq(Seqs)
            /\ Len(Tail(chan)) = Len(chan) - 1 /\ Len(chan) \in Nat
          BY <4>1, TailFacts
      <4> QED
          BY <2>17, <4>2 DEF WriterRecv, Shape, Types, TWriter, Seqs
    <3> QED
        BY <2>17, <3>1, Kept DEF WriterRecv
  <2>18. ASSUME WriterWrites PROVE G
    <3>1. TWriter'
      <4>1. target \in Seq(Seqs) /\ chunk \in Seqs
          BY <2>18 DEF WriterWrites, Shape, Types, TWriter, Seqs
      <4>2. target' \in Seq(Seqs)
          BY <2>18, <4>1, AppendFacts DEF WriterWrites
      <4> QED
          BY <2>18, <4>2 DEF WriterWrites, Shape, Types, TWriter
    <3> QED
        BY <2>18, <3>1, Kept DEF WriterWrites
  <2>19. ASSUME WriterFails PROVE G
    <3>1. TWriter'
        BY <2>19 DEF WriterFails, WriterEnds, Shape, Types, TWriter
    <3> QED
        BY <2>19, <3>1, Kept DEF WriterFails
  <2>20. ASSUME WriterHalfClose PROVE G
    <3>1. TWriter' /\ TPermits'
        BY <2>20 DEF WriterHalfClose, Shape, Types, TWriter, TPermits
    <3> QED
        BY <2>20, <3>1, Kept DEF WriterHalfClose
  <2>21. ASSUME WriterDrain PROVE G
    <3>1. TWriter'
      <4>1. CASE chan = <<>>
          BY <2>21, <4>1 DEF WriterDrain, WriterEnds, Shape, Types, TWriter
      <4>2. CASE chan # <<>>
        <5>1. Head(chan) \in Seqs /\ Tail(chan) \in Seq(Seqs)
              /\ Len(Tail(chan)) = Len(chan) - 1 /\ Len(chan) \in Nat
            BY <4>2, TailFacts DEF Shape, Types, TWriter
        <5>2. target \in Seq(Seqs) /\ Append(target, Head(chan)) \in Seq(Seqs)
            BY <5>1, AppendFacts DEF Shape, Types, TWriter
        <5>3. CASE target' = Append(target, Head(chan)) /\ UNCHANGED <<wpc, chunk, eof>>
          <6>1. chan' = Tail(chan) /\ target' \in Seq(Seqs)
              BY <2>21, <4>2, <5>2, <5>3 DEF WriterDrain
          <6>2. chan' \in Seq(Seqs) /\ Len(chan') <= EGRESS_CHANNEL_CAP
              BY <5>1, <6>1 DEF Shape, Types, TWriter
          <6> QED
              BY <5>3, <6>1, <6>2 DEF Shape, Types, TWriter
        <5>4. CASE WriterEnds("error") /\ UNCHANGED target
            BY <2>21, <4>2, <5>1, <5>2, <5>4
            DEF WriterDrain, WriterEnds, Shape, Types, TWriter
        <5> QED
            BY <2>21, <4>2, <5>3, <5>4 DEF WriterDrain
      <4> QED
          BY <4>1, <4>2
    <3> QED
        BY <2>21, <3>1, Kept DEF WriterDrain
  <2>22. ASSUME WriterOrphaned PROVE G
    <3>1. TWriter'
        BY <2>22 DEF WriterOrphaned, WriterEnds, Shape, Types, TWriter
    <3> QED
        BY <2>22, <3>1, Kept DEF WriterOrphaned
  <2>23. ASSUME WriterReturns PROVE G
    <3>1. TWriter'
        BY <2>23 DEF WriterReturns, Shape, Types, TWriter
    <3> QED
        BY <2>23, <3>1, Kept DEF WriterReturns
  <2>24. ASSUME ReaderEof PROVE G
    <3>1. TTasks'
        BY <2>24 DEF ReaderEof, Shape, Types, TTasks
    <3> QED
        BY <2>24, <3>1, Kept DEF ReaderEof
  <2>25. ASSUME ReaderCancelled PROVE G
    <3>1. TTasks' /\ TPermits'
        BY <2>25 DEF ReaderCancelled, Shape, Types, TTasks, TPermits
    <3> QED
        BY <2>25, <3>1, Kept DEF ReaderCancelled
  <2>26. ASSUME ReaderSendFails PROVE G
    <3>1. TTasks'
        BY <2>26 DEF ReaderSendFails, Shape, Types, TTasks
    <3> QED
        BY <2>26, <3>1, Kept DEF ReaderSendFails
  <2>27. ASSUME ReaderReset PROVE G
    <3>1. TTasks' /\ TPermits'
        BY <2>27 DEF ReaderReset, signal_teardown, Removable, Shape, Types, TTasks, TPermits
    <3> QED
        BY <2>27, <3>1, Kept DEF ReaderReset
  <2>28. ASSUME ReaderSetsEof PROVE G
    <3>1. TTasks' /\ TConn'
        BY <2>28 DEF ReaderSetsEof, Shape, Types, TTasks, TConn
    <3> QED
        BY <2>28, <3>1, Kept DEF ReaderSetsEof
  <2>29. ASSUME ReaderFinish PROVE G
    <3>1. TTasks'
        BY <2>29 DEF ReaderFinish, finish_if_done, Shape, Types, TTasks
    <3> QED
        BY <2>29, <3>1, Kept DEF ReaderFinish
  <2>30. ASSUME Torndown PROVE G
    <3>1. TTasks' /\ TPermits'
        BY <2>30 DEF Torndown, signal_teardown, Removable, Shape, Types, TTasks, TPermits
    <3> QED
        BY <2>30, <3>1, Kept DEF Torndown
  <2>31. CASE UNCHANGED vars
      BY <2>31, Kept DEF vars
  <2> QED
      BY <2>1, <2>2, <2>3, <2>4, <2>5, <2>6, <2>7, <2>8, <2>9, <2>10, <2>11, <2>12, <2>13, <2>14, <2>15, <2>16, <2>17, <2>18, <2>19, <2>20, <2>21, <2>22, <2>23, <2>24, <2>25, <2>26, <2>27, <2>28, <2>29, <2>30, <2>31
      DEF Next, HandlerStep, WriterStep, ReaderStep
<1> QED
    BY <1>1, <1>2, PTL DEF Spec

\* The connection's state keeps its shape (VirtConnDe and its tasks).
THEOREM TypeCorrect == Spec => []TypeOK
BY ShapeHolds, ShapeImpliesTypeOK, PTL

------------------------------------------------------------------------------
(* The half-close state machine *)

\* The handlers that hold the closing state.
Closer(h) == pc[h] \in {"eval", "rollback", "commit"}

\* Nothing of the close happens before the FIN, and one handler at a time has
\* the closing state, which nobody has while it is open.
Held ==
    /\ \A h \in Handler : (pc[h] \in {"store", "cas"} \/ Closer(h)) => fin_received
    /\ (half_close_state # 0 \/ timer = "armed") => fin_received
    /\ \A g, h \in Handler : (Closer(g) /\ Closer(h)) => g = h
    /\ half_close_state = 0 => \A h \in Handler : ~Closer(h)
    /\ half_close_state = 1 => \E h \in Handler : Closer(h)

\* Whoever is about to close, or has closed, without force has seen every frame
\* delivered: nothing is left in the lock holder's hands, nor will be.
Justified ==
    (~forced /\ ~early /\ (half_close_state = 2 \/ \E h \in Handler : pc[h] = "commit"))
        => Seqs \subseteq pushed /\ ready = <<>>

Closing == Held /\ Justified

\* What the invariant speaks of.
closeVars == <<pc, reorder, fin_received, half_close_state, timer, forced, early>>

LEMMA ClosingHolds == Spec => []Closing
<1>1. Init => Closing
    BY DEF Init, Closing, Held, Justified, Closer, Handler
<1>2. ASSUME Shape, Closing, [Next]_vars PROVE Closing'
  <2> USE <1>2
  <2>0. ASSUME UNCHANGED closeVars PROVE Closing'
      BY <2>0 DEF Closing, Held, Justified, Closer, closeVars, reorder
  <2>1. ASSUME NEW h \in Handler, FrameLost(h) PROVE Closing'
    <3>1. PICK l \in {"done"} : GoTo(h, l)
        BY <2>1 DEF FrameLost
    <3>2. h \in Handler /\ TPc /\ TPc'
          /\ pc'[h] = l /\ \A g \in Handler \ {h} : pc'[g] = pc[g]
        BY <3>1, Goes DEF Label, Shape, Types, Handler
    <3>3. Held'
        BY <2>1, <3>1, <3>2 DEF FrameLost, connVars, Closing, Held, Closer, GoTo
    <3>4. Justified'
        BY <2>1, <3>1, <3>2 DEF FrameLost, connVars, Closing, Justified, reorder, history, GoTo
    <3> QED
        BY <3>3, <3>4 DEF Closing
  <2>2. ASSUME NEW s \in Seqs, DataLookup(s) PROVE Closing'
    <3>1. PICK l \in {"push", "done"} : GoTo(s, l)
        BY <2>2 DEF DataLookup
    <3>2. s \in Handler /\ TPc /\ TPc'
          /\ pc'[s] = l /\ \A g \in Handler \ {s} : pc'[g] = pc[g]
        BY <3>1, Goes DEF Label, Shape, Types, Handler
    <3>3. Held'
        BY <2>2, <3>1, <3>2 DEF DataLookup, connVars, Closing, Held, Closer, GoTo
    <3>4. Justified'
        BY <2>2, <3>1, <3>2 DEF DataLookup, connVars, Closing, Justified, reorder, history, GoTo
    <3> QED
        BY <3>3, <3>4 DEF Closing
  <2>3. ASSUME NEW h \in Fins, FinLookup(h) PROVE Closing'
    <3>1. PICK l \in {"swap", "done"} : GoTo(h, l)
        BY <2>3 DEF FinLookup
    <3>2. h \in Handler /\ TPc /\ TPc'
          /\ pc'[h] = l /\ \A g \in Handler \ {h} : pc'[g] = pc[g]
        BY <3>1, Goes DEF Label, Shape, Types, Handler
    <3>3. Held'
        BY <2>3, <3>1, <3>2 DEF FinLookup, connVars, Closing, Held, Closer, GoTo
    <3>4. Justified'
        BY <2>3, <3>1, <3>2 DEF FinLookup, connVars, Closing, Justified, reorder, history, GoTo
    <3> QED
        BY <3>3, <3>4 DEF Closing
  <2>4. ASSUME NEW h \in Fins, FinSwap(h) PROVE Closing'
    <3>1. PICK l \in {"finish", "store"} : GoTo(h, l)
        BY <2>4 DEF FinSwap
    <3>2. h \in Handler /\ TPc /\ TPc'
          /\ pc'[h] = l /\ \A g \in Handler \ {h} : pc'[g] = pc[g]
        BY <3>1, Goes DEF Label, Shape, Types, Handler
    <3>3. Held'
        BY <2>4, <3>1, <3>2 DEF FinSwap, Closing, Held, Closer, GoTo
    <3>4. Justified'
        BY <2>4, <3>1, <3>2 DEF FinSwap, Closing, Justified, reorder, history, GoTo
    <3> QED
        BY <3>3, <3>4 DEF Closing
  <2>5. ASSUME NEW h \in Fins, FinStore(h) PROVE Closing'
    <3>1. PICK l \in {"cas"} : GoTo(h, l)
        BY <2>5 DEF FinStore
    <3>2. h \in Handler /\ TPc /\ TPc'
          /\ pc'[h] = l /\ \A g \in Handler \ {h} : pc'[g] = pc[g]
        BY <3>1, Goes DEF Label, Shape, Types, Handler
    <3>3. Held'
        BY <2>5, <3>1, <3>2 DEF FinStore, Closing, Held, Closer, GoTo
    <3>4. Justified'
        BY <2>5, <3>1, <3>2 DEF FinStore, Closing, Justified, reorder, history, GoTo
    <3> QED
        BY <3>3, <3>4 DEF Closing
  <2>6. ASSUME NEW s \in Seqs, DataTestFin(s) PROVE Closing'
    <3>1. PICK l \in {"cas", "done"} : GoTo(s, l)
        BY <2>6 DEF DataTestFin
    <3>2. s \in Handler /\ TPc /\ TPc'
          /\ pc'[s] = l /\ \A g \in Handler \ {s} : pc'[g] = pc[g]
        BY <3>1, Goes DEF Label, Shape, Types, Handler
    <3>3. Held'
        BY <2>6, <3>1, <3>2 DEF DataTestFin, connVars, Closing, Held, Closer, GoTo
    <3>4. Justified'
        BY <2>6, <3>1, <3>2 DEF DataTestFin, connVars, Closing, Justified, reorder, history, GoTo
    <3> QED
        BY <3>3, <3>4 DEF Closing
  <2>7. ASSUME NEW s \in Seqs, DataFail(s) PROVE Closing'
    <3>1. PICK l \in {"done"} : GoTo(s, l)
        BY <2>7 DEF DataFail
    <3>2. s \in Handler /\ TPc /\ TPc'
          /\ pc'[s] = l /\ \A g \in Handler \ {s} : pc'[g] = pc[g]
        BY <3>1, Goes DEF Label, Shape, Types, Handler
    <3>3. Held'
        BY <2>7, <3>1, <3>2 DEF DataFail, connVars, Closing, Held, Closer, GoTo
    <3>4. Justified'
        BY <2>7, <3>1, <3>2 DEF DataFail, connVars, Closing, Justified, reorder, history, GoTo
    <3> QED
        BY <3>3, <3>4 DEF Closing
  <2>8. ASSUME NEW h \in Handler, CloseCas(h) PROVE Closing'
    <3>1. PICK l \in {"eval", "finish"} : GoTo(h, l)
        BY <2>8 DEF CloseCas
    <3>2. h \in Handler /\ TPc /\ TPc'
          /\ pc'[h] = l /\ \A g \in Handler \ {h} : pc'[g] = pc[g]
        BY <3>1, Goes DEF Label, Shape, Types, Handler
    <3>3. Held'
        BY <2>8, <3>1, <3>2 DEF CloseCas, Closing, Held, Closer, GoTo
    <3>4. Justified'
        BY <2>8, <3>1, <3>2 DEF CloseCas, Closing, Justified, reorder, history, GoTo
    <3> QED
        BY <3>3, <3>4 DEF Closing
  <2>9. ASSUME NEW h \in Handler, CloseEval(h) PROVE Closing'
    <3>1. PICK l \in {"commit", "rollback"} : GoTo(h, l)
        BY <2>9 DEF CloseEval
    <3>2. h \in Handler /\ TPc /\ TPc'
          /\ pc'[h] = l /\ \A g \in Handler \ {h} : pc'[g] = pc[g]
        BY <3>1, Goes DEF Label, Shape, Types, Handler
    <3>3. Held'
        BY <2>9, <3>1, <3>2 DEF CloseEval, connVars, LockFree, Complete, Seqs, Shape, Types, TConn, Closing, Held, Closer, GoTo
    <3>4. Justified'
      <4> SUFFICES ASSUME ~forced', ~early',
                          half_close_state' = 2 \/ \E g \in Handler : pc'[g] = "commit"
                   PROVE  Seqs \subseteq pushed /\ ready = <<>>
          BY <2>9 DEF CloseEval, Justified, reorder
      <4>1. ~forced /\ ~early /\ fin_seq # 0 /\ ready = <<>>
          BY <2>9 DEF CloseEval, LockFree
      <4>2. CASE half_close_state = 2 \/ \E g \in Handler : pc[g] = "commit"
          BY <4>1, <4>2 DEF Closing, Justified
      <4>3. CASE pc'[h] = "commit"
        <5>1. Complete(fin_seq) /\ fin_seq = N + 1
            BY <2>9, <3>2, <4>1, <4>3, Goes
            DEF CloseEval, Shape, Types, TConn, TPc, GoTo
        <5> QED
            BY <4>1, <5>1, NAssumption DEF Complete, Seqs
      <4> QED
          BY <2>9, <3>2, <4>2, <4>3 DEF CloseEval, connVars
    <3> QED
        BY <3>3, <3>4 DEF Closing
  <2>10. ASSUME NEW h \in Handler, CloseRollback(h) PROVE Closing'
    <3>1. PICK l \in {"finish"} : GoTo(h, l)
        BY <2>10 DEF CloseRollback
    <3>2. h \in Handler /\ TPc /\ TPc'
          /\ pc'[h] = l /\ \A g \in Handler \ {h} : pc'[g] = pc[g]
        BY <3>1, Goes DEF Label, Shape, Types, Handler
    <3>3. Held'
        BY <2>10, <3>1, <3>2 DEF CloseRollback, Shape, Types, TConn, Closing, Held, Closer, GoTo
    <3>4. Justified'
        BY <2>10, <3>1, <3>2 DEF CloseRollback, Shape, Types, TConn, Closing, Justified, reorder, history, GoTo
    <3> QED
        BY <3>3, <3>4 DEF Closing
  <2>11. ASSUME NEW h \in Handler, CloseCommit(h) PROVE Closing'
    <3>1. PICK l \in {"finish"} : GoTo(h, l)
        BY <2>11 DEF CloseCommit
    <3>2. h \in Handler /\ TPc /\ TPc'
          /\ pc'[h] = l /\ \A g \in Handler \ {h} : pc'[g] = pc[g]
        BY <3>1, Goes DEF Label, Shape, Types, Handler
    <3>3. Held'
        BY <2>11, <3>1, <3>2 DEF CloseCommit, Closing, Held, Closer, GoTo
    <3>4. Justified'
        BY <2>11, <3>1, <3>2 DEF CloseCommit, Closing, Justified, reorder, history, GoTo
    <3> QED
        BY <3>3, <3>4 DEF Closing
  <2>12. ASSUME NEW h \in Handler, Finish(h) PROVE Closing'
    <3>1. PICK l \in {"done"} : GoTo(h, l)
        BY <2>12 DEF Finish
    <3>2. h \in Handler /\ TPc /\ TPc'
          /\ pc'[h] = l /\ \A g \in Handler \ {h} : pc'[g] = pc[g]
        BY <3>1, Goes DEF Label, Shape, Types, Handler
    <3>3. Held'
        BY <2>12, <3>1, <3>2 DEF Finish, connVars, Closing, Held, Closer, GoTo
    <3>4. Justified'
        BY <2>12, <3>1, <3>2 DEF Finish, connVars, Closing, Justified, reorder, history, GoTo
    <3> QED
        BY <3>3, <3>4 DEF Closing
  <2>13. ASSUME NEW s \in Seqs, DataPush(s) PROVE Closing'
    <3>1. PICK l \in {"test", "deliver", "fail"} : GoTo(s, l)
        BY <2>13 DEF DataPush
    <3>2. s \in Handler /\ TPc /\ TPc'
          /\ pc'[s] = l /\ \A g \in Handler \ {s} : pc'[g] = pc[g]
        BY <3>1, Goes DEF Label, Shape, Types, Handler
    <3>3. Held'
        BY <2>13, <3>1, <3>2 DEF DataPush, connVars, Shape, Lock, Closing, Held, Closer, GoTo
    <3>4. Justified'
        BY <2>13, <3>1, <3>2 DEF DataPush, connVars, Shape, Lock, Closing, Justified, reorder, history, GoTo
    <3> QED
        BY <3>3, <3>4 DEF Closing
  <2>14. ASSUME NEW s \in Seqs, DataDeliver(s) PROVE Closing'
    <3>1. PICK l \in {"test", "deliver", "fail"} : GoTo(s, l)
        BY <2>14 DEF DataDeliver
    <3>2. s \in Handler /\ TPc /\ TPc'
          /\ pc'[s] = l /\ \A g \in Handler \ {s} : pc'[g] = pc[g]
        BY <3>1, Goes DEF Label, Shape, Types, Handler
    <3>3. Held'
        BY <2>14, <3>1, <3>2 DEF DataDeliver, connVars, Shape, Lock, Closing, Held, Closer, GoTo
    <3>4. Justified'
        BY <2>14, <3>1, <3>2 DEF DataDeliver, connVars, Shape, Lock, Closing, Justified, reorder, history, GoTo
    <3> QED
        BY <3>3, <3>4 DEF Closing
  <2>15. ASSUME ForceClose PROVE Closing'
    <3>1. Held'
        BY <2>15 DEF ForceClose, Closing, Held, Closer
    <3>2. UNCHANGED <<pc, pushed, ready, early>>
        BY <2>15 DEF ForceClose, reorder
    <3>3. ~forced' => ~forced /\ half_close_state = 2
        BY <2>15 DEF ForceClose
    <3>4. Justified'
        BY <3>2, <3>3 DEF Closing, Justified
    <3> QED
        BY <3>1, <3>4 DEF Closing
  <2>16. ASSUME WriterStep PROVE Closing'
      BY <2>0, <2>16 DEF WriterStep, WriterCancelled, WriterRecv, WriterWrites, WriterFails,
         WriterHalfClose, WriterDrain, WriterOrphaned, WriterReturns,
         closeVars, connVars, history
  <2>17. ASSUME ReaderStep \/ ReaderEof \/ ReaderSendFails \/ Torndown PROVE Closing'
      BY <2>0, <2>17 DEF ReaderStep, ReaderEof, ReaderSendFails, Torndown, ReaderCancelled,
         ReaderReset, ReaderSetsEof, ReaderFinish, closeVars, connVars, history
  <2>18. CASE UNCHANGED vars
      BY <2>0, <2>18 DEF vars, closeVars, connVars, history
  <2> QED
      BY <2>1, <2>2, <2>3, <2>4, <2>5, <2>6, <2>7, <2>8, <2>9, <2>10, <2>11, <2>12, <2>13, <2>14, <2>15, <2>16, <2>17, <2>18
      DEF Next, HandlerStep
<1> QED
    BY <1>1, <1>2, ShapeHolds, PTL DEF Spec

\* One handler at a time judges whether the stream is complete, and somebody
\* does while the state says so (try_half_close).
THEOREM OneCloserAtATime == Spec => []OneCloser
<1>1. Closing => OneCloser
    BY DEF Closing, Held, Closer, OneCloser
<1> QED
    BY <1>1, ClosingHolds, PTL

\* The write half is closed without force only when every frame below the FIN
\* was pushed, or a closer read fin_seq too early.
THEOREM CloseIsAccounted == Spec => []CloseAccounted
<1>1. Closing => CloseAccounted
    BY DEF Closing, Justified, CloseAccounted
<1> QED
    BY <1>1, ClosingHolds, PTL

LEMMA ClosedStep ==
    ASSUME [Next]_vars, half_close_state = 2
    PROVE  half_close_state' = 2
BY DEF Next, vars, connVars, HandlerStep, FrameLost, DataLookup, FinLookup, FinSwap,
        FinStore, DataPush, DataDeliver, DataFail, DataTestFin, CloseCas, CloseEval,
        CloseRollback, CloseCommit, Finish, ForceClose, WriterStep, WriterCancelled,
        WriterRecv, WriterWrites, WriterFails, WriterHalfClose, WriterDrain,
        WriterOrphaned, WriterReturns, ReaderStep, ReaderEof, ReaderSendFails,
        ReaderCancelled, ReaderReset, ReaderSetsEof, ReaderFinish, Torndown

\* BUG-5: no rollback, CAS or timer reopens a closed write half.
THEOREM ClosedStays == Spec => ClosedIsFinal
BY ClosedStep, PTL DEF Spec, ClosedIsFinal

------------------------------------------------------------------------------
(* The removal of a finished connection *)

\* A connection with both directions finished that is still in the map has a
\* handler or the reader on its way to finish_if_done.
Finisher ==
    (BothDone /\ ~forced /\ in_conns)
        => (rpc = "finish" \/ \E h \in Handler : pc[h] = "finish")

LEMMA FinisherHolds == Spec => []Finisher
<1>1. Init => Finisher
    BY DEF Init, Finisher, BothDone
<1>2. ASSUME Shape, Closing, Finisher, [Next]_vars PROVE Finisher'
  <2> USE <1>2 DEF BothDone
  <2>0. ASSUME UNCHANGED <<connVars, forced, rpc>>, in_conns' => in_conns,
               \/ UNCHANGED pc
               \/ \E h \in Handler, l \in Label : pc[h] # "finish" /\ GoTo(h, l)
        PROVE  Finisher'
    <3>1. CASE UNCHANGED pc
        BY <2>0, <3>1 DEF Finisher, connVars
    <3>2. ASSUME NEW h \in Handler, NEW l \in Label, pc[h] # "finish", GoTo(h, l)
          PROVE  Finisher'
      <4>1. \A g \in Handler \ {h} : pc'[g] = pc[g]
          BY <3>2, Goes DEF Shape, Types
      <4> QED
          BY <2>0, <3>2, <4>1 DEF Finisher, connVars
    <3> QED
        BY <2>0, <3>1, <3>2
  <2>1. ASSUME NEW h \in Handler, FrameLost(h) PROVE Finisher'
    <3>1. h \in Handler /\ pc[h] # "finish"
        BY <2>1 DEF FrameLost, Handler
    <3>2. PICK l \in {"done"} : GoTo(h, l)
        BY <2>1 DEF FrameLost
    <3>3. in_conns' => in_conns
        BY <2>1 DEF FrameLost
    <3> QED
        BY <2>1, <2>0, <3>1, <3>2, <3>3 DEF FrameLost, Label, history
  <2>2. ASSUME NEW s \in Seqs, DataLookup(s) PROVE Finisher'
    <3>1. s \in Handler /\ pc[s] # "finish"
        BY <2>2 DEF DataLookup, Handler
    <3>2. PICK l \in {"push", "done"} : GoTo(s, l)
        BY <2>2 DEF DataLookup
    <3>3. in_conns' => in_conns
        BY <2>2 DEF DataLookup
    <3> QED
        BY <2>2, <2>0, <3>1, <3>2, <3>3 DEF DataLookup, Label, history
  <2>3. ASSUME NEW h \in Fins, FinLookup(h) PROVE Finisher'
    <3>1. h \in Handler /\ pc[h] # "finish"
        BY <2>3 DEF FinLookup, Handler
    <3>2. PICK l \in {"swap", "done"} : GoTo(h, l)
        BY <2>3 DEF FinLookup
    <3>3. in_conns' => in_conns
        BY <2>3 DEF FinLookup
    <3> QED
        BY <2>3, <2>0, <3>1, <3>2, <3>3 DEF FinLookup, Label, history
  <2>4. ASSUME NEW s \in Seqs, DataTestFin(s) PROVE Finisher'
    <3>1. s \in Handler /\ pc[s] # "finish"
        BY <2>4 DEF DataTestFin, Handler
    <3>2. PICK l \in {"cas", "done"} : GoTo(s, l)
        BY <2>4 DEF DataTestFin
    <3>3. in_conns' => in_conns
        BY <2>4 DEF DataTestFin
    <3> QED
        BY <2>4, <2>0, <3>1, <3>2, <3>3 DEF DataTestFin, Label, history
  <2>5. ASSUME NEW s \in Seqs, DataFail(s) PROVE Finisher'
    <3>1. s \in Handler /\ pc[s] # "finish"
        BY <2>5 DEF DataFail, Handler
    <3>2. PICK l \in {"done"} : GoTo(s, l)
        BY <2>5 DEF DataFail
    <3>3. in_conns' => in_conns
        BY <2>5 DEF DataFail
    <3> QED
        BY <2>5, <2>0, <3>1, <3>2, <3>3 DEF DataFail, Label, history
  <2>6. ASSUME NEW h \in Handler, CloseEval(h) PROVE Finisher'
    <3>1. h \in Handler /\ pc[h] # "finish"
        BY <2>6 DEF CloseEval, Handler
    <3>2. PICK l \in {"commit", "rollback"} : GoTo(h, l)
        BY <2>6 DEF CloseEval
    <3>3. in_conns' => in_conns
        BY <2>6 DEF CloseEval
    <3> QED
        BY <2>6, <2>0, <3>1, <3>2, <3>3 DEF CloseEval, Label, history
  <2>7. ASSUME NEW s \in Seqs, DataPush(s) PROVE Finisher'
    <3>1. s \in Handler /\ pc[s] # "finish"
        BY <2>7 DEF DataPush, Handler
    <3>2. PICK l \in {"test", "deliver", "fail"} : GoTo(s, l)
        BY <2>7 DEF DataPush
    <3>3. in_conns' => in_conns
        BY <2>7 DEF DataPush
    <3> QED
        BY <2>7, <2>0, <3>1, <3>2, <3>3 DEF DataPush, Label, history
  <2>8. ASSUME NEW s \in Seqs, DataDeliver(s) PROVE Finisher'
    <3>1. s \in Handler /\ pc[s] # "finish"
        BY <2>8 DEF DataDeliver, Handler
    <3>2. PICK l \in {"test", "deliver", "fail"} : GoTo(s, l)
        BY <2>8 DEF DataDeliver
    <3>3. in_conns' => in_conns
        BY <2>8 DEF DataDeliver
    <3> QED
        BY <2>8, <2>0, <3>1, <3>2, <3>3 DEF DataDeliver, Label, history
  <2>9. ASSUME NEW h \in Fins, FinSwap(h) PROVE Finisher'
    <3>1. h \in Handler /\ UNCHANGED <<half_close_state, egress_eof, in_conns, forced>>
        BY <2>9 DEF FinSwap, Handler, history
    <3>2. half_close_state = 2 => fin_received
        BY DEF Closing, Held
    <3>3. fin_received => pc'[h] = "finish"
        BY <2>9, <3>1, Goes DEF FinSwap, Label, Shape, Types, TPc, GoTo
    <3> QED
        BY <3>1, <3>2, <3>3 DEF Finisher
  <2>10. ASSUME NEW h \in Fins, FinStore(h) PROVE Finisher'
    <3>1. h \in Handler /\ pc[h] # "finish" /\ GoTo(h, "cas")
          /\ UNCHANGED <<fin_received, half_close_state, egress_eof, in_conns, forced, rpc>>
        BY <2>10 DEF FinStore, Handler, history
    <3>2. \A g \in Handler \ {h} : pc'[g] = pc[g]
        BY <3>1, Goes DEF Shape, Types, Label
    <3> QED
        BY <3>1, <3>2 DEF Finisher
  <2>11. ASSUME NEW h \in Handler, CloseCas(h) \/ CloseRollback(h) \/ CloseCommit(h)
         PROVE  Finisher'
    <3>1. PICK l \in {"finish", "eval"} : GoTo(h, l)
        BY <2>11 DEF CloseCas, CloseRollback, CloseCommit
    <3>2. pc'[h] = l /\ \A g \in Handler \ {h} : pc'[g] = pc[g]
        BY <3>1, Goes DEF Shape, Types, Label
    <3>3. pc[h] # "finish" /\ UNCHANGED <<fin_received, egress_eof, in_conns, forced, rpc>>
        BY <2>11 DEF CloseCas, CloseRollback, CloseCommit, history
    <3>4. l = "finish" \/ half_close_state' # 2
        BY <2>11, <3>2, Goes DEF CloseCas, CloseRollback, CloseCommit, GoTo, Shape, Types, TPc
    <3> QED
        BY <3>2, <3>3, <3>4 DEF Finisher
  <2>12. ASSUME NEW h \in Handler, Finish(h) PROVE Finisher'
    <3>1. UNCHANGED <<fin_received, egress_eof, half_close_state>>
        BY <2>12 DEF Finish, connVars
    <3>2. BothDone => ~in_conns'
        BY <2>12 DEF Finish, finish_if_done
    <3> QED
        BY <3>1, <3>2 DEF Finisher
  <2>13. ASSUME ReaderFinish PROVE Finisher'
    <3>1. UNCHANGED <<fin_received, egress_eof, half_close_state>>
        BY <2>13 DEF ReaderFinish, connVars
    <3>2. BothDone => ~in_conns'
        BY <2>13 DEF ReaderFinish, finish_if_done
    <3> QED
        BY <3>1, <3>2 DEF Finisher
  <2>14. ASSUME ReaderSetsEof PROVE Finisher'
      BY <2>14 DEF ReaderSetsEof, Finisher
  <2>15. ASSUME ReaderEof \/ ReaderSendFails \/ ReaderCancelled \/ ReaderReset \/ Torndown
         PROVE  Finisher'
    <3>1. UNCHANGED <<connVars, forced, pc>> /\ (in_conns' => in_conns)
          /\ (rpc = "finish" => rpc' = "finish")
        BY <2>15 DEF ReaderEof, ReaderSendFails, ReaderCancelled, ReaderReset, Torndown, history
    <3> QED
        BY <3>1 DEF Finisher, connVars
  <2>16. ASSUME ForceClose PROVE Finisher'
    <3>1. ~forced' => ~forced /\ half_close_state = 2
        BY <2>16 DEF ForceClose
    <3>2. UNCHANGED <<pc, rpc, in_conns, fin_received, egress_eof>>
        BY <2>16 DEF ForceClose
    <3> QED
        BY <3>1, <3>2 DEF Finisher
  <2>17. ASSUME WriterStep PROVE Finisher'
      BY <2>0, <2>17 DEF WriterStep, WriterCancelled, WriterRecv, WriterWrites, WriterFails,
         WriterHalfClose, WriterDrain, WriterOrphaned, WriterReturns, history
  <2>18. CASE UNCHANGED vars
      BY <2>0, <2>18 DEF vars, history
  <2> QED
      BY <2>1, <2>2, <2>3, <2>4, <2>5, <2>6, <2>7, <2>8, <2>9, <2>10, <2>11, <2>12,
         <2>13, <2>14, <2>15, <2>16, <2>17, <2>18 DEF Next, HandlerStep, ReaderStep
<1> QED
    BY <1>1, <1>2, ShapeHolds, ClosingHolds, PTL DEF Spec

\* D3: whichever of the two directions finishes last removes the connection,
\* unless it was the timer that finished it.
THEOREM DoneGoesAway == Spec => []DoneIsRemoved
<1>1. Finisher => DoneIsRemoved
    BY DEF Finisher, DoneIsRemoved, Quiet
<1> QED
    BY <1>1, FinisherHolds, PTL

------------------------------------------------------------------------------
(* The stream the target receives *)

\* The chunks on their way: in the writer's hand, and all that the buffer has
\* released so far.
InHand == IF chunk = 0 THEN 0 ELSE 1
Released == Len(target) + InHand + Len(chan) + Len(ready)

\* The target, the chunk in hand, the channel and the lock holder's chunks are,
\* in this order, the seqs from 1 up to the first that is missing.
InOrder ==
    /\ \A i \in 1..Len(target) : target[i] = i
    /\ chunk # 0 => chunk = Len(target) + 1
    /\ \A i \in 1..Len(chan) : chan[i] = Len(target) + InHand + i
    /\ \A i \in 1..Len(ready) : ready[i] = Len(target) + InHand + Len(chan) + i
    /\ IsReadyLen(pushed, 1, Released)
Stream == (eof = "none" /\ ~broken) => InOrder

streamVars == <<target, chunk, chan, ready, pushed, eof, broken>>

LEMMA StreamHolds == Spec => []Stream
<1>1. Init => Stream
  <2> SUFFICES ASSUME Init PROVE InOrder
      BY DEF Stream
  <2>1. target = <<>> /\ chan = <<>> /\ ready = <<>> /\ chunk = 0 /\ pushed = {}
      BY DEF Init
  <2>2. Released = 0
      BY <2>1 DEF Released, InHand
  <2> QED
      BY <2>1, <2>2 DEF InOrder, IsReadyLen
<1>2. ASSUME Shape, Stream, [Next]_vars PROVE Stream'
  <2> USE <1>2
  <2>0. ASSUME UNCHANGED streamVars PROVE Stream'
      BY <2>0 DEF Stream, InOrder, IsReadyLen, Released, InHand, streamVars
  <2>1. /\ target \in Seq(Seqs) /\ chan \in Seq(Seqs) /\ ready \in Seq(Seqs)
        /\ chunk \in 0..N /\ pushed \in SUBSET Seqs
        /\ (wpc = "write" <=> chunk # 0)
        /\ Len(target) \in Nat /\ Len(chan) \in Nat /\ Len(ready) \in Nat
        /\ InHand \in {0, 1}
      BY LenProperties DEF Shape, Types, TReorder, TWriter, InHand
  <2>2. ASSUME NEW s \in Seqs, DataPush(s) PROVE Stream'
    <3>1. ready = <<>> /\ UNCHANGED <<target, chunk, chan, eof, broken>>
        BY <2>2 DEF DataPush, LockFree, writer, history
    <3>2. CASE UNCHANGED reorder
        BY <2>0, <3>1, <3>2 DEF streamVars, reorder
    <3>3. CASE pushed' = pushed \cup {s} /\ ready' = Run(s)
      <4> SUFFICES ASSUME eof = "none", ~broken PROVE InOrder'
          BY <3>1 DEF Stream
      <4> DEFINE e == Len(target) + InHand + Len(chan)
                 c == Len(Run(s))
      <4>1. InOrder /\ Released = e /\ e \in Nat
          BY <2>1, <3>1, EmptySeq DEF Stream, Released
      <4>2. e \in 0..N
        <5>1. e # 0 => e \in 1..(1 + e - 1)
            BY <4>1
        <5>2. e # 0 => e \in Seqs
            BY <2>1, <4>1, <5>1 DEF InOrder, IsReadyLen
        <5> QED
            BY <4>1, <5>2, NAssumption DEF Seqs
      <4>3. Expected = e + 1
        <5>1. IsReadyLen(pushed, 1, e)
            BY <4>1 DEF InOrder
        <5>2. ReadyLen(pushed, 1) = e
            BY <2>1, <4>2, <5>1, ReadyLenUnique, NAssumption
        <5> QED
            BY <4>1, <5>2 DEF Expected
      <4>4. /\ Run(s) \in Seq(Seqs) /\ c \in Nat
            /\ \A i \in 1..c : Run(s)[i] = Expected + i - 1
            /\ IsReadyLen(pushed \cup {s}, Expected, c)
          BY <2>1, RunFacts, LenProperties
      <4>5. Released' = e + c /\ InHand' = InHand
          BY <3>1, <3>3 DEF Released, InHand
      <4> HIDE DEF c
      <4>6. IsReadyLen(pushed', 1, e + c)
        <5>1. ASSUME NEW i \in 1..(1 + (e + c) - 1) PROVE i \in pushed'
          <6>1. CASE i <= e
            <7>1. i \in 1..(1 + e - 1)
                BY <4>1, <4>4, <6>1
            <7> QED
                BY <3>3, <4>1, <7>1 DEF InOrder, IsReadyLen
          <6>2. CASE ~(i <= e)
            <7>1. i \in Expected..(Expected + c - 1)
                BY <4>1, <4>3, <4>4, <6>2
            <7> QED
                BY <3>3, <4>4, <7>1 DEF IsReadyLen
          <6> QED
              BY <6>1, <6>2
        <5>2. 1 + (e + c) = Expected + c
            BY <4>1, <4>3, <4>4
        <5> QED
            BY <3>3, <4>4, <5>1, <5>2 DEF IsReadyLen
      <4>7. \A i \in 1..Len(ready') : ready'[i] = e + i
          BY <3>3, <4>1, <4>3, <4>4 DEF c
      <4> QED
          BY <3>1, <4>1, <4>5, <4>6, <4>7 DEF InOrder
    <3> QED
        BY <2>2, <3>2, <3>3 DEF DataPush
  <2>3. ASSUME NEW s \in Seqs, DataDeliver(s) PROVE Stream'
    <3> SUFFICES ASSUME eof' = "none", ~broken' PROVE InOrder'
        BY DEF Stream
    <3>1. /\ chan' = Append(chan, Head(ready)) /\ ready' = Tail(ready)
          /\ UNCHANGED <<target, chunk, pushed, eof, broken>>
        BY <2>3 DEF DataDeliver
    <3>2. InOrder /\ ready # <<>>
      <4>1. s \in Handler /\ pc[s] = "deliver"
          BY <2>3 DEF DataDeliver, Handler
      <4> QED
          BY <3>1, <4>1 DEF Stream, Shape, Lock
    <3>3. /\ Len(ready) \in Nat \ {0} /\ Head(ready) = ready[1] /\ Head(ready) \in Seqs
          /\ Len(ready') = Len(ready) - 1
          /\ \A i \in 1..(Len(ready) - 1) : ready'[i] = ready[i + 1]
        BY <2>1, <3>1, <3>2, TailFacts
    <3>4. /\ Len(chan') = Len(chan) + 1
          /\ \A i \in 1..Len(chan) : chan'[i] = chan[i]
          /\ chan'[Len(chan) + 1] = Head(ready)
        BY <2>1, <3>1, <3>3, AppendFacts
    <3>5. InHand' = InHand /\ Released' = Released
      <4>1. InHand' = InHand
          BY <3>1 DEF InHand
      <4> QED
          BY <2>1, <3>1, <3>3, <3>4, <4>1 DEF Released
    <3>6. ASSUME NEW i \in 1..Len(chan') PROVE chan'[i] = Len(target) + InHand + i
      <4>1. CASE i \in 1..Len(chan)
          BY <3>2, <3>4, <4>1 DEF InOrder
      <4>2. CASE i = Len(chan) + 1
          BY <2>1, <3>2, <3>3, <3>4, <4>2 DEF InOrder
      <4> QED
          BY <2>1, <3>4, <4>1, <4>2
    <3>7. ASSUME NEW i \in 1..Len(ready')
          PROVE  ready'[i] = Len(target) + InHand + Len(chan') + i
      <4>1. i + 1 \in 1..Len(ready) /\ i \in 1..(Len(ready) - 1) /\ i \in Nat
          BY <3>3
      <4>2. ready'[i] = Len(target) + InHand + Len(chan) + (i + 1)
          BY <3>2, <3>3, <4>1 DEF InOrder
      <4>3. InHand \in Nat
          BY <2>1
      <4> QED
          BY <2>1, <3>4, <4>1, <4>2, <4>3
    <3> QED
        BY <3>1, <3>2, <3>5, <3>6, <3>7 DEF InOrder
  <2>4. ASSUME WriterRecv PROVE Stream'
    <3> SUFFICES ASSUME eof' = "none", ~broken' PROVE InOrder'
        BY DEF Stream
    <3>1. /\ chan' = Tail(chan) /\ chunk' = Head(chan) /\ chan # <<>> /\ wpc = "select"
          /\ UNCHANGED <<target, ready, pushed, eof, broken>>
        BY <2>4 DEF WriterRecv, reorder, history
    <3>2. InOrder /\ chunk = 0 /\ InHand = 0
        BY <2>1, <3>1 DEF Stream, InHand
    <3>3. /\ Len(chan) \in Nat \ {0} /\ Head(chan) = chan[1] /\ Head(chan) \in Seqs
          /\ Len(chan') = Len(chan) - 1
          /\ \A i \in 1..(Len(chan) - 1) : chan'[i] = chan[i + 1]
        BY <2>1, <3>1, TailFacts
    <3>4. InHand' = 1 /\ Released' = Released
        BY <2>1, <3>1, <3>2, <3>3, NAssumption DEF InHand, Released, Seqs
    <3>5. chunk' = Len(target) + 1
        BY <2>1, <3>1, <3>2, <3>3 DEF InOrder
    <3>6. ASSUME NEW i \in 1..Len(chan') PROVE chan'[i] = Len(target) + 1 + i
      <4>1. i + 1 \in 1..Len(chan) /\ i \in 1..(Len(chan) - 1)
          BY <3>3
      <4>2. chan'[i] = Len(target) + 0 + (i + 1)
          BY <3>2, <3>3, <4>1 DEF InOrder
      <4> QED
          BY <2>1, <4>2
    <3>7. ASSUME NEW i \in 1..Len(ready)
          PROVE  ready[i] = Len(target) + 1 + Len(chan') + i
        BY <2>1, <3>2, <3>3 DEF InOrder
    <3> QED
        BY <3>1, <3>2, <3>4, <3>5, <3>6, <3>7 DEF InOrder
  <2>5. ASSUME WriterWrites PROVE Stream'
    <3> SUFFICES ASSUME eof' = "none", ~broken' PROVE InOrder'
        BY DEF Stream
    <3>1. /\ target' = Append(target, chunk) /\ chunk' = 0 /\ wpc = "write"
          /\ UNCHANGED <<chan, ready, pushed, eof, broken>>
        BY <2>5 DEF WriterWrites, reorder, history
    <3>2. InOrder /\ chunk # 0 /\ InHand = 1 /\ chunk = Len(target) + 1
        BY <2>1, <3>1 DEF Stream, InHand, InOrder
    <3>3. /\ Len(target') = Len(target) + 1
          /\ \A i \in 1..Len(target) : target'[i] = target[i]
          /\ target'[Len(target) + 1] = chunk
      <4>1. chunk \in Seqs
          BY <2>1, <3>2, NAssumption DEF Seqs
      <4> QED
          BY <2>1, <3>1, <4>1, AppendFacts
    <3>4. InHand' = 0 /\ Released' = Released
        BY <2>1, <3>1, <3>2, <3>3 DEF InHand, Released
    <3>5. ASSUME NEW i \in 1..Len(target') PROVE target'[i] = i
      <4>1. CASE i \in 1..Len(target)
          BY <3>2, <3>3, <4>1 DEF InOrder
      <4>2. CASE i = Len(target) + 1
          BY <3>2, <3>3, <4>2
      <4> QED
          BY <2>1, <3>3, <4>1, <4>2
    <3>6. ASSUME NEW i \in 1..Len(chan) PROVE chan[i] = Len(target') + 0 + i
        BY <2>1, <3>2, <3>3 DEF InOrder
    <3>7. ASSUME NEW i \in 1..Len(ready)
          PROVE  ready[i] = Len(target') + 0 + Len(chan) + i
        BY <2>1, <3>2, <3>3 DEF InOrder
    <3> QED
        BY <3>1, <3>2, <3>4, <3>5, <3>6, <3>7 DEF InOrder
  <2>6. ASSUME WriterDrain PROVE Stream'
    <3> SUFFICES ASSUME eof' = "none", ~broken' PROVE InOrder'
        BY DEF Stream
    <3>1. /\ target' = Append(target, Head(chan)) /\ chan' = Tail(chan)
          /\ chan # <<>> /\ wpc = "drain"
          /\ UNCHANGED <<chunk, ready, pushed, eof, broken>>
        BY <2>6 DEF WriterDrain, WriterEnds, reorder, history
    <3>2. InOrder /\ chunk = 0 /\ InHand = 0 /\ InHand' = 0
        BY <2>1, <3>1 DEF Stream, InHand
    <3>3. /\ Len(chan) \in Nat \ {0} /\ Head(chan) = chan[1] /\ Head(chan) \in Seqs
          /\ Len(chan') = Len(chan) - 1
          /\ \A i \in 1..(Len(chan) - 1) : chan'[i] = chan[i + 1]
        BY <2>1, <3>1, TailFacts
    <3>4. /\ Len(target') = Len(target) + 1
          /\ \A i \in 1..Len(target) : target'[i] = target[i]
          /\ target'[Len(target) + 1] = Len(target) + 1
      <4>1. Head(chan) = Len(target) + 1
          BY <2>1, <3>2, <3>3 DEF InOrder
      <4> QED
          BY <2>1, <3>1, <3>3, <4>1, AppendFacts
    <3>5. Released' = Released
        BY <2>1, <3>1, <3>2, <3>3, <3>4 DEF Released
    <3>6. ASSUME NEW i \in 1..Len(target') PROVE target'[i] = i
      <4>1. CASE i \in 1..Len(target)
          BY <3>2, <3>4, <4>1 DEF InOrder
      <4>2. CASE i = Len(target) + 1
          BY <3>4, <4>2
      <4> QED
          BY <2>1, <3>4, <4>1, <4>2
    <3>7. ASSUME NEW i \in 1..Len(chan') PROVE chan'[i] = Len(target') + 0 + i
      <4>1. i + 1 \in 1..Len(chan) /\ i \in 1..(Len(chan) - 1)
          BY <3>3
      <4>2. chan'[i] = Len(target) + 0 + (i + 1)
          BY <3>2, <3>3, <4>1 DEF InOrder
      <4> QED
          BY <2>1, <3>4, <4>2
    <3>8. ASSUME NEW i \in 1..Len(ready)
          PROVE  ready[i] = Len(target') + 0 + Len(chan') + i
        BY <2>1, <3>2, <3>3, <3>4 DEF InOrder
    <3> QED
        BY <3>1, <3>2, <3>5, <3>6, <3>7, <3>8 DEF InOrder
  <2>7. ASSUME WriterCancelled \/ WriterFails \/ WriterOrphaned PROVE Stream'
      BY <2>7 DEF WriterCancelled, WriterFails, WriterOrphaned, WriterEnds, Stream
  <2>8. ASSUME WriterReturns PROVE Stream'
      BY <2>8 DEF WriterReturns, Stream, Shape, Types, TWriter
  <2>9. ASSUME WriterHalfClose PROVE Stream'
      BY <2>0, <2>9 DEF WriterHalfClose, streamVars, reorder, history
  <2>10. ASSUME NEW h \in Handler,
                \/ FrameLost(h) \/ CloseCas(h) \/ CloseEval(h) \/ CloseRollback(h)
                \/ CloseCommit(h) \/ Finish(h) \/ FinSwap(h) \/ FinStore(h)
                \/ DataLookup(h) \/ FinLookup(h) \/ DataFail(h) \/ DataTestFin(h)
         PROVE  Stream'
      BY <2>0, <2>10
      DEF FrameLost, CloseCas, CloseEval, CloseRollback, CloseCommit, Finish, FinSwap, FinStore,
          DataLookup, FinLookup, DataFail, DataTestFin, streamVars, reorder, writer, history
  <2>11. ASSUME ForceClose \/ ReaderStep \/ ReaderEof \/ ReaderSendFails \/ Torndown
         PROVE  Stream'
      BY <2>0, <2>11
      DEF ForceClose, ReaderStep, ReaderEof, ReaderSendFails, Torndown, ReaderCancelled,
          ReaderReset, ReaderSetsEof, ReaderFinish, streamVars, reorder, writer, history
  <2>12. CASE UNCHANGED vars
      BY <2>0, <2>12 DEF vars, streamVars, reorder, writer, history
  <2> QED
      BY <2>2, <2>3, <2>4, <2>5, <2>6, <2>7, <2>8, <2>9, <2>10, <2>11, <2>12
      DEF Next, HandlerStep, WriterStep, Handler
<1> QED
    BY <1>1, <1>2, ShapeHolds, PTL DEF Spec

\* Why the writer may come to the end of the stream: the half_close permit and
\* the drain follow a close, and a connection out of the map was closed or has
\* left a cancel_writer permit that the writer looks at first.
Reasons ==
    /\ (half_close \/ wpc = "drain") => half_close_state = 2
    /\ ~in_conns => (half_close_state = 2 \/ cancel_writer \/ eof # "none")

CleanEof == Reasons /\ CleanEofIsComplete

LEMMA CleanEofHolds == Spec => []CleanEof
<1>1. Init => CleanEof
    BY DEF Init, CleanEof, Reasons, CleanEofIsComplete
<1>2. ASSUME Shape, Closing, Stream, CleanEof, [Next]_vars PROVE CleanEof'
  <2> USE <1>2
  <2>1. half_close_state = 2 => half_close_state' = 2
      BY ClosedStep
  <2>2. ASSUME half_close' => (half_close \/ half_close_state' = 2),
               wpc' = "drain" => (wpc = "drain" \/ half_close),
               ~in_conns' => (~in_conns \/ half_close_state' = 2 \/ cancel_writer'),
               cancel_writer => (cancel_writer' \/ eof' # "none"),
               eof # "none" => eof' = eof
        PROVE  Reasons'
      BY <2>1, <2>2 DEF CleanEof, Reasons
  <2>3. ASSUME eof' = eof, target' = target,
               forced => forced', early => early', broken => broken'
        PROVE  CleanEofIsComplete'
      BY <2>3 DEF CleanEof, CleanEofIsComplete
  <2>4. ASSUME half_close_state = 2, chan = <<>>, chunk = 0, eof = "none",
               ~forced, ~early, ~broken
        PROVE  target = [i \in 1..N |-> i]
    <3>1. Seqs \subseteq pushed /\ ready = <<>>
        BY <2>4 DEF Closing, Justified
    <3>2. InOrder /\ pushed \in SUBSET Seqs /\ target \in Seq(Seqs) /\ Len(target) \in Nat
        BY <2>4, LenProperties DEF Stream, Shape, Types, TReorder, TWriter
    <3>3. Released = Len(target)
        BY <2>4, <3>1, <3>2 DEF Released, InHand
    <3>4. IsReadyLen(pushed, 1, Len(target))
        BY <3>2, <3>3 DEF InOrder
    <3>5. Len(target) = N
      <4>1. Len(target) # 0 => Len(target) \in 1..(1 + Len(target) - 1)
          BY <3>2
      <4>2. Len(target) # 0 => Len(target) \in Seqs
          BY <3>2, <3>4, <4>1 DEF IsReadyLen
      <4>3. 1 + Len(target) \notin Seqs
          BY <3>1, <3>4 DEF IsReadyLen
      <4> QED
          BY <3>2, <4>2, <4>3, NAssumption DEF Seqs
    <3>6. target = [i \in 1..Len(target) |-> target[i]]
        BY <3>2, LenProperties
    <3> QED
        BY <3>2, <3>5, <3>6 DEF InOrder
  <2>5. ASSUME NEW h \in Handler,
               \/ FrameLost(h) \/ CloseCas(h) \/ CloseEval(h) \/ CloseRollback(h)
               \/ CloseCommit(h) \/ Finish(h) \/ FinSwap(h) \/ FinStore(h)
               \/ DataLookup(h) \/ FinLookup(h) \/ DataFail(h) \/ DataTestFin(h)
               \/ DataPush(h) \/ DataDeliver(h)
        PROVE  CleanEof'
    <3>1. /\ UNCHANGED <<wpc, eof, target, forced>>
          /\ (early => early') /\ (broken => broken')
      <4>1. CASE CloseEval(h)
          BY <4>1 DEF CloseEval, writer
      <4>2. CASE DataDeliver(h)
          BY <4>2 DEF DataDeliver
      <4> QED
          BY <2>5, <4>1, <4>2
          DEF FrameLost, CloseCas, CloseRollback, CloseCommit, Finish, FinSwap, FinStore,
              DataLookup, FinLookup, DataFail, DataTestFin, DataPush, writer, history
    <3>2. /\ half_close' => (half_close \/ half_close_state' = 2)
          /\ cancel_writer => cancel_writer'
        BY <2>5
        DEF FrameLost, CloseCas, CloseEval, CloseRollback, CloseCommit, Finish, FinSwap, FinStore,
            DataLookup, FinLookup, DataFail, DataTestFin, DataPush, DataDeliver, permits,
            signal_teardown
    <3>3. ~in_conns' => (~in_conns \/ half_close_state = 2 \/ cancel_writer')
        BY <2>5
        DEF FrameLost, CloseCas, CloseEval, CloseRollback, CloseCommit, Finish, FinSwap, FinStore,
            DataLookup, FinLookup, DataFail, DataTestFin, DataPush, DataDeliver, finish_if_done,
            BothDone, signal_teardown
    <3> QED
        BY <2>1, <2>2, <2>3, <3>1, <3>2, <3>3 DEF CleanEof
  <2>6. ASSUME ReaderStep \/ ReaderEof \/ ReaderSendFails \/ Torndown PROVE CleanEof'
    <3>1. UNCHANGED <<wpc, eof, target, forced, early, broken, half_close>>
        BY <2>6
        DEF ReaderStep, ReaderEof, ReaderSendFails, Torndown, ReaderCancelled, ReaderReset,
            ReaderSetsEof, ReaderFinish, writer, history, permits
    <3>2. /\ cancel_writer => cancel_writer'
          /\ ~in_conns' => (~in_conns \/ half_close_state = 2 \/ cancel_writer')
        BY <2>6
        DEF ReaderStep, ReaderEof, ReaderSendFails, Torndown, ReaderCancelled, ReaderReset,
            ReaderSetsEof, ReaderFinish, permits, signal_teardown, finish_if_done, BothDone
    <3> QED
        BY <2>1, <2>2, <2>3, <3>1, <3>2 DEF CleanEof
  <2>7. ASSUME ForceClose PROVE CleanEof'
    <3>1. /\ UNCHANGED <<wpc, eof, target, early, broken, in_conns, cancel_writer>>
          /\ (forced => forced') /\ half_close_state' = 2
        BY <2>7 DEF ForceClose, writer
    <3> QED
        BY <2>2, <2>3, <3>1 DEF CleanEof
  <2>8. ASSUME WriterCancelled \/ WriterFails PROVE CleanEof'
    <3>1. /\ eof = "none" /\ eof' \in {"cancel", "error"} /\ wpc' = "shutdown"
          /\ UNCHANGED <<half_close, in_conns>>
        BY <2>8
        DEF WriterCancelled, WriterFails, WriterEnds, permits, Shape, Types, TWriter
    <3> QED
        BY <2>2, <3>1 DEF CleanEof, CleanEofIsComplete
  <2>9. ASSUME WriterRecv \/ WriterWrites \/ WriterHalfClose PROVE CleanEof'
    <3>1. /\ eof = "none" /\ UNCHANGED <<eof, in_conns, cancel_writer>>
          /\ (half_close' => half_close) /\ (wpc' = "drain" => half_close)
        BY <2>9 DEF WriterRecv, WriterWrites, WriterHalfClose, permits, Shape, Types, TWriter
    <3> QED
        BY <2>2, <3>1 DEF CleanEof, CleanEofIsComplete
  <2>10. ASSUME WriterReturns \/ UNCHANGED vars PROVE CleanEof'
    <3>1. /\ UNCHANGED <<eof, target, history, permits, in_conns>>
          /\ (wpc' = "drain" => wpc = "drain")
        BY <2>10 DEF WriterReturns, vars, writer
    <3> QED
        BY <2>2, <2>3, <3>1 DEF CleanEof, history, permits
  <2>11. ASSUME WriterDrain PROVE CleanEof'
    <3>1. UNCHANGED <<permits, in_conns, history>> /\ wpc = "drain" /\ eof = "none" /\ chunk = 0
        BY <2>11 DEF WriterDrain, Shape, Types, TWriter
    <3>2. Reasons'
        BY <2>2, <3>1 DEF permits
    <3>3. half_close_state = 2
        BY <3>1 DEF CleanEof, Reasons
    <3>4. CASE eof' = "half_close"
      <4>1. chan = <<>> /\ target' = target
          BY <2>11, <3>1, <3>4 DEF WriterDrain, WriterEnds
      <4> QED
          BY <2>4, <3>1, <3>2, <3>3, <4>1 DEF CleanEof, CleanEofIsComplete, history
    <3>5. CASE eof' # "half_close"
      <4>1. eof' \in {"none", "error"}
          BY <2>11, <3>1, <3>5 DEF WriterDrain, WriterEnds
      <4> QED
          BY <3>2, <4>1 DEF CleanEof, CleanEofIsComplete
    <3> QED
        BY <3>4, <3>5
  <2>12. ASSUME WriterOrphaned PROVE CleanEof'
    <3>1. /\ UNCHANGED <<permits, in_conns, history, target>> /\ wpc = "select"
          /\ wpc' = "shutdown" /\ eof = "none" /\ chunk = 0 /\ chan = <<>>
          /\ ~in_conns /\ ~cancel_writer
        BY <2>12 DEF WriterOrphaned, WriterEnds, Shape, Types, TWriter
    <3>2. half_close_state = 2
        BY <3>1 DEF CleanEof, Reasons
    <3>3. Reasons'
        BY <2>2, <3>1 DEF permits
    <3> QED
        BY <2>4, <3>1, <3>2, <3>3 DEF CleanEof, CleanEofIsComplete, history
  <2> QED
      BY <2>5, <2>6, <2>7, <2>8, <2>9, <2>10, <2>11, <2>12
      DEF Next, HandlerStep, WriterStep, Handler
<1> QED
    BY <1>1, <1>2, ShapeHolds, ClosingHolds, StreamHolds, PTL DEF Spec

\* A clean end of the target's stream is the whole stream: what the writer wrote
\* before it shut the socket down for the half-close, or because the last Arc of
\* the connection was dropped, is every DATA frame in order, unless the close was
\* forced or early or a chunk had been dropped.  An end after a cancel or a failed
\* write, which shuts the socket down too, is not meant.
THEOREM CleanEofIsWhole == Spec => []CleanEofIsComplete
BY CleanEofHolds, PTL DEF CleanEof

==============================================================================
