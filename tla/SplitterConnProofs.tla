-------------------------- MODULE SplitterConnProofs --------------------------
(***************************************************************************)
(* Proofs about a connection of the splitter, for every number of response *)
(* and upload frames and every capacity of the client channel.             *)
(***************************************************************************)
EXTENDS SplitterConn, DeliveryLemmas

------------------------------------------------------------------------------
(* What the reorder buffer hands on *)

LEMMA ReadyLenExists ==
    ASSUME NEW p \in SUBSET Seqs, NEW lo \in 1..(N + 1)
    PROVE  /\ ReadyLen(p, lo) \in 0..N
           /\ IsReadyLen(p, lo, ReadyLen(p, lo))
<1>1. \E k \in 0..N : IsReadyLen(p, lo, k)
    BY GapExists, SizeAssumption DEF Seqs
<1> QED
    BY <1>1 DEF ReadyLen, IsReadyLen

LEMMA ReadyLenUnique ==
    ASSUME NEW p \in SUBSET Seqs, NEW lo \in 1..(N + 1), NEW k \in 0..N,
           IsReadyLen(p, lo, k)
    PROVE  ReadyLen(p, lo) = k
<1>1. ReadyLen(p, lo) \in Nat /\ IsReadyLen(p, lo, ReadyLen(p, lo))
    BY ReadyLenExists, SizeAssumption
<1>2. lo \in Nat /\ k \in Nat
    BY SizeAssumption
<1> QED
    BY <1>1, <1>2, GapUnique

\* What push hands on: the seqs from Expected up to the next gap.
LEMMA RunFacts ==
    ASSUME pushed \in SUBSET Seqs, NEW s \in Seqs
    PROVE  /\ Expected \in 1..(N + 1)
           /\ Run(s) \in Seq(Seqs)
           /\ Len(Run(s)) = ReadyLen(pushed \cup {s}, Expected)
           /\ \A i \in 1..Len(Run(s)) : Run(s)[i] = Expected + i - 1
           /\ IsReadyLen(pushed \cup {s}, Expected, Len(Run(s)))
<1> DEFINE q == pushed \cup {s}
           r == ReadyLen(q, Expected)
<1>1. ReadyLen(pushed, 1) \in 0..N
    BY ReadyLenExists, SizeAssumption
<1>2. Expected \in 1..(N + 1)
    BY <1>1, SizeAssumption DEF Expected
<1>3. q \in SUBSET Seqs
    OBVIOUS
<1>4. r \in 0..N /\ IsReadyLen(q, Expected, r)
    BY <1>2, <1>3, ReadyLenExists
<1>5. Run(s) = [i \in 1..r |-> Expected + i - 1]
    BY DEF Run
<1> HIDE DEF q, r
<1>6. ASSUME NEW i \in 1..r PROVE Expected + i - 1 \in Seqs
  <2>1. Expected + i - 1 \in Expected..(Expected + r - 1)
      BY <1>2, <1>4, SizeAssumption
  <2> QED
      BY <1>3, <1>4, <2>1 DEF IsReadyLen
<1>7. Run(s) \in [1..r -> Seqs]
    BY <1>5, <1>6
<1>8. Run(s) \in Seq(Seqs) /\ Len(Run(s)) = r
  <2>1. r \in Nat
      BY <1>4, SizeAssumption
  <2>2. Run(s) \in Seq(Seqs)
      BY <1>7, <2>1, SeqDef
  <2> QED
      BY <1>7, <2>1, <2>2, LenProperties
<1> QED
    BY <1>2, <1>4, <1>5, <1>8 DEF q, r

------------------------------------------------------------------------------
(* The shape of the state and the reorder lock *)

Label == {"coming", "push", "deliver", "overflow", "reset", "store", "done"}
Delivering(s) == fpc[s] \in {"deliver", "overflow"}

TFlags ==
    /\ closed \in BOOLEAN /\ rst \in BOOLEAN /\ fin_received \in BOOLEAN
    /\ fin_seq \in {0, N + 1} /\ grace_waiting \in BOOLEAN /\ notify \in BOOLEAN
TFrames == pushed \in SUBSET Seqs /\ fpc \in [FrameHandler -> Label] /\ ready \in [Seqs -> Seq(Seqs)]
TWriter ==
    /\ chan \in Seq(Seqs) /\ Len(chan) <= CLIENT_CHANNEL_CAP
    /\ wpc \in {"none", "recv", "write", "shutdown", "ended"} /\ cut \in BOOLEAN
    /\ chunk \in 0..N /\ (wpc = "write" <=> chunk # 0)
    /\ client \in Seq(Seqs)
THandler ==
    /\ pc \in {"insert", "syn", "failed", "reply", "read", "sending", "fin", "enter",
               "grace", "tombstone", "await", "done"}
    /\ reason \in {"none", "eof", "read_error", "rst", "timeout", "no_tunnel"}
    /\ force_rst \in BOOLEAN
    /\ seq \in 1..(M + 1) /\ (pc = "sending" => seq <= M)
TSent == queued \in SUBSET (1..M) /\ fin_out \in 0..(M + 1) /\ rst_out \in BOOLEAN
THistory ==
    /\ rst_in \in BOOLEAN /\ dropped \in BOOLEAN
    /\ gave_up \in BOOLEAN /\ early \in BOOLEAN
TMap == in_conns \in BOOLEAN /\ hb \in {"idle", "closing"}

Types == TFlags /\ TFrames /\ TWriter /\ THandler /\ TSent /\ THistory /\ TMap

\* Who delivers holds the reorder lock: one handler at a time, and it alone has
\* chunks left; a handler on its way to push has not pushed its frame yet; and
\* an overflow has been noted.
Lock ==
    /\ \A g, h \in Seqs : (Delivering(g) /\ Delivering(h)) => g = h
    /\ \A s \in Seqs : Delivering(s) <=> ready[s] # <<>>
    /\ \A s \in Seqs : fpc[s] \in {"coming", "push"} => s \notin pushed
    /\ \A s \in Seqs : fpc[s] = "overflow" => dropped

Shape == Types /\ Lock

LEMMA ShapeImpliesTypeOK == Shape => TypeOK
BY DEF Shape, Types, TFlags, TFrames, TWriter, THandler, TSent, THistory, TMap, TypeOK, Label

LEMMA Goes ==
    ASSUME TFrames, NEW h \in FrameHandler, NEW l \in Label, FrameTo(h, l)
    PROVE  /\ fpc' \in [FrameHandler -> Label]
           /\ fpc'[h] = l
           /\ \A g \in FrameHandler \ {h} : fpc'[g] = fpc[g]
BY DEF FrameTo, TFrames

\* A handler that does not deliver moves on.
LEMMA MovesOn ==
    ASSUME Shape, NEW h \in FrameHandler, NEW l \in Label, FrameTo(h, l),
           UNCHANGED <<pushed, ready, dropped>>,
           fpc[h] \notin {"deliver", "overflow"},
           l \notin {"coming", "deliver", "overflow"},
           (l = "push" /\ h \in Seqs) => h \notin pushed
    PROVE  TFrames' /\ Lock'
<1>1. fpc' \in [FrameHandler -> Label]
      /\ fpc'[h] = l /\ \A g \in FrameHandler \ {h} : fpc'[g] = fpc[g]
    BY Goes DEF Shape, Types
<1>2. Lock'
    BY <1>1 DEF Shape, Lock, Delivering, FrameHandler
<1> QED
    BY <1>1, <1>2 DEF Shape, Types, TFrames

\* What a step leaves alone keeps its shape.
LEMMA Kept ==
    ASSUME Shape
    PROVE  /\ UNCHANGED flags => TFlags'
           /\ UNCHANGED frames => TFrames'
           /\ UNCHANGED <<chan, writer>> => TWriter'
           /\ UNCHANGED handler => THandler'
           /\ UNCHANGED sent => TSent'
           /\ UNCHANGED history => THistory'
           /\ UNCHANGED <<in_conns, hb>> => TMap'
           /\ UNCHANGED <<frames, dropped>> => Lock'
<1>1. UNCHANGED flags => TFlags'
    BY DEF Shape, Types, TFlags, flags
<1>2. UNCHANGED frames => TFrames'
    BY DEF Shape, Types, TFrames, frames
<1>3. UNCHANGED <<chan, writer>> => TWriter'
    BY DEF Shape, Types, TWriter, writer
<1>4. UNCHANGED handler => THandler'
    BY DEF Shape, Types, THandler, handler
<1>5. UNCHANGED sent => TSent'
    BY DEF Shape, Types, TSent, sent
<1>6. UNCHANGED history => THistory'
    BY DEF Shape, Types, THistory, history
<1>7. UNCHANGED <<in_conns, hb>> => TMap'
    BY DEF Shape, Types, TMap
<1>8. UNCHANGED <<frames, dropped>> => Lock'
    BY DEF Shape, Lock, Delivering, frames
<1> QED
    BY <1>1, <1>2, <1>3, <1>4, <1>5, <1>6, <1>7, <1>8

\* The writer task is spawned once, after the SYN and the reply.
Opening == pc \in {"insert", "syn", "failed", "reply"} => wpc = "none"

LEMMA OpeningHolds == Spec => []Opening
<1>1. Init => Opening
    BY DEF Init, Opening
<1>2. ASSUME Opening, [Next]_vars PROVE Opening'
  <2>1. CASE HandlerStep \/ ReadChunk \/ ReadEnds
      BY <1>2, <2>1
      DEF Opening, HandlerStep, ReadChunk, ReadEnds, Open, ConnInsert, SynQueued, SynFails, Reply,
          Notified, DataSent, DataTimeout, FinSent, FinTimeout, FinSkipped, GraceEnter, Grace,
          ConnRemove, Awaited, Leave, writer
  <2>2. CASE \E h \in FrameHandler : FrameStep(h) \/ FrameLost(h) \/ DataLookup(h)
      BY <1>2, <2>2
      DEF Opening, FrameStep, FrameLost, DataLookup, DataPush, Pushed, DataDeliver, DataReset,
          FinStore, writer, handler
  <2>3. CASE FinLookup \/ RemoteRst \/ WriterStep \/ SweepClose \/ SweepRemove
      BY <1>2, <2>3
      DEF Opening, FinLookup, RemoteRst, WriterStep, SweepClose, SweepRemove, WriterRecv,
          WriterWrites, WriterFails, WriterDrained, WriterShutdown, writer, handler
  <2>4. CASE UNCHANGED vars
      BY <1>2, <2>4 DEF Opening, vars, writer, handler
  <2> QED
      BY <1>2, <2>1, <2>2, <2>3, <2>4 DEF Next, FrameHandler
<1> QED
    BY <1>1, <1>2, PTL DEF Spec

LEMMA ShapeHolds == Spec => []Shape
<1>1. Init => Shape
  <2> SUFFICES ASSUME Init PROVE Shape
      OBVIOUS
  <2>1. TFlags /\ TSent /\ THistory /\ TMap
    <3>1. 0 \in 0..(M + 1)
        BY SizeAssumption
    <3> QED
        BY <3>1 DEF Init, TFlags, TSent, THistory, TMap
  <2>2. THandler
    <3>1. 1 \in 1..(M + 1)
        BY SizeAssumption
    <3> QED
        BY <3>1 DEF Init, THandler
  <2>3. TFrames
      BY EmptySeq DEF Init, TFrames, Label
  <2>4. TWriter
    <3>1. cut \in BOOLEAN
        BY DEF Init
    <3> QED
        BY <3>1, SizeAssumption, ChannelAssumption, EmptySeq DEF Init, TWriter
  <2>5. Lock
      BY DEF Init, Lock, Delivering, FrameHandler
  <2> QED
      BY <2>1, <2>2, <2>3, <2>4, <2>5 DEF Shape, Types
<1>2. ASSUME Shape, Opening, [Next]_vars PROVE Shape'
  <2> USE <1>2, SizeAssumption, ChannelAssumption
  <2> DEFINE G == TFlags' /\ TFrames' /\ TWriter' /\ THandler' /\ TSent' /\ THistory'
                  /\ TMap' /\ Lock'
  <2> SUFFICES G
      BY DEF Shape, Types
  <2>1. ASSUME Open PROVE G
    <3>1. THandler'
        BY <2>1 DEF Open, ConnInsert, SynQueued, SynFails, Reply, writer, Shape, Types, THandler
    <3>2. TMap'
        BY <2>1 DEF Open, ConnInsert, SynQueued, SynFails, Reply, writer, Shape, Types, TMap
    <3>3. TWriter'
        BY <2>1 DEF Open, ConnInsert, SynQueued, SynFails, Reply, writer, Shape, Types, TWriter, Opening
    <3> QED
        BY <2>1, <3>1, <3>2, <3>3, Kept DEF Open, ConnInsert, SynQueued, SynFails, Reply, writer, history
  <2>2. ASSUME ReadChunk PROVE G
    <3>1. THandler'
        BY <2>2 DEF ReadChunk, Shape, Types, THandler
    <3> QED
        BY <2>2, <3>1, Kept DEF ReadChunk, history
  <2>3. ASSUME ReadEnds PROVE G
    <3>1. THandler'
        BY <2>3 DEF ReadEnds, Leave, Shape, Types, THandler
    <3> QED
        BY <2>3, <3>1, Kept DEF ReadEnds, Leave, history
  <2>4. ASSUME Notified PROVE G
    <3>1. THandler'
        BY <2>4 DEF Notified, Leave, Shape, Types, THandler
    <3>2. TFlags'
        BY <2>4 DEF Notified, Leave, Shape, Types, TFlags
    <3> QED
        BY <2>4, <3>1, <3>2, Kept DEF Notified, Leave, history
  <2>5. ASSUME DataSent PROVE G
    <3>1. THandler'
        BY <2>5 DEF DataSent, Shape, Types, THandler
    <3>2. TSent'
        BY <2>5 DEF DataSent, Shape, Types, TSent, THandler
    <3> QED
        BY <2>5, <3>1, <3>2, Kept DEF DataSent, history
  <2>6. ASSUME DataTimeout PROVE G
    <3>1. THandler'
        BY <2>6 DEF DataTimeout, Leave, Shape, Types, THandler
    <3> QED
        BY <2>6, <3>1, Kept DEF DataTimeout, Leave, history
  <2>7. ASSUME FinSent PROVE G
    <3>1. THandler'
        BY <2>7 DEF FinSent, Shape, Types, THandler
    <3>2. TSent'
        BY <2>7 DEF FinSent, Shape, Types, TSent, THandler
    <3> QED
        BY <2>7, <3>1, <3>2, Kept DEF FinSent, history
  <2>8. ASSUME FinTimeout PROVE G
    <3>1. THandler'
        BY <2>8 DEF FinTimeout, Shape, Types, THandler
    <3>2. TSent'
        BY <2>8 DEF FinTimeout, Shape, Types, TSent
    <3> QED
        BY <2>8, <3>1, <3>2, Kept DEF FinTimeout, history
  <2>9. ASSUME FinSkipped PROVE G
    <3>1. THandler'
        BY <2>9 DEF FinSkipped, Shape, Types, THandler
    <3> QED
        BY <2>9, <3>1, Kept DEF FinSkipped, history
  <2>10. ASSUME GraceEnter PROVE G
    <3>1. THandler'
        BY <2>10 DEF GraceEnter, Shape, Types, THandler
    <3>2. TFlags'
        BY <2>10 DEF GraceEnter, Shape, Types, TFlags
    <3> QED
        BY <2>10, <3>1, <3>2, Kept DEF GraceEnter, history
  <2>11. ASSUME Grace PROVE G
    <3>1. THandler'
        BY <2>11 DEF Grace, Shape, Types, THandler
    <3>2. THistory'
        BY <2>11 DEF Grace, Shape, Types, THistory
    <3> QED
        BY <2>11, <3>1, <3>2, Kept DEF Grace, history
  <2>12. ASSUME ConnRemove PROVE G
    <3>1. THandler'
        BY <2>12 DEF ConnRemove, Shape, Types, THandler
    <3>2. TMap'
        BY <2>12 DEF ConnRemove, Shape, Types, TMap
    <3> QED
        BY <2>12, <3>1, <3>2, Kept DEF ConnRemove, history
  <2>13. ASSUME Awaited PROVE G
    <3>1. THandler'
        BY <2>13 DEF Awaited, Shape, Types, THandler
    <3> QED
        BY <2>13, <3>1, Kept DEF Awaited, history
  <2>14. ASSUME NEW h \in FrameHandler, FrameLost(h) PROVE G
    <3>1. PICK l \in {"done"} : FrameTo(h, l)
        BY <2>14 DEF FrameLost
    <3>2. TFrames' /\ Lock'
        BY <2>14, <3>1, MovesOn DEF FrameLost, Label, Shape, Lock, FrameHandler, history
    <3> QED
        BY <2>14, <3>1, <3>2, Kept DEF FrameLost, history
  <2>15. ASSUME NEW s \in Seqs, DataLookup(s) PROVE G
    <3>1. PICK l \in {"push", "done"} : FrameTo(s, l)
        BY <2>15 DEF DataLookup
    <3>2. TFrames' /\ Lock'
        BY <2>15, <3>1, MovesOn DEF DataLookup, Label, Shape, Lock, FrameHandler, history
    <3>3. TSent'
        BY <2>15 DEF DataLookup, Shape, Types, TSent
    <3> QED
        BY <2>15, <3>1, <3>2, <3>3, Kept DEF DataLookup, history
  <2>16. ASSUME NEW s \in Seqs, DataReset(s) PROVE G
    <3>1. PICK l \in {"done"} : FrameTo(s, l)
        BY <2>16 DEF DataReset
    <3>2. TFrames' /\ Lock'
        BY <2>16, <3>1, MovesOn DEF DataReset, Label, Shape, Lock, FrameHandler, history
    <3>3. TFlags'
        BY <2>16 DEF DataReset, reset_conn, Shape, Types, TFlags
    <3>4. TSent'
        BY <2>16 DEF DataReset, reset_conn, Shape, Types, TSent
    <3>5. TMap'
        BY <2>16 DEF DataReset, reset_conn, Shape, Types, TMap
    <3> QED
        BY <2>16, <3>1, <3>2, <3>3, <3>4, <3>5, Kept DEF DataReset, reset_conn, history
  <2>17. ASSUME FinLookup PROVE G
    <3>1. PICK l \in {"store", "done"} : FrameTo(FIN, l)
        BY <2>17 DEF FinLookup
    <3>2. TFrames' /\ Lock'
        BY <2>17, <3>1, MovesOn DEF FinLookup, Label, Shape, Lock, FrameHandler, history
    <3>3. TFlags'
        BY <2>17 DEF FinLookup, Shape, Types, TFlags
    <3> QED
        BY <2>17, <3>1, <3>2, <3>3, Kept DEF FinLookup, history
  <2>18. ASSUME FinStore PROVE G
    <3>1. PICK l \in {"done"} : FrameTo(FIN, l)
        BY <2>18 DEF FinStore
    <3>2. TFrames' /\ Lock'
        BY <2>18, <3>1, MovesOn DEF FinStore, Label, Shape, Lock, FrameHandler, history
    <3>3. TFlags'
        BY <2>18 DEF FinStore, Shape, Types, TFlags
    <3> QED
        BY <2>18, <3>1, <3>2, <3>3, Kept DEF FinStore, history
  <2>19. ASSUME RemoteRst PROVE G
    <3>1. TFlags'
        BY <2>19 DEF RemoteRst, reset_conn, Shape, Types, TFlags
    <3>2. TSent'
        BY <2>19 DEF RemoteRst, reset_conn, Shape, Types, TSent
    <3>3. TMap'
        BY <2>19 DEF RemoteRst, reset_conn, Shape, Types, TMap
    <3>4. THistory'
        BY <2>19 DEF RemoteRst, reset_conn, Shape, Types, THistory
    <3> QED
        BY <2>19, <3>1, <3>2, <3>3, <3>4, Kept DEF RemoteRst, reset_conn, history
  <2>20. ASSUME SweepClose PROVE G
    <3>1. TFlags'
        BY <2>20 DEF SweepClose, Shape, Types, TFlags
    <3>2. TMap'
        BY <2>20 DEF SweepClose, Shape, Types, TMap
    <3> QED
        BY <2>20, <3>1, <3>2, Kept DEF SweepClose, history
  <2>21. ASSUME SweepRemove PROVE G
    <3>1. TFlags'
        BY <2>21 DEF SweepRemove, Shape, Types, TFlags
    <3>2. TMap'
        BY <2>21 DEF SweepRemove, Shape, Types, TMap
    <3>3. TSent'
        BY <2>21 DEF SweepRemove, Shape, Types, TSent
    <3> QED
        BY <2>21, <3>1, <3>2, <3>3, Kept DEF SweepRemove, history
  <2>22. ASSUME NEW s \in Seqs, DataPush(s) PROVE G
    <3>1. /\ s \in FrameHandler /\ fpc[s] = "push" /\ UNCHANGED dropped
          /\ \A g \in Seqs : ~Delivering(g)
        BY <2>22 DEF DataPush, Pushed, LockFree, FrameHandler, Delivering, history
    <3>2. CASE s > Expected /\ FrameTo(s, "reset") /\ UNCHANGED <<pushed, ready>>
      <4>1. TFrames' /\ Lock'
          BY <3>1, <3>2, MovesOn DEF Label
      <4> QED
          BY <2>22, <4>1, Kept DEF DataPush, Pushed
    <3>3. CASE /\ pushed' = pushed \cup {s}
               /\ ready' = [ready EXCEPT ![s] = Run(s)]
               /\ FrameTo(s, IF Run(s) = <<>> THEN "done" ELSE "deliver")
      <4>1. PICK l \in {"done", "deliver"} :
                 FrameTo(s, l) /\ (l = "done" <=> Run(s) = <<>>)
          BY <3>3
      <4>2. fpc' \in [FrameHandler -> Label]
            /\ fpc'[s] = l /\ \A g \in FrameHandler \ {s} : fpc'[g] = fpc[g]
          BY <3>1, <4>1, Goes DEF Label, Shape, Types
      <4>3. Run(s) \in Seq(Seqs)
          BY RunFacts DEF Shape, Types, TFrames
      <4>4. /\ ready' \in [Seqs -> Seq(Seqs)] /\ ready'[s] = Run(s)
            /\ \A g \in Seqs \ {s} : ready'[g] = ready[g]
          BY <3>3, <4>3 DEF Shape, Types, TFrames
      <4>5. TFrames'
          BY <3>3, <4>2, <4>4 DEF Shape, Types, TFrames
      <4>6. Lock'
          BY <3>1, <3>3, <4>1, <4>2, <4>4 DEF Shape, Lock, Delivering, FrameHandler
      <4> QED
          BY <2>22, <4>5, <4>6, Kept DEF DataPush, Pushed
    <3> QED
        BY <2>22, <3>2, <3>3 DEF DataPush, Pushed
  <2>23. ASSUME NEW s \in Seqs, DataDeliver(s) PROVE G
    <3>1. /\ s \in FrameHandler /\ Delivering(s) /\ ready[s] # <<>> /\ ready[s] \in Seq(Seqs)
          /\ \A g \in Seqs \ {s} : ~Delivering(g)
        BY <2>23 DEF DataDeliver, FrameHandler, Delivering, Shape, Lock, Types, TFrames
    <3>2. /\ Head(ready[s]) \in Seqs /\ Tail(ready[s]) \in Seq(Seqs)
          /\ (Len(ready[s]) = 1 <=> Tail(ready[s]) = <<>>)
        BY <3>1, TailFacts
    <3>3. PICK l \in {"reset", "done", "overflow", "deliver"} :
               /\ FrameTo(s, l)
               /\ (l \in {"deliver", "overflow"} <=> Len(ready[s]) # 1)
               /\ (l = "overflow" => fpc[s] = "overflow" \/ ~Room)
        BY <2>23 DEF DataDeliver
    <3>4. fpc' \in [FrameHandler -> Label]
          /\ fpc'[s] = l /\ \A g \in FrameHandler \ {s} : fpc'[g] = fpc[g]
        BY <3>1, <3>3, Goes DEF Label, Shape, Types
    <3>5. /\ ready' \in [Seqs -> Seq(Seqs)] /\ ready'[s] = Tail(ready[s])
          /\ \A g \in Seqs \ {s} : ready'[g] = ready[g]
        BY <2>23, <3>2 DEF DataDeliver, Shape, Types, TFrames
    <3>6. pushed' = pushed /\ (dropped => dropped') /\ (~Room => dropped')
        BY <2>23 DEF DataDeliver
    <3>7. TFrames'
        BY <3>4, <3>5, <3>6 DEF Shape, Types, TFrames
    <3>8. Lock'
        BY <3>1, <3>2, <3>3, <3>4, <3>5, <3>6 DEF Shape, Lock, Delivering, FrameHandler
    <3>9. TWriter'
      <4>1. chan' \in Seq(Seqs) /\ Len(chan') <= CLIENT_CHANNEL_CAP
        <5>1. CASE Room
          <6>1. chan' = Append(chan, Head(ready[s])) /\ chan \in Seq(Seqs)
                /\ Len(chan) < CLIENT_CHANNEL_CAP
              BY <2>23, <5>1 DEF DataDeliver, Room, Shape, Types, TWriter
          <6>2. chan' \in Seq(Seqs) /\ Len(chan') = Len(chan) + 1 /\ Len(chan) \in Nat
              BY <3>2, <6>1, AppendFacts
          <6> QED
              BY <6>1, <6>2
        <5>2. CASE ~Room
            BY <2>23, <5>2 DEF DataDeliver, Shape, Types, TWriter
        <5> QED
            BY <5>1, <5>2
      <4> QED
          BY <2>23, <4>1 DEF DataDeliver, Shape, Types, TWriter, writer
    <3>10. THistory'
        BY <2>23 DEF DataDeliver, Shape, Types, THistory
    <3> QED
        BY <2>23, <3>7, <3>8, <3>9, <3>10, Kept DEF DataDeliver
  <2>24. ASSUME WriterRecv PROVE G
    <3>1. chan \in Seq(Seqs) /\ chan # <<>>
        BY <2>24 DEF WriterRecv, Shape, Types, TWriter
    <3>2. Head(chan) \in Seqs /\ Tail(chan) \in Seq(Seqs)
          /\ Len(Tail(chan)) = Len(chan) - 1 /\ Len(chan) \in Nat
        BY <3>1, TailFacts
    <3>3. TWriter'
        BY <2>24, <3>2 DEF WriterRecv, Shape, Types, TWriter, Seqs
    <3> QED
        BY <2>24, <3>3, Kept DEF WriterRecv, history
  <2>25. ASSUME WriterWrites PROVE G
    <3>1. client \in Seq(Seqs) /\ chunk \in Seqs
        BY <2>25 DEF WriterWrites, Shape, Types, TWriter, Seqs
    <3>2. client' \in Seq(Seqs)
        BY <2>25, <3>1, AppendFacts DEF WriterWrites
    <3>3. TWriter'
        BY <2>25, <3>2 DEF WriterWrites, Shape, Types, TWriter
    <3> QED
        BY <2>25, <3>3, Kept DEF WriterWrites, history
  <2>26. ASSUME WriterFails PROVE G
    <3>1. TWriter'
        BY <2>26 DEF WriterFails, Shape, Types, TWriter
    <3> QED
        BY <2>26, <3>1, Kept DEF WriterFails, history
  <2>27. ASSUME WriterDrained PROVE G
    <3>1. TWriter'
        BY <2>27 DEF WriterDrained, Shape, Types, TWriter
    <3> QED
        BY <2>27, <3>1, Kept DEF WriterDrained, history
  <2>28. ASSUME WriterShutdown PROVE G
    <3>1. TWriter'
        BY <2>28, EmptySeq DEF WriterShutdown, Shape, Types, TWriter
    <3> QED
        BY <2>28, <3>1, Kept DEF WriterShutdown, history
  <2>29. CASE UNCHANGED vars
      BY <2>29, Kept DEF vars, history
  <2> QED
      BY <2>1, <2>2, <2>3, <2>4, <2>5, <2>6, <2>7, <2>8, <2>9, <2>10, <2>11, <2>12,
         <2>13, <2>14, <2>15, <2>16, <2>17, <2>18, <2>19, <2>20, <2>21, <2>22, <2>23,
         <2>24, <2>25, <2>26, <2>27, <2>28, <2>29 DEF Next, HandlerStep, FrameStep, WriterStep
<1> QED
    BY <1>1, <1>2, OpeningHolds, PTL DEF Spec

\* The state of a VirtConn, its handler and its writer keeps its shape.
THEOREM TypeCorrect == Spec => []TypeOK
BY ShapeHolds, ShapeImpliesTypeOK, PTL

------------------------------------------------------------------------------
(* The upload and its end *)

Closed == {"enter", "grace", "tombstone", "await", "done"}

\* A tunnel has taken exactly the frames below seq, and a FIN was sent with the
\* seq at which the upload had stopped for good.
Upload ==
    /\ queued = 1..(seq - 1)
    /\ fin_out > 0 => (fin_out = seq /\ pc \in Closed)

LEMMA UploadHolds == Spec => []Upload
<1>1. Init => Upload
    BY DEF Init, Upload
<1>2. ASSUME Shape, Upload, [Next]_vars PROVE Upload'
  <2> USE <1>2
  <2>0. seq \in Nat \ {0} /\ fin_out \in Nat
      BY SizeAssumption DEF Shape, Types, THandler, TSent
  <2>1. ASSUME UNCHANGED <<seq, queued, fin_out>>, pc \in Closed => pc' \in Closed
        PROVE  Upload'
      BY <2>1 DEF Upload
  <2>2. CASE DataSent
    <3>1. fin_out' = 0 /\ queued' = queued \cup {seq} /\ seq' = seq + 1
        BY <2>0, <2>2 DEF DataSent, Upload, Closed
    <3>2. queued' = 1..(seq' - 1)
        BY <2>0, <3>1 DEF Upload
    <3> QED
        BY <3>1, <3>2 DEF Upload
  <2>3. CASE FinSent
      BY <2>0, <2>3 DEF FinSent, Upload, Closed
  <2>4. CASE Open \/ ReadChunk \/ ReadEnds \/ Notified \/ DataTimeout \/ FinTimeout \/ FinSkipped
      BY <2>1, <2>4
      DEF Open, ConnInsert, SynQueued, SynFails, Reply, ReadChunk, ReadEnds, Notified, DataTimeout,
          FinTimeout, FinSkipped, Leave, sent, Closed
  <2>5. CASE GraceEnter \/ Grace \/ ConnRemove \/ Awaited
      BY <2>1, <2>5 DEF GraceEnter, Grace, ConnRemove, Awaited, sent, Closed
  <2>6. CASE \E h \in FrameHandler : FrameStep(h) \/ FrameLost(h) \/ DataLookup(h)
      BY <2>1, <2>6
      DEF FrameStep, FrameLost, DataLookup, DataPush, Pushed, DataDeliver, DataReset, FinStore,
          handler, sent
  <2>7. CASE FinLookup \/ RemoteRst \/ WriterStep \/ SweepClose \/ SweepRemove
      BY <2>1, <2>7
      DEF FinLookup, RemoteRst, WriterStep, SweepClose, SweepRemove, WriterRecv, WriterWrites,
          WriterFails, WriterDrained, WriterShutdown, handler, sent
  <2>8. CASE UNCHANGED vars
      BY <2>1, <2>8 DEF vars, handler, sent
  <2> QED
      BY <2>2, <2>3, <2>4, <2>5, <2>6, <2>7, <2>8 DEF Next, HandlerStep, FrameHandler
<1> QED
    BY <1>1, <1>2, ShapeHolds, PTL DEF Spec

\* B61: the FIN names exactly the frames that a tunnel has taken, also after
\* timeouts, resets and sweeps (handle_tcp_client).
THEOREM FinCovers == Spec => []FinCoversUpload
<1>1. Upload => FinCoversUpload
    BY DEF Upload, FinCoversUpload
<1> QED
    BY <1>1, UploadHolds, PTL

\* Whoever resets the connection tells the reassembler, the handler leaves with
\* "rst" only after a reset, and past its FIN it has told it as well.
Told ==
    /\ rst => rst_out
    /\ reason = "rst" => rst
    /\ pc \in Closed => (fin_out > 0 \/ rst_out)

LEMMA ToldHolds == Spec => []Told
<1>1. Init => Told
    BY DEF Init, Told, Closed
<1>2. ASSUME Shape, Told, [Next]_vars PROVE Told'
  <2> USE <1>2
  <2>0. seq \in Nat \ {0} /\ fin_out \in Nat
      BY SizeAssumption DEF Shape, Types, THandler, TSent
  <2>1. ASSUME UNCHANGED <<rst, fin_out>>, rst_out => rst_out', UNCHANGED reason \/ reason' # "rst",
               pc' \in Closed => (pc \in Closed \/ fin_out > 0 \/ rst_out')
        PROVE  Told'
      BY <2>1 DEF Told
  <2>2. CASE FinSent
      BY <2>0, <2>2 DEF FinSent, Told, Closed, flags
  <2>3. CASE Notified
      BY <2>3 DEF Notified, Leave, Told, Closed, sent
  <2>4. CASE FinSkipped
      BY <2>4 DEF FinSkipped, Told, flags, sent
  <2>5. CASE FinTimeout
      BY <2>1, <2>5 DEF FinTimeout, Closed, flags
  <2>6. CASE Open \/ ReadChunk \/ ReadEnds \/ DataSent \/ DataTimeout
      BY <2>1, <2>6
      DEF Open, ConnInsert, SynQueued, SynFails, Reply, ReadChunk, ReadEnds, DataSent, DataTimeout,
          Leave, flags, sent, Closed
  <2>7. CASE GraceEnter \/ Grace \/ ConnRemove \/ Awaited
      BY <2>1, <2>7 DEF GraceEnter, Grace, ConnRemove, Awaited, flags, sent, Closed
  <2>8. CASE RemoteRst \/ SweepRemove \/ \E s \in Seqs : DataReset(s)
    <3>1. rst_out' /\ UNCHANGED <<reason, pc>> /\ (rst => rst')
        BY <2>8 DEF RemoteRst, SweepRemove, DataReset, reset_conn, handler
    <3> QED
        BY <3>1 DEF Told
  <2>9. CASE \E h \in FrameHandler :
                \/ DataPush(h) \/ DataDeliver(h) \/ FrameLost(h) \/ DataLookup(h)
      BY <2>1, <2>9 DEF DataPush, Pushed, DataDeliver, FrameLost, DataLookup, handler, sent, flags
  <2>10. CASE FinStore \/ FinLookup \/ WriterStep \/ SweepClose
      BY <2>1, <2>10
      DEF FinStore, FinLookup, WriterStep, SweepClose, WriterRecv, WriterWrites, WriterFails,
          WriterDrained, WriterShutdown, handler, sent, flags
  <2>11. CASE UNCHANGED vars
      BY <2>1, <2>11 DEF vars, handler, sent, flags
  <2> QED
      BY <2>2, <2>3, <2>4, <2>5, <2>6, <2>7, <2>8, <2>9, <2>10, <2>11
      DEF Next, HandlerStep, FrameStep, FrameHandler
<1> QED
    BY <1>1, <1>2, ShapeHolds, PTL DEF Spec

\* BUG-11: no handler ends without the reassembler having been told, whatever
\* became of its tunnels (handle_tcp_client, reset_conn and the sweep).
THEOREM PeerIsTold == Spec => []PeerTold
<1>1. Told => PeerTold
    BY DEF Told, PeerTold, Closed
<1> QED
    BY <1>1, ToldHolds, PTL

------------------------------------------------------------------------------
(* The end of the client's stream *)

\* A writer that left its loop without having given up has found the channel
\* empty, and for good.
Ending ==
    /\ cut => wpc \in {"shutdown", "ended"}
    /\ (wpc \in {"shutdown", "ended"} /\ ~cut) => (pc \in {"await", "done"} /\ chan = <<>>)

\* A handler that went through the close grace and was neither torn down nor
\* gave up has seen the whole response pushed; and once it has removed its entry
\* nobody works on the connection any more.
Farewell ==
    /\ (/\ pc \in {"tombstone", "await", "done"} /\ reason = "eof" /\ fin_out > 0
        /\ ~closed /\ ~gave_up /\ ~early)
           => Seqs \subseteq pushed
    /\ pc \in {"await", "done"} =>
           /\ ~in_conns
           /\ \A s \in Seqs : fpc[s] \notin {"push", "deliver", "overflow"}
    /\ Ending

LEMMA FarewellHolds == Spec => []Farewell
<1>1. Init => Farewell
    BY DEF Init, Farewell, Ending
<1>2. ASSUME Shape, Opening, Upload, Farewell, [Next]_vars PROVE Farewell'
  <2> USE <1>2
  <2> DEFINE F1 == (/\ pc \in {"tombstone", "await", "done"} /\ reason = "eof" /\ fin_out > 0
                    /\ ~closed /\ ~gave_up /\ ~early) => Seqs \subseteq pushed
             F2 == pc \in {"await", "done"} =>
                      /\ ~in_conns
                      /\ \A s \in Seqs : fpc[s] \notin {"push", "deliver", "overflow"}
             F3 == Ending
  <2>1. F1 /\ F2 /\ F3 /\ (F1' /\ F2' /\ F3' => Farewell')
      BY DEF Farewell
  <2>2. CASE Open \/ ReadChunk \/ ReadEnds \/ Notified \/ DataSent \/ DataTimeout \/ GraceEnter
    <3>1. pc' \notin {"tombstone", "await", "done"} /\ pc \notin {"tombstone", "await", "done"}
        BY <2>2
        DEF Open, ConnInsert, SynQueued, SynFails, Reply, ReadChunk, ReadEnds, Notified, DataSent,
            DataTimeout, GraceEnter, Leave
    <3>2. UNCHANGED <<cut, chan>> /\ (wpc' # wpc => wpc' = "recv" /\ wpc = "none")
        BY <2>2
        DEF Open, ConnInsert, SynQueued, SynFails, Reply, ReadChunk, ReadEnds, Notified,
            DataSent, DataTimeout, GraceEnter, writer, Opening
    <3>3. F3'
        BY <2>1, <3>1, <3>2 DEF Ending
    <3> QED
        BY <2>1, <3>1, <3>3
  <2>3. CASE FinSent \/ FinTimeout \/ FinSkipped
    <3>1. /\ pc = "fin" /\ pc' \in {"enter", "tombstone"}
          /\ (pc' = "tombstone" => (reason' # "eof" \/ fin_out' = fin_out))
          /\ UNCHANGED <<wpc, cut, chan>>
        BY <2>3 DEF FinSent, FinTimeout, FinSkipped, writer, sent
    <3>2. ~(fin_out > 0)
        BY <3>1 DEF Upload, Closed
    <3> QED
        BY <2>1, <3>1, <3>2 DEF Ending
  <2>4. CASE Grace
    <3>1. /\ pc = "grace" /\ pc' = "tombstone"
          /\ UNCHANGED <<wpc, cut, chan, pushed, closed, fin_seq>>
        BY <2>4 DEF Grace, writer, flags, frames
    <3>2. (~closed /\ ~gave_up' /\ ~early') => (Complete(fin_seq) /\ fin_seq # 0)
        BY <2>4 DEF Grace, GraceComplete
    <3>3. (~closed /\ ~gave_up' /\ ~early') => Seqs \subseteq pushed
      <4>1. fin_seq # 0 => fin_seq = N + 1
          BY DEF Shape, Types, TFlags
      <4>2. N + 1 - 1 = N
          BY SizeAssumption
      <4>3. Complete(N + 1) => Seqs \subseteq pushed
          BY <4>2, SizeAssumption DEF Complete, Seqs
      <4> QED
          BY <3>2, <4>1, <4>3
    <3> QED
        BY <2>1, <3>1, <3>3 DEF Ending
  <2>5. CASE ConnRemove
    <3>1. /\ pc = "tombstone" /\ pc' = "await" /\ ~in_conns'
          /\ UNCHANGED <<wpc, cut, chan, pushed, closed, fpc, gave_up, early, reason, fin_out>>
        BY <2>5 DEF ConnRemove, writer, flags, frames, history, sent
    <3>2. \A s \in Seqs : fpc[s] \notin {"push", "deliver", "overflow"}
        BY <2>5 DEF ConnRemove, Removable, FrameHandler
    <3> QED
        BY <2>1, <3>1, <3>2 DEF Ending
  <2>6. CASE Awaited
      BY <2>1, <2>6 DEF Awaited, Ending, writer, flags, frames, history, sent
  <2>7. CASE \E h \in FrameHandler :
                \/ FrameLost(h)
                \/ h \in Seqs /\ (DataLookup(h) \/ DataReset(h) \/ DataPush(h))
                \/ h = FIN /\ (FinLookup \/ FinStore)
    <3>1. PICK h \in FrameHandler :
                \/ FrameLost(h)
                \/ h \in Seqs /\ (DataLookup(h) \/ DataReset(h) \/ DataPush(h))
                \/ h = FIN /\ (FinLookup \/ FinStore)
        BY <2>7
    <3>2. /\ UNCHANGED <<pc, reason, fin_out, gave_up, early, wpc, cut, chan>>
          /\ (closed => closed') /\ pushed \subseteq pushed'
          /\ (in_conns' => in_conns)
      <4>1. CASE h \in Seqs /\ DataReset(h)
          BY <4>1 DEF DataReset, reset_conn, handler, history, writer
      <4> QED
          BY <3>1, <4>1
          DEF FrameLost, DataLookup, DataPush, Pushed, FinLookup, FinStore, handler, sent,
              history, writer, flags
    <3>3. PICK l \in {"push", "store", "reset", "done", "deliver"} :
               /\ FrameTo(h, l)
               /\ (l \in {"push", "deliver"} => (in_conns \/ (h \in Seqs /\ fpc[h] = "push")))
        BY <3>1 DEF FrameLost, DataLookup, DataReset, DataPush, Pushed, FinLookup, FinStore
    <3>4. fpc'[h] = l /\ \A g \in FrameHandler \ {h} : fpc'[g] = fpc[g]
        BY <3>3, Goes DEF Label, Shape, Types
    <3>5. F2'
        BY <2>1, <3>2, <3>3, <3>4 DEF FrameHandler
    <3> QED
        BY <2>1, <3>2, <3>5 DEF Ending
  <2>8. CASE \E s \in Seqs : DataDeliver(s)
    <3>1. PICK s \in Seqs : DataDeliver(s)
        BY <2>8
    <3>2. fpc[s] \in {"deliver", "overflow"}
          /\ UNCHANGED <<pc, reason, fin_out, gave_up, early, wpc, cut, closed, pushed>>
        BY <3>1 DEF DataDeliver, handler, sent, writer, flags
    <3>3. pc \notin {"await", "done"}
        BY <2>1, <3>2
    <3> QED
        BY <2>1, <3>2, <3>3 DEF Ending
  <2>9. CASE WriterStep
      BY <2>1, <2>9
      DEF WriterStep, WriterRecv, WriterWrites, WriterFails, WriterDrained,
          WriterShutdown, Ending, flags, frames, handler, sent, history
  <2>10. CASE RemoteRst \/ SweepClose \/ SweepRemove
    <3>1. /\ UNCHANGED <<pc, reason, fin_out, gave_up, early, wpc, cut, chan, frames>>
          /\ (closed => closed') /\ (in_conns' => in_conns)
      <4>1. CASE RemoteRst
          BY <4>1 DEF RemoteRst, reset_conn, handler, writer
      <4> QED
          BY <2>10, <4>1 DEF SweepClose, SweepRemove, handler, sent, history, writer
    <3> QED
        BY <2>1, <3>1 DEF frames, Ending
  <2>11. CASE UNCHANGED vars
      BY <2>1, <2>11 DEF vars, Ending, flags, frames, handler, sent, history, writer
  <2> QED
      BY <2>2, <2>3, <2>4, <2>5, <2>6, <2>7, <2>8, <2>9, <2>10, <2>11
      DEF Next, HandlerStep, FrameStep, FrameHandler
<1> QED
    BY <1>1, <1>2, ShapeHolds, OpeningHolds, UploadHolds, PTL DEF Spec

------------------------------------------------------------------------------
(* The stream the client receives *)

\* The chunk in the writer's hand, and the chunks that have left the lock holder.
InHand == IF chunk = 0 THEN 0 ELSE 1
HandedOn == Len(client) + InHand + Len(chan)
NoneDelivers == \A s \in Seqs : ~Delivering(s)

\* Behind what the client has come the chunk in hand, the channel and the lock
\* holder's chunks: in this order, the seqs up to the first that is missing.
InOrder ==
    /\ chunk # 0 => chunk = Len(client) + 1
    /\ \A i \in 1..Len(chan) : chan[i] = Len(client) + InHand + i
    /\ \A s \in Seqs : Delivering(s) =>
          /\ \A i \in 1..Len(ready[s]) : ready[s][i] = HandedOn + i
          /\ IsReadyLen(pushed, 1, HandedOn + Len(ready[s]))
    /\ NoneDelivers => IsReadyLen(pushed, 1, HandedOn)

Prefix == \A i \in 1..Len(client) : client[i] = i

Stream == ~dropped => (Prefix /\ (~cut => InOrder))

streamVars == <<client, chunk, chan, frames, dropped>>

LEMMA StreamHolds == Spec => []Stream
<1>1. Init => Stream
  <2> SUFFICES ASSUME Init PROVE Prefix /\ InOrder
      BY DEF Stream
  <2>1. client = <<>> /\ chan = <<>> /\ chunk = 0 /\ pushed = {}
        /\ \A s \in Seqs : ~Delivering(s)
      BY DEF Init, Delivering, FrameHandler
  <2>2. HandedOn = 0
      BY <2>1 DEF HandedOn, InHand
  <2> QED
      BY <2>1, <2>2 DEF InOrder, IsReadyLen, Prefix
<1>2. ASSUME Shape, Opening, Farewell, Stream, [Next]_vars PROVE Stream'
  <2> USE <1>2
  <2>0. ASSUME UNCHANGED streamVars, ~cut' => ~cut PROVE Stream'
      BY <2>0 DEF Stream, Prefix, InOrder, IsReadyLen, NoneDelivers, Delivering, HandedOn, InHand,
         streamVars, frames
  <2>1. /\ client \in Seq(Seqs) /\ chan \in Seq(Seqs)
        /\ chunk \in 0..N /\ pushed \in SUBSET Seqs
        /\ (wpc = "write" <=> chunk # 0)
        /\ Len(client) \in Nat /\ Len(chan) \in Nat
        /\ InHand \in {0, 1} /\ HandedOn \in Nat
    <3>1. /\ client \in Seq(Seqs) /\ chan \in Seq(Seqs)
          /\ chunk \in 0..N /\ pushed \in SUBSET Seqs
          /\ (wpc = "write" <=> chunk # 0)
        BY DEF Shape, Types, TFrames, TWriter
    <3>2. Len(client) \in Nat /\ Len(chan) \in Nat /\ InHand \in {0, 1}
        BY <3>1, LenProperties DEF InHand
    <3> QED
        BY <3>1, <3>2 DEF HandedOn
  <2>2. ASSUME NEW s \in Seqs, DataPush(s) PROVE Stream'
    <3>1. UNCHANGED <<client, chunk, chan, cut, dropped>> /\ NoneDelivers /\ s \in FrameHandler
        BY <2>2 DEF DataPush, Pushed, LockFree, NoneDelivers, Delivering, writer, history,
           FrameHandler
    <3> SUFFICES ASSUME ~dropped, ~cut PROVE InOrder'
        BY <3>1 DEF Stream, Prefix
    <3>2. InOrder /\ HandedOn' = HandedOn /\ InHand' = InHand
        BY <3>1 DEF Stream, HandedOn, InHand
    <3>3. IsReadyLen(pushed, 1, HandedOn)
        BY <3>1, <3>2 DEF InOrder
    <3>4. CASE FrameTo(s, "reset") /\ UNCHANGED <<pushed, ready>>
      <4>1. NoneDelivers'
          BY <3>1, <3>4, Goes DEF Label, Shape, Types, NoneDelivers, Delivering, FrameHandler
      <4> QED
          BY <3>1, <3>2, <3>3, <3>4, <4>1 DEF InOrder, NoneDelivers
    <3>5. CASE /\ pushed' = pushed \cup {s}
               /\ ready' = [ready EXCEPT ![s] = Run(s)]
               /\ FrameTo(s, IF Run(s) = <<>> THEN "done" ELSE "deliver")
      <4> DEFINE e == HandedOn
                 c == Len(Run(s))
      <4>1. e \in 0..N
        <5>1. e # 0 => e \in 1..(1 + e - 1)
            BY <2>1
        <5>2. e # 0 => e \in Seqs
            BY <2>1, <3>3, <5>1 DEF IsReadyLen
        <5> QED
            BY <2>1, <5>2, SizeAssumption DEF Seqs
      <4>2. Expected = e + 1
        <5>1. ReadyLen(pushed, 1) = e
            BY <2>1, <3>3, <4>1, ReadyLenUnique, SizeAssumption
        <5> QED
            BY <2>1, <5>1 DEF Expected
      <4>3. /\ Run(s) \in Seq(Seqs) /\ c \in Nat
            /\ \A i \in 1..c : Run(s)[i] = Expected + i - 1
            /\ IsReadyLen(pushed \cup {s}, Expected, c)
          BY <2>1, RunFacts, LenProperties
      <4>4. ready'[s] = Run(s)
          BY <3>5 DEF Shape, Types, TFrames
      <4>5. /\ \A g \in Seqs \ {s} : ~Delivering(g)'
            /\ (Run(s) = <<>> <=> ~Delivering(s)')
        <5>1. PICK l \in {"done", "deliver"} :
                   FrameTo(s, l) /\ (l = "done" <=> Run(s) = <<>>)
            BY <3>5
        <5>2. fpc'[s] = l /\ \A g \in FrameHandler \ {s} : fpc'[g] = fpc[g]
            BY <3>1, <5>1, Goes DEF Label, Shape, Types
        <5> QED
            BY <3>1, <5>1, <5>2 DEF NoneDelivers, Delivering, FrameHandler
      <4> HIDE DEF c
      <4>6. IsReadyLen(pushed', 1, e + c)
        <5>1. ASSUME NEW i \in 1..(1 + (e + c) - 1) PROVE i \in pushed'
          <6>1. CASE i <= e
            <7>1. i \in 1..(1 + e - 1)
                BY <2>1, <4>3, <6>1
            <7> QED
                BY <3>3, <3>5, <7>1 DEF IsReadyLen
          <6>2. CASE ~(i <= e)
            <7>1. i \in Expected..(Expected + c - 1)
                BY <2>1, <4>2, <4>3, <6>2
            <7> QED
                BY <3>5, <4>3, <7>1 DEF IsReadyLen
          <6> QED
              BY <6>1, <6>2
        <5>2. 1 + (e + c) = Expected + c
            BY <2>1, <4>2, <4>3
        <5> QED
            BY <3>5, <4>3, <5>1, <5>2 DEF IsReadyLen
      <4>7. \A i \in 1..Len(Run(s)) : Run(s)[i] = e + i
          BY <2>1, <4>2, <4>3 DEF c
      <4>8. Run(s) = <<>> => e + c = e
          BY <2>1 DEF c
      <4>9. \A g \in Seqs : Delivering(g)' =>
                /\ \A i \in 1..Len(ready'[g]) : ready'[g][i] = HandedOn' + i
                /\ IsReadyLen(pushed', 1, HandedOn' + Len(ready'[g]))
          BY <3>2, <4>4, <4>5, <4>6, <4>7 DEF c
      <4>10. NoneDelivers' => IsReadyLen(pushed', 1, HandedOn')
          BY <3>2, <4>5, <4>6, <4>8 DEF NoneDelivers
      <4> QED
          BY <3>1, <3>2, <4>9, <4>10 DEF InOrder
    <3> QED
        BY <2>2, <3>4, <3>5 DEF DataPush, Pushed
  <2>3. ASSUME NEW s \in Seqs, DataDeliver(s) PROVE Stream'
    <3>1. UNCHANGED <<client, chunk, cut, pushed>>
        BY <2>3 DEF DataDeliver, writer
    <3>2. dropped => dropped'
        BY <2>3 DEF DataDeliver
    <3> SUFFICES ASSUME ~dropped', ~cut PROVE InOrder'
        BY <3>1, <3>2 DEF Stream, Prefix
    <3>3. /\ s \in FrameHandler /\ Delivering(s) /\ ready[s] # <<>> /\ ready[s] \in Seq(Seqs)
          /\ \A g \in Seqs \ {s} : ~Delivering(g)
        BY <2>3 DEF DataDeliver, FrameHandler, Delivering, Shape, Lock, Types, TFrames
    <3>4. Room /\ ~dropped
        BY <2>3 DEF DataDeliver
    <3>5. /\ chan' = Append(chan, Head(ready[s]))
          /\ ready'[s] = Tail(ready[s])
        BY <2>3, <3>4 DEF DataDeliver, Shape, Types, TFrames
    <3>6. InOrder
        BY <3>4 DEF Stream
    <3>7. /\ Len(ready[s]) \in Nat \ {0} /\ Head(ready[s]) = ready[s][1]
          /\ Head(ready[s]) \in Seqs
          /\ Len(ready'[s]) = Len(ready[s]) - 1
          /\ \A i \in 1..(Len(ready[s]) - 1) : ready'[s][i] = ready[s][i + 1]
        BY <3>3, <3>5, TailFacts
    <3>8. /\ Len(chan') = Len(chan) + 1
          /\ \A i \in 1..Len(chan) : chan'[i] = chan[i]
          /\ chan'[Len(chan) + 1] = Head(ready[s])
        BY <2>1, <3>5, <3>7, AppendFacts
    <3>9. InHand' = InHand /\ HandedOn' = HandedOn + 1
      <4>1. InHand' = InHand
          BY <3>1 DEF InHand
      <4> QED
          BY <2>1, <3>1, <3>8, <4>1 DEF HandedOn
    <3>10. /\ \A i \in 1..Len(ready[s]) : ready[s][i] = HandedOn + i
           /\ IsReadyLen(pushed, 1, HandedOn + Len(ready[s]))
        BY <3>3, <3>6 DEF InOrder
    <3>11. ASSUME NEW i \in 1..Len(chan') PROVE chan'[i] = Len(client) + InHand + i
      <4>1. CASE i \in 1..Len(chan)
          BY <3>6, <3>8, <4>1 DEF InOrder
      <4>2. CASE i = Len(chan) + 1
        <5>1. ready[s][1] = HandedOn + 1
            BY <3>7, <3>10
        <5> QED
            BY <2>1, <3>7, <3>8, <4>2, <5>1 DEF HandedOn
      <4> QED
          BY <2>1, <3>8, <4>1, <4>2
    <3>12. ASSUME NEW i \in 1..Len(ready'[s]) PROVE ready'[s][i] = HandedOn' + i
      <4>1. i + 1 \in 1..Len(ready[s]) /\ i \in 1..(Len(ready[s]) - 1) /\ i \in Nat
          BY <3>7
      <4>2. ready'[s][i] = HandedOn + (i + 1)
          BY <3>7, <3>10, <4>1
      <4> QED
          BY <2>1, <3>9, <4>1, <4>2
    <3>13. HandedOn' + Len(ready'[s]) = HandedOn + Len(ready[s])
      <4>1. HandedOn \in Nat /\ Len(ready[s]) \in Nat
          BY <2>1, <3>7
      <4>2. HandedOn' = HandedOn + 1 /\ Len(ready'[s]) = Len(ready[s]) - 1
          BY <3>7, <3>9
      <4>3. \A a, b \in Nat : (a + 1) + (b - 1) = a + b
          OBVIOUS
      <4> QED
          BY <4>1, <4>2, <4>3, Zenon
    <3>14. PICK l \in {"reset", "done", "overflow", "deliver"} :
                /\ FrameTo(s, l)
                /\ (l \in {"deliver", "overflow"} <=> Len(ready[s]) # 1)
        BY <2>3 DEF DataDeliver
    <3>15. fpc'[s] = l /\ \A g \in FrameHandler \ {s} : fpc'[g] = fpc[g]
        BY <3>3, <3>14, Goes DEF Label, Shape, Types
    <3>16. \A g \in Seqs : Delivering(g)' =>
               /\ \A i \in 1..Len(ready'[g]) : ready'[g][i] = HandedOn' + i
               /\ IsReadyLen(pushed', 1, HandedOn' + Len(ready'[g]))
      <4>1. \A g \in Seqs : Delivering(g)' => g = s
          BY <3>3, <3>15 DEF Delivering, FrameHandler
      <4> QED
          BY <3>1, <3>10, <3>12, <3>13, <4>1
    <3>17. NoneDelivers' => IsReadyLen(pushed', 1, HandedOn')
      <4>1. NoneDelivers' => Len(ready[s]) = 1
          BY <3>14, <3>15 DEF NoneDelivers, Delivering
      <4> QED
          BY <3>1, <3>9, <3>10, <4>1
    <3> QED
        BY <3>1, <3>6, <3>9, <3>11, <3>16, <3>17 DEF InOrder
  <2>4. ASSUME UNCHANGED frames, HandedOn' = HandedOn, InOrder
        PROVE  /\ \A s \in Seqs : Delivering(s)' =>
                     /\ \A i \in 1..Len(ready'[s]) : ready'[s][i] = HandedOn' + i
                     /\ IsReadyLen(pushed', 1, HandedOn' + Len(ready'[s]))
               /\ NoneDelivers' => IsReadyLen(pushed', 1, HandedOn')
    <3>1. UNCHANGED <<pushed, fpc, ready>>
        BY <2>4 DEF frames
    <3>2. NoneDelivers' <=> NoneDelivers
        BY <3>1 DEF NoneDelivers, Delivering
    <3>3. \A s \in Seqs : Delivering(s)' <=> Delivering(s)
        BY <3>1 DEF Delivering
    <3> QED
        BY <2>4, <3>1, <3>2, <3>3 DEF InOrder
  <2>5. ASSUME WriterRecv PROVE Stream'
    <3>1. /\ chan' = Tail(chan) /\ chunk' = Head(chan) /\ chan # <<>> /\ wpc = "recv"
          /\ UNCHANGED <<client, frames, cut, dropped>>
        BY <2>5 DEF WriterRecv, history
    <3> SUFFICES ASSUME ~dropped, ~cut PROVE InOrder'
        BY <3>1 DEF Stream, Prefix
    <3>2. InOrder /\ chunk = 0 /\ InHand = 0
        BY <2>1, <3>1 DEF Stream, InHand
    <3>3. /\ Len(chan) \in Nat \ {0} /\ Head(chan) = chan[1] /\ Head(chan) \in Seqs
          /\ Len(chan') = Len(chan) - 1
          /\ \A i \in 1..(Len(chan) - 1) : chan'[i] = chan[i + 1]
        BY <2>1, <3>1, TailFacts
    <3>4. InHand' = 1 /\ HandedOn' = HandedOn
        BY <2>1, <3>1, <3>2, <3>3, SizeAssumption DEF InHand, HandedOn, Seqs
    <3>5. chunk' = Len(client) + 1
        BY <2>1, <3>1, <3>2, <3>3 DEF InOrder
    <3>6. ASSUME NEW i \in 1..Len(chan') PROVE chan'[i] = Len(client) + 1 + i
      <4>1. i + 1 \in 1..Len(chan) /\ i \in 1..(Len(chan) - 1) /\ i \in Nat
          BY <3>3
      <4>2. chan'[i] = Len(client) + 0 + (i + 1)
          BY <3>2, <3>3, <4>1 DEF InOrder
      <4> QED
          BY <2>1, <4>1, <4>2
    <3> QED
        BY <2>4, <3>1, <3>2, <3>4, <3>5, <3>6 DEF InOrder
  <2>6. ASSUME WriterWrites PROVE Stream'
    <3>1. /\ client' = Append(client, chunk) /\ chunk' = 0 /\ wpc = "write"
          /\ UNCHANGED <<chan, frames, cut, dropped>>
        BY <2>6 DEF WriterWrites, history
    <3>0. ~cut
        BY <3>1 DEF Farewell, Ending
    <3> SUFFICES ASSUME ~dropped PROVE Prefix' /\ InOrder'
        BY <3>1 DEF Stream
    <3>2. Prefix /\ InOrder /\ chunk # 0 /\ InHand = 1 /\ chunk = Len(client) + 1
        BY <2>1, <3>0, <3>1 DEF Stream, InHand, InOrder
    <3>3. /\ Len(client') = Len(client) + 1
          /\ \A i \in 1..Len(client) : client'[i] = client[i]
          /\ client'[Len(client) + 1] = chunk
      <4>1. chunk \in Seqs
          BY <2>1, <3>2, SizeAssumption DEF Seqs
      <4> QED
          BY <2>1, <3>1, <4>1, AppendFacts
    <3>4. InHand' = 0 /\ HandedOn' = HandedOn
        BY <2>1, <3>1, <3>2, <3>3 DEF InHand, HandedOn
    <3>5. ASSUME NEW i \in 1..Len(client') PROVE client'[i] = i
      <4>1. CASE i \in 1..Len(client)
          BY <3>2, <3>3, <4>1 DEF Prefix
      <4>2. CASE i = Len(client) + 1
          BY <3>2, <3>3, <4>2
      <4> QED
          BY <2>1, <3>3, <4>1, <4>2
    <3>6. ASSUME NEW i \in 1..Len(chan) PROVE chan[i] = Len(client') + 0 + i
        BY <2>1, <3>2, <3>3 DEF InOrder
    <3> QED
        BY <2>4, <3>1, <3>2, <3>4, <3>5, <3>6 DEF InOrder, Prefix
  <2>7. ASSUME WriterFails PROVE Stream'
      BY <2>7 DEF WriterFails, Stream, Prefix, history
  <2>8. ASSUME WriterDrained \/ WriterShutdown PROVE Stream'
    <3>1. CASE WriterDrained
        BY <2>0, <3>1 DEF WriterDrained, streamVars, history
    <3>2. CASE WriterShutdown /\ cut
        BY <3>2 DEF WriterShutdown, Stream, Prefix, history
    <3>3. CASE WriterShutdown /\ ~cut
      <4>1. chan = <<>>
          BY <3>3 DEF WriterShutdown, Farewell, Ending
      <4> QED
          BY <2>0, <3>3, <4>1 DEF WriterShutdown, streamVars, history
    <3> QED
        BY <2>8, <3>1, <3>2, <3>3
  <2>9. CASE HandlerStep \/ ReadChunk \/ ReadEnds
    <3>1. UNCHANGED streamVars
        BY <2>9
        DEF HandlerStep, ReadChunk, ReadEnds, Open, ConnInsert, SynQueued, SynFails, Reply, Notified,
            DataSent, DataTimeout, FinSent, FinTimeout, FinSkipped, GraceEnter, Grace,
            ConnRemove, Awaited, streamVars, writer, history
    <3>2. UNCHANGED cut
        BY <2>9
        DEF HandlerStep, ReadChunk, ReadEnds, Open, ConnInsert, SynQueued, SynFails, Reply, Notified,
            DataSent, DataTimeout, FinSent, FinTimeout, FinSkipped, GraceEnter, Grace,
            ConnRemove, Awaited, writer, Opening
    <3> QED
        BY <2>0, <3>1, <3>2
  <2>10. ASSUME NEW h \in FrameHandler,
                \/ FrameLost(h)
                \/ h \in Seqs /\ (DataLookup(h) \/ DataReset(h))
                \/ h = FIN /\ (FinLookup \/ FinStore)
         PROVE  Stream'
    <3>1. PICK l \in {"push", "store", "done"} : FrameTo(h, l)
        BY <2>10 DEF FrameLost, DataLookup, DataReset, FinLookup, FinStore
    <3>2. UNCHANGED <<client, chunk, chan, pushed, ready, dropped, cut>>
        BY <2>10 DEF FrameLost, DataLookup, DataReset, FinLookup, FinStore, writer, history
    <3>3. fpc'[h] = l /\ \A g \in FrameHandler \ {h} : fpc'[g] = fpc[g]
        BY <3>1, Goes DEF Label, Shape, Types
    <3>4. fpc[h] \notin {"deliver", "overflow"}
        BY <2>10 DEF FrameLost, DataLookup, DataReset, FinLookup, FinStore
    <3>5. \A s \in Seqs : Delivering(s)' <=> Delivering(s)
        BY <3>3, <3>4 DEF Delivering, FrameHandler
    <3>6. HandedOn' = HandedOn /\ InHand' = InHand /\ (NoneDelivers' <=> NoneDelivers)
        BY <3>2, <3>5 DEF HandedOn, InHand, NoneDelivers
    <3>7. InOrder => InOrder'
        BY <3>2, <3>5, <3>6 DEF InOrder
    <3> QED
        BY <3>2, <3>7 DEF Stream, Prefix
  <2>11. CASE RemoteRst \/ SweepClose \/ SweepRemove
      BY <2>0, <2>11 DEF RemoteRst, SweepClose, SweepRemove, streamVars, writer, history
  <2>12. CASE UNCHANGED vars
      BY <2>0, <2>12 DEF vars, streamVars, writer, history
  <2> QED
      BY <2>2, <2>3, <2>5, <2>6, <2>7, <2>8, <2>9, <2>10, <2>11, <2>12
      DEF Next, FrameStep, WriterStep, FrameHandler
<1> QED
    BY <1>1, <1>2, ShapeHolds, OpeningHolds, FarewellHolds, PTL DEF Spec

\* splitter.rs:107: frames that arrive through several tunnels at once reach the
\* client in order and without a gap, unless a chunk was dropped.
THEOREM ClientSeesPrefix == Spec => []ClientPrefix
<1>1. (Shape /\ Stream) => ClientPrefix
  <2> SUFFICES ASSUME Shape, Stream, ~dropped PROVE client = [i \in 1..Len(client) |-> i]
      BY DEF ClientPrefix, IsRun
  <2>1. client \in Seq(Seqs) /\ Prefix
      BY DEF Shape, Types, TWriter, Stream
  <2>2. client = [i \in 1..Len(client) |-> client[i]]
      BY <2>1, LenProperties
  <2> QED
      BY <2>1, <2>2 DEF Prefix
<1> QED
    BY <1>1, ShapeHolds, StreamHolds, PTL

\* BUG-2: a client that sees the end of its stream after its own FIN holds the
\* whole response: the wait of handle_tcp_client, the drop of the last Arc and
\* the drain of the channel together lose nothing.  The exceptions are those the
\* property names: teardown, a wait given up or cut short, a dropped chunk, and a
\* client write that failed or stalled.
THEOREM CleanEndIsWhole == Spec => []CleanEndIsComplete
<1>1. ASSUME Shape, Stream, Farewell PROVE CleanEndIsComplete
  <2> SUFFICES ASSUME wpc = "ended", reason = "eof", fin_out > 0,
                      ~closed, ~gave_up, ~early, ~dropped, ~cut
               PROVE  client = [i \in 1..N |-> i]
      BY DEF CleanEndIsComplete
  <2>1. Seqs \subseteq pushed /\ chan = <<>> /\ NoneDelivers
      BY <1>1 DEF Farewell, Ending, NoneDelivers, Delivering
  <2>2. /\ client \in Seq(Seqs) /\ Len(client) \in Nat /\ pushed \in SUBSET Seqs
        /\ chunk = 0 /\ InOrder /\ Prefix
      BY <1>1, LenProperties DEF Shape, Types, TWriter, TFrames, Stream
  <2>3. HandedOn = Len(client)
      BY <2>1, <2>2 DEF HandedOn, InHand
  <2>4. IsReadyLen(pushed, 1, Len(client))
      BY <2>1, <2>2, <2>3 DEF InOrder
  <2>5. Len(client) = N
    <3>1. Len(client) # 0 => Len(client) \in 1..(1 + Len(client) - 1)
        BY <2>2
    <3>2. Len(client) # 0 => Len(client) \in Seqs
        BY <2>2, <2>4, <3>1 DEF IsReadyLen
    <3>3. 1 + Len(client) \notin Seqs
        BY <2>1, <2>4 DEF IsReadyLen
    <3> QED
        BY <2>2, <3>2, <3>3, SizeAssumption DEF Seqs
  <2>6. client = [i \in 1..Len(client) |-> client[i]]
      BY <2>2, LenProperties
  <2> QED
      BY <2>2, <2>5, <2>6 DEF Prefix
<1> QED
    BY <1>1, ShapeHolds, StreamHolds, FarewellHolds, PTL

==============================================================================
