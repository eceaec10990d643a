--------------------------- MODULE TunnelLinkProofs ---------------------------
(***************************************************************************)
(* Proofs about the tunnel links, for every set of tunnels, frames and     *)
(* sessions, every channel capacity and both roles.                        *)
(***************************************************************************)
EXTENDS TunnelLink, SequenceTheorems, TLAPS

\* TypeOK with the facts it rests on: a session left for every admitted tunnel,
\* no drain task for a session to come, a link behind every pick.
Types ==
    /\ pool \subseteq Link
    /\ session \in [Tunnel -> 0..MaxSessions] /\ admitted \subseteq Tunnel
    /\ \A t \in admitted : session[t] < MaxSessions
    /\ alive \in [Link -> BOOLEAN] /\ rx \in [Link -> BOOLEAN]
    /\ stop \in [Link -> BOOLEAN] /\ writer_died \in [Link -> BOOLEAN]
    /\ queue \in [Link -> Seq(Frame)]
    /\ \A l \in Link : Len(queue[l]) <= Cap
    /\ inflight \in [Link -> Frame \cup {None}]
    /\ \A l \in Link : dpc[l] = "write" <=> inflight[l] # None
    /\ lost_frames \in [Link -> SUBSET Frame] /\ batch \in [Link -> SUBSET Frame]
    /\ net \in [Link -> {"none", "up", "ended", "silent"}]
    /\ dpc \in [Link -> {"none", "recv", "write", "drain", "shutdown", "done"}]
    /\ rpc \in [Link -> {"none", "read", "await", "recover", "done"}]
    /\ \A l \in Link : l[2] > session[l[1]] => dpc[l] = "none"
    /\ spc \in [Data -> {"loop", "pick", "try", "none", "sleep", "wait", "sent",
                         "failed"}]
    /\ picked \in [Data -> Link \cup {None}]
    /\ \A f \in Data : spc[f] = "try" => picked[f] \in Link
    /\ full \in [Data -> SUBSET Link]
    /\ woken \in [Data -> BOOLEAN]

\* None is no frame.
LEMMA NoneIsNoFrame == None \notin Frame
BY FrameAssumption DEF Frame, Rst

LEMMA InitTypes == Init => Types
BY BoundAssumption DEF Init, Types

\* A frame put into a channel with room leaves the channel within its capacity.
LEMMA AppendKeepsCap ==
    ASSUME NEW q \in [Link -> Seq(Frame)], NEW l \in Link, NEW f \in Frame,
           \A k \in Link : Len(q[k]) <= Cap, Len(q[l]) < Cap
    PROVE  /\ [q EXCEPT ![l] = Append(@, f)] \in [Link -> Seq(Frame)]
           /\ \A k \in Link : Len([q EXCEPT ![l] = Append(@, f)][k]) <= Cap
<1>1. Append(q[l], f) \in Seq(Frame) /\ Len(Append(q[l], f)) = Len(q[l]) + 1
    OBVIOUS
<1>2. Len(q[l]) \in Nat /\ Cap \in Nat
    BY BoundAssumption
<1> QED
    BY <1>1, <1>2

\* Taking the first frame out of a channel.
LEMMA TailKeepsCap ==
    ASSUME NEW q \in [Link -> Seq(Frame)], NEW l \in Link,
           \A k \in Link : Len(q[k]) <= Cap, q[l] # <<>>
    PROVE  /\ Head(q[l]) \in Frame
           /\ [q EXCEPT ![l] = Tail(@)] \in [Link -> Seq(Frame)]
           /\ \A k \in Link : Len([q EXCEPT ![l] = Tail(@)][k]) <= Cap
<1>1. /\ Head(q[l]) \in Frame /\ Tail(q[l]) \in Seq(Frame)
      /\ Len(Tail(q[l])) = Len(q[l]) - 1
    OBVIOUS
<1>2. Len(q[l]) \in Nat /\ Cap \in Nat
    BY BoundAssumption
<1> QED
    BY <1>1, <1>2

\* send leaves the channels and the alive flags well formed.
LEMMA SendTypes ==
    ASSUME Types, NEW f \in Frame, send(f)
    PROVE  /\ alive' \in [Link -> BOOLEAN]
           /\ queue' \in [Link -> Seq(Frame)]
           /\ \A l \in Link : Len(queue'[l]) <= Cap
<1>1. alive' \in [Link -> BOOLEAN]
  <2>1. \A dead : [k \in Link |-> alive[k] /\ k \notin dead] \in [Link -> BOOLEAN]
      BY Zenon
  <2> QED
      BY <2>1 DEF send
<1>2. CASE UNCHANGED queue
    BY <1>1, <1>2 DEF Types
<1>3. ASSUME NEW l \in Takers, queue' = [queue EXCEPT ![l] = Append(@, f)]
      PROVE  /\ queue' \in [Link -> Seq(Frame)]
             /\ \A k \in Link : Len(queue'[k]) <= Cap
  <2>1. l \in Link /\ Len(queue[l]) < Cap
      BY DEF Takers, HasRoom, AliveLinks, Types
  <2>2. queue \in [Link -> Seq(Frame)] /\ \A k \in Link : Len(queue[k]) <= Cap
      BY DEF Types
  <2> QED
      BY <1>3, <2>1, <2>2, AppendKeepsCap
<1> QED
    BY <1>1, <1>2, <1>3 DEF send

LEMMA NextTypes == Types /\ [Next]_vars => Types'
<1> SUFFICES ASSUME Types, [Next]_vars PROVE Types'
    OBVIOUS
<1> USE DEF owners, linkVars, taskVars, sendVars, history
<1>1. CASE UNCHANGED vars
    BY <1>1 DEF vars, Types
<1>2. ASSUME NEW t \in Tunnel, Accept(t) PROVE Types'
    BY <1>2 DEF Accept, Types
<1>3. ASSUME NEW t \in Tunnel, Open(t) PROVE Types'
  <2> DEFINE l == <<t, session[t] + 1>>
  <2>1. session[t] \in 0..MaxSessions /\ session[t] < MaxSessions
      BY <1>3 DEF Open, MayOpen, Types
  <2>2. l \in Link
      BY <2>1, BoundAssumption DEF Link
  <2>3. /\ session' = [session EXCEPT ![t] = @ + 1]
        /\ admitted' = admitted \ {t} /\ pool' = pool \cup {l}
        /\ alive' = [alive EXCEPT ![l] = TRUE] /\ rx' = [rx EXCEPT ![l] = TRUE]
        /\ net' = [net EXCEPT ![l] = "up"]
        /\ dpc' = [dpc EXCEPT ![l] = "recv"] /\ rpc' = [rpc EXCEPT ![l] = "read"]
        /\ woken' = [f \in Data |-> TRUE]
        /\ UNCHANGED <<queue, stop, writer_died, lost_frames, inflight, batch,
                       spc, picked, full>>
      BY <1>3 DEF Open, notify_waiters
  <2>4. l[1] = t /\ l[2] = session[t] + 1
      BY DEF l
  <2> HIDE DEF l
  <2>5. dpc[l] = "none"
      BY <2>1, <2>2, <2>4 DEF Types
  <2>6. \A k \in Link : k[2] > session'[k[1]] => dpc'[k] = "none"
    <3>1. \A k \in Link : k[1] \in Tunnel /\ k[2] \in Nat
        BY BoundAssumption DEF Link
    <3>2. l[2] = session'[l[1]]
        BY <2>1, <2>3, <2>4 DEF Types
    <3>3. \A k \in Link : session'[k[1]] >= session[k[1]]
        BY <2>3, <3>1, BoundAssumption DEF Types
    <3> QED
        BY <2>1, <2>2, <2>3, <2>4, <3>1, <3>2, <3>3, BoundAssumption DEF Types
  <2>7. /\ session' \in [Tunnel -> 0..MaxSessions]
        /\ \A k \in admitted' : session'[k] < MaxSessions
      BY <2>1, <2>3, BoundAssumption DEF Types
  <2>8. \A k \in Link : dpc'[k] = "write" <=> inflight'[k] # None
      BY <2>2, <2>3, <2>5 DEF Types
  <2> QED
      BY <2>2, <2>3, <2>6, <2>7, <2>8 DEF Types
<1>4. ASSUME NEW l \in Link, DrainStep(l) PROVE Types'
  <2> USE DEF DrainTo, Report
  <2>1. CASE DrainStopped(l)
      BY <2>1 DEF DrainStopped, Types
  <2>2. CASE DrainRecv(l)
    <3>1. Types /\ queue[l] # <<>> /\ queue' = [queue EXCEPT ![l] = Tail(@)]
        BY <2>2 DEF DrainRecv
    <3>2. /\ Head(queue[l]) \in Frame /\ queue' \in [Link -> Seq(Frame)]
          /\ \A k \in Link : Len(queue'[k]) <= Cap
        BY <3>1, TailKeepsCap DEF Types
    <3>3. /\ dpc[l] = "recv"
          /\ UNCHANGED <<pool, session, admitted, alive, rx, stop, writer_died, net,
                         rpc, batch, spc, picked, full, woken>>
        BY <2>2 DEF DrainRecv
    <3>4. CASE /\ dpc' = [dpc EXCEPT ![l] = "drain"] /\ UNCHANGED inflight
               /\ lost_frames' = [lost_frames EXCEPT ![l] = @ \cup {Head(queue[l])}]
        BY <3>2, <3>3, <3>4 DEF Types
    <3>5. CASE /\ dpc' = [dpc EXCEPT ![l] = "write"] /\ UNCHANGED lost_frames
               /\ inflight' = [inflight EXCEPT ![l] = Head(queue[l])]
        BY <3>2, <3>3, <3>5, NoneIsNoFrame DEF Types
    <3> QED
        BY <2>2, <3>4, <3>5 DEF DrainRecv
  <2>3. CASE DrainWriteStopped(l)
      BY <2>3 DEF DrainWriteStopped, Types
  <2>4. CASE DrainWritten(l)
      BY <2>4 DEF DrainWritten, Types
  <2>5. CASE DrainWriteFailed(l)
      BY <2>5 DEF DrainWriteFailed, Types
  <2>6. CASE DrainReport(l)
    <3>1. Types /\ queue[l] # <<>> /\ queue' = [queue EXCEPT ![l] = Tail(@)]
        BY <2>6 DEF DrainReport
    <3>2. /\ Head(queue[l]) \in Frame /\ queue' \in [Link -> Seq(Frame)]
          /\ \A k \in Link : Len(queue'[k]) <= Cap
        BY <3>1, TailKeepsCap DEF Types
    <3> QED
        BY <2>6, <3>2 DEF DrainReport, Types
  <2>7. CASE DrainNotify(l)
      BY <2>7 DEF DrainNotify, Types
  <2>8. CASE DrainReturn(l)
    <3>1. /\ queue' \in [Link -> Seq(Frame)]
          /\ \A k \in Link : Len(queue'[k]) <= Cap
        BY <2>8, BoundAssumption DEF DrainReturn, Types
    <3>2. /\ lost_frames' \in [Link -> SUBSET Frame]
          /\ batch' \in [Link -> SUBSET Frame]
      <4>1. CASE UNCHANGED <<batch, lost_frames>>
          BY <4>1 DEF Types
      <4>2. CASE /\ batch' = [batch EXCEPT ![l] = lost_frames[l]]
                 /\ lost_frames' = [lost_frames EXCEPT ![l] = {}]
          BY <4>2 DEF Types
      <4> QED
          BY <2>8, <4>1, <4>2 DEF DrainReturn
    <3>3. /\ dpc[l] = "shutdown" /\ dpc' = [dpc EXCEPT ![l] = "done"]
          /\ rx' = [rx EXCEPT ![l] = FALSE]
          /\ UNCHANGED <<pool, session, admitted, alive, stop, writer_died, net,
                         inflight, rpc, spc, picked, full, woken>>
        BY <2>8 DEF DrainReturn
    <3> QED
        BY <3>1, <3>2, <3>3 DEF Types
  <2> QED
      BY <1>4, <2>1, <2>2, <2>3, <2>4, <2>5, <2>6, <2>7, <2>8 DEF DrainStep
<1>5. ASSUME NEW l \in Link, OwnerStep(l) PROVE Types'
  <2>1. CASE ReadLoopEnds(l)
      BY <2>1 DEF ReadLoopEnds, Types
  <2>2. CASE TakeLost(l)
      BY <2>2 DEF TakeLost, Types
  <2>3. CASE OwnerDone(l)
      BY <2>3 DEF OwnerDone, Types
  <2>4. ASSUME NEW f \in batch[l], ResendControl(l, f) PROVE Types'
    <3>1. f \in Frame /\ send(f)
        BY <2>4 DEF ResendControl, Types
    <3> QED
        BY <2>4, <3>1, SendTypes DEF ResendControl, Handled, Types
  <2>5. ASSUME NEW f \in batch[l], ResetData(l, f) PROVE Types'
    <3>1. Rst(f) \in Frame /\ send(Rst(f))
        BY <2>5 DEF ResetData, IsControl, Frame
    <3> QED
        BY <2>5, <3>1, SendTypes DEF ResetData, Handled, Types
  <2>6. ASSUME NEW f \in batch[l], ForgetData(l, f) PROVE Types'
      BY <2>6 DEF ForgetData, Handled, Types
  <2> QED
      BY <1>5, <2>1, <2>2, <2>3, <2>4, <2>5, <2>6 DEF OwnerStep
<1>6. ASSUME NEW l \in Link, sweep_idle(l) PROVE Types'
    BY <1>6 DEF sweep_idle, Types
<1>7. ASSUME NEW l \in Link, NetFails(l) PROVE Types'
    BY <1>7 DEF NetFails, Types
<1>8. ASSUME NEW f \in Data, SenderStep(f) PROVE Types'
  <2> USE DEF SenderTo
  <2>1. CASE CreateNotified(f)
      BY <2>1 DEF CreateNotified, Types
  <2>2. CASE weighted_pick(f)
    <3>1. UNCHANGED <<pool, session, admitted, linkVars, taskVars, full, woken>>
        BY <2>2 DEF weighted_pick
    <3>2. CASE \E l \in AliveLinks : /\ picked' = [picked EXCEPT ![f] = l]
                                     /\ spc' = [spc EXCEPT ![f] = "try"]
        BY <3>1, <3>2 DEF AliveLinks, Types
    <3>3. CASE UNCHANGED picked /\ spc' = [spc EXCEPT ![f] = "none"]
        BY <3>1, <3>3 DEF Types
    <3> QED
        BY <2>2, <3>2, <3>3 DEF weighted_pick
  <2>3. CASE try_send(f)
    <3>1. picked[f] \in Link /\ f \in Frame
        BY <2>3 DEF try_send, Types, Frame
    <3>2. /\ queue' \in [Link -> Seq(Frame)]
          /\ \A k \in Link : Len(queue'[k]) <= Cap
      <4>1. CASE UNCHANGED queue
          BY <4>1 DEF Types
      <4>2. CASE /\ Len(queue[picked[f]]) < Cap
                 /\ queue' = [queue EXCEPT ![picked[f]] = Append(@, f)]
          BY <3>1, <4>2, AppendKeepsCap DEF Types
      <4> QED
          BY <2>3, <4>1, <4>2 DEF try_send, HasRoom
    <3>3. /\ spc' = [spc EXCEPT ![f] = "sent"] \/ spc' = [spc EXCEPT ![f] = "loop"]
          /\ picked' = [picked EXCEPT ![f] = None]
          /\ UNCHANGED <<pool, session, admitted, rx, stop, writer_died, lost_frames,
                         net, taskVars, woken>>
        BY <2>3 DEF try_send
    <3>4. alive' \in [Link -> BOOLEAN]
      <4>1. UNCHANGED alive \/ alive' = [alive EXCEPT ![picked[f]] = FALSE]
          BY <2>3 DEF try_send
      <4> QED
          BY <3>1, <4>1 DEF Types
    <3>5. full' \in [Data -> SUBSET Link]
      <4>1. full \in [Data -> SUBSET Link] /\ full[f] \cup {picked[f]} \in SUBSET Link
          BY <3>1 DEF Types
      <4>2. UNCHANGED full \/ full' = [full EXCEPT ![f] = full[f] \cup {picked[f]}]
          BY <2>3 DEF try_send
      <4> QED
          BY <4>1, <4>2
    <3> QED
        BY <3>2, <3>3, <3>4, <3>5 DEF Types
  <2>4. CASE NoCandidate(f)
      BY <2>4 DEF NoCandidate, Types
  <2>5. CASE Resume(f)
      BY <2>5 DEF Resume, Types
  <2> QED
      BY <1>8, <2>1, <2>2, <2>3, <2>4, <2>5 DEF SenderStep
<1>9. ASSUME NEW f \in Data, SendTimeout(f) \/ ConnEnds(f) PROVE Types'
    BY <1>9 DEF SendTimeout, ConnEnds, SenderTo, Types
<1>10. ASSUME NEW f \in Ctl, SendControl(f) PROVE Types'
  <2>1. f \in Frame /\ send(f)
      BY <1>10 DEF SendControl, Frame
  <2> QED
      BY <1>10, <2>1, SendTypes DEF SendControl, Types
<1>11. CASE compact
    BY <1>11 DEF compact, AliveLinks, Types
<1> QED
    BY <1>1, <1>2, <1>3, <1>4, <1>5, <1>6, <1>7, <1>8, <1>9, <1>10, <1>11 DEF Next

LEMMA TypesHold == Spec => []Types
<1> QED
    BY InitTypes, NextTypes, PTL DEF Spec

\* The state keeps its shape; a channel never holds more than its capacity, and
\* the drain task has a frame in hand exactly while it writes.
THEOREM TypeCorrect == Spec => []TypeOK
<1>1. Types => TypeOK
  <2>1. ASSUME NEW q \in Seq(Frame) PROVE Range(q) \subseteq Frame
      BY DEF Range
  <2> QED
      BY <2>1 DEF Types, TypeOK
<1> QED
    BY <1>1, TypesHold, PTL

------------------------------------------------------------------------------
(* The two halves of a link cannot miss each other's end *)

\* TeardownSignalled with what it rests on: while the drain task serves the
\* channel the receiver exists, so no sender finds the channel closed and
\* clears alive behind its back.
TeardownInv ==
    /\ TeardownSignalled
    /\ \A l \in Link : dpc[l] \in {"recv", "write"} => rx[l]

\* send clears alive only on links whose receiver is gone.
LEMMA SendClearsClosed ==
    ASSUME Types, NEW f, send(f)
    PROVE  \A l \in Link : alive[l] /\ rx[l] => alive'[l]
BY DEF send, Closed, Types

\* So the two invariants survive a step that sends.
LEMMA SendKeepsTeardown ==
    ASSUME Types, TeardownInv, NEW f, send(f),
           UNCHANGED <<rx, stop, writer_died, dpc, rpc>>
    PROVE  TeardownInv'
<1>1. \A l \in Link : alive[l] /\ rx[l] => alive'[l]
    BY SendClearsClosed
<1> QED
    BY <1>1 DEF TeardownInv, TeardownSignalled, Types

LEMMA NextTeardown == Types /\ TeardownInv /\ [Next]_vars => TeardownInv'
<1> SUFFICES ASSUME Types, TeardownInv, [Next]_vars PROVE TeardownInv'
    OBVIOUS
<1> USE DEF owners, linkVars, taskVars, sendVars, history
<1>1. CASE UNCHANGED <<alive, rx, stop, writer_died, dpc, rpc>>
    BY <1>1 DEF TeardownInv, TeardownSignalled
<1>2. ASSUME NEW t \in Tunnel, Open(t) PROVE TeardownInv'
  <2> DEFINE l == <<t, session[t] + 1>>
  <2>1. /\ alive' = [alive EXCEPT ![l] = TRUE] /\ rx' = [rx EXCEPT ![l] = TRUE]
        /\ dpc' = [dpc EXCEPT ![l] = "recv"] /\ rpc' = [rpc EXCEPT ![l] = "read"]
        /\ UNCHANGED <<stop, writer_died>>
      BY <1>2 DEF Open
  <2> HIDE DEF l
  <2> QED
      BY <2>1 DEF TeardownInv, TeardownSignalled, Types
<1>3. ASSUME NEW l \in Link, DrainStep(l) PROVE TeardownInv'
  <2> USE DEF DrainTo, Report, TeardownInv, TeardownSignalled
  <2>1. CASE DrainStopped(l) \/ DrainWriteStopped(l)
    <3>1. /\ stop' = [stop EXCEPT ![l] = FALSE] /\ dpc' = [dpc EXCEPT ![l] = "drain"]
          /\ UNCHANGED <<alive, rx, writer_died, rpc>>
        BY <2>1 DEF DrainStopped, DrainWriteStopped
    <3> QED
        BY <3>1 DEF Types
  <2>2. CASE DrainRecv(l)
    <3>1. /\ dpc[l] = "recv" /\ UNCHANGED <<alive, rx, stop, writer_died, rpc>>
          /\ \/ dpc' = [dpc EXCEPT ![l] = "drain"]
             \/ dpc' = [dpc EXCEPT ![l] = "write"]
        BY <2>2 DEF DrainRecv
    <3> QED
        BY <3>1 DEF Types
  <2>3. CASE DrainWritten(l) \/ DrainWriteFailed(l)
      BY <2>3 DEF DrainWritten, DrainWriteFailed, Types
  <2>4. CASE DrainReport(l)
      BY <2>4 DEF DrainReport
  <2>5. CASE DrainNotify(l)
      BY <2>5 DEF DrainNotify, Types
  <2>6. CASE DrainReturn(l)
    <3>1. /\ dpc[l] = "shutdown" /\ dpc' = [dpc EXCEPT ![l] = "done"]
          /\ rx' = [rx EXCEPT ![l] = FALSE] /\ UNCHANGED <<alive, stop, writer_died, rpc>>
        BY <2>6 DEF DrainReturn
    <3> QED
        BY <3>1 DEF Types
  <2> QED
      BY <1>3, <2>1, <2>2, <2>3, <2>4, <2>5, <2>6 DEF DrainStep
<1>4. ASSUME NEW l \in Link, OwnerStep(l) PROVE TeardownInv'
  <2>1. CASE ReadLoopEnds(l)
    <3>1. PICK s \in {"await", "done"} : rpc' = [rpc EXCEPT ![l] = s]
        BY <2>1 DEF ReadLoopEnds
    <3> QED
        BY <2>1, <3>1 DEF ReadLoopEnds, TeardownInv, TeardownSignalled, Types
  <2>2. CASE TakeLost(l) \/ OwnerDone(l)
    <3>1. /\ \/ rpc' = [rpc EXCEPT ![l] = "recover"]
             \/ rpc' = [rpc EXCEPT ![l] = "done"]
          /\ UNCHANGED <<alive, rx, stop, writer_died, dpc>>
        BY <2>2 DEF TakeLost, OwnerDone
    <3> QED
        BY <3>1 DEF TeardownInv, TeardownSignalled, Types
  <2>3. ASSUME NEW f \in batch[l], ResendControl(l, f) PROVE TeardownInv'
      BY <2>3, SendKeepsTeardown DEF ResendControl
  <2>4. ASSUME NEW f \in batch[l], ResetData(l, f) PROVE TeardownInv'
      BY <2>4, SendKeepsTeardown DEF ResetData
  <2>5. ASSUME NEW f \in batch[l], ForgetData(l, f) PROVE TeardownInv'
      BY <2>5, <1>1 DEF ForgetData
  <2> QED
      BY <1>4, <2>1, <2>2, <2>3, <2>4, <2>5 DEF OwnerStep
<1>5. ASSUME NEW l \in Link, sweep_idle(l) PROVE TeardownInv'
    BY <1>5 DEF sweep_idle, TeardownInv, TeardownSignalled, Types
<1>6. ASSUME NEW f \in Data, try_send(f) PROVE TeardownInv'
  <2>1. UNCHANGED alive \/ (~rx[picked[f]] /\ alive' = [alive EXCEPT ![picked[f]] = FALSE])
      BY <1>6 DEF try_send
  <2> QED
      BY <1>6, <2>1 DEF try_send, TeardownInv, TeardownSignalled, Types
<1>7. ASSUME NEW f \in Ctl, SendControl(f) PROVE TeardownInv'
    BY <1>7, SendKeepsTeardown DEF SendControl
<1>8. ASSUME NEW t \in Tunnel, Accept(t) PROVE TeardownInv'
    BY <1>8, <1>1 DEF Accept
<1>9. ASSUME NEW l \in Link, NetFails(l) PROVE TeardownInv'
    BY <1>9, <1>1 DEF NetFails
<1>10. ASSUME NEW f \in Data,
              \/ CreateNotified(f) \/ weighted_pick(f) \/ NoCandidate(f)
              \/ Resume(f) \/ SendTimeout(f) \/ ConnEnds(f)
       PROVE  TeardownInv'
    BY <1>10, <1>1 DEF CreateNotified, weighted_pick, NoCandidate, Resume, SendTimeout,
                       ConnEnds
<1>11. CASE compact \/ UNCHANGED vars
    BY <1>11, <1>1 DEF compact, vars
<1> QED
    BY <1>2, <1>3, <1>4, <1>5, <1>6, <1>7, <1>8, <1>9, <1>10, <1>11 DEF Next, SenderStep

\* B22/B56/B57: whatever the order in which the drain task, the read loop, the
\* idle sweep and the senders meet the end of a link, the task that is still
\* running has a permit to find.
THEOREM TeardownIsSignalled == Spec => []TeardownSignalled
<1>1. Init => TeardownInv
    BY DEF Init, TeardownInv, TeardownSignalled
<1>2. TeardownInv => TeardownSignalled
    BY DEF TeardownInv
<1> QED
    BY <1>1, <1>2, TypesHold, NextTeardown, PTL DEF Spec

------------------------------------------------------------------------------
(* The list of lost frames is complete when it is taken *)

\* Who takes the list, and when: the splitter's owner after the drain task, the
\* reassembler's drain task as its last step.
LostInv ==
    \A l \in Link :
        /\ (Role = "splitter" /\ rpc[l] \in {"recover", "done"})
              => dpc[l] = "done" /\ lost_frames[l] = {}
        /\ (Role = "reassembler" /\ dpc[l] = "done") => lost_frames[l] = {}

LEMMA NextLost == Types /\ LostInv /\ [Next]_vars => LostInv'
<1> SUFFICES ASSUME Types, LostInv, [Next]_vars PROVE LostInv'
    OBVIOUS
<1> USE DEF owners, linkVars, taskVars, sendVars, history
<1>1. CASE UNCHANGED <<lost_frames, dpc, rpc>>
    BY <1>1 DEF LostInv
<1>2. ASSUME NEW t \in Tunnel, Open(t) PROVE LostInv'
  <2> DEFINE l == <<t, session[t] + 1>>
  <2>1. /\ dpc' = [dpc EXCEPT ![l] = "recv"] /\ rpc' = [rpc EXCEPT ![l] = "read"]
        /\ UNCHANGED lost_frames
      BY <1>2 DEF Open
  <2> HIDE DEF l
  <2> QED
      BY <2>1 DEF LostInv, Types
<1>3. ASSUME NEW l \in Link, DrainStep(l) PROVE LostInv'
  <2>1. CASE DrainReturn(l)
    <3>1. /\ dpc[l] = "shutdown" /\ dpc' = [dpc EXCEPT ![l] = "done"] /\ UNCHANGED rpc
          /\ lost_frames' = IF Role = "reassembler"
                            THEN [lost_frames EXCEPT ![l] = {}] ELSE lost_frames
        BY <2>1 DEF DrainReturn, DrainTo
    <3> QED
        BY <3>1 DEF LostInv, Types
  <2>2. CASE ~DrainReturn(l)
    <3>1. dpc[l] \in {"recv", "write", "drain"} /\ UNCHANGED rpc
        BY <1>3, <2>2 DEF DrainStep, DrainStopped, DrainRecv, DrainWriteStopped,
              DrainWritten, DrainWriteFailed, DrainReport, DrainNotify
    <3>2. /\ UNCHANGED dpc \/ \E s \in {"recv", "write", "drain", "shutdown"} :
                                   dpc' = [dpc EXCEPT ![l] = s]
          /\ UNCHANGED lost_frames \/ \E f : Report(l, f)
        BY <1>3, <2>2 DEF DrainStep, DrainStopped, DrainRecv, DrainWriteStopped,
              DrainWritten, DrainWriteFailed, DrainReport, DrainNotify, DrainTo
    <3> QED
        BY <3>1, <3>2 DEF LostInv, Types, Report
  <2> QED
      BY <2>1, <2>2
<1>4. ASSUME NEW l \in Link, OwnerStep(l) PROVE LostInv'
  <2>1. CASE ReadLoopEnds(l)
    <3>1. /\ rpc' = [rpc EXCEPT ![l] = IF Role = "splitter" THEN "await" ELSE "done"]
          /\ UNCHANGED <<dpc, lost_frames>>
        BY <2>1 DEF ReadLoopEnds
    <3> QED
        BY <3>1, RoleAssumption DEF LostInv, Types
  <2>2. CASE TakeLost(l)
      BY <2>2 DEF TakeLost, LostInv, Types
  <2>3. CASE OwnerDone(l)
      BY <2>3 DEF OwnerDone, LostInv, Types
  <2>4. ASSUME NEW f \in batch[l],
               ResendControl(l, f) \/ ResetData(l, f) \/ ForgetData(l, f)
        PROVE  LostInv'
      BY <2>4, <1>1 DEF ResendControl, ResetData, ForgetData
  <2> QED
      BY <1>4, <2>1, <2>2, <2>3, <2>4 DEF OwnerStep
<1>5. ASSUME NEW t \in Tunnel, Accept(t) PROVE LostInv'
    BY <1>5, <1>1 DEF Accept
<1>6. ASSUME NEW l \in Link, sweep_idle(l) \/ NetFails(l) PROVE LostInv'
    BY <1>6, <1>1 DEF sweep_idle, NetFails
<1>7. ASSUME NEW f \in Data, SenderStep(f) \/ SendTimeout(f) \/ ConnEnds(f)
      PROVE  LostInv'
    BY <1>7, <1>1 DEF SenderStep, CreateNotified, weighted_pick, try_send, NoCandidate,
                      Resume, SendTimeout, ConnEnds
<1>8. ASSUME NEW f \in Ctl, SendControl(f) PROVE LostInv'
    BY <1>8, <1>1 DEF SendControl
<1>9. CASE compact \/ UNCHANGED vars
    BY <1>9, <1>1 DEF compact, vars
<1> QED
    BY <1>2, <1>3, <1>4, <1>5, <1>6, <1>7, <1>8, <1>9 DEF Next

\* D1: no frame is reported as lost after the list was taken, in either role.
THEOREM LostListIsComplete == Spec => []LostListComplete
<1>1. Init => LostInv
    BY DEF Init, LostInv
<1>2. LostInv => LostListComplete
    BY RoleAssumption DEF LostInv, LostListComplete
<1> QED
    BY <1>1, <1>2, TypesHold, NextLost, PTL DEF Spec

------------------------------------------------------------------------------
(* A parked sender has not missed a link *)

\* Only TunnelPool::add makes a link alive, and it wakes every sender.
LEMMA AliveGrowsByOpen ==
    ASSUME Types, [Next]_vars, \A t \in Tunnel : ~Open(t)
    PROVE  AliveLinks' \subseteq AliveLinks
<1> USE DEF owners, linkVars, taskVars, sendVars, history
<1>1. CASE pool' \subseteq pool /\ \A l \in Link : alive'[l] => alive[l]
    BY <1>1 DEF AliveLinks, Types
<1>2. CASE UNCHANGED <<pool, alive>>
    BY <1>2 DEF AliveLinks
<1>3. ASSUME NEW f, send(f), UNCHANGED pool PROVE AliveLinks' \subseteq AliveLinks
  <2>1. \A l \in Link : alive'[l] => alive[l]
      BY <1>3 DEF send, Types
  <2> QED
      BY <1>1, <1>3, <2>1
<1>4. ASSUME NEW t \in Tunnel, Accept(t) PROVE UNCHANGED <<pool, alive>>
    BY <1>4 DEF Accept
<1>5. ASSUME NEW l \in Link, DrainStep(l) PROVE UNCHANGED <<pool, alive>>
    BY <1>5 DEF DrainStep, DrainStopped, DrainRecv, DrainWriteStopped, DrainWritten,
                DrainWriteFailed, DrainReport, DrainNotify, DrainReturn
<1>6. ASSUME NEW l \in Link, OwnerStep(l) PROVE AliveLinks' \subseteq AliveLinks
  <2>1. CASE ReadLoopEnds(l)
      BY <2>1, <1>1 DEF ReadLoopEnds, Types
  <2>2. CASE TakeLost(l) \/ OwnerDone(l) \/ \E f \in batch[l] : ForgetData(l, f)
      BY <2>2, <1>2 DEF TakeLost, OwnerDone, ForgetData
  <2>3. ASSUME NEW f \in batch[l], ResendControl(l, f) \/ ResetData(l, f)
        PROVE  AliveLinks' \subseteq AliveLinks
      BY <2>3, <1>3 DEF ResendControl, ResetData
  <2> QED
      BY <1>6, <2>1, <2>2, <2>3 DEF OwnerStep
<1>7. ASSUME NEW l \in Link, sweep_idle(l) PROVE AliveLinks' \subseteq AliveLinks
    BY <1>7, <1>1 DEF sweep_idle, Types
<1>8. ASSUME NEW f \in Data, try_send(f) PROVE AliveLinks' \subseteq AliveLinks
  <2>1. /\ UNCHANGED alive \/ alive' = [alive EXCEPT ![picked[f]] = FALSE]
        /\ UNCHANGED pool
      BY <1>8 DEF try_send
  <2> QED
      BY <2>1, <1>1 DEF Types
<1>9. ASSUME NEW f \in Data,
             \/ CreateNotified(f) \/ weighted_pick(f) \/ NoCandidate(f)
             \/ Resume(f) \/ SendTimeout(f) \/ ConnEnds(f)
      PROVE  UNCHANGED <<pool, alive>>
    BY <1>9 DEF CreateNotified, weighted_pick, NoCandidate, Resume, SendTimeout, ConnEnds
<1>10. ASSUME NEW f \in Ctl, SendControl(f) PROVE AliveLinks' \subseteq AliveLinks
    BY <1>10, <1>3 DEF SendControl
<1>11. CASE compact
    BY <1>11, <1>1 DEF compact, AliveLinks
<1>12. ASSUME NEW l \in Link, NetFails(l) PROVE UNCHANGED <<pool, alive>>
    BY <1>12 DEF NetFails
<1> QED
    BY <1>2, <1>4, <1>5, <1>6, <1>7, <1>8, <1>9, <1>10, <1>11, <1>12
       DEF Next, SenderStep, vars

\* Between its Notified future and its wakeup a sender's flag is only raised by
\* add, and it parks only when it has found no link alive.
LEMMA WaitBegins ==
    ASSUME Types, [Next]_vars, \A t \in Tunnel : ~Open(t), NEW f \in Data,
           spc'[f] = "wait", ~woken'[f]
    PROVE  AliveLinks = {} \/ (spc[f] = "wait" /\ ~woken[f])
<1> USE DEF owners, linkVars, taskVars, sendVars, history
<1>1. CASE UNCHANGED <<spc, woken>>
    BY <1>1
<1>2. ASSUME NEW g \in Data, CreateNotified(g) PROVE spc[f] = "wait" /\ ~woken[f]
    BY <1>2 DEF CreateNotified, SenderTo, Types
<1>3. ASSUME NEW g \in Data,
             weighted_pick(g) \/ try_send(g) \/ Resume(g) \/ SendTimeout(g)
      PROVE  spc[f] = "wait" /\ ~woken[f]
  <2>1. /\ UNCHANGED woken
        /\ \E s \in {"try", "none", "sent", "loop", "failed"} :
              spc' = [spc EXCEPT ![g] = s]
      BY <1>3 DEF weighted_pick, try_send, Resume, SendTimeout, SenderTo
  <2> QED
      BY <2>1 DEF Types
<1>4. ASSUME NEW g \in Data, NoCandidate(g)
      PROVE  AliveLinks = {} \/ (spc[f] = "wait" /\ ~woken[f])
    BY <1>4 DEF NoCandidate, SenderTo, Types
<1>5. ASSUME NEW l \in Link, DrainStep(l) PROVE UNCHANGED <<spc, woken>>
    BY <1>5 DEF DrainStep, DrainStopped, DrainRecv, DrainWriteStopped, DrainWritten,
                DrainWriteFailed, DrainReport, DrainNotify, DrainReturn
<1>6. ASSUME NEW l \in Link, OwnerStep(l) \/ sweep_idle(l) \/ NetFails(l)
      PROVE  UNCHANGED <<spc, woken>>
    BY <1>6 DEF OwnerStep, ReadLoopEnds, TakeLost, OwnerDone, ResendControl, ResetData,
                ForgetData, sweep_idle, NetFails
<1>7. CASE \/ \E t \in Tunnel : Accept(t)
           \/ \E g \in Data : ConnEnds(g)
           \/ \E g \in Ctl : SendControl(g)
           \/ compact \/ UNCHANGED vars
    BY <1>7, <1>1 DEF Accept, ConnEnds, SendControl, compact, vars
<1> QED
    BY <1>1, <1>2, <1>3, <1>4, <1>5, <1>6, <1>7 DEF Next, SenderStep

\* B47: the Notified future is created before the look at the pool, so no link
\* is added behind the back of a send_async that parks.
THEOREM NoWakeupLost == Spec => []NoLostWakeup
<1>1. Init => NoLostWakeup
    BY DEF Init, NoLostWakeup
<1>2. Types /\ NoLostWakeup /\ [Next]_vars => NoLostWakeup'
  <2> SUFFICES ASSUME Types, NoLostWakeup, [Next]_vars PROVE NoLostWakeup'
      OBVIOUS
  <2>1. ASSUME NEW t \in Tunnel, Open(t) PROVE NoLostWakeup'
      BY <2>1 DEF Open, notify_waiters, NoLostWakeup
  <2>2. CASE \A t \in Tunnel : ~Open(t)
    <3> SUFFICES ASSUME NEW f \in Data, spc'[f] = "wait", ~woken'[f]
                 PROVE  AliveLinks' = {}
        BY DEF NoLostWakeup
    <3>1. AliveLinks' \subseteq AliveLinks
        BY <2>2, AliveGrowsByOpen
    <3>2. AliveLinks = {}
        BY <2>2, WaitBegins DEF NoLostWakeup
    <3> QED
        BY <3>1, <3>2
  <2> QED
      BY <2>1, <2>2
<1> QED
    BY <1>1, <1>2, TypesHold, PTL DEF Spec

------------------------------------------------------------------------------
(* A frame that a channel has accepted is in one place *)

Dropped == <<"settled", "discarded">>

\* An accepted frame is in one place; any other is nowhere, or was refused by
\* every channel.
Kept(f) ==
    /\ (f \in accepted => One(Places(f)))
    /\ (f \notin accepted => Places(f) \subseteq {Dropped})

\* A DATA frame is put into a channel once, by its sender, and an RST only when
\* its connection is reset.
Sources ==
    /\ accepted \subseteq Frame
    /\ \A f \in Data : spc[f] # "sent" => f \notin accepted \cup discarded
    /\ \A f \in Data : f \notin was_reset => Rst(f) \notin accepted \cup discarded

\* A batch holds frames only while its recovery runs, so it is not filled twice.
Batches ==
    /\ \A l \in Link : batch[l] # {} => Recovering(l)
    /\ \A l \in Link : rpc[l] \in {"await", "recover"} => Role = "splitter"

\* FrameConserved with what it rests on.
Conserved == (\A f \in Frame : Kept(f)) /\ Sources /\ Batches

\* The parts of Places, told apart by their tags.
LEMMA Parts ==
    ASSUME NEW f
    PROVE  /\ \A x \in InQueue(f) : x[1] = "queue"
           /\ \A x \in InHand(f) : x[1] = "inflight"
           /\ \A x \in InLost(f) : x[1] = "lost_frames"
           /\ \A x \in InBatch(f) : x[1] = "batch"
           /\ \A x \in Settled(f) : x[1] = "settled"
           /\ \A x \in InQueue(f)' : x[1] = "queue"
           /\ \A x \in InHand(f)' : x[1] = "inflight"
           /\ \A x \in InLost(f)' : x[1] = "lost_frames"
           /\ \A x \in InBatch(f)' : x[1] = "batch"
           /\ \A x \in Settled(f)' : x[1] = "settled"
BY DEF InQueue, InHand, InLost, InBatch, Settled

\* The channels keep their frames, or lose the first of one, or gain one at the
\* end of one.
LEMMA QueueSame == ASSUME NEW f, UNCHANGED queue PROVE InQueue(f)' = InQueue(f)
BY DEF InQueue

LEMMA QueueSlots ==
    ASSUME NEW f
    PROVE  /\ \A x : x \in InQueue(f) <=>
                 \E l \in Link, i \in 1..Cap :
                    x = <<"queue", <<l, i>>>> /\ i <= Len(queue[l]) /\ queue[l][i] = f
           /\ \A x : x \in InQueue(f)' <=>
                 \E l \in Link, i \in 1..Cap :
                    x = <<"queue", <<l, i>>>> /\ i <= Len(queue'[l]) /\ queue'[l][i] = f
BY DEF InQueue

LEMMA QueueTail ==
    ASSUME Types, NEW l \in Link, queue[l] # <<>>,
           queue' = [queue EXCEPT ![l] = Tail(@)], NEW f
    PROVE  /\ (InQueue(f) = {} => InQueue(f)' = {})
           /\ (One(InQueue(f)) /\ f # Head(queue[l]) => One(InQueue(f)'))
           /\ (One(InQueue(f)) /\ f = Head(queue[l]) => InQueue(f)' = {})
           /\ <<"queue", <<l, 1>>>> \in InQueue(Head(queue[l]))
<1>1. /\ queue \in [Link -> Seq(Frame)] /\ Cap \in Nat \ {0}
      /\ \A k \in Link : Len(queue[k]) \in Nat /\ Len(queue[k]) <= Cap
    BY BoundAssumption DEF Types
<1>2. /\ Len(queue[l]) >= 1 /\ queue'[l] = Tail(queue[l])
      /\ Len(queue'[l]) = Len(queue[l]) - 1 /\ Head(queue[l]) = queue[l][1]
      /\ \A i \in 1..(Len(queue[l]) - 1) : queue'[l][i] = queue[l][i + 1]
      /\ \A k \in Link \ {l} : queue'[k] = queue[k]
    BY <1>1, LenProperties, EmptySeq, HeadTailProperties
<1>3. ASSUME NEW k \in Link, NEW i \in 1..Cap, i <= Len(queue'[k]), queue'[k][i] = f
      PROVE  \E j \in 1..Cap : /\ j = (IF k = l THEN i + 1 ELSE i)
                               /\ j <= Len(queue[k]) /\ queue[k][j] = f
  <2>1. CASE k = l
    <3>1. i + 1 \in 1..Cap /\ i + 1 <= Len(queue[l]) /\ i \in 1..(Len(queue[l]) - 1)
        BY <1>1, <1>2, <1>3, <2>1
    <3> QED
        BY <1>2, <1>3, <2>1, <3>1
  <2>2. CASE k # l
      BY <1>2, <1>3, <2>2
  <2> QED
      BY <2>1, <2>2
<1>4. ASSUME NEW k \in Link, NEW j \in 1..Cap, j <= Len(queue[k]), queue[k][j] = f,
             ~(k = l /\ j = 1)
      PROVE  \E i \in 1..Cap : /\ j = (IF k = l THEN i + 1 ELSE i)
                               /\ i <= Len(queue'[k]) /\ queue'[k][i] = f
  <2>1. CASE k = l
    <3>1. j - 1 \in 1..Cap /\ j - 1 <= Len(queue'[l]) /\ j - 1 \in 1..(Len(queue[l]) - 1)
        BY <1>1, <1>2, <1>4, <2>1
    <3>2. queue'[l][j - 1] = queue[l][(j - 1) + 1] /\ (j - 1) + 1 = j
        BY <1>1, <1>2, <3>1
    <3> QED
        BY <1>4, <2>1, <3>1, <3>2
  <2>2. CASE k # l
      BY <1>2, <1>4, <2>2
  <2> QED
      BY <2>1, <2>2
<1>5. InQueue(f) = {} => InQueue(f)' = {}
  <2> SUFFICES ASSUME InQueue(f) = {}, NEW x \in InQueue(f)' PROVE FALSE
      OBVIOUS
  <2>1. PICK k \in Link, i \in 1..Cap :
            x = <<"queue", <<k, i>>>> /\ i <= Len(queue'[k]) /\ queue'[k][i] = f
      BY QueueSlots
  <2>2. PICK j \in 1..Cap : j <= Len(queue[k]) /\ queue[k][j] = f
      BY <1>3, <2>1
  <2>3. <<"queue", <<k, j>>>> \in InQueue(f)
      BY <2>2, QueueSlots
  <2> QED
      BY <2>3
<1>6. ASSUME One(InQueue(f)), f # Head(queue[l]) PROVE One(InQueue(f)')
  <2>1. PICK x \in InQueue(f) : InQueue(f) = {x}
      BY <1>6 DEF One
  <2>2. PICK k \in Link, j \in 1..Cap :
            x = <<"queue", <<k, j>>>> /\ j <= Len(queue[k]) /\ queue[k][j] = f
      BY QueueSlots
  <2>3. ~(k = l /\ j = 1)
      BY <1>2, <1>6, <2>2
  <2>4. PICK i \in 1..Cap : /\ j = (IF k = l THEN i + 1 ELSE i)
                            /\ i <= Len(queue'[k]) /\ queue'[k][i] = f
      BY <1>4, <2>2, <2>3
  <2>5. <<"queue", <<k, i>>>> \in InQueue(f)'
      BY <2>4, QueueSlots
  <2>6. ASSUME NEW y \in InQueue(f)' PROVE y = <<"queue", <<k, i>>>>
    <3>1. PICK kk \in Link, ii \in 1..Cap :
              y = <<"queue", <<kk, ii>>>> /\ ii <= Len(queue'[kk]) /\ queue'[kk][ii] = f
        BY QueueSlots
    <3>2. PICK jj \in 1..Cap : /\ jj = (IF kk = l THEN ii + 1 ELSE ii)
                               /\ jj <= Len(queue[kk]) /\ queue[kk][jj] = f
        BY <1>3, <3>1
    <3>3. <<"queue", <<kk, jj>>>> \in InQueue(f)
        BY <3>2, QueueSlots
    <3>4. kk = k /\ jj = j
        BY <2>1, <2>2, <3>3
    <3>5. ii = i
        BY <2>4, <3>2, <3>4
    <3> QED
        BY <3>1, <3>4, <3>5
  <2> QED
      BY <2>5, <2>6 DEF One
<1>7. <<"queue", <<l, 1>>>> \in InQueue(Head(queue[l]))
  <2>1. 1 \in 1..Cap /\ 1 <= Len(queue[l]) /\ queue[l][1] = Head(queue[l])
      BY <1>1, <1>2
  <2> QED
      BY <2>1 DEF InQueue
<1>8. ASSUME One(InQueue(f)), f = Head(queue[l]) PROVE InQueue(f)' = {}
  <2> SUFFICES ASSUME NEW x \in InQueue(f)' PROVE FALSE
      OBVIOUS
  <2>1. PICK k \in Link, i \in 1..Cap :
            x = <<"queue", <<k, i>>>> /\ i <= Len(queue'[k]) /\ queue'[k][i] = f
      BY QueueSlots
  <2>2. PICK j \in 1..Cap : /\ j = (IF k = l THEN i + 1 ELSE i)
                            /\ j <= Len(queue[k]) /\ queue[k][j] = f
      BY <1>3, <2>1
  <2>3. <<"queue", <<k, j>>>> \in InQueue(f) /\ <<"queue", <<l, 1>>>> \in InQueue(f)
      BY <1>7, <1>8, <2>2, QueueSlots
  <2>4. k = l /\ j = 1
      BY <1>8, <2>3 DEF One
  <2> QED
      BY <2>2, <2>4
<1> QED
    BY <1>5, <1>6, <1>7, <1>8

LEMMA QueueAppend ==
    ASSUME Types, NEW l \in Link, HasRoom(l), NEW g \in Frame,
           queue' = [queue EXCEPT ![l] = Append(@, g)], NEW f
    PROVE  /\ (f # g => InQueue(f)' = InQueue(f))
           /\ (InQueue(g) = {} => One(InQueue(g)'))
<1> DEFINE n == Len(queue[l]) + 1
<1>1. /\ queue \in [Link -> Seq(Frame)] /\ Cap \in Nat \ {0}
      /\ Len(queue[l]) \in Nat /\ n \in 1..Cap
    BY BoundAssumption DEF Types, HasRoom
<1>2. /\ queue'[l] = Append(queue[l], g) /\ Len(queue'[l]) = n
      /\ queue'[l][n] = g
      /\ \A i \in 1..Len(queue[l]) : queue'[l][i] = queue[l][i]
      /\ \A k \in Link \ {l} : queue'[k] = queue[k]
    BY <1>1, AppendProperties
<1>3. ASSUME NEW h, NEW k \in Link, NEW i \in 1..Cap
      PROVE  (i <= Len(queue'[k]) /\ queue'[k][i] = h)
               <=> \/ (i <= Len(queue[k]) /\ queue[k][i] = h)
                   \/ (k = l /\ i = n /\ h = g)
  <2>1. CASE k # l
      BY <1>2, <2>1
  <2>2. CASE k = l /\ i = n
      BY <1>1, <1>2, <2>2
  <2>3. CASE k = l /\ i # n
    <3>1. i <= Len(queue'[l]) <=> i \in 1..Len(queue[l])
        BY <1>1, <1>2, <2>3
    <3> QED
        BY <1>1, <1>2, <2>3, <3>1
  <2> QED
      BY <2>1, <2>2, <2>3
<1> HIDE DEF n
<1>4. ASSUME f # g PROVE InQueue(f)' = InQueue(f)
  <2>1. \A k \in Link, i \in 1..Cap :
           (i <= Len(queue'[k]) /\ queue'[k][i] = f)
             <=> (i <= Len(queue[k]) /\ queue[k][i] = f)
      BY <1>3, <1>4
  <2>2. \A x : x \in InQueue(f)' <=> x \in InQueue(f)
      BY <2>1, QueueSlots
  <2> QED
      BY <2>2
<1>5. ASSUME InQueue(g) = {} PROVE One(InQueue(g)')
  <2>1. <<"queue", <<l, n>>>> \in InQueue(g)'
    <3>1. n <= Len(queue'[l]) /\ queue'[l][n] = g
        BY <1>1, <1>2
    <3> QED
        BY <1>1, <3>1, QueueSlots
  <2>2. ASSUME NEW x \in InQueue(g)' PROVE x = <<"queue", <<l, n>>>>
    <3>1. PICK k \in Link, i \in 1..Cap :
              x = <<"queue", <<k, i>>>> /\ i <= Len(queue'[k]) /\ queue'[k][i] = g
        BY QueueSlots
    <3>2. ~(i <= Len(queue[k]) /\ queue[k][i] = g)
        BY <1>5, QueueSlots
    <3> QED
        BY <1>3, <3>1, <3>2
  <2> QED
      BY <2>1, <2>2 DEF One
<1> QED
    BY <1>4, <1>5

\* The other parts of Places, by what a step does to the variable behind them.
LEMMA HandSame == ASSUME NEW f, UNCHANGED inflight PROVE InHand(f)' = InHand(f)
BY DEF InHand

LEMMA LostSame == ASSUME NEW f, UNCHANGED lost_frames PROVE InLost(f)' = InLost(f)
BY DEF InLost

LEMMA BatchSame == ASSUME NEW f, UNCHANGED batch PROVE InBatch(f)' = InBatch(f)
BY DEF InBatch

LEMMA SettledSame ==
    ASSUME NEW f, UNCHANGED <<written, was_reset, discarded, unreported>>
    PROVE  Settled(f)' = Settled(f)
BY DEF Settled

LEMMA HandSet ==
    ASSUME Types, NEW l \in Link, NEW g, inflight' = [inflight EXCEPT ![l] = g], NEW f
    PROVE  /\ (f # inflight[l] /\ f # g => InHand(f)' = InHand(f))
           /\ (f = inflight[l] /\ f # g => InHand(f)' = InHand(f) \ {<<"inflight", l>>})
           /\ (f # inflight[l] /\ f = g => InHand(f)' = InHand(f) \cup {<<"inflight", l>>})
           /\ (f = inflight[l] => <<"inflight", l>> \in InHand(f))
BY DEF InHand, Types

LEMMA LostReport ==
    ASSUME Types, NEW l \in Link, NEW g, Report(l, g), NEW f
    PROVE  /\ (f # g => InLost(f)' = InLost(f))
           /\ InLost(g)' = InLost(g) \cup {<<"lost_frames", l>>}
BY DEF InLost, Types, Report

LEMMA LostTaken ==
    ASSUME Types, NEW l \in Link, batch[l] = {},
           batch' = [batch EXCEPT ![l] = lost_frames[l]],
           lost_frames' = [lost_frames EXCEPT ![l] = {}], NEW f
    PROVE  /\ (f \notin lost_frames[l] => InLost(f)' = InLost(f) /\ InBatch(f)' = InBatch(f))
           /\ (f \in lost_frames[l] =>
                 /\ <<"lost_frames", l>> \in InLost(f)
                 /\ InLost(f)' = InLost(f) \ {<<"lost_frames", l>>}
                 /\ InBatch(f)' = InBatch(f) \cup {<<"batch", l>>})
BY DEF InLost, InBatch, Types

LEMMA BatchHandled ==
    ASSUME Types, NEW l \in Link, NEW g \in batch[l], Handled(l, g), NEW f
    PROVE  /\ (f # g => InBatch(f)' = InBatch(f))
           /\ InBatch(g)' = InBatch(g) \ {<<"batch", l>>}
           /\ <<"batch", l>> \in InBatch(g)
BY DEF InBatch, Types, Handled

LEMMA SettledAs ==
    ASSUME NEW f
    PROVE  /\ (f \in discarded <=> Dropped \in Settled(f))
           /\ (f \in was_reset <=> <<"settled", "was_reset">> \in Settled(f))
           /\ (f \in written <=> <<"settled", "written">> \in Settled(f))
           /\ (f \in unreported <=> <<"settled", "unreported">> \in Settled(f))
BY DEF Settled, Dropped

\* The frame that a step settles, one of the four ways.
LEMMA SettledAdds ==
    ASSUME NEW g, NEW v, NEW f,
           \/ /\ v = "written" /\ written' = written \cup {g}
              /\ UNCHANGED <<was_reset, discarded, unreported>>
           \/ /\ v = "was_reset" /\ was_reset' = was_reset \cup {g}
              /\ UNCHANGED <<written, discarded, unreported>>
           \/ /\ v = "discarded" /\ discarded' = discarded \cup {g}
              /\ UNCHANGED <<written, was_reset, unreported>>
           \/ /\ v = "unreported" /\ unreported' = unreported \cup {g}
              /\ UNCHANGED <<written, was_reset, discarded>>
    PROVE  /\ (f # g => Settled(f)' = Settled(f))
           /\ Settled(g)' = Settled(g) \cup {<<"settled", v>>}
BY DEF Settled

------------------------------------------------------------------------------
(* From the parts to the frame *)

LEMMA Stays ==
    ASSUME NEW f, Kept(f), Places(f)' = Places(f), f \in accepted' <=> f \in accepted
    PROVE  Kept(f)'
BY DEF Kept, One

LEMMA StaysByParts ==
    ASSUME NEW f, Kept(f), f \in accepted' <=> f \in accepted,
           InQueue(f)' = InQueue(f), InHand(f)' = InHand(f), InLost(f)' = InLost(f),
           InBatch(f)' = InBatch(f), Settled(f)' = Settled(f)
    PROVE  Kept(f)'
BY Stays DEF Places

\* A frame found anywhere but among the discarded was accepted, and is nowhere
\* else.
LEMMA Found ==
    ASSUME NEW f, Kept(f), NEW p \in Places(f), p # Dropped
    PROVE  f \in accepted /\ Places(f) = {p}
BY DEF Kept, One

\* Where only one place is and its part is known, the other parts are empty.
LEMMA OnlyPart ==
    ASSUME NEW f, NEW p, Places(f) = {p}
    PROVE  /\ (p[1] = "queue" => /\ InQueue(f) = {p} /\ InHand(f) = {} /\ InLost(f) = {}
                                 /\ InBatch(f) = {} /\ Settled(f) = {})
           /\ (p[1] = "inflight" => /\ InQueue(f) = {} /\ InHand(f) = {p} /\ InLost(f) = {}
                                    /\ InBatch(f) = {} /\ Settled(f) = {})
           /\ (p[1] = "lost_frames" => /\ InQueue(f) = {} /\ InHand(f) = {}
                                       /\ InLost(f) = {p}
                                       /\ InBatch(f) = {} /\ Settled(f) = {})
           /\ (p[1] = "batch" => /\ InQueue(f) = {} /\ InHand(f) = {} /\ InLost(f) = {}
                                 /\ InBatch(f) = {p} /\ Settled(f) = {})
           /\ (p[1] = "settled" => /\ InQueue(f) = {} /\ InHand(f) = {} /\ InLost(f) = {}
                                   /\ InBatch(f) = {} /\ Settled(f) = {p})
BY Parts DEF Places

\* A frame that moves is in one place after the step.
LEMMA Arrives ==
    ASSUME NEW f, f \in accepted', One(Places(f)')
    PROVE  Kept(f)'
BY DEF Kept, One

\* The channel of a link loses its first frame: every other frame in it moves up.
LEMMA MovesUp ==
    ASSUME Types, NEW l \in Link, queue[l] # <<>>,
           queue' = [queue EXCEPT ![l] = Tail(@)],
           NEW f, f # Head(queue[l]), Kept(f), f \in accepted' <=> f \in accepted,
           InHand(f)' = InHand(f), InLost(f)' = InLost(f),
           InBatch(f)' = InBatch(f), Settled(f)' = Settled(f)
    PROVE  Kept(f)'
<1>1. CASE InQueue(f) = {}
  <2>1. InQueue(f)' = {}
      BY <1>1, QueueTail
  <2> QED
      BY <1>1, <2>1, StaysByParts
<1>2. CASE InQueue(f) # {}
  <2>1. PICK p \in InQueue(f) : p[1] = "queue"
      BY <1>2, Parts
  <2>2. p \in Places(f) /\ p # Dropped
      BY <2>1 DEF Places, Dropped
  <2>3. f \in accepted /\ Places(f) = {p}
      BY <2>2, Found
  <2>4. /\ InQueue(f) = {p} /\ InHand(f) = {} /\ InLost(f) = {}
        /\ InBatch(f) = {} /\ Settled(f) = {}
      BY <2>1, <2>3, OnlyPart
  <2>5. One(InQueue(f)')
    <3>1. One(InQueue(f))
        BY <2>4 DEF One
    <3> QED
        BY <3>1, QueueTail
  <2>6. Places(f)' = InQueue(f)'
      BY <2>4 DEF Places
  <2> QED
      BY <2>3, <2>5, <2>6, Arrives
<1> QED
    BY <1>1, <1>2

\* The first frame of a channel was accepted and is nowhere else; when it has
\* left the channel it is in no channel.
LEMMA HeadLeaves ==
    ASSUME Types, NEW l \in Link, queue[l] # <<>>,
           queue' = [queue EXCEPT ![l] = Tail(@)],
           NEW g, g = Head(queue[l]), Kept(g)
    PROVE  /\ g \in accepted
           /\ InQueue(g)' = {}
           /\ InHand(g) = {} /\ InLost(g) = {}
           /\ InBatch(g) = {} /\ Settled(g) = {}
<1> DEFINE p == <<"queue", <<l, 1>>>>
<1>1. p \in InQueue(g) /\ p # Dropped /\ p[1] = "queue"
    BY QueueTail DEF Dropped
<1>2. p \in Places(g)
    BY <1>1 DEF Places
<1> HIDE DEF p
<1>3. g \in accepted /\ Places(g) = {p}
    BY <1>1, <1>2, Found
<1>4. /\ InQueue(g) = {p} /\ InHand(g) = {} /\ InLost(g) = {}
      /\ InBatch(g) = {} /\ Settled(g) = {}
    BY <1>1, <1>3, OnlyPart
<1>5. One(InQueue(g))
    BY <1>4 DEF One
<1> QED
    BY <1>3, <1>4, <1>5, QueueTail

\* Every step of the drain task keeps the frames: it takes one from the channel
\* into its hand or the list, or lets the one in its hand go.
LEMMA DrainKeeps ==
    ASSUME Types, NEW l \in Link, DrainStep(l), ~DrainReturn(l),
           \A f \in Frame : Kept(f), NEW f \in Frame
    PROVE  Kept(f)'
<1> USE DEF owners, linkVars, taskVars, sendVars, history
<1>0. UNCHANGED <<accepted, batch>>
    BY DEF DrainStep, DrainStopped, DrainRecv, DrainWriteStopped, DrainWritten,
           DrainWriteFailed, DrainReport, DrainNotify
<1>1. InBatch(f)' = InBatch(f) /\ (f \in accepted' <=> f \in accepted)
    BY <1>0, BatchSame
<1>2. CASE UNCHANGED <<queue, inflight, lost_frames, written, was_reset, discarded, unreported>>
    BY <1>1, <1>2, StaysByParts, QueueSame, HandSame, LostSame, SettledSame
<1>3. CASE DrainStopped(l) \/ DrainNotify(l)
    BY <1>2, <1>3 DEF DrainStopped, DrainNotify
<1>4. CASE DrainRecv(l) \/ DrainReport(l)
  <2>1. /\ queue[l] # <<>> /\ queue' = [queue EXCEPT ![l] = Tail(@)]
        /\ UNCHANGED <<written, was_reset, discarded, unreported>>
      BY <1>4 DEF DrainRecv, DrainReport
  <2>2. PICK g \in Frame : g = Head(queue[l])
      BY <2>1, TailKeepsCap DEF Types
  <2>3. /\ g \in accepted /\ InQueue(g)' = {} /\ InHand(g) = {} /\ InLost(g) = {}
        /\ InBatch(g) = {} /\ Settled(g) = {}
      BY <2>1, <2>2, HeadLeaves
  <2>4. Settled(f)' = Settled(f)
      BY <2>1, SettledSame
  <2>5. CASE Report(l, g) /\ UNCHANGED inflight
    <3>1. InHand(f)' = InHand(f)
        BY <2>5, HandSame
    <3>2. CASE f = g
      <4>1. InLost(f)' = {<<"lost_frames", l>>}
          BY <2>3, <2>5, <3>2, LostReport
      <4>2. Places(f)' = {<<"lost_frames", l>>}
          BY <1>1, <2>3, <2>4, <3>1, <3>2, <4>1 DEF Places
      <4> QED
          BY <1>1, <2>3, <3>2, <4>2, Arrives DEF One
    <3>3. CASE f # g
        BY <1>1, <2>1, <2>2, <2>4, <2>5, <3>1, <3>3, LostReport, MovesUp
    <3> QED
        BY <3>2, <3>3
  <2>6. CASE /\ inflight[l] = None /\ inflight' = [inflight EXCEPT ![l] = g]
             /\ UNCHANGED lost_frames
    <3>1. InLost(f)' = InLost(f) /\ f # None
        BY <2>6, LostSame, NoneIsNoFrame
    <3>2. CASE f = g
      <4>1. InHand(f)' = {<<"inflight", l>>}
          BY <2>3, <2>6, <3>1, <3>2, HandSet
      <4>2. Places(f)' = {<<"inflight", l>>}
          BY <1>1, <2>3, <2>4, <3>1, <3>2, <4>1 DEF Places
      <4> QED
          BY <1>1, <2>3, <3>2, <4>2, Arrives DEF One
    <3>3. CASE f # g
      <4>1. InHand(f)' = InHand(f)
          BY <2>6, <3>1, <3>3, HandSet
      <4> QED
          BY <1>1, <2>1, <2>2, <2>4, <3>1, <3>3, <4>1, MovesUp
    <3> QED
        BY <3>2, <3>3
  <2>7. dpc[l] # "write" => inflight[l] = None
      BY DEF Types
  <2> QED
      BY <1>4, <2>2, <2>5, <2>6, <2>7 DEF DrainRecv, DrainReport
<1>5. CASE DrainWriteStopped(l) \/ DrainWritten(l) \/ DrainWriteFailed(l)
  <2>1. PICK g \in Frame : g = inflight[l]
      BY <1>5 DEF DrainWriteStopped, DrainWritten, DrainWriteFailed, Types
  <2>2. inflight' = [inflight EXCEPT ![l] = None] /\ UNCHANGED queue
      BY <1>5 DEF DrainWriteStopped, DrainWritten, DrainWriteFailed
  <2>3. InQueue(f)' = InQueue(f) /\ f # None
      BY <2>2, QueueSame, NoneIsNoFrame
  <2>4. CASE f # g
    <3>1. InHand(f)' = InHand(f)
        BY <2>1, <2>2, <2>3, <2>4, HandSet
    <3>2. CASE DrainWriteStopped(l)
      <4>1. Report(l, g) /\ UNCHANGED <<written, was_reset, discarded, unreported>>
          BY <2>1, <3>2 DEF DrainWriteStopped
      <4>2. InLost(f)' = InLost(f) /\ Settled(f)' = Settled(f)
          BY <2>4, <4>1, LostReport, SettledSame
      <4> QED
          BY <1>1, <2>3, <3>1, <4>2, StaysByParts
    <3>3. CASE DrainWritten(l)
      <4>1. /\ written' = written \cup {g}
            /\ UNCHANGED <<lost_frames, was_reset, discarded, unreported>>
          BY <2>1, <3>3 DEF DrainWritten
      <4>2. InLost(f)' = InLost(f) /\ Settled(f)' = Settled(f)
          BY <2>4, <4>1, LostSame, SettledAdds
      <4> QED
          BY <1>1, <2>3, <3>1, <4>2, StaysByParts
    <3>4. CASE DrainWriteFailed(l)
      <4>1. /\ unreported' = unreported \cup {g}
            /\ UNCHANGED <<lost_frames, written, was_reset, discarded>>
          BY <2>1, <3>4 DEF DrainWriteFailed
      <4>2. InLost(f)' = InLost(f) /\ Settled(f)' = Settled(f)
          BY <2>4, <4>1, LostSame, SettledAdds
      <4> QED
          BY <1>1, <2>3, <3>1, <4>2, StaysByParts
    <3> QED
        BY <1>5, <3>2, <3>3, <3>4
  <2>5. CASE f = g
    <3> DEFINE p == <<"inflight", l>>
    <3>1. p \in InHand(f) /\ InHand(f)' = InHand(f) \ {p} /\ p # Dropped /\ p[1] = "inflight"
        BY <2>1, <2>2, <2>3, <2>5, HandSet DEF Dropped
    <3>2. p \in Places(f)
        BY <3>1 DEF Places
    <3> HIDE DEF p
    <3>3. f \in accepted /\ Places(f) = {p}
        BY <3>1, <3>2, Found
    <3>4. /\ InQueue(f) = {} /\ InHand(f) = {p} /\ InLost(f) = {}
          /\ InBatch(f) = {} /\ Settled(f) = {}
        BY <3>1, <3>3, OnlyPart
    <3>5. ASSUME NEW q, InLost(f)' \cup Settled(f)' = {q} PROVE Kept(f)'
      <4>1. Places(f)' = {q}
          BY <1>1, <2>3, <3>1, <3>4, <3>5 DEF Places
      <4> QED
          BY <1>1, <3>3, <4>1, Arrives DEF One
    <3>6. CASE DrainWriteStopped(l)
      <4>1. Report(l, g) /\ UNCHANGED <<written, was_reset, discarded, unreported>>
          BY <2>1, <3>6 DEF DrainWriteStopped
      <4>2. InLost(f)' = {<<"lost_frames", l>>} /\ Settled(f)' = {}
          BY <2>5, <3>4, <4>1, LostReport, SettledSame
      <4> QED
          BY <3>5, <4>2
    <3>7. CASE DrainWritten(l)
      <4>1. /\ written' = written \cup {g}
            /\ UNCHANGED <<lost_frames, was_reset, discarded, unreported>>
          BY <2>1, <3>7 DEF DrainWritten
      <4>2. InLost(f)' = {} /\ Settled(f)' = {<<"settled", "written">>}
          BY <2>5, <3>4, <4>1, LostSame, SettledAdds
      <4> QED
          BY <3>5, <4>2
    <3>8. CASE DrainWriteFailed(l)
      <4>1. /\ unreported' = unreported \cup {g}
            /\ UNCHANGED <<lost_frames, written, was_reset, discarded>>
          BY <2>1, <3>8 DEF DrainWriteFailed
      <4>2. InLost(f)' = {} /\ Settled(f)' = {<<"settled", "unreported">>}
          BY <2>5, <3>4, <4>1, LostSame, SettledAdds
      <4> QED
          BY <3>5, <4>2
    <3> QED
        BY <1>5, <3>6, <3>7, <3>8
  <2> QED
      BY <2>4, <2>5
<1> QED
    BY <1>3, <1>4, <1>5 DEF DrainStep

\* The list of lost frames becomes the batch of the recovery.
LEMMA TakenKeeps ==
    ASSUME Types, NEW l \in Link, batch[l] = {},
           batch' = [batch EXCEPT ![l] = lost_frames[l]],
           lost_frames' = [lost_frames EXCEPT ![l] = {}],
           NEW f, Kept(f), f \in accepted' <=> f \in accepted,
           InQueue(f)' = InQueue(f), InHand(f)' = InHand(f), Settled(f)' = Settled(f)
    PROVE  Kept(f)'
<1>1. CASE f \notin lost_frames[l]
    BY <1>1, LostTaken, StaysByParts
<1>2. CASE f \in lost_frames[l]
  <2> DEFINE p == <<"lost_frames", l>>
  <2>1. /\ p \in InLost(f) /\ InLost(f)' = InLost(f) \ {p}
        /\ InBatch(f)' = InBatch(f) \cup {<<"batch", l>>}
        /\ p # Dropped /\ p[1] = "lost_frames"
      BY <1>2, LostTaken DEF Dropped
  <2>2. p \in Places(f)
      BY <2>1 DEF Places
  <2> HIDE DEF p
  <2>3. f \in accepted /\ Places(f) = {p}
      BY <2>1, <2>2, Found
  <2>4. /\ InQueue(f) = {} /\ InHand(f) = {} /\ InLost(f) = {p}
        /\ InBatch(f) = {} /\ Settled(f) = {}
      BY <2>1, <2>3, OnlyPart
  <2>5. Places(f)' = {<<"batch", l>>}
      BY <2>1, <2>4 DEF Places
  <2> QED
      BY <2>3, <2>5, Arrives DEF One
<1> QED
    BY <1>1, <1>2

\* The receiver is dropped with what is still in the channel.
LEMMA QueueDropped ==
    ASSUME Types, NEW l \in Link, queue' = [queue EXCEPT ![l] = <<>>], NEW f
    PROVE  /\ (f \notin Range(queue[l]) => InQueue(f)' = InQueue(f))
           /\ (f \in Range(queue[l]) => InQueue(f) # {})
           /\ (f \in Range(queue[l]) /\ One(InQueue(f)) => InQueue(f)' = {})
<1>1. /\ queue \in [Link -> Seq(Frame)] /\ Cap \in Nat \ {0}
      /\ \A k \in Link : Len(queue[k]) \in Nat /\ Len(queue[k]) <= Cap
    BY BoundAssumption DEF Types
<1>2. /\ queue'[l] = <<>> /\ Len(queue'[l]) = 0
      /\ \A k \in Link \ {l} : queue'[k] = queue[k]
    BY <1>1
<1>3. \A i \in 1..Len(queue[l]) : queue[l][i] \in Range(queue[l])
    BY <1>1, LenProperties DEF Range
<1>4. ASSUME f \notin Range(queue[l]) PROVE InQueue(f)' = InQueue(f)
  <2>1. \A k \in Link, i \in 1..Cap :
           (i <= Len(queue'[k]) /\ queue'[k][i] = f)
             <=> (i <= Len(queue[k]) /\ queue[k][i] = f)
    <3> SUFFICES ASSUME NEW k \in Link, NEW i \in 1..Cap
                 PROVE  (i <= Len(queue'[k]) /\ queue'[k][i] = f)
                          <=> (i <= Len(queue[k]) /\ queue[k][i] = f)
        OBVIOUS
    <3>1. CASE k # l
        BY <1>2, <3>1
    <3>2. CASE k = l
      <4>1. ~(i <= Len(queue'[k]))
          BY <1>2, <3>2
      <4>2. i <= Len(queue[l]) => i \in 1..Len(queue[l])
          BY <1>1
      <4> QED
          BY <1>3, <1>4, <3>2, <4>1, <4>2
    <3> QED
        BY <3>1, <3>2
  <2>2. \A x : x \in InQueue(f)' <=> x \in InQueue(f)
      BY <2>1, QueueSlots
  <2> QED
      BY <2>2
<1>5. ASSUME f \in Range(queue[l])
      PROVE  \E i \in 1..Cap : <<"queue", <<l, i>>>> \in InQueue(f)
  <2>1. PICK i \in 1..Len(queue[l]) : queue[l][i] = f
      BY <1>1, <1>5, LenProperties DEF Range
  <2>2. i \in 1..Cap /\ i <= Len(queue[l])
      BY <1>1
  <2> QED
      BY <2>1, <2>2, QueueSlots
<1>6. ASSUME f \in Range(queue[l]), One(InQueue(f)) PROVE InQueue(f)' = {}
  <2> SUFFICES ASSUME NEW x \in InQueue(f)' PROVE FALSE
      OBVIOUS
  <2>1. PICK k \in Link, i \in 1..Cap :
            x = <<"queue", <<k, i>>>> /\ i <= Len(queue'[k]) /\ queue'[k][i] = f
      BY QueueSlots
  <2>2. k # l
      BY <1>2, <2>1
  <2>3. <<"queue", <<k, i>>>> \in InQueue(f)
      BY <1>2, <2>1, <2>2, QueueSlots
  <2>4. PICK j \in 1..Cap : <<"queue", <<l, j>>>> \in InQueue(f)
      BY <1>5, <1>6
  <2> QED
      BY <1>6, <2>2, <2>3, <2>4 DEF One
<1> QED
    BY <1>4, <1>5, <1>6

LEMMA ReturnKeeps ==
    ASSUME Types, NEW l \in Link, DrainReturn(l),
           Role = "reassembler" => batch[l] = {},
           NEW f \in Frame, Kept(f)
    PROVE  Kept(f)'
<1> USE DEF owners, linkVars, taskVars, sendVars, history
<1>1. /\ queue' = [queue EXCEPT ![l] = <<>>]
      /\ unreported' = unreported \cup Range(queue[l])
      /\ UNCHANGED <<inflight, accepted, written, was_reset, discarded>>
      /\ \/ UNCHANGED <<batch, lost_frames>>
         \/ /\ Role = "reassembler"
            /\ batch' = [batch EXCEPT ![l] = lost_frames[l]]
            /\ lost_frames' = [lost_frames EXCEPT ![l] = {}]
    BY DEF DrainReturn
<1>2. InHand(f)' = InHand(f) /\ (f \in accepted' <=> f \in accepted)
    BY <1>1, HandSame
<1>3. CASE f \notin Range(queue[l])
  <2>1. InQueue(f)' = InQueue(f)
      BY <1>1, <1>3, QueueDropped
  <2>2. Settled(f)' = Settled(f)
      BY <1>1, <1>3 DEF Settled
  <2>3. CASE UNCHANGED <<batch, lost_frames>>
      BY <1>2, <2>1, <2>2, <2>3, LostSame, BatchSame, StaysByParts
  <2> QED
      BY <1>1, <1>2, <2>1, <2>2, <2>3, TakenKeeps
<1>4. CASE f \in Range(queue[l])
  <2>0. InQueue(f) # {}
      BY <1>1, <1>4, QueueDropped
  <2>1. PICK p \in InQueue(f) : p[1] = "queue"
      BY <2>0, Parts
  <2>2. p \in Places(f) /\ p # Dropped
      BY <2>1 DEF Places, Dropped
  <2>3. f \in accepted /\ Places(f) = {p}
      BY <2>2, Found
  <2>4. /\ InQueue(f) = {p} /\ InHand(f) = {} /\ InLost(f) = {}
        /\ InBatch(f) = {} /\ Settled(f) = {}
      BY <2>1, <2>3, OnlyPart
  <2>5. InQueue(f)' = {}
    <3>1. One(InQueue(f))
        BY <2>4 DEF One
    <3> QED
        BY <1>1, <1>4, <3>1, QueueDropped
  <2>6. InLost(f)' = {} /\ InBatch(f)' = {}
    <3>1. f \in lost_frames[l] => <<"lost_frames", l>> \in InLost(f)
        BY DEF InLost
    <3> QED
        BY <1>1, <2>4, <3>1, LostTaken, LostSame, BatchSame
  <2>7. Settled(f)' = {<<"settled", "unreported">>}
    <3>1. f \notin written /\ f \notin was_reset /\ f \notin discarded
        BY <2>4, SettledAs
    <3> QED
        BY <1>1, <1>4, <3>1 DEF Settled
  <2>8. Places(f)' = {<<"settled", "unreported">>}
      BY <1>2, <2>4, <2>5, <2>6, <2>7 DEF Places
  <2> QED
      BY <1>2, <2>3, <2>8, Arrives DEF One
<1> QED
    BY <1>3, <1>4

------------------------------------------------------------------------------
(* Sending *)

\* A channel takes the frame, or it is dropped.
LEMMA SendOutcome ==
    ASSUME Types, NEW g, send(g)
    PROVE  \/ /\ \E l \in Link : /\ HasRoom(l)
                                 /\ queue' = [queue EXCEPT ![l] = Append(@, g)]
              /\ accepted' = accepted \cup {g} /\ UNCHANGED discarded
           \/ /\ discarded' = discarded \cup {g}
              /\ UNCHANGED <<queue, accepted>>
BY DEF send, Takers, AliveLinks, Types

\* A frame that was nowhere, or has just left its batch.
LEMMA SentIsKept ==
    ASSUME Types, NEW g \in Frame,
           \/ /\ \E l \in Link : /\ HasRoom(l)
                                 /\ queue' = [queue EXCEPT ![l] = Append(@, g)]
              /\ accepted' = accepted \cup {g} /\ UNCHANGED discarded
           \/ /\ discarded' = discarded \cup {g}
              /\ UNCHANGED <<queue, accepted>>,
           UNCHANGED <<inflight, lost_frames, written, unreported>>,
           g \in was_reset' <=> g \in was_reset,
           InQueue(g) = {}, InHand(g) = {}, InLost(g) = {}, InBatch(g)' = {},
           Settled(g) = {}
    PROVE  Kept(g)'
<1>1. InHand(g)' = {} /\ InLost(g)' = {}
    BY HandSame, LostSame
<1>2. CASE UNCHANGED discarded
  <2>1. PICK l \in Link : HasRoom(l) /\ queue' = [queue EXCEPT ![l] = Append(@, g)]
    <3>1. discarded # discarded \cup {g}
      <4>1. g \notin discarded
          BY SettledAs
      <4> QED
          BY <4>1
    <3> QED
        BY <1>2, <3>1
  <2>2. One(InQueue(g)')
      BY <2>1, QueueAppend
  <2>3. Settled(g)' = {} /\ g \in accepted'
    <3>1. Settled(g)' = Settled(g)
        BY <1>2 DEF Settled
    <3>2. g \notin discarded
        BY SettledAs
    <3> QED
        BY <1>2, <3>1, <3>2
  <2>4. Places(g)' = InQueue(g)'
      BY <1>1, <2>3 DEF Places
  <2> QED
      BY <2>2, <2>3, <2>4, Arrives
<1>3. CASE discarded' = discarded \cup {g} /\ UNCHANGED <<queue, accepted>>
  <2>1. InQueue(g)' = {}
      BY <1>3, QueueSame
  <2>2. Settled(g)' = {Dropped}
    <3>1. g \notin written /\ g \notin was_reset /\ g \notin unreported
        BY SettledAs
    <3> QED
        BY <1>3, <3>1 DEF Settled, Dropped
  <2>3. Places(g)' = {Dropped}
      BY <1>1, <2>1, <2>2 DEF Places
  <2> QED
      BY <2>3 DEF Kept, One
<1> QED
    BY <1>2, <1>3

\* Every other frame stays where it is.
LEMMA OthersStay ==
    ASSUME Types, NEW g \in Frame,
           \/ /\ \E l \in Link : /\ HasRoom(l)
                                 /\ queue' = [queue EXCEPT ![l] = Append(@, g)]
              /\ accepted' = accepted \cup {g} /\ UNCHANGED discarded
           \/ /\ discarded' = discarded \cup {g}
              /\ UNCHANGED <<queue, accepted>>,
           UNCHANGED <<inflight, lost_frames, written, unreported>>,
           NEW f, f # g, Kept(f), f \in was_reset' <=> f \in was_reset,
           InBatch(f)' = InBatch(f)
    PROVE  Kept(f)'
<1>1. InHand(f)' = InHand(f) /\ InLost(f)' = InLost(f)
    BY HandSame, LostSame
<1>2. InQueue(f)' = InQueue(f)
    BY QueueSame, QueueAppend
<1>3. (f \in accepted' <=> f \in accepted) /\ (f \in discarded' <=> f \in discarded)
    OBVIOUS
<1>4. Settled(f)' = Settled(f)
    BY <1>3 DEF Settled
<1> QED
    BY <1>1, <1>2, <1>3, <1>4, StaysByParts

\* The frames of a batch were accepted and are nowhere else.
LEMMA InBatchOnly ==
    ASSUME Types, NEW l \in Link, NEW g \in batch[l], Kept(g), Handled(l, g)
    PROVE  /\ g \in accepted /\ Places(g) = {<<"batch", l>>}
           /\ InQueue(g) = {} /\ InHand(g) = {} /\ InLost(g) = {}
           /\ InBatch(g)' = {} /\ Settled(g) = {}
<1> DEFINE p == <<"batch", l>>
<1>1. /\ p \in InBatch(g) /\ InBatch(g)' = InBatch(g) \ {p}
      /\ p # Dropped /\ p[1] = "batch"
    BY BatchHandled DEF Dropped
<1>2. p \in Places(g)
    BY <1>1 DEF Places
<1> HIDE DEF p
<1>3. g \in accepted /\ Places(g) = {p}
    BY <1>1, <1>2, Found
<1>4. /\ InQueue(g) = {} /\ InHand(g) = {} /\ InLost(g) = {}
      /\ InBatch(g) = {p} /\ Settled(g) = {}
    BY <1>1, <1>3, OnlyPart
<1> QED
    BY <1>1, <1>3, <1>4 DEF p

------------------------------------------------------------------------------
(* The invariant of the frames *)

\* A DATA frame that no channel has taken yet, an RST whose connection was not
\* reset and a control frame that was not sent are nowhere.
LEMMA Nowhere ==
    ASSUME NEW f, Kept(f), f \notin accepted \cup discarded
    PROVE  /\ InQueue(f) = {} /\ InHand(f) = {} /\ InLost(f) = {}
           /\ InBatch(f) = {} /\ Settled(f) = {}
<1>1. Dropped \notin Places(f)
    BY SettledAs, Parts DEF Places, Dropped
<1>2. Places(f) = {}
    BY <1>1 DEF Kept
<1> QED
    BY <1>2 DEF Places

LEMMA RstIsApart ==
    ASSUME NEW f \in Data
    PROVE  Rst(f) \in Frame /\ Rst(f) \notin Data /\ Rst(f) \notin Ctl
BY FrameAssumption DEF Frame, Rst

LEMMA NextKept ==
    ASSUME Types, Conserved, [Next]_vars, NEW f \in Frame
    PROVE  Kept(f)'
<1> USE DEF owners, linkVars, taskVars, sendVars, history
<1>0. \A g \in Frame : Kept(g)
    BY DEF Conserved
<1>1. CASE UNCHANGED <<queue, inflight, lost_frames, batch, accepted, written,
                       was_reset, discarded, unreported>>
    BY <1>0, <1>1, StaysByParts, QueueSame, HandSame, LostSame, BatchSame, SettledSame
<1>2. ASSUME NEW t \in Tunnel, Accept(t) \/ Open(t) PROVE Kept(f)'
    BY <1>1, <1>2 DEF Accept, Open
<1>3. ASSUME NEW l \in Link, DrainStep(l) PROVE Kept(f)'
  <2>1. CASE DrainReturn(l)
    <3>1. Role = "reassembler" => batch[l] = {}
        BY <2>1 DEF Conserved, Batches, DrainReturn, Recovering
    <3> QED
        BY <1>0, <2>1, <3>1, ReturnKeeps
  <2> QED
      BY <1>0, <1>3, <2>1, DrainKeeps
<1>4. ASSUME NEW l \in Link, TakeLost(l) PROVE Kept(f)'
  <2>1. batch[l] = {}
      BY <1>4 DEF TakeLost, Conserved, Batches, Recovering
  <2>2. /\ batch' = [batch EXCEPT ![l] = lost_frames[l]]
        /\ lost_frames' = [lost_frames EXCEPT ![l] = {}]
        /\ UNCHANGED <<queue, inflight, accepted, written, was_reset, discarded,
                       unreported>>
      BY <1>4 DEF TakeLost
  <2> QED
      BY <1>0, <2>1, <2>2, TakenKeeps, QueueSame, HandSame, SettledSame
<1>5. ASSUME NEW l \in Link, ReadLoopEnds(l) \/ OwnerDone(l) \/ sweep_idle(l) \/ NetFails(l)
      PROVE  Kept(f)'
    BY <1>1, <1>5 DEF ReadLoopEnds, OwnerDone, sweep_idle, NetFails
<1>6. ASSUME NEW l \in Link, NEW g \in batch[l], ResendControl(l, g) PROVE Kept(f)'
  <2>1. g \in Frame /\ Kept(g)
      BY <1>0 DEF Types
  <2>2. /\ Handled(l, g) /\ send(g)
        /\ UNCHANGED <<inflight, lost_frames, written, was_reset, unreported>>
      BY <1>6 DEF ResendControl
  <2>3. CASE f = g
      BY <2>1, <2>2, <2>3, InBatchOnly, SendOutcome, SentIsKept
  <2>4. CASE f # g
    <3>1. InBatch(f)' = InBatch(f)
        BY <2>2, <2>4, BatchHandled
    <3> QED
        BY <1>0, <2>1, <2>2, <2>4, <3>1, SendOutcome, OthersStay
  <2> QED
      BY <2>3, <2>4
<1>7. ASSUME NEW l \in Link, NEW g \in batch[l], ResetData(l, g) PROVE Kept(f)'
  <2>1. g \in Frame /\ Kept(g) /\ g \in Data
      BY <1>0, <1>7 DEF Types, ResetData, IsControl
  <2>2. /\ Handled(l, g) /\ was_reset' = was_reset \cup {g}
        /\ UNCHANGED <<inflight, lost_frames, written, unreported>>
      BY <1>7 DEF ResetData
  <2>3. PICK r \in Frame : r = Rst(g) /\ r # g
      BY <2>1, RstIsApart
  <2>4. send(r)
      BY <1>7, <2>3 DEF ResetData
  <2>5. /\ g \in accepted /\ InQueue(g) = {} /\ InHand(g) = {} /\ InLost(g) = {}
        /\ InBatch(g)' = {} /\ Settled(g) = {}
      BY <2>1, <2>2, InBatchOnly
  <2>6. \/ /\ \E k \in Link : /\ HasRoom(k)
                              /\ queue' = [queue EXCEPT ![k] = Append(@, r)]
           /\ accepted' = accepted \cup {r} /\ UNCHANGED discarded
        \/ /\ discarded' = discarded \cup {r}
           /\ UNCHANGED <<queue, accepted>>
      BY <2>4, SendOutcome
  <2>7. CASE f = r
    <3>1. g \notin was_reset
        BY <2>5, SettledAs
    <3>2. r \notin accepted \cup discarded
        BY <2>1, <2>3, <3>1 DEF Conserved, Sources
    <3>3. /\ InQueue(r) = {} /\ InHand(r) = {} /\ InLost(r) = {}
          /\ InBatch(r) = {} /\ Settled(r) = {}
        BY <1>0, <3>2, Nowhere
    <3>4. InBatch(r)' = {}
        BY <2>2, <2>3, <3>3, BatchHandled
    <3>5. r \in was_reset' <=> r \in was_reset
        BY <2>2, <2>3
    <3> QED
        BY <2>2, <2>6, <2>7, <3>3, <3>4, <3>5, SentIsKept
  <2>8. CASE f = g
    <3>1. InHand(g)' = {} /\ InLost(g)' = {}
        BY <2>2, <2>5, HandSame, LostSame
    <3>2. InQueue(g)' = {}
        BY <2>3, <2>5, <2>6, QueueSame, QueueAppend
    <3>3. Settled(g)' = {<<"settled", "was_reset">>}
      <4>1. g \notin written /\ g \notin discarded /\ g \notin unreported
          BY <2>5, SettledAs
      <4>2. g \notin discarded'
          BY <2>3, <2>6, <4>1
      <4> QED
          BY <2>2, <4>1, <4>2 DEF Settled
    <3>4. Places(g)' = {<<"settled", "was_reset">>}
        BY <2>5, <3>1, <3>2, <3>3 DEF Places
    <3>5. g \in accepted'
        BY <2>5, <2>6
    <3> QED
        BY <2>8, <3>4, <3>5, Arrives DEF One
  <2>9. CASE f # r /\ f # g
    <3>1. InBatch(f)' = InBatch(f) /\ (f \in was_reset' <=> f \in was_reset)
        BY <2>2, <2>9, BatchHandled
    <3> QED
        BY <1>0, <2>2, <2>6, <2>9, <3>1, OthersStay
  <2> QED
      BY <2>7, <2>8, <2>9
<1>8. ASSUME NEW l \in Link, NEW g \in batch[l], ForgetData(l, g) PROVE Kept(f)'
  <2>1. g \in Frame /\ Kept(g)
      BY <1>0 DEF Types
  <2>2. /\ Handled(l, g) /\ discarded' = discarded \cup {g}
        /\ UNCHANGED <<queue, inflight, lost_frames, accepted, written, was_reset,
                       unreported>>
      BY <1>8 DEF ForgetData
  <2>3. CASE f = g
      BY <2>1, <2>2, <2>3, InBatchOnly, SentIsKept
  <2>4. CASE f # g
    <3>1. InBatch(f)' = InBatch(f)
        BY <2>2, <2>4, BatchHandled
    <3> QED
        BY <1>0, <2>1, <2>2, <2>4, <3>1, OthersStay
  <2> QED
      BY <2>3, <2>4
<1>9. ASSUME NEW g \in Data, try_send(g) PROVE Kept(f)'
  <2>1. CASE UNCHANGED <<queue, accepted>>
      BY <1>1, <1>9, <2>1 DEF try_send
  <2>2. CASE ~UNCHANGED <<queue, accepted>>
    <3>1. /\ picked[g] \in Link /\ HasRoom(picked[g])
          /\ queue' = [queue EXCEPT ![picked[g]] = Append(@, g)]
          /\ accepted' = accepted \cup {g}
          /\ UNCHANGED <<inflight, lost_frames, batch, written, was_reset, discarded,
                         unreported>>
        BY <1>9, <2>2 DEF try_send, Types
    <3>2. g \in Frame /\ g \notin accepted \cup discarded
        BY <1>9 DEF try_send, Conserved, Sources, Frame
    <3>3. /\ InQueue(g) = {} /\ InHand(g) = {} /\ InLost(g) = {}
          /\ InBatch(g) = {} /\ Settled(g) = {}
        BY <1>0, <3>2, Nowhere
    <3>4. InBatch(f)' = InBatch(f)
        BY <3>1, BatchSame
    <3>5. CASE f = g
        BY <3>1, <3>2, <3>3, <3>4, <3>5, SentIsKept
    <3>6. CASE f # g
        BY <1>0, <3>1, <3>2, <3>4, <3>6, OthersStay
    <3> QED
        BY <3>5, <3>6
  <2> QED
      BY <2>1, <2>2
<1>10. ASSUME NEW g \in Ctl, SendControl(g) PROVE Kept(f)'
  <2>1. /\ g \in Frame /\ g \notin accepted \cup discarded /\ send(g)
        /\ UNCHANGED <<inflight, lost_frames, batch, written, was_reset, unreported>>
      BY <1>10 DEF SendControl, Frame
  <2>2. /\ InQueue(g) = {} /\ InHand(g) = {} /\ InLost(g) = {}
        /\ InBatch(g) = {} /\ Settled(g) = {}
      BY <1>0, <2>1, Nowhere
  <2>3. InBatch(f)' = InBatch(f)
      BY <2>1, BatchSame
  <2>4. CASE f = g
      BY <2>1, <2>2, <2>3, <2>4, SendOutcome, SentIsKept
  <2>5. CASE f # g
      BY <1>0, <2>1, <2>3, <2>5, SendOutcome, OthersStay
  <2> QED
      BY <2>4, <2>5
<1>11. ASSUME NEW g \in Data,
              \/ CreateNotified(g) \/ weighted_pick(g) \/ NoCandidate(g)
              \/ Resume(g) \/ SendTimeout(g) \/ ConnEnds(g)
       PROVE  Kept(f)'
    BY <1>1, <1>11 DEF CreateNotified, weighted_pick, NoCandidate, Resume, SendTimeout,
                       ConnEnds
<1>12. CASE compact \/ UNCHANGED vars
    BY <1>1, <1>12 DEF compact, vars
<1> QED
    BY <1>2, <1>3, <1>4, <1>5, <1>6, <1>7, <1>8, <1>9, <1>10, <1>11, <1>12
    DEF Next, OwnerStep, SenderStep

\* Where frames come from: a sender that has not sent, a connection that was not
\* reset.
LEMMA NextSources ==
    ASSUME Types, Conserved, [Next]_vars
    PROVE  Sources'
<1> USE DEF owners, linkVars, taskVars, sendVars, history
<1>0. /\ \A g \in Frame : Kept(g)
      /\ accepted \subseteq Frame
      /\ \A f \in Data : spc[f] # "sent" => f \notin accepted \cup discarded
      /\ \A f \in Data : f \notin was_reset => Rst(f) \notin accepted \cup discarded
    BY DEF Conserved, Sources
<1>1. CASE /\ \A f \in Data : spc[f] = "sent" => spc'[f] = "sent"
           /\ UNCHANGED <<accepted, was_reset, discarded>>
    BY <1>0, <1>1 DEF Sources
<1>2. ASSUME NEW g, UNCHANGED spc, was_reset \subseteq was_reset',
             accepted' \subseteq accepted \cup {g},
             discarded' \subseteq discarded \cup {g},
             g \in accepted \/ g \in Ctl \/ \E h \in was_reset' \cap Data : g = Rst(h)
      PROVE  Sources'
  <2>1. CASE g \in accepted
      BY <1>0, <1>2, <2>1 DEF Sources
  <2>2. CASE g \in Ctl
    <3>1. g \notin Data /\ \A f \in Data : g # Rst(f)
        BY <2>2, RstIsApart, FrameAssumption
    <3> QED
        BY <1>0, <1>2, <2>2, <3>1 DEF Sources, Frame
  <2>3. CASE \E h \in was_reset' \cap Data : g = Rst(h)
    <3>1. PICK h \in was_reset' \cap Data : g = Rst(h)
        BY <2>3
    <3>2. g \notin Data /\ \A f \in Data : g = Rst(f) => f = h
        BY <3>1, RstIsApart DEF Rst
    <3> QED
        BY <1>0, <1>2, <3>1, <3>2, RstIsApart DEF Sources
  <2> QED
      BY <1>2, <2>1, <2>2, <2>3
<1>3. ASSUME NEW t \in Tunnel, Accept(t) \/ Open(t) PROVE Sources'
    BY <1>1, <1>3 DEF Accept, Open
<1>4. ASSUME NEW l \in Link, DrainStep(l) PROVE Sources'
  <2>1. UNCHANGED <<spc, accepted, was_reset, discarded>>
      BY <1>4 DEF DrainStep, DrainStopped, DrainRecv, DrainWriteStopped, DrainWritten,
                  DrainWriteFailed, DrainReport, DrainNotify, DrainReturn
  <2> QED
      BY <1>1, <2>1
<1>5. ASSUME NEW l \in Link, TakeLost(l) \/ ReadLoopEnds(l) \/ OwnerDone(l)
                             \/ sweep_idle(l) \/ NetFails(l)
      PROVE  Sources'
    BY <1>1, <1>5 DEF TakeLost, ReadLoopEnds, OwnerDone, sweep_idle, NetFails
<1>6. ASSUME NEW l \in Link, NEW g \in batch[l],
             ResendControl(l, g) \/ ResetData(l, g) \/ ForgetData(l, g)
      PROVE  Sources'
  <2>1. g \in Frame /\ Kept(g) /\ Handled(l, g) /\ UNCHANGED spc
      BY <1>0, <1>6 DEF Types, ResendControl, ResetData, ForgetData
  <2>2. g \in accepted
      BY <2>1, InBatchOnly
  <2>3. CASE ResendControl(l, g)
    <3>1. send(g) /\ UNCHANGED was_reset
        BY <2>3 DEF ResendControl
    <3>2. accepted' \subseteq accepted \cup {g} /\ discarded' \subseteq discarded \cup {g}
        BY <3>1, SendOutcome
    <3> QED
        BY <1>2, <2>1, <2>2, <3>1, <3>2
  <2>4. CASE ResetData(l, g)
    <3>1. send(Rst(g)) /\ was_reset' = was_reset \cup {g} /\ g \in Data
        BY <2>4 DEF ResetData, IsControl
    <3>2. PICK r : r = Rst(g)
        OBVIOUS
    <3>3. accepted' \subseteq accepted \cup {r} /\ discarded' \subseteq discarded \cup {r}
        BY <3>1, <3>2, SendOutcome
    <3> QED
        BY <1>2, <2>1, <3>1, <3>2, <3>3
  <2>5. CASE ForgetData(l, g)
      BY <1>2, <2>1, <2>2, <2>5 DEF ForgetData
  <2> QED
      BY <1>6, <2>3, <2>4, <2>5
<1>7. ASSUME NEW g \in Data, try_send(g) PROVE Sources'
  <2>1. \/ spc' = [spc EXCEPT ![g] = "sent"] /\ accepted' = accepted \cup {g}
        \/ spc' = [spc EXCEPT ![g] = "loop"] /\ UNCHANGED accepted
      BY <1>7 DEF try_send, SenderTo
  <2>2. spc[g] = "try" /\ UNCHANGED <<was_reset, discarded>>
      BY <1>7 DEF try_send
  <2>3. \A f \in Data : g # Rst(f)
      BY RstIsApart
  <2>4. CASE spc' = [spc EXCEPT ![g] = "sent"] /\ accepted' = accepted \cup {g}
      BY <1>0, <2>2, <2>3, <2>4 DEF Types, Sources, Frame
  <2>5. CASE spc' = [spc EXCEPT ![g] = "loop"] /\ UNCHANGED accepted
      BY <1>1, <2>2, <2>5 DEF Types
  <2> QED
      BY <2>1, <2>4, <2>5
<1>8. ASSUME NEW g \in Ctl, SendControl(g) PROVE Sources'
  <2>1. send(g) /\ UNCHANGED <<spc, was_reset>>
      BY <1>8 DEF SendControl
  <2>2. accepted' \subseteq accepted \cup {g} /\ discarded' \subseteq discarded \cup {g}
      BY <2>1, SendOutcome
  <2> QED
      BY <1>2, <2>1, <2>2
<1>9. ASSUME NEW g \in Data,
             \/ CreateNotified(g) \/ weighted_pick(g) \/ NoCandidate(g)
             \/ Resume(g) \/ SendTimeout(g)
      PROVE  Sources'
  <2>1. /\ spc[g] # "sent" /\ UNCHANGED <<accepted, was_reset, discarded>>
        /\ \E s : spc' = [spc EXCEPT ![g] = s]
      BY <1>9 DEF CreateNotified, weighted_pick, NoCandidate, Resume, SendTimeout, SenderTo
  <2> QED
      BY <1>1, <2>1 DEF Types
<1>10. ASSUME NEW g \in Data, ConnEnds(g) PROVE Sources'
    BY <1>1, <1>10 DEF ConnEnds
<1>11. CASE compact \/ UNCHANGED vars
    BY <1>1, <1>11 DEF compact, vars
<1> QED
    BY <1>3, <1>4, <1>5, <1>6, <1>7, <1>8, <1>9, <1>10, <1>11
    DEF Next, OwnerStep, SenderStep
\* A batch holds frames only while its recovery runs.
LEMMA NextBatches ==
    ASSUME Types, LostInv, Conserved, [Next]_vars
    PROVE  Batches'
<1> USE DEF owners, linkVars, taskVars, sendVars, history
<1>0. /\ \A l \in Link : batch[l] # {} =>
            IF Role = "splitter" THEN rpc[l] = "recover" ELSE dpc[l] = "done"
      /\ \A l \in Link : rpc[l] \in {"await", "recover"} => Role = "splitter"
    BY DEF Conserved, Batches, Recovering
<1>1. CASE \A l \in Link : batch'[l] \subseteq batch[l] /\ UNCHANGED <<dpc, rpc>>
    BY <1>0, <1>1 DEF Batches, Recovering
<1>2. CASE UNCHANGED <<batch, dpc, rpc>>
    BY <1>1, <1>2
<1>3. ASSUME NEW t \in Tunnel, Open(t) PROVE Batches'
  <2>1. PICK l : l = <<t, session[t] + 1>>
      OBVIOUS
  <2>2. /\ dpc' = [dpc EXCEPT ![l] = "recv"] /\ rpc' = [rpc EXCEPT ![l] = "read"]
        /\ UNCHANGED batch
      BY <1>3, <2>1 DEF Open
  <2>3. ASSUME l \in Link PROVE batch[l] = {}
    <3>1. session[t] \in Nat /\ l[1] = t /\ l[2] = session[t] + 1
        BY <2>1, BoundAssumption DEF Types
    <3>2. dpc[l] = "none"
        BY <2>3, <3>1 DEF Types
    <3> QED
        BY <1>0, <2>3, <3>2 DEF LostInv
  <2> QED
      BY <1>0, <2>2, <2>3 DEF Batches, Recovering, Types
<1>4. ASSUME NEW l \in Link, DrainStep(l) PROVE Batches'
  <2>1. CASE DrainReturn(l)
    <3>1. /\ dpc' = [dpc EXCEPT ![l] = "done"] /\ UNCHANGED rpc
          /\ UNCHANGED batch \/ (Role = "reassembler" /\ \E b : batch' = [batch EXCEPT ![l] = b])
        BY <2>1 DEF DrainReturn, DrainTo
    <3> QED
        BY <1>0, <3>1 DEF Batches, Recovering, Types
  <2>2. CASE ~DrainReturn(l)
    <3>1. UNCHANGED <<batch, rpc>> /\ dpc[l] # "done"
        BY <1>4, <2>2 DEF DrainStep, DrainStopped, DrainRecv, DrainWriteStopped,
              DrainWritten, DrainWriteFailed, DrainReport, DrainNotify
    <3>2. UNCHANGED dpc \/ \E s : dpc' = [dpc EXCEPT ![l] = s]
        BY <1>4, <2>2 DEF DrainStep, DrainStopped, DrainRecv, DrainWriteStopped,
              DrainWritten, DrainWriteFailed, DrainReport, DrainNotify, DrainTo
    <3> QED
        BY <1>0, <3>1, <3>2 DEF Batches, Recovering, Types
  <2> QED
      BY <2>1, <2>2
<1>5. ASSUME NEW l \in Link, TakeLost(l) PROVE Batches'
  <2>1. /\ rpc[l] = "await" /\ rpc' = [rpc EXCEPT ![l] = "recover"] /\ UNCHANGED dpc
        /\ \E b : batch' = [batch EXCEPT ![l] = b]
      BY <1>5 DEF TakeLost
  <2> QED
      BY <1>0, <2>1 DEF Batches, Recovering, Types
<1>6. ASSUME NEW l \in Link, ReadLoopEnds(l) PROVE Batches'
  <2>1. /\ rpc[l] = "read" /\ UNCHANGED <<batch, dpc>>
        /\ rpc' = [rpc EXCEPT ![l] = IF Role = "splitter" THEN "await" ELSE "done"]
      BY <1>6 DEF ReadLoopEnds
  <2> QED
      BY <1>0, <2>1 DEF Batches, Recovering, Types
<1>7. ASSUME NEW l \in Link, OwnerDone(l) PROVE Batches'
    BY <1>0, <1>7 DEF OwnerDone, Batches, Recovering, Types
<1>8. ASSUME NEW l \in Link, NEW g \in batch[l],
             ResendControl(l, g) \/ ResetData(l, g) \/ ForgetData(l, g)
      PROVE  Batches'
  <2>1. UNCHANGED <<dpc, rpc>> /\ batch' = [batch EXCEPT ![l] = @ \ {g}]
      BY <1>8 DEF ResendControl, ResetData, ForgetData, Handled
  <2> QED
      BY <1>1, <2>1 DEF Types
<1>9. ASSUME NEW l \in Link, sweep_idle(l) \/ NetFails(l) PROVE Batches'
    BY <1>2, <1>9 DEF sweep_idle, NetFails
<1>10. ASSUME NEW t \in Tunnel, Accept(t) PROVE Batches'
    BY <1>2, <1>10 DEF Accept
<1>11. ASSUME NEW f \in Data, SenderStep(f) \/ SendTimeout(f) \/ ConnEnds(f) PROVE Batches'
  <2>1. UNCHANGED <<batch, dpc, rpc>>
      BY <1>11 DEF SenderStep, CreateNotified, weighted_pick, try_send, NoCandidate,
                   Resume, SendTimeout, ConnEnds
  <2> QED
      BY <1>2, <2>1
<1>12. ASSUME NEW f \in Ctl, SendControl(f) PROVE Batches'
    BY <1>2, <1>12 DEF SendControl
<1>13. CASE compact \/ UNCHANGED vars
    BY <1>2, <1>13 DEF compact, vars
<1> QED
    BY <1>3, <1>4, <1>5, <1>6, <1>7, <1>8, <1>9, <1>10, <1>11, <1>12, <1>13
    DEF Next, OwnerStep
\* D1/B24: whatever the order of the link's death, its teardown, the recovery and
\* the senders, a frame that a channel has accepted is in exactly one place.
THEOREM FramesAreConserved == Spec => []FrameConserved
<1>1. Init => Conserved
  <2> SUFFICES ASSUME Init PROVE Conserved
      OBVIOUS
  <2>1. \A f \in Frame : Kept(f)
    <3> SUFFICES ASSUME NEW f \in Frame PROVE Kept(f)
        OBVIOUS
    <3>1. InQueue(f) = {}
      <4>1. \A l \in Link : Len(queue[l]) = 0
          BY DEF Init
      <4>2. \A l \in Link, i \in 1..Cap : ~(i <= Len(queue[l]))
          BY <4>1, BoundAssumption
      <4> QED
          BY <4>2, QueueSlots
    <3>2. InHand(f) = {}
        BY NoneIsNoFrame DEF Init, InHand
    <3>3. InLost(f) = {} /\ InBatch(f) = {} /\ Settled(f) = {}
        BY DEF Init, InLost, InBatch, Settled
    <3>4. Places(f) = {}
        BY <3>1, <3>2, <3>3 DEF Places
    <3> QED
        BY <3>4 DEF Kept, Init
  <2> QED
      BY <2>1 DEF Init, Conserved, Sources, Batches
<1>2. Types /\ LostInv /\ Conserved /\ [Next]_vars => Conserved'
  <2> SUFFICES ASSUME Types, LostInv, Conserved, [Next]_vars PROVE Conserved'
      OBVIOUS
  <2>1. \A f \in Frame : Kept(f)'
      BY NextKept
  <2> QED
      BY <2>1, NextSources, NextBatches DEF Conserved
<1>3. Conserved => FrameConserved
  <2> SUFFICES ASSUME Conserved, NEW f \in accepted PROVE One(Places(f))
      BY DEF FrameConserved
  <2> QED
      BY DEF Conserved, Sources, Kept
<1>4. Init => LostInv
    BY DEF Init, LostInv
<1> QED
    BY <1>1, <1>2, <1>3, <1>4, TypesHold, NextLost, PTL DEF Spec

==============================================================================
