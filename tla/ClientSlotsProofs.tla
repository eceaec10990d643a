--------------------------- MODULE ClientSlotsProofs ---------------------------
(***************************************************************************)
(* Proofs about the ids and slots of the splitter's clients, for every set *)
(* of clients and of ids and every connection limit.                       *)
(***************************************************************************)
EXTENDS ClientSlots, FiniteSetTheorems, TLAPS

------------------------------------------------------------------------------
(* The shape of the state *)

Label == {"backlog", "spawned", "shake", "alloc", "drawn", "insert", "syn", "live",
          "remove", "notify", "done"}
Idle == {"backlog", "spawned", "shake", "alloc", "notify", "done"}

THandler ==
    /\ pc \in [Clients -> Label]
    /\ id \in [Clients -> Ids \cup {Nobody}]
    /\ \A c \in Clients : pc[c] \notin Idle => id[c] \in Ids
TMap ==
    /\ conns \in [Ids -> Clients \cup {Nobody}]
    /\ time_wait \in SUBSET Ids /\ stale \in SUBSET Ids
    /\ resetting \in Ids \cup {Nobody}
    /\ closed \in [Clients -> BOOLEAN]
THistory == collided \in BOOLEAN /\ overstayed \in BOOLEAN /\ exhausted \in BOOLEAN

Types == THandler /\ TMap /\ THistory

\* What the invariants of this module speak of.
mapVars == <<conns, time_wait, closed, resetting>>
tableVars == <<handler, mapVars, stale, collided, overstayed, exhausted>>

LEMMA Goes ==
    ASSUME THandler, NEW c \in Clients, NEW l \in Label, HandlerTo(c, l)
    PROVE  /\ pc' \in [Clients -> Label]
           /\ pc'[c] = l
           /\ \A d \in Clients \ {c} : pc'[d] = pc[d]
BY DEF HandlerTo, THandler

LEMMA Enters ==
    ASSUME TMap, NEW i \in Ids, NEW c \in Clients \cup {Nobody},
           conns' = [conns EXCEPT ![i] = c]
    PROVE  /\ conns' \in [Ids -> Clients \cup {Nobody}]
           /\ conns'[i] = c
           /\ \A j \in Ids \ {i} : conns'[j] = conns[j]
BY DEF TMap

\* The steps of a handler that is not at work on an id.
IdleStep(c) ==
    \/ Accept(c) \/ HandshakeStart(c) \/ HandshakeFails(c) \/ HandshakeDone(c)
    \/ AllocFails(c)

LEMMA IdleFacts ==
    ASSUME THandler, NEW c \in Clients, IdleStep(c)
    PROVE  /\ pc' \in [Clients -> Label]
           /\ pc[c] \in Idle \ {"notify", "done"} /\ pc'[c] \in Idle
           /\ \A d \in Clients \ {c} : pc'[d] = pc[d]
           /\ UNCHANGED <<id, mapVars, stale, collided, overstayed>>
<1>1. PICK l \in {"spawned", "shake", "notify", "alloc", "done"} : HandlerTo(c, l)
    BY DEF IdleStep, Accept, HandshakeStart, HandshakeFails, HandshakeDone, AllocFails
<1>2. /\ pc' \in [Clients -> Label]
      /\ pc'[c] = l
      /\ \A d \in Clients \ {c} : pc'[d] = pc[d]
    BY <1>1, Goes DEF Label
<1>3. pc[c] \in Idle \ {"notify", "done"}
    BY DEF IdleStep, Accept, HandshakeStart, HandshakeFails, HandshakeDone, AllocFails, Idle
<1>4. UNCHANGED <<id, mapVars, stale, collided, overstayed>>
    BY DEF IdleStep, Accept, HandshakeStart, HandshakeFails, HandshakeDone, AllocFails, mapVars,
       history
<1> QED
    BY <1>1, <1>2, <1>3, <1>4 DEF Idle

\* The steps that leave handlers, ids and the map alone.
LoopStep == AcceptStep \/ ShutdownSignal \/ HeartbeatNotify

LEMMA LoopFacts == ASSUME LoopStep \/ UNCHANGED vars PROVE UNCHANGED tableVars
BY DEF LoopStep, AcceptStep, ShutdownSignal, HeartbeatNotify, AcceptTop, AcceptCount,
       AcceptWaits, AcceptWoken, vars, tableVars, mapVars, handler, history

\* One step of the system, by what it does to an id.
LEMMA StepCases ==
    ASSUME [Next]_vars
    PROVE  \/ LoopStep \/ UNCHANGED vars
           \/ ResetRemove
           \/ \E c \in Clients :
                 \/ IdleStep(c) \/ Alloc(c) \/ Insert(c) \/ SynSent(c) \/ SynFails(c)
                 \/ Tombstone(c) \/ RemoveOwn(c) \/ NotifyOne(c) \/ Sweep(c)
           \/ \E i \in Ids : ResetTombstone(i) \/ TimeWaitExpires(i)
BY DEF Next, HandlerStep, IdleStep, LoopStep

LEMMA TypesHold == Spec => []Types
<1>1. Init => Types
    BY DEF Init, Types, THandler, TMap, THistory, Label, Idle
<1>2. ASSUME Types, [Next]_vars PROVE Types'
  <2> USE <1>2
  <2>0. THandler /\ TMap /\ THistory
      BY DEF Types
  <2>1. CASE LoopStep \/ UNCHANGED vars
      BY <2>1, LoopFacts DEF tableVars, mapVars, handler, Types, THandler, TMap, THistory
  <2>2. ASSUME NEW c \in Clients, IdleStep(c) PROVE Types'
    <3>1. THandler' /\ TMap'
        BY <2>0, <2>2, IdleFacts DEF THandler, TMap, mapVars
    <3>2. THistory'
        BY <2>0, <2>2
        DEF IdleStep, Accept, HandshakeStart, HandshakeFails, HandshakeDone, AllocFails,
            history, THistory
    <3> QED
        BY <3>1, <3>2 DEF Types
  <2>3. ASSUME NEW c \in Clients, Alloc(c) PROVE Types'
    <3>1. TMap'
        BY <2>0, <2>3 DEF Alloc, TMap, history
    <3>2. THistory'
        BY <2>0, <2>3 DEF Alloc, Draw, THistory, history
    <3>3. CASE pc[c] = "alloc"
      <4>1. PICK i \in Ids : id' = [id EXCEPT ![c] = i] /\ HandlerTo(c, "drawn")
          BY <2>3, <3>3 DEF Alloc, Draw
      <4> QED
          BY <2>0, <3>1, <3>2, <4>1, Goes DEF Types, THandler, Label, Idle
    <3>4. CASE pc[c] = "drawn"
      <4>1. PICK l \in {"alloc", "insert"} : HandlerTo(c, l)
          BY <2>3, <3>4 DEF Alloc
      <4>2. id' = id
          BY <2>3, <3>4 DEF Alloc
      <4> QED
          BY <2>0, <3>1, <3>2, <3>4, <4>1, <4>2, Goes DEF Types, THandler, Label, Idle
    <3> QED
        BY <2>3, <3>3, <3>4 DEF Alloc
  <2>4. ASSUME NEW c \in Clients, Insert(c) PROVE Types'
    <3>1. id[c] \in Ids
        BY <2>0, <2>4 DEF Insert, THandler, Idle
    <3>2. TMap'
        BY <2>0, <2>4, <3>1, Enters DEF Insert, TMap, history
    <3> QED
        BY <2>0, <2>4, <3>1, <3>2, Goes DEF Insert, Types, THandler, THistory, Label, Idle, history
  <2>5. ASSUME NEW c \in Clients, SynSent(c) PROVE Types'
    <3>1. id[c] \in Ids
        BY <2>0, <2>5 DEF SynSent, THandler, Idle
    <3> QED
        BY <2>0, <2>5, <3>1, Goes
        DEF SynSent, Types, THandler, TMap, THistory, Label, Idle, history
  <2>6. ASSUME NEW c \in Clients, SynFails(c) \/ RemoveOwn(c) PROVE Types'
    <3>1. id[c] \in Ids /\ HandlerTo(c, "notify") /\ UNCHANGED id
        BY <2>0, <2>6 DEF SynFails, RemoveOwn, THandler, Idle
    <3>2. conns' = Without(id[c]) \/ conns' = conns
        BY <2>6 DEF SynFails, RemoveOwn
    <3>3. conns' \in [Ids -> Clients \cup {Nobody}]
        BY <2>0, <3>1, <3>2, Enters DEF Without, TMap
    <3>4. TMap'
        BY <2>0, <2>6, <3>1, <3>3 DEF SynFails, RemoveOwn, TMap, history
    <3>5. THistory'
        BY <2>0, <2>6 DEF SynFails, RemoveOwn, THistory, history
    <3> QED
        BY <2>0, <3>1, <3>4, <3>5, Goes DEF Types, THandler, Label, Idle
  <2>7. ASSUME NEW c \in Clients, Tombstone(c) PROVE Types'
    <3>1. id[c] \in Ids
        BY <2>0, <2>7 DEF Tombstone, THandler, Idle
    <3>2. TMap'
        BY <2>0, <2>7, <3>1 DEF Tombstone, TMap
    <3> QED
        BY <2>0, <2>7, <3>1, <3>2, Goes DEF Tombstone, Types, THandler, THistory, Label, Idle
  <2>8. ASSUME NEW c \in Clients, NotifyOne(c) PROVE Types'
    <3>1. TMap'
        BY <2>0, <2>8 DEF NotifyOne, Return, TMap, history
    <3>2. THandler'
        BY <2>0, <2>8, Goes DEF NotifyOne, Return, THandler, Label, Idle
    <3> QED
        BY <2>0, <2>8, <3>1, <3>2 DEF NotifyOne, Return, Types, THistory, history
  <2>9. ASSUME NEW i \in Ids, Drop(i), UNCHANGED handler, UNCHANGED <<collided, overstayed, exhausted>>,
               time_wait' \in SUBSET Ids, resetting' \in Ids \cup {Nobody}
        PROVE  Types'
    <3>1. conns' \in [Ids -> Clients \cup {Nobody}]
        BY <2>0, <2>9, Enters DEF Drop, Without
    <3>2. closed' \in [Clients -> BOOLEAN]
        BY <2>0, <2>9 DEF Drop, TMap
    <3>3. stale' \in SUBSET Ids
        BY <2>0, <2>9 DEF Drop, TMap
    <3> QED
        BY <2>0, <2>9, <3>1, <3>2, <3>3 DEF Types, TMap, THandler, THistory, handler
  <2>10. CASE ResetRemove
      BY <2>0, <2>9, <2>10 DEF ResetRemove, TMap
  <2>11. ASSUME NEW c \in Clients, Sweep(c) PROVE Types'
    <3>1. id[c] \in Ids
        BY <2>0, <2>11 DEF Sweep, THandler, Idle
    <3> QED
        BY <2>0, <2>9, <2>11, <3>1 DEF Sweep, TMap
  <2>12. ASSUME NEW i \in Ids, ResetTombstone(i) PROVE Types'
      BY <2>0, <2>12 DEF ResetTombstone, Types, TMap, THandler, THistory, handler, history
  <2>13. ASSUME NEW i \in Ids, TimeWaitExpires(i) PROVE Types'
    <3>1. TMap' /\ THandler'
        BY <2>0, <2>13 DEF TimeWaitExpires, TMap, THandler, handler
    <3>2. THistory'
        BY <2>0, <2>13 DEF TimeWaitExpires, THistory
    <3> QED
        BY <3>1, <3>2 DEF Types
  <2> QED
      BY <2>1, <2>2, <2>3, <2>4, <2>5, <2>6, <2>7, <2>8, <2>10, <2>11, <2>12, <2>13, StepCases
<1> QED
    BY <1>1, <1>2, PTL DEF Spec

------------------------------------------------------------------------------
(* What each step does to an id *)

\* A handler on its way, with the rest of the handlers where they were.
Moved(c, from, to) ==
    /\ pc[c] = from /\ pc'[c] = to
    /\ \A d \in Clients \ {c} : pc'[d] = pc[d]

\* The entry under i is set to x.
Put(i, x) == conns'[i] = x /\ \A j \in Ids \ {i} : conns'[j] = conns[j]

LEMMA DrawFacts ==
    ASSUME Types, NEW c \in Clients, Alloc(c), pc[c] = "alloc"
    PROVE  /\ Moved(c, "alloc", "drawn")
           /\ UNCHANGED <<mapVars, stale, overstayed>>
           /\ \E i \in Ids : /\ conns[i] = Nobody /\ id'[c] = i
                             /\ \A d \in Clients \ {c} : id'[d] = id[d]
                             /\ (~collided' => \A d \in Clients \ {c} : ~Holds(d, i))
           /\ (~collided' => ~collided)
<1>1. PICK i \in Ids \ Entered : Draw(c, i)
    BY DEF Alloc
<1>2. Moved(c, "alloc", "drawn")
    BY <1>1, Goes DEF Types, Draw, Label, Moved
<1>3. UNCHANGED <<mapVars, stale, overstayed>>
    BY DEF Alloc, mapVars, history
<1>4. id'[c] = i /\ \A d \in Clients \ {c} : id'[d] = id[d]
    BY <1>1 DEF Draw, Types, THandler
<1>5. (~collided' => ~collided) /\ (~collided' => \A d \in Clients \ {c} : ~Holds(d, i))
    BY <1>1 DEF Draw
<1> QED
    BY <1>1, <1>2, <1>3, <1>4, <1>5 DEF Entered

LEMMA CheckFacts ==
    ASSUME Types, NEW c \in Clients, Alloc(c), pc[c] = "drawn"
    PROVE  /\ \/ Moved(c, "drawn", "alloc")
              \/ Moved(c, "drawn", "insert") /\ id[c] \notin time_wait
           /\ UNCHANGED <<id, mapVars, stale, collided, overstayed>>
<1>1. UNCHANGED <<id, mapVars, stale, collided, overstayed>>
    BY DEF Alloc, mapVars, history
<1>2. PICK l \in {"alloc", "insert"} :
           HandlerTo(c, l) /\ (l = "insert" => id[c] \notin time_wait)
    BY DEF Alloc
<1> QED
    BY <1>1, <1>2, Goes DEF Types, Label, Moved

LEMMA InsertFacts ==
    ASSUME Types, NEW c \in Clients, Insert(c)
    PROVE  /\ Moved(c, "insert", "syn") /\ id[c] \in Ids /\ Put(id[c], c)
           /\ UNCHANGED <<id, time_wait, closed, resetting, stale, collided, overstayed>>
<1>1. id[c] \in Ids
    BY DEF Insert, Types, THandler, Idle
<1> QED
    BY <1>1, Goes, Enters DEF Insert, Types, Label, Moved, Put, history

LEMMA SynSentFacts ==
    ASSUME Types, NEW c \in Clients, SynSent(c)
    PROVE  /\ Moved(c, "syn", "live")
           /\ UNCHANGED <<id, mapVars, stale, collided, overstayed>>
BY Goes DEF SynSent, Types, Label, Moved, mapVars, history

LEMMA SynFailsFacts ==
    ASSUME Types, NEW c \in Clients, SynFails(c)
    PROVE  /\ Moved(c, "syn", "notify") /\ id[c] \in Ids
           /\ \/ Put(id[c], Nobody)
              \/ conns[id[c]] # c /\ UNCHANGED conns
           /\ UNCHANGED <<id, time_wait, closed, resetting, stale, collided, overstayed>>
<1>1. id[c] \in Ids
    BY DEF SynFails, Types, THandler, Idle
<1> QED
    BY <1>1, Goes, Enters DEF SynFails, Without, Types, Label, Moved, Put, history

LEMMA TombstoneFacts ==
    ASSUME Types, NEW c \in Clients, Tombstone(c)
    PROVE  /\ Moved(c, "live", "remove") /\ id[c] \in Ids
           /\ time_wait' = time_wait \cup {id[c]}
           /\ stale' = IF closed[c] THEN stale \cup {id[c]} ELSE stale
           /\ UNCHANGED <<id, conns, closed, resetting, collided, overstayed>>
BY Goes DEF Tombstone, Types, THandler, Idle, Label, Moved

LEMMA RemoveFacts ==
    ASSUME Types, NEW c \in Clients, RemoveOwn(c)
    PROVE  /\ Moved(c, "remove", "notify") /\ id[c] \in Ids
           /\ \/ conns[id[c]] = c /\ Put(id[c], Nobody) /\ stale' = stale \cup {id[c]}
              \/ conns[id[c]] # c /\ UNCHANGED <<conns, stale>>
           /\ UNCHANGED <<id, time_wait, closed, resetting, collided, overstayed>>
<1>1. id[c] \in Ids
    BY DEF RemoveOwn, Types, THandler, Idle
<1> QED
    BY <1>1, Goes, Enters DEF RemoveOwn, Without, Types, Label, Moved, Put

LEMMA NotifyFacts ==
    ASSUME Types, NEW c \in Clients, NotifyOne(c)
    PROVE  /\ Moved(c, "notify", "done")
           /\ id'[c] = Nobody /\ \A d \in Clients \ {c} : id'[d] = id[d]
           /\ ~closed'[c] /\ \A d \in Clients \ {c} : closed'[d] = closed[d]
           /\ UNCHANGED <<conns, time_wait, resetting, stale, collided, overstayed>>
BY Goes DEF NotifyOne, Return, Types, THandler, TMap, Label, Moved, history

\* reset_conn and the sweep: the entry under i is dropped, with i in TIME_WAIT.
Dropped(i) ==
    /\ Put(i, Nobody)
    /\ \A c \in Clients : closed'[c] <=> (closed[c] \/ conns[i] = c)
    /\ stale' = IF conns[i] = Nobody THEN stale ELSE stale \cup {i}
    /\ time_wait' = time_wait \cup {i}
    /\ UNCHANGED <<handler, collided, overstayed>>
    /\ resetting' \in {resetting, Nobody}

LEMMA DropFacts ==
    ASSUME Types, NEW i \in Ids, Drop(i)
    PROVE  /\ Put(i, Nobody)
           /\ \A c \in Clients : closed'[c] <=> (closed[c] \/ conns[i] = c)
           /\ stale' = IF conns[i] = Nobody THEN stale ELSE stale \cup {i}
<1>1. Put(i, Nobody)
    BY Enters DEF Drop, Without, Types, Put
<1>2. \A c \in Clients : closed'[c] <=> (closed[c] \/ conns[i] = c)
    BY DEF Drop
<1> QED
    BY <1>1, <1>2 DEF Drop

LEMMA SweepFacts ==
    ASSUME Types, NEW c \in Clients, Sweep(c)
    PROVE  id[c] \in Ids /\ Dropped(id[c])
<1>1. id[c] \in Ids
    BY DEF Sweep, Types, THandler, Idle
<1> QED
    BY <1>1, DropFacts DEF Sweep, Dropped

LEMMA ExpiryFacts ==
    ASSUME Types, NEW i \in Ids, TimeWaitExpires(i)
    PROVE  /\ resetting # i /\ time_wait' = time_wait \ {i} /\ stale' = stale \ {i}
           /\ \A c \in Clients : pc[c] \in {"insert", "syn", "remove"} => id[c] # i
           /\ ~overstayed' => (/\ ~overstayed
                               /\ \A c \in Clients : (pc[c] = "live" /\ closed[c]) => id[c] # i)
           /\ UNCHANGED <<handler, conns, closed, resetting, collided>>
<1>1. ~overstayed' => (/\ ~overstayed
                       /\ \A c \in Clients : (pc[c] = "live" /\ closed[c]) => id[c] # i)
    BY DEF TimeWaitExpires
<1> QED
    BY <1>1 DEF TimeWaitExpires

------------------------------------------------------------------------------
(* The map, TIME_WAIT and the handlers *)

\* An entry belongs to a handler between its insert and its removal, whose id it
\* has; whatever is being removed, and whatever has frames in flight, is in
\* TIME_WAIT; and only a handler that had an entry has lost it.
Table ==
    /\ \A i \in Ids, c \in Clients :
          conns[i] = c => (id[c] = i /\ pc[c] \in {"syn", "live", "remove"})
    /\ resetting # Nobody => resetting \in time_wait
    /\ \A c \in Clients : pc[c] = "remove" => id[c] \in time_wait
    /\ stale \subseteq time_wait
    /\ \A c \in Clients : closed[c] => pc[c] \in {"syn", "live", "remove", "notify"}

\* reset_conn set the tombstone before it removes the entry.
LEMMA ResetFacts ==
    ASSUME Types, Table, ResetRemove
    PROVE  resetting \in Ids /\ Dropped(resetting)
<1>1. resetting \in Ids /\ Drop(resetting) /\ resetting \in time_wait
    BY DEF ResetRemove, Types, TMap, Table
<1> QED
    BY <1>1, DropFacts DEF ResetRemove, Dropped

LEMMA TableHolds == Spec => []Table
<1>1. Init => Table
    BY ClientsAssumption DEF Init, Table
<1>2. ASSUME Types, Types', Table, [Next]_vars PROVE Table'
  <2> USE <1>2, ClientsAssumption, IdsAssumption
  <2>1. CASE LoopStep \/ UNCHANGED vars
      BY <2>1, LoopFacts DEF tableVars, mapVars, handler, Table
  <2>2. ASSUME NEW c \in Clients, IdleStep(c) PROVE Table'
      BY <2>2, IdleFacts DEF Table, Types, mapVars, Idle
  <2>3. ASSUME NEW c \in Clients, Alloc(c) PROVE Table'
    <3>1. CASE pc[c] = "alloc"
        BY <2>3, <3>1, DrawFacts DEF Table, Moved, mapVars
    <3>2. CASE pc[c] = "drawn"
        BY <2>3, <3>2, CheckFacts DEF Table, Moved, mapVars
    <3> QED
        BY <2>3, <3>1, <3>2 DEF Alloc
  <2>4. ASSUME NEW c \in Clients, Insert(c) PROVE Table'
      BY <2>4, InsertFacts DEF Table, Moved, Put
  <2>5. ASSUME NEW c \in Clients, SynSent(c) PROVE Table'
      BY <2>5, SynSentFacts DEF Table, Moved, mapVars
  <2>6. ASSUME NEW c \in Clients, SynFails(c) PROVE Table'
      BY <2>6, SynFailsFacts DEF Table, Moved, Put
  <2>7. ASSUME NEW c \in Clients, Tombstone(c) PROVE Table'
      BY <2>7, TombstoneFacts DEF Table, Moved
  <2>8. ASSUME NEW c \in Clients, RemoveOwn(c) PROVE Table'
      BY <2>8, RemoveFacts DEF Table, Moved, Put
  <2>9. ASSUME NEW c \in Clients, NotifyOne(c) PROVE Table'
      BY <2>9, NotifyFacts DEF Table, Moved
  <2>10. ASSUME NEW i \in Ids, Dropped(i) PROVE Table'
      BY <2>10 DEF Table, Dropped, Put, handler
  <2>11. ASSUME NEW i \in Ids, ResetTombstone(i) PROVE Table'
      BY <2>11 DEF ResetTombstone, Table, handler, history
  <2>12. ASSUME NEW i \in Ids, TimeWaitExpires(i) PROVE Table'
      BY <2>12, ExpiryFacts DEF Table, handler
  <2>13. CASE ResetRemove
      BY <2>10, <2>13, ResetFacts
  <2> QED
      BY <2>1, <2>2, <2>3, <2>4, <2>5, <2>6, <2>7, <2>8, <2>9, <2>10, <2>11, <2>12, <2>13,
         StepCases, SweepFacts
<1> QED
    BY <1>1, <1>2, TypesHold, PTL DEF Spec

------------------------------------------------------------------------------
(* Who may enter an id *)

\* As long as no two handlers have drawn one id at once: an id that a handler
\* has drawn is not entered and nobody else has drawn it; a handler that is
\* sending its SYN has its entry or a tombstone, and no other handler of the same
\* id gets past the look at TIME_WAIT before it is done; and a connection that
\* was neither reset nor swept is entered.
Drawn == \A c \in Clients : pc[c] \in {"drawn", "insert"} =>
    /\ conns[id[c]] = Nobody
    /\ \A d \in Clients \ {c} : pc[d] \in {"drawn", "insert"} => id[d] # id[c]
Opening == \A c \in Clients : pc[c] = "syn" =>
    /\ conns[id[c]] = c \/ id[c] \in time_wait
    /\ \A d \in Clients \ {c} : id[d] = id[c] =>
          /\ pc[d] \notin {"insert", "syn"}
          /\ pc[d] = "live" => closed[d]
Own == \A c \in Clients :
    (pc[c] \in {"syn", "live"} /\ ~closed[c]) => conns[id[c]] = c

Owned == ~collided => (Drawn /\ Opening /\ Own)

LEMMA OwnedHolds == Spec => []Owned
<1>1. Init => Owned
    BY DEF Init, Owned, Drawn, Opening, Own
<1>2. ASSUME Types, Types', Table, Owned, [Next]_vars PROVE Owned'
  <2> USE <1>2, ClientsAssumption, IdsAssumption
  <2>0. /\ \A c \in Clients : pc[c] \notin Idle => id[c] \in Ids
        /\ "drawn" \notin Idle /\ "insert" \notin Idle /\ "syn" \notin Idle
        /\ "live" \notin Idle /\ "remove" \notin Idle
        /\ \A i \in stale \cup stale' : i \in Ids
      BY DEF Types, THandler, TMap, Idle
  <2>1. CASE LoopStep \/ UNCHANGED vars
      BY <2>1, LoopFacts DEF tableVars, mapVars, handler, Owned, Drawn, Opening, Own
  <2>2. ASSUME NEW c \in Clients, IdleStep(c) PROVE Owned'
      BY <2>2, IdleFacts DEF Owned, Drawn, Opening, Own, Types, mapVars, Idle
  <2>3. ASSUME NEW c \in Clients, Alloc(c) PROVE Owned'
    <3>1. CASE pc[c] = "alloc"
        BY <2>3, <3>1, DrawFacts DEF Owned, Drawn, Opening, Own, Table, Moved, mapVars, Holds
    <3>2. CASE pc[c] = "drawn"
        BY <2>3, <3>2, CheckFacts DEF Owned, Drawn, Opening, Own, Table, Moved, mapVars
    <3> QED
        BY <2>3, <3>1, <3>2 DEF Alloc
  <2>4. ASSUME NEW c \in Clients, Insert(c) PROVE Owned'
    <3> SUFFICES ASSUME ~collided PROVE Drawn' /\ Opening' /\ Own'
        BY <2>4, InsertFacts DEF Owned, Dropped
    <3>1. Drawn /\ Opening /\ Own
        BY DEF Owned
    <3>2. Drawn'
        BY <2>4, <2>0, <3>1, InsertFacts DEF Drawn, Opening, Own, Table, Moved, Put
    <3>3. Opening'
        BY <2>4, <2>0, <3>1, InsertFacts DEF Drawn, Opening, Own, Table, Moved, Put
    <3>4. Own'
        BY <2>4, <2>0, <3>1, InsertFacts DEF Drawn, Opening, Own, Table, Moved, Put
    <3> QED
        BY <3>2, <3>3, <3>4
  <2>5. ASSUME NEW c \in Clients, SynSent(c) PROVE Owned'
      BY <2>5, SynSentFacts DEF Owned, Drawn, Opening, Own, Moved, mapVars
  <2>6. ASSUME NEW c \in Clients, SynFails(c) PROVE Owned'
    <3> SUFFICES ASSUME ~collided PROVE Drawn' /\ Opening' /\ Own'
        BY <2>6, SynFailsFacts DEF Owned, Dropped
    <3>1. Drawn /\ Opening /\ Own
        BY DEF Owned
    <3>2. Drawn'
        BY <2>6, <2>0, <3>1, SynFailsFacts DEF Drawn, Opening, Own, Table, Moved, Put
    <3>3. Opening'
        BY <2>6, <2>0, <3>1, SynFailsFacts DEF Drawn, Opening, Own, Table, Moved, Put
    <3>4. Own'
        BY <2>6, <2>0, <3>1, SynFailsFacts DEF Drawn, Opening, Own, Table, Moved, Put
    <3> QED
        BY <3>2, <3>3, <3>4
  <2>7. ASSUME NEW c \in Clients, Tombstone(c) PROVE Owned'
      BY <2>7, TombstoneFacts DEF Owned, Drawn, Opening, Own, Moved
  <2>8. ASSUME NEW c \in Clients, RemoveOwn(c) PROVE Owned'
    <3> SUFFICES ASSUME ~collided PROVE Drawn' /\ Opening' /\ Own'
        BY <2>8, RemoveFacts DEF Owned, Dropped
    <3>1. Drawn /\ Opening /\ Own
        BY DEF Owned
    <3>2. Drawn'
        BY <2>8, <2>0, <3>1, RemoveFacts DEF Drawn, Opening, Own, Table, Moved, Put
    <3>3. Opening'
        BY <2>8, <2>0, <3>1, RemoveFacts DEF Drawn, Opening, Own, Table, Moved, Put
    <3>4. Own'
        BY <2>8, <2>0, <3>1, RemoveFacts DEF Drawn, Opening, Own, Table, Moved, Put
    <3> QED
        BY <3>2, <3>3, <3>4
  <2>9. ASSUME NEW c \in Clients, NotifyOne(c) PROVE Owned'
      BY <2>9, NotifyFacts DEF Owned, Drawn, Opening, Own, Moved
  <2>10. ASSUME NEW i \in Ids, Dropped(i) PROVE Owned'
    <3> SUFFICES ASSUME ~collided PROVE Drawn' /\ Opening' /\ Own'
        BY <2>10 DEF Owned, Dropped
    <3>1. Drawn /\ Opening /\ Own
        BY DEF Owned
    <3>2. Drawn'
        BY <2>10, <2>0, <3>1 DEF Drawn, Opening, Own, Table, Dropped, Put, handler
    <3>3. Opening'
        BY <2>10, <2>0, <3>1 DEF Drawn, Opening, Own, Table, Dropped, Put, handler
    <3>4. Own'
        BY <2>10, <2>0, <3>1 DEF Drawn, Opening, Own, Table, Dropped, Put, handler
    <3> QED
        BY <3>2, <3>3, <3>4
  <2>11. ASSUME NEW i \in Ids, ResetTombstone(i) PROVE Owned'
      BY <2>11 DEF ResetTombstone, Owned, Drawn, Opening, Own, handler, history
  <2>12. ASSUME NEW i \in Ids, TimeWaitExpires(i) PROVE Owned'
      BY <2>12, ExpiryFacts DEF Owned, Drawn, Opening, Own, handler
  <2>13. CASE ResetRemove
      BY <2>10, <2>13, ResetFacts
  <2> QED
      BY <2>1, <2>2, <2>3, <2>4, <2>5, <2>6, <2>7, <2>8, <2>9, <2>10, <2>11, <2>12, <2>13,
         StepCases, SweepFacts
<1> QED
    BY <1>1, <1>2, TypesHold, TableHolds, PTL DEF Spec

\* B25: no late exit of another handler takes a live connection out of conns.
THEOREM LiveStaysEntered == Spec => []LiveIsEntered
<1>1. Owned => LiveIsEntered
    BY DEF Owned, Own, LiveIsEntered
<1> QED
    BY <1>1, OwnedHolds, PTL

------------------------------------------------------------------------------
(* Frames of an earlier connection *)

\* As long as no handler outlives the TIME_WAIT of its id either: an id with old
\* frames in flight is not entered and no handler that may enter it is past the
\* look at TIME_WAIT, nor is it for the id of a handler that has lost its entry.
Clean == \A i \in stale : conns[i] = Nobody
Passed == \A c \in Clients : pc[c] = "insert" => id[c] \notin stale
Lost == \A c \in Clients : (pc[c] \in {"syn", "live"} /\ closed[c]) =>
    /\ id[c] \in time_wait /\ conns[id[c]] = Nobody
    /\ \A d \in Clients : pc[d] = "insert" => id[d] # id[c]

Fresh == (~collided /\ ~overstayed) => (Clean /\ Passed /\ Lost)

LEMMA FreshHolds == Spec => []Fresh
<1>1. Init => Fresh
    BY DEF Init, Fresh, Clean, Passed, Lost
<1>2. ASSUME Types, Types', Table, Owned, Fresh, [Next]_vars PROVE Fresh'
  <2> USE <1>2, ClientsAssumption, IdsAssumption
  <2>0. /\ \A c \in Clients : pc[c] \notin Idle => id[c] \in Ids
        /\ "drawn" \notin Idle /\ "insert" \notin Idle /\ "syn" \notin Idle
        /\ "live" \notin Idle /\ "remove" \notin Idle
        /\ \A i \in stale \cup stale' : i \in Ids
      BY DEF Types, THandler, TMap, Idle
  <2>1. CASE LoopStep \/ UNCHANGED vars
      BY <2>1, LoopFacts DEF tableVars, mapVars, handler, Fresh, Clean, Passed, Lost
  <2>2. ASSUME NEW c \in Clients, IdleStep(c) PROVE Fresh'
      BY <2>2, IdleFacts DEF Fresh, Clean, Passed, Lost, Types, mapVars, Idle
  <2>3. ASSUME NEW c \in Clients, Alloc(c) PROVE Fresh'
    <3>1. CASE pc[c] = "alloc"
        BY <2>3, <3>1, DrawFacts DEF Fresh, Clean, Passed, Lost, Table, Moved, mapVars
    <3>2. CASE pc[c] = "drawn"
        BY <2>3, <3>2, CheckFacts DEF Fresh, Clean, Passed, Lost, Owned, Drawn, Table, Moved, mapVars
    <3> QED
        BY <2>3, <3>1, <3>2 DEF Alloc
  <2>4. ASSUME NEW c \in Clients, Insert(c) PROVE Fresh'
    <3> SUFFICES ASSUME ~collided, ~overstayed PROVE Clean' /\ Passed' /\ Lost'
        BY <2>4, InsertFacts DEF Fresh, Dropped
    <3>1. Clean /\ Passed /\ Lost /\ Drawn
        BY DEF Fresh, Owned
    <3>2. Clean'
        BY <2>4, <2>0, <3>1, InsertFacts DEF Clean, Passed, Lost, Drawn, Table, Moved, Put
    <3>3. Passed'
        BY <2>4, <2>0, <3>1, InsertFacts DEF Clean, Passed, Lost, Drawn, Table, Moved, Put
    <3>4. Lost'
        BY <2>4, <2>0, <3>1, InsertFacts DEF Clean, Passed, Lost, Drawn, Table, Moved, Put
    <3> QED
        BY <3>2, <3>3, <3>4
  <2>5. ASSUME NEW c \in Clients, SynSent(c) PROVE Fresh'
      BY <2>5, SynSentFacts DEF Fresh, Clean, Passed, Lost, Moved, mapVars
  <2>6. ASSUME NEW c \in Clients, SynFails(c) PROVE Fresh'
    <3> SUFFICES ASSUME ~collided, ~overstayed PROVE Clean' /\ Passed' /\ Lost'
        BY <2>6, SynFailsFacts DEF Fresh, Dropped
    <3>1. Clean /\ Passed /\ Lost /\ Drawn
        BY DEF Fresh, Owned
    <3>2. Clean'
        BY <2>6, <2>0, <3>1, SynFailsFacts DEF Clean, Passed, Lost, Drawn, Table, Moved, Put
    <3>3. Passed'
        BY <2>6, <2>0, <3>1, SynFailsFacts DEF Clean, Passed, Lost, Drawn, Table, Moved, Put
    <3>4. Lost'
        BY <2>6, <2>0, <3>1, SynFailsFacts DEF Clean, Passed, Lost, Drawn, Table, Moved, Put
    <3> QED
        BY <3>2, <3>3, <3>4
  <2>7. ASSUME NEW c \in Clients, Tombstone(c) PROVE Fresh'
      BY <2>7, TombstoneFacts DEF Fresh, Clean, Passed, Lost, Moved
  <2>8. ASSUME NEW c \in Clients, RemoveOwn(c) PROVE Fresh'
    <3> SUFFICES ASSUME ~collided, ~overstayed PROVE Clean' /\ Passed' /\ Lost'
        BY <2>8, RemoveFacts DEF Fresh, Dropped
    <3>1. Clean /\ Passed /\ Lost /\ Drawn
        BY DEF Fresh, Owned
    <3>2. Clean'
        BY <2>8, <2>0, <3>1, RemoveFacts DEF Clean, Passed, Lost, Drawn, Table, Moved, Put
    <3>3. Passed'
        BY <2>8, <2>0, <3>1, RemoveFacts DEF Clean, Passed, Lost, Drawn, Table, Moved, Put
    <3>4. Lost'
        BY <2>8, <2>0, <3>1, RemoveFacts DEF Clean, Passed, Lost, Drawn, Table, Moved, Put
    <3> QED
        BY <3>2, <3>3, <3>4
  <2>9. ASSUME NEW c \in Clients, NotifyOne(c) PROVE Fresh'
      BY <2>9, NotifyFacts DEF Fresh, Clean, Passed, Lost, Moved
  <2>10. ASSUME NEW i \in Ids, Dropped(i) PROVE Fresh'
    <3> SUFFICES ASSUME ~collided, ~overstayed PROVE Clean' /\ Passed' /\ Lost'
        BY <2>10 DEF Fresh, Dropped
    <3>1. Clean /\ Passed /\ Lost /\ Drawn
        BY DEF Fresh, Owned
    <3>2. Clean'
        BY <2>10, <2>0, <3>1 DEF Clean, Passed, Lost, Drawn, Table, Dropped, Put, handler
    <3>3. Passed'
        BY <2>10, <2>0, <3>1 DEF Clean, Passed, Lost, Drawn, Table, Dropped, Put, handler
    <3>4. Lost'
        BY <2>10, <2>0, <3>1 DEF Clean, Passed, Lost, Drawn, Table, Dropped, Put, handler
    <3> QED
        BY <3>2, <3>3, <3>4
  <2>11. ASSUME NEW i \in Ids, ResetTombstone(i) PROVE Fresh'
      BY <2>11 DEF ResetTombstone, Fresh, Clean, Passed, Lost, handler, history
  <2>12. ASSUME NEW i \in Ids, TimeWaitExpires(i) PROVE Fresh'
      BY <2>12, ExpiryFacts DEF Fresh, Clean, Passed, Lost, handler
  <2>13. CASE ResetRemove
      BY <2>10, <2>13, ResetFacts
  <2> QED
      BY <2>1, <2>2, <2>3, <2>4, <2>5, <2>6, <2>7, <2>8, <2>9, <2>10, <2>11, <2>12, <2>13,
         StepCases, SweepFacts
<1> QED
    BY <1>1, <1>2, TypesHold, TableHolds, OwnedHolds, PTL DEF Spec

\* B25: no connection is entered under an id whose earlier connection still has
\* frames in flight (alloc_conn_id, the tombstones and TIME_WAIT_TTL together).
THEOREM NoIdIsStale == Spec => []NoStaleId
<1>1. (Types /\ Fresh) => NoStaleId
    BY DEF Types, TMap, Fresh, Clean, NoStaleId, Entered
<1> QED
    BY <1>1, TypesHold, FreshHolds, PTL

------------------------------------------------------------------------------
(* The count of half-open handshakes and the accept loop *)

Shaking == {c \in Clients : pc[c] = "shake"}

Loop ==
    /\ half_open = Cardinality(Shaking)
    /\ apc \in {"check", "count", "full", "wait", "accept", "returned"}
    /\ seen \in Nat
    /\ slot \in BOOLEAN /\ shutdown \in BOOLEAN

\* There is a handler for every entry, so conns is finite.
LEMMA EnteredIsFinite == ASSUME Types, Table PROVE Cardinality(Entered) \in Nat
<1> DEFINE owner == [i \in Entered |-> conns[i]]
<1>1. \A i \in Entered : i \in Ids /\ conns[i] \in Clients /\ id[conns[i]] = i
    BY DEF Entered, Types, TMap, Table
<1>2. owner \in [Entered -> Clients]
    BY <1>1
<1>3. \A i, j \in Entered : owner[i] = owner[j] => i = j
    BY <1>1
<1>4. owner \in Injection(Entered, Clients)
    BY <1>2, <1>3 DEF Injection, IsInjective
<1> HIDE DEF owner
<1>5. IsFiniteSet(Entered)
    BY <1>4, ClientsAssumption, FS_Injection
<1> QED
    BY <1>5, FS_CardinalityType

LEMMA LoopHolds == Spec => []Loop
<1>1. Init => Loop
  <2> SUFFICES ASSUME Init PROVE Loop
      OBVIOUS
  <2>1. Shaking = {}
      BY DEF Init, Shaking
  <2> QED
      BY <2>1, FS_EmptySet DEF Init, Loop
<1>2. ASSUME Types, Table, Loop, [Next]_vars PROVE Loop'
  <2> USE <1>2
  <2>0. IsFiniteSet(Shaking)
      BY ClientsAssumption, FS_Subset DEF Shaking
  <2>1. ASSUME UNCHANGED <<Shaking, half_open, seen, shutdown>>,
               apc' \in {apc, "check"}, slot' \in {slot, TRUE}
        PROVE  Loop'
      BY <2>1 DEF Loop
  <2>2. CASE LoopStep \/ UNCHANGED vars
    <3>1. UNCHANGED <<Shaking, half_open>>
        BY <2>2 DEF LoopStep, AcceptStep, ShutdownSignal, HeartbeatNotify, AcceptTop, AcceptCount,
           AcceptWaits, AcceptWoken, vars, Shaking, handler
    <3>2. apc' \in {"check", "count", "full", "wait", "accept", "returned"}
        BY <2>2 DEF LoopStep, AcceptStep, ShutdownSignal, HeartbeatNotify, AcceptTop, AcceptCount,
           AcceptWaits, AcceptWoken, vars, accept, Loop
    <3>3. seen' \in Nat
        BY <2>2, EnteredIsFinite
        DEF LoopStep, AcceptStep, ShutdownSignal, HeartbeatNotify, AcceptTop, AcceptCount,
           AcceptWaits, AcceptWoken, vars, accept, Loop
    <3>4. slot' \in BOOLEAN /\ shutdown' \in BOOLEAN
        BY <2>2 DEF LoopStep, AcceptStep, ShutdownSignal, HeartbeatNotify, AcceptTop, AcceptCount,
           AcceptWaits, AcceptWoken, vars, Loop
    <3> QED
        BY <3>1, <3>2, <3>3, <3>4 DEF Loop
  <2>3. ASSUME NEW c \in Clients, NEW from \in Label \ {"shake"}, NEW to \in Label \ {"shake"},
               Moved(c, from, to)
        PROVE  UNCHANGED Shaking
      BY <2>3 DEF Moved, Shaking
  <2>4. ASSUME NEW c \in Clients, Accept(c) \/ AllocFails(c) PROVE Loop'
    <3>1. Moved(c, "backlog", "spawned") \/ Moved(c, "alloc", "done")
        BY <2>4, Goes DEF Accept, AllocFails, Types, Label, Moved
    <3>2. UNCHANGED Shaking
        BY <2>3, <3>1 DEF Label
    <3> QED
        BY <2>1, <2>4, <3>2 DEF Accept, AllocFails, accept
  <2>5. ASSUME NEW c \in Clients, HandshakeStart(c) PROVE Loop'
    <3>1. Moved(c, "spawned", "shake")
        BY <2>5, Goes DEF HandshakeStart, Types, Label, Moved
    <3>2. Shaking' = Shaking \cup {c} /\ c \notin Shaking
        BY <3>1 DEF Moved, Shaking
    <3>3. Cardinality(Shaking') = Cardinality(Shaking) + 1
        BY <2>0, <3>2, FS_AddElement
    <3> QED
        BY <2>5, <3>3 DEF HandshakeStart, Loop, accept
  <2>6. ASSUME NEW c \in Clients, HandshakeFails(c) \/ HandshakeDone(c) PROVE Loop'
    <3>1. Moved(c, "shake", "notify") \/ Moved(c, "shake", "alloc")
        BY <2>6, Goes DEF HandshakeFails, HandshakeDone, Types, Label, Moved
    <3>2. Shaking' = Shaking \ {c} /\ c \in Shaking
        BY <3>1 DEF Moved, Shaking
    <3>3. Cardinality(Shaking') = Cardinality(Shaking) - 1
        BY <2>0, <3>2, FS_RemoveElement
    <3> QED
        BY <2>6, <3>3 DEF HandshakeFails, HandshakeDone, Loop, accept
  <2>7. ASSUME NEW c \in Clients, Alloc(c) PROVE Loop'
    <3>1. pc[c] = "alloc" \/ pc[c] = "drawn"
        BY <2>7 DEF Alloc
    <3>2. Moved(c, "alloc", "drawn") \/ Moved(c, "drawn", "alloc") \/ Moved(c, "drawn", "insert")
        BY <2>7, <3>1, DrawFacts, CheckFacts
    <3>3. UNCHANGED Shaking
        BY <2>3, <3>2 DEF Label
    <3> QED
        BY <2>1, <2>7, <3>3 DEF Alloc, accept
  <2>8. ASSUME NEW c \in Clients,
               \/ Insert(c) \/ SynSent(c) \/ SynFails(c) \/ Tombstone(c) \/ RemoveOwn(c)
               \/ NotifyOne(c)
        PROVE  Loop'
    <3>1. \/ Moved(c, "insert", "syn") \/ Moved(c, "syn", "live") \/ Moved(c, "syn", "notify")
          \/ Moved(c, "live", "remove") \/ Moved(c, "remove", "notify")
          \/ Moved(c, "notify", "done")
        BY <2>8, InsertFacts, SynSentFacts, SynFailsFacts, TombstoneFacts, RemoveFacts, NotifyFacts
    <3>2. UNCHANGED Shaking
        BY <2>3, <3>1 DEF Label
    <3> QED
        BY <2>1, <2>8, <3>2
        DEF Insert, SynSent, SynFails, Tombstone, RemoveOwn, NotifyOne, Return, accept
  <2>9. CASE \/ ResetRemove \/ \E c \in Clients : Sweep(c)
             \/ \E i \in Ids : ResetTombstone(i) \/ TimeWaitExpires(i)
    <3>1. UNCHANGED Shaking
        BY <2>9 DEF ResetRemove, Sweep, ResetTombstone, TimeWaitExpires, handler, Shaking
    <3> QED
        BY <2>1, <2>9, <3>1 DEF ResetRemove, Sweep, ResetTombstone, TimeWaitExpires, accept
  <2> QED
      BY <2>2, <2>4, <2>5, <2>6, <2>7, <2>8, <2>9, StepCases DEF IdleStep
<1> QED
    BY <1>1, <1>2, TypesHold, TableHolds, PTL DEF Spec

\* The state keeps its shape, and half_open, which counts the handshakes in flight,
\* never runs below zero (handle_client's guard and the accept loop).
THEOREM TypeCorrect == Spec => []TypeOK
<1>1. ASSUME Types, Loop PROVE TypeOK
  <2>1. half_open \in Nat
      BY <1>1, ClientsAssumption, FS_Subset, FS_CardinalityType DEF Loop, Shaking
  <2>2. {slot, shutdown, collided, overstayed, exhausted} \subseteq BOOLEAN
      BY <1>1 DEF Types, THistory, Loop
  <2> QED
      BY <1>1, <2>1, <2>2 DEF TypeOK, Types, THandler, TMap, Loop, Label
<1> QED
    BY <1>1, TypesHold, LoopHolds, PTL

==============================================================================
