# A TLA+ model of round_robin

round_robin splits a TCP stream into frames, sends them over several tunnels
and puts them back in order at the other end. This directory holds TLA+ models
of its parts, the TLC runs that check them on small instances, and TLAPS proofs
of their safety properties for every value of the constants: the reorder buffer,
the links, the connections of both sides, the frame codec, and the pure functions
(addresses, port lists, dates and logs, the scheduler).

Source references are to `src/*.rs` of the repository. Names in the modules
are the source's where TLA+ allows it. Tags such as B24 or BUG-5 are those of
the source comments and `CHANGELOG.md`.

## 1. The system

| component | state | operations | interacts with |
|---|---|---|---|
| reorder buffer (`reorder.rs`) | `expected`, `pending`, `pending_bytes` | `push`, `is_complete_through` | one per connection and direction, under a mutex, called from every tunnel's read loop |
| tunnel pool and links (`tunnel.rs`) | list of links; per link a bounded channel, `alive`, `stop`, `writer_died`, `lost_frames`, rates | `add`, `compact`, `sweep_idle`, `send`, `send_async`, `drain_frames` | senders, one drain task per link, heartbeat |
| splitter, tunnel owner (`splitter.rs`) | retry counter | dial, read loop, D1 recovery, backoff | pool, connections |
| splitter, clients (`splitter.rs`) | `conns`, `time_wait`, `half_open`, per connection `VirtConn` | SOCKS5 accept, upload loop, `on_frame`, FIN/RST, close grace, sweeps | pool, reorder buffer, client socket |
| reassembler, listener (`reassembler.rs`) | – | accept up to `MAX_TUNNEL_LINKS`, writer and reader task per link, D1 recovery | pool |
| reassembler, establishment | `conns`, `pending`, `closed`, `handshaking`, global `pending_bytes` | `handle_frame` for SYN, and for DATA, FIN, RST of unknown cids; sweeps and evictions | pool, SOCKS5 client |
| reassembler, established connection | `VirtConnDe` | DATA delivery, `start_half_close`, `close_write_half`, `finish_if_done`, `write_to_egress`, `read_from_egress` | reorder buffer, target socket, pool |
| UDP relays (both sides) | one socket pair per association | forward, reply | pool, `conns` |
| heartbeats (both sides) | – | `compact`, `sweep_idle`, idle, pending, closed and handshaking sweeps | all maps |
| frame codec (`frame.rs`) | the decoder's buffer | `encode_into`, `try_next`, `SynTarget` | tunnel writers and read loops |
| SOCKS5, configuration, logging (`socks5.rs`, `config.rs`, `logging.rs`) | the log file and its date | addresses and datagrams, `parse_ports`, rotation and purge | start-up, client handlers |

Everything runs on a multi-threaded tokio runtime. Each tunnel has its own read
loop and frames of one connection arrive through all of them, so every handler
may run between two steps of another handler of the same connection. The
handlers share concurrent maps (each access atomic, sequences of accesses not),
atomics and `Notify` permits.

What makes this hard:

* *ordering*: frames arrive in any order, FIN and RST before SYN or DATA;
* *failure*: tunnels die with frames in the queue, being written or in flight;
  there are no retransmissions, so a lost DATA frame must reset its connection;
* *check-then-act* on the maps between handlers of different tunnels;
* *lost signals*: two tasks per link and two per connection tell each other
  that it is over;
* *limits*: channel capacities, the reorder window, the pending budget, the
  cap on links;
* *timers* that race the events they stand in for.

What makes each component correct:

* reorder buffer: hands on exactly the gap-free run, stays within its limits,
  reports every loss;
* links: an accepted frame is written, or recovered by a reset or a resend; a
  dead link is torn down completely; a waiting sender is woken;
* establishment: one handshake and one connection per cid, early frames reach
  it, the budget is kept and refunded, a reset leaves nothing behind;
* established connection: the target sees a prefix of the stream and EOF only
  at its end, closing happens once and happens at last, no task is left over;
* splitter clients: the mirror image for the client, a reassembler that is told
  how a connection ended, conn_ids that are not reused too early, an accept loop
  that serves up to its limit;
* codec and pure functions: what is decoded is what was encoded, wherever the
  stream is cut; links get their shares; dates and port lists are right.

`PROJECT.json` lists the hazards with their lines and the properties that
watch them.

## 2. Modules

| module | models | state and actions |
|---|---|---|
| `OrderedStream` | the promise of one direction to its endpoint | `got` (accepted payloads by seq), `out` (handed on); `Accept` |
| `ReorderBuf` | `reorder.rs` | the struct's fields, history `out` and `result`; `push` as its five outcomes |
| `TunnelLink` | `tunnel.rs`, the owner task of `splitter.rs`, the listener of `reassembler.rs` (constant `Role` picks one) | per link flags, channel and task states; actions for drain task, read loop, recovery, `send`, `send_async`, `compact`, `sweep_idle`, network failure |
| `HalfClose` | one established TCP connection of the reassembler | `VirtConnDe`, permits, channel, task states; one handler process per frame |
| `SynHandshake` | one cid, TCP or UDP, before and during its SYN handshake | the four maps, `pending_bytes`; one handler process per frame, one step per map access |
| `SplitterConn` | one TCP client connection of the splitter: `handle_tcp_client`, `on_frame`, `handle_inbound_frame`, `reset_conn`, the sweep | `VirtConn`, the client channel and its writer, the handler; one process per response frame |
| `ClientSlots` | the splitter's clients together: accept loop, `handle_client`, `alloc_conn_id`, TIME_WAIT, entry and removal of TCP and UDP clients | `conns`, `time_wait`, `half_open`, `conn_slot`, `shutdown`; one handler per client |
| `Wire` | the formats of `frame.rs` | operators for frames and SYN targets |
| `FrameCodec` | a tunnel's byte stream and `FrameDecoder::try_next` | bytes under way, the buffer; `Send`, `Close`, `Decode`, `Read`, `End` |
| `WeightedPick` | `TunnelPool::weighted_pick` | operators |
| `Socks5` | address and datagram formats of `socks5.rs` | operators |
| `Ports` | `parse_ports` of `config.rs` | operators |
| `LogFiles` | rotation and purge of `logging.rs` | operators |
| `MCAlgorithms` | – | asks the operators of the last four modules and of `Wire` every bounded question (`Questions`); holds the reference definitions |
| `MCReorderBuf`, `MCTunnelLink`, `MCFrameCodec` | – | payload lengths, symmetry and frames for TLC |
| `ReorderBufProofs`, `TunnelLinkProofs`, `HalfCloseProofs`, `SynHandshakeProofs`, `SplitterConnProofs`, `ClientSlotsProofs` | – | theorems about the module they are named after, with their proofs |
| `AlgorithmProofs` | – | theorems about `FrameCodec` and about the answers of `MCAlgorithms` |
| `DeliveryLemmas` | – | lemmas on least elements, gap-free runs and queues that the proofs of the connections and of the algorithms share |

Definitions called "Mutant" stand next to the definition they alter. They are
not used by any specification: each puts back a plausible bug (often one the
changelog says was fixed) and makes one property fail.

### ReorderBuf

One step is one call of `push`, which runs under the connection's mutex. Any
seq, 0 and old ones included, may come with any payload at any time, so
duplicates with another payload are covered. Payloads are abstract with a
length. The `while let` loop that drains is stated by its end point
(`IsDrainEnd`). u64 wrap-around of `expected` needs 2^64 frames and is left out.

### TunnelLink

A link is a pair of a tunnel and a session number, since each redial makes a
new `TunnelLink` object. `drain_frames` is a small state machine
(`recv`, `write`, `drain`, `shutdown`, `done`): the states are its await
points. The read loop and what follows it is `rpc`. A DATA sender runs
`send_async` with its states `loop` (before the `Notified` future exists),
`pick`, `try`, `none`, `sleep` and `wait`. The network of a link is up, ended, or
silent. Ended is what the reader finds: EOF, an error, or a frame the decoder
refuses; a silent peer is never noticed by the reader. In both cases writes may
still succeed, into the socket's buffer at least, or fail or stall. A control
frame here goes by `send`, as SYN, RST and the DATA of UDP do in the code; a FIN
goes by `send_async` like DATA and is recovered like a control frame, a combination
the model does not have.

Abstractions: `weighted_pick` may take any candidate and `send` any place of
the ring as its start, which covers all rates and cursors. `send` holds the
pool's lock and is one step. `add` with its `notify_waiters` is one step, as is
clearing `alive` with `stop.notify_one`: no task can tell the two apart except
through a send that sees the link still alive, which is possible before the
step as well. Each poll of a `select!` is one step. A frame recovered by resend
keeps its identity, so `FrameConserved` follows it across links. Each DATA
frame has its own connection; a reset is recorded for that connection. `Places`
is the set of the places a frame is in: a slot of a channel, the hand of a drain
task, a lost list, a batch, or settled (written, reset, dropped as the code says,
or one of the two unreported exits).

### HalfClose

The splitter's stream is DATA `1..N` and FIN with seq `N + 1`. The DATA handler
holds a read guard on the conns map from lookup to the end (`Guarded`), which
`conns.remove` has to wait for; the FIN handler clones the `Arc`. The atomics
are separate steps in the source's order: the swap of `fin_received`, the store
of `fin_seq`, the compare-exchange, the test (with the load of `fin_seq`,
which is stored once; the 0 before that passes every test), the rollback or commit. The
reorder buffer is the set of seqs pushed, which is sound because of the theorem
`CompleteThroughCorrect`. The writer's biased selects give cancel priority over
chunks, and chunks priority over half-close. An overflow of the window may
happen to any out-of-order frame.

### SynHandshake

`conns`, `pending`, `closed` and `handshaking` are seen through one cid. Each
access to a map, and each read-modify-write of `pending_bytes`, is one step,
except that `remove_pending` (remove and refund), the replay of pending
frames by the SYN handler, and the refusal of a reservation (the budget found
exhausted and no other entry to evict) are one step each. DATA carries one byte. Other cids
exist as `Evictors`, which evict this cid's entry in `try_reserve_pending`, and
as the choice that `MAX_PENDING_CIDS` is reached. `pending_bytes` wraps at
`USIZE` like `fetch_sub`; `BudgetCovers` counts the bytes that handlers have
reserved (`Reserving`) and that evictions have yet to refund (`Owed`). The connect may succeed, fail, time out or be
cancelled. The protocol is chosen in the initial state; a UDP association is
bound instead of connected, inserted without a second look at `closed`, and has
no FIN. Not modelled: the TTL sweeps of `closed` and `handshaking` (60 s and more
after the steps of interest).

### SplitterConn

The reassembler's response is DATA `1..N` and FIN with seq `N + 1`, each frame
with a handler process of its own; the client uploads up to `M` frames. Insert,
SYN, the reply to the client with the start of its writer, each queued upload frame, FIN, the close grace with its polls, the
tombstone with the removal, and the wait for the writer are steps of the handler.
A frame handler holds a guard of the conns map, which a removal and the sweep
wait for, and the reorder lock from push to the last channel write. The two
stores of a FIN are two steps, as are the sweep's `closed` and what follows it.
The writer (`recv`, `write`, `shutdown`, `ended`) shuts the client's stream down
both when its channel is closed and empty and when a write failed or stalled
(`cut`); until it has returned its channel takes chunks.
Timeouts may end at any moment. A frame may be lost with its tunnel. Not
modelled: the sweep of an entry whose handler is gone (`strong_count <= 1`);
no path of the handler leaves an entry behind, except a panic.

### ClientSlots

A connection is reduced to its entry in `conns`, its `closed` flag and the state
of its handler; TCP and UDP handlers come and go in the same way. The accept
loop reads `conns.len()` and `half_open` in two steps. `alloc_conn_id` reads
`conns`, then TIME_WAIT; an id is any member of `Ids`. `stale` holds the ids with
frames of a removed connection in flight, which TIME_WAIT is there for: they are
gone when the tombstone expires. A handler whose entry was removed by a reset or
a sweep goes on sending until it ends: its id is stale again when it sets its own
tombstone, and `overstayed` records a TIME_WAIT that expired before that.
A tombstone does not expire between two
statements without an await. At most one `reset_conn` is between its tombstone
and its removal at a time. When the accept loop returns, the process ends.

### Wire and FrameCodec

Bytes have `RADIX` values and the fields `ID_WIDTH`, `SEQ_WIDTH`, `LEN_WIDTH`
bytes (256 and 4, 8, 2 in the code), so that a payload of the largest size is
short. `Power` is the number of values of a field, `FrameType` the values the
fields of the struct can have. Numbers are put down most significant byte first, as
the code does. A
read delivers any number of the bytes under way that fits the space left. The
connection may end at any time and lose any number of its last bytes; behind the
rest the reader finds end of stream or, with `reset`, an I/O error. The check
`payload_len > MAX_PAYLOAD` of the decoder cannot fail for a two-byte field.

### WeightedPick, Socks5, Ports, LogFiles

The weights of the scheduler are f64 in the code; here they are scaled to
integers and compared by multiplying out, so rounding is left out. A host is its
bytes with its kind: the text form of an IP address stands for its bytes. Invalid
UTF-8 is left out. The text of a port or range is the numbers in it or
`NotANumber`. A date is its three fields, which the fixed-width name orders in
the same way up to the year 9999; the clock goes forward and starts after 1970.
Purging is of the files with the strict name pattern; other files are never
touched by the code and are left out. Loops that build up a result (`Candidates`,
`Sums`, `Dedup`, `LogAfter`) are recursive functions over the number of rounds, the
form the proofs can use.

`TypeOK` of each module, `EntryBound` of `ReorderBuf` and `OneCloser` of
`HalfClose` are proved (section 4); they also hold on the instances of the runs
but, `ReorderBuf`'s `TypeOK` aside, are not among their properties.

## 3. Runs

`CHECK_DEADLOCK FALSE` is set for all runs but `reorder`: with a bounded number
of frames, clients and sessions the system comes to rest.

Runs that pass:

| run | instance | states | shows |
|---|---|---|---|
| `reorder` | 6 seqs, payloads of 1 and 2 bytes, budget 4 bytes, 3 entries | 4 300 | the byte limit and the entry limit are each reached with the other to spare; order, accounting, limits, overflow reports; refinement of `OrderedStream` |
| `tunnel_recovery` | splitter, 2 tunnels, 1 link each, 1 DATA, 1 control frame, capacity 1 | 960 000 | `FrameConserved`, `LostListComplete`, `TeardownSignalled`: what a link's death leaves behind is recovered through the other link |
| `tunnel_listener` | reassembler, 1 port accepting 2 links, limit 1, 2 DATA frames, one oversized | 3 200 000 | `FrameConserved` with the reassembler's recovery |
| `tunnel_reconnect` | splitter, 1 tunnel with 2 links in turn, fair | 116 000 | `NoLostWakeup`, `Teardown`, `SenderProgress` |
| `half_close` | 2 DATA, FIN, channel of 1, fair | 151 000 | who closes, when, what the target has by then, removal; a FIN leads to EOF at the target, a removal to the end of both tasks |
| `syn_handshake` | TCP or UDP, 2 SYN, DATA, RST, one evictor, budget 1 byte, fair | 505 000 | `OneHandshake`, `ResetTakesEffect`, `HandshakeEnds` |
| `syn_pending` | SYN, 2 DATA, FIN, sweep, evictor, budget 1 byte | 3 200 000 | the budget, and the delivery of early frames |
| `splitter_conn` | 3 response and 2 upload frames, channel of 1, fair | 302 000 | the client sees a prefix and, the exceptions named below apart, a clean end only after the whole response; the FIN covers the upload; the reassembler is told; the handler ends |
| `client_slots` | 2 clients, 2 ids, limit 1, fair | 86 000 | ids and TIME_WAIT, removals, the wake-up of the accept loop |
| `frame_codec` | up to 3 frames, payloads up to 8 bytes, bytes of 9 values, fair decoder | 73 000 | frames survive every cut of the stream; an end inside a frame, or in an I/O error, is an error; a complete stream is decoded to its last frame, the buffer's limit notwithstanding |
| `algorithms` | 3 links with 4 rates on the full grid of 1024; port lists of up to 4; three spans of days around leap days, 2000 and 2100; logs of 3 events; addresses of up to 5 bytes | 145 000 | the pure functions against their references |

The bounds are small because each question is about two or three parties
meeting: two closers, two handlers and one map entry, one link dying while
another recovers, a handler that leaves and one that enters under its id. A
channel of one frame is full after one send; two links are the least with which
recovery and the skip list mean something; two sessions the least for a
reconnect; three response frames the least with which a chunk is dropped in the
middle of a run. More frames repeat the same handlers.
Larger instances checked by hand: `HalfClose` with a duplicate FIN
(`Fins = {0, 3}`, without fairness), `ClientSlots` with three clients on one id.

### Where the code departs from what it says

One run states what the documentation says and TLC shows a behaviour of the code
that contradicts it: `client_shutdown`. After SIGTERM the accept loop is found in
`accept` or waiting for a slot, neither of which the flag interrupts; the
heartbeat, which could wake it, has stopped. The splitter ends when the next
client connects, or never (`splitter.rs:439`, 446, 450; `PROJECT.json` quotes the
lines).

The modules hold 20 further formulas of this kind, each stating what a comment or a
document says. No configuration is kept for them, to leave the runs to what holds;
to see the trace put the
formula in the place of the properties of the configuration named, with
`SPECIFICATION Spec` and the constants given. "(action)" marks a `PROPERTY`.

| formula | configuration | behaviour |
|---|---|---|
| `DequeuedIsReported` (action) | `MCTunnelReconnect`, `MaxSessions = 1` | a frame whose write fails or stalls is not reported as lost (`tunnel.rs:410`) |
| `QueuedIsReported` (action) | `MCTunnelReconnect`, `MaxSessions = 1` | a frame queued after the last `try_recv` is dropped with the receiver (`tunnel.rs:419`) |
| `LinksAreCapped` | `MCTunnelRecovery`, `Role = "reassembler"` | two listeners count before either adds (`reassembler.rs:456`) |
| `NoEarlyClose` | `MCHalfClose`, `EGRESS_CHANNEL_CAP = 2` | `fin_received` is visible before `fin_seq`, a DATA handler closes too soon (`reassembler.rs:1399`) |
| `RollbackIsRetried` | `MCHalfClose`, `EGRESS_CHANNEL_CAP = 2` | the last delivery loses the compare-exchange to a closer about to roll back; only the 10 s timer closes (`reassembler.rs:1437`) |
| `FinishedIsRemoved` | `MCHalfClose`, `EGRESS_CHANNEL_CAP = 2` | the force timer does not call `finish_if_done` (`reassembler.rs:1406`) |
| `TargetSeesPrefix` | `MCHalfClose`, `N = 3` | after a failed egress write another handler's chunk gets through before the reset (`reassembler.rs:1084`) |
| `DataIsKept` | `MCSynPending`, `Fins`, `Sweepers`, `Evictors` empty, budget and frames 2 | check-then-insert overwrites a pending entry, its frame is gone (`reassembler.rs:1173`) |
| `BudgetIsRefunded` | the same | the overwritten entry's bytes stay charged (`reassembler.rs:1173`) |
| `NothingStranded` | the same | DATA parked after the SYN handler has drained (`reassembler.rs:1037`) |
| `RefundLowers` (action) | `MCSynPending`, budget and frames 2 | an eviction refunds a stale size, the counter can wrap (`reassembler.rs:1358`) |
| `FinArrives` | `MCSynPending` | a FIN whose entry vanished is dropped (`reassembler.rs:1205`) |
| `NoZombie` | `MCSynHandshake`, `Syns = {s1}` | RST between the SYN handler's last check and its insert (`reassembler.rs:1232`) |
| `NoSecondConnection` (action) | `MCSynHandshake` | a duplicate SYN replaces the connection (`reassembler.rs:632`) |
| `GraceWaitsForData` | `MCSplitterConn` | the close wait reads `fin_seq` 0 between the two stores of a FIN and ends at once (`splitter.rs:627`) |
| `ResponseEndsInHalfClose` | `MCSplitterConn` | the client of a complete response is held open and finally reset by the sweep; the splitter never closes its write half towards it (`README.md:104`) |
| `EndIsDelivery` | `MCSplitterConn` | a client that takes nothing for `CLIENT_WRITE_TIMEOUT`, or whose write failed, gets a stream that ends cleanly in the middle of a response that was all queued for it (`splitter.rs:816`, 822; `README.md:104`) |
| `TableWithinLimit` | `MCClientSlots` | an accepted client is not counted until its task runs, nor between handshake and insert (`splitter.rs:445`) |
| `UnmeasuredIsAverage` | `MCAlgorithms` | a link never measured is weighed by `total / n` over all candidates and not by the mean of the measured ones: beside one link of rate 300 it counts as 150, not 300 (`tunnel.rs:314` against 70 and 292) |
| `FloorGuaranteed` | `MCAlgorithms` | the floor is taken of the sum before flooring: of two links with rates 1 and 300 the slow one gets 49 of 1024 picks, below 5 % (`tunnel.rs:32`) |

The passing properties are stated around these: `FrameConserved` names the two
unreported exits as places of their own, `CloseAccounted` and
`CleanEofIsComplete` except an early and a forced close (and the latter a chunk
that did not fit), `DoneIsRemoved` the forced one, `FramesArrive` an overwritten
or stranded entry and a FIN whose entry vanished, `ResetTakesEffect` an RST that
falls into the window of `NoZombie` or whose mark is lost with its entry,
`BudgetRespected` and `BudgetCovers` a miscounted eviction, `ClientPrefix` a
dropped chunk. `CleanEndIsComplete` is about a client that has closed its own side
and whose connection ends with no reset and no sweep, and excepts a dropped chunk, an expired and an early close wait, and
a write to the client that failed or stalled. `ProportionalShare` weighs an
unmeasured link as the code does; `NoStaleId` and `SlotWakeup` two handlers that draw one id at once (1 in 2^32)
and an id space in which 1024 draws fail; `NeverStarved` claims half the floor's
share. Within its scope each says that, these apart, there is no further way. The
scope of `CleanEofIsComplete` is an end for the half-close or for a dropped
connection: a writer that was cancelled or whose write failed or stalled shuts the
target's socket down too (`reassembler.rs:1512`, 1517), and that EOF says nothing of
the stream.

A hazard of `PROJECT.json` that one of these formulas is about has a note that says
so; a property is named for it only for the part that the property does catch.

### Fairness

Weak fairness on the steps of a running task: tokio schedules every ready task,
and sleeps, the connect timeout (10 s), the write stall timeout (60 s), the
egress write timeout and the half-close timer elapse. No fairness on frame
arrival, the network, the target, RST, heartbeat sweeps, new links or the
senders' timeout. `SenderProgress` therefore assumes that a link with a working
tunnel stays alive.

`SplitterConn`: the handler's own steps, the writer, the frame handlers once they
have begun; not the client, whose silence may keep the handler reading for ever.
`ClientSlots`: the accept loop's and the handlers' own steps. `accept`, the end of
a live connection and the heartbeat are not fair, so `SlotWakeup` does not rest on
the heartbeat's `notify_waiters`. Strong fairness only on `LuckyDraw`: random draws
do not miss a free id for ever. `FrameCodec`: weak fairness of `try_next`, whose
reads return when bytes are there or the connection has ended.

## 4. Proofs

The proofs hold for every value of the constants that meets the assumptions of
the module: any number of tunnels, sessions, frames, handlers and clients, every
limit and capacity. The state of a model is one link pool, one connection or one
cid, as in section 2. Each theorem is `Spec => []I` for the property `I` named,
unless it says otherwise. "With" names the inductive invariant, which was first
checked with TLC on the instances of section 3.

The common pattern: the types come first (`Types`, or `Shape` with the lock);
lemmas say once what each kind of step does (`...Facts`, `...Moves`, `Goes`,
`MovesOn`); the step of an invariant then has one case per action.

### ReorderBufProofs

Assumptions: `PayloadAssumption`, `MaxSeqAssumption`, `LimitAssumption` (sizes
and limits are natural numbers, a payload limit of at least one byte).

* `TypeCorrect`, `OverflowExact` (`OverflowIffMissing`),
  `CompleteThroughCorrect` (`CompleteThroughExact`), with `IInv`. The two
  properties are not inductive alone: `IInv` adds `Window` (all buffered seqs lie
  strictly above `expected`, and `out` has length `expected - 1`). Without it a
  push of the expected seq could find that seq in the buffer, or the drained run
  could leave an old entry behind.
* `ImplementsOrderedStream`: `Spec => StreamSpec`. `ExpectedStep`,
  `BufferedStep` and `RefusedStep` say what each kind of push does to `Held`, the
  refinement mapping's `got`; `OutIsPrefix` ties `out` to `Held`.
* `BytesAreAccounted` (`ByteAccounting`) and `EntriesAreBounded` (`EntryBound`),
  with `Limits`. The bytes of a buffer are a set of pairs of a seq and a position
  in its payload, and their number is its cardinality: what a push adds and a
  drain removes are disjoint sets, for which the library has theorems, where a
  sum by a fold would need induction over data.

### TunnelLinkProofs

Assumptions: `RoleAssumption`, `BoundAssumption`, `FrameAssumption` (DATA,
control and RST frames are different frames). Both roles are covered.

* `TypeCorrect`, with `Types`: every queue within its capacity included.
* `TeardownIsSignalled` (`TeardownSignalled`), with `TeardownInv`: while the
  drain task serves the channel its receiver exists, so no sender finds the
  channel closed and clears `alive` without a `stop` permit.
* `LostListIsComplete` (`LostListComplete`), with `LostInv`: who takes the list,
  and that the drain task is through by then.
* `NoWakeupLost` (`NoLostWakeup`), inductive with the types: only `add` makes a
  link alive (`AliveGrowsByOpen`), and it wakes whoever holds a `Notified`.
* `FramesAreConserved` (`FrameConserved`), with `Conserved`: `Kept` also says
  that a frame that was not accepted is nowhere, or was refused by every channel;
  `Sources`, that a DATA frame enters a channel once and an RST only on the reset
  of its connection; `Batches`, that a batch is empty before it is filled, so
  that taking the lost list overwrites nothing. Each part of `Places` has its own
  lemma for the steps that leave it alone or move a frame into or out of it.

### HalfCloseProofs

Assumptions: `NAssumption`, `FinsAssumption`, `CapAssumption`.

* `TypeCorrect`, with `Shape`: at most one handler holds the reorder lock.
* `OneCloserAtATime` (`OneCloser`), `CloseIsAccounted` (`CloseAccounted`) and
  `ClosedStays` (`Spec => ClosedIsFinal`, an action property), with `Closing`:
  the closing state has exactly one holder (`Held`), and whoever commits without
  force has seen every seq pushed and no chunk left in the lock holder's hands
  (`Justified`).
* `DoneGoesAway` (`DoneIsRemoved`), with `Finisher`: of two directions that end
  at the same time, the later one sees both ended.
* `CleanEofIsWhole` (`CleanEofIsComplete`), with `Stream` and `Reasons`: target,
  chunk in hand, channel and the lock holder's chunks are, in this order, the
  seqs up to the first missing one; the writer only comes to its end after a
  close or a cancel.

### SynHandshakeProofs

Assumptions: `HandlersAssumption`, `LimitsAssumption`, `NoneAssumption`.
`LimitsAssumption` asks `USIZE > MAX_PENDING_BYTES + 1`: a handler compares
`pending_bytes + 1` with the budget, which must not wrap.

* `HandshakeIsAlone` (`OneHandshake`), with the types: `IInv`.
* `ResetIsEffective` (`ResetTakesEffect`), with `ResetInv`: after an RST the
  tombstone is set, a SYN handler past its last look finds its entry marked, and
  a connection that is still there is about to be torn down.
* `BudgetIsRespected` and `BudgetIsCovered` (`BudgetRespected`, `BudgetCovers`),
  with `Purse` and `Ledger`: the two need each other, since a refund stays above
  zero only if the counter covers it, and stays in range only if the budget is
  respected.
* `FramesDoArrive` (`FramesArrive`), with `Arrival`, under the hypothesis that
  the cid has one SYN. With two, a second connection replaces the first together
  with its inbox (`NoSecondConnection`, section 3) and the statement is false.
  `Stages` orders building, draining and replay; `Found` says that a frame that
  saw an entry vanish can rely on the connection or on a tombstone to come;
  `Somewhere`, that a handled frame is in the inbox, in the replay, in the entry,
  or its cid is doomed.
* `TypeCorrect`, with `Flags` and `Capped`: a pending entry stays within
  `MAX_PENDING_FRAMES_PER_CID`.

### SplitterConnProofs

Assumptions: `SizeAssumption`, `ChannelAssumption`.

* `TypeCorrect`, with `Shape` and `Opening`.
* `FinCovers` (`FinCoversUpload`), with `Upload`: tunnels have taken exactly the
  frames below `seq`, and nothing is sent after the FIN.
* `PeerIsTold` (`PeerTold`), with `Told`.
* `ClientSeesPrefix` (`ClientPrefix`), with `Stream`: as for the target above.
  Several handlers may have chunks to write, but the reorder lock makes their
  runs follow one another.
* `CleanEndIsWhole` (`CleanEndIsComplete`), with `Farewell`: a handler leaves
  the close wait in good order only with the whole response pushed, once its
  entry is gone nobody works on the connection, and a writer that ends without a
  failed write (`Ending`) has found its channel closed and empty. `Stream` rests on
  `Farewell`: what is in the channel when the writer ends is dropped with it.

### ClientSlotsProofs

Assumptions: `ClientsAssumption`, `IdsAssumption`, `LimitAssumption`.

* `TypeCorrect`, with `Types` and `Loop`: `half_open` is the number of handshakes
  in flight, so its decrement never wraps.
* `LiveStaysEntered` (`LiveIsEntered`), with `Table` and `Owned`: as long as two
  handlers have not drawn one id at once, an id that was drawn is free, and a
  handler that is sending its SYN keeps others away from its id by its entry or
  its tombstone.
* `NoIdIsStale` (`NoStaleId`), with `Fresh`: an id with old frames in flight, and
  the id of a handler that has lost its entry, is in TIME_WAIT, and no handler
  past the look at TIME_WAIT holds it.

### AlgorithmProofs

Assumptions: `WidthAssumption`, `CodecAssumption` (what is sent are frames whose
payload fits), `AddressAssumption`, `GridAssumption`, `PortsAssumption`,
`AlgorithmsAssumption` (the inputs asked about are bytes, ports, days and rates).
The theorems about `MCAlgorithms` are `Questions => []I`: they cover every set of
inputs, and so every input of the functions.

*Recursive functions.* The library's theorems on recursion take operators as
parameters and cannot be used. `UpTo` replaces induction: if a step leads from
each number to the next, a counterexample would have a least one. `RecursionExists`
and `RecursionUnique` follow from it for functions given by a first value and a
step, and every recursive definition below is brought into that form once.

* `CodecInvariant`, `StreamIsFaithful` (`StreamFaithful`), `EndingIsHonest`
  (`EndIsHonest`) and `LimitIsNeverHit` (the status is never `"overflow"`), with
  `CodecInv`. That `got` is a prefix of `sent` is not inductive: it has to be known
  what the bytes not yet decoded are. `Continues` says that they go on with the
  encoding of `sent` where the decoded frames end, `Accounted` that no byte is
  missing but the ones cut off. A big-endian field reads as the
  number that was written (`BytesOfNumber`), so the first frame of the buffer is the next frame sent, with its
  length. A buffer at the limit holds more than the largest frame, so `HasFrame`
  holds and the limit is not reached for want of decoding.
* `TargetsIntact` (`TargetIntact`): each decoder undoes its encoder, whatever
  follows in the buffer; what the encoder refuses does not fit its length field.
  These are three round trips; that one side hands the target of one on to the
  next is not composed.
* `PortsAreUsable` (`PortsUsable`), with `Distinct`, the invariant of the loop of
  `Dedup`: after each entry the result holds every port seen, once, in the order of
  its first mention.
* `LogsAreKept` (`LogsKept`). `days_to_civil` is a chain of divisions;
  each quotient is bounded by multiples (`EraNext` and the lemmas before it), which
  gives the successor of every date and, by `CivilOrder`, that dates are ordered
  like days. With it the purge, which compares dates, is a purge by age, and
  `LogStates` is an invariant of any sequence of writes and restarts.
* `SharesAreProportional` (`ProportionalShare`). The anchors that fall to a link
  are those between two running sums. `AnchorsBetween` counts them by rounding up,
  so a link of weight `u` out of `s` gets its share `u * WEIGHT_GRID / s` to less
  than one pick (`Share`); `CrossBound` compares two of them.
* `NobodyIsStarved` (`NeverStarved`). `FloorBound` bounds the sum of all weights by
  any single one: the flooring and the raise to the mean add at most as much again,
  or one floor for each link if there are more links than shares of the floor. The
  reassembler admits 64 links, so the property covers that case too: the guaranteed
  share is then one of `FLOOR + n`.

`AnswersRight` connects the two halves: an answer of the specification is the value
of the operator for a question of the instance (`Answers`).

### What the proofs found

* `ClientSlots`: the exception `overstayed` of `NoStaleId` was idle; the model
  let a handler that had lost its entry stop sending at that moment. `Tombstone`
  now marks its id stale.
* `SynHandshake`: `USIZE = MAX_PENDING_BYTES + 1` and a frame cap of 0 had been
  allowed by the assumptions; `FramesArrive` had been stated as if for any number
  of SYNs.
* `TunnelLink`: the assumptions did not keep RST frames apart from the others.
* `FrameCodec` and `MCAlgorithms`: nothing had said that a frame's fields fit their
  widths, or that a byte can hold the kind of an address; both are assumptions now.
* `WeightedPick`: `NeverStarved` had claimed half the floor's share for any number
  of links. With more than 40 that is more than there is to share out; it now states
  what is left with more links than 20.

### Only model-checked

* Liveness (`Teardown`, `SenderProgress`, `EofHappens`, `NoTaskLeak`,
  `HandshakeEnds`, `HandlerEnds`, `SlotWakeup`, `AllDecoded`): the prover has no
  rules for fairness.
* The formulas of section 3 that the code violates.

Every invariant and every safety property of a passing run is the statement of a
theorem.

## 5. Not modelled

See the components of `PROJECT.json`. In short: the dialogues of the SOCKS5
handshakes and the UDP relay loops (straight-line socket I/O; the formats and the
life of the associations are modelled), the pinning of a UDP client's address,
`validate` of the configuration (comparisons of single fields), the measurement
of the rates, statistics, backoff delays, the reassembler's TTL sweeps of `closed`
and `handshaking`, partial writes of the log, the entry point.

## 6. Plan

Done: all modules of section 2 and the proofs of section 4, which cover every
safety property that a passing run checks.

Next, in this order:

1. `Stream`: splitter connection, two links and reassembler connection composed;
   shown to implement an abstract byte pipe that may break but not corrupt
   (`OrderedStream` in each direction).
2. Pending entries of several cids with `MAX_PENDING_CIDS`, the choice of the
   oldest, and the TTL sweeps against conn_id reuse.
3. The UDP relay loops and the pinning of the client's address.
