# Verification of gofast

TLA+ models of [gofast](../src), a Go library that multiplexes posts, requests
and bidirectional streams between two peers over one connection. The modules
here are translated from the Go sources; TLC checks them on small instances
and TLAPS proves what can be proved for every instance.

## The system

| Component | State | Operations | Module |
|---|---|---|---|
| Exchange core (`stream.go`, `go_syncrx.go`, `transport.go`) | `pStrms` (free local streams, one per opaque), `rxcallb` of a stream, `livestreams`, `rxch` | `Post`, `Request`, `Stream`, methods of `Stream`, `syncRx`, `doRx`, `flushrxch` | `Exchange`, `Shutdown` |
| Transmit path (`tx.go`, `go_tx.go`, `go_flush.go`, `go_heartbeat.go`) | `pTxcmd`, `txproto` objects, `txch`, `batch`, `killch` | `tx`, `txasync`, `doTx`, `FlushPeriod` | `TxPath` |
| Registry (`transport.go`) | the map behind `transports`, `killch` and connection of each transport | `NewTransport`, `Close`, `Stats`, `listtransports` | `Registry`, `AtomicRegistry` |
| Framing (`tx.go`, `go_rx.go`, `cbor.go`) | the byte stream | `post` ... `finish`, `framepkt`, `unframepkt` | `Frame` |
| Handshake, built-in messages (`transport.go`, `msg*.go`) | `xchngok`, `peerver`, `tagenc` | `Handshake`, `Whoami`, `Ping`, `SendHeartbeat`, `msghandler` | `Handshake` |
| Data pool (`transport.go`, `go_rx.go`, `go_syncrx.go`) | `pData`, `doRx()`'s packet, data lent to handlers | `getdata`, `putdata`, `unmessage` | `Receive` |
| Benchmark `perf/`, program `example/` | `doch` channels, stream objects of the client, counters of `Stat()` | feeder, `worker`, handlers of the server, `addCounts` | `Perf` |
| Tags, settings, versions, HTTP, logging | | | not modelled |

An application routine takes a *stream* (and its opaque number) from
`pStrms`, tells its own `syncRx()` about it through `rxch`, frames a message
and hands it to `doTx()` as a pooled `txproto` object through `txch`. `doTx()`
batches objects and writes them with one `Write()`. At the other end `doRx()`
cuts frames out of the byte stream and puts packets into `rxch`; `syncRx()`
looks the opaque up in `livestreams` and calls a stream's callback or the
handler of the message. `Close()` closes `killch`, on which every routine
selects, takes the transport off the global map, and closes the connection.

What is hard here: application routines, `syncRx()`, `doRx()` and `doTx()` of
both ends interleave; a request and its response are the *same* frame and
opaques are reused at once, so the receiver depends on the order of updates,
packets and finishes; `txproto` objects are shared through pointers; writes
fail halfway; `Close()` comes at any moment and from several routines.
`PROJECT.json` lists these hazards at their lines.

What makes each component correct:

* Exchange core: packets reach the exchange they were sent for; a stream
  object has one user at a time; every request returns; nothing leaks.
* Transmit path: objects have one owner; packets are written once and in
  order; success means written; callers are not left waiting.
* Registry: no update of the map is lost; each transport is deleted once;
  names become free.
* Framing: writer and reader agree on where a frame ends.
* Handshake: both ends learn the other's version and tags before it returns,
  and what one sends the other can decode.
* Shutdown: what waits is told, `doRx()` and `syncRx()` end, the process survives.
* Data pool: a message keeps its bytes until its handler has returned.
* Programs: closing the transport at the end loses nothing, and the counters
  that are reported are those of the work done.

## The modules

**`Exchange`** has two ends, `PeerA` and `PeerB`, with disjoint or overlapping
opaques (`OpaqueOf`). `cs[c]` is the program counter of an application routine
inside `Post()`, `Request()` or `Stream()`; the steps are where the code can be
interrupted between two pieces of shared state (`getlocalstream` and its
`putch`, the transmission, the wait on `donech`, the deferred `putstream`).
`doTx()` and the socket are one FIFO `wire[p]`; `TxPath` justifies that for an
open transport. `pStrms` is a bag, since which free stream a routine gets does
not matter. The field `x` of a packet and of a callback is a history component
naming the exchange; `handlepkt()` never looks at it. Two constants say how the
application behaves: `DeferredClose` (the initiator answers the remote's finish
after its callback has returned, instead of inside it) and `NilCallback`. Every
stream is closed by both sides once, as `docs/gettingstarted.md` demands.

**`TxPath`** has one transport. `txproto[a]` are the fields of object `a`;
`txch` and `batch` hold pointers, and `Write` and `Unblock` read the fields at
that time. `Begin` is a call, of a kind that `KindOf[c]` allows; `Ticker` is the
routine of `FlushPeriod()`, and `ticking` says whether it still runs: it may never
have been called, and it ends at the first call that fails or once it has seen
`killch`. A failed write may have written a prefix of the batch, and the connection
stays failed: `doTx()` goes on all the same. `Stop` and `Receive` compete as the
cases of one `select`. After `Close()` two calls may have one object: `Listens(c)`
says on which channels of results a call may then be waiting, and `Hang` that
`doTx()` blocks on one that nobody reads or that is nil.

**`Registry`** models the pointer `transports` as a version number and a map.
A routine's load remembers both; its swap succeeds when the version is still
the same. Since a loaded map never changes, looking the name up in it is part
of the load. **`AtomicRegistry`** is the specification that it implements.

**`Frame`** counts bytes: `framelen` is what the writer puts on the connection,
and `ReadPrefix` and `ReadBody` are the two reads of `unframepkt()`, including
the slice that panics when the counts are wrong. Tag encoders are left out.

**`Receive`** extends `Frame` with what happens to the message of a frame:
`unmessage()` copies its data out of `doRx()`'s only packet into a block from
`getdata()`, the packet goes through `rxch`, and `syncRx()` lends the data to a
handler and puts it back. `mem[b]` says how large block `b` is and which frame
it holds; a block that nobody refers to is what `make()` returns. A handler is
two steps, its call and its return, and does not keep the data.

**`Shutdown`** is one end whose transport is closed by the application, by
`doRx()` when the connection breaks, or by `syncRx()` when it panics, at any
moment of the calls of two routines. `remote` is what the other end will answer, and `rxpkt` the
packet that `doRx()` has read and that waits for room in `rxch`, also when the
connection is gone by then. A `select` with `killch` may take either
case, so calls go on after it is closed. The deferred function of `syncRx()` is
taken apart: for each live stream the test of `rxcallb` and the call are two
steps, since `Request()` clears it meanwhile, and then `flushrxch()`. `Ping`
stands for every `Request()` whose response message cannot decode an empty
message. A transmission is one step with the outcomes that `TxPath` gives it.
`early` and `failed` are history: calls that `syncRx()` was told of before
`killch` was closed, and streams whose transmission failed.

**`Perf`** composes the parts into the two programs of `perf/`: the feeder
and the routines of a client, its stream objects, the handlers of the server
with the routines they spawn, and the counters of `Stat()` at both ends, which
`syncRx()` increments after the callback (`counting`). `options.prog` selects
the client of `example/`, which has fewer stream objects and knows posts only.
Steps that `Exchange` shows to be in order (telling `syncRx()` before sending)
are one step here, and the wires are FIFO.

**`Handshake`** follows `Handshake()` of both ends from the start of `syncRx()`
to the end of its polling loop. `version[p]` is the object that `t.version`
points to, and `peerver[p]` says whether it points to that same object, because
`Whoami()` decodes the answer into it. `tagenc` grows tag by tag; a message framed
while it does may end the process (`MapRace`), as concurrent use of a Go map is
undefined. After its handshake the application calls `Whoami()` and `Ping()`;
heartbeats may come before it, as in `docs/gettingstarted.md`. Which tags are
applied to a packet is a set: neither their order nor encoders that skip a packet
matter to the properties.

Modules named `MC...` give values to the constants; `...Proofs` hold theorems.
Operators whose comment begins with "Mutant of" are faulty variants of the
definition that follows them. With one put in its place, the property named
beside it in `PROJECT.json` must fail.

## The runs

| Run | Shows |
|---|---|
| `exchange_safe` | `RoutedRight`, `PoolExclusive`, `QuiescentClean` with two routines at one end, one at the other, one stream at each end, 3 exchanges and 1 stream message. One stream per end forces the reuse of opaques; three exchanges allow a stream, its successor, and traffic the other way. `rxch` holds 2 items, so that it is full in many states. |
| `exchange_live` | `RequestsReturn` and `StreamsComeBack` under fairness, with `RoutedRight` and `PoolExclusive`, when one end opens its streams with a nil callback: they stay out of `livestreams`, and the others are not disturbed. |
| `exchange_deferred_close` | Violation of `RoutedRight`: see Findings. |
| `tx_open` | `OneOwner`, `InOrder`, `AckedOnWire` with two routines, which wait for their calls or not, and the flusher, whose ticks are not bounded; a batch of 2, three objects (which are all reused), failing writes. Whether `FlushPeriod()` was called is open. `FlushedReturn`: a call that asks for a flush needs no flusher. `WaitersReturn`: the others need it, and may wait when there is none, or none any more since a write has failed. |
| `tx_close` | `LostOnlyAsync` and `WaitersReturn` with `Close()` at any moment. Two routines and the flusher contend for two objects: one that is still queued is pooled by a call that saw `killch`, taken again by a `Post()`, and recycled twice. The call that then finds the pool full blocks for ever (`Jammed`), which `WaitersReturn` admits; without that case the run fails. |
| `registry_safe` | `RegistryInv`, `UnlistedWhenClosed`, `NameFreed` and the refinement of `AtomicRegistry` with four transports of two names, one with settings that are rejected, and two closers, enough for a failed swap of each kind. |
| `frame_sync` | `InSync`, `FrameInv`, `DataIntact`, `BlocksApart` and `EveryFrameHandled` for lengths on both sides of each header size (`FrameInv` is the inductive form of `InSync`: it adds the counts between the two reads). Two frames, a `rxch` of 1 and a pool of 1: the second frame is read while the first is queued or handled, and a pooled block is too small for it or large enough. |
| `handshake` | `Decodable`, `Acquainted`, `HandshakesReturn` with two tags at one end, one at the other (which does not know the second), two calls and one heartbeat of each end after or during the handshake. |
| `handshake_version` | Violation of `PeerVersionRight`: see Findings. |
| `shutdown` | `LeakOnlyByFailure`, `ToldOfClose`, `AllStop` with two routines that make one call each (ping or stream, request or post), two streams, a `rxch` of 1, so that callers also wait in `putch()` when `killch` is closed. Both routines may be at any point of a call; more calls only repeat that. |
| `shutdown_crash` | Violation of `NoCrash`: see Findings. |
| `perf` | `CloseLosesNothing`, `ReportHonest`, `ClientFinishes`, `AllStreamed` for the option sets of `MCPerf`: routines that share the work unevenly or have none, a routine that opens five streams with four objects, heartbeats between posts, also ones that use the opaque of a stream which the server still has (`streamrx` with heartbeats), and the example. |

Deadlock is not checked: when the bounds on calls and exchanges are used up the
applications simply stop calling.

**Fairness.** Go runs every routine that can run, so steps of `doRx()`,
`syncRx()`, `doTx()` and of a call that has begun are weakly fair. Routines
blocked on one Go channel are served in order of arrival, hence strong fairness
of a call in `TxPath`, which is at one channel operation at a time. In `Exchange` the applications
answer requests and close streams, as the documentation demands. The flusher
ticks until it ends. In `Handshake` both processes run until one is ended by the runtime; the
polling loop sees `xchngok` sooner or later. In `Shutdown` the routines of the
transport, the `Close()` that they spawn and the calls under way proceed, and
`doRx()` puts what it has read; the remote need not answer. In `Receive` handlers return. In `Perf` all routines of
both programs run, and what is sent arrives: `-batchsize` is 1 by default, and a
larger batch is flushed by the heartbeat of every second, which is otherwise
optional. Nobody has to begin a call.

## Findings

* The stream of an initiator is pooled when the remote's finish arrives, before
  the initiator has closed its own side; its opaque is then reused while the
  remote still has the old stream. Closing *within* the callback is safe
  (`exchange_safe`), closing later is not (`exchange_deferred_close`).
* Closing a transport while a `Ping()` or `Whoami()` waits ends the process:
  `syncRx()` calls its callback with an empty message inside a deferred function,
  `Decode()` panics, and nothing recovers that (`shutdown_crash`).
* `Whoami()` overwrites the transport's own version with the remote's, so that an
  end may be told its own version as that of its peer (`handshake_version`). The
  tests use the same version everywhere.

Also noticed while modelling, without a run:

* `Handshake()` writes `tagenc` while heartbeats or answers to the remote iterate
  over it in `framepkt()`; the Go runtime ends a process that does so (`MapRace`
  in `Handshake`). `docs/gettingstarted.md:83` starts heartbeats before it.
* A call that overlaps with `Close()` may be answered with the result of another
  packet: `tx()` pools its object when it sees `killch` while `doTx()` still has
  it, and `AckedOnWire` holds only while the transport is open.
* The same early return puts an object into the pool twice when a `txasync()` call
  takes it meanwhile. The pool has room for each object once, so that a later
  call blocks for ever in its deferred function (`tx.go:117`), or `doTx()` at
  `go_tx.go:47`; taken again by a `tx()` call, the object may have no channel yet,
  or one that nobody reads any more, and `doTx()` blocks at `go_tx.go:49` (`Hang`).
  All this takes a `Close()` that overlaps with calls.
* `FlushPeriod()` ends silently at the first write that fails, while `doTx()` and
  the transport stay as they are until somebody closes them.
* An update that is put into `rxch` after `flushrxch()`, by a call that did not
  see `killch`, is seen by nobody; when its `tx()` still succeeds, the `Request()`
  waits for ever. `ToldOfClose` is about calls that were earlier.
* A caller whose `putch()` chose `killch` transmits all the same; the answer then
  finds no live stream and is dispatched as a request.
* The data of a message is reused when its handler has returned, but the example
  of `docs/gettingstarted.md:183` hands it to a routine of its own. Likewise the
  stream of a request is reused once `Response()` was called.
* `unmessage()` refuses messages of id 0. The length of a ping wraps at 65536,
  that of the name in a whoami at 256.
* Two ends with the same opaque range (nil settings on both) would mistake each
  other's packets; `RoutedRight` is checked for disjoint ranges only.
* A stream opened with a nil callback is never entered into `livestreams` and so
  never released; `exchange_live` checks that others are not disturbed.
* After `Close()` of a stream, messages in flight still reach its callback.
* `Transport.Stream()` ignores its flush argument: in `TxPath` it is a call
  without flush, and only the flusher or other traffic lets it return.
* `doTx()` may write once more after `killch` is closed, and a second `Close()`
  returns before the first has closed the connection.
* A `NewTransport()` that fails on its settings keeps its name in the map.
* Tags "shall be applied in the specified order" (`transport.go:223`), but
  `framepkt()` ranges over a map.
* The range 1000..10000 of `docs/gettingstarted.md` gives 8998 streams and not
  9000, since `istagok()` skips 1001 to 1003. The servers of `perf/` and
  `example/` start at 1000 too: with one routine they have a single stream.
* "n_txfin ... should always match n_txstart plus active streams"
  (`transport.go:375`) is the wrong way round, and each end also counts the
  finishes of streams that the other started.
* `perf -do streamrx`, which `client.sh` lists, never ends: `doStreamRx()` waits on
  a `donech` that only `verify` closes. In `verify` it is not closed either when
  the server sends fewer messages than `closeat`.
* In `perf -do streamrx` the client never closes its side, so that the server keeps
  the stream when the client already uses its opaque again: a heartbeat or start
  with it is dropped, a request is counted as a response (`handleDuplicate`).
  `AllStreamed` has heartbeats with one routine only: with two routines and enough
  heartbeats the opaques go round, a start is dropped, and it does not hold.
* `perf` reports counters that `syncRx()` may not have incremented yet for the last
  packet (`Settled` in `ReportHonest`); it appends to `transs` from several routines
  when `-conns` is above 1; `-count` is per connection and not "per routine".
* Both programs compute `flushtick` before the flags are parsed and multiply it
  by a millisecond twice, so that `FlushPeriod()` is about 2.8 hours; the
  heartbeats of every second are what flushes a batch that is not full.

## The proofs

* `RegistryProofs`: `RegistryCorrect`, `NeverListedClosed`, `Refinement`.
  `MapExact` alone is not inductive. `RegistryInv` adds that a snapshot of the
  current version is the current map (so a successful swap changes the current
  map), that a name was free in the snapshot of an `addtransport()` about to
  swap, and that exactly one routine is deleting a killed transport that is
  still in the map. From it follows that `deltransport()` always finds the name
  and deletes its own transport, never a later one of the same name. The
  refinement maps the map to itself and the history to a status per transport;
  only a load that refuses and the two swaps are visible steps.
* `ExchangeProofs`: `TypeCorrect`, `TypeOK` being inductive by itself; and `Routed`
  (`RoutedRight`), `Exclusive` (`PoolExclusive`) and `Clean` (`QuiescentClean`), for any
  routines, opaques, numbers of exchanges and messages and any `chansize`. They
  have two hypotheses: no opaque is configured on both ends (`Disjoint`, as in the
  tests, `perf/` and `example/`), and `~DeferredClose`, without which
  `exchange_deferred_close` refutes them. `NilCallback` is arbitrary. The invariant
  `XInv` is about one opaque at a time. `View(p, o)` collects what there is of stream
  `o` of end `p` anywhere: pool, callback, `livestreams` of both ends, the application
  that serves it, the routine that holds it, and, as one sequence each way, its
  items in `rxch` and `wire`. The stream is `Free`, `Held` by a routine at one of five
  places, `Returning` through `rxch`, or `Left` open by an initiator that has closed its
  side. Two parts carry the argument. `Chain` says that the packets towards the
  remote, in their order, find the remote stream that they need: a start none, a
  message its own, and a finish leaves none, so that the opaque can be used again
  although packets of its last use are still under way. `Owed` says that of what the
  remote owes an exchange exactly one thing exists: the packet that opens it, the
  application that serves it, or the packet that ends it, which is the last one of
  the exchange. Hence at most one finish or response pools the stream, and it
  comes after everything else. The update of `getlocalstream()` is ahead of every
  answer in `rxch` (`InOK`). The lemmas called `...Good` say what a kind of step does to
  a view, those called `...Streams` that an action is such a step on one view and
  leaves the others alone. TLC checked `XInv` on instances like those of
  `exchange_safe` and `exchange_live` before it was proved.
* `SequenceLemmas` holds what the proofs of `TxPath`, `Exchange` and `Perf` share:
  what `FlattenSeq()` makes of a sequence that grows or loses its head, the packets
  of a wire that are of one kind (`Keep`), and an induction along an interval with
  a set in the place of the predicate.
* `HandshakeProofs`: `AlwaysDecodable` and `TypeCorrect`, from `TagInv`: what an end
  has learnt or is about to learn are tags of the other's settings, and every
  whoami under way describes its sender. `AlwaysAcquainted` needs what `Acquainted`
  does not speak of, the way to a handshake that has returned (`AcqInv`): the tags
  of the remote are learnt or still in `todo` at each point of `Handshake()`
  (`Learns`); answers carry the tags of their sender, and a whoami or ping says
  how far its sender is (`Tells`); and whoever has answered a whoami, counted in
  `xchngok` or about to be, was asked by a remote that waits for that very answer
  or has it (`Greeted`).
* `TxPathProofs`: `TypeCorrect`, `SingleOwner` (`OneOwner`), `NoSyncObjectLost`
  (`LostOnlyAsync`), `WireInOrder` (`InOrder`) and `AckMeansWritten`, for any number
  of routines, objects, calls, and any batch and channel size. `OneOwner` counts the
  places of an object; the inductive form says for each pair of places why they
  do not share one. `InOrder` compares what is on the connection with what was
  accepted, through the batch and `txch`, whose packets are read out of the objects
  they point to: it rests on `SingleOwner`, since an object with two owners could
  change after it was queued. That `doTx()` finds its caller while the transport is
  open is the lemma `NoHang`. A failed write leaves a prefix. `AckMeansWritten` is
  `AckedOnWire` while the transport is open; after `Close()` it does not hold
  (Findings). The packets of a queue of objects are
  concatenated by `FlattenSeq()` (`SequenceLemmas`).
* `ReceiveProofs`, about `Frame` and `Receive`: `AlwaysFrameInv` and, from it,
  `AlwaysInSync`. The lemmas say that a packet has at least 4 bytes (so 9 bytes
  never reach past the frame, and `n <= ln`) and that both reads together take
  `framelen`. Assumed: opaques are at least 266, the reader's buffer is not smaller
  than the writer's, lengths are below 4GB (`Frame` has no 9 byte header for a
  length). Then `ReceiveIsFrame`, by which `FrameInv` and `InSync` hold of `Receive` too,
  `AlwaysBlocksApart` and `AlwaysDataIntact`. The properties speak of the *set*
  of packets in flight, in which two equal packets would be one; the invariant
  `RecvInv` puts handler, `rxch` and `doRx()` into one queue and keeps the blocks at its
  *positions* apart, from each other and from the pool, each holding the frame of
  its packet. That `getdata()` finds a block which nobody refers to is a pigeonhole
  argument: there are more blocks than the pool, the channel and the two routines
  can refer to.
* `ShutdownProofs`: `TypeCorrect`, and `LeakOnlyOnFailure` (`LeakOnlyByFailure`). While the
  transport is open a stream object is in exactly one place (`Places`): with the
  routine that took it, in the pool (`Free`), behind an update that will pool it
  (`Returning`), or `Lost`, its callback set and its `tx()` failed. `Stage` says, for each
  point of a call, what `livestreams`, `rxch`, the remote and the callback know of the
  stream: registered or about to be, once; and at most one answer, of the right
  kind, owed by the remote or queued. That is why an answer can neither pool a
  stream twice nor release the stream of another call. `Numbered` keeps callbacks of
  earlier calls apart from later ones. The owner of a finished stream that has not
  noticed yet holds nothing: its stream may be with the next caller.
* `PerfProofs`: `TypeCorrect`, `ClosesClean` (`CloseLosesNothing`) and `Honest`
  (`ReportHonest`), for either program and any number of operations, routines,
  messages to stream and heartbeats. That a stream object is in `pStrms` once at
  most is part of `TypeOK` and needs the whole life of the object: `View(o)` collects
  what there is of stream `o` on both wires, in `livestreams` of both ends, with a
  routine and with a sender of the server, and `Streams` says that it is in one of
  five stages, `Free`, `Asked` (a request), `Back` (in `rxch`), `Streamed` (by the client) or
  `Received` (from the server). With `-do streamrx` a stage admits that the server still
  has the stream of an opaque that is used again; without it the stages say what
  each packet finds when it is handled (`ServerFinds`, `ClientFinds`). `ClosesClean` rests
  on `Cover`, which is why a `Whoami()` per routine is enough to close: each packet
  under way is ahead of a `Whoami()` that is not answered, or some routine has not
  yet sent its own; FIFO wires and the answer in the same `syncRx()` step do the
  rest. `Posted` says the same of posts, which take no stream: none meets a stream
  of its opaque. `Honest` adds the counting. `Issued`: what the client has counted as
  sent and what is still to be done (operations in the channels, routines about
  to send, messages left to stream) is what the feeder has put in. `Delivered`:
  what an end has counted as received, and what of that type is on its way, is
  what the other has counted as sent; and each request and each finish is
  answered once. `Total` sums over the routines; a step changes the part of one
  routine (`Keeps`). TLC checked the conjuncts on the option sets of the run `perf`
  before they were proved.

Assumed throughout are the `ASSUME`s of the modules, which say of what kind the
constants are and which TLC evaluates in every run. The few that restrict them are
those of `Frame` above, a pool of `txproto` objects larger than a batch in `TxPath`
(as the transport makes it), and in `Handshake` that an end knows its own tags.

Only model-checked: liveness (`RequestsReturn`, `StreamsComeBack`,
`FlushedReturn`, `WaitersReturn`, `NameFreed`, `EveryFrameHandled`,
`HandshakesReturn`, `ToldOfClose`, `AllStop`, `ClientFinishes`, `AllStreamed`),
which needs fairness and is out of the prover's reach, as are `ENABLED` and what a
recursive definition computes, which no theorem here needs. Every invariant and
every action property of a passing run is stated by a theorem.

## Plan

Done: `Exchange`, `TxPath`, `Registry` with `AtomicRegistry`, `Frame`, `Receive`,
`Handshake`, `Shutdown`, `Perf`, and the proofs above. Left, in this order:

1. `Backpressure`: bounded sockets and handlers that block inside `syncRx()`.
2. `Link`, an abstract FIFO that `TxPath` implements while it is open and that
   takes the place of `wire` in `Exchange`.

## Not modelled

* Tag encoders: calls into compression libraries, without protocol state.
* Settings, constants, interfaces, `Version64`: values and declarations.
* HTTP endpoints and logging: formatting of what `Registry` and `Stat()` return.
* The mode `verify` of `perf/`: random choices that its sleeps of a second are
  meant to keep apart; without them its streams are closed twice.
* The contents of messages, of the programs and built in, beyond what the
  properties tell apart.
* Backpressure between two ends whose handlers block in `syncRx()`.
