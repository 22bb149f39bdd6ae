# frisbee-go in TLA+

A specification of the connections, streams, client and server of
`loopholelabs/frisbee-go`, checked with TLC on small instances and, for the
properties that matter most, proved with TLAPS for every value of the constants.
The source under `src/` is the reference: every definition that models code names its
lines in `PROJECT.json` (`map`), and the comments quote the source where a property
depends on a particular line.

## The system

frisbee-go is a framed messaging library over a `net.Conn`. A packet is a header of ten
bytes (magic number, id, operation, content length) and a content.

* **Async** (`async.go`) is a connection with three goroutines of its own. `readLoop` cuts
  the byte stream into packets, answers PING, gives STREAM packets to streams and pushes
  the rest to a queue that `ReadPacket` pops. `flushLoop` flushes a `bufio.Writer` when a
  token in `flushCh` wakes it. `pingLoop` sends heartbeats. Any of them, and any user, may
  close the connection; one of them wins a compare-and-swap and tears it down.
* **Stream** (`stream.go`) multiplexes packets with the operation STREAM by id; an empty
  packet closes a stream.
* **Sync** (`sync.go`) is a connection without goroutines: calls read and write directly.
* **Client** (`client.go`, `internal/dialer`) dials with retries and runs handlers for the
  packets of one Async, in a goroutine `handleConn`.
* **Server** (`server.go`) accepts connections, serves each in a goroutine `serveConn` with
  one, a bounded or an unbounded number of handler goroutines, and shuts down.
* **metadata**, **packet** (`pkg/`) encode headers and pool packets.

## Modules

| Part | Specification | Properties | Instance | Proofs |
|---|---|---|---|---|
| Async and streams | `AsyncConn` | `AsyncConnProps`, `AsyncConnQueues`, `PacketQueue` | `MCAsyncConn` | `AsyncConnInv`, `AsyncConnSteps`, `AsyncConnData`, `AsyncConnTheorems` |
| Framing in `readLoop` | `FrameReader` | `FrameReaderProps` | `MCFrameReader` | `FrameReaderProofs` |
| Sync | `SyncConn` | `SyncConnProps` | `MCSyncConn` | `SyncConnProofs` |
| Client and dialer | `Client` | `ClientProps` | `MCClient` | `ClientProofs` |
| Server | `Server` | `ServerProps` | `MCServer` | `ServerProofs` |
| Packet pool | `PacketPool` | in the module | `MCPacketPool` | `PacketPoolProofs` |
| Header codec | `Metadata` | in the module | `MCSyncConn` | `SyncConnProofs` |

How to read them: `pc[p]` is the next critical section, atomic load or blocking call of
goroutine `p`, and an action is that section with everything it changes. Mutexes are
variables that name their holder; a critical section that contains no other scheduling
point is one action and needs no lock variable. A definition whose comment begins with
"Mutant of" is a deliberately wrong version of the definition after it; no
specification uses it, and replacing the definition by it makes a named property fail.

**AsyncConn.** `WriteLock`, `WriteMeta`, `WriteBody`, `WriteSend`, `WriteError` are
`writePacket`; `Flush` and `FlushLoopRecv` are `flush` and `flushLoop`; `CloseWithError`,
`CloseStale`, `CloseSwap`, `CloseShut`, `ClosePast`, `CloseWait`, `CloseStreams`,
`CloseFlush`, `CloseFin` are `closeWithError` and `close` in the order of the code, with
the locks each part holds; `ReadArm`, `ReadConn`, `ReadNext` and the `Stream*` actions
after them are `readLoop`. Users call the methods their role allows, in any order. The
`bufio.Writer` (sticky error, spills when full), the `net.Conn` and the queue
`queue.Circular` are external and modelled from their use.

**FrameReader** is the buffer arithmetic of `readLoop` alone: `buf`, `index`, `n`, the
four Read loops, the growth of `buf`. A byte is its position in the stream, so
the model sees exactly which byte ends up where. It justifies that `ReadConn` of AsyncConn
hands whole packets over.

**PacketQueue** is the abstract specification of `ReadPacket`: a FIFO queue, sealed once,
that reports its end only when it is empty. AsyncConn implements it although `close`
moves the packets from `c.incoming` to `c.stale` under the readers; so does each stream.
`AsyncConnQueues` has the two refinement mappings.

**Client** and **Server** see Async through what they use of it (packets arrive,
`ReadPacket` drains a closed connection before it fails, `Close` returns, `Raw` keeps the
`net.Conn`). AsyncConn checks the first two; that `Close` returns is where the two levels
meet and is only true without the deadlock described below.

**PacketPool** follows packet objects through `Get`, `readLoop`, the queue, handlers, and
`Put`. The handlers of `createHandler`, `handleSinglePacket` and `Client.handleConn` treat
packets alike and are one kind of worker.

**Metadata** is `Encode` and `Decode` as operators on a buffer that is used again, with
big-endian digits in base `Radix`. `RoundTrip` says that the one inverts the other.
`WritePacket` and `ReadPacket` of Sync inline the two, so `MCSyncConn` brings the module
along and TLC evaluates `RoundTrip` on values at the edges of every field before the run.

## What the runs check

All runs below pass. State counts are distinct states.

| Run | Properties | What it asks |
|---|---|---|
| `MCWrite` (258 k) | NoChannelPanic, PacketsWhole, CloseDelivers, NoLostWakeup, ErrorKnown | Two writers, one also flushing, a closer, failing writes: is a channel used after it is closed, are packets torn, is acknowledged data lost by a close, is flushLoop left asleep, does a failed connection have an error? |
| `MCRead` (378 k) | NoPacketLost, ReadEndsDrained, CloseQuiesces, ReadIsQueue | Two readers, one of which may call `Close`, and a goroutine that calls `Raw`, against readLoop: is a packet lost, duplicated, reordered, is the end reported early, is a loop or deadline left? `ReadIsQueue` is the refinement of PacketQueue. |
| `MCStreams` (335 k) | TypeOK, StreamNoPacketLost, OneCloseFrame, StreamIsQueue | The same for streams opened, used and closed by both sides while the connection closes. |
| `MCLive` (53 k) | CloseTerminates, ReadersReleased, EventuallyFlushed | A goroutine that writes, reads or closes, pings, failing writes, no streams: does every close end, are blocked readers released, does buffered data leave without another call? |
| `MCFrames` (56 k) | FramesExact, Aligned, SlicesInRange, Prompt, AllDecoded | Three packets cut in every way, on a buffer smaller than a packet. |
| `MCSync` (99 k) | SyncPacketsWhole, OneCause, RawKeepsConn, SyncReleased | Two writers, a reader, a goroutine that calls `Close` or `Raw`, a failing network: are packets torn, do callers agree on the cause, does closing release a reader that waits for a silent peer? |
| `MCClient` (162 k) | HandlerStopped, NothingDropped, RawStaysOpen, LossIsNoticed, CloseReturns | Connect or FromConn, Close, Raw, SetStreamHandler, handlers that call `Close`: do handlers stop, are packets dropped, is a lost connection noticed without a call, does `Close` return? |
| `MCServer` (297 k) | TypeOK, NoStraggler, ShutdownStops | Two connections, all three concurrency modes, failing accepts and writes, two callers of Shutdown: is anything that serveConn serves left open or running, does a connection slip past the walk? |
| `MCServerLive` (158 k) | OnClosedOnce, HandlersJoined, ConcurrencyBounded, ServedToTheEnd, ShutdownReturnsOrLeaks | Three packets handled at the same time on one connection, two callers of Shutdown: is the end reported once, are handlers bounded and joined, is every connection served to its end, does Shutdown return? |
| `MCPool` (92 k) | OneOwner, PacketIntact | Two handlers, readLoop and a closing stream share four packets. |

Deadlock checking is off: calls are bounded, and a connection, a client or a server may
come to rest.

### Where the code and its documentation disagree

Two runs check a statement of a comment, and TLC finds a behaviour of the code that
contradicts it.

| Run | Property | Behaviour |
|---|---|---|
| `MCCloseHangs` | CloseTerminates | `close` holds `streamsMu` during `wg.Wait`; readLoop takes `streamsMu` for a STREAM packet. Neither goes on (async.go:399, 408, 566). |
| `MCShutdownHangs` | ShutdownReturns | A serveConn that finds the server shut down returns with `connectionsMu` locked, and Shutdown waits for the mutex (server.go:433). |

The passing runs state what holds in spite of them: `MCLive` has no stream packets, and
`ShutdownReturnsOrLeaks` and `ServedToTheEnd` except the locked mutex (`Leaked`).

The models contain these behaviours as well, because the code does; no property
promises their absence.

* The error of a connection that several goroutines find broken may be the one of a later
  `closeWithError`, joined with ConnectionClosed, instead of the cause that async.go:244
  speaks of (async.go:434). `ErrorKnown` states what is left.
* A stream created by `NewStream` on a closed connection is never closed, and its readers
  stay blocked (async.go:263, stream.go:37).
* readLoop looks a stream up and enters a new one in two critical sections; it replaces a
  stream that `NewStream` entered in between (async.go:567, 630).
* A `Stream.WritePacket` that passed the check of `s.closed` may write after the closing
  packet (stream.go:74, 95).
* A stream closed between lookup and push makes readLoop close the connection with the
  queue's error (async.go:634).
* Calls under way go on using the `net.Conn` that `Sync.Raw` handed out (sync.go:262).
* A caller of Sync may be told ConnectionClosed before the error is stored (sync.go:293).
* `Client.Close` called by a handler waits for the goroutine it runs in (client.go:111);
  `CloseReturns` excepts it (`SelfWait`).
* `NewClient` accepts a handler for operation 9 (client.go:44, frisbee.go:53).
* `SetStreamHandler(nil)` installs a closure that calls nil (client.go:159).
* A connection accepted during Shutdown stays open (server.go:433).

A comment at metadata.go:43 speaks of a header of 8 bytes; `Size` is 10, as its fields are.

## Bounds

* Goroutines: two or three users in the safety runs. The hazards of this code are races
  between pairs (a writer and a closer, two closers, a reader and a closer) with readLoop,
  flushLoop or pingLoop as a third party; the instances have each such combination.
* `MaxOps`, `MaxPings`, `MaxPackets`, `MaxIn`: one to four, so that a second call
  meets what the first left behind and a queue holds more than one packet.
* `MaxStreams` 2 with one id: the second stream takes the id of the first, the only way in
  which stream objects interact.
* `WCap` 1 or 2 chunks: the buffer fills in the middle of a packet.
* `HSize` 2, `BufSize` 4, `MaxBytes` 14, three packets: headers and contents of every
  alignment meet the end of the buffer, and a content is larger than it. `Slack` stands for
  the over-allocation of append.
* `Radix` 16 in `MCSync`: TLC's integers end at 2^31. The proof uses 256.
* `Modes` 0, 1, 2: unlimited, single and limited handlers. `MaxPackets` 3 in
  `MCServerLive` is one more than the tokens, so that a dispatch has to wait for one.
* `Objects` 4 in `MCPool`: each of the four users of the pool can hold one.

Symmetry is used for goroutines of one role, connections and packet objects, in runs
without temporal properties.

## Fairness

* `FairSpec` of AsyncConn: weak fairness of each goroutine. Go runs runnable goroutines,
  mutexes are granted, and Reads end at the latest at their deadline, which readLoop sets
  before each Read. `AliveSpec` drops the last point while the connection is open: the
  peer's heartbeats keep coming, so no timeout can be what flushes the buffer.
* SyncConn: a goroutine that can run does. A reader that waits for the peer is owed
  neither data nor an error, since Sync sets no deadline.
* Client: `handleConn` and users inside a call run, handlers return. Nothing is owed by
  the network or by callers.
* Server: serveConn, handlers and Shutdown run, a closed listener makes Accept fail, a
  sleep ends. Accepting connections, packets and calls of Shutdown are not owed.
* FrameReader: the peer's bytes arrive or a Read fails.

## What is proved

TLAPS checks every theorem and lemma of the modules in the last column above, with no
assumption other than the named ASSUMEs of the specifications: the constants are
of their types, goroutines have distinct names, sizes are natural numbers, a buffer
holds a header and, for the Client, one goroutine at most connects. None of the bounds
above is assumed. Every safety property of the passing runs has a theorem, and so have both
refinements.

**AsyncConnTheorems.** `Spec => []IInv`, and from it TypeOK, NoChannelPanic,
NoLostWakeup, NoPacketLost, ReadEndsDrained, CloseQuiesces, StreamNoPacketLost, and the
refinement `Spec => ReadIsQueue`. The properties are not inductive: that a closing
connection does not panic, for example, depends on who holds which mutex. `IInv`
(AsyncConnInv) adds

* `LockInv`: each mutex is held by exactly the goroutine inside its section;
* `WinnerInv`: one goroutine is past the swap, the channels are closed after it and never
  while a writer holds `mu`;
* `LoopInv`: a loop that has called `wg.Done` is closing or gone, and once `wg.Wait` is
  over (`Quiet`) the queue is drained, while before that `c.stale` is empty;
* `OpInv`, `LabelInv`, `ResInv`: which method a label belongs to, and what the outcome of
  a call says about the connection;
* `StreamInv`, `GoodStreams`: the table, the stream readLoop holds, and the contents of
  each stream.

Two more layers are inductive once `IInv` is known.

* `SentInvariance` is about errors and what is written. `ErrorInv`: `errorMu` belongs to
  the goroutine in `closeWithError`, and `c.error` is its error meanwhile. `WholeInv`: a
  header that announces a content is the last chunk exactly while its writer, still
  under `mu`, is about to write the content. `AckInv`: the chunks of an acknowledged packet
  are in the buffer or on the wire. `FlushedInv`: the final flush of `close` leaves the
  buffer empty. `EndInv`: an empty packet of a stream is sent, or about to be, only by the
  `closeSend` that won the swap of the stream. From these: ErrorKnown, PacketsWhole,
  CloseDelivers, OneCloseFrame.
* `ReaderInvariance` is about the readers of streams (`ReaderInv`): the queue of a closed
  stream has been drained into `s.stale`, only a closed stream is reported closed, and a
  stream that does not exist yet is as `newStream` makes it. With it every step of the
  connection is, for each stream, a step of PacketQueue or a stutter
  (`Spec => StreamIsQueue`).

AsyncConnSteps says once what each kind of step changes and leaves alone (the `Effects`:
writing, flushing, the loops, closing, readLoop, a read, a call), and proves from it the
types, the control part and `ErrorInv`. AsyncConnData does the same for queues, streams and
the chunks written. AsyncConnTheorems combines them. The refinements map `pending` to
`stale \o incoming`, of the connection or of the stream, and each step to `Put`, `Take`,
`Seal`, `ReportEnd`, `Leave` or a stutter.

**FrameReaderProofs.** For every header size, buffer size, number and size of packets:
FramesExact, Aligned, SlicesInRange and Prompt. The inductive invariant says, per label,
which bytes of the stream the part of `buf` between its indexes holds, and how much of the
current content has been copied.

**ServerProofs.** For any number of connections, packets and callers of Shutdown and every
concurrency: TypeOK, OnClosedOnce, HandlersJoined, ConcurrencyBounded, NoStraggler and
ShutdownStops. The inductive invariant `SInv` adds

* `RoleInv`: which labels a goroutine may have, that it is counted by `s.wg` as long as it
  runs, and that nobody is inside Shutdown before `s.shutdown` is set;
* `CloseInv`: whoever is about to report has closed the connection, the one report is the
  swap's, and which handlers may exist at each label of serveConn;
* `TableInv`: a connection that is served and open is in `s.connections`;
* `SlotInv`: packets are taken after they are sent, each by a goroutine of its own;
* `TokenInv`: the tokens of `s.limiter` are as many as the goroutines of handlers, which
  needs facts about the cardinality of finite sets.

An action that may go several ways is split into one operator per way (`Cases` shows that
nothing is left out), and each conjunct of the invariant has a lemma with one step per way.

**SyncConnProofs.** For any number of goroutines and calls: SyncPacketsWhole, OneCause and
RawKeepsConn. The inductive invariant `SyncInv` adds who may hold the mutex, what the last
chunk on the wire announces (a writer that fails unlocks before it closes the connection, so
the next writer must find the network broken), and that one goroutine is past the swap and
the cause it brings is the one stored. The module also has the codec: with `Radix` 256,
`Decode` inverts `Encode` for every header, whatever the buffer held (`Digits16` and
`Digits32` are about base-256 digits).

**ClientProofs.** HandlerStopped, NothingDropped and the action property RawStaysOpen.
`ClientInv` consists of `Starting` (one goroutine starts handleConn, once, and nobody
closes before), `Joined` (`c.wg` counts handleConn, also while a handler it runs is inside
`Close`, and a `Close` or `Raw` that returned to a user after the swap found it zero) and
`Drained` (as long as nobody asked for the end, only handleConn closes the client, after the
last packet). `ConnectAssumption` is needed for `Starting`: a second `Connect` would start a
second handleConn.

**PacketPoolProofs.** OneOwner and PacketIntact, for any number of packets and goroutines.
`PoolInv` says which labels have a packet (`Holding`), that a packet in the pool is there
once and referred to by nobody (`Pooled`), that any other is in one place (`Alone`), and what
the packets contain at each label (`Filled`).

Model-checked only: the liveness properties CloseTerminates, ReadersReleased,
EventuallyFlushed, AllDecoded, SyncReleased, LossIsNoticed, CloseReturns, ServedToTheEnd
and ShutdownReturnsOrLeaks, since TLAPS reasons neither about fairness nor about ENABLED.

## Not modelled, and simplifications

* `options.go`, `conn.go` (plain values, an interface), `testutil.go`, logging, TLS
  handshakes and the delay of the accept backoff.
* Deadlines set by the application (`SetDeadline` and its kin), getters (`Error`,
  `Closed`, `WriteBufferSize`, addresses), `SetContext`: they change nothing the properties
  speak of, or hand a call through to the `net.Conn`.
* A Read that fails in the middle of a content is the failing Read of `ReadConn` in
  AsyncConn; FrameReader has the loops in detail.
* PING and PONG packets have no content, as the library sends them.
* The checks for `InvalidBufferLength` cannot fire, since the buffer is never smaller than
  a header.
* The handler of a new stream is a user of that stream.
* Sync: one goroutine reads at a time, since `ReadPacket` takes no lock. A write error of
  the `net.Conn` lasts.
* Client: `Connect` or `FromConn` is called once and before the other methods.
* Server: setters run before the start. A connection given to `ServeConn` by a user comes
  before the `wg.Wait` of Shutdown, as `sync.WaitGroup` demands. Async.Close is one step.
* PacketPool: packets that readLoop drops when it ends, and packets that go to the reader
  of a stream, leave the model; handlers follow the convention of the library and keep no
  packet after they return.

## Running

    tlc -config MCRead.cfg MCAsyncConn
    tlapm AsyncConnTheorems.tla

`PROJECT.json` lists which module goes with which configuration, the mutants, the
source lines of each definition, the hazards and the findings.
