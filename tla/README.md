# jt808-server in TLA+

A verification project for the JT/T 808 GPS server of this repository: modules
that model the server, TLC configurations that check them on small instances,
and TLAPS proofs of the central safety properties for every instance.

## 1. The system

A terminal (a GPS tracker, or the P901 simulator in `device/p901`) opens a TCP
connection, registers (`0x0100` -> `0x8100` with a token), authenticates with
the token (`0x0102` -> `0x8001`) and then sends heartbeats and locations. Any
number of server processes share one Redis (tokens, presence, telemetry
stream) and, optionally, one MySQL `devices` table.

| Component | State | Operations | Interacts with |
|---|---|---|---|
| Session `session/session.go` | phone, token, state word, socket | `SetState`, `Send`, `ACK`, `Close` | closed by its own goroutine, by timers and by another connection's `Register` |
| Registry `session/registry.go` | map phone -> session (mutex); Redis keys: token, hash, online ZSET | `Register`, `Unregister`, `Heartbeat`, `StoreAuthToken`, `ValidateAuthToken`, `PruneStale` | called by handlers and `handleConn`; starts a goroutine per Redis update |
| Device store `store/device.go` | rows of `devices` | `CheckOrCreate`, `RecordHeartbeat` | called by handlers; the Laravel dashboard changes `status` |
| Handlers `handler/handler.go` | none of their own | `Dispatch` and one handler per message id | session, registry, store, forwarder |
| TCP server `server/tcp.go` | listener, a goroutine and a timer per connection | accept loop, `handleConn`, `authTimer`, `pruneLoop`, shutdown | handlers, registry |
| Process `cmd/main.go` | context | start-up waits, SIGTERM -> `cancel()`, exit | all |
| Frame codec `pkg/protocol/frame.go` | none | `ReadFrame`, `WriteFrame` | both ends of a connection |
| Decoders `pkg/protocol/decoder.go` | none | `DecodeLocation`, `DecodeRegistration`, `GenerateAuthToken` | handlers |
| Forwarder `forwarder/stream.go` | Redis stream | `PublishLocation`, `PublishEvent` | goroutines started by handlers |
| P901 simulator | position, battery, state file | dial, handshake, report loop, reconnect | the server |
| Metrics, config, HTTP endpoints, deployment | - | - | - |

What is hard to test here: three kinds of goroutine act on one session (its own
reader, its timers, another connection's takeover); a handler spans several
Redis and MySQL calls between which others run; presence is written by
unordered goroutines; frames already buffered are handled after the session was
closed; Redis and MySQL fail, and all calls fail once the context is cancelled;
a process dies anywhere and comes back with an empty map; a location is
acknowledged before it is published, by a goroutine of its own; answers get
lost or come late and the simulator retries; its two goroutines share a state
file and a channel of signals; bodies are cut, miscounted or in one of several
layouts. `PROJECT.json` lists each hazard at its line.

What makes the components correct:

- registry: one live connection per phone and process, and it is the one the
  map finds; no dead session in the map; no phone the table does not know;
- connection handling: every connection completes the handshake or ends; who is
  rejected, evicted or timed out is really disconnected and cleaned up;
- presence: Redis agrees with the sessions once the writes are through, and
  what it has too much disappears;
- codec: what is written is what is read, up to the byte where the stream ends;
- bodies: what a terminal measured is what the stream shows, and of a damaged
  body exactly what is whole;
- delivery: no position is skipped, no old report is taken after later ones, the
  device carries on after faults and stops when told to.

## 2. Modules

    Protocol -> Session -> Registry -> DeviceStore -> Handler -> TcpServer
      -> ServerProperties -> MCServer
                          -> ServerProofs -> DirectoryProofs
    SessionDirectory    (instantiated by ServerProperties)
    Presence  -> MCPresence
              -> PresenceProofs
    FrameIO   -> MCFrameIO
              -> FrameProofs
    P901      -> Delivery -> DeliveryProofs -> DeliveryOrderProofs
    Telemetry -> MCTelemetry
              -> TelemetryProofs
    ListLemmas  (extended by FrameProofs and TelemetryProofs)

(`A -> B`: B extends A.)

**Protocol** has the message ids, result codes and session states the code
branches on. A frame is reduced to what the handlers read of it: id, phone,
whether a registration body decodes, the token of an authentication body. A
token is the pair (phone, second), as `GenerateAuthToken` makes it, so two
registrations of one phone in the same second get the same token.

**Session**, **Registry**, **DeviceStore** give the operations of the three Go
packages as operators on their variables. `Close` stores `StateClosing` and
closes the socket; `SetState` overwrites whatever is there, as the atomic store
does. `Lookups` is the `SELECT`, `Insert` the `INSERT` of `CheckOrCreate`; with
`UniqueIndex = FALSE` a phone can have several rows and the `LIMIT 1` may return
any of them (the schema is not in the repository).

**Handler** has one control point `pc[c]` per connection goroutine; the frame in
hand is `Head(buf[c])`. A handler is one action unless another goroutine can
act in between and it matters: `handleRegistration` is `HandleRegistration`
(decode, SELECT, reject or accept), `CreateDevice` (INSERT) and `IssueToken`
(SET, state, reply); `handleAuthentication` is `HandleAuthentication` (phone,
GET, reject), `SetAuthenticated` and `JoinRegistry` (`Register`, reply). The
outcome `"ok"`/`"err"` of Redis and MySQL calls is a parameter.

**TcpServer** adds the accept loop, the reader, the deferred clean-up in its
order (timer, `Unregister`, socket), `authTimer` in two steps (state read,
`Close`), the delayed closes of rejected sessions, signal, exit, crash and
restart. `Fill` reads a batch of frames into the `bufio.Reader`; they are
dispatched one by one, also after the session was closed. With a cancelled
context every Redis and MySQL call fails, which for a token means it is
accepted (`valid = true`, handler.go:193).

**Presence** is the asynchronous half of `registry.go`: a goroutine per
`Register`, `Heartbeat` and `Unregister`, that captures the time, writes the
hash and writes the sorted set, in separate steps because a pipeline is not a
transaction; plus `PruneStale`, failing pipelines, crashes. Time is relative
(ages of scores). Callers are reduced to what the registry sees of a session:
named, up, evicted, down. One `Register` goroutine of a session is in flight at
a time, and as many `Heartbeat` goroutines as `BeatSlots` has elements.

**FrameIO** has the encoder as operators and `ReadFrame` as a machine that takes
one byte per step from a stream that can grow or be cut at any time. It uses
real byte values, so checksums and escapes are computed and not assumed. The
encoder is split along the lines of `WriteFrame`: header and body (`Unchecked`),
checksum (`Payload`), escapes and flags.

**ServerProperties** states what the connection side promises, the inductive
invariants, and a sentence of the comments that the code does not keep.

**SessionDirectory** is the abstract specification of `Registry.local` together
with the sockets: a phone has one connection per process, joining displaces and
cuts off the previous one in one step, a connection that ends leaves nothing
behind, a process that stops takes its directory with it. The refinement mapping
is `dir <- local` and `status <- Status(c)`: a connection is live while its
goroutine has not run `Unregister` and its socket is open, cut once somebody
closed the socket, ended after `Unregister`. The second half of the clean-up,
token keys, timers and handlers are stutters of the directory.

**P901** is the simulator process: the device goroutine at the points where it
dials, waits for an answer, truncates and writes the state file, pauses; the
main goroutine at its receive, its two halves of `saveState` and its return.
`os.WriteFile` is two steps, so the goroutines interleave in the file. A signal
goes into a channel of capacity 1 from which both goroutines receive. The state
is the number of steps of the journey.

**Delivery** composes P901 with the server goroutine of each of its connections
and with the goroutines that publish. The handlers are those of `Handler`
reduced to what this peer makes them do; `handleLocation` is in two steps
(`AckLocation`, `StartPublish`), since the device can react to the
acknowledgement before the publication starts. Faults: an answer lost, a link
broken, a registration rejected, a failing or repeated Redis command, the
server's end, a signal, a kill. A Redis error during authentication lets the
device in, one during registration may or may not have stored the token.
Frames of an abandoned connection may still arrive. No guard speaks of time: a
publication takes as long as it likes, and so does its way to Redis after the
server has died (`Crash` leaves any subset of the XADDs on the wire).

**Telemetry** has the bodies: `buildLocationBody` and `buildRegBody` of the
simulator, reports, batches and registrations of other firmware (external), the
decoders, the batch walk of `handleBatchLocation`, a goroutine for each of its
items (`XAdd`: in any order, possibly never, possibly twice) and the fields of a
stream entry. Real byte values; floats are fixed-point numbers, so truncation on the
way to the wire is modelled, the last-bit rounding of `float64` is not.

**ListLemmas** is not about the system: induction over sets of numbers, and what
the recursive functions on sequences compute.

The definitions called mutants (`RegisterNoClose`, `PruneEarly`, ...) stand
before the definition they distort and are used by nothing; putting one in its
place must break the property `PROJECT.json` pairs it with.

## 3. Runs

### Passing

| Run | Instance | Shows |
|---|---|---|
| `takeover` | 2 connections, 1 phone, table with unique index, one restart | `NoStaleOwner`, `LiveIsOwner`, `KnownOwner` and `ImplementsDirectory`: takeover, late `Unregister`, timers, rejection, SELECT/INSERT races, shutdown, crash and restart in every order |
| `handshake` | 1 connection, 2 seconds, device blocked | `TypeOK` with the heartbeat arithmetic, `HandshakeOrClosed`, `RejectedIsClosed` |
| `reaped` | 2 connections evicting each other, malformed frames | `ClosedIsReaped` |
| `alone` | 1 session, 2 heartbeats in flight, failures, crash, restart | `AloneIsSynced`, `GhostIsPruned` |
| `pruning` | 2 sessions of one phone replacing each other, each with a heartbeat in flight besides, timeout of 2 ticks | `PruneSparesBeating` |
| `codec` | 2 frames, a garbage byte, a cut anywhere | `Lossless`, `OnlyCutsFail` |
| `decode` | drives of up to 6 steps, reports of up to 3 items, batches of up to 3, three registration layouts, cuts at every byte | `LocationFaithful`, `ExtrasComplete`, `LevelsArePercentages`, `BatchComplete`, `RegistrationDecoded` |
| `delivery` | a journey of 2 steps, any 2 faults of 6 kinds | `TypeOK`, `AnswerIsOwn`, `NothingSkipped`, `ReportsTakenInOrder`, `JourneyGoesOn`, `SignalStops` |

What `delivery` says about the design: the acknowledgement precedes the
publication, so a position may be lost to a failed XADD or the end of the server
process and to nothing else (`NothingSkipped` names exactly these in `lost`). It
may be in the stream twice, when its acknowledgement was lost or go-redis
repeated the XADD.

The stream need not be in the order of the journey, and nothing in the repository
says it is. Every location is published by a goroutine of its own; 5 s are allowed
for it (stream.go:44), and since the Redis client is made without
`ContextTimeoutEnabled` (server/cmd/main.go:37) even these do not bound the
socket. docker-compose.yml:83 has the simulator report every 3 s, so one slow
XADD is overtaken without any fault. The same holds between the items of a batch
(handler.go:283). What the code does keep is `ReportsTakenInOrder`: when the
server takes a location into its hands, no later one has reached the forwarder,
so only publications that were under way at the same time change places. It
rests on two things the mutants take away: the takeover closes the old
connection before the new one reports, and the device drops a connection on any
missing answer.

### Where the code disagrees with what is written about it

| Run | Sentence | What the trace shows |
|---|---|---|
| `phone_change` | handler.go:10 "session cleaned up" | authenticated under two phones, one map entry stays |
| `unsynced` | registry.go:14 | the end of a replaced session deletes the Redis state of the new one |
| `teleport` | p901/main.go:3 "continues the device's journey" | on SIGTERM main saves and returns while the device goroutine has truncated the file: it stays empty |
| `layouts` | decoder.go:82, decoder.go:89 | a body without model, or a compact one with 12 or more plate bytes, is read with shifted fields |

Seen while modelling, plain in the code and given no run:

- connections: a registration after the authentication takes the session back to
  `StateRegistered` when the timer that closes unauthenticated connections is
  over (README.md:134; no property catches it, `HandshakeOrClosed` is content
  with a session that joined once); `authTimer` reads the state and closes in two steps and
  can hit a session that authenticated in between; `StateClosing` passes the
  `< StateAuthenticated` gate of `Dispatch`, so a buffered heartbeat is handled
  after the timer closed the session; `Run` logs "all connections drained"
  without waiting for any (tcp.go:79);
- devices and tokens: an unknown device is accepted and gets a token
  (README.md:47 says rejected); a token stays valid after use (README.md:113
  "one-time"); an unknown message id is acknowledged with result 0
  (docs/jt808.md:127 says 3);
- takeover: a session that another's `Register` closed may hold a buffered
  authentication frame; handling it makes the session register again and evict
  the newer one, which has to reconnect (`LiveIsOwner` holds: the map still has
  the one that registered last);
- presence: the ZADD of a last heartbeat can land after the ZREM of
  `Unregister` (docs/jt808.md:136; the phone is pruned later, run `alone`);
  locations do not count as heartbeats, so a device that only reports is pruned
  while it is connected;
- telemetry: a batch on a connection without a phone is published under an empty
  one; `battery_from_flags` reaches 375 (README.md:167 "percentage");
- framing: a garbage byte that is itself 0x7e shifts the framing and `ReadFrame`
  refuses the next frame (frame.go:52 "resilient"); a header holds twelve digits, so
  two longer identifiers can become one phone (frame.go:217; `Lossless` compares
  with what the header can hold);
- simulator: when the device goroutine takes the signal in its pause, the reports
  end and the process does not, until a second signal.

### Bounds

- Two connections are enough for takeover: `Register` and `Unregister` touch
  the owner of one phone only, and the proofs cover any number.
- `MaxBatch = 1` in the safety runs still leaves a frame in the buffer when a
  session is closed: any goroutine may close it between `Fill` and dispatch.
- `MaxClosers = 1`: pending delayed closes are counted up to one. `Close` is
  idempotent, so a second pending close adds only a later repetition of it;
  what the cap loses is a repeated `StateClosing` store, not a behaviour of the
  socket. The proofs hold for every cap.
- `MaxClock = 1` (`handshake`) makes two tokens of one phone differ and gives
  heartbeats a gap; the proofs cover every clock.
- `HeartbeatTimeout` of one or two ticks and prune age of twice that; a
  goroutine is in flight for less than two ticks. A tick is minutes and a Redis
  call gives up within seconds, so this allows more than the code does.
- `codec`: bodies of at most one byte out of 0x01, 0x7d and 0x7e; the sequence
  number is 0x7d7e; fragment headers contain flag bytes; one phone is longer
  than a header has room for.
- The `VIEW` of the server safety runs drops what nothing reads any more:
  replies, `AuthToken` outside the step that stores it, and the socket, state,
  timers and buffer of a session past `Unregister`. None of the invariants of
  those runs mentions them for such sessions. Liveness runs and runs about
  replies use no `VIEW`.
- `takeover` lets Redis answer always, since `KnownOwner` is about that case;
  tokens accepted unchecked still occur, through the cancelled context of a
  process that shuts down, and `OwnerCorrect` covers every Redis outcome.
- `pruning` has one heartbeat slot per session and no failures, about which
  `PruneSparesBeating` says nothing: with two slots the state space is not
  exhausted in five minutes. `alone` has two slots, failures and a crash, for one
  session; a second one of the phone would add late goroutines of the same three
  kinds. The proofs of `PruneSafe` and `AloneCorrect` cover any number of both.
- `pruning` uses the symmetry of the sessions, which share phone and process.
- `delivery`: two faults cost at most two connections each, so `MaxConns = 5` is
  never the reason a device cannot dial (`JourneyGoesOn` would fail); sequence
  numbers wrap at 2, so that they do wrap and differ from one frame to the next.
- `decode`: up to 4 entries in the stream (`MaxXAdds`), one more than a batch has.
- `decode`: readings on both sides of the equator and of Greenwich, battery at
  its reserve, heading at north; percentages of 100 and 101, voltages below and
  above the range, empty and repeated items; plates of 0 to 13 bytes, around the
  threshold of 28.
- `CHECK_DEADLOCK FALSE` in all runs but those of Presence: a finite supply of
  connections, frames, messages or steps of a journey comes to an end.

### Fairness

`FairSpec` of TcpServer: a runnable goroutine runs and a started timer fires
(Go scheduler and runtime), and a read returns, with data or because
`SetReadDeadline(HeartbeatTimeout)` passes. Peers owe nothing. Each of the two
kinds of timer gets its own weak fairness, so a peer cannot hold one off by staying busy.
`FairSpec` of Presence: goroutines end (Redis calls time out), time passes,
`pruneLoop` ticks and a crashed container is restarted.
`FairSpec` of Delivery: the device goroutine, `main` of the simulator and the
server run, deadlines and the pause pass, a dead server is restarted. Strong
fairness for the location ticker only: `select` chooses at random among ready
cases, so heartbeats cannot starve it. Publications need not end. No fairness
for faults, for signals, for starting the simulator again, or for the device
goroutine (rather than main) taking the signal.

## 4. Proofs

Checked by `tlapm`. Every theorem holds for all values of the constants that
the `ASSUME`s of the modules admit: any number of connections, phones,
processes, heartbeats in flight, faults and steps of a journey.

### The connection side (`ServerProofs`, `DirectoryProofs`)

All but the first theorem also assume `OnePhonePerConn`: each peer puts one
non-empty phone in its headers. Run `phone_change` shows that it is needed.

- **TypeCorrect**: `TypeOK` is not inductive. `RecordHeartbeat` subtracts times,
  so one must know that recorded beats are not in the future (`BeatsPast`); and
  the actions in the middle of a handler use `Head(buf[c])`, so one must know
  the frame is still there (`FrameInHand`). One lemma per group of actions.
- **OwnerCorrect**: `NoStaleOwner` and `LiveIsOwner`. Invariant `OwnerInv`: all
  that reaches a session carries its peer's phone (`OwnPhone`), the phone is set
  before the session can join (`PhoneFirst`), a map entry agrees with the
  session it points to (`EntriesAgree`), a connection not yet accepted has not
  joined. Three cases carry the argument: `JoinKeeps` (the session that is
  replaced is the only other one that could be live under this phone, and it is
  closed), `CleanUpKeeps` (`Unregister` deletes its own entry or none) and
  `VanishKeeps` (map and goroutines go together). Every other action leaves the
  map alone, opens no socket and lets no goroutine come back (`QuietKeeps`).
- **KnownCorrect**: `KnownOwner`. Invariant `KnownInv`: a token in Redis, a
  session about to store one and a session past `ValidateAuthToken` all have a
  phone with a row (`KnownPhones`), rows are never deleted, and a process that
  has exited has no goroutine left that could join after a restart
  (`ExitedIsEmpty`).
- **DirectoryImplemented**: `ImplementsDirectory`, from `TypeInv` and `OwnerInv`.
  Initial states map to initial states; every step maps to a step or a stutter:
  accepting is `Connect`; a timer, a delayed close, a rejection or a shutdown
  `Cut`; `JoinRegistry` is `Join`; `CleanUp` is `Leave`, for which `EntriesAgree`
  is needed, since `Unregister` looks at one key of one map and `Leave` promises
  that no entry is left anywhere; exit and crash are `Fall`. All other actions
  leave `local`, `pc` (as far as `Status` goes) and `open` alone.

### Presence (`PresenceProofs`)

`TypeOK` of `Presence` is part of the inductive invariants and is not listed as a
result: that ages are bounded is the model's doing (`Older`), not the code's.

- **PruneSafe**: `PruneSparesBeating`. `pruneLoop` looks at scores and knows
  nothing of sessions, so the invariant relates the two (`ScoresFollow`): once
  the goroutines of a session are through, its phone's score is at most one tick
  older than its last `Register` or `Heartbeat`, whichever goroutine wrote
  last. A goroutine that wrote an old time was spawned at that time and is in
  flight for less than two ticks; hence the one tick. With a prune age of twice
  the timeout this leaves a beating session alone.
- **AloneCorrect**: `AloneIsSynced`. Besides `ScoresFollow`: a goroutine of
  `Unregister` belongs to a session that has ended (`LeaveIsLast`), so nothing
  deletes what a registered session wrote; and of hash and sorted-set member each is there
  unless a goroutine in flight has still to write it (`AloneIsWritten`). The
  proof looks at the two writes of each kind of goroutine.

### Simulator and server (`DeliveryProofs`, `DeliveryOrderProofs`)

- **DeliveryTypeCorrect**, **AnswerOwn**: invariant `Wire`. Neither property is
  inductive, since the code identifies nothing: `readACK` ignores sequence
  numbers, and a link is an unbounded queue. What saves it is `StopAndWait`: on
  the connection the device is on there is either the one frame it waits to
  see answered, or the answer to it, or neither. This needs `Lifetimes`: a
  connection not dialled yet is unused, so a new one starts with empty queues,
  and nobody sends on behalf of a process that is down.
- **NothingSkippedCorrect**: `NothingSkipped`. The position advances when an
  acknowledgement is read, the publication starts after the acknowledgement was
  sent. The invariant `Forwarded` therefore says it of everything that the
  device could go on from: the position in memory, the copy that main saves, the
  number in the state file, and the location whose acknowledgement is still on
  its way.
- **ReportsOrdered**: `ReportsTakenInOrder`, for one run of the simulator
  (`starts = 1`; after an empty state file a second run starts at 0 again, run
  `teleport`). `OneSpeaks` is what `Register` contributes: only the owner of the
  phone can have a location handled, and when the device is admitted, the owner
  is the connection it is on, because the takeover closes the previous one before
  the answer is sent. `InStep` says that nothing that reached the forwarder is
  ahead of the device, and that a frame that can still be handled is of the
  position the device is at and so not behind what reached the forwarder (the
  latter also when the device's process has ended). Publications and stream count
  as reached, so it does not matter how long they take or whether they repeat.

### Bodies (`TelemetryProofs`)

- **RegistrationCorrect**: `RegistrationDecoded`. `DecodeRegistration` chooses
  the layout from a length; for each layout the lemmas compute where the cuts
  fall in a body built from padded fields, and that trimming gives back a text
  that does not end in padding. Assumed (`RegistrationAssumption`): the model
  fits its field and no text ends in a blank or NUL, which trimming would take
  for padding.
- **LocationCorrect**: `LocationFaithful`. `Reporting` says that a report being
  handled was built from the state the simulator is still in, and that this
  state is on the route (`OnRoute`: how far a drive of n steps can have led,
  speed, heading, altitude and battery within the clamps of `advanceState`). The
  lemmas: 16 and 32 bit fields, BCD times and signed micro-degrees survive the
  round trip; a body is a sequence of blocks whose offsets are those of the
  decoder; the four status bits do not disturb each other; the TLV walk gives
  the two items p901 appends. Assumed
  (`DriveAssumption`): a drive starts on the globe and within the clamps, a step
  is less than 0.01 degrees of latitude and 0.1 of longitude (90 km/h for 30 s,
  below 86 degrees of latitude), and there are at most 40000 steps, two weeks of
  reports. Some bound is needed: the code never wraps a longitude, so after
  enough steps it would leave its 32 bits.

The other three are about what terminals other than p901 send: any items, any
points, a count that may be wrong, a cut at any byte. Their invariant,
`Relaying`, says that the message is a whole body cut at `msg.cut` and that the
entries are those of the goroutines the handler started; the rest is about the decoders.
Assumed (`ReportAssumption`): an item's value has at most 255 bytes, a point and
the count less than 2^16, the widths of their length fields.

- **ExtrasCorrect**: `ExtrasComplete`. `WalkExists` shows for every body that
  the recursion of the TLV walk is well defined, since each round leads further
  into the body; without it nothing follows from a recursive definition. The
  items of the whole body lie at the sums of the lengths before them
  (`ItemsInPlace`), a cut leaves those before it in place, and an item is taken
  exactly if its last byte is before the cut (`WalkItem`, `WalkCut`). Going down
  from the last whole item (`ItemsWalked`): from the place of item k on, the
  walk finds items k, k+1, ... and a later one of the same id wins.
- **BatchCorrect**: `BatchComplete`, along the same lines. The walk over a batch
  also counts, so it stops at the least of count, number of points and cut
  (`BatchWalked`); undecodable points are dropped from what it finds without
  disturbing the others (`LocatedThose`). The goroutines correspond one to one
  to the points that are left; the stream holds entries of theirs only
  (`Streamed`), in whatever order and number.
- **LevelsBounded**: `LevelsArePercentages`. The items come from the same walk,
  so their bytes are natural numbers (`ExtrasTyped`); then `BatteryLevel` goes
  through the ids in the order of `extractBattery`, with the clamps of the
  voltage formula.

### Frames (`FrameProofs`)

All three theorems assume `flagByte \notin Noise`: the garbage between frames
has no 0x7e in it. The codec needs this (section 3, framing): a stray flag is
taken for an opening one. Number, length and content of the frames are
arbitrary, the cut is anywhere.

- **FrameInvariant**: `FrameInv`. Neither property is inductive: both must know
  where in the stream the reader is. `Stream(w, c, q)` says that the bytes `w`
  are the last `c` frames of `q` with garbage around them, as the least relation
  closed under putting a frame or a garbage byte in front. `Position` says that
  what is on the wire, followed by what a disconnection took away, is such a
  stream from the place `Reading` gives: between frames, inside one with `raw`
  holding the payload bytes before the place, or between an escape byte and its
  code. There is one lemma per kind of byte the reader can meet. The bytes
  between two flags hold no flag, because `Escape` produces none, so the closing
  flag is the first one; by then `raw` is the payload.
- **FramesArrive**: `Lossless`. When the closing flag is read, the payload is
  accepted (the checksum is that of the bytes before it) and parsed: 16 bit
  fields, the BCD phone, cut to twelve digits as `encodeBCD` does, the fragment
  header and the body come back. A reader outside a frame with nothing left on
  an open wire has returned all frames: `Stream(<<>>, c, q)` only for `c = 0`.
- **FramesAccepted**: `OnlyCutsFail`. A payload has 13 bytes or more and the
  right checksum, and after an escape byte comes 1 or 2, so the only way to fail
  is the end of the stream.

### Induction over data (`ListLemmas`)

The induction theorems of the library take an operator as parameter, which no
installed prover can instantiate. `ListLemmas` has the induction over a *set* of
numbers instead: a set that holds 0, and n + 1 with n, holds all (from the
library's well-foundedness of the order of the natural numbers, the set being
that of the numbers for which the claim holds), and the same downwards. From it
follows that functions defined by recursion exist and are unique, upwards as
`Rounds` (round n + 1 is computed from round n) and as the partial sums and
concatenations behind `FlattenSeq`, and for the walks from the end of the body
towards its start. This is what the proofs of codec and bodies are built on.

### Only model-checked

The liveness properties `HandshakeOrClosed`, `RejectedIsClosed`,
`ClosedIsReaped`, `GhostIsPruned`, `JourneyGoesOn` and `SignalStops`: fairness
and ENABLED are out of the prover's reach. Every invariant and every action
property of the passing runs is also proved.

## 5. Not modelled

- Session fields nothing reads (`LastHeartbeat`, `LastLocation`, `IsStale`),
  sequence numbers of the server's frames, metrics, logging, configuration, HTTP
  endpoints.
- `PublishEvent`: fire-and-forget entries nothing here reads back. MAXLEN
  trimming is Redis's.
- Start-up waits for Redis and MySQL. No signal handler is installed before they
  end, so a signal simply ends the process and the `ctx.Done()` branches of
  main.go:53 and 77 are never taken; each retry of `store.New` leaves a pool.
- Where a step of the simulator leads: floating point and random numbers. The
  longitude is never wrapped at 180 degrees.
- Command routing, which docs/jt808.md describes and no code implements.
- 24 h expiry of presence hashes (token expiry is modelled).

## 6. Plan

Done: the connection side with safety, liveness and proofs; `Presence`;
`FrameIO`; `SessionDirectory` with run and proof; `P901` and `Delivery`;
`Telemetry`; proofs of every safety property of `Presence`, `Delivery`,
`Telemetry` and `FrameIO`. Left, in order of importance:

1. `TcpServer` with `Presence`, for the phone that changes while a goroutine
   still reads it.
2. `Startup`: the waits of `main` and the pools of `store.New`.
