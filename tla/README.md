# A TLA+ model of gophermc

gophermc is a Minecraft client library in Go: it connects to a server, runs the
status or the login exchange in any of 43 protocol versions, keeps the
connection alive from a goroutine of its own, and reports what happens through
an event channel. This directory holds TLA+ modules of its logic, the TLC
configurations that check them, and TLAPS proofs.

Paths below are relative to the repository (`src/` in `PROJECT.json`).

## Inventory

### Components

| Component | Source | State | Operations | Modules |
|---|---|---|---|---|
| Client life cycle | `client.go`, `events.go` | `Conn`, `eventChan`, `readerCtx`, `readerWg`, one event channel per `JoinAndListen` | `Connect`, `Close`, `Destroy`, `Join`, `JoinAndListen`, `Chat`, `SetPosition`, the `readLoop` goroutine with `handlePacket` | `Client`, `ClientProofs`, `ListenProofs`, `MCClient` |
| Session exchange | `client.go` | `Conn.state`, `Conn.compressionThreshold` | `GetStatus`, `Ping`, `Join`, `handleConfiguration` | `Session`, `SessionPhases`, `SessionProofs`, `AnswerProofs`, `MCSession` |
| Versions and packet registry | `protocol/generated_versions.go`, `generated_registry.go`, `registry.go`, `constructors.go`, `types.go` | the shared `protocolRegistry` map | `NewPacket`, `GetPacketID`, `GetDefinition`, `VersionFromString` | `Protocol`, `Registry`, `RegistryProofs`, `MCRegistry` |
| Connection framing | `protocol/conn.go`, `protocol/protocol.go` | reader and writer locks, the byte stream, the threshold, the zlib reader | `ReadPacket`, `WritePacket`, VarInts, compression | `PacketStream`, `Conn`, `ConnProofs`; `Wire`, `Codec` |
| Packet codecs | `protocol/packets.go` | none | `Encode`, `Decode` of each packet | `Wire`, `Codec`, `WireProofs`, `CodecProofs`, `MCCodec` |
| Registry generator | `generator/` | the tables of the version it is reading | choice of directories, naming rules, order of versions, files | `Registry`, `RegistryProofs`, `MCRegistry` |
| Client options | `options.go` | fields of `Client` | `With...` | their results, in `Codec` |
| Command-line client | `cmd/main.go` | none | a user of the library | the application and callers of `Client`; its choice of a version in `Registry` |
| Chat component | `component/component.go` | none | JSON to text | not modelled |
| Update workflow | `.github/workflows/update_protocol.yml` | none | runs the generator | not modelled |

### How they interact

The application goroutine calls `Join` or `JoinAndListen`. Both dial, which
closes an earlier connection and replaces `c.Conn`, and run the exchange over
`Conn.ReadPacket` and `Conn.WritePacket`. These look a packet up in the
registry by (version, connection state, direction): the two ends understand
each other only while they agree on the state and on compression.
`JoinAndListen` then closes the previous event channel, makes a new one, waits
for the previous `readLoop` and starts the next. `readLoop` loads `c.Conn`
before every read, answers keep-alives, and sends events into `c.eventChan`.
`Chat` and `SetPosition` are called from any goroutine and load `c.Conn` up to
three times. `Destroy` cancels the reader's context, waits for it, closes the
channel and then the connection. Apart from one lock for reading and one for
writing in each `Conn`, nothing orders these goroutines: `c.Conn`,
`c.eventChan` and the connection's state are plain shared fields.

### What is hard

- `c.Conn` and `c.eventChan` change under a running reader or caller (a
  reconnect, a `Close`, a `Destroy`);
- waiting: for a reader that is inside a read, for room in a channel, for a
  server that never sends;
- a reader context that is made once and cancelled for good;
- the order of writes and state changes, different in every range of versions;
- packet lookups by the state at the moment of the read;
- a packet that moves in several pieces, any of which may fail, with several
  goroutines at both ends of it;
- layouts that change by version, thresholds and integer widths at their edges;
- Go's map order, in the generator and in `VersionFromString`.

`PROJECT.json` lists these at their lines under `hazards`, with the properties
that cover each, or the reason none does.

### What makes each component correct

- Client life cycle: one reader at a time; a reader serves only its own
  connection and channel; nothing panics; a keep-alive is answered before it is
  reported and as often; a disconnection is reported once and last; an
  application that listens is served; `Destroy` returns.
- Session exchange: both ends agree on state and compression for every packet;
  every packet written has an ID; requests are answered once and in order;
  success means that both ends are in the play state; the calls return.
- Registry: `NewPacket` and `GetPacketID` agree in every version and state; a
  version name resolves to the release it names or the nearest one before it;
  lookups do not write.
- Framing: concurrent writers do not mix their packets; a reader never loses
  step; a failure is reported; no lock stays taken.
- Codecs: the client understands what the server sends, at any threshold; an
  answer carries what was asked; the server can tell what the client wrote.
- Generator: the same tables and the same order from the same data, and the
  ones that the client's version comparisons take for granted.

## The modules

### Protocol

Constants only: the versions, connection states and directions, the rows of the
registry that the client's code can meet, and the two lookups.
`Registered(v, s, d)` is the part of `protocolRegistry[v].States[s][d]` that the other
modules use, as pairs of the wire name and the Go type. IDs are unique within
a version, state and direction, so a lookup by ID is a lookup by row.
`NewPacket` yields `ErrUnknownPacket` for an ID without a row or a type without
a constructor; `HasPacketID` is the success of `GetPacketID`. Two consequences
matter elsewhere: `ClientboundChatMessage` and `ServerboundPlayerPosition` have
no constructor in any version.

### Client

The goroutines around a `Client`, with one action per step between two accesses
to shared state:

| Code | Actions |
|---|---|
| `readLoop`, `handlePacket` | `ReaderSelect`, `ReaderLoad` (load `c.Conn`), `ReaderLock`, `ReaderRead`, `ReaderReply`, `ReaderNotify` (load `c.eventChan`), `ReaderSend`, `ReaderCancel`, `ReaderReturn` |
| `Connect` | `AppConnect` (the `Close`), `AppDialFails`, `AppDial` (with the handshake and the login start) |
| `Join` | `AppJoinLock`, `AppJoinRead` |
| `JoinAndListen` | the above, `AppMakeChannel`, `AppSpawn` (`Wait`, `Add`, `go`), `AppReady` |
| `Destroy` | `AppDestroy`, `AppDrain`, `AppCloseLast` |
| `Close` | `AppClose` |
| the event loop | `AppReceive` |
| `Chat`, `SetPosition` | `CallerBegin`, `CallerState`, `CallerWrite` |
| the server, the network | `ServerLogin`, `ServerPlay`, `ServerEnd` |

Connections, channels and readers are numbered by the dial that led to them,
0 is nil. `events` keeps everything ever sent on a channel and `taken` how much
of it was received, so that properties can look at the whole history; a send
waits while `Len(events) - taken` is the buffer size. A dereference of a nil
`c.Conn` and a send on a closed channel set `panic`, after which the process
takes no step. Reads and writes on a lost or closed socket fail as Go's do;
a write to a socket that only the peer has closed may still succeed. A packet
that is decoded in another state than it was sent in may become any packet of
that state, or an error.

The parameters are the version, the buffer size, the calls the application
makes, whether it is *careful*, the goroutines that call `Chat` and
`SetPosition`, and what the server may do. A careful application gives up a
connection (connects again, or calls `Close`) only when the channel it listens
on has delivered a `DisconnectEvent` or is closed. The example in the
repository's README is careful; `client_test.go:35`, which defers
`client.Close()` under a live reader, is not. The login is reduced to the packets that change the connection's
state or end the call; `Session` has all of it. Data races on `c.Conn` and
`c.eventChan` are interleavings of whole loads and stores, which is what a
word-sized pointer and channel give.

### Session

One `GetStatus` (with its `Ping`) or one `Join` (with `handleConfiguration`)
against a server, packet by packet, in a version chosen at the start. Each
handler is described by the packets it writes, each with the connection state
it is written in, and the state it leaves; `Finish` turns that into a step, and
fails the call at the first packet without an ID, as `WritePacket` does. A
packet in transit carries the state and the compression it was written with,
and the server keeps its own. The server is modelled from what the client
expects of it: it sends what a session needs, compresses if the version can,
and may send requests, packets the client ignores, packets without a
registration, or a disconnect. It may also vanish at any point (`Lose`).

`SessionPhases` is the same session without its packets: two ends that go
through the same phases one at a time, never more than one apart, and a call
that succeeds only in the last. `Session` implements it (`FollowsPhases`) with
`path <- Path` (the phases of the goal and the version), `client <- connState`,
`server <- serverIn` and `outcome <- result`.

In `Client` and `Session`, `ReadPacket` and `WritePacket` are atomic, which is
what `PacketStream` says and `Conn` implements.

### PacketStream and Conn

`PacketStream` is what a `Conn` promises those who share it. A call of
`WritePacket` puts its packet at the end of the stream to the server and
returns nil, or leaves the stream alone and returns an error; it may refuse a
packet only if that cannot be written or the connection is gone. `ReadPacket`
hands out the server's frames in order.

`Conn` has the pieces: the lock, the ID and the payload, each byte of the
length (a `net.Conn` is no `io.ByteWriter`, so `WriteByte` writes each on its
own), the body, the deferred unlock; and for reading the lock, the length, the
body, which arrives later, and the decoding.

| Code | Actions |
|---|---|
| `WritePacket` | `WriteCall`, `WriteLock`, `WriteFrame`, `WriteLength` (once per byte), `WriteBody` |
| `ReadPacket` in `readLoop` | `ReadLock`, `ReadLength`, `ReadBody`, `ReadDecode`, `ReadFails` |
| `handlePacket` on a keep-alive | `HandleKeepAlive`, then `WritePacket` |
| `Close`, the network | `Break`, which may fall between any two of these |
| the server | `ServerSend`, `BodyArrives` |

What the server can make of the bytes is tracked as they go out: `partial` is
the goroutine whose packet the stream is in the middle of, `due` the bytes of
its length still to come, `mixed` is set when a byte is not the next of that
packet. A frame is known by what `ReadPacket` and `readLoop` make of it: a
keep-alive is answered, another packet or an unknown one is passed over, an
undecodable one or one without a body ends the reader. A length below zero
copies nothing, just as zero. `ImplementsStream` is the refinement: `pending` is
`job`, `up` is `~broken`, the other variables have the same names.

### Wire, Codec, MCCodec

`Wire` has the primitives of `protocol.go` and the framing of a payload. A wire
is a sequence of atoms: a byte, or a piece that is written and read as one (a
fixed-size number, a UUID, the bytes of a string, a compressed payload).
VarInts, booleans and bytes are all made of byte atoms, so a reader that takes
one for another goes astray as in the code. Integers are scaled: a VarInt's
byte carries 4 values instead of 128, an `int32` has 512 instead of 2^32, and
still takes up to five bytes, the last one only partly used. A reader carries
the values it took, and `ok`.

`Codec` has the `Encode`s and `Decode`s the client uses and runs sessions with
them: `SendHandshake`, `SendLogin`, `SendPing`, `SendClientSettings`, `Chat`,
`SetPosition` write; `ServerSends` sends any packet that the registry has for
the version and state, with several values for each field; `ReadPacket` reads
it as `conn.go` does, with the kept zlib reader, decodes it and writes the
answer. A packet ID is the packet's Go type: that IDs and types correspond is
the registry's matter. The server writes the layout `Decode` reads; that real
servers do is not something this repository can show. The exchange is looser
than in `Session`, which has the order.

### Registry, MCRegistry

The generator, over a directory of versions: it passes over what is neither a
release nor the latest snapshot, ranges over packets and Go names in any order,
sorts, and generates the enumeration and the tables. Then a program that uses
them: `VersionFromString`, which ranges over the known versions in any order,
the choice of `cmd/main.go`, and `GetDefinition` in several goroutines, a step
for each access to the shared map. A behaviour follows one state and direction,
chosen at the start; the tables of the others are made in the same way and
independently. Version strings are sequences of numbers.

### The proofs, MCClient, MCSession

`ClientProofs` and `ListenProofs` hold the theorems about `Client`, `ConnProofs`
those about `Conn`, `SessionProofs` and `AnswerProofs` those about `Session`,
`RegistryProofs` those about `Registry`, `WireProofs` those about the operators of
`Wire`, and `CodecProofs` those about `Codec`, each with the inductive invariants
they rest on. `MCClient` gives the model checker `Client` and the invariant of
`ClientProofs`; `MCSession` names the set of versions of a run.

## The runs

| Run | Question | Bounds |
|---|---|---|
| `listen` | Is a careful application safe and served? `TypeOK`, `OneReader`, `NoPanic`, `OwnConnection`, `EchoesMatchEvents`, `DisconnectLast`, `ListenerServed`, `CarefulInv`; `KeepAliveAnswered`, `DisconnectReported`, `DestroyAfterDisconnect`, `JoinReturns` | two connections, two packets in play on each, one slot in the channel, kicks and lost connections |
| `callers` | What holds of an application that reconnects, closes and destroys at any time, with a concurrent caller? `OneReader`, `ChatOnlyInPlay` | two connections, one packet (a keep-alive, a chat or a kick) on each, one caller |
| `session` | Is every exchange right in every version? `TypeOK`, `ServerUnderstands`, `ClientUnderstands`, `NoMissingID`, `AnswersMatch`, `JoinAgreement`, `FollowsPhases`, `Returns` | all 43 versions, two packets beyond the required ones |
| `conn` | Is a `Conn` an atomic stream for those who share it? `TypeOK`, `NeverMixed`, `InStep`, `ConnInv`; `ImplementsStream`; `WriteReturns`, `EveryFrameRead` | two readers and a writer, two frames of four kinds, lengths of up to two bytes, one packet of the writer |
| `codec` | Do both ends understand every packet? `Understood`, `FrameReadable`, `EchoExact`, `SelfDescribing` | all 43 versions; ten IDs at the ends of VarInt bytes, four 64-bit ones; thresholds -1, 0, 1, 6 and 60 |
| `registry` | Do generator and lookups depend on any order? `TypeOK`, `TablesFollowRules`, `ReleaseOrder`, `NearestRelease`, `NeverRaced`, `OwnTable` | all subsets of seven directories, every state and direction, twelve version strings, two goroutines |
| `destroy_idle` | *violated:* `DestroyReturns` | one connection, a silent server |
| `rejoin_after_kick` | *violated:* `ListenerAlive` | two connections |
| `chat_destroy` | *violated:* `NoPanic` | one connection, one caller |
| `chat_events` | *violated:* `ChatReported` | one connection, one chat packet |
| `early_finish` | *violated:* `ServerUnderstands` | 1.21.3, one extra request |
| `set_position` | *violated:* `PlayerActions` | as `codec`, without keys |

Why the bounds are enough. The hazards of the life cycle are about a reader and
a caller that outlive one connection, so two connections show them: the old
reader, the new one, and the channel of each. Two packets with a channel of one
slot fill the channel, make the reader wait in its send, and let a kick or an
end follow a keep-alive. One caller is enough because callers share nothing but
`c.Conn` and the connection, which the application changes under each of them
alike. Two extra packets let a request precede and follow another, or a
disconnect follow a request. In `conn`, two readers and a writer give every pair
that can meet: reader and reader on the incoming stream, a reply and a packet,
or two replies, on the outgoing one; a length of two bytes has a point between
the bytes. What lies beyond is covered by the proofs. In `codec` a threshold of 6 is
met exactly by some packets. In `registry` the directories include a release without a patch
number, two-digit numbers that sort before smaller ones by name, a snapshot and
a directory to be passed over. Deadlock is not checked: the program may stop,
because the application may make no further call, a server may stay silent and
a panic ends the process.

The `session` run fixes `RequestsAfterPacks = FALSE`: from 1.21.3 on the server
asks nothing after its `select_known_packs`. `early_finish` drops that and
shows what then goes wrong.

### Fairness

`Client!Fairness` is weak fairness of each goroutine: the Go scheduler runs
every goroutine that can run. The application continues the call it is in
(`AppContinue`) and, in its event loop, keeps receiving (`AppReceive`), which
is what the README asks of it. It need not make any call, and nothing makes the
server send, kick or close. A lock or a channel is held by at most one other
waiter in each case, so weak fairness suffices. `Session!FairSpec` adds that
the server does its part (`ServerReceive`, `ServerRequired`) unless the
connection is lost; without that nothing bounds the wait, since the context
given to `Join` and `GetStatus` limits only the dial.

`Conn!Fairness` is strong fairness of each goroutine's `ReadPacket` and
`WritePacket`: `sync.Mutex` hands itself to a waiter that has waited for more
than a millisecond, so nobody waits for ever while the lock is freed again and
again. It includes that a write to the socket ends (the server reads, or the
connection breaks) and that a body follows its length; neither is the client's
doing, and the code sets no deadline.

### What the runs found

1. `Destroy` waits for the reader before it closes the connection. If the
   reader is inside a read and the server sends nothing, it never returns
   (`client.go:101`, `destroy_idle`). After a `DisconnectEvent` it does
   (`DestroyAfterDisconnect` in `listen`).
2. A kick cancels the only reader context a `Client` has. The next
   `JoinAndListen` succeeds, but its reader returns at once
   (`client.go:351`, `rejoin_after_kick`). A lost connection does not have this
   effect: `ListenerServed` holds while nothing has cancelled the context.
3. `Chat` loads `c.Conn` again after its nil check and panics when `Destroy`
   runs in between (`client.go:257`, `chat_destroy`).
4. `ChatMessageEvent` is never sent (`client.go:336`, `chat_events`).
5. From 1.21.3 on the client finishes configuration before the server does and
   then answers in a state the server has left (`client.go:403`,
   `early_finish`).
6. `SetPosition` always fails: no version has an ID for its packet
   (`client.go:288`, `set_position`).

What the passing runs do not show. Some properties are narrower than the
hazard beside them:

- `NoPanic` in `listen` is about a careful application without callers. A caller
  meets the panic of `chat_destroy`. An application that calls `Close` while its
  reader lives, as `client_test.go:35` may, meets another: `Close` sets `c.Conn` to
  nil (`client.go:94`), and the reader's next `ReadPacket` dereferences it. The
  model has these steps; `listen` with `Careful = FALSE` finds them.
- `JoinReturns` excepts the code's own limit: `JoinAndListen` does not return if
  the reader fills the buffer before `ReadyEvent` is in it, nor with a buffer of
  zero.
- `ChatOnlyInPlay` holds because `WritePacket` looks the ID up in the state of the
  write and chat has none but in play. `Chat`'s own check of the state would not
  suffice.
- `AnswersMatch` asks no answer to a `ClientboundConfigPing`, since the code gives
  none. `Returns` is about a server that does its part, sends one
  `select_known_packs` and does not wait for a pong or a login cookie.
- `NeverRaced` says that `GetDefinition` never comes to its write for a version of
  the enumeration. A version made outside it would still race.
- `Understood` takes from `compress/zlib` that a reader after `Reset` starts at the
  new data, and shows that none is read on without it.
- `FrameReadable`'s peer takes either kind of frame at exactly the threshold, so
  it does not fix on which side of it `WritePacket` begins to compress.

Nothing is said of whom a signed message names. A client with a key but without
a UUID signs with the Nil UUID, although `SendLogin` logged it in under another
(`client.go:264`); the model does the same.

## The proofs

### ClientProofs

About `Client`, under `ClientAssumption` only (the constants have the types
their comments say).

- `TypeCorrect`: `Spec => []TypeOK`.
- `OneReaderHolds`: `Spec => []OneReader`: at most one `readLoop` lives,
  whatever the application calls and whenever, and `readerWg` counts it.
- `CarefulIsSafe`: for a careful application, readers stay with their own
  connection and channel and a `DisconnectEvent` ends the channel; and when
  no other goroutine calls `Chat` or `SetPosition`, nothing panics.

`TypeOK` is not inductive: that a reader's read touches a connection, or that
`readerWg` does not fall below zero, depends on where the goroutines are.
`TypeInv` adds `Places` (what a place implies about the numbers a goroutine
holds) and `Living` (the only reader that may live is the one just started, or
the one behind the channel `JoinAndListen` returned; `readerWg` counts it; the
reader about to start is new). One lemma per group of actions shows that it is
preserved. The variables come in six groups (client, connections, channels,
readers, application, callers), so a step has one leaf for each group it
changes and one lemma, `Stable`, for the rest.

`CarefulInv` adds what carefulness buys. A reader is `Active` until it is on
its way out. An active reader is behind `c.Conn` and `c.eventChan`, its channel
is open, it has reported no disconnection (`Bound`), and the application is at
none of the places where it has no reader (`Alone`). The step that matters is
`LeavesAlone`: an application that may leave its connection has no active
reader, because the channel it listens on holds a `DisconnectEvent` that it has
received, is closed, or never was. `Fresh` says that the next channel is new,
`Received` that the application has received no more than was sent. The `listen`
run checks `CarefulInv` too, on its instance.

### ConnProofs

About `Conn`, under `ConnAssumption` only: for any number of readers and
writers, any packets and frames, lengths of any size.

- `ConnTypeCorrect`: `Spec => []TypeOK`.
- `FramesNeverMix`: `Spec => []NeverMixed`.
- `StaysInStep`: `Spec => []InStep`.
- `StreamImplemented`: `Spec => Stream!Spec`, the refinement.

All rest on `ConnInvariant`, `Spec => []ConnInv`. `NeverMixed` is not inductive:
that the next byte continues the stream's packet depends on who holds the lock
and how far it is. `ConnInv` adds `Locks` (a goroutine is in a critical section
exactly if it holds its lock), `Jobs` (a goroutine has a packet exactly while
its call lasts, and a length to write while it is writing one), `Outgoing`
(while the connection is up the stream is in the middle of the holder's packet
or of none, with the same bytes due) and `Incoming` (what was taken off the
socket has been handed on, but for the frame in the hands of the lock's holder,
and a length taken without its body means that the connection is gone). The
refinement then goes action by action: `WriteBody` is `Commit` or `Refuse`,
`WriteFrame` may be `Refuse`, `ReadDecode` is `Read`, `ServerSend` is `Send`,
`Break` is `Break`, and everything else leaves the abstract variables alone.

### ListenProofs

About `Client`, on the invariants of `ClientProofs`.

- `ChatStaysInPlay`: `Spec => []ChatOnlyInPlay`, for any application. A caller
  checks `State()` and writes later, perhaps on another connection; but the
  packet's ID is looked up in the state that connection is in by then, and the
  registry has one for it in the play state only (`ChatIsPlay`).

The others are about a careful application (`ASSUME Careful`), without which the
`rejoin_after_kick` and `callers` runs show other behaviour:

- `CarefulInvariant`: `Spec => []CarefulInv`.
- `NothingPanics`: `Spec => []NoPanic`, if there are no callers of `Chat` and
  `SetPosition` (`chat_destroy` shows the panic with one).
- `DisconnectEnds`: `Spec => []DisconnectLast`.
- `ListenerIsServed`: `Spec => []ListenerServed`. The invariant is `Reported`: a
  reader that is at its end without having been cancelled has left a
  `DisconnectEvent` on its channel; the step before is the event of a read error.
- `EchoesMatch`: `Spec => []EchoesMatchEvents`, for any number of packets and
  connections.

The last is the longest. That a new reply has a larger ID than the earlier ones
is a fact about the packets still on their way, so the invariant, `EchoInv`,
describes those: keep-alives on their way have increasing IDs that the server has
used (`Numbered`), all larger than what was answered or is about to be
(`Sequenced`). That only keep-alives are answered needs more: a packet decoded in
another state than it was sent in may become anything. Hence `Chain`: while
somebody reads a connection, or `JoinAndListen` is about to start a reader on it,
the packets on their way lead from the connection's state to the server's.
`TailEcho` takes the head off such a chain, `DeliverEcho` appends to one;
`JoinFollows` shows that `Join` goes to the state the server is in after the
packet it has read, or fails and leaves the connection without a reader, and
`DecodesTo` what each packet is decoded to in the right state, in every version.

### SessionProofs and AnswerProofs

About `Session`, for any set of versions and any bound on the server's extra
packets.

- `TypeCorrect`: `Spec => []TypeOK`.
- `IDsExist`: `Spec => []NoMissingID`. Both rest on `ClientInv`, which says where
  a call is by the state of its connection, and on the registry's rows for each
  range of versions.

With `NoLateRequests` (`RequestsAfterPacks` is FALSE, or no version from 1.21.3 on
is tried):

- `ServerFollows`, `ClientFollows`: `[]ServerUnderstands`, `[]ClientUnderstands`.
- `JoinAgrees`: `[]JoinAgreement`.
- `Implements`: `Spec => FollowsPhases`, the refinement of `SessionPhases`.
- `AnswersInOrder`: `[]AnswersMatch`.

The hypothesis is needed: `early_finish` violates `ServerUnderstands` without it
(finding 5), and the `session` run makes it too.

`SessionInv` is about what is on its way. Towards the server, the first packet is
in the state the server is in, each next one in the state after the one before it,
and the client's own state is the one after the last (`Outgoing`, `End`); the same
towards the client while no call of it has failed (`Incoming`). `Starting`,
`AskingStatus`, `LoggingIn` and `ConfiguringBoth` say for each phase what each
side has written and what it has yet to read, so that a packet is read only by a
handler that knows it; `Together` keeps the two ends at most one phase apart. One
lemma per handler shows that it keeps `SessionInv`, from what it writes
(`Effects`) alone. The refinement follows: a step that changes neither end's state
is a stutter, the others are one end's step to the next phase.

`AnswersMatch` needs `AnswersInv`, which numbers the server's requests with two
functions, one over the packets on their way to the server and one over those on
their way to the client; the second begins where the first ends.

### RegistryProofs

About `Registry`, for any sequence of directories, any requested versions and any
number of goroutines, under `RegistryAssumption` and `DataAssumption`: directory
names are numbers separated by dots, below `NaN`; no release has two directories;
the data version a directory holds grows with the release; and the packets of
minecraft-data that the tables do not list have no Go name where they occur. All
are facts about the data; the `registry` run evaluates them on its instance.

- `TypeCorrect`: `Spec => []TypeOK`.
- `GeneratorIsExact`: `Spec => []TablesFollowRules`, whatever the map order.
- `ConstantsInOrder`: `Spec => []ReleaseOrder`.
- `NearestFound`: `Spec => []NearestRelease`, in whatever order the versions are
  met.
- `NoRace`: `Spec => []NeverRaced`, `EveryOwnTable`: `Spec => []OwnTable`.

`RegistryInv` has a part for each pass. `GenInv`: while a directory is read, the
two tables hold the rows of the packets processed so far and are each other's
inverse. `EnumInv`: the enumeration is the parsed list in the order of release
numbers, so that the sort by components and the order of the constants agree.
`LookInv`: the best version so far is the latest among those already scanned that
may stand for the one asked for. `CallInv`: a goroutine only looks up a version
that was found, which is in the table, so that `GetDefinition` never takes the
branch that writes.

### WireProofs

About the operators of `Wire`, under `WireAssumption`: a byte of a VarInt carries
more than one value (`GroupSize`), an `int32` has an even number of values and
needs all `MaxVarIntSize` bytes, the last at most in part, and twice
`MaxPacketDataSize` is less than its values, so that every allowed length is a
positive `int32`. The code's numbers (128, 2^32, 5 and 2097152) satisfy it, and so
do the scaled ones of the runs.

- `VarIntRead`: for every integer, what `WriteVarInt` writes in front of any wire,
  `ReadVarInt` takes off again, as an `int32`, and leaves that wire.
- `FrameRead`: for every threshold and every packet whose size an `int32` counts,
  the frame `WritePacket` makes is well formed and `ReadPacket` finds the packet
  in it, compressed or not.

`WriteVarInt`, `ReadVarInt` and the size of a wire are recursions. Their proofs go
by induction over a set: the numbers a property does not hold of have no least
one. That a recursive function is worth what its equation says is itself proved,
by building it from functions on longer and longer prefixes (`Iterated`). The
heart of `VarIntRead` is `Value`: what the loop of `ReadVarInt` has added up after
`i` bytes, plus what the chain of quotients of `WriteVarInt` has left, is the
value, and the last byte overflows nothing.

### CodecProofs

About `Codec`, for any set of versions, IDs, 64-bit IDs, thresholds, UUIDs and keys.
`CodecAssumption` says that a text may have the 36 characters of a UUID, and
that the longest packet the model writes (one text of `MaxPacketDataSize`, up to
nine VarInts and 64 bytes) has a size that an `int32` counts. In the code that is
2097152 + 109 bytes against 2^32.

- `Carried`: in every version `Decode` takes from each packet the server sends
  the values `Encode` wrote.
- `CodecAlways`: `Spec => []CodecInv`.
- `ServerUnderstood`: `Spec => []Understood`. `ClientFramed`:
  `Spec => []FrameReadable`. `KeepAliveExact`: `Spec => []EchoExact`.
- `Distinguished`: `Spec => []SelfDescribing`.

`Understood`, `FrameReadable` and `EchoExact` speak of a packet that has been read
or written; none is inductive. `CodecInv` adds what holds before that.
`Underway`: a packet on its way is one that the state has, in a frame of the
threshold the client reads by. `Agreed`: between packets both sides have the same
threshold; only while a `ClientboundSetCompression` is on its way is the server's
the one it announces, which `ReadPacket` applies after it has read the frame.

A step then needs two facts: what was written can be read (`Carried` for the
fields, `WiredFrame` for the frame) and it is `Small`, so that its length is a
positive `int32`. The first has one lemma per layout (text, list of packs, list of
properties with or without signatures, ...), by the rule that a writer's value in
front of a wire is read as it was written and leaves that wire. The second adds up
bounds. A list has as many elements as `Sendable` gives it, up to two.

`SelfDescribing` compares a packet with all the client might have written instead.
Two wires are `Apart` if their atoms are of the same kinds throughout, or up to a
byte that differs. That is kept by putting pieces one after the other (`ApartCat`),
so a packet needs only its pieces: an optional value is there by the version, or
behind a boolean; two VarInts have bytes of one length, or differ in the byte where
the shorter one ends. `WrittenInv` says that a packet of the three types comes
from `SendLogin`, `SendClientSettings` or `Chat`, and from no answer. TLC checked
`CodecInv` and `WrittenInv` on the instance of the `codec` run before they were
proved.

### Only model-checked

Liveness, all of it, since it rests on fairness: `KeepAliveAnswered`,
`DisconnectReported`, `DestroyAfterDisconnect`, `JoinReturns`, `Returns`,
`WriteReturns` and `EveryFrameRead`. Every invariant that a passing run checks is
stated by a theorem.

## Not modelled

- `ClientboundUpdateTags` and `ClientboundChatMessage`, which no version
  registers, and the chat component that only the latter would use. The
  `Encode`s and `Decode`s that only a server would call.
- The full width of integers (see `Wire`), the content of strings, the
  compression itself, the mathematics of signatures.
- A malformed packet of the server's beyond what `Conn` calls undecodable or
  empty: `Codec`'s server is well-behaved.
- Calls of `GetStatus`, `Ping` and the `Send...` methods while a reader runs;
  `SetState` and `SetCompression` beside a `WritePacket` of another goroutine.
- Addresses, host names and dialling; `WithConn`.
- In the generator: JSON, templates and formatting, and `findBestProtoNum`,
  whose data is not in the repository. The update workflow.
- The flags, signals and input of the command-line client.
- Waiting of the server for answers the client never gives (a login cookie, a
  pong, encryption): the modelled server goes on.
- What the play state carries besides keep-alives, chat and kicks.

## Plan

1. Lists of any length in `Codec`: `Carried` for packs, properties and names by
   induction over the rounds of the loop, as `WireProofs` does it for VarInts.
2. The data race of two `SetPosition` calls, once a version has an ID for the
   packet.
