# Verification of sony-wh-cli

This directory holds TLA+ models of sony-wh-cli, the TLC configurations that
check them on small instances, and theorems about them with proofs for TLAPS.
`PROJECT.json` lists, in machine-readable form, the components, the runs, the
mutants that each property is known to catch, the source lines behind every
definition (`map`), the findings, the hazards and the theorems.

sony-wh-cli controls Sony headphones over Bluetooth RFCOMM. A daemon, `sonyd`,
owns the headphones; the command-line client `sony-wh-cli`, or anything that
writes a line of text or JSON to its Unix socket, asks it to do things.

    client --- Unix socket ---> IpcServer ----> DeviceService ----> SonyDevice
                               server thread,   _mutex, backoff     _stateMtx
                               executor thread                         |
                                                               SonyProtocolSession
                                                           reader thread, _sendMtx,
                                                           _sessionMtx     |
                                                               transport (RFCOMM)
                                                                       |
                                                                  headphones

All paths below are relative to the repository's root; `core`, `protocol` and
`transport` stand for `libs/sony-core`, `libs/sony-protocol` and
`libs/sony-transport`.

## 1. Inventory

### SonyProtocolSession (`protocol/src/SonyProtocolSession.cpp`)

- State: `_running` and `_sequence` (atomics), `_hasAck`, `_pendingRequest`,
  `_unmatchedFrames` (at most 32), `_lastSeenDataSeq` (under `_sessionMtx`),
  `_sendMtx` (one call at a time), the reader thread and its stream buffer.
- Operations: `connect`, `start`, `disconnect`, `send` (waits for an ACK),
  `sendAndAwaitResponse` (waits for a reply), `setSequenceNumber`; the reader
  loop: receive, parse, acknowledge, drop duplicates, answer the pending request
  or buffer and dispatch.
- Hard: several calling threads and the reader meet on two mutexes, two
  condition variables and two atomics that are written without the mutex; the
  link may break at any time, and each thread notices on its own; retransmitted
  frames; answers that come after their call has timed out; reconnection.
- Correct when: sequence numbers stay bits and alternate; every frame is
  accepted once and in order; answers go to the calls they answer; nothing
  survives a reconnection; no waiter sleeps through the event it waits for;
  `disconnect()` always returns.

### DeviceService (`core/src/DeviceService.cpp`)

- State: `_device`, `_automatic`, `_wasConnected`, `_retrySeconds`, the selected
  and the target address, the connection state and last error, three time points.
- Operations: `connect`, `disconnect`, `startAutoConnect`, `tick`, and readers
  such as `connectionState`; each holds the recursive `_mutex` throughout.
- Hard: long sequences of calls, losses and failures leave combinations of ten
  members that no test tries; time; a state that is stale once the link is lost.
- Correct when: the link is never open without an owner that will close it, what
  is told to clients is so, attempts back off, and a device that can be connected
  to eventually is.

### IpcServer and sonyd (`core/src/IpcServer.cpp`, `sonyd.cpp`)

- State: the server thread's client connections, each with a phase and a
  deadline; the job queue (at most 16, `_jobsMutex`); jobs, shared by the two
  threads, each with a future and a cancelled flag; the executor's last activity;
  `_running`.
- Operations: accept, read a request, enqueue, poll the future, send, time out,
  hang up (server thread); take a job, connect on demand, execute, tick, release
  an idle link (executor thread); start, stop (main thread).
- Hard: a client may leave while its job is queued or executed; the queue and
  the client list have limits; the idle release and an arriving command race; a
  command may outlive its client's deadline; stop() in the midst of all that.
- Correct when: no request is forgotten, none is begun for a client that has
  left, no command loses its link to the idle release, every client is let go in
  bounded time, the link does not stay when nobody uses it, stop() ends everything.

### SonyDevice (`core/src/SonyDevice.cpp`)

- State: the session, the protocol object, the cached device state (`_stateMtx`),
  the dispatcher of notifications.
- Operations: `connect`, `disconnect`, four refreshes, the settings inquiry, seven
  setters, `reset`, `factoryReset`, `sendRaw`; `_onNotification` on the reader thread.
- Hard: the executor's refreshes and setters, and the reader's notifications,
  write the same fields in any order; the old session's reader may still run while
  the next connection is set up; a device addressed in the wrong protocol version
  may be switched off (opcode 0x22).
- Correct when: the cached state follows the last word of the device, a connection
  starts from an empty state, and the version is that of the name it was given.

### Frames, protocols, capabilities

- `FrameCodec` and `_parseStream`: escaping, checksum, length, a stream cut
  anywhere. Correct when decoding inverts encoding, and the parser finds every
  whole frame however the stream is cut, with a bounded buffer.
- `ProtocolV1`, `ProtocolV2`, `DeviceProfileRegistry`, `EqualizerPresets`: layouts
  of requests and replies, the version and the capabilities of a model, the names of
  presets. No state of their own, but a value crosses four of them on its way from a
  command to the headphones and back: each may clamp, invert, shift or cut it.
- `DeviceEventDispatcher`: listeners, and what a notification changes.
- `CapabilityCache`, `CapabilityDiscovery`: a map from a device and its firmware
  to what it can do, saved to a file. Used by tests only.

### Transports, connectors, clients, the rest

- `BluetoothConnectorTransport`, `FakeTransport`, the platform connectors: an open
  descriptor and system calls.
- `BluetoothWrapper`, `CommandSerializer` (transport/legacy): one command at a time
  and the layout of its messages, for `Headphones`.
- `IpcClient`: one request per connection.
- `Logger`: output. `nlohmann/json`: vendored.

### Commands (`core/src/IpcProtocol.cpp`, `JsonProtocol.cpp`, `main.cpp`)

- State: none but the service's; the CLI's confirmation and its `--direct` mode.
- Operations: eighteen commands in two languages, each with its own checks; the
  list of the commands that need the device, kept apart from their execution.
- Hard: the same setting is named by a word, a number and a JSON value, and goes
  through two protocol versions; a failure may come before or after the device
  took it; what is not confirmed must not be wiped.
- Correct when: what is reported to be done is done as documented, what the host
  tells of a setting is what the device has, a wipe needs consent, and no
  command is refused for want of a device that nobody tried to reach.

### Headphones (`transport/legacy/Headphones.cpp`)

The program's predecessor, a library that no binary of the tree links; its tests do.

- State: for each of five settings of sound a desired and a current value; a second
  copy of the noise setting in `_deviceState`, with what else was read;
  `_propertyMtx`.
- Operations: the user's setters, `isChanged`, `setChanges` (one at a time, by
  `SingleInstanceFuture`), the polls and the setters of single features, and
  `_handleNotification`.
- Hard: `setChanges` reads the wishes without the mutex, and any other operation may
  come between its reads, its send and its record; answers are recorded after
  they were true, and one that came too late answers the next question.
- Correct when: the two copies say the same, and what was sent or read, while nothing
  crossed it, is what the headphones have.

The hazards of each component, at their lines, are in `PROJECT.json`.

## 2. Modules

| Module | Models | Extends / uses |
|---|---|---|
| `Session` | SonyProtocolSession, with link and headphones | |
| `SessionProps` | the properties of Session | `Session`, `DeviceStream` |
| `DeviceStream` | abstract: each frame once, in order | |
| `SessionProofs` | theorems: types, a live reader, sequence bits; with an owner that disconnects before it connects, the pending request, the stream, frames kept over a reconnection | `SessionProps` |
| `SessionAnswers` | theorems about connections where no call timed out: answers and sequence bits | `SessionProofs` |
| `DeviceService` | DeviceService, with time, devices and link | |
| `DeviceServiceProofs` | theorems | `DeviceService` |
| `IpcServer` | IpcServer's threads and main() | `Service == INSTANCE DeviceService` |
| `IpcServerProofs` | theorems | `IpcServer`, `Proved == INSTANCE DeviceServiceProofs` |
| `SonyDevice` | SonyDevice, its session seen from above, two generations of headphones | |
| `SonyDeviceProofs` | theorems | `SonyDevice` |
| `FrameCodec` | FrameCodec: operators on sequences of bytes | |
| `FrameStream` | `_parseStream` and what feeds it | `FrameCodec` |
| `FrameStreamProofs` | theorems about the codec and the stream | `FrameStream` |
| `Commands` | IpcProtocol, JsonProtocol, the CLI, the registry, what the protocol versions send and read | |
| `CommandsProofs` | theorems | `Commands` |
| `Headphones` | the older library, its serializer and its notifications | |
| `HeadphonesProofs` | theorems | `Headphones` |
| `MCSession`, `MCDeviceService`, `MCIpcServer`, `MCSonyDevice`, `MCFrameStream`, `MCCommands`, `MCHeadphones` | instances for TLC | the module named |

### Session

A step is what a thread does between two points at which another thread can be
observed: one critical section of `_sessionMtx`, one atomic access to `_running`
or `_sequence`, one call of the transport.

| Code | Model |
|---|---|
| `_running`, `_sequence`, `_hasAck`, `_pendingRequest`, `_unmatchedFrames`, `_lastSeenDataSeq`, `_sendMtx` | variables of the same names |
| `_sessionMtx` | held by a caller at `"checked"` and `"passed"` (`SessionMtxFree`); all other critical sections are one step |
| `send`, `sendAndAwaitResponse` | `Call`, `Acquire`, `Normalise`, `FetchAdd`, `Register`, `Write...`, `Check`, `Block`, `Expire`, `Decide` at position `pc[c]` |
| `_readerLoop`, `_parseStream`, `_handleDecodedFrame` | `Loop`, `Receive...`, `HandleAck`, `SendAck...`, `DropDuplicate`, `AcceptFrame`, `MatchRequest`, `Buffer`, `Dispatch`, `Exit`, `Leave` at position `reader` |
| `connect`, `start`, `disconnect`, `_startReader`, `_stopReader` | `Connect`, `StopReader`, `NotifyStopped`, `Join`, `Close`, `Clear`, `Open...`, `Start`, `StartReader` at position `owner` |
| the transport and RFCOMM | `link`, `toDevice`, `toHost`; `Corrupt`, `Drop` |
| the headphones (external) | `DeviceTakes`, `DeviceAcked`, `DeviceSends`, `DevicePushes`: a stop-and-wait sender with one sequence bit |

A caller that evaluates its wait predicate keeps `_sessionMtx` until it sleeps
(`Check` then `Block`), because `_writeFrame` and the reader clear `_running`
and notify without that mutex; that is where a wakeup could be lost. Frames are
records with an opcode and a sequence number; `for`, `num` and `conn` in a frame,
and `calls`, `conn`, `accepted`, `taken`, `outcome`, `late`, `lastWritten`, are
ghosts that only properties read.

Abstracted: bytes (a frame that arrives corrupt is a lost frame), the header's
reserved fields, frame types other than ACK and DATA_MDR (the reader ignores
them). `setSequenceNumber` is called only on a session at rest, and not with 254
or 255, which `nextSequenceNumber` does not bring back to a bit. Only tests call it;
one passes both (tests/protocol/SonyProtocolSessionTests.cpp:299 and 312) and expects
them on the wire, against `SequenceIsBit`, which is of sessions without them.
A transport that throws `Timeout` from `send` is modelled
(`WriteTimesOut`), though of the transports in the tree only the tests' FakeTransport
does.

### DeviceService

Every operation holds `_mutex` throughout, so each is one action. Time points
become the time left until them, counted down by `Elapse`; the `steady_clock`
comparisons become comparisons with 0. The device below is `link`: closed, live,
or dead (lost, and not yet closed); `discovery` and `reachable` say what
`discover()` returns and which devices accept a connection, and change at any
time. `TickMaintains`, `TickConnects` and `TickFails` are the three ways through
`tick()`. `failures` and `rest` are ghosts for `BacksOff`. `startAutoConnect` is
modelled though only tests call it. `StateTold` therefore allows "searching" to
be told while a device is connected: `startAutoConnect` does not look.

### IpcServer

A connection carries one request, so the connection's name stands for its client
and for its job; a name is used again once neither exists. `phase` and `left` are
the `Client`'s phase and deadline; `queue`, `cancelled`, `answered` are `_jobs`,
the jobs' flags, and the futures that are ready. `executor` is the position of
`_executeLoop`; every step of it that touches the queue, a job, or the service is
an action of its own, so that a client may leave and a link may be lost between
any two. The service's operations are the actions of `DeviceService`, taken with
the executor's (`Service!Connect`, `Service!Disconnect`, `Service!Tick`); `Upkeep`
also lets `tick()` return at once. What a request asks for is one of five kinds,
those the code tells apart. `owner` is `main()`: `Stop`, `Stopped`, `Destroy`.

Abstracted: the contents of requests and answers, `start()`'s lock and socket
files, an error of `poll()`. The client that exceeds `MaxClients` is closed at
once in the code and is simply not accepted in the model: it leaves no state.

### SonyDevice

`Session` models how frames, ACKs and reconnections get through; here the session
is seen from above, as the one component that writes the cached state from two
threads. Its calls come one at a time, since only sonyd's executor makes them; its
reader delivers each frame once and in order, as `InOrderOnce` of `Session` says.

| Code | Model |
|---|---|
| `_version`, `_capabilities`, `_state`, `_refreshStep` | `version`, `capabilities`, `known` and `availability` by feature, `refreshStep` |
| `_session`, its `_running`, `_hasAck`, `_unmatchedFrames`, pending request | `made`, `running`, `hasAck`, `unmatched`, `pending`, `reply` |
| `connect`, `disconnect` | from `Connect` through `Stop`, `Join`, `MarkStale`, `Resolve`, `Reset`, `Clear`, `Open`, `Start` at position `executor` |
| `initDevice`, `refreshAll`, `refreshSettingsStep`, `refreshBattery` | requests in `todo`: `Choose`, `Ask`, `Answered`, `Store`, or `AskRefused`, `AskFails`, `AnswerFails`, `Fail` |
| the setters | `Set`, `Acked`, `Store`, or `SetFails`, `AckFails` |
| `_handleDecodedFrame`, `_onNotification`, the reader's end | `TakeAck`, `TakeFrame`, `Notify`, `ReaderEnds` |
| the headphones (external) | `Replies`, `SwitchedOff`, `Change` |

A reading carries the connection it came over, a ghost by which `KnownOfPeer`
tells readings of one device from those of another. The old session's reader runs
on until it is joined, so it may record what it heard in the midst of `connect()`.
The features are those of the code that matter apart: which are read at connecting,
which in the cycle, which can be heard of, set, and set only after a look at the
capabilities. The name given to `connect()` is the client's (JsonProtocol.cpp:127), and
nothing ties it to the address: here it is the device's own, the other device's, or
absent, which gives the V1 profile without capabilities. `called` remembers the name
the last connection was opened under; only `OffOnlyByName` reads it.

Abstracted: the three battery inquiries are one request; headphones take a request
when it is written and answer in their own time; addressed in the other
generation's format, or asked for what they do not have, they only acknowledge, and
once they are switched off they say nothing; a setter's value is the whole of its
feature; events to listeners, `reset`, `factoryReset` and `sendRaw`, which change
no member. Answers that are one behind (finding 1), and notifications undone by an
older reading, do occur in this model; `Converges` says that the refreshes that
follow make them good.

### FrameCodec and FrameStream

`FrameCodec` has an operator for each function of the class, on the real bytes:
the markers and their escapes have the code's values, the checksum is modulo 256,
the length has four bytes. A function that throws is a predicate that is false
(`IsEscaped`, `IsBody`, `Decodable`, `Encodable`). Bytes after the checksum are
ignored, as in the code.

`FrameStream` puts the parser between them: `Receive` adds a piece of any size to
`streamBuffer`; then each step is one round of the loop in `_parseStream`, one
action for each way through it: `Discard` (no START_MARKER), `Align` (bytes before
one), `Restart` (a second one before the end), `Await` (no end yet; a buffer that
is too long loses a byte), `Extract`. The wire carries whole frames, and frames
that were cut short, that lack a byte or have one altered, and garbage. `sent`
remembers which frames were whole and where they end; only properties read it.
`NothingLost` says that each of those is delivered, in order, once it has come;
`ExactlyWhole` that nothing else is either, but for `Forgeries`: garbage that is a
frame down to its checksum, which no receiver can tell from one.
What happens to a frame that was delivered is the matter of `Session`, which sees
one frame at a time.

### Commands

One command at a time, since the executor takes one at a time; `IpcServer` and
`SonyDevice` have the interleavings, and `Commands` has the values that cross
them.

| Code | Model |
|---|---|
| the request lines, the JSON requests, `--yes`, `--direct` | `Requests`: records of language, verb, argument and flag; `Give`, and what a human confirms |
| `_connectOnDemand`, `commandNeedsConnection` | `ConnectOnDemand`, `NeedsConnection` |
| `execute` of both languages | `TextCall`, `JsonCall` and the actions `Execute...`, in the order in which the code looks: what needs no device, whether there is one, whether it has the feature, what was sent |
| the setters of SonyDevice | `ExecuteSet`: recorded once acknowledged, or failed with or without having been taken |
| `ProtocolV1`, `ProtocolV2`, `parseNotificationPayload` | `Encode`, `Decode`, `ReadBattery`, `Notified`: a value and its bytes in the headphones' `registers` |
| `DeviceProfileRegistry`, `EqualizerPresets` | `Capabilities`, `Version`, `Buds`; `Presets`, `Aliases` |
| the headphones, their user, other hosts (external) | `Change`, `Own`, `Silences` |

Setters clamp, invert and cut what they send, and record what they were asked for;
so a register and what is known of it are different things, and `KnownIsTrue`
compares them. Abstracted: the splitting of a line into words; the wording of
answers, of which `ok`, `refused`, `noDevice` and `failed` remain; equalizer bands,
of which one stands for all; codec and firmware, which no command changes.

### Headphones

`desired` and `current` are the two halves of the five `Property<>`s, `copy` is
`_deviceState.noiseControl`, `known` the rest of `_deviceState`. The user's setters
are `Choose`. `setChanges` is a walk of `changer`: each of its reads, made without
`_propertyMtx`, is a step (`ReadField`), as are the exchange with the headphones
(`SendNoise`, `SendVpt`) and the record under the mutex (`RecordNoise`,
`RecordVpt`). A caller polls or sets one feature: a step to ask, in which it reads
up to an answer, and a step to record. `HandleNotification` takes one as a
whole, as the code does under the mutex.

`recv` gives up after 2.5 s and leaves the link as it is (LinuxBluetoothConnector.cpp:34),
so what comes later stays in the socket, or in `_leftoverBytes`: `unread` holds the
answers nobody has read. `Poll` reads them before its own and takes the first of the
opcode it asks for, whichever question it was given to; `PollFails` gives up after
some or none of them; and `_waitForAck` may take one of them for the ACK of a command
(`AckTaken`). An answer may be sent twice, since the headphones repeat what they
believe was not read.

`undisturbed` and `settled` are ghosts: a thread is undisturbed as long as no
other step changed what it deals with and, if it asked, the answer it read was given
to its own question; what it then records is settled, until the headphones change.
A send made while something is unread may have taken that for its ACK, and leaves
nobody undisturbed; `device` then is what the headphones have once they have taken
what they were sent. Without such a condition nothing that matters can be
claimed of this code: it keeps no version of what it read.

Abstracted: the serializer's bytes other than those of noise and VPT; sequence
numbers (a call returns or throws) and ACKs that come late, which are skipped or
taken for later ones and say nothing of a setting; polls that ask several questions
are polls of one feature each; a value given to `setEqualizerCustom` is recorded
as it was given though a clamped one is sent, so `Values` holds legal ones.

## 3. What is checked

Each property has a mutant: a plausible bug in a mapped definition that makes TLC
find the property violated under the same configuration.

| Run | Question | Properties |
|---|---|---|
| `session_calls` | Do two threads that call at once, over a link that may break, disturb each other? | `TypeOK`, `SequenceIsBit`, `PendingOwned`, `TimelyAnswers`, `Alternates` |
| `session_reconnect` | Does anything of one connection reach the next; is each frame taken once and in order? | `ReaderAlive`, `NoCrossConnection`, `DroppedOnlyDuplicates`, `InOrderOnce` (refinement of `DeviceStream`) |
| `session_liveness` | Does every thread get on? | `NoLostWakeup`, `OwnerReturns`, `StreamFlows`, `CallReturns` |
| `service` | Can any order of calls, losses and failures confuse the service? | `TypeOK`, `LinkTracked`, `StateTold`, `BacksOff`, `Reconnects` |
| `server_safety` | Can clients, executor, idle release and loss of the link get in each other's way? | `TypeOK`, `NoRequestForgotten`, `RefusedForAReason`, `AnswersKeepLink` |
| `server_liveness` | Is every client let go, the link released, the server stopped? | `ClientsLeave`, `LinkReleased`, `StopEnds` |
| `device` | Do executor and reader, over reconnections to another device, keep what is known true? | `TypeOK`, `OffOnlyByName`, `KnownOfPeer`, `AvailabilityTold`, `Converges` |
| `stream` | Does every whole frame get through, and nothing else, however the stream is cut and damaged? | `BufferBounded`, `ExactlyWhole`, `Delivers` |
| `commands` | Is what a command is said to do done, and what is told so, in both languages and for every kind of model? | `KnownIsTrue`, `DoneIsDone`, `WipedOnConsent`, `AskedFirst` |
| `headphones` | Can wishes, sends, answers and notifications that cross each other leave the older library with a wrong belief? | `TypeOK`, `CopiesAgree`, `SettledIsTrue` |
| `session_late_reply` | finding 1 | `ReplyIsOwn` is violated |
| `server_on_demand` | finding 2 | `OnDemandOnly` is violated |

### Bounds

Named constants bound what would grow without end; the guards that use them say so.

- Session: 2 calls at most, since `_sendMtx` lets one call in at a time and what a
  call leaves behind is seen by the next; 2 frames in flight, enough for an ACK and
  a reply, or a frame and its retransmission; `MaxUnmatched` is 2, or 1 where
  eviction is to happen. `session_calls` starts at sequence 0 or 2, so that the
  counter must be brought back while the reader stores into it. `session_reconnect`
  has two connections and two unsolicited frames, so that the second connection
  can meet everything the first may have left; the writes of the transport may
  time out there. `session_liveness` has one corrupted frame, in either direction, and
  two connections, of which the second may be asked for at any time, in the midst of
  the first too (`OrderlyOwner` is FALSE there).
  Retransmission is unbounded: the headphones may repeat a frame at any time
  until its ACK arrives, so duplicates are met in every run.
- DeviceService: two devices, so that the wrong one can be connected; pauses of 1,
  2, 4 and 5, so that doubling reaches its limit and the limit is no power of 2.
- IpcServer: three connections of which two may be open, so that a third can
  meet the queue's limit (1) and the job of a client that has left; every deadline
  is one unit, so that each may pass before or after any event. `IdleTime` is 0 in
  the safety run, so the release is as eager as it can be, and 1 in the others.
  In the liveness run a single name is used again and again; the properties are
  about one client at a time.
- SonyDevice: a device of each generation and two connections, so that either may
  follow the other or itself; one change on the headphones, one command, one
  timeout, which suffice for a reply that comes late, a notification overtaken by a
  reading, and both at once; a buffer of one frame, so that frames are evicted, and
  three frames in flight. Each connection is under either name or none. All 819,476
  states are explored.
- FrameStream: `MAX_FRAME_SIZE` is 13, the length of the longer frame, so that 41
  bytes without an end exceed the buffer's limit; pieces of 1 to 3 bytes, so that
  pieces end at every place and the limit is passed by any amount. The payload has
  an ESCAPE_MARKER, and the checksum is one. One damaged frame among two whole
  ones, in any place, in all ways that `Damaged` gives with the bytes 0 and the
  three markers. That no damage passes for a frame is a fact about these frames:
  an 8-bit sum misses some, such as a length that is altered in just the right way.
  Or one piece of garbage instead: an endless frame, an ESCAPE_MARKER before an
  END_MARKER, or a frame that nobody sent; that one is delivered, and `ExactlyWhole`
  says that the two others are all the same, in order. `Delivers` counts only them.
- Commands: a model of each kind: one without a profile, two of the first
  generation, two of the second, buds among them; every command in both languages,
  with arguments in, at and just out of their bounds, words that are none, and no
  argument; one command and one change by the headphones, before or after it, with
  connections, readings and lost links as often as they like. Two commands in a
  row are not explored: what the first would leave to the second, other settings,
  something known or stale, a link, a change and a connection leave as well.
- Headphones: a level that the second generation is sent and the serializer refuses
  for the first (above 19), beside 0, with which every copy starts; the headphones
  start with the effect off, at that level; a VPT preset and
  none, one surround position, one feature that is answered among ten; one caller
  beside `setChanges`; two choices, so that one may be made while the other is sent,
  one setting or change of the headphones, and one answer left unread, which is
  enough for it to answer the next question or to be taken for an ACK, and for the
  next question's own answer to be left in its turn. 5.2 million states.

`CHECK_DEADLOCK` is on in every run.

### Fairness

- Session (`FairSpec`): weak fairness of each thread's steps: the operating system
  runs threads that can run; and of the headphones' steps. There is none on
  deadlines: `NoLostWakeup`, `OwnerReturns` and `StreamFlows` hold though no
  timeout ever fires. Only `CallReturns` assumes that deadlines pass (`TimersFire`),
  since an ACK that was corrupted is never repeated. Losses, button presses and
  calls are never obliged to happen.
- DeviceService: weak fairness of `Tick` and `Elapse`. The executor calls `tick()`
  in every round in which no job waits, every 100 ms.
- IpcServer: weak fairness of the executor, of time, of the steps of `main()` after
  a signal, and of the server thread's work that does not depend on a client:
  closing a late one, taking an answer that is there, ending. A client is never
  obliged to write, to read, or to hang up.

- SonyDevice: weak fairness of the executor and of the reader; strong fairness of
  the two periodic inquiries, since `tick()` makes each by its own timer, whatever
  commands come between: a command can delay an inquiry, and cannot take its place
  for ever. Changes, commands, timeouts and losses are never obliged to happen.

- FrameStream: weak fairness of the reader's two kinds of steps; nothing is
  assumed of what is sent.
- Commands and Headphones: none; their properties are safety.

## 4. Findings

1. `session_late_reply`: `sendAndAwaitResponse` first looks into
   `_unmatchedFrames`. A reply that came after its request timed out is returned as
   the answer of the next request of that opcode, whose own reply is buffered in
   turn: from then on each answer is one behind.
2. `server_on_demand`: `DeviceService::connect()` leaves `_automatic` set when it
   fails, so `tick()` keeps trying, every 30 s at most, until the headphones
   answer, long after the command was answered. README.md and sonyd.cpp say that
   sonyd connects only when a command needs it.

`TimelyAnswers` and `Alternates` are the counterparts that hold: as long as no call
of the connection has timed out, answers are not mixed up. `Alternates` is stated of
a session that runs. The proof needed that, and TLC with three callers shows why:
`_stopReader` clears `_running` before the transport is closed, one call returns,
another still writes, the late ACK sets the counter back, and a third writes the same
bit again. Its call fails anyway, for the session is being disconnected.

Other observations, met while modelling, which no run of their own records:

- `_expectedAckSeq` is stored and never read: any ACK releases the waiting call, so
  after a timeout the late ACK makes the next `send()` succeed though its frame has
  not been taken. `TimelyAnswers` fails without its `~late`.
- `connect()` on a session whose write has failed does not stop the old reader
  first, because neither `isConnected()` nor `_running` says that there is one. The
  new connection is read by the old reader, with the old `_lastSeenDataSeq`, and its
  first frame may be dropped. `SonyDevice` disconnects first and is not affected.
  `session_liveness` has such an owner, and shows that the threads get on;
  `DroppedOnlyDuplicates` is not checked with one, and would not hold.
- IpcServer: every request that is executed, `status` and those of JSON that need no
  device too, starts the idle time anew (IpcServer.cpp:154), so a client that asks one
  more often than that keeps the link. `LinkReleased` is about the time after commands
  have ceased.
- Commands: the text language checks no capability for the equalizer, nor does
  `setEqualizerPreset`: headphones without one acknowledge and ignore the request,
  and the command is reported OK. `KnownIsTrue` and `DoneIsDone` therefore speak of
  features the model has.
- SonyDevice: the JSON `connect` takes an address and a name, and the name alone
  chooses the protocol version. Given the address of first-generation headphones with
  the name of a second-generation model, sonyd asks for the battery with opcode 0x22
  and switches them off, which the comments at SonyDevice.cpp:29 and ProtocolV1.cpp:12
  mean to prevent. `OffOnlyByName` says that nothing but such a name does it: no
  version left over from an earlier connection, and no missing name.
- Headphones: the older library has finding 1 too. An answer that comes after
  `recv` gave up is returned to the next question of that opcode
  (BluetoothWrapper.cpp:63), and recorded as the present setting; if the answer to
  that question is left in its turn, every later one is one behind. `SettledIsTrue`
  and `SettledStaysTrue` therefore speak of answers that were given to the question
  they answer, as `TimelyAnswers` does of connections without a timeout. And
  `_waitForAck` takes any message for the ACK, so a command may be reported as taken
  on the strength of an old answer.
- Headphones: with V2 headphones `isChanged()` is true from the start and for ever, for
  the current surround position starts out of range and only the V1 branch of
  `setChanges` fulfils it, whatever Headphones.cpp:243 says; a notification about the
  battery makes the properties anew from the copy, and so forgets a wish that was not
  sent; VPT and surround chosen together send VPT only; the `logic_error` called
  impossible in `setChanges` is reached when VPT is chosen and taken back between two
  of its reads; a choice made during the send is believed to be sent.

## 5. What is proved

TLAPS checks these for all values of the constants that satisfy the assumptions
`NumberAssumption`, `NameAssumption`, `ServiceAssumption`, `ServerAssumption`,
`DeviceAssumption`, `CodecAssumption`, `StreamAssumption`, `CommandAssumption`,
`RequestAssumption`, `OwnAssumption` and `HeadphonesAssumption`, which TLC evaluates in every run of the module concerned.

| Theorem | Module | Argument |
|---|---|---|
| `TypeCorrect` | `SessionProofs` | `TypeOK` is not inductive. `TypeInv` adds `BatchInv` (a reader that handles frames has one, of data once it is past the ACK), `DeviceInv` (a frame that is retransmitted heads the headphones' queue) and `OwnerInv` (the bound on connections still has room when one is opened). |
| `ReaderStaysAlive` | `SessionProofs` | `ReaderAlive` is inductive on its own: only `StartReader` sets `_running`, together with a new reader, and a reader leaves only after clearing it. |
| `SequenceStaysBit` | `SessionProofs` | `SequenceIsBit` speaks of frames on the link only. `BitInv` adds `HolderInv` (a caller past `Acquire` holds `_sendMtx`, so only one of them touches the counter, beside the reader) and `CounterInv` (the counter is at most 253 between calls, at most 1 for a caller about to add, and the number drawn is a bit). The reader only ever stores a bit, which keeps all of it. |
| `PendingStaysOwned` | `SessionProofs` | Assumes an orderly owner, and that no write times out. `PendingInv` adds that a write that failed has ended the session, and that only requests, no `send()`, are pending; `HolderInv` says that one call at a time can have made it so; `IdleInv` that `connect()` finds no call at work. |
| `StreamIsInOrder` | `SessionProofs` | Assumes an orderly owner. Every step is one of `DeviceStream` or none, given `StreamInv`: `NumbersInv` (data on its way is the current frame, with the headphones' bit, or the one before, with the other), `OrderInv` (copies of the current frame come behind copies of the one before, and so do their ACKs; while an ACK of the current frame is on its way no older copy is), `TakenInv` (what is acknowledged is taken, but for the frame the reader holds between `SendAck` and its comparison) and `SeenInv` (`_lastSeenDataSeq` is the bit of the last frame taken). The lemmas about `NoneBehind` and `InOrder` say what taking from, cutting and adding to queues does to the order of what is in them. |
| `DuplicatesAreTaken` | `SessionProofs` | By the same invariant: a frame that carries the bit last seen is the last one taken. |
| `NoFrameCrosses` | `SessionProofs` | `CrossInv`, with `NumbersInv` (data on its way is of the present connection) and `IdleInv` (when the reader starts, nothing is kept). |
| `TimelyAnswersAreOwn` | `SessionAnswers` | Assumes an orderly owner and `Ops \cap PushOps = {}`. `OrderlyInv` adds to the above `ContentInv` (a frame that answers nobody is a notification, and all copies of the current frame say the same) and `TimelyInv`, of a connection without a timeout. `LinkPart`: at most one command is on its way, that of the call which waits, and then no ACK and no answer is (`CommandInv`); an ACK comes once, ahead of the answer (`AckInv`); one answer is on its way or queued in the headphones, to that call (`AnswerInv`). `SessionPart`: what the session has been told belongs to that call, and what it buffers is notifications. A call that returns leaves nothing on the link (`Quiet`), so the next starts as the first one did. |
| `BitsAlternate` | `SessionAnswers` | By the same invariant: `ParityPart` says that the counter is the other bit than the last one written, and so is the number drawn, also after the reader has stored an ACK's bit, which is what `AckInv` is about. |
| `TypeCorrect` | `DeviceServiceProofs` | `TypeOK` is inductive; the pause stays in `1 .. MaxRetry`. |
| `LinkStaysTracked` | `DeviceServiceProofs` | `LinkTracked` is inductive. |
| `StateStaysTold` | `DeviceServiceProofs` | `StateTold` speaks of `connectionState()`, which masks a lost link; the inductive `StateInv` speaks of the members themselves. |
| `BacksOffAlways` | `DeviceServiceProofs` | `BacksOff` compares the time since the last attempt with `Pause`, a recursive function of the number of failures in a row. By induction over that number (`PausesExist`, `PausesAgree`), `Pause` is in `0 .. MaxRetry` and obeys its recursive equation (`PauseValue`), and does not decrease (`PauseGrows`). The inductive `PauseInv` says that the time since the last attempt (`rest`) and the time left to the next (`attemptIn`) make up the pause that is due, that the pause after it (`retrySeconds`) is at least what the next failure calls for (`BackoffKeepsUp`), and that a link that was lost starts the count again. |
| `ServerImplementsService` | `IpcServerProofs` | The service's variables are the server's own, so the mapping is the identity: every action of clients, executor and `main()` is one operation of the service or none (`ServiceStep`). |
| `ServiceStaysSound`, `ServiceBacksOff` | `IpcServerProofs` | Hence the four theorems about DeviceService hold of the service behind the server; `SameService` and `SameSpec` says that both modules speak of the same definitions. |
| `TypeCorrect` | `IpcServerProofs` | `ServerTypes` adds that a busy executor has a job; the service's types come from `ServiceStaysSound`. |
| `RequestsRemembered` | `IpcServerProofs` | `NoRequestForgotten` is not inductive. `JobInv` adds why a connection's name stands for its job: no name is queued twice and every queued one has a request (`QueueOwned`), the executor's job has one and is not queued (`JobOwned`), who is cancelled is gone but its name is not free (`CancelledGone`), who has yet to ask has no job (`ReadersFresh`), and the threads end before `stop()` empties the queue (`EndsInOrder`). |
| `RefusalsExplained` | `IpcServerProofs` | `RefusedForAReason` given `JobInv`: the request of the executor's job does not change under it, for its name is taken, and `main()` destroys no service that executes. |
| `LinkKept` | `IpcServerProofs` | `AnswersKeepLink` from `Counted` (between jobs the time counted is at most that since the last answer) and `LinkTracked` of the service: while the link is live `tick()` closes nothing, so a release is due to `IsIdle`. |
| `TypeCorrect` | `SonyDeviceProofs` | `TypeInv` adds `RoomInv`: a device, and room in the bound on connections, whenever one is to be opened, and a frame whenever one is told of. |
| `OnlyNameSwitchesOff` | `SonyDeviceProofs` | `OffOnlyByName` follows from what `version` is at the moment of a battery inquiry. `DeviceInv` adds `GoalInv` (an executor between `Resolve` and `Start` has a device and a name to connect to), `VersionInv` (from `Resolve` on, the version is V2 only if the name is of such a model), `OpeningInv` (from `Reset` to `Start` there is no session, and without one the transport is closed) and `CalledInv` (while the link is open, V2 is spoken only if the connection was opened under a second-generation name, but for the moment between `Resolve` and `Reset`, when nothing is asked). Nothing is assumed of the names. |
| `LinkStaysHeld` | `SonyDeviceProofs` | `LinkHeld`, by the same `DeviceInv`: `Start` replaces no session, so it closes nothing. |
| `KnownStaysOfPeer` | `SonyDeviceProofs` | `KnownOfPeer` needs `OriginInv`: by `OnItsWay` every frame that is buffered, answered with, heard or in flight, and the value about to be stored, is of the present connection; with `EndedInv` (without a session there is no reader and nothing buffered) and `ClearedInv` (nothing is known when the transport is opened). |
| `AvailabilityStaysTold` | `SonyDeviceProofs` | `AvailabilityTold` says nothing of the steps between the end of a session and `_markStaleAll`: `ToldInv` is the same for every place of the executor but those. `SessionInv` says that whoever records, the executor or the reader, does so while there is a reader, and (with `EndedInv` and `OnItsWay`) a reading of a connection. |
| `BufferStaysBounded` | `FrameStreamProofs` | `BufferBounded` is not inductive: the parser takes one byte from a buffer that is too long. `LimitInv` says why that is enough: it is the START_MARKER, and the only one, so all that is older than the next piece goes in the next round (`StartWithin`). Nothing is assumed of the bytes. |
| `FrameRoundTrip` | `FrameStreamProofs` | Of every frame whose payload has a length of four bytes: its code can be decoded, and to itself. `EscapeRoundTrip` says that unescaping undoes escaping whatever the bytes are, by induction over their number: another byte escaped adds one byte or two (`EscapeAppend`), and unescaping those adds the byte (`UnescapeAppend`). What remains are the places of the parts and the length, byte by byte (`LengthFits`). |
| `NothingIsLost` | `FrameStreamProofs` | `NothingLost`, the first half of `ExactlyWhole`, is about delivered frames; the invariant `StreamInv` is about bytes. It counts the bytes that the parser has dropped (`Base`) and says of each frame sent whole (`NoneTorn`) that all of it was dropped or that each of its bytes is still in its place, in the buffer and behind that on the wire; and that those dropped were delivered in order (`GoneDelivered`). Each round drops bytes up to the start of such a frame at most (`AlignDrops`, `RestartDrops`, `AwaitDrops`, `DiscardDrops`), or just that frame, which decodes to what was sent by `FrameRoundTrip` (`ExtractDrops`): its markers are escaped within, so the first delimiter behind its START_MARKER is its own. `NoneLeft` says that the loop does not end before that. |
| `CleanIsExact` | `FrameStreamProofs` | On a line with nothing but whole frames the parser is always at the start of one (`Tidy`), so no round but `Extract` drops anything (`NothingToDrop`): the frames delivered are those sent, each in the place of its number, as `ExactlyWhole` asks. |
| `NoiseSurvives` | `CommandsProofs` | `DecodeNoise` of `EncodeNoise` is the setting itself, for every one that can be chosen (`Choosable`: ambient sound of level 1 to 20, or another mode and level 0), field by field, in each layout. |
| `BandsSurvive` | `CommandsProofs` | What is read back of a band is what was asked for, clamped to -10 .. 10. |
| `WipesOnConsent` | `CommandsProofs` | `CommandInv` adds `ConsentInv` (a request for a factory reset that carries the flag had consent) and `ModelInv`. Only `ExecuteReset` wipes; `TextWipe` and `JsonWipe` say which requests get there, and `WipedModel` which models. |
| `AsksFirst` | `CommandsProofs` | `AskedInv`: a command at `"ready"` that needs the device was preceded by a connection or an attempt at one. The two lists that the code keeps of what needs the device, `Deviceless` and `NeedsConnection`, are compared there. |
| `KnownStaysTrue` | `CommandsProofs` | `KnownIsTrue` needs `CellsInv` (headphones of the first generation tell of an empty right cell: `ReadingTrue`, whichever questions go unanswered) and that what the languages let through (`Allowed`: `TextAllowed`, `JsonAllowed`) survives the wire (`SetSurvives`, from `NoiseSurvives` and `BandsSurvive`). A preset and the bands disturb each other, so it matters that no model has one without the other (`PresetsWithBands`). |
| `DoesWhatIsDone` | `CommandsProofs` | `TextDocumented` and `JsonDocumented` go through the verbs: what is asked of the device is what the help says, for every argument, or, of presets by number and of `focusOnVoice`, which the help does not know, what the request says. By `SetSurvives` it is also what the headphones are left with. |
| `TypeCorrect` | `HeadphonesProofs` | `TypeOK` says nothing of what is under way. `Types` adds `DeviceTypes` (the headphones hold, and notifications tell, settings that fit their fields), `LinkTypes` (what is unread is answers), `CallTypes` (an answer is one the headphones could give, to this question or an earlier one) and `ChangerTypes` (what `setChanges` has put together so far). |
| `CopiesStayAgreed` | `HeadphonesProofs` | `CopiesAgree` is inductive given `Types`: each of the three writers makes one of the copies of the other. |
| `SettledStaysTrue` | `HeadphonesProofs` | `SettledIsTrue` needs what the threads carry: by `ChangerExact` an undisturbed `setChanges` has read what the user wants and sent it, by `CallsExact` an undisturbed caller's answer is what the headphones have, since what stands in the stream behind the unread answers is theirs of now (`StreamTypes`); and it needs `CopiesAgree`, since notifications rewrite the properties from the copy. |

The theorems of Session from `PendingStaysOwned` on have hypotheses, each of which is
needed: without it TLC finds the property violated.

- `OrderlyOwner`: `connect()` comes after a `disconnect()` has returned, and not while a
  call is at work. `SonyDevice`, the only owner in the tree, does so (its executor makes
  the calls too). An owner that does not gets the old reader with the new connection
  (section 4), and with it frames that are dropped, out of order, or of the connection
  before.
- `~WritesTimeOut`, of `PendingStaysOwned` only: `ITransport::send` throws no `Timeout`.
  `BluetoothConnectorTransport::send` does not, the tests' `FakeTransport` can. One that
  does leaves its request pending in a session that goes on, for `_writeFrame` ends the
  session on every error but that one.
- `Ops \cap PushOps = {}`: the headphones notify with other opcodes (0x25, 0x59, 0x69)
  than those they answer with (0x23, 0x57, 0x67). The dispatcher takes both, but the
  requests in ProtocolV1.cpp and ProtocolV2.cpp await the latter only. A notification
  with the opcode of an answer is returned as the answer.

The other theorems have none but the assumptions named above. `late`, by which
`TimelyAnswers` and `Alternates` exempt a connection, is set when a call ends with a
timeout (`Decide` after `Expire`, `WriteTimesOut`); finding 1 is what happens then.

The strengthened invariants were first checked with TLC on the configurations above;
`OrderlyInv` also with notifications, losses and three callers.

Induction over the natural numbers is done without a predicate as a parameter: the
numbers of which something holds are a set, and a set that lacks some number lacks a
least one, because `<` is well-founded (`SetInduction`, from `WFMin` and
`NatLessThanWellFounded`). That is how what `Pause` and `FlattenSeq` compute is known
for every number and every length. Leaves that a prover needs more than about a
second for name it with a time limit, so that they do not depend on a fast machine.

Only model-checked: `ExactlyWhole` where the line is damaged. It does not hold for
every value of the constants, since damage may have the right checksum by chance, so
there is no such theorem: `CleanIsExact` and `NothingIsLost` are what holds of all.
And all liveness, here and for the other components: TLAPS has no
ENABLED here.

`CodecAssumption` says that `MAX_FRAME_SIZE`, 2048 in the code, is at most 2^24, so
that the four bytes are enough for the length of what `encode()` does not refuse.
`RequestAssumption` says that a request has its parts, a whole number among them;
`OwnAssumption` that headphones of the first generation tell of an empty right cell,
as the comment at ProtocolV1.cpp:91 says.

## 6. Not modelled

- The splitting of request lines into words, the wording of answers, and the JSON
  text: they are data. So are the settings that are only read (codec, firmware).
- `CapabilityCache` and `CapabilityDiscovery`: one map under one mutex, and questions
  in a fixed order; only tests use them. That `put()` and `clear()` take the mutex
  twice when a path is set is seen in the source, and is in the list of hazards.
- The list of handlers of `DeviceEventDispatcher`.
- System calls: sockets, D-Bus, Windows and macOS Bluetooth, files.
- The legacy `BluetoothWrapper`'s sequence numbers, and its `recv` that returns nothing
  for ever once the connection has ended (in the list of hazards); the logger, the
  vendored JSON library.
- Destruction of a session in use by another thread, which no code path does.

## 7. Plan

In this order:

1. Done: `Session`, `DeviceService`, `IpcServer`, their runs and first theorems.
2. Done: `SonyDevice`: executor and reader over the cached state, its run and
   theorems.
3. Done: `FrameCodec` and `FrameStream`, their runs and theorems: the round trip, that
   no frame is lost, and that the buffer is bounded.
4. Done: `Commands`: requests in both languages, the registry and the layouts, their
   run and theorems.
5. Done: `Headphones`: settings wanted and settings told, and the thread that applies
   them, its run and theorems.
6. Done: `IpcServerProofs`: that the server's service is a `DeviceService`, and the
   server's safety.
7. Done: all safety of Session: the pending request, that it implements `DeviceStream`,
   reconnections, answers and sequence bits; of SonyDevice and Commands: what is told
   of each feature, and what a command does.
8. `EventDispatcher`: handlers that come and go while an event is delivered; the
   Linux connector's descriptor; `Capabilities`: lookup order and the mutex.
