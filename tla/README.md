# MacPhoneMirror in TLA+

MacPhoneMirror is a macOS receiver for iPhone screens: it advertises an AirPlay
service, accepts control and video connections, captures USB devices, opens a
window per mirrored device, and sends pointer and keyboard input back over
Bluetooth HID. Almost all of its state is shared between the main thread, tasks
of the Swift executor, dispatch queues and callbacks of system frameworks. This
project models that part, checks it with TLC and proves the central invariants
with TLAPS. Paths below are relative to `Sources/MacPhoneMirrorCore/` unless they
say otherwise; the C sources are under `Sources/CAirPlayFairPlay/`.

## The system

| Component | State | Operations | Module |
|---|---|---|---|
| Service switch: `SessionManager` (`startListening`, `stopListening`, `setServiceEnabled`, `updateServiceName`), `AirPlayServiceController`, listener part of `NetworkStreamReceiver` | switch, generation, listening flag, receiver state, the `NWListener`, the start continuations | enable, disable, launch, rename, listener callbacks | `AirPlayService` (+ `AirPlayServiceProofs`) |
| Mirror sessions: session part of `SessionManager`, `MirrorSessionStore`, `USBAutoConnectCoordinator`, `USBDeviceDiscovery`, `AVFoundationUSBReceiver`, the session windows of `MacPhoneMirrorUI` | session, receiver and window maps, active session, tracked USB device, published state | plug, unplug, stream start and end, connect, close, stop all, disable | `MirrorSessions` (+ `MirrorSessionsProofs`) |
| Control connections: `AirPlayConnectionHandler`, `AirPlaySessionContext`, registry part of `NetworkStreamReceiver` | registry, per-connection flags, the shared context, audio/timing/mirror servers on or off | accept, each kind of request, end of a connection, `stop()`, `endCurrentSession()` | `AirPlayControl` (+ `AirPlayControlProofs`) |
| Mirror video: `AirPlayMirrorServer`, `MirrorStreamSession` | listening socket, active session, descriptors, session queue, decoder configuration | accept, replace, stop, shutdown, read loop, reset | `MirrorServer` (+ `MirrorServerProofs`) |
| Bluetooth HID advertising: `BluetoothHIDTransport` (connect, stop), its peripheral manager's callbacks, the GATT installation | what is wanted, active, installed; waiting continuations; the peripheral manager | connect, its timeout, stop, callbacks of CoreBluetooth | `HIDAdvertising` (+ `HIDAdvertisingProofs`) |
| FairPlay session: `AirPlayFairPlaySession`, `/fp-setup`, `fairplay_playfair.c` | one handle with one key message for all phones | setup, handshake, decryption of a stream key | `FairPlaySession` (proofs in `AirPlayAudioProofs`) |
| Key computation: `playfair/playfair.c`, `omg_hax.c`, `modified_md5.c`, `sap_hash.c`, `hand_garble.c` | buffers on the stack | key schedule, block decryption, session key | `PlayfairBlock`, `PlayfairChaining`, `CBCDecryption`, `PlayfairKey`, `Playfair` (+ `PlayfairProofs`) |
| HID reports: rest of `BluetoothHIDTransport`, `SessionInputRouter`, the drag gesture of `MirrorViewportView` | gesture tasks, subscribers, buttons, cached reports, report queues | drag, let go, shortcut, notify, subscribe, ready again | `HIDReports` (+ `HIDReportsProofs`) |
| Audio: `AirPlayAudioServer`, `AirPlayAudioPlayback`, SETUP of audio streams | sockets, expected peer, stream configuration, sequence window, playback queue | set up, stop, drain, play, switch of the preference | `AirPlayAudio` (+ `AirPlayAudioProofs`) |
| Video decoding: `AirPlayH264Decoder`, `VideoDecoder` | parameter sets, wait for IDR, decoder session | ingest, decode, reset | planned: `VideoGate` |
| Framing: `MirrorStreamSession` (bytes), `AirPlayHTTPParser` | buffer, mode | append, parse | planned: `MirrorFraming`, `HTTPFraming` |
| Timing: `AirPlayTimingServer` | socket, loop | start, stop | on or off in `AirPlayControl` |
| Coordinates: `InputCoordinateMapper` | none | map | planned: `CoordinateMapper` |

How they interact. The UI calls `SessionManager` on the main thread. It starts and
stops `NetworkStreamReceiver` from tasks and from the main thread; the receiver runs
its listener and all control connections on one serial queue and publishes "mirroring
started" and "session ended", which `SessionManager` handles later on the main queue.
A control connection decrypts the key of its stream through the one FairPlay handle, which keeps
the last key message of whichever phone, and `playfair_decrypt`, which derives a key from that message and decrypts with it;
it writes the result to the process-wide `AirPlaySessionContext`, which the mirror
server reads on its own queue when a video connection arrives. USB device lists
arrive on the main queue and spawn tasks that open captures and install sessions in
the store. Window notices call back into `SessionManager`.

What is hard about it: starts, stops and renames that overlap an `await`; locks
dropped between a check and the write that depends on it; events and published
values that wait in the main queue while the state moves on; requests pipelined
behind the end of their own connection; file descriptors reused after a close; jobs
that hold their object weakly; one key message for all phones; and C code that permutes, expands and chains
its bytes in place, where the order of two lines decides what is read. `PROJECT.json` lists each hazard at its line.

## Modules

**`AirPlayService`.** Actors are the main thread and tasks: a *Starter* runs one
`startListening(generation:)`, a *Renamer* one `updateServiceName`. `pc` says where
each stands; every critical section of a lock in the code is one action, and what lies
between two of them may interleave. `StopGrab`, `StopCancel`, `StopMark` are `stop()`,
run by whoever calls it. `TakeUpdate` and `ApplyUpdate` are the two halves of
`handleListenerState`, around the unlock. The `NWListener` is external: it
becomes ready or fails, and a cancel queues one last update. A listener is named by
the task that bound it, since a task binds at most one. Left out: the message of a
failure, the TXT record, the mirror server behind `start()` (it is in the next modules).

**`MirrorSessions`.** The main dispatch queue is a sequence of closures: AirPlay
events, device lists, and the updates of `state` and `sessions` posted from elsewhere.
A handler on the main thread is one action, including the windows it dismisses and the
list it posts. The start of the coordinator at the end of `startListening` runs beside it: the last look at the switch (`CheckSwitch`), the lock (`EnterStart`), `discovery.start()` (`Scan`)
and the sink (`Subscribe`) are steps that a stop or another start may come between; a list that the discovery publishes goes to every sink, and a new sink gets the last one. A cancelled subscription to device lists leaves closures behind that do nothing (`Undelivered`, `HandleNothing`). `connectUSB` runs beside it in steps: `Connect` (state and device lookup),
`RunStart` on the receiver's queue, `Install`, `ReadList`, `Publish`, `OpenWindow`, or
`ConnectFails`. `firstRemainingSession()` and the successor of an active session are
"any" in the code (dictionary order) and a choice here. Left out: orientation, input
transports, frames, the failed state of the service. `discovery.start()` and the coordinator's `stop()` are one step each: that two starts race on the observers and a start with a stop on the unlocked
set of subscriptions (undefined in Swift) is not in the model. A receiver that fails to start leaves the call of `startListening` pending (`due`) until the next toggle.

**`AirPlayControl`.** One serial queue: accepting a connection, each request of a received
segment, and its end are actions. A segment may hold several requests, and the loop over
them does not look at `isFinished`, so requests behind a TEARDOWN are handled; the history variable `late` records that it happened. `stop()` and
`endCurrentSession()` run on another thread in four or five steps. A handler is alive while the
registry or the array of a running stop holds it, because callbacks hold it weakly. Requests are
reduced to the nine kinds that differ in what they change; a SETUP with keys *and* streams is
the two kinds one after the other. A SETUP whose audio or mirror server cannot be started is a
choice of its action; `start()` succeeds with the mirror server down, so `Init` takes both, and a SETUP of video that finds it down fails with the context written. Of the mirror server there is what the control connections meet: it
reads key (`ReadKey`) and stream id (`ReadStream`) in two lock sections when a video connection is accepted, and a stream announces itself on the session queue (`Announce`), which no end of a session stops. `torn` records that another stream was
set up between the two reads. Keys and stream ids are named by the connection that brought them.

**`MirrorServer`.** The server's queue (accept in four steps, as the lock of the context is
taken twice and a session's `stop()` raises a flag before it shuts the socket down), the session
queue with its loops and decoder resets, and the table of file descriptors: the lowest free number
is handed out, also to the rest of the process. `LeaveLoop` closes the descriptor and queues the
end notice. The bytes a loop reads are reduced to the codec configuration it installs;
what a stream's start publishes is in `AirPlayControl` and `MirrorSessions`. The listening socket's own descriptor is
not in the table.

**`HIDAdvertising`.** Calls of `connect()` are tasks: `Connect` is what `connectOnce` does under the lock, `Post` the block it
then sends to the HID queue, `Timeout` the other task of its group, and `Return` the end of the group, which waits for
`connectOnce` in any case. On the queue run those blocks, the one of `stopAdvertising()`, and the callbacks of the peripheral manager; `DidStart` and
`FinishStart` are the two sides of the unlock in `peripheralManagerDidStartAdvertising`. CoreBluetooth is external: it takes a manager's
commands in order, answers them, changes its state at will, and may never answer; below powered off, that is when it is unauthorized or resetting, it clears its database (`Database`), which the code does not hear of, and `dropped` records that
the HID service was in it. Two calls may both create a manager; the model takes
the second to replace the first, what the first still owed being lost. An answer `failed` is recorded, since a failed installation starts over. Left out: the contents of the services, subscriptions,
reads and reports.

**`FairPlaySession`.** Requests of all control connections run on one serial queue, so each is one action. A key message is named by its phone and a number; a
refused setup or handshake changes nothing, an accepted setup empties the handle, an accepted handshake fills it. `own` is the phones' side, `answer` and
`latest` record how a SETUP was answered and what had been accepted before it. Which message a key is decrypted with is modelled, not the decryption.

**`PlayfairBlock`.** The block ciphers as functions on blocks of 16 bytes. `Shuffle` is the assignments that `permute_block_1`, `permute_block_2` and
`decryptMessage` share, one after the other, and `Rotated` what they stand for; `MixWords` the words of a round replaced one by one, and `Mixed` all at once;
`ScheduleRound` a round of `generate_key_schedule` with its copies between the changes, and `Expands` a key expansion. A byte is the set of its one bits.
The tables are constants of the right shape: which table and which byte meet is modelled (`PermuteTable1`, `PermuteTable2`, `MessageTable`, `TableIndex`), not the numbers in them.

**`PlayfairChaining`.** The four programs made of them: `decryptMessage` (forwards in modes 0 to 2, backwards in mode 3), `decrypt_sap` (backwards, in place), `decrypt_key` and
`playfair_decrypt`. A step is a round of the schedule or a pass over a block. `decrypt_sap` and `decrypt_key` are not called by the program, which ships the decrypted
`default_sap`, but are part of its source. `playfair_decrypt` starts with a session key out of `Key`.

**`CBCDecryption`.** What the four promise: each block is decrypted once, under one key, and xored with the cipher block before it or with the initial vector, in any order. `PlayfairChaining` implements it
(`ImplementsCBC`): the refinement mapping takes as plain text what is decrypted so far, with the final xor undone while the other blocks still wait for it, and as the abstract
cipher the ciphers of `PlayfairBlock` with every round done at once.

**`PlayfairKey`.** `generate_session_key` step by step: four copies into `newSap` (as `<<source, offset>>` tags), then five times `modified_md5`, `sap_hash` and the addition. Bytes are numbers
here, since the scrambling loops add, subtract and rotate them. Of `modified_md5` the order in which words are taken and swapped is modelled, its arithmetic is the constant `Digest`; of `garble`
which entries of `buffer3` each assignment reads and writes (`GarbleSteps`) and which entries of `buffer1` change, its results are the constant `Garbled`.

**`Playfair`.** Their composition: `playfair_decrypt` calls `generate_session_key` and decrypts with what it returns. `CallInit` starts either that call or one of the other programs; `GenerateSessionKey` is the return
into the caller. Bytes are numbers on one side and sets of bits on the other (`Bits`, `Number`).

**`HIDReports`.** Windows and shortcuts are actors, `todo` is what is left of the task each runs. `Drag` and `LetGo` are `onChanged` and `onEnded` with their guards, which append to the window's chain of tasks;
`RunChanged` and `RunEnded` begin a task and route it through `SessionInputRouter`; `MoveTo`, `Press`, `Release` read or change the buttons under the lock, `Cache` stores the report, and `Post` queues
its notification, each a step that others may come between. On the HID queue run `Notify`, `IsReady` and the subscription callbacks; `DidSubscribe` and `PostBaseline` are the two sides of the unlock there. A task's start and the router's look at mouse control are one step,
as nothing that runs in between can tell them apart. CoreBluetooth is external: it takes as many reports as it likes, and once it has refused one it calls back when there is room. Of a report the left button is modelled, of `performDrag` one of its moves. Left out:
positions, relative moves, keyboard and consumer reports, reads of the cache, advertising that ends while reports are sent.

**`AirPlayAudio`.** The control queue sets an audio stream up in two steps, `OpenSink` (`ensureRunning()`, whose sockets may fail) and `Configure` (the rest of the SETUP), between which the main thread may run `Stop`,
the audio server's `stop()`. `Drain` is the audio queue with a datagram: what the network and the socket's buffer hold is not a queue of its own, so a datagram is ahead of the foremost or behind it, doubled, or never there, as `Arrives` chooses.
`HandlePacket` is the playback queue with a packet, skipped or played. `configure()` and `reset()` go through `queue.sync`, so they wait until the packets queued before them are handled (`Synced`). A number is the one the phone counts, without a
width; `Seq16` is what the packet carries of it, and `SequenceDelta` the code's distance. Which cipher a stream has is an input, as the context that holds the keys is in `AirPlayControl`. ChaCha20-Poly1305 opens only what its own key sealed, AES-CBC
anything. The engine is there or not. `streams`, `live`, `top` are the phones' side; `played` and `heard` history. `PhoneSpec` sets the audio of the phones beside their key exchange of `FairPlaySession`: the same queue serves both.

The MC modules add symmetry sets, and for the C code small tables, texts and keys.

## Runs

`CHECK_DEADLOCK FALSE` in a `.cfg` is there because task, connection and stream slots and inputs
are bounded, so a behaviour may end with all of them used up. The runs of the C code check deadlock: a program may stop only in `Returned`.
A type invariant that is proved is not checked again by a run.

| Run | Shows |
|---|---|
| `AirPlayService_tasks` | `NoOrphanListener`: a start and two renames never leave a listener advertised that nothing can cancel; `GuardedStartsSilent`: however late a start runs, it does not stay advertised with the switch off; `WaitsAreAnswered`: a task that waits for its listener has an update of it in the queue, or the network or an actor that will bring one. |
| `MirrorSessions_sessions` | `TypeOK`, `SessionsAreLive`, `NoOrphanCapture`, `ActiveIsLive`, `TrackedIsPlugged` with two devices, two connects that may fail, an AirPlay session, and starts of the coordinator beside the switch; `TrackedIsPlugged` excepts a sink whose discovery was stopped before it was made (`Deaf`); `OrphansStop` (liveness): the capture of a closed session stops. |
| `AirPlayControl_phones` | `ServedAreRegistered` with a concurrent stop; `StreamUsesItsKey` (of each step): the mirror server opens a stream with the key of its own connection, unless another stream was set up between its two reads; `ResourcesHaveOwner`: without a stop, no context, audio or timing outlives the connections that would reset it, mirror server up or down. `EndIsHeard` (liveness): an announced mirroring is announced as ended when all phones are gone, unless its stream announced it after that. |
| `MirrorServer_streams` | `NoForgottenStream`, `ConfigurationStays` and `NewcomerReads` (liveness: a new connection is not starved by its predecessor) with two video connections, three descriptors and two resets. |
| `HIDAdvertising_calls` | `ResumedOnce`: callbacks, timeouts and `connect()` itself resume continuations, each once; `EveryConnectReturns` (liveness), also when Bluetooth never answers; `OffMeansOffAir`: when advertising is not wanted and nothing is left to run, the radio is silent; `GattInstalledOnce`: without failures no service is added twice; `AdvertisedWithService`: the first manager does not advertise an empty database, unless CoreBluetooth has cleared it. |
| `AirPlayAudio_phones` | `UndisturbedKey`: neither refused requests nor the keys of others come between a phone's accepted key message and its key; `SetupRetiresMessages`: after a setup, whoever sent it, no key is decrypted under an older message. `ForwardOnly`: a stream is played in order and nothing twice, across the wrap of its 16 bits, however its datagrams are lost, doubled and overtaken; `NewerIsPlayed`: a packet ahead of all that were played is played, after silence of up to half the numbers; `OnePhoneHeard`: when the configuration changes, nothing another phone sent before is played under it; `StoppedIsSilent`: without sockets nothing plays or waits, unless a stop came between the two steps of the SETUP. |
| `Playfair_calls` | `CallTypeOK`; `ScheduleExpands`: what is made in place is a key expansion; `ImplementsCBC`: shuffles in place, words replaced one by one and both directions of chaining come to the same as `CBCDecryption`, which decrypts every block before it returns; `SapTiled`: the copies fill `newSap` with no overlap; `WordsOncePerQuarter`: swapped or not, every word is digested once in 16 steps; `DefinedBeforeUse`: `buffer3` is never read where it is uninitialised; `DigestChained`: the digest of a round is keyed with the sum of the one before, although the key is overwritten in place; `StepsReversible`: indices modulo 2^32 and then 210 or 16 never make a scrambling step read what it overwrites. |
| `HIDReports_drags` | `TypeOK`; `ReportsArrive`: reports reach the phone in the order they were posted, none is skipped from the baseline of a subscription on, and what waits has a callback to come; `ReleasedAtRest`: however the tasks of two windows, a shortcut and its cancellation interleave, no button is pressed at rest in the transport, in its cache or on the phone, unless the code dropped a release. |

Runs that end in a violation each check one sentence of the code's own comments
that the code does not keep:

| Run | What the trace shows |
|---|---|
| `AirPlayService_stale` | a stale start stops the receiver and takes the newer start's listener |
| `MirrorSessions_off` | a queued "mirroring started" opens a session after the switch went off |
| `AirPlayControl_probe` | the end of a GET /info connection resets a running mirror |
| `MirrorServer_stop` | `stop()` shuts down the connection that got its descriptor |

`ReleasedAtRest` excepts behaviours in which a release was dropped, because that is what the code does: with mouse control switched off, the session closed or no subscriber (`Release`, `RunEnded`), when the button is let go with mouse control
off before the first task has run (`LetGo`), and when a shortcut is cancelled after a move that read another's button (`Cancel`). It also excepts a phone whose baseline was overtaken by a newer report (`PostBaseline`).

The models contain more gaps of this kind, which are part of the actions and which the
hazards of `PROJECT.json` name: a rename that restarts the receiver while the
switch is off; the HID task that runs after it (`ConnectHID`); a listener update applied
after `stop()` (`TakeUpdate`, `ApplyUpdate`); the state "starting" left by a listener that
cannot be created (`MarkStarting`); published lists and states applied late (`Publish`, `HandleState`);
the close notice of a replaced session's window (`Dismissed`); a request in hand that sets the session
up again behind a stop (`Handle`); key and stream id of two SETUPs (`ReadKey`, `ReadStream`: a torn pair opens a stream with another's key); a stream that announces itself when the last connection has ended, which nobody announces as ended (`Announce`);
a sink that a start makes after a stop, which hears of no unplugging until the next start (`Subscribe`, `Deaf`); a device unplugged while its connect waits, whose session is installed all the same (`Install`); a session replaced before its queued loop begins, whose socket nobody closes (`Begin`, the job that is not held); the timeout of one
`connect()` that fails the others; a stop between the two steps of an audio SETUP, which leaves a playback configured for a stream that has no ports (`Configure`, `deaf`); late datagrams of an earlier stream of the same phone, which AES-CBC does not
refuse and which move the window of the new one (`Play`; `ForwardOnly` and `NewerIsPlayed` are about streams to which this did not happen); a stop block that runs behind a later connect, and the empty database of a second peripheral manager, or of the first once CoreBluetooth has cleared it (`Timeout`, `RunStop`, `CreateManager`, `PowerChanges`). The properties above hold in their presence, with the exception
of `ResourcesHaveOwner` and `EndIsHeard`, which are about sessions that no stop interrupts and whose connections ask for nothing behind their end, and of the exceptions that `StreamUsesItsKey`, `EndIsHeard`, `TrackedIsPlugged` and `AdvertisedWithService`
name in the table above. TLC finds each of the four violated without its exception.

### Bounds

* `Starter`, `Renamer`: one start whose listener may fail and two renames, with the main thread toggling between them. Two overlapping starts
  are in `AirPlayService_stale`, and the theorems are for any number; the invariants also held with two starts and one rename. Each task runs once, so
  the generation is bounded without a constraint.
* `MaxInputs` 3: the acts of user, cables and phones. A replug during a connect needs plug, unplug,
  plug. Replies, queue entries, the steps of tasks and of starts are not counted.
* `MaxEvents` 3, `MaxBatch` 1, `MaxStops` 1: three segments of one request each, or two and a stop, in any interleaving of two connections and one video stream. `ResourcesHaveOwner` and `EndIsHeard` look at behaviours without a
  stop and without a request behind the end of its connection (`late`). With a batch of two such a request starts audio, or announces mirroring, after the session's end, and nothing turns it off; the code does not prevent it. The invariants hold for every bound by `AirPlayControlProofs`.
* `MaxFd` 2 or 3, `MaxSetups` 1, `MaxResets` 0 to 2: the descriptors suffice for both streams and for one taken by the rest of
  the process, and one that is freed is handed out again.
* `MaxInputs` 3 for two calls of `connect()`: any three of a stop, a change of the Bluetooth state and a failing request: on and off again around a stop, or cleared and on again. The state properties are proved for every number.
* `MaxMessages` 2 for two phones: each may replace the other's message and its own. The theorems are for any number.
* `AirPlayAudio_phones`: `MaxStreams` 2, of one phone or of two; `First` 65535, so that the second packet wraps; `Ahead` 1 or 32767, the last distance that counts as ahead; `Behind` 0 or 1, a copy or a late packet. With `MaxDatagrams` 3 and `MaxPending` 2
  two packets wait while a third is in hand. Farther ahead than 32767 the code takes a packet for a late one and the stream stays mute until its numbers come round; the properties say so. `OneAtATime` lets one part of `PhoneSpec` step only
  while the other rests, as they share no state; the theorems are for both at once.
* `MCPlayfair`: bytes of eight bits, one message and two texts whose blocks are all different; tables that differ from one another and are not linear, so that a wrong table, byte, block or vector changes the result; five swaps out of five pairs
  that include a word with itself. All four modes and programs, all rounds, 8 and 16 blocks: every loop has the length it has in the code.
* `HIDReports`: `MaxEvents` 2 with a phone that has subscribed: any two of a drag in either of two windows, a shortcut, a return of the phone, a switch of mouse control and a closed session; letting go, leaving, cancelling and refusals
  are free. One drag posts up to five reports. `MaxQueue` 2 delays who posts, never what is queued first. Three events in one window with one shortcut were explored to 14 million states without a violation.

### Fairness

Weak fairness of what the system runs: in `MirrorSessions` the steps of connect tasks and the blocks on their receivers' queues, in `AirPlayControl` the serial queue and its handlers. In `MirrorServer` a loop
that was told to stop looks, as its receive has a timeout (`SO_RCVTIMEO`), but no loop owes its idle
timeout, which data puts off. In `HIDAdvertising` the HID queue runs and the timeout's sleep ends; CoreBluetooth owes nothing. Nothing makes a user, a phone or a cable act.
`AirPlayService` states no fairness: that a start returns is there the invariant `WaitsAreAnswered`, which needs none. The C programs are sequential; that they end shows in `ImplementsCBC`, whose abstract program returns only when every block is decrypted, and in deadlock checking.
`AirPlayAudio` and `FairPlaySession` state none: a datagram or a packet may always be lost or wait.
`HIDReports` states none either: that a report does not wait for ever is there `WakeUpComes`, a part of the invariant `ReportsArrive`.

## Proofs

`AirPlayServiceProofs`, for any sets of starts and renames and any set of flaky listeners:

* `TypeCorrect`: `Spec => []TypeOK`.
* `NoOrphans`: `Spec => []NoOrphanListener`. The property is not inductive: a listener that
  has been bound but not yet started becomes advertised in `Listen`, wherever it is by then. The strengthening `OpenReachable`
  says that every listener that is not cancelled or failed and whose task is past `Bind` is the receiver's or grabbed by an actor at
  `stopCancel`; `Bind` keeps it because it cancels the listener it replaces in the same critical section.
* `StartsStaySilent`: `Spec => []GuardedStartsSilent`. `WillBeStopped` says that with the switch off every open listener of a start
  has someone left to cancel it: the main thread still in its stop, its own task on the way to the check of the generation, or
  another actor that holds it. `BadNewsTrue` says that an error is delivered to a continuation only when its listener is dead, so that a start
  that fails leaves nothing open.
* `Invariance`: their conjunction `IInv` is inductive.
* `EveryWaitAnswered`: `Spec => []WaitsAreAnswered`. `AnsweredFromBind` says the same from the bind on, when the listener is not yet started. It rests on
  `HeldOnce`: a listener is held once, by the receiver or by one stop, and is not cancelled while it is held, so the one who lets go of it is the one whose cancel queues its last update.

`AirPlayControlProofs`, for any number of connections and any bounds:

* `ControlTypes`, `RegistryComplete` (`ServedAreRegistered`), `KeysMatchStreams` (`StreamUsesItsKey`). `Inductive` adds to
  `ServedAreRegistered` that connections not accepted yet are in no set (`FreshAreUntouched`), and that what a stop has taken is cancelled once
  it has passed its cancel step (`TakenByStop`), so that it may forget them. `StreamUsesItsKey` is about the step in which the mirror server opens a stream. The invariant under it, `Keys`: the context
  never pairs a stream with a foreign key while its own is known (`ContextKeys`, since a SETUP with keys forgets the stream of the key it replaces), and the key that the mirror server has read is right for whatever stream the
  context names, unless the pair is torn (`KeyRead`).
* `NothingOutlivesItsOwner` (`ResourcesHaveOwner`). More facts make it inductive: the connection whose segment is being handled is served or has ended (`HandledIsServed`), so what a request
  turns on, outside `late`, has an owner that is registered, and what a failing SETUP of video writes has a connection whose end resets the context.

`HIDAdvertisingProofs`, for any number of calls and any bounds:

* `HIDTypes` (`TypeOK`, which also says that services are not both installed and being installed) and `NoSecondResume` (`ResumedOnce`). `WaitersAreFresh` makes the latter
  inductive: what is in `connectWaiters` has not been resumed, and a call that has not begun is not in it.
* `SilentWhenOff` (`OffMeansOffAir`). `WillBeSilenced` says that while the radio is on and nobody wants it, something is on its way that stops it: the call or its block, the command, or the news of a start
  that came too late, on the queue or between its two halves. What is on the queue is taken at its word, which needs `Provenance`: callbacks come from managers that exist, and before the first there is nothing.
* `ServiceBeforeAdvertising` (`AdvertisedWithService`). `ServiceFirst` says it of all that leads to advertising: `installed`, a start that is commanded, and the answer that the HID service was added, until a database that held it is cleared (`PowerServices`: only then do services go).
* `EachServiceOnce` (`GattInstalledOnce`). `OneInstall` says that while nothing has failed at most one addition is under way, asked for or answered, and that what comes after it in the chain is not in the database yet, which clearing it does not change. A second
  manager starts from an empty database, and nothing that the first was asked or had answered counts for it (`AddedAt`).

`AirPlayAudioProofs`, for any phones, any first number, any distances ahead, and any number of streams, datagrams and waiting packets:

* `SequenceDistance`: the distance of two numbers that are at most 32767 apart is what `SequenceDelta` says of their 16 bits.
* `AudioTypes`; `OnePhonePlayed` (`OnePhoneHeard`): with `PeerConfigured` and `WaitingFromPhone`, the expected peer and all that waits belong to the phone whose stream is configured, which `Synced` keeps when the configuration changes.
* `SilentWhenStopped` (`StoppedIsSilent`).
* `PlayedForward` (`ForwardOnly`) and `NewerPlayed` (`NewerIsPlayed`) from `WindowInv`: what waits and what was played is not ahead of the foremost that has arrived and within reach of it, and the window stands at the last that was played
  (`WindowAtForemost`), so 16 bits suffice. It needs that a late datagram is at most 32767 behind the foremost (`AudioAssumption`); one that is later still would be taken for a new one.

The same module about `FairPlaySession`, for any phones and any number of messages:

* `FairPlayTypes` (`TypeOK`, with the fact that a message is there whenever the length says so), `OwnKeyAnswered` (`UndisturbedKey`) and `RetiredMessages` (`SetupRetiresMessages`). The strengthening ties the handle to the last accepted request:
  after a handshake it holds that message, after a setup none.

`MirrorSessionsProofs`, for any devices, any number of connects of which any may fail, and any number of inputs:

* `LiveSessions` (`SessionsAreLive`) and `NoCaptureUnseen` (`NoOrphanCapture`). `TasksPlaced` ties what waits on a receiver's queue and what its capture does
  to the place where the connect that created it stands; `ReceiversInstalled` says that a session has only a receiver that a connect has installed, so that no
  teardown reaches a capture that is still being started. Every step that tears sessions down is a case of one lemma, `TearDownKeeps`.
* `ActiveSessionLives` (`ActiveIsLive`), by what the teardowns hand over to.
* `MirrorTypes` (`TypeOK`), and `TrackingSettles` (`TrackedIsPlugged`) from `TrackFollows`: while the discovery scans, what it has published last is the first device that is plugged in; without a sink no list waits and nothing is tracked; with a sink
  the last device list on the main queue names what was published last, or no list waits and that is the device the coordinator tracks, if it tracks one.

`MirrorServerProofs`, for any number of video connections, descriptors, SETUPs and resets:

* `ServerTypes` (`TypeOK`), with `FdsKept` (a stream that was accepted has a descriptor) and `LowestIsFree`: the descriptor `accept` returns is a free one,
  from the well-foundedness of the naturals.
* `NoStreamForgotten` (`NoForgottenStream`). `Staged` says which stream stands where while one is accepted in four steps: the server's queue serves one at a time, so the predecessor has been told to
  stop before another is queued.
* `DecoderKeepsItsStream` (`ConfigurationStays`). `OneReader` says that the loop that reads is the first job of the serial queue, so no reset runs beside it.

`HIDReportsProofs`, for any screens and shortcuts, any number of events and a queue of any length:

* `ReportTypes` (`TypeOK`).
* `ReportsReachThePhone` (`ReportsArrive`), inductive with `NumbersPosted` (what waits anywhere has a number that was posted). `OrderedFrom` is its order for any list and queue, and one lemma for each thing that happens to a report carries it:
  `OrderAppended`, `OrderShortened`, `OrderTaken`, and `UpdateMoves` for the part of a list that CoreBluetooth takes.
* `NothingStaysPressed` (`ReleasedAtRest`). At rest nothing is owed; the invariant `ReleaseInv` says before that who owes what. `PlansFormed`: a task that has still to move or press has a release behind it in its own plan, or belongs to a drag that has not
  been finished, and only such an actor is about to send a pressed button. `DragsEnd`: the end of a drag is still to come, from the user or on the chain of tasks. `PressesAreOwed`: a pressed button in the transport has an actor who will
  release it; one in the cache also one about to cache its release; and unless the last report posted has the button up, an actor will post one that has (or the baseline was overtaken). Each holds until the code drops a release (`missed`).
  `ReportsReachThePhone` then says that a phone with nothing on its way has got that last report.

`PlayfairProofs`, for any tables, keys, texts, swaps and constants of `garble`:

* `BlockChaining` (`ImplementsCBC`): every step of the decryptions is a step of `CBCDecryption` or a stutter. Under it are facts of the ciphers: `ShuffleRotates` (the assignments in place are one rotation, since each row
  saves the byte it overwrites first), `WordsMixAtOnce` (a word is replaced after all four of its own bytes were looked up, and no other word is read), and from these `MessageBlockIs` and `CycleIs`, nine rounds each.
  `ChainInv` says what is where: `Flow` (in which phase each program is and how far it has come), `DataFollows` (`keyData` is the key that follows the last row of the schedule), `Waiting` (while the session key is made the schedule has not begun) and
  `InPlace`: blocks not yet decrypted hold their cipher text, and the one at work its `Cycle` between the cycle and the chaining. `decrypt_sap` goes backwards so that the block before is still cipher text when it is needed.
* `KeyExpansion` (`ScheduleExpands`, from `ScheduleRoundIs`: a round copies each word before it changes it) and `DecryptionTypes` (`TypeOK`).
* The session key has `KeyInv`, one part for each thing `generate_session_key` keeps. `Where`: every loop ends at its bound and there are five rounds; `Order` says of each action which pass of which loop it is.
  `Tiled` (`SapTiled`) from `Tiling`: newSap is what the copies so far have brought, a closed form of its index. `EveryQuarterTakesAll` (`WordsOncePerQuarter`) from `Absorbing`: the swaps keep the words a permutation
  (as a map onto all of them), and `EveryWordTaken` solves the index of each quarter for the step that takes a given word. `NothingReadUnset` (`DefinedBeforeUse`) from `Written`: `garble` writes its entries in ascending order and what
  a step reads lies below (`GarbleStepsAre`). `RoundsChained` (`DigestChained`) from `Chained`. `ScramblingReversible` (`StepsReversible`) from `Buffers`: the buffers hold bytes, and the places a step reads are not the one it writes
  (`RingLags`, `KeyLags`, with the indices modulo 2^32 as in C).
* `CallTypes` (`CallTypeOK`) has the hypothesis `DigestIsKey`, that `modified_md5` returns 16 bytes. It is no assumption of the module as it ranges over all keys, which TLC cannot enumerate.

The assumptions are only that actors, sentinels and slots are different values (`ActorAssumption`, `ControlAssumption`, `FairPlayAssumption`, `SessionsAssumption`, `ReportAssumption`) and that bounds are
natural numbers (`HIDAssumption`, `ServerAssumption`), the reach of late datagrams in `AudioAssumption`, and for the key computation the types of its tables (`BlockAssumption`, `ChainingAssumption`), the three laws of `^` that the proofs need
(`KeyAssumption`), and that a key message has a mode from 0 to 3, as the comment in `decryptMessage` says.

Only model-checked: the liveness properties (`OrphansStop`, `EndIsHeard`, `NewcomerReads`, `EveryConnectReturns`), as TLAPS does not reason about
`ENABLED` and fairness here. Every invariant, step property and refinement that a passing run checks is also a theorem.

## Not modelled

The numbers in the tables of `omg_hax.h`, the arithmetic of `modified_md5` and `garble` (constants `Digest` and `Garbled`): computations without control. `fairplay_handshake` stores a message
without a look at its mode byte, which `decryptMessage` uses as an index; the models take modes 0 to 3 as given, and beyond them the C code is undefined. Words are little-endian, as on every Mac.
Pairing, identity and the stream ciphers (computations; keys are names here), audio formats, decoding and volume, Metal rendering, layout of the
user interface, preferences, permissions, logging, the web site and packaging.

## Plan

1. Done: `AirPlayService`, `MirrorSessions`, `AirPlayControl`, `MirrorServer`, and the proofs above.
2. Done: `HIDAdvertising` with types and `ResumedOnce` proved; `FairPlaySession` with its proofs; the key computation with `CBCDecryption`; `HIDReports`.
3. `HIDReports` further: keyboard and consumer reports, advertising that ends while reports are sent, and an abstract FIFO it implements.
4. Done: `AirPlayAudio` with its proofs.
5. `VideoGate` (parameter sets, IDR wait, in-flight frames of the decoder) and `MirrorFraming` (handshake, plist body, packets out of any split of the bytes),
   composed with `MirrorServer`.
6. Pure modules: `HTTPFraming`, `CoordinateMapper`.
7. Compositions: `AirPlayControl` with `MirrorServer` over one context; `MirrorSessions` with the stream's identity, orientation and transports. An abstract
   service (off, starting, on) that `AirPlayService` implements where no rename runs.
8. Done: proofs of every invariant, step property and refinement. A property that items 3 and 5 to 7 bring is proved along with them.
