--------------------------- MODULE MirrorSessions ---------------------------
(***************************************************************************)
(* Mirror sessions: SessionManager's session handlers, MirrorSessionStore, *)
(* USBAutoConnectCoordinator, the USB receivers and the session windows.   *)
(*                                                                         *)
(* AirPlay events, USB device lists and the updates of published state     *)
(* wait in one queue, the main dispatch queue.  A handler that runs on the *)
(* main thread is one step.  Each connectUSB(_:) is a task beside it, and  *)
(* each of its critical sections and posts is a step.  An AirPlay session  *)
(* has one fixed identifier, a USB session that of its device; a USB       *)
(* receiver is named by the task that created it.  startListening runs     *)
(* beside the main thread too; from its last look at the switch on, which  *)
(* no stop awaits, its steps are those of the coordinator's start().       *)
(***************************************************************************)
EXTENDS Integers, Sequences, FiniteSets

CONSTANTS
  Device,     \* USB devices
  UsbTask,    \* calls of connectUSB, one slot each
  AirPlay,    \* the identifier "airplay-active"
  Network,    \* the shared NetworkStreamReceiver
  None,       \* no session, receiver, device
  MaxInputs,  \* bound: how often the user, the phones and the cables act
  Flaky       \* bound: the tasks whose capture may fail to start

ASSUME SessionsAssumption ==
  /\ AirPlay \notin Device /\ None \notin Device \cup {AirPlay}
  /\ Network \notin UsbTask /\ None \notin UsbTask \cup {Network}
  /\ MaxInputs \in Nat

Id == Device \cup {AirPlay}

VARIABLES
  inputs,      \* inputs so far
  enabled,     \* SessionManager.isServiceEnabled
  streaming,   \* an AirPlay stream is up in NetworkStreamReceiver
  plugged,     \* the devices AVFoundation lists, in its order
  due,         \* a startListening is under way that will find the switch on
  starting,    \* how many have gone past that check, by where they stand
  didSetup,    \* USBAutoConnectCoordinator.didSetup
  scanning,    \* USBDeviceDiscovery is scanning
  current,     \* the first device of the list it has published last
  sinks,       \* the coordinator's subscriptions to its lists
  tracked,     \* USBAutoConnectCoordinator._connectedUSBDeviceID
  receiverOf,  \* MirrorSessionStore.sessionReceivers; a session is an entry
  active,      \* MirrorSessionStore.activeSessionID
  mainQueue,   \* the main dispatch queue
  state,       \* SessionManager.state
  published,   \* SessionManager.sessions
  windows,     \* identifiers with an open MirrorSessionWindow
  dismissing,  \* windows that dismissWindow was called for
  pc,          \* where each connectUSB stands
  deviceOf,    \* its device
  listed,      \* the session list it is about to publish
  capture,     \* AVFoundationUSBReceiver's session
  blocks       \* the blocks on the receiver's sessionQueue

input == <<inputs, enabled, streaming, plugged>>
discovery == <<due, starting, didSetup, scanning, current, sinks>>
usb == <<discovery, tracked>>
store == <<receiverOf, active>>
ui == <<state, published, windows, dismissing>>
tasks == <<pc, deviceOf, listed>>
receivers == <<capture, blocks>>
vars == <<input, usb, store, mainQueue, ui, tasks, receivers>>

Sessions == {id \in Id : receiverOf[id] # None}

Mirroring(id) == [kind |-> "mirroring", id |-> id]
Connecting(id) == [kind |-> "connecting", id |-> id]
Discovering == [kind |-> "discovering", id |-> None]
Disconnected == [kind |-> "disconnected", id |-> None]
ConnectionState ==
  [kind: {"mirroring", "connecting"}, id: Id] \cup {Discovering, Disconnected}

(* Where a start() of the coordinator stands: before its lock, before      *)
(* discovery.start() with didSetup found or set, before its sink.          *)
Stage == {"checked", "rescan", "scan", "sink"}

(* Closures on the main queue.                                             *)
Started == [kind |-> "started"]
Ended == [kind |-> "ended"]
Devices(first) == [kind |-> "devices", first |-> first]
SetState(s) == [kind |-> "state", state |-> s]
SetSessions(ids) == [kind |-> "sessions", ids |-> ids]
Nothing == [kind |-> "nothing"]
Closure ==
  {Started, Ended, Nothing} \cup {Devices(d) : d \in Device \cup {None}}
    \cup {SetState(s) : s \in ConnectionState} \cup {SetSessions(ids) : ids \in SUBSET Id}

TypeOK ==
  /\ inputs \in 0..MaxInputs
  /\ enabled \in BOOLEAN /\ streaming \in BOOLEAN
  /\ due \in BOOLEAN /\ didSetup \in BOOLEAN /\ scanning \in BOOLEAN
  /\ starting \in [Stage -> Nat] /\ sinks \in Nat
  /\ current \in Device \cup {None}
  /\ plugged \in Seq(Device)
  /\ tracked \in Device \cup {None}
  /\ receiverOf \in [Id -> UsbTask \cup {Network, None}]
  /\ active \in Id \cup {None}
  /\ mainQueue \in Seq(Closure)
  /\ state \in ConnectionState
  /\ published \subseteq Id /\ windows \subseteq Id /\ dismissing \subseteq windows
  /\ pc \in [UsbTask -> {"unused", "connect", "await", "install", "list",
                         "publish", "open", "failed", "done"}]
  /\ deviceOf \in [UsbTask -> Device \cup {None}]
  /\ listed \in [UsbTask -> SUBSET Id]
  /\ capture \in [UsbTask -> {"idle", "running", "stopped", "failed"}]
  /\ blocks \in [UsbTask -> Seq({"start", "stop"})]

Init ==
  /\ inputs = 0
  /\ enabled = TRUE
  /\ streaming = FALSE
  /\ plugged = <<>>
  /\ due = TRUE /\ starting = [stage \in Stage |-> 0]
  /\ didSetup = FALSE /\ scanning = FALSE /\ current = None /\ sinks = 0
  /\ tracked = None
  /\ receiverOf = [id \in Id |-> None]
  /\ active = None
  /\ mainQueue = <<>>
  /\ state = Discovering
  /\ published = {} /\ windows = {} /\ dismissing = {}
  /\ pc = [t \in UsbTask |-> "unused"]
  /\ deviceOf = [t \in UsbTask |-> None]
  /\ listed = [t \in UsbTask |-> {}]
  /\ capture = [t \in UsbTask |-> "idle"]
  /\ blocks = [t \in UsbTask |-> <<>>]

-----------------------------------------------------------------------------
(* Inputs *)

Input == inputs < MaxInputs /\ inputs' = inputs + 1

PluggedSet == {plugged[i] : i \in DOMAIN plugged}
First(list) == IF list = <<>> THEN None ELSE Head(list)
Without(list, i) == [k \in 1 .. Len(list) - 1 |-> list[IF k < i THEN k ELSE k + 1]]

(* A list with this device first goes to every sink, by the main queue.    *)
Deliveries(first) == [k \in 1 .. sinks |-> Devices(first)]

(* refreshDevices() after AVFoundation's notification, which comes only    *)
(* while the observers are installed.                                      *)
Refresh ==
  IF scanning
  THEN /\ current' = First(plugged')
       /\ mainQueue' = mainQueue \o Deliveries(First(plugged'))
  ELSE UNCHANGED <<current, mainQueue>>

Plug(d) ==
  /\ Input
  /\ d \notin PluggedSet
  /\ plugged' = Append(plugged, d)
  /\ Refresh
  /\ UNCHANGED <<enabled, streaming, due, starting, didSetup, scanning, sinks, tracked,
                 store, ui, tasks, receivers>>

Unplug(d) ==
  /\ Input
  /\ \E i \in DOMAIN plugged : plugged[i] = d /\ plugged' = Without(plugged, i)
  /\ Refresh
  /\ UNCHANGED <<enabled, streaming, due, starting, didSetup, scanning, sinks, tracked,
                 store, ui, tasks, receivers>>

(* A phone starts mirroring: onMirroringStarted or onStreamStarted.        *)
StreamStarts ==
  /\ Input
  /\ enabled /\ ~streaming
  /\ streaming' = TRUE
  /\ mainQueue' = Append(mainQueue, Started)
  /\ UNCHANGED <<enabled, plugged, usb, store, ui, tasks, receivers>>

(* The phone ends it: handleConnectionEnded of the active connection.      *)
StreamEnds ==
  /\ Input
  /\ streaming
  /\ streaming' = FALSE
  /\ mainQueue' = Append(mainQueue, Ended)
  /\ UNCHANGED <<enabled, plugged, usb, store, ui, tasks, receivers>>

-----------------------------------------------------------------------------
(* USBAutoConnectCoordinator.start(), at the end of startListening *)

(* The last look at the switch; the call published .discovering when it    *)
(* began.  Only the call of the latest generation gets past it.            *)
CheckSwitch ==
  /\ due /\ enabled
  /\ due' = FALSE
  /\ starting' = [starting EXCEPT !["checked"] = @ + 1]
  /\ mainQueue' = Append(mainQueue, SetState(Discovering))
  /\ UNCHANGED <<input, didSetup, scanning, current, sinks, tracked, store, ui, tasks, receivers>>

(* Under the lock: is there a sink already, or will this call install it?  *)
EnterStart ==
  /\ starting["checked"] > 0
  /\ LET next == IF didSetup THEN "rescan" ELSE "scan" IN
       starting' = [starting EXCEPT !["checked"] = @ - 1, ![next] = @ + 1]
  /\ didSetup' = TRUE
  /\ UNCHANGED <<input, due, scanning, current, sinks, tracked, store, mainQueue, ui, tasks, receivers>>

(* discovery.start() of a call that found didSetup set, or has set it.     *)
Scan(stage) ==
  /\ starting[stage] > 0
  /\ \/ stage = "rescan" /\ starting' = [starting EXCEPT !["rescan"] = @ - 1]
     \/ stage = "scan" /\ starting' = [starting EXCEPT !["scan"] = @ - 1, !["sink"] = @ + 1]
  /\ scanning' = TRUE
  /\ IF scanning THEN UNCHANGED <<current, mainQueue>>
     ELSE /\ current' = First(plugged)
          /\ mainQueue' = mainQueue \o Deliveries(First(plugged))
  /\ UNCHANGED <<input, due, didSetup, sinks, tracked, store, ui, tasks, receivers>>

(* The sink, which gets the current list at once.                          *)
Subscribe ==
  /\ starting["sink"] > 0
  /\ starting' = [starting EXCEPT !["sink"] = @ - 1]
  /\ sinks' = sinks + 1
  /\ mainQueue' = Append(mainQueue, Devices(current))
  /\ UNCHANGED <<input, due, didSetup, scanning, current, tracked, store, ui, tasks, receivers>>

-----------------------------------------------------------------------------
(* MirrorSessionStore *)

(* stop() of the USB receivers of ids: a block on each sessionQueue.       *)
StopNone(ids) == UNCHANGED blocks   \* mutant
StopEvery(ids) ==                   \* mutant
  blocks' = [t \in UsbTask |->
               IF \E id \in Id : receiverOf[id] = t THEN Append(blocks[t], "stop") ELSE blocks[t]]
StopReceivers(ids) ==
  blocks' = [t \in UsbTask |->
               IF \E id \in ids : receiverOf[id] = t
               THEN Append(blocks[t], "stop") ELSE blocks[t]]

(* The next active session when ids go: any that remains.                  *)
KeepActive(ids) == UNCHANGED active   \* mutant
HandOver(ids) ==
  \/ active \notin ids /\ UNCHANGED active
  \/ active \in ids /\ Sessions \subseteq ids /\ active' = None
  \/ active \in ids /\ active' \in Sessions \ ids

(* dismissWindow for ids: it closes what is on screen.                     *)
DismissBlindly(ids, open) == dismissing' = dismissing \cup ids   \* mutant
Dismiss(ids, open) == dismissing' = (dismissing \cup ids) \cap open

(* tearDown of each of ids, the windows "open" being on screen.            *)
TearDown(ids, open) ==
  /\ receiverOf' = [id \in Id |-> IF id \in ids THEN None ELSE receiverOf[id]]
  /\ HandOver(ids)
  /\ windows' = open
  /\ Dismiss(ids, open)
  /\ StopReceivers(ids)

(* setState(.mirroring(remaining)) or what there is to do with none left.  *)
ShowRemaining(ids, tracking) ==
  \/ \E id \in Sessions \ ids : state' = Mirroring(id) /\ UNCHANGED tracked
  \/ Sessions \subseteq ids /\ state' = Discovering /\ tracked' = tracking

(* disconnect(sessionID:) with "rest" behind it on the main queue.         *)
Disconnect(id, rest, open) ==
  /\ TearDown({id}, open)
  /\ streaming' = (streaming /\ receiverOf[id] # Network)
  /\ ShowRemaining({id}, None)
  /\ mainQueue' = Append(rest, SetSessions(Sessions \ {id}))

(* disconnect(): every session.  Each tearDown posts a list; the last one, *)
(* the empty one, is the one that stays.                                   *)
DisconnectAll(rest) ==
  /\ TearDown(Sessions, windows)
  /\ mainQueue' = IF Sessions = {} THEN rest ELSE Append(rest, SetSessions({}))

(* clearTracking().                                                        *)
KeepTrack == UNCHANGED tracked   \* mutant
Untrack == tracked' = None

-----------------------------------------------------------------------------
(* The main thread: the user and the windows *)

(* A session window closes: the observer of willCloseNotification calls    *)
(* disconnect(sessionID:), whether the user closed the window ...          *)
UserCloses(id) ==
  /\ Input
  /\ id \in windows
  /\ Disconnect(id, mainQueue, windows \ {id})
  /\ UNCHANGED <<enabled, plugged, discovery, published, tasks, capture>>

(* ... or dismissWindow did.                                               *)
Dismissed(id) ==
  /\ id \in dismissing
  /\ UNCHANGED inputs
  /\ Disconnect(id, mainQueue, windows \ {id})
  /\ UNCHANGED <<enabled, plugged, discovery, published, tasks, capture>>

(* The "Stop All" button.                                                  *)
StopAll ==
  /\ Input
  /\ published # {}
  /\ DisconnectAll(mainQueue)
  /\ streaming' = (streaming /\ AirPlay \notin Sessions)
  /\ state' = Discovering
  /\ tracked' = IF Sessions = {} THEN tracked ELSE None
  /\ UNCHANGED <<enabled, plugged, discovery, published, tasks, capture>>

EnableService ==
  /\ Input
  /\ ~enabled
  /\ enabled' = TRUE /\ due' = TRUE
  /\ UNCHANGED <<streaming, plugged, starting, didSetup, scanning, current, sinks, tracked, store,
                 mainQueue, ui, tasks, receivers>>

(* What a cancelled subscription has queued runs and delivers nothing.     *)
Undelivered(queue) ==
  [k \in DOMAIN queue |-> IF queue[k].kind = "devices" THEN Nothing ELSE queue[k]]

(* setServiceEnabled(false): the receiver stops, the subscriptions are     *)
(* cancelled and the discovery stopped, every session is closed.  A start  *)
(* past its check goes on.                                                 *)
DisableService ==
  /\ Input
  /\ enabled
  /\ enabled' = FALSE
  /\ streaming' = FALSE
  /\ due' = FALSE /\ didSetup' = FALSE /\ scanning' = FALSE /\ sinks' = 0
  /\ Untrack
  /\ DisconnectAll(Undelivered(mainQueue))
  /\ state' = Disconnected
  /\ UNCHANGED <<plugged, starting, current, published, tasks, capture>>

-----------------------------------------------------------------------------
(* The main queue *)

Turn(kind) == mainQueue # <<>> /\ Head(mainQueue).kind = kind

(* handleIncomingAirPlay: a session without waiting for Bluetooth.         *)
HandleStarted ==
  /\ Turn("started")
  /\ receiverOf' = [receiverOf EXCEPT ![AirPlay] = Network]
  /\ active' = AirPlay
  /\ windows' = windows \cup {AirPlay}
  /\ state' = Mirroring(AirPlay)
  /\ mainQueue' = Append(Tail(mainQueue), SetSessions(Sessions \cup {AirPlay}))
  /\ UNCHANGED <<input, usb, published, dismissing, tasks, receivers>>

(* handleAirPlaySessionEnded: the Wi-Fi sessions go, a USB one remains.    *)
HandleEnded ==
  /\ Turn("ended")
  /\ IF AirPlay \in Sessions
     THEN /\ TearDown({AirPlay}, windows)
          /\ mainQueue' = Append(Tail(mainQueue), SetSessions(Sessions \ {AirPlay}))
     ELSE /\ mainQueue' = Tail(mainQueue)
          /\ UNCHANGED <<store, windows, dismissing, blocks>>
  /\ ShowRemaining({AirPlay}, tracked)
  /\ UNCHANGED <<input, discovery, published, tasks, capture>>

HandleState ==
  /\ Turn("state")
  /\ state' = Head(mainQueue).state
  /\ mainQueue' = Tail(mainQueue)
  /\ UNCHANGED <<input, usb, store, published, windows, dismissing, tasks, receivers>>

HandleSessions ==
  /\ Turn("sessions")
  /\ published' = Head(mainQueue).ids
  /\ mainQueue' = Tail(mainQueue)
  /\ UNCHANGED <<input, usb, store, state, windows, dismissing, tasks, receivers>>

HandleNothing ==
  /\ Turn("nothing")
  /\ mainQueue' = Tail(mainQueue)
  /\ UNCHANGED <<input, usb, store, ui, tasks, receivers>>

(* onDeviceAppeared: a task of its own runs connectUSB(d).                 *)
SpawnConnect(t, d) ==
  /\ pc[t] = "unused"
  /\ pc' = [pc EXCEPT ![t] = "connect"]
  /\ deviceOf' = [deviceOf EXCEPT ![t] = d]
  /\ UNCHANGED listed

(* handleDevicesUpdate, with the two callbacks it runs after unlocking.    *)
HandleDevices ==
  /\ Turn("devices")
  /\ \E first \in Device \cup {None} :
     /\ Head(mainQueue) = Devices(first)
     /\ IF tracked = None \/ tracked = first
        THEN /\ mainQueue' = Tail(mainQueue)
             /\ tracked' = first
             /\ UNCHANGED <<streaming, store, state, windows, dismissing, blocks>>
        ELSE /\ TearDown({tracked}, windows)
             /\ \/ \E id \in Sessions \ {tracked} : state' = Mirroring(id)
                \/ Sessions \subseteq {tracked} /\ state' = Discovering
             /\ tracked' = None
             /\ mainQueue' = Append(Tail(mainQueue), SetSessions(Sessions \ {tracked}))
             /\ UNCHANGED streaming
     /\ \/ first \in {None, tracked} /\ UNCHANGED tasks
        \/ first \in Device \ {tracked} /\ \E t \in UsbTask : SpawnConnect(t, first)
  /\ UNCHANGED <<inputs, enabled, plugged, discovery, published, capture>>

-----------------------------------------------------------------------------
(* connectUSB(_:), beside the main thread *)

(* setState(.connecting), then start() of a new receiver looks its device  *)
(* up and queues the start of its capture session.                         *)
Connect(t) ==
  /\ pc[t] = "connect"
  /\ mainQueue' = Append(mainQueue, SetState(Connecting(deviceOf[t])))
  /\ IF deviceOf[t] \in PluggedSet
     THEN /\ pc' = [pc EXCEPT ![t] = "await"]
          /\ blocks' = [blocks EXCEPT ![t] = Append(@, "start")]
     ELSE /\ pc' = [pc EXCEPT ![t] = "failed"]
          /\ UNCHANGED blocks
  /\ UNCHANGED <<input, usb, store, ui, deviceOf, listed, capture>>

(* A block of the receiver's sessionQueue: configureAndStartSession...     *)
RunStart(t) ==
  /\ blocks[t] # <<>> /\ Head(blocks[t]) = "start"
  /\ blocks' = [blocks EXCEPT ![t] = Tail(@)]
  /\ \/ /\ capture' = [capture EXCEPT ![t] = "running"]
        /\ pc' = [pc EXCEPT ![t] = "install"]
     \/ /\ t \in Flaky
        /\ capture' = [capture EXCEPT ![t] = "failed"]
        /\ pc' = [pc EXCEPT ![t] = "failed"]
  /\ UNCHANGED <<input, usb, store, mainQueue, ui, deviceOf, listed>>

(* ... or the block of stop().  It holds the receiver weakly, and does     *)
(* nothing for one that is gone: its capture session went with it.         *)
RunStop(t) ==
  /\ blocks[t] # <<>> /\ Head(blocks[t]) = "stop"
  /\ blocks' = [blocks EXCEPT ![t] = Tail(@)]
  /\ capture' = [capture EXCEPT ![t] = "stopped"]
  /\ UNCHANGED <<input, usb, store, mainQueue, ui, tasks>>

(* beginMirroringSession up to store.install: a previous receiver of the   *)
(* same session is stopped and its window closed.                          *)
Install(t) ==
  /\ pc[t] = "install"
  /\ LET d == deviceOf[t] IN
     /\ StopReceivers({d})
     /\ receiverOf' = [receiverOf EXCEPT ![d] = t]
     /\ active' = d
     /\ dismissing' = IF d \in Sessions THEN dismissing \cup ({d} \cap windows) ELSE dismissing
  /\ pc' = [pc EXCEPT ![t] = "list"]
  /\ UNCHANGED <<input, usb, mainQueue, state, published, windows, deviceOf, listed, capture>>

(* syncPublishedSessions: the list is read from the store ...              *)
ReadList(t) ==
  /\ pc[t] = "list"
  /\ listed' = [listed EXCEPT ![t] = Sessions]
  /\ pc' = [pc EXCEPT ![t] = "publish"]
  /\ UNCHANGED <<input, usb, store, mainQueue, ui, deviceOf, receivers>>

(* ... and goes, then setState(.mirroring), to the main queue.             *)
Publish(t) ==
  /\ pc[t] = "publish"
  /\ mainQueue' = mainQueue \o <<SetSessions(listed[t]), SetState(Mirroring(deviceOf[t]))>>
  /\ listed' = [listed EXCEPT ![t] = {}]
  /\ pc' = [pc EXCEPT ![t] = "open"]
  /\ UNCHANGED <<input, usb, store, ui, deviceOf, receivers>>

OpenWindow(t) ==
  /\ pc[t] = "open"
  /\ windows' = windows \cup {deviceOf[t]}
  /\ pc' = [pc EXCEPT ![t] = "done"]
  /\ UNCHANGED <<input, usb, store, mainQueue, state, published, dismissing,
                 deviceOf, listed, receivers>>

(* The catch clause of connectUSB.                                         *)
ConnectFails(t) ==
  /\ pc[t] = "failed"
  /\ blocks' = [blocks EXCEPT ![t] = Append(@, "stop")]
  /\ Untrack
  /\ mainQueue' = Append(mainQueue, SetState(Discovering))
  /\ pc' = [pc EXCEPT ![t] = "done"]
  /\ UNCHANGED <<input, discovery, store, ui, deviceOf, listed, capture>>

-----------------------------------------------------------------------------
TaskStep(t) ==
  \/ Connect(t) \/ RunStart(t) \/ RunStop(t) \/ Install(t) \/ ReadList(t)
  \/ Publish(t) \/ OpenWindow(t) \/ ConnectFails(t)

StartStep ==
  \/ CheckSwitch \/ EnterStart \/ Scan("rescan") \/ Scan("scan") \/ Subscribe

MainStep ==
  \/ HandleStarted \/ HandleEnded \/ HandleState \/ HandleSessions \/ HandleDevices
  \/ HandleNothing

Next ==
  \/ \E d \in Device : Plug(d) \/ Unplug(d)
  \/ StreamStarts \/ StreamEnds \/ StopAll \/ EnableService \/ DisableService
  \/ StartStep
  \/ MainStep
  \/ \E id \in Id : UserCloses(id) \/ Dismissed(id)
  \/ \E t \in UsbTask : TaskStep(t)

Spec == Init /\ [][Next]_vars

(* Tasks and receiver queues run what they were given.  Nothing makes      *)
(* users, phones or cables act, and the main queue may lag behind.         *)
Fairness == \A t \in UsbTask : WF_vars(TaskStep(t))

FairSpec == Spec /\ Fairness

-----------------------------------------------------------------------------
(* Properties *)

(* A session's USB receiver is capturing and no stop of it is queued, and  *)
(* the AirPlay session's receiver is the network's: no session shows a     *)
(* dead receiver, however installs, replacements and teardowns overlap.    *)
SessionsAreLive ==
  /\ \A d \in Device : receiverOf[d] # None =>
       \E t \in UsbTask :
         receiverOf[d] = t /\ deviceOf[t] = d /\ capture[t] = "running" /\ blocks[t] = <<>>
  /\ receiverOf[AirPlay] \in {Network, None}

(* A USB capture that runs belongs to a session, or its task is about to   *)
(* install it, or its stop is queued: none is left running unseen.         *)
NoOrphanCapture ==
  \A t \in UsbTask : capture[t] = "running" =>
    pc[t] = "install" \/ blocks[t] # <<>> \/ receiverOf[deviceOf[t]] = t

(* The active session, which unaddressed input goes to, is a live session  *)
(* whenever there is one.                                                  *)
ActiveIsLive == IF Sessions = {} THEN active = None ELSE active \in Sessions

Quiescent ==
  /\ mainQueue = <<>> /\ dismissing = {} /\ ~due /\ \A stage \in Stage : starting[stage] = 0
  /\ \A t \in UsbTask : pc[t] \in {"unused", "done"} /\ blocks[t] = <<>>

(* A sink listens to a discovery that is stopped: a stop came between a    *)
(* start's discovery.start() and its sink; the next start makes it hear.   *)
Deaf == sinks > 0 /\ ~scanning

(* When all is settled the coordinator tracks only a device that is there, *)
(* so that the next list can tell what appeared and what went, however     *)
(* starts, stops, cables, failing connects and closing sessions overlap:   *)
(* unless a sink was left to listen to a stopped discovery (Deaf), where   *)
(* no one tells it of an unplugging.                                       *)
TrackedIsPlugged == Quiescent /\ ~Deaf /\ tracked # None => tracked \in PluggedSet

(* A capture whose session is gone stops.                                  *)
OrphansStop ==
  \A t \in UsbTask :
    (capture[t] = "running" /\ pc[t] = "done" /\ receiverOf[deviceOf[t]] # t)
      ~> capture[t] = "stopped"

(* "Stops [...] all sessions": with the service off and nothing left to    *)
(* run there is no session.                                                *)
OffMeansNoSessions == ~enabled /\ Quiescent => Sessions = {}
=============================================================================
