------------------------- MODULE MirrorSessionsProofs -------------------------
(***************************************************************************)
(* Proofs about MirrorSessions, for any devices, any number of connects,   *)
(* any of which may fail, and any number of inputs.                        *)
(***************************************************************************)
EXTENDS MirrorSessions, SequenceTheorems, TLAPS

(* The types of what the proofs speak of; queues and published state, which*)
(* no decision of the code depends on, are left to the runs.               *)
CoreTypes ==
  /\ receiverOf \in [Id -> UsbTask \cup {Network, None}]
  /\ pc \in [UsbTask -> {"unused", "connect", "await", "install", "list",
                         "publish", "open", "failed", "done"}]
  /\ deviceOf \in [UsbTask -> Device \cup {None}]
  /\ capture \in [UsbTask -> {"idle", "running", "stopped", "failed"}]
  /\ blocks \in [UsbTask -> Seq({"start", "stop"})]

(* What waits on a receiver's queue, and what its capture does, by where   *)
(* the connect that created it stands.                                     *)
InstalledPC == {"list", "publish", "open", "done"}
Placed(t) ==
  /\ pc[t] # "unused" => deviceOf[t] \in Device
  /\ pc[t] \in {"unused", "connect"} => blocks[t] = <<>> /\ capture[t] = "idle"
  /\ pc[t] = "await" => blocks[t] = <<"start">> /\ capture[t] = "idle"
  /\ pc[t] = "install" => blocks[t] = <<>> /\ capture[t] = "running"
  /\ pc[t] = "failed" => blocks[t] = <<>> /\ capture[t] # "running"
  /\ pc[t] \in InstalledPC => blocks[t] \in Seq({"stop"})
TasksPlaced == \A t \in UsbTask : Placed(t)

(* A session has only a receiver that a connect has installed.             *)
ReceiversInstalled ==
  \A id \in Id, t \in UsbTask : receiverOf[id] = t => pc[t] \in InstalledPC

CoreInv == CoreTypes /\ TasksPlaced /\ ReceiversInstalled /\ SessionsAreLive /\ NoOrphanCapture

LEMMA CoreInit == Init => CoreInv
<1>. SUFFICES ASSUME Init  PROVE CoreInv
  OBVIOUS
<1>. USE SessionsAssumption DEF Init
<1>1. CoreTypes
  <2>1. blocks \in [UsbTask -> Seq({"start", "stop"})]
    OBVIOUS
  <2>. QED  BY <2>1 DEF CoreTypes
<1>2. TasksPlaced
  BY DEF TasksPlaced, Placed, InstalledPC
<1>3. ReceiversInstalled
  BY DEF ReceiversInstalled
<1>4. SessionsAreLive
  BY DEF SessionsAreLive, Id
<1>5. NoOrphanCapture
  BY DEF NoOrphanCapture
<1>. QED  BY <1>1, <1>2, <1>3, <1>4, <1>5 DEF CoreInv

LEMMA AppendStop ==
  ASSUME NEW queue
  PROVE  /\ queue \in Seq({"stop"}) => Append(queue, "stop") \in Seq({"stop"})
         /\ queue \in Seq({"start", "stop"}) =>
              Append(queue, "stop") \in Seq({"start", "stop"}) /\ Append(queue, "stop") # <<>>
OBVIOUS

-----------------------------------------------------------------------------
(* Connects are spawned, and run on once they have installed.              *)
TasksMove ==
  \A t \in UsbTask :
    \/ pc'[t] = pc[t] /\ deviceOf'[t] = deviceOf[t]
    \/ pc[t] = "unused" /\ pc'[t] = "connect" /\ deviceOf'[t] \in Device
    \/ pc[t] \in InstalledPC /\ pc'[t] \in InstalledPC /\ deviceOf'[t] = deviceOf[t]

(* Tearing sessions down, or none: their receivers are stopped, the others *)
(* are left alone.                                                         *)
LEMMA TearDownKeeps ==
  ASSUME CoreInv, CoreTypes', TasksMove, UNCHANGED capture, NEW ids,
         StopReceivers(ids \cap Id),
         \A id \in Id : receiverOf'[id] = IF id \in ids THEN None ELSE receiverOf[id]
  PROVE  CoreInv'
<1>. USE SessionsAssumption DEF CoreInv, CoreTypes
<1>1. \A t \in UsbTask :
        blocks'[t] = IF \E id \in ids \cap Id : receiverOf[id] = t
                     THEN Append(blocks[t], "stop") ELSE blocks[t]
  BY DEF StopReceivers
<1>2. ASSUME NEW t \in UsbTask  PROVE Placed(t)'
  <2>1. CASE \E id \in ids \cap Id : receiverOf[id] = t
    <3>1. pc[t] \in InstalledPC /\ blocks[t] \in Seq({"stop"})
      BY <2>1 DEF ReceiversInstalled, TasksPlaced, Placed
    <3>2. blocks'[t] \in Seq({"stop"})
      <4>1. blocks'[t] = Append(blocks[t], "stop")
        BY <1>1, <2>1
      <4>. QED  BY <3>1, <4>1, AppendStop
    <3>3. pc'[t] \in InstalledPC /\ deviceOf'[t] \in Device
      BY <3>1 DEF TasksMove, TasksPlaced, Placed, InstalledPC
    <3>. QED  BY <3>2, <3>3 DEF Placed, InstalledPC
  <2>2. CASE ~ \E id \in ids \cap Id : receiverOf[id] = t
    BY <1>1, <2>2 DEF TasksMove, TasksPlaced, Placed, InstalledPC
  <2>. QED  BY <2>1, <2>2
<1>3. ReceiversInstalled'
  <2>1. ASSUME NEW id \in Id, NEW t \in UsbTask, receiverOf'[id] = t  PROVE pc[t] \in InstalledPC
    BY <2>1 DEF ReceiversInstalled
  <2>. QED  BY <2>1 DEF ReceiversInstalled, TasksMove, InstalledPC
<1>4. SessionsAreLive'
  <2>1. ASSUME NEW d \in Device, receiverOf'[d] # None
        PROVE  \E t \in UsbTask : receiverOf'[d] = t /\ deviceOf'[t] = d
                                  /\ capture'[t] = "running" /\ blocks'[t] = <<>>
    <3>1. d \in Id /\ d \notin ids /\ receiverOf'[d] = receiverOf[d]
      BY <2>1 DEF Id
    <3>2. PICK t \in UsbTask : receiverOf[d] = t /\ deviceOf[t] = d
                               /\ capture[t] = "running" /\ blocks[t] = <<>>
      BY <2>1, <3>1 DEF SessionsAreLive
    <3>3. \A id \in Id : receiverOf[id] = t => id = d
      <4>1. ASSUME NEW id \in Id, receiverOf[id] = t  PROVE id = d
        <5>1. CASE id = AirPlay
          BY <4>1, <5>1 DEF SessionsAreLive
        <5>2. CASE id \in Device
          <6>1. receiverOf[id] # None
            BY <4>1
          <6>2. PICK u \in UsbTask : receiverOf[id] = u /\ deviceOf[u] = id
            BY <5>2, <6>1 DEF SessionsAreLive
          <6>. QED  BY <3>2, <4>1, <6>2
        <5>. QED  BY <5>1, <5>2 DEF Id
      <4>. QED  BY <4>1
    <3>4. blocks'[t] = <<>>
      BY <1>1, <3>1, <3>2, <3>3
    <3>5. deviceOf'[t] = d
      BY <3>1, <3>2 DEF ReceiversInstalled, TasksMove, InstalledPC
    <3>. QED  BY <3>1, <3>2, <3>4, <3>5
  <2>2. receiverOf'[AirPlay] \in {Network, None}
    BY DEF SessionsAreLive, Id
  <2>. QED  BY <2>1, <2>2 DEF SessionsAreLive
<1>5. ASSUME NEW t \in UsbTask, capture'[t] = "running"
      PROVE  pc'[t] = "install" \/ blocks'[t] # <<>> \/ receiverOf'[deviceOf'[t]] = t
  <2>1. pc[t] # "unused" /\ deviceOf'[t] = deviceOf[t] /\ deviceOf[t] \in Device
    BY <1>5 DEF TasksPlaced, Placed, TasksMove
  <2>2. pc[t] = "install" => pc'[t] = "install"
    BY DEF TasksMove, InstalledPC
  <2>3. blocks'[t] \in {blocks[t], Append(blocks[t], "stop")}
    BY <1>1
  <2>4. Append(blocks[t], "stop") # <<>>
    BY AppendStop
  <2>5. CASE receiverOf[deviceOf[t]] = t /\ deviceOf[t] \in ids
    <3>1. blocks'[t] = Append(blocks[t], "stop")
      BY <1>1, <2>1, <2>5 DEF Id
    <3>. QED  BY <2>4, <3>1
  <2>6. CASE receiverOf[deviceOf[t]] = t /\ deviceOf[t] \notin ids
    BY <2>1, <2>6 DEF Id
  <2>. QED  BY <1>5, <2>2, <2>3, <2>4, <2>5, <2>6 DEF NoOrphanCapture
<1>. QED  BY <1>2, <1>3, <1>4, <1>5 DEF TasksPlaced, NoOrphanCapture

LEMMA MoveKeeps ==
  ASSUME CoreInv, CoreTypes', TasksMove, UNCHANGED <<receiverOf, capture, blocks>>
  PROVE  CoreInv'
<1>1. StopReceivers({} \cap Id)
  BY DEF StopReceivers, CoreInv, CoreTypes
<1>. QED  BY <1>1, TearDownKeeps

(* A step that tears sessions down and may spawn a connect.                *)
LEMMA TearDownStep ==
  ASSUME CoreInv, NEW ids, NEW open, ids \subseteq Id, TearDown(ids, open), UNCHANGED capture,
         \/ UNCHANGED tasks
         \/ \E t \in UsbTask : \E d \in Device : SpawnConnect(t, d)
  PROVE  CoreInv'
<1>1. blocks' \in [UsbTask -> Seq({"start", "stop"})]
  <2>1. \A t \in UsbTask : blocks'[t] \in {blocks[t], Append(blocks[t], "stop")}
    BY DEF TearDown, StopReceivers
  <2>2. \A t \in UsbTask : blocks'[t] \in Seq({"start", "stop"})
    BY <2>1, AppendStop DEF CoreInv, CoreTypes
  <2>. QED  BY <2>2 DEF TearDown, StopReceivers
<1>2. TasksMove /\ pc' \in [UsbTask -> {"unused", "connect", "await", "install", "list",
                                        "publish", "open", "failed", "done"}]
      /\ deviceOf' \in [UsbTask -> Device \cup {None}]
  BY DEF TasksMove, SpawnConnect, tasks, CoreInv, CoreTypes
<1>3. receiverOf' \in [Id -> UsbTask \cup {Network, None}]
      /\ \A id \in Id : receiverOf'[id] = IF id \in ids THEN None ELSE receiverOf[id]
  BY DEF TearDown, CoreInv, CoreTypes
<1>4. CoreTypes'
  BY <1>1, <1>2, <1>3 DEF CoreInv, CoreTypes
<1>5. StopReceivers(ids \cap Id)
  <2>1. ids \cap Id = ids
    OBVIOUS
  <2>. QED  BY <2>1 DEF TearDown
<1>. QED  BY <1>2, <1>3, <1>4, <1>5, TearDownKeeps

(* What is tracked comes from a list of devices.                           *)
TrackedIsDevice == tracked \in Device \cup {None}

LEMMA TrackedStep ==
  ASSUME TrackedIsDevice, [Next]_vars
  PROVE  TrackedIsDevice'
<1>1. ASSUME NEW ids, NEW tracking, ShowRemaining(ids, tracking), tracking \in {tracked, None}
      PROVE  TrackedIsDevice'
  BY <1>1 DEF ShowRemaining, TrackedIsDevice
<1>2. ASSUME NEW id \in Id, UserCloses(id) \/ Dismissed(id)  PROVE TrackedIsDevice'
  BY <1>1, <1>2 DEF UserCloses, Dismissed, Disconnect
<1>3. CASE HandleEnded
  BY <1>1, <1>3 DEF HandleEnded
<1>4. CASE HandleDevices
  BY <1>4 DEF HandleDevices, TrackedIsDevice
<1>5. CASE StopAll \/ DisableService
  BY <1>5 DEF StopAll, DisableService, Untrack, TrackedIsDevice
<1>6. ASSUME NEW t \in UsbTask, TaskStep(t)  PROVE TrackedIsDevice'
  BY <1>6 DEF TaskStep, Connect, RunStart, RunStop, Install, ReadList, Publish, OpenWindow,
              ConnectFails, Untrack, usb, TrackedIsDevice
<1>7. CASE \/ \E d \in Device : Plug(d) \/ Unplug(d)
           \/ StreamStarts \/ StreamEnds \/ EnableService \/ StartStep
           \/ HandleStarted \/ HandleState \/ HandleSessions \/ HandleNothing \/ UNCHANGED vars
  BY <1>7 DEF Plug, Unplug, StreamStarts, StreamEnds, EnableService, StartStep, CheckSwitch, EnterStart, Scan, Subscribe,
              HandleStarted, HandleState, HandleSessions, HandleNothing, usb, vars, TrackedIsDevice
<1>. QED  BY <1>2, <1>3, <1>4, <1>5, <1>6, <1>7 DEF Next, MainStep

LEMMA MainKeeps ==
  ASSUME CoreInv, TrackedIsDevice,
         \/ \E d \in Device : Plug(d) \/ Unplug(d)
         \/ StreamStarts \/ StreamEnds \/ StopAll \/ EnableService \/ DisableService
         \/ StartStep \/ HandleEnded \/ HandleState \/ HandleSessions
         \/ HandleNothing \/ HandleDevices
         \/ \E id \in Id : UserCloses(id) \/ Dismissed(id)
         \/ UNCHANGED vars
  PROVE  CoreInv'
<1>1. ASSUME UNCHANGED <<receiverOf, capture, blocks, tasks>>  PROVE CoreInv'
  <2>1. CoreTypes'
    BY <1>1 DEF CoreInv, CoreTypes, tasks
  <2>. QED  BY <1>1, <2>1, MoveKeeps DEF TasksMove, tasks
<1>2. CASE \/ \E d \in Device : Plug(d) \/ Unplug(d)
           \/ StreamStarts \/ StreamEnds \/ EnableService \/ StartStep
           \/ HandleState \/ HandleSessions \/ HandleNothing \/ UNCHANGED vars
  BY <1>1, <1>2 DEF Plug, Unplug, StreamStarts, StreamEnds, EnableService, StartStep, CheckSwitch, EnterStart, Scan, Subscribe,
                    HandleState, HandleSessions, HandleNothing, store, receivers, vars
<1>3. Sessions \subseteq Id
  BY DEF Sessions
<1>4. CASE StopAll \/ DisableService
  BY <1>3, <1>4, TearDownStep DEF StopAll, DisableService, DisconnectAll
<1>5. ASSUME NEW id \in Id, UserCloses(id) \/ Dismissed(id)  PROVE CoreInv'
  BY <1>5, TearDownStep DEF UserCloses, Dismissed, Disconnect
<1>6. CASE HandleEnded
  <2>1. AirPlay \in Id
    BY DEF Id
  <2>2. CASE AirPlay \in Sessions
    BY <1>6, <2>1, <2>2, TearDownStep DEF HandleEnded
  <2>3. CASE AirPlay \notin Sessions
    BY <1>1, <1>6, <2>3 DEF HandleEnded, store
  <2>. QED  BY <2>2, <2>3
<1>7. CASE HandleDevices
  <2>1. /\ UNCHANGED capture
        /\ UNCHANGED tasks \/ \E t \in UsbTask : \E d \in Device : SpawnConnect(t, d)
        /\ \/ UNCHANGED <<receiverOf, blocks>>
           \/ tracked # None /\ TearDown({tracked}, windows)
    BY <1>7 DEF HandleDevices, store
  <2>2. CASE tracked # None /\ TearDown({tracked}, windows)
    <3>1. {tracked} \subseteq Id
      BY <2>2 DEF TrackedIsDevice, Id
    <3>. QED  BY <2>1, <2>2, <3>1, TearDownStep
  <2>3. CASE UNCHANGED <<receiverOf, blocks>>
    <3>1. TasksMove /\ CoreTypes'
      BY <2>1, <2>3 DEF TasksMove, SpawnConnect, tasks, CoreInv, CoreTypes
    <3>. QED  BY <2>1, <2>3, <3>1, MoveKeeps
  <2>. QED  BY <2>1, <2>2, <2>3
<1>. QED  BY <1>2, <1>4, <1>5, <1>6, <1>7

-----------------------------------------------------------------------------
(* The steps of a connect and of its receiver's queue.                     *)

LEMMA AirPlayKeeps ==
  ASSUME CoreInv, HandleStarted
  PROVE  CoreInv'
<1>. USE SessionsAssumption DEF CoreInv, CoreTypes
<1>1. receiverOf' = [receiverOf EXCEPT ![AirPlay] = Network] /\ UNCHANGED <<pc, deviceOf, capture, blocks>>
  BY DEF HandleStarted, tasks, receivers
<1>2. AirPlay \in Id /\ \A d \in Device : d \in Id /\ receiverOf'[d] = receiverOf[d]
  BY <1>1 DEF Id
<1>3. CoreTypes'
  BY <1>1, <1>2
<1>4. TasksPlaced'
  BY <1>1 DEF TasksPlaced, Placed
<1>5. ReceiversInstalled'
  BY <1>1 DEF ReceiversInstalled
<1>6. SessionsAreLive'
  BY <1>1, <1>2 DEF SessionsAreLive
<1>7. NoOrphanCapture'
  <2>1. \A t \in UsbTask : capture[t] = "running" => deviceOf[t] \in Device
    BY DEF TasksPlaced, Placed
  <2>. QED  BY <1>1, <1>2, <2>1 DEF NoOrphanCapture
<1>. QED  BY <1>3, <1>4, <1>5, <1>6, <1>7

(* A step of one connect that has no session, or whose receiver has blocks *)
(* left to run, disturbs no session.                                       *)
LEMMA OneTaskKeeps ==
  ASSUME CoreInv, CoreTypes', NEW t \in UsbTask, UNCHANGED <<receiverOf, deviceOf>>,
         pc[t] \notin InstalledPC \/ (blocks[t] # <<>> /\ UNCHANGED pc),
         \A u \in UsbTask : u # t =>
           pc'[u] = pc[u] /\ capture'[u] = capture[u] /\ blocks'[u] = blocks[u],
         Placed(t)', capture'[t] = "running" => pc'[t] = "install"
  PROVE  CoreInv'
<1>. USE SessionsAssumption DEF CoreInv, CoreTypes
<1>1. TasksPlaced'
  BY DEF TasksPlaced, Placed
<1>2. ReceiversInstalled'
  BY DEF ReceiversInstalled
<1>3. SessionsAreLive'
  <2>1. ASSUME NEW d \in Device, NEW u \in UsbTask, receiverOf[d] = u, blocks[u] = <<>>
        PROVE  u # t
    BY <2>1 DEF ReceiversInstalled, Id
  <2>. QED  BY <2>1 DEF SessionsAreLive
<1>4. NoOrphanCapture'
  BY DEF NoOrphanCapture
<1>. QED  BY <1>1, <1>2, <1>3, <1>4

LEMMA InstallKeeps ==
  ASSUME CoreInv, NEW t \in UsbTask, Install(t)
  PROVE  CoreInv'
<1>. USE SessionsAssumption DEF CoreInv, CoreTypes
<1>. DEFINE d == deviceOf[t]
<1>1. /\ pc[t] = "install" /\ pc' = [pc EXCEPT ![t] = "list"] /\ UNCHANGED <<deviceOf, capture>>
      /\ receiverOf' = [receiverOf EXCEPT ![d] = t] /\ StopReceivers({d})
  BY DEF Install
<1>2. d \in Device /\ d \in Id /\ blocks[t] = <<>> /\ capture[t] = "running"
  BY <1>1 DEF TasksPlaced, Placed, Id
<1>3. \A id \in Id : receiverOf[id] # t
  BY <1>1 DEF ReceiversInstalled, InstalledPC
<1>4. \A u \in UsbTask :
        blocks'[u] = IF receiverOf[d] = u THEN Append(blocks[u], "stop") ELSE blocks[u]
  BY <1>1 DEF StopReceivers
<1>. HIDE DEF d
<1>5. blocks' \in [UsbTask -> Seq({"start", "stop"})]
  <2>1. \A u \in UsbTask : blocks'[u] \in Seq({"start", "stop"})
    BY <1>4, AppendStop
  <2>. QED  BY <1>1, <2>1 DEF StopReceivers
<1>6. CoreTypes'
  BY <1>1, <1>2, <1>5
<1>7. ASSUME NEW u \in UsbTask  PROVE Placed(u)'
  <2>1. CASE u = t
    BY <1>1, <1>2, <1>3, <1>4, <2>1 DEF Placed, InstalledPC, d
  <2>2. CASE u # t /\ receiverOf[d] = u
    <3>1. pc[u] \in InstalledPC /\ blocks[u] \in Seq({"stop"}) /\ deviceOf[u] \in Device
      BY <1>2, <2>2 DEF ReceiversInstalled, TasksPlaced, Placed, InstalledPC
    <3>2. blocks'[u] = Append(blocks[u], "stop") /\ pc'[u] = pc[u] /\ deviceOf'[u] = deviceOf[u]
      BY <1>1, <1>4, <2>2
    <3>3. blocks'[u] \in Seq({"stop"})
      BY <3>1, <3>2, AppendStop
    <3>. QED  BY <3>1, <3>2, <3>3 DEF Placed, InstalledPC
  <2>3. CASE u # t /\ receiverOf[d] # u
    BY <1>1, <1>4, <2>3 DEF TasksPlaced, Placed
  <2>. QED  BY <2>1, <2>2, <2>3
<1>8. ReceiversInstalled'
  BY <1>1, <1>2 DEF ReceiversInstalled, InstalledPC
<1>9. SessionsAreLive'
  <2>1. ASSUME NEW e \in Device, receiverOf'[e] # None
        PROVE  \E u \in UsbTask : receiverOf'[e] = u /\ deviceOf'[u] = e
                                  /\ capture'[u] = "running" /\ blocks'[u] = <<>>
    <3>1. CASE e = d
      BY <1>1, <1>2, <1>3, <1>4, <3>1 DEF d
    <3>2. CASE e # d
      <4>1. receiverOf'[e] = receiverOf[e]
        BY <1>1, <1>2, <3>2
      <4>2. PICK u \in UsbTask : receiverOf[e] = u /\ deviceOf[u] = e
                                 /\ capture[u] = "running" /\ blocks[u] = <<>>
        BY <2>1, <4>1 DEF SessionsAreLive
      <4>3. receiverOf[d] # u
        BY <1>2, <3>2, <4>2 DEF SessionsAreLive
      <4>. QED  BY <1>1, <1>4, <4>1, <4>2, <4>3
    <3>. QED  BY <3>1, <3>2
  <2>2. receiverOf'[AirPlay] \in {Network, None}
    BY <1>1, <1>2 DEF SessionsAreLive, Id
  <2>. QED  BY <2>1, <2>2 DEF SessionsAreLive
<1>10. ASSUME NEW u \in UsbTask, capture'[u] = "running"
       PROVE  pc'[u] = "install" \/ blocks'[u] # <<>> \/ receiverOf'[deviceOf'[u]] = u
  <2>1. CASE u = t
    BY <1>1, <1>2, <2>1 DEF d
  <2>2. CASE u # t /\ receiverOf[d] = u
    BY <1>4, <2>2, AppendStop
  <2>3. CASE u # t /\ receiverOf[d] # u
    <3>1. deviceOf[u] \in Device /\ deviceOf[u] \in Id
      BY <1>1, <1>10 DEF TasksPlaced, Placed, Id
    <3>. QED  BY <1>1, <1>2, <1>4, <1>10, <2>3, <3>1 DEF NoOrphanCapture
  <2>. QED  BY <2>1, <2>2, <2>3
<1>. QED  BY <1>6, <1>7, <1>8, <1>9, <1>10 DEF TasksPlaced, NoOrphanCapture

LEMMA BlockKeeps ==
  ASSUME CoreInv, NEW t \in UsbTask,
         Connect(t) \/ RunStart(t) \/ RunStop(t) \/ ConnectFails(t)
  PROVE  CoreInv'
<1>. USE DEF CoreInv, CoreTypes
<1>1. CASE Connect(t)
  <2>1. /\ pc[t] = "connect" /\ UNCHANGED <<receiverOf, deviceOf, capture>>
        /\ \/ pc' = [pc EXCEPT ![t] = "await"] /\ blocks' = [blocks EXCEPT ![t] = Append(@, "start")]
           \/ pc' = [pc EXCEPT ![t] = "failed"] /\ UNCHANGED blocks
    BY <1>1 DEF Connect, store
  <2>2. blocks[t] = <<>> /\ capture[t] = "idle" /\ deviceOf[t] \in Device
    BY <2>1 DEF TasksPlaced, Placed
  <2>3. Append(<<>>, "start") = <<"start">> /\ <<"start">> \in Seq({"start", "stop"})
    OBVIOUS
  <2>. DEFINE queue == <<"start">>
  <2>4. /\ queue \in Seq({"start", "stop"})
        /\ \/ pc' = [pc EXCEPT ![t] = "await"] /\ blocks' = [blocks EXCEPT ![t] = queue]
           \/ pc' = [pc EXCEPT ![t] = "failed"] /\ UNCHANGED blocks
    BY <2>1, <2>2, <2>3
  <2>5. Placed(t)'
    <3>. HIDE DEF queue
    <3>1. (pc'[t] = "await" /\ blocks'[t] = queue) \/ (pc'[t] = "failed" /\ blocks'[t] = <<>>)
      BY <2>2, <2>4
    <3>. QED  BY <2>1, <2>2, <3>1 DEF Placed, InstalledPC, queue
  <2>. HIDE DEF queue
  <2>6. CoreTypes'
    BY <2>1, <2>4
  <2>. QED  BY <2>1, <2>2, <2>4, <2>5, <2>6, OneTaskKeeps DEF InstalledPC
<1>2. CASE RunStart(t)
  <2>1. /\ blocks[t] # <<>> /\ Head(blocks[t]) = "start" /\ UNCHANGED <<receiverOf, deviceOf>>
        /\ blocks' = [blocks EXCEPT ![t] = Tail(@)]
        /\ \/ capture' = [capture EXCEPT ![t] = "running"] /\ pc' = [pc EXCEPT ![t] = "install"]
           \/ capture' = [capture EXCEPT ![t] = "failed"] /\ pc' = [pc EXCEPT ![t] = "failed"]
    BY <1>2 DEF RunStart, store
  <2>2. blocks[t] \notin Seq({"stop"})
    BY <2>1
  <2>3. pc[t] = "await" /\ blocks[t] = <<"start">> /\ deviceOf[t] \in Device
    BY <2>1, <2>2 DEF TasksPlaced, Placed, InstalledPC
  <2>4. Tail(<<"start">>) = <<>> /\ <<>> \in Seq({"start", "stop"})
    OBVIOUS
  <2>5. blocks' = [blocks EXCEPT ![t] = <<>>]
    BY <2>1, <2>3, <2>4
  <2>6. Placed(t)'
    BY <2>1, <2>3, <2>5 DEF Placed, InstalledPC
  <2>7. CoreTypes'
    <3>1. blocks' \in [UsbTask -> Seq({"start", "stop"})]
      BY <2>4, <2>5
    <3>2. pc' \in [UsbTask -> {"unused", "connect", "await", "install", "list",
                               "publish", "open", "failed", "done"}]
          /\ capture' \in [UsbTask -> {"idle", "running", "stopped", "failed"}]
      BY <2>1
    <3>. QED  BY <2>1, <3>1, <3>2
  <2>. QED  BY <2>1, <2>3, <2>5, <2>6, <2>7, OneTaskKeeps DEF InstalledPC
<1>3. CASE RunStop(t)
  <2>1. /\ blocks[t] # <<>> /\ Head(blocks[t]) = "stop" /\ UNCHANGED <<receiverOf, pc, deviceOf>>
        /\ blocks' = [blocks EXCEPT ![t] = Tail(@)] /\ capture' = [capture EXCEPT ![t] = "stopped"]
    BY <1>3 DEF RunStop, store, tasks
  <2>2. pc[t] \in InstalledPC /\ blocks[t] \in Seq({"stop"}) /\ deviceOf[t] \in Device
    BY <2>1 DEF TasksPlaced, Placed, InstalledPC
  <2>3. Tail(blocks[t]) \in Seq({"stop"}) /\ Tail(blocks[t]) \in Seq({"start", "stop"})
    BY <2>1, <2>2
  <2>4. blocks'[t] \in Seq({"stop"}) /\ CoreTypes'
    BY <2>1, <2>3
  <2>5. Placed(t)'
    BY <2>1, <2>2, <2>4 DEF Placed, InstalledPC
  <2>. QED  BY <2>1, <2>4, <2>5, OneTaskKeeps
<1>4. CASE ConnectFails(t)
  <2>1. /\ pc[t] = "failed" /\ UNCHANGED <<receiverOf, deviceOf, capture>>
        /\ pc' = [pc EXCEPT ![t] = "done"] /\ blocks' = [blocks EXCEPT ![t] = Append(@, "stop")]
    BY <1>4 DEF ConnectFails, store
  <2>2. blocks[t] = <<>> /\ capture[t] # "running" /\ deviceOf[t] \in Device
    BY <2>1 DEF TasksPlaced, Placed
  <2>3. Append(<<>>, "stop") \in Seq({"stop"}) /\ Append(<<>>, "stop") \in Seq({"start", "stop"})
    OBVIOUS
  <2>4. Placed(t)' /\ CoreTypes'
    BY <2>1, <2>2, <2>3 DEF Placed, InstalledPC
  <2>. QED  BY <2>1, <2>2, <2>4, OneTaskKeeps DEF InstalledPC
<1>. QED  BY <1>1, <1>2, <1>3, <1>4

LEMMA CoreStep ==
  ASSUME CoreInv, TrackedIsDevice, [Next]_vars
  PROVE  CoreInv'
<1>1. ASSUME NEW t \in UsbTask, ReadList(t) \/ Publish(t) \/ OpenWindow(t)  PROVE CoreInv'
  <2>1. /\ UNCHANGED <<receiverOf, deviceOf, capture, blocks>>
        /\ pc[t] \in InstalledPC /\ \E label \in InstalledPC : pc' = [pc EXCEPT ![t] = label]
    BY <1>1 DEF ReadList, Publish, OpenWindow, InstalledPC, store, receivers
  <2>2. TasksMove /\ CoreTypes'
    BY <2>1 DEF TasksMove, InstalledPC, CoreInv, CoreTypes
  <2>. QED  BY <2>1, <2>2, MoveKeeps
<1>2. ASSUME NEW t \in UsbTask, TaskStep(t)  PROVE CoreInv'
  BY <1>1, <1>2, BlockKeeps, InstallKeeps DEF TaskStep
<1>. QED  BY <1>2, AirPlayKeeps, MainKeeps DEF Next, MainStep

(* No session shows a receiver that is stopped or about to be, whatever    *)
(* connects, replacements and teardowns overlap.                           *)
THEOREM LiveSessions == Spec => []SessionsAreLive
<1>1. Init => TrackedIsDevice
  BY DEF Init, TrackedIsDevice
<1>2. CoreInv => SessionsAreLive
  BY DEF CoreInv
<1>. QED  BY <1>1, <1>2, CoreInit, CoreStep, TrackedStep, PTL DEF Spec

(* A capture that runs is shown, about to be, or about to be stopped.      *)
THEOREM NoCaptureUnseen == Spec => []NoOrphanCapture
<1>1. Init => TrackedIsDevice
  BY DEF Init, TrackedIsDevice
<1>2. CoreInv => NoOrphanCapture
  BY DEF CoreInv
<1>. QED  BY <1>1, <1>2, CoreInit, CoreStep, TrackedStep, PTL DEF Spec

-----------------------------------------------------------------------------
(* The active session is handed on with every step that closes sessions.   *)

LEMMA HandOverKeeps ==
  ASSUME CoreInv, ActiveIsLive, NEW ids, HandOver(ids),
         receiverOf' = [id \in Id |-> IF id \in ids THEN None ELSE receiverOf[id]]
  PROVE  ActiveIsLive'
<1>1. Sessions' = Sessions \ ids
  BY DEF Sessions
<1>. QED  BY <1>1 DEF HandOver, ActiveIsLive

LEMMA ActiveStep ==
  ASSUME CoreInv, ActiveIsLive, [Next]_vars
  PROVE  ActiveIsLive'
<1>1. ASSUME NEW ids, NEW open, TearDown(ids, open)  PROVE ActiveIsLive'
  BY <1>1, HandOverKeeps DEF TearDown
<1>2. ASSUME UNCHANGED store  PROVE ActiveIsLive'
  BY <1>2 DEF store, ActiveIsLive, Sessions
<1>3. ASSUME NEW id \in Id, UserCloses(id) \/ Dismissed(id)  PROVE ActiveIsLive'
  BY <1>1, <1>3 DEF UserCloses, Dismissed, Disconnect
<1>4. CASE StopAll \/ DisableService
  BY <1>1, <1>4 DEF StopAll, DisableService, DisconnectAll
<1>5. CASE HandleEnded \/ HandleDevices
  BY <1>1, <1>2, <1>5 DEF HandleEnded, HandleDevices
<1>6. CASE HandleStarted
  <2>1. receiverOf' = [receiverOf EXCEPT ![AirPlay] = Network] /\ active' = AirPlay /\ AirPlay \in Id
    BY <1>6 DEF HandleStarted, Id
  <2>2. AirPlay \in Sessions'
    BY <2>1, SessionsAssumption DEF Sessions, CoreInv, CoreTypes
  <2>. QED  BY <2>1, <2>2 DEF ActiveIsLive
<1>7. ASSUME NEW t \in UsbTask, Install(t)  PROVE ActiveIsLive'
  <2>1. receiverOf' = [receiverOf EXCEPT ![deviceOf[t]] = t] /\ active' = deviceOf[t] /\ pc[t] = "install"
    BY <1>7 DEF Install
  <2>2. deviceOf[t] \in Id
    BY <2>1 DEF CoreInv, TasksPlaced, Placed, Id
  <2>3. deviceOf[t] \in Sessions'
    BY <2>1, <2>2, SessionsAssumption DEF Sessions, CoreInv, CoreTypes
  <2>. QED  BY <2>1, <2>3 DEF ActiveIsLive
<1>8. ASSUME NEW t \in UsbTask, Connect(t) \/ RunStart(t) \/ RunStop(t) \/ ReadList(t)
                                  \/ Publish(t) \/ OpenWindow(t) \/ ConnectFails(t)
      PROVE  ActiveIsLive'
  BY <1>2, <1>8 DEF Connect, RunStart, RunStop, ReadList, Publish, OpenWindow, ConnectFails
<1>9. CASE \/ \E d \in Device : Plug(d) \/ Unplug(d)
           \/ StreamStarts \/ StreamEnds \/ EnableService \/ StartStep
           \/ HandleState \/ HandleSessions \/ HandleNothing \/ UNCHANGED vars
  BY <1>2, <1>9 DEF Plug, Unplug, StreamStarts, StreamEnds, EnableService, StartStep, CheckSwitch, EnterStart, Scan, Subscribe,
                    HandleState, HandleSessions, HandleNothing, vars
<1>. QED
  BY <1>3, <1>4, <1>5, <1>6, <1>7, <1>8, <1>9 DEF Next, MainStep, TaskStep

(* Input that names no session goes to one that is live, if any is.        *)
THEOREM ActiveSessionLives == Spec => []ActiveIsLive
<1>1. Init => TrackedIsDevice /\ ActiveIsLive
  BY DEF Init, TrackedIsDevice, ActiveIsLive, Sessions
<1>. QED  BY <1>1, CoreInit, CoreStep, TrackedStep, ActiveStep, PTL DEF Spec
-----------------------------------------------------------------------------
(* The main queue                                                          *)

LEMMA StatesTyped ==
  /\ \A id \in Id : Mirroring(id) \in ConnectionState /\ Connecting(id) \in ConnectionState
  /\ Discovering \in ConnectionState /\ Disconnected \in ConnectionState
BY DEF Mirroring, Connecting, Discovering, Disconnected, ConnectionState

LEMMA ClosuresTyped ==
  /\ Started \in Closure /\ Ended \in Closure /\ Nothing \in Closure
  /\ \A s \in ConnectionState : SetState(s) \in Closure
  /\ \A ids \in SUBSET Id : SetSessions(ids) \in Closure
  /\ \A d \in Device \cup {None} : Devices(d) \in Closure
BY DEF Closure

LEMMA ClosureKinds ==
  ASSUME NEW c \in Closure
  PROVE  /\ c.kind = "state" => c.state \in ConnectionState
         /\ c.kind = "sessions" => c.ids \subseteq Id
         /\ c.kind = "devices" => \E d \in Device \cup {None} : c = Devices(d)
<1>1. CASE c \in {Started, Ended, Nothing}
  BY <1>1 DEF Started, Ended, Nothing
<1>2. CASE \E d \in Device \cup {None} : c = Devices(d)
  BY <1>2 DEF Devices
<1>3. CASE \E s \in ConnectionState : c = SetState(s)
  BY <1>3 DEF SetState
<1>4. CASE \E ids \in SUBSET Id : c = SetSessions(ids)
  BY <1>4 DEF SetSessions
<1>. QED  BY <1>1, <1>2, <1>3, <1>4 DEF Closure

LEMMA Appended ==
  ASSUME NEW S, NEW q \in Seq(S), NEW e \in S
  PROVE  /\ Append(q, e) \in Seq(S) /\ Len(q) \in Nat
         /\ Len(Append(q, e)) = Len(q) + 1
         /\ \A k \in 1 .. Len(q) : Append(q, e)[k] = q[k]
         /\ Append(q, e)[Len(q) + 1] = e
BY AppendProperties, LenProperties

LEMMA AppendedPair ==
  ASSUME NEW S, NEW q \in Seq(S), NEW a \in S, NEW b \in S
  PROVE  q \o <<a, b>> = Append(Append(q, a), b)
OBVIOUS

LEMMA Shortened ==
  ASSUME NEW S, NEW q \in Seq(S), q # <<>>
  PROVE  /\ Head(q) \in S /\ Head(q) = q[1]
         /\ Len(q) \in Nat \ {0}
         /\ Tail(q) \in Seq(S) /\ Len(Tail(q)) = Len(q) - 1
         /\ \A k \in 1 .. Len(q) - 1 : Tail(q)[k] = q[k + 1]
<1>1. Len(q) \in Nat \ {0}
  BY EmptySeq, LenProperties
<1>2. /\ Head(q) \in S /\ Tail(q) \in Seq(S) /\ Len(Tail(q)) = Len(q) - 1
      /\ \A k \in 1 .. Len(Tail(q)) : Tail(q)[k] = q[k + 1]
  BY HeadTailProperties
<1>3. Head(q) = q[1]
  BY <1>1
<1>. QED  BY <1>1, <1>2, <1>3

(* No device list waits; the last that waits is this one.                  *)
NoDevices(q) == \A k \in 1 .. Len(q) : q[k].kind # "devices"
LastDevices(q, first) ==
  \E k \in 1 .. Len(q) :
    q[k] = Devices(first) /\ \A j \in 1 .. Len(q) : q[j].kind = "devices" => j <= k

LEMMA AppendOther ==
  ASSUME NEW q \in Seq(Closure), NEW c \in Closure, c.kind # "devices", NEW first
  PROVE  /\ NoDevices(q) => NoDevices(Append(q, c))
         /\ LastDevices(q, first) => LastDevices(Append(q, c), first)
<1>. DEFINE r == Append(q, c)
<1>1. Len(q) \in Nat /\ Len(r) = Len(q) + 1 /\ r[Len(q) + 1] = c /\ \A k \in 1 .. Len(q) : r[k] = q[k]
  BY Appended
<1>. HIDE DEF r
<1>2. \A k \in 1 .. Len(r) : r[k].kind = "devices" => k \in 1 .. Len(q) /\ r[k] = q[k]
  BY <1>1
<1>3. NoDevices(q) => NoDevices(r)
  BY <1>2 DEF NoDevices
<1>4. ASSUME LastDevices(q, first)  PROVE LastDevices(r, first)
  <2>1. PICK k \in 1 .. Len(q) :
          q[k] = Devices(first) /\ \A j \in 1 .. Len(q) : q[j].kind = "devices" => j <= k
    BY <1>4 DEF LastDevices
  <2>2. k \in 1 .. Len(r) /\ r[k] = Devices(first)
    BY <1>1, <2>1
  <2>3. \A j \in 1 .. Len(r) : r[j].kind = "devices" => j <= k
    BY <1>2, <2>1
  <2>. QED  BY <2>2, <2>3 DEF LastDevices
<1>. QED  BY <1>3, <1>4 DEF r

LEMMA AppendDevices ==
  ASSUME NEW q \in Seq(Closure), NEW first \in Device \cup {None}
  PROVE  LastDevices(Append(q, Devices(first)), first)
<1>. DEFINE r == Append(q, Devices(first))
<1>1. Len(q) \in Nat /\ Len(r) = Len(q) + 1 /\ r[Len(q) + 1] = Devices(first)
  BY Appended, ClosuresTyped
<1>. HIDE DEF r
<1>2. Len(q) + 1 \in 1 .. Len(r) /\ \A j \in 1 .. Len(r) : j <= Len(q) + 1
  BY <1>1
<1>3. LastDevices(r, first)
  BY <1>1, <1>2 DEF LastDevices
<1>. QED  BY <1>3 DEF r

LEMMA TailDevices ==
  ASSUME NEW q \in Seq(Closure), q # <<>>, NEW first
  PROVE  /\ NoDevices(q) => NoDevices(Tail(q)) /\ Head(q).kind # "devices"
         /\ LastDevices(q, first) =>
              \/ LastDevices(Tail(q), first)
              \/ Head(q) = Devices(first) /\ NoDevices(Tail(q))
<1>. DEFINE r == Tail(q)
<1>1. /\ Len(q) \in Nat \ {0} /\ Len(r) = Len(q) - 1 /\ Head(q) = q[1]
      /\ \A k \in 1 .. Len(q) - 1 : r[k] = q[k + 1]
  BY Shortened
<1>. HIDE DEF r
<1>2. \A k \in 1 .. Len(r) : k + 1 \in 1 .. Len(q) /\ r[k] = q[k + 1]
  BY <1>1
<1>3. NoDevices(q) => NoDevices(r) /\ Head(q).kind # "devices"
  BY <1>1, <1>2 DEF NoDevices
<1>4. ASSUME LastDevices(q, first)
      PROVE  LastDevices(r, first) \/ (Head(q) = Devices(first) /\ NoDevices(r))
  <2>1. PICK k \in 1 .. Len(q) :
          q[k] = Devices(first) /\ \A j \in 1 .. Len(q) : q[j].kind = "devices" => j <= k
    BY <1>4 DEF LastDevices
  <2>2. CASE k = 1
    <3>1. \A j \in 1 .. Len(r) : r[j].kind # "devices"
      BY <1>2, <2>1, <2>2
    <3>. QED  BY <1>1, <2>1, <2>2, <3>1 DEF NoDevices
  <2>3. CASE k # 1
    <3>1. k - 1 \in 1 .. Len(r) /\ r[k - 1] = Devices(first)
      BY <1>1, <2>1, <2>3
    <3>2. \A j \in 1 .. Len(r) : r[j].kind = "devices" => j <= k - 1
      BY <1>1, <1>2, <2>1
    <3>. QED  BY <3>1, <3>2 DEF LastDevices
  <2>. QED  BY <2>2, <2>3
<1>. QED  BY <1>3, <1>4 DEF r

LEMMA UndeliveredDevices ==
  ASSUME NEW q \in Seq(Closure)
  PROVE  Undelivered(q) \in Seq(Closure) /\ NoDevices(Undelivered(q))
<1>1. Len(q) \in Nat /\ DOMAIN q = 1 .. Len(q) /\ \A k \in 1 .. Len(q) : q[k] \in Closure
  BY LenProperties, ElementOfSeq
<1>2. Undelivered(q) \in [1 .. Len(q) -> Closure]
  BY <1>1, ClosuresTyped DEF Undelivered
<1>3. Undelivered(q) \in Seq(Closure) /\ Len(Undelivered(q)) = Len(q)
  BY <1>1, <1>2
<1>4. \A k \in 1 .. Len(q) : Undelivered(q)[k].kind # "devices"
  BY <1>1 DEF Undelivered, Nothing
<1>. QED  BY <1>3, <1>4 DEF NoDevices

(* A step that at most takes a closure that is no device list from the     *)
(* queue, and adds one or two that are none.                               *)
Passed(q) ==
  \/ q = mainQueue
  \/ mainQueue # <<>> /\ Head(mainQueue).kind # "devices" /\ q = Tail(mainQueue)
Quiet(c) == c \in Closure /\ c.kind # "devices"
QuietMove ==
  \E q : /\ Passed(q)
         /\ \/ mainQueue' = q
            \/ \E c : Quiet(c) /\ mainQueue' = Append(q, c)
            \/ \E c, d : Quiet(c) /\ Quiet(d) /\ mainQueue' = Append(Append(q, c), d)

LEMMA QuietKeeps ==
  ASSUME mainQueue \in Seq(Closure), QuietMove, NEW first
  PROVE  /\ mainQueue' \in Seq(Closure)
         /\ NoDevices(mainQueue) => NoDevices(mainQueue')
         /\ LastDevices(mainQueue, first) => LastDevices(mainQueue', first)
<1>. DEFINE Keeps(q) ==
               /\ q \in Seq(Closure)
               /\ NoDevices(mainQueue) => NoDevices(q)
               /\ LastDevices(mainQueue, first) => LastDevices(q, first)
<1>1. ASSUME NEW q, Passed(q)  PROVE Keeps(q)
  <2>1. CASE q = mainQueue
    BY <2>1
  <2>2. CASE q # mainQueue
    <3>1. mainQueue # <<>> /\ Head(mainQueue).kind # "devices" /\ q = Tail(mainQueue)
      BY <1>1, <2>2 DEF Passed
    <3>2. Devices(first).kind = "devices"
      BY DEF Devices
    <3>3. q \in Seq(Closure)
      BY <3>1, Shortened
    <3>. QED  BY <3>1, <3>2, <3>3, TailDevices
  <2>. QED  BY <2>1, <2>2
<1>2. ASSUME NEW q, Keeps(q), NEW c, Quiet(c)  PROVE Keeps(Append(q, c))
  <2>1. Append(q, c) \in Seq(Closure)
    BY <1>2, Appended DEF Quiet
  <2>. QED  BY <1>2, <2>1, AppendOther DEF Quiet
<1>. HIDE DEF Keeps
<1>3. Keeps(mainQueue')
  BY <1>1, <1>2 DEF QuietMove
<1>. QED  BY <1>3 DEF Keeps

LEMMA QuietAppend ==
  ASSUME NEW q, Passed(q),
         mainQueue' = q \/ \E c : Quiet(c) /\ mainQueue' = Append(q, c)
  PROVE  QuietMove
BY DEF QuietMove

LEMMA QuietClosures ==
  /\ Quiet(Started) /\ Quiet(Ended)
  /\ \A s \in ConnectionState : Quiet(SetState(s))
  /\ \A ids \in SUBSET Id : Quiet(SetSessions(ids))
<1>1. Started.kind # "devices" /\ Ended.kind # "devices"
  BY DEF Started, Ended
<1>2. \A x : SetState(x).kind # "devices" /\ SetSessions(x).kind # "devices"
  BY DEF SetState, SetSessions
<1>. QED  BY <1>1, <1>2, ClosuresTyped DEF Quiet

(* The other steps: what is plugged, listened to or handed on changes.     *)
Rebinds ==
  \/ \E d \in Device : Plug(d) \/ Unplug(d)
  \/ Scan("rescan") \/ Scan("scan") \/ Subscribe \/ DisableService \/ HandleDevices

(* What decides which lists are sent, and to how many sinks.               *)
wiring == <<plugged, scanning, current, sinks>>

LEMMA QuietStep ==
  ASSUME CoreInv, mainQueue \in Seq(Closure), listed \in [UsbTask -> SUBSET Id],
         [Next]_vars, ~Rebinds
  PROVE  QuietMove /\ UNCHANGED wiring
<1>. USE DEF wiring
<1>1. Passed(mainQueue) /\ \A kind : Turn(kind) /\ kind # "devices" => Passed(Tail(mainQueue))
  BY DEF Passed, Turn
<1>2. Sessions \subseteq Id
  BY DEF Sessions
<1>3. CASE StreamStarts \/ StreamEnds
  BY <1>1, <1>3, QuietAppend, QuietClosures DEF StreamStarts, StreamEnds, usb, discovery
<1>4. CASE StopAll
  <2>1. {} \in SUBSET Id
    OBVIOUS
  <2>2. mainQueue' = mainQueue \/ mainQueue' = Append(mainQueue, SetSessions({}))
    BY <1>4 DEF StopAll, DisconnectAll
  <2>. QED  BY <1>1, <1>4, <2>1, <2>2, QuietAppend, QuietClosures DEF StopAll, discovery
<1>5. CASE EnableService \/ UNCHANGED vars
  BY <1>1, <1>5, QuietAppend DEF EnableService, vars, usb, discovery, input
<1>6. CASE HandleStarted
  <2>1. Sessions \cup {AirPlay} \in SUBSET Id
    BY <1>2 DEF Id
  <2>. QED  BY <1>1, <1>6, <2>1, QuietAppend, QuietClosures DEF HandleStarted, usb, discovery, input
<1>7. CASE HandleEnded
  <2>1. Sessions \ {AirPlay} \in SUBSET Id
    BY <1>2
  <2>2. mainQueue' = Tail(mainQueue) \/ mainQueue' = Append(Tail(mainQueue), SetSessions(Sessions \ {AirPlay}))
    BY <1>7 DEF HandleEnded
  <2>3. Turn("ended") /\ UNCHANGED wiring
    BY <1>7 DEF HandleEnded, input, discovery
  <2>. QED  BY <1>1, <2>1, <2>2, <2>3, QuietAppend, QuietClosures
<1>8. CASE HandleState \/ HandleSessions \/ HandleNothing
  BY <1>1, <1>8, QuietAppend DEF HandleState, HandleSessions, HandleNothing, usb, discovery, input
<1>9. ASSUME NEW id \in Id, UserCloses(id) \/ Dismissed(id)
      PROVE  QuietMove /\ UNCHANGED wiring
  <2>1. Sessions \ {id} \in SUBSET Id
    BY <1>2
  <2>2. mainQueue' = Append(mainQueue, SetSessions(Sessions \ {id})) /\ UNCHANGED wiring
    BY <1>9 DEF UserCloses, Dismissed, Disconnect, discovery, input
  <2>. QED  BY <1>1, <2>1, <2>2, QuietAppend, QuietClosures
<1>10. ASSUME NEW t \in UsbTask, Connect(t)  PROVE QuietMove /\ UNCHANGED wiring
  <2>1. deviceOf[t] \in Id
    BY <1>10 DEF Connect, CoreInv, TasksPlaced, Placed, Id
  <2>2. Quiet(SetState(Connecting(deviceOf[t])))
    BY <2>1, StatesTyped, QuietClosures
  <2>. QED  BY <1>1, <1>10, <2>2, QuietAppend DEF Connect, usb, discovery, input
<1>11. ASSUME NEW t \in UsbTask, RunStart(t) \/ RunStop(t) \/ Install(t) \/ ReadList(t) \/ OpenWindow(t)
       PROVE  QuietMove /\ UNCHANGED wiring
  BY <1>1, <1>11, QuietAppend DEF RunStart, RunStop, Install, ReadList, OpenWindow, usb, discovery, input
<1>12. ASSUME NEW t \in UsbTask, ConnectFails(t)  PROVE QuietMove /\ UNCHANGED wiring
  BY <1>1, <1>12, QuietAppend, StatesTyped, QuietClosures DEF ConnectFails, input, discovery
<1>13. ASSUME NEW t \in UsbTask, TaskStep(t)  PROVE QuietMove /\ UNCHANGED wiring
  <2>1. CASE Publish(t)
    <3>1. deviceOf[t] \in Id
      BY <2>1 DEF Publish, CoreInv, TasksPlaced, Placed, Id
    <3>2. listed[t] \in SUBSET Id
      OBVIOUS
    <3>3. Quiet(SetSessions(listed[t])) /\ Quiet(SetState(Mirroring(deviceOf[t])))
      BY <3>1, <3>2, StatesTyped, QuietClosures
    <3>4. mainQueue' = Append(Append(mainQueue, SetSessions(listed[t])), SetState(Mirroring(deviceOf[t])))
      BY <2>1, <3>3, AppendedPair DEF Publish, Quiet
    <3>. QED  BY <1>1, <2>1, <3>3, <3>4 DEF QuietMove, Publish, usb, discovery, input
  <2>. QED  BY <1>10, <1>11, <1>12, <1>13, <2>1 DEF TaskStep
<1>14. CASE CheckSwitch \/ EnterStart
  BY <1>1, <1>14, QuietAppend, StatesTyped, QuietClosures DEF CheckSwitch, EnterStart, input
<1>. QED
  BY <1>3, <1>4, <1>5, <1>6, <1>7, <1>8, <1>9, <1>13, <1>14 DEF Next, MainStep, StartStep, Rebinds

LEMMA FirstTyped ==
  ASSUME NEW list \in Seq(Device)
  PROVE  First(list) \in Device \cup {None}
BY Shortened DEF First

LEMMA WithoutTyped ==
  ASSUME NEW list \in Seq(Device), NEW i \in DOMAIN list
  PROVE  Without(list, i) \in Seq(Device)
<1>1. Len(list) \in Nat /\ DOMAIN list = 1 .. Len(list) /\ \A k \in 1 .. Len(list) : list[k] \in Device
  BY LenProperties, ElementOfSeq
<1>2. i \in 1 .. Len(list) /\ Len(list) - 1 \in Nat
  BY <1>1
<1>3. Without(list, i) \in [1 .. Len(list) - 1 -> Device]
  BY <1>1, <1>2 DEF Without
<1>. QED  BY <1>2, <1>3

(* The same list for every sink.                                           *)
LEMMA Delivered ==
  ASSUME NEW q \in Seq(Closure), NEW first \in Device \cup {None}, sinks \in Nat
  PROVE  /\ q \o Deliveries(first) \in Seq(Closure)
         /\ sinks > 0 => LastDevices(q \o Deliveries(first), first)
         /\ sinks = 0 /\ NoDevices(q) => NoDevices(q \o Deliveries(first))
<1>. DEFINE r == q \o Deliveries(first)
<1>1. Devices(first) \in Closure
  BY ClosuresTyped
<1>2. /\ Deliveries(first) \in Seq(Closure) /\ Len(Deliveries(first)) = sinks
      /\ \A k \in 1 .. sinks : Deliveries(first)[k] = Devices(first)
  BY <1>1 DEF Deliveries
<1>3. Len(q) \in Nat
  BY LenProperties
<1>4. /\ r \in Seq(Closure) /\ Len(r) = Len(q) + sinks
      /\ \A k \in 1 .. Len(q) + sinks :
           r[k] = IF k <= Len(q) THEN q[k] ELSE Deliveries(first)[k - Len(q)]
  BY <1>2, ConcatProperties
<1>. HIDE DEF r
<1>5. ASSUME sinks > 0  PROVE LastDevices(r, first)
  <2>1. Len(q) + sinks \in 1 .. Len(r) /\ \A k \in 1 .. Len(r) : k <= Len(q) + sinks
    BY <1>3, <1>4, <1>5
  <2>2. r[Len(q) + sinks] = Devices(first)
    BY <1>2, <1>3, <1>4, <1>5
  <2>. QED  BY <2>1, <2>2 DEF LastDevices
<1>6. ASSUME sinks = 0, NoDevices(q)  PROVE NoDevices(r)
  BY <1>3, <1>4, <1>6 DEF NoDevices
<1>. QED  BY <1>4, <1>5, <1>6 DEF r

(* The two queues keep their types.                                        *)
LEMMA QueuesTyped ==
  ASSUME CoreInv, TypeOK, [Next]_vars
  PROVE  plugged' \in Seq(Device) /\ mainQueue' \in Seq(Closure)
<1>1. /\ plugged \in Seq(Device) /\ mainQueue \in Seq(Closure)
      /\ listed \in [UsbTask -> SUBSET Id] /\ First(plugged) \in Device \cup {None}
      /\ current \in Device \cup {None} /\ sinks \in Nat
  BY FirstTyped DEF TypeOK
<1>2. \A ids \in SUBSET Id : SetSessions(ids) \in Closure
  BY ClosuresTyped
<1>3. ASSUME NEW d \in Device, Plug(d) \/ Unplug(d)
      PROVE  plugged' \in Seq(Device) /\ mainQueue' \in Seq(Closure)
  <2>1. plugged' \in Seq(Device)
    <3>1. CASE Plug(d)
      BY <1>1, <3>1, Appended DEF Plug
    <3>2. CASE Unplug(d)
      BY <1>1, <3>2, WithoutTyped DEF Unplug
    <3>. QED  BY <1>3, <3>1, <3>2
  <2>2. First(plugged') \in Device \cup {None}
    BY <2>1, FirstTyped
  <2>3. mainQueue' = mainQueue \/ mainQueue' = mainQueue \o Deliveries(First(plugged'))
    BY <1>3 DEF Plug, Unplug, Refresh
  <2>. QED  BY <1>1, <2>1, <2>2, <2>3, Delivered
<1>4. CASE Scan("rescan") \/ Scan("scan") \/ Subscribe
  <2>1. Devices(current) \in Closure
    BY <1>1, ClosuresTyped
  <2>2. /\ UNCHANGED plugged
        /\ \/ UNCHANGED mainQueue
           \/ mainQueue' = mainQueue \o Deliveries(First(plugged))
           \/ mainQueue' = Append(mainQueue, Devices(current))
    BY <1>4 DEF Scan, Subscribe, input
  <2>. QED  BY <1>1, <2>1, <2>2, Delivered, Appended
<1>5. CASE DisableService
  <2>1. Undelivered(mainQueue) \in Seq(Closure) /\ SetSessions({}) \in Closure
    BY <1>1, <1>2, UndeliveredDevices
  <2>2. \/ mainQueue' = Undelivered(mainQueue)
        \/ mainQueue' = Append(Undelivered(mainQueue), SetSessions({}))
    BY <1>5 DEF DisableService, DisconnectAll
  <2>3. mainQueue' \in Seq(Closure)
    BY <2>1, <2>2, Appended
  <2>. QED  BY <1>1, <1>5, <2>3 DEF DisableService
<1>6. CASE HandleDevices
  <2>1. Tail(mainQueue) \in Seq(Closure)
    BY <1>1, <1>6, Shortened DEF HandleDevices, Turn
  <2>2. SetSessions(Sessions \ {tracked}) \in Closure
    BY <1>2 DEF Sessions
  <2>3. mainQueue' = Tail(mainQueue) \/ mainQueue' = Append(Tail(mainQueue), SetSessions(Sessions \ {tracked}))
    BY <1>6 DEF HandleDevices
  <2>4. mainQueue' \in Seq(Closure)
    BY <2>1, <2>2, <2>3, Appended
  <2>. QED  BY <1>1, <1>6, <2>4 DEF HandleDevices
<1>7. CASE ~Rebinds
  BY <1>1, <1>7, QuietStep, QuietKeeps DEF wiring
<1>. QED  BY <1>3, <1>4, <1>5, <1>6, <1>7 DEF Rebinds

LEMMA SwitchesTyped ==
  ASSUME TypeOK, [Next]_vars
  PROVE  /\ inputs' \in 0 .. MaxInputs
         /\ enabled' \in BOOLEAN /\ streaming' \in BOOLEAN /\ due' \in BOOLEAN
         /\ didSetup' \in BOOLEAN /\ scanning' \in BOOLEAN
<1>1. inputs' = inputs \/ Input
  BY DEF Next, vars, input, MainStep, TaskStep, Plug, Unplug, StreamStarts, StreamEnds, StopAll,
         EnableService, DisableService, StartStep, CheckSwitch, EnterStart, Scan, Subscribe, HandleStarted, HandleEnded, HandleState,
         HandleSessions, HandleNothing, HandleDevices, UserCloses, Dismissed, Connect, RunStart,
         RunStop, Install, ReadList, Publish, OpenWindow, ConnectFails
<1>2. inputs' \in 0 .. MaxInputs
  BY <1>1, SessionsAssumption DEF Input, TypeOK
<1>3. /\ enabled' \in {enabled, TRUE, FALSE} /\ due' \in {due, TRUE, FALSE}
      /\ didSetup' \in {didSetup, TRUE, FALSE} /\ scanning' \in {scanning, TRUE, FALSE}
  BY DEF Next, vars, input, usb, discovery, MainStep, TaskStep, Plug, Unplug, StreamStarts, StreamEnds, StopAll,
         EnableService, DisableService, StartStep, CheckSwitch, EnterStart, Scan, Subscribe, HandleStarted, HandleEnded, HandleState,
         HandleSessions, HandleNothing, HandleDevices, UserCloses, Dismissed, Connect, RunStart,
         RunStop, Install, ReadList, Publish, OpenWindow, ConnectFails
<1>4. \/ streaming' \in {streaming, TRUE, FALSE}
      \/ \E id \in Id : streaming' = (streaming /\ receiverOf[id] # Network)
      \/ streaming' = (streaming /\ AirPlay \notin Sessions)
  BY DEF Next, vars, input, MainStep, TaskStep, Plug, Unplug, StreamStarts, StreamEnds, StopAll,
         EnableService, DisableService, StartStep, CheckSwitch, EnterStart, Scan, Subscribe, HandleStarted, HandleEnded, HandleState,
         HandleSessions, HandleNothing, HandleDevices, UserCloses, Dismissed, Disconnect, Connect,
         RunStart, RunStop, Install, ReadList, Publish, OpenWindow, ConnectFails
<1>5. /\ enabled \in BOOLEAN /\ streaming \in BOOLEAN /\ due \in BOOLEAN
      /\ didSetup \in BOOLEAN /\ scanning \in BOOLEAN
  BY DEF TypeOK
<1>6. enabled' \in BOOLEAN /\ due' \in BOOLEAN /\ didSetup' \in BOOLEAN /\ scanning' \in BOOLEAN
  BY <1>3, <1>5
<1>7. streaming' \in BOOLEAN
  BY <1>4, <1>5
<1>. QED  BY <1>2, <1>6, <1>7

(* The counts of starts and sinks stay counts.                             *)
LEMMA StartsTyped ==
  ASSUME CoreInv, TypeOK, [Next]_vars
  PROVE  starting' \in [Stage -> Nat] /\ sinks' \in Nat /\ current' \in Device \cup {None}
<1>. DEFINE goal == starting' \in [Stage -> Nat] /\ sinks' \in Nat /\ current' \in Device \cup {None}
<1>1. /\ starting \in [Stage -> Nat] /\ sinks \in Nat /\ current \in Device \cup {None}
      /\ First(plugged) \in Device \cup {None} /\ First(plugged') \in Device \cup {None}
  BY FirstTyped, QueuesTyped DEF TypeOK
<1>2. \A n \in Nat : n + 1 \in Nat /\ (n > 0 => n - 1 \in Nat)
  OBVIOUS
<1>3. CASE CheckSwitch
  BY <1>1, <1>2, <1>3 DEF CheckSwitch, Stage
<1>4. CASE EnterStart
  <2>1. PICK next \in {"rescan", "scan"} :
          starting' = [starting EXCEPT !["checked"] = @ - 1, ![next] = @ + 1]
    BY <1>4 DEF EnterStart
  <2>. QED  BY <1>1, <1>2, <1>4, <2>1 DEF EnterStart, Stage
<1>5. CASE Scan("rescan")
  BY <1>1, <1>2, <1>5 DEF Scan, Stage
<1>6. CASE Scan("scan")
  BY <1>1, <1>2, <1>6 DEF Scan, Stage
<1>7. CASE Subscribe
  BY <1>1, <1>2, <1>7 DEF Subscribe, Stage
<1>8. CASE \E d \in Device : Plug(d) \/ Unplug(d)
  BY <1>1, <1>8 DEF Plug, Unplug, Refresh
<1>9. CASE DisableService
  BY <1>1, <1>9 DEF DisableService
<1>10. CASE UNCHANGED <<starting, current, sinks>>
  BY <1>1, <1>10
<1>. QED
  BY <1>3, <1>4, <1>5, <1>6, <1>7, <1>8, <1>9, <1>10
    DEF Next, vars, usb, discovery, StartStep, MainStep, TaskStep, StreamStarts, StreamEnds, StopAll,
        EnableService, HandleStarted, HandleEnded, HandleState, HandleSessions, HandleNothing,
        HandleDevices, UserCloses, Dismissed, Connect, RunStart, RunStop, Install, ReadList, Publish,
        OpenWindow, ConnectFails

LEMMA ListsTyped ==
  ASSUME CoreInv, TypeOK, [Next]_vars
  PROVE  listed' \in [UsbTask -> SUBSET Id]
<1>1. Sessions \in SUBSET Id /\ {} \in SUBSET Id
  BY DEF Sessions
<1>2. \/ UNCHANGED listed
      \/ \E t \in UsbTask : listed' = [listed EXCEPT ![t] = Sessions]
      \/ \E t \in UsbTask : listed' = [listed EXCEPT ![t] = {}]
  BY DEF Next, vars, tasks, MainStep, TaskStep, Plug, Unplug, StreamStarts, StreamEnds, StopAll,
         EnableService, DisableService, StartStep, CheckSwitch, EnterStart, Scan, Subscribe, HandleStarted, HandleEnded, HandleState,
         HandleSessions, HandleNothing, HandleDevices, SpawnConnect, UserCloses, Dismissed,
         Connect, RunStart, RunStop, Install, ReadList, Publish, OpenWindow, ConnectFails
<1>3. listed \in [UsbTask -> SUBSET Id]
  BY DEF TypeOK
<1>. QED  BY <1>1, <1>2, <1>3

LEMMA ActiveTyped ==
  ASSUME CoreInv, TypeOK, [Next]_vars
  PROVE  active' \in Id \cup {None}
<1>1. Sessions \subseteq Id /\ AirPlay \in Id
  BY DEF Sessions, Id
<1>2. \A t \in UsbTask : pc[t] = "install" => deviceOf[t] \in Id
  BY DEF CoreInv, TasksPlaced, Placed, Id
<1>3. \/ UNCHANGED active
      \/ active' \in Sessions \cup {None, AirPlay}
      \/ \E t \in UsbTask : pc[t] = "install" /\ active' = deviceOf[t]
  BY DEF Next, vars, store, MainStep, TaskStep, Plug, Unplug, StreamStarts, StreamEnds, StopAll,
         EnableService, DisableService, StartStep, CheckSwitch, EnterStart, Scan, Subscribe, HandleStarted, HandleEnded, HandleState,
         HandleSessions, HandleNothing, HandleDevices, UserCloses, Dismissed, Disconnect,
         DisconnectAll, TearDown, HandOver,
         Connect, RunStart, RunStop, Install, ReadList, Publish, OpenWindow, ConnectFails
<1>4. active \in Id \cup {None}
  BY DEF TypeOK
<1>. QED  BY <1>1, <1>2, <1>3, <1>4

LEMMA StateTyped ==
  ASSUME CoreInv, TypeOK, [Next]_vars
  PROVE  state' \in ConnectionState
<1>1. Sessions \subseteq Id /\ AirPlay \in Id
  BY DEF Sessions, Id
<1>2. CASE HandleState
  <2>1. Head(mainQueue) \in Closure
    BY <1>2, Shortened DEF HandleState, Turn, TypeOK
  <2>2. Head(mainQueue).kind = "state" /\ state' = Head(mainQueue).state
    BY <1>2 DEF HandleState, Turn
  <2>. QED  BY <2>1, <2>2, ClosureKinds
<1>3. CASE ~HandleState
  <2>1. \/ UNCHANGED state
        \/ state' \in {Discovering, Disconnected}
        \/ \E id \in Sessions \cup {AirPlay} : state' = Mirroring(id)
    BY <1>3 DEF Next, vars, ui, MainStep, TaskStep, Plug, Unplug, StreamStarts, StreamEnds, StopAll,
         EnableService, DisableService, StartStep, CheckSwitch, EnterStart, Scan, Subscribe, HandleStarted, HandleEnded,
         HandleSessions, HandleNothing, HandleDevices, UserCloses, Dismissed, Disconnect,
         ShowRemaining, Connect, RunStart, RunStop, Install, ReadList, Publish, OpenWindow,
         ConnectFails
  <2>2. state \in ConnectionState
    BY DEF TypeOK
  <2>. QED  BY <1>1, <2>1, <2>2, StatesTyped
<1>. QED  BY <1>2, <1>3

LEMMA WindowsTyped ==
  ASSUME CoreInv, TypeOK, [Next]_vars
  PROVE  published' \subseteq Id /\ windows' \subseteq Id /\ dismissing' \subseteq windows'
<1>1. published \subseteq Id /\ windows \subseteq Id /\ dismissing \subseteq windows /\ AirPlay \in Id
  BY DEF TypeOK, Id
<1>2. CASE HandleSessions
  <2>1. Head(mainQueue) \in Closure
    BY <1>2, Shortened DEF HandleSessions, Turn, TypeOK
  <2>2. Head(mainQueue).kind = "sessions" /\ published' = Head(mainQueue).ids
    BY <1>2 DEF HandleSessions, Turn
  <2>3. published' \subseteq Id
    BY <2>1, <2>2, ClosureKinds
  <2>. QED  BY <1>1, <1>2, <2>3 DEF HandleSessions
<1>3. ASSUME NEW ids, NEW rest, rest \subseteq windows, TearDown(ids, rest), UNCHANGED published
      PROVE  published' \subseteq Id /\ windows' \subseteq Id /\ dismissing' \subseteq windows'
  BY <1>1, <1>3 DEF TearDown, Dismiss
<1>4. ASSUME NEW id \in Id, UserCloses(id) \/ Dismissed(id)
      PROVE  published' \subseteq Id /\ windows' \subseteq Id /\ dismissing' \subseteq windows'
  <2>1. TearDown({id}, windows \ {id}) /\ UNCHANGED published
    BY <1>4 DEF UserCloses, Dismissed, Disconnect
  <2>. QED  BY <1>3, <2>1
<1>5. CASE StopAll \/ DisableService
  <2>1. TearDown(Sessions, windows) /\ UNCHANGED published
    BY <1>5 DEF StopAll, DisableService, DisconnectAll
  <2>. QED  BY <1>3, <2>1
<1>6. CASE HandleEnded \/ HandleDevices
  <2>1. /\ UNCHANGED published
        /\ UNCHANGED <<windows, dismissing>> \/ \E ids : TearDown(ids, windows)
    BY <1>6 DEF HandleEnded, HandleDevices
  <2>. QED  BY <1>1, <1>3, <2>1
<1>7. CASE HandleStarted
  BY <1>1, <1>7 DEF HandleStarted
<1>8. ASSUME NEW t \in UsbTask, Install(t) \/ OpenWindow(t)
      PROVE  published' \subseteq Id /\ windows' \subseteq Id /\ dismissing' \subseteq windows'
  <2>1. deviceOf[t] \in Id
    BY <1>8 DEF Install, OpenWindow, CoreInv, TasksPlaced, Placed, Id
  <2>2. /\ UNCHANGED published
        /\ windows' \in {windows, windows \cup {deviceOf[t]}}
        /\ dismissing' \in {dismissing, dismissing \cup ({deviceOf[t]} \cap windows)}
    BY <1>8 DEF Install, OpenWindow
  <2>. QED  BY <1>1, <2>1, <2>2
<1>9. ASSUME NEW t \in UsbTask, TaskStep(t), ~(Install(t) \/ OpenWindow(t))
      PROVE  UNCHANGED <<published, windows, dismissing>>
  BY <1>9 DEF TaskStep, Connect, RunStart, RunStop, ReadList, Publish, ConnectFails, ui
<1>10. CASE \/ \E d \in Device : Plug(d) \/ Unplug(d)
            \/ StreamStarts \/ StreamEnds \/ EnableService \/ StartStep
            \/ HandleState \/ HandleNothing \/ UNCHANGED vars
  BY <1>1, <1>10 DEF Plug, Unplug, StreamStarts, StreamEnds, EnableService, StartStep, CheckSwitch, EnterStart, Scan, Subscribe,
                     HandleState, HandleNothing, vars, ui
<1>. QED
  BY <1>1, <1>2, <1>4, <1>5, <1>6, <1>7, <1>8, <1>9, <1>10 DEF Next, MainStep

LEMMA TypesInit == Init => TypeOK /\ CoreInv /\ TrackedIsDevice
<1>. SUFFICES ASSUME Init  PROVE TypeOK
  BY CoreInit DEF Init, TrackedIsDevice
<1>1. <<>> \in Seq(Device) /\ <<>> \in Seq(Closure)
  OBVIOUS
<1>2. inputs \in 0 .. MaxInputs /\ Discovering \in ConnectionState
  BY SessionsAssumption, StatesTyped DEF Init
<1>3. CoreTypes
  BY CoreInit DEF CoreInv
<1>4. starting \in [Stage -> Nat] /\ sinks \in Nat
  BY DEF Init
<1>. QED  BY <1>1, <1>2, <1>3, <1>4 DEF Init, TypeOK, CoreTypes

LEMMA TypesStep ==
  ASSUME TypeOK, CoreInv, [Next]_vars
  PROVE  TypeOK' /\ CoreInv' /\ TrackedIsDevice'
<1>1. TrackedIsDevice
  BY DEF TypeOK, TrackedIsDevice
<1>2. TrackedIsDevice' /\ CoreInv' /\ CoreTypes'
  BY <1>1, CoreStep, TrackedStep DEF CoreInv
<1>. QED
  BY <1>2, QueuesTyped, SwitchesTyped, StartsTyped, ListsTyped, ActiveTyped, StateTyped, WindowsTyped
     DEF TypeOK, CoreTypes, TrackedIsDevice

(* Whatever phones, cables, users and captures do, each variable, the main *)
(* queue of closures and the queue of each receiver included, holds what   *)
(* the code may put there.                                                 *)
THEOREM MirrorTypes == Spec => []TypeOK
BY TypesInit, TypesStep, PTL DEF Spec

-----------------------------------------------------------------------------
(* What the coordinator tracks follows what is plugged.  While the         *)
(* discovery scans, what it has published last is the first device there   *)
(* is.  With no sink no list waits and nothing is tracked.  With sinks and *)
(* a scanning discovery either the last list that waits names the first    *)
(* device, or no list waits and what is tracked is that device or nothing. *)
TrackFollows ==
  /\ scanning => current = First(plugged)
  /\ sinks = 0 => NoDevices(mainQueue) /\ tracked = None
  /\ sinks > 0 /\ scanning =>
       \/ LastDevices(mainQueue, First(plugged))
       \/ NoDevices(mainQueue) /\ tracked \in {None, First(plugged)}

LEMMA QuietTrack ==
  ASSUME [Next]_vars, ~Rebinds
  PROVE  tracked' \in {tracked, None}
BY DEF Next, vars, usb, StartStep, CheckSwitch, EnterStart, MainStep, TaskStep, StreamStarts, StreamEnds, StopAll, EnableService,
       Rebinds, HandleStarted, HandleEnded, HandleState, HandleSessions, HandleNothing,
       UserCloses, Dismissed, Disconnect, ShowRemaining, Connect, RunStart, RunStop, Install,
       ReadList, Publish, OpenWindow, ConnectFails, Untrack

LEMMA TrackStep ==
  ASSUME TypeOK, CoreInv, TrackFollows, [Next]_vars
  PROVE  TrackFollows'
<1>1. /\ plugged \in Seq(Device) /\ mainQueue \in Seq(Closure)
      /\ listed \in [UsbTask -> SUBSET Id] /\ First(plugged) \in Device \cup {None}
      /\ sinks \in Nat /\ scanning \in BOOLEAN /\ current \in Device \cup {None}
  BY FirstTyped DEF TypeOK
<1>2. CASE ~Rebinds
  <2>1. QuietMove /\ UNCHANGED wiring /\ tracked' \in {tracked, None}
    BY <1>1, <1>2, QuietStep, QuietTrack
  <2>2. /\ NoDevices(mainQueue) => NoDevices(mainQueue')
        /\ LastDevices(mainQueue, First(plugged)) => LastDevices(mainQueue', First(plugged))
    BY <1>1, <2>1, QuietKeeps
  <2>3. First(plugged') = First(plugged) /\ UNCHANGED <<scanning, current, sinks>>
    BY <2>1 DEF wiring
  <2>. QED  BY <2>1, <2>2, <2>3 DEF TrackFollows
<1>3. ASSUME NEW d \in Device, Plug(d) \/ Unplug(d)  PROVE TrackFollows'
  <2>1. UNCHANGED <<scanning, sinks, tracked>> /\ Refresh
    BY <1>3 DEF Plug, Unplug
  <2>2. First(plugged') \in Device \cup {None}
    BY QueuesTyped, FirstTyped
  <2>3. CASE scanning
    <3>1. mainQueue' = mainQueue \o Deliveries(First(plugged')) /\ current' = First(plugged')
      BY <2>1, <2>3 DEF Refresh
    <3>2. /\ sinks > 0 => LastDevices(mainQueue', First(plugged'))
          /\ sinks = 0 /\ NoDevices(mainQueue) => NoDevices(mainQueue')
      BY <1>1, <2>2, <3>1, Delivered
    <3>. QED  BY <2>1, <2>3, <3>1, <3>2 DEF TrackFollows
  <2>4. CASE ~scanning
    BY <2>1, <2>4 DEF Refresh, TrackFollows
  <2>. QED  BY <2>3, <2>4
<1>4. ASSUME NEW stage \in Stage, Scan(stage)  PROVE TrackFollows'
  <2>1. scanning' = TRUE /\ UNCHANGED <<plugged, sinks, tracked>>
    BY <1>4 DEF Scan, input
  <2>2. CASE scanning
    <3>1. UNCHANGED <<current, mainQueue>>
      BY <1>4, <2>2 DEF Scan
    <3>. QED  BY <2>1, <2>2, <3>1 DEF TrackFollows
  <2>3. CASE ~scanning
    <3>1. mainQueue' = mainQueue \o Deliveries(First(plugged)) /\ current' = First(plugged)
      BY <1>4, <2>3 DEF Scan
    <3>2. /\ sinks > 0 => LastDevices(mainQueue', First(plugged))
          /\ sinks = 0 /\ NoDevices(mainQueue) => NoDevices(mainQueue')
      BY <1>1, <3>1, Delivered
    <3>3. First(plugged') = First(plugged)
      BY <2>1
    <3>. QED  BY <2>1, <3>1, <3>2, <3>3 DEF TrackFollows
  <2>. QED  BY <2>2, <2>3
<1>5. CASE Subscribe
  <2>1. /\ sinks' = sinks + 1 /\ mainQueue' = Append(mainQueue, Devices(current))
        /\ UNCHANGED <<plugged, scanning, current, tracked>>
    BY <1>5 DEF Subscribe, input
  <2>2. LastDevices(mainQueue', current)
    BY <1>1, <2>1, AppendDevices
  <2>3. sinks' # 0 /\ First(plugged') = First(plugged)
    BY <1>1, <2>1
  <2>. QED  BY <2>1, <2>2, <2>3 DEF TrackFollows
<1>6. CASE DisableService
  <2>1. Undelivered(mainQueue) \in Seq(Closure) /\ NoDevices(Undelivered(mainQueue))
    BY <1>1, UndeliveredDevices
  <2>2. {} \in SUBSET Id
    OBVIOUS
  <2>3. SetSessions({}) \in Closure /\ SetSessions({}).kind # "devices"
    BY <2>2, ClosuresTyped DEF SetSessions
  <2>4. \/ mainQueue' = Undelivered(mainQueue)
        \/ mainQueue' = Append(Undelivered(mainQueue), SetSessions({}))
    BY <1>6 DEF DisableService, DisconnectAll
  <2>5. NoDevices(mainQueue')
    BY <2>1, <2>3, <2>4, AppendOther
  <2>6. scanning' = FALSE /\ sinks' = 0 /\ tracked' = None
    BY <1>6 DEF DisableService, Untrack
  <2>. QED  BY <2>5, <2>6 DEF TrackFollows
<1>7. CASE HandleDevices
  <2>1. PICK first \in Device \cup {None} :
          /\ Head(mainQueue) = Devices(first) /\ tracked' \in {first, None}
          /\ \/ mainQueue' = Tail(mainQueue)
             \/ mainQueue' = Append(Tail(mainQueue), SetSessions(Sessions \ {tracked}))
    BY <1>7 DEF HandleDevices
  <2>2. mainQueue # <<>> /\ UNCHANGED <<plugged, scanning, current, sinks>>
    BY <1>7 DEF HandleDevices, Turn, discovery
  <2>3. Devices(first).kind = "devices"
    BY DEF Devices
  <2>4. sinks > 0 /\ (scanning => LastDevices(mainQueue, First(plugged)))
    <3>1. ~NoDevices(mainQueue)
      BY <1>1, <2>1, <2>2, <2>3, TailDevices
    <3>. QED  BY <1>1, <3>1 DEF TrackFollows
  <2>5. Tail(mainQueue) \in Seq(Closure)
    BY <1>1, <2>2, Shortened
  <2>6. Sessions \ {tracked} \in SUBSET Id
    BY DEF Sessions
  <2>7. SetSessions(Sessions \ {tracked}) \in Closure
        /\ SetSessions(Sessions \ {tracked}).kind # "devices"
    BY <2>6, ClosuresTyped DEF SetSessions
  <2>8. CASE LastDevices(Tail(mainQueue), First(plugged))
    <3>1. LastDevices(mainQueue', First(plugged))
      BY <2>1, <2>5, <2>7, <2>8, AppendOther
    <3>. QED  BY <1>1, <2>2, <2>4, <3>1 DEF TrackFollows
  <2>9. CASE Head(mainQueue) = Devices(First(plugged)) /\ NoDevices(Tail(mainQueue))
    <3>1. NoDevices(mainQueue')
      BY <2>1, <2>5, <2>7, <2>9, AppendOther
    <3>2. first = First(plugged)
      BY <2>1, <2>9 DEF Devices
    <3>. QED  BY <2>1, <2>2, <2>4, <3>1, <3>2 DEF TrackFollows
  <2>10. CASE ~scanning
    BY <2>2, <2>4, <2>10 DEF TrackFollows
  <2>. QED  BY <1>1, <2>2, <2>4, <2>8, <2>9, <2>10, TailDevices
<1>. QED  BY <1>2, <1>3, <1>4, <1>5, <1>6, <1>7 DEF Rebinds, Stage

LEMMA FollowedIsPlugged ==
  ASSUME TypeOK, TrackFollows
  PROVE  TrackedIsPlugged
<1>. SUFFICES ASSUME Quiescent, ~Deaf, tracked # None  PROVE tracked \in PluggedSet
  BY DEF TrackedIsPlugged
<1>0. sinks > 0 /\ scanning
  BY DEF TrackFollows, Deaf, TypeOK
<1>1. ~LastDevices(mainQueue, First(plugged))
  BY DEF Quiescent, LastDevices
<1>2. tracked = First(plugged)
  BY <1>0, <1>1 DEF TrackFollows
<1>3. plugged # <<>> /\ tracked = Head(plugged)
  BY <1>2 DEF First
<1>4. Len(plugged) \in Nat \ {0} /\ Head(plugged) = plugged[1]
  BY <1>3, Shortened DEF TypeOK
<1>5. 1 \in DOMAIN plugged
  BY <1>4, LenProperties DEF TypeOK
<1>. QED  BY <1>3, <1>4, <1>5 DEF PluggedSet

(* When all has settled, the coordinator tracks a device that is there or  *)
(* none: however cables, the service switch, starts it overtakes, failing  *)
(* connects and closing sessions overlap, the lists it acts on catch up    *)
(* with the cable, unless a stop between the start of the discovery and    *)
(* the coordinator's sink has left that sink deaf.                         *)
THEOREM TrackingSettles == Spec => []TrackedIsPlugged
<1>1. Init => TrackFollows
  BY DEF Init, TrackFollows, NoDevices
<1>. QED  BY <1>1, TypesInit, TypesStep, TrackStep, FollowedIsPlugged, PTL DEF Spec
=============================================================================
