------------------------ MODULE HIDAdvertisingProofs ------------------------
(***************************************************************************)
(* Proofs about HIDAdvertising, for any set of calls and any number of     *)
(* stops, changes of the Bluetooth state and failed requests.              *)
(***************************************************************************)
EXTENDS HIDAdvertising, SequenceTheorems, TLAPS

-----------------------------------------------------------------------------
(* Types.  TypeOK has five parts; each action disturbs a few of them.      *)

LEMMA InitTyped == Init => TypeOK
<1> SUFFICES ASSUME Init PROVE TypeOK
  OBVIOUS
<1>1. FlagsOK
  BY DEF Init, FlagsOK
<1>2. CallsOK
  <2>1. resumed \in [Call -> Seq({"ok", "error"})]
    BY DEF Init
  <2>2. pc \in [Call -> {"unused", "create", "ensure", "waiting", "returned"}]
    BY DEF Init
  <2> QED BY <2>1, <2>2 DEF Init, CallsOK
<1>3. QueueOK
  <2>1. hidQueue \in Seq(Item)
    BY DEF Init
  <2> QED BY <2>1 DEF Init, QueueOK
<1>4. FrameworkOK
  <2>1. services \in [Service -> Nat] /\ commands \in Seq(Command)
    BY DEF Init
  <2>2. radio \in BOOLEAN /\ failed \in BOOLEAN /\ dropped \in BOOLEAN /\ ~radio
    BY DEF Init
  <2>3. manager \in Nat /\ power \in {"unknown", "on", "off", "denied"}
    BY DEF Init
  <2> QED BY <2>1, <2>2, <2>3 DEF FrameworkOK
<1>5. InputsOK
  BY HIDAssumption DEF Init, InputsOK
<1> QED BY <1>1, <1>2, <1>3, <1>4, <1>5 DEF TypeOK

(* What a step leaves alone keeps its type.                                *)
LEMMA KeptTyped ==
  ASSUME TypeOK
  PROVE  /\ UNCHANGED flags => FlagsOK'
         /\ UNCHANGED calls => CallsOK'
         /\ UNCHANGED <<hidQueue, finishing, stopping>> => QueueOK'
         /\ UNCHANGED framework => FrameworkOK'
         /\ UNCHANGED inputs => InputsOK'
<1>1. UNCHANGED flags => FlagsOK'
  BY DEF TypeOK, FlagsOK, flags
<1>2. UNCHANGED calls => CallsOK'
  BY DEF TypeOK, CallsOK, calls
<1>3. UNCHANGED <<hidQueue, finishing, stopping>> => QueueOK'
  BY DEF TypeOK, QueueOK
<1>4. UNCHANGED framework => FrameworkOK'
  BY DEF TypeOK, FrameworkOK, framework
<1>5. UNCHANGED inputs => InputsOK'
  BY DEF TypeOK, InputsOK
<1> QED BY <1>1, <1>2, <1>3, <1>4, <1>5

(* What goes onto the queue is an item, what goes to the manager a command.*)
LEMMA MessagesTyped ==
  /\ \A kind \in {"create", "ensure", "stop"} : Block(kind) \in Item
  /\ TypeOK => \A s \in Service, ok \in BOOLEAN : Added(s, ok) \in Item
  /\ TypeOK => \A ok \in BOOLEAN : Started(ok) \in Item
  /\ TypeOK => Callback("state", "none", TRUE) \in Item
  /\ TypeOK => \A c \in Command : c.op # "stop" => Answer(c) \in Item
  /\ \A s \in Service : Add(s) \in Command
  /\ Start \in Command /\ Stop \in Command
<1>1. \A kind \in {"create", "ensure", "stop"} : Block(kind) \in Item
  BY DEF Block, Item
<1>2. ASSUME TypeOK,
             NEW kind \in {"state", "added", "started"}, NEW s \in Service \cup {"none"}, NEW ok \in BOOLEAN
      PROVE  Callback(kind, s, ok) \in Item
  BY <1>2 DEF Callback, Item, TypeOK, FrameworkOK
<1>3. TypeOK => \A c \in Command : c.op # "stop" => Answer(c) \in Item
  BY <1>2 DEF Answer, Added, Started, Command
<1>4. Start \in Command /\ Stop \in Command /\ \A s \in Service : Add(s) \in Command
  BY DEF Add, Start, Stop, Command
<1> QED BY <1>1, <1>2, <1>3, <1>4 DEF Added, Started

LEMMA ResumeTyped ==
  ASSUME TypeOK, NEW outcome \in {"ok", "error"}, ResumeWaiters(outcome), UNCHANGED pc,
         timedOut' \subseteq Call
  PROVE  CallsOK'
BY DEF TypeOK, CallsOK, ResumeWaiters

(* One more item on the queue, or one taken off it.                        *)
LEMMA QueueKept ==
  ASSUME TypeOK, UNCHANGED <<finishing, stopping>>
  PROVE  /\ \A item \in Item : hidQueue' = Append(hidQueue, item) => QueueOK'
         /\ hidQueue # <<>> /\ hidQueue' = Tail(hidQueue) => QueueOK'
BY DEF TypeOK, QueueOK

LEMMA EnsureTyped ==
  ASSUME TypeOK, EnsureAdvertising
  PROVE  /\ commands' \in Seq(Command) /\ installing' \in BOOLEAN
         /\ ~(installed /\ installing')
<1>1. Start \in Command /\ Add("battery") \in Command
  BY MessagesTyped DEF Service
<1>2. commands' \in Seq(Command)
  BY <1>1 DEF TypeOK, FrameworkOK, EnsureAdvertising, InstallServices
<1>3. UNCHANGED installing \/ (installing' = TRUE /\ ~installed)
  BY DEF EnsureAdvertising, InstallServices
<1>4. installing' \in BOOLEAN /\ ~(installed /\ installing')
  <2>1. CASE UNCHANGED installing
    BY <2>1 DEF TypeOK, FlagsOK
  <2>2. CASE installing' = TRUE /\ ~installed
    BY <2>2
  <2> QED BY <1>3, <2>1, <2>2
<1> QED BY <1>2, <1>4

LEMMA CallsTyped ==
  ASSUME TypeOK, NEW c \in Call, Connect(c) \/ Post(c) \/ Timeout(c) \/ Return(c)
  PROVE  TypeOK'
<1>1. CASE Connect(c)
  <2>1. FlagsOK'
    BY <1>1 DEF Connect, TypeOK, FlagsOK
  <2>2. CallsOK'
    <3>1. CASE active
      <4>1. resumed' \in [Call -> Seq({"ok", "error"})]
        <5>1. resumed' = [resumed EXCEPT ![c] = Append(@, "ok")]
          BY <1>1, <3>1 DEF Connect
        <5>2. Append(resumed[c], "ok") \in Seq({"ok", "error"})
          BY DEF TypeOK, CallsOK
        <5> QED BY <5>1, <5>2 DEF TypeOK, CallsOK
      <4>2. pc' \in [Call -> {"unused", "create", "ensure", "waiting", "returned"}]
        BY <1>1, <3>1 DEF Connect, TypeOK, CallsOK
      <4> QED BY <1>1, <3>1, <4>1, <4>2 DEF Connect, TypeOK, CallsOK
    <3>2. CASE ~active
      BY <1>1, <3>2 DEF Connect, TypeOK, CallsOK
    <3> QED BY <3>1, <3>2
  <2> QED BY <1>1, <2>1, <2>2, KeptTyped DEF Connect, TypeOK
<1>2. CASE Post(c)
  <2>1. QueueOK'
    BY <1>2, MessagesTyped, QueueKept DEF Post
  <2>2. CallsOK'
    BY <1>2 DEF Post, TypeOK, CallsOK
  <2> QED BY <1>2, <2>1, <2>2, KeptTyped DEF Post, TypeOK
<1>3. CASE Timeout(c)
  <2>1. timedOut' \subseteq Call
    BY <1>3 DEF Timeout, TypeOK, CallsOK
  <2>2. CallsOK'
    BY <1>3, <2>1, ResumeTyped DEF Timeout
  <2> QED BY <1>3, <2>2, KeptTyped DEF Timeout, TypeOK
<1>4. CASE Return(c)
  <2>1. CallsOK'
    BY <1>4 DEF Return, TypeOK, CallsOK
  <2> QED BY <1>4, <2>1, KeptTyped DEF Return, TypeOK
<1> QED BY <1>1, <1>2, <1>3, <1>4

LEMMA StopsTyped == ASSUME TypeOK, StopAdvertising \/ PostStop PROVE TypeOK'
<1>1. CASE StopAdvertising
  <2>1. FlagsOK'
    BY <1>1 DEF StopAdvertising, TypeOK, FlagsOK
  <2>2. InputsOK'
    BY <1>1, HIDAssumption DEF StopAdvertising, Input, TypeOK, InputsOK
  <2>3. QueueOK'
    BY <1>1 DEF StopAdvertising, TypeOK, QueueOK
  <2> QED BY <1>1, <2>1, <2>2, <2>3, KeptTyped DEF StopAdvertising, TypeOK
<1>2. CASE PostStop
  <2>1. Block("stop") \in Item
    BY MessagesTyped
  <2>2. hidQueue' \in Seq(Item)
    BY <1>2, <2>1 DEF PostStop, TypeOK, QueueOK
  <2>3. stopping' \in BOOLEAN
    BY <1>2 DEF PostStop
  <2>4. QueueOK'
    BY <1>2, <2>2, <2>3 DEF PostStop, TypeOK, QueueOK
  <2> QED BY <1>2, <2>4, KeptTyped DEF PostStop, TypeOK
<1> QED BY <1>1, <1>2

LEMMA QueueTyped == ASSUME TypeOK, HIDQueue PROVE TypeOK'
<1>1. Start \in Command /\ Stop \in Command /\ \A s \in Service : Add(s) \in Command
  BY MessagesTyped
<1>2. CASE CreateManager
  <2>1. QueueOK'
    BY <1>2, QueueKept DEF CreateManager, Turn
  <2>2. FrameworkOK'
    <3>1. services' \in [Service -> Nat] /\ commands' \in Seq(Command)
      BY <1>2 DEF CreateManager
    <3>2. radio' \in BOOLEAN /\ ~radio' /\ failed' \in BOOLEAN /\ dropped' \in BOOLEAN
      BY <1>2 DEF CreateManager, TypeOK, FrameworkOK
    <3>3. manager' \in Nat /\ power' \in {"unknown", "on", "off", "denied"}
      BY <1>2 DEF CreateManager, TypeOK, FrameworkOK
    <3> QED BY <3>1, <3>2, <3>3 DEF FrameworkOK
  <2> QED BY <1>2, <2>1, <2>2, KeptTyped DEF CreateManager, TypeOK
<1>3. CASE DropCallback
  <2>1. QueueOK'
    BY <1>3, QueueKept DEF DropCallback
  <2> QED BY <1>3, <2>1, KeptTyped DEF DropCallback, TypeOK
<1>4. CASE RunEnsure
  <2>1. QueueOK'
    BY <1>4, QueueKept DEF RunEnsure, Turn
  <2>2. commands' \in Seq(Command) /\ installing' \in BOOLEAN /\ ~(installed /\ installing')
    BY <1>4, EnsureTyped DEF RunEnsure
  <2>3. FlagsOK'
    BY <1>4, <2>2 DEF RunEnsure, TypeOK, FlagsOK
  <2>4. FrameworkOK'
    BY <1>4, <2>2 DEF RunEnsure, TypeOK, FrameworkOK
  <2> QED BY <1>4, <2>1, <2>3, <2>4, KeptTyped DEF RunEnsure, TypeOK
<1>5. CASE RunStop
  <2>1. QueueOK'
    BY <1>5, QueueKept DEF RunStop, Turn
  <2>2. FlagsOK'
    BY <1>5 DEF RunStop, TypeOK, FlagsOK
  <2>3. FrameworkOK'
    BY <1>1, <1>5 DEF RunStop, TypeOK, FrameworkOK
  <2> QED BY <1>5, <2>1, <2>2, <2>3, KeptTyped DEF RunStop, TypeOK
<1>6. CASE DidUpdateState
  <2>1. QueueOK'
    BY <1>6, QueueKept DEF DidUpdateState, Turn
  <2>2. commands' \in Seq(Command) /\ installing' \in BOOLEAN /\ ~(installed /\ installing')
    <3>1. CASE power = "on"
      BY <1>6, <3>1, EnsureTyped DEF DidUpdateState
    <3>2. CASE power # "on"
      BY <1>6, <3>2 DEF DidUpdateState, TypeOK, FlagsOK, FrameworkOK
    <3> QED BY <3>1, <3>2
  <2>3. active' \in BOOLEAN
    BY <1>6 DEF DidUpdateState
  <2>4. FlagsOK'
    BY <1>6, <2>2, <2>3 DEF DidUpdateState, TypeOK, FlagsOK
  <2>5. FrameworkOK'
    BY <1>6, <2>2 DEF DidUpdateState, TypeOK, FrameworkOK
  <2>6. CallsOK'
    <3>1. CASE power = "denied"
      BY <1>6, <3>1, ResumeTyped DEF DidUpdateState, TypeOK, CallsOK
    <3>2. CASE power # "denied"
      BY <1>6, <3>2, KeptTyped DEF DidUpdateState, calls
    <3> QED BY <3>1, <3>2
  <2> QED BY <1>6, <2>1, <2>4, <2>5, <2>6, KeptTyped DEF DidUpdateState, TypeOK
<1>7. CASE DidAdd
  <2>1. QueueOK'
    BY <1>7, QueueKept DEF DidAdd, Turn
  <2>2. CASE DidAddFails
    <3>1. FlagsOK'
      BY <1>7, <2>2 DEF DidAdd, DidAddFails, TypeOK, FlagsOK
    <3>2. CallsOK'
      BY <1>7, <2>2, ResumeTyped DEF DidAdd, DidAddFails, TypeOK, CallsOK
    <3>3. FrameworkOK'
      BY <1>7, <2>2 DEF DidAdd, DidAddFails, TypeOK, FrameworkOK
    <3> QED BY <1>7, <2>1, <3>1, <3>2, <3>3, KeptTyped DEF DidAdd, TypeOK
  <2>3. CASE DidAddNext
    <3>1. FlagsOK'
      <4>1. UNCHANGED <<installed, installing>> \/ (installed' = TRUE /\ installing' = FALSE)
        BY <2>3 DEF DidAddNext
      <4>2. installed' \in BOOLEAN /\ installing' \in BOOLEAN /\ ~(installed' /\ installing')
        <5>1. CASE UNCHANGED <<installed, installing>>
          BY <5>1 DEF TypeOK, FlagsOK
        <5>2. CASE installed' = TRUE /\ installing' = FALSE
          BY <5>2
        <5> QED BY <4>1, <5>1, <5>2
      <4> QED BY <1>7, <4>2 DEF DidAdd, TypeOK, FlagsOK
    <3>2. CallsOK'
      BY <1>7, <2>3, KeptTyped DEF DidAdd, DidAddNext, calls
    <3>3. FrameworkOK'
      <4>1. commands' \in Seq(Command)
        <5>1. \E command \in Command : commands' = Append(commands, command)
          BY <1>1, <2>3 DEF DidAddNext, Service
        <5>2. commands \in Seq(Command)
          BY DEF TypeOK, FrameworkOK
        <5> QED BY <5>1, <5>2
      <4> QED BY <1>7, <4>1 DEF DidAdd, TypeOK, FrameworkOK
    <3> QED BY <1>7, <2>1, <3>1, <3>2, <3>3, KeptTyped DEF DidAdd, TypeOK
  <2> QED BY <1>7, <2>2, <2>3 DEF DidAdd
<1>8. CASE DidStart
  <2>1. active' \in BOOLEAN
    BY <1>8 DEF DidStart
  <2>2. finishing' \in {"nothing", "failure", "lateStart"}
    BY <1>8 DEF DidStart
  <2>3. QueueOK'
    BY <1>8, <2>2 DEF DidStart, Turn, TypeOK, QueueOK
  <2>4. FlagsOK'
    BY <1>8, <2>1 DEF DidStart, TypeOK, FlagsOK
  <2>5. CallsOK'
    <3>1. CASE active'
      BY <1>8, <3>1, ResumeTyped DEF DidStart, TypeOK, CallsOK
    <3>2. CASE ~active'
      BY <1>8, <3>2, KeptTyped DEF DidStart, calls
    <3> QED BY <3>1, <3>2
  <2> QED BY <1>8, <2>3, <2>4, <2>5, KeptTyped DEF DidStart, TypeOK
<1>9. CASE FinishStart
  <2>1. QueueOK'
    BY <1>9 DEF FinishStart, TypeOK, QueueOK
  <2>2. CallsOK'
    BY <1>9, ResumeTyped DEF FinishStart, TypeOK, CallsOK
  <2>3. FrameworkOK'
    BY <1>1, <1>9 DEF FinishStart, TypeOK, FrameworkOK
  <2> QED BY <1>9, <2>1, <2>2, <2>3, KeptTyped DEF FinishStart, TypeOK
<1> QED BY <1>2, <1>3, <1>4, <1>5, <1>6, <1>7, <1>8, <1>9 DEF HIDQueue

LEMMA FrameworkTyped ==
  ASSUME TypeOK, CoreBluetooth \/ \E state \in {"on", "off", "denied", "unknown"} : PowerChanges(state)
  PROVE  TypeOK'
<1>1. ASSUME NEW s \in Service, DoAdd(s) PROVE TypeOK'
  <2>1. QueueOK'
    BY <1>1, MessagesTyped, QueueKept DEF DoAdd
  <2>2. services' \in [Service -> Nat]
    BY <1>1 DEF DoAdd, TypeOK, FrameworkOK
  <2>3. FrameworkOK'
    BY <1>1, <2>2 DEF DoAdd, Done, TypeOK, FrameworkOK
  <2> QED BY <1>1, <2>1, <2>3, KeptTyped DEF DoAdd, TypeOK
<1>2. CASE DoStart
  <2>1. QueueOK'
    BY <1>2, MessagesTyped, QueueKept DEF DoStart
  <2>2. FrameworkOK'
    BY <1>2 DEF DoStart, Done, TypeOK, FrameworkOK
  <2> QED BY <1>2, <2>1, <2>2, KeptTyped DEF DoStart, TypeOK
<1>3. CASE DoStop
  <2>1. FrameworkOK'
    <3>1. commands' \in Seq(Command)
      BY <1>3 DEF DoStop, Done, TypeOK, FrameworkOK
    <3>2. radio' \in BOOLEAN /\ ~radio'
      BY <1>3 DEF DoStop
    <3> QED BY <1>3, <3>1, <3>2 DEF DoStop, TypeOK, FrameworkOK
  <2> QED BY <1>3, <2>1, KeptTyped DEF DoStop, TypeOK
<1>4. CASE Refuse
  <2>1. Answer(Head(commands)) \in Item
    BY <1>4, MessagesTyped DEF Refuse, TypeOK, FrameworkOK
  <2>2. QueueOK'
    BY <1>4, <2>1, QueueKept DEF Refuse
  <2>3. InputsOK'
    BY <1>4, HIDAssumption DEF Refuse, Input, TypeOK, InputsOK
  <2>4. FrameworkOK'
    BY <1>4 DEF Refuse, TypeOK, FrameworkOK
  <2> QED BY <1>4, <2>2, <2>3, <2>4, KeptTyped DEF Refuse, TypeOK
<1>5. ASSUME NEW state \in {"on", "off", "denied", "unknown"}, PowerChanges(state) PROVE TypeOK'
  <2>1. QueueOK'
    BY <1>5, MessagesTyped, QueueKept DEF PowerChanges
  <2>2. InputsOK'
    BY <1>5, HIDAssumption DEF PowerChanges, Input, TypeOK, InputsOK
  <2>3. radio' \in BOOLEAN /\ (radio' => power' = "on")
    BY <1>5 DEF PowerChanges
  <2>4. services' \in [Service -> Nat]
    BY <1>5 DEF PowerChanges, Database, TypeOK, FrameworkOK
  <2>5. dropped' \in BOOLEAN
    BY <1>5 DEF PowerChanges, TypeOK, FrameworkOK
  <2>6. manager' \in Nat /\ power' \in {"unknown", "on", "off", "denied"}
    BY <1>5 DEF PowerChanges, TypeOK, FrameworkOK
  <2>7. commands' \in Seq(Command) /\ failed' \in BOOLEAN
    BY <1>5 DEF PowerChanges, TypeOK, FrameworkOK
  <2>8. FrameworkOK'
    BY <2>3, <2>4, <2>5, <2>6, <2>7 DEF FrameworkOK
  <2> QED BY <1>5, <2>1, <2>2, <2>8, KeptTyped DEF PowerChanges, TypeOK
<1> QED BY <1>1, <1>2, <1>3, <1>4, <1>5 DEF CoreBluetooth

LEMMA StutterTyped == TypeOK /\ UNCHANGED vars => TypeOK'
BY KeptTyped DEF vars, TypeOK

(* Every variable keeps its type; services are never both installed and    *)
(* being installed.                                                        *)
THEOREM HIDTypes == Spec => []TypeOK
<1>1. TypeOK /\ [Next]_vars => TypeOK'
  BY CallsTyped, StopsTyped, QueueTyped, FrameworkTyped, StutterTyped DEF Next
<1> QED BY InitTyped, <1>1, PTL DEF Spec

-----------------------------------------------------------------------------
(* Continuations *)

(* A continuation in connectWaiters has not been resumed, and one of a     *)
(* call that has not begun does not exist.                                 *)
WaitersAreFresh ==
  \A c \in Call :
    /\ c \in waiters => resumed[c] = <<>>
    /\ pc[c] = "unused" => c \notin waiters /\ resumed[c] = <<>>

Discipline == ResumedOnce /\ WaitersAreFresh

LEMMA ResumeDisciplined ==
  ASSUME TypeOK, Discipline, NEW outcome \in {"ok", "error"}, ResumeWaiters(outcome), UNCHANGED pc
  PROVE  Discipline'
BY DEF TypeOK, CallsOK, Discipline, ResumedOnce, WaitersAreFresh, ResumeWaiters

LEMMA ConnectDisciplined ==
  ASSUME TypeOK, Discipline, NEW c \in Call, Connect(c)
  PROVE  Discipline'
<1>1. CASE active
  <2>1. resumed[c] = <<>> /\ c \notin waiters
    BY DEF Connect, Discipline, WaitersAreFresh
  <2>2. resumed' = [resumed EXCEPT ![c] = <<"ok">>] /\ pc' = [pc EXCEPT ![c] = "waiting"]
        /\ UNCHANGED waiters
    BY <1>1, <2>1 DEF Connect, TypeOK, CallsOK
  <2> QED BY <2>1, <2>2 DEF TypeOK, CallsOK, Discipline, ResumedOnce, WaitersAreFresh
<1>2. CASE ~active
  BY <1>2 DEF Connect, TypeOK, CallsOK, Discipline, ResumedOnce, WaitersAreFresh
<1> QED BY <1>1, <1>2

LEMMA ElsewhereDisciplined ==
  ASSUME TypeOK, Discipline, UNCHANGED <<waiters, resumed>>,
         \A c \in Call : pc'[c] = "unused" => pc[c] = "unused"
  PROVE  Discipline'
BY DEF Discipline, ResumedOnce, WaitersAreFresh

(* No continuation of connect() is resumed twice, for any number of        *)
(* overlapping calls: resumeConnectWaiters() takes what it resumes out of  *)
(* connectWaiters, and connectOnce() puts in or resumes, never both.       *)
THEOREM NoSecondResume == Spec => []ResumedOnce
<1>1. Init => Discipline
  BY DEF Init, Discipline, ResumedOnce, WaitersAreFresh
<1>2. TypeOK /\ Discipline /\ [Next]_vars => Discipline'
  <2> SUFFICES ASSUME TypeOK, Discipline, [Next]_vars PROVE Discipline'
    OBVIOUS
  <2>1. ASSUME NEW c \in Call, Connect(c) PROVE Discipline'
    BY <2>1, ConnectDisciplined
  <2>2. ASSUME NEW c \in Call, Post(c) \/ Return(c) PROVE Discipline'
    BY <2>2, ElsewhereDisciplined DEF Post, Return, TypeOK, CallsOK
  <2>3. ASSUME NEW c \in Call, Timeout(c) PROVE Discipline'
    BY <2>3, ResumeDisciplined DEF Timeout
  <2>4. CASE HIDQueue
    <3>1. UNCHANGED pc
      BY <2>4 DEF HIDQueue, CreateManager, DropCallback, RunEnsure, RunStop, DidUpdateState,
                  DidAdd, DidStart, FinishStart, calls
    <3>2. UNCHANGED <<waiters, resumed>> \/ ResumeWaiters("ok") \/ ResumeWaiters("error")
      BY <2>4 DEF HIDQueue, CreateManager, DropCallback, RunEnsure, RunStop, DidUpdateState,
                  DidAdd, DidAddFails, DidAddNext, DidStart, FinishStart, calls
    <3> QED BY <3>1, <3>2, ResumeDisciplined, ElsewhereDisciplined
  <2>5. CASE StopAdvertising \/ PostStop \/ CoreBluetooth
    BY <2>5, ElsewhereDisciplined
      DEF StopAdvertising, PostStop, CoreBluetooth, DoAdd, DoStart, DoStop, Refuse, calls
  <2>6. ASSUME NEW state \in {"on", "off", "denied", "unknown"}, PowerChanges(state) PROVE Discipline'
    BY <2>6, ElsewhereDisciplined DEF PowerChanges, calls
  <2>7. CASE UNCHANGED vars
    BY <2>7, ElsewhereDisciplined DEF vars, calls
  <2> QED BY <2>1, <2>2, <2>3, <2>4, <2>5, <2>6, <2>7 DEF Next
<1>3. Discipline => ResumedOnce
  BY DEF Discipline
<1> QED BY HIDTypes, <1>1, <1>2, <1>3, PTL DEF Spec

-----------------------------------------------------------------------------
(* The queue of blocks and callbacks, and the manager's commands           *)

LEMMA Appended ==
  ASSUME NEW S, NEW q \in Seq(S), NEW e \in S
  PROVE  /\ Append(q, e) \in Seq(S)
         /\ Len(Append(q, e)) = Len(q) + 1
         /\ \A k \in 1 .. Len(q) : Append(q, e)[k] = q[k]
         /\ Append(q, e)[Len(q) + 1] = e
BY AppendProperties

LEMMA Shortened ==
  ASSUME NEW S, NEW q \in Seq(S), q # <<>>
  PROVE  /\ Head(q) \in S /\ Head(q) = q[1]
         /\ Len(q) \in Nat \ {0}
         /\ Tail(q) \in Seq(S) /\ Len(Tail(q)) = Len(q) - 1
         /\ \A k \in 1 .. Len(q) - 1 : Tail(q)[k] = q[k + 1]
<1>1. Len(q) \in Nat \ {0}
  BY EmptySeq, LenProperties
<1>2. /\ Head(q) \in S /\ Tail(q) \in Seq(S) /\ Len(Tail(q)) = Len(q) - 1
      /\ \A k \in 1 .. Len(Tail(q)) : Tail(q)[k] = q[k + 1]
  BY HeadTailProperties
<1>3. Head(q) = q[1]
  BY <1>1
<1> QED BY <1>1, <1>2, <1>3

(* What a step does to hidQueue: it takes the first, adds one, or neither; *)
(* the same for commands, which a new manager loses.                       *)
Took == hidQueue # <<>> /\ hidQueue' = Tail(hidQueue)
Queues(item) == item \in Item /\ hidQueue' = Append(hidQueue, item)
Commands(command) == command \in Command /\ commands' = Append(commands, command)
Did(command) == commands # <<>> /\ Head(commands) = command /\ commands' = Tail(commands)

LEMMA QueueFacts ==
  ASSUME TypeOK
  PROVE  /\ hidQueue \in Seq(Item) /\ Len(hidQueue) \in Nat
         /\ commands \in Seq(Command) /\ Len(commands) \in Nat
         /\ \A k \in 1 .. Len(hidQueue) : hidQueue[k] \in Item
         /\ \A k \in 1 .. Len(commands) : commands[k] \in Command
         /\ manager \in Nat
<1>1. hidQueue \in Seq(Item) /\ commands \in Seq(Command) /\ manager \in Nat
  BY DEF TypeOK, QueueOK, FrameworkOK
<1>2. Len(hidQueue) \in Nat /\ Len(commands) \in Nat
  BY <1>1, LenProperties
<1> QED BY <1>1, <1>2, ElementOfSeq

(* The elements that are there after a step were there before, one place   *)
(* further on if the first was taken, or are what was added.               *)
LEMMA QueueAfter ==
  ASSUME TypeOK
  PROVE  /\ Took => /\ Len(hidQueue) \in Nat \ {0} /\ Head(hidQueue) = hidQueue[1]
                    /\ Len(hidQueue') = Len(hidQueue) - 1
                    /\ \A k \in 1 .. Len(hidQueue) - 1 : hidQueue'[k] = hidQueue[k + 1]
         /\ \A item : Queues(item) =>
              /\ Len(hidQueue') = Len(hidQueue) + 1
              /\ \A k \in 1 .. Len(hidQueue) : hidQueue'[k] = hidQueue[k]
              /\ hidQueue'[Len(hidQueue) + 1] = item
<1>1. hidQueue \in Seq(Item)
  BY QueueFacts
<1>2. ASSUME Took
      PROVE  /\ Len(hidQueue) \in Nat \ {0} /\ Head(hidQueue) = hidQueue[1]
             /\ Len(hidQueue') = Len(hidQueue) - 1
             /\ \A k \in 1 .. Len(hidQueue) - 1 : hidQueue'[k] = hidQueue[k + 1]
  BY <1>1, <1>2, Shortened DEF Took
<1>3. ASSUME NEW item, Queues(item)
      PROVE  /\ Len(hidQueue') = Len(hidQueue) + 1
             /\ \A k \in 1 .. Len(hidQueue) : hidQueue'[k] = hidQueue[k]
             /\ hidQueue'[Len(hidQueue) + 1] = item
  BY <1>1, <1>3, Appended DEF Queues
<1> QED BY <1>2, <1>3

LEMMA CommandsAfter ==
  ASSUME TypeOK
  PROVE  /\ \A command : Did(command) =>
              /\ Len(commands) \in Nat \ {0} /\ commands[1] = command
              /\ Len(commands') = Len(commands) - 1
              /\ \A k \in 1 .. Len(commands) - 1 : commands'[k] = commands[k + 1]
         /\ \A command : Commands(command) =>
              /\ Len(commands') = Len(commands) + 1
              /\ \A k \in 1 .. Len(commands) : commands'[k] = commands[k]
              /\ commands'[Len(commands) + 1] = command
<1>1. commands \in Seq(Command)
  BY QueueFacts
<1>2. ASSUME NEW command, Did(command)
      PROVE  /\ Len(commands) \in Nat \ {0} /\ commands[1] = command
             /\ Len(commands') = Len(commands) - 1
             /\ \A k \in 1 .. Len(commands) - 1 : commands'[k] = commands[k + 1]
  BY <1>1, <1>2, Shortened DEF Did
<1>3. ASSUME NEW command, Commands(command)
      PROVE  /\ Len(commands') = Len(commands) + 1
             /\ \A k \in 1 .. Len(commands) : commands'[k] = commands[k]
             /\ commands'[Len(commands) + 1] = command
  BY <1>1, <1>3, Appended DEF Commands
<1> QED BY <1>2, <1>3

-----------------------------------------------------------------------------
(* Managers and what comes from them                                       *)

(* Callbacks come from managers that were created, blocks from none; they  *)
(* do not fail.                                                            *)
Genuine(item) ==
  /\ item.from <= manager
  /\ item.kind \in {"state", "added", "started"} => item.from > 0
  /\ item.kind \in {"create", "ensure", "stop"} => item.from = 0 /\ item.ok
QueueGenuine == \A k \in 1 .. Len(hidQueue) : Genuine(hidQueue[k])

(* Before the first manager there is nothing to ask and nothing on the air.*)
NoManagerYet ==
  manager = 0 =>
    commands = <<>> /\ ~radio /\ finishing = "nothing" /\ power # "on"
      /\ \A s \in Service : services[s] = 0

LEMMA BlocksGenuine ==
  ASSUME TypeOK
  PROVE  \A kind \in {"create", "ensure", "stop"} : Genuine(Block(kind)) /\ Block(kind) \in Item
<1>1. manager \in Nat
  BY QueueFacts
<1>2. ASSUME NEW kind \in {"create", "ensure", "stop"} PROVE Genuine(Block(kind))
  BY <1>1 DEF Genuine, Block
<1> QED BY <1>2, MessagesTyped

LEMMA CallbacksGenuine ==
  ASSUME TypeOK, manager # 0, NEW kind \in {"state", "added", "started"},
         NEW s \in Service \cup {"none"}, NEW ok \in BOOLEAN
  PROVE  Genuine(Callback(kind, s, ok)) /\ Callback(kind, s, ok) \in Item
<1>1. manager \in Nat
  BY QueueFacts
<1>2. Callback(kind, s, ok) \in Item
  BY <1>1 DEF Callback, Item
<1> QED BY <1>1, <1>2 DEF Genuine, Callback

(* An answer to a command that is there comes from a manager.              *)
LEMMA AnswersGenuine ==
  ASSUME TypeOK, NoManagerYet, commands # <<>>
  PROVE  /\ Head(commands).op # "stop" =>
              Genuine(Answer(Head(commands))) /\ Answer(Head(commands)) \in Item
         /\ Genuine(Started(TRUE)) /\ Started(TRUE) \in Item
         /\ \A s \in Service : Genuine(Added(s, TRUE)) /\ Added(s, TRUE) \in Item
<1>1. manager # 0 /\ Head(commands) \in Command
  BY QueueFacts, Shortened DEF NoManagerYet
<1>2. Genuine(Started(TRUE)) /\ Started(TRUE) \in Item
  BY <1>1, CallbacksGenuine DEF Started
<1>3. \A s \in Service : Genuine(Added(s, TRUE)) /\ Added(s, TRUE) \in Item
  BY <1>1, CallbacksGenuine DEF Added
<1>4. CASE Head(commands).op # "stop"
  <2>1. CASE Head(commands).op = "start"
    BY <1>1, <1>2, <1>3, <2>1, CallbacksGenuine DEF Answer, Started
  <2>2. CASE Head(commands).op # "start"
    BY <1>1, <1>2, <1>3, <2>2, CallbacksGenuine DEF Answer, Added, Command
  <2> QED BY <2>1, <2>2
<1> QED BY <1>2, <1>3, <1>4

QueueMoves == Took \/ UNCHANGED hidQueue \/ \E item : Queues(item) /\ Genuine(item)

LEMMA QueueStep ==
  ASSUME TypeOK, NoManagerYet, [Next]_vars
  PROVE  QueueMoves
<1>1. ASSUME NEW c \in Call, Connect(c) \/ Post(c) \/ Timeout(c) \/ Return(c)
      PROVE  QueueMoves
  <2>1. CASE Post(c)
    <3>1. pc[c] \in {"create", "ensure"} /\ hidQueue' = Append(hidQueue, Block(pc[c]))
      BY <2>1 DEF Post
    <3> QED BY <3>1, BlocksGenuine DEF QueueMoves, Queues
  <2>2. CASE Connect(c) \/ Timeout(c) \/ Return(c)
    BY <2>2 DEF Connect, Timeout, Return, QueueMoves
  <2> QED BY <1>1, <2>1, <2>2
<1>2. CASE PostStop
  BY <1>2, BlocksGenuine DEF PostStop, QueueMoves, Queues
<1>3. CASE StopAdvertising \/ DoStop \/ FinishStart \/ UNCHANGED vars
  BY <1>3 DEF StopAdvertising, DoStop, FinishStart, vars, QueueMoves
<1>4. CASE HIDQueue /\ ~FinishStart
  BY <1>4 DEF HIDQueue, CreateManager, DropCallback, RunEnsure, RunStop, DidUpdateState, DidAdd,
              DidStart, Turn, QueueMoves, Took
<1>5. ASSUME NEW s \in Service, DoAdd(s) PROVE QueueMoves
  BY <1>5, AnswersGenuine DEF DoAdd, Done, QueueMoves, Queues
<1>6. CASE DoStart
  BY <1>6, AnswersGenuine DEF DoStart, Done, QueueMoves, Queues
<1>7. CASE Refuse
  <2>1. /\ commands # <<>> /\ Head(commands).op # "stop"
        /\ hidQueue' = Append(hidQueue, Answer(Head(commands)))
    BY <1>7 DEF Refuse
  <2> QED BY <2>1, AnswersGenuine DEF QueueMoves, Queues
<1>8. ASSUME NEW state \in {"on", "off", "denied", "unknown"}, PowerChanges(state) PROVE QueueMoves
  <2>1. manager # 0
    BY <1>8 DEF PowerChanges
  <2>2. Genuine(Callback("state", "none", TRUE)) /\ Callback("state", "none", TRUE) \in Item
    BY <2>1, CallbacksGenuine
  <2> QED BY <1>8, <2>2 DEF PowerChanges, QueueMoves, Queues
<1> QED BY <1>1, <1>2, <1>3, <1>4, <1>5, <1>6, <1>7, <1>8 DEF Next, CoreBluetooth

LEMMA GenuineKept ==
  ASSUME TypeOK, QueueGenuine, QueueMoves, manager' \in Nat, manager <= manager'
  PROVE  QueueGenuine'
<1>1. \A item \in Item : Genuine(item) => Genuine(item)'
  <2>1. SUFFICES ASSUME NEW item \in Item, Genuine(item) PROVE Genuine(item)'
    OBVIOUS
  <2>2. item.from \in Nat /\ manager \in Nat
    BY <2>1, QueueFacts DEF Item
  <2> QED BY <2>1, <2>2 DEF Genuine
<1>2. \A k \in 1 .. Len(hidQueue) : Genuine(hidQueue[k]) /\ hidQueue[k] \in Item
  BY QueueFacts DEF QueueGenuine
<1>3. CASE Took
  <2>1. ASSUME NEW k \in 1 .. Len(hidQueue')
        PROVE  \E j \in 1 .. Len(hidQueue) : hidQueue'[k] = hidQueue[j]
    <3>1. k + 1 \in 1 .. Len(hidQueue) /\ k \in 1 .. Len(hidQueue) - 1
      BY <1>3, QueueAfter
    <3> QED BY <1>3, <3>1, QueueAfter
  <2> QED BY <1>1, <1>2, <2>1 DEF QueueGenuine, Genuine
<1>4. ASSUME NEW item, Queues(item), Genuine(item) PROVE QueueGenuine'
  <2>1. ASSUME NEW k \in 1 .. Len(hidQueue')
        PROVE  hidQueue'[k] = item \/ \E j \in 1 .. Len(hidQueue) : hidQueue'[k] = hidQueue[j]
    <3>1. k \in 1 .. Len(hidQueue) \/ k = Len(hidQueue) + 1
      BY <1>4, QueueAfter, QueueFacts
    <3> QED BY <1>4, <3>1, QueueAfter
  <2>2. item \in Item
    BY <1>4 DEF Queues
  <2> QED BY <1>1, <1>2, <1>4, <2>1, <2>2 DEF QueueGenuine, Genuine
<1>5. CASE UNCHANGED hidQueue
  BY <1>1, <1>2, <1>5 DEF QueueGenuine, Genuine
<1> QED BY <1>3, <1>4, <1>5 DEF QueueMoves

(* Only the block of connect() that creates a manager changes which one is *)
(* current.                                                                *)
LEMMA ManagerStep ==
  ASSUME [Next]_vars
  PROVE  UNCHANGED manager \/ CreateManager
BY DEF Next, vars, Connect, Post, Timeout, Return, StopAdvertising, PostStop, HIDQueue,
       DropCallback, RunEnsure, RunStop, DidUpdateState, DidAdd, DidStart, FinishStart,
       CoreBluetooth, DoAdd, DoStart, DoStop, Refuse, PowerChanges, framework

Provenance == QueueGenuine /\ NoManagerYet

LEMMA ProvenanceKept ==
  ASSUME TypeOK, Provenance, [Next]_vars
  PROVE  Provenance'
<1>1. manager \in Nat /\ manager' \in Nat /\ manager <= manager' /\ (CreateManager => manager' # 0)
  <2>1. manager \in Nat
    BY QueueFacts
  <2>2. CreateManager => manager' = manager + 1
    BY DEF CreateManager
  <2> QED BY <2>1, <2>2, ManagerStep
<1>2. QueueGenuine'
  BY <1>1, QueueStep, GenuineKept DEF Provenance
<1>3. ASSUME manager = 0, UNCHANGED manager
      PROVE  commands' = <<>> /\ ~radio' /\ finishing' = "nothing" /\ power' # "on"
               /\ UNCHANGED services
  <2>1. commands = <<>> /\ ~radio /\ finishing = "nothing" /\ power # "on"
    BY <1>3 DEF Provenance, NoManagerYet
  <2>2. ~DoStart /\ ~DoStop /\ ~Refuse /\ ~FinishStart /\ (\A s \in Service : ~DoAdd(s))
    BY <2>1 DEF DoStart, DoStop, Refuse, FinishStart, DoAdd, Done
  <2>3. ~DidAdd /\ ~DidStart
    <3>1. hidQueue # <<>> => Genuine(Head(hidQueue)) /\ Head(hidQueue) \in Item
      BY QueueFacts, Shortened DEF Provenance, QueueGenuine
    <3> QED BY <1>3, <3>1, QueueFacts DEF DidAdd, DidStart, Turn, Genuine, Item
  <2>4. ~CreateManager /\ \A state \in {"on", "off", "denied", "unknown"} : ~PowerChanges(state)
    BY <1>3 DEF CreateManager, PowerChanges
  <2>5. RunEnsure \/ DidUpdateState => UNCHANGED commands
    BY <1>3, <2>1 DEF RunEnsure, DidUpdateState, EnsureAdvertising
  <2> QED BY <1>3, <2>1, <2>2, <2>3, <2>4, <2>5
      DEF Next, vars, Connect, Post, Timeout, Return, StopAdvertising, PostStop, HIDQueue,
          DropCallback, RunEnsure, RunStop, DidUpdateState, CoreBluetooth, framework
<1>4. NoManagerYet'
  BY <1>1, <1>3, ManagerStep DEF Provenance, NoManagerYet
<1> QED BY <1>2, <1>4 DEF Provenance

-----------------------------------------------------------------------------
(* Off the air                                                             *)

(* A block or a callback of the current manager is on the queue.           *)
Waiting(kind, ok) ==
  \E k \in 1 .. Len(hidQueue) :
    hidQueue[k].kind = kind /\ hidQueue[k].ok = ok /\ hidQueue[k].from \in {0, manager}
Commanded(op) == \E k \in 1 .. Len(commands) : commands[k].op = op

(* While advertising is not wanted but on the air something is on its way  *)
(* that stops it: stopAdvertising() or its block, its command, or the news *)
(* of a start that came too late.                                          *)
SilenceComes ==
  stopping \/ Waiting("stop", TRUE) \/ Commanded("stop") \/ Waiting("started", TRUE)
    \/ finishing = "lateStart"
WillBeSilenced == radio /\ ~wants => SilenceComes

LEMMA StillWaiting ==
  ASSUME TypeOK, NEW kind, NEW ok, Waiting(kind, ok), UNCHANGED manager,
         \/ UNCHANGED hidQueue \/ \E item : Queues(item)
         \/ Took /\ ~(/\ Head(hidQueue).kind = kind /\ Head(hidQueue).ok = ok
                      /\ Head(hidQueue).from \in {0, manager})
  PROVE  Waiting(kind, ok)'
<1>1. PICK k \in 1 .. Len(hidQueue) :
        hidQueue[k].kind = kind /\ hidQueue[k].ok = ok /\ hidQueue[k].from \in {0, manager}
  BY DEF Waiting
<1>2. Len(hidQueue) \in Nat
  BY QueueFacts
<1>3. CASE UNCHANGED hidQueue
  BY <1>1, <1>3 DEF Waiting
<1>4. ASSUME NEW item, Queues(item) PROVE Waiting(kind, ok)'
  BY <1>1, <1>2, <1>4, QueueAfter DEF Waiting
<1>5. CASE Took /\ ~(/\ Head(hidQueue).kind = kind /\ Head(hidQueue).ok = ok
                     /\ Head(hidQueue).from \in {0, manager})
  <2>1. k - 1 \in 1 .. Len(hidQueue') /\ hidQueue'[k - 1] = hidQueue[k]
    BY <1>1, <1>2, <1>5, QueueAfter
  <2> QED BY <1>1, <2>1 DEF Waiting
<1> QED BY <1>3, <1>4, <1>5

LEMMA StillCommanded ==
  ASSUME TypeOK, NEW op, Commanded(op),
         \/ UNCHANGED commands \/ \E command : Commands(command)
         \/ \E command : Did(command) /\ command.op # op
  PROVE  Commanded(op)'
<1>1. PICK k \in 1 .. Len(commands) : commands[k].op = op
  BY DEF Commanded
<1>2. Len(commands) \in Nat
  BY QueueFacts
<1>3. CASE UNCHANGED commands
  BY <1>1, <1>3 DEF Commanded
<1>4. ASSUME NEW command, Commands(command) PROVE Commanded(op)'
  BY <1>1, <1>2, <1>4, CommandsAfter DEF Commanded
<1>5. ASSUME NEW command, Did(command), command.op # op PROVE Commanded(op)'
  <2>1. k - 1 \in 1 .. Len(commands') /\ commands'[k - 1] = commands[k]
    BY <1>1, <1>2, <1>5, CommandsAfter
  <2> QED BY <1>1, <2>1 DEF Commanded
<1> QED BY <1>3, <1>4, <1>5

LEMMA JustQueued ==
  ASSUME TypeOK, NEW item \in Item, hidQueue' = Append(hidQueue, item),
         item.from \in {0, manager'}
  PROVE  Waiting(item.kind, item.ok)'
<1>1. Len(hidQueue) + 1 \in 1 .. Len(hidQueue') /\ hidQueue'[Len(hidQueue) + 1] = item
  BY QueueAfter, QueueFacts DEF Queues
<1> QED BY <1>1 DEF Waiting

LEMMA JustCommanded ==
  ASSUME TypeOK, NEW command, Commands(command)
  PROVE  Commanded(command.op)'
<1>1. Len(commands) + 1 \in 1 .. Len(commands') /\ commands'[Len(commands) + 1] = command
  BY CommandsAfter, QueueFacts
<1> QED BY <1>1 DEF Commanded

(* What leaves the silence on its way: no step but those that are it.      *)
LEMMA StillComes ==
  ASSUME TypeOK, SilenceComes, UNCHANGED manager, stopping => stopping',
         finishing = "lateStart" => finishing' = "lateStart",
         \/ UNCHANGED commands \/ \E command : Commands(command)
         \/ \E command : Did(command) /\ command.op # "stop",
         \/ UNCHANGED hidQueue \/ \E item : Queues(item)
         \/ Took /\ ( \/ Head(hidQueue).kind \notin {"stop", "started"}
                      \/ Head(hidQueue).from \notin {0, manager}
                      \/ Head(hidQueue).kind = "started" /\ ~Head(hidQueue).ok )
  PROVE  SilenceComes'
<1>1. CASE Waiting("stop", TRUE)
  <2>1. Waiting("stop", TRUE)'
    BY <1>1, StillWaiting
  <2> QED BY <2>1 DEF SilenceComes
<1>2. CASE Waiting("started", TRUE)
  <2>1. Waiting("started", TRUE)'
    BY <1>2, StillWaiting
  <2> QED BY <2>1 DEF SilenceComes
<1>3. CASE Commanded("stop")
  <2>1. Commanded("stop")'
    BY <1>3, StillCommanded
  <2> QED BY <2>1 DEF SilenceComes
<1>4. CASE stopping \/ finishing = "lateStart"
  BY <1>4 DEF SilenceComes
<1> QED BY <1>1, <1>2, <1>3, <1>4 DEF SilenceComes

LEMMA EnsureCommands ==
  ASSUME EnsureAdvertising
  PROVE  \/ UNCHANGED commands
         \/ installed /\ Commands(Start)
         \/ ~installed /\ ~installing /\ installing' /\ Commands(Add("battery"))
<1>1. Start \in Command /\ Add("battery") \in Command
  BY MessagesTyped DEF Service
<1> QED BY <1>1 DEF EnsureAdvertising, InstallServices, Commands

(* What the end of an installation step asks for.                          *)
LEMMA AddedCommands ==
  ASSUME DidAddNext
  PROVE  LET service == Head(hidQueue).service
         IN  \/ service = "battery" /\ Commands(Add("deviceInfo")) /\ UNCHANGED <<installed, installing>>
             \/ service = "deviceInfo" /\ Commands(Add("hid")) /\ UNCHANGED <<installed, installing>>
             \/ service = "hid" /\ Commands(Start) /\ installed' /\ ~installing'
<1>1. Start \in Command /\ Add("deviceInfo") \in Command /\ Add("hid") \in Command
  BY MessagesTyped DEF Service
<1> QED BY <1>1 DEF DidAddNext, Commands

LEMMA QueueSilences ==
  ASSUME TypeOK, Provenance, WillBeSilenced, HIDQueue
  PROVE  WillBeSilenced'
<1>1. SUFFICES ASSUME radio', ~wants' PROVE SilenceComes'
  BY DEF WillBeSilenced
<1>2. ~CreateManager
  BY <1>1 DEF CreateManager
<1>3. UNCHANGED <<radio, wants, manager, stopping>>
  BY <1>2 DEF HIDQueue, DropCallback, RunEnsure, RunStop, DidUpdateState, DidAdd, DidStart,
              FinishStart, flags, framework
<1>4. SilenceComes /\ manager # 0 /\ manager \in Nat
  BY <1>1, <1>3, QueueFacts DEF WillBeSilenced, Provenance, NoManagerYet
<1>5. Stop \in Command /\ Stop.op = "stop"
  BY MessagesTyped DEF Stop
<1>6. CASE DropCallback
  BY <1>3, <1>4, <1>6, StillComes DEF DropCallback, Took, framework
<1>7. CASE RunEnsure
  <2>1. UNCHANGED commands \/ \E command : Commands(command)
    BY <1>7, EnsureCommands DEF RunEnsure
  <2>2. Took /\ Head(hidQueue).kind \notin {"stop", "started"} /\ UNCHANGED finishing
    BY <1>7 DEF RunEnsure, Turn, Took
  <2> QED BY <1>3, <1>4, <2>1, <2>2, StillComes
<1>8. CASE RunStop
  <2>1. Commands(Stop)
    BY <1>4, <1>5, <1>8 DEF RunStop, Commands
  <2>2. Commanded("stop")'
    BY <1>5, <2>1, JustCommanded
  <2> QED BY <2>2 DEF SilenceComes
<1>9. CASE DidUpdateState
  <2>1. UNCHANGED commands \/ \E command : Commands(command)
    BY <1>9, EnsureCommands DEF DidUpdateState
  <2>2. Took /\ Head(hidQueue).kind \notin {"stop", "started"} /\ UNCHANGED finishing
    BY <1>9 DEF DidUpdateState, Turn, Took
  <2> QED BY <1>3, <1>4, <2>1, <2>2, StillComes
<1>10. CASE DidAdd
  <2>1. UNCHANGED commands \/ \E command : Commands(command)
    BY <1>10, AddedCommands DEF DidAdd, DidAddFails
  <2>2. Took /\ Head(hidQueue).kind \notin {"stop", "started"} /\ UNCHANGED finishing
    BY <1>10 DEF DidAdd, Turn, Took
  <2> QED BY <1>3, <1>4, <2>1, <2>2, StillComes
<1>11. CASE DidStart
  <2>1. CASE Head(hidQueue).ok
    BY <1>1, <1>3, <1>11, <2>1 DEF DidStart, StillWanted, SilenceComes
  <2>2. CASE ~Head(hidQueue).ok
    <3>1. Took /\ Head(hidQueue).kind = "started" /\ UNCHANGED commands /\ finishing = "nothing"
      BY <1>11 DEF DidStart, Turn, Took, framework
    <3> QED BY <1>3, <1>4, <2>2, <3>1, StillComes
  <2> QED BY <2>1, <2>2
<1>12. CASE FinishStart
  <2>1. CASE finishing = "lateStart"
    <3>1. Commands(Stop)
      BY <1>5, <1>12, <2>1 DEF FinishStart, Commands
    <3>2. Commanded("stop")'
      BY <1>5, <3>1, JustCommanded
    <3> QED BY <3>2 DEF SilenceComes
  <2>2. CASE finishing # "lateStart"
    BY <1>3, <1>4, <1>12, <2>2, StillComes DEF FinishStart
  <2> QED BY <2>1, <2>2
<1> QED BY <1>2, <1>6, <1>7, <1>8, <1>9, <1>10, <1>11, <1>12 DEF HIDQueue

LEMMA OthersSilence ==
  ASSUME TypeOK, Provenance, WillBeSilenced, [Next]_vars, ~HIDQueue
  PROVE  WillBeSilenced'
<1>1. SUFFICES ASSUME radio', ~wants' PROVE SilenceComes'
  BY DEF WillBeSilenced
<1>2. UNCHANGED manager
  BY ManagerStep DEF HIDQueue
<1>3. ASSUME NEW c \in Call, Connect(c) \/ Post(c) \/ Timeout(c) \/ Return(c) PROVE SilenceComes'
  <2>1. ~Connect(c)
    BY <1>1 DEF Connect
  <2>2. SilenceComes /\ UNCHANGED <<stopping, finishing, commands>>
    BY <1>1, <1>3, <2>1 DEF Post, Timeout, Return, WillBeSilenced, flags, framework
  <2>3. UNCHANGED hidQueue \/ \E item : Queues(item)
    <3>1. CASE Post(c)
      <4>1. pc[c] \in {"create", "ensure"} /\ hidQueue' = Append(hidQueue, Block(pc[c]))
        BY <3>1 DEF Post
      <4> QED BY <4>1, MessagesTyped DEF Queues
    <3> QED BY <1>3, <2>1, <3>1 DEF Timeout, Return
  <2> QED BY <1>2, <2>2, <2>3, StillComes
<1>4. CASE StopAdvertising
  BY <1>4 DEF StopAdvertising, SilenceComes
<1>5. CASE PostStop
  <2>1. Waiting("stop", TRUE)'
    <3>1. Block("stop") \in Item /\ hidQueue' = Append(hidQueue, Block("stop"))
      BY <1>5, MessagesTyped DEF PostStop
    <3>2. Block("stop").kind = "stop" /\ Block("stop").ok = TRUE /\ Block("stop").from = 0
      BY DEF Block
    <3> QED BY <3>1, <3>2, JustQueued
  <2> QED BY <2>1 DEF SilenceComes
<1>6. ASSUME NEW s \in Service, DoAdd(s) PROVE SilenceComes'
  <2>1. SilenceComes /\ UNCHANGED <<stopping, finishing>>
    BY <1>1, <1>6 DEF DoAdd, WillBeSilenced, flags
  <2>2. Did(Add(s)) /\ Add(s).op # "stop"
    BY <1>6 DEF DoAdd, Done, Did, Add
  <2>3. \E item : Queues(item)
    BY <1>6, MessagesTyped DEF DoAdd, Queues
  <2> QED BY <1>2, <2>1, <2>2, <2>3, StillComes
<1>7. CASE DoStart
  <2>1. Waiting("started", TRUE)'
    <3>1. Started(TRUE) \in Item /\ hidQueue' = Append(hidQueue, Started(TRUE))
      BY <1>7, MessagesTyped DEF DoStart
    <3>2. Started(TRUE).kind = "started" /\ Started(TRUE).ok = TRUE /\ Started(TRUE).from = manager'
      BY <1>2 DEF Started, Callback
    <3> QED BY <3>1, <3>2, JustQueued
  <2> QED BY <2>1 DEF SilenceComes
<1>8. CASE DoStop
  BY <1>1, <1>8 DEF DoStop
<1>9. CASE Refuse
  <2>1. SilenceComes /\ UNCHANGED <<stopping, finishing>>
    BY <1>1, <1>9 DEF Refuse, WillBeSilenced, flags
  <2>2. Did(Head(commands)) /\ Head(commands).op # "stop"
    BY <1>9 DEF Refuse, Did
  <2>3. \E item : Queues(item)
    BY <1>9, AnswersGenuine DEF Refuse, Queues, Provenance
  <2> QED BY <1>2, <2>1, <2>2, <2>3, StillComes
<1>10. ASSUME NEW state \in {"on", "off", "denied", "unknown"}, PowerChanges(state) PROVE SilenceComes'
  <2>1. radio /\ ~wants /\ UNCHANGED <<stopping, finishing, commands>>
    BY <1>1, <1>10 DEF PowerChanges, flags
  <2>2. \E item : Queues(item)
    BY <1>10, MessagesTyped DEF PowerChanges, Queues
  <2> QED BY <1>2, <2>1, <2>2, StillComes DEF WillBeSilenced
<1>11. CASE UNCHANGED vars
  BY <1>1, <1>11, StillComes DEF vars, WillBeSilenced, flags, framework
<1> QED BY <1>3, <1>4, <1>5, <1>6, <1>7, <1>8, <1>9, <1>10, <1>11 DEF Next, CoreBluetooth

(* With advertising not wanted and nothing left to run the radio is        *)
(* silent: stopAdvertising() may come at any moment of a start, before or  *)
(* after the installation, and a start it misses is taken back.            *)
THEOREM SilentWhenOff == Spec => []OffMeansOffAir
<1>1. Init => Provenance /\ WillBeSilenced
  BY DEF Init, Provenance, QueueGenuine, NoManagerYet, WillBeSilenced
<1>2. TypeOK /\ Provenance /\ WillBeSilenced /\ [Next]_vars => Provenance' /\ WillBeSilenced'
  BY ProvenanceKept, QueueSilences, OthersSilence
<1>3. TypeOK /\ WillBeSilenced => OffMeansOffAir
  <2> SUFFICES ASSUME TypeOK, WillBeSilenced, Settled, ~wants PROVE ~radio
    BY DEF OffMeansOffAir
  <2>1. ~SilenceComes
    BY DEF Settled, SilenceComes, Waiting, Commanded
  <2> QED BY <2>1 DEF WillBeSilenced
<1> QED BY HIDTypes, <1>1, <1>2, <1>3, PTL DEF Spec

-----------------------------------------------------------------------------
(* The GATT database                                                       *)

(* What is asked of the manager, and on which grounds.                     *)
CommandMoves ==
  \/ UNCHANGED commands \/ Commands(Stop)
  \/ installed /\ Commands(Start)
  \/ DidAdd /\ DidAddNext
  \/ ~installed /\ ~installing /\ installing' /\ Commands(Add("battery"))
  \/ (\E s \in Service : DoAdd(s)) \/ DoStart \/ DoStop \/ Refuse

LEMMA CommandStep ==
  ASSUME [Next]_vars, ~CreateManager
  PROVE  CommandMoves
<1>1. Stop \in Command
  BY MessagesTyped
<1>2. CASE RunEnsure \/ DidUpdateState
  BY <1>2, EnsureCommands DEF RunEnsure, DidUpdateState, CommandMoves
<1>3. CASE DidAdd
  BY <1>3 DEF DidAdd, DidAddFails, CommandMoves
<1>4. CASE RunStop \/ FinishStart
  BY <1>1, <1>4 DEF RunStop, FinishStart, CommandMoves, Commands
<1>5. CASE DropCallback \/ DidStart
  BY <1>5 DEF DropCallback, DidStart, framework, CommandMoves
<1>6. CASE CoreBluetooth
  BY <1>6 DEF CoreBluetooth, CommandMoves
<1>7. ASSUME NEW state \in {"on", "off", "denied", "unknown"}, PowerChanges(state) PROVE CommandMoves
  BY <1>7 DEF PowerChanges, CommandMoves
<1>8. ASSUME NEW c \in Call, Connect(c) \/ Post(c) \/ Timeout(c) \/ Return(c) PROVE CommandMoves
  BY <1>8 DEF Connect, Post, Timeout, Return, framework, CommandMoves
<1>9. CASE StopAdvertising \/ PostStop \/ UNCHANGED vars
  BY <1>9 DEF StopAdvertising, PostStop, vars, framework, CommandMoves
<1> QED BY <1>2, <1>3, <1>4, <1>5, <1>6, <1>7, <1>8, <1>9 DEF Next, HIDQueue

(* A callback of the current manager says that a service was added.        *)
AddedAt(k) == hidQueue[k].kind = "added" /\ hidQueue[k].from = manager

LEMMA AddedIsHead ==
  ASSUME TypeOK, Provenance, DidAdd
  PROVE  AddedAt(1) /\ Took /\ Head(hidQueue) = hidQueue[1] /\ 1 \in 1 .. Len(hidQueue)
         /\ manager # 0 /\ UNCHANGED <<manager, services, failed, dropped, radio>>
<1>1. Took /\ Head(hidQueue).kind = "added" /\ Head(hidQueue).from \in {0, manager}
  BY DEF DidAdd, Turn, Took
<1>2. Head(hidQueue) = hidQueue[1] /\ 1 \in 1 .. Len(hidQueue)
  BY <1>1, QueueAfter
<1>3. Head(hidQueue).from > 0
  BY <1>1, <1>2 DEF Provenance, QueueGenuine, Genuine
<1>4. UNCHANGED <<manager, services, failed, dropped, radio>>
  BY DEF DidAdd
<1> QED BY <1>1, <1>2, <1>3, <1>4 DEF AddedAt

(* The database of the first manager holds the HID service whenever it     *)
(* advertises or may be told to, as long as none with it was cleared.      *)
HidAdded ==
  \E k \in 1 .. Len(hidQueue) : AddedAt(k) /\ hidQueue[k].service = "hid" /\ hidQueue[k].ok
ServiceFirst ==
  /\ manager = 0 => ~installed /\ ~dropped
  /\ manager <= 1 /\ ~dropped /\ (radio \/ installed \/ Commanded("start") \/ HidAdded) => services["hid"] > 0

LEMMA FrameworkFacts ==
  ASSUME TypeOK
  PROVE  /\ \A s \in Service : services[s] \in Nat
         /\ radio \in BOOLEAN /\ failed \in BOOLEAN
         /\ "hid" \in Service
<1>1. \A s \in Service : services[s] \in Nat
  BY DEF TypeOK, FrameworkOK
<1>2. radio \in BOOLEAN /\ failed \in BOOLEAN
  BY DEF TypeOK, FrameworkOK
<1> QED BY <1>1, <1>2 DEF Service

(* Services only come, until a new manager starts from nothing or a        *)
(* change of the Bluetooth state clears the database.                      *)
LEMMA ServicesGrow ==
  ASSUME TypeOK, [Next]_vars, ~CreateManager
  PROVE  \/ \E s \in Service : DoAdd(s)
         \/ \E state \in {"on", "off", "denied", "unknown"} : PowerChanges(state)
         \/ UNCHANGED services
BY DEF Next, vars, Connect, Post, Timeout, Return, StopAdvertising, PostStop, HIDQueue,
       DropCallback, RunEnsure, RunStop, DidUpdateState, DidAdd, DidStart, FinishStart,
       CoreBluetooth, DoStart, DoStop, Refuse, framework

LEMMA DroppedStays ==
  ASSUME [Next]_vars
  PROVE  \/ \E state \in {"on", "off", "denied", "unknown"} : PowerChanges(state)
         \/ UNCHANGED dropped
BY DEF Next, vars, Connect, Post, Timeout, Return, StopAdvertising, PostStop, HIDQueue,
       CreateManager, DropCallback, RunEnsure, RunStop, DidUpdateState, DidAdd, DidStart,
       FinishStart, CoreBluetooth, DoAdd, DoStart, DoStop, Refuse, framework

KeptOrCleared == UNCHANGED services \/ services' = [s \in Service |-> 0]

(* A change of the Bluetooth state keeps the database or clears it.        *)
LEMMA PowerServices ==
  ASSUME TypeOK, NEW state \in {"on", "off", "denied", "unknown"}, PowerChanges(state)
  PROVE  /\ KeptOrCleared
         /\ ~dropped' => ~dropped /\ services'["hid"] >= services["hid"] /\ services'["hid"] \in Nat
         /\ (radio' => radio) /\ UNCHANGED <<manager, installed, installing, commands, failed>>
<1>1. KeptOrCleared
  BY DEF PowerChanges, Database, KeptOrCleared
<1>2. services["hid"] \in Nat /\ services'["hid"] \in Nat
  BY <1>1, FrameworkFacts DEF KeptOrCleared
<1>3. ~dropped' => ~dropped /\ ~(services'["hid"] < services["hid"])
  BY DEF PowerChanges
<1>4. (radio' => radio) /\ UNCHANGED <<manager, installed, installing, commands, failed>>
  BY DEF PowerChanges, flags
<1> QED BY <1>1, <1>2, <1>3, <1>4

(* How an answer to an addition comes to be on the queue.                  *)
AnswerMoves ==
  \/ Took /\ (DidAdd \/ ~AddedAt(1))
  \/ UNCHANGED hidQueue
  \/ \E item : Queues(item) /\ item.kind # "added"
  \/ \E s \in Service : DoAdd(s) /\ Queues(Added(s, TRUE))
  \/ Refuse /\ \E item : Queues(item) /\ ~item.ok

LEMMA AnswerStep ==
  ASSUME TypeOK, NoManagerYet, [Next]_vars
  PROVE  AnswerMoves
<1>1. ASSUME NEW c \in Call, Connect(c) \/ Post(c) \/ Timeout(c) \/ Return(c)
      PROVE  AnswerMoves
  <2>1. CASE Post(c)
    <3>1. pc[c] \in {"create", "ensure"} /\ hidQueue' = Append(hidQueue, Block(pc[c]))
      BY <2>1 DEF Post
    <3>2. Queues(Block(pc[c])) /\ Block(pc[c]).kind # "added"
      BY <3>1, BlocksGenuine DEF Queues, Block
    <3> QED BY <3>2 DEF AnswerMoves
  <2>2. CASE Connect(c) \/ Timeout(c) \/ Return(c)
    BY <2>2 DEF Connect, Timeout, Return, AnswerMoves
  <2> QED BY <1>1, <2>1, <2>2
<1>2. CASE PostStop
  <2>1. Queues(Block("stop")) /\ Block("stop").kind # "added"
    BY <1>2, BlocksGenuine DEF PostStop, Queues, Block
  <2> QED BY <2>1 DEF AnswerMoves
<1>3. CASE StopAdvertising \/ DoStop \/ FinishStart \/ UNCHANGED vars
  BY <1>3 DEF StopAdvertising, DoStop, FinishStart, vars, AnswerMoves
<1>4. CASE HIDQueue /\ ~FinishStart
  <2>1. Took /\ (DidAdd \/ Head(hidQueue).kind # "added" \/ Head(hidQueue).from \notin {0, manager})
    BY <1>4 DEF HIDQueue, CreateManager, DropCallback, RunEnsure, RunStop, DidUpdateState, DidAdd,
                DidStart, Turn, Took
  <2>2. Head(hidQueue) = hidQueue[1]
    BY <2>1, QueueAfter
  <2> QED BY <2>1, <2>2 DEF AnswerMoves, AddedAt
<1>5. ASSUME NEW s \in Service, DoAdd(s) PROVE AnswerMoves
  BY <1>5, AnswersGenuine DEF DoAdd, Done, AnswerMoves, Queues
<1>6. CASE DoStart
  <2>1. Queues(Started(TRUE)) /\ Started(TRUE).kind # "added"
    BY <1>6, AnswersGenuine DEF DoStart, Done, Queues, Started, Callback
  <2> QED BY <2>1 DEF AnswerMoves
<1>7. CASE Refuse
  <2>1. /\ commands # <<>> /\ Head(commands).op # "stop"
        /\ hidQueue' = Append(hidQueue, Answer(Head(commands)))
    BY <1>7 DEF Refuse
  <2>2. Queues(Answer(Head(commands))) /\ ~Answer(Head(commands)).ok
    BY <2>1, AnswersGenuine DEF Queues, Answer, Started, Added, Callback
  <2> QED BY <1>7, <2>2 DEF AnswerMoves
<1>8. ASSUME NEW state \in {"on", "off", "denied", "unknown"}, PowerChanges(state) PROVE AnswerMoves
  <2>1. manager # 0
    BY <1>8 DEF PowerChanges
  <2>2. Callback("state", "none", TRUE) \in Item /\ Callback("state", "none", TRUE).kind # "added"
    BY <2>1, CallbacksGenuine DEF Callback
  <2> QED BY <1>8, <2>2 DEF PowerChanges, AnswerMoves, Queues
<1> QED BY <1>1, <1>2, <1>3, <1>4, <1>5, <1>6, <1>7, <1>8 DEF Next, CoreBluetooth

(* A command that is there after a step was there before unless the step   *)
(* has added it; the same for what is on the queue.                        *)
LEMMA CommandedBefore ==
  ASSUME TypeOK, NEW op, Commanded(op)',
         \/ UNCHANGED commands \/ \E command : Did(command)
         \/ \E command : Commands(command) /\ command.op # op
  PROVE  Commanded(op)
<1>1. PICK k \in 1 .. Len(commands') : commands'[k].op = op
  BY DEF Commanded
<1>2. Len(commands) \in Nat
  BY QueueFacts
<1>3. CASE UNCHANGED commands
  BY <1>1, <1>3 DEF Commanded
<1>4. ASSUME NEW command, Did(command) PROVE Commanded(op)
  <2>1. k + 1 \in 1 .. Len(commands) /\ commands'[k] = commands[k + 1]
    BY <1>1, <1>2, <1>4, CommandsAfter
  <2> QED BY <1>1, <2>1 DEF Commanded
<1>5. ASSUME NEW command, Commands(command), command.op # op PROVE Commanded(op)
  <2>1. k # Len(commands) + 1 /\ k \in 1 .. Len(commands) + 1
    BY <1>1, <1>2, <1>5, CommandsAfter
  <2>2. k \in 1 .. Len(commands) /\ commands'[k] = commands[k]
    BY <1>2, <1>5, <2>1, CommandsAfter
  <2> QED BY <1>1, <2>2 DEF Commanded
<1> QED BY <1>3, <1>4, <1>5

LEMMA QueuedBefore ==
  ASSUME TypeOK, NEW k \in 1 .. Len(hidQueue'),
         Took \/ UNCHANGED hidQueue \/ \E item : Queues(item) /\ item # hidQueue'[k]
  PROVE  \E j \in 1 .. Len(hidQueue) : hidQueue'[k] = hidQueue[j]
<1>1. Len(hidQueue) \in Nat
  BY QueueFacts
<1>2. CASE UNCHANGED hidQueue
  BY <1>2
<1>3. CASE Took
  <2>1. k + 1 \in 1 .. Len(hidQueue) /\ hidQueue'[k] = hidQueue[k + 1]
    BY <1>1, <1>3, QueueAfter
  <2> QED BY <2>1
<1>4. ASSUME NEW item, Queues(item), item # hidQueue'[k]
      PROVE  \E j \in 1 .. Len(hidQueue) : hidQueue'[k] = hidQueue[j]
  <2>1. k # Len(hidQueue) + 1 /\ k \in 1 .. Len(hidQueue) + 1
    BY <1>1, <1>4, QueueAfter
  <2>2. k \in 1 .. Len(hidQueue) /\ hidQueue'[k] = hidQueue[k]
    BY <1>1, <1>4, <2>1, QueueAfter
  <2> QED BY <2>2
<1> QED BY <1>2, <1>3, <1>4

LEMMA ServiceFirstKept ==
  ASSUME TypeOK, Provenance, ServiceFirst, [Next]_vars
  PROVE  ServiceFirst'
<1>1. manager \in Nat /\ services["hid"] \in Nat
  BY QueueFacts, FrameworkFacts
<1>2. CASE CreateManager
  <2>1. manager' = manager + 1 /\ ~radio' /\ commands' = <<>> /\ UNCHANGED installed
    BY <1>2 DEF CreateManager, flags
  <2>2. ~Commanded("start")'
    BY <2>1 DEF Commanded
  <2>3. ~HidAdded'
    <3>1. Provenance'
      BY ProvenanceKept
    <3>2. ASSUME NEW k \in 1 .. Len(hidQueue') PROVE hidQueue'[k].from # manager'
      <4>1. Took
        BY <1>2 DEF CreateManager, Turn, Took
      <4>2. k + 1 \in 1 .. Len(hidQueue) /\ k \in 1 .. Len(hidQueue) - 1
        BY <4>1, QueueAfter
      <4>3. hidQueue'[k] = hidQueue[k + 1] /\ hidQueue[k + 1] \in Item
        BY <4>1, <4>2, QueueAfter, QueueFacts
      <4>4. hidQueue[k + 1].from \in Nat /\ hidQueue[k + 1].from <= manager
        BY <4>2, <4>3 DEF Item, Provenance, QueueGenuine, Genuine
      <4> QED BY <1>1, <2>1, <4>3, <4>4
    <3> QED BY <3>2 DEF HidAdded, AddedAt
  <2> QED BY <1>1, <2>1, <2>2, <2>3 DEF ServiceFirst
<1>3. CASE ~CreateManager
  <2>1. UNCHANGED manager
    BY <1>3, ManagerStep
  <2>2. CASE \E s \in Service : DoAdd(s)
    <3>1. PICK s \in Service : DoAdd(s)
      BY <2>2
    <3>6. UNCHANGED dropped
      BY <3>1 DEF DoAdd
    <3>2. Did(Add(s)) /\ Add(s).op = "add" /\ UNCHANGED <<radio, installed>>
          /\ Queues(Added(s, TRUE)) /\ services' = [services EXCEPT ![s] = @ + 1]
      BY <3>1, MessagesTyped DEF DoAdd, Done, Did, Add, flags, Queues
    <3>3. services'["hid"] >= services["hid"] /\ (s = "hid" => services'["hid"] > 0)
          /\ services'["hid"] \in Nat
      <4>1. services \in [Service -> Nat] /\ s \in Service /\ "hid" \in Service
        BY FrameworkFacts DEF TypeOK, FrameworkOK
      <4> QED BY <3>2, <4>1
    <3>4. Commanded("start")' => Commanded("start")
      BY <3>2, CommandedBefore
    <3>5. HidAdded' => HidAdded \/ s = "hid"
      <4> SUFFICES ASSUME NEW k \in 1 .. Len(hidQueue'), AddedAt(k)', hidQueue'[k].service = "hid",
                          hidQueue'[k].ok, s # "hid"
                   PROVE  HidAdded
        BY DEF HidAdded
      <4>1. Added(s, TRUE) # hidQueue'[k]
        BY DEF Added, Callback
      <4>2. PICK j \in 1 .. Len(hidQueue) : hidQueue'[k] = hidQueue[j]
        BY <3>2, <4>1, QueuedBefore
      <4> QED BY <2>1, <4>2 DEF HidAdded, AddedAt
    <3> QED BY <1>1, <2>1, <3>2, <3>3, <3>4, <3>5, <3>6 DEF ServiceFirst
  <2>4. ASSUME NEW state \in {"on", "off", "denied", "unknown"}, PowerChanges(state)
        PROVE  ServiceFirst'
    <3>1. manager # 0
      BY <2>4 DEF PowerChanges
    <3>2. Commanded("start")' => Commanded("start")
      BY <2>4, PowerServices DEF Commanded
    <3>3. HidAdded' => HidAdded
      <4> SUFFICES ASSUME NEW k \in 1 .. Len(hidQueue'), AddedAt(k)', hidQueue'[k].service = "hid",
                          hidQueue'[k].ok
                   PROVE  HidAdded
        BY DEF HidAdded
      <4>1. Callback("state", "none", TRUE) \in Item
            /\ Callback("state", "none", TRUE).kind # "added"
        BY <3>1, CallbacksGenuine DEF Callback
      <4>2. Queues(Callback("state", "none", TRUE))
        BY <2>4, <4>1 DEF PowerChanges, Queues
      <4>3. PICK j \in 1 .. Len(hidQueue) : hidQueue'[k] = hidQueue[j]
        BY <4>1, <4>2, QueuedBefore DEF AddedAt
      <4> QED BY <2>1, <4>3 DEF HidAdded, AddedAt
    <3>4. /\ ~dropped' => ~dropped /\ services'["hid"] >= services["hid"] /\ services'["hid"] \in Nat
          /\ (radio' => radio) /\ UNCHANGED installed
      BY <2>4, PowerServices
    <3> QED BY <1>1, <2>1, <3>1, <3>2, <3>3, <3>4 DEF ServiceFirst
  <2>3. CASE UNCHANGED <<services, dropped>>
    <3> SUFFICES ASSUME manager <= 1, ~dropped, ~(services["hid"] > 0) \/ manager = 0
                 PROVE  ~radio' /\ ~installed' /\ ~Commanded("start")' /\ ~HidAdded'
      BY <2>1, <2>3 DEF ServiceFirst
    <3>1. ~radio /\ ~installed /\ ~Commanded("start") /\ ~HidAdded
      BY <1>1 DEF ServiceFirst, Provenance, NoManagerYet, Service
    <3>2. ~DoStart
      <4> SUFFICES ASSUME DoStart PROVE FALSE
        OBVIOUS
      <4>1. Did(Start)
        BY DEF DoStart, Done, Did
      <4>2. commands[1] = Start /\ 1 \in 1 .. Len(commands)
        BY <4>1, CommandsAfter
      <4> QED BY <3>1, <4>2 DEF Start, Commanded
    <3>3. ~(DidAdd /\ Head(hidQueue).service = "hid" /\ Head(hidQueue).ok)
      BY <3>1, AddedIsHead DEF HidAdded
    <3>4. ~radio'
      BY <1>3, <3>1, <3>2 DEF Next, vars, Connect, Post, Timeout, Return, StopAdvertising,
           PostStop, HIDQueue, DropCallback, RunEnsure, RunStop, DidUpdateState, DidAdd, DidStart,
           FinishStart, CoreBluetooth, DoAdd, DoStop, Refuse, PowerChanges, framework
    <3>5. ~installed'
      <4>1. ~(DidAdd /\ DidAddNext /\ installed')
        BY <3>1, <3>3 DEF DidAddNext
      <4> QED BY <1>3, <3>1, <4>1 DEF Next, vars, Connect, Post, Timeout, Return, StopAdvertising,
           PostStop, HIDQueue, DropCallback, RunEnsure, RunStop, DidUpdateState, DidAdd, DidAddFails,
           DidStart, FinishStart, CoreBluetooth, DoAdd, DoStart, DoStop, Refuse, PowerChanges, flags
    <3>6. ~(\E s \in Service : DoAdd(s))
      <4> SUFFICES ASSUME NEW s \in Service, DoAdd(s) PROVE FALSE
        OBVIOUS
      <4>1. services' = [services EXCEPT ![s] = @ + 1] /\ services \in [Service -> Nat]
        BY DEF DoAdd, TypeOK, FrameworkOK
      <4>2. services[s] \in Nat /\ services'[s] = services[s] + 1
        BY <4>1
      <4> QED BY <2>3, <4>2
    <3>7. ~Commanded("start")'
      <4>1. CASE UNCHANGED commands \/ Commands(Stop) \/ Commands(Add("battery"))
        BY <3>1, <4>1, CommandedBefore DEF Stop, Add
      <4>2. CASE DidAdd /\ DidAddNext
        <5>1. Commands(Add("deviceInfo")) \/ Commands(Add("hid"))
          BY <3>3, <4>2, AddedCommands DEF DidAddNext
        <5> QED BY <3>1, <5>1, CommandedBefore DEF Add
      <4>3. CASE DoStop \/ Refuse
        BY <3>1, <4>3, CommandedBefore DEF DoStop, Done, Refuse, Did
      <4> QED BY <1>3, <3>1, <3>2, <3>6, <4>1, <4>2, <4>3, CommandStep DEF CommandMoves
    <3>8. ~HidAdded'
      <4> SUFFICES ASSUME NEW k \in 1 .. Len(hidQueue'), AddedAt(k)', hidQueue'[k].service = "hid",
                          hidQueue'[k].ok
                   PROVE  FALSE
        BY DEF HidAdded
      <4>1. Took \/ UNCHANGED hidQueue \/ \E item : Queues(item) /\ item # hidQueue'[k]
        <5>1. AnswerMoves
          BY AnswerStep DEF Provenance
        <5> QED BY <3>6, <5>1 DEF AnswerMoves, AddedAt
      <4>2. PICK j \in 1 .. Len(hidQueue) : hidQueue'[k] = hidQueue[j]
        BY <4>1, QueuedBefore
      <4> QED BY <2>1, <3>1, <4>2 DEF HidAdded, AddedAt
    <3> QED BY <3>4, <3>5, <3>7, <3>8
  <2> QED BY <1>3, <2>2, <2>3, <2>4, ServicesGrow, DroppedStays
<1> QED BY <1>2, <1>3

(* The first manager never advertises before the HID service is in its     *)
(* database, unless that database has been cleared with the service in it: *)
(* only the answer to its addition asks for the start, and no other call   *)
(* of connect() asks before that answer.                                   *)
THEOREM ServiceBeforeAdvertising == Spec => []AdvertisedWithService
<1>1. Init => Provenance /\ ServiceFirst
  BY DEF Init, Provenance, QueueGenuine, NoManagerYet, ServiceFirst, Commanded, HidAdded
<1>2. TypeOK /\ Provenance /\ ServiceFirst /\ [Next]_vars => Provenance' /\ ServiceFirst'
  BY ProvenanceKept, ServiceFirstKept
<1>3. TypeOK /\ ServiceFirst => AdvertisedWithService
  BY QueueFacts DEF ServiceFirst, AdvertisedWithService
<1> QED BY HIDTypes, <1>1, <1>2, <1>3, PTL DEF Spec

(* An installation has at most one addition under way, asked for or        *)
(* answered, and what it has yet to add is not in the database.            *)
Later(s) ==
  IF s = "battery" THEN {"deviceInfo", "hid"} ELSE IF s = "deviceInfo" THEN {"hid"} ELSE {}
Absent(S) == \A s \in S : services[s] = 0

AddAt(k) == commands[k].op = "add"
NoAdd == \A k \in 1 .. Len(commands) : ~AddAt(k)
OneAdd(s) ==
  \E k \in 1 .. Len(commands) :
    AddAt(k) /\ commands[k].service = s /\ \A j \in 1 .. Len(commands) : AddAt(j) => j = k
NoAnswer == \A k \in 1 .. Len(hidQueue) : ~AddedAt(k)
OneAnswer(s) ==
  \E k \in 1 .. Len(hidQueue) :
    /\ AddedAt(k) /\ hidQueue[k].service = s /\ hidQueue[k].ok
    /\ \A j \in 1 .. Len(hidQueue) : AddedAt(j) => j = k

Idle == NoAdd /\ NoAnswer /\ (~installed /\ ~installing => Absent(Service))
Asked(s) == OneAdd(s) /\ NoAnswer /\ installing /\ Absent({s} \cup Later(s))
Answered(s) == NoAdd /\ OneAnswer(s) /\ installing /\ Absent(Later(s))

OneInstall ==
  /\ \A s \in Service : services[s] <= 1
  /\ Idle \/ \E s \in Service : Asked(s) \/ Answered(s)
OneInstallUnlessFailed == ~failed => OneInstall

LEMMA AddsAfter ==
  ASSUME TypeOK
  PROVE  /\ NoAdd /\ (\/ UNCHANGED commands \/ (\E command : Did(command))
                      \/ \E command : Commands(command) /\ command.op # "add") => NoAdd'
         /\ \A s \in Service : NoAdd /\ Commands(Add(s)) => OneAdd(s)'
         /\ \A s, t \in Service : OneAdd(t) /\ Did(Add(s)) => s = t /\ NoAdd'
<1>1. Len(commands) \in Nat
  BY QueueFacts
<1>2. ASSUME NoAdd, \/ UNCHANGED commands \/ (\E command : Did(command))
                    \/ \E command : Commands(command) /\ command.op # "add"
      PROVE  NoAdd'
  <2>1. ~Commanded("add")
    BY <1>2 DEF NoAdd, AddAt, Commanded
  <2>2. ~Commanded("add")'
    BY <1>2, <2>1, CommandedBefore
  <2> QED BY <2>2 DEF NoAdd, AddAt, Commanded
<1>3. ASSUME NEW s \in Service, NoAdd, Commands(Add(s)) PROVE OneAdd(s)'
  <2>1. /\ Len(commands') = Len(commands) + 1 /\ commands'[Len(commands) + 1] = Add(s)
        /\ \A k \in 1 .. Len(commands) : commands'[k] = commands[k]
    BY <1>3, CommandsAfter
  <2>2. Add(s).op = "add" /\ Add(s).service = s
    BY DEF Add
  <2>3. ASSUME NEW j \in 1 .. Len(commands'), AddAt(j)' PROVE j = Len(commands) + 1
    BY <1>1, <1>3, <2>1, <2>3 DEF NoAdd, AddAt
  <2>4. Len(commands) + 1 \in 1 .. Len(commands')
    BY <1>1, <2>1
  <2> QED BY <2>1, <2>2, <2>3, <2>4 DEF OneAdd, AddAt
<1>4. ASSUME NEW s \in Service, NEW t \in Service, OneAdd(t), Did(Add(s)) PROVE s = t /\ NoAdd'
  <2>1. /\ Len(commands) \in Nat \ {0} /\ commands[1] = Add(s)
        /\ Len(commands') = Len(commands) - 1
        /\ \A k \in 1 .. Len(commands) - 1 : commands'[k] = commands[k + 1]
    BY <1>4, CommandsAfter
  <2>2. PICK k \in 1 .. Len(commands) :
          AddAt(k) /\ commands[k].service = t /\ \A j \in 1 .. Len(commands) : AddAt(j) => j = k
    BY <1>4 DEF OneAdd
  <2>3. k = 1
    BY <2>1, <2>2 DEF AddAt, Add
  <2>4. s = t
    BY <2>1, <2>2, <2>3 DEF Add
  <2>5. ASSUME NEW j \in 1 .. Len(commands') PROVE ~AddAt(j)'
    <3>1. j + 1 \in 1 .. Len(commands) /\ j + 1 # 1 /\ commands'[j] = commands[j + 1]
      BY <2>1
    <3> QED BY <2>2, <2>3, <3>1 DEF AddAt
  <2> QED BY <2>4, <2>5 DEF NoAdd
<1> QED BY <1>2, <1>3, <1>4

LEMMA OneAddStays ==
  ASSUME TypeOK, NEW s \in Service, OneAdd(s),
         \/ UNCHANGED commands
         \/ \E command : (Did(command) \/ Commands(command)) /\ command.op # "add"
  PROVE  OneAdd(s)'
<1>1. Len(commands) \in Nat
  BY QueueFacts
<1>2. PICK k \in 1 .. Len(commands) :
        AddAt(k) /\ commands[k].service = s /\ \A j \in 1 .. Len(commands) : AddAt(j) => j = k
  BY DEF OneAdd
<1>3. CASE UNCHANGED commands
  BY <1>2, <1>3 DEF OneAdd, AddAt
<1>4. ASSUME NEW command, Did(command), command.op # "add" PROVE OneAdd(s)'
  <2>1. /\ Len(commands) \in Nat \ {0} /\ commands[1] = command
        /\ Len(commands') = Len(commands) - 1
        /\ \A i \in 1 .. Len(commands) - 1 : commands'[i] = commands[i + 1]
    BY <1>4, CommandsAfter
  <2>2. k - 1 \in 1 .. Len(commands') /\ commands'[k - 1] = commands[k]
    BY <1>2, <1>4, <2>1 DEF AddAt
  <2>3. ASSUME NEW j \in 1 .. Len(commands'), AddAt(j)' PROVE j = k - 1
    <3>1. j + 1 \in 1 .. Len(commands) /\ commands'[j] = commands[j + 1]
      BY <2>1
    <3>2. j + 1 = k
      BY <1>2, <2>3, <3>1 DEF AddAt
    <3> QED BY <3>2
  <2> QED BY <1>2, <2>2, <2>3 DEF OneAdd, AddAt
<1>5. ASSUME NEW command, Commands(command), command.op # "add" PROVE OneAdd(s)'
  <2>1. /\ Len(commands') = Len(commands) + 1 /\ commands'[Len(commands) + 1] = command
        /\ \A i \in 1 .. Len(commands) : commands'[i] = commands[i]
    BY <1>5, CommandsAfter
  <2>2. k \in 1 .. Len(commands') /\ commands'[k] = commands[k]
    BY <1>1, <2>1
  <2>3. ASSUME NEW j \in 1 .. Len(commands'), AddAt(j)' PROVE j = k
    <3>1. j # Len(commands) + 1
      BY <1>5, <2>1, <2>3 DEF AddAt
    <3>2. j \in 1 .. Len(commands) /\ commands'[j] = commands[j]
      BY <1>1, <2>1, <3>1
    <3> QED BY <1>2, <2>3, <3>2 DEF AddAt
  <2> QED BY <1>2, <2>2, <2>3 DEF OneAdd, AddAt
<1> QED BY <1>3, <1>4, <1>5

LEMMA AnswersAfter ==
  ASSUME TypeOK, UNCHANGED manager
  PROVE  /\ NoAnswer /\ ( \/ Took \/ UNCHANGED hidQueue
                          \/ \E item : Queues(item) /\ item.kind # "added" ) => NoAnswer'
         /\ \A s \in Service : NoAnswer /\ Queues(Added(s, TRUE)) => OneAnswer(s)'
         /\ \A s \in Service : OneAnswer(s) /\ Took /\ AddedAt(1) =>
              hidQueue[1].service = s /\ hidQueue[1].ok /\ NoAnswer'
<1>1. Len(hidQueue) \in Nat
  BY QueueFacts
<1>2. ASSUME NoAnswer, \/ Took \/ UNCHANGED hidQueue
                       \/ \E item : Queues(item) /\ item.kind # "added"
      PROVE  NoAnswer'
  <2> SUFFICES ASSUME NEW k \in 1 .. Len(hidQueue'), AddedAt(k)' PROVE FALSE
    BY DEF NoAnswer
  <2>1. Took \/ UNCHANGED hidQueue \/ \E item : Queues(item) /\ item # hidQueue'[k]
    BY <1>2 DEF AddedAt
  <2>2. PICK j \in 1 .. Len(hidQueue) : hidQueue'[k] = hidQueue[j]
    BY <2>1, QueuedBefore
  <2> QED BY <1>2, <2>2 DEF NoAnswer, AddedAt
<1>3. ASSUME NEW s \in Service, NoAnswer, Queues(Added(s, TRUE)) PROVE OneAnswer(s)'
  <2>1. /\ Len(hidQueue') = Len(hidQueue) + 1 /\ hidQueue'[Len(hidQueue) + 1] = Added(s, TRUE)
        /\ \A k \in 1 .. Len(hidQueue) : hidQueue'[k] = hidQueue[k]
    BY <1>3, QueueAfter
  <2>2. /\ Added(s, TRUE).kind = "added" /\ Added(s, TRUE).from = manager
        /\ Added(s, TRUE).service = s /\ Added(s, TRUE).ok = TRUE
    BY DEF Added, Callback
  <2>3. ASSUME NEW j \in 1 .. Len(hidQueue'), AddedAt(j)' PROVE j = Len(hidQueue) + 1
    BY <1>1, <1>3, <2>1, <2>3 DEF NoAnswer, AddedAt
  <2>4. Len(hidQueue) + 1 \in 1 .. Len(hidQueue')
    BY <1>1, <2>1
  <2> QED BY <2>1, <2>2, <2>3, <2>4 DEF OneAnswer, AddedAt
<1>4. ASSUME NEW s \in Service, OneAnswer(s), Took, AddedAt(1)
      PROVE  hidQueue[1].service = s /\ hidQueue[1].ok /\ NoAnswer'
  <2>1. /\ Len(hidQueue) \in Nat \ {0} /\ Len(hidQueue') = Len(hidQueue) - 1
        /\ \A k \in 1 .. Len(hidQueue) - 1 : hidQueue'[k] = hidQueue[k + 1]
    BY <1>4, QueueAfter
  <2>2. PICK k \in 1 .. Len(hidQueue) :
          /\ AddedAt(k) /\ hidQueue[k].service = s /\ hidQueue[k].ok
          /\ \A j \in 1 .. Len(hidQueue) : AddedAt(j) => j = k
    BY <1>4 DEF OneAnswer
  <2>3. k = 1
    BY <1>4, <2>1, <2>2
  <2>4. ASSUME NEW j \in 1 .. Len(hidQueue') PROVE ~AddedAt(j)'
    <3>1. j + 1 \in 1 .. Len(hidQueue) /\ j + 1 # 1 /\ hidQueue'[j] = hidQueue[j + 1]
      BY <2>1
    <3> QED BY <2>2, <2>3, <3>1 DEF AddedAt
  <2> QED BY <2>2, <2>3, <2>4 DEF NoAnswer
<1> QED BY <1>2, <1>3, <1>4

LEMMA OneAnswerStays ==
  ASSUME TypeOK, NEW s \in Service, OneAnswer(s), UNCHANGED manager,
         \/ UNCHANGED hidQueue \/ (Took /\ ~AddedAt(1))
         \/ \E item : Queues(item) /\ item.kind # "added"
  PROVE  OneAnswer(s)'
<1>1. Len(hidQueue) \in Nat
  BY QueueFacts
<1>2. PICK k \in 1 .. Len(hidQueue) :
        /\ AddedAt(k) /\ hidQueue[k].service = s /\ hidQueue[k].ok
        /\ \A j \in 1 .. Len(hidQueue) : AddedAt(j) => j = k
  BY DEF OneAnswer
<1>3. CASE UNCHANGED hidQueue
  BY <1>2, <1>3 DEF OneAnswer, AddedAt
<1>4. CASE Took /\ ~AddedAt(1)
  <2>1. /\ Len(hidQueue) \in Nat \ {0} /\ Len(hidQueue') = Len(hidQueue) - 1
        /\ \A i \in 1 .. Len(hidQueue) - 1 : hidQueue'[i] = hidQueue[i + 1]
    BY <1>4, QueueAfter
  <2>2. k # 1
    BY <1>2, <1>4
  <2>3. k - 1 \in 1 .. Len(hidQueue') /\ hidQueue'[k - 1] = hidQueue[k]
    BY <1>2, <2>1, <2>2
  <2>4. ASSUME NEW j \in 1 .. Len(hidQueue'), AddedAt(j)' PROVE j = k - 1
    <3>1. j + 1 \in 1 .. Len(hidQueue) /\ hidQueue'[j] = hidQueue[j + 1]
      BY <2>1
    <3>2. j + 1 = k
      BY <1>2, <2>4, <3>1 DEF AddedAt
    <3> QED BY <3>2
  <2> QED BY <1>2, <2>3, <2>4 DEF OneAnswer, AddedAt
<1>5. ASSUME NEW item, Queues(item), item.kind # "added" PROVE OneAnswer(s)'
  <2>1. /\ Len(hidQueue') = Len(hidQueue) + 1 /\ hidQueue'[Len(hidQueue) + 1] = item
        /\ \A i \in 1 .. Len(hidQueue) : hidQueue'[i] = hidQueue[i]
    BY <1>5, QueueAfter
  <2>2. k \in 1 .. Len(hidQueue') /\ hidQueue'[k] = hidQueue[k]
    BY <1>1, <2>1
  <2>3. ASSUME NEW j \in 1 .. Len(hidQueue'), AddedAt(j)' PROVE j = k
    <3>1. j # Len(hidQueue) + 1
      BY <1>5, <2>1, <2>3 DEF AddedAt
    <3>2. j \in 1 .. Len(hidQueue) /\ hidQueue'[j] = hidQueue[j]
      BY <1>1, <2>1, <3>1
    <3> QED BY <1>2, <2>3, <3>2 DEF AddedAt
  <2> QED BY <1>2, <2>2, <2>3 DEF OneAnswer, AddedAt
<1> QED BY <1>3, <1>4, <1>5

(* What no step of an installation is leaves it where it stands, also when *)
(* it clears the database.                                                 *)
LEMMA InstallStays ==
  ASSUME TypeOK, OneInstall, UNCHANGED <<manager, installed, installing>>, KeptOrCleared,
         \/ UNCHANGED commands
         \/ \E command : (Did(command) \/ Commands(command)) /\ command.op # "add",
         \/ UNCHANGED hidQueue \/ (Took /\ ~AddedAt(1))
         \/ \E item : Queues(item) /\ item.kind # "added"
  PROVE  OneInstall'
<1>1. \A S \in SUBSET Service : Absent(S) => Absent(S)'
  BY DEF Absent, KeptOrCleared
<1>7. \A s \in Service : {s} \cup Later(s) \in SUBSET Service /\ Later(s) \in SUBSET Service
  BY DEF Later, Service
<1>8. \A s \in Service : services'[s] <= 1
  BY DEF KeptOrCleared, OneInstall
<1>2. NoAdd => NoAdd'
  BY AddsAfter
<1>3. NoAnswer => NoAnswer'
  BY AnswersAfter
<1>4. Idle => Idle'
  BY <1>1, <1>2, <1>3 DEF Idle
<1>5. \A s \in Service : Asked(s) => Asked(s)'
  BY <1>1, <1>3, <1>7, OneAddStays DEF Asked
<1>6. \A s \in Service : Answered(s) => Answered(s)'
  BY <1>1, <1>2, <1>7, OneAnswerStays DEF Answered
<1> QED BY <1>4, <1>5, <1>6, <1>8 DEF OneInstall

(* The block or the news that asks for an installation.                    *)
Installs ==
  /\ RunEnsure \/ DidUpdateState
  /\ Commands(Add("battery"))
  /\ ~installed /\ ~installing /\ installing'

LEMMA InstallStep ==
  ASSUME [Next]_vars, ~CreateManager, ~DidAdd, ~Refuse, \A s \in Service : ~DoAdd(s)
  PROVE  /\ UNCHANGED installed
         /\ \/ Installs
            \/ UNCHANGED <<installing, commands>>
            \/ /\ UNCHANGED installing
               /\ \E command : (Did(command) \/ Commands(command)) /\ command.op # "add"
<1>1. Stop \in Command /\ Start \in Command /\ Add("battery") \in Command
  BY MessagesTyped DEF Service
<1>2. Stop.op # "add" /\ Start.op # "add"
  BY DEF Stop, Start
<1>3. CASE RunEnsure \/ DidUpdateState
  BY <1>1, <1>2, <1>3 DEF RunEnsure, DidUpdateState, EnsureAdvertising, InstallServices,
                         Installs, Commands
<1>4. CASE RunStop \/ FinishStart
  BY <1>1, <1>2, <1>4 DEF RunStop, FinishStart, Commands, flags
<1>5. CASE DoStart \/ DoStop
  BY <1>2, <1>5 DEF DoStart, DoStop, Done, Did, flags
<1>6. CASE DropCallback \/ DidStart
  BY <1>6 DEF DropCallback, DidStart, flags, framework
<1>7. ASSUME NEW state \in {"on", "off", "denied", "unknown"}, PowerChanges(state)
      PROVE  UNCHANGED <<installed, installing, commands>>
  BY <1>7 DEF PowerChanges, flags
<1>8. ASSUME NEW c \in Call, Connect(c) \/ Post(c) \/ Timeout(c) \/ Return(c)
      PROVE  UNCHANGED <<installed, installing, commands>>
  BY <1>8 DEF Connect, Post, Timeout, Return, flags, framework
<1>9. CASE StopAdvertising \/ PostStop \/ UNCHANGED vars
  BY <1>9 DEF StopAdvertising, PostStop, vars, flags, framework
<1> QED BY <1>3, <1>4, <1>5, <1>6, <1>7, <1>8, <1>9 DEF Next, HIDQueue, CoreBluetooth

LEMMA OneInstallKept ==
  ASSUME TypeOK, Provenance, OneInstall, [Next]_vars, ~Refuse
  PROVE  OneInstall'
<1>1. services \in [Service -> Nat] /\ \A s \in Service : services[s] \in Nat
  BY FrameworkFacts DEF TypeOK, FrameworkOK
<1>2. CASE CreateManager
  <2>1. commands' = <<>> /\ services' = [s \in Service |-> 0] /\ manager' = manager + 1
    BY <1>2 DEF CreateManager
  <2>2. NoAdd'
    BY <2>1 DEF NoAdd
  <2>3. ASSUME NEW k \in 1 .. Len(hidQueue') PROVE ~AddedAt(k)'
    <3>1. Took
      BY <1>2 DEF CreateManager, Turn, Took
    <3>2. PICK j \in 1 .. Len(hidQueue) : hidQueue'[k] = hidQueue[j]
      BY <3>1, QueuedBefore
    <3>3. hidQueue[j].from <= manager /\ hidQueue[j].from \in Nat /\ manager \in Nat
      BY QueueFacts DEF Provenance, QueueGenuine, Genuine, Item
    <3> QED BY <2>1, <3>2, <3>3 DEF AddedAt
  <2> QED BY <2>1, <2>2, <2>3 DEF OneInstall, Idle, NoAnswer, Absent
<1>3. CASE DidAdd
  <2>1. AddedAt(1) /\ Took /\ Head(hidQueue) = hidQueue[1] /\ 1 \in 1 .. Len(hidQueue)
        /\ UNCHANGED <<manager, services>>
    BY <1>3, AddedIsHead
  <2>2. PICK s \in Service : Answered(s)
    BY <2>1 DEF OneInstall, Idle, Asked, NoAnswer
  <2>3. hidQueue[1].service = s /\ hidQueue[1].ok /\ NoAnswer'
    BY <2>1, <2>2, AnswersAfter DEF Answered
  <2>4. DidAddNext
    BY <1>3, <2>1, <2>3 DEF DidAdd, DidAddFails
  <2>5. ASSUME NEW t \in Service, Commands(Add(t)), UNCHANGED installing, t \in Later(s),
               Later(t) \subseteq Later(s)
        PROVE  Asked(t)'
    <3>1. OneAdd(t)'
      BY <2>2, <2>5, AddsAfter DEF Answered
    <3>2. Absent({t} \cup Later(t))' /\ installing'
      BY <2>1, <2>2, <2>5 DEF Answered, Absent
    <3> QED BY <2>3, <3>1, <3>2 DEF Asked
  <2>6. CASE s = "battery"
    <3>1. Commands(Add("deviceInfo")) /\ UNCHANGED installing
      BY <2>1, <2>3, <2>4, <2>6, AddedCommands
    <3>2. "deviceInfo" \in Service /\ "deviceInfo" \in Later(s) /\ Later("deviceInfo") \subseteq Later(s)
      BY <2>6 DEF Service, Later
    <3> QED BY <2>1, <2>5, <3>1, <3>2 DEF OneInstall
  <2>7. CASE s = "deviceInfo"
    <3>1. Commands(Add("hid")) /\ UNCHANGED installing
      BY <2>1, <2>3, <2>4, <2>7, AddedCommands
    <3>2. "hid" \in Service /\ "hid" \in Later(s) /\ Later("hid") \subseteq Later(s)
      BY <2>7 DEF Service, Later
    <3> QED BY <2>1, <2>5, <3>1, <3>2 DEF OneInstall
  <2>8. CASE s = "hid"
    <3>1. Commands(Start) /\ installed'
      BY <2>1, <2>3, <2>4, <2>8, AddedCommands
    <3>2. NoAdd'
      BY <2>2, <3>1, AddsAfter DEF Answered, Start
    <3> QED BY <2>1, <2>3, <3>1, <3>2 DEF OneInstall, Idle
  <2> QED BY <2>2, <2>6, <2>7, <2>8 DEF Service
<1>4. ASSUME NEW s \in Service, DoAdd(s) PROVE OneInstall'
  <2>1. Did(Add(s)) /\ Queues(Added(s, TRUE)) /\ UNCHANGED <<manager, installing>>
        /\ services' = [services EXCEPT ![s] = @ + 1]
    BY <1>4, MessagesTyped DEF DoAdd, Done, Did, flags, Queues
  <2>2. commands[1] = Add(s) /\ 1 \in 1 .. Len(commands) /\ Add(s).op = "add"
    BY <2>1, CommandsAfter DEF Add
  <2>3. PICK t \in Service : Asked(t)
    BY <2>2 DEF OneInstall, Idle, Answered, NoAdd, AddAt
  <2>4. s = t /\ NoAdd'
    BY <2>1, <2>3, AddsAfter DEF Asked
  <2>5. OneAnswer(s)'
    BY <2>1, <2>3, AnswersAfter DEF Asked
  <2>6. s \notin Later(s) /\ Later(s) \subseteq Service
    BY DEF Later, Service
  <2>7. services[s] = 0 /\ \A u \in Later(s) : services[u] = 0
    BY <2>3, <2>4 DEF Asked, Absent
  <2>8. services'[s] = 1 /\ \A u \in Service \ {s} : services'[u] = services[u]
    BY <1>1, <2>1, <2>7
  <2>9. Absent(Later(s))'
    BY <2>6, <2>7, <2>8 DEF Absent
  <2>10. \A u \in Service : services'[u] <= 1
    BY <2>8 DEF OneInstall
  <2>11. Answered(s)'
    BY <2>1, <2>3, <2>4, <2>5, <2>9 DEF Asked, Answered
  <2> QED BY <2>10, <2>11 DEF OneInstall
<1>5. CASE ~CreateManager /\ ~DidAdd /\ \A s \in Service : ~DoAdd(s)
  <2>1. UNCHANGED manager /\ KeptOrCleared
    BY <1>5, ManagerStep, ServicesGrow, PowerServices DEF KeptOrCleared
  <2>5. \A s \in Service : services'[s] <= 1
    BY <2>1 DEF KeptOrCleared, OneInstall
  <2>2. \/ UNCHANGED hidQueue \/ (Took /\ ~AddedAt(1))
        \/ \E item : Queues(item) /\ item.kind # "added"
    <3>1. AnswerMoves
      BY AnswerStep DEF Provenance
    <3>2. ~DidAdd /\ ~Refuse /\ ~(\E s \in Service : DoAdd(s) /\ Queues(Added(s, TRUE)))
      BY <1>5
    <3> QED BY <3>1, <3>2 DEF AnswerMoves
  <2>3. CASE Installs
    <3>1. Idle
      BY <2>3 DEF Installs, OneInstall, Asked, Answered
    <3>2. OneAdd("battery")' /\ NoAnswer'
      BY <2>1, <2>2, <2>3, <3>1, AddsAfter, AnswersAfter DEF Installs, Idle, Service
    <3>3. Absent({"battery"} \cup Later("battery"))'
      BY <2>1, <2>3, <3>1 DEF Installs, Idle, Absent, Later, Service, KeptOrCleared
    <3>4. Asked("battery")' /\ "battery" \in Service
      BY <2>3, <3>2, <3>3 DEF Asked, Installs, Service
    <3> QED BY <2>5, <3>4 DEF OneInstall
  <2>4. CASE ~Installs
    BY <1>5, <2>1, <2>2, <2>4, InstallStep, InstallStays
  <2> QED BY <2>3, <2>4
<1> QED BY <1>2, <1>3, <1>4, <1>5

(* A history variable only: once a request has failed it stays so.         *)
LEMMA FailedStays ==
  ASSUME [Next]_vars
  PROVE  UNCHANGED failed \/ Refuse
BY DEF Next, vars, Connect, Post, Timeout, Return, StopAdvertising, PostStop, HIDQueue,
       CreateManager, DropCallback, RunEnsure, RunStop, DidUpdateState, DidAdd, DidStart,
       FinishStart, CoreBluetooth, DoAdd, DoStart, DoStop, PowerChanges, framework

(* Unless a request has failed no service is put into the GATT database    *)
(* twice, however many calls and state updates ask for the installation:   *)
(* the flag that one is under way is set until its last answer has come.   *)
THEOREM EachServiceOnce == Spec => []GattInstalledOnce
<1>1. Init => Provenance /\ OneInstallUnlessFailed
  BY DEF Init, Provenance, QueueGenuine, NoManagerYet, OneInstallUnlessFailed, OneInstall, Idle,
         NoAdd, NoAnswer, Absent
<1>2. TypeOK /\ Provenance /\ OneInstallUnlessFailed /\ [Next]_vars
        => Provenance' /\ OneInstallUnlessFailed'
  <2> SUFFICES ASSUME TypeOK, Provenance, OneInstallUnlessFailed, [Next]_vars
               PROVE  Provenance' /\ OneInstallUnlessFailed'
    OBVIOUS
  <2>1. Provenance'
    BY ProvenanceKept
  <2>2. CASE Refuse
    BY <2>1, <2>2 DEF Refuse, OneInstallUnlessFailed
  <2>3. CASE ~Refuse
    BY <2>1, <2>3, FailedStays, OneInstallKept DEF OneInstallUnlessFailed
  <2> QED BY <2>1, <2>2, <2>3
<1>3. OneInstallUnlessFailed => GattInstalledOnce
  BY DEF OneInstallUnlessFailed, OneInstall, GattInstalledOnce
<1> QED BY HIDTypes, <1>1, <1>2, <1>3, PTL DEF Spec
=============================================================================
