--------------------------- MODULE HIDAdvertising ---------------------------
(***************************************************************************)
(* Bluetooth HID advertising: connect() and stopAdvertising() of           *)
(* BluetoothHIDTransport, its peripheral manager's callbacks, and the      *)
(* continuations of the calls that wait for advertising to start.          *)
(*                                                                         *)
(* Calls of connect() are tasks; what they post runs on the serial queue   *)
(* "com.macphonemirror.hid", where the manager delivers its callbacks too. *)
(* stopAdvertising() runs on the main thread.  CoreBluetooth is external:  *)
(* it takes the commands of a manager in order and answers add and start.  *)
(* Two calls may each create a manager; the later one replaces the other,  *)
(* and what the other still owed is lost.                                  *)
(***************************************************************************)
EXTENDS Integers, Sequences

CONSTANTS
  Call,      \* calls of connect()
  MaxInputs  \* bound: calls of stopAdvertising(), changes of the Bluetooth
             \* state and requests that fail with it on, together

ASSUME HIDAssumption == MaxInputs \in Nat

Service == {"battery", "deviceInfo", "hid"}

VARIABLES
  wants,       \* wantsAdvertising
  active,      \* isAdvertisingActive
  installed,   \* servicesInstalled
  installing,  \* servicesInstalling
  waiters,     \* connectWaiters, named by their calls
  pc,          \* where each call of connectOnce() stands
  resumed,     \* what each continuation was resumed with
  timedOut,    \* the calls whose timeout task has fired
  hidQueue,    \* blocks and callbacks on the queue
  finishing,   \* a callback has dropped the lock with this left to do
  stopping,    \* stopAdvertising() has yet to post its block
  manager,     \* how many managers were created; the last one is current
  power,       \* its state
  radio,       \* it advertises
  services,    \* how often it holds each service
  commands,    \* what it has been asked to do and has not done
  failed,      \* history: some request has failed
  dropped,     \* history: the database was cleared with the HID service in it
  inputs       \* a count, for the bound

flags == <<wants, active, installed, installing>>
calls == <<waiters, pc, resumed, timedOut>>
framework == <<manager, power, radio, services, commands, failed, dropped>>
vars == <<flags, calls, hidQueue, finishing, stopping, framework, inputs>>

(* What is on the queue: blocks of the transport, and callbacks of the     *)
(* manager they come from.                                                 *)
Item ==
  [kind: {"create", "ensure", "stop", "state", "added", "started"},
   service: Service \cup {"none"}, ok: BOOLEAN, from: Nat]
Block(kind) == [kind |-> kind, service |-> "none", ok |-> TRUE, from |-> 0]
Callback(kind, s, ok) == [kind |-> kind, service |-> s, ok |-> ok, from |-> manager]
Added(s, ok) == Callback("added", s, ok)
Started(ok) == Callback("started", "none", ok)

Command == [op: {"add", "start", "stop"}, service: Service \cup {"none"}]
Add(s) == [op |-> "add", service |-> s]
Start == [op |-> "start", service |-> "none"]
Stop == [op |-> "stop", service |-> "none"]

FlagsOK ==
  /\ wants \in BOOLEAN /\ active \in BOOLEAN
  /\ installed \in BOOLEAN /\ installing \in BOOLEAN
  /\ ~(installed /\ installing)

CallsOK ==
  /\ waiters \subseteq Call /\ timedOut \subseteq Call
  /\ pc \in [Call -> {"unused", "create", "ensure", "waiting", "returned"}]
  /\ resumed \in [Call -> Seq({"ok", "error"})]

QueueOK ==
  /\ hidQueue \in Seq(Item)
  /\ finishing \in {"nothing", "failure", "lateStart"}
  /\ stopping \in BOOLEAN

FrameworkOK ==
  /\ manager \in Nat
  /\ power \in {"unknown", "on", "off", "denied"}
  /\ radio \in BOOLEAN /\ (radio => power = "on")
  /\ services \in [Service -> Nat]
  /\ commands \in Seq(Command)
  /\ failed \in BOOLEAN /\ dropped \in BOOLEAN

InputsOK == inputs \in 0..MaxInputs

TypeOK == FlagsOK /\ CallsOK /\ QueueOK /\ FrameworkOK /\ InputsOK

Init ==
  /\ wants = FALSE /\ active = FALSE /\ installed = FALSE /\ installing = FALSE
  /\ waiters = {} /\ timedOut = {}
  /\ pc = [c \in Call |-> "unused"]
  /\ resumed = [c \in Call |-> <<>>]
  /\ hidQueue = <<>> /\ finishing = "nothing" /\ stopping = FALSE
  /\ manager = 0 /\ power = "unknown" /\ radio = FALSE
  /\ services = [s \in Service |-> 0]
  /\ commands = <<>> /\ failed = FALSE /\ dropped = FALSE
  /\ inputs = 0

Input == inputs < MaxInputs /\ inputs' = inputs + 1

Outstanding == {c \in Call : pc[c] \in {"create", "ensure", "waiting"}}

ResumeAndKeep(outcome) ==   \* mutant
  /\ resumed' = [c \in Call |-> IF c \in waiters THEN Append(resumed[c], outcome) ELSE resumed[c]]
  /\ UNCHANGED waiters

(* resumeConnectWaiters: every continuation there is, whoever waits.       *)
ResumeWaiters(outcome) ==
  /\ resumed' = [c \in Call |-> IF c \in waiters THEN Append(resumed[c], outcome) ELSE resumed[c]]
  /\ waiters' = {}

-----------------------------------------------------------------------------
(* connect() *)

(* connectOnce under the lock.                                             *)
Connect(c) ==
  /\ pc[c] = "unused"
  /\ wants' = TRUE
  /\ IF active
     THEN /\ resumed' = [resumed EXCEPT ![c] = Append(@, "ok")]
          /\ pc' = [pc EXCEPT ![c] = "waiting"]
          /\ UNCHANGED waiters
     ELSE /\ waiters' = waiters \cup {c}
          /\ pc' = [pc EXCEPT ![c] = IF manager = 0 THEN "create" ELSE "ensure"]
          /\ UNCHANGED resumed
  /\ UNCHANGED <<active, installed, installing, timedOut, hidQueue, finishing, stopping,
                 framework, inputs>>

Post(c) ==
  /\ pc[c] \in {"create", "ensure"}
  /\ hidQueue' = Append(hidQueue, Block(pc[c]))
  /\ pc' = [pc EXCEPT ![c] = "waiting"]
  /\ UNCHANGED <<flags, waiters, resumed, timedOut, finishing, stopping, framework, inputs>>

TimeoutOnlyThrows(c) ==   \* mutant
  /\ c \in Outstanding \ timedOut
  /\ timedOut' = timedOut \cup {c}
  /\ UNCHANGED <<flags, waiters, pc, resumed, hidQueue, finishing, stopping, framework, inputs>>

(* The other task of the group, 15 s later: connectOnce has got its lock   *)
(* by then.                                                                *)
Timeout(c) ==
  /\ c \in Outstanding \ timedOut
  /\ timedOut' = timedOut \cup {c}
  /\ ResumeWaiters("error")
  /\ UNCHANGED <<flags, pc, hidQueue, finishing, stopping, framework, inputs>>

(* The group has heard of one of its tasks, and waits for connectOnce in   *)
(* any case.                                                               *)
Return(c) ==
  /\ pc[c] = "waiting" /\ resumed[c] # <<>>
  /\ pc' = [pc EXCEPT ![c] = "returned"]
  /\ UNCHANGED <<flags, waiters, resumed, timedOut, hidQueue, finishing, stopping,
                 framework, inputs>>

-----------------------------------------------------------------------------
(* stopAdvertising() *)

StopAdvertising ==
  /\ ~stopping
  /\ Input
  /\ wants' = FALSE
  /\ stopping' = TRUE
  /\ UNCHANGED <<active, installed, installing, calls, hidQueue, finishing, framework>>

PostStop ==
  /\ stopping
  /\ stopping' = FALSE
  /\ hidQueue' = Append(hidQueue, Block("stop"))
  /\ UNCHANGED <<flags, calls, finishing, framework, inputs>>

-----------------------------------------------------------------------------
(* The HID queue *)

Turn(kind) ==
  /\ finishing = "nothing" /\ hidQueue # <<>>
  /\ Head(hidQueue).kind = kind /\ Head(hidQueue).from \in {0, manager}

(* A callback of a manager that is no more.                                *)
DropCallback ==
  /\ finishing = "nothing" /\ hidQueue # <<>>
  /\ Head(hidQueue).from \notin {0, manager}
  /\ hidQueue' = Tail(hidQueue)
  /\ UNCHANGED <<flags, calls, finishing, stopping, framework, inputs>>

(* A new manager starts from nothing, the flags of the transport do not.   *)
CreateManager ==
  /\ Turn("create")
  /\ manager' = manager + 1
  /\ power' = "unknown" /\ radio' = FALSE
  /\ services' = [s \in Service |-> 0]
  /\ commands' = <<>>
  /\ hidQueue' = Tail(hidQueue)
  /\ UNCHANGED <<flags, calls, finishing, stopping, failed, dropped, inputs>>

InstallAgain ==   \* mutant
  IF ~installed
  THEN installing' = TRUE /\ commands' = Append(commands, Add("battery"))
  ELSE UNCHANGED <<installing, commands>>

InstallServices ==
  IF ~installed /\ ~installing
  THEN installing' = TRUE /\ commands' = Append(commands, Add("battery"))
  ELSE UNCHANGED <<installing, commands>>

EnsureAdvertising ==
  IF manager > 0 /\ power = "on" /\ wants
  THEN IF installed
       THEN commands' = Append(commands, Start) /\ UNCHANGED installing
       ELSE InstallServices
  ELSE UNCHANGED <<installing, commands>>

RunEnsure ==
  /\ Turn("ensure")
  /\ hidQueue' = Tail(hidQueue)
  /\ EnsureAdvertising
  /\ UNCHANGED <<wants, active, installed, calls, finishing, stopping, manager, power,
                 radio, services, failed, dropped, inputs>>

RunStop ==
  /\ Turn("stop")
  /\ hidQueue' = Tail(hidQueue)
  /\ active' = FALSE
  /\ commands' = IF manager > 0 THEN Append(commands, Stop) ELSE commands
  /\ UNCHANGED <<wants, installed, installing, calls, finishing, stopping, manager,
                 power, radio, services, failed, dropped, inputs>>

(* peripheralManagerDidUpdateState looks at the state as it is by now.     *)
DidUpdateState ==
  /\ Turn("state")
  /\ hidQueue' = Tail(hidQueue)
  /\ IF power = "on" THEN EnsureAdvertising ELSE UNCHANGED <<installing, commands>>
  /\ IF power = "denied" THEN ResumeWaiters("error") ELSE UNCHANGED <<waiters, resumed>>
  /\ active' = (active /\ power # "off")
  /\ UNCHANGED <<wants, installed, pc, timedOut, finishing, stopping, manager, power,
                 radio, services, failed, dropped, inputs>>

DidAddFails ==
  /\ ~Head(hidQueue).ok
  /\ installing' = FALSE
  /\ ResumeWaiters("error")
  /\ UNCHANGED <<installed, commands>>

InstalledAtOnce ==   \* mutant
  /\ Head(hidQueue).ok
  /\ installed' = TRUE /\ installing' = FALSE
  /\ commands' = Append(commands, CASE Head(hidQueue).service = "battery" -> Add("deviceInfo")
                                    [] Head(hidQueue).service = "deviceInfo" -> Add("hid")
                                    [] Head(hidQueue).service = "hid" -> Start)
  /\ UNCHANGED <<waiters, resumed>>

(* Each service added asks for the next; the last one starts advertising.  *)
DidAddNext ==
  /\ Head(hidQueue).ok
  /\ \/ /\ Head(hidQueue).service = "battery"
        /\ commands' = Append(commands, Add("deviceInfo"))
        /\ UNCHANGED <<installed, installing>>
     \/ /\ Head(hidQueue).service = "deviceInfo"
        /\ commands' = Append(commands, Add("hid"))
        /\ UNCHANGED <<installed, installing>>
     \/ /\ Head(hidQueue).service = "hid"
        /\ commands' = Append(commands, Start)
        /\ installed' = TRUE /\ installing' = FALSE
  /\ UNCHANGED <<waiters, resumed>>

DidAdd ==
  /\ Turn("added")
  /\ hidQueue' = Tail(hidQueue)
  /\ DidAddFails \/ DidAddNext
  /\ UNCHANGED <<wants, active, pc, timedOut, finishing, stopping, manager, power, radio,
                 services, failed, dropped, inputs>>

AnyStart == TRUE   \* mutant
StillWanted == wants

(* peripheralManagerDidStartAdvertising under the lock ...                 *)
DidStart ==
  /\ Turn("started")
  /\ hidQueue' = Tail(hidQueue)
  /\ active' = (Head(hidQueue).ok /\ StillWanted)
  /\ finishing' = IF ~Head(hidQueue).ok THEN "failure"
                  ELSE IF StillWanted THEN "nothing" ELSE "lateStart"
  /\ IF active' THEN ResumeWaiters("ok") ELSE UNCHANGED <<waiters, resumed>>
  /\ UNCHANGED <<wants, installed, installing, pc, timedOut, stopping, framework, inputs>>

(* ... and after it: a start that is no longer wanted is taken back.       *)
FinishStart ==
  /\ finishing # "nothing"
  /\ finishing' = "nothing"
  /\ commands' = IF finishing = "lateStart" THEN Append(commands, Stop) ELSE commands
  /\ ResumeWaiters("error")
  /\ UNCHANGED <<flags, pc, timedOut, hidQueue, stopping, manager, power, radio, services,
                 failed, dropped, inputs>>

-----------------------------------------------------------------------------
(* CoreBluetooth *)

(* The database of a manager whose state is now this.  Below poweredOff,   *)
(* that is denied (unauthorized or unsupported) or unknown (or resetting), *)
(* CoreBluetooth clears it; the code does not hear of that.                *)
Database(state) == IF state \in {"denied", "unknown"} THEN [s \in Service |-> 0] ELSE services

PowerChanges(state) ==
  /\ manager > 0
  /\ state # power
  /\ Input
  /\ power' = state
  /\ radio' = (radio /\ state = "on")
  /\ services' = Database(state)
  /\ dropped' = (dropped \/ services'["hid"] < services["hid"])
  /\ hidQueue' = Append(hidQueue, Callback("state", "none", TRUE))
  /\ UNCHANGED <<flags, calls, finishing, stopping, manager, commands, failed>>

Done(command) == commands # <<>> /\ Head(commands) = command /\ commands' = Tail(commands)

DoAdd(s) ==
  /\ Done(Add(s))
  /\ power = "on"
  /\ services' = [services EXCEPT ![s] = @ + 1]
  /\ hidQueue' = Append(hidQueue, Added(s, TRUE))
  /\ UNCHANGED <<flags, calls, finishing, stopping, manager, power, radio, failed, dropped, inputs>>

DoStart ==
  /\ Done(Start)
  /\ power = "on"
  /\ radio' = TRUE
  /\ hidQueue' = Append(hidQueue, Started(TRUE))
  /\ UNCHANGED <<flags, calls, finishing, stopping, manager, power, services, failed, dropped,
                 inputs>>

DoStop ==
  /\ Done(Stop)
  /\ radio' = FALSE
  /\ UNCHANGED <<flags, calls, hidQueue, finishing, stopping, manager, power, services,
                 failed, dropped, inputs>>

Answer(command) ==
  IF command.op = "start" THEN Started(FALSE) ELSE Added(command.service, FALSE)

(* A request fails when Bluetooth is not on, when advertising has been     *)
(* started before, or for a reason of its own.                             *)
Refuse ==
  /\ commands # <<>> /\ Head(commands).op # "stop"
  /\ commands' = Tail(commands)
  /\ failed' = TRUE
  /\ \/ (power # "on" \/ (radio /\ Head(commands).op = "start")) /\ UNCHANGED inputs
     \/ power = "on" /\ Input
  /\ hidQueue' = Append(hidQueue, Answer(Head(commands)))
  /\ UNCHANGED <<flags, calls, finishing, stopping, manager, power, radio, services, dropped>>

-----------------------------------------------------------------------------
HIDQueue ==
  \/ CreateManager \/ DropCallback \/ RunEnsure \/ RunStop \/ DidUpdateState \/ DidAdd \/ DidStart
  \/ FinishStart

CoreBluetooth == (\E s \in Service : DoAdd(s)) \/ DoStart \/ DoStop \/ Refuse

Next ==
  \/ \E c \in Call : Connect(c) \/ Post(c) \/ Timeout(c) \/ Return(c)
  \/ StopAdvertising \/ PostStop
  \/ HIDQueue \/ CoreBluetooth
  \/ \E state \in {"on", "off", "denied", "unknown"} : PowerChanges(state)

Spec == Init /\ [][Next]_vars

(* Tasks and the queue run, and the timeout's sleep ends.  CoreBluetooth   *)
(* owes nothing: it may never report that Bluetooth is on, nor answer.     *)
Fairness ==
  /\ \A c \in Call : WF_vars(Post(c)) /\ WF_vars(Timeout(c)) /\ WF_vars(Return(c))
  /\ WF_vars(PostStop) /\ WF_vars(HIDQueue)

FairSpec == Spec /\ Fairness

-----------------------------------------------------------------------------
(* Properties *)

(* A continuation of connectOnce() is resumed at most once, though the     *)
(* callbacks, every call's timeout and connect() itself all resume them (a *)
(* second resume of a checked continuation traps).                         *)
ResumedOnce == \A c \in Call : Len(resumed[c]) <= 1

(* Every connect() returns, also when CoreBluetooth never answers: the     *)
(* timeout resumes the continuation its group would otherwise wait for.    *)
EveryConnectReturns == \A c \in Call : pc[c] \in {"create", "ensure"} ~> pc[c] = "returned"

Settled ==
  /\ hidQueue = <<>> /\ commands = <<>> /\ finishing = "nothing" /\ ~stopping
  /\ \A c \in Call : pc[c] \in {"unused", "waiting", "returned"}

(* When advertising is not wanted and nothing is left to run the radio is  *)
(* silent, whatever was under way when the service was switched off.       *)
OffMeansOffAir == Settled /\ ~wants => ~radio

(* No service is put into the GATT database twice unless a request has     *)
(* failed, however many calls and state updates ask for the installation.  *)
GattInstalledOnce == ~failed => \A s \in Service : services[s] <= 1

(* The phone never sees the first manager advertise while the HID service  *)
(* is not in its database, unless the database has been cleared with the   *)
(* service in it (dropped): servicesInstalled outlives that, as it does    *)
(* the manager, and what is advertised then is empty.                      *)
AdvertisedWithService == radio /\ manager = 1 /\ ~dropped => services["hid"] > 0
=============================================================================
