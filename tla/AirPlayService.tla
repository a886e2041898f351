--------------------------- MODULE AirPlayService ---------------------------
(***************************************************************************)
(* The AirPlay service switch: SessionManager's startListening,            *)
(* stopListening, setServiceEnabled and updateServiceName, the generation  *)
(* counter of AirPlayServiceController and the Bonjour listener owned by   *)
(* NetworkStreamReceiver.                                                  *)
(*                                                                         *)
(* Three kinds of thread meet here.  The user's toggles run on the main    *)
(* thread.  Every asynchronous start (a Starter) and every rename of the   *)
(* service (a Renamer) is a task of the concurrent executor.  Network      *)
(* framework callbacks run, one at a time and in order, on the receiver's  *)
(* serial queue.  A task binds at most one NWListener, so a listener is    *)
(* named by the task that bound it.  Each critical section of the code's   *)
(* locks is one step; everything between two of them may interleave.       *)
(***************************************************************************)
EXTENDS Integers, Sequences

CONSTANTS
  Starter,    \* tasks that run startListening(generation:), one slot per start
  Renamer,    \* tasks that run updateServiceName, one slot per rename
  Flaky,      \* the tasks whose listener may fail: a bound, Task for no bound
  Main,       \* the main thread
  None        \* no listener

Task == Starter \cup Renamer
Actor == Task \cup {Main}

ASSUME ActorAssumption ==
  /\ Starter \cap Renamer = {}
  /\ Main \notin Task
  /\ None \notin Actor

VARIABLES
  enabled,        \* SessionManager.isServiceEnabled
  launched,       \* AppDelegate has called startListening()
  generation,     \* AirPlayServiceController.serviceGeneration
  isListening,    \* AirPlayServiceController.isListening
  taskGeneration, \* the generation a start was given
  pc,             \* where each actor stands
  receiverState,  \* NetworkStreamReceiver._state
  listener,       \* NetworkStreamReceiver.listener, by the task that bound it
  grabbed,        \* the listener that stop() took out of the receiver
  nw,             \* what the network framework does with each task's listener
  callbacks,      \* state updates waiting on the receiver's serial queue
  handling,       \* the update handleListenerState has found current
  resumed,        \* outcomes delivered to each task's start continuation
  hidTasks,       \* spawned HID connect tasks that have not run yet
  hidWanted       \* BluetoothHIDTransport.wantsAdvertising

service == <<enabled, launched, generation, isListening, taskGeneration>>
receiver == <<receiverState, listener, grabbed>>
network == <<nw, callbacks, handling, resumed>>
hid == <<hidTasks, hidWanted>>
vars == <<service, pc, receiver, network, hid>>

Stopping == {"stopGrab", "stopCancel", "stopMark"}
PC == Stopping \cup
      {"unused", "begin", "enter", "starting", "bind", "listen", "await",
       "check", "mark", "recheck", "extras", "failed", "report", "abort",
       "stopExtras", "idle", "done"}
Event == {"ready", "failed", "cancelled"}
NoUpdate == [task |-> None, event |-> "cancelled"]
Update == [task: Task, event: Event]

TypeOK ==
  /\ enabled \in BOOLEAN /\ launched \in BOOLEAN /\ isListening \in BOOLEAN
  /\ generation \in Nat
  /\ taskGeneration \in [Starter -> Nat]
  /\ pc \in [Actor -> PC]
  /\ receiverState \in {"idle", "starting", "running", "stopped", "failed"}
  /\ listener \in Task \cup {None}
  /\ grabbed \in [Actor -> Task \cup {None}]
  /\ nw \in [Task -> {"new", "started", "ready", "failed", "cancelled"}]
  /\ callbacks \in Seq(Update)
  /\ handling \in Update \cup {NoUpdate}
  /\ resumed \in [Task -> Seq({"ok", "error"})]
  /\ hidWanted \in BOOLEAN
  /\ hidTasks \subseteq Starter

-----------------------------------------------------------------------------
(* isServiceEnabled is restored from the preferences, so either value.     *)
Init ==
  /\ enabled \in BOOLEAN
  /\ launched = FALSE
  /\ generation = 0
  /\ isListening = FALSE
  /\ taskGeneration = [t \in Starter |-> 0]
  /\ pc = [a \in Actor |-> IF a = Main THEN "idle" ELSE "unused"]
  /\ receiverState = "idle"
  /\ listener = None
  /\ grabbed = [a \in Actor |-> None]
  /\ nw = [t \in Task |-> "new"]
  /\ callbacks = <<>>
  /\ handling = NoUpdate
  /\ resumed = [t \in Task |-> <<>>]
  /\ hidTasks = {}
  /\ hidWanted = FALSE

Goto(a, label) == pc' = [pc EXCEPT ![a] = label]

WantedAlways(t) == TRUE   \* mutant
Current(t) == taskGeneration[t] = generation
Wanted(t) == enabled /\ Current(t)

(* NWListener.cancel(): the framework stops advertising at once and queues *)
(* one last state update.  Cancelling twice, or nothing, has no effect.    *)
(* A listener that was not started yet reports the same way.               *)
Cancelled(l) ==
  IF l # None /\ nw[l] # "cancelled"
  THEN /\ nw' = [nw EXCEPT ![l] = "cancelled"]
       /\ callbacks' = Append(callbacks, [task |-> l, event |-> "cancelled"])
  ELSE UNCHANGED <<nw, callbacks>>

-----------------------------------------------------------------------------
(* Main thread *)

(* bumpGeneration() and the Task that runs startListening(generation:).    *)
SpawnStart(t) ==
  /\ pc[t] = "unused"
  /\ generation' = generation + 1
  /\ taskGeneration' = [taskGeneration EXCEPT ![t] = generation + 1]
  /\ Goto(t, "begin")
  /\ UNCHANGED <<isListening, receiver, network, hid>>

Launch(t) ==
  /\ ~launched
  /\ launched' = TRUE
  /\ SpawnStart(t)
  /\ UNCHANGED enabled

EnableService(t) ==
  /\ pc[Main] = "idle"
  /\ ~enabled
  /\ enabled' = TRUE
  /\ SpawnStart(t)
  /\ UNCHANGED launched

(* setServiceEnabled(false) up to the call of stop() inside stopListening. *)
DisableService ==
  /\ pc[Main] = "idle"
  /\ enabled
  /\ enabled' = FALSE
  /\ generation' = generation + 1
  /\ isListening' = FALSE
  /\ Goto(Main, "stopGrab")
  /\ UNCHANGED <<launched, taskGeneration, receiver, network, hid>>

(* The rest of stopListening, after stop(): HID and USB discovery.         *)
StopExtras ==
  /\ pc[Main] = "stopExtras"
  /\ hidWanted' = FALSE
  /\ Goto(Main, "idle")
  /\ UNCHANGED <<service, receiver, network, hidTasks>>

-----------------------------------------------------------------------------
(* NetworkStreamReceiver.stop(), run by the main thread, by a start that   *)
(* finds itself stale, or by the restart() of a rename.                    *)

StopGrab(a) ==
  /\ pc[a] = "stopGrab"
  /\ grabbed' = [grabbed EXCEPT ![a] = listener]
  /\ listener' = None
  /\ Goto(a, "stopCancel")
  /\ UNCHANGED <<service, receiverState, network, hid>>

StopCancel(a) ==
  /\ pc[a] = "stopCancel"
  /\ Cancelled(grabbed[a])
  /\ grabbed' = [grabbed EXCEPT ![a] = None]
  /\ Goto(a, "stopMark")
  /\ UNCHANGED <<service, receiverState, listener, handling, resumed, hid>>

StopMark(a) ==
  /\ pc[a] = "stopMark"
  /\ receiverState' = "stopped"
  /\ Goto(a, IF a = Main THEN "stopExtras"
             ELSE IF a \in Starter THEN "abort" ELSE "enter")
  /\ UNCHANGED <<service, listener, grabbed, network, hid>>

-----------------------------------------------------------------------------
(* Tasks *)

(* updateServiceName's guard, then restart(), which starts with stop().    *)
Rename(t) ==
  /\ pc[t] = "unused"
  /\ enabled
  /\ receiverState = "running"
  /\ Goto(t, "stopGrab")
  /\ UNCHANGED <<service, receiver, network, hid>>

(* The entry guards of startListening(generation:).                        *)
Begin(t) ==
  /\ pc[t] = "begin"
  /\ Goto(t, IF Wanted(t) /\ ~(isListening /\ receiverState = "running")
             THEN "enter" ELSE "done")
  /\ UNCHANGED <<service, receiver, network, hid>>

(* start(): a receiver that is starting or running is taken for started.   *)
(* Otherwise the task goes on, after the delay that follows a stop(): the  *)
(* delay is the time the task spends at "starting".                        *)
Enter(t) ==
  /\ pc[t] = "enter"
  /\ Goto(t, IF receiverState \notin {"running", "starting"} THEN "starting"
             ELSE IF t \in Starter THEN "check" ELSE "done")
  /\ UNCHANGED <<service, receiver, network, hid>>

(* startListener: the state changes first, then NWListener may throw.      *)
MarkStarting(t) ==
  /\ pc[t] = "starting"
  /\ receiverState' = "starting"
  /\ \E next \in {"bind"} \cup {"failed" : f \in Flaky \cap {t}} : Goto(t, next)
  /\ UNCHANGED <<service, listener, grabbed, network, hid>>

BindOver(t) ==   \* mutant
  /\ pc[t] = "bind"
  /\ listener' = t
  /\ Goto(t, "listen")
  /\ UNCHANGED <<service, receiverState, grabbed, network, hid>>

(* bindListener: the listener it replaces is cancelled in the same         *)
(* critical section; the new one is started after it.                      *)
Bind(t) ==
  /\ pc[t] = "bind"
  /\ Cancelled(listener)
  /\ listener' = t
  /\ Goto(t, "listen")
  /\ UNCHANGED <<service, receiverState, grabbed, handling, resumed, hid>>

(* listener.start(queue:); a listener cancelled in the meantime is dead.   *)
Listen(t) ==
  /\ pc[t] = "listen"
  /\ nw' = [nw EXCEPT ![t] = IF @ = "new" THEN "started" ELSE @]
  /\ Goto(t, "await")
  /\ UNCHANGED <<service, receiver, callbacks, handling, resumed, hid>>

(* The continuation of startListener has been resumed.  The mirror server  *)
(* is up after a success; its sockets are no part of this module.          *)
Resume(t) ==
  /\ pc[t] = "await"
  /\ resumed[t] # <<>>
  /\ Goto(t, IF resumed[t][1] = "error" THEN "failed"
             ELSE IF t \in Starter THEN "check" ELSE "done")
  /\ UNCHANGED <<service, receiver, network, hid>>

(* A start that was toggled off while it waited stops the receiver.        *)
CheckGeneration(t) ==
  /\ pc[t] = "check"
  /\ Goto(t, IF Wanted(t) THEN "mark" ELSE "stopGrab")
  /\ UNCHANGED <<service, receiver, network, hid>>

Abort(t) ==
  /\ pc[t] = "abort"
  /\ isListening' = FALSE
  /\ Goto(t, "done")
  /\ UNCHANGED <<enabled, launched, generation, taskGeneration, receiver, network, hid>>

MarkListening(t) ==
  /\ pc[t] = "mark"
  /\ isListening' = TRUE
  /\ Goto(t, "recheck")
  /\ UNCHANGED <<enabled, launched, generation, taskGeneration, receiver, network, hid>>

Recheck(t) ==
  /\ pc[t] = "recheck"
  /\ Goto(t, IF Wanted(t) THEN "extras" ELSE "done")
  /\ UNCHANGED <<service, receiver, network, hid>>

StartExtras(t) ==
  /\ pc[t] = "extras"
  /\ hidTasks' = hidTasks \cup {t}
  /\ Goto(t, "done")
  /\ UNCHANGED <<service, receiver, network, hidWanted>>

(* The spawned HID task: connectOnce() records that advertising is wanted. *)
ConnectHID(t) ==
  /\ t \in hidTasks
  /\ hidTasks' = hidTasks \ {t}
  /\ hidWanted' = TRUE
  /\ UNCHANGED <<service, pc, receiver, network>>

(* The catch clauses: a stale failure is ignored, a rename only logs.      *)
Fail(t) ==
  /\ pc[t] = "failed"
  /\ Goto(t, IF t \in Starter /\ Current(t) THEN "report" ELSE "done")
  /\ UNCHANGED <<service, receiver, network, hid>>

Report(t) ==
  /\ pc[t] = "report"
  /\ isListening' = FALSE
  /\ Goto(t, "done")
  /\ UNCHANGED <<enabled, launched, generation, taskGeneration, receiver, network, hid>>

-----------------------------------------------------------------------------
(* The network framework *)

ListenerReady(t) ==
  /\ nw[t] = "started"
  /\ nw' = [nw EXCEPT ![t] = "ready"]
  /\ callbacks' = Append(callbacks, [task |-> t, event |-> "ready"])
  /\ UNCHANGED <<service, pc, receiver, handling, resumed, hid>>

ListenerFails(t) ==
  /\ t \in Flaky
  /\ nw[t] \in {"started", "ready"}
  /\ nw' = [nw EXCEPT ![t] = "failed"]
  /\ callbacks' = Append(callbacks, [task |-> t, event |-> "failed"])
  /\ UNCHANGED <<service, pc, receiver, handling, resumed, hid>>

-----------------------------------------------------------------------------
(* The receiver's serial queue *)

(* ResumeOnce: only the first outcome reaches the continuation.            *)
ResumeOnce(t, outcome) ==
  resumed' = IF resumed[t] = <<>>
             THEN [resumed EXCEPT ![t] = Append(@, outcome)]
             ELSE resumed

TakeCurrentUpdate ==   \* mutant
  /\ handling = NoUpdate /\ callbacks # <<>>
  /\ callbacks' = Tail(callbacks)
  /\ handling' = IF listener = Head(callbacks).task THEN Head(callbacks) ELSE NoUpdate
  /\ UNCHANGED <<service, pc, receiver, nw, resumed, hid>>

(* handleListenerState up to its isCurrent guard.                          *)
TakeUpdate ==
  /\ handling = NoUpdate
  /\ callbacks # <<>>
  /\ callbacks' = Tail(callbacks)
  /\ LET update == Head(callbacks) IN
       IF listener = update.task
       THEN handling' = update /\ UNCHANGED resumed
       ELSE /\ UNCHANGED handling
            /\ IF update.event = "cancelled" THEN ResumeOnce(update.task, "error")
               ELSE UNCHANGED resumed
  /\ UNCHANGED <<service, pc, receiver, nw, hid>>

(* The rest of handleListenerState: the lock was dropped in between.       *)
ApplyUpdate ==
  /\ handling # NoUpdate
  /\ \/ handling.event = "ready" /\ receiverState' = "running"
     \/ handling.event = "failed" /\ receiverState' = "failed"
     \/ handling.event = "cancelled" /\ receiverState' = "stopped"
  /\ ResumeOnce(handling.task, IF handling.event = "ready" THEN "ok" ELSE "error")
  /\ handling' = NoUpdate
  /\ UNCHANGED <<service, pc, listener, grabbed, nw, callbacks, hid>>

-----------------------------------------------------------------------------
StartStep(t) ==
  \/ Begin(t) \/ CheckGeneration(t) \/ Abort(t) \/ MarkListening(t)
  \/ Recheck(t) \/ StartExtras(t) \/ Report(t)

TaskStep(t) ==
  \/ Enter(t) \/ MarkStarting(t) \/ Bind(t) \/ Listen(t) \/ Resume(t) \/ Fail(t)

StopStep(a) == StopGrab(a) \/ StopCancel(a) \/ StopMark(a)

Next ==
  \/ \E t \in Starter : Launch(t) \/ EnableService(t) \/ StartStep(t) \/ ConnectHID(t)
  \/ \E t \in Renamer : Rename(t)
  \/ \E t \in Task : TaskStep(t) \/ ListenerReady(t) \/ ListenerFails(t)
  \/ \E a \in Actor : StopStep(a)
  \/ DisableService \/ StopExtras \/ TakeUpdate \/ ApplyUpdate

Spec == Init /\ [][Next]_vars

-----------------------------------------------------------------------------
(* Properties *)

Advertised == {l \in Task : nw[l] \in {"started", "ready"}}
AtRest == pc[Main] = "idle" /\ \A t \in Task : pc[t] \in {"unused", "done"}

(* A listener the network framework advertises is the receiver's own, or   *)
(* a stop() already holds it and is about to cancel it: overlapping        *)
(* starts, stops and restarts never leave one that nothing can cancel.     *)
NoOrphanListener ==
  \A l \in Advertised :
    listener = l \/ \E a \in Actor : pc[a] = "stopCancel" /\ grabbed[a] = l

(* Once the switch is off and every task has returned, no listener that a  *)
(* guarded start bound is still advertised, however late the start ran.    *)
GuardedStartsSilent ==
  ~enabled /\ AtRest => Advertised \cap Starter = {}

(* A task that waits for its listener is answered: the listener is still   *)
(* the receiver's and about to settle or settled, or a stop() that took it *)
(* will cancel it, or its cancellation is queued.  Updates that come too   *)
(* late are dropped, but never the one a continuation waits for.           *)
Queued(t, events) == \E n \in DOMAIN callbacks :
  callbacks[n].task = t /\ callbacks[n].event \in events
WaitsAreAnswered ==
  \A t \in Task : pc[t] = "await" =>
    \/ resumed[t] # <<>> \/ handling.task = t
    \/ listener = t /\ (nw[t] = "started" \/ Queued(t, {"ready", "failed"}))
    \/ \E a \in Actor : pc[a] = "stopCancel" /\ grabbed[a] = t
    \/ Queued(t, {"cancelled"})

(* "Prevents a stale async start from clearing a newer listener": a start  *)
(* that stops the receiver never takes the listener of a later start.      *)
StaleStartSparesNewer ==
  [][\A t \in Starter :
       StopGrab(t) /\ listener \in Starter
         => taskGeneration[listener] <= taskGeneration[t]]_vars
=============================================================================
