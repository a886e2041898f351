----------------------- MODULE AirPlayServiceProofs -------------------------
(* Proofs about AirPlayService for any set of starts and renames.          *)
EXTENDS AirPlayService, TLAPS

(* A listener that is advertised, or will be as soon as its task calls     *)
(* start(queue:), can still be reached by some stop().                     *)
Open(l) == nw[l] \in {"started", "ready"} \/ (nw[l] = "new" /\ pc[l] = "listen")
Reachable(l) ==
  listener = l \/ \E a \in Actor : pc[a] = "stopCancel" /\ grabbed[a] = l
OpenReachable == \A l \in Task : Open(l) => Reachable(l)

(* What the network framework reported of a listener is true of it, so a   *)
(* start whose continuation got an error has a dead listener.              *)
Dead == {l \in Task : nw[l] \in {"failed", "cancelled"}}
BadNewsTrue ==
  /\ \A i \in 1..Len(callbacks) :
       callbacks[i].event # "ready" => callbacks[i].task \in Dead
  /\ handling # NoUpdate /\ handling.event # "ready" => handling.task \in Dead
  /\ \A t \in Task : resumed[t] # <<>> /\ resumed[t][1] = "error" => t \in Dead

(* A start whose listener is still open after the switch went off is       *)
(* followed by a stop(): the switch's own, or the one the start runs when  *)
(* it finds its generation gone.                                           *)
WillBeStopped ==
  \A l \in Starter :
    listener = l /\ Open(l) /\ ~enabled
      => pc[Main] = "stopGrab" \/ pc[l] \in {"listen", "await", "check", "stopGrab"}

IInv == TypeOK /\ OpenReachable /\ BadNewsTrue /\ WillBeStopped
(***************************************************************************)
(* The type invariant                                                      *)
(***************************************************************************)

(* Moving an actor to another label of its program keeps pc a program      *)
(* counter: what every action does to pc.                                  *)
LEMMA GotoType ==
  ASSUME TypeOK, NEW a \in Actor, NEW label \in PC, Goto(a, label)
  PROVE  pc' \in [Actor -> PC]
BY DEF TypeOK, Goto

(* A cancellation keeps the framework's states and the queue well typed.   *)
LEMMA CancelledType ==
  ASSUME TypeOK, NEW l \in Task \cup {None}, Cancelled(l)
  PROVE  /\ nw' \in [Task -> {"new", "started", "ready", "failed", "cancelled"}]
         /\ callbacks' \in Seq(Update)
<1>1. CASE l # None /\ nw[l] # "cancelled"
  <2>1. l \in Task
    BY <1>1
  <2>2. [task |-> l, event |-> "cancelled"] \in Update
    BY <2>1 DEF Update, Event
  <2>3. callbacks \in Seq(Update) /\ callbacks' = Append(callbacks, [task |-> l, event |-> "cancelled"])
    BY <1>1 DEF TypeOK, Cancelled
  <2>4. callbacks' \in Seq(Update)
    BY <2>2, <2>3
  <2>5. nw' = [nw EXCEPT ![l] = "cancelled"]
    BY <1>1 DEF Cancelled
  <2>. QED  BY <2>1, <2>4, <2>5 DEF TypeOK
<1>2. CASE ~(l # None /\ nw[l] # "cancelled")
  BY <1>2 DEF TypeOK, Cancelled
<1>. QED  BY <1>1, <1>2

(* Delivering an outcome keeps the record of outcomes well typed.          *)
LEMMA ResumeType ==
  ASSUME TypeOK, NEW t \in Task, NEW outcome \in {"ok", "error"}, ResumeOnce(t, outcome)
  PROVE  resumed' \in [Task -> Seq({"ok", "error"})]
BY DEF TypeOK, ResumeOnce

LEMMA TypeInit == Init => TypeOK
<1>. SUFFICES ASSUME Init PROVE TypeOK
  OBVIOUS
<1>1. callbacks \in Seq(Update) /\ \A t \in Task : resumed[t] \in Seq({"ok", "error"})
  BY DEF Init
<1>2. pc \in [Actor -> PC]
  BY DEF Init, PC
<1>3. nw \in [Task -> {"new", "started", "ready", "failed", "cancelled"}]
  BY DEF Init
<1>4. resumed \in [Task -> Seq({"ok", "error"})]
  BY <1>1 DEF Init
<1>. QED  BY <1>1, <1>2, <1>3, <1>4 DEF Init, TypeOK, NoUpdate

LEMMA TypeStep ==
  ASSUME TypeOK, [Next]_vars
  PROVE  TypeOK'
<1>. USE ActorAssumption DEF Task, Actor
<1>1. ASSUME NEW t \in Starter, Launch(t)  PROVE TypeOK'
  BY <1>1 DEF TypeOK, Launch, SpawnStart, Goto, PC, receiver, network, hid
<1>2. ASSUME NEW t \in Starter, EnableService(t)  PROVE TypeOK'
  BY <1>2 DEF TypeOK, EnableService, SpawnStart, Goto, PC, receiver, network, hid
<1>3. CASE DisableService
  <2>. pc' \in [Actor -> PC]
    BY <1>3, GotoType DEF DisableService, PC, Stopping
  <2>1. enabled' \in BOOLEAN /\ isListening' \in BOOLEAN
    BY <1>3 DEF DisableService
  <2>2. /\ generation' = generation + 1
        /\ UNCHANGED <<launched, taskGeneration, receiver, network, hid>>
    BY <1>3 DEF DisableService
  <2>. QED  BY <2>1, <2>2 DEF TypeOK, receiver, network, hid
<1>4. CASE StopExtras
  BY <1>4 DEF TypeOK, StopExtras, Goto, PC, service, receiver, network
<1>5. ASSUME NEW a \in Actor, StopGrab(a)  PROVE TypeOK'
  BY <1>5 DEF TypeOK, StopGrab, Goto, PC, Stopping, service, network, hid
<1>6. ASSUME NEW a \in Actor, StopCancel(a)  PROVE TypeOK'
  <2>1. grabbed[a] \in Task \cup {None}
    BY DEF TypeOK
  <2>2. pc' \in [Actor -> PC]
    BY <1>6, GotoType DEF StopCancel, PC, Stopping
  <2>. QED  BY <1>6, <2>1, <2>2, CancelledType DEF TypeOK, StopCancel, service, hid
<1>7. ASSUME NEW a \in Actor, StopMark(a)  PROVE TypeOK'
  BY <1>7 DEF TypeOK, StopMark, Goto, PC, Stopping, service, network, hid
<1>8. ASSUME NEW t \in Renamer, Rename(t)  PROVE TypeOK'
  BY <1>8 DEF TypeOK, Rename, Goto, PC, Stopping, service, receiver, network, hid
<1>9. ASSUME NEW t \in Starter, StartStep(t)  PROVE TypeOK'
  <2>. pc' \in [Actor -> PC]
    BY <1>9 DEF TypeOK, StartStep, Begin, CheckGeneration, Abort, MarkListening, Recheck,
                StartExtras, Report, Goto, PC, Stopping
  <2>. QED
    BY <1>9 DEF TypeOK, StartStep, Begin, CheckGeneration, Abort, MarkListening, Recheck,
                StartExtras, Report, service, receiver, network, hid
<1>10. ASSUME NEW t \in Starter, ConnectHID(t)  PROVE TypeOK'
  BY <1>10 DEF TypeOK, ConnectHID, service, receiver, network
<1>11. ASSUME NEW t \in Task, Bind(t)  PROVE TypeOK'
  <2>1. listener \in Task \cup {None}
    BY DEF TypeOK
  <2>2. pc' \in [Actor -> PC]
    BY <1>11, GotoType DEF Bind, PC
  <2>. QED  BY <1>11, <2>1, <2>2, CancelledType DEF TypeOK, Bind, service, hid
<1>12. ASSUME NEW t \in Task, Enter(t) \/ MarkStarting(t) \/ Listen(t) \/ Resume(t) \/ Fail(t)
       PROVE  TypeOK'
  <2>. pc' \in [Actor -> PC]
    BY <1>12 DEF TypeOK, Enter, MarkStarting, Listen, Resume, Fail, Goto, PC, Stopping
  <2>. QED
    BY <1>12 DEF TypeOK, Enter, MarkStarting, Listen, Resume, Fail, service, receiver, network, hid
<1>13. ASSUME NEW t \in Task, ListenerReady(t) \/ ListenerFails(t)  PROVE TypeOK'
  <2>1. [task |-> t, event |-> "ready"] \in Update /\ [task |-> t, event |-> "failed"] \in Update
    BY DEF Update, Event
  <2>2. callbacks \in Seq(Update)
    BY DEF TypeOK
  <2>3. callbacks' \in Seq(Update)
    BY <1>13, <2>1, <2>2 DEF ListenerReady, ListenerFails
  <2>. QED
    BY <1>13, <2>3 DEF TypeOK, ListenerReady, ListenerFails, service, receiver, hid
<1>14. CASE TakeUpdate
  <2>1. Head(callbacks) \in Update /\ Tail(callbacks) \in Seq(Update)
    BY <1>14 DEF TypeOK, TakeUpdate
  <2>2. Head(callbacks).task \in Task
    BY <2>1 DEF Update
  <2>3. resumed' \in [Task -> Seq({"ok", "error"})]
    BY <1>14, <2>2, ResumeType DEF TypeOK, TakeUpdate
  <2>. QED  BY <1>14, <2>1, <2>3 DEF TypeOK, TakeUpdate, service, receiver, hid
<1>15. CASE ApplyUpdate
  <2>1. handling.task \in Task /\ handling.event \in Event
    BY <1>15 DEF TypeOK, ApplyUpdate, Update
  <2>2. resumed' \in [Task -> Seq({"ok", "error"})]
    BY <1>15, <2>1, ResumeType DEF ApplyUpdate
  <2>3. receiverState' \in {"idle", "starting", "running", "stopped", "failed"}
    BY <1>15, <2>1 DEF ApplyUpdate, Event
  <2>. QED  BY <1>15, <2>2, <2>3 DEF TypeOK, ApplyUpdate, service, hid
<1>16. CASE UNCHANGED vars
  BY <1>16 DEF TypeOK, vars, service, receiver, network, hid
<1>. QED
  BY <1>1, <1>2, <1>3, <1>4, <1>5, <1>6, <1>7, <1>8, <1>9, <1>10, <1>11, <1>12, <1>13,
     <1>14, <1>15, <1>16 DEF Next, TaskStep, StopStep

(* Every reachable state is well typed: Spec => []TypeOK.                  *)
THEOREM TypeCorrect == Spec => []TypeOK
BY TypeInit, TypeStep, PTL DEF Spec
(***************************************************************************)
(* No listener escapes                                                     *)
(***************************************************************************)

(* An actor that moves without touching a listener, and is neither about   *)
(* to cancel nor about to start one, keeps every open listener reachable.  *)
LEMMA MoveKeepsReachable ==
  ASSUME TypeOK, OpenReachable, NEW a \in Actor, NEW label, Goto(a, label),
         pc[a] # "stopCancel", label # "listen", UNCHANGED <<nw, listener, grabbed>>
  PROVE  OpenReachable'
BY ActorAssumption DEF TypeOK, OpenReachable, Open, Reachable, Goto, Task, Actor

(* The same when only the network framework or its queue moves.            *)
LEMMA NetworkKeepsReachable ==
  ASSUME TypeOK, OpenReachable, UNCHANGED <<pc, listener, grabbed>>,
         \A l \in Task : Open(l)' => Open(l)
  PROVE  OpenReachable'
BY DEF OpenReachable, Reachable

LEMMA ReachableStep ==
  ASSUME TypeOK, OpenReachable, [Next]_vars
  PROVE  OpenReachable'
<1>. USE ActorAssumption DEF Task, Actor
<1>1. ASSUME NEW t \in Starter, Launch(t) \/ EnableService(t)  PROVE OpenReachable'
  <2>1. Goto(t, "begin") /\ pc[t] = "unused" /\ UNCHANGED <<nw, listener, grabbed>>
    BY <1>1 DEF Launch, EnableService, SpawnStart, receiver, network
  <2>. QED  BY <2>1, MoveKeepsReachable
<1>2. CASE DisableService
  <2>1. Goto(Main, "stopGrab") /\ pc[Main] = "idle" /\ UNCHANGED <<nw, listener, grabbed>>
    BY <1>2 DEF DisableService, receiver, network
  <2>. QED  BY <2>1, MoveKeepsReachable
<1>3. CASE StopExtras
  <2>1. Goto(Main, "idle") /\ pc[Main] = "stopExtras" /\ UNCHANGED <<nw, listener, grabbed>>
    BY <1>3 DEF StopExtras, receiver, network
  <2>. QED  BY <2>1, MoveKeepsReachable
<1>4. ASSUME NEW a \in Actor, StopGrab(a)  PROVE OpenReachable'
  <2>1. /\ pc[a] = "stopGrab" /\ pc' = [pc EXCEPT ![a] = "stopCancel"]
        /\ grabbed' = [grabbed EXCEPT ![a] = listener]
        /\ UNCHANGED nw
    BY <1>4 DEF StopGrab, Goto, network
  <2>2. ASSUME NEW l \in Task, Open(l)'  PROVE Reachable(l)'
    <3>1. Open(l)
      BY <2>1, <2>2 DEF TypeOK, Open
    <3>2. CASE listener = l
      BY <2>1, <3>2 DEF TypeOK, Reachable
    <3>3. CASE \E b \in Actor : pc[b] = "stopCancel" /\ grabbed[b] = l
      BY <2>1, <3>3 DEF TypeOK, Reachable
    <3>. QED  BY <3>1, <3>2, <3>3 DEF OpenReachable, Reachable
  <2>. QED  BY <2>2 DEF OpenReachable
<1>5. ASSUME NEW a \in Actor, StopCancel(a)  PROVE OpenReachable'
  <2>1. /\ pc[a] = "stopCancel" /\ pc' = [pc EXCEPT ![a] = "stopMark"]
        /\ grabbed' = [grabbed EXCEPT ![a] = None]
        /\ UNCHANGED listener /\ Cancelled(grabbed[a])
    BY <1>5 DEF StopCancel, Goto
  <2>2. ASSUME NEW l \in Task, Open(l)'  PROVE Reachable(l)'
    <3>1. Open(l) /\ grabbed[a] # l
      BY <2>1, <2>2 DEF TypeOK, Open, Cancelled
    <3>2. CASE listener = l
      BY <2>1, <3>2 DEF Reachable
    <3>3. CASE \E b \in Actor : pc[b] = "stopCancel" /\ grabbed[b] = l
      BY <2>1, <3>1, <3>3 DEF TypeOK, Reachable
    <3>. QED  BY <3>1, <3>2, <3>3 DEF OpenReachable, Reachable
  <2>. QED  BY <2>2 DEF OpenReachable
<1>6. ASSUME NEW a \in Actor, StopMark(a)  PROVE OpenReachable'
  <2>1. PICK label \in {"stopExtras", "abort", "enter"} : Goto(a, label)
    BY <1>6 DEF StopMark
  <2>2. pc[a] = "stopMark" /\ UNCHANGED <<nw, listener, grabbed>>
    BY <1>6 DEF StopMark, network
  <2>. QED  BY <2>1, <2>2, MoveKeepsReachable
<1>7. ASSUME NEW t \in Renamer, Rename(t)  PROVE OpenReachable'
  <2>1. Goto(t, "stopGrab") /\ pc[t] = "unused" /\ UNCHANGED <<nw, listener, grabbed>>
    BY <1>7 DEF Rename, receiver, network
  <2>. QED  BY <2>1, MoveKeepsReachable
<1>8. ASSUME NEW t \in Starter, StartStep(t)  PROVE OpenReachable'
  <2>1. PICK label \in {"enter", "done", "mark", "stopGrab", "recheck", "extras"} : Goto(t, label)
    BY <1>8 DEF StartStep, Begin, CheckGeneration, Abort, MarkListening, Recheck, StartExtras,
                Report
  <2>2. pc[t] # "stopCancel" /\ UNCHANGED <<nw, listener, grabbed>>
    BY <1>8 DEF StartStep, Begin, CheckGeneration, Abort, MarkListening, Recheck, StartExtras,
                Report, receiver, network
  <2>. QED  BY <2>1, <2>2, MoveKeepsReachable
<1>9. ASSUME NEW t \in Starter, ConnectHID(t)  PROVE OpenReachable'
  BY <1>9 DEF ConnectHID, OpenReachable, Open, Reachable, receiver, network
<1>10. ASSUME NEW t \in Task, Enter(t) \/ MarkStarting(t) \/ Resume(t) \/ Fail(t)
       PROVE  OpenReachable'
  <2>1. PICK label \in {"starting", "check", "done", "bind", "failed", "report"} : Goto(t, label)
    BY <1>10 DEF Enter, MarkStarting, Resume, Fail
  <2>2. pc[t] # "stopCancel" /\ UNCHANGED <<nw, listener, grabbed>>
    BY <1>10 DEF Enter, MarkStarting, Resume, Fail, receiver, network
  <2>. QED  BY <2>1, <2>2, MoveKeepsReachable
<1>11. ASSUME NEW t \in Task, Bind(t)  PROVE OpenReachable'
  <2>1. /\ pc[t] = "bind" /\ pc' = [pc EXCEPT ![t] = "listen"]
        /\ listener' = t
        /\ UNCHANGED grabbed /\ Cancelled(listener)
    BY <1>11 DEF Bind, Goto
  <2>2. ASSUME NEW l \in Task, Open(l)'  PROVE Reachable(l)'
    <3>1. CASE l = t
      BY <2>1, <3>1 DEF Reachable
    <3>2. CASE l # t
      <4>1. Open(l) /\ listener # l
        BY <2>1, <2>2, <3>2 DEF TypeOK, Open, Cancelled
      <4>2. \E b \in Actor : pc[b] = "stopCancel" /\ grabbed[b] = l
        BY <4>1 DEF OpenReachable, Reachable
      <4>. QED  BY <2>1, <4>2 DEF TypeOK, Reachable
    <3>. QED  BY <3>1, <3>2
  <2>. QED  BY <2>2 DEF OpenReachable
<1>12. ASSUME NEW t \in Task, Listen(t)  PROVE OpenReachable'
  <2>1. /\ pc[t] = "listen" /\ pc' = [pc EXCEPT ![t] = "await"]
        /\ nw' = [nw EXCEPT ![t] = IF @ = "new" THEN "started" ELSE @]
        /\ UNCHANGED <<listener, grabbed>>
    BY <1>12 DEF Listen, Goto, receiver
  <2>2. ASSUME NEW l \in Task, Open(l)'  PROVE Reachable(l)'
    <3>1. Open(l)
      BY <2>1, <2>2 DEF TypeOK, Open
    <3>. QED  BY <2>1, <3>1 DEF TypeOK, OpenReachable, Reachable
  <2>. QED  BY <2>2 DEF OpenReachable
<1>13. ASSUME NEW t \in Task, ListenerReady(t) \/ ListenerFails(t)  PROVE OpenReachable'
  <2>1. UNCHANGED <<pc, listener, grabbed>>
    BY <1>13 DEF ListenerReady, ListenerFails, receiver
  <2>2. ASSUME NEW l \in Task, Open(l)'  PROVE Open(l)
    BY <1>13, <2>2 DEF TypeOK, Open, ListenerReady, ListenerFails
  <2>. QED  BY <2>1, <2>2, NetworkKeepsReachable
<1>14. CASE TakeUpdate \/ ApplyUpdate \/ UNCHANGED vars
  BY <1>14 DEF OpenReachable, Open, Reachable, TakeUpdate, ApplyUpdate, vars, receiver, network
<1>. QED
  BY <1>1, <1>2, <1>3, <1>4, <1>5, <1>6, <1>7, <1>8, <1>9, <1>10, <1>11, <1>12, <1>13, <1>14
     DEF Next, TaskStep, StopStep

(* Whatever starts, stops and restarts overlap, every advertised listener  *)
(* is the receiver's own or is about to be cancelled.                      *)
THEOREM NoOrphans == Spec => []NoOrphanListener
<1>1. Init => OpenReachable
  BY DEF Init, OpenReachable, Open, Actor, Task
<1>2. TypeOK /\ OpenReachable => NoOrphanListener
  BY DEF OpenReachable, Open, Reachable, NoOrphanListener, Advertised
<1>. QED  BY <1>1, <1>2, TypeInit, TypeStep, ReachableStep, PTL DEF Spec
(***************************************************************************)
(* A guarded start does not outlive the switch                             *)
(***************************************************************************)

(* Actions that leave the network and what it reported alone.              *)
LEMMA QuietKeepsNews ==
  ASSUME BadNewsTrue, UNCHANGED network
  PROVE  BadNewsTrue'
BY DEF BadNewsTrue, Dead, network

(* A listener that died stays dead, and one true report more is no harm.   *)
LEMMA ReportKeepsNews ==
  ASSUME TypeOK, BadNewsTrue, NEW update \in Update,
         callbacks' = Append(callbacks, update),
         update.event # "ready" => update.task \in Dead',
         Dead \subseteq Dead', UNCHANGED <<handling, resumed>>
  PROVE  BadNewsTrue'
<1>1. ASSUME NEW i \in 1..Len(callbacks'), callbacks'[i].event # "ready"
      PROVE  callbacks'[i].task \in Dead'
  <2>. callbacks \in Seq(Update)
    BY DEF TypeOK
  <2>1. CASE i \in 1..Len(callbacks)
    <3>. callbacks'[i] = callbacks[i]
      BY <2>1
    <3>. QED  BY <1>1, <2>1 DEF BadNewsTrue
  <2>2. CASE i = Len(callbacks) + 1
    <3>. callbacks'[i] = update
      BY <2>2
    <3>. QED  BY <1>1
  <2>. QED  BY <2>1, <2>2
<1>. QED  BY <1>1 DEF BadNewsTrue

(* Cancelling a listener tells the truth about it.                         *)
LEMMA CancelKeepsNews ==
  ASSUME TypeOK, BadNewsTrue, NEW l \in Task \cup {None}, Cancelled(l),
         UNCHANGED <<handling, resumed>>
  PROVE  BadNewsTrue'
<1>1. CASE l # None /\ nw[l] # "cancelled"
  <2>. DEFINE update == [task |-> l, event |-> "cancelled"]
  <2>1. update \in Update /\ update.task = l /\ l \in Task
    BY <1>1 DEF Update, Event
  <2>2. nw' = [nw EXCEPT ![l] = "cancelled"] /\ callbacks' = Append(callbacks, update)
    BY <1>1 DEF Cancelled
  <2>3. Dead \subseteq Dead' /\ l \in Dead'
    BY <2>1, <2>2 DEF Dead, TypeOK
  <2>. HIDE DEF update
  <2>. QED  BY <2>1, <2>2, <2>3, ReportKeepsNews
<1>2. CASE ~(l # None /\ nw[l] # "cancelled")
  BY <1>2 DEF Cancelled, BadNewsTrue, Dead
<1>. QED  BY <1>1, <1>2

LEMMA NewsStep ==
  ASSUME TypeOK, BadNewsTrue, [Next]_vars
  PROVE  BadNewsTrue'
<1>1. ASSUME NEW t \in Starter, Launch(t) \/ EnableService(t) \/ StartStep(t) \/ ConnectHID(t)
      PROVE  BadNewsTrue'
  <2>. UNCHANGED network
    BY <1>1 DEF Launch, EnableService, SpawnStart, StartStep, Begin, CheckGeneration, Abort,
                MarkListening, Recheck, StartExtras, Report, ConnectHID
  <2>. QED  BY QuietKeepsNews
<1>2. ASSUME NEW t \in Task, Rename(t) \/ Enter(t) \/ MarkStarting(t) \/ Resume(t) \/ Fail(t)
      PROVE  BadNewsTrue'
  <2>. UNCHANGED network
    BY <1>2 DEF Rename, Enter, MarkStarting, Resume, Fail
  <2>. QED  BY QuietKeepsNews
<1>3. ASSUME NEW a \in Actor, StopGrab(a) \/ StopMark(a)  PROVE BadNewsTrue'
  <2>. UNCHANGED network
    BY <1>3 DEF StopGrab, StopMark
  <2>. QED  BY QuietKeepsNews
<1>4. CASE DisableService \/ StopExtras \/ UNCHANGED vars
  <2>. UNCHANGED network
    BY <1>4 DEF DisableService, StopExtras, vars
  <2>. QED  BY QuietKeepsNews
<1>5. ASSUME NEW a \in Actor, StopCancel(a)  PROVE BadNewsTrue'
  <2>. grabbed[a] \in Task \cup {None}
    BY DEF TypeOK
  <2>. QED  BY <1>5, CancelKeepsNews DEF StopCancel
<1>6. ASSUME NEW t \in Task, Bind(t)  PROVE BadNewsTrue'
  <2>. listener \in Task \cup {None}
    BY DEF TypeOK
  <2>. QED  BY <1>6, CancelKeepsNews DEF Bind
<1>7. ASSUME NEW t \in Task, Listen(t)  PROVE BadNewsTrue'
  <2>. Dead' = Dead
    BY <1>7 DEF Listen, Dead, TypeOK
  <2>. QED  BY <1>7 DEF Listen, BadNewsTrue
<1>8. ASSUME NEW t \in Task, NEW event \in {"ready", "failed"},
             nw[t] \in {"started", "ready"}, nw' = [nw EXCEPT ![t] = event],
             callbacks' = Append(callbacks, [task |-> t, event |-> event]),
             UNCHANGED <<handling, resumed>>
      PROVE  BadNewsTrue'
  <2>. DEFINE update == [task |-> t, event |-> event]
  <2>1. update \in Update /\ update.task = t /\ update.event = event
    BY DEF Update, Event
  <2>2. Dead \subseteq Dead' /\ (event = "failed" => t \in Dead')
    BY <1>8 DEF Dead, TypeOK
  <2>3. callbacks' = Append(callbacks, update)
    BY <1>8
  <2>. HIDE DEF update
  <2>. QED  BY <1>8, <2>1, <2>2, <2>3, ReportKeepsNews
<1>9. ASSUME NEW t \in Task, ListenerReady(t) \/ ListenerFails(t)  PROVE BadNewsTrue'
  BY <1>8, <1>9 DEF ListenerReady, ListenerFails
<1>10. CASE TakeUpdate
  <2>. DEFINE update == Head(callbacks)
  <2>1. /\ callbacks \in Seq(Update) /\ callbacks # <<>>
        /\ callbacks' = Tail(callbacks) /\ update = callbacks[1] /\ 1 \in 1..Len(callbacks)
    BY <1>10 DEF TakeUpdate, TypeOK
  <2>2. update \in Update /\ Dead' = Dead
    BY <1>10, <2>1 DEF TakeUpdate, Dead
  <2>3. update.event # "ready" => update.task \in Dead
    BY <2>1 DEF BadNewsTrue
  <2>4. ASSUME NEW i \in 1..Len(callbacks'), callbacks'[i].event # "ready"
        PROVE  callbacks'[i].task \in Dead
    <3>1. callbacks'[i] = callbacks[i + 1] /\ i + 1 \in 1..Len(callbacks)
      BY <2>1
    <3>. QED  BY <2>4, <3>1 DEF BadNewsTrue
  <2>5. handling' \in {handling, update}
    BY <1>10 DEF TakeUpdate
  <2>6. update.task \in Task
    BY <2>2 DEF Update
  <2>7. ASSUME NEW t \in Task, resumed'[t] # <<>>, resumed'[t][1] = "error"
        PROVE  t \in Dead
    <3>1. CASE resumed'[t] = resumed[t]
      BY <2>7, <3>1 DEF BadNewsTrue
    <3>2. CASE resumed'[t] # resumed[t]
      BY <1>10, <2>3, <3>2 DEF TakeUpdate, ResumeOnce, TypeOK
    <3>. QED  BY <3>1, <3>2
  <2>. HIDE DEF update
  <2>. QED  BY <2>2, <2>3, <2>4, <2>5, <2>7 DEF BadNewsTrue
<1>11. CASE ApplyUpdate
  <2>1. handling \in Update /\ Dead' = Dead /\ handling' = NoUpdate /\ UNCHANGED callbacks
    BY <1>11 DEF ApplyUpdate, TypeOK, Dead
  <2>2. ASSUME NEW t \in Task, resumed'[t] # <<>>, resumed'[t][1] = "error"
        PROVE  t \in Dead
    <3>1. CASE resumed'[t] = resumed[t]
      BY <2>2, <3>1 DEF BadNewsTrue
    <3>2. CASE resumed'[t] # resumed[t]
      <4>1. t = handling.task /\ resumed'[t] = Append(<<>>, IF handling.event = "ready" THEN "ok" ELSE "error")
        BY <1>11, <3>2 DEF ApplyUpdate, ResumeOnce, TypeOK
      <4>2. handling.event # "ready"
        BY <2>2, <4>1
      <4>. QED  BY <1>11, <4>1, <4>2 DEF BadNewsTrue, ApplyUpdate
    <3>. QED  BY <3>1, <3>2
  <2>. QED  BY <2>1, <2>2 DEF BadNewsTrue
<1>. QED
  BY <1>1, <1>2, <1>3, <1>4, <1>5, <1>6, <1>7, <1>9, <1>10, <1>11
     DEF Next, TaskStep, StopStep, Task

(* A step that changes neither the switch nor a listener, and moves an     *)
(* actor which is not the one that guards an open listener, changes        *)
(* nothing about who will stop it.                                         *)
LEMMA MoveKeepsStopped ==
  ASSUME TypeOK, WillBeStopped, NEW a \in Actor, NEW label, Goto(a, label),
         UNCHANGED <<enabled, nw, listener>>,
         pc[a] \notin {"listen", "await", "check", "stopGrab"}, label # "listen"
  PROVE  WillBeStopped'
BY DEF TypeOK, WillBeStopped, Open, Goto, Actor, Task

(* The same when no actor moves.                                           *)
LEMMA StillKeepsStopped ==
  ASSUME WillBeStopped, UNCHANGED <<enabled, listener, pc>>,
         \A l \in Task : Open(l)' => Open(l)
  PROVE  WillBeStopped'
BY DEF WillBeStopped, Task

LEMMA StoppedStep ==
  ASSUME TypeOK, BadNewsTrue, WillBeStopped, [Next]_vars
  PROVE  WillBeStopped'
<1>. USE ActorAssumption DEF Task, Actor
<1>1. ASSUME NEW t \in Starter, Launch(t)  PROVE WillBeStopped'
  <2>. Goto(t, "begin") /\ pc[t] = "unused" /\ UNCHANGED <<enabled, nw, listener>>
    BY <1>1 DEF Launch, SpawnStart, receiver, network
  <2>. QED  BY MoveKeepsStopped
<1>2. ASSUME NEW t \in Starter, EnableService(t)  PROVE WillBeStopped'
  BY <1>2 DEF EnableService, WillBeStopped
<1>3. CASE DisableService
  <2>. pc'[Main] = "stopGrab"
    BY <1>3 DEF DisableService, Goto, TypeOK
  <2>. QED  BY DEF WillBeStopped
<1>4. CASE StopExtras
  <2>. Goto(Main, "idle") /\ pc[Main] = "stopExtras" /\ UNCHANGED <<enabled, nw, listener>>
    BY <1>4 DEF StopExtras, service, receiver, network
  <2>. QED  BY MoveKeepsStopped
<1>5. ASSUME NEW a \in Actor, StopGrab(a)  PROVE WillBeStopped'
  BY <1>5 DEF StopGrab, WillBeStopped
<1>6. ASSUME NEW a \in Actor, StopCancel(a)  PROVE WillBeStopped'
  <2>1. pc' = [pc EXCEPT ![a] = "stopMark"] /\ pc[a] = "stopCancel"
        /\ UNCHANGED <<enabled, listener>> /\ Cancelled(grabbed[a])
    BY <1>6 DEF StopCancel, Goto, service
  <2>2. ASSUME NEW l \in Starter, Open(l)'  PROVE Open(l)
    BY <2>1, <2>2 DEF TypeOK, Open, Cancelled
  <2>. QED  BY <2>1, <2>2 DEF WillBeStopped, TypeOK
<1>7. ASSUME NEW a \in Actor, StopMark(a)  PROVE WillBeStopped'
  <2>1. PICK label \in {"stopExtras", "abort", "enter"} : Goto(a, label)
    BY <1>7 DEF StopMark
  <2>2. pc[a] = "stopMark" /\ UNCHANGED <<enabled, nw, listener>>
    BY <1>7 DEF StopMark, service, network
  <2>. QED  BY <2>1, <2>2, MoveKeepsStopped
<1>8. ASSUME NEW t \in Renamer, Rename(t)  PROVE WillBeStopped'
  <2>. Goto(t, "stopGrab") /\ pc[t] = "unused" /\ UNCHANGED <<enabled, nw, listener>>
    BY <1>8 DEF Rename, service, receiver, network
  <2>. QED  BY MoveKeepsStopped
<1>9. ASSUME NEW t \in Starter, CheckGeneration(t)  PROVE WillBeStopped'
  <2>1. /\ pc' = [pc EXCEPT ![t] = IF Wanted(t) THEN "mark" ELSE "stopGrab"]
        /\ UNCHANGED <<enabled, nw, listener>>
    BY <1>9 DEF CheckGeneration, Goto, service, receiver, network
  <2>2. ~enabled => pc' = [pc EXCEPT ![t] = "stopGrab"]
    BY <2>1 DEF Wanted
  <2>. QED  BY <2>1, <2>2 DEF WillBeStopped, Open, TypeOK
<1>10. ASSUME NEW t \in Starter, StartStep(t), ~CheckGeneration(t)  PROVE WillBeStopped'
  <2>1. PICK label \in {"enter", "done", "recheck", "extras"} : Goto(t, label)
    BY <1>10 DEF StartStep, Begin, Abort, MarkListening, Recheck, StartExtras, Report
  <2>2. pc[t] \in {"begin", "abort", "mark", "recheck", "extras", "report"}
        /\ UNCHANGED <<enabled, nw, listener>>
    BY <1>10 DEF StartStep, Begin, Abort, MarkListening, Recheck, StartExtras, Report,
                 service, receiver, network
  <2>. QED  BY <2>1, <2>2, MoveKeepsStopped
<1>11. ASSUME NEW t \in Starter, ConnectHID(t)  PROVE WillBeStopped'
  BY <1>11 DEF ConnectHID, WillBeStopped, Open, service, receiver, network
<1>12. ASSUME NEW t \in Task, Enter(t) \/ MarkStarting(t) \/ Fail(t)  PROVE WillBeStopped'
  <2>1. PICK label \in {"starting", "check", "done", "bind", "failed", "report"} : Goto(t, label)
    BY <1>12 DEF Enter, MarkStarting, Fail
  <2>2. pc[t] \in {"enter", "starting", "failed"} /\ UNCHANGED <<enabled, nw, listener>>
    BY <1>12 DEF Enter, MarkStarting, Fail, service, receiver, network
  <2>. QED  BY <2>1, <2>2, MoveKeepsStopped
<1>13. ASSUME NEW t \in Task, Resume(t)  PROVE WillBeStopped'
  <2>1. pc[t] = "await" /\ resumed[t] # <<>> /\ UNCHANGED <<enabled, nw, listener>>
    BY <1>13 DEF Resume, service, receiver, network
  <2>2. CASE resumed[t][1] = "error"
    <3>1. pc' = [pc EXCEPT ![t] = "failed"] /\ t \in Dead
      BY <1>13, <2>1, <2>2 DEF Resume, Goto, BadNewsTrue
    <3>2. ~Open(t)'
      BY <2>1, <3>1 DEF Open, Dead, TypeOK
    <3>. QED  BY <2>1, <3>1, <3>2 DEF WillBeStopped, Open, TypeOK
  <2>3. CASE resumed[t][1] # "error"
    <3>1. pc' = [pc EXCEPT ![t] = IF t \in Starter THEN "check" ELSE "done"]
      BY <1>13, <2>3 DEF Resume, Goto
    <3>. QED  BY <2>1, <3>1 DEF WillBeStopped, Open, TypeOK
  <2>. QED  BY <2>2, <2>3
<1>14. ASSUME NEW t \in Task, Bind(t)  PROVE WillBeStopped'
  <2>1. pc'[t] = "listen" /\ listener' = t
    BY <1>14 DEF Bind, Goto, TypeOK
  <2>. QED  BY <2>1 DEF WillBeStopped
<1>15. ASSUME NEW t \in Task, Listen(t)  PROVE WillBeStopped'
  <2>1. /\ pc[t] = "listen" /\ pc' = [pc EXCEPT ![t] = "await"]
        /\ UNCHANGED <<enabled, listener>>
        /\ nw' = [nw EXCEPT ![t] = IF @ = "new" THEN "started" ELSE @]
    BY <1>15 DEF Listen, Goto, service, receiver
  <2>. QED  BY <2>1 DEF WillBeStopped, Open, TypeOK
<1>16. ASSUME NEW t \in Task, ListenerReady(t) \/ ListenerFails(t)  PROVE WillBeStopped'
  <2>1. UNCHANGED <<enabled, pc, listener>>
    BY <1>16 DEF ListenerReady, ListenerFails, service, receiver
  <2>2. ASSUME NEW l \in Task, Open(l)'  PROVE Open(l)
    BY <1>16, <2>2 DEF TypeOK, Open, ListenerReady, ListenerFails
  <2>. QED  BY <2>1, <2>2, StillKeepsStopped
<1>17. CASE TakeUpdate \/ ApplyUpdate \/ UNCHANGED vars
  BY <1>17 DEF WillBeStopped, Open, TakeUpdate, ApplyUpdate, vars, service, receiver, network
<1>. QED
  BY <1>1, <1>2, <1>3, <1>4, <1>5, <1>6, <1>7, <1>8, <1>9, <1>10, <1>11, <1>12, <1>13, <1>14,
     <1>15, <1>16, <1>17 DEF Next, TaskStep, StopStep

LEMMA InvariantInit == Init => IInv
<1>. SUFFICES ASSUME Init PROVE OpenReachable /\ BadNewsTrue /\ WillBeStopped
  BY TypeInit DEF IInv
<1>1. OpenReachable
  BY DEF Init, OpenReachable, Open, Actor, Task
<1>2. BadNewsTrue
  BY DEF Init, BadNewsTrue
<1>3. WillBeStopped
  BY ActorAssumption DEF Init, WillBeStopped, Actor, Task
<1>. QED  BY <1>1, <1>2, <1>3

THEOREM Invariance == Spec => []IInv
BY InvariantInit, TypeStep, ReachableStep, NewsStep, StoppedStep, PTL DEF Spec, IInv

(* With the switch off and every task returned, no guarded start has left  *)
(* its listener advertised, however many starts and renames overlapped.    *)
THEOREM StartsStaySilent == Spec => []GuardedStartsSilent
<1>1. IInv => GuardedStartsSilent
  BY ActorAssumption DEF IInv, OpenReachable, WillBeStopped, Open, Reachable, GuardedStartsSilent, Advertised,
         AtRest, Actor, Task
<1>. QED  BY <1>1, Invariance, PTL
(***************************************************************************)
(* Every start is answered                                                 *)
(***************************************************************************)

(* A task that has not bound its listener: a rename stops before it starts,*)
(* a start only stops after it has waited.                                 *)
Unbound(t) ==
  pc[t] \in {"unused", "begin", "enter", "starting", "bind"} \/ (t \in Renamer /\ pc[t] \in Stopping)

(* A listener is held by the receiver or by one stop(), and not cancelled  *)
(* as long as it is.                                                       *)
HeldOnce ==
  /\ \A t \in Task : listener = t => nw[t] # "cancelled" /\ \A a \in Actor : grabbed[a] # t
  /\ \A t \in Task : \A a \in Actor : grabbed[a] = t =>
       nw[t] # "cancelled" /\ \A b \in Actor : grabbed[b] = t => b = a
  /\ \A t \in Task : Unbound(t) =>
       nw[t] = "new" /\ listener # t /\ \A a \in Actor : grabbed[a] # t

(* What makes WaitsAreAnswered inductive: it holds from the bind on.       *)
Answered(t) ==
  \/ resumed[t] # <<>> \/ handling.task = t
  \/ listener = t /\ (nw[t] \in {"new", "started"} \/ Queued(t, {"ready", "failed"}))
  \/ \E a \in Actor : pc[a] = "stopCancel" /\ grabbed[a] = t
  \/ Queued(t, {"cancelled"})
AnsweredFromBind == \A t \in Task : pc[t] \in {"listen", "await"} => Answered(t)

(* Actors move, but neither bind nor hold a listener by that.              *)
LEMMA MoveKeepsHeld ==
  ASSUME TypeOK, HeldOnce, UNCHANGED <<listener, grabbed, nw>>,
         \A t \in Task : Unbound(t)' => Unbound(t)
  PROVE  HeldOnce'
BY DEF HeldOnce

LEMMA HeldStep ==
  ASSUME TypeOK, HeldOnce, [Next]_vars
  PROVE  HeldOnce'
<1>. USE ActorAssumption DEF Task, Actor
<1>1. ASSUME NEW t \in Starter,
             Launch(t) \/ EnableService(t) \/ StartStep(t) \/ ConnectHID(t)
      PROVE  HeldOnce'
  <2>1. UNCHANGED <<listener, grabbed, nw>>
    BY <1>1 DEF Launch, EnableService, SpawnStart, StartStep, Begin, CheckGeneration, Abort,
                MarkListening, Recheck, StartExtras, Report, ConnectHID, receiver, network
  <2>2. \A l \in Task : Unbound(l)' => Unbound(l)
    BY <1>1 DEF Launch, EnableService, SpawnStart, StartStep, Begin, CheckGeneration, Abort,
                MarkListening, Recheck, StartExtras, Report, ConnectHID, Unbound, Goto, TypeOK, Stopping
  <2>. QED  BY <2>1, <2>2, MoveKeepsHeld
<1>2. ASSUME NEW t \in Task, Enter(t) \/ MarkStarting(t) \/ Resume(t) \/ Fail(t) \/ (t \in Renamer /\ Rename(t))
      PROVE  HeldOnce'
  <2>1. UNCHANGED <<listener, grabbed, nw>>
    BY <1>2 DEF Enter, MarkStarting, Resume, Fail, Rename, receiver, network
  <2>2. \A l \in Task : Unbound(l)' => Unbound(l)
    BY <1>2 DEF Enter, MarkStarting, Resume, Fail, Rename, Unbound, Goto, TypeOK, Stopping
  <2>. QED  BY <2>1, <2>2, MoveKeepsHeld
<1>3. CASE DisableService \/ StopExtras
  <2>1. UNCHANGED <<listener, grabbed, nw>>
    BY <1>3 DEF DisableService, StopExtras, receiver, network
  <2>2. \A l \in Task : Unbound(l)' => Unbound(l)
    BY <1>3 DEF DisableService, StopExtras, Unbound, Goto, TypeOK
  <2>. QED  BY <2>1, <2>2, MoveKeepsHeld
<1>4. ASSUME NEW a \in Actor, StopMark(a)  PROVE HeldOnce'
  <2>1. UNCHANGED <<listener, grabbed, nw>>
    BY <1>4 DEF StopMark, network
  <2>2. \A l \in Task : Unbound(l)' => Unbound(l)
    BY <1>4 DEF StopMark, Unbound, Goto, TypeOK, Stopping
  <2>. QED  BY <2>1, <2>2, MoveKeepsHeld
<1>5. ASSUME NEW a \in Actor, StopGrab(a)  PROVE HeldOnce'
  <2>1. /\ pc[a] = "stopGrab" /\ pc' = [pc EXCEPT ![a] = "stopCancel"]
        /\ grabbed' = [grabbed EXCEPT ![a] = listener] /\ listener' = None /\ UNCHANGED nw
    BY <1>5 DEF StopGrab, Goto, network
  <2>2. \A l \in Task : Unbound(l)' => Unbound(l)
    BY <2>1 DEF Unbound, TypeOK, Stopping
  <2>. QED  BY <2>1, <2>2 DEF HeldOnce, TypeOK
<1>6. ASSUME NEW a \in Actor, StopCancel(a)  PROVE HeldOnce'
  <2>1. /\ pc[a] = "stopCancel" /\ pc' = [pc EXCEPT ![a] = "stopMark"]
        /\ grabbed' = [grabbed EXCEPT ![a] = None] /\ UNCHANGED listener
        /\ \A l \in Task : l # grabbed[a] => nw'[l] = nw[l]
    BY <1>6 DEF StopCancel, Goto, Cancelled, TypeOK
  <2>2. \A l \in Task : Unbound(l)' => Unbound(l)
    BY <2>1 DEF Unbound, TypeOK, Stopping
  <2>. QED  BY <2>1, <2>2 DEF HeldOnce, TypeOK
<1>7. ASSUME NEW t \in Task, Bind(t)  PROVE HeldOnce'
  <2>1. /\ pc[t] = "bind" /\ pc' = [pc EXCEPT ![t] = "listen"]
        /\ listener' = t /\ UNCHANGED grabbed
        /\ \A l \in Task : l # listener => nw'[l] = nw[l]
    BY <1>7 DEF Bind, Goto, Cancelled, TypeOK
  <2>2. Unbound(t) /\ ~Unbound(t)'
    BY <2>1 DEF Unbound, TypeOK, Stopping
  <2>3. \A l \in Task : Unbound(l)' => Unbound(l) /\ l # t
    BY <2>1, <2>2 DEF Unbound, TypeOK
  <2>4. nw'[t] = "new" /\ listener # t /\ \A a \in Actor : grabbed[a] # t
    BY <2>1, <2>2 DEF HeldOnce
  <2>5. ASSUME NEW l \in Task, NEW a \in Actor, grabbed[a] = l
        PROVE  nw'[l] = nw[l]
    BY <2>1, <2>5 DEF HeldOnce
  <2>6. \A l \in Task : Unbound(l)' => nw'[l] = "new" /\ listener' # l /\ \A a \in Actor : grabbed'[a] # l
    BY <2>1, <2>3 DEF HeldOnce
  <2>. QED  BY <2>1, <2>4, <2>5, <2>6 DEF HeldOnce
<1>8. ASSUME NEW t \in Task, Listen(t)  PROVE HeldOnce'
  <2>1. /\ pc[t] = "listen" /\ pc' = [pc EXCEPT ![t] = "await"]
        /\ nw' = [nw EXCEPT ![t] = IF @ = "new" THEN "started" ELSE @]
        /\ UNCHANGED <<listener, grabbed>>
    BY <1>8 DEF Listen, Goto, receiver
  <2>2. ~Unbound(t)' /\ \A l \in Task : Unbound(l)' => Unbound(l)
    BY <2>1 DEF Unbound, TypeOK, Stopping
  <2>. QED  BY <2>1, <2>2 DEF HeldOnce, TypeOK
<1>9. ASSUME NEW t \in Task, ListenerReady(t) \/ ListenerFails(t)  PROVE HeldOnce'
  <2>1. /\ nw[t] \in {"started", "ready"} /\ UNCHANGED <<pc, listener, grabbed>>
        /\ \E state \in {"ready", "failed"} : nw' = [nw EXCEPT ![t] = state]
    BY <1>9 DEF ListenerReady, ListenerFails, receiver
  <2>2. \A l \in Task : Unbound(l)' <=> Unbound(l)
    BY <2>1 DEF Unbound
  <2>. QED  BY <2>1, <2>2 DEF HeldOnce, TypeOK
<1>10. CASE TakeUpdate \/ ApplyUpdate \/ UNCHANGED vars
  <2>1. UNCHANGED <<pc, listener, grabbed, nw>>
    BY <1>10 DEF TakeUpdate, ApplyUpdate, vars, receiver, network
  <2>. QED  BY <2>1, MoveKeepsHeld DEF Unbound
<1>. QED
  BY <1>1, <1>2, <1>3, <1>4, <1>5, <1>6, <1>7, <1>8, <1>9, <1>10 DEF Next, TaskStep, StopStep

(* An update that is queued stays queued when another one is.              *)
LEMMA AppendKeepsQueued ==
  ASSUME TypeOK, NEW t \in Task, NEW events, NEW update \in Update,
         callbacks' = Append(callbacks, update)
  PROVE  /\ Queued(t, events) => Queued(t, events)'
         /\ update.task = t /\ update.event \in events => Queued(t, events)'
<1>1. callbacks \in Seq(Update)
  BY DEF TypeOK
<1>2. /\ DOMAIN callbacks \subseteq DOMAIN callbacks' /\ Len(callbacks) + 1 \in DOMAIN callbacks'
      /\ \A n \in DOMAIN callbacks : callbacks'[n] = callbacks[n]
      /\ callbacks'[Len(callbacks) + 1] = update
  BY <1>1
<1>. QED  BY <1>2 DEF Queued

(* Cancelling queues the last update of what was not cancelled yet.        *)
LEMMA CancelQueues ==
  ASSUME TypeOK, NEW l \in Task \cup {None}, Cancelled(l), NEW t \in Task, NEW events
  PROVE  /\ Queued(t, events) => Queued(t, events)'
         /\ l = t /\ nw[t] # "cancelled" => Queued(t, {"cancelled"})'
<1>1. CASE l # None /\ nw[l] # "cancelled"
  <2>. DEFINE update == [task |-> l, event |-> "cancelled"]
  <2>1. update \in Update /\ update.task = l /\ update.event = "cancelled"
    BY <1>1 DEF Update, Event
  <2>2. callbacks' = Append(callbacks, update)
    BY <1>1 DEF Cancelled
  <2>. HIDE DEF update
  <2>. QED  BY <2>1, <2>2, AppendKeepsQueued
<1>2. CASE ~(l # None /\ nw[l] # "cancelled")
  BY <1>2, ActorAssumption DEF Cancelled, Queued, Actor
<1>. QED  BY <1>1, <1>2

(* Nothing that an answer may come from is touched.                        *)
LEMMA MoveKeepsAnswer ==
  ASSUME TypeOK, AnsweredFromBind, NEW a \in Actor, NEW label, Goto(a, label),
         pc[a] # "stopCancel", label \notin {"listen", "await"},
         UNCHANGED <<listener, grabbed, network>>
  PROVE  AnsweredFromBind'
<1>1. ASSUME NEW t \in Task, pc'[t] \in {"listen", "await"}  PROVE Answered(t)'
  <2>1. pc[t] \in {"listen", "await"}
    BY <1>1 DEF Goto, TypeOK, Actor
  <2>2. Answered(t)
    BY <2>1 DEF AnsweredFromBind
  <2>3. \A b \in Actor : pc[b] = "stopCancel" => pc'[b] = "stopCancel"
    BY DEF Goto, TypeOK
  <2>. QED  BY <2>2, <2>3 DEF Answered, Queued, network
<1>. QED  BY <1>1 DEF AnsweredFromBind

LEMMA AnsweredStep ==
  ASSUME TypeOK, HeldOnce, AnsweredFromBind, [Next]_vars
  PROVE  AnsweredFromBind'
<1>. USE ActorAssumption DEF Task, Actor
<1>1. ASSUME NEW t \in Starter, Launch(t) \/ EnableService(t)  PROVE AnsweredFromBind'
  <2>1. Goto(t, "begin") /\ pc[t] = "unused" /\ UNCHANGED <<listener, grabbed, network>>
    BY <1>1 DEF Launch, EnableService, SpawnStart, receiver
  <2>. QED  BY <2>1, MoveKeepsAnswer
<1>2. ASSUME NEW t \in Starter, StartStep(t)  PROVE AnsweredFromBind'
  <2>1. PICK label \in {"enter", "done", "mark", "stopGrab", "recheck", "extras"} : Goto(t, label)
    BY <1>2 DEF StartStep, Begin, CheckGeneration, Abort, MarkListening, Recheck, StartExtras,
                Report
  <2>2. pc[t] # "stopCancel" /\ UNCHANGED <<listener, grabbed, network>>
    BY <1>2 DEF StartStep, Begin, CheckGeneration, Abort, MarkListening, Recheck, StartExtras,
                Report, receiver
  <2>. QED  BY <2>1, <2>2, MoveKeepsAnswer
<1>3. ASSUME NEW t \in Task, Enter(t) \/ MarkStarting(t) \/ Resume(t) \/ Fail(t) \/ (t \in Renamer /\ Rename(t))
      PROVE  AnsweredFromBind'
  <2>1. PICK label \in {"starting", "check", "done", "bind", "failed", "report", "stopGrab"} : Goto(t, label)
    BY <1>3 DEF Enter, MarkStarting, Resume, Fail, Rename
  <2>2. pc[t] # "stopCancel" /\ UNCHANGED <<listener, grabbed, network>>
    BY <1>3 DEF Enter, MarkStarting, Resume, Fail, Rename, receiver
  <2>. QED  BY <2>1, <2>2, MoveKeepsAnswer
<1>4. CASE DisableService
  <2>1. Goto(Main, "stopGrab") /\ pc[Main] = "idle" /\ UNCHANGED <<listener, grabbed, network>>
    BY <1>4 DEF DisableService, receiver
  <2>. QED  BY <2>1, MoveKeepsAnswer
<1>5. CASE StopExtras
  <2>1. Goto(Main, "idle") /\ pc[Main] = "stopExtras" /\ UNCHANGED <<listener, grabbed, network>>
    BY <1>5 DEF StopExtras, receiver
  <2>. QED  BY <2>1, MoveKeepsAnswer
<1>6. ASSUME NEW a \in Actor, StopMark(a)  PROVE AnsweredFromBind'
  <2>1. PICK label \in {"stopExtras", "abort", "enter"} : Goto(a, label)
    BY <1>6 DEF StopMark
  <2>2. pc[a] = "stopMark" /\ UNCHANGED <<listener, grabbed, network>>
    BY <1>6 DEF StopMark
  <2>. QED  BY <2>1, <2>2, MoveKeepsAnswer
<1>7. ASSUME NEW a \in Actor, StopGrab(a)  PROVE AnsweredFromBind'
  <2>1. /\ pc[a] = "stopGrab" /\ pc' = [pc EXCEPT ![a] = "stopCancel"]
        /\ grabbed' = [grabbed EXCEPT ![a] = listener] /\ UNCHANGED network
    BY <1>7 DEF StopGrab, Goto
  <2>2. ASSUME NEW t \in Task, pc'[t] \in {"listen", "await"}  PROVE Answered(t)'
    <3>1. Answered(t)
      BY <2>1, <2>2 DEF AnsweredFromBind, TypeOK
    <3>2. CASE listener = t
      BY <2>1, <3>2 DEF Answered, TypeOK
    <3>3. CASE \E b \in Actor : pc[b] = "stopCancel" /\ grabbed[b] = t
      BY <2>1, <3>3 DEF Answered, TypeOK
    <3>4. CASE resumed[t] # <<>> \/ handling.task = t \/ Queued(t, {"cancelled"})
      BY <2>1, <3>4 DEF Answered, Queued, network
    <3>. QED  BY <3>1, <3>2, <3>3, <3>4 DEF Answered
  <2>. QED  BY <2>2 DEF AnsweredFromBind
<1>8. ASSUME NEW a \in Actor, StopCancel(a)  PROVE AnsweredFromBind'
  <2>1. /\ pc[a] = "stopCancel" /\ pc' = [pc EXCEPT ![a] = "stopMark"]
        /\ grabbed' = [grabbed EXCEPT ![a] = None] /\ UNCHANGED <<listener, handling, resumed>>
        /\ Cancelled(grabbed[a]) /\ grabbed[a] \in Task \cup {None}
    BY <1>8 DEF StopCancel, Goto, TypeOK
  <2>2. ASSUME NEW t \in Task, pc'[t] \in {"listen", "await"}  PROVE Answered(t)'
    <3>1. Answered(t)
      BY <2>1, <2>2 DEF AnsweredFromBind, TypeOK
    <3>2. CASE grabbed[a] = t
      <4>1. Queued(t, {"cancelled"})'
        BY <2>1, <3>2, CancelQueues DEF HeldOnce
      <4>. QED  BY <4>1 DEF Answered
    <3>3. CASE grabbed[a] # t
      <4>1. nw'[t] = nw[t]
        BY <2>1, <3>3 DEF Cancelled, TypeOK
      <4>2. \A events : Queued(t, events) => Queued(t, events)'
        BY <2>1, CancelQueues
      <4>3. (\E b \in Actor : pc[b] = "stopCancel" /\ grabbed[b] = t)
              => \E b \in Actor : pc'[b] = "stopCancel" /\ grabbed'[b] = t
        BY <2>1, <3>3 DEF TypeOK
      <4>. QED  BY <2>1, <3>1, <4>1, <4>2, <4>3 DEF Answered
    <3>. QED  BY <3>2, <3>3
  <2>. QED  BY <2>2 DEF AnsweredFromBind
<1>9. ASSUME NEW u \in Task, Bind(u)  PROVE AnsweredFromBind'
  <2>1. /\ pc[u] = "bind" /\ pc' = [pc EXCEPT ![u] = "listen"]
        /\ listener' = u /\ UNCHANGED <<grabbed, handling, resumed>>
        /\ Cancelled(listener) /\ listener \in Task \cup {None}
    BY <1>9 DEF Bind, Goto, TypeOK
  <2>2. nw'[u] = "new"
    BY <2>1 DEF HeldOnce, Unbound, Cancelled, TypeOK
  <2>3. ASSUME NEW t \in Task, t # u, pc'[t] \in {"listen", "await"}  PROVE Answered(t)'
    <3>1. Answered(t)
      BY <2>1, <2>3 DEF AnsweredFromBind, TypeOK
    <3>2. CASE listener = t
      <4>1. Queued(t, {"cancelled"})'
        BY <2>1, <3>2, CancelQueues DEF HeldOnce
      <4>. QED  BY <4>1 DEF Answered
    <3>3. CASE listener # t
      <4>1. \A events : Queued(t, events) => Queued(t, events)'
        BY <2>1, CancelQueues
      <4>2. (\E b \in Actor : pc[b] = "stopCancel" /\ grabbed[b] = t)
              => \E b \in Actor : pc'[b] = "stopCancel" /\ grabbed'[b] = t
        BY <2>1 DEF TypeOK
      <4>. QED  BY <2>1, <3>1, <3>3, <4>1, <4>2 DEF Answered
    <3>. QED  BY <3>2, <3>3
  <2>4. Answered(u)'
    BY <2>1, <2>2 DEF Answered
  <2>. QED  BY <2>3, <2>4 DEF AnsweredFromBind
<1>10. ASSUME NEW u \in Task, Listen(u)  PROVE AnsweredFromBind'
  <2>1. /\ pc[u] = "listen" /\ pc' = [pc EXCEPT ![u] = "await"]
        /\ nw' = [nw EXCEPT ![u] = IF @ = "new" THEN "started" ELSE @]
        /\ UNCHANGED <<listener, grabbed, callbacks, handling, resumed>>
    BY <1>10 DEF Listen, Goto, receiver
  <2>2. ASSUME NEW t \in Task, pc'[t] \in {"listen", "await"}  PROVE Answered(t)'
    <3>1. Answered(t)
      BY <2>1, <2>2 DEF AnsweredFromBind, TypeOK
    <3>2. nw[t] \in {"new", "started"} => nw'[t] \in {"new", "started"}
      BY <2>1 DEF TypeOK
    <3>3. \A b \in Actor : pc[b] = "stopCancel" => pc'[b] = "stopCancel"
      BY <2>1 DEF TypeOK
    <3>. QED  BY <2>1, <3>1, <3>2, <3>3 DEF Answered, Queued
  <2>. QED  BY <2>2 DEF AnsweredFromBind
<1>11. ASSUME NEW u \in Task, ListenerReady(u) \/ ListenerFails(u)  PROVE AnsweredFromBind'
  <2>1. PICK event \in {"ready", "failed"} :
          /\ nw' = [nw EXCEPT ![u] = event]
          /\ callbacks' = Append(callbacks, [task |-> u, event |-> event])
    BY <1>11 DEF ListenerReady, ListenerFails
  <2>2. UNCHANGED <<pc, listener, grabbed, handling, resumed>>
    BY <1>11 DEF ListenerReady, ListenerFails, receiver
  <2>. DEFINE update == [task |-> u, event |-> event]
  <2>3. update \in Update /\ update.task = u /\ update.event \in {"ready", "failed"}
    BY DEF Update, Event
  <2>4. callbacks' = Append(callbacks, update)
    BY <2>1
  <2>. HIDE DEF update
  <2>5. Queued(u, {"ready", "failed"})'
    BY <2>3, <2>4, AppendKeepsQueued
  <2>6. ASSUME NEW t \in Task, pc'[t] \in {"listen", "await"}  PROVE Answered(t)'
    <3>1. Answered(t)
      BY <2>2, <2>6 DEF AnsweredFromBind
    <3>2. \A events : Queued(t, events) => Queued(t, events)'
      BY <2>3, <2>4, AppendKeepsQueued
    <3>3. t # u => nw'[t] = nw[t]
      BY <2>1 DEF TypeOK
    <3>. QED  BY <2>2, <2>5, <3>1, <3>2, <3>3 DEF Answered
  <2>. QED  BY <2>6 DEF AnsweredFromBind
<1>12. CASE TakeUpdate
  <2>. DEFINE update == Head(callbacks)
  <2>1. /\ callbacks \in Seq(Update) /\ callbacks # <<>> /\ callbacks' = Tail(callbacks)
        /\ update = callbacks[1] /\ update \in Update /\ handling = NoUpdate
        /\ UNCHANGED <<pc, listener, grabbed, nw>>
    BY <1>12 DEF TakeUpdate, TypeOK, receiver
  <2>2. /\ listener = update.task => handling' = update /\ UNCHANGED resumed
        /\ listener # update.task =>
             /\ handling' = NoUpdate
             /\ update.event # "cancelled" => UNCHANGED resumed
             /\ update.event = "cancelled" => ResumeOnce(update.task, "error")
    BY <1>12 DEF TakeUpdate
  <2>3. \A n \in DOMAIN callbacks : n # 1 =>
          n - 1 \in DOMAIN callbacks' /\ callbacks'[n - 1] = callbacks[n]
    BY <2>1
  <2>. HIDE DEF update
  <2>4. ASSUME NEW t \in Task, resumed[t] # <<>>  PROVE resumed'[t] # <<>>
    BY <2>2, <2>4 DEF ResumeOnce, TypeOK
  <2>5. ASSUME update.event = "cancelled", listener # update.task, update.task \in Task
        PROVE  resumed'[update.task] # <<>>
    BY <2>2, <2>5 DEF ResumeOnce, TypeOK
  <2>6. ASSUME NEW t \in Task, pc'[t] \in {"listen", "await"}  PROVE Answered(t)'
    <3>1. Answered(t) /\ handling.task # t /\ update.task \in Task
      BY <2>1, <2>6 DEF AnsweredFromBind, NoUpdate, Update
    <3>2. CASE update.task = t /\ listener = t
      BY <2>2, <3>2 DEF Answered
    <3>3. CASE update.task = t /\ listener # t /\ update.event = "cancelled"
      BY <2>5, <3>3 DEF Answered
    <3>4. CASE update.task # t \/ (listener # t /\ update.event # "cancelled")
      <4>1. ASSUME NEW events, Queued(t, events), update.task = t => update.event \notin events
            PROVE  Queued(t, events)'
        <5>1. PICK n \in DOMAIN callbacks : callbacks[n].task = t /\ callbacks[n].event \in events
          BY <4>1 DEF Queued
        <5>2. n # 1
          BY <2>1, <4>1, <5>1
        <5>. QED  BY <2>3, <5>1, <5>2 DEF Queued
      <4>2. Queued(t, {"cancelled"}) => Queued(t, {"cancelled"})'
        BY <3>4, <4>1
      <4>3. listener = t /\ Queued(t, {"ready", "failed"}) => Queued(t, {"ready", "failed"})'
        BY <3>4, <4>1
      <4>. QED  BY <2>1, <2>4, <3>1, <4>2, <4>3 DEF Answered
    <3>. QED  BY <3>2, <3>3, <3>4
  <2>. QED  BY <2>6 DEF AnsweredFromBind
<1>13. CASE ApplyUpdate
  <2>1. /\ handling.task \in Task /\ UNCHANGED <<pc, listener, grabbed, nw, callbacks>>
        /\ \E outcome \in {"ok", "error"} : ResumeOnce(handling.task, outcome)
    BY <1>13 DEF ApplyUpdate, TypeOK, Update
  <2>2. ASSUME NEW l \in Task, NEW outcome \in {"ok", "error"}, ResumeOnce(l, outcome)
        PROVE  resumed'[l] # <<>> /\ \A t \in Task : resumed[t] # <<>> => resumed'[t] # <<>>
    <3>1. resumed \in [Task -> Seq({"ok", "error"})]
      BY DEF TypeOK
    <3>2. Append(<<>>, outcome) # <<>>
      OBVIOUS
    <3>3. CASE resumed[l] = <<>>
      <4>1. resumed' = [resumed EXCEPT ![l] = Append(<<>>, outcome)]
        BY <2>2, <3>3 DEF ResumeOnce
      <4>. QED  BY <3>1, <3>2, <4>1
    <3>4. CASE resumed[l] # <<>>
      BY <2>2, <3>4 DEF ResumeOnce
    <3>. QED  BY <3>3, <3>4
  <2>. QED  BY <2>1, <2>2 DEF AnsweredFromBind, Answered, Queued
<1>14. CASE UNCHANGED vars
  BY <1>14 DEF AnsweredFromBind, Answered, Queued, vars, receiver, network
<1>15. ASSUME NEW t \in Starter, ConnectHID(t)  PROVE AnsweredFromBind'
  BY <1>15 DEF ConnectHID, AnsweredFromBind, Answered, Queued, receiver, network
<1>. QED
  BY <1>1, <1>2, <1>3, <1>4, <1>5, <1>6, <1>7, <1>8, <1>9, <1>10, <1>11, <1>12, <1>13, <1>14, <1>15
     DEF Next, TaskStep, StopStep

(* A task comes to its wait by Listen, which has started its listener.     *)
ListenedIsStarted == \A t \in Task : pc[t] = "await" => nw[t] # "new"

LEMMA ListenedStep ==
  ASSUME TypeOK, ListenedIsStarted, [Next]_vars
  PROVE  ListenedIsStarted'
<1>. USE ActorAssumption DEF Task, Actor
<1>1. ASSUME NEW t \in Task, Listen(t)  PROVE ListenedIsStarted'
  <2>1. /\ pc' = [pc EXCEPT ![t] = "await"]
        /\ nw' = [nw EXCEPT ![t] = IF @ = "new" THEN "started" ELSE @]
    BY <1>1 DEF Listen, Goto
  <2>. QED  BY <2>1 DEF ListenedIsStarted, TypeOK
<1>2. ASSUME NEW t \in Task, Bind(t)  PROVE ListenedIsStarted'
  <2>1. /\ pc' = [pc EXCEPT ![t] = "listen"]
        /\ \A l \in Task : nw'[l] = "new" => nw[l] = "new"
    BY <1>2 DEF Bind, Goto, Cancelled, TypeOK
  <2>. QED  BY <2>1 DEF ListenedIsStarted, TypeOK
<1>3. ASSUME NEW a \in Actor, StopCancel(a)  PROVE ListenedIsStarted'
  <2>1. /\ pc' = [pc EXCEPT ![a] = "stopMark"]
        /\ \A l \in Task : nw'[l] = "new" => nw[l] = "new"
    BY <1>3 DEF StopCancel, Goto, Cancelled, TypeOK
  <2>. QED  BY <2>1 DEF ListenedIsStarted, TypeOK
<1>4. ASSUME NEW t \in Task, ListenerReady(t) \/ ListenerFails(t)  PROVE ListenedIsStarted'
  <2>1. UNCHANGED pc /\ \E state \in {"ready", "failed"} : nw' = [nw EXCEPT ![t] = state]
    BY <1>4 DEF ListenerReady, ListenerFails
  <2>. QED  BY <2>1 DEF ListenedIsStarted, TypeOK
<1>5. ASSUME NEW t \in Starter,
             Launch(t) \/ EnableService(t) \/ StartStep(t) \/ ConnectHID(t)
      PROVE  ListenedIsStarted'
  <2>1. UNCHANGED nw
    BY <1>5 DEF Launch, EnableService, SpawnStart, StartStep, Begin, CheckGeneration, Abort,
                MarkListening, Recheck, StartExtras, Report, ConnectHID, network
  <2>2. \A l \in Task : pc'[l] = "await" => pc[l] = "await"
    BY <1>5 DEF Launch, EnableService, SpawnStart, StartStep, Begin, CheckGeneration, Abort,
                MarkListening, Recheck, StartExtras, Report, ConnectHID, Goto, TypeOK
  <2>. QED  BY <2>1, <2>2 DEF ListenedIsStarted
<1>6. ASSUME NEW t \in Task, Enter(t) \/ MarkStarting(t) \/ Resume(t) \/ Fail(t) \/ (t \in Renamer /\ Rename(t))
      PROVE  ListenedIsStarted'
  <2>1. UNCHANGED nw
    BY <1>6 DEF Enter, MarkStarting, Resume, Fail, Rename, network
  <2>2. \A l \in Task : pc'[l] = "await" => pc[l] = "await"
    BY <1>6 DEF Enter, MarkStarting, Resume, Fail, Rename, Goto, TypeOK
  <2>. QED  BY <2>1, <2>2 DEF ListenedIsStarted
<1>7. ASSUME NEW a \in Actor, StopGrab(a) \/ StopMark(a)  PROVE ListenedIsStarted'
  <2>1. UNCHANGED nw /\ \A l \in Task : pc'[l] = "await" => pc[l] = "await"
    BY <1>7 DEF StopGrab, StopMark, Goto, TypeOK, network
  <2>. QED  BY <2>1 DEF ListenedIsStarted
<1>8. CASE DisableService \/ StopExtras
  <2>1. UNCHANGED nw /\ \A l \in Task : pc'[l] = "await" => pc[l] = "await"
    BY <1>8 DEF DisableService, StopExtras, Goto, TypeOK, network
  <2>. QED  BY <2>1 DEF ListenedIsStarted
<1>9. CASE TakeUpdate \/ ApplyUpdate \/ UNCHANGED vars
  BY <1>9 DEF TakeUpdate, ApplyUpdate, vars, network, ListenedIsStarted
<1>. QED
  BY <1>1, <1>2, <1>3, <1>4, <1>5, <1>6, <1>7, <1>8, <1>9 DEF Next, TaskStep, StopStep

(* A task that waits for its listener can count on an answer: no update    *)
(* that is dropped because it came late was the last one it would get.     *)
THEOREM EveryWaitAnswered == Spec => []WaitsAreAnswered
<1>1. Init => HeldOnce /\ AnsweredFromBind /\ ListenedIsStarted
  <2>. SUFFICES ASSUME Init  PROVE HeldOnce /\ AnsweredFromBind /\ ListenedIsStarted
    OBVIOUS
  <2>1. \A t \in Task : pc[t] = "unused" /\ nw[t] = "new" /\ t \in Actor /\ t # None
    BY ActorAssumption DEF Init, Actor
  <2>2. listener = None /\ \A a \in Actor : grabbed[a] = None
    BY DEF Init
  <2>3. HeldOnce
    BY <2>1, <2>2 DEF HeldOnce
  <2>4. AnsweredFromBind /\ ListenedIsStarted
    BY <2>1 DEF AnsweredFromBind, ListenedIsStarted
  <2>. QED  BY <2>3, <2>4
<1>2. TypeOK /\ AnsweredFromBind /\ ListenedIsStarted => WaitsAreAnswered
  BY DEF AnsweredFromBind, ListenedIsStarted, Answered, WaitsAreAnswered
<1>. QED  BY <1>1, <1>2, TypeInit, TypeStep, HeldStep, AnsweredStep, ListenedStep, PTL DEF Spec
=============================================================================
