-------------------------- MODULE HIDReportsProofs --------------------------
(***************************************************************************)
(* Proofs about HIDReports, for any number of mirrored screens and of      *)
(* shortcuts, any number of events and a HID queue of any length.          *)
(***************************************************************************)
EXTENDS HIDReports, SequenceTheorems, TLAPS

-----------------------------------------------------------------------------
(* Sequences                                                               *)

LEMMA Appended ==
  ASSUME NEW S, NEW q \in Seq(S), NEW e \in S
  PROVE  /\ Append(q, e) \in Seq(S) /\ Len(q) \in Nat /\ Len(Append(q, e)) = Len(q) + 1
         /\ \A k \in 1 .. Len(q) : Append(q, e)[k] = q[k]
         /\ Append(q, e)[Len(q) + 1] = e
BY AppendProperties, LenProperties

LEMMA Shortened ==
  ASSUME NEW S, NEW q \in Seq(S), q # <<>>
  PROVE  /\ Head(q) \in S /\ Head(q) = q[1] /\ Len(q) \in Nat \ {0}
         /\ Tail(q) \in Seq(S) /\ Len(Tail(q)) = Len(q) - 1
         /\ \A k \in 1 .. Len(q) - 1 : Tail(q)[k] = q[k + 1]
<1>1. Len(q) \in Nat \ {0}
  BY EmptySeq, LenProperties
<1>2. /\ Head(q) \in S /\ Tail(q) \in Seq(S) /\ Len(Tail(q)) = Len(q) - 1
      /\ \A k \in 1 .. Len(Tail(q)) : Tail(q)[k] = q[k + 1]
  BY HeadTailProperties
<1>3. Head(q) = q[1]
  BY <1>1
<1>. QED  BY <1>1, <1>2, <1>3

(* What "Instead" makes of a plan.                                         *)
LEMMA Replaced ==
  ASSUME NEW S, NEW q \in Seq(S), q # <<>>, NEW what \in Seq(S), NEW n \in Nat, Len(what) = n
  PROVE  /\ what \o Tail(q) \in Seq(S) /\ Len(q) \in Nat \ {0}
         /\ Len(what \o Tail(q)) = n + Len(q) - 1
         /\ \A i \in 1 .. n : (what \o Tail(q))[i] = what[i]
         /\ \A i \in n + 1 .. n + Len(q) - 1 : (what \o Tail(q))[i] = q[i - n + 1]
<1>. DEFINE rest == Tail(q)
<1>1. /\ rest \in Seq(S) /\ Len(q) \in Nat \ {0} /\ Len(rest) = Len(q) - 1
      /\ \A k \in 1 .. Len(q) - 1 : rest[k] = q[k + 1]
  BY Shortened
<1>. HIDE DEF rest
<1>2. /\ what \o rest \in Seq(S) /\ Len(what \o rest) = n + Len(q) - 1
      /\ \A i \in 1 .. n + Len(q) - 1 :
           (what \o rest)[i] = IF i <= n THEN what[i] ELSE rest[i - n]
  <2>1. /\ what \o rest \in Seq(S) /\ Len(what \o rest) = Len(what) + Len(rest)
        /\ \A i \in 1 .. Len(what) + Len(rest) :
             (what \o rest)[i] = IF i <= Len(what) THEN what[i] ELSE rest[i - Len(what)]
    BY <1>1, ConcatProperties
  <2>2. Len(what) + Len(rest) = n + Len(q) - 1
    BY <1>1
  <2>. QED  BY <2>1, <2>2
<1>3. ASSUME NEW i \in n + 1 .. n + Len(q) - 1  PROVE (what \o rest)[i] = q[i - n + 1]
  <2>1. i \in 1 .. n + Len(q) - 1 /\ ~(i <= n) /\ i - n \in 1 .. Len(q) - 1
    BY <1>1
  <2>. QED  BY <1>1, <1>2, <2>1
<1>4. \A i \in 1 .. n : (what \o rest)[i] = what[i]
  <2>1. \A i \in 1 .. n : i \in 1 .. n + Len(q) - 1 /\ i <= n
    BY <1>1
  <2>. QED  BY <1>2, <2>1
<1>5. \A i \in n + 1 .. n + Len(q) - 1 : (what \o rest)[i] = q[i - n + 1]
  BY <1>3
<1>. QED  BY <1>1, <1>2, <1>4, <1>5 DEF rest

-----------------------------------------------------------------------------
(* Types                                                                   *)

LEMMA ItemsTyped ==
  /\ posted \in Nat => \A down \in BOOLEAN : Notification(down) \in Item
  /\ \A kind \in {"subscribed", "unsubscribed", "ready"} : Callback(kind) \in Item
  /\ \A item \in Item : [n |-> item.n, down |-> item.down] \in Report
BY DEF Item, Report, Notification, Callback

LEMMA UpdateTyped ==
  ASSUME NEW list \in Seq(Report), phone \in Report, owed \in BOOLEAN, Update(list)
  PROVE  /\ phone' \in Report /\ pending' \in Seq(Report)
         /\ ready' \in BOOLEAN /\ owed' \in BOOLEAN
<1>1. PICK taken \in 0 .. Len(list) :
        /\ phone' = IF attached /\ taken > 0 THEN list[taken] ELSE phone
        /\ pending' = SubSeq(list, taken + 1, Len(list))
        /\ ready' = (taken = Len(list))
        /\ owed' = (owed \/ taken < Len(list))
  BY DEF Update
<1>2. Len(list) \in Nat /\ \A k \in 1 .. Len(list) : list[k] \in Report
  BY LenProperties, ElementOfSeq
<1>3. phone' \in Report
  BY <1>1, <1>2
<1>4. \A i \in taken + 1 .. Len(list) : list[i] \in Report
  BY <1>2
<1>5. taken + 1 \in Int /\ Len(list) \in Int
  BY <1>2
<1>6. pending' \in Seq(Report)
  BY <1>1, <1>4, <1>5, SubSeqProperties
<1>7. ready' \in BOOLEAN /\ owed' \in BOOLEAN
  BY <1>1
<1>. QED  BY <1>3, <1>6, <1>7

LEMMA PlansTyped ==
  ASSUME TypeOK, [Next]_vars
  PROVE  todo' \in [Actor -> Seq(Words)]
<1>1. todo \in [Actor -> Seq(Words)] /\ Window \subseteq Actor /\ Shortcut \subseteq Actor
  BY DEF TypeOK, Actor
<1>2. /\ <<>> \in Seq(Words) /\ <<"move">> \in Seq(Words) /\ <<"to", "press", "move">> \in Seq(Words)
      /\ <<"to", "release", "finish">> \in Seq(Words) /\ <<"release", "finish">> \in Seq(Words)
      /\ <<"finish">> \in Seq(Words) /\ <<"to", "press", "to", "release">> \in Seq(Words)
      /\ <<"release">> \in Seq(Words) /\ <<"to">> \in Seq(Words) /\ <<"cache", "post">> \in Seq(Words)
  BY DEF Words
<1>3. ASSUME NEW a \in Actor, NEW word, At(a, word), NEW what \in Seq(Words), Instead(a, what)
      PROVE  todo' \in [Actor -> Seq(Words)]
  <2>1. todo[a] # <<>> /\ todo[a] \in Seq(Words) /\ Len(what) \in Nat
    BY <1>1, <1>3, LenProperties DEF At
  <2>2. what \o Tail(todo[a]) \in Seq(Words)
    BY <2>1, Replaced
  <2>. QED  BY <1>1, <1>3, <2>2 DEF Instead
<1>4. ASSUME NEW a \in Actor, NEW words \in Seq(Words), todo' = [todo EXCEPT ![a] = words]
      PROVE  todo' \in [Actor -> Seq(Words)]
  BY <1>1, <1>4
<1>5. ASSUME NEW w \in Window, WindowTask(w)  PROVE todo' \in [Actor -> Seq(Words)]
  BY <1>1, <1>2, <1>3, <1>4, <1>5 DEF WindowTask, RunChanged, HandleMove, RunEnded, Finish, Does
<1>6. ASSUME NEW s \in Shortcut, ShortcutTask(s)  PROVE todo' \in [Actor -> Seq(Words)]
  <2>1. todo' = [todo EXCEPT ![s] = <<"to", "press", "to", "release">>]
        \/ todo' = [todo EXCEPT ![s] = <<>>] \/ todo' = [todo EXCEPT ![s] = <<"release">>]
    BY <1>6 DEF ShortcutTask, StartShortcut, Cancel
  <2>. QED  BY <1>1, <1>2, <1>4, <2>1
<1>7. ASSUME NEW a \in Actor, Send(a)  PROVE todo' \in [Actor -> Seq(Words)]
  <2>1. \E word : At(a, word) /\ (Instead(a, <<>>) \/ Instead(a, <<"cache", "post">>))
    BY <1>7 DEF Send, MoveTo, Press, Release, Cache, Post, Transmit
  <2>. QED  BY <1>2, <1>3, <2>1
<1>8. CASE User \/ Queue \/ CoreBluetooth \/ UNCHANGED vars
  BY <1>1, <1>8 DEF User, Queue, CoreBluetooth, Change, Drag, LetGo, Notify, DidSubscribe,
                    PostBaseline, DidUnsubscribe, IsReady, Subscribe, Unsubscribe, RoomAgain, vars
<1>. QED  BY <1>5, <1>6, <1>7, <1>8 DEF Next

LEMMA HistoryMoves ==
  ASSUME [Next]_vars
  PROVE  /\ missed' = missed \/ missed' \in BOOLEAN
         /\ overtaken' = overtaken \/ overtaken' \in BOOLEAN
<1>. DEFINE Kept ==
              /\ missed' = missed \/ missed' \in BOOLEAN
              /\ overtaken' = overtaken \/ overtaken' \in BOOLEAN
<1>1. ASSUME NEW w \in Window, WindowTask(w)  PROVE Kept
  BY <1>1 DEF WindowTask, RunChanged, HandleMove, RunEnded, Finish, history
<1>2. ASSUME NEW s \in Shortcut, ShortcutTask(s)  PROVE Kept
  BY <1>2 DEF ShortcutTask, StartShortcut, Cancel, history
<1>3. ASSUME NEW a \in Actor, Send(a)  PROVE Kept
  BY <1>3 DEF Send, MoveTo, Press, Release, Cache, Post, history
<1>4. CASE User \/ Queue \/ CoreBluetooth \/ UNCHANGED vars
  BY <1>4 DEF User, Queue, CoreBluetooth, Change, Drag, LetGo, Notify, DidSubscribe,
              PostBaseline, DidUnsubscribe, IsReady, Subscribe, Unsubscribe, RoomAgain,
              history, vars
<1>. QED  BY <1>1, <1>2, <1>3, <1>4 DEF Next

LEMMA SwitchesTyped ==
  ASSUME TypeOK, [Next]_vars
  PROVE  /\ enabled' \in BOOLEAN /\ open' \subseteq Window /\ pressedIn' \in Window \cup {None}
         /\ subscribers' \in BOOLEAN /\ attached' \in BOOLEAN
         /\ missed' \in BOOLEAN /\ overtaken' \in BOOLEAN /\ events' \in 0 .. MaxEvents
<1>1. /\ enabled \in BOOLEAN /\ open \subseteq Window /\ pressedIn \in Window \cup {None}
      /\ subscribers \in BOOLEAN /\ attached \in BOOLEAN
      /\ missed \in BOOLEAN /\ overtaken \in BOOLEAN /\ events \in 0 .. MaxEvents
  BY DEF TypeOK
<1>. DEFINE Changes ==
              /\ enabled' = enabled \/ enabled' = ~enabled
              /\ open' = open \/ \E w \in open : open' = open \ {w}
              /\ pressedIn' = pressedIn \/ pressedIn' \in Window \cup {None}
              /\ subscribers' = subscribers \/ subscribers' \in {TRUE, FALSE}
              /\ attached' = attached \/ attached' \in {TRUE, FALSE}
              /\ events' = events \/ Event
<1>2. ASSUME NEW w \in Window, WindowTask(w)  PROVE Changes
  BY <1>2 DEF WindowTask, RunChanged, HandleMove, RunEnded, Finish, view, queueVars, radio, history
<1>3. ASSUME NEW s \in Shortcut, ShortcutTask(s)  PROVE Changes
  BY <1>3 DEF ShortcutTask, StartShortcut, Cancel, view, queueVars, radio, history
<1>4. ASSUME NEW a \in Actor, Send(a)  PROVE Changes
  BY <1>4 DEF Send, MoveTo, Press, Release, Cache, Post, view, queueVars, radio, history
<1>5. ASSUME Change \/ \E w \in Window : Drag(w) \/ LetGo(w)  PROVE Changes
  BY <1>5 DEF Change, Drag, LetGo, queueVars, radio, history
<1>6. ASSUME Queue  PROVE Changes
  BY <1>6 DEF Queue, Notify, DidSubscribe, PostBaseline, DidUnsubscribe, IsReady, view, radio, history
<1>7. ASSUME CoreBluetooth \/ UNCHANGED vars  PROVE Changes
  BY <1>7 DEF CoreBluetooth, Subscribe, Unsubscribe, RoomAgain, view, queueVars, radio, history, vars
<1>8. Changes
  BY <1>2, <1>3, <1>4, <1>5, <1>6, <1>7 DEF Next, User
<1>9. enabled' \in BOOLEAN /\ subscribers' \in BOOLEAN /\ attached' \in BOOLEAN
  BY <1>1, <1>8
<1>10. missed' \in BOOLEAN /\ overtaken' \in BOOLEAN
  BY <1>1, HistoryMoves
<1>11. open' \subseteq Window /\ pressedIn' \in Window \cup {None}
  BY <1>1, <1>8
<1>12. events' \in 0 .. MaxEvents
  BY <1>1, <1>8, ReportAssumption DEF Event
<1>. QED  BY <1>9, <1>10, <1>11, <1>12

LEMMA GesturesTyped ==
  ASSUME TypeOK, [Next]_vars
  PROVE  /\ accepting' \in [Window -> BOOLEAN] /\ dragging' \in [Window -> BOOLEAN]
         /\ \A w \in Window : accepting'[w] => ~dragging'[w]
         /\ tasks' \in [Window -> Seq({"changed", "ended"})]
<1>1. /\ accepting \in [Window -> BOOLEAN] /\ dragging \in [Window -> BOOLEAN]
      /\ \A w \in Window : accepting[w] => ~dragging[w]
      /\ tasks \in [Window -> Seq({"changed", "ended"})]
  BY DEF TypeOK
<1>. DEFINE Gestures ==
              \/ UNCHANGED <<accepting, dragging>>
              \/ \E w \in Window :
                   accepting' = [accepting EXCEPT ![w] = FALSE] /\ dragging' = [dragging EXCEPT ![w] = TRUE]
              \/ \E w \in Window :
                   accepting' = [accepting EXCEPT ![w] = TRUE] /\ dragging' = [dragging EXCEPT ![w] = FALSE]
<1>. DEFINE Chains ==
              \/ UNCHANGED tasks
              \/ \E w \in Window, e \in {"changed", "ended"} : tasks' = [tasks EXCEPT ![w] = Append(@, e)]
              \/ \E w \in Window : tasks[w] # <<>> /\ tasks' = [tasks EXCEPT ![w] = Tail(@)]
<1>2. ASSUME NEW w \in Window, WindowTask(w)  PROVE Gestures /\ Chains
  BY <1>2 DEF WindowTask, RunChanged, HandleMove, RunEnded, Finish, Begins, view
<1>3. ASSUME NEW s \in Shortcut, ShortcutTask(s)  PROVE Gestures /\ Chains
  BY <1>3 DEF ShortcutTask, StartShortcut, Cancel, view
<1>4. ASSUME NEW a \in Actor, Send(a)  PROVE Gestures /\ Chains
  BY <1>4 DEF Send, MoveTo, Press, Release, Cache, Post, view
<1>5. ASSUME User  PROVE Gestures /\ Chains
  BY <1>5 DEF User, Change, Drag, LetGo
<1>6. ASSUME Queue \/ CoreBluetooth \/ UNCHANGED vars  PROVE Gestures /\ Chains
  BY <1>6 DEF Queue, CoreBluetooth, Notify, DidSubscribe, PostBaseline, DidUnsubscribe, IsReady,
              Subscribe, Unsubscribe, RoomAgain, view, vars
<1>7. Gestures /\ Chains
  BY <1>2, <1>3, <1>4, <1>5, <1>6 DEF Next
<1>. HIDE DEF Gestures, Chains
<1>8. /\ accepting' \in [Window -> BOOLEAN] /\ dragging' \in [Window -> BOOLEAN]
      /\ \A w \in Window : accepting'[w] => ~dragging'[w]
  BY <1>1, <1>7 DEF Gestures
<1>9. tasks' \in [Window -> Seq({"changed", "ended"})]
  <2>1. CASE UNCHANGED tasks
    BY <1>1, <2>1
  <2>2. ASSUME NEW w \in Window, NEW e \in {"changed", "ended"}, tasks' = [tasks EXCEPT ![w] = Append(@, e)]
        PROVE  tasks' \in [Window -> Seq({"changed", "ended"})]
    <3>1. Append(tasks[w], e) \in Seq({"changed", "ended"})
      BY <1>1, Appended
    <3>. QED  BY <1>1, <2>2, <3>1
  <2>3. ASSUME NEW w \in Window, tasks[w] # <<>>, tasks' = [tasks EXCEPT ![w] = Tail(@)]
        PROVE  tasks' \in [Window -> Seq({"changed", "ended"})]
    <3>1. Tail(tasks[w]) \in Seq({"changed", "ended"})
      BY <1>1, <2>3, Shortened
    <3>. QED  BY <1>1, <2>3, <3>1
  <2>. QED  BY <1>7, <2>1, <2>2, <2>3 DEF Chains
<1>. QED  BY <1>8, <1>9

LEMMA ButtonsTyped ==
  ASSUME TypeOK, [Next]_vars
  PROVE  held' \in [Actor -> BOOLEAN] /\ buttons' \in BOOLEAN /\ cached' \in BOOLEAN
<1>1. held \in [Actor -> BOOLEAN] /\ buttons \in BOOLEAN /\ cached \in BOOLEAN
  BY DEF TypeOK
<1>. DEFINE Kept ==
              /\ \/ UNCHANGED held
                 \/ \E a \in Actor, down \in {TRUE, FALSE, buttons} : held' = [held EXCEPT ![a] = down]
              /\ buttons' \in {TRUE, FALSE, buttons}
              /\ cached' = cached \/ \E a \in Actor : cached' = held[a]
<1>2. ASSUME NEW w \in Window, WindowTask(w)  PROVE Kept
  BY <1>2 DEF WindowTask, RunChanged, HandleMove, RunEnded, Finish, transport
<1>3. ASSUME NEW s \in Shortcut, ShortcutTask(s)  PROVE Kept
  BY <1>3 DEF ShortcutTask, StartShortcut, Cancel, transport
<1>4. ASSUME NEW a \in Actor, Send(a)  PROVE Kept
  BY <1>4 DEF Send, MoveTo, Press, Release, Cache, Post, Transmit, transport
<1>5. ASSUME User \/ Queue \/ CoreBluetooth \/ UNCHANGED vars  PROVE Kept
  BY <1>5 DEF User, Change, Drag, LetGo, Queue, CoreBluetooth, Notify, DidSubscribe, PostBaseline,
              DidUnsubscribe, IsReady, Subscribe, Unsubscribe, RoomAgain, transport, vars
<1>6. Kept
  BY <1>2, <1>3, <1>4, <1>5 DEF Next
<1>7. held' \in [Actor -> BOOLEAN]
  BY <1>1, <1>6
<1>8. buttons' \in BOOLEAN
  BY <1>1, <1>6
<1>9. cached' \in BOOLEAN
  BY <1>1, <1>6
<1>. QED  BY <1>7, <1>8, <1>9

LEMMA CountsTyped ==
  ASSUME TypeOK, [Next]_vars
  PROVE  /\ posted' \in Nat /\ base' \in 0 .. posted'
         /\ baseline' \in BOOLEAN \cup {None}
<1>1. posted \in Nat /\ base \in 0 .. posted /\ baseline \in BOOLEAN \cup {None} /\ cached \in BOOLEAN
  BY DEF TypeOK
<1>2. \/ UNCHANGED <<posted, base>>
      \/ posted' = posted + 1 /\ base' \in {base, posted + 1}
      \/ posted' = posted /\ base' = 0
  BY DEF Next, WindowTask, RunChanged, HandleMove, RunEnded, Finish, ShortcutTask, StartShortcut,
         Cancel, Send, MoveTo, Press, Release, Cache, Post, User, Change, Drag, LetGo, Queue,
         CoreBluetooth, Notify, DidSubscribe, PostBaseline, DidUnsubscribe, IsReady, Subscribe,
         Unsubscribe, RoomAgain, history, vars
<1>3. baseline' = baseline \/ baseline' = cached \/ baseline' = None
  BY DEF Next, WindowTask, RunChanged, HandleMove, RunEnded, Finish, ShortcutTask, StartShortcut,
         Cancel, Send, MoveTo, Press, Release, Cache, Post, User, Change, Drag, LetGo, Queue,
         CoreBluetooth, Notify, DidSubscribe, PostBaseline, DidUnsubscribe, IsReady, Subscribe,
         Unsubscribe, RoomAgain, queueVars, vars
<1>4. posted' \in Nat /\ base' \in 0 .. posted'
  BY <1>1, <1>2
<1>5. baseline' \in BOOLEAN \cup {None}
  BY <1>1, <1>3
<1>. QED  BY <1>4, <1>5

-----------------------------------------------------------------------------
(* The HID queue and CoreBluetooth                                         *)

(* A step that leaves the reports on their way alone.                      *)
Idle == UNCHANGED <<hidQueue, queueVars, radio, posted, base>>

LEMMA ReportSteps ==
  ASSUME [Next]_vars
  PROVE  \/ Idle
         \/ \E a \in Actor : Post(a)
         \/ Queue \/ CoreBluetooth
BY DEF Next, WindowTask, RunChanged, HandleMove, RunEnded, Finish, ShortcutTask, StartShortcut,
       Cancel, Send, MoveTo, Press, Release, Cache, User, Change, Drag, LetGo, history, vars, Idle

LEMMA ReportsTyped ==
  ASSUME TypeOK, [Next]_vars
  PROVE  /\ hidQueue' \in Seq(Item) /\ ready' \in BOOLEAN /\ pending' \in Seq(Report)
         /\ owed' \in BOOLEAN /\ phone' \in Report
<1>1. /\ hidQueue \in Seq(Item) /\ ready \in BOOLEAN /\ pending \in Seq(Report)
      /\ owed \in BOOLEAN /\ phone \in Report /\ posted \in Nat /\ baseline \in BOOLEAN \cup {None}
      /\ held \in [Actor -> BOOLEAN] /\ NoReport \in Report
  BY DEF TypeOK, NoReport, Report
<1>2. ASSUME NEW down \in BOOLEAN, hidQueue' = Append(hidQueue, Notification(down))
      PROVE  hidQueue' \in Seq(Item)
  BY <1>1, <1>2, ItemsTyped, Appended
<1>3. ASSUME NEW kind \in {"subscribed", "unsubscribed", "ready"}, hidQueue' = Append(hidQueue, Callback(kind))
      PROVE  hidQueue' \in Seq(Item)
  BY <1>1, <1>3, ItemsTyped, Appended
<1>4. ASSUME NEW kind, Turn(kind), hidQueue' = Tail(hidQueue)
      PROVE  hidQueue' \in Seq(Item) /\ [n |-> Head(hidQueue).n, down |-> Head(hidQueue).down] \in Report
  BY <1>1, <1>4, ItemsTyped, Shortened DEF Turn
<1>5. CASE Idle
  BY <1>1, <1>5 DEF Idle, queueVars, radio
<1>6. CASE (\E a \in Actor : Post(a)) \/ PostBaseline
  <2>1. UNCHANGED <<ready, pending, owed, phone>> /\ \E down \in BOOLEAN : hidQueue' = Append(hidQueue, Notification(down))
    BY <1>1, <1>6 DEF Post, PostBaseline, queueVars, radio
  <2>. QED  BY <1>1, <1>2, <2>1
<1>7. CASE CoreBluetooth
  <2>1. /\ UNCHANGED <<ready, pending>> /\ owed' \in {owed, FALSE} /\ phone' \in {phone, NoReport}
        /\ \E kind \in {"subscribed", "unsubscribed", "ready"} : hidQueue' = Append(hidQueue, Callback(kind))
    BY <1>7 DEF CoreBluetooth, Subscribe, Unsubscribe, RoomAgain, queueVars
  <2>. QED  BY <1>1, <1>3, <2>1
<1>8. CASE DidSubscribe \/ DidUnsubscribe
  BY <1>1, <1>4, <1>8 DEF DidSubscribe, DidUnsubscribe, radio
<1>9. CASE Notify
  <2>. DEFINE report == [n |-> Head(hidQueue).n, down |-> Head(hidQueue).down]
  <2>1. hidQueue' \in Seq(Item) /\ report \in Report
    BY <1>4, <1>9 DEF Notify
  <2>2. \/ Update(<<report>>)
        \/ pending' = Append(pending, report) /\ UNCHANGED <<ready, owed, phone>>
        \/ UNCHANGED <<pending, ready, owed, phone>>
    BY <1>9 DEF Notify
  <2>. HIDE DEF report
  <2>3. <<report>> \in Seq(Report) /\ Append(pending, report) \in Seq(Report)
    BY <1>1, <2>1, Appended
  <2>. QED  BY <1>1, <2>1, <2>2, <2>3, UpdateTyped
<1>10. CASE IsReady
  <2>1. \/ Update(pending)
        \/ ready' = TRUE /\ pending' = <<>> /\ UNCHANGED <<owed, phone>>
    BY <1>10 DEF IsReady
  <2>2. hidQueue' \in Seq(Item)
    BY <1>4, <1>10 DEF IsReady
  <2>3. <<>> \in Seq(Report)
    OBVIOUS
  <2>. QED  BY <1>1, <2>1, <2>2, <2>3, UpdateTyped
<1>. QED  BY <1>5, <1>6, <1>7, <1>8, <1>9, <1>10, ReportSteps DEF Queue

LEMMA TypesInit == Init => TypeOK
<1>. SUFFICES ASSUME Init  PROVE TypeOK
  OBVIOUS
<1>1. /\ <<>> \in Seq({"changed", "ended"}) /\ <<>> \in Seq(Words) /\ <<>> \in Seq(Item)
      /\ <<>> \in Seq(Report)
  OBVIOUS
<1>2. phone \in Report /\ events \in 0 .. MaxEvents /\ posted \in Nat /\ base \in 0 .. posted
  BY ReportAssumption DEF Init, Report
<1>3. /\ accepting \in [Window -> BOOLEAN] /\ dragging \in [Window -> BOOLEAN]
      /\ \A w \in Window : accepting[w] => ~dragging[w]
      /\ tasks \in [Window -> Seq({"changed", "ended"})]
  BY <1>1 DEF Init
<1>4. todo \in [Actor -> Seq(Words)] /\ held \in [Actor -> BOOLEAN]
  BY <1>1 DEF Init
<1>. QED  BY <1>1, <1>2, <1>3, <1>4 DEF Init, TypeOK

LEMMA TypesStep ==
  ASSUME TypeOK, [Next]_vars
  PROVE  TypeOK'
BY SwitchesTyped, GesturesTyped, PlansTyped, ButtonsTyped, CountsTyped, ReportsTyped DEF TypeOK

(* Every variable of the gestures, of the transport and of the HID queue   *)
(* holds what the code may put there; in particular a window that accepts  *)
(* a gesture has no drag left from the one before.                         *)
THEOREM ReportTypes == Spec => []TypeOK
BY TypesInit, TypesStep, PTL DEF Spec

-----------------------------------------------------------------------------
(* Reports arrive                                                          *)

(* Numbers grow, and only what has been posted has one.                    *)
NumbersPosted ==
  /\ phone.n <= posted
  /\ \A k \in 1 .. Len(pending) : pending[k].n <= posted
  /\ \A k \in 1 .. Len(hidQueue) : IsReport(k) => hidQueue[k].n <= posted

ArriveInv == ReportsArrive /\ NumbersPosted

(* InOrder of any reports that wait and of any queue.                      *)
OrderedFrom(got, list, queue) ==
  /\ \A k \in 1 .. Len(list) :
       /\ got < list[k].n
       /\ \A j \in 1 .. k - 1 : list[j].n < list[k].n
  /\ \A k \in 1 .. Len(queue) : queue[k].kind = "report" =>
       /\ got < queue[k].n
       /\ \A j \in 1 .. Len(list) : list[j].n < queue[k].n
       /\ \A j \in 1 .. k - 1 : queue[j].kind = "report" => queue[j].n < queue[k].n

LEMMA Numbered ==
  /\ \A list \in Seq(Report) : Len(list) \in Nat /\ \A k \in 1 .. Len(list) : list[k] \in Report /\ list[k].n \in Nat
  /\ \A queue \in Seq(Item) : Len(queue) \in Nat /\ \A k \in 1 .. Len(queue) : queue[k] \in Item /\ queue[k].n \in Nat
  /\ \A report \in Report : report.n \in Nat
<1>1. (\A report \in Report : report.n \in Nat) /\ \A item \in Item : item.n \in Nat
  BY DEF Report, Item
<1>. QED  BY <1>1, LenProperties, ElementOfSeq

LEMMA OrderAppended ==
  ASSUME NEW got \in Nat, NEW list \in Seq(Report), NEW queue \in Seq(Item), NEW item \in Item,
         OrderedFrom(got, list, queue),
         item.kind = "report" =>
           /\ got < item.n
           /\ \A k \in 1 .. Len(list) : list[k].n < item.n
           /\ \A k \in 1 .. Len(queue) : queue[k].kind = "report" => queue[k].n < item.n
  PROVE  OrderedFrom(got, list, Append(queue, item))
<1>. DEFINE longer == Append(queue, item)
<1>1. /\ Len(queue) \in Nat /\ Len(longer) = Len(queue) + 1
      /\ \A k \in 1 .. Len(queue) : longer[k] = queue[k]
      /\ longer[Len(queue) + 1] = item
  BY Appended
<1>. HIDE DEF longer
<1>2. ASSUME NEW k \in 1 .. Len(longer), longer[k].kind = "report"
      PROVE  /\ got < longer[k].n
             /\ \A j \in 1 .. Len(list) : list[j].n < longer[k].n
             /\ \A j \in 1 .. k - 1 : longer[j].kind = "report" => longer[j].n < longer[k].n
  <2>1. CASE k = Len(queue) + 1
    <3>1. \A j \in 1 .. k - 1 : j \in 1 .. Len(queue) /\ longer[j] = queue[j]
      BY <1>1, <2>1
    <3>. QED  BY <1>1, <1>2, <2>1, <3>1
  <2>2. CASE k # Len(queue) + 1
    <3>1. k \in 1 .. Len(queue) /\ longer[k] = queue[k]
      BY <1>1, <2>2
    <3>2. \A j \in 1 .. k - 1 : longer[j] = queue[j]
      BY <1>1, <3>1
    <3>. QED  BY <1>2, <3>1, <3>2 DEF OrderedFrom
  <2>. QED  BY <2>1, <2>2
<1>3. OrderedFrom(got, list, longer)
  BY <1>2 DEF OrderedFrom
<1>. QED  BY <1>3 DEF longer

LEMMA OrderShortened ==
  ASSUME NEW got \in Nat, NEW list \in Seq(Report), NEW queue \in Seq(Item), queue # <<>>,
         OrderedFrom(got, list, queue)
  PROVE  OrderedFrom(got, list, Tail(queue))
<1>. DEFINE shorter == Tail(queue)
<1>1. /\ Len(queue) \in Nat \ {0} /\ Len(shorter) = Len(queue) - 1
      /\ \A k \in 1 .. Len(queue) - 1 : shorter[k] = queue[k + 1]
  BY Shortened
<1>. HIDE DEF shorter
<1>2. \A k \in 1 .. Len(shorter) : k + 1 \in 1 .. Len(queue) /\ shorter[k] = queue[k + 1]
  BY <1>1
<1>3. \A k \in 1 .. Len(shorter), j \in 1 .. Len(queue) :
        j \in 1 .. k - 1 => j + 1 \in 1 .. (k + 1) - 1 /\ shorter[j] = queue[j + 1]
  BY <1>1
<1>4. \A k \in 1 .. Len(shorter) : \A j \in 1 .. k - 1 : j \in 1 .. Len(queue)
  BY <1>1
<1>5. OrderedFrom(got, list, shorter)
  BY <1>2, <1>3, <1>4 DEF OrderedFrom
<1>. QED  BY <1>5 DEF shorter

(* The report at the head of the queue is put behind those that wait.      *)
LEMMA OrderTaken ==
  ASSUME NEW got \in Nat, NEW list \in Seq(Report), NEW queue \in Seq(Item), queue # <<>>,
         OrderedFrom(got, list, queue), queue[1].kind = "report",
         NEW report \in Report, report.n = queue[1].n
  PROVE  OrderedFrom(got, Append(list, report), Tail(queue))
<1>. DEFINE longer == Append(list, report)
            shorter == Tail(queue)
<1>1. /\ Len(list) \in Nat /\ Len(longer) = Len(list) + 1
      /\ \A k \in 1 .. Len(list) : longer[k] = list[k]
      /\ longer[Len(list) + 1] = report
  BY Appended
<1>2. /\ Len(queue) \in Nat \ {0} /\ Len(shorter) = Len(queue) - 1
      /\ \A k \in 1 .. Len(queue) - 1 : shorter[k] = queue[k + 1]
  BY Shortened
<1>3. OrderedFrom(got, list, shorter)
  BY OrderShortened
<1>. HIDE DEF longer, shorter
<1>4. 1 \in 1 .. Len(queue)
  BY <1>2
<1>5. got < report.n /\ \A j \in 1 .. Len(list) : list[j].n < report.n
  BY <1>4 DEF OrderedFrom
<1>6. \A k \in 1 .. Len(shorter) : shorter[k].kind = "report" => report.n < shorter[k].n
  <2>1. \A k \in 1 .. Len(shorter) : k + 1 \in 1 .. Len(queue) /\ 1 \in 1 .. (k + 1) - 1 /\ shorter[k] = queue[k + 1]
    BY <1>2
  <2>. QED  BY <2>1 DEF OrderedFrom
<1>7. ASSUME NEW k \in 1 .. Len(longer)
      PROVE  got < longer[k].n /\ \A j \in 1 .. k - 1 : longer[j].n < longer[k].n
  <2>1. CASE k = Len(list) + 1
    <3>1. \A j \in 1 .. k - 1 : j \in 1 .. Len(list) /\ longer[j] = list[j]
      BY <1>1, <2>1
    <3>. QED  BY <1>1, <1>5, <2>1, <3>1
  <2>2. CASE k # Len(list) + 1
    <3>1. k \in 1 .. Len(list) /\ longer[k] = list[k]
      BY <1>1, <2>2
    <3>2. \A j \in 1 .. k - 1 : longer[j] = list[j]
      BY <1>1, <3>1
    <3>. QED  BY <3>1, <3>2 DEF OrderedFrom
  <2>. QED  BY <2>1, <2>2
<1>8. ASSUME NEW k \in 1 .. Len(shorter), shorter[k].kind = "report", NEW j \in 1 .. Len(longer)
      PROVE  longer[j].n < shorter[k].n
  <2>1. CASE j = Len(list) + 1
    BY <1>1, <1>6, <1>8, <2>1
  <2>2. CASE j # Len(list) + 1
    <3>1. j \in 1 .. Len(list) /\ longer[j] = list[j]
      BY <1>1, <2>2
    <3>. QED  BY <1>3, <1>8, <3>1 DEF OrderedFrom
  <2>. QED  BY <2>1, <2>2
<1>9. OrderedFrom(got, longer, shorter)
  BY <1>3, <1>7, <1>8 DEF OrderedFrom
<1>. QED  BY <1>9 DEF longer, shorter

(* CoreBluetooth takes some of the reports for the phone, the first ones.  *)
LEMMA UpdateMoves ==
  ASSUME TypeOK, NEW list \in Seq(Report), NEW queue \in Seq(Item), Update(list),
         OrderedFrom(phone.n, list, queue)
  PROVE  /\ OrderedFrom(phone'.n, pending', queue)
         /\ (ready' /\ pending' = <<>>) \/ (~ready' /\ owed')
         /\ attached => /\ phone.n <= phone'.n
                        /\ \A k \in 1 .. Len(list) :
                             \/ list[k].n <= phone'.n
                             \/ \E j \in 1 .. Len(pending') : pending'[j].n = list[k].n
         /\ phone' = phone \/ \E k \in 1 .. Len(list) : phone' = list[k]
         /\ \A j \in 1 .. Len(pending') : \E k \in 1 .. Len(list) : pending'[j] = list[k]
<1>1. PICK taken \in 0 .. Len(list) :
        /\ attached \/ taken = Len(list)
        /\ phone' = IF attached /\ taken > 0 THEN list[taken] ELSE phone
        /\ pending' = SubSeq(list, taken + 1, Len(list))
        /\ ready' = (taken = Len(list))
        /\ owed' = (owed \/ taken < Len(list))
  BY DEF Update
<1>2. /\ Len(list) \in Nat /\ taken \in Nat /\ taken <= Len(list) /\ phone \in Report
      /\ \A k \in 1 .. Len(list) : list[k] \in Report /\ list[k].n \in Nat
      /\ phone.n \in Nat
  BY Numbered DEF TypeOK
<1>3. /\ Len(pending') = Len(list) - taken
      /\ \A j \in 1 .. Len(list) - taken : pending'[j] = list[taken + j]
  <2>1. taken + 1 \in Int /\ Len(list) \in Int /\ \A i \in taken + 1 .. Len(list) : list[i] \in Report
    BY <1>2
  <2>2. /\ Len(pending') = IF taken + 1 <= Len(list) THEN Len(list) - (taken + 1) + 1 ELSE 0
        /\ \A i \in 1 .. Len(list) - (taken + 1) + 1 : pending'[i] = list[taken + 1 + i - 1]
    BY <1>1, <2>1, SubSeqProperties
  <2>3. Len(pending') = Len(list) - taken
    BY <1>2, <2>2
  <2>4. ASSUME NEW j \in 1 .. Len(list) - taken  PROVE pending'[j] = list[taken + j]
    <3>1. j \in 1 .. Len(list) - (taken + 1) + 1 /\ taken + 1 + j - 1 = taken + j
      BY <1>2
    <3>. QED  BY <2>2, <3>1
  <2>. QED  BY <2>3, <2>4
<1>4. \A j \in 1 .. Len(pending') : taken + j \in 1 .. Len(list) /\ pending'[j] = list[taken + j]
  BY <1>2, <1>3
<1>5. taken > 0 => taken \in 1 .. Len(list)
  BY <1>2
<1>6. phone' = phone \/ \E k \in 1 .. Len(list) : phone' = list[k]
  BY <1>1, <1>5
<1>7. \A j \in 1 .. Len(pending') : \E k \in 1 .. Len(list) : pending'[j] = list[k]
  BY <1>4
<1>8. (ready' /\ pending' = <<>>) \/ (~ready' /\ owed')
  <2>1. CASE taken = Len(list)
    <3>1. Len(list) < taken + 1 /\ taken + 1 \in Int /\ Len(list) \in Int
      BY <1>2, <2>1
    <3>2. pending' = <<>>
      BY <1>1, <3>1, SubSeqEmpty
    <3>. QED  BY <1>1, <2>1, <3>2
  <2>2. CASE taken # Len(list)
    <3>1. taken < Len(list)
      BY <1>2, <2>2
    <3>. QED  BY <1>1, <2>2, <3>1
  <2>. QED  BY <2>1, <2>2
<1>9. CASE attached /\ taken > 0
  <2>1. phone' = list[taken] /\ taken \in 1 .. Len(list)
    BY <1>1, <1>5, <1>9
  <2>2. phone.n < phone'.n /\ \A j \in 1 .. taken - 1 : list[j].n < phone'.n
    BY <2>1 DEF OrderedFrom
  <2>3. ASSUME NEW j \in 1 .. Len(pending')
        PROVE  phone'.n < pending'[j].n /\ \A i \in 1 .. j - 1 : pending'[i].n < pending'[j].n
    <3>1. /\ taken + j \in 1 .. Len(list) /\ pending'[j] = list[taken + j]
          /\ taken \in 1 .. (taken + j) - 1
      BY <1>2, <1>4, <2>1
    <3>2. \A i \in 1 .. j - 1 : taken + i \in 1 .. (taken + j) - 1 /\ i \in 1 .. Len(pending')
      BY <1>2, <1>3, <2>1
    <3>. QED  BY <1>4, <2>1, <3>1, <3>2 DEF OrderedFrom
  <2>4. \A k \in 1 .. Len(queue) : queue[k].kind = "report" =>
          /\ phone'.n < queue[k].n
          /\ \A j \in 1 .. Len(pending') : pending'[j].n < queue[k].n
    BY <1>4, <2>1 DEF OrderedFrom
  <2>5. OrderedFrom(phone'.n, pending', queue)
    BY <2>3, <2>4 DEF OrderedFrom
  <2>6. ASSUME NEW k \in 1 .. Len(list)
        PROVE  list[k].n <= phone'.n \/ \E j \in 1 .. Len(pending') : pending'[j].n = list[k].n
    <3>1. CASE k <= taken
      <4>1. k = taken \/ k \in 1 .. taken - 1
        BY <1>2, <3>1
      <4>. QED  BY <1>2, <2>1, <2>2, <4>1
    <3>2. CASE ~(k <= taken)
      <4>1. k - taken \in 1 .. Len(pending') /\ taken + (k - taken) = k
        BY <1>2, <1>3, <3>2
      <4>. QED  BY <1>4, <4>1
    <3>. QED  BY <3>1, <3>2
  <2>7. phone.n <= phone'.n
    BY <1>2, <2>1, <2>2
  <2>. QED  BY <1>6, <1>7, <1>8, <2>5, <2>6, <2>7
<1>10. CASE ~(attached /\ taken > 0)
  <2>1. phone' = phone
    BY <1>1, <1>10
  <2>2. ASSUME NEW j \in 1 .. Len(pending')
        PROVE  phone.n < pending'[j].n /\ \A i \in 1 .. j - 1 : pending'[i].n < pending'[j].n
    <3>1. taken + j \in 1 .. Len(list) /\ pending'[j] = list[taken + j]
      BY <1>4
    <3>2. \A i \in 1 .. j - 1 : taken + i \in 1 .. (taken + j) - 1 /\ i \in 1 .. Len(pending')
      BY <1>2, <1>3
    <3>. QED  BY <1>4, <3>1, <3>2 DEF OrderedFrom
  <2>3. \A k \in 1 .. Len(queue) : queue[k].kind = "report" =>
          \A j \in 1 .. Len(pending') : pending'[j].n < queue[k].n
    BY <1>4 DEF OrderedFrom
  <2>4. OrderedFrom(phone'.n, pending', queue)
    BY <2>1, <2>2, <2>3 DEF OrderedFrom
  <2>5. attached => \A k \in 1 .. Len(list) : \E j \in 1 .. Len(pending') : pending'[j].n = list[k].n
    <3>1. ASSUME attached, NEW k \in 1 .. Len(list)
          PROVE  \E j \in 1 .. Len(pending') : pending'[j].n = list[k].n
      <4>1. taken = 0
        BY <1>2, <1>10, <3>1
      <4>2. k \in 1 .. Len(pending') /\ taken + k = k
        BY <1>2, <1>3, <4>1
      <4>. QED  BY <1>4, <4>2
    <3>. QED  BY <3>1
  <2>6. phone.n <= phone'.n
    BY <1>2, <2>1
  <2>. QED  BY <1>6, <1>7, <1>8, <2>4, <2>5, <2>6
<1>. QED  BY <1>9, <1>10

(* The head of the queue, when it is a callback's or a report's turn.      *)
LEMMA HeadOfQueue ==
  ASSUME TypeOK, NEW kind, Turn(kind)
  PROVE  /\ hidQueue # <<>> /\ Head(hidQueue) = hidQueue[1] /\ hidQueue[1].kind = kind
         /\ 1 \in 1 .. Len(hidQueue) /\ hidQueue[1] \in Item
         /\ [n |-> hidQueue[1].n, down |-> hidQueue[1].down] \in Report
<1>1. hidQueue # <<>> /\ Head(hidQueue).kind = kind /\ hidQueue \in Seq(Item)
  BY DEF Turn, TypeOK
<1>2. Head(hidQueue) \in Item /\ Head(hidQueue) = hidQueue[1] /\ Len(hidQueue) \in Nat \ {0}
  BY <1>1, Shortened
<1>. QED  BY <1>1, <1>2, ItemsTyped

(* A step of the queue that gives reports to CoreBluetooth gives those     *)
(* that wait and, in Notify, the one at the head behind them.              *)
Given(list) ==
  \/ list = pending
  \/ Turn("report") /\ list = Append(pending, [n |-> hidQueue[1].n, down |-> hidQueue[1].down])

LEMMA GivenSteps ==
  ASSUME TypeOK, WakeUpComes, Notify \/ IsReady
  PROVE  /\ Turn("report") \/ Turn("ready")
         /\ hidQueue' = Tail(hidQueue) /\ UNCHANGED <<subscribers, attached, posted, base, baseline>>
         /\ \/ ~subscribers /\ Turn("report") /\ UNCHANGED <<pending, ready, owed, phone>>
            \/ ~subscribers /\ Turn("ready") /\ ready' = TRUE /\ pending' = <<>> /\ UNCHANGED <<owed, phone>>
            \/ subscribers /\ \E list \in Seq(Report) :
                 /\ Given(list)
                 /\ Turn("report") => list # pending
                 /\ \/ Update(list)
                    \/ Turn("report") /\ pending' = list /\ ~ready /\ UNCHANGED <<ready, owed, phone>>
<1>. DEFINE report == [n |-> hidQueue[1].n, down |-> hidQueue[1].down]
<1>1. CASE Notify
  <2>1. Turn("report") /\ hidQueue' = Tail(hidQueue)
    BY <1>1 DEF Notify
  <2>2. Head(hidQueue) = hidQueue[1] /\ report \in Report /\ pending \in Seq(Report)
    BY <2>1, HeadOfQueue DEF TypeOK
  <2>3. Append(pending, report) \in Seq(Report) /\ Len(Append(pending, report)) = Len(pending) + 1
        /\ Len(pending) \in Nat
    BY <2>2, Appended
  <2>4. Given(Append(pending, report)) /\ Append(pending, report) # pending
    BY <2>1, <2>3 DEF Given
  <2>5. \/ subscribers /\ ready /\ Update(<<report>>)
        \/ subscribers /\ ~ready /\ pending' = Append(pending, report) /\ UNCHANGED <<ready, owed, phone>>
        \/ ~subscribers /\ UNCHANGED <<pending, ready, owed, phone>>
    BY <1>1, <2>2 DEF Notify
  <2>6. ready => Append(pending, report) = <<report>>
    <3>1. ready => pending = <<>>
      BY DEF WakeUpComes
    <3>2. Append(<<>>, report) = <<report>>
      OBVIOUS
    <3>. HIDE DEF report
    <3>. QED  BY <3>1, <3>2
  <2>7. UNCHANGED <<subscribers, attached, posted, base, baseline>>
    BY <1>1 DEF Notify, history
  <2>. HIDE DEF report
  <2>. QED  BY <2>1, <2>3, <2>4, <2>5, <2>6, <2>7
<1>2. CASE IsReady
  <2>1. Turn("ready") /\ hidQueue' = Tail(hidQueue) /\ UNCHANGED <<subscribers, attached, posted, base, baseline>>
    BY <1>2 DEF IsReady, history
  <2>2. ~Turn("report")
    BY <2>1 DEF Turn
  <2>3. \/ subscribers /\ Update(pending)
        \/ ~subscribers /\ ready' = TRUE /\ pending' = <<>> /\ UNCHANGED <<owed, phone>>
    BY <1>2 DEF IsReady
  <2>4. Given(pending) /\ pending \in Seq(Report)
    BY DEF Given, TypeOK
  <2>. QED  BY <2>1, <2>2, <2>3, <2>4
<1>. QED  BY <1>1, <1>2

LEMMA GivenOrdered ==
  ASSUME TypeOK, InOrder, NEW list \in Seq(Report), Given(list), hidQueue # <<>>
  PROVE  OrderedFrom(phone.n, list, Tail(hidQueue))
<1>1. OrderedFrom(phone.n, pending, hidQueue)
  BY DEF InOrder, IsReport, OrderedFrom
<1>2. phone.n \in Nat /\ pending \in Seq(Report) /\ hidQueue \in Seq(Item)
  BY Numbered DEF TypeOK
<1>3. CASE list = pending
  BY <1>1, <1>2, <1>3, OrderShortened
<1>4. CASE list # pending
  <2>. DEFINE report == [n |-> hidQueue[1].n, down |-> hidQueue[1].down]
  <2>1. Turn("report") /\ list = Append(pending, report)
    BY <1>4 DEF Given
  <2>2. report \in Report /\ report.n = hidQueue[1].n /\ hidQueue[1].kind = "report"
    BY <2>1, HeadOfQueue
  <2>. HIDE DEF report
  <2>. QED  BY <1>1, <1>2, <2>1, <2>2, OrderTaken
<1>. QED  BY <1>3, <1>4

LEMMA OrderStep ==
  ASSUME TypeOK, ArriveInv, [Next]_vars
  PROVE  InOrder' /\ NumbersPosted'
<1>1. /\ phone \in Report /\ phone.n \in Nat /\ pending \in Seq(Report) /\ hidQueue \in Seq(Item)
      /\ posted \in Nat /\ Len(hidQueue) \in Nat
  BY Numbered DEF TypeOK
<1>2. /\ phone' \in Report /\ phone'.n \in Nat /\ pending' \in Seq(Report) /\ hidQueue' \in Seq(Item)
  BY ReportsTyped, Numbered
<1>3. OrderedFrom(phone.n, pending, hidQueue)
  BY DEF ArriveInv, ReportsArrive, InOrder, IsReport, OrderedFrom
<1>4. InOrder' <=> OrderedFrom(phone'.n, pending', hidQueue')
  BY DEF InOrder, IsReport, OrderedFrom
<1>5. /\ phone.n <= posted /\ \A k \in 1 .. Len(pending) : pending[k].n <= posted
      /\ \A k \in 1 .. Len(hidQueue) : hidQueue[k].kind = "report" => hidQueue[k].n <= posted
  BY DEF ArriveInv, NumbersPosted, IsReport
<1>. DEFINE Bounded(got, list, queue, n) ==
              /\ got <= n /\ \A k \in 1 .. Len(list) : list[k].n <= n
              /\ \A k \in 1 .. Len(queue) : queue[k].kind = "report" => queue[k].n <= n
<1>6. NumbersPosted' <=> Bounded(phone'.n, pending', hidQueue', posted')
  BY DEF NumbersPosted, IsReport
<1>7. CASE Idle
  BY <1>3, <1>4, <1>5, <1>6, <1>7 DEF Idle, queueVars, radio
<1>8. CASE (\E a \in Actor : Post(a)) \/ PostBaseline
  <2>1. PICK item \in Item :
          /\ item.kind = "report" /\ item.n = posted + 1 /\ posted' = posted + 1
          /\ hidQueue' = Append(hidQueue, item) /\ UNCHANGED <<pending, phone>>
    <3>1. PICK down \in BOOLEAN :
            /\ hidQueue' = Append(hidQueue, Notification(down)) /\ posted' = posted + 1
            /\ UNCHANGED <<pending, phone>>
      BY <1>8 DEF Post, PostBaseline, queueVars, radio, TypeOK
    <3>2. Notification(down) \in Item
      BY <1>1, ItemsTyped
    <3>3. Notification(down).kind = "report" /\ Notification(down).n = posted + 1
      BY DEF Notification
    <3>. QED  BY <3>1, <3>2, <3>3
  <2>2. /\ phone.n < item.n /\ \A k \in 1 .. Len(pending) : pending[k].n < item.n
        /\ \A k \in 1 .. Len(hidQueue) : hidQueue[k].kind = "report" => hidQueue[k].n < item.n
    BY <1>1, <1>5, <2>1, Numbered
  <2>3. OrderedFrom(phone.n, pending, hidQueue')
    BY <1>1, <1>3, <2>1, <2>2, OrderAppended
  <2>4. ASSUME NEW k \in 1 .. Len(hidQueue'), hidQueue'[k].kind = "report"
        PROVE  hidQueue'[k].n <= posted'
    <3>1. /\ Len(hidQueue') = Len(hidQueue) + 1 /\ hidQueue'[Len(hidQueue) + 1] = item
          /\ \A j \in 1 .. Len(hidQueue) : hidQueue'[j] = hidQueue[j]
      BY <1>1, <2>1, Appended
    <3>2. k = Len(hidQueue) + 1 \/ k \in 1 .. Len(hidQueue)
      BY <1>1, <3>1
    <3>3. \A j \in 1 .. Len(hidQueue) : hidQueue[j].n \in Nat
      BY <1>1, Numbered
    <3>. QED  BY <1>1, <1>5, <2>1, <2>4, <3>1, <3>2, <3>3
  <2>5. phone.n <= posted + 1 /\ \A k \in 1 .. Len(pending) : pending[k].n <= posted + 1
    BY <1>1, <1>5, Numbered
  <2>. QED  BY <1>4, <1>6, <2>1, <2>3, <2>4, <2>5
<1>9. CASE CoreBluetooth
  <2>1. PICK kind \in {"subscribed", "unsubscribed", "ready"} :
          hidQueue' = Append(hidQueue, Callback(kind))
    BY <1>9 DEF CoreBluetooth, Subscribe, Unsubscribe, RoomAgain
  <2>2. UNCHANGED <<pending, posted>> /\ phone' \in {phone, NoReport}
    BY <1>9 DEF CoreBluetooth, Subscribe, Unsubscribe, RoomAgain, queueVars, history
  <2>3. Callback(kind) \in Item /\ Callback(kind).kind # "report"
    BY ItemsTyped DEF Callback
  <2>4. OrderedFrom(phone'.n, pending, hidQueue) /\ phone'.n <= posted
    <3>1. phone'.n <= phone.n
      BY <1>1, <2>2 DEF NoReport
    <3>2. /\ \A k \in 1 .. Len(pending) : pending[k].n \in Nat
          /\ \A k \in 1 .. Len(hidQueue) : hidQueue[k].n \in Nat
      BY <1>1, Numbered
    <3>. QED  BY <1>1, <1>2, <1>3, <1>5, <3>1, <3>2 DEF OrderedFrom
  <2>5. OrderedFrom(phone'.n, pending', hidQueue')
    BY <1>1, <1>2, <2>1, <2>2, <2>3, <2>4, OrderAppended
  <2>6. \A k \in 1 .. Len(hidQueue') : hidQueue'[k].kind = "report" => hidQueue'[k].n <= posted'
    <3>1. /\ Len(hidQueue') = Len(hidQueue) + 1 /\ hidQueue'[Len(hidQueue) + 1] = Callback(kind)
          /\ \A j \in 1 .. Len(hidQueue) : hidQueue'[j] = hidQueue[j]
      BY <1>1, <2>1, <2>3, Appended
    <3>2. \A k \in 1 .. Len(hidQueue') : k = Len(hidQueue) + 1 \/ k \in 1 .. Len(hidQueue)
      BY <1>1, <3>1
    <3>. QED  BY <1>5, <2>2, <2>3, <3>1, <3>2
  <2>. QED  BY <1>4, <1>5, <1>6, <2>2, <2>4, <2>5, <2>6
<1>10. ASSUME hidQueue # <<>>, hidQueue' = Tail(hidQueue)
       PROVE  \A k \in 1 .. Len(hidQueue') : k + 1 \in 1 .. Len(hidQueue) /\ hidQueue'[k] = hidQueue[k + 1]
  <2>1. /\ Len(hidQueue') = Len(hidQueue) - 1 /\ \A k \in 1 .. Len(hidQueue) - 1 : hidQueue'[k] = hidQueue[k + 1]
    BY <1>1, <1>10, Shortened
  <2>. QED  BY <1>1, <2>1
<1>11. CASE DidSubscribe \/ DidUnsubscribe
  <2>1. hidQueue # <<>> /\ hidQueue' = Tail(hidQueue) /\ UNCHANGED <<pending, phone, posted>>
    BY <1>11 DEF DidSubscribe, DidUnsubscribe, Turn, radio, history
  <2>2. OrderedFrom(phone.n, pending, hidQueue')
    BY <1>1, <1>3, <2>1, OrderShortened
  <2>3. \A k \in 1 .. Len(hidQueue') : hidQueue'[k].kind = "report" => hidQueue'[k].n <= posted
    BY <1>5, <1>10, <2>1
  <2>. QED  BY <1>4, <1>5, <1>6, <2>1, <2>2, <2>3
<1>12. CASE Notify \/ IsReady
  <2>1. /\ Turn("report") \/ Turn("ready")
        /\ hidQueue' = Tail(hidQueue) /\ UNCHANGED posted
        /\ \/ UNCHANGED <<pending, phone>>
           \/ pending' = <<>> /\ UNCHANGED phone
           \/ \E list \in Seq(Report) :
                /\ Given(list) /\ (Update(list) \/ (pending' = list /\ UNCHANGED phone))
    BY <1>12, GivenSteps DEF ArriveInv, ReportsArrive
  <2>2. hidQueue # <<>>
    BY <2>1 DEF Turn
  <2>3. \A k \in 1 .. Len(hidQueue') : hidQueue'[k].kind = "report" => hidQueue'[k].n <= posted
    BY <1>5, <1>10, <2>1, <2>2
  <2>4. OrderedFrom(phone.n, pending, hidQueue')
    BY <1>1, <1>3, <2>1, <2>2, OrderShortened
  <2>5. CASE UNCHANGED <<pending, phone>>
    BY <1>4, <1>5, <1>6, <2>1, <2>3, <2>4, <2>5
  <2>6. CASE pending' = <<>> /\ UNCHANGED phone
    <3>1. \A k : k \notin 1 .. Len(pending')
      BY <2>6
    <3>2. OrderedFrom(phone'.n, pending', hidQueue')
      BY <2>4, <2>6, <3>1 DEF OrderedFrom
    <3>. QED  BY <1>4, <1>5, <1>6, <2>1, <2>3, <2>6, <3>1, <3>2
  <2>7. ASSUME NEW list \in Seq(Report), Given(list), Update(list) \/ (pending' = list /\ UNCHANGED phone)
        PROVE  InOrder' /\ NumbersPosted'
    <3>1. OrderedFrom(phone.n, list, hidQueue')
      BY <2>1, <2>2, <2>7, GivenOrdered DEF ArriveInv, ReportsArrive
    <3>2. \A k \in 1 .. Len(list) : list[k].n <= posted
      <4>1. CASE list = pending
        BY <1>5, <4>1
      <4>2. CASE list # pending
        <5>. DEFINE report == [n |-> hidQueue[1].n, down |-> hidQueue[1].down]
        <5>1. Turn("report") /\ list = Append(pending, report)
          BY <2>7, <4>2 DEF Given
        <5>2. report \in Report /\ hidQueue[1].kind = "report" /\ 1 \in 1 .. Len(hidQueue) /\ report.n = hidQueue[1].n
          BY <5>1, HeadOfQueue
        <5>. HIDE DEF report
        <5>3. report.n <= posted
          BY <1>5, <5>2
        <5>4. /\ Len(pending) \in Nat /\ Len(list) = Len(pending) + 1 /\ list[Len(pending) + 1] = report
              /\ \A j \in 1 .. Len(pending) : list[j] = pending[j]
          BY <1>1, <5>1, <5>2, Appended
        <5>5. \A k \in 1 .. Len(list) : k = Len(pending) + 1 \/ k \in 1 .. Len(pending)
          BY <5>4
        <5>. QED  BY <1>5, <5>3, <5>4, <5>5
      <4>. QED  BY <4>1, <4>2
    <3>3. CASE pending' = list /\ UNCHANGED phone
      BY <1>4, <1>5, <1>6, <2>1, <2>3, <3>1, <3>2, <3>3
    <3>4. CASE Update(list)
      <4>1. /\ OrderedFrom(phone'.n, pending', hidQueue')
            /\ phone' = phone \/ \E k \in 1 .. Len(list) : phone' = list[k]
            /\ \A j \in 1 .. Len(pending') : \E k \in 1 .. Len(list) : pending'[j] = list[k]
        BY <1>2, <3>1, <3>4, UpdateMoves
      <4>2. phone'.n <= posted /\ \A k \in 1 .. Len(pending') : pending'[k].n <= posted
        BY <1>5, <3>2, <4>1
      <4>. QED  BY <1>4, <1>6, <2>1, <2>3, <4>1, <4>2
    <3>. QED  BY <2>7, <3>3, <3>4
  <2>. QED  BY <2>1, <2>5, <2>6, <2>7
<1>. QED  BY <1>7, <1>8, <1>9, <1>11, <1>12, ReportSteps DEF Queue

LEMMA WakeStep ==
  ASSUME TypeOK, WakeUpComes, [Next]_vars
  PROVE  WakeUpComes'
<1>. DEFINE Woken(queue) == \E k \in 1 .. Len(queue) : queue[k].kind = "ready"
<1>1. hidQueue \in Seq(Item) /\ ready \in BOOLEAN /\ posted \in Nat
  BY DEF TypeOK
<1>2. WakeUpComes <=> ((~ready \/ pending # <<>>) => (~ready /\ (owed \/ Woken(hidQueue))))
  BY DEF WakeUpComes
<1>3. WakeUpComes' <=> ((~ready' \/ pending' # <<>>) => (~ready' /\ (owed' \/ Woken(hidQueue'))))
  BY DEF WakeUpComes
<1>4. ASSUME NEW item \in Item, hidQueue' = Append(hidQueue, item)
      PROVE  Woken(hidQueue) \/ item.kind = "ready" => Woken(hidQueue')
  <2>1. /\ Len(hidQueue) \in Nat /\ Len(hidQueue') = Len(hidQueue) + 1
        /\ hidQueue'[Len(hidQueue) + 1] = item
        /\ \A k \in 1 .. Len(hidQueue) : hidQueue'[k] = hidQueue[k]
    BY <1>1, <1>4, Appended
  <2>2. \A k \in 1 .. Len(hidQueue) : k \in 1 .. Len(hidQueue')
    BY <2>1
  <2>3. Len(hidQueue) + 1 \in 1 .. Len(hidQueue')
    BY <2>1
  <2>. QED  BY <2>1, <2>2, <2>3
<1>5. ASSUME NEW kind, Turn(kind), kind # "ready", hidQueue' = Tail(hidQueue)
      PROVE  Woken(hidQueue) => Woken(hidQueue')
  <2>1. hidQueue # <<>> /\ hidQueue[1].kind = kind
    BY <1>5, HeadOfQueue
  <2>2. /\ Len(hidQueue) \in Nat \ {0} /\ Len(hidQueue') = Len(hidQueue) - 1
        /\ \A k \in 1 .. Len(hidQueue) - 1 : hidQueue'[k] = hidQueue[k + 1]
    BY <1>1, <1>5, <2>1, Shortened
  <2>3. ASSUME NEW k \in 1 .. Len(hidQueue), hidQueue[k].kind = "ready"  PROVE Woken(hidQueue')
    <3>1. k # 1
      BY <1>5, <2>1, <2>3
    <3>2. k - 1 \in 1 .. Len(hidQueue') /\ hidQueue'[k - 1] = hidQueue[k]
      BY <2>2, <3>1
    <3>. QED  BY <2>3, <3>2
  <2>. QED  BY <2>3
<1>. HIDE DEF Woken
<1>6. CASE Idle
  BY <1>2, <1>3, <1>6 DEF Idle, queueVars, radio
<1>7. CASE (\E a \in Actor : Post(a)) \/ PostBaseline
  <2>1. PICK down \in BOOLEAN : hidQueue' = Append(hidQueue, Notification(down))
    BY <1>7 DEF Post, PostBaseline, TypeOK
  <2>2. Notification(down) \in Item
    BY <1>1, ItemsTyped
  <2>3. UNCHANGED <<ready, pending, owed>>
    BY <1>7 DEF Post, PostBaseline, queueVars, radio
  <2>. QED  BY <1>2, <1>3, <1>4, <2>1, <2>2, <2>3
<1>8. CASE CoreBluetooth
  <2>1. PICK kind \in {"subscribed", "unsubscribed", "ready"} :
          /\ hidQueue' = Append(hidQueue, Callback(kind)) /\ UNCHANGED <<ready, pending>>
          /\ owed' = owed \/ kind = "ready"
    BY <1>8 DEF CoreBluetooth, Subscribe, Unsubscribe, RoomAgain, queueVars
  <2>2. Callback(kind) \in Item /\ Callback(kind).kind = kind
    BY ItemsTyped DEF Callback
  <2>. QED  BY <1>2, <1>3, <1>4, <2>1, <2>2
<1>9. CASE DidSubscribe \/ DidUnsubscribe
  <2>1. PICK kind \in {"subscribed", "unsubscribed"} : Turn(kind) /\ hidQueue' = Tail(hidQueue)
    BY <1>9 DEF DidSubscribe, DidUnsubscribe
  <2>2. UNCHANGED <<ready, pending, owed>>
    BY <1>9 DEF DidSubscribe, DidUnsubscribe, radio
  <2>. QED  BY <1>2, <1>3, <1>5, <2>1, <2>2
<1>10. CASE Notify \/ IsReady
  <2>1. /\ hidQueue' = Tail(hidQueue)
        /\ \/ Turn("report") /\ UNCHANGED <<ready, owed>> /\ (~ready \/ UNCHANGED pending)
           \/ ready' = TRUE /\ pending' = <<>>
           \/ \E list \in Seq(Report) : Given(list) /\ Update(list)
    BY <1>10, GivenSteps
  <2>2. CASE Turn("report") /\ UNCHANGED <<ready, owed>> /\ (~ready \/ UNCHANGED pending)
    BY <1>2, <1>3, <1>5, <2>1, <2>2
  <2>3. CASE ready' = TRUE /\ pending' = <<>>
    BY <1>3, <2>3
  <2>4. ASSUME NEW list \in Seq(Report), Update(list)  PROVE WakeUpComes'
    <3>1. PICK taken \in 0 .. Len(list) :
            /\ pending' = SubSeq(list, taken + 1, Len(list))
            /\ ready' = (taken = Len(list))
            /\ owed' = (owed \/ taken < Len(list))
      BY <2>4 DEF Update
    <3>2. Len(list) \in Nat
      BY LenProperties
    <3>3. CASE taken = Len(list)
      <4>1. taken + 1 \in Int /\ Len(list) \in Int /\ Len(list) < taken + 1
        BY <3>2, <3>3
      <4>2. pending' = <<>>
        BY <3>1, <4>1, SubSeqEmpty
      <4>. QED  BY <1>3, <3>1, <3>3, <4>2
    <3>4. CASE taken # Len(list)
      <4>1. taken < Len(list)
        BY <3>2, <3>4
      <4>. QED  BY <1>3, <3>1, <3>4, <4>1
    <3>. QED  BY <3>3, <3>4
  <2>. QED  BY <2>1, <2>2, <2>3, <2>4
<1>. QED  BY <1>6, <1>7, <1>8, <1>9, <1>10, ReportSteps DEF Queue

(* The phone has got number n, or it is on its way.                        *)
Known(n) == n <= phone.n \/ InTransit(n)

LEMMA SkipStep ==
  ASSUME TypeOK, ArriveInv, [Next]_vars
  PROVE  NoneSkipped'
<1>1. /\ phone.n \in Nat /\ pending \in Seq(Report) /\ hidQueue \in Seq(Item) /\ Len(hidQueue) \in Nat
      /\ posted \in Nat /\ base \in Nat /\ phone'.n \in Nat /\ posted' \in Nat /\ base' \in Nat
  BY ReportsTyped, CountsTyped, Numbered DEF TypeOK
<1>2. Settled /\ base # 0 => \A n \in base .. posted : Known(n)
  BY DEF ArriveInv, ReportsArrive, NoneSkipped, Known
<1>. SUFFICES ASSUME Settled', base' # 0  PROVE \A n \in base' .. posted' : Known(n)'
  BY DEF NoneSkipped, Known
<1>. DEFINE Switches(item) == item.kind \in {"subscribed", "unsubscribed"}
<1>3. ASSUME NEW item \in Item, hidQueue' = Append(hidQueue, item)
      PROVE  /\ ~Switches(item) /\ (UNCHANGED <<attached, subscribers>> => Settled)
             /\ UNCHANGED <<phone, pending>> =>
                  /\ \A n : Known(n) => Known(n)'
                  /\ item.kind = "report" => Known(item.n)'
  <2>1. /\ Len(hidQueue') = Len(hidQueue) + 1 /\ hidQueue'[Len(hidQueue) + 1] = item
        /\ \A k \in 1 .. Len(hidQueue) : hidQueue'[k] = hidQueue[k]
    BY <1>1, <1>3, Appended
  <2>2. Len(hidQueue) + 1 \in 1 .. Len(hidQueue') /\ \A k \in 1 .. Len(hidQueue) : k \in 1 .. Len(hidQueue')
    BY <1>1, <2>1
  <2>3. ~Switches(item) /\ (UNCHANGED <<attached, subscribers>> => Settled)
    BY <2>1, <2>2 DEF Settled
  <2>4. UNCHANGED <<phone, pending>> =>
                  /\ \A n : Known(n) => Known(n)'
                  /\ item.kind = "report" => Known(item.n)'
    BY <2>1, <2>2 DEF Known, InTransit, IsReport
  <2>. QED  BY <2>3, <2>4
<1>4. CASE Idle
  <2>1. Settled /\ UNCHANGED <<base, posted, phone, pending, hidQueue>>
    BY <1>4 DEF Idle, queueVars, radio, Settled
  <2>. QED  BY <1>2, <2>1 DEF Known, InTransit, IsReport
<1>5. CASE (\E a \in Actor : Post(a)) \/ PostBaseline
  <2>1. PICK item \in Item :
          /\ item.kind = "report" /\ item.n = posted + 1 /\ posted' = posted + 1
          /\ hidQueue' = Append(hidQueue, item) /\ base' \in {base, posted + 1}
          /\ UNCHANGED <<pending, phone, attached, subscribers>>
    <3>1. PICK down \in BOOLEAN :
            /\ hidQueue' = Append(hidQueue, Notification(down)) /\ posted' = posted + 1
            /\ UNCHANGED <<pending, phone, attached, subscribers>> /\ base' \in {base, posted + 1}
      BY <1>5 DEF Post, PostBaseline, queueVars, radio, TypeOK
    <3>2. Notification(down) \in Item
      BY <1>1, ItemsTyped
    <3>3. Notification(down).kind = "report" /\ Notification(down).n = posted + 1
      BY DEF Notification
    <3>. QED  BY <3>1, <3>2, <3>3
  <2>3. Settled /\ Known(item.n)' /\ \A n : Known(n) => Known(n)'
    BY <1>3, <2>1
  <2>4. \A n \in base' .. posted' : n = posted + 1 \/ (n \in base .. posted /\ base' = base)
    BY <1>1, <2>1
  <2>5. ASSUME NEW n \in base' .. posted'  PROVE Known(n)'
    <3>1. CASE n = posted + 1
      <4>1. n = item.n
        BY <2>1, <3>1
      <4>. QED  BY <2>3, <4>1
    <3>2. CASE n # posted + 1
      <4>1. n \in base .. posted /\ base # 0
        BY <2>4, <3>2
      <4>. QED  BY <1>2, <2>3, <4>1
    <3>. QED  BY <3>1, <3>2
  <2>. QED  BY <2>5
<1>6. CASE CoreBluetooth
  <2>1. \A kind \in {"subscribed", "unsubscribed", "ready"} :
          Callback(kind) \in Item /\ Callback(kind).kind = kind
    BY ItemsTyped DEF Callback
  <2>2. ASSUME NEW kind \in {"subscribed", "unsubscribed"}, hidQueue' = Append(hidQueue, Callback(kind))
        PROVE  FALSE
    BY <1>3, <2>1, <2>2
  <2>3. RoomAgain
    BY <1>6, <2>2 DEF CoreBluetooth, Subscribe, Unsubscribe
  <2>4. UNCHANGED <<phone, pending, attached, subscribers, posted, base>>
    BY <2>3 DEF RoomAgain, queueVars, history
  <2>5. Settled /\ \A n : Known(n) => Known(n)'
    BY <1>3, <2>1, <2>3, <2>4 DEF RoomAgain
  <2>. QED  BY <1>2, <2>4, <2>5
<1>7. CASE DidSubscribe \/ DidUnsubscribe
  BY <1>7 DEF DidSubscribe, DidUnsubscribe, Settled
<1>8. CASE Notify \/ IsReady
  <2>1. /\ Turn("report") \/ Turn("ready")
        /\ hidQueue' = Tail(hidQueue) /\ UNCHANGED <<subscribers, attached, posted, base>>
        /\ \/ ~subscribers
           \/ \E list \in Seq(Report) :
                /\ Given(list)
                /\ Turn("report") => list # pending
                /\ Update(list) \/ (pending' = list /\ UNCHANGED phone)
    BY <1>8, GivenSteps DEF ArriveInv, ReportsArrive
  <2>2. attached /\ subscribers
    BY <2>1 DEF Settled
  <2>3. PICK list \in Seq(Report) :
          /\ Given(list)
          /\ Turn("report") => list # pending
          /\ Update(list) \/ (pending' = list /\ UNCHANGED phone)
    BY <2>1, <2>2
  <2>4. /\ hidQueue # <<>> /\ hidQueue[1].kind \in {"report", "ready"}
        /\ hidQueue[1].kind = "report" => Turn("report")
    <3>1. \A kind \in {"report", "ready"} : Turn(kind) => hidQueue # <<>> /\ hidQueue[1].kind = kind
      BY HeadOfQueue
    <3>. QED  BY <2>1, <3>1
  <2>5. /\ Len(hidQueue') = Len(hidQueue) - 1
        /\ \A k \in 1 .. Len(hidQueue) - 1 : hidQueue'[k] = hidQueue[k + 1]
    BY <1>1, <2>1, <2>4, Shortened
  <2>6. \A k \in 1 .. Len(hidQueue) : k = 1 \/ (k - 1 \in 1 .. Len(hidQueue') /\ hidQueue'[k - 1] = hidQueue[k])
    BY <1>1, <2>5
  <2>7. Settled
    BY <2>1, <2>2, <2>4, <2>6 DEF Settled
  <2>. DEFINE InList(n) == \E k \in 1 .. Len(list) : list[k].n = n
              InRest(n) == \E k \in 1 .. Len(hidQueue') : hidQueue'[k].kind = "report" /\ hidQueue'[k].n = n
  <2>8. /\ \A k \in 1 .. Len(pending) : InList(pending[k].n)
        /\ hidQueue[1].kind = "report" => InList(hidQueue[1].n)
    <3>1. CASE list = pending
      BY <2>3, <2>4, <3>1
    <3>2. CASE list # pending
      <4>. DEFINE report == [n |-> hidQueue[1].n, down |-> hidQueue[1].down]
      <4>1. list = Append(pending, report) /\ Turn("report")
        BY <2>3, <3>2 DEF Given
      <4>2. report \in Report /\ report.n = hidQueue[1].n
        BY <4>1, HeadOfQueue
      <4>. HIDE DEF report
      <4>3. /\ Len(pending) \in Nat /\ Len(list) = Len(pending) + 1 /\ list[Len(pending) + 1] = report
            /\ \A j \in 1 .. Len(pending) : list[j] = pending[j]
        BY <1>1, <4>1, <4>2, Appended
      <4>4. Len(pending) + 1 \in 1 .. Len(list) /\ \A j \in 1 .. Len(pending) : j \in 1 .. Len(list)
        BY <4>3
      <4>. QED  BY <4>2, <4>3, <4>4
    <3>. QED  BY <3>1, <3>2
  <2>9. ASSUME NEW n, Known(n)  PROVE n <= phone.n \/ InList(n) \/ InRest(n)
    <3>1. CASE n <= phone.n
      BY <3>1
    <3>2. CASE \E k \in 1 .. Len(pending) : pending[k].n = n
      BY <2>8, <3>2
    <3>3. ASSUME NEW k \in 1 .. Len(hidQueue), hidQueue[k].kind = "report", hidQueue[k].n = n
          PROVE  InList(n) \/ InRest(n)
      <4>1. CASE k = 1
        BY <2>8, <3>3, <4>1
      <4>2. CASE k # 1
        BY <2>6, <3>3, <4>2
      <4>. QED  BY <4>1, <4>2
    <3>. QED  BY <2>9, <3>1, <3>2, <3>3 DEF Known, InTransit, IsReport
  <2>. HIDE DEF InRest
  <2>10. /\ phone.n <= phone'.n
         /\ \A n : InList(n) => n <= phone'.n \/ \E j \in 1 .. Len(pending') : pending'[j].n = n
    <3>1. OrderedFrom(phone.n, list, Tail(hidQueue)) /\ Tail(hidQueue) \in Seq(Item)
      BY <1>1, <2>3, <2>4, GivenOrdered, Shortened DEF ArriveInv, ReportsArrive
    <3>2. CASE Update(list)
      <4>1. /\ phone.n <= phone'.n
            /\ \A k \in 1 .. Len(list) :
                 \/ list[k].n <= phone'.n
                 \/ \E j \in 1 .. Len(pending') : pending'[j].n = list[k].n
        BY <2>2, <3>1, <3>2, UpdateMoves
      <4>. QED  BY <4>1
    <3>3. CASE pending' = list /\ UNCHANGED phone
      BY <1>1, <3>3
    <3>. QED  BY <2>3, <3>2, <3>3
  <2>. HIDE DEF InList
  <2>11. \A n \in Nat : InRest(n) \/ (\E j \in 1 .. Len(pending') : pending'[j].n = n) \/ n <= phone'.n => Known(n)'
    BY DEF Known, InTransit, IsReport, InRest
  <2>12. ASSUME NEW n \in base' .. posted'  PROVE Known(n)'
    <3>1. n \in Nat /\ Known(n)
      BY <1>1, <1>2, <2>1, <2>7
    <3>2. n <= phone.n => n <= phone'.n
      BY <1>1, <2>10, <3>1
    <3>. QED  BY <2>9, <2>10, <2>11, <3>1, <3>2
  <2>. QED  BY <2>12
<1>. QED  BY <1>4, <1>5, <1>6, <1>7, <1>8, ReportSteps DEF Queue

LEMMA ArriveInit == Init => ArriveInv
<1>. SUFFICES ASSUME Init  PROVE ArriveInv
  OBVIOUS
<1>1. /\ pending = <<>> /\ hidQueue = <<>> /\ ready /\ phone.n = 1 /\ posted = 1 /\ base = 1
  BY DEF Init
<1>2. (\A k : k \notin 1 .. Len(pending)) /\ \A k : k \notin 1 .. Len(hidQueue)
  BY <1>1
<1>3. InOrder /\ NumbersPosted
  BY <1>1, <1>2 DEF InOrder, NumbersPosted
<1>4. NoneSkipped
  BY <1>1 DEF NoneSkipped
<1>5. WakeUpComes
  BY <1>1 DEF WakeUpComes
<1>. QED  BY <1>3, <1>4, <1>5 DEF ArriveInv, ReportsArrive

LEMMA ArriveStep ==
  ASSUME TypeOK, ArriveInv, [Next]_vars
  PROVE  ArriveInv'
BY OrderStep, SkipStep, WakeStep DEF ArriveInv, ReportsArrive

(* However CoreBluetooth refuses and takes reports, and however the phone   *)
(* comes and goes meanwhile, the phone gets the reports of a subscription   *)
(* in their order and without a gap, and none waits with nothing to wake it.*)
THEOREM ReportsReachThePhone == Spec => []ReportsArrive
<1>1. ArriveInv => ReportsArrive
  BY DEF ArriveInv
<1>. QED  BY <1>1, TypesInit, TypesStep, ArriveInit, ArriveStep, PTL DEF Spec

-----------------------------------------------------------------------------
(* What an actor is going to do                                            *)

Has(list, x) == \E k \in 1 .. Len(list) : list[k] = x

(* Nothing is left to do behind "finish"; a report is cached before it is  *)
(* posted, and both before anything else.  A task that still moves or      *)
(* presses releases afterwards, itself or in another task of its drag.     *)
Moves == {"to", "press", "move"}
Formed(list, drags) ==
  \A i \in 1 .. Len(list) :
    /\ list[i] = "finish" => i = Len(list)
    /\ list[i] = "cache" => i = 1 /\ Len(list) >= 2 /\ list[2] = "post"
    /\ list[i] = "post" => i = 1 \/ (i = 2 /\ list[1] = "cache")
    /\ list[i] \in Moves =>
         \/ drags /\ ~Has(list, "finish")
         \/ \E j \in i + 1 .. Len(list) : list[j] = "release"

Drags(a) == a \in Window /\ dragging[a]
Sends(a) == At(a, "cache") \/ At(a, "post")

(* An actor that has pressed, or will, and not released yet.               *)
Owes(a) == (Drags(a) /\ ~Has(todo[a], "finish")) \/ Has(todo[a], "release")

PlansFormed == \A a \in Actor :
  /\ Formed(todo[a], Drags(a))
  /\ held[a] => Sends(a) /\ Owes(a)

(* Plans that are new.                                                     *)
LEMMA NewPlans ==
  ASSUME NEW drags
  PROVE  /\ Formed(<<>>, drags) /\ ~Has(<<>>, "release") /\ ~Has(<<>>, "finish")
         /\ drags => Formed(<<"move">>, drags) /\ Formed(<<"to", "press", "move">>, drags)
         /\ ~Has(<<"move">>, "finish") /\ ~Has(<<"to", "press", "move">>, "finish")
         /\ Formed(<<"to", "release", "finish">>, drags) /\ Has(<<"to", "release", "finish">>, "release")
         /\ Has(<<"to", "release", "finish">>, "finish")
         /\ Formed(<<"release", "finish">>, drags) /\ Has(<<"release", "finish">>, "release")
         /\ Has(<<"release", "finish">>, "finish")
         /\ Formed(<<"finish">>, drags) /\ Has(<<"finish">>, "finish")
         /\ Formed(<<"to", "press", "to", "release">>, drags)
         /\ Formed(<<"release">>, drags) /\ Has(<<"release">>, "release")
<1>1. Formed(<<>>, drags) /\ ~Has(<<>>, "release") /\ ~Has(<<>>, "finish")
  BY DEF Formed, Has
<1>2. ~Has(<<"move">>, "finish") /\ ~Has(<<"to", "press", "move">>, "finish")
  BY DEF Has
<1>3. drags => Formed(<<"move">>, drags) /\ Formed(<<"to", "press", "move">>, drags)
  BY <1>2 DEF Formed, Moves
<1>4. Formed(<<"to", "release", "finish">>, drags)
  <2>. DEFINE plan == <<"to", "release", "finish">>
  <2>1. Len(plan) = 3 /\ plan[1] = "to" /\ plan[2] = "release" /\ plan[3] = "finish"
    OBVIOUS
  <2>2. \A i \in 1 .. 3 : i = 1 \/ i = 2 \/ i = 3
    OBVIOUS
  <2>3. 2 \in 1 + 1 .. 3
    OBVIOUS
  <2>. HIDE DEF plan
  <2>4. Formed(plan, drags)
    BY <2>1, <2>2, <2>3 DEF Formed, Moves
  <2>. QED  BY <2>4 DEF plan
<1>5. Formed(<<"release", "finish">>, drags)
  BY DEF Formed, Moves
<1>6. Formed(<<"finish">>, drags) /\ Formed(<<"release">>, drags)
  BY DEF Formed, Moves
<1>7. Formed(<<"to", "press", "to", "release">>, drags)
  <2>. DEFINE plan == <<"to", "press", "to", "release">>
  <2>1. Len(plan) = 4 /\ plan[1] = "to" /\ plan[2] = "press" /\ plan[3] = "to" /\ plan[4] = "release"
    OBVIOUS
  <2>2. \A i \in 1 .. 4 : i = 4 \/ (i \in 1 .. 3 /\ 4 \in i + 1 .. 4)
    OBVIOUS
  <2>3. \A i \in 1 .. 3 : i = 1 \/ i = 2 \/ i = 3
    OBVIOUS
  <2>. HIDE DEF plan
  <2>4. Formed(plan, drags)
    BY <2>1, <2>2, <2>3 DEF Formed, Moves
  <2>. QED  BY <2>4 DEF plan
<1>8. /\ Has(<<"to", "release", "finish">>, "release") /\ Has(<<"to", "release", "finish">>, "finish")
      /\ Has(<<"release", "finish">>, "release") /\ Has(<<"release", "finish">>, "finish")
      /\ Has(<<"finish">>, "finish") /\ Has(<<"release">>, "release")
  BY DEF Has
<1>. QED  BY <1>1, <1>2, <1>3, <1>4, <1>5, <1>6, <1>7, <1>8

(* The head of a plan is done, and n words are put in its place.           *)
LEMMA PlanShift ==
  ASSUME NEW q \in Seq(Words), NEW r \in Seq(Words), q # <<>>, NEW n \in 0 .. 2, NEW drags,
         Formed(q, drags), Len(r) = n + Len(q) - 1,
         \A i \in n + 1 .. n + Len(q) - 1 : r[i] = q[i - n + 1],
         n = 1 => r[1] = "to" /\ q[1] = "move",
         n = 2 => r[1] = "cache" /\ r[2] = "post" /\ q[1] # "cache"
  PROVE  /\ Formed(r, drags)
         /\ \A word \in {"finish", "release"} :
              /\ Has(r, word) => Has(q, word)
              /\ Has(q, word) /\ q[1] # word => Has(r, word)
         /\ n # 0 => r # <<>> /\ Head(r) = r[1]
         /\ n = 0 /\ q[1] = "cache" => r # <<>> /\ Head(r) = "post"
<1>1. Len(q) \in Nat \ {0} /\ Len(r) \in Nat /\ n \in Nat
  BY EmptySeq, LenProperties
<1>2. \A i \in 1 .. Len(r) : i \in 1 .. n \/ (i - n + 1 \in 2 .. Len(q) /\ r[i] = q[i - n + 1])
  BY <1>1
<1>3. \A k \in 2 .. Len(q) : k + n - 1 \in 1 .. Len(r) /\ r[k + n - 1] = q[k]
  <2>1. \A k \in 2 .. Len(q) : k + n - 1 \in n + 1 .. n + Len(q) - 1 /\ k + n - 1 \in 1 .. Len(r) /\ (k + n - 1) - n + 1 = k
    BY <1>1
  <2>. QED  BY <2>1
<1>4. \A i \in 1 .. n : r[i] \in {"to", "cache", "post"}
  <2>1. n = 0 \/ n = 1 \/ n = 2
    OBVIOUS
  <2>2. \A i \in 1 .. n : (n = 1 /\ i = 1) \/ (n = 2 /\ i = 1) \/ (n = 2 /\ i = 2)
    BY <2>1
  <2>. QED  BY <2>2
<1>5. ASSUME NEW word \in {"finish", "release"}
      PROVE  /\ Has(r, word) => Has(q, word)
             /\ Has(q, word) /\ q[1] # word => Has(r, word)
  <2>1. \A i \in 1 .. Len(r) : r[i] = word => i - n + 1 \in 1 .. Len(q) /\ q[i - n + 1] = word
    <3>1. \A i \in 1 .. n : r[i] # word
      BY <1>4
    <3>2. \A i \in 1 .. Len(r) : i - n + 1 \in 2 .. Len(q) => i - n + 1 \in 1 .. Len(q)
      BY <1>1
    <3>. QED  BY <1>2, <3>1, <3>2
  <2>2. \A k \in 1 .. Len(q) : k = 1 \/ k \in 2 .. Len(q)
    BY <1>1
  <2>. QED  BY <1>3, <2>1, <2>2 DEF Has
<1>6. n # 0 => r # <<>> /\ Head(r) = r[1]
  <2>1. n # 0 => Len(r) # 0
    BY <1>1
  <2>. QED  BY <2>1, Shortened
<1>7. n = 0 /\ q[1] = "cache" => r # <<>> /\ Head(r) = "post"
  <2>1. SUFFICES ASSUME n = 0, q[1] = "cache"  PROVE r # <<>> /\ Head(r) = "post"
    OBVIOUS
  <2>2. 1 \in 1 .. Len(q)
    BY <1>1
  <2>3. Len(q) >= 2 /\ q[2] = "post"
    BY <2>1, <2>2 DEF Formed
  <2>4. 2 \in 2 .. Len(q) /\ 2 + n - 1 = 1
    BY <1>1, <2>1, <2>3
  <2>5. 1 \in 1 .. Len(r) /\ r[1] = "post"
    BY <1>3, <2>3, <2>4
  <2>6. r # <<>>
    BY <2>5
  <2>. QED  BY <2>5, <2>6, Shortened
<1>8. ASSUME NEW i \in 1 .. Len(r)
      PROVE  /\ r[i] = "finish" => i = Len(r)
             /\ r[i] = "cache" => i = 1 /\ Len(r) >= 2 /\ r[2] = "post"
             /\ r[i] = "post" => i = 1 \/ (i = 2 /\ r[1] = "cache")
             /\ r[i] \in Moves =>
                  \/ drags /\ ~Has(r, "finish")
                  \/ \E j \in i + 1 .. Len(r) : r[j] = "release"
  <2>1. ASSUME NEW k \in 1 .. Len(q), k + n - 1 = i \/ (k = 1 /\ i = 1 /\ n = 1), q[k] \in Moves
        PROVE  \/ drags /\ ~Has(r, "finish")
               \/ \E j \in i + 1 .. Len(r) : r[j] = "release"
    <3>1. CASE drags /\ ~Has(q, "finish")
      BY <1>5, <3>1
    <3>2. ASSUME NEW j \in k + 1 .. Len(q), q[j] = "release"
          PROVE  \E m \in i + 1 .. Len(r) : r[m] = "release"
      <4>1. j \in 2 .. Len(q) /\ j + n - 1 \in i + 1 .. Len(r)
        BY <1>1, <2>1, <3>2
      <4>. QED  BY <1>3, <3>2, <4>1
    <3>. QED  BY <2>1, <3>1, <3>2 DEF Formed
  <2>2. CASE i \in 1 .. n
    <3>1. (n = 1 /\ i = 1) \/ (n = 2 /\ i = 1) \/ (n = 2 /\ i = 2)
      BY <2>2
    <3>2. CASE n = 1 /\ i = 1
      <4>1. 1 \in 1 .. Len(q) /\ q[1] \in Moves
        BY <1>1, <3>2 DEF Moves
      <4>. QED  BY <2>1, <3>2, <4>1
    <3>3. CASE n = 2
      <4>1. Len(r) >= 2
        BY <1>1, <3>3
      <4>. QED  BY <3>1, <3>3, <4>1 DEF Moves
    <3>. QED  BY <3>1, <3>2, <3>3
  <2>3. CASE i \notin 1 .. n
    <3>. DEFINE k == i - n + 1
    <3>1. k \in 2 .. Len(q) /\ k \in 1 .. Len(q) /\ r[i] = q[k] /\ k + n - 1 = i /\ k # 1
      BY <1>1, <1>2, <2>3
    <3>2. k = Len(q) => i = Len(r)
      BY <1>1, <3>1
    <3>. HIDE DEF k
    <3>3. q[k] = "finish" => k = Len(q)
      BY <3>1 DEF Formed
    <3>4. q[k] # "cache"
      BY <3>1 DEF Formed
    <3>5. q[k] = "post" => k = 2 /\ q[1] = "cache"
      BY <3>1 DEF Formed
    <3>6. q[k] = "post" => n = 0
      BY <3>5
    <3>7. q[k] = "post" => i = 1
      BY <3>1, <3>5, <3>6
    <3>. QED  BY <2>1, <3>1, <3>2, <3>3, <3>4, <3>7
  <2>. QED  BY <2>2, <2>3
<1>9. Formed(r, drags)
  BY <1>8 DEF Formed
<1>. QED  BY <1>5, <1>6, <1>7, <1>9

LEMMA InsteadMoves ==
  ASSUME TypeOK, NEW a \in Actor, Formed(todo[a], Drags(a)),
         NEW word, At(a, word), NEW what, Instead(a, what),
         \/ what = <<>>
         \/ what = <<"to">> /\ word = "move"
         \/ what = <<"cache", "post">> /\ word # "cache"
  PROVE  /\ todo[a][1] = word /\ 1 \in 1 .. Len(todo[a])
         /\ Formed(todo'[a], Drags(a))
         /\ \A w \in {"finish", "release"} :
              /\ Has(todo'[a], w) => Has(todo[a], w)
              /\ Has(todo[a], w) /\ word # w => Has(todo'[a], w)
         /\ what = <<"cache", "post">> => At(a, "cache")'
         /\ what = <<>> /\ word = "cache" => At(a, "post")'
         /\ \A b \in Actor : b # a => todo'[b] = todo[b]
<1>1. todo \in [Actor -> Seq(Words)] /\ todo[a] # <<>> /\ todo[a] \in Seq(Words) /\ Head(todo[a]) = word
  BY DEF TypeOK, At
<1>2. Len(todo[a]) \in Nat \ {0} /\ todo[a][1] = word /\ 1 \in 1 .. Len(todo[a])
  BY <1>1, Shortened
<1>3. todo'[a] = what \o Tail(todo[a]) /\ \A b \in Actor : b # a => todo'[b] = todo[b]
  BY <1>1 DEF Instead
<1>4. PICK n \in 0 .. 2 :
        /\ what \in Seq(Words) /\ Len(what) = n
        /\ n = 0 => what = <<>>
        /\ n = 1 => what[1] = "to" /\ word = "move"
        /\ n = 2 => what[1] = "cache" /\ what[2] = "post" /\ word # "cache"
  <2>1. /\ <<>> \in Seq(Words) /\ <<"to">> \in Seq(Words) /\ <<"cache", "post">> \in Seq(Words)
    BY DEF Words
  <2>2. Len(<<>>) = 0 /\ Len(<<"to">>) = 1 /\ Len(<<"cache", "post">>) = 2
        /\ 0 \in 0 .. 2 /\ 1 \in 0 .. 2 /\ 2 \in 0 .. 2
    OBVIOUS
  <2>3. CASE what = <<>>
    BY <2>1, <2>2, <2>3
  <2>4. CASE what = <<"to">> /\ word = "move"
    BY <2>1, <2>2, <2>4
  <2>5. CASE what = <<"cache", "post">> /\ word # "cache"
    BY <2>1, <2>2, <2>5
  <2>. QED  BY <2>3, <2>4, <2>5
<1>5. /\ todo'[a] \in Seq(Words) /\ Len(todo'[a]) = n + Len(todo[a]) - 1
      /\ \A i \in 1 .. n : todo'[a][i] = what[i]
      /\ \A i \in n + 1 .. n + Len(todo[a]) - 1 : todo'[a][i] = todo[a][i - n + 1]
  BY <1>1, <1>3, <1>4, Replaced
<1>6. /\ n = 1 => todo'[a][1] = "to" /\ todo[a][1] = "move"
      /\ n = 2 => todo'[a][1] = "cache" /\ todo'[a][2] = "post" /\ todo[a][1] # "cache"
  <2>1. (n = 1 => 1 \in 1 .. n) /\ (n = 2 => 1 \in 1 .. n /\ 2 \in 1 .. n)
    OBVIOUS
  <2>. QED  BY <1>2, <1>4, <1>5, <2>1
<1>7. /\ Formed(todo'[a], Drags(a))
      /\ \A w \in {"finish", "release"} :
           /\ Has(todo'[a], w) => Has(todo[a], w)
           /\ Has(todo[a], w) /\ todo[a][1] # w => Has(todo'[a], w)
      /\ n # 0 => todo'[a] # <<>> /\ Head(todo'[a]) = todo'[a][1]
      /\ n = 0 /\ todo[a][1] = "cache" => todo'[a] # <<>> /\ Head(todo'[a]) = "post"
  BY <1>1, <1>5, <1>6, PlanShift
<1>8. what = <<"cache", "post">> => At(a, "cache")'
  <2>1. what = <<"cache", "post">> => n = 2
    BY <1>4
  <2>. QED  BY <1>6, <1>7, <2>1 DEF At
<1>9. what = <<>> /\ word = "cache" => At(a, "post")'
  <2>1. what = <<>> => n = 0
    BY <1>4
  <2>. QED  BY <1>2, <1>7, <2>1 DEF At
<1>. QED  BY <1>2, <1>3, <1>7, <1>8, <1>9

(* What an actor that is about to move or press owes.                      *)
LEMMA MoversOwe ==
  ASSUME TypeOK, NEW a \in Actor, Formed(todo[a], Drags(a)),
         NEW word \in Moves, At(a, word)
  PROVE  Owes(a)
<1>1. todo[a] \in Seq(Words) /\ todo[a] # <<>> /\ Head(todo[a]) = word
  BY DEF TypeOK, At
<1>2. 1 \in 1 .. Len(todo[a]) /\ todo[a][1] = word /\ Len(todo[a]) \in Nat
  BY <1>1, Shortened
<1>3. \A j \in 1 + 1 .. Len(todo[a]) : j \in 1 .. Len(todo[a])
  BY <1>2
<1>. QED  BY <1>2, <1>3 DEF Formed, Owes, Has

(* The actors that a step leaves alone.                                    *)
Alone(b) == todo'[b] = todo[b] /\ held'[b] = held[b] /\ Drags(b)' = Drags(b)

LEMMA AloneKeeps ==
  ASSUME NEW b, Alone(b)
  PROVE  /\ Owes(b)' = Owes(b)
         /\ \A word : At(b, word)' = At(b, word)
         /\ Formed(todo[b], Drags(b)) => Formed(todo'[b], Drags(b)')
         /\ (held[b] => Sends(b) /\ Owes(b)) => (held'[b] => Sends(b)' /\ Owes(b)')
<1>1. Owes(b)' = Owes(b)
  BY DEF Alone, Owes
<1>2. \A word : At(b, word)' = At(b, word)
  BY DEF Alone, At
<1>3. Formed(todo[b], Drags(b)) => Formed(todo'[b], Drags(b)')
  BY DEF Alone
<1>. QED  BY <1>1, <1>2, <1>3 DEF Alone, Sends

LEMMA OneActor ==
  ASSUME PlansFormed, NEW a \in Actor, \A b \in Actor : b # a => Alone(b),
         Formed(todo'[a], Drags(a)'), held'[a] => Sends(a)' /\ Owes(a)'
  PROVE  PlansFormed'
<1>1. ASSUME NEW b \in Actor, b # a
      PROVE  Formed(todo'[b], Drags(b)') /\ (held'[b] => Sends(b)' /\ Owes(b)')
  BY <1>1, AloneKeeps DEF PlansFormed
<1>. QED  BY <1>1 DEF PlansFormed

(* Where a task or a transmission stands does not change in these steps.   *)
Elsewhere == User \/ Queue \/ CoreBluetooth \/ UNCHANGED vars

LEMMA ElsewhereAlone ==
  ASSUME Elsewhere, NEW b
  PROVE  Alone(b)
<1>1. UNCHANGED <<todo, held, dragging>>
  BY DEF Elsewhere, User, Queue, CoreBluetooth, Change, Drag, LetGo, Notify, DidSubscribe,
         PostBaseline, DidUnsubscribe, IsReady, Subscribe, Unsubscribe, RoomAgain, view, vars
<1>. QED  BY <1>1 DEF Alone, Drags

(* The other steps, by the actor that takes them.                          *)
ActorStep(a) ==
  \/ a \in Window /\ WindowTask(a)
  \/ a \in Shortcut /\ ShortcutTask(a)
  \/ Send(a)

LEMMA Steps ==
  ASSUME [Next]_vars
  PROVE  Elsewhere \/ \E a \in Actor : ActorStep(a)
BY DEF Next, Elsewhere, ActorStep, Actor

LEMMA OthersAlone ==
  ASSUME TypeOK, NEW a \in Actor, ActorStep(a), NEW b \in Actor, b # a
  PROVE  Alone(b)
<1>1. /\ todo \in [Actor -> Seq(Words)] /\ held \in [Actor -> BOOLEAN] /\ dragging \in [Window -> BOOLEAN]
  BY DEF TypeOK
<1>2. \/ UNCHANGED todo
      \/ \E words : todo' = [todo EXCEPT ![a] = words]
  BY DEF ActorStep, WindowTask, ShortcutTask, Send, RunChanged, HandleMove, RunEnded, Finish, Does,
         Instead, StartShortcut, Cancel, MoveTo, Press, Release, Cache, Post, Transmit
<1>3. UNCHANGED held \/ \E down : held' = [held EXCEPT ![a] = down]
  BY DEF ActorStep, WindowTask, ShortcutTask, Send, RunChanged, HandleMove, RunEnded, Finish,
         StartShortcut, Cancel, MoveTo, Press, Release, Cache, Post, Transmit
<1>4. UNCHANGED dragging \/ \E on : dragging' = [dragging EXCEPT ![a] = on]
  BY DEF ActorStep, WindowTask, ShortcutTask, Send, RunChanged, HandleMove, RunEnded, Finish,
         StartShortcut, Cancel, MoveTo, Press, Release, Cache, Post, view
<1>5. todo'[b] = todo[b] /\ held'[b] = held[b]
  BY <1>1, <1>2, <1>3
<1>6. b \in Window => dragging'[b] = dragging[b]
  BY <1>1, <1>4
<1>. QED  BY <1>5, <1>6 DEF Alone, Drags

(* What a step of an actor does to its own plan.                           *)
LEMMA OwnPlan ==
  ASSUME TypeOK, PlansFormed, NEW a \in Actor, ActorStep(a)
  PROVE  /\ Formed(todo'[a], Drags(a)')
         /\ held'[a] => Sends(a)' /\ Owes(a)'
         /\ Owes(a) /\ ~Release(a) => Owes(a)' \/ missed'
         /\ Sends(a) => Cache(a) \/ Post(a)
<1>1. /\ todo \in [Actor -> Seq(Words)] /\ held \in [Actor -> BOOLEAN] /\ dragging \in [Window -> BOOLEAN]
      /\ Formed(todo[a], Drags(a)) /\ (held[a] => Sends(a) /\ Owes(a))
  BY DEF TypeOK, PlansFormed
<1>2. ASSUME NEW word, At(a, word), NEW what, Instead(a, what), UNCHANGED dragging,
             \/ what = <<>>
             \/ what = <<"to">> /\ word = "move"
             \/ what = <<"cache", "post">> /\ word # "cache"
      PROVE  /\ Formed(todo'[a], Drags(a)')
             /\ word # "release" /\ Owes(a) => Owes(a)'
  <2>1. /\ Formed(todo'[a], Drags(a))
        /\ \A w \in {"finish", "release"} :
             /\ Has(todo'[a], w) => Has(todo[a], w)
             /\ Has(todo[a], w) /\ word # w => Has(todo'[a], w)
    BY <1>1, <1>2, InsteadMoves
  <2>2. Drags(a)' = Drags(a)
    BY <1>2 DEF Drags
  <2>3. word # "release" /\ Owes(a) => Owes(a)'
    BY <2>1, <2>2 DEF Owes
  <2>4. Formed(todo'[a], Drags(a)')
    BY <2>1, <2>2
  <2>. QED  BY <2>3, <2>4
<1>3. ASSUME NEW word, At(a, word), word \notin {"cache", "post"}  PROVE ~held[a] /\ ~Sends(a)
  BY <1>1, <1>3 DEF At, Sends
<1>4. ASSUME todo[a] = <<>>  PROVE ~held[a] /\ ~Sends(a) /\ (Owes(a) => Drags(a))
  <2>1. ~Has(todo[a], "release")
    BY <1>4 DEF Has
  <2>. QED  BY <1>1, <1>4, <2>1 DEF At, Sends, Owes
<1>. DEFINE Goal ==
              /\ Formed(todo'[a], Drags(a)')
              /\ held'[a] => Sends(a)' /\ Owes(a)'
              /\ Owes(a) /\ ~Release(a) => Owes(a)' \/ missed'
              /\ Sends(a) => Cache(a) \/ Post(a)
<1>5. ASSUME a \in Window, RunChanged(a)  PROVE Goal
  <2>1. todo[a] = <<>> /\ UNCHANGED held
    BY <1>5 DEF RunChanged, Begins
  <2>2. \/ UNCHANGED <<todo, dragging>>
        \/ /\ dragging'[a]
           /\ todo'[a] = <<"move">> \/ todo'[a] = <<"to", "press", "move">>
    BY <1>1, <1>5 DEF RunChanged, Does
  <2>3. CASE UNCHANGED <<todo, dragging>>
    <3>1. Alone(a)
      BY <2>1, <2>3 DEF Alone, Drags
    <3>. QED  BY <1>1, <1>4, <2>1, <3>1, AloneKeeps
  <2>4. CASE dragging'[a] /\ (todo'[a] = <<"move">> \/ todo'[a] = <<"to", "press", "move">>)
    <3>1. Drags(a)'
      BY <1>5, <2>4 DEF Drags
    <3>2. Formed(todo'[a], Drags(a)') /\ ~Has(todo'[a], "finish")
      BY <2>4, <3>1, NewPlans
    <3>3. Owes(a)'
      BY <3>1, <3>2 DEF Owes
    <3>. QED  BY <1>4, <2>1, <3>2, <3>3
  <2>. QED  BY <2>2, <2>3, <2>4
<1>6. ASSUME HandleMove(a)  PROVE Goal
  <2>1. At(a, "move") /\ UNCHANGED <<held, dragging>> /\ (Instead(a, <<"to">>) \/ Instead(a, <<>>))
    BY <1>6 DEF HandleMove, view
  <2>. QED  BY <1>2, <1>3, <2>1
<1>7. ASSUME a \in Window, RunEnded(a)  PROVE Goal
  <2>1. todo[a] = <<>> /\ UNCHANGED <<held, dragging>>
    BY <1>7 DEF RunEnded, Begins, view
  <2>2. \/ todo'[a] \in {<<"to", "release", "finish">>, <<"release", "finish">>}
        \/ todo'[a] = <<"finish">> /\ (missed' \/ ~Drags(a))
    BY <1>1, <1>7 DEF RunEnded, Does, Drags
  <2>3. CASE todo'[a] \in {<<"to", "release", "finish">>, <<"release", "finish">>}
    <3>1. Formed(todo'[a], Drags(a)') /\ Has(todo'[a], "release")
      BY <2>3, NewPlans
    <3>2. Owes(a)'
      BY <3>1 DEF Owes
    <3>. QED  BY <1>4, <2>1, <3>1, <3>2
  <2>4. CASE todo'[a] = <<"finish">> /\ (missed' \/ ~Drags(a))
    <3>1. Formed(todo'[a], Drags(a)')
      BY <2>4, NewPlans
    <3>. QED  BY <1>4, <2>1, <2>4, <3>1
  <2>. QED  BY <2>2, <2>3, <2>4
<1>8. ASSUME Finish(a)  PROVE Goal
  <2>1. At(a, "finish") /\ UNCHANGED held /\ Instead(a, <<>>)
    BY <1>8 DEF Finish
  <2>2. todo[a][1] = "finish" /\ 1 \in 1 .. Len(todo[a])
    BY <1>1, <2>1, InsteadMoves
  <2>3. Len(todo[a]) = 1
    BY <1>1, <2>2 DEF Formed
  <2>4. Len(todo'[a]) = 0
    <3>1. todo'[a] = <<>> \o Tail(todo[a]) /\ todo[a] # <<>> /\ todo[a] \in Seq(Words)
      BY <1>1, <2>1 DEF Instead, At
    <3>2. <<>> \in Seq(Words) /\ Len(<<>>) = 0 /\ 0 \in Nat
      OBVIOUS
    <3>3. Len(todo'[a]) = 0 + Len(todo[a]) - 1
      BY <3>1, <3>2, Replaced
    <3>. QED  BY <2>3, <3>3
  <2>5. Formed(todo'[a], Drags(a)')
    BY <2>4 DEF Formed
  <2>6. ~Owes(a)
    BY <2>2, <2>3 DEF Owes, Has
  <2>. QED  BY <1>3, <2>1, <2>5, <2>6
<1>9. ASSUME a \in Shortcut, StartShortcut(a) \/ Cancel(a)  PROVE Goal
  <2>1. UNCHANGED held /\ a \notin Window
    BY <1>9, ReportAssumption DEF StartShortcut, Cancel
  <2>2. \/ todo[a] = <<>> /\ todo'[a] = <<"to", "press", "to", "release">>
        \/ /\ At(a, "press") \/ At(a, "to") \/ At(a, "release")
           /\ (todo'[a] = <<>> /\ missed') \/ todo'[a] = <<"release">>
    BY <1>1, <1>9 DEF StartShortcut, Cancel
  <2>3. CASE todo[a] = <<>> /\ todo'[a] = <<"to", "press", "to", "release">>
    <3>1. Formed(todo'[a], Drags(a)')
      BY <2>3, NewPlans
    <3>2. ~Owes(a)
      BY <1>4, <2>1, <2>3 DEF Drags
    <3>. QED  BY <1>4, <2>1, <2>3, <3>1, <3>2
  <2>4. CASE /\ At(a, "press") \/ At(a, "to") \/ At(a, "release")
             /\ (todo'[a] = <<>> /\ missed') \/ todo'[a] = <<"release">>
    <3>1. ~held[a] /\ ~Sends(a)
      BY <1>3, <2>4
    <3>2. Formed(todo'[a], Drags(a)') /\ (missed' \/ Has(todo'[a], "release"))
      BY <2>4, NewPlans
    <3>. QED  BY <2>1, <3>1, <3>2 DEF Owes
  <2>. QED  BY <2>2, <2>3, <2>4
<1>10. ASSUME MoveTo(a) \/ Press(a) \/ Release(a)  PROVE Goal
  <2>1. PICK word \in {"to", "press", "release"} :
          /\ At(a, word) /\ UNCHANGED dragging
          /\ Instead(a, <<>>) \/ Instead(a, <<"cache", "post">>)
          /\ UNCHANGED held \/ Instead(a, <<"cache", "post">>)
          /\ word = "release" => Release(a) /\ (UNCHANGED held \/ held'[a] = FALSE)
    BY <1>1, <1>10 DEF MoveTo, Press, Release, Transmit, view
  <2>2. ~held[a] /\ ~Sends(a)
    BY <1>3, <2>1
  <2>3. Formed(todo'[a], Drags(a)') /\ (word # "release" /\ Owes(a) => Owes(a)')
    BY <1>2, <2>1
  <2>4. word # "release" => Owes(a)
    BY <1>1, <2>1, MoversOwe DEF Moves
  <2>5. Instead(a, <<"cache", "post">>) => At(a, "cache")'
    BY <1>1, <2>1, InsteadMoves
  <2>6. held'[a] => Sends(a)' /\ Owes(a)'
    <3>1. CASE UNCHANGED held
      BY <2>2, <3>1
    <3>2. CASE ~UNCHANGED held
      <4>1. Sends(a)'
        BY <2>1, <2>5, <3>2 DEF Sends
      <4>. QED  BY <2>1, <2>3, <2>4, <3>2, <4>1
    <3>. QED  BY <3>1, <3>2
  <2>. QED  BY <2>1, <2>2, <2>3, <2>6
<1>11. ASSUME Cache(a)  PROVE Goal
  <2>1. At(a, "cache") /\ Instead(a, <<>>) /\ UNCHANGED <<held, dragging>>
    BY <1>11 DEF Cache, view
  <2>2. Formed(todo'[a], Drags(a)') /\ (Owes(a) => Owes(a)')
    BY <1>2, <2>1
  <2>3. At(a, "post")'
    BY <1>1, <2>1, InsteadMoves
  <2>. QED  BY <1>1, <1>11, <2>1, <2>2, <2>3 DEF Sends
<1>12. ASSUME Post(a)  PROVE Goal
  <2>1. At(a, "post") /\ Instead(a, <<>>) /\ UNCHANGED dragging /\ held'[a] = FALSE
    BY <1>1, <1>12 DEF Post, view
  <2>2. Formed(todo'[a], Drags(a)') /\ (Owes(a) => Owes(a)')
    BY <1>2, <2>1
  <2>. QED  BY <1>12, <2>1, <2>2
<1>. QED
  BY <1>5, <1>6, <1>7, <1>8, <1>9, <1>10, <1>11, <1>12 DEF ActorStep, WindowTask, ShortcutTask, Send

LEMMA PlansStep ==
  ASSUME TypeOK, PlansFormed, [Next]_vars
  PROVE  PlansFormed'
<1>1. CASE Elsewhere
  BY <1>1, ElsewhereAlone, AloneKeeps DEF PlansFormed
<1>2. ASSUME NEW a \in Actor, ActorStep(a)  PROVE PlansFormed'
  BY <1>2, OwnPlan, OthersAlone, OneActor
<1>. QED  BY <1>1, <1>2, Steps

LEMMA MissedStays ==
  ASSUME [Next]_vars, missed
  PROVE  missed'
<1>1. missed' = missed \/ missed' = TRUE \/ \E P : missed' = (missed \/ P)
  BY DEF Next, WindowTask, RunChanged, HandleMove, RunEnded, Finish, ShortcutTask, StartShortcut,
         Cancel, Send, MoveTo, Press, Release, Cache, Post, User, Change, Drag, LetGo, Queue,
         CoreBluetooth, Notify, DidSubscribe, PostBaseline, DidUnsubscribe, IsReady, Subscribe,
         Unsubscribe, RoomAgain, history, vars
<1>. QED  BY <1>1

-----------------------------------------------------------------------------
(* Drags end                                                               *)

(* The button is still held in the window, or the task of the drag's end   *)
(* is on the chain; and so is one behind every "changed" that waits there. *)
Ends(w) ==
  /\ dragging[w] /\ ~Has(todo[w], "finish") => pressedIn = w \/ Has(tasks[w], "ended")
  /\ \A i \in 1 .. Len(tasks[w]) : tasks[w][i] = "changed" =>
       pressedIn = w \/ \E j \in i + 1 .. Len(tasks[w]) : tasks[w][j] = "ended"
DragsEnd == ~missed => \A w \in Window : Ends(w)

LEMMA EndsKept ==
  ASSUME NEW w, Ends(w), tasks'[w] = tasks[w], pressedIn = w => pressedIn' = w,
         dragging'[w] => dragging[w],
         dragging'[w] /\ Has(todo[w], "finish") => Has(todo'[w], "finish")
  PROVE  Ends(w)'
BY DEF Ends

LEMMA EventAppended ==
  ASSUME TypeOK, NEW w \in Window, Ends(w), UNCHANGED <<todo, dragging>>,
         NEW event \in {"changed", "ended"}, tasks'[w] = Append(tasks[w], event),
         event = "changed" => pressedIn' = w
  PROVE  Ends(w)'
<1>1. tasks[w] \in Seq({"changed", "ended"})
  BY DEF TypeOK
<1>2. /\ Len(tasks[w]) \in Nat /\ Len(tasks'[w]) = Len(tasks[w]) + 1
      /\ \A i \in 1 .. Len(tasks[w]) : tasks'[w][i] = tasks[w][i]
      /\ tasks'[w][Len(tasks[w]) + 1] = event
  BY <1>1, Appended
<1>3. CASE event = "changed"
  BY <1>3 DEF Ends
<1>4. CASE event = "ended"
  <2>1. \A i \in 1 .. Len(tasks'[w]) : i = Len(tasks[w]) + 1 \/ Len(tasks[w]) + 1 \in i + 1 .. Len(tasks'[w])
    BY <1>2
  <2>2. Len(tasks[w]) + 1 \in 1 .. Len(tasks'[w])
    BY <1>2
  <2>3. Has(tasks'[w], "ended")
    BY <1>2, <1>4, <2>2 DEF Has
  <2>4. \A i \in 1 .. Len(tasks'[w]) : tasks'[w][i] = "changed" =>
          \E j \in i + 1 .. Len(tasks'[w]) : tasks'[w][j] = "ended"
    BY <1>2, <1>4, <2>1
  <2>. QED  BY <2>3, <2>4 DEF Ends
<1>. QED  BY <1>3, <1>4

LEMMA EventBegins ==
  ASSUME TypeOK, NEW w \in Window, Ends(w), NEW event, Begins(w, event), UNCHANGED pressedIn,
         event # "changed" /\ dragging'[w] => Has(todo'[w], "finish")
  PROVE  Ends(w)'
<1>1. tasks[w] \in Seq({"changed", "ended"}) /\ tasks[w] # <<>> /\ Head(tasks[w]) = event
      /\ tasks'[w] = Tail(tasks[w])
  BY DEF TypeOK, Begins
<1>2. /\ Len(tasks[w]) \in Nat \ {0} /\ Len(tasks'[w]) = Len(tasks[w]) - 1 /\ tasks[w][1] = event
      /\ \A i \in 1 .. Len(tasks[w]) - 1 : tasks'[w][i] = tasks[w][i + 1]
  BY <1>1, Shortened
<1>3. \A i \in 1 .. Len(tasks'[w]) : i + 1 \in 1 .. Len(tasks[w]) /\ tasks'[w][i] = tasks[w][i + 1]
  BY <1>2
<1>4. \A i \in 1 .. Len(tasks[w]) : \A j \in i + 1 .. Len(tasks[w]) :
        j - 1 \in (i - 1) + 1 .. Len(tasks'[w]) /\ j - 1 \in 1 .. Len(tasks'[w]) /\ tasks'[w][j - 1] = tasks[w][j]
  BY <1>2
<1>5. ASSUME NEW i \in 1 .. Len(tasks'[w]), tasks'[w][i] = "changed", pressedIn # w
      PROVE  \E j \in i + 1 .. Len(tasks'[w]) : tasks'[w][j] = "ended"
  <2>1. PICK j \in (i + 1) + 1 .. Len(tasks[w]) : tasks[w][j] = "ended"
    BY <1>3, <1>5 DEF Ends
  <2>2. j - 1 \in ((i + 1) - 1) + 1 .. Len(tasks'[w]) /\ tasks'[w][j - 1] = tasks[w][j]
    BY <1>3, <1>4, <2>1
  <2>3. (i + 1) - 1 = i
    OBVIOUS
  <2>. QED  BY <2>1, <2>2, <2>3
<1>6. event = "changed" => pressedIn = w \/ Has(tasks'[w], "ended")
  <2>1. SUFFICES ASSUME event = "changed", pressedIn # w  PROVE Has(tasks'[w], "ended")
    OBVIOUS
  <2>2. 1 \in 1 .. Len(tasks[w])
    BY <1>2
  <2>3. PICK j \in 1 + 1 .. Len(tasks[w]) : tasks[w][j] = "ended"
    BY <1>2, <2>1, <2>2 DEF Ends
  <2>. QED  BY <1>4, <2>2, <2>3 DEF Has
<1>. QED  BY <1>5, <1>6 DEF Ends

LEMMA DragsEndStep ==
  ASSUME TypeOK, PlansFormed, DragsEnd, [Next]_vars
  PROVE  DragsEnd'
<1>. SUFFICES ASSUME ~missed', NEW v \in Window  PROVE Ends(v)'
  BY DEF DragsEnd
<1>1. Ends(v) /\ v # None /\ v \in Actor
  BY MissedStays, ReportAssumption DEF DragsEnd, Actor
<1>2. /\ tasks \in [Window -> Seq({"changed", "ended"})] /\ todo \in [Actor -> Seq(Words)]
      /\ dragging \in [Window -> BOOLEAN]
  BY DEF TypeOK
<1>3. CASE Change \/ Queue \/ CoreBluetooth \/ UNCHANGED vars
  <2>1. UNCHANGED <<tasks, todo, dragging, pressedIn>>
    BY <1>3 DEF Change, Queue, CoreBluetooth, Notify, DidSubscribe, PostBaseline, DidUnsubscribe,
                IsReady, Subscribe, Unsubscribe, RoomAgain, view, vars
  <2>. QED  BY <1>1, <2>1, EndsKept
<1>4. ASSUME NEW w \in Window, Drag(w)  PROVE Ends(v)'
  <2>1. /\ UNCHANGED <<todo, dragging>> /\ pressedIn \in {None, w} /\ pressedIn' = w
        /\ tasks' = [tasks EXCEPT ![w] = Append(@, "changed")] \/ UNCHANGED tasks
    BY <1>4 DEF Drag
  <2>2. CASE v = w /\ tasks' = [tasks EXCEPT ![w] = Append(@, "changed")]
    <3>1. tasks'[v] = Append(tasks[v], "changed")
      BY <1>2, <2>2
    <3>. QED  BY <1>1, <2>1, <2>2, <3>1, EventAppended
  <2>3. CASE v # w \/ UNCHANGED tasks
    <3>1. tasks'[v] = tasks[v]
      BY <1>2, <2>1, <2>3
    <3>. QED  BY <1>1, <2>1, <3>1, EndsKept
  <2>. QED  BY <2>1, <2>2, <2>3
<1>5. ASSUME NEW w \in Window, LetGo(w)  PROVE Ends(v)'
  <2>1. /\ UNCHANGED <<todo, dragging>> /\ pressedIn = w /\ pressedIn' = None
        /\ tasks' = [tasks EXCEPT ![w] = Append(@, "ended")]
    BY <1>5 DEF LetGo
  <2>2. CASE v = w
    <3>1. tasks'[v] = Append(tasks[v], "ended")
      BY <1>2, <2>1, <2>2
    <3>. QED  BY <1>1, <2>1, <2>2, <3>1, EventAppended
  <2>3. CASE v # w
    <3>1. tasks'[v] = tasks[v]
      BY <1>2, <2>1, <2>3
    <3>. QED  BY <1>1, <2>1, <2>3, <3>1, EndsKept
  <2>. QED  BY <2>2, <2>3
<1>6. ASSUME NEW a \in Actor, ActorStep(a)  PROVE Ends(v)'
  <2>1. UNCHANGED pressedIn
    BY <1>6 DEF ActorStep, WindowTask, ShortcutTask, Send, RunChanged, HandleMove, RunEnded, Finish,
                StartShortcut, Cancel, MoveTo, Press, Release, Cache, Post, view
  <2>2. CASE v # a
    <3>1. Alone(v)
      BY <1>1, <1>6, <2>2, OthersAlone
    <3>2. tasks'[v] = tasks[v]
      <4>1. UNCHANGED tasks \/ tasks' = [tasks EXCEPT ![a] = Tail(@)]
        BY <1>6 DEF ActorStep, WindowTask, ShortcutTask, Send, RunChanged, HandleMove, RunEnded, Finish,
                    Begins, StartShortcut, Cancel, MoveTo, Press, Release, Cache, Post
      <4>. QED  BY <1>2, <2>2, <4>1
    <3>. QED  BY <1>1, <2>1, <3>1, <3>2, EndsKept DEF Alone, Drags
  <2>3. ASSUME v = a, RunChanged(v)  PROVE Ends(v)'
    <3>1. Begins(v, "changed")
      BY <2>3 DEF RunChanged
    <3>. QED  BY <1>1, <2>1, <3>1, EventBegins
  <2>4. ASSUME v = a, RunEnded(v)  PROVE Ends(v)'
    <3>1. Begins(v, "ended")
      BY <2>4 DEF RunEnded
    <3>2. todo'[v] \in {<<"to", "release", "finish">>, <<"release", "finish">>, <<"finish">>}
      BY <1>1, <1>2, <2>4 DEF RunEnded, Does
    <3>3. Has(todo'[v], "finish")
      BY <3>2, NewPlans
    <3>. QED  BY <1>1, <2>1, <3>1, <3>3, EventBegins
  <2>5. ASSUME v = a, Finish(v)  PROVE Ends(v)'
    <3>1. dragging'[v] = FALSE /\ tasks'[v] = tasks[v]
      BY <1>2, <2>5 DEF Finish
    <3>. QED  BY <1>1, <2>1, <3>1, EndsKept
  <2>6. ASSUME v = a, HandleMove(v) \/ Send(v)  PROVE Ends(v)'
    <3>1. UNCHANGED <<tasks, dragging>>
      BY <2>6 DEF HandleMove, Send, MoveTo, Press, Release, Cache, Post, view
    <3>2. \E word \in Words \ {"finish"} : At(v, word) /\
             \E what : /\ Instead(v, what)
                       /\ \/ what = <<>>
                          \/ what = <<"to">> /\ word = "move"
                          \/ what = <<"cache", "post">> /\ word # "cache"
      BY <2>6 DEF HandleMove, Send, MoveTo, Press, Release, Cache, Post, Transmit, Words
    <3>3. Has(todo[v], "finish") => Has(todo'[v], "finish")
      BY <1>1, <3>2, InsteadMoves DEF PlansFormed
    <3>. QED  BY <1>1, <2>1, <3>1, <3>3, EndsKept
  <2>. QED  BY <1>6, <2>2, <2>3, <2>4, <2>5, <2>6, ReportAssumption DEF ActorStep, WindowTask
<1>. QED  BY <1>3, <1>4, <1>5, <1>6, Steps DEF Elsewhere, User

-----------------------------------------------------------------------------
(* The last report                                                         *)

(* The last report that was posted, wherever it is, has the button up.     *)
LastIsUp ==
  /\ phone.n = posted => ~phone.down
  /\ \A k \in 1 .. Len(pending) : pending[k].n = posted => ~pending[k].down
  /\ \A k \in 1 .. Len(hidQueue) : IsReport(k) /\ hidQueue[k].n = posted => ~hidQueue[k].down

LEMMA LastPostedUp ==
  ASSUME TypeOK, ArriveInv, hidQueue' = Append(hidQueue, Notification(FALSE)),
         posted' = posted + 1, UNCHANGED <<phone, pending>>
  PROVE  LastIsUp'
<1>1. /\ phone.n \in Nat /\ hidQueue \in Seq(Item) /\ posted \in Nat /\ Len(hidQueue) \in Nat
      /\ \A k \in 1 .. Len(pending) : pending[k].n \in Nat
      /\ \A k \in 1 .. Len(hidQueue) : hidQueue[k].n \in Nat
  BY Numbered DEF TypeOK
<1>2. Notification(FALSE) \in Item /\ ~Notification(FALSE).down
  BY <1>1, ItemsTyped DEF Notification
<1>3. /\ Len(hidQueue') = Len(hidQueue) + 1
      /\ \A k \in 1 .. Len(hidQueue) : hidQueue'[k] = hidQueue[k]
      /\ hidQueue'[Len(hidQueue) + 1] = Notification(FALSE)
  <2>. DEFINE item == Notification(FALSE)
  <2>1. item \in Item /\ hidQueue \in Seq(Item) /\ hidQueue' = Append(hidQueue, item)
    BY <1>1, <1>2
  <2>. HIDE DEF item
  <2>2. /\ Len(Append(hidQueue, item)) = Len(hidQueue) + 1
        /\ \A k \in 1 .. Len(hidQueue) : Append(hidQueue, item)[k] = hidQueue[k]
        /\ Append(hidQueue, item)[Len(hidQueue) + 1] = item
    BY <2>1, Appended
  <2>3. /\ Len(hidQueue') = Len(hidQueue) + 1
        /\ \A k \in 1 .. Len(hidQueue) : hidQueue'[k] = hidQueue[k]
        /\ hidQueue'[Len(hidQueue) + 1] = item
    BY ONLY <2>1, <2>2
  <2>. QED  BY <2>3 DEF item
<1>4. ASSUME NEW k \in 1 .. Len(hidQueue'), hidQueue'[k].kind = "report"
      PROVE  hidQueue'[k].n = posted' => ~hidQueue'[k].down
  <2>1. CASE k \in 1 .. Len(hidQueue)
    <3>1. hidQueue[k].n \in Nat /\ hidQueue[k].n <= posted /\ hidQueue'[k] = hidQueue[k]
      BY <1>1, <1>3, <1>4, <2>1 DEF ArriveInv, NumbersPosted, IsReport
    <3>. QED  BY <1>1, <3>1
  <2>2. CASE k \notin 1 .. Len(hidQueue)
    <3>1. k = Len(hidQueue) + 1
      BY <1>1, <1>3, <2>2
    <3>. QED  BY <1>2, <1>3, <3>1
  <2>. QED  BY <2>1, <2>2
<1>5. phone'.n # posted'
  BY <1>1 DEF ArriveInv, NumbersPosted
<1>6. \A k \in 1 .. Len(pending') : pending'[k].n # posted'
  BY <1>1 DEF ArriveInv, NumbersPosted
<1>. QED  BY <1>4, <1>5, <1>6 DEF LastIsUp, IsReport

LEMMA LastStays ==
  ASSUME TypeOK, ArriveInv, LastIsUp, [Next]_vars, UNCHANGED posted
  PROVE  LastIsUp'
<1>1. /\ phone \in Report /\ pending \in Seq(Report) /\ hidQueue \in Seq(Item) /\ posted \in Nat
  BY DEF TypeOK
<1>. DEFINE Fine(report) == report.n = posted => ~report.down
<1>2. /\ Fine(phone) /\ \A k \in 1 .. Len(pending) : Fine(pending[k])
      /\ \A k \in 1 .. Len(hidQueue) : hidQueue[k].kind = "report" => Fine(hidQueue[k])
  BY DEF LastIsUp, IsReport
<1>3. SUFFICES /\ Fine(phone') /\ \A k \in 1 .. Len(pending') : Fine(pending'[k])
               /\ \A k \in 1 .. Len(hidQueue') : hidQueue'[k].kind = "report" => Fine(hidQueue'[k])
  BY DEF LastIsUp, IsReport
<1>. HIDE DEF Fine
<1>4. CASE Idle
  BY <1>2, <1>4 DEF Idle, queueVars, radio
<1>5. CASE (\E a \in Actor : Post(a)) \/ PostBaseline
  <2>1. posted' = posted + 1
    BY <1>5 DEF Post, PostBaseline
  <2>. QED  BY <1>1, <2>1
<1>6. CASE CoreBluetooth
  <2>1. PICK kind \in {"subscribed", "unsubscribed", "ready"} :
          hidQueue' = Append(hidQueue, Callback(kind))
    BY <1>6 DEF CoreBluetooth, Subscribe, Unsubscribe, RoomAgain
  <2>2. UNCHANGED pending /\ phone' \in {phone, NoReport}
    BY <1>6 DEF CoreBluetooth, Subscribe, Unsubscribe, RoomAgain, queueVars
  <2>3. Fine(NoReport)
    BY DEF NoReport, Fine
  <2>4. Callback(kind) \in Item /\ Callback(kind).kind # "report"
    BY ItemsTyped DEF Callback
  <2>5. /\ Len(hidQueue) \in Nat /\ Len(hidQueue') = Len(hidQueue) + 1 /\ hidQueue'[Len(hidQueue) + 1] = Callback(kind)
        /\ \A j \in 1 .. Len(hidQueue) : hidQueue'[j] = hidQueue[j]
    BY <1>1, <2>1, <2>4, Appended
  <2>6. \A k \in 1 .. Len(hidQueue') : k = Len(hidQueue) + 1 \/ k \in 1 .. Len(hidQueue)
    BY <2>5
  <2>. QED  BY <1>2, <2>2, <2>3, <2>4, <2>5, <2>6
<1>7. ASSUME hidQueue # <<>>, hidQueue' = Tail(hidQueue)
      PROVE  \A k \in 1 .. Len(hidQueue') : hidQueue'[k].kind = "report" => Fine(hidQueue'[k])
  <2>1. /\ Len(hidQueue) \in Nat /\ Len(hidQueue') = Len(hidQueue) - 1
        /\ \A k \in 1 .. Len(hidQueue) - 1 : hidQueue'[k] = hidQueue[k + 1]
    BY <1>1, <1>7, Shortened
  <2>2. \A k \in 1 .. Len(hidQueue') : k + 1 \in 1 .. Len(hidQueue) /\ hidQueue'[k] = hidQueue[k + 1]
    BY <2>1
  <2>. QED  BY <1>2, <2>2
<1>8. CASE DidSubscribe \/ DidUnsubscribe
  <2>1. hidQueue # <<>> /\ hidQueue' = Tail(hidQueue) /\ UNCHANGED <<pending, phone>>
    BY <1>8 DEF DidSubscribe, DidUnsubscribe, Turn, radio
  <2>. QED  BY <1>2, <1>7, <2>1
<1>9. CASE Notify \/ IsReady
  <2>1. /\ Turn("report") \/ Turn("ready")
        /\ hidQueue' = Tail(hidQueue)
        /\ \/ UNCHANGED <<pending, phone>>
           \/ pending' = <<>> /\ UNCHANGED phone
           \/ \E list \in Seq(Report) :
                /\ Given(list) /\ (Update(list) \/ (pending' = list /\ UNCHANGED phone))
    BY <1>9, GivenSteps DEF ArriveInv, ReportsArrive
  <2>2. hidQueue # <<>>
    BY <2>1 DEF Turn
  <2>3. \A k \in 1 .. Len(hidQueue') : hidQueue'[k].kind = "report" => Fine(hidQueue'[k])
    BY <1>7, <2>1, <2>2
  <2>4. CASE UNCHANGED <<pending, phone>>
    BY <1>2, <2>3, <2>4
  <2>5. CASE pending' = <<>> /\ UNCHANGED phone
    <3>1. \A k : k \notin 1 .. Len(pending')
      BY <2>5
    <3>. QED  BY <1>2, <2>3, <2>5, <3>1
  <2>6. ASSUME NEW list \in Seq(Report), Given(list), Update(list) \/ (pending' = list /\ UNCHANGED phone)
        PROVE  Fine(phone') /\ \A k \in 1 .. Len(pending') : Fine(pending'[k])
    <3>1. \A k \in 1 .. Len(list) : Fine(list[k])
      <4>1. CASE list = pending
        BY <1>2, <4>1
      <4>2. CASE list # pending
        <5>. DEFINE report == [n |-> hidQueue[1].n, down |-> hidQueue[1].down]
        <5>1. Turn("report") /\ list = Append(pending, report)
          BY <2>6, <4>2 DEF Given
        <5>2. report \in Report /\ hidQueue[1].kind = "report" /\ 1 \in 1 .. Len(hidQueue)
          BY <5>1, HeadOfQueue
        <5>3. Fine(report)
          <6>1. Fine(hidQueue[1])
            BY <1>2, <5>2
          <6>. QED  BY <6>1 DEF Fine
        <5>. HIDE DEF report
        <5>4. /\ Len(pending) \in Nat /\ Len(list) = Len(pending) + 1 /\ list[Len(pending) + 1] = report
              /\ \A j \in 1 .. Len(pending) : list[j] = pending[j]
          BY <1>1, <5>1, <5>2, Appended
        <5>5. \A k \in 1 .. Len(list) : k = Len(pending) + 1 \/ k \in 1 .. Len(pending)
          BY <5>4
        <5>. QED  BY <1>2, <5>3, <5>4, <5>5
      <4>. QED  BY <4>1, <4>2
    <3>2. CASE pending' = list /\ UNCHANGED phone
      BY <1>2, <3>1, <3>2
    <3>3. CASE Update(list)
      <4>1. OrderedFrom(phone.n, list, Tail(hidQueue)) /\ Tail(hidQueue) \in Seq(Item)
        BY <1>1, <2>2, <2>6, GivenOrdered, Shortened DEF ArriveInv, ReportsArrive
      <4>2. /\ phone' = phone \/ \E k \in 1 .. Len(list) : phone' = list[k]
            /\ \A j \in 1 .. Len(pending') : \E k \in 1 .. Len(list) : pending'[j] = list[k]
        BY <3>3, <4>1, UpdateMoves
      <4>. QED  BY <1>2, <3>1, <4>2
    <3>. QED  BY <2>6, <3>2, <3>3
  <2>. QED  BY <2>1, <2>3, <2>4, <2>5, <2>6
<1>. QED  BY <1>4, <1>5, <1>6, <1>8, <1>9, ReportSteps DEF Queue

-----------------------------------------------------------------------------
(* Presses are owed                                                        *)

(* A pressed button is one that an actor will release; in the cache and in *)
(* the last report also one whose release is about to be written there.    *)
Caches(a) == At(a, "cache") /\ ~held[a]
Posts(a) == Sends(a) /\ ~held[a]
WillRelease == \E a \in Actor : Owes(a)
WillCache == WillRelease \/ \E a \in Actor : Caches(a)
WillPost == WillRelease \/ \E a \in Actor : Posts(a)

PressesAreOwed == ~missed =>
  /\ buttons => WillRelease
  /\ cached => WillCache
  /\ baseline = TRUE => overtaken \/ WillPost
  /\ baseline = None => LastIsUp \/ overtaken \/ WillPost

LEMMA AloneWill ==
  ASSUME NEW b, Alone(b)
  PROVE  Owes(b)' = Owes(b) /\ Caches(b)' = Caches(b) /\ Posts(b)' = Posts(b)
<1>1. Owes(b)' = Owes(b) /\ \A word : At(b, word)' = At(b, word)
  BY AloneKeeps
<1>2. Caches(b)' = Caches(b)
  BY <1>1 DEF Caches, Alone
<1>3. Posts(b)' = Posts(b)
  BY <1>1 DEF Posts, Sends, Alone
<1>. QED  BY <1>1, <1>2, <1>3

(* What a step leaves of these promises, when it releases nothing.         *)
LEMMA PromisesKept ==
  ASSUME TypeOK, PlansFormed, [Next]_vars, ~missed', ~ \E a \in Actor : Release(a)
  PROVE  /\ WillRelease => WillRelease'
         /\ WillCache => WillCache' \/ \E a \in Actor : Cache(a) /\ ~held[a]
         /\ WillPost => WillPost' \/ \E a \in Actor : Post(a) /\ ~held[a]
<1>. SUFFICES ASSUME NEW b \in Actor
              PROVE  /\ Owes(b) => Owes(b)'
                     /\ Caches(b) => Caches(b)' \/ (Cache(b) /\ ~held[b])
                     /\ Posts(b) => Posts(b)' \/ (Post(b) /\ ~held[b])
  BY DEF WillRelease, WillCache, WillPost
<1>1. CASE Alone(b)
  BY <1>1, AloneWill
<1>2. CASE ~Alone(b)
  <2>1. ActorStep(b)
    BY <1>2, Steps, ElsewhereAlone, OthersAlone
  <2>2. (Owes(b) => Owes(b)') /\ (Sends(b) => Cache(b) \/ Post(b))
    BY <2>1, OwnPlan
  <2>3. ~(At(b, "cache") /\ At(b, "post"))
    BY DEF At
  <2>4. Caches(b) => Cache(b) /\ ~held[b]
    BY <2>2, <2>3 DEF Caches, Sends, Post
  <2>5. Posts(b) /\ Cache(b) => Posts(b)'
    <3>1. SUFFICES ASSUME Posts(b), Cache(b)  PROVE Posts(b)'
      OBVIOUS
    <3>2. At(b, "cache") /\ Instead(b, <<>>) /\ UNCHANGED held
      BY <3>1 DEF Cache
    <3>3. At(b, "post")'
      BY <3>2, InsteadMoves DEF PlansFormed
    <3>. QED  BY <3>1, <3>2, <3>3 DEF Posts, Sends
  <2>. QED  BY <2>2, <2>4, <2>5 DEF Posts
<1>. QED  BY <1>1, <1>2

(* Steps that write neither the buttons, the cache nor a report.           *)
Quiet == UNCHANGED <<buttons, cached, baseline, overtaken, posted>>

LEMMA QuietSteps ==
  ASSUME [Next]_vars
  PROVE  \/ Quiet
         \/ \E a \in Actor : Press(a) \/ Release(a) \/ Cache(a) \/ Post(a)
         \/ DidSubscribe \/ PostBaseline
BY DEF Next, WindowTask, RunChanged, HandleMove, RunEnded, Finish, ShortcutTask, StartShortcut,
       Cancel, Send, MoveTo, User, Change, Drag, LetGo, Queue, CoreBluetooth, Notify,
       DidUnsubscribe, IsReady, Subscribe, Unsubscribe, RoomAgain, history, transport, queueVars,
       vars, Quiet

LEMMA PressesStep ==
  ASSUME TypeOK, ArriveInv, PlansFormed, PressesAreOwed, [Next]_vars
  PROVE  PressesAreOwed'
<1>. SUFFICES ASSUME ~missed'
              PROVE  /\ buttons' => WillRelease'
                     /\ cached' => WillCache'
                     /\ baseline' = TRUE => overtaken' \/ WillPost'
                     /\ baseline' = None => LastIsUp' \/ overtaken' \/ WillPost'
  BY DEF PressesAreOwed
<1>1. /\ buttons => WillRelease
      /\ cached => WillCache
      /\ baseline = TRUE => overtaken \/ WillPost
      /\ baseline = None => LastIsUp \/ overtaken \/ WillPost
  BY MissedStays DEF PressesAreOwed
<1>2. /\ buttons \in BOOLEAN /\ cached \in BOOLEAN /\ baseline \in BOOLEAN \cup {None}
      /\ held \in [Actor -> BOOLEAN] /\ None \notin BOOLEAN
  BY ReportAssumption DEF TypeOK
<1>3. WillRelease' => WillCache' /\ WillPost'
  BY DEF WillCache, WillPost
<1>4. ASSUME NEW a \in Actor, Release(a)
      PROVE  ~buttons' /\ WillCache' /\ WillPost'
  <2>1. Reaches(a)
    BY <1>4 DEF Release
  <2>2. At(a, "release") /\ buttons' = FALSE /\ held'[a] = FALSE /\ Instead(a, <<"cache", "post">>)
    BY <1>2, <1>4, <2>1 DEF Release, Transmit
  <2>3. At(a, "cache")'
    BY <2>2, InsteadMoves DEF PlansFormed
  <2>. QED  BY <2>2, <2>3 DEF WillCache, WillPost, Caches, Posts, Sends
<1>5. CASE \E a \in Actor : Release(a)
  BY <1>4, <1>5
<1>6. ASSUME ~ \E a \in Actor : Release(a)
      PROVE  /\ WillRelease => WillRelease'
             /\ WillCache => WillCache' \/ \E a \in Actor : Cache(a) /\ ~held[a]
             /\ WillPost => WillPost' \/ \E a \in Actor : Post(a) /\ ~held[a]
  BY <1>6, PromisesKept
<1>. DEFINE Done == /\ buttons' => WillRelease'
                    /\ cached' => WillCache'
                    /\ baseline' = TRUE => overtaken' \/ WillPost'
                    /\ baseline' = None => LastIsUp' \/ overtaken' \/ WillPost'
<1>7. ASSUME WillRelease'  PROVE Done
  BY <1>3, <1>7
<1>8. ASSUME NEW a \in Actor, held[a], Cache(a) \/ Post(a)  PROVE WillRelease'
  <2>1. Owes(a)
    BY <1>8 DEF PlansFormed
  <2>2. ActorStep(a) /\ ~Release(a)
    BY <1>8 DEF ActorStep, Send, Cache, Post, Release, At
  <2>. QED  BY <2>1, <2>2, OwnPlan DEF WillRelease
<1>9. ASSUME NEW a \in Actor, Press(a)  PROVE WillRelease'
  <2>1. Owes(a)
    BY <1>9, MoversOwe DEF Press, PlansFormed, Moves
  <2>2. ActorStep(a) /\ ~Release(a)
    BY <1>9 DEF ActorStep, Send, Press, Release, At
  <2>. QED  BY <2>1, <2>2, OwnPlan DEF WillRelease
<1>10. ASSUME ~ \E a \in Actor : Release(a), NEW a \in Actor, Cache(a), ~held[a]  PROVE Done
  <2>1. ~cached' /\ UNCHANGED <<buttons, baseline, overtaken, posted>>
    BY <1>2, <1>10 DEF Cache, transport, queueVars, history
  <2>2. ~ \E b \in Actor : Post(b) /\ ~held[b]
    BY <2>1 DEF Post, TypeOK
  <2>3. LastIsUp => LastIsUp'
    BY <2>1, LastStays
  <2>. QED  BY <1>1, <1>6, <1>10, <2>1, <2>2, <2>3
<1>11. ASSUME ~ \E a \in Actor : Release(a), NEW a \in Actor, Post(a), ~held[a]  PROVE Done
  <2>1. /\ UNCHANGED <<buttons, cached, baseline, phone, pending>> /\ posted' = posted + 1
        /\ overtaken' = (overtaken \/ baseline # None)
        /\ hidQueue' = Append(hidQueue, Notification(FALSE))
    BY <1>2, <1>11 DEF Post, transport, queueVars, radio
  <2>2. LastIsUp'
    BY <2>1, LastPostedUp
  <2>3. ~ \E b \in Actor : Cache(b) /\ ~held[b]
    <3>1. posted \in Nat /\ posted' # posted
      BY <2>1 DEF TypeOK
    <3>. QED  BY <3>1 DEF Cache, history
  <2>. QED  BY <1>1, <1>2, <1>6, <1>11, <2>1, <2>2, <2>3
<1>12. ASSUME ~ \E a \in Actor : Release(a), Quiet \/ DidSubscribe \/ PostBaseline,
              ~ \E a \in Actor : (Cache(a) \/ Post(a)) /\ ~held[a]
       PROVE  Done
  <2>1. (WillRelease => WillRelease') /\ (WillCache => WillCache') /\ (WillPost => WillPost')
    BY <1>6, <1>12
  <2>2. CASE Quiet
    <3>1. LastIsUp => LastIsUp'
      BY <2>2, LastStays DEF Quiet
    <3>. QED  BY <1>1, <2>1, <2>2, <3>1 DEF Quiet
  <2>3. CASE DidSubscribe
    <3>1. UNCHANGED <<buttons, cached>> /\ baseline' = cached
      BY <2>3 DEF DidSubscribe, transport
    <3>2. WillCache => WillPost
      BY DEF WillCache, WillPost, Caches, Posts, Sends
    <3>. QED  BY <1>1, <1>2, <2>1, <3>1, <3>2
  <2>4. CASE PostBaseline
    <3>1. /\ UNCHANGED <<buttons, cached, overtaken, phone, pending>> /\ baseline' = None
          /\ posted' = posted + 1 /\ baseline \in BOOLEAN
          /\ hidQueue' = Append(hidQueue, Notification(baseline))
      BY <1>2, <2>4 DEF PostBaseline, transport, radio
    <3>2. ~baseline => LastIsUp'
      <4>1. baseline = FALSE => hidQueue' = Append(hidQueue, Notification(FALSE))
        BY <3>1
      <4>. QED  BY <3>1, <4>1, LastPostedUp
    <3>. QED  BY <1>1, <1>2, <2>1, <3>1, <3>2
  <2>. QED  BY <1>12, <2>2, <2>3, <2>4
<1>13. ASSUME ~ \E a \in Actor : Release(a)  PROVE Done
  BY <1>7, <1>8, <1>9, <1>10, <1>11, <1>12, <1>13, QuietSteps
<1>. QED  BY <1>5, <1>4, <1>13, <1>3

-----------------------------------------------------------------------------
(* Nothing stays pressed                                                   *)

(* A subscription without a first report is still waiting for its baseline.*)
BaselineComes == base = 0 => baseline # None

ReleaseInv == PlansFormed /\ DragsEnd /\ PressesAreOwed /\ BaselineComes

LEMMA ReleaseInit == Init => ReleaseInv
<1>. SUFFICES ASSUME Init  PROVE ReleaseInv
  OBVIOUS
<1>1. /\ \A a \in Actor : todo[a] = <<>> /\ ~held[a]
      /\ \A w \in Window : ~dragging[w] /\ tasks[w] = <<>>
      /\ ~buttons /\ ~cached /\ baseline = None /\ base = 1
      /\ ~phone.down /\ pending = <<>> /\ hidQueue = <<>>
  BY DEF Init
<1>2. PlansFormed
  BY <1>1, NewPlans DEF PlansFormed
<1>3. DragsEnd
  <2>1. \A i : i \notin 1 .. Len(<<>>)
    OBVIOUS
  <2>2. \A w \in Window : ~dragging[w] /\ tasks[w] = <<>>
    BY <1>1
  <2>. QED  BY <2>1, <2>2 DEF DragsEnd, Ends
<1>4. LastIsUp
  BY <1>1 DEF LastIsUp
<1>5. baseline # TRUE
  BY <1>1, ReportAssumption
<1>6. PressesAreOwed
  BY <1>1, <1>4, <1>5 DEF PressesAreOwed
<1>7. BaselineComes
  BY <1>1 DEF BaselineComes
<1>. QED  BY <1>2, <1>3, <1>6, <1>7 DEF ReleaseInv

LEMMA BaselineStep ==
  ASSUME TypeOK, BaselineComes, [Next]_vars
  PROVE  BaselineComes'
<1>1. posted \in Nat /\ cached \in BOOLEAN /\ None \notin BOOLEAN
  BY ReportAssumption DEF TypeOK
<1>2. \/ UNCHANGED <<base, baseline>>
      \/ base' = posted + 1
      \/ baseline' = cached
  BY DEF Next, WindowTask, RunChanged, HandleMove, RunEnded, Finish, ShortcutTask, StartShortcut,
         Cancel, Send, MoveTo, Press, Release, Cache, Post, User, Change, Drag, LetGo, Queue,
         CoreBluetooth, Notify, DidSubscribe, PostBaseline, DidUnsubscribe, IsReady, Subscribe,
         Unsubscribe, RoomAgain, history, queueVars, vars
<1>. QED  BY <1>1, <1>2 DEF BaselineComes

LEMMA ReleaseStep ==
  ASSUME TypeOK, ArriveInv, ReleaseInv, [Next]_vars
  PROVE  ReleaseInv'
BY PlansStep, DragsEndStep, PressesStep, BaselineStep DEF ReleaseInv

LEMMA NothingOwed ==
  ASSUME TypeOK, ArriveInv, ReleaseInv
  PROVE  ReleasedAtRest
<1>. SUFFICES ASSUME AtRest, ~missed
              PROVE  ~buttons /\ ~cached /\ (PhoneUpToDate => ~phone.down)
  BY DEF ReleasedAtRest
<1>1. \A w \in Window : Ends(w) /\ w # None
  BY ReportAssumption DEF ReleaseInv, DragsEnd
<1>2. \A a \in Actor : todo[a] = <<>> /\ ~Has(todo[a], "finish") /\ ~Has(todo[a], "release")
  BY NewPlans DEF AtRest
<1>3. \A w \in Window : ~dragging[w]
  <2>1. \A w \in Window : pressedIn # w /\ tasks[w] = <<>> /\ w \in Actor
    BY <1>1 DEF AtRest, Actor
  <2>2. ~Has(<<>>, "ended")
    BY DEF Has
  <2>. QED  BY <1>1, <1>2, <2>1, <2>2 DEF Ends
<1>4. ~WillRelease
  BY <1>2, <1>3 DEF WillRelease, Owes, Drags
<1>5. ~WillCache /\ ~WillPost
  BY <1>2, <1>4 DEF WillCache, WillPost, Caches, Posts, Sends, At
<1>6. ~buttons /\ ~cached
  BY <1>4, <1>5 DEF ReleaseInv, PressesAreOwed
<1>7. ASSUME PhoneUpToDate  PROVE ~phone.down
  <2>1. LastIsUp
    BY <1>5, <1>7 DEF ReleaseInv, PressesAreOwed, PhoneUpToDate
  <2>2. base # 0 /\ Settled
    BY <1>7 DEF ReleaseInv, BaselineComes, PhoneUpToDate
  <2>3. posted \in base .. posted /\ posted \in Nat /\ phone.n \in Nat /\ phone.n <= posted
    BY Numbered DEF TypeOK, ArriveInv, NumbersPosted
  <2>4. ~InTransit(posted)
    BY <1>7 DEF PhoneUpToDate, InTransit
  <2>5. posted <= phone.n
    BY <2>2, <2>3, <2>4 DEF ArriveInv, ReportsArrive, NoneSkipped
  <2>. QED  BY <2>1, <2>3, <2>5 DEF LastIsUp
<1>. QED  BY <1>6, <1>7

(* When every gesture has ended and no release was dropped on the way, no  *)
(* button stays down: not in the transport's buttons, not in the cache a   *)
(* reader gets, not on a phone that has got all its reports.               *)
THEOREM NothingStaysPressed == Spec => []ReleasedAtRest
BY TypesInit, TypesStep, ArriveInit, ArriveStep, ReleaseInit, ReleaseStep, NothingOwed, PTL DEF Spec
=============================================================================
