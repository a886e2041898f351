----------------------------- MODULE HIDReports -----------------------------
(***************************************************************************)
(* From the mouse on a mirrored screen to the pointer of the phone: the    *)
(* drag gesture of MirrorViewportView, SessionInputRouter, the mouse       *)
(* reports of BluetoothHIDTransport with the drags it makes itself, and    *)
(* the HID queue with the notifications it owes its subscriber.            *)
(*                                                                         *)
(* Of a report only the left button is modelled, and its number.  Every    *)
(* window runs the tasks of its gestures one after the other; windows,     *)
(* shortcuts and the queue "com.macphonemirror.hid" run concurrently.      *)
(* There is one phone, it has subscribed, and advertising stays on.        *)
(***************************************************************************)
EXTENDS Integers, Sequences

CONSTANTS
  Window,      \* mirrored screens, each with its session
  Shortcut,    \* calls of send() for an event that becomes a drag
  MaxEvents,   \* bound: mouse events, shortcuts, subscriptions of the phone,
               \* switches of mouse control and sessions closed
  MaxQueue,    \* bound: callbacks and reports that wait on the HID queue
  None

Actor == Window \cup Shortcut

ASSUME ReportAssumption ==
  /\ Window \cap Shortcut = {} /\ None \notin Window \cup BOOLEAN
  /\ {MaxEvents, MaxQueue} \subseteq Nat

VARIABLES
  enabled,      \* AppPreferences.enableMouseControl
  open,         \* windows whose session still exists
  pressedIn,    \* the window the mouse button is held in
  accepting, dragging,   \* acceptingPointerGesture, isDragging of each window
  tasks,        \* the chain of pointerGestureTasks, by the event they are for
  todo,         \* what is left of the task an actor runs
  held,         \* the report it is about to transmit
  buttons,      \* activeButtons has the left one
  cached,       \* ... and so does cachedMouse
  hidQueue,
  baseline,     \* what didSubscribeTo has read and not posted yet
  subscribers,  \* subscribedCentralIDs is not empty
  ready,        \* readyToNotify
  pending,      \* pendingNotifyQueues, for the mouse
  attached,     \* the phone is subscribed
  owed,         \* CoreBluetooth refused a report and has to say when it takes more
  phone,        \* the last report the phone got
  posted,       \* history: notifications posted
  base,         \* history: the first one of this subscription
  missed,       \* history: a gesture has ended without its release
  overtaken,    \* history: a report was posted before an older baseline
  events        \* how many, for the bound

view == <<enabled, open, pressedIn, accepting, dragging>>
transport == <<buttons, cached>>
queueVars == <<baseline, subscribers, ready, pending>>
radio == <<attached, owed, phone>>
history == <<posted, base, missed, overtaken>>
vars == <<view, tasks, todo, held, transport, hidQueue, queueVars, radio, history, events>>

Report == [n: Nat, down: BOOLEAN]
NoReport == [n |-> 0, down |-> FALSE]
Item == [kind: {"report", "subscribed", "unsubscribed", "ready"}, n: Nat, down: BOOLEAN]
Callback(kind) == [kind |-> kind, n |-> 0, down |-> FALSE]

Words == {"move", "finish", "to", "press", "release", "cache", "post"}

TypeOK ==
  /\ enabled \in BOOLEAN /\ open \subseteq Window
  /\ pressedIn \in Window \cup {None}
  /\ accepting \in [Window -> BOOLEAN] /\ dragging \in [Window -> BOOLEAN]
  /\ \A w \in Window : accepting[w] => ~dragging[w]
  /\ tasks \in [Window -> Seq({"changed", "ended"})]
  /\ todo \in [Actor -> Seq(Words)]
  /\ held \in [Actor -> BOOLEAN]
  /\ buttons \in BOOLEAN /\ cached \in BOOLEAN
  /\ hidQueue \in Seq(Item) /\ baseline \in BOOLEAN \cup {None}
  /\ subscribers \in BOOLEAN /\ ready \in BOOLEAN /\ pending \in Seq(Report)
  /\ attached \in BOOLEAN /\ owed \in BOOLEAN /\ phone \in Report
  /\ posted \in Nat /\ base \in 0 .. posted
  /\ missed \in BOOLEAN /\ overtaken \in BOOLEAN
  /\ events \in 0 .. MaxEvents

Init ==
  /\ enabled \in BOOLEAN /\ open = Window /\ pressedIn = None
  /\ accepting = [w \in Window |-> TRUE] /\ dragging = [w \in Window |-> FALSE]
  /\ tasks = [w \in Window |-> <<>>]
  /\ todo = [a \in Actor |-> <<>>] /\ held = [a \in Actor |-> FALSE]
  /\ buttons = FALSE /\ cached = FALSE
  /\ hidQueue = <<>> /\ baseline = None /\ ready = TRUE /\ pending = <<>> /\ owed = FALSE
  /\ subscribers = TRUE /\ attached = TRUE   \* the phone has got its baseline
  /\ posted = 1 /\ base = 1 /\ phone = [n |-> 1, down |-> FALSE]
  /\ missed = FALSE /\ overtaken = FALSE
  /\ events = 0

Event == events < MaxEvents /\ events' = events + 1

-----------------------------------------------------------------------------
(* The user                                                                *)

(* onChanged: the button goes down in a window, or the mouse moves.        *)
Drag(w) ==
  /\ Event /\ pressedIn \in {None, w}
  /\ pressedIn' = w
  /\ tasks' = IF enabled /\ (accepting[w] \/ dragging[w])
              THEN [tasks EXCEPT ![w] = Append(@, "changed")] ELSE tasks
  /\ UNCHANGED <<enabled, open, accepting, dragging, todo, held, transport, hidQueue,
                 queueVars, radio, history>>

(* onEnded: also while dragging with mouse control switched off.           *)
LetGo(w) ==
  /\ pressedIn = w
  /\ pressedIn' = None
  /\ tasks' = IF enabled \/ dragging[w]
              THEN [tasks EXCEPT ![w] = Append(@, "ended")] ELSE tasks
  /\ missed' = (missed \/ tasks' = tasks)
  /\ UNCHANGED <<enabled, open, accepting, dragging, todo, held, transport, hidQueue,
                 queueVars, radio, posted, base, overtaken, events>>

Change ==
  /\ Event
  /\ \/ enabled' = ~enabled /\ UNCHANGED open
     \/ \E w \in open : open' = open \ {w} /\ UNCHANGED enabled
  /\ UNCHANGED <<pressedIn, accepting, dragging, tasks, todo, held, transport, hidQueue,
                 queueVars, radio, history>>

-----------------------------------------------------------------------------
(* The tasks of a window, on the main actor                                *)

(* A point is routed when mouse control is on and the session exists; a    *)
(* press or a move also needs it to be on the screen, which is a choice.   *)
Routed(w) == enabled /\ w \in open

At(a, word) == todo[a] # <<>> /\ Head(todo[a]) = word
Instead(a, what) == todo' = [todo EXCEPT ![a] = what \o Tail(@)]

Begins(w, event) ==
  /\ todo[w] = <<>> /\ tasks[w] # <<>> /\ Head(tasks[w]) = event
  /\ tasks' = [tasks EXCEPT ![w] = Tail(@)]
Does(w, words) == todo' = [todo EXCEPT ![w] = words]

(* A task begins when the one before has ended.  The first of a gesture    *)
(* moves and presses (handlePointerDown); all of them then move, unless    *)
(* the last move was sent less than 16 ms ago.                             *)
RunChanged(w) ==
  /\ Begins(w, "changed")
  /\ IF dragging[w]
     THEN Does(w, <<"move">>) /\ UNCHANGED <<accepting, dragging>>
     ELSE IF accepting[w]
     THEN /\ accepting' = [accepting EXCEPT ![w] = FALSE]
          /\ dragging' = [dragging EXCEPT ![w] = TRUE]
          /\ \/ Routed(w) /\ Does(w, <<"to", "press", "move">>)
             \/ Does(w, <<"move">>)
     ELSE UNCHANGED <<todo, accepting, dragging>>
  /\ UNCHANGED <<enabled, open, pressedIn, held, transport, hidQueue, queueVars, radio, history, events>>

(* handlePointerMove                                                       *)
HandleMove(w) ==
  /\ At(w, "move")
  /\ \/ Routed(w) /\ Instead(w, <<"to">>)
     \/ Instead(w, <<>>)
  /\ UNCHANGED <<view, tasks, held, transport, hidQueue, queueVars, radio, history, events>>

UpNeedsPoint(w) ==   \* mutant
  /\ Begins(w, "ended")
  /\ IF dragging[w] /\ Routed(w)
     THEN Does(w, <<"to", "release", "finish">>) \/ Does(w, <<"finish">>)
     ELSE Does(w, <<"finish">>)
  /\ missed' = (missed \/ (dragging[w] /\ ~Routed(w)))
  /\ UNCHANGED <<view, held, transport, hidQueue, queueVars, radio, posted, base, overtaken, events>>

(* The last one releases, wherever the point is (handlePointerUp).         *)
RunEnded(w) ==
  /\ Begins(w, "ended")
  /\ IF dragging[w] /\ Routed(w)
     THEN Does(w, <<"to", "release", "finish">>) \/ Does(w, <<"release", "finish">>)
     ELSE Does(w, <<"finish">>)
  /\ missed' = (missed \/ (dragging[w] /\ ~Routed(w)))
  /\ UNCHANGED <<view, held, transport, hidQueue, queueVars, radio, posted, base, overtaken, events>>

StillDragging(w) ==   \* mutant
  /\ At(w, "finish")
  /\ Instead(w, <<>>)
  /\ accepting' = [accepting EXCEPT ![w] = TRUE]
  /\ UNCHANGED <<enabled, open, pressedIn, dragging, tasks, held, transport, hidQueue, queueVars,
                 radio, history, events>>

Finish(w) ==
  /\ At(w, "finish")
  /\ Instead(w, <<>>)
  /\ dragging' = [dragging EXCEPT ![w] = FALSE]
  /\ accepting' = [accepting EXCEPT ![w] = TRUE]
  /\ UNCHANGED <<enabled, open, pressedIn, tasks, held, transport, hidQueue, queueVars, radio, history, events>>

-----------------------------------------------------------------------------
(* BluetoothHIDTransport, on the thread of an actor                        *)

(* send() of an event that becomes performDrag; its moves are one here.    *)
StartShortcut(s) ==
  /\ Event /\ todo[s] = <<>> /\ subscribers
  /\ todo' = [todo EXCEPT ![s] = <<"to", "press", "to", "release">>]
  /\ UNCHANGED <<view, tasks, held, transport, hidQueue, queueVars, radio, history>>

(* It is cancelled while it sleeps: what it has pressed it releases.       *)
Cancel(s) ==
  /\ At(s, "press") \/ At(s, "to") \/ At(s, "release")
  /\ Len(todo[s]) < 4
  /\ todo' = [todo EXCEPT ![s] = IF At(s, "press") THEN <<>> ELSE <<"release">>]
  /\ missed' = (missed \/ At(s, "press"))
  /\ UNCHANGED <<view, tasks, held, transport, hidQueue, queueVars, radio, posted, base,
                 overtaken, events>>

(* sendInputEvent finds the session's transport, and send() a subscriber.  *)
Reaches(a) == a \in Shortcut \/ (a \in open /\ subscribers)

Transmit(a, down) ==
  /\ held' = [held EXCEPT ![a] = down]
  /\ Instead(a, <<"cache", "post">>)

(* movePointerAbsolute takes the buttons as they are now.                  *)
MoveTo(a) ==
  /\ At(a, "to")
  /\ IF Reaches(a) THEN Transmit(a, buttons) ELSE Instead(a, <<>>) /\ UNCHANGED held
  /\ UNCHANGED <<view, tasks, transport, hidQueue, queueVars, radio, history, events>>

Press(a) ==
  /\ At(a, "press")
  /\ IF Reaches(a)
     THEN buttons' = TRUE /\ Transmit(a, TRUE)
     ELSE Instead(a, <<>>) /\ UNCHANGED <<buttons, held>>
  /\ UNCHANGED <<view, tasks, cached, hidQueue, queueVars, radio, history, events>>

Release(a) ==
  /\ At(a, "release")
  /\ IF Reaches(a)
     THEN buttons' = FALSE /\ Transmit(a, FALSE) /\ UNCHANGED missed
     ELSE Instead(a, <<>>) /\ missed' = TRUE /\ UNCHANGED <<buttons, held>>
  /\ UNCHANGED <<view, tasks, cached, hidQueue, queueVars, radio, posted, base, overtaken,
                 events>>

(* transmitMouseReport: the cache under the lock, the notification behind. *)
Cache(a) ==
  /\ At(a, "cache")
  /\ cached' = held[a]
  /\ Instead(a, <<>>)
  /\ UNCHANGED <<view, tasks, held, buttons, hidQueue, queueVars, radio, history, events>>

Notification(down) == [kind |-> "report", n |-> posted + 1, down |-> down]

Post(a) ==
  /\ At(a, "post") /\ Len(hidQueue) < MaxQueue
  /\ hidQueue' = Append(hidQueue, Notification(held[a]))
  /\ posted' = posted + 1
  /\ overtaken' = (overtaken \/ baseline # None)
  /\ held' = [held EXCEPT ![a] = FALSE]
  /\ Instead(a, <<>>)
  /\ UNCHANGED <<view, tasks, transport, queueVars, radio, base, missed, events>>

-----------------------------------------------------------------------------
(* The HID queue                                                           *)

Turn(kind) == baseline = None /\ hidQueue # <<>> /\ Head(hidQueue).kind = kind

(* updateValue of a sequence of reports: CoreBluetooth takes some of them   *)
(* for the phone, and everything when nobody is there to get it.           *)
Update(reports) ==
  \E taken \in 0 .. Len(reports) :
    /\ attached \/ taken = Len(reports)
    /\ phone' = IF attached /\ taken > 0 THEN reports[taken] ELSE phone
    /\ pending' = SubSeq(reports, taken + 1, Len(reports))
    /\ ready' = (taken = Len(reports))
    /\ owed' = (owed \/ taken < Len(reports))

NotifyAnyway ==   \* mutant
  /\ Turn("report")
  /\ hidQueue' = Tail(hidQueue)
  /\ LET report == [n |-> Head(hidQueue).n, down |-> Head(hidQueue).down]
     IN  IF subscribers
         THEN Update(<<report>> \o pending)
         ELSE UNCHANGED <<pending, ready, owed, phone>>
  /\ UNCHANGED <<view, tasks, todo, held, transport, baseline, subscribers, attached,
                 history, events>>

(* The block of notify(): nothing without a subscriber, and behind what    *)
(* waits already.                                                          *)
Notify ==
  /\ Turn("report")
  /\ hidQueue' = Tail(hidQueue)
  /\ LET report == [n |-> Head(hidQueue).n, down |-> Head(hidQueue).down]
     IN  IF subscribers
         THEN IF ready
              THEN Update(<<report>>)
              ELSE pending' = Append(pending, report) /\ UNCHANGED <<ready, owed, phone>>
         ELSE UNCHANGED <<pending, ready, owed, phone>>
  /\ UNCHANGED <<view, tasks, todo, held, transport, baseline, subscribers, attached,
                 history, events>>

(* didSubscribeTo reads the cache under the lock, and posts it after that. *)
DidSubscribe ==
  /\ Turn("subscribed")
  /\ hidQueue' = Tail(hidQueue)
  /\ subscribers' = TRUE
  /\ baseline' = cached
  /\ base' = 0 /\ overtaken' = FALSE
  /\ UNCHANGED <<view, tasks, todo, held, transport, ready, pending, radio, posted, missed,
                 events>>

PostBaseline ==
  /\ baseline # None
  /\ hidQueue' = Append(hidQueue, Notification(baseline))
  /\ posted' = posted + 1 /\ base' = posted + 1
  /\ baseline' = None
  /\ UNCHANGED <<view, tasks, todo, held, transport, subscribers, ready, pending, radio,
                 missed, overtaken, events>>

DidUnsubscribe ==
  /\ Turn("unsubscribed")
  /\ hidQueue' = Tail(hidQueue)
  /\ subscribers' = FALSE
  /\ UNCHANGED <<view, tasks, todo, held, transport, baseline, ready, pending, radio,
                 history, events>>

(* peripheralManagerIsReady, and drainPendingNotifications.                *)
IsReady ==
  /\ Turn("ready")
  /\ hidQueue' = Tail(hidQueue)
  /\ IF subscribers
     THEN Update(pending)
     ELSE ready' = TRUE /\ pending' = <<>> /\ UNCHANGED <<owed, phone>>
  /\ UNCHANGED <<view, tasks, todo, held, transport, baseline, subscribers, attached,
                 history, events>>

-----------------------------------------------------------------------------
(* CoreBluetooth and the phone                                             *)

Subscribe ==
  /\ Event /\ ~attached /\ Len(hidQueue) < MaxQueue
  /\ attached' = TRUE /\ phone' = NoReport
  /\ hidQueue' = Append(hidQueue, Callback("subscribed"))
  /\ UNCHANGED <<view, tasks, todo, held, transport, queueVars, owed, history>>

Unsubscribe ==
  /\ attached /\ Len(hidQueue) < MaxQueue
  /\ attached' = FALSE
  /\ hidQueue' = Append(hidQueue, Callback("unsubscribed"))
  /\ UNCHANGED <<view, tasks, todo, held, transport, queueVars, owed, phone, history, events>>

RoomAgain ==
  /\ owed /\ Len(hidQueue) < MaxQueue
  /\ owed' = FALSE
  /\ hidQueue' = Append(hidQueue, Callback("ready"))
  /\ UNCHANGED <<view, tasks, todo, held, transport, queueVars, attached, phone,
                 history, events>>

-----------------------------------------------------------------------------
User == Change \/ \E w \in Window : Drag(w) \/ LetGo(w)
WindowTask(w) ==
  RunChanged(w) \/ HandleMove(w) \/ RunEnded(w) \/ Finish(w)
ShortcutTask(s) == StartShortcut(s) \/ Cancel(s)
Send(a) == MoveTo(a) \/ Press(a) \/ Release(a) \/ Cache(a) \/ Post(a)
Queue == Notify \/ DidSubscribe \/ PostBaseline \/ DidUnsubscribe \/ IsReady
CoreBluetooth == Subscribe \/ Unsubscribe \/ RoomAgain

Next ==
  \/ User \/ Queue \/ CoreBluetooth
  \/ \E w \in Window : WindowTask(w)
  \/ \E s \in Shortcut : ShortcutTask(s)
  \/ \E a \in Actor : Send(a)

Spec == Init /\ [][Next]_vars

-----------------------------------------------------------------------------
(* Properties                                                              *)

(* Notifications on their way to the phone are on the HID queue or, refused *)
(* by CoreBluetooth before, pending.                                        *)
IsReport(k) == hidQueue[k].kind = "report"
InTransit(n) ==
  \/ \E k \in 1 .. Len(pending) : pending[k].n = n
  \/ \E k \in 1 .. Len(hidQueue) : IsReport(k) /\ hidQueue[k].n = n

(* The phone gets the reports in the order they were posted in, whatever   *)
(* CoreBluetooth refuses in between: what it has got is older than what is *)
(* pending, and that older than what is on the queue.                      *)
InOrder ==
  /\ \A k \in 1 .. Len(pending) :
       /\ phone.n < pending[k].n
       /\ \A j \in 1 .. k - 1 : pending[j].n < pending[k].n
  /\ \A k \in 1 .. Len(hidQueue) : IsReport(k) =>
       /\ phone.n < hidQueue[k].n
       /\ \A j \in 1 .. Len(pending) : pending[j].n < hidQueue[k].n
       /\ \A j \in 1 .. k - 1 : IsReport(j) => hidQueue[j].n < hidQueue[k].n

(* ... and from the baseline of its subscription on it misses none.        *)
Settled == attached /\ subscribers /\ \A k \in 1 .. Len(hidQueue) :
  hidQueue[k].kind \notin {"subscribed", "unsubscribed"}
NoneSkipped ==
  Settled /\ base # 0 => \A n \in base .. posted : n <= phone.n \/ InTransit(n)

(* What waits is waited for: a callback that drains it is still to come.   *)
WakeUpComes ==
  ~ready \/ pending # <<>> =>
    ~ready /\ (owed \/ \E k \in 1 .. Len(hidQueue) : hidQueue[k].kind = "ready")

(* Reports are neither reordered, skipped nor left waiting for ever.       *)
ReportsArrive == InOrder /\ NoneSkipped /\ WakeUpComes

(* When nothing drags and no release was dropped, no button is pressed: not*)
(* in the transport, not in the report a reader would get, not on a phone  *)
(* that has got all reports; however the tasks of two windows, a shortcut  *)
(* and its cancellation interleave.                                        *)
AtRest ==
  pressedIn = None /\ (\A w \in Window : tasks[w] = <<>>) /\ \A a \in Actor : todo[a] = <<>>
PhoneUpToDate ==
  /\ Settled /\ baseline = None /\ ~overtaken
  /\ pending = <<>> /\ \A k \in 1 .. Len(hidQueue) : ~IsReport(k)
ReleasedAtRest ==
  AtRest /\ ~missed => ~buttons /\ ~cached /\ (PhoneUpToDate => ~phone.down)
=============================================================================
