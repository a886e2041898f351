------------------------- MODULE AirPlayControlProofs -------------------------
(***************************************************************************)
(* Proofs about AirPlayControl, for any number of connections, segments,   *)
(* pipelined requests and stops.                                           *)
(***************************************************************************)
EXTENDS AirPlayControl, TLAPS

Fresh(c) == link[c] \in {"new", "incoming"}

(* A connection that is not accepted yet is neither ended nor anywhere in  *)
(* the receiver.                                                           *)
FreshAreUntouched ==
  \A c \in Conn : Fresh(c) => ~isFinished[c] /\ ~Alive(c)

(* The array of a stop is empty between stops, disjoint from the registry, *)
(* and after the cancel loop all ended.                                    *)
TakenByStop ==
  /\ stopper.phase = "idle" => taken = {}
  /\ taken \cap registered = {}
  /\ stopper.phase \notin {"idle", "cancel"} => \A c \in taken : isFinished[c]

Inductive == ServedAreRegistered /\ FreshAreUntouched /\ TakenByStop

-----------------------------------------------------------------------------
(* What the mirror server knows of a stream.                               *)
Video == [phase: {"new", "keyed", "open", "done"}, key: Conn \cup {None},
          stream: Conn \cup {None}, torn: BOOLEAN]

(* A SETUP that tears the reads of the streams leaves them streams.        *)
LEMMA TornTyped == ASSUME TypeOK PROVE Torn \in [Stream -> Video]
<1> SUFFICES ASSUME NEW s \in Stream, video[s].phase = "keyed"
             PROVE  [video[s] EXCEPT !.torn = TRUE] \in Video
  BY DEF Torn, TypeOK, Video
<1>1. video[s] \in Video
  BY DEF TypeOK, Video
<1> QED BY <1>1 DEF Video

(* A segment of n requests is a sequence of requests.                      *)
LEMMA SegmentIsSeq ==
  ASSUME NEW n \in Nat, NEW requests \in [1..n -> Request]
  PROVE  requests \in Seq(Request)
OBVIOUS

(* What the step of a request leaves of the segment is still a segment.    *)
LEMMA HandlingTyped ==
  ASSUME TypeOK, NEW c \in Conn, NEW request \in Request, Handling(c, request)
  PROVE  /\ handling' \in [conn: Conn \cup {None}, requests: Seq(Request)]
         /\ joined' \subseteq Conn /\ late' \in BOOLEAN
<1>1. handling.requests \in Seq(Request) /\ handling.requests # <<>>
  BY DEF Handling, TypeOK
<1>2. Tail(handling.requests) \in Seq(Request)
  BY <1>1
<1>3. handling \in [conn: Conn \cup {None}, requests: Seq(Request)]
  BY DEF TypeOK
<1>4. [handling EXCEPT !.requests = Tail(@)] \in [conn: Conn \cup {None}, requests: Seq(Request)]
  BY <1>2, <1>3
<1>5. Idle \in [conn: Conn \cup {None}, requests: Seq(Request)]
  BY DEF Idle
<1>6. late' \in BOOLEAN
  BY DEF Handling, TypeOK
<1> QED BY <1>4, <1>5, <1>6 DEF Handling, TypeOK

LEMMA InitTyped == Init => TypeOK
<1> SUFFICES ASSUME Init PROVE TypeOK
  OBVIOUS
<1>1. inbox \in [Conn -> Seq(Request)] /\ handling \in [conn: Conn \cup {None}, requests: Seq(Request)]
  BY DEF Init, Idle
<1>2. listening \in BOOLEAN /\ audio \in BOOLEAN /\ timing \in BOOLEAN /\ mirrorUp \in BOOLEAN
  BY DEF Init
<1>3. link \in [Conn -> {"new", "incoming", "open", "closed"}] /\ isFinished \in [Conn -> BOOLEAN]
      /\ sessionIsActive \in [Conn -> BOOLEAN] /\ hasKey \in [Conn -> BOOLEAN]
  BY DEF Init
<1>4. context \in [isActive: BOOLEAN, key: Conn \cup {None}, stream: Conn \cup {None}]
      /\ stopper \in [phase: {"idle", "cancel", "servers", "context", "shutdown"}, service: BOOLEAN]
  BY DEF Init, NotStopping, Inactive
<1>5. /\ registered \subseteq Conn /\ taken \subseteq Conn /\ joined \subseteq Conn
      /\ published \in {"nothing", "started", "ended", "orphaned"}
      /\ segments \in 0..MaxEvents /\ stops \in 0..MaxStops
  BY ControlAssumption DEF Init
<1>6. late \in BOOLEAN
  BY DEF Init
<1>7. video \in [Stream -> Video]
  BY DEF Init, Unopened, Video
<1> QED BY <1>1, <1>2, <1>3, <1>4, <1>5, <1>6, <1>7 DEF TypeOK, Video

(* The two contexts that are set as a whole are contexts.                  *)
LEMMA ContextsTyped ==
  /\ Inactive \in [isActive: BOOLEAN, key: Conn \cup {None}, stream: Conn \cup {None}]
  /\ \A c \in Conn : WithKey(c) \in [isActive: BOOLEAN, key: Conn \cup {None}, stream: Conn \cup {None}]
BY DEF Inactive, WithKey

(* finish() keeps the types of what it touches.                            *)
LEMMA FinishTyped ==
  ASSUME TypeOK, NEW c \in Conn, NEW active, NEW audioNow \in BOOLEAN, Finish(c, active, audioNow)
  PROVE  /\ registered' \subseteq Conn
         /\ isFinished' \in [Conn -> BOOLEAN]
         /\ link' \in [Conn -> {"new", "incoming", "open", "closed"}]
         /\ audio' \in BOOLEAN /\ timing' \in BOOLEAN
         /\ context' \in [isActive: BOOLEAN, key: Conn \cup {None}, stream: Conn \cup {None}]
         /\ published' \in {"nothing", "started", "ended", "orphaned"}
<1>1. CASE isFinished[c] /\ audio' = audioNow
            /\ UNCHANGED <<registered, isFinished, link, timing, context, published>>
  BY <1>1 DEF TypeOK
<1>2. CASE ~isFinished[c] /\ EndsSession(c, active)
  <2>1. Cancelled(registered \ {c}) \in [Conn -> BOOLEAN]
    BY DEF Cancelled, TypeOK
  <2>2. audio' \in BOOLEAN /\ timing' \in BOOLEAN
    BY <1>2 DEF Finish
  <2>3. context' \in [isActive: BOOLEAN, key: Conn \cup {None}, stream: Conn \cup {None}]
    <3>1. context' = Inactive
      BY <1>2 DEF Finish
    <3> QED BY <3>1, ContextsTyped
  <2>4. link' \in [Conn -> {"new", "incoming", "open", "closed"}]
    BY <1>2 DEF Finish, Cut, TypeOK
  <2>5. isFinished' \in [Conn -> BOOLEAN]
    BY <1>2, <2>1 DEF Finish
  <2> QED BY <1>2, <2>2, <2>3, <2>4, <2>5 DEF Finish
<1>3. CASE ~isFinished[c] /\ ~EndsSession(c, active)
  BY <1>3 DEF Finish, TypeOK, Cut
<1> QED BY <1>1, <1>2, <1>3 DEF Finish

-----------------------------------------------------------------------------
(* Types *)

LEMMA QueueTyped == ASSUME TypeOK, Queue PROVE TypeOK'
<1> SUFFICES ASSUME NEW c \in Conn, Accept(c) \/ Receive(c) \/ Handle(c) \/ Ended(c) PROVE TypeOK'
  BY DEF Queue
<1>1. CASE Accept(c)
  BY <1>1 DEF Accept, TypeOK, handlers, servers, bounds, Registered
<1>2. CASE Receive(c)
  <2>1. handling' \in [conn: Conn \cup {None}, requests: Seq(Request)]
    BY <1>2 DEF Receive, TypeOK
  <2>2. inbox' \in [Conn -> Seq(Request)]
    BY <1>2 DEF Receive, TypeOK
  <2> QED BY <1>2, <2>1, <2>2 DEF Receive, TypeOK, handlers, servers, bounds
<1>3. CASE Ended(c)
  <2>1. Finish(c, sessionIsActive[c], audio) /\ audio \in BOOLEAN
    BY <1>3 DEF Ended, TypeOK
  <2> QED BY <1>3, <2>1, FinishTyped DEF Ended, TypeOK, bounds
<1>4. CASE \E request \in {"info", "feedback"} : HandleInfo(c, request)
  <2> PICK request \in {"info", "feedback"} : HandleInfo(c, request)
    BY <1>4
  <2>1. Handling(c, request) /\ request \in Request
    BY DEF HandleInfo, Request
  <2>2. Noticed(c, request) \in BOOLEAN
    BY DEF Noticed, TypeOK
  <2>3. sessionIsActive' \in [Conn -> BOOLEAN]
    BY <2>2 DEF HandleInfo, Notice, TypeOK
  <2> QED BY <2>1, <2>3, HandlingTyped DEF HandleInfo, Handling, TypeOK, servers, bounds
<1>5. CASE HandleRecord(c)
  <2>1. Handling(c, "record") /\ "record" \in Request
    BY <1>5 DEF HandleRecord, Request
  <2>2. Noticed(c, "record") \in BOOLEAN
    BY DEF Noticed, TypeOK
  <2>3. mirrorUp' \in BOOLEAN
    BY <1>5 DEF HandleRecord, EnsureMirror, TypeOK
  <2>4. sessionIsActive' \in [Conn -> BOOLEAN]
    BY <1>5, <2>2 DEF HandleRecord, Notice, TypeOK
  <2> QED BY <1>5, <2>1, <2>3, <2>4, HandlingTyped DEF HandleRecord, Handling, TypeOK, bounds
<1>6. CASE HandleEvent(c)
  <2>1. Handling(c, "event") /\ "event" \in Request
    BY <1>6 DEF HandleEvent, Request
  <2>2. sessionIsActive' \in [Conn -> BOOLEAN]
    BY <1>6 DEF HandleEvent, Activate, TypeOK
  <2> QED BY <1>6, <2>1, <2>2, HandlingTyped DEF HandleEvent, Handling, TypeOK, servers, bounds
<1>7. CASE HandleKeys(c)
  <2>1. Handling(c, "keys") /\ "keys" \in Request
    BY <1>7 DEF HandleKeys, Request
  <2>2. Noticed(c, "keys") \in BOOLEAN
    BY DEF Noticed, TypeOK
  <2>3. CASE Notice(c, "keys") /\ UNCHANGED <<hasKey, servers>>
    <3>1. sessionIsActive' \in [Conn -> BOOLEAN]
      BY <2>2, <2>3 DEF Notice, TypeOK
    <3> QED BY <1>7, <2>1, <2>3, <3>1, HandlingTyped DEF HandleKeys, Handling, TypeOK, servers, bounds
  <2>4. CASE ~(Notice(c, "keys") /\ UNCHANGED <<hasKey, servers>>)
    <3>1. context' \in [isActive: BOOLEAN, key: Conn \cup {None}, stream: Conn \cup {None}]
      <4>1. context' = WithKey(c)
        BY <1>7, <2>4 DEF HandleKeys
      <4> QED BY <4>1, ContextsTyped
    <3>2. timing' \in BOOLEAN /\ mirrorUp' \in BOOLEAN /\ audio' \in BOOLEAN
      BY <1>7, <2>4 DEF HandleKeys, EnsureMirror, TypeOK
    <3>3. sessionIsActive' \in [Conn -> BOOLEAN] /\ hasKey' \in [Conn -> BOOLEAN]
      BY <1>7, <2>4 DEF HandleKeys, Activate, TypeOK
    <3> QED BY <1>7, <2>1, <3>1, <3>2, <3>3, HandlingTyped DEF HandleKeys, Handling, TypeOK, bounds
  <2> QED BY <2>3, <2>4
<1>8. CASE HandleMirror(c)
  <2>1. Handling(c, "mirror") /\ "mirror" \in Request
    BY <1>8 DEF HandleMirror, Request
  <2>2. Noticed(c, "mirror") \in BOOLEAN
    BY DEF Noticed, TypeOK
  <2>3. context' \in [isActive: BOOLEAN, key: Conn \cup {None}, stream: Conn \cup {None}]
    BY <1>8 DEF HandleMirror, TypeOK
  <2>4. sessionIsActive' \in [Conn -> BOOLEAN] /\ mirrorUp' \in BOOLEAN
    BY <1>8, <2>2 DEF HandleMirror, EnsureMirror, Activate, Notice, TypeOK
  <2>5. published' \in {"nothing", "started", "ended", "orphaned"}
    BY <1>8 DEF HandleMirror, TypeOK
  <2>6. video' \in [Stream -> Video]
    BY <1>8, TornTyped DEF HandleMirror, TypeOK, Video
  <2> QED BY <1>8, <2>1, <2>3, <2>4, <2>5, <2>6, HandlingTyped
        DEF HandleMirror, Handling, TypeOK, Video, bounds
<1>9. CASE HandleAudio(c)
  <2>1. Handling(c, "audio") /\ "audio" \in Request
    BY <1>9 DEF HandleAudio, Request
  <2>2. Noticed(c, "audio") \in BOOLEAN
    BY DEF Noticed, TypeOK
  <2>3. audio' \in BOOLEAN
    BY <1>9 DEF HandleAudio, TypeOK
  <2>4. sessionIsActive' \in [Conn -> BOOLEAN]
    BY <1>9, <2>2 DEF HandleAudio, Activate, Notice, TypeOK
  <2> QED BY <1>9, <2>1, <2>3, <2>4, HandlingTyped DEF HandleAudio, Handling, TypeOK, bounds
<1>10. CASE HandleTeardownAudio(c)
  <2>1. Handling(c, "teardownAudio") /\ "teardownAudio" \in Request
    BY <1>10 DEF HandleTeardownAudio, Request
  <2>2. Noticed(c, "teardownAudio") \in BOOLEAN
    BY DEF Noticed, TypeOK
  <2>3. sessionIsActive' \in [Conn -> BOOLEAN]
    BY <1>10, <2>2 DEF HandleTeardownAudio, Notice, TypeOK
  <2>4. audio' \in BOOLEAN
    BY <1>10 DEF HandleTeardownAudio, TypeOK
  <2> QED BY <1>10, <2>1, <2>3, <2>4, HandlingTyped
        DEF HandleTeardownAudio, Handling, TypeOK, bounds
<1>11. CASE HandleTeardown(c)
  <2>1. Handling(c, "teardown") /\ "teardown" \in Request
    BY <1>11 DEF HandleTeardown, Request
  <2>2. Noticed(c, "teardown") \in BOOLEAN
    BY DEF Noticed, TypeOK
  <2>3. Finish(c, Noticed(c, "teardown"), FALSE)
    BY <1>11 DEF HandleTeardown
  <2>4. sessionIsActive' \in [Conn -> BOOLEAN]
    BY <1>11, <2>2 DEF HandleTeardown, Notice, TypeOK
  <2>5. /\ registered' \subseteq Conn
        /\ isFinished' \in [Conn -> BOOLEAN]
        /\ link' \in [Conn -> {"new", "incoming", "open", "closed"}]
        /\ audio' \in BOOLEAN /\ timing' \in BOOLEAN
        /\ context' \in [isActive: BOOLEAN, key: Conn \cup {None}, stream: Conn \cup {None}]
        /\ published' \in {"nothing", "started", "ended", "orphaned"}
    BY <2>2, <2>3, FinishTyped
  <2> QED BY <1>11, <2>1, <2>4, <2>5, HandlingTyped DEF HandleTeardown, Handling, TypeOK, bounds
<1> QED
  BY <1>1, <1>2, <1>3, <1>4, <1>5, <1>6, <1>7, <1>8, <1>9, <1>10, <1>11 DEF Handle

LEMMA PhonesTyped == ASSUME TypeOK, Phones PROVE TypeOK'
<1> SUFFICES ASSUME NEW c \in Conn, Connects(c) \/ Sends(c) \/ HangsUp(c) PROVE TypeOK'
  BY DEF Phones
<1>1. CASE Connects(c)
  BY <1>1 DEF Connects, TypeOK, handlers, servers, bounds
<1>2. CASE Sends(c)
  <2>1. PICK n \in 1..MaxBatch : \E requests \in [1..n -> Request] :
          inbox' = [inbox EXCEPT ![c] = requests]
    BY <1>2 DEF Sends
  <2>2. PICK requests \in [1..n -> Request] : inbox' = [inbox EXCEPT ![c] = requests]
    BY <2>1
  <2>3. requests \in Seq(Request)
    BY <2>2, SegmentIsSeq, ControlAssumption
  <2>4. inbox' \in [Conn -> Seq(Request)]
    BY <2>2, <2>3 DEF TypeOK
  <2>5. segments' \in 0..MaxEvents
    BY <1>2, ControlAssumption DEF Sends, TypeOK
  <2> QED BY <1>2, <2>4, <2>5 DEF Sends, TypeOK, handlers, servers
<1>3. CASE HangsUp(c)
  BY <1>3 DEF HangsUp, TypeOK, handlers, servers, bounds
<1> QED BY <1>1, <1>2, <1>3

LEMMA StreamsTyped == ASSUME TypeOK, Streams PROVE TypeOK'
<1> SUFFICES ASSUME NEW s \in Stream, ReadKey(s) \/ ReadStream(s) \/ Announce(s) \/ EndStream(s)
             PROVE  TypeOK'
  BY DEF Streams
<1>1. video[s] \in Video /\ Gone \in Video
  BY DEF TypeOK, Video, Gone, Unopened
<1>2. context.key \in Conn \cup {None} /\ context.stream \in Conn \cup {None}
  BY DEF TypeOK
<1>3. /\ [video[s] EXCEPT !.phase = "keyed", !.key = context.key] \in Video
      /\ [video[s] EXCEPT !.phase = "open", !.stream = context.stream] \in Video
  BY <1>1, <1>2 DEF Video
<1>4. PICK next \in Video : video' = [video EXCEPT ![s] = next]
  <2>1. CASE ReadKey(s)
    BY <1>1, <1>3, <2>1 DEF ReadKey
  <2>2. CASE ReadStream(s)
    BY <1>1, <1>3, <2>2 DEF ReadStream
  <2>3. CASE Announce(s) \/ EndStream(s)
    BY <1>1, <2>3 DEF Announce, EndStream
  <2> QED BY <2>1, <2>2, <2>3
<1>5. video' \in [Stream -> Video]
  BY <1>4 DEF TypeOK, Video
<1>6. published' \in {"nothing", "started", "ended", "orphaned"}
  BY DEF ReadKey, ReadStream, Announce, EndStream, TypeOK
<1> QED
  BY <1>5, <1>6
    DEF ReadKey, ReadStream, Announce, EndStream, TypeOK, Video, handlers, servers, bounds

LEMMA StopsTyped == ASSUME TypeOK, Stops PROVE TypeOK'
<1>1. ASSUME NEW service \in BOOLEAN, StopTake(service) PROVE TypeOK'
  BY <1>1, ControlAssumption DEF StopTake, TypeOK, servers
<1>2. CASE StopCancel
  BY <1>2 DEF StopCancel, TypeOK, servers, bounds, Cancelled, Cut
<1>3. CASE StopServers
  BY <1>3 DEF StopServers, TypeOK, handlers, bounds
<1>4. CASE StopContext
  <2>1. context' \in [isActive: BOOLEAN, key: Conn \cup {None}, stream: Conn \cup {None}]
    BY <1>4 DEF StopContext, Inactive
  <2>2. CASE stopper' = NotStopping /\ taken' = {}
    BY <1>4, <2>1, <2>2 DEF StopContext, TypeOK, handlers, bounds, NotStopping
  <2>3. CASE stopper' = [stopper EXCEPT !.phase = "shutdown"] /\ UNCHANGED taken
    BY <1>4, <2>1, <2>3 DEF StopContext, TypeOK, handlers, bounds
  <2> QED BY <1>4, <2>2, <2>3 DEF StopContext
<1>5. CASE StopShutdown
  BY <1>5 DEF StopShutdown, TypeOK, handlers, bounds, NotStopping
<1>6. CASE Listen
  <2>1. listening' \in BOOLEAN /\ mirrorUp' \in BOOLEAN
    BY <1>6 DEF Listen, EnsureMirror, TypeOK
  <2> QED BY <1>6, <2>1 DEF Listen, TypeOK, handlers, bounds
<1> QED BY <1>1, <1>2, <1>3, <1>4, <1>5, <1>6 DEF Stops

LEMMA StutterTyped == TypeOK /\ UNCHANGED vars => TypeOK'
BY DEF TypeOK, vars, handlers, servers, bounds

(* Types: every variable of the control connections stays in its type.     *)
THEOREM ControlTypes == Spec => []TypeOK
<1>1. TypeOK /\ [Next]_vars => TypeOK'
  BY QueueTyped, PhonesTyped, StreamsTyped, StopsTyped, StutterTyped DEF Next
<1> QED BY InitTyped, <1>1, PTL DEF Spec

-----------------------------------------------------------------------------
(* Registry *)

LEMMA InitRegistered == Init => Inductive
BY DEF Init, Inductive, ServedAreRegistered, FreshAreUntouched, TakenByStop, Fresh, Alive, NotStopping

(* finish() of a connection that was accepted.                             *)
LEMMA FinishRegistered ==
  ASSUME TypeOK, Inductive, NEW c \in Conn, NEW active, NEW audioNow,
         Finish(c, active, audioNow), UNCHANGED <<stopper, taken>>
  PROVE  Inductive'
<1>t. /\ isFinished \in [Conn -> BOOLEAN] /\ link \in [Conn -> {"new", "incoming", "open", "closed"}]
      /\ registered \subseteq Conn /\ taken \subseteq Conn
  BY DEF TypeOK
<1> USE DEF Inductive, ServedAreRegistered, FreshAreUntouched, TakenByStop, Fresh, Alive
<1>1. CASE isFinished[c]
  BY <1>1 DEF Finish
<1>2. CASE ~isFinished[c] /\ EndsSession(c, active)
  <2>1. isFinished' = [d \in Conn |-> isFinished[d] \/ d \in registered]
    BY <1>2, <1>t DEF Finish, EndsSession, Cancelled
  <2>2. link' = [d \in Conn |-> IF d \in registered THEN "closed" ELSE link[d]] /\ registered' = {}
    BY <1>2 DEF Finish, Cut
  <2> QED BY <1>t, <2>1, <2>2
<1>3. CASE ~isFinished[c] /\ ~EndsSession(c, active)
  <2>1. /\ registered' = registered \ {c}
        /\ isFinished' = [isFinished EXCEPT ![c] = TRUE]
        /\ link' = [d \in Conn |-> IF d \in {c} THEN "closed" ELSE link[d]]
    BY <1>3 DEF Finish, Cut
  <2> QED BY <1>t, <2>1
<1> QED BY <1>1, <1>2, <1>3

LEMMA QueueRegistered == ASSUME TypeOK, Inductive, Queue PROVE Inductive'
<1> SUFFICES ASSUME NEW c \in Conn, Accept(c) \/ Receive(c) \/ Handle(c) \/ Ended(c) PROVE Inductive'
  BY DEF Queue
<1>1. CASE Accept(c)
  BY <1>1 DEF Accept, Registered, Inductive, ServedAreRegistered, FreshAreUntouched, TakenByStop,
              Fresh, Alive, TypeOK
<1>2. CASE UNCHANGED <<link, registered, isFinished, stopper, taken>>
  BY <1>2 DEF Inductive, ServedAreRegistered, FreshAreUntouched, TakenByStop, Fresh, Alive
<1>3. CASE Ended(c)
  BY <1>3, FinishRegistered DEF Ended
<1>4. CASE HandleTeardown(c)
  BY <1>4, FinishRegistered DEF HandleTeardown, Handling
<1> QED
  BY <1>1, <1>2, <1>3, <1>4
    DEF Receive, Handle, Handling, handlers, HandleInfo, HandleRecord, HandleEvent, HandleKeys,
        HandleMirror, HandleAudio, HandleTeardownAudio

LEMMA PhonesRegistered == ASSUME TypeOK, Inductive, Phones PROVE Inductive'
<1> SUFFICES ASSUME NEW c \in Conn, Connects(c) \/ Sends(c) \/ HangsUp(c) PROVE Inductive'
  BY DEF Phones
<1> USE DEF Inductive, ServedAreRegistered, FreshAreUntouched, TakenByStop, Fresh, Alive, handlers, TypeOK
<1>1. CASE Connects(c)
  BY <1>1 DEF Connects
<1>2. CASE Sends(c)
  BY <1>2 DEF Sends
<1>3. CASE HangsUp(c)
  BY <1>3 DEF HangsUp
<1> QED BY <1>1, <1>2, <1>3

LEMMA StopsRegistered == ASSUME TypeOK, Inductive, Stops PROVE Inductive'
<1> USE DEF Inductive, ServedAreRegistered, FreshAreUntouched, TakenByStop, Fresh, Alive, handlers, TypeOK
<1>1. ASSUME NEW service \in BOOLEAN, StopTake(service) PROVE Inductive'
  BY <1>1 DEF StopTake
<1>2. CASE StopCancel
  BY <1>2 DEF StopCancel, Cancelled, Cut
<1>3. CASE StopServers
  BY <1>3 DEF StopServers
<1>4. CASE StopContext
  BY <1>4 DEF StopContext, NotStopping
<1>5. CASE StopShutdown
  BY <1>5 DEF StopShutdown, NotStopping
<1>6. CASE Listen
  BY <1>6 DEF Listen
<1> QED BY <1>1, <1>2, <1>3, <1>4, <1>5, <1>6 DEF Stops

LEMMA StutterRegistered == Inductive /\ UNCHANGED vars => Inductive'
BY DEF Inductive, ServedAreRegistered, FreshAreUntouched, TakenByStop, Fresh, Alive, vars, handlers

(* A step of the mirror server's streams touches no handler.               *)
LEMMA StreamsApart ==
  Streams => UNCHANGED <<listening, link, inbox, handlers, handling, servers,
                         stopper, taken, joined, late, bounds>>
BY DEF Streams, ReadKey, ReadStream, Announce, EndStream

LEMMA StreamsRegistered == Inductive /\ Streams => Inductive'
BY StreamsApart
  DEF Inductive, ServedAreRegistered, FreshAreUntouched, TakenByStop, Fresh, Alive, handlers

(* What stop() and endCurrentSession() have to find is there to be found:  *)
(* served connections are registered, or taken by a stop, until they end.  *)
THEOREM RegistryComplete == Spec => []ServedAreRegistered
<1>1. TypeOK /\ Inductive /\ [Next]_vars => Inductive'
  BY QueueRegistered, PhonesRegistered, StreamsRegistered, StopsRegistered, StutterRegistered DEF Next
<1>2. Inductive => ServedAreRegistered
  BY DEF Inductive
<1> QED BY InitRegistered, ControlTypes, <1>1, <1>2, PTL DEF Spec

-----------------------------------------------------------------------------
(* Keys *)

(* The context pairs a stream with its connection's key, if there is one.  *)
ContextKeys ==
  context.stream # None /\ hasKey[context.stream] => context.key = context.stream

(* So does what the mirror server has read of it so far, as long as no     *)
(* other stream has come into the context.                                 *)
KeyRead ==
  \A s \in Stream : video[s].phase = "keyed" /\ ~video[s].torn =>
    (context.stream # None /\ hasKey[context.stream] => video[s].key = context.stream)

Keys == ContextKeys /\ KeyRead

(* A step that resets the context, or touches neither context nor keys.    *)
LEMMA SameKeys ==
  ASSUME Keys, context' = Inactive \/ UNCHANGED <<context, hasKey>>, UNCHANGED video
  PROVE  Keys'
BY DEF Keys, ContextKeys, KeyRead, Inactive

LEMMA QueueKeys == ASSUME TypeOK, Keys, Queue PROVE Keys'
<1> SUFFICES ASSUME NEW c \in Conn, Accept(c) \/ Receive(c) \/ Handle(c) \/ Ended(c)
             PROVE Keys'
  BY DEF Queue
<1>1. CASE HandleKeys(c)
  <2>1. CASE context' = WithKey(c)
    BY <2>1 DEF WithKey, Keys, ContextKeys, KeyRead
  <2> QED BY <1>1, <2>1, SameKeys DEF HandleKeys, servers
<1>2. CASE HandleMirror(c)
  <2>1. CASE UNCHANGED <<context, video>>
    BY <1>2, <2>1, SameKeys DEF HandleMirror
  <2>2. CASE context' = [context EXCEPT !.key = IF hasKey[c] THEN c ELSE @, !.stream = c]
             /\ video' = Torn
    <3>1. ContextKeys'
      BY <1>2, <2>2 DEF HandleMirror, ContextKeys, TypeOK
    <3>2. KeyRead'
      <4> SUFFICES ASSUME NEW s \in Stream, video'[s].phase = "keyed", ~video'[s].torn PROVE FALSE
        BY DEF KeyRead
      <4>1. video[s] \in Video /\ video'[s] = IF video[s].phase = "keyed"
                                            THEN [video[s] EXCEPT !.torn = TRUE] ELSE video[s]
        BY <2>2 DEF Torn, TypeOK, Video
      <4> QED BY <4>1 DEF Video
    <3> QED BY <3>1, <3>2 DEF Keys
  <2> QED BY <1>2, <2>1, <2>2 DEF HandleMirror
<1>3. CASE (context' = Inactive \/ UNCHANGED <<context, hasKey>>) /\ UNCHANGED video
  BY <1>3, SameKeys
<1> QED
  BY <1>1, <1>2, <1>3
    DEF Accept, Receive, Ended, Finish, Handle, handlers, servers, HandleInfo, HandleRecord,
        HandleEvent, HandleAudio, HandleTeardownAudio, HandleTeardown

LEMMA StreamsKeys == ASSUME TypeOK, Keys, Streams PROVE Keys'
<1> USE DEF handlers, servers
<1>1. ContextKeys'
  BY StreamsApart DEF Keys, ContextKeys
<1>2. KeyRead'
  <2> SUFFICES ASSUME NEW s \in Stream, video'[s].phase = "keyed", ~video'[s].torn,
                      context.stream # None, hasKey[context.stream]
               PROVE  video'[s].key = context.stream
    BY StreamsApart DEF KeyRead
  <2>1. PICK u \in Stream : ReadKey(u) \/ ReadStream(u) \/ Announce(u) \/ EndStream(u)
    BY DEF Streams
  <2>2. CASE video'[s] = video[s]
    BY <2>2 DEF Keys, KeyRead
  <2>3. CASE video'[s] # video[s]
    <3>1. video[s] \in Video /\ video \in [Stream -> Video]
      BY DEF TypeOK, Video
    <3>2. ReadKey(s)
      <4>1. u = s
        BY <2>1, <2>3, <3>1 DEF ReadKey, ReadStream, Announce, EndStream
      <4>2. video'[s].phase # "done" /\ video'[s].phase # "open"
        OBVIOUS
      <4>3. ~Announce(s) /\ ~EndStream(s)
        BY <3>1, <4>2 DEF Announce, EndStream, Gone, Unopened
      <4>4. ~ReadStream(s)
        BY <3>1, <4>2 DEF ReadStream, Gone, Unopened, Video
      <4> QED BY <2>1, <4>1, <4>3, <4>4
    <3>3. video'[s].key = context.key
      BY <3>1, <3>2 DEF ReadKey, Gone, Unopened, Video
    <3> QED BY <3>3 DEF Keys, ContextKeys
  <2> QED BY <2>2, <2>3
<1> QED BY <1>1, <1>2 DEF Keys

(* A stream's second read: the key it opens with.                          *)
LEMMA OpensWithItsKey ==
  ASSUME TypeOK, Keys, [Next]_vars, NEW s \in Stream, video[s].phase = "keyed",
         video'[s].phase = "open", ~video[s].torn, hasKey[video'[s].stream]
  PROVE  video'[s].key = video'[s].stream
<1>1. video \in [Stream -> Video] /\ video[s] \in Video
  BY DEF TypeOK, Video
<1>2. video' # video /\ video' # Torn
  BY <1>1 DEF Torn, Video
<1>3. Streams
  BY <1>2
    DEF Next, Queue, Phones, Stops, vars, Connects, Sends, HangsUp, StopTake, StopCancel,
        StopServers, StopContext, StopShutdown, Listen, Accept, Receive, Ended, Handle, HandleInfo,
        HandleRecord, HandleEvent, HandleKeys, HandleMirror, HandleAudio, HandleTeardownAudio,
        HandleTeardown
<1>4. PICK u \in Stream : ReadKey(u) \/ ReadStream(u) \/ Announce(u) \/ EndStream(u)
  BY <1>3 DEF Streams
<1>5. ReadStream(s)
  BY <1>1, <1>4 DEF ReadKey, ReadStream, Announce, EndStream, Gone, Unopened, Video
<1>6. context.stream # None /\ video'[s].key = video[s].key /\ video'[s].stream = context.stream
  BY <1>1, <1>5 DEF ReadStream, Gone, Unopened, Video
<1> QED BY <1>6 DEF Keys, KeyRead

(* A stream is never opened with another connection's key when its own     *)
(* connection has brought one, unless the SETUP of another stream came     *)
(* between the two reads of the mirror server (torn): the context pairs a  *)
(* stream with its own key, a new key and a reset forget the stream.       *)
THEOREM KeysMatchStreams == Spec => StreamUsesItsKey
<1>1. Init => Keys
  BY DEF Init, Keys, ContextKeys, KeyRead, Inactive, Unopened
<1>2. TypeOK /\ Keys /\ [Next]_vars => Keys'
  <2> SUFFICES ASSUME TypeOK, Keys, [Next]_vars PROVE Keys'
    OBVIOUS
  <2>1. CASE Queue
    BY <2>1, QueueKeys
  <2>2. CASE Streams
    BY <2>2, StreamsKeys
  <2>3. CASE Phones \/ Stops \/ UNCHANGED vars
    BY <2>3, SameKeys
      DEF Phones, Stops, vars, handlers, servers, Connects, Sends, HangsUp, StopTake, StopCancel,
          StopServers, StopContext, StopShutdown, Listen
  <2> QED BY <2>1, <2>2, <2>3 DEF Next
<1>3. TypeOK /\ Keys /\ [Next]_vars =>
        [\A s \in Stream :
           video[s].phase = "keyed" /\ video'[s].phase = "open" /\ ~video[s].torn
             /\ hasKey[video'[s].stream]
           => video'[s].key = video'[s].stream]_vars
  BY OpensWithItsKey
<1> QED BY <1>1, <1>2, <1>3, ControlTypes, PTL DEF Spec, StreamUsesItsKey
-----------------------------------------------------------------------------
(* Resources                                                               *)

(* The connection whose segment is being handled is served or has ended.   *)
HandledIsServed ==
  handling.conn # None => Alive(handling.conn) \/ isFinished[handling.conn]

(* Before the first stop no stop is under way.                             *)
Undisturbed == stops = 0 => stopper.phase = "idle"

LEMMA HandledKept ==
  ASSUME TypeOK, Inductive, HandledIsServed, [Next]_vars
  PROVE  HandledIsServed'
<1>t. /\ isFinished \in [Conn -> BOOLEAN] /\ registered \subseteq Conn /\ taken \subseteq Conn
      /\ handling.conn \in Conn \cup {None} /\ None \notin Conn
  BY ControlAssumption DEF TypeOK
<1>1. CASE UNCHANGED <<handling, registered, taken, isFinished>>
  BY <1>1 DEF HandledIsServed, Alive
<1>2. ASSUME NEW c \in Conn, Accept(c) \/ Receive(c) \/ Ended(c) PROVE HandledIsServed'
  <2>1. handling.conn = None
    BY <1>2 DEF Accept, Receive, Ended, Idle
  <2>2. CASE Receive(c)
    BY <1>t, <2>2 DEF Receive, HandledIsServed, Alive, handlers
  <2> QED BY <1>2, <2>1, <2>2 DEF Accept, Ended, HandledIsServed
<1>3. ASSUME NEW c \in Conn, Handle(c) PROVE HandledIsServed'
  <2>1. handling.conn = c /\ handling'.conn \in {c, None} /\ UNCHANGED taken
    <3>1. PICK request \in Request : Handling(c, request)
      BY <1>3 DEF Handle, HandleInfo, HandleRecord, HandleEvent, HandleKeys, HandleMirror,
                  HandleAudio, HandleTeardownAudio, HandleTeardown, Request
    <3>2. handling \in [conn: Conn \cup {None}, requests: Seq(Request)]
      BY DEF TypeOK
    <3> QED BY <3>1, <3>2 DEF Handling, Idle
  <2>2. CASE HandleTeardown(c)
    <3>1. isFinished'[c]
      <4>1. Finish(c, Noticed(c, "teardown"), FALSE)
        BY <2>2 DEF HandleTeardown
      <4>2. Cancelled(registered \ {c}) \in [Conn -> BOOLEAN]
        BY <1>t DEF Cancelled
      <4> QED BY <1>t, <4>1, <4>2 DEF Finish
    <3> QED BY <2>1, <3>1 DEF HandledIsServed
  <2>3. CASE ~HandleTeardown(c)
    <3>1. UNCHANGED <<registered, isFinished>>
      BY <1>3, <2>3 DEF Handle, HandleInfo, HandleRecord, HandleEvent, HandleKeys, HandleMirror,
                        HandleAudio, HandleTeardownAudio
    <3> QED BY <1>t, <2>1, <3>1 DEF HandledIsServed, Alive
  <2> QED BY <2>2, <2>3
<1>4. ASSUME NEW service \in BOOLEAN, StopTake(service) PROVE HandledIsServed'
  BY <1>4 DEF StopTake, HandledIsServed, Alive, Inductive, TakenByStop
<1>5. CASE StopCancel
  BY <1>t, <1>5 DEF StopCancel, HandledIsServed, Alive, Cancelled
<1>6. CASE StopContext \/ StopShutdown
  BY <1>t, <1>6 DEF StopContext, StopShutdown, HandledIsServed, Alive, Inductive, TakenByStop, handlers
<1>7. CASE Phones \/ Streams \/ StopServers \/ Listen \/ UNCHANGED vars
  <2>1. UNCHANGED <<handling, registered, taken, isFinished>>
    BY <1>7, StreamsApart DEF Phones, Connects, Sends, HangsUp, StopServers, Listen, vars, handlers
  <2> QED BY <1>1, <2>1
<1> QED BY <1>2, <1>3, <1>4, <1>5, <1>6, <1>7 DEF Next, Queue, Stops

LEMMA UndisturbedKept ==
  ASSUME TypeOK, Undisturbed, [Next]_vars
  PROVE  /\ Undisturbed'
         /\ stops' = 0 => /\ stops = 0 /\ stopper.phase = "idle"
                          /\ ~StopCancel /\ ~StopServers /\ ~StopContext /\ ~StopShutdown
                          /\ \A service \in BOOLEAN : ~StopTake(service)
<1>1. stops \in Nat
  BY ControlAssumption DEF TypeOK
<1>2. ASSUME stops' = 0
      PROVE  stops = 0 /\ \A service \in BOOLEAN : ~StopTake(service)
  <2>1. \A service \in BOOLEAN : ~StopTake(service)
    BY <1>1, <1>2 DEF StopTake
  <2>2. UNCHANGED stops
    BY <2>1, StreamsApart DEF Next, Queue, Phones, Stops, vars, bounds, Accept, Receive, Ended, Handle,
        HandleInfo, HandleRecord, HandleEvent, HandleKeys, HandleMirror, HandleAudio,
        HandleTeardownAudio, HandleTeardown, Handling, Connects, Sends, HangsUp, StopCancel,
        StopServers, StopContext, StopShutdown, Listen
  <2> QED BY <1>2, <2>1, <2>2
<1>3. ASSUME stops' = 0
      PROVE  /\ stopper.phase = "idle"
             /\ ~StopCancel /\ ~StopServers /\ ~StopContext /\ ~StopShutdown
  BY <1>2, <1>3 DEF Undisturbed, StopCancel, StopServers, StopContext, StopShutdown
<1>4. ASSUME stops' = 0 PROVE UNCHANGED stopper
  BY <1>2, <1>3, <1>4, StreamsApart DEF Next, Queue, Phones, Stops, vars, Accept, Receive, Ended, Handle,
      HandleInfo, HandleRecord, HandleEvent, HandleKeys, HandleMirror, HandleAudio,
      HandleTeardownAudio, HandleTeardown, Handling, Connects, Sends, HangsUp, Listen
<1>5. Undisturbed'
  BY <1>3, <1>4 DEF Undisturbed
<1> QED BY <1>2, <1>3, <1>5, Zenon

(* finish() of a registered connection, before the first stop.             *)
LEMMA FinishOwned ==
  ASSUME TypeOK, ResourcesHaveOwner, stops = 0, ~late, NEW c \in registered, NEW active, NEW audioNow,
         Finish(c, active, audioNow), ~isFinished[c], audioNow => audio,
         sessionIsActive[c] => active, \A d \in Conn \ {c} : sessionIsActive[d] => sessionIsActive'[d]
  PROVE  /\ context'.isActive \/ audio' \/ timing' => \E d \in registered' : sessionIsActive'[d]
         /\ context' # Inactive => registered' # {}
<1>1. CASE EndsSession(c, active)
  BY <1>1 DEF Finish, Inactive
<1>2. CASE ~EndsSession(c, active)
  <2>1. registered' = registered \ {c} /\ audio' = audioNow /\ UNCHANGED <<timing, context>>
    BY <1>2 DEF Finish
  <2>2. ASSUME context'.isActive \/ audio' \/ timing'
        PROVE  \E d \in registered' : sessionIsActive'[d]
    <3>1. PICK d \in registered : sessionIsActive[d]
      BY <2>1, <2>2 DEF ResourcesHaveOwner
    <3>2. d # c
      BY <1>2, <3>1 DEF EndsSession
    <3>3. d \in Conn
      BY DEF TypeOK
    <3> QED BY <2>1, <3>1, <3>2, <3>3
  <2>3. registered' # {}
    <3>1. CASE registered = {c}
      <4>1. context.isActive /\ ~active
        BY <1>2, <3>1 DEF EndsSession
      <4> QED BY <3>1, <4>1 DEF ResourcesHaveOwner
    <3> QED BY <2>1, <3>1
  <2> QED BY <2>2, <2>3
<1> QED BY <1>1, <1>2

LEMMA OwnedKept ==
  ASSUME TypeOK, Inductive, HandledIsServed, Undisturbed, ResourcesHaveOwner, [Next]_vars
  PROVE  ResourcesHaveOwner'
<1> DEFINE owned == context'.isActive \/ audio' \/ timing' => \E c \in registered' : sessionIsActive'[c]
           rooted == context' # Inactive => registered' # {}
<1> SUFFICES ASSUME stops' = 0, ~late' PROVE owned /\ rooted
  BY DEF ResourcesHaveOwner
<1>1. /\ stops = 0 /\ stopper.phase = "idle"
      /\ ~StopCancel /\ ~StopServers /\ ~StopContext /\ ~StopShutdown
      /\ \A service \in BOOLEAN : ~StopTake(service)
  BY UndisturbedKept
<1>2. taken = {} /\ registered \subseteq Conn /\ sessionIsActive \in [Conn -> BOOLEAN]
  BY <1>1 DEF Inductive, TakenByStop, TypeOK
<1>3. ~late
  BY StreamsApart DEF Next, Queue, Phones, Stops, vars, Accept, Receive, Ended, Handle, HandleInfo,
      HandleRecord, HandleEvent, HandleKeys, HandleMirror, HandleAudio, HandleTeardownAudio,
      HandleTeardown, Handling, Connects, Sends, HangsUp, StopTake, StopCancel, StopServers,
      StopContext, StopShutdown, Listen
<1>4. /\ context.isActive \/ audio \/ timing => \E c \in registered : sessionIsActive[c]
      /\ context # Inactive => registered # {}
  BY <1>1, <1>3 DEF ResourcesHaveOwner
<1>5. CASE UNCHANGED <<registered, sessionIsActive, context, audio, timing>>
  BY <1>4, <1>5
<1>6. ASSUME NEW c \in Conn, Accept(c)
      PROVE  owned /\ rooted
  BY <1>4, <1>6 DEF Accept, Registered, servers
<1>7. ASSUME NEW c \in Conn, Ended(c)
      PROVE  owned /\ rooted
  <2>1. c \in registered /\ ~isFinished[c] /\ Finish(c, sessionIsActive[c], audio)
        /\ UNCHANGED sessionIsActive
    BY <1>2, <1>7 DEF Ended, Alive
  <2> QED BY <1>1, <1>3, <2>1, FinishOwned
<1>8. ASSUME NEW c \in Conn, Handle(c)
      PROVE  owned /\ rooted
  <2>1. handling.conn = c /\ ~isFinished[c]
    BY <1>8 DEF Handle, HandleInfo, HandleRecord, HandleEvent, HandleKeys, HandleMirror,
                HandleAudio, HandleTeardownAudio, HandleTeardown, Handling
  <2>2. c \in registered
    BY <1>2, <2>1, ControlAssumption DEF HandledIsServed, Alive
  <2>3. CASE HandleTeardown(c)
    <3>1. Finish(c, Noticed(c, "teardown"), FALSE) /\ Notice(c, "teardown")
      BY <2>3 DEF HandleTeardown
    <3>2. sessionIsActive[c] => Noticed(c, "teardown")
      BY DEF Noticed
    <3>3. \A d \in Conn \ {c} : sessionIsActive[d] => sessionIsActive'[d]
      BY <1>2, <3>1 DEF Notice
    <3> QED BY <1>1, <1>3, <2>1, <2>2, <3>1, <3>2, <3>3, FinishOwned
  <2>4. CASE ~HandleTeardown(c)
    <3>1. UNCHANGED registered
      BY <1>8, <2>4 DEF Handle, HandleInfo, HandleRecord, HandleEvent, HandleKeys, HandleMirror,
                        HandleAudio, HandleTeardownAudio
    <3>2. rooted
      BY <2>2, <3>1
    <3>3. CASE Activate(c)
      <4>1. sessionIsActive'[c] = TRUE
        BY <1>2, <3>3 DEF Activate
      <4> QED BY <2>2, <3>1, <3>2, <4>1
    <3>4. CASE ~Activate(c)
      <4>1. UNCHANGED timing /\ (audio' => audio) /\ (context'.isActive => context.isActive)
        <5>1. CASE HandleKeys(c) \/ HandleAudio(c)
          <6>1. UNCHANGED <<context, timing, audio>>
            BY <3>4, <5>1 DEF HandleKeys, HandleAudio, servers
          <6> QED BY <6>1
        <5>2. CASE HandleMirror(c)
          <6>1. context'.isActive = context.isActive
            BY <5>2 DEF HandleMirror, TypeOK
          <6> QED BY <5>2, <6>1 DEF HandleMirror
        <5>3. ~HandleEvent(c)
          BY <3>4 DEF HandleEvent
        <5>4. CASE HandleTeardownAudio(c)
          BY <5>4 DEF HandleTeardownAudio
        <5>5. CASE HandleRecord(c) \/ HandleInfo(c, "info") \/ HandleInfo(c, "feedback")
          BY <5>5 DEF HandleRecord, HandleInfo, servers
        <5> QED BY <1>8, <2>4, <5>1, <5>2, <5>3, <5>4, <5>5 DEF Handle
      <4>2. \E request \in Request : Notice(c, request)
        BY <1>1, <1>8, <2>4, <3>4
          DEF Handle, HandleInfo, HandleRecord, HandleEvent, HandleKeys, HandleMirror, HandleAudio,
              HandleTeardownAudio, Request
      <4>3. \A d \in Conn : sessionIsActive[d] => sessionIsActive'[d]
        BY <1>2, <4>2 DEF Notice, Noticed
      <4> QED BY <1>2, <1>4, <3>1, <3>2, <4>1, <4>3
    <3> QED BY <3>3, <3>4
  <2> QED BY <2>3, <2>4
<1>9. CASE Phones \/ Streams \/ Listen \/ UNCHANGED vars \/ \E c \in Conn : Receive(c)
  <2>1. UNCHANGED <<registered, sessionIsActive, context, audio, timing>>
    BY <1>9, StreamsApart DEF Phones, Connects, Sends, HangsUp, Listen, vars, handlers, servers, Receive
  <2> QED BY <1>5, <2>1
<1> QED BY <1>1, <1>6, <1>7, <1>8, <1>9 DEF Next, Queue, Stops

(* Until something is stopped no part of a session is left without a       *)
(* registered connection that knows of it and will reset it at its end:    *)
(* whoever sets a part up is marked active with it, and the end of the     *)
(* last active one resets them all; and what a SETUP writes to the context *)
(* before it fails on a mirror server that is down goes with the last      *)
(* connection, active or not.                                              *)
THEOREM NothingOutlivesItsOwner == Spec => []ResourcesHaveOwner
<1>1. Init => Undisturbed /\ HandledIsServed /\ ResourcesHaveOwner
  BY DEF Init, Undisturbed, HandledIsServed, ResourcesHaveOwner, NotStopping, Idle, Inactive
<1>2. TypeOK /\ Inductive /\ [Next]_vars => Inductive'
  BY QueueRegistered, PhonesRegistered, StreamsRegistered, StopsRegistered, StutterRegistered DEF Next
<1>3. TypeOK /\ Inductive /\ Undisturbed /\ HandledIsServed /\ ResourcesHaveOwner /\ [Next]_vars
        => Undisturbed' /\ HandledIsServed' /\ ResourcesHaveOwner'
  BY UndisturbedKept, HandledKept, OwnedKept
<1> QED BY InitRegistered, ControlTypes, <1>1, <1>2, <1>3, PTL DEF Spec
=============================================================================
