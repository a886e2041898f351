--------------------------- MODULE AirPlayControl ---------------------------
(***************************************************************************)
(* The AirPlay control connections: AirPlayConnectionHandler's request     *)
(* loop and RTSP methods, the process-wide AirPlaySessionContext, and the  *)
(* part of NetworkStreamReceiver that registers handlers and decides, when *)
(* one ends, whether the whole mirror session ends with it.                *)
(*                                                                         *)
(* Every callback of every connection runs on the receiver's serial queue: *)
(* accepting it, each request of a received segment, and its end are steps *)
(* of that queue.  stop() and endCurrentSession() run elsewhere, in steps  *)
(* that end where they touch what the queue's steps touch.                 *)
(*                                                                         *)
(* Pairing and the wording of answers are left out; of the mirror video    *)
(* server there is whether it is up, the two reads with which it opens a   *)
(* stream, and that a stream announces itself (the rest is MirrorServer).  *)
(* Keys and stream ids are named by the connection that brought them.      *)
(***************************************************************************)
EXTENDS Integers, Sequences

CONSTANTS
  Conn,         \* control connections, numbered in the order they are opened
  Stream,       \* connections to the mirror server, one slot for each
  None,         \* no connection
  MaxEvents,    \* bound: segments the phones send, and stops, together
  MaxBatch,     \* bound: requests in one segment
  MaxStops      \* bound: calls of stop() and endCurrentSession()

ASSUME ControlAssumption ==
  Conn \subseteq Nat /\ None \notin Conn /\ {MaxEvents, MaxBatch, MaxStops} \subseteq Nat

(* What a phone may ask; "feedback" is any request with nothing to do that *)
(* carries the Session header of a session it knows of, "info" any such    *)
(* request without one.                                                    *)
Request == {"info", "feedback", "keys", "mirror", "audio", "event", "record",
            "teardown", "teardownAudio"}

VARIABLES
  listening,        \* the Bonjour listener is up
  link,             \* what the network framework says of each connection
  inbox,            \* segments received, not yet handed to the handler
  registered,       \* NetworkStreamReceiver.activeHandlers
  isFinished,       \* per handler
  sessionIsActive,  \* per handler
  hasKey,           \* per handler: aesKey is not empty
  handling,         \* the segment whose requests the queue is running
  context,          \* AirPlaySessionContext
  audio,            \* AirPlayAudioServer is running
  timing,           \* AirPlayTimingServer is running
  mirrorUp,         \* AirPlayMirrorServer is accepting
  published,        \* the last of mirroringStarted and sessionEnded
  stopper,          \* where stop() or endCurrentSession() stands
  taken,            \* the handlers it took out of activeHandlers
  joined,           \* history: connections that asked for more than "info"
  late,             \* history: a request was handled after its handler's end
  video,            \* the streams AirPlayMirrorServer has accepted
  segments, stops   \* counts, for the bounds

handlers == <<registered, isFinished, sessionIsActive, hasKey>>
servers == <<context, audio, timing, mirrorUp>>
bounds == <<segments, stops>>
vars == <<listening, link, inbox, handlers, handling, servers, published,
          stopper, taken, joined, late, video, bounds>>

NotStopping == [phase |-> "idle", service |-> FALSE]
Idle == [conn |-> None, requests |-> <<>>]
Inactive == [isActive |-> FALSE, key |-> None, stream |-> None]
Unopened == [phase |-> "new", key |-> None, stream |-> None, torn |-> FALSE]
Gone == [Unopened EXCEPT !.phase = "done"]

TypeOK ==
  /\ listening \in BOOLEAN
  /\ link \in [Conn -> {"new", "incoming", "open", "closed"}]
  /\ inbox \in [Conn -> Seq(Request)]
  /\ registered \subseteq Conn
  /\ isFinished \in [Conn -> BOOLEAN]
  /\ sessionIsActive \in [Conn -> BOOLEAN]
  /\ hasKey \in [Conn -> BOOLEAN]
  /\ handling \in [conn: Conn \cup {None}, requests: Seq(Request)]
  /\ context \in [isActive: BOOLEAN, key: Conn \cup {None}, stream: Conn \cup {None}]
  /\ audio \in BOOLEAN /\ timing \in BOOLEAN /\ mirrorUp \in BOOLEAN
  /\ published \in {"nothing", "started", "ended", "orphaned"}
  /\ stopper \in [phase: {"idle", "cancel", "servers", "context", "shutdown"},
                  service: BOOLEAN]
  /\ taken \subseteq Conn
  /\ joined \subseteq Conn /\ late \in BOOLEAN
  /\ video \in [Stream -> [phase: {"new", "keyed", "open", "done"}, key: Conn \cup {None},
                            stream: Conn \cup {None}, torn: BOOLEAN]]
  /\ segments \in 0..MaxEvents /\ stops \in 0..MaxStops

(* After start(), which succeeds whether or not the mirror server could    *)
(* bind: it is tried again at every SETUP.                                 *)
Init ==
  /\ listening = TRUE
  /\ link = [c \in Conn |-> "new"]
  /\ inbox = [c \in Conn |-> <<>>]
  /\ registered = {}
  /\ isFinished = [c \in Conn |-> FALSE]
  /\ sessionIsActive = [c \in Conn |-> FALSE]
  /\ hasKey = [c \in Conn |-> FALSE]
  /\ handling = Idle
  /\ context = Inactive
  /\ audio = FALSE /\ timing = FALSE
  /\ mirrorUp \in BOOLEAN
  /\ published = "nothing"
  /\ stopper = NotStopping
  /\ taken = {} /\ joined = {} /\ late = FALSE
  /\ video = [s \in Stream |-> Unopened]
  /\ segments = 0 /\ stops = 0

-----------------------------------------------------------------------------
(* Phones and the network *)

Connects(c) ==
  /\ listening
  /\ link[c] = "new" /\ \A d \in Conn : d < c => link[d] # "new"
  /\ link' = [link EXCEPT ![c] = "incoming"]
  /\ UNCHANGED <<listening, inbox, handlers, handling, servers, published,
                 stopper, taken, joined, late, video, bounds>>

(* One receive is outstanding at a time, and a phone that has hung up or   *)
(* been cut off sends nothing.                                             *)
Sends(c) ==
  /\ link[c] = "open"
  /\ inbox[c] = <<>> /\ handling.conn # c
  /\ segments + stops < MaxEvents
  /\ segments' = segments + 1
  /\ \E n \in 1..MaxBatch : \E requests \in [1..n -> Request] :
       inbox' = [inbox EXCEPT ![c] = requests]
  /\ UNCHANGED <<listening, link, handlers, handling, servers, published,
                 stopper, taken, joined, late, video, stops>>

HangsUp(c) ==
  /\ link[c] = "open"
  /\ link' = [link EXCEPT ![c] = "closed"]
  /\ UNCHANGED <<listening, inbox, handlers, handling, servers, published,
                 stopper, taken, joined, late, video, bounds>>

-----------------------------------------------------------------------------
(* NetworkStreamReceiver, on its queue *)

(* Connections that are cancelled, with or without a finish().             *)
Cut(conns) == link' = [c \in Conn |-> IF c \in conns THEN "closed" ELSE link[c]]

(* activeHandlers with a handler for this connection.                      *)
Registered(c) == registered \cup {c}

(* handleIncomingConnection: a connection that arrived before the listener *)
(* was cancelled is still delivered.                                       *)
Accept(c) ==
  /\ handling = Idle
  /\ link[c] = "incoming"
  /\ link' = [link EXCEPT ![c] = "open"]
  /\ registered' = Registered(c)
  /\ UNCHANGED <<listening, inbox, isFinished, sessionIsActive, hasKey, handling,
                 servers, published, stopper, taken, joined, late, video, bounds>>

(* handler.cancel() of these: the flag goes up, the connection down.       *)
CancelKeepsFlag(conns) == isFinished   \* mutant
Cancelled(conns) == [c \in Conn |-> isFinished[c] \/ c \in conns]

(* handleConnectionEnded: the end of an active connection, or of the last  *)
(* one with no session on, ends the whole session.                         *)
EndsWhenAlone(c, active) == registered = {c} /\ (active \/ ~context.isActive)   \* mutant
EndsSession(c, active) ==
  c \in registered /\ (active \/ (registered = {c} /\ ~context.isActive))

(* finish() of c, whose sessionIsActive is this: it takes c out of the     *)
(* registry, or with the session all others too, and resetSessionState().  *)
Finish(c, active, audioNow) ==
  \/ /\ isFinished[c]
     /\ audio' = audioNow
     /\ UNCHANGED <<registered, isFinished, link, timing, context, published>>
  \/ /\ ~isFinished[c] /\ EndsSession(c, active)
     /\ registered' = {}
     /\ isFinished' = [Cancelled(registered \ {c}) EXCEPT ![c] = TRUE]
     /\ Cut(registered)
     /\ audio' = FALSE /\ timing' = FALSE
     /\ context' = Inactive
     /\ published' = "ended"
  \/ /\ ~isFinished[c] /\ ~EndsSession(c, active)
     /\ registered' = registered \ {c}
     /\ isFinished' = [isFinished EXCEPT ![c] = TRUE]
     /\ Cut({c})
     /\ audio' = audioNow
     /\ UNCHANGED <<timing, context, published>>

(* Callbacks hold their handler weakly: only a handler that is registered, *)
(* or in the array a stop is walking, is still there to be called.         *)
Alive(c) == c \in registered \cup taken

(* The receive callback with data: the handler goes through its requests.  *)
Receive(c) ==
  /\ handling = Idle
  /\ inbox[c] # <<>> /\ Alive(c)
  /\ handling' = [conn |-> c, requests |-> inbox[c]]
  /\ inbox' = [inbox EXCEPT ![c] = <<>>]
  /\ UNCHANGED <<listening, link, handlers, servers, published, stopper, taken, joined, late, video, bounds>>

(* The receive callback with an error or the end of the stream, or the     *)
(* state callback that the connection failed or was cancelled.             *)
Ended(c) ==
  /\ handling = Idle
  /\ link[c] = "closed" /\ ~isFinished[c] /\ inbox[c] = <<>> /\ Alive(c)
  /\ Finish(c, sessionIsActive[c], audio)
  /\ UNCHANGED <<listening, inbox, sessionIsActive, hasKey, handling, mirrorUp,
                 stopper, taken, joined, late, video, bounds>>

-----------------------------------------------------------------------------
(* AirPlayConnectionHandler.handle(_:), one action per kind of request *)

(* The next request of the segment is this one; handle() marks the handler *)
(* active if the request names a session or if any session is on.          *)
Handling(c, request) ==
  /\ handling.conn = c
  /\ handling.requests # <<>> /\ handling.requests[1] = request
  /\ handling' = IF Len(handling.requests) = 1 THEN Idle
                 ELSE [handling EXCEPT !.requests = Tail(@)]
  /\ joined' = IF request = "info" THEN joined ELSE joined \cup {c}
  /\ late' = (late \/ isFinished[c])
  /\ UNCHANGED <<listening, inbox, stopper, taken, bounds>>

Noticed(c, request) == sessionIsActive[c] \/ request = "feedback" \/ context.isActive

Activate(c) == sessionIsActive' = [sessionIsActive EXCEPT ![c] = TRUE]
Notice(c, request) == sessionIsActive' = [sessionIsActive EXCEPT ![c] = Noticed(c, request)]

(* ensureRunning() of the mirror server may fail to bind.                  *)
EnsureMirror == mirrorUp' \in {mirrorUp, TRUE}

(* Requests that only get an answer.                                       *)
HandleInfo(c, request) ==
  /\ request \in {"info", "feedback"}
  /\ Handling(c, request)
  /\ Notice(c, request)
  /\ UNCHANGED <<link, registered, isFinished, hasKey, servers, published, video>>

HandleRecord(c) ==
  /\ Handling(c, "record")
  /\ Notice(c, "record")
  /\ EnsureMirror
  /\ UNCHANGED <<link, registered, isFinished, hasKey, context, audio, timing, published, video>>

(* SETUP of the event channel.                                             *)
HandleEvent(c) ==
  /\ Handling(c, "event")
  /\ Activate(c)
  /\ UNCHANGED <<link, registered, isFinished, hasKey, servers, published, video>>

(* activate() and configureMirrorStream() with a new key and no stream id. *)
WithKeyAlone(c) == [context EXCEPT !.isActive = TRUE, !.key = c]   \* mutant
WithKey(c) == [isActive |-> TRUE, key |-> c, stream |-> None]

(* SETUP with ekey and eiv; if the key cannot be decrypted nothing happens.*)
HandleKeys(c) ==
  /\ Handling(c, "keys")
  /\ \/ /\ Notice(c, "keys")
        /\ UNCHANGED <<hasKey, servers>>
     \/ /\ Activate(c)
        /\ hasKey' = [hasKey EXCEPT ![c] = TRUE]
        /\ context' = WithKey(c)
        /\ timing' \in {timing, TRUE}
        /\ EnsureMirror
        /\ UNCHANGED audio
  /\ UNCHANGED <<link, registered, isFinished, published, video>>

(* The streams whose key the mirror server has read and whose id it has    *)
(* not, once the context names another stream.                             *)
Torn ==
  [s \in Stream |-> IF video[s].phase = "keyed" THEN [video[s] EXCEPT !.torn = TRUE] ELSE video[s]]

(* SETUP of the type-110 stream; the key is the handler's or the context's.*)
(* One without a streamConnectionID leaves the context alone; one that     *)
(* finds the mirror server down fails when the context is already written. *)
HandleMirror(c) ==
  /\ Handling(c, "mirror")
  /\ \/ context' = [context EXCEPT !.key = IF hasKey[c] THEN c ELSE @, !.stream = c] /\ video' = Torn
     \/ UNCHANGED <<context, video>>
  /\ EnsureMirror
  /\ IF mirrorUp' THEN Activate(c) /\ published' = "started"
     ELSE Notice(c, "mirror") /\ UNCHANGED published
  /\ UNCHANGED <<link, registered, isFinished, hasKey, audio, timing>>

(* SETUP of an audio stream (96, 103 or any other type).                   *)
HandleAudio(c) ==
  /\ Handling(c, "audio")
  /\ \/ Activate(c) /\ audio' = TRUE
     \/ Notice(c, "audio") /\ UNCHANGED audio
  /\ UNCHANGED <<link, registered, isFinished, hasKey, context, timing, mirrorUp, published,
                 video>>

(* TEARDOWN of the audio streams only.                                     *)
HandleTeardownAudio(c) ==
  /\ Handling(c, "teardownAudio")
  /\ Notice(c, "teardownAudio")
  /\ audio' = FALSE
  /\ UNCHANGED <<link, registered, isFinished, hasKey, context, timing, mirrorUp, published,
                 video>>

(* TEARDOWN of the session: the audio stops, whoever it belongs to, and    *)
(* finish() sees the flag that handle() has just set.                      *)
HandleTeardown(c) ==
  /\ Handling(c, "teardown")
  /\ Notice(c, "teardown")
  /\ Finish(c, Noticed(c, "teardown"), FALSE)
  /\ UNCHANGED <<hasKey, mirrorUp, video>>

Handle(c) ==
  \/ HandleInfo(c, "info") \/ HandleInfo(c, "feedback")
  \/ HandleRecord(c) \/ HandleEvent(c) \/ HandleKeys(c)
  \/ HandleMirror(c) \/ HandleAudio(c)
  \/ HandleTeardownAudio(c) \/ HandleTeardown(c)

-----------------------------------------------------------------------------
(* AirPlayMirrorServer, on its own queue, and its streams on the session's *)

(* acceptConnections: the key is read under the context's lock, and a      *)
(* connection that comes when there is none is closed.                     *)
ReadKey(s) ==
  /\ mirrorUp
  /\ video[s].phase = "new" /\ \A t \in Stream : video[t].phase # "keyed"
  /\ video' = [video EXCEPT ![s] = IF context.key = None THEN Gone
                                    ELSE [@ EXCEPT !.phase = "keyed", !.key = context.key]]
  /\ UNCHANGED <<listening, link, inbox, handlers, handling, servers, published,
                 stopper, taken, joined, late, bounds>>

(* ... and the stream id, the lock having been let go in between.          *)
ReadStream(s) ==
  /\ video[s].phase = "keyed"
  /\ video' = [video EXCEPT ![s] = IF context.stream = None THEN Gone
                                    ELSE [@ EXCEPT !.phase = "open", !.stream = context.stream]]
  /\ UNCHANGED <<listening, link, inbox, handlers, handling, servers, published,
                 stopper, taken, joined, late, bounds>>

(* notifyStreamStartedIfNeeded: the first usable bytes, once per stream.   *)
(* No end of a session stops a stream; when no connection is left, none    *)
(* will announce its end.                                                  *)
Announce(s) ==
  /\ video[s].phase = "open"
  /\ video' = [video EXCEPT ![s] = Gone]
  /\ published' = IF registered = {} THEN "orphaned" ELSE "started"
  /\ UNCHANGED <<listening, link, inbox, handlers, handling, servers,
                 stopper, taken, joined, late, bounds>>

(* The stream ends before that: closed, idle, failed, replaced or stopped. *)
EndStream(s) ==
  /\ video[s].phase = "open"
  /\ video' = [video EXCEPT ![s] = Gone]
  /\ UNCHANGED <<listening, link, inbox, handlers, handling, servers, published,
                 stopper, taken, joined, late, bounds>>

-----------------------------------------------------------------------------
(* stop() and endCurrentSession(), on another thread *)

(* Under the lock: take the handlers out of the registry.                  *)
StopTake(service) ==
  /\ stopper.phase = "idle" /\ stops < MaxStops /\ segments + stops < MaxEvents
  /\ stops' = stops + 1
  /\ stopper' = [phase |-> "cancel", service |-> service]
  /\ taken' = registered
  /\ registered' = {}
  /\ UNCHANGED <<listening, link, inbox, isFinished, sessionIsActive, hasKey,
                 handling, servers, published, joined, late, video, segments>>

(* Cancel each handler; stop() cancels the listener too.                   *)
StopCancel ==
  /\ stopper.phase = "cancel"
  /\ stopper' = [stopper EXCEPT !.phase = "servers"]
  /\ isFinished' = Cancelled(taken)
  /\ Cut(taken)
  /\ listening' = (listening /\ ~stopper.service)
  /\ UNCHANGED <<inbox, registered, sessionIsActive, hasKey, handling, servers,
                 published, taken, joined, late, video, bounds>>

(* resetSessionState: the audio and timing servers, then the context.      *)
StopServers ==
  /\ stopper.phase = "servers"
  /\ stopper' = [stopper EXCEPT !.phase = "context"]
  /\ audio' = FALSE /\ timing' = FALSE
  /\ UNCHANGED <<listening, link, inbox, handlers, handling, context, mirrorUp,
                 published, taken, joined, late, video, bounds>>

StopContext ==
  /\ stopper.phase = "context"
  /\ context' = Inactive
  /\ IF stopper.service
     THEN stopper' = [stopper EXCEPT !.phase = "shutdown"] /\ UNCHANGED taken
     ELSE stopper' = NotStopping /\ taken' = {}
  /\ UNCHANGED <<listening, link, inbox, handlers, handling, audio, timing,
                 mirrorUp, published, joined, late, video, bounds>>

(* shutdown() waits for the server's queue, hence for an accept.           *)
StopShutdown ==
  /\ stopper.phase = "shutdown" /\ \A s \in Stream : video[s].phase # "keyed"
  /\ mirrorUp' = FALSE
  /\ stopper' = NotStopping /\ taken' = {}
  /\ UNCHANGED <<listening, link, inbox, handlers, handling, context, audio,
                 timing, published, joined, late, video, bounds>>

(* start() after a stop(): a new listener, and the mirror server if it can.*)
Listen ==
  /\ ~listening /\ stopper = NotStopping
  /\ listening' = TRUE
  /\ EnsureMirror
  /\ UNCHANGED <<link, inbox, handlers, handling, context, audio, timing,
                 published, stopper, taken, joined, late, video, bounds>>

-----------------------------------------------------------------------------

Queue == \E c \in Conn : Accept(c) \/ Receive(c) \/ Handle(c) \/ Ended(c)
Phones == \E c \in Conn : Connects(c) \/ Sends(c) \/ HangsUp(c)
Stops ==
  \/ \E service \in BOOLEAN : StopTake(service)
  \/ StopCancel \/ StopServers \/ StopContext \/ StopShutdown
  \/ Listen

Streams == \E s \in Stream : ReadKey(s) \/ ReadStream(s) \/ Announce(s) \/ EndStream(s)

Next == Queue \/ Phones \/ Streams \/ Stops

Spec == Init /\ [][Next]_vars

(* The queue runs what is submitted to it; phones owe nothing.             *)
FairSpec == Spec /\ WF_vars(Queue)

-----------------------------------------------------------------------------
(* Properties *)

(* Every connection that is being served is in the registry, or in the     *)
(* hands of the stop that emptied it, and no ended one is left there: what *)
(* stop() and endCurrentSession() do not find they can never cancel.       *)
ServedAreRegistered ==
  \A c \in Conn :
    /\ c \in registered => ~isFinished[c]
    /\ link[c] \notin {"new", "incoming"} /\ ~isFinished[c] => Alive(c)

(* A stream is opened with the key its connection has brought, not another *)
(* connection's: the context never pairs a stream with a foreign key while *)
(* its own is known (SETUP with ekey forgets the stream), and of all that  *)
(* can come between the mirror server's two reads only the SETUP of        *)
(* another stream does harm (torn); a new key or a reset make it refuse.   *)
StreamUsesItsKey ==
  [][\A s \in Stream :
       video[s].phase = "keyed" /\ video'[s].phase = "open" /\ ~video[s].torn
         /\ hasKey[video'[s].stream]
       => video'[s].key = video'[s].stream]_vars

(* Until something is stopped, a session that is on, its audio and its     *)
(* timing are owned by a registered connection that knows of its session,  *)
(* whose end will reset them, and what a SETUP that failed has written to  *)
(* the context is not left without connections: nothing of a session       *)
(* outlives its connections, unless a phone asks for more in the segment   *)
(* that ended its connection.  (An open video stream does: EndIsHeard.)    *)
ResourcesHaveOwner ==
  stops = 0 /\ ~late =>
    /\ context.isActive \/ audio \/ timing => \E c \in registered : sessionIsActive[c]
    /\ context # Inactive => registered # {}

(* When every phone has hung up, a mirroring that was announced, by SETUP  *)
(* or by the stream itself, is announced as ended, so that its window      *)
(* closes, unless something has been stopped meanwhile, a segment outlived *)
(* its connection, or the stream announced itself when no connection was   *)
(* left ("orphaned": no one ends that).                                    *)
EndIsHeard ==
  published = "started" /\ (\A c \in Conn : link[c] \in {"new", "closed"})
    ~> published = "ended" \/ stops > 0 \/ late \/ \E c \in Conn : link[c] = "open"

(* An active session is reset only because a connection that took part in  *)
(* a session ended or tore down: a probe's end never resets it.            *)
ProbeSparesMirror ==
  [][context.isActive /\ ~context'.isActive =>
       \E c \in registered \cap joined' : link[c] = "closed" \/ handling.conn = c]_vars
=============================================================================
