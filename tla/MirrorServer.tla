----------------------------- MODULE MirrorServer -----------------------------
(***************************************************************************)
(* The mirror video server: AirPlayMirrorServer, which accepts the phones' *)
(* video connections, and the MirrorStreamSession of each.                 *)
(*                                                                         *)
(* Accepting, ensureRunning(), shutdown() and the end notices of sessions  *)
(* are serialised by the server's queue.  The read loop of a session and   *)
(* the decoder resets are jobs of one other serial queue; a loop holds it  *)
(* until its connection ends.  Sessions, their sockets and the sets of     *)
(* keys they were given are named by the stream.  What a loop makes of the *)
(* bytes it reads is reduced to the codec configuration it installs.       *)
(***************************************************************************)
EXTENDS Integers, Sequences, FiniteSetsExt

CONSTANTS
  Stream,    \* video connections, one slot for each a phone opens
  None,      \* no stream
  Other,     \* any other part of the process that opens descriptors
  Reset,     \* the job h264Decoder.reset()
  MaxFd,     \* bound: file descriptors 1..MaxFd
  MaxSetups, \* bound: SETUPs of a session
  MaxResets  \* bound: calls of resetSession() and shutdown()

ASSUME ServerAssumption ==
  /\ {None, Other, Reset} \cap Stream = {} /\ Cardinality({None, Other, Reset}) = 3
  /\ MaxFd \in Nat /\ MaxSetups \in Nat /\ MaxResets \in Nat

FD == 1..MaxFd
NoFd == 0
Setup == 0..MaxSetups

VARIABLES
  running,      \* isRunning: the listening socket is open
  at,           \* where each stream stands
  fd,           \* socketFD of each stream
  owner,        \* who has each descriptor open
  shut,         \* streams whose socket is shut down, by either end
  shouldStop,   \* MirrorStreamSession._shouldStop
  active,       \* activeSession
  accepting,    \* where acceptConnections, or shutdown, stands
  sessionQueue, \* the jobs of sessionQueue, the running one first
  ended,        \* streams whose end notice waits on the server's queue
  context,      \* AirPlaySessionContext: the SETUP its key, and stream id, is of
  keys,         \* the same pair as each session was given it
  decoder,      \* the stream whose configuration the decoder has
  configured,   \* streams that sent a configuration
  setups, resets \* counts, for the bounds

streams == <<at, fd, owner, shut, shouldStop, keys, configured>>
server == <<running, active, accepting, ended>>
control == <<context, setups, resets>>
vars == <<streams, server, sessionQueue, control, decoder>>

Quiet == [phase |-> "idle", stream |-> None, key |-> 0]

StreamsOK ==
  /\ at \in [Stream -> {"away", "backlog", "accepted", "queued", "reading",
                        "ended", "dropped", "refused"}]
  /\ fd \in [Stream -> FD \cup {NoFd}]
  /\ owner \in [FD -> Stream \cup {None, Other}]
  /\ shouldStop \in [Stream -> BOOLEAN]
  /\ keys \in [Stream -> [key: Setup, stream: Setup]]
  /\ shut \subseteq Stream /\ configured \subseteq Stream /\ ended \subseteq Stream
  /\ decoder \in Stream \cup {None}
AcceptingOK ==
  /\ active \in Stream \cup {None}
  /\ accepting \in {Quiet}
       \cup [phase: {"key", "install"}, stream: Stream, key: Setup \ {0}]
       \cup [phase: {"replace", "shutdown"}, stream: Stream \cup {None}, key: Setup]
JobsOK == sessionQueue \in Seq(Stream \cup {Reset})
ControlOK ==
  /\ running \in BOOLEAN
  /\ context \in [key: Setup, stream: Setup]
  /\ setups \in Setup /\ resets \in 0..MaxResets
TypeOK == StreamsOK /\ AcceptingOK /\ JobsOK /\ ControlOK

Init ==
  /\ running = FALSE
  /\ at = [s \in Stream |-> "away"]
  /\ fd = [s \in Stream |-> NoFd]
  /\ owner = [f \in FD |-> None]
  /\ shut = {} /\ configured = {} /\ ended = {}
  /\ shouldStop = [s \in Stream |-> FALSE]
  /\ active = None
  /\ accepting = Quiet
  /\ sessionQueue = <<>>
  /\ context = [key |-> 0, stream |-> 0]
  /\ keys = [s \in Stream |-> [key |-> 0, stream |-> 0]]
  /\ decoder = None
  /\ setups = 0 /\ resets = 0

-----------------------------------------------------------------------------
(* The control connections, phones and the rest of the process *)

(* SETUP with keys: a new key, no stream id yet.                           *)
SetupKeys ==
  /\ setups < MaxSetups
  /\ setups' = setups + 1
  /\ context' = [key |-> setups', stream |-> 0]
  /\ UNCHANGED <<streams, server, sessionQueue, decoder, resets>>

(* SETUP of the video stream, with the key there is.                       *)
SetupStream ==
  /\ context.key # 0 /\ context.stream = 0
  /\ context' = [context EXCEPT !.stream = context.key]
  /\ UNCHANGED <<streams, server, sessionQueue, decoder, setups, resets>>

(* The decoder is reset by a job of the session queue, not at once.        *)
ResetNow == decoder' = None /\ UNCHANGED sessionQueue   \* mutant
QueueReset == sessionQueue' = Append(sessionQueue, Reset) /\ UNCHANGED decoder

(* The end of a session: resetSession() and the context's deactivate().    *)
EndSession ==
  /\ resets < MaxResets
  /\ resets' = resets + 1
  /\ QueueReset
  /\ context' = [key |-> 0, stream |-> 0]
  /\ UNCHANGED <<streams, server, setups>>

(* A phone connects to the listening socket, or hangs up.                  *)
Connects(s) ==
  /\ running /\ at[s] = "away"
  /\ at' = [at EXCEPT ![s] = "backlog"]
  /\ UNCHANGED <<fd, owner, shut, shouldStop, keys, configured, server, sessionQueue,
                 control, decoder>>

HangsUp(s) ==
  /\ at[s] \in {"accepted", "queued", "reading"}
  /\ shut' = shut \cup {s}
  /\ UNCHANGED <<at, fd, owner, shouldStop, keys, configured, server, sessionQueue,
                 control, decoder>>

(* accept(2) and socket(2) return the lowest descriptor that is free.      *)
FreeFds == {f \in FD : owner[f] = None}

OtherOpens ==
  /\ FreeFds # {}
  /\ owner' = [owner EXCEPT ![Min(FreeFds)] = Other]
  /\ UNCHANGED <<at, fd, shut, shouldStop, keys, configured, server, sessionQueue,
                 control, decoder>>

OtherCloses(f) ==
  /\ owner[f] = Other
  /\ owner' = [owner EXCEPT ![f] = None]
  /\ UNCHANGED <<at, fd, shut, shouldStop, keys, configured, server, sessionQueue,
                 control, decoder>>

-----------------------------------------------------------------------------
(* AirPlayMirrorServer, on its queue *)

(* startListenerIfNeeded, when socket, bind and listen succeed.            *)
EnsureRunning ==
  /\ accepting = Quiet
  /\ ~running
  /\ running' = TRUE
  /\ UNCHANGED <<streams, active, accepting, ended, sessionQueue, control, decoder>>

KeyKnown == context.key # 0

(* acceptConnections: accept, and read the key.  With every descriptor in  *)
(* use accept fails and the connection waits; without a key it is closed.  *)
AcceptClient(s) ==
  /\ accepting = Quiet /\ running
  /\ at[s] = "backlog"
  /\ FreeFds # {}
  /\ IF KeyKnown
     THEN /\ at' = [at EXCEPT ![s] = "accepted"]
          /\ fd' = [fd EXCEPT ![s] = Min(FreeFds)]
          /\ owner' = [owner EXCEPT ![Min(FreeFds)] = s]
          /\ accepting' = [phase |-> "key", stream |-> s, key |-> context.key]
     ELSE /\ at' = [at EXCEPT ![s] = "refused"]
          /\ UNCHANGED <<fd, owner, accepting>>
  /\ UNCHANGED <<shut, shouldStop, keys, configured, running, active, ended,
                 sessionQueue, control, decoder>>

(* The stream id is read under the lock a second time.                     *)
ReadStreamID ==
  /\ accepting.phase = "key"
  /\ LET s == accepting.stream IN
     IF context.stream = 0
     THEN /\ at' = [at EXCEPT ![s] = "refused"]
          /\ owner' = [owner EXCEPT ![fd[s]] = None]
          /\ accepting' = Quiet
          /\ UNCHANGED keys
     ELSE /\ keys' = [keys EXCEPT ![s] = [key |-> accepting.key, stream |-> context.stream]]
          /\ accepting' = [accepting EXCEPT !.phase = "install"]
          /\ UNCHANGED <<at, owner>>
  /\ UNCHANGED <<fd, shut, shouldStop, configured, running, active, ended,
                 sessionQueue, control, decoder>>

(* stop() of a session raises its flag ...                                 *)
RaiseFlag(s) ==
  shouldStop' = IF s = None THEN shouldStop ELSE [shouldStop EXCEPT ![s] = TRUE]

(* The session a new one takes the place of.                               *)
ReplacesNobody == None   \* mutant
Replaced == active

(* The session becomes the active one and its predecessor is told to stop. *)
Install ==
  /\ accepting.phase = "install"
  /\ active' = accepting.stream
  /\ RaiseFlag(Replaced)
  /\ accepting' = [accepting EXCEPT !.phase = "replace", !.stream = Replaced]
  /\ UNCHANGED <<at, fd, owner, shut, keys, configured, running, ended, sessionQueue,
                 control, decoder>>

(* ... then shuts down whatever its descriptor refers to by now.           *)
ShutDown(s) ==
  shut' = IF s = None \/ owner[fd[s]] \in {None, Other} THEN shut ELSE shut \cup {owner[fd[s]]}

(* The predecessor's socket is shut down and the session's loop queued.    *)
Start ==
  /\ accepting.phase = "replace"
  /\ ShutDown(accepting.stream)
  /\ at' = [at EXCEPT ![active] = "queued"]
  /\ sessionQueue' = Append(sessionQueue, active)
  /\ accepting' = Quiet
  /\ UNCHANGED <<fd, owner, shouldStop, keys, configured, running, active, ended,
                 control, decoder>>

(* shutdown(): the listening socket closes, and with it the connections    *)
(* nobody has accepted; the active session is told to stop ...             *)
Shutdown ==
  /\ accepting = Quiet
  /\ resets < MaxResets
  /\ resets' = resets + 1
  /\ running' = FALSE
  /\ at' = [s \in Stream |-> IF at[s] = "backlog" THEN "refused" ELSE at[s]]
  /\ active' = None
  /\ RaiseFlag(active)
  /\ accepting' = [phase |-> "shutdown", stream |-> active, key |-> 0]
  /\ UNCHANGED <<fd, owner, shut, keys, configured, ended, sessionQueue, context,
                 setups, decoder>>

(* ... its socket is shut down, and a reset is queued.                     *)
FinishShutdown ==
  /\ accepting.phase = "shutdown"
  /\ ShutDown(accepting.stream)
  /\ QueueReset
  /\ accepting' = Quiet
  /\ UNCHANGED <<at, fd, owner, shouldStop, keys, configured, running, active, ended,
                 control>>

(* The end notice of a session: forgotten if it is still the active one.   *)
ForgetAny(s) == active' = None   \* mutant
Forget(s) == active' = IF active = s THEN None ELSE active

HearEnd(s) ==
  /\ accepting = Quiet
  /\ s \in ended
  /\ ended' = ended \ {s}
  /\ Forget(s)
  /\ UNCHANGED <<streams, running, accepting, sessionQueue, control, decoder>>

-----------------------------------------------------------------------------
(* The session queue *)

Running(job) == sessionQueue # <<>> /\ sessionQueue[1] = job

RunReset ==
  /\ Running(Reset)
  /\ decoder' = None
  /\ sessionQueue' = Tail(sessionQueue)
  /\ UNCHANGED <<streams, server, control>>

(* The job holds its session weakly: the loop begins if the server still   *)
(* has the session, as the active one or in the middle of stopping it.     *)
Held(s) == active = s \/ accepting.stream = s

Begin(s) ==
  /\ Running(s) /\ at[s] = "queued"
  /\ IF Held(s)
     THEN at' = [at EXCEPT ![s] = "reading"] /\ UNCHANGED sessionQueue
     ELSE at' = [at EXCEPT ![s] = "dropped"] /\ sessionQueue' = Tail(sessionQueue)
  /\ UNCHANGED <<fd, owner, shut, shouldStop, keys, configured, server, control, decoder>>

(* A packet with a codec configuration.                                    *)
ReadConfiguration(s) ==
  /\ Running(s) /\ at[s] = "reading"
  /\ s \notin shut
  /\ configured' = configured \cup {s}
  /\ decoder' = s
  /\ UNCHANGED <<at, fd, owner, shut, shouldStop, keys, server, sessionQueue, control>>

(* The loop sees the flag, the end of the stream, an error or the idle     *)
(* timeout; leaving it closes the socket and tells the server.             *)
LeaveLoop(s) ==
  /\ Running(s) /\ at[s] = "reading"
  /\ at' = [at EXCEPT ![s] = "ended"]
  /\ owner' = [owner EXCEPT ![fd[s]] = None]
  /\ ended' = ended \cup {s}
  /\ sessionQueue' = Tail(sessionQueue)
  /\ UNCHANGED <<fd, shut, shouldStop, keys, configured, running, active, accepting,
                 control, decoder>>

-----------------------------------------------------------------------------
Accepting ==
  \/ \E s \in Stream : AcceptClient(s)
  \/ ReadStreamID \/ Install \/ Start \/ FinishShutdown

(* What ends a loop besides the idle timeout.                              *)
MustLeave(s) == (shouldStop[s] \/ s \in shut) /\ LeaveLoop(s)

Next ==
  \/ SetupKeys \/ SetupStream \/ EndSession \/ OtherOpens
  \/ EnsureRunning \/ Accepting \/ Shutdown \/ RunReset
  \/ \E f \in FD : OtherCloses(f)
  \/ \E s \in Stream :
       Connects(s) \/ HangsUp(s) \/ HearEnd(s) \/ Begin(s) \/ ReadConfiguration(s) \/ LeaveLoop(s)

Spec == Init /\ [][Next]_vars

(* Both queues run what is submitted to them; a loop that is told to stop  *)
(* looks, since its receive times out.  Nothing else is owed: not even the *)
(* idle timeout, which bytes from the phone put off.                       *)
Fairness ==
  /\ WF_vars(Accepting) /\ WF_vars(RunReset)
  /\ \A s \in Stream : WF_vars(HearEnd(s)) /\ WF_vars(Begin(s)) /\ WF_vars(MustLeave(s))

FairSpec == Spec /\ Fairness

-----------------------------------------------------------------------------
(* Properties *)

(* A session with a read loop to run is the active one, or was told to     *)
(* stop: no connection goes on that shutdown() and the next accept cannot  *)
(* reach.                                                                  *)
NoForgottenStream ==
  \A s \in Stream :
    at[s] \in {"queued", "reading"} => active = s \/ shouldStop[s]

(* Once a stream has configured the decoder, its configuration stays until *)
(* its loop ends: neither a reset nor another stream gets in between.      *)
ConfigurationStays ==
  \A s \in configured : at[s] = "reading" => decoder = s

(* A new video connection is not kept waiting by the ones before it: its   *)
(* loop begins, or it is itself replaced or shut down.                     *)
NewcomerReads ==
  \A s \in Stream : at[s] = "queued" ~> at[s] # "queued"

(* stop() shuts down "the client socket" of its session, not one that has  *)
(* been given the same descriptor since.                                   *)
StopSparesOthers ==
  [][(Start \/ FinishShutdown) =>
       shut' \subseteq shut \cup {accepting.stream}]_vars
=============================================================================
