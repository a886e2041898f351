-------------------------- MODULE MirrorServerProofs --------------------------
(***************************************************************************)
(* Proofs about MirrorServer, for any set of video connections, any number *)
(* of descriptors, SETUPs and resets.                                      *)
(***************************************************************************)
EXTENDS MirrorServer, WellFoundedInduction, TLAPS

(* accept(2) returns a descriptor that is free: Min of a set of naturals   *)
(* is a member of it.                                                      *)
LEMMA LowestIsLeast ==
  ASSUME NEW numbers, numbers \subseteq Nat, numbers # {}, NEW below,
         IsWellFoundedOn(below, Nat), \A x, y \in Nat : x < y => <<x, y>> \in below
  PROVE  Min(numbers) \in numbers
<1>1. \E x \in numbers : \A y \in numbers : ~(<<y, x>> \in below)
  <2>1. IsWellFoundedOn(below, Nat) /\ numbers \subseteq Nat /\ numbers # {}
    OBVIOUS
  <2>. QED  BY ONLY <2>1, WFMin
<1>2. PICK x \in numbers : \A y \in numbers : ~(<<y, x>> \in below)
  BY <1>1, Zenon
<1>3. \A y \in numbers : ~(y < x)
  BY <1>2, Zenon
<1>4. \A y \in numbers : x <= y
  BY <1>3
<1>. QED  BY <1>4 DEF Min

LEMMA LowestIsFree ==
  ASSUME FreeFds # {}
  PROVE  Min(FreeFds) \in FreeFds /\ Min(FreeFds) \in FD
<1>1. FreeFds \subseteq Nat /\ FreeFds \subseteq FD
  BY ServerAssumption DEF FreeFds, FD
<1>2. \A x, y \in Nat : x < y => <<x, y>> \in OpToRel(<, Nat)
  BY DEF OpToRel
<1>3. Min(FreeFds) \in FreeFds
  BY <1>1, <1>2, NatLessThanWellFounded, LowestIsLeast
<1>. QED  BY <1>1, <1>3

-----------------------------------------------------------------------------
(* What stop() relies on: a stream that was accepted has a descriptor, as  *)
(* has whatever the server holds on to.                                    *)
FdsKept ==
  /\ \A s \in Stream : at[s] \in {"accepted", "queued", "reading"} => fd[s] \in FD
  /\ active # None => fd[active] \in FD
  /\ accepting.phase \in {"replace", "shutdown"} /\ accepting.stream # None =>
       fd[accepting.stream] \in FD

(* Where the stream stands that is being accepted, and the one that ended. *)
Staged ==
  /\ accepting.phase \in {"key", "install"} => at[accepting.stream] = "accepted"
  /\ accepting.phase = "replace" => active \in Stream /\ at[active] = "accepted"
  /\ \A s \in ended : at[s] = "ended"

(* The four steps of accepting and stopping.                               *)
LEMMA AcceptingTypes ==
  ASSUME AcceptingOK
  PROVE  /\ accepting.phase \in {"key", "install"} =>
              accepting.stream \in Stream /\ accepting.key \in Setup \ {0}
                /\ accepting = [phase |-> accepting.phase, stream |-> accepting.stream, key |-> accepting.key]
         /\ accepting.phase \in {"replace", "shutdown"} => accepting.stream \in Stream \cup {None}
         /\ accepting = Quiet => accepting.phase = "idle"
<1>1. CASE accepting = Quiet
  BY <1>1 DEF Quiet
<1>2. CASE accepting \in [phase: {"key", "install"}, stream: Stream, key: Setup \ {0}]
  BY <1>2 DEF Quiet
<1>3. CASE accepting \in [phase: {"replace", "shutdown"}, stream: Stream \cup {None}, key: Setup]
  BY <1>3 DEF Quiet
<1>. QED  BY <1>1, <1>2, <1>3 DEF AcceptingOK

(* shutdown(2) reaches a stream or nothing.                                *)
LEMMA ShutDownType ==
  ASSUME StreamsOK, NEW s \in Stream \cup {None}, s # None => fd[s] \in FD, ShutDown(s)
  PROVE  shut' \subseteq Stream
BY DEF StreamsOK, ShutDown

LEMMA TypeInit == Init => TypeOK /\ FdsKept /\ Staged
<1>. SUFFICES ASSUME Init  PROVE TypeOK /\ FdsKept /\ Staged
  OBVIOUS
<1>. USE ServerAssumption
<1>1. 0 \in Setup
  BY DEF Setup
<1>2. StreamsOK
  <2>1. keys \in [Stream -> [key: Setup, stream: Setup]]
    BY <1>1 DEF Init
  <2>. QED  BY <2>1 DEF Init, StreamsOK
<1>3. AcceptingOK
  BY DEF Init, AcceptingOK
<1>4. JobsOK
  BY DEF Init, JobsOK
<1>5. ControlOK
  <2>1. context \in [key: Setup, stream: Setup]
    BY <1>1 DEF Init
  <2>2. setups \in Setup /\ resets \in 0..MaxResets
    BY <1>1 DEF Init
  <2>. QED  BY <2>1, <2>2 DEF Init, ControlOK
<1>6. FdsKept
  BY DEF Init, FdsKept, Quiet
<1>7. Staged
  BY DEF Init, Staged, Quiet
<1>. QED  BY <1>2, <1>3, <1>4, <1>5, <1>6, <1>7 DEF TypeOK

LEMMA TypeStep ==
  ASSUME TypeOK, FdsKept, Staged, [Next]_vars
  PROVE  TypeOK'
<1>. USE ServerAssumption
<1>0. StreamsOK /\ AcceptingOK /\ JobsOK /\ ControlOK
  BY DEF TypeOK
<1>1. CASE SetupKeys
  <2>1. StreamsOK'
    BY <1>0, <1>1 DEF SetupKeys, StreamsOK, streams, server
  <2>2. AcceptingOK'
    BY <1>0, <1>1 DEF SetupKeys, AcceptingOK, streams, server
  <2>3. JobsOK'
    BY <1>0, <1>1 DEF SetupKeys, JobsOK, streams, server
  <2>4. ControlOK'
    <3>1. context' \in [key: Setup, stream: Setup] /\ setups' \in Setup
      BY <1>0, <1>1 DEF SetupKeys, ControlOK, Setup
    <3>. QED  BY <1>0, <1>1, <3>1 DEF SetupKeys, ControlOK, server
  <2>. QED  BY <2>1, <2>2, <2>3, <2>4 DEF TypeOK
<1>2. CASE SetupStream
  <2>1. StreamsOK'
    BY <1>0, <1>2 DEF SetupStream, StreamsOK, streams, server
  <2>2. AcceptingOK'
    BY <1>0, <1>2 DEF SetupStream, AcceptingOK, streams, server
  <2>3. JobsOK'
    BY <1>0, <1>2 DEF SetupStream, JobsOK, streams, server
  <2>4. ControlOK'
    BY <1>0, <1>2 DEF SetupStream, ControlOK, streams, server
  <2>. QED  BY <2>1, <2>2, <2>3, <2>4 DEF TypeOK
<1>3. CASE EndSession
  <2>1. StreamsOK'
    BY <1>0, <1>3 DEF EndSession, QueueReset, StreamsOK, streams, server
  <2>2. AcceptingOK'
    BY <1>0, <1>3 DEF EndSession, QueueReset, AcceptingOK, streams, server
  <2>3. JobsOK'
    BY <1>0, <1>3 DEF EndSession, QueueReset, JobsOK, streams, server
  <2>4. ControlOK'
    <3>1. context' \in [key: Setup, stream: Setup] /\ resets' \in 0..MaxResets
      BY <1>0, <1>3 DEF EndSession, ControlOK, Setup
    <3>. QED  BY <1>0, <1>3, <3>1 DEF EndSession, ControlOK, server
  <2>. QED  BY <2>1, <2>2, <2>3, <2>4 DEF TypeOK
<1>4. ASSUME NEW s \in Stream, Connects(s)  PROVE TypeOK'
  <2>1. StreamsOK'
    BY <1>0, <1>4 DEF Connects, StreamsOK, server, control
  <2>2. AcceptingOK'
    BY <1>0, <1>4 DEF Connects, AcceptingOK, server, control
  <2>3. JobsOK'
    BY <1>0, <1>4 DEF Connects, JobsOK, server, control
  <2>4. ControlOK'
    BY <1>0, <1>4 DEF Connects, ControlOK, server, control
  <2>. QED  BY <2>1, <2>2, <2>3, <2>4 DEF TypeOK
<1>5. ASSUME NEW s \in Stream, HangsUp(s)  PROVE TypeOK'
  <2>1. StreamsOK'
    BY <1>0, <1>5 DEF HangsUp, StreamsOK, server, control
  <2>2. AcceptingOK'
    BY <1>0, <1>5 DEF HangsUp, AcceptingOK, server, control
  <2>3. JobsOK'
    BY <1>0, <1>5 DEF HangsUp, JobsOK, server, control
  <2>4. ControlOK'
    BY <1>0, <1>5 DEF HangsUp, ControlOK, server, control
  <2>. QED  BY <2>1, <2>2, <2>3, <2>4 DEF TypeOK
<1>6. CASE OtherOpens
  <2>1. StreamsOK'
    BY <1>0, <1>6 DEF OtherOpens, StreamsOK, server, control
  <2>2. AcceptingOK'
    BY <1>0, <1>6 DEF OtherOpens, AcceptingOK, server, control
  <2>3. JobsOK'
    BY <1>0, <1>6 DEF OtherOpens, JobsOK, server, control
  <2>4. ControlOK'
    BY <1>0, <1>6 DEF OtherOpens, ControlOK, server, control
  <2>. QED  BY <2>1, <2>2, <2>3, <2>4 DEF TypeOK
<1>7. ASSUME NEW f \in FD, OtherCloses(f)  PROVE TypeOK'
  <2>1. StreamsOK'
    BY <1>0, <1>7 DEF OtherCloses, StreamsOK, server, control
  <2>2. AcceptingOK'
    BY <1>0, <1>7 DEF OtherCloses, AcceptingOK, server, control
  <2>3. JobsOK'
    BY <1>0, <1>7 DEF OtherCloses, JobsOK, server, control
  <2>4. ControlOK'
    BY <1>0, <1>7 DEF OtherCloses, ControlOK, server, control
  <2>. QED  BY <2>1, <2>2, <2>3, <2>4 DEF TypeOK
<1>8. CASE EnsureRunning
  <2>1. StreamsOK'
    BY <1>0, <1>8 DEF EnsureRunning, StreamsOK, streams, control
  <2>2. AcceptingOK'
    BY <1>0, <1>8 DEF EnsureRunning, AcceptingOK, streams, control
  <2>3. JobsOK'
    BY <1>0, <1>8 DEF EnsureRunning, JobsOK, streams, control
  <2>4. ControlOK'
    BY <1>0, <1>8 DEF EnsureRunning, ControlOK, streams, control
  <2>. QED  BY <2>1, <2>2, <2>3, <2>4 DEF TypeOK
<1>9. ASSUME NEW s \in Stream, AcceptClient(s)  PROVE TypeOK'
  <2>1. StreamsOK'
    <3>1. CASE KeyKnown
      <4>1. Min(FreeFds) \in FD
        BY <1>9, LowestIsFree DEF AcceptClient
      <4>. HIDE DEF FD
      <4>2. at' = [at EXCEPT ![s] = "accepted"] /\ UNCHANGED <<shut, shouldStop, keys, configured, ended, decoder>>
            /\ fd' = [fd EXCEPT ![s] = Min(FreeFds)] /\ owner' = [owner EXCEPT ![Min(FreeFds)] = s]
        BY <1>9, <3>1 DEF AcceptClient
      <4>. QED  BY <1>0, <4>1, <4>2 DEF StreamsOK
    <3>2. CASE ~KeyKnown
      BY <1>0, <1>9, <3>2 DEF AcceptClient, StreamsOK
    <3>. QED  BY <3>1, <3>2
  <2>2. AcceptingOK'
    <3>1. CASE KeyKnown
      <4>1. accepting' = [phase |-> "key", stream |-> s, key |-> context.key]
        BY <1>9, <3>1 DEF AcceptClient
      <4>2. context.key \in Setup \ {0}
        BY <1>0, <3>1 DEF ControlOK, KeyKnown
      <4>. QED  BY <1>0, <1>9, <4>1, <4>2 DEF AcceptClient, AcceptingOK
    <3>2. CASE ~KeyKnown
      BY <1>0, <1>9, <3>2 DEF AcceptClient, AcceptingOK
    <3>. QED  BY <3>1, <3>2
  <2>3. JobsOK'
    BY <1>0, <1>9 DEF AcceptClient, JobsOK, control
  <2>4. ControlOK'
    BY <1>0, <1>9 DEF AcceptClient, ControlOK, control
  <2>. QED  BY <2>1, <2>2, <2>3, <2>4 DEF TypeOK
<1>10. CASE ReadStreamID
  <2>1. StreamsOK'
    <3>1. accepting.stream \in Stream /\ accepting.key \in Setup
      BY <1>0, <1>10, AcceptingTypes DEF ReadStreamID
    <3>2. fd[accepting.stream] \in FD
      BY <1>10, <3>1 DEF ReadStreamID, FdsKept, Staged
    <3>3. [key |-> accepting.key, stream |-> context.stream] \in [key: Setup, stream: Setup]
      BY <1>0, <3>1 DEF ControlOK
    <3>4. CASE context.stream = 0
      BY <1>0, <1>10, <3>1, <3>4 DEF ReadStreamID, StreamsOK
    <3>5. CASE context.stream # 0
      BY <1>0, <1>10, <3>1, <3>3, <3>5 DEF ReadStreamID, StreamsOK
    <3>. QED  BY <3>4, <3>5
  <2>2. AcceptingOK'
    <3>1. accepting.stream \in Stream /\ accepting.key \in Setup \ {0}
          /\ accepting = [phase |-> "key", stream |-> accepting.stream, key |-> accepting.key]
      BY <1>0, <1>10, AcceptingTypes DEF ReadStreamID
    <3>2. accepting' = Quiet
          \/ accepting' = [phase |-> "install", stream |-> accepting.stream, key |-> accepting.key]
      BY <1>10, <3>1 DEF ReadStreamID
    <3>. QED  BY <1>0, <1>10, <3>1, <3>2 DEF ReadStreamID, AcceptingOK
  <2>3. JobsOK'
    BY <1>0, <1>10 DEF ReadStreamID, JobsOK, control
  <2>4. ControlOK'
    BY <1>0, <1>10 DEF ReadStreamID, ControlOK, control
  <2>. QED  BY <2>1, <2>2, <2>3, <2>4 DEF TypeOK
<1>11. CASE Install
  <2>1. StreamsOK'
    BY <1>0, <1>11 DEF Install, RaiseFlag, Replaced, StreamsOK, control
  <2>2. AcceptingOK'
    <3>1. accepting.stream \in Stream /\ accepting.key \in Setup
          /\ accepting = [phase |-> "install", stream |-> accepting.stream, key |-> accepting.key]
      BY <1>0, <1>11, AcceptingTypes DEF Install
    <3>2. accepting' = [phase |-> "replace", stream |-> active, key |-> accepting.key]
      BY <1>11, <3>1 DEF Install, Replaced
    <3>. QED  BY <1>0, <1>11, <3>1, <3>2 DEF Install, AcceptingOK
  <2>3. JobsOK'
    BY <1>0, <1>11 DEF Install, RaiseFlag, Replaced, JobsOK, control
  <2>4. ControlOK'
    BY <1>0, <1>11 DEF Install, RaiseFlag, Replaced, ControlOK, control
  <2>. QED  BY <2>1, <2>2, <2>3, <2>4 DEF TypeOK
<1>12. CASE Start
  <2>1. StreamsOK'
    <3>1. shut' \subseteq Stream
      BY <1>0, <1>12, AcceptingTypes, ShutDownType DEF Start, FdsKept
    <3>. QED  BY <1>0, <1>12, <3>1 DEF Start, StreamsOK
  <2>2. AcceptingOK'
    BY <1>0, <1>12 DEF Start, AcceptingOK, control
  <2>3. JobsOK'
    <3>1. active \in Stream
      BY <1>12 DEF Start, Staged
    <3>. QED  BY <1>0, <1>12, <3>1 DEF Start, JobsOK
  <2>4. ControlOK'
    BY <1>0, <1>12 DEF Start, ControlOK, control
  <2>. QED  BY <2>1, <2>2, <2>3, <2>4 DEF TypeOK
<1>13. CASE Shutdown
  <2>1. StreamsOK'
    BY <1>0, <1>13 DEF Shutdown, RaiseFlag, StreamsOK
  <2>2. AcceptingOK'
    <3>1. accepting' = [phase |-> "shutdown", stream |-> active, key |-> 0] /\ 0 \in Setup
      BY <1>13 DEF Shutdown, Setup
    <3>. QED  BY <1>0, <1>13, <3>1 DEF Shutdown, AcceptingOK
  <2>3. JobsOK'
    BY <1>0, <1>13 DEF Shutdown, RaiseFlag, JobsOK
  <2>4. ControlOK'
    <3>1. resets' \in 0..MaxResets
      BY <1>0, <1>13 DEF Shutdown, ControlOK
    <3>. QED  BY <1>0, <1>13, <3>1 DEF Shutdown, ControlOK
  <2>. QED  BY <2>1, <2>2, <2>3, <2>4 DEF TypeOK
<1>14. CASE FinishShutdown
  <2>1. StreamsOK'
    <3>1. shut' \subseteq Stream
      BY <1>0, <1>14, AcceptingTypes, ShutDownType DEF FinishShutdown, FdsKept
    <3>. QED  BY <1>0, <1>14, <3>1 DEF FinishShutdown, QueueReset, StreamsOK
  <2>2. AcceptingOK'
    BY <1>0, <1>14 DEF FinishShutdown, QueueReset, AcceptingOK, control
  <2>3. JobsOK'
    BY <1>0, <1>14 DEF FinishShutdown, QueueReset, JobsOK, control
  <2>4. ControlOK'
    BY <1>0, <1>14 DEF FinishShutdown, QueueReset, ControlOK, control
  <2>. QED  BY <2>1, <2>2, <2>3, <2>4 DEF TypeOK
<1>15. ASSUME NEW s \in Stream, HearEnd(s)  PROVE TypeOK'
  <2>1. StreamsOK'
    BY <1>0, <1>15 DEF HearEnd, Forget, StreamsOK, streams, control
  <2>2. AcceptingOK'
    BY <1>0, <1>15 DEF HearEnd, Forget, AcceptingOK, streams, control
  <2>3. JobsOK'
    BY <1>0, <1>15 DEF HearEnd, Forget, JobsOK, streams, control
  <2>4. ControlOK'
    BY <1>0, <1>15 DEF HearEnd, Forget, ControlOK, streams, control
  <2>. QED  BY <2>1, <2>2, <2>3, <2>4 DEF TypeOK
<1>16. CASE RunReset
  <2>1. StreamsOK'
    BY <1>0, <1>16 DEF RunReset, StreamsOK, streams, server, control
  <2>2. AcceptingOK'
    BY <1>0, <1>16 DEF RunReset, AcceptingOK, streams, server, control
  <2>3. JobsOK'
    <3>1. Tail(sessionQueue) \in Seq(Stream \cup {Reset})
      BY <1>0, <1>16 DEF RunReset, JobsOK, Running
    <3>. QED  BY <1>0, <1>16, <3>1 DEF RunReset, JobsOK
  <2>4. ControlOK'
    BY <1>0, <1>16 DEF RunReset, ControlOK, streams, server, control
  <2>. QED  BY <2>1, <2>2, <2>3, <2>4 DEF TypeOK
<1>17. ASSUME NEW s \in Stream, Begin(s)  PROVE TypeOK'
  <2>1. StreamsOK'
    BY <1>0, <1>17 DEF Begin, StreamsOK, server, control
  <2>2. AcceptingOK'
    BY <1>0, <1>17 DEF Begin, AcceptingOK, server, control
  <2>3. JobsOK'
    <3>1. Tail(sessionQueue) \in Seq(Stream \cup {Reset})
      BY <1>0, <1>17 DEF Begin, JobsOK, Running
    <3>. QED  BY <1>0, <1>17, <3>1 DEF Begin, JobsOK
  <2>4. ControlOK'
    BY <1>0, <1>17 DEF Begin, ControlOK, server, control
  <2>. QED  BY <2>1, <2>2, <2>3, <2>4 DEF TypeOK
<1>18. ASSUME NEW s \in Stream, ReadConfiguration(s)  PROVE TypeOK'
  <2>1. StreamsOK'
    BY <1>0, <1>18 DEF ReadConfiguration, StreamsOK, server, control
  <2>2. AcceptingOK'
    BY <1>0, <1>18 DEF ReadConfiguration, AcceptingOK, server, control
  <2>3. JobsOK'
    BY <1>0, <1>18 DEF ReadConfiguration, JobsOK, server, control
  <2>4. ControlOK'
    BY <1>0, <1>18 DEF ReadConfiguration, ControlOK, server, control
  <2>. QED  BY <2>1, <2>2, <2>3, <2>4 DEF TypeOK
<1>19. ASSUME NEW s \in Stream, LeaveLoop(s)  PROVE TypeOK'
  <2>1. StreamsOK'
    BY <1>0, <1>19 DEF LeaveLoop, StreamsOK, control
  <2>2. AcceptingOK'
    BY <1>0, <1>19 DEF LeaveLoop, AcceptingOK, control
  <2>3. JobsOK'
    <3>1. Tail(sessionQueue) \in Seq(Stream \cup {Reset})
      BY <1>0, <1>19 DEF LeaveLoop, JobsOK, Running
    <3>. QED  BY <1>0, <1>19, <3>1 DEF LeaveLoop, JobsOK
  <2>4. ControlOK'
    BY <1>0, <1>19 DEF LeaveLoop, ControlOK, control
  <2>. QED  BY <2>1, <2>2, <2>3, <2>4 DEF TypeOK
<1>20. CASE UNCHANGED vars
  BY <1>20 DEF TypeOK, StreamsOK, AcceptingOK, JobsOK, ControlOK, vars, streams, server, control
<1>. QED
  BY <1>1, <1>2, <1>3, <1>4, <1>5, <1>6, <1>7, <1>8, <1>9, <1>10, <1>11, <1>12, <1>13, <1>14, <1>15, <1>16, <1>17, <1>18, <1>19, <1>20 DEF Next, Accepting

(* Steps that leave alone what the invariants below speak of, except  *)
(* where a stream stands that is not accepted yet, and jobs that are added.*)
Untouched == UNCHANGED <<fd, active, accepting, ended, shouldStop, configured>>
Earlier == {"away", "backlog", "refused"}
Moves(s) ==
  \/ at'[s] = at[s]
  \/ at[s] \in Earlier /\ at'[s] \in Earlier

LEMMA QuietSteps ==
  ASSUME TypeOK,
         \/ SetupKeys \/ SetupStream \/ EndSession \/ OtherOpens \/ EnsureRunning \/ RunReset
         \/ \E f \in FD : OtherCloses(f)
         \/ \E s \in Stream : Connects(s) \/ HangsUp(s)
         \/ UNCHANGED vars
  PROVE  Untouched /\ \A s \in Stream : Moves(s)
<1>1. ASSUME SetupKeys \/ SetupStream \/ EndSession \/ OtherOpens \/ EnsureRunning \/ RunReset
             \/ (\E f \in FD : OtherCloses(f)) \/ UNCHANGED vars
      PROVE  Untouched /\ UNCHANGED at
  BY <1>1 DEF SetupKeys, SetupStream, EndSession, OtherOpens, EnsureRunning, RunReset,
              OtherCloses, Untouched, streams, server, vars
<1>2. ASSUME NEW s \in Stream, Connects(s) \/ HangsUp(s)
      PROVE  Untouched /\ \A t \in Stream : Moves(t)
  BY <1>2 DEF Connects, HangsUp, Untouched, Moves, Earlier, server, TypeOK, StreamsOK
<1>. QED  BY <1>1, <1>2 DEF Moves

LEMMA QuietKeeps ==
  ASSUME Untouched, \A s \in Stream : Moves(s), AcceptingOK, ended \subseteq Stream
  PROVE  /\ FdsKept => FdsKept'
         /\ Staged => Staged'
         /\ NoForgottenStream => NoForgottenStream'
<1>1. FdsKept => FdsKept'
  BY DEF Untouched, Moves, Earlier, FdsKept
<1>2. Staged => Staged'
  BY AcceptingTypes DEF Untouched, Moves, Earlier, Staged
<1>3. NoForgottenStream => NoForgottenStream'
  BY DEF Untouched, Moves, Earlier, NoForgottenStream
<1>. QED  BY <1>1, <1>2, <1>3

(* Descriptors are given out by AcceptClient and kept in fd from then on.   *)
(* A stream is served by one step of the server after the other, and only  *)
(* the server moves a stream that was accepted and not queued yet.  So the *)
(* session that Install replaces has been told to stop before another one  *)
(* is queued, and the end notice of a session finds no loop of it.         *)
LEMMA ServerStep ==
  ASSUME TypeOK, FdsKept, Staged, NoForgottenStream, [Next]_vars
  PROVE  FdsKept' /\ Staged' /\ NoForgottenStream'
<1>0. StreamsOK /\ AcceptingOK
  BY DEF TypeOK
<1>1. ASSUME NEW s \in Stream, AcceptClient(s)
      PROVE  FdsKept' /\ Staged' /\ NoForgottenStream'
  <2>1. at[s] = "backlog" /\ accepting = Quiet /\ UNCHANGED <<active, ended, shouldStop>>
        /\ at' \in {[at EXCEPT ![s] = "accepted"], [at EXCEPT ![s] = "refused"]}
    BY <1>1 DEF AcceptClient
  <2>2. \/ accepting' = Quiet /\ UNCHANGED fd /\ at' = [at EXCEPT ![s] = "refused"]
        \/ /\ accepting' = [phase |-> "key", stream |-> s, key |-> context.key]
           /\ fd' = [fd EXCEPT ![s] = Min(FreeFds)] /\ Min(FreeFds) \in FD
           /\ at' = [at EXCEPT ![s] = "accepted"]
    BY <1>1, LowestIsFree DEF AcceptClient
  <2>3. FdsKept'
    <3>1. \A t \in Stream : fd[t] \in FD => fd'[t] \in FD
      BY <1>0, <2>2 DEF StreamsOK
    <3>2. accepting'.phase \in {"idle", "key"}
      BY <2>2 DEF Quiet
    <3>3. \A t \in Stream : at'[t] \in {"accepted", "queued", "reading"} => fd'[t] \in FD
      BY <1>0, <2>2, <3>1 DEF FdsKept, StreamsOK
    <3>4. active' # None => fd'[active'] \in FD
      BY <1>0, <2>1, <3>1 DEF FdsKept, AcceptingOK
    <3>. QED  BY <3>2, <3>3, <3>4 DEF FdsKept
  <2>4. Staged'
    BY <1>0, <2>1, <2>2 DEF Staged, StreamsOK, Quiet
  <2>5. NoForgottenStream'
    BY <1>0, <2>1 DEF NoForgottenStream, StreamsOK
  <2>. QED  BY <2>3, <2>4, <2>5
<1>2. CASE ReadStreamID
  <2>1. accepting.phase = "key" /\ UNCHANGED <<fd, active, ended, shouldStop>>
        /\ \/ at' = [at EXCEPT ![accepting.stream] = "refused"] /\ accepting' = Quiet
           \/ UNCHANGED at /\ accepting' = [accepting EXCEPT !.phase = "install"]
    BY <1>2 DEF ReadStreamID
  <2>2. accepting.stream \in Stream
        /\ accepting = [phase |-> "key", stream |-> accepting.stream, key |-> accepting.key]
    BY <1>0, <2>1, AcceptingTypes
  <2>3. FdsKept'
    BY <1>0, <2>1, <2>2 DEF FdsKept, StreamsOK, Quiet
  <2>4. Staged'
    BY <1>0, <2>1, <2>2 DEF Staged, StreamsOK, Quiet
  <2>5. NoForgottenStream'
    BY <1>0, <2>1, <2>2 DEF NoForgottenStream, StreamsOK
  <2>. QED  BY <2>3, <2>4, <2>5
<1>3. CASE Install
  <2>1. /\ accepting.stream \in Stream /\ at[accepting.stream] = "accepted"
        /\ accepting = [phase |-> "install", stream |-> accepting.stream, key |-> accepting.key]
    BY <1>0, <1>3, AcceptingTypes DEF Install, Staged
  <2>2. /\ active' = accepting.stream /\ UNCHANGED <<at, fd, ended>>
        /\ accepting' = [phase |-> "replace", stream |-> active, key |-> accepting.key]
        /\ shouldStop' = IF active = None THEN shouldStop ELSE [shouldStop EXCEPT ![active] = TRUE]
    BY <1>3, <2>1 DEF Install, Replaced, RaiseFlag
  <2>3. FdsKept'
    BY <2>1, <2>2 DEF FdsKept
  <2>4. Staged'
    BY <2>1, <2>2 DEF Staged
  <2>5. \A s \in Stream : shouldStop[s] \/ active = s => shouldStop'[s]
    BY <1>0, <2>2, ServerAssumption DEF StreamsOK, AcceptingOK
  <2>6. NoForgottenStream'
    BY <2>2, <2>5 DEF NoForgottenStream
  <2>. QED  BY <2>3, <2>4, <2>6
<1>4. CASE Start
  <2>1. active \in Stream /\ at[active] = "accepted" /\ at' = [at EXCEPT ![active] = "queued"]
        /\ accepting' = Quiet /\ UNCHANGED <<fd, shouldStop, active, ended>>
    BY <1>4 DEF Start, Staged
  <2>. QED  BY <1>0, <2>1 DEF FdsKept, Staged, NoForgottenStream, StreamsOK, Quiet
<1>5. CASE Shutdown
  <2>1. /\ active' = None /\ UNCHANGED <<fd, ended>> /\ \A s \in Stream : Moves(s)
        /\ accepting' = [phase |-> "shutdown", stream |-> active, key |-> 0]
        /\ shouldStop' = IF active = None THEN shouldStop ELSE [shouldStop EXCEPT ![active] = TRUE]
    BY <1>5 DEF Shutdown, RaiseFlag, Moves, Earlier
  <2>2. FdsKept'
    BY <2>1 DEF FdsKept, Moves, Earlier
  <2>3. Staged'
    BY <1>0, <2>1 DEF Staged, Moves, Earlier, StreamsOK
  <2>4. \A s \in Stream : shouldStop[s] \/ active = s => shouldStop'[s]
    BY <1>0, <2>1, ServerAssumption DEF StreamsOK, AcceptingOK
  <2>5. NoForgottenStream'
    BY <2>1, <2>4 DEF NoForgottenStream, Moves, Earlier
  <2>. QED  BY <2>2, <2>3, <2>5
<1>6. CASE FinishShutdown
  <2>1. accepting' = Quiet /\ UNCHANGED <<at, fd, shouldStop, active, ended>>
    BY <1>6 DEF FinishShutdown
  <2>. QED  BY <2>1 DEF FdsKept, Staged, NoForgottenStream, Quiet
<1>7. ASSUME NEW s \in Stream, HearEnd(s)
      PROVE  FdsKept' /\ Staged' /\ NoForgottenStream'
  <2>1. /\ accepting = Quiet /\ s \in ended /\ ended' = ended \ {s}
        /\ active' = (IF active = s THEN None ELSE active)
        /\ UNCHANGED <<at, fd, shouldStop, accepting>>
    BY <1>7 DEF HearEnd, Forget, streams
  <2>2. at[s] = "ended"
    BY <2>1 DEF Staged
  <2>. QED  BY <2>1, <2>2 DEF FdsKept, Staged, NoForgottenStream, Quiet
<1>8. ASSUME NEW s \in Stream, Begin(s) \/ ReadConfiguration(s) \/ LeaveLoop(s)
      PROVE  FdsKept' /\ Staged' /\ NoForgottenStream'
  <2>1. /\ at[s] \in {"queued", "reading"} /\ UNCHANGED <<fd, shouldStop, active, accepting>>
        /\ \/ at' \in {at, [at EXCEPT ![s] = "reading"], [at EXCEPT ![s] = "dropped"]}
              /\ UNCHANGED ended
           \/ at' = [at EXCEPT ![s] = "ended"] /\ ended' = ended \cup {s}
    BY <1>8 DEF Begin, ReadConfiguration, LeaveLoop, server
  <2>2. FdsKept'
    BY <1>0, <2>1 DEF FdsKept, StreamsOK
  <2>3. Staged'
    BY <1>0, <2>1, AcceptingTypes DEF Staged, StreamsOK
  <2>4. NoForgottenStream'
    BY <1>0, <2>1 DEF NoForgottenStream, StreamsOK
  <2>. QED  BY <2>2, <2>3, <2>4
<1>9. CASE \/ SetupKeys \/ SetupStream \/ EndSession \/ OtherOpens \/ EnsureRunning \/ RunReset
           \/ \E f \in FD : OtherCloses(f)
           \/ \E s \in Stream : Connects(s) \/ HangsUp(s)
           \/ UNCHANGED vars
  BY <1>0, <1>9, QuietSteps, QuietKeeps DEF StreamsOK
<1>. QED
  BY <1>1, <1>2, <1>3, <1>4, <1>5, <1>6, <1>7, <1>8, <1>9 DEF Next, Accepting

(* Every stream, descriptor and flag keeps its type, whatever the number   *)
(* of connections.                                                         *)
THEOREM ServerTypes == Spec => []TypeOK
<1>1. Init => NoForgottenStream
  BY DEF Init, NoForgottenStream
<1>. QED  BY <1>1, TypeInit, TypeStep, ServerStep, PTL DEF Spec

(* No connection is left reading that neither a shutdown nor the next      *)
(* accept would tell to stop.                                              *)
THEOREM NoStreamForgotten == Spec => []NoForgottenStream
<1>1. Init => NoForgottenStream
  BY DEF Init, NoForgottenStream
<1>. QED  BY <1>1, TypeInit, TypeStep, ServerStep, PTL DEF Spec

-----------------------------------------------------------------------------
(* The session queue runs one job at a time: who reads is its first job,   *)
(* and only a stream that has begun to read has sent a configuration.      *)
OneReader ==
  /\ \A s \in Stream : at[s] = "reading" => Running(s)
  /\ \A s \in configured : at[s] \in {"reading", "ended"}

LEMMA AppendKeepsFirst ==
  ASSUME JobsOK, NEW job \in Stream \cup {Reset}, sessionQueue' = Append(sessionQueue, job),
         NEW other, Running(other)
  PROVE  Running(other)'
BY DEF JobsOK, Running

LEMMA ConfigurationStep ==
  ASSUME TypeOK, Staged, OneReader, ConfigurationStays, [Next]_vars
  PROVE  OneReader' /\ ConfigurationStays'
<1>0. StreamsOK /\ AcceptingOK /\ JobsOK
  BY DEF TypeOK
<1>1. ASSUME NEW s \in Stream, LeaveLoop(s) \/ (Begin(s) /\ ~Held(s))
      PROVE  OneReader' /\ ConfigurationStays'
  <2>1. /\ Running(s) /\ at[s] \in {"queued", "reading"} /\ UNCHANGED <<configured, decoder>>
        /\ at' = [at EXCEPT ![s] = IF at[s] = "reading" THEN "ended" ELSE "dropped"]
    BY <1>1 DEF LeaveLoop, Begin
  <2>2. \A t \in Stream : at'[t] # "reading"
    BY <1>0, <2>1 DEF OneReader, Running, StreamsOK
  <2>. QED  BY <1>0, <2>1, <2>2 DEF OneReader, ConfigurationStays, StreamsOK
<1>2. ASSUME NEW s \in Stream, Begin(s), Held(s)
      PROVE  OneReader' /\ ConfigurationStays'
  <2>1. /\ Running(s) /\ at[s] = "queued" /\ at' = [at EXCEPT ![s] = "reading"]
        /\ UNCHANGED <<sessionQueue, configured, decoder>>
    BY <1>2 DEF Begin
  <2>2. s \notin configured
    BY <2>1 DEF OneReader
  <2>. QED  BY <1>0, <2>1, <2>2 DEF OneReader, ConfigurationStays, Running, StreamsOK
<1>3. ASSUME NEW s \in Stream, ReadConfiguration(s)
      PROVE  OneReader' /\ ConfigurationStays'
  <2>1. /\ Running(s) /\ at[s] = "reading" /\ configured' = configured \cup {s} /\ decoder' = s
        /\ UNCHANGED <<at, sessionQueue>>
    BY <1>3 DEF ReadConfiguration
  <2>2. \A t \in Stream : at[t] = "reading" => t = s
    BY <2>1 DEF OneReader, Running
  <2>. QED  BY <1>0, <2>1, <2>2 DEF OneReader, ConfigurationStays, Running, StreamsOK
<1>4. CASE RunReset
  <2>1. Running(Reset) /\ decoder' = None /\ UNCHANGED <<at, configured>>
    BY <1>4 DEF RunReset, streams
  <2>2. \A t \in Stream : at[t] # "reading"
    BY <2>1, ServerAssumption DEF OneReader, Running
  <2>. QED  BY <1>0, <2>1, <2>2 DEF OneReader, ConfigurationStays, StreamsOK
<1>5. ASSUME UNCHANGED <<configured, decoder>>,
             \A t \in Stream : at'[t] = at[t]
                                 \/ (at[t] \notin {"reading", "ended"} /\ at'[t] # "reading"),
             \/ UNCHANGED sessionQueue
             \/ \E job \in Stream \cup {Reset} : sessionQueue' = Append(sessionQueue, job)
      PROVE  OneReader' /\ ConfigurationStays'
  <2>1. \A t \in Stream : Running(t) => Running(t)'
    BY <1>0, <1>5, AppendKeepsFirst DEF Running
  <2>. QED  BY <1>0, <1>5, <2>1 DEF OneReader, ConfigurationStays, StreamsOK
<1>6. CASE EndSession \/ FinishShutdown
  <2>1. UNCHANGED <<at, configured, decoder>> /\ sessionQueue' = Append(sessionQueue, Reset)
    BY <1>6 DEF EndSession, FinishShutdown, QueueReset, streams
  <2>. QED  BY <1>5, <2>1
<1>7. CASE Start
  <2>1. /\ active \in Stream /\ at[active] = "accepted" /\ at' = [at EXCEPT ![active] = "queued"]
        /\ sessionQueue' = Append(sessionQueue, active) /\ UNCHANGED <<configured, decoder>>
    BY <1>7 DEF Start, Staged
  <2>2. \A t \in Stream : at'[t] = at[t] \/ (at[t] = "accepted" /\ at'[t] = "queued")
    BY <1>0, <2>1 DEF StreamsOK
  <2>. QED  BY <1>5, <2>1, <2>2
<1>8. ASSUME NEW s \in Stream, AcceptClient(s)
      PROVE  OneReader' /\ ConfigurationStays'
  <2>1. at[s] = "backlog" /\ UNCHANGED <<sessionQueue, configured, decoder>>
        /\ at' \in {[at EXCEPT ![s] = "accepted"], [at EXCEPT ![s] = "refused"]}
    BY <1>8 DEF AcceptClient
  <2>2. \A t \in Stream : at'[t] = at[t] \/ (at[t] = "backlog" /\ at'[t] \in {"accepted", "refused"})
    BY <1>0, <2>1 DEF StreamsOK
  <2>. QED  BY <1>5, <2>1, <2>2
<1>9. CASE ReadStreamID
  <2>1. accepting.stream \in Stream /\ at[accepting.stream] = "accepted"
    BY <1>0, <1>9, AcceptingTypes DEF ReadStreamID, Staged
  <2>2. UNCHANGED <<sessionQueue, configured, decoder>>
        /\ at' \in {at, [at EXCEPT ![accepting.stream] = "refused"]}
    BY <1>9 DEF ReadStreamID
  <2>3. \A t \in Stream : at'[t] = at[t] \/ (at[t] = "accepted" /\ at'[t] = "refused")
    BY <1>0, <2>1, <2>2 DEF StreamsOK
  <2>. QED  BY <1>5, <2>2, <2>3
<1>10. CASE Shutdown
  <2>1. UNCHANGED <<sessionQueue, configured, decoder>>
        /\ \A t \in Stream : at'[t] = at[t] \/ (at[t] = "backlog" /\ at'[t] = "refused")
    BY <1>10 DEF Shutdown
  <2>. QED  BY <1>5, <2>1
<1>11. ASSUME NEW s \in Stream, Connects(s)
       PROVE  OneReader' /\ ConfigurationStays'
  <2>1. UNCHANGED <<sessionQueue, configured, decoder>>
        /\ \A t \in Stream : at'[t] = at[t] \/ (at[t] = "away" /\ at'[t] = "backlog")
    BY <1>0, <1>11 DEF Connects, StreamsOK
  <2>. QED  BY <1>5, <2>1
<1>12. CASE \/ SetupKeys \/ SetupStream \/ OtherOpens \/ EnsureRunning \/ Install
            \/ \E f \in FD : OtherCloses(f)
            \/ \E s \in Stream : HangsUp(s) \/ HearEnd(s)
            \/ UNCHANGED vars
  <2>1. UNCHANGED <<at, sessionQueue, configured, decoder>>
    BY <1>12 DEF SetupKeys, SetupStream, OtherOpens, EnsureRunning, Install, OtherCloses,
                 HangsUp, HearEnd, streams, vars
  <2>. QED  BY <1>5, <2>1
<1>. QED
  BY <1>1, <1>2, <1>3, <1>4, <1>6, <1>7, <1>8, <1>9, <1>10, <1>11, <1>12 DEF Next, Accepting

(* While a stream reads, the decoder keeps the configuration it has got    *)
(* from that stream: resets and other streams wait for their turn.         *)
THEOREM DecoderKeepsItsStream == Spec => []ConfigurationStays
<1>1. Init => NoForgottenStream /\ OneReader /\ ConfigurationStays
  BY DEF Init, NoForgottenStream, OneReader, ConfigurationStays
<1>. QED  BY <1>1, TypeInit, TypeStep, ServerStep, ConfigurationStep, PTL DEF Spec
=============================================================================
