-------------------------- MODULE FairPlaySession --------------------------
(***************************************************************************)
(* The FairPlay exchange: fairplay_setup, fairplay_handshake and           *)
(* fairplay_decrypt on the one handle of AirPlayFairPlaySession.shared, as *)
(* /fp-setup and RTSP SETUP of any number of phones reach it.              *)
(*                                                                         *)
(* All control connections run on one serial queue, so a request is one    *)
(* action.  A key message is named by its phone and a number; a phone      *)
(* encrypts the key of its stream for the last message it got accepted.    *)
(* What playfair_decrypt makes of a key message is in PlayfairKey.         *)
(***************************************************************************)
EXTENDS Naturals

CONSTANTS
  Phone,
  None,
  MaxMessages   \* bound: key messages of each phone

ASSUME FairPlayAssumption ==
  /\ MaxMessages \in Nat
  /\ None \notin Phone \X Nat

Message == Phone \X (1 .. MaxMessages)

(* What the functions look at: the length of a body, its version byte and, *)
(* for a setup, its mode byte.                                             *)
Body == [length: {16, 164, 0}, version: {2, 3}, mode: 0 .. 4]

VARIABLES
  handle,     \* fairplay_init found memory for it
  keymsg,     \* fp->keymsg, None after calloc
  keymsglen,  \* fp->keymsglen
  own,        \* the phones' side: the last key message answered with 200
  sent,       \*   how many key messages each has sent
  answer,     \*   how the last SETUP of each was answered
  latest      \* history: the last request accepted by /fp-setup

session == <<handle, keymsg, keymsglen>>
vars == <<session, own, sent, answer, latest>>

(* An answer says whose message the key was decrypted with, for which      *)
(* message the phone had encrypted it, and what had been accepted last.    *)
Accepted == [kind: {"nothing", "setup"}, message: {None}] \cup [kind: {"handshake"}, message: Message]
NothingYet == [kind |-> "nothing", message |-> None]
Setup == [kind |-> "setup", message |-> None]
Handshake(message) == [kind |-> "handshake", message |-> message]

Answer == [used: Message \cup {None}, meant: Message, after: Accepted]
Unasked == [used |-> None, meant |-> None, after |-> NothingYet]

TypeOK ==
  /\ handle \in BOOLEAN
  /\ keymsg \in Message \cup {None}
  /\ keymsglen \in {0, 164}
  /\ keymsglen = 164 => keymsg # None
  /\ own \in [Phone -> Message \cup {None}]
  /\ sent \in [Phone -> 0 .. MaxMessages]
  /\ answer \in [Phone -> Answer \cup {Unasked}]
  /\ latest \in Accepted

Init ==
  /\ handle \in BOOLEAN
  /\ keymsg = None
  /\ keymsglen = 0
  /\ own = [p \in Phone |-> None]
  /\ sent = [p \in Phone |-> 0]
  /\ answer = [p \in Phone |-> Unasked]
  /\ latest = NothingYet

(* The version and the mode are looked at before anything changes.         *)
SetupAccepts(body) == handle /\ body.version = 3 /\ body.mode \in 0 .. 3

SetupClearsFirst(body) ==   \* mutant
  /\ keymsglen' = 0
  /\ latest' = IF SetupAccepts(body) THEN Setup ELSE latest
  /\ UNCHANGED <<handle, keymsg>>
SetupKeepsMessage(body) ==   \* mutant
  /\ latest' = IF SetupAccepts(body) THEN Setup ELSE latest
  /\ UNCHANGED session
FairplaySetup(body) ==
  IF SetupAccepts(body)
  THEN /\ keymsglen' = 0
       /\ latest' = Setup
       /\ UNCHANGED <<handle, keymsg>>
  ELSE UNCHANGED <<session, latest>>

(* The mode byte of a key message is not looked at here.                   *)
HandshakeAccepts(body) == handle /\ body.version = 3

Store(message) == keymsglen' = 164 /\ keymsg' = message

FairplayHandshake(p, body) ==
  LET message == <<p, sent[p] + 1>>
  IN  /\ sent[p] < MaxMessages
      /\ sent' = [sent EXCEPT ![p] = @ + 1]
      /\ IF HandshakeAccepts(body)
         THEN /\ Store(message)
              /\ own' = [own EXCEPT ![p] = message]
              /\ latest' = Handshake(message)
              /\ UNCHANGED handle
         ELSE UNCHANGED <<session, own, latest>>

(* /fp-setup: which of the two it is, is told by the length of the body;   *)
(* other lengths are answered with 400, a refusal with 500.                *)
HandleFPSetup(p, body) ==
  /\ UNCHANGED answer
  /\ \/ body.length = 16 /\ FairplaySetup(body) /\ UNCHANGED <<own, sent>>
     \/ body.length = 164 /\ FairplayHandshake(p, body)

(* fairplay_decrypt under the wrapper's guards: which message the key is   *)
(* decrypted with, or None when SETUP is answered with 500.                *)
Decrypted == IF handle /\ keymsglen = 164 THEN keymsg ELSE None

(* SETUP with a 72-byte ekey from a phone that has been through the        *)
(* exchange; keys of other lengths are passed over.                        *)
HandleSetup(p) ==
  /\ own[p] # None
  /\ answer' = [answer EXCEPT ![p] = [used |-> Decrypted, meant |-> own[p], after |-> latest]]
  /\ UNCHANGED <<session, own, sent, latest>>

Next ==
  \E p \in Phone : HandleSetup(p) \/ \E body \in Body : HandleFPSetup(p, body)

Spec == Init /\ [][Next]_vars

-----------------------------------------------------------------------------
(* Properties *)

(* A phone whose key message was the last request accepted by /fp-setup    *)
(* gets its stream key under that message: neither requests refused since, *)
(* its own or of other phones, nor keys answered to others stand between.  *)
UndisturbedKey ==
  \A p \in Phone :
    LET a == answer[p]
    IN  a # Unasked /\ a.after = Handshake(a.meant) => a.used = a.meant

(* Once a setup has been accepted, by whichever phone, no key is decrypted *)
(* under a key message from before it: SETUP fails until the next one.     *)
SetupRetiresMessages ==
  \A p \in Phone : answer[p].after.kind = "setup" => answer[p].used = None
=============================================================================
