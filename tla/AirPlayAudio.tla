---------------------------- MODULE AirPlayAudio ----------------------------
(***************************************************************************)
(* The audio of mirrored phones: SETUP of audio streams and their TEARDOWN,*)
(* AirPlayAudioServer with its sockets on the audio queue and              *)
(* AirPlayAudioPlayback on the playback queue.  The phones are those of    *)
(* FairPlaySession, and PhoneSpec composes the two.                        *)
(*                                                                         *)
(* Requests run on the control queue; the audio server is stopped there    *)
(* and on the main thread.  Calls between the queues are queue.sync, so    *)
(* that a call which changes the playback runs behind the packets that     *)
(* wait there.  How long a datagram stays in the network or in a socket is *)
(* open; it may be lost, doubled and overtaken.                            *)
(***************************************************************************)
EXTENDS FairPlaySession, Integers, Sequences

CONSTANTS
  First,         \* the number of the first packet of a stream
  Ahead,         \* how far a datagram may be ahead of all before it
  Behind,        \*   and how far behind the foremost
  MaxStreams,    \* bound: audio streams set up
  MaxDatagrams,  \* bound: datagrams that arrive
  MaxPending     \* bound: packets in the playback queue

ASSUME AudioAssumption ==
  /\ First \in Nat \ {0} /\ MaxStreams \in Nat /\ MaxDatagrams \in Nat /\ MaxPending \in Nat
  /\ Ahead \subseteq Nat \ {0}
  /\ Behind \subseteq Nat /\ \A d \in Behind : d <= 32767
  /\ None \notin Phone /\ None \notin Nat

VARIABLES
  setup,      \* the phone whose audio SETUP is between ensureRunning() and configurePlayback()
  running,    \* isRunning
  peer,       \* expectedPeer, None when it has none
  crypto,     \* hasCryptoMaterial of the server
  pending,    \* playback queue: ingested packets
  config,     \* config of the playback: the number of a stream, 0 when it is blank
  last,       \* lastPlayedSeq
  engine,     \* engine and player are there
  enabled,    \* AppPreferences.enableAudioPlayback
  streams,    \* the phones' side: the streams that have been set up
  live,       \*   those whose ports are the open sockets
  top,        \*   the foremost number of each that has arrived
  datagrams,  \*   how many have arrived
  played,     \* history: the configured stream's packets played since configure()
  heard       \*   the streams some of whose packets were

server == <<running, peer, crypto, setup>>
playback == <<config, last, engine, played, heard>>
phones == <<streams, live, top, datagrams>>
audio == <<server, playback, phones, pending, enabled>>

Packet == [stream : 1 .. MaxStreams, number : Nat, silent : BOOLEAN]
Stream ==
  [phone : Phone, windowed : BOOLEAN, cipher : {"ChaCha", "AES", "none"}, deaf : BOOLEAN]

InSixteenBits(seq) == seq \in Nat /\ seq < 65536
ServerOK ==
  running \in BOOLEAN /\ {peer, setup} \subseteq Phone \cup {None} /\ crypto \in BOOLEAN
PlaybackOK ==
  /\ Len(pending) <= MaxPending /\ pending \in Seq(Packet)
  /\ config \in 0 .. Len(streams)
  /\ last # None => InSixteenBits(last)
  /\ engine \in BOOLEAN /\ enabled \in BOOLEAN
  /\ engine => config # 0
PhonesOK ==
  /\ Len(streams) <= MaxStreams /\ streams \in Seq(Stream)
  /\ live \subseteq 1 .. Len(streams)
  /\ top \in [1 .. MaxStreams -> Nat]
  /\ datagrams \in 0 .. MaxDatagrams
HistoryOK == played \in Seq(Nat) /\ heard \subseteq 1 .. Len(streams)

AudioTypeOK == ServerOK /\ PlaybackOK /\ PhonesOK /\ HistoryOK

AudioInit ==
  /\ running = FALSE /\ setup = None /\ peer = None /\ crypto = FALSE
  /\ pending = <<>> /\ config = 0 /\ last = None /\ engine = FALSE /\ enabled \in BOOLEAN
  /\ streams = <<>> /\ live = {} /\ top = [s \in 1 .. MaxStreams |-> 0] /\ datagrams = 0
  /\ played = <<>> /\ heard = {}

-----------------------------------------------------------------------------
(* Control queue *)

(* stopLocked(), whose end is that the server does not run.                *)
CloseSockets == peer' = None /\ crypto' = FALSE /\ live' = {}

(* startLocked() begins with it; either socket may fail to bind.           *)
EnsureRunning ==
  IF running
  THEN UNCHANGED <<running, peer, crypto, live>>
  ELSE CloseSockets /\ running' \in BOOLEAN

(* SETUP of an audio stream: it is refused without sockets, and a stream   *)
(* of another type gets nothing but the ports.                             *)
OpenSink(p, type) ==
  /\ setup = None
  /\ EnsureRunning
  /\ setup' = IF running' /\ type = "audio" THEN p ELSE None
  /\ UNCHANGED <<playback, streams, top, datagrams, pending, enabled>>

(* The playback's queue.sync comes behind the packets that wait there.     *)
AtOnce == TRUE   \* mutant
Synced == pending = <<>>

(* configure() of the playback; the engine may fail to start.              *)
ConfigurePlayback(stream) ==
  /\ config' = stream /\ last' = None
  /\ engine' \in IF enabled THEN BOOLEAN ELSE {FALSE}
  /\ played' = <<>> /\ heard' = {}

(* setExpectedPeerLocked(): hasAddress tells whether the endpoint of the   *)
(* connection is a host's.                                                 *)
ExpectPeer(phone, hasAddress) == peer' = IF hasAddress THEN phone ELSE None

(* The rest of the SETUP.  windowed is ct = 8; the cipher is ChaCha when   *)
(* the stream brings a key of its own (shk), AES when the connection or    *)
(* the context has the session's (in AirPlayControl).                      *)
Configure(windowed, cipher, hasAddress) ==
  LET stream == [phone |-> setup, windowed |-> windowed, cipher |-> cipher, deaf |-> ~running]
      number == Len(streams) + 1
  IN  /\ setup # None /\ Synced /\ number <= MaxStreams
      /\ crypto' = (cipher # "none")
      /\ ExpectPeer(setup, hasAddress)
      /\ ConfigurePlayback(number)
      /\ streams' = Append(streams, stream)
      /\ live' = IF running THEN live \cup {number} ELSE live
      /\ top' = [top EXCEPT ![number] = First - 1]
      /\ setup' = None
      /\ UNCHANGED <<running, datagrams, pending, enabled>>

(* reset() of the playback.                                                *)
ResetNothing == UNCHANGED playback   \* mutant
ResetPlayback ==
  /\ config' = 0 /\ last' = None /\ engine' = FALSE
  /\ played' = <<>> /\ heard' = {}

(* stop() of the audio server.                                             *)
StopAudio == running' = FALSE /\ CloseSockets /\ Synced /\ ResetPlayback

(* ... from TEARDOWN or the end of a session on the control queue, or from *)
(* the main thread when the service or the session is stopped there.  The  *)
(* streams of the closed ports are over.                                   *)
Stop ==
  /\ StopAudio
  /\ top' = [s \in 1 .. MaxStreams |-> 0]
  /\ UNCHANGED <<setup, streams, datagrams, pending, enabled>>

-----------------------------------------------------------------------------
(* Audio queue *)

MatchesExpectedPeer(s) == peer = streams[s].phone

(* drain(): a datagram of the data socket, which has come early, late, not *)
(* for the first time or instead of lost ones.                             *)
Ingest(s, number, silent) ==
  IF MatchesExpectedPeer(s) /\ crypto
  THEN /\ Len(pending) < MaxPending
       /\ pending' = Append(pending, [stream |-> s, number |-> number, silent |-> silent])
  ELSE UNCHANGED pending

Arrives(s, number, silent) ==
  /\ top' = [top EXCEPT ![s] = IF number > @ THEN number ELSE @]
  /\ Ingest(s, number, silent)

Drain(s, silent) ==
  /\ running /\ s \in live
  /\ datagrams < MaxDatagrams /\ datagrams' = datagrams + 1
  /\ \E number \in {top[s] + d : d \in Ahead} \cup ({top[s] - d : d \in Behind} \cap Nat) :
       number >= First /\ Arrives(s, number, silent)
  /\ UNCHANGED <<server, playback, streams, live, enabled>>

-----------------------------------------------------------------------------
(* Playback queue *)

Seq16(number) == number % 65536

(* Signed distance of sequence numbers with 16-bit wrap.                   *)
PlainDelta(seq, previous) == seq - previous   \* mutant
SequenceDelta(seq, previous) ==
  LET delta == seq - previous
  IN  CASE delta > 32767 -> delta - 65536
        [] delta < -32768 -> delta + 65536
        [] OTHER -> delta

(* The configuration: a blank one has no key, and its ct is 8.             *)
Cipher == IF config = 0 THEN "none" ELSE streams[config].cipher
Windowed == config # 0 => streams[config].windowed

(* decryptPayload() under hasCryptoMaterial: ChaCha20-Poly1305 opens only  *)
(* what was sealed with the stream's own key, AES-CBC makes something of   *)
(* whatever comes.                                                         *)
Decrypts(packet) ==
  /\ Cipher # "none"
  /\ Cipher = "ChaCha" => packet.stream = config

LateOrEqual(packet) ==   \* mutant
  /\ Windowed /\ last # None
  /\ SequenceDelta(Seq16(packet.number), last) < 0
Late(packet) ==
  /\ Windowed /\ last # None
  /\ SequenceDelta(Seq16(packet.number), last) <= 0

(* The preference is off: the engine goes.                                 *)
Disabled ==
  /\ ~enabled
  /\ engine' = FALSE
  /\ UNCHANGED <<config, last, played, heard>>

(* A marker of silence, a packet that cannot be opened, a late one.        *)
Passed(packet) == packet.silent \/ ~Decrypts(packet) \/ Late(packet)
Skip(packet) ==
  /\ enabled /\ Passed(packet)
  /\ UNCHANGED playback

(* ensureEngine(): an engine that is missing is built again, which may     *)
(* fail; one that is there goes if the preference has just been switched   *)
(* off.                                                                    *)
EnsureEngine == engine' \in BOOLEAN

Play(packet) ==
  /\ enabled /\ ~Passed(packet)
  /\ last' = IF Windowed THEN Seq16(packet.number) ELSE last
  /\ EnsureEngine
  /\ played' = IF packet.stream = config THEN Append(played, packet.number) ELSE played
  /\ heard' = heard \cup {packet.stream}
  /\ UNCHANGED config

HandlePacket ==
  /\ pending # <<>>
  /\ pending' = Tail(pending)
  /\ Disabled \/ Skip(Head(pending)) \/ Play(Head(pending))
  /\ UNCHANGED <<server, phones, enabled>>

-----------------------------------------------------------------------------
(* The user, in the settings. *)
SwitchPlayback ==
  /\ enabled' = ~enabled
  /\ UNCHANGED <<server, playback, phones, pending>>

AudioNext ==
  \/ \E p \in Phone, type \in {"audio", "other"} : OpenSink(p, type)
  \/ \E windowed, hasAddress \in BOOLEAN, cipher \in {"ChaCha", "AES", "none"} :
       Configure(windowed, cipher, hasAddress)
  \/ Stop
  \/ \E s \in live, silent \in BOOLEAN : Drain(s, silent)
  \/ HandlePacket
  \/ SwitchPlayback

(* Requests of the exchange and of audio run on one queue, but share no    *)
(* state.                                                                  *)
PhoneInit == Init /\ AudioInit
PhoneNext ==
  \/ Next /\ UNCHANGED audio
  \/ AudioNext /\ UNCHANGED vars

PhoneSpec == PhoneInit /\ [][PhoneNext]_<<vars, audio>>

-----------------------------------------------------------------------------
(* Properties *)

(* Only the configured stream's own packets have been played.              *)
Undisturbed == config # 0 /\ Windowed /\ heard \subseteq {config}

(* The forward-only window: a stream is played in its order and no packet  *)
(* of it twice, across the wrap of its 16 bits, however its datagrams are  *)
(* lost, doubled and overtaken and whichever streams came before.          *)
ForwardOnly ==
  Undisturbed => \A m, n \in DOMAIN played : m < n => played[m] < played[n]

(* ... and nothing newer is lost to it: a packet ahead of all that were    *)
(* played is played, after silence of up to half the numbers.              *)
Foremost == IF played = <<>> THEN 0 ELSE played[Len(played)]
Newer(packet) ==
  /\ packet.stream = config /\ ~packet.silent
  /\ Cipher # "none"
  /\ packet.number > Foremost /\ (played = <<>> \/ packet.number - Foremost <= 32767)
NewerIsPlayed ==
  [][ (/\ pending # <<>> /\ pending' = Tail(pending)
       /\ enabled /\ Undisturbed /\ Newer(Head(pending)))
      => played' = Append(played, Head(pending).number) ]_audio

(* What is played comes from the phone whose stream is configured: nothing *)
(* that another had sent before is left when the configuration changes.    *)
OnePhoneHeard == \A s \in heard : streams[s].phone = streams[config].phone

(* Without sockets nothing plays and nothing waits to be played, unless a  *)
(* stop came between the two calls of the SETUP that configured it.        *)
StoppedIsSilent ==
  engine \/ pending # <<>> => running \/ (config # 0 /\ streams[config].deaf)
=============================================================================
