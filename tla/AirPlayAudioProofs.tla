------------------------- MODULE AirPlayAudioProofs -------------------------
(***************************************************************************)
(* Proofs about AirPlayAudio, for any phones, any first number, any        *)
(* distances by which datagrams run ahead, and any number of streams,      *)
(* datagrams and waiting packets; and, at the end, about FairPlaySession,  *)
(* whose key decrypts the stream, for any number of key messages.          *)
(***************************************************************************)
EXTENDS AirPlayAudio, SequenceTheorems, TLAPS

(* What a step of PhoneNext is for audio.                                  *)
LEMMA AudioSteps == ASSUME [PhoneNext]_<<vars, audio>> PROVE [AudioNext]_audio
  BY DEF PhoneNext

(* What a packet is, as facts about its fields.                            *)
LEMMA PacketFields ==
  ASSUME NEW packet \in Packet
  PROVE  packet.stream \in 1 .. MaxStreams /\ packet.number \in Nat /\ packet.silent \in BOOLEAN
  BY DEF Packet

(* The queues by their elements.                                           *)
LEMMA Appended ==
  ASSUME NEW S, NEW q \in Seq(S), NEW e \in S
  PROVE  /\ Append(q, e) \in Seq(S)
         /\ Len(Append(q, e)) = Len(q) + 1
         /\ DOMAIN Append(q, e) = 1 .. Len(q) + 1
         /\ \A i \in 1 .. Len(q) : Append(q, e)[i] = q[i]
         /\ Append(q, e)[Len(q) + 1] = e
         /\ Append(q, e) # <<>>
<1>1. Len(q) \in Nat /\ DOMAIN q = 1 .. Len(q)
  BY LenProperties
<1>2. /\ Append(q, e) \in Seq(S) /\ Len(Append(q, e)) = Len(q) + 1
      /\ \A i \in 1 .. Len(q) : Append(q, e)[i] = q[i]
      /\ Append(q, e)[Len(q) + 1] = e
  BY AppendProperties
<1>3. DOMAIN Append(q, e) = 1 .. Len(Append(q, e))
  BY <1>2, LenProperties
<1>4. Append(q, e) # <<>>
  BY <1>1, <1>2, EmptySeq
<1>. QED  BY <1>2, <1>3, <1>4

LEMMA Shortened ==
  ASSUME NEW S, NEW q \in Seq(S), q # <<>>
  PROVE  /\ Head(q) \in S /\ Head(q) = q[1]
         /\ Len(q) \in Nat \ {0} /\ DOMAIN q = 1 .. Len(q)
         /\ Tail(q) \in Seq(S) /\ Len(Tail(q)) = Len(q) - 1
         /\ DOMAIN Tail(q) = 1 .. Len(q) - 1
         /\ \A i \in 1 .. Len(q) - 1 : Tail(q)[i] = q[i + 1]
<1>1. Len(q) \in Nat \ {0} /\ DOMAIN q = 1 .. Len(q)
  BY EmptySeq, LenProperties
<1>2. /\ Head(q) \in S /\ Tail(q) \in Seq(S) /\ Len(Tail(q)) = Len(q) - 1
      /\ \A i \in 1 .. Len(Tail(q)) : Tail(q)[i] = q[i + 1]
  BY HeadTailProperties
<1>3. Head(q) = q[1]
  BY <1>1
<1>4. DOMAIN Tail(q) = 1 .. Len(Tail(q))
  BY <1>2, LenProperties
<1>. QED  BY <1>1, <1>2, <1>3, <1>4

-----------------------------------------------------------------------------
LEMMA SixteenBits ==
  ASSUME NEW n \in Nat
  PROVE  InSixteenBits(Seq16(n))
  BY DEF Seq16, InSixteenBits

LEMMA Wraps ==
  ASSUME NEW n \in Nat
  PROVE  \E k \in Int : n = 65536 * k + Seq16(n)
<1>1. n \div 65536 \in Int
  OBVIOUS
<1>2. n = 65536 * (n \div 65536) + Seq16(n)
  BY DEF Seq16
<1>. QED  BY <1>1, <1>2

(* The distance of two numbers that are at most half the range apart is    *)
(* what their 16 bits say, whether they wrap between them or not.          *)
THEOREM SequenceDistance ==
  ASSUME NEW a \in Nat, NEW b \in Nat, a - b <= 32767, b - a <= 32767
  PROVE  SequenceDelta(Seq16(b), Seq16(a)) = b - a
<1>1. Seq16(a) \in Nat /\ Seq16(a) < 65536 /\ Seq16(b) \in Nat /\ Seq16(b) < 65536
  BY SixteenBits DEF InSixteenBits
<1>2. PICK j \in Int : a = 65536 * j + Seq16(a)
  BY Wraps
<1>3. PICK k \in Int : b = 65536 * k + Seq16(b)
  BY Wraps
<1>. DEFINE delta == Seq16(b) - Seq16(a)
<1>4. delta \in Int /\ delta < 65536 /\ -65536 < delta /\ b - a = 65536 * (k - j) + delta
  BY <1>1, <1>2, <1>3
<1>5. CASE delta > 32767
  <2>1. b - a = delta - 65536
    BY <1>4, <1>5
  <2>. QED  BY <1>4, <1>5, <2>1 DEF SequenceDelta
<1>6. CASE delta < -32768
  <2>1. b - a = delta + 65536
    BY <1>4, <1>6
  <2>. QED  BY <1>4, <1>6, <2>1 DEF SequenceDelta
<1>7. CASE ~(delta > 32767) /\ ~(delta < -32768)
  <2>1. b - a = delta
    BY <1>4, <1>7
  <2>. QED  BY <1>4, <1>7, <2>1 DEF SequenceDelta
<1>. QED  BY <1>5, <1>6, <1>7

-----------------------------------------------------------------------------
(* The actions with their definitions, as the proofs below split them.     *)
LEMMA AudioActions ==
  ASSUME AudioNext
  PROVE  \/ \E p \in Phone, type \in {"audio", "other"} : OpenSink(p, type)
         \/ \E windowed, hasAddress \in BOOLEAN, cipher \in {"ChaCha", "AES", "none"} :
              Configure(windowed, cipher, hasAddress)
         \/ Stop
         \/ \E s \in live, silent \in BOOLEAN : Drain(s, silent)
         \/ HandlePacket
         \/ SwitchPlayback
  BY DEF AudioNext

(* The lengths and indices that the types give.                            *)
LEMMA AudioFacts ==
  ASSUME AudioTypeOK
  PROVE  /\ Len(streams) \in Nat /\ Len(streams) <= MaxStreams /\ MaxStreams \in Nat
         /\ Len(pending) \in Nat /\ Len(played) \in Nat
         /\ DOMAIN pending = 1 .. Len(pending) /\ DOMAIN played = 1 .. Len(played)
         /\ config \in Nat /\ config <= Len(streams)
         /\ \A s \in 1 .. Len(streams) : s \in 1 .. MaxStreams /\ streams[s] \in Stream
         /\ \A s \in 1 .. MaxStreams : top[s] \in Nat
         /\ live \subseteq 1 .. Len(streams)
<1>1. streams \in Seq(Stream) /\ pending \in Seq(Packet) /\ played \in Seq(Nat)
  BY DEF AudioTypeOK, PhonesOK, PlaybackOK, HistoryOK
<1>2. Len(streams) \in Nat /\ Len(pending) \in Nat /\ Len(played) \in Nat
  BY <1>1, LenProperties
<1>3. DOMAIN pending = 1 .. Len(pending) /\ DOMAIN played = 1 .. Len(played)
  BY <1>1, LenProperties
<1>4. Len(streams) <= MaxStreams /\ MaxStreams \in Nat /\ live \subseteq 1 .. Len(streams)
  BY AudioAssumption DEF AudioTypeOK, PhonesOK
<1>5. \A s \in 1 .. Len(streams) : s \in 1 .. MaxStreams /\ streams[s] \in Stream
  BY <1>1, <1>2, <1>4, ElementOfSeq
<1>6. \A s \in 1 .. MaxStreams : top[s] \in Nat
  BY DEF AudioTypeOK, PhonesOK
<1>7. config \in Nat /\ config <= Len(streams)
  BY <1>2 DEF AudioTypeOK, PlaybackOK
<1>. QED  BY <1>2, <1>3, <1>4, <1>5, <1>6, <1>7

LEMMA EngineTypes ==
  ASSUME AudioTypeOK
  PROVE  engine \in BOOLEAN /\ enabled \in BOOLEAN /\ (engine => config # 0)
  BY Zenon DEF AudioTypeOK, PlaybackOK

(* A datagram's number, and the packet that waits if it is taken.          *)
LEMMA DrainedNumber ==
  ASSUME AudioTypeOK, NEW s \in live, NEW silent \in BOOLEAN, Drain(s, silent)
  PROVE  \E number \in Nat : top[s] - number <= 32767 /\ Arrives(s, number, silent)
<1>1. top[s] \in Nat
  BY AudioFacts
<1>2. PICK number \in {top[s] + d : d \in Ahead} \cup ({top[s] - d : d \in Behind} \cap Nat) :
          Arrives(s, number, silent)
  BY DEF Drain
<1>3. number \in Nat /\ top[s] - number <= 32767
  <2>1. CASE number \in {top[s] + d : d \in Ahead}
    <3>1. PICK d \in Ahead : number = top[s] + d
      BY <2>1
    <3>2. d \in Nat
      BY AudioAssumption
    <3>. QED  BY <1>1, <3>1, <3>2
  <2>2. CASE number \in {top[s] - d : d \in Behind} \cap Nat
    <3>1. PICK d \in Behind : number = top[s] - d
      BY <2>2
    <3>2. d \in Nat /\ d <= 32767 /\ number \in Nat
      BY <2>2, AudioAssumption
    <3>. QED  BY <1>1, <3>1, <3>2
  <2>. QED  BY <2>1, <2>2
<1>. QED  BY <1>2, <1>3

-----------------------------------------------------------------------------
(* Type correctness.                                                       *)
LEMMA DrainTypes ==
  ASSUME AudioTypeOK, NEW s \in live, NEW silent \in BOOLEAN, Drain(s, silent)
  PROVE  AudioTypeOK'
<1>1. PICK number \in Nat : Arrives(s, number, silent)
  BY DrainedNumber
<1>2. s \in 1 .. MaxStreams
  BY AudioFacts
<1>3. top' \in [1 .. MaxStreams -> Nat]
  BY <1>1, <1>2 DEF AudioTypeOK, PhonesOK, Arrives
<1>4. Len(pending') <= MaxPending /\ pending' \in Seq(Packet)
  <2>1. [stream |-> s, number |-> number, silent |-> silent] \in Packet
    BY <1>2 DEF Packet
  <2>2. pending \in Seq(Packet) /\ Len(pending) <= MaxPending /\ Len(pending) \in Nat /\ MaxPending \in Nat
    BY AudioFacts, AudioAssumption DEF AudioTypeOK, PlaybackOK
  <2>. QED  BY <1>1, <2>1, <2>2, Appended DEF Arrives, Ingest
<1>5. datagrams' \in 0 .. MaxDatagrams
  BY AudioAssumption DEF Drain, AudioTypeOK, PhonesOK
<1>6. UNCHANGED <<server, playback, streams, live, enabled>>
  BY DEF Drain
<1>7. ServerOK' /\ HistoryOK'
  BY <1>6 DEF AudioTypeOK, ServerOK, HistoryOK, server, playback
<1>8. PlaybackOK'
  BY <1>4, <1>6 DEF AudioTypeOK, PlaybackOK, playback
<1>9. PhonesOK'
  BY <1>3, <1>5, <1>6 DEF AudioTypeOK, PhonesOK
<1>. QED  BY <1>7, <1>8, <1>9 DEF AudioTypeOK

(* The stream that a SETUP adds.                                           *)
LEMMA ConfiguredStream ==
  ASSUME AudioTypeOK, NEW windowed \in BOOLEAN, NEW hasAddress \in BOOLEAN,
         NEW cipher \in {"ChaCha", "AES", "none"}, Configure(windowed, cipher, hasAddress)
  PROVE  /\ setup \in Phone /\ pending = <<>>
         /\ streams' \in Seq(Stream) /\ Len(streams') = Len(streams) + 1 /\ Len(streams') <= MaxStreams
         /\ \A s \in 1 .. Len(streams) : streams'[s] = streams[s]
         /\ config' = Len(streams') /\ played' = <<>> /\ heard' = {} /\ last' = None
         /\ streams'[config'].phone = setup /\ streams'[config'].deaf = ~running
         /\ peer' \in {setup, None}
<1>. DEFINE stream == [phone |-> setup, windowed |-> windowed, cipher |-> cipher, deaf |-> ~running]
<1>1. setup \in Phone /\ running \in BOOLEAN
  BY DEF Configure, AudioTypeOK, ServerOK
<1>2. stream \in Stream
  BY <1>1 DEF Stream
<1>3. streams \in Seq(Stream) /\ Len(streams) \in Nat
  BY AudioFacts DEF AudioTypeOK, PhonesOK
<1>4. streams' = Append(streams, stream) /\ config' = Len(streams) + 1 /\ Len(streams) + 1 <= MaxStreams
  BY DEF Configure, ConfigurePlayback
<1>. HIDE DEF stream
<1>5. /\ streams' \in Seq(Stream) /\ Len(streams') = Len(streams) + 1
      /\ \A s \in 1 .. Len(streams) : streams'[s] = streams[s]
      /\ streams'[config'] = stream
  BY <1>2, <1>3, <1>4, Appended
<1>6. stream.phone = setup /\ stream.deaf = ~running
  BY DEF stream
<1>7. pending = <<>> /\ played' = <<>> /\ heard' = {} /\ last' = None /\ peer' \in {setup, None}
  BY DEF Configure, Synced, ConfigurePlayback, ExpectPeer
<1>. QED  BY <1>1, <1>4, <1>5, <1>6, <1>7

LEMMA ConfigureTypes ==
  ASSUME AudioTypeOK, NEW windowed \in BOOLEAN, NEW hasAddress \in BOOLEAN,
         NEW cipher \in {"ChaCha", "AES", "none"}, Configure(windowed, cipher, hasAddress)
  PROVE  AudioTypeOK'
<1>1. /\ setup \in Phone /\ streams' \in Seq(Stream) /\ Len(streams') = Len(streams) + 1
      /\ Len(streams') <= MaxStreams /\ config' = Len(streams') /\ played' = <<>> /\ heard' = {}
      /\ last' = None /\ peer' \in {setup, None}
  BY ConfiguredStream
<1>2. /\ Len(streams) \in Nat /\ MaxStreams \in Nat /\ live \subseteq 1 .. Len(streams)
      /\ UNCHANGED <<running, datagrams, pending, enabled>> /\ setup' = None
  BY AudioFacts DEF Configure
<1>3. ServerOK'
  <2>1. crypto' \in BOOLEAN
    BY Zenon DEF Configure
  <2>. QED  BY <1>1, <1>2, <2>1 DEF AudioTypeOK, ServerOK
<1>4. PlaybackOK'
  <2>1. engine' \in BOOLEAN
    BY DEF Configure, ConfigurePlayback
  <2>2. config' \in 0 .. Len(streams') /\ config' # 0
    BY <1>1, <1>2
  <2>. QED  BY <1>1, <1>2, <2>1, <2>2 DEF AudioTypeOK, PlaybackOK
<1>5. PhonesOK'
  <2>1. live' \subseteq 1 .. Len(streams')
    <3>1. live' \subseteq live \cup {Len(streams) + 1}
      BY DEF Configure
    <3>. QED  BY <1>1, <1>2, <3>1
  <2>2. top' \in [1 .. MaxStreams -> Nat]
    BY AudioAssumption DEF Configure, AudioTypeOK, PhonesOK
  <2>. QED  BY <1>1, <1>2, <2>1, <2>2 DEF AudioTypeOK, PhonesOK
<1>6. HistoryOK'
  BY <1>1, EmptySeq DEF HistoryOK
<1>. QED  BY <1>3, <1>4, <1>5, <1>6 DEF AudioTypeOK

LEMMA OpenSinkTypes ==
  ASSUME AudioTypeOK, NEW p \in Phone, NEW type \in {"audio", "other"}, OpenSink(p, type)
  PROVE  AudioTypeOK'
<1>1. UNCHANGED <<playback, streams, top, datagrams, pending, enabled>>
  BY DEF OpenSink
<1>2. /\ running' \in BOOLEAN /\ peer' \in Phone \cup {None} /\ crypto' \in BOOLEAN
      /\ live' \subseteq 1 .. Len(streams)
  BY DEF OpenSink, EnsureRunning, CloseSockets, AudioTypeOK, ServerOK, PhonesOK
<1>3. setup' \in Phone \cup {None}
  BY DEF OpenSink
<1>4. ServerOK'
  BY <1>2, <1>3 DEF ServerOK
<1>5. PlaybackOK' /\ HistoryOK'
  BY <1>1 DEF AudioTypeOK, PlaybackOK, HistoryOK, playback
<1>6. PhonesOK'
  BY <1>1, <1>2 DEF AudioTypeOK, PhonesOK
<1>. QED  BY <1>4, <1>5, <1>6 DEF AudioTypeOK

LEMMA StopTypes ==
  ASSUME AudioTypeOK, Stop
  PROVE  AudioTypeOK'
<1>1. /\ running' = FALSE /\ peer' = None /\ crypto' = FALSE /\ live' = {}
      /\ config' = 0 /\ last' = None /\ engine' = FALSE /\ played' = <<>> /\ heard' = {}
      /\ top' = [s \in 1 .. MaxStreams |-> 0]
      /\ UNCHANGED <<setup, streams, datagrams, pending, enabled>>
  BY DEF Stop, StopAudio, CloseSockets, ResetPlayback
<1>2. ServerOK'
  BY <1>1 DEF AudioTypeOK, ServerOK
<1>3. PlaybackOK'
  <2>1. config' \in 0 .. Len(streams')
    BY <1>1, AudioFacts
  <2>2. engine' \in BOOLEAN /\ enabled' \in BOOLEAN
    <3>1. enabled \in BOOLEAN
      BY EngineTypes
    <3>. QED  BY <1>1, <3>1, Zenon
  <2>3. pending' = pending /\ Len(pending) <= MaxPending /\ pending \in Seq(Packet)
    BY <1>1 DEF AudioTypeOK, PlaybackOK
  <2>. QED  BY <1>1, <2>1, <2>2, <2>3 DEF PlaybackOK
<1>4. PhonesOK'
  BY <1>1 DEF AudioTypeOK, PhonesOK
<1>5. HistoryOK'
  BY <1>1, EmptySeq DEF HistoryOK
<1>. QED  BY <1>2, <1>3, <1>4, <1>5 DEF AudioTypeOK

(* What a packet does to the playback when it is its turn.                 *)
LEMMA Handled ==
  ASSUME AudioTypeOK, HandlePacket
  PROVE  /\ pending # <<>> /\ pending' = Tail(pending) /\ UNCHANGED <<server, phones, enabled, config>>
         /\ Head(pending) \in Packet
         /\ \/ UNCHANGED <<last, played, heard>> /\ engine' \in {engine, FALSE}
            \/ Play(Head(pending))
<1>1. pending # <<>> /\ pending' = Tail(pending) /\ UNCHANGED <<server, phones, enabled>>
  BY DEF HandlePacket
<1>2. Head(pending) \in Packet
  BY <1>1, Shortened DEF AudioTypeOK, PlaybackOK
<1>3. CASE Disabled
  BY <1>1, <1>2, <1>3 DEF Disabled
<1>4. CASE Skip(Head(pending))
  BY <1>1, <1>2, <1>4 DEF Skip, playback
<1>5. CASE Play(Head(pending))
  BY <1>1, <1>2, <1>5 DEF Play
<1>. QED  BY <1>3, <1>4, <1>5 DEF HandlePacket

(* What waits has come on a stream that was set up.                        *)
FromStreams == \A i \in 1 .. Len(pending) : pending[i].stream <= Len(streams)

LEMMA HeadFromStreams ==
  ASSUME AudioTypeOK, FromStreams, pending # <<>>
  PROVE  Head(pending).stream <= Len(streams)
<1>1. Head(pending) = pending[1] /\ Len(pending) \in Nat \ {0}
  BY Shortened DEF AudioTypeOK, PlaybackOK
<1>. QED  BY <1>1 DEF FromStreams

LEMMA FromStreamsKept ==
  ASSUME AudioTypeOK, FromStreams, [AudioNext]_audio
  PROVE  FromStreams'
<1>1. CASE pending' = pending /\ streams' = streams
  BY <1>1 DEF FromStreams
<1>2. ASSUME NEW s \in live, NEW silent \in BOOLEAN, Drain(s, silent)
      PROVE  FromStreams'
  <2>1. PICK number \in Nat : Arrives(s, number, silent)
    BY <1>2, DrainedNumber
  <2>2. streams' = streams
    BY <1>2 DEF Drain
  <2>3. CASE pending' = Append(pending, [stream |-> s, number |-> number, silent |-> silent])
    <3>1. s \in 1 .. MaxStreams /\ s \in 1 .. Len(streams) /\ pending \in Seq(Packet)
      BY AudioFacts DEF AudioTypeOK, PlaybackOK
    <3>2. [stream |-> s, number |-> number, silent |-> silent] \in Packet
      BY <3>1 DEF Packet
    <3>3. /\ Len(pending') = Len(pending) + 1 /\ Len(pending) \in Nat /\ Len(streams) \in Nat
          /\ pending'[Len(pending) + 1].stream = s
          /\ \A i \in 1 .. Len(pending) : pending'[i] = pending[i]
      BY <2>3, <3>1, <3>2, Appended, AudioFacts
    <3>. QED  BY <2>2, <3>1, <3>3 DEF FromStreams
  <2>. QED  BY <1>1, <2>1, <2>2, <2>3 DEF Arrives, Ingest
<1>3. ASSUME NEW windowed \in BOOLEAN, NEW hasAddress \in BOOLEAN,
             NEW cipher \in {"ChaCha", "AES", "none"}, Configure(windowed, cipher, hasAddress)
      PROVE  FromStreams'
  <2>1. pending' = pending /\ Len(streams') = Len(streams) + 1 /\ Len(streams) \in Nat
    BY <1>3, ConfiguredStream, AudioFacts DEF Configure
  <2>2. \A i \in 1 .. Len(pending) : pending[i].stream \in Nat
    BY AudioFacts, ElementOfSeq, PacketFields DEF AudioTypeOK, PlaybackOK
  <2>. QED  BY <2>1, <2>2 DEF FromStreams
<1>4. CASE HandlePacket
  <2>1. pending # <<>> /\ pending' = Tail(pending) /\ streams' = streams
    BY <1>4, Handled DEF phones
  <2>2. /\ Len(pending') = Len(pending) - 1 /\ Len(pending) \in Nat
        /\ \A i \in 1 .. Len(pending) - 1 : pending'[i] = pending[i + 1]
    BY <2>1, Shortened DEF AudioTypeOK, PlaybackOK
  <2>. QED  BY <2>1, <2>2 DEF FromStreams
<1>5. ASSUME NEW p \in Phone, NEW type \in {"audio", "other"}, OpenSink(p, type)
      PROVE  FromStreams'
  BY <1>1, <1>5 DEF OpenSink
<1>6. CASE Stop
  BY <1>1, <1>6 DEF Stop
<1>7. CASE SwitchPlayback \/ UNCHANGED audio
  BY <1>1, <1>7 DEF SwitchPlayback, audio, phones
<1>. QED  BY <1>2, <1>3, <1>4, <1>5, <1>6, <1>7, AudioActions

LEMMA HandleTypes ==
  ASSUME AudioTypeOK, FromStreams, HandlePacket
  PROVE  AudioTypeOK'
<1>. DEFINE packet == Head(pending)
<1>1. /\ pending # <<>> /\ pending' = Tail(pending) /\ UNCHANGED <<server, phones, enabled, config>>
      /\ packet \in Packet
  BY Handled
<1>2. pending' \in Seq(Packet) /\ Len(pending') <= MaxPending
  <2>1. pending \in Seq(Packet) /\ Len(pending) <= MaxPending /\ MaxPending \in Nat
    BY AudioAssumption DEF AudioTypeOK, PlaybackOK
  <2>. QED  BY <1>1, <2>1, Shortened
<1>3. ServerOK' /\ PhonesOK'
  BY <1>1 DEF AudioTypeOK, ServerOK, PhonesOK, server, phones
<1>4. streams' = streams /\ config' = config /\ enabled' = enabled
  BY <1>1 DEF phones
<1>5. CASE UNCHANGED <<last, played, heard>> /\ engine' \in {engine, FALSE}
  <2>1. HistoryOK'
    BY <1>4, <1>5 DEF AudioTypeOK, HistoryOK
  <2>2. engine' \in BOOLEAN /\ (engine' => config' # 0)
    <3>1. engine \in BOOLEAN /\ (engine => config # 0)
      BY EngineTypes
    <3>2. engine' = engine \/ engine' = FALSE
      BY <1>5
    <3>3. engine' \in BOOLEAN
      BY <3>1, <3>2, Zenon
    <3>4. ASSUME engine' PROVE config' # 0
      <4>1. engine' = engine
        BY <3>2, <3>4, Zenon
      <4>. QED  BY <1>4, <3>1, <3>4, <4>1, Zenon
    <3>. QED  BY <3>3, <3>4, Zenon
  <2>3. PlaybackOK'
    BY <1>2, <1>4, <1>5, <2>2 DEF AudioTypeOK, PlaybackOK
  <2>. QED  BY <1>3, <2>1, <2>3 DEF AudioTypeOK
<1>6. CASE Play(packet)
  <2>1. packet.number \in Nat /\ config # 0
    BY <1>1, <1>6, PacketFields DEF Play, Passed, Decrypts, Cipher
  <2>2. last' # None => InSixteenBits(last')
    BY <1>6, <2>1, SixteenBits DEF Play, AudioTypeOK, PlaybackOK
  <2>3. engine' \in BOOLEAN
    BY <1>6 DEF Play, EnsureEngine
  <2>4. PlaybackOK'
    BY <1>2, <1>4, <2>1, <2>2, <2>3 DEF AudioTypeOK, PlaybackOK
  <2>5. played' \in Seq(Nat)
    <3>1. played \in Seq(Nat)
      BY DEF AudioTypeOK, HistoryOK
    <3>. QED  BY <1>6, <2>1, <3>1, Appended DEF Play
  <2>6. heard' \subseteq 1 .. Len(streams')
    <3>1. packet.stream \in 1 .. Len(streams)
      BY <1>1, PacketFields, AudioFacts, HeadFromStreams
    <3>2. heard \subseteq 1 .. Len(streams) /\ heard' = heard \cup {packet.stream}
      BY <1>6 DEF Play, AudioTypeOK, HistoryOK
    <3>. QED  BY <1>4, <3>1, <3>2
  <2>. QED  BY <1>3, <2>4, <2>5, <2>6 DEF AudioTypeOK, HistoryOK
<1>. QED  BY <1>5, <1>6, Handled

LEMMA TypesKept ==
  ASSUME AudioTypeOK, FromStreams, [AudioNext]_audio
  PROVE  AudioTypeOK'
<1>1. CASE SwitchPlayback
  <2>1. enabled' \in BOOLEAN /\ UNCHANGED <<server, playback, phones, pending>>
    BY <1>1 DEF SwitchPlayback
  <2>. QED  BY <2>1 DEF AudioTypeOK, ServerOK, PlaybackOK, PhonesOK, HistoryOK, server, playback, phones
<1>2. CASE UNCHANGED audio
  BY <1>2 DEF AudioTypeOK, ServerOK, PlaybackOK, PhonesOK, HistoryOK, audio, server, playback, phones
<1>. QED  BY <1>1, <1>2, AudioActions, OpenSinkTypes, ConfigureTypes, StopTypes, DrainTypes, HandleTypes

LEMMA TypesAtStart == ASSUME AudioInit PROVE AudioTypeOK /\ FromStreams
<1>1. ServerOK
  BY DEF AudioInit, ServerOK
<1>2. /\ <<>> \in Seq(Packet) /\ <<>> \in Seq(Stream) /\ <<>> \in Seq(Nat) /\ Len(<<>>) = 0
      /\ MaxPending \in Nat /\ MaxStreams \in Nat /\ MaxDatagrams \in Nat
  BY EmptySeq, AudioAssumption
<1>3. PlaybackOK
  <2>1. engine \in BOOLEAN /\ enabled \in BOOLEAN /\ ~engine
    BY Zenon DEF AudioInit
  <2>2. Len(pending) <= MaxPending /\ pending \in Seq(Packet) /\ config \in 0 .. Len(streams) /\ last = None
    BY <1>2 DEF AudioInit
  <2>. QED  BY <2>1, <2>2, Zenon DEF PlaybackOK
<1>4. PhonesOK /\ HistoryOK
  BY <1>2 DEF AudioInit, PhonesOK, HistoryOK
<1>5. FromStreams
  BY <1>2 DEF AudioInit, FromStreams
<1>. QED  BY <1>1, <1>3, <1>4, <1>5 DEF AudioTypeOK

(* AudioTypeOK holds for any phones, streams, datagrams and waiting        *)
(* packets: of the audio server, the playback and its configuration.       *)
THEOREM AudioTypes == PhoneSpec => []AudioTypeOK
<1>. DEFINE TInv == AudioTypeOK /\ FromStreams
<1>1. PhoneInit => TInv
  BY TypesAtStart DEF PhoneInit
<1>2. TInv /\ [PhoneNext]_<<vars, audio>> => TInv'
  BY AudioSteps, TypesKept, FromStreamsKept
<1>. QED  BY <1>1, <1>2, PTL DEF PhoneSpec

-----------------------------------------------------------------------------
(* Whose packets wait: the peer is the phone of the configuration, and so  *)
(* is the phone of everything that has been taken since.                   *)
PeerConfigured == peer # None => config # 0 /\ peer = streams[config].phone
WaitingFromPhone ==
  \A i \in 1 .. Len(pending) : config # 0 /\ streams[pending[i].stream].phone = streams[config].phone
PhoneInv == PeerConfigured /\ WaitingFromPhone /\ OnePhoneHeard

LEMMA HandleKeepsPhone ==
  ASSUME AudioTypeOK, FromStreams, PhoneInv, HandlePacket
  PROVE  PhoneInv'
<1>. DEFINE packet == Head(pending)
<1>1. /\ pending # <<>> /\ pending' = Tail(pending) /\ streams' = streams /\ config' = config
      /\ peer' = peer /\ packet \in Packet
  BY Handled DEF phones, server
<1>2. /\ Len(pending') = Len(pending) - 1 /\ Len(pending) \in Nat \ {0} /\ packet = pending[1]
      /\ \A i \in 1 .. Len(pending) - 1 : pending'[i] = pending[i + 1]
  BY <1>1, Shortened DEF AudioTypeOK, PlaybackOK
<1>3. PeerConfigured'
  BY <1>1 DEF PhoneInv, PeerConfigured
<1>4. WaitingFromPhone'
  BY <1>1, <1>2 DEF PhoneInv, WaitingFromPhone
<1>5. heard' \subseteq heard \cup {packet.stream}
  BY Handled DEF Play
<1>6. streams[packet.stream].phone = streams[config].phone
  BY <1>2 DEF PhoneInv, WaitingFromPhone
<1>7. OnePhoneHeard'
  BY <1>1, <1>5, <1>6 DEF PhoneInv, OnePhoneHeard
<1>. QED  BY <1>3, <1>4, <1>7 DEF PhoneInv

LEMMA DrainKeepsPhone ==
  ASSUME AudioTypeOK, PhoneInv, NEW s \in live, NEW silent \in BOOLEAN, Drain(s, silent)
  PROVE  PhoneInv'
<1>1. PICK number \in Nat : Arrives(s, number, silent)
  BY DrainedNumber
<1>2. UNCHANGED <<server, playback, streams>>
  BY DEF Drain
<1>3. PeerConfigured' /\ OnePhoneHeard'
  BY <1>2 DEF PhoneInv, PeerConfigured, OnePhoneHeard, server, playback
<1>4. CASE pending' = pending
  BY <1>2, <1>3, <1>4 DEF PhoneInv, WaitingFromPhone, playback
<1>5. CASE /\ MatchesExpectedPeer(s)
           /\ pending' = Append(pending, [stream |-> s, number |-> number, silent |-> silent])
  <2>1. s \in 1 .. MaxStreams /\ s \in 1 .. Len(streams) /\ pending \in Seq(Packet)
    BY AudioFacts DEF AudioTypeOK, PlaybackOK
  <2>2. [stream |-> s, number |-> number, silent |-> silent] \in Packet
    BY <2>1 DEF Packet
  <2>3. /\ Len(pending') = Len(pending) + 1 /\ Len(pending) \in Nat
        /\ pending'[Len(pending) + 1].stream = s
        /\ \A i \in 1 .. Len(pending) : pending'[i] = pending[i]
    BY <1>5, <2>1, <2>2, Appended, AudioFacts
  <2>4. peer = streams[s].phone /\ streams[s].phone \in Phone
    BY <1>5, <2>1, AudioFacts DEF MatchesExpectedPeer, Stream
  <2>5. config # 0 /\ streams[s].phone = streams[config].phone
    BY <2>4, AudioAssumption DEF PhoneInv, PeerConfigured
  <2>6. WaitingFromPhone'
    BY <1>2, <2>3, <2>5 DEF PhoneInv, WaitingFromPhone, playback
  <2>. QED  BY <1>3, <2>6 DEF PhoneInv
<1>. QED  BY <1>1, <1>4, <1>5 DEF Arrives, Ingest

LEMMA PhoneKept ==
  ASSUME AudioTypeOK, FromStreams, PhoneInv, [AudioNext]_audio
  PROVE  PhoneInv'
<1>1. CASE peer' \in {peer, None} /\ UNCHANGED <<playback, streams, pending>>
  BY <1>1 DEF PhoneInv, PeerConfigured, WaitingFromPhone, OnePhoneHeard, playback
<1>2. ASSUME NEW p \in Phone, NEW type \in {"audio", "other"}, OpenSink(p, type)
      PROVE  PhoneInv'
  BY <1>1, <1>2 DEF OpenSink, EnsureRunning, CloseSockets
<1>3. ASSUME NEW windowed \in BOOLEAN, NEW hasAddress \in BOOLEAN,
             NEW cipher \in {"ChaCha", "AES", "none"}, Configure(windowed, cipher, hasAddress)
      PROVE  PhoneInv'
  <2>1. /\ pending = <<>> /\ heard' = {} /\ peer' \in {setup, None} /\ config' = Len(streams) + 1
        /\ streams'[config'].phone = setup
    BY <1>3, ConfiguredStream
  <2>2. pending' = pending /\ Len(<<>>) = 0 /\ Len(streams) \in Nat
    BY <1>3, EmptySeq, AudioFacts DEF Configure
  <2>3. PeerConfigured'
    BY <2>1, <2>2 DEF PeerConfigured
  <2>4. WaitingFromPhone' /\ OnePhoneHeard'
    BY <2>1, <2>2 DEF WaitingFromPhone, OnePhoneHeard
  <2>. QED  BY <2>3, <2>4 DEF PhoneInv
<1>4. CASE Stop
  <2>1. pending' = <<>> /\ heard' = {} /\ peer' = None /\ Len(<<>>) = 0
    BY <1>4, EmptySeq DEF Stop, StopAudio, Synced, CloseSockets, ResetPlayback
  <2>. QED  BY <2>1 DEF PhoneInv, PeerConfigured, WaitingFromPhone, OnePhoneHeard
<1>5. CASE SwitchPlayback \/ UNCHANGED audio
  BY <1>1, <1>5 DEF SwitchPlayback, audio, phones, server
<1>. QED  BY <1>2, <1>3, <1>4, <1>5, DrainKeepsPhone, HandleKeepsPhone, AudioActions

(* What is played comes from the phone whose stream is configured, for any *)
(* number of phones and streams set up one after the other.                *)
THEOREM OnePhonePlayed == PhoneSpec => []OnePhoneHeard
<1>. DEFINE HInv == AudioTypeOK /\ FromStreams /\ PhoneInv
<1>1. PhoneInit => HInv
  <2>1. AudioInit => PhoneInv
    BY EmptySeq DEF AudioInit, PhoneInv, PeerConfigured, WaitingFromPhone, OnePhoneHeard
  <2>. QED  BY <2>1, TypesAtStart DEF PhoneInit
<1>2. HInv /\ [PhoneNext]_<<vars, audio>> => HInv'
  BY AudioSteps, TypesKept, FromStreamsKept, PhoneKept
<1>3. HInv => OnePhoneHeard
  BY DEF PhoneInv
<1>. QED  BY <1>1, <1>2, <1>3, PTL DEF PhoneSpec

-----------------------------------------------------------------------------
(* Silence after a stop.                                                   *)
LEMMA SilenceKept ==
  ASSUME AudioTypeOK, StoppedIsSilent, [AudioNext]_audio
  PROVE  StoppedIsSilent'
<1>1. ASSUME NEW p \in Phone, NEW type \in {"audio", "other"}, OpenSink(p, type)
      PROVE  StoppedIsSilent'
  <2>1. UNCHANGED <<engine, pending, config, streams>> /\ (running => running')
    BY <1>1 DEF OpenSink, EnsureRunning, playback
  <2>. QED  BY <2>1 DEF StoppedIsSilent
<1>2. ASSUME NEW windowed \in BOOLEAN, NEW hasAddress \in BOOLEAN,
             NEW cipher \in {"ChaCha", "AES", "none"}, Configure(windowed, cipher, hasAddress)
      PROVE  StoppedIsSilent'
  <2>1. config' = Len(streams) + 1 /\ streams'[config'].deaf = ~running /\ running' = running
    BY <1>2, ConfiguredStream DEF Configure
  <2>2. Len(streams) \in Nat
    BY AudioFacts
  <2>3. config' # 0
    BY <2>1, <2>2
  <2>4. running' \/ streams'[config'].deaf
    BY <2>1, Zenon
  <2>. QED  BY <2>3, <2>4, Zenon DEF StoppedIsSilent
<1>3. CASE Stop
  <2>1. pending' = <<>> /\ engine' = FALSE
    BY <1>3 DEF Stop, StopAudio, Synced, ResetPlayback
  <2>. QED  BY <2>1 DEF StoppedIsSilent
<1>4. ASSUME NEW s \in live, NEW silent \in BOOLEAN, Drain(s, silent)
      PROVE  StoppedIsSilent'
  <2>1. running /\ running' = running
    BY <1>4 DEF Drain, server
  <2>. QED  BY <2>1 DEF StoppedIsSilent
<1>5. CASE HandlePacket
  <2>1. pending # <<>> /\ running' = running /\ config' = config /\ streams' = streams
    BY <1>5, Handled DEF phones, server
  <2>. QED  BY <2>1 DEF StoppedIsSilent
<1>6. CASE SwitchPlayback \/ UNCHANGED audio
  BY <1>6 DEF SwitchPlayback, StoppedIsSilent, audio, phones, server, playback
<1>. QED  BY <1>1, <1>2, <1>3, <1>4, <1>5, <1>6, AudioActions

(* Without sockets nothing plays and nothing waits to be played, unless a  *)
(* stop came between the two calls of the SETUP that configured it.        *)
THEOREM SilentWhenStopped == PhoneSpec => []StoppedIsSilent
<1>. DEFINE SInv == AudioTypeOK /\ FromStreams /\ StoppedIsSilent
<1>1. PhoneInit => SInv
  <2>1. AudioInit => StoppedIsSilent
    BY DEF AudioInit, StoppedIsSilent
  <2>. QED  BY <2>1, TypesAtStart DEF PhoneInit
<1>2. SInv /\ [PhoneNext]_<<vars, audio>> => SInv'
  BY AudioSteps, TypesKept, FromStreamsKept, SilenceKept
<1>. QED  BY <1>1, <1>2, PTL DEF PhoneSpec

-----------------------------------------------------------------------------
(* How far what waits may lie behind what came before it, and before what  *)
(* has been played.                                                        *)
UnderTop == \A i \in 1 .. Len(pending) : pending[i].number <= top[pending[i].stream]
InReach ==
  \A i, j \in 1 .. Len(pending) :
     i < j /\ pending[i].stream = pending[j].stream => pending[i].number - pending[j].number <= 32767
PlayedUnderTop == config # 0 /\ played # <<>> => Foremost <= top[config]
PlayedInReach ==
  config # 0 /\ played # <<>> =>
    \A i \in 1 .. Len(pending) : pending[i].stream = config => Foremost - pending[i].number <= 32767
WindowAtForemost ==
  Undisturbed => IF played = <<>> THEN last = None ELSE last = Seq16(Foremost)
WindowInv ==
  UnderTop /\ InReach /\ PlayedUnderTop /\ PlayedInReach /\ WindowAtForemost /\ ForwardOnly

(* The packets that wait, one by one.                                      *)
LEMMA WaitingFacts ==
  ASSUME AudioTypeOK, FromStreams
  PROVE  \A i \in 1 .. Len(pending) :
           /\ pending[i] \in Packet /\ pending[i].number \in Nat
           /\ pending[i].stream \in 1 .. MaxStreams /\ pending[i].stream \in 1 .. Len(streams)
           /\ top[pending[i].stream] \in Nat
<1>1. \A i \in 1 .. Len(pending) : pending[i] \in Packet
  BY AudioFacts, ElementOfSeq DEF AudioTypeOK, PlaybackOK
<1>2. \A i \in 1 .. Len(pending) : pending[i].number \in Nat /\ pending[i].stream \in 1 .. MaxStreams
  BY <1>1, PacketFields
<1>3. \A i \in 1 .. Len(pending) : pending[i].stream \in 1 .. Len(streams)
  BY <1>2, AudioFacts DEF FromStreams
<1>. QED  BY <1>1, <1>2, <1>3, AudioFacts

LEMMA ForemostFacts ==
  ASSUME AudioTypeOK
  PROVE  /\ Foremost \in Nat
         /\ played # <<>> => Len(played) \in Nat \ {0} /\ Foremost = played[Len(played)]
         /\ \A m \in 1 .. Len(played) : played[m] \in Nat
<1>1. played \in Seq(Nat) /\ Len(played) \in Nat
  BY AudioFacts DEF AudioTypeOK, HistoryOK
<1>2. played # <<>> => Len(played) \in Nat \ {0}
  BY <1>1, EmptySeq
<1>3. \A m \in 1 .. Len(played) : played[m] \in Nat
  BY <1>1, ElementOfSeq
<1>. QED  BY <1>1, <1>2, <1>3 DEF Foremost

LEMMA DrainKeepsWindow ==
  ASSUME AudioTypeOK, FromStreams, WindowInv,
         NEW s \in live, NEW silent \in BOOLEAN, Drain(s, silent)
  PROVE  WindowInv'
<1>1. PICK number \in Nat : top[s] - number <= 32767 /\ Arrives(s, number, silent)
  BY DrainedNumber
<1>2. UNCHANGED <<server, playback, streams>> /\ UNCHANGED <<config, last, played, heard>>
  BY DEF Drain, playback
<1>3. s \in 1 .. MaxStreams /\ s \in 1 .. Len(streams) /\ top[s] \in Nat
      /\ pending \in Seq(Packet) /\ Len(pending) \in Nat
      /\ config \in Nat /\ config <= Len(streams) /\ Len(streams) <= MaxStreams /\ Len(streams) \in Nat
      /\ MaxStreams \in Nat
  BY AudioFacts DEF AudioTypeOK, PlaybackOK
<1>4. \A t \in 1 .. MaxStreams : top[t] \in Nat /\ top'[t] \in Nat /\ top[t] <= top'[t]
  BY <1>1, <1>3, AudioFacts DEF Arrives, AudioTypeOK, PhonesOK
<1>5. number <= top'[s]
  BY <1>1, <1>3 DEF Arrives, AudioTypeOK, PhonesOK
<1>6. Foremost' = Foremost /\ WindowAtForemost' /\ ForwardOnly'
  BY <1>2 DEF WindowInv, WindowAtForemost, ForwardOnly, Undisturbed, Windowed, Foremost
<1>7. PlayedUnderTop'
  <2>1. config # 0 => config \in 1 .. MaxStreams
    BY <1>3
  <2>. QED  BY <1>2, <1>4, <1>6, <2>1, ForemostFacts DEF WindowInv, PlayedUnderTop
<1>8. CASE pending' = pending
  <2>1. UnderTop'
    BY <1>4, <1>8, WaitingFacts DEF WindowInv, UnderTop
  <2>2. InReach' /\ PlayedInReach'
    BY <1>2, <1>6, <1>8 DEF WindowInv, InReach, PlayedInReach
  <2>. QED  BY <1>6, <1>7, <2>1, <2>2 DEF WindowInv
<1>9. CASE pending' = Append(pending, [stream |-> s, number |-> number, silent |-> silent])
  <2>1. [stream |-> s, number |-> number, silent |-> silent] \in Packet
    BY <1>3 DEF Packet
  <2>2. /\ Len(pending') = Len(pending) + 1
        /\ pending'[Len(pending) + 1].stream = s /\ pending'[Len(pending) + 1].number = number
        /\ \A i \in 1 .. Len(pending) : pending'[i] = pending[i]
    BY <1>3, <1>9, <2>1, Appended
  <2>3. UnderTop'
    <3>1. \A i \in 1 .. Len(pending) : pending[i].number <= top'[pending[i].stream]
      BY <1>4, WaitingFacts DEF WindowInv, UnderTop
    <3>2. \A i \in 1 .. Len(pending) + 1 : pending'[i].number <= top'[pending'[i].stream]
      <4>1. ASSUME NEW i \in 1 .. Len(pending) PROVE pending'[i].number <= top'[pending'[i].stream]
        BY <2>2, <3>1
      <4>2. pending'[Len(pending) + 1].number <= top'[pending'[Len(pending) + 1].stream]
        BY <1>5, <2>2
      <4>. QED  BY <1>3, <4>1, <4>2
    <3>. QED  BY <2>2, <3>2 DEF UnderTop
  <2>4. \A i \in 1 .. Len(pending) : pending[i].stream = s => pending[i].number - number <= 32767
    BY <1>1, <1>3, WaitingFacts DEF WindowInv, UnderTop
  <2>5. InReach'
    <3>1. ASSUME NEW i \in 1 .. Len(pending), NEW j \in 1 .. Len(pending), i < j,
                 pending'[i].stream = pending'[j].stream
          PROVE  pending'[i].number - pending'[j].number <= 32767
      <4>1. pending'[i] = pending[i] /\ pending'[j] = pending[j]
        BY <2>2
      <4>. QED  BY <3>1, <4>1 DEF WindowInv, InReach
    <3>2. ASSUME NEW i \in 1 .. Len(pending), pending'[i].stream = s
          PROVE  pending'[i].number - number <= 32767
      <4>1. pending'[i] = pending[i]
        BY <2>2
      <4>. QED  BY <2>4, <3>2, <4>1
    <3>3. ASSUME NEW i \in 1 .. Len(pending) + 1, NEW j \in 1 .. Len(pending) + 1, i < j,
                 pending'[i].stream = pending'[j].stream
          PROVE  pending'[i].number - pending'[j].number <= 32767
      <4>1. i \in 1 .. Len(pending)
        BY <1>3, <3>3
      <4>2. CASE j \in 1 .. Len(pending)
        BY <3>1, <3>3, <4>1, <4>2
      <4>3. CASE j = Len(pending) + 1
        BY <2>2, <3>2, <3>3, <4>1, <4>3
      <4>. QED  BY <1>3, <4>2, <4>3
    <3>. QED  BY <2>2, <3>3 DEF InReach
  <2>6. config = s /\ played # <<>> => Foremost - number <= 32767
    BY <1>1, <1>3, ForemostFacts DEF WindowInv, PlayedUnderTop
  <2>7. PlayedInReach'
    BY <1>2, <1>3, <1>6, <2>2, <2>6 DEF WindowInv, PlayedInReach
  <2>. QED  BY <1>6, <1>7, <2>3, <2>5, <2>7 DEF WindowInv
<1>. QED  BY <1>1, <1>8, <1>9 DEF Arrives, Ingest

(* A packet that is played lies ahead of what was.                         *)
LEMMA PlayedAhead ==
  ASSUME AudioTypeOK, FromStreams, WindowInv, pending # <<>>,
         Undisturbed, Head(pending).stream = config, ~Late(Head(pending)), played # <<>>
  PROVE  Foremost < Head(pending).number
<1>. DEFINE number == Head(pending).number
<1>1. Head(pending) = pending[1] /\ Len(pending) \in Nat \ {0}
  BY Shortened DEF AudioTypeOK, PlaybackOK
<1>2. number \in Nat /\ Foremost \in Nat
  BY <1>1, WaitingFacts, ForemostFacts
<1>3. last = Seq16(Foremost) /\ config # 0 /\ Windowed
  BY DEF WindowInv, WindowAtForemost, Undisturbed
<1>4. Foremost - number <= 32767
  BY <1>1, <1>3 DEF WindowInv, PlayedInReach
<1>5. Seq16(Foremost) \in Nat
  BY <1>2, SixteenBits DEF InSixteenBits
<1>6. last # None
  BY <1>3, <1>5, AudioAssumption
<1>7. SUFFICES ASSUME number <= Foremost PROVE FALSE
  BY <1>2
<1>8. SequenceDelta(Seq16(number), last) = number - Foremost
  BY <1>2, <1>3, <1>4, <1>7, SequenceDistance
<1>9. SequenceDelta(Seq16(number), last) <= 0
  BY <1>2, <1>7, <1>8
<1>. QED  BY <1>3, <1>6, <1>9 DEF Late

LEMMA HandleKeepsWindow ==
  ASSUME AudioTypeOK, FromStreams, WindowInv, HandlePacket
  PROVE  WindowInv'
<1>. DEFINE packet == Head(pending)
<1>1. /\ pending # <<>> /\ pending' = Tail(pending) /\ streams' = streams /\ config' = config
      /\ top' = top /\ packet \in Packet
  BY Handled DEF phones
<1>2. /\ Len(pending') = Len(pending) - 1 /\ Len(pending) \in Nat \ {0} /\ packet = pending[1]
      /\ \A i \in 1 .. Len(pending) - 1 : pending'[i] = pending[i + 1]
  BY <1>1, Shortened DEF AudioTypeOK, PlaybackOK
<1>3. UnderTop'
  BY <1>1, <1>2 DEF WindowInv, UnderTop
<1>4. InReach'
  BY <1>1, <1>2 DEF WindowInv, InReach
<1>5. CASE UNCHANGED <<last, played, heard>>
  <2>1. Foremost' = Foremost
    BY <1>5 DEF Foremost
  <2>2. PlayedUnderTop'
    BY <1>1, <1>5, <2>1 DEF WindowInv, PlayedUnderTop
  <2>3. PlayedInReach'
    BY <1>1, <1>2, <1>5, <2>1 DEF WindowInv, PlayedInReach
  <2>4. WindowAtForemost' /\ ForwardOnly'
    BY <1>1, <1>5, <2>1 DEF WindowInv, WindowAtForemost, ForwardOnly, Undisturbed, Windowed
  <2>. QED  BY <1>3, <1>4, <2>2, <2>3, <2>4 DEF WindowInv
<1>6. CASE Play(packet) /\ packet.stream # config
  <2>1. played' = played /\ heard' = heard \cup {packet.stream}
    BY <1>6 DEF Play
  <2>2. Foremost' = Foremost
    BY <2>1 DEF Foremost
  <2>3. PlayedUnderTop'
    BY <1>1, <2>1, <2>2 DEF WindowInv, PlayedUnderTop
  <2>4. PlayedInReach'
    BY <1>1, <1>2, <2>1, <2>2 DEF WindowInv, PlayedInReach
  <2>5. ~Undisturbed'
    BY <1>1, <1>6, <2>1 DEF Undisturbed
  <2>. QED  BY <1>3, <1>4, <2>3, <2>4, <2>5 DEF WindowInv, WindowAtForemost, ForwardOnly
<1>7. CASE Play(packet) /\ packet.stream = config
  <2>1. played \in Seq(Nat) /\ Len(played) \in Nat /\ packet.number \in Nat
    BY <1>1, PacketFields, AudioFacts DEF AudioTypeOK, HistoryOK
  <2>2. played' = Append(played, packet.number)
    BY <1>7 DEF Play
  <2>3. /\ Len(played') = Len(played) + 1 /\ DOMAIN played' = 1 .. Len(played) + 1 /\ played' # <<>>
        /\ played'[Len(played) + 1] = packet.number
        /\ \A m \in 1 .. Len(played) : played'[m] = played[m]
    BY <2>1, <2>2, Appended
  <2>4. Foremost' = packet.number
    BY <2>3 DEF Foremost
  <2>5. PlayedUnderTop'
    BY <1>1, <1>2, <1>7, <2>4 DEF WindowInv, UnderTop, PlayedUnderTop
  <2>6. PlayedInReach'
    BY <1>1, <1>2, <1>7, <2>4 DEF WindowInv, InReach, PlayedInReach
  <2>7. Undisturbed' => Undisturbed
    BY <1>1, <1>7 DEF Undisturbed, Windowed, Play
  <2>8. WindowAtForemost'
    <3>1. Undisturbed' => last' = Seq16(packet.number)
      BY <1>1, <1>7 DEF Undisturbed, Windowed, Play
    <3>. QED  BY <2>3, <2>4, <3>1 DEF WindowAtForemost
  <2>9. ForwardOnly'
    <3>1. SUFFICES ASSUME Undisturbed', NEW m \in 1 .. Len(played) + 1, NEW n \in 1 .. Len(played) + 1, m < n
                   PROVE  played'[m] < played'[n]
      BY <2>3 DEF ForwardOnly
    <3>2. \A k, l \in 1 .. Len(played) : k < l => played[k] < played[l]
      BY <2>7, <3>1, AudioFacts DEF WindowInv, ForwardOnly
    <3>3. CASE n \in 1 .. Len(played)
      BY <2>1, <2>3, <3>1, <3>2, <3>3
    <3>4. CASE n = Len(played) + 1
      <4>1. m \in 1 .. Len(played) /\ Len(played) \in 1 .. Len(played) /\ played # <<>>
        BY <2>1, <3>1, <3>4, EmptySeq
      <4>2. Foremost = played[Len(played)] /\ Foremost \in Nat /\ played[m] \in Nat
        BY <4>1, ForemostFacts
      <4>3. played[m] <= Foremost
        <5>1. CASE m = Len(played)
          BY <4>2, <5>1
        <5>2. CASE m < Len(played)
          BY <3>2, <4>1, <4>2, <5>2
        <5>. QED  BY <2>1, <4>1, <5>1, <5>2
      <4>4. ~Late(packet)
        BY <1>7 DEF Play, Passed
      <4>5. Foremost < packet.number
        BY <1>1, <1>7, <2>7, <3>1, <4>1, <4>4, PlayedAhead
      <4>. QED  BY <2>1, <2>3, <3>4, <4>1, <4>2, <4>3, <4>5
    <3>. QED  BY <2>1, <3>3, <3>4
  <2>. QED  BY <1>3, <1>4, <2>5, <2>6, <2>8, <2>9 DEF WindowInv
<1>. QED  BY <1>5, <1>6, <1>7, Handled

LEMMA WindowKept ==
  ASSUME AudioTypeOK, FromStreams, WindowInv, [AudioNext]_audio
  PROVE  WindowInv'
<1>1. CASE UNCHANGED <<playback, streams, top, pending>>
  BY <1>1 DEF WindowInv, UnderTop, InReach, PlayedUnderTop, PlayedInReach, WindowAtForemost, ForwardOnly,
              Undisturbed, Windowed, Foremost, playback
<1>2. CASE pending' = <<>> /\ played' = <<>> /\ last' = None
  <2>1. Len(<<>>) = 0 /\ DOMAIN played' = {}
    BY <1>2, EmptySeq
  <2>. QED  BY <1>2, <2>1 DEF WindowInv, UnderTop, InReach, PlayedUnderTop, PlayedInReach, WindowAtForemost, ForwardOnly
<1>3. ASSUME NEW p \in Phone, NEW type \in {"audio", "other"}, OpenSink(p, type)
      PROVE  WindowInv'
  BY <1>1, <1>3 DEF OpenSink
<1>4. ASSUME NEW windowed \in BOOLEAN, NEW hasAddress \in BOOLEAN,
             NEW cipher \in {"ChaCha", "AES", "none"}, Configure(windowed, cipher, hasAddress)
      PROVE  WindowInv'
  <2>1. pending' = pending
    BY <1>4 DEF Configure
  <2>. QED  BY <1>2, <1>4, <2>1, ConfiguredStream
<1>5. CASE Stop
  <2>1. pending' = pending /\ pending = <<>> /\ played' = <<>> /\ last' = None
    BY <1>5 DEF Stop, StopAudio, Synced, ResetPlayback
  <2>. QED  BY <1>2, <2>1
<1>6. CASE SwitchPlayback \/ UNCHANGED audio
  BY <1>1, <1>6 DEF SwitchPlayback, audio, phones
<1>. QED  BY <1>3, <1>4, <1>5, <1>6, DrainKeepsWindow, HandleKeepsWindow, AudioActions

Inductive == AudioTypeOK /\ FromStreams /\ WindowInv

LEMMA InductiveInvariance == PhoneSpec => []Inductive
<1>1. PhoneInit => Inductive
  <2>1. ASSUME AudioInit PROVE WindowInv
    <3>1. /\ pending = <<>> /\ played = <<>> /\ last = None /\ Len(<<>>) = 0 /\ DOMAIN played = {}
      BY <2>1, EmptySeq DEF AudioInit
    <3>. QED  BY <3>1 DEF WindowInv, UnderTop, InReach, PlayedUnderTop, PlayedInReach, WindowAtForemost, ForwardOnly
  <2>. QED  BY <2>1, TypesAtStart DEF PhoneInit, Inductive
<1>2. Inductive /\ [PhoneNext]_<<vars, audio>> => Inductive'
  BY AudioSteps, TypesKept, FromStreamsKept, WindowKept DEF Inductive
<1>. QED  BY <1>1, <1>2, PTL DEF PhoneSpec

(* The forward-only window: a stream is played in its order and no packet  *)
(* of it twice, however often its 16 bits wrap, wherever it starts and     *)
(* however far its datagrams run ahead.                                    *)
THEOREM PlayedForward == PhoneSpec => []ForwardOnly
<1>1. Inductive => ForwardOnly
  BY DEF Inductive, WindowInv
<1>. QED  BY <1>1, InductiveInvariance, PTL

(* A packet ahead of all that were played, by no more than half the        *)
(* numbers, is played when its turn comes.                                 *)
LEMMA NewerStep ==
  ASSUME Inductive, [AudioNext]_audio,
         pending # <<>>, pending' = Tail(pending), enabled, Undisturbed, Newer(Head(pending))
  PROVE  played' = Append(played, Head(pending).number)
<1>. DEFINE packet == Head(pending)
<1>1. /\ pending \in Seq(Packet) /\ Len(pending) \in Nat \ {0} /\ packet = pending[1]
      /\ Len(Tail(pending)) = Len(pending) - 1
  BY Shortened DEF Inductive, AudioTypeOK, PlaybackOK
<1>2. Len(pending') # Len(pending) /\ Len(pending') # Len(pending) + 1
  <2>1. Len(pending') = Len(pending) - 1
    BY <1>1, Zenon
  <2>2. Len(pending) \in Nat
    BY <1>1
  <2>. QED  BY ONLY <2>1, <2>2
<1>3. packet.stream = config /\ ~packet.silent /\ Cipher # "none" /\ packet.number > Foremost
      /\ (played = <<>> \/ packet.number - Foremost <= 32767)
  BY DEF Newer
<1>4. packet.number \in Nat /\ Foremost \in Nat
  BY <1>1, WaitingFacts, ForemostFacts DEF Inductive
<1>5. ~Late(packet)
  <2>1. CASE played = <<>>
    BY <2>1 DEF Inductive, WindowInv, WindowAtForemost, Late
  <2>2. CASE played # <<>>
    <3>1. last = Seq16(Foremost)
      BY <2>2 DEF Inductive, WindowInv, WindowAtForemost
    <3>2. SequenceDelta(Seq16(packet.number), last) = packet.number - Foremost
      <4>1. Foremost - packet.number <= 32767 /\ packet.number - Foremost <= 32767
        BY <1>3, <1>4, <2>2
      <4>. QED  BY <1>4, <3>1, <4>1, SequenceDistance
    <3>3. ~(SequenceDelta(Seq16(packet.number), last) <= 0)
      BY <1>3, <1>4, <3>2
    <3>. QED  BY <3>3 DEF Late
  <2>. QED  BY <2>1, <2>2
<1>6. ~Passed(packet)
  BY <1>3, <1>5 DEF Passed, Decrypts
<1>7. CASE HandlePacket
  BY <1>3, <1>6, <1>7 DEF HandlePacket, Disabled, Skip, Play
<1>8. ASSUME NEW s \in live, NEW silent \in BOOLEAN, Drain(s, silent)
      PROVE  FALSE
  <2>1. PICK number \in Nat : Arrives(s, number, silent)
    BY <1>8, DrainedNumber DEF Inductive
  <2>2. pending' \in {pending, Append(pending, [stream |-> s, number |-> number, silent |-> silent])}
    BY <2>1 DEF Arrives, Ingest
  <2>3. [stream |-> s, number |-> number, silent |-> silent] \in Packet
    BY AudioFacts DEF Inductive, Packet
  <2>4. Len(Append(pending, [stream |-> s, number |-> number, silent |-> silent])) = Len(pending) + 1
    BY <1>1, <2>3, Appended
  <2>. QED  BY <1>2, <2>2, <2>4, Zenon
<1>9. pending' # pending
  BY <1>2
<1>10. CASE Stop \/ SwitchPlayback \/ UNCHANGED audio
  BY <1>9, <1>10 DEF Stop, SwitchPlayback, audio
<1>11. ASSUME NEW p \in Phone, NEW type \in {"audio", "other"}, OpenSink(p, type)
       PROVE  FALSE
  BY <1>9, <1>11 DEF OpenSink
<1>12. ASSUME NEW windowed \in BOOLEAN, NEW hasAddress \in BOOLEAN,
              NEW cipher \in {"ChaCha", "AES", "none"}, Configure(windowed, cipher, hasAddress)
       PROVE  FALSE
  BY <1>9, <1>12 DEF Configure
<1>. QED  BY <1>7, <1>8, <1>10, <1>11, <1>12, AudioActions

(* Nothing newer is lost to the window: a packet at most half the numbers  *)
(* ahead of all that were played is played.                                *)
THEOREM NewerPlayed == PhoneSpec => NewerIsPlayed
<1>1. Inductive /\ [PhoneNext]_<<vars, audio>> =>
        [ (/\ pending # <<>> /\ pending' = Tail(pending)
           /\ enabled /\ Undisturbed /\ Newer(Head(pending)))
          => played' = Append(played, Head(pending).number) ]_audio
  BY AudioSteps, NewerStep
<1>. QED  BY <1>1, InductiveInvariance, PTL DEF PhoneSpec, NewerIsPlayed

-----------------------------------------------------------------------------
(* The FairPlay session                                                    *)

(* What the handle holds is told by the request accepted last: a handshake *)
(* has left its own key message there, a setup none.                       *)
HandleFollows ==
  /\ latest.kind = "setup" => keymsglen = 0
  /\ latest.kind = "handshake" => handle /\ keymsglen = 164 /\ keymsg = latest.message

SessionInv == TypeOK /\ HandleFollows /\ UndisturbedKey /\ SetupRetiresMessages

(* The two kinds of accepted requests are told apart by their kind.        *)
LEMMA Kinds ==
  /\ NothingYet \in Accepted /\ Setup \in Accepted
  /\ NothingYet.kind = "nothing" /\ Setup.kind = "setup"
  /\ \A m \in Message : /\ Handshake(m) \in Accepted
                        /\ Handshake(m).kind = "handshake"
                        /\ Handshake(m).message = m
  BY DEF Accepted, NothingYet, Setup, Handshake

(* A key message is neither None nor a record of a request.                *)
LEMMA MessagesAreSome == None \notin Message
  BY FairPlayAssumption DEF Message

LEMMA SessionAtStart == Init => SessionInv
<1> SUFFICES ASSUME Init PROVE SessionInv
  OBVIOUS
<1>1. TypeOK
  BY Kinds, FairPlayAssumption DEF Init, TypeOK
<1>2. HandleFollows
  BY Kinds DEF Init, HandleFollows
<1>3. UndisturbedKey /\ SetupRetiresMessages
  BY Kinds DEF Init, UndisturbedKey, SetupRetiresMessages, Unasked
<1> QED
  BY <1>1, <1>2, <1>3 DEF SessionInv

(* /fp-setup answers no key, so that only the handle's side is at stake.   *)
LEMMA FPSetupKeeps ==
  ASSUME SessionInv, NEW p \in Phone, NEW body \in Body, HandleFPSetup(p, body)
  PROVE  SessionInv'
<1> USE DEF SessionInv
<1>1. answer' = answer
  BY DEF HandleFPSetup
<1>2. (UndisturbedKey /\ SetupRetiresMessages)'
  BY <1>1 DEF UndisturbedKey, SetupRetiresMessages
<1>3. CASE FairplaySetup(body) /\ UNCHANGED <<own, sent>>
  <2>1. CASE SetupAccepts(body)
    <3>1. keymsglen' = 0 /\ latest' = Setup /\ UNCHANGED <<handle, keymsg, own, sent>>
      BY <1>3, <2>1 DEF FairplaySetup
    <3>2. TypeOK'
      BY <1>1, <3>1, Kinds DEF TypeOK
    <3>3. HandleFollows'
      BY <3>1, Kinds DEF HandleFollows
    <3> QED
      BY <1>2, <3>2, <3>3
  <2>2. CASE ~SetupAccepts(body)
    <3>1. UNCHANGED <<session, latest, own, sent>>
      BY <1>3, <2>2 DEF FairplaySetup
    <3> QED
      BY <1>1, <1>2, <3>1 DEF TypeOK, HandleFollows, session
  <2> QED
    BY <2>1, <2>2
<1>4. CASE FairplayHandshake(p, body)
  <2> DEFINE message == <<p, sent[p] + 1>>
  <2>1. sent[p] \in Nat /\ sent[p] < MaxMessages /\ sent' = [sent EXCEPT ![p] = @ + 1]
    BY <1>4 DEF FairplayHandshake, TypeOK
  <2>2. sent[p] + 1 \in 1 .. MaxMessages
    BY <2>1, FairPlayAssumption
  <2>3. message \in Message /\ sent' \in [Phone -> 0 .. MaxMessages]
    BY <2>1, <2>2, FairPlayAssumption DEF Message, TypeOK
  <2> HIDE DEF message
  <2>4. CASE HandshakeAccepts(body)
    <3>1. /\ keymsglen' = 164 /\ keymsg' = message /\ latest' = Handshake(message)
          /\ own' = [own EXCEPT ![p] = message] /\ handle' = handle
      BY <1>4, <2>4 DEF FairplayHandshake, Store, message
    <3>2. own' \in [Phone -> Message \cup {None}]
      BY <2>3, <3>1 DEF TypeOK
    <3>3. TypeOK'
      BY <1>1, <2>3, <3>1, <3>2, Kinds, MessagesAreSome DEF TypeOK
    <3>4. HandleFollows'
      BY <2>3, <2>4, <3>1, Kinds DEF HandleFollows, HandshakeAccepts
    <3> QED
      BY <1>2, <3>3, <3>4
  <2>5. CASE ~HandshakeAccepts(body)
    <3>1. UNCHANGED <<session, own, latest>>
      BY <1>4, <2>5 DEF FairplayHandshake
    <3> QED
      BY <1>1, <1>2, <2>3, <3>1 DEF TypeOK, HandleFollows, session
  <2> QED
    BY <2>4, <2>5
<1> QED
  BY <1>3, <1>4 DEF HandleFPSetup

(* SETUP changes nothing but its answer, and HandleFollows says which key  *)
(* message that can be.                                                    *)
LEMMA SetupKeeps ==
  ASSUME SessionInv, NEW p \in Phone, HandleSetup(p)
  PROVE  SessionInv'
<1> USE DEF SessionInv
<1> DEFINE given == [used |-> Decrypted, meant |-> own[p], after |-> latest]
<1>1. /\ UNCHANGED <<handle, keymsg, keymsglen, own, sent, latest>>
      /\ answer' = [answer EXCEPT ![p] = given] /\ own[p] # None
  BY DEF HandleSetup, session
<1>2. own[p] \in Message /\ Decrypted \in Message \cup {None}
  BY <1>1 DEF TypeOK, Decrypted
<1>3. given \in Answer
  BY <1>2 DEF Answer, TypeOK
<1>4. answer' \in [Phone -> Answer \cup {Unasked}]
  BY <1>1, <1>3 DEF TypeOK
<1>5. TypeOK'
  BY <1>1, <1>4 DEF TypeOK
<1>6. HandleFollows'
  BY <1>1 DEF HandleFollows
<1>7. given.after = Handshake(given.meant) => given.used = given.meant
  BY <1>2, Kinds DEF HandleFollows, Decrypted
<1>8. given.after.kind = "setup" => given.used = None
  BY DEF HandleFollows, Decrypted
<1>9. \A q \in Phone : answer'[q] = IF q = p THEN given ELSE answer[q]
  BY <1>1 DEF TypeOK
<1>10. UndisturbedKey'
  BY <1>7, <1>9 DEF UndisturbedKey
<1>11. SetupRetiresMessages'
  BY <1>8, <1>9 DEF SetupRetiresMessages
<1> QED
  BY <1>5, <1>6, <1>10, <1>11

LEMMA SessionStutters == SessionInv /\ UNCHANGED vars => SessionInv'
  BY DEF SessionInv, vars, session, TypeOK, HandleFollows, UndisturbedKey, SetupRetiresMessages

LEMMA SessionInvariance == Spec => []SessionInv
<1>1. SessionInv /\ [Next]_vars => SessionInv'
  BY FPSetupKeeps, SetupKeeps, SessionStutters DEF Next
<1> QED
  BY SessionAtStart, <1>1, PTL DEF Spec

(* TypeOK, with its last part: the handle says it holds a key message only *)
(* when one has been stored.                                               *)
THEOREM FairPlayTypes == Spec => []TypeOK
  BY SessionInvariance, PTL DEF SessionInv

(* UndisturbedKey: whatever is refused, and whoever else asks, a phone     *)
(* whose key message was accepted last gets its key under that message.    *)
THEOREM OwnKeyAnswered == Spec => []UndisturbedKey
  BY SessionInvariance, PTL DEF SessionInv

(* SetupRetiresMessages: an accepted setup ends the use of the message     *)
(* before it.                                                              *)
THEOREM RetiredMessages == Spec => []SetupRetiresMessages
  BY SessionInvariance, PTL DEF SessionInv
=============================================================================
