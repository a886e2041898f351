---------------------------- MODULE PlayfairKey ----------------------------
(***************************************************************************)
(* generate_session_key of playfair/omg_hax.c with modified_md5, sap_hash  *)
(* and garble: the decrypted message and half of default_sap are hashed in *)
(* five blocks of 64 bytes, each by a modified MD5 keyed with the session  *)
(* key so far and by sap_hash, and the two are added to make the next key. *)
(*                                                                         *)
(* Bytes are numbers here.  Of modified_md5 the flow of words is modelled, *)
(* its arithmetic is the constant Digest; of garble which entries of       *)
(* buffer3 it reads and writes, what it leaves there the constant Garbled. *)
(***************************************************************************)
EXTENDS Integers, Sequences

CONSTANTS
  XorByte(_, _),       \* ^ of two bytes
  Digest(_, _),        \* what modified_md5 makes of block r and a key
  Garbled,             \* what garble leaves in buffer0 .. buffer3
  Message,             \* decrypted messages
  StaticSource1, StaticSource2, DefaultSap,
  InitialSessionKey,
  Swaps,               \* nibbles of A, B, C and D after step 31 of modified_md5
  Unset                \* memory nothing has been written to

Byte == 0 .. 255
Word == 0 .. 15        \* the words of a block of 64 bytes
KeyBytes == [0 .. 15 -> Byte]
Tag == {"static_source_1", "message", "default_sap", "static_source_2"} \X (0 .. 255)

(* Assumed of the constants by the module that instantiates this one.      *)
KeyAssumption ==
  /\ \A a, b \in Byte : /\ XorByte(a, b) \in Byte /\ XorByte(a, b) = XorByte(b, a)
                         /\ XorByte(XorByte(a, b), b) = a
  /\ Garbled \in [0 .. 3 -> [0 .. 209 -> Byte]]
  /\ Message \subseteq [0 .. 127 -> Byte]
  /\ StaticSource1 \in [0 .. 16 -> Byte] /\ StaticSource2 \in [0 .. 46 -> Byte]
  /\ DefaultSap \in [0 .. 255 -> Byte]
  /\ InitialSessionKey \in KeyBytes
  /\ Swaps \subseteq [1 .. 5 -> Word \X Word]
  /\ Unset \notin Byte \cup KeyBytes \cup Tag

VARIABLES
  message,      \* decryptedMessage
  newSap,       \* which byte of which source is where: <<source, offset>>
  phase, i,     \* where the program is, and the loop variable there
  round,
  words,        \* the words of blockIn in modified_md5, after its swaps
  absorbed,     \* (auxiliary) words taken in this quarter of its steps
  md5,
  buffer1, buffer3,
  sessionKey,
  keys          \* (auxiliary) the session key each round began with

vars == <<message, newSap, phase, i, round, words, absorbed, md5, buffer1, buffer3,
          sessionKey, keys>>
hashVars == <<words, absorbed, md5>>
sapVars == <<buffer1, buffer3>>

Init ==
  /\ message \in Message
  /\ newSap = [k \in 0 .. 319 |-> Unset]
  /\ phase = "copy" /\ i = 0 /\ round = 0
  /\ words = [w \in Word |-> w] /\ absorbed = {} /\ md5 = Unset
  /\ buffer1 = [k \in 0 .. 209 |-> Unset] /\ buffer3 = [k \in 0 .. 131 |-> Unset]
  /\ sessionKey = InitialSessionKey
  /\ keys = <<>>

Goto(p) == phase' = p /\ i' = 0
(* for (i = 0; i < n; i++), and then p.                                    *)
Loop(n, p) ==
  IF i + 1 < n THEN i' = i + 1 /\ phase' = phase ELSE Goto(p)

-----------------------------------------------------------------------------
(* The four memcpys into newSap: where to, from which offset, how many.    *)
CopiesEarly ==   \* mutant
  << [source |-> "static_source_1", to |-> 0, from |-> 0, count |-> 17],
     [source |-> "message", to |-> 17, from |-> 0, count |-> 128],
     [source |-> "default_sap", to |-> 144, from |-> 128, count |-> 128],
     [source |-> "static_source_2", to |-> 273, from |-> 0, count |-> 47] >>
Copies ==
  << [source |-> "static_source_1", to |-> 0, from |-> 0, count |-> 17],
     [source |-> "message", to |-> 17, from |-> 0, count |-> 128],
     [source |-> "default_sap", to |-> 145, from |-> 128, count |-> 128],
     [source |-> "static_source_2", to |-> 273, from |-> 0, count |-> 47] >>

Copy ==
  /\ phase = "copy"
  /\ LET c == Copies[i + 1]
     IN  newSap' = [k \in 0 .. 319 |->
                      IF k \in c.to .. c.to + c.count - 1
                      THEN <<c.source, c.from + (k - c.to)>> ELSE newSap[k]]
  /\ Loop(4, "md5")
  /\ keys' = IF i = 3 THEN <<sessionKey>> ELSE keys
  /\ UNCHANGED <<message, round, hashVars, sapVars, sessionKey>>

Content(tag) ==
  CASE tag[1] = "static_source_1" -> StaticSource1[tag[2]]
    [] tag[1] = "message" -> message[tag[2]]
    [] tag[1] = "default_sap" -> DefaultSap[tag[2]]
    [] tag[1] = "static_source_2" -> StaticSource2[tag[2]]

-----------------------------------------------------------------------------
(* modified_md5 *)

(* The word a step takes.                                                  *)
Taken ==
  CASE i < 16 -> i
    [] i \in 16 .. 31 -> (5 * i + 1) % 16
    [] i \in 32 .. 47 -> (3 * i + 5) % 16
    [] OTHER -> (7 * i) % 16

SwapLosing(f, p) == [f EXCEPT ![p[1]] = f[p[2]]]   \* mutant
Swap(f, p) == [f EXCEPT ![p[1]] = f[p[2]], ![p[2]] = f[p[1]]]
SwapAll(f, s) == Swap(Swap(Swap(Swap(Swap(f, s[1]), s[2]), s[3]), s[4]), s[5])

(* modified_md5 works on a copy of the block: words starts afresh.         *)
MD5Step ==
  /\ phase = "md5"
  /\ absorbed' = (IF i % 16 = 0 THEN {} ELSE absorbed) \cup {words[Taken]}
  /\ IF i = 31
     THEN \E s \in Swaps : words' = SwapAll(words, s)
     ELSE words' = IF i = 63 THEN [w \in Word |-> w] ELSE words
  /\ md5' = IF i = 63 THEN Digest(round, sessionKey) ELSE md5
  /\ Loop(64, "load")
  /\ UNCHANGED <<message, newSap, round, sapVars, sessionKey, keys>>

-----------------------------------------------------------------------------
(* sap_hash *)

(* The place of byte k when the bytes of each word are turned around.      *)
Turned(k) == 4 * (k \div 4) + 3 - (k % 4)

(* Loading turns the bytes of each word around; the block fills buffer1    *)
(* three times and a bit.                                                  *)
Load ==
  /\ phase = "load"
  /\ buffer1' = [k \in 0 .. 209 |->
                   Content(newSap[64 * round + Turned(k % 64)])]
  /\ buffer3' = [k \in 0 .. 131 |-> Unset]
  /\ Goto("scramble")
  /\ UNCHANGED <<message, newSap, round, hashVars, sessionKey, keys>>

Shift == <<2, 4, 8, 16, 32, 64, 128>>
Rol8(b, count) == ((b * Shift[count]) % 256) + b \div Shift[8 - count]

(* (n & 0xffffffff) % m: a negative n is taken modulo 2^32 before m.       *)
Wrapped(n, m) == (IF n < 0 THEN n + (65536 % m) * (65536 % m) ELSE n) % m

Scrambled(w, x, y, z) == (Rol8(y, 5) + XorByte(Rol8(z, 3), w) - Rol8(x, 7)) % 256
ScrambleShort ==   \* mutant
  /\ phase = "scramble"
  /\ LET Lag(n) == buffer1[Wrapped(i - n, 210)]
     IN  buffer1' = [buffer1 EXCEPT ![i % 210] = Scrambled(@, Lag(155), Lag(57), Lag(13))]
  /\ Loop(841, "garble")
  /\ UNCHANGED <<message, newSap, round, hashVars, buffer3, sessionKey, keys>>
Scramble ==
  /\ phase = "scramble"
  /\ LET Lag(n) == buffer1[Wrapped(i - n, 210)]
     IN  buffer1' = [buffer1 EXCEPT ![i % 210] = Scrambled(@, Lag(155), Lag(57), Lag(13))]
  /\ Loop(840, "garble")
  /\ UNCHANGED <<message, newSap, round, hashVars, buffer3, sessionKey, keys>>

(* garble writes 32 entries of buffer3, in this order; each with the       *)
(* entries of buffer3 read since the one before.                           *)
GarbleFirst ==
  << <<0, {}>>, <<4, {}>>, <<8, {0, 4}>>, <<12, {}>>, <<16, {0, 4, 8, 12}>>, <<20, {16}>>,
     <<24, {}>> >>
GarbleSecond ==
  << <<28, {0, 12}>>, <<32, {28}>>, <<36, {0, 20}>>, <<40, {0, 4, 24}>>, <<44, {0}>>,
     <<48, {4}>>, <<52, {}>>, <<56, {}>>, <<64, {0, 4, 24, 40, 48, 52, 56}>>,
     <<68, {0, 16, 20, 28, 32, 36, 44, 64}>>, <<72, {36, 68}>>, <<76, {0, 8, 20, 40, 64, 72}>> >>
GarbleThird ==
  << <<80, {8, 36}>>, <<84, {20, 64}>>, <<88, {8, 68, 80}>>,
     <<92, {12, 20, 40, 64, 72, 80, 84}>>, <<96, {92}>>, <<100, {}>>, <<104, {40, 64}>>,
     <<108, {40, 64}>>, <<112, {64, 84}>>, <<116, {64, 84}>>,
     <<120, {40, 64, 84, 88, 96, 100}>>, <<124, {20, 40, 68, 80}>>,
     <<128, {40, 84, 88, 120, 124}>> >>
GarbleSteps ==
  [n \in 1 .. 32 |->
     IF n <= 7 THEN GarbleFirst[n]
     ELSE IF n <= 19 THEN GarbleSecond[n - 7] ELSE GarbleThird[n - 19]]
GarbleLast == {20, 76, 120, 124}   \* read after the last write

(* The entries of buffer1 it changes, to which the others contribute.      *)
GarbledEntries ==
  {2, 4, 5, 15, 19, 22, 23, 33, 34, 36, 47, 53, 95, 106, 123, 124, 140, 143, 153, 164, 190, 198}

Garble ==
  /\ phase = "garble"
  /\ LET to == GarbleSteps[i + 1][1] IN buffer3' = [buffer3 EXCEPT ![to] = Garbled[3][to]]
  /\ buffer1' = IF i = 31 THEN [k \in 0 .. 209 |->
                                  IF k \in GarbledEntries THEN Garbled[1][k] ELSE buffer1[k]]
                ELSE buffer1
  /\ Loop(32, "fill")
  /\ UNCHANGED <<message, newSap, round, hashVars, sessionKey, keys>>

(* i0_index, times 4; the fourth byte is not taken from there.             *)
I0IndexOff == <<72, 88, 92, 0, 20, 60, 128, 124, 40, 84, 120>>   \* mutant
I0Index == <<72, 88, 92, 0, 20, 76, 128, 124, 40, 84, 120>>
Fill ==
  /\ phase = "fill"
  /\ sessionKey' = [k \in 0 .. 15 |->
                      CASE k = 3 -> 61
                        [] k < 11 /\ k # 3 -> (225 + buffer3[I0Index[k + 1]]) % 256
                        [] OTHER -> 225]
  /\ Goto("fold")
  /\ UNCHANGED <<message, newSap, round, hashVars, sapVars, keys>>

(* buffer0, buffer2 and buffer1 are xored into the output, byte by byte.   *)
FoldedByte ==
  CASE i < 20 -> [at |-> i, byte |-> Garbled[0][i]]
    [] i \in 20 .. 54 -> [at |-> i - 20, byte |-> Garbled[2][i - 20]]
    [] OTHER -> [at |-> i - 55, byte |-> buffer1[i - 55]]
Fold ==
  /\ phase = "fold"
  /\ sessionKey' = [sessionKey EXCEPT ![FoldedByte.at % 16] = XorByte(@, FoldedByte.byte)]
  /\ Loop(265, "unscramble")
  /\ UNCHANGED <<message, newSap, round, hashVars, sapVars, keys>>

Unscrambled(w, x, y, z) == XorByte(XorByte(XorByte(Rol8(x, 1), y), Rol8(z, 6)), Rol8(w, 5))
UnscrambleSelf ==   \* mutant
  /\ phase = "unscramble"
  /\ LET Lag(n) == sessionKey[Wrapped((i % 16) - n, 16)]
     IN  sessionKey' = [sessionKey EXCEPT ![i % 16] = Unscrambled(Lag(176), Lag(7), @, Lag(37))]
  /\ Loop(256, "add")
  /\ UNCHANGED <<message, newSap, round, hashVars, sapVars, keys>>
Unscramble ==
  /\ phase = "unscramble"
  /\ LET Lag(n) == sessionKey[Wrapped((i % 16) - n, 16)]
     IN  sessionKey' = [sessionKey EXCEPT ![i % 16] = Unscrambled(Lag(177), Lag(7), @, Lag(37))]
  /\ Loop(256, "add")
  /\ UNCHANGED <<message, newSap, round, hashVars, sapVars, keys>>

-----------------------------------------------------------------------------
(* generate_session_key, after the hashes of a block *)

(* Four words of 32 bits are added, the carry stays within a word: Low is  *)
(* what the bytes below byte k of its word are worth.                      *)
Low(a, k) ==
  CASE k % 4 = 0 -> 0
    [] k % 4 = 1 -> a[k - 1]
    [] k % 4 = 2 -> a[k - 2] + 256 * a[k - 1]
    [] k % 4 = 3 -> a[k - 3] + 256 * a[k - 2] + 65536 * a[k - 1]
Carry(a, b, k) == (Low(a, k) + Low(b, k)) \div <<1, 256, 65536, 16777216>>[(k % 4) + 1]
AddWords(a, b) == [k \in 0 .. 15 |-> (a[k] + b[k] + Carry(a, b, k)) % 256]

AddReset ==   \* mutant
  /\ phase = "add"
  /\ sessionKey' = InitialSessionKey
  /\ round' = round + 1
  /\ keys' = Append(keys, AddWords(sessionKey, md5))
  /\ Goto(IF round < 4 THEN "md5" ELSE "swap")
  /\ UNCHANGED <<message, newSap, hashVars, sapVars>>
Add ==
  /\ phase = "add"
  /\ sessionKey' = AddWords(sessionKey, md5)
  /\ round' = round + 1
  /\ keys' = Append(keys, AddWords(sessionKey, md5))
  /\ Goto(IF round < 4 THEN "md5" ELSE "swap")
  /\ UNCHANGED <<message, newSap, hashVars, sapVars>>

(* swap_bytes turns each word around, and every byte is xored with 121.    *)
Finish ==
  /\ phase = "swap"
  /\ sessionKey' = [k \in 0 .. 15 |-> XorByte(sessionKey[Turned(k)], 121)]
  /\ Goto("done")
  /\ UNCHANGED <<message, newSap, round, hashVars, sapVars, keys>>

Returned == phase = "done" /\ UNCHANGED vars

Next ==
  \/ Copy \/ MD5Step
  \/ Load \/ Scramble \/ Garble \/ Fill \/ Fold \/ Unscramble
  \/ Add \/ Finish \/ Returned

Spec == Init /\ [][Next]_vars

-----------------------------------------------------------------------------
Phases == {"copy", "md5", "load", "scramble", "garble", "fill", "fold", "unscramble", "add",
           "swap", "done"}
Bound(p) ==
  CASE p = "copy" -> 3 [] p = "md5" -> 63 [] p = "scramble" -> 839 [] p = "garble" -> 31
    [] p = "fold" -> 264 [] p = "unscramble" -> 255 [] OTHER -> 0

(* Types: every buffer holds bytes from when it is loaded, the index stays *)
(* in the loop, and there are five rounds.                                 *)
TypeOK ==
  /\ message \in [0 .. 127 -> Byte]
  /\ phase \in Phases /\ i \in 0 .. Bound(phase) /\ round \in 0 .. 5
  /\ (round = 5 <=> phase \in {"swap", "done"})
  /\ words \in [Word -> Word] /\ absorbed \subseteq Word
  /\ md5 \in KeyBytes \cup {Unset} /\ sessionKey \in KeyBytes
  /\ buffer1 \in [0 .. 209 -> Byte \cup {Unset}] /\ buffer3 \in [0 .. 131 -> Byte \cup {Unset}]
  /\ phase \in {"scramble", "garble", "fill", "fold", "unscramble"} => buffer1 \in [0 .. 209 -> Byte]
  /\ phase \notin {"copy", "md5"} => md5 # Unset
  /\ keys \in Seq(KeyBytes)

(* The copies tile newSap: when a block is loaded no byte of the five is   *)
(* unset, and none of the message or of the second half of default_sap is  *)
(* overwritten or hashed twice.                                            *)
SapTiled ==
  phase = "load" =>
    /\ \A k \in 0 .. 319 : newSap[k] # Unset
    /\ \A j, k \in 0 .. 319 : newSap[j] = newSap[k] => j = k
    /\ \A k \in 0 .. 127 : \E j \in 0 .. 319 : newSap[j] = <<"message", k>>

(* Whatever modified_md5 swaps, each quarter of its 64 steps takes every   *)
(* word of the block: at the end of one all 16 have been absorbed.         *)
WordsOncePerQuarter ==
  (phase = "md5" /\ i > 0 /\ i % 16 = 0) \/ phase = "load" => absorbed = Word

(* garble and sap_hash read no entry of the uninitialised buffer3 before   *)
(* it is written.                                                          *)
DefinedBeforeUse ==
  /\ phase = "garble" => \A k \in GarbleSteps[i + 1][2] : buffer3[k] # Unset
  /\ phase = "fill" =>
       \A k \in GarbleLast \cup {I0Index[n] : n \in DOMAIN I0Index \ {4}} : buffer3[k] # Unset

(* No step of the scrambling loops loses information: what a step has      *)
(* overwritten follows from what is left and what it wrote.                *)
Unmix(new, w, x, y, z) == XorByte(XorByte(XorByte(new, Rol8(w, 5)), Rol8(z, 6)), Rol8(x, 1))
ScrambleUndone ==
  LET Lag(n) == buffer1'[Wrapped(i - n, 210)]
      sum == (buffer1'[i % 210] - Rol8(Lag(57), 5) + Rol8(Lag(155), 7)) % 256
  IN  buffer1 = [buffer1' EXCEPT ![i % 210] = XorByte(sum, Rol8(Lag(13), 3))]
UnscrambleUndone ==
  LET Lag(n) == sessionKey'[Wrapped((i % 16) - n, 16)]
  IN  sessionKey = [sessionKey' EXCEPT ![i % 16] = Unmix(@, Lag(177), Lag(7), 0, Lag(37))]
StepsReversible ==
  [][ /\ phase = "scramble" => ScrambleUndone
      /\ phase = "unscramble" => UnscrambleUndone ]_vars

(* The digest of a block is keyed with the key the round began with, which *)
(* is the sum of the round before, although sap_hash overwrites the key in *)
(* place between the two.                                                  *)
DigestChained ==
  /\ phase = "md5" => sessionKey = keys[round + 1]
  /\ phase \in {"load", "scramble", "garble", "fill", "fold", "unscramble", "add"} =>
       md5 = Digest(round, keys[round + 1])
=============================================================================
