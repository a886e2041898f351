------------------------------ MODULE Playfair ------------------------------
(***************************************************************************)
(* A call of one of the functions that decrypt something: decryptMessage,  *)
(* decrypt_sap, decrypt_key, or playfair_decrypt, which has the session    *)
(* key generated first and then decrypts with it.                          *)
(*                                                                         *)
(* The decryptions are PlayfairChaining, whose bytes are sets of bits; the *)
(* session key is PlayfairKey, whose bytes are numbers.                    *)
(***************************************************************************)
EXTENDS PlayfairChaining, Sequences

CONSTANTS
  XorByte(_, _), Digest(_, _), Garbled, Message,
  StaticSource1, StaticSource2, DefaultSap, Swaps


VARIABLES
  message, newSap, hashPhase, hashIndex, hashRound, words, absorbed, md5,
  buffer1, buffer3, sessionKey, keys   \* those of PlayfairKey

hashing == <<message, newSap, hashPhase, hashIndex, hashRound, words, absorbed, md5,
             buffer1, buffer3, sessionKey, keys>>

(* A byte as the set of its bits, and as a number.                         *)
Bits(n) == {k \in Bit : (n \div 2 ^ k) % 2 = 1}
Weight(bits, k) == IF k \in bits THEN 2 ^ k ELSE 0
Number(bits) ==
  Weight(bits, 0) + Weight(bits, 1) + Weight(bits, 2) + Weight(bits, 3)
    + Weight(bits, 4) + Weight(bits, 5) + Weight(bits, 6) + Weight(bits, 7)

Hash == INSTANCE PlayfairKey WITH
  InitialSessionKey <- [k \in Position |-> Number(InitialSessionKey[k])],
  phase <- hashPhase, i <- hashIndex, round <- hashRound

ASSUME CallAssumption == Bit = 0 .. 7 /\ Hash!KeyAssumption

(* sapKey is not initialised: any key will do until there is one.          *)
CallInit == Init /\ Hash!Init
Hashing == program = "playfair_decrypt" /\ hashPhase # "done"

(* Until generate_session_key returns nothing else happens; it leaves its  *)
(* result in sapKey, with which the schedule begins.                       *)
GenerateSessionKey ==
  /\ Hashing
  /\ Hash!Next
  /\ IF hashPhase' = "done"
     THEN /\ material' = [k \in Position |-> Bits(sessionKey'[k])]
          /\ keyData' = XorBlocks(material', TKey)
     ELSE UNCHANGED <<material, keyData>>
  /\ UNCHANGED <<program, mode, text, schedule, round, i, phase, out>>

Decrypting == ~Hashing /\ Next /\ UNCHANGED hashing

CallNext == GenerateSessionKey \/ Decrypting

CallSpec == CallInit /\ [][CallNext]_<<vars, hashing>>

-----------------------------------------------------------------------------
(* Types of both parts.                                                    *)
CallTypeOK == TypeOK /\ Hash!TypeOK

(* The copies tile newSap: no byte that is hashed is unset, none of the    *)
(* message is overwritten or hashed twice.                                 *)
SapTiled == Hash!SapTiled

(* Whatever modified_md5 swaps, a quarter of its steps takes every word.   *)
WordsOncePerQuarter == Hash!WordsOncePerQuarter

(* garble and sap_hash read no entry of buffer3 before it is written.      *)
DefinedBeforeUse == Hash!DefinedBeforeUse

(* A block's digest is keyed with the key its round began with.            *)
DigestChained == Hash!DigestChained

(* No step of the scrambling loops loses information.                      *)
StepsReversible == Hash!StepsReversible
=============================================================================
