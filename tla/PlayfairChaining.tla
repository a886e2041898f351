-------------------------- MODULE PlayfairChaining --------------------------
(***************************************************************************)
(* The functions of omg_hax.c and playfair.c that set up a key schedule    *)
(* and decrypt a chain of blocks with it: decryptMessage, decrypt_sap,     *)
(* decrypt_key and playfair_decrypt.  A step is a round of the schedule or *)
(* one pass over a block.  text and out are cut into blocks of 16 bytes,   *)
(* and the byte of the message that names its mode is the variable mode.   *)
(***************************************************************************)
EXTENDS PlayfairBlock

CONSTANTS
  Sample,             \* texts given to a program
  Key,                \* keys given to a program
  InitialSessionKey,  \* initial_session_key
  SapKeyMaterial,     \* sap_key_material
  MessageIV,          \* message_iv
  SapIV,              \* sap_iv
  ZKey, XKey,         \* z_key, x_key
  Unset               \* memory nothing has been written to

Program == {"decryptMessage", "decrypt_sap", "decrypt_key", "playfair_decrypt"}

ASSUME ChainingAssumption ==
  /\ Sample \subseteq [0 .. 15 -> Block]
  /\ Key \subseteq Block
  /\ {InitialSessionKey, SapKeyMaterial, SapIV, ZKey, XKey} \subseteq Block
  /\ MessageIV \in [Mode -> Block]
  /\ Unset \notin Block

VARIABLES
  program,
  mode,
  text,       \* the message, the sap, or <<initial vector, cipher text>>
  material,   \* key_material
  keyData,    \* key_data of generate_key_schedule
  schedule,   \* key_schedule
  round,
  i,          \* the loop variable of the program
  phase,
  out         \* what is decrypted so far, in place of what was copied there

vars == <<program, mode, text, material, keyData, schedule, round, i, phase, out>>

Blocks(p) ==
  CASE p = "decryptMessage" -> 0 .. 7
    [] p = "decrypt_sap" -> 0 .. 15
    [] OTHER -> {0}

Material(p) ==
  CASE p = "decryptMessage" -> {InitialSessionKey}
    [] p = "decrypt_sap" -> {SapKeyMaterial}
    [] OTHER -> Key

Init ==
  /\ program \in Program
  /\ mode \in IF program = "decryptMessage" THEN Mode ELSE {0}   \* read nowhere else
  /\ text \in Sample
  /\ material \in Material(program)
  /\ keyData = XorBlocks(material, TKey)
  /\ schedule = [r \in 0 .. 10 |-> Unset]
  /\ round = 0
  /\ i = IF program = "decrypt_sap" THEN 15 ELSE 0
  /\ phase = IF program = "decrypt_sap" THEN "whiten" ELSE "schedule"
  /\ out = [b \in Blocks(program) |-> Unset]

-----------------------------------------------------------------------------
(* A round of generate_key_schedule.                                       *)
ExpandTooFar ==   \* mutant
  /\ phase = "schedule"
  /\ LET r == ScheduleRound(round, keyData, NoKey)
     IN  schedule' = [schedule EXCEPT ![round] = r.row] /\ keyData' = r.data
  /\ round' = round + 1
  /\ phase' = IF round < 11 THEN "schedule" ELSE "cycle"
  /\ UNCHANGED <<program, mode, text, material, i, out>>
ExpandKey ==
  /\ phase = "schedule"
  /\ LET r == ScheduleRound(round, keyData, NoKey)
     IN  schedule' = [schedule EXCEPT ![round] = r.row] /\ keyData' = r.data
  /\ round' = round + 1
  /\ phase' = CASE round < 10 -> "schedule"
                [] round = 10 /\ program = "decryptMessage" -> "block"
                [] round = 10 /\ program = "decrypt_sap" -> "cycle"
                [] OTHER -> "whiten"
  /\ UNCHANGED <<program, mode, text, material, i, out>>

(* z_xor of the input: decrypt_sap does it before the schedule.            *)
Whiten ==
  /\ phase = "whiten"
  /\ out' = [b \in Blocks(program) |->
               XorBlocks(IF program = "decrypt_sap" THEN text[b] ELSE text[1], ZKey)]
  /\ phase' = IF program = "decrypt_sap" THEN "schedule" ELSE "cycle"
  /\ UNCHANGED <<program, mode, text, material, keyData, schedule, round, i>>

(* cycle of block i, in place.                                             *)
CycleBlock ==
  /\ phase = "cycle"
  /\ out' = [out EXCEPT ![i] = Cycle(schedule)[@]]
  /\ phase' = "chain"
  /\ UNCHANGED <<program, mode, text, material, keyData, schedule, round, i>>

(* ... and the cipher block before it, which is still in place because     *)
(* decrypt_sap goes backwards.                                             *)
Vector ==
  CASE program # "decrypt_sap" -> text[0]
    [] program = "decrypt_sap" /\ i > 0 -> out[i - 1]
    [] OTHER -> SapIV

ChainButFirst ==   \* mutant
  /\ phase = "chain"
  /\ out' = [out EXCEPT ![i] = XorBlocks(@, Vector)]
  /\ i' = i - 1
  /\ phase' = IF i > 1 THEN "cycle" ELSE "grind"
  /\ UNCHANGED <<program, mode, text, material, keyData, schedule, round>>
ChainBlock ==
  /\ phase = "chain"
  /\ out' = [out EXCEPT ![i] = XorBlocks(@, Vector)]
  /\ i' = i - 1
  /\ phase' = IF i > 0 THEN "cycle" ELSE "grind"
  /\ UNCHANGED <<program, mode, text, material, keyData, schedule, round>>

(* x_xor of the whole output, and in playfair_decrypt z_xor again.         *)
Grinder == IF program = "playfair_decrypt" THEN XorBlocks(XKey, ZKey) ELSE XKey
Grind ==
  /\ phase = "grind"
  /\ out' = [b \in Blocks(program) |-> XorBlocks(out[b], Grinder)]
  /\ phase' = "done"
  /\ UNCHANGED <<program, mode, text, material, keyData, schedule, round, i>>

(* A pass of decryptMessage's loop; block 0 of the message is its header.  *)
Target == IF mode = 3 THEN 7 - i ELSE i
Copied == IF mode = 3 THEN 8 - i ELSE i + 1
Previous ==
  CASE mode = 3 /\ i < 7 -> text[7 - i]
    [] mode # 3 /\ i > 0 -> text[i]
    [] OTHER -> MessageIV[mode]

DecryptBlock ==
  /\ phase = "block"
  /\ out' = [out EXCEPT ![Target] = XorBlocks(MessageBlock(mode)[text[Copied]], Previous)]
  /\ i' = i + 1
  /\ phase' = IF i < 7 THEN "block" ELSE "done"
  /\ UNCHANGED <<program, mode, text, material, keyData, schedule, round>>

Returned == phase = "done" /\ UNCHANGED vars

Next ==
  \/ ExpandKey
  \/ Whiten
  \/ CycleBlock
  \/ ChainBlock
  \/ Grind
  \/ DecryptBlock
  \/ Returned

Spec == Init /\ [][Next]_vars

-----------------------------------------------------------------------------
(* Types: before its round a row of the schedule is unset, the loop index  *)
(* stays within the blocks of the program until the last one is done, and  *)
(* memory is written before it is cycled, chained or ground.               *)
RoundOK == round \in 0 .. 11 /\ (phase = "schedule" => round < 11)
PhaseOK ==
  /\ phase \in {"schedule", "whiten", "block", "cycle", "chain", "grind", "done"}
  /\ phase \in {"block", "cycle", "chain", "grind", "done"} => round = 11
ScheduleOK ==
  /\ keyData \in Block
  /\ schedule \in [0 .. 10 -> Block \cup {Unset}]
  /\ \A r \in 0 .. 10 : schedule[r] = Unset <=> r >= round
IndexOK ==
  /\ i \in -1 .. 15
  /\ phase \in {"cycle", "chain", "block"} => i \in Blocks(program)
OutOK ==
  /\ out \in [Blocks(program) -> Block \cup {Unset}]
  /\ phase \in {"cycle", "chain", "grind", "done"} =>
       \A b \in Blocks(program) : out[b] # Unset \/ program = "decryptMessage"
TypeOK ==
  /\ program \in Program /\ mode \in Mode
  /\ text \in [0 .. 15 -> Block] /\ material \in Block
  /\ RoundOK /\ PhaseOK /\ ScheduleOK /\ IndexOK /\ OutOK

(* The rows are a key expansion: each follows from the whole row before it,*)
(* none mixes words of two rounds, whatever was changed in place meanwhile.*)
ScheduleExpands ==
  /\ round > 0 => schedule[0] = XorBlocks(material, TKey)
  /\ \A r \in 0 .. 9 : r + 1 < round => Expands(r, schedule[r], schedule[r + 1])

(* decryptMessage in both its directions, decrypt_sap in place, decrypt_key*)
(* and playfair_decrypt are all the same chaining of a block cipher, which *)
(* has decrypted every block, the first and the last included, when it     *)
(* returns.                                                                *)
Cipher ==
  [b \in Blocks(program) |->
     CASE program = "decryptMessage" -> text[b + 1]
       [] program = "decrypt_sap" -> XorBlocks(text[b], ZKey)
       [] OTHER -> XorBlocks(text[1], ZKey)]

InitialVector ==
  CASE program = "decryptMessage" -> MessageIV[mode]
    [] program = "decrypt_sap" -> SapIV
    [] OTHER -> text[0]

Decrypted(b) ==
  CASE program = "decryptMessage" /\ mode = 3 -> b > 7 - i
    [] program = "decryptMessage" /\ mode # 3 -> b < i
    [] OTHER -> b > i

Plain ==
  [b \in Blocks(program) |->
     CASE ~Decrypted(b) -> Unset
       [] Decrypted(b) /\ phase = "done" /\ program # "decryptMessage" ->
            XorBlocks(out[b], Grinder)
       [] OTHER -> out[b]]

Reference(k, c) ==
  IF k.program = "decryptMessage" THEN MessageReference(k.mode)[c] ELSE CycleReference(k.keys)[c]

CBC == INSTANCE CBCDecryption WITH
  key <- [program |-> program, mode |-> mode, keys |-> schedule],
  cipher <- Cipher, iv <- InitialVector, plain <- Plain, returned <- phase = "done",
  Dec <- Reference, Xor <- XorBlocks

ImplementsCBC == CBC!Spec

=============================================================================
