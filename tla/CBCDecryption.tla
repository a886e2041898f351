--------------------------- MODULE CBCDecryption ---------------------------
(***************************************************************************)
(* What the block-chaining functions of omg_hax.c promise: every block is  *)
(* decrypted once, under one key, and xored with the cipher block before   *)
(* it, the first with the initial vector; in which order does not matter.  *)
(***************************************************************************)
EXTENDS Integers

CONSTANTS
  Dec(_, _),   \* Dec(key, block)
  Xor(_, _),
  Unset        \* a block that has not been written

VARIABLES key, cipher, iv, plain, returned

Before(b) == IF b = 0 THEN iv ELSE cipher[b - 1]

Init == plain = [b \in DOMAIN cipher |-> Unset] /\ returned = FALSE

(* The key is set up before anything is decrypted, and stays.              *)
Prepare ==
  /\ \A b \in DOMAIN plain : plain[b] = Unset
  /\ UNCHANGED <<cipher, iv, plain>>

Decrypt(b) ==
  /\ plain[b] = Unset /\ plain'[b] # Unset
  /\ plain' = [plain EXCEPT ![b] = plain'[b]]
  /\ plain'[b] = Xor(Dec(key, cipher[b]), Before(b))
  /\ UNCHANGED <<key, cipher, iv>>

(* It returns when nothing is left to decrypt, with the last block or      *)
(* later.                                                                  *)
Return == returned' /\ \A b \in DOMAIN plain' : plain'[b] # Unset

Finish == Return /\ UNCHANGED <<key, cipher, iv, plain>>

Next ==
  /\ ~returned
  /\ Prepare \/ (\E b \in DOMAIN plain : Decrypt(b)) \/ Finish
  /\ ~returned' \/ Return

Spec == Init /\ [][Next]_<<key, cipher, iv, plain, returned>>
=============================================================================
