----------------------------- MODULE MCPlayfair -----------------------------
(***************************************************************************)
(* Playfair for TLC: tables that are all different and none of which is    *)
(* linear, texts no two blocks of which agree, swaps of 5 pairs among four *)
(* words, and a digest in which every byte of the key counts.              *)
(***************************************************************************)
EXTENDS Playfair, Bitwise

MCBit == 0 .. 7
MCMode == 0 .. 3

(* Tables and texts of the decryptions.                                    *)
Part(n) == [x \in SUBSET MCBit |-> Bits((Number(x) * (2 * n + 1) + 37 * n + 11) % 256)]
Parts(last, salt) == [n \in 0 .. last |-> Part(n + salt)]
Tables(salt) ==
  [n \in 0 .. 3 |-> [x \in SUBSET MCBit |-> [k \in 0 .. 3 |-> Part(5 * n + k + salt)[x]]]]
Text(salt) == [k \in Position |-> Bits((k * salt + k \div 3 + salt) % 256)]

MCTableS1 == Parts(39, 1)
MCTableS2 == Parts(143, 2)
MCTableS3 == Parts(15, 3)
MCTableS4 == Parts(143, 4)
MCTableS10 == Parts(15, 5)
MCTableT == Tables(6)
MCTableS9 == Tables(7)
MCMessageKey == [m \in MCMode |-> [k \in 0 .. 143 |-> Bits((k * (m + 2) + k \div 5) % 256)]]
MCMangle == [r \in 0 .. 10 |-> Bits(r + 1)]
MCTKey == Text(11)
MCSample == {[b \in 0 .. 15 |-> Text(b + t)] : t \in {1, 4}}
MCKey == {Text(3)}
MCInitialSessionKey == Text(21)
MCSapKeyMaterial == Text(22)
MCMessageIV == [m \in MCMode |-> Text(30 + m)]
MCSapIV == Text(40)
MCZKey == Text(41)
MCXKey == Text(42)

(* Bytes and digests of the session key.                                   *)
MCXorByte(a, b) == a ^^ b
Bytes(n, salt) == [k \in 0 .. n - 1 |-> (k * salt + k \div 7 + salt) % 256]
MCDigest(r, key) == [k \in 0 .. 15 |-> (3 * key[k] + key[(k + 5) % 16] + r + k) % 256]
MCGarbled == [b \in 0 .. 3 |-> Bytes(210, 29 + b)]
MCMessage == {Bytes(128, 3)}
MCStaticSource1 == Bytes(17, 5)
MCStaticSource2 == Bytes(47, 9)
MCDefaultSap == Bytes(256, 11)

Pairs == {<<0, 0>>, <<0, 5>>, <<15, 5>>, <<15, 7>>, <<7, 0>>}
MCSwaps == [1 .. 5 -> Pairs]
=============================================================================
