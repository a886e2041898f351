--------------------------- MODULE PlayfairBlock ---------------------------
(***************************************************************************)
(* The block ciphers of playfair/omg_hax.c: the substitutions that permute *)
(* a block of 16 bytes in place, the rounds of decryptMessage, cycle and   *)
(* generate_key_schedule, each beside the reference it has to agree with.  *)
(*                                                                         *)
(* A byte is the set of its one bits, and (+) is the bitwise ^.  The        *)
(* tables are constants: only which table and which byte meet where is     *)
(* modelled, not the 100,000 numbers in them.  Words are 4 bytes of a      *)
(* block; what is done to them is done byte by byte.                       *)
(***************************************************************************)
EXTENDS Integers

CONSTANTS
  Bit,           \* bits of a byte
  Mode,          \* modes of a key message: 0 .. 3
  TableS1,       \* table_s1 .. table_s4, table_s10: numbered parts of 256 bytes
  TableS2,
  TableS3,
  TableS4,
  TableS10,
  TableT,        \* table_s8, s7, s6, s5: the word byte 0, 1, 2, 3 of a word stands for
  TableS9,       \* table_s9, in four parts likewise
  MessageKey,    \* message_key
  Mangle,        \* index_mangle
  TKey           \* t_key

Byte == SUBSET Bit
a (+) b == {k \in Bit : (k \in a) # (k \in b)}

Position == 0 .. 15
Block == [Position -> Byte]
Table == [Byte -> Byte]

ASSUME BlockAssumption ==
  /\ Mode = 0 .. 3
  /\ TableS1 \in [0 .. 39 -> Table]
  /\ TableS2 \in [0 .. 143 -> Table]
  /\ TableS3 \in [0 .. 15 -> Table]
  /\ TableS4 \in [0 .. 143 -> Table]
  /\ TableS10 \in [0 .. 15 -> Table]
  /\ TableT \in [0 .. 3 -> [Byte -> [0 .. 3 -> Byte]]]
  /\ TableS9 \in [0 .. 3 -> [Byte -> [0 .. 3 -> Byte]]]
  /\ MessageKey \in [Mode -> [0 .. 143 -> Byte]]
  /\ Mangle \in [0 .. 10 -> Byte]
  /\ TKey \in Block

XorBlocks(a, b) == [i \in Position |-> a[i] (+) b[i]]

-----------------------------------------------------------------------------
(* Permuting in place *)

(* block[d] = table[block[s]], or table[tmp], with the table of position d *)
Put(sub, d, s) == [b \in Block |-> [b EXCEPT ![d] = sub[d][b[s]]]]
PutTmp(sub, d, tmp) == [b \in Block |-> [b EXCEPT ![d] = sub[d][tmp]]]

(* The assignments permute_block_1, permute_block_2 and decryptMessage     *)
(* share: each row of the block is rotated through one temporary.          *)
RowZero(sub) ==
  [b \in Block |-> Put(sub, 12, 12)[Put(sub, 8, 8)[Put(sub, 4, 4)[Put(sub, 0, 0)[b]]]]]
RowOneBackwards(sub) ==   \* mutant
  [b \in Block |->
     PutTmp(sub, 13, b[9])[Put(sub, 9, 5)[Put(sub, 5, 1)[Put(sub, 1, 13)[b]]]]]
RowOne(sub) ==
  [b \in Block |->
     PutTmp(sub, 1, b[13])[Put(sub, 5, 1)[Put(sub, 9, 5)[Put(sub, 13, 9)[b]]]]]
Swap(sub, d, s) == [b \in Block |-> PutTmp(sub, s, b[d])[Put(sub, d, s)[b]]]
RowTwo(sub) == [b \in Block |-> Swap(sub, 6, 14)[Swap(sub, 2, 10)[b]]]
RowThree(sub) ==
  [b \in Block |->
     PutTmp(sub, 15, b[3])[Put(sub, 11, 15)[Put(sub, 7, 11)[Put(sub, 3, 7)[b]]]]]
Shuffle(sub) == [b \in Block |-> RowThree(sub)[RowTwo(sub)[RowOne(sub)[RowZero(sub)[b]]]]]

(* What they stand for: all rows rotated at once, row r by r columns.      *)
Source(d) == (d + 12 * (d % 4)) % 16
Rotated(sub) == [b \in Block |-> [d \in Position |-> sub[d][b[Source(d)]]]]

(* Which table meets which position: table_s3 is taken in the order of the *)
(* sources, the others by steps of 71, 97 and 31 around their tables.      *)
PermuteTable1 == [d \in Position |-> TableS3[(d + 4 * (d % 4)) % 16]]
PermuteTable2(round) == [d \in Position |-> TableS4[(71 * (round * 16 + d)) % 144]]
MessageTable(mode, j) ==
  LET base == 128 - 16 * j
  IN  [d \in Position |-> [x \in Byte |->
         TableS2[(97 * (base + d)) % 144][x] (+) MessageKey[mode][base + d]]]
TableIndex(i) == TableS1[(31 * i) % 40]

-----------------------------------------------------------------------------
(* Rounds *)

(* One word of a round: four looked-up words, xored, replace the four      *)
(* bytes they were looked up with.                                         *)
Lookup(b, key, table, i, n) ==
  LET at == 4 * (i \div 4) + n IN table[n][b[at] (+) key[at]][i % 4]
MixedByte(b, key, table, i) ==
  Lookup(b, key, table, i, 0) (+) Lookup(b, key, table, i, 1)
    (+) Lookup(b, key, table, i, 2) (+) Lookup(b, key, table, i, 3)
Mixed(key, table) == [b \in Block |-> [i \in Position |-> MixedByte(b, key, table, i)]]
MixWord(key, table, w) ==
  [b \in Block |->
     [i \in Position |-> IF i \div 4 = w THEN MixedByte(b, key, table, i) ELSE b[i]]]
MixWords(key, table) ==
  [b \in Block |->
     MixWord(key, table, 3)[MixWord(key, table, 2)[
       MixWord(key, table, 1)[MixWord(key, table, 0)[b]]]]]

NoKey == [i \in Position |-> {}]
Nine(Round(_)) ==
  [b \in Block |->
     Round(8)[Round(7)[Round(6)[Round(5)[Round(4)[Round(3)[Round(2)[Round(1)[Round(0)[b]]]]]]]]]]

(* What decryptMessage makes of a block before it is chained.              *)
MessageRound(mode, j) ==
  [b \in Block |-> MixWords(NoKey, TableS9)[Shuffle(MessageTable(mode, j))[b]]]
MessageBlock(mode) ==
  [b \in Block |-> Shuffle(TableS10)[Nine(LAMBDA j : MessageRound(mode, j))[b]]]

(* cycle: keys 10 down to 0, nine rounds between the first and the last.   *)
CycleRound(keys, r) ==
  [b \in Block |-> Shuffle(PermuteTable2(8 - r))[MixWords(keys[9 - r], TableT)[b]]]
Cycle(keys) ==
  [b \in Block |->
     XorBlocks(Nine(LAMBDA r : CycleRound(keys, r))[
                 Shuffle(PermuteTable1)[XorBlocks(b, keys[10])]], keys[0])]

(* The same with every round done at once from the block before it.        *)
MessageRoundAtOnce(mode, j) ==
  [b \in Block |-> Mixed(NoKey, TableS9)[Rotated(MessageTable(mode, j))[b]]]
MessageReference(mode) ==
  [b \in Block |-> Rotated(TableS10)[Nine(LAMBDA j : MessageRoundAtOnce(mode, j))[b]]]
CycleRoundAtOnce(keys, r) ==
  [b \in Block |-> Rotated(PermuteTable2(8 - r))[Mixed(keys[9 - r], TableT)[b]]]
CycleReference(keys) ==
  [b \in Block |->
     XorBlocks(Nine(LAMBDA r : CycleRoundAtOnce(keys, r))[
                 Rotated(PermuteTable1)[XorBlocks(b, keys[10])]], keys[0])]

-----------------------------------------------------------------------------
(* The key schedule *)

CopyWord(row, data, w) == [i \in Position |-> IF i \div 4 = w THEN data[i] ELSE row[i]]
XorWord(data, w) ==
  [i \in Position |-> IF i \div 4 = w THEN data[i] (+) data[i - 4] ELSE data[i]]

(* "I": the first word is xored with substitutions of the last one.        *)
MixFirst(data, r) ==
  [data EXCEPT
     ![0] = @ (+) (TableIndex(4 * r)[data[13]] (+) Mangle[r]),
     ![1] = @ (+) TableIndex(4 * r + 1)[data[14]],
     ![2] = @ (+) TableIndex(4 * r + 2)[data[15]],
     ![3] = @ (+) TableIndex(4 * r + 3)[data[12]]]

(* A round of generate_key_schedule: each word is copied ("H") before it   *)
(* is changed ("I", "J"), and changed with the word before it as it is now.*)
ScheduleLate(r, data, row) ==   \* mutant
  LET k == XorWord(XorWord(XorWord(MixFirst(data, r), 1), 2), 3)
  IN  [data |-> k, row |-> CopyWord(k, data, 0)]
ScheduleRound(r, data, row) ==
  LET row0 == CopyWord(row, data, 0)
      k0 == MixFirst(data, r)
      row1 == CopyWord(row0, k0, 1)
      k1 == XorWord(k0, 1)
      row2 == CopyWord(row1, k1, 2)
      k2 == XorWord(k1, 2)
  IN  [row |-> CopyWord(row2, k2, 3), data |-> XorWord(k2, 3)]

(* Key expansion: word w of the next key is word w of this one xored with  *)
(* word w - 1 of the next, or for w = 0 with substitutions of word 3.      *)
Expands(r, key, next) ==
  /\ \A i \in 0 .. 3 : next[i] = MixFirst(key, r)[i]
  /\ \A i \in 4 .. 15 : next[i] = key[i] (+) next[i - 4]
=============================================================================
