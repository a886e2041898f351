--------------------------- MODULE PlayfairProofs ---------------------------
(***************************************************************************)
(* Proofs about a call of the functions of playfair: that each of them     *)
(* decrypts its blocks as a chain (BlockChaining), with a schedule that is *)
(* a key expansion, and what generate_session_key promises of the key.     *)
(*                                                                         *)
(* First what the substitutions in place and the rounds of the ciphers are *)
(* (ShuffleRotates, MessageBlockIs, CycleIs, ScheduleRoundIs), then the    *)
(* invariant of the decryptions (ChainInv) and the refinement, then the    *)
(* invariant of the session key (KeyInv), a part for each of its buffers.  *)
(***************************************************************************)
EXTENDS Playfair, SequenceTheorems, TLAPS

-----------------------------------------------------------------------------
(* Bytes and blocks under ^                                                *)

LEMMA XorIsByte == ASSUME NEW a, NEW b PROVE a (+) b \in Byte
  BY DEF Byte, (+)

LEMMA XorTwice == ASSUME NEW a \in Byte, NEW b PROVE (a (+) b) (+) b = a
  BY DEF Byte, (+)

LEMMA XorIsBlock == ASSUME NEW a, NEW b PROVE XorBlocks(a, b) \in Block
  BY XorIsByte DEF XorBlocks, Block

LEMMA XorBlocksTwice ==
  ASSUME NEW a \in Block, NEW b
  PROVE  XorBlocks(XorBlocks(a, b), b) = a
  BY XorTwice DEF XorBlocks, Block

-----------------------------------------------------------------------------
(* Permuting in place                                                      *)

Substitution == [Position -> Table]

LEMMA PutIs ==
  ASSUME NEW sub \in Substitution, NEW b \in Block, NEW d \in Position, NEW s \in Position
  PROVE  /\ Put(sub, d, s)[b] \in Block
         /\ \A p \in Position : Put(sub, d, s)[b][p] = IF p = d THEN sub[d][b[s]] ELSE b[p]
  BY DEF Put, Block, Substitution, Table

LEMMA PutTmpIs ==
  ASSUME NEW sub \in Substitution, NEW b \in Block, NEW d \in Position, NEW x \in Byte
  PROVE  /\ PutTmp(sub, d, x)[b] \in Block
         /\ \A p \in Position : PutTmp(sub, d, x)[b][p] = IF p = d THEN sub[d][x] ELSE b[p]
  BY DEF PutTmp, Block, Substitution, Table

LEMMA BlockBytes == ASSUME NEW b \in Block, NEW p \in Position PROVE b[p] \in Byte
  BY DEF Block

(* Row r of a block after its rotation, the other rows as they were.       *)
LEMMA RowZeroIs ==
  ASSUME NEW sub \in Substitution, NEW b \in Block
  PROVE  /\ RowZero(sub)[b] \in Block
         /\ \A p \in Position :
              RowZero(sub)[b][p] = IF p % 4 = 0 THEN sub[p][b[Source(p)]] ELSE b[p]
<1> DEFINE b0 == Put(sub, 0, 0)[b]
           b1 == Put(sub, 4, 4)[b0]
           b2 == Put(sub, 8, 8)[b1]
           b3 == Put(sub, 12, 12)[b2]
<1>0. 0 \in Position /\ 4 \in Position /\ 8 \in Position /\ 12 \in Position
  BY DEF Position
<1>1. b0 \in Block /\ \A p \in Position : b0[p] = IF p = 0 THEN sub[0][b[0]] ELSE b[p]
  BY <1>0, PutIs
<1> HIDE DEF b0
<1>2. b1 \in Block /\ \A p \in Position : b1[p] = IF p = 4 THEN sub[4][b0[4]] ELSE b0[p]
  BY <1>0, <1>1, PutIs
<1> HIDE DEF b1
<1>3. b2 \in Block /\ \A p \in Position : b2[p] = IF p = 8 THEN sub[8][b1[8]] ELSE b1[p]
  BY <1>0, <1>2, PutIs
<1> HIDE DEF b2
<1>4. b3 \in Block /\ \A p \in Position : b3[p] = IF p = 12 THEN sub[12][b2[12]] ELSE b2[p]
  BY <1>0, <1>3, PutIs
<1>5. RowZero(sub)[b] = b3
  BY DEF RowZero, b0, b1, b2, b3
<1> HIDE DEF b3
<1>6. \A p \in Position : b3[p] = IF p % 4 = 0 THEN sub[p][b[Source(p)]] ELSE b[p]
  BY <1>0, <1>1, <1>2, <1>3, <1>4 DEF Source, Position
<1> QED
  BY <1>4, <1>5, <1>6

LEMMA RowOneIs ==
  ASSUME NEW sub \in Substitution, NEW b \in Block
  PROVE  /\ RowOne(sub)[b] \in Block
         /\ \A p \in Position : RowOne(sub)[b][p] = IF p % 4 = 1 THEN sub[p][b[Source(p)]] ELSE b[p]
<1> DEFINE b0 == Put(sub, 13, 9)[b]
           b1 == Put(sub, 9, 5)[b0]
           b2 == Put(sub, 5, 1)[b1]
           b3 == PutTmp(sub, 1, b[13])[b2]
<1>0. 1 \in Position /\ 5 \in Position /\ 9 \in Position /\ 13 \in Position
  BY DEF Position
<1>1. b0 \in Block /\ \A p \in Position : b0[p] = IF p = 13 THEN sub[13][b[9]] ELSE b[p]
  BY <1>0, PutIs
<1> HIDE DEF b0
<1>2. b1 \in Block /\ \A p \in Position : b1[p] = IF p = 9 THEN sub[9][b0[5]] ELSE b0[p]
  BY <1>0, <1>1, PutIs
<1> HIDE DEF b1
<1>3. b2 \in Block /\ \A p \in Position : b2[p] = IF p = 5 THEN sub[5][b1[1]] ELSE b1[p]
  BY <1>0, <1>2, PutIs
<1> HIDE DEF b2
<1>4. b3 \in Block /\ \A p \in Position : b3[p] = IF p = 1 THEN sub[1][b[13]] ELSE b2[p]
  BY <1>0, <1>3, PutTmpIs, BlockBytes
<1>5. RowOne(sub)[b] = b3
  BY DEF RowOne, b0, b1, b2, b3
<1> HIDE DEF b3
<1>6. \A p \in Position : b3[p] = IF p % 4 = 1 THEN sub[p][b[Source(p)]] ELSE b[p]
  BY <1>0, <1>1, <1>2, <1>3, <1>4 DEF Source, Position
<1> QED
  BY <1>4, <1>5, <1>6

LEMMA SwapIs ==
  ASSUME NEW sub \in Substitution, NEW b \in Block,
         NEW d \in Position, NEW s \in Position, d # s
  PROVE  /\ Swap(sub, d, s)[b] \in Block
         /\ \A p \in Position : Swap(sub, d, s)[b][p] = CASE p = d -> sub[d][b[s]]
                                                          [] p = s -> sub[s][b[d]]
                                                          [] OTHER -> b[p]
<1> DEFINE b0 == Put(sub, d, s)[b]
           b1 == PutTmp(sub, s, b[d])[b0]
<1>1. b0 \in Block /\ \A p \in Position : b0[p] = IF p = d THEN sub[d][b[s]] ELSE b[p]
  BY PutIs
<1> HIDE DEF b0
<1>2. b1 \in Block /\ \A p \in Position : b1[p] = IF p = s THEN sub[s][b[d]] ELSE b0[p]
  BY <1>1, PutTmpIs, BlockBytes
<1>3. Swap(sub, d, s)[b] = b1
  BY DEF Swap, b0, b1
<1> HIDE DEF b1
<1> QED
  BY <1>1, <1>2, <1>3

LEMMA RowTwoIs ==
  ASSUME NEW sub \in Substitution, NEW b \in Block
  PROVE  /\ RowTwo(sub)[b] \in Block
         /\ \A p \in Position : RowTwo(sub)[b][p] = IF p % 4 = 2 THEN sub[p][b[Source(p)]] ELSE b[p]
<1> DEFINE b0 == Swap(sub, 2, 10)[b]
           b1 == Swap(sub, 6, 14)[b0]
<1>0. 2 \in Position /\ 6 \in Position /\ 10 \in Position /\ 14 \in Position
  BY DEF Position
<1>1. b0 \in Block /\ \A p \in Position : b0[p] = CASE p = 2 -> sub[2][b[10]]
                                                    [] p = 10 -> sub[10][b[2]]
                                                    [] OTHER -> b[p]
  BY <1>0, SwapIs
<1> HIDE DEF b0
<1>2. b1 \in Block /\ \A p \in Position : b1[p] = CASE p = 6 -> sub[6][b0[14]]
                                                    [] p = 14 -> sub[14][b0[6]]
                                                    [] OTHER -> b0[p]
  BY <1>0, <1>1, SwapIs
<1>3. RowTwo(sub)[b] = b1
  BY DEF RowTwo, b0, b1
<1> HIDE DEF b1
<1>4. \A p \in Position : b1[p] = IF p % 4 = 2 THEN sub[p][b[Source(p)]] ELSE b[p]
  BY <1>0, <1>1, <1>2 DEF Source, Position
<1> QED
  BY <1>2, <1>3, <1>4

LEMMA RowThreeIs ==
  ASSUME NEW sub \in Substitution, NEW b \in Block
  PROVE  /\ RowThree(sub)[b] \in Block
         /\ \A p \in Position :
              RowThree(sub)[b][p] = IF p % 4 = 3 THEN sub[p][b[Source(p)]] ELSE b[p]
<1> DEFINE b0 == Put(sub, 3, 7)[b]
           b1 == Put(sub, 7, 11)[b0]
           b2 == Put(sub, 11, 15)[b1]
           b3 == PutTmp(sub, 15, b[3])[b2]
<1>0. 3 \in Position /\ 7 \in Position /\ 11 \in Position /\ 15 \in Position
  BY DEF Position
<1>1. b0 \in Block /\ \A p \in Position : b0[p] = IF p = 3 THEN sub[3][b[7]] ELSE b[p]
  BY <1>0, PutIs
<1> HIDE DEF b0
<1>2. b1 \in Block /\ \A p \in Position : b1[p] = IF p = 7 THEN sub[7][b0[11]] ELSE b0[p]
  BY <1>0, <1>1, PutIs
<1> HIDE DEF b1
<1>3. b2 \in Block /\ \A p \in Position : b2[p] = IF p = 11 THEN sub[11][b1[15]] ELSE b1[p]
  BY <1>0, <1>2, PutIs
<1> HIDE DEF b2
<1>4. b3 \in Block /\ \A p \in Position : b3[p] = IF p = 15 THEN sub[15][b[3]] ELSE b2[p]
  BY <1>0, <1>3, PutTmpIs, BlockBytes
<1>5. RowThree(sub)[b] = b3
  BY DEF RowThree, b0, b1, b2, b3
<1> HIDE DEF b3
<1>6. \A p \in Position : b3[p] = IF p % 4 = 3 THEN sub[p][b[Source(p)]] ELSE b[p]
  BY <1>0, <1>1, <1>2, <1>3, <1>4 DEF Source, Position
<1> QED
  BY <1>4, <1>5, <1>6

(* The assignments in place are one rotation of all rows: no byte is read  *)
(* after it has been overwritten.                                          *)
THEOREM ShuffleRotates ==
  ASSUME NEW sub \in Substitution, NEW b \in Block
  PROVE  Shuffle(sub)[b] \in Block /\ Shuffle(sub)[b] = Rotated(sub)[b]
<1> DEFINE b0 == RowZero(sub)[b]
           b1 == RowOne(sub)[b0]
           b2 == RowTwo(sub)[b1]
           b3 == RowThree(sub)[b2]
<1>1. /\ b0 \in Block
      /\ \A p \in Position : b0[p] = IF p % 4 = 0 THEN sub[p][b[Source(p)]] ELSE b[p]
  BY RowZeroIs
<1> HIDE DEF b0
<1>2. /\ b1 \in Block
      /\ \A p \in Position : b1[p] = IF p % 4 = 1 THEN sub[p][b0[Source(p)]] ELSE b0[p]
  BY <1>1, RowOneIs
<1> HIDE DEF b1
<1>3. /\ b2 \in Block
      /\ \A p \in Position : b2[p] = IF p % 4 = 2 THEN sub[p][b1[Source(p)]] ELSE b1[p]
  BY <1>2, RowTwoIs
<1> HIDE DEF b2
<1>4. /\ b3 \in Block
      /\ \A p \in Position : b3[p] = IF p % 4 = 3 THEN sub[p][b2[Source(p)]] ELSE b2[p]
  BY <1>3, RowThreeIs
<1>5. Shuffle(sub)[b] = b3
  BY DEF Shuffle, b0, b1, b2, b3
<1> HIDE DEF b3
<1>6. \A p \in Position : Source(p) \in Position /\ Source(p) % 4 = p % 4
  BY DEF Position, Source
<1>7. ASSUME NEW p \in Position PROVE b3[p] = sub[p][b[Source(p)]]
  <2>1. p % 4 \in 0 .. 3
    BY DEF Position
  <2> QED
    BY <1>1, <1>2, <1>3, <1>4, <1>6, <2>1
<1>8. Rotated(sub)[b] = [p \in Position |-> sub[p][b[Source(p)]]]
  BY DEF Rotated
<1> QED
  BY <1>4, <1>5, <1>7, <1>8 DEF Block

-----------------------------------------------------------------------------
(* Rounds                                                                  *)

WordTable == [0 .. 3 -> [Byte -> [0 .. 3 -> Byte]]]

(* A word of a round is made from the bytes it replaces and from no others.*)
LEMMA MixedByteOfWord ==
  ASSUME NEW b \in Block, NEW c \in Block, NEW key, NEW table, NEW p \in Position,
         \A q \in Position : q \div 4 = p \div 4 => b[q] = c[q]
  PROVE  MixedByte(b, key, table, p) = MixedByte(c, key, table, p)
<1>1. \A n \in 0 .. 3 : /\ 4 * (p \div 4) + n \in Position
                        /\ (4 * (p \div 4) + n) \div 4 = p \div 4
  BY DEF Position
<1>2. \A n \in 0 .. 3 : b[4 * (p \div 4) + n] = c[4 * (p \div 4) + n]
  BY <1>1
<1>3. ASSUME NEW n \in 0 .. 3
      PROVE  Lookup(b, key, table, p, n) = Lookup(c, key, table, p, n)
  BY <1>2 DEF Lookup
<1> QED
  BY <1>3 DEF MixedByte

LEMMA MixWordIs ==
  ASSUME NEW key, NEW table, NEW b \in Block, NEW w \in 0 .. 3
  PROVE  /\ MixWord(key, table, w)[b] \in Block
         /\ \A p \in Position : MixWord(key, table, w)[b][p] =
              IF p \div 4 = w THEN MixedByte(b, key, table, p) ELSE b[p]
<1>1. MixWord(key, table, w)[b] =
        [p \in Position |-> IF p \div 4 = w THEN MixedByte(b, key, table, p) ELSE b[p]]
  BY DEF MixWord
<1>2. \A p \in Position : MixedByte(b, key, table, p) \in Byte
  BY XorIsByte DEF MixedByte
<1> QED
  BY <1>1, <1>2 DEF Block

LEMMA WordsMixAtOnce ==
  ASSUME NEW key, NEW table, NEW b \in Block
  PROVE  MixWords(key, table)[b] \in Block /\ MixWords(key, table)[b] = Mixed(key, table)[b]
<1> DEFINE M(c, p) == MixedByte(c, key, table, p)
           b0 == MixWord(key, table, 0)[b]
           b1 == MixWord(key, table, 1)[b0]
           b2 == MixWord(key, table, 2)[b1]
           b3 == MixWord(key, table, 3)[b2]
<1>1. b0 \in Block /\ \A p \in Position : b0[p] = IF p \div 4 = 0 THEN M(b, p) ELSE b[p]
  BY MixWordIs
<1> HIDE DEF b0
<1>2. b1 \in Block /\ \A p \in Position : b1[p] = IF p \div 4 = 1 THEN M(b0, p) ELSE b0[p]
  BY <1>1, MixWordIs
<1> HIDE DEF b1
<1>3. b2 \in Block /\ \A p \in Position : b2[p] = IF p \div 4 = 2 THEN M(b1, p) ELSE b1[p]
  BY <1>2, MixWordIs
<1> HIDE DEF b2
<1>4. b3 \in Block /\ \A p \in Position : b3[p] = IF p \div 4 = 3 THEN M(b2, p) ELSE b2[p]
  BY <1>3, MixWordIs
<1>5. MixWords(key, table)[b] = b3
  BY DEF MixWords, b0, b1, b2, b3
<1> HIDE DEF b3
<1>6. ASSUME NEW p \in Position, p \div 4 = 1 PROVE M(b0, p) = M(b, p)
  <2>1. \A q \in Position : q \div 4 = p \div 4 => b0[q] = b[q]
    BY <1>1, <1>6
  <2> QED
    BY <1>1, <2>1, MixedByteOfWord
<1>7. ASSUME NEW p \in Position, p \div 4 = 2 PROVE M(b1, p) = M(b, p)
  <2>1. \A q \in Position : q \div 4 = p \div 4 => b1[q] = b[q]
    BY <1>1, <1>2, <1>7
  <2> QED
    BY <1>2, <2>1, MixedByteOfWord
<1>8. ASSUME NEW p \in Position, p \div 4 = 3 PROVE M(b2, p) = M(b, p)
  <2>1. \A q \in Position : q \div 4 = p \div 4 => b2[q] = b[q]
    BY <1>1, <1>2, <1>3, <1>8
  <2> QED
    BY <1>3, <2>1, MixedByteOfWord
<1> HIDE DEF M
<1>9. ASSUME NEW p \in Position PROVE b3[p] = M(b, p)
  <2>1. p \div 4 \in 0 .. 3
    BY DEF Position
  <2> QED
    BY <1>1, <1>2, <1>3, <1>4, <1>6, <1>7, <1>8, <2>1
<1>10. Mixed(key, table)[b] = [p \in Position |-> M(b, p)]
  BY DEF Mixed, M
<1> QED
  BY <1>4, <1>5, <1>9, <1>10 DEF Block

(* The tables the rounds substitute with.                                  *)
LEMMA Substitutions ==
  /\ TableS10 \in Substitution
  /\ PermuteTable1 \in Substitution
  /\ \A r \in 0 .. 8 : PermuteTable2(8 - r) \in Substitution
  /\ \A m \in Mode : \A n \in 0 .. 8 : MessageTable(m, n) \in Substitution
<1>1. TableS10 \in Substitution
  BY BlockAssumption DEF Substitution, Position
<1>2. PermuteTable1 \in Substitution
  <2>1. \A d \in Position : (d + 4 * (d % 4)) % 16 \in 0 .. 15
    BY DEF Position
  <2> QED
    BY <2>1, BlockAssumption DEF PermuteTable1, Substitution
<1>3. ASSUME NEW r \in 0 .. 8 PROVE PermuteTable2(8 - r) \in Substitution
  <2>1. \A d \in Position : (71 * ((8 - r) * 16 + d)) % 144 \in 0 .. 143
    BY DEF Position
  <2> QED
    BY <2>1, BlockAssumption DEF PermuteTable2, Substitution
<1>4. ASSUME NEW m \in Mode, NEW n \in 0 .. 8 PROVE MessageTable(m, n) \in Substitution
  BY XorIsByte DEF MessageTable, Substitution, Table
<1> QED
  BY <1>1, <1>2, <1>3, <1>4

LEMMA MessageRoundIs ==
  ASSUME NEW m \in Mode, NEW n \in 0 .. 8, NEW b \in Block
  PROVE  /\ MessageRound(m, n)[b] \in Block
         /\ MessageRound(m, n)[b] = MessageRoundAtOnce(m, n)[b]
<1> DEFINE c == Shuffle(MessageTable(m, n))[b]
<1>1. c \in Block /\ c = Rotated(MessageTable(m, n))[b]
  BY Substitutions, ShuffleRotates
<1>2. MessageRound(m, n)[b] = MixWords(NoKey, TableS9)[c]
  BY DEF MessageRound
<1>3. MessageRoundAtOnce(m, n)[b] = Mixed(NoKey, TableS9)[c]
  BY <1>1 DEF MessageRoundAtOnce
<1> HIDE DEF c
<1> QED
  BY <1>1, <1>2, <1>3, WordsMixAtOnce

LEMMA CycleRoundIs ==
  ASSUME NEW keysOf, NEW r \in 0 .. 8, NEW b \in Block
  PROVE  /\ CycleRound(keysOf, r)[b] \in Block
         /\ CycleRound(keysOf, r)[b] = CycleRoundAtOnce(keysOf, r)[b]
<1> DEFINE c == MixWords(keysOf[9 - r], TableT)[b]
<1>1. c \in Block /\ c = Mixed(keysOf[9 - r], TableT)[b]
  BY WordsMixAtOnce
<1>2. CycleRound(keysOf, r)[b] = Shuffle(PermuteTable2(8 - r))[c]
  BY DEF CycleRound
<1>3. CycleRoundAtOnce(keysOf, r)[b] = Rotated(PermuteTable2(8 - r))[c]
  BY <1>1 DEF CycleRoundAtOnce
<1> HIDE DEF c
<1> QED
  BY <1>1, <1>2, <1>3, Substitutions, ShuffleRotates

(* Nine rounds one after the other.                                        *)
NineOf(f, b) == f[8][f[7][f[6][f[5][f[4][f[3][f[2][f[1][f[0][b]]]]]]]]]

(* Rounds that agree with others one by one agree altogether.              *)
LEMMA NineAgree ==
  ASSUME NEW f, NEW g, NEW b \in Block,
         \A r \in 0 .. 8 : \A c \in Block : f[r][c] \in Block /\ f[r][c] = g[r][c]
  PROVE  NineOf(f, b) \in Block /\ NineOf(f, b) = NineOf(g, b)
<1> DEFINE b0 == f[0][b]
           b1 == f[1][b0]
           b2 == f[2][b1]
           b3 == f[3][b2]
           b4 == f[4][b3]
           b5 == f[5][b4]
           b6 == f[6][b5]
           b7 == f[7][b6]
           b8 == f[8][b7]
<1>1. b0 \in Block /\ b0 = g[0][b]
  OBVIOUS
<1>11. NineOf(f, b) = b8 /\ NineOf(g, b) = g[8][g[7][g[6][g[5][g[4][g[3][g[2][g[1][g[0][b]]]]]]]]]
  BY DEF NineOf
<1> HIDE DEF b0
<1>2. b1 \in Block /\ b1 = g[1][b0]
  BY <1>1
<1> HIDE DEF b1
<1>3. b2 \in Block /\ b2 = g[2][b1]
  BY <1>2
<1> HIDE DEF b2
<1>4. b3 \in Block /\ b3 = g[3][b2]
  BY <1>3
<1> HIDE DEF b3
<1>5. b4 \in Block /\ b4 = g[4][b3]
  BY <1>4
<1> HIDE DEF b4
<1>6. b5 \in Block /\ b5 = g[5][b4]
  BY <1>5
<1> HIDE DEF b5
<1>7. b6 \in Block /\ b6 = g[6][b5]
  BY <1>6
<1> HIDE DEF b6
<1>8. b7 \in Block /\ b7 = g[7][b6]
  BY <1>7
<1> HIDE DEF b7
<1>9. b8 \in Block /\ b8 = g[8][b7]
  BY <1>8
<1> HIDE DEF b8
<1> QED
  BY <1>11, <1>1, <1>2, <1>3, <1>4, <1>5, <1>6, <1>7, <1>8, <1>9

(* What decryptMessage makes of a block is its reference cipher.           *)
LEMMA MessageBlockIs ==
  ASSUME NEW m \in Mode, NEW b \in Block
  PROVE  MessageBlock(m)[b] \in Block /\ MessageBlock(m)[b] = MessageReference(m)[b]
<1> DEFINE f == [n \in 0 .. 8 |-> MessageRound(m, n)]
           g == [n \in 0 .. 8 |-> MessageRoundAtOnce(m, n)]
           c == NineOf(f, b)
           d == NineOf(g, b)
<1>1. MessageBlock(m)[b] = Shuffle(TableS10)[c]
  <2>1. MessageBlock(m)[b] = Shuffle(TableS10)[Nine(LAMBDA n : MessageRound(m, n))[b]]
    BY DEF MessageBlock
  <2>2. Nine(LAMBDA n : MessageRound(m, n))[b] = c
    <3>1. /\ f[0] = MessageRound(m, 0)
          /\ f[1] = MessageRound(m, 1)
          /\ f[2] = MessageRound(m, 2)
          /\ f[3] = MessageRound(m, 3)
          /\ f[4] = MessageRound(m, 4)
          /\ f[5] = MessageRound(m, 5)
          /\ f[6] = MessageRound(m, 6)
          /\ f[7] = MessageRound(m, 7)
          /\ f[8] = MessageRound(m, 8)
      OBVIOUS
    <3> HIDE DEF f
    <3> QED
      BY <3>1 DEF Nine, NineOf
  <2> QED
    BY <2>1, <2>2
<1>2. MessageReference(m)[b] = Rotated(TableS10)[d]
  <2>1. MessageReference(m)[b]
          = Rotated(TableS10)[Nine(LAMBDA n : MessageRoundAtOnce(m, n))[b]]
    BY DEF MessageReference
  <2>2. Nine(LAMBDA n : MessageRoundAtOnce(m, n))[b] = d
    <3>1. /\ g[0] = MessageRoundAtOnce(m, 0)
          /\ g[1] = MessageRoundAtOnce(m, 1)
          /\ g[2] = MessageRoundAtOnce(m, 2)
          /\ g[3] = MessageRoundAtOnce(m, 3)
          /\ g[4] = MessageRoundAtOnce(m, 4)
          /\ g[5] = MessageRoundAtOnce(m, 5)
          /\ g[6] = MessageRoundAtOnce(m, 6)
          /\ g[7] = MessageRoundAtOnce(m, 7)
          /\ g[8] = MessageRoundAtOnce(m, 8)
      OBVIOUS
    <3> HIDE DEF g
    <3> QED
      BY <3>1 DEF Nine, NineOf
  <2> QED
    BY <2>1, <2>2
<1>3. \A n \in 0 .. 8 : \A x \in Block : f[n][x] \in Block /\ f[n][x] = g[n][x]
  BY MessageRoundIs
<1> HIDE DEF f, g
<1>4. c \in Block /\ c = d
  BY <1>3, NineAgree
<1> HIDE DEF c, d
<1> QED
  BY <1>1, <1>2, <1>4, Substitutions, ShuffleRotates

(* And so is cycle with any key schedule.                                  *)
LEMMA CycleIs ==
  ASSUME NEW keysOf, NEW b \in Block
  PROVE  Cycle(keysOf)[b] \in Block /\ Cycle(keysOf)[b] = CycleReference(keysOf)[b]
<1> DEFINE f == [r \in 0 .. 8 |-> CycleRound(keysOf, r)]
           g == [r \in 0 .. 8 |-> CycleRoundAtOnce(keysOf, r)]
           x == XorBlocks(b, keysOf[10])
           a == Shuffle(PermuteTable1)[x]
           c == NineOf(f, a)
           d == NineOf(g, a)
<1>1. x \in Block
  BY XorIsBlock
<1>2. a \in Block /\ a = Rotated(PermuteTable1)[x]
  BY <1>1, Substitutions, ShuffleRotates
<1>3. Cycle(keysOf)[b] = XorBlocks(c, keysOf[0])
  <2>1. Cycle(keysOf)[b] = XorBlocks(Nine(LAMBDA r : CycleRound(keysOf, r))[a], keysOf[0])
    BY DEF Cycle
  <2>2. Nine(LAMBDA r : CycleRound(keysOf, r))[a] = c
    <3>1. /\ f[0] = CycleRound(keysOf, 0)
          /\ f[1] = CycleRound(keysOf, 1)
          /\ f[2] = CycleRound(keysOf, 2)
          /\ f[3] = CycleRound(keysOf, 3)
          /\ f[4] = CycleRound(keysOf, 4)
          /\ f[5] = CycleRound(keysOf, 5)
          /\ f[6] = CycleRound(keysOf, 6)
          /\ f[7] = CycleRound(keysOf, 7)
          /\ f[8] = CycleRound(keysOf, 8)
      OBVIOUS
    <3> HIDE DEF f
    <3> QED
      BY <1>2, <3>1 DEF Nine, NineOf
  <2> QED
    BY <2>1, <2>2
<1>4. CycleReference(keysOf)[b] = XorBlocks(d, keysOf[0])
  <2>1. CycleReference(keysOf)[b]
          = XorBlocks(Nine(LAMBDA r : CycleRoundAtOnce(keysOf, r))[a], keysOf[0])
    BY <1>2 DEF CycleReference
  <2>2. Nine(LAMBDA r : CycleRoundAtOnce(keysOf, r))[a] = d
    <3>1. /\ g[0] = CycleRoundAtOnce(keysOf, 0)
          /\ g[1] = CycleRoundAtOnce(keysOf, 1)
          /\ g[2] = CycleRoundAtOnce(keysOf, 2)
          /\ g[3] = CycleRoundAtOnce(keysOf, 3)
          /\ g[4] = CycleRoundAtOnce(keysOf, 4)
          /\ g[5] = CycleRoundAtOnce(keysOf, 5)
          /\ g[6] = CycleRoundAtOnce(keysOf, 6)
          /\ g[7] = CycleRoundAtOnce(keysOf, 7)
          /\ g[8] = CycleRoundAtOnce(keysOf, 8)
      OBVIOUS
    <3> HIDE DEF g
    <3> QED
      BY <1>2, <3>1 DEF Nine, NineOf
  <2> QED
    BY <2>1, <2>2
<1>5. \A r \in 0 .. 8 : \A y \in Block : f[r][y] \in Block /\ f[r][y] = g[r][y]
  BY CycleRoundIs
<1> HIDE DEF f, g, a
<1>6. c = d
  BY <1>2, <1>5, NineAgree
<1> HIDE DEF c, d
<1> QED
  BY <1>3, <1>4, <1>6, XorIsBlock

-----------------------------------------------------------------------------
(* The key schedule                                                        *)

LEMMA MixFirstIs ==
  ASSUME NEW data \in Block, NEW r \in 0 .. 10
  PROVE  /\ MixFirst(data, r) \in Block
         /\ \A p \in 4 .. 15 : MixFirst(data, r)[p] = data[p]
<1>1. \A a, b : a (+) b \in Byte
  BY XorIsByte
<1> QED
  BY <1>1 DEF MixFirst, Block, Position

LEMMA XorWordIs ==
  ASSUME NEW data \in Block, NEW w \in 1 .. 3
  PROVE  /\ XorWord(data, w) \in Block
         /\ \A p \in Position : XorWord(data, w)[p] =
              IF p \div 4 = w THEN data[p] (+) data[p - 4] ELSE data[p]
  BY XorIsByte DEF XorWord, Block

(* Whatever is changed in place after it is copied, the row is the data    *)
(* the round began with and the data the next key.                         *)
LEMMA ScheduleRoundIs ==
  ASSUME NEW data \in Block, NEW row \in Block, NEW r \in 0 .. 10
  PROVE  /\ ScheduleRound(r, data, row).row = data
         /\ ScheduleRound(r, data, row).data \in Block
         /\ Expands(r, data, ScheduleRound(r, data, row).data)
<1> DEFINE k0 == MixFirst(data, r)
           k1 == XorWord(k0, 1)
           k2 == XorWord(k1, 2)
           k3 == XorWord(k2, 3)
           row3 == CopyWord(CopyWord(CopyWord(CopyWord(row, data, 0), k0, 1), k1, 2), k2, 3)
<1>1. k0 \in Block /\ \A p \in 4 .. 15 : k0[p] = data[p]
  BY MixFirstIs
<1>2. /\ ScheduleRound(r, data, row).row = row3
      /\ ScheduleRound(r, data, row).data = k3
  BY DEF ScheduleRound
<1>3. \A p \in 0 .. 3 : k0[p] = MixFirst(data, r)[p]
  OBVIOUS
<1> HIDE DEF k0
<1>4. /\ k1 \in Block
      /\ \A p \in Position : k1[p] = IF p \div 4 = 1 THEN k0[p] (+) k0[p - 4] ELSE k0[p]
  BY <1>1, XorWordIs
<1> HIDE DEF k1
<1>5. /\ k2 \in Block
      /\ \A p \in Position : k2[p] = IF p \div 4 = 2 THEN k1[p] (+) k1[p - 4] ELSE k1[p]
  BY <1>4, XorWordIs
<1> HIDE DEF k2
<1>6. /\ k3 \in Block
      /\ \A p \in Position : k3[p] = IF p \div 4 = 3 THEN k2[p] (+) k2[p - 4] ELSE k2[p]
  BY <1>5, XorWordIs
<1> HIDE DEF k3
<1>7. row3 = data
  <2>1. ASSUME NEW p \in Position PROVE row3[p] = data[p]
    <3>1. row3[p] = IF p \div 4 = 3 THEN k2[p]
                    ELSE IF p \div 4 = 2 THEN k1[p]
                    ELSE IF p \div 4 = 1 THEN k0[p]
                    ELSE IF p \div 4 = 0 THEN data[p] ELSE row[p]
      BY DEF CopyWord
    <3>2. p \div 4 \in 0 .. 3 /\ (p \div 4 # 0 => p \in 4 .. 15)
      BY DEF Position
    <3> QED
      BY <1>1, <1>4, <1>5, <3>1, <3>2
  <2>2. row3 = [p \in Position |-> row3[p]]
    BY DEF CopyWord
  <2> QED
    BY <2>1, <2>2 DEF Block
<1>8. \A p \in 0 .. 3 : k3[p] = k0[p]
  BY <1>4, <1>5, <1>6 DEF Position
<1>9. ASSUME NEW p \in 4 .. 15 PROVE k3[p] = data[p] (+) k3[p - 4]
  <2>1. CASE p \in 4 .. 7
    <3>1. p \div 4 = 1 /\ (p - 4) \div 4 = 0 /\ p \in Position /\ p - 4 \in Position
      BY <2>1 DEF Position
    <3> QED
      BY <1>1, <1>4, <1>5, <1>6, <3>1
  <2>2. CASE p \in 8 .. 11
    <3>1. p \div 4 = 2 /\ (p - 4) \div 4 = 1 /\ p \in Position /\ p - 4 \in Position
      BY <2>2 DEF Position
    <3> QED
      BY <1>1, <1>4, <1>5, <1>6, <3>1
  <2>3. CASE p \in 12 .. 15
    <3>1. p \div 4 = 3 /\ (p - 4) \div 4 = 2 /\ p \in Position /\ p - 4 \in Position
      BY <2>3 DEF Position
    <3> QED
      BY <1>1, <1>4, <1>5, <1>6, <3>1
  <2> QED
    BY <2>1, <2>2, <2>3
<1> HIDE DEF row3
<1> QED
  BY <1>2, <1>3, <1>6, <1>7, <1>8, <1>9 DEF Expands

-----------------------------------------------------------------------------
(* The four programs                                                       *)

(* What a program does in which of its phases, and where its index is then.*)
Flow ==
  /\ phase \in {"whiten", "cycle", "chain", "grind"} => program # "decryptMessage"
  /\ phase = "block" => program = "decryptMessage"
  /\ phase \in {"schedule", "whiten"} => i = IF program = "decrypt_sap" THEN 15 ELSE 0
  /\ phase = "whiten" => round = IF program = "decrypt_sap" THEN 0 ELSE 11
  /\ phase = "grind" => i = -1
  /\ phase = "done" => i = IF program = "decryptMessage" THEN 8 ELSE -1

(* The decryption waits for the session key.                               *)
Waiting == Hashing => phase = "schedule" /\ round = 0

(* The data of the next round is the next key.                             *)
DataFollows ==
  /\ round = 0 => keyData = XorBlocks(material, TKey)
  /\ round > 0 => Expands(round - 1, schedule[round - 1], keyData)

(* What is not decrypted yet is the cipher text, still in its place, and   *)
(* what is decrypted is a block.                                           *)
InPlace ==
  /\ phase = "cycle" \/ (phase = "schedule" /\ program = "decrypt_sap") =>
       \A b \in Blocks(program) : b <= i => out[b] = Cipher[b]
  /\ phase = "chain" =>
       /\ out[i] = Cycle(schedule)[Cipher[i]]
       /\ \A b \in Blocks(program) : b < i => out[b] = Cipher[b]
  /\ \A b \in Blocks(program) : Decrypted(b) => out[b] \in Block

ChainInv == TypeOK /\ Flow /\ Waiting /\ DataFollows /\ ScheduleExpands /\ InPlace

LEMMA BlocksAre ==
  /\ Blocks("decryptMessage") = 0 .. 7
  /\ Blocks("decrypt_sap") = 0 .. 15
  /\ Blocks("decrypt_key") = {0}
  /\ Blocks("playfair_decrypt") = {0}
  BY DEF Blocks

LEMMA CipherIs ==
  ASSUME program \in Program, text \in [0 .. 15 -> Block]
  PROVE  Cipher \in [Blocks(program) -> Block]
<1>1. CASE program = "decryptMessage"
  <2>1. Cipher = [b \in 0 .. 7 |-> text[b + 1]]
    BY <1>1, BlocksAre DEF Cipher
  <2>2. \A b \in 0 .. 7 : b + 1 \in 0 .. 15
    OBVIOUS
  <2> QED
    BY <1>1, <2>1, <2>2, BlocksAre
<1>2. CASE program # "decryptMessage"
  BY <1>2, XorIsBlock DEF Cipher
<1> QED
  BY <1>1, <1>2

LEMMA ChainAtStart == ASSUME Init PROVE ChainInv
<1>1. /\ program \in Program /\ mode \in Mode /\ text \in [0 .. 15 -> Block]
      /\ material \in Block
  BY BlockAssumption, ChainingAssumption DEF Init, Material, Program
<1>2. RoundOK /\ PhaseOK
  BY DEF Init, RoundOK, PhaseOK
<1>3. ScheduleOK
  BY XorIsBlock, ChainingAssumption DEF Init, ScheduleOK
<1>4. IndexOK
  BY <1>1, BlocksAre DEF Init, IndexOK, Program
<1>5. OutOK
  BY DEF Init, OutOK
<1>6. Flow /\ Waiting /\ DataFollows /\ ScheduleExpands
  <2>1. Flow
    BY DEF Init, Flow
  <2>2. Waiting
    BY DEF Init, Waiting, Hashing
  <2>3. DataFollows
    BY DEF Init, DataFollows
  <2>4. ScheduleExpands
    BY DEF Init, ScheduleExpands
  <2> QED
    BY <2>1, <2>2, <2>3, <2>4
<1>7. InPlace
  <2>1. \A b \in Blocks(program) : ~Decrypted(b)
    BY <1>1, BlocksAre DEF Init, Decrypted, Program
  <2>2. phase \notin {"cycle", "chain"} /\ ~(phase = "schedule" /\ program = "decrypt_sap")
    BY DEF Init
  <2> QED
    BY <2>1, <2>2 DEF InPlace
<1> QED
  BY <1>1, <1>2, <1>3, <1>4, <1>5, <1>6, <1>7 DEF ChainInv, TypeOK

(* The call that makes the session key touches nothing but the key a       *)
(* schedule has not been made of yet.                                      *)
LEMMA SessionKeyKeepsChain ==
  ASSUME ChainInv, GenerateSessionKey
  PROVE  ChainInv'
<1>1. /\ UNCHANGED <<program, mode, text, schedule, round, i, phase, out>>
      /\ Hashing
      /\ \/ UNCHANGED <<material, keyData>>
         \/ material' \in Block /\ keyData' = XorBlocks(material', TKey)
  BY DEF GenerateSessionKey, Bits, Block, Byte
<1>2. round = 0 /\ keyData' \in Block /\ material' \in Block
  BY <1>1, XorIsBlock DEF ChainInv, Waiting, TypeOK, ScheduleOK
<1>3. TypeOK'
  BY <1>1, <1>2 DEF ChainInv, TypeOK, RoundOK, PhaseOK, ScheduleOK, IndexOK, OutOK
<1>4. Flow'
  BY <1>1 DEF ChainInv, Flow
<1>5. Waiting'
  BY <1>1 DEF ChainInv, Waiting
<1>6. DataFollows'
  BY <1>1, <1>2 DEF ChainInv, DataFollows
<1>7. ScheduleExpands'
  BY <1>1, <1>2 DEF ChainInv, ScheduleExpands
<1>8. InPlace'
  BY <1>1 DEF ChainInv, InPlace, Cipher, Decrypted
<1> QED
  BY <1>3, <1>4, <1>5, <1>6, <1>7, <1>8 DEF ChainInv

LEMMA ExpandKeepsChain ==
  ASSUME ChainInv, ~Hashing, ExpandKey, UNCHANGED hashing
  PROVE  ChainInv'
<1> DEFINE r == ScheduleRound(round, keyData, NoKey)
<1>0. /\ phase = "schedule" /\ round \in 0 .. 10 /\ keyData \in Block /\ material \in Block
      /\ schedule \in [0 .. 10 -> Block \cup {Unset}] /\ program \in Program
      /\ i = IF program = "decrypt_sap" THEN 15 ELSE 0
  BY DEF ExpandKey, ChainInv, TypeOK, RoundOK, ScheduleOK, Flow
<1>1. /\ schedule' = [schedule EXCEPT ![round] = r.row] /\ keyData' = r.data
      /\ round' = round + 1
      /\ phase' = CASE round < 10 -> "schedule"
                    [] round = 10 /\ program = "decryptMessage" -> "block"
                    [] round = 10 /\ program = "decrypt_sap" -> "cycle"
                    [] OTHER -> "whiten"
      /\ UNCHANGED <<program, mode, text, material, i, out>>
  BY DEF ExpandKey
<1>2. r.row = keyData /\ r.data \in Block /\ Expands(round, keyData, r.data)
  <2>1. NoKey \in Block
    BY DEF NoKey, Block, Byte
  <2> QED
    BY <1>0, <2>1, ScheduleRoundIs
<1> HIDE DEF r
<1>3. phase' = IF round < 10 THEN "schedule"
               ELSE IF program = "decryptMessage" THEN "block"
               ELSE IF program = "decrypt_sap" THEN "cycle" ELSE "whiten"
  BY <1>0, <1>1
<1>4. TypeOK'
  <2>1. RoundOK' /\ PhaseOK'
    BY <1>0, <1>1, <1>3 DEF RoundOK, PhaseOK
  <2>2. ScheduleOK'
    <3>1. keyData \in Block \cup {Unset} /\ keyData # Unset
      BY <1>0, ChainingAssumption
    <3>2. schedule' = [schedule EXCEPT ![round] = keyData]
      BY <1>1, <1>2
    <3>3. schedule' \in [0 .. 10 -> Block \cup {Unset}]
      BY <1>0, <3>1, <3>2
    <3>4. \A k \in 0 .. 10 : schedule'[k] = Unset <=> k >= round + 1
      BY <1>0, <3>1, <3>2 DEF ChainInv, TypeOK, ScheduleOK
    <3> QED
      BY <1>1, <1>2, <3>3, <3>4 DEF ScheduleOK
  <2>3. IndexOK'
    BY <1>0, <1>1, <1>3, BlocksAre DEF IndexOK, Program
  <2>4. OutOK'
    <3>1. out' \in [Blocks(program') -> Block \cup {Unset}]
      BY <1>1 DEF ChainInv, TypeOK, OutOK
    <3>2. ASSUME phase' = "cycle"
          PROVE  \A b \in Blocks(program) : out[b] # Unset
      <4>1. program = "decrypt_sap"
        BY <1>3, <3>2
      <4>2. \A b \in Blocks(program) : out[b] = Cipher[b]
        BY <1>0, <4>1, BlocksAre DEF ChainInv, InPlace
      <4> QED
        BY <4>2, CipherIs, ChainingAssumption DEF ChainInv, TypeOK
    <3> QED
      BY <1>1, <1>3, <3>1, <3>2 DEF OutOK
  <2> QED
    BY <1>1, <2>1, <2>2, <2>3, <2>4 DEF ChainInv, TypeOK
<1>5. Flow'
  BY <1>0, <1>1, <1>3 DEF Flow, Program
<1>6. Waiting'
  BY <1>1 DEF Waiting, Hashing, hashing
<1>7. DataFollows'
  BY <1>0, <1>1, <1>2 DEF DataFollows
<1>8. ScheduleExpands'
  <2>1. \A k \in 0 .. 10 : schedule'[k] = IF k = round THEN keyData ELSE schedule[k]
    BY <1>0, <1>1, <1>2
  <2>2. schedule'[0] = XorBlocks(material, TKey)
    BY <1>0, <2>1 DEF ChainInv, DataFollows, ScheduleExpands
  <2>3. ASSUME NEW k \in 0 .. 9, k + 1 < round + 1
        PROVE  Expands(k, schedule'[k], schedule'[k + 1])
    <3>1. CASE k + 1 = round
      BY <1>0, <2>1, <3>1 DEF ChainInv, DataFollows
    <3>2. CASE k + 1 < round
      BY <1>0, <2>1, <3>2 DEF ChainInv, ScheduleExpands
    <3> QED
      BY <1>0, <2>3, <3>1, <3>2
  <2> QED
    BY <1>1, <2>2, <2>3 DEF ScheduleExpands
<1>9. InPlace'
  <2>1. Cipher' = Cipher
    BY <1>1 DEF Cipher
  <2>2. \A b \in Blocks(program) : Decrypted(b)' = Decrypted(b)
    BY <1>1 DEF Decrypted
  <2>3. \A b \in Blocks(program)' : Decrypted(b)' => out'[b] \in Block
    BY <1>1, <2>2 DEF ChainInv, InPlace
  <2>4. phase' # "chain"
    BY <1>3
  <2>5. phase' = "cycle" => program = "decrypt_sap"
    BY <1>3
  <2>6. program = "decrypt_sap" => \A b \in Blocks(program) : b <= i => out[b] = Cipher[b]
    BY <1>0 DEF ChainInv, InPlace
  <2> QED
    BY <1>1, <2>1, <2>3, <2>4, <2>5, <2>6 DEF InPlace
<1> QED
  BY <1>4, <1>5, <1>6, <1>7, <1>8, <1>9 DEF ChainInv

(* The steps that come after a schedule leave it alone.                    *)
LEMMA ScheduleKept ==
  ASSUME ChainInv, ~Hashing, UNCHANGED <<program, mode, text, material, keyData, schedule, round>>,
         UNCHANGED hashing
  PROVE  /\ (program \in Program /\ mode \in Mode /\ text \in [0 .. 15 -> Block])'
         /\ (material \in Block /\ ScheduleOK)'
         /\ Waiting' /\ DataFollows' /\ ScheduleExpands'
<1>1. (program \in Program /\ mode \in Mode /\ text \in [0 .. 15 -> Block])'
  BY DEF ChainInv, TypeOK
<1>2. (material \in Block /\ ScheduleOK)'
  BY DEF ChainInv, TypeOK, ScheduleOK
<1>3. Waiting'
  BY DEF Waiting, Hashing, hashing
<1>4. DataFollows' /\ ScheduleExpands'
  BY DEF ChainInv, DataFollows, ScheduleExpands
<1> QED
  BY <1>1, <1>2, <1>3, <1>4

LEMMA WhitenKeepsChain ==
  ASSUME ChainInv, ~Hashing, Whiten, UNCHANGED hashing
  PROVE  ChainInv'
<1>0. /\ phase = "whiten" /\ program \in Program /\ program # "decryptMessage"
      /\ round = (IF program = "decrypt_sap" THEN 0 ELSE 11)
      /\ i = IF program = "decrypt_sap" THEN 15 ELSE 0
  BY DEF Whiten, ChainInv, TypeOK, Flow
<1>1. /\ UNCHANGED <<program, mode, text, material, keyData, schedule, round, i>>
      /\ phase' = IF program = "decrypt_sap" THEN "schedule" ELSE "cycle"
  BY DEF Whiten
<1>2. Cipher \in [Blocks(program) -> Block] /\ Cipher' = Cipher
  <2>1. Cipher' = Cipher
    BY <1>1 DEF Cipher
  <2> QED
    BY <1>0, <2>1, CipherIs DEF ChainInv, TypeOK
<1>3. out' = Cipher
  BY <1>0, <1>1 DEF Whiten, Cipher
<1>4. /\ (program \in Program /\ mode \in Mode /\ text \in [0 .. 15 -> Block])'
      /\ (material \in Block /\ ScheduleOK)'
      /\ Waiting' /\ DataFollows' /\ ScheduleExpands'
  BY <1>1, ScheduleKept
<1>5. RoundOK' /\ PhaseOK'
  BY <1>0, <1>1 DEF RoundOK, PhaseOK
<1>6. IndexOK'
  BY <1>0, <1>1, BlocksAre DEF IndexOK, Program
<1>7. OutOK'
  BY <1>1, <1>2, <1>3, ChainingAssumption DEF OutOK
<1>8. Flow'
  BY <1>0, <1>1 DEF Flow
<1>9. InPlace'
  <2>1. \A b \in Blocks(program) : out'[b] = Cipher[b] /\ out'[b] \in Block
    BY <1>2, <1>3
  <2>2. phase' # "chain"
    BY <1>1
  <2> QED
    BY <1>1, <1>2, <2>1, <2>2 DEF InPlace
<1> QED
  BY <1>4, <1>5, <1>6, <1>7, <1>8, <1>9 DEF ChainInv, TypeOK

LEMMA CycleKeepsChain ==
  ASSUME ChainInv, ~Hashing, CycleBlock, UNCHANGED hashing
  PROVE  ChainInv'
<1>0. /\ phase = "cycle" /\ program \in Program /\ program # "decryptMessage"
      /\ round = 11 /\ i \in Blocks(program) /\ i \in -1 .. 15
      /\ out \in [Blocks(program) -> Block \cup {Unset}]
  BY DEF CycleBlock, ChainInv, TypeOK, Flow, IndexOK, OutOK, PhaseOK
<1>1. /\ UNCHANGED <<program, mode, text, material, keyData, schedule, round, i>>
      /\ phase' = "chain"
      /\ out' = [out EXCEPT ![i] = Cycle(schedule)[out[i]]]
  BY DEF CycleBlock
<1>2. /\ Cipher \in [Blocks(program) -> Block] /\ Cipher' = Cipher
      /\ \A b \in Blocks(program) : b <= i => out[b] = Cipher[b]
  <2>1. Cipher' = Cipher
    BY <1>1 DEF Cipher
  <2> QED
    BY <1>0, <2>1, CipherIs DEF ChainInv, TypeOK, InPlace
<1>3. /\ out'[i] = Cycle(schedule)[Cipher[i]] /\ out'[i] \in Block
      /\ \A b \in Blocks(program) : b # i => out'[b] = out[b]
      /\ out' \in [Blocks(program) -> Block \cup {Unset}]
  <2>1. out[i] = Cipher[i]
    BY <1>0, <1>2
  <2>2. Cycle(schedule)[Cipher[i]] \in Block
    BY <1>0, <1>2, CycleIs
  <2> QED
    BY <1>0, <1>1, <2>1, <2>2
<1>4. /\ (program \in Program /\ mode \in Mode /\ text \in [0 .. 15 -> Block])'
      /\ (material \in Block /\ ScheduleOK)'
      /\ Waiting' /\ DataFollows' /\ ScheduleExpands'
  BY <1>1, ScheduleKept
<1>5. RoundOK' /\ PhaseOK'
  BY <1>0, <1>1 DEF RoundOK, PhaseOK
<1>6. IndexOK'
  BY <1>0, <1>1 DEF IndexOK
<1>7. OutOK'
  BY <1>0, <1>1, <1>3, ChainingAssumption DEF ChainInv, TypeOK, OutOK
<1>8. Flow'
  BY <1>0, <1>1 DEF Flow
<1>9. InPlace'
  <2>1. \A b \in Blocks(program) : b < i => out'[b] = Cipher[b]
    BY <1>0, <1>2, <1>3, BlocksAre DEF Program
  <2>2. \A b \in Blocks(program) : Decrypted(b)' = Decrypted(b)
    BY <1>0, <1>1 DEF Decrypted
  <2>3. \A b \in Blocks(program) : Decrypted(b)' => out'[b] \in Block
    BY <1>3, <2>2 DEF ChainInv, InPlace
  <2> QED
    BY <1>1, <1>2, <1>3, <2>1, <2>3 DEF InPlace
<1> QED
  BY <1>4, <1>5, <1>6, <1>7, <1>8, <1>9 DEF ChainInv, TypeOK

LEMMA ChainKeepsChain ==
  ASSUME ChainInv, ~Hashing, ChainBlock, UNCHANGED hashing
  PROVE  ChainInv'
<1>0. /\ phase = "chain" /\ program \in Program /\ program # "decryptMessage"
      /\ round = 11 /\ i \in Blocks(program) /\ i \in -1 .. 15
      /\ out \in [Blocks(program) -> Block \cup {Unset}]
  BY DEF ChainBlock, ChainInv, TypeOK, Flow, IndexOK, OutOK, PhaseOK
<1>1. /\ UNCHANGED <<program, mode, text, material, keyData, schedule, round>>
      /\ i' = i - 1
      /\ phase' = (IF i > 0 THEN "cycle" ELSE "grind")
      /\ out' = [out EXCEPT ![i] = XorBlocks(out[i], Vector)]
  BY DEF ChainBlock
<1>2. /\ Cipher' = Cipher
      /\ \A b \in Blocks(program) : b < i => out[b] = Cipher[b]
  <2>1. Cipher' = Cipher
    BY <1>1 DEF Cipher
  <2> QED
    BY <1>0, <2>1 DEF ChainInv, InPlace
<1>3. /\ out'[i] \in Block
      /\ \A b \in Blocks(program) : b # i => out'[b] = out[b]
      /\ out' \in [Blocks(program) -> Block \cup {Unset}]
  BY <1>0, <1>1, XorIsBlock
<1>4. /\ (program \in Program /\ mode \in Mode /\ text \in [0 .. 15 -> Block])'
      /\ (material \in Block /\ ScheduleOK)'
      /\ Waiting' /\ DataFollows' /\ ScheduleExpands'
  BY <1>1, ScheduleKept
<1>5. RoundOK' /\ PhaseOK'
  BY <1>0, <1>1 DEF RoundOK, PhaseOK
<1>6. i >= 0 /\ (i > 0 => i - 1 \in Blocks(program)) /\ \A b \in Blocks(program) : b \in 0 .. 15
  BY <1>0, BlocksAre DEF Program
<1>7. IndexOK'
  BY <1>0, <1>1, <1>6 DEF IndexOK
<1>8. OutOK'
  BY <1>0, <1>1, <1>3, ChainingAssumption DEF ChainInv, TypeOK, OutOK
<1>9. Flow'
  BY <1>0, <1>1, <1>6 DEF Flow
<1>10. InPlace'
  <2>1. \A b \in Blocks(program) : b <= i' => out'[b] = Cipher[b]
    BY <1>0, <1>1, <1>2, <1>3, <1>6
  <2>2. \A b \in Blocks(program) : Decrypted(b)' <=> (b = i \/ Decrypted(b))
    BY <1>0, <1>1, <1>6 DEF Decrypted
  <2>3. \A b \in Blocks(program) : Decrypted(b)' => out'[b] \in Block
    BY <1>3, <2>2 DEF ChainInv, InPlace
  <2>4. phase' # "chain"
    BY <1>1
  <2> QED
    BY <1>1, <1>2, <2>1, <2>3, <2>4 DEF InPlace
<1> QED
  BY <1>4, <1>5, <1>7, <1>8, <1>9, <1>10 DEF ChainInv, TypeOK

LEMMA GrindKeepsChain ==
  ASSUME ChainInv, ~Hashing, Grind, UNCHANGED hashing
  PROVE  ChainInv'
<1>0. phase = "grind" /\ program # "decryptMessage" /\ round = 11 /\ i = -1
  BY DEF Grind, ChainInv, TypeOK, Flow, PhaseOK
<1>1. /\ UNCHANGED <<program, mode, text, material, keyData, schedule, round, i>>
      /\ phase' = "done"
      /\ out' = [b \in Blocks(program) |-> XorBlocks(out[b], Grinder)]
  BY DEF Grind
<1>2. out' \in [Blocks(program) -> Block]
  BY <1>1, XorIsBlock
<1>3. /\ (program \in Program /\ mode \in Mode /\ text \in [0 .. 15 -> Block])'
      /\ (material \in Block /\ ScheduleOK)'
      /\ Waiting' /\ DataFollows' /\ ScheduleExpands'
  BY <1>1, ScheduleKept
<1>4. RoundOK' /\ PhaseOK' /\ IndexOK'
  BY <1>0, <1>1 DEF RoundOK, PhaseOK, IndexOK
<1>5. OutOK'
  BY <1>1, <1>2, ChainingAssumption DEF OutOK
<1>6. Flow'
  BY <1>0, <1>1 DEF Flow
<1>7. InPlace'
  BY <1>1, <1>2 DEF InPlace
<1> QED
  BY <1>3, <1>4, <1>5, <1>6, <1>7 DEF ChainInv, TypeOK

LEMMA DecryptKeepsChain ==
  ASSUME ChainInv, ~Hashing, DecryptBlock, UNCHANGED hashing
  PROVE  ChainInv'
<1>0. /\ phase = "block" /\ program = "decryptMessage" /\ round = 11 /\ i \in 0 .. 7
      /\ out \in [0 .. 7 -> Block \cup {Unset}]
  BY BlocksAre DEF DecryptBlock, ChainInv, TypeOK, Flow, PhaseOK, IndexOK, OutOK
<1>1. /\ UNCHANGED <<program, mode, text, material, keyData, schedule, round>>
      /\ i' = i + 1
      /\ phase' = (IF i < 7 THEN "block" ELSE "done")
      /\ out' = [out EXCEPT ![Target] = XorBlocks(MessageBlock(mode)[text[Copied]], Previous)]
  BY DEF DecryptBlock
<1>2. /\ Target \in 0 .. 7 /\ out'[Target] \in Block
      /\ \A b \in 0 .. 7 : b # Target => out'[b] = out[b]
      /\ out' \in [0 .. 7 -> Block \cup {Unset}]
  <2>1. Target \in 0 .. 7
    BY <1>0 DEF Target
  <2> QED
    BY <1>0, <1>1, <2>1, XorIsBlock
<1>3. /\ (program \in Program /\ mode \in Mode /\ text \in [0 .. 15 -> Block])'
      /\ (material \in Block /\ ScheduleOK)'
      /\ Waiting' /\ DataFollows' /\ ScheduleExpands'
  BY <1>1, ScheduleKept
<1>4. RoundOK' /\ PhaseOK' /\ IndexOK'
  BY <1>0, <1>1, BlocksAre DEF RoundOK, PhaseOK, IndexOK
<1>5. OutOK'
  BY <1>0, <1>1, <1>2, BlocksAre DEF OutOK
<1>6. Flow'
  BY <1>0, <1>1 DEF Flow
<1>7. InPlace'
  <2>1. \A b \in 0 .. 7 : Decrypted(b)' <=> (b = Target \/ Decrypted(b))
    BY <1>0, <1>1 DEF Decrypted, Target
  <2>2. \A b \in 0 .. 7 : Decrypted(b)' => out'[b] \in Block
    BY <1>0, <1>2, <2>1, BlocksAre DEF ChainInv, InPlace
  <2>3. phase' \notin {"cycle", "chain"} /\ program' # "decrypt_sap"
    BY <1>0, <1>1
  <2> QED
    BY <1>0, <1>1, <2>2, <2>3, BlocksAre DEF InPlace
<1> QED
  BY <1>3, <1>4, <1>5, <1>6, <1>7 DEF ChainInv, TypeOK

LEMMA StutterKeepsChain ==
  ASSUME ChainInv, UNCHANGED <<vars, hashing>>
  PROVE  ChainInv'
<1>1. /\ UNCHANGED <<program, mode, text, material, keyData, schedule, round, i, phase, out>>
      /\ UNCHANGED hashPhase
  BY DEF vars, hashing
<1>2. TypeOK'
  BY <1>1 DEF ChainInv, TypeOK, RoundOK, PhaseOK, ScheduleOK, IndexOK, OutOK
<1>3. Flow' /\ DataFollows' /\ ScheduleExpands'
  BY <1>1 DEF ChainInv, Flow, DataFollows, ScheduleExpands
<1>4. Waiting'
  BY <1>1 DEF ChainInv, Waiting, Hashing
<1>5. InPlace'
  BY <1>1 DEF ChainInv, InPlace, Cipher, Decrypted
<1> QED
  BY <1>2, <1>3, <1>4, <1>5 DEF ChainInv

LEMMA ChainKept ==
  ASSUME ChainInv, [CallNext]_<<vars, hashing>>
  PROVE  ChainInv'
<1>1. CASE GenerateSessionKey
  BY <1>1, SessionKeyKeepsChain
<1>2. CASE Decrypting
  <2>1. ~Hashing /\ UNCHANGED hashing /\ Next
    BY <1>2 DEF Decrypting
  <2>2. CASE ExpandKey
    BY <2>1, <2>2, ExpandKeepsChain
  <2>3. CASE Whiten
    BY <2>1, <2>3, WhitenKeepsChain
  <2>4. CASE CycleBlock
    BY <2>1, <2>4, CycleKeepsChain
  <2>5. CASE ChainBlock
    BY <2>1, <2>5, ChainKeepsChain
  <2>6. CASE Grind
    BY <2>1, <2>6, GrindKeepsChain
  <2>7. CASE DecryptBlock
    BY <2>1, <2>7, DecryptKeepsChain
  <2>8. CASE Returned
    BY <2>1, <2>8, StutterKeepsChain DEF Returned
  <2> QED
    BY <2>1, <2>2, <2>3, <2>4, <2>5, <2>6, <2>7, <2>8 DEF Next
<1>3. CASE UNCHANGED <<vars, hashing>>
  BY <1>3, StutterKeepsChain
<1> QED
  BY <1>1, <1>2, <1>3 DEF CallNext

LEMMA ChainInvariance == CallSpec => []ChainInv
<1>1. CallInit => ChainInv
  BY ChainAtStart DEF CallInit
<1>2. ChainInv /\ [CallNext]_<<vars, hashing>> => ChainInv'
  BY ChainKept
<1> QED
  BY <1>1, <1>2, PTL DEF CallSpec

(* TypeOK of the decryptions: memory is written before it is cycled,       *)
(* chained or ground, and the index stays within the blocks.               *)
THEOREM DecryptionTypes == CallSpec => []TypeOK
  BY ChainInvariance, PTL DEF ChainInv

(* ScheduleExpands: the key schedule made in place is a key expansion.     *)
THEOREM KeyExpansion == CallSpec => []ScheduleExpands
  BY ChainInvariance, PTL DEF ChainInv

-----------------------------------------------------------------------------
(* The four programs implement CBCDecryption                               *)

(* What a decryption step owes: block c becomes what the cipher makes of   *)
(* it, and nothing else of the plain text changes.                         *)
LEMMA PlainIs ==
  /\ DOMAIN Plain = Blocks(program)
  /\ \A b \in Blocks(program) : ~Decrypted(b) => Plain[b] = Unset
  /\ \A b \in Blocks(program) :
       Decrypted(b) => Plain[b] = IF phase = "done" /\ program # "decryptMessage"
                                  THEN XorBlocks(out[b], Grinder) ELSE out[b]
  BY DEF Plain

LEMMA NothingDecrypted ==
  ASSUME ChainInv, phase \in {"schedule", "whiten"}
  PROVE  Plain = [b \in Blocks(program) |-> Unset]
<1>1. \A b \in Blocks(program) : ~Decrypted(b)
  BY BlocksAre DEF ChainInv, Flow, TypeOK, Program, Decrypted
<1> QED
  BY <1>1, PlainIs DEF Plain

LEMMA StartsCBC == ASSUME Init PROVE CBC!Init
<1>1. Plain = [b \in Blocks(program) |-> Unset]
  BY DEF Init, Plain, Decrypted, Blocks, Program
<1>2. DOMAIN Cipher = Blocks(program)
  BY DEF Cipher
<1>3. phase # "done"
  BY DEF Init
<1> QED
  BY <1>1, <1>2, <1>3 DEF CBC!Init

CBCVars ==
  << [program |-> program, mode |-> mode, keys |-> schedule], Cipher, InitialVector, Plain,
     phase = "done" >>

LEMMA SessionKeyStutters ==
  ASSUME UNCHANGED <<program, mode, text, schedule, i, phase, out>>
  PROVE  UNCHANGED CBCVars
<1>1. Cipher' = Cipher /\ InitialVector' = InitialVector
  BY DEF Cipher, InitialVector
<1>2. Plain' = Plain
  BY DEF Plain, Decrypted, Grinder
<1> QED
  BY <1>1, <1>2 DEF CBCVars

LEMMA ExpandPrepares ==
  ASSUME ChainInv, ChainInv', ExpandKey
  PROVE  CBC!Next
<1>1. /\ phase = "schedule" /\ phase' \in {"schedule", "block", "cycle", "whiten"}
      /\ UNCHANGED <<program, mode, text, i, out>>
  BY DEF ExpandKey, ChainInv, TypeOK, RoundOK
<1>2. Cipher' = Cipher /\ InitialVector' = InitialVector
  BY <1>1 DEF Cipher, InitialVector
<1>3. Plain' = Plain
  BY <1>1 DEF Plain, Decrypted, Grinder
<1>4. Plain = [b \in Blocks(program) |-> Unset]
  BY <1>1, NothingDecrypted
<1>5. \A b \in DOMAIN Plain : Plain[b] = Unset
  BY <1>4
<1>6. CBC!Prepare
  BY <1>2, <1>3, <1>5 DEF CBC!Prepare
<1> QED
  BY <1>1, <1>6 DEF CBC!Next

LEMMA WhitenStutters ==
  ASSUME ChainInv, ChainInv', Whiten
  PROVE  UNCHANGED CBCVars
<1>1. /\ phase = "whiten" /\ phase' \in {"schedule", "cycle"}
      /\ UNCHANGED <<program, mode, text, schedule, i>>
  BY DEF Whiten
<1>2. Cipher' = Cipher /\ InitialVector' = InitialVector
  BY <1>1 DEF Cipher, InitialVector
<1>3. Plain = [b \in Blocks(program) |-> Unset]
  BY <1>1, NothingDecrypted
<1>4. \A b \in Blocks(program) : ~Decrypted(b)
  BY <1>1, BlocksAre DEF ChainInv, Flow, TypeOK, Program, Decrypted
<1>5. \A b \in Blocks(program) : ~Decrypted(b)'
  BY <1>1, <1>4 DEF Decrypted
<1>6. Plain' = [b \in Blocks(program) |-> Unset]
  BY <1>1, <1>5 DEF Plain
<1> QED
  BY <1>1, <1>2, <1>3, <1>6 DEF CBCVars

LEMMA CycleStutters ==
  ASSUME ChainInv, ChainInv', CycleBlock
  PROVE  UNCHANGED CBCVars
<1>1. /\ phase = "cycle" /\ phase' = "chain" /\ program # "decryptMessage"
      /\ UNCHANGED <<program, mode, text, schedule, i>>
      /\ \A b \in Blocks(program) : b # i => out'[b] = out[b]
  BY DEF CycleBlock, ChainInv, Flow, TypeOK, OutOK
<1>2. Cipher' = Cipher /\ InitialVector' = InitialVector
  BY <1>1 DEF Cipher, InitialVector
<1>3. \A b \in Blocks(program) : Decrypted(b)' = Decrypted(b) /\ (Decrypted(b) => b # i)
  BY <1>1, BlocksAre DEF Decrypted, ChainInv, TypeOK, IndexOK, Program
<1>4. \A b \in Blocks(program) : Plain'[b] = Plain[b]
  BY <1>1, <1>3 DEF Plain
<1>5. Plain' = Plain
  BY <1>1, <1>4 DEF Plain
<1> QED
  BY <1>1, <1>2, <1>5 DEF CBCVars

(* A step that decrypts block c, when it does what CBCDecryption asks.     *)
LEMMA DecryptStep ==
  ASSUME NEW c \in Blocks(program),
         ChainInv, UNCHANGED <<program, mode, text, schedule>>,
         phase # "done", ~Decrypted(c),
         \A b \in Blocks(program) : Decrypted(b)' <=> (b = c \/ Decrypted(b)),
         \A b \in Blocks(program) : b # c => Plain'[b] = Plain[b],
         Plain'[c] \in Block,
         Plain'[c] = XorBlocks(Reference([program |-> program, mode |-> mode, keys |-> schedule],
                                         Cipher[c]), CBC!Before(c)),
         phase' = "done" => \A b \in Blocks(program) : Plain'[b] # Unset
  PROVE  CBC!Next
<1>1. Cipher' = Cipher /\ InitialVector' = InitialVector
  BY DEF Cipher, InitialVector
<1>2. DOMAIN Plain = Blocks(program) /\ DOMAIN Plain' = Blocks(program)
  BY DEF Plain
<1>3. Plain[c] = Unset /\ Plain'[c] # Unset
  BY ChainingAssumption DEF Plain
<1>4. Plain' = [Plain EXCEPT ![c] = Plain'[c]]
  <2>1. Plain' = [b \in Blocks(program) |-> Plain'[b]]
    BY DEF Plain
  <2>2. [Plain EXCEPT ![c] = Plain'[c]] = [b \in Blocks(program) |-> Plain'[b]]
    BY <1>2
  <2> QED
    BY <2>1, <2>2
<1>5. CBC!Decrypt(c)
  BY <1>1, <1>3, <1>4 DEF CBC!Decrypt
<1>6. phase' # "done" \/ CBC!Return
  BY <1>2 DEF CBC!Return
<1> QED
  BY <1>2, <1>5, <1>6 DEF CBC!Next

LEMMA ChainDecrypts ==
  ASSUME ChainInv, ChainInv', ChainBlock
  PROVE  CBC!Next
<1>0. /\ phase = "chain" /\ program \in Program /\ program # "decryptMessage"
      /\ i \in Blocks(program) /\ i \in -1 .. 15
      /\ out \in [Blocks(program) -> Block \cup {Unset}] /\ text \in [0 .. 15 -> Block]
      /\ out[i] = Cycle(schedule)[Cipher[i]]
      /\ \A b \in Blocks(program) : b < i => out[b] = Cipher[b]
  BY DEF ChainBlock, ChainInv, TypeOK, Flow, IndexOK, OutOK, InPlace
<1>1. /\ UNCHANGED <<program, mode, text, schedule>>
      /\ i' = i - 1
      /\ phase' = (IF i > 0 THEN "cycle" ELSE "grind")
      /\ out' = [out EXCEPT ![i] = XorBlocks(out[i], Vector)]
  BY DEF ChainBlock
<1>2. Cipher \in [Blocks(program) -> Block]
  BY <1>0, CipherIs
<1>3. Vector = CBC!Before(i)
  <2>1. CASE program # "decrypt_sap"
    <3>1. i = 0
      BY <1>0, <2>1, BlocksAre DEF Program
    <3>2. Vector = text[0] /\ InitialVector = text[0]
      BY <1>0, <2>1 DEF Vector, InitialVector
    <3> QED
      BY <3>1, <3>2 DEF CBC!Before
  <2>2. CASE program = "decrypt_sap" /\ i > 0
    <3>1. i - 1 \in Blocks(program) /\ i - 1 < i /\ i # 0
      BY <1>0, <2>2, BlocksAre
    <3>2. Vector = Cipher[i - 1]
      BY <1>0, <2>2, <3>1 DEF Vector
    <3> QED
      BY <3>1, <3>2 DEF CBC!Before
  <2>3. CASE program = "decrypt_sap" /\ ~(i > 0)
    <3>1. i = 0
      BY <1>0, <2>3, BlocksAre
    <3>2. Vector = SapIV /\ InitialVector = SapIV
      BY <2>3 DEF Vector, InitialVector
    <3> QED
      BY <3>1, <3>2 DEF CBC!Before
  <2> QED
    BY <2>1, <2>2, <2>3
<1>4. \A b \in Blocks(program) : /\ Decrypted(b)' <=> (b = i \/ Decrypted(b))
                                 /\ Decrypted(b) => b # i
  <2>1. \A b \in Blocks(program) : b \in 0 .. 15
    BY <1>0, BlocksAre DEF Program
  <2> QED
    BY <1>0, <1>1, <2>1 DEF Decrypted
<1>5. out'[i] = XorBlocks(out[i], Vector) /\ \A b \in Blocks(program) : b # i => out'[b] = out[b]
  BY <1>0, <1>1
<1>6. \A b \in Blocks(program) : b # i => Plain'[b] = Plain[b]
  BY <1>0, <1>1, <1>4, <1>5 DEF Plain
<1>7. Plain'[i] = out'[i]
  BY <1>0, <1>1, <1>4 DEF Plain
<1>8. out[i] = Reference([program |-> program, mode |-> mode, keys |-> schedule], Cipher[i])
  BY <1>0, <1>2, CycleIs DEF Reference
<1>9. Plain'[i] \in Block /\ Plain'[i] = XorBlocks(out[i], CBC!Before(i))
  BY <1>3, <1>5, <1>7, XorIsBlock
<1>10. phase # "done" /\ phase' # "done" /\ ~Decrypted(i)
  BY <1>0, <1>1, <1>4
<1> QED
  BY <1>0, <1>1, <1>4, <1>6, <1>8, <1>9, <1>10, DecryptStep

(* The message is decrypted from either end, with the block before each in *)
(* the message; block 0 of the message is no part of the cipher text.      *)
LEMMA MessageDecrypts ==
  ASSUME ChainInv, ChainInv', DecryptBlock
  PROVE  CBC!Next
<1>0. /\ phase = "block" /\ program = "decryptMessage" /\ i \in 0 .. 7
      /\ mode \in Mode /\ Mode = 0 .. 3 /\ text \in [0 .. 15 -> Block]
      /\ out \in [0 .. 7 -> Block \cup {Unset}] /\ Blocks(program) = 0 .. 7
  BY BlocksAre, BlockAssumption DEF DecryptBlock, ChainInv, TypeOK, Flow, IndexOK, OutOK
<1>1. /\ UNCHANGED <<program, mode, text, schedule>>
      /\ i' = i + 1
      /\ phase' = (IF i < 7 THEN "block" ELSE "done")
      /\ out' = [out EXCEPT ![Target] = XorBlocks(MessageBlock(mode)[text[Copied]], Previous)]
  BY DEF DecryptBlock
<1>2. Target \in 0 .. 7 /\ Copied = Target + 1
  BY <1>0 DEF Target, Copied
<1>3. Cipher = [b \in 0 .. 7 |-> text[b + 1]]
  BY <1>0 DEF Cipher
<1>4. Previous = CBC!Before(Target)
  <2>1. CASE mode = 3 /\ i < 7
    <3>1. Previous = text[7 - i] /\ Target = 7 - i /\ Target # 0 /\ Target - 1 \in 0 .. 7
      BY <1>0, <2>1 DEF Previous, Target
    <3>2. Cipher[Target - 1] = text[Target]
      BY <1>3, <3>1
    <3> QED
      BY <3>1, <3>2 DEF CBC!Before
  <2>2. CASE mode # 3 /\ i > 0
    <3>1. Previous = text[i] /\ Target = i /\ Target # 0 /\ Target - 1 \in 0 .. 7
      BY <1>0, <2>2 DEF Previous, Target
    <3>2. Cipher[Target - 1] = text[Target]
      BY <1>3, <3>1
    <3> QED
      BY <3>1, <3>2 DEF CBC!Before
  <2>3. CASE ~(mode = 3 /\ i < 7) /\ ~(mode # 3 /\ i > 0)
    <3>1. Previous = MessageIV[mode] /\ Target = 0 /\ InitialVector = MessageIV[mode]
      BY <1>0, <2>3 DEF Previous, Target, InitialVector
    <3> QED
      BY <3>1 DEF CBC!Before
  <2> QED
    BY <2>1, <2>2, <2>3
<1>5. /\ ~Decrypted(Target)
      /\ \A b \in 0 .. 7 : Decrypted(b)' <=> (b = Target \/ Decrypted(b))
  BY <1>0, <1>1 DEF Decrypted, Target
<1>6. /\ out'[Target] = XorBlocks(MessageBlock(mode)[text[Copied]], Previous)
      /\ \A b \in 0 .. 7 : b # Target => out'[b] = out[b]
  BY <1>0, <1>1, <1>2
<1>7. Plain'[Target] = out'[Target] /\ \A b \in 0 .. 7 : b # Target => Plain'[b] = Plain[b]
  BY <1>0, <1>1, <1>2, <1>5, <1>6 DEF Plain
<1>8. MessageBlock(mode)[text[Copied]]
        = Reference([program |-> program, mode |-> mode, keys |-> schedule], Cipher[Target])
  <2>1. Copied \in 0 .. 15 /\ Cipher[Target] = text[Copied]
    BY <1>2, <1>3
  <2>2. MessageBlock(mode)[text[Copied]] = MessageReference(mode)[text[Copied]]
    BY <1>0, <2>1, MessageBlockIs
  <2> QED
    BY <1>0, <2>1, <2>2 DEF Reference
<1>9. Plain'[Target] \in Block
  BY <1>6, <1>7, XorIsBlock
<1>10. phase' = "done" => \A b \in 0 .. 7 : Plain'[b] # Unset
  <2>1. phase' = "done" => \A b \in 0 .. 7 : Decrypted(b)'
    BY <1>0, <1>1 DEF Decrypted
  <2>2. \A b \in 0 .. 7 : Decrypted(b)' => out'[b] \in Block
    BY <1>0, <1>1 DEF ChainInv, InPlace
  <2>3. \A b \in 0 .. 7 : Decrypted(b)' => Plain'[b] = out'[b]
    BY <1>0, <1>1 DEF Plain
  <2> QED
    BY <2>1, <2>2, <2>3, ChainingAssumption
<1> QED
  BY <1>0, <1>1, <1>2, <1>4, <1>5, <1>6, <1>7, <1>8, <1>9, <1>10, DecryptStep

(* The last xor changes no plain text, and every block is there by then.   *)
LEMMA GrindFinishes ==
  ASSUME ChainInv, ChainInv', Grind
  PROVE  CBC!Next
<1>0. /\ phase = "grind" /\ program \in Program /\ program # "decryptMessage" /\ i = -1
  BY DEF Grind, ChainInv, TypeOK, Flow
<1>1. /\ UNCHANGED <<program, mode, text, schedule, i>> /\ phase' = "done"
      /\ out' = [b \in Blocks(program) |-> XorBlocks(out[b], Grinder)]
  BY DEF Grind
<1>2. Cipher' = Cipher /\ InitialVector' = InitialVector /\ Grinder' = Grinder
  BY <1>1 DEF Cipher, InitialVector, Grinder
<1>3. \A b \in Blocks(program) : Decrypted(b) /\ Decrypted(b)'
  BY <1>0, <1>1, BlocksAre DEF Decrypted, Program
<1>4. \A b \in Blocks(program) : out[b] \in Block
  BY <1>3 DEF ChainInv, InPlace
<1>5. \A b \in Blocks(program) : Plain[b] = out[b]
  BY <1>0, <1>3 DEF Plain
<1>6. \A b \in Blocks(program) : Plain'[b] = XorBlocks(out'[b], Grinder)
  BY <1>0, <1>1, <1>2, <1>3 DEF Plain
<1>7. \A b \in Blocks(program) : Plain'[b] = Plain[b]
  BY <1>1, <1>4, <1>5, <1>6, XorBlocksTwice
<1>8. DOMAIN Plain' = Blocks(program) /\ Plain' = Plain
  BY <1>1, <1>7 DEF Plain
<1>9. \A b \in Blocks(program) : Plain'[b] # Unset
  BY <1>4, <1>5, <1>7, ChainingAssumption
<1>10. CBC!Finish
  BY <1>1, <1>2, <1>8, <1>9 DEF CBC!Finish, CBC!Return
<1> QED
  BY <1>0, <1>10 DEF CBC!Next, CBC!Finish

(* Every step of the four programs is one of CBCDecryption or none.        *)
LEMMA StepsImplementCBC ==
  ASSUME ChainInv, ChainInv', [CallNext]_<<vars, hashing>>
  PROVE  CBC!Next \/ UNCHANGED CBCVars
<1>1. CASE GenerateSessionKey
  BY <1>1, SessionKeyStutters DEF GenerateSessionKey
<1>2. CASE UNCHANGED vars
  BY <1>2, SessionKeyStutters DEF vars
<1>3. CASE Next
  BY <1>2, <1>3, ExpandPrepares, WhitenStutters, CycleStutters, ChainDecrypts, GrindFinishes,
     MessageDecrypts DEF Next, Returned
<1> QED
  BY <1>1, <1>2, <1>3 DEF CallNext, Decrypting

(* ImplementsCBC: decryptMessage in both its directions, decrypt_sap in    *)
(* place, decrypt_key and playfair_decrypt decrypt a chain of blocks under *)
(* one key, every block once, whatever the tables, keys and texts.         *)
THEOREM BlockChaining == CallSpec => ImplementsCBC
<1>1. CallInit => CBC!Init
  BY StartsCBC DEF CallInit
<1>2. ChainInv /\ ChainInv' /\ [CallNext]_<<vars, hashing>> => [CBC!Next]_CBCVars
  BY StepsImplementCBC
<1> QED
  BY <1>1, <1>2, ChainInvariance, PTL DEF CallSpec, ImplementsCBC, CBC!Spec, CBCVars

-----------------------------------------------------------------------------
(* The session key                                                         *)

(* What a step of CallNext is for the session key.                         *)
LEMMA HashSteps ==
  ASSUME [CallNext]_<<vars, hashing>>
  PROVE  Hash!Next \/ UNCHANGED hashing
  BY DEF CallNext, GenerateSessionKey, Decrypting

(* The constants, as facts.                                                *)
LEMMA KeyFacts ==
  /\ \A a, b \in Hash!Byte : /\ XorByte(a, b) \in Hash!Byte
                             /\ XorByte(a, b) = XorByte(b, a)
                             /\ XorByte(XorByte(a, b), b) = a
  /\ Garbled \in [0 .. 3 -> [0 .. 209 -> Hash!Byte]]
  /\ Message \subseteq [0 .. 127 -> Hash!Byte]
  /\ StaticSource1 \in [0 .. 16 -> Hash!Byte] /\ StaticSource2 \in [0 .. 46 -> Hash!Byte]
  /\ DefaultSap \in [0 .. 255 -> Hash!Byte]
  /\ [k \in Position |-> Number(InitialSessionKey[k])] \in Hash!KeyBytes
  /\ Swaps \subseteq [1 .. 5 -> Hash!Word \X Hash!Word]
  /\ Unset \notin Hash!Byte /\ Unset \notin Hash!KeyBytes /\ Unset \notin Hash!Tag
  BY CallAssumption DEF Hash!KeyAssumption

(* A step of a loop: the next pass, or the first of the loop that follows. *)
LEMMA LoopIs ==
  ASSUME NEW n, NEW p, Hash!Loop(n, p)
  PROVE  \/ hashIndex + 1 < n /\ hashIndex' = hashIndex + 1 /\ hashPhase' = hashPhase
         \/ ~(hashIndex + 1 < n) /\ hashIndex' = 0 /\ hashPhase' = p
  BY DEF Hash!Loop, Hash!Goto

(* Where the program is: every loop ends at its bound, and there are five  *)
(* rounds.                                                                 *)
Where ==
  /\ hashPhase \in Hash!Phases
  /\ hashIndex \in 0 .. Hash!Bound(hashPhase)
  /\ hashRound \in 0 .. 5
  /\ hashRound = 5 <=> hashPhase \in {"swap", "done"}
  /\ hashPhase = "copy" => hashRound = 0

LEMMA BoundsAre ==
  /\ Hash!Bound("copy") = 3 /\ Hash!Bound("md5") = 63 /\ Hash!Bound("load") = 0
  /\ Hash!Bound("scramble") = 839 /\ Hash!Bound("garble") = 31 /\ Hash!Bound("fill") = 0
  /\ Hash!Bound("fold") = 264 /\ Hash!Bound("unscramble") = 255 /\ Hash!Bound("add") = 0
  /\ Hash!Bound("swap") = 0 /\ Hash!Bound("done") = 0
  BY DEF Hash!Bound

(* Pass number hashIndex of a loop up to last, after which comes p2.       *)
Pass(p1, last, p2) ==
  /\ hashPhase = p1 /\ hashIndex \in 0 .. last /\ hashRound' = hashRound
  /\ \/ hashIndex < last /\ hashIndex' = hashIndex + 1 /\ hashPhase' = p1
     \/ hashIndex = last /\ hashIndex' = 0 /\ hashPhase' = p2

(* The order of the phases.                                                *)
LEMMA Order ==
  ASSUME Where
  PROVE  /\ Hash!Copy => Pass("copy", 3, "md5")
         /\ Hash!MD5Step => Pass("md5", 63, "load")
         /\ Hash!Load => Pass("load", 0, "scramble")
         /\ Hash!Scramble => Pass("scramble", 839, "garble")
         /\ Hash!Garble => Pass("garble", 31, "fill")
         /\ Hash!Fill => Pass("fill", 0, "fold")
         /\ Hash!Fold => Pass("fold", 264, "unscramble")
         /\ Hash!Unscramble => Pass("unscramble", 255, "add")
         /\ Hash!Add => /\ hashPhase = "add" /\ hashRound \in 0 .. 4 /\ hashRound' = hashRound + 1
                        /\ hashIndex' = 0
                        /\ hashPhase' = IF hashRound < 4 THEN "md5" ELSE "swap"
         /\ Hash!Finish => Pass("swap", 0, "done")
         /\ Hash!Returned => UNCHANGED hashing
<1>1. Hash!Copy => Pass("copy", 3, "md5")
  <2> SUFFICES ASSUME Hash!Copy PROVE Pass("copy", 3, "md5")
    OBVIOUS
  <2>1. hashPhase = "copy" /\ Hash!Loop(4, "md5") /\ hashRound' = hashRound
    BY DEF Hash!Copy
  <2> QED
    BY <2>1, LoopIs, BoundsAre DEF Where, Pass
<1>2. Hash!MD5Step => Pass("md5", 63, "load")
  BY LoopIs, BoundsAre DEF Where, Pass, Hash!MD5Step
<1>3. Hash!Load => Pass("load", 0, "scramble")
  BY BoundsAre DEF Where, Pass, Hash!Load, Hash!Goto
<1>4. Hash!Scramble => Pass("scramble", 839, "garble")
  BY LoopIs, BoundsAre DEF Where, Pass, Hash!Scramble
<1>5. Hash!Garble => Pass("garble", 31, "fill")
  BY LoopIs, BoundsAre DEF Where, Pass, Hash!Garble
<1>6. Hash!Fill => Pass("fill", 0, "fold")
  BY BoundsAre DEF Where, Pass, Hash!Fill, Hash!Goto
<1>7. Hash!Fold => Pass("fold", 264, "unscramble")
  BY LoopIs, BoundsAre DEF Where, Pass, Hash!Fold
<1>8. Hash!Unscramble => Pass("unscramble", 255, "add")
  BY LoopIs, BoundsAre DEF Where, Pass, Hash!Unscramble
<1>9. Hash!Add => /\ hashPhase = "add" /\ hashRound \in 0 .. 4 /\ hashRound' = hashRound + 1
                  /\ hashIndex' = 0
                  /\ hashPhase' = IF hashRound < 4 THEN "md5" ELSE "swap"
  BY BoundsAre DEF Where, Hash!Add, Hash!Goto
<1>10. Hash!Finish => Pass("swap", 0, "done")
  BY BoundsAre DEF Where, Pass, Hash!Finish, Hash!Goto
<1>11. Hash!Returned => UNCHANGED hashing
  BY DEF Hash!Returned, Hash!vars, hashing
<1> QED
  BY <1>1, <1>2, <1>3, <1>4, <1>5, <1>6, <1>7, <1>8, <1>9, <1>10, <1>11

LEMMA PassKeepsWhere ==
  ASSUME Where, NEW p1, NEW last \in Nat, NEW p2, Pass(p1, last, p2),
         <<p1, last, p2>> \in
           { <<"copy", 3, "md5">>, <<"md5", 63, "load">>, <<"load", 0, "scramble">>,
             <<"scramble", 839, "garble">>, <<"garble", 31, "fill">>, <<"fill", 0, "fold">>,
             <<"fold", 264, "unscramble">>, <<"unscramble", 255, "add">>, <<"swap", 0, "done">> }
  PROVE  Where'
<1>1. /\ hashPhase' \in Hash!Phases /\ hashRound' \in 0 .. 5
      /\ hashRound' = 5 <=> hashPhase' \in {"swap", "done"}
      /\ hashPhase' = "copy" => hashRound' = 0
  BY DEF Where, Pass, Hash!Phases
<1>2. hashIndex' \in 0 .. last /\ (hashPhase' # p1 => hashIndex' = 0)
  BY DEF Pass
<1>3. Hash!Bound(p1) = last /\ Hash!Bound(p2) \in Nat /\ hashPhase' \in {p1, p2}
  BY BoundsAre DEF Pass
<1>4. hashIndex' \in 0 .. Hash!Bound(hashPhase')
  BY <1>2, <1>3
<1> QED
  BY <1>1, <1>4 DEF Where

LEMMA WhereKept == ASSUME Where, Hash!Next \/ UNCHANGED hashing PROVE Where'
<1>1. CASE UNCHANGED hashing
  BY <1>1 DEF hashing, Where
<1>2. CASE Hash!Add
  BY <1>2, Order, BoundsAre DEF Where, Hash!Phases
<1>3. CASE Hash!Next /\ ~Hash!Add
  BY <1>1, <1>3, Order, PassKeepsWhere DEF Hash!Next
<1> QED
  BY <1>1, <1>2, <1>3

-----------------------------------------------------------------------------
(* newSap                                                                  *)

(* The byte of a source that belongs at k, and how far the copies are.     *)
SourceOf(k) == IF k < 17 THEN "static_source_1"
               ELSE IF k < 145 THEN "message"
               ELSE IF k < 273 THEN "default_sap" ELSE "static_source_2"
Offset(k) == IF k < 17 THEN k ELSE IF k < 273 THEN k - 17 ELSE k - 273
Piece(k) == <<SourceOf(k), Offset(k)>>
Filled ==
  CASE hashPhase = "copy" /\ hashIndex = 0 -> 0
    [] hashPhase = "copy" /\ hashIndex = 1 -> 17
    [] hashPhase = "copy" /\ hashIndex = 2 -> 145
    [] hashPhase = "copy" /\ hashIndex = 3 -> 273
    [] OTHER -> 320
Tiling == newSap = [k \in 0 .. 319 |-> IF k < Filled THEN Piece(k) ELSE Unset]

LEMMA CopiesAre ==
  /\ Hash!Copies[1] = [source |-> "static_source_1", to |-> 0, from |-> 0, count |-> 17]
  /\ Hash!Copies[2] = [source |-> "message", to |-> 17, from |-> 0, count |-> 128]
  /\ Hash!Copies[3] = [source |-> "default_sap", to |-> 145, from |-> 128, count |-> 128]
  /\ Hash!Copies[4] = [source |-> "static_source_2", to |-> 273, from |-> 0, count |-> 47]
  BY DEF Hash!Copies

LEMMA PiecesDiffer ==
  /\ \A k \in 0 .. 319 : Piece(k) # Unset
  /\ \A j, k \in 0 .. 319 : Piece(j) = Piece(k) => j = k
  /\ \A k \in 0 .. 127 : Piece(k + 17) = <<"message", k>>
<1>1. \A k \in 0 .. 319 : Piece(k) \in Hash!Tag
  BY DEF Piece, SourceOf, Offset, Hash!Tag
<1>2. ASSUME NEW j \in 0 .. 319, NEW k \in 0 .. 319, Piece(j) = Piece(k) PROVE j = k
  <2>1. SourceOf(j) = SourceOf(k) /\ Offset(j) = Offset(k)
    BY <1>2 DEF Piece
  <2> QED
    BY <2>1 DEF SourceOf, Offset
<1>3. \A k \in 0 .. 127 : Piece(k + 17) = <<"message", k>>
  BY DEF Piece, SourceOf, Offset
<1>4. Unset \notin Hash!Tag
  BY KeyFacts
<1>5. \A k \in 0 .. 319 : Piece(k) # Unset
  BY <1>1, <1>4
<1> HIDE DEF Piece
<1> QED
  BY <1>2, <1>3, <1>5

LEMMA PiecesAre ==
  /\ \A k \in 0 .. 16 : Piece(k) = <<"static_source_1", k>>
  /\ \A k \in 17 .. 144 : Piece(k) = <<"message", k - 17>>
  /\ \A k \in 145 .. 272 : Piece(k) = <<"default_sap", k - 17>>
  /\ \A k \in 273 .. 319 : Piece(k) = <<"static_source_2", k - 273>>
  BY DEF Piece, SourceOf, Offset

LEMMA TilingKept ==
  ASSUME Where, Tiling, Hash!Next \/ UNCHANGED hashing
  PROVE  Tiling'
<1>1. CASE newSap' = newSap /\ Filled' = Filled
  BY <1>1 DEF Tiling
<1>2. CASE Hash!Copy
  <2>0. Pass("copy", 3, "md5")
    BY <1>2, Order
  <2> DEFINE c == Hash!Copies[hashIndex + 1]
             InCopy(k) == k \in c.to .. c.to + c.count - 1
  <2>1. newSap' = [k \in 0 .. 319 |->
                     IF InCopy(k) THEN <<c.source, c.from + (k - c.to)>> ELSE newSap[k]]
    BY <1>2 DEF Hash!Copy
  <2>2. ASSUME NEW k \in 0 .. 319
        PROVE  newSap'[k] = IF k < Filled' THEN Piece(k) ELSE Unset
    <3>0. newSap[k] = IF k < Filled THEN Piece(k) ELSE Unset
      BY DEF Tiling
    <3>1. CASE hashIndex = 0
      <4>1. Filled = 0 /\ Filled' = 17 /\ c = Hash!Copies[1]
        BY <2>0, <3>1 DEF Pass, Filled
      <4>2. c.source = "static_source_1" /\ c.to = 0 /\ c.from = 0 /\ c.count = 17
        BY <4>1, CopiesAre
      <4> HIDE DEF c
      <4>3. newSap'[k] = IF k \in 0 .. 16 THEN <<"static_source_1", k>> ELSE newSap[k]
        BY <2>1, <4>2
      <4>4. newSap'[k] = IF k \in 0 .. 16 THEN Piece(k) ELSE newSap[k]
        <5>1. k \in 0 .. 16 => Piece(k) = <<"static_source_1", k>>
          BY PiecesAre
        <5> QED
          BY <4>3, <5>1
      <4> QED
        BY <3>0, <4>1, <4>4
    <3>2. CASE hashIndex = 1
      <4>1. Filled = 17 /\ Filled' = 145 /\ c = Hash!Copies[2]
        BY <2>0, <3>2 DEF Pass, Filled
      <4>2. c.source = "message" /\ c.to = 17 /\ c.from = 0 /\ c.count = 128
        BY <4>1, CopiesAre
      <4> HIDE DEF c
      <4>3. newSap'[k] = IF k \in 17 .. 144 THEN <<"message", k - 17>> ELSE newSap[k]
        BY <2>1, <4>2
      <4>4. newSap'[k] = IF k \in 17 .. 144 THEN Piece(k) ELSE newSap[k]
        <5>1. k \in 17 .. 144 => Piece(k) = <<"message", k - 17>>
          BY PiecesAre
        <5> QED
          BY <4>3, <5>1
      <4> QED
        BY <3>0, <4>1, <4>4
    <3>3. CASE hashIndex = 2
      <4>1. Filled = 145 /\ Filled' = 273 /\ c = Hash!Copies[3]
        BY <2>0, <3>3 DEF Pass, Filled
      <4>2. c.source = "default_sap" /\ c.to = 145 /\ c.from = 128 /\ c.count = 128
        BY <4>1, CopiesAre
      <4> HIDE DEF c
      <4>3. newSap'[k] = IF k \in 145 .. 272 THEN <<"default_sap", k - 17>> ELSE newSap[k]
        BY <2>1, <4>2
      <4>4. newSap'[k] = IF k \in 145 .. 272 THEN Piece(k) ELSE newSap[k]
        <5>1. k \in 145 .. 272 => Piece(k) = <<"default_sap", k - 17>>
          BY PiecesAre
        <5> QED
          BY <4>3, <5>1
      <4> QED
        BY <3>0, <4>1, <4>4
    <3>4. CASE hashIndex = 3
      <4>1. Filled = 273 /\ Filled' = 320 /\ c = Hash!Copies[4]
        BY <2>0, <3>4 DEF Pass, Filled
      <4>2. c.source = "static_source_2" /\ c.to = 273 /\ c.from = 0 /\ c.count = 47
        BY <4>1, CopiesAre
      <4> HIDE DEF c
      <4>3. newSap'[k] = IF k \in 273 .. 319 THEN <<"static_source_2", k - 273>> ELSE newSap[k]
        BY <2>1, <4>2
      <4>4. newSap'[k] = IF k \in 273 .. 319 THEN Piece(k) ELSE newSap[k]
        <5>1. k \in 273 .. 319 => Piece(k) = <<"static_source_2", k - 273>>
          BY PiecesAre
        <5> QED
          BY <4>3, <5>1
      <4> QED
        BY <3>0, <4>1, <4>4
    <3> QED
      BY <2>0, <3>1, <3>2, <3>3, <3>4 DEF Pass
  <2>3. newSap' = [k \in 0 .. 319 |-> newSap'[k]]
    BY <2>1
  <2> QED
    BY <2>2, <2>3 DEF Tiling
<1>3. CASE Hash!Next /\ ~Hash!Copy
  <2>1. newSap' = newSap
    BY <1>3 DEF Hash!Next, Hash!MD5Step, Hash!Load, Hash!Scramble, Hash!Garble, Hash!Fill,
       Hash!Fold, Hash!Unscramble, Hash!Add, Hash!Finish, Hash!Returned, Hash!vars
  <2>2. Filled' = Filled
    <3>1. hashPhase # "copy" => hashPhase' # "copy"
      BY <1>3, Order DEF Pass, hashing, Hash!Next
    <3>2. hashPhase = "copy" => UNCHANGED <<hashPhase, hashIndex>>
      BY <1>3, Order DEF Pass, hashing, Hash!Next
    <3> QED
      BY <3>1, <3>2 DEF Filled
  <2> QED
    BY <1>1, <2>1, <2>2
<1>4. CASE UNCHANGED hashing
  BY <1>1, <1>4 DEF hashing, Filled
<1> QED
  BY <1>2, <1>3, <1>4

-----------------------------------------------------------------------------
(* The words of modified_md5                                               *)

TakenAt(j) ==
  CASE j < 16 -> j
    [] j \in 16 .. 31 -> (5 * j + 1) % 16
    [] j \in 32 .. 47 -> (3 * j + 5) % 16
    [] OTHER -> (7 * j) % 16

(* No word is lost by the swaps, and those taken in this quarter are in    *)
(* absorbed: all of them at its end.                                       *)
Absorbing ==
  /\ words \in [Hash!Word -> Hash!Word]
  /\ \A w \in Hash!Word : \E x \in Hash!Word : words[x] = w
  /\ absorbed \subseteq Hash!Word
  /\ hashPhase = "md5" =>
       \A j \in hashIndex - (hashIndex % 16) .. hashIndex - 1 : words[TakenAt(j)] \in absorbed
  /\ (hashPhase = "md5" /\ hashIndex > 0 /\ hashIndex % 16 = 0) \/ hashPhase = "load" =>
       absorbed = Hash!Word

(* In each quarter each of the 16 words is taken.                          *)
LEMMA EveryWordTaken ==
  ASSUME NEW x \in Hash!Word, NEW q \in {0, 16, 32, 48}
  PROVE  \E j \in q .. q + 15 : TakenAt(j) = x
<1>1. CASE q = 0
  <2>1. x \in 0 .. 15 /\ TakenAt(x) = x
    BY DEF Hash!Word, TakenAt
  <2> QED
    BY <1>1, <2>1
<1>2. CASE q = 16
  <2> DEFINE j == 16 + ((13 * x + 3) % 16)
  <2>1. j \in 16 .. 31 /\ (5 * j + 1) % 16 = x
    BY DEF Hash!Word
  <2> QED
    BY <1>2, <2>1 DEF TakenAt
<1>3. CASE q = 32
  <2> DEFINE j == 32 + ((11 * x + 9) % 16)
  <2>1. j \in 32 .. 47 /\ (3 * j + 5) % 16 = x
    BY DEF Hash!Word
  <2> QED
    BY <1>3, <2>1 DEF TakenAt
<1>4. CASE q = 48
  <2> DEFINE j == 48 + ((7 * x) % 16)
  <2>1. j \in 48 .. 63 /\ (7 * j) % 16 = x
    BY DEF Hash!Word
  <2> QED
    BY <1>4, <2>1 DEF TakenAt
<1> QED
  BY <1>1, <1>2, <1>3, <1>4

LEMMA TakenIs ==
  ASSUME hashIndex \in 0 .. 63
  PROVE  Hash!Taken = TakenAt(hashIndex) /\ TakenAt(hashIndex) \in Hash!Word
  BY DEF Hash!Taken, TakenAt, Hash!Word

(* A swap of two words loses none.                                         *)
Onto(f) == f \in [Hash!Word -> Hash!Word] /\ \A w \in Hash!Word : \E x \in Hash!Word : f[x] = w

LEMMA SwapKeepsAll ==
  ASSUME NEW f, Onto(f), NEW p \in Hash!Word \X Hash!Word
  PROVE  Onto(Hash!Swap(f, p))
<1> DEFINE g == Hash!Swap(f, p)
<1>1. p[1] \in Hash!Word /\ p[2] \in Hash!Word
  OBVIOUS
<1>2. /\ g \in [Hash!Word -> Hash!Word]
      /\ g[p[2]] = f[p[1]] /\ g[p[1]] = f[p[2]]
      /\ \A x \in Hash!Word : x # p[1] /\ x # p[2] => g[x] = f[x]
  BY <1>1 DEF Hash!Swap, Onto
<1> HIDE DEF g
<1>3. ASSUME NEW w \in Hash!Word PROVE \E x \in Hash!Word : g[x] = w
  <2>1. PICK x \in Hash!Word : f[x] = w
    BY DEF Onto
  <2> QED
    BY <1>1, <1>2, <2>1
<1> QED
  BY <1>2, <1>3 DEF Onto, g

LEMMA SwapsKeepAll ==
  ASSUME NEW f, Onto(f), NEW s \in Swaps
  PROVE  Onto(Hash!SwapAll(f, s))
<1>1. /\ s[1] \in Hash!Word \X Hash!Word /\ s[2] \in Hash!Word \X Hash!Word
      /\ s[3] \in Hash!Word \X Hash!Word /\ s[4] \in Hash!Word \X Hash!Word
      /\ s[5] \in Hash!Word \X Hash!Word
  <2>1. s \in [1 .. 5 -> Hash!Word \X Hash!Word]
    BY KeyFacts
  <2> QED
    BY <2>1
<1> DEFINE f1 == Hash!Swap(f, s[1])
           f2 == Hash!Swap(f1, s[2])
           f3 == Hash!Swap(f2, s[3])
           f4 == Hash!Swap(f3, s[4])
           f5 == Hash!Swap(f4, s[5])
<1>2. Hash!SwapAll(f, s) = f5
  BY DEF Hash!SwapAll
<1>3. Onto(f1)
  BY <1>1, SwapKeepsAll
<1> HIDE DEF f1
<1>4. Onto(f2)
  BY <1>1, <1>3, SwapKeepsAll
<1> HIDE DEF f2
<1>5. Onto(f3)
  BY <1>1, <1>4, SwapKeepsAll
<1> HIDE DEF f3
<1>6. Onto(f4)
  BY <1>1, <1>5, SwapKeepsAll
<1> HIDE DEF f4
<1>7. Onto(f5)
  BY <1>1, <1>6, SwapKeepsAll
<1> QED
  BY <1>2, <1>7

LEMMA AbsorbingKept ==
  ASSUME Where, Absorbing, Hash!Next \/ UNCHANGED hashing
  PROVE  Absorbing'
<1>1. CASE Hash!MD5Step
  <2>1. Pass("md5", 63, "load") /\ hashIndex \in 0 .. 63
    BY <1>1, Order DEF Pass
  <2>2. Onto(words) /\ TakenAt(hashIndex) \in Hash!Word /\ Hash!Taken = TakenAt(hashIndex)
    BY <2>1, TakenIs DEF Absorbing, Onto
  <2>3. absorbed' = (IF hashIndex % 16 = 0 THEN {} ELSE absorbed) \cup {words[TakenAt(hashIndex)]}
    BY <1>1, <2>2 DEF Hash!MD5Step
  <2>4. Onto(words')
    <3>1. CASE hashIndex = 31
      BY <1>1, <2>2, <3>1, SwapsKeepAll DEF Hash!MD5Step
    <3>2. CASE hashIndex = 63
      <4>1. words' = [w \in Hash!Word |-> w]
        BY <1>1, <3>2 DEF Hash!MD5Step
      <4> QED
        BY <4>1 DEF Onto
    <3>3. CASE hashIndex # 31 /\ hashIndex # 63
      BY <1>1, <2>2, <3>3 DEF Hash!MD5Step
    <3> QED
      BY <3>1, <3>2, <3>3
  <2>5. hashIndex # 31 /\ hashIndex # 63 => words' = words
    BY <1>1 DEF Hash!MD5Step
  <2>6. absorbed' \subseteq Hash!Word
    BY <2>2, <2>3 DEF Absorbing, Onto
  <2> DEFINE q == hashIndex - (hashIndex % 16)
  <2>7. q \in {0, 16, 32, 48} /\ hashIndex \in q .. q + 15
    BY <2>1
  <2> HIDE DEF q
  <2>8. \A j \in q .. hashIndex : words[TakenAt(j)] \in absorbed'
    <3>1. CASE hashIndex % 16 = 0
      <4>1. q = hashIndex
        BY <2>1, <3>1 DEF q
      <4> QED
        BY <2>1, <2>3, <4>1
    <3>2. CASE hashIndex % 16 # 0
      <4>1. \A j \in q .. hashIndex - 1 : words[TakenAt(j)] \in absorbed
        BY <2>1 DEF Absorbing, Pass, q
      <4> QED
        BY <2>1, <2>3, <2>7, <3>2, <4>1
    <3> QED
      BY <3>1, <3>2
  <2>9. ASSUME hashIndex = q + 15 PROVE absorbed' = Hash!Word
    <3>1. ASSUME NEW w \in Hash!Word PROVE w \in absorbed'
      <4>1. PICK x \in Hash!Word : words[x] = w
        BY <2>2 DEF Onto
      <4>2. PICK j \in q .. q + 15 : TakenAt(j) = x
        BY <2>7, EveryWordTaken
      <4> QED
        BY <2>8, <2>9, <4>1, <4>2
    <3> QED
      BY <2>6, <3>1
  <2>10. (hashIndex' % 16 = 0 /\ hashIndex' > 0) \/ hashPhase' = "load" => hashIndex = q + 15
    BY <2>1, <2>7 DEF Pass
  <2>11. hashPhase' = "md5" =>
           \A j \in hashIndex' - (hashIndex' % 16) .. hashIndex' - 1 :
             words'[TakenAt(j)] \in absorbed'
    <3> SUFFICES ASSUME hashPhase' = "md5", hashIndex' % 16 # 0,
                        NEW j \in hashIndex' - (hashIndex' % 16) .. hashIndex' - 1
                 PROVE  words'[TakenAt(j)] \in absorbed'
      BY <2>1 DEF Pass
    <3>1. hashIndex' = hashIndex + 1 /\ hashIndex # 31 /\ hashIndex # 63
      BY <2>1 DEF Pass
    <3>2. hashIndex' - (hashIndex' % 16) = q
      BY <2>1, <3>1 DEF q
    <3>3. j \in q .. hashIndex
      BY <2>1, <2>7, <3>1, <3>2
    <3>4. words[TakenAt(j)] \in absorbed'
      BY <2>8, <3>3
    <3> QED
      BY <2>5, <3>1, <3>4
  <2> QED
    BY <2>1, <2>4, <2>6, <2>9, <2>10, <2>11 DEF Absorbing, Onto, Pass
<1>2. CASE Hash!Next /\ ~Hash!MD5Step
  <2>1. UNCHANGED <<words, absorbed>>
    BY <1>2 DEF Hash!Next, Hash!Copy, Hash!Load, Hash!Scramble, Hash!Garble, Hash!Fill,
       Hash!Fold, Hash!Unscramble, Hash!Add, Hash!Finish, Hash!Returned, Hash!vars, Hash!hashVars
  <2>2. hashPhase' # "load" \/ UNCHANGED hashing
    BY <1>2, Order DEF Hash!Next, Pass
  <2>3. hashPhase' = "md5" => hashIndex' = 0 \/ UNCHANGED hashing
    BY <1>2, Order DEF Hash!Next, Pass
  <2> QED
    BY <2>1, <2>2, <2>3 DEF Absorbing, hashing
<1>3. CASE UNCHANGED hashing
  BY <1>3 DEF Absorbing, hashing
<1> QED
  BY <1>1, <1>2, <1>3

-----------------------------------------------------------------------------
(* buffer3                                                                 *)

(* garble writes every fourth entry but one, in order.                     *)
WriteAt(n) == IF n < 15 THEN 4 * n ELSE 4 * (n + 1)
Entries == {k \in 0 .. 131 : k % 4 = 0 /\ k # 60}
Written ==
  /\ buffer3 \in [0 .. 131 -> Hash!Byte \cup {Unset}]
  /\ hashPhase = "garble" => \A k \in Entries : k < WriteAt(hashIndex) => buffer3[k] # Unset
  /\ hashPhase = "fill" => \A k \in Entries : buffer3[k] # Unset

(* Where a step writes, and that it reads what steps before it wrote.      *)
LEMMA GarbleStepsAre ==
  ASSUME NEW n \in 0 .. 31
  PROVE  /\ Hash!GarbleSteps[n + 1][1] = WriteAt(n)
         /\ \A k \in Hash!GarbleSteps[n + 1][2] : k \in Entries /\ k < WriteAt(n)
<1>1. CASE n \in 0 .. 6
  <2>0. Hash!GarbleSteps[n + 1] = Hash!GarbleFirst[n + 1]
    BY <1>1 DEF Hash!GarbleSteps
  <2> USE DEF Entries, WriteAt, Hash!GarbleFirst
  <2>1. CASE n = 0
    BY <2>0, <2>1
  <2>2. CASE n = 1
    BY <2>0, <2>2
  <2>3. CASE n = 2
    BY <2>0, <2>3
  <2>4. CASE n = 3
    BY <2>0, <2>4
  <2>5. CASE n = 4
    BY <2>0, <2>5
  <2>6. CASE n = 5
    BY <2>0, <2>6
  <2>7. CASE n = 6
    BY <2>0, <2>7
  <2> HIDE DEF Entries, WriteAt, Hash!GarbleFirst
  <2> QED
    BY <1>1, <2>1, <2>2, <2>3, <2>4, <2>5, <2>6, <2>7
<1>2. CASE n \in 7 .. 18
  <2>0. Hash!GarbleSteps[n + 1] = Hash!GarbleSecond[n - 6]
    BY <1>2 DEF Hash!GarbleSteps
  <2> USE DEF Entries, WriteAt, Hash!GarbleSecond
  <2>1. CASE n = 7
    BY <2>0, <2>1
  <2>2. CASE n = 8
    BY <2>0, <2>2
  <2>3. CASE n = 9
    BY <2>0, <2>3
  <2>4. CASE n = 10
    BY <2>0, <2>4
  <2>5. CASE n = 11
    BY <2>0, <2>5
  <2>6. CASE n = 12
    BY <2>0, <2>6
  <2>7. CASE n = 13
    BY <2>0, <2>7
  <2>8. CASE n = 14
    BY <2>0, <2>8
  <2>9. CASE n = 15
    BY <2>0, <2>9
  <2>10. CASE n = 16
    BY <2>0, <2>10
  <2>11. CASE n = 17
    BY <2>0, <2>11
  <2>12. CASE n = 18
    BY <2>0, <2>12
  <2> HIDE DEF Entries, WriteAt, Hash!GarbleSecond
  <2> QED
    BY <1>2, <2>1, <2>2, <2>3, <2>4, <2>5, <2>6, <2>7, <2>8, <2>9, <2>10, <2>11, <2>12
<1>3. CASE n \in 19 .. 31
  <2>0. Hash!GarbleSteps[n + 1] = Hash!GarbleThird[n - 18]
    BY <1>3 DEF Hash!GarbleSteps
  <2> USE DEF Entries, WriteAt, Hash!GarbleThird
  <2>1. CASE n = 19
    BY <2>0, <2>1
  <2>2. CASE n = 20
    BY <2>0, <2>2
  <2>3. CASE n = 21
    BY <2>0, <2>3
  <2>4. CASE n = 22
    BY <2>0, <2>4
  <2>5. CASE n = 23
    BY <2>0, <2>5
  <2>6. CASE n = 24
    BY <2>0, <2>6
  <2>7. CASE n = 25
    BY <2>0, <2>7
  <2>8. CASE n = 26
    BY <2>0, <2>8
  <2>9. CASE n = 27
    BY <2>0, <2>9
  <2>10. CASE n = 28
    BY <2>0, <2>10
  <2>11. CASE n = 29
    BY <2>0, <2>11
  <2>12. CASE n = 30
    BY <2>0, <2>12
  <2>13. CASE n = 31
    BY <2>0, <2>13
  <2> HIDE DEF Entries, WriteAt, Hash!GarbleThird
  <2> QED
    BY <1>3, <2>1, <2>2, <2>3, <2>4, <2>5, <2>6, <2>7, <2>8, <2>9, <2>10, <2>11, <2>12, <2>13
<1> QED
  BY <1>1, <1>2, <1>3

LEMMA WrittenKept ==
  ASSUME Where, Written, Hash!Next \/ UNCHANGED hashing
  PROVE  Written'
<1>1. CASE Hash!Load
  <2>1. buffer3' = [k \in 0 .. 131 |-> Unset] /\ Pass("load", 0, "scramble")
    BY <1>1, Order DEF Hash!Load
  <2> QED
    BY <2>1 DEF Pass, Written
<1>2. CASE Hash!Garble
  <2>1. Pass("garble", 31, "fill") /\ hashIndex \in 0 .. 31
    BY <1>2, Order DEF Pass
  <2>2. buffer3' = [buffer3 EXCEPT ![WriteAt(hashIndex)] = Garbled[3][WriteAt(hashIndex)]]
    BY <1>2, <2>1, GarbleStepsAre DEF Hash!Garble
  <2>3. WriteAt(hashIndex) \in Entries /\ WriteAt(hashIndex) \in 0 .. 131
    BY <2>1 DEF WriteAt, Entries
  <2>4. Garbled[3][WriteAt(hashIndex)] \in Hash!Byte
    <3>1. Garbled \in [0 .. 3 -> [0 .. 209 -> Hash!Byte]]
      BY KeyFacts
    <3> QED
      BY <2>3, <3>1
  <2>5. Unset \notin Hash!Byte
    BY KeyFacts
  <2>6. /\ buffer3' \in [0 .. 131 -> Hash!Byte \cup {Unset}]
        /\ \A k \in Entries : k <= WriteAt(hashIndex) => buffer3'[k] # Unset
    BY <2>1, <2>2, <2>3, <2>4, <2>5 DEF Written, Pass, Entries
  <2>7. hashPhase' = "garble" =>
          \A k \in Entries : k < WriteAt(hashIndex') => k <= WriteAt(hashIndex)
    BY <2>1 DEF Pass, Entries, WriteAt
  <2>8. hashPhase' = "fill" => \A k \in Entries : k <= WriteAt(hashIndex)
    BY <2>1 DEF Pass, Entries, WriteAt
  <2>9. hashPhase' \in {"garble", "fill"}
    BY <2>1 DEF Pass
  <2> QED
    BY <2>6, <2>7, <2>8, <2>9 DEF Written
<1>3. CASE Hash!Next /\ ~Hash!Load /\ ~Hash!Garble
  <2>1. buffer3' = buffer3
    BY <1>3 DEF Hash!Next, Hash!Copy, Hash!MD5Step, Hash!Scramble, Hash!Fill, Hash!Fold,
       Hash!Unscramble, Hash!Add, Hash!Finish, Hash!Returned, Hash!vars, Hash!sapVars
  <2>2. \/ UNCHANGED hashing
        \/ hashPhase' # "garble" /\ hashPhase' # "fill"
        \/ hashPhase' = "garble" /\ hashIndex' = 0
    BY <1>3, Order DEF Hash!Next, Pass
  <2>3. \A k \in Entries : ~(k < WriteAt(0))
    BY DEF Entries, WriteAt
  <2> QED
    BY <2>1, <2>2, <2>3 DEF Written, hashing
<1>4. CASE UNCHANGED hashing
  BY <1>4 DEF Written, hashing
<1> QED
  BY <1>1, <1>2, <1>3, <1>4

LEMMA WrittenBeforeRead == ASSUME Where, Written PROVE Hash!DefinedBeforeUse
<1>1. ASSUME hashPhase = "garble", NEW k \in Hash!GarbleSteps[hashIndex + 1][2]
      PROVE  buffer3[k] # Unset
  <2>1. hashIndex \in 0 .. 31
    BY <1>1, BoundsAre DEF Where
  <2> QED
    BY <1>1, <2>1, GarbleStepsAre DEF Written
<1>2. Hash!GarbleLast \cup {Hash!I0Index[n] : n \in DOMAIN Hash!I0Index \ {4}} \subseteq Entries
  <2>1. Hash!GarbleLast \subseteq Entries
    BY DEF Hash!GarbleLast, Entries
  <2>2. \A n \in 1 .. 11 : n # 4 => Hash!I0Index[n] \in Entries
    BY DEF Hash!I0Index, Entries
  <2>3. DOMAIN Hash!I0Index = 1 .. 11
    BY DEF Hash!I0Index
  <2> QED
    BY <2>1, <2>2, <2>3
<1> QED
  BY <1>1, <1>2 DEF Written, Hash!DefinedBeforeUse

-----------------------------------------------------------------------------
(* The bytes that are hashed                                               *)

LEMMA Rotations ==
  ASSUME NEW b \in Hash!Byte
  PROVE  /\ Hash!Rol8(b, 1) \in Hash!Byte
         /\ Hash!Rol8(b, 3) \in Hash!Byte
         /\ Hash!Rol8(b, 5) \in Hash!Byte
         /\ Hash!Rol8(b, 6) \in Hash!Byte
         /\ Hash!Rol8(b, 7) \in Hash!Byte
<1> USE DEF Hash!Rol8, Hash!Shift, Hash!Byte
<1>1. Hash!Rol8(b, 1) \in Hash!Byte
  OBVIOUS
<1>2. Hash!Rol8(b, 3) \in Hash!Byte
  OBVIOUS
<1>3. Hash!Rol8(b, 5) \in Hash!Byte
  OBVIOUS
<1>4. Hash!Rol8(b, 6) \in Hash!Byte
  OBVIOUS
<1>5. Hash!Rol8(b, 7) \in Hash!Byte
  OBVIOUS
<1> HIDE DEF Hash!Rol8, Hash!Shift, Hash!Byte
<1> QED
  BY <1>1, <1>2, <1>3, <1>4, <1>5

LEMMA XorKeyBytes ==
  ASSUME NEW a \in Hash!Byte, NEW b \in Hash!Byte
  PROVE  /\ XorByte(a, b) \in Hash!Byte
         /\ XorByte(a, b) = XorByte(b, a)
         /\ XorByte(XorByte(a, b), b) = a
  BY KeyFacts

(* The places a step of the loops reads lie in the buffer, and are none    *)
(* that it writes.                                                         *)
LEMMA RingLags ==
  ASSUME hashIndex \in 0 .. 839
  PROVE  /\ Hash!Wrapped(hashIndex - 155, 210) \in 0 .. 209
         /\ Hash!Wrapped(hashIndex - 155, 210) # hashIndex % 210
         /\ Hash!Wrapped(hashIndex - 57, 210) \in 0 .. 209
         /\ Hash!Wrapped(hashIndex - 57, 210) # hashIndex % 210
         /\ Hash!Wrapped(hashIndex - 13, 210) \in 0 .. 209
         /\ Hash!Wrapped(hashIndex - 13, 210) # hashIndex % 210
<1>1. /\ Hash!Wrapped(hashIndex - 155, 210) \in 0 .. 209
      /\ Hash!Wrapped(hashIndex - 155, 210) # hashIndex % 210
  <2>1. Hash!Wrapped(hashIndex - 155, 210) =
          (IF hashIndex < 155 THEN hashIndex + 101 ELSE hashIndex - 155) % 210
    BY DEF Hash!Wrapped
  <2> QED
    BY <2>1
<1>2. /\ Hash!Wrapped(hashIndex - 57, 210) \in 0 .. 209
      /\ Hash!Wrapped(hashIndex - 57, 210) # hashIndex % 210
  <2>1. Hash!Wrapped(hashIndex - 57, 210) =
          (IF hashIndex < 57 THEN hashIndex + 199 ELSE hashIndex - 57) % 210
    BY DEF Hash!Wrapped
  <2> QED
    BY <2>1
<1>3. /\ Hash!Wrapped(hashIndex - 13, 210) \in 0 .. 209
      /\ Hash!Wrapped(hashIndex - 13, 210) # hashIndex % 210
  <2>1. Hash!Wrapped(hashIndex - 13, 210) =
          (IF hashIndex < 13 THEN hashIndex + 243 ELSE hashIndex - 13) % 210
    BY DEF Hash!Wrapped
  <2> QED
    BY <2>1
<1> QED
  BY <1>1, <1>2, <1>3

LEMMA KeyLags ==
  ASSUME hashIndex \in 0 .. 255
  PROVE  /\ Hash!Wrapped((hashIndex % 16) - 177, 16) \in 0 .. 15
         /\ Hash!Wrapped((hashIndex % 16) - 177, 16) # hashIndex % 16
         /\ Hash!Wrapped((hashIndex % 16) - 7, 16) \in 0 .. 15
         /\ Hash!Wrapped((hashIndex % 16) - 7, 16) # hashIndex % 16
         /\ Hash!Wrapped((hashIndex % 16) - 37, 16) \in 0 .. 15
         /\ Hash!Wrapped((hashIndex % 16) - 37, 16) # hashIndex % 16
<1>1. /\ Hash!Wrapped((hashIndex % 16) - 177, 16) \in 0 .. 15
      /\ Hash!Wrapped((hashIndex % 16) - 177, 16) # hashIndex % 16
  <2>1. Hash!Wrapped((hashIndex % 16) - 177, 16) = ((hashIndex % 16) - 177) % 16
    BY DEF Hash!Wrapped
  <2> QED
    BY <2>1
<1>2. /\ Hash!Wrapped((hashIndex % 16) - 7, 16) \in 0 .. 15
      /\ Hash!Wrapped((hashIndex % 16) - 7, 16) # hashIndex % 16
  <2>1. Hash!Wrapped((hashIndex % 16) - 7, 16) = ((hashIndex % 16) - 7) % 16
    BY DEF Hash!Wrapped
  <2> QED
    BY <2>1
<1>3. /\ Hash!Wrapped((hashIndex % 16) - 37, 16) \in 0 .. 15
      /\ Hash!Wrapped((hashIndex % 16) - 37, 16) # hashIndex % 16
  <2>1. Hash!Wrapped((hashIndex % 16) - 37, 16) = ((hashIndex % 16) - 37) % 16
    BY DEF Hash!Wrapped
  <2> QED
    BY <2>1
<1> QED
  BY <1>1, <1>2, <1>3

(* What the buffers hold: bytes, from when they are loaded.                *)
Buffers ==
  /\ message \in [0 .. 127 -> Hash!Byte]
  /\ buffer1 \in [0 .. 209 -> Hash!Byte \cup {Unset}]
  /\ hashPhase \in {"scramble", "garble", "fill", "fold", "unscramble"} =>
       buffer1 \in [0 .. 209 -> Hash!Byte]
  /\ hashPhase \in {"fold", "unscramble"} => sessionKey \in Hash!KeyBytes

LEMMA ContentIsByte ==
  ASSUME message \in [0 .. 127 -> Hash!Byte], NEW k \in 0 .. 319
  PROVE  Hash!Content(Piece(k)) \in Hash!Byte
<1>1. CASE k \in 0 .. 16
  <2>1. Piece(k)[1] = "static_source_1" /\ Piece(k)[2] = k
    BY <1>1 DEF Piece, SourceOf, Offset
  <2>2. StaticSource1[k] \in Hash!Byte
    BY <1>1, KeyFacts
  <2> QED
    BY <2>1, <2>2 DEF Hash!Content
<1>2. CASE k \in 17 .. 144
  <2>1. Piece(k)[1] = "message" /\ Piece(k)[2] = k - 17
    BY <1>2 DEF Piece, SourceOf, Offset
  <2>2. message[k - 17] \in Hash!Byte
    BY <1>2
  <2> QED
    BY <2>1, <2>2 DEF Hash!Content
<1>3. CASE k \in 145 .. 272
  <2>1. Piece(k)[1] = "default_sap" /\ Piece(k)[2] = k - 17
    BY <1>3 DEF Piece, SourceOf, Offset
  <2>2. DefaultSap \in [0 .. 255 -> Hash!Byte]
    BY KeyFacts
  <2>3. DefaultSap[k - 17] \in Hash!Byte
    BY <1>3, <2>2
  <2> QED
    BY <2>1, <2>3 DEF Hash!Content
<1>4. CASE k \in 273 .. 319
  <2>1. Piece(k)[1] = "static_source_2" /\ Piece(k)[2] = k - 273
    BY <1>4 DEF Piece, SourceOf, Offset
  <2>2. StaticSource2 \in [0 .. 46 -> Hash!Byte]
    BY KeyFacts
  <2>3. StaticSource2[k - 273] \in Hash!Byte
    BY <1>4, <2>2
  <2> QED
    BY <2>1, <2>3 DEF Hash!Content
<1> QED
  BY <1>1, <1>2, <1>3, <1>4

(* What each loop makes of a byte is a byte.                               *)
LEMMA ScrambledIsByte ==
  ASSUME NEW w \in Hash!Byte, NEW x \in Hash!Byte, NEW y \in Hash!Byte, NEW z \in Hash!Byte
  PROVE  Hash!Scrambled(w, x, y, z) \in Hash!Byte
<1>1. Hash!Rol8(y, 5) \in Hash!Byte /\ Hash!Rol8(x, 7) \in Hash!Byte
  BY Rotations
<1>2. Hash!Rol8(z, 3) \in Hash!Byte
  BY Rotations
<1>3. XorByte(Hash!Rol8(z, 3), w) \in Hash!Byte
  BY <1>2, XorKeyBytes
<1>4. \A n \in Int : n % 256 \in Hash!Byte
  BY DEF Hash!Byte
<1>5. \A n \in Hash!Byte : n \in Int
  BY DEF Hash!Byte
<1>6. \A k, m, n \in Int : k + m - n \in Int
  OBVIOUS
<1>7. Hash!Rol8(y, 5) + XorByte(Hash!Rol8(z, 3), w) - Hash!Rol8(x, 7) \in Int
  BY <1>1, <1>3, <1>5, <1>6
<1> QED
  BY <1>4, <1>7 DEF Hash!Scrambled

LEMMA UnscrambledIsByte ==
  ASSUME NEW w \in Hash!Byte, NEW x \in Hash!Byte, NEW y \in Hash!Byte, NEW z \in Hash!Byte
  PROVE  Hash!Unscrambled(w, x, y, z) \in Hash!Byte
<1>1. /\ Hash!Rol8(x, 1) \in Hash!Byte /\ Hash!Rol8(z, 6) \in Hash!Byte
      /\ Hash!Rol8(w, 5) \in Hash!Byte
  BY Rotations
<1>2. XorByte(Hash!Rol8(x, 1), y) \in Hash!Byte
  BY <1>1, XorKeyBytes
<1>3. XorByte(XorByte(Hash!Rol8(x, 1), y), Hash!Rol8(z, 6)) \in Hash!Byte
  BY <1>1, <1>2, XorKeyBytes
<1> QED
  BY <1>1, <1>3, XorKeyBytes DEF Hash!Unscrambled

(* Of the phases in which buffer1 or the key is known to hold bytes, each  *)
(* is entered from the one before it.                                      *)
Loaded == {"scramble", "garble", "fill", "fold", "unscramble"}
Folding == {"fold", "unscramble"}

LEMMA MessageKept == ASSUME Hash!Next \/ UNCHANGED hashing PROVE message' = message
<1>1. CASE UNCHANGED hashing
  BY <1>1 DEF hashing
<1>2. CASE Hash!Next
  BY <1>2 DEF Hash!Next, Hash!Copy, Hash!MD5Step, Hash!Load, Hash!Scramble, Hash!Garble,
     Hash!Fill, Hash!Fold, Hash!Unscramble, Hash!Add, Hash!Finish, Hash!Returned, Hash!vars
<1> QED
  BY <1>1, <1>2

LEMMA LoadedByLoad ==
  ASSUME Where, Tiling, Buffers, Hash!Load
  PROVE  buffer1' \in [0 .. 209 -> Hash!Byte]
<1>1. hashPhase = "load" /\ hashRound \in 0 .. 4
  BY Order DEF Pass, Where
<1>2. buffer1' = [k \in 0 .. 209 |->
                    Hash!Content(newSap[64 * hashRound + Hash!Turned(k % 64)])]
  BY DEF Hash!Load
<1>3. ASSUME NEW k \in 0 .. 209
      PROVE  Hash!Content(newSap[64 * hashRound + Hash!Turned(k % 64)]) \in Hash!Byte
  <2>1. Hash!Turned(k % 64) \in 0 .. 63
    BY DEF Hash!Turned
  <2>2. 64 * hashRound + Hash!Turned(k % 64) \in 0 .. 319
    BY <1>1, <2>1
  <2>3. Filled = 320
    BY <1>1 DEF Filled
  <2>4. newSap[64 * hashRound + Hash!Turned(k % 64)] = Piece(64 * hashRound + Hash!Turned(k % 64))
    BY <2>2, <2>3 DEF Tiling
  <2>5. Hash!Content(Piece(64 * hashRound + Hash!Turned(k % 64))) \in Hash!Byte
    BY <2>2, ContentIsByte DEF Buffers
  <2> QED
    BY <2>4, <2>5
<1> QED
  BY <1>2, <1>3

LEMMA LoadedByScramble ==
  ASSUME Where, Buffers, Hash!Scramble
  PROVE  buffer1' \in [0 .. 209 -> Hash!Byte]
<1> DEFINE Lag(d) == buffer1[Hash!Wrapped(hashIndex - d, 210)]
<1>1. hashPhase = "scramble" /\ hashIndex \in 0 .. 839
  BY Order DEF Pass
<1>2. buffer1 \in [0 .. 209 -> Hash!Byte]
  BY <1>1 DEF Buffers
<1>3. Lag(155) \in Hash!Byte /\ Lag(57) \in Hash!Byte /\ Lag(13) \in Hash!Byte
  <2>1. Hash!Wrapped(hashIndex - 155, 210) \in 0 .. 209
    BY <1>1, RingLags
  <2>2. Hash!Wrapped(hashIndex - 57, 210) \in 0 .. 209
    BY <1>1, RingLags
  <2>3. Hash!Wrapped(hashIndex - 13, 210) \in 0 .. 209
    BY <1>1, RingLags
  <2> QED
    BY <1>2, <2>1, <2>2, <2>3
<1>4. hashIndex % 210 \in 0 .. 209 /\ buffer1[hashIndex % 210] \in Hash!Byte
  BY <1>1, <1>2
<1>5. Hash!Scrambled(buffer1[hashIndex % 210], Lag(155), Lag(57), Lag(13)) \in Hash!Byte
  BY <1>3, <1>4, ScrambledIsByte
<1>6. buffer1' = [buffer1 EXCEPT ![hashIndex % 210] =
                    Hash!Scrambled(buffer1[hashIndex % 210], Lag(155), Lag(57), Lag(13))]
  BY DEF Hash!Scramble
<1> QED
  BY <1>2, <1>4, <1>5, <1>6

LEMMA LoadedByGarble ==
  ASSUME Where, Buffers, Hash!Garble
  PROVE  buffer1' \in [0 .. 209 -> Hash!Byte]
<1>1. buffer1 \in [0 .. 209 -> Hash!Byte]
  BY Order DEF Pass, Buffers
<1>2. \A k \in 0 .. 209 : Garbled[1][k] \in Hash!Byte
  BY KeyFacts
<1>3. buffer1' = IF hashIndex = 31
                 THEN [k \in 0 .. 209 |->
                         IF k \in Hash!GarbledEntries THEN Garbled[1][k] ELSE buffer1[k]]
                 ELSE buffer1
  BY DEF Hash!Garble
<1> QED
  BY <1>1, <1>2, <1>3

LEMMA KeyByFill ==
  ASSUME Where, Written, Hash!Fill
  PROVE  sessionKey' \in Hash!KeyBytes
<1>1. hashPhase = "fill"
  BY Order DEF Pass
<1>2. \A n \in 1 .. 11 : n # 4 => buffer3[Hash!I0Index[n]] \in Hash!Byte
  <2>1. \A n \in 1 .. 11 : Hash!I0Index[n] \in 0 .. 131
    BY DEF Hash!I0Index
  <2>2. DOMAIN Hash!I0Index = 1 .. 11
    BY DEF Hash!I0Index
  <2>3. \A n \in 1 .. 11 : n # 4 => buffer3[Hash!I0Index[n]] # Unset
    BY <1>1, <2>2, WrittenBeforeRead DEF Hash!DefinedBeforeUse
  <2> QED
    BY <2>1, <2>3 DEF Written
<1>3. \A k \in 0 .. 15 : k < 11 /\ k # 3 => buffer3[Hash!I0Index[k + 1]] \in 0 .. 255
  BY <1>2 DEF Hash!Byte
<1>4. sessionKey' = [k \in 0 .. 15 |->
                       CASE k = 3 -> 61
                         [] k < 11 /\ k # 3 -> (225 + buffer3[Hash!I0Index[k + 1]]) % 256
                         [] OTHER -> 225]
  BY DEF Hash!Fill
<1>5. ASSUME NEW k \in 0 .. 15
      PROVE  sessionKey'[k] \in Hash!Byte
  <2>0. \A b \in 0 .. 255 : b \in Hash!Byte
    BY DEF Hash!Byte
  <2>1. CASE k = 3
    BY <1>4, <2>0, <2>1
  <2>2. CASE k < 11 /\ k # 3
    <3>0. \A v \in 0 .. 255 : (225 + v) % 256 \in 0 .. 255
      OBVIOUS
    <3>1. (225 + buffer3[Hash!I0Index[k + 1]]) % 256 \in 0 .. 255
      BY <1>3, <2>2, <3>0
    <3>2. sessionKey'[k] = (225 + buffer3[Hash!I0Index[k + 1]]) % 256
      BY <1>4, <2>2
    <3> QED
      BY <2>0, <3>1, <3>2
  <2>3. CASE ~(k < 11) /\ k # 3
    BY <1>4, <2>0, <2>3
  <2> QED
    BY <2>1, <2>2, <2>3
<1>6. sessionKey' = [k \in 0 .. 15 |-> sessionKey'[k]]
  BY <1>4
<1> QED
  BY <1>5, <1>6 DEF Hash!KeyBytes

LEMMA KeyByFold ==
  ASSUME Where, Buffers, Hash!Fold
  PROVE  sessionKey' \in Hash!KeyBytes
<1>1. hashPhase = "fold" /\ hashIndex \in 0 .. 264
  BY Order DEF Pass
<1>2. sessionKey \in [0 .. 15 -> Hash!Byte] /\ buffer1 \in [0 .. 209 -> Hash!Byte]
  BY <1>1 DEF Buffers, Hash!KeyBytes
<1>3. Hash!FoldedByte.at \in Nat /\ Hash!FoldedByte.byte \in Hash!Byte
  <2>0. Garbled \in [0 .. 3 -> [0 .. 209 -> Hash!Byte]]
    BY KeyFacts
  <2>1. CASE hashIndex < 20
    <3>1. Hash!FoldedByte = [at |-> hashIndex, byte |-> Garbled[0][hashIndex]]
      BY <2>1 DEF Hash!FoldedByte
    <3>2. Garbled[0][hashIndex] \in Hash!Byte
      BY <1>1, <2>0, <2>1
    <3> QED
      BY <1>1, <3>1, <3>2
  <2>2. CASE hashIndex \in 20 .. 54
    <3>1. Hash!FoldedByte = [at |-> hashIndex - 20, byte |-> Garbled[2][hashIndex - 20]]
      BY <2>2 DEF Hash!FoldedByte
    <3>2. Garbled[2][hashIndex - 20] \in Hash!Byte
      BY <2>0, <2>2
    <3> QED
      BY <2>2, <3>1, <3>2
  <2>3. CASE hashIndex \in 55 .. 264
    <3>1. Hash!FoldedByte = [at |-> hashIndex - 55, byte |-> buffer1[hashIndex - 55]]
      BY <2>3 DEF Hash!FoldedByte
    <3>2. buffer1[hashIndex - 55] \in Hash!Byte
      BY <1>2, <2>3
    <3> QED
      BY <2>3, <3>1, <3>2
  <2> QED
    BY <1>1, <2>1, <2>2, <2>3
<1>4. Hash!FoldedByte.at % 16 \in 0 .. 15
  BY <1>3
<1>5. XorByte(sessionKey[Hash!FoldedByte.at % 16], Hash!FoldedByte.byte) \in Hash!Byte
  BY <1>2, <1>3, <1>4, XorKeyBytes
<1>6. sessionKey' = [sessionKey EXCEPT ![Hash!FoldedByte.at % 16] =
                       XorByte(sessionKey[Hash!FoldedByte.at % 16], Hash!FoldedByte.byte)]
  BY DEF Hash!Fold
<1> QED
  BY <1>2, <1>4, <1>5, <1>6 DEF Hash!KeyBytes

LEMMA KeyByUnscramble ==
  ASSUME Where, Buffers, Hash!Unscramble
  PROVE  sessionKey' \in Hash!KeyBytes
<1> DEFINE Lag(d) == sessionKey[Hash!Wrapped((hashIndex % 16) - d, 16)]
<1>1. hashPhase = "unscramble" /\ hashIndex \in 0 .. 255
  BY Order DEF Pass
<1>2. sessionKey \in [0 .. 15 -> Hash!Byte]
  BY <1>1 DEF Buffers, Hash!KeyBytes
<1>3. Lag(177) \in Hash!Byte /\ Lag(7) \in Hash!Byte /\ Lag(37) \in Hash!Byte
  <2>1. Hash!Wrapped((hashIndex % 16) - 177, 16) \in 0 .. 15
    BY <1>1, KeyLags
  <2>2. Hash!Wrapped((hashIndex % 16) - 7, 16) \in 0 .. 15
    BY <1>1, KeyLags
  <2>3. Hash!Wrapped((hashIndex % 16) - 37, 16) \in 0 .. 15
    BY <1>1, KeyLags
  <2> QED
    BY <1>2, <2>1, <2>2, <2>3
<1>4. hashIndex % 16 \in 0 .. 15 /\ sessionKey[hashIndex % 16] \in Hash!Byte
  BY <1>1, <1>2
<1>5. Hash!Unscrambled(Lag(177), Lag(7), sessionKey[hashIndex % 16], Lag(37)) \in Hash!Byte
  BY <1>3, <1>4, UnscrambledIsByte
<1>6. sessionKey' = [sessionKey EXCEPT ![hashIndex % 16] =
                       Hash!Unscrambled(Lag(177), Lag(7), sessionKey[hashIndex % 16], Lag(37))]
  BY DEF Hash!Unscramble
<1> QED
  BY <1>2, <1>4, <1>5, <1>6 DEF Hash!KeyBytes

LEMMA BuffersKept ==
  ASSUME Where, Tiling, Written, Buffers, Hash!Next \/ UNCHANGED hashing
  PROVE  Buffers'
<1>1. message' \in [0 .. 127 -> Hash!Byte]
  BY MessageKept DEF Buffers
<1>2. /\ buffer1' \in [0 .. 209 -> Hash!Byte \cup {Unset}]
      /\ hashPhase' \in Loaded => buffer1' \in [0 .. 209 -> Hash!Byte]
  <2>1. CASE Hash!Load \/ Hash!Scramble \/ Hash!Garble
    BY <2>1, LoadedByLoad, LoadedByScramble, LoadedByGarble
  <2>2. CASE Hash!Next /\ ~(Hash!Load \/ Hash!Scramble \/ Hash!Garble)
    <3>1. buffer1' = buffer1
      BY <2>2 DEF Hash!Next, Hash!Copy, Hash!MD5Step, Hash!Fill, Hash!Fold, Hash!Unscramble,
         Hash!Add, Hash!Finish, Hash!Returned, Hash!vars, Hash!sapVars
    <3>2. hashPhase' \in Loaded => hashPhase \in Loaded
      BY <2>2, Order DEF Hash!Next, Pass, Loaded, hashing
    <3> QED
      BY <3>1, <3>2 DEF Buffers, Loaded
  <2>3. CASE UNCHANGED hashing
    BY <2>3 DEF hashing, Buffers, Loaded
  <2> QED
    BY <2>1, <2>2, <2>3
<1>3. hashPhase' \in Folding => sessionKey' \in Hash!KeyBytes
  <2>1. CASE Hash!Fill \/ Hash!Fold \/ Hash!Unscramble
    BY <2>1, KeyByFill, KeyByFold, KeyByUnscramble
  <2>2. CASE Hash!Next /\ ~(Hash!Fill \/ Hash!Fold \/ Hash!Unscramble)
    <3>1. hashPhase' \notin Folding \/ UNCHANGED hashing
      BY <2>2, Order DEF Hash!Next, Pass, Folding
    <3> QED
      BY <3>1 DEF Buffers, Folding, hashing
  <2>3. CASE UNCHANGED hashing
    BY <2>3 DEF hashing, Buffers, Folding
  <2> QED
    BY <2>1, <2>2, <2>3
<1> QED
  BY <1>1, <1>2, <1>3 DEF Buffers, Loaded, Folding

-----------------------------------------------------------------------------
(* The key a round begins with                                             *)

LEMMA Appended ==
  ASSUME NEW S, NEW s \in Seq(S), NEW e
  PROVE  /\ Append(s, e) \in Seq(S \cup {e})
         /\ Len(s) \in Nat /\ Len(Append(s, e)) = Len(s) + 1
         /\ Append(s, e)[Len(s) + 1] = e
<1>1. s \in Seq(S \cup {e})
  BY SeqMonotonic
<1> QED
  BY <1>1, AppendProperties, LenProperties

(* keys holds a key for each round that has begun, the last of them is     *)
(* what the digest of this round is keyed with, and a digest that has been *)
(* made stays until it is added.                                           *)
Hashed == {"load", "scramble", "garble", "fill", "fold", "unscramble", "add"}
Chained ==
  /\ \E S : keys \in Seq(S)
  /\ Len(keys) = IF hashPhase = "copy" THEN 0 ELSE hashRound + 1
  /\ Hash!DigestChained

LEMMA ChainedKept ==
  ASSUME Where, Chained, Hash!Next \/ UNCHANGED hashing
  PROVE  Chained'
<1>1. PICK S : keys \in Seq(S)
  BY DEF Chained
<1>2. Len(keys) \in Nat
  BY <1>1, LenProperties
<1>3. CASE Hash!Copy
  <2>1. Pass("copy", 3, "md5") /\ sessionKey' = sessionKey /\ hashRound = 0
    BY <1>3, Order DEF Hash!Copy, Pass, Where
  <2>2. CASE hashIndex = 3
    <3>0. keys' = IF hashIndex = 3 THEN <<sessionKey>> ELSE keys
      BY <1>3 DEF Hash!Copy
    <3>1. keys' = <<sessionKey>> /\ hashPhase' = "md5" /\ hashRound' = 0
      <4>1. hashPhase' = "md5" /\ hashRound' = 0
        BY <2>1, <2>2 DEF Pass
      <4> QED
        BY <2>2, <3>0, <4>1
    <3>2. keys' \in Seq({sessionKey}) /\ Len(keys') = 1 /\ keys'[1] = sessionKey
      BY <3>1
    <3>3. keys'[1] = sessionKey' /\ hashRound' + 1 = 1
      BY <2>1, <3>1, <3>2
    <3>4. (\E T : keys' \in Seq(T)) /\ Len(keys') = hashRound' + 1
      BY <3>1, <3>2, <3>3
    <3> QED
      BY <3>1, <3>3, <3>4 DEF Chained, Hash!DigestChained
  <2>3. CASE hashIndex # 3
    <3>1. keys' = keys /\ hashPhase' = "copy"
      BY <1>3, <2>1, <2>3 DEF Hash!Copy, Pass
    <3> QED
      BY <2>1, <3>1 DEF Chained, Hash!DigestChained, Pass
  <2> QED
    BY <2>2, <2>3
<1>4. CASE Hash!MD5Step
  <2>1. /\ Pass("md5", 63, "load") /\ sessionKey' = sessionKey /\ keys' = keys
        /\ md5' = IF hashIndex = 63 THEN Digest(hashRound, sessionKey) ELSE md5
    BY <1>4, Order DEF Hash!MD5Step
  <2>2. CASE hashIndex = 63
    BY <2>1, <2>2 DEF Pass, Chained, Hash!DigestChained
  <2>3. CASE hashIndex # 63
    BY <2>1, <2>3 DEF Pass, Chained, Hash!DigestChained
  <2> QED
    BY <2>2, <2>3
<1>5. CASE Hash!Add
  <2> DEFINE sum == Hash!AddWords(sessionKey, md5)
  <2> HIDE DEF sum
  <2>1. /\ sessionKey' = sum /\ keys' = Append(keys, sum) /\ md5' = md5
        /\ hashPhase = "add" /\ hashRound \in 0 .. 4 /\ hashRound' = hashRound + 1
        /\ hashPhase' \in {"md5", "swap"}
    BY <1>5, Order DEF Hash!Add, Hash!hashVars, sum
  <2>2. Len(keys) = hashRound + 1
    BY <2>1 DEF Chained
  <2>3. /\ keys' \in Seq(S \cup {sum}) /\ Len(keys') = hashRound + 2
        /\ keys'[hashRound + 2] = sum
    BY <1>1, <2>1, <2>2, Appended
  <2>4. hashRound' + 1 = hashRound + 2
    BY <2>1
  <2> QED
    BY <2>1, <2>3, <2>4 DEF Chained, Hash!DigestChained
<1>6. CASE Hash!Load \/ Hash!Scramble \/ Hash!Garble \/ Hash!Fill \/ Hash!Fold \/ Hash!Unscramble
  <2>1. keys' = keys /\ md5' = md5
    BY <1>6 DEF Hash!Load, Hash!Scramble, Hash!Garble, Hash!Fill, Hash!Fold, Hash!Unscramble,
       Hash!hashVars
  <2>2. hashRound' = hashRound /\ hashPhase \in Hashed /\ hashPhase' \in Hashed
    BY <1>6, Order DEF Pass, Hashed
  <2> QED
    BY <2>1, <2>2 DEF Chained, Hash!DigestChained, Hashed
<1>7. CASE Hash!Finish
  <2>1. keys' = keys /\ hashPhase' = "done" /\ hashPhase = "swap" /\ hashRound' = hashRound
    BY <1>7, Order DEF Hash!Finish, Pass, Where
  <2> QED
    BY <2>1 DEF Chained, Hash!DigestChained
<1>8. CASE UNCHANGED hashing
  BY <1>8 DEF hashing, Chained, Hash!DigestChained
<1>9. Hash!Returned => UNCHANGED hashing
  BY Order
<1> QED
  BY <1>3, <1>4, <1>5, <1>6, <1>7, <1>8, <1>9 DEF Hash!Next

-----------------------------------------------------------------------------
(* The invariant of generate_session_key                                   *)

KeyInv == Where /\ Tiling /\ Absorbing /\ Written /\ Buffers /\ Chained

LEMMA KeyAtStart == ASSUME CallInit PROVE KeyInv
<1>1. /\ message \in [0 .. 127 -> Hash!Byte]
      /\ newSap = [k \in 0 .. 319 |-> Unset]
      /\ hashPhase = "copy" /\ hashIndex = 0 /\ hashRound = 0
      /\ words = [w \in Hash!Word |-> w] /\ absorbed = {}
      /\ buffer1 = [k \in 0 .. 209 |-> Unset] /\ buffer3 = [k \in 0 .. 131 |-> Unset]
      /\ keys = <<>>
  BY KeyFacts DEF CallInit, Hash!Init
<1>2. Where
  BY <1>1, BoundsAre DEF Where, Hash!Phases
<1>3. Tiling
  <2>1. Filled = 0
    BY <1>1 DEF Filled
  <2> QED
    BY <1>1, <2>1 DEF Tiling
<1>4. Absorbing
  BY <1>1 DEF Absorbing
<1>5. Written
  <2>1. hashPhase # "garble" /\ hashPhase # "fill"
    BY <1>1
  <2> QED
    BY <1>1, <2>1 DEF Written
<1>6. Buffers
  <2>1. hashPhase \notin Loaded /\ hashPhase \notin Folding
    BY <1>1 DEF Loaded, Folding
  <2> QED
    BY <1>1, <2>1 DEF Buffers, Loaded, Folding
<1>7. Chained
  <2>1. keys \in Seq({}) /\ Len(keys) = 0
    BY <1>1
  <2> QED
    BY <1>1, <2>1 DEF Chained, Hash!DigestChained
<1> QED
  BY <1>2, <1>3, <1>4, <1>5, <1>6, <1>7 DEF KeyInv

LEMMA KeyInvariance == CallSpec => []KeyInv
<1>1. CallInit => KeyInv
  BY KeyAtStart
<1>2. KeyInv /\ [CallNext]_<<vars, hashing>> => KeyInv'
  <2> SUFFICES ASSUME KeyInv, [CallNext]_<<vars, hashing>> PROVE KeyInv'
    OBVIOUS
  <2>1. Hash!Next \/ UNCHANGED hashing
    BY HashSteps
  <2>2. Where' /\ Tiling' /\ Absorbing'
    BY <2>1, WhereKept, TilingKept, AbsorbingKept DEF KeyInv
  <2>3. Written' /\ Buffers' /\ Chained'
    BY <2>1, WrittenKept, BuffersKept, ChainedKept DEF KeyInv
  <2> QED
    BY <2>2, <2>3 DEF KeyInv
<1> QED
  BY <1>1, <1>2, PTL DEF CallSpec

-----------------------------------------------------------------------------
(* What the runs check of the session key                                  *)

(* The copies tile newSap: when a block is loaded no byte is unset, none   *)
(* of the message is overwritten and none is hashed twice.                 *)
THEOREM Tiled == CallSpec => []SapTiled
<1>1. KeyInv => SapTiled
  <2> SUFFICES ASSUME KeyInv, hashPhase = "load"
               PROVE  /\ \A k \in 0 .. 319 : newSap[k] # Unset
                      /\ \A j, k \in 0 .. 319 : newSap[j] = newSap[k] => j = k
                      /\ \A k \in 0 .. 127 : \E j \in 0 .. 319 : newSap[j] = <<"message", k>>
    BY DEF SapTiled, Hash!SapTiled
  <2>1. Filled = 320
    BY DEF Filled
  <2>2. \A k \in 0 .. 319 : newSap[k] = Piece(k)
    BY <2>1 DEF KeyInv, Tiling
  <2>3. \A k \in 0 .. 319 : newSap[k] # Unset
    BY <2>2, PiecesDiffer
  <2>4. ASSUME NEW j \in 0 .. 319, NEW k \in 0 .. 319, newSap[j] = newSap[k]
        PROVE  j = k
    <3>1. Piece(j) = Piece(k)
      BY <2>2, <2>4
    <3> QED
      BY <3>1, PiecesDiffer
  <2>5. ASSUME NEW k \in 0 .. 127
        PROVE  \E j \in 0 .. 319 : newSap[j] = <<"message", k>>
    <3>1. Piece(k + 17) = <<"message", k>>
      BY PiecesDiffer
    <3>2. k + 17 \in 0 .. 319
      OBVIOUS
    <3> QED
      BY <2>2, <3>1, <3>2
  <2> QED
    BY <2>3, <2>4, <2>5
<1> QED
  BY <1>1, KeyInvariance, PTL

(* Whatever is swapped after step 31 of modified_md5, each quarter of its  *)
(* 64 steps takes every word of the block.                                 *)
THEOREM EveryQuarterTakesAll == CallSpec => []WordsOncePerQuarter
<1>1. KeyInv => WordsOncePerQuarter
  BY DEF KeyInv, Absorbing, WordsOncePerQuarter, Hash!WordsOncePerQuarter
<1> QED
  BY <1>1, KeyInvariance, PTL

(* No step of garble, and nothing after it, reads an entry of buffer3 that *)
(* garble has not written yet.                                             *)
THEOREM NothingReadUnset == CallSpec => []DefinedBeforeUse
<1>1. KeyInv => DefinedBeforeUse
  BY WrittenBeforeRead DEF KeyInv, DefinedBeforeUse
<1> QED
  BY <1>1, KeyInvariance, PTL

(* The digest a block adds is keyed with the key its round began with,     *)
(* the sum of the round before, whatever modified_md5 computes.            *)
THEOREM RoundsChained == CallSpec => []DigestChained
<1>1. KeyInv => DigestChained
  BY DEF KeyInv, Chained, DigestChained
<1> QED
  BY <1>1, KeyInvariance, PTL

(* What a step of the scrambling loop overwrites can be computed from what *)
(* it wrote and the three entries it read.                                 *)
LEMMA ScramblingUndone ==
  ASSUME NEW w \in Hash!Byte, NEW x \in Hash!Byte, NEW y \in Hash!Byte, NEW z \in Hash!Byte
  PROVE  XorByte((Hash!Scrambled(w, x, y, z) - Hash!Rol8(y, 5) + Hash!Rol8(x, 7)) % 256,
                 Hash!Rol8(z, 3)) = w
<1>0. Hash!Byte = 0 .. 255
  BY DEF Hash!Byte
<1>1. /\ Hash!Rol8(y, 5) \in Hash!Byte /\ Hash!Rol8(x, 7) \in Hash!Byte
      /\ Hash!Rol8(z, 3) \in Hash!Byte
  BY Rotations
<1>2. XorByte(Hash!Rol8(z, 3), w) \in Hash!Byte
  BY <1>1, XorKeyBytes
<1>3. (Hash!Scrambled(w, x, y, z) - Hash!Rol8(y, 5) + Hash!Rol8(x, 7)) % 256
        = XorByte(Hash!Rol8(z, 3), w)
  <2> DEFINE p == Hash!Rol8(y, 5)
             q == XorByte(Hash!Rol8(z, 3), w)
             r == Hash!Rol8(x, 7)
  <2>1. p \in 0 .. 255 /\ q \in 0 .. 255 /\ r \in 0 .. 255
    BY <1>0, <1>1, <1>2
  <2>2. Hash!Scrambled(w, x, y, z) = (p + q - r) % 256
    BY DEF Hash!Scrambled
  <2> HIDE DEF p, q, r
  <2>3. (((p + q - r) % 256) - p + r) % 256 = q
    BY <2>1
  <2>4. (Hash!Scrambled(w, x, y, z) - p + r) % 256 = q
    BY <2>2, <2>3
  <2> QED
    BY <2>4 DEF p, q, r
<1>4. XorByte(XorByte(Hash!Rol8(z, 3), w), Hash!Rol8(z, 3)) = w
  BY <1>1, XorKeyBytes
<1> QED
  BY <1>3, <1>4

(* The same of the last loop, whose second entry is only xored in.         *)
LEMMA UnscramblingUndone ==
  ASSUME NEW w \in Hash!Byte, NEW x \in Hash!Byte, NEW y \in Hash!Byte, NEW z \in Hash!Byte
  PROVE  Hash!Unmix(Hash!Unscrambled(w, x, y, z), w, x, 0, z) = y
<1>1. /\ Hash!Rol8(x, 1) \in Hash!Byte /\ Hash!Rol8(z, 6) \in Hash!Byte
      /\ Hash!Rol8(w, 5) \in Hash!Byte
  BY Rotations
<1> DEFINE one == XorByte(Hash!Rol8(x, 1), y)
           two == XorByte(one, Hash!Rol8(z, 6))
<1>2. one \in Hash!Byte /\ one = XorByte(y, Hash!Rol8(x, 1))
  BY <1>1, XorKeyBytes
<1>3. XorByte(one, Hash!Rol8(x, 1)) = y
  BY <1>1, <1>2, XorKeyBytes
<1> HIDE DEF one
<1>4. two \in Hash!Byte /\ XorByte(two, Hash!Rol8(z, 6)) = one
  BY <1>1, <1>2, XorKeyBytes
<1> HIDE DEF two
<1>5. XorByte(XorByte(two, Hash!Rol8(w, 5)), Hash!Rol8(w, 5)) = two
  BY <1>1, <1>4, XorKeyBytes
<1>6. Hash!Unscrambled(w, x, y, z) = XorByte(two, Hash!Rol8(w, 5))
  BY DEF Hash!Unscrambled, one, two
<1> QED
  BY <1>3, <1>4, <1>5, <1>6 DEF Hash!Unmix

LEMMA ScrambleReversible ==
  ASSUME KeyInv, Hash!Scramble
  PROVE  Hash!ScrambleUndone
<1> DEFINE At(d) == Hash!Wrapped(hashIndex - d, 210)
           to == hashIndex % 210
           new == Hash!Scrambled(buffer1[to], buffer1[At(155)], buffer1[At(57)], buffer1[At(13)])
<1>1. hashPhase = "scramble" /\ hashIndex \in 0 .. 839
  BY Order DEF KeyInv, Pass
<1>2. buffer1 \in [0 .. 209 -> Hash!Byte]
  BY <1>1 DEF KeyInv, Buffers
<1>3. to \in 0 .. 209
  BY <1>1
<1>4. /\ At(155) \in 0 .. 209 /\ At(155) # to
      /\ At(57) \in 0 .. 209 /\ At(57) # to
      /\ At(13) \in 0 .. 209 /\ At(13) # to
  <2>1. At(155) \in 0 .. 209 /\ At(155) # to
    BY <1>1, RingLags
  <2>2. At(57) \in 0 .. 209 /\ At(57) # to
    BY <1>1, RingLags
  <2>3. At(13) \in 0 .. 209 /\ At(13) # to
    BY <1>1, RingLags
  <2> QED
    BY <2>1, <2>2, <2>3
<1>5. buffer1' = [buffer1 EXCEPT ![to] = new]
  BY DEF Hash!Scramble
<1>6. Hash!ScrambleUndone =
        (buffer1 = [buffer1' EXCEPT ![to] =
           XorByte((buffer1'[to] - Hash!Rol8(buffer1'[At(57)], 5)
                      + Hash!Rol8(buffer1'[At(155)], 7)) % 256,
                   Hash!Rol8(buffer1'[At(13)], 3))])
  BY DEF Hash!ScrambleUndone
<1> HIDE DEF At, to
<1>7. /\ buffer1'[to] = new /\ buffer1'[At(155)] = buffer1[At(155)]
      /\ buffer1'[At(57)] = buffer1[At(57)] /\ buffer1'[At(13)] = buffer1[At(13)]
  BY <1>2, <1>3, <1>4, <1>5
<1>8. XorByte((new - Hash!Rol8(buffer1[At(57)], 5) + Hash!Rol8(buffer1[At(155)], 7)) % 256,
              Hash!Rol8(buffer1[At(13)], 3)) = buffer1[to]
  <2>1. /\ buffer1[to] \in Hash!Byte /\ buffer1[At(155)] \in Hash!Byte
        /\ buffer1[At(57)] \in Hash!Byte /\ buffer1[At(13)] \in Hash!Byte
    BY <1>2, <1>3, <1>4
  <2> QED
    BY <2>1, ScramblingUndone
<1> HIDE DEF new
<1>9. buffer1 = [buffer1' EXCEPT ![to] = buffer1[to]]
  BY <1>2, <1>3, <1>5
<1> QED
  BY <1>6, <1>7, <1>8, <1>9

LEMMA UnscrambleReversible ==
  ASSUME KeyInv, Hash!Unscramble
  PROVE  Hash!UnscrambleUndone
<1> DEFINE At(d) == Hash!Wrapped((hashIndex % 16) - d, 16)
           to == hashIndex % 16
           new == Hash!Unscrambled(sessionKey[At(177)], sessionKey[At(7)], sessionKey[to],
                                   sessionKey[At(37)])
<1>1. hashPhase = "unscramble" /\ hashIndex \in 0 .. 255
  BY Order DEF KeyInv, Pass
<1>2. sessionKey \in [0 .. 15 -> Hash!Byte]
  BY <1>1 DEF KeyInv, Buffers, Hash!KeyBytes
<1>3. to \in 0 .. 15
  BY <1>1
<1>4. /\ At(177) \in 0 .. 15 /\ At(177) # to
      /\ At(7) \in 0 .. 15 /\ At(7) # to
      /\ At(37) \in 0 .. 15 /\ At(37) # to
  <2>1. At(177) \in 0 .. 15 /\ At(177) # to
    BY <1>1, KeyLags
  <2>2. At(7) \in 0 .. 15 /\ At(7) # to
    BY <1>1, KeyLags
  <2>3. At(37) \in 0 .. 15 /\ At(37) # to
    BY <1>1, KeyLags
  <2> QED
    BY <2>1, <2>2, <2>3
<1>5. sessionKey' = [sessionKey EXCEPT ![to] = new]
  BY DEF Hash!Unscramble
<1>6. Hash!UnscrambleUndone =
        (sessionKey = [sessionKey' EXCEPT ![to] =
           Hash!Unmix(sessionKey'[to], sessionKey'[At(177)], sessionKey'[At(7)], 0,
                      sessionKey'[At(37)])])
  BY DEF Hash!UnscrambleUndone
<1> HIDE DEF At, to
<1>7. /\ sessionKey'[to] = new /\ sessionKey'[At(177)] = sessionKey[At(177)]
      /\ sessionKey'[At(7)] = sessionKey[At(7)] /\ sessionKey'[At(37)] = sessionKey[At(37)]
  BY <1>2, <1>3, <1>4, <1>5
<1>8. Hash!Unmix(new, sessionKey[At(177)], sessionKey[At(7)], 0, sessionKey[At(37)])
        = sessionKey[to]
  <2>1. /\ sessionKey[to] \in Hash!Byte /\ sessionKey[At(177)] \in Hash!Byte
        /\ sessionKey[At(7)] \in Hash!Byte /\ sessionKey[At(37)] \in Hash!Byte
    BY <1>2, <1>3, <1>4
  <2> QED
    BY <2>1, UnscramblingUndone
<1> HIDE DEF new
<1>9. sessionKey = [sessionKey' EXCEPT ![to] = sessionKey[to]]
  BY <1>2, <1>3, <1>5
<1> QED
  BY <1>6, <1>7, <1>8, <1>9

(* No step of the scrambling loops loses information.                      *)
THEOREM ScramblingReversible == CallSpec => StepsReversible
<1> DEFINE Undone == /\ hashPhase = "scramble" => Hash!ScrambleUndone
                     /\ hashPhase = "unscramble" => Hash!UnscrambleUndone
<1>1. ASSUME KeyInv, [CallNext]_<<vars, hashing>>
      PROVE  [Undone]_hashing
  <2> SUFFICES ASSUME ~UNCHANGED hashing PROVE Undone
    OBVIOUS
  <2>1. Hash!Next
    BY <1>1, HashSteps
  <2>2. hashPhase = "scramble" => Hash!Scramble
    BY <1>1, <2>1, Order DEF KeyInv, Hash!Next, Pass
  <2>3. hashPhase = "unscramble" => Hash!Unscramble
    BY <1>1, <2>1, Order DEF KeyInv, Hash!Next, Pass
  <2> QED
    BY <1>1, <2>2, <2>3, ScrambleReversible, UnscrambleReversible
<1>2. Hash!vars = hashing
  BY DEF Hash!vars, hashing
<1>3. ASSUME KeyInv, [CallNext]_<<vars, hashing>>
      PROVE  [Undone]_(Hash!vars)
  BY <1>1, <1>2, <1>3 DEF hashing, Hash!vars
<1> QED
  BY <1>3, KeyInvariance, PTL DEF CallSpec, StepsReversible, Hash!StepsReversible

-----------------------------------------------------------------------------
(* Types of both parts                                                     *)

(* What modified_md5 returns is 16 bytes, as its out parameter is.         *)
DigestIsKey == \A r \in 0 .. 4 : \A key \in Hash!KeyBytes : Digest(r, key) \in Hash!KeyBytes

KeyTypes ==
  /\ sessionKey \in Hash!KeyBytes
  /\ md5 \in Hash!KeyBytes \cup {Unset}
  /\ hashPhase \notin {"copy", "md5"} => md5 # Unset
  /\ keys \in Seq(Hash!KeyBytes)

LEMMA SumIsKey ==
  ASSUME NEW x \in Hash!KeyBytes, NEW y \in Hash!KeyBytes
  PROVE  Hash!AddWords(x, y) \in Hash!KeyBytes
<1>0. ASSUME NEW a \in Hash!KeyBytes, NEW n \in 0 .. 15 PROVE a[n] \in Nat
  <2>1. a[n] \in Hash!Byte
    BY DEF Hash!KeyBytes
  <2>2. \A b \in Hash!Byte : b \in Nat
    BY DEF Hash!Byte
  <2> QED
    BY <2>1, <2>2
<1>1. ASSUME NEW a \in Hash!KeyBytes, NEW k \in 0 .. 15 PROVE Hash!Low(a, k) \in Nat
  <2>1. \A n \in 0 .. 15 : a[n] \in Nat
    BY <1>0
  <2>2. CASE k % 4 = 0
    BY <2>2 DEF Hash!Low
  <2>3. CASE k % 4 = 1
    <3>1. Hash!Low(a, k) = a[k - 1] /\ k - 1 \in 0 .. 15
      BY <2>3 DEF Hash!Low
    <3> QED
      BY <2>1, <3>1
  <2>4. CASE k % 4 = 2
    <3>1. Hash!Low(a, k) = a[k - 2] + 256 * a[k - 1]
      BY <2>4 DEF Hash!Low
    <3>2. k - 2 \in 0 .. 15 /\ k - 1 \in 0 .. 15
      BY <2>4
    <3> QED
      BY <2>1, <3>1, <3>2
  <2>5. CASE k % 4 = 3
    <3>1. Hash!Low(a, k) = a[k - 3] + 256 * a[k - 2] + 65536 * a[k - 1]
      BY <2>5 DEF Hash!Low
    <3>2. k - 3 \in 0 .. 15 /\ k - 2 \in 0 .. 15 /\ k - 1 \in 0 .. 15
      BY <2>5
    <3> QED
      BY <2>1, <3>1, <3>2
  <2> QED
    BY <2>2, <2>3, <2>4, <2>5
<1>2. ASSUME NEW k \in 0 .. 15 PROVE Hash!Carry(x, y, k) \in Nat
  <2> DEFINE d == <<1, 256, 65536, 16777216>>[(k % 4) + 1]
  <2>1. d \in Nat \ {0}
    OBVIOUS
  <2>2. Hash!Low(x, k) + Hash!Low(y, k) \in Nat
    BY <1>1
  <2>3. \A p \in Nat, q \in Nat \ {0} : p \div q \in Nat
    OBVIOUS
  <2> HIDE DEF d
  <2>4. Hash!Carry(x, y, k) = (Hash!Low(x, k) + Hash!Low(y, k)) \div d
    BY DEF Hash!Carry, d
  <2> QED
    BY <2>1, <2>2, <2>3, <2>4
<1>3. ASSUME NEW k \in 0 .. 15 PROVE (x[k] + y[k] + Hash!Carry(x, y, k)) % 256 \in Hash!Byte
  <2>1. x[k] \in Nat /\ y[k] \in Nat
    BY <1>0
  <2>2. x[k] + y[k] + Hash!Carry(x, y, k) \in Nat
    BY <1>2, <2>1
  <2>3. \A n \in Nat : n % 256 \in Hash!Byte
    BY DEF Hash!Byte
  <2> QED
    BY <2>2, <2>3
<1> QED
  BY <1>3 DEF Hash!AddWords, Hash!KeyBytes

LEMMA KeyTypesKept ==
  ASSUME DigestIsKey, KeyInv, KeyTypes, Hash!Next \/ UNCHANGED hashing
  PROVE  KeyTypes'
<1> USE DEF KeyInv
<1>0. Unset \notin Hash!KeyBytes
  BY KeyFacts
<1>1. CASE Hash!Copy
  <2>1. /\ Pass("copy", 3, "md5") /\ sessionKey' = sessionKey /\ md5' = md5
        /\ keys' = IF hashIndex = 3 THEN <<sessionKey>> ELSE keys
    BY <1>1, Order DEF Hash!Copy, Hash!hashVars
  <2>2. <<sessionKey>> \in Seq(Hash!KeyBytes)
    BY DEF KeyTypes
  <2> QED
    BY <2>1, <2>2 DEF KeyTypes, Pass
<1>2. CASE Hash!MD5Step
  <2>1. /\ Pass("md5", 63, "load") /\ sessionKey' = sessionKey /\ keys' = keys
        /\ md5' = IF hashIndex = 63 THEN Digest(hashRound, sessionKey) ELSE md5
    BY <1>2, Order DEF Hash!MD5Step
  <2>2. hashRound \in 0 .. 4
    BY <2>1 DEF Pass, Where
  <2>3. Digest(hashRound, sessionKey) \in Hash!KeyBytes
    BY <2>2 DEF DigestIsKey, KeyTypes
  <2> QED
    BY <1>0, <2>1, <2>3 DEF KeyTypes, Pass
<1>3. CASE Hash!Load \/ Hash!Scramble \/ Hash!Garble
  <2>1. UNCHANGED <<sessionKey, md5, keys>>
    BY <1>3 DEF Hash!Load, Hash!Scramble, Hash!Garble, Hash!hashVars
  <2>2. hashPhase \notin {"copy", "md5"}
    BY <1>3, Order DEF Pass
  <2> QED
    BY <2>1, <2>2 DEF KeyTypes
<1>4. CASE Hash!Fill \/ Hash!Fold \/ Hash!Unscramble
  <2>1. UNCHANGED <<md5, keys>>
    BY <1>4 DEF Hash!Fill, Hash!Fold, Hash!Unscramble, Hash!hashVars
  <2>2. hashPhase \notin {"copy", "md5"}
    BY <1>4, Order DEF Pass
  <2>3. sessionKey' \in Hash!KeyBytes
    BY <1>4, KeyByFill, KeyByFold, KeyByUnscramble
  <2> QED
    BY <2>1, <2>2, <2>3 DEF KeyTypes
<1>5. CASE Hash!Add
  <2>1. /\ hashPhase = "add" /\ md5' = md5
        /\ sessionKey' = Hash!AddWords(sessionKey, md5)
        /\ keys' = Append(keys, Hash!AddWords(sessionKey, md5))
    BY <1>5 DEF Hash!Add, Hash!hashVars
  <2>2. Hash!AddWords(sessionKey, md5) \in Hash!KeyBytes
    BY <2>1, SumIsKey DEF KeyTypes
  <2>3. keys' \in Seq(Hash!KeyBytes)
    BY <2>1, <2>2, AppendProperties DEF KeyTypes
  <2> QED
    BY <2>1, <2>2, <2>3 DEF KeyTypes
<1>6. CASE Hash!Finish
  <2>1. /\ hashPhase = "swap" /\ UNCHANGED <<md5, keys>>
        /\ sessionKey' = [k \in 0 .. 15 |-> XorByte(sessionKey[Hash!Turned(k)], 121)]
    BY <1>6 DEF Hash!Finish, Hash!hashVars
  <2>2. ASSUME NEW k \in 0 .. 15 PROVE XorByte(sessionKey[Hash!Turned(k)], 121) \in Hash!Byte
    <3>1. Hash!Turned(k) \in 0 .. 15
      BY DEF Hash!Turned
    <3>2. sessionKey[Hash!Turned(k)] \in Hash!Byte
      BY <3>1 DEF KeyTypes, Hash!KeyBytes
    <3>3. 121 \in Hash!Byte
      BY DEF Hash!Byte
    <3> QED
      BY <3>2, <3>3, XorKeyBytes
  <2>3. sessionKey' \in Hash!KeyBytes
    BY <2>1, <2>2 DEF Hash!KeyBytes
  <2> QED
    BY <2>1, <2>3 DEF KeyTypes
<1>7. CASE UNCHANGED hashing
  BY <1>7 DEF hashing, KeyTypes
<1>8. Hash!Returned => UNCHANGED hashing
  BY Order
<1> QED
  BY <1>1, <1>2, <1>3, <1>4, <1>5, <1>6, <1>7, <1>8 DEF Hash!Next

(* Every variable of both parts stays of its type, indices within the      *)
(* buffers they index, provided modified_md5 returns 16 bytes.             *)
THEOREM CallTypes ==
  ASSUME DigestIsKey
  PROVE  CallSpec => []CallTypeOK
<1>1. CallInit => KeyTypes
  <2> SUFFICES ASSUME CallInit PROVE KeyTypes
    OBVIOUS
  <2>1. /\ hashPhase = "copy" /\ md5 = Unset /\ keys = <<>>
        /\ sessionKey = [k \in Position |-> Number(InitialSessionKey[k])]
    BY DEF CallInit, Hash!Init
  <2> QED
    BY <2>1, KeyFacts DEF KeyTypes
<1>2. KeyInv /\ KeyTypes /\ [CallNext]_<<vars, hashing>> => KeyTypes'
  BY HashSteps, KeyTypesKept
<1>3. KeyInv /\ KeyTypes => Hash!TypeOK
  BY DEF KeyInv, KeyTypes, Where, Absorbing, Written, Buffers, Hash!TypeOK
<1>4. TypeOK /\ Hash!TypeOK => CallTypeOK
  BY DEF CallTypeOK
<1> QED
  BY <1>1, <1>2, <1>3, <1>4, KeyInvariance, DecryptionTypes, PTL DEF CallSpec
=============================================================================
