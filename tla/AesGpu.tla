------------------------------- MODULE AesGpu -------------------------------
(***************************************************************************)
(* The AES-128-CTR kernel of gpu/aes_gpu.cu (the other GPU programs carry  *)
(* copies of it): tables, key schedule, one block, and the grid of threads *)
(* that encrypt a buffer, one block each, in any order.  A step is one     *)
(* word of the key schedule or one round of one thread; the reference is   *)
(* FIPS-197, arithmetic in GF(2^8) without tables.  Bytes are 0..255, a    *)
(* block is a sequence of 16 bytes; C's s[i] is s[i + 1] here.             *)
(***************************************************************************)
EXTENDS Naturals, Sequences, Bitwise, SequencesExt

CONSTANTS
    AeKeys,      \* 16-byte keys
    AeBases,     \* first counter values; base + idx stays below 2^31
    AeBlocks,    \* nblocks of the buffer
    AeThreads    \* threads of the grid, at least nblocks

ASSUME AeAssumption == AeBlocks \in Nat \ {0} /\ AeThreads >= AeBlocks

VARIABLES
    aePh,        \* off, keys in key_expand(), run while the kernel runs
    aeRk,        \* rk[]: the bytes of the key schedule so far
    aeBase,
    aeS,         \* per thread: the block s[] in encrypt_block(), <<>> outside
    aeRound,     \* per thread: rounds done, 11 when it has returned
    aeData       \* the buffer, block by block

aeVars == <<aePh, aeRk, aeBase, aeS, aeRound, aeData>>

AeGrid == 0..(AeThreads - 1)

-----------------------------------------------------------------------------
(* aes_gpu.cu *)

AeSbox == <<
    99, 124, 119, 123, 242, 107, 111, 197, 48, 1, 103, 43, 254, 215, 171, 118, 202, 130, 201, 125, 250, 89, 71, 240, 173, 212, 162, 175, 156, 164, 114, 192,
    183, 253, 147, 38, 54, 63, 247, 204, 52, 165, 229, 241, 113, 216, 49, 21, 4, 199, 35, 195, 24, 150, 5, 154, 7, 18, 128, 226, 235, 39, 178, 117,
    9, 131, 44, 26, 27, 110, 90, 160, 82, 59, 214, 179, 41, 227, 47, 132, 83, 209, 0, 237, 32, 252, 177, 91, 106, 203, 190, 57, 74, 76, 88, 207,
    208, 239, 170, 251, 67, 77, 51, 133, 69, 249, 2, 127, 80, 60, 159, 168, 81, 163, 64, 143, 146, 157, 56, 245, 188, 182, 218, 33, 16, 255, 243, 210,
    205, 12, 19, 236, 95, 151, 68, 23, 196, 167, 126, 61, 100, 93, 25, 115, 96, 129, 79, 220, 34, 42, 144, 136, 70, 238, 184, 20, 222, 94, 11, 219,
    224, 50, 58, 10, 73, 6, 36, 92, 194, 211, 172, 98, 145, 149, 228, 121, 231, 200, 55, 109, 141, 213, 78, 169, 108, 86, 244, 234, 101, 122, 174, 8,
    186, 120, 37, 46, 28, 166, 180, 198, 232, 221, 116, 31, 75, 189, 139, 138, 112, 62, 181, 102, 72, 3, 246, 14, 97, 53, 87, 185, 134, 193, 29, 158,
    225, 248, 152, 17, 105, 217, 142, 148, 155, 30, 135, 233, 206, 85, 40, 223, 140, 161, 137, 13, 191, 230, 66, 104, 65, 153, 45, 15, 176, 84, 187, 22>>

AeRcon == <<1, 2, 4, 8, 16, 32, 64, 128, 27, 54>>

AeSub(x) == AeSbox[x + 1]
AeXorAll(a, b) == <<>> \o [i \in DOMAIN a |-> a[i] ^^ b[i]]
AeXors(bytes) == FoldLeft(^^, 0, bytes)
AeRoundKey(r) == SubSeq(aeRk, 16 * r + 1, 16 * r + 16)

\* key_expand(): word i from words i-1 and i-4.
AeKeyWord(rk, i) ==
    LET t == SubSeq(rk, 4 * (i - 1) + 1, 4 * i)
        u == IF i % 4 = 0 THEN <<AeSub(t[2]) ^^ AeRcon[i \div 4], AeSub(t[3]), AeSub(t[4]), AeSub(t[1])>> ELSE t
    IN  rk \o AeXorAll(SubSeq(rk, 4 * (i - 4) + 1, 4 * (i - 3)), u)

\* Mutant: x<<1 is cut to a byte but not reduced.
AeXtimeUnreduced(x) == (2 * x) % 256

AeXtime(x) == ((2 * x) % 256) ^^ ((x \div 128) * 27)

\* The assignments of ShiftRows: where the new s[i] comes from.
AeShiftRows(s) ==
    LET from == <<0, 5, 10, 15, 4, 9, 14, 3, 8, 13, 2, 7, 12, 1, 6, 11>>
    IN  [i \in 1..16 |-> s[from[i] + 1]]

\* p[r] ^= h ^ xtime(a[r] ^ a[r+1]) in each column.
AeMixColumns(s) ==
    [i \in 1..16 |->
        LET c == 4 * ((i - 1) \div 4)
            h == AeXors(SubSeq(s, c + 1, c + 4))
        IN  AeXors(<<s[i], h, AeXtime(s[i] ^^ s[c + (i % 4) + 1])>>)]

\* ctr[15-i] = c >> (8*i), eight zero bytes before.
AeCtr(c) == [i \in 1..16 |-> IF i <= 12 THEN 0 ELSE (c \div 256^(16 - i)) % 256]

AePlain == [i \in 1..16 |-> 171]

AeInit ==
    /\ aePh = "off" /\ aeRk = <<>> /\ aeBase = 0
    /\ aeS = [idx \in AeGrid |-> <<>>] /\ aeRound = [idx \in AeGrid |-> 0]
    /\ aeData = [b \in AeGrid |-> AePlain]

AeLaunch(key, base) ==
    /\ aePh = "off" /\ aePh' = "keys"
    /\ aeRk' = key /\ aeBase' = base
    /\ UNCHANGED <<aeS, aeRound, aeData>>

\* The loop of key_expand(); with the last word the grid is launched.
AeKeyExpand ==
    /\ aePh = "keys"
    /\ LET i == Len(aeRk) \div 4
       IN  aeRk' = AeKeyWord(aeRk, i) /\ aePh' = IF i = 43 THEN "run" ELSE "keys"
    /\ UNCHANGED <<aeBase, aeS, aeRound, aeData>>

\* aes_ctr_kernel() up to the first AddRoundKey; a thread behind the buffer returns.
AeKernel(idx) ==
    /\ aePh = "run" /\ aeRound[idx] = 0 /\ aeS[idx] = <<>>
    /\ IF idx >= AeBlocks
       THEN aeRound' = [aeRound EXCEPT ![idx] = 11] /\ aeS' = aeS
       ELSE aeS' = [aeS EXCEPT ![idx] = AeXorAll(AeCtr(aeBase + idx), AeRoundKey(0))] /\ aeRound' = aeRound
    /\ UNCHANGED <<aePh, aeRk, aeBase, aeData>>

\* One round of encrypt_block().
AeEncryptBlock(idx) ==
    /\ aeRound[idx] < 10 /\ aeS[idx] # <<>>
    /\ LET r == aeRound[idx] + 1
           t == AeShiftRows([i \in 1..16 |-> AeSub(aeS[idx][i])])
           m == IF r # 10 THEN AeMixColumns(t) ELSE t
       IN  aeS' = [aeS EXCEPT ![idx] = AeXorAll(m, AeRoundKey(r))] /\ aeRound' = [aeRound EXCEPT ![idx] = r]
    /\ UNCHANGED <<aePh, aeRk, aeBase, aeData>>

\* The keystream is XORed onto the thread's block.
AeStore(idx) ==
    /\ aeRound[idx] = 10
    /\ aeData' = [aeData EXCEPT ![idx] = AeXorAll(@, aeS[idx])]
    /\ aeS' = [aeS EXCEPT ![idx] = <<>>] /\ aeRound' = [aeRound EXCEPT ![idx] = 11]
    /\ UNCHANGED <<aePh, aeRk, aeBase>>

AeNext ==
    \/ \E key \in AeKeys, base \in AeBases : AeLaunch(key, base)
    \/ AeKeyExpand
    \/ \E idx \in AeGrid : AeKernel(idx) \/ AeEncryptBlock(idx) \/ AeStore(idx)

-----------------------------------------------------------------------------
(* FIPS-197; the table is checked by itself, with AeIsSubByte *)

\* x times y: y's bits from the highest, with reduction by x^8+x^4+x^3+x+1.
AeMul(x, y) ==
    LET Step(acc, b) ==
            LET d == IF acc >= 128 THEN (2 * acc) ^^ 283 ELSE 2 * acc
            IN  IF (y \div 2^(8 - b)) % 2 = 1 THEN d ^^ x ELSE d
    IN  FoldLeft(Step, 0, <<1, 2, 3, 4, 5, 6, 7, 8>>)

\* y is the affine map of x's inverse (of 0 for 0).
AeIsSubByte(x, y) ==
    LET Rotl(n) == ((y * 2^n) % 256) + (y \div 2^(8 - n))
        v == AeXors(<<Rotl(1), Rotl(3), Rotl(6), 5>>)
    IN  IF x = 0 THEN v = 0 ELSE AeMul(x, v) = 1

\* Row r of the state is rotated left by r; column c is s[4c+1..4c+4].
AeRefRound(s, r, key) ==
    LET t == <<>> \o [i \in 1..16 |-> AeSub(s[(((i - 1) + 4 * ((i - 1) % 4)) % 16) + 1])]
        A(i, k) == t[4 * ((i - 1) \div 4) + ((i - 1 + k) % 4) + 1]
        m == [i \in 1..16 |-> AeXors(<<AeMul(A(i, 0), 2), AeMul(A(i, 1), 3), A(i, 2), A(i, 3)>>)]
    IN  AeXorAll(IF r = 10 THEN t ELSE m, key)

\* RotWord, SubWord and x^(i/4 - 1) at every fourth word.
AeRefWord(w, i) ==
    LET t == SubSeq(w, 4 * i - 3, 4 * i)
        r == [j \in 1..4 |-> AeSub(t[(j % 4) + 1])]
        rcon == FoldLeft(LAMBDA a, j : AeMul(a, 2), 1, [j \in 1..((i \div 4) - 1) |-> j])
        u == IF i % 4 = 0 THEN [r EXCEPT ![1] = @ ^^ rcon] ELSE t
    IN  w \o AeXorAll(SubSeq(w, 4 * i - 15, 4 * i - 12), u)

\* A block read as a big-endian number.
AeValue(s) == FoldLeft(LAMBDA acc, x : 256 * acc + x, 0, s)

\* "correctness vs OpenSSL AES-128": every word of the schedule and every
\* round of every thread is the standard's, SBOX is the standard's for all
\* bytes, the counter block of block b is the big-endian number base + b, and
\* its keystream is XORed onto block b after ten rounds, onto no other block
\* and none behind the buffer.
AeStandard ==
    [][/\ aePh # aePh' /\ aePh = "off" => \A x \in 0..255 : AeIsSubByte(x, AeSub(x))
       /\ aeRk # aeRk' /\ aePh = "keys" => aeRk' = AeRefWord(aeRk, Len(aeRk) \div 4)
       /\ \A b \in AeGrid :
            /\ aeS'[b] \notin {aeS[b], <<>>} =>
                 IF aeS[b] = <<>> THEN AeValue(AeXorAll(aeS'[b], SubSeq(aeRk, 1, 16))) = aeBase + b
                 ELSE aeS'[b] = AeRefRound(aeS[b], aeRound'[b], AeRoundKey(aeRound'[b]))
            /\ aeData'[b] # aeData[b] =>
                 aeRound[b] = 10 /\ b < AeBlocks /\ aeData'[b] = AeXorAll(AePlain, aeS[b])]_aeVars
=============================================================================
