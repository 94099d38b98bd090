---------------------------- MODULE ArithUint256 ----------------------------
(***************************************************************************)
(* The fixed-width unsigned arithmetic of arith_uint256 and its compact    *)
(* ("nBits") encoding, as used by the retarget engine.  arith_uint256.cpp  *)
(* is not among the sources, so these operators follow spec sections 4.2   *)
(* and 4.3 and the well-known compact format: a 32-bit value whose top     *)
(* byte is the length in bytes and whose low 23 bits are the mantissa,     *)
(* with bit 23 a sign bit.                                                 *)
(*                                                                         *)
(* A number of width W is a function from byte positions 0 .. W-1 (least   *)
(* significant first) to 0 .. 255, so that 256-bit values fit TLC's       *)
(* integers.  Products and quotients by a machine integer are computed     *)
(* byte by byte; a product wider than W bytes is truncated, which is what  *)
(* arith_uint256's operator*= does at W = 32.                              *)
(***************************************************************************)
EXTENDS Integers, FiniteSetsExt

WIDTH == 32   \* arith_uint256: 256 bits

Bytes(W) == [0 .. W - 1 -> 0 .. 255]

\* Byte i of a, zero above its width.
ByteAt(a, i) == IF i \in DOMAIN a THEN a[i] ELSE 0

WidthOf(a) == CHOOSE w \in 0 .. 64 : DOMAIN a = 0 .. w - 1

FromNat(n, W) == [i \in 0 .. W - 1 |-> (n \div (256 ^ i)) % 256]

IsZero(a) == \A i \in DOMAIN a : a[i] = 0

\* a < b: at the most significant byte where they differ, a's is smaller.
LessThan(a, b) ==
    LET D == DOMAIN a \cup DOMAIN b
    IN \E i \in D : /\ ByteAt(a, i) < ByteAt(b, i)
                    /\ \A j \in D : j > i => ByteAt(a, j) = ByteAt(b, j)

AtMost(a, b) == ~LessThan(b, a)

NonZeroBytes(a) == {i \in DOMAIN a : a[i] # 0}

(***************************************************************************)
(* a * m for a machine integer 0 <= m < 2^16, truncated to W bytes: byte i *)
(* is a[i] * m plus the carry out of byte i-1, modulo 256.  The carry is   *)
(* zero below a's lowest non-zero byte, and (as it is below m) dies out    *)
(* two bytes above a's highest one, so the carry chain is only followed   *)
(* where it can be non-zero.                                               *)
(***************************************************************************)
MulSmall(a, m, W) ==
    LET NZ == NonZeroBytes(a)
        carry[i \in 0 .. W] ==
            IF NZ = {} \/ i <= Min(NZ) \/ i > Max(NZ) + 2 THEN 0
            ELSE (ByteAt(a, i - 1) * m + carry[i - 1]) \div 256
    IN [i \in 0 .. W - 1 |-> (ByteAt(a, i) * m + carry[i]) % 256]

\* b^k mod d, by halving k (0 < d < 46341, so that squares fit).
RECURSIVE PowMod(_, _, _)
PowMod(b, k, d) ==
    IF k = 0 THEN 1 % d
    ELSE LET h == PowMod(b, k \div 2, d)
             sq == (h * h) % d
         IN IF k % 2 = 0 THEN sq ELSE (sq * (b % d)) % d

(***************************************************************************)
(* a / d for a machine integer d > 0, rounded down.  Long division from    *)
(* the top: quotient byte i is (r * 256 + a[i]) / d where r is the value   *)
(* of the bytes above i modulo d, a sum over a's non-zero bytes only.      *)
(***************************************************************************)
DivSmall(a, d) ==
    LET NZ == NonZeroBytes(a)
        Rem(i) == MapThenSumSet(LAMBDA j : (a[j] * PowMod(256, j - i - 1, d)) % d,
                                {j \in NZ : j > i}) % d
    IN [i \in DOMAIN a |-> (Rem(i) * 256 + a[i]) \div d]

\* Number of significant bytes: (bits() + 7) / 8.
ByteLength(a) ==
    IF IsZero(a) THEN 0
    ELSE 1 + (CHOOSE i \in DOMAIN a : a[i] # 0 /\ \A j \in DOMAIN a : j > i => a[j] = 0)

(***************************************************************************)
(* SetCompact(nCompact): the 256-bit value, and the fNegative and          *)
(* fOverflow flags.  The mantissa is shifted left by nSize - 3 bytes (bits *)
(* shifted past the top are lost) or right by 3 - nSize bytes.             *)
(***************************************************************************)
SetCompact(nCompact) ==
    LET nSize == nCompact \div (2 ^ 24)
        nWord == nCompact % (2 ^ 23)
        val   == IF nSize <= 3
                 THEN FromNat(nWord \div (256 ^ (3 - nSize)), WIDTH)
                 ELSE [i \in 0 .. WIDTH - 1 |->
                         IF i - (nSize - 3) \in 0 .. 2
                         THEN (nWord \div (256 ^ (i - (nSize - 3)))) % 256 ELSE 0]
    IN [val      |-> val,
        negative |-> nWord # 0 /\ (nCompact \div (2 ^ 23)) % 2 = 1,
        overflow |-> nWord # 0 /\ (nSize > 34 \/ (nWord > 255 /\ nSize > 33)
                                              \/ (nWord > 65535 /\ nSize > 32))]

GetCompactNoSignShift(a) ==
    LET nSize == ByteLength(a)
        word  == IF nSize <= 3
                 THEN (ByteAt(a, 0) + 256 * ByteAt(a, 1) + 65536 * ByteAt(a, 2)) * 256 ^ (3 - nSize)
                 ELSE a[nSize - 1] * 65536 + a[nSize - 2] * 256 + a[nSize - 3]
    IN nSize * 2 ^ 24 + word

(***************************************************************************)
(* GetCompact() of a non-negative value: the top three significant bytes   *)
(* as mantissa; a mantissa with bit 23 set would read as negative, so it   *)
(* is shifted down one byte and the size incremented.                      *)
(***************************************************************************)
GetCompact(a) ==
    LET nSize == ByteLength(a)
        word  == IF nSize <= 3
                 THEN (ByteAt(a, 0) + 256 * ByteAt(a, 1) + 65536 * ByteAt(a, 2)) * 256 ^ (3 - nSize)
                 ELSE a[nSize - 1] * 65536 + a[nSize - 2] * 256 + a[nSize - 3]
    IN IF word >= 2 ^ 23 THEN (nSize + 1) * 2 ^ 24 + word \div 256
       ELSE nSize * 2 ^ 24 + word

\* A compact value (size byte at most 34) whose sign bit is clear.
IsCompact(c) == c \in 0 .. 35 * 2 ^ 24 - 1 /\ (c \div (2 ^ 23)) % 2 = 0

=============================================================================
