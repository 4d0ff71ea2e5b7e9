----------------------------- MODULE XXH3Words -----------------------------
(***************************************************************************)
(* The 64-bit words of xxhash.h and how a build reads and multiplies them, *)
(* at a smaller width: a word has WordBytes bytes of ByteBits bits, and a  *)
(* distance of n bits in the code is Bits(n) here.  Memory is a function   *)
(* from 0 to bytes; words are numbers and wrap.                            *)
(***************************************************************************)
EXTENDS Integers, Bitwise

CONSTANTS
  WordBytes,   \* sizeof(xxh_u64), 8; even
  ByteBits     \* 8; the product of two words must fit an integer of TLC

ASSUME WidthAssumption ==
  /\ WordBytes \in Nat \ {0} /\ WordBytes % 2 = 0
  /\ ByteBits \in Nat \ {0}

WordBits == WordBytes * ByteBits
HalfBits == WordBits \div 2

Bits(n) == (n * WordBits) \div 64

ByteValue == 0 .. 2^ByteBits - 1
Word == 0 .. 2^WordBits - 1
Half == 0 .. 2^HalfBits - 1

Lo(x) == x % 2^HalfBits
Hi(x) == x \div 2^HalfBits
Join(lo, hi) == lo + hi * 2^HalfBits

Wrap(x) == x % 2^WordBits
Srl(x, n) == x \div 2^n
Sll(x, n) == Wrap(x * 2^n)
rotl64(x, n) == Sll(x, n) + Srl(x, WordBits - n)

-----------------------------------------------------------------------------
(* Memory. *)

Sub(memory, at, len) == [j \in 0..len-1 |-> memory[at + j]]

ByteOf(x, j) == Srl(x, j * ByteBits) % 2^ByteBits

\* The word whose byte j, from the low end, is bytes[j].
FromBytes(bytes) ==
  LET upTo[n \in 0..WordBytes] ==
        IF n = 0 THEN 0
        ELSE upTo[n-1] + bytes[n-1] * 2^((n-1) * ByteBits)
  IN upTo[WordBytes]

swap64(x) == FromBytes([j \in 0..WordBytes-1 |-> ByteOf(x, WordBytes - 1 - j)])

\* In the order of the machine.
read64(memory, at, bigEndian) ==
  LET bytes == Sub(memory, at, WordBytes)
  IN IF bigEndian
     THEN FromBytes([j \in 0..WordBytes-1 |-> bytes[WordBytes - 1 - j]])
     ELSE FromBytes(bytes)

readLE64(memory, at, bigEndian) ==
  IF bigEndian THEN swap64(read64(memory, at, TRUE))
               ELSE read64(memory, at, FALSE)

-----------------------------------------------------------------------------
(* Arithmetic. *)

mult32to64(x, y) == Lo(x) * Lo(y)

mult32to64_add64(x, y, acc) == Wrap(mult32to64(x, y) + acc)

\* With a 128-bit integer of the compiler.
mult64to128_int128(x, y) ==
  [low64 |-> Wrap(x * y), high64 |-> (x * y) \div 2^WordBits]

mult64to128_portable(x, y) ==
  LET lo_lo == mult32to64(Lo(x), Lo(y))
      hi_lo == mult32to64(Hi(x), Lo(y))
      lo_hi == mult32to64(Lo(x), Hi(y))
      hi_hi == mult32to64(Hi(x), Hi(y))
      cross == Wrap(Hi(lo_lo) + Lo(hi_lo) + lo_hi)
      upper == Wrap(Hi(hi_lo) + Hi(cross) + hi_hi)
  IN [low64 |-> Sll(cross, HalfBits) | Lo(lo_lo), high64 |-> upper]

mul128_fold64(x, y, int128) ==
  LET product == IF int128 THEN mult64to128_int128(x, y)
                           ELSE mult64to128_portable(x, y)
  IN product.low64 ^^ product.high64

xorshift64(x, n) == x ^^ Srl(x, n)

\* The odd constants of the code, cut to the width.
PRIME32(p) == (p % 2^(HalfBits - 1)) + 2^(HalfBits - 1)
PRIME64(p) == (p % 2^(WordBits - 1)) + 2^(WordBits - 1)

PRIME32_1 == PRIME32(29)
PRIME_MX1 == PRIME64(1657)

avalanche(h) ==
  xorshift64(Wrap(xorshift64(h, Bits(37)) * PRIME_MX1), Bits(32))

=============================================================================
