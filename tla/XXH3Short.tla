----------------------------- MODULE XXH3Short -----------------------------
(***************************************************************************)
(* XXH3_64bits of an input of at most XXH3_MIDSIZE_MAX bytes, without a    *)
(* seed: what a digest of a short file is, and what every build of         *)
(* xxhash.h makes of it.  The sizes and the offsets are those of the code. *)
(*                                                                         *)
(* Byte i of the input and byte i of the secret are names.  A byte of a    *)
(* word is the set of the names xored in it, a word the sequence of its    *)
(* bytes from the low end, and a sum a bag, as additions commute.  The     *)
(* multiplications and the final avalanche are not interpreted here:       *)
(* XXH3Words has them.  Two hashes are equal when they are made alike.     *)
(*                                                                         *)
(* An operator Name_Change is Name with a change that a slip in the code   *)
(* could make; nothing uses it (the README names the property it breaks).  *)
(***************************************************************************)
EXTENDS Integers, Sequences, FiniteSets, SequencesExt

CONSTANTS
  Builds    \* the builds compared, each a Build

\* How a build reads words and unrolls.
Build == [bigEndian : BOOLEAN,   \* of the machine
          byByte : BOOLEAN,      \* XXH_FORCE_MEMORY_ACCESS is 3
          sizeOpt : BOOLEAN]     \* XXH_SIZE_OPT >= 1

SECRET_SIZE == 192
SECRET_SIZE_MIN == 136
MIDSIZE_MAX == 240
MIDSIZE_STARTOFFSET == 3
MIDSIZE_LASTOFFSET == 17

VARIABLES
  len,    \* bytes of the input
  hash    \* hash[b]: what build b makes of them

vars == <<len, hash>>

-----------------------------------------------------------------------------
(* Words. *)

Byte(memory, i) == {<<memory, i>>}

BytesAt(memory, at, n) == [j \in 1..n |-> Byte(memory, at + j - 1)]

swap(word) == Reverse(word)

\* In the order of the machine, as a number: the low end first.
read(b, memory, at, n) ==
  IF b.bigEndian THEN Reverse(BytesAt(memory, at, n))
                 ELSE BytesAt(memory, at, n)

readLE(b, memory, at, n) ==
  IF b.byByte THEN BytesAt(memory, at, n)
  ELSE IF b.bigEndian THEN swap(read(b, memory, at, n))
  ELSE read(b, memory, at, n)

readLE32(b, memory, at) == readLE(b, memory, at, 4)
readLE64(b, memory, at) == readLE(b, memory, at, 8)

Xor(u, v) == [j \in DOMAIN u |-> SymDiff(u[j], v[j])]

SumOf(terms) ==
  [t \in ToSet(terms) |-> Cardinality({i \in DOMAIN terms : terms[i] = t})]

\* What the last mixing, by, is given.
OfWords(by, n, words) == [by |-> by, len |-> n, words |-> words]

OfSums(n, acc, acc_end) ==
  [by |-> "avalanche", len |-> n,
   acc |-> SumOf(acc), acc_end |-> SumOf(acc_end)]

-----------------------------------------------------------------------------
(* Up to 16 bytes. *)

len_1to3_64b(b, n) ==
  LET combined == <<Byte("input", n - 1), {<<"length", n>>}, Byte("input", 0),
                Byte("input", n \div 2)>>
      bitflip  == Xor(readLE32(b, "secret", 0), readLE32(b, "secret", 4))
  IN OfWords("XXH64_avalanche", n, <<Xor(combined, bitflip)>>)

len_4to8_64b(b, n) ==
  LET input1  == readLE32(b, "input", 0)
      input2  == readLE32(b, "input", n - 4)
      bitflip == Xor(readLE64(b, "secret", 8), readLE64(b, "secret", 16))
  IN OfWords("rrmxmx", n, <<Xor(input2 \o input1, bitflip)>>)

\* A sum of these three and of the product of the last two, folded.
len_9to16_64b(b, n) ==
  LET bitflip1 == Xor(readLE64(b, "secret", 24), readLE64(b, "secret", 32))
      bitflip2 == Xor(readLE64(b, "secret", 40), readLE64(b, "secret", 48))
      input_lo == Xor(readLE64(b, "input", 0), bitflip1)
      input_hi == Xor(readLE64(b, "input", n - 8), bitflip2)
  IN OfWords("avalanche", n, <<swap(input_lo), input_lo, input_hi>>)

len_0to16_64b(b, n) ==
  CASE n > 8      -> len_9to16_64b(b, n)
    [] n \in 4..8 -> len_4to8_64b(b, n)
    [] n \in 1..3 -> len_1to3_64b(b, n)
    [] n = 0      ->
         OfWords("XXH64_avalanche", 0,
                 <<Xor(readLE64(b, "secret", 56), readLE64(b, "secret", 64))>>)

-----------------------------------------------------------------------------
(* Up to 240 bytes: 16 bytes of the input with 16 of the secret at a time. *)

Chunk(input, secret) == [input |-> input, secret |-> secret]

\* The fold of the product of lo and hi.
mix16B(b, chunk) ==
  [lo |-> Xor(readLE64(b, "input", chunk.input),
              readLE64(b, "secret", chunk.secret)),
   hi |-> Xor(readLE64(b, "input", chunk.input + 8),
              readLE64(b, "secret", chunk.secret + 8))]

Mixes(b, chunks) == [i \in DOMAIN chunks |-> mix16B(b, chunks[i])]

\* From both ends inwards, the middle first.
Chunks17to128Loop(n) ==
  LET rounds == (n - 1) \div 32 + 1
  IN FlattenSeq([k \in 1..rounds |->
       LET i == rounds - k
       IN <<Chunk(16 * i, 32 * i), Chunk(n - 16 * (i + 1), 32 * i + 16)>>])

Chunks17to128_Boundary(n) ==
  (IF n >= 96 THEN <<Chunk(48, 96), Chunk(n - 64, 112)>> ELSE <<>>)
  \o (IF n > 64 THEN <<Chunk(32, 64), Chunk(n - 48, 80)>> ELSE <<>>)
  \o (IF n > 32 THEN <<Chunk(16, 32), Chunk(n - 32, 48)>> ELSE <<>>)
  \o <<Chunk(0, 0), Chunk(n - 16, 16)>>

Chunks17to128(n) ==
  (IF n > 96 THEN <<Chunk(48, 96), Chunk(n - 64, 112)>> ELSE <<>>)
  \o (IF n > 64 THEN <<Chunk(32, 64), Chunk(n - 48, 80)>> ELSE <<>>)
  \o (IF n > 32 THEN <<Chunk(16, 32), Chunk(n - 32, 48)>> ELSE <<>>)
  \o <<Chunk(0, 0), Chunk(n - 16, 16)>>

len_17to128_64b(b, n) ==
  OfSums(n,
    Mixes(b, IF b.sizeOpt THEN Chunks17to128Loop(n) ELSE Chunks17to128(n)),
    <<>>)

\* The first 128 bytes, which are avalanched on their own.
FirstChunks == [k \in 1..8 |-> Chunk(16 * (k - 1), 16 * (k - 1))]

LaterChunks_NoAdvance(n) ==
  <<Chunk(n - 16, SECRET_SIZE_MIN - MIDSIZE_LASTOFFSET)>>
  \o [k \in 1..(n \div 16 - 8) |-> Chunk(16 * (k + 7), MIDSIZE_STARTOFFSET)]

LaterChunks_OneLess(n) ==
  <<Chunk(n - 16, SECRET_SIZE_MIN - MIDSIZE_LASTOFFSET)>>
  \o [k \in 1..(n \div 16 - 9) |->
        Chunk(16 * (k + 7), 16 * (k - 1) + MIDSIZE_STARTOFFSET)]

\* The last 16 bytes, then what lies between.
LaterChunks(n) ==
  <<Chunk(n - 16, SECRET_SIZE_MIN - MIDSIZE_LASTOFFSET)>>
  \o [k \in 1..(n \div 16 - 8) |->
        Chunk(16 * (k + 7), 16 * (k - 1) + MIDSIZE_STARTOFFSET)]

len_129to240_64b(b, n) ==
  OfSums(n, Mixes(b, FirstChunks), Mixes(b, LaterChunks(n)))

Hash(b, n) ==
  CASE n <= 16                  -> len_0to16_64b(b, n)
    [] n \in 17..128            -> len_17to128_64b(b, n)
    [] n \in 129..MIDSIZE_MAX   -> len_129to240_64b(b, n)

-----------------------------------------------------------------------------
(* An input that grows by a byte, hashed from the start each time. *)

Init ==
  /\ len = 0
  /\ hash = [b \in Builds |-> Hash(b, 0)]

Grow ==
  /\ len < MIDSIZE_MAX
  /\ len' = len + 1
  /\ hash' = [b \in Builds |-> Hash(b, len')]

Next == Grow

Spec == Init /\ [][Next]_vars

-----------------------------------------------------------------------------
(* Properties. *)

\* xxhash.h:1093, "all implementations generate exactly the same hash value on
\* all platforms": whatever the byte order of the machine, the way words are
\* read and the loops that are unrolled.
BuildsAgree == \A a, b \in Builds : hash[a] = hash[b]

Cells(words) == UNION {ToSet(w) : w \in words}

Terms(h) == DOMAIN h.acc \cup DOMAIN h.acc_end

\* The names of all the bytes a hash is made of.
MadeOf(h) ==
  UNION (IF "words" \in DOMAIN h THEN Cells(ToSet(h.words))
         ELSE Cells({t.lo : t \in Terms(h)} \cup {t.hi : t \in Terms(h)}))

\* Every byte of the input is read and enters a product, no byte before or after
\* the input does, and the secret is read within its 136 bytes: no chunk is left
\* out at any length, and no overlapping read of the last one leaves the buffer.
\* Products are not interpreted, so this does not say that each byte changes the
\* hash: it need not, from 17 bytes on, where eight bytes equal to their part of the
\* secret hide the other eight ("multiplication by zero", xxhash.h:4739-4756).
EveryByteIsRead ==
  \A b \in Builds :
    LET used(kind) == {atom[2] : atom \in {a \in MadeOf(hash[b]) : a[1] = kind}}
    IN /\ used("input") = 0..len-1
       /\ used("secret") \subseteq 0..SECRET_SIZE_MIN-1
       /\ used("secret") # {}

\* In a sum each chunk has bytes of the secret of its own, at the least in one
\* place: two chunks of the input exchanged do not give the sum they gave.
ChunksDoNotCommute ==
  \A b \in Builds :
    "acc" \in DOMAIN hash[b] =>
      \A sum \in {hash[b].acc, hash[b].acc_end} :
        LET key(t) == [j \in 1..8 |-> {a \in t.lo[j] : a[1] = "secret"}]
        IN \A t, u \in DOMAIN sum : sum[t] = 1 /\ (t # u => key(t) # key(u))

=============================================================================
