---------------------------- MODULE XXH3Vectors ----------------------------
(***************************************************************************)
(* The accumulate and scramble loops of xxhash.h, one per instruction set. *)
(* A vector is a function from 0 to words, in the order of its elements in *)
(* memory; acc is the vector of all lanes.  The intrinsics are modelled    *)
(* element by element.                                                     *)
(*                                                                         *)
(* An operator Name_Change is Name with a change that a slip in the code   *)
(* could make; nothing uses it (the README names the property it breaks).  *)
(***************************************************************************)
EXTENDS XXH3Words

ACC_NB == 8
STRIPE_LEN == ACC_NB * WordBytes
SECRET_CONSUME_RATE == WordBytes

Lane == 0..ACC_NB-1

-----------------------------------------------------------------------------
(* Vectors of words. *)

loadu(memory, at, n) ==
  [j \in 0..n-1 |-> read64(memory, at + j * WordBytes, FALSE)]

VXor(u, v) == [j \in DOMAIN u |-> u[j] ^^ v[j]]
VAdd(u, v) == [j \in DOMAIN u |-> Wrap(u[j] + v[j])]
VSrl(v, n) == [j \in DOMAIN v |-> Srl(v[j], n)]
VSll(v, n) == [j \in DOMAIN v |-> Sll(v[j], n)]
VMul(v, x) == [j \in DOMAIN v |-> Wrap(v[j] * x)]
VXorshift(v) == VXor(v, VSrl(v, Bits(47)))

\* The low halves of each element, multiplied.
mul_epu32(u, v) == [j \in DOMAIN u |-> mult32to64(u[j], v[j])]

Splat(v, x) == [j \in DOMAIN v |-> x]

\* _mm_shuffle_epi32 with _MM_SHUFFLE(z, y, x, w): the four halves of every
\* 128 bits become the halves w, x, y, z of them.
shuffle_epi32(v, z, y, x, w) ==
  LET half(k) == IF k % 2 = 0 THEN Lo(v[k \div 2]) ELSE Hi(v[k \div 2])
  IN [j \in DOMAIN v |->
        LET group == 4 * (j \div 2)
        IN IF j % 2 = 0 THEN Join(half(group + w), half(group + x))
                        ELSE Join(half(group + y), half(group + z))]

\* Elements in pairs, the two of a pair exchanged.
SwapPairs(v) == [j \in DOMAIN v |-> v[j ^^ 1]]

Part(acc, at, n) == [j \in 0..n-1 |-> acc[at + j]]

\* acc from what Round makes of every n lanes of it; Round takes the first.
PerVector(n, Round(_)) ==
  LET done == [i \in 0..(ACC_NB \div n)-1 |-> Round(i * n)]
  IN [l \in Lane |-> done[l \div n][l % n]]

-----------------------------------------------------------------------------
(* Scalar. *)

scalarRound_ProductOnly(acc, input, secret, lane, bigEndian) ==
  LET data_key == readLE64(input, lane * WordBytes, bigEndian)
                  ^^ readLE64(secret, lane * WordBytes, bigEndian)
  IN [acc EXCEPT ![lane] =
        mult32to64_add64(data_key, Srl(data_key, HalfBits), @)]

scalarRound(acc, input, secret, lane, bigEndian) ==
  LET data_val == readLE64(input, lane * WordBytes, bigEndian)
      data_key == data_val ^^ readLE64(secret, lane * WordBytes, bigEndian)
      added    == [acc EXCEPT ![lane ^^ 1] = Wrap(@ + data_val)]
  IN [added EXCEPT ![lane] =
        mult32to64_add64(data_key, Srl(data_key, HalfBits), @)]

\* Lanes from the given one to the last.
ScalarLanes(from, acc, input, secret, bigEndian) ==
  LET after[l \in from..ACC_NB] ==
        IF l = from THEN acc
        ELSE scalarRound(after[l-1], input, secret, l - 1, bigEndian)
  IN after[ACC_NB]

accumulate_512_scalar(acc, input, secret, bigEndian) ==
  ScalarLanes(0, acc, input, secret, bigEndian)

scalarScrambleRound(acc, secret, lane, bigEndian) ==
  [acc EXCEPT ![lane] =
     Wrap((xorshift64(@, Bits(47))
           ^^ readLE64(secret, lane * WordBytes, bigEndian)) * PRIME32_1)]

ScrambleLanes(from, acc, secret, bigEndian) ==
  LET after[l \in from..ACC_NB] ==
        IF l = from THEN acc
        ELSE scalarScrambleRound(after[l-1], secret, l - 1, bigEndian)
  IN after[ACC_NB]

scrambleAcc_scalar(acc, secret, bigEndian) ==
  ScrambleLanes(0, acc, secret, bigEndian)

-----------------------------------------------------------------------------
(* x86 and LoongArch: little endian.  The high halves come by a shift, in  *)
(* SSE2 by a shuffle.                                                      *)

HighHalves(by, v) ==
  CASE by = "shift"   -> VSrl(v, HalfBits)
    [] by = "shuffle" -> shuffle_epi32(v, 0, 3, 0, 1)

RoundBy(by, acc, input, secret, at, n) ==
  LET data_vec == loadu(input, at * WordBytes, n)
      data_key == VXor(data_vec, loadu(secret, at * WordBytes, n))
      product  == mul_epu32(data_key, HighHalves(by, data_key))
      sum      == VAdd(Part(acc, at, n), shuffle_epi32(data_vec, 1, 0, 3, 2))
  IN VAdd(product, sum)

accumulate_512_avx512(acc, input, secret) ==
  RoundBy("shift", acc, input, secret, 0, 8)

accumulate_512_avx2(acc, input, secret) ==
  PerVector(4, LAMBDA at : RoundBy("shift", acc, input, secret, at, 4))

accumulate_512_sse2(acc, input, secret) ==
  PerVector(2, LAMBDA at : RoundBy("shuffle", acc, input, secret, at, 2))

accumulate_512_lsx(acc, input, secret) ==
  PerVector(2, LAMBDA at : RoundBy("shift", acc, input, secret, at, 2))

accumulate_512_lasx(acc, input, secret) ==
  PerVector(4, LAMBDA at : RoundBy("shift", acc, input, secret, at, 4))

\* data_key * PRIME32_1 from two products of halves.
TimesPrime(by, data_key) ==
  LET prime32 == Splat(data_key, Join(PRIME32_1, PRIME32_1))
      prod_lo == mul_epu32(data_key, prime32)
      prod_hi == mul_epu32(HighHalves(by, data_key), prime32)
  IN VAdd(prod_lo, VSll(prod_hi, HalfBits))

\* The lanes from at, xorshifted, with the key.
Keyed(acc, secret, at, n) ==
  VXor(VXorshift(Part(acc, at, n)), loadu(secret, at * WordBytes, n))

\* One instruction xors the three.
scrambleAcc_avx512(acc, secret) ==
  LET key_vec == loadu(secret, 0, 8)
  IN TimesPrime("shift", VXor(VXor(key_vec, acc), VSrl(acc, Bits(47))))

scrambleAcc_avx2(acc, secret) ==
  PerVector(4, LAMBDA at : TimesPrime("shift", Keyed(acc, secret, at, 4)))

scrambleAcc_sse2(acc, secret) ==
  PerVector(2, LAMBDA at : TimesPrime("shuffle", Keyed(acc, secret, at, 2)))

\* A full multiply.
scrambleAcc_lsx(acc, secret) ==
  PerVector(2, LAMBDA at : VMul(Keyed(acc, secret, at, 2), PRIME32_1))

scrambleAcc_lasx(acc, secret) ==
  PerVector(4, LAMBDA at : VMul(Keyed(acc, secret, at, 4), PRIME32_1))

-----------------------------------------------------------------------------
(* NEON: the lanes from `lanes' on are scalar; the others go four at a     *)
(* time as long as they last, then two at a time.  Little endian only.     *)

\* vmlal on the elements from at of two vectors of halves.
vmlal_u32(acc, lhs, rhs, at) ==
  [j \in DOMAIN acc |-> Wrap(acc[j] + lhs[at + j] * rhs[at + j])]

\* Even and odd halves of two vectors in a row.
vuzpq_u32(u, v) ==
  LET word(k) == IF k < 2 THEN u[k] ELSE v[k - 2]
  IN [val |-> <<[k \in 0..3 |-> Lo(word(k))], [k \in 0..3 |-> Hi(word(k))]>>]

FourNeonLanes(acc, input, secret, at) ==
  LET data(i) == loadu(input, (at + 2 * i) * WordBytes, 2)
      key(i)  == loadu(secret, (at + 2 * i) * WordBytes, 2)
      unzipped == vuzpq_u32(VXor(data(0), key(0)), VXor(data(1), key(1)))
      lo == unzipped.val[1]
      hi == unzipped.val[2]
      sum_1 == vmlal_u32(SwapPairs(data(0)), lo, hi, 0)
      sum_2 == vmlal_u32(SwapPairs(data(1)), lo, hi, 2)
  IN [l \in Lane |-> CASE l \in at..at+1   -> Wrap(acc[l] + sum_1[l - at])
                       [] l \in at+2..at+3 -> Wrap(acc[l] + sum_2[l - at - 2])
                       [] OTHER            -> acc[l]]

TwoNeonLanes(acc, input, secret, at) ==
  LET data_vec == loadu(input, at * WordBytes, 2)
      data_key == VXor(data_vec, loadu(secret, at * WordBytes, 2))
      vmovn == [j \in 0..1 |-> Lo(data_key[j])]
      vshrn == [j \in 0..1 |-> Hi(data_key[j])]
      sum   == vmlal_u32(SwapPairs(data_vec), vmovn, vshrn, 0)
  IN [l \in Lane |-> IF l \in at..at+1 THEN Wrap(acc[l] + sum[l - at])
                                       ELSE acc[l]]

accumulate_512_neon_FoursOnly(lanes, acc, input, secret) ==
  LET by4[i \in 0..(lanes \div 4)] ==
        IF i = 0 THEN ScalarLanes(lanes, acc, input, secret, FALSE)
        ELSE FourNeonLanes(by4[i-1], input, secret, 4 * (i - 1))
  IN by4[lanes \div 4]

accumulate_512_neon(lanes, acc, input, secret) ==
  LET fours == lanes \div 4
      by4[i \in 0..fours] ==
        IF i = 0 THEN ScalarLanes(lanes, acc, input, secret, FALSE)
        ELSE FourNeonLanes(by4[i-1], input, secret, 4 * (i - 1))
  IN IF lanes % 4 = 0 THEN by4[fours]
     ELSE TwoNeonLanes(by4[fours], input, secret, 4 * fours)

\* The high product is a multiply of halves by { 0, prime }, which leaves it in
\* place and wraps it at half a word.
TimesPrimeNeon(data_key) ==
  [j \in DOMAIN data_key |->
     Wrap(Join(0, Lo(Hi(data_key[j]) * PRIME32_1))
          + Lo(data_key[j]) * PRIME32_1)]

\* WebAssembly multiplies whole words.
scrambleAcc_neon(lanes, wasm, acc, secret) ==
  LET scalar == ScrambleLanes(lanes, acc, secret, FALSE)
      vector(at) == LET data_key == Keyed(acc, secret, at, 2)
                    IN IF wasm THEN VMul(data_key, PRIME32_1)
                               ELSE TimesPrimeNeon(data_key)
  IN [l \in Lane |-> IF l < lanes THEN vector(2 * (l \div 2))[l % 2]
                                  ELSE scalar[l]]

-----------------------------------------------------------------------------
(* POWER and z: either byte order. *)

vec_loadu(memory, at, bigEndian) ==
  [j \in 0..1 |->
     LET w == read64(memory, at + j * WordBytes, bigEndian)
     IN IF bigEndian THEN swap64(w) ELSE w]

\* The odd 32-bit elements, in the numbering of these machines, are the low
\* halves and the even ones the high halves.
vec_mulo(u, v) == mul_epu32(u, v)
vec_mule(u, v) == [j \in DOMAIN u |-> Hi(u[j]) * Hi(v[j])]

RoundVsx(acc, input, secret, at, bigEndian) ==
  LET data_vec == vec_loadu(input, at * WordBytes, bigEndian)
      data_key == VXor(data_vec, vec_loadu(secret, at * WordBytes, bigEndian))
      shuffled == [j \in 0..1 |-> rotl64(data_key[j], HalfBits)]
      product  == vec_mulo(data_key, shuffled)
  IN VAdd(VAdd(Part(acc, at, 2), product), SwapPairs(data_vec))

accumulate_512_vsx(acc, input, secret, bigEndian) ==
  PerVector(2, LAMBDA at : RoundVsx(acc, input, secret, at, bigEndian))

ScrambleVsx(acc, secret, at, bigEndian) ==
  LET data_key == VXor(VXorshift(Part(acc, at, 2)),
                       vec_loadu(secret, at * WordBytes, bigEndian))
      prime    == Splat(data_key, Join(PRIME32_1, PRIME32_1))
  IN VAdd(vec_mulo(data_key, prime),
          VSll(vec_mule(data_key, prime), HalfBits))

scrambleAcc_vsx(acc, secret, bigEndian) ==
  PerVector(2, LAMBDA at : ScrambleVsx(acc, secret, at, bigEndian))

-----------------------------------------------------------------------------
(* SVE: a vector has `elements' words; 8, 2 or 4 of them are used.  Loads  *)
(* are in the order of the machine.                                        *)

ACCRND(acc, input, secret, bigEndian) ==
  LET word(memory, j) == read64(memory, j * WordBytes, bigEndian)
      kSwap == [j \in DOMAIN acc |-> j ^^ 1]
  IN [j \in DOMAIN acc |->
        LET mixed == word(secret, j) ^^ word(input, j)
        IN Wrap(acc[j] + Lo(mixed) * Hi(mixed) + word(input, kSwap[j]))]

SveWidth(elements) ==
  CASE elements >= 8 -> 8 [] elements = 2 -> 2 [] OTHER -> 4

\* The part of a stripe, or of the secret, from a lane on.
FromLane(memory, at, n) == Sub(memory, at * WordBytes, n * WordBytes)

accumulate_512_sve(elements, acc, input, secret, bigEndian) ==
  LET n == SveWidth(elements)
  IN PerVector(n, LAMBDA at : ACCRND(Part(acc, at, n), FromLane(input, at, n),
                                     FromLane(secret, at, n), bigEndian))

\* Not the template: each vector stays in a register for all stripes.
accumulate_sve(elements, acc, input, secret, nbStripes, bigEndian) ==
  LET n == SveWidth(elements)
      vacc(at) ==
        LET after[k \in 0..nbStripes] ==
              IF k = 0 THEN Part(acc, at, n)
              ELSE ACCRND(after[k-1],
                          Sub(input, (k - 1) * STRIPE_LEN + at * WordBytes,
                              n * WordBytes),
                          Sub(secret,
                              (k - 1) * SECRET_CONSUME_RATE + at * WordBytes,
                              n * WordBytes),
                          bigEndian)
        IN after[nbStripes]
  IN IF nbStripes = 0 THEN acc ELSE PerVector(n, vacc)

-----------------------------------------------------------------------------
(* RISC-V: as many words as the machine has, at most 8, are taken.         *)

vsetvl(vlmax, n) == IF n <= vlmax THEN n ELSE vlmax

accumulate_512_rvv(vlmax, acc, input, secret) ==
  LET vl == vsetvl(vlmax, 8)
      round(at) ==
        LET data_vec == loadu(input, at * WordBytes, vl)
            data_key == VXor(data_vec, loadu(secret, at * WordBytes, vl))
            product  == [j \in 0..vl-1 |-> Lo(data_key[j]) * Hi(data_key[j])]
        IN VAdd(VAdd(Part(acc, at, vl), product), SwapPairs(data_vec))
  IN PerVector(vl, round)

scrambleAcc_rvv(vlmax, acc, secret) ==
  LET vl == vsetvl(vlmax, ACC_NB)
  IN PerVector(vl, LAMBDA at : VMul(Keyed(acc, secret, at, vl), PRIME32_1))

=============================================================================
