----------------------------- MODULE XXH3Builds -----------------------------
(***************************************************************************)
(* One long input hashed by several builds of xxhash.h side by side, as    *)
(* sender and receiver of a file may be different builds and compare what  *)
(* they get.  The steps are those of XXH3_consumeStripes and of            *)
(* XXH3_digest_long; where the stripes come from is in XXH3Stream.         *)
(*                                                                         *)
(* An operator Name_Change is Name with a change that a slip in the code   *)
(* could make; nothing uses it (the README names the property it breaks).  *)
(***************************************************************************)
EXTENDS XXH3Vectors, FiniteSets

CONSTANTS
  Builds,           \* the builds compared, each a Build
  StripesPerBlock,  \* nbStripesPerBlock, 16 for the default secret
  Secret,           \* XXH3_kSecret, cut to the width
  INIT_ACC,         \* XXH3_INIT_ACC, cut to the width
  Stripes,          \* the stripes an input is made of
  MaxStripes,       \* bound: whole stripes of one input
  None

Build ==
  [vector : {"scalar", "sse2", "avx2", "avx512", "neon", "vsx", "sve", "lsx",
             "lasx", "rvv"},
   lanes : 0..16,           \* NEON_LANES, svcntd() or the VLMAX of RISC-V
   wasm : BOOLEAN,
   bigEndian : BOOLEAN,
   int128 : BOOLEAN]        \* the compiler multiplies 64 by 64 to 128 bits

SecretSize == STRIPE_LEN + StripesPerBlock * SECRET_CONSUME_RATE
SECRET_LASTACC_START == WordBytes - 1
SECRET_MERGEACCS_START == WordBytes + 3

ASSUME BuildsAssumption ==
  /\ Builds \subseteq Build /\ \E b \in Builds : b.vector = "scalar"
  /\ StripesPerBlock \in Nat \ {0} /\ MaxStripes \in Nat
  /\ DOMAIN Secret = 0..SecretSize-1
  /\ \A j \in DOMAIN Secret : Secret[j] \in ByteValue
  /\ DOMAIN INIT_ACC = Lane /\ \A l \in Lane : INIT_ACC[l] \in Word
  /\ \A s \in Stripes : /\ DOMAIN s = 0..STRIPE_LEN-1
                        /\ \A j \in DOMAIN s : s[j] \in ByteValue
  /\ None \notin [Builds -> Word]

VARIABLES
  acc,             \* acc[b]: the lanes of build b
  nbStripesSoFar,  \* stripes of the block begun
  last,            \* the last whole stripe given, or None
  given,           \* how many whole stripes have been given
  hash             \* hash[b]: what the last call returned, when a digest

vars == <<acc, nbStripesSoFar, last, given, hash>>

-----------------------------------------------------------------------------
(* What XXH_VECTOR selects. *)

accumulate_512(b, lanes, input, secret) ==
  CASE b.vector = "scalar" ->
         accumulate_512_scalar(lanes, input, secret, b.bigEndian)
    [] b.vector = "sse2"   -> accumulate_512_sse2(lanes, input, secret)
    [] b.vector = "avx2"   -> accumulate_512_avx2(lanes, input, secret)
    [] b.vector = "avx512" -> accumulate_512_avx512(lanes, input, secret)
    [] b.vector = "neon"   -> accumulate_512_neon(b.lanes, lanes, input, secret)
    [] b.vector = "vsx"    ->
         accumulate_512_vsx(lanes, input, secret, b.bigEndian)
    [] b.vector = "sve"    ->
         accumulate_512_sve(b.lanes, lanes, input, secret, b.bigEndian)
    [] b.vector = "lsx"    -> accumulate_512_lsx(lanes, input, secret)
    [] b.vector = "lasx"   -> accumulate_512_lasx(lanes, input, secret)
    [] b.vector = "rvv"    -> accumulate_512_rvv(b.lanes, lanes, input, secret)

scrambleAcc(b, lanes, secret) ==
  CASE b.vector \in {"scalar", "sve"} ->
         scrambleAcc_scalar(lanes, secret, b.bigEndian)
    [] b.vector = "sse2"   -> scrambleAcc_sse2(lanes, secret)
    [] b.vector = "avx2"   -> scrambleAcc_avx2(lanes, secret)
    [] b.vector = "avx512" -> scrambleAcc_avx512(lanes, secret)
    [] b.vector = "neon"   -> scrambleAcc_neon(b.lanes, b.wasm, lanes, secret)
    [] b.vector = "vsx"    -> scrambleAcc_vsx(lanes, secret, b.bigEndian)
    [] b.vector = "lsx"    -> scrambleAcc_lsx(lanes, secret)
    [] b.vector = "lasx"   -> scrambleAcc_lasx(lanes, secret)
    [] b.vector = "rvv"    -> scrambleAcc_rvv(b.lanes, lanes, secret)

EachStripe_SameSecret(b, lanes, input, secret, nbStripes) ==
  LET after[n \in 0..nbStripes] ==
        IF n = 0 THEN lanes
        ELSE accumulate_512(b, after[n-1],
               Sub(input, (n - 1) * STRIPE_LEN, STRIPE_LEN),
               Sub(secret, 0, STRIPE_LEN))
  IN after[nbStripes]

\* XXH3_ACCUMULATE_TEMPLATE.
EachStripe(b, lanes, input, secret, nbStripes) ==
  LET after[n \in 0..nbStripes] ==
        IF n = 0 THEN lanes
        ELSE accumulate_512(b, after[n-1],
               Sub(input, (n - 1) * STRIPE_LEN, STRIPE_LEN),
               Sub(secret, (n - 1) * SECRET_CONSUME_RATE, STRIPE_LEN))
  IN after[nbStripes]

accumulate(b, lanes, input, secret, nbStripes) ==
  IF b.vector = "sve"
  THEN accumulate_sve(b.lanes, lanes, input, secret, nbStripes, b.bigEndian)
  ELSE EachStripe(b, lanes, input, secret, nbStripes)

SecretFrom(at) == Sub(Secret, at, SecretSize - at)

-----------------------------------------------------------------------------
(* The end of a hash. *)

mix2Accs(b, lanes, l, secret) ==
  LET key(j) == readLE64(secret, j * WordBytes, b.bigEndian)
  IN mul128_fold64(lanes[l] ^^ key(l), lanes[l + 1] ^^ key(l + 1), b.int128)

mergeAccs(b, lanes, secret, start) ==
  LET sum[i \in 0..4] ==
        IF i = 0 THEN start
        ELSE Wrap(sum[i-1] + mix2Accs(b, lanes, 2 * (i - 1), secret))
  IN avalanche(sum[4])

finalizeLong(b, lanes, len) ==
  mergeAccs(b, lanes, SecretFrom(SECRET_MERGEACCS_START),
            Wrap(len * PRIME64(1283)))

\* The last stripe has a place in the secret of its own.
LastStripe(b, lanes, stripe) ==
  accumulate_512(b, lanes, stripe,
    SecretFrom(SecretSize - STRIPE_LEN - SECRET_LASTACC_START))

-----------------------------------------------------------------------------
(* The steps. *)

Init ==
  /\ acc = [b \in Builds |-> INIT_ACC]
  /\ nbStripesSoFar = 0
  /\ last = None
  /\ given = 0
  /\ hash = None

\* Stripes, not beyond the block; a block that is full is scrambled.
Accumulated(b, stripes) ==
  LET n     == Cardinality(DOMAIN stripes)
      input == [j \in 0..n*STRIPE_LEN-1 |->
                  stripes[j \div STRIPE_LEN][j % STRIPE_LEN]]
      after == accumulate(b, acc[b], input,
                 SecretFrom(nbStripesSoFar * SECRET_CONSUME_RATE), n)
  IN IF nbStripesSoFar + n < StripesPerBlock THEN after
     ELSE scrambleAcc(b, after, SecretFrom(SecretSize - STRIPE_LEN))

StripesSoFar_NoReset(n) == nbStripesSoFar + n

StripesSoFar(n) ==
  IF nbStripesSoFar + n < StripesPerBlock THEN nbStripesSoFar + n ELSE 0

ConsumeStripes(n) ==
  \E stripes \in [0..n-1 -> Stripes] :
    /\ acc' = [b \in Builds |-> Accumulated(b, stripes)]
    /\ nbStripesSoFar' = StripesSoFar(n)
    /\ last' = stripes[n-1]
    /\ given' = given + n
    /\ hash' = None

Consume ==
  \E n \in 1..(StripesPerBlock - nbStripesSoFar) :
    given + n <= MaxStripes /\ ConsumeStripes(n)

\* After `more' further bytes, at most a stripe; on a copy of the lanes.
Digest ==
  /\ given > 0
  /\ \E more \in {1, STRIPE_LEN}, next \in Stripes :
       LET stripe == [j \in 0..STRIPE_LEN-1 |->
                        IF j + more < STRIPE_LEN THEN last[j + more]
                        ELSE next[j + more - STRIPE_LEN]]
       IN hash' = [b \in Builds |->
                     finalizeLong(b, LastStripe(b, acc[b], stripe),
                                  given * STRIPE_LEN + more)]
  /\ UNCHANGED <<acc, nbStripesSoFar, last, given>>

Next == Consume \/ Digest

Spec == Init /\ [][Next]_vars

-----------------------------------------------------------------------------
(* Properties. *)

\* Every variable keeps its type: no lane and no hash leaves its width.
TypeOK ==
  /\ DOMAIN acc = Builds
  /\ \A b \in Builds : /\ DOMAIN acc[b] = Lane
                       /\ \A l \in Lane : acc[b][l] \in Word
  /\ nbStripesSoFar \in 0..StripesPerBlock-1
  /\ last \in Stripes \cup {None}
  /\ given \in 0..MaxStripes
  /\ hash # None => \A b \in Builds : hash[b] \in Word

\* All builds have the same lanes after every step and return the same hash:
\* a file is judged the same whatever machines its two ends are.
BuildsAgree ==
  \A a, b \in Builds :
    /\ acc[a] = acc[b]
    /\ hash # None => hash[a] = hash[b]

\* The build the others are compared with.
Scalar == CHOOSE b \in Builds : b.vector = "scalar"

\* xxhash.h:4979, "in the (relatively likely) case of a multiply by zero, the
\* original input is preserved": two stripes that differ in one word, however
\* the key makes their products fall out, leave different lanes.
InputIsKept ==
  \A l \in Lane :
    LET b == Scalar
        secret == SecretFrom(nbStripesSoFar * SECRET_CONSUME_RATE)
        At(v) == [j \in 0..STRIPE_LEN-1 |->
                    IF j \div WordBytes = l THEN ByteOf(v, j % WordBytes)
                                            ELSE 0]
        key == readLE64(secret, l * WordBytes, FALSE)
        words == {key, Join(Lo(key), Lo(Hi(key) + 1)),
                  Join(Lo(Lo(key) + 1), Hi(key)), 0}
        after(v) == accumulate_512(b, acc[b], At(v), secret)
    IN Cardinality({after(v) : v \in words}) = Cardinality(words)

\* Two different stripes of a block do not commute: each has a place in the
\* secret of its own.
OrderCounts ==
  nbStripesSoFar + 2 <= StripesPerBlock =>
    \A s, t \in Stripes :
      LET b == Scalar
          secret == SecretFrom(nbStripesSoFar * SECRET_CONSUME_RATE)
          after(u, v) ==
            accumulate(b, acc[b],
              [j \in 0..2*STRIPE_LEN-1 |->
                 IF j < STRIPE_LEN THEN u[j] ELSE v[j - STRIPE_LEN]],
              secret, 2)
      IN s # t => after(s, t) # after(t, s)

=============================================================================
