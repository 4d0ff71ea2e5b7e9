----------------------------- MODULE XXH3Stream -----------------------------
(***************************************************************************)
(* The streaming XXH3 state of xxhash.h as FileTransferManager uses it:    *)
(* XXH3_createState, _64bits_reset, _64bits_update, _64bits_digest and     *)
(* _freeState, with the default secret and no seed.  One thread owns a     *)
(* state, so each call is one action.                                      *)
(*                                                                         *)
(* Byte i of the input is the number i, a byte that is not of this input   *)
(* is Stale, and the accumulators are the sequence of the stripes they     *)
(* were fed: with which part of the secret, after how many scramblings.    *)
(* Two accumulators are equal when they were fed the same.  What a stripe  *)
(* does to the lanes is in XXH3Builds.                                     *)
(*                                                                         *)
(* An operator Name_Change is Name with a change that a slip in the code   *)
(* could make; nothing uses it (the README names the property it breaks).  *)
(***************************************************************************)
EXTENDS Integers, Sequences

CONSTANTS
  StripeLen,        \* XXH_STRIPE_LEN, 64
  BufferStripes,    \* XXH3_INTERNALBUFFER_STRIPES, 4
  StripesPerBlock,  \* nbStripesPerBlock, 16 for the default secret
  MidSize,          \* XXH3_MIDSIZE_MAX, 240
  MaxTotal,         \* bound: bytes of one input
  None

BufferSize == BufferStripes * StripeLen

\* The lines that state these: 6737 (static), 6251, and 6846, which reads a
\* short input back from the buffer.
ASSUME SizesAssumption ==
  /\ StripeLen \in Nat \ {0}
  /\ BufferStripes \in Nat \ {0}
  /\ StripesPerBlock \in Nat \ {0}
  /\ MidSize \in StripeLen..BufferSize
  /\ MaxTotal \in Nat

VARIABLES
  state,      \* the XXH3_state_t, or None for nullptr
  absorbed,   \* history: the bytes given since reset, or None before it
  answer      \* what the last call returned, when it was a digest

vars == <<state, absorbed, answer>>

-----------------------------------------------------------------------------
(* Memory. *)

Stale == 0

Byte == Nat

Input(from, len) == [j \in 1..len |-> from + j]

Buffer == [1..BufferSize -> Byte]

Memcpy(buffer, offset, bytes) ==
  [j \in 1..BufferSize |->
     IF j > offset /\ j <= offset + Len(bytes) THEN bytes[j - offset]
                                               ELSE buffer[j]]

Stripe == [1..StripeLen -> Byte]

StripeAt(data, offset) == [j \in 1..StripeLen |-> data[offset + j]]

Fed == [key : Nat, round : Nat, stripe : Stripe]

State ==
  [acc : Seq(Fed),
   rounds : Nat,                \* how often acc has been scrambled
   buffer : Buffer,
   bufferedSize : 0..BufferSize,
   nbStripesSoFar : Nat,
   totalLen : Nat]

ASSUME NoneAssumption == None \notin Nat /\ None \notin State

-----------------------------------------------------------------------------
(* Consuming. *)

ConsumeStripes_NoWrap(st, data, n) ==
  [st EXCEPT
     !.acc = @ \o [i \in 1..n |->
       [key    |-> (st.nbStripesSoFar + i - 1) % StripesPerBlock,
        round  |-> st.rounds,
        stripe |-> StripeAt(data, (i - 1) * StripeLen)]],
     !.nbStripesSoFar = @ + n]

\* The block begun is completed first, then whole blocks, each with the secret
\* from its start, then what is left; acc is scrambled after each whole block.
ConsumeStripes(st, data, n) ==
  LET first == StripesPerBlock - st.nbStripesSoFar IN
  [st EXCEPT
     !.acc = @ \o [i \in 1..n |->
       [key    |-> IF i <= first THEN st.nbStripesSoFar + i - 1
                   ELSE (i - first - 1) % StripesPerBlock,
        round  |-> IF i <= first THEN st.rounds
                   ELSE st.rounds + 1 + ((i - first - 1) \div StripesPerBlock),
        stripe |-> StripeAt(data, (i - 1) * StripeLen)]],
     !.rounds = IF n < first THEN @
                ELSE @ + 1 + ((n - first) \div StripesPerBlock),
     !.nbStripesSoFar = IF n < first THEN @ + n
                        ELSE (n - first) % StripesPerBlock]

-----------------------------------------------------------------------------
(* Update. *)

AddToBuffer(st, from, len) ==
  [st EXCEPT !.buffer = Memcpy(@, st.bufferedSize, Input(from, len)),
             !.bufferedSize = @ + len]

\* What completes a buffer that holds something.
LoadSize(st) ==
  IF st.bufferedSize > 0 THEN BufferSize - st.bufferedSize ELSE 0

ConsumeBuffer(st, from) ==
  IF st.bufferedSize = 0 THEN st
  ELSE LET full == AddToBuffer(st, from, LoadSize(st)) IN
       [ConsumeStripes(full, full.buffer, BufferStripes)
          EXCEPT !.bufferedSize = 0]

ConsumeInput_NoLastStripe(st, from, n) ==
  ConsumeStripes(st, Input(from, n * StripeLen), n)

\* Straight from the input; the last stripe is kept at the end of the buffer.
ConsumeInput(st, from, n) ==
  [ConsumeStripes(st, Input(from, n * StripeLen), n) EXCEPT
     !.buffer = Memcpy(@, BufferSize - StripeLen,
                       Input(from + (n - 1) * StripeLen, StripeLen))]

Updated(st, from, len) ==
  IF len <= BufferSize - st.bufferedSize
  THEN [AddToBuffer(st, from, len) EXCEPT !.totalLen = @ + len]
  ELSE LET emptied == ConsumeBuffer(st, from)
           at      == from + LoadSize(st)
           left    == len - LoadSize(st)
           n       == IF left > BufferSize THEN (left - 1) \div StripeLen ELSE 0
           rest    == IF n > 0 THEN ConsumeInput(emptied, at, n) ELSE emptied
       IN [AddToBuffer(rest, at + n * StripeLen, left - n * StripeLen)
             EXCEPT !.totalLen = @ + len]

-----------------------------------------------------------------------------
(* Digest. *)

ShortHash(bytes) == [short |-> bytes]

LongHash(st, last) ==
  [acc |-> st.acc, rounds |-> st.rounds, last |-> last, len |-> st.totalLen]

\* What is buffered is less than a stripe: the stripe before it is still at the
\* end of the buffer.
CatchUp(st) ==
  LET catchupSize == StripeLen - st.bufferedSize IN
  [j \in 1..StripeLen |->
     IF j <= catchupSize THEN st.buffer[BufferSize - catchupSize + j]
                         ELSE st.buffer[j - catchupSize]]

DigestLong_AllStripes(st) ==
  IF st.bufferedSize >= StripeLen
  THEN LongHash(
         ConsumeStripes(st, st.buffer, st.bufferedSize \div StripeLen),
         StripeAt(st.buffer, st.bufferedSize - StripeLen))
  ELSE LongHash(st, CatchUp(st))

\* On a copy: the state can go on.  The stripe that ends at the last byte is
\* left for the end.
DigestLong(st) ==
  IF st.bufferedSize >= StripeLen
  THEN LongHash(
         ConsumeStripes(st, st.buffer, (st.bufferedSize - 1) \div StripeLen),
         StripeAt(st.buffer, st.bufferedSize - StripeLen))
  ELSE LongHash(st, CatchUp(st))

DigestOf(st) ==
  IF st.totalLen > MidSize
  THEN DigestLong(st)
  ELSE ShortHash([j \in 1..st.totalLen |-> st.buffer[j]])

-----------------------------------------------------------------------------
(* The one-shot hash, the reference. *)

\* Stripe i of an input: every block starts with the secret.
FedBy(i) ==
  [key    |-> (i - 1) % StripesPerBlock,
   round  |-> (i - 1) \div StripesPerBlock,
   stripe |-> Input((i - 1) * StripeLen, StripeLen)]

\* XXH3_hashLong_internal_loop: whole blocks, a partial one, the last stripe.
HashLong(len) ==
  LET blockLen == StripeLen * StripesPerBlock
      blocks   == (len - 1) \div blockLen
      stripes  == ((len - 1) - blockLen * blocks) \div StripeLen
  IN [acc |-> [i \in 1..(blocks * StripesPerBlock + stripes) |-> FedBy(i)],
      rounds |-> blocks,
      last |-> Input(len - StripeLen, StripeLen),
      len |-> len]

OneShot(len) ==
  IF len <= MidSize THEN ShortHash(Input(0, len)) ELSE HashLong(len)

-----------------------------------------------------------------------------
(* The calls. *)

Init == state = None /\ absorbed = None /\ answer = None

\* Memory from malloc: whatever an earlier use has left there.
CreateState ==
  /\ state = None
  /\ \E n \in 0..BufferSize :
       state' = [acc |-> <<>>, rounds |-> n, nbStripesSoFar |-> n,
                 buffer |-> [j \in 1..BufferSize |-> Stale],
                 bufferedSize |-> n, totalLen |-> n]
  /\ UNCHANGED <<absorbed, answer>>

\* The buffer is left as it is; what it holds is of an earlier input.
Reset ==
  /\ state # None
  /\ state' = [acc |-> <<>>, rounds |-> 0, nbStripesSoFar |-> 0,
               buffer |-> [j \in 1..BufferSize |-> Stale],
               bufferedSize |-> 0, totalLen |-> 0]
  /\ absorbed' = 0
  /\ answer' = None

Update(len) ==
  /\ absorbed # None
  /\ absorbed + len <= MaxTotal
  /\ state' = Updated(state, absorbed, len)
  /\ absorbed' = absorbed + len
  /\ answer' = None

Digest ==
  /\ absorbed # None
  /\ answer' = DigestOf(state)
  /\ UNCHANGED <<state, absorbed>>

FreeState ==
  /\ state # None
  /\ state' = None
  /\ absorbed' = None
  /\ answer' = None

Next ==
  \/ CreateState \/ Reset \/ Digest \/ FreeState
  \/ \E len \in 0..MaxTotal : Update(len)

Spec == Init /\ [][Next]_vars

-----------------------------------------------------------------------------
(* Properties. *)

\* Every variable keeps its type; in particular what is buffered fits the
\* buffer and a block that is begun is never full.
TypeOK ==
  /\ state \in State \cup {None}
  /\ absorbed \in Nat \cup {None}
  /\ absorbed # None =>
       /\ state # None
       /\ state.nbStripesSoFar < StripesPerBlock

\* xxhash.h:1264, "Digest will be equivalent to XXH3_64bits()": in however many
\* calls the bytes came and whatever the state was used for before, the digest
\* is the one-shot hash of them.  The sender's 64 KiB reads and the receiver's
\* chunks are two such cuts of one file.
DigestIsOneShot == answer # None => answer = OneShot(absorbed)

=============================================================================
