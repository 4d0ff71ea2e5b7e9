-------------------------- MODULE XXH3StreamProofs --------------------------
(***************************************************************************)
(* Proofs about XXH3Stream, for every size of stripe, buffer and block:    *)
(* the digest is the one-shot hash of the bytes given.  Then about         *)
(* XXH3Memory, for every address malloc may return and every alignment: a  *)
(* state fits its block, the block is found again, and the first results   *)
(* hold there, too.                                                        *)
(***************************************************************************)
EXTENDS XXH3Memory, TLAPS

LEMMA Monotone ==
  ASSUME NEW n \in Nat \ {0}, NEW a \in Int, NEW b \in Int, a < b
  PROVE  n * a + n <= n * b
<1>1. PICK c \in Nat : b = a + 1 + c
  <2> WITNESS b - a - 1 \in Nat
  <2> QED
    OBVIOUS
<1>2. n * b = n * a + n + n * c
  BY <1>1
<1>3. n * c >= 0
  OBVIOUS
<1> QED
  BY <1>2, <1>3

LEMMA DivRange ==
  ASSUME NEW n \in Nat \ {0}, NEW x \in Nat
  PROVE  /\ x \div n \in Nat
         /\ x % n \in Nat /\ x % n < n
         /\ x = n * (x \div n) + (x % n)
<1> DEFINE d == x \div n
<1>1. d \in Int /\ x % n \in 0..(n - 1) /\ x = n * d + (x % n)
  OBVIOUS
<1> HIDE DEF d
<1>2. ~(d < 0)
  <2> SUFFICES ASSUME d < 0 PROVE FALSE
    OBVIOUS
  <2>1. n * d + n <= n * 0
    BY <1>1, Monotone
  <2> QED
    BY <1>1, <2>1
<1> QED
  BY <1>1, <1>2 DEF d

LEMMA DivUnique ==
  ASSUME NEW n \in Nat \ {0}, NEW q \in Nat, NEW r \in Nat, r < n
  PROVE  /\ (n * q + r) \div n = q
         /\ (n * q + r) % n = r
<1> DEFINE x == n * q + r
           d == x \div n
           m == x % n
<1>1. x \in Nat /\ d \in Int /\ m \in 0..(n - 1) /\ x = n * d + m
  OBVIOUS
<1> HIDE DEF d, m
<1>2. ~(d < q)
  BY <1>1, Monotone
<1>3. ~(q < d)
  BY <1>1, Monotone
<1>4. d = q
  BY <1>1, <1>2, <1>3
<1>5. m = r
  BY <1>1, <1>4
<1> QED
  BY <1>4, <1>5 DEF d, m

-----------------------------------------------------------------------------
(* Where the stripes of an input stand. *)

AccIsOf(st, k) ==
  /\ st.acc \in Seq(Fed)
  /\ Len(st.acc) = k
  /\ \A i \in 1..k : st.acc[i] = FedBy(i)
  /\ st.rounds \in Nat
  /\ st.nbStripesSoFar \in Nat
  /\ st.nbStripesSoFar < StripesPerBlock
  /\ k = StripesPerBlock * st.rounds + st.nbStripesSoFar

LEMMA PositionWithin ==
  ASSUME NEW st, NEW k \in Nat, AccIsOf(st, k), NEW i \in Nat,
         i < StripesPerBlock - st.nbStripesSoFar
  PROVE  /\ (k + i) % StripesPerBlock = st.nbStripesSoFar + i
         /\ (k + i) \div StripesPerBlock = st.rounds
<1> DEFINE n == StripesPerBlock
           r == st.nbStripesSoFar + i
<1>1. /\ n \in Nat \ {0} /\ st.rounds \in Nat /\ r \in Nat /\ r < n
      /\ k + i = n * st.rounds + r
  BY SizesAssumption DEF AccIsOf
<1> HIDE DEF n, r
<1>2. (n * st.rounds + r) \div n = st.rounds /\ (n * st.rounds + r) % n = r
  BY <1>1, DivUnique
<1> QED
  BY <1>1, <1>2 DEF n, r

LEMMA PositionBeyond ==
  ASSUME NEW st, NEW k \in Nat, AccIsOf(st, k), NEW i \in Nat,
         i >= StripesPerBlock - st.nbStripesSoFar
  PROVE  LET past == i - (StripesPerBlock - st.nbStripesSoFar) IN
         /\ (k + i) % StripesPerBlock = past % StripesPerBlock
         /\ (k + i) \div StripesPerBlock
              = st.rounds + 1 + (past \div StripesPerBlock)
<1> DEFINE n == StripesPerBlock
           past == i - (n - st.nbStripesSoFar)
           q == past \div n
           r == past % n
           total == st.rounds + 1 + q
<1>1. n \in Nat \ {0} /\ past \in Nat /\ st.rounds \in Nat
  BY SizesAssumption DEF AccIsOf
<1>2. q \in Nat /\ r \in Nat /\ r < n /\ past = n * q + r
  BY <1>1, DivRange
<1>3. k + i = n * st.rounds + n + past
  BY <1>1 DEF AccIsOf
<1> HIDE DEF past, q, r, n
<1>4. total \in Nat /\ k + i = n * total + r
  BY <1>1, <1>2, <1>3
<1> HIDE DEF total
<1>5. (n * total + r) \div n = total /\ (n * total + r) % n = r
  BY <1>1, <1>2, <1>4, DivUnique
<1>6. (k + i) % n = r /\ (k + i) \div n = total
  BY <1>4, <1>5
<1> QED
  BY <1>6 DEF past, q, r, n, total

LEMMA InputType ==
  ASSUME NEW at \in Nat, NEW len \in Nat
  PROVE  /\ Input(at, len) \in [1..len -> Byte]
         /\ Input(at, len) \in Seq(Byte)
         /\ Len(Input(at, len)) = len
         /\ \A j \in 1..len : Input(at, len)[j] = at + j
BY DEF Input, Byte

LEMMA FedByType ==
  ASSUME NEW i \in Nat \ {0}
  PROVE  FedBy(i) \in Fed
<1> DEFINE before == i - 1
           at == before * StripeLen
<1>1. before \in Nat /\ StripesPerBlock \in Nat \ {0} /\ StripeLen \in Nat
  BY SizesAssumption
<1>2. at \in Nat
  BY <1>1
<1>3. before % StripesPerBlock \in Nat /\ before \div StripesPerBlock \in Nat
  BY <1>1, DivRange
<1> HIDE DEF at
<1>4. Input(at, StripeLen) \in Stripe
  BY <1>1, <1>2, InputType DEF Stripe
<1> QED
  BY <1>3, <1>4 DEF FedBy, Fed, at

LEMMA Concat ==
  ASSUME NEW T, NEW s \in Seq(T), NEW t \in Seq(T)
  PROVE  /\ s \o t \in Seq(T)
         /\ Len(s \o t) = Len(s) + Len(t)
         /\ \A i \in 1..Len(s) : (s \o t)[i] = s[i]
OBVIOUS

LEMMA ConcatRight ==
  ASSUME NEW T, NEW s \in Seq(T), NEW t \in Seq(T), NEW j \in 1..Len(t)
  PROVE  (s \o t)[Len(s) + j] = t[j]
OBVIOUS

LEMMA ConsumeFrame ==
  ASSUME NEW st \in State, NEW k \in Nat, NEW data, NEW n \in Nat,
         AccIsOf(ConsumeStripes(st, data, n), k)
  PROVE  LET c == ConsumeStripes(st, data, n) IN
         /\ c \in State
         /\ c.buffer = st.buffer /\ c.bufferedSize = st.bufferedSize
         /\ c.totalLen = st.totalLen
<1> DEFINE c == ConsumeStripes(st, data, n)
<1>1. c = [st EXCEPT !.acc = c.acc, !.rounds = c.rounds,
                     !.nbStripesSoFar = c.nbStripesSoFar]
  BY DEF ConsumeStripes, State
<1>2. c.acc \in Seq(Fed) /\ c.rounds \in Nat /\ c.nbStripesSoFar \in Nat
  BY DEF AccIsOf
<1> HIDE DEF c
<1>3. /\ c \in State
      /\ c.buffer = st.buffer /\ c.bufferedSize = st.bufferedSize
      /\ c.totalLen = st.totalLen
  BY <1>1, <1>2 DEF State
<1> QED
  BY <1>3 DEF c

\* What consumeStripes leaves is what one run over all stripes would.
LEMMA ConsumeKeeps ==
  ASSUME NEW st \in State, NEW k \in Nat, AccIsOf(st, k),
         NEW data, NEW n \in Nat,
         \A i \in 1..n : StripeAt(data, (i - 1) * StripeLen)
                            = Input((k + i - 1) * StripeLen, StripeLen)
  PROVE  AccIsOf(ConsumeStripes(st, data, n), k + n)
<1> DEFINE spb == StripesPerBlock
           first == spb - st.nbStripesSoFar
           c == ConsumeStripes(st, data, n)
           run == [i \in 1..n |->
             [key    |-> IF i <= first THEN st.nbStripesSoFar + i - 1
                         ELSE (i - first - 1) % spb,
              round  |-> IF i <= first THEN st.rounds
                         ELSE st.rounds + 1 + ((i - first - 1) \div spb),
              stripe |-> StripeAt(data, (i - 1) * StripeLen)]]
<1>1. c.acc = st.acc \o run
  BY DEF ConsumeStripes, State
<1>2. /\ c.rounds = IF n < first THEN st.rounds
                    ELSE st.rounds + 1 + ((n - first) \div spb)
      /\ c.nbStripesSoFar = IF n < first THEN st.nbStripesSoFar + n
                            ELSE (n - first) % spb
  BY DEF ConsumeStripes, State
<1>4. /\ spb \in Nat \ {0} /\ first \in Nat
      /\ st.rounds \in Nat /\ st.nbStripesSoFar \in Nat
      /\ k = spb * st.rounds + st.nbStripesSoFar
  BY SizesAssumption DEF AccIsOf
<1>5. /\ st.acc \in Seq(Fed) /\ Len(st.acc) = k
      /\ \A i \in 1..k : st.acc[i] = FedBy(i)
  BY DEF AccIsOf
<1>6. ASSUME NEW i \in 1..n
      PROVE  run[i] = FedBy(k + i)
  <2>1. PICK before \in Nat : before = i - 1
    OBVIOUS
  <2>2. k + i - 1 = k + before /\ k + i - 1 \in Nat
    BY <2>1
  <2>3. CASE i <= first
    <3>1. before < first
      BY <1>4, <2>1, <2>3
    <3>2. /\ (k + before) % spb = st.nbStripesSoFar + before
          /\ (k + before) \div spb = st.rounds
      BY <3>1, PositionWithin
    <3>3. st.nbStripesSoFar + before = st.nbStripesSoFar + i - 1
      BY <1>4, <2>1
    <3> HIDE DEF first
    <3> QED
      BY <2>2, <2>3, <3>2, <3>3 DEF FedBy
  <2>4. CASE ~(i <= first)
    <3>1. before >= first
      BY <1>4, <2>1, <2>4
    <3>2. /\ (k + before) % spb = (before - first) % spb
          /\ (k + before) \div spb = st.rounds + 1 + ((before - first) \div spb)
      BY <3>1, PositionBeyond
    <3>3. before - first = i - first - 1
      BY <1>4, <2>1
    <3> HIDE DEF first
    <3> QED
      BY <2>2, <2>4, <3>2, <3>3 DEF FedBy
  <2> QED
    BY <2>3, <2>4
<1> HIDE DEF c, first
<1>7. run \in Seq(Fed) /\ Len(run) = n
  <2>1. \A i \in 1..n : run[i] \in Fed
    <3> TAKE i \in 1..n
    <3>1. k + i \in Nat \ {0}
      OBVIOUS
    <3> QED
      BY <1>6, <3>1, FedByType
  <2>2. DOMAIN run = 1..n
    OBVIOUS
  <2>3. run = [i \in 1..n |-> run[i]]
    OBVIOUS
  <2> HIDE DEF run
  <2> QED
    BY <2>1, <2>3
<1> HIDE DEF run
<1>8. c.acc \in Seq(Fed) /\ Len(c.acc) = k + n
  BY <1>1, <1>5, <1>7, Concat
<1>9. ASSUME NEW i \in 1..(k + n)
      PROVE  c.acc[i] = FedBy(i)
  <2>1. CASE i <= k
    BY <1>1, <1>5, <1>7, <2>1, Concat
  <2>2. CASE i > k
    <3>1. PICK j \in 1..n : i = k + j
      <4>1. i - k \in 1..n /\ i = k + (i - k)
        BY <2>2
      <4> QED
        BY <4>1
    <3>2. (st.acc \o run)[Len(st.acc) + j] = run[j]
      <4>1. j \in 1..Len(run)
        BY <1>7
      <4> QED
        BY <1>5, <1>7, <4>1, ConcatRight
    <3>3. c.acc[k + j] = run[j]
      BY <1>1, <1>5, <3>2
    <3> QED
      BY <1>6, <3>1, <3>3
  <2> QED
    BY <2>1, <2>2
<1>10. /\ c.rounds \in Nat /\ c.nbStripesSoFar \in Nat
       /\ c.nbStripesSoFar < spb
       /\ k + n = spb * c.rounds + c.nbStripesSoFar
  <2>1. CASE n < first
    BY <1>2, <1>4, <2>1 DEF first
  <2>2. CASE ~(n < first)
    <3>1. PICK past \in Nat : past = n - first
      BY <1>4, <2>2
    <3> DEFINE q == past \div spb
               r == past % spb
    <3>2. q \in Nat /\ r \in Nat /\ r < spb /\ past = spb * q + r
      BY <1>4, DivRange
    <3>3. c.rounds = st.rounds + 1 + q /\ c.nbStripesSoFar = r
      BY <1>2, <2>2, <3>1
    <3> HIDE DEF q, r
    <3>4. n = spb - st.nbStripesSoFar + past
      BY <1>4, <3>1 DEF first
    <3> QED
      BY <1>4, <3>2, <3>3, <3>4
  <2> QED
    BY <2>1, <2>2
<1> QED
  BY <1>8, <1>9, <1>10 DEF AccIsOf, c

-----------------------------------------------------------------------------
(* The buffer. *)

\* What is buffered follows the k stripes consumed.
Buffered(st, k) ==
  \A j \in 1..st.bufferedSize : st.buffer[j] = StripeLen * k + j

\* While less than a stripe is buffered, the end of the buffer still holds what
\* of the last stripe consumed is needed to complete it.
EndKept(st, k) ==
  \A j \in (BufferSize - StripeLen + st.bufferedSize + 1)..BufferSize :
    st.buffer[j] = StripeLen * k - BufferSize + j

LEMMA Sizes ==
  /\ StripeLen \in Nat \ {0} /\ BufferStripes \in Nat \ {0}
  /\ BufferSize \in Nat \ {0} /\ StripeLen <= BufferSize
  /\ MidSize \in Nat /\ StripeLen <= MidSize /\ MidSize <= BufferSize
<1>1. StripeLen \in Nat \ {0} /\ BufferStripes \in Nat \ {0}
  BY SizesAssumption
<1>2. BufferSize \in Nat
  BY <1>1 DEF BufferSize
<1> QED
  BY <1>1, <1>2, SizesAssumption

LEMMA MemcpyType ==
  ASSUME NEW buffer \in Buffer, NEW offset \in Nat, NEW bytes \in Seq(Byte),
         offset + Len(bytes) <= BufferSize
  PROVE  LET b == Memcpy(buffer, offset, bytes) IN
         /\ b \in Buffer
         /\ \A j \in 1..Len(bytes) : b[offset + j] = bytes[j]
         /\ \A j \in 1..BufferSize :
              j <= offset \/ j > offset + Len(bytes) => b[j] = buffer[j]
<1> DEFINE b == Memcpy(buffer, offset, bytes)
<1>1. BufferSize \in Nat /\ Len(bytes) \in Nat
  BY Sizes
<1>2. ASSUME NEW j \in 1..BufferSize
      PROVE  b[j] = IF j > offset /\ j <= offset + Len(bytes)
                    THEN bytes[j - offset] ELSE buffer[j]
  BY DEF Memcpy
<1>3. ASSUME NEW j \in 1..BufferSize
      PROVE  b[j] \in Byte
  <2>1. CASE j > offset /\ j <= offset + Len(bytes)
    <3>1. j - offset \in 1..Len(bytes)
      BY <1>1, <2>1
    <3> QED
      BY <1>2, <2>1, <3>1
  <2>2. CASE ~(j > offset /\ j <= offset + Len(bytes))
    BY <1>2, <2>2 DEF Buffer
  <2> QED
    BY <2>1, <2>2
<1>4. b \in Buffer
  BY <1>3 DEF Memcpy, Buffer
<1>5. ASSUME NEW j \in 1..Len(bytes)
      PROVE  b[offset + j] = bytes[j]
  <2>1. offset + j \in 1..BufferSize /\ (offset + j) - offset = j
    BY <1>1
  <2> QED
    BY <1>1, <1>2, <2>1
<1>6. ASSUME NEW j \in 1..BufferSize, j <= offset \/ j > offset + Len(bytes)
      PROVE  b[j] = buffer[j]
  BY <1>1, <1>2, <1>6
<1> QED
  BY <1>4, <1>5, <1>6

LEMMA AddKeeps ==
  ASSUME NEW st \in State, NEW k \in Nat, AccIsOf(st, k), Buffered(st, k),
         NEW from \in Nat, from = StripeLen * k + st.bufferedSize,
         NEW len \in Nat, st.bufferedSize + len <= BufferSize
  PROVE  LET r == AddToBuffer(st, from, len) IN
         /\ r \in State /\ AccIsOf(r, k) /\ Buffered(r, k)
         /\ r.bufferedSize = st.bufferedSize + len
         /\ r.totalLen = st.totalLen
         /\ \A j \in 1..BufferSize :
              j > st.bufferedSize + len => r.buffer[j] = st.buffer[j]
<1> DEFINE r == AddToBuffer(st, from, len)
           data == Input(from, len)
           b == Memcpy(st.buffer, st.bufferedSize, data)
<1>1. /\ st.bufferedSize \in Nat /\ st.buffer \in Buffer /\ BufferSize \in Nat
      /\ StripeLen \in Nat
  BY Sizes DEF State
<1>2. /\ r = [st EXCEPT !.buffer = b, !.bufferedSize = st.bufferedSize + len]
      /\ r.buffer = b /\ r.bufferedSize = st.bufferedSize + len
      /\ r.totalLen = st.totalLen /\ r.acc = st.acc /\ r.rounds = st.rounds
      /\ r.nbStripesSoFar = st.nbStripesSoFar
  BY DEF AddToBuffer, State
<1>3. /\ data \in Seq(Byte) /\ Len(data) = len
      /\ \A j \in 1..len : data[j] = from + j
  BY InputType
<1> HIDE DEF data
<1>4. /\ b \in Buffer
      /\ \A j \in 1..len : b[st.bufferedSize + j] = from + j
      /\ \A j \in 1..BufferSize :
           j <= st.bufferedSize \/ j > st.bufferedSize + len
             => b[j] = st.buffer[j]
  <2>1. /\ b \in Buffer
        /\ \A j \in 1..Len(data) : b[st.bufferedSize + j] = data[j]
        /\ \A j \in 1..BufferSize :
             j <= st.bufferedSize \/ j > st.bufferedSize + Len(data)
               => b[j] = st.buffer[j]
    BY <1>1, <1>3, MemcpyType
  <2> HIDE DEF b
  <2> QED
    BY <1>3, <2>1
<1> HIDE DEF b
<1>5. r \in State
  <2>1. st.bufferedSize + len \in 0..BufferSize
    BY <1>1
  <2> HIDE DEF r
  <2> QED
    BY <1>2, <1>4, <2>1 DEF State
<1>6. AccIsOf(r, k)
  BY <1>2 DEF AccIsOf
<1> HIDE DEF r
<1>7. Buffered(r, k)
  <2> SUFFICES ASSUME NEW j \in 1..(st.bufferedSize + len)
               PROVE  b[j] = StripeLen * k + j
    BY <1>2 DEF Buffered
  <2>1. CASE j <= st.bufferedSize
    BY <1>1, <1>4, <2>1 DEF Buffered
  <2>2. CASE j > st.bufferedSize
    <3>1. PICK i \in 1..len : j = st.bufferedSize + i
      <4>1. j - st.bufferedSize \in 1..len
        BY <1>1, <2>2
      <4> QED
        BY <1>1, <4>1
    <3> QED
      BY <1>1, <1>4, <3>1
  <2> QED
    BY <1>1, <2>1, <2>2
<1> QED
  BY <1>2, <1>4, <1>5, <1>6, <1>7 DEF r

LEMMA ConsumeBufferKeeps ==
  ASSUME NEW st \in State, NEW k \in Nat, AccIsOf(st, k), Buffered(st, k),
         st.bufferedSize > 0,
         NEW from \in Nat, from = StripeLen * k + st.bufferedSize
  PROVE  LET r  == ConsumeBuffer(st, from)
             k1 == k + BufferStripes
         IN /\ r \in State /\ AccIsOf(r, k1) /\ EndKept(r, k1)
            /\ r.bufferedSize = 0 /\ r.totalLen = st.totalLen
            /\ from + LoadSize(st) = StripeLen * k1
<1> DEFINE len == BufferSize - st.bufferedSize
           full == AddToBuffer(st, from, len)
           c == ConsumeStripes(full, full.buffer, BufferStripes)
           r == ConsumeBuffer(st, from)
           k1 == k + BufferStripes
<1>1. /\ st.bufferedSize \in 1..BufferSize
      /\ StripeLen \in Nat \ {0} /\ BufferStripes \in Nat \ {0}
      /\ BufferSize = BufferStripes * StripeLen /\ BufferSize \in Nat
  BY Sizes DEF State, BufferSize
<1>2. len \in Nat /\ st.bufferedSize + len = BufferSize /\ LoadSize(st) = len
  BY <1>1 DEF LoadSize
<1> HIDE DEF len
<1>3. /\ full \in State /\ AccIsOf(full, k) /\ Buffered(full, k)
      /\ full.bufferedSize = BufferSize /\ full.totalLen = st.totalLen
  BY <1>1, <1>2, AddKeeps
<1> HIDE DEF full
<1>4. ASSUME NEW i \in 1..BufferStripes
      PROVE  StripeAt(full.buffer, (i - 1) * StripeLen)
               = Input((k + i - 1) * StripeLen, StripeLen)
  <2>1. ASSUME NEW j \in 1..StripeLen
        PROVE  full.buffer[(i - 1) * StripeLen + j]
                 = (k + i - 1) * StripeLen + j
    <3>1. (i - 1) * StripeLen >= 0 /\ StripeLen * (i - 1) + StripeLen <= BufferSize
      <4>1. i - 1 \in Int /\ BufferStripes \in Int /\ i - 1 < BufferStripes
        BY <1>1
      <4>2. StripeLen * (i - 1) + StripeLen <= StripeLen * BufferStripes
        BY <1>1, <4>1, Monotone
      <4>3. PICK before \in Nat : before = i - 1
        OBVIOUS
      <4>4. before * StripeLen \in Nat
        BY <1>1
      <4> QED
        BY <1>1, <4>2, <4>3, <4>4
    <3>2. (i - 1) * StripeLen + j \in 1..BufferSize
      BY <1>1, <3>1
    <3>3. full.buffer[(i - 1) * StripeLen + j]
            = StripeLen * k + ((i - 1) * StripeLen + j)
      BY <1>3, <3>2 DEF Buffered
    <3> QED
      BY <1>1, <3>3
  <2> QED
    BY <2>1 DEF StripeAt, Input
<1>5. AccIsOf(c, k1)
  BY <1>1, <1>3, <1>4, ConsumeKeeps
<1>6. r = [c EXCEPT !.bufferedSize = 0]
  BY <1>1, <1>2 DEF ConsumeBuffer, full, len
<1> HIDE DEF c, r
<1>7. c \in State /\ c.buffer = full.buffer /\ c.totalLen = full.totalLen
  BY <1>1, <1>3, <1>5, ConsumeFrame DEF c
<1>8. /\ r \in State /\ r.bufferedSize = 0 /\ r.totalLen = st.totalLen
      /\ r.buffer = full.buffer
  <2>1. 0 \in 0..BufferSize /\ full.totalLen = st.totalLen
    BY <1>1, <1>3
  <2> QED
    BY <1>6, <1>7, <2>1 DEF State
<1>9. AccIsOf(r, k1)
  BY <1>5, <1>6, <1>7 DEF AccIsOf, State
<1>10. EndKept(r, k1)
  <2> SUFFICES ASSUME NEW j \in 1..BufferSize
               PROVE  full.buffer[j] = StripeLen * k1 - BufferSize + j
    BY <1>1, <1>8, Sizes DEF EndKept
  <2>1. full.buffer[j] = StripeLen * k + j
    BY <1>3 DEF Buffered
  <2> QED
    BY <1>1, <2>1
<1>11. from + LoadSize(st) = StripeLen * k1
  BY <1>1, <1>2
<1> QED
  BY <1>8, <1>9, <1>10, <1>11 DEF r

LEMMA ConsumeInputKeeps ==
  ASSUME NEW st \in State, NEW k \in Nat, AccIsOf(st, k),
         st.bufferedSize = 0, NEW n \in Nat \ {0}
  PROVE  LET r == ConsumeInput(st, StripeLen * k, n) IN
         /\ r \in State /\ AccIsOf(r, k + n) /\ EndKept(r, k + n)
         /\ r.bufferedSize = 0 /\ r.totalLen = st.totalLen
<1> DEFINE at == StripeLen * k
           all == Input(at, n * StripeLen)
           c == ConsumeStripes(st, all, n)
           last == Input(at + (n - 1) * StripeLen, StripeLen)
           b == Memcpy(c.buffer, BufferSize - StripeLen, last)
           r == ConsumeInput(st, at, n)
<1>1. /\ StripeLen \in Nat \ {0} /\ BufferSize \in Nat
      /\ StripeLen <= BufferSize /\ at \in Nat
  BY Sizes
<1>2. n * StripeLen \in Nat /\ (n - 1) * StripeLen \in Nat
  <2>1. PICK before \in Nat : before = n - 1
    <3>1. n - 1 \in Nat
      OBVIOUS
    <3> QED
      BY <3>1
  <2>2. before * StripeLen \in Nat /\ n * StripeLen \in Nat
    BY <1>1
  <2> QED
    BY <2>1, <2>2
<1>3. ASSUME NEW i \in 1..n
      PROVE  StripeAt(all, (i - 1) * StripeLen)
               = Input((k + i - 1) * StripeLen, StripeLen)
  <2>1. ASSUME NEW j \in 1..StripeLen
        PROVE  all[(i - 1) * StripeLen + j] = (k + i - 1) * StripeLen + j
    <3>1. PICK before \in Nat : before = i - 1
      <4>1. i - 1 \in Nat
        OBVIOUS
      <4> QED
        BY <4>1
    <3>2. StripeLen * before + StripeLen <= StripeLen * n
      BY <1>1, <3>1, Monotone
    <3>3. before * StripeLen \in Nat
      BY <1>1
    <3>4. before * StripeLen + j \in 1..(n * StripeLen)
      BY <1>1, <3>2, <3>3
    <3>5. all[before * StripeLen + j] = at + (before * StripeLen + j)
      BY <3>4 DEF Input
    <3> QED
      BY <1>1, <3>1, <3>5
  <2> QED
    BY <2>1 DEF StripeAt, Input
<1>4. AccIsOf(c, k + n)
  <2> HIDE DEF all
  <2> QED
    BY <1>3, ConsumeKeeps
<1>5. r = [c EXCEPT !.buffer = b]
  BY DEF ConsumeInput
<1> HIDE DEF c, r
<1>6. /\ c \in State /\ c.buffer \in Buffer
      /\ c.bufferedSize = 0 /\ c.totalLen = st.totalLen
  <2>1. /\ c \in State
        /\ c.bufferedSize = 0 /\ c.totalLen = st.totalLen
    BY <1>4, ConsumeFrame DEF c
  <2> QED
    BY <2>1 DEF State
<1>7. /\ last \in Seq(Byte) /\ Len(last) = StripeLen
      /\ \A j \in 1..StripeLen : last[j] = at + (n - 1) * StripeLen + j
  <2>1. at + (n - 1) * StripeLen \in Nat
    BY <1>1, <1>2
  <2> HIDE DEF at
  <2> QED
    BY <1>1, <2>1, InputType
<1> HIDE DEF last
<1>8. /\ b \in Buffer
      /\ \A j \in 1..StripeLen : b[BufferSize - StripeLen + j] = last[j]
  <2>1. /\ BufferSize - StripeLen \in Nat
        /\ BufferSize - StripeLen + Len(last) <= BufferSize
    BY <1>1, <1>7
  <2>2. /\ b \in Buffer
        /\ \A j \in 1..Len(last) : b[BufferSize - StripeLen + j] = last[j]
    BY <1>6, <1>7, <2>1, MemcpyType
  <2> QED
    BY <1>7, <2>2
<1> HIDE DEF b
<1>9. /\ r \in State /\ r.bufferedSize = 0 /\ r.totalLen = st.totalLen
      /\ r.buffer = b
  BY <1>5, <1>6, <1>8 DEF State
<1>10. AccIsOf(r, k + n)
  BY <1>4, <1>5, <1>6 DEF AccIsOf, State
<1>11. EndKept(r, k + n)
  <2> SUFFICES ASSUME NEW j \in (BufferSize - StripeLen + 1)..BufferSize
               PROVE  b[j] = StripeLen * (k + n) - BufferSize + j
    BY <1>1, <1>9 DEF EndKept
  <2>1. PICK i \in 1..StripeLen : j = BufferSize - StripeLen + i
    <3>1. j - (BufferSize - StripeLen) \in 1..StripeLen
      BY <1>1
    <3> QED
      BY <1>1, <3>1
  <2>2. b[j] = at + (n - 1) * StripeLen + i
    BY <1>7, <1>8, <2>1
  <2> QED
    BY <1>1, <2>1, <2>2
<1> QED
  BY <1>9, <1>10, <1>11 DEF r

-----------------------------------------------------------------------------
(* The state after an update is that of the longer input. *)

IsOf(st, n) ==
  LET k == Len(st.acc) IN
  /\ AccIsOf(st, k)
  /\ st.totalLen = n
  /\ n = StripeLen * k + st.bufferedSize
  /\ Buffered(st, k)
  /\ k > 0 => /\ st.bufferedSize > 0
              /\ n > BufferSize
              /\ EndKept(st, k)

LEMMA FreshIsOfNothing ==
  ASSUME NEW st \in State, st.acc = <<>>, st.rounds = 0,
         st.nbStripesSoFar = 0, st.bufferedSize = 0, st.totalLen = 0
  PROVE  IsOf(st, 0)
<1>1. StripesPerBlock \in Nat \ {0} /\ StripeLen \in Nat
  BY SizesAssumption
<1>2. Len(st.acc) = 0 /\ st.acc \in Seq(Fed)
  BY DEF State
<1>3. AccIsOf(st, 0)
  BY <1>1, <1>2 DEF AccIsOf
<1>4. Buffered(st, 0)
  BY DEF Buffered
<1> QED
  BY <1>1, <1>2, <1>3, <1>4 DEF IsOf

\* The last copy of an update: what is left is never empty.
LEMMA RestIsOf ==
  ASSUME NEW st \in State, NEW k \in Nat \ {0}, AccIsOf(st, k),
         EndKept(st, k), st.bufferedSize = 0,
         NEW len \in Nat \ {0}, len <= BufferSize,
         NEW n \in Nat, n = StripeLen * k + len, n > BufferSize,
         NEW r, r = [AddToBuffer(st, StripeLen * k, len) EXCEPT !.totalLen = n]
  PROVE  r \in State /\ IsOf(r, n)
<1> DEFINE a == AddToBuffer(st, StripeLen * k, len)
<1>1. StripeLen \in Nat \ {0} /\ BufferSize \in Nat /\ StripeLen * k \in Nat
  BY Sizes
<1>2. Buffered(st, k)
  BY DEF Buffered
<1>3. /\ a \in State /\ AccIsOf(a, k) /\ Buffered(a, k)
      /\ a.bufferedSize = len
      /\ \A j \in 1..BufferSize : j > len => a.buffer[j] = st.buffer[j]
  BY <1>1, <1>2, AddKeeps
<1> HIDE DEF a
<1>4. /\ r \in State /\ r.totalLen = n /\ r.bufferedSize = len
      /\ r.buffer = a.buffer /\ r.acc = a.acc /\ r.rounds = a.rounds
      /\ r.nbStripesSoFar = a.nbStripesSoFar
  <2>1. a \in State /\ a.bufferedSize = len /\ r = [a EXCEPT !.totalLen = n]
    BY <1>3 DEF a
  <2> QED
    BY <2>1 DEF State
<1>5. AccIsOf(r, k) /\ Len(r.acc) = k
  BY <1>3, <1>4 DEF AccIsOf
<1>6. Buffered(r, k)
  BY <1>3, <1>4 DEF Buffered
<1>7. EndKept(r, k)
  <2> SUFFICES ASSUME NEW j \in (BufferSize - StripeLen + len + 1)..BufferSize
               PROVE  a.buffer[j] = StripeLen * k - BufferSize + j
    BY <1>4 DEF EndKept
  <2>1. j \in 1..BufferSize /\ j > len
    BY <1>1, Sizes
  <2>2. j \in (BufferSize - StripeLen + st.bufferedSize + 1)..BufferSize
    BY <1>1
  <2> QED
    BY <1>3, <2>1, <2>2 DEF EndKept
<1>8. IsOf(r, n)
  BY <1>4, <1>5, <1>6, <1>7 DEF IsOf
<1> QED
  BY <1>4, <1>8

LEMMA UpdatedIsOf ==
  ASSUME NEW st \in State, NEW n \in Nat, IsOf(st, n), NEW len \in Nat
  PROVE  Updated(st, n, len) \in State /\ IsOf(Updated(st, n, len), n + len)
<1> DEFINE k == Len(st.acc)
           r == Updated(st, n, len)
<1>1. /\ AccIsOf(st, k) /\ Buffered(st, k) /\ st.totalLen = n
      /\ n = StripeLen * k + st.bufferedSize
      /\ k > 0 => st.bufferedSize > 0 /\ n > BufferSize /\ EndKept(st, k)
  BY DEF IsOf
<1>2. /\ k \in Nat /\ st.bufferedSize \in 0..BufferSize
      /\ BufferSize \in Nat \ {0} /\ StripeLen \in Nat \ {0}
      /\ StripeLen <= BufferSize /\ BufferStripes \in Nat \ {0}
  BY Sizes DEF State
<1> HIDE DEF k
<1>3. CASE len <= BufferSize - st.bufferedSize
  <2> DEFINE a == AddToBuffer(st, n, len)
  <2>1. /\ a \in State /\ AccIsOf(a, k) /\ Buffered(a, k)
        /\ a.bufferedSize = st.bufferedSize + len
        /\ \A j \in 1..BufferSize :
             j > st.bufferedSize + len => a.buffer[j] = st.buffer[j]
    BY <1>1, <1>2, <1>3, AddKeeps
  <2>2. r = [a EXCEPT !.totalLen = n + len]
    <3>1. a.totalLen = n
      BY <1>1, <1>2, <1>3, AddKeeps
    <3> QED
      BY <1>3, <3>1 DEF Updated
  <2> HIDE DEF a, r
  <2>3. /\ r \in State /\ r.totalLen = n + len /\ r.buffer = a.buffer
        /\ r.bufferedSize = st.bufferedSize + len /\ r.acc = a.acc
        /\ r.rounds = a.rounds /\ r.nbStripesSoFar = a.nbStripesSoFar
    <3>1. a \in State /\ a.bufferedSize = st.bufferedSize + len /\ n + len \in Nat
      BY <2>1
    <3> QED
      BY <2>2, <3>1 DEF State
  <2>4. AccIsOf(r, k) /\ Len(r.acc) = k
    BY <2>1, <2>3 DEF AccIsOf
  <2>5. Buffered(r, k)
    BY <2>1, <2>3 DEF Buffered
  <2>6. ASSUME k > 0 PROVE EndKept(r, k)
    <3> SUFFICES ASSUME NEW j \in (BufferSize - StripeLen
                                    + (st.bufferedSize + len) + 1)..BufferSize
                 PROVE  a.buffer[j] = StripeLen * k - BufferSize + j
      BY <2>3 DEF EndKept
    <3>1. j \in 1..BufferSize /\ j > st.bufferedSize + len
      BY <1>2
    <3>2. j \in (BufferSize - StripeLen + st.bufferedSize + 1)..BufferSize
      BY <1>2
    <3> QED
      BY <1>1, <2>1, <2>6, <3>1, <3>2 DEF EndKept
  <2>7. n + len = StripeLen * k + r.bufferedSize
    BY <1>1, <1>2, <2>3
  <2>8. k > 0 => r.bufferedSize > 0 /\ n + len > BufferSize
    BY <1>1, <1>2, <2>3
  <2>9. IsOf(r, n + len)
    BY <2>3, <2>4, <2>5, <2>6, <2>7, <2>8 DEF IsOf
  <2> QED
    BY <2>3, <2>9 DEF r
<1>4. CASE ~(len <= BufferSize - st.bufferedSize)
  <2> DEFINE emptied == ConsumeBuffer(st, n)
             at == n + LoadSize(st)
             left == len - LoadSize(st)
             m == IF left > BufferSize THEN (left - 1) \div StripeLen ELSE 0
             rest == IF m > 0 THEN ConsumeInput(emptied, at, m) ELSE emptied
  <2>1. PICK k1 \in Nat :
          /\ emptied \in State /\ AccIsOf(emptied, k1)
          /\ emptied.bufferedSize = 0 /\ emptied.totalLen = n
          /\ at = StripeLen * k1
          /\ k1 > 0 => EndKept(emptied, k1)
          /\ k1 = 0 => left > BufferSize
    <3>1. CASE st.bufferedSize = 0
      <4>1. k = 0 /\ LoadSize(st) = 0 /\ emptied = st
        BY <1>1, <1>2, <3>1 DEF ConsumeBuffer, LoadSize
      <4>2. at = StripeLen * k /\ left > BufferSize
        BY <1>1, <1>2, <1>4, <3>1, <4>1
      <4> QED
        BY <1>1, <1>2, <3>1, <4>1, <4>2
    <3>2. CASE st.bufferedSize > 0
      <4>1. /\ emptied \in State /\ AccIsOf(emptied, k + BufferStripes)
            /\ EndKept(emptied, k + BufferStripes)
            /\ emptied.bufferedSize = 0 /\ emptied.totalLen = n
            /\ at = StripeLen * (k + BufferStripes)
        BY <1>1, <1>2, <3>2, ConsumeBufferKeeps
      <4>2. k + BufferStripes \in Nat \ {0}
        BY <1>2
      <4> HIDE DEF emptied, at, left
      <4> QED
        BY <4>1, <4>2
    <3> QED
      BY <1>2, <3>1, <3>2
  <2>2. left \in Nat \ {0} /\ at + left = n + len
    BY <1>2, <1>4 DEF LoadSize
  <2> HIDE DEF emptied, at, left
  <2>3. PICK k2 \in Nat \ {0} :
          /\ rest \in State /\ AccIsOf(rest, k2) /\ EndKept(rest, k2)
          /\ rest.bufferedSize = 0 /\ rest.totalLen = n /\ m \in Nat
          /\ at + m * StripeLen = StripeLen * k2
          /\ left - m * StripeLen \in 1..BufferSize
    <3>1. CASE left > BufferSize
      <4>1. PICK before \in Nat : before = left - 1
        BY <2>2
      <4>2. PICK over \in Nat :
              m \in Nat /\ over < StripeLen /\ before = StripeLen * m + over
        <5>1. /\ m \in Nat /\ before % StripeLen \in Nat
              /\ before % StripeLen < StripeLen
              /\ before = StripeLen * m + (before % StripeLen)
          BY <1>2, <3>1, <4>1, DivRange
        <5> HIDE DEF m
        <5> QED
          BY <5>1
      <4> HIDE DEF m
      <4>3. m # 0
        <5> SUFFICES ASSUME m = 0 PROVE FALSE
          OBVIOUS
        <5>1. StripeLen * m = 0
          BY <1>2
        <5> QED
          BY <1>2, <2>2, <3>1, <4>1, <4>2, <5>1
      <4>4. left - m * StripeLen \in 1..BufferSize
        <5>1. m * StripeLen = StripeLen * m /\ StripeLen * m \in Nat
          BY <1>2, <4>2
        <5> QED
          BY <1>2, <2>2, <4>1, <4>2, <5>1
      <4>5. rest = ConsumeInput(emptied, StripeLen * k1, m)
        BY <2>1, <4>2, <4>3
      <4>6. /\ rest \in State /\ AccIsOf(rest, k1 + m) /\ EndKept(rest, k1 + m)
            /\ rest.bufferedSize = 0 /\ rest.totalLen = n
        <5>1. m \in Nat \ {0}
          BY <4>2, <4>3
        <5> HIDE DEF rest
        <5> QED
          BY <2>1, <4>5, <5>1, ConsumeInputKeeps
      <4>7. at + m * StripeLen = StripeLen * (k1 + m) /\ k1 + m \in Nat \ {0}
        BY <1>2, <2>1, <4>2, <4>3
      <4> HIDE DEF rest
      <4> QED
        BY <4>2, <4>4, <4>6, <4>7
    <3>2. CASE ~(left > BufferSize)
      <4>1. m = 0 /\ rest = emptied
        BY <3>2
      <4>2. m * StripeLen = 0
        BY <1>2, <4>1
      <4> HIDE DEF m, rest
      <4>3. /\ at + m * StripeLen = StripeLen * k1
            /\ left - m * StripeLen \in 1..BufferSize
        BY <1>2, <2>1, <2>2, <3>2, <4>2
      <4> QED
        BY <2>1, <3>2, <4>1, <4>3
    <3> QED
      BY <3>1, <3>2
  <2> DEFINE len2 == left - m * StripeLen
             a == AddToBuffer(rest, at + m * StripeLen, len2)
  <2>4. r = [a EXCEPT !.totalLen = a.totalLen + len]
    BY <1>4 DEF Updated, emptied, at, left
  <2> HIDE DEF rest, m, r
  <2>5. /\ len2 \in Nat \ {0} /\ len2 <= BufferSize
        /\ n + len = StripeLen * k2 + len2 /\ n + len > BufferSize
    <3>1. n + len > BufferSize
      BY <1>1, <1>2, <1>4
    <3>2. n + len = StripeLen * k2 + len2
      <4>1. m * StripeLen \in Nat /\ at \in Int
        BY <1>2, <2>1, <2>3
      <4> QED
        BY <2>2, <2>3, <4>1
    <3> QED
      BY <1>2, <2>3, <3>1, <3>2
  <2> HIDE DEF len2
  <2>6. a = AddToBuffer(rest, StripeLen * k2, len2)
    BY <2>3
  <2>7. a.totalLen = n
    <3>1. StripeLen * k2 \in Nat /\ Buffered(rest, k2)
      BY <1>2, <2>3 DEF Buffered
    <3> QED
      BY <1>2, <2>3, <2>5, <2>6, <3>1, AddKeeps
  <2>8. r = [AddToBuffer(rest, StripeLen * k2, len2) EXCEPT !.totalLen = n + len]
    BY <2>4, <2>6, <2>7
  <2> HIDE DEF a
  <2> QED
    BY <2>3, <2>5, <2>8, RestIsOf DEF r
<1> QED
  BY <1>3, <1>4

-----------------------------------------------------------------------------
(* The digest of a state is the one-shot hash of what it was given. *)

\* However many stripes were consumed when, those of the one-shot loop are
\* reached when less than a stripe is left before the last byte.
LEMMA LongIsHashLong ==
  ASSUME NEW st \in State, NEW k \in Nat, AccIsOf(st, k),
         NEW n \in Nat, st.totalLen = n,
         NEW r \in Nat, r < StripeLen, n - 1 = StripeLen * k + r
  PROVE  LongHash(st, Input(n - StripeLen, StripeLen)) = HashLong(n)
<1> DEFINE blockLen == StripeLen * StripesPerBlock
           blocks == (n - 1) \div blockLen
           stripes == ((n - 1) - blockLen * blocks) \div StripeLen
           q == st.rounds
           m == st.nbStripesSoFar
           over == StripeLen * m + r
<1>1. /\ StripeLen \in Nat \ {0} /\ StripesPerBlock \in Nat \ {0}
      /\ q \in Nat /\ m \in Nat /\ m < StripesPerBlock
      /\ k = StripesPerBlock * q + m
      /\ st.acc \in Seq(Fed) /\ Len(st.acc) = k
      /\ \A i \in 1..k : st.acc[i] = FedBy(i)
  BY SizesAssumption DEF AccIsOf
<1> HIDE DEF q, m
<1>2. blockLen \in Nat \ {0} /\ over \in Nat /\ over < blockLen
  <2>1. StripeLen * m + StripeLen <= StripeLen * StripesPerBlock
    BY <1>1, Monotone
  <2>2. StripeLen * m \in Nat /\ StripeLen * StripesPerBlock \in Nat
    BY <1>1
  <2> QED
    BY <1>1, <2>1, <2>2
<1>3. n - 1 = blockLen * q + over
  BY <1>1
<1>4. blocks = q
  <2> HIDE DEF blockLen, over
  <2>1. (blockLen * q + over) \div blockLen = q
    BY <1>1, <1>2, DivUnique
  <2> QED
    BY <1>3, <2>1
<1>5. stripes = m
  <2>1. (n - 1) - blockLen * blocks = over
    <3>1. blockLen * blocks = blockLen * q
      BY <1>4
    <3>2. blockLen * q \in Int
      BY <1>1, <1>2
    <3> HIDE DEF blocks, blockLen, over
    <3> QED
      BY <1>2, <1>3, <3>1, <3>2
  <2>2. (StripeLen * m + r) \div StripeLen = m
    BY <1>1, DivUnique
  <2> QED
    BY <2>1, <2>2
<1>6. HashLong(n) = [acc |-> [i \in 1..(q * StripesPerBlock + m) |-> FedBy(i)],
                     rounds |-> q, last |-> Input(n - StripeLen, StripeLen),
                     len |-> n]
  <2>1. HashLong(n) = [acc |-> [i \in 1..(blocks * StripesPerBlock + stripes)
                                  |-> FedBy(i)],
                       rounds |-> blocks,
                       last |-> Input(n - StripeLen, StripeLen), len |-> n]
    BY DEF HashLong
  <2> HIDE DEF blocks, stripes
  <2> QED
    BY <1>4, <1>5, <2>1
<1>7. st.acc = [i \in 1..(q * StripesPerBlock + m) |-> FedBy(i)]
  <2>1. q * StripesPerBlock + m = k
    BY <1>1
  <2>2. st.acc = [i \in 1..k |-> FedBy(i)]
    BY <1>1
  <2> QED
    BY <2>1, <2>2
<1> QED
  BY <1>6, <1>7 DEF LongHash, q

LEMMA DigestOfIsOneShot ==
  ASSUME NEW st \in State, NEW n \in Nat, IsOf(st, n)
  PROVE  DigestOf(st) = OneShot(n)
<1> DEFINE k == Len(st.acc)
           b == st.bufferedSize
<1>1. /\ AccIsOf(st, k) /\ Buffered(st, k) /\ st.totalLen = n
      /\ n = StripeLen * k + b
      /\ k > 0 => b > 0 /\ n > BufferSize /\ EndKept(st, k)
  BY DEF IsOf
<1>2. /\ k \in Nat /\ b \in 0..BufferSize
      /\ BufferSize \in Nat \ {0} /\ StripeLen \in Nat \ {0}
      /\ StripeLen <= BufferSize /\ MidSize \in Nat
      /\ StripeLen <= MidSize /\ MidSize <= BufferSize
  BY Sizes DEF State
<1> HIDE DEF k, b
<1>3. CASE n <= MidSize
  <2>1. k = 0 /\ b = n
    BY <1>1, <1>2, <1>3
  <2>2. [j \in 1..n |-> st.buffer[j]] = Input(0, n)
    <3>1. \A j \in 1..n : st.buffer[j] = 0 + j
      BY <1>1, <1>2, <2>1 DEF Buffered, b
    <3> QED
      BY <3>1 DEF Input
  <2> QED
    BY <1>1, <1>2, <1>3, <2>2 DEF DigestOf, OneShot
<1>4. CASE n > MidSize /\ b >= StripeLen
  <2>1. PICK before \in Nat : before = b - 1
    BY <1>2, <1>4
  <2> DEFINE nb == (b - 1) \div StripeLen
             c == ConsumeStripes(st, st.buffer, nb)
             last == StripeAt(st.buffer, b - StripeLen)
  <2>2. PICK r \in Nat : nb \in Nat /\ r < StripeLen /\ before = StripeLen * nb + r
    <3>1. /\ before \div StripeLen \in Nat /\ before % StripeLen \in Nat
          /\ before % StripeLen < StripeLen
          /\ before = StripeLen * (before \div StripeLen) + (before % StripeLen)
      BY <1>2, DivRange
    <3> QED
      BY <2>1, <3>1
  <2> HIDE DEF nb
  <2>3. ASSUME NEW i \in 1..nb
        PROVE  StripeAt(st.buffer, (i - 1) * StripeLen)
                 = Input((k + i - 1) * StripeLen, StripeLen)
    <3>1. ASSUME NEW j \in 1..StripeLen
          PROVE  st.buffer[(i - 1) * StripeLen + j]
                   = (k + i - 1) * StripeLen + j
      <4>1. PICK h \in Nat : h = i - 1
        <5>1. i - 1 \in Nat
          BY <2>2
        <5> QED
          BY <5>1
      <4>2. StripeLen * h + StripeLen <= StripeLen * nb
        BY <1>2, <2>2, <4>1, Monotone
      <4>3. h * StripeLen \in Nat /\ h * StripeLen = StripeLen * h
        BY <1>2
      <4>4. h * StripeLen + j \in 1..b
        BY <1>2, <2>1, <2>2, <4>2, <4>3
      <4>5. st.buffer[h * StripeLen + j] = StripeLen * k + (h * StripeLen + j)
        BY <1>1, <4>4 DEF Buffered, b
      <4> QED
        BY <1>2, <4>1, <4>5
    <3> QED
      BY <3>1 DEF StripeAt, Input
  <2>4. AccIsOf(c, k + nb)
    BY <1>1, <1>2, <2>2, <2>3, ConsumeKeeps
  <2>5. c \in State /\ c.totalLen = n
    BY <1>1, <1>2, <2>2, <2>4, ConsumeFrame
  <2>6. last = Input(n - StripeLen, StripeLen)
    <3>1. ASSUME NEW j \in 1..StripeLen
          PROVE  st.buffer[b - StripeLen + j] = n - StripeLen + j
      <4>1. b - StripeLen + j \in 1..b
        BY <1>2, <1>4
      <4>2. st.buffer[b - StripeLen + j] = StripeLen * k + (b - StripeLen + j)
        BY <1>1, <4>1 DEF Buffered, b
      <4> QED
        BY <1>1, <1>2, <4>2
    <3> QED
      BY <3>1 DEF StripeAt, Input
  <2>7. DigestOf(st) = LongHash(c, last)
    BY <1>1, <1>4, <1>2 DEF DigestOf, DigestLong, nb, b
  <2>8. n - 1 = StripeLen * (k + nb) + r
    BY <1>1, <1>2, <2>1, <2>2
  <2>9. LongHash(c, Input(n - StripeLen, StripeLen)) = HashLong(n)
    <3> HIDE DEF c
    <3>1. k + nb \in Nat
      BY <1>2, <2>2
    <3> QED
      BY <2>2, <2>4, <2>5, <2>8, <3>1, LongIsHashLong
  <2> QED
    BY <1>2, <1>4, <2>6, <2>7, <2>9 DEF OneShot
<1>5. CASE n > MidSize /\ ~(b >= StripeLen)
  <2> DEFINE catchup == StripeLen - b
  <2>1. k > 0
    <3> SUFFICES ASSUME k = 0 PROVE FALSE
      BY <1>2
    <3>1. StripeLen * k = 0
      BY <1>2
    <3> QED
      BY <1>1, <1>2, <1>5, <3>1
  <2>2. CatchUp(st) = Input(n - StripeLen, StripeLen)
    <3>1. ASSUME NEW j \in 1..StripeLen, j <= catchup
          PROVE  st.buffer[BufferSize - catchup + j] = n - StripeLen + j
      <4>1. BufferSize - catchup + j \in (BufferSize - StripeLen + b + 1)..BufferSize
        BY <1>2, <1>5, <3>1
      <4>2. st.buffer[BufferSize - catchup + j]
              = StripeLen * k - BufferSize + (BufferSize - catchup + j)
        BY <1>1, <2>1, <4>1 DEF EndKept, b
      <4> QED
        BY <1>1, <1>2, <4>2
    <3>2. ASSUME NEW j \in 1..StripeLen, ~(j <= catchup)
          PROVE  st.buffer[j - catchup] = n - StripeLen + j
      <4>1. j - catchup \in 1..b
        BY <1>2, <1>5, <3>2
      <4>2. st.buffer[j - catchup] = StripeLen * k + (j - catchup)
        BY <1>1, <4>1 DEF Buffered, b
      <4> QED
        BY <1>1, <1>2, <4>2
    <3> QED
      BY <3>1, <3>2 DEF CatchUp, Input, b
  <2>3. DigestOf(st) = LongHash(st, CatchUp(st))
    BY <1>1, <1>2, <1>5 DEF DigestOf, DigestLong, b
  <2>4. PICK r \in Nat : r = b - 1 /\ r < StripeLen
    <3>1. b - 1 \in Nat /\ b - 1 < StripeLen
      BY <1>1, <1>2, <1>5, <2>1
    <3> QED
      BY <3>1
  <2>5. n - 1 = StripeLen * k + r
    BY <1>1, <1>2, <2>4
  <2>6. LongHash(st, Input(n - StripeLen, StripeLen)) = HashLong(n)
    BY <1>1, <1>2, <2>4, <2>5, LongIsHashLong
  <2> QED
    BY <1>2, <1>5, <2>2, <2>3, <2>6 DEF OneShot
<1> QED
  BY <1>2, <1>3, <1>4, <1>5

-----------------------------------------------------------------------------
(* Every behaviour. *)

IInv ==
  /\ state \in State \cup {None}
  /\ absorbed \in Nat \cup {None}
  /\ absorbed # None => state \in State /\ IsOf(state, absorbed)
  /\ answer # None => absorbed # None /\ answer = OneShot(absorbed)

LEMMA LeftoverType ==
  ASSUME NEW n \in 0..BufferSize
  PROVE  [acc |-> <<>>, rounds |-> n, nbStripesSoFar |-> n,
          buffer |-> [j \in 1..BufferSize |-> Stale],
          bufferedSize |-> n, totalLen |-> n] \in State
<1>1. <<>> \in Seq(Fed)
  OBVIOUS
<1>2. [j \in 1..BufferSize |-> Stale] \in Buffer
  BY DEF Buffer, Byte, Stale
<1>3. n \in Nat
  BY Sizes
<1> QED
  BY <1>1, <1>2, <1>3 DEF State

LEMMA InitIInv == Init => IInv
BY NoneAssumption DEF Init, IInv

LEMMA NextIInv == IInv /\ [Next]_vars => IInv'
<1> SUFFICES ASSUME IInv, [Next]_vars PROVE IInv'
  OBVIOUS
<1>1. CASE CreateState
  <2>1. absorbed = None /\ answer = None
    BY <1>1, NoneAssumption DEF CreateState, IInv
  <2>2. state' \in State
    BY <1>1, LeftoverType DEF CreateState
  <2> QED
    BY <1>1, <2>1, <2>2 DEF CreateState, IInv
<1>2. CASE Reset
  <2>1. 0 \in 0..BufferSize
    BY Sizes
  <2>2. state' \in State
    BY <1>2, <2>1, LeftoverType DEF Reset
  <2>3. IsOf(state', 0)
    <3>1. /\ state'.acc = <<>> /\ state'.rounds = 0
          /\ state'.nbStripesSoFar = 0 /\ state'.bufferedSize = 0
          /\ state'.totalLen = 0
      BY <1>2 DEF Reset
    <3> QED
      BY <2>2, <3>1, FreshIsOfNothing
  <2> QED
    BY <1>2, <2>2, <2>3 DEF Reset, IInv
<1>3. CASE \E len \in 0..MaxTotal : Update(len)
  <2>1. PICK len \in Nat : Update(len)
    BY <1>3, SizesAssumption
  <2>2. state \in State /\ absorbed \in Nat /\ IsOf(state, absorbed)
    BY <2>1 DEF Update, IInv
  <2>3. state' \in State /\ IsOf(state', absorbed + len)
    BY <2>1, <2>2, UpdatedIsOf DEF Update
  <2> QED
    BY <2>1, <2>2, <2>3 DEF Update, IInv
<1>4. CASE Digest
  <2>1. state \in State /\ absorbed \in Nat /\ IsOf(state, absorbed)
    BY <1>4 DEF Digest, IInv
  <2>2. answer' = OneShot(absorbed)
    BY <1>4, <2>1, DigestOfIsOneShot DEF Digest
  <2> QED
    BY <1>4, <2>1, <2>2 DEF Digest, IInv
<1>5. CASE FreeState
  BY <1>5, NoneAssumption DEF FreeState, IInv
<1>6. CASE UNCHANGED vars
  BY <1>6 DEF vars, IInv
<1> QED
  BY <1>1, <1>2, <1>3, <1>4, <1>5, <1>6 DEF Next

\* Every variable keeps its type, the buffer is never overrun, and a block that
\* is begun is never full (XXH3_consumeStripes).
THEOREM StreamTypeOK == Spec => []TypeOK
<1>1. IInv => TypeOK
  BY NoneAssumption DEF IInv, IsOf, AccIsOf, TypeOK
<1> QED
  BY <1>1, InitIInv, NextIInv, PTL DEF Spec

\* XXH3_64bits_digest is the one-shot hash of the bytes given since the reset,
\* for every cut of them into updates and every size of stripe, block and buffer.
THEOREM DigestCorrect == Spec => []DigestIsOneShot
<1>1. IInv => DigestIsOneShot
  BY DEF IInv, DigestIsOneShot
<1> QED
  BY <1>1, InitIInv, NextIInv, PTL DEF Spec

-----------------------------------------------------------------------------
(* Where a state is put. *)

LEMMA OffsetRange ==
  ASSUME NEW base \in Bases
  PROVE  /\ base \in Nat /\ Offset(base) \in 1..Align
         /\ Offset(base) % ByteRange = Offset(base)
         /\ (base + Offset(base)) % Align = 0
<1>1. base \in Nat /\ Align \in Nat \ {0} /\ Align <= 128
  BY AlignAssumption
<1> DEFINE q == base \div Align
           r == base % Align
<1>2. q \in Nat /\ r \in Nat /\ r < Align /\ base = Align * q + r
  BY <1>1, DivRange
<1> HIDE DEF q, r
<1>3. Offset(base) = Align - r
  BY DEF Offset, r
<1>4. Offset(base) \in 1..Align
  BY <1>1, <1>2, <1>3
<1>5. Offset(base) % ByteRange = Offset(base)
  BY <1>1, <1>4 DEF ByteRange
<1>6. base + Offset(base) = Align * (q + 1) + 0
  BY <1>1, <1>2, <1>3
<1>7. (Align * (q + 1) + 0) % Align = 0
  <2>1. q + 1 \in Nat
    BY <1>2
  <2> QED
    BY <1>1, <2>1, DivUnique
<1> QED
  BY <1>1, <1>4, <1>5, <1>6, <1>7

-----------------------------------------------------------------------------
(* A state in memory is a state. *)

\* Placing a state adds nothing to what its calls do and forbids none of it.
THEOREM MemoryImplementsStream == MemorySpec => Spec
<1>1. MemoryInit => Init
  BY DEF MemoryInit
<1>2. [MemoryNext]_<<vars, memoryVars>> => [Next]_vars
  BY DEF MemoryNext, Create, Free, Use, Next
<1> QED
  BY <1>1, <1>2, PTL DEF MemorySpec, Spec

\* So the digest of a state in memory is the one-shot hash of what it was given.
THEOREM MemoryDigestCorrect == MemorySpec => []DigestIsOneShot
BY MemoryImplementsStream, DigestCorrect, PTL

LEMMA MemoryTypeOK == MemorySpec => []TypeOK
BY MemoryImplementsStream, StreamTypeOK, PTL

-----------------------------------------------------------------------------
(* The state is where Create has put it. *)

Placed ==
  state # None =>
    \E base \in Bases :
      block = [base |-> base, ptr |-> base + Offset(base),
               behind |-> Offset(base)]

LEMMA PlacedFits == Placed => StateFits
<1> SUFFICES ASSUME Placed, state # None
             PROVE  /\ block.ptr % Align = 0
                    /\ block.ptr - 1 >= block.base
                    /\ block.ptr + StateSize <= block.base + StateSize + Align
  BY DEF StateFits
<1>1. PICK base \in Bases :
        block = [base |-> base, ptr |-> base + Offset(base),
                 behind |-> Offset(base)]
  BY DEF Placed
<1>2. base \in Nat /\ Offset(base) \in 1..Align
      /\ (base + Offset(base)) % Align = 0
  BY OffsetRange
<1>3. block.base = base /\ block.ptr = base + Offset(base)
  BY <1>1
<1> QED
  BY <1>2, <1>3, AlignAssumption

LEMMA NextPlaced ==
  ASSUME TypeOK, Placed, [MemoryNext]_<<vars, memoryVars>>
  PROVE  Placed'
<1>1. CASE Create
  <2>1. PICK base \in Bases :
          block' = [base |-> base, ptr |-> base + Offset(base),
                    behind |-> Offset(base) % ByteRange]
    BY <1>1 DEF Create, alignedMalloc
  <2> QED
    BY <2>1, OffsetRange DEF Placed
<1>2. CASE Free
  BY <1>2 DEF Free, FreeState, Placed
<1>3. CASE Use
  <2>1. state # None
    BY <1>3 DEF Use, Reset, Digest, Update, TypeOK
  <2> QED
    BY <1>3, <2>1 DEF Use, Placed
<1>4. CASE UNCHANGED <<vars, memoryVars>>
  BY <1>4 DEF vars, memoryVars, Placed
<1> QED
  BY <1>1, <1>2, <1>3, <1>4 DEF MemoryNext

\* A state begins at an aligned address inside the block it was given, with the
\* byte before it, for every address malloc may return (XXH_alignedMalloc).
THEOREM MemoryStateFits == MemorySpec => []StateFits
<1>1. MemoryInit => Placed
  BY DEF MemoryInit, Init, Placed
<1>2. TypeOK /\ Placed /\ [MemoryNext]_<<vars, memoryVars>> => Placed'
  BY NextPlaced
<1> QED
  BY <1>1, <1>2, PlacedFits, MemoryTypeOK, PTL DEF MemorySpec

\* free is given the address malloc returned (XXH_alignedFree).
THEOREM MemoryFrees == MemorySpec => FreesWhatItGot
<1>1. MemoryInit => Placed
  BY DEF MemoryInit, Init, Placed
<1>2. TypeOK /\ Placed /\ [MemoryNext]_<<vars, memoryVars>> => Placed'
  BY NextPlaced
<1>3. ASSUME Placed, [MemoryNext]_<<vars, memoryVars>>
      PROVE  [freed' # None => freed' = block.base]_<<vars, memoryVars>>
  <2>1. CASE Free
    <3>1. PICK base \in Bases :
            block = [base |-> base, ptr |-> base + Offset(base),
                     behind |-> Offset(base)]
      BY <1>3, <2>1 DEF Free, FreeState, Placed
    <3>2. base \in Nat /\ Offset(base) \in 1..Align
      BY OffsetRange
    <3> QED
      BY <2>1, <3>1, <3>2 DEF Free, alignedFree
  <2>2. CASE Create \/ Use
    BY <2>2 DEF Create, Use
  <2>3. CASE UNCHANGED <<vars, memoryVars>>
    BY <2>3
  <2> QED
    BY <1>3, <2>1, <2>2, <2>3 DEF MemoryNext
<1> QED
  BY <1>1, <1>2, <1>3, MemoryTypeOK, PTL DEF MemorySpec, FreesWhatItGot

=============================================================================
