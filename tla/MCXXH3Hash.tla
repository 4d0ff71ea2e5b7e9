----------------------------- MODULE MCXXH3Hash -----------------------------
(* The builds of the instance and its bytes: arbitrary, with all-zero and   *)
(* all-one stripes for the carries.                                         *)
EXTENDS XXH3Hash

Plain(vector, lanes, int128) ==
  [vector |-> vector, lanes |-> lanes, wasm |-> FALSE,
   bigEndian |-> FALSE, int128 |-> int128]

BigEndian(b) == [b EXCEPT !.bigEndian = TRUE]

MCBuilds ==
  {Plain(v, 0, TRUE) : v \in {"scalar", "sse2", "avx2", "avx512", "vsx", "lsx",
                              "lasx"}}
  \cup {Plain("neon", n, TRUE) : n \in {2, 4, 6, 8}}
  \cup {[Plain("neon", 8, FALSE) EXCEPT !.wasm = TRUE]}
  \cup {Plain("sve", n, TRUE) : n \in {2, 4, 8}}
  \cup {Plain("rvv", n, TRUE) : n \in {2, 4, 8}}
  \cup {Plain("scalar", 0, FALSE), BigEndian(Plain("scalar", 0, FALSE)),
        BigEndian(Plain("vsx", 0, TRUE))}

MCShortBuilds ==
  [bigEndian : BOOLEAN, byByte : BOOLEAN, sizeOpt : BOOLEAN]

MCSecret ==
  [j \in 0..SecretSize-1 |-> (j * j * 3 + j * 5 + (j \div 3) + 6) % 2^ByteBits]

MCInitAcc == [l \in Lane |-> (l * l * 977 + l * 1723 + 3301) % 2^WordBits]

Filled(x) == [j \in 0..STRIPE_LEN-1 |-> x]

MCStripes ==
  {Filled(0), Filled(2^ByteBits - 1),
   [j \in 0..STRIPE_LEN-1 |-> (j * j + j * 3 + (j \div 5) + 1) % 2^ByteBits]}

=============================================================================
