--------------------------- MODULE MCFileTransfer ---------------------------
(* Instances of FileTransfer for TLC: two peers, a and b, two files, f and g. *)
EXTENDS FileTransfer, TLC

CONSTANTS a, b, f, g, n1, n2

BothPeers == {a, b}

OnlyA(n) == [p \in BothPeers |-> IF p = a THEN n ELSE 0]
Each(n) == [p \in BothPeers |-> n]
NoneOf == Each(0)
OnceEach == Each(1)
TwiceEach == Each(2)
OnceByA == OnlyA(1)

OwnFiles == [p \in BothPeers |-> IF p = a THEN {f} ELSE {g}]

SameName == (f :> n1) @@ (g :> n1)
DistinctNames == (f :> n1) @@ (g :> n2)
OneAndTwoBlocks == (f :> 1) @@ (g :> 2)
OneAndThreeBlocks == (f :> 1) @@ (g :> 3)
OneAndFourBlocks == (f :> 1) @@ (g :> 4)
EmptyAndOneBlock == (f :> 0) @@ (g :> 1)
=============================================================================
