----------------------------- MODULE MCSignaling -----------------------------
(* Instances of Signaling for TLC: three clients, p1, p2 and p3. *)
EXTENDS Signaling, TLC

CONSTANTS p1, p2, p3

Symmetry == Permutations(Clients)
=============================================================================
