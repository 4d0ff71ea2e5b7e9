---------------------------- MODULE MCXXH3Memory ----------------------------
(* Addresses aligned to 8, to 16 and to all of the 64 bytes needed.         *)
EXTENDS XXH3Memory

MCBases == {4104, 4112, 4160}

=============================================================================
