------------------------------ MODULE XXH3Hash ------------------------------
(***************************************************************************)
(* XXH3_64bits_internal of an input that grows: up to XXH3_MIDSIZE_MAX     *)
(* bytes it is hashed as XXH3Short has it, beyond that by stripes, as      *)
(* XXH3Builds has it.                                                      *)
(***************************************************************************)
EXTENDS XXH3Builds

CONSTANTS
  ShortBuilds   \* the builds compared on short inputs, each a Short!Build

VARIABLES
  len,          \* bytes of the input, as long as it is short
  shortHash     \* what each build makes of them

allVars == <<vars, len, shortHash>>

Short == INSTANCE XXH3Short WITH Builds <- ShortBuilds, hash <- shortHash

ASSUME ShortBuildsAssumption ==
  ShortBuilds \subseteq Short!Build /\ ShortBuilds # {}

HashInit == Init /\ Short!Init

ShortNext == Short!Next /\ UNCHANGED vars

\* A short input is not accumulated; a long one has nothing of a short one.
LongNext == len = Short!MIDSIZE_MAX /\ Next /\ UNCHANGED <<len, shortHash>>

HashNext == ShortNext \/ LongNext

HashSpec == HashInit /\ [][HashNext]_allVars

-----------------------------------------------------------------------------

\* The properties of short inputs, stated in XXH3Short: every build makes the
\* same of one (xxhash.h:1093),
ShortBuildsAgree == Short!BuildsAgree

\* reads every byte of it and no other,
EveryByteIsRead == Short!EveryByteIsRead

\* and pairs each chunk with a part of the secret of its own.
ChunksDoNotCommute == Short!ChunksDoNotCommute

=============================================================================
