----------------------------- MODULE XXH3Memory -----------------------------
(***************************************************************************)
(* Where a streaming state is in memory.  The accumulators and the buffer  *)
(* of XXH3_state_t are read with aligned loads, and malloc aligns to less  *)
(* than they need, so XXH3_createState asks for more than a state, moves   *)
(* up to an aligned address and leaves in the byte before it how far;      *)
(* XXH3_freeState finds its way back by that byte.  The calls are those of *)
(* XXH3Stream, two of them with what they do to memory.                    *)
(*                                                                         *)
(* An operator Name_Change is Name with a change that a slip in the code   *)
(* could make; nothing uses it (the README names the property it breaks).  *)
(***************************************************************************)
EXTENDS XXH3Stream

CONSTANTS
  Bases,       \* addresses malloc may return
  StateSize,   \* sizeof(XXH3_state_t)
  Align        \* 64

ByteRange == 256     \* xxh_u8

\* The range is that of the assertion at line 6483.  A power of two, too, but
\* only for & to compute the remainder.
ASSUME AlignAssumption ==
  /\ Bases \subseteq Nat
  /\ StateSize \in Nat \ {0}
  /\ Align \in 8..128

VARIABLES
  block,   \* the block a state is in, or None: its base, the address ptr of the
           \* state, and what ptr[-1] holds
  freed    \* what the last call gave to free, when it was XXH3_freeState

memoryVars == <<block, freed>>

-----------------------------------------------------------------------------

Offset_None(base) == (Align - (base % Align)) % Align

Offset(base) == Align - (base % Align)

alignedMalloc ==
  \E base \in Bases :
    block' = [base   |-> base,
              ptr    |-> base + Offset(base),
              behind |-> Offset(base) % ByteRange]

alignedFree_Plain ==
  /\ freed' = block.ptr
  /\ block' = None

alignedFree ==
  /\ freed' = block.ptr - block.behind
  /\ block' = None

MemoryInit == Init /\ block = None /\ freed = None

\* A malloc that fails is a call without effect.
Create == CreateState /\ alignedMalloc /\ freed' = None

Free == FreeState /\ alignedFree

\* The other calls stay inside the state.
Use ==
  /\ Reset \/ Digest \/ \E len \in 0..MaxTotal : Update(len)
  /\ freed' = None
  /\ UNCHANGED block

MemoryNext == Create \/ Free \/ Use

MemorySpec == MemoryInit /\ [][MemoryNext]_<<vars, memoryVars>>

-----------------------------------------------------------------------------
(* Properties. *)

\* A state begins at an aligned address, and it and the byte before it are in
\* the StateSize + Align bytes that were asked for, an address that malloc had
\* aligned already included (xxhash.h:6468, "completely unnoticed due to
\* XXH3_createState() not actually being tested").
StateFits ==
  state # None =>
    /\ block.ptr % Align = 0
    /\ block.ptr - 1 >= block.base
    /\ block.ptr + StateSize <= block.base + StateSize + Align

\* free is given what malloc returned (xxhash.h:6512-6522).
FreesWhatItGot == [][freed' # None => freed' = block.base]_<<vars, memoryVars>>

=============================================================================
