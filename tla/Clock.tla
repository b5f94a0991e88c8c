-------------------------------- MODULE Clock --------------------------------
(***************************************************************************)
(* block.timestamp, shared by the contracts that compare it with a stored  *)
(* deadline.                                                               *)
(***************************************************************************)
EXTENDS Naturals

CONSTANT MaxTime   \* bound: last block timestamp

ASSUME MaxTimeAssumption == MaxTime \in Nat

VARIABLE now       \* block.timestamp

Advance ==
    /\ now < MaxTime
    /\ now' = now + 1
==============================================================================
