------------------------------ MODULE FixedPoint ------------------------------
(***************************************************************************)
(* The fixed point in which the margin engine and the price oracle answer  *)
(* a vault, and the prices they may answer with.                           *)
(***************************************************************************)
EXTENDS Integers

CONSTANTS
    Q96_ONE,           \* 2 ^ 48: one dollar in the fixed point of the readings
    Prices,            \* values getPrice may return
    Unreadable         \* the staticcall reverts or returns too little

ASSUME FixedPointAssumption ==
    /\ Q96_ONE \in Nat \ {0}
    /\ Prices \subseteq Nat
    /\ Unreadable \notin Nat
===============================================================================
