------------------------------- MODULE V2Router -------------------------------
(***************************************************************************)
(* dex/V2Router.sol: the constant-product exchange of one pair of tokens.  *)
(* A token is its side of the pair, 0 or 1.                                *)
(*                                                                         *)
(* A call moves its tokens in the same transaction or reverts, so the      *)
(* router's token balances are the reserves of its pairs.  The reserves'   *)
(* 128 bits hold any supply of the tokens in use and are left out.         *)
(***************************************************************************)
EXTENDS Integers, FiniteSets, FiniteSetsExt

CONSTANTS
    Providers,            \* accounts that add liquidity
    MINIMUM_LIQUIDITY,
    FEE_NUMERATOR, FEE_DENOMINATOR,
    MaxReserve            \* bound: tokens of one side in the pool

ASSUME V2Assumption ==
    /\ IsFiniteSet(Providers)
    /\ MINIMUM_LIQUIDITY \in Nat \ {0}
    /\ FEE_DENOMINATOR \in Nat \ {0} /\ FEE_NUMERATOR \in 1..FEE_DENOMINATOR
    /\ MaxReserve \in Nat

Sides == {0, 1}

VARIABLES
    poolCreated,
    v2Reserve,            \* reserve0 and reserve1
    totalLp,
    lpBalance             \* of the providers; address(0) keeps MINIMUM_LIQUIDITY

v2Vars == <<poolCreated, v2Reserve, totalLp, lpBalance>>

V2Init ==
    /\ poolCreated = FALSE
    /\ v2Reserve = [s \in Sides |-> 0]
    /\ totalLp = 0
    /\ lpBalance = [p \in Providers |-> 0]

Sqrt(n) == CHOOSE r \in 0..n : r * r <= n /\ n < (r + 1) * (r + 1)

createPool ==
    /\ ~poolCreated
    /\ poolCreated' = TRUE
    /\ UNCHANGED <<v2Reserve, totalLp, lpBalance>>

\* Both amounts are taken in full; the smaller share is credited.
LpFor(a0, a1) == Min({(a0 * totalLp) \div v2Reserve[0], (a1 * totalLp) \div v2Reserve[1]})

addLiquidity(p, a0, a1) ==
    LET root == Sqrt(a0 * a1)
        lp == IF totalLp = 0 THEN root - MINIMUM_LIQUIDITY ELSE LpFor(a0, a1)
    IN  /\ poolCreated /\ a0 > 0 /\ a1 > 0
        /\ lp > 0
        /\ totalLp' = IF totalLp = 0 THEN root ELSE totalLp + lp
        /\ lpBalance' = [lpBalance EXCEPT ![p] = @ + lp]
        /\ v2Reserve' = [s \in Sides |-> v2Reserve[s] + IF s = 0 THEN a0 ELSE a1]
        /\ v2Reserve'[0] <= MaxReserve /\ v2Reserve'[1] <= MaxReserve
        /\ UNCHANGED poolCreated

removeLiquidity(p, lp) ==
    LET out(s) == (lp * v2Reserve[s]) \div totalLp
    IN  /\ lp > 0 /\ lp <= lpBalance[p]
        /\ out(0) > 0 /\ out(1) > 0
        /\ totalLp' = totalLp - lp
        /\ lpBalance' = [lpBalance EXCEPT ![p] = @ - lp]
        /\ v2Reserve' = [s \in Sides |-> v2Reserve[s] - out(s)]
        /\ UNCHANGED poolCreated

\* _getAmountOut, from side s to the other
V2AmountOut(s, amountIn) ==
    (amountIn * FEE_NUMERATOR * v2Reserve[1 - s])
        \div (v2Reserve[s] * FEE_DENOMINATOR + amountIn * FEE_NUMERATOR)

swapExactIn(s, amountIn, minOut) ==
    /\ amountIn > 0
    /\ v2Reserve[0] > 0 /\ v2Reserve[1] > 0
    /\ V2AmountOut(s, amountIn) >= minOut
    /\ v2Reserve[s] + amountIn <= MaxReserve
    /\ v2Reserve' = [t \in Sides |-> IF t = s THEN v2Reserve[t] + amountIn
                                              ELSE v2Reserve[t] - V2AmountOut(s, amountIn)]
    /\ UNCHANGED <<poolCreated, totalLp, lpBalance>>

V2Next ==
    \/ createPool
    \/ \E p \in Providers :
        \/ \E a0, a1 \in 1..MaxReserve : addLiquidity(p, a0, a1)
        \/ \E lp \in 1..lpBalance[p] : removeLiquidity(p, lp)
    \/ \E s \in Sides, amountIn \in 1..MaxReserve : swapExactIn(s, amountIn, 0)

V2Spec == V2Init /\ [][V2Next]_v2Vars

-------------------------------------------------------------------------------

\* Every share of the pool belongs to a provider or is the part locked for good,
\* and a pool with shares can be priced: neither reserve is ever emptied.
LpSupplyIsHeld ==
    /\ totalLp = SumFunction(lpBalance) + IF totalLp = 0 THEN 0 ELSE MINIMUM_LIQUIDITY
    /\ totalLp > 0 => v2Reserve[0] > 0 /\ v2Reserve[1] > 0

\* A share of the pool never loses value to what others do: the product of the
\* reserves per squared share never falls, neither over a swap nor over the
\* rounding of somebody's entry or exit.
LpKeepsValue ==
    [][totalLp > 0 =>
         v2Reserve'[0] * v2Reserve'[1] * totalLp * totalLp
           >= v2Reserve[0] * v2Reserve[1] * totalLp' * totalLp']_v2Vars
===============================================================================
