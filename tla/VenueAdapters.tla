----------------------------- MODULE VenueAdapters -----------------------------
(****************************************************************************)
(* RobinhoodChainAdapter.sol and ArbitrumOneAdapter.sol: the adapters that  *)
(* take side tokens out of an agent's vault, use them at a venue, and put   *)
(* what comes back into the vault.  Anyone may call them; the vault answers *)
(* only to adapters it lists.                                               *)
(*                                                                          *)
(* The exchanges are V2Router and V3Dex; the lending pool is external, and  *)
(* knows one account, the adapter's, for all the vaults together.  openPerp *)
(* and closePerp revert at a vault, which refuses its base asset as a side  *)
(* token (AgentVault.sol:162, 186), and change nothing.                     *)
(****************************************************************************)
EXTENDS V2Router, V3Dex

CONSTANTS
    Agents,               \* tokenIds with a vault
    Swapper, Lender,      \* the two adapters
    MaxSides,             \* bound: side tokens of one kind in a vault
    MaxDebt               \* bound: what the lending pool lends, and pays as interest

ASSUME VenueAssumption == MaxSides \in Nat /\ MaxDebt \in Nat

VARIABLES
    sides,                \* sideBalance of each agent's vault
    adapters,             \* isAdapter of each agent's vault
    adapterHeld,          \* tokens each adapter holds
    supplied,             \* lending pool: what the adapter's account supplied
    debt                  \* lending pool: what the adapter's account owes

lendingVars == <<supplied, debt>>
venueVars == <<sides, adapters, adapterHeld, lendingVars>>

VenueInit ==
    /\ sides \in [Agents -> [Both -> {0, MaxSides}]]
    /\ adapters = [a \in Agents |-> {Swapper, Lender}]
    /\ adapterHeld = [x \in {Swapper, Lender} |-> None]
    /\ supplied = None /\ debt = None

\* setAdapter, by the owner of the vault
SetVenueAdapter(a, x, active) ==
    /\ adapters' = [adapters EXCEPT ![a] = IF active THEN @ \cup {x} ELSE @ \ {x}]
    /\ UNCHANGED <<sides, adapterHeld, lendingVars, v2Vars, v3Vars>>

\* A call of adapter x for agent a: it pulls tokens from the vault, pays the venue,
\* gets tokens from it, and pushes tokens back.  Amounts are per side.
Flow(x, a, pulled, paid, got, pushed) ==
    /\ x \in adapters[a]
    /\ \A s \in Both : pulled[s] <= sides[a][s] /\ sides[a][s] + pushed[s] <= MaxSides
    /\ sides' = [sides EXCEPT ![a] = Plus(Minus(@, pulled), pushed)]
    /\ adapterHeld' = [adapterHeld EXCEPT ![x] = Minus(Plus(Minus(Plus(@, pulled), paid), got), pushed)]
    /\ UNCHANGED adapters

Only(s, n) == [None EXCEPT ![s] = n]

-------------------------------------------------------------------------------
(* RobinhoodChainAdapter *)

\* swap by VENUE_V2, from side s
SwapV2(a, s, amountIn, minOut) ==
    LET out == V2AmountOut(s, amountIn)
    IN  /\ swapExactIn(s, amountIn, minOut)
        /\ out > 0                                    \* pushSideBalance refuses zero
        /\ Flow(Swapper, a, Only(s, amountIn), Only(s, amountIn), Only(1 - s, out), Only(1 - s, out))
        /\ UNCHANGED <<v3Vars, lendingVars>>

\* swap by VENUE_V3: the callback pays what the pool asks, if it is what was pulled
SwapV3(a, s, amountIn) ==
    LET out == V3AmountOut(s, amountIn)
    IN  /\ PoolSwap(s, amountIn)
        /\ Flow(Swapper, a, Only(s, amountIn), Only(s, amountIn), Only(1 - s, out), Only(1 - s, out))
        /\ UNCHANGED <<v2Vars, lendingVars>>

-------------------------------------------------------------------------------
(* ArbitrumOneAdapter *)

Supply(a, s, amount) ==
    /\ amount > 0
    /\ Flow(Lender, a, Only(s, amount), Only(s, amount), None, None)
    /\ supplied' = [supplied EXCEPT ![s] = @ + amount]
    /\ UNCHANGED <<debt, v2Vars, v3Vars>>

\* The pool pays what it is asked for, out of what the account supplied.
WithdrawSupply(a, s, amount) ==
    /\ amount > 0 /\ amount <= supplied[s]
    /\ Flow(Lender, a, None, None, Only(s, amount), Only(s, amount))
    /\ supplied' = [supplied EXCEPT ![s] = @ - amount]
    /\ UNCHANGED <<debt, v2Vars, v3Vars>>

Borrow(a, s, amount) ==
    /\ amount > 0 /\ debt[s] + amount <= MaxDebt
    /\ \E t \in Both : supplied[t] > 0                \* the pool wants collateral
    /\ Flow(Lender, a, None, None, Only(s, amount), Only(s, amount))
    /\ debt' = [debt EXCEPT ![s] = @ + amount]
    /\ UNCHANGED <<supplied, v2Vars, v3Vars>>

\* The pool takes no more than is owed, and refuses when nothing is; what it did
\* not take goes back to the vault.
Repay(a, s, amount) ==
    LET repaid == IF amount > debt[s] THEN debt[s] ELSE amount
    IN  /\ amount > 0 /\ debt[s] > 0
        /\ Flow(Lender, a, Only(s, amount), Only(s, repaid), None, Only(s, amount - repaid))
        /\ debt' = [debt EXCEPT ![s] = @ - repaid]
        /\ UNCHANGED <<supplied, v2Vars, v3Vars>>

\* Interest, on what is supplied and on what is owed.
Accrues(s) ==
    /\ \/ supplied[s] \in 1..(MaxDebt - 1) /\ supplied' = [supplied EXCEPT ![s] = @ + 1] /\ UNCHANGED debt
       \/ debt[s] \in 1..(MaxDebt - 1) /\ debt' = [debt EXCEPT ![s] = @ + 1] /\ UNCHANGED supplied
    /\ UNCHANGED <<sides, adapters, adapterHeld, v2Vars, v3Vars>>

-------------------------------------------------------------------------------

AdapterNext ==
    \E a \in Agents, s \in Both :
        \/ \E amountIn \in 1..sides[a][s] : SwapV3(a, s, amountIn)
        \/ \E amountIn \in 1..sides[a][s], minOut \in 0..1 : SwapV2(a, s, amountIn, minOut)
        \/ \E amount \in 1..sides[a][s] : Supply(a, s, amount) \/ Repay(a, s, amount)
        \/ \E amount \in 1..MaxDebt : WithdrawSupply(a, s, amount) \/ Borrow(a, s, amount)
        \/ Accrues(s)
        \/ \E x \in {Swapper, Lender}, active \in BOOLEAN : SetVenueAdapter(a, x, active)

VenueNext ==
    \/ AdapterNext
    \/ V2Next /\ UNCHANGED <<v3Vars, venueVars>>
    \/ V3Next /\ UNCHANGED <<v2Vars, venueVars>>

-------------------------------------------------------------------------------

\* No token stays with an adapter, which has no way to return it later: whatever a
\* vault gave for a call went to the venue, and whatever the venue paid, or did not
\* take, went back into the vault.
AdaptersKeepNothing == \A x \in {Swapper, Lender} : adapterHeld[x] = None
===============================================================================
