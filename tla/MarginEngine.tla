----------------------------- MODULE MarginEngine -----------------------------
(***************************************************************************)
(* The Stylus margin engine: collateral and open notional per vault and    *)
(* asset, margin parameters per asset, and the readings derived from them. *)
(*                                                                         *)
(* Amounts and prices are fixed point with unit Q96_ONE.  A price the      *)
(* oracle refuses (stale or missing) makes the reading fail, which is the  *)
(* value Unreadable here.  The engine accepts any caller (only_vault is a  *)
(* stub), so the sender is no parameter; overflow of 256 bits is left out. *)
(***************************************************************************)
EXTENDS FixedPoint, FiniteSets, FiniteSetsExt

CONSTANTS
    Vaults,
    Assets,
    Margins,         \* the margin parameters, in basis points, the owner tries to set
    BPS,             \* 10_000
    MaxAmount        \* bound: collateral or notional of one asset

ASSUME EngineAssumption ==
    /\ BPS \in Nat \ {0}
    /\ Margins \subseteq Nat
    /\ MaxAmount \in Nat

VARIABLES
    collateral,      \* collateral_balance
    notional,        \* position_notional
    vaultAssets,     \* vault_assets and vault_assets_present, as a set
    marginBps,       \* margin_requirement_bps
    liqBps,          \* liquidation_threshold_bps
    quote            \* what getPrice(asset) answers

params == <<marginBps, liqBps>>
allEngineVars == <<collateral, notional, vaultAssets, params, quote>>

EngineInit ==
    /\ collateral = [v \in Vaults |-> [a \in Assets |-> 0]]
    /\ notional = [v \in Vaults |-> [a \in Assets |-> 0]]
    /\ vaultAssets = [v \in Vaults |-> {}]
    /\ marginBps = [a \in Assets |-> 0]
    /\ liqBps = [a \in Assets |-> 0]
    /\ quote \in [Assets -> Prices \cup {Unreadable}]

------------------------------------------------------------------------------

\* Mutant: the two parameters may be equal or swapped.
SetMarginParamsUnordered(a, initial, liq) ==
    /\ initial <= BPS /\ liq <= BPS
    /\ marginBps' = [marginBps EXCEPT ![a] = initial]
    /\ liqBps' = [liqBps EXCEPT ![a] = liq]
    /\ UNCHANGED <<collateral, notional, vaultAssets, quote>>

SetMarginParams(a, initial, liq) ==
    /\ initial <= BPS /\ liq <= BPS /\ liq < initial
    /\ marginBps' = [marginBps EXCEPT ![a] = initial]
    /\ liqBps' = [liqBps EXCEPT ![a] = liq]
    /\ UNCHANGED <<collateral, notional, vaultAssets, quote>>

Listed(v, a) == vaultAssets' = [vaultAssets EXCEPT ![v] = @ \cup {a}]

\* Mutant: an asset is not entered in the vault's list.
PushUnlisted(v, a, amount) ==
    /\ collateral[v][a] + amount <= MaxAmount
    /\ collateral' = [collateral EXCEPT ![v][a] = @ + amount]
    /\ UNCHANGED <<notional, vaultAssets, params, quote>>

PushCollateral(v, a, amount) ==
    /\ collateral[v][a] + amount <= MaxAmount
    /\ collateral' = [collateral EXCEPT ![v][a] = @ + amount]
    /\ Listed(v, a)
    /\ UNCHANGED <<notional, params, quote>>

PullCollateral(v, a, amount) ==
    /\ amount <= collateral[v][a]
    /\ collateral' = [collateral EXCEPT ![v][a] = @ - amount]
    /\ UNCHANGED <<notional, vaultAssets, params, quote>>

SetPositionNotional(v, a, amount) ==
    /\ notional' = [notional EXCEPT ![v][a] = amount]
    /\ Listed(v, a)
    /\ UNCHANGED <<collateral, params, quote>>

QuotesMove ==
    /\ quote' \in [Assets -> Prices \cup {Unreadable}]
    /\ UNCHANGED <<collateral, notional, vaultAssets, params>>

EngineNext ==
    \/ \E a \in Assets, initial, liq \in Margins : SetMarginParams(a, initial, liq)
    \/ \E v \in Vaults, a \in Assets, amount \in 0..MaxAmount : PushCollateral(v, a, amount)
    \/ \E v \in Vaults, a \in Assets, amount \in 0..MaxAmount : PullCollateral(v, a, amount)
    \/ \E v \in Vaults, a \in Assets, amount \in 0..MaxAmount :
           SetPositionNotional(v, a, amount)
    \/ QuotesMove

EngineSpec == EngineInit /\ [][EngineNext]_allEngineVars

------------------------------------------------------------------------------
(* Readings *)

Held(v) == {a \in vaultAssets[v] : collateral[v][a] # 0}
Open(v) == {a \in vaultAssets[v] : notional[v][a] # 0}

\* Only the assets that are held are priced; one refused price fails it all.
netCollateralUsd(v) ==
    IF \E a \in Held(v) : quote[a] = Unreadable THEN Unreadable
    ELSE SumFunction([a \in Held(v) |-> (collateral[v][a] * quote[a]) \div Q96_ONE])

marginUsedUsd(v) ==
    SumFunction([a \in Open(v) |-> (notional[v][a] * marginBps[a]) \div BPS])

\* Over several assets the highest threshold counts for the whole notional.
liquidationCheck(v) ==
    LET total == SumFunction([a \in Open(v) |-> notional[v][a]])
        bps == Max({0} \cup {liqBps[a] : a \in Open(v)})
    IN  IF netCollateralUsd(v) = Unreadable THEN Unreadable
        ELSE total # 0 /\ netCollateralUsd(v) < (total * bps) \div BPS

\* The cross-domain free margin: the larger of the two requirements is taken
\* from the sum of the two collaterals, and 0 is the least it can be.
crossDomainNetUsd(v, offNotional, offCollateral) ==
    LET maxBps == Max({0} \cup {marginBps[a] : a \in vaultAssets[v]})
        needed == Max({marginUsedUsd(v), (offNotional * maxBps) \div BPS})
        have == netCollateralUsd(v) + offCollateral
    IN  IF have > needed THEN have - needed ELSE 0

------------------------------------------------------------------------------

\* Every variable stays in its type: no collateral goes below zero.
EngineTypeOK ==
    /\ collateral \in [Vaults -> [Assets -> Nat]]
    /\ notional \in [Vaults -> [Assets -> Nat]]
    /\ vaultAssets \in [Vaults -> SUBSET Assets]
    /\ marginBps \in [Assets -> 0..BPS]
    /\ liqBps \in [Assets -> 0..BPS]
    /\ quote \in [Assets -> Prices \cup {Unreadable}]

\* Every variable is in its type, and nothing a vault owns or owes is left out
\* of the sums, which run over its list of assets and not over the mappings.
NothingOffTheList ==
    /\ EngineTypeOK
    /\ \A v \in Vaults, a \in Assets :
           collateral[v][a] # 0 \/ notional[v][a] # 0 => a \in vaultAssets[v]

\* Margin protects a vault.  One whose positions are all in one asset is never
\* liquidatable while it meets its initial margin, whatever order the owner moves the
\* parameters in; and off-chain positions cost margin at most once: with no more of
\* them than margin is already held for, all the off-chain collateral is free margin.
MarginProtects ==
    \A v \in Vaults :
        /\ netCollateralUsd(v) # Unreadable
        /\ netCollateralUsd(v) >= marginUsedUsd(v)
        => /\ Cardinality(Open(v)) = 1 => liquidationCheck(v) = FALSE
           /\ \A off \in 0..MaxAmount, cash \in {0, MaxAmount} :
                 (\A a \in vaultAssets[v] : (off * marginBps[a]) \div BPS <= marginUsedUsd(v))
                   => crossDomainNetUsd(v, off, cash) = crossDomainNetUsd(v, 0, 0) + cash
===============================================================================
