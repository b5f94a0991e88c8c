--------------------------- MODULE VaultLiquidation ---------------------------
(***************************************************************************)
(* The liquidation of one agent's vault: a keeper calls                    *)
(* LiquidationExecutor, which reads the margin engine, seizes the vault's  *)
(* base balance through EmergencyShutdown, pays the keeper and forwards    *)
(* the rest to FeeCollector, all in one transaction.                       *)
(*                                                                         *)
(* The module composes AgentVault, MarginEngine, EmergencyShutdown and     *)
(* FeeCollector: it takes from each the actions that bear on a             *)
(* liquidation (the others are exercised in the modules' own runs) and the *)
(* vault's reading is what the engine says.  The vault holds no side       *)
(* assets here and reads its engine the default, stateful way.             *)
(***************************************************************************)
EXTENDS Integers, FiniteSets, Sequences

CONSTANTS
    Vault,                 \* the vault that the agent's tokenId resolves to
    Users, MaxBase, MaxShares,
    Assets, Margins, BPS, Q96_ONE, Prices, Unreadable, MaxAmount,
    Executor,              \* the LiquidationExecutor
    Operator,              \* an account the owner may also make liquidator
    Owner, NoAccount,
    Stream, Recipient, MaxHeld,
    BOUNTY_BPS, BPS_DENOMINATOR

ASSUME LiquidationAssumption ==
    /\ IsFiniteSet(Users)
    /\ {MaxBase, MaxAmount, MaxHeld} \subseteq Nat
    /\ BPS \in Nat \ {0} /\ Margins \subseteq Nat
    /\ Q96_ONE \in Nat \ {0} /\ Prices \subseteq Nat /\ Unreadable \notin Nat
    /\ BPS_DENOMINATOR \in Nat \ {0} /\ BOUNTY_BPS \in 0..BPS_DENOMINATOR

VARIABLES
    base, shares, engineSet,                                      \* AgentVault
    collateral, notional, vaultAssets, marginBps, liqBps, quote,  \* MarginEngine
    now, components, index1, registered, registrars, globalShutdown,
    pendingResumeAt, liquidator, paused, isPauser, nftExists,
    shutdownAt, proposedAt,                                       \* EmergencyShutdown
    streamIds, streamIndex, stream, totalAccrued, held,           \* FeeCollector
    bounty                 \* USDC paid to keepers so far

M == INSTANCE MarginEngine WITH Vaults <- {Vault}

V == INSTANCE AgentVault WITH
        SideTokens <- {}, Adapters <- {Executor}, PrimaryAdapter <- Executor,
        MAX_SIDE_ASSETS <- 0, MaxSide <- 0, Readings <- {},
        sideAssets <- {}, sideBalance <- <<>>, tokens <- <<>>, isAdapter <- {},
        useBasketMarkToMarket <- ~TRUE, oracleSet <- ~TRUE, price <- <<>>,
        paused <- paused[Vault], reading <- M!netCollateralUsd(Vault)

S == INSTANCE EmergencyShutdown WITH
        Components <- {Vault}, Accounts <- {Executor, Operator},
        TIMELOCK <- 1, MAX_BATCH <- 1, MaxTime <- 1

Whole == <<[id |-> Stream, recipient |-> Recipient, sharePpm |-> 1]>>
F == INSTANCE FeeCollector WITH
        StreamIds <- {Stream}, STREAM_PAYMASTER_RESERVE <- Stream,
        Recipients <- {Recipient}, Batches <- {Whole}, PPM_DENOMINATOR <- 1

vaultVars == <<base, shares, engineSet>>
engineVars == <<collateral, notional, vaultAssets, marginBps, liqBps, quote>>
shutdownVars == <<now, components, index1, registered, registrars, globalShutdown,
                  pendingResumeAt, liquidator, paused, isPauser, nftExists,
                  shutdownAt, proposedAt>>
feeVars == <<streamIds, streamIndex, stream, totalAccrued, held>>
vars == <<vaultVars, engineVars, shutdownVars, feeVars, bounty>>

Init ==
    /\ base = 0
    /\ shares = [u \in Users |-> 0]
    /\ engineSet \in BOOLEAN
    /\ M!EngineInit
    /\ S!Init
    /\ F!FeeInit
    /\ bounty = 0

------------------------------------------------------------------------------
(* LiquidationExecutor *)

\* _checkUnhealthy: the engine answers, and answers exactly zero.
EngineReadable == engineSet /\ M!netCollateralUsd(Vault) # Unreadable
Unhealthy == EngineReadable /\ M!netCollateralUsd(Vault) = 0

\* vaultOf is deleted when the NFT is burned.
isLiquidatable == nftExists[Vault] /\ Unhealthy

Bounty(seized) == (seized * BOUNTY_BPS) \div BPS_DENOMINATOR

Residual(seized) == seized - Bounty(seized)

Liquidate ==
    /\ isLiquidatable
    /\ S!LiquidateAllowed(Executor, Vault)
    /\ base > 0
    /\ IF Residual(base) # 0 THEN F!CollectFee(Residual(base)) ELSE UNCHANGED feeVars
    /\ bounty' = bounty + Bounty(base)
    /\ base' = 0
    /\ UNCHANGED <<shares, engineSet, engineVars, shutdownVars>>

\* EmergencyShutdown.liquidate called by an account that holds the role itself;
\* an empty vault is swept all the same.
OperatorLiquidate ==
    /\ S!LiquidateAllowed(Operator, Vault)
    /\ base' = 0
    /\ UNCHANGED <<shares, engineSet, engineVars, shutdownVars, feeVars, bounty>>

------------------------------------------------------------------------------
(* The parts around it *)

Deposit(u, assets) ==
    /\ UNCHANGED <<engineVars, shutdownVars, feeVars, bounty>>
    /\ V!Deposit(u, assets)

Withdraw(u, assets) ==
    /\ UNCHANGED <<engineVars, shutdownVars, feeVars, bounty>>
    /\ V!Withdraw(u, assets)

VaultStep ==
    \/ \E u \in Users, assets \in 1..MaxBase : Deposit(u, assets)
    \/ \E u \in Users, assets \in 1..MaxBase : Withdraw(u, assets)
    \/ /\ UNCHANGED <<engineVars, shutdownVars, feeVars, bounty>>
       /\ \E exists \in BOOLEAN : V!SetMarginEngine(exists)

EngineStep == M!EngineNext /\ UNCHANGED <<vaultVars, shutdownVars, feeVars, bounty>>

CoordinatorStep ==
    /\ \/ S!RegisterComponent(Owner, Vault)
       \/ S!UnregisterComponent(Vault)
       \/ S!FullShutdown
       \/ \E a \in {Executor, Operator}, active \in BOOLEAN : S!SetLiquidator(a, active)
       \/ S!VaultUnpause(Vault)
       \/ S!VaultSetPauser(Vault)
       \/ S!BurnNFT(Vault)
    /\ UNCHANGED <<vaultVars, engineVars, feeVars, bounty>>

FeeStep ==
    /\ \/ F!ConfigureStreams(Whole)
       \/ F!RemoveStream(Stream)
       \/ F!WithdrawStream(Stream)
    /\ UNCHANGED <<vaultVars, engineVars, shutdownVars, bounty>>

Next ==
    \/ Liquidate
    \/ OperatorLiquidate
    \/ VaultStep
    \/ EngineStep
    \/ CoordinatorStep
    \/ FeeStep

Spec == Init /\ [][Next]_vars

------------------------------------------------------------------------------

\* The Tilt invariant: neither a shutdown nor a liquidation closes the exit.
\* What a depositor may withdraw and the vault holds can be withdrawn.
ExitSurvives ==
    \A u \in Users :
        LET m == V!maxWithdraw(u) IN m > 0 /\ m <= base => ENABLED Withdraw(u, m)

\* Collateral protects a vault: the executor seizes it only when every asset
\* posted for it is priced, and worth less than a unit.
CollateralProtects ==
    [][bounty' + held' > bounty + held =>
         \A a \in Assets : collateral[Vault][a] > 0 =>
             /\ quote[a] # Unreadable
             /\ collateral[Vault][a] * quote[a] < Q96_ONE]_vars

\* README: a vault is liquidated when the engine's liquidation_check says that
\* collateral fell below the threshold.
SeizedBelowThreshold ==
    [][bounty' + held' > bounty + held => M!liquidationCheck(Vault) = TRUE]_vars
===============================================================================
