------------------------------ MODULE AgentVault ------------------------------
(***************************************************************************)
(* AgentVault.sol: the ERC-4626 vault behind one agent's NFT.              *)
(*                                                                         *)
(* Depositors own shares of the base asset the vault holds plus whatever   *)
(* value its margin engine reports; adapters move side tokens in and out;  *)
(* the NFT owner and the pauser administer it.  OpenZeppelin's ERC-4626    *)
(* (virtual share and asset, rounding in the vault's favour) is external.  *)
(* So are the two readings the vault takes by bounded staticcalls: the     *)
(* engine's net collateral and the oracle's prices, both in fixed point    *)
(* with unit Q96_ONE, either of which may fail to answer.                  *)
(***************************************************************************)
EXTENDS FixedPoint, FiniteSets, Functions

CONSTANTS
    Users,             \* depositors
    SideTokens,        \* side assets; the base asset is refused as one
    Adapters,          \* addresses that may be adapters
    PrimaryAdapter,    \* adapter, set for good by initialize
    MAX_SIDE_ASSETS,
    Readings,          \* values netCollateralUsdQ96 may return
    MaxBase,           \* bound: base asset in the vault
    MaxShares,         \* bound: total supply of shares
    MaxSide            \* bound: side tokens of one kind

ASSUME VaultAssumption ==
    /\ IsFiniteSet(Users)
    /\ PrimaryAdapter \in Adapters
    /\ MAX_SIDE_ASSETS \in Nat
    /\ Readings \subseteq Nat
    /\ {MaxBase, MaxShares, MaxSide} \subseteq Nat

VARIABLES
    base,          \* base asset held by the vault
    shares,        \* balanceOf
    sideAssets,    \* sideAssets and isSideAsset: a token stays in for good
    sideBalance,
    tokens,        \* side tokens the vault really holds
    isAdapter,     \* isAdapter, as a set
    paused,
    engineSet,     \* marginEngine is an address with code
    useBasketMarkToMarket,
    oracleSet,     \* priceOracle is an address with code
    reading,       \* what netCollateralUsdQ96(vault) answers
    price          \* what getPrice(token) answers

ledger == <<base, shares>>
side == <<sideAssets, sideBalance, tokens>>
settings == <<isAdapter, paused, engineSet, useBasketMarkToMarket, oracleSet>>
readings == <<reading, price>>
allVaultVars == <<ledger, side, settings, readings>>

VaultInit ==
    /\ base = 0
    /\ shares = [u \in Users |-> 0]
    /\ sideAssets = {}
    /\ sideBalance = [t \in SideTokens |-> 0]
    /\ tokens = [t \in SideTokens |-> 0]
    /\ isAdapter \in SUBSET (Adapters \ {PrimaryAdapter})
    /\ paused = FALSE
    /\ engineSet \in BOOLEAN
    /\ useBasketMarkToMarket = FALSE
    /\ oracleSet = FALSE
    /\ reading \in Readings \cup {Unreadable}
    /\ price \in [SideTokens -> Prices \cup {Unreadable}]

------------------------------------------------------------------------------
(* totalAssets *)

BasketReadable ==
    oracleSet /\ sideAssets # {} /\ \A t \in sideAssets : price[t] # Unreadable

\* compute_basket_value: each line is scaled down by the unit once.
BasketValue ==
    SumFunction([t \in sideAssets |-> (sideBalance[t] * price[t]) \div Q96_ONE])

\* The value beyond the base balance; 0 on every failure to read.
EngineValue ==
    IF ~engineSet THEN 0
    ELSE IF useBasketMarkToMarket
         THEN IF BasketReadable THEN BasketValue \div Q96_ONE ELSE 0
         ELSE IF reading # Unreadable THEN reading \div Q96_ONE ELSE 0

totalAssets == base + EngineValue
totalSupply == SumFunction(shares)

------------------------------------------------------------------------------
(* ERC-4626 *)

DivUp(x, y) == (x + y - 1) \div y

ToShares(assets) == (assets * (totalSupply + 1)) \div (totalAssets + 1)
ToSharesUp(assets) == DivUp(assets * (totalSupply + 1), totalAssets + 1)
ToAssets(sh) == (sh * (totalAssets + 1)) \div (totalSupply + 1)
ToAssetsUp(sh) == DivUp(sh * (totalAssets + 1), totalSupply + 1)

maxWithdraw(u) == ToAssets(shares[u])

Enter(u, assets, sh) ==
    /\ base + assets <= MaxBase /\ totalSupply + sh <= MaxShares
    /\ base' = base + assets
    /\ shares' = [shares EXCEPT ![u] = @ + sh]
    /\ UNCHANGED <<side, settings, readings>>

Leave(u, assets, sh) ==
    /\ sh <= shares[u]
    /\ assets <= base
    /\ base' = base - assets
    /\ shares' = [shares EXCEPT ![u] = @ - sh]
    /\ UNCHANGED <<side, settings, readings>>

Deposit(u, assets) == ~paused /\ Enter(u, assets, ToShares(assets))

\* Mutant: the price of the minted shares is rounded down.
MintCheap(u, sh) == ~paused /\ Enter(u, ToAssets(sh), sh)

Mint(u, sh) == ~paused /\ Enter(u, ToAssetsUp(sh), sh)

\* Mutant: withdraw is pausable like deposit.
WithdrawPausable(u, assets) ==
    /\ ~paused
    /\ assets <= maxWithdraw(u)
    /\ Leave(u, assets, ToSharesUp(assets))

Withdraw(u, assets) ==
    /\ assets <= maxWithdraw(u)
    /\ Leave(u, assets, ToSharesUp(assets))

Redeem(u, sh) == Leave(u, ToAssets(sh), sh)

------------------------------------------------------------------------------
(* Side balances *)

\* The primary adapter stays one whatever setAdapter says.
IsAdapter(sender) == sender = PrimaryAdapter \/ sender \in isAdapter

PushSideBalance(sender, t, amount) ==
    /\ IsAdapter(sender)
    /\ amount > 0
    /\ t \in sideAssets \/ Cardinality(sideAssets) < MAX_SIDE_ASSETS
    /\ tokens[t] + amount <= MaxSide
    /\ sideAssets' = sideAssets \cup {t}
    /\ sideBalance' = [sideBalance EXCEPT ![t] = @ + amount]
    /\ tokens' = [tokens EXCEPT ![t] = @ + amount]
    /\ UNCHANGED <<ledger, settings, readings>>

PullSideBalance(sender, t, amount) ==
    /\ IsAdapter(sender)
    /\ amount > 0
    /\ amount <= sideBalance[t]
    /\ tokens[t] >= amount
    /\ sideBalance' = [sideBalance EXCEPT ![t] = @ - amount]
    /\ tokens' = [tokens EXCEPT ![t] = @ - amount]
    /\ UNCHANGED <<ledger, sideAssets, settings, readings>>

------------------------------------------------------------------------------
(* The pauser and the NFT owner *)

\* By the pauser: the whole base balance goes to the recipient.
LiquidateBaseAsset ==
    /\ base' = 0
    /\ UNCHANGED <<shares, side, settings, readings>>

Pause ==
    /\ ~paused
    /\ paused' = TRUE
    /\ UNCHANGED <<ledger, side, isAdapter, engineSet, useBasketMarkToMarket,
                   oracleSet, readings>>

Unpause ==
    /\ paused
    /\ paused' = FALSE
    /\ UNCHANGED <<ledger, side, isAdapter, engineSet, useBasketMarkToMarket,
                   oracleSet, readings>>

SetAdapter(a, active) ==
    /\ isAdapter' = IF active THEN isAdapter \cup {a} ELSE isAdapter \ {a}
    /\ UNCHANGED <<ledger, side, paused, engineSet, useBasketMarkToMarket,
                   oracleSet, readings>>

SetMarginEngine(exists) ==
    /\ engineSet' = exists
    /\ UNCHANGED <<ledger, side, isAdapter, paused, useBasketMarkToMarket,
                   oracleSet, readings>>

SetUseBasketMarkToMarket(enabled) ==
    /\ useBasketMarkToMarket' = enabled
    /\ UNCHANGED <<ledger, side, isAdapter, paused, engineSet, oracleSet, readings>>

SetPriceOracle(exists) ==
    /\ oracleSet' = exists
    /\ UNCHANGED <<ledger, side, isAdapter, paused, engineSet,
                   useBasketMarkToMarket, readings>>

------------------------------------------------------------------------------
(* The rest of the chain *)

DonateBase ==
    /\ base < MaxBase
    /\ base' = base + 1
    /\ UNCHANGED <<shares, side, settings, readings>>

DonateSide(t) ==
    /\ tokens[t] < MaxSide
    /\ tokens' = [tokens EXCEPT ![t] = @ + 1]
    /\ UNCHANGED <<ledger, sideAssets, sideBalance, settings, readings>>

ReadingsMove ==
    /\ reading' \in Readings \cup {Unreadable}
    /\ price' \in [SideTokens -> Prices \cup {Unreadable}]
    /\ UNCHANGED <<ledger, side, settings>>

VaultNext ==
    \/ \E u \in Users, assets \in 1..MaxBase : Deposit(u, assets)
    \/ \E u \in Users, sh \in 1..MaxShares : Mint(u, sh)
    \/ \E u \in Users, assets \in 1..MaxBase : Withdraw(u, assets)
    \/ \E u \in Users, sh \in 1..MaxShares : Redeem(u, sh)
    \/ \E s \in Adapters, t \in SideTokens, amount \in 1..MaxSide :
           PushSideBalance(s, t, amount)
    \/ \E s \in Adapters, t \in SideTokens, amount \in 1..MaxSide :
           PullSideBalance(s, t, amount)
    \/ LiquidateBaseAsset
    \/ Pause
    \/ Unpause
    \/ \E a \in Adapters, active \in BOOLEAN : SetAdapter(a, active)
    \/ \E exists \in BOOLEAN : SetMarginEngine(exists)
    \/ \E enabled \in BOOLEAN : SetUseBasketMarkToMarket(enabled)
    \/ \E exists \in BOOLEAN : SetPriceOracle(exists)
    \/ DonateBase
    \/ \E t \in SideTokens : DonateSide(t)
    \/ ReadingsMove

VaultSpec == VaultInit /\ [][VaultNext]_allVaultVars

------------------------------------------------------------------------------

\* Every variable stays in its type: no balance goes below zero.
VaultTypeOK ==
    /\ base \in Nat
    /\ shares \in [Users -> Nat]
    /\ sideAssets \subseteq SideTokens
    /\ sideBalance \in [SideTokens -> Nat]
    /\ tokens \in [SideTokens -> Nat]
    /\ isAdapter \subseteq Adapters
    /\ paused \in BOOLEAN
    /\ engineSet \in BOOLEAN
    /\ useBasketMarkToMarket \in BOOLEAN
    /\ oracleSet \in BOOLEAN
    /\ reading \in Readings \cup {Unreadable}
    /\ price \in [SideTokens -> Prices \cup {Unreadable}]

\* Every variable is in its type, every side balance is backed by tokens and
\* belongs to a listed asset, and the list never outgrows what one basket call
\* can value.
SideIsBacked ==
    /\ VaultTypeOK
    /\ \A t \in SideTokens : sideBalance[t] <= tokens[t]
    /\ \A t \in SideTokens : sideBalance[t] > 0 => t \in sideAssets
    /\ Cardinality(sideAssets) <= MAX_SIDE_ASSETS

\* No deposit, mint, withdrawal or redemption lowers the value of the shares
\* that others hold: every rounding is in the vault's favour, under whatever
\* reading is in force at the time.
SharesKeepValue ==
    [][shares' # shares =>
         (totalAssets' + 1) * (totalSupply + 1)
           >= (totalAssets + 1) * (totalSupply' + 1)]_allVaultVars
===============================================================================
