----------------------------- MODULE CustodyProofs -----------------------------
(***************************************************************************)
(* Proofs about the contracts that keep money or count it: the ERC-4626    *)
(* vault, the fee collector, the margin engine, and, with what             *)
(* ExchangeProofs shows of the exchanges, all of them together; for any    *)
(* number of depositors, streams, assets and vaults, and any amounts.      *)
(***************************************************************************)
EXTENDS MCCustody, ExchangeProofs

-------------------------------------------------------------------------------
(* AgentVault *)

VaultInv == SideIsBacked /\ IsFiniteSet(sideAssets)

\* What SharesKeepValue says of one step
WorthKept ==
    shares' # shares =>
        (totalAssets' + 1) * (totalSupply + 1) >= (totalAssets + 1) * (totalSupply' + 1)

LEMMA VaultInitInv == VaultInit => VaultInv
<1> SUFFICES ASSUME VaultInit PROVE VaultInv
    OBVIOUS
<1>1. VaultTypeOK
    BY VaultAssumption DEF VaultInit, VaultTypeOK
<1>2. IsFiniteSet(sideAssets) /\ Cardinality(sideAssets) = 0
    BY FS_EmptySet DEF VaultInit
<1> QED BY <1>1, <1>2, VaultAssumption DEF VaultInit, VaultInv, SideIsBacked

\* The values a share is priced by are naturals.
LEMMA VaultWorth ==
    ASSUME VaultInv
    PROVE  /\ EngineValue \in Nat
           /\ totalAssets \in Nat /\ totalAssets = base + EngineValue
           /\ totalSupply \in Nat
<1> USE VaultAssumption, FixedPointAssumption DEF VaultInv, SideIsBacked, VaultTypeOK
<1>1. totalSupply \in Nat
    BY SumUpdate DEF totalSupply
<1>2. ASSUME BasketReadable
      PROVE  BasketValue \in Nat
    <2> DEFINE f == [t \in sideAssets |-> (sideBalance[t] * price[t]) \div Q96_ONE]
    <2>1. ASSUME NEW t \in sideAssets
          PROVE  (sideBalance[t] * price[t]) \div Q96_ONE \in Nat
        <3>1. sideBalance[t] \in Nat /\ price[t] \in Nat
            BY <1>2 DEF BasketReadable
        <3>2. sideBalance[t] * price[t] \in Nat
            BY <3>1, ProductIsNat
        <3> QED BY <3>2, Quotient
    <2>2. f \in [sideAssets -> Nat]
        BY <2>1
    <2> HIDE DEF f
    <2>3. SumFunction(f) \in Nat
        BY <2>2, SumUpdate
    <2> QED BY <2>3 DEF f, BasketValue
<1>3. EngineValue \in Nat
    BY <1>2, Quotient DEF EngineValue
<1> QED BY <1>1, <1>3 DEF totalAssets

\* A division rounds up, by less than the divisor.
LEMMA QuotientUp ==
    ASSUME NEW n \in Nat, NEW d \in Nat \ {0}
    PROVE  DivUp(n, d) \in Nat /\ n <= DivUp(n, d) * d
<1>1. n + d - 1 \in Nat
    OBVIOUS
<1>2. /\ (n + d - 1) \div d \in Nat
      /\ n + d - 1 < ((n + d - 1) \div d) * d + d
    BY <1>1, Quotient
<1> DEFINE q == (n + d - 1) \div d
<1>3. q * d \in Nat
    BY <1>2, ProductIsNat
<1> QED BY <1>2, <1>3 DEF DivUp

\* Shares bought at no less than what they are worth
LEMMA EnterKeepsVault ==
    ASSUME VaultInv, NEW u \in Users, NEW assets \in Nat, NEW sh \in Nat,
           sh * (totalAssets + 1) <= assets * (totalSupply + 1),
           Enter(u, assets, sh)
    PROVE  VaultInv' /\ WorthKept
<1> USE DEF VaultInv, SideIsBacked, VaultTypeOK
<1>1. /\ base' = base + assets
      /\ shares' = [shares EXCEPT ![u] = shares[u] + sh]
      /\ UNCHANGED <<side, settings, readings>>
    BY DEF Enter
<1>2. VaultInv'
    BY <1>1 DEF side, settings, readings
<1>3. EngineValue' = EngineValue
    BY <1>1 DEF side, settings, readings, EngineValue, BasketReadable, BasketValue
<1>4. totalSupply' = totalSupply + sh
    <2>1. /\ shares \in [Users -> Nat] /\ shares' \in [Users -> Nat]
          /\ shares'[u] = shares[u] + sh
          /\ \A v \in Users \ {u} : shares'[v] = shares[v]
          /\ IsFiniteSet(Users)
        BY <1>1, <1>2, VaultAssumption
    <2>2. totalSupply' = totalSupply - shares[u] + shares'[u]
        BY ONLY u \in Users, <2>1, SumChange DEF totalSupply
    <2> QED BY <2>1, <2>2, VaultWorth
<1>5. totalAssets' = totalAssets + assets
    BY <1>1, <1>3, VaultWorth DEF totalAssets
<1>6. (totalAssets' + 1) * (totalSupply + 1) >= (totalAssets + 1) * (totalSupply' + 1)
    <2> DEFINE ta == totalAssets + 1
               ts == totalSupply + 1
    <2>1. ta \in Nat /\ ts \in Nat /\ ta = totalAssets + 1 /\ ts = totalSupply + 1
        BY VaultWorth
    <2>2. totalAssets' + 1 = ta + assets /\ totalSupply' + 1 = ts + sh
        BY <1>4, <1>5, VaultWorth
    <2> HIDE DEF ta, ts
    <2>3. (ta + assets) * ts = ta * ts + assets * ts /\ ta * (ts + sh) = ta * ts + sh * ta
        BY <2>1
    <2>4. ta * ts \in Nat /\ assets * ts \in Nat /\ sh * ta \in Nat
        BY <2>1, ProductIsNat
    <2>5. sh * ta <= assets * ts
        BY <2>1
    <2>6. (ta + assets) * ts >= ta * (ts + sh)
        BY <2>3, <2>4, <2>5
    <2> QED BY <2>1, <2>2, <2>6
<1> QED BY <1>2, <1>6 DEF WorthKept

\* Shares sold at no more than what they are worth
LEMMA LeaveKeepsVault ==
    ASSUME VaultInv, NEW u \in Users, NEW assets \in Nat, NEW sh \in Nat,
           assets * (totalSupply + 1) <= sh * (totalAssets + 1),
           Leave(u, assets, sh)
    PROVE  VaultInv' /\ WorthKept
<1> USE DEF VaultInv, SideIsBacked, VaultTypeOK
<1>1. /\ base' = base - assets /\ assets <= base /\ sh <= shares[u]
      /\ shares' = [shares EXCEPT ![u] = shares[u] - sh]
      /\ UNCHANGED <<side, settings, readings>>
    BY DEF Leave
<1>2. base' \in Nat /\ shares[u] - sh \in Nat
    BY <1>1
<1>3. VaultInv'
    BY <1>1, <1>2 DEF side, settings, readings
<1>4. EngineValue' = EngineValue
    BY <1>1 DEF side, settings, readings, EngineValue, BasketReadable, BasketValue
<1>5. totalSupply' = totalSupply - sh /\ sh <= totalSupply
    <2>1. /\ shares \in [Users -> Nat] /\ shares' \in [Users -> Nat]
          /\ shares'[u] = shares[u] - sh
          /\ \A v \in Users \ {u} : shares'[v] = shares[v]
          /\ IsFiniteSet(Users)
        BY <1>1, <1>3, VaultAssumption
    <2>2. totalSupply' = totalSupply - shares[u] + shares'[u] /\ shares[u] <= totalSupply
        BY ONLY u \in Users, <2>1, SumChange DEF totalSupply
    <2> QED BY <1>1, <2>1, <2>2, VaultWorth
<1>6. totalAssets' = totalAssets - assets /\ assets <= totalAssets
    BY <1>1, <1>2, <1>4, VaultWorth DEF totalAssets
<1>7. (totalAssets' + 1) * (totalSupply + 1) >= (totalAssets + 1) * (totalSupply' + 1)
    <2> DEFINE ta == totalAssets + 1
               ts == totalSupply + 1
    <2>1. ta \in Nat /\ ts \in Nat /\ ta = totalAssets + 1 /\ ts = totalSupply + 1
        BY VaultWorth
    <2>2. totalAssets' + 1 = ta - assets /\ totalSupply' + 1 = ts - sh
        BY <1>5, <1>6, VaultWorth
    <2> HIDE DEF ta, ts
    <2>3. (ta - assets) * ts = ta * ts - assets * ts /\ ta * (ts - sh) = ta * ts - sh * ta
        BY <2>1
    <2>4. ta * ts \in Nat /\ assets * ts \in Nat /\ sh * ta \in Nat
        BY <2>1, ProductIsNat
    <2>5. assets * ts <= sh * ta
        BY <2>1
    <2>6. (ta - assets) * ts >= ta * (ts - sh)
        BY <2>3, <2>4, <2>5
    <2> QED BY <2>1, <2>2, <2>6
<1> QED BY <1>3, <1>7 DEF WorthKept

LEMMA TradesKeepVault ==
    ASSUME VaultInv, NEW u \in Users, NEW n \in Nat,
           Deposit(u, n) \/ Mint(u, n) \/ Withdraw(u, n) \/ Redeem(u, n)
    PROVE  VaultInv' /\ WorthKept
<1> DEFINE ta == totalAssets + 1
           ts == totalSupply + 1
<1>1. ta \in Nat \ {0} /\ ts \in Nat \ {0}
    BY VaultWorth
<1>2. n * ta \in Nat /\ n * ts \in Nat
    BY <1>1, ProductIsNat
<1>3. CASE Deposit(u, n)
    <2>1. ToShares(n) \in Nat /\ ToShares(n) * ta <= n * ts
        BY <1>1, <1>2, Quotient DEF ToShares
    <2> QED BY <1>3, <2>1, EnterKeepsVault DEF Deposit
<1>4. CASE Mint(u, n)
    <2>1. ToAssetsUp(n) \in Nat /\ n * ta <= ToAssetsUp(n) * ts
        BY <1>1, <1>2, QuotientUp DEF ToAssetsUp
    <2> QED BY <1>4, <2>1, EnterKeepsVault DEF Mint
<1>5. CASE Withdraw(u, n)
    <2>1. ToSharesUp(n) \in Nat /\ n * ts <= ToSharesUp(n) * ta
        BY <1>1, <1>2, QuotientUp DEF ToSharesUp
    <2> QED BY <1>5, <2>1, LeaveKeepsVault DEF Withdraw
<1>6. CASE Redeem(u, n)
    <2>1. ToAssets(n) \in Nat /\ ToAssets(n) * ts <= n * ta
        BY <1>1, <1>2, Quotient DEF ToAssets
    <2> QED BY <1>6, <2>1, LeaveKeepsVault DEF Redeem
<1> QED BY <1>3, <1>4, <1>5, <1>6

LEMMA SidesKeepVault ==
    ASSUME VaultInv, NEW sender \in Adapters, NEW t \in SideTokens, NEW amount \in Nat,
           \/ PushSideBalance(sender, t, amount) \/ PullSideBalance(sender, t, amount)
           \/ DonateSide(t)
    PROVE  VaultInv' /\ shares' = shares
<1> USE DEF VaultInv, SideIsBacked, VaultTypeOK, ledger, settings, readings
<1>1. CASE PushSideBalance(sender, t, amount)
    <2>1. /\ sideAssets' = sideAssets \cup {t}
          /\ sideBalance' = [sideBalance EXCEPT ![t] = sideBalance[t] + amount]
          /\ tokens' = [tokens EXCEPT ![t] = tokens[t] + amount]
          /\ t \in sideAssets \/ Cardinality(sideAssets) < MAX_SIDE_ASSETS
          /\ UNCHANGED <<ledger, settings, readings>>
        BY <1>1 DEF PushSideBalance
    <2>2. IsFiniteSet(sideAssets') /\ Cardinality(sideAssets') <= MAX_SIDE_ASSETS
        <3>1. CASE t \in sideAssets
            <4>1. sideAssets' = sideAssets
                BY <2>1, <3>1
            <4> QED BY <4>1
        <3>2. CASE t \notin sideAssets
            <4>1. IsFiniteSet(sideAssets') /\ Cardinality(sideAssets') = Cardinality(sideAssets) + 1
                BY <2>1, <3>2, FS_AddElement
            <4> QED BY <2>1, <3>2, <4>1, FS_CardinalityType, VaultAssumption
        <3> QED BY <3>1, <3>2
    <2> QED BY <2>1, <2>2
<1>2. CASE PullSideBalance(sender, t, amount)
    <2>1. /\ amount <= sideBalance[t] /\ amount <= tokens[t]
          /\ sideBalance' = [sideBalance EXCEPT ![t] = sideBalance[t] - amount]
          /\ tokens' = [tokens EXCEPT ![t] = tokens[t] - amount]
          /\ UNCHANGED <<ledger, sideAssets, settings, readings>>
        BY <1>2 DEF PullSideBalance
    <2>2. sideBalance[t] - amount \in Nat /\ tokens[t] - amount \in Nat
        BY <2>1
    <2> QED BY <2>1, <2>2
<1>3. CASE DonateSide(t)
    BY <1>3 DEF DonateSide
<1> QED BY <1>1, <1>2, <1>3

LEMMA VaultNextInv ==
    ASSUME VaultInv, [VaultNext]_allVaultVars
    PROVE  VaultInv' /\ WorthKept
<1> USE DEF ledger, side, settings, readings
<1>1. 1..MaxBase \subseteq Nat /\ 1..MaxShares \subseteq Nat /\ 1..MaxSide \subseteq Nat
    BY VaultAssumption
<1>2. ASSUME NEW u \in Users, NEW n \in Nat,
             Deposit(u, n) \/ Mint(u, n) \/ Withdraw(u, n) \/ Redeem(u, n)
      PROVE  VaultInv' /\ WorthKept
    BY <1>2, TradesKeepVault
<1>3. ASSUME NEW sender \in Adapters, NEW t \in SideTokens, NEW n \in Nat,
             PushSideBalance(sender, t, n) \/ PullSideBalance(sender, t, n)
      PROVE  VaultInv' /\ WorthKept
    BY <1>3, SidesKeepVault DEF WorthKept
<1>4. ASSUME NEW t \in SideTokens, DonateSide(t)
      PROVE  VaultInv' /\ WorthKept
    BY <1>4, SidesKeepVault, VaultAssumption DEF WorthKept
<1>5. CASE LiquidateBaseAsset \/ DonateBase
    BY <1>5 DEF LiquidateBaseAsset, DonateBase, WorthKept, VaultInv, SideIsBacked, VaultTypeOK
<1>6. CASE Pause \/ Unpause \/ UNCHANGED allVaultVars
    BY <1>6 DEF Pause, Unpause, allVaultVars, WorthKept, VaultInv, SideIsBacked, VaultTypeOK
<1>7. ASSUME NEW a \in Adapters, NEW on \in BOOLEAN, SetAdapter(a, on)
      PROVE  VaultInv' /\ WorthKept
    BY <1>7 DEF SetAdapter, WorthKept, VaultInv, SideIsBacked, VaultTypeOK
<1>8. ASSUME NEW on \in BOOLEAN,
             SetMarginEngine(on) \/ SetUseBasketMarkToMarket(on) \/ SetPriceOracle(on)
      PROVE  VaultInv' /\ WorthKept
    BY <1>8 DEF SetMarginEngine, SetUseBasketMarkToMarket, SetPriceOracle,
                WorthKept, VaultInv, SideIsBacked, VaultTypeOK
<1>9. CASE ReadingsMove
    BY <1>9 DEF ReadingsMove, WorthKept, VaultInv, SideIsBacked, VaultTypeOK
<1> QED BY <1>1, <1>2, <1>3, <1>4, <1>5, <1>6, <1>7, <1>8, <1>9 DEF VaultNext

\* Every side balance is backed by tokens and listed, and the list stays within its
\* bound (pushSideBalance, pullSideBalance), for any tokens, amounts and adapters.
THEOREM SidesBacked == VaultSpec => []SideIsBacked
<1>1. VaultInv /\ [VaultNext]_allVaultVars => VaultInv'
    BY VaultNextInv
<1>2. VaultInv => SideIsBacked
    BY DEF VaultInv
<1> QED BY VaultInitInv, <1>1, <1>2, PTL DEF VaultSpec

\* No deposit, mint, withdrawal or redemption lowers what the other shares are worth,
\* for any amounts and whatever the engine and the oracle answer.
THEOREM VaultValueKept == VaultSpec => SharesKeepValue
<1>1. VaultInv /\ [VaultNext]_allVaultVars => VaultInv'
    BY VaultNextInv
<1>2. VaultInv /\ [VaultNext]_allVaultVars =>
        [shares' # shares =>
           (totalAssets' + 1) * (totalSupply + 1)
             >= (totalAssets + 1) * (totalSupply' + 1)]_allVaultVars
    BY VaultNextInv DEF WorthKept
<1> QED BY VaultInitInv, <1>1, <1>2, PTL DEF VaultSpec, SharesKeepValue

-------------------------------------------------------------------------------
(* MarginEngine *)

\* A liquidation threshold never exceeds the margin, set or not.
ThresholdsBelow == \A a \in Assets : liqBps[a] <= marginBps[a]

EngineInv ==
    /\ NothingOffTheList
    /\ ThresholdsBelow
    /\ \A v \in Vaults : IsFiniteSet(vaultAssets[v])

LEMMA EngineInitInv == EngineInit => EngineInv
<1> SUFFICES ASSUME EngineInit PROVE EngineInv
    OBVIOUS
<1>1. EngineTypeOK
    BY EngineAssumption DEF EngineInit, EngineTypeOK
<1> QED BY <1>1, FS_EmptySet
        DEF EngineInit, EngineInv, NothingOffTheList, ThresholdsBelow

\* An amount of one vault and asset changes.
LEMMA OneAmountMoves ==
    ASSUME NEW f \in [Vaults -> [Assets -> Nat]], NEW g, NEW v \in Vaults, NEW a \in Assets,
           NEW n \in Nat, g = [f EXCEPT ![v][a] = n]
    PROVE  /\ g \in [Vaults -> [Assets -> Nat]]
           /\ \A w \in Vaults, b \in Assets : g[w][b] = IF w = v /\ b = a THEN n ELSE f[w][b]
<1>1. [f[v] EXCEPT ![a] = n] \in [Assets -> Nat]
    OBVIOUS
<1>2. g = [f EXCEPT ![v] = [f[v] EXCEPT ![a] = n]]
    OBVIOUS
<1> QED BY <1>1, <1>2

LEMMA AmountsKeepEngine ==
    ASSUME EngineInv, NEW v \in Vaults, NEW a \in Assets, NEW n \in Nat,
           PushCollateral(v, a, n) \/ PullCollateral(v, a, n) \/ SetPositionNotional(v, a, n)
    PROVE  EngineInv'
<1>1. /\ collateral \in [Vaults -> [Assets -> Nat]] /\ notional \in [Vaults -> [Assets -> Nat]]
      /\ vaultAssets \in [Vaults -> SUBSET Assets]
      /\ collateral[v][a] \in Nat
      /\ \A w \in Vaults : IsFiniteSet(vaultAssets[w])
      /\ \A w \in Vaults, b \in Assets :
            collateral[w][b] # 0 \/ notional[w][b] # 0 => b \in vaultAssets[w]
    BY DEF EngineInv, NothingOffTheList, EngineTypeOK
<1>2. ASSUME Listed(v, a)
      PROVE  /\ vaultAssets' \in [Vaults -> SUBSET Assets]
             /\ \A w \in Vaults : /\ IsFiniteSet(vaultAssets'[w])
                                  /\ vaultAssets[w] \subseteq vaultAssets'[w]
             /\ a \in vaultAssets'[v]
    <2>1. vaultAssets' = [vaultAssets EXCEPT ![v] = vaultAssets[v] \cup {a}]
        BY <1>2 DEF Listed
    <2>2. IsFiniteSet(vaultAssets[v] \cup {a})
        BY <1>1, FS_AddElement
    <2> QED BY <1>1, <2>1, <2>2
<1>3. ASSUME UNCHANGED <<params, quote>>,
             collateral' \in [Vaults -> [Assets -> Nat]],
             notional' \in [Vaults -> [Assets -> Nat]],
             vaultAssets' \in [Vaults -> SUBSET Assets],
             \A w \in Vaults : IsFiniteSet(vaultAssets'[w]),
             \A w \in Vaults, b \in Assets :
                collateral'[w][b] # 0 \/ notional'[w][b] # 0 => b \in vaultAssets'[w]
      PROVE  EngineInv'
    BY <1>3 DEF params, EngineInv, NothingOffTheList, EngineTypeOK, ThresholdsBelow
<1>4. CASE PushCollateral(v, a, n)
    <2>1. /\ collateral' = [collateral EXCEPT ![v][a] = collateral[v][a] + n]
          /\ Listed(v, a) /\ UNCHANGED <<notional, params, quote>>
        BY <1>4 DEF PushCollateral
    <2>2. /\ collateral' \in [Vaults -> [Assets -> Nat]]
          /\ \A w \in Vaults, b \in Assets : collateral'[w][b] = collateral[w][b] \/ (w = v /\ b = a)
        BY <1>1, <2>1, OneAmountMoves
    <2> QED BY <1>1, <1>2, <1>3, <2>1, <2>2
<1>5. CASE PullCollateral(v, a, n)
    <2>1. /\ collateral' = [collateral EXCEPT ![v][a] = collateral[v][a] - n]
          /\ n <= collateral[v][a]
          /\ UNCHANGED <<notional, vaultAssets, params, quote>>
        BY <1>5 DEF PullCollateral
    <2>2. collateral[v][a] - n \in Nat /\ (collateral[v][a] = 0 => collateral[v][a] - n = 0)
        BY <1>1, <2>1
    <2>3. /\ collateral' \in [Vaults -> [Assets -> Nat]]
          /\ \A w \in Vaults, b \in Assets : collateral'[w][b] # 0 => collateral[w][b] # 0
        BY <1>1, <2>1, <2>2, OneAmountMoves
    <2> QED BY <1>1, <1>3, <2>1, <2>3
<1>6. CASE SetPositionNotional(v, a, n)
    <2>1. /\ notional' = [notional EXCEPT ![v][a] = n]
          /\ Listed(v, a) /\ UNCHANGED <<collateral, params, quote>>
        BY <1>6 DEF SetPositionNotional
    <2>2. /\ notional' \in [Vaults -> [Assets -> Nat]]
          /\ \A w \in Vaults, b \in Assets : notional'[w][b] = notional[w][b] \/ (w = v /\ b = a)
        BY <1>1, <2>1, OneAmountMoves
    <2> QED BY <1>1, <1>2, <1>3, <2>1, <2>2
<1> QED BY <1>4, <1>5, <1>6

LEMMA EngineNextInv ==
    ASSUME EngineInv, [EngineNext]_allEngineVars
    PROVE  EngineInv'
<1>1. ASSUME NEW a \in Assets, NEW initial \in Margins, NEW liq \in Margins,
             SetMarginParams(a, initial, liq)
      PROVE  EngineInv'
    <2>1. /\ initial \in 0..BPS /\ liq \in 0..BPS /\ liq <= initial
          /\ marginBps' = [marginBps EXCEPT ![a] = initial]
          /\ liqBps' = [liqBps EXCEPT ![a] = liq]
          /\ UNCHANGED <<collateral, notional, vaultAssets, quote>>
        BY <1>1, EngineAssumption DEF SetMarginParams
    <2> QED BY <2>1 DEF EngineInv, NothingOffTheList, EngineTypeOK, ThresholdsBelow
<1>2. 0..MaxAmount \subseteq Nat
    BY EngineAssumption
<1>3. ASSUME NEW v \in Vaults, NEW a \in Assets, NEW n \in 0..MaxAmount,
             PushCollateral(v, a, n) \/ PullCollateral(v, a, n) \/ SetPositionNotional(v, a, n)
      PROVE  EngineInv'
    BY <1>2, <1>3, AmountsKeepEngine
<1>4. CASE QuotesMove
    BY <1>4 DEF QuotesMove, params, EngineInv, NothingOffTheList, EngineTypeOK,
                ThresholdsBelow
<1>5. CASE UNCHANGED allEngineVars
    BY <1>5 DEF allEngineVars, params, EngineInv, NothingOffTheList, EngineTypeOK, ThresholdsBelow
<1> QED BY <1>1, <1>3, <1>4, <1>5 DEF EngineNext

LEMMA QuotientGrows ==
    ASSUME NEW m \in Nat, NEW n \in Nat, NEW d \in Nat \ {0}, m <= n
    PROVE  m \div d <= n \div d
<1> DEFINE p == m \div d
           q == n \div d
<1>1. p \in Nat /\ q \in Nat /\ p * d <= m /\ n < q * d + d
    BY Quotient
<1> HIDE DEF p, q
<1>2. p * d \in Nat /\ (q + 1) * d = q * d + d /\ q * d \in Nat
    BY <1>1, ProductIsNat
<1>3. p * d < (q + 1) * d
    BY <1>1, <1>2
<1>4. p < q + 1
    BY <1>1, <1>3, FactorsCancel
<1> QED BY <1>1, <1>4 DEF p, q

\* The sums a vault is judged by are naturals.
LEMMA EngineReadings ==
    ASSUME EngineInv, NEW v \in Vaults
    PROVE  /\ netCollateralUsd(v) # Unreadable => netCollateralUsd(v) \in Nat
           /\ marginUsedUsd(v) \in Nat
<1> USE DEF EngineInv, NothingOffTheList, EngineTypeOK
<1>1. /\ IsFiniteSet(Held(v)) /\ Held(v) \subseteq Assets
      /\ IsFiniteSet(Open(v)) /\ Open(v) \subseteq Assets
    <2>1. Held(v) \in SUBSET vaultAssets[v] /\ Open(v) \in SUBSET vaultAssets[v]
        BY DEF Held, Open
    <2> QED BY <2>1, FS_Subset
<1>2. ASSUME \A a \in Held(v) : quote[a] # Unreadable
      PROVE  SumFunction([a \in Held(v) |-> (collateral[v][a] * quote[a]) \div Q96_ONE]) \in Nat
    <2> DEFINE f == [a \in Held(v) |-> (collateral[v][a] * quote[a]) \div Q96_ONE]
    <2>1. ASSUME NEW a \in Held(v)
          PROVE  (collateral[v][a] * quote[a]) \div Q96_ONE \in Nat
        <3>1. collateral[v][a] \in Nat /\ quote[a] \in Nat
            <4>1. /\ a \in Assets /\ v \in Vaults /\ quote[a] # Unreadable
                  /\ collateral \in [Vaults -> [Assets -> Nat]]
                  /\ quote \in [Assets -> Prices \cup {Unreadable}]
                BY <1>1, <1>2
            <4> QED BY ONLY <4>1, FixedPointAssumption
        <3>2. collateral[v][a] * quote[a] \in Nat
            BY <3>1, ProductIsNat
        <3> QED BY <3>2, FixedPointAssumption, Quotient
    <2>2. f \in [Held(v) -> Nat]
        BY <2>1
    <2> HIDE DEF f
    <2>3. SumFunction(f) \in Nat
        BY <1>1, <2>2, SumUpdate
    <2> QED BY <2>3 DEF f
<1>3. marginUsedUsd(v) \in Nat
    <2> DEFINE f == [a \in Open(v) |-> (notional[v][a] * marginBps[a]) \div BPS]
    <2>1. ASSUME NEW a \in Open(v)
          PROVE  (notional[v][a] * marginBps[a]) \div BPS \in Nat
        <3>1. notional[v][a] \in Nat /\ marginBps[a] \in Nat
            BY <1>1, EngineAssumption
        <3>2. notional[v][a] * marginBps[a] \in Nat
            BY <3>1, ProductIsNat
        <3> QED BY <3>2, EngineAssumption, Quotient
    <2>2. f \in [Open(v) -> Nat]
        BY <2>1
    <2> HIDE DEF f
    <2>3. SumFunction(f) \in Nat
        BY <1>1, <2>2, SumUpdate
    <2> QED BY <2>3 DEF f, marginUsedUsd
<1> QED BY <1>2, <1>3 DEF netCollateralUsd

\* The margin of a vault in one asset is at least what liquidation asks of it.
LEMMA OneAssetIsSafe ==
    ASSUME EngineInv, NEW v \in Vaults, netCollateralUsd(v) # Unreadable,
           netCollateralUsd(v) >= marginUsedUsd(v), Cardinality(Open(v)) = 1
    PROVE  liquidationCheck(v) = FALSE
<1> USE DEF EngineInv, NothingOffTheList, EngineTypeOK
<1>1. IsFiniteSet(Open(v)) /\ Open(v) \subseteq Assets
    <2>1. Open(v) \in SUBSET vaultAssets[v]
        BY DEF Open
    <2> QED BY <2>1, FS_Subset
<1>2. PICK a \in Assets : Open(v) = {a}
    BY <1>1, FS_Singleton
<1> DEFINE n == notional[v][a]
           m == marginBps[a]
           l == liqBps[a]
<1>3. n \in Nat /\ m \in Nat /\ l \in Nat /\ l <= m /\ BPS \in Nat \ {0}
    BY EngineAssumption DEF ThresholdsBelow
<1>4. n * l \in Nat /\ n * m \in Nat /\ n * l <= n * m
    BY <1>3, ProductIsNat, ProductsGrow
<1>5. (n * m) \div BPS \in Nat /\ (n * l) \div BPS <= (n * m) \div BPS
      /\ (n * l) \div BPS \in Nat
    BY <1>3, <1>4, Quotient, QuotientGrows
<1>6. ASSUME NEW f \in [{a} -> Nat]
      PROVE  SumFunction(f) = f[a]
    <2> DEFINE z == [b \in {a} |-> 0]
    <2>1. IsFiniteSet({a}) /\ z \in [{a} -> Nat] /\ z[a] = 0
        BY FS_Singleton
    <2>2. SumFunction(z) = 0
        BY <2>1, SumUpdate
    <2>3. a \in {a} /\ \A y \in {a} \ {a} : f[y] = z[y]
        OBVIOUS
    <2> HIDE DEF z
    <2>4. SumFunction(f) = SumFunction(z) - z[a] + f[a] /\ SumFunction(f) \in Nat
        BY ONLY f \in [{a} -> Nat], <2>1, <2>3, SumChange
    <2>5. f[a] \in Nat
        OBVIOUS
    <2> QED BY <2>1, <2>2, <2>4, <2>5
<1>7. marginUsedUsd(v) = (n * m) \div BPS
    <2> DEFINE f == [b \in {a} |-> (notional[v][b] * marginBps[b]) \div BPS]
    <2>1. f \in [{a} -> Nat] /\ f[a] = (n * m) \div BPS
        BY <1>5
    <2>2. marginUsedUsd(v) = SumFunction(f)
        BY <1>2 DEF marginUsedUsd
    <2> HIDE DEF f
    <2> QED BY <1>6, <2>1, <2>2
<1>8. SumFunction([b \in Open(v) |-> notional[v][b]]) = n
    <2> DEFINE f == [b \in {a} |-> notional[v][b]]
    <2>1. f \in [{a} -> Nat] /\ f[a] = n
        BY <1>3
    <2> HIDE DEF f
    <2>2. SumFunction(f) = n
        BY <1>6, <2>1
    <2> QED BY <1>2, <2>2 DEF f
<1>9. Max({0} \cup {liqBps[b] : b \in Open(v)}) = l
    <2>1. {0} \cup {liqBps[b] : b \in Open(v)} = {0, l}
        BY <1>2
    <2>2. l \in {0, l} /\ \A y \in {0, l} : l >= y
        BY <1>3
    <2>3. \A x \in {0, l} : (\A y \in {0, l} : x >= y) => x = l
        BY <1>3
    <2>4. Max({0, l}) = l
        BY <2>2, <2>3 DEF Max
    <2> QED BY <2>1, <2>4
<1>10. ~(netCollateralUsd(v) < (n * l) \div BPS)
    <2>1. netCollateralUsd(v) \in Nat
        BY EngineReadings
    <2> HIDE DEF n, m, l
    <2> QED BY <1>5, <1>7, <2>1
<1> HIDE DEF n, m, l
<1> QED BY <1>8, <1>9, <1>10 DEF liquidationCheck

\* Off-chain positions that need no more margin than is held change nothing.
LEMMA OffChainIsFree ==
    ASSUME EngineInv, NEW v \in Vaults, netCollateralUsd(v) # Unreadable,
           netCollateralUsd(v) >= marginUsedUsd(v),
           NEW off \in Nat, NEW cash \in Nat,
           \A a \in vaultAssets[v] : (off * marginBps[a]) \div BPS <= marginUsedUsd(v)
    PROVE  crossDomainNetUsd(v, off, cash) = netCollateralUsd(v) + cash - marginUsedUsd(v)
<1> USE DEF EngineInv, NothingOffTheList, EngineTypeOK
<1> DEFINE have == netCollateralUsd(v) + cash
           used == marginUsedUsd(v)
           all == {0} \cup {marginBps[a] : a \in vaultAssets[v]}
           off0 == (off * Max(all)) \div BPS
<1>1. netCollateralUsd(v) \in Nat /\ used \in Nat /\ have \in Nat
    BY EngineReadings
<1>2. Max(all) \in all
    <2>1. all \in SUBSET (0..BPS) /\ all # {}
        BY EngineAssumption
    <2> QED BY <2>1, EngineAssumption, GreatestIsMember
<1>3. Max(all) \in Nat /\ off0 \in Nat /\ off0 <= used
    <2>1. CASE Max(all) = 0
        <3>1. off * Max(all) = 0 /\ 0 \div BPS = 0
            BY <2>1, EngineAssumption
        <3> QED BY <1>1, <2>1, <3>1
    <2>2. CASE \E a \in vaultAssets[v] : Max(all) = marginBps[a]
        <3>1. PICK a \in vaultAssets[v] : Max(all) = marginBps[a]
            BY <2>2
        <3>2. marginBps[a] \in Nat
            BY EngineAssumption
        <3>3. off * marginBps[a] \in Nat
            BY <3>2, ProductIsNat
        <3>4. (off * marginBps[a]) \div BPS \in Nat
            BY <3>3, EngineAssumption, Quotient
        <3> QED BY <3>1, <3>2, <3>4
    <2> QED BY <1>2, <2>1, <2>2
<1>4. crossDomainNetUsd(v, off, cash)
        = IF have > Max({used, off0}) THEN have - Max({used, off0}) ELSE 0
    BY DEF crossDomainNetUsd
<1>5. have >= used /\ used = marginUsedUsd(v) /\ have = netCollateralUsd(v) + cash
    BY <1>1
<1> HIDE DEF have, used, off0, all
<1>6. Max({used, off0}) = used
    <2>1. used \in {used, off0} /\ \A y \in {used, off0} : used >= y
        BY <1>1, <1>3
    <2>2. \A x \in {used, off0} : (\A y \in {used, off0} : x >= y) => x = used
        BY <1>1, <1>3
    <2> QED BY <2>1, <2>2 DEF Max
<1>7. crossDomainNetUsd(v, off, cash) = have - used
    BY <1>1, <1>4, <1>5, <1>6
<1> QED BY <1>1, <1>5, <1>7

LEMMA EngineInvProtects == EngineInv => MarginProtects
<1> SUFFICES ASSUME EngineInv, NEW v \in Vaults, netCollateralUsd(v) # Unreadable,
                    netCollateralUsd(v) >= marginUsedUsd(v)
             PROVE  /\ Cardinality(Open(v)) = 1 => liquidationCheck(v) = FALSE
                    /\ \A off \in 0..MaxAmount, cash \in {0, MaxAmount} :
                          (\A a \in vaultAssets[v] :
                              (off * marginBps[a]) \div BPS <= marginUsedUsd(v))
                          => crossDomainNetUsd(v, off, cash) = crossDomainNetUsd(v, 0, 0) + cash
    BY DEF MarginProtects
<1>1. netCollateralUsd(v) \in Nat /\ marginUsedUsd(v) \in Nat
    BY EngineReadings
<1>2. ASSUME NEW off \in 0..MaxAmount, NEW cash \in {0, MaxAmount},
             \A a \in vaultAssets[v] : (off * marginBps[a]) \div BPS <= marginUsedUsd(v)
      PROVE  crossDomainNetUsd(v, off, cash) = crossDomainNetUsd(v, 0, 0) + cash
    <2>1. off \in Nat /\ cash \in Nat
        BY EngineAssumption
    <2>2. crossDomainNetUsd(v, off, cash) = netCollateralUsd(v) + cash - marginUsedUsd(v)
        BY <1>2, <2>1, OffChainIsFree
    <2>3. \A a \in vaultAssets[v] : (0 * marginBps[a]) \div BPS <= marginUsedUsd(v)
        <3>1. ASSUME NEW a \in vaultAssets[v]
              PROVE  0 * marginBps[a] = 0 /\ 0 \div BPS = 0
            BY EngineAssumption DEF EngineInv, NothingOffTheList, EngineTypeOK
        <3> QED BY <1>1, <3>1
    <2>4. crossDomainNetUsd(v, 0, 0) = netCollateralUsd(v) + 0 - marginUsedUsd(v)
        BY <2>3, OffChainIsFree
    <2> QED BY <1>1, <2>1, <2>2, <2>4
<1> QED BY <1>2, OneAssetIsSafe

\* Nothing a vault owns or owes is left out of the engine's sums (push_collateral,
\* pull_collateral, set_position_notional), for any vaults, assets and amounts.
THEOREM AmountsListed == EngineSpec => []NothingOffTheList
<1>1. EngineInv /\ [EngineNext]_allEngineVars => EngineInv'
    BY EngineNextInv
<1>2. EngineInv => NothingOffTheList
    BY DEF EngineInv
<1> QED BY EngineInitInv, <1>1, <1>2, PTL DEF EngineSpec

\* A vault in one asset that meets its margin is not liquidatable, and off-chain
\* positions cost margin at most once, for any parameters, prices and amounts.
THEOREM MarginIsEnough == EngineSpec => []MarginProtects
<1>1. EngineInv /\ [EngineNext]_allEngineVars => EngineInv'
    BY EngineNextInv
<1> QED BY EngineInitInv, EngineInvProtects, <1>1, PTL DEF EngineSpec

-------------------------------------------------------------------------------
(* FeeCollector *)

AccruedSum == SumFunction([id \in StreamIds |-> stream[id].accrued])

\* A stream that is not listed is a zeroed one.
Zeroed(streams) == \A id \in StreamIds : ~streams[id].exists => streams[id] = NoStream

FeeInv ==
    /\ StreamsIndexed
    /\ Zeroed(stream)
    /\ AccruedSum = totalAccrued
    /\ totalAccrued <= held

\* The configurations that one call may build: listed and zeroed as they should be, and
\* nobody's accrued amount touched.
Configurations ==
    {c \in [ids : Seq(StreamIds), index : [StreamIds -> Nat],
            streams : [StreamIds -> StreamType]] :
        /\ IsIndexed(c.ids, c.index)
        /\ \A id \in StreamIds : /\ c.streams[id].exists <=> c.index[id] # 0
                                 /\ ~c.streams[id].exists => c.streams[id] = NoStream
                                 /\ c.streams[id].accrued = stream[id].accrued}

LEMMA ConfiguredStays ==
    ASSUME NEW c \in Configurations, NEW e \in EntryType
    PROVE  Configured(c, e) \in Configurations
<1> DEFINE id == e.id
           s == c.streams[id]
           s1 == [s EXCEPT !.exists = TRUE, !.recipient = {e.recipient}, !.sharePpm = e.sharePpm]
           d == Configured(c, e)
<1>1. /\ id \in StreamIds /\ e.recipient \in Recipients /\ e.sharePpm \in Nat
      /\ c.ids \in Seq(StreamIds) /\ c.index \in [StreamIds -> Nat]
      /\ c.streams \in [StreamIds -> StreamType]
      /\ IsIndexed(c.ids, c.index)
      /\ \A x \in StreamIds : /\ c.streams[x].exists <=> c.index[x] # 0
                              /\ ~c.streams[x].exists => c.streams[x] = NoStream
                              /\ c.streams[x].accrued = stream[x].accrued
    BY DEF Configurations, EntryType
<1>2. s \in StreamType
    BY <1>1
<1>3. s1 \in StreamType /\ s1.exists = TRUE /\ s1.accrued = s.accrued
    <2> HIDE DEF s
    <2> DEFINE a == [s EXCEPT !.exists = TRUE]
               b == [a EXCEPT !.recipient = {e.recipient}]
    <2>1. a \in StreamType /\ a.exists = TRUE /\ a.accrued = s.accrued
        BY <1>2 DEF StreamType
    <2>2. s1 = [b EXCEPT !.sharePpm = e.sharePpm]
        OBVIOUS
    <2> HIDE DEF a, s1
    <2>3. b \in StreamType /\ b.exists = TRUE /\ b.accrued = s.accrued
        BY <1>1, <2>1 DEF StreamType
    <2> HIDE DEF b
    <2> QED BY <1>1, <2>2, <2>3 DEF StreamType
<1>4. /\ d.streams = [c.streams EXCEPT ![id] = s1]
      /\ d.ids = IF s.exists THEN c.ids ELSE PushedList(c.ids, id)
      /\ d.index = IF s.exists THEN c.index ELSE PushedIndex(c.ids, c.index, id)
      /\ d = [ids |-> d.ids, index |-> d.index, streams |-> d.streams]
    BY DEF Configured
<1> HIDE DEF s1, d
<1>5. /\ d.ids \in Seq(StreamIds) /\ d.index \in [StreamIds -> Nat]
      /\ IsIndexed(d.ids, d.index)
      /\ \A x \in StreamIds : d.index[x] # 0 <=> c.index[x] # 0 \/ x = id
    <2>1. CASE s.exists
        BY <1>1, <1>4, <2>1
    <2>2. CASE ~s.exists
        <3>1. c.index[id] = 0
            BY <1>1, <2>2
        <3>2. /\ PushedList(c.ids, id) \in Seq(StreamIds)
              /\ PushedIndex(c.ids, c.index, id) \in [StreamIds -> Nat]
              /\ IsIndexed(PushedList(c.ids, id), PushedIndex(c.ids, c.index, id))
              /\ \A x \in StreamIds :
                    PushedIndex(c.ids, c.index, id)[x] # 0 <=> c.index[x] # 0 \/ x = id
            BY <1>1, <3>1, PushKeepsIndex, SMTT(30)
        <3> QED BY <1>4, <2>2, <3>2
    <2> QED BY <2>1, <2>2
<1>6. /\ d.streams \in [StreamIds -> StreamType]
      /\ \A x \in StreamIds : d.streams[x] = IF x = id THEN s1 ELSE c.streams[x]
    BY <1>1, <1>3, <1>4
<1>7. \A x \in StreamIds : /\ d.streams[x].exists <=> d.index[x] # 0
                           /\ ~d.streams[x].exists => d.streams[x] = NoStream
                           /\ d.streams[x].accrued = stream[x].accrued
    BY <1>1, <1>3, <1>5, <1>6
<1> QED BY <1>4, <1>5, <1>6, <1>7 DEF Configurations, d

\* A batch is stored entry by entry, in its order.
LEMMA BatchStays ==
    ASSUME NEW c \in Configurations, NEW batch \in Seq(EntryType)
    PROVE  FoldLeft(Configured, c, batch) \in Configurations
<1> DEFINE n == Len(batch)
           A == Configurations
           step == [p \in A \X (1..n) |-> Configured(p[1], batch[p[2]])]
           Follows(g) == g = [s \in SUBSET DOMAIN batch |->
                                 IF s = {} THEN c
                                 ELSE Configured(g[s \ {Max(s)}], batch[Max(s)])]
<1>1. n \in Nat /\ DOMAIN batch = 1..n /\ \A k \in 1..n : batch[k] \in EntryType
    OBVIOUS
<1>2. step \in [A \X (1..n) -> A]
    <2>1. \A p \in A \X (1..n) : p[1] \in A /\ batch[p[2]] \in EntryType
        BY <1>1
    <2> QED BY <2>1, ConfiguredStays
<1>3. \A x \in A, k \in 1..n : step[<<x, k>>] = Configured(x, batch[k])
    OBVIOUS
<1> HIDE DEF step, A, n
<1>4. c \in A
    BY DEF A
<1>5. PICK g : LoopsInOrder(g, n, A, c, step)
    BY ONLY <1>1, <1>2, <1>4, LoopInOrderExists
<1>6. Follows(g)
    <2>1. ASSUME NEW s \in SUBSET (1..n), s # {}
          PROVE  step[<<g[s \ {Max(s)}], Max(s)>>] = Configured(g[s \ {Max(s)}], batch[Max(s)])
        <3>1. s \in SUBSET (0..n)
            OBVIOUS
        <3>2. Max(s) \in s
            BY <1>1, <2>1, <3>1, GreatestIsMember
        <3>3. g[s \ {Max(s)}] \in A
            BY <1>5 DEF LoopsInOrder
        <3> QED BY <1>3, <3>2, <3>3
    <2>2. g = [s \in SUBSET (1..n) |->
                  IF s = {} THEN c ELSE Configured(g[s \ {Max(s)}], batch[Max(s)])]
        BY <1>5, <2>1 DEF LoopsInOrder
    <2> QED BY <1>1, <2>2
<1> DEFINE it == CHOOSE g2 : Follows(g2)
<1>7. Follows(it)
    BY <1>6
<1>8. FoldLeft(Configured, c, batch) = it[DOMAIN batch]
    BY DEF FoldLeft, MapThenFoldSet
<1> HIDE DEF it
<1> DEFINE G == {k \in 0..n : it[1..k] \in A}
<1>9. 0 \in G
    <2>1. 1..0 = {} /\ {} \in SUBSET DOMAIN batch /\ 0 \in 0..n
        BY <1>1
    <2>2. it[{}] = c
        BY <1>7, <2>1
    <2> QED BY <1>4, <2>1, <2>2
<1>10. ASSUME NEW k \in 1..n, k - 1 \in G
       PROVE  k \in G
    <2>1. 1..k \in SUBSET DOMAIN batch /\ 1..k # {} /\ k \in Nat \ {0} /\ k \in 0..n
        <3>1. 1..k \in SUBSET (1..n) /\ k \in 1..k /\ k \in Nat \ {0} /\ k \in 0..n
            BY ONLY <1>1, k \in 1..n
        <3> QED BY <1>1, <3>1
    <2>2. Max(1..k) = k /\ (1..k) \ {Max(1..k)} = 1..(k - 1)
        BY <2>1, GreatestOfInterval
    <2>3. it[1..k] = Configured(it[1..(k - 1)], batch[k])
        BY <1>7, <2>1, <2>2
    <2>4. it[1..(k - 1)] \in A
        BY <1>10
    <2> QED BY <1>1, <2>1, <2>3, <2>4, ConfiguredStays DEF A
<1> HIDE DEF G
<1>11. n \in G
    <2>1. 0..n \subseteq G
        BY <1>1, <1>9, <1>10, InductionUpTo
    <2> QED BY <1>1, <2>1
<1> QED BY <1>1, <1>8, <1>11 DEF G, A

LEMMA FeeInitInv == FeeInit => FeeInv
<1> SUFFICES ASSUME FeeInit PROVE FeeInv
    OBVIOUS
<1>1. NoStream \in StreamType
    BY DEF NoStream, StreamType
<1>2. FeeTypeOK
    BY <1>1 DEF FeeInit, FeeTypeOK
<1>3. IsIndexed(streamIds, streamIndex)
    BY DEF FeeInit, IsIndexed
<1>4. \A id \in StreamIds : stream[id] = NoStream /\ ~stream[id].exists /\ stream[id].accrued = 0
    BY DEF FeeInit, NoStream
<1>5. AccruedSum = 0
    <2> DEFINE f == [id \in StreamIds |-> stream[id].accrued]
    <2>1. f \in [StreamIds -> Nat] /\ \A id \in StreamIds : f[id] = 0
        BY <1>4
    <2> HIDE DEF f
    <2>2. SumFunction(f) = 0
        BY <2>1, FeeAssumption, SumUpdate
    <2> QED BY <2>2 DEF f, AccruedSum
<1> QED BY <1>2, <1>3, <1>4, <1>5 DEF FeeInit, FeeInv, StreamsIndexed, Zeroed

\* The list leaves out nothing that has accrued.
LEMMA FeeInvBacks == FeeInv => AccruedIsBacked
<1> SUFFICES ASSUME FeeInv PROVE AccruedIsBacked
    OBVIOUS
<1> DEFINE f == [id \in StreamIds |-> stream[id].accrued]
<1>1. /\ IsFiniteSet(StreamIds)
      /\ streamIds \in Seq(StreamIds) /\ streamIndex \in [StreamIds -> Nat]
      /\ IsIndexed(streamIds, streamIndex)
    BY FeeAssumption DEF FeeInv, StreamsIndexed, FeeTypeOK
<1>2. f \in [StreamIds -> Nat]
    BY DEF FeeInv, StreamsIndexed, FeeTypeOK, StreamType
<1>3. \A id \in StreamIds : streamIndex[id] = 0 => f[id] = 0
    BY DEF FeeInv, StreamsIndexed, Zeroed, NoStream
<1> DEFINE g == [k \in DOMAIN streamIds |-> stream[streamIds[k]].accrued]
<1>4. g \in [DOMAIN streamIds -> Nat] /\ \A k \in DOMAIN streamIds : g[k] = f[streamIds[k]]
    BY <1>1, <1>2
<1>5. Total(streamIds, LAMBDA id : stream[id].accrued) = SumFunction(g)
    BY DEF Total
<1> HIDE DEF f, g
<1>6. SumFunction(g) = SumFunction(f)
    <2>1. IsListing(g, f, streamIds, streamIndex)
        BY <1>1, <1>3, <1>4 DEF IsListing
    <2> QED BY ONLY <1>1, <1>2, <2>1, ListedSum
<1>7. SumFunction(f) = totalAccrued
    BY DEF f, FeeInv, AccruedSum
<1> QED BY <1>5, <1>6, <1>7 DEF FeeInv, AccruedIsBacked

\* What AccrualsAreFair says of one step
FairStep ==
    \A id \in StreamIds :
        LET got == stream'[id].accrued - stream[id].accrued
            due == ((held' - held) * stream[id].sharePpm) \div PPM_DENOMINATOR
        IN  /\ got < 0 => /\ held - held' = -got
                          /\ \A other \in StreamIds \ {id} : stream'[other] = stream[other]
            /\ totalAccrued' > totalAccrued => due <= got /\ got < due + Len(streamIds)

LEMMA FeeTypes ==
    ASSUME FeeInv
    PROVE  /\ IsFiniteSet(StreamIds)
           /\ streamIds \in Seq(StreamIds) /\ streamIndex \in [StreamIds -> Nat]
           /\ IsIndexed(streamIds, streamIndex)
           /\ stream \in [StreamIds -> StreamType]
           /\ \A id \in StreamIds : /\ stream[id].sharePpm \in Nat /\ stream[id].accrued \in Nat
                                    /\ stream[id].exists <=> streamIndex[id] # 0
                                    /\ ~stream[id].exists => stream[id] = NoStream
           /\ totalAccrued \in Nat /\ held \in Nat
BY FeeAssumption DEF FeeInv, StreamsIndexed, FeeTypeOK, StreamType, Zeroed

\* A step that leaves all accrued amounts alone, and the tokens.
LEMMA NothingAccrues ==
    ASSUME FeeInv,
           \A id \in StreamIds : stream'[id].accrued = stream[id].accrued,
           StreamsIndexed', Zeroed(stream)',
           totalAccrued' = totalAccrued, held' \in Nat, held' >= held
    PROVE  FeeInv' /\ FairStep
<1>1. /\ totalAccrued \in Nat /\ held \in Nat
      /\ \A id \in StreamIds : stream[id].accrued \in Nat
    BY FeeTypes
<1>2. AccruedSum' = AccruedSum
    BY DEF AccruedSum
<1>3. FeeInv'
    BY <1>1, <1>2 DEF FeeInv
<1>4. FairStep
    BY <1>1 DEF FairStep
<1> QED BY <1>3, <1>4

LEMMA ConfigureKeepsFees ==
    ASSUME FeeInv, NEW batch \in Batches, ConfigureStreams(batch)
    PROVE  FeeInv' /\ FairStep
<1> DEFINE c0 == [ids |-> streamIds, index |-> streamIndex, streams |-> stream]
           c == FoldLeft(Configured, c0, batch)
<1>1. c0 \in Configurations
    BY FeeTypes DEF Configurations
<1>2. c \in Configurations
    <2>1. batch \in Seq(EntryType)
        BY FeeAssumption
    <2> QED BY <1>1, <2>1, BatchStays
<1>3. /\ SharesComplete(c.ids, c.streams)
      /\ streamIds' = c.ids /\ streamIndex' = c.index /\ stream' = c.streams
      /\ UNCHANGED <<totalAccrued, held>>
    BY DEF ConfigureStreams
<1> HIDE DEF c
<1>4. SharesComplete(streamIds', stream')
    BY <1>3
<1>5. /\ StreamsIndexed' /\ Zeroed(stream)'
      /\ \A id \in StreamIds : stream'[id].accrued = stream[id].accrued
    <2>1. /\ streamIds' \in Seq(StreamIds) /\ streamIndex' \in [StreamIds -> Nat]
          /\ stream' \in [StreamIds -> StreamType]
          /\ IsIndexed(streamIds', streamIndex')
          /\ \A id \in StreamIds : /\ stream'[id].exists <=> streamIndex'[id] # 0
                                   /\ ~stream'[id].exists => stream'[id] = NoStream
                                   /\ stream'[id].accrued = stream[id].accrued
        BY <1>2, <1>3 DEF Configurations
    <2>2. FeeTypeOK'
        BY <1>3, <2>1, FeeTypes DEF FeeTypeOK
    <2>3. IsIndexed(streamIds, streamIndex)' /\ Zeroed(stream)'
        BY <2>1 DEF IsIndexed, Zeroed
    <2>4. SharesComplete(streamIds, stream)'
        BY <1>4 DEF SharesComplete, Total
    <2> QED BY <2>1, <2>2, <2>3, <2>4 DEF StreamsIndexed
<1>6. held' \in Nat /\ held' >= held
    BY <1>3, FeeTypes
<1> QED BY <1>3, <1>5, <1>6, NothingAccrues

LEMMA RemoveKeepsFees ==
    ASSUME FeeInv, NEW id \in StreamIds, RemoveStream(id)
    PROVE  FeeInv' /\ FairStep
<1>1. /\ stream[id].exists /\ stream[id].accrued = 0
      /\ streamIds' = PoppedList(streamIds, streamIndex, id)
      /\ streamIndex' = PoppedIndex(streamIds, streamIndex, id)
      /\ stream' = [stream EXCEPT ![id] = NoStream]
      /\ streamIds' # <<>> => SharesComplete(streamIds', stream')
      /\ UNCHANGED <<totalAccrued, held>>
    BY DEF RemoveStream, Removed
<1>2. NoStream \in StreamType /\ NoStream.accrued = 0 /\ NoStream.exists = FALSE
    BY DEF NoStream, StreamType
<1>3. streamIndex[id] # 0
    BY <1>1, FeeTypes
<1>4. /\ streamIds' \in Seq(StreamIds) /\ streamIndex' \in [StreamIds -> Nat]
      /\ IsIndexed(streamIds', streamIndex')
      /\ \A x \in StreamIds : streamIndex'[x] # 0 <=> streamIndex[x] # 0 /\ x # id
    BY <1>1, <1>3, FeeTypes, PopKeepsIndex
<1>5. /\ stream' \in [StreamIds -> StreamType]
      /\ \A x \in StreamIds : stream'[x] = IF x = id THEN NoStream ELSE stream[x]
    BY <1>1, <1>2, FeeTypes
<1>6. /\ StreamsIndexed' /\ Zeroed(stream)'
      /\ \A x \in StreamIds : stream'[x].accrued = stream[x].accrued
    <2>1. \A x \in StreamIds : /\ stream'[x].accrued = stream[x].accrued
                               /\ stream'[x].exists <=> streamIndex'[x] # 0
                               /\ ~stream'[x].exists => stream'[x] = NoStream
        BY <1>1, <1>2, <1>4, <1>5, FeeTypes
    <2>2. IsIndexed(streamIds, streamIndex)'
        BY <1>4 DEF IsIndexed
    <2>3. (streamIds # <<>> => SharesComplete(streamIds, stream))'
        BY <1>1 DEF SharesComplete, Total
    <2> QED BY <1>1, <1>4, <1>5, <2>1, <2>2, <2>3, FeeTypes
            DEF StreamsIndexed, FeeTypeOK, Zeroed
<1>7. held' \in Nat /\ held' >= held
    BY <1>1, FeeTypes
<1> QED BY <1>1, <1>6, <1>7, NothingAccrues

\* A payout takes from one stream, from the total and from the tokens alike.
LEMMA PayKeepsFees ==
    ASSUME FeeInv, NEW id \in StreamIds, NEW amount \in Nat, Pay(id, amount)
    PROVE  FeeInv' /\ FairStep
<1> DEFINE s == stream[id]
           p == [s EXCEPT !.accrued = s.accrued - amount]
<1>1. /\ amount <= s.accrued /\ amount <= totalAccrued /\ amount <= held /\ amount > 0
      /\ s.exists
      /\ stream' = [stream EXCEPT ![id].accrued = s.accrued - amount]
      /\ totalAccrued' = totalAccrued - amount
      /\ held' = held - amount
      /\ UNCHANGED streamConfig
    BY FeeTypes DEF Pay, Debit
<1>2. s \in StreamType /\ s.accrued \in Nat /\ s.accrued - amount \in Nat
    BY <1>1, FeeTypes
<1>3. /\ p \in StreamType /\ p.accrued = s.accrued - amount
      /\ p.exists = s.exists /\ p.sharePpm = s.sharePpm
    <2> HIDE DEF s
    <2> QED BY <1>2 DEF StreamType
<1>4. stream' = [stream EXCEPT ![id] = p]
    BY <1>1
<1> HIDE DEF p
<1>5. /\ stream' \in [StreamIds -> StreamType] /\ stream'[id] = p
      /\ \A x \in StreamIds \ {id} : stream'[x] = stream[x]
    BY <1>3, <1>4, FeeTypes
<1>6. AccruedSum' = AccruedSum - amount
    <2> DEFINE f == [x \in StreamIds |-> stream[x].accrued]
               g == [x \in StreamIds |-> stream'[x].accrued]
    <2>1. /\ f \in [StreamIds -> Nat] /\ f[id] = s.accrued
          /\ g \in [StreamIds -> Nat] /\ g[id] = s.accrued - amount
          /\ \A x \in StreamIds \ {id} : g[x] = f[x]
        BY <1>2, <1>3, <1>5, FeeTypes
    <2> HIDE DEF f, g
    <2>2. IsFiniteSet(StreamIds)
        BY FeeTypes
    <2>3. SumFunction(g) = SumFunction(f) - f[id] + g[id] /\ SumFunction(f) \in Nat
        BY ONLY id \in StreamIds, <2>1, <2>2, SumChange
    <2>4. SumFunction(g) = SumFunction(f) - amount
        BY <1>2, <2>1, <2>3
    <2> QED BY <2>4 DEF f, g, AccruedSum
<1>7. totalAccrued - amount \in Nat /\ held - amount \in Nat
    BY <1>1, FeeTypes
<1>8. StreamsIndexed'
    <2>1. \A x \in StreamIds : /\ stream'[x].exists <=> streamIndex'[x] # 0
                               /\ stream'[x].sharePpm = stream[x].sharePpm
        BY <1>1, <1>3, <1>5, FeeTypes DEF streamConfig
    <2>2. IsIndexed(streamIds, streamIndex)'
        BY <1>1, FeeTypes DEF streamConfig
    <2>3. (streamIds # <<>> => SharesComplete(streamIds, stream))'
        <3>1. \A k \in DOMAIN streamIds :
                 stream'[streamIds[k]].sharePpm = stream[streamIds[k]].sharePpm
            BY <2>1, FeeTypes
        <3>2. SharesComplete(streamIds, stream') <=> SharesComplete(streamIds, stream)
            BY <3>1 DEF SharesComplete, Total
        <3>3. streamIds' = streamIds
            BY <1>1 DEF streamConfig
        <3>4. streamIds # <<>> => SharesComplete(streamIds, stream)
            BY DEF FeeInv, StreamsIndexed
        <3>5. (SharesComplete(streamIds, stream))' <=> SharesComplete(streamIds, stream')
            BY <3>3 DEF SharesComplete, Total
        <3> QED BY <3>2, <3>3, <3>4, <3>5
    <2> QED BY <1>1, <1>5, <1>7, <2>1, <2>2, <2>3, FeeTypes
            DEF StreamsIndexed, FeeTypeOK, streamConfig
<1>9. Zeroed(stream)'
    BY <1>1, <1>3, <1>5, FeeTypes DEF Zeroed
<1>10. FeeInv'
    BY <1>1, <1>6, <1>8, <1>9, FeeTypes DEF FeeInv
<1>11. FairStep
    <2>1. \A x \in StreamIds : /\ stream[x].accrued \in Nat
                               /\ x # id => stream'[x].accrued = stream[x].accrued
        BY <1>5, FeeTypes
    <2>2. stream'[id].accrued - stream[id].accrued = -amount
        BY <1>2, <1>3, <1>5
    <2>3. held - held' = amount /\ ~(totalAccrued' > totalAccrued)
        BY <1>1, FeeTypes
    <2> HIDE DEF s
    <2>4. ASSUME NEW x \in StreamIds, stream'[x].accrued - stream[x].accrued < 0
          PROVE  /\ held - held' = -(stream'[x].accrued - stream[x].accrued)
                 /\ \A other \in StreamIds \ {x} : stream'[other] = stream[other]
        <3>1. x = id
            BY <2>1, <2>4
        <3> QED BY <1>5, <2>2, <2>3, <3>1
    <2> QED BY <2>3, <2>4 DEF FairStep
<1> QED BY <1>10, <1>11

\* The parts of a collection, rounded down, miss it by less than a unit per stream, and
\* there is a stream to put that on.
LEMMA CollectionSplits ==
    ASSUME FeeInv, streamIds # <<>>, NEW received \in Nat
    PROVE  LET parts == Total(streamIds, LAMBDA id : Portion(received, id))
           IN  /\ parts = SumFunction([id \in StreamIds |-> Portion(received, id)])
               /\ parts \in Nat /\ parts <= received /\ received - parts < Len(streamIds)
               /\ FirstPaying \in StreamIds /\ stream[FirstPaying].sharePpm # 0
               /\ Len(streamIds) \in Nat \ {0}
               /\ \A id \in StreamIds :
                     /\ Portion(received, id) \in Nat
                     /\ stream[id].sharePpm = 0 => Portion(received, id) = 0
<1> DEFINE n == Len(streamIds)
           d == PPM_DENOMINATOR
           share == [k \in 1..n |-> stream[streamIds[k]].sharePpm]
           part == [k \in 1..n |-> Portion(received, streamIds[k])]
           all == [id \in StreamIds |-> Portion(received, id)]
<1>1. /\ n \in Nat \ {0} /\ DOMAIN streamIds = 1..n /\ IsFiniteSet(1..n)
      /\ \A k \in 1..n : streamIds[k] \in StreamIds
    <2>1. n \in Nat \ {0} /\ DOMAIN streamIds = 1..n /\ \A k \in 1..n : streamIds[k] \in StreamIds
        BY FeeTypes
    <2> QED BY <2>1, FS_Interval
<1>2. d \in Nat \ {0}
    BY FeeAssumption
<1> HIDE DEF n
<1>3. ASSUME NEW id \in StreamIds
      PROVE  /\ Portion(received, id) \in Nat
             /\ stream[id].sharePpm = 0 => Portion(received, id) = 0
             /\ Portion(received, id) = (received * stream[id].sharePpm) \div d
    <2>1. stream[id].sharePpm \in Nat
        BY FeeTypes
    <2>2. received * stream[id].sharePpm \in Nat
        BY <2>1, ProductIsNat
    <2>3. (received * stream[id].sharePpm) \div d \in Nat
        BY <1>2, <2>2, Quotient
    <2>4. received * 0 = 0 /\ 0 \div d = 0
        BY <1>2
    <2> QED BY <2>3, <2>4 DEF Portion
<1>4. share \in [1..n -> Nat] /\ part \in [1..n -> Nat] /\ all \in [StreamIds -> Nat]
    BY <1>1, <1>3, FeeTypes
<1>5. \A k \in 1..n : part[k] = (received * share[k]) \div d
    BY <1>1, <1>3
<1>6. SumFunction(share) = d
    <2>1. SharesComplete(streamIds, stream)
        BY DEF FeeInv, StreamsIndexed
    <2> QED BY <1>1, <2>1 DEF SharesComplete, Total
<1>7. Total(streamIds, LAMBDA id : Portion(received, id)) = SumFunction(part)
    BY <1>1 DEF Total
<1>8. SumFunction(part) = SumFunction(all)
    <2>1. IsListing(part, all, streamIds, streamIndex)
        <3>1. \A k \in 1..n : part[k] = all[streamIds[k]]
            BY <1>1
        <3>2. ASSUME NEW id \in StreamIds, streamIndex[id] = 0
              PROVE  all[id] = 0
            <4>1. stream[id].sharePpm = 0
                BY <3>2, FeeTypes DEF NoStream
            <4> QED BY <1>3, <4>1
        <3> QED BY <1>1, <1>4, <3>1, <3>2, FeeTypes DEF IsListing
    <2>2. /\ IsFiniteSet(StreamIds) /\ streamIds \in Seq(StreamIds)
          /\ streamIndex \in [StreamIds -> Nat] /\ IsIndexed(streamIds, streamIndex)
        BY FeeTypes
    <2>3. all \in [StreamIds -> Nat]
        BY <1>4
    <2> HIDE DEF part, all
    <2> QED BY ONLY <2>1, <2>2, <2>3, ListedSum
<1>9. FirstPaying \in StreamIds /\ stream[FirstPaying].sharePpm # 0
    <2> DEFINE paying == {k \in DOMAIN streamIds : stream[streamIds[k]].sharePpm # 0}
    <2>1. paying # {}
        <3>1. ASSUME paying = {} PROVE \A k \in 1..n : share[k] = 0
            BY <1>1, <3>1
        <3>2. ASSUME \A k \in 1..n : share[k] = 0 PROVE FALSE
            <4> HIDE DEF share
            <4>1. SumFunction(share) = 0
                BY ONLY <1>1, <1>4, <3>2, SumUpdate
            <4> QED BY <1>2, <1>6, <4>1
        <3> QED BY <3>1, <3>2
    <2>2. paying \in SUBSET Nat
        BY <1>1
    <2>3. Min(paying) \in paying
        BY <2>1, <2>2, LeastIsMember
    <2>4. FirstPaying = streamIds[Min(paying)]
        BY DEF FirstPaying
    <2> HIDE DEF paying
    <2>5. Min(paying) \in DOMAIN streamIds /\ stream[streamIds[Min(paying)]].sharePpm # 0
        BY <2>3 DEF paying
    <2> QED BY <1>1, <2>4, <2>5
<1> HIDE DEF part, share, all, d
<1> DEFINE total == SumFunction(part)
<1>10. total \in Nat
    BY <1>1, <1>4, SumUpdate
<1>11. total * d <= received * d /\ received * d <= total * d + n * (d - 1)
    <2>1. n \in Nat
        BY <1>1
    <2> QED BY ONLY received \in Nat, <1>2, <1>4, <1>5, <1>6, <2>1, RoundedParts
<1> HIDE DEF total
<1>12. total <= received
    BY <1>2, <1>10, <1>11, FactorsCancel
<1>13. received - total < n
    <2> DEFINE dust == received - total
    <2>1. dust \in Nat
        BY <1>10, <1>12
    <2>2. dust * d = received * d - total * d /\ n * (d - 1) = n * d - n
        BY <1>1, <1>2, <1>10
    <2>3. dust * d \in Nat /\ received * d \in Nat /\ total * d \in Nat /\ n * d \in Nat
        BY <1>1, <1>2, <1>10, <2>1, ProductIsNat
    <2> HIDE DEF dust
    <2>4. dust * d < n * d
        BY <1>1, <1>11, <2>2, <2>3
    <2>5. dust < n
        BY <1>1, <1>2, <2>1, <2>4, FactorsCancel
    <2> QED BY <2>5 DEF dust
<1> QED BY <1>1, <1>3, <1>7, <1>8, <1>9, <1>10, <1>12, <1>13 DEF total, all, n

LEMMA CollectKeepsFees ==
    ASSUME FeeInv, NEW received \in Nat, CollectFee(received)
    PROVE  FeeInv' /\ FairStep
<1> DEFINE parts == Total(streamIds, LAMBDA id : Portion(received, id))
           dust == received - parts
           rest(id) == IF id = FirstPaying THEN dust ELSE 0
           n == Len(streamIds)
           credited(id) == [stream[id] EXCEPT
                              !.accrued = stream[id].accrued + (Portion(received, id) + rest(id))]
<1>1. /\ streamIds # <<>>
      /\ held' = held + received /\ totalAccrued' = totalAccrued + received
      /\ stream' = [id \in StreamIds |->
                       IF stream[id].sharePpm = 0 THEN stream[id] ELSE credited(id)]
      /\ UNCHANGED streamConfig
    BY DEF CollectFee
<1>2. /\ parts = SumFunction([id \in StreamIds |-> Portion(received, id)])
      /\ parts \in Nat /\ parts <= received /\ dust < n
      /\ FirstPaying \in StreamIds /\ stream[FirstPaying].sharePpm # 0
      /\ n \in Nat \ {0}
      /\ \A id \in StreamIds : /\ Portion(received, id) \in Nat
                               /\ stream[id].sharePpm = 0 => Portion(received, id) = 0
    BY <1>1, CollectionSplits
<1> HIDE DEF parts, n
<1>3. dust \in Nat /\ received = parts + dust
    BY <1>2
<1> HIDE DEF dust
<1>4. ASSUME NEW id \in StreamIds
      PROVE  /\ stream'[id] \in StreamType
             /\ stream'[id].exists = stream[id].exists
             /\ stream'[id].sharePpm = stream[id].sharePpm
             /\ ~stream[id].exists => stream'[id] = stream[id]
             /\ stream'[id].accrued
                  = stream[id].accrued + (Portion(received, id) + rest(id))
    <2>1. /\ stream[id] \in StreamType /\ stream[id].accrued \in Nat
          /\ Portion(received, id) \in Nat /\ rest(id) \in Nat
          /\ stream'[id] = IF stream[id].sharePpm = 0 THEN stream[id] ELSE credited(id)
        BY <1>1, <1>2, <1>3, FeeTypes
    <2>2. CASE stream[id].sharePpm = 0
        <3>1. Portion(received, id) = 0 /\ rest(id) = 0
            BY <1>2, <2>2
        <3> QED BY <2>1, <2>2, <3>1
    <2>3. CASE stream[id].sharePpm # 0
        <3> DEFINE s == stream[id]
                   more == Portion(received, id) + rest(id)
                   p == [s EXCEPT !.accrued = s.accrued + more]
        <3>1. s.exists
            BY <2>3, FeeTypes DEF NoStream
        <3>2. stream'[id] = p /\ s \in StreamType /\ s.accrued + more \in Nat
            BY <2>1, <2>3
        <3> HIDE DEF s, more
        <3>3. /\ p \in StreamType /\ p.exists = s.exists /\ p.sharePpm = s.sharePpm
              /\ p.accrued = s.accrued + more
            BY <3>2 DEF StreamType
        <3> QED BY <3>1, <3>2, <3>3 DEF s, more
    <2> QED BY <2>2, <2>3
<1>5. AccruedSum' = AccruedSum + received
    <2> DEFINE f == [id \in StreamIds |-> stream[id].accrued]
               p == [id \in StreamIds |-> Portion(received, id)]
               r == [id \in StreamIds |-> rest(id)]
               z == [id \in StreamIds |-> 0]
               m == [id \in StreamIds |-> p[id] + r[id]]
               h == [id \in StreamIds |-> stream'[id].accrued]
    <2>1. IsFiniteSet(StreamIds)
        BY FeeTypes
    <2>2. /\ \A id \in StreamIds : /\ stream[id].accrued \in Nat
                                   /\ Portion(received, id) \in Nat /\ rest(id) \in Nat
          /\ FirstPaying \in StreamIds /\ rest(FirstPaying) = dust
        BY <1>2, <1>3, FeeTypes
    <2> HIDE DEF rest
    <2>3. /\ f \in [StreamIds -> Nat] /\ p \in [StreamIds -> Nat] /\ r \in [StreamIds -> Nat]
           /\ z \in [StreamIds -> Nat]
           /\ \A id \in StreamIds : z[id] = 0
        BY <2>2
    <2>4. m \in [StreamIds -> Nat] /\ \A id \in StreamIds : m[id] = p[id] + r[id]
        BY <2>3
    <2>5. h \in [StreamIds -> Nat] /\ \A id \in StreamIds : h[id] = f[id] + m[id]
        <3>1. ASSUME NEW id \in StreamIds
              PROVE  h[id] = f[id] + m[id] /\ f[id] \in Nat /\ m[id] \in Nat
            <4>1. stream'[id].accrued = stream[id].accrued + (Portion(received, id) + rest(id))
                BY <1>4 DEF rest
            <4> QED BY <2>2, <4>1
        <3> QED BY <3>1
    <2>6. \A id \in StreamIds \ {FirstPaying} : r[id] = z[id]
        BY DEF rest
    <2>7. r[FirstPaying] = dust /\ FirstPaying \in StreamIds
        BY <2>2
    <2>8. SumFunction(p) = parts
        BY <1>2
    <2> HIDE DEF f, p, r, z, m, h
    <2>9. SumFunction(z) = 0
        BY ONLY <2>1, <2>3, SumUpdate
    <2>10. SumFunction(r) = SumFunction(z) - z[FirstPaying] + r[FirstPaying]
        BY ONLY <2>1, <2>3, <2>6, <2>7, SumChange
    <2>11. SumFunction(r) = dust
        BY <1>3, <2>9, <2>10, <2>3, <2>7
    <2>12. SumFunction(m) = SumFunction(p) + SumFunction(r)
        BY ONLY <2>1, <2>3, <2>4, SumPlus
    <2>13. SumFunction(h) = SumFunction(f) + SumFunction(m)
        BY ONLY <2>1, <2>3, <2>4, <2>5, SumPlus
    <2>14. SumFunction(h) = SumFunction(f) + received
        BY <1>3, <2>8, <2>11, <2>12, <2>13
    <2> QED BY <2>14 DEF f, h, AccruedSum
<1>6. StreamsIndexed'
    <2>1. FeeTypeOK'
        <3>1. stream' \in [StreamIds -> StreamType]
            BY <1>1, <1>4
        <3> QED BY <1>1, <3>1, FeeTypes DEF FeeTypeOK, streamConfig
    <2>2. IsIndexed(streamIds, streamIndex)'
        BY <1>1, FeeTypes DEF streamConfig
    <2>3. \A id \in StreamIds : stream'[id].exists <=> streamIndex'[id] # 0
        BY <1>1, <1>4, FeeTypes DEF streamConfig
    <2>4. SharesComplete(streamIds, stream)'
        <3>1. \A k \in DOMAIN streamIds :
                 stream'[streamIds[k]].sharePpm = stream[streamIds[k]].sharePpm
            BY <1>4, FeeTypes
        <3>2. SharesComplete(streamIds, stream') <=> SharesComplete(streamIds, stream)
            BY <3>1 DEF SharesComplete, Total
        <3>3. streamIds' = streamIds
            BY <1>1 DEF streamConfig
        <3>4. SharesComplete(streamIds, stream)
            BY <1>1 DEF FeeInv, StreamsIndexed
        <3>5. (SharesComplete(streamIds, stream))' <=> SharesComplete(streamIds, stream')
            BY <3>3 DEF SharesComplete, Total
        <3> QED BY <3>2, <3>4, <3>5
    <2> QED BY <2>1, <2>2, <2>3, <2>4 DEF StreamsIndexed
<1>7. Zeroed(stream)'
    BY <1>4, FeeTypes DEF Zeroed
<1>8. totalAccrued' <= held' /\ AccruedSum' = totalAccrued'
    BY <1>1, <1>5, FeeTypes DEF FeeInv
<1>9. FairStep
    <2>1. held' - held = received
        BY <1>1, FeeTypes
    <2>2. ASSUME NEW id \in StreamIds
          PROVE  LET got == stream'[id].accrued - stream[id].accrued
                     due == ((held' - held) * stream[id].sharePpm) \div PPM_DENOMINATOR
                 IN  ~(got < 0) /\ due <= got /\ got < due + Len(streamIds)
        <3> DEFINE q == Portion(received, id)
        <3>1. ((held' - held) * stream[id].sharePpm) \div PPM_DENOMINATOR = q
            BY <2>1 DEF Portion
        <3> HIDE DEF q
        <3>2. stream'[id].accrued = stream[id].accrued + (q + rest(id))
            BY <1>4 DEF q
        <3>3. stream[id].accrued \in Nat /\ q \in Nat
            BY <1>2, FeeTypes DEF q
        <3>4. rest(id) \in Nat /\ rest(id) < n
            <4>1. dust < n /\ n \in Nat \ {0}
                BY <1>2
            <4>2. 0 < n
                BY ONLY <4>1
            <4> QED BY <1>3, <4>1, <4>2
        <3>5. stream'[id].accrued - stream[id].accrued = q + rest(id)
            BY <3>2, <3>3, <3>4
        <3>6. n \in Nat /\ n = Len(streamIds)
            BY <1>2 DEF n
        <3> QED BY <3>1, <3>3, <3>4, <3>5, <3>6
    <2> QED BY <2>2 DEF FairStep
<1> QED BY <1>6, <1>7, <1>8, <1>9 DEF FeeInv

LEMMA FeeNextInv ==
    ASSUME FeeInv, [FeeNext]_allFeeVars
    PROVE  FeeInv' /\ FairStep
<1>1. 0..MaxHeld \subseteq Nat /\ 1..MaxHeld \subseteq Nat
    BY FeeAssumption
<1>2. ASSUME NEW batch \in Batches, ConfigureStreams(batch)
      PROVE  FeeInv' /\ FairStep
    BY <1>2, ConfigureKeepsFees
<1>3. ASSUME NEW id \in StreamIds, RemoveStream(id)
      PROVE  FeeInv' /\ FairStep
    BY <1>3, RemoveKeepsFees
<1>4. ASSUME NEW received \in 0..MaxHeld, CollectFee(received)
      PROVE  FeeInv' /\ FairStep
    BY <1>1, <1>4, CollectKeepsFees
<1>5. ASSUME NEW id \in StreamIds, WithdrawStream(id)
      PROVE  FeeInv' /\ FairStep
    BY <1>5, FeeTypes, PayKeepsFees DEF WithdrawStream
<1>6. ASSUME NEW s \in Recipients, NEW id \in StreamIds, NEW amount \in 1..MaxHeld,
             WithdrawTo(s, id, amount)
      PROVE  FeeInv' /\ FairStep
    BY <1>1, <1>6, PayKeepsFees DEF WithdrawTo
<1>7. ASSUME NEW amount \in 1..MaxHeld, BridgeToPaymaster(amount)
      PROVE  FeeInv' /\ FairStep
    BY <1>1, <1>7, FeeAssumption, PayKeepsFees DEF BridgeToPaymaster
<1>8. CASE DonateFees \/ UNCHANGED allFeeVars
    <2>1. /\ UNCHANGED <<streamIds, streamIndex, stream, totalAccrued>>
          /\ held' \in Nat /\ held' >= held
        BY <1>8, FeeTypes DEF DonateFees, allFeeVars, streamConfig
    <2>2. StreamsIndexed' /\ Zeroed(stream)'
        BY <2>1 DEF FeeInv, StreamsIndexed, FeeTypeOK, Zeroed, IsIndexed, SharesComplete, Total
    <2> QED BY <2>1, <2>2, NothingAccrues
<1> QED BY <1>2, <1>3, <1>4, <1>5, <1>6, <1>7, <1>8 DEF FeeNext

\* The array of streams, their positions and their flags agree, and the shares are
\* complete (configureStreams, removeStream), for any batches and any streams.
THEOREM StreamsKept == FeeSpec => []StreamsIndexed
<1>1. FeeInv /\ [FeeNext]_allFeeVars => FeeInv'
    BY FeeNextInv
<1>2. FeeInv => StreamsIndexed
    BY DEF FeeInv
<1> QED BY FeeInitInv, <1>1, <1>2, PTL DEF FeeSpec

\* The streams' accrued amounts are the total, and the collector holds it, for any
\* shares, collections and payouts.
THEOREM FeesBacked == FeeSpec => []AccruedIsBacked
<1>1. FeeInv /\ [FeeNext]_allFeeVars => FeeInv'
    BY FeeNextInv
<1> QED BY FeeInitInv, FeeInvBacks, <1>1, PTL DEF FeeSpec

\* A collection credits every stream its share, rounded down, plus less than a unit per
\* stream; an amount goes down only by what is paid out for it.
THEOREM FeesFair == FeeSpec => AccrualsAreFair
<1>1. FeeInv /\ [FeeNext]_allFeeVars => FeeInv'
    BY FeeNextInv
<1>2. FeeInv /\ [FeeNext]_allFeeVars =>
        [\A id \in StreamIds :
          LET got == stream'[id].accrued - stream[id].accrued
              due == ((held' - held) * stream[id].sharePpm) \div PPM_DENOMINATOR
          IN  /\ got < 0 => /\ held - held' = -got
                            /\ \A other \in StreamIds \ {id} : stream'[other] = stream[other]
              /\ totalAccrued' > totalAccrued
                   => due <= got /\ got < due + Len(streamIds)]_allFeeVars
    BY FeeNextInv DEF FairStep
<1> QED BY FeeInitInv, <1>1, <1>2, PTL DEF FeeSpec, AccrualsAreFair

-------------------------------------------------------------------------------
(* All of them together *)

allCustodyVars == <<subject, now, allVaultVars, allFeeVars, allEngineVars, swapVars,
                    v2Vars, v3Vars, venueVars>>

CustodyInv ==
    /\ VaultInv /\ EngineInv /\ FeeInv
    /\ SwapInv /\ DeskInv
    /\ V2Inv /\ DexInv /\ VenueInv

LEMMA CustodyInitInv == MCInit => CustodyInv
BY VaultInitInv, EngineInitInv, FeeInitInv, SwapInitInv, DeskInitInv, V2InitInv,
   DexInitInv, VenueInitInv
   DEF MCInit, CustodyInv

\* A step is one of a single contract, or of the vault, the adapters and the exchanges
\* they go to; the others stutter.
LEMMA StepOfOne ==
    ASSUME [MCNext]_allCustodyVars
    PROVE  /\ [VaultNext]_allVaultVars
           /\ [FeeNext]_allFeeVars
           /\ [EngineNext]_allEngineVars
           /\ [SwapNext]_<<now, swapVars>>
           /\ VenueNext \/ UNCHANGED <<v2Vars, v3Vars, venueVars>>
<1>1. CASE UNCHANGED allCustodyVars
    BY <1>1 DEF allCustodyVars
<1>2. CASE Of("vault") /\ VaultNext
    BY <1>2 DEF Of
<1>3. CASE Of("fees") /\ FeeNext
    BY <1>3 DEF Of
<1>4. CASE Of("engine") /\ EngineNext
    BY <1>4 DEF Of
<1>5. CASE Of("desk") /\ SwapNext
    BY <1>5 DEF Of
<1>6. CASE (Of("v2") \/ Of("v3") \/ Of("lending")) /\ VenueNext
    BY <1>6 DEF Of
<1> QED BY <1>1, <1>2, <1>3, <1>4, <1>5, <1>6 DEF MCNext

LEMMA CustodyNextInv ==
    ASSUME CustodyInv, [MCNext]_allCustodyVars
    PROVE  CustodyInv' /\ WorthKept /\ ShareKeepsValue /\ FairStep
<1> USE DEF CustodyInv
<1>1. VaultInv' /\ WorthKept
    BY StepOfOne, VaultNextInv
<1>2. FeeInv' /\ FairStep
    BY StepOfOne, FeeNextInv
<1>3. EngineInv'
    BY StepOfOne, EngineNextInv
<1>4. SwapInv' /\ DeskInv'
    BY StepOfOne, SwapNextInv, DeskNextInv
<1>5. VenueInv' /\ V2Inv' /\ DexInv' /\ ShareKeepsValue
    BY StepOfOne, VenueNextInv
<1> QED BY <1>1, <1>2, <1>3, <1>4, <1>5

LEMMA CustodyInvariant == MCSpec => []CustodyInv
<1>1. CustodyInv /\ [MCNext]_allCustodyVars => CustodyInv'
    BY CustodyNextInv
<1> QED BY CustodyInitInv, <1>1, PTL DEF MCSpec, allCustodyVars

\* What the books of each contract promise, it holds, and the adapters between a vault
\* and a venue keep nothing, for any numbers of everybody and any amounts.
THEOREM CustodyBacked == MCSpec => []BooksAreBacked
<1>1. CustodyInv => BooksAreBacked
    BY FeeInvBacks, DexInvBacks, VenueInvKeepsNothing
       DEF CustodyInv, BooksAreBacked, VaultInv, EngineInv, DeskInv, V2Inv
<1> QED BY CustodyInvariant, <1>1, PTL

\* What a contract's own theorem says holds of it among the others.
THEOREM CustodyInvariants ==
    MCSpec => []StreamsIndexed /\ []MarginProtects /\ []SignedOnce
<1>1. CustodyInv => StreamsIndexed /\ MarginProtects /\ SignedOnce
    <2>1. FeeInv => StreamsIndexed
        BY DEF FeeInv
    <2>2. SwapInv => SignedOnce
        BY SwapInvSignsOnce
    <2> QED BY <2>1, <2>2, EngineInvProtects DEF CustodyInv
<1> QED BY CustodyInvariant, <1>1, PTL

\* Nobody is diluted, in the vault or in the exchange, by any trade of anybody.
THEOREM CustodyValueKept == MCSpec => SharesKeepTheirValue
<1>1. CustodyInv /\ [MCNext]_allCustodyVars =>
        [shares' # shares =>
           (totalAssets' + 1) * (totalSupply + 1)
             >= (totalAssets + 1) * (totalSupply' + 1)]_allVaultVars
    BY CustodyNextInv DEF WorthKept
<1>2. CustodyInv /\ [MCNext]_allCustodyVars =>
        [totalLp > 0 =>
           v2Reserve'[0] * v2Reserve'[1] * totalLp * totalLp
             >= v2Reserve[0] * v2Reserve[1] * totalLp' * totalLp']_v2Vars
    BY CustodyNextInv DEF ShareKeepsValue
<1>3. MCSpec => [][MCNext]_allCustodyVars
    BY PTL DEF MCSpec, allCustodyVars
<1> QED BY CustodyInvariant, <1>1, <1>2, <1>3, PTL
        DEF SharesKeepTheirValue, SharesKeepValue, LpKeepsValue

\* A fee collection is fair among the others too.
THEOREM CustodyFeesFair == MCSpec => AccrualsAreFair
<1>1. CustodyInv /\ [MCNext]_allCustodyVars =>
        [\A id \in StreamIds :
          LET got == stream'[id].accrued - stream[id].accrued
              due == ((held' - held) * stream[id].sharePpm) \div PPM_DENOMINATOR
          IN  /\ got < 0 => /\ held - held' = -got
                            /\ \A other \in StreamIds \ {id} : stream'[other] = stream[other]
              /\ totalAccrued' > totalAccrued
                   => due <= got /\ got < due + Len(streamIds)]_allFeeVars
    BY CustodyNextInv DEF FairStep
<1>2. MCSpec => [][MCNext]_allCustodyVars
    BY PTL DEF MCSpec, allCustodyVars
<1> QED BY CustodyInvariant, <1>1, <1>2, PTL DEF AccrualsAreFair
===============================================================================
