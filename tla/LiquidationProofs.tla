--------------------------- MODULE LiquidationProofs ---------------------------
(***************************************************************************)
(* Proofs about VaultLiquidation, for any assets, prices, parameters and   *)
(* bounty.  A zero reading says that every priced line is worth less than  *)
(* a unit, since a sum of naturals is not below a summand; and it says so  *)
(* of every asset the vault has collateral in, because the engine's list   *)
(* misses none.  The rest of the invariant is that only a seizure brings   *)
(* money to the keeper and the collector.                                  *)
(***************************************************************************)
EXTENDS VaultLiquidation, DataLemmas

\* The instances use the operators of the community modules under their own names.
LEMMA SameOperators ==
    /\ \A f : /\ M!SumFunction(f) = SumFunction(f)
              /\ F!SumFunction(f) = SumFunction(f)
              /\ V!SumFunction(f) = SumFunction(f)
    /\ \A s : F!Max(s) = Max(s) /\ M!Max(s) = Max(s)
<1>1. \A f : M!SumFunction(f) = SumFunction(f)
    BY DEF M!SumFunction, M!SumFunctionOnSet, M!FoldFunctionOnSet, M!MapThenFoldSet,
           SumFunction, SumFunctionOnSet, FoldFunctionOnSet, MapThenFoldSet
<1>2. \A f : F!SumFunction(f) = SumFunction(f)
    BY DEF F!SumFunction, F!SumFunctionOnSet, F!FoldFunctionOnSet, F!MapThenFoldSet,
           SumFunction, SumFunctionOnSet, FoldFunctionOnSet, MapThenFoldSet
<1>3. \A f : V!SumFunction(f) = SumFunction(f)
    BY DEF V!SumFunction, V!SumFunctionOnSet, V!FoldFunctionOnSet, V!MapThenFoldSet,
           SumFunction, SumFunctionOnSet, FoldFunctionOnSet, MapThenFoldSet
<1>4. \A s : F!Max(s) = Max(s) /\ M!Max(s) = Max(s)
    BY DEF F!Max, M!Max, Max
<1> QED BY <1>1, <1>2, <1>3, <1>4

LEMMA SameLists ==
    \A list, index, x :
        /\ F!PushedList(list, x) = PushedList(list, x)
        /\ F!PushedIndex(list, index, x) = PushedIndex(list, index, x)
        /\ F!PoppedList(list, index, x) = PoppedList(list, index, x)
        /\ F!PoppedIndex(list, index, x) = PoppedIndex(list, index, x)
BY DEF F!PushedList, PushedList, F!PushedIndex, PushedIndex,
       F!PoppedList, PoppedList, F!PoppedIndex, PoppedIndex

-------------------------------------------------------------------------------

EngineTyped ==
    /\ collateral \in [{Vault} -> [Assets -> Nat]]
    /\ notional \in [{Vault} -> [Assets -> Nat]]
    /\ vaultAssets \in [{Vault} -> SUBSET Assets]
    /\ IsFiniteSet(vaultAssets[Vault])
    /\ liqBps \in [Assets -> 0..BPS]
    /\ quote \in [Assets -> Prices \cup {Unreadable}]
    /\ \A a \in Assets :
          collateral[Vault][a] # 0 \/ notional[Vault][a] # 0 => a \in vaultAssets[Vault]

StreamType ==
    [exists : BOOLEAN, recipient : SUBSET {Recipient}, sharePpm : Nat, accrued : Int]

FeeTyped ==
    /\ streamIds \in Seq({Stream})
    /\ streamIndex \in [{Stream} -> Nat]
    /\ IsIndexed(streamIds, streamIndex)
    /\ stream \in [{Stream} -> StreamType]
    /\ stream[Stream].exists <=> streamIndex[Stream] # 0

LiquidationInv ==
    /\ {base, bounty, held} \subseteq Nat
    /\ shares \in [Users -> Nat]
    /\ EngineTyped
    /\ FeeTyped

LEMMA LiquidationInitInv == Init => LiquidationInv
<1> SUFFICES ASSUME Init PROVE LiquidationInv
    OBVIOUS
<1>1. EngineTyped
    BY FS_EmptySet, LiquidationAssumption DEF Init, M!EngineInit, EngineTyped
<1>2. FeeTyped
    BY DEF Init, F!FeeInit, F!NoStream, FeeTyped, IsIndexed, StreamType
<1> QED BY <1>1, <1>2 DEF Init, F!FeeInit, LiquidationInv

-------------------------------------------------------------------------------
(* The engine *)

\* An amount of one asset changes.
LEMMA OneAmountMoves ==
    ASSUME NEW f \in [{Vault} -> [Assets -> Nat]], NEW a \in Assets,
           NEW n \in Nat, NEW g, g = [f EXCEPT ![Vault][a] = n]
    PROVE  /\ g \in [{Vault} -> [Assets -> Nat]]
           /\ g[Vault][a] = n
           /\ \A b \in Assets \ {a} : g[Vault][b] = f[Vault][b]
<1>1. [f[Vault] EXCEPT ![a] = n] \in [Assets -> Nat]
    OBVIOUS
<1>2. g = [f EXCEPT ![Vault] = [f[Vault] EXCEPT ![a] = n]]
    OBVIOUS
<1> QED BY <1>1, <1>2

LEMMA EngineKeepsList ==
    ASSUME EngineTyped, M!EngineNext
    PROVE  EngineTyped'
<1> USE DEF EngineTyped
<1>1. 0..MaxAmount \subseteq Nat
    BY LiquidationAssumption
<1>2. ASSUME NEW a \in Assets, M!Listed(Vault, a)
      PROVE  /\ vaultAssets' \in [{Vault} -> SUBSET Assets]
             /\ IsFiniteSet(vaultAssets'[Vault])
             /\ vaultAssets[Vault] \subseteq vaultAssets'[Vault]
             /\ a \in vaultAssets'[Vault]
    <2>1. vaultAssets' = [vaultAssets EXCEPT ![Vault] = vaultAssets[Vault] \cup {a}]
        BY <1>2 DEF M!Listed
    <2>2. IsFiniteSet(vaultAssets[Vault] \cup {a})
        BY FS_AddElement
    <2> QED BY <2>1, <2>2
<1>3. ASSUME NEW v \in {Vault}, NEW a \in Assets, NEW n \in 0..MaxAmount,
             M!PushCollateral(v, a, n)
      PROVE  EngineTyped'
    <2>1. /\ collateral' = [collateral EXCEPT ![Vault][a] = collateral[Vault][a] + n]
          /\ M!Listed(Vault, a) /\ UNCHANGED <<notional, liqBps, quote>>
        BY <1>3 DEF M!PushCollateral, M!params
    <2>2. collateral[Vault][a] + n \in Nat
        BY <1>1
    <2>3. /\ collateral' \in [{Vault} -> [Assets -> Nat]]
          /\ \A b \in Assets \ {a} : collateral'[Vault][b] = collateral[Vault][b]
        BY <2>1, <2>2, OneAmountMoves
    <2> QED BY <1>2, <2>1, <2>3
<1>4. ASSUME NEW v \in {Vault}, NEW a \in Assets, NEW n \in 0..MaxAmount,
             M!PullCollateral(v, a, n)
      PROVE  EngineTyped'
    <2>1. /\ collateral' = [collateral EXCEPT ![Vault][a] = collateral[Vault][a] - n]
          /\ n <= collateral[Vault][a]
          /\ UNCHANGED <<notional, vaultAssets, liqBps, quote>>
        BY <1>4 DEF M!PullCollateral, M!params
    <2>2. /\ collateral[Vault][a] - n \in Nat
          /\ collateral[Vault][a] = 0 => collateral[Vault][a] - n = 0
        BY <1>1, <2>1
    <2>3. /\ collateral' \in [{Vault} -> [Assets -> Nat]]
          /\ collateral'[Vault][a] # 0 => collateral[Vault][a] # 0
          /\ \A b \in Assets \ {a} : collateral'[Vault][b] = collateral[Vault][b]
        BY <2>1, <2>2, OneAmountMoves
    <2> QED BY <2>1, <2>3
<1>5. ASSUME NEW v \in {Vault}, NEW a \in Assets, NEW n \in 0..MaxAmount,
             M!SetPositionNotional(v, a, n)
      PROVE  EngineTyped'
    <2>1. /\ notional' = [notional EXCEPT ![Vault][a] = n]
          /\ M!Listed(Vault, a) /\ UNCHANGED <<collateral, liqBps, quote>>
        BY <1>5 DEF M!SetPositionNotional, M!params
    <2>2. /\ notional' \in [{Vault} -> [Assets -> Nat]]
          /\ \A b \in Assets \ {a} : notional'[Vault][b] = notional[Vault][b]
        BY <1>1, <2>1, OneAmountMoves
    <2> QED BY <1>2, <2>1, <2>2
<1>6. ASSUME NEW a \in Assets, NEW initial \in Margins, NEW liq \in Margins,
             M!SetMarginParams(a, initial, liq)
      PROVE  EngineTyped'
    BY <1>6, LiquidationAssumption DEF M!SetMarginParams
<1>7. ASSUME M!QuotesMove PROVE EngineTyped'
    BY <1>7 DEF M!QuotesMove, M!params
<1> QED BY <1>3, <1>4, <1>5, <1>6, <1>7 DEF M!EngineNext

\* A reading is a sum of naturals over all that the vault has posted, so that none of
\* it is unpriced, or worth more than the reading.
LEMMA ReadingCoversAll ==
    ASSUME EngineTyped, M!netCollateralUsd(Vault) # Unreadable
    PROVE  /\ M!netCollateralUsd(Vault) \in Nat
           /\ \A a \in Assets : collateral[Vault][a] > 0 =>
                 /\ quote[a] # Unreadable
                 /\ M!netCollateralUsd(Vault) = 0
                       => collateral[Vault][a] * quote[a] < Q96_ONE
<1> USE DEF EngineTyped
<1> DEFINE Worth(b) == (collateral[Vault][b] * quote[b]) \div Q96_ONE
           lines == M!Held(Vault)
           worth == [b \in lines |-> Worth(b)]
<1>1. /\ lines \subseteq Assets /\ IsFiniteSet(lines)
      /\ \A a \in Assets : collateral[Vault][a] > 0 => a \in lines
    <2>1. lines \in SUBSET vaultAssets[Vault]
        BY DEF M!Held
    <2>2. \A a \in Assets :
             collateral[Vault][a] > 0 => a \in vaultAssets[Vault] /\ collateral[Vault][a] # 0
        OBVIOUS
    <2> QED BY <2>1, <2>2, FS_Subset DEF M!Held
<1>2. \A b \in lines : quote[b] # Unreadable
    BY DEF M!netCollateralUsd
<1>3. M!netCollateralUsd(Vault) = SumFunction(worth)
    <2>1. M!netCollateralUsd(Vault) = M!SumFunction(worth)
        BY <1>2 DEF M!netCollateralUsd
    <2> QED BY <2>1, SameOperators
<1>4. ASSUME NEW b \in lines
      PROVE  /\ collateral[Vault][b] * quote[b] \in Nat
             /\ Worth(b) \in Nat
             /\ collateral[Vault][b] * quote[b] < Worth(b) * Q96_ONE + Q96_ONE
    <2>1. collateral[Vault][b] \in Nat
        BY <1>1
    <2>2. quote[b] \in Nat
        <3>1. b \in Assets /\ quote[b] # Unreadable /\ quote[b] \in Prices \cup {Unreadable}
            BY <1>1, <1>2
        <3> QED BY ONLY <3>1, LiquidationAssumption
    <2>3. collateral[Vault][b] * quote[b] \in Nat
        BY <2>1, <2>2, ProductIsNat
    <2> QED BY <2>3, LiquidationAssumption, Quotient
<1> HIDE DEF lines
<1>5. worth \in [lines -> Nat] /\ \A b \in lines : worth[b] = Worth(b)
    BY <1>1, <1>4
<1> HIDE DEF worth
<1>6. SumFunction(worth) \in Nat /\ \A b \in lines : Worth(b) <= SumFunction(worth)
    BY <1>1, <1>5, SumUpdate
<1>7. ASSUME NEW a \in Assets, collateral[Vault][a] > 0
      PROVE  /\ quote[a] # Unreadable
             /\ M!netCollateralUsd(Vault) = 0 => collateral[Vault][a] * quote[a] < Q96_ONE
    <2>1. a \in lines
        BY <1>1, <1>7
    <2>2. ASSUME M!netCollateralUsd(Vault) = 0
          PROVE  collateral[Vault][a] * quote[a] < Q96_ONE
        <3>1. Worth(a) \in Nat /\ Worth(a) <= 0
            BY <1>3, <1>4, <1>6, <2>1, <2>2
        <3>2. Worth(a) = 0
            BY <3>1
        <3> QED BY <1>4, <2>1, <3>2, LiquidationAssumption
    <2> QED BY <1>2, <2>1, <2>2
<1> QED BY <1>3, <1>6, <1>7

\* A position of which at least a unit must be maintained, with nothing to maintain it:
\* the sum of the positions is no less than it, nor is the highest threshold.
LEMMA PositionIsChecked ==
    ASSUME EngineTyped, M!netCollateralUsd(Vault) = 0,
           NEW a \in Assets, notional[Vault][a] * liqBps[a] >= BPS
    PROVE  M!liquidationCheck(Vault) = TRUE
<1> USE DEF EngineTyped
<1> DEFINE open == M!Open(Vault)
           size == [b \in open |-> notional[Vault][b]]
           total == SumFunction(size)
           thresholds == {0} \cup {liqBps[b] : b \in open}
           bps == Max(thresholds)
           needed == (total * bps) \div BPS
<1>1. BPS \in Nat \ {0} /\ notional[Vault] \in [Assets -> Nat]
    BY LiquidationAssumption
<1>2. /\ open \subseteq Assets /\ IsFiniteSet(open)
      /\ a \in open
    <2>1. open \in SUBSET vaultAssets[Vault]
        BY DEF M!Open
    <2>2. notional[Vault][a] # 0
        <3>1. liqBps[a] \in Nat
            BY <1>1
        <3>2. 0 * liqBps[a] = 0
            BY <3>1
        <3> QED BY <1>1, <3>2
    <2> QED BY <2>1, <2>2, FS_Subset DEF M!Open
<1>3. total \in Nat /\ notional[Vault][a] <= total
    <2>1. size \in [open -> Nat] /\ size[a] = notional[Vault][a]
        BY <1>1, <1>2
    <2> HIDE DEF size, open
    <2> QED BY <1>2, <2>1, SumUpdate
<1>4. bps \in Nat /\ liqBps[a] \in Nat /\ liqBps[a] <= bps
    <2>1. thresholds \in SUBSET (0..BPS) /\ 0 \in thresholds /\ liqBps[a] \in thresholds
        BY <1>1, <1>2
    <2> HIDE DEF thresholds
    <2>2. Max(thresholds) \in thresholds /\ \A y \in thresholds : Max(thresholds) >= y
        BY <1>1, <2>1, GreatestIsMember
    <2>3. 0..BPS \subseteq Nat
        BY <1>1
    <2>4. Max(thresholds) \in Nat /\ liqBps[a] \in Nat
        BY <2>1, <2>2, <2>3
    <2> QED BY <2>1, <2>2, <2>4
<1>5. total # 0 /\ 0 < needed => M!liquidationCheck(Vault) = TRUE
    <2>1. M!SumFunction(size) = total /\ M!Max(thresholds) = bps
        BY SameOperators
    <2>2. M!netCollateralUsd(Vault) # Unreadable
        BY LiquidationAssumption
    <2> QED BY <2>1, <2>2 DEF M!liquidationCheck
<1> HIDE DEF total, bps
<1>6. total * bps \in Nat /\ BPS <= total * bps
    <2>1. notional[Vault][a] \in Nat
        BY <1>1
    <2>2. /\ notional[Vault][a] * liqBps[a] <= total * bps
          /\ notional[Vault][a] * liqBps[a] \in Nat /\ total * bps \in Nat
        BY <1>3, <1>4, <2>1, ProductsGrow, ProductIsNat
    <2> QED BY <1>1, <2>2
<1>7. needed \in Nat /\ total * bps < needed * BPS + BPS
    BY <1>1, <1>6, Quotient
<1> HIDE DEF needed
<1>8. 0 < needed
    <2>1. needed # 0
        BY <1>1, <1>6, <1>7
    <2> QED BY <1>7, <2>1
<1>9. total # 0
    <2>1. 0 * bps = 0
        BY <1>4
    <2> QED BY <1>1, <1>6, <2>1
<1> QED BY <1>5, <1>8, <1>9

-------------------------------------------------------------------------------
(* The collector *)

\* A batch of one entry is that entry stored.
LEMMA WholeIsStored ==
    ASSUME NEW c
    PROVE  F!FoldLeft(F!Configured, c, Whole) = F!Configured(c, Whole[1])
<1> DEFINE Follows(g) == g = [s \in SUBSET DOMAIN Whole |->
                                 IF s = {} THEN c
                                 ELSE F!Configured(g[s \ {F!Max(s)}], Whole[F!Max(s)])]
           it == CHOOSE g : Follows(g)
           g0 == [s \in SUBSET {1} |-> IF s = {} THEN c ELSE F!Configured(c, Whole[1])]
<1>1. DOMAIN Whole = {1}
    BY DEF Whole
<1>2. F!Max({1}) = 1
    <2>1. 1 \in {1} /\ \A y \in {1} : 1 >= y
        OBVIOUS
    <2>2. \A x \in {1} : x = 1
        OBVIOUS
    <2> QED BY <2>1, <2>2 DEF F!Max
<1>3. SUBSET {1} = {{}, {1}} /\ {1} \ {1} = {} /\ {1} # {}
    OBVIOUS
<1>4. ASSUME NEW s \in SUBSET {1}
      PROVE  g0[s] = IF s = {} THEN c
                     ELSE F!Configured(g0[s \ {F!Max(s)}], Whole[F!Max(s)])
    <2>1. g0[{}] = c /\ g0[{1}] = F!Configured(c, Whole[1])
        BY <1>3
    <2> HIDE DEF g0
    <2>2. CASE s = {}
        BY <2>1, <2>2
    <2>3. CASE s = {1}
        BY <1>2, <1>3, <2>1, <2>3
    <2> QED BY <1>3, <2>2, <2>3
<1>5. Follows(g0)
    BY <1>1, <1>4
<1>6. Follows(it)
    BY <1>5
<1>7. F!FoldLeft(F!Configured, c, Whole) = it[DOMAIN Whole]
    BY DEF F!FoldLeft, F!MapThenFoldSet
<1> HIDE DEF it
<1>8. it[{}] = c
    BY <1>1, <1>3, <1>6
<1>9. it[{1}] = F!Configured(it[{1} \ {F!Max({1})}], Whole[F!Max({1})])
    BY <1>1, <1>3, <1>6
<1> QED BY <1>1, <1>2, <1>3, <1>7, <1>8, <1>9

LEMMA FeeStepKeepsTypes ==
    ASSUME FeeTyped, held \in Nat,
           \/ F!ConfigureStreams(Whole)
           \/ F!RemoveStream(Stream)
           \/ F!WithdrawStream(Stream)
    PROVE  FeeTyped' /\ held' \in Nat /\ held' <= held
<1> USE DEF FeeTyped
<1>1. /\ stream[Stream] \in StreamType
      /\ stream[Stream].accrued \in Int
    BY DEF StreamType
<1>2. CASE F!ConfigureStreams(Whole)
    <2> DEFINE c0 == [ids |-> streamIds, index |-> streamIndex, streams |-> stream]
               c == F!Configured(c0, Whole[1])
               stored == [stream[Stream] EXCEPT !.exists = TRUE, !.recipient = {Recipient},
                                                !.sharePpm = 1]
    <2>1. /\ streamIds' = c.ids /\ streamIndex' = c.index /\ stream' = c.streams
          /\ UNCHANGED held
        BY <1>2, WholeIsStored DEF F!ConfigureStreams
    <2>2. Whole[1] = [id |-> Stream, recipient |-> Recipient, sharePpm |-> 1]
        BY DEF Whole
    <2>3. /\ c.streams = [stream EXCEPT ![Stream] = stored]
          /\ c.ids = IF stream[Stream].exists THEN streamIds ELSE PushedList(streamIds, Stream)
          /\ c.index = IF stream[Stream].exists THEN streamIndex
                       ELSE PushedIndex(streamIds, streamIndex, Stream)
        BY <2>2, SameLists DEF F!Configured
    <2>4. stored \in StreamType /\ stored.exists
        BY <1>1 DEF StreamType
    <2> HIDE DEF c, stored
    <2>5. stream' \in [{Stream} -> StreamType] /\ stream'[Stream].exists
        BY <2>1, <2>3, <2>4
    <2>6. CASE stream[Stream].exists
        BY <2>1, <2>3, <2>5, <2>6
    <2>7. CASE ~stream[Stream].exists
        <3>1. /\ PushedList(streamIds, Stream) \in Seq({Stream})
              /\ PushedIndex(streamIds, streamIndex, Stream) \in [{Stream} -> Nat]
              /\ IsIndexed(PushedList(streamIds, Stream),
                           PushedIndex(streamIds, streamIndex, Stream))
            BY <2>7, PushKeepsIndex
        <3>2. PushedIndex(streamIds, streamIndex, Stream)[Stream] # 0
            BY DEF PushedIndex
        <3> QED BY <2>1, <2>3, <2>5, <2>7, <3>1, <3>2
    <2> QED BY <2>6, <2>7
<1>3. CASE F!RemoveStream(Stream)
    <2>1. /\ streamIds' = PoppedList(streamIds, streamIndex, Stream)
          /\ streamIndex' = PoppedIndex(streamIds, streamIndex, Stream)
          /\ stream' = [stream EXCEPT ![Stream] = F!NoStream]
          /\ stream[Stream].exists /\ UNCHANGED held
        BY <1>3, SameLists DEF F!RemoveStream, F!Removed
    <2>2. /\ PoppedList(streamIds, streamIndex, Stream) \in Seq({Stream})
          /\ PoppedIndex(streamIds, streamIndex, Stream) \in [{Stream} -> Nat]
          /\ IsIndexed(PoppedList(streamIds, streamIndex, Stream),
                       PoppedIndex(streamIds, streamIndex, Stream))
        BY <2>1, PopKeepsIndex
    <2>3. PoppedIndex(streamIds, streamIndex, Stream)[Stream] = 0
        BY DEF PoppedIndex
    <2>4. F!NoStream \in StreamType /\ ~F!NoStream.exists
        BY DEF F!NoStream, StreamType
    <2> QED BY <2>1, <2>2, <2>3, <2>4
<1>4. CASE F!WithdrawStream(Stream)
    <2> DEFINE paid == stream[Stream].accrued
    <2>1. /\ paid > 0 /\ held >= paid /\ held' = held - paid
          /\ stream' = [stream EXCEPT ![Stream].accrued = paid - paid]
          /\ UNCHANGED <<streamIds, streamIndex>>
        BY <1>4 DEF F!WithdrawStream, F!Pay, F!Debit, F!streamConfig
    <2>2. /\ stream' \in [{Stream} -> StreamType]
          /\ stream'[Stream].exists = stream[Stream].exists
        BY <1>1, <2>1 DEF StreamType
    <2> QED BY <1>1, <2>1, <2>2
<1> QED BY <1>2, <1>3, <1>4

LEMMA CollectKeepsTypes ==
    ASSUME FeeTyped, held \in Nat, NEW received \in Nat, F!CollectFee(received)
    PROVE  FeeTyped' /\ held' = held + received
<1> USE DEF FeeTyped
<1> DEFINE part == [k \in DOMAIN streamIds |-> F!Portion(received, streamIds[k])]
           distributed == F!SumFunction(part)
           credit == F!Portion(received, Stream)
                       + (IF Stream = F!FirstPaying THEN received - distributed ELSE 0)
           old == stream[Stream]
           new == [old EXCEPT !.accrued = old.accrued + credit]
<1>1. old \in StreamType /\ old.accrued \in Int /\ old.sharePpm \in Nat
    BY DEF StreamType
<1>2. F!Portion(received, Stream) \in Nat
    <2>1. received * old.sharePpm \in Nat
        BY <1>1, ProductIsNat
    <2> QED BY <2>1, Quotient DEF F!Portion
<1>3. part \in [DOMAIN streamIds -> Nat] /\ IsFiniteSet(DOMAIN streamIds)
    <2>1. \A k \in DOMAIN streamIds : streamIds[k] = Stream
        OBVIOUS
    <2>2. PICK n \in Nat : DOMAIN streamIds = 1..n
        OBVIOUS
    <2>3. IsFiniteSet(1..n)
        BY FS_Interval
    <2> QED BY <1>2, <2>1, <2>2, <2>3
<1> HIDE DEF part
<1>4. distributed \in Nat
    BY <1>3, SameOperators, SumUpdate
<1>5. /\ stream' = [id \in {Stream} |-> IF old.sharePpm = 0 THEN old ELSE new]
      /\ held' = held + received
      /\ UNCHANGED <<streamIds, streamIndex>>
    <2>1. F!Total(streamIds, LAMBDA id : F!Portion(received, id)) = distributed
        BY DEF F!Total, part
    <2>2. /\ stream' = [id \in {Stream} |->
                         IF stream[id].sharePpm = 0 THEN stream[id]
                         ELSE [stream[id] EXCEPT !.accrued = @ +
                                 (F!Portion(received, id)
                                    + (IF id = F!FirstPaying THEN received - distributed ELSE 0))]]
          /\ held' = held + received
          /\ UNCHANGED <<streamIds, streamIndex>>
        BY <2>1 DEF F!CollectFee, F!streamConfig
    <2> HIDE DEF distributed
    <2> QED BY <2>2
<1> HIDE DEF distributed
<1>6. credit \in Int
    BY <1>2, <1>4
<1> HIDE DEF credit
<1>7. new \in StreamType /\ new.exists = old.exists
    BY <1>1, <1>6 DEF StreamType
<1> HIDE DEF new, old
<1>8. stream' \in [{Stream} -> StreamType] /\ stream'[Stream].exists = old.exists
    BY <1>1, <1>5, <1>7
<1> QED BY <1>5, <1>8 DEF old

-------------------------------------------------------------------------------
(* The vault *)

\* A division rounds up, by less than the divisor, and no further than to a whole bound.
LEMMA QuotientUp ==
    ASSUME NEW n \in Nat, NEW d \in Nat \ {0}
    PROVE  /\ V!DivUp(n, d) \in Nat
           /\ \A m \in Nat : n <= m * d => V!DivUp(n, d) <= m
<1> DEFINE q == (n + d - 1) \div d
<1>1. n + d - 1 \in Nat
    OBVIOUS
<1>2. q \in Nat /\ q * d <= n + d - 1
    BY <1>1, Quotient
<1>3. V!DivUp(n, d) = q
    BY DEF V!DivUp
<1> HIDE DEF q
<1>4. ASSUME NEW m \in Nat, n <= m * d
      PROVE  q <= m
    <2>1. (m + 1) * d = m * d + d /\ m * d \in Nat /\ q * d \in Nat
        BY <1>2, ProductIsNat
    <2>2. q * d < (m + 1) * d
        BY <1>2, <1>4, <2>1
    <2>3. q < m + 1
        BY <1>2, <2>2, FactorsCancel
    <2> QED BY <1>2, <2>3
<1> QED BY <1>2, <1>3, <1>4

\* The values a share is priced by are naturals.
LEMMA VaultWorth ==
    ASSUME LiquidationInv
    PROVE  V!totalAssets \in Nat /\ V!totalSupply \in Nat
<1> USE DEF LiquidationInv
<1>1. V!EngineValue \in Nat
    BY ReadingCoversAll, LiquidationAssumption, Quotient DEF V!EngineValue
<1>2. V!totalSupply \in Nat
    <2>1. V!SumFunction(shares) = SumFunction(shares)
        BY SameOperators
    <2> QED BY <2>1, LiquidationAssumption, SumUpdate DEF V!totalSupply
<1> QED BY <1>1, <1>2 DEF V!totalAssets

LEMMA TradesKeepTypes ==
    ASSUME LiquidationInv, NEW u \in Users, NEW n \in Nat, Deposit(u, n) \/ Withdraw(u, n)
    PROVE  base' \in Nat /\ shares' \in [Users -> Nat]
<1> DEFINE ta == V!totalAssets + 1
           ts == V!totalSupply + 1
<1>1. ta \in Nat \ {0} /\ n * ts \in Nat
    BY VaultWorth, ProductIsNat
<1>2. V!ToShares(n) \in Nat
    BY <1>1, Quotient DEF V!ToShares
<1>3. V!ToSharesUp(n) \in Nat
    BY <1>1, QuotientUp DEF V!ToSharesUp
<1>4. base \in Nat /\ shares \in [Users -> Nat]
    BY DEF LiquidationInv
<1>5. CASE Deposit(u, n)
    BY <1>2, <1>4, <1>5 DEF Deposit, V!Deposit, V!Enter
<1>6. CASE Withdraw(u, n)
    <2>1. /\ V!ToSharesUp(n) <= shares[u] /\ n <= base
          /\ base' = base - n
          /\ shares' = [shares EXCEPT ![u] = shares[u] - V!ToSharesUp(n)]
        BY <1>6 DEF Withdraw, V!Withdraw, V!Leave
    <2>2. shares[u] - V!ToSharesUp(n) \in Nat
        BY <1>3, <1>4, <2>1
    <2> QED BY <1>4, <2>1, <2>2
<1> QED BY <1>5, <1>6

\* What maxWithdraw promises, or less, costs no more shares than the owner has, although
\* the promise is rounded down and the price up.
LEMMA PromiseIsAffordable ==
    ASSUME LiquidationInv, NEW u \in Users, NEW n \in Nat, n <= V!maxWithdraw(u)
    PROVE  V!ToSharesUp(n) \in Nat /\ V!ToSharesUp(n) <= shares[u]
<1> DEFINE ta == V!totalAssets + 1
           ts == V!totalSupply + 1
           m == (shares[u] * ta) \div ts
<1>1. /\ ta \in Nat \ {0} /\ ts \in Nat \ {0} /\ shares[u] \in Nat
      /\ shares[u] * ta \in Nat
    BY VaultWorth, ProductIsNat DEF LiquidationInv
<1>2. m \in Nat /\ m * ts <= shares[u] * ta
    BY <1>1, Quotient
<1>3. /\ V!maxWithdraw(u) = m
      /\ V!ToSharesUp(n) = V!DivUp(n * ts, ta)
    BY DEF V!maxWithdraw, V!ToAssets, V!ToSharesUp
<1> HIDE DEF m, ta, ts
<1>4. n * ts \in Nat /\ m * ts \in Nat /\ n * ts <= m * ts
    BY <1>1, <1>2, <1>3, ProductIsNat, ProductsGrow
<1>5. n * ts <= shares[u] * ta
    BY <1>1, <1>2, <1>4
<1> QED BY <1>1, <1>3, <1>4, <1>5, QuotientUp

\* The withdrawal of n by u, with the values b and s that it leaves.
WithdrawTo(u, n, b, s) ==
    /\ n <= V!maxWithdraw(u) /\ V!ToSharesUp(n) <= shares[u] /\ n <= base
    /\ b = base - n
    /\ s = [shares EXCEPT ![u] = @ - V!ToSharesUp(n)]

\* It has no other condition, and changes nothing else: the step can be taken exactly
\* when there are values for it to leave.
LEMMA WithdrawIsThisStep ==
    ASSUME NEW u \in Users, NEW n \in Nat
    PROVE  Withdraw(u, n) <=>
              /\ WithdrawTo(u, n, base', shares')
              /\ UNCHANGED <<engineSet, engineVars, shutdownVars, feeVars, bounty>>
<1>1. ASSUME UNCHANGED <<engineSet, engineVars, shutdownVars>>
      PROVE  UNCHANGED <<V!side, V!settings, V!readings>>
    BY <1>1 DEF engineVars, shutdownVars, V!side, V!settings, V!readings,
                M!netCollateralUsd, M!Held
<1> QED BY <1>1 DEF Withdraw, WithdrawTo, V!Withdraw, V!Leave, V!settings

\* Whoever may withdraw an amount, by maxWithdraw, that the vault holds, finds nothing in
\* the way: no pause, shutdown, liquidation, reading or rounding (AgentVault.withdraw).
ExitIsOpen ==
    \A u \in Users, n \in Nat :
        n <= V!maxWithdraw(u) /\ n <= base
            => \E b \in Nat, s \in [Users -> Nat] : WithdrawTo(u, n, b, s)

LEMMA InvOpensExit == LiquidationInv => ExitIsOpen
<1> SUFFICES ASSUME LiquidationInv, NEW u \in Users, NEW n \in Nat,
                    n <= V!maxWithdraw(u), n <= base
             PROVE  \E b \in Nat, s \in [Users -> Nat] : WithdrawTo(u, n, b, s)
    BY DEF ExitIsOpen
<1>1. V!ToSharesUp(n) \in Nat /\ V!ToSharesUp(n) <= shares[u]
    BY PromiseIsAffordable
<1>2. base - n \in Nat
    BY DEF LiquidationInv
<1>3. [shares EXCEPT ![u] = @ - V!ToSharesUp(n)] \in [Users -> Nat]
    BY <1>1 DEF LiquidationInv
<1> QED BY <1>1, <1>2, <1>3 DEF WithdrawTo

-------------------------------------------------------------------------------
(* The liquidation *)

\* The keeper's part of what is seized is a part of it.
LEMMA BountyIsPart ==
    ASSUME NEW seized \in Nat
    PROVE  /\ Bounty(seized) \in Nat
           /\ Residual(seized) \in Nat
           /\ Residual(seized) = seized - Bounty(seized)
<1> DEFINE q == Bounty(seized)
<1>1. seized * BOUNTY_BPS \in Nat /\ seized * BOUNTY_BPS <= seized * BPS_DENOMINATOR
    BY LiquidationAssumption, ProductIsNat, ProductsGrow
<1>2. q \in Nat /\ q * BPS_DENOMINATOR <= seized * BOUNTY_BPS
    BY <1>1, LiquidationAssumption, Quotient DEF Bounty
<1> HIDE DEF q
<1>3. q * BPS_DENOMINATOR <= seized * BPS_DENOMINATOR
    BY <1>1, <1>2, LiquidationAssumption, ProductIsNat
<1>4. q <= seized
    BY <1>2, <1>3, LiquidationAssumption, FactorsCancel
<1> QED BY <1>2, <1>4 DEF q, Residual

\* A step that is no seizure brings nothing to the keeper or the collector.
SeizuresAlone == bounty' + held' > bounty + held => isLiquidatable

LEMMA LiquidationNextInv ==
    ASSUME LiquidationInv, [Next]_vars
    PROVE  LiquidationInv' /\ SeizuresAlone
<1> USE DEF LiquidationInv
<1>1. ASSUME UNCHANGED engineVars PROVE EngineTyped'
    BY <1>1 DEF engineVars, EngineTyped
<1>2. ASSUME UNCHANGED feeVars PROVE FeeTyped' /\ held' = held
    BY <1>2 DEF feeVars, FeeTyped
<1>3. CASE Liquidate
    <2>1. Bounty(base) \in Nat /\ Residual(base) \in Nat
        BY BountyIsPart
    <2>2. FeeTyped' /\ held' \in Nat
        BY <1>2, <1>3, <2>1, CollectKeepsTypes DEF Liquidate
    <2>3. bounty' \in Nat /\ base' \in Nat /\ isLiquidatable /\ UNCHANGED <<shares, engineVars>>
        BY <1>3, <2>1 DEF Liquidate
    <2> QED BY <1>1, <2>2, <2>3 DEF SeizuresAlone
<1>4. CASE OperatorLiquidate
    BY <1>1, <1>2, <1>4 DEF OperatorLiquidate, SeizuresAlone
<1>5. CASE VaultStep
    <2>1. UNCHANGED <<engineVars, feeVars, bounty>>
        BY <1>5 DEF VaultStep, Deposit, Withdraw
    <2>2. ASSUME NEW u \in Users, NEW n \in 1..MaxBase, Deposit(u, n) \/ Withdraw(u, n)
          PROVE  base' \in Nat /\ shares' \in [Users -> Nat]
        BY <2>2, TradesKeepTypes, LiquidationAssumption
    <2>3. ASSUME NEW exists \in BOOLEAN, V!SetMarginEngine(exists)
          PROVE  base' \in Nat /\ shares' \in [Users -> Nat]
        BY <2>3 DEF V!SetMarginEngine, V!ledger
    <2>4. base' \in Nat /\ shares' \in [Users -> Nat]
        BY <1>5, <2>2, <2>3 DEF VaultStep
    <2> QED BY <1>1, <1>2, <2>1, <2>4 DEF SeizuresAlone
<1>6. CASE EngineStep
    BY <1>2, <1>6, EngineKeepsList DEF EngineStep, vaultVars, SeizuresAlone
<1>7. CASE CoordinatorStep
    BY <1>1, <1>2, <1>7 DEF CoordinatorStep, vaultVars, SeizuresAlone
<1>8. CASE FeeStep
    BY <1>1, <1>8, FeeStepKeepsTypes DEF FeeStep, vaultVars, SeizuresAlone
<1>9. CASE UNCHANGED vars
    BY <1>1, <1>2, <1>9 DEF vars, vaultVars, SeizuresAlone
<1> QED BY <1>3, <1>4, <1>5, <1>6, <1>7, <1>8, <1>9 DEF Next

\* Collateral protects a vault: whoever liquidates through the executor does so while
\* all that the vault has posted is priced and no asset of it is worth a unit
\* (LiquidationExecutor._checkUnhealthy over the engine's net_collateral_usd).
THEOREM CollateralHolds == Spec => CollateralProtects
<1>1. LiquidationInv /\ [Next]_vars => LiquidationInv'
    BY LiquidationNextInv
<1>2. LiquidationInv /\ [Next]_vars =>
        [bounty' + held' > bounty + held =>
           \A a \in Assets : collateral[Vault][a] > 0 =>
               /\ quote[a] # Unreadable
               /\ collateral[Vault][a] * quote[a] < Q96_ONE]_vars
    BY LiquidationNextInv, ReadingCoversAll
       DEF SeizuresAlone, isLiquidatable, Unhealthy, EngineReadable, LiquidationInv
<1> QED BY LiquidationInitInv, <1>1, <1>2, PTL DEF Spec, CollateralProtects

\* The README's threshold, for a vault with a position of which a unit must be
\* maintained: whoever liquidates it through the executor does so while the engine's
\* liquidation_check says that it may be (_checkUnhealthy asks for net_collateral_usd
\* alone, and seizes a vault without a position as well).
PositionsAreChecked ==
    [][/\ bounty' + held' > bounty + held
       /\ \E a \in Assets : notional[Vault][a] * liqBps[a] >= BPS
       => M!liquidationCheck(Vault) = TRUE]_vars

\* A seizure, with the position that it finds, is below the threshold
\* (LiquidationExecutor._checkUnhealthy against the engine's liquidation_check).
THEOREM SeizedPositionsAreBelow == Spec => PositionsAreChecked
<1>1. LiquidationInv /\ [Next]_vars => LiquidationInv'
    BY LiquidationNextInv
<1>2. LiquidationInv /\ [Next]_vars =>
        [/\ bounty' + held' > bounty + held
         /\ \E a \in Assets : notional[Vault][a] * liqBps[a] >= BPS
         => M!liquidationCheck(Vault) = TRUE]_vars
    BY LiquidationNextInv, PositionIsChecked
       DEF SeizuresAlone, isLiquidatable, Unhealthy, EngineReadable, LiquidationInv
<1> QED BY LiquidationInitInv, <1>1, <1>2, PTL DEF Spec, PositionsAreChecked

\* A depositor's exit is never closed, for any users, amounts, assets, readings and
\* parameters: ExitSurvives with the step's new values in place of ENABLED
\* (AgentVault.withdraw has no whenNotPaused; EmergencyShutdown and the executor cannot
\* take away what is not in the vault's base balance).
THEOREM ExitStaysOpen == Spec => []ExitIsOpen
<1>1. LiquidationInv /\ [Next]_vars => LiquidationInv'
    BY LiquidationNextInv
<1> QED BY LiquidationInitInv, InvOpensExit, <1>1, PTL DEF Spec
===============================================================================
