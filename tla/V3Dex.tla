--------------------------------- MODULE V3Dex ---------------------------------
(****************************************************************************)
(* dex/V3Pool.sol and dex/V3PositionManager.sol: an initialised pool of two *)
(* tokens whose liquidity is counted one to one in both, and the manager    *)
(* that holds positions in it for the owners of its NFTs.  The pool knows a *)
(* position by its holder and range, so all of the manager's in one range   *)
(* are one.                                                                 *)
(*                                                                          *)
(* A token is its side of the pool, 0 or 1.  The price, its limits and the  *)
(* ticks' liquidity are left out: they are read by no transfer, and a limit *)
(* only refuses swaps.                                                      *)
(****************************************************************************)
EXTENDS Integers, FiniteSets, Functions

CONSTANTS
    Ranges,               \* pairs of ticks
    Manager, Direct,      \* holders in the pool: the manager, and a contract of its own
    Nfts,                 \* tokenIds of the manager; one that was burned stands for a new one
    NoRange,              \* range of an id that is not minted
    V3_FEE, V3_FEE_UNIT,  \* 997000 of 1000000
    MIN_SWAP_AMOUNT,
    MaxLiquidity,         \* bound: liquidity in the pool
    MaxV3Tokens           \* bound: tokens of one side the pool and the manager hold

ASSUME V3Assumption ==
    /\ V3_FEE_UNIT \in Nat \ {0} /\ V3_FEE \in 0..V3_FEE_UNIT
    /\ {MIN_SWAP_AMOUNT, MaxLiquidity, MaxV3Tokens} \subseteq Nat
    /\ IsFiniteSet(Ranges) /\ IsFiniteSet(Nfts)
    /\ Manager # Direct /\ NoRange \notin Ranges

Both == {0, 1}
Holding == {Manager, Direct}

VARIABLES
    liquidity,
    v3Reserve,
    position,             \* positions[holder, range]: liquidity and tokensOwed
    positionsOf,          \* positionsOf[id]: range, liquidity and tokensOwed
    poolTokens,           \* tokens of each side the pool holds
    managerTokens         \* tokens of each side the manager holds

poolState == <<liquidity, v3Reserve, position, poolTokens>>
v3Vars == <<poolState, positionsOf, managerTokens>>

None == [s \in Both |-> 0]
Unminted == [range |-> NoRange, liquidity |-> 0, owed |-> None]

V3Init ==
    /\ liquidity = 0 /\ v3Reserve = None
    /\ position = [h \in Holding |-> [r \in Ranges |-> [liquidity |-> 0, owed |-> None]]]
    /\ positionsOf = [id \in Nfts |-> Unminted]
    /\ poolTokens = None /\ managerTokens = None

Plus(f, g) == [s \in Both |-> f[s] + g[s]]
Minus(f, g) == [s \in Both |-> f[s] - g[s]]
Each(n) == [s \in Both |-> n]

-------------------------------------------------------------------------------
(* The pool *)

\* mint: the amount in both tokens, paid in the callback
PoolMint(holder, r, amount) ==
    /\ amount > 0 /\ liquidity + amount <= MaxLiquidity
    /\ \A s \in Both : poolTokens[s] + managerTokens[s] + amount <= MaxV3Tokens
    /\ position' = [position EXCEPT ![holder][r].liquidity = @ + amount]
    /\ liquidity' = liquidity + amount
    /\ v3Reserve' = Plus(v3Reserve, Each(amount))
    /\ poolTokens' = Plus(poolTokens, Each(amount))

\* Mutant: what is burned is owed in full, whatever swaps left of the reserves.
BurnedInFull(amount) == Each(amount)

\* burn: the position is owed the amount of each token, or what is left of it.
Burned(amount) == [s \in Both |-> IF amount > v3Reserve[s] THEN v3Reserve[s] ELSE amount]

\* burn, with the payment by collect of part of what is owed
PoolBurn(holder, r, amount, paid) ==
    /\ amount > 0 /\ position[holder][r].liquidity >= amount
    /\ liquidity' = liquidity - amount
    /\ v3Reserve' = Minus(v3Reserve, Burned(amount))
    /\ position' = [position EXCEPT
                        ![holder][r].liquidity = @ - amount,
                        ![holder][r].owed = Minus(Plus(@, Burned(amount)), paid)]
    /\ poolTokens' = Minus(poolTokens, paid)

\* collect: all of what is owed, or what is asked of one token
PoolCollect(holder, r, asked) ==
    LET owed == position[holder][r].owed
        paid == [s \in Both |-> IF asked[s] > owed[s] THEN owed[s] ELSE asked[s]]
    IN  /\ position' = [position EXCEPT ![holder][r].owed = Minus(owed, paid)]
        /\ poolTokens' = Minus(poolTokens, paid)
        /\ UNCHANGED <<liquidity, v3Reserve>>

V3AmountOut(s, amountIn) ==
    LET lessFee == (amountIn * V3_FEE) \div V3_FEE_UNIT
    IN  (lessFee * v3Reserve[1 - s]) \div (v3Reserve[s] + lessFee)

\* swap, from side s to the other; the caller pays in the callback
PoolSwap(s, amountIn) ==
    LET out == V3AmountOut(s, amountIn)
        moved == [t \in Both |-> IF t = s THEN amountIn ELSE -out]
    IN  /\ amountIn >= MIN_SWAP_AMOUNT /\ amountIn > 0
        /\ liquidity > 0 /\ v3Reserve[0] > 0 /\ v3Reserve[1] > 0
        /\ out > 0 /\ out < v3Reserve[1 - s]
        /\ poolTokens[s] + managerTokens[s] + amountIn <= MaxV3Tokens
        /\ v3Reserve' = Plus(v3Reserve, moved)
        /\ poolTokens' = Plus(poolTokens, moved)
        /\ UNCHANGED <<liquidity, position, positionsOf, managerTokens>>

-------------------------------------------------------------------------------
(* The manager *)

MintPosition(id, r, amount) ==
    /\ positionsOf[id] = Unminted
    /\ PoolMint(Manager, r, amount)
    /\ positionsOf' = [positionsOf EXCEPT ![id] = [range |-> r, liquidity |-> amount, owed |-> None]]
    /\ UNCHANGED managerTokens

\* decreaseLiquidity: pool.burn, and pool.collect of exactly what it burned
\* (CollectMismatch if the pool pays less).
DecreaseLiquidity(id, delta) ==
    LET p == positionsOf[id]
    IN  /\ delta > 0 /\ p.liquidity >= delta
        /\ PoolBurn(Manager, p.range, delta, Burned(delta))
        /\ positionsOf' = [positionsOf EXCEPT ![id].liquidity = @ - delta,
                                              ![id].owed = Plus(@, Burned(delta))]
        /\ managerTokens' = Plus(managerTokens, Burned(delta))

CollectPosition(id) ==
    /\ positionsOf[id] # Unminted
    /\ managerTokens' = Minus(managerTokens, positionsOf[id].owed)
    /\ positionsOf' = [positionsOf EXCEPT ![id].owed = None]
    /\ UNCHANGED poolState

BurnPosition(id) ==
    /\ positionsOf[id] # Unminted
    /\ positionsOf[id].liquidity = 0 /\ positionsOf[id].owed = None
    /\ positionsOf' = [positionsOf EXCEPT ![id] = Unminted]
    /\ UNCHANGED <<poolState, managerTokens>>

-------------------------------------------------------------------------------

\* A contract that mints, for whomever it names, and burns in the pool without the
\* manager.
DirectHolder ==
    /\ \E r \in Ranges, amount \in 1..MaxLiquidity :
        \/ \E holder \in Holding : PoolMint(holder, r, amount)
        \/ PoolBurn(Direct, r, amount, None)
        \/ \E s \in Both : PoolCollect(Direct, r, [None EXCEPT ![s] = amount])
    /\ UNCHANGED <<positionsOf, managerTokens>>

V3Next ==
    \/ \E id \in Nfts :
        \/ \E r \in Ranges, amount \in 1..MaxLiquidity : MintPosition(id, r, amount)
        \/ \E delta \in 1..MaxLiquidity : DecreaseLiquidity(id, delta)
        \/ CollectPosition(id)
        \/ BurnPosition(id)
    \/ DirectHolder
    \/ \E s \in Both, amountIn \in 1..MaxV3Tokens : PoolSwap(s, amountIn)

V3Spec == V3Init /\ [][V3Next]_v3Vars

-------------------------------------------------------------------------------

\* What an NFT has of the manager's position in range r
LiquidityIn(r, p) == IF p.range = r THEN p.liquidity ELSE 0

\* The pool and the manager can pay what they owe, after any sequence of swaps:
\* the pool holds its reserves and what its positions are owed, the manager what its
\* NFTs are; the liquidity is the sum of the positions, and the manager's position
\* in a range covers its NFTs in that range.
DexIsBacked ==
    /\ \A s \in Both :
        /\ poolTokens[s] = v3Reserve[s]
               + SumFunction([hr \in Holding \X Ranges |-> position[hr[1]][hr[2]].owed[s]])
        /\ managerTokens[s] = SumFunction([id \in Nfts |-> positionsOf[id].owed[s]])
        /\ v3Reserve[s] >= 0 /\ managerTokens[s] >= 0
    /\ liquidity = SumFunction([hr \in Holding \X Ranges |-> position[hr[1]][hr[2]].liquidity])
    /\ \A r \in Ranges :
        /\ position[Manager][r].owed = None
        /\ position[Manager][r].liquidity
               >= SumFunction([id \in Nfts |-> LiquidityIn(r, positionsOf[id])])
===============================================================================
