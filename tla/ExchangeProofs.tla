---------------------------- MODULE ExchangeProofs ----------------------------
(***************************************************************************)
(* Proofs about where tokens change hands: the signed orders and the books *)
(* of RhChainSwap, the two exchanges, and the adapters that bring a        *)
(* vault's tokens to them; for any number of agents, providers, positions  *)
(* and orders, and any amounts.                                            *)
(***************************************************************************)
EXTENDS RhChainSwap, VenueAdapters, DataLemmas

-------------------------------------------------------------------------------
(* The signed orders of RhChainSwap *)

SwapTypes ==
    /\ swapNonces \in [AgentIds -> Nat]
    /\ withdrawNonces \in [AgentIds -> Nat]
    /\ settled \in [Swaps \cup Auths -> {0, 1}]

SettledSwaps(a) == {o \in Swaps : o.agent = a /\ settled[o] = 1}
SettledAuths(a) == {o \in Auths : o.agent = a /\ settled[o] = 1}

\* A settled order's nonce is one its agent has left behind.
NoncesSpent ==
    /\ \A o \in Swaps : settled[o] = 1 => o.nonce \in Nat /\ o.nonce < swapNonces[o.agent]
    /\ \A o \in Auths : settled[o] = 1 => o.nonce \in Nat /\ o.nonce < withdrawNonces[o.agent]

NoncesCount ==
    \A a \in AgentIds :
        /\ swapNonces[a] = Cardinality(SettledSwaps(a))
        /\ withdrawNonces[a] = Cardinality(SettledAuths(a))

SwapInv == SwapTypes /\ NoncesSpent /\ NoncesCount

LEMMA SwapInitInv == SwapInit => SwapInv
<1> SUFFICES ASSUME SwapInit PROVE SwapInv
    OBVIOUS
<1>1. SwapTypes
    BY DEF SwapInit, SwapTypes
<1>2. \A o \in Swaps \cup Auths : settled[o] # 1
    BY DEF SwapInit
<1>3. NoncesSpent
    BY <1>2 DEF NoncesSpent
<1>4. NoncesCount
    <2>1. \A a \in AgentIds : SettledSwaps(a) = {} /\ SettledAuths(a) = {}
        BY <1>2 DEF SettledSwaps, SettledAuths
    <2> QED BY <2>1, FS_EmptySet DEF SwapInit, NoncesCount
<1> QED BY <1>1, <1>3, <1>4 DEF SwapInv

LEMMA SettledAreFinite ==
    ASSUME NEW a
    PROVE  /\ IsFiniteSet(SettledSwaps(a)) /\ Cardinality(SettledSwaps(a)) \in Nat
           /\ IsFiniteSet(SettledAuths(a)) /\ Cardinality(SettledAuths(a)) \in Nat
<1>1. SettledSwaps(a) \in SUBSET Swaps /\ SettledAuths(a) \in SUBSET Auths
    BY DEF SettledSwaps, SettledAuths
<1> QED BY <1>1, SwapAssumption, FS_Subset, FS_CardinalityType

\* What leaves the nonces and the history alone leaves the invariant alone.
LEMMA SwapStutterKeepsInv ==
    ASSUME SwapInv, UNCHANGED <<nonces, settled>>
    PROVE  SwapInv'
BY DEF SwapInv, SwapTypes, NoncesSpent, NoncesCount, SettledSwaps, SettledAuths, nonces

\* A swap's nonce is the agent's, so it had not settled, and the nonce and the
\* number of settled swaps of the agent go up together.
LEMMA SwapKeepsInv ==
    ASSUME SwapInv, NEW o \in Swaps, NEW maxPrice, swap(o, maxPrice)
    PROVE  SwapInv'
<1> USE SwapAssumption DEF SwapInv, SwapTypes
<1> DEFINE n == swapNonces[o.agent]
<1>1. /\ o.agent \in AgentIds /\ n \in Nat /\ o.nonce = n
      /\ swapNonces' = [swapNonces EXCEPT ![o.agent] = n + 1]
      /\ settled' = [settled EXCEPT ![o] = settled[o] + 1]
      /\ withdrawNonces' = withdrawNonces
    BY DEF swap
<1>2. settled[o] = 0
    BY <1>1 DEF NoncesSpent
<1>3. settled' = [settled EXCEPT ![o] = 1]
    BY <1>1, <1>2
<1>4. SwapTypes'
    BY <1>1, <1>3
<1>5. NoncesSpent'
    BY <1>1, <1>3 DEF NoncesSpent
<1>6. NoncesCount'
    <2>1. \A a \in AgentIds : SettledAuths(a)' = SettledAuths(a)
        BY <1>3 DEF SettledAuths
    <2>2. \A a \in AgentIds \ {o.agent} : SettledSwaps(a)' = SettledSwaps(a)
        BY <1>3 DEF SettledSwaps
    <2>3. SettledSwaps(o.agent)' = SettledSwaps(o.agent) \cup {o} /\ o \notin SettledSwaps(o.agent)
        BY <1>2, <1>3 DEF SettledSwaps
    <2>4. Cardinality(SettledSwaps(o.agent)') = n + 1
        BY <1>1, <2>3, SettledAreFinite, FS_AddElement DEF NoncesCount
    <2> QED BY <1>1, <2>1, <2>2, <2>4 DEF NoncesCount
<1> QED BY <1>4, <1>5, <1>6

LEMMA WithdrawalKeepsInv ==
    ASSUME SwapInv, NEW o \in Auths, withdrawWithAuth(o)
    PROVE  SwapInv'
<1> USE SwapAssumption DEF SwapInv, SwapTypes
<1> DEFINE n == withdrawNonces[o.agent]
<1>1. /\ o.agent \in AgentIds /\ n \in Nat /\ o.nonce = n
      /\ withdrawNonces' = [withdrawNonces EXCEPT ![o.agent] = n + 1]
      /\ settled' = [settled EXCEPT ![o] = settled[o] + 1]
      /\ swapNonces' = swapNonces
    BY DEF withdrawWithAuth, WithdrawalSpent
<1>2. settled[o] = 0
    BY <1>1 DEF NoncesSpent
<1>3. settled' = [settled EXCEPT ![o] = 1]
    BY <1>1, <1>2
<1>4. SwapTypes'
    BY <1>1, <1>3
<1>5. NoncesSpent'
    BY <1>1, <1>3 DEF NoncesSpent
<1>6. NoncesCount'
    <2>1. \A a \in AgentIds : SettledSwaps(a)' = SettledSwaps(a)
        BY <1>3 DEF SettledSwaps
    <2>2. \A a \in AgentIds \ {o.agent} : SettledAuths(a)' = SettledAuths(a)
        BY <1>3 DEF SettledAuths
    <2>3. SettledAuths(o.agent)' = SettledAuths(o.agent) \cup {o} /\ o \notin SettledAuths(o.agent)
        BY <1>2, <1>3 DEF SettledAuths
    <2>4. Cardinality(SettledAuths(o.agent)') = n + 1
        BY <1>1, <2>3, SettledAreFinite, FS_AddElement DEF NoncesCount
    <2> QED BY <1>1, <2>1, <2>2, <2>4 DEF NoncesCount
<1> QED BY <1>4, <1>5, <1>6

LEMMA SwapNextInv ==
    ASSUME SwapInv, [SwapNext]_<<now, swapVars>>
    PROVE  SwapInv'
<1> USE DEF nonces, untouched
<1>1. CASE SwapTick
    BY <1>1, SwapStutterKeepsInv DEF SwapTick, swapVars
<1>2. ASSUME NEW a, NEW h, registerOwner(a, h)
      PROVE  SwapInv'
    BY <1>2, SwapStutterKeepsInv DEF registerOwner
<1>3. CASE PauseDesk \/ UnpauseDesk
    BY <1>3, SwapStutterKeepsInv DEF PauseDesk, UnpauseDesk
<1>4. ASSUME NEW a, revoke(a)
      PROVE  SwapInv'
    BY <1>4, SwapStutterKeepsInv DEF revoke
<1>5. ASSUME NEW t, NEW listed, setAllowedToken(t, listed)
      PROVE  SwapInv'
    BY <1>5, SwapStutterKeepsInv DEF setAllowedToken
<1>6. ASSUME NEW k, rotateAttestor(k)
      PROVE  SwapInv'
    BY <1>6, SwapStutterKeepsInv DEF rotateAttestor
<1>7. ASSUME NEW a, NEW t, NEW amount, deposit(a, t, amount) \/ withdraw(a, t, amount)
      PROVE  SwapInv'
    BY <1>7, SwapStutterKeepsInv DEF deposit, withdraw
<1>8. ASSUME NEW a, NEW t, emergencyWithdraw(a, t)
      PROVE  SwapInv'
    BY <1>8, SwapStutterKeepsInv DEF emergencyWithdraw
<1>9. ASSUME NEW o \in Auths, withdrawWithAuth(o)
      PROVE  SwapInv'
    BY <1>9, WithdrawalKeepsInv
<1>10. ASSUME NEW o \in Swaps, NEW maxPrice, swap(o, maxPrice)
       PROVE  SwapInv'
    BY <1>10, SwapKeepsInv
<1>11. CASE UNCHANGED <<now, swapVars>>
    BY <1>11, SwapStutterKeepsInv DEF swapVars
<1> QED BY <1>1, <1>2, <1>3, <1>4, <1>5, <1>6, <1>7, <1>8, <1>9, <1>10, <1>11 DEF SwapNext

LEMMA SwapInvSignsOnce == SwapInv => SignedOnce
BY SMTT(30) DEF SwapInv, SwapTypes, NoncesCount, SettledSwaps, SettledAuths, SignedOnce

\* No signed swap and no signed withdrawal goes through twice, whichever keys the
\* attestor has had, and each nonce is the number of orders of its kind that the
\* agent has settled (swap, withdrawWithAuth).
THEOREM OrdersSettleOnce == SwapSpec => []SignedOnce
<1>1. SwapInv /\ [SwapNext]_<<now, swapVars>> => SwapInv'
    BY SwapNextInv
<1> QED BY SwapInitInv, SwapInvSignsOnce, <1>1, PTL DEF SwapSpec

-------------------------------------------------------------------------------
(* The books of RhChainSwap *)

Books(t) == SumFunction([a \in AgentIds |-> balances[a][t]])

DeskTypes ==
    /\ balances \in [AgentIds -> [Tokens -> Nat]]
    /\ allowed \subseteq Tokens
    /\ inContract \in [Tokens -> Nat]
    /\ swapped \in [Tokens -> Int]

DeskInv == DeskTypes /\ ShortByTheSwaps

\* The books of a token move by what moves in the one agent's balance.
LEMMA OneBalanceMoves ==
    ASSUME DeskTypes, DeskTypes', NEW a \in AgentIds, NEW t \in Tokens,
           \A b \in AgentIds \ {a} : balances'[b][t] = balances[b][t]
    PROVE  /\ Books(t) \in Nat
           /\ Books(t)' = Books(t) - balances[a][t] + balances'[a][t]
<1> DEFINE f == [b \in AgentIds |-> balances[b][t]]
           g == [b \in AgentIds |-> balances'[b][t]]
<1>1. f \in [AgentIds -> Nat] /\ g \in [AgentIds -> Nat]
    BY DEF DeskTypes
<1>2. \A b \in AgentIds \ {a} : g[b] = f[b]
    OBVIOUS
<1>3. f[a] = balances[a][t] /\ g[a] = balances'[a][t]
    OBVIOUS
<1> HIDE DEF f, g
<1>4. SumFunction(f) \in Nat /\ SumFunction(g) = SumFunction(f) - f[a] + g[a]
    BY <1>1, <1>2, SwapAssumption, SumUpdate
<1> QED BY <1>3, <1>4 DEF Books, f, g

LEMMA DeskInitInv == SwapInit => DeskInv
<1> SUFFICES ASSUME SwapInit PROVE DeskInv
    OBVIOUS
<1>1. DeskTypes
    BY DEF SwapInit, DeskTypes
<1>2. ASSUME NEW t \in Tokens PROVE Books(t) = 0
    <2> DEFINE f == [a \in AgentIds |-> balances[a][t]]
    <2>1. f \in [AgentIds -> Nat] /\ \A a \in AgentIds : f[a] = 0
        BY DEF SwapInit
    <2> HIDE DEF f
    <2>2. SumFunction(f) = 0
        BY <2>1, SwapAssumption, SumUpdate
    <2> QED BY <2>2 DEF Books, f
<1>3. \A t \in Tokens : inContract[t] + swapped[t] = 0
    BY DEF SwapInit
<1> QED BY <1>1, <1>2, <1>3 DEF DeskInv, ShortByTheSwaps, Books

\* A call that changes one agent's balance in one token, and the contract's tokens
\* by as much, keeps the books.
LEMMA TransferKeepsBooks ==
    ASSUME DeskInv, NEW a \in AgentIds, NEW t \in Tokens, NEW d \in Int,
           balances[a][t] + d >= 0, inContract[t] + d >= 0,
           balances' = [balances EXCEPT ![a][t] = @ + d],
           inContract' = [inContract EXCEPT ![t] = @ + d],
           UNCHANGED <<allowed, swapped>>
    PROVE  DeskInv'
<1> USE DEF DeskInv
<1>1. balances[a][t] \in Nat /\ inContract[t] \in Nat
    BY DEF DeskTypes
<1>2. balances[a][t] + d \in Nat /\ inContract[t] + d \in Nat
    BY <1>1
<1>3. DeskTypes'
    BY <1>2 DEF DeskTypes
<1>4. ASSUME NEW u \in Tokens PROVE (Books(u) = inContract[u] + swapped[u])'
    <2>1. Books(u) = inContract[u] + swapped[u] /\ inContract[u] \in Nat /\ swapped[u] \in Int
        BY DEF ShortByTheSwaps, Books, DeskTypes
    <2>2. /\ Books(u) \in Nat
          /\ Books(u)' = Books(u) - balances[a][u] + balances'[a][u]
        BY <1>3, OneBalanceMoves DEF DeskTypes
    <2>3. balances[a][u] \in Nat
        BY DEF DeskTypes
    <2>4. CASE u = t
        <3>1. balances'[a][t] = balances[a][t] + d /\ inContract'[t] = inContract[t] + d
            BY DEF DeskTypes
        <3> QED BY <2>1, <2>2, <2>3, <2>4, <3>1
    <2>5. CASE u # t
        <3>1. balances'[a][u] = balances[a][u] /\ inContract'[u] = inContract[u]
            BY <2>5 DEF DeskTypes
        <3> QED BY <2>1, <2>2, <2>3, <3>1
    <2> QED BY <2>4, <2>5
<1> QED BY <1>3, <1>4 DEF ShortByTheSwaps, Books

LEMMA PaidOutKeepsBooks ==
    ASSUME DeskInv, NEW a \in AgentIds, NEW t \in Tokens, NEW amount \in Nat,
           PaidOut(a, t, amount), UNCHANGED <<allowed, swapped>>
    PROVE  DeskInv'
<1>1. balances[a][t] \in Nat /\ inContract[t] \in Nat
    BY DEF DeskInv, DeskTypes
<1>2. /\ -amount \in Int
      /\ balances[a][t] + (-amount) >= 0 /\ inContract[t] + (-amount) >= 0
      /\ balances[a][t] - amount = balances[a][t] + (-amount)
      /\ inContract[t] - amount = inContract[t] + (-amount)
    BY <1>1 DEF PaidOut
<1>3. /\ balances' = [balances EXCEPT ![a][t] = balances[a][t] + (-amount)]
      /\ inContract' = [inContract EXCEPT ![t] = inContract[t] + (-amount)]
    BY <1>2 DEF PaidOut
<1> QED BY <1>2, <1>3, TransferKeepsBooks

\* A swap moves no tokens: it takes from one of the agent's balances, credits the
\* other, and the history of swaps records both.
LEMMA SwapKeepsBooks ==
    ASSUME DeskInv, NEW o \in Swaps, NEW maxPrice, swap(o, maxPrice)
    PROVE  DeskInv'
<1> USE DEF DeskInv
<1> DEFINE a == o.agent
           out == o.in * o.price
<1>1. /\ a \in AgentIds /\ o.in \in Nat /\ o.price \in Nat
      /\ o.from \in Tokens /\ o.to \in Tokens /\ o.from # o.to
    BY SwapAssumption DEF swap, DeskTypes
<1>2. out \in Nat
    BY <1>1
<1> HIDE DEF out
<1>3. /\ o.in <= balances[a][o.from]
      /\ balances' = [balances EXCEPT ![a][o.from] = @ - o.in, ![a][o.to] = @ + out]
      /\ swapped' = [swapped EXCEPT ![o.from] = @ - o.in, ![o.to] = @ + out]
      /\ inContract' = inContract /\ allowed' = allowed
    BY DEF swap, out, admin
<1>4. /\ \A u \in Tokens : balances[a][u] \in Nat /\ swapped[u] \in Int /\ inContract[u] \in Nat
      /\ balances[a] \in [Tokens -> Nat]
    BY <1>1 DEF DeskTypes
<1>5. /\ balances[a][o.from] - o.in \in Nat /\ balances[a][o.to] + out \in Nat
      /\ swapped[o.from] - o.in \in Int /\ swapped[o.to] + out \in Int
    BY <1>1, <1>2, <1>3, <1>4
<1>6. /\ balances'[a][o.from] = balances[a][o.from] - o.in
      /\ balances'[a][o.to] = balances[a][o.to] + out
      /\ \A u \in Tokens \ {o.from, o.to} : balances'[a][u] = balances[a][u]
      /\ \A b \in AgentIds \ {a} : balances'[b] = balances[b]
    BY <1>1, <1>3, <1>4 DEF DeskTypes
<1>7. /\ swapped'[o.from] = swapped[o.from] - o.in
      /\ swapped'[o.to] = swapped[o.to] + out
      /\ \A u \in Tokens \ {o.from, o.to} : swapped'[u] = swapped[u]
    BY <1>1, <1>3, <1>4 DEF DeskTypes
<1>8. DeskTypes'
    <2>1. balances' \in [AgentIds -> [Tokens -> Nat]]
        BY <1>1, <1>3, <1>4, <1>5 DEF DeskTypes
    <2>2. swapped' \in [Tokens -> Int]
        BY <1>1, <1>3, <1>4, <1>5 DEF DeskTypes
    <2> QED BY <2>1, <2>2, <1>3 DEF DeskTypes
<1> HIDE DEF a
<1>9. ASSUME NEW u \in Tokens PROVE (Books(u) = inContract[u] + swapped[u])'
    <2>1. Books(u) = inContract[u] + swapped[u] /\ inContract'[u] = inContract[u]
        BY <1>3 DEF ShortByTheSwaps, Books
    <2>2. /\ Books(u) \in Nat
          /\ Books(u)' = Books(u) - balances[a][u] + balances'[a][u]
        BY <1>1, <1>6, <1>8, OneBalanceMoves
    <2>3. CASE u = o.from
        BY <2>1, <2>2, <2>3, <1>1, <1>4, <1>6, <1>7
    <2>4. CASE u = o.to
        BY <2>1, <2>2, <2>4, <1>2, <1>4, <1>6, <1>7
    <2>5. CASE u \notin {o.from, o.to}
        BY <2>1, <2>2, <2>5, <1>4, <1>6, <1>7
    <2> QED BY <2>3, <2>4, <2>5
<1> QED BY <1>8, <1>9 DEF ShortByTheSwaps, Books

LEMMA DeskNextInv ==
    ASSUME DeskInv, [SwapNext]_<<now, swapVars>>
    PROVE  DeskInv'
<1> USE DEF admin
<1>1. CASE \/ UNCHANGED <<now, swapVars>> \/ SwapTick \/ PauseDesk \/ UnpauseDesk
           \/ \E a \in AgentIds, h \in Holders : registerOwner(a, h)
           \/ \E a \in AgentIds : revoke(a)
           \/ \E t \in Tokens, listed \in BOOLEAN : setAllowedToken(t, listed)
           \/ \E k \in Keys : rotateAttestor(k)
    <2>1. UNCHANGED <<balances, inContract, swapped>>
        BY <1>1 DEF SwapTick, PauseDesk, UnpauseDesk, registerOwner, revoke, setAllowedToken,
                    rotateAttestor, untouched, swapVars
    <2>2. (allowed \subseteq Tokens)'
        BY <1>1 DEF SwapTick, PauseDesk, UnpauseDesk, registerOwner, revoke, setAllowedToken,
                    rotateAttestor, swapVars, DeskInv, DeskTypes
    <2> QED BY <2>1, <2>2 DEF DeskInv, DeskTypes, ShortByTheSwaps
<1>2. ASSUME NEW a \in AgentIds, NEW t \in Tokens, NEW amount \in 1..MaxBalance,
             deposit(a, t, amount)
      PROVE  DeskInv'
    <2>1. /\ amount \in Nat
          /\ balances[a][t] \in Nat /\ inContract[t] \in Nat
        BY SwapAssumption DEF DeskInv, DeskTypes
    <2>2. amount \in Int /\ balances[a][t] + amount >= 0 /\ inContract[t] + amount >= 0
        BY <2>1
    <2> QED BY <1>2, <2>2, TransferKeepsBooks DEF deposit
<1>3. ASSUME NEW a \in AgentIds, NEW t \in Tokens, NEW amount \in 1..MaxBalance,
             withdraw(a, t, amount)
      PROVE  DeskInv'
    <2>1. amount \in Nat
        BY SwapAssumption
    <2> QED BY <1>3, <2>1, PaidOutKeepsBooks DEF withdraw
<1>4. ASSUME NEW o \in Auths, withdrawWithAuth(o)
      PROVE  DeskInv'
    <2>1. o.agent \in AgentIds /\ o.amount \in Nat /\ o.token \in Tokens
        BY <1>4, SwapAssumption DEF withdrawWithAuth, DeskInv, DeskTypes
    <2> QED BY <1>4, <2>1, PaidOutKeepsBooks DEF withdrawWithAuth
<1>5. ASSUME NEW o \in Swaps, NEW maxPrice, swap(o, maxPrice)
      PROVE  DeskInv'
    BY <1>5, SwapKeepsBooks
<1>6. ASSUME NEW a \in AgentIds, NEW t \in Tokens, emergencyWithdraw(a, t)
      PROVE  DeskInv'
    <2>1. balances[a][t] \in Nat
        BY DEF DeskInv, DeskTypes
    <2> QED BY <1>6, <2>1, PaidOutKeepsBooks DEF emergencyWithdraw
<1> QED BY <1>1, <1>2, <1>3, <1>4, <1>5, <1>6 DEF SwapNext

\* Over all the agents, RhChainSwap owes of a token what it holds of it plus what the
\* swaps created (deposit, PaidOut, swap), for any orders and any prices.
THEOREM DeskShortBySwaps == SwapSpec => []ShortByTheSwaps
<1>1. DeskInv /\ [SwapNext]_<<now, swapVars>> => DeskInv'
    BY DeskNextInv
<1>2. DeskInv => ShortByTheSwaps
    BY DEF DeskInv
<1> QED BY DeskInitInv, <1>1, <1>2, PTL DEF SwapSpec

-------------------------------------------------------------------------------
(* V2Router *)

V2Types ==
    /\ poolCreated \in BOOLEAN
    /\ v2Reserve \in [Sides -> Nat]
    /\ totalLp \in Nat
    /\ lpBalance \in [Providers -> Nat]

V2Inv == V2Types /\ LpSupplyIsHeld

\* What LpKeepsValue says of one step
ShareKeepsValue ==
    totalLp > 0 =>
        v2Reserve'[0] * v2Reserve'[1] * totalLp * totalLp
          >= v2Reserve[0] * v2Reserve[1] * totalLp' * totalLp'

\* Every number has a root, rounded down.
LEMMA RootExists ==
    ASSUME NEW n \in Nat
    PROVE  Sqrt(n) \in Nat
<1> DEFINE G == {k \in 0..n : \E r \in 0..k : r * r <= k /\ k < (r + 1) * (r + 1)}
<1>1. 0 \in G
    <2>1. 0 \in 0..n /\ 0 \in 0..0 /\ 0 * 0 <= 0 /\ 0 < (0 + 1) * (0 + 1)
        OBVIOUS
    <2> QED BY <2>1
<1>2. ASSUME NEW k \in 1..n, k - 1 \in G PROVE k \in G
    <2>1. PICK r \in 0..(k - 1) : r * r <= k - 1 /\ k - 1 < (r + 1) * (r + 1)
        BY <1>2
    <2>2. CASE (r + 1) * (r + 1) <= k
        <3> DEFINE q == r + 1
        <3>1. q \in Nat /\ q * q <= k /\ q <= q * q /\ k <= q * q
            BY <2>1, <2>2
        <3> HIDE DEF q
        <3>2. k < (q + 1) * (q + 1) /\ q \in 0..k
            BY <3>1
        <3> QED BY <3>1, <3>2
    <2>3. CASE ~((r + 1) * (r + 1) <= k)
        <3>1. r \in 0..k /\ r * r <= k /\ k < (r + 1) * (r + 1)
            BY <2>1, <2>3
        <3> QED BY <3>1
    <2> QED BY <2>2, <2>3
<1> HIDE DEF G
<1>3. n \in G
    BY <1>1, <1>2, InductionUpTo
<1>4. \E r \in 0..n : r * r <= n /\ n < (r + 1) * (r + 1)
    BY <1>3 DEF G
<1>5. Sqrt(n) \in 0..n
    BY <1>4 DEF Sqrt
<1> QED BY <1>5

\* Two reserves that each lost no more than in proportion to the supply.
LEMMA InProportion ==
    ASSUME NEW r \in Nat, NEW s \in Nat, NEW t \in Nat,
           NEW rr \in Nat, NEW ss \in Nat, NEW tt \in Nat,
           r * tt <= rr * t, s * tt <= ss * t
    PROVE  rr * ss * t * t >= r * s * tt * tt
<1>1. (r * tt) * (s * tt) <= (rr * t) * (ss * t)
    <2>1. r * tt \in Nat /\ s * tt \in Nat /\ rr * t \in Nat /\ ss * t \in Nat
        BY ProductIsNat
    <2> QED BY <2>1, ProductsGrow
<1>2. (r * tt) * (s * tt) = r * s * tt * tt
    OBVIOUS
<1>3. (rr * t) * (ss * t) = rr * ss * t * t
    OBVIOUS
<1>4. r * s * tt * tt \in Nat /\ rr * ss * t * t \in Nat
    BY ProductIsNat
<1> QED BY <1>1, <1>2, <1>3, <1>4

\* Of the supply of shares, what the providers do not hold is locked.
LEMMA SharesMove ==
    ASSUME V2Inv, NEW p \in Providers, NEW g \in [Providers -> Nat],
           \A q \in Providers \ {p} : g[q] = lpBalance[q]
    PROVE  /\ SumFunction(lpBalance) \in Nat
           /\ lpBalance[p] \in Nat
           /\ lpBalance[p] <= SumFunction(lpBalance)
           /\ totalLp = SumFunction(lpBalance)
                            + IF totalLp = 0 THEN 0 ELSE MINIMUM_LIQUIDITY
           /\ SumFunction(g) = SumFunction(lpBalance) - lpBalance[p] + g[p]
<1>1. lpBalance \in [Providers -> Nat] /\ IsFiniteSet(Providers)
    BY V2Assumption DEF V2Inv, V2Types
<1>2. /\ SumFunction(lpBalance) \in Nat
      /\ lpBalance[p] <= SumFunction(lpBalance)
      /\ SumFunction(g) = SumFunction(lpBalance) - lpBalance[p] + g[p]
    BY <1>1, SumUpdate
<1>3. totalLp = SumFunction(lpBalance) + IF totalLp = 0 THEN 0 ELSE MINIMUM_LIQUIDITY
    BY DEF V2Inv, LpSupplyIsHeld
<1> QED BY <1>1, <1>2, <1>3

LEMMA V2InitInv == V2Init => V2Inv
<1> SUFFICES ASSUME V2Init PROVE V2Inv
    OBVIOUS
<1>1. V2Types
    BY DEF V2Init, V2Types
<1>2. lpBalance \in [Providers -> Nat] /\ \A p \in Providers : lpBalance[p] = 0
    BY DEF V2Init
<1>3. SumFunction(lpBalance) = 0
    BY <1>2, V2Assumption, SumUpdate
<1> QED BY <1>1, <1>3 DEF V2Inv, V2Init, LpSupplyIsHeld

\* Adding liquidity credits no more than either amount's part of its reserve.
LEMMA AddKeepsShares ==
    ASSUME V2Inv, NEW p \in Providers, NEW a0 \in Nat, NEW a1 \in Nat,
           addLiquidity(p, a0, a1)
    PROVE  V2Inv' /\ ShareKeepsValue
<1> USE DEF V2Inv
<1> DEFINE root == Sqrt(a0 * a1)
           lp == IF totalLp = 0 THEN root - MINIMUM_LIQUIDITY ELSE LpFor(a0, a1)
           r == v2Reserve[0]
           s == v2Reserve[1]
<1>1. /\ a0 > 0 /\ a1 > 0 /\ lp > 0
      /\ totalLp' = IF totalLp = 0 THEN root ELSE totalLp + lp
      /\ lpBalance' = [lpBalance EXCEPT ![p] = @ + lp]
      /\ v2Reserve' = [t \in Sides |-> v2Reserve[t] + IF t = 0 THEN a0 ELSE a1]
      /\ poolCreated' = poolCreated
    BY DEF addLiquidity
<1>2. /\ r \in Nat /\ s \in Nat /\ totalLp \in Nat
      /\ MINIMUM_LIQUIDITY \in Nat /\ MINIMUM_LIQUIDITY > 0
      /\ totalLp > 0 => r > 0 /\ s > 0
    BY V2Assumption DEF V2Types, Sides, LpSupplyIsHeld
<1>3. root \in Nat
    BY RootExists, ProductIsNat
<1>4. CASE totalLp > 0
    <2> DEFINE x == (a0 * totalLp) \div r
               y == (a1 * totalLp) \div s
    <2>1. x \in Nat /\ y \in Nat /\ x * r <= a0 * totalLp /\ y * s <= a1 * totalLp
        <3>1. /\ r \in Nat \ {0} /\ s \in Nat \ {0}
              /\ a0 * totalLp \in Nat /\ a1 * totalLp \in Nat
            BY <1>2, <1>4, ProductIsNat
        <3> QED BY <3>1, Quotient
    <2>2. lp = Min({x, y})
        BY <1>4 DEF LpFor
    <2> HIDE DEF x, y, lp
    <2>3. lp \in {x, y} /\ lp <= x /\ lp <= y
        <3>1. \E m \in {x, y} : \A z \in {x, y} : m <= z
            BY <2>1
        <3> QED BY <2>2, <3>1 DEF Min
    <2>4. lp \in Nat /\ lp * r <= a0 * totalLp /\ lp * s <= a1 * totalLp
        <3>1. lp \in Nat
            BY <2>1, <2>3
        <3>2. lp * r <= x * r /\ lp * s <= y * s
            BY <1>2, <2>1, <2>3, <3>1, ProductsGrow
        <3>3. /\ lp * r \in Nat /\ x * r \in Nat /\ a0 * totalLp \in Nat
              /\ lp * s \in Nat /\ y * s \in Nat /\ a1 * totalLp \in Nat
            BY <1>2, <2>1, <3>1, ProductIsNat
        <3> QED BY <2>1, <3>1, <3>2, <3>3
    <2>5. lpBalance' \in [Providers -> Nat] /\ lpBalance[p] \in Nat
          /\ lpBalance'[p] = lpBalance[p] + lp
          /\ \A q \in Providers \ {p} : lpBalance'[q] = lpBalance[q]
        BY <1>1, <2>4 DEF V2Types
    <2>6. SumFunction(lpBalance)' = SumFunction(lpBalance) + lp
          /\ totalLp = SumFunction(lpBalance) + MINIMUM_LIQUIDITY
          /\ SumFunction(lpBalance) \in Nat
        BY <1>2, <1>4, <2>4, <2>5, SharesMove
    <2>7. totalLp' = totalLp + lp
        BY <1>1, <1>2, <1>4
    <2>8. V2Types'
        BY <1>1, <1>2, <2>4, <2>5, <2>7 DEF V2Types
    <2>9. v2Reserve'[0] = r + a0 /\ v2Reserve'[1] = s + a1
        BY <1>1 DEF Sides
    <2>10. LpSupplyIsHeld'
        BY <1>1, <1>2, <2>4, <2>6, <2>7, <2>9 DEF LpSupplyIsHeld
    <2>11. r * (totalLp + lp) <= (r + a0) * totalLp /\ s * (totalLp + lp) <= (s + a1) * totalLp
        <3>1. r * (totalLp + lp) = r * totalLp + lp * r
              /\ s * (totalLp + lp) = s * totalLp + lp * s
            BY <1>2, <2>4
        <3>2. (r + a0) * totalLp = r * totalLp + a0 * totalLp
              /\ (s + a1) * totalLp = s * totalLp + a1 * totalLp
            BY <1>2
        <3>3. r * totalLp \in Nat /\ s * totalLp \in Nat /\ lp * r \in Nat /\ lp * s \in Nat
              /\ a0 * totalLp \in Nat /\ a1 * totalLp \in Nat
            BY <1>2, <2>4, ProductIsNat
        <3> QED BY <3>1, <3>2, <3>3, <2>4
    <2>12. r + a0 \in Nat /\ s + a1 \in Nat /\ totalLp + lp \in Nat
        BY <1>2, <2>4
    <2>13. (r + a0) * (s + a1) * totalLp * totalLp >= r * s * (totalLp + lp) * (totalLp + lp)
        BY <1>2, <2>11, <2>12, InProportion
    <2> QED BY <2>7, <2>8, <2>9, <2>10, <2>13 DEF ShareKeepsValue
<1>5. CASE totalLp = 0
    <2>1. lp = root - MINIMUM_LIQUIDITY /\ lp \in Nat
        BY <1>1, <1>2, <1>3, <1>5
    <2> HIDE DEF lp, root
    <2>2. lpBalance' \in [Providers -> Nat] /\ lpBalance[p] \in Nat
          /\ lpBalance'[p] = lpBalance[p] + lp
          /\ \A q \in Providers \ {p} : lpBalance'[q] = lpBalance[q]
        BY <1>1, <2>1 DEF V2Types
    <2>3. SumFunction(lpBalance)' = SumFunction(lpBalance) + lp
          /\ SumFunction(lpBalance) = 0
        BY <1>2, <1>5, <2>1, <2>2, SharesMove
    <2>4. totalLp' = root
        BY <1>1, <1>5
    <2>5. V2Types'
        BY <1>1, <1>2, <1>3, <2>2, <2>4 DEF V2Types
    <2>6. v2Reserve'[0] = r + a0 /\ v2Reserve'[1] = s + a1
        BY <1>1 DEF Sides
    <2>7. LpSupplyIsHeld'
        BY <1>1, <1>2, <1>3, <2>1, <2>3, <2>4, <2>6 DEF LpSupplyIsHeld
    <2> QED BY <1>5, <2>5, <2>7 DEF ShareKeepsValue
<1> QED BY <1>2, <1>4, <1>5

\* Removing pays no more than the share's part of each reserve, and leaves some.
LEMMA RemoveKeepsShares ==
    ASSUME V2Inv, NEW p \in Providers, NEW lp \in Nat, removeLiquidity(p, lp)
    PROVE  V2Inv' /\ ShareKeepsValue
<1> USE DEF V2Inv
<1> DEFINE r == v2Reserve[0]
           s == v2Reserve[1]
           x == (lp * r) \div totalLp
           y == (lp * s) \div totalLp
<1>1. /\ lp > 0 /\ lp <= lpBalance[p]
      /\ totalLp' = totalLp - lp
      /\ lpBalance' = [lpBalance EXCEPT ![p] = @ - lp]
      /\ v2Reserve' = [t \in Sides |-> v2Reserve[t] - (lp * v2Reserve[t]) \div totalLp]
      /\ poolCreated' = poolCreated
    BY DEF removeLiquidity
<1>2. lpBalance' \in [Providers -> Nat] /\ lpBalance[p] \in Nat
      /\ lpBalance'[p] = lpBalance[p] - lp
      /\ \A q \in Providers \ {p} : lpBalance'[q] = lpBalance[q]
    BY <1>1 DEF V2Types
<1>3. /\ r \in Nat /\ s \in Nat /\ totalLp \in Nat
      /\ MINIMUM_LIQUIDITY \in Nat /\ MINIMUM_LIQUIDITY > 0
      /\ totalLp > 0 => r > 0 /\ s > 0
    BY V2Assumption DEF V2Types, Sides, LpSupplyIsHeld
<1>4. /\ SumFunction(lpBalance) \in Nat
      /\ lp <= SumFunction(lpBalance)
      /\ SumFunction(lpBalance)' = SumFunction(lpBalance) - lp
      /\ totalLp = SumFunction(lpBalance) + IF totalLp = 0 THEN 0 ELSE MINIMUM_LIQUIDITY
    <2>1. /\ SumFunction(lpBalance) \in Nat
          /\ lpBalance[p] <= SumFunction(lpBalance)
          /\ totalLp = SumFunction(lpBalance) + IF totalLp = 0 THEN 0 ELSE MINIMUM_LIQUIDITY
          /\ SumFunction(lpBalance') = SumFunction(lpBalance) - lpBalance[p] + lpBalance'[p]
        BY <1>2, SharesMove
    <2> QED BY <2>1, <1>1, <1>2
<1>5. /\ totalLp > 0 /\ lp < totalLp /\ totalLp - lp \in Nat /\ totalLp - lp > 0
      /\ totalLp = SumFunction(lpBalance) + MINIMUM_LIQUIDITY
    BY <1>1, <1>3, <1>4
<1>6. r > 0 /\ s > 0
    BY <1>3, <1>5
<1>7. x \in Nat /\ y \in Nat /\ x * totalLp <= lp * r /\ y * totalLp <= lp * s
    <2>1. totalLp \in Nat \ {0} /\ lp * r \in Nat /\ lp * s \in Nat
        BY <1>3, <1>5, ProductIsNat
    <2> QED BY <2>1, Quotient
<1>8. v2Reserve'[0] = r - x /\ v2Reserve'[1] = s - y
    BY <1>1 DEF Sides
<1> HIDE DEF x, y, r, s
<1>9. /\ lp * r < totalLp * r /\ lp * s < totalLp * s
      /\ totalLp * r = r * totalLp /\ totalLp * s = s * totalLp
    BY <1>3, <1>5, <1>6
<1>10. x * totalLp < r * totalLp /\ y * totalLp < s * totalLp
    <2>1. /\ x * totalLp \in Nat /\ lp * r \in Nat /\ r * totalLp \in Nat
          /\ y * totalLp \in Nat /\ lp * s \in Nat /\ s * totalLp \in Nat
        BY <1>3, <1>7, ProductIsNat
    <2> QED BY <2>1, <1>7, <1>9
<1>11. x < r /\ y < s
    BY <1>3, <1>7, <1>10, FactorsCancel
<1>12. r - x \in Nat /\ s - y \in Nat /\ r - x > 0 /\ s - y > 0
    BY <1>3, <1>7, <1>11
<1>13. V2Types'
    BY <1>1, <1>2, <1>5, <1>8, <1>12 DEF V2Types, Sides
<1>14. LpSupplyIsHeld'
    BY <1>1, <1>3, <1>4, <1>5, <1>8, <1>12 DEF LpSupplyIsHeld
<1>15. r * (totalLp - lp) <= (r - x) * totalLp /\ s * (totalLp - lp) <= (s - y) * totalLp
    <2>1. r * (totalLp - lp) = r * totalLp - lp * r /\ s * (totalLp - lp) = s * totalLp - lp * s
        BY <1>3
    <2>2. (r - x) * totalLp = r * totalLp - x * totalLp
          /\ (s - y) * totalLp = s * totalLp - y * totalLp
        BY <1>3, <1>7
    <2>3. /\ x * totalLp \in Nat /\ lp * r \in Nat /\ r * totalLp \in Nat
          /\ y * totalLp \in Nat /\ lp * s \in Nat /\ s * totalLp \in Nat
        BY <1>3, <1>7, ProductIsNat
    <2> QED BY <2>1, <2>2, <2>3, <1>7
<1>16. (r - x) * (s - y) * totalLp * totalLp >= r * s * (totalLp - lp) * (totalLp - lp)
    BY <1>3, <1>5, <1>12, <1>15, InProportion
<1> QED BY <1>1, <1>8, <1>13, <1>14, <1>16 DEF ShareKeepsValue, r, s

\* A swap takes less than the reserve, and the product of the reserves does not fall.
LEMMA SwapExactInKeepsShares ==
    ASSUME V2Inv, NEW s \in Sides, NEW amountIn \in Nat, NEW minOut,
           swapExactIn(s, amountIn, minOut)
    PROVE  V2Inv' /\ ShareKeepsValue /\ V2AmountOut(s, amountIn) \in Nat
<1> USE DEF V2Inv
<1> DEFINE x == v2Reserve[s]
           y == v2Reserve[1 - s]
           fee == amountIn * FEE_NUMERATOR
           d == x * FEE_DENOMINATOR + fee
           out == V2AmountOut(s, amountIn)
<1>1. /\ amountIn > 0 /\ x > 0 /\ y > 0
      /\ v2Reserve' = [t \in Sides |-> IF t = s THEN x + amountIn ELSE v2Reserve[t] - out]
      /\ UNCHANGED <<poolCreated, totalLp, lpBalance>>
    BY DEF swapExactIn, Sides
<1>2. /\ 1 - s \in Sides /\ 1 - s # s /\ Sides = {s, 1 - s}
      /\ x \in Nat /\ y \in Nat
    BY DEF V2Types, Sides
<1>3. /\ FEE_NUMERATOR \in Nat /\ FEE_NUMERATOR > 0 /\ FEE_DENOMINATOR \in Nat
      /\ FEE_NUMERATOR <= FEE_DENOMINATOR
    BY V2Assumption
<1>4. fee \in Nat /\ x * FEE_DENOMINATOR \in Nat /\ fee * y \in Nat
    BY <1>2, <1>3, ProductIsNat
<1>5. x * FEE_DENOMINATOR > 0 /\ d \in Nat /\ d > fee
    <2>1. x * FEE_DENOMINATOR > 0
        BY <1>1, <1>2, <1>3
    <2> QED BY <2>1, <1>4
<1>6. out = (fee * y) \div d
    BY DEF V2AmountOut
<1> HIDE DEF fee, d, out, x, y
<1>7. out \in Nat /\ out * d <= fee * y
    BY <1>4, <1>5, <1>6, Quotient
<1>8. out < y
    <2>1. fee * y < d * y /\ d * y = y * d
        BY <1>1, <1>2, <1>4, <1>5
    <2>2. out * d < y * d
        BY <1>2, <1>4, <1>5, <1>7, <2>1, ProductIsNat
    <2> QED BY <1>2, <1>5, <1>7, <2>2, FactorsCancel
<1>9. /\ x + amountIn \in Nat /\ x + amountIn > 0
      /\ y - out \in Nat /\ y - out > 0
    BY <1>1, <1>2, <1>7, <1>8
<1>10. v2Reserve'[s] = x + amountIn /\ v2Reserve'[1 - s] = y - out
    BY <1>1, <1>2 DEF y
<1>11. V2Types'
    BY <1>1, <1>2, <1>9 DEF V2Types, y
<1>12. v2Reserve'[0] > 0 /\ v2Reserve'[1] > 0
    BY <1>2, <1>9, <1>10 DEF Sides
<1>13. LpSupplyIsHeld'
    BY <1>1, <1>12 DEF LpSupplyIsHeld
<1>14. out * (x + amountIn) <= amountIn * y
    <2>1. out * (x * FEE_NUMERATOR + fee) <= fee * y
        <3>1. x * FEE_NUMERATOR <= x * FEE_DENOMINATOR
            BY <1>2, <1>3, ProductsGrow
        <3>2. x * FEE_NUMERATOR + fee <= d /\ x * FEE_NUMERATOR + fee \in Nat
            BY <1>2, <1>3, <1>4, <3>1, ProductIsNat DEF d
        <3>3. out * (x * FEE_NUMERATOR + fee) <= out * d
            BY <1>5, <1>7, <3>2, ProductsGrow
        <3>4. out * (x * FEE_NUMERATOR + fee) \in Nat /\ out * d \in Nat
            BY <1>5, <1>7, <3>2, ProductIsNat
        <3> QED BY <1>4, <1>7, <3>3, <3>4
    <2>2. out * (x * FEE_NUMERATOR + fee) = (out * (x + amountIn)) * FEE_NUMERATOR
          /\ fee * y = (amountIn * y) * FEE_NUMERATOR
        BY <1>2, <1>3, <1>7 DEF fee
    <2>3. out * (x + amountIn) \in Nat /\ amountIn * y \in Nat
        BY <1>2, <1>7, <1>9, ProductIsNat
    <2> QED BY <2>1, <2>2, <2>3, <1>3, FactorsCancel
<1>15. (x + amountIn) * (y - out) >= x * y
    <2>1. (x + amountIn) * (y - out) = x * y + amountIn * y - out * (x + amountIn)
        BY <1>2, <1>7
    <2>2. x * y \in Nat /\ amountIn * y \in Nat /\ out * (x + amountIn) \in Nat
        BY <1>2, <1>7, <1>9, ProductIsNat
    <2> QED BY <1>14, <2>1, <2>2
<1>16. /\ v2Reserve'[0] * v2Reserve'[1] >= v2Reserve[0] * v2Reserve[1]
       /\ v2Reserve'[0] * v2Reserve'[1] \in Nat /\ v2Reserve[0] * v2Reserve[1] \in Nat
    <2>1. x = v2Reserve[s] /\ y = v2Reserve[1 - s]
        BY DEF x, y
    <2>2. CASE s = 0
        BY <2>1, <2>2, <1>2, <1>9, <1>10, <1>15, ProductIsNat
    <2>3. CASE s = 1
        BY <2>1, <2>3, <1>2, <1>9, <1>10, <1>15, ProductIsNat
    <2> QED BY <2>2, <2>3 DEF Sides
<1>17. ShareKeepsValue
    <2> DEFINE k == v2Reserve[0] * v2Reserve[1]
               m == v2Reserve'[0] * v2Reserve'[1]
    <2>1. totalLp \in Nat /\ totalLp' = totalLp
        BY <1>1 DEF V2Types
    <2>2. k \in Nat /\ m \in Nat /\ k <= m
        BY <1>16
    <2> HIDE DEF k, m
    <2>3. k * totalLp <= m * totalLp /\ k * totalLp \in Nat /\ m * totalLp \in Nat
        BY <2>1, <2>2, ProductsGrow, ProductIsNat
    <2>4. (k * totalLp) * totalLp <= (m * totalLp) * totalLp
          /\ (k * totalLp) * totalLp \in Nat /\ (m * totalLp) * totalLp \in Nat
        BY <2>1, <2>3, ProductsGrow, ProductIsNat
    <2> QED BY <2>1, <2>4 DEF k, m, ShareKeepsValue
<1> QED BY <1>7, <1>11, <1>13, <1>17 DEF out

LEMMA V2NextInv ==
    ASSUME V2Inv, [V2Next]_v2Vars
    PROVE  V2Inv' /\ ShareKeepsValue
<1>1. CASE createPool \/ UNCHANGED v2Vars
    <2>1. V2Inv' /\ UNCHANGED <<v2Reserve, totalLp>>
        BY <1>1 DEF createPool, v2Vars, V2Inv, V2Types, LpSupplyIsHeld
    <2>2. v2Reserve[0] \in Nat /\ v2Reserve[1] \in Nat /\ totalLp \in Nat
        BY DEF V2Inv, V2Types, Sides
    <2> QED BY <2>1, <2>2, ProductIsNat DEF ShareKeepsValue
<1>2. ASSUME NEW p \in Providers, NEW a0 \in 1..MaxReserve, NEW a1 \in 1..MaxReserve,
             addLiquidity(p, a0, a1)
      PROVE  V2Inv' /\ ShareKeepsValue
    BY <1>2, V2Assumption, AddKeepsShares
<1>3. ASSUME NEW p \in Providers, NEW lp \in 1..lpBalance[p], removeLiquidity(p, lp)
      PROVE  V2Inv' /\ ShareKeepsValue
    <2>1. lpBalance[p] \in Nat
        BY DEF V2Inv, V2Types
    <2> QED BY <1>3, <2>1, RemoveKeepsShares
<1>4. ASSUME NEW s \in Sides, NEW amountIn \in 1..MaxReserve, swapExactIn(s, amountIn, 0)
      PROVE  V2Inv' /\ ShareKeepsValue
    BY <1>4, V2Assumption, SwapExactInKeepsShares
<1> QED BY <1>1, <1>2, <1>3, <1>4 DEF V2Next

\* The pool's shares are the providers' and the locked ones, and its reserves are
\* never emptied (addLiquidity, removeLiquidity, swapExactIn), for any amounts.
THEOREM LpSupplyHeld == V2Spec => []LpSupplyIsHeld
<1>1. V2Inv /\ [V2Next]_v2Vars => V2Inv'
    BY V2NextInv
<1>2. V2Inv => LpSupplyIsHeld
    BY DEF V2Inv
<1> QED BY V2InitInv, <1>1, <1>2, PTL DEF V2Spec

\* No call lowers what a share of the pool is worth: the product of the reserves over
\* the squared supply.
THEOREM LpValueKept == V2Spec => LpKeepsValue
<1>1. V2Inv /\ [V2Next]_v2Vars => V2Inv'
    BY V2NextInv
<1>2. V2Inv /\ [V2Next]_v2Vars =>
        [totalLp > 0 =>
           v2Reserve'[0] * v2Reserve'[1] * totalLp * totalLp
             >= v2Reserve[0] * v2Reserve[1] * totalLp' * totalLp']_v2Vars
    BY V2NextInv DEF ShareKeepsValue
<1> QED BY V2InitInv, <1>1, <1>2, PTL DEF V2Spec, LpKeepsValue

-------------------------------------------------------------------------------
(* V3Pool and V3PositionManager *)

Sided == [Both -> Nat]
PositionType == [liquidity : Nat, owed : Sided]
NftType ==
    {p \in [range : Ranges \cup {NoRange}, liquidity : Nat, owed : Sided] :
        p.range = NoRange => p = Unminted}

Cell == Holding \X Ranges
Owed(s) == SumFunction([hr \in Cell |-> position[hr[1]][hr[2]].owed[s]])
Provided == SumFunction([hr \in Cell |-> position[hr[1]][hr[2]].liquidity])
NftOwed(s) == SumFunction([id \in Nfts |-> positionsOf[id].owed[s]])
NftLiquidity(r) == SumFunction([id \in Nfts |-> LiquidityIn(r, positionsOf[id])])

PoolPart ==
    /\ liquidity \in Nat /\ v3Reserve \in Sided /\ poolTokens \in Sided
    /\ position \in [Holding -> [Ranges -> PositionType]]
    /\ \A s \in Both : poolTokens[s] = v3Reserve[s] + Owed(s)
    /\ liquidity = Provided

\* The manager collects what it burns in the same call, so the pool owes it nothing.
ManagerPart ==
    /\ positionsOf \in [Nfts -> NftType] /\ managerTokens \in Sided
    /\ \A s \in Both : managerTokens[s] = NftOwed(s)
    /\ \A r \in Ranges : /\ position[Manager][r].owed = None
                         /\ position[Manager][r].liquidity >= NftLiquidity(r)

DexInv == PoolPart /\ ManagerPart

LEMMA DexInvBacks == DexInv => DexIsBacked
<1> SUFFICES ASSUME DexInv PROVE DexIsBacked
    OBVIOUS
<1> USE DEF DexInv
<1>1. \A s \in Both : /\ poolTokens[s] = v3Reserve[s] + Owed(s)
                       /\ managerTokens[s] = NftOwed(s)
                       /\ v3Reserve[s] >= 0 /\ managerTokens[s] >= 0
    BY DEF PoolPart, ManagerPart, Sided
<1>2. liquidity = Provided
    BY DEF PoolPart
<1>3. \A r \in Ranges : /\ position[Manager][r].owed = None
                         /\ position[Manager][r].liquidity >= NftLiquidity(r)
    BY DEF ManagerPart
<1> QED BY <1>1, <1>2, <1>3 DEF DexIsBacked, Owed, Provided, NftOwed, NftLiquidity, Cell

LEMMA CellsAreFinite == IsFiniteSet(Cell)
<1>1. IsFiniteSet({Manager}) /\ IsFiniteSet({Manager} \cup {Direct})
    BY FS_Singleton, FS_AddElement
<1>2. Holding = {Manager} \cup {Direct}
    BY DEF Holding
<1> QED BY <1>1, <1>2, V3Assumption, FS_Product DEF Cell

LEMMA NoneIsSided == None \in Sided /\ Unminted \in NftType
BY DEF None, Sided, Unminted, NftType, Both

\* A call of the pool changes one position; the sums over the positions move by it.
LEMMA OnePositionMoves ==
    ASSUME PoolPart, NEW h \in Holding, NEW r \in Ranges, NEW p \in PositionType,
           position' = [position EXCEPT ![h][r] = p]
    PROVE  /\ position' \in [Holding -> [Ranges -> PositionType]]
           /\ position'[h][r] = p
           /\ \A k \in Holding, q \in Ranges :
                 <<k, q>> # <<h, r>> => position'[k][q] = position[k][q]
           /\ \A s \in Both : /\ Owed(s) \in Nat
                              /\ Owed(s)' = Owed(s) - position[h][r].owed[s] + p.owed[s]
           /\ Provided \in Nat
           /\ Provided' = Provided - position[h][r].liquidity + p.liquidity
<1> USE DEF PoolPart
<1>1. /\ position' \in [Holding -> [Ranges -> PositionType]]
      /\ position'[h][r] = p
      /\ \A k \in Holding, q \in Ranges :
            <<k, q>> # <<h, r>> => position'[k][q] = position[k][q]
    OBVIOUS
<1>2. <<h, r>> \in Cell
    BY DEF Cell
<1>3. ASSUME NEW s \in Both
      PROVE  /\ Owed(s) \in Nat
             /\ Owed(s)' = Owed(s) - position[h][r].owed[s] + p.owed[s]
    <2> DEFINE f == [hr \in Cell |-> position[hr[1]][hr[2]].owed[s]]
               g == [hr \in Cell |-> position'[hr[1]][hr[2]].owed[s]]
    <2>1. f \in [Cell -> Nat] /\ g \in [Cell -> Nat]
        BY <1>1 DEF Cell, PositionType, Sided
    <2>2. \A c \in Cell \ {<<h, r>>} : g[c] = f[c]
        BY <1>1 DEF Cell
    <2>3. f[<<h, r>>] = position[h][r].owed[s] /\ g[<<h, r>>] = p.owed[s]
        BY <1>1, <1>2
    <2> HIDE DEF f, g
    <2>4. SumFunction(f) \in Nat /\ SumFunction(g) = SumFunction(f) - f[<<h, r>>] + g[<<h, r>>]
        BY ONLY <1>2, <2>1, <2>2, CellsAreFinite, SumChange
    <2> QED BY <2>3, <2>4 DEF Owed, f, g
<1>4. /\ Provided \in Nat
      /\ Provided' = Provided - position[h][r].liquidity + p.liquidity
    <2> DEFINE f == [hr \in Cell |-> position[hr[1]][hr[2]].liquidity]
               g == [hr \in Cell |-> position'[hr[1]][hr[2]].liquidity]
    <2>1. f \in [Cell -> Nat] /\ g \in [Cell -> Nat]
        BY <1>1 DEF Cell, PositionType
    <2>2. \A c \in Cell \ {<<h, r>>} : g[c] = f[c]
        BY <1>1 DEF Cell
    <2>3. f[<<h, r>>] = position[h][r].liquidity /\ g[<<h, r>>] = p.liquidity
        BY <1>1, <1>2
    <2> HIDE DEF f, g
    <2>4. SumFunction(f) \in Nat /\ SumFunction(g) = SumFunction(f) - f[<<h, r>>] + g[<<h, r>>]
        BY ONLY <1>2, <2>1, <2>2, CellsAreFinite, SumChange
    <2> QED BY <2>3, <2>4 DEF Provided, f, g
<1> QED BY <1>1, <1>3, <1>4

\* The pool stays whole if its tokens move by what moves in the reserves and in what
\* that position is owed, and its liquidity by the position's.
LEMMA PoolKept ==
    ASSUME PoolPart, NEW h \in Holding, NEW r \in Ranges, NEW p \in PositionType,
           position' = [position EXCEPT ![h][r] = p],
           liquidity' = liquidity - position[h][r].liquidity + p.liquidity,
           v3Reserve' \in Sided, poolTokens' \in [Both -> Int],
           \A s \in Both : poolTokens'[s] = poolTokens[s] + v3Reserve'[s] - v3Reserve[s]
                                              - position[h][r].owed[s] + p.owed[s]
    PROVE  PoolPart'
<1>1. /\ position' \in [Holding -> [Ranges -> PositionType]]
      /\ position'[h][r] = p
      /\ \A k \in Holding, q \in Ranges :
            <<k, q>> # <<h, r>> => position'[k][q] = position[k][q]
      /\ \A s \in Both : /\ Owed(s) \in Nat
                         /\ Owed(s)' = Owed(s) - position[h][r].owed[s] + p.owed[s]
      /\ Provided \in Nat
      /\ Provided' = Provided - position[h][r].liquidity + p.liquidity
    <2>1. position' = [position EXCEPT ![h][r] = p]
        OBVIOUS
    <2> QED BY ONLY <2>1, PoolPart, h \in Holding, r \in Ranges, p \in PositionType,
                    OnePositionMoves, ZenonT(120)
<1>2. \A s \in Both : Owed(s)' \in Nat
    <2> SUFFICES ASSUME NEW s \in Both PROVE Owed(s)' \in Nat
        OBVIOUS
    <2> DEFINE g == [hr \in Cell |-> position'[hr[1]][hr[2]].owed[s]]
    <2>1. g \in [Cell -> Nat]
        BY <1>1 DEF Cell, PositionType, Sided
    <2> HIDE DEF g
    <2> QED BY <2>1, CellsAreFinite, SumUpdate DEF Owed, g
<1>3. Provided' \in Nat
    <2> DEFINE g == [hr \in Cell |-> position'[hr[1]][hr[2]].liquidity]
    <2>1. g \in [Cell -> Nat]
        BY <1>1 DEF Cell, PositionType
    <2> HIDE DEF g
    <2> QED BY <2>1, CellsAreFinite, SumUpdate DEF Provided, g
<1>4. ASSUME NEW s \in Both
      PROVE  poolTokens'[s] \in Nat /\ poolTokens'[s] = v3Reserve'[s] + Owed(s)'
    <2>1. /\ poolTokens[s] = v3Reserve[s] + Owed(s)
          /\ v3Reserve[s] \in Nat /\ v3Reserve'[s] \in Nat
          /\ position[h][r].owed[s] \in Nat /\ p.owed[s] \in Nat
        BY DEF PoolPart, PositionType, Sided
    <2>2. poolTokens'[s] = poolTokens[s] + v3Reserve'[s] - v3Reserve[s]
                             - position[h][r].owed[s] + p.owed[s]
        OBVIOUS
    <2>3. Owed(s) \in Nat /\ Owed(s)' \in Nat
          /\ Owed(s)' = Owed(s) - position[h][r].owed[s] + p.owed[s]
        BY <1>1, <1>2
    <2> QED BY <2>1, <2>2, <2>3
<1>5. poolTokens' \in Sided
    BY <1>4 DEF Sided
<1>6. liquidity' = Provided'
    BY <1>1 DEF PoolPart
<1> QED BY <1>1, <1>3, <1>4, <1>5, <1>6 DEF PoolPart

\* The manager stays whole if what it holds moves by what one NFT is owed, and its
\* position in each range by at least what that NFT has in it.
LEMMA ManagerKept ==
    ASSUME ManagerPart, NEW id \in Nfts, NEW p \in NftType,
           positionsOf' = [positionsOf EXCEPT ![id] = p],
           managerTokens' \in [Both -> Int],
           \A s \in Both : managerTokens'[s] = managerTokens[s]
                                                 - positionsOf[id].owed[s] + p.owed[s],
           \A r \in Ranges :
              /\ position[Manager][r].liquidity \in Nat
              /\ position'[Manager][r].liquidity \in Nat
              /\ position'[Manager][r].owed = None
              /\ position'[Manager][r].liquidity >= position[Manager][r].liquidity
                    - LiquidityIn(r, positionsOf[id]) + LiquidityIn(r, p)
    PROVE  ManagerPart'
<1> USE DEF ManagerPart
<1>1. /\ positionsOf' \in [Nfts -> NftType]
      /\ positionsOf'[id] = p
      /\ \A x \in Nfts \ {id} : positionsOf'[x] = positionsOf[x]
    OBVIOUS
<1>2. ASSUME NEW s \in Both
      PROVE  managerTokens'[s] \in Nat /\ managerTokens'[s] = NftOwed(s)'
    <2> DEFINE f == [x \in Nfts |-> positionsOf[x].owed[s]]
               g == [x \in Nfts |-> positionsOf'[x].owed[s]]
    <2>1. f \in [Nfts -> Nat] /\ g \in [Nfts -> Nat] /\ id \in Nfts
        BY <1>1 DEF NftType, Sided
    <2>2. \A x \in Nfts \ {id} : g[x] = f[x]
        BY <1>1
    <2>3. f[id] = positionsOf[id].owed[s] /\ g[id] = p.owed[s]
        BY <1>1
    <2> HIDE DEF f, g
    <2>4. /\ SumFunction(f) \in Nat /\ SumFunction(g) \in Nat
          /\ SumFunction(g) = SumFunction(f) - f[id] + g[id]
        BY ONLY <2>1, <2>2, V3Assumption, SumChange
    <2>5. managerTokens[s] = SumFunction(f)
          /\ managerTokens'[s] = managerTokens[s] - f[id] + g[id]
        BY <2>3 DEF NftOwed, f
    <2> QED BY <2>4, <2>5 DEF NftOwed, g
<1>3. ASSUME NEW r \in Ranges
      PROVE  position'[Manager][r].liquidity >= NftLiquidity(r)'
    <2> DEFINE f == [x \in Nfts |-> LiquidityIn(r, positionsOf[x])]
               g == [x \in Nfts |-> LiquidityIn(r, positionsOf'[x])]
    <2>1. f \in [Nfts -> Nat] /\ g \in [Nfts -> Nat] /\ id \in Nfts
        BY <1>1 DEF NftType, LiquidityIn
    <2>2. \A x \in Nfts \ {id} : g[x] = f[x]
        BY <1>1
    <2>3. f[id] = LiquidityIn(r, positionsOf[id]) /\ g[id] = LiquidityIn(r, p)
        BY <1>1
    <2>4. f[id] \in Nat /\ g[id] \in Nat
        BY <2>1
    <2> HIDE DEF f, g
    <2>5. /\ SumFunction(f) \in Nat
          /\ SumFunction(g) = SumFunction(f) - f[id] + g[id]
        BY ONLY <2>1, <2>2, V3Assumption, SumChange
    <2>6. /\ position[Manager][r].liquidity \in Nat /\ position'[Manager][r].liquidity \in Nat
          /\ position[Manager][r].liquidity >= SumFunction(f)
          /\ position'[Manager][r].liquidity >= position[Manager][r].liquidity - f[id] + g[id]
        BY <2>3 DEF NftLiquidity, f
    <2>7. position'[Manager][r].liquidity >= SumFunction(g)
        BY <2>4, <2>5, <2>6
    <2> QED BY <2>7 DEF NftLiquidity, g
<1>4. managerTokens' \in Sided
    BY <1>2 DEF Sided
<1> QED BY <1>1, <1>2, <1>3, <1>4

LEMMA ManagerUntouched ==
    ASSUME PoolPart, ManagerPart, UNCHANGED <<positionsOf, managerTokens>>,
           \A r \in Ranges :
              /\ position'[Manager][r].liquidity \in Nat
              /\ position'[Manager][r].owed = position[Manager][r].owed
              /\ position'[Manager][r].liquidity >= position[Manager][r].liquidity
    PROVE  ManagerPart'
<1>1. \A s \in Both : NftOwed(s)' = NftOwed(s)
    BY DEF NftOwed
<1>2. ASSUME NEW r \in Ranges
      PROVE  position'[Manager][r].liquidity >= NftLiquidity(r)'
    <2> DEFINE f == [x \in Nfts |-> LiquidityIn(r, positionsOf[x])]
    <2>1. f \in [Nfts -> Nat]
        BY DEF ManagerPart, NftType, LiquidityIn
    <2> HIDE DEF f
    <2>2. SumFunction(f) \in Nat
        BY ONLY <2>1, V3Assumption, SumUpdate
    <2>3. NftLiquidity(r) \in Nat /\ NftLiquidity(r)' = NftLiquidity(r)
        BY <2>2 DEF NftLiquidity, f
    <2>4. position[Manager][r].liquidity \in Nat
        BY DEF PoolPart, Holding, PositionType
    <2>5. position[Manager][r].liquidity >= NftLiquidity(r)
        BY DEF ManagerPart
    <2>6. position'[Manager][r].liquidity \in Nat
          /\ position'[Manager][r].liquidity >= position[Manager][r].liquidity
        OBVIOUS
    <2> QED BY <2>3, <2>4, <2>5, <2>6
<1> QED BY <1>1, <1>2 DEF ManagerPart

LEMMA DexInitInv == V3Init => DexInv
<1> SUFFICES ASSUME V3Init PROVE DexInv
    OBVIOUS
<1> USE DEF V3Init
<1>1. /\ liquidity = 0 /\ v3Reserve \in Sided /\ poolTokens \in Sided
      /\ position \in [Holding -> [Ranges -> PositionType]]
      /\ positionsOf \in [Nfts -> NftType] /\ managerTokens \in Sided
    <2>1. [liquidity |-> 0, owed |-> None] \in PositionType
        BY NoneIsSided DEF PositionType
    <2> QED BY <2>1, NoneIsSided
<1>2. ASSUME NEW f \in [Cell -> Nat], \A c \in Cell : f[c] = 0
      PROVE  SumFunction(f) = 0
    BY ONLY <1>2, f \in [Cell -> Nat], CellsAreFinite, SumUpdate
<1>3. ASSUME NEW f \in [Nfts -> Nat], \A c \in Nfts : f[c] = 0
      PROVE  SumFunction(f) = 0
    BY ONLY <1>3, f \in [Nfts -> Nat], V3Assumption, SumUpdate
<1>4. ASSUME NEW s \in Both
      PROVE  Owed(s) = 0 /\ NftOwed(s) = 0
    <2> DEFINE f == [hr \in Cell |-> position[hr[1]][hr[2]].owed[s]]
               g == [id \in Nfts |-> positionsOf[id].owed[s]]
    <2>1. f \in [Cell -> Nat] /\ \A c \in Cell : f[c] = 0
        BY DEF Cell, None
    <2>2. g \in [Nfts -> Nat] /\ \A c \in Nfts : g[c] = 0
        BY DEF Unminted, None
    <2> HIDE DEF f, g
    <2>3. SumFunction(f) = 0 /\ SumFunction(g) = 0
        BY <2>1, <2>2, <1>2, <1>3
    <2> QED BY <2>3 DEF Owed, NftOwed, f, g
<1>5. Provided = 0
    <2> DEFINE f == [hr \in Cell |-> position[hr[1]][hr[2]].liquidity]
    <2>1. f \in [Cell -> Nat] /\ \A c \in Cell : f[c] = 0
        BY DEF Cell
    <2> HIDE DEF f
    <2>2. SumFunction(f) = 0
        BY <2>1, <1>2
    <2> QED BY <2>2 DEF Provided, f
<1>6. ASSUME NEW r \in Ranges
      PROVE  NftLiquidity(r) = 0
    <2> DEFINE g == [id \in Nfts |-> LiquidityIn(r, positionsOf[id])]
    <2>1. g \in [Nfts -> Nat] /\ \A c \in Nfts : g[c] = 0
        BY DEF LiquidityIn, Unminted
    <2> HIDE DEF g
    <2>2. SumFunction(g) = 0
        BY <2>1, <1>3
    <2> QED BY <2>2 DEF NftLiquidity, g
<1>7. \A s \in Both : poolTokens[s] = 0 /\ v3Reserve[s] = 0 /\ managerTokens[s] = 0
    BY DEF None
<1>8. \A r \in Ranges : position[Manager][r] = [liquidity |-> 0, owed |-> None]
    BY DEF Holding
<1>9. PoolPart
    BY <1>1, <1>4, <1>5, <1>7 DEF PoolPart
<1>10. ManagerPart
    BY <1>1, <1>4, <1>6, <1>7, <1>8 DEF ManagerPart
<1> QED BY <1>9, <1>10 DEF DexInv

-------------------------------------------------------------------------------

LEMMA MintKeepsPool ==
    ASSUME PoolPart, NEW h \in Holding, NEW r \in Ranges, NEW amount \in Nat,
           PoolMint(h, r, amount)
    PROVE  /\ PoolPart'
           /\ position' = [position EXCEPT ![h][r] =
                 [liquidity |-> position[h][r].liquidity + amount,
                  owed |-> position[h][r].owed]]
<1> DEFINE p == [liquidity |-> position[h][r].liquidity + amount,
                 owed |-> position[h][r].owed]
<1>1. /\ position[h][r] \in PositionType /\ position[h][r].liquidity \in Nat
      /\ position[h][r].owed \in Sided
      /\ liquidity \in Nat /\ v3Reserve \in Sided /\ poolTokens \in Sided
    BY DEF PoolPart, PositionType
<1>2. p \in PositionType
    BY <1>1 DEF PositionType
<1>3. position' = [position EXCEPT ![h][r] = p]
    <2> DEFINE old == position[h][r]
    <2>1. [old EXCEPT !.liquidity = @ + amount] = p
        BY <1>1 DEF PositionType
    <2>2. position' = [position EXCEPT ![h][r] = [old EXCEPT !.liquidity = @ + amount]]
        BY DEF PoolMint, PoolPart
    <2> QED BY <2>1, <2>2
<1>4. liquidity' = liquidity - position[h][r].liquidity + p.liquidity
    BY <1>1 DEF PoolMint
<1>5. /\ v3Reserve' \in Sided /\ poolTokens' \in [Both -> Int]
      /\ \A s \in Both : /\ v3Reserve'[s] = v3Reserve[s] + amount
                         /\ poolTokens'[s] = poolTokens[s] + amount
    BY <1>1 DEF PoolMint, Plus, Each, Sided
<1>6. \A s \in Both : poolTokens'[s] = poolTokens[s] + v3Reserve'[s] - v3Reserve[s]
                                          - position[h][r].owed[s] + p.owed[s]
    <2>1. \A s \in Both : /\ v3Reserve[s] \in Nat /\ poolTokens[s] \in Nat
                          /\ position[h][r].owed[s] \in Nat /\ p.owed[s] = position[h][r].owed[s]
        BY <1>1 DEF Sided
    <2> QED BY <2>1, <1>5
<1> HIDE DEF p
<1>7. PoolPart'
    BY <1>2, <1>3, <1>4, <1>5, <1>6, PoolKept
<1> QED BY <1>3, <1>7 DEF p

LEMMA BurnedIsSided ==
    ASSUME PoolPart, NEW amount \in Nat
    PROVE  /\ Burned(amount) \in Sided
           /\ Minus(v3Reserve, Burned(amount)) \in Sided
<1>1. v3Reserve \in Sided
    BY DEF PoolPart
<1> QED BY <1>1 DEF Burned, Sided, Minus

\* A burn, with the payment of at most what the position is then owed.
LEMMA BurnKeepsPool ==
    ASSUME PoolPart, NEW h \in Holding, NEW r \in Ranges, NEW amount \in Nat,
           NEW paid \in Sided,
           \A s \in Both : paid[s] <= position[h][r].owed[s] + Burned(amount)[s],
           PoolBurn(h, r, amount, paid)
    PROVE  /\ PoolPart'
           /\ position' = [position EXCEPT ![h][r] =
                 [liquidity |-> position[h][r].liquidity - amount,
                  owed |-> Minus(Plus(position[h][r].owed, Burned(amount)), paid)]]
<1> DEFINE p == [liquidity |-> position[h][r].liquidity - amount,
                 owed |-> Minus(Plus(position[h][r].owed, Burned(amount)), paid)]
<1>1. /\ position[h][r] \in PositionType /\ position[h][r].liquidity \in Nat
      /\ position[h][r].owed \in Sided
      /\ liquidity \in Nat /\ v3Reserve \in Sided /\ poolTokens \in Sided
    BY DEF PoolPart, PositionType
<1>2. Burned(amount) \in Sided /\ Minus(v3Reserve, Burned(amount)) \in Sided
    BY BurnedIsSided
<1>3. \A s \in Both :
          /\ position[h][r].owed[s] \in Nat /\ Burned(amount)[s] \in Nat /\ paid[s] \in Nat
          /\ v3Reserve[s] \in Nat /\ poolTokens[s] \in Nat
          /\ paid[s] <= position[h][r].owed[s] + Burned(amount)[s]
    BY <1>1, <1>2 DEF Sided
<1>4. /\ p.owed \in Sided
      /\ \A s \in Both : p.owed[s] = position[h][r].owed[s] + Burned(amount)[s] - paid[s]
    BY <1>3 DEF Sided, Minus, Plus
<1>5. p \in PositionType
    <2>1. position[h][r].liquidity - amount \in Nat
        BY <1>1 DEF PoolBurn
    <2> QED BY <2>1, <1>4 DEF PositionType
<1>6. position' = [position EXCEPT ![h][r] = p]
    <2> DEFINE old == position[h][r]
               new == [old EXCEPT !.liquidity = @ - amount,
                                  !.owed = Minus(Plus(@, Burned(amount)), paid)]
    <2>1. new = p
        <3> DEFINE burnt == [old EXCEPT !.liquidity = @ - amount]
        <3>1. burnt = [liquidity |-> old.liquidity - amount, owed |-> old.owed]
            BY <1>1 DEF PositionType
        <3> HIDE DEF burnt
        <3>2. [burnt EXCEPT !.owed = Minus(Plus(@, Burned(amount)), paid)] = p
            BY <3>1
        <3> QED BY <3>2 DEF burnt
    <2>2. position' = [position EXCEPT ![h][r] = new]
        BY DEF PoolBurn, PoolPart
    <2> QED BY <2>1, <2>2
<1>7. liquidity' = liquidity - position[h][r].liquidity + p.liquidity
    BY <1>1 DEF PoolBurn
<1>8. /\ v3Reserve' \in Sided /\ poolTokens' \in [Both -> Int]
      /\ \A s \in Both : /\ v3Reserve'[s] = v3Reserve[s] - Burned(amount)[s]
                         /\ poolTokens'[s] = poolTokens[s] - paid[s]
    <2>1. v3Reserve' = Minus(v3Reserve, Burned(amount)) /\ poolTokens' = Minus(poolTokens, paid)
        BY DEF PoolBurn
    <2> QED BY <2>1, <1>2, <1>3 DEF Minus
<1> HIDE DEF p
<1>9. \A s \in Both : poolTokens'[s] = poolTokens[s] + v3Reserve'[s] - v3Reserve[s]
                                          - position[h][r].owed[s] + p.owed[s]
    BY <1>3, <1>4, <1>8
<1>10. PoolPart'
    BY <1>5, <1>6, <1>7, <1>8, <1>9, PoolKept
<1> QED BY <1>6, <1>10 DEF p

LEMMA CollectKeepsPool ==
    ASSUME PoolPart, NEW r \in Ranges, NEW h \in Holding, NEW asked \in Sided,
           PoolCollect(h, r, asked)
    PROVE  /\ PoolPart'
           /\ \A k \in Holding \ {h} : position'[k] = position[k]
<1> DEFINE owed == position[h][r].owed
           paid == [s \in Both |-> IF asked[s] > owed[s] THEN owed[s] ELSE asked[s]]
           p == [liquidity |-> position[h][r].liquidity, owed |-> Minus(owed, paid)]
<1>1. /\ position[h][r] \in PositionType /\ position[h][r].liquidity \in Nat
      /\ owed \in Sided
      /\ liquidity \in Nat /\ v3Reserve \in Sided /\ poolTokens \in Sided
    BY DEF PoolPart, PositionType
<1>2. \A s \in Both : owed[s] \in Nat /\ paid[s] \in Nat /\ paid[s] <= owed[s]
                      /\ v3Reserve[s] \in Nat /\ poolTokens[s] \in Nat
    BY <1>1 DEF Sided
<1>3. /\ position' = [position EXCEPT ![h][r].owed = Minus(owed, paid)]
      /\ poolTokens' = Minus(poolTokens, paid)
      /\ liquidity' = liquidity /\ v3Reserve' = v3Reserve
    BY DEF PoolCollect
<1> HIDE DEF paid
<1>4. Minus(owed, paid) \in Sided /\ \A s \in Both : Minus(owed, paid)[s] = owed[s] - paid[s]
    BY <1>2 DEF Minus, Sided
<1>5. p \in PositionType
    BY <1>1, <1>4 DEF PositionType
<1>6. position' = [position EXCEPT ![h][r] = p]
    <2> DEFINE old == position[h][r]
               new == [old EXCEPT !.owed = Minus(owed, paid)]
    <2>1. new = p
        BY <1>1 DEF PositionType
    <2>2. position' = [position EXCEPT ![h][r] = new]
        BY <1>3 DEF PoolPart
    <2> QED BY <2>1, <2>2
<1>7. poolTokens' \in [Both -> Int] /\ \A s \in Both : poolTokens'[s] = poolTokens[s] - paid[s]
    BY <1>2, <1>3 DEF Minus
<1>8. liquidity' = liquidity - position[h][r].liquidity + p.liquidity /\ v3Reserve' \in Sided
    BY <1>1, <1>3
<1>9. \A s \in Both : poolTokens'[s] = poolTokens[s] + v3Reserve'[s] - v3Reserve[s]
                                          - position[h][r].owed[s] + p.owed[s]
    BY <1>2, <1>3, <1>4, <1>7
<1> HIDE DEF p
<1>10. PoolPart'
    BY <1>5, <1>6, <1>7, <1>8, <1>9, PoolKept
<1>11. \A k \in Holding \ {h} : position'[k] = position[k]
    BY <1>6 DEF PoolPart
<1> QED BY <1>10, <1>11

\* A swap moves reserves and tokens alike, and leaves something of either reserve.
LEMMA PoolSwapKeepsDex ==
    ASSUME DexInv, NEW s \in Both, NEW amountIn \in Nat, PoolSwap(s, amountIn)
    PROVE  DexInv' /\ V3AmountOut(s, amountIn) \in Nat
<1> USE DEF DexInv
<1> DEFINE out == V3AmountOut(s, amountIn)
           moved == [t \in Both |-> IF t = s THEN amountIn ELSE -out]
           lessFee == (amountIn * V3_FEE) \div V3_FEE_UNIT
<1>1. /\ v3Reserve \in Sided /\ poolTokens \in Sided
      /\ 1 - s \in Both /\ 1 - s # s /\ Both = {s, 1 - s}
      /\ v3Reserve[s] \in Nat /\ v3Reserve[1 - s] \in Nat
    BY DEF PoolPart, Sided, Both
<1>2. /\ v3Reserve[0] > 0 /\ v3Reserve[1] > 0 /\ out < v3Reserve[1 - s]
      /\ v3Reserve' = Plus(v3Reserve, moved) /\ poolTokens' = Plus(poolTokens, moved)
      /\ UNCHANGED <<liquidity, position, positionsOf, managerTokens>>
    BY DEF PoolSwap
<1>3. out \in Nat
    <2>1. lessFee \in Nat
        <3>1. amountIn * V3_FEE \in Nat /\ V3_FEE_UNIT \in Nat \ {0}
            BY V3Assumption, ProductIsNat
        <3> QED BY <3>1, Quotient
    <2>2. out = (lessFee * v3Reserve[1 - s]) \div (v3Reserve[s] + lessFee)
        BY DEF V3AmountOut
    <2> HIDE DEF lessFee
    <2>3. v3Reserve[s] > 0
        BY <1>2 DEF Both
    <2>4. v3Reserve[s] + lessFee \in Nat \ {0} /\ lessFee * v3Reserve[1 - s] \in Nat
        BY <1>1, <2>1, <2>3, ProductIsNat
    <2> HIDE DEF out
    <2> QED BY <2>2, <2>4, Quotient
<1> HIDE DEF out, lessFee
<1>4. /\ v3Reserve' \in [Both -> Int] /\ poolTokens' \in [Both -> Int]
      /\ \A t \in Both : /\ v3Reserve'[t] = v3Reserve[t] + moved[t]
                         /\ poolTokens'[t] = poolTokens[t] + moved[t]
                         /\ moved[t] \in Int /\ v3Reserve[t] \in Nat /\ poolTokens[t] \in Nat
    BY <1>1, <1>2, <1>3 DEF Plus, Sided
<1>5. \A t \in Both : v3Reserve'[t] \in Nat
    <2>1. v3Reserve'[s] = v3Reserve[s] + amountIn /\ v3Reserve'[1 - s] = v3Reserve[1 - s] - out
        BY <1>1, <1>3, <1>4
    <2>2. v3Reserve'[s] \in Nat /\ v3Reserve'[1 - s] \in Nat
        BY <1>1, <1>2, <1>3, <2>1
    <2> QED BY <1>1, <2>2
<1>6. \A t \in Both : Owed(t)' = Owed(t) /\ Owed(t) \in Nat
    <2>1. \A t \in Both : Owed(t)' = Owed(t)
        BY <1>2 DEF Owed
    <2>2. ASSUME NEW t \in Both PROVE Owed(t) \in Nat
        <3> DEFINE g == [hr \in Cell |-> position[hr[1]][hr[2]].owed[t]]
        <3>1. g \in [Cell -> Nat]
            BY DEF PoolPart, Cell, PositionType, Sided
        <3> HIDE DEF g
        <3>2. SumFunction(g) \in Nat
            BY ONLY <3>1, CellsAreFinite, SumUpdate
        <3> QED BY <3>2 DEF Owed, g
    <2> QED BY <2>1, <2>2
<1> HIDE DEF moved
<1>7. \A t \in Both : poolTokens'[t] \in Nat /\ poolTokens'[t] = v3Reserve'[t] + Owed(t)'
    <2>1. \A t \in Both : poolTokens[t] = v3Reserve[t] + Owed(t)
        BY DEF PoolPart
    <2> QED BY <2>1, <1>4, <1>5, <1>6
<1>8. PoolPart'
    <2>1. v3Reserve' \in Sided /\ poolTokens' \in Sided
        BY <1>4, <1>5, <1>7 DEF Sided
    <2>2. liquidity' = Provided'
        BY <1>2 DEF PoolPart, Provided
    <2> QED BY <1>2, <1>7, <2>1, <2>2 DEF PoolPart
<1>9. ManagerPart'
    BY <1>2 DEF ManagerPart, NftOwed, NftLiquidity
<1> QED BY <1>3, <1>8, <1>9 DEF out

-------------------------------------------------------------------------------

LEMMA MintPositionKeepsDex ==
    ASSUME DexInv, NEW id \in Nfts, NEW r \in Ranges, NEW amount \in Nat,
           MintPosition(id, r, amount)
    PROVE  DexInv'
<1> USE DEF DexInv
<1> DEFINE p == [range |-> r, liquidity |-> amount, owed |-> None]
           old == position[Manager][r]
<1>1. /\ Manager \in Holding
      /\ positionsOf[id] = Unminted /\ positionsOf' = [positionsOf EXCEPT ![id] = p]
      /\ managerTokens' = managerTokens /\ PoolMint(Manager, r, amount)
    BY DEF MintPosition, Holding
<1>2. /\ PoolPart'
      /\ position' = [position EXCEPT ![Manager][r] =
                         [liquidity |-> old.liquidity + amount, owed |-> old.owed]]
    BY <1>1, MintKeepsPool
<1>3. p \in NftType
    BY NoneIsSided, V3Assumption DEF NftType
<1>4. \A q \in Ranges : /\ position[Manager][q].liquidity \in Nat
                        /\ position[Manager][q].owed = None
    BY <1>1 DEF PoolPart, ManagerPart, PositionType
<1>5. /\ position'[Manager][r].liquidity = old.liquidity + amount
      /\ position'[Manager][r].owed = old.owed
      /\ \A q \in Ranges \ {r} : position'[Manager][q] = position[Manager][q]
    BY <1>1, <1>2 DEF PoolPart
<1>6. \A q \in Ranges :
         /\ position'[Manager][q].liquidity \in Nat
         /\ position'[Manager][q].owed = None
         /\ position'[Manager][q].liquidity >= position[Manager][q].liquidity
               - LiquidityIn(q, positionsOf[id]) + LiquidityIn(q, p)
    <2>1. \A q \in Ranges : /\ LiquidityIn(q, positionsOf[id]) = 0
                            /\ LiquidityIn(q, p) = IF q = r THEN amount ELSE 0
        BY <1>1 DEF LiquidityIn, Unminted
    <2> QED BY <1>4, <1>5, <2>1
<1>7. /\ managerTokens' \in [Both -> Int]
      /\ \A s \in Both : managerTokens'[s] = managerTokens[s]
                                               - positionsOf[id].owed[s] + p.owed[s]
    <2>1. positionsOf[id].owed = None /\ p.owed = None /\ managerTokens \in [Both -> Nat]
        BY <1>1 DEF ManagerPart, Sided, Unminted
    <2> QED BY <1>1, <2>1 DEF None
<1> HIDE DEF p
<1>8. ManagerPart'
    BY <1>1, <1>3, <1>4, <1>6, <1>7, ManagerKept
<1> QED BY <1>2, <1>8

\* The pool pays the manager all that it burned, so it owes the manager nothing still.
LEMMA DecreaseKeepsDex ==
    ASSUME DexInv, NEW id \in Nfts, NEW delta \in Nat, DecreaseLiquidity(id, delta)
    PROVE  DexInv'
<1> USE DEF DexInv
<1> DEFINE n == positionsOf[id]
           b == Burned(delta)
           p == [range |-> n.range, liquidity |-> n.liquidity - delta, owed |-> Plus(n.owed, b)]
           old == position[Manager][n.range]
<1>1. /\ delta > 0 /\ n.liquidity >= delta
      /\ PoolBurn(Manager, n.range, delta, b)
      /\ positionsOf' = [positionsOf EXCEPT ![id].liquidity = @ - delta,
                                            ![id].owed = Plus(@, b)]
      /\ managerTokens' = Plus(managerTokens, b)
    BY DEF DecreaseLiquidity
<1>2. /\ n \in NftType /\ n.liquidity \in Nat /\ n.owed \in Sided
      /\ n.range \in Ranges \cup {NoRange}
    BY DEF ManagerPart, NftType
<1>3. n.range \in Ranges
    BY <1>1, <1>2 DEF NftType, Unminted
<1>4. b \in Sided
    BY BurnedIsSided
<1>5. /\ Manager \in Holding
      /\ \A q \in Ranges : /\ position[Manager][q].liquidity \in Nat
                           /\ position[Manager][q].owed = None
    BY DEF PoolPart, ManagerPart, PositionType, Holding
<1>6. \A s \in Both : b[s] \in Nat /\ None[s] = 0 /\ b[s] <= None[s] + b[s]
    BY <1>4 DEF Sided, None
<1> HIDE DEF b
<1>7. Minus(Plus(None, b), b) = None
    BY <1>6 DEF Minus, Plus, None
<1>8. /\ PoolPart'
      /\ position' = [position EXCEPT ![Manager][n.range] =
             [liquidity |-> old.liquidity - delta, owed |-> Minus(Plus(old.owed, b), b)]]
    <2>1. \A s \in Both : b[s] <= old.owed[s] + Burned(delta)[s]
        BY <1>3, <1>5, <1>6 DEF b
    <2> QED BY <1>1, <1>3, <1>4, <1>5, <2>1, BurnKeepsPool DEF b
<1>9. /\ position'[Manager][n.range].liquidity = old.liquidity - delta
      /\ position'[Manager][n.range].owed = None
      /\ \A q \in Ranges \ {n.range} : position'[Manager][q] = position[Manager][q]
    BY <1>3, <1>5, <1>7, <1>8 DEF PoolPart
<1>10. old.liquidity >= delta
    BY <1>1 DEF PoolBurn
<1>11. /\ Plus(n.owed, b) \in Sided
       /\ \A s \in Both : Plus(n.owed, b)[s] = n.owed[s] + b[s]
    BY <1>2, <1>6 DEF Plus, Sided
<1>12. p \in NftType
    BY <1>1, <1>2, <1>3, <1>11, V3Assumption DEF NftType
<1>13. positionsOf' = [positionsOf EXCEPT ![id] = p]
    <2> DEFINE less == [n EXCEPT !.liquidity = @ - delta]
    <2>1. less = [range |-> n.range, liquidity |-> n.liquidity - delta, owed |-> n.owed]
        BY <1>2 DEF NftType
    <2> HIDE DEF less
    <2>2. [less EXCEPT !.owed = Plus(@, b)] = p
        BY <2>1
    <2> QED BY <1>1, <2>2 DEF less
<1>14. \A q \in Ranges :
          /\ position'[Manager][q].liquidity \in Nat
          /\ position'[Manager][q].owed = None
          /\ position'[Manager][q].liquidity >= position[Manager][q].liquidity
                - LiquidityIn(q, n) + LiquidityIn(q, p)
    <2>1. \A q \in Ranges : q # n.range => LiquidityIn(q, n) = 0 /\ LiquidityIn(q, p) = 0
        BY DEF LiquidityIn
    <2>2. LiquidityIn(n.range, n) = n.liquidity /\ LiquidityIn(n.range, p) = n.liquidity - delta
        BY DEF LiquidityIn
    <2>3. old.liquidity \in Nat /\ old.liquidity - delta \in Nat
        BY <1>3, <1>5, <1>10
    <2> QED BY <1>2, <1>5, <1>9, <2>1, <2>2, <2>3
<1>15. /\ managerTokens' \in [Both -> Int]
       /\ \A s \in Both : managerTokens'[s] = managerTokens[s] - n.owed[s] + p.owed[s]
    <2>1. \A s \in Both : managerTokens[s] \in Nat /\ n.owed[s] \in Nat
        BY <1>2 DEF ManagerPart, Sided
    <2>2. managerTokens' \in [Both -> Int]
          /\ \A s \in Both : managerTokens'[s] = managerTokens[s] + b[s]
        BY <1>1, <1>6, <2>1 DEF Plus
    <2> QED BY <1>6, <1>11, <2>1, <2>2
<1> HIDE DEF p
<1>16. ManagerPart'
    BY <1>5, <1>12, <1>13, <1>14, <1>15, ManagerKept
<1> QED BY <1>8, <1>16

LEMMA CollectPositionKeepsDex ==
    ASSUME DexInv, NEW id \in Nfts, CollectPosition(id)
    PROVE  DexInv'
<1> USE DEF DexInv
<1> DEFINE n == positionsOf[id]
           p == [range |-> n.range, liquidity |-> n.liquidity, owed |-> None]
<1>1. /\ n # Unminted
      /\ managerTokens' = Minus(managerTokens, n.owed)
      /\ positionsOf' = [positionsOf EXCEPT ![id].owed = None]
      /\ UNCHANGED <<liquidity, v3Reserve, position, poolTokens>>
    BY DEF CollectPosition, poolState
<1>2. PoolPart'
    BY <1>1 DEF PoolPart, Owed, Provided
<1>3. n \in NftType /\ n.liquidity \in Nat /\ n.owed \in Sided
    BY DEF ManagerPart, NftType
<1>4. p \in NftType
    BY <1>1, <1>3, NoneIsSided DEF NftType
<1>5. positionsOf' = [positionsOf EXCEPT ![id] = p]
    <2>1. [n EXCEPT !.owed = None] = p
        BY <1>3 DEF NftType
    <2> QED BY <1>1, <2>1
<1>6. \A q \in Ranges :
         /\ position[Manager][q].liquidity \in Nat
         /\ position'[Manager][q].liquidity \in Nat
         /\ position'[Manager][q].owed = None
         /\ position'[Manager][q].liquidity >= position[Manager][q].liquidity
               - LiquidityIn(q, n) + LiquidityIn(q, p)
    <2>1. \A q \in Ranges : /\ position[Manager][q].liquidity \in Nat
                            /\ position[Manager][q].owed = None
        BY DEF PoolPart, ManagerPart, PositionType, Holding
    <2>2. \A q \in Ranges : LiquidityIn(q, p) = LiquidityIn(q, n) /\ LiquidityIn(q, n) \in Nat
        BY <1>3 DEF LiquidityIn
    <2> QED BY <1>1, <2>1, <2>2
<1>7. /\ managerTokens' \in [Both -> Int]
      /\ \A s \in Both : managerTokens'[s] = managerTokens[s] - n.owed[s] + p.owed[s]
    <2>1. \A s \in Both : managerTokens[s] \in Nat /\ n.owed[s] \in Nat /\ p.owed[s] = 0
        BY <1>3 DEF ManagerPart, Sided, None
    <2> QED BY <1>1, <2>1 DEF Minus
<1> HIDE DEF p
<1>8. ManagerPart'
    BY <1>4, <1>5, <1>6, <1>7, ManagerKept
<1> QED BY <1>2, <1>8

LEMMA BurnPositionKeepsDex ==
    ASSUME DexInv, NEW id \in Nfts, BurnPosition(id)
    PROVE  DexInv'
<1> USE DEF DexInv
<1>1. /\ positionsOf[id].liquidity = 0 /\ positionsOf[id].owed = None
      /\ positionsOf' = [positionsOf EXCEPT ![id] = Unminted]
      /\ UNCHANGED <<liquidity, v3Reserve, position, poolTokens, managerTokens>>
    BY DEF BurnPosition, poolState
<1>2. PoolPart'
    BY <1>1 DEF PoolPart, Owed, Provided
<1>3. \A q \in Ranges :
         /\ position[Manager][q].liquidity \in Nat
         /\ position'[Manager][q].liquidity \in Nat
         /\ position'[Manager][q].owed = None
         /\ position'[Manager][q].liquidity >= position[Manager][q].liquidity
               - LiquidityIn(q, positionsOf[id]) + LiquidityIn(q, Unminted)
    <2>1. \A q \in Ranges : /\ position[Manager][q].liquidity \in Nat
                            /\ position[Manager][q].owed = None
        BY DEF PoolPart, ManagerPart, PositionType, Holding
    <2>2. \A q \in Ranges : LiquidityIn(q, Unminted) = 0 /\ LiquidityIn(q, positionsOf[id]) = 0
        BY <1>1 DEF LiquidityIn, Unminted
    <2> QED BY <1>1, <2>1, <2>2
<1>4. /\ managerTokens' \in [Both -> Int]
      /\ \A s \in Both : managerTokens'[s] = managerTokens[s]
                                               - positionsOf[id].owed[s] + Unminted.owed[s]
    BY <1>1 DEF ManagerPart, Sided, Unminted, None
<1>5. ManagerPart'
    BY <1>1, <1>3, <1>4, NoneIsSided, ManagerKept
<1> QED BY <1>2, <1>5

\* A holder besides the manager, which may also mint for the manager.
LEMMA DirectHolderKeepsDex ==
    ASSUME DexInv, DirectHolder
    PROVE  DexInv'
<1> USE DEF DexInv
<1>1. UNCHANGED <<positionsOf, managerTokens>>
    BY DEF DirectHolder
<1>2. /\ Manager \in Holding /\ Direct \in Holding /\ Manager # Direct
      /\ \A q \in Ranges : position[Manager][q].liquidity \in Nat
    BY V3Assumption DEF Holding, PoolPart, PositionType
<1>3. 1..MaxLiquidity \subseteq Nat
    BY V3Assumption
<1>4. ASSUME NEW h \in Holding, NEW r \in Ranges, NEW amount \in 1..MaxLiquidity,
             PoolMint(h, r, amount)
      PROVE  DexInv'
    <2>1. amount \in Nat
        BY <1>3
    <2>2. /\ PoolPart'
          /\ position' = [position EXCEPT ![h][r] =
                [liquidity |-> position[h][r].liquidity + amount,
                 owed |-> position[h][r].owed]]
        BY <1>4, <2>1, MintKeepsPool
    <2>3. \A q \in Ranges :
             /\ position'[Manager][q].liquidity \in Nat
             /\ position'[Manager][q].owed = position[Manager][q].owed
             /\ position'[Manager][q].liquidity >= position[Manager][q].liquidity
        BY <1>2, <2>1, <2>2 DEF PoolPart
    <2> QED BY <1>1, <2>2, <2>3, ManagerUntouched
<1>5. ASSUME position'[Manager] = position[Manager], PoolPart'
      PROVE  DexInv'
    BY <1>1, <1>2, <1>5, ManagerUntouched
<1>6. ASSUME NEW r \in Ranges, NEW amount \in 1..MaxLiquidity, PoolBurn(Direct, r, amount, None)
      PROVE  DexInv'
    <2>1. amount \in Nat /\ None \in Sided
        BY <1>3, NoneIsSided
    <2>2. \A s \in Both : None[s] <= position[Direct][r].owed[s] + Burned(amount)[s]
        <3>1. Burned(amount) \in Sided
            BY <2>1, BurnedIsSided
        <3>2. position[Direct][r].owed \in Sided
            BY <1>2 DEF PoolPart, PositionType
        <3> QED BY <3>1, <3>2 DEF Sided, None
    <2>3. /\ PoolPart'
          /\ position' = [position EXCEPT ![Direct][r] =
                [liquidity |-> position[Direct][r].liquidity - amount,
                 owed |-> Minus(Plus(position[Direct][r].owed, Burned(amount)), None)]]
        BY <1>2, <1>6, <2>1, <2>2, BurnKeepsPool
    <2>4. position'[Manager] = position[Manager]
        BY <1>2, <2>3 DEF PoolPart
    <2> QED BY <1>5, <2>3, <2>4
<1>7. ASSUME NEW r \in Ranges, NEW amount \in 1..MaxLiquidity, NEW s \in Both,
             PoolCollect(Direct, r, [None EXCEPT ![s] = amount])
      PROVE  DexInv'
    <2>1. [None EXCEPT ![s] = amount] \in Sided
        BY <1>3 DEF None, Sided
    <2>2. PoolPart' /\ \A k \in Holding \ {Direct} : position'[k] = position[k]
        BY <1>2, <1>7, <2>1, CollectKeepsPool
    <2> QED BY <1>2, <1>5, <2>2
<1> QED BY <1>4, <1>6, <1>7 DEF DirectHolder

LEMMA DexNextInv ==
    ASSUME DexInv, [V3Next]_v3Vars
    PROVE  DexInv'
<1>1. 1..MaxLiquidity \subseteq Nat /\ 1..MaxV3Tokens \subseteq Nat
    BY V3Assumption
<1>2. CASE UNCHANGED v3Vars
    BY <1>2 DEF v3Vars, poolState, DexInv, PoolPart, ManagerPart, Owed, Provided,
                NftOwed, NftLiquidity
<1>3. ASSUME NEW id \in Nfts, NEW r \in Ranges, NEW amount \in 1..MaxLiquidity,
             MintPosition(id, r, amount)
      PROVE  DexInv'
    BY <1>1, <1>3, MintPositionKeepsDex
<1>4. ASSUME NEW id \in Nfts, NEW delta \in 1..MaxLiquidity, DecreaseLiquidity(id, delta)
      PROVE  DexInv'
    BY <1>1, <1>4, DecreaseKeepsDex
<1>5. ASSUME NEW id \in Nfts, CollectPosition(id) \/ BurnPosition(id)
      PROVE  DexInv'
    BY <1>5, CollectPositionKeepsDex, BurnPositionKeepsDex
<1>6. CASE DirectHolder
    BY <1>6, DirectHolderKeepsDex
<1>7. ASSUME NEW s \in Both, NEW amountIn \in 1..MaxV3Tokens, PoolSwap(s, amountIn)
      PROVE  DexInv'
    BY <1>1, <1>7, PoolSwapKeepsDex
<1> QED BY <1>2, <1>3, <1>4, <1>5, <1>6, <1>7 DEF V3Next

\* The pool and the position manager can always pay what they owe, for any positions,
\* NFTs and amounts (V3Pool.mint, burn, collect and swap; V3PositionManager).
THEOREM DexBacked == V3Spec => []DexIsBacked
<1>1. DexInv /\ [V3Next]_v3Vars => DexInv'
    BY DexNextInv
<1> QED BY DexInitInv, DexInvBacks, <1>1, PTL DEF V3Spec

-------------------------------------------------------------------------------
(* VenueAdapters *)

VenueInv ==
    /\ sides \in [Agents -> Sided]
    /\ adapterHeld = [x \in {Swapper, Lender} |-> None]
    /\ supplied \in Sided /\ debt \in Sided

LEMMA VenueInvKeepsNothing == VenueInv => AdaptersKeepNothing
BY DEF VenueInv, AdaptersKeepNothing

LEMMA VenueInitInv == VenueInit => VenueInv
<1> SUFFICES ASSUME VenueInit PROVE VenueInv
    OBVIOUS
<1>1. [Both -> {0, MaxSides}] \subseteq Sided
    BY VenueAssumption DEF Sided
<1> QED BY <1>1, NoneIsSided DEF VenueInit, VenueInv

LEMMA OnlyIsSided ==
    ASSUME NEW s \in Both, NEW n \in Nat
    PROVE  /\ Only(s, n) \in Sided /\ Only(s, n)[s] = n
           /\ \A t \in Both \ {s} : Only(s, n)[t] = 0
BY DEF Only, None, Sided

LEMMA PerSide ==
    ASSUME NEW f, NEW g
    PROVE  /\ \A t \in Both : Plus(f, g)[t] = f[t] + g[t] /\ Minus(f, g)[t] = f[t] - g[t]
           /\ Minus(f, g) = [t \in Both |-> Minus(f, g)[t]]
BY DEF Plus, Minus

\* A call that gives away as much as it gets leaves the adapter with nothing.
LEMMA BalancedFlow ==
    ASSUME VenueInv, NEW a \in Agents, NEW x \in {Swapper, Lender},
           NEW pulled \in Sided, NEW paid \in Sided, NEW got \in Sided, NEW pushed \in Sided,
           \A t \in Both : pulled[t] + got[t] = paid[t] + pushed[t],
           Flow(x, a, pulled, paid, got, pushed)
    PROVE  sides' \in [Agents -> Sided] /\ adapterHeld' = adapterHeld
<1> DEFINE rest == Minus(Plus(Minus(Plus(adapterHeld[x], pulled), paid), got), pushed)
           kept == Plus(Minus(sides[a], pulled), pushed)
<1>1. /\ adapterHeld' = [adapterHeld EXCEPT ![x] = rest]
      /\ sides' = [sides EXCEPT ![a] = kept]
      /\ \A t \in Both : pulled[t] <= sides[a][t]
    BY DEF Flow
<1>2. \A t \in Both : /\ pulled[t] \in Nat /\ paid[t] \in Nat
                      /\ got[t] \in Nat /\ pushed[t] \in Nat
    BY DEF Sided
<1>3. adapterHeld[x] = None /\ sides[a] \in Sided
    BY DEF VenueInv
<1>4. rest = None
    <2> DEFINE pull == Plus(adapterHeld[x], pulled)
               pay == Minus(pull, paid)
               get == Plus(pay, got)
    <2>1. \A t \in Both : rest[t] = 0
        <3> TAKE t \in Both
        <3>1. pull[t] = 0 + pulled[t]
            BY <1>3, PerSide DEF None
        <3>2. pay[t] = pull[t] - paid[t]
            BY PerSide
        <3>3. get[t] = pay[t] + got[t]
            BY PerSide
        <3>4. rest[t] = get[t] - pushed[t]
            BY PerSide
        <3> HIDE DEF pull, pay, get, rest
        <3>5. pull[t] = pulled[t]
            BY <1>2, <3>1
        <3> QED BY <1>2, <3>2, <3>3, <3>4, <3>5
    <2>2. rest = [t \in Both |-> rest[t]]
        BY PerSide
    <2> QED BY <2>1, <2>2 DEF None
<1>5. kept \in Sided
    <2>1. \A t \in Both : sides[a][t] - pulled[t] + pushed[t] \in Nat
        BY <1>1, <1>2, <1>3 DEF Sided
    <2> QED BY <2>1 DEF Plus, Minus, Sided
<1> HIDE DEF rest, kept
<1>6. adapterHeld' = adapterHeld
    BY <1>1, <1>3, <1>4 DEF VenueInv
<1> QED BY <1>1, <1>5, <1>6 DEF VenueInv

LEMMA LendingKeepsVenue ==
    ASSUME VenueInv, NEW a \in Agents, NEW s \in Both, NEW amount \in Nat,
           \/ Supply(a, s, amount) \/ WithdrawSupply(a, s, amount)
           \/ Borrow(a, s, amount) \/ Repay(a, s, amount)
    PROVE  VenueInv' /\ UNCHANGED <<v2Vars, v3Vars>>
<1>1. /\ supplied \in Sided /\ debt \in Sided
      /\ supplied[s] \in Nat /\ debt[s] \in Nat
    BY DEF VenueInv, Sided
<1>2. Lender \in {Swapper, Lender} /\ None \in Sided /\ \A t \in Both : None[t] = 0
    BY NoneIsSided DEF None
<1>3. CASE Supply(a, s, amount)
    <2>1. /\ Flow(Lender, a, Only(s, amount), Only(s, amount), None, None)
          /\ supplied' = [supplied EXCEPT ![s] = supplied[s] + amount]
          /\ UNCHANGED <<debt, v2Vars, v3Vars>>
        BY <1>3 DEF Supply
    <2>2. \A t \in Both : Only(s, amount)[t] + None[t] = Only(s, amount)[t] + None[t]
        OBVIOUS
    <2>3. sides' \in [Agents -> Sided] /\ adapterHeld' = adapterHeld
        BY <1>2, <2>1, <2>2, OnlyIsSided, BalancedFlow
    <2>4. supplied' \in Sided
        BY <1>1, <2>1 DEF Sided
    <2> QED BY <1>1, <2>1, <2>3, <2>4 DEF VenueInv
<1>4. CASE WithdrawSupply(a, s, amount)
    <2>1. /\ Flow(Lender, a, None, None, Only(s, amount), Only(s, amount))
          /\ amount <= supplied[s]
          /\ supplied' = [supplied EXCEPT ![s] = supplied[s] - amount]
          /\ UNCHANGED <<debt, v2Vars, v3Vars>>
        BY <1>4 DEF WithdrawSupply
    <2>2. \A t \in Both : None[t] + Only(s, amount)[t] = None[t] + Only(s, amount)[t]
        OBVIOUS
    <2>3. sides' \in [Agents -> Sided] /\ adapterHeld' = adapterHeld
        BY <1>2, <2>1, <2>2, OnlyIsSided, BalancedFlow
    <2>4. supplied' \in Sided
        BY <1>1, <2>1 DEF Sided
    <2> QED BY <1>1, <2>1, <2>3, <2>4 DEF VenueInv
<1>5. CASE Borrow(a, s, amount)
    <2>1. /\ Flow(Lender, a, None, None, Only(s, amount), Only(s, amount))
          /\ debt' = [debt EXCEPT ![s] = debt[s] + amount]
          /\ UNCHANGED <<supplied, v2Vars, v3Vars>>
        BY <1>5 DEF Borrow
    <2>2. \A t \in Both : None[t] + Only(s, amount)[t] = None[t] + Only(s, amount)[t]
        OBVIOUS
    <2>3. sides' \in [Agents -> Sided] /\ adapterHeld' = adapterHeld
        BY <1>2, <2>1, <2>2, OnlyIsSided, BalancedFlow
    <2>4. debt' \in Sided
        BY <1>1, <2>1 DEF Sided
    <2> QED BY <1>1, <2>1, <2>3, <2>4 DEF VenueInv
<1>6. CASE Repay(a, s, amount)
    <2> DEFINE repaid == IF amount > debt[s] THEN debt[s] ELSE amount
               change == Only(s, amount - repaid)
    <2>1. /\ Flow(Lender, a, Only(s, amount), Only(s, repaid), None, change)
          /\ debt' = [debt EXCEPT ![s] = debt[s] - repaid]
          /\ UNCHANGED <<supplied, v2Vars, v3Vars>>
        BY <1>6 DEF Repay
    <2>2. repaid \in Nat /\ amount - repaid \in Nat /\ debt[s] - repaid \in Nat
        BY <1>1
    <2>3. amount + 0 = repaid + (amount - repaid)
        BY <2>2
    <2> HIDE DEF repaid
    <2>4. \A t \in Both : Only(s, amount)[t] + None[t] = Only(s, repaid)[t] + change[t]
        BY <1>2, <2>2, <2>3, OnlyIsSided
    <2>5. change \in Sided /\ Only(s, repaid) \in Sided /\ Only(s, amount) \in Sided
        BY <2>2, OnlyIsSided
    <2> HIDE DEF change
    <2>6. sides' \in [Agents -> Sided] /\ adapterHeld' = adapterHeld
        BY <1>2, <2>1, <2>4, <2>5, BalancedFlow
    <2>7. debt' \in Sided
        BY <1>1, <2>1, <2>2 DEF Sided
    <2> QED BY <1>1, <2>1, <2>6, <2>7 DEF VenueInv
<1> QED BY <1>3, <1>4, <1>5, <1>6

LEMMA SwapsKeepVenue ==
    ASSUME VenueInv, V2Inv, DexInv, NEW a \in Agents, NEW s \in Both, NEW amountIn \in Nat,
           (\E minOut : SwapV2(a, s, amountIn, minOut)) \/ SwapV3(a, s, amountIn)
    PROVE  VenueInv' /\ V2Inv' /\ DexInv' /\ ShareKeepsValue
<1>1. Swapper \in {Swapper, Lender} /\ 1 - s \in Both /\ s \in Sides
    BY DEF Both, Sides
<1>2. ASSUME NEW out \in Nat,
             Flow(Swapper, a, Only(s, amountIn), Only(s, amountIn), Only(1 - s, out),
                  Only(1 - s, out)),
             UNCHANGED lendingVars
      PROVE  VenueInv'
    <2>1. \A t \in Both : Only(s, amountIn)[t] + Only(1 - s, out)[t]
                            = Only(s, amountIn)[t] + Only(1 - s, out)[t]
        OBVIOUS
    <2>2. sides' \in [Agents -> Sided] /\ adapterHeld' = adapterHeld
        BY <1>1, <1>2, <2>1, OnlyIsSided, BalancedFlow
    <2> QED BY <1>2, <2>2 DEF VenueInv, lendingVars
<1>3. ASSUME NEW minOut, SwapV2(a, s, amountIn, minOut)
      PROVE  VenueInv' /\ V2Inv' /\ DexInv' /\ ShareKeepsValue
    <2>1. swapExactIn(s, amountIn, minOut) /\ UNCHANGED v3Vars
        BY <1>3 DEF SwapV2
    <2>2. V2Inv' /\ ShareKeepsValue /\ V2AmountOut(s, amountIn) \in Nat
        BY <1>1, <2>1, SwapExactInKeepsShares
    <2>3. VenueInv'
        BY <1>2, <1>3, <2>2 DEF SwapV2
    <2> QED BY <2>1, <2>2, <2>3, DexNextInv
<1>4. CASE SwapV3(a, s, amountIn)
    <2>1. PoolSwap(s, amountIn) /\ UNCHANGED v2Vars
        BY <1>4 DEF SwapV3
    <2>2. DexInv' /\ V3AmountOut(s, amountIn) \in Nat
        BY <2>1, PoolSwapKeepsDex
    <2>3. VenueInv'
        BY <1>2, <1>4, <2>2 DEF SwapV3
    <2> QED BY <2>1, <2>2, <2>3, V2NextInv
<1> QED BY <1>3, <1>4

\* The adapters hand on all they get, and reach the exchanges only by calls that
\* keep those in order (RobinhoodChainAdapter, ArbitrumOneAdapter).
LEMMA VenueNextInv ==
    ASSUME VenueInv, V2Inv, DexInv, VenueNext \/ UNCHANGED <<v2Vars, v3Vars, venueVars>>
    PROVE  VenueInv' /\ V2Inv' /\ DexInv' /\ ShareKeepsValue
<1>1. ASSUME UNCHANGED <<v2Vars, v3Vars>>, VenueInv'
      PROVE  VenueInv' /\ V2Inv' /\ DexInv' /\ ShareKeepsValue
    BY <1>1, V2NextInv, DexNextInv
<1>2. ASSUME UNCHANGED venueVars
      PROVE  VenueInv'
    BY <1>2 DEF VenueInv, venueVars, lendingVars
<1>3. ASSUME NEW a \in Agents, NEW s \in Both
      PROVE  1..sides[a][s] \subseteq Nat /\ 1..MaxDebt \subseteq Nat
    BY VenueAssumption DEF VenueInv, Sided
<1>4. CASE AdapterNext
    <2>1. ASSUME NEW a \in Agents, NEW s \in Both, NEW n \in Nat,
                 (\E minOut : SwapV2(a, s, n, minOut)) \/ SwapV3(a, s, n)
          PROVE  VenueInv' /\ V2Inv' /\ DexInv' /\ ShareKeepsValue
        BY <2>1, SwapsKeepVenue
    <2>2. ASSUME NEW a \in Agents, NEW s \in Both, NEW n \in Nat,
                 Supply(a, s, n) \/ Repay(a, s, n) \/ WithdrawSupply(a, s, n) \/ Borrow(a, s, n)
          PROVE  VenueInv' /\ V2Inv' /\ DexInv' /\ ShareKeepsValue
        BY <1>1, <2>2, LendingKeepsVenue
    <2>3. ASSUME NEW s \in Both, Accrues(s)
          PROVE  VenueInv' /\ V2Inv' /\ DexInv' /\ ShareKeepsValue
        <3>1. supplied[s] + 1 \in Nat /\ debt[s] + 1 \in Nat
            BY DEF VenueInv, Sided
        <3>2. VenueInv'
            BY <2>3, <3>1 DEF Accrues, VenueInv, Sided
        <3> QED BY <1>1, <2>3, <3>2 DEF Accrues
    <2>4. ASSUME NEW a, NEW x, NEW active, SetVenueAdapter(a, x, active)
          PROVE  VenueInv' /\ V2Inv' /\ DexInv' /\ ShareKeepsValue
        <3>1. VenueInv'
            BY <2>4 DEF SetVenueAdapter, VenueInv, lendingVars
        <3> QED BY <1>1, <2>4, <3>1 DEF SetVenueAdapter
    <2> QED BY <1>3, <1>4, <2>1, <2>2, <2>3, <2>4 DEF AdapterNext
<1>5. CASE V2Next /\ UNCHANGED <<v3Vars, venueVars>>
    BY <1>2, <1>5, V2NextInv, DexNextInv
<1>6. CASE V3Next /\ UNCHANGED <<v2Vars, venueVars>>
    BY <1>2, <1>6, V2NextInv, DexNextInv
<1> QED BY <1>1, <1>2, <1>4, <1>5, <1>6 DEF VenueNext
===============================================================================
