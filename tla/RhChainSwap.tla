------------------------------ MODULE RhChainSwap ------------------------------
(***************************************************************************)
(* RhChainSwap.sol: the desk on Robinhood Chain keeps one balance per      *)
(* agent and token.  Deposits bring tokens in, withdrawals take them out,  *)
(* and a swap at a price the attestor signed only moves numbers: the token *)
(* it credits need not be in the contract.                                 *)
(*                                                                         *)
(* Whatever the attestor may have signed is given as a set of orders, with *)
(* the nonce, the deadline and the signer inside; anyone may submit one,   *)
(* at any time and again.  ERC-20s deliver what is asked or revert.        *)
(***************************************************************************)
EXTENDS Clock, FiniteSets, Functions

CONSTANTS
    AgentIds, Tokens,
    Keys, FirstKey,      \* attestor keys
    Holders, NoHolder,   \* addresses that may be registered owners
    Swaps,               \* [agent, from, to, in, minOut, price, nonce, until, signer]
    Auths,               \* [agent, token, amount, nonce, until, signer]
    MAX_PRICE_TTL, EMERGENCY_TIMELOCK,
    MaxBalance           \* bound: a balance of one agent in one token

ASSUME SwapAssumption ==
    /\ FirstKey \in Keys /\ NoHolder \notin Holders
    /\ {MAX_PRICE_TTL, EMERGENCY_TIMELOCK, MaxBalance} \subseteq Nat
    /\ IsFiniteSet(AgentIds) /\ IsFiniteSet(Swaps) /\ IsFiniteSet(Auths)
    /\ \A o \in Swaps : o.agent \in AgentIds /\ {o.in, o.price} \subseteq Nat
    /\ \A o \in Auths : o.agent \in AgentIds /\ o.amount \in Nat
    /\ Swaps \cap Auths = {}    \* their typehashes differ

VARIABLES
    balances,            \* _balances
    owners,              \* _tokenIdOwner
    swapNonces, withdrawNonces,
    revoked,             \* _revokedAt is set
    allowed,             \* _allowedTokens
    pausedAt,            \* 0 when not paused
    key,                 \* _attestor
    inContract,          \* tokens the contract holds
    swapped,             \* history: swapped[t] = what swaps credited in t less what they took
    settled              \* history: how often each order went through

nonces == <<swapNonces, withdrawNonces>>
admin == <<owners, revoked, allowed, pausedAt, key>>
swapVars == <<balances, nonces, admin, inContract, swapped, settled>>

SwapInit ==
    /\ balances = [a \in AgentIds |-> [t \in Tokens |-> 0]]
    /\ owners = [a \in AgentIds |-> NoHolder]
    /\ swapNonces = [a \in AgentIds |-> 0]
    /\ withdrawNonces = [a \in AgentIds |-> 0]
    /\ revoked = {}
    /\ allowed = Tokens
    /\ pausedAt = 0
    /\ key = FirstKey
    /\ inContract = [t \in Tokens |-> 0]
    /\ swapped = [t \in Tokens |-> 0]
    /\ settled = [o \in Swaps \cup Auths |-> 0]

deposit(a, t, amount) ==
    /\ pausedAt = 0 /\ t \in allowed
    /\ balances[a][t] + amount <= MaxBalance
    /\ balances' = [balances EXCEPT ![a][t] = @ + amount]
    /\ inContract' = [inContract EXCEPT ![t] = @ + amount]
    /\ UNCHANGED <<now, nonces, admin, swapped, settled>>

\* A transfer the contract cannot cover reverts the whole call.
PaidOut(a, t, amount) ==
    /\ amount > 0 /\ amount <= balances[a][t]
    /\ amount <= inContract[t]
    /\ balances' = [balances EXCEPT ![a][t] = @ - amount]
    /\ inContract' = [inContract EXCEPT ![t] = @ - amount]

\* Anyone may call; the registered owner is paid.
withdraw(a, t, amount) ==
    /\ t \in allowed /\ owners[a] # NoHolder
    /\ PaidOut(a, t, amount)
    /\ UNCHANGED <<now, nonces, admin, swapped, settled>>

\* Mutant: the nonce of withdrawals does not move.
WithdrawalSpentNever(o) == UNCHANGED withdrawNonces

WithdrawalSpent(o) == withdrawNonces' = [withdrawNonces EXCEPT ![o.agent] = @ + 1]

withdrawWithAuth(o) ==
    /\ o.token \in allowed
    /\ now <= o.until /\ o.nonce = withdrawNonces[o.agent] /\ o.signer = key
    /\ PaidOut(o.agent, o.token, o.amount)
    /\ WithdrawalSpent(o)
    /\ settled' = [settled EXCEPT ![o] = @ + 1]
    /\ UNCHANGED <<now, swapNonces, admin, swapped>>

swap(o, maxPrice) ==
    LET out == o.in * o.price IN
    /\ pausedAt = 0 /\ o.agent \notin revoked
    /\ o.from # o.to /\ {o.from, o.to} \subseteq allowed
    /\ o.in > 0 /\ out >= o.minOut /\ out > 0
    /\ now <= o.until /\ o.until <= now + MAX_PRICE_TTL
    /\ o.price <= maxPrice
    /\ o.nonce = swapNonces[o.agent] /\ o.signer = key
    /\ o.in <= balances[o.agent][o.from]
    /\ balances[o.agent][o.to] + out <= MaxBalance
    /\ balances' = [balances EXCEPT ![o.agent][o.from] = @ - o.in, ![o.agent][o.to] = @ + out]
    /\ swapNonces' = [swapNonces EXCEPT ![o.agent] = @ + 1]
    /\ swapped' = [swapped EXCEPT ![o.from] = @ - o.in, ![o.to] = @ + out]
    /\ settled' = [settled EXCEPT ![o] = @ + 1]
    /\ UNCHANGED <<now, withdrawNonces, admin, inContract>>

\* The whole balance, delisted token or not, to the registered owner.
emergencyWithdraw(a, t) ==
    /\ pausedAt # 0 /\ now >= pausedAt + EMERGENCY_TIMELOCK
    /\ owners[a] # NoHolder
    /\ PaidOut(a, t, balances[a][t])
    /\ UNCHANGED <<now, nonces, admin, swapped, settled>>

untouched == <<now, balances, nonces, inContract, swapped, settled>>

\* The attestor signs every registration, and a registered owner signs the one
\* that replaces him: both signatures are taken as given.
registerOwner(a, h) ==
    /\ owners' = [owners EXCEPT ![a] = h]
    /\ UNCHANGED <<untouched, revoked, allowed, pausedAt, key>>

PauseDesk ==
    /\ pausedAt = 0
    /\ pausedAt' = now
    /\ UNCHANGED <<untouched, owners, revoked, allowed, key>>

UnpauseDesk ==
    /\ pausedAt # 0
    /\ pausedAt' = 0
    /\ UNCHANGED <<untouched, owners, revoked, allowed, key>>

revoke(a) ==
    /\ revoked' = revoked \cup {a}
    /\ UNCHANGED <<untouched, owners, allowed, pausedAt, key>>

setAllowedToken(t, listed) ==
    /\ allowed' = IF listed THEN allowed \cup {t} ELSE allowed \ {t}
    /\ UNCHANGED <<untouched, owners, revoked, pausedAt, key>>

rotateAttestor(k) ==
    /\ key' = k
    /\ UNCHANGED <<untouched, owners, revoked, allowed, pausedAt>>

SwapTick == Advance /\ UNCHANGED swapVars

SwapNext ==
    \/ SwapTick
    \/ \E a \in AgentIds, h \in Holders : registerOwner(a, h)
    \/ PauseDesk \/ UnpauseDesk
    \/ \E a \in AgentIds : revoke(a)
    \/ \E t \in Tokens, listed \in BOOLEAN : setAllowedToken(t, listed)
    \/ \E k \in Keys : rotateAttestor(k)
    \/ \E a \in AgentIds, t \in Tokens, amount \in 1..MaxBalance :
           deposit(a, t, amount) \/ withdraw(a, t, amount)
    \/ \E o \in Auths : withdrawWithAuth(o)
    \/ \E o \in Swaps, maxPrice \in {p.price : p \in Swaps} : swap(o, maxPrice)
    \/ \E a \in AgentIds, t \in Tokens : emergencyWithdraw(a, t)

SwapSpec == now = 1 /\ SwapInit /\ [][SwapNext]_<<now, swapVars>>

------------------------------------------------------------------------------

\* No signed order settles twice, whichever keys the attestor rotates through
\* and back, and whatever is paused, delisted or withdrawn in between; and each
\* agent's nonces count the orders of that agent that settled.
SignedOnce ==
    /\ \A o \in Swaps \cup Auths : settled[o] <= 1
    /\ \A a \in AgentIds :
           /\ swapNonces[a] = Cardinality({o \in Swaps : o.agent = a /\ settled[o] = 1})
           /\ withdrawNonces[a] = Cardinality({o \in Auths : o.agent = a /\ settled[o] = 1})

\* The only balances the contract does not hold tokens for are the ones swaps
\* created: over all the agents, the books of a token exceed the contract's
\* tokens by exactly what the swaps credited in it, less what they took.
ShortByTheSwaps ==
    \A t \in Tokens :
        SumFunction([a \in AgentIds |-> balances[a][t]]) = inContract[t] + swapped[t]
==============================================================================
