----------------------------- MODULE PolicyStack -----------------------------
(***************************************************************************)
(* One agent's whole policy enforcement: the facets of PolicyFacets, the   *)
(* PrimeAgentCallPolicyValidator and the PrimeAgentPreExecHook installed   *)
(* on the agent's Kernel account, and the ERC-4337 EntryPoint that drives  *)
(* them.                                                                   *)
(*                                                                         *)
(* EntryPoint and Kernel are external.  handleOps first validates every    *)
(* operation of a bundle (one failure reverts the whole bundle, so a       *)
(* refused validation is not a step) and then executes them in order; an   *)
(* execution that reverts keeps what its validation wrote.  Operations of  *)
(* other accounts, the NFT owner's among them, may sit between two of the  *)
(* agent's executions, all in one block.  The Kernel calls preCheck before *)
(* an execution when the hook is installed.                                *)
(***************************************************************************)
EXTENDS PolicyFacets, Functions, Sequences

CONSTANTS
    Ops,               \* user operations that reach the EntryPoint
    PricedSelectors,   \* swap(..) and openPerp(..), the ones _notionalFor reads
    NoIso,             \* the call carries no jurisdiction word
    DAY,               \* 1 days
    MaxBundle          \* bound: the agent's operations in one bundle

\* shape: "short" when the inner calldata ends before the notional word,
\* "malformed" when the call itself is shorter than three words.
OpType ==
    [signer : Accounts, target : Contracts, selector : Selectors,
     amount : Nat, iso : Isos \cup {NoIso},
     shape : {"full", "short", "malformed"}]

ASSUME StackAssumption ==
    /\ Ops \subseteq OpType
    /\ PricedSelectors \subseteq Selectors
    /\ NoIso \notin Isos
    /\ DAY \in Nat \ {0}
    /\ MaxBundle \in Nat

VARIABLES
    val,         \* ValidatorStorage of the kernel
    hook,        \* HookStorage of the kernel
    bundle,      \* the agent's validated operations, not yet executed
    executing,   \* the bundle's validation loop is over
    spentAt,     \* history: notional admitted in each block since onInstall
    topCap       \* history: the highest daily cap cached since onInstall

moduleVars == <<val, hook>>
bundleVars == <<bundle, executing>>
history == <<spentAt, topCap>>
vars == <<facetVars, moduleVars, bundleVars, history>>

CacheType ==
    [allowedContracts : SUBSET Contracts, allowedSelectors : SUBSET Selectors,
     maxNotional : Nat, dailyCap : Nat, expiresAt : Nat]

\* _cachePolicyFromDiamond
CacheOf(p) ==
    [allowedContracts |-> p.allowedContracts,
     allowedSelectors |-> p.allowedSelectors,
     maxNotional |-> p.maxNotional, dailyCap |-> p.dailyCap,
     expiresAt |-> p.expiresAt]

NoValidator ==
    [installed |-> FALSE, owner |-> NoOwner, cache |-> CacheOf(EmptyPolicy),
     dailySpent |-> 0, dailyWindowStart |-> 0]

Init ==
    /\ FacetInit
    /\ val = NoValidator
    /\ hook = [installed |-> FALSE, bound |-> FALSE]
    /\ bundle = <<>>
    /\ executing = FALSE
    /\ spentAt = [t \in 1..MaxTime |-> 0]
    /\ topCap = 0

\* _notionalFor: only priced selectors have a notional; the validator reads a
\* missing word as 0, the hook reverts MalformedCallData on it.
Notional(op) ==
    IF op.selector \in PricedSelectors /\ op.shape = "full" THEN op.amount ELSE 0

\* A window that has started and is less than a day old.
WindowLive(start) == start # 0 /\ now - start < DAY

Expired(p) == p.expiresAt # 0 /\ now >= p.expiresAt

\* The checks validator and hook share, on the cached and on the stored policy.
InScope(op, p) ==
    /\ ~Expired(p)
    /\ op.target \in p.allowedContracts
    /\ op.selector \in p.allowedSelectors
    /\ Notional(op) <= p.maxNotional

------------------------------------------------------------------------------
(* PrimeAgentCallPolicyValidator *)

\* The owner pinned at installation is whatever address the Kernel passes.
ValidatorInstall(owner) ==
    /\ ~val.installed
    /\ installed                    \* getPolicy reverts otherwise
    /\ val' = [installed |-> TRUE, owner |-> owner, cache |-> CacheOf(policy),
               dailySpent |-> 0, dailyWindowStart |-> 0]
    /\ spentAt' = [t \in 1..MaxTime |-> 0]
    /\ topCap' = policy.dailyCap
    /\ UNCHANGED <<facetVars, hook, bundleVars>>

ValidatorUninstall ==
    /\ val.installed
    /\ val' = NoValidator
    /\ UNCHANGED <<facetVars, hook, bundleVars, history>>

\* Callable by the Diamond alone; none of the repository's facets calls it, but a
\* cut may add one that does.
SyncPolicy ==
    /\ val.installed
    /\ val' = [val EXCEPT !.cache = CacheOf(policy)]
    /\ topCap' = IF policy.dailyCap > topCap THEN policy.dailyCap ELSE topCap
    /\ UNCHANGED <<facetVars, hook, bundleVars, spentAt>>

CounterSpent == IF WindowLive(val.dailyWindowStart) THEN val.dailySpent ELSE 0

Admit(op, start) ==
    /\ val.installed /\ ~executing /\ Len(bundle) < MaxBundle
    /\ op.signer = val.owner
    /\ op.shape # "malformed"
    /\ InScope(op, val.cache)
    /\ bundle' = Append(bundle, op)
    /\ val' = [val EXCEPT !.dailySpent = CounterSpent + Notional(op),
                          !.dailyWindowStart = start]
    /\ spentAt' = [spentAt EXCEPT ![now] = @ + Notional(op)]
    /\ UNCHANGED <<facetVars, hook, executing, topCap>>

\* Mutants: the cap is compared before the operation is added, or with the
\* operation alone.
ValidateOffByOneOp(op) ==
    /\ CounterSpent <= val.cache.dailyCap
    /\ Admit(op, IF WindowLive(val.dailyWindowStart) THEN val.dailyWindowStart
                                                     ELSE now)
ValidateForgettingSpent(op) ==
    /\ Notional(op) <= val.cache.dailyCap
    /\ Admit(op, IF WindowLive(val.dailyWindowStart) THEN val.dailyWindowStart
                                                     ELSE now)

ValidateUserOp(op) ==
    /\ CounterSpent + Notional(op) <= val.cache.dailyCap
    /\ Admit(op, IF WindowLive(val.dailyWindowStart) THEN val.dailyWindowStart
                                                     ELSE now)

------------------------------------------------------------------------------
(* PrimeAgentPreExecHook *)

\* A two-word install payload leaves the hook without a validator.
HookInstall(bound) ==
    /\ ~hook.installed
    /\ hook' = [installed |-> TRUE, bound |-> bound]
    /\ UNCHANGED <<facetVars, val, bundleVars, history>>

HookUninstall ==
    /\ hook.installed
    /\ hook' = [installed |-> FALSE, bound |-> FALSE]
    /\ UNCHANGED <<facetVars, val, bundleVars, history>>

\* _dailyCapHoldsAgainstCounter: the counter already holds this operation.
CounterHolds(op) == CounterSpent + Notional(op) <= policy.dailyCap

\* _dailyCapHoldsInMemory: on the figures stored with the policy, which nothing
\* advances; a window start in the future underflows and reverts.
StoredFiguresHold(op) ==
    LET spent == IF WindowLive(policy.dailyWindowStart) THEN policy.dailySpent
                                                        ELSE 0
    IN  /\ policy.dailyWindowStart <= now
        /\ spent + Notional(op) <= policy.dailyCap

\* Mutant: the hook judges by the validator's cache, not by the stored policy.
HookReadingCache(op) ==
    /\ installed
    /\ op.iso # NoIso => ~paused[op.iso]
    /\ InScope(op, val.cache)
    /\ IF hook.bound THEN CounterHolds(op) ELSE StoredFiguresHold(op)

PreCheck(op) ==
    /\ op.shape # "malformed"
    /\ op.iso # NoIso => ~paused[op.iso]
    /\ installed
    /\ InScope(op, policy)
    /\ op.selector \in PricedSelectors => op.shape = "full"
    /\ IF hook.bound THEN CounterHolds(op) ELSE StoredFiguresHold(op)

------------------------------------------------------------------------------
(* EntryPoint and Kernel *)

Drain ==
    /\ bundle' = Tail(bundle)
    /\ executing' = (Len(bundle) > 1)
    /\ UNCHANGED <<facetVars, moduleVars, history>>

StartExecution ==
    /\ bundle # <<>> /\ ~executing
    /\ executing' = TRUE
    /\ UNCHANGED <<facetVars, moduleVars, bundle, history>>

Execute ==
    /\ executing
    /\ hook.installed => PreCheck(Head(bundle))
    /\ Drain

ExecutionReverts ==
    /\ executing
    /\ hook.installed /\ ~PreCheck(Head(bundle))
    /\ Drain

BetweenOps == bundle = <<>> \/ executing

Next ==
    \/ BetweenOps /\ FacetNext /\ UNCHANGED <<moduleVars, bundleVars, history>>
    \/ bundle = <<>> /\ FacetTick /\ UNCHANGED <<moduleVars, bundleVars, history>>
    \/ BetweenOps /\ \E o \in Accounts : ValidatorInstall(o)
    \/ BetweenOps /\ ValidatorUninstall
    \/ BetweenOps /\ SyncPolicy
    \/ BetweenOps /\ \E bound \in BOOLEAN : HookInstall(bound)
    \/ BetweenOps /\ HookUninstall
    \/ \E op \in Ops : ValidateUserOp(op)
    \/ StartExecution
    \/ Execute
    \/ ExecutionReverts

Spec == Init /\ [][Next]_vars

------------------------------------------------------------------------------

TypeOK ==
    /\ FacetTypeOK
    /\ now \in 1..MaxTime
    /\ val \in [installed : BOOLEAN, owner : Accounts \cup {NoOwner},
               cache : CacheType, dailySpent : Nat, dailyWindowStart : Nat]
    /\ hook \in [installed : BOOLEAN, bound : BOOLEAN]
    /\ bundle \in Seq(Ops)
    /\ executing \in BOOLEAN
    /\ executing => bundle # <<>>
    /\ spentAt \in [1..MaxTime -> Nat]
    /\ topCap \in Nat

\* The validator admits no more in one window than a daily cap it has cached
\* since its installation.  (A sync may put the cap under what is spent.)
BudgetHolds == val.installed => val.dailySpent <= topCap

SpentBetween(from, to) ==
    SumFunctionOnSet(spentAt, {t \in 1..MaxTime : from <= t /\ t <= to})

\* The persistent counter is exactly what was admitted since the live window
\* began: nothing is forgotten when a window rolls over and nothing is carried
\* across, whatever else happens between two admissions.
CounterIsExact ==
    val.installed /\ WindowLive(val.dailyWindowStart)
      => val.dailySpent = SpentBetween(val.dailyWindowStart, now)

\* Windows are fixed, not sliding: over any 24 hours an installation admits up
\* to two daily caps, and never more, whatever is synced meanwhile.
DayBound ==
    val.installed =>
        \A t \in 1..MaxTime : SpentBetween(t, t + DAY - 1) <= 2 * topCap

\* While the hook is installed nothing executes under a revoked policy, in the
\* block of the revocation or later, although the validator's stale cache goes
\* on admitting operations.
NoExecutionAfterRevoke == [][Execute /\ hook.installed => ~revoked]_vars
===============================================================================
