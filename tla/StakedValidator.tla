--------------------------- MODULE StakedValidator ---------------------------
(***************************************************************************)
(* StakedValidator.sol: validators put up stake in the base asset, lock    *)
(* MIN_STAKE of it behind every attestation they validate, and lose that   *)
(* amount to a challenger when the owner rules against them.               *)
(*                                                                         *)
(* One action per external function; a call that reverts is a step that    *)
(* is not taken, so every require/revert of the source is a guard.  The    *)
(* base asset (an OpenZeppelin ERC-20) is external: a transfer moves the   *)
(* amount between two balances or reverts when the payer is short.         *)
(***************************************************************************)
EXTENDS Clock, Integers, FiniteSets, Functions

CONSTANTS
    Stakers,          \* every address that stakes, validates or challenges
    Hashes,            \* attestation hashes
    MIN_STAKE,         \* stake locked behind one attestation
    CHALLENGE_WINDOW,  \* how long a validated attestation may be challenged
    Supply             \* bound: base asset each account starts with

ASSUME ConstantsAssumption ==
    /\ IsFiniteSet(Stakers) /\ IsFiniteSet(Hashes)
    /\ MIN_STAKE \in Nat \ {0}
    /\ CHALLENGE_WINDOW \in Nat
    /\ Supply \in Nat

VARIABLES
    wallet,            \* base asset held by each account
    held,              \* base asset held by the contract
    stakeOf,
    lockedStakeOf,
    status,            \* status of _attestations[hash][validator]
    validatedAt,
    challenger,        \* set of 0 or 1 challenger of _attestations[hash][validator]
    pendingChallengesOf

stakeVars == <<now, wallet, held, stakeOf, lockedStakeOf, status, validatedAt,
          challenger, pendingChallengesOf>>

ledger == <<wallet, held, stakeOf>>

AttestationStatus ==
    {"None", "Validated", "Challenged", "ResolvedHonest", "ResolvedSlashed"}

StakeInit ==
    /\ now = 1
    /\ wallet = [a \in Stakers |-> Supply]
    /\ held = 0
    /\ stakeOf = [a \in Stakers |-> 0]
    /\ lockedStakeOf = [a \in Stakers |-> 0]
    /\ status = [h \in Hashes |-> [a \in Stakers |-> "None"]]
    /\ validatedAt = [h \in Hashes |-> [a \in Stakers |-> 0]]
    /\ challenger = [h \in Hashes |-> [a \in Stakers |-> {}]]
    /\ pendingChallengesOf = [a \in Stakers |-> 0]

MathMin(x, y) == IF x <= y THEN x ELSE y

------------------------------------------------------------------------------

Stake(a, amount) ==
    /\ amount > 0
    /\ wallet[a] >= amount
    /\ stakeOf' = [stakeOf EXCEPT ![a] = @ + amount]
    /\ wallet' = [wallet EXCEPT ![a] = @ - amount]
    /\ held' = held + amount
    /\ UNCHANGED <<now, lockedStakeOf, status, validatedAt, challenger,
                   pendingChallengesOf>>

Release(a, amount) ==
    /\ held >= amount
    /\ stakeOf' = [stakeOf EXCEPT ![a] = @ - amount]
    /\ wallet' = [wallet EXCEPT ![a] = @ + amount]
    /\ held' = held - amount
    /\ UNCHANGED <<now, lockedStakeOf, status, validatedAt, challenger,
                   pendingChallengesOf>>

\* Mutant: the lock is not looked at.
WithdrawIgnoringLock(a, amount) ==
    amount > 0 /\ pendingChallengesOf[a] = 0 /\ Release(a, amount)

Withdraw(a, amount) ==
    /\ amount > 0
    /\ pendingChallengesOf[a] = 0
    /\ amount <= stakeOf[a] - lockedStakeOf[a]
    /\ Release(a, amount)

Lock(a, h) ==
    /\ status[h][a] = "None"
    /\ status' = [status EXCEPT ![h][a] = "Validated"]
    /\ validatedAt' = [validatedAt EXCEPT ![h][a] = now]
    /\ lockedStakeOf' = [lockedStakeOf EXCEPT ![a] = @ + MIN_STAKE]
    /\ UNCHANGED <<now, ledger, challenger, pendingChallengesOf>>

\* Mutant: the whole stake is compared, not the free part of it.
ValidateOnWholeStake(a, h) == stakeOf[a] >= MIN_STAKE /\ Lock(a, h)

ValidateAttestation(a, h) ==
    /\ stakeOf[a] - lockedStakeOf[a] >= MIN_STAKE
    /\ Lock(a, h)

Challenge(c, h, v) ==
    /\ status[h][v] = "Validated"
    /\ now <= validatedAt[h][v] + CHALLENGE_WINDOW
    /\ status' = [status EXCEPT ![h][v] = "Challenged"]
    /\ challenger' = [challenger EXCEPT ![h][v] = {c}]
    /\ pendingChallengesOf' = [pendingChallengesOf EXCEPT ![v] = @ + 1]
    /\ UNCHANGED <<now, ledger, lockedStakeOf, validatedAt>>

\* Mutants: the slash unlocks nothing, or pays a challenger the validator's
\* record never debits.
SlashWithoutUnlock(h, v) ==
    LET slashAmt == MathMin(stakeOf[v], MIN_STAKE)
    IN  /\ status[h][v] = "Challenged"
        /\ stakeOf' = [stakeOf EXCEPT ![v] = @ - slashAmt]
        /\ status' = [status EXCEPT ![h][v] = "ResolvedSlashed"]
        /\ pendingChallengesOf' = [pendingChallengesOf EXCEPT ![v] = @ - 1]
        /\ held' = held - slashAmt
        /\ UNCHANGED <<now, wallet, lockedStakeOf, validatedAt, challenger>>
SlashWithoutDebit(h, v) ==
    /\ status[h][v] = "Challenged"
    /\ lockedStakeOf' = [lockedStakeOf EXCEPT ![v] = @ - MIN_STAKE]
    /\ status' = [status EXCEPT ![h][v] = "ResolvedSlashed"]
    /\ pendingChallengesOf' = [pendingChallengesOf EXCEPT ![v] = @ - 1]
    /\ held' = held - MIN_STAKE
    /\ UNCHANGED <<now, wallet, stakeOf, validatedAt, challenger>>

\* onlyOwner; the verdict is the owner's free choice.
AdjudicateSlashed(h, v) ==
    LET unlockAmt == MathMin(lockedStakeOf[v], MIN_STAKE)
        slashAmt  == MathMin(stakeOf[v], MIN_STAKE)
    IN  /\ status[h][v] = "Challenged"
        /\ pendingChallengesOf[v] > 0
        /\ held >= slashAmt
        /\ stakeOf[v] - slashAmt >= lockedStakeOf[v] - unlockAmt
        /\ lockedStakeOf' = [lockedStakeOf EXCEPT ![v] = @ - unlockAmt]
        /\ stakeOf' = [stakeOf EXCEPT ![v] = @ - slashAmt]
        /\ status' = [status EXCEPT ![h][v] = "ResolvedSlashed"]
        /\ pendingChallengesOf' = [pendingChallengesOf EXCEPT ![v] = @ - 1]
        /\ held' = held - slashAmt
        /\ wallet' = [a \in Stakers |->
                         IF a \in challenger[h][v] THEN wallet[a] + slashAmt
                                                   ELSE wallet[a]]
        /\ UNCHANGED <<now, validatedAt, challenger>>

AdjudicateHonest(h, v) ==
    LET unlockAmt == MathMin(lockedStakeOf[v], MIN_STAKE)
    IN  /\ status[h][v] = "Challenged"
        /\ pendingChallengesOf[v] > 0
        /\ stakeOf[v] >= lockedStakeOf[v] - unlockAmt
        /\ lockedStakeOf' = [lockedStakeOf EXCEPT ![v] = @ - unlockAmt]
        /\ status' = [status EXCEPT ![h][v] = "ResolvedHonest"]
        /\ pendingChallengesOf' = [pendingChallengesOf EXCEPT ![v] = @ - 1]
        /\ UNCHANGED <<now, ledger, validatedAt, challenger>>

Tick ==
    /\ now < MaxTime
    /\ now' = now + 1
    /\ UNCHANGED <<ledger, lockedStakeOf, status, validatedAt, challenger,
                   pendingChallengesOf>>

StakeNext ==
    \/ \E a \in Stakers, amount \in 1..Supply : Stake(a, amount)
    \/ \E a \in Stakers, amount \in 1..(Supply * Cardinality(Stakers)) :
           Withdraw(a, amount)
    \/ \E a \in Stakers, h \in Hashes : ValidateAttestation(a, h)
    \/ \E c, v \in Stakers, h \in Hashes : Challenge(c, h, v)
    \/ \E v \in Stakers, h \in Hashes : AdjudicateSlashed(h, v)
    \/ \E v \in Stakers, h \in Hashes : AdjudicateHonest(h, v)
    \/ Tick

StakeSpec == StakeInit /\ [][StakeNext]_stakeVars

------------------------------------------------------------------------------

\* Every variable stays in its type; in particular no subtraction of the
\* contract's checked arithmetic ever goes below zero.
StakeTypeOK ==
    /\ now \in Nat
    /\ wallet \in [Stakers -> Nat]
    /\ held \in Nat
    /\ stakeOf \in [Stakers -> Nat]
    /\ lockedStakeOf \in [Stakers -> Nat]
    /\ status \in [Hashes -> [Stakers -> AttestationStatus]]
    /\ validatedAt \in [Hashes -> [Stakers -> Nat]]
    /\ challenger \in [Hashes -> [Stakers -> SUBSET Stakers]]
    /\ pendingChallengesOf \in [Stakers -> Nat]

\* The attestations of v whose stake is still at risk, and those in dispute.
Open(v) == {h \in Hashes : status[h][v] \in {"Validated", "Challenged"}}
Disputed(v) == {h \in Hashes : status[h][v] = "Challenged"}

\* What n open attestations lock.
LockValue(n) == MIN_STAKE * n

\* The two counters the contract keeps are exactly what the attestations say:
\* MIN_STAKE is locked per open attestation, one pending challenge is counted
\* per dispute, and the locked part never exceeds the stake.
LockAccounting ==
    \A v \in Stakers :
        /\ lockedStakeOf[v] = LockValue(Cardinality(Open(v)))
        /\ pendingChallengesOf[v] = Cardinality(Disputed(v))
        /\ lockedStakeOf[v] <= stakeOf[v]

\* In every dispute the full MIN_STAKE is there to be unlocked and slashed, and
\* what is left covers the other locks: adjudicate never clips an amount with
\* Math.min and never reverts with InvariantViolated, whichever way it rules.
DisputesAreCovered ==
    \A v \in Stakers : \A h \in Disputed(v) :
        /\ MathMin(lockedStakeOf[v], MIN_STAKE) = MIN_STAKE
        /\ MathMin(stakeOf[v], MIN_STAKE) = MIN_STAKE
        /\ pendingChallengesOf[v] > 0
        /\ stakeOf[v] - MIN_STAKE >= lockedStakeOf[v] - MIN_STAKE

\* The contract holds exactly the stake it owes, so a withdrawal or a slash
\* never fails for lack of funds.
Solvency == held = SumFunction(stakeOf)

\* While a validator has a dispute open its stake can only go down by losing
\* one: it cannot pull stake out between the challenge and the ruling.
StakeHeldDuringDispute ==
    [][\A v \in Stakers :
          Disputed(v) # {} /\ stakeOf'[v] < stakeOf[v]
            => \E h \in Disputed(v) :
                  /\ status'[h][v] = "ResolvedSlashed"
                  /\ stakeOf'[v] = stakeOf[v] - MIN_STAKE]_stakeVars

\* An attestation nobody challenged in time stays Validated for good, and its
\* validator can never take the MIN_STAKE behind it out again: the contract has
\* no release once the window has closed.
UnchallengedStakeStaysLocked ==
    [][\A v \in Stakers, h \in Hashes :
          status[h][v] = "Validated" /\ now > validatedAt[h][v] + CHALLENGE_WINDOW
            => /\ status'[h][v] = "Validated"
               /\ stakeOf'[v] >= MIN_STAKE]_stakeVars
==============================================================================
