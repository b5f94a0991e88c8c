------------------------- MODULE RobinhoodMcpAttestor -------------------------
(***************************************************************************)
(* RobinhoodMcpAttestor.sol: anyone may submit a payload the attestor      *)
(* signed, within its validity and once per nullifier; the attestor        *)
(* changes through a timelock with a single slot.                          *)
(*                                                                         *)
(* The payloads an attestor can have signed are given as a set; a payload  *)
(* may be submitted at any later time and in any order.                    *)
(***************************************************************************)
EXTENDS Clock, FiniteSets

CONSTANTS
    Attestors, FirstAttestor,
    Signatures,     \* [tokenId, value, notBefore, notAfter, nullifier, signer]
    NoState,        \* _currentState of a token never attested
    ATTESTOR_TIMELOCK

ASSUME AttestorAssumption ==
    /\ FirstAttestor \in Attestors
    /\ ATTESTOR_TIMELOCK \in Nat
    /\ \A p \in Signatures : p.signer \in Attestors /\ {p.notBefore, p.notAfter} \subseteq Nat

VARIABLES
    attestor,
    pendingAttestor,   \* effectiveAt of the one pending attestor, 0 for the others
    nullifiers,
    currentState,      \* _currentState
    submissions        \* history: how many payloads set a state

attestorVars == <<attestor, pendingAttestor, nullifiers, currentState, submissions>>

TokenIds == {p.tokenId : p \in Signatures}

AttestorInit ==
    /\ attestor = FirstAttestor
    /\ pendingAttestor = [a \in Attestors |-> 0]
    /\ nullifiers = {}
    /\ currentState = [t \in TokenIds |-> NoState]
    /\ submissions = 0

Fresh(p) ==
    /\ now >= p.notBefore /\ now <= p.notAfter
    /\ p.nullifier \notin nullifiers

attest(p) ==
    /\ Fresh(p)
    /\ p.signer = attestor
    /\ nullifiers' = nullifiers \cup {p.nullifier}
    /\ currentState' = [currentState EXCEPT
                            ![p.tokenId] = [value |-> p.value, notAfter |-> p.notAfter, ts |-> now]]
    /\ submissions' = submissions + 1
    /\ UNCHANGED <<now, attestor, pendingAttestor>>

proposeAttestor(a) ==
    /\ pendingAttestor' = [b \in Attestors |-> IF b = a THEN now + ATTESTOR_TIMELOCK ELSE 0]
    /\ UNCHANGED <<now, attestor, nullifiers, currentState, submissions>>

\* Mutant: the slot is looked up for whether it is taken, not for whom.
AttestorDueAnyone(a) == \E b \in Attestors : pendingAttestor[b] # 0 /\ now >= pendingAttestor[b]

AttestorDue(a) == pendingAttestor[a] # 0 /\ now >= pendingAttestor[a]

executeAttestor(a) ==
    /\ AttestorDue(a)
    /\ attestor' = a
    /\ pendingAttestor' = [b \in Attestors |-> 0]
    /\ UNCHANGED <<now, nullifiers, currentState, submissions>>

AttestorTick == Advance /\ UNCHANGED attestorVars

AttestorNext ==
    \/ AttestorTick
    \/ \E p \in Signatures : attest(p)
    \/ \E a \in Attestors : proposeAttestor(a) \/ executeAttestor(a)

AttestorSpec == now = 1 /\ AttestorInit /\ [][AttestorNext]_<<now, attestorVars>>

------------------------------------------------------------------------------

AttestorEffect(c, a) == a

AttestorChanges == INSTANCE Timelock
    WITH Change <- Attestors, Effect <- AttestorEffect, DELAY <- ATTESTOR_TIMELOCK,
         Configs <- {FirstAttestor}, due <- pendingAttestor, config <- attestor

\* The attestor contract implements a timelock on its signer: the key that may
\* write off-chain state is the first one or the last one announced
\* ATTESTOR_TIMELOCK before (proposeAttestor overwrites the slot,
\* executeAttestor must name it).
AttestorWaits == AttestorChanges!TimelockSpec

\* The state served for a token (getOffChainState, while not stale) is that of a
\* payload signed for this very token and valid when it was submitted, and no
\* payload counts twice, however often and in whatever order the signed payloads
\* are submitted.
StateIsAttested ==
    /\ \A t \in TokenIds : currentState[t] # NoState =>
           \E p \in Signatures :
               /\ p.tokenId = t /\ p.nullifier \in nullifiers
               /\ p.value = currentState[t].value /\ p.notAfter = currentState[t].notAfter
               /\ currentState[t].ts \in p.notBefore..p.notAfter
    /\ submissions <= Cardinality(nullifiers)
==============================================================================
