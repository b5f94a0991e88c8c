---------------------------- MODULE PaymasterRelay ----------------------------
(***************************************************************************)
(* PaymasterRelay.sol: sponsors the user operations of the callers its     *)
(* owner lists, up to a number per block and per caller and block; the     *)
(* lists and the caps change through three timelocked pairs of calls.      *)
(*                                                                         *)
(* A pending change is kept under the hash of its payload: announcing the  *)
(* same payload again restarts its delay, announcing the opposite does not *)
(* cancel it, and it never expires.  The guardian and the deposits move no *)
(* state of this model.  Consecutive blocks may carry the same timestamp.  *)
(***************************************************************************)
EXTENDS Clock, FiniteSets, SequencesExt

CONSTANTS
    Callers,
    StartCap,          \* maxSponsoredOps_ of the constructor
    Payloads,          \* what the owner may announce
    RELAY_TIMELOCK

PayloadType ==
    [kind : {"max"}, cap : Nat]
    \cup [kind : {"callers"}, list : Seq(Callers \X BOOLEAN)]
    \cup [kind : {"per_caller"}, caller : Callers, cap : Nat]

ASSUME RelayAssumption ==
    /\ IsFiniteSet(Callers)
    /\ Payloads \subseteq PayloadType
    /\ StartCap \in Nat
    /\ RELAY_TIMELOCK \in Nat

VARIABLES
    relay,             \* [max, perCaller, sponsored]: the timelocked settings
    pendingPayload,    \* _pending
    opsByCaller,       \* opsSponsoredByCallerThisBlock[.][block.number]
    opsThisBlock,      \* opsSponsoredThisBlock[block.number]
    topCap             \* history: the largest cap in force in this block

relayVars == <<relay, pendingPayload, opsByCaller, opsThisBlock, topCap>>
counts == <<opsByCaller, opsThisBlock>>

RelayInit ==
    /\ relay = [max |-> StartCap, perCaller |-> [c \in Callers |-> 0], sponsored |-> {}]
    /\ pendingPayload = [p \in Payloads |-> 0]
    /\ opsByCaller = [c \in Callers |-> 0]
    /\ opsThisBlock = 0
    /\ topCap = StartCap

\* Mutant: the count is compared after the operation that reaches the cap.
WithinCapsInclusive(c) ==
    /\ opsThisBlock <= relay.max
    /\ relay.perCaller[c] # 0 => opsByCaller[c] < relay.perCaller[c]

WithinCaps(c) ==
    /\ opsThisBlock < relay.max
    /\ relay.perCaller[c] # 0 => opsByCaller[c] < relay.perCaller[c]

\* A refused operation changes nothing.
validatePaymasterUserOp(c) ==
    /\ c \in relay.sponsored
    /\ WithinCaps(c)
    /\ opsThisBlock' = opsThisBlock + 1
    /\ opsByCaller' = [opsByCaller EXCEPT ![c] = @ + 1]
    /\ UNCHANGED <<now, relay, pendingPayload, topCap>>

\* proposeSetMaxSponsoredOps, proposeSetSponsoredCallers,
\* proposeSetMaxSponsoredOpsPerCaller
proposeSet(p) ==
    /\ pendingPayload' = [pendingPayload EXCEPT ![p] = now + RELAY_TIMELOCK]
    /\ UNCHANGED <<now, relay, counts, topCap>>

RelayEffect(r, p) ==
    CASE p.kind = "max" -> [r EXCEPT !.max = p.cap]
      [] p.kind = "per_caller" -> [r EXCEPT !.perCaller[p.caller] = p.cap]
      [] p.kind = "callers" ->
            [r EXCEPT !.sponsored = FoldLeft(LAMBDA listed, e : IF e[2] THEN listed \cup {e[1]}
                                                                 ELSE listed \ {e[1]}, @, p.list)]

\* Mutant: any pending change may be executed at once.
PayloadAnnounced(p) == pendingPayload[p] # 0

PayloadDue(p) == pendingPayload[p] # 0 /\ now >= pendingPayload[p]

\* executeSetMaxSponsoredOps, executeSetSponsoredCallers,
\* executeSetMaxSponsoredOpsPerCaller
executeSet(p) ==
    /\ PayloadDue(p)
    /\ pendingPayload' = [pendingPayload EXCEPT ![p] = 0]
    /\ relay' = RelayEffect(relay, p)
    /\ topCap' = IF relay'.max > topCap THEN relay'.max ELSE topCap
    /\ UNCHANGED <<now, counts>>

\* The counters of a new block are zero.
NewBlock ==
    /\ Advance \/ UNCHANGED now
    /\ opsByCaller' = [c \in Callers |-> 0]
    /\ opsThisBlock' = 0
    /\ topCap' = relay.max
    /\ UNCHANGED <<relay, pendingPayload>>

RelayNext ==
    \/ NewBlock
    \/ \E c \in Callers : validatePaymasterUserOp(c)
    \/ \E p \in Payloads : proposeSet(p) \/ executeSet(p)

RelaySpec == now = 1 /\ RelayInit /\ [][RelayNext]_<<now, relayVars>>

------------------------------------------------------------------------------

RelayChanges == INSTANCE Timelock
    WITH Change <- Payloads, Effect <- RelayEffect, DELAY <- RELAY_TIMELOCK,
         Configs <- {[max |-> StartCap, perCaller |-> [c \in Callers |-> 0], sponsored |-> {}]},
         due <- pendingPayload, config <- relay

\* The relay implements a timelock on its caps and its list of callers: none of
\* them moves but by a payload announced RELAY_TIMELOCK earlier, once for each
\* announcement (the three propose/execute pairs of PaymasterRelay).
RelayWaits == RelayChanges!TimelockSpec

\* Whatever is executed in the middle of a block, the relay never pays for more
\* operations in it than the largest cap that was in force during the block
\* allows, and a cap raised in the block is the only way to exceed the old one
\* (validatePaymasterUserOp against executeSetMaxSponsoredOps).
BlockBudget ==
    /\ opsThisBlock <= topCap
    /\ opsThisBlock = SumFunction(opsByCaller)
==============================================================================
