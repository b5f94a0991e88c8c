------------------------------ MODULE AgentDesk ------------------------------
(***************************************************************************)
(* What executes for one agent: the operator approves the advisor's        *)
(* proposals (agentProposalsRoutes.ts) while the strategy's own ticks and  *)
(* armed directives submit swaps, and all of them go through the one       *)
(* executor.                                                               *)
(*                                                                         *)
(* A request's ownership check is an await that precedes every read of     *)
(* the store, so a request is one step up to its call of                   *)
(* executeApprovedAction and one when that call returns.                   *)
(***************************************************************************)
EXTENDS SwapExecutor, Proposals

CONSTANTS
    Strategy,       \* the purpose of a swap no proposal asked for
    MaxSeq          \* bound: sequence numbers, and so idempotency keys

ASSUME DeskAssumption ==
    /\ Strategy \notin Ids
    /\ NoCall \notin Ids \cup {Strategy}
    /\ Keys = 0..MaxSeq
    /\ NoCall \notin Keys

VARIABLES
    purpose,        \* purpose[c]: the proposal that call c executes, or Strategy
    seq             \* getRuntimeState(tokenId).seq, which the tick of a key is

deskVars == <<executorVars, storeVars, purpose, seq>>

DeskTypeOK ==
    /\ call \in [Calls -> CallType]
    /\ inFlight \in Calls \cup {NoCall}
    /\ lastWaiter \in [Calls -> Calls \cup {NoCall}]
    /\ idempotencyLog \subseteq Keys
    /\ swapNonce \in 0..Cardinality(Calls)
    /\ bucket \in Seq(Ids)
    /\ Len(bucket) <= PROPOSAL_CAP_PER_TOKEN
    /\ IsInjective(bucket)
    /\ row \in [Ids -> RowType]
    /\ \A id \in Ids : row[id].timer => Answerable(id)
    /\ purpose \in [Calls -> Ids \cup {Strategy, NoCall}]
    /\ seq \in 0..MaxSeq

DeskInit ==
    /\ ExecutorInit
    /\ StoreInit
    /\ purpose = [c \in Calls |-> NoCall]
    /\ seq = 0

\* publishEvent numbers the event; the bound ends the numbering, not the run.
Publish == seq' = IF seq < MaxSeq THEN seq + 1 ELSE seq

-----------------------------------------------------------------------------
(* The advisor and the clock *)

Propose(id) ==
    /\ AddProposal(id)
    /\ Publish
    /\ UNCHANGED <<executorVars, purpose>>

Clock(id) ==
    /\ ComesDue(id) \/ TimerFires(id)
    /\ UNCHANGED <<executorVars, purpose, seq>>

-----------------------------------------------------------------------------
(* The routes, and the loop *)

\* Mutant: the row is not reserved while its execution is awaited.
ApproveUnreserved(id, c) ==
    /\ Answerable(id)
    /\ ~row[id].due
    /\ Request(c, seq)
    /\ purpose' = [purpose EXCEPT ![c] = id]
    /\ UNCHANGED <<storeVars, seq>>

\* Reserve the row, then await executeApprovedAction.
Approve(id, c) ==
    /\ Answerable(id)
    /\ ~row[id].due
    /\ row' = Consumed(id, "approved")
    /\ Request(c, seq)
    /\ purpose' = [purpose EXCEPT ![c] = id]
    /\ UNCHANGED <<bucket, seq>>

ApproveLate(id) ==
    /\ AnswerLate(id)
    /\ UNCHANGED <<executorVars, purpose, seq>>

SkipProposal(id) ==
    /\ Skip(id)
    /\ Publish
    /\ UNCHANGED <<executorVars, purpose>>

\* runTick or an armed directive.
StrategySwap(c) ==
    /\ Request(c, seq)
    /\ purpose' = [purpose EXCEPT ![c] = Strategy]
    /\ UNCHANGED <<storeVars, seq>>

-----------------------------------------------------------------------------
(* Steps of a call *)

\* The call goes on to its next await.
CallGoesOn(c) ==
    /\ Queue(c) \/ Enter(c) \/ Sign(c) \/ Estimate(c) \/ Submit(c)
    /\ UNCHANGED <<storeVars, purpose, seq>>

\* The call returns; executeApprovedAction publishes what became of it, and the
\* approve route puts a row whose execution failed back to pending.
CallFails(c) ==
    /\ PlanFails(c) \/ Refuse(c) \/ Abort(c) \/ Reverted(c) \/ TimesOut(c)
    /\ row' = IF purpose[c] = Strategy THEN row
              ELSE [row EXCEPT ![purpose[c]].outcome = "pending"]
    /\ Publish
    /\ UNCHANGED <<bucket, purpose>>

CallSucceeds(c) ==
    /\ Confirm(c)
    /\ Publish
    /\ UNCHANGED <<storeVars, purpose>>

CallStep(c) == CallGoesOn(c) \/ CallFails(c) \/ CallSucceeds(c)

ChainStep(c) ==
    /\ Land(c) \/ Revert(c)
    /\ UNCHANGED <<storeVars, purpose, seq>>

KeyExpires(k) ==
    /\ KeyLapses(k)
    /\ UNCHANGED <<storeVars, purpose, seq>>

DeskNext ==
    \/ \E id \in Ids : \/ Propose(id) \/ Clock(id)
                       \/ ApproveLate(id) \/ SkipProposal(id)
                       \/ \E c \in Calls : Approve(id, c)
    \/ \E c \in Calls : StrategySwap(c) \/ CallStep(c) \/ ChainStep(c)
    \/ \E k \in Keys : KeyExpires(k)

\* Time passes and timers fire.  Every await of a call ends: the RPC transports
\* have timeouts, and the wait for the receipt has its own.
DeskFairness ==
    /\ \A id \in Ids : WF_deskVars(Clock(id))
    /\ \A c \in Calls : WF_deskVars(CallStep(c))

DeskSpec == DeskInit /\ [][DeskNext]_deskVars /\ DeskFairness

-----------------------------------------------------------------------------
(* Safety *)

InProgress(c) == call[c].pc \notin {"idle"} \cup Returned

\* A proposal has one execution, in progress or successful, while it is approved,
\* and none otherwise: a second click, a click after the execution failed, the
\* timer and the eviction of the row never start or leave another.
OneExecution ==
    \A id \in Ids :
        Cardinality({c \in Calls : /\ purpose[c] = id
                                   /\ InProgress(c) \/ call[c].pc = "ok"})
            = IF row[id].outcome = "approved" THEN 1 ELSE 0

\* The swaps that landed are as many as the contract's nonce counts, one for each
\* nonce signed, whichever calls ran side by side; and a call that reports success
\* is one of them.
NonceCountsSwaps ==
    LET landed == {c \in Calls : call[c].tx = "landed"}
    IN /\ {call[c].nonce : c \in landed} = 0..(swapNonce - 1)
       /\ Cardinality(landed) = swapNonce
       /\ \A c \in Calls : call[c].pc = "ok" => c \in landed

-----------------------------------------------------------------------------
(* Liveness *)

\* Every call returns to its caller, the ones that queue included.
CallsReturn == \A c \in Calls : InProgress(c) ~> call[c].pc \in Returned

\* A proposal that nobody approves ends: skipped, expired, or evicted.
UnansweredProposalsEnd ==
    \A id \in Ids :
        row[id].outcome = "pending" ~> \/ row[id].outcome # "pending"
                                       \/ ~Stored(id)
                                       \/ \E c \in Calls : purpose[c] = id
===============================================================================
