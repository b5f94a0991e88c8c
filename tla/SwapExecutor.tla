----------------------------- MODULE SwapExecutor -----------------------------
(***************************************************************************)
(* executeApprovedAction of loop.ts and executeRhChainSwap of              *)
(* rhChainSwapExecutor.ts: the swaps the backend submits for one token.    *)
(*                                                                         *)
(* A call runs in one Node process together with the other calls: what it  *)
(* does between two awaits is one step here, and every await (the plan,    *)
(* the call before it, the signature, the gas estimate, the submission,    *)
(* the receipt) is a value of pc.  The calls for one token queue behind a  *)
(* slot that holds the promise of the call in progress.  When that promise *)
(* settles, those waiting on it resume one after the other before anything *)
(* else runs in the process, so they resume in the same step.              *)
(*                                                                         *)
(* The chain is the swap contract's nonce and the fate of each             *)
(* transaction; the price quote carries the nonce it was signed for.       *)
(***************************************************************************)
EXTENDS Naturals, FiniteSets

CONSTANTS
    Calls,      \* invocations of executeApprovedAction, each made at most once
    NoCall,
    Keys        \* hashes of (content, tick), as computeIdempotencyKey makes them

ASSUME ExecutorAssumption ==
    /\ NoCall \notin Calls
    /\ IsFiniteSet(Calls)

VARIABLES
    call,             \* call[c]: where the call is, and what it carries
    inFlight,         \* the slot: the call whose promise it holds, or NoCall
    lastWaiter,       \* lastWaiter[c]: the last call that awaits the promise of c, or NoCall
    idempotencyLog,   \* keys of successful calls, within the window
    swapNonce         \* _swapNonces[tokenId] of the contract

executorVars == <<call, inFlight, lastWaiter, idempotencyLog, swapNonce>>

Running == {"signing", "estimating", "submitting", "confirming"}
Returned == {"ok", "failed"}

CallType ==
    [pc: {"idle", "planning", "waiting"} \cup Running \cup Returned,
     key: Keys \cup {NoCall},
     prior: Calls \cup {NoCall},               \* whose promise it awaits
     nonce: Nat,                               \* the nonce it signed
     tx: {"none", "pending", "landed", "reverted"}]

Unmade == [pc |-> "idle", key |-> NoCall, prior |-> NoCall, nonce |-> 0, tx |-> "none"]

ExecutorInit ==
    /\ call = [c \in Calls |-> Unmade]
    /\ inFlight = NoCall
    /\ lastWaiter = [c \in Calls |-> NoCall]
    /\ idempotencyLog = {}
    /\ swapNonce = 0

-----------------------------------------------------------------------------
(* executeApprovedAction: plan, then enter the executor *)

\* The caller hands over an action; planRhSwap signs a first quote (an await).
Request(c, k) ==
    /\ call[c].pc = "idle"
    /\ call' = [call EXCEPT ![c].pc = "planning", ![c].key = k]
    /\ UNCHANGED <<inFlight, lastWaiter, idempotencyLog, swapNonce>>

\* Another kind of action, a missing field, an RPC error: { ok: false }.
PlanFails(c) ==
    /\ call[c].pc = "planning"
    /\ call' = [call EXCEPT ![c].pc = "failed"]
    /\ UNCHANGED <<inFlight, lastWaiter, idempotencyLog, swapNonce>>

\* DUPLICATE_SUBMISSION.
Refuse(c) ==
    /\ call[c].pc = "planning"
    /\ call[c].key \in idempotencyLog
    /\ call' = [call EXCEPT ![c].pc = "failed"]
    /\ UNCHANGED <<inFlight, lastWaiter, idempotencyLog, swapNonce>>

\* The slot is taken: await the promise in it.
Queue(c) ==
    /\ call[c].pc = "planning"
    /\ call[c].key \notin idempotencyLog
    /\ inFlight # NoCall
    /\ call' = [call EXCEPT ![c].pc = "waiting", ![c].prior = inFlight]
    /\ lastWaiter' = [lastWaiter EXCEPT ![inFlight] = c]
    /\ UNCHANGED <<inFlight, idempotencyLog, swapNonce>>

\* The slot is free: build the worker and put it there.
Enter(c) ==
    /\ call[c].pc = "planning"
    /\ call[c].key \notin idempotencyLog
    /\ inFlight = NoCall
    /\ call' = [call EXCEPT ![c].pc = "signing"]
    /\ inFlight' = c
    /\ UNCHANGED <<lastWaiter, idempotencyLog, swapNonce>>

-----------------------------------------------------------------------------
(* runExecution, inside the slot *)

\* The promise of c settles.  Its finally clause empties the slot if it still
\* holds this promise; then each call that awaits it, in turn, starts its own
\* worker and puts it in the slot, over the one before it.
Settle(c, result) ==
    /\ call' = [d \in Calls |->
                  IF d = c THEN [call[c] EXCEPT !.pc = result]
                  ELSE IF call[d].pc = "waiting" /\ call[d].prior = c
                  THEN [call[d] EXCEPT !.pc = "signing", !.prior = NoCall]
                  ELSE call[d]]
    /\ lastWaiter' = [lastWaiter EXCEPT ![c] = NoCall]
    /\ inFlight' = IF lastWaiter[c] # NoCall THEN lastWaiter[c]
                   ELSE IF inFlight = c THEN NoCall ELSE inFlight

\* signPrice reads the contract's nonce and signs for it.
Sign(c) ==
    /\ call[c].pc = "signing"
    /\ call' = [call EXCEPT ![c].pc = "estimating", ![c].nonce = swapNonce]
    /\ UNCHANGED <<inFlight, lastWaiter, idempotencyLog, swapNonce>>

\* The estimate simulates the swap, which reverts when the nonce has moved.
Estimate(c) ==
    /\ call[c].pc = "estimating"
    /\ call[c].nonce = swapNonce
    /\ call' = [call EXCEPT ![c].pc = "submitting"]
    /\ UNCHANGED <<inFlight, lastWaiter, idempotencyLog, swapNonce>>

Submit(c) ==
    /\ call[c].pc = "submitting"
    /\ call' = [call EXCEPT ![c].pc = "confirming", ![c].tx = "pending"]
    /\ UNCHANGED <<inFlight, lastWaiter, idempotencyLog, swapNonce>>

\* RPC down, simulation reverted (for the nonce, or for any
\* reason of the contract's), submission refused: throw before broadcasting.
Abort(c) ==
    /\ call[c].pc \in {"signing", "estimating", "submitting"}
    /\ Settle(c, "failed")
    /\ UNCHANGED <<idempotencyLog, swapNonce>>

\* Mutant: any receipt is a success.
ConfirmAnyReceipt(c) ==
    /\ call[c].pc = "confirming"
    /\ call[c].tx \in {"landed", "reverted"}
    /\ Settle(c, "ok")
    /\ idempotencyLog' = idempotencyLog \cup {call[c].key}
    /\ UNCHANGED swapNonce

\* The receipt says success: remember the key, for five minutes.
Confirm(c) ==
    /\ call[c].pc = "confirming"
    /\ call[c].tx = "landed"
    /\ Settle(c, "ok")
    /\ idempotencyLog' = idempotencyLog \cup {call[c].key}
    /\ UNCHANGED swapNonce

Reverted(c) ==
    /\ call[c].pc = "confirming"
    /\ call[c].tx = "reverted"
    /\ Settle(c, "failed")
    /\ UNCHANGED <<idempotencyLog, swapNonce>>

\* Mutant: no timeout on the receipt.
NeverTimesOut(c) == FALSE /\ UNCHANGED executorVars

\* waitForTransactionReceipt gives up after 60 s; the transaction does not.
TimesOut(c) ==
    /\ call[c].pc = "confirming"
    /\ Settle(c, "failed")
    /\ UNCHANGED <<idempotencyLog, swapNonce>>

\* pruneIdempotency, once the window has passed.  It may happen at any time, so the
\* model also covers calls of different content, whose keys never clash.
KeyLapses(k) ==
    /\ k \in idempotencyLog
    /\ idempotencyLog' = idempotencyLog \ {k}
    /\ UNCHANGED <<call, inFlight, lastWaiter, swapNonce>>

-----------------------------------------------------------------------------
(* The chain *)

Land(c) ==
    /\ call[c].tx = "pending"
    /\ call[c].nonce = swapNonce
    /\ call' = [call EXCEPT ![c].tx = "landed"]
    /\ swapNonce' = swapNonce + 1
    /\ UNCHANGED <<inFlight, lastWaiter, idempotencyLog>>

\* For its nonce, or for any other check of swap.
Revert(c) ==
    /\ call[c].tx = "pending"
    /\ call' = [call EXCEPT ![c].tx = "reverted"]
    /\ UNCHANGED <<inFlight, lastWaiter, idempotencyLog, swapNonce>>

=============================================================================
