---------------------------- MODULE WebhookEmitter ----------------------------
(***************************************************************************)
(* services/webhookEmitter.ts: emit puts a delivery in a bounded queue and *)
(* never waits; one drain at a time takes the oldest and posts it, with    *)
(* retries after a timeout or a 5xx.  The recipient is external: it may    *)
(* handle a delivery whose answer then comes too late.                     *)
(*                                                                         *)
(* A delivery is its number in the order of the calls of emit.             *)
(***************************************************************************)
EXTENDS Integers, Sequences

CONSTANTS
    Drains,             \* drains that may run at one time
    MAX_QUEUE_SIZE,
    ATTEMPTS,           \* RETRY_DELAYS_MS.length
    MaxDeliveries       \* bound: calls of emit

ASSUME WebhookAssumption ==
    /\ Drains # {}
    /\ MAX_QUEUE_SIZE \in Nat \ {0}
    /\ ATTEMPTS \in Nat \ {0}

VARIABLES
    hooks,              \* queue
    emitted,            \* calls of emit so far
    draining,
    drain,              \* drain[d]: the delivery it posts and how often it has tried
    handled             \* recipient: the deliveries it handled, in order

webhookVars == <<hooks, emitted, draining, drain, handled>>

Off == [pc |-> "off", delivery |-> 0, attempt |-> 0]
Taking == [pc |-> "take", delivery |-> 0, attempt |-> 0]

WebhookInit ==
    /\ hooks = <<>> /\ emitted = 0
    /\ draining = FALSE /\ drain = [d \in Drains |-> Off]
    /\ handled = <<>>

\* Mutant: a drain is scheduled whether or not one is running.
DrainNeeded == TRUE

\* scheduleDrain, called with something in the queue
ScheduleDrain == ~draining

\* With the queue full the oldest delivery is dropped.
emit ==
    LET longer == Append(hooks, emitted + 1)
    IN  /\ emitted < MaxDeliveries
        /\ emitted' = emitted + 1
        /\ hooks' = IF Len(longer) > MAX_QUEUE_SIZE THEN Tail(longer) ELSE longer
        /\ draining' = TRUE
        /\ IF ScheduleDrain /\ \E d \in Drains : drain[d] = Off
           THEN \E d \in Drains : drain[d] = Off /\ drain' = [drain EXCEPT ![d] = Taking]
           ELSE UNCHANGED drain
        /\ UNCHANGED handled

DrainTakes(d) ==
    /\ drain[d].pc = "take" /\ hooks # <<>>
    /\ hooks' = Tail(hooks)
    /\ drain' = [drain EXCEPT ![d] = [pc |-> "post", delivery |-> Head(hooks), attempt |-> 1]]
    /\ UNCHANGED <<emitted, draining, handled>>

\* Mutant: draining is not reset.
DrainStops(d) ==
    /\ drain[d].pc = "take" /\ hooks = <<>>
    /\ drain' = [drain EXCEPT ![d] = Off]
    /\ UNCHANGED <<hooks, emitted, draining, handled>>

DrainReturns(d) ==
    /\ drain[d].pc = "take" /\ hooks = <<>>
    /\ draining' = FALSE
    /\ drain' = [drain EXCEPT ![d] = Off]
    /\ UNCHANGED <<hooks, emitted, handled>>

\* 2xx, or 4xx, which is final too
PostAnswered(d) ==
    /\ drain[d].pc = "post"
    /\ \/ handled' = Append(handled, drain[d].delivery)
       \/ UNCHANGED handled
    /\ drain' = [drain EXCEPT ![d] = Taking]
    /\ UNCHANGED <<hooks, emitted, draining>>

\* 5xx, a network error or the abort of the timeout: retry, up to ATTEMPTS.
PostFails(d) ==
    /\ drain[d].pc = "post"
    /\ \/ handled' = Append(handled, drain[d].delivery)
       \/ UNCHANGED handled
    /\ drain' = IF drain[d].attempt < ATTEMPTS THEN [drain EXCEPT ![d].attempt = @ + 1]
                ELSE [drain EXCEPT ![d] = Taking]
    /\ UNCHANGED <<hooks, emitted, draining>>

DrainStep(d) == DrainTakes(d) \/ DrainReturns(d) \/ PostAnswered(d) \/ PostFails(d)

WebhookNext == emit \/ \E d \in Drains : DrainStep(d)

WebhookSpec == WebhookInit /\ [][WebhookNext]_webhookVars

\* setImmediate runs the drain, every post ends by its timeout.
WebhookFairness == \A d \in Drains : WF_webhookVars(DrainStep(d))

------------------------------------------------------------------------------

\* The recipient handles deliveries in the order of the events, a retried one again
\* at its own place, although emit is called while a drain waits for an answer.
HandledInOrder == \A i \in 1..Len(handled) - 1 : handled[i] <= handled[i + 1]

\* No delivery stays in the queue: each is posted or dropped, also the one that is
\* emitted at the end of a drain.
QueueDrains == hooks # <<>> ~> hooks = <<>>
==============================================================================
