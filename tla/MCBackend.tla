------------------------------- MODULE MCBackend -------------------------------
(* The parts of the backend process, for TLC.  What they share is modelled in   *)
(* each of them from its own side: a behaviour exercises one of them, chosen at *)
(* the start, and the others keep their initial state.                          *)
EXTENDS AgentDesk, AgentRuntime, PolicyIndexer, MCDirectives, CircuitBreaker,
        BrokerSession, EventStream, WebhookEmitter

VARIABLE subject   \* the part this behaviour is about

allVars == <<subject, deskVars, vars, indexerVars, directiveVars, breakerVars,
             brokerVars, streamVars, webhookVars>>

MCKeys == 0..MaxSeq

Parts == {"desk", "runtime", "indexer", "directives", "breaker", "broker", "stream",
          "webhooks"}

MCInit ==
    /\ subject \in Parts
    /\ DeskInit /\ Init /\ IndexerInit /\ DirectivesInit /\ BreakerInit /\ BrokerInit
    /\ StreamInit /\ WebhookInit
    /\ subject # "runtime" => \A r \in Records : rec[r].kind = "llm"   \* of no use to the others

deskState == <<call, inFlight, lastWaiter, idempotencyLog, swapNonce, bucket, row, purpose, seq>>
runtimeState == <<active, rec, status, evictions, tick, agentCache>>

\* The step is one of this part, and the others do not move.
Of(part) ==
    /\ subject = part /\ UNCHANGED subject
    /\ part # "desk"       => UNCHANGED deskState
    /\ part # "runtime"    => UNCHANGED runtimeState
    /\ part # "indexer"    => UNCHANGED indexerVars
    /\ part # "directives" => UNCHANGED directiveVars
    /\ part # "breaker"    => UNCHANGED breakerVars
    /\ part # "broker"     => UNCHANGED brokerVars
    /\ part # "stream"     => UNCHANGED streamVars
    /\ part # "webhooks"   => UNCHANGED webhookVars

MCNext ==
    \/ Of("desk")       /\ DeskNext
    \/ Of("runtime")    /\ Next
    \/ Of("indexer")    /\ IndexerNext
    \/ Of("directives") /\ DirectivesNext
    \/ Of("breaker")    /\ BreakerNext
    \/ Of("broker")     /\ BrokerNext
    \/ Of("stream")     /\ StreamNext
    \/ Of("webhooks")   /\ WebhookNext

MCSpec == MCInit /\ [][MCNext]_allVars

\* The parts' interchangeable constants are the same model values: Calls and
\* Records three, and Ids, Ticks, LogHandlers, TriggerTicks, Passes, BrokerCalls,
\* States and Drains two.
Symmetric == Permutations(Calls) \cup Permutations(Ids)
================================================================================
