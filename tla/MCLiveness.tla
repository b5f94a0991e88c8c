------------------------------ MODULE MCLiveness ------------------------------
(* The parts of the backend that promise to get something done, for TLC, with  *)
(* the fairness of DeskFairness, DirectivesFairness and WebhookFairness.  A    *)
(* behaviour exercises one of them; no symmetry, for it is about liveness.     *)
EXTENDS AgentDesk, MCDirectives, WebhookEmitter

VARIABLE subject   \* the part this behaviour is about

allVars == <<subject, deskVars, directiveVars, webhookVars>>

MCKeys == 0..MaxSeq

MCInit ==
    /\ subject \in {"desk", "directives", "webhooks"}
    /\ DeskInit /\ DirectivesInit /\ WebhookInit

deskState == <<call, inFlight, lastWaiter, idempotencyLog, swapNonce, bucket, row, purpose, seq>>

\* The step is one of this part, and the others do not move.
Of(part) ==
    /\ subject = part /\ UNCHANGED subject
    /\ part # "desk"       => UNCHANGED deskState
    /\ part # "directives" => UNCHANGED directiveVars
    /\ part # "webhooks"   => UNCHANGED webhookVars

MCNext ==
    \/ Of("desk")       /\ DeskNext
    \/ Of("directives") /\ DirectivesNext
    \/ Of("webhooks")   /\ WebhookNext

MCSpec ==
    /\ MCInit /\ [][MCNext]_allVars
    /\ \A id \in Ids : WF_allVars(Of("desk") /\ Clock(id))
    /\ \A c \in Calls : WF_allVars(Of("desk") /\ CallStep(c))
    /\ \A d \in Threads : WF_allVars(Of("directives") /\ LifetimePasses(d))
    /\ \A t \in TriggerTicks : WF_allVars(Of("directives") /\ TriggerStep(t))
    /\ \A d \in Drains : WF_allVars(Of("webhooks") /\ DrainStep(d))
===============================================================================
