------------------------------ MODULE Proposals ------------------------------
(***************************************************************************)
(* The proposal store of runtimeStore.ts, for one token: rows an operator  *)
(* may approve or skip until their time is up.                             *)
(*                                                                         *)
(* A row object outlives its place in the bucket, since the approve route  *)
(* keeps its reference while the swap executes.  Time is abstracted to     *)
(* whether a row's expiresAt has passed.                                   *)
(***************************************************************************)
EXTENDS Naturals, Sequences, SequencesExt

CONSTANTS
    Ids,                     \* proposal ids (crypto.randomUUID), each used once
    PROPOSAL_CAP_PER_TOKEN

ASSUME StoreAssumption == PROPOSAL_CAP_PER_TOKEN \in Nat \ {0}

VARIABLES
    bucket,   \* the ids in the token's Map, in order of insertion
    row       \* row[id]: the record of id

storeVars == <<bucket, row>>

Outcomes == {"none", "pending", "approved", "skipped", "expired"}

RowType ==
    [outcome: Outcomes,       \* "none": not added yet
     timer: BOOLEAN,          \* its setTimeout is scheduled
     due: BOOLEAN]            \* expiresAt has passed

StoreInit ==
    /\ bucket = <<>>
    /\ row = [id \in Ids |-> [outcome |-> "none", timer |-> FALSE, due |-> FALSE]]

Stored(id) == id \in ToSet(bucket)

\* Mutant: no timer is scheduled.
AddWithoutTimer(id) ==
    /\ Len(bucket) < PROPOSAL_CAP_PER_TOKEN
    /\ row[id].outcome = "none"
    /\ bucket' = Append(bucket, id)
    /\ row' = [row EXCEPT ![id] = [outcome |-> "pending", timer |-> FALSE, due |-> FALSE]]

\* Evict the oldest row, whatever its outcome, when the bucket is full.
AddProposal(id) ==
    LET full == Len(bucket) >= PROPOSAL_CAP_PER_TOKEN
        added == [outcome |-> "pending", timer |-> TRUE, due |-> FALSE]
    IN /\ row[id].outcome = "none"
       /\ bucket' = Append(IF full THEN Tail(bucket) ELSE bucket, id)
       /\ row' = [i \in Ids |-> IF i = id THEN added
                                ELSE IF full /\ i = Head(bucket)
                                THEN [row[i] EXCEPT !.timer = FALSE]
                                ELSE row[i]]

\* expiresAt passes; only what looks at it later can tell.
ComesDue(id) ==
    /\ Stored(id)
    /\ row[id].outcome \in {"pending", "approved"}
    /\ ~row[id].due
    /\ row' = [row EXCEPT ![id].due = TRUE]
    /\ UNCHANGED bucket

\* The setTimeout callback of addProposal.
TimerFires(id) ==
    /\ row[id].timer
    /\ row[id].due
    /\ row' = [row EXCEPT ![id].timer = FALSE,
                          ![id].outcome = IF Stored(id) /\ @ = "pending"
                                          THEN "expired" ELSE @]
    /\ UNCHANGED bucket

\* markProposalConsumed, for a pending row.
Consumed(id, outcome) ==
    [row EXCEPT ![id].outcome = outcome, ![id].timer = FALSE]

\* What both routes require before they look at expiresAt.
Answerable(id) == Stored(id) /\ row[id].outcome = "pending"

\* Either route, too late: the row expires and the request gets 410.
AnswerLate(id) ==
    /\ Answerable(id)
    /\ row[id].due
    /\ row' = Consumed(id, "expired")
    /\ UNCHANGED bucket

Skip(id) ==
    /\ Answerable(id)
    /\ ~row[id].due
    /\ row' = Consumed(id, "skipped")
    /\ UNCHANGED bucket

=============================================================================
