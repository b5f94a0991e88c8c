----------------------------- MODULE PolicyIndexer -----------------------------
(***************************************************************************)
(* workers/onchainIndexer.ts for one token: the watchers of the factory    *)
(* and of the policy facet start a handler per log and do not wait for it; *)
(* the handlers write the token's AgentPolicy row and append to its        *)
(* PolicyRevision history.                                                 *)
(*                                                                         *)
(* There is a watcher per event name, so order is kept among logs of one   *)
(* name only; a reconnect may deliver a log again, a restart loses the     *)
(* handlers in flight and replays the chain from the configured block.     *)
(* Postgres and the chain are external: a transaction happens at one time  *)
(* or not at all, for the upsert holds the row's lock until it commits.    *)
(***************************************************************************)
EXTENDS Integers, Sequences, FiniteSets, FiniteSetsExt

CONSTANTS
    LogHandlers,        \* bound: handlers in flight
    FromBlock,          \* "genesis": BACKEND_INDEXER_FROM_BLOCK_* is set; "latest"
    MaxLogs,            \* bound: logs of the token
    MaxExtra            \* bound: redeliveries, restarts and failed calls

VARIABLES
    chainLog,           \* names of the token's logs
    seen,               \* seen[name]: logs that the name's watcher has delivered
    handler,            \* handler[h]: what it is doing, Idle when free
    policyRow,          \* the AgentPolicy row, NoRow before it is created
    revisions,          \* the PolicyRevision rows
    deployedHandled,    \* history: handleAgentDeployed has written
    extras              \* redeliveries, restarts and failures so far

indexerVars == <<chainLog, seen, handler, policyRow, revisions, deployedHandled, extras>>

Names == {"AgentDeployed", "PolicyInstalled", "PolicyUpdated", "PolicyRevoked"}
Writes(name) == name \in {"PolicyInstalled", "PolicyUpdated"}
Idle == [log |-> 0]
NoRow == [kernel |-> "none"]

\* getPolicy at the head of the chain: which log wrote it, and whether it is
\* still live (a revocation moves its expiry to the past).
ChainPolicy ==
    [by |-> Max({0} \cup {i \in DOMAIN chainLog : Writes(chainLog[i])}),
     live |-> chainLog # <<>> /\ chainLog[Len(chainLog)] # "PolicyRevoked"]

IndexerInit ==
    /\ chainLog = <<>>
    /\ seen = [n \in Names |-> 0]
    /\ handler = [h \in LogHandlers |-> Idle]
    /\ policyRow = NoRow
    /\ revisions = {}
    /\ deployedHandled = FALSE
    /\ extras = 0

\* The chain: deployAgent emits two logs, then the owner updates and revokes.
EmitLogs(names) ==
    /\ Len(chainLog \o names) <= MaxLogs
    /\ IF chainLog = <<>> THEN names = <<"AgentDeployed", "PolicyInstalled">>
       ELSE names \in {<<"PolicyUpdated">>} \cup IF ChainPolicy.live THEN {<<"PolicyRevoked">>} ELSE {}
    /\ chainLog' = chainLog \o names
    /\ UNCHANGED <<seen, handler, policyRow, revisions, deployedHandled, extras>>

LogsOf(n) == {i \in DOMAIN chainLog : chainLog[i] = n}

HandlerStarts(h, i) ==
    handler' = [handler EXCEPT ![h] =
                   [log |-> i, step |-> IF Writes(chainLog[i]) THEN "read" ELSE "write"]]

\* onLogs of the name's watcher: the next log of that name.
DeliverLog(n, h) ==
    /\ handler[h] = Idle
    /\ \E i \in LogsOf(n) :
          /\ Cardinality({j \in LogsOf(n) : j < i}) = seen[n]
          /\ HandlerStarts(h, i)
    /\ seen' = [seen EXCEPT ![n] = @ + 1]
    /\ UNCHANGED <<chainLog, policyRow, revisions, deployedHandled, extras>>

Extra == extras < MaxExtra /\ extras' = extras + 1

RedeliverLog(n, h) ==
    /\ Extra
    /\ handler[h] = Idle
    /\ \E i \in LogsOf(n) :
          Cardinality({j \in LogsOf(n) : j < i}) < seen[n] /\ HandlerStarts(h, i)
    /\ UNCHANGED <<chainLog, seen, policyRow, revisions, deployedHandled>>

\* The process dies and startOnchainIndexer mounts the watchers again.
RestartIndexer ==
    /\ Extra
    /\ handler' = [h \in LogHandlers |-> Idle]
    /\ seen' = [n \in Names |-> IF FromBlock = "latest" THEN Cardinality(LogsOf(n)) ELSE 0]
    /\ UNCHANGED <<chainLog, policyRow, revisions, deployedHandled>>

At(h, step, names) ==
    /\ handler[h] # Idle /\ handler[h].step = step
    /\ chainLog[handler[h].log] \in names

HandlerEnds(h) == handler' = [handler EXCEPT ![h] = Idle]

\* A failed read or transaction is logged and the log is skipped.
HandlerFails(h) ==
    /\ Extra
    /\ handler[h] # Idle
    /\ HandlerEnds(h)
    /\ UNCHANGED <<chainLog, seen, policyRow, revisions, deployedHandled>>

handleAgentDeployed(h) ==
    /\ At(h, "write", {"AgentDeployed"})
    /\ policyRow' = IF policyRow = NoRow THEN [kernel |-> "tba", by |-> 0, live |-> FALSE]
                             ELSE [policyRow EXCEPT !.kernel = "tba"]
    /\ deployedHandled' = TRUE
    /\ HandlerEnds(h)
    /\ UNCHANGED <<chainLog, seen, revisions, extras>>

\* updateMany: there may be no row yet.
handlePolicyRevoked(h) ==
    /\ At(h, "write", {"PolicyRevoked"})
    /\ policyRow' = IF policyRow = NoRow THEN policyRow ELSE [policyRow EXCEPT !.live = FALSE]
    /\ HandlerEnds(h)
    /\ UNCHANGED <<chainLog, seen, revisions, deployedHandled, extras>>

\* handlePolicyInstalledOrUpdated before its transaction.  What is read is the
\* policy of now, which may be newer than the log.
readFullPolicy(h) ==
    /\ At(h, "read", {"PolicyInstalled", "PolicyUpdated"})
    /\ handler' = [handler EXCEPT ![h] =
                      [log |-> @.log, step |-> "write", policy |-> ChainPolicy,
                       next |-> Cardinality(revisions) + 1]]
    /\ UNCHANGED <<chainLog, seen, policyRow, revisions, deployedHandled, extras>>

\* Mutant: the number is taken with the policy, before the transaction.
RevisionNumberEarly(h) == handler[h].next

\* aggregate, inside the transaction
RevisionNumber(h) == Max({0} \cup {r.number : r \in revisions}) + 1

Upserted(p) ==
    IF policyRow = NoRow THEN [kernel |-> "0x", by |-> p.by, live |-> p.live]
    ELSE [policyRow EXCEPT !.by = p.by, !.live = p.live]

\* handlePolicyInstalledOrUpdated, the transaction.  The unique index on the log
\* refuses a second revision for it; the comment says that the upsert stays,
\* Postgres aborts the transaction: either may happen.
WriteRevision(h) ==
    LET i == handler[h].log
        duplicate == \E r \in revisions : r.log = i
    IN  /\ At(h, "write", {"PolicyInstalled", "PolicyUpdated"})
        /\ IF duplicate
           THEN policyRow' \in {policyRow, Upserted(handler[h].policy)} /\ UNCHANGED revisions
           ELSE /\ policyRow' = Upserted(handler[h].policy)
                /\ revisions' = revisions \cup
                      {[number |-> RevisionNumber(h), log |-> i, by |-> handler[h].policy.by]}
        /\ HandlerEnds(h)
        /\ UNCHANGED <<chainLog, seen, deployedHandled, extras>>

IndexerNext ==
    \/ \E names \in {<<"AgentDeployed", "PolicyInstalled">>, <<"PolicyUpdated">>, <<"PolicyRevoked">>} :
           EmitLogs(names)
    \/ \E h \in LogHandlers :
          \/ \E n \in Names : DeliverLog(n, h) \/ RedeliverLog(n, h)
          \/ HandlerFails(h)
          \/ handleAgentDeployed(h) \/ handlePolicyRevoked(h)
          \/ readFullPolicy(h) \/ WriteRevision(h)
    \/ RestartIndexer

IndexerSpec == IndexerInit /\ [][IndexerNext]_indexerVars

------------------------------------------------------------------------------

\* The history of a policy is numbered without a gap and has one revision per
\* log, whatever is delivered twice, handled at the same time, lost in a crash
\* or replayed; no revision shows a policy older than the log it records, and
\* the kernel address of a deployed agent is never overwritten by the skeleton's
\* '0x' (handlePolicyInstalledOrUpdated against handleAgentDeployed).
RevisionsAreSound ==
    /\ {r.number : r \in revisions} = 1..Cardinality(revisions)
    /\ \A r, s \in revisions : r.log = s.log => r = s
    /\ \A r \in revisions : r.by >= r.log
    /\ deployedHandled => policyRow.kernel = "tba"

\* "PolicyRevoked -> set expiresAt = now-1s" by the "authoritative writer for
\* AgentPolicy.*" (onchainIndexer.ts:19 and :6): when every log was delivered and
\* handled, the row of a revoked policy is not live.
RevokedRowIsDead ==
    /\ chainLog # <<>> /\ ~ChainPolicy.live
    /\ \A n \in Names : seen[n] = Cardinality(LogsOf(n))
    /\ \A h \in LogHandlers : handler[h] = Idle
    => policyRow = NoRow \/ ~policyRow.live
==============================================================================
