------------------------------ MODULE AttestPoster ------------------------------
(****************************************************************************)
(* workers/attestPoster.ts with lib/attestor.ts and handleStateAttested of  *)
(* the indexer: the worker that reads each agent's brokerage account, signs *)
(* what it read, records it and submits it to the attestor contract, and    *)
(* the record's transaction hash that comes back with the contract's event. *)
(*                                                                          *)
(* An account's state is its version number, which grows whenever the       *)
(* account changes.  The sequencer takes the worker's transactions in the   *)
(* order they were sent; nobody else submits its payloads.  The contract's  *)
(* attestor stays the worker's key: its rotation is RobinhoodMcpAttestor's. *)
(****************************************************************************)
EXTENDS RobinhoodMcpAttestor, Sequences, FiniteSetsExt

CONSTANTS
    Ticks,               \* runs of tick() that can be under way together
    Policies,            \* answers of the policy query: sequences of tokenIds
    PosterKey,           \* the key the backend signs with
    BACKDATE, VALIDITY,  \* notBefore and notAfter around the time of signing
    MaxVersion,          \* bound: versions of an account
    MaxRows              \* bound: recorded attestations

ASSUME PosterAssumption ==
    /\ Policies \subseteq Seq(TokenIds) \ {<<>>}
    /\ BACKDATE \in Nat /\ VALIDITY \in Nat

VARIABLES
    account,             \* broker: current version of each agent's account
    tick,                \* each run's remaining policies, step and payload
    rows,                \* attestation table: signed payloads
    hashed,              \* nullifiers of the rows with a txHash
    mempool              \* submitted payloads

posterVars == <<account, tick, rows, hashed, mempool>>
allPosterVars == <<now, attestorVars, posterVars>>

Nothing == [tokenId |-> 0, value |-> 0, nullifier |-> 0]
Idle == [todo |-> <<>>, step |-> "idle", payload |-> Nothing]

PosterInit ==
    /\ account = [t \in TokenIds |-> 1]
    /\ tick = [k \in Ticks |-> Idle]
    /\ rows = {} /\ hashed = {} /\ mempool = <<>>

\* Mutant: a run starts whatever is under way.
NeverRunning == FALSE

isRunning == \E k \in Ticks : tick[k] # Idle

\* In any free slot: slots are alike.
TickStarts(k) ==
    /\ ~isRunning
    /\ tick[k] = Idle /\ k = CHOOSE j \in Ticks : tick[j] = Idle
    /\ \E live \in Policies :
           tick' = [tick EXCEPT ![k] = [todo |-> live, step |-> "fetch", payload |-> Nothing]]
    /\ UNCHANGED <<now, attestorVars, account, rows, hashed, mempool>>

\* On to the next policy of the run, or its end.
NextPolicy(run) ==
    IF Len(run.todo) = 1 THEN Idle ELSE [todo |-> Tail(run.todo), step |-> "fetch", payload |-> Nothing]

\* fetchAccountState
Fetches(k) ==
    LET t == Head(tick[k].todo)
    IN  /\ tick[k].step = "fetch"
        /\ tick' = [tick EXCEPT ![k].step = "sign",
                                ![k].payload = [Nothing EXCEPT !.tokenId = t, !.value = account[t]]]
        /\ UNCHANGED <<now, attestorVars, account, rows, hashed, mempool>>

\* attestState: the row is written before the payload is returned, so before it
\* can be submitted.  The nullifier hashes a random salt: a new number.
Signs(k) ==
    LET p == [tokenId |-> tick[k].payload.tokenId, value |-> tick[k].payload.value,
              notBefore |-> now - BACKDATE, notAfter |-> now + VALIDITY,
              nullifier |-> Cardinality(rows) + 1, signer |-> PosterKey]
    IN  /\ tick[k].step = "sign" /\ Cardinality(rows) < MaxRows
        /\ rows' = rows \cup {p}
        /\ tick' = [tick EXCEPT ![k].step = "simulate", ![k].payload = p]
        /\ UNCHANGED <<now, attestorVars, account, hashed, mempool>>

Accepted(p) == Fresh(p) /\ p.signer = attestor

\* simulateContract: a payload the contract would refuse is given up.
Simulates(k) ==
    /\ tick[k].step = "simulate"
    /\ tick' = [tick EXCEPT ![k] = IF Accepted(@.payload) THEN [@ EXCEPT !.step = "send"]
                                                          ELSE NextPolicy(@)]
    /\ UNCHANGED <<now, attestorVars, account, rows, hashed, mempool>>

\* writeContract: the receipt is not waited for.
Sends(k) ==
    /\ tick[k].step = "send"
    /\ mempool' = Append(mempool, tick[k].payload)
    /\ tick' = [tick EXCEPT ![k] = NextPolicy(@)]
    /\ UNCHANGED <<now, attestorVars, account, rows, hashed>>

\* A call of any step throws: the run goes on with the next policy.
Fails(k) ==
    /\ tick[k] # Idle
    /\ tick' = [tick EXCEPT ![k] = NextPolicy(@)]
    /\ UNCHANGED <<now, attestorVars, account, rows, hashed, mempool>>

\* The process dies with its runs, and starts again.
Crash ==
    /\ isRunning
    /\ tick' = [k \in Ticks |-> Idle]
    /\ UNCHANGED <<now, attestorVars, account, rows, hashed, mempool>>

\* The transaction at the head of the line takes effect, or reverts.
Included ==
    /\ mempool # <<>>
    /\ mempool' = Tail(mempool)
    /\ IF Accepted(Head(mempool)) THEN attest(Head(mempool)) ELSE UNCHANGED <<now, attestorVars>>
    /\ UNCHANGED <<account, tick, rows, hashed>>

\* handleStateAttested, on an event that may come late, again or never
handleStateAttested(n) ==
    /\ n \in nullifiers
    /\ hashed' = hashed \cup {p.nullifier : p \in {r \in rows : r.nullifier = n}}
    /\ UNCHANGED <<now, attestorVars, account, tick, rows, mempool>>

AccountChanges(t) ==
    /\ account[t] < MaxVersion
    /\ account' = [account EXCEPT ![t] = @ + 1]
    /\ UNCHANGED <<now, attestorVars, tick, rows, hashed, mempool>>

PosterNext ==
    \/ \E k \in Ticks : TickStarts(k) \/ Fetches(k) \/ Signs(k) \/ Simulates(k) \/ Sends(k) \/ Fails(k)
    \/ Crash
    \/ Included
    \/ \E n \in nullifiers : handleStateAttested(n)
    \/ \E t \in TokenIds : AccountChanges(t)
    \/ AttestorTick /\ UNCHANGED posterVars

PosterSpec == now = 1 /\ AttestorInit /\ PosterInit /\ [][PosterNext]_allPosterVars

--------------------------------------------------------------------------------

\* Every state on chain has its row, a row has a transaction hash only if its
\* payload is on chain, and the state served for an agent is that of the latest
\* reading among its rows that are: an older reading never overwrites a newer one,
\* whatever fails, expires or is restarted on the way.
TrailIsComplete ==
    /\ nullifiers \subseteq {p.nullifier : p \in rows}
    /\ hashed \subseteq nullifiers
    /\ \A t \in TokenIds :
           LET onChain == {p \in rows : p.tokenId = t /\ p.nullifier \in nullifiers}
           IN  IF onChain = {} THEN currentState[t] = NoState
                               ELSE currentState[t].value = Max({p.value : p \in onChain})
================================================================================
