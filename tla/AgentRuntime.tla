---------------------------- MODULE AgentRuntime ----------------------------
(***************************************************************************)
(* The lifecycle of one token's agent in the backend process: startAgent,  *)
(* pauseAgent, resumeAgent and stopAgent of runtime.ts, the tick loop of   *)
(* loop.ts they drive, and the handlers of the chain indexer that write    *)
(* the same status.                                                        *)
(*                                                                         *)
(* Everything runs in one Node process, so an action is what the code does *)
(* between two awaits.  A record stands for one call of startAgent: the    *)
(* cron task it creates holds on to the record whatever becomes of the     *)
(* active map.  A tick is one call of runTick; the cron does not wait for  *)
(* the previous one, so ticks of one record may overlap.  The process      *)
(* starts with nothing: after a crash the model is back at Init.           *)
(***************************************************************************)
EXTENDS Naturals

CONSTANTS
    Records,      \* calls of startAgent that get past the active map
    NoRecord,
    Ticks         \* bound: ticks in flight at one time

ASSUME RuntimeAssumption == NoRecord \notin Records

VARIABLES
    active,       \* active.get(tokenId), or NoRecord
    rec,          \* rec[r]: the ActiveAgent record
    status,       \* RuntimeState.status of the store
    tick,         \* tick[t]: where the tick is
    agentCache,   \* the record whose tick compiled the cached agent, or NoRecord
    evictions     \* calls of stopAgent at their dynamic import

lifecycle == <<active, rec, status, evictions>>
vars == <<lifecycle, tick, agentCache>>

Halted == {"halted_shutdown", "halted_liquidated"}

RecType ==
    [state: {"unmade", "starting", "running", "paused", "stopped"},
     kind: {"llm", "deterministic"},
     cron: BOOLEAN]                      \* its two cron tasks are live

\* compiled: the record that built the tools of the agent the tick invokes.
TickType ==
    [pc: {"none", "snapshot", "compiling", "invoking", "strategy", "executing",
          "proposed", "silent"},
     of: Records \cup {NoRecord},
     compiled: Records \cup {NoRecord}]

NoTick == [pc |-> "none", of |-> NoRecord, compiled |-> NoRecord]

Init ==
    /\ active = NoRecord
    /\ rec \in [Records -> {[state |-> "unmade", kind |-> k, cron |-> FALSE] :
                                k \in {"llm", "deterministic"}}]
    /\ status = "idle"
    /\ tick = [t \in Ticks |-> NoTick]
    /\ agentCache = NoRecord
    /\ evictions = 0

-----------------------------------------------------------------------------
(* startAgent *)

\* No record yet: look up the strategy, then await the tenant guard and the
\* chain.  (With a record the call returns it and changes nothing.)
StartCalled(r) ==
    /\ rec[r].state = "unmade"
    /\ active = NoRecord
    /\ rec' = [rec EXCEPT ![r].state = "starting"]
    /\ UNCHANGED <<active, status, evictions, tick, agentCache>>

\* Another user's credential, an inactive policy, a database error.
StartRefused(r) ==
    /\ rec[r].state = "starting"
    /\ rec' = [rec EXCEPT ![r].state = "unmade"]
    /\ UNCHANGED <<active, status, evictions, tick, agentCache>>

\* Mutant: the store is not told.
StartUnannounced(r) ==
    /\ rec[r].state = "starting"
    /\ rec' = [rec EXCEPT ![r].state = "running", ![r].cron = TRUE]
    /\ active' = r
    /\ UNCHANGED <<status, evictions, tick, agentCache>>

\* The map is not looked at again.
Started(r) ==
    /\ rec[r].state = "starting"
    /\ rec' = [rec EXCEPT ![r].state = "running", ![r].cron = TRUE]
    /\ active' = r
    /\ status' = "running"
    /\ UNCHANGED <<evictions, tick, agentCache>>

-----------------------------------------------------------------------------
(* pauseAgent, resumeAgent, stopAgent *)

SetStatus(s) ==
    /\ active # NoRecord
    /\ rec' = [rec EXCEPT ![active].state = s]
    /\ status' = s
    /\ UNCHANGED <<active, evictions, tick, agentCache>>

Pause == SetStatus("paused")
Resume == SetStatus("running")

\* Mutant: the record stays in the map.
StopKeepingRecord ==
    /\ status' = "stopped"
    /\ IF active = NoRecord
       THEN UNCHANGED <<active, rec, evictions>>
       ELSE /\ rec' = [rec EXCEPT ![active].state = "stopped", ![active].cron = FALSE]
            /\ UNCHANGED active
            /\ evictions' = evictions + 1

\* Up to the await of the import of loop.ts; without a record only the status.
StopAgent ==
    /\ status' = "stopped"
    /\ IF active = NoRecord
       THEN UNCHANGED <<active, rec, evictions>>
       ELSE /\ rec' = [rec EXCEPT ![active].state = "stopped", ![active].cron = FALSE]
            /\ active' = NoRecord
            /\ evictions' = evictions + 1

Stop == StopAgent /\ UNCHANGED <<tick, agentCache>>

\* evictAgentCacheEntry
Evict ==
    /\ evictions > 0
    /\ evictions' = evictions - 1
    /\ agentCache' = NoRecord
    /\ UNCHANGED <<active, rec, status, tick>>

-----------------------------------------------------------------------------
(* The chain indexer *)

\* handleShutdownActivated, for every token the store knows, and
\* handleVaultLiquidated: they write the status and nothing else.
IndexerHalts(halt) ==
    /\ status' = halt
    /\ UNCHANGED <<active, rec, evictions, tick, agentCache>>

-----------------------------------------------------------------------------
(* runTick *)

Moves(t, pc) ==
    /\ tick' = [tick EXCEPT ![t].pc = pc]
    /\ UNCHANGED <<lifecycle, agentCache>>

Ends(t) ==
    /\ tick' = [tick EXCEPT ![t] = NoTick]
    /\ UNCHANGED <<lifecycle, agentCache>>

TickFires(r, t) ==
    /\ tick[t].pc = "none"
    /\ rec[r].cron /\ rec[r].state = "running"
    /\ tick' = [tick EXCEPT ![t] = [pc |-> "snapshot", of |-> r, compiled |-> NoRecord]]
    /\ UNCHANGED <<lifecycle, agentCache>>

\* buildSnapshot throws, or the feeds diverge.
TickSkips(t) == tick[t].pc = "snapshot" /\ Ends(t)

\* The snapshot shows a global shutdown or a paused vault: halted_shutdown, and
\* stopAgent of the token overwrites it before anything else runs.
TickHalts(t) ==
    /\ tick[t].pc = "snapshot"
    /\ StopAgent
    /\ tick' = [tick EXCEPT ![t] = NoTick]
    /\ UNCHANGED agentCache

TickDecides(t) ==
    /\ tick[t].pc = "snapshot"
    /\ rec[tick[t].of].kind = "deterministic"
    /\ Moves(t, "strategy")

\* The strategy threw or asked for no swap, or asked for some.
StrategyDecided(t) ==
    /\ tick[t].pc = "strategy"
    /\ Moves(t, "silent") \/ Moves(t, "executing")

\* executeApprovedAction returned for the last of them.
SwapsReturned(t) == tick[t].pc = "executing" /\ Moves(t, "silent")

\* createAgentForToken finds the cached agent ...
TickInvokesCached(t) ==
    /\ tick[t].pc = "snapshot"
    /\ rec[tick[t].of].kind = "llm"
    /\ agentCache # NoRecord
    /\ tick' = [tick EXCEPT ![t].pc = "invoking", ![t].compiled = agentCache]
    /\ UNCHANGED <<lifecycle, agentCache>>

\* ... or awaits its imports and the account's tools.
TickCompiles(t) ==
    /\ tick[t].pc = "snapshot"
    /\ rec[tick[t].of].kind = "llm"
    /\ agentCache = NoRecord
    /\ Moves(t, "compiling")

CompileFails(t) == tick[t].pc = "compiling" /\ Moves(t, "silent")

Compiled(t) ==
    /\ tick[t].pc = "compiling"
    /\ agentCache' = tick[t].of
    /\ tick' = [tick EXCEPT ![t].pc = "invoking", ![t].compiled = tick[t].of]
    /\ UNCHANGED lifecycle

\* The invocation returned and the agent still runs: add the proposals.
Replied(t) ==
    /\ tick[t].pc = "invoking"
    /\ status = "running"
    /\ Moves(t, "proposed")

\* It failed, was empty or malformed, or the agent no longer runs.
ReplyDropped(t) == tick[t].pc = "invoking" /\ Moves(t, "silent")

\* The snapshot event is published and the P&L point written.
TickEnds(t) == tick[t].pc \in {"proposed", "silent"} /\ Ends(t)

TickStep(t) ==
    \/ TickSkips(t) \/ TickHalts(t)
    \/ TickDecides(t) \/ StrategyDecided(t) \/ SwapsReturned(t)
    \/ TickInvokesCached(t) \/ TickCompiles(t) \/ CompileFails(t) \/ Compiled(t)
    \/ Replied(t) \/ ReplyDropped(t)
    \/ TickEnds(t)

Next ==
    \/ \E r \in Records : StartCalled(r) \/ StartRefused(r) \/ Started(r)
    \/ Pause \/ Resume \/ Stop \/ Evict
    \/ \E halt \in Halted : IndexerHalts(halt)
    \/ \E r \in Records, t \in Ticks : TickFires(r, t)
    \/ \E t \in Ticks : TickStep(t)

Spec == Init /\ [][Next]_vars

-----------------------------------------------------------------------------

TypeOK ==
    /\ active \in Records \cup {NoRecord}
    /\ rec \in [Records -> RecType]
    /\ status \in {"idle", "running", "paused", "stopped"} \cup Halted
    /\ tick \in [Ticks -> TickType]
    /\ \A t \in Ticks : tick[t].of = NoRecord <=> tick[t].pc = "none"
    /\ agentCache \in Records \cup {NoRecord}
    /\ evictions \in Nat

\* Every variable stays in its type, and the store never says that an agent runs
\* or is paused when the runtime has none in that state, whichever starts, stops,
\* ticks and chain events cross: its status is the active record's, or a halt of
\* the indexer; without a record it is idle, stopped or a halt.
StatusAgrees ==
    /\ TypeOK
    /\ IF active = NoRecord
       THEN status \in {"idle", "stopped"} \cup Halted
       ELSE /\ rec[active].state \in {"running", "paused"} /\ rec[active].cron
            /\ status \in {rec[active].state} \cup Halted

\* Proposals appear only while the token has a running agent: a stop, a pause or
\* a halt during the invocation drops what it answers.
OnlyRunningPropose ==
    [][\A t \in Ticks :
          tick[t].pc # "proposed" /\ tick'[t].pc = "proposed"
            => active # NoRecord /\ rec[active].state = "running"]_vars

\* A stopped record stays stopped with its cron tasks dead, and no tick of it
\* starts, although later calls resume or restart the agent of the same token.
StopIsFinal ==
    [][\A r \in Records :
          rec[r].state = "stopped"
            => /\ rec'[r] = rec[r] /\ ~rec[r].cron
               /\ {t \in Ticks : tick'[t].of = r} \subseteq {t \in Ticks : tick[t].of = r}
      ]_vars

\* The comment of agentCache: "Cleared on `stopAgent` via `evictAgentCacheEntry` so
\* a restart does not leak the compiled agent + its tool closures."  No tick would
\* then invoke an agent whose tools were built for another record, once stopped.
StoppedToolsAreGone ==
    \A t \in Ticks :
        tick[t].pc = "invoking" /\ rec[tick[t].compiled].state = "stopped"
            => tick[t].of = tick[t].compiled

=============================================================================
