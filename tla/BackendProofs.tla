----------------------------- MODULE BackendProofs -----------------------------
(***************************************************************************)
(* Proofs about the backend: the agent runtime, the circuit breaker, the   *)
(* broker's credential, the indexer, the webhooks, the desk's proposals,   *)
(* the event stream and the directives, for any number of starts, ticks,   *)
(* passes, refreshes and handlers in flight.  What a call read before an   *)
(* await may no longer hold after it; so the invariants say what is in     *)
(* flight, and what that allows the rest to be.                            *)
(***************************************************************************)
EXTENDS MCBackend, DataLemmas

-------------------------------------------------------------------------------
(* The agent runtime.  StatusAgrees is inductive as it stands; the two action *)
(* properties follow from it, since every action that changes a record        *)
(* changes one that is not stopped.                                           *)

\* The status agrees with the runtime when the process starts.
LEMMA InitAgrees == Init => StatusAgrees
<1> SUFFICES ASSUME Init PROVE StatusAgrees
    OBVIOUS
<1>1. rec \in [Records -> RecType]
    <2>1. \A k \in {"llm", "deterministic"} :
              [state |-> "unmade", kind |-> k, cron |-> FALSE] \in RecType
        BY DEF RecType
    <2> QED BY <2>1 DEF Init
<1>2. tick \in [Ticks -> TickType]
    BY DEF Init, TickType, NoTick
<1>3. \A t \in Ticks : tick[t].of = NoRecord <=> tick[t].pc = "none"
    BY DEF Init, NoTick
<1> QED BY <1>1, <1>2, <1>3 DEF Init, StatusAgrees, TypeOK

\* A tick that goes on, or ends, leaves the status in agreement.
LEMMA TickMoves ==
    ASSUME StatusAgrees, NEW t \in Ticks, tick[t].pc # "none",
           NEW pc \in {"compiling", "invoking", "strategy", "executing", "proposed", "silent"},
           Moves(t, pc)
    PROVE  StatusAgrees'
BY DEF Moves, StatusAgrees, TypeOK, TickType, lifecycle

\* So does the end of a tick, which frees its slot.
LEMMA TickFrees ==
    ASSUME StatusAgrees, NEW t \in Ticks, Ends(t)
    PROVE  StatusAgrees'
BY DEF Ends, StatusAgrees, TypeOK, TickType, NoTick, lifecycle

\* stopAgent, called by an operator or by a tick.
LEMMA StopAgrees ==
    ASSUME StatusAgrees, StopAgent, UNCHANGED agentCache,
           tick' = tick \/ \E t \in Ticks : tick' = [tick EXCEPT ![t] = NoTick]
    PROVE  StatusAgrees'
<1>1. /\ tick' \in [Ticks -> TickType]
      /\ (\A t \in Ticks : tick[t].of = NoRecord <=> tick[t].pc = "none")'
    BY DEF StatusAgrees, TypeOK, TickType, NoTick
<1>2. rec' \in [Records -> RecType]
    BY DEF StopAgent, StatusAgrees, TypeOK, RecType
<1>3. active' = NoRecord /\ status' = "stopped" /\ evictions' \in Nat
    BY DEF StopAgent, StatusAgrees, TypeOK
<1> QED BY <1>1, <1>2, <1>3 DEF StatusAgrees, TypeOK

\* Every step preserves the agreement.
LEMMA NextAgrees == StatusAgrees /\ [Next]_vars => StatusAgrees'
<1> SUFFICES ASSUME StatusAgrees, [Next]_vars PROVE StatusAgrees'
    OBVIOUS
<1> USE DEF lifecycle
<1>1. ASSUME NEW r \in Records, StartCalled(r) \/ StartRefused(r) \/ Started(r)
      PROVE  StatusAgrees'
    BY <1>1, RuntimeAssumption
    DEF StartCalled, StartRefused, Started, StatusAgrees, TypeOK, RecType
<1>2. CASE Pause \/ Resume
    BY <1>2 DEF Pause, Resume, SetStatus, StatusAgrees, TypeOK, RecType
<1>3. CASE Stop
    BY <1>3, StopAgrees DEF Stop
<1>4. CASE Evict
    BY <1>4 DEF Evict, StatusAgrees, TypeOK
<1>5. ASSUME NEW halt \in Halted, IndexerHalts(halt)
      PROVE  StatusAgrees'
    BY <1>5 DEF IndexerHalts, StatusAgrees, TypeOK
<1>6. ASSUME NEW r \in Records, NEW t \in Ticks, TickFires(r, t)
      PROVE  StatusAgrees'
    BY <1>6, RuntimeAssumption DEF TickFires, StatusAgrees, TypeOK, TickType
<1>7. ASSUME NEW t \in Ticks, TickStep(t)
      PROVE  StatusAgrees'
    <2>1. CASE TickSkips(t) \/ TickEnds(t)
        BY <2>1, TickFrees DEF TickSkips, TickEnds
    <2>2. CASE TickHalts(t)
        BY <2>2, StopAgrees DEF TickHalts
    <2>3. CASE \/ TickDecides(t) \/ StrategyDecided(t) \/ SwapsReturned(t)
               \/ TickCompiles(t) \/ CompileFails(t) \/ Replied(t) \/ ReplyDropped(t)
        BY <2>3, TickMoves
        DEF TickDecides, StrategyDecided, SwapsReturned, TickCompiles, CompileFails,
            Replied, ReplyDropped
    <2>4. CASE TickInvokesCached(t) \/ Compiled(t)
        BY <2>4 DEF TickInvokesCached, Compiled, StatusAgrees, TypeOK, TickType
    <2> QED BY <1>7, <2>1, <2>2, <2>3, <2>4 DEF TickStep
<1>8. CASE UNCHANGED vars
    BY <1>8 DEF vars, StatusAgrees, TypeOK
<1> QED BY <1>1, <1>2, <1>3, <1>4, <1>5, <1>6, <1>7, <1>8 DEF Next

\* Whatever starts, stops, ticks and chain events cross, the store never says
\* that an agent runs or is paused when the runtime has none in that state.
THEOREM StatusIsRight == Spec => []StatusAgrees
BY InitAgrees, NextAgrees, PTL DEF Spec

\* A tick proposes only if the store says "running", and then an agent runs.
THEOREM OnlyRunningAgentsPropose == Spec => OnlyRunningPropose
<1>1. StatusAgrees /\ [Next]_vars =>
        [\A t \in Ticks :
           tick[t].pc # "proposed" /\ tick'[t].pc = "proposed"
             => active # NoRecord /\ rec[active].state = "running"]_vars
    <2> SUFFICES ASSUME StatusAgrees, Next, NEW t \in Ticks,
                        tick[t].pc # "proposed", tick'[t].pc = "proposed"
                 PROVE  active # NoRecord /\ rec[active].state = "running"
        OBVIOUS
    <2>1. PICK u \in Ticks : Replied(u)
        <3>1. ASSUME NEW u \in Ticks, tick' = [tick EXCEPT ![u] = NoTick]
              PROVE  FALSE
            BY <3>1 DEF StatusAgrees, TypeOK, NoTick
        <3>2. ASSUME NEW u \in Ticks, NEW p, p # "proposed", Moves(u, p)
              PROVE  FALSE
            BY <3>2 DEF Moves, StatusAgrees, TypeOK, TickType
        <3>3. tick' # tick
            OBVIOUS
        <3>4. \A r \in Records, u \in Ticks : ~TickFires(r, u)
            BY DEF TickFires, StatusAgrees, TypeOK
        <3>5. \A u \in Ticks : ~TickInvokesCached(u) /\ ~Compiled(u)
            BY DEF TickInvokesCached, Compiled, StatusAgrees, TypeOK, TickType
        <3>6. PICK u \in Ticks : TickStep(u)
            BY <3>3, <3>4 DEF Next, StartCalled, StartRefused, Started, Pause, Resume,
               SetStatus, Stop, Evict, IndexerHalts
        <3> QED
            BY <3>1, <3>2, <3>5, <3>6
            DEF TickStep, TickSkips, TickHalts, TickEnds, Ends, TickDecides,
                StrategyDecided, SwapsReturned, TickCompiles, CompileFails, ReplyDropped
    <2>2. status = "running"
        BY <2>1 DEF Replied
    <2> QED BY <2>2 DEF StatusAgrees, Halted
<1> QED BY <1>1, StatusIsRight, PTL DEF Spec, OnlyRunningPropose

\* A stopped record has no live cron tasks.
StoppedIsDead == \A r \in Records : rec[r].state = "stopped" => ~rec[r].cron

\* No step changes a stopped record, or stops one and leaves its tasks alive.
LEMMA RecordStep ==
    ASSUME StatusAgrees, StoppedIsDead, [Next]_vars
    PROVE  /\ StoppedIsDead'
           /\ \A r \in Records : rec[r].state = "stopped" => rec'[r] = rec[r]
<1> USE DEF StatusAgrees, TypeOK, StoppedIsDead
<1>1. ASSUME NEW r \in Records, StartCalled(r) \/ StartRefused(r) \/ Started(r)
      PROVE  /\ StoppedIsDead'
             /\ \A q \in Records : rec[q].state = "stopped" => rec'[q] = rec[q]
    BY <1>1 DEF StartCalled, StartRefused, Started, RecType
<1>2. CASE Pause \/ Resume
    BY <1>2 DEF Pause, Resume, SetStatus, RecType
<1>3. CASE StopAgent
    BY <1>3 DEF StopAgent, RecType
<1>4. CASE UNCHANGED rec
    BY <1>4
<1>5. \/ \E r \in Records : StartCalled(r) \/ StartRefused(r) \/ Started(r)
      \/ Pause \/ Resume \/ StopAgent \/ UNCHANGED rec
    BY DEF Next, vars, lifecycle, Stop, Evict, IndexerHalts, TickFires, TickStep, Moves,
           Ends, TickSkips, TickHalts, TickDecides, StrategyDecided, SwapsReturned,
           TickInvokesCached, TickCompiles, CompileFails, Compiled, Replied,
           ReplyDropped, TickEnds
<1> QED BY <1>1, <1>2, <1>3, <1>4, <1>5

\* A step gives no record a tick, except a running one by its cron.
LEMMA TickStart ==
    ASSUME StatusAgrees, [Next]_vars, NEW t \in Ticks, NEW r \in Records, tick'[t].of = r
    PROVE  tick[t].of = r \/ rec[r].state = "running"
<1> USE DEF StatusAgrees, TypeOK
<1>1. ASSUME NEW q \in Records, NEW u \in Ticks, TickFires(q, u)
      PROVE  tick[t].of = r \/ rec[r].state = "running"
    BY <1>1 DEF TickFires
<1>2. ASSUME NEW u \in Ticks, TickStep(u)
      PROVE  tick[t].of = r
    <2>1. CASE tick' = [tick EXCEPT ![u] = NoTick]
        BY <2>1, RuntimeAssumption DEF NoTick
    <2>2. ASSUME NEW p, Moves(u, p)
          PROVE  tick[t].of = r
        BY <2>2 DEF Moves, TickType
    <2>3. CASE TickInvokesCached(u) \/ Compiled(u)
        BY <2>3 DEF TickInvokesCached, Compiled, TickType
    <2> QED
        BY <1>2, <2>1, <2>2, <2>3
        DEF TickStep, TickSkips, TickHalts, TickEnds, Ends, TickDecides, StrategyDecided,
            SwapsReturned, TickCompiles, CompileFails, Replied, ReplyDropped
<1>3. CASE UNCHANGED tick
    BY <1>3
<1> QED
    BY <1>1, <1>2, <1>3 DEF Next, vars, StartCalled, StartRefused, Started, Pause, Resume,
       SetStatus, Stop, Evict, IndexerHalts

\* No call, and no tick, revives a stopped record or starts a tick of it.
THEOREM StoppedForGood == Spec => StopIsFinal
<1>1. Init => StoppedIsDead
    BY DEF Init, StoppedIsDead
<1>2. StatusAgrees /\ StoppedIsDead /\ [Next]_vars => StoppedIsDead'
    BY RecordStep
<1>3. StatusAgrees /\ StoppedIsDead /\ [Next]_vars =>
        [\A r \in Records :
           rec[r].state = "stopped"
             => /\ rec'[r] = rec[r] /\ ~rec[r].cron
                /\ {t \in Ticks : tick'[t].of = r} \subseteq {t \in Ticks : tick[t].of = r}
        ]_vars
    <2> SUFFICES ASSUME StatusAgrees, StoppedIsDead, [Next]_vars,
                        NEW r \in Records, rec[r].state = "stopped"
                 PROVE  /\ rec'[r] = rec[r] /\ ~rec[r].cron
                        /\ \A t \in Ticks : tick'[t].of = r => tick[t].of = r
        OBVIOUS
    <2>1. rec'[r] = rec[r] /\ ~rec[r].cron
        BY RecordStep DEF StoppedIsDead
    <2>2. \A t \in Ticks : tick'[t].of = r => tick[t].of = r
        BY TickStart
    <2> QED BY <2>1, <2>2
<1> QED BY <1>1, <1>2, <1>3, StatusIsRight, PTL DEF Spec, StopIsFinal

-------------------------------------------------------------------------------
(* The compiled agent.  StoppedToolsAreGone is refuted by a run.  What it takes  *)
(* to refute it is a tick that awaits its snapshot or its tools while its agent  *)
(* stops, a start that overtakes the eviction, or two starts at once; without    *)
(* those, the tools that a tick invokes are its own record's.                    *)

\* A start finishes when nothing runs and what the last stop evicts is gone.
StartsAreAlone ==
    [][\A r \in Records :
          rec[r].state = "starting" /\ rec'[r].state = "running"
            => active = NoRecord /\ evictions = 0]_vars

\* No agent stops while a tick of it awaits its snapshot or its tools.
ToolsReadInTime ==
    \A t \in Ticks :
        tick[t].pc \in {"snapshot", "compiling"} => rec[tick[t].of].state # "stopped"

ToolsAreOwn == \A t \in Ticks : tick[t].pc = "invoking" => tick[t].compiled = tick[t].of

OneIsActive == \A r \in Records : rec[r].state \in {"running", "paused"} => active = r

TicksWereStarted ==
    \A t \in Ticks :
        tick[t].pc # "none" => rec[tick[t].of].state \in {"running", "paused", "stopped"}

\* While something is cached or to be evicted
CacheIsOfActive ==
    /\ evictions > 0 => active = NoRecord
    /\ agentCache # NoRecord => evictions > 0 \/ agentCache = active

ToolsInv == StatusAgrees /\ ToolsAreOwn /\ OneIsActive /\ TicksWereStarted /\ CacheIsOfActive

LEMMA ToolsInitInv == Init => ToolsInv
<1> SUFFICES ASSUME Init PROVE ToolsInv
    OBVIOUS
<1>1. \A r \in Records : rec[r].state = "unmade"
    BY DEF Init
<1> QED BY <1>1, InitAgrees
        DEF Init, NoTick, ToolsInv, ToolsAreOwn, OneIsActive, TicksWereStarted, CacheIsOfActive

\* stopAgent leaves a record stopped, no record active, and an eviction to come.
LEMMA StopKeepsTools ==
    ASSUME ToolsInv, StopAgent, UNCHANGED agentCache,
           tick' = tick \/ \E t \in Ticks : tick' = [tick EXCEPT ![t] = NoTick]
    PROVE  ToolsInv'
<1> USE DEF ToolsInv, StatusAgrees, TypeOK, RecType, TickType
<1>1. StatusAgrees'
    BY StopAgrees
<1>2. \A t \in Ticks : tick'[t].pc # "none" => tick'[t] = tick[t]
    BY DEF NoTick
<1>3. ToolsAreOwn'
    BY <1>2 DEF ToolsAreOwn
<1>4. \A r \in Records :
          /\ rec[r].state # "unmade" /\ rec[r].state # "starting" =>
                rec'[r].state \in {rec[r].state, "stopped"}
          /\ rec'[r].state \in {"running", "paused"} =>
                rec[r].state \in {"running", "paused"} /\ (r # active \/ active = NoRecord)
    BY RuntimeAssumption DEF StopAgent
<1>5. OneIsActive'
    BY <1>4, RuntimeAssumption DEF OneIsActive
<1>6. TicksWereStarted'
    BY <1>2, <1>4 DEF TicksWereStarted
<1>7. CacheIsOfActive'
    BY DEF StopAgent, CacheIsOfActive
<1> QED BY <1>1, <1>3, <1>5, <1>6, <1>7

LEMMA TicksKeepTools ==
    ASSUME ToolsInv, ToolsReadInTime, NEW t \in Ticks, TickStep(t)
    PROVE  ToolsInv'
<1> USE DEF ToolsInv, StatusAgrees, TypeOK, RecType, TickType, lifecycle
<1>1. StatusAgrees'
    BY NextAgrees DEF Next
<1>2. CASE TickSkips(t) \/ TickEnds(t)
    <2>1. tick' = [tick EXCEPT ![t] = NoTick] /\ UNCHANGED <<lifecycle, agentCache>>
        BY <1>2 DEF TickSkips, TickEnds, Ends
    <2>2. \A u \in Ticks : tick'[u].pc # "none" => tick'[u] = tick[u]
        BY <2>1 DEF NoTick
    <2> QED BY <1>1, <2>1, <2>2 DEF ToolsAreOwn, OneIsActive, TicksWereStarted, CacheIsOfActive
<1>3. CASE TickHalts(t)
    BY <1>3, StopKeepsTools DEF TickHalts
<1>4. CASE \/ TickDecides(t) \/ StrategyDecided(t) \/ SwapsReturned(t)
           \/ TickCompiles(t) \/ CompileFails(t) \/ Replied(t) \/ ReplyDropped(t)
    <2>1. /\ tick[t].pc # "none"
          /\ UNCHANGED <<lifecycle, agentCache>>
          /\ \E pc \in {"compiling", "strategy", "executing", "proposed", "silent"} :
                tick' = [tick EXCEPT ![t].pc = pc]
        BY <1>4 DEF TickDecides, StrategyDecided, SwapsReturned, TickCompiles, CompileFails,
                    Replied, ReplyDropped, Moves
    <2>2. \A u \in Ticks :
              /\ tick'[u].of = tick[u].of /\ tick'[u].compiled = tick[u].compiled
              /\ tick'[u].pc # "none" => tick[u].pc # "none"
              /\ tick'[u].pc = "invoking" => tick[u].pc = "invoking"
        BY <2>1
    <2> QED BY <1>1, <2>1, <2>2 DEF ToolsAreOwn, OneIsActive, TicksWereStarted, CacheIsOfActive
<1>5. CASE TickInvokesCached(t) \/ Compiled(t)
    <2>1. /\ tick[t].of \in Records /\ active = tick[t].of /\ evictions = 0
          /\ tick[t].pc # "none"
        <3>1. tick[t].pc \in {"snapshot", "compiling"}
            BY <1>5 DEF TickInvokesCached, Compiled
        <3>2. tick[t].of \in Records
            BY <3>1
        <3>3. rec[tick[t].of].state \in {"running", "paused"}
            BY <3>1, <3>2 DEF ToolsReadInTime, TicksWereStarted
        <3>4. active = tick[t].of
            BY <3>2, <3>3 DEF OneIsActive
        <3> QED BY <3>1, <3>2, <3>4, RuntimeAssumption DEF CacheIsOfActive
    <2>2. /\ tick' = [tick EXCEPT ![t].pc = "invoking", ![t].compiled = tick[t].of]
          /\ UNCHANGED lifecycle /\ agentCache' = tick[t].of
        BY <1>5, <2>1 DEF TickInvokesCached, Compiled, CacheIsOfActive
    <2>3. ToolsAreOwn' /\ OneIsActive'
        BY <2>2 DEF ToolsAreOwn, OneIsActive
    <2>4. \A u \in Ticks :
              tick'[u].of = tick[u].of /\ (tick'[u].pc # "none" => tick[u].pc # "none")
        BY <2>1, <2>2
    <2>5. TicksWereStarted'
        BY <2>2, <2>4 DEF TicksWereStarted
    <2>6. CacheIsOfActive'
        BY <2>1, <2>2 DEF CacheIsOfActive
    <2> QED BY <1>1, <2>3, <2>5, <2>6
<1> QED BY <1>2, <1>3, <1>4, <1>5 DEF TickStep

LEMMA ToolsNextInv ==
    ASSUME ToolsInv, ToolsReadInTime, [Next]_vars,
           [\A r \in Records :
              rec[r].state = "starting" /\ rec'[r].state = "running"
                => active = NoRecord /\ evictions = 0]_vars
    PROVE  ToolsInv'
<1> USE DEF ToolsInv, StatusAgrees, TypeOK, RecType, TickType, lifecycle
<1>1. StatusAgrees'
    BY NextAgrees
<1>2. ASSUME NEW r \in Records, StartCalled(r) \/ StartRefused(r)
      PROVE  ToolsInv'
    <2>1. /\ UNCHANGED <<active, status, evictions, tick, agentCache>>
          /\ rec[r].state \in {"unmade", "starting"}
          /\ \E s \in {"unmade", "starting"} : rec' = [rec EXCEPT ![r].state = s]
        BY <1>2 DEF StartCalled, StartRefused
    <2>2. \A q \in Records :
              \/ rec'[q].state = rec[q].state
              \/ /\ rec[q].state \in {"unmade", "starting"}
                 /\ rec'[q].state \in {"unmade", "starting"}
        BY <2>1
    <2>3. OneIsActive'
        BY <2>1, <2>2 DEF OneIsActive
    <2>4. TicksWereStarted'
        BY <2>1, <2>2 DEF TicksWereStarted
    <2> QED BY <1>1, <2>1, <2>3, <2>4 DEF ToolsAreOwn, CacheIsOfActive
<1>3. ASSUME NEW r \in Records, Started(r)
      PROVE  ToolsInv'
    <2>1. /\ rec[r].state = "starting"
          /\ rec' = [rec EXCEPT ![r].state = "running", ![r].cron = TRUE]
          /\ active' = r /\ UNCHANGED <<evictions, tick, agentCache>>
        BY <1>3 DEF Started
    <2>2. rec'[r].state = "running" /\ rec' # rec
        BY <2>1
    <2>3. active = NoRecord /\ evictions = 0
        BY <2>1, <2>2 DEF vars
    <2>4. agentCache = NoRecord
        BY <2>3 DEF CacheIsOfActive
    <2>5. \A q \in Records : q # r => rec'[q].state = rec[q].state
        BY <2>1
    <2>6. OneIsActive'
        BY <2>1, <2>2, <2>3, <2>5, RuntimeAssumption DEF OneIsActive
    <2>7. TicksWereStarted'
        BY <2>1, <2>2, <2>5 DEF TicksWereStarted
    <2> QED BY <1>1, <2>1, <2>3, <2>4, <2>6, <2>7 DEF ToolsAreOwn, CacheIsOfActive
<1>4. CASE Pause \/ Resume
    <2>1. /\ active \in Records /\ UNCHANGED <<active, evictions, tick, agentCache>>
          /\ \E s \in {"paused", "running"} : rec' = [rec EXCEPT ![active].state = s]
        BY <1>4 DEF Pause, Resume, SetStatus
    <2>2. /\ rec'[active].state \in {"running", "paused"}
          /\ \A q \in Records : q # active => rec'[q].state = rec[q].state
        BY <2>1
    <2>3. OneIsActive'
        BY <2>1, <2>2 DEF OneIsActive
    <2>4. TicksWereStarted'
        BY <2>1, <2>2 DEF TicksWereStarted
    <2> QED BY <1>1, <2>1, <2>3, <2>4 DEF ToolsAreOwn, CacheIsOfActive
<1>5. CASE Stop
    BY <1>5, StopKeepsTools DEF Stop
<1>6. CASE Evict
    BY <1>1, <1>6 DEF Evict, ToolsAreOwn, OneIsActive, TicksWereStarted, CacheIsOfActive
<1>7. ASSUME NEW halt \in Halted, IndexerHalts(halt)
      PROVE  ToolsInv'
    BY <1>1, <1>7 DEF IndexerHalts, ToolsAreOwn, OneIsActive, TicksWereStarted, CacheIsOfActive
<1>8. ASSUME NEW r \in Records, NEW t \in Ticks, TickFires(r, t)
      PROVE  ToolsInv'
    <2>1. /\ tick' = [tick EXCEPT ![t] = [pc |-> "snapshot", of |-> r, compiled |-> NoRecord]]
          /\ rec[r].state = "running" /\ UNCHANGED <<lifecycle, agentCache>>
        BY <1>8 DEF TickFires
    <2>2. tick'[t].pc = "snapshot" /\ tick'[t].of = r
        BY <2>1
    <2>3. \A u \in Ticks : u # t => tick'[u] = tick[u]
        BY <2>1
    <2>4. ToolsAreOwn'
        BY <2>2, <2>3 DEF ToolsAreOwn
    <2>5. TicksWereStarted'
        BY <2>1, <2>2, <2>3 DEF TicksWereStarted
    <2> QED BY <1>1, <2>1, <2>4, <2>5 DEF OneIsActive, CacheIsOfActive
<1>9. ASSUME NEW t \in Ticks, TickStep(t)
      PROVE  ToolsInv'
    BY <1>9, TicksKeepTools
<1>10. CASE UNCHANGED vars
    BY <1>1, <1>10 DEF vars, ToolsAreOwn, OneIsActive, TicksWereStarted, CacheIsOfActive
<1> QED BY <1>2, <1>3, <1>4, <1>5, <1>6, <1>7, <1>8, <1>9, <1>10 DEF Next

\* The compiled agent of a stopped record is invoked by nobody else, unless a tick
\* straddled the stop with its snapshot or its tools still to come, the next start
\* overtook the eviction, or two starts crossed (createAgentForToken's cache and
\* stopAgent's single eviction).
THEOREM ToolsGoWithTheirAgent ==
    Spec /\ StartsAreAlone /\ []ToolsReadInTime => []StoppedToolsAreGone
<1>1. ToolsInv => StoppedToolsAreGone
    BY DEF ToolsInv, ToolsAreOwn, StoppedToolsAreGone
<1> QED BY ToolsInitInv, ToolsNextInv, <1>1, PTL DEF Spec, StartsAreAlone

-------------------------------------------------------------------------------
(* The circuit breaker *)

BreakerTypes ==
    /\ runs \in Nat /\ trips \in Nat
    /\ pass \in [Passes -> {"off", "looks", "tick_errors", "actions", "done"}]
    /\ passRunning \in BOOLEAN

\* isRunning admits one pass at a time.
OnePass ==
    /\ \A p \in Passes : pass[p] # "off" => passRunning
    /\ \A p, q \in Passes : pass[p] # "off" /\ pass[q] # "off" => p = q

\* While the agent runs, or a pass that saw it running waits for a count, the trip
\* of the present run has not happened yet.
TripIsLeft ==
    agentStatus = "running" \/ (\E p \in Passes : pass[p] \in {"tick_errors", "actions"})
        => trips < runs

BreakerInv == BreakerTypes /\ OnePass /\ TripIsLeft /\ TripsAreSpaced

LEMMA BreakerInitInv == BreakerInit => BreakerInv
<1> SUFFICES ASSUME BreakerInit PROVE BreakerInv
    OBVIOUS
<1> USE DEF BreakerInit
<1>1. BreakerTypes
    BY DEF BreakerTypes
<1>2. OnePass
    BY DEF OnePass
<1>3. agentStatus # "running" /\ \A p \in Passes : pass[p] \notin {"tick_errors", "actions"}
    OBVIOUS
<1>4. trips <= runs
    OBVIOUS
<1> QED BY <1>1, <1>2, <1>3, <1>4 DEF BreakerInv, TripIsLeft, TripsAreSpaced

\* A pass that ends its waiting with a trip uses up the one that is left.
LEMMA TripKeepsInv ==
    ASSUME BreakerInv, NEW p \in Passes, pass[p] \in {"tick_errors", "actions"},
           NEW rule, NEW base, Trips(p, rule, base), UNCHANGED <<runs, passRunning>>
    PROVE  BreakerInv'
<1> USE DEF Trips, BreakerInv
<1>1. trips < runs
    BY DEF TripIsLeft
<1>2. BreakerTypes'
    BY DEF BreakerTypes
<1>3. \A q \in Passes : pass'[q] \in {"off", "done"}
    BY DEF OnePass, BreakerTypes
<1>4. OnePass'
    BY DEF OnePass, BreakerTypes
<1>5. agentStatus' # "running"
    OBVIOUS
<1>6. trips' <= runs'
    BY <1>1 DEF BreakerTypes
<1> QED BY <1>2, <1>3, <1>4, <1>5, <1>6 DEF TripIsLeft, TripsAreSpaced

\* One that does not waits on or ends.
LEMMA ClearKeepsInv ==
    ASSUME BreakerInv, NEW p \in Passes, pass[p] \in {"tick_errors", "actions"},
           NEW next \in {"actions", "done"}, Clear(p, next), UNCHANGED <<runs, passRunning>>
    PROVE  BreakerInv'
<1> USE DEF Clear, BreakerInv
<1>1. BreakerTypes'
    BY DEF BreakerTypes
<1>2. OnePass'
    BY DEF OnePass, BreakerTypes
<1>3. TripIsLeft'
    BY DEF TripIsLeft, BreakerTypes
<1> QED BY <1>1, <1>2, <1>3 DEF TripsAreSpaced

LEMMA BreakerNextInv ==
    ASSUME BreakerInv, [BreakerNext]_breakerVars
    PROVE  BreakerInv'
<1> USE DEF BreakerInv
<1>1. ASSUME NEW from, NEW to, AgentMoves(from, to)
      PROVE  BreakerInv'
    <2>1. BreakerTypes' /\ OnePass'
        BY <1>1 DEF AgentMoves, BreakerTypes, OnePass
    <2>2. trips <= runs /\ runs \in Nat /\ trips \in Nat
        BY DEF TripsAreSpaced, BreakerTypes
    <2>3. TripIsLeft'
        BY <1>1, <2>2 DEF AgentMoves, TripIsLeft
    <2>4. TripsAreSpaced'
        BY <1>1, <2>2 DEF AgentMoves, TripsAreSpaced
    <2> QED BY <2>1, <2>3, <2>4
<1>2. ASSUME NEW v \in Collateral, AgentTicks(v)
      PROVE  BreakerInv'
    BY <1>2 DEF AgentTicks, BreakerTypes, OnePass, TripIsLeft, TripsAreSpaced
<1>3. ASSUME NEW p \in Passes, PassBegins(p)
      PROVE  BreakerInv'
    BY <1>3 DEF PassBegins, BreakerTypes, OnePass, TripIsLeft, TripsAreSpaced
<1>4. ASSUME NEW p \in Passes, PassLooks(p)
      PROVE  BreakerInv'
    <2>1. BreakerTypes' /\ OnePass'
        BY <1>4 DEF PassLooks, BreakerTypes, OnePass
    <2>2. TripIsLeft'
        BY <1>4 DEF PassLooks, TripIsLeft, BreakerTypes
    <2> QED BY <1>4, <2>1, <2>2 DEF PassLooks, TripsAreSpaced
<1>5. ASSUME NEW p \in Passes, countTickErrors(p)
      PROVE  BreakerInv'
    BY <1>5, TripKeepsInv, ClearKeepsInv DEF countTickErrors
<1>6. ASSUME NEW p \in Passes, countRecentActions(p)
      PROVE  BreakerInv'
    BY <1>6, TripKeepsInv, ClearKeepsInv DEF countRecentActions
<1>7. ASSUME NEW p \in Passes, PassReturns(p)
      PROVE  BreakerInv'
    <2>1. BreakerTypes' /\ OnePass'
        BY <1>7 DEF PassReturns, BreakerTypes, OnePass
    <2>2. TripIsLeft'
        BY <1>7 DEF PassReturns, TripIsLeft, BreakerTypes
    <2> QED BY <1>7, <2>1, <2>2 DEF PassReturns, TripsAreSpaced
<1>8. CASE UNCHANGED breakerVars
    BY <1>8 DEF breakerVars, BreakerTypes, OnePass, TripIsLeft, TripsAreSpaced
<1> QED BY <1>1, <1>2, <1>3, <1>4, <1>5, <1>6, <1>7, <1>8 DEF BreakerNext

\* The breaker pauses an agent, and tells its operator, at most once for each time
\* the agent was set running, however many passes the cron starts (runOnce, trip).
THEOREM TripsSpaced == BreakerSpec => []TripsAreSpaced
<1>1. BreakerInv /\ [BreakerNext]_breakerVars => BreakerInv'
    BY BreakerNextInv
<1>2. BreakerInv => TripsAreSpaced
    BY DEF BreakerInv
<1> QED BY BreakerInitInv, <1>1, <1>2, PTL DEF BreakerSpec

\* The flag that keeps a pass out is set exactly while another is on its way.
PassFlagIsTrue == passRunning <=> \E p \in Passes : pass[p] # "off"

LEMMA BreakerStepKeepsFlag ==
    ASSUME BreakerInv, PassFlagIsTrue, [BreakerNext]_breakerVars
    PROVE  PassFlagIsTrue'
<1> USE DEF BreakerInv, BreakerTypes, PassFlagIsTrue
<1>1. ASSUME NEW p \in Passes, PassBegins(p)
      PROVE  PassFlagIsTrue'
    BY <1>1 DEF PassBegins
<1>2. ASSUME NEW p \in Passes, PassReturns(p)
      PROVE  PassFlagIsTrue'
    BY <1>2 DEF PassReturns, OnePass
<1>3. ASSUME NEW p \in Passes,
             PassLooks(p) \/ countTickErrors(p) \/ countRecentActions(p)
      PROVE  PassFlagIsTrue'
    <2>1. pass[p] # "off" /\ passRunning' = passRunning
        BY <1>3 DEF PassLooks, countTickErrors, countRecentActions
    <2>2. \E next \in {"tick_errors", "actions", "done"} : pass' = [pass EXCEPT ![p] = next]
        BY <1>3 DEF PassLooks, countTickErrors, countRecentActions, Trips, Clear
    <2> QED BY <2>1, <2>2
<1>4. ASSUME UNCHANGED <<pass, passRunning>>
      PROVE  PassFlagIsTrue'
    BY <1>4
<1> QED BY <1>1, <1>2, <1>3, <1>4 DEF BreakerNext, AgentMoves, AgentTicks, breakerVars

\* The breaker never locks itself out: its flag is set exactly while a pass is on its
\* way, so that the cron's next firing after it finds it clear (runOnce's finally).
THEOREM PassFlagKept == BreakerSpec => []PassFlagIsTrue
<1>1. BreakerInv /\ PassFlagIsTrue /\ [BreakerNext]_breakerVars
        => BreakerInv' /\ PassFlagIsTrue'
    BY BreakerNextInv, BreakerStepKeepsFlag
<1>2. BreakerInit => PassFlagIsTrue
    BY DEF BreakerInit, PassFlagIsTrue
<1> QED BY BreakerInitInv, <1>1, <1>2, PTL DEF BreakerSpec

\* A drawdown is measured against a baseline of another run only if a resume went
\* unseen, or the agent left "running" while a pass that had seen it run waited for
\* its counts; a run refutes BaselineIsOfThisRun, and this is what it takes.
ResumesAreSeen ==
    [][agentStatus # "running" /\ agentStatus' = "running"
          => lastObservedStatus # "running"]_breakerVars

StaysForThePass ==
    [][agentStatus = "running" /\ agentStatus' # "running"
          => \A p \in Passes : pass'[p] \notin {"tick_errors", "actions"}]_breakerVars

\* Once a pass has noted that the agent runs, the baseline is of this run.
BaselineSeen ==
    /\ baseline.value # Unknown /\ lastObservedStatus = "running" => baseline.run = runs
    /\ \A p \in Passes : pass[p] \in {"tick_errors", "actions"} => agentStatus = "running"
    /\ BaselineIsOfThisRun

LEMMA BreakerStepKeepsBaseline ==
    ASSUME BreakerInv, BaselineSeen, [BreakerNext]_breakerVars,
           [agentStatus # "running" /\ agentStatus' = "running"
               => lastObservedStatus # "running"]_breakerVars,
           [agentStatus = "running" /\ agentStatus' # "running"
               => \A p \in Passes : pass'[p] \notin {"tick_errors", "actions"}]_breakerVars
    PROVE  BaselineSeen'
<1> USE DEF BreakerInv, BreakerTypes, BaselineSeen, BaselineIsOfThisRun
<1>1. ASSUME NEW from, NEW to, to \notin from, AgentMoves(from, to)
      PROVE  BaselineSeen'
    <2>1. /\ agentStatus' # agentStatus
          /\ UNCHANGED <<baseline, lastObservedStatus, pass, lastTrip>>
          /\ agentStatus' = "running" => lastObservedStatus # "running"
          /\ agentStatus' # "running" => runs' = runs
        BY <1>1 DEF AgentMoves, breakerVars
    <2>2. \A p \in Passes : pass'[p] \in {"tick_errors", "actions"} => agentStatus' = "running"
        BY <2>1 DEF breakerVars
    <2> QED BY <2>1, <2>2
<1>2. ASSUME NEW v \in Collateral, AgentTicks(v)
      PROVE  BaselineSeen'
    BY <1>2 DEF AgentTicks
<1>3. ASSUME NEW p \in Passes, PassBegins(p) \/ PassReturns(p)
      PROVE  BaselineSeen'
    BY <1>3 DEF PassBegins, PassReturns
<1>4. ASSUME NEW p \in Passes, PassLooks(p)
      PROVE  BaselineSeen'
    BY <1>4 DEF PassLooks
<1>5. ASSUME NEW p \in Passes, countTickErrors(p)
      PROVE  BaselineSeen'
    <2>1. /\ pass[p] = "tick_errors" /\ agentStatus = "running"
          /\ UNCHANGED <<runs, baseline, lastObservedStatus>>
        BY <1>5 DEF countTickErrors
    <2>2. CASE Trips(p, "tick_error_rate", NoBaseline)
        <3>1. lastTrip'.rule = "tick_error_rate" /\ pass'[p] = "done"
            BY <2>2 DEF Trips
        <3>2. \A q \in Passes : pass'[q] \notin {"tick_errors", "actions"}
            BY <2>1, <2>2, <3>1 DEF Trips, OnePass
        <3> QED BY <2>1, <3>1, <3>2
    <2>3. CASE Clear(p, "actions")
        BY <2>1, <2>3 DEF Clear
    <2> QED BY <1>5, <2>2, <2>3 DEF countTickErrors
<1>6. ASSUME NEW p \in Passes, countRecentActions(p)
      PROVE  BaselineSeen'
    <2>1. pass[p] = "actions" /\ agentStatus = "running" /\ UNCHANGED runs
        BY <1>6 DEF countRecentActions
    <2>2. pass'[p] = "done" /\ \A q \in Passes : q # p => pass'[q] = "off"
        BY <1>6, <2>1 DEF countRecentActions, Trips, Clear, OnePass
    <2>3. \A q \in Passes : pass'[q] \notin {"tick_errors", "actions"}
        BY <2>2
    <2>4. CASE Trips(p, "action_velocity", NoBaseline) /\ UNCHANGED <<baseline, lastObservedStatus>>
        <3>1. lastTrip'.rule = "action_velocity"
            BY <2>4 DEF Trips
        <3> QED BY <2>1, <2>3, <2>4, <3>1
    <2>5. CASE Clear(p, "done") /\ UNCHANGED <<baseline, lastObservedStatus>>
        BY <2>1, <2>3, <2>5 DEF Clear
    <2>6. ASSUME baseline' = Rebased, lastObservedStatus' = agentStatus,
                 Trips(p, "drawdown_pct", Rebased) \/ Clear(p, "done")
          PROVE  BaselineSeen'
        <3>1. Rebased.run = runs
            BY <2>1 DEF Rebased
        <3>2. lastTrip' = lastTrip \/ lastTrip'.baselineRun = lastTrip'.run
            BY <2>6, <3>1 DEF Trips, Clear
        <3> QED BY <2>1, <2>3, <2>6, <3>1, <3>2
    <2> QED BY <1>6, <2>4, <2>5, <2>6 DEF countRecentActions
<1>7. CASE UNCHANGED breakerVars
    BY <1>7 DEF breakerVars
<1> QED BY <1>1, <1>2, <1>3, <1>4, <1>5, <1>6, <1>7 DEF BreakerNext

\* If every resume is seen and no agent is paused under a waiting pass, a drawdown
\* that trips is measured within the run it pauses (computeDrawdownBps, trip).
THEOREM BaselineFollowsRuns ==
    BreakerSpec /\ ResumesAreSeen /\ StaysForThePass => []BaselineIsOfThisRun
<1>1. BreakerInv /\ [BreakerNext]_breakerVars => BreakerInv'
    BY BreakerNextInv
<1>2. BreakerInit => BaselineSeen
    BY DEF BreakerInit, NoBaseline, BaselineSeen, BaselineIsOfThisRun
<1>3. BaselineSeen => BaselineIsOfThisRun
    BY DEF BaselineSeen
<1> QED BY BreakerInitInv, BreakerStepKeepsBaseline, <1>1, <1>2, <1>3, PTL
        DEF BreakerSpec, ResumesAreSeen, StaysForThePass

-------------------------------------------------------------------------------
(* The broker credential *)

BelongsTo(c, g) == brokerCall[c].token.grant = g

\* The calls that hold a token no row has yet.
Carries(c, g) == brokerCall[c].pc \in {"store", "update"} /\ BelongsTo(c, g)

\* A call holds a token, or is about to use one, of a grant whose code was redeemed.
GrantsAreReal ==
    /\ credential = NoToken \/ credential.grant \in redeemed
    /\ \A c \in BrokerCalls :
          brokerCall[c].pc \in {"store", "refresh", "update"}
              => brokerCall[c].token.grant \in redeemed
    /\ \A c \in BrokerCalls : brokerCall[c].pc = "code" => brokerCall[c].token.grant \in States

\* One call at most carries a token of a grant, and it is the newest.
OneCarrier ==
    /\ \A g \in States : \A c, d \in BrokerCalls : Carries(c, g) /\ Carries(d, g) => c = d
    /\ \A g \in States : \A c \in BrokerCalls :
          Carries(c, g) => brokerCall[c].token.number = live[g]

\* Until the first token of a grant is stored nothing else has to do with the grant.
FirstIsAlone ==
    \A c \in BrokerCalls : brokerCall[c].pc = "store" =>
        /\ credential.grant # brokerCall[c].token.grant
        /\ \A d \in BrokerCalls : brokerCall[d].pc = "refresh" => ~ BelongsTo(d, brokerCall[c].token.grant)

\* A stored token, or one read from the row, that the endpoint still accepts has no
\* successor yet.
NoneIsNewer ==
    /\ credential # NoToken =>
          /\ credential.number <= live[credential.grant]
          /\ credential.number = live[credential.grant]
                => \A c \in BrokerCalls : ~ Carries(c, credential.grant)
    /\ \A d \in BrokerCalls : brokerCall[d].pc = "refresh" =>
          /\ brokerCall[d].token.number <= live[brokerCall[d].token.grant]
          /\ brokerCall[d].token.number = live[brokerCall[d].token.grant]
                => \A c \in BrokerCalls : ~ Carries(c, brokerCall[d].token.grant)

BrokerInv ==
    /\ BrokerTypeOK /\ GrantsAreReal /\ OneCarrier /\ FirstIsAlone /\ NoneIsNewer
    /\ TokenSurvives

LEMMA BrokerInitInv == BrokerInit => BrokerInv
<1> SUFFICES ASSUME BrokerInit PROVE BrokerInv
    OBVIOUS
<1> USE DEF BrokerInit, Free, NoToken
<1>1. BrokerTypeOK
    BY DEF BrokerTypeOK
<1>2. \A c \in BrokerCalls : brokerCall[c].pc = "free"
    OBVIOUS
<1>3. credential = NoToken
    OBVIOUS
<1> QED BY <1>1, <1>2, <1>3
        DEF BrokerInv, GrantsAreReal, OneCarrier, FirstIsAlone, NoneIsNewer, TokenSurvives, Carries

\* One lemma per action: every conjunct of the invariant survives it.
LEMMA startAuthorizationKeepsInv ==
    ASSUME BrokerInv, NEW s \in States, startAuthorization(s)
    PROVE  BrokerInv'
BY DEF BrokerInv, BrokerTypeOK, GrantsAreReal, OneCarrier, FirstIsAlone, NoneIsNewer,
       TokenSurvives, BelongsTo, Carries, NoToken, startAuthorization

LEMMA StateExpiresKeepsInv ==
    ASSUME BrokerInv, NEW s \in States, StateExpires(s)
    PROVE  BrokerInv'
BY DEF BrokerInv, BrokerTypeOK, GrantsAreReal, OneCarrier, FirstIsAlone, NoneIsNewer,
       TokenSurvives, BelongsTo, Carries, NoToken, StateExpires

LEMMA completeAuthorizationKeepsInv ==
    ASSUME BrokerInv, NEW c \in BrokerCalls, NEW s \in States, completeAuthorization(c, s)
    PROVE  BrokerInv'
<1> USE BrokerAssumption
    DEF BrokerInv, BrokerTypeOK, completeAuthorization, Holds, Frees, InHand, Free, NoToken, BelongsTo, Carries
<1>1. BrokerTypeOK'
    OBVIOUS
<1>2. GrantsAreReal'
    BY DEF GrantsAreReal
<1>3. OneCarrier'
    BY DEF OneCarrier
<1>4. FirstIsAlone'
    BY DEF FirstIsAlone
<1>5. NoneIsNewer'
    BY DEF NoneIsNewer
<1>6. TokenSurvives'
    BY DEF TokenSurvives
<1> QED BY <1>1, <1>2, <1>3, <1>4, <1>5, <1>6

LEMMA CodeRedeemedKeepsInv ==
    ASSUME BrokerInv, NEW c \in BrokerCalls, CodeRedeemed(c)
    PROVE  BrokerInv'
<1> USE BrokerAssumption DEF BrokerInv, BrokerTypeOK, NoToken, BelongsTo, Carries
<1> DEFINE s == brokerCall[c].token.grant
           first == [grant |-> s, number |-> 1]
<1>1. /\ s \in States /\ s \notin redeemed
      /\ first \in [grant : States \cup {NoGrant}, number : Nat]
      /\ brokerCall[c].pc = "code"
    BY DEF CodeRedeemed, InHand, GrantsAreReal
<1>2. /\ redeemed' = redeemed \cup {s}
      /\ live' = [live EXCEPT ![s] = 1]
      /\ UNCHANGED <<authState, credential, nearExpiry>>
    BY DEF CodeRedeemed, InHand
<1>3. first.grant = s /\ first.number = 1
    OBVIOUS
<1>4. CASE /\ brokerCall' = [brokerCall EXCEPT ![c] = [pc |-> "store", token |-> first]]
           /\ lost' = lost
    <2>1. BrokerTypeOK'
        BY <1>1, <1>2, <1>3, <1>4
    <2>2. GrantsAreReal'
        BY <1>1, <1>2, <1>3, <1>4 DEF GrantsAreReal
    <2>3. OneCarrier'
        BY <1>1, <1>2, <1>3, <1>4 DEF GrantsAreReal, OneCarrier
    <2>4. FirstIsAlone'
        BY <1>1, <1>2, <1>3, <1>4 DEF GrantsAreReal, FirstIsAlone
    <2>5. NoneIsNewer'
        BY <1>1, <1>2, <1>3, <1>4 DEF GrantsAreReal, NoneIsNewer
    <2>6. TokenSurvives'
        BY <1>1, <1>2, <1>3, <1>4 DEF GrantsAreReal, TokenSurvives
    <2> QED BY <2>1, <2>2, <2>3, <2>4, <2>5, <2>6
<1>5. CASE brokerCall' = [brokerCall EXCEPT ![c] = Free] /\ lost' = lost \cup {s}
    <2>1. BrokerTypeOK'
        BY <1>1, <1>2, <1>3, <1>5 DEF Free
    <2>2. GrantsAreReal'
        BY <1>1, <1>2, <1>3, <1>5 DEF Free, GrantsAreReal
    <2>3. OneCarrier'
        BY <1>1, <1>2, <1>3, <1>5 DEF Free, GrantsAreReal, OneCarrier
    <2>4. FirstIsAlone'
        BY <1>1, <1>2, <1>3, <1>5 DEF Free, FirstIsAlone
    <2>5. NoneIsNewer'
        BY <1>1, <1>2, <1>3, <1>5 DEF Free, GrantsAreReal, NoneIsNewer
    <2>6. TokenSurvives'
        BY <1>1, <1>2, <1>3, <1>5 DEF Free, TokenSurvives
    <2> QED BY <2>1, <2>2, <2>3, <2>4, <2>5, <2>6
<1> QED BY <1>4, <1>5 DEF CodeRedeemed, InHand, Holds, Frees

LEMMA StoreGrantKeepsInv ==
    ASSUME BrokerInv, NEW c \in BrokerCalls, StoreGrant(c)
    PROVE  BrokerInv'
<1> USE BrokerAssumption
    DEF BrokerInv, BrokerTypeOK, StoreGrant, Holds, Frees, InHand, Free, NoToken, BelongsTo, Carries
<1>1. BrokerTypeOK'
    OBVIOUS
<1>2. GrantsAreReal'
    BY DEF GrantsAreReal
<1>3. OneCarrier'
    BY DEF OneCarrier
<1>4. FirstIsAlone'
    BY DEF GrantsAreReal, OneCarrier, FirstIsAlone
<1>5. NoneIsNewer'
    BY DEF GrantsAreReal, OneCarrier, NoneIsNewer
<1>6. TokenSurvives'
    BY DEF GrantsAreReal, OneCarrier, TokenSurvives
<1> QED BY <1>1, <1>2, <1>3, <1>4, <1>5, <1>6

LEMMA ConsumeStateKeepsInv ==
    ASSUME BrokerInv, NEW c \in BrokerCalls, ConsumeState(c)
    PROVE  BrokerInv'
<1> USE BrokerAssumption
    DEF BrokerInv, BrokerTypeOK, ConsumeState, Holds, Frees, InHand, Free, NoToken, BelongsTo, Carries
<1>1. BrokerTypeOK'
    OBVIOUS
<1>2. GrantsAreReal'
    BY DEF GrantsAreReal
<1>3. OneCarrier'
    BY DEF OneCarrier
<1>4. FirstIsAlone'
    BY DEF FirstIsAlone
<1>5. NoneIsNewer'
    BY DEF NoneIsNewer
<1>6. TokenSurvives'
    BY DEF TokenSurvives
<1> QED BY <1>1, <1>2, <1>3, <1>4, <1>5, <1>6

LEMMA ReadsCredentialKeepsInv ==
    ASSUME BrokerInv, NEW c \in BrokerCalls, ReadsCredential(c)
    PROVE  BrokerInv'
<1> USE BrokerAssumption
    DEF BrokerInv, BrokerTypeOK, ReadsCredential, Holds, Frees, InHand, Free, NoToken, BelongsTo, Carries
<1>1. BrokerTypeOK'
    OBVIOUS
<1>2. GrantsAreReal'
    BY DEF GrantsAreReal
<1>3. OneCarrier'
    BY DEF OneCarrier
<1>4. FirstIsAlone'
    BY DEF FirstIsAlone
<1>5. NoneIsNewer'
    BY DEF NoneIsNewer
<1>6. TokenSurvives'
    BY DEF TokenSurvives
<1> QED BY <1>1, <1>2, <1>3, <1>4, <1>5, <1>6

LEMMA TokenRotatesKeepsInv ==
    ASSUME BrokerInv, NEW c \in BrokerCalls, TokenRotates(c)
    PROVE  BrokerInv'
<1> USE BrokerAssumption DEF BrokerInv, BrokerTypeOK, NoToken, BelongsTo, Carries
<1> DEFINE g == brokerCall[c].token.grant
           n == brokerCall[c].token.number
           next == [grant |-> g, number |-> n + 1]
<1>1. /\ g \in States /\ g \in redeemed
      /\ n \in Nat /\ live[g] = n
      /\ next \in [grant : States \cup {NoGrant}, number : Nat]
      /\ brokerCall[c].pc = "refresh"
      /\ \A d \in BrokerCalls : ~ Carries(d, g)
    BY DEF TokenRotates, InHand, GrantsAreReal, NoneIsNewer
<1>2. /\ live' = [live EXCEPT ![g] = n + 1]
      /\ UNCHANGED <<redeemed, authState, credential, nearExpiry>>
    BY DEF TokenRotates, InHand
<1>3. next.grant = g /\ next.number = n + 1
    OBVIOUS
<1>4. CASE /\ brokerCall' = [brokerCall EXCEPT ![c] = [pc |-> "update", token |-> next]]
           /\ lost' = lost
    <2>1. BrokerTypeOK'
        BY <1>1, <1>2, <1>3, <1>4
    <2>2. GrantsAreReal'
        BY <1>1, <1>2, <1>3, <1>4 DEF GrantsAreReal
    <2>3. OneCarrier'
        BY <1>1, <1>2, <1>3, <1>4 DEF OneCarrier
    <2>4. FirstIsAlone'
        BY <1>1, <1>2, <1>3, <1>4 DEF FirstIsAlone
    <2>5. NoneIsNewer'
        BY <1>1, <1>2, <1>3, <1>4 DEF NoneIsNewer
    <2>6. TokenSurvives'
        BY <1>1, <1>2, <1>3, <1>4 DEF TokenSurvives
    <2> QED BY <2>1, <2>2, <2>3, <2>4, <2>5, <2>6
<1>5. CASE brokerCall' = [brokerCall EXCEPT ![c] = Free] /\ lost' = lost \cup {g}
    <2>1. BrokerTypeOK'
        BY <1>1, <1>2, <1>3, <1>5 DEF Free
    <2>2. GrantsAreReal'
        BY <1>1, <1>2, <1>3, <1>5 DEF Free, GrantsAreReal
    <2>3. OneCarrier'
        BY <1>1, <1>2, <1>3, <1>5 DEF Free, OneCarrier
    <2>4. FirstIsAlone'
        BY <1>1, <1>2, <1>3, <1>5 DEF Free, FirstIsAlone
    <2>5. NoneIsNewer'
        BY <1>1, <1>2, <1>3, <1>5 DEF Free, NoneIsNewer
    <2>6. TokenSurvives'
        BY <1>1, <1>2, <1>3, <1>5 DEF Free, TokenSurvives
    <2> QED BY <2>1, <2>2, <2>3, <2>4, <2>5, <2>6
<1> QED BY <1>4, <1>5 DEF TokenRotates, InHand, Holds, Frees

LEMMA UpdateCredentialKeepsInv ==
    ASSUME BrokerInv, NEW c \in BrokerCalls, UpdateCredential(c)
    PROVE  BrokerInv'
<1> USE BrokerAssumption
    DEF BrokerInv, BrokerTypeOK, UpdateCredential, Holds, Frees, InHand, Free, NoToken, BelongsTo, Carries
<1>1. BrokerTypeOK'
    OBVIOUS
<1>2. GrantsAreReal'
    BY DEF GrantsAreReal
<1>3. OneCarrier'
    BY DEF OneCarrier
<1>4. FirstIsAlone'
    BY DEF GrantsAreReal, OneCarrier, FirstIsAlone
<1>5. NoneIsNewer'
    BY DEF GrantsAreReal, OneCarrier, NoneIsNewer
<1>6. TokenSurvives'
    BY DEF GrantsAreReal, OneCarrier, TokenSurvives
<1> QED BY <1>1, <1>2, <1>3, <1>4, <1>5, <1>6

LEMMA CallThrowsKeepsInv ==
    ASSUME BrokerInv, NEW c \in BrokerCalls, CallThrows(c)
    PROVE  BrokerInv'
<1> USE BrokerAssumption
    DEF BrokerInv, BrokerTypeOK, CallThrows, Holds, Frees, InHand, Free, NoToken, BelongsTo, Carries
<1>1. BrokerTypeOK'
    <2>1. lost' \subseteq States
        <3>1. brokerCall[c].pc \in {"store", "update"} => brokerCall[c].token.grant \in States
            BY DEF GrantsAreReal
        <3> QED BY <3>1
    <2>2. brokerCall'[c] = Free /\ \A d \in BrokerCalls \ {c} : brokerCall'[d] = brokerCall[d]
        OBVIOUS
    <2> QED BY <2>1, <2>2
<1>2. GrantsAreReal'
    BY DEF GrantsAreReal
<1>3. OneCarrier'
    BY DEF OneCarrier
<1>4. FirstIsAlone'
    BY DEF FirstIsAlone
<1>5. NoneIsNewer'
    BY DEF NoneIsNewer
<1>6. TokenSurvives'
    BY DEF TokenSurvives
<1> QED BY <1>1, <1>2, <1>3, <1>4, <1>5, <1>6

LEMMA AgesKeepsInv ==
    ASSUME BrokerInv, Ages
    PROVE  BrokerInv'
BY DEF BrokerInv, BrokerTypeOK, GrantsAreReal, OneCarrier, FirstIsAlone, NoneIsNewer,
       TokenSurvives, BelongsTo, Carries, NoToken, Ages

LEMMA BrokerNextInv ==
    ASSUME BrokerInv, [BrokerNext]_brokerVars
    PROVE  BrokerInv'
<1>1. ASSUME NEW s \in States, startAuthorization(s) \/ StateExpires(s)
      PROVE  BrokerInv'
    BY <1>1, startAuthorizationKeepsInv, StateExpiresKeepsInv
<1>2. ASSUME NEW c \in BrokerCalls, NEW s \in States, completeAuthorization(c, s)
      PROVE  BrokerInv'
    BY <1>2, completeAuthorizationKeepsInv
<1>3. ASSUME NEW c \in BrokerCalls, CodeRedeemed(c) \/ StoreGrant(c) \/ ConsumeState(c)
      PROVE  BrokerInv'
    BY <1>3, CodeRedeemedKeepsInv, StoreGrantKeepsInv, ConsumeStateKeepsInv
<1>4. ASSUME NEW c \in BrokerCalls, ReadsCredential(c) \/ TokenRotates(c) \/ UpdateCredential(c)
      PROVE  BrokerInv'
    BY <1>4, ReadsCredentialKeepsInv, TokenRotatesKeepsInv, UpdateCredentialKeepsInv
<1>5. ASSUME NEW c \in BrokerCalls, CallThrows(c)
      PROVE  BrokerInv'
    BY <1>5, CallThrowsKeepsInv
<1>6. CASE Ages
    BY <1>6, AgesKeepsInv
<1>7. CASE UNCHANGED brokerVars
    BY <1>7 DEF brokerVars, BrokerInv, BrokerTypeOK, GrantsAreReal, OneCarrier, FirstIsAlone,
                NoneIsNewer, TokenSurvives, BelongsTo, Carries, NoToken
<1> QED BY <1>1, <1>2, <1>3, <1>4, <1>5, <1>6, <1>7 DEF BrokerNext

\* The row's refresh token is the one the endpoint accepts, its successor is on its
\* way to the row, or an answer or a write was lost: however many calls refresh at
\* once and whatever authorizations complete meanwhile (refreshTokens,
\* refreshIfNearExpiry, completeAuthorization).
THEOREM TokenKept == BrokerSpec => []TokenSurvives
<1>1. BrokerInv /\ [BrokerNext]_brokerVars => BrokerInv'
    BY BrokerNextInv
<1>2. BrokerInv => TokenSurvives
    BY DEF BrokerInv
<1> QED BY BrokerInitInv, <1>1, <1>2, PTL DEF BrokerSpec

-------------------------------------------------------------------------------
(* The indexer.  A handler that is about to write holds a policy no older than *)
(* its log, for it read the head of the chain; and the rows are numbered up to *)
(* their count, so the greatest number and the count are one.                  *)

PolicyRead == [by : Nat, live : BOOLEAN]

HandlerType ==
    {Idle} \cup [log : Nat, step : {"read", "write"}]
           \cup [log : Nat, step : {"write"}, policy : PolicyRead, next : Nat]

PolicyRowType == [kernel : {"tba", "0x"}, by : Nat, live : BOOLEAN]

IndexerTyped ==
    /\ chainLog \in Seq(Names)
    /\ handler \in [LogHandlers -> HandlerType]
    /\ policyRow \in {NoRow} \cup PolicyRowType
    /\ revisions \in SUBSET [number : Nat, log : Nat, by : Nat]
    /\ IsFiniteSet(revisions)

\* A handler handles a log of the chain; one that writes a policy has read it.
ReadIsRecent(h) ==
    handler[h] # Idle =>
        /\ handler[h].log \in DOMAIN chainLog
        /\ handler[h].step = "write" /\ Writes(chainLog[handler[h].log]) =>
              /\ handler[h].policy \in PolicyRead
              /\ handler[h].policy.by >= handler[h].log

IndexerInv ==
    /\ IndexerTyped
    /\ \A h \in LogHandlers : ReadIsRecent(h)
    /\ RevisionsAreSound

\* What is read at the head of the chain is no older than any log that wrote it.
LEMMA HeadIsRecent ==
    ASSUME chainLog \in Seq(Names)
    PROVE  /\ ChainPolicy \in PolicyRead
           /\ \A i \in DOMAIN chainLog : Writes(chainLog[i]) => ChainPolicy.by >= i
<1> DEFINE written == {0} \cup {i \in DOMAIN chainLog : Writes(chainLog[i])}
           alive == chainLog # <<>> /\ chainLog[Len(chainLog)] # "PolicyRevoked"
<1>1. PICK n \in Nat : n = Len(chainLog)
    OBVIOUS
<1>2. written \in SUBSET (0..n) /\ 0 \in written
    BY <1>1
<1>3. ChainPolicy = [by |-> Max(written), live |-> alive]
    BY DEF ChainPolicy
<1>4. alive \in BOOLEAN
    OBVIOUS
<1>5. \A i \in DOMAIN chainLog : Writes(chainLog[i]) => i \in written
    OBVIOUS
<1> HIDE DEF written, alive
<1>6. Max(written) \in written /\ \A y \in written : Max(written) >= y
    BY <1>2, GreatestIsMember
<1>7. Max(written) \in Nat
    <2>1. written \subseteq Nat
        BY <1>1, <1>2
    <2> QED BY ONLY <1>6, <2>1
<1> QED BY <1>3, <1>4, <1>5, <1>6, <1>7 DEF PolicyRead

\* The next number is the count and one more.
LEMMA NumberIsNext ==
    ASSUME IndexerInv, NEW h \in LogHandlers
    PROVE  /\ Cardinality(revisions) \in Nat
           /\ RevisionNumber(h) = Cardinality(revisions) + 1
<1>1. PICK n \in Nat : n = Cardinality(revisions)
    BY FS_CardinalityType DEF IndexerInv, IndexerTyped
<1>2. {r.number : r \in revisions} = 1..n
    BY <1>1 DEF IndexerInv, RevisionsAreSound
<1>3. {0} \cup (1..n) = 0..n
    OBVIOUS
<1>4. 0..n \in SUBSET (0..n) /\ n \in 0..n
    OBVIOUS
<1>5. Max(0..n) \in 0..n /\ Max(0..n) >= n
    BY <1>4, GreatestIsMember
<1>6. Max(0..n) = n
    BY <1>5
<1> QED BY <1>1, <1>2, <1>3, <1>6 DEF RevisionNumber

\* A handler that starts on a log has read nothing yet.
LEMMA StartKeepsInv ==
    ASSUME IndexerInv, NEW h \in LogHandlers, NEW i \in DOMAIN chainLog, HandlerStarts(h, i),
           UNCHANGED <<chainLog, policyRow, revisions, deployedHandled>>
    PROVE  IndexerInv'
<1> USE DEF IndexerInv, IndexerTyped
<1> DEFINE w == [log |-> i, step |-> IF Writes(chainLog[i]) THEN "read" ELSE "write"]
<1>1. /\ w \in HandlerType /\ w.log = i
      /\ Writes(chainLog[i]) => w.step # "write"
    BY DEF HandlerType
<1>2. handler' = [handler EXCEPT ![h] = w]
    BY DEF HandlerStarts
<1> HIDE DEF w
<1>3. handler' \in [LogHandlers -> HandlerType]
    BY <1>1, <1>2
<1>4. ASSUME NEW g \in LogHandlers
      PROVE  ReadIsRecent(g)'
    <2>1. CASE g = h
        BY <1>1, <1>2, <2>1 DEF ReadIsRecent
    <2>2. CASE g # h
        BY <1>2, <2>2 DEF ReadIsRecent
    <2> QED BY <2>1, <2>2
<1> QED BY <1>3, <1>4 DEF RevisionsAreSound

\* A handler that ends leaves no policy read behind.
LEMMA EndKeepsHandlers ==
    ASSUME IndexerInv, NEW h \in LogHandlers, HandlerEnds(h), UNCHANGED chainLog
    PROVE  /\ handler' \in [LogHandlers -> HandlerType]
           /\ \A g \in LogHandlers : ReadIsRecent(g)'
<1>1. Idle \in HandlerType
    BY DEF HandlerType
<1>2. handler \in [LogHandlers -> HandlerType] /\ handler' = [handler EXCEPT ![h] = Idle]
    BY DEF IndexerInv, IndexerTyped, HandlerEnds
<1>3. \A g \in LogHandlers : handler'[g] = Idle \/ handler'[g] = handler[g]
    BY <1>2
<1> QED BY <1>1, <1>2, <1>3 DEF IndexerInv, ReadIsRecent

LEMMA EmitKeepsInv ==
    ASSUME IndexerInv, NEW names \in Seq(Names), EmitLogs(names)
    PROVE  IndexerInv'
<1> USE DEF IndexerInv, IndexerTyped
<1>1. chainLog' = chainLog \o names
    BY DEF EmitLogs
<1>2. chainLog' \in Seq(Names)
    BY <1>1
<1>3. \A i \in DOMAIN chainLog : i \in DOMAIN chainLog' /\ chainLog'[i] = chainLog[i]
    BY <1>1
<1>4. UNCHANGED <<handler, policyRow, revisions, deployedHandled>>
    BY DEF EmitLogs
<1>5. ASSUME NEW h \in LogHandlers
      PROVE  ReadIsRecent(h)'
    BY <1>3, <1>4 DEF ReadIsRecent
<1> QED BY <1>2, <1>4, <1>5 DEF RevisionsAreSound

LEMMA readFullPolicyKeepsInv ==
    ASSUME IndexerInv, NEW h \in LogHandlers, readFullPolicy(h)
    PROVE  IndexerInv'
<1> USE DEF IndexerInv, IndexerTyped
<1> DEFINE w == [log |-> handler[h].log, step |-> "write", policy |-> ChainPolicy,
                 next |-> Cardinality(revisions) + 1]
<1>1. /\ handler[h] # Idle /\ handler[h].log \in DOMAIN chainLog
      /\ Writes(chainLog[handler[h].log])
    BY DEF readFullPolicy, At, ReadIsRecent, Writes
<1>2. ChainPolicy \in PolicyRead /\ ChainPolicy.by >= handler[h].log
    BY <1>1, HeadIsRecent
<1>3. handler[h].log \in Nat /\ Cardinality(revisions) \in Nat
    BY <1>1, FS_CardinalityType
<1>4. w \in HandlerType /\ w.log = handler[h].log /\ w.policy = ChainPolicy
    BY <1>2, <1>3 DEF HandlerType
<1>5. /\ handler' = [handler EXCEPT ![h] = w]
      /\ UNCHANGED <<chainLog, policyRow, revisions, deployedHandled>>
    BY DEF readFullPolicy
<1> HIDE DEF w
<1>6. handler' \in [LogHandlers -> HandlerType]
    BY <1>4, <1>5
<1>7. ASSUME NEW g \in LogHandlers
      PROVE  ReadIsRecent(g)'
    <2>1. CASE g = h
        BY <1>1, <1>2, <1>4, <1>5, <2>1 DEF ReadIsRecent
    <2>2. CASE g # h
        BY <1>5, <2>2 DEF ReadIsRecent
    <2> QED BY <2>1, <2>2
<1> QED BY <1>5, <1>6, <1>7 DEF RevisionsAreSound

\* The transaction, a duplicate included.
LEMMA WriteRevisionKeepsInv ==
    ASSUME IndexerInv, NEW h \in LogHandlers, WriteRevision(h)
    PROVE  IndexerInv'
<1> DEFINE i == handler[h].log
           p == handler[h].policy
           n == Cardinality(revisions)
           new == [number |-> RevisionNumber(h), log |-> i, by |-> p.by]
           duplicate == \E r \in revisions : r.log = i
<1> USE DEF IndexerInv, IndexerTyped
<1>1. handler[h] # Idle /\ handler[h].step = "write" /\ Writes(chainLog[i])
    BY DEF WriteRevision, At, Writes
<1>2. i \in Nat /\ p \in PolicyRead /\ p.by >= i /\ p.by \in Nat
    BY <1>1 DEF ReadIsRecent, PolicyRead
<1>3. n \in Nat /\ RevisionNumber(h) = n + 1
    BY NumberIsNext
<1>4. /\ handler' \in [LogHandlers -> HandlerType]
      /\ \A g \in LogHandlers : ReadIsRecent(g)'
    BY EndKeepsHandlers DEF WriteRevision
<1>5. UNCHANGED <<chainLog, deployedHandled>>
    BY DEF WriteRevision
<1>6. /\ policyRow' \in {NoRow} \cup PolicyRowType
      /\ deployedHandled' => policyRow'.kernel = "tba"
    <2>1. policyRow' \in {policyRow, Upserted(p)}
        BY DEF WriteRevision
    <2>2. Upserted(p) \in PolicyRowType /\ (deployedHandled => Upserted(p).kernel = "tba")
        <3>1. p.by \in Nat /\ p.live \in BOOLEAN
            BY <1>2 DEF PolicyRead
        <3>2. CASE policyRow = NoRow
            BY <3>1, <3>2 DEF Upserted, PolicyRowType, RevisionsAreSound, NoRow
        <3>3. CASE policyRow # NoRow
            BY <3>1, <3>3 DEF Upserted, PolicyRowType, RevisionsAreSound
        <3> QED BY <3>2, <3>3
    <2> QED BY <1>5, <2>1, <2>2 DEF RevisionsAreSound
<1>7. /\ revisions' \in SUBSET [number : Nat, log : Nat, by : Nat]
      /\ IsFiniteSet(revisions')
      /\ {r.number : r \in revisions'} = 1..Cardinality(revisions')
      /\ \A r, s \in revisions' : r.log = s.log => r = s
      /\ \A r \in revisions' : r.by >= r.log
    <2>1. CASE duplicate
        BY <2>1 DEF WriteRevision, RevisionsAreSound
    <2>2. CASE ~duplicate
        <3>1. revisions' = revisions \cup {new}
            BY <2>2 DEF WriteRevision
        <3>2. /\ new \in [number : Nat, log : Nat, by : Nat]
              /\ new.number = n + 1 /\ new.log = i /\ new.by >= new.log
            BY <1>2, <1>3
        <3>3. new \notin revisions
            BY <2>2, <3>2
        <3> HIDE DEF new
        <3>4. IsFiniteSet(revisions') /\ Cardinality(revisions') = n + 1
            BY <3>1, <3>3, FS_AddElement
        <3>5. {r.number : r \in revisions'} = {r.number : r \in revisions} \cup {new.number}
            BY <3>1
        <3>6. (1..n) \cup {n + 1} = 1..(n + 1)
            BY <1>3
        <3>7. {r.number : r \in revisions'} = 1..Cardinality(revisions')
            BY <3>2, <3>4, <3>5, <3>6 DEF RevisionsAreSound
        <3>8. \A r, s \in revisions' : r.log = s.log => r = s
            BY <2>2, <3>1, <3>2 DEF RevisionsAreSound
        <3>9. \A r \in revisions' : r.by >= r.log
            BY <3>1, <3>2 DEF RevisionsAreSound
        <3> QED BY <3>1, <3>2, <3>4, <3>7, <3>8, <3>9
    <2> QED BY <2>1, <2>2
<1> HIDE DEF i, p, n, new, duplicate
<1> QED BY <1>4, <1>5, <1>6, <1>7 DEF RevisionsAreSound

\* The two handlers that write the row alone never take its address from it.
LEMMA RowKeepsInv ==
    ASSUME IndexerInv, NEW h \in LogHandlers, handleAgentDeployed(h) \/ handlePolicyRevoked(h)
    PROVE  IndexerInv'
<1> USE DEF IndexerInv, IndexerTyped
<1>1. HandlerEnds(h) /\ UNCHANGED <<chainLog, revisions>>
    BY DEF handleAgentDeployed, handlePolicyRevoked
<1>2. /\ handler' \in [LogHandlers -> HandlerType]
      /\ \A g \in LogHandlers : ReadIsRecent(g)'
    BY <1>1, EndKeepsHandlers
<1>3. /\ policyRow' \in {NoRow} \cup PolicyRowType
      /\ deployedHandled' => policyRow'.kernel = "tba"
    <2>1. CASE handleAgentDeployed(h) /\ policyRow = NoRow
        BY <2>1 DEF handleAgentDeployed, PolicyRowType
    <2>2. CASE handleAgentDeployed(h) /\ policyRow # NoRow
        BY <2>2 DEF handleAgentDeployed, PolicyRowType
    <2>3. CASE handlePolicyRevoked(h)
        BY <2>3 DEF handlePolicyRevoked, PolicyRowType, RevisionsAreSound
    <2> QED BY <2>1, <2>2, <2>3
<1> QED BY <1>1, <1>2, <1>3 DEF RevisionsAreSound

LEMMA IndexerInitInv == IndexerInit => IndexerInv
<1> SUFFICES ASSUME IndexerInit
             PROVE  IndexerInv
    OBVIOUS
<1>1. IsFiniteSet({}) /\ Cardinality({}) = 0
    BY FS_EmptySet
<1>2. Idle \in HandlerType
    BY DEF HandlerType
<1>3. IndexerTyped
    BY <1>1, <1>2 DEF IndexerInit, IndexerTyped
<1>4. RevisionsAreSound
    BY <1>1 DEF IndexerInit, RevisionsAreSound
<1> QED BY <1>3, <1>4 DEF IndexerInit, IndexerInv, ReadIsRecent

LEMMA IndexerNextInv ==
    ASSUME IndexerInv, [IndexerNext]_indexerVars
    PROVE  IndexerInv'
<1>1. ASSUME NEW names \in {<<"AgentDeployed", "PolicyInstalled">>, <<"PolicyUpdated">>, <<"PolicyRevoked">>},
             EmitLogs(names)
      PROVE  IndexerInv'
    <2>1. /\ <<"AgentDeployed", "PolicyInstalled">> \in Seq(Names)
          /\ <<"PolicyUpdated">> \in Seq(Names)
          /\ <<"PolicyRevoked">> \in Seq(Names)
        BY DEF Names
    <2>2. names \in Seq(Names)
        BY <2>1
    <2> QED BY <1>1, <2>2, EmitKeepsInv
<1>2. ASSUME NEW h \in LogHandlers, NEW n \in Names, DeliverLog(n, h) \/ RedeliverLog(n, h)
      PROVE  IndexerInv'
    <2>1. PICK i \in LogsOf(n) : HandlerStarts(h, i)
        BY <1>2 DEF DeliverLog, RedeliverLog
    <2>2. i \in DOMAIN chainLog
        BY DEF LogsOf
    <2> QED BY <1>2, <2>1, <2>2, StartKeepsInv DEF DeliverLog, RedeliverLog
<1>3. ASSUME NEW h \in LogHandlers, HandlerFails(h)
      PROVE  IndexerInv'
    <2>1. /\ handler' \in [LogHandlers -> HandlerType]
          /\ \A g \in LogHandlers : ReadIsRecent(g)'
        BY <1>3, EndKeepsHandlers DEF HandlerFails
    <2> QED BY <1>3, <2>1 DEF HandlerFails, IndexerInv, IndexerTyped, RevisionsAreSound
<1>4. ASSUME NEW h \in LogHandlers, handleAgentDeployed(h) \/ handlePolicyRevoked(h)
      PROVE  IndexerInv'
    BY <1>4, RowKeepsInv
<1>5. ASSUME NEW h \in LogHandlers, readFullPolicy(h)
      PROVE  IndexerInv'
    BY <1>5, readFullPolicyKeepsInv
<1>6. ASSUME NEW h \in LogHandlers, WriteRevision(h)
      PROVE  IndexerInv'
    BY <1>6, WriteRevisionKeepsInv
<1>7. CASE RestartIndexer
    <2>1. Idle \in HandlerType
        BY DEF HandlerType
    <2>2. /\ handler' = [h \in LogHandlers |-> Idle]
          /\ UNCHANGED <<chainLog, policyRow, revisions, deployedHandled>>
        BY <1>7 DEF RestartIndexer
    <2> QED BY <2>1, <2>2 DEF IndexerInv, IndexerTyped, ReadIsRecent, RevisionsAreSound
<1>8. CASE UNCHANGED indexerVars
    BY <1>8 DEF indexerVars, IndexerInv, IndexerTyped, ReadIsRecent, RevisionsAreSound
<1> QED BY <1>1, <1>2, <1>3, <1>4, <1>5, <1>6, <1>7, <1>8 DEF IndexerNext

\* However often logs are delivered again, handled side by side, lost in a crash or
\* replayed, the history of a policy is complete and sound
\* (handlePolicyInstalledOrUpdated and handleAgentDeployed of onchainIndexer.ts).
THEOREM HistoryIsSound == IndexerSpec => []RevisionsAreSound
<1>1. IndexerInv /\ [IndexerNext]_indexerVars => IndexerInv'
    BY IndexerNextInv
<1>2. IndexerInv => RevisionsAreSound
    BY DEF IndexerInv
<1> QED BY IndexerInitInv, <1>1, <1>2, PTL DEF IndexerSpec

(* The row of a revoked policy.  That it is not live is not so in general: the   *)
(* handler of an update may commit after that of the revocation that followed    *)
(* it.  What breaks it is the overlap, or a log that is lost, and nothing else:  *)
(* when the handlers take turns and every log is handled, a live policy is read  *)
(* and written only while the revocation is still to come.                       *)

OneHandler == \A h, g \in LogHandlers : handler[h] # Idle /\ handler[g] # Idle => h = g

\* Handlers take turns, none of them fails, and a restart loses no log.
InTurn ==
    /\ OneHandler /\ OneHandler'
    /\ \A h \in LogHandlers : ~HandlerFails(h)
    /\ FromBlock = "latest" => ~RestartIndexer

HandledInTurn == [][InTurn]_indexerVars

ChainRevoked == chainLog # <<>> /\ ~ChainPolicy.live
RevocationToCome == seen["PolicyRevoked"] < Cardinality(LogsOf("PolicyRevoked"))
Revoking(h) == handler[h] # Idle /\ chainLog[handler[h].log] = "PolicyRevoked"
WritesLive(h) == At(h, "write", {"PolicyInstalled", "PolicyUpdated"}) /\ handler[h].policy.live

TurnInv ==
    /\ IndexerInv
    /\ seen \in [Names -> Nat] /\ \A n \in Names : seen[n] <= Cardinality(LogsOf(n))
    /\ ChainRevoked =>
          /\ policyRow # NoRow /\ policyRow.live =>
                RevocationToCome \/ \E h \in LogHandlers : Revoking(h)
          /\ \A h \in LogHandlers : WritesLive(h) => RevocationToCome

LEMMA LogsAreCounted ==
    ASSUME NEW s \in Seq(Names), NEW n
    PROVE  LET logs == {i \in DOMAIN s : s[i] = n}
           IN  IsFiniteSet(logs) /\ Cardinality(logs) \in Nat
<1> DEFINE logs == {i \in DOMAIN s : s[i] = n}
<1>1. logs \in SUBSET (1..Len(s)) /\ Len(s) \in Nat
    OBVIOUS
<1>2. IsFiniteSet(1..Len(s))
    BY <1>1, FS_Interval
<1> HIDE DEF logs
<1>3. IsFiniteSet(logs) /\ Cardinality(logs) \in Nat
    BY <1>1, <1>2, FS_Subset, FS_CardinalityType
<1> QED BY <1>3 DEF logs

LEMMA LiveIsLast ==
    ChainPolicy.live <=> chainLog # <<>> /\ chainLog[Len(chainLog)] # "PolicyRevoked"
<1> DEFINE by == Max({0} \cup {i \in DOMAIN chainLog : Writes(chainLog[i])})
           alive == chainLog # <<>> /\ chainLog[Len(chainLog)] # "PolicyRevoked"
<1>1. ChainPolicy = [by |-> by, live |-> alive]
    BY DEF ChainPolicy
<1> HIDE DEF by, alive
<1>2. ChainPolicy.live = alive
    BY <1>1
<1> QED BY <1>2 DEF alive

\* The steps that neither emit nor deliver a log, nor start again.
LEMMA WorkKeepsTurns ==
    ASSUME TurnInv, IndexerInv', UNCHANGED <<chainLog, seen>>, NEW h \in LogHandlers,
           handler[h] # Idle, \A g \in LogHandlers : g # h => handler[g] = Idle /\ handler'[g] = Idle,
           ChainRevoked /\ policyRow' # NoRow /\ policyRow'.live =>
               RevocationToCome \/ (handler'[h] # Idle /\ handler'[h].log = handler[h].log
                                    /\ policyRow' = policyRow),
           ChainRevoked /\ WritesLive(h)' => RevocationToCome
    PROVE  TurnInv'
<1> USE DEF TurnInv
<1>1. /\ \A n : LogsOf(n)' = LogsOf(n)
      /\ ChainRevoked' = ChainRevoked
    BY DEF LogsOf, ChainRevoked, ChainPolicy
<1>2. RevocationToCome' = RevocationToCome /\ \A n \in Names : seen'[n] <= Cardinality(LogsOf(n)')
    BY <1>1 DEF RevocationToCome
<1>3. ASSUME ChainRevoked, policyRow' # NoRow, policyRow'.live, ~RevocationToCome
      PROVE  \E g \in LogHandlers : Revoking(g)'
    <2>1. handler'[h] # Idle /\ handler'[h].log = handler[h].log /\ policyRow' = policyRow
        BY <1>3
    <2>2. PICK g \in LogHandlers : Revoking(g)
        BY <1>3, <2>1
    <2>3. g = h
        BY <2>2 DEF Revoking
    <2>4. Revoking(h)'
        BY <2>1, <2>2, <2>3 DEF Revoking
    <2> QED BY <2>4
<1>4. ASSUME ChainRevoked, NEW g \in LogHandlers, WritesLive(g)'
      PROVE  RevocationToCome
    <2>1. g = h
        BY <1>4 DEF WritesLive, At
    <2> QED BY <1>4, <2>1
<1> QED BY <1>1, <1>2, <1>3, <1>4

\* A revocation that is emitted is still to come; other logs make the policy live.
LEMMA EmitKeepsTurns ==
    ASSUME TurnInv, IndexerInv',
           NEW names \in {<<"AgentDeployed", "PolicyInstalled">>, <<"PolicyUpdated">>, <<"PolicyRevoked">>},
           EmitLogs(names)
    PROVE  TurnInv'
<1> USE DEF TurnInv, IndexerInv, IndexerTyped
<1>1. /\ chainLog' = chainLog \o names /\ chainLog' \in Seq(Names)
      /\ seen' = seen
    BY DEF EmitLogs
<1>2. \A n : LogsOf(n) \subseteq LogsOf(n)'
    BY <1>1 DEF LogsOf
<1>3. ASSUME NEW n \in Names
      PROVE  Cardinality(LogsOf(n)) <= Cardinality(LogsOf(n)') /\ Cardinality(LogsOf(n)') \in Nat
    <2>1. IsFiniteSet(LogsOf(n)') /\ Cardinality(LogsOf(n)') \in Nat
        BY <1>1, LogsAreCounted DEF LogsOf
    <2> QED BY <1>2, <2>1, FS_Subset
<1>4. \A n \in Names : seen'[n] <= Cardinality(LogsOf(n)')
    <2>1. \A n \in Names : Cardinality(LogsOf(n)) \in Nat
        BY LogsAreCounted DEF LogsOf
    <2> QED BY <1>1, <1>3, <2>1
<1>5. CASE names = <<"PolicyRevoked">>
    <2> DEFINE logs == LogsOf("PolicyRevoked")
               i == Len(chainLog) + 1
    <2>1. i \in DOMAIN chainLog' /\ chainLog'[i] = "PolicyRevoked" /\ i \notin DOMAIN chainLog
        BY <1>1, <1>5
    <2>2. i \in logs' /\ i \notin logs
        BY <2>1 DEF LogsOf
    <2>3. IsFiniteSet(logs) /\ Cardinality(logs) \in Nat /\ IsFiniteSet(logs') /\ Cardinality(logs') \in Nat
        BY <1>1, LogsAreCounted DEF LogsOf
    <2>4. Cardinality(logs) < Cardinality(logs')
        <3>1. logs \subseteq logs' /\ logs # logs'
            BY <1>2, <2>2
        <3> HIDE DEF logs
        <3> QED BY ONLY <2>3, <3>1, FS_Subset
    <2>5. seen["PolicyRevoked"] \in Nat /\ seen["PolicyRevoked"] <= Cardinality(logs)
        BY DEF Names
    <2>6. RevocationToCome'
        BY <1>1, <2>3, <2>4, <2>5 DEF RevocationToCome
    <2> QED BY <1>1, <1>4, <2>6
<1>6. CASE names # <<"PolicyRevoked">>
    <2>1. Len(names) \in {1, 2} /\ names[Len(names)] # "PolicyRevoked" /\ names \in Seq(Names)
        <3>1. CASE names = <<"AgentDeployed", "PolicyInstalled">>
            BY <3>1 DEF Names
        <3>2. CASE names = <<"PolicyUpdated">>
            BY <3>2 DEF Names
        <3> QED BY <1>6, <3>1, <3>2
    <2>2. /\ Len(chainLog') = Len(chainLog) + Len(names) /\ Len(chainLog') # 0
          /\ chainLog'[Len(chainLog')] = names[Len(names)]
        BY <1>1, <2>1
    <2>3. chainLog' # <<>> /\ chainLog'[Len(chainLog')] # "PolicyRevoked"
        BY <2>1, <2>2
    <2>4. PICK newest : ChainPolicy' = [by |-> newest, live |-> /\ chainLog' # <<>>
                                         /\ chainLog'[Len(chainLog')] # "PolicyRevoked"]
        BY DEF ChainPolicy
    <2>5. ChainPolicy.live'
        BY <2>3, <2>4
    <2> QED BY <1>1, <1>4, <2>5 DEF ChainRevoked
<1> QED BY <1>5, <1>6

\* A handler that starts writes no policy yet.
LEMMA StartKeepsTurns ==
    ASSUME TurnInv, IndexerInv', OneHandler', NEW n \in Names, NEW h \in LogHandlers,
           DeliverLog(n, h) \/ RedeliverLog(n, h)
    PROVE  TurnInv'
<1> USE DEF TurnInv, IndexerInv, IndexerTyped
<1>1. PICK i \in LogsOf(n) :
         /\ HandlerStarts(h, i)
         /\ \/ Cardinality({j \in LogsOf(n) : j < i}) = seen[n] /\ seen' = [seen EXCEPT ![n] = @ + 1]
            \/ seen' = seen
    BY DEF DeliverLog, RedeliverLog
<1>2. handler[h] = Idle /\ UNCHANGED <<chainLog, policyRow>>
    BY DEF DeliverLog, RedeliverLog
<1> DEFINE w == [log |-> i, step |-> IF Writes(chainLog[i]) THEN "read" ELSE "write"]
<1>3. handler' = [handler EXCEPT ![h] = w]
    BY <1>1 DEF HandlerStarts
<1>4. w # Idle /\ w.log = i /\ (w.step = "write" => ~Writes(chainLog[i]))
    <2>1. i \in Nat /\ i # 0
        BY DEF LogsOf
    <2>2. Idle.log = 0
        BY DEF Idle
    <2> QED BY <2>1, <2>2
<1> HIDE DEF w
<1>5. handler'[h] = w /\ \A g \in LogHandlers : g # h => handler'[g] = Idle /\ handler[g] = Idle
    BY <1>3, <1>4 DEF OneHandler
<1>6. LogsOf(n)' = LogsOf(n) /\ (\A m : LogsOf(m)' = LogsOf(m)) /\ ChainRevoked' = ChainRevoked
    BY <1>2 DEF LogsOf, ChainRevoked, ChainPolicy
<1>7. seen' \in [Names -> Nat] /\ \A m \in Names : seen'[m] <= Cardinality(LogsOf(m)')
    <2>1. CASE seen' = seen
        BY <1>6, <2>1
    <2>2. CASE Cardinality({j \in LogsOf(n) : j < i}) = seen[n] /\ seen' = [seen EXCEPT ![n] = @ + 1]
        <3> DEFINE before == {j \in LogsOf(n) : j < i}
        <3>1. IsFiniteSet(LogsOf(n)) /\ Cardinality(LogsOf(n)) \in Nat
            BY LogsAreCounted DEF LogsOf
        <3>2. before \subseteq LogsOf(n) /\ i \in LogsOf(n) /\ i \notin before
            <4>1. i \in Nat
                BY DEF LogsOf
            <4> QED BY <4>1
        <3>3. Cardinality(before) = seen[n] /\ seen[n] \in Nat
            BY <2>2
        <3> HIDE DEF before
        <3>4. Cardinality(before) <= Cardinality(LogsOf(n)) /\ Cardinality(before) # Cardinality(LogsOf(n))
            BY <3>1, <3>2, FS_Subset
        <3>5. seen[n] + 1 <= Cardinality(LogsOf(n))
            BY <3>1, <3>3, <3>4
        <3> QED BY <1>6, <2>2, <3>5
    <2> QED BY <1>1, <2>1, <2>2
<1>8. \A g \in LogHandlers : ~WritesLive(g)'
    BY <1>2, <1>4, <1>5 DEF WritesLive, At, Writes
<1>9. ASSUME ChainRevoked, policyRow # NoRow, policyRow.live
      PROVE  RevocationToCome' \/ \E g \in LogHandlers : Revoking(g)'
    <2>1. RevocationToCome
        BY <1>2, <1>5, <1>9 DEF Revoking
    <2>2. CASE n = "PolicyRevoked"
        <3>1. chainLog[i] = "PolicyRevoked"
            BY <2>2 DEF LogsOf
        <3> QED BY <1>2, <1>4, <1>5, <3>1 DEF Revoking
    <2>3. CASE n # "PolicyRevoked"
        <3>1. seen'["PolicyRevoked"] = seen["PolicyRevoked"]
            BY <1>1, <2>3 DEF Names
        <3> QED BY <1>6, <2>1, <3>1 DEF RevocationToCome
    <2> QED BY <2>2, <2>3
<1> QED BY <1>2, <1>6, <1>7, <1>8, <1>9

\* A restart replays the revocations from the first.
LEMMA RestartKeepsTurns ==
    ASSUME TurnInv, IndexerInv', RestartIndexer, FromBlock # "latest"
    PROVE  TurnInv'
<1> USE DEF TurnInv, IndexerInv, IndexerTyped
<1>1. /\ handler' = [h \in LogHandlers |-> Idle] /\ seen' = [n \in Names |-> 0]
      /\ chainLog' = chainLog /\ policyRow' = policyRow
    BY DEF RestartIndexer
<1>2. (\A n : LogsOf(n)' = LogsOf(n)) /\ ChainRevoked' = ChainRevoked
    BY <1>1 DEF LogsOf, ChainRevoked, ChainPolicy
<1>3. seen' \in [Names -> Nat] /\ \A n \in Names : seen'[n] <= Cardinality(LogsOf(n)')
    <2>1. \A n \in Names : Cardinality(LogsOf(n)) \in Nat
        BY LogsAreCounted DEF LogsOf
    <2> QED BY <1>1, <1>2, <2>1
<1>4. ASSUME ChainRevoked
      PROVE  RevocationToCome'
    <2> DEFINE logs == LogsOf("PolicyRevoked")
    <2>1. Len(chainLog) \in DOMAIN chainLog /\ chainLog[Len(chainLog)] = "PolicyRevoked"
        BY <1>4, LiveIsLast DEF ChainRevoked
    <2>2. logs # {}
        BY <2>1 DEF LogsOf
    <2>3. IsFiniteSet(logs) /\ Cardinality(logs) \in Nat
        BY LogsAreCounted DEF LogsOf
    <2>4. Cardinality(logs) # 0
        BY <2>2, <2>3, FS_EmptySet
    <2>5. seen'["PolicyRevoked"] = 0
        BY <1>1 DEF Names
    <2> QED BY <1>2, <2>3, <2>4, <2>5 DEF RevocationToCome
<1>5. \A h \in LogHandlers : ~WritesLive(h)'
    BY <1>1 DEF WritesLive, At
<1> QED BY <1>2, <1>3, <1>4, <1>5

LEMMA TurnNextInv ==
    ASSUME TurnInv, [IndexerNext]_indexerVars, [InTurn]_indexerVars
    PROVE  TurnInv'
<1> USE DEF TurnInv
<1>1. IndexerInv'
    BY IndexerNextInv
<1>2. CASE UNCHANGED indexerVars
    BY <1>1, <1>2 DEF indexerVars, LogsOf, ChainRevoked, ChainPolicy, RevocationToCome, Revoking,
                      WritesLive, At
<1>3. CASE IndexerNext /\ InTurn
    <2>1. OneHandler /\ OneHandler'
        BY <1>3 DEF InTurn
    <2>2. ASSUME NEW h \in LogHandlers, handler[h] # Idle,
                 handler' = [handler EXCEPT ![h] = handler'[h]]
          PROVE  \A g \in LogHandlers : g # h => handler[g] = Idle /\ handler'[g] = Idle
        BY <2>1, <2>2 DEF OneHandler, IndexerInv, IndexerTyped
    <2>3. ASSUME NEW names \in {<<"AgentDeployed", "PolicyInstalled">>, <<"PolicyUpdated">>,
                                <<"PolicyRevoked">>},
                 EmitLogs(names)
          PROVE  TurnInv'
        BY <1>1, <2>3, EmitKeepsTurns
    <2>4. ASSUME NEW h \in LogHandlers, NEW n \in Names, DeliverLog(n, h) \/ RedeliverLog(n, h)
          PROVE  TurnInv'
        BY <1>1, <2>1, <2>4, StartKeepsTurns
    <2>5. CASE RestartIndexer
        BY <1>1, <1>3, <2>5, RestartKeepsTurns DEF InTurn
    <2>6. ASSUME NEW h \in LogHandlers, handleAgentDeployed(h) \/ handlePolicyRevoked(h)
          PROVE  TurnInv'
        <3>1. handler[h] # Idle /\ handler' = [handler EXCEPT ![h] = Idle] /\ UNCHANGED <<chainLog, seen>>
            BY <2>6 DEF handleAgentDeployed, handlePolicyRevoked, At, HandlerEnds
        <3>2. handler'[h] = Idle
            BY <3>1 DEF IndexerInv, IndexerTyped
        <3>3. \A g \in LogHandlers : g # h => handler[g] = Idle /\ handler'[g] = Idle
            BY <2>2, <3>1, <3>2
        <3>4. ASSUME ChainRevoked, policyRow' # NoRow, policyRow'.live
              PROVE  RevocationToCome
            <4>1. CASE handlePolicyRevoked(h)
                BY <3>4, <4>1 DEF handlePolicyRevoked, IndexerInv, IndexerTyped, PolicyRowType
            <4>2. CASE handleAgentDeployed(h)
                <5>1. policyRow # NoRow /\ policyRow.live
                    BY <3>4, <4>2 DEF handleAgentDeployed, IndexerInv, IndexerTyped, PolicyRowType
                <5>2. ~Revoking(h)
                    BY <4>2 DEF handleAgentDeployed, At, Revoking
                <5>3. \A g \in LogHandlers : ~Revoking(g)
                    BY <3>3, <5>2 DEF Revoking
                <5> QED BY <3>4, <5>1, <5>3
            <4> QED BY <2>6, <4>1, <4>2
        <3>5. ~WritesLive(h)'
            BY <3>2 DEF WritesLive, At
        <3> QED BY ONLY TurnInv, <1>1, <3>1, <3>3, <3>4, <3>5, h \in LogHandlers, WorkKeepsTurns
    <2>7. ASSUME NEW h \in LogHandlers, readFullPolicy(h)
          PROVE  TurnInv'
        <3> DEFINE w == [log |-> handler[h].log, step |-> "write", policy |-> ChainPolicy,
                         next |-> Cardinality(revisions) + 1]
        <3>1. /\ handler[h] # Idle /\ handler' = [handler EXCEPT ![h] = w]
              /\ UNCHANGED <<chainLog, seen, policyRow>>
            BY <2>7 DEF readFullPolicy, At
        <3>2. handler'[h] = w /\ w.log = handler[h].log /\ w.policy = ChainPolicy
            BY <3>1 DEF IndexerInv, IndexerTyped
        <3>3. w # Idle
            <4>1. handler[h].log \in Nat /\ handler[h].log # 0
                BY <3>1 DEF IndexerInv, IndexerTyped, ReadIsRecent
            <4>2. Idle.log = 0
                BY DEF Idle
            <4> QED BY <3>2, <4>1, <4>2
        <3> HIDE DEF w
        <3>4. \A g \in LogHandlers : g # h => handler[g] = Idle /\ handler'[g] = Idle
            BY <2>2, <3>1, <3>2
        <3>5. ASSUME ChainRevoked, policyRow' # NoRow, policyRow'.live
              PROVE  handler'[h] # Idle /\ handler'[h].log = handler[h].log /\ policyRow' = policyRow
            BY <3>1, <3>2, <3>3
        <3>6. ~(ChainRevoked /\ WritesLive(h)')
            BY <3>1, <3>2 DEF WritesLive, ChainRevoked
        <3>7. UNCHANGED <<chainLog, seen>> /\ handler[h] # Idle
            BY <3>1
        <3> QED BY ONLY TurnInv, <1>1, <3>4, <3>5, <3>6, <3>7, h \in LogHandlers, WorkKeepsTurns
    <2>8. ASSUME NEW h \in LogHandlers, WriteRevision(h)
          PROVE  TurnInv'
        <3> DEFINE p == handler[h].policy
        <3>1. /\ handler[h] # Idle /\ handler' = [handler EXCEPT ![h] = Idle]
              /\ UNCHANGED <<chainLog, seen>> /\ policyRow' \in {policyRow, Upserted(p)}
              /\ At(h, "write", {"PolicyInstalled", "PolicyUpdated"})
            BY <2>8 DEF WriteRevision, At, HandlerEnds
        <3>2. handler'[h] = Idle
            BY <3>1 DEF IndexerInv, IndexerTyped
        <3>3. \A g \in LogHandlers : g # h => handler[g] = Idle /\ handler'[g] = Idle
            BY <2>2, <3>1, <3>2
        <3>4. ASSUME ChainRevoked, policyRow' # NoRow, policyRow'.live
              PROVE  RevocationToCome
            <4>1. CASE policyRow' = policyRow
                <5>1. \A g \in LogHandlers : ~Revoking(g)
                    BY <3>1, <3>3 DEF At, Revoking
                <5> QED BY <3>4, <4>1, <5>1
            <4>2. CASE policyRow' = Upserted(p)
                <5>1. Upserted(p).live = p.live
                    BY DEF Upserted, IndexerInv, IndexerTyped, PolicyRowType, NoRow
                <5>2. WritesLive(h)
                    BY <3>1, <3>4, <4>2, <5>1 DEF WritesLive
                <5> QED BY <3>4, <5>2
            <4> QED BY <3>1, <4>1, <4>2
        <3>5. ~WritesLive(h)'
            BY <3>2 DEF WritesLive, At
        <3> QED BY ONLY TurnInv, <1>1, <3>1, <3>3, <3>4, <3>5, h \in LogHandlers, WorkKeepsTurns
    <2>9. \A h \in LogHandlers : ~HandlerFails(h)
        BY <1>3 DEF InTurn
    <2> QED BY <1>3, <2>3, <2>4, <2>5, <2>6, <2>7, <2>8, <2>9 DEF IndexerNext
<1> QED BY <1>2, <1>3

\* Where the handlers take turns and none fails, the row of a revoked policy is not live
\* once everything is handled, whatever is delivered twice and however often the indexer
\* starts again: the overlap of two handlers is all that onchainIndexer.ts:537 is
\* exposed to, beside a log that is lost.
THEOREM RevokedRowDiesInTurn == IndexerSpec /\ HandledInTurn => []RevokedRowIsDead
<1>1. IndexerInit => TurnInv
    <2> SUFFICES ASSUME IndexerInit
                 PROVE  TurnInv
        OBVIOUS
    <2>1. chainLog = <<>> /\ seen = [n \in Names |-> 0] /\ policyRow = NoRow
        BY DEF IndexerInit
    <2>2. chainLog \in Seq(Names)
        BY <2>1
    <2>3. \A n \in Names : Cardinality(LogsOf(n)) \in Nat
        BY <2>2, LogsAreCounted DEF LogsOf
    <2> QED BY <2>1, <2>3, IndexerInitInv DEF TurnInv, ChainRevoked
<1>2. TurnInv /\ [IndexerNext]_indexerVars /\ [InTurn]_indexerVars => TurnInv'
    BY TurnNextInv
<1>3. TurnInv => RevokedRowIsDead
    <2> SUFFICES ASSUME TurnInv, ChainRevoked, \A n \in Names : seen[n] = Cardinality(LogsOf(n)),
                        \A h \in LogHandlers : handler[h] = Idle
                 PROVE  policyRow = NoRow \/ ~policyRow.live
        BY DEF RevokedRowIsDead, ChainRevoked
    <2>1. seen["PolicyRevoked"] = Cardinality(LogsOf("PolicyRevoked")) /\ seen["PolicyRevoked"] \in Nat
        BY DEF TurnInv, Names
    <2> QED BY <2>1 DEF TurnInv, RevocationToCome, Revoking
<1> QED BY <1>1, <1>2, <1>3, PTL DEF IndexerSpec, HandledInTurn

-------------------------------------------------------------------------------
(* The webhooks.  Where a delivery is says which others may be handled: no     *)
(* delivery that was handled is later than one that is still to come, whether  *)
(* a drain holds it or the queue does; and one drain works at a time.          *)

DrainType == [pc : {"off", "take", "post"}, delivery : Nat, attempt : Nat]

WebhookTyped ==
    /\ hooks \in Seq(Nat) /\ handled \in Seq(Nat) /\ emitted \in Nat
    /\ draining \in BOOLEAN
    /\ drain \in [Drains -> DrainType]

\* A drain works only while `draining` says so, and no other does.
OneDrain ==
    /\ \A d \in Drains : drain[d].pc # "off" => draining
    /\ \A d, e \in Drains : drain[d].pc # "off" /\ drain[e].pc # "off" => d = e

InQueueOrder ==
    /\ \A i, j \in 1..Len(hooks) : i <= j => hooks[i] <= hooks[j]
    /\ \A i \in 1..Len(hooks) : hooks[i] <= emitted

\* x is no later than anything the queue or a drain holds, or emit will add.
BeforeTheRest(x) ==
    /\ x <= emitted
    /\ \A i \in 1..Len(hooks) : x <= hooks[i]

HandledComeFirst ==
    /\ \A j \in 1..Len(handled) : BeforeTheRest(handled[j])
    /\ \A d \in Drains : drain[d].pc = "post" =>
          /\ BeforeTheRest(drain[d].delivery)
          /\ \A j \in 1..Len(handled) : handled[j] <= drain[d].delivery

WebhookInv ==
    /\ WebhookTyped
    /\ OneDrain
    /\ InQueueOrder
    /\ HandledComeFirst
    /\ HandledInOrder

LEMMA WebhookInitInv == WebhookInit => WebhookInv
<1> SUFFICES ASSUME WebhookInit
             PROVE  WebhookInv
    OBVIOUS
<1>1. \A d \in Drains : drain[d].pc = "off"
    BY DEF WebhookInit, Off
<1>2. /\ <<>> \in Seq(Nat) /\ Len(<<>>) = 0
      /\ hooks = <<>> /\ handled = <<>> /\ emitted = 0
    BY DEF WebhookInit
<1>3. WebhookTyped
    <2>1. Off \in DrainType
        BY DEF Off, DrainType
    <2>2. drain \in [Drains -> DrainType]
        BY <2>1 DEF WebhookInit
    <2>3. draining \in BOOLEAN
        BY DEF WebhookInit
    <2> QED BY <1>2, <2>2, <2>3 DEF WebhookTyped
<1> QED BY <1>1, <1>2, <1>3 DEF WebhookInv, OneDrain, InQueueOrder, HandledComeFirst, HandledInOrder

LEMMA emitKeepsInv ==
    ASSUME WebhookInv, emit
    PROVE  WebhookInv'
<1> DEFINE longer == Append(hooks, emitted + 1)
<1> USE DEF WebhookInv, WebhookTyped
<1>1. longer \in Seq(Nat) /\ Len(longer) = Len(hooks) + 1 /\ Len(hooks) \in Nat
    OBVIOUS
<1>2. \A i \in 1..Len(longer) : longer[i] = IF i <= Len(hooks) THEN hooks[i] ELSE emitted + 1
    OBVIOUS
<1>3. PICK k \in {0, 1} : /\ k < Len(longer)
                          /\ Len(hooks') = Len(longer) - k
                          /\ hooks' \in Seq(Nat)
                          /\ \A i \in 1..Len(hooks') : hooks'[i] = longer[i + k]
    <2>1. CASE Len(longer) > MAX_QUEUE_SIZE
        <3>1. hooks' = Tail(longer)
            BY <2>1 DEF emit
        <3>2. longer # <<>>
            <4>1. Len(longer) # 0 /\ Len(<<>>) = 0
                BY <1>1
            <4> QED BY <4>1, Zenon
        <3>3. Len(Tail(longer)) = Len(longer) - 1
            BY <1>1, <3>2
        <3> HIDE DEF longer
        <3>4. Tail(longer) \in Seq(Nat) /\ \A i \in 1..Len(Tail(longer)) : Tail(longer)[i] = longer[i + 1]
            BY <1>1, <3>2
        <3>5. 1 < Len(longer)
            BY <1>1, <2>1, WebhookAssumption
        <3> QED BY <3>1, <3>3, <3>4, <3>5
    <2>2. CASE ~(Len(longer) > MAX_QUEUE_SIZE)
        <3>1. hooks' = longer
            BY <2>2 DEF emit
        <3> HIDE DEF longer
        <3>2. \A i \in 1..Len(longer) : longer[i] = longer[i + 0]
            BY <1>1
        <3> QED BY <1>1, <3>1, <3>2
    <2> QED BY <2>1, <2>2
<1> HIDE DEF longer
<1>4. emitted' = emitted + 1 /\ handled' = handled /\ draining'
    BY DEF emit
<1>5. /\ drain' \in [Drains -> DrainType]
      /\ \A d \in Drains : drain'[d].pc = "post" => drain'[d] = drain[d]
      /\ \A d, e \in Drains : drain'[d].pc # "off" /\ drain'[e].pc # "off" => d = e
    <2>1. CASE ScheduleDrain /\ \E d \in Drains : drain[d] = Off
        <3>1. PICK d \in Drains : drain[d] = Off /\ drain' = [drain EXCEPT ![d] = Taking]
            BY <2>1 DEF emit
        <3>2. \A e \in Drains : drain[e].pc = "off"
            BY <2>1 DEF ScheduleDrain, OneDrain
        <3> QED BY <3>1, <3>2 DEF Taking, DrainType
    <2>2. CASE ~(ScheduleDrain /\ \E d \in Drains : drain[d] = Off)
        <3>1. drain' = drain
            BY <2>2 DEF emit
        <3> QED BY <3>1 DEF OneDrain
    <2> QED BY <2>1, <2>2
<1>s. /\ Len(hooks') \in Nat
      /\ \A i \in 1..Len(hooks') :
            /\ hooks'[i] \in Nat
            /\ \/ i + k \in 1..Len(hooks) /\ hooks'[i] = hooks[i + k]
               \/ i + k = Len(hooks) + 1 /\ hooks'[i] = emitted + 1
    <2>1. Len(hooks') \in Nat /\ \A i \in 1..Len(hooks') : hooks'[i] \in Nat
        BY <1>3
    <2>2. ASSUME NEW i \in 1..Len(hooks')
          PROVE  i + k \in 1..Len(longer) /\ hooks'[i] = longer[i + k]
        BY <1>1, <1>3
    <2>3. \A i \in 1..Len(longer) : i \in 1..Len(hooks) \/ i = Len(hooks) + 1
        BY <1>1
    <2> QED BY <1>2, <2>1, <2>2, <2>3
<1>6. InQueueOrder'
    <2>1. \A i \in 1..Len(hooks') : hooks'[i] <= emitted'
        BY <1>s, <1>4 DEF InQueueOrder
    <2>2. ASSUME NEW i \in 1..Len(hooks'), NEW j \in 1..Len(hooks'), i <= j
          PROVE  hooks'[i] <= hooks'[j]
        <3>1. CASE hooks'[j] = emitted + 1
            BY <2>1, <1>4, <3>1
        <3>2. CASE j + k \in 1..Len(hooks) /\ hooks'[j] = hooks[j + k]
            <4>1. i + k \in Nat /\ j + k \in Nat /\ Len(hooks) \in Nat /\ i + k <= j + k
                BY ONLY <1>1, <1>s, <2>2
            <4>2. /\ i + k \in 1..Len(hooks) \/ i + k = Len(hooks) + 1
                  /\ i + k # Len(hooks) + 1 => hooks'[i] = hooks[i + k]
                BY ONLY <1>s, <2>2
            <4>3. i + k \in 1..Len(hooks) /\ i + k # Len(hooks) + 1
                BY ONLY <3>2, <4>1, <4>2
            <4> QED BY <3>2, <4>1, <4>2, <4>3 DEF InQueueOrder
        <3> QED BY <1>s, <3>1, <3>2
    <2> QED BY <2>1, <2>2 DEF InQueueOrder
<1>7. \A x \in Nat : BeforeTheRest(x) => BeforeTheRest(x)'
    <2>1. ASSUME NEW x \in Nat, BeforeTheRest(x)
          PROVE  BeforeTheRest(x)'
        <3>1. x <= emitted /\ x <= emitted + 1 /\ \A i \in 1..Len(hooks) : x <= hooks[i]
            BY <2>1 DEF BeforeTheRest
        <3>2. \A i \in 1..Len(hooks') : x <= hooks'[i]
            BY ONLY <1>s, <3>1
        <3> QED BY <1>4, <3>1, <3>2 DEF BeforeTheRest
    <2> QED BY <2>1
<1>8. HandledComeFirst'
    <2>1. \A j \in 1..Len(handled) : handled[j] \in Nat
        OBVIOUS
    <2>2. \A d \in Drains : drain[d].delivery \in Nat
        BY DEF DrainType
    <2> QED BY <1>4, <1>5, <1>7, <2>1, <2>2 DEF HandledComeFirst
<1>9. OneDrain' /\ HandledInOrder'
    BY <1>4, <1>5 DEF OneDrain, HandledInOrder
<1>10. draining' \in BOOLEAN /\ emitted' \in Nat /\ handled' \in Seq(Nat)
    BY <1>4
<1>11. WebhookTyped'
    BY ONLY <1>3, <1>5, <1>10 DEF WebhookTyped
<1> QED BY ONLY <1>6, <1>8, <1>9, <1>11 DEF WebhookInv

LEMMA DrainTakesKeepsInv ==
    ASSUME WebhookInv, NEW d \in Drains, DrainTakes(d)
    PROVE  WebhookInv'
<1> USE DEF WebhookInv, WebhookTyped
<1>1. /\ hooks # <<>> /\ hooks' = Tail(hooks) /\ drain[d].pc = "take"
      /\ drain' = [drain EXCEPT ![d] = [pc |-> "post", delivery |-> Head(hooks), attempt |-> 1]]
      /\ emitted' = emitted /\ draining' = draining /\ handled' = handled
    BY DEF DrainTakes
<1>2. /\ Head(hooks) = hooks[1] /\ Head(hooks) \in Nat /\ 1 \in 1..Len(hooks)
      /\ Tail(hooks) \in Seq(Nat) /\ Len(Tail(hooks)) = Len(hooks) - 1 /\ Len(hooks) \in Nat
      /\ \A i \in 1..Len(Tail(hooks)) : Tail(hooks)[i] = hooks[i + 1] /\ i + 1 \in 1..Len(hooks)
    BY <1>1
<1>3. WebhookTyped'
    BY <1>1, <1>2 DEF DrainType
<1>4. OneDrain'
    BY <1>1 DEF OneDrain
<1>5. InQueueOrder'
    BY <1>1, <1>2 DEF InQueueOrder
<1>6. \A x \in Nat : BeforeTheRest(x) => BeforeTheRest(x)' /\ x <= Head(hooks)
    BY <1>1, <1>2 DEF BeforeTheRest
<1>f. PICK first \in Nat : first = Head(hooks)
    BY <1>2
<1>7. BeforeTheRest(first)'
    <2>1. first <= emitted
        BY <1>2, <1>f DEF InQueueOrder
    <2>2. \A i \in 1..Len(hooks) : first <= hooks[i]
        BY <1>2, <1>f DEF InQueueOrder
    <2> QED BY <1>1, <1>2, <2>1, <2>2 DEF BeforeTheRest
<1>8. HandledComeFirst'
    <2>1. \A j \in 1..Len(handled) : handled[j] \in Nat
        OBVIOUS
    <2>2. \A e \in Drains : drain'[e].pc = "post" => e = d
        BY <1>1 DEF OneDrain
    <2>3. drain'[d].delivery = first
        BY <1>1, <1>f
    <2> QED BY <1>1, <1>6, <1>7, <1>f, <2>1, <2>2, <2>3 DEF HandledComeFirst
<1> QED BY <1>1, <1>3, <1>4, <1>5, <1>8 DEF HandledInOrder

\* An answer, in time or late: the delivery is handled once more, or not, and the
\* drain keeps it or goes on.
LEMMA PostKeepsInv ==
    ASSUME WebhookInv, NEW d \in Drains, PostAnswered(d) \/ PostFails(d)
    PROVE  WebhookInv'
<1> USE DEF WebhookInv, WebhookTyped
<1>1. /\ drain[d].pc = "post"
      /\ handled' = Append(handled, drain[d].delivery) \/ handled' = handled
      /\ hooks' = hooks /\ emitted' = emitted /\ draining' = draining
    BY DEF PostAnswered, PostFails
<1>2. drain[d] \in DrainType
    OBVIOUS
<1>3. /\ drain' \in [Drains -> DrainType]
      /\ \A e \in Drains : drain'[e].pc # "off" => drain[e].pc # "off"
      /\ \A e \in Drains : drain'[e].pc = "post" =>
            drain[e].pc = "post" /\ drain'[e].delivery = drain[e].delivery
    <2>1. Taking \in DrainType /\ Taking.pc = "take"
        BY DEF DrainType, Taking
    <2>2. CASE drain' = [drain EXCEPT ![d] = Taking]
        BY <1>1, <2>1, <2>2
    <2>3. CASE drain' = [drain EXCEPT ![d].attempt = @ + 1]
        <3>1. \A e \in Drains : /\ drain'[e] \in DrainType
                                /\ drain'[e].pc = drain[e].pc
                                /\ drain'[e].delivery = drain[e].delivery
            BY <1>2, <2>3 DEF DrainType
        <3> QED BY <2>3, <3>1
    <2> QED BY <2>2, <2>3 DEF PostAnswered, PostFails
<1>4. OneDrain' /\ InQueueOrder'
    BY <1>1, <1>3 DEF OneDrain, InQueueOrder
<1>5. \A x \in Nat : BeforeTheRest(x) => BeforeTheRest(x)'
    BY <1>1 DEF BeforeTheRest
<1>6. drain[d].delivery \in Nat /\ BeforeTheRest(drain[d].delivery)
    BY <1>1, <1>2 DEF DrainType, HandledComeFirst
<1>7. /\ handled' \in Seq(Nat)
      /\ \A j \in 1..Len(handled') : BeforeTheRest(handled'[j]) /\ handled'[j] <= drain[d].delivery
      /\ HandledInOrder'
    <2>1. \A j \in 1..Len(handled) : /\ handled[j] \in Nat
                                     /\ BeforeTheRest(handled[j]) /\ handled[j] <= drain[d].delivery
        BY <1>1 DEF HandledComeFirst
    <2>2. CASE handled' = handled
        BY <2>1, <2>2 DEF HandledInOrder
    <2>3. CASE handled' = Append(handled, drain[d].delivery)
        <3>1. /\ Len(handled') = Len(handled) + 1 /\ Len(handled) \in Nat
              /\ \A j \in 1..Len(handled') :
                    handled'[j] = IF j <= Len(handled) THEN handled[j] ELSE drain[d].delivery
            BY <2>3
        <3>2. handled' \in Seq(Nat)
            BY <1>6, <2>3
        <3>3. \A j \in 1..Len(handled') :
                 BeforeTheRest(handled'[j]) /\ handled'[j] <= drain[d].delivery
            BY <1>6, <2>1, <3>1
        <3>4. ASSUME NEW j \in 1..Len(handled') - 1
              PROVE  handled'[j] <= handled'[j + 1]
            <4>1. j \in 1..Len(handled) /\ j + 1 \in 1..Len(handled') /\ handled'[j] = handled[j]
                BY <3>1
            <4>2. CASE j = Len(handled)
                BY <2>1, <3>1, <4>1, <4>2
            <4>3. CASE j < Len(handled)
                <5>1. j \in 1..Len(handled) - 1 /\ handled'[j + 1] = handled[j + 1]
                    BY <3>1, <4>1, <4>3
                <5> QED BY <4>1, <5>1 DEF HandledInOrder
            <4> QED BY <3>1, <4>1, <4>2, <4>3
        <3> QED BY <3>2, <3>3, <3>4 DEF HandledInOrder
    <2> QED BY <1>1, <2>2, <2>3
<1>8. HandledComeFirst'
    <2>1. \A e \in Drains : drain'[e].pc = "post" => e = d /\ drain'[e].delivery = drain[d].delivery
        BY <1>1, <1>3 DEF OneDrain
    <2>2. \A j \in 1..Len(handled') : handled'[j] \in Nat
        BY <1>7
    <2> QED BY <1>5, <1>6, <1>7, <2>1, <2>2 DEF HandledComeFirst
<1> QED BY <1>1, <1>3, <1>4, <1>7, <1>8

LEMMA WebhookNextInv ==
    ASSUME WebhookInv, [WebhookNext]_webhookVars
    PROVE  WebhookInv'
<1>1. CASE emit
    BY <1>1, emitKeepsInv
<1>2. ASSUME NEW d \in Drains, DrainTakes(d)
      PROVE  WebhookInv'
    BY <1>2, DrainTakesKeepsInv
<1>3. ASSUME NEW d \in Drains, PostAnswered(d) \/ PostFails(d)
      PROVE  WebhookInv'
    BY <1>3, PostKeepsInv
<1>4. ASSUME NEW d \in Drains, DrainReturns(d)
      PROVE  WebhookInv'
    BY <1>4 DEF DrainReturns, WebhookInv, WebhookTyped, DrainType, Off, OneDrain, InQueueOrder,
                HandledComeFirst, BeforeTheRest, HandledInOrder
<1>5. CASE UNCHANGED webhookVars
    BY <1>5 DEF webhookVars, WebhookInv, WebhookTyped, OneDrain, InQueueOrder,
                HandledComeFirst, BeforeTheRest, HandledInOrder
<1> QED BY <1>1, <1>2, <1>3, <1>4, <1>5 DEF WebhookNext, DrainStep

\* Whatever is emitted while a post is awaited, dropped from a full queue or tried
\* again, the recipient handles the deliveries in the order of the events
\* (emit, drain and deliverWithRetry of webhookEmitter.ts).
THEOREM DeliveriesInOrder == WebhookSpec => []HandledInOrder
<1>1. WebhookInv /\ [WebhookNext]_webhookVars => WebhookInv'
    BY WebhookNextInv
<1>2. WebhookInv => HandledInOrder
    BY DEF WebhookInv
<1> QED BY WebhookInitInv, <1>1, <1>2, PTL DEF WebhookSpec

(* A delivery leaves the queue only through a drain, and emit starts one only   *)
(* while `draining` is not set; so the flag must say that a drain is at work, no *)
(* more and no less, or what is queued stays there until the next emit, or for   *)
(* ever.                                                                         *)

\* What is queued has a drain at work on it, one, which posts no delivery more often
\* than ATTEMPTS says.
QueueIsServed ==
    /\ hooks # <<>> => \E d \in Drains : drain[d].pc # "off"
    /\ draining <=> \E d \in Drains : drain[d].pc # "off"
    /\ \A d, e \in Drains : drain[d].pc # "off" /\ drain[e].pc # "off" => d = e
    /\ \A d \in Drains : drain[d].pc = "post" => drain[d].attempt \in 1..ATTEMPTS

OffIsOff == \A d \in Drains : drain[d].pc = "off" => drain[d] = Off

ServeInv == WebhookInv /\ OffIsOff /\ QueueIsServed

LEMMA emitIsServed ==
    ASSUME ServeInv, emit
    PROVE  OffIsOff' /\ QueueIsServed'
<1> USE DEF ServeInv, WebhookInv, WebhookTyped
<1>1. draining' = TRUE
    BY DEF emit
<1>2. /\ OffIsOff'
      /\ \E d \in Drains : drain'[d].pc # "off"
      /\ \A d \in Drains : drain'[d].pc = "post" => drain'[d] = drain[d]
    <2>1. CASE ~draining
        <3>1. \A d \in Drains : drain[d] = Off
            BY <2>1 DEF OneDrain, OffIsOff
        <3>2. PICK d \in Drains : drain' = [drain EXCEPT ![d] = Taking]
            <4>1. \E d \in Drains : drain[d] = Off
                BY <3>1, WebhookAssumption
            <4> QED BY <2>1, <4>1 DEF emit, ScheduleDrain
        <3> QED BY <3>1, <3>2 DEF OffIsOff, Taking, Off
    <2>2. CASE draining
        <3>1. drain' = drain
            BY <2>2 DEF emit, ScheduleDrain
        <3> QED BY <2>2, <3>1 DEF OffIsOff, QueueIsServed
    <2> QED BY <2>1, <2>2
<1>3. OneDrain'
    BY emitKeepsInv
<1> QED BY <1>1, <1>2, <1>3 DEF QueueIsServed, OneDrain

LEMMA DrainStepIsServed ==
    ASSUME ServeInv, NEW d \in Drains, DrainStep(d), OneDrain'
    PROVE  OffIsOff' /\ QueueIsServed'
<1> USE DEF ServeInv, WebhookInv, WebhookTyped
<1>1. /\ drain[d].pc # "off"
      /\ \A e \in Drains : e # d => drain[e].pc = "off" /\ drain'[e] = drain[e]
    BY DEF DrainStep, DrainTakes, DrainReturns, PostAnswered, PostFails, OneDrain
<1>2. draining
    BY <1>1 DEF OneDrain
<1>3. CASE DrainReturns(d)
    <2>1. hooks' = <<>> /\ draining' = FALSE /\ drain'[d] = Off
        BY <1>3 DEF DrainReturns
    <2>2. \A e \in Drains : drain'[e].pc = "off"
        BY <1>1, <2>1 DEF Off
    <2> QED BY <1>1, <2>1, <2>2 DEF QueueIsServed, OffIsOff
<1>4. CASE DrainTakes(d) \/ PostAnswered(d) \/ PostFails(d)
    <2>1. draining' = draining
        BY <1>4 DEF DrainTakes, PostAnswered, PostFails
    <2>2. drain'[d].pc # "off" /\ (drain'[d].pc = "post" => drain'[d].attempt \in 1..ATTEMPTS)
        <3>1. Taking.pc = "take"
            BY DEF Taking
        <3>2. CASE DrainTakes(d)
            BY <3>2, WebhookAssumption DEF DrainTakes
        <3>3. CASE PostAnswered(d)
            BY <3>1, <3>3 DEF PostAnswered
        <3>4. CASE PostFails(d) /\ drain[d].attempt < ATTEMPTS
            <4>1. drain[d].pc = "post" /\ drain[d].attempt \in 1..ATTEMPTS
                BY <3>4 DEF PostFails, QueueIsServed
            <4>2. drain[d] \in DrainType
                OBVIOUS
            <4>3. drain'[d].pc = drain[d].pc /\ drain'[d].attempt = drain[d].attempt + 1
                BY <3>4, <4>2 DEF PostFails, DrainType
            <4> QED BY <3>4, <4>1, <4>3, WebhookAssumption
        <3>5. CASE PostFails(d) /\ ~(drain[d].attempt < ATTEMPTS)
            BY <3>1, <3>5 DEF PostFails
        <3> QED BY <1>4, <3>2, <3>3, <3>4, <3>5
    <2>3. OffIsOff'
        BY <1>1, <2>2 DEF OffIsOff
    <2> QED BY <1>1, <1>2, <2>1, <2>2, <2>3 DEF QueueIsServed, OneDrain
<1> QED BY <1>3, <1>4 DEF DrainStep

LEMMA ServeNextInv ==
    ASSUME ServeInv, [WebhookNext]_webhookVars
    PROVE  ServeInv'
<1>1. WebhookInv' /\ OneDrain'
    BY WebhookNextInv DEF ServeInv, WebhookInv
<1>2. CASE emit
    BY <1>1, <1>2, emitIsServed DEF ServeInv
<1>3. ASSUME NEW d \in Drains, DrainStep(d)
      PROVE  ServeInv'
    BY <1>1, <1>3, DrainStepIsServed DEF ServeInv
<1>4. CASE UNCHANGED webhookVars
    BY <1>1, <1>4 DEF webhookVars, ServeInv, OffIsOff, QueueIsServed
<1> QED BY <1>2, <1>3, <1>4 DEF WebhookNext

\* For a queue of any length and any number of attempts: whatever is queued, also by
\* an emit that comes as the drain ends, has the one drain at work on it, and the
\* drain leaves no delivery after more attempts than it may make
\* (emit, scheduleDrain, drain and deliverWithRetry of webhookEmitter.ts).
THEOREM NothingStaysQueued == WebhookSpec => []QueueIsServed
<1>1. WebhookInit => ServeInv
    BY WebhookInitInv DEF WebhookInit, Off, ServeInv, OffIsOff, QueueIsServed
<1>2. ServeInv /\ [WebhookNext]_webhookVars => ServeInv'
    BY ServeNextInv
<1>3. ServeInv => QueueIsServed
    BY DEF ServeInv
<1> QED BY <1>1, <1>2, <1>3, PTL DEF WebhookSpec

-------------------------------------------------------------------------------
(* The desk.  Nothing depends on who waits for whom: a promise that settles    *)
(* moves the calls that await it from one place in progress to another.  What  *)
(* matters is that no call has a transaction before it is submitted, so that   *)
(* signing again never changes the nonce of one that landed; and that an       *)
(* approved row has the one call that may put it back.                         *)

PcType == {"idle", "planning", "waiting"} \cup Running \cup Returned
TxType == {"none", "pending", "landed", "reverted"}

\* P holds the keys and the calls that a call may name.
CallShape(P) == [pc : PcType, key : P, prior : P, nonce : Nat, tx : TxType]

CallsShaped == \E P : NoCall \in P /\ call \in [Calls -> CallShape(P)]

DeskTyped ==
    /\ CallsShaped
    /\ row \in [Ids -> RowType]
    /\ purpose \in [Calls -> Ids \cup {Strategy, NoCall}]
    /\ swapNonce \in Nat

LiveCall(c) == InProgress(c) \/ call[c].pc = "ok"
Executions(id) == {c \in Calls : purpose[c] = id /\ LiveCall(c)}

ApprovedIsLive ==
    \A id \in Ids : IF row[id].outcome = "approved" THEN \E c \in Calls : Executions(id) = {c}
                    ELSE Executions(id) = {}

CallsHavePurpose == \A c \in Calls : call[c].pc # "idle" => purpose[c] # NoCall

NothingSentYet ==
    \A c \in Calls :
        call[c].pc \in {"idle", "planning", "waiting", "signing", "estimating", "submitting"}
            => call[c].tx = "none"

DeskInv ==
    /\ DeskTyped
    /\ ApprovedIsLive
    /\ CallsHavePurpose
    /\ NothingSentYet
    /\ NonceCountsSwaps

\* One execution, counted.
LEMMA LiveIsOne == ApprovedIsLive => OneExecution
<1> SUFFICES ASSUME ApprovedIsLive, NEW id \in Ids
             PROVE  Cardinality(Executions(id)) = IF row[id].outcome = "approved" THEN 1 ELSE 0
    BY DEF OneExecution, Executions, LiveCall
<1>1. CASE row[id].outcome = "approved"
    <2>1. PICK c \in Calls : Executions(id) = {c}
        BY <1>1 DEF ApprovedIsLive
    <2>2. Cardinality({c}) = 1
        BY FS_Singleton
    <2> QED BY <1>1, <2>1, <2>2
<1>2. CASE row[id].outcome # "approved"
    <2>1. Executions(id) = {}
        BY <1>2 DEF ApprovedIsLive
    <2> QED BY <1>2, <2>1, FS_EmptySet
<1> QED BY <1>1, <1>2

\* A step in which no call starts, fails or changes its purpose, and no row is
\* approved or put back, changes no execution.
LEMMA NoneStarts ==
    ASSUME ApprovedIsLive,
           \A c \in Calls : LiveCall(c)' = LiveCall(c) /\ purpose'[c] = purpose[c],
           \A id \in Ids : (row'[id].outcome = "approved") = (row[id].outcome = "approved")
    PROVE  ApprovedIsLive'
<1>1. \A id \in Ids : Executions(id)' = Executions(id)
    BY DEF Executions
<1> QED BY <1>1 DEF ApprovedIsLive

\* Between its request and its return a call goes from await to await; it sends its
\* transaction at one of them, and signs at another, before.
LEMMA GoesOnStep ==
    ASSUME CallsShaped, swapNonce \in Nat, NEW c \in Calls,
           Queue(c) \/ Enter(c) \/ Sign(c) \/ Estimate(c) \/ Submit(c)
    PROVE  /\ CallsShaped'
           /\ \A d \in Calls : d # c => call'[d] = call[d]
           /\ InProgress(c) /\ InProgress(c)' /\ swapNonce' = swapNonce
           /\ \/ /\ call[c].pc = "submitting" /\ call'[c].pc = "confirming"
                 /\ call'[c].tx = "pending" /\ call'[c].nonce = call[c].nonce
              \/ /\ call[c].pc \in {"planning", "signing", "estimating"}
                 /\ call'[c].tx = call[c].tx /\ call'[c].pc # "confirming"
<1>1. PICK P : NoCall \in P /\ call \in [Calls -> CallShape(P)]
    BY DEF CallsShaped
<1> DEFINE Q == P \cup {inFlight}
<1>2. call \in [Calls -> CallShape(Q)] /\ NoCall \in Q /\ inFlight \in Q
    BY <1>1 DEF CallShape
<1> HIDE DEF Q
<1> USE DEF CallShape, PcType, TxType, Running, Returned, InProgress
<1>3. CASE Queue(c)
    <2>1. call' = [call EXCEPT ![c] = [call[c] EXCEPT !.pc = "waiting", !.prior = inFlight]]
        BY <1>3 DEF Queue
    <2>2. call' \in [Calls -> CallShape(Q)]
        BY <1>2, <2>1
    <2>3. CallsShaped'
        BY ONLY <1>2, <2>2 DEF CallsShaped
    <2>4. /\ call[c].pc = "planning" /\ call'[c].pc = "waiting"
          /\ call'[c].tx = call[c].tx /\ swapNonce' = swapNonce
        BY <1>2, <1>3, <2>1 DEF Queue
    <2>5. \A d \in Calls : d # c => call'[d] = call[d]
        BY ONLY <1>2, <2>1
    <2> QED BY <2>3, <2>4, <2>5
<1>4. CASE Enter(c)
    <2>1. call' \in [Calls -> CallShape(Q)]
        BY <1>2, <1>4 DEF Enter
    <2> QED BY <1>2, <1>4, <2>1 DEF Enter, CallsShaped
<1>5. CASE Sign(c)
    <2>1. call' = [call EXCEPT ![c] = [call[c] EXCEPT !.pc = "estimating", !.nonce = swapNonce]]
        BY <1>5 DEF Sign
    <2>2. call' \in [Calls -> CallShape(Q)]
        BY <1>2, <2>1
    <2> QED BY <1>2, <1>5, <2>1, <2>2 DEF Sign, CallsShaped
<1>6. CASE Estimate(c)
    <2>1. call' \in [Calls -> CallShape(Q)]
        BY <1>2, <1>6 DEF Estimate
    <2> QED BY <1>2, <1>6, <2>1 DEF Estimate, CallsShaped
<1>7. CASE Submit(c)
    <2>1. call' = [call EXCEPT ![c] = [call[c] EXCEPT !.pc = "confirming", !.tx = "pending"]]
        BY <1>7 DEF Submit
    <2>2. call' \in [Calls -> CallShape(Q)]
        BY <1>2, <2>1
    <2> QED BY <1>2, <1>7, <2>1, <2>2 DEF Submit, CallsShaped
<1> QED BY <1>3, <1>4, <1>5, <1>6, <1>7

\* A call returns; those that await its promise go on.
LEMMA ReturnStep ==
    ASSUME CallsShaped, NEW c \in Calls,
           CallFails(c) \/ CallSucceeds(c)
    PROVE  /\ CallsShaped'
           /\ \A d \in Calls : /\ call'[d].tx = call[d].tx /\ call'[d].nonce = call[d].nonce
                               /\ d # c => \/ call'[d].pc = call[d].pc
                                           \/ call[d].pc = "waiting" /\ call'[d].pc = "signing"
           /\ InProgress(c) /\ swapNonce' = swapNonce
           /\ CallFails(c) => call'[c].pc = "failed"
           /\ CallSucceeds(c) => call'[c].pc = "ok" /\ call[c].tx = "landed"
<1>1. PICK P : NoCall \in P /\ call \in [Calls -> CallShape(P)]
    BY DEF CallsShaped
<1> USE DEF CallShape, PcType, TxType, Running, Returned, InProgress
<1>2. ASSUME NEW result \in {"ok", "failed"}, Settle(c, result)
      PROVE  /\ call' \in [Calls -> CallShape(P)]
             /\ \A d \in Calls : /\ call'[d].tx = call[d].tx /\ call'[d].nonce = call[d].nonce
                                 /\ d # c => \/ call'[d].pc = call[d].pc
                                             \/ call[d].pc = "waiting" /\ call'[d].pc = "signing"
             /\ call'[c].pc = result
    <2> DEFINE self == [call[c] EXCEPT !.pc = result]
               woken(d) == [call[d] EXCEPT !.pc = "signing", !.prior = NoCall]
    <2>1. self \in CallShape(P) /\ self.pc = result /\ self.tx = call[c].tx /\ self.nonce = call[c].nonce
        BY <1>1
    <2>2. \A d \in Calls : /\ woken(d) \in CallShape(P) /\ woken(d).pc = "signing"
                           /\ woken(d).tx = call[d].tx /\ woken(d).nonce = call[d].nonce
        BY <1>1
    <2>3. call' = [d \in Calls |-> IF d = c THEN self
                                   ELSE IF call[d].pc = "waiting" /\ call[d].prior = c THEN woken(d)
                                   ELSE call[d]]
        BY <1>2 DEF Settle
    <2> HIDE DEF self, woken
    <2>4. call' \in [Calls -> CallShape(P)]
        BY <1>1, <2>1, <2>2, <2>3
    <2> QED BY <2>1, <2>2, <2>3, <2>4
<1>3. CASE PlanFails(c) \/ Refuse(c)
    <2>1. call[c].pc = "planning" /\ swapNonce' = swapNonce /\ call' = [call EXCEPT ![c].pc = "failed"]
        BY <1>3 DEF PlanFails, Refuse
    <2>2. /\ call' \in [Calls -> CallShape(P)] /\ call'[c].pc = "failed"
          /\ \A d \in Calls : /\ call'[d].tx = call[d].tx /\ call'[d].nonce = call[d].nonce
                              /\ d # c => call'[d].pc = call[d].pc
        BY <1>1, <2>1
    <2>3. ~CallSucceeds(c)
        BY <2>1 DEF CallSucceeds, Confirm
    <2> QED BY <1>1, <2>1, <2>2, <2>3 DEF CallsShaped
<1>4. CASE Abort(c) \/ Reverted(c) \/ TimesOut(c)
    <2>1. Settle(c, "failed") /\ swapNonce' = swapNonce
        BY <1>4 DEF Abort, Reverted, TimesOut
    <2>2. InProgress(c)
        BY <1>4 DEF Abort, Reverted, TimesOut
    <2>3. ~CallSucceeds(c)
        BY <1>2, <2>1 DEF CallSucceeds, Confirm
    <2> QED BY <1>1, <1>2, <2>1, <2>2, <2>3 DEF CallsShaped
<1>5. CASE CallSucceeds(c)
    <2>1. Settle(c, "ok") /\ swapNonce' = swapNonce /\ call[c].tx = "landed" /\ call[c].pc = "confirming"
        BY <1>5 DEF CallSucceeds, Confirm
    <2>2. ~CallFails(c)
        <3>1. call'[c].pc = "ok"
            BY <1>2, <2>1
        <3>2. ~Abort(c) /\ ~Reverted(c) /\ ~TimesOut(c)
            BY <1>2, <3>1 DEF Abort, Reverted, TimesOut
        <3> QED BY <2>1, <3>2 DEF CallFails, PlanFails, Refuse
    <2> QED BY <1>1, <1>2, <1>5, <2>1, <2>2 DEF CallsShaped
<1> QED BY <1>3, <1>4, <1>5 DEF CallFails

\* A step of one call that sends at most its own transaction changes no nonce of a
\* swap that landed.
LEMMA NonceStays ==
    ASSUME NonceCountsSwaps, swapNonce' = swapNonce,
           \A c \in Calls : /\ (call'[c].tx = "landed") = (call[c].tx = "landed")
                            /\ call[c].tx = "landed" => call'[c].nonce = call[c].nonce
                            /\ call'[c].pc = "ok" => call[c].pc = "ok" \/ call[c].tx = "landed"
    PROVE  NonceCountsSwaps'
<1> DEFINE landed == {c \in Calls : call[c].tx = "landed"}
<1>1. landed' = landed
    OBVIOUS
<1>2. {call'[c].nonce : c \in landed'} = {call[c].nonce : c \in landed}
    BY <1>1
<1> QED BY <1>1, <1>2 DEF NonceCountsSwaps

LEMMA RequestKeepsInv ==
    ASSUME DeskInv, NEW c \in Calls, NEW id \in Ids \cup {Strategy},
           Request(c, seq), purpose' = [purpose EXCEPT ![c] = id],
           IF id = Strategy THEN row' = row
           ELSE Answerable(id) /\ row' = Consumed(id, "approved")
    PROVE  DeskInv'
<1> USE DEF DeskInv, DeskTyped
<1>1. PICK P : NoCall \in P /\ call \in [Calls -> CallShape(P)]
    BY DEF CallsShaped
<1> DEFINE Q == P \cup {seq}
           w == [call[c] EXCEPT !.pc = "planning", !.key = seq]
<1>2. call \in [Calls -> CallShape(Q)] /\ NoCall \in Q /\ seq \in Q
    BY <1>1 DEF CallShape
<1> HIDE DEF Q
<1>3. w \in CallShape(Q) /\ w.pc = "planning" /\ w.tx = call[c].tx /\ w.nonce = call[c].nonce
    BY <1>2 DEF CallShape, PcType
<1>4. call[c].pc = "idle" /\ call' = [call EXCEPT ![c] = w] /\ swapNonce' = swapNonce
    BY DEF Request
<1> HIDE DEF w
<1>5. /\ call' \in [Calls -> CallShape(Q)]
      /\ \A d \in Calls : /\ call'[d].tx = call[d].tx /\ call'[d].nonce = call[d].nonce
                          /\ d # c => call'[d].pc = call[d].pc
      /\ call'[c].pc = "planning"
    BY <1>2, <1>3, <1>4
<1>6. CallsShaped'
    BY <1>2, <1>5 DEF CallsShaped
<1>7. row' \in [Ids -> RowType]
    <2>1. CASE id = Strategy
        BY <2>1
    <2>2. CASE id # Strategy
        <3>1. row' = [row EXCEPT ![id] = [row[id] EXCEPT !.outcome = "approved", !.timer = FALSE]]
            BY <2>2 DEF Consumed
        <3> QED BY <2>2, <3>1 DEF RowType, Outcomes
    <2> QED BY <2>1, <2>2
<1>8. NonceCountsSwaps'
    BY <1>4, <1>5, NonceStays
<1>9. NothingSentYet'
    BY <1>4, <1>5 DEF NothingSentYet
<1>10. CallsHavePurpose'
    <2>1. id # NoCall
        BY DeskAssumption
    <2> QED BY <1>4, <1>5, <2>1 DEF CallsHavePurpose
<1>11. ApprovedIsLive'
    <2>1. ~LiveCall(c) /\ LiveCall(c)' /\ purpose'[c] = id
        BY <1>4, <1>5 DEF LiveCall, InProgress, Returned
    <2>2. \A d \in Calls : d # c => LiveCall(d)' = LiveCall(d) /\ purpose'[d] = purpose[d]
        BY <1>5 DEF LiveCall, InProgress
    <2>3. ASSUME NEW e \in Ids, e # id
          PROVE  Executions(e)' = Executions(e) /\ row'[e].outcome = row[e].outcome
        <3>1. Executions(e)' = Executions(e)
            BY <2>1, <2>2, <2>3 DEF Executions
        <3>2. row'[e].outcome = row[e].outcome
            BY <2>3 DEF Consumed
        <3> QED BY <3>1, <3>2
    <2>4. ASSUME id \in Ids
          PROVE  Executions(id)' = {c} /\ row'[id].outcome = "approved"
        <3>1. row[id].outcome = "pending" /\ row' = Consumed(id, "approved")
            BY <2>4, DeskAssumption DEF Answerable
        <3>2. Executions(id) = {}
            BY <2>4, <3>1 DEF ApprovedIsLive
        <3>3. Executions(id)' = {c}
            BY <2>1, <2>2, <3>2 DEF Executions
        <3>4. row'[id].outcome = "approved"
            BY <2>4, <3>1 DEF Consumed, RowType
        <3> QED BY <3>3, <3>4
    <2>5. ASSUME NEW e \in Ids
          PROVE  IF row'[e].outcome = "approved" THEN \E d \in Calls : Executions(e)' = {d}
                 ELSE Executions(e)' = {}
        <3>1. CASE e = id
            BY <2>4, <3>1
        <3>2. CASE e # id
            BY <2>3, <3>2 DEF ApprovedIsLive
        <3> QED BY <3>1, <3>2
    <2> QED BY <2>5 DEF ApprovedIsLive
<1>12. purpose' \in [Calls -> Ids \cup {Strategy, NoCall}] /\ swapNonce' \in Nat
    BY <1>4
<1> QED BY ONLY <1>6, <1>7, <1>8, <1>9, <1>10, <1>11, <1>12 DEF DeskInv, DeskTyped

LEMMA CallGoesOnKeepsInv ==
    ASSUME DeskInv, NEW c \in Calls, CallGoesOn(c)
    PROVE  DeskInv'
<1> USE DEF DeskInv, DeskTyped
<1>1. Queue(c) \/ Enter(c) \/ Sign(c) \/ Estimate(c) \/ Submit(c)
    BY DEF CallGoesOn
<1>2. row' = row /\ purpose' = purpose
    BY DEF CallGoesOn, storeVars
<1> DEFINE sends == /\ call[c].pc = "submitting" /\ call'[c].pc = "confirming"
                    /\ call'[c].tx = "pending" /\ call'[c].nonce = call[c].nonce
           quiet == /\ call[c].pc \in {"planning", "signing", "estimating"}
                    /\ call'[c].tx = call[c].tx /\ call'[c].pc # "confirming"
<1>3. /\ CallsShaped'
      /\ \A d \in Calls : d # c => call'[d] = call[d]
      /\ InProgress(c) /\ InProgress(c)' /\ swapNonce' = swapNonce
      /\ sends \/ quiet
    BY <1>1, GoesOnStep
<1>4. call[c].tx = "none" /\ call'[c].tx # "landed"
    BY <1>3 DEF NothingSentYet
<1>5. NonceCountsSwaps'
    <2>1. call'[c].pc # "ok"
        BY <1>3 DEF InProgress, Returned
    <2>2. \A d \in Calls : /\ (call'[d].tx = "landed") = (call[d].tx = "landed")
                           /\ call[d].tx = "landed" => call'[d].nonce = call[d].nonce
                           /\ call'[d].pc = "ok" => call[d].pc = "ok" \/ call[d].tx = "landed"
        BY <1>3, <1>4, <2>1
    <2> QED BY <1>3, <2>2, NonceStays
<1>6. NothingSentYet'
    BY <1>3, <1>4 DEF NothingSentYet
<1>7. CallsHavePurpose'
    BY <1>2, <1>3 DEF CallsHavePurpose, InProgress
<1>8. ApprovedIsLive'
    <2>1. \A d \in Calls : LiveCall(d)' = LiveCall(d)
        BY <1>3 DEF LiveCall, InProgress
    <2> QED BY <1>2, <2>1, NoneStarts
<1> QED BY <1>2, <1>3, <1>5, <1>6, <1>7, <1>8

LEMMA CallReturnsKeepsInv ==
    ASSUME DeskInv, NEW c \in Calls, CallFails(c) \/ CallSucceeds(c)
    PROVE  DeskInv'
<1> USE DEF DeskInv, DeskTyped
<1>1. /\ CallsShaped'
      /\ \A d \in Calls : /\ call'[d].tx = call[d].tx /\ call'[d].nonce = call[d].nonce
                          /\ d # c => \/ call'[d].pc = call[d].pc
                                      \/ call[d].pc = "waiting" /\ call'[d].pc = "signing"
      /\ InProgress(c) /\ swapNonce' = swapNonce
      /\ CallFails(c) => call'[c].pc = "failed"
      /\ CallSucceeds(c) => call'[c].pc = "ok" /\ call[c].tx = "landed"
    BY ReturnStep
<1>2. purpose' = purpose
    BY DEF CallFails, CallSucceeds
<1>3. NonceCountsSwaps'
    <2>1. \A d \in Calls : call'[d].pc = "ok" => call[d].pc = "ok" \/ call[d].tx = "landed"
        BY <1>1
    <2> QED BY <1>1, <2>1, NonceStays
<1>4. NothingSentYet'
    BY <1>1 DEF NothingSentYet
<1>5. CallsHavePurpose'
    BY <1>1, <1>2 DEF CallsHavePurpose, InProgress
<1>6. \A d \in Calls : d # c => LiveCall(d)' = LiveCall(d)
    BY <1>1 DEF LiveCall, InProgress, Returned
<1>7. row' \in [Ids -> RowType] /\ ApprovedIsLive'
    <2>1. CASE CallSucceeds(c)
        <3>1. row' = row
            BY <2>1 DEF CallSucceeds, storeVars
        <3>2. LiveCall(c)' = LiveCall(c)
            BY <1>1, <2>1 DEF LiveCall
        <3> QED BY <1>2, <1>6, <3>1, <3>2, NoneStarts
    <2>2. CASE CallFails(c) /\ purpose[c] = Strategy
        <3>1. row' = row
            BY <2>2 DEF CallFails
        <3>2. \A id \in Ids : Executions(id)' = Executions(id)
            BY <1>2, <1>6, <2>2, DeskAssumption DEF Executions
        <3> QED BY <3>1, <3>2 DEF ApprovedIsLive
    <2>3. CASE CallFails(c) /\ purpose[c] # Strategy
        <3>1. PICK id \in Ids : id = purpose[c]
            <4>1. purpose[c] # NoCall
                BY <1>1 DEF CallsHavePurpose, InProgress
            <4> QED BY <2>3, <4>1
        <3>2. row' = [row EXCEPT ![id].outcome = "pending"]
            BY <2>3, <3>1 DEF CallFails
        <3>3. row' \in [Ids -> RowType] /\ row'[id].outcome = "pending"
            BY <3>2 DEF RowType, Outcomes
        <3>4. LiveCall(c) /\ ~LiveCall(c)'
            BY <1>1, <2>3 DEF LiveCall, InProgress, Returned
        <3>5. Executions(id)' = {}
            <4>1. c \in Executions(id)
                BY <3>1, <3>4 DEF Executions
            <4>2. Executions(id) = {c}
                BY <4>1 DEF ApprovedIsLive
            <4> QED BY <1>2, <1>6, <3>4, <4>2 DEF Executions
        <3>6. ASSUME NEW e \in Ids, e # id
              PROVE  Executions(e)' = Executions(e) /\ row'[e] = row[e]
            BY <1>2, <1>6, <3>1, <3>2, <3>6 DEF Executions
        <3>7. ApprovedIsLive'
            BY <3>3, <3>5, <3>6 DEF ApprovedIsLive
        <3> QED BY <3>3, <3>7
    <2> QED BY <2>1, <2>2, <2>3
<1> QED BY <1>1, <1>2, <1>3, <1>4, <1>5, <1>7

\* The chain settles what was sent.
LEMMA ChainStepKeepsInv ==
    ASSUME DeskInv, NEW c \in Calls, ChainStep(c)
    PROVE  DeskInv'
<1> USE DEF DeskInv, DeskTyped
<1>1. PICK P : NoCall \in P /\ call \in [Calls -> CallShape(P)]
    BY DEF CallsShaped
<1>2. row' = row /\ purpose' = purpose /\ call[c].tx = "pending"
    BY DEF ChainStep, Land, Revert, storeVars
<1>3. PICK t \in {"landed", "reverted"} : call' = [call EXCEPT ![c].tx = t]
    BY DEF ChainStep, Land, Revert
<1>4. /\ call' \in [Calls -> CallShape(P)]
      /\ \A d \in Calls : /\ call'[d].pc = call[d].pc /\ call'[d].nonce = call[d].nonce
                          /\ d # c => call'[d].tx = call[d].tx
      /\ call'[c].tx = t
    BY <1>1, <1>3 DEF CallShape, TxType
<1>5. CallsShaped' /\ swapNonce' \in Nat
    BY <1>1, <1>4 DEF CallsShaped, ChainStep, Land, Revert
<1>6. NothingSentYet' /\ CallsHavePurpose'
    BY <1>2, <1>4 DEF NothingSentYet, CallsHavePurpose
<1>7. ApprovedIsLive'
    <2>1. \A d \in Calls : LiveCall(d)' = LiveCall(d)
        BY <1>4 DEF LiveCall, InProgress
    <2> QED BY <1>2, <2>1, NoneStarts
<1>8. NonceCountsSwaps'
    <2> DEFINE landed == {d \in Calls : call[d].tx = "landed"}
    <2>1. CASE Revert(c)
        <3>1. call'[c].tx = "reverted" /\ swapNonce' = swapNonce
            BY <1>1, <2>1 DEF Revert, CallShape
        <3> QED BY <1>2, <1>4, <3>1, NonceStays DEF NonceCountsSwaps
    <2>2. CASE Land(c)
        <3>1. /\ call'[c].tx = "landed" /\ call[c].nonce = swapNonce
              /\ swapNonce' = swapNonce + 1
            BY <1>1, <2>2 DEF Land, CallShape
        <3>2. landed' = landed \cup {c} /\ c \notin landed
            BY <1>2, <1>4, <3>1
        <3>3. IsFiniteSet(landed)
            BY ExecutorAssumption, FS_Subset
        <3>4. Cardinality(landed') = swapNonce'
            <4>1. Cardinality(landed) = swapNonce
                BY DEF NonceCountsSwaps
            <4>2. Cardinality(landed \cup {c}) = Cardinality(landed) + 1
                BY ONLY <3>2, <3>3, FS_AddElement
            <4> QED BY <3>1, <3>2, <4>1, <4>2
        <3>5. {call'[d].nonce : d \in landed'} = {call[d].nonce : d \in landed} \cup {swapNonce}
            BY <1>4, <3>1, <3>2
        <3>6. (0..(swapNonce - 1)) \cup {swapNonce} = 0..(swapNonce' - 1)
            BY <3>1
        <3>7. \A d \in Calls : call'[d].pc = "ok" => d \in landed'
            BY <1>4, <3>2 DEF NonceCountsSwaps
        <3> QED BY <3>4, <3>5, <3>6, <3>7 DEF NonceCountsSwaps
    <2> QED BY <2>1, <2>2 DEF ChainStep
<1> QED BY <1>2, <1>5, <1>6, <1>7, <1>8

\* Only the approve route and the end of a call touch what is approved.
LEMMA StoreStepKeepsInv ==
    ASSUME DeskInv, NEW id \in Ids,
           Propose(id) \/ Clock(id) \/ ApproveLate(id) \/ SkipProposal(id)
    PROVE  DeskInv'
<1> USE DEF DeskInv, DeskTyped
<1>1. call' = call /\ purpose' = purpose /\ swapNonce' = swapNonce
    BY DEF Propose, Clock, ApproveLate, SkipProposal, executorVars
<1>2. /\ row' \in [Ids -> RowType]
      /\ \A e \in Ids : (row'[e].outcome = "approved") = (row[e].outcome = "approved")
    <2>1. CASE Propose(id)
        <3> DEFINE full == Len(bucket) >= PROPOSAL_CAP_PER_TOKEN
                   added == [outcome |-> "pending", timer |-> TRUE, due |-> FALSE]
        <3>1. row[id].outcome = "none"
            BY <2>1 DEF Propose, AddProposal
        <3>2. row' = [e \in Ids |-> IF e = id THEN added
                                    ELSE IF full /\ e = Head(bucket)
                                    THEN [row[e] EXCEPT !.timer = FALSE]
                                    ELSE row[e]]
            BY <2>1 DEF Propose, AddProposal
        <3>3. added \in RowType /\ added.outcome = "pending"
            BY DEF RowType, Outcomes
        <3>4. \A e \in Ids : /\ [row[e] EXCEPT !.timer = FALSE] \in RowType
                             /\ [row[e] EXCEPT !.timer = FALSE].outcome = row[e].outcome
            BY DEF RowType
        <3> HIDE DEF added, full
        <3> QED BY <3>1, <3>2, <3>3, <3>4
    <2>2. CASE Clock(id) /\ ComesDue(id)
        <3>1. row' = [row EXCEPT ![id].due = TRUE]
            BY <2>2 DEF ComesDue
        <3> QED BY <3>1 DEF RowType
    <2>3. CASE Clock(id) /\ TimerFires(id)
        <3> DEFINE w == [row[id] EXCEPT !.timer = FALSE,
                                        !.outcome = IF Stored(id) /\ @ = "pending" THEN "expired" ELSE @]
        <3>1. row' = [row EXCEPT ![id] = w]
            BY <2>3 DEF TimerFires
        <3>2. w \in RowType /\ (w.outcome = "approved") = (row[id].outcome = "approved")
            BY DEF RowType, Outcomes
        <3> HIDE DEF w
        <3> QED BY <3>1, <3>2
    <2>4. CASE ApproveLate(id) \/ SkipProposal(id)
        <3>1. PICK o \in {"expired", "skipped"} : row' = Consumed(id, o)
            BY <2>4 DEF ApproveLate, SkipProposal, AnswerLate, Skip
        <3>2. row[id].outcome = "pending"
            BY <2>4 DEF ApproveLate, SkipProposal, AnswerLate, Skip, Answerable
        <3> DEFINE w == [row[id] EXCEPT !.outcome = o, !.timer = FALSE]
        <3>3. row' = [row EXCEPT ![id] = w]
            BY <3>1 DEF Consumed
        <3>4. w \in RowType /\ w.outcome = o
            BY DEF RowType, Outcomes
        <3> HIDE DEF w
        <3> QED BY <3>2, <3>3, <3>4
    <2> QED BY <2>1, <2>2, <2>3, <2>4 DEF Clock
<1>3. ApprovedIsLive'
    <2>1. \A c \in Calls : LiveCall(c)' = LiveCall(c)
        BY <1>1 DEF LiveCall, InProgress
    <2> QED BY <1>1, <1>2, <2>1, NoneStarts
<1> QED BY <1>1, <1>2, <1>3 DEF CallsShaped, NonceCountsSwaps, NothingSentYet, CallsHavePurpose

LEMMA DeskInitInv == DeskInit => DeskInv
<1> SUFFICES ASSUME DeskInit
             PROVE  DeskInv
    OBVIOUS
<1> USE DEF DeskInit, ExecutorInit, StoreInit, Unmade
<1>1. call \in [Calls -> CallShape({NoCall})]
    BY DEF CallShape, PcType, TxType
<1>2. DeskTyped
    BY <1>1 DEF DeskTyped, CallsShaped, RowType, Outcomes
<1>3. \A c \in Calls : call[c].pc = "idle" /\ call[c].tx = "none"
    OBVIOUS
<1>4. ApprovedIsLive
    BY <1>3 DEF ApprovedIsLive, Executions, LiveCall, InProgress
<1>5. NonceCountsSwaps
    <2>1. {c \in Calls : call[c].tx = "landed"} = {}
        BY <1>3
    <2>2. 0..(0 - 1) = {} /\ Cardinality({}) = 0
        BY FS_EmptySet
    <2> QED BY <1>3, <2>1, <2>2 DEF NonceCountsSwaps
<1> QED BY <1>2, <1>3, <1>4, <1>5 DEF DeskInv, CallsHavePurpose, NothingSentYet

LEMMA DeskNextInv ==
    ASSUME DeskInv, [DeskNext]_deskVars
    PROVE  DeskInv'
<1>1. ASSUME NEW id \in Ids, Propose(id) \/ Clock(id) \/ ApproveLate(id) \/ SkipProposal(id)
      PROVE  DeskInv'
    BY <1>1, StoreStepKeepsInv
<1>2. ASSUME NEW id \in Ids, NEW c \in Calls, Approve(id, c)
      PROVE  DeskInv'
    <2>1. id # Strategy /\ id \in Ids \cup {Strategy}
        BY DeskAssumption
    <2> QED BY <1>2, <2>1, RequestKeepsInv DEF Approve
<1>3. ASSUME NEW c \in Calls, StrategySwap(c)
      PROVE  DeskInv'
    BY <1>3, RequestKeepsInv DEF StrategySwap, storeVars
<1>4. ASSUME NEW c \in Calls, CallStep(c)
      PROVE  DeskInv'
    BY <1>4, CallGoesOnKeepsInv, CallReturnsKeepsInv DEF CallStep
<1>5. ASSUME NEW c \in Calls, ChainStep(c)
      PROVE  DeskInv'
    BY <1>5, ChainStepKeepsInv
<1> DEFINE still == call' = call /\ row' = row /\ purpose' = purpose /\ swapNonce' = swapNonce
<1>6. ASSUME still
      PROVE  DeskInv'
    BY <1>6 DEF DeskInv, DeskTyped, CallsShaped, ApprovedIsLive, Executions, LiveCall, InProgress,
                CallsHavePurpose, NothingSentYet, NonceCountsSwaps
<1>7. ASSUME NEW k \in Keys, KeyExpires(k)
      PROVE  still
    BY <1>7 DEF KeyExpires, KeyLapses, storeVars
<1>8. UNCHANGED deskVars => still
    BY DEF deskVars, executorVars, storeVars
<1> QED BY <1>1, <1>2, <1>3, <1>4, <1>5, <1>6, <1>7, <1>8 DEF DeskNext

\* The desk's promises are of its steps and need none of their fairness.
LEMMA DeskAlwaysInv ==
    DeskInit /\ [][DeskNext]_deskVars => []DeskInv /\ []OneExecution /\ []NonceCountsSwaps
<1>1. DeskInv /\ [DeskNext]_deskVars => DeskInv'
    BY DeskNextInv
<1>2. DeskInv => OneExecution
    BY LiveIsOne DEF DeskInv
<1>3. DeskInv => NonceCountsSwaps
    BY DEF DeskInv
<1> QED BY DeskInitInv, <1>1, <1>2, <1>3, PTL

\* For any number of proposals, clicks and calls: an approved proposal has exactly
\* one execution, in progress or successful, and any other has none
\* (the approve route's reservation and its way back, executeApprovedAction).
THEOREM ProposalsRunOnce == DeskSpec => []OneExecution
BY DeskAlwaysInv, PTL DEF DeskSpec

\* However many calls sign side by side, as many swaps land as the contract's nonce
\* counts, one for each, and no call reports success for another
\* (executeRhChainSwap's signature, estimate, submission and receipt).
THEOREM NoncesCountSwaps == DeskSpec => []NonceCountsSwaps
BY DeskAlwaysInv, PTL DEF DeskSpec

-------------------------------------------------------------------------------
(* The slot.  A call that queues waits for the promise of another, and would    *)
(* wait for ever for one that has settled.  The slot only ever holds a worker    *)
(* that runs, whoever waits on a promise is resumed when it settles, and the     *)
(* one resumed last is the one that the slot then holds; and no step takes a     *)
(* call back to an await it has left.  That every call returns follows with the  *)
(* fairness of its steps.                                                        *)

\* The slot holds a call inside runExecution, or nothing.
SlotIsBusy == inFlight # NoCall => inFlight \in Calls /\ call[inFlight].pc \in Running

\* A call that waits does so for a promise that is still to settle, and is heard.
WaitersAreHeard ==
    \A c \in Calls : call[c].pc = "waiting" =>
        /\ call[c].prior \in Calls
        /\ call[call[c].prior].pc \in Running
        /\ lastWaiter[call[c].prior] # NoCall

LastWaiterWaits ==
    \A p \in Calls : lastWaiter[p] # NoCall =>
        call[lastWaiter[p]].pc = "waiting" /\ call[lastWaiter[p]].prior = p

NobodyWaitsInVain == SlotIsBusy /\ WaitersAreHeard

QueueInv ==
    /\ lastWaiter \in [Calls -> Calls \cup {NoCall}]
    /\ SlotIsBusy
    /\ WaitersAreHeard
    /\ LastWaiterWaits

\* How far a call has come, from await to await.
Stage(pc) ==
    IF pc = "idle" THEN 0
    ELSE IF pc = "planning" THEN 1
    ELSE IF pc = "waiting" THEN 2
    ELSE IF pc = "signing" THEN 3
    ELSE IF pc = "estimating" THEN 4
    ELSE IF pc = "submitting" THEN 5
    ELSE IF pc = "confirming" THEN 6
    ELSE 7

\* No step takes a call back, and each of its own takes it on.
CallsGoOn ==
    \A c \in Calls : /\ Stage(call[c].pc) <= Stage(call'[c].pc)
                     /\ CallStep(c) => Stage(call[c].pc) < Stage(call'[c].pc)

CallsGoForward == [][CallsGoOn]_deskVars

\* A step of one call that neither begins to wait nor leaves runExecution.
LEMMA OneMovesKeepsQueue ==
    ASSUME QueueInv, NEW c \in Calls,
           call[c].pc # "waiting", call'[c].pc # "waiting",
           call[c].pc \in Running => call'[c].pc \in Running,
           \A d \in Calls : d # c => call'[d].pc = call[d].pc /\ call'[d].prior = call[d].prior,
           lastWaiter' = lastWaiter,
           inFlight' = inFlight \/ (inFlight' = c /\ call'[c].pc \in Running)
    PROVE  QueueInv'
<1> USE ExecutorAssumption DEF QueueInv
<1>1. SlotIsBusy'
    BY DEF SlotIsBusy
<1>2. WaitersAreHeard'
    <2> SUFFICES ASSUME NEW d \in Calls, call'[d].pc = "waiting"
                 PROVE  /\ call'[d].prior \in Calls
                        /\ call'[call'[d].prior].pc \in Running
                        /\ lastWaiter'[call'[d].prior] # NoCall
        BY DEF WaitersAreHeard
    <2>1. d # c /\ call[d].pc = "waiting" /\ call'[d].prior = call[d].prior
        OBVIOUS
    <2>2. /\ call[d].prior \in Calls /\ call[call[d].prior].pc \in Running
          /\ lastWaiter[call[d].prior] # NoCall
        BY <2>1 DEF WaitersAreHeard
    <2> QED BY <2>1, <2>2
<1>3. LastWaiterWaits'
    <2> SUFFICES ASSUME NEW p \in Calls, lastWaiter[p] # NoCall
                 PROVE  call'[lastWaiter[p]].pc = "waiting" /\ call'[lastWaiter[p]].prior = p
        BY DEF LastWaiterWaits
    <2>1. lastWaiter[p] \in Calls /\ call[lastWaiter[p]].pc = "waiting" /\ call[lastWaiter[p]].prior = p
        BY DEF LastWaiterWaits
    <2> QED BY <2>1
<1> QED BY <1>1, <1>2, <1>3

\* A call queues behind the worker in the slot, which runs.
LEMMA QueueKeepsQueue ==
    ASSUME QueueInv, CallsShaped, NEW c \in Calls, Queue(c)
    PROVE  QueueInv'
<1> USE ExecutorAssumption DEF QueueInv
<1> DEFINE p == inFlight
<1>1. PICK P : NoCall \in P /\ call \in [Calls -> CallShape(P)]
    BY DEF CallsShaped
<1>2. p \in Calls /\ call[p].pc \in Running /\ p # NoCall /\ call[c].pc = "planning" /\ p # c
    BY DEF Queue, SlotIsBusy, Running
<1>3. /\ call'[c].pc = "waiting" /\ call'[c].prior = p
      /\ \A d \in Calls : d # c => call'[d] = call[d]
    BY <1>1, <1>2 DEF Queue, CallShape
<1>4. /\ lastWaiter' \in [Calls -> Calls \cup {NoCall}] /\ lastWaiter'[p] = c
      /\ \A q \in Calls : q # p => lastWaiter'[q] = lastWaiter[q]
      /\ inFlight' = p
    BY <1>2 DEF Queue
<1>5. SlotIsBusy'
    BY <1>2, <1>3, <1>4 DEF SlotIsBusy
<1>6. WaitersAreHeard'
    <2> SUFFICES ASSUME NEW d \in Calls, call'[d].pc = "waiting"
                 PROVE  /\ call'[d].prior \in Calls
                        /\ call'[call'[d].prior].pc \in Running
                        /\ lastWaiter'[call'[d].prior] # NoCall
        BY DEF WaitersAreHeard
    <2>1. CASE d = c
        BY <1>2, <1>3, <1>4, <2>1
    <2>2. CASE d # c
        <3> DEFINE q == call[d].prior
        <3>1. call'[d] = call[d]
            BY <1>3, <2>2
        <3>2. q \in Calls /\ call[q].pc \in Running /\ lastWaiter[q] # NoCall
            BY <3>1 DEF WaitersAreHeard
        <3>3. q # c
            BY <1>2, <3>2 DEF Running
        <3>4. call'[q] = call[q] /\ lastWaiter'[q] # NoCall
            BY <1>3, <1>4, <3>2, <3>3
        <3> QED BY <3>1, <3>2, <3>4
    <2> QED BY <2>1, <2>2
<1>7. LastWaiterWaits'
    <2> SUFFICES ASSUME NEW q \in Calls, lastWaiter'[q] # NoCall
                 PROVE  call'[lastWaiter'[q]].pc = "waiting" /\ call'[lastWaiter'[q]].prior = q
        BY DEF LastWaiterWaits
    <2>1. CASE q = p
        BY <1>3, <1>4, <2>1
    <2>2. CASE q # p
        <3> DEFINE w == lastWaiter[q]
        <3>1. lastWaiter'[q] = w /\ w \in Calls /\ call[w].pc = "waiting" /\ call[w].prior = q
            BY <1>4, <2>2 DEF LastWaiterWaits
        <3>2. call'[w] = call[w]
            BY <1>2, <1>3, <3>1
        <3> QED BY <3>1, <3>2
    <2> QED BY <2>1, <2>2
<1> QED BY <1>4, <1>5, <1>6, <1>7

\* What a promise that settles does to each call.
LEMMA SettleStep ==
    ASSUME CallsShaped, NEW c \in Calls, NEW result \in Returned, Settle(c, result)
    PROVE  /\ call'[c].pc = result
           /\ \A d \in Calls : d # c =>
                 IF call[d].pc = "waiting" /\ call[d].prior = c THEN call'[d].pc = "signing"
                 ELSE call'[d] = call[d]
<1>1. PICK P : NoCall \in P /\ call \in [Calls -> CallShape(P)]
    BY DEF CallsShaped
<1> DEFINE self == [call[c] EXCEPT !.pc = result]
           woken(d) == [call[d] EXCEPT !.pc = "signing", !.prior = NoCall]
<1>2. self.pc = result /\ \A d \in Calls : woken(d).pc = "signing"
    BY <1>1 DEF CallShape
<1>3. call' = [d \in Calls |-> IF d = c THEN self
                               ELSE IF call[d].pc = "waiting" /\ call[d].prior = c THEN woken(d)
                               ELSE call[d]]
    BY DEF Settle
<1> HIDE DEF self, woken
<1> QED BY <1>2, <1>3

LEMMA SettleKeepsQueue ==
    ASSUME QueueInv, CallsShaped, NEW c \in Calls, NEW result \in Returned, Settle(c, result),
           call[c].pc \in Running
    PROVE  QueueInv'
<1> USE ExecutorAssumption DEF QueueInv
<1>1. /\ call'[c].pc = result
      /\ \A d \in Calls : d # c =>
            IF call[d].pc = "waiting" /\ call[d].prior = c THEN call'[d].pc = "signing"
            ELSE call'[d] = call[d]
    BY SettleStep
<1>2. /\ lastWaiter' \in [Calls -> Calls \cup {NoCall}] /\ lastWaiter'[c] = NoCall
      /\ \A q \in Calls : q # c => lastWaiter'[q] = lastWaiter[q]
    BY DEF Settle
<1>3. SlotIsBusy'
    <2>1. CASE lastWaiter[c] # NoCall
        <3> DEFINE w == lastWaiter[c]
        <3>1. inFlight' = w
            BY <2>1 DEF Settle
        <3>2. w \in Calls /\ call[w].pc = "waiting" /\ call[w].prior = c
            BY <2>1 DEF LastWaiterWaits
        <3>3. w # c
            BY <3>2 DEF Running
        <3>4. call'[w].pc = "signing"
            BY <1>1, <3>2, <3>3
        <3> QED BY <3>1, <3>2, <3>4 DEF SlotIsBusy, Running
    <2>2. CASE lastWaiter[c] = NoCall /\ inFlight = c
        <3>1. inFlight' = NoCall
            BY <2>2 DEF Settle
        <3> QED BY <3>1 DEF SlotIsBusy
    <2>3. CASE lastWaiter[c] = NoCall /\ inFlight # c
        <3>1. inFlight' = inFlight
            BY <2>3 DEF Settle
        <3>2. ASSUME inFlight # NoCall
              PROVE  inFlight \in Calls /\ call'[inFlight].pc \in Running
            <4>1. inFlight \in Calls /\ call[inFlight].pc \in Running
                BY <3>2 DEF SlotIsBusy
            <4>2. call[inFlight].pc # "waiting"
                BY <4>1 DEF Running
            <4> QED BY <1>1, <2>3, <4>1, <4>2
        <3> QED BY <3>1, <3>2 DEF SlotIsBusy
    <2> QED BY <2>1, <2>2, <2>3
<1>4. WaitersAreHeard'
    <2> SUFFICES ASSUME NEW d \in Calls, call'[d].pc = "waiting"
                 PROVE  /\ call'[d].prior \in Calls
                        /\ call'[call'[d].prior].pc \in Running
                        /\ lastWaiter'[call'[d].prior] # NoCall
        BY DEF WaitersAreHeard
    <2> DEFINE q == call[d].prior
    <2>1. d # c
        BY <1>1 DEF Returned
    <2>2. call'[d] = call[d] /\ q # c
        BY <1>1, <2>1
    <2>3. q \in Calls /\ call[q].pc \in Running /\ lastWaiter[q] # NoCall
        BY <2>2 DEF WaitersAreHeard
    <2>4. call[q].pc # "waiting"
        BY <2>3 DEF Running
    <2>5. call'[q] = call[q] /\ lastWaiter'[q] = lastWaiter[q]
        BY <1>1, <1>2, <2>2, <2>3, <2>4
    <2> QED BY <2>2, <2>3, <2>5
<1>5. LastWaiterWaits'
    <2> SUFFICES ASSUME NEW q \in Calls, lastWaiter'[q] # NoCall
                 PROVE  call'[lastWaiter'[q]].pc = "waiting" /\ call'[lastWaiter'[q]].prior = q
        BY DEF LastWaiterWaits
    <2> DEFINE w == lastWaiter[q]
    <2>1. q # c /\ lastWaiter'[q] = w
        BY <1>2
    <2>2. w \in Calls /\ call[w].pc = "waiting" /\ call[w].prior = q
        BY <2>1 DEF LastWaiterWaits
    <2>3. w # c
        BY <2>2 DEF Running
    <2>4. call'[w] = call[w]
        BY <1>1, <2>1, <2>2, <2>3
    <2> QED BY <2>1, <2>2, <2>4
<1> QED BY <1>2, <1>3, <1>4, <1>5

\* A step of a call takes it on, and resumes those that awaited its promise.
LEMMA CallStepKeepsQueue ==
    ASSUME QueueInv, DeskInv, NEW c \in Calls, CallStep(c)
    PROVE  /\ QueueInv'
           /\ Stage(call[c].pc) < Stage(call'[c].pc)
           /\ \A d \in Calls : d # c => Stage(call[d].pc) <= Stage(call'[d].pc)
<1> USE DEF DeskInv, DeskTyped
<1>1. PICK P : NoCall \in P /\ call \in [Calls -> CallShape(P)]
    BY DEF CallsShaped
<1>2. \A d \in Calls : Stage(call[d].pc) \in Nat
    BY DEF Stage
<1>3. CASE Queue(c)
    <2>1. /\ call[c].pc = "planning" /\ call'[c].pc = "waiting"
          /\ \A d \in Calls : d # c => call'[d] = call[d]
        BY <1>1, <1>3 DEF Queue, CallShape
    <2> QED BY <1>2, <1>3, <2>1, QueueKeepsQueue DEF Stage
<1>4. CASE Enter(c) \/ Sign(c) \/ Estimate(c) \/ Submit(c) \/ PlanFails(c) \/ Refuse(c)
    <2>1. /\ \A d \in Calls : d # c => call'[d] = call[d]
          /\ lastWaiter' = lastWaiter
        BY <1>1, <1>4 DEF Enter, Sign, Estimate, Submit, PlanFails, Refuse
    <2>2. \/ /\ call[c].pc = "planning" /\ call'[c].pc = "signing" /\ inFlight' = c
          \/ /\ inFlight' = inFlight
             /\ \/ call[c].pc = "signing" /\ call'[c].pc = "estimating"
                \/ call[c].pc = "estimating" /\ call'[c].pc = "submitting"
                \/ call[c].pc = "submitting" /\ call'[c].pc = "confirming"
                \/ call[c].pc = "planning" /\ call'[c].pc = "failed"
        BY <1>1, <1>4 DEF Enter, Sign, Estimate, Submit, PlanFails, Refuse, CallShape
    <2>3. QueueInv'
        <3>1. /\ call[c].pc # "waiting" /\ call'[c].pc # "waiting"
              /\ call[c].pc \in Running => call'[c].pc \in Running
              /\ inFlight' = inFlight \/ (inFlight' = c /\ call'[c].pc \in Running)
            BY <2>2 DEF Running
        <3> QED BY ONLY QueueInv, c \in Calls, <2>1, <3>1, OneMovesKeepsQueue
    <2> QED BY <1>2, <2>1, <2>2, <2>3 DEF Stage
<1>5. CASE Abort(c) \/ Reverted(c) \/ TimesOut(c) \/ Confirm(c)
    <2>1. PICK result \in Returned : Settle(c, result)
        BY <1>5 DEF Abort, Reverted, TimesOut, Confirm, Returned
    <2>2. call[c].pc \in Running
        BY <1>5 DEF Abort, Reverted, TimesOut, Confirm, Running
    <2>3. QueueInv'
        BY <2>1, <2>2, SettleKeepsQueue
    <2>4. /\ call'[c].pc = result
          /\ \A d \in Calls : d # c =>
                IF call[d].pc = "waiting" /\ call[d].prior = c THEN call'[d].pc = "signing"
                ELSE call'[d] = call[d]
        BY <2>1, SettleStep
    <2>5. Stage(call[c].pc) < Stage(call'[c].pc)
        BY <2>2, <2>4 DEF Stage, Running, Returned
    <2>6. ASSUME NEW d \in Calls, d # c
          PROVE  Stage(call[d].pc) <= Stage(call'[d].pc)
        BY <1>2, <2>4, <2>6 DEF Stage
    <2> QED BY <2>3, <2>5, <2>6
<1> QED BY <1>3, <1>4, <1>5 DEF CallStep, CallGoesOn, CallFails, CallSucceeds

LEMMA QueueInitInv == DeskInit => QueueInv
BY DEF DeskInit, ExecutorInit, Unmade, QueueInv, SlotIsBusy, WaitersAreHeard, LastWaiterWaits

LEMMA DeskStepKeepsQueue ==
    ASSUME QueueInv, DeskInv, [DeskNext]_deskVars
    PROVE  QueueInv' /\ CallsGoOn
<1> USE DEF DeskInv, DeskTyped
<1>1. PICK P : NoCall \in P /\ call \in [Calls -> CallShape(P)]
    BY DEF CallsShaped
<1>2. \A d \in Calls : Stage(call[d].pc) \in Nat
    BY DEF Stage
<1> DEFINE forward == \A d \in Calls : Stage(call[d].pc) <= Stage(call'[d].pc)
<1>3. SUFFICES QueueInv' /\ forward
    <2>1. \A c \in Calls : CallStep(c) => Stage(call[c].pc) < Stage(call'[c].pc)
        BY CallStepKeepsQueue
    <2> QED BY <2>1 DEF CallsGoOn
<1>4. ASSUME NEW c \in Calls, CallStep(c)
      PROVE  QueueInv' /\ forward
    <2>1. /\ QueueInv'
          /\ Stage(call[c].pc) < Stage(call'[c].pc)
          /\ \A d \in Calls : d # c => Stage(call[d].pc) <= Stage(call'[d].pc)
        BY <1>4, CallStepKeepsQueue
    <2>2. Stage(call[c].pc) <= Stage(call'[c].pc)
        BY <2>1 DEF Stage
    <2> QED BY ONLY <2>1, <2>2
<1>5. ASSUME NEW c \in Calls, NEW k, Request(c, k)
      PROVE  QueueInv' /\ forward
    <2>1. /\ call[c].pc = "idle" /\ call'[c].pc = "planning"
          /\ \A d \in Calls : d # c => call'[d] = call[d]
          /\ lastWaiter' = lastWaiter /\ inFlight' = inFlight
        BY <1>1, <1>5 DEF Request, CallShape
    <2>2. call[c].pc \notin Running
        BY <2>1 DEF Running
    <2>3. QueueInv'
        BY ONLY QueueInv, c \in Calls, <2>1, <2>2, OneMovesKeepsQueue
    <2> QED BY <1>2, <2>1, <2>3 DEF Stage
<1>6. ASSUME NEW c \in Calls, ChainStep(c)
      PROVE  QueueInv' /\ forward
    <2>1. /\ \A d \in Calls : call'[d].pc = call[d].pc /\ call'[d].prior = call[d].prior
          /\ lastWaiter' = lastWaiter /\ inFlight' = inFlight
        BY <1>1, <1>6 DEF ChainStep, Land, Revert, CallShape
    <2>2. QueueInv'
        BY <2>1, ExecutorAssumption
           DEF QueueInv, SlotIsBusy, WaitersAreHeard, LastWaiterWaits
    <2> QED BY <1>2, <2>1, <2>2
<1> DEFINE still == call' = call /\ lastWaiter' = lastWaiter /\ inFlight' = inFlight
<1>7. ASSUME still
      PROVE  QueueInv' /\ forward
    BY <1>2, <1>7 DEF QueueInv, SlotIsBusy, WaitersAreHeard, LastWaiterWaits
<1>8. ASSUME NEW id \in Ids, Propose(id) \/ Clock(id) \/ ApproveLate(id) \/ SkipProposal(id)
      PROVE  still
    BY <1>8 DEF Propose, Clock, ApproveLate, SkipProposal, executorVars
<1>9. ASSUME NEW k \in Keys, KeyExpires(k)
      PROVE  still
    BY <1>9 DEF KeyExpires, KeyLapses
<1>10. UNCHANGED deskVars => still
    BY DEF deskVars, executorVars
<1> QED BY <1>4, <1>5, <1>6, <1>7, <1>8, <1>9, <1>10 DEF DeskNext, Approve, StrategySwap

LEMMA QueueAlwaysInv ==
    DeskInit /\ [][DeskNext]_deskVars => []QueueInv /\ CallsGoForward
<1>1. DeskInv /\ QueueInv /\ [DeskNext]_deskVars => DeskInv' /\ QueueInv' /\ [CallsGoOn]_deskVars
    BY DeskNextInv, DeskStepKeepsQueue
<1> QED BY DeskInitInv, QueueInitInv, <1>1, PTL DEF CallsGoForward

LEMMA NobodyEverWaitsInVain == DeskInit /\ [][DeskNext]_deskVars => []NobodyWaitsInVain
<1>1. QueueInv => NobodyWaitsInVain
    BY DEF QueueInv, NobodyWaitsInVain
<1> QED BY QueueAlwaysInv, <1>1, PTL

\* Whatever calls queue behind whichever worker, the slot never holds a promise that
\* has settled, and whoever waits does so for one that has still to settle
\* (executeRhChainSwap's inFlight slot, its await of the prior call and its finally).
THEOREM WaitsAreForWorkers == DeskSpec => []NobodyWaitsInVain
BY NobodyEverWaitsInVain, PTL DEF DeskSpec

\* No step of anything takes a call back to an await it has left, and each step of
\* its own takes it to a later one, so that a call takes at most seven
\* (executeApprovedAction, the call before it failing included).
THEOREM CallsAdvance == DeskSpec => CallsGoForward
BY QueueAlwaysInv, PTL DEF DeskSpec

-------------------------------------------------------------------------------
(* The timers.  A row ends by itself through its timer, so a pending row whose   *)
(* timer is gone stays for ever.  Eviction, approval, skipping and expiry each   *)
(* take the timer away; the row that is evicted is the head of a bucket in which *)
(* no id stands twice, so that no other row loses its own.                       *)

BucketTyped == bucket \in Seq(Ids) /\ IsInjective(bucket)

StoredWereAdded == \A id \in Ids : Stored(id) => row[id].outcome # "none"

IdleHaveNoPurpose == \A c \in Calls : call[c].pc = "idle" => purpose[c] = NoCall

\* A timer is only set for a row that it can expire, and every such row that nobody
\* has approved has one.
TimersAreSet ==
    \A id \in Ids :
        /\ row[id].timer => Answerable(id)
        /\ Answerable(id) => row[id].timer \/ \E c \in Calls : purpose[c] = id

TimerInv ==
    /\ BucketTyped
    /\ StoredWereAdded
    /\ IdleHaveNoPurpose
    /\ TimersAreSet

\* What is left of a bucket when its head is evicted.
LEMMA EvictionTakesHead ==
    ASSUME bucket \in Seq(Ids), IsInjective(bucket), bucket # <<>>
    PROVE  /\ Tail(bucket) \in Seq(Ids) /\ IsInjective(Tail(bucket))
           /\ Head(bucket) \in Ids
           /\ ToSet(Tail(bucket)) = ToSet(bucket) \ {Head(bucket)}
<1>1. Len(bucket) \in Nat \ {0} /\ Head(bucket) = bucket[1] /\ DOMAIN bucket = 1..Len(bucket)
    OBVIOUS
<1>2. /\ Tail(bucket) \in Seq(Ids) /\ DOMAIN Tail(bucket) = 1..(Len(bucket) - 1)
      /\ \A i \in 1..(Len(bucket) - 1) : Tail(bucket)[i] = bucket[i + 1]
    BY <1>1
<1>3. IsInjective(Tail(bucket))
    BY <1>1, <1>2 DEF IsInjective
<1>4. ASSUME NEW x
      PROVE  x \in ToSet(Tail(bucket)) <=> x \in ToSet(bucket) \ {Head(bucket)}
    <2>1. ASSUME x \in ToSet(Tail(bucket))
          PROVE  x \in ToSet(bucket) \ {Head(bucket)}
        <3>1. PICK i \in 1..(Len(bucket) - 1) : x = bucket[i + 1]
            BY <1>2, <2>1 DEF ToSet
        <3>2. i + 1 \in 1..Len(bucket) /\ i + 1 # 1 /\ 1 \in 1..Len(bucket)
            BY <1>1
        <3>3. bucket[i + 1] # bucket[1]
            BY <1>1, <3>2 DEF IsInjective
        <3> QED BY <1>1, <3>1, <3>2, <3>3 DEF ToSet
    <2>2. ASSUME x \in ToSet(bucket) \ {Head(bucket)}
          PROVE  x \in ToSet(Tail(bucket))
        <3>1. PICK i \in 1..Len(bucket) : x = bucket[i]
            BY <1>1, <2>2 DEF ToSet
        <3>2. i # 1 /\ i - 1 \in 1..(Len(bucket) - 1) /\ (i - 1) + 1 = i
            BY <1>1, <2>2, <3>1
        <3>3. x = Tail(bucket)[i - 1]
            BY <1>2, <3>1, <3>2
        <3> QED BY <1>2, <3>2, <3>3 DEF ToSet
    <2> QED BY <2>1, <2>2
<1> QED BY <1>1, <1>2, <1>3, <1>4

LEMMA AddedIsStored ==
    ASSUME NEW s \in Seq(Ids), IsInjective(s), NEW id \in Ids, id \notin ToSet(s)
    PROVE  /\ Append(s, id) \in Seq(Ids) /\ IsInjective(Append(s, id))
           /\ ToSet(Append(s, id)) = ToSet(s) \cup {id}
<1>1. /\ Len(s) \in Nat /\ DOMAIN s = 1..Len(s)
      /\ Append(s, id) \in Seq(Ids) /\ DOMAIN Append(s, id) = 1..(Len(s) + 1)
      /\ \A i \in 1..Len(s) : Append(s, id)[i] = s[i]
      /\ Append(s, id)[Len(s) + 1] = id
    OBVIOUS
<1>2. \A i \in 1..Len(s) : s[i] # id
    BY <1>1 DEF ToSet
<1>3. IsInjective(Append(s, id))
    BY <1>1, <1>2 DEF IsInjective
<1>4. ASSUME NEW x
      PROVE  x \in ToSet(Append(s, id)) <=> x \in ToSet(s) \cup {id}
    <2>1. x \in ToSet(Append(s, id)) <=> \E i \in 1..(Len(s) + 1) : x = Append(s, id)[i]
        BY <1>1 DEF ToSet
    <2>2. x \in ToSet(s) <=> \E i \in 1..Len(s) : x = s[i]
        BY <1>1 DEF ToSet
    <2>3. \A i \in 1..(Len(s) + 1) : i \in 1..Len(s) \/ i = Len(s) + 1
        BY <1>1
    <2>4. Len(s) + 1 \in 1..(Len(s) + 1) /\ \A i \in 1..Len(s) : i \in 1..(Len(s) + 1)
        BY <1>1
    <2> QED BY <1>1, <2>1, <2>2, <2>3, <2>4
<1> QED BY <1>1, <1>3, <1>4

LEMMA ProposeKeepsTimers ==
    ASSUME TimerInv, DeskInv, NEW id \in Ids, AddProposal(id), purpose' = purpose
    PROVE  BucketTyped' /\ StoredWereAdded' /\ TimersAreSet'
<1> USE DEF TimerInv, DeskInv, DeskTyped
<1> DEFINE full == Len(bucket) >= PROPOSAL_CAP_PER_TOKEN
           added == [outcome |-> "pending", timer |-> TRUE, due |-> FALSE]
           kept == IF full THEN Tail(bucket) ELSE bucket
           untimed(e) == [row[e] EXCEPT !.timer = FALSE]
<1>1. /\ row[id].outcome = "none"
      /\ bucket' = Append(kept, id)
      /\ row' = [e \in Ids |-> IF e = id THEN added
                               ELSE IF full /\ e = Head(bucket) THEN untimed(e) ELSE row[e]]
    BY DEF AddProposal
<1>2. full => bucket # <<>>
    <2>1. Len(<<>>) = 0
        OBVIOUS
    <2> QED BY <2>1, StoreAssumption
<1>3. /\ kept \in Seq(Ids) /\ IsInjective(kept)
      /\ ToSet(kept) = IF full THEN ToSet(bucket) \ {Head(bucket)} ELSE ToSet(bucket)
    BY <1>2, EvictionTakesHead DEF BucketTyped
<1>4. id \notin ToSet(bucket)
    BY <1>1 DEF StoredWereAdded, Stored
<1> HIDE DEF kept
<1>5. bucket' \in Seq(Ids) /\ IsInjective(bucket') /\ ToSet(bucket') = ToSet(kept) \cup {id}
    <2>1. id \notin ToSet(kept)
        BY <1>3, <1>4
    <2> QED BY <1>1, <1>3, <2>1, AddedIsStored
<1>6. \A e \in Ids : /\ untimed(e).outcome = row[e].outcome /\ untimed(e).timer = FALSE
    BY DEF RowType
<1>7. added.outcome = "pending" /\ added.timer
    OBVIOUS
<1> HIDE DEF added, untimed, full
<1>8. /\ row'[id].outcome = "pending" /\ row'[id].timer
      /\ \A e \in Ids : e # id => /\ row'[e].outcome = row[e].outcome
                                  /\ IF full /\ e = Head(bucket) THEN row'[e].timer = FALSE
                                     ELSE row'[e] = row[e]
    BY <1>1, <1>6, <1>7
<1>9. /\ id \in ToSet(bucket')
      /\ \A e \in Ids : e # id => (e \in ToSet(bucket') <=>
                                       e \in ToSet(bucket) /\ ~(full /\ e = Head(bucket)))
    BY <1>3, <1>5
<1>10. BucketTyped' /\ StoredWereAdded'
    BY <1>5, <1>8, <1>9 DEF BucketTyped, StoredWereAdded, Stored
<1>11. ASSUME NEW e \in Ids
       PROVE  /\ row'[e].timer => Answerable(e)'
              /\ Answerable(e)' => row'[e].timer \/ \E c \in Calls : purpose'[c] = e
    <2>1. CASE e = id
        BY <1>8, <1>9, <2>1 DEF Answerable, Stored
    <2>2. CASE e # id /\ full /\ e = Head(bucket)
        BY <1>8, <1>9, <2>2 DEF Answerable, Stored
    <2>3. CASE e # id /\ ~(full /\ e = Head(bucket))
        <3>1. row'[e] = row[e] /\ Answerable(e)' = Answerable(e)
            BY <1>8, <1>9, <2>3 DEF Answerable, Stored
        <3> QED BY <3>1 DEF TimersAreSet
    <2> QED BY <2>1, <2>2, <2>3
<1> QED BY <1>10, <1>11 DEF TimersAreSet

\* A step that leaves the bucket and every row but one, and whose row loses its timer
\* exactly when it ends, or has been approved.
LEMMA OneRowKeepsTimers ==
    ASSUME TimerInv, NEW id \in Ids, bucket' = bucket,
           \A c \in Calls : purpose[c] \in Ids => purpose'[c] = purpose[c],
           \A e \in Ids : e # id => row'[e] = row[e],
           Stored(id) => row'[id].outcome # "none",
           row'[id].timer => Answerable(id)',
           Answerable(id)' => row'[id].timer \/ \E c \in Calls : purpose'[c] = id
    PROVE  BucketTyped' /\ StoredWereAdded' /\ TimersAreSet'
<1> USE DEF TimerInv
<1>1. \A e \in Ids : Stored(e)' = Stored(e)
    BY DEF Stored
<1>2. BucketTyped' /\ StoredWereAdded'
    BY <1>1 DEF BucketTyped, StoredWereAdded
<1>3. ASSUME NEW e \in Ids, e # id
      PROVE  /\ row'[e].timer => Answerable(e)'
             /\ Answerable(e)' => row'[e].timer \/ \E c \in Calls : purpose'[c] = e
    <2>1. row'[e] = row[e] /\ Answerable(e)' = Answerable(e)
        BY <1>1, <1>3 DEF Answerable
    <2> QED BY <2>1 DEF TimersAreSet
<1> QED BY <1>2, <1>3 DEF TimersAreSet

LEMMA StoreStepKeepsTimers ==
    ASSUME TimerInv, DeskInv, NEW id \in Ids,
           Propose(id) \/ Clock(id) \/ ApproveLate(id) \/ SkipProposal(id)
    PROVE  BucketTyped' /\ StoredWereAdded' /\ TimersAreSet'
<1> USE DEF TimerInv, DeskInv, DeskTyped
<1>1. purpose' = purpose
    BY DEF Propose, Clock, ApproveLate, SkipProposal
<1>2. CASE Propose(id)
    BY <1>1, <1>2, ProposeKeepsTimers DEF Propose
<1>3. CASE Clock(id) /\ ComesDue(id)
    <2>1. /\ bucket' = bucket /\ \A e \in Ids : e # id => row'[e] = row[e]
          /\ row'[id].outcome = row[id].outcome /\ row'[id].timer = row[id].timer
        BY <1>3 DEF ComesDue, RowType
    <2>2. Stored(id)' = Stored(id) /\ Answerable(id)' = Answerable(id)
        BY <2>1 DEF Answerable, Stored
    <2>3. /\ Stored(id) => row'[id].outcome # "none"
          /\ row'[id].timer => Answerable(id)'
          /\ Answerable(id)' => row'[id].timer \/ \E c \in Calls : purpose'[c] = id
        BY <1>1, <2>1, <2>2 DEF StoredWereAdded, TimersAreSet
    <2> QED BY ONLY TimerInv, id \in Ids, <1>1, <2>1, <2>3, OneRowKeepsTimers
<1>4. CASE Clock(id) /\ TimerFires(id)
    <2> DEFINE w == [row[id] EXCEPT !.timer = FALSE,
                                    !.outcome = IF Stored(id) /\ @ = "pending" THEN "expired" ELSE @]
    <2>1. row' = [row EXCEPT ![id] = w] /\ bucket' = bucket /\ row[id].timer
        BY <1>4 DEF TimerFires
    <2>2. Stored(id) /\ row[id].outcome = "pending"
        BY <2>1 DEF TimersAreSet, Answerable
    <2>3. w.outcome = "expired" /\ w.timer = FALSE
        BY <2>2 DEF RowType
    <2> HIDE DEF w
    <2>4. /\ \A e \in Ids : e # id => row'[e] = row[e]
          /\ row'[id].outcome = "expired" /\ row'[id].timer = FALSE
        BY <2>1, <2>3
    <2>5. ~Answerable(id)'
        BY <2>4 DEF Answerable
    <2> QED BY ONLY TimerInv, id \in Ids, <1>1, <2>1, <2>4, <2>5, OneRowKeepsTimers
<1>5. CASE ApproveLate(id) \/ SkipProposal(id)
    <2>1. PICK o \in {"expired", "skipped"} : row' = Consumed(id, o)
        BY <1>5 DEF ApproveLate, SkipProposal, AnswerLate, Skip
    <2>2. bucket' = bucket
        BY <1>5 DEF ApproveLate, SkipProposal, AnswerLate, Skip
    <2>3. /\ \A e \in Ids : e # id => row'[e] = row[e]
          /\ row'[id].outcome = o /\ row'[id].timer = FALSE
        BY <2>1 DEF Consumed, RowType
    <2>4. ~Answerable(id)' /\ o # "none"
        BY <2>3 DEF Answerable
    <2> QED BY ONLY TimerInv, id \in Ids, <1>1, <2>2, <2>3, <2>4, OneRowKeepsTimers
<1> QED BY <1>2, <1>3, <1>4, <1>5 DEF Clock

LEMMA DeskStepKeepsTimers ==
    ASSUME TimerInv, QueueInv, DeskInv, [DeskNext]_deskVars
    PROVE  TimerInv'
<1> USE DEF DeskInv, DeskTyped
<1>1. PICK P : NoCall \in P /\ call \in [Calls -> CallShape(P)]
    BY DEF CallsShaped
<1>2. \A c \in Calls : call'[c].pc = "idle" => call[c].pc = "idle"
    <2>1. CallsGoOn
        BY DeskStepKeepsQueue
    <2>2. \A c \in Calls : Stage(call[c].pc) <= Stage(call'[c].pc)
        BY <2>1 DEF CallsGoOn
    <2> QED BY <2>2 DEF Stage
<1> DEFINE kept == BucketTyped' /\ StoredWereAdded' /\ TimersAreSet'
<1>3. ASSUME purpose' = purpose
      PROVE  IdleHaveNoPurpose'
    BY <1>2, <1>3 DEF IdleHaveNoPurpose, TimerInv
<1>4. ASSUME purpose' = purpose, bucket' = bucket, row' = row
      PROVE  TimerInv'
    BY <1>3, <1>4 DEF TimerInv, BucketTyped, StoredWereAdded, TimersAreSet, Answerable, Stored
<1>5. ASSUME NEW id \in Ids, Propose(id) \/ Clock(id) \/ ApproveLate(id) \/ SkipProposal(id)
      PROVE  TimerInv'
    <2>1. purpose' = purpose
        BY <1>5 DEF Propose, Clock, ApproveLate, SkipProposal
    <2> QED BY <1>3, <1>5, <2>1, StoreStepKeepsTimers DEF TimerInv
<1>6. ASSUME NEW c \in Calls, NEW id, Request(c, seq), purpose' = [purpose EXCEPT ![c] = id]
      PROVE  /\ IdleHaveNoPurpose'
             /\ \A d \in Calls : purpose[d] \in Ids => purpose'[d] = purpose[d]
             /\ purpose'[c] = id
    <2>1. call[c].pc = "idle" /\ call'[c].pc = "planning"
        BY <1>1, <1>6 DEF Request, CallShape
    <2>2. purpose[c] = NoCall
        BY <2>1 DEF IdleHaveNoPurpose, TimerInv
    <2> QED BY <1>2, <1>6, <2>1, <2>2, DeskAssumption DEF IdleHaveNoPurpose, TimerInv
<1>7. ASSUME NEW id \in Ids, NEW c \in Calls, Approve(id, c)
      PROVE  TimerInv'
    <2>1. /\ row' = Consumed(id, "approved") /\ bucket' = bucket
          /\ Request(c, seq) /\ purpose' = [purpose EXCEPT ![c] = id]
        BY <1>7 DEF Approve
    <2>2. /\ \A e \in Ids : e # id => row'[e] = row[e]
          /\ row'[id].outcome = "approved" /\ row'[id].timer = FALSE
        BY <2>1 DEF Consumed, RowType
    <2>3. ~Answerable(id)'
        BY <2>2 DEF Answerable
    <2>4. \A d \in Calls : purpose[d] \in Ids => purpose'[d] = purpose[d]
        BY <1>6, <2>1
    <2>5. kept
        BY ONLY TimerInv, id \in Ids, <2>1, <2>2, <2>3, <2>4, OneRowKeepsTimers
    <2> QED BY <1>6, <2>1, <2>5 DEF TimerInv
<1>8. ASSUME NEW c \in Calls, StrategySwap(c)
      PROVE  TimerInv'
    <2>1. /\ row' = row /\ bucket' = bucket
          /\ Request(c, seq) /\ purpose' = [purpose EXCEPT ![c] = Strategy]
        BY <1>8 DEF StrategySwap, storeVars
    <2>2. IdleHaveNoPurpose' /\ \A d \in Calls : purpose[d] \in Ids => purpose'[d] = purpose[d]
        BY <1>6, <2>1
    <2> QED BY <2>1, <2>2
            DEF TimerInv, BucketTyped, StoredWereAdded, TimersAreSet, Answerable, Stored
<1>9. ASSUME NEW c \in Calls, CallFails(c), purpose[c] # Strategy
      PROVE  TimerInv'
    <2>1. purpose' = purpose /\ bucket' = bucket
        BY <1>9 DEF CallFails
    <2>2. PICK id \in Ids : id = purpose[c]
        <3>1. InProgress(c)
            BY <1>9, ReturnStep
        <3>2. purpose[c] # NoCall
            BY <3>1 DEF CallsHavePurpose, InProgress
        <3> QED BY <1>9, <3>2
    <2>3. row' = [row EXCEPT ![id].outcome = "pending"]
        BY <1>9, <2>2 DEF CallFails
    <2>4. /\ \A e \in Ids : e # id => row'[e] = row[e]
          /\ row'[id].outcome = "pending" /\ row'[id].timer = row[id].timer
        BY <2>3 DEF RowType
    <2>5. row'[id].timer => Answerable(id)'
        BY <2>1, <2>4 DEF TimerInv, TimersAreSet, Answerable, Stored
    <2>6. kept
        BY ONLY TimerInv, id \in Ids, c \in Calls, <2>1, <2>2, <2>4, <2>5, OneRowKeepsTimers
    <2> QED BY <1>3, <2>1, <2>6 DEF TimerInv
<1>10. ASSUME NEW c \in Calls, CallStep(c) \/ ChainStep(c), ~(CallFails(c) /\ purpose[c] # Strategy)
       PROVE  TimerInv'
    <2>1. purpose' = purpose /\ bucket' = bucket /\ row' = row
        BY <1>10 DEF CallStep, ChainStep, CallGoesOn, CallFails, CallSucceeds, storeVars
    <2> QED BY <1>4, <2>1
<1>11. ASSUME NEW k \in Keys, KeyExpires(k)
       PROVE  TimerInv'
    <2>1. purpose' = purpose /\ bucket' = bucket /\ row' = row
        BY <1>11 DEF KeyExpires, storeVars
    <2> QED BY <1>4, <2>1
<1>12. ASSUME UNCHANGED deskVars
       PROVE  TimerInv'
    <2>1. purpose' = purpose /\ bucket' = bucket /\ row' = row
        BY <1>12 DEF deskVars, storeVars
    <2> QED BY <1>4, <2>1
<1> QED BY <1>5, <1>7, <1>8, <1>9, <1>10, <1>11, <1>12 DEF DeskNext, CallStep

LEMMA TimerInitInv == DeskInit => TimerInv
BY DEF DeskInit, ExecutorInit, StoreInit, Unmade, TimerInv, BucketTyped, IsInjective,
       StoredWereAdded, IdleHaveNoPurpose, TimersAreSet, Answerable, Stored, ToSet

LEMMA TimersAlwaysSet == DeskInit /\ [][DeskNext]_deskVars => []TimersAreSet
<1>1. DeskInv /\ QueueInv /\ TimerInv /\ [DeskNext]_deskVars => TimerInv'
    BY DeskStepKeepsTimers
<1>2. TimerInv => TimersAreSet
    BY DEF TimerInv
<1> QED BY TimerInitInv, DeskAlwaysInv, QueueAlwaysInv, <1>1, <1>2, PTL

\* Whatever is evicted, approved, answered late or put back, every pending row that
\* nobody has approved has the timer that ends it, and no timer is left for a row
\* that has ended or gone (addProposal's setTimeout and eviction, markProposalConsumed).
THEOREM UnansweredHaveTimers == DeskSpec => []TimersAreSet
BY TimersAlwaysSet, PTL DEF DeskSpec

-------------------------------------------------------------------------------
(* The stream.  While nothing has spoiled it, what the client has read and what *)
(* the socket holds are one run of numbers that ends at the last event          *)
(* published; a write goes straight to the socket, and a replay of no more than *)
(* the socket takes is a loop of such writes.                                   *)

WriteType == [socket : Seq(Nat), queue : Seq(Nat), dropped : BOOLEAN]

StreamTyped ==
    /\ eventSeq \in Nat
    /\ lastSeq \in Nat \cup {-1}
    /\ connected \in BOOLEAN
    /\ socket \in Seq(Nat) /\ backQueue \in Seq(Nat) /\ received \in Seq(Nat)

\* a is the number of the first event read, or of the next if none is.
RunsFrom(a) ==
    /\ \A i \in 1..Len(received) : received[i] = a + i - 1
    /\ \A i \in 1..Len(socket) : socket[i] = a + Len(received) + i - 1
    /\ connected => a + Len(received) + Len(socket) = eventSeq + 1
    /\ received # <<>> => lastSeq = a + Len(received) - 1

Unspoiled ==
    /\ backQueue = <<>>
    /\ \E a \in Int : RunsFrom(a)

StreamInv == StreamTyped /\ (spoiled = {} => Unspoiled)

\* How much of the queue a write drains.
Drained(s, q) == Max({j \in 0..Len(q) : \A i \in 1..j : Len(s) + i - 1 <= WATERMARK})

LEMMA DrainedType ==
    ASSUME NEW s \in Seq(Nat), NEW q \in Seq(Nat)
    PROVE  Drained(s, q) \in 0..Len(q)
<1> DEFINE fits == {j \in 0..Len(q) : \A i \in 1..j : Len(s) + i - 1 <= WATERMARK}
<1>1. PICK n \in Nat : n = Len(q)
    OBVIOUS
<1>2. fits \in SUBSET (0..n) /\ 0 \in fits
    BY <1>1
<1>3. Drained(s, q) = Max(fits)
    BY DEF Drained
<1> HIDE DEF fits
<1>4. Max(fits) \in fits
    BY <1>1, <1>2, GreatestIsMember
<1> QED BY <1>1, <1>2, <1>3, <1>4

LEMMA WriteTyped ==
    ASSUME NEW w \in WriteType, NEW e \in Nat
    PROVE  WriteTo(w, e) \in WriteType
<1> DEFINE s == w.socket
           q == w.queue
           k == Drained(s, q)
           longer == Append(q, e)
<1>1. s \in Seq(Nat) /\ q \in Seq(Nat)
    BY DEF WriteType
<1> HIDE DEF s, q
<1>2. CASE ~Room(s)
    <2>1. longer \in Seq(Nat) /\ longer # <<>>
        BY <1>1
    <2>2. Tail(longer) \in Seq(Nat)
        BY <2>1
    <2> DEFINE over == Len(longer) > BACKPRESSURE_QUEUE_CAP
    <2>3. over \in BOOLEAN
        OBVIOUS
    <2>4. WriteTo(w, e) = [socket |-> s, queue |-> IF over THEN Tail(longer) ELSE longer,
                           dropped |-> over]
        BY <1>2 DEF WriteTo, Written, s, q
    <2> HIDE DEF longer, over
    <2> QED BY <1>1, <2>1, <2>2, <2>3, <2>4 DEF WriteType
<1>3. CASE Room(s)
    <2>1. k \in 0..Len(q) /\ Len(q) \in Nat
        BY <1>1, DrainedType
    <2>2. WriteTo(w, e) = [socket |-> Append(s \o SubSeq(q, 1, k), e),
                           queue |-> SubSeq(q, k + 1, Len(q)), dropped |-> FALSE]
        BY <1>3 DEF WriteTo, Written, Drained, s, q
    <2> HIDE DEF k
    <2>3. SubSeq(q, 1, k) \in Seq(Nat) /\ SubSeq(q, k + 1, Len(q)) \in Seq(Nat)
        BY <1>1, <2>1
    <2>4. Append(s \o SubSeq(q, 1, k), e) \in Seq(Nat)
        BY <1>1, <2>3
    <2> QED BY <2>2, <2>3, <2>4 DEF WriteType
<1> QED BY <1>2, <1>3

\* With room in the socket and nothing queued, the event goes to the socket.
LEMMA WriteThrough ==
    ASSUME NEW s \in Seq(Nat), NEW e \in Nat, Room(s)
    PROVE  /\ Written(s, <<>>, e).socket = Append(s, e)
           /\ Written(s, <<>>, e).queue = <<>>
<1> DEFINE k == Drained(s, <<>>)
<1>1. <<>> \in Seq(Nat) /\ Len(<<>>) = 0
    OBVIOUS
<1>2. k = 0
    <2>1. k \in 0..Len(<<>>)
        BY <1>1, DrainedType
    <2> QED BY <1>1, <2>1
<1>3. Written(s, <<>>, e) = [socket |-> Append(s \o SubSeq(<<>>, 1, k), e),
                             queue |-> SubSeq(<<>>, k + 1, Len(<<>>)), dropped |-> FALSE]
    BY DEF Written, Drained
<1> HIDE DEF k
<1>4. SubSeq(<<>>, 1, 0) = <<>> /\ SubSeq(<<>>, 0 + 1, 0) = <<>>
    OBVIOUS
<1>5. s \o <<>> = s
    OBVIOUS
<1> QED BY <1>1, <1>2, <1>3, <1>4, <1>5

\* A replay, write by write.
Writes1By1(r, events) ==
    /\ DOMAIN r = 0..Len(events)
    /\ r[0] = Empty
    /\ \A k \in 1..Len(events) : r[k] = WriteTo(r[k - 1], events[k])
    /\ FoldLeft(WriteTo, Empty, events) = r[Len(events)]

LEMMA ReplayIsLoop ==
    ASSUME NEW events \in Seq(Nat)
    PROVE  \E r : Writes1By1(r, events)
<1> DEFINE n == Len(events)
           A == WriteType
           step == [p \in A \X (1..n) |-> WriteTo(p[1], events[p[2]])]
           Follows(g) == g = [s \in SUBSET DOMAIN events |->
                                 IF s = {} THEN Empty
                                 ELSE WriteTo(g[s \ {Max(s)}], events[Max(s)])]
<1>1. n \in Nat /\ DOMAIN events = 1..n /\ \A k \in 1..n : events[k] \in Nat
    OBVIOUS
<1>2. step \in [A \X (1..n) -> A]
    <2>1. \A p \in A \X (1..n) : p[1] \in A /\ events[p[2]] \in Nat
        BY <1>1
    <2> QED BY <2>1, WriteTyped
<1>3. \A x \in A, k \in 1..n : step[<<x, k>>] = WriteTo(x, events[k])
    OBVIOUS
<1>4. Empty \in A
    BY DEF Empty, WriteType
<1> HIDE DEF step, A, n
<1>5. PICK g : LoopsInOrder(g, n, A, Empty, step)
    BY ONLY <1>1, <1>2, <1>4, LoopInOrderExists
<1>6. Follows(g)
    <2>1. ASSUME NEW s \in SUBSET (1..n), s # {}
          PROVE  step[<<g[s \ {Max(s)}], Max(s)>>] = WriteTo(g[s \ {Max(s)}], events[Max(s)])
        <3>1. s \in SUBSET (0..n)
            OBVIOUS
        <3>2. Max(s) \in s
            BY <1>1, <2>1, <3>1, GreatestIsMember
        <3>3. g[s \ {Max(s)}] \in A
            BY <1>5 DEF LoopsInOrder
        <3> QED BY <1>3, <3>2, <3>3
    <2>2. g = [s \in SUBSET (1..n) |->
                  IF s = {} THEN Empty ELSE WriteTo(g[s \ {Max(s)}], events[Max(s)])]
        BY <1>5, <2>1 DEF LoopsInOrder
    <2> QED BY <1>1, <2>2
<1> DEFINE it == CHOOSE g2 : Follows(g2)
<1>7. Follows(it)
    BY <1>6
<1>8. FoldLeft(WriteTo, Empty, events) = it[DOMAIN events]
    BY DEF FoldLeft, MapThenFoldSet
<1> HIDE DEF it
<1> DEFINE r == [k \in 0..n |-> it[1..k]]
<1>9. it[1..0] = Empty
    <2>1. 1..0 = {} /\ {} \in SUBSET DOMAIN events
        OBVIOUS
    <2> QED BY <1>7, <2>1
<1>10. ASSUME NEW k \in 1..n
       PROVE  it[1..k] = WriteTo(it[1..(k - 1)], events[k])
    <2>1. 1..k \in SUBSET (1..n) /\ k \in 1..k /\ k \in Nat \ {0}
        BY ONLY <1>1, k \in 1..n
    <2>2. Max(1..k) = k /\ (1..k) \ {Max(1..k)} = 1..(k - 1)
        BY <2>1, GreatestOfInterval
    <2> QED BY <1>1, <1>7, <2>1, <2>2
<1>11. DOMAIN r = 0..n /\ r[0] = Empty /\ r[n] = it[1..n]
    BY <1>1, <1>9
<1>12. \A k \in 1..n : r[k] = it[1..k] /\ r[k - 1] = it[1..(k - 1)]
    BY <1>1
<1> HIDE DEF r
<1>13. \A k \in 1..n : r[k] = WriteTo(r[k - 1], events[k])
    BY <1>10, <1>12
<1> QED BY <1>1, <1>8, <1>11, <1>13 DEF Writes1By1, n

LEMMA ReplayTyped ==
    ASSUME NEW events \in Seq(Nat)
    PROVE  FoldLeft(WriteTo, Empty, events) \in WriteType
<1>1. PICK r : Writes1By1(r, events)
    BY ReplayIsLoop
<1>2. PICK n \in Nat : n = Len(events)
    OBVIOUS
<1> DEFINE G == {k \in 0..n : r[k] \in WriteType}
<1>3. 0 \in G
    BY <1>1, <1>2 DEF Writes1By1, Empty, WriteType
<1>4. ASSUME NEW k \in 1..n, k - 1 \in G
      PROVE  k \in G
    <2>1. r[k] = WriteTo(r[k - 1], events[k]) /\ events[k] \in Nat
        BY <1>1, <1>2 DEF Writes1By1
    <2>2. r[k] \in WriteType
        BY <1>4, <2>1, WriteTyped
    <2> QED BY <1>2, <2>2
<1> HIDE DEF G
<1>5. n \in G
    <2>1. 0..n \subseteq G
        BY <1>2, <1>3, <1>4, InductionUpTo
    <2> QED BY <1>2, <2>1
<1> QED BY <1>1, <1>2, <1>5 DEF G, Writes1By1

\* A replay that the socket takes is written as it is.
LEMMA ReplayWritten ==
    ASSUME NEW events \in Seq(Nat), Len(events) <= WATERMARK + 1
    PROVE  LET w == FoldLeft(WriteTo, Empty, events)
           IN  /\ w.socket \in Seq(Nat) /\ w.queue = <<>>
               /\ Len(w.socket) = Len(events)
               /\ \A i \in 1..Len(events) : w.socket[i] = events[i]
<1>1. PICK r : Writes1By1(r, events)
    BY ReplayIsLoop
<1>2. PICK n \in Nat : n = Len(events) /\ n <= WATERMARK + 1
    OBVIOUS
<1> DEFINE Good(k) == /\ r[k].socket \in Seq(Nat) /\ r[k].queue = <<>>
                      /\ Len(r[k].socket) = k
                      /\ \A i \in 1..k : r[k].socket[i] = events[i]
           G == {k \in 0..n : Good(k)}
<1>3. 0 \in G
    <2>1. r[0].socket = <<>> /\ r[0].queue = <<>>
        BY <1>1 DEF Writes1By1, Empty
    <2>2. <<>> \in Seq(Nat) /\ Len(<<>>) = 0 /\ 0 \in 0..n
        BY <1>2
    <2>3. Good(0)
        BY <2>1, <2>2
    <2> QED BY <2>2, <2>3
<1>4. ASSUME NEW k \in 1..n, k - 1 \in G
      PROVE  k \in G
    <2> DEFINE s == r[k - 1].socket
    <2>1. /\ s \in Seq(Nat) /\ r[k - 1].queue = <<>> /\ Len(s) = k - 1
          /\ \A i \in 1..(k - 1) : s[i] = events[i]
        BY <1>4
    <2>2. r[k] = Written(s, <<>>, events[k]) /\ events[k] \in Nat
        <3>1. r[k] = WriteTo(r[k - 1], events[k]) /\ events[k] \in Nat
            BY <1>1, <1>2 DEF Writes1By1
        <3> QED BY <2>1, <3>1 DEF WriteTo
    <2> HIDE DEF s
    <2>3. Room(s)
        BY <1>2, <2>1, StreamAssumption DEF Room
    <2>4. r[k].socket = Append(s, events[k]) /\ r[k].queue = <<>>
        BY <2>1, <2>2, <2>3, WriteThrough
    <2>5. /\ Append(s, events[k]) \in Seq(Nat) /\ Len(Append(s, events[k])) = k
          /\ \A i \in 1..k : Append(s, events[k])[i] = events[i]
        BY <1>2, <2>1, <2>2
    <2>6. Good(k)
        BY ONLY <2>4, <2>5
    <2> QED BY <1>2, <2>6
<1> HIDE DEF G
<1>5. n \in G
    <2>1. 0..n \subseteq G
        BY <1>2, <1>3, <1>4, InductionUpTo
    <2> QED BY <1>2, <2>1
<1> QED BY <1>1, <1>2, <1>5 DEF G, Writes1By1

\* What is replayed to a client that missed nothing the ring has dropped: the
\* events after the one it names.
LEMMA ReplayIsRest ==
    ASSUME eventSeq \in Nat, NEW from \in Nat \cup {-1}, from <= eventSeq,
           \A e \in 1..eventSeq : e > from => e \in InRing
    PROVE  LET last == IF from = -1 THEN 0 ELSE from
           IN  /\ ReplayOrder(from) \in Seq(Nat)
               /\ Len(ReplayOrder(from)) = eventSeq - last
               /\ \A i \in 1..(eventSeq - last) : ReplayOrder(from)[i] = last + i
<1> DEFINE last == IF from = -1 THEN 0 ELSE from
           n == Cardinality(Replayed(from))
<1>1. last \in Nat /\ last <= eventSeq
    OBVIOUS
<1>2. Replayed(from) = (last + 1)..eventSeq
    BY DEF Replayed, InRing
<1>3. n = eventSeq - last
    <2>1. last + 1 \in Int /\ eventSeq \in Int
        BY <1>1
    <2>2. Cardinality((last + 1)..eventSeq) = IF last + 1 > eventSeq THEN 0 ELSE eventSeq - (last + 1) + 1
        BY ONLY <2>1, FS_Interval
    <2> HIDE DEF last
    <2> QED BY <1>1, <1>2, <2>2
<1>4. ReplayOrder(from) = [i \in 1..n |-> eventSeq - n + i]
    BY DEF ReplayOrder
<1> HIDE DEF n, last
<1>5. n \in Nat /\ \A i \in 1..n : eventSeq - n + i = last + i /\ last + i \in Nat
    BY <1>1, <1>3
<1>6. ReplayOrder(from) = [i \in 1..n |-> last + i]
    BY <1>4, <1>5
<1> QED BY <1>3, <1>5, <1>6 DEF last

LEMMA subscribeKeepsInv ==
    ASSUME StreamInv, subscribe
    PROVE  StreamInv'
<1> USE DEF StreamInv, StreamTyped
<1> DEFINE events == ReplayOrder(lastSeq)
           w == FoldLeft(WriteTo, Empty, events)
           stalled == Len(events) > WATERMARK + 1
           gone == \E e \in 1..eventSeq : e > lastSeq /\ e \notin InRing
           restarted == lastSeq > eventSeq \/ (received = <<>> /\ lastSeq > 0)
<1>1. /\ connected' = TRUE /\ socket' = w.socket /\ backQueue' = w.queue
      /\ eventSeq' = eventSeq /\ lastSeq' = lastSeq /\ received' = received
    BY DEF subscribe
<1>2. spoiled' = spoiled \cup (IF stalled THEN {"stalled"} ELSE {})
                         \cup (IF gone THEN {"ring"} ELSE {})
                         \cup (IF restarted THEN {"restarted"} ELSE {})
    BY DEF subscribe
<1>3. events \in Seq(Nat)
    <2> DEFINE n == Cardinality(Replayed(lastSeq))
    <2>1. Replayed(lastSeq) \subseteq 1..eventSeq /\ eventSeq \in Int /\ 1 \in Int
        BY DEF Replayed, InRing
    <2>2. IsFiniteSet(1..eventSeq) /\ Cardinality(1..eventSeq) = eventSeq
        BY ONLY <2>1, FS_Interval, eventSeq \in Nat
    <2>3. n \in Nat /\ n <= eventSeq
        BY <2>1, <2>2, FS_Subset, FS_CardinalityType
    <2>4. events = [i \in 1..n |-> eventSeq - n + i]
        BY DEF ReplayOrder
    <2> HIDE DEF n, events
    <2>5. \A i \in 1..n : eventSeq - n + i \in Nat
        BY <2>3
    <2> QED BY <2>3, <2>4, <2>5
<1> HIDE DEF events
<1>4. w \in WriteType
    BY <1>3, ReplayTyped
<1>5. StreamTyped'
    BY <1>1, <1>4 DEF WriteType
<1>6. ASSUME spoiled' = {}
      PROVE  Unspoiled'
    <2>1. spoiled = {} /\ ~stalled /\ ~gone /\ ~restarted
        BY <1>2, <1>6
    <2> HIDE DEF stalled, gone, restarted
    <2>2. PICK a \in Int : RunsFrom(a)
        BY <2>1 DEF Unspoiled
    <2> DEFINE last == IF lastSeq = -1 THEN 0 ELSE lastSeq
               b == IF received = <<>> THEN 1 ELSE a
    <2>3. lastSeq <= eventSeq /\ (received = <<>> => last = 0)
        BY <2>1 DEF restarted
    <2>4. \A e \in 1..eventSeq : e > lastSeq => e \in InRing
        BY <2>1 DEF gone
    <2>5. /\ Len(events) = eventSeq - last
          /\ \A i \in 1..(eventSeq - last) : events[i] = last + i
        BY <2>3, <2>4, ReplayIsRest DEF events
    <2>6. Len(events) <= WATERMARK + 1
        BY <1>3, <2>1, StreamAssumption DEF stalled
    <2>7. /\ w.socket \in Seq(Nat) /\ w.queue = <<>>
          /\ Len(w.socket) = Len(events)
          /\ \A i \in 1..Len(events) : w.socket[i] = events[i]
        BY <1>3, <2>6, ReplayWritten
    <2> HIDE DEF w
    <2>8. b \in Int /\ last = b + Len(received) - 1
        <3>1. CASE received = <<>>
            BY <2>3, <3>1
        <3>2. CASE received # <<>>
            <4>1. lastSeq = a + Len(received) - 1 /\ Len(received) \in Nat
                BY <2>2, <3>2 DEF RunsFrom
            <4>2. received[1] = a /\ received[1] \in Nat /\ Len(received) >= 1
                <5>1. 1 \in 1..Len(received)
                    BY <3>2
                <5> QED BY <2>2, <5>1 DEF RunsFrom
            <4> QED BY <3>2, <4>1, <4>2
        <3> QED BY <3>1, <3>2
    <2>9. \A i \in 1..Len(received) : received[i] = b + i - 1
        <3>1. received = <<>> => Len(received) = 0
            OBVIOUS
        <3> QED BY <2>2, <3>1 DEF RunsFrom
    <2>10. received # <<>> => lastSeq = b + Len(received) - 1
        BY <2>2 DEF RunsFrom
    <2>13. PICK c \in Int : c = b
        BY <2>8
    <2> HIDE DEF b, last
    <2>11. /\ Len(socket') = eventSeq - last
           /\ \A i \in 1..Len(socket') : socket'[i] = last + i
        BY <1>1, <2>5, <2>7
    <2>12. RunsFrom(c)'
        <3>1. Len(received) \in Nat /\ last \in Int /\ last = c + Len(received) - 1
            BY <2>8, <2>13
        <3>2. c + Len(received) + Len(socket') = eventSeq + 1
            BY <2>11, <3>1
        <3>3. \A i \in 1..Len(socket') : socket'[i] = c + Len(received) + i - 1
            BY <2>11, <3>1
        <3>4. /\ \A i \in 1..Len(received) : received[i] = c + i - 1
              /\ received # <<>> => lastSeq = c + Len(received) - 1
            BY <2>9, <2>10, <2>13
        <3> QED BY <1>1, <3>2, <3>3, <3>4 DEF RunsFrom
    <2> QED BY <1>1, <2>7, <2>12 DEF Unspoiled
<1> QED BY <1>5, <1>6

LEMMA publishEventKeepsInv ==
    ASSUME StreamInv, publishEvent
    PROVE  StreamInv'
<1> USE DEF StreamInv, StreamTyped
<1> DEFINE w == Written(socket, backQueue, eventSeq + 1)
<1>1. UNCHANGED <<connected, lastSeq, received>> /\ eventSeq' = eventSeq + 1
    BY DEF publishEvent
<1>2. CASE ~connected
    <2>1. UNCHANGED <<socket, backQueue, spoiled>>
        BY <1>2 DEF publishEvent
    <2>2. \A a \in Int : RunsFrom(a) => RunsFrom(a)'
        BY <1>1, <1>2, <2>1 DEF RunsFrom
    <2> QED BY <1>1, <2>1, <2>2 DEF Unspoiled
<1>3. CASE connected
    <2>1. /\ socket' = w.socket /\ backQueue' = w.queue
          /\ spoiled' = IF Room(socket) THEN spoiled ELSE spoiled \cup {"stalled"}
        BY <1>3 DEF publishEvent
    <2>2. w \in WriteType
        <3> DEFINE v == [socket |-> socket, queue |-> backQueue, dropped |-> FALSE]
        <3>1. v \in WriteType /\ v.socket = socket /\ v.queue = backQueue
            BY DEF WriteType
        <3> HIDE DEF v
        <3>2. WriteTo(v, eventSeq + 1) = w
            BY <3>1 DEF WriteTo
        <3> HIDE DEF w
        <3> QED BY <3>1, <3>2, WriteTyped
    <2>3. StreamTyped'
        BY <1>1, <2>1, <2>2 DEF WriteType
    <2>4. ASSUME spoiled' = {}
          PROVE  Unspoiled'
        <3>1. spoiled = {} /\ Room(socket)
            BY <2>1, <2>4
        <3>2. PICK a \in Int : RunsFrom(a)
            BY <3>1 DEF Unspoiled
        <3>3. socket' = Append(socket, eventSeq + 1) /\ backQueue' = <<>>
            BY <2>1, <3>1, WriteThrough DEF Unspoiled
        <3>4. /\ Len(socket') = Len(socket) + 1 /\ Len(socket) \in Nat /\ Len(received) \in Nat
              /\ \A i \in 1..Len(socket') :
                    socket'[i] = IF i <= Len(socket) THEN socket[i] ELSE eventSeq + 1
            BY <3>3
        <3>5. a + Len(received) + Len(socket) = eventSeq + 1
            BY <1>3, <3>2 DEF RunsFrom
        <3>6. \A i \in 1..Len(socket') : socket'[i] = a + Len(received) + i - 1
            <4> TAKE i \in 1..Len(socket')
            <4>1. CASE i <= Len(socket)
                <5>1. i \in 1..Len(socket)
                    BY <3>4, <4>1
                <5> QED BY <3>2, <3>4, <4>1, <5>1 DEF RunsFrom
            <4>2. CASE i = Len(socket) + 1
                <5>1. socket'[i] = eventSeq + 1
                    BY <3>4, <4>2
                <5> QED BY <3>4, <3>5, <4>2, <5>1
            <4> QED BY <3>4, <4>1, <4>2
        <3>7. a + Len(received) + Len(socket') = eventSeq' + 1
            BY <1>1, <3>4, <3>5
        <3>8. RunsFrom(a)'
            BY <1>1, <3>2, <3>6, <3>7 DEF RunsFrom
        <3> QED BY <3>3, <3>8 DEF Unspoiled
    <2> QED BY <2>3, <2>4
<1> QED BY <1>2, <1>3

LEMMA ClientReadsKeepsInv ==
    ASSUME StreamInv, ClientReads
    PROVE  StreamInv'
<1> USE DEF StreamInv, StreamTyped
<1>1. /\ socket # <<>> /\ lastSeq' = Head(socket) /\ received' = Append(received, Head(socket))
      /\ socket' = Tail(socket) /\ UNCHANGED <<eventSeq, connected, backQueue, spoiled>>
    BY DEF ClientReads
<1>2. /\ Head(socket) = socket[1] /\ Head(socket) \in Nat /\ 1 \in 1..Len(socket)
      /\ Tail(socket) \in Seq(Nat) /\ Len(Tail(socket)) = Len(socket) - 1
      /\ \A i \in 1..Len(Tail(socket)) : Tail(socket)[i] = socket[i + 1] /\ i + 1 \in 1..Len(socket)
      /\ Len(socket) \in Nat /\ Len(received) \in Nat
    BY <1>1
<1>3. /\ received' \in Seq(Nat) /\ Len(received') = Len(received) + 1 /\ received' # <<>>
      /\ \A i \in 1..Len(received') :
            received'[i] = IF i <= Len(received) THEN received[i] ELSE Head(socket)
    <2>1. received \in Seq(Nat) /\ received' = Append(received, Head(socket))
        BY <1>1
    <2> QED BY ONLY <1>2, <2>1
<1>4. StreamTyped'
    BY <1>1, <1>2, <1>3
<1>5. ASSUME NEW a \in Int, RunsFrom(a)
      PROVE  RunsFrom(a)'
    <2>1. Head(socket) = a + Len(received)
        BY <1>2, <1>5 DEF RunsFrom
    <2>2. \A i \in 1..Len(received') : received'[i] = a + i - 1
        <3> TAKE i \in 1..Len(received')
        <3>1. CASE i <= Len(received)
            <4>1. i \in 1..Len(received)
                BY <1>2, <1>3, <3>1
            <4> QED BY <1>3, <1>5, <3>1, <4>1 DEF RunsFrom
        <3>2. CASE i = Len(received) + 1
            <4>1. received'[i] = Head(socket)
                <5>1. ~(i <= Len(received))
                    BY <1>2, <3>2
                <5> QED BY <1>3, <5>1
            <4> QED BY <1>2, <2>1, <3>2, <4>1
        <3> QED BY <1>2, <1>3, <3>1, <3>2
    <2>3. \A i \in 1..Len(socket') : socket'[i] = a + Len(received') + i - 1
        <3> TAKE i \in 1..Len(socket')
        <3>1. socket'[i] = socket[i + 1] /\ i + 1 \in 1..Len(socket)
            BY <1>1, <1>2
        <3>2. socket[i + 1] = a + Len(received) + (i + 1) - 1
            BY <1>5, <3>1 DEF RunsFrom
        <3> QED BY <1>2, <1>3, <3>1, <3>2
    <2>4. connected' => a + Len(received') + Len(socket') = eventSeq' + 1
        <3>1. connected => a + Len(received) + Len(socket) = eventSeq + 1
            BY <1>5 DEF RunsFrom
        <3> QED BY <1>1, <1>2, <1>3, <3>1
    <2>5. lastSeq' = a + Len(received') - 1
        BY <1>1, <1>2, <1>3, <2>1
    <2> QED BY <2>2, <2>3, <2>4, <2>5 DEF RunsFrom
<1> QED BY <1>1, <1>4, <1>5 DEF Unspoiled

LEMMA StreamInitInv == StreamInit => StreamInv
<1> SUFFICES ASSUME StreamInit
             PROVE  StreamInv
    OBVIOUS
<1>1. <<>> \in Seq(Nat) /\ Len(<<>>) = 0
    OBVIOUS
<1>2. connected \in BOOLEAN /\ ~connected
    BY DEF StreamInit
<1>3. StreamTyped
    BY <1>1, <1>2 DEF StreamInit, StreamTyped
<1>4. RunsFrom(1)
    BY <1>1, <1>2 DEF StreamInit, RunsFrom
<1> QED BY <1>3, <1>4 DEF StreamInit, StreamInv, Unspoiled

LEMMA StreamNextInv ==
    ASSUME StreamInv, [StreamNext]_streamVars
    PROVE  StreamInv'
<1>0. <<>> \in Seq(Nat) /\ Len(<<>>) = 0
    OBVIOUS
<1>1. CASE publishEvent
    BY <1>1, publishEventKeepsInv
<1>2. CASE subscribe
    BY <1>2, subscribeKeepsInv
<1>3. CASE ClientReads
    BY <1>3, ClientReadsKeepsInv
<1>4. CASE ConnectionLost
    <2>1. /\ connected' = FALSE /\ socket' = <<>> /\ backQueue' = <<>>
          /\ UNCHANGED <<eventSeq, lastSeq, received, spoiled>>
        BY <1>4 DEF ConnectionLost
    <2>2. StreamTyped'
        BY <1>0, <2>1 DEF StreamInv, StreamTyped
    <2>3. \A a \in Int : RunsFrom(a) => RunsFrom(a)'
        BY <1>0, <2>1 DEF RunsFrom
    <2> QED BY <2>1, <2>2, <2>3 DEF StreamInv, Unspoiled
<1>5. CASE BackendRestarts
    <2>1. /\ connected' = FALSE /\ socket' = <<>> /\ backQueue' = <<>> /\ eventSeq' = 0
          /\ received' = <<>> /\ UNCHANGED lastSeq
        BY <1>5 DEF BackendRestarts
    <2>2. StreamTyped'
        BY <1>0, <2>1 DEF StreamInv, StreamTyped
    <2>3. \A a \in Int : RunsFrom(a)'
        BY <1>0, <2>1 DEF RunsFrom
    <2>4. 1 \in Int
        OBVIOUS
    <2> QED BY <2>1, <2>2, <2>3, <2>4 DEF StreamInv, Unspoiled
<1>6. CASE UNCHANGED streamVars
    BY <1>6 DEF streamVars, StreamInv, StreamTyped, Unspoiled, RunsFrom
<1> QED BY <1>1, <1>2, <1>3, <1>4, <1>5, <1>6 DEF StreamNext

\* For any ring, queue and watermark, and however often the connection is lost or
\* the backend restarts: what an unspoiled client has read is one run of events
\* (publishEvent, subscribe and its replay, the write of sse.ts, agentStream.ts).
THEOREM ResumesExactly == StreamSpec => []ResumeIsExact
<1>1. StreamInv /\ [StreamNext]_streamVars => StreamInv'
    BY StreamNextInv
<1>2. StreamInv => ResumeIsExact
    <2> SUFFICES ASSUME StreamInv, spoiled = {}, NEW i \in 1..Len(received)
                 PROVE  received[i] = received[1] + i - 1
        BY DEF ResumeIsExact
    <2>1. PICK a \in Int : RunsFrom(a)
        BY DEF StreamInv, Unspoiled
    <2>2. 1 \in 1..Len(received) /\ i \in Int
        BY DEF StreamInv, StreamTyped
    <2>3. received[i] = a + i - 1 /\ received[1] = a + 1 - 1
        BY <2>1, <2>2 DEF RunsFrom
    <2> QED BY <2>1, <2>2, <2>3
<1> QED BY StreamInitInv, <1>1, <1>2, PTL DEF StreamSpec

-------------------------------------------------------------------------------
(* The directives.  One tick is in flight, and every row it still has to look  *)
(* at is armed, for only it changes an armed row; so the row whose actions it  *)
(* executes is not one that ended.  While none of its actions has failed, all  *)
(* before the one it is at have been executed.                                 *)

TriggerType ==
    [pc : {"off", "find", "row", "execute", "mark"}, queue : SUBSET Threads, late : SUBSET Threads,
     k : Nat, failed : BOOLEAN]

DirectivesTyped ==
    /\ directive \in [Threads -> {"absent", "armed"} \cup Ended]
    /\ armedAt \in [Threads -> Nat]
    /\ overdue \in SUBSET Threads
    /\ executed \in [Threads -> UNION {[1..n -> Nat] : n \in Nat}]
    /\ \A d \in Threads : executed[d] \in [1..Length[d] -> Nat]
    /\ trigger \in [TriggerTicks -> TriggerType]

Done(d, n) == \A j \in 1..n : executed[d][j] > 0

IdleTick(t) == trigger[t].pc = "off" /\ trigger[t].queue = {}

BusyTick(t) ==
    /\ isRunning /\ trigger[t].pc # "off"
    /\ \A d \in trigger[t].queue : directive[d] = "armed"
    /\ trigger[t].pc \in {"execute", "mark"} => trigger[t].queue # {}
    /\ trigger[t].pc = "execute" =>
          /\ trigger[t].k \in 1..Length[HeadOf(t)]
          /\ ~trigger[t].failed => Done(HeadOf(t), trigger[t].k - 1)
    /\ trigger[t].pc = "mark" => Done(HeadOf(t), Length[HeadOf(t)])

OneTickRuns ==
    /\ \A t \in TriggerTicks : IdleTick(t) \/ BusyTick(t)
    /\ \A t, u \in TriggerTicks : trigger[t].pc # "off" /\ trigger[u].pc # "off" => t = u

FiredIsDone == \A d \in Threads : directive[d] = "fired" => Done(d, Length[d])

DirectivesInv == DirectivesTyped /\ OneTickRuns /\ FiredIsDone

EndedStays == \A d \in Threads : directive[d] \in Ended =>
                  directive'[d] = directive[d] /\ executed'[d] = executed[d]

LEMMA HeadIsQueued ==
    ASSUME DirectivesTyped, NEW t \in TriggerTicks, trigger[t].queue # {}
    PROVE  HeadOf(t) \in trigger[t].queue /\ HeadOf(t) \in Threads
<1> DEFINE q == trigger[t].queue
           s == {armedAt[d] : d \in q}
<1>1. q \in SUBSET Threads
    BY DEF DirectivesTyped, TriggerType
<1>2. s \in SUBSET Nat /\ s # {}
    BY <1>1 DEF DirectivesTyped
<1> HIDE DEF s
<1>3. PICK n \in s : \A m \in s : n <= m
    <2>1. Min(s) \in s /\ \A m \in s : Min(s) <= m
        BY <1>2, LeastIsMember
    <2> QED BY <2>1
<1>4. \E d \in q : \A e \in q : armedAt[d] <= armedAt[e]
    BY <1>3 DEF s
<1> QED BY <1>1, <1>4 DEF HeadOf

\* The steps of a tick t that is not idle: what has to be shown of the others is
\* that they are.
LEMMA OneTickIsEnough ==
    ASSUME DirectivesInv, NEW t \in TriggerTicks, trigger[t].pc # "off",
           NEW w \in TriggerType, Goes(t, w), IdleTick(t)' \/ BusyTick(t)'
    PROVE  OneTickRuns'
<1>1. \A u \in TriggerTicks : u # t => IdleTick(u) /\ trigger'[u] = trigger[u]
    BY DEF DirectivesInv, DirectivesTyped, OneTickRuns, Goes, BusyTick, IdleTick
<1>2. \A u \in TriggerTicks : u # t => IdleTick(u)'
    BY <1>1 DEF IdleTick
<1> QED BY <1>2 DEF OneTickRuns, IdleTick

LEMMA NextRowType ==
    ASSUME DirectivesTyped, NEW t \in TriggerTicks
    PROVE  /\ NextRow(t) \in TriggerType
           /\ NextRow(t).pc = "row" /\ NextRow(t).queue = trigger[t].queue \ {HeadOf(t)}
BY DEF DirectivesTyped, TriggerType, NextRow

LEMMA NoTriggerType == NoTrigger \in TriggerType /\ NoTrigger.pc = "off" /\ NoTrigger.queue = {}
BY DEF NoTrigger, TriggerType

\* Neither a new directive nor the clock disturbs a tick.
LEMMA RouteKeepsInv ==
    ASSUME DirectivesInv, NEW d \in Threads, armDirective(d) \/ LifetimePasses(d)
    PROVE  DirectivesInv' /\ EndedStays
<1> USE DEF DirectivesInv, DirectivesTyped
<1>1. trigger' = trigger /\ executed' = executed /\ isRunning' = isRunning
    BY DEF armDirective, LifetimePasses
<1>2. /\ directive' \in [Threads -> {"absent", "armed"} \cup Ended]
      /\ armedAt' \in [Threads -> Nat]
      /\ overdue' \in SUBSET Threads
    <2>1. CASE armDirective(d)
        <3> DEFINE before == {e \in Threads : directive[e] # "absent"}
        <3>1. Cardinality(before) \in Nat
            BY DirectivesAssumption, FS_Subset, FS_CardinalityType
        <3>2. armedAt' = [armedAt EXCEPT ![d] = Cardinality(before)]
            BY <2>1 DEF armDirective
        <3> HIDE DEF before
        <3> QED BY <2>1, <3>1, <3>2 DEF armDirective
    <2>2. CASE LifetimePasses(d)
        BY <2>2 DEF LifetimePasses
    <2> QED BY <2>1, <2>2
<1>3. \A e \in Threads : directive[e] # "absent" => directive'[e] = directive[e] /\ armedAt'[e] = armedAt[e]
    BY DEF armDirective, LifetimePasses
<1>4. \A e \in Threads : directive'[e] = "fired" => directive[e] = "fired"
    BY DEF armDirective, LifetimePasses
<1>5. OneTickRuns'
    <2>1. ASSUME NEW t \in TriggerTicks
          PROVE  IdleTick(t)' \/ BusyTick(t)'
        <3>1. CASE IdleTick(t)
            BY <1>1, <3>1 DEF IdleTick
        <3>2. CASE BusyTick(t)
            <4> DEFINE q == trigger[t].queue
            <4>1. \A e \in q : e \in Threads /\ directive[e] = "armed"
                BY <3>2 DEF BusyTick, TriggerType
            <4>2. \A e \in q : directive'[e] = "armed" /\ armedAt'[e] = armedAt[e]
                BY <1>3, <4>1
            <4>3. \A e \in q : (\A f \in q : armedAt'[e] <= armedAt'[f])
                                  <=> (\A f \in q : armedAt[e] <= armedAt[f])
                BY <4>2
            <4>4. HeadOf(t)' = HeadOf(t)
                BY <1>1, <4>3 DEF HeadOf
            <4> QED BY <1>1, <3>2, <4>2, <4>4 DEF BusyTick, Done
        <3> QED BY <3>1, <3>2 DEF OneTickRuns
    <2> QED BY <1>1, <2>1 DEF OneTickRuns
<1>6. FiredIsDone'
    BY <1>1, <1>4 DEF FiredIsDone, Done
<1>7. EndedStays
    BY <1>1, <1>3 DEF EndedStays, Ended
<1> QED BY <1>1, <1>2, <1>5, <1>6, <1>7

\* The steps that leave the rows and what was executed alone.
LEMMA QuietKeepsInv ==
    ASSUME DirectivesInv, NEW t \in TriggerTicks,
           UNCHANGED <<directive, armedAt, overdue, executed>>,
           NEW w \in TriggerType, Goes(t, w), OneTickRuns'
    PROVE  DirectivesInv' /\ EndedStays
<1>1. trigger' \in [TriggerTicks -> TriggerType]
    BY DEF DirectivesInv, DirectivesTyped, Goes
<1> QED BY <1>1 DEF DirectivesInv, DirectivesTyped, FiredIsDone, Done, EndedStays

LEMMA TickBeginsKeepsInv ==
    ASSUME DirectivesInv, NEW t \in TriggerTicks, TickBegins(t)
    PROVE  DirectivesInv' /\ EndedStays
<1> DEFINE w == [NoTrigger EXCEPT !.pc = "find", !.late = overdue]
<1>1. w \in TriggerType /\ w.pc = "find" /\ w.queue = {}
    BY DEF DirectivesInv, DirectivesTyped, NoTrigger, TriggerType
<1>2. Goes(t, w) /\ isRunning' = TRUE /\ ~isRunning
    BY DEF TickBegins
<1> HIDE DEF w
<1>3. trigger' = [trigger EXCEPT ![t] = w] /\ trigger \in [TriggerTicks -> TriggerType]
    BY <1>2 DEF Goes, DirectivesInv, DirectivesTyped
<1>4. \A u \in TriggerTicks : u # t => IdleTick(u)'
    BY <1>2, <1>3 DEF DirectivesInv, OneTickRuns, BusyTick, IdleTick
<1>5. BusyTick(t)'
    BY <1>1, <1>2, <1>3 DEF BusyTick
<1>6. OneTickRuns'
    BY <1>4, <1>5 DEF OneTickRuns, IdleTick
<1> QED BY <1>1, <1>2, <1>6, QuietKeepsInv DEF TickBegins

LEMMA FindKeepsInv ==
    ASSUME DirectivesInv, NEW t \in TriggerTicks, FindArmed(t)
    PROVE  DirectivesInv' /\ EndedStays
<1> DEFINE armed == {d \in Threads : directive[d] = "armed"}
           older(d) == {e \in armed : armedAt[e] < armedAt[d]}
           q == {d \in armed : Cardinality(older(d)) < BATCH}
           w == [trigger[t] EXCEPT !.pc = "row", !.queue = q]
<1>1. trigger[t].pc = "find" /\ trigger[t] \in TriggerType /\ trigger \in [TriggerTicks -> TriggerType]
    BY DEF FindArmed, DirectivesInv, DirectivesTyped
<1>2. q \in SUBSET Threads /\ \A d \in q : directive[d] = "armed"
    OBVIOUS
<1>3. Goes(t, w) /\ UNCHANGED <<directive, armedAt, overdue, executed, isRunning>>
    BY DEF FindArmed
<1> HIDE DEF q
<1>4. w \in TriggerType /\ w.pc = "row" /\ w.queue = q
    BY <1>1, <1>2 DEF TriggerType
<1> HIDE DEF w
<1>5. trigger'[t] = w
    BY <1>1, <1>3 DEF Goes
<1>6. BusyTick(t)'
    BY <1>1, <1>2, <1>3, <1>4, <1>5 DEF DirectivesInv, OneTickRuns, BusyTick, IdleTick
<1> QED BY <1>1, <1>3, <1>4, <1>6, OneTickIsEnough, QuietKeepsInv

LEMMA TickEndsKeepsInv ==
    ASSUME DirectivesInv, NEW t \in TriggerTicks, FindThrows(t) \/ TickReturns(t)
    PROVE  DirectivesInv' /\ EndedStays
<1>1. /\ trigger[t].pc # "off" /\ Goes(t, NoTrigger)
      /\ UNCHANGED <<directive, armedAt, overdue, executed>>
    BY DEF FindThrows, TickReturns
<1>2. IdleTick(t)'
    BY <1>1, NoTriggerType DEF Goes, DirectivesInv, DirectivesTyped, IdleTick
<1> QED BY <1>1, <1>2, NoTriggerType, OneTickIsEnough, QuietKeepsInv

LEMMA SkipOrFireKeepsInv ==
    ASSUME DirectivesInv, NEW t \in TriggerTicks, SkipDirective(t) \/ fireArmedDirective(t)
    PROVE  DirectivesInv' /\ EndedStays
<1> DEFINE v == [trigger[t] EXCEPT !.pc = "execute", !.k = 1]
<1>1. /\ trigger[t].pc = "row" /\ trigger[t].queue # {}
      /\ UNCHANGED <<directive, armedAt, overdue, executed, isRunning>>
    BY DEF SkipDirective, fireArmedDirective, Readable, LooksAt
<1>2. trigger[t] \in TriggerType /\ trigger \in [TriggerTicks -> TriggerType] /\ DirectivesTyped
    BY DEF DirectivesInv, DirectivesTyped
<1>3. /\ v \in TriggerType /\ v.pc = "execute" /\ v.k = 1 /\ v.queue = trigger[t].queue
    BY <1>2 DEF TriggerType
<1>4. BusyTick(t)
    BY <1>1 DEF DirectivesInv, OneTickRuns, IdleTick
<1>5. CASE SkipDirective(t)
    <2>1. Goes(t, NextRow(t))
        BY <1>5 DEF SkipDirective
    <2>2. trigger'[t] = NextRow(t)
        BY <1>2, <2>1 DEF Goes
    <2>3. BusyTick(t)'
        BY <1>1, <1>2, <1>4, <2>2, NextRowType DEF BusyTick
    <2> QED BY <1>1, <1>2, <2>1, <2>3, NextRowType, OneTickIsEnough, QuietKeepsInv
<1>6. CASE fireArmedDirective(t)
    <2>1. Goes(t, v)
        BY <1>6 DEF fireArmedDirective
    <2> HIDE DEF v
    <2>2. trigger'[t] = v
        BY <1>2, <2>1 DEF Goes
    <2>3. HeadOf(t)' = HeadOf(t)
        BY <1>1, <1>3, <2>2 DEF HeadOf
    <2>4. HeadOf(t) \in Threads /\ Length[HeadOf(t)] \in Nat \ {0}
        BY <1>1, <1>2, HeadIsQueued, DirectivesAssumption
    <2>5. BusyTick(t)'
        BY <1>1, <1>3, <1>4, <2>2, <2>3, <2>4 DEF BusyTick, Done
    <2> QED BY <1>1, <1>3, <2>1, <2>5, OneTickIsEnough, QuietKeepsInv
<1> QED BY <1>5, <1>6

\* A row leaves "armed" with a status that it keeps; "fired" says that all of its
\* actions have executed.
LEMMA MarksKeepsInv ==
    ASSUME DirectivesInv, NEW t \in TriggerTicks, NEW outcome \in Ended, Marks(t, outcome),
           trigger[t].pc \in {"row", "mark"}, trigger[t].queue # {},
           outcome = "fired" => trigger[t].pc = "mark"
    PROVE  DirectivesInv' /\ EndedStays
<1> USE DEF DirectivesInv
<1> DEFINE h == HeadOf(t)
<1>1. h \in trigger[t].queue /\ h \in Threads
    BY HeadIsQueued
<1>2. BusyTick(t)
    BY DEF OneTickRuns, IdleTick
<1>3. directive[h] = "armed"
    BY <1>1, <1>2 DEF BusyTick
<1>4. /\ directive' = [directive EXCEPT ![h] = outcome] \/ directive' = directive
      /\ Goes(t, NextRow(t)) /\ UNCHANGED <<armedAt, overdue, executed, isRunning>>
    BY DEF Marks
<1> HIDE DEF h
<1>5. directive' \in [Threads -> {"absent", "armed"} \cup Ended]
    BY <1>4 DEF DirectivesTyped
<1>6. \A d \in Threads : d # h => directive'[d] = directive[d]
    BY <1>4 DEF DirectivesTyped
<1>7. trigger' = [trigger EXCEPT ![t] = NextRow(t)] /\ trigger \in [TriggerTicks -> TriggerType]
    BY <1>4 DEF Goes, DirectivesTyped
<1>8. /\ NextRow(t) \in TriggerType /\ NextRow(t).pc = "row"
      /\ NextRow(t).queue = trigger[t].queue \ {h}
    BY NextRowType DEF h
<1>9. BusyTick(t)'
    <2>1. \A d \in trigger[t].queue : d \in Threads
        BY DEF DirectivesTyped, TriggerType
    <2> QED BY <1>2, <1>4, <1>6, <1>7, <1>8, <2>1 DEF BusyTick
<1>10. OneTickRuns'
    BY <1>4, <1>8, <1>9, OneTickIsEnough
<1>11. FiredIsDone'
    <2>1. directive'[h] = "fired" => Done(h, Length[h])
        <3>1. directive'[h] = "fired" => outcome = "fired"
            BY <1>1, <1>3, <1>4 DEF DirectivesTyped
        <3> QED BY <1>2, <3>1 DEF BusyTick, h
    <2> QED BY <1>4, <1>6, <2>1 DEF FiredIsDone, Done
<1>12. EndedStays
    BY <1>3, <1>4, <1>6 DEF EndedStays, Ended
<1>13. DirectivesTyped'
    BY <1>4, <1>5, <1>7, <1>8 DEF DirectivesTyped
<1> QED BY <1>10, <1>11, <1>12, <1>13

\* An action is executed, or fails, and the next one follows.
LEMMA ActionKeepsInv ==
    ASSUME DirectivesInv, NEW t \in TriggerTicks, ActionReturns(t)
    PROVE  DirectivesInv' /\ EndedStays
<1> USE DEF DirectivesInv
<1> DEFINE h == HeadOf(t)
           k == trigger[t].k
<1>1. trigger[t].pc = "execute" /\ UNCHANGED <<directive, armedAt, overdue, isRunning>>
    BY DEF ActionReturns
<1>2. BusyTick(t)
    BY <1>1 DEF OneTickRuns, IdleTick
<1>3. /\ trigger[t].queue # {} /\ k \in 1..Length[h]
      /\ ~trigger[t].failed => Done(h, k - 1)
    BY <1>1, <1>2 DEF BusyTick
<1>4. h \in trigger[t].queue /\ h \in Threads /\ directive[h] = "armed"
    BY <1>2, <1>3, HeadIsQueued DEF BusyTick
<1>5. trigger[t] \in TriggerType /\ trigger \in [TriggerTicks -> TriggerType]
    BY DEF DirectivesTyped
<1>6. Length[h] \in Nat
    BY <1>4, DirectivesAssumption
<1>7. PICK ok \in BOOLEAN :
         LET failed == trigger[t].failed \/ ~ok
         IN  /\ executed' = IF ok THEN [executed EXCEPT ![h][k] = @ + 1] ELSE executed
             /\ Goes(t, IF k < Length[h] THEN [trigger[t] EXCEPT !.k = k + 1, !.failed = failed]
                        ELSE IF failed THEN NextRow(t)
                        ELSE [trigger[t] EXCEPT !.pc = "mark"])
    BY DEF ActionReturns
<1> DEFINE failed == trigger[t].failed \/ ~ok
           again == [trigger[t] EXCEPT !.k = k + 1, !.failed = failed]
           done == [trigger[t] EXCEPT !.pc = "mark"]
<1>8. /\ again \in TriggerType /\ again.pc = "execute" /\ again.k = k + 1
      /\ again.failed = failed /\ again.queue = trigger[t].queue
    <2>1. failed \in BOOLEAN /\ k + 1 \in Nat
        BY <1>3, <1>5, <1>6 DEF TriggerType
    <2> HIDE DEF failed
    <2> QED BY <1>1, <1>5, <2>1 DEF TriggerType
<1>9. done \in TriggerType /\ done.pc = "mark" /\ done.queue = trigger[t].queue
    BY <1>5 DEF TriggerType
<1>10. /\ NextRow(t) \in TriggerType /\ NextRow(t).pc = "row"
       /\ NextRow(t).queue = trigger[t].queue \ {h}
    BY NextRowType
<1>11. PICK w : w = IF k < Length[h] THEN again ELSE IF failed THEN NextRow(t) ELSE done
    OBVIOUS
<1>12. Goes(t, w)
    BY <1>7, <1>11
<1> HIDE DEF again, done, failed, h, k
<1>13. w \in TriggerType
    BY <1>8, <1>9, <1>10, <1>11
<1>14. trigger' = [trigger EXCEPT ![t] = w] /\ trigger'[t] = w
    BY <1>5, <1>12 DEF Goes
<1>15. /\ executed' \in [Threads -> UNION {[1..n -> Nat] : n \in Nat}]
       /\ \A d \in Threads : executed'[d] \in [1..Length[d] -> Nat]
       /\ \A d \in Threads : d # h => executed'[d] = executed[d]
       /\ \A j \in 1..Length[h] : executed'[h][j] >= executed[h][j]
       /\ ok => executed'[h][k] > 0
    <2>1. executed[h] \in [1..Length[h] -> Nat]
        BY <1>4 DEF DirectivesTyped
    <2>2. CASE ~ok
        <3>1. executed' = executed
            BY <1>7, <2>2
        <3>2. \A n \in Nat : n >= n
            OBVIOUS
        <3>3. \A j \in 1..Length[h] : executed[h][j] >= executed[h][j]
            BY <2>1, <3>2
        <3> QED BY <2>2, <3>1, <3>3 DEF DirectivesTyped
    <2>3. CASE ok
        <3> DEFINE f == [executed[h] EXCEPT ![k] = @ + 1]
        <3>1. executed' = [executed EXCEPT ![h] = f]
            BY <1>7, <2>3 DEF h, k
        <3>2. /\ f \in [1..Length[h] -> Nat] /\ f[k] > 0
              /\ \A j \in 1..Length[h] : f[j] >= executed[h][j]
            <4>1. k \in 1..Length[h] /\ executed[h][k] \in Nat
                BY <1>3, <2>1
            <4>2. f = [executed[h] EXCEPT ![k] = executed[h][k] + 1]
                OBVIOUS
            <4> HIDE DEF f
            <4> QED BY ONLY <1>6, <2>1, <4>1, <4>2
        <3> HIDE DEF f
        <3>3. f \in UNION {[1..n -> Nat] : n \in Nat}
            BY <1>6, <3>2
        <3> QED BY <1>4, <3>1, <3>2, <3>3 DEF DirectivesTyped
    <2> QED BY <2>2, <2>3
<1>16. ~failed => \A j \in 1..k : executed'[h][j] > 0
    <2> SUFFICES ASSUME ~failed, NEW j \in 1..k
                 PROVE  executed'[h][j] > 0
        OBVIOUS
    <2>1. ok /\ ~trigger[t].failed
        BY DEF failed
    <2>4. executed[h] \in [1..Length[h] -> Nat] /\ executed'[h] \in [1..Length[h] -> Nat]
        BY <1>4, <1>15 DEF DirectivesTyped
    <2>2. CASE j = k
        BY ONLY <1>15, <2>1, <2>2
    <2>3. CASE j # k
        <3>1. j \in 1..(k - 1) /\ j \in 1..Length[h]
            BY <1>3, <1>6, <2>3
        <3>2. executed[h][j] > 0
            BY ONLY <1>3, <2>1, <3>1 DEF Done
        <3>3. executed'[h][j] >= executed[h][j]
            BY ONLY <1>15, <3>1
        <3>4. executed[h][j] \in Nat /\ executed'[h][j] \in Nat
            BY ONLY <2>4, <3>1
        <3> QED BY ONLY <3>2, <3>3, <3>4
    <2> QED BY <2>2, <2>3
<1>17. DirectivesTyped'
    BY <1>1, <1>5, <1>13, <1>14, <1>15 DEF DirectivesTyped
<1>18. BusyTick(t)'
    <2>1. isRunning' /\ \A d \in trigger[t].queue : directive'[d] = "armed"
        BY <1>1, <1>2 DEF BusyTick
    <2>2. w.queue = trigger[t].queue => HeadOf(t)' = h
        BY <1>1, <1>14 DEF HeadOf, h
    <2>3. CASE k < Length[h]
        <3>1. w = again
            BY <1>11, <2>3
        <3>2. k + 1 \in 1..Length[h] /\ (k + 1) - 1 = k
            BY <1>3, <1>6, <2>3
        <3> QED BY <1>3, <1>8, <1>14, <1>16, <2>1, <2>2, <3>1, <3>2 DEF BusyTick, Done
    <2>4. CASE ~(k < Length[h]) /\ failed
        <3>1. w = NextRow(t)
            BY <1>11, <2>4
        <3> QED BY <1>10, <1>14, <2>1, <3>1 DEF BusyTick
    <2>5. CASE ~(k < Length[h]) /\ ~failed
        <3>1. w = done
            BY <1>11, <2>5
        <3>2. k = Length[h]
            BY <1>3, <1>6, <2>5
        <3> QED BY <1>3, <1>9, <1>14, <1>16, <2>1, <2>2, <2>5, <3>1, <3>2 DEF BusyTick, Done
    <2> QED BY <2>3, <2>4, <2>5
<1>19. OneTickRuns'
    BY <1>1, <1>12, <1>13, <1>18, OneTickIsEnough
<1>20. FiredIsDone'
    BY <1>1, <1>4, <1>15 DEF FiredIsDone, Done
<1>21. EndedStays
    BY <1>1, <1>4, <1>15 DEF EndedStays, Ended
<1> QED BY <1>17, <1>19, <1>20, <1>21

LEMMA DirectivesInitInv == DirectivesInit => DirectivesInv
<1> SUFFICES ASSUME DirectivesInit
             PROVE  DirectivesInv
    OBVIOUS
<1>1. \A d \in Threads : Length[d] \in Nat
    BY DirectivesAssumption
<1>2. \A d \in Threads : executed[d] \in [1..Length[d] -> Nat]
    BY DEF DirectivesInit
<1>3. executed \in [Threads -> UNION {[1..n -> Nat] : n \in Nat}]
    BY <1>1 DEF DirectivesInit
<1>4. DirectivesTyped
    BY <1>2, <1>3, NoTriggerType DEF DirectivesInit, DirectivesTyped
<1> QED BY <1>4, NoTriggerType DEF DirectivesInit, DirectivesInv, OneTickRuns, IdleTick, FiredIsDone

LEMMA DirectivesNextInv ==
    ASSUME DirectivesInv, [DirectivesNext]_directiveVars
    PROVE  DirectivesInv' /\ EndedStays
<1>1. ASSUME NEW d \in Threads, armDirective(d) \/ LifetimePasses(d)
      PROVE  DirectivesInv' /\ EndedStays
    BY <1>1, RouteKeepsInv
<1>2. ASSUME NEW t \in TriggerTicks, TriggerStep(t)
      PROVE  DirectivesInv' /\ EndedStays
    <2>1. CASE TickBegins(t)
        BY <2>1, TickBeginsKeepsInv
    <2>2. CASE FindArmed(t)
        BY <2>2, FindKeepsInv
    <2>3. CASE FindThrows(t) \/ TickReturns(t)
        BY <2>3, TickEndsKeepsInv
    <2>4. CASE SkipDirective(t) \/ fireArmedDirective(t)
        BY <2>4, SkipOrFireKeepsInv
    <2>5. CASE markDirectiveExpired(t)
        BY <2>5, MarksKeepsInv DEF markDirectiveExpired, LooksAt, Ended
    <2>6. CASE CancelDrifted(t)
        BY <2>6, MarksKeepsInv DEF CancelDrifted, LooksAt, Ended
    <2>7. CASE markDirectiveFired(t)
        <3>1. trigger[t].pc = "mark" /\ Marks(t, "fired")
            BY <2>7 DEF markDirectiveFired
        <3>2. trigger[t].queue # {}
            BY <3>1 DEF DirectivesInv, OneTickRuns, IdleTick, BusyTick
        <3> QED BY <3>1, <3>2, MarksKeepsInv DEF Ended
    <2>8. CASE ActionReturns(t)
        BY <2>8, ActionKeepsInv
    <2> QED BY <1>2, <2>1, <2>2, <2>3, <2>4, <2>5, <2>6, <2>7, <2>8 DEF TriggerStep
<1>3. CASE WatcherRestarts
    <2>1. /\ trigger' = [t \in TriggerTicks |-> NoTrigger]
          /\ UNCHANGED <<directive, armedAt, overdue, executed>>
        BY <1>3 DEF WatcherRestarts
    <2>2. DirectivesTyped'
        BY <2>1, NoTriggerType DEF DirectivesInv, DirectivesTyped
    <2>3. OneTickRuns'
        BY <2>1, NoTriggerType DEF OneTickRuns, IdleTick
    <2> QED BY <2>1, <2>2, <2>3 DEF DirectivesInv, FiredIsDone, Done, EndedStays
<1>4. CASE UNCHANGED directiveVars
    BY <1>4 DEF directiveVars, DirectivesInv, DirectivesTyped, OneTickRuns, IdleTick, BusyTick,
                HeadOf, FiredIsDone, Done, EndedStays
<1> QED BY <1>1, <1>2, <1>3, <1>4 DEF DirectivesNext

\* For any directives, ticks and faults: a directive that ended stays as it ended,
\* nothing of it is executed again, and "fired" says that all of it was executed
\* (tick of triggerWatcher.ts, runStrategyExecutor, markDirectiveFired).
THEOREM EndedForGood == DirectivesSpec => EndIsFinal
<1>1. DirectivesInv /\ [DirectivesNext]_directiveVars => DirectivesInv'
    BY DirectivesNextInv
<1>2. DirectivesInv /\ [DirectivesNext]_directiveVars
        => [\A d \in Threads :
               /\ directive[d] \in Ended => directive'[d] = directive[d] /\ executed'[d] = executed[d]
               /\ directive'[d] = "fired" => \A k \in 1..Length[d] : executed'[d][k] > 0
           ]_directiveVars
    <2> SUFFICES ASSUME DirectivesInv, [DirectivesNext]_directiveVars,
                        NEW d \in Threads
                 PROVE  /\ directive[d] \in Ended =>
                              directive'[d] = directive[d] /\ executed'[d] = executed[d]
                        /\ directive'[d] = "fired" => \A k \in 1..Length[d] : executed'[d][k] > 0
        OBVIOUS
    <2>1. EndedStays
        BY DirectivesNextInv
    <2>2. FiredIsDone'
        BY <1>1 DEF DirectivesInv
    <2> QED BY <2>1, <2>2 DEF EndedStays, FiredIsDone, Done
<1> QED BY DirectivesInitInv, <1>1, <1>2, PTL DEF DirectivesSpec, EndIsFinal

(* The watcher's flag.  Every way out of a tick resets isRunning, the one by a   *)
(* failed query included, so that the flag never outlives its tick; and a tick   *)
(* comes to a row with no failure left over from the row before.                 *)

\* isRunning says that a tick is in flight, one.
WatcherFlagIsTrue ==
    /\ isRunning <=> \E t \in TriggerTicks : trigger[t].pc # "off"
    /\ \A t, u \in TriggerTicks : trigger[t].pc # "off" /\ trigger[u].pc # "off" => t = u

RowsStartClean ==
    \A t \in TriggerTicks :
        \/ trigger[t].pc \in {"off", "find", "row"}
        \/ trigger[t].pc = "execute" /\ trigger[t].k = 1
        => ~trigger[t].failed

WatcherInv == DirectivesInv /\ WatcherFlagIsTrue /\ RowsStartClean

\* A tick that goes on, and the others that do not run.
LEMMA TickGoesOn ==
    ASSUME WatcherInv, OneTickRuns', NEW t \in TriggerTicks, NEW w, Goes(t, w), w.pc # "off",
           \/ w.pc \in {"off", "find", "row"}
           \/ w.pc = "execute" /\ w.k = 1
           => ~w.failed
    PROVE  WatcherFlagIsTrue' /\ RowsStartClean'
<1>1. trigger' = [trigger EXCEPT ![t] = w] /\ trigger'[t] = w
    BY DEF Goes, WatcherInv, DirectivesInv, DirectivesTyped
<1>2. \A u \in TriggerTicks : trigger'[u].pc # "off" => isRunning'
    BY DEF OneTickRuns, IdleTick, BusyTick
<1> QED BY <1>1, <1>2 DEF WatcherInv, WatcherFlagIsTrue, RowsStartClean, OneTickRuns

LEMMA WatcherNextInv ==
    ASSUME WatcherInv, [DirectivesNext]_directiveVars
    PROVE  WatcherInv'
<1> USE DEF WatcherInv
<1>1. DirectivesInv' /\ OneTickRuns'
    BY DirectivesNextInv DEF DirectivesInv
<1>2. trigger \in [TriggerTicks -> TriggerType]
    BY DEF DirectivesInv, DirectivesTyped
<1> DEFINE kept == WatcherFlagIsTrue' /\ RowsStartClean'
<1>3. ASSUME isRunning' = isRunning, trigger' = trigger
      PROVE  kept
    BY <1>3 DEF WatcherFlagIsTrue, RowsStartClean
<1>4. ASSUME NEW t \in TriggerTicks, TriggerStep(t)
      PROVE  kept
    <2>1. CASE TickBegins(t)
        <3> DEFINE w == [NoTrigger EXCEPT !.pc = "find", !.late = overdue]
        <3>1. Goes(t, w) /\ w.pc = "find" /\ ~w.failed
            BY <2>1 DEF TickBegins, NoTrigger
        <3> HIDE DEF w
        <3> QED BY <1>1, <3>1, TickGoesOn
    <2>2. CASE FindArmed(t)
        <3> DEFINE armed == {d \in Threads : directive[d] = "armed"}
                   older(d) == {e \in armed : armedAt[e] < armedAt[d]}
                   q == {d \in armed : Cardinality(older(d)) < BATCH}
                   w == [trigger[t] EXCEPT !.pc = "row", !.queue = q]
        <3>1. Goes(t, w) /\ trigger[t].pc = "find"
            BY <2>2 DEF FindArmed
        <3> HIDE DEF q
        <3>2. w.pc = "row" /\ w.failed = trigger[t].failed
            BY <1>2 DEF TriggerType
        <3>3. ~trigger[t].failed
            BY <3>1 DEF RowsStartClean
        <3> HIDE DEF w
        <3> QED BY <1>1, <3>1, <3>2, <3>3, TickGoesOn
    <2>3. CASE FindThrows(t) \/ TickReturns(t)
        <3>1. /\ trigger[t].pc # "off" /\ isRunning' = FALSE
              /\ trigger' = [trigger EXCEPT ![t] = NoTrigger]
            BY <2>3 DEF FindThrows, TickReturns, Goes
        <3>2. \A u \in TriggerTicks : trigger'[u].pc = "off" /\ ~trigger'[u].failed
            BY <1>2, <3>1 DEF WatcherFlagIsTrue, RowsStartClean, NoTrigger
        <3> QED BY <3>1, <3>2 DEF WatcherFlagIsTrue, RowsStartClean
    <2>4. CASE Goes(t, NextRow(t))
        <3>1. NextRow(t).pc = "row" /\ ~NextRow(t).failed
            BY <1>2 DEF NextRow, TriggerType
        <3> QED BY <1>1, <2>4, <3>1, TickGoesOn
    <2>5. CASE fireArmedDirective(t)
        <3> DEFINE w == [trigger[t] EXCEPT !.pc = "execute", !.k = 1]
        <3>1. Goes(t, w) /\ trigger[t].pc = "row"
            BY <2>5 DEF fireArmedDirective, Readable, LooksAt
        <3>2. w.pc = "execute" /\ w.failed = trigger[t].failed
            BY <1>2 DEF TriggerType
        <3>3. ~trigger[t].failed
            BY <3>1 DEF RowsStartClean
        <3> HIDE DEF w
        <3> QED BY <1>1, <3>1, <3>2, <3>3, TickGoesOn
    <2>6. CASE ActionReturns(t)
        <3>1. trigger[t].pc = "execute" /\ trigger[t].k \in Nat /\ trigger[t].k >= 1
            <4>1. trigger[t].pc = "execute"
                BY <2>6 DEF ActionReturns
            <4>2. BusyTick(t) /\ trigger[t] \in TriggerType
                BY <1>2, <4>1 DEF DirectivesInv, OneTickRuns, IdleTick
            <4> QED BY <4>1, <4>2 DEF BusyTick, TriggerType
        <3>2. PICK failed \in BOOLEAN :
                 \/ Goes(t, [trigger[t] EXCEPT !.k = trigger[t].k + 1, !.failed = failed])
                 \/ Goes(t, NextRow(t))
                 \/ Goes(t, [trigger[t] EXCEPT !.pc = "mark"])
            BY <1>2, <2>6 DEF ActionReturns, TriggerType
        <3>3. CASE Goes(t, [trigger[t] EXCEPT !.k = trigger[t].k + 1, !.failed = failed])
            <4> DEFINE w == [trigger[t] EXCEPT !.k = trigger[t].k + 1, !.failed = failed]
            <4>1. w.pc = "execute" /\ w.k # 1
                BY <1>2, <3>1 DEF TriggerType
            <4> HIDE DEF w
            <4>2. Goes(t, w)
                BY <3>3 DEF w
            <4> QED BY <1>1, <4>1, <4>2, TickGoesOn
        <3>4. CASE Goes(t, [trigger[t] EXCEPT !.pc = "mark"])
            <4> DEFINE w == [trigger[t] EXCEPT !.pc = "mark"]
            <4>1. w.pc = "mark"
                BY <1>2 DEF TriggerType
            <4> HIDE DEF w
            <4>2. Goes(t, w)
                BY <3>4 DEF w
            <4> QED BY <1>1, <4>1, <4>2, TickGoesOn
        <3> QED BY <2>4, <3>2, <3>3, <3>4
    <2> QED BY <1>4, <2>1, <2>2, <2>3, <2>4, <2>5, <2>6
            DEF TriggerStep, SkipDirective, markDirectiveExpired, CancelDrifted,
                markDirectiveFired, Marks
<1>5. CASE WatcherRestarts
    <2>1. isRunning' = FALSE /\ trigger' = [t \in TriggerTicks |-> NoTrigger]
        BY <1>5 DEF WatcherRestarts
    <2> QED BY <1>1, <2>1 DEF WatcherFlagIsTrue, RowsStartClean, NoTrigger
<1>6. ASSUME NEW d \in Threads, armDirective(d) \/ LifetimePasses(d)
      PROVE  kept
    BY <1>3, <1>6 DEF armDirective, LifetimePasses
<1>7. UNCHANGED directiveVars => isRunning' = isRunning /\ trigger' = trigger
    BY DEF directiveVars
<1> QED BY <1>1, <1>3, <1>4, <1>5, <1>6, <1>7 DEF DirectivesNext

LEMMA WatcherInitInv == DirectivesInit => WatcherInv
BY DirectivesInitInv DEF DirectivesInit, NoTrigger, WatcherInv, WatcherFlagIsTrue, RowsStartClean

\* Whatever throws in a tick, and wherever the process dies, isRunning is set exactly
\* while the one tick is in flight: no tick runs beside another, and none that has
\* ended stops the next (tick of triggerWatcher.ts and its finally).
THEOREM FlagFollowsTick == DirectivesSpec => []WatcherFlagIsTrue
<1>1. WatcherInv /\ [DirectivesNext]_directiveVars => WatcherInv'
    BY WatcherNextInv
<1>2. WatcherInv => WatcherFlagIsTrue
    BY DEF WatcherInv
<1> QED BY WatcherInitInv, <1>1, <1>2, PTL DEF DirectivesSpec

(* How often an action is executed.  "Idempotency via markDirectiveFired" would  *)
(* make it once; a decision of several actions is executed again as a whole when *)
(* one of them failed.  For a decision of one action the comment is right up to  *)
(* the faults: an execution is booked by the tick that is about to mark the row, *)
(* then by the row, and only a fault loses the booking.                          *)

Booked(d) ==
    \/ directive[d] = "fired"
    \/ \E t \in TriggerTicks : trigger[t].pc = "mark" /\ HeadOf(t) = d

SinglesAreBooked ==
    /\ faults \in Nat
    /\ \A d \in Threads : Length[d] = 1 =>
           executed[d][1] <= faults + (IF Booked(d) THEN 1 ELSE 0)

\* A directive of one action executes it once, and once more for each crash or failed
\* write.
SinglesRunOnce == \A d \in Threads : Length[d] = 1 => executed[d][1] <= 1 + faults

\* What is booked stays so, unless a fault intervenes.
LEMMA BookedStays ==
    ASSUME DirectivesInv, [DirectivesNext]_directiveVars, faults' = faults, faults \in Nat,
           NEW d \in Threads, Booked(d)
    PROVE  Booked(d)'
<1>1. EndedStays
    BY DirectivesNextInv
<1>2. CASE directive[d] = "fired"
    BY <1>1, <1>2 DEF EndedStays, Ended, Booked
<1>3. CASE directive[d] # "fired"
    <2>1. PICK u \in TriggerTicks : trigger[u].pc = "mark" /\ HeadOf(u) = d
        BY <1>3 DEF Booked
    <2>2. BusyTick(u) /\ trigger \in [TriggerTicks -> TriggerType]
        BY <2>1 DEF DirectivesInv, DirectivesTyped, OneTickRuns, IdleTick
    <2>3. isRunning /\ trigger[u].queue # {} /\ \A e \in trigger[u].queue : directive[e] = "armed"
        BY <2>1, <2>2 DEF BusyTick
    <2>4. ASSUME NEW t \in TriggerTicks, TriggerStep(t)
          PROVE  directive'[d] = "fired"
        <3>1. ~TickBegins(t)
            BY <2>3 DEF TickBegins
        <3>2. trigger[t].pc # "off"
            BY <2>4, <3>1 DEF TriggerStep, FindArmed, FindThrows, TickReturns, markDirectiveExpired,
               CancelDrifted, SkipDirective, fireArmedDirective, ActionReturns, markDirectiveFired,
               Readable, LooksAt
        <3>3. t = u
            BY <2>1, <3>2 DEF DirectivesInv, OneTickRuns
        <3>4. markDirectiveFired(u)
            BY <2>1, <2>4, <3>1, <3>3 DEF TriggerStep, FindArmed, FindThrows, TickReturns,
               markDirectiveExpired, CancelDrifted, SkipDirective, fireArmedDirective,
               ActionReturns, Readable, LooksAt
        <3>5. directive' = [directive EXCEPT ![d] = "fired"]
            BY <2>1, <3>4 DEF markDirectiveFired, Marks, Fault
        <3> QED BY <3>5 DEF DirectivesInv, DirectivesTyped
    <2>5. ASSUME NEW e \in Threads, armDirective(e) \/ LifetimePasses(e)
          PROVE  Booked(d)'
        <3> DEFINE q == trigger[u].queue
        <3>1. trigger' = trigger /\ \A f \in q : f \in Threads /\ armedAt'[f] = armedAt[f]
            BY <2>2, <2>3, <2>5
               DEF armDirective, LifetimePasses, TriggerType, DirectivesInv, DirectivesTyped
        <3>2. \A f \in q : (\A g \in q : armedAt'[f] <= armedAt'[g])
                              <=> (\A g \in q : armedAt[f] <= armedAt[g])
            BY <3>1
        <3>3. HeadOf(u)' = HeadOf(u)
            BY <3>1, <3>2 DEF HeadOf
        <3> QED BY <2>1, <3>1, <3>3 DEF Booked
    <2>6. ~WatcherRestarts
        BY DEF WatcherRestarts, Fault
    <2>7. CASE UNCHANGED directiveVars
        BY <2>1, <2>7 DEF directiveVars, Booked, HeadOf
    <2> QED BY <2>4, <2>5, <2>6, <2>7 DEF DirectivesNext, Booked
<1> QED BY <1>2, <1>3

\* An execution that is counted is booked: the directive was armed, and none was.
LEMMA SingleIsBooked ==
    ASSUME WatcherInv, NEW t \in TriggerTicks, ActionReturns(t),
           NEW d \in Threads, Length[d] = 1, executed'[d][1] # executed[d][1]
    PROVE  /\ executed'[d][1] = executed[d][1] + 1
           /\ ~Booked(d) /\ Booked(d)'
<1> USE DEF WatcherInv
<1> DEFINE h == HeadOf(t)
           k == trigger[t].k
<1>1. trigger[t].pc = "execute" /\ UNCHANGED <<directive, armedAt>>
    BY DEF ActionReturns
<1>2. trigger[t] \in TriggerType /\ trigger \in [TriggerTicks -> TriggerType] /\ DirectivesTyped
    BY DEF DirectivesInv, DirectivesTyped
<1>3. BusyTick(t)
    BY <1>1 DEF DirectivesInv, OneTickRuns, IdleTick
<1>4. h \in trigger[t].queue /\ h \in Threads /\ directive[h] = "armed" /\ k \in 1..Length[h]
    BY <1>1, <1>2, <1>3, HeadIsQueued DEF BusyTick
<1>5. PICK ok \in BOOLEAN :
         LET failed == trigger[t].failed \/ ~ok
         IN  /\ executed' = IF ok THEN [executed EXCEPT ![h][k] = @ + 1] ELSE executed
             /\ Goes(t, IF k < Length[h] THEN [trigger[t] EXCEPT !.k = k + 1, !.failed = failed]
                        ELSE IF failed THEN NextRow(t)
                        ELSE [trigger[t] EXCEPT !.pc = "mark"])
    BY DEF ActionReturns
<1> HIDE DEF h, k
<1>6. ok /\ executed' = [executed EXCEPT ![h] = [executed[h] EXCEPT ![k] = executed[h][k] + 1]]
    BY <1>5
<1>7. d = h
    BY <1>2, <1>6 DEF DirectivesTyped
<1>8. k = 1
    BY <1>4, <1>7
<1>9. executed'[d][1] = executed[d][1] + 1
    <2>1. executed[d] \in [1..1 -> Nat] /\ 1 \in 1..1
        <3>1. executed[d] \in [1..Length[d] -> Nat]
            BY <1>2 DEF DirectivesTyped
        <3> QED BY <3>1
    <2>2. executed'[d] = [executed[d] EXCEPT ![1] = executed[d][1] + 1]
        BY <1>2, <1>4, <1>6, <1>7, <1>8 DEF DirectivesTyped
    <2> QED BY <2>1, <2>2
<1>10. ~trigger[t].failed
    BY <1>1, <1>8 DEF RowsStartClean, k
<1>11. Goes(t, [trigger[t] EXCEPT !.pc = "mark"])
    BY <1>5, <1>6, <1>7, <1>8, <1>10
<1>12. trigger'[t].pc = "mark" /\ trigger'[t].queue = trigger[t].queue
    BY <1>2, <1>11 DEF Goes, TriggerType
<1>13. HeadOf(t)' = h
    BY <1>1, <1>12 DEF HeadOf, h
<1>14. ~Booked(d)
    BY <1>1, <1>4, <1>7 DEF Booked, DirectivesInv, OneTickRuns
<1> QED BY <1>7, <1>9, <1>12, <1>13, <1>14 DEF Booked

LEMMA SinglesNextInv ==
    ASSUME WatcherInv, SinglesAreBooked, [DirectivesNext]_directiveVars
    PROVE  SinglesAreBooked'
<1> USE DEF WatcherInv
<1>1. (faults' = faults \/ faults' = faults + 1) /\ faults \in Nat
    BY DEF SinglesAreBooked, DirectivesNext, directiveVars, armDirective, LifetimePasses,
           TriggerStep, TickBegins, FindArmed, FindThrows, TickReturns, markDirectiveExpired,
           CancelDrifted, SkipDirective, fireArmedDirective, ActionReturns, markDirectiveFired,
           Marks, WatcherRestarts, Fault
<1>2. executed' = executed \/ (faults' = faults /\ \E t \in TriggerTicks : ActionReturns(t))
    BY DEF DirectivesNext, directiveVars, armDirective, LifetimePasses,
           TriggerStep, TickBegins, FindArmed, FindThrows, TickReturns, markDirectiveExpired,
           CancelDrifted, SkipDirective, fireArmedDirective, ActionReturns, markDirectiveFired,
           Marks, WatcherRestarts
<1> SUFFICES ASSUME NEW d \in Threads, Length[d] = 1
             PROVE  executed'[d][1] <= faults' + (IF Booked(d)' THEN 1 ELSE 0)
    BY <1>1 DEF SinglesAreBooked
<1>3. executed[d][1] \in Nat
    <2>1. executed[d] \in [1..1 -> Nat] /\ 1 \in 1..1
        <3>1. executed[d] \in [1..Length[d] -> Nat]
            BY DEF DirectivesInv, DirectivesTyped
        <3> QED BY <3>1
    <2> QED BY <2>1
<1>4. executed[d][1] <= faults + (IF Booked(d) THEN 1 ELSE 0)
    BY DEF SinglesAreBooked
<1>5. CASE executed'[d][1] # executed[d][1]
    <2>1. PICK t \in TriggerTicks : faults' = faults /\ ActionReturns(t)
        BY <1>2, <1>5
    <2>2. executed'[d][1] = executed[d][1] + 1 /\ ~Booked(d) /\ Booked(d)'
        BY <1>5, <2>1, SingleIsBooked
    <2> QED BY <1>1, <1>3, <1>4, <2>1, <2>2
<1>6. CASE executed'[d][1] = executed[d][1] /\ faults' = faults
    <2>1. Booked(d) => Booked(d)'
        BY <1>1, <1>6, BookedStays
    <2> QED BY <1>1, <1>3, <1>4, <1>6, <2>1
<1>7. CASE executed'[d][1] = executed[d][1] /\ faults' = faults + 1
    BY <1>1, <1>3, <1>4, <1>7
<1> QED BY <1>1, <1>5, <1>6, <1>7

\* For any directives, ticks and crashes: a directive of one action executes it at most
\* once more than there were faults, so once when there is none, as the comment at
\* executor.ts:273 has it of every directive (ActionReturns, markDirectiveFired).
THEOREM SinglesAreOnce == DirectivesSpec => []SinglesRunOnce
<1>1. DirectivesInit => SinglesAreBooked
    <2> SUFFICES ASSUME DirectivesInit
                 PROVE  SinglesAreBooked
        OBVIOUS
    <2>1. faults = 0
        BY DEF DirectivesInit
    <2>2. ASSUME NEW d \in Threads, Length[d] = 1
          PROVE  executed[d][1] = 0
        <3>1. executed[d] = [k \in 1..1 |-> 0] /\ 1 \in 1..1
            BY <2>2 DEF DirectivesInit
        <3> QED BY <3>1
    <2> QED BY <2>1, <2>2 DEF SinglesAreBooked
<1>2. WatcherInv /\ SinglesAreBooked /\ [DirectivesNext]_directiveVars
        => WatcherInv' /\ SinglesAreBooked'
    BY WatcherNextInv, SinglesNextInv
<1>3. WatcherInv /\ SinglesAreBooked => SinglesRunOnce
    <2> SUFFICES ASSUME WatcherInv, SinglesAreBooked, NEW d \in Threads, Length[d] = 1
                 PROVE  executed[d][1] <= 1 + faults
        BY DEF SinglesRunOnce
    <2>1. executed[d] \in [1..1 -> Nat] /\ 1 \in 1..1
        <3>1. executed[d] \in [1..Length[d] -> Nat]
            BY DEF WatcherInv, DirectivesInv, DirectivesTyped
        <3> QED BY <3>1
    <2>2. executed[d][1] <= faults + (IF Booked(d) THEN 1 ELSE 0) /\ faults \in Nat
        BY DEF SinglesAreBooked
    <2> QED BY <2>1, <2>2
<1> QED BY WatcherInitInv, <1>1, <1>2, <1>3, PTL DEF DirectivesSpec

-------------------------------------------------------------------------------
(* The run of the parts side by side.  A behaviour of it moves one part, so it *)
(* is a behaviour of every part, and what was proved of each holds of the run. *)

\* Every step of the run is, for each part, a step of it or none.
LEMMA EveryPartSteps ==
    ASSUME [MCNext]_allVars
    PROVE  /\ [DeskNext]_deskVars
           /\ [Next]_vars
           /\ [IndexerNext]_indexerVars
           /\ [DirectivesNext]_directiveVars
           /\ [BreakerNext]_breakerVars
           /\ [BrokerNext]_brokerVars
           /\ [StreamNext]_streamVars
           /\ [WebhookNext]_webhookVars
<1>1. ASSUME UNCHANGED allVars
      PROVE  /\ UNCHANGED deskVars /\ UNCHANGED vars /\ UNCHANGED indexerVars
             /\ UNCHANGED directiveVars /\ UNCHANGED breakerVars /\ UNCHANGED brokerVars
             /\ UNCHANGED streamVars /\ UNCHANGED webhookVars
    BY <1>1 DEF allVars
<1>2. UNCHANGED deskState => UNCHANGED deskVars
    BY DEF deskState, deskVars, executorVars, storeVars
<1>3. UNCHANGED runtimeState => UNCHANGED vars
    BY DEF runtimeState, vars, lifecycle
<1> QED BY <1>1, <1>2, <1>3 DEF MCNext, Of

\* A behaviour of the run is one of each part.
LEMMA EveryPartBehaves ==
    MCSpec => /\ DeskInit /\ [][DeskNext]_deskVars
              /\ Spec /\ IndexerSpec /\ DirectivesSpec /\ BreakerSpec
              /\ BrokerSpec /\ StreamSpec /\ WebhookSpec
<1>1. MCInit => /\ DeskInit /\ Init /\ IndexerInit /\ DirectivesInit
                /\ BreakerInit /\ BrokerInit /\ StreamInit /\ WebhookInit
    BY DEF MCInit
<1> QED BY <1>1, EveryPartSteps, PTL
        DEF MCSpec, Spec, IndexerSpec, DirectivesSpec, BreakerSpec, BrokerSpec,
            StreamSpec, WebhookSpec

\* In the backend as the run checks it, for every value of its constants: executions,
\* nonces, status, revisions, token, stream, webhooks and trips are as each part
\* promises, whatever its awaits let through.
THEOREM BackendHolds ==
    MCSpec => [](/\ OneExecution /\ NonceCountsSwaps /\ StatusAgrees /\ RevisionsAreSound
                 /\ TokenSurvives /\ ResumeIsExact /\ HandledInOrder /\ TripsAreSpaced)
BY EveryPartBehaves, DeskAlwaysInv, StatusIsRight, HistoryIsSound,
   TokenKept, ResumesExactly, DeliveriesInOrder, TripsSpaced, PTL

\* In that run nothing is stranded: whoever waits has somebody to wait for, a
\* delivery queued has a drain, a pending row has its timer, and the flags of the
\* breaker and of the watcher are set only while somebody will clear them.
THEOREM NothingIsStranded ==
    MCSpec => [](/\ NobodyWaitsInVain /\ TimersAreSet /\ QueueIsServed
                 /\ PassFlagIsTrue /\ WatcherFlagIsTrue)
BY EveryPartBehaves, NobodyEverWaitsInVain, TimersAlwaysSet, NothingStaysQueued,
   PassFlagKept, FlagFollowsTick, PTL

\* In that run a stopped agent stays stopped and an ended directive stays as it ended.
THEOREM BackendStepsHold == MCSpec => StopIsFinal /\ EndIsFinal
BY EveryPartBehaves, StoppedForGood, EndedForGood
===============================================================================
