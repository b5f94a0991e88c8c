---------------------------- MODULE CircuitBreaker ----------------------------
(***************************************************************************)
(* workers/circuitBreaker.ts for one token: a pass of thirty seconds looks *)
(* at a running agent, counts its rows in the audit log, compares its last *)
(* snapshot with a baseline, and pauses it when a rule trips.  Other       *)
(* tokens only make the pass take longer.                                  *)
(*                                                                         *)
(* The two counts are awaits.  The drawdown rule and the pause that        *)
(* follows it run without one, and so does the pause after a count.        *)
(***************************************************************************)
EXTENDS Integers

CONSTANTS
    Passes,                         \* calls of runOnce that the cron may have in flight
    Collateral,                     \* values of snapshot.netCollateralUsdQ96
    CIRCUIT_BREAKER_DRAWDOWN_BPS,
    MaxRuns,                        \* bound: entries into "running"
    Unknown                         \* no value

ASSUME BreakerAssumption ==
    /\ Collateral \subseteq Nat
    /\ CIRCUIT_BREAKER_DRAWDOWN_BPS \in 0..10000
    /\ Unknown \notin Collateral

VARIABLES
    agentStatus,        \* RuntimeState.status
    runs,               \* history: entries into "running"
    snapshot,           \* lastSnapshot's collateral
    baseline,           \* initialNetCollateral, with the run it was taken in
    lastObservedStatus,
    pass,               \* pass[p]: where the call is
    passRunning,        \* isRunning
    lastTrip,           \* history: the rule, and the runs of the baseline and of the agent
    trips               \* history: risk_trip rows and webhooks

breakerVars == <<agentStatus, runs, snapshot, baseline, lastObservedStatus, pass, passRunning,
                 lastTrip, trips>>

NoBaseline == [value |-> Unknown, run |-> 0]

BreakerInit ==
    /\ agentStatus = "idle" /\ runs = 0
    /\ snapshot = Unknown
    /\ baseline = NoBaseline /\ lastObservedStatus = "none"
    /\ pass = [p \in Passes |-> "off"] /\ passRunning = FALSE
    /\ lastTrip = [rule |-> "none", baselineRun |-> 0, run |-> 0] /\ trips = 0

-----------------------------------------------------------------------------
(* The agent *)

\* startAgent, resumeAgent, pauseAgent, stopAgent, and the halts of the indexer,
\* which leave the record in the active map
AgentMoves(from, to) ==
    /\ agentStatus \in from
    /\ to = "running" => runs < MaxRuns
    /\ agentStatus' = to
    /\ runs' = IF to = "running" THEN runs + 1 ELSE runs
    /\ UNCHANGED <<snapshot, baseline, lastObservedStatus, pass, passRunning, lastTrip, trips>>

AgentTicks(v) ==
    /\ agentStatus = "running"
    /\ snapshot' = v
    /\ UNCHANGED <<agentStatus, runs, baseline, lastObservedStatus, pass, passRunning, lastTrip, trips>>

-----------------------------------------------------------------------------
(* runOnce *)

\* Mutant: isRunning is not looked at.
PassOverlaps(p) ==
    /\ pass[p] = "off"
    /\ passRunning' = TRUE
    /\ pass' = [pass EXCEPT ![p] = "looks"]
    /\ UNCHANGED <<agentStatus, runs, snapshot, baseline, lastObservedStatus, lastTrip, trips>>

PassBegins(p) ==
    /\ pass[p] = "off"
    /\ ~passRunning
    /\ passRunning' = TRUE
    /\ pass' = [pass EXCEPT ![p] = "looks"]
    /\ UNCHANGED <<agentStatus, runs, snapshot, baseline, lastObservedStatus, lastTrip, trips>>

PassLooks(p) ==
    /\ pass[p] = "looks"
    /\ IF agentStatus = "running"
       THEN pass' = [pass EXCEPT ![p] = "tick_errors"] /\ UNCHANGED lastObservedStatus
       ELSE pass' = [pass EXCEPT ![p] = "done"] /\ lastObservedStatus' = agentStatus
    /\ UNCHANGED <<agentStatus, runs, snapshot, baseline, passRunning, lastTrip, trips>>

\* trip: pauseAgent does nothing to an agent that has no record.
Trips(p, rule, base) ==
    /\ agentStatus' = IF agentStatus \in {"running", "paused", "halted"} THEN "paused" ELSE agentStatus
    /\ trips' = trips + 1
    /\ lastTrip' = [rule |-> rule, baselineRun |-> base.run, run |-> runs]
    /\ pass' = [pass EXCEPT ![p] = "done"]

Clear(p, next) ==
    /\ pass' = [pass EXCEPT ![p] = next]
    /\ UNCHANGED <<agentStatus, trips, lastTrip>>

\* The count returned (a failed query counts as none).
countTickErrors(p) ==
    /\ pass[p] = "tick_errors"
    /\ Trips(p, "tick_error_rate", NoBaseline) \/ Clear(p, "actions")
    /\ UNCHANGED <<runs, snapshot, baseline, lastObservedStatus, passRunning>>

\* The baseline after computeDrawdownBps has run
Rebased ==
    LET fresh == [value |-> snapshot, run |-> runs]
    IN  IF agentStatus = "running" /\ lastObservedStatus # "running" THEN fresh
        ELSE IF baseline.value = Unknown THEN fresh
        ELSE baseline

DrawdownBps(from, to) ==
    IF from = 0 \/ to >= from THEN 0 ELSE ((from - to) * 10000) \div from

\* The second count returned; then, without an await, computeDrawdownBps, which
\* needs a snapshot with something in it.
countRecentActions(p) ==
    /\ pass[p] = "actions"
    /\ \/ /\ Trips(p, "action_velocity", NoBaseline)
          /\ UNCHANGED <<baseline, lastObservedStatus>>
       \/ /\ snapshot \in {Unknown, 0}
          /\ Clear(p, "done")
          /\ UNCHANGED <<baseline, lastObservedStatus>>
       \/ /\ snapshot \notin {Unknown, 0}
          /\ baseline' = Rebased
          /\ lastObservedStatus' = agentStatus
          /\ IF DrawdownBps(Rebased.value, snapshot) > CIRCUIT_BREAKER_DRAWDOWN_BPS
             THEN Trips(p, "drawdown_pct", Rebased)
             ELSE Clear(p, "done")
    /\ UNCHANGED <<runs, snapshot, passRunning>>

PassReturns(p) ==
    /\ pass[p] = "done"
    /\ pass' = [pass EXCEPT ![p] = "off"]
    /\ passRunning' = FALSE
    /\ UNCHANGED <<agentStatus, runs, snapshot, baseline, lastObservedStatus, lastTrip, trips>>

BreakerNext ==
    \/ AgentMoves({"idle", "stopped", "paused", "halted"}, "running")
    \/ AgentMoves({"running"}, "paused")
    \/ AgentMoves({"running", "paused"}, "halted")
    \/ AgentMoves({"running", "paused", "halted"}, "stopped")
    \/ \E v \in Collateral : AgentTicks(v)
    \/ \E p \in Passes : \/ PassBegins(p) \/ PassLooks(p)
                         \/ countTickErrors(p) \/ countRecentActions(p) \/ PassReturns(p)

BreakerSpec == BreakerInit /\ [][BreakerNext]_breakerVars

------------------------------------------------------------------------------

\* "a tripped agent is in `paused`; subsequent passes find the status != 'running'
\* and skip" (circuitBreaker.ts:26-27): the operator gets at most one notification
\* for each time the agent was set running, whatever it does while a pass waits for
\* its counts.
TripsAreSpaced == trips <= runs

\* "Reset on lifecycle transitions back into `running`" (circuitBreaker.ts:17-18):
\* a drawdown that trips is measured within the run of the agent that it pauses.
BaselineIsOfThisRun == lastTrip.rule = "drawdown_pct" => lastTrip.baselineRun = lastTrip.run
==============================================================================
