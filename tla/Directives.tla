------------------------------ MODULE Directives ------------------------------
(***************************************************************************)
(* Armed directives: armDirective writes a PendingDirective row            *)
(* (strategy/arm.ts), and the trigger watcher, a cron task of five         *)
(* seconds, expires the row or fires its actions through the executor      *)
(* (workers/triggerWatcher.ts, strategy/executor.ts).                      *)
(*                                                                         *)
(* Every database call, price read and execution is an await, and any of   *)
(* them may throw: the row's try block then ends, and the next row is      *)
(* looked at.  The process may die between any two of them.                *)
(***************************************************************************)
EXTENDS Integers, FiniteSets

CONSTANTS
    Threads,        \* (tokenId, threadId): the unique key of a directive
    Drifted,        \* directives written by a build with another schema
    Length,         \* Length[d]: how many actions its decision has
    TriggerTicks,   \* calls of tick that the cron may have in flight
    BATCH,          \* take: 100
    MaxExecutions,  \* bound: executions of one action
    MaxFaults       \* bound: crashes and failed database calls

ASSUME DirectivesAssumption ==
    /\ IsFiniteSet(Threads) /\ Drifted \subseteq Threads
    /\ Length \in [Threads -> Nat \ {0}] /\ BATCH \in Nat \ {0}

VARIABLES
    directive,      \* status of the row, "absent" before there is one
    armedAt,        \* armedAt[d]: how many directives were armed before d
    overdue,        \* those whose expiresAt has passed
    executed,       \* history: executed[d][k]: successes of d's action k
    trigger,        \* trigger[t]: the call of tick t
    isRunning,
    faults          \* crashes and failed database calls so far

directiveVars == <<directive, armedAt, overdue, executed, trigger, isRunning, faults>>

Ended == {"fired", "cancelled", "expired"}

\* queue: armed rows still to look at, oldest first; late: the overdue ones when it
\* began; k: the action of the oldest that it executes; failed: one of them failed.
NoTrigger == [pc |-> "off", queue |-> {}, late |-> {}, k |-> 0, failed |-> FALSE]

DirectivesInit ==
    /\ directive = [d \in Threads |-> "absent"]
    /\ armedAt = [d \in Threads |-> 0]
    /\ overdue = {}
    /\ executed = [d \in Threads |-> [k \in 1..Length[d] |-> 0]]
    /\ trigger = [t \in TriggerTicks |-> NoTrigger]
    /\ isRunning = FALSE
    /\ faults = 0

-----------------------------------------------------------------------------
(* The route and the clock *)

\* With a row of any status for the thread, the call returns that row.
armDirective(d) ==
    /\ directive[d] = "absent"
    /\ directive' = [directive EXCEPT ![d] = "armed"]
    /\ armedAt' = [armedAt EXCEPT ![d] = Cardinality({e \in Threads : directive[e] # "absent"})]
    /\ UNCHANGED <<overdue, executed, trigger, isRunning, faults>>

\* DIRECTIVE_TTL_MS
LifetimePasses(d) ==
    /\ directive[d] # "absent" /\ d \notin overdue
    /\ overdue' = overdue \cup {d}
    /\ UNCHANGED <<directive, armedAt, executed, trigger, isRunning, faults>>

-----------------------------------------------------------------------------
(* tick *)

Goes(t, next) == trigger' = [trigger EXCEPT ![t] = next]
HeadOf(t) == CHOOSE d \in trigger[t].queue : \A e \in trigger[t].queue : armedAt[d] <= armedAt[e]
NextRow(t) ==
    [trigger[t] EXCEPT !.pc = "row", !.queue = @ \ {HeadOf(t)}, !.k = 0, !.failed = FALSE]

\* Mutant: isRunning is not looked at.
TickOverlaps(t) ==
    /\ trigger[t].pc = "off"
    /\ isRunning' = TRUE
    /\ Goes(t, [NoTrigger EXCEPT !.pc = "find", !.late = overdue])
    /\ UNCHANGED <<directive, armedAt, overdue, executed, faults>>

TickBegins(t) ==
    /\ trigger[t].pc = "off"
    /\ ~isRunning
    /\ isRunning' = TRUE
    /\ Goes(t, [NoTrigger EXCEPT !.pc = "find", !.late = overdue])
    /\ UNCHANGED <<directive, armedAt, overdue, executed, faults>>

Fault == faults < MaxFaults /\ faults' = faults + 1

\* findMany: the BATCH oldest of the armed rows.
FindArmed(t) ==
    LET armed == {d \in Threads : directive[d] = "armed"}
        older(d) == {e \in armed : armedAt[e] < armedAt[d]}
    IN  /\ trigger[t].pc = "find"
        /\ Goes(t, [trigger[t] EXCEPT !.pc = "row",
                                      !.queue = {d \in armed : Cardinality(older(d)) < BATCH}])
        /\ UNCHANGED <<directive, armedAt, overdue, executed, isRunning, faults>>

\* Mutant: isRunning is reset at the end of the try block, not in a finally.
FindThrowsRunning(t) ==
    /\ trigger[t].pc = "find"
    /\ Fault
    /\ Goes(t, NoTrigger)
    /\ UNCHANGED <<directive, armedAt, overdue, executed, isRunning>>

FindThrows(t) ==
    /\ trigger[t].pc = "find"
    /\ Fault
    /\ isRunning' = FALSE
    /\ Goes(t, NoTrigger)
    /\ UNCHANGED <<directive, armedAt, overdue, executed>>

\* The write of the row's status, or the write throws.
Marks(t, status) ==
    /\ \/ directive' = [directive EXCEPT ![HeadOf(t)] = status] /\ UNCHANGED faults
       \/ Fault /\ UNCHANGED directive
    /\ Goes(t, NextRow(t))
    /\ UNCHANGED <<armedAt, overdue, executed, isRunning>>

LooksAt(t) == trigger[t].pc = "row" /\ trigger[t].queue # {}

markDirectiveExpired(t) == LooksAt(t) /\ HeadOf(t) \in trigger[t].late /\ Marks(t, "expired")

CancelDrifted(t) ==
    /\ LooksAt(t) /\ HeadOf(t) \notin trigger[t].late
    /\ HeadOf(t) \in Drifted
    /\ Marks(t, "cancelled")

Readable(t) == LooksAt(t) /\ HeadOf(t) \notin trigger[t].late \cup Drifted

\* No snapshot of the token, a trigger that does not match it, no kernel, or the
\* simulation of the actions rejects them.
SkipDirective(t) ==
    /\ Readable(t)
    /\ Goes(t, NextRow(t))
    /\ UNCHANGED <<directive, armedAt, overdue, executed, isRunning, faults>>

fireArmedDirective(t) ==
    /\ Readable(t)
    /\ Goes(t, [trigger[t] EXCEPT !.pc = "execute", !.k = 1])
    /\ UNCHANGED <<directive, armedAt, overdue, executed, isRunning, faults>>

\* executeApprovedAction of action k returns; the next one follows whatever it says.
\* A directive all of whose actions succeeded is marked, any other stays armed.
ActionReturns(t) ==
    LET d == HeadOf(t)
        k == trigger[t].k
    IN  /\ trigger[t].pc = "execute"
        /\ \E ok \in BOOLEAN :
              LET failed == trigger[t].failed \/ ~ok
              IN  /\ ok => executed[d][k] < MaxExecutions
                  /\ executed' = IF ok THEN [executed EXCEPT ![d][k] = @ + 1] ELSE executed
                  /\ Goes(t, IF k < Length[d] THEN [trigger[t] EXCEPT !.k = k + 1, !.failed = failed]
                             ELSE IF failed THEN NextRow(t)
                             ELSE [trigger[t] EXCEPT !.pc = "mark"])
        /\ UNCHANGED <<directive, armedAt, overdue, isRunning, faults>>

markDirectiveFired(t) == trigger[t].pc = "mark" /\ Marks(t, "fired")

TickReturns(t) ==
    /\ trigger[t].pc = "row" /\ trigger[t].queue = {}
    /\ isRunning' = FALSE
    /\ Goes(t, NoTrigger)
    /\ UNCHANGED <<directive, armedAt, overdue, executed, faults>>

\* The process starts again; the database keeps the rows.
WatcherRestarts ==
    /\ Fault
    /\ trigger' = [t \in TriggerTicks |-> NoTrigger]
    /\ isRunning' = FALSE
    /\ UNCHANGED <<directive, armedAt, overdue, executed>>

TriggerStep(t) ==
    \/ TickBegins(t) \/ FindArmed(t) \/ FindThrows(t) \/ TickReturns(t)
    \/ markDirectiveExpired(t) \/ CancelDrifted(t) \/ SkipDirective(t)
    \/ fireArmedDirective(t) \/ ActionReturns(t) \/ markDirectiveFired(t)

DirectivesNext ==
    \/ \E d \in Threads : armDirective(d) \/ LifetimePasses(d)
    \/ \E t \in TriggerTicks : TriggerStep(t)
    \/ WatcherRestarts

DirectivesSpec == DirectivesInit /\ [][DirectivesNext]_directiveVars

\* Time passes, the cron fires, and every await of a tick ends: the executor's by
\* its timeouts, the database's by an answer or an error.
DirectivesFairness ==
    /\ \A d \in Threads : WF_directiveVars(LifetimePasses(d))
    /\ \A t \in TriggerTicks : WF_directiveVars(TriggerStep(t))

------------------------------------------------------------------------------

\* A directive that left "armed" stays as it ended and none of its actions is
\* executed again, whatever ticks, restarts and failed writes come between; and
\* a row says "fired" only when each of its actions has executed
\* (runStrategyExecutor's 'executed' against markDirectiveFired).
EndIsFinal ==
    [][\A d \in Threads :
          /\ directive[d] \in Ended => directive'[d] = directive[d] /\ executed'[d] = executed[d]
          /\ directive'[d] = "fired" => \A k \in 1..Length[d] : executed'[d][k] > 0
      ]_directiveVars

\* Every armed directive ends: a trigger that never matches, an execution that
\* keeps failing, a restart, or older directives that fill the batch cannot keep
\* it armed for ever.
ArmedEnds == \A d \in Threads : directive[d] = "armed" ~> directive[d] \in Ended

\* "a directive that was previously armed fires here. Idempotency via
\* `markDirectiveFired` (status update)" (executor.ts:273-274): without a crash or a
\* lost status write (MaxFaults = 0), a directive executes each of its actions at most once.
ExecutedOnce == \A d \in Threads : \A k \in 1..Length[d] : executed[d][k] <= 1
==============================================================================
