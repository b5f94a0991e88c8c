------------------------------- MODULE Timelock -------------------------------
(***************************************************************************)
(* What the contracts with a delayed administration promise: a change of   *)
(* the configuration is announced at least DELAY before it is applied, by  *)
(* an announcement that was neither withdrawn, replaced nor used up since, *)
(* and nothing but the application of such a change touches the            *)
(* configuration.  PrimeAgentDiamond, PaymasterRelay, PriceOracle and      *)
(* RobinhoodMcpAttestor implement it, each with a Change and an Effect of  *)
(* its own.                                                                *)
(***************************************************************************)
EXTENDS Integers

CONSTANTS
    Change,         \* the changes that may be announced
    Effect(_, _),   \* Effect(c, d): the configuration c after the change d
    Configs,        \* the configurations a deployment may start with
    DELAY

VARIABLES
    now,
    due,            \* due[d]: when d may be applied, 0 when it is not announced
    config

TimelockInit ==
    /\ now \in Nat
    /\ due = [d \in Change |-> 0]
    /\ config \in Configs

Elapse == now' > now /\ UNCHANGED <<due, config>>

\* A new announcement may replace others.
Announce(d) ==
    /\ due' = [e \in Change |-> due'[e]]
    /\ due'[d] = now + DELAY
    /\ \A e \in Change \ {d} : due'[e] \in {0, due[e]}
    /\ UNCHANGED <<now, config>>

Withdraw(d) ==
    /\ due' = [due EXCEPT ![d] = 0]
    /\ UNCHANGED <<now, config>>

Apply(d) ==
    /\ due[d] # 0
    /\ now >= due[d]
    /\ config' = Effect(config, d)
    /\ due' = [due EXCEPT ![d] = 0]
    /\ UNCHANGED now

TimelockNext ==
    \/ Elapse
    \/ \E d \in Change : Announce(d) \/ Withdraw(d) \/ Apply(d)

TimelockSpec == TimelockInit /\ [][TimelockNext]_<<now, due, config>>
===============================================================================
