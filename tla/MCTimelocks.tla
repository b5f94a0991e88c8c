------------------------------ MODULE MCTimelocks ------------------------------
(* The contracts with a delayed administration, for TLC.  They share nothing   *)
(* but the clock: a behaviour exercises one of them, chosen at the start, and  *)
(* the others keep their initial state.                                        *)
EXTENDS EmergencyShutdown, DiamondCut, PaymasterRelay, PriceOracle, AttestPoster, TLC

CONSTANTS v1, v2, v3, s1, s2, s3, s4, f1, f2, c1, c2, h1, h2, h3, h4, a1, a2

VARIABLE subject   \* the contract this behaviour is about

allVars == <<subject, vars, diamondVars, relayVars, oracleVars, attestorVars, posterVars>>

\* Add over two facets, replace across them (emptying one), remove, a cut that
\* moves a selector and brings it back, and two that revert in some states.
Cut(action, facet, selectors) == [action |-> action, facet |-> facet, selectors |-> selectors]
MCFirstCut == <<Cut("Add", f1, <<s1, s2, s3>>)>>
MCCuts ==
    {<<Cut("Add", f2, <<s4>>)>>,
     <<Cut("Replace", f2, <<s1, s2>>)>>,
     <<Cut("Remove", NoFacet, <<s1>>), Cut("Replace", f2, <<s3>>)>>,
     <<Cut("Remove", NoFacet, <<s2, s4>>)>>,
     <<Cut("Remove", NoFacet, <<s3>>), Cut("Add", f2, <<s3, s4>>)>>,
     <<Cut("Add", f1, <<s1>>), Cut("Replace", f1, <<s3>>)>>}

MaxOps(cap) == [kind |-> "max", cap |-> cap]
CallerList(list) == [kind |-> "callers", list |-> list]
PerCaller(caller, cap) == [kind |-> "per_caller", caller |-> caller, cap |-> cap]
MCPayloads ==
    {MaxOps(1), MaxOps(3), PerCaller(c1, 1),
     CallerList(<<<<c1, TRUE>>, <<c2, TRUE>>>>), CallerList(<<<<c2, TRUE>>, <<c2, FALSE>>>>)}

\* Payloads of both attestors that overlap in time, one nullifier signed twice.
Payload(t, v, from, to, n, a) ==
    [tokenId |-> t, value |-> v, notBefore |-> from, notAfter |-> to, nullifier |-> n, signer |-> a]
MCSignatures ==
    {Payload(1, 10, 1, 2, 1, a1), Payload(1, 20, 2, 4, 2, a1), Payload(2, 30, 1, 4, 3, a1),
     Payload(1, 40, 2, 4, 4, a2), Payload(2, 50, 3, 3, 1, a2)}

MCInit ==
    /\ subject \in {"shutdown", "diamond", "relay", "oracle", "attestor", "poster"}
    /\ Init /\ DiamondInit /\ RelayInit /\ OracleInit /\ AttestorInit /\ PosterInit

shutdownVars == <<registry, coordinator, fleet, history>>
Others(named) == /\ UNCHANGED subject
                 /\ "shutdown" \in named => UNCHANGED shutdownVars
                 /\ "diamond" \in named => UNCHANGED diamondVars
                 /\ "relay" \in named => UNCHANGED relayVars
                 /\ "oracle" \in named => UNCHANGED oracleVars
                 /\ "attestor" \in named => UNCHANGED attestorVars
                 /\ "poster" \in named => UNCHANGED posterVars
All == {"shutdown", "diamond", "relay", "oracle", "attestor", "poster"}

MCNext ==
    \/ subject = "shutdown" /\ Next         /\ Others(All \ {"shutdown"})
    \/ subject = "diamond"  /\ DiamondNext  /\ Others(All \ {"diamond"})
    \/ subject = "relay"    /\ RelayNext    /\ Others(All \ {"relay"})
    \/ subject = "oracle"   /\ OracleNext     /\ Others(All \ {"oracle"})
    \/ subject = "attestor" /\ AttestorNext /\ Others(All \ {"attestor"})
    \/ subject = "poster"   /\ PosterNext   /\ Others(All \ {"attestor", "poster"})

MCSpec == MCInit /\ [][MCNext]_allVars

\* The answers of the policy query: an agent may have two live policies.
MCPolicies == {<<1, 1>>, <<1, 2>>}

\* What the attestor contract serves is what an attestor signed, and what the
\* poster submitted is on record and served in the order it was read.
ReadingsAreAttested ==
    /\ subject = "attestor" => StateIsAttested
    /\ subject = "poster" => TrailIsComplete

Symmetry == Permutations({v1, v2, v3})
==============================================================================
