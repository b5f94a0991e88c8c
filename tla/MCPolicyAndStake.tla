--------------------------- MODULE MCPolicyAndStake ---------------------------
(***************************************************************************)
(* The contracts that decide what an agent may do, for TLC: the policy     *)
(* with the modules that enforce it, and the registry of staked            *)
(* attestations.  A behaviour exercises one of the two.  The policies      *)
(* differ in every field a check reads; the operations are one per reason  *)
(* to admit or refuse.                                                     *)
(***************************************************************************)
EXTENDS PolicyStack, StakedValidator, TLC

CONSTANTS
    alice, bob, dex, other, swap, ping, GB,
    StakeEnds       \* bound: the clock of the registry

VARIABLE subject    \* the contracts this behaviour is about

policyVars == <<nftOwner, installed, policy, revoked, paused, version, val, hook,
                bundle, executing, spentAt, topCap>>
registryVars == <<wallet, held, stakeOf, lockedStakeOf, status, validatedAt,
                  challenger, pendingChallengesOf>>
allVars == <<subject, now, policyVars, registryVars>>

Wide ==
    [allowedContracts |-> {dex, other}, allowedSelectors |-> {swap, ping},
     maxNotional |-> 2, dailyCap |-> 3, expiresAt |-> 0,
     dailySpent |-> 0, dailyWindowStart |-> 0, presetHash |-> "balanced"]
Narrow ==
    [allowedContracts |-> {dex}, allowedSelectors |-> {swap},
     maxNotional |-> 1, dailyCap |-> 2, expiresAt |-> 3,
     dailySpent |-> 2, dailyWindowStart |-> 2, presetHash |-> "custom"]

MCPolicies == {Wide, Narrow}

Op(signer, target, selector, amount, iso, shape) ==
    [signer |-> signer, target |-> target, selector |-> selector,
     amount |-> amount, iso |-> iso, shape |-> shape]

MCOps ==
    {Op(alice, dex, swap, 1, NoIso, "full"),
     Op(alice, dex, swap, 2, GB, "full"),
     Op(bob, other, ping, 3, NoIso, "full"),
     Op(alice, dex, swap, 1, NoIso, "short"),
     Op(alice, dex, swap, 1, NoIso, "malformed")}

MCInit == subject \in {"policy", "stake"} /\ Init /\ StakeInit

MCNext ==
    /\ UNCHANGED subject
    /\ \/ subject = "policy" /\ Next      /\ UNCHANGED registryVars
       \/ subject = "stake"  /\ StakeNext /\ UNCHANGED policyVars /\ now' <= StakeEnds

MCSpec == MCInit /\ [][MCNext]_allVars

Symmetry == Permutations(Stakers) \cup Permutations(Hashes)
==============================================================================
