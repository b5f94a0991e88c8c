------------------------------- MODULE MCCustody -------------------------------
(* The contracts that keep money or count it, for TLC.  They share no state: a  *)
(* behaviour exercises one of them, chosen at the start, and the others keep    *)
(* their initial state.  (VaultLiquidation composes three of them.)             *)
EXTENDS AgentVault, FeeCollector, MarginEngine, RhChainSwap, VenueAdapters, TLC

CONSTANTS u1, u2, st1, st2, tsla, amzn, protocol, treasury, reserve, r1, r2, usdg, k1, k2, h1

VARIABLE subject   \* the contract this behaviour is about

\* Streams in thirds of the whole: single calls, batches that add streams in both
\* orders, one that parks streams at share 0, and one that names a stream twice.
E(id, recipient, share) == [id |-> id, recipient |-> recipient, sharePpm |-> share]
MCBatches ==
    {<<E(protocol, r, s)>> : r \in {r1, r2}, s \in 0..3}
    \cup {<<E(reserve, r2, 1), E(protocol, r1, 2)>>,
          <<E(protocol, r1, 1), E(treasury, r2, 1), E(reserve, r1, 1)>>,
          <<E(treasury, r2, 0), E(reserve, r1, 0), E(protocol, r2, 3)>>,
          <<E(protocol, r1, 0), E(treasury, r2, 2), E(reserve, r1, 1)>>,
          <<E(treasury, r1, 1), E(treasury, r2, 3)>>}

\* Orders signed by both keys: two for the same nonce, and one back, for the next.
Quote(from, to, in, cost, nonce, until, signer) ==
    [agent |-> 1, from |-> from, to |-> to, in |-> in, minOut |-> 2, price |-> cost,
     nonce |-> nonce, until |-> until, signer |-> signer]
MCSwaps ==
    {Quote(usdg, tsla, 1, 2, 0, 1, k1), Quote(usdg, tsla, 1, 1, 0, 2, k2),
     Quote(tsla, usdg, 2, 1, 1, 2, k1)}
\* One signed withdrawal, to submit again and again.
MCAuths ==
    {[agent |-> 1, token |-> tsla, amount |-> 1, nonce |-> 0, until |-> 2, signer |-> k2]}

MCInit ==
    /\ subject \in {"vault", "fees", "engine", "desk", "v2", "v3", "lending"}
    /\ now = 1
    /\ VaultInit /\ FeeInit /\ EngineInit /\ SwapInit /\ V2Init /\ V3Init /\ VenueInit
    /\ subject # "vault" => isAdapter = {} /\ ~engineSet /\ reading = Unreadable
                            /\ price = [t \in SideTokens |-> Unreadable]
    /\ subject # "engine" => quote = [a \in Assets |-> Unreadable]
    /\ subject \notin {"v2", "v3", "lending"} => \A a \in Agents : sides[a] = None

\* The step is one of this contract, and the others do not move.
Of(contract) ==
    /\ subject = contract /\ UNCHANGED subject
    /\ contract # "vault"  => UNCHANGED allVaultVars
    /\ contract # "fees"   => UNCHANGED allFeeVars
    /\ contract # "engine" => UNCHANGED allEngineVars
    /\ contract # "desk"   => UNCHANGED <<now, swapVars>>
    /\ contract # "v2"     => UNCHANGED v2Vars
    /\ contract # "v3"     => UNCHANGED v3Vars
    /\ contract # "lending" => UNCHANGED lendingVars
    /\ contract \notin {"v2", "v3", "lending"} => UNCHANGED venueVars

MCNext ==
    \/ Of("vault")   /\ VaultNext
    \/ Of("fees")    /\ FeeNext
    \/ Of("engine")  /\ EngineNext
    \/ Of("desk")    /\ SwapNext
    \/ Of("v2")      /\ VenueNext
    \/ Of("v3")      /\ VenueNext
    \/ Of("lending") /\ VenueNext

MCSpec ==
    MCInit /\ [][MCNext]_<<subject, now, allVaultVars, allFeeVars, allEngineVars, swapVars,
                           v2Vars, v3Vars, venueVars>>

\* What a contract's books promise, it holds: side balances of the vault are tokens,
\* the accrued amounts of the fee streams are its pool, no collateral or position of
\* the engine is off the list its sums run over, and the swap desk is short of
\* exactly the balances that swaps created; the exchanges hold their reserves and
\* what they owe, and the adapters between a vault and a venue keep nothing.
BooksAreBacked ==
    /\ subject = "vault" => SideIsBacked
    /\ subject = "fees" => AccruedIsBacked
    /\ subject = "engine" => NothingOffTheList
    /\ subject = "desk" => ShortByTheSwaps
    /\ subject = "v2" => LpSupplyIsHeld
    /\ subject = "v3" => DexIsBacked
    /\ AdaptersKeepNothing

\* Nobody is diluted: no step lowers the value of the shares that others hold of the
\* vault's assets, or of the exchange's reserves.
SharesKeepTheirValue == SharesKeepValue /\ LpKeepsValue

Symmetry == Permutations({u1, u2}) \cup Permutations({st1, st2}) \cup Permutations(Nfts)
==============================================================================
