------------------------------ MODULE DiamondCut ------------------------------
(***************************************************************************)
(* PrimeAgentDiamond.sol and LibDiamond.sol: the owner announces a cut,    *)
(* waits CUT_TIMELOCK and executes it; a cut adds, replaces and removes    *)
(* selectors of facets in the tables the fallback dispatches by.           *)
(*                                                                         *)
(* A cut is a sequence of entries, identified by its hash; one that        *)
(* reverts anywhere leaves no trace.  Every facet has code.  The init call *)
(* is a delegatecall of code the owner chose: it may revert, and otherwise *)
(* is assumed to leave the tables alone.                                   *)
(***************************************************************************)
EXTENDS Clock, Sequences, FiniteSets, SequencesExt

CONSTANTS
    Selectors, Facets,
    NoFacet,         \* address(0)
    Cuts,            \* the arguments of proposeDiamondCut
    FirstCut,        \* the cut the constructor makes
    CUT_TIMELOCK

EntryType == [action : {"Add", "Replace", "Remove"}, facet : Facets \cup {NoFacet},
              selectors : Seq(Selectors)]

ASSUME DiamondAssumption ==
    /\ NoFacet \notin Facets
    /\ Cuts \subseteq Seq(EntryType) /\ FirstCut \in Seq(EntryType)
    /\ CUT_TIMELOCK \in Nat

VARIABLES
    ds,              \* LibDiamond.DiamondStorage
    pendingCuts,     \* _pendingCuts, 0 when not pending
    executedCuts     \* _executedCuts

diamondVars == <<ds, pendingCuts, executedCuts>>

------------------------------------------------------------------------------
(* LibDiamond on a storage d; d.ok turns FALSE where the code reverts.      *)

Empty ==
    [at |-> [s \in Selectors |-> [facet |-> NoFacet, pos |-> 0]],  \* selectorToFacetAndPosition
     of |-> [f \in Facets |-> <<>>],                               \* facetFunctionSelectors
     facets |-> <<>>,                                              \* facetAddresses
     ok |-> TRUE]

Revert(d) == [d EXCEPT !.ok = FALSE]

Push(d, f, s) ==
    [d EXCEPT !.at[s] = [facet |-> f, pos |-> Len(d.of[f])],
              !.of[f] = Append(d.of[f], s),
              !.facets = IF d.of[f] = <<>> THEN Append(d.facets, f) ELSE d.facets]

AddFunction(d, f, s) == IF d.at[s].facet = NoFacet THEN Push(d, f, s) ELSE Revert(d)

\* list without its element at position p: the last one takes its place.
SwapPop(list, p) == [k \in 1..(Len(list) - 1) |-> IF k = p + 1 THEN Last(list) ELSE list[k]]

\* Mutant: the selector that moved keeps its old position.
RemoveFunctionStale(d, s) ==
    LET f == d.at[s].facet
        p == d.at[s].pos
    IN  IF f = NoFacet THEN Revert(d) ELSE
        [d EXCEPT
            !.at = [t \in Selectors |->
                        IF t = s THEN [facet |-> NoFacet, pos |-> 0] ELSE d.at[t]],
            !.of[f] = SwapPop(d.of[f], p),
            !.facets = IF Len(d.of[f]) = 1
                       THEN SwapPop(d.facets, (CHOOSE i \in DOMAIN d.facets : d.facets[i] = f) - 1)
                       ELSE d.facets]

RemoveFunction(d, s) ==
    LET f == d.at[s].facet
        p == d.at[s].pos
    IN  IF f = NoFacet THEN Revert(d) ELSE
        [d EXCEPT
            !.at = [t \in Selectors |->
                        CASE t = s -> [facet |-> NoFacet, pos |-> 0]
                          [] t # s /\ t = Last(d.of[f]) -> [facet |-> f, pos |-> p]
                          [] OTHER -> d.at[t]],
            !.of[f] = SwapPop(d.of[f], p),
            !.facets = IF Len(d.of[f]) = 1
                       THEN SwapPop(d.facets, (CHOOSE i \in DOMAIN d.facets : d.facets[i] = f) - 1)
                       ELSE d.facets]

ReplaceFunction(d, f, s) ==
    IF d.at[s].facet \in {f, NoFacet} THEN Revert(d) ELSE Push(RemoveFunction(d, s), f, s)

CutSelector(d, e, s) ==
    CASE ~ d.ok                        -> d
      [] d.ok /\ e.action = "Add"     -> AddFunction(d, e.facet, s)
      [] d.ok /\ e.action = "Replace" -> ReplaceFunction(d, e.facet, s)
      [] d.ok /\ e.action = "Remove"  -> RemoveFunction(d, s)

CutEntry(d, e) ==
    IF e.selectors = <<>> \/ (e.action = "Remove") # (e.facet = NoFacet)
    THEN Revert(d) ELSE FoldLeft(LAMBDA c, s : CutSelector(c, e, s), d, e.selectors)

diamondCut(d, cut) == FoldLeft(CutEntry, d, cut)

------------------------------------------------------------------------------

DiamondInit ==
    /\ ds = diamondCut(Empty, FirstCut) /\ ds.ok
    /\ pendingCuts = [c \in Cuts |-> 0]
    /\ executedCuts = {}

proposeDiamondCut(c) ==
    /\ c \notin executedCuts
    /\ pendingCuts[c] = 0
    /\ pendingCuts' = [pendingCuts EXCEPT ![c] = now + CUT_TIMELOCK]
    /\ UNCHANGED <<now, ds, executedCuts>>

\* Mutant: a cut that was never announced reads as one due at time 0.
CutDueUnannounced(c) == now >= pendingCuts[c]

CutDue(c) == pendingCuts[c] # 0 /\ now >= pendingCuts[c]

executeDiamondCut(c) ==
    /\ c \notin executedCuts
    /\ CutDue(c)
    /\ pendingCuts' = [pendingCuts EXCEPT ![c] = 0]
    /\ executedCuts' = executedCuts \cup {c}
    /\ ds' = diamondCut(ds, c)
    /\ ds'.ok    \* initializeDiamondCut may revert as well: then there is no step
    /\ UNCHANGED now

cancelDiamondCut(c) ==
    /\ pendingCuts[c] # 0
    /\ pendingCuts' = [pendingCuts EXCEPT ![c] = 0]
    /\ UNCHANGED <<now, ds, executedCuts>>

DiamondTick == Advance /\ UNCHANGED diamondVars

DiamondNext ==
    \/ DiamondTick
    \/ \E c \in Cuts : proposeDiamondCut(c) \/ executeDiamondCut(c) \/ cancelDiamondCut(c)

DiamondSpec == now = 1 /\ DiamondInit /\ [][DiamondNext]_<<now, diamondVars>>

------------------------------------------------------------------------------

\* The dispatch table and the two lists the loupe functions read describe the
\* same diamond after any sequence of cuts: every selector sits in the list of
\* its facet at its position, each list holds nothing else, and the facets
\* listed, once each, are those with selectors (LibDiamond's hand-written
\* swap-and-pop, over several facets in one cut).
TablesAgree ==
    /\ \A s \in Selectors : ds.at[s].facet # NoFacet =>
           /\ ds.at[s].pos + 1 \in DOMAIN ds.of[ds.at[s].facet]
           /\ ds.of[ds.at[s].facet][ds.at[s].pos + 1] = s
    /\ \A f \in Facets : \A k \in DOMAIN ds.of[f] :
           ds.at[ds.of[f][k]] = [facet |-> f, pos |-> k - 1]
    /\ IsInjective(ds.facets)
    /\ {ds.facets[k] : k \in DOMAIN ds.facets} = {f \in Facets : ds.of[f] # <<>>}

\* What a cut means for the callers of the diamond: which facet serves each
\* selector afterwards, read off the cut without any table.
Dispatch(d) == [s \in Selectors |-> d.at[s].facet]

CutEffect(route, cut) ==
    [s \in Selectors |->
        LET named == {k \in DOMAIN cut : s \in ToSet(cut[k].selectors)}
        IN  IF named = {} THEN route[s]
            ELSE cut[CHOOSE k \in named : \A j \in named : j <= k].facet]

CutChanges == INSTANCE Timelock
    WITH Change <- Cuts, Effect <- CutEffect, DELAY <- CUT_TIMELOCK,
         Configs <- {CutEffect([s \in Selectors |-> NoFacet], FirstCut)},
         due <- pendingCuts, config <- Dispatch(ds)

\* The diamond implements a timelock on its dispatch: a selector is served by
\* another facet only through a cut announced CUT_TIMELOCK earlier and not
\* cancelled since, and afterwards exactly as the cut says (proposeDiamondCut,
\* executeDiamondCut, cancelDiamondCut, LibDiamond.diamondCut).
CutsWait == CutChanges!TimelockSpec
==============================================================================
