------------------------------- MODULE PriceFeed -------------------------------
(***************************************************************************)
(* priceOraclePoster.ts in front of PriceOracle: a cron tick signs the     *)
(* market price with its first three keys, under the signer set's epoch,   *)
(* and posts the batch.  The epoch is read from the chain once and kept in *)
(* epochCache for the life of the process: invalidateSignerSetEpoch, which *)
(* would drop it, has no caller.  A tick in flight holds isRunning, so     *)
(* that the next one is skipped; a post that reverts is logged.            *)
(***************************************************************************)
EXTENDS PriceOracle

CONSTANT PosterKeys    \* usedSigners: the first three configured signer keys, none of them faulty

VARIABLES
    epochCache,        \* 0 when nothing is cached
    tickEpoch          \* the epoch the tick in flight signs under, 0 between ticks

posterVars == <<epochCache, tickEpoch>>
feedVars == <<oracleVars, posterVars>>

FeedInit == OracleInit /\ epochCache = 0 /\ tickEpoch = 0

\* readSignerSetEpoch
PosterTick ==
    /\ tickEpoch = 0
    /\ epochCache' = IF epochCache # 0 THEN epochCache ELSE signerSetEpoch
    /\ tickEpoch' = epochCache'
    /\ UNCHANGED <<now, oracleVars>>

\* postPrices goes through, reverts, or the RPC call fails.
PosterPost ==
    /\ tickEpoch # 0
    /\ tickEpoch' = 0
    /\ UNCHANGED epochCache
    /\ \/ /\ tickEpoch = signerSetEpoch
          /\ \E p \in Market(Len(epochAt)) :
                postPrices({[signer |-> s, era |-> Len(epochAt), priceQ96 |-> p] : s \in PosterKeys}, now)
       \/ UNCHANGED <<now, oracleVars>>

ProcessRestart ==
    /\ epochCache' = 0
    /\ tickEpoch' = 0
    /\ UNCHANGED <<now, oracleVars>>

FeedNext ==
    \/ OracleNext /\ UNCHANGED posterVars
    \/ PosterTick
    \/ PosterPost
    \/ ProcessRestart

\* The cron fires and a call that was made returns; rotations need not happen,
\* and neither do restarts.
FeedSpec ==
    /\ now = 1 /\ FeedInit
    /\ [][FeedNext]_<<now, feedVars>>
    /\ WF_<<now, feedVars>>(PosterTick) /\ WF_<<now, feedVars>>(PosterPost)

\* The comment at priceOraclePoster.ts:50-52: the epoch cache is busted without
\* missing an epoch bump, so a poster that keeps ticking does not go on signing
\* under an epoch the contract has left.
EpochCatchesUp == []<>(epochCache \in {0, signerSetEpoch})
==============================================================================
