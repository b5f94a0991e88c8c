------------------------------ MODULE PriceOracle ------------------------------
(***************************************************************************)
(* PriceOracle.sol for one asset: anyone may post a batch of signed        *)
(* reports; the median of enough distinct active signers becomes the       *)
(* price.  Signers are admitted and removed through a timelock, and every  *)
(* change of the set moves signerSetEpoch, which each signature covers.    *)
(*                                                                         *)
(* An era is the time between two changes of the signer set.  A report of  *)
(* an honest signer is of the market of the era it was signed in; a faulty *)
(* one says anything.  Signatures last: every report an era could have     *)
(* produced may be posted in a later one.                                  *)
(***************************************************************************)
EXTENDS Clock, FiniteSets, Sequences, FiniteSetsExt

CONSTANTS
    Signers,
    Faulty,            \* the signers that may report any price
    FaultyPrices,
    MIN_SIGNERS, MAX_SIGNERS,
    MAX_AGE, FUTURE_SKEW,
    ROTATION_TIMELOCK,
    MaxEra,            \* bound: changes of the signer set
    MaxPending         \* bound: changes pending at a time

ASSUME OracleAssumption ==
    /\ IsFiniteSet(Signers) /\ Faulty \subseteq Signers /\ FaultyPrices \subseteq Nat
    /\ MIN_SIGNERS \in Nat \ {0} /\ MAX_SIGNERS \in Nat
    /\ {MAX_AGE, FUTURE_SKEW, ROTATION_TIMELOCK, MaxEra, MaxPending} \subseteq Nat

\* The faulty signers are a minority of the smallest batch.
ASSUME HonestMajority == 2 * Cardinality(Faulty) < MIN_SIGNERS

SignerChange == Signers \X BOOLEAN

VARIABLES
    price,             \* prices[asset]
    activeSigners,     \* activeSigners; activeSignerCount is its cardinality
    signerSetEpoch,
    pendingSigner,     \* pendingSignerChanges: effectiveAt of <<signer, active>>, 0 for none
    epochAt            \* history: the epoch of each era so far

oracleVars == <<price, activeSigners, signerSetEpoch, pendingSigner, epochAt>>

OracleInit ==
    /\ price = [priceQ96 |-> 0, ts |-> 0]
    /\ activeSigners = {}
    /\ signerSetEpoch = 1
    /\ pendingSigner = [c \in SignerChange |-> 0]
    /\ epochAt = <<1>>

\* Two honest readings of the market of an era: prices of eras never meet.
Market(era) == {2 * era, 2 * era + 1}

Reports ==
    {r \in [signer : Signers, era : DOMAIN epochAt,
            priceQ96 : FaultyPrices \cup UNION {Market(e) : e \in DOMAIN epochAt}] :
        IF r.signer \in Faulty THEN r.priceQ96 \in FaultyPrices ELSE r.priceQ96 \in Market(r.era)}

\* The signature recovers to an active signer under the current epoch only.
Signed(r) == r.signer \in activeSigners /\ epochAt[r.era] = signerSetEpoch

\* The middle of the k prices once sorted: at(i), counted from 0, is the least price
\* that more than i of them do not exceed.
Median(batch) ==
    LET k == Cardinality(batch)
        upTo(n) == {r \in batch : r.priceQ96 <= n}
        at(i) == Min({n \in {r.priceQ96 : r \in batch} : Cardinality(upTo(n)) > i})
    IN  IF k % 2 = 1 THEN at(k \div 2) ELSE (at(k \div 2 - 1) + at(k \div 2)) \div 2

\* Only the largest timestamp of a batch is kept.  A batch older than the price
\* it replaces is accepted.
postPrices(batch, maxTs) ==
    /\ Cardinality(batch) \in MIN_SIGNERS..MAX_SIGNERS
    /\ \A r \in batch : Signed(r)
    /\ \A r, q \in batch : r.signer = q.signer => r = q
    /\ maxTs + MAX_AGE >= now /\ maxTs <= now + FUTURE_SKEW
    /\ price' = [priceQ96 |-> Median(batch), ts |-> maxTs]
    /\ UNCHANGED <<now, activeSigners, signerSetEpoch, pendingSigner, epochAt>>

\* One change is pending per signer: another proposal replaces it.
proposeSignerChange(s, active) ==
    /\ pendingSigner' = [pendingSigner EXCEPT ![<<s, active>>] = now + ROTATION_TIMELOCK,
                                              ![<<s, ~ active>>] = 0]
    /\ Cardinality({c \in SignerChange : pendingSigner'[c] # 0}) <= MaxPending
    /\ UNCHANGED <<now, price, activeSigners, signerSetEpoch, epochAt>>

\* Mutant: only an admission moves the epoch.
SignerEffectKeepingEpoch(c, d) ==
    IF (d[1] \in c.signers) = d[2] THEN c
    ELSE [signers |-> IF d[2] THEN c.signers \cup {d[1]} ELSE c.signers \ {d[1]},
          epoch |-> IF d[2] THEN c.epoch + 1 ELSE c.epoch]

SignerEffect(c, d) ==
    IF (d[1] \in c.signers) = d[2] THEN c
    ELSE [signers |-> IF d[2] THEN c.signers \cup {d[1]} ELSE c.signers \ {d[1]},
          epoch |-> c.epoch + 1]

\* Mutant: a proposal may be executed at once.
SignerAnnounced(s, active) == pendingSigner[<<s, active>>] # 0

\* exists, the same direction, and the delay is over
SignerDue(s, active) ==
    pendingSigner[<<s, active>>] # 0 /\ now >= pendingSigner[<<s, active>>]

executeSignerChange(s, active) ==
    LET c == SignerEffect([signers |-> activeSigners, epoch |-> signerSetEpoch], <<s, active>>) IN
    /\ SignerDue(s, active)
    /\ active /\ s \notin activeSigners => Cardinality(activeSigners) + 1 <= MAX_SIGNERS
    /\ pendingSigner' = [pendingSigner EXCEPT ![<<s, active>>] = 0]
    /\ activeSigners' = c.signers
    /\ signerSetEpoch' = c.epoch
    /\ epochAt' = IF c.signers # activeSigners THEN Append(epochAt, c.epoch) ELSE epochAt
    /\ c.signers # activeSigners => Len(epochAt) <= MaxEra
    /\ UNCHANGED <<now, price>>

OracleTick == Advance /\ UNCHANGED oracleVars

OracleNext ==
    \/ OracleTick
    \/ \E batch \in SUBSET {r \in Reports : Signed(r)}, t \in 1..MaxTime : postPrices(batch, t)
    \/ \E s \in Signers, active \in BOOLEAN :
           proposeSignerChange(s, active) \/ executeSignerChange(s, active)

OracleSpec == now = 1 /\ OracleInit /\ [][OracleNext]_<<now, oracleVars>>

------------------------------------------------------------------------------

SignerChanges == INSTANCE Timelock
    WITH Change <- SignerChange, Effect <- SignerEffect, DELAY <- ROTATION_TIMELOCK,
         Configs <- {[signers |-> {}, epoch |-> 1]},
         due <- pendingSigner, config <- [signers |-> activeSigners, epoch |-> signerSetEpoch]

\* The oracle implements a timelock on its signer set: a signer joins or leaves
\* only ROTATION_TIMELOCK after the last proposal about it, and the epoch moves
\* with each change and with nothing else (proposeSignerChange,
\* executeSignerChange, its no-op path included).
SignersWait == SignerChanges!TimelockSpec

\* A price that is posted is one the honest signers of the current set report
\* now: neither a single faulty signer, by repeating itself or by an extreme
\* value, nor signatures kept from an earlier set, from before a signer left
\* and came back, can move the median out of their range (postPrices).
PriceIsOfThisEra ==
    [][price' # price =>
        /\ price'.priceQ96 >= 2 * Len(epochAt)
        /\ price'.priceQ96 <= 2 * Len(epochAt) + 1]_<<price, epochAt>>
==============================================================================
