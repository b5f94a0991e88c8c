----------------------------- MODULE FeeCollector -----------------------------
(***************************************************************************)
(* FeeCollector.sol: fees in the base asset are split over revenue streams *)
(* by parts-per-million share; each stream's accrued part waits to be      *)
(* pulled.                                                                 *)
(*                                                                         *)
(* One action per external function; a call that reverts is not a step.    *)
(* The base asset is external: what a collection really delivers may be    *)
(* less than what was asked for, and anyone may send the contract tokens   *)
(* outside collectFee.                                                     *)
(***************************************************************************)
EXTENDS IndexedList, FiniteSets, SequencesExt

CONSTANTS
    StreamIds,                  \* stream ids
    STREAM_PAYMASTER_RESERVE,   \* the one bridgeToPaymaster draws on
    Recipients,                 \* non-zero recipient addresses
    Batches,                    \* argument lists of configureStreams
    PPM_DENOMINATOR,
    MaxHeld                     \* bound: base asset held by the contract

EntryType == [id : StreamIds, recipient : Recipients, sharePpm : Nat]

ASSUME FeeAssumption ==
    /\ IsFiniteSet(StreamIds)
    /\ STREAM_PAYMASTER_RESERVE \in StreamIds
    /\ Batches \subseteq Seq(EntryType)
    /\ PPM_DENOMINATOR \in Nat \ {0}
    /\ MaxHeld \in Nat

VARIABLES
    streamIds,      \* _streamIds
    streamIndex,    \* _streamIndex
    stream,         \* _streams; a set of 0 or 1 recipient stands for address(0)
    totalAccrued,
    held            \* base asset held by the contract

streamConfig == <<streamIds, streamIndex>>
allFeeVars == <<streamConfig, stream, totalAccrued, held>>

StreamType ==
    [exists : BOOLEAN, recipient : SUBSET Recipients, sharePpm : Nat, accrued : Nat]

NoStream == [exists |-> FALSE, recipient |-> {}, sharePpm |-> 0, accrued |-> 0]

FeeInit ==
    /\ streamIds = <<>>
    /\ streamIndex = [id \in StreamIds |-> 0]
    /\ stream = [id \in StreamIds |-> NoStream]
    /\ totalAccrued = 0
    /\ held = 0

\* The sum over a list of ids
Total(ids, Of(_)) == SumFunction([k \in DOMAIN ids |-> Of(ids[k])])

\* _assertSharesSumToOneMillion, on the streams as they are being stored
SharesComplete(ids, streams) ==
    Total(ids, LAMBDA id : streams[id].sharePpm) = PPM_DENOMINATOR

------------------------------------------------------------------------------

\* One entry stored over a configuration; an existing stream keeps its place
\* and what it has accrued.
Configured(c, e) ==
    [ids   |-> IF c.streams[e.id].exists THEN c.ids ELSE PushedList(c.ids, e.id),
     index |-> IF c.streams[e.id].exists THEN c.index
                                         ELSE PushedIndex(c.ids, c.index, e.id),
     streams |-> [c.streams EXCEPT ![e.id] =
                     [@ EXCEPT !.exists = TRUE, !.recipient = {e.recipient},
                               !.sharePpm = e.sharePpm]]]

\* configureStream is the batch of one.
ConfigureStreams(batch) ==
    LET c == FoldLeft(Configured,
                 [ids |-> streamIds, index |-> streamIndex, streams |-> stream], batch)
    IN  /\ SharesComplete(c.ids, c.streams)
        /\ streamIds' = c.ids
        /\ streamIndex' = c.index
        /\ stream' = c.streams
        /\ UNCHANGED <<totalAccrued, held>>

Removed(id) ==
    /\ streamIds' = PoppedList(streamIds, streamIndex, id)
    /\ streamIndex' = PoppedIndex(streamIds, streamIndex, id)
    /\ stream' = [stream EXCEPT ![id] = NoStream]
    /\ streamIds' # <<>> => SharesComplete(streamIds', stream')
    /\ UNCHANGED <<totalAccrued, held>>

RemoveStream(id) ==
    /\ stream[id].exists
    /\ stream[id].accrued = 0
    /\ Removed(id)

------------------------------------------------------------------------------

Portion(received, id) == (received * stream[id].sharePpm) \div PPM_DENOMINATOR

\* The streams without a share are passed over.
FirstPaying ==
    LET paying == {k \in DOMAIN streamIds : stream[streamIds[k]].sharePpm # 0}
    IN  streamIds[Min(paying)]

\* The first paying stream also gets what rounding left over.
CollectFee(received) ==
    LET distributed == Total(streamIds, LAMBDA id : Portion(received, id))
        dust == received - distributed
        credit(id) == Portion(received, id) + (IF id = FirstPaying THEN dust ELSE 0)
    IN  /\ streamIds # <<>>
        /\ held + received <= MaxHeld
        /\ held' = held + received
        /\ stream' = [id \in StreamIds |->
                         IF stream[id].sharePpm = 0 THEN stream[id]
                         ELSE [stream[id] EXCEPT !.accrued = @ + credit(id)]]
        /\ totalAccrued' = totalAccrued + received
        /\ UNCHANGED streamConfig

Debit(id, amount) ==
    /\ stream[id].exists
    /\ amount > 0
    /\ held >= amount
    /\ stream' = [stream EXCEPT ![id].accrued = @ - amount]
    /\ totalAccrued' = totalAccrued - amount
    /\ held' = held - amount
    /\ UNCHANGED streamConfig

Pay(id, amount) ==
    /\ amount <= stream[id].accrued
    /\ totalAccrued >= amount
    /\ Debit(id, amount)

\* Mutant: the amount is read after the stream was reset, so nothing is sent.
WithdrawAfterReset(id) ==
    /\ stream[id].accrued > 0
    /\ stream' = [stream EXCEPT ![id].accrued = 0]
    /\ UNCHANGED <<streamConfig, totalAccrued, held>>

\* Anyone may push a stream's whole accrued amount to its recipient.
WithdrawStream(id) == Pay(id, stream[id].accrued)

WithdrawTo(sender, id, amount) ==
    /\ sender \in stream[id].recipient
    /\ Pay(id, amount)

\* onlyOwner; the owner draws on the reserve stream, to any target.
BridgeToPaymaster(amount) == Pay(STREAM_PAYMASTER_RESERVE, amount)

\* A plain transfer to the contract, which no accounting sees.
DonateFees ==
    /\ held < MaxHeld
    /\ held' = held + 1
    /\ UNCHANGED <<streamConfig, stream, totalAccrued>>

FeeNext ==
    \/ \E batch \in Batches : ConfigureStreams(batch)
    \/ \E id \in StreamIds : RemoveStream(id)
    \/ \E received \in 0..MaxHeld : CollectFee(received)
    \/ \E id \in StreamIds : WithdrawStream(id)
    \/ \E s \in Recipients, id \in StreamIds, amount \in 1..MaxHeld :
           WithdrawTo(s, id, amount)
    \/ \E amount \in 1..MaxHeld : BridgeToPaymaster(amount)
    \/ DonateFees

FeeSpec == FeeInit /\ [][FeeNext]_allFeeVars

------------------------------------------------------------------------------

\* Every variable stays in its type: no accrued amount ever goes below zero.
FeeTypeOK ==
    /\ streamIds \in Seq(StreamIds)
    /\ streamIndex \in [StreamIds -> Nat]
    /\ stream \in [StreamIds -> StreamType]
    /\ totalAccrued \in Nat
    /\ held \in Nat

\* Every variable is in its type; the array, the positions and the exists flags
\* agree, and as long as there is a stream the shares make up exactly the whole:
\* a batch that repeats an id, or a removal from the middle, never loses or
\* doubles a stream or its share.
StreamsIndexed ==
    /\ FeeTypeOK
    /\ IsIndexed(streamIds, streamIndex)
    /\ \A id \in StreamIds : stream[id].exists <=> streamIndex[id] # 0
    /\ streamIds # <<>> => SharesComplete(streamIds, stream)

\* What the listed streams have accrued is the global total, to the unit, and
\* the contract holds it: a payout never fails with AccruedUnderflow (audit
\* M-6) or for lack of tokens.
AccruedIsBacked ==
    /\ Total(streamIds, LAMBDA id : stream[id].accrued) = totalAccrued
    /\ totalAccrued <= held

\* What a step does to the streams' accrued amounts is fair: one goes down only by
\* tokens that leave for it, and then no other stream's amount moves; a collection
\* credits every stream its share rounded down, plus at most a unit per other stream.
AccrualsAreFair ==
    [][\A id \in StreamIds :
          LET got == stream'[id].accrued - stream[id].accrued
              due == ((held' - held) * stream[id].sharePpm) \div PPM_DENOMINATOR
          IN  /\ got < 0 => /\ held - held' = -got
                            /\ \A other \in StreamIds \ {id} : stream'[other] = stream[other]
              /\ totalAccrued' > totalAccrued
                   => due <= got /\ got < due + Len(streamIds)]_allFeeVars
===============================================================================
