----------------------------- MODULE TimelockProofs -----------------------------
(***************************************************************************)
(* The contracts of the run Timelocks, for any set of keys, payloads,      *)
(* signers, facets and cuts and any delay.                                 *)
(*                                                                         *)
(* The attestor, the relay, the oracle and the diamond implement Timelock. *)
(* Each of these proofs has the shape of a refinement: an invariant of the *)
(* detailed specification, its initial states map to initial states, and   *)
(* each of its steps to a step of the timelock or to one that leaves it    *)
(* alone.  Beside them: what the attestor serves was signed (AttestedInv), *)
(* the relay's block budget (BudgetInv), the trail of the poster           *)
(* (PosterInv), the era of the price (EraInv) and the diamond's tables     *)
(* (SoundTables, kept through every entry of a cut); and the run as a      *)
(* whole (TimelocksInv).                                                   *)
(***************************************************************************)
EXTENDS MCTimelocks, EmergencyShutdownProofs

USE MaxTimeAssumption

-------------------------------------------------------------------------------
(* The attestor: one slot, seen as one deadline per key. *)

\* At most one key is pending, which is what the single slot of the contract means.
OneSlot ==
    /\ now \in Nat
    /\ pendingAttestor \in [Attestors -> Nat]
    /\ \A a, b \in Attestors : pendingAttestor[a] # 0 /\ pendingAttestor[b] # 0 => a = b

LEMMA AttestorInitOneSlot == now = 1 /\ AttestorInit => OneSlot
BY DEF AttestorInit, OneSlot

LEMMA AttestorNextOneSlot ==
    ASSUME OneSlot, [AttestorNext]_<<now, attestorVars>>
    PROVE  OneSlot'
<1> USE AttestorAssumption
<1>1. CASE AttestorTick
    BY <1>1 DEF AttestorTick, Advance, attestorVars, OneSlot
<1>2. ASSUME NEW p \in Signatures, attest(p)
      PROVE  OneSlot'
    BY <1>2 DEF attest, OneSlot
<1>3. ASSUME NEW a \in Attestors, proposeAttestor(a)
      PROVE  OneSlot'
    <2>1. now + ATTESTOR_TIMELOCK \in Nat
        BY DEF OneSlot
    <2>2. pendingAttestor' \in [Attestors -> Nat]
        BY <1>3, <2>1 DEF proposeAttestor
    <2>3. \A b \in Attestors : pendingAttestor'[b] # 0 => b = a
        BY <1>3 DEF proposeAttestor
    <2> QED BY <1>3, <2>2, <2>3 DEF proposeAttestor, OneSlot
<1>4. ASSUME NEW a \in Attestors, executeAttestor(a)
      PROVE  OneSlot'
    BY <1>4 DEF executeAttestor, OneSlot
<1>5. CASE UNCHANGED <<now, attestorVars>>
    BY <1>5 DEF attestorVars, OneSlot
<1> QED BY <1>1, <1>2, <1>3, <1>4, <1>5 DEF AttestorNext

\* A step of the attestor is one of the timelock on its key, or touches none of it.
LEMMA AttestorStepMaps ==
    ASSUME OneSlot, [AttestorNext]_<<now, attestorVars>>
    PROVE  [AttestorChanges!TimelockNext]_<<now, pendingAttestor, attestor>>
<1> USE AttestorAssumption
<1>1. CASE AttestorTick
    <2>1. AttestorChanges!Elapse
        BY <1>1 DEF AttestorTick, Advance, attestorVars, OneSlot, AttestorChanges!Elapse
    <2> QED BY <2>1 DEF AttestorChanges!TimelockNext
<1>2. ASSUME NEW p \in Signatures, attest(p)
      PROVE  UNCHANGED <<now, pendingAttestor, attestor>>
    BY <1>2 DEF attest
<1>3. ASSUME NEW a \in Attestors, proposeAttestor(a)
      PROVE  AttestorChanges!Announce(a)
    BY <1>3 DEF proposeAttestor, AttestorChanges!Announce
<1>4. ASSUME NEW a \in Attestors, executeAttestor(a)
      PROVE  AttestorChanges!Apply(a)
    <2>1. \A b \in Attestors \ {a} : pendingAttestor[b] = 0
        BY <1>4 DEF executeAttestor, AttestorDue, OneSlot
    <2>2. pendingAttestor' = [pendingAttestor EXCEPT ![a] = 0]
        BY <1>4, <2>1 DEF executeAttestor, OneSlot
    <2> QED BY <1>4, <2>2 DEF executeAttestor, AttestorDue, AttestorEffect, AttestorChanges!Apply
<1>5. CASE UNCHANGED <<now, attestorVars>>
    BY <1>5 DEF attestorVars
<1> QED BY <1>1, <1>2, <1>3, <1>4, <1>5 DEF AttestorNext, AttestorChanges!TimelockNext

\* The key that may write off-chain state changes only ATTESTOR_TIMELOCK after the
\* last proposal, and to the key proposed (proposeAttestor, executeAttestor).
THEOREM AttestorRefinesTimelock == AttestorSpec => AttestorWaits
<1>1. AttestorSpec => []OneSlot
    <2>1. OneSlot /\ [AttestorNext]_<<now, attestorVars>> => OneSlot'
        BY AttestorNextOneSlot
    <2> QED BY AttestorInitOneSlot, <2>1, PTL DEF AttestorSpec
<1>2. now = 1 /\ AttestorInit => AttestorChanges!TimelockInit
    BY DEF AttestorInit, AttestorChanges!TimelockInit
<1>3. OneSlot /\ [AttestorNext]_<<now, attestorVars>>
        => [AttestorChanges!TimelockNext]_<<now, pendingAttestor, attestor>>
    BY AttestorStepMaps
<1> QED BY <1>1, <1>2, <1>3, PTL DEF AttestorSpec, AttestorWaits, AttestorChanges!TimelockSpec

-------------------------------------------------------------------------------
(* The relay: one deadline per payload. *)

RelayTyped == now \in Nat /\ pendingPayload \in [Payloads -> Nat]

LEMMA RelayInitTyped == now = 1 /\ RelayInit => RelayTyped
BY DEF RelayInit, RelayTyped

LEMMA RelayNextTyped ==
    ASSUME RelayTyped, [RelayNext]_<<now, relayVars>>
    PROVE  RelayTyped'
<1> USE RelayAssumption
<1>1. CASE NewBlock
    BY <1>1 DEF NewBlock, Advance, RelayTyped
<1>2. ASSUME NEW c \in Callers, validatePaymasterUserOp(c)
      PROVE  RelayTyped'
    BY <1>2 DEF validatePaymasterUserOp, RelayTyped
<1>3. ASSUME NEW p \in Payloads, proposeSet(p)
      PROVE  RelayTyped'
    BY <1>3 DEF proposeSet, RelayTyped
<1>4. ASSUME NEW p \in Payloads, executeSet(p)
      PROVE  RelayTyped'
    BY <1>4 DEF executeSet, RelayTyped
<1>5. CASE UNCHANGED <<now, relayVars>>
    BY <1>5 DEF relayVars, RelayTyped
<1> QED BY <1>1, <1>2, <1>3, <1>4, <1>5 DEF RelayNext

\* A step of the relay is one of the timelock on its settings, or touches none of
\* it: blocks pass and operations are sponsored.
LEMMA RelayStepMaps ==
    ASSUME RelayTyped, [RelayNext]_<<now, relayVars>>
    PROVE  [RelayChanges!TimelockNext]_<<now, pendingPayload, relay>>
<1>1. CASE NewBlock
    <2>1. CASE Advance
        <3>1. RelayChanges!Elapse
            BY <1>1, <2>1 DEF NewBlock, Advance, RelayTyped, RelayChanges!Elapse
        <3> QED BY <3>1 DEF RelayChanges!TimelockNext
    <2>2. CASE UNCHANGED now
        BY <1>1, <2>2 DEF NewBlock
    <2> QED BY <1>1, <2>1, <2>2 DEF NewBlock
<1>2. ASSUME NEW c \in Callers, validatePaymasterUserOp(c)
      PROVE  UNCHANGED <<now, pendingPayload, relay>>
    BY <1>2 DEF validatePaymasterUserOp
<1>3. ASSUME NEW p \in Payloads, proposeSet(p)
      PROVE  RelayChanges!Announce(p)
    BY <1>3 DEF proposeSet, RelayTyped, RelayChanges!Announce
<1>4. ASSUME NEW p \in Payloads, executeSet(p)
      PROVE  RelayChanges!Apply(p)
    BY <1>4 DEF executeSet, PayloadDue, RelayChanges!Apply
<1>5. CASE UNCHANGED <<now, relayVars>>
    BY <1>5 DEF relayVars
<1> QED BY <1>1, <1>2, <1>3, <1>4, <1>5 DEF RelayNext, RelayChanges!TimelockNext

\* No cap and no caller of the relay changes but by a payload announced
\* RELAY_TIMELOCK earlier (the three propose/execute pairs of PaymasterRelay).
THEOREM RelayRefinesTimelock == RelaySpec => RelayWaits
<1>1. RelaySpec => []RelayTyped
    <2>1. RelayTyped /\ [RelayNext]_<<now, relayVars>> => RelayTyped'
        BY RelayNextTyped
    <2> QED BY RelayInitTyped, <2>1, PTL DEF RelaySpec
<1>2. now = 1 /\ RelayInit => RelayChanges!TimelockInit
    BY DEF RelayInit, RelayChanges!TimelockInit
<1>3. RelayTyped /\ [RelayNext]_<<now, relayVars>>
        => [RelayChanges!TimelockNext]_<<now, pendingPayload, relay>>
    BY RelayStepMaps
<1> QED BY <1>1, <1>2, <1>3, PTL DEF RelaySpec, RelayWaits, RelayChanges!TimelockSpec

-------------------------------------------------------------------------------
(* The oracle: one deadline per signer and direction. *)

OracleTyped == now \in Nat /\ pendingSigner \in [SignerChange -> Nat]

LEMMA OracleInitTyped == now = 1 /\ OracleInit => OracleTyped
BY DEF OracleInit, OracleTyped

LEMMA OracleNextTyped ==
    ASSUME OracleTyped, [OracleNext]_<<now, oracleVars>>
    PROVE  OracleTyped'
<1> USE OracleAssumption
<1>1. CASE OracleTick
    BY <1>1 DEF OracleTick, Advance, oracleVars, OracleTyped
<1>2. ASSUME NEW batch, NEW t, postPrices(batch, t)
      PROVE  OracleTyped'
    BY <1>2 DEF postPrices, OracleTyped
<1>3. ASSUME NEW s \in Signers, NEW active \in BOOLEAN, proposeSignerChange(s, active)
      PROVE  OracleTyped'
    <2>1. ROTATION_TIMELOCK \in Nat
        BY DEF OracleAssumption
    <2>2. now + ROTATION_TIMELOCK \in Nat
        BY <2>1 DEF OracleTyped
    <2>3. pendingSigner' = [pendingSigner EXCEPT ![<<s, active>>] = now + ROTATION_TIMELOCK,
                                                 ![<<s, ~ active>>] = 0]
        BY <1>3 DEF proposeSignerChange
    <2>4. pendingSigner' \in [SignerChange -> Nat]
        BY <2>2, <2>3 DEF OracleTyped
    <2> QED BY <1>3, <2>4 DEF proposeSignerChange, OracleTyped
<1>4. ASSUME NEW s \in Signers, NEW active \in BOOLEAN, executeSignerChange(s, active)
      PROVE  OracleTyped'
    BY <1>4 DEF executeSignerChange, OracleTyped
<1>5. CASE UNCHANGED <<now, oracleVars>>
    BY <1>5 DEF oracleVars, OracleTyped
<1> QED BY <1>1, <1>2, <1>3, <1>4, <1>5 DEF OracleNext

\* A step of the oracle is one of the timelock on its signers and their epoch, or
\* touches none of it.
LEMMA OracleStepMaps ==
    ASSUME OracleTyped, [OracleNext]_<<now, oracleVars>>
    PROVE  [SignerChanges!TimelockNext]_<<now, pendingSigner,
                                          [signers |-> activeSigners, epoch |-> signerSetEpoch]>>
<1>1. CASE OracleTick
    <2>1. SignerChanges!Elapse
        BY <1>1 DEF OracleTick, Advance, oracleVars, OracleTyped, SignerChanges!Elapse
    <2> QED BY <2>1 DEF SignerChanges!TimelockNext
<1>2. ASSUME NEW batch, NEW t, postPrices(batch, t)
      PROVE  UNCHANGED <<now, pendingSigner, activeSigners, signerSetEpoch>>
    BY <1>2 DEF postPrices
<1>3. ASSUME NEW s \in Signers, NEW active \in BOOLEAN, proposeSignerChange(s, active)
      PROVE  SignerChanges!Announce(<<s, active>>)
    <2> DEFINE d == <<s, active>>
               opposite == <<s, ~ active>>
    <2>1. d \in SignerChange /\ opposite \in SignerChange /\ d # opposite
        BY DEF SignerChange
    <2>2. pendingSigner' = [pendingSigner EXCEPT ![d] = now + ROTATION_TIMELOCK, ![opposite] = 0]
        BY <1>3 DEF proposeSignerChange
    <2>3. UNCHANGED <<now, activeSigners, signerSetEpoch>>
        BY <1>3 DEF proposeSignerChange
    <2> HIDE DEF d, opposite
    <2>4. /\ pendingSigner' = [e \in SignerChange |-> pendingSigner'[e]]
          /\ pendingSigner'[d] = now + ROTATION_TIMELOCK
          /\ \A e \in SignerChange \ {d} : pendingSigner'[e] \in {0, pendingSigner[e]}
        BY <2>1, <2>2 DEF OracleTyped
    <2>5. SignerChanges!Announce(d)
        BY <2>3, <2>4 DEF SignerChanges!Announce
    <2> QED BY <2>5 DEF d
<1>4. ASSUME NEW s \in Signers, NEW active \in BOOLEAN, executeSignerChange(s, active)
      PROVE  SignerChanges!Apply(<<s, active>>)
    <2> DEFINE d == <<s, active>>
               c == SignerEffect([signers |-> activeSigners, epoch |-> signerSetEpoch], d)
    <2>1. c = [signers |-> c.signers, epoch |-> c.epoch]
        BY DEF SignerEffect
    <2>2. /\ pendingSigner[d] # 0 /\ now >= pendingSigner[d]
          /\ pendingSigner' = [pendingSigner EXCEPT ![d] = 0]
          /\ activeSigners' = c.signers /\ signerSetEpoch' = c.epoch
          /\ UNCHANGED now
        BY <1>4 DEF executeSignerChange, SignerDue
    <2> QED BY <2>1, <2>2 DEF SignerChanges!Apply
<1>5. CASE UNCHANGED <<now, oracleVars>>
    BY <1>5 DEF oracleVars
<1> QED BY <1>1, <1>2, <1>3, <1>4, <1>5 DEF OracleNext, SignerChanges!TimelockNext, SignerChange

\* A signer joins or leaves only ROTATION_TIMELOCK after the last proposal about it,
\* and the epoch moves with each change and with nothing else (proposeSignerChange,
\* executeSignerChange).
THEOREM OracleRefinesTimelock == OracleSpec => SignersWait
<1>1. OracleSpec => []OracleTyped
    <2>1. OracleTyped /\ [OracleNext]_<<now, oracleVars>> => OracleTyped'
        BY OracleNextTyped
    <2> QED BY OracleInitTyped, <2>1, PTL DEF OracleSpec
<1>2. now = 1 /\ OracleInit => SignerChanges!TimelockInit
    BY DEF OracleInit, SignerChanges!TimelockInit
<1>3. OracleTyped /\ [OracleNext]_<<now, oracleVars>>
        => [SignerChanges!TimelockNext]_<<now, pendingSigner,
                                          [signers |-> activeSigners, epoch |-> signerSetEpoch]>>
    BY OracleStepMaps
<1> QED BY <1>1, <1>2, <1>3, PTL DEF OracleSpec, SignersWait, SignerChanges!TimelockSpec

-------------------------------------------------------------------------------
(* What the attestor serves, and what the relay pays for. *)

AttestedInv ==
    /\ now \in Nat /\ submissions \in Nat
    /\ currentState = [t \in TokenIds |-> currentState[t]]
    /\ IsFiniteSet(nullifiers)
    /\ StateIsAttested

LEMMA AttestorInitAttested == now = 1 /\ AttestorInit => AttestedInv
<1> SUFFICES ASSUME now = 1, AttestorInit
             PROVE  AttestedInv
    OBVIOUS
<1>1. IsFiniteSet(nullifiers) /\ Cardinality(nullifiers) = 0
    BY FS_EmptySet DEF AttestorInit
<1> QED BY <1>1 DEF AttestorInit, AttestedInv, StateIsAttested

\* A payload submitted is served with the time of its submission, and the others
\* still hold: nullifiers are only added.
LEMMA AttestKeepsInv ==
    ASSUME AttestedInv, NEW p \in Signatures, attest(p)
    PROVE  AttestedInv'
<1> DEFINE served == [value |-> p.value, notAfter |-> p.notAfter, ts |-> now]
<1>1. /\ nullifiers' = nullifiers \cup {p.nullifier} /\ p.nullifier \notin nullifiers
      /\ currentState' = [currentState EXCEPT ![p.tokenId] = served]
      /\ submissions' = submissions + 1 /\ now' = now
      /\ now >= p.notBefore /\ now <= p.notAfter
    BY DEF attest, Fresh
<1>2. /\ IsFiniteSet(nullifiers') /\ submissions' \in Nat
      /\ submissions' <= Cardinality(nullifiers')
    <2>1. /\ IsFiniteSet(nullifiers \cup {p.nullifier})
          /\ Cardinality(nullifiers \cup {p.nullifier}) = Cardinality(nullifiers) + 1
        BY <1>1, FS_AddElement DEF AttestedInv
    <2>2. Cardinality(nullifiers) \in Nat /\ submissions <= Cardinality(nullifiers)
        BY FS_CardinalityType DEF AttestedInv, StateIsAttested
    <2> QED BY <1>1, <2>1, <2>2 DEF AttestedInv
<1>3. now \in p.notBefore..p.notAfter
    BY <1>1, AttestorAssumption DEF AttestedInv
<1>4. served.value = p.value /\ served.notAfter = p.notAfter /\ served.ts = now
    OBVIOUS
<1> HIDE DEF served
<1>5. currentState' = [t \in TokenIds |-> currentState'[t]] /\ currentState'[p.tokenId] = served
    BY <1>1 DEF AttestedInv, TokenIds
<1>6. ASSUME NEW t \in TokenIds, currentState'[t] # NoState
      PROVE  \E q \in Signatures :
                /\ q.tokenId = t /\ q.nullifier \in nullifiers'
                /\ q.value = currentState'[t].value /\ q.notAfter = currentState'[t].notAfter
                /\ currentState'[t].ts \in q.notBefore..q.notAfter
    <2>1. CASE t = p.tokenId
        BY <1>1, <1>3, <1>4, <1>5, <2>1
    <2>2. CASE t # p.tokenId
        <3>1. currentState'[t] = currentState[t]
            BY <1>1, <2>2 DEF AttestedInv
        <3> QED BY <1>1, <1>6, <3>1 DEF AttestedInv, StateIsAttested
    <2> QED BY <2>1, <2>2
<1> QED BY <1>1, <1>2, <1>5, <1>6 DEF AttestedInv, StateIsAttested, TokenIds

LEMMA AttestorNextAttested ==
    ASSUME AttestedInv, [AttestorNext]_<<now, attestorVars>>
    PROVE  AttestedInv'
<1>1. CASE AttestorTick
    <2>1. now' \in Nat /\ UNCHANGED <<nullifiers, currentState, submissions>>
        BY <1>1 DEF AttestorTick, Advance, attestorVars, AttestedInv
    <2> QED BY <2>1 DEF AttestedInv, StateIsAttested, TokenIds
<1>2. ASSUME NEW p \in Signatures, attest(p)
      PROVE  AttestedInv'
    BY <1>2, AttestKeepsInv
<1>3. ASSUME NEW a \in Attestors, proposeAttestor(a) \/ executeAttestor(a)
      PROVE  AttestedInv'
    BY <1>3 DEF proposeAttestor, executeAttestor, AttestedInv, StateIsAttested, TokenIds
<1>4. CASE UNCHANGED <<now, attestorVars>>
    BY <1>4 DEF attestorVars, AttestedInv, StateIsAttested, TokenIds
<1> QED BY <1>1, <1>2, <1>3, <1>4 DEF AttestorNext

\* For any payloads and in any order of their submission, what is served of a token
\* was signed for it and valid when it was submitted (attest, getOffChainState).
THEOREM ServedIsSigned == AttestorSpec => []StateIsAttested
<1>1. AttestedInv /\ [AttestorNext]_<<now, attestorVars>> => AttestedInv'
    BY AttestorNextAttested
<1>2. AttestedInv => StateIsAttested
    BY DEF AttestedInv
<1> QED BY AttestorInitAttested, <1>1, <1>2, PTL DEF AttestorSpec

-------------------------------------------------------------------------------
(* The budget of a block.  The cap in force never exceeds the largest of the *)
(* block, and an operation is sponsored below it.                            *)

BudgetInv ==
    /\ DOMAIN relay = {"max", "perCaller", "sponsored"}
    /\ relay.max \in Nat /\ topCap \in Nat /\ opsThisBlock \in Nat
    /\ relay.max <= topCap
    /\ opsByCaller \in [Callers -> Nat]
    /\ BlockBudget

LEMMA NoOpsYet ==
    ASSUME NEW f, f = [c \in Callers |-> 0]
    PROVE  f \in [Callers -> Nat] /\ SumFunction(f) = 0
<1>1. f \in [Callers -> Nat] /\ \A c \in Callers : f[c] = 0
    OBVIOUS
<1> QED BY <1>1, SumUpdate, RelayAssumption

LEMMA RelayInitBudget == RelayInit => BudgetInv
<1> SUFFICES ASSUME RelayInit
             PROVE  BudgetInv
    OBVIOUS
<1>1. opsByCaller \in [Callers -> Nat] /\ SumFunction(opsByCaller) = 0
    BY NoOpsYet DEF RelayInit
<1> QED BY <1>1, RelayAssumption DEF RelayInit, BudgetInv, BlockBudget

\* A payload sets the cap to one that was announced, or leaves it alone.
LEMMA EffectOnCap ==
    ASSUME NEW r, DOMAIN r = {"max", "perCaller", "sponsored"}, r.max \in Nat,
           NEW p \in Payloads
    PROVE  /\ DOMAIN RelayEffect(r, p) = {"max", "perCaller", "sponsored"}
           /\ RelayEffect(r, p).max \in Nat
<1>1. p \in PayloadType
    BY RelayAssumption
<1>2. CASE p.kind = "max"
    <2>1. RelayEffect(r, p) = [r EXCEPT !.max = p.cap] /\ p.cap \in Nat
        BY <1>1, <1>2 DEF PayloadType, RelayEffect
    <2> QED BY <2>1
<1>3. CASE p.kind = "callers"
    <2>1. PICK listed : RelayEffect(r, p) = [r EXCEPT !.sponsored = listed]
        BY <1>3 DEF RelayEffect
    <2> QED BY <2>1
<1>4. CASE p.kind = "per_caller"
    <2>1. PICK caps : RelayEffect(r, p) = [r EXCEPT !.perCaller = caps]
        BY <1>4 DEF RelayEffect
    <2> QED BY <2>1
<1> QED BY <1>1, <1>2, <1>3, <1>4 DEF PayloadType

LEMMA RelayNextBudget ==
    ASSUME BudgetInv, [RelayNext]_<<now, relayVars>>
    PROVE  BudgetInv'
<1> USE RelayAssumption
<1>1. CASE NewBlock
    <2>1. opsByCaller' \in [Callers -> Nat] /\ SumFunction(opsByCaller') = 0
        BY <1>1, NoOpsYet DEF NewBlock
    <2> QED BY <1>1, <2>1 DEF NewBlock, BudgetInv, BlockBudget
<1>2. ASSUME NEW c \in Callers, validatePaymasterUserOp(c)
      PROVE  BudgetInv'
    <2>1. /\ opsThisBlock < relay.max /\ opsThisBlock' = opsThisBlock + 1
          /\ opsByCaller' = [opsByCaller EXCEPT ![c] = @ + 1]
          /\ relay' = relay /\ topCap' = topCap
        BY <1>2 DEF validatePaymasterUserOp, WithinCaps
    <2>2. opsByCaller' \in [Callers -> Nat] /\ opsByCaller'[c] = opsByCaller[c] + 1
        BY <2>1 DEF BudgetInv
    <2>3. SumFunction(opsByCaller') = SumFunction(opsByCaller) - opsByCaller[c] + opsByCaller'[c]
        <3>1. \A b \in Callers \ {c} : opsByCaller'[b] = opsByCaller[b]
            BY <2>1 DEF BudgetInv
        <3> QED BY <2>2, <3>1, SumChange DEF BudgetInv
    <2>4. opsByCaller[c] \in Nat
        BY DEF BudgetInv
    <2>5. opsThisBlock' = SumFunction(opsByCaller')
        BY <2>1, <2>2, <2>3, <2>4 DEF BudgetInv, BlockBudget
    <2> QED BY <2>1, <2>2, <2>5 DEF BudgetInv, BlockBudget
<1>3. ASSUME NEW p \in Payloads, proposeSet(p)
      PROVE  BudgetInv'
    BY <1>3 DEF proposeSet, counts, BudgetInv, BlockBudget
<1>4. ASSUME NEW p \in Payloads, executeSet(p)
      PROVE  BudgetInv'
    <2>1. /\ relay' = RelayEffect(relay, p)
          /\ topCap' = IF relay'.max > topCap THEN relay'.max ELSE topCap
          /\ UNCHANGED <<opsByCaller, opsThisBlock>>
        BY <1>4 DEF executeSet, counts
    <2>2. DOMAIN relay' = {"max", "perCaller", "sponsored"} /\ relay'.max \in Nat
        BY <2>1, EffectOnCap DEF BudgetInv
    <2> QED BY <2>1, <2>2 DEF BudgetInv, BlockBudget
<1>5. CASE UNCHANGED <<now, relayVars>>
    BY <1>5 DEF relayVars, BudgetInv, BlockBudget
<1> QED BY <1>1, <1>2, <1>3, <1>4, <1>5 DEF RelayNext

\* For any callers, caps and payloads: a block never pays for more operations than
\* the largest cap in force during it (validatePaymasterUserOp, executeSet...).
THEOREM BudgetKept == RelaySpec => []BlockBudget
<1>1. BudgetInv /\ [RelayNext]_<<now, relayVars>> => BudgetInv'
    BY RelayNextBudget
<1>2. BudgetInv => BlockBudget
    BY DEF BudgetInv
<1> QED BY RelayInitBudget, <1>1, <1>2, PTL DEF RelaySpec

-------------------------------------------------------------------------------
(* The poster's trail.  One run is under way, so that a row is signed before    *)
(* the next account is read; hence rows of one agent grow with their numbers,   *)
(* and what is in the mempool is ahead of what is on chain and in order.        *)

RowType ==
    [tokenId : TokenIds, value : Nat, notBefore : Int, notAfter : Int, nullifier : Nat,
     signer : {PosterKey}]

ReadingType == [tokenId : TokenIds \cup {0}, value : Nat, nullifier : Nat]

RunType ==
    [todo : Seq(TokenIds), step : {"idle", "fetch", "sign", "simulate", "send"},
     payload : RowType \cup ReadingType]

PosterTyped ==
    /\ now \in Nat
    /\ account \in [TokenIds -> Nat]
    /\ tick \in [Ticks -> RunType]
    /\ rows \in SUBSET RowType /\ IsFiniteSet(rows)
    /\ mempool \in Seq(RowType)
    /\ currentState = [t \in TokenIds |-> currentState[t]]

LastRow == Cardinality(rows)

RowsInOrder ==
    /\ \A p \in rows : p.nullifier \in 1..LastRow /\ p.value <= account[p.tokenId]
    /\ \A p, q \in rows : p.nullifier = q.nullifier => p = q
    /\ \A p, q \in rows : p.tokenId = q.tokenId /\ p.nullifier < q.nullifier => p.value <= q.value

HasRead(k) ==
    LET r == tick[k].payload
    IN  /\ r.tokenId \in TokenIds /\ r.value \in Nat
        /\ r.value <= account[r.tokenId]
        /\ \A p \in rows : p.tokenId = r.tokenId => p.value <= r.value

HasSigned(k) ==
    /\ tick[k].payload \in rows /\ tick[k].payload.nullifier = LastRow
    /\ LastRow \notin nullifiers
    /\ \A i \in 1..Len(mempool) : mempool[i].nullifier < LastRow

RunIsSound(k) ==
    tick[k] # Idle =>
        /\ tick[k].step # "idle" /\ tick[k].todo # <<>>
        /\ tick[k].step = "sign" => HasRead(k)
        /\ tick[k].step \in {"simulate", "send"} => HasSigned(k)

OneRun ==
    /\ \A k \in Ticks : RunIsSound(k)
    /\ \A j, k \in Ticks : tick[j] # Idle /\ tick[k] # Idle => j = k

MempoolInOrder ==
    /\ \A i \in 1..Len(mempool) :
          mempool[i] \in rows /\ \A n \in nullifiers : n < mempool[i].nullifier
    /\ \A i, j \in 1..Len(mempool) : i < j => mempool[i].nullifier < mempool[j].nullifier

PosterInv == PosterTyped /\ RowsInOrder /\ OneRun /\ MempoolInOrder /\ TrailIsComplete

LEMMA IdleType == Idle \in RunType /\ Idle.step = "idle"
BY DEF Idle, RunType, Nothing, ReadingType

LEMMA NextPolicyType ==
    ASSUME NEW run \in RunType, run.todo # <<>>
    PROVE  /\ NextPolicy(run) \in RunType
           /\ NextPolicy(run) # Idle =>
                 NextPolicy(run).step = "fetch" /\ NextPolicy(run).todo # <<>>
<1> DEFINE w == [todo |-> Tail(run.todo), step |-> "fetch", payload |-> Nothing]
<1>1. CASE Len(run.todo) = 1
    BY <1>1, IdleType DEF NextPolicy
<1>2. CASE Len(run.todo) # 1
    <2>1. run.todo \in Seq(TokenIds)
        BY DEF RunType
    <2>2. Tail(run.todo) \in Seq(TokenIds) /\ Tail(run.todo) # <<>>
        <3>1. PICK s \in Seq(TokenIds) : s = run.todo
            BY <2>1
        <3>2. Len(s) \in Nat /\ Len(s) # 0 /\ Len(s) # 1
            BY <1>2, <3>1
        <3>3. Tail(s) \in Seq(TokenIds) /\ Len(Tail(s)) = Len(s) - 1
            BY <3>2
        <3>4. Len(Tail(s)) # 0 /\ Len(<<>>) = 0
            BY <3>2, <3>3
        <3> QED BY <3>1, <3>3, <3>4
    <2>3. w \in RunType /\ w.step = "fetch" /\ w.todo # <<>>
        BY <2>2 DEF RunType, Nothing, ReadingType
    <2>4. NextPolicy(run) = w
        BY <1>2 DEF NextPolicy
    <2> QED BY ONLY <2>3, <2>4
<1> QED BY <1>1, <1>2

\* A step of the one run that is under way: only that run has to be looked at.
LEMMA RunGoesOn ==
    ASSUME PosterInv, NEW k \in Ticks, tick[k] # Idle, NEW w \in RunType,
           tick' = [tick EXCEPT ![k] = w], RunIsSound(k)'
    PROVE  OneRun' /\ tick' \in [Ticks -> RunType]
<1>1. \A j \in Ticks : j # k => tick[j] = Idle /\ tick'[j] = Idle
    BY DEF PosterInv, PosterTyped, OneRun
<1>2. \A j \in Ticks : j # k => RunIsSound(j)'
    BY <1>1 DEF RunIsSound
<1> QED BY <1>1, <1>2 DEF OneRun, PosterInv, PosterTyped

\* A run goes on to its next policy, or ends; what it leaves behind may be sent.
LEMMA RunMovesOn ==
    ASSUME PosterInv, NEW k \in Ticks, tick[k] # Idle,
           tick' = [tick EXCEPT ![k] = NextPolicy(tick[k])]
    PROVE  OneRun' /\ tick' \in [Ticks -> RunType]
<1> DEFINE w == NextPolicy(tick[k])
<1>1. tick[k] \in RunType /\ tick[k].todo # <<>> /\ tick \in [Ticks -> RunType]
    BY DEF PosterInv, PosterTyped, OneRun, RunIsSound
<1>2. w \in RunType /\ (w # Idle => w.step = "fetch" /\ w.todo # <<>>)
    BY <1>1, NextPolicyType
<1>3. tick'[k] = w
    BY <1>1
<1> HIDE DEF w
<1>4. RunIsSound(k)'
    BY <1>2, <1>3 DEF RunIsSound
<1> QED BY <1>2, <1>4, RunGoesOn DEF w

\* A step that changes nothing but the run.
LEMMA RunAloneKeepsInv ==
    ASSUME PosterInv, OneRun', tick' \in [Ticks -> RunType],
           UNCHANGED <<now, attestorVars, account, rows, hashed, mempool>>
    PROVE  PosterInv'
<1>1. PosterTyped' /\ RowsInOrder'
    BY DEF PosterInv, PosterTyped, RowsInOrder, LastRow, attestorVars, TokenIds, RowType
<1>2. MempoolInOrder' /\ TrailIsComplete'
    BY DEF PosterInv, MempoolInOrder, TrailIsComplete, attestorVars, TokenIds
<1> QED BY <1>1, <1>2 DEF PosterInv

LEMMA PosterInitInv == now = 1 /\ AttestorInit /\ PosterInit => PosterInv
<1> SUFFICES ASSUME now = 1, AttestorInit, PosterInit
             PROVE  PosterInv
    OBVIOUS
<1>1. IsFiniteSet(rows) /\ rows = {} /\ mempool = <<>> /\ nullifiers = {} /\ hashed = {}
    BY FS_EmptySet DEF PosterInit, AttestorInit
<1>2. PosterTyped
    BY <1>1, IdleType DEF PosterInit, AttestorInit, PosterTyped
<1>3. OneRun
    BY DEF PosterInit, OneRun, RunIsSound
<1>4. TrailIsComplete
    BY <1>1 DEF AttestorInit, TrailIsComplete
<1> QED BY <1>1, <1>2, <1>3, <1>4 DEF PosterInv, RowsInOrder, MempoolInOrder

LEMMA StartKeepsInv ==
    ASSUME PosterInv, NEW k \in Ticks, TickStarts(k)
    PROVE  PosterInv'
<1>1. PICK live \in Policies :
         tick' = [tick EXCEPT ![k] = [todo |-> live, step |-> "fetch", payload |-> Nothing]]
    BY DEF TickStarts
<1> DEFINE w == [todo |-> live, step |-> "fetch", payload |-> Nothing]
<1>2. w \in RunType /\ w.step = "fetch" /\ w.todo # <<>>
    BY PosterAssumption DEF RunType, Nothing, ReadingType
<1>3. tick \in [Ticks -> RunType] /\ tick' = [tick EXCEPT ![k] = w]
    BY <1>1 DEF PosterInv, PosterTyped
<1> HIDE DEF w
<1>4. \A j \in Ticks : j # k => tick'[j] = Idle
    BY <1>3 DEF TickStarts, isRunning
<1>5. tick'[k] = w /\ tick' \in [Ticks -> RunType]
    BY <1>2, <1>3
<1>6. OneRun'
    BY <1>2, <1>4, <1>5 DEF OneRun, RunIsSound
<1> QED BY <1>5, <1>6, RunAloneKeepsInv DEF TickStarts

LEMMA FetchKeepsInv ==
    ASSUME PosterInv, NEW k \in Ticks, Fetches(k)
    PROVE  PosterInv'
<1> DEFINE t == Head(tick[k].todo)
           r == [Nothing EXCEPT !.tokenId = t, !.value = account[t]]
           w == [tick[k] EXCEPT !.step = "sign", !.payload = r]
<1>1. /\ tick[k] \in RunType /\ tick \in [Ticks -> RunType] /\ tick[k] # Idle
      /\ tick[k].todo # <<>>
    BY IdleType DEF Fetches, PosterInv, PosterTyped, OneRun, RunIsSound
<1>2. t \in TokenIds /\ account[t] \in Nat
    <2>1. tick[k].todo \in Seq(TokenIds)
        BY <1>1 DEF RunType
    <2> QED BY <1>1, <2>1 DEF PosterInv, PosterTyped
<1>3. tick' = [tick EXCEPT ![k] = w]
    BY DEF Fetches
<1> HIDE DEF t
<1>4. r \in ReadingType /\ r.tokenId = t /\ r.value = account[t]
    BY <1>2 DEF Nothing, ReadingType
<1> HIDE DEF r
<1>5. w \in RunType /\ w.step = "sign" /\ w.todo # <<>> /\ w.payload = r
    BY <1>1, <1>4 DEF RunType
<1> HIDE DEF w
<1>6. tick'[k] = w
    BY <1>1, <1>3
<1>7. UNCHANGED <<now, attestorVars, account, rows, hashed, mempool>>
    BY DEF Fetches
<1>8. \A p \in rows : p.tokenId = t => p.value <= account[t]
    BY DEF PosterInv, RowsInOrder
<1>9. HasRead(k)'
    <2>1. account' = account /\ rows' = rows
        BY <1>7
    <2>2. tick'[k].payload.tokenId = t /\ tick'[k].payload.value = account[t]
        BY <1>4, <1>5, <1>6
    <2>3. account[t] <= account[t]
        BY <1>2
    <2> QED BY <1>2, <1>8, <2>1, <2>2, <2>3 DEF HasRead, TokenIds
<1>10. RunIsSound(k)'
    BY <1>5, <1>6, <1>9 DEF RunIsSound
<1> QED BY <1>1, <1>3, <1>5, <1>7, <1>10, RunGoesOn, RunAloneKeepsInv

\* The row signed now is the last, read after all rows of its agent.
LEMMA SignKeepsInv ==
    ASSUME PosterInv, NEW k \in Ticks, Signs(k)
    PROVE  PosterInv'
<1> DEFINE n == LastRow
           r == tick[k].payload
           p == [tokenId |-> r.tokenId, value |-> r.value,
                 notBefore |-> now - BACKDATE, notAfter |-> now + VALIDITY,
                 nullifier |-> n + 1, signer |-> PosterKey]
           w == [tick[k] EXCEPT !.step = "simulate", !.payload = p]
<1>1. /\ tick[k] \in RunType /\ tick \in [Ticks -> RunType] /\ tick[k] # Idle
      /\ tick[k].todo # <<>>
      /\ HasRead(k)
    BY IdleType DEF Signs, PosterInv, PosterTyped, OneRun, RunIsSound
<1>2. /\ rows' = rows \cup {p} /\ tick' = [tick EXCEPT ![k] = w]
      /\ UNCHANGED <<now, attestorVars, account, hashed, mempool>>
    BY DEF Signs, LastRow
<1>3. n \in Nat /\ IsFiniteSet(rows) /\ rows \in SUBSET RowType
    BY FS_CardinalityType DEF PosterInv, PosterTyped, LastRow
<1>4. n = Cardinality(rows)
    BY DEF LastRow
<1>5. /\ p \in RowType /\ p.nullifier = n + 1 /\ p.tokenId = r.tokenId /\ p.value = r.value
    <2>1. now - BACKDATE \in Int /\ now + VALIDITY \in Int
        BY PosterAssumption DEF PosterInv, PosterTyped
    <2>2. r.tokenId \in TokenIds /\ r.value \in Nat
        BY <1>1 DEF HasRead
    <2> HIDE DEF n, r
    <2> QED BY <1>3, <2>1, <2>2 DEF RowType
<1> HIDE DEF p, n
<1>6. w \in RunType /\ w.step = "simulate" /\ w.todo # <<>> /\ w.payload = p
    BY <1>1, <1>5 DEF RunType
<1> HIDE DEF w
<1>7. \A q \in rows : q.nullifier \in 1..n
    BY DEF PosterInv, RowsInOrder, n
<1>8. p \notin rows /\ IsFiniteSet(rows') /\ LastRow' = n + 1
    <2>1. p \notin rows
        BY <1>3, <1>5, <1>7
    <2> QED BY <1>2, <1>3, <1>4, <2>1, FS_AddElement DEF LastRow
<1>9. nullifiers \subseteq 1..n
    BY <1>7 DEF PosterInv, TrailIsComplete
<1>10. RowsInOrder'
    <2>1. \A q \in rows : q.tokenId = p.tokenId => q.value <= p.value
        BY <1>1, <1>5 DEF HasRead
    <2>2. p.value <= account[p.tokenId]
        BY <1>1, <1>5 DEF HasRead
    <2>3. \A q \in rows' : q \in rows \/ q = p
        BY <1>2
    <2>4. \A q \in rows' : q.nullifier \in 1..(n + 1) /\ q.value <= account[q.tokenId]
        BY <1>3, <1>5, <1>7, <2>2, <2>3 DEF PosterInv, RowsInOrder
    <2>5. \A q, s \in rows' : q.nullifier = s.nullifier => q = s
        BY <1>3, <1>5, <1>7, <2>3 DEF PosterInv, RowsInOrder
    <2>6. ASSUME NEW q \in rows', NEW s \in rows', q.tokenId = s.tokenId,
                 q.nullifier < s.nullifier
          PROVE  q.value <= s.value
        <3>1. CASE q = p
            <4>1. s.nullifier \in 1..(n + 1) /\ q.nullifier = n + 1
                BY <1>5, <2>4, <3>1
            <4> QED BY ONLY <1>3, <2>6, <4>1
        <3>2. CASE q \in rows
            BY <2>1, <2>3, <2>6, <3>2 DEF PosterInv, RowsInOrder
        <3> QED BY <2>3, <3>1, <3>2
    <2> QED BY <1>2, <1>8, <2>4, <2>5, <2>6 DEF RowsInOrder
<1>11. HasSigned(k)'
    <2>1. tick'[k].payload = p
        BY <1>1, <1>2, <1>6
    <2>2. n + 1 \notin nullifiers
        BY <1>3, <1>9
    <2>3. \A i \in 1..Len(mempool) : mempool[i].nullifier < n + 1
        <3>1. \A i \in 1..Len(mempool) : mempool[i].nullifier \in 1..n
            BY <1>7 DEF PosterInv, MempoolInOrder
        <3> QED BY <1>3, <3>1
    <2> QED BY <1>2, <1>5, <1>8, <2>1, <2>2, <2>3 DEF HasSigned, attestorVars
<1>12. OneRun' /\ tick' \in [Ticks -> RunType]
    <2>1. tick'[k] = w
        BY <1>1, <1>2
    <2>2. RunIsSound(k)'
        BY <1>6, <1>11, <2>1 DEF RunIsSound
    <2> QED BY <1>1, <1>2, <1>6, <2>2, RunGoesOn
<1>13. MempoolInOrder'
    BY <1>2 DEF PosterInv, MempoolInOrder, attestorVars
<1>14. TrailIsComplete'
    <2>1. \A t \in TokenIds : {q \in rows' : q.tokenId = t /\ q.nullifier \in nullifiers}
                                 = {q \in rows : q.tokenId = t /\ q.nullifier \in nullifiers}
        BY <1>2, <1>3, <1>5, <1>9
    <2>2. {q.nullifier : q \in rows} \subseteq {q.nullifier : q \in rows'}
        BY <1>2
    <2> QED BY <1>2, <2>1, <2>2 DEF PosterInv, TrailIsComplete, attestorVars, TokenIds
<1>15. PosterTyped'
    BY <1>2, <1>3, <1>5, <1>8, <1>12 DEF PosterInv, PosterTyped, attestorVars, TokenIds, RowType
<1> QED BY <1>10, <1>12, <1>13, <1>14, <1>15 DEF PosterInv

LEMMA SimulateKeepsInv ==
    ASSUME PosterInv, NEW k \in Ticks, Simulates(k)
    PROVE  PosterInv'
<1> DEFINE w == [tick[k] EXCEPT !.step = "send"]
<1>1. /\ tick[k] \in RunType /\ tick \in [Ticks -> RunType] /\ tick[k] # Idle
      /\ tick[k].todo # <<>> /\ HasSigned(k)
    BY IdleType DEF Simulates, PosterInv, PosterTyped, OneRun, RunIsSound
<1>2. UNCHANGED <<now, attestorVars, account, rows, hashed, mempool>>
    BY DEF Simulates
<1>3. w \in RunType /\ w.step = "send" /\ w.todo # <<>> /\ w.payload = tick[k].payload
    BY <1>1 DEF RunType
<1>4. \/ tick' = [tick EXCEPT ![k] = w]
      \/ tick' = [tick EXCEPT ![k] = NextPolicy(tick[k])]
    BY DEF Simulates
<1> HIDE DEF w
<1>5. CASE tick' = [tick EXCEPT ![k] = w]
    <2>1. tick'[k] = w
        BY <1>1, <1>5
    <2>2. HasSigned(k)'
        BY <1>1, <1>2, <1>3, <2>1 DEF HasSigned, LastRow, attestorVars
    <2>3. RunIsSound(k)'
        BY <1>3, <2>1, <2>2 DEF RunIsSound
    <2> QED BY <1>1, <1>2, <1>3, <1>5, <2>3, RunGoesOn, RunAloneKeepsInv
<1>6. CASE tick' = [tick EXCEPT ![k] = NextPolicy(tick[k])]
    BY <1>1, <1>2, <1>6, RunMovesOn, RunAloneKeepsInv
<1> QED BY <1>4, <1>5, <1>6

LEMMA FailKeepsInv ==
    ASSUME PosterInv, NEW k \in Ticks, Fails(k)
    PROVE  PosterInv'
<1>1. tick[k] # Idle /\ tick' = [tick EXCEPT ![k] = NextPolicy(tick[k])]
    BY DEF Fails
<1> QED BY <1>1, RunMovesOn, RunAloneKeepsInv DEF Fails

LEMMA CrashKeepsInv ==
    ASSUME PosterInv, Crash
    PROVE  PosterInv'
<1>1. tick' = [k \in Ticks |-> Idle]
    BY DEF Crash
<1>2. OneRun' /\ tick' \in [Ticks -> RunType]
    BY <1>1, IdleType DEF OneRun, RunIsSound
<1> QED BY <1>2, RunAloneKeepsInv DEF Crash

\* The payload sent is the newest, so the mempool stays in order.
LEMMA SendKeepsInv ==
    ASSUME PosterInv, NEW k \in Ticks, Sends(k)
    PROVE  PosterInv'
<1> DEFINE p == tick[k].payload
           m == Len(mempool)
<1>1. tick[k] # Idle /\ HasSigned(k)
    BY IdleType DEF Sends, PosterInv, OneRun, RunIsSound
<1>2. /\ mempool' = Append(mempool, p)
      /\ tick' = [tick EXCEPT ![k] = NextPolicy(tick[k])]
      /\ UNCHANGED <<now, attestorVars, account, rows, hashed>>
    BY DEF Sends
<1>3. p \in rows /\ p \in RowType /\ mempool \in Seq(RowType) /\ p.nullifier = LastRow
    BY <1>1 DEF HasSigned, PosterInv, PosterTyped
<1> HIDE DEF p
<1>4. /\ mempool' \in Seq(RowType) /\ m \in Nat /\ Len(mempool') = m + 1
      /\ mempool'[m + 1] = p
      /\ \A i \in 1..m : mempool'[i] = mempool[i]
    BY <1>2, <1>3
<1>5. \A n \in nullifiers : n < p.nullifier
    <2>1. nullifiers \subseteq 1..LastRow /\ LastRow \notin nullifiers
        BY <1>1 DEF HasSigned, PosterInv, TrailIsComplete, RowsInOrder
    <2>2. LastRow \in Nat
        BY FS_CardinalityType DEF LastRow, PosterInv, PosterTyped
    <2> QED BY ONLY <1>3, <2>1, <2>2
<1>6. MempoolInOrder'
    <2>1. \A i \in 1..(m + 1) : i \in 1..m \/ i = m + 1
        BY <1>4
    <2>2. \A i \in 1..(m + 1) :
             mempool'[i] \in rows /\ \A n \in nullifiers : n < mempool'[i].nullifier
        BY <1>3, <1>4, <1>5, <2>1 DEF PosterInv, MempoolInOrder
    <2>3. \A i, j \in 1..(m + 1) : i < j => mempool'[i].nullifier < mempool'[j].nullifier
        <3> SUFFICES ASSUME NEW i \in 1..(m + 1), NEW j \in 1..(m + 1), i < j
                     PROVE  mempool'[i].nullifier < mempool'[j].nullifier
            OBVIOUS
        <3>1. i \in 1..m /\ mempool'[i] = mempool[i]
            BY <1>4
        <3>2. CASE j = m + 1
            BY <1>1, <1>3, <1>4, <3>1, <3>2 DEF HasSigned
        <3>3. CASE j \in 1..m
            BY <1>4, <3>1, <3>3 DEF PosterInv, MempoolInOrder
        <3> QED BY <2>1, <3>2, <3>3
    <2> QED BY <1>2, <1>4, <2>2, <2>3 DEF MempoolInOrder, attestorVars
<1>7. OneRun' /\ tick' \in [Ticks -> RunType]
    BY <1>1, <1>2, RunMovesOn
<1> QED BY <1>2, <1>4, <1>6, <1>7
        DEF PosterInv, PosterTyped, RowsInOrder, TrailIsComplete, LastRow, attestorVars, TokenIds,
            RowType

\* The payload that takes effect is newer than all on chain, so its value is the
\* greatest of its agent's.
LEMMA IncludeKeepsTrail ==
    ASSUME PosterInv, mempool # <<>>, attest(Head(mempool)), UNCHANGED <<rows, hashed>>
    PROVE  /\ TrailIsComplete' /\ currentState' = [t \in TokenIds |-> currentState'[t]]
           /\ nullifiers' = nullifiers \cup {Head(mempool).nullifier} /\ now' = now
<1> DEFINE p == Head(mempool)
           served == [value |-> p.value, notAfter |-> p.notAfter, ts |-> now]
           OnChain(t) == {q \in rows : q.tokenId = t /\ q.nullifier \in nullifiers}
<1>1. /\ nullifiers' = nullifiers \cup {p.nullifier}
      /\ currentState' = [currentState EXCEPT ![p.tokenId] = served]
      /\ now' = now
    BY DEF attest
<1>2. p \in rows /\ \A n \in nullifiers : n < p.nullifier
    <2>1. p = mempool[1] /\ 1 \in 1..Len(mempool)
        BY DEF PosterInv, PosterTyped
    <2> QED BY <2>1 DEF PosterInv, MempoolInOrder
<1>3. served.value = p.value
    OBVIOUS
<1> HIDE DEF p, served
<1>4. p \in RowType
    BY <1>2 DEF PosterInv, PosterTyped
<1>5. currentState' = [t \in TokenIds |-> currentState'[t]] /\ currentState'[p.tokenId] = served
    BY <1>1, <1>4 DEF PosterInv, PosterTyped, RowType
<1>6. ASSUME NEW t \in TokenIds
      PROVE  IF OnChain(t)' = {} THEN currentState'[t] = NoState
                                 ELSE currentState'[t].value = Max({q.value : q \in OnChain(t)'})
    <2>1. OnChain(t)' = {q \in rows : q.tokenId = t
                                        /\ (q.nullifier \in nullifiers \/ q = p)}
        BY <1>1, <1>2 DEF PosterInv, RowsInOrder
    <2>2. CASE t = p.tokenId
        <3>1. p \in OnChain(t)'
            BY <1>2, <2>1, <2>2
        <3>2. \A q \in OnChain(t)' : q.value <= p.value /\ q.value \in Nat
            <4> SUFFICES ASSUME NEW q \in rows, q.tokenId = t,
                                q.nullifier \in nullifiers \/ q = p
                         PROVE  q.value <= p.value /\ q.value \in Nat
                BY <2>1
            <4>1. q.value \in Nat
                BY DEF PosterInv, PosterTyped, RowType
            <4>2. CASE q = p
                BY <4>1, <4>2
            <4>3. CASE q.nullifier \in nullifiers
                BY <1>2, <2>2, <4>1, <4>3 DEF PosterInv, RowsInOrder
            <4> QED BY <4>2, <4>3
        <3> DEFINE values == {q.value : q \in OnChain(t)'}
        <3>3. p.value \in values /\ \A y \in values : y \in Nat /\ y <= p.value
            BY <3>1, <3>2
        <3> HIDE DEF values
        <3>4. Max(values) = p.value
            <4>1. Max(values) \in values /\ \A y \in values : Max(values) >= y
                BY <3>3 DEF Max
            <4> QED BY <3>3, <4>1
        <3> QED BY <1>3, <1>5, <2>2, <3>1, <3>4 DEF values
    <2>3. CASE t # p.tokenId
        <3>1. OnChain(t)' = OnChain(t)
            BY <2>1, <2>3
        <3>2. currentState'[t] = currentState[t]
            BY <1>1, <2>3 DEF PosterInv, PosterTyped
        <3> QED BY <3>1, <3>2 DEF PosterInv, TrailIsComplete
    <2> QED BY <2>2, <2>3
<1>7. nullifiers' \subseteq {q.nullifier : q \in rows'} /\ hashed' \subseteq nullifiers'
    BY <1>1, <1>2 DEF PosterInv, TrailIsComplete
<1> QED BY <1>1, <1>5, <1>6, <1>7 DEF TrailIsComplete, TokenIds, p

LEMMA IncludedKeepsInv ==
    ASSUME PosterInv, Included
    PROVE  PosterInv'
<1> DEFINE p == Head(mempool)
           m == Len(mempool)
<1>1. /\ mempool # <<>> /\ mempool' = Tail(mempool)
      /\ UNCHANGED <<account, tick, rows, hashed>>
      /\ attest(p) \/ UNCHANGED <<now, attestorVars>>
    BY DEF Included
<1>2. /\ m \in Nat \ {0} /\ mempool' \in Seq(RowType) /\ Len(mempool') = m - 1
      /\ \A i \in 1..(m - 1) : mempool'[i] = mempool[i + 1] /\ i + 1 \in 1..m
      /\ p = mempool[1] /\ 1 \in 1..m
    <2>1. PICK s \in Seq(RowType) : s = mempool
        BY DEF PosterInv, PosterTyped
    <2>2. Len(s) \in Nat /\ Len(s) # 0
        BY <1>1, <2>1
    <2>3. /\ Tail(s) \in Seq(RowType) /\ Len(Tail(s)) = Len(s) - 1
          /\ \A i \in 1..(Len(s) - 1) : Tail(s)[i] = s[i + 1] /\ i + 1 \in 1..Len(s)
          /\ Head(s) = s[1] /\ 1 \in 1..Len(s)
        BY <2>2
    <2> QED BY <1>1, <2>1, <2>2, <2>3
<1>3. /\ TrailIsComplete' /\ currentState' = [t \in TokenIds |-> currentState'[t]]
      /\ nullifiers' \subseteq nullifiers \cup {p.nullifier} /\ now' \in Nat
    <2>1. CASE attest(p)
        BY <1>1, <2>1, IncludeKeepsTrail DEF PosterInv, PosterTyped
    <2>2. CASE UNCHANGED <<now, attestorVars>>
        BY <1>1, <2>2 DEF attestorVars, PosterInv, PosterTyped, TrailIsComplete, TokenIds
    <2> QED BY <1>1, <2>1, <2>2
<1> HIDE DEF p
<1>4. MempoolInOrder'
    <2>1. ASSUME NEW i \in 1..(m - 1)
          PROVE  mempool'[i] \in rows /\ \A n \in nullifiers' : n < mempool'[i].nullifier
        <3>1. mempool'[i] = mempool[i + 1] /\ i + 1 \in 1..m /\ 1 < i + 1
            BY <1>2
        <3>2. /\ mempool[i + 1] \in rows /\ \A n \in nullifiers : n < mempool[i + 1].nullifier
              /\ mempool[1].nullifier < mempool[i + 1].nullifier
            BY <1>2, <3>1 DEF PosterInv, MempoolInOrder
        <3> QED BY ONLY <1>2, <1>3, <3>1, <3>2
    <2>2. ASSUME NEW i \in 1..(m - 1), NEW j \in 1..(m - 1), i < j
          PROVE  mempool'[i].nullifier < mempool'[j].nullifier
        <3>1. i + 1 \in 1..m /\ j + 1 \in 1..m /\ i + 1 < j + 1
            BY <1>2, <2>2
        <3> QED BY <1>2, <3>1 DEF PosterInv, MempoolInOrder
    <2> QED BY <1>1, <1>2, <2>1, <2>2 DEF MempoolInOrder
<1>5. ASSUME NEW k \in Ticks
      PROVE  RunIsSound(k)'
    <2>1. HasRead(k) => HasRead(k)'
        BY <1>1 DEF HasRead, TokenIds
    <2>2. HasSigned(k) => HasSigned(k)'
        <3> SUFFICES ASSUME HasSigned(k)
                     PROVE  HasSigned(k)'
            OBVIOUS
        <3>1. p.nullifier < LastRow /\ \A i \in 1..(m - 1) : mempool'[i].nullifier < LastRow
            BY <1>2 DEF HasSigned
        <3>2. p.nullifier \in Nat /\ LastRow \in Nat
            BY <1>2, FS_CardinalityType DEF PosterInv, PosterTyped, MempoolInOrder, RowType, LastRow
        <3>3. LastRow \notin nullifiers'
            BY <1>3, <3>1, <3>2 DEF HasSigned
        <3> QED BY <1>1, <1>2, <3>1, <3>3 DEF HasSigned, LastRow
    <2> QED BY <1>1, <2>1, <2>2 DEF RunIsSound, PosterInv, OneRun
<1>6. OneRun'
    BY <1>1, <1>5 DEF OneRun, PosterInv
<1>7. PosterTyped' /\ RowsInOrder'
    BY <1>1, <1>2, <1>3 DEF PosterInv, PosterTyped, RowsInOrder, LastRow, TokenIds, RowType
<1> QED BY <1>3, <1>4, <1>6, <1>7 DEF PosterInv

LEMMA HashKeepsInv ==
    ASSUME PosterInv, NEW n \in nullifiers, handleStateAttested(n)
    PROVE  PosterInv'
<1>1. /\ hashed' = hashed \cup {p.nullifier : p \in {r \in rows : r.nullifier = n}}
      /\ UNCHANGED <<now, attestorVars, account, tick, rows, mempool>>
    BY DEF handleStateAttested
<1>2. hashed' \subseteq nullifiers
    BY <1>1 DEF PosterInv, TrailIsComplete
<1>3. PosterTyped' /\ RowsInOrder'
    BY <1>1 DEF PosterInv, PosterTyped, RowsInOrder, LastRow, attestorVars, TokenIds, RowType
<1>4. OneRun'
    BY <1>1 DEF PosterInv, OneRun, RunIsSound, HasRead, HasSigned, LastRow, attestorVars, TokenIds
<1>5. MempoolInOrder' /\ TrailIsComplete'
    BY <1>1, <1>2 DEF PosterInv, MempoolInOrder, TrailIsComplete, attestorVars, TokenIds
<1> QED BY <1>3, <1>4, <1>5 DEF PosterInv

\* A newer version is above all that was read.
LEMMA AccountKeepsInv ==
    ASSUME PosterInv, NEW t \in TokenIds, AccountChanges(t)
    PROVE  PosterInv'
<1>1. /\ account' = [account EXCEPT ![t] = account[t] + 1]
      /\ UNCHANGED <<now, attestorVars, tick, rows, hashed, mempool>>
    BY DEF AccountChanges
<1>2. /\ account \in [TokenIds -> Nat] /\ account' \in [TokenIds -> Nat]
      /\ \A u \in TokenIds : account[u] <= account'[u]
    BY <1>1 DEF PosterInv, PosterTyped
<1>3. \A u \in TokenIds, v \in Nat : v <= account[u] => v <= account'[u]
    BY <1>2
<1>4. \A p \in rows : p.tokenId \in TokenIds /\ p.value \in Nat
    BY DEF PosterInv, PosterTyped, RowType
<1>5. RowsInOrder'
    BY <1>1, <1>3, <1>4 DEF PosterInv, RowsInOrder, LastRow
<1>6. \A k \in Ticks : HasRead(k) => HasRead(k)'
    BY <1>1, <1>3 DEF HasRead, TokenIds
<1>7. OneRun'
    BY <1>1, <1>6 DEF PosterInv, OneRun, RunIsSound, HasSigned, LastRow, attestorVars
<1> QED BY <1>1, <1>2, <1>5, <1>7
        DEF PosterInv, PosterTyped, MempoolInOrder, TrailIsComplete, LastRow, attestorVars, TokenIds,
            RowType

LEMMA PosterNextInv ==
    ASSUME PosterInv, [PosterNext]_allPosterVars
    PROVE  PosterInv'
<1>1. ASSUME NEW k \in Ticks,
             TickStarts(k) \/ Fetches(k) \/ Signs(k) \/ Simulates(k) \/ Sends(k) \/ Fails(k)
      PROVE  PosterInv'
    BY <1>1, StartKeepsInv, FetchKeepsInv, SignKeepsInv, SimulateKeepsInv, SendKeepsInv, FailKeepsInv
<1>2. ASSUME NEW n \in nullifiers, handleStateAttested(n)
      PROVE  PosterInv'
    BY <1>2, HashKeepsInv
<1>3. ASSUME NEW t \in TokenIds, AccountChanges(t)
      PROVE  PosterInv'
    BY <1>3, AccountKeepsInv
<1>4. ASSUME UNCHANGED <<attestorVars, posterVars>>, now' \in Nat
      PROVE  PosterInv'
    <2>1. UNCHANGED <<account, tick, rows, hashed, mempool, nullifiers, currentState>>
        BY <1>4 DEF attestorVars, posterVars
    <2>2. PosterTyped' /\ RowsInOrder'
        BY <1>4, <2>1 DEF PosterInv, PosterTyped, RowsInOrder, LastRow, TokenIds, RowType
    <2>3. OneRun'
        BY <2>1 DEF PosterInv, OneRun, RunIsSound, HasRead, HasSigned, LastRow, TokenIds
    <2>4. MempoolInOrder' /\ TrailIsComplete'
        BY <2>1 DEF PosterInv, MempoolInOrder, TrailIsComplete, TokenIds
    <2> QED BY <2>2, <2>3, <2>4 DEF PosterInv
<1>5. CASE AttestorTick /\ UNCHANGED posterVars
    BY <1>4, <1>5 DEF AttestorTick, Advance, PosterInv, PosterTyped
<1>6. CASE UNCHANGED allPosterVars
    BY <1>4, <1>6 DEF allPosterVars, PosterInv, PosterTyped
<1> QED BY <1>1, <1>2, <1>3, <1>5, <1>6, CrashKeepsInv, IncludedKeepsInv DEF PosterNext

\* For any agents, runs and faults: what is on chain is on record, and the state
\* served is that of the latest reading on chain (tick of attestPoster.ts,
\* attestState, handleStateAttested).
THEOREM TrailKept == PosterSpec => []TrailIsComplete
<1>1. PosterInv /\ [PosterNext]_allPosterVars => PosterInv'
    BY PosterNextInv
<1>2. PosterInv => TrailIsComplete
    BY DEF PosterInv
<1> QED BY PosterInitInv, <1>1, <1>2, PTL DEF PosterSpec

-------------------------------------------------------------------------------
(* The price.  Epochs grow with the eras, so a report signed under the epoch in  *)
(* force is of this era; and with a minority of the reports from faulty signers, *)
(* the middle of them lies among the honest ones.                                *)

\* Bad reports are at most i, and more than i are left without them: then the price
\* at i, counted from 0, is among those of the others.
LEMMA MiddleIsHonest ==
    ASSUME NEW batch, IsFiniteSet(batch), \A r \in batch : r.priceQ96 \in Nat,
           NEW bad \in SUBSET batch, NEW lo \in Nat,
           \A r \in batch \ bad : r.priceQ96 \in {lo, lo + 1},
           NEW i \in Nat, Cardinality(bad) <= i, i + Cardinality(bad) < Cardinality(batch)
    PROVE  Min({n \in {r.priceQ96 : r \in batch} :
                   Cardinality({r \in batch : r.priceQ96 <= n}) > i}) \in {lo, lo + 1}
<1> DEFINE good == batch \ bad
           prices == {r.priceQ96 : r \in batch}
           upTo(n) == {r \in batch : r.priceQ96 <= n}
           s == {n \in prices : Cardinality(upTo(n)) > i}
<1>1. /\ IsFiniteSet(bad) /\ IsFiniteSet(good)
      /\ Cardinality(batch) \in Nat /\ Cardinality(bad) \in Nat
      /\ Cardinality(good) = Cardinality(batch) - Cardinality(bad)
    <2>1. IsFiniteSet(bad) /\ IsFiniteSet(good)
        BY FS_Subset
    <2>2. batch \cap bad = bad
        OBVIOUS
    <2>3. Cardinality(good) = Cardinality(batch) - Cardinality(batch \cap bad)
        BY FS_Difference
    <2>4. Cardinality(batch) \in Nat /\ Cardinality(bad) \in Nat
        BY <2>1, FS_CardinalityType
    <2> QED BY <2>1, <2>2, <2>3, <2>4
<1>2. \E r \in good : TRUE
    <2>1. good # {}
        BY <1>1, FS_EmptySet
    <2> QED BY <2>1
<1>3. \A n \in Nat : IsFiniteSet(upTo(n)) /\ Cardinality(upTo(n)) \in Nat
    BY FS_Subset, FS_CardinalityType
<1>4. PICK h \in {lo, lo + 1} : h \in prices /\ \A r \in good : r.priceQ96 <= h
    <2>1. CASE \E r \in good : r.priceQ96 = lo + 1
        BY <2>1
    <2>2. CASE \A r \in good : r.priceQ96 = lo
        BY <1>2, <2>2
    <2> QED BY <2>1, <2>2
<1>5. h \in s
    <2>1. good \in SUBSET upTo(h)
        BY <1>4
    <2>2. Cardinality(good) <= Cardinality(upTo(h))
        BY <1>3, <1>4, <2>1, FS_Subset
    <2>3. Cardinality(upTo(h)) \in Nat
        BY <1>3, <1>4
    <2>4. Cardinality(upTo(h)) > i
        BY ONLY <1>1, <2>2, <2>3, i + Cardinality(bad) < Cardinality(batch), i \in Nat
    <2> QED BY <1>4, <2>4
<1>6. s \in SUBSET Nat
    OBVIOUS
<1> HIDE DEF s
<1>7. Min(s) \in s /\ Min(s) <= h
    BY <1>5, <1>6, LeastIsMember
<1>8. ~(Min(s) < lo)
    <2> SUFFICES ASSUME Min(s) < lo
                 PROVE  FALSE
        OBVIOUS
    <2>1. PICK m \in Nat : m = Min(s) /\ m < lo /\ Cardinality(upTo(m)) > i
        BY <1>6, <1>7 DEF s
    <2>2. upTo(m) \in SUBSET bad
        BY <2>1
    <2>3. Cardinality(upTo(m)) <= Cardinality(bad)
        BY <1>1, <2>2, FS_Subset
    <2>4. Cardinality(upTo(m)) \in Nat
        BY <1>3
    <2> QED BY ONLY <1>1, <2>1, <2>3, <2>4, Cardinality(bad) <= i, i \in Nat
<1>9. Min(s) \in {lo, lo + 1}
    <2>1. PICK m \in Nat : m = Min(s)
        BY <1>6, <1>7
    <2>2. m <= h /\ ~(m < lo) /\ h \in {lo, lo + 1}
        BY <1>4, <1>7, <1>8, <2>1
    <2>3. m = lo \/ m = lo + 1
        BY ONLY <2>1, <2>2, lo \in Nat
    <2> QED BY <2>1, <2>3
<1> QED BY <1>9 DEF s

LEMMA MedianIsHonest ==
    ASSUME NEW batch, IsFiniteSet(batch), \A r \in batch : r.priceQ96 \in Nat,
           NEW bad \in SUBSET batch, 2 * Cardinality(bad) < Cardinality(batch),
           NEW lo \in Nat, \A r \in batch \ bad : r.priceQ96 \in {lo, lo + 1}
    PROVE  Median(batch) \in {lo, lo + 1}
<1> DEFINE upTo(n) == {r \in batch : r.priceQ96 <= n}
           at(i) == Min({n \in {r.priceQ96 : r \in batch} : Cardinality(upTo(n)) > i})
<1>1. PICK k \in Nat, b \in Nat : k = Cardinality(batch) /\ b = Cardinality(bad) /\ 2 * b < k
    <2>1. IsFiniteSet(bad)
        BY FS_Subset
    <2> QED BY <2>1, FS_CardinalityType
<1>2. \A i \in Nat : b <= i /\ i + b < k => at(i) \in {lo, lo + 1}
    <2> SUFFICES ASSUME NEW i \in Nat, b <= i, i + b < k
                 PROVE  at(i) \in {lo, lo + 1}
        OBVIOUS
    <2>1. Cardinality(bad) <= i /\ i + Cardinality(bad) < Cardinality(batch)
        BY <1>1
    <2> QED BY ONLY <2>1, MiddleIsHonest, IsFiniteSet(batch), \A r \in batch : r.priceQ96 \in Nat,
                    bad \in SUBSET batch, lo \in Nat, i \in Nat,
                    \A r \in batch \ bad : r.priceQ96 \in {lo, lo + 1}
<1>3. Median(batch) = IF k % 2 = 1 THEN at(k \div 2) ELSE (at(k \div 2 - 1) + at(k \div 2)) \div 2
    BY <1>1 DEF Median
<1> HIDE DEF at
<1>4. PICK q \in Nat : q = k \div 2 /\ (k = 2 * q \/ k = 2 * q + 1)
    OBVIOUS
<1>5. k % 2 = 1 => at(q) \in {lo, lo + 1}
    <2>1. ASSUME k % 2 = 1
          PROVE  b <= q /\ q + b < k
        BY <1>1, <1>4, <2>1
    <2> QED BY <1>2, <2>1
<1>6. k % 2 # 1 => at(q - 1) \in {lo, lo + 1} /\ at(q) \in {lo, lo + 1}
    <2>1. ASSUME k % 2 # 1
          PROVE  q - 1 \in Nat /\ b <= q - 1 /\ (q - 1) + b < k /\ b <= q /\ q + b < k
        <3>1. k = 2 * q
            BY <1>4, <2>1
        <3> QED BY <1>1, <1>4, <3>1
    <2> QED BY <1>2, <2>1
<1>7. \A x, y \in {lo, lo + 1} : (x + y) \div 2 \in {lo, lo + 1}
    OBVIOUS
<1> QED BY <1>3, <1>4, <1>5, <1>6, <1>7

EraInv ==
    /\ epochAt \in Seq(Nat) /\ Len(epochAt) > 0
    /\ epochAt[Len(epochAt)] = signerSetEpoch
    /\ \A i, j \in 1..Len(epochAt) : i < j => epochAt[i] < epochAt[j]

LEMMA OracleInitEra == OracleInit => EraInv
<1> SUFFICES ASSUME OracleInit
             PROVE  EraInv
    OBVIOUS
<1>1. epochAt = <<1>> /\ signerSetEpoch = 1
    BY DEF OracleInit
<1> QED BY <1>1 DEF EraInv

LEMMA OracleNextEra ==
    ASSUME EraInv, [OracleNext]_<<now, oracleVars>>
    PROVE  EraInv'
<1>1. CASE UNCHANGED <<signerSetEpoch, epochAt>>
    BY <1>1 DEF EraInv
<1>2. ASSUME NEW s \in Signers, NEW active \in BOOLEAN, executeSignerChange(s, active)
      PROVE  EraInv'
    <2> DEFINE c == SignerEffect([signers |-> activeSigners, epoch |-> signerSetEpoch], <<s, active>>)
               n == Len(epochAt)
    <2>1. /\ signerSetEpoch' = c.epoch
          /\ epochAt' = IF c.signers # activeSigners THEN Append(epochAt, c.epoch) ELSE epochAt
        BY <1>2 DEF executeSignerChange
    <2>2. \/ c.signers = activeSigners /\ c.epoch = signerSetEpoch
          \/ c.signers # activeSigners /\ c.epoch = signerSetEpoch + 1
        BY DEF SignerEffect
    <2> HIDE DEF c
    <2>3. CASE c.signers = activeSigners /\ c.epoch = signerSetEpoch
        BY <1>1, <2>1, <2>3
    <2>4. CASE c.signers # activeSigners /\ c.epoch = signerSetEpoch + 1
        <3>1. PICK e \in Nat : e = signerSetEpoch /\ e = epochAt[n]
            BY DEF EraInv
        <3>2. epochAt' = Append(epochAt, e + 1) /\ signerSetEpoch' = e + 1
            BY <2>1, <2>4, <3>1
        <3>3. n \in Nat \ {0} /\ epochAt \in Seq(Nat)
            BY DEF EraInv
        <3>4. /\ epochAt' \in Seq(Nat) /\ Len(epochAt') = n + 1 /\ epochAt'[n + 1] = e + 1
              /\ \A i \in 1..n : epochAt'[i] = epochAt[i]
            BY <3>2, <3>3
        <3>5. \A i \in 1..n : epochAt[i] \in Nat /\ epochAt[i] <= e
            <4>1. \A i \in 1..n : i < n => epochAt[i] < e
                BY <3>1, <3>3 DEF EraInv
            <4>2. \A i \in 1..n : epochAt[i] \in Nat /\ (i < n \/ i = n)
                BY <3>3
            <4> QED BY <3>1, <4>1, <4>2
        <3>6. ASSUME NEW i \in 1..(n + 1), NEW j \in 1..(n + 1), i < j
              PROVE  epochAt'[i] < epochAt'[j]
            <4>1. i \in 1..n
                BY <3>3, <3>6
            <4>2. CASE j = n + 1
                BY <3>4, <3>5, <4>1, <4>2
            <4>3. CASE j \in 1..n
                BY <3>4, <3>6, <4>1, <4>3 DEF EraInv
            <4> QED BY <3>3, <4>2, <4>3
        <3> QED BY <3>2, <3>3, <3>4, <3>6 DEF EraInv
    <2> QED BY <2>2, <2>3, <2>4
<1>3. ASSUME NEW s \in Signers, NEW active \in BOOLEAN, proposeSignerChange(s, active)
      PROVE  EraInv'
    BY <1>1, <1>3 DEF proposeSignerChange
<1>4. ASSUME NEW batch, NEW t, postPrices(batch, t)
      PROVE  EraInv'
    BY <1>1, <1>4 DEF postPrices
<1>5. CASE OracleTick
    BY <1>1, <1>5 DEF OracleTick, oracleVars
<1>6. CASE UNCHANGED <<now, oracleVars>>
    BY <1>1, <1>6 DEF oracleVars
<1> QED BY <1>2, <1>3, <1>4, <1>5, <1>6 DEF OracleNext

\* What is posted: reports of this era, one for each signer of the batch.
LEMMA PostIsOfThisEra ==
    ASSUME EraInv, NEW batch \in SUBSET {r \in Reports : Signed(r)}, NEW t, postPrices(batch, t)
    PROVE  /\ price'.priceQ96 >= 2 * Len(epochAt)
           /\ price'.priceQ96 <= 2 * Len(epochAt) + 1
<1> DEFINE bad == {r \in batch : r.signer \in Faulty}
           signerOf == [r \in batch |-> r.signer]
           era == Len(epochAt)
<1>1. era \in Nat /\ DOMAIN epochAt = 1..era
    BY DEF EraInv
<1>2. \A r \in batch : r.signer \in Signers /\ r.era = era
    <2> SUFFICES ASSUME NEW r \in batch
                 PROVE  r.signer \in Signers /\ r.era = era
        OBVIOUS
    <2>1. r.signer \in Signers /\ r.era \in 1..era
        BY <1>1 DEF Reports
    <2>2. epochAt[r.era] = epochAt[era]
        BY DEF Signed, EraInv
    <2>3. ~(r.era < era)
        <3>1. epochAt[era] \in Nat /\ era \in 1..era
            BY <1>1 DEF EraInv
        <3> QED BY <1>1, <2>1, <2>2, <3>1 DEF EraInv
    <2> QED BY <1>1, <2>1, <2>3
<1>3. \A r \in batch : IF r.signer \in Faulty THEN r.priceQ96 \in Nat
                                              ELSE r.priceQ96 \in {2 * era, 2 * era + 1}
    BY <1>2, OracleAssumption DEF Reports, Market
<1>4. \A r, q \in batch : r.signer = q.signer => r = q
    BY DEF postPrices
<1>5. IsFiniteSet(batch)
    <2>1. signerOf \in Injection(batch, Signers)
        BY <1>2, <1>4 DEF Injection, IsInjective
    <2> QED BY <2>1, FS_Injection, OracleAssumption
<1>6. 2 * Cardinality(bad) < Cardinality(batch)
    <2>1. IsFiniteSet(Faulty)
        BY FS_Subset, OracleAssumption
    <2>2. [r \in bad |-> r.signer] \in Injection(bad, Faulty)
        BY <1>4 DEF Injection, IsInjective
    <2>3. Cardinality(bad) <= Cardinality(Faulty)
        BY <2>1, <2>2, FS_Injection
    <2>4. IsFiniteSet(bad)
        BY <1>5, FS_Subset
    <2>5. Cardinality(bad) \in Nat /\ Cardinality(Faulty) \in Nat /\ Cardinality(batch) \in Nat
        BY <1>5, <2>1, <2>4, FS_CardinalityType
    <2>6. Cardinality(batch) >= MIN_SIGNERS /\ MIN_SIGNERS \in Nat
        BY OracleAssumption DEF postPrices
    <2> QED BY ONLY <2>3, <2>5, <2>6, HonestMajority
<1>7. \A r \in batch : r.priceQ96 \in Nat
    BY <1>1, <1>3
<1>8. \A r \in batch \ bad : r.priceQ96 \in {2 * era, 2 * era + 1}
    BY <1>3
<1>9. 2 * era \in Nat /\ bad \in SUBSET batch
    BY <1>1
<1> HIDE DEF bad
<1>10. Median(batch) \in {2 * era, 2 * era + 1}
    BY <1>5, <1>6, <1>7, <1>8, <1>9, MedianIsHonest
<1>11. price'.priceQ96 = Median(batch)
    BY DEF postPrices
<1> QED BY <1>1, <1>9, <1>10, <1>11

\* For any signers of which the faulty are a minority of the smallest batch: a price
\* posted is one that honest signers report now (postPrices, executeSignerChange).
THEOREM PriceIsCurrent == OracleSpec => PriceIsOfThisEra
<1>1. EraInv /\ [OracleNext]_<<now, oracleVars>> => EraInv'
    BY OracleNextEra
<1>2. EraInv /\ [OracleNext]_<<now, oracleVars>>
        => [price' # price =>
              /\ price'.priceQ96 >= 2 * Len(epochAt)
              /\ price'.priceQ96 <= 2 * Len(epochAt) + 1]_<<price, epochAt>>
    <2> SUFFICES ASSUME EraInv, [OracleNext]_<<now, oracleVars>>, price' # price
                 PROVE  /\ price'.priceQ96 >= 2 * Len(epochAt)
                        /\ price'.priceQ96 <= 2 * Len(epochAt) + 1
        OBVIOUS
    <2>1. PICK batch \in SUBSET {r \in Reports : Signed(r)}, t \in 1..MaxTime : postPrices(batch, t)
        BY DEF OracleNext, OracleTick, oracleVars, proposeSignerChange, executeSignerChange
    <2> QED BY <2>1, PostIsOfThisEra
<1> QED BY OracleInitEra, <1>1, <1>2, PTL DEF OracleSpec, PriceIsOfThisEra

-------------------------------------------------------------------------------
(* The diamond.  The tables agree with each other through every entry of a cut:  *)
(* a selector pushed goes to the end of its facet's list, one removed leaves its *)
(* place to the last of the list, and a facet is listed while it has selectors.  *)

PlaceType == [facet : Facets \cup {NoFacet}, pos : Nat]

TablesType ==
    [at : [Selectors -> PlaceType], of : [Facets -> Seq(Selectors)], facets : Seq(Facets),
     ok : BOOLEAN]

PlacesListed(d) ==
    \A s \in Selectors : d.at[s].facet # NoFacet =>
        /\ d.at[s].pos + 1 \in 1..Len(d.of[d.at[s].facet])
        /\ d.of[d.at[s].facet][d.at[s].pos + 1] = s

ListsPlaced(d) ==
    \A f \in Facets : \A k \in 1..Len(d.of[f]) : d.at[d.of[f][k]] = [facet |-> f, pos |-> k - 1]

FacetsListed(d) ==
    /\ \A i, j \in 1..Len(d.facets) : d.facets[i] = d.facets[j] => i = j
    /\ \A f \in Facets : (\E k \in 1..Len(d.facets) : d.facets[k] = f) <=> d.of[f] # <<>>

SoundTables == {d \in TablesType : PlacesListed(d) /\ ListsPlaced(d) /\ FacetsListed(d)}

LEMMA AppendFacts ==
    ASSUME NEW S, NEW list \in Seq(S), NEW x \in S
    PROVE  /\ Append(list, x) \in Seq(S) /\ Append(list, x) # <<>>
           /\ Len(list) \in Nat /\ Len(Append(list, x)) = Len(list) + 1
           /\ Append(list, x)[Len(list) + 1] = x
           /\ \A k \in 1..Len(list) : Append(list, x)[k] = list[k]
OBVIOUS

LEMMA SwapPopFacts ==
    ASSUME NEW S, NEW list \in Seq(S), NEW p \in Nat, p + 1 \in 1..Len(list)
    PROVE  /\ Len(list) \in Nat \ {0}
           /\ SwapPop(list, p) \in Seq(S) /\ Len(SwapPop(list, p)) = Len(list) - 1
           /\ \A k \in 1..(Len(list) - 1) :
                 SwapPop(list, p)[k] = IF k = p + 1 THEN list[Len(list)] ELSE list[k]
           /\ SwapPop(list, p) = <<>> <=> Len(list) = 1
<1> DEFINE n == Len(list)
           popped == [k \in 1..(n - 1) |-> IF k = p + 1 THEN list[n] ELSE list[k]]
<1>1. n \in Nat \ {0} /\ n - 1 \in Nat /\ n \in 1..n
    OBVIOUS
<1>2. SwapPop(list, p) = popped
    BY DEF SwapPop, Last
<1>3. \A k \in 1..(n - 1) : (IF k = p + 1 THEN list[n] ELSE list[k]) \in S
    BY <1>1
<1>4. popped \in Seq(S) /\ Len(popped) = n - 1
    BY <1>1, <1>3
<1>5. \A k \in 1..(n - 1) : popped[k] = IF k = p + 1 THEN list[n] ELSE list[k]
    OBVIOUS
<1> HIDE DEF popped
<1>6. popped = <<>> <=> Len(popped) = 0
    BY <1>4
<1> QED BY <1>1, <1>2, <1>4, <1>5, <1>6

LEMMA EmptyIsSound == Empty \in SoundTables /\ \A s \in Selectors : Empty.at[s].facet = NoFacet
<1>1. Empty \in TablesType
    BY DEF Empty, TablesType, PlaceType
<1>2. /\ \A s \in Selectors : Empty.at[s].facet = NoFacet
      /\ \A f \in Facets : Empty.of[f] = <<>>
      /\ Empty.facets = <<>>
    BY DEF Empty
<1> QED BY <1>1, <1>2 DEF SoundTables, PlacesListed, ListsPlaced, FacetsListed

\* What revert and the two kinds of change do to the tables, field by field.
LEMMA RevertIsSound ==
    ASSUME NEW d \in SoundTables
    PROVE  Revert(d) \in SoundTables /\ ~Revert(d).ok
<1>1. /\ Revert(d).at = d.at /\ Revert(d).of = d.of /\ Revert(d).facets = d.facets
      /\ Revert(d).ok = FALSE /\ Revert(d) \in TablesType
    BY DEF SoundTables, TablesType, Revert
<1> QED BY <1>1 DEF SoundTables, PlacesListed, ListsPlaced, FacetsListed

LEMMA PushIsSound ==
    ASSUME NEW d \in SoundTables, NEW f \in Facets, NEW s \in Selectors, d.at[s].facet = NoFacet
    PROVE  /\ Push(d, f, s) \in SoundTables /\ Push(d, f, s).ok = d.ok
           /\ \A t \in Selectors :
                 Push(d, f, s).at[t].facet = IF t = s THEN f ELSE d.at[t].facet
<1> DEFINE n == Len(d.of[f])
           place == [facet |-> f, pos |-> n]
           e == Push(d, f, s)
<1>1. /\ d \in TablesType /\ d.at \in [Selectors -> PlaceType]
      /\ d.of \in [Facets -> Seq(Selectors)] /\ d.facets \in Seq(Facets)
      /\ d.of[f] \in Seq(Selectors) /\ n \in Nat
    BY DEF SoundTables, TablesType
<1>2. /\ e.at = [d.at EXCEPT ![s] = place]
      /\ e.of = [d.of EXCEPT ![f] = Append(d.of[f], s)]
      /\ e.facets = IF d.of[f] = <<>> THEN Append(d.facets, f) ELSE d.facets
      /\ e.ok = d.ok
      /\ e = [at |-> e.at, of |-> e.of, facets |-> e.facets, ok |-> e.ok]
    <2> DEFINE at == [d.at EXCEPT ![s] = place]
               of == [d.of EXCEPT ![f] = Append(d.of[f], s)]
               facets == IF d.of[f] = <<>> THEN Append(d.facets, f) ELSE d.facets
    <2>1. e = [d EXCEPT !.at = at, !.of = of, !.facets = facets]
        BY DEF Push
    <2> HIDE DEF at, of, facets, e
    <2>2. /\ e.at = at /\ e.of = of /\ e.facets = facets /\ e.ok = d.ok
          /\ e = [at |-> at, of |-> of, facets |-> facets, ok |-> d.ok]
        BY <1>1, <2>1 DEF TablesType
    <2> QED BY <2>2 DEF at, of, facets
<1>3. place \in PlaceType /\ place.facet = f /\ place.pos = n
    BY <1>1 DEF PlaceType
<1> HIDE DEF place, e
<1>4. f # NoFacet
    BY DiamondAssumption
<1>5. /\ e.at \in [Selectors -> PlaceType] /\ e.at[s] = place
      /\ \A t \in Selectors : t # s => e.at[t] = d.at[t]
    BY <1>1, <1>2, <1>3
<1>6. /\ Append(d.of[f], s) \in Seq(Selectors) /\ Append(d.of[f], s) # <<>>
      /\ Len(Append(d.of[f], s)) = n + 1 /\ Append(d.of[f], s)[n + 1] = s
      /\ \A k \in 1..n : Append(d.of[f], s)[k] = d.of[f][k]
    BY <1>1, AppendFacts
<1>7. /\ e.of \in [Facets -> Seq(Selectors)]
      /\ e.of[f] # <<>> /\ Len(e.of[f]) = n + 1 /\ e.of[f][n + 1] = s
      /\ \A k \in 1..n : e.of[f][k] = d.of[f][k]
      /\ \A g \in Facets : g # f => e.of[g] = d.of[g]
    BY <1>1, <1>2, <1>6
<1>8. e.facets \in Seq(Facets)
    BY <1>1, <1>2, AppendFacts
<1>9. PlacesListed(e)
    <2> SUFFICES ASSUME NEW t \in Selectors, e.at[t].facet # NoFacet
                 PROVE  /\ e.at[t].pos + 1 \in 1..Len(e.of[e.at[t].facet])
                        /\ e.of[e.at[t].facet][e.at[t].pos + 1] = t
        BY DEF PlacesListed
    <2>1. CASE t = s
        <3>1. e.at[t] = place /\ t = s
            BY <1>5, <2>1
        <3> QED BY ONLY <1>1, <1>3, <1>7, <3>1, f \in Facets
    <2>2. CASE t # s
        <3>1. PICK g \in Facets : g = d.at[t].facet
            BY <1>1, <1>5, <2>2 DEF PlaceType
        <3>2. d.at[t].pos + 1 \in 1..Len(d.of[g]) /\ d.of[g][d.at[t].pos + 1] = t
            BY <1>5, <2>2, <3>1 DEF SoundTables, PlacesListed
        <3>3. CASE g = f
            <4>1. d.at[t].pos + 1 \in 1..n /\ d.of[f][d.at[t].pos + 1] = t
                BY <3>2, <3>3
            <4>2. d.at[t].pos + 1 \in 1..(n + 1)
                BY <1>1, <4>1
            <4> QED BY <1>5, <1>7, <2>2, <3>1, <3>3, <4>1, <4>2
        <3>4. CASE g # f
            <4>1. e.at[t] = d.at[t] /\ e.of[g] = d.of[g]
                BY <1>5, <1>7, <2>2, <3>4
            <4> QED BY ONLY <3>1, <3>2, <4>1
        <3> QED BY <3>3, <3>4
    <2> QED BY <2>1, <2>2
<1>10. ListsPlaced(e)
    <2> SUFFICES ASSUME NEW g \in Facets, NEW k \in 1..Len(e.of[g])
                 PROVE  e.at[e.of[g][k]] = [facet |-> g, pos |-> k - 1]
        BY DEF ListsPlaced
    <2>1. ASSUME k \in 1..Len(d.of[g]), e.of[g][k] = d.of[g][k]
          PROVE  e.at[e.of[g][k]] = [facet |-> g, pos |-> k - 1]
        <3>1. PICK t : t = d.of[g][k]
            OBVIOUS
        <3>2. t \in Selectors
            BY <1>1, <2>1, <3>1
        <3>3. d.at[t] = [facet |-> g, pos |-> k - 1]
            BY <2>1, <3>1 DEF SoundTables, ListsPlaced
        <3>4. t # s
            BY <3>3, DiamondAssumption
        <3> QED BY <1>5, <2>1, <3>1, <3>2, <3>3, <3>4
    <2>2. CASE g # f
        BY <1>7, <2>1, <2>2
    <2>3. CASE g = f /\ k \in 1..n
        BY <1>7, <2>1, <2>3
    <2>4. CASE g = f /\ k = n + 1
        <3>1. (n + 1) - 1 = n
            BY <1>1
        <3> QED BY <1>5, <1>7, <2>4, <3>1 DEF place
    <2>5. g = f => k \in 1..n \/ k = n + 1
        BY <1>1, <1>7
    <2> QED BY <2>2, <2>3, <2>4, <2>5
<1>11. FacetsListed(e)
    <2>1. CASE d.of[f] # <<>>
        BY <1>2, <1>7, <2>1 DEF SoundTables, FacetsListed
    <2>2. CASE d.of[f] = <<>>
        <3> DEFINE m == Len(d.facets)
        <3>1. /\ e.facets = Append(d.facets, f) /\ m \in Nat /\ Len(e.facets) = m + 1
              /\ e.facets[m + 1] = f /\ \A k \in 1..m : e.facets[k] = d.facets[k]
            BY <1>1, <1>2, <2>2, AppendFacts
        <3>2. \A k \in 1..m : d.facets[k] # f
            BY <2>2 DEF SoundTables, FacetsListed
        <3>3. \A k \in 1..(m + 1) : k \in 1..m \/ k = m + 1
            BY <3>1
        <3>4. \A k \in 1..m : k \in 1..(m + 1)
            BY <3>1
        <3>5. m + 1 \in 1..(m + 1)
            BY <3>1
        <3>6. \A i, j \in 1..(m + 1) : e.facets[i] = e.facets[j] => i = j
            BY <3>1, <3>2, <3>3 DEF SoundTables, FacetsListed
        <3>7. ASSUME NEW g \in Facets
              PROVE  (\E k \in 1..(m + 1) : e.facets[k] = g) <=> e.of[g] # <<>>
            <4>1. CASE g = f
                BY <1>7, <3>1, <3>5, <4>1
            <4>2. CASE g # f
                <5>1. e.of[g] = d.of[g]
                    BY <1>7, <4>2
                <5>2. (\E k \in 1..(m + 1) : e.facets[k] = g) <=> \E k \in 1..m : d.facets[k] = g
                    BY <3>1, <3>3, <3>4, <4>2
                <5> QED BY <5>1, <5>2 DEF SoundTables, FacetsListed
            <4> QED BY <4>1, <4>2
        <3> QED BY <3>1, <3>6, <3>7 DEF FacetsListed
    <2> QED BY <2>1, <2>2
<1>12. e \in TablesType
    <2>1. e.ok \in BOOLEAN
        BY <1>1, <1>2 DEF TablesType
    <2> QED BY <1>2, <1>5, <1>7, <1>8, <2>1 DEF TablesType
<1> QED BY <1>2, <1>3, <1>5, <1>9, <1>10, <1>11, <1>12 DEF SoundTables, e

\* A facet leaves the list of facets with its last selector.
LEMMA FacetLeaves ==
    ASSUME NEW list \in Seq(Facets), NEW f \in Facets,
           \A i, j \in 1..Len(list) : list[i] = list[j] => i = j,
           \E k \in 1..Len(list) : list[k] = f
    PROVE  LET left == SwapPop(list, (CHOOSE i \in DOMAIN list : list[i] = f) - 1)
           IN  /\ left \in Seq(Facets)
               /\ \A i, j \in 1..Len(left) : left[i] = left[j] => i = j
               /\ \A g \in Facets : (\E k \in 1..Len(left) : left[k] = g)
                                       <=> g # f /\ \E k \in 1..Len(list) : list[k] = g
<1> DEFINE i0 == CHOOSE i \in DOMAIN list : list[i] = f
           p == i0 - 1
           n == Len(list)
           left == SwapPop(list, p)
<1>1. n \in Nat /\ DOMAIN list = 1..n
    OBVIOUS
<1>2. i0 \in 1..n /\ list[i0] = f
    BY <1>1
<1> HIDE DEF i0
<1>3. p \in Nat /\ p + 1 = i0
    BY <1>1, <1>2
<1>4. /\ n \in Nat \ {0} /\ left \in Seq(Facets) /\ Len(left) = n - 1
      /\ \A k \in 1..(n - 1) : left[k] = IF k = i0 THEN list[n] ELSE list[k]
    BY <1>2, <1>3, SwapPopFacts
<1> HIDE DEF left, p, n
<1>5. \A i, j \in 1..n : list[i] = list[j] => i = j
    BY DEF n
<1>6. ASSUME NEW i \in 1..(n - 1), NEW j \in 1..(n - 1), left[i] = left[j]
      PROVE  i = j
    <2>1. i \in 1..n /\ j \in 1..n /\ n \in 1..n /\ i # n /\ j # n
        BY <1>4
    <2>2. CASE i = i0 /\ j # i0
        <3>1. list[n] = list[j]
            BY <1>4, <1>6, <2>2
        <3> QED BY <1>5, <2>1, <3>1
    <2>3. CASE i # i0 /\ j = i0
        <3>1. list[i] = list[n]
            BY <1>4, <1>6, <2>3
        <3> QED BY <1>5, <2>1, <3>1
    <2>4. CASE i # i0 /\ j # i0
        <3>1. list[i] = list[j]
            BY <1>4, <1>6, <2>4
        <3> QED BY <1>5, <2>1, <3>1
    <2> QED BY <2>2, <2>3, <2>4
<1>7. ASSUME NEW g \in Facets
      PROVE  (\E k \in 1..(n - 1) : left[k] = g) <=> g # f /\ \E k \in 1..n : list[k] = g
    <2>1. ASSUME NEW k \in 1..(n - 1), left[k] = g
          PROVE  g # f /\ \E j \in 1..n : list[j] = g
        <3>1. k \in 1..n /\ n \in 1..n /\ k # n
            BY <1>4
        <3>2. CASE k = i0
            BY <1>2, <1>4, <1>5, <2>1, <3>1, <3>2
        <3>3. CASE k # i0
            BY <1>2, <1>4, <1>5, <2>1, <3>1, <3>3
        <3> QED BY <3>2, <3>3
    <2>2. ASSUME g # f, NEW k \in 1..n, list[k] = g
          PROVE  \E j \in 1..(n - 1) : left[j] = g
        <3>1. k # i0
            BY <1>2, <2>2
        <3>2. CASE k = n
            <4>1. i0 \in 1..(n - 1)
                BY <1>2, <1>4, <3>1, <3>2
            <4> QED BY <1>4, <2>2, <3>2, <4>1
        <3>3. CASE k # n
            <4>1. k \in 1..(n - 1)
                BY <1>4, <3>3
            <4> QED BY <1>4, <2>2, <3>1, <4>1
        <3> QED BY <3>2, <3>3
    <2> QED BY <2>1, <2>2
<1> QED BY <1>4, <1>6, <1>7 DEF left, p, n, i0

LEMMA RemoveIsSound ==
    ASSUME NEW d \in SoundTables, NEW s \in Selectors, d.at[s].facet # NoFacet
    PROVE  /\ RemoveFunction(d, s) \in SoundTables /\ RemoveFunction(d, s).ok = d.ok
           /\ \A t \in Selectors :
                 RemoveFunction(d, s).at[t].facet = IF t = s THEN NoFacet ELSE d.at[t].facet
<1> DEFINE f == d.at[s].facet
           p == d.at[s].pos
           list == d.of[f]
           n == Len(list)
           last == Last(list)
           none == [facet |-> NoFacet, pos |-> 0]
           place == [facet |-> f, pos |-> p]
           at == [t \in Selectors |->
                     CASE t = s -> none
                       [] t # s /\ t = last -> place
                       [] OTHER -> d.at[t]]
           of == [d.of EXCEPT ![f] = SwapPop(list, p)]
           left == SwapPop(d.facets, (CHOOSE i \in DOMAIN d.facets : d.facets[i] = f) - 1)
           facets == IF n = 1 THEN left ELSE d.facets
           e == [at |-> at, of |-> of, facets |-> facets, ok |-> d.ok]
<1>1. /\ d \in TablesType /\ d.at \in [Selectors -> PlaceType]
      /\ d.of \in [Facets -> Seq(Selectors)] /\ d.facets \in Seq(Facets)
    BY DEF SoundTables, TablesType
<1>2. /\ f \in Facets /\ p \in Nat /\ list \in Seq(Selectors) /\ n \in Nat
      /\ p + 1 \in 1..n /\ list[p + 1] = s
    BY <1>1 DEF PlaceType, SoundTables, PlacesListed
<1>3. RemoveFunction(d, s) = e
    <2>1. RemoveFunction(d, s) = [d EXCEPT !.at = at, !.of = of, !.facets = facets]
        BY DEF RemoveFunction
    <2> HIDE DEF at, of, facets, f
    <2> QED BY <1>1, <2>1 DEF TablesType
<1>4. /\ n \in Nat \ {0} /\ SwapPop(list, p) \in Seq(Selectors)
      /\ Len(SwapPop(list, p)) = n - 1
      /\ \A k \in 1..(n - 1) : SwapPop(list, p)[k] = IF k = p + 1 THEN list[n] ELSE list[k]
      /\ SwapPop(list, p) = <<>> <=> n = 1
    <2> HIDE DEF f, p, list
    <2> QED BY ONLY <1>2, SwapPopFacts
<1>5. last = list[n] /\ last \in Selectors /\ n \in 1..n
    <2> HIDE DEF f, p, list
    <2>1. n \in 1..n /\ list[n] \in Selectors
        BY ONLY <1>2, <1>4
    <2> QED BY <2>1 DEF Last
<1>6. \A k \in 1..n : d.at[list[k]] = [facet |-> f, pos |-> k - 1]
    BY <1>2 DEF SoundTables, ListsPlaced
<1>8. none \in PlaceType /\ place \in PlaceType /\ none.facet = NoFacet
      /\ place.facet = f /\ place.pos = p
    BY <1>2 DEF PlaceType
<1> HIDE DEF none, place
<1>9. /\ at \in [Selectors -> PlaceType] /\ at[s] = none
      /\ s # last => at[last] = place
      /\ \A t \in Selectors : t # s /\ t # last => at[t] = d.at[t]
    BY <1>1, <1>5, <1>8
<1>10. /\ of \in [Facets -> Seq(Selectors)] /\ of[f] = SwapPop(list, p)
       /\ \A g \in Facets : g # f => of[g] = d.of[g]
    BY <1>1, <1>2, <1>4
<1>11. /\ e.at = at /\ e.of = of /\ e.facets = facets /\ e.ok = d.ok
    OBVIOUS
<1>12. list # <<>>
    BY <1>2, <1>4
<1>13. /\ left \in Seq(Facets)
       /\ \A i, j \in 1..Len(left) : left[i] = left[j] => i = j
       /\ \A g \in Facets : (\E k \in 1..Len(left) : left[k] = g)
                               <=> g # f /\ \E k \in 1..Len(d.facets) : d.facets[k] = g
    <2>1. /\ \A i, j \in 1..Len(d.facets) : d.facets[i] = d.facets[j] => i = j
          /\ \E k \in 1..Len(d.facets) : d.facets[k] = f
        BY <1>2, <1>12 DEF SoundTables, FacetsListed
    <2>2. f \in Facets /\ d.facets \in Seq(Facets)
        BY <1>1, <1>2
    <2> HIDE DEF f
    <2> QED BY ONLY <2>1, <2>2, FacetLeaves
<1> HIDE DEF left
<1>14. facets \in Seq(Facets)
    BY <1>1, <1>13
<1>15. d.at[last].facet = f
    <2>1. d.at[last] = [facet |-> f, pos |-> n - 1]
        BY <1>5, <1>6
    <2> HIDE DEF f, n, last
    <2> QED BY ONLY <2>1
<1>16. f # NoFacet
    BY <1>2, DiamondAssumption
<1>17. FacetsListed(e)
    <2>1. CASE n = 1
        <3>1. facets = left
            BY <2>1
        <3>2. ASSUME NEW g \in Facets
              PROVE  (\E k \in 1..Len(left) : left[k] = g) <=> of[g] # <<>>
            <4>1. CASE g = f
                BY <1>4, <1>10, <1>13, <2>1, <4>1
            <4>2. CASE g # f
                BY <1>10, <1>13, <4>2 DEF SoundTables, FacetsListed
            <4> QED BY <4>1, <4>2
        <3> HIDE DEF facets, e
        <3> QED BY <1>11, <1>13, <3>1, <3>2 DEF FacetsListed
    <2>2. CASE n # 1
        <3>1. facets = d.facets
            BY <2>2
        <3>2. \A g \in Facets : of[g] # <<>> <=> d.of[g] # <<>>
            BY <1>4, <1>10, <1>12, <2>2
        <3> HIDE DEF facets, of, e
        <3> QED BY <1>11, <3>1, <3>2 DEF SoundTables, FacetsListed
    <2> QED BY <2>1, <2>2
<1> HIDE DEF at, of, facets, e
<1>18. ASSUME NEW t \in Selectors, t # s
       PROVE  at[t].facet = d.at[t].facet
    BY <1>8, <1>9, <1>15, <1>18
<1>19. PlacesListed(e)
    <2> SUFFICES ASSUME NEW t \in Selectors, at[t].facet # NoFacet
                 PROVE  at[t].pos + 1 \in 1..Len(of[at[t].facet]) /\ of[at[t].facet][at[t].pos + 1] = t
        BY <1>11 DEF PlacesListed
    <2>1. t # s
        BY <1>8, <1>9
    <2>2. CASE t = last
        <3>1. at[t] = place
            BY <1>9, <2>1, <2>2
        <3>2. p + 1 # n
            BY <1>2, <1>5, <2>1, <2>2
        <3>3. p + 1 \in 1..(n - 1)
            BY <1>2, <3>2
        <3> QED BY <1>4, <1>5, <1>8, <1>10, <2>2, <3>1, <3>3
    <2>3. CASE t # last
        <3>1. at[t] = d.at[t]
            BY <1>9, <2>1, <2>3
        <3>2. PICK g \in Facets : g = d.at[t].facet
            BY <1>1, <3>1 DEF PlaceType
        <3>3. PICK k \in 1..Len(d.of[g]) : k = d.at[t].pos + 1 /\ d.of[g][k] = t
            BY <3>1, <3>2 DEF SoundTables, PlacesListed
        <3>4. CASE g = f
            <4>1. k \in 1..n /\ list[k] = t
                BY <3>3, <3>4
            <4>2. k # n /\ k # p + 1
                BY <1>2, <1>5, <2>1, <2>3, <4>1
            <4>3. k \in 1..(n - 1)
                BY <1>4, <4>1, <4>2
            <4>4. at[t].facet = f /\ at[t].pos + 1 = k
                BY <3>1, <3>2, <3>3, <3>4
            <4>5. Len(of[f]) = n - 1 /\ of[f][k] = t
                BY <1>4, <1>10, <4>1, <4>2, <4>3
            <4> HIDE DEF f, n
            <4> QED BY ONLY <4>3, <4>4, <4>5
        <3>5. CASE g # f
            BY <1>10, <3>1, <3>2, <3>3, <3>5
        <3> QED BY <3>4, <3>5
    <2> QED BY <2>2, <2>3
<1>20. ListsPlaced(e)
    <2> SUFFICES ASSUME NEW g \in Facets, NEW k \in 1..Len(of[g])
                 PROVE  at[of[g][k]] = [facet |-> g, pos |-> k - 1]
        BY <1>11 DEF ListsPlaced
    <2>1. CASE g # f
        <3>1. PICK t \in Selectors : t = of[g][k]
            BY <1>10
        <3>2. k \in 1..Len(d.of[g]) /\ t = d.of[g][k]
            BY <1>10, <2>1, <3>1
        <3>3. d.at[t] = [facet |-> g, pos |-> k - 1]
            BY <3>2 DEF SoundTables, ListsPlaced
        <3>4. d.at[t].facet = g
            BY <3>3
        <3>5. t # s /\ t # last
            BY <1>15, <2>1, <3>4
        <3> QED BY <1>9, <3>1, <3>3, <3>5
    <2>2. CASE g = f
        <3>1. k \in 1..(n - 1) /\ k \in 1..n
            <4>1. Len(of[g]) = n - 1
                BY <1>4, <1>10, <2>2
            <4> QED BY ONLY <1>2, <4>1, k \in 1..Len(of[g])
        <3>2. CASE k = p + 1
            <4>1. of[g][k] = last
                BY <1>4, <1>5, <1>10, <2>2, <3>1, <3>2
            <4>2. last # s
                <5>1. d.at[s].pos = p /\ d.at[last] = [facet |-> f, pos |-> n - 1]
                    BY <1>5, <1>6
                <5>2. n - 1 # p
                    BY ONLY <1>2, <3>1, <3>2
                <5> QED BY <5>1, <5>2
            <4>3. p = k - 1
                BY <1>2, <3>2
            <4> QED BY <1>9, <2>2, <4>1, <4>2, <4>3 DEF place
        <3>3. CASE k # p + 1
            <4>1. of[g][k] = list[k]
                BY <1>4, <1>10, <2>2, <3>1, <3>3
            <4>2. d.at[list[k]] = [facet |-> f, pos |-> k - 1] /\ list[k] \in Selectors
                BY <1>2, <1>6, <3>1
            <4>3. list[k] # s
                BY <1>2, <3>1, <3>3, <4>2
            <4>4. list[k] # last
                <5>1. d.at[last] = [facet |-> f, pos |-> n - 1]
                    BY <1>5, <1>6
                <5>2. n - 1 # k - 1
                    BY <1>4, <3>1
                <5> QED BY <4>2, <5>1, <5>2
            <4> QED BY <1>9, <2>2, <4>1, <4>2, <4>3, <4>4
        <3> QED BY <3>2, <3>3
    <2> QED BY <2>1, <2>2
<1>21. e \in TablesType
    <2>1. d.ok \in BOOLEAN
        BY <1>1 DEF TablesType
    <2> QED BY <1>9, <1>10, <1>14, <2>1 DEF TablesType, e
<1> QED BY <1>3, <1>8, <1>9, <1>11, <1>17, <1>18, <1>19, <1>20, <1>21 DEF SoundTables

\* The entries that get as far as the loop over their selectors.
EntryCuts(e) == (e.action = "Remove") <=> (e.facet = NoFacet)

LEMMA CutSelectorIsSound ==
    ASSUME NEW c \in SoundTables, NEW e \in EntryType, EntryCuts(e), NEW s \in Selectors
    PROVE  /\ CutSelector(c, e, s) \in SoundTables
           /\ CutSelector(c, e, s).ok =>
                 /\ c.ok
                 /\ \A t \in Selectors : CutSelector(c, e, s).at[t].facet =
                                            IF t = s THEN e.facet ELSE c.at[t].facet
<1> DEFINE r == CutSelector(c, e, s)
<1>1. /\ c.ok \in BOOLEAN /\ e.action \in {"Add", "Replace", "Remove"}
      /\ e.facet \in Facets \cup {NoFacet} /\ NoFacet \notin Facets
    BY DiamondAssumption DEF SoundTables, TablesType, EntryType
<1>2. /\ Revert(c) \in SoundTables /\ ~ Revert(c).ok
    BY RevertIsSound
<1>3. CASE ~ c.ok
    <2>1. r = c
        BY <1>3 DEF CutSelector
    <2> QED BY <1>3, <2>1
<1>4. CASE c.ok /\ e.action = "Add"
    <2>1. r = AddFunction(c, e.facet, s)
        BY <1>4 DEF CutSelector
    <2>2. e.facet \in Facets
        BY <1>1, <1>4 DEF EntryCuts
    <2>3. CASE c.at[s].facet = NoFacet
        <3>1. r = Push(c, e.facet, s)
            BY <2>1, <2>3 DEF AddFunction
        <3>2. /\ r \in SoundTables /\ r.ok = c.ok
              /\ \A t \in Selectors : r.at[t].facet = IF t = s THEN e.facet ELSE c.at[t].facet
            BY <2>2, <2>3, <3>1, PushIsSound
        <3> QED BY <1>4, <3>2
    <2>4. CASE c.at[s].facet # NoFacet
        <3>1. r = Revert(c)
            BY <2>1, <2>4 DEF AddFunction
        <3> QED BY <1>2, <3>1
    <2> QED BY <2>3, <2>4
<1>5. CASE c.ok /\ e.action = "Replace"
    <2>1. r = ReplaceFunction(c, e.facet, s)
        BY <1>5 DEF CutSelector
    <2>2. e.facet \in Facets
        BY <1>1, <1>5 DEF EntryCuts
    <2>3. CASE c.at[s].facet \in {e.facet, NoFacet}
        <3>1. r = Revert(c)
            BY <2>1, <2>3 DEF ReplaceFunction
        <3> QED BY <1>2, <3>1
    <2>4. CASE c.at[s].facet \notin {e.facet, NoFacet}
        <3>1. PICK b : b = RemoveFunction(c, s)
            OBVIOUS
        <3>2. r = Push(b, e.facet, s)
            BY <2>1, <2>4, <3>1 DEF ReplaceFunction
        <3>3. /\ b \in SoundTables /\ b.ok = c.ok
              /\ \A t \in Selectors : b.at[t].facet = IF t = s THEN NoFacet ELSE c.at[t].facet
            BY <2>4, <3>1, RemoveIsSound
        <3>4. /\ r \in SoundTables /\ r.ok = b.ok
              /\ \A t \in Selectors : r.at[t].facet = IF t = s THEN e.facet ELSE b.at[t].facet
            BY <2>2, <3>2, <3>3, PushIsSound
        <3>5. \A t \in Selectors : r.at[t].facet = IF t = s THEN e.facet ELSE c.at[t].facet
            BY <3>3, <3>4
        <3> QED BY <1>5, <3>3, <3>4, <3>5
    <2> QED BY <2>3, <2>4
<1>6. CASE c.ok /\ e.action = "Remove"
    <2>1. r = RemoveFunction(c, s) /\ e.facet = NoFacet
        BY <1>6 DEF CutSelector, EntryCuts
    <2>2. CASE c.at[s].facet = NoFacet
        <3>1. r = Revert(c)
            BY <2>1, <2>2 DEF RemoveFunction
        <3> QED BY <1>2, <3>1
    <2>3. CASE c.at[s].facet # NoFacet
        <3>1. /\ r \in SoundTables /\ r.ok = c.ok
              /\ \A t \in Selectors : r.at[t].facet = IF t = s THEN NoFacet ELSE c.at[t].facet
            BY <2>1, <2>3, RemoveIsSound
        <3> QED BY <1>6, <2>1, <3>1
    <2> QED BY <2>2, <2>3
<1> QED BY <1>1, <1>3, <1>4, <1>5, <1>6

\* An entry, selector by selector.
Selector1By1(r, d, e) ==
    /\ DOMAIN r = 0..Len(e.selectors)
    /\ r[0] = d
    /\ \A k \in 1..Len(e.selectors) : r[k] = CutSelector(r[k - 1], e, e.selectors[k])
    /\ FoldLeft(LAMBDA c, s : CutSelector(c, e, s), d, e.selectors) = r[Len(e.selectors)]

LEMMA EntryIsLoop ==
    ASSUME NEW d \in SoundTables, NEW e \in EntryType, EntryCuts(e)
    PROVE  \E r : Selector1By1(r, d, e)
<1> DEFINE list == e.selectors
           n == Len(list)
           A == SoundTables
           step == [p \in A \X (1..n) |-> CutSelector(p[1], e, list[p[2]])]
           Follows(g) == g = [s \in SUBSET DOMAIN e.selectors |->
                                 IF s = {} THEN d
                                 ELSE CutSelector(g[s \ {Max(s)}], e, e.selectors[Max(s)])]
<1>1. n \in Nat /\ DOMAIN list = 1..n /\ \A k \in 1..n : list[k] \in Selectors
    BY DEF EntryType
<1>2. step \in [A \X (1..n) -> A]
    <2>1. \A p \in A \X (1..n) : p[1] \in A /\ list[p[2]] \in Selectors
        BY <1>1
    <2> HIDE DEF list
    <2> QED BY <2>1, CutSelectorIsSound
<1>3. \A x \in A, k \in 1..n : step[<<x, k>>] = CutSelector(x, e, list[k])
    OBVIOUS
<1> HIDE DEF step, A, n
<1>5. PICK g : LoopsInOrder(g, n, A, d, step)
    BY <1>1, <1>2, LoopInOrderExists DEF A
<1>6. Follows(g)
    <2>1. ASSUME NEW s \in SUBSET (1..n), s # {}
          PROVE  step[<<g[s \ {Max(s)}], Max(s)>>] = CutSelector(g[s \ {Max(s)}], e, list[Max(s)])
        <3>1. s \in SUBSET (0..n)
            OBVIOUS
        <3>2. Max(s) \in s
            BY <1>1, <2>1, <3>1, GreatestIsMember
        <3>3. g[s \ {Max(s)}] \in A
            BY <1>5 DEF LoopsInOrder
        <3> HIDE DEF list
        <3> QED BY <1>3, <3>2, <3>3
    <2>2. g = [s \in SUBSET (1..n) |->
                  IF s = {} THEN d ELSE CutSelector(g[s \ {Max(s)}], e, list[Max(s)])]
        BY <1>5, <2>1 DEF LoopsInOrder
    <2> QED BY <1>1, <2>2
<1> DEFINE it == CHOOSE g2 : Follows(g2)
<1>7. Follows(it)
    BY <1>6
<1>8. FoldLeft(LAMBDA c, s : CutSelector(c, e, s), d, e.selectors) = it[DOMAIN e.selectors]
    BY DEF FoldLeft, MapThenFoldSet
<1> HIDE DEF it
<1> DEFINE r == [k \in 0..n |-> it[1..k]]
<1>9. it[1..0] = d
    <2>1. 1..0 = {} /\ {} \in SUBSET DOMAIN e.selectors
        OBVIOUS
    <2> QED BY <1>7, <2>1
<1>10. ASSUME NEW k \in 1..n
       PROVE  it[1..k] = CutSelector(it[1..(k - 1)], e, list[k])
    <2>1. 1..k \in SUBSET (1..n) /\ k \in 1..k /\ k \in Nat \ {0}
        BY ONLY <1>1, k \in 1..n
    <2>2. Max(1..k) = k /\ (1..k) \ {Max(1..k)} = 1..(k - 1)
        BY <2>1, GreatestOfInterval
    <2> QED BY <1>1, <1>7, <2>1, <2>2
<1>11. DOMAIN r = 0..n /\ r[0] = d /\ r[n] = it[1..n]
    BY <1>1, <1>9
<1>12. \A k \in 1..n : r[k] = it[1..k] /\ r[k - 1] = it[1..(k - 1)]
    BY <1>1
<1> HIDE DEF r
<1>13. \A k \in 1..n : r[k] = CutSelector(r[k - 1], e, list[k])
    BY <1>10, <1>12
<1> QED BY <1>1, <1>8, <1>11, <1>13 DEF Selector1By1, n

\* What an entry that does not revert does to the dispatch: each selector it
\* names goes to its facet.
LEMMA EntryIsSound ==
    ASSUME NEW d \in SoundTables, NEW e \in EntryType
    PROVE  /\ CutEntry(d, e) \in SoundTables
           /\ CutEntry(d, e).ok =>
                 /\ d.ok
                 /\ \A t \in Selectors : CutEntry(d, e).at[t].facet =
                        IF t \in ToSet(e.selectors) THEN e.facet ELSE d.at[t].facet
<1>1. CASE e.selectors = <<>> \/ (e.action = "Remove") # (e.facet = NoFacet)
    <2>1. CutEntry(d, e) = Revert(d)
        BY <1>1 DEF CutEntry
    <2> QED BY <2>1, RevertIsSound
<1>2. CASE ~ (e.selectors = <<>> \/ (e.action = "Remove") # (e.facet = NoFacet))
    <2>1. EntryCuts(e)
        BY <1>2 DEF EntryCuts
    <2>2. PICK r : Selector1By1(r, d, e)
        BY <2>1, EntryIsLoop
    <2>3. CutEntry(d, e) = r[Len(e.selectors)]
        <3>1. CutEntry(d, e) = FoldLeft(LAMBDA c, s : CutSelector(c, e, s), d, e.selectors)
            BY <1>2 DEF CutEntry
        <3> QED BY <2>2, <3>1 DEF Selector1By1
    <2>4. PICK n \in Nat : n = Len(e.selectors)
        BY DEF EntryType
    <2>5. \A k \in 1..n : e.selectors[k] \in Selectors
        BY <2>4 DEF EntryType
    <2> DEFINE named(k) == {e.selectors[i] : i \in 1..k}
               Good(k) == /\ r[k] \in SoundTables
                          /\ r[k].ok =>
                                /\ d.ok
                                /\ \A t \in Selectors : r[k].at[t].facet =
                                       IF t \in named(k) THEN e.facet ELSE d.at[t].facet
               G == {k \in 0..n : Good(k)}
    <2>6. 0 \in G
        <3>1. r[0] = d
            BY <2>2 DEF Selector1By1
        <3>2. named(0) = {}
            OBVIOUS
        <3> HIDE DEF named
        <3>3. Good(0)
            BY <3>1, <3>2
        <3> QED BY <2>4, <3>3
    <2>7. ASSUME NEW k \in 1..n, k - 1 \in G
          PROVE  k \in G
        <3>1. Good(k - 1)
            BY <2>7
        <3>2. r[k] = CutSelector(r[k - 1], e, e.selectors[k])
            BY <2>2, <2>4 DEF Selector1By1
        <3>3. named(k) = named(k - 1) \cup {e.selectors[k]}
            <4>1. 1..k = (1..(k - 1)) \cup {k}
                OBVIOUS
            <4> QED BY <4>1
        <3> HIDE DEF named
        <3>4. /\ r[k] \in SoundTables
              /\ r[k].ok =>
                    /\ r[k - 1].ok
                    /\ \A t \in Selectors : r[k].at[t].facet =
                           IF t = e.selectors[k] THEN e.facet ELSE r[k - 1].at[t].facet
            BY <2>1, <2>5, <3>1, <3>2, CutSelectorIsSound
        <3>5. Good(k)
            BY <3>1, <3>3, <3>4
        <3> QED BY <3>5
    <2> HIDE DEF G
    <2>8. n \in G
        <3>1. 0..n \subseteq G
            BY ONLY <2>6, <2>7, n \in Nat, InductionUpTo
        <3> QED BY <3>1
    <2>9. Good(n)
        BY <2>8 DEF G
    <2>10. named(n) = ToSet(e.selectors)
        <3>1. DOMAIN e.selectors = 1..n
            BY <2>4 DEF EntryType
        <3> QED BY <3>1 DEF ToSet
    <2> HIDE DEF named
    <2> QED BY <2>3, <2>4, <2>9, <2>10
<1> QED BY <1>1, <1>2

\* A cut, entry by entry.
Entry1By1(r, d, cut) ==
    /\ DOMAIN r = 0..Len(cut)
    /\ r[0] = d
    /\ \A k \in 1..Len(cut) : r[k] = CutEntry(r[k - 1], cut[k])
    /\ diamondCut(d, cut) = r[Len(cut)]

LEMMA CutIsLoop ==
    ASSUME NEW d \in SoundTables, NEW cut \in Seq(EntryType)
    PROVE  \E r : Entry1By1(r, d, cut)
<1> DEFINE n == Len(cut)
           A == SoundTables
           step == [p \in A \X (1..n) |-> CutEntry(p[1], cut[p[2]])]
           Follows(g) == g = [s \in SUBSET DOMAIN cut |->
                                 IF s = {} THEN d
                                 ELSE CutEntry(g[s \ {Max(s)}], cut[Max(s)])]
<1>1. n \in Nat /\ DOMAIN cut = 1..n /\ \A k \in 1..n : cut[k] \in EntryType
    OBVIOUS
<1>2. step \in [A \X (1..n) -> A]
    <2>1. \A p \in A \X (1..n) : p[1] \in A /\ cut[p[2]] \in EntryType
        BY <1>1
    <2> QED BY <2>1, EntryIsSound
<1>3. \A x \in A, k \in 1..n : step[<<x, k>>] = CutEntry(x, cut[k])
    OBVIOUS
<1> HIDE DEF step, A, n
<1>5. PICK g : LoopsInOrder(g, n, A, d, step)
    BY <1>1, <1>2, LoopInOrderExists DEF A
<1>6. Follows(g)
    <2>1. ASSUME NEW s \in SUBSET (1..n), s # {}
          PROVE  step[<<g[s \ {Max(s)}], Max(s)>>] = CutEntry(g[s \ {Max(s)}], cut[Max(s)])
        <3>1. s \in SUBSET (0..n)
            OBVIOUS
        <3>2. Max(s) \in s
            BY <1>1, <2>1, <3>1, GreatestIsMember
        <3>3. g[s \ {Max(s)}] \in A
            BY <1>5 DEF LoopsInOrder
        <3> QED BY <1>3, <3>2, <3>3
    <2>2. g = [s \in SUBSET (1..n) |->
                  IF s = {} THEN d ELSE CutEntry(g[s \ {Max(s)}], cut[Max(s)])]
        BY <1>5, <2>1 DEF LoopsInOrder
    <2> QED BY <1>1, <2>2
<1> DEFINE it == CHOOSE g2 : Follows(g2)
<1>7. Follows(it)
    BY <1>6
<1>8. diamondCut(d, cut) = it[DOMAIN cut]
    BY DEF diamondCut, FoldLeft, MapThenFoldSet
<1> HIDE DEF it
<1> DEFINE r == [k \in 0..n |-> it[1..k]]
<1>9. it[1..0] = d
    <2>1. 1..0 = {} /\ {} \in SUBSET DOMAIN cut
        OBVIOUS
    <2> QED BY <1>7, <2>1
<1>10. ASSUME NEW k \in 1..n
       PROVE  it[1..k] = CutEntry(it[1..(k - 1)], cut[k])
    <2>1. 1..k \in SUBSET (1..n) /\ k \in 1..k /\ k \in Nat \ {0}
        BY ONLY <1>1, k \in 1..n
    <2>2. Max(1..k) = k /\ (1..k) \ {Max(1..k)} = 1..(k - 1)
        BY <2>1, GreatestOfInterval
    <2> QED BY <1>1, <1>7, <2>1, <2>2
<1>11. DOMAIN r = 0..n /\ r[0] = d /\ r[n] = it[1..n]
    BY <1>1, <1>9
<1>12. \A k \in 1..n : r[k] = it[1..k] /\ r[k - 1] = it[1..(k - 1)]
    BY <1>1
<1> HIDE DEF r
<1>13. \A k \in 1..n : r[k] = CutEntry(r[k - 1], cut[k])
    BY <1>10, <1>12
<1> QED BY <1>1, <1>8, <1>11, <1>13 DEF Entry1By1, n

\* A cut leaves the tables in agreement, and one that does not revert changes the
\* dispatch as it says: the last entry that names a selector decides.
LEMMA CutIsSound ==
    ASSUME NEW d \in SoundTables, NEW cut \in Seq(EntryType)
    PROVE  /\ diamondCut(d, cut) \in SoundTables
           /\ diamondCut(d, cut).ok => Dispatch(diamondCut(d, cut)) = CutEffect(Dispatch(d), cut)
<1>1. PICK r : Entry1By1(r, d, cut)
    BY CutIsLoop
<1>2. PICK n \in Nat : n = Len(cut) /\ DOMAIN cut = 1..n
    OBVIOUS
<1> DEFINE names(k, t) == t \in ToSet(cut[k].selectors)
           Good(k) == /\ r[k] \in SoundTables
                      /\ r[k].ok => \A t \in Selectors :
                            /\ (\A j \in 1..k : ~ names(j, t)) => r[k].at[t].facet = d.at[t].facet
                            /\ \A j \in 1..k : names(j, t) /\ (\A i \in (j + 1)..k : ~ names(i, t))
                                                  => r[k].at[t].facet = cut[j].facet
           G == {k \in 0..n : Good(k)}
<1>3. 0 \in G
    <2>1. r[0] = d
        BY <1>1 DEF Entry1By1
    <2> HIDE DEF names
    <2>2. Good(0)
        BY <2>1
    <2> QED BY <1>2, <2>2
<1>4. ASSUME NEW k \in 1..n, k - 1 \in G
      PROVE  k \in G
    <2>1. Good(k - 1)
        BY <1>4
    <2>2. r[k] = CutEntry(r[k - 1], cut[k]) /\ cut[k] \in EntryType
        BY <1>1, <1>2 DEF Entry1By1
    <2>3. /\ r[k] \in SoundTables
          /\ r[k].ok =>
                /\ r[k - 1].ok
                /\ \A t \in Selectors : r[k].at[t].facet =
                       IF names(k, t) THEN cut[k].facet ELSE r[k - 1].at[t].facet
        <3>1. PICK c : c = r[k - 1] /\ c \in SoundTables
            BY <2>1
        <3>2. PICK e \in EntryType : e = cut[k]
            BY <2>2
        <3>3. /\ CutEntry(c, e) \in SoundTables
              /\ CutEntry(c, e).ok =>
                    /\ c.ok
                    /\ \A t \in Selectors : CutEntry(c, e).at[t].facet =
                           IF t \in ToSet(e.selectors) THEN e.facet ELSE c.at[t].facet
            BY ONLY <3>1, EntryIsSound
        <3> QED BY ONLY <2>2, <3>1, <3>2, <3>3
    <2> HIDE DEF names
    <2>4. ASSUME r[k].ok, NEW t \in Selectors
          PROVE  /\ (\A j \in 1..k : ~ names(j, t)) => r[k].at[t].facet = d.at[t].facet
                 /\ \A j \in 1..k : names(j, t) /\ (\A i \in (j + 1)..k : ~ names(i, t))
                                       => r[k].at[t].facet = cut[j].facet
        <3>1. r[k].at[t].facet = IF names(k, t) THEN cut[k].facet ELSE r[k - 1].at[t].facet
            BY <2>3, <2>4
        <3>2. r[k - 1].ok
            BY <2>3, <2>4
        <3>3. /\ (\A j \in 1..(k - 1) : ~ names(j, t)) => r[k - 1].at[t].facet = d.at[t].facet
              /\ \A j \in 1..(k - 1) : names(j, t) /\ (\A i \in (j + 1)..(k - 1) : ~ names(i, t))
                                          => r[k - 1].at[t].facet = cut[j].facet
            BY <2>1, <3>2
        <3>4. ASSUME \A j \in 1..k : ~ names(j, t)
              PROVE  r[k].at[t].facet = d.at[t].facet
            <4>1. ~ names(k, t) /\ \A j \in 1..(k - 1) : ~ names(j, t)
                BY <3>4
            <4> QED BY <3>1, <3>3, <4>1
        <3>5. ASSUME NEW j \in 1..k, names(j, t), \A i \in (j + 1)..k : ~ names(i, t)
              PROVE  r[k].at[t].facet = cut[j].facet
            <4>1. CASE j = k
                BY <3>1, <3>5, <4>1
            <4>2. CASE j # k
                <5>1. j \in 1..(k - 1) /\ ~ names(k, t) /\ \A i \in (j + 1)..(k - 1) : ~ names(i, t)
                    BY <3>5, <4>2
                <5> QED BY <3>1, <3>3, <3>5, <5>1
            <4> QED BY <4>1, <4>2
        <3> QED BY <3>4, <3>5
    <2>5. Good(k)
        BY <2>3, <2>4
    <2> QED BY <2>5
<1> HIDE DEF G
<1>5. n \in G
    <2>1. 0..n \subseteq G
        BY ONLY <1>3, <1>4, n \in Nat, InductionUpTo
    <2> QED BY <2>1
<1>6. Good(n) /\ diamondCut(d, cut) = r[n]
    BY <1>1, <1>2, <1>5 DEF G, Entry1By1
<1>7. ASSUME r[n].ok, NEW t \in Selectors
      PROVE  r[n].at[t].facet = CutEffect(Dispatch(d), cut)[t]
    <2> DEFINE named == {k \in DOMAIN cut : names(k, t)}
               last == CHOOSE k \in named : \A j \in named : j <= k
    <2>1. CutEffect(Dispatch(d), cut)[t] = IF named = {} THEN d.at[t].facet ELSE cut[last].facet
        BY DEF CutEffect, Dispatch
    <2> HIDE DEF names
    <2>2. CASE named = {}
        <3>1. \A j \in 1..n : ~ names(j, t)
            BY <1>2, <2>2
        <3> QED BY <1>6, <1>7, <2>1, <2>2, <3>1
    <2>3. CASE named # {}
        <3>1. named \in SUBSET (0..n)
            BY <1>2
        <3>2. Max(named) \in named /\ \A y \in named : Max(named) >= y
            BY ONLY <2>3, <3>1, n \in Nat, GreatestIsMember
        <3>3. \E k \in named : \A j \in named : j <= k
            BY ONLY <3>1, <3>2
        <3>4. last \in named /\ \A j \in named : j <= last
            BY <3>3
        <3> HIDE DEF last
        <3>5. last \in 1..n /\ names(last, t)
            BY <1>2, <3>4
        <3>6. \A i \in (last + 1)..n : ~ names(i, t)
            BY <1>2, <3>4, <3>5
        <3>7. r[n].at[t].facet = cut[last].facet
            BY <1>6, <1>7, <3>5, <3>6
        <3> QED BY <2>1, <2>3, <3>7
    <2> QED BY <2>2, <2>3
<1>8. r[n].ok => Dispatch(r[n]) = CutEffect(Dispatch(d), cut)
    <2>1. ASSUME r[n].ok
          PROVE  Dispatch(r[n]) = CutEffect(Dispatch(d), cut)
        <3>1. Dispatch(r[n]) = [t \in Selectors |-> r[n].at[t].facet]
            BY DEF Dispatch
        <3>2. DOMAIN CutEffect(Dispatch(d), cut) = Selectors
              /\ CutEffect(Dispatch(d), cut) = [t \in Selectors |-> CutEffect(Dispatch(d), cut)[t]]
            BY DEF CutEffect
        <3> QED BY <1>7, <2>1, <3>1, <3>2
    <2> QED BY <2>1
<1> QED BY <1>6, <1>8

\* The tables of a deployed diamond agree, whatever cuts it has been through.
DiamondInv ==
    /\ now \in Nat
    /\ ds \in SoundTables
    /\ pendingCuts \in [Cuts -> Nat]

LEMMA DiamondInitInv == now = 1 /\ DiamondInit => DiamondInv
<1> SUFFICES ASSUME now = 1, DiamondInit PROVE DiamondInv
    OBVIOUS
<1>1. ds \in SoundTables
    BY EmptyIsSound, CutIsSound, DiamondAssumption DEF DiamondInit
<1> QED BY <1>1 DEF DiamondInit, DiamondInv

LEMMA DiamondNextInv ==
    ASSUME DiamondInv, [DiamondNext]_<<now, diamondVars>>
    PROVE  DiamondInv'
<1> USE DEF DiamondInv
<1>1. CASE DiamondTick
    BY <1>1 DEF DiamondTick, Advance, diamondVars
<1>2. ASSUME NEW c \in Cuts, proposeDiamondCut(c)
      PROVE  DiamondInv'
    <2>1. now + CUT_TIMELOCK \in Nat
        BY DiamondAssumption
    <2> QED BY <1>2, <2>1 DEF proposeDiamondCut
<1>3. ASSUME NEW c \in Cuts, executeDiamondCut(c)
      PROVE  DiamondInv'
    <2>1. c \in Seq(EntryType) /\ ds' = diamondCut(ds, c)
        BY <1>3, DiamondAssumption DEF executeDiamondCut
    <2>2. ds' \in SoundTables
        BY <2>1, CutIsSound
    <2> QED BY <1>3, <2>2 DEF executeDiamondCut
<1>4. ASSUME NEW c \in Cuts, cancelDiamondCut(c)
      PROVE  DiamondInv'
    BY <1>4 DEF cancelDiamondCut
<1>5. CASE UNCHANGED <<now, diamondVars>>
    BY <1>5 DEF diamondVars
<1> QED BY <1>1, <1>2, <1>3, <1>4, <1>5 DEF DiamondNext

LEMMA SoundTablesAgree == ds \in SoundTables => TablesAgree
<1> SUFFICES ASSUME ds \in SoundTables PROVE TablesAgree
    OBVIOUS
<1>1. /\ ds.at \in [Selectors -> PlaceType] /\ ds.of \in [Facets -> Seq(Selectors)]
      /\ ds.facets \in Seq(Facets)
      /\ PlacesListed(ds) /\ ListsPlaced(ds) /\ FacetsListed(ds)
    BY DEF SoundTables, TablesType
<1>2. /\ \A f \in Facets : DOMAIN ds.of[f] = 1..Len(ds.of[f])
      /\ DOMAIN ds.facets = 1..Len(ds.facets)
      /\ \A k \in 1..Len(ds.facets) : ds.facets[k] \in Facets
    BY <1>1
<1>3. ASSUME NEW s \in Selectors, ds.at[s].facet # NoFacet
      PROVE  /\ ds.at[s].pos + 1 \in DOMAIN ds.of[ds.at[s].facet]
             /\ ds.of[ds.at[s].facet][ds.at[s].pos + 1] = s
    <2>1. ds.at[s].facet \in Facets
        BY <1>1, <1>3 DEF PlaceType
    <2> QED BY <1>1, <1>2, <1>3, <2>1 DEF PlacesListed
<1>4. \A f \in Facets : \A k \in DOMAIN ds.of[f] :
          ds.at[ds.of[f][k]] = [facet |-> f, pos |-> k - 1]
    BY <1>1, <1>2 DEF ListsPlaced
<1>5. IsInjective(ds.facets)
    BY <1>1, <1>2 DEF FacetsListed, IsInjective
<1>6. {ds.facets[k] : k \in DOMAIN ds.facets} = {f \in Facets : ds.of[f] # <<>>}
    <2>1. \A f \in Facets :
              (\E k \in 1..Len(ds.facets) : ds.facets[k] = f) <=> ds.of[f] # <<>>
        BY <1>1 DEF FacetsListed
    <2> QED BY ONLY <1>2, <2>1
<1> QED BY <1>3, <1>4, <1>5, <1>6 DEF TablesAgree

\* After any sequence of cuts the dispatch table and the two lists the loupe reads
\* describe the same diamond (LibDiamond.addFunctions, replaceFunctions,
\* removeFunctions with their swap-and-pop).
THEOREM TablesKept == DiamondSpec => []TablesAgree
<1>1. DiamondInv /\ [DiamondNext]_<<now, diamondVars>> => DiamondInv'
    BY DiamondNextInv
<1>2. DiamondInv => TablesAgree
    BY SoundTablesAgree DEF DiamondInv
<1> QED BY DiamondInitInv, <1>1, <1>2, PTL DEF DiamondSpec

LEMMA DiamondInitMaps == now = 1 /\ DiamondInit => CutChanges!TimelockInit
<1> SUFFICES ASSUME now = 1, DiamondInit PROVE CutChanges!TimelockInit
    OBVIOUS
<1>1. Dispatch(ds) = CutEffect(Dispatch(Empty), FirstCut)
    BY EmptyIsSound, CutIsSound, DiamondAssumption DEF DiamondInit
<1>2. Dispatch(Empty) = [s \in Selectors |-> NoFacet]
    BY EmptyIsSound DEF Dispatch
<1> QED BY <1>1, <1>2 DEF DiamondInit, CutChanges!TimelockInit

\* A step of the diamond is one of the timelock on its dispatch, or none of it.
LEMMA DiamondStepMaps ==
    ASSUME DiamondInv, [DiamondNext]_<<now, diamondVars>>
    PROVE  [CutChanges!TimelockNext]_<<now, pendingCuts, Dispatch(ds)>>
<1> USE DEF DiamondInv
<1>1. CASE DiamondTick
    <2>1. CutChanges!Elapse
        BY <1>1 DEF DiamondTick, Advance, diamondVars, CutChanges!Elapse, Dispatch
    <2> QED BY <2>1 DEF CutChanges!TimelockNext
<1>2. ASSUME NEW c \in Cuts, proposeDiamondCut(c)
      PROVE  CutChanges!Announce(c)
    BY <1>2 DEF proposeDiamondCut, CutChanges!Announce, Dispatch
<1>3. ASSUME NEW c \in Cuts, executeDiamondCut(c)
      PROVE  CutChanges!Apply(c)
    <2>1. /\ c \in Seq(EntryType) /\ ds' = diamondCut(ds, c) /\ diamondCut(ds, c).ok
        BY <1>3, DiamondAssumption DEF executeDiamondCut
    <2>2. Dispatch(diamondCut(ds, c)) = CutEffect(Dispatch(ds), c)
        BY <2>1, CutIsSound
    <2>3. Dispatch(ds)' = CutEffect(Dispatch(ds), c)
        BY <2>1, <2>2 DEF Dispatch
    <2> QED BY <1>3, <2>3 DEF executeDiamondCut, CutDue, CutChanges!Apply
<1>4. ASSUME NEW c \in Cuts, cancelDiamondCut(c)
      PROVE  CutChanges!Withdraw(c)
    BY <1>4 DEF cancelDiamondCut, CutChanges!Withdraw, Dispatch
<1>5. CASE UNCHANGED <<now, diamondVars>>
    BY <1>5 DEF diamondVars, Dispatch
<1> QED BY <1>1, <1>2, <1>3, <1>4, <1>5 DEF DiamondNext, CutChanges!TimelockNext

\* A selector is served by another facet only through a cut announced CUT_TIMELOCK
\* earlier and not cancelled since, and then exactly as the cut says
\* (proposeDiamondCut, executeDiamondCut, cancelDiamondCut, LibDiamond.diamondCut).
THEOREM DiamondRefinesTimelock == DiamondSpec => CutsWait
<1>1. DiamondInv /\ [DiamondNext]_<<now, diamondVars>> => DiamondInv'
    BY DiamondNextInv
<1>2. DiamondInv /\ [DiamondNext]_<<now, diamondVars>>
        => [CutChanges!TimelockNext]_<<now, pendingCuts, Dispatch(ds)>>
    BY DiamondStepMaps
<1> QED BY DiamondInitInv, DiamondInitMaps, <1>1, <1>2, PTL
           DEF DiamondSpec, CutsWait, CutChanges!TimelockSpec

-------------------------------------------------------------------------------
(* The run of the contracts together: each keeps its invariant on its own      *)
(* steps, and the steps of the others leave it alone.                          *)

TimelocksInv ==
    /\ subject \in All
    /\ ds \in SoundTables /\ (subject = "diamond" => DiamondInv)
    /\ BudgetInv
    /\ subject = "attestor" => AttestedInv
    /\ subject = "poster" => PosterInv

LEMMA TimelocksInitInv == MCInit => TimelocksInv
<1> SUFFICES ASSUME MCInit PROVE TimelocksInv
    OBVIOUS
<1>1. now = 1
    BY DEF MCInit, Init
<1> QED BY <1>1, DiamondInitInv, RelayInitBudget, AttestorInitAttested, PosterInitInv
        DEF MCInit, TimelocksInv, All, DiamondInv

LEMMA TimelocksNextInv ==
    ASSUME TimelocksInv, [MCNext]_allVars
    PROVE  TimelocksInv'
<1>1. ASSUME UNCHANGED relayVars PROVE BudgetInv'
    BY <1>1 DEF relayVars, TimelocksInv, BudgetInv, BlockBudget
<1>2. ASSUME UNCHANGED diamondVars PROVE ds' \in SoundTables
    BY <1>2 DEF diamondVars, TimelocksInv
<1>3. CASE subject = "shutdown" /\ Next /\ Others(All \ {"shutdown"})
    BY <1>1, <1>2, <1>3 DEF Others, All, TimelocksInv
<1>4. CASE subject = "diamond" /\ DiamondNext /\ Others(All \ {"diamond"})
    <2>1. subject' = "diamond" /\ UNCHANGED relayVars
        BY <1>4 DEF Others, All
    <2>2. DiamondInv'
        BY <1>4, DiamondNextInv DEF TimelocksInv
    <2> QED BY <1>1, <2>1, <2>2 DEF TimelocksInv, All, DiamondInv
<1>5. CASE subject = "relay" /\ RelayNext /\ Others(All \ {"relay"})
    <2>1. subject' = "relay" /\ UNCHANGED diamondVars
        BY <1>5 DEF Others, All
    <2>2. BudgetInv'
        BY <1>5, RelayNextBudget DEF TimelocksInv
    <2> QED BY <1>2, <2>1, <2>2 DEF TimelocksInv, All
<1>6. CASE subject = "oracle" /\ OracleNext /\ Others(All \ {"oracle"})
    BY <1>1, <1>2, <1>6 DEF Others, All, TimelocksInv
<1>7. CASE subject = "attestor" /\ AttestorNext /\ Others(All \ {"attestor"})
    <2>1. subject' = "attestor" /\ UNCHANGED diamondVars /\ UNCHANGED relayVars
        BY <1>7 DEF Others, All
    <2>2. AttestedInv'
        BY <1>7, AttestorNextAttested DEF TimelocksInv
    <2> QED BY <1>1, <1>2, <2>1, <2>2 DEF TimelocksInv, All
<1>8. CASE subject = "poster" /\ PosterNext /\ Others(All \ {"attestor", "poster"})
    <2>1. subject' = "poster" /\ UNCHANGED diamondVars /\ UNCHANGED relayVars
        BY <1>8 DEF Others, All
    <2>2. PosterInv'
        BY <1>8, PosterNextInv DEF TimelocksInv
    <2> QED BY <1>1, <1>2, <2>1, <2>2 DEF TimelocksInv, All
<1>9. CASE UNCHANGED allVars
    <2>1. /\ UNCHANGED subject /\ UNCHANGED vars /\ UNCHANGED diamondVars /\ UNCHANGED relayVars
          /\ UNCHANGED attestorVars /\ UNCHANGED posterVars
        BY <1>9 DEF allVars
    <2>2. UNCHANGED now
        BY <2>1 DEF vars
    <2>3. DiamondInv => DiamondInv'
        BY <2>1, <2>2, DiamondNextInv
    <2>4. AttestedInv => AttestedInv'
        BY <2>1, <2>2, AttestorNextAttested
    <2>5. PosterInv => PosterInv'
        BY <2>1, <2>2, PosterNextInv DEF allPosterVars
    <2> QED BY <1>1, <1>2, <2>1, <2>3, <2>4, <2>5 DEF TimelocksInv
<1> QED BY <1>3, <1>4, <1>5, <1>6, <1>7, <1>8, <1>9 DEF MCNext

\* In the run as it is checked, and for every value of its constants: the tables of
\* the diamond agree and the budget of the relay holds, and what the attestor serves
\* and the poster submits is attested (LibDiamond.diamondCut,
\* validatePaymasterUserOp, attestState, tick of attestPoster.ts).
THEOREM TimelocksHold == MCSpec => [](TablesAgree /\ BlockBudget /\ ReadingsAreAttested)
<1>1. TimelocksInv /\ [MCNext]_allVars => TimelocksInv'
    BY TimelocksNextInv
<1>2. TimelocksInv => TablesAgree /\ BlockBudget /\ ReadingsAreAttested
    <2> SUFFICES ASSUME TimelocksInv PROVE TablesAgree /\ BlockBudget /\ ReadingsAreAttested
        OBVIOUS
    <2>1. TablesAgree
        BY SoundTablesAgree DEF TimelocksInv
    <2>2. BlockBudget
        BY DEF TimelocksInv, BudgetInv
    <2>3. subject = "attestor" => StateIsAttested
        BY DEF TimelocksInv, AttestedInv
    <2>4. subject = "poster" => TrailIsComplete
        BY DEF TimelocksInv, PosterInv
    <2> QED BY <2>1, <2>2, <2>3, <2>4 DEF ReadingsAreAttested
<1> QED BY TimelocksInitInv, <1>1, <1>2, PTL DEF MCSpec

\* The posting worker submits readings; it neither rotates the attestor nor turns the clock.
LEMMA PosterLeavesKeys ==
    PosterNext => AttestorTick \/ UNCHANGED <<now, attestor, pendingAttestor>>
<1> DEFINE untouched == UNCHANGED <<now, attestor, pendingAttestor>>
<1>1. ASSUME NEW k, TickStarts(k) \/ Fetches(k) \/ Signs(k) PROVE untouched
    BY <1>1 DEF TickStarts, Fetches, Signs, attestorVars
<1>2. ASSUME NEW k, Simulates(k) \/ Sends(k) \/ Fails(k) PROVE untouched
    BY <1>2 DEF Simulates, Sends, Fails, attestorVars
<1>3. Crash => untouched
    BY DEF Crash, attestorVars
<1>4. Included => untouched
    BY DEF Included, attest, attestorVars
<1>5. ASSUME NEW n, handleStateAttested(n) PROVE untouched
    BY <1>5 DEF handleStateAttested, attestorVars
<1>6. ASSUME NEW t, AccountChanges(t) PROVE untouched
    BY <1>6 DEF AccountChanges, attestorVars
<1> QED BY <1>1, <1>2, <1>3, <1>4, <1>5, <1>6 DEF PosterNext

\* Whatever contract a step is of, it leaves the clock alone or advances it once.
LEMMA ClockRuns == [MCNext]_allVars => UNCHANGED now \/ Advance
<1>1. Next => UNCHANGED now \/ Advance
    <2>1. ASSUME NEW s, NEW c, RegisterComponent(s, c) PROVE UNCHANGED now
        BY <2>1 DEF RegisterComponent
    <2>2. ASSUME NEW a, NEW active, SetRegistrar(a, active) \/ SetLiquidator(a, active)
          PROVE  UNCHANGED now
        BY <2>2 DEF SetRegistrar, SetLiquidator
    <2>3. ASSUME NEW c, UnregisterComponent(c) \/ VaultPause(c) \/ VaultUnpause(c)
                          \/ VaultSetPauser(c) \/ BurnNFT(c)
          PROVE  UNCHANGED now
        BY <2>3 DEF UnregisterComponent, VaultPause, VaultUnpause, VaultSetPauser, BurnNFT
    <2>4. ASSUME NEW from, NEW to, ShutdownRange(from, to) PROVE UNCHANGED now
        BY <2>4 DEF ShutdownRange
    <2>5. FullShutdown \/ ProposeResume \/ ExecuteResume \/ CancelResume => UNCHANGED now
        BY DEF FullShutdown, ProposeResume, ExecuteResume, Reopen, CancelResume
    <2> QED BY <2>1, <2>2, <2>3, <2>4, <2>5 DEF Next, Tick
<1>2. DiamondNext => UNCHANGED now \/ Advance
    BY DEF DiamondNext, DiamondTick, proposeDiamondCut, executeDiamondCut, cancelDiamondCut
<1>3. RelayNext => UNCHANGED now \/ Advance
    BY DEF RelayNext, NewBlock, validatePaymasterUserOp, proposeSet, executeSet
<1>4. OracleNext => UNCHANGED now \/ Advance
    BY DEF OracleNext, OracleTick, postPrices, proposeSignerChange, executeSignerChange
<1>5. AttestorNext => UNCHANGED now \/ Advance
    BY DEF AttestorNext, AttestorTick, attest, proposeAttestor, executeAttestor
<1>6. PosterNext => UNCHANGED now \/ Advance
    BY PosterLeavesKeys DEF AttestorTick
<1>7. UNCHANGED allVars => UNCHANGED now
    BY DEF allVars, vars
<1> QED BY <1>1, <1>2, <1>3, <1>4, <1>5, <1>6, <1>7 DEF MCNext

\* A behaviour of the run is one of the coordinator, the diamond and the oracle: the
\* steps of the others are for them at most a tick of the clock.
LEMMA OthersOnlyTick ==
    ASSUME [MCNext]_allVars
    PROVE  /\ [Next]_vars
           /\ [DiamondNext]_<<now, diamondVars>>
           /\ [OracleNext]_<<now, oracleVars>>
<1>1. CASE UNCHANGED allVars
    BY <1>1 DEF allVars, vars
<1>2. ASSUME UNCHANGED shutdownVars PROVE [Next]_vars
    BY <1>2, ClockRuns DEF Next, Tick, Advance, shutdownVars, vars
<1>3. ASSUME UNCHANGED diamondVars PROVE [DiamondNext]_<<now, diamondVars>>
    BY <1>3, ClockRuns DEF DiamondNext, DiamondTick
<1>4. ASSUME UNCHANGED oracleVars PROVE [OracleNext]_<<now, oracleVars>>
    BY <1>4, ClockRuns DEF OracleNext, OracleTick
<1> QED BY <1>1, <1>2, <1>3, <1>4 DEF MCNext, Others, All

\* For the relay and the attestor's keys too, but a clock that turns without a new block
\* of the relay, and a reading that the poster submits, are no steps of theirs alone.
LEMMA RelayOnlyTicks ==
    [MCNext]_allVars => \/ [RelayNext]_<<now, relayVars>>
                        \/ Advance /\ UNCHANGED <<relay, pendingPayload>>
<1>1. CASE UNCHANGED allVars
    BY <1>1 DEF allVars, vars
<1>2. ASSUME UNCHANGED relayVars, [MCNext]_allVars
      PROVE  \/ UNCHANGED <<now, relayVars>>
             \/ Advance /\ UNCHANGED <<relay, pendingPayload>>
    BY <1>2, ClockRuns DEF relayVars
<1> QED BY <1>1, <1>2 DEF MCNext, Others, All

LEMMA KeysOnlyTick ==
    [MCNext]_allVars => \/ [AttestorNext]_<<now, attestorVars>>
                        \/ UNCHANGED <<now, attestor, pendingAttestor>>
<1>1. CASE UNCHANGED allVars
    BY <1>1 DEF allVars, vars
<1>2. ASSUME UNCHANGED attestorVars, [MCNext]_allVars
      PROVE  [AttestorNext]_<<now, attestorVars>>
    BY <1>2, ClockRuns DEF AttestorNext, AttestorTick
<1>3. CASE PosterNext
    BY <1>3, PosterLeavesKeys DEF AttestorNext
<1> QED BY <1>1, <1>2, <1>3 DEF MCNext, Others, All

\* What a relay's payloads and the attestor's keys wait for, whoever else acts.
LEMMA RelayWaitsAmongOthers == MCSpec => RelayWaits
<1>1. RelayTyped /\ [MCNext]_allVars => RelayTyped'
    BY RelayOnlyTicks, RelayNextTyped DEF RelayTyped, Advance
<1>2. RelayTyped /\ [MCNext]_allVars
        => [RelayChanges!TimelockNext]_<<now, pendingPayload, relay>>
    <2>1. RelayTyped /\ Advance /\ UNCHANGED <<relay, pendingPayload>> => RelayChanges!Elapse
        BY DEF RelayTyped, Advance, RelayChanges!Elapse
    <2> QED BY <2>1, RelayOnlyTicks, RelayStepMaps DEF RelayChanges!TimelockNext
<1>3. MCInit => RelayTyped /\ RelayChanges!TimelockInit
    BY RelayInitTyped DEF MCInit, Init, RelayInit, RelayChanges!TimelockInit
<1> QED BY <1>1, <1>2, <1>3, PTL DEF MCSpec, RelayWaits, RelayChanges!TimelockSpec

LEMMA KeysWaitAmongOthers == MCSpec => AttestorWaits
<1>1. OneSlot /\ [MCNext]_allVars => OneSlot'
    BY KeysOnlyTick, AttestorNextOneSlot DEF OneSlot
<1>2. OneSlot /\ [MCNext]_allVars
        => [AttestorChanges!TimelockNext]_<<now, pendingAttestor, attestor>>
    BY KeysOnlyTick, AttestorStepMaps
<1>3. MCInit => OneSlot /\ AttestorChanges!TimelockInit
    BY AttestorInitOneSlot DEF MCInit, Init, AttestorInit, AttestorChanges!TimelockInit
<1> QED BY <1>1, <1>2, <1>3, PTL DEF MCSpec, AttestorWaits, AttestorChanges!TimelockSpec

\* A behaviour of the run is one of the coordinator, the diamond and the oracle.
LEMMA OthersBehave == MCSpec => Spec /\ DiamondSpec /\ OracleSpec
<1>1. MCInit => Init /\ now = 1 /\ DiamondInit /\ OracleInit
    BY DEF MCInit, Init
<1> QED BY <1>1, OthersOnlyTick, PTL DEF MCSpec, Spec, DiamondSpec, OracleSpec

\* In the run, and for every value of its constants, all four administrations wait for
\* their delay, prices are of their era, a shutdown reaches every component and a
\* resume belongs to the shutdown it ends, with the clock turned by whoever acts.
THEOREM AllAdministrationsWait ==
    MCSpec => /\ CutsWait /\ RelayWaits /\ SignersWait /\ AttestorWaits
              /\ PriceIsOfThisEra /\ LoopsMissNobody
              /\ [](RegistryIndexed /\ ResumeBelongsToShutdown)
<1>1. MCSpec => CutsWait /\ SignersWait /\ PriceIsOfThisEra
    BY OthersBehave, DiamondRefinesTimelock, OracleRefinesTimelock, PriceIsCurrent
<1>2. MCSpec => LoopsMissNobody
    BY OthersBehave, ShutdownMissesNobody
<1>3. MCSpec => [](RegistryIndexed /\ ResumeBelongsToShutdown)
    BY OthersBehave, RegistryCorrect, ResumeBelongs, PTL
<1> QED BY <1>1, <1>2, <1>3, RelayWaitsAmongOthers, KeysWaitAmongOthers
===============================================================================
