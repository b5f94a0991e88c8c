------------------------- MODULE PolicyAndStakeProofs -------------------------
(***************************************************************************)
(* Proofs about PolicyStack, StakedValidator and their run, for any        *)
(* accounts, policies, operations, day, bundle, hashes, MIN_STAKE and      *)
(* window.                                                                 *)
(*                                                                         *)
(* The invariant of the policy adds to the types that a revoked policy     *)
(* reads as expired (time never runs back) and that both the cached cap    *)
(* and the admitted spend are under the highest cap cached; the bound of a *)
(* day needs in addition how the history splits into windows.  The         *)
(* invariant of the stake ties the counters to the attestations: before    *)
(* that one cannot see that a slash never meets less than MIN_STAKE.       *)
(***************************************************************************)
EXTENDS MCPolicyAndStake, SequenceTheorems, DataLemmas

\* The history is what its comment says: no cached cap is above it.
CapSeen == val.installed => val.cache.dailyCap <= topCap

PolicyInv == TypeOK /\ RevokedIsExpired /\ CapSeen /\ BudgetHolds

\* What callers submit, in either entry point's shape, is a policy.
LEMMA SubmittedType == Submitted \subseteq PolicyType
<1> SUFFICES ASSUME NEW p \in Policies PROVE p \in PolicyType /\ Legacy(p) \in PolicyType
    BY DEF Submitted
<1>1. p \in PolicyType /\ PRESET_CUSTOM \in PresetHashes
    BY FacetAssumption
<1> QED BY <1>1 DEF PolicyType, Legacy

\* What the validator copies from a policy is a cache.
LEMMA CacheOfType == ASSUME NEW p \in PolicyType PROVE CacheOf(p) \in CacheType
BY DEF PolicyType, CacheOf, CacheType

\* The zeroed slot is a policy record.
LEMMA EmptyPolicyType == EmptyPolicy \in PolicyType
BY FacetAssumption DEF EmptyPolicy, PolicyType

\* The notional of an operation is a number.
LEMMA NotionalType == ASSUME NEW op \in Ops PROVE Notional(op) \in Nat
BY StackAssumption DEF Notional, OpType

\* Every step of the facets, and every step that leaves them alone, keeps their
\* types and keeps a revoked policy expired.
LEMMA FacetStep ==
    ASSUME FacetTypeOK, RevokedIsExpired,
           FacetNext \/ FacetTick \/ UNCHANGED facetVars
    PROVE  FacetTypeOK' /\ RevokedIsExpired'
<1> USE FacetAssumption DEF FacetTypeOK, RevokedIsExpired, auditVars, pauseVars
<1>1. ASSUME NEW o \in Accounts, NEW p \in Submitted, Deploy(o, p)
      PROVE  FacetTypeOK' /\ RevokedIsExpired'
    <2>1. p \in PolicyType
        BY SubmittedType
    <2> QED BY <1>1, <2>1 DEF Deploy, InstallAllowed
<1>2. ASSUME NEW s \in Accounts, NEW p \in Submitted, UpdatePermission(s, p)
      PROVE  FacetTypeOK' /\ RevokedIsExpired'
    BY <1>2, SubmittedType DEF UpdatePermission
<1>3. ASSUME NEW s \in Accounts, RevokePermission(s)
      PROVE  FacetTypeOK' /\ RevokedIsExpired'
    <2>1. policy' = [policy EXCEPT !.expiresAt = now] /\ now' = now
        BY <1>3 DEF RevokePermission
    <2>2. policy' \in PolicyType /\ policy'.expiresAt = now
        BY <2>1 DEF PolicyType
    <2> QED BY <1>3, <2>1, <2>2 DEF RevokePermission, RevokeAllowed
<1>4. ASSUME NEW s \in Accounts, NEW iso \in Isos,
             PauseForJurisdiction(s, iso) \/ UnpauseForJurisdiction(s, iso)
      PROVE  FacetTypeOK' /\ RevokedIsExpired'
    <2>1. version' = version + 1 /\ UNCHANGED <<now, nftOwner, auditVars>>
        BY <1>4 DEF PauseForJurisdiction, UnpauseForJurisdiction
    <2>2. PICK b \in BOOLEAN : paused' = [paused EXCEPT ![iso] = b]
        BY <1>4 DEF PauseForJurisdiction, UnpauseForJurisdiction
    <2>3. paused' \in [Isos -> BOOLEAN]
        BY <2>2
    <2>4. RevokedIsExpired'
        BY <2>1
    <2> QED BY <2>1, <2>3, <2>4
<1>5. ASSUME NEW to \in Accounts, TransferNFT(to)
      PROVE  FacetTypeOK' /\ RevokedIsExpired'
    BY <1>5 DEF TransferNFT
<1>6. CASE Burn
    BY <1>6 DEF Burn
<1>7. CASE FacetTick
    <2>1. policy.expiresAt \in Nat
        BY DEF PolicyType
    <2> QED BY <1>7, <2>1 DEF FacetTick
<1>8. CASE UNCHANGED facetVars
    BY <1>8 DEF facetVars
<1> QED BY <1>1, <1>2, <1>3, <1>4, <1>5, <1>6, <1>7, <1>8 DEF FacetNext

-------------------------------------------------------------------------------

\* The inductive invariant holds initially.
LEMMA PolicyInitInv == Init => PolicyInv
<1> SUFFICES ASSUME Init PROVE PolicyInv
    OBVIOUS
<1>1. FacetTypeOK /\ RevokedIsExpired
    <2>1. now \in Nat \ {0} /\ version \in Nat
        BY DEF Init, FacetInit
    <2>2. /\ nftOwner \in Accounts \cup {NoOwner}
          /\ installed \in BOOLEAN /\ revoked \in BOOLEAN /\ ~revoked
          /\ paused \in [Isos -> BOOLEAN]
        BY Zenon DEF Init, FacetInit
    <2>3. policy \in PolicyType
        BY EmptyPolicyType DEF Init, FacetInit
    <2> QED BY <2>1, <2>2, <2>3 DEF FacetTypeOK, RevokedIsExpired
<1>2. CacheOf(EmptyPolicy) \in CacheType
    BY EmptyPolicyType, CacheOfType
<1>3. bundle \in Seq(Ops)
    BY DEF Init
<1>4. val.installed = FALSE /\ executing = FALSE
    BY DEF Init, NoValidator
<1>5. /\ val \in [installed : BOOLEAN, owner : Accounts \cup {NoOwner},
                  cache : CacheType, dailySpent : Nat, dailyWindowStart : Nat]
      /\ hook \in [installed : BOOLEAN, bound : BOOLEAN]
    BY <1>2 DEF Init, NoValidator
<1>6. spentAt \in [1..MaxTime -> Nat]
    BY DEF Init
<1>7. now \in 1..MaxTime /\ topCap = 0
    BY FacetAssumption DEF Init, FacetInit
<1> QED
    BY <1>1, <1>3, <1>4, <1>5, <1>6, <1>7 DEF PolicyInv, TypeOK, CapSeen, BudgetHolds

\* A step that leaves the facets alone keeps what is known of them.
LEMMA FacetsUnchanged ==
    ASSUME PolicyInv, UNCHANGED facetVars
    PROVE  FacetTypeOK' /\ RevokedIsExpired' /\ (now \in 1..MaxTime)'
<1>1. FacetTypeOK' /\ RevokedIsExpired'
    BY FacetStep DEF PolicyInv, TypeOK
<1>2. now' = now
    BY DEF facetVars
<1> QED BY <1>1, <1>2 DEF PolicyInv, TypeOK

ValType ==
    [installed : BOOLEAN, owner : Accounts \cup {NoOwner},
     cache : CacheType, dailySpent : Nat, dailyWindowStart : Nat]

\* The counter as it is read is a number, live window or not.
LEMMA CounterType == ASSUME PolicyInv PROVE CounterSpent \in Nat
BY DEF PolicyInv, TypeOK, CounterSpent

\* validateUserOp: the new spend fits the cached daily cap.
LEMMA ValidateStep ==
    ASSUME PolicyInv, NEW op \in Ops, ValidateUserOp(op)
    PROVE  PolicyInv'
<1>1. /\ UNCHANGED facetVars /\ UNCHANGED hook /\ UNCHANGED executing
      /\ ~executing
      /\ bundle' = Append(bundle, op)
      /\ spentAt' = [spentAt EXCEPT ![now] = @ + Notional(op)]
      /\ CounterSpent + Notional(op) <= val.cache.dailyCap
      /\ val.installed /\ topCap' = topCap
    BY DEF ValidateUserOp, Admit
<1>2. PICK start \in Nat :
          val' = [val EXCEPT !.dailySpent = CounterSpent + Notional(op),
                             !.dailyWindowStart = start]
    <2>1. val.dailyWindowStart \in Nat /\ now \in Nat
        BY DEF PolicyInv, TypeOK, FacetTypeOK
    <2>2. CASE WindowLive(val.dailyWindowStart)
        BY <2>1, <2>2 DEF ValidateUserOp, Admit
    <2>3. CASE ~WindowLive(val.dailyWindowStart)
        BY <2>1, <2>3 DEF ValidateUserOp, Admit
    <2> QED BY <2>2, <2>3
<1>3. CounterSpent \in Nat /\ Notional(op) \in Nat
    BY CounterType, NotionalType
<1>4. /\ val' \in ValType
      /\ val'.cache = val.cache
      /\ val'.dailySpent = CounterSpent + Notional(op)
    <2>1. val \in ValType
        BY DEF PolicyInv, TypeOK, ValType
    <2>2. DEFINE n == CounterSpent + Notional(op)
    <2>3. n \in Nat
        BY <1>3
    <2> HIDE DEF n
    <2>4. val' = [val EXCEPT !.dailySpent = n, !.dailyWindowStart = start]
        BY <1>2 DEF n
    <2>5. val' \in ValType /\ val'.cache = val.cache /\ val'.dailySpent = n
        BY <2>1, <2>3, <2>4 DEF ValType
    <2> QED BY <2>5 DEF n
<1>5. CapSeen' /\ BudgetHolds'
    <2>1. val.cache.dailyCap \in Nat /\ topCap \in Nat /\ val.cache.dailyCap <= topCap
        BY <1>1 DEF PolicyInv, TypeOK, CacheType, CapSeen
    <2>2. CounterSpent + Notional(op) <= topCap
        BY <1>1, <1>3, <2>1
    <2> QED BY <1>1, <1>4, <2>1, <2>2 DEF CapSeen, BudgetHolds
<1>6. bundle' \in Seq(Ops)
    BY <1>1, AppendProperties DEF PolicyInv, TypeOK
<1>7. spentAt' \in [1..MaxTime -> Nat]
    BY <1>1, <1>3 DEF PolicyInv, TypeOK
<1>8. (executing => bundle # <<>>)' /\ executing' \in BOOLEAN /\ hook' = hook
    BY <1>1 DEF PolicyInv, TypeOK
<1> QED
    BY <1>4, <1>5, <1>6, <1>7, <1>8, <1>1, FacetsUnchanged
    DEF PolicyInv, TypeOK, ValType

\* Taking an operation off the bundle, executed or reverted.
LEMMA DrainStep ==
    ASSUME PolicyInv, executing, Drain
    PROVE  PolicyInv'
<1>1. bundle \in Seq(Ops) /\ bundle # <<>>
    BY DEF PolicyInv, TypeOK
<1>2. Tail(bundle) \in Seq(Ops) /\ Len(Tail(bundle)) = Len(bundle) - 1
    BY <1>1, HeadTailProperties
<1>3. executing' => bundle' # <<>>
    <2>1. executing' <=> Len(bundle) > 1
        BY DEF Drain
    <2>2. ASSUME Len(bundle) > 1 PROVE Tail(bundle) # <<>>
        <3>1. Len(Tail(bundle)) # 0
            BY ONLY <1>1, <1>2, <2>2, LenProperties
        <3>2. Len(<<>>) = 0
            OBVIOUS
        <3> QED BY <3>1, <3>2, Zenon
    <2> QED BY <2>1, <2>2 DEF Drain
<1>4. executing' \in BOOLEAN
    BY DEF Drain
<1>5. bundle' \in Seq(Ops) /\ UNCHANGED <<facetVars, val, hook, spentAt, topCap>>
    BY <1>2 DEF Drain, moduleVars, history
<1>6. CapSeen' /\ BudgetHolds'
    BY <1>5 DEF PolicyInv, CapSeen, BudgetHolds
<1> QED BY <1>3, <1>4, <1>5, <1>6, FacetsUnchanged DEF PolicyInv, TypeOK

\* Every step preserves the inductive invariant.
LEMMA PolicyNextInv == PolicyInv /\ [Next]_vars => PolicyInv'
<1> SUFFICES ASSUME PolicyInv, [Next]_vars PROVE PolicyInv'
    OBVIOUS
<1> USE DEF moduleVars, bundleVars, history
<1>1. CASE FacetNext /\ UNCHANGED <<moduleVars, bundleVars, history>>
    <2>1. FacetTypeOK' /\ RevokedIsExpired'
        BY <1>1, FacetStep DEF PolicyInv, TypeOK
    <2>2. now' = now
        BY <1>1 DEF FacetNext, Deploy, UpdatePermission, RevokePermission,
                    PauseForJurisdiction, UnpauseForJurisdiction, TransferNFT, Burn
    <2>3. CapSeen' /\ BudgetHolds'
        BY <1>1 DEF PolicyInv, CapSeen, BudgetHolds
    <2> QED BY <1>1, <2>1, <2>2, <2>3 DEF PolicyInv, TypeOK
<1>2. CASE FacetTick /\ UNCHANGED <<moduleVars, bundleVars, history>>
    <2>1. FacetTypeOK' /\ RevokedIsExpired'
        BY <1>2, FacetStep DEF PolicyInv, TypeOK
    <2>2. now' \in 1..MaxTime
        BY <1>2, FacetAssumption DEF FacetTick, PolicyInv, TypeOK
    <2>3. CapSeen' /\ BudgetHolds'
        BY <1>2 DEF PolicyInv, CapSeen, BudgetHolds
    <2> QED BY <1>2, <2>1, <2>2, <2>3 DEF PolicyInv, TypeOK
<1>3. ASSUME NEW o \in Accounts, ValidatorInstall(o)
      PROVE  PolicyInv'
    <2>1. CacheOf(policy) \in CacheType
        BY CacheOfType DEF PolicyInv, TypeOK, FacetTypeOK
    <2>2. val' \in ValType /\ val'.dailySpent = 0 /\ val'.cache \in CacheType
        BY <1>3, <2>1 DEF ValidatorInstall, ValType
    <2>3. topCap' \in Nat /\ val'.cache.dailyCap = topCap'
        BY <1>3, <2>1 DEF ValidatorInstall, CacheOf, CacheType
    <2>4. CapSeen' /\ BudgetHolds'
        BY <2>2, <2>3 DEF CapSeen, BudgetHolds, CacheType
    <2>5. spentAt' \in [1..MaxTime -> Nat]
        BY <1>3 DEF ValidatorInstall
    <2> QED BY <1>3, <2>2, <2>3, <2>4, <2>5, FacetsUnchanged
        DEF ValidatorInstall, ValType, PolicyInv, TypeOK
<1>4. CASE ValidatorUninstall
    <2>1. val' \in ValType /\ ~val'.installed
        BY <1>4, EmptyPolicyType, CacheOfType
        DEF ValidatorUninstall, NoValidator, ValType
    <2>2. CapSeen' /\ BudgetHolds'
        BY <2>1 DEF CapSeen, BudgetHolds
    <2> QED BY <1>4, <2>1, <2>2, FacetsUnchanged
        DEF ValidatorUninstall, ValType, PolicyInv, TypeOK
<1>5. CASE SyncPolicy
    <2>1. CacheOf(policy) \in CacheType
        BY CacheOfType DEF PolicyInv, TypeOK, FacetTypeOK
    <2>2. val' \in ValType
        BY <1>5, <2>1 DEF SyncPolicy, ValType, PolicyInv, TypeOK
    <2>3. CacheOf(policy).dailyCap = policy.dailyCap /\ policy.dailyCap \in Nat
        BY <2>1 DEF CacheOf, CacheType
    <2>4. topCap' \in Nat /\ topCap' >= topCap /\ topCap' >= policy.dailyCap
        BY <1>5, <2>3 DEF SyncPolicy, PolicyInv, TypeOK
    <2>5. val'.installed /\ val'.cache.dailyCap = policy.dailyCap
          /\ val'.dailySpent = val.dailySpent /\ val.installed
        BY <1>5, <2>3 DEF SyncPolicy, PolicyInv, TypeOK
    <2>6. val.dailySpent \in Nat /\ topCap \in Nat /\ val.dailySpent <= topCap
        BY <2>5 DEF PolicyInv, TypeOK, BudgetHolds
    <2>7. CapSeen' /\ BudgetHolds'
        BY <2>3, <2>4, <2>5, <2>6 DEF CapSeen, BudgetHolds
    <2> QED BY <1>5, <2>2, <2>4, <2>7, FacetsUnchanged
        DEF SyncPolicy, ValType, PolicyInv, TypeOK
<1>6. ASSUME NEW b \in BOOLEAN, HookInstall(b)
      PROVE  PolicyInv'
    <2>1. hook' \in [installed : BOOLEAN, bound : BOOLEAN]
        BY <1>6 DEF HookInstall
    <2>2. CapSeen' /\ BudgetHolds'
        BY <1>6 DEF HookInstall, PolicyInv, CapSeen, BudgetHolds
    <2> QED BY <1>6, <2>1, <2>2, FacetsUnchanged DEF HookInstall, PolicyInv, TypeOK
<1>7. CASE HookUninstall
    <2>1. hook' \in [installed : BOOLEAN, bound : BOOLEAN]
        BY <1>7 DEF HookUninstall
    <2>2. CapSeen' /\ BudgetHolds'
        BY <1>7 DEF HookUninstall, PolicyInv, CapSeen, BudgetHolds
    <2> QED BY <1>7, <2>1, <2>2, FacetsUnchanged DEF HookUninstall, PolicyInv, TypeOK
<1>8. CASE StartExecution
    <2>1. CapSeen' /\ BudgetHolds'
        BY <1>8 DEF StartExecution, PolicyInv, CapSeen, BudgetHolds
    <2> QED BY <1>8, <2>1, FacetsUnchanged DEF StartExecution, PolicyInv, TypeOK
<1>9. CASE Execute \/ ExecutionReverts
    BY <1>9, DrainStep DEF Execute, ExecutionReverts
<1>10. CASE UNCHANGED vars
    <2>1. CapSeen' /\ BudgetHolds'
        BY <1>10 DEF vars, PolicyInv, CapSeen, BudgetHolds
    <2> QED BY <1>10, <2>1, FacetsUnchanged DEF vars, PolicyInv, TypeOK
<1> QED
    BY <1>1, <1>2, <1>3, <1>4, <1>5, <1>6, <1>7, <1>8, <1>9, <1>10, ValidateStep
    DEF Next

\* The inductive invariant holds in every reachable state.
THEOREM PolicyAlwaysInv == Spec => []PolicyInv
BY PolicyInitInv, PolicyNextInv, PTL DEF Spec

\* Type correctness of the whole stack.
THEOREM PolicyTypeCorrect == Spec => []TypeOK
<1>1. PolicyInv => TypeOK
    BY DEF PolicyInv
<1> QED BY <1>1, PolicyAlwaysInv, PTL

\* A revoked policy is expired from its own block on, until it is replaced.
THEOREM RevokedStaysExpired == Spec => []RevokedIsExpired
<1>1. PolicyInv => RevokedIsExpired
    BY DEF PolicyInv
<1> QED BY <1>1, PolicyAlwaysInv, PTL

\* The validator never admits more in a window than a daily cap it has cached.
THEOREM BudgetKept == Spec => []BudgetHolds
<1>1. PolicyInv => BudgetHolds
    BY DEF PolicyInv
<1> QED BY <1>1, PolicyAlwaysInv, PTL

-------------------------------------------------------------------------------

\* What the history holds since an installation: nothing before the first window,
\* after the live one's day or in the future; the counter, since the window began;
\* and at most one cap in the part of a day that came before it, for that part lies
\* in the window before.
WindowsSplit ==
    val.installed =>
        LET start == val.dailyWindowStart
        IN  /\ \A t \in 1..MaxTime :
                  start = 0 \/ t > now \/ t >= start + DAY => spentAt[t] = 0
            /\ start # 0 => /\ start <= now
                            /\ SpentBetween(start, MaxTime) = val.dailySpent
                            /\ SpentBetween(start - DAY + 1, start - 1) <= topCap

Blocks(from, to) == {t \in 1..MaxTime : from <= t /\ t <= to}

\* Sums over some of the blocks, whatever is spent in each.
LEMMA SpendSums ==
    ASSUME NEW f \in [1..MaxTime -> Nat], NEW T \in SUBSET (1..MaxTime)
    PROVE  /\ IsFiniteSet(T) /\ SumFunctionOnSet(f, T) \in Nat
           /\ \A U \in SUBSET (1..MaxTime) :
                 T \subseteq U => SumFunctionOnSet(f, T) <= SumFunctionOnSet(f, U)
           /\ \A U, V \in SUBSET (1..MaxTime) :
                 T \subseteq U \cup V
                   => SumFunctionOnSet(f, T)
                        <= SumFunctionOnSet(f, U) + SumFunctionOnSet(f, V)
           /\ (\A t \in T : f[t] = 0) => SumFunctionOnSet(f, T) = 0
<1>1. IsFiniteSet(1..MaxTime) /\ \A t \in 1..MaxTime : f[t] \in Nat
    <2>1. 1 \in Int /\ MaxTime \in Int
        BY FacetAssumption
    <2> QED BY <2>1, FS_Interval
<1>2. IsFiniteSet(T)
    BY <1>1, FS_Subset
<1>3. \A U \in SUBSET (1..MaxTime) :
          /\ SumFunctionOnSet(f, U) \in Nat
          /\ T \subseteq U => SumFunctionOnSet(f, T) <= SumFunctionOnSet(f, U)
    BY <1>1, SumOfParts
<1>4. ASSUME NEW U \in SUBSET (1..MaxTime), NEW V \in SUBSET (1..MaxTime),
             T \subseteq U \cup V
      PROVE  SumFunctionOnSet(f, T) <= SumFunctionOnSet(f, U) + SumFunctionOnSet(f, V)
    <2>1. SumFunctionOnSet(f, U \cup V)
            <= SumFunctionOnSet(f, U) + SumFunctionOnSet(f, V)
        BY <1>1, SumOfParts
    <2>2. /\ SumFunctionOnSet(f, T) <= SumFunctionOnSet(f, U \cup V)
          /\ SumFunctionOnSet(f, T) \in Nat /\ SumFunctionOnSet(f, U \cup V) \in Nat
          /\ SumFunctionOnSet(f, U) \in Nat /\ SumFunctionOnSet(f, V) \in Nat
        BY <1>3, <1>4
    <2> QED BY <2>1, <2>2
<1>5. \A t \in T : f[t] \in Nat
    BY <1>1
<1>6. (\A t \in T : f[t] = 0) => SumFunctionOnSet(f, T) = 0
    BY <1>2, <1>5, SumFacts
<1> QED BY <1>2, <1>3, <1>4, <1>6

\* A step that admits nothing and leaves the window alone.
LEMMA WindowUntouched ==
    ASSUME PolicyInv, PolicyInv', WindowsSplit, DayBound, spentAt' = spentAt,
           val'.installed => /\ val.installed
                             /\ val'.dailySpent = val.dailySpent
                             /\ val'.dailyWindowStart = val.dailyWindowStart,
           topCap' >= topCap, now' >= now
    PROVE  WindowsSplit' /\ DayBound'
<1> SUFFICES ASSUME val'.installed PROVE WindowsSplit' /\ DayBound'
    BY DEF WindowsSplit, DayBound
<1>1. val.installed
    OBVIOUS
<1>2. \A from, to : SpentBetween(from, to)' = SpentBetween(from, to)
    BY DEF SpentBetween
<1>3. \A from, to : SpentBetween(from, to) \in Nat
    BY SpendSums DEF SpentBetween, PolicyInv, TypeOK
<1>4. topCap \in Nat /\ topCap' \in Nat /\ now \in Nat /\ now' \in Nat
      /\ val.dailyWindowStart \in Nat
    BY DEF PolicyInv, TypeOK
<1>5. DayBound'
    BY <1>1, <1>2, <1>3, <1>4 DEF DayBound
<1>6. WindowsSplit'
    BY <1>1, <1>2, <1>3, <1>4 DEF WindowsSplit
<1> QED BY <1>5, <1>6

\* An admission, in the live window or opening a new one.
LEMMA AdmissionKeepsDays ==
    ASSUME PolicyInv, PolicyInv', WindowsSplit, DayBound, NEW op \in Ops, ValidateUserOp(op)
    PROVE  WindowsSplit' /\ DayBound'
<1> DEFINE w == val.dailyWindowStart
           start == val'.dailyWindowStart
           n == Notional(op)
           S(f, from, to) == SumFunctionOnSet(f, Blocks(from, to))
<1>1. /\ val.installed /\ val'.installed /\ now' = now /\ topCap' = topCap
      /\ spentAt' = [spentAt EXCEPT ![now] = @ + n]
      /\ val'.dailySpent = CounterSpent + n
      /\ start = IF WindowLive(w) THEN w ELSE now
    <2>1. val \in ValType
        BY DEF PolicyInv, TypeOK, ValType
    <2> QED BY <2>1 DEF ValidateUserOp, Admit, facetVars, ValType
<1>2. /\ now \in 1..MaxTime /\ now \in Nat /\ w \in Nat /\ topCap \in Nat
      /\ DAY \in Nat \ {0} /\ n \in Nat /\ MaxTime \in Nat /\ val.dailySpent \in Nat
      /\ spentAt \in [1..MaxTime -> Nat] /\ spentAt' \in [1..MaxTime -> Nat]
    BY NotionalType, StackAssumption, FacetAssumption, SMTT(30) DEF PolicyInv, TypeOK
<1>3. val.dailySpent <= topCap /\ val'.dailySpent <= topCap
    BY <1>1 DEF PolicyInv, BudgetHolds
<1>4. /\ \A t \in 1..MaxTime :
            w = 0 \/ t > now \/ t >= w + DAY => spentAt[t] = 0
      /\ w # 0 => /\ w <= now
                  /\ S(spentAt, w, MaxTime) = val.dailySpent
                  /\ S(spentAt, w - DAY + 1, w - 1) <= topCap
      /\ \A t \in 1..MaxTime : S(spentAt, t, t + DAY - 1) <= 2 * topCap
    BY <1>1 DEF WindowsSplit, DayBound, SpentBetween, Blocks
<1> HIDE DEF w, start, n
<1>5. /\ start \in 1..MaxTime /\ start <= now /\ now < start + DAY
      /\ {now, now + 1, start, start - 1, start - DAY + 1, MaxTime} \subseteq Int
    <2>1. CASE WindowLive(w)
        BY <2>1, <1>1, <1>2, <1>4 DEF WindowLive
    <2>2. CASE ~WindowLive(w)
        BY <2>2, <1>1, <1>2
    <2> QED BY <2>1, <2>2
<1>6. \A t \in 1..MaxTime : t > now \/ t >= start + DAY => spentAt'[t] = 0
    BY <1>1, <1>2, <1>4, <1>5
\* Sums that leave the block out, and sums that take it in.
<1>7. ASSUME NEW from \in Int, NEW to \in Int
      PROVE  /\ S(spentAt, from, to) \in Nat /\ S(spentAt', from, to) \in Nat
             /\ now < from \/ to < now => S(spentAt', from, to) = S(spentAt, from, to)
             /\ from <= now /\ now <= to
                  => S(spentAt', from, to) = S(spentAt, from, to) + n
    <2> DEFINE T == Blocks(from, to)
    <2>1. T \in SUBSET (1..MaxTime)
        BY DEF Blocks
    <2>2. /\ IsFiniteSet(T)
          /\ \A t \in T : spentAt[t] \in Nat /\ spentAt'[t] \in Nat
          /\ SumFunctionOnSet(spentAt, T) \in Nat
          /\ SumFunctionOnSet(spentAt', T) \in Nat
        BY <1>2, <2>1, SpendSums
    <2>3. ASSUME now \notin T PROVE S(spentAt', from, to) = S(spentAt, from, to)
        <3>1. \A t \in T : spentAt'[t] = spentAt[t]
            BY <1>1, <1>2, <2>1, <2>3
        <3> HIDE DEF T
        <3>2. SumFunctionOnSet(spentAt', T) = SumFunctionOnSet(spentAt, T)
            BY <2>2, <3>1, SumFacts
        <3> QED BY <3>2 DEF T
    <2>4. ASSUME now \in T PROVE S(spentAt', from, to) = S(spentAt, from, to) + n
        <3>1. /\ \A t \in T \ {now} : spentAt'[t] = spentAt[t]
              /\ spentAt'[now] = spentAt[now] + n /\ spentAt[now] \in Nat
            BY <1>1, <1>2, <2>1, <2>4
        <3> HIDE DEF T
        <3>2. SumFunctionOnSet(spentAt', T)
                = SumFunctionOnSet(spentAt, T) - spentAt[now] + spentAt'[now]
            BY <2>2, <2>4, <3>1, SumOnSetUpdate
        <3>3. SumFunctionOnSet(spentAt', T) = SumFunctionOnSet(spentAt, T) + n
            BY <2>2, <3>1, <3>2, <1>2
        <3> QED BY <3>3 DEF T
    <2> QED BY <1>2, <2>2, <2>3, <2>4 DEF Blocks
<1> HIDE DEF S
<1>8. ASSUME NEW a \in Int, NEW b \in Int, NEW c \in Int, NEW d \in Int
      PROVE  /\ c <= a /\ b <= d => S(spentAt', a, b) <= S(spentAt', c, d)
             /\ c <= b + 1
                  => S(spentAt', a, d) <= S(spentAt', a, b) + S(spentAt', c, d)
    <2>1. /\ Blocks(a, b) \in SUBSET (1..MaxTime) /\ Blocks(c, d) \in SUBSET (1..MaxTime)
          /\ Blocks(a, d) \in SUBSET (1..MaxTime)
          /\ c <= a /\ b <= d => Blocks(a, b) \subseteq Blocks(c, d)
          /\ c <= b + 1 => Blocks(a, d) \subseteq Blocks(a, b) \cup Blocks(c, d)
        BY DEF Blocks
    <2> QED BY <1>2, <2>1, SpendSums DEF S
<1>9. S(spentAt', start, MaxTime) = val'.dailySpent
    <2>1. S(spentAt', start, MaxTime) = S(spentAt, start, MaxTime) + n
        BY <1>2, <1>5, <1>7
    <2>2. CASE WindowLive(w)
        BY <2>1, <2>2, <1>1, <1>4 DEF WindowLive, CounterSpent, w
    <2>3. CASE ~WindowLive(w)
        <3>1. \A t \in Blocks(now, MaxTime) : spentAt[t] = 0
            BY <2>3, <1>2, <1>4 DEF WindowLive, Blocks
        <3>2. Blocks(now, MaxTime) \in SUBSET (1..MaxTime)
            BY DEF Blocks
        <3>3. S(spentAt, now, MaxTime) = 0
            BY <1>2, <3>1, <3>2, SpendSums DEF S
        <3> QED BY <2>1, <2>3, <3>3, <1>1, <1>2 DEF CounterSpent, w
    <2> QED BY <2>2, <2>3
<1>10. S(spentAt', start - DAY + 1, start - 1) <= topCap
    <2>1. S(spentAt', start - DAY + 1, start - 1) = S(spentAt, start - DAY + 1, start - 1)
        BY <1>2, <1>5, <1>7
    <2>2. CASE WindowLive(w)
        BY <2>1, <2>2, <1>1, <1>4 DEF WindowLive
    <2>3. CASE ~WindowLive(w) /\ w # 0
        <3>1. w <= start - DAY + 1 - 1
            BY <2>3, <1>1, <1>2, <1>4 DEF WindowLive
        <3>2. Blocks(start - DAY + 1, start - 1) \subseteq Blocks(w, MaxTime)
            <4>1. ASSUME NEW b \in 1..MaxTime, start - DAY + 1 <= b PROVE w <= b
                BY <4>1, <3>1, <1>2, <1>5
            <4> QED BY <4>1, <1>2 DEF Blocks
        <3>3. Blocks(start - DAY + 1, start - 1) \in SUBSET (1..MaxTime)
              /\ Blocks(w, MaxTime) \in SUBSET (1..MaxTime)
            BY DEF Blocks
        <3>4. S(spentAt, start - DAY + 1, start - 1) <= S(spentAt, w, MaxTime)
            BY <1>2, <3>2, <3>3, SpendSums DEF S
        <3>5. S(spentAt, start - DAY + 1, start - 1) \in Nat
            BY <1>2, <1>5, <1>7
        <3> QED BY <2>1, <2>3, <3>4, <3>5, <1>2, <1>3, <1>4
    <2>4. CASE w = 0
        <3>1. \A t \in Blocks(start - DAY + 1, start - 1) : spentAt[t] = 0
            BY <2>4, <1>4 DEF Blocks
        <3>2. Blocks(start - DAY + 1, start - 1) \in SUBSET (1..MaxTime)
            BY DEF Blocks
        <3>3. S(spentAt, start - DAY + 1, start - 1) = 0
            BY <1>2, <3>1, <3>2, SpendSums DEF S
        <3> QED BY <2>1, <3>3, <1>2
    <2> QED BY <2>2, <2>3, <2>4
<1>11. ASSUME NEW t \in 1..MaxTime
       PROVE  S(spentAt', t, t + DAY - 1) <= 2 * topCap
    <2>1. CASE now < t \/ t + DAY - 1 < now
        <3>1. S(spentAt', t, t + DAY - 1) = S(spentAt, t, t + DAY - 1)
            BY <2>1, <1>2, <1>7
        <3> QED BY <3>1, <1>4
    <2>2. CASE t <= now /\ now <= t + DAY - 1
        <3>0. t \in Int /\ t + DAY - 1 \in Int
            BY <1>2
        <3>1. S(spentAt', t, t + DAY - 1)
                <= S(spentAt', t, start - 1) + S(spentAt', start, t + DAY - 1)
            BY <3>0, <1>2, <1>5, <1>8
        <3>2. S(spentAt', t, start - 1) <= S(spentAt', start - DAY + 1, start - 1)
            <4>1. start - DAY + 1 <= t
                BY <2>2, <1>2, <1>5
            <4> QED BY <4>1, <3>0, <1>2, <1>5, <1>8
        <3>3. S(spentAt', start, t + DAY - 1) <= val'.dailySpent
            <4>1. S(spentAt', start, t + DAY - 1)
                    <= S(spentAt', start, now) + S(spentAt', now + 1, t + DAY - 1)
                BY <2>2, <3>0, <1>2, <1>5, <1>8
            <4>2. S(spentAt', now + 1, t + DAY - 1) = 0
                <5>1. \A b \in Blocks(now + 1, t + DAY - 1) : spentAt'[b] = 0
                    BY <1>2, <1>6 DEF Blocks
                <5>2. Blocks(now + 1, t + DAY - 1) \in SUBSET (1..MaxTime)
                    BY DEF Blocks
                <5> QED BY <1>2, <5>1, <5>2, SpendSums DEF S
            <4>3. S(spentAt', start, now) <= S(spentAt', start, MaxTime)
                BY <1>2, <1>5, <1>8
            <4>4. /\ S(spentAt', start, now) \in Nat
                  /\ S(spentAt', start, t + DAY - 1) \in Nat
                  /\ S(spentAt', start, MaxTime) \in Nat
                BY <3>0, <1>2, <1>5, <1>7
            <4> QED BY <4>1, <4>2, <4>3, <4>4, <1>9
        <3>4. /\ S(spentAt', t, t + DAY - 1) \in Nat
              /\ S(spentAt', t, start - 1) \in Nat
              /\ S(spentAt', start - DAY + 1, start - 1) \in Nat
              /\ S(spentAt', start, t + DAY - 1) \in Nat
            BY <3>0, <1>2, <1>5, <1>7
        <3>5. val'.dailySpent \in Nat
            BY DEF PolicyInv, TypeOK
        <3> QED BY <3>1, <3>2, <3>3, <3>4, <3>5, <1>2, <1>3, <1>10
    <2> QED BY <2>1, <2>2, <1>2
<1>12. DayBound'
    BY <1>1, <1>2, <1>11 DEF DayBound, SpentBetween, S, Blocks, start
<1>13. WindowsSplit'
    BY <1>1, <1>2, <1>5, <1>6, <1>9, <1>10
    DEF WindowsSplit, SpentBetween, S, Blocks, start
<1> QED BY <1>12, <1>13

\* Every step keeps the windows apart and the days under two caps.
LEMMA NextDays ==
    PolicyInv /\ PolicyInv' /\ WindowsSplit /\ DayBound /\ [Next]_vars => WindowsSplit' /\ DayBound'
<1> SUFFICES ASSUME PolicyInv, PolicyInv', WindowsSplit, DayBound, [Next]_vars
             PROVE  WindowsSplit' /\ DayBound'
    OBVIOUS
<1> USE DEF moduleVars, bundleVars, history
<1>1. /\ topCap \in Nat /\ now \in Nat /\ val \in ValType
      /\ policy.dailyCap \in Nat
    <2>1. policy \in PolicyType
        BY DEF PolicyInv, TypeOK, FacetTypeOK
    <2>2. CacheOf(policy) \in CacheType
        BY <2>1, CacheOfType
    <2>3. CacheOf(policy).dailyCap \in Nat
        BY <2>2 DEF CacheType
    <2>4. policy.dailyCap \in Nat
        BY <2>3 DEF CacheOf
    <2>5. topCap \in Nat /\ now \in Nat /\ val \in ValType
        BY DEF PolicyInv, TypeOK, FacetTypeOK, ValType
    <2> QED BY <2>4, <2>5
<1>2. CASE UNCHANGED <<val, spentAt, topCap>> /\ now' >= now
    BY <1>1, <1>2, WindowUntouched
<1>3. ASSUME NEW o \in Accounts, ValidatorInstall(o)
      PROVE  WindowsSplit' /\ DayBound'
    <2>1. /\ spentAt' = [t \in 1..MaxTime |-> 0] /\ val'.dailyWindowStart = 0
          /\ now' = now /\ topCap' \in Nat
        BY <1>1, <1>3 DEF ValidatorInstall, facetVars
    <2>2. spentAt' \in [1..MaxTime -> Nat] /\ \A t \in 1..MaxTime : spentAt'[t] = 0
        BY <2>1
    <2>3. ASSUME NEW from, NEW to PROVE SpentBetween(from, to)' = 0
        <3>1. Blocks(from, to) \in SUBSET (1..MaxTime)
            BY DEF Blocks
        <3>2. SumFunctionOnSet(spentAt', Blocks(from, to)) = 0
            BY <2>2, <3>1, SpendSums
        <3> QED BY <3>2 DEF SpentBetween, Blocks
    <2>4. DayBound'
        BY <2>1, <2>3 DEF DayBound
    <2>5. WindowsSplit'
        BY <2>1, <2>2, <2>3 DEF WindowsSplit
    <2> QED BY <2>4, <2>5
<1>4. CASE ValidatorUninstall
    BY <1>4 DEF ValidatorUninstall, NoValidator, WindowsSplit, DayBound
<1>5. CASE SyncPolicy
    <2>1. /\ spentAt' = spentAt /\ now' = now /\ topCap' >= topCap
          /\ val' = [val EXCEPT !.cache = CacheOf(policy)]
        BY <1>1, <1>5 DEF SyncPolicy, facetVars
    <2>2. /\ val'.installed = val.installed
          /\ val'.dailySpent = val.dailySpent
          /\ val'.dailyWindowStart = val.dailyWindowStart
        BY <2>1, <1>1 DEF ValType
    <2> QED BY <1>1, <2>1, <2>2, WindowUntouched
<1>6. ASSUME NEW op \in Ops, ValidateUserOp(op)
      PROVE  WindowsSplit' /\ DayBound'
    BY <1>6, AdmissionKeepsDays
<1>7. ASSUME FacetNext \/ FacetTick PROVE now' >= now
    BY <1>1, <1>7
    DEF FacetNext, FacetTick, Deploy, UpdatePermission, RevokePermission,
        PauseForJurisdiction, UnpauseForJurisdiction, TransferNFT, Burn
<1> QED BY <1>1, <1>2, <1>3, <1>4, <1>5, <1>6, <1>7
    DEF Next, vars, facetVars, HookInstall, HookUninstall, StartExecution, Execute,
        ExecutionReverts, Drain

\* Windows are fixed, so an installation admits up to two daily caps in a day, and
\* never more: a day meets two windows at most, each admits one cap, and the part
\* of the day before the second one lies wholly in the first.
THEOREM DayBoundKept == Spec => []DayBound
<1>1. Init => WindowsSplit /\ DayBound
    BY DEF Init, NoValidator, WindowsSplit, DayBound
<1> QED BY <1>1, PolicyAlwaysInv, NextDays, PTL DEF Spec

\* The persistent counter is exactly what was admitted since the live window began.
THEOREM CounterKeptExact == Spec => []CounterIsExact
<1>1. PolicyInv /\ WindowsSplit => CounterIsExact
    <2> SUFFICES ASSUME PolicyInv, WindowsSplit, val.installed,
                        WindowLive(val.dailyWindowStart)
                 PROVE  val.dailySpent = SpentBetween(val.dailyWindowStart, now)
        BY DEF CounterIsExact
    <2> DEFINE start == val.dailyWindowStart
               early == Blocks(start, now)
               all == Blocks(start, MaxTime)
    <2>1. /\ start # 0 /\ start <= now
          /\ SumFunctionOnSet(spentAt, all) = val.dailySpent
          /\ \A t \in 1..MaxTime : t > now => spentAt[t] = 0
        BY DEF WindowsSplit, WindowLive, SpentBetween, Blocks
    <2>2. /\ now \in 1..MaxTime /\ spentAt \in [1..MaxTime -> Nat]
          /\ start \in Nat /\ MaxTime \in Nat
        BY FacetAssumption DEF PolicyInv, TypeOK
    <2>3. early \in SUBSET (1..MaxTime) /\ all \in SUBSET (1..MaxTime)
        BY DEF Blocks
    <2>4. SumFunctionOnSet(spentAt, all \ early) = 0
        <3>1. \A t \in all \ early : spentAt[t] = 0
            BY <2>1, <2>2 DEF Blocks
        <3>2. all \ early \in SUBSET (1..MaxTime)
            BY <2>3
        <3> HIDE DEF all, early
        <3> QED BY <2>2, <3>1, <3>2, SpendSums
    <2>5. early \subseteq all /\ all \subseteq early \cup (all \ early)
        BY <2>2 DEF Blocks
    <2> HIDE DEF all, early
    <2>6. /\ SumFunctionOnSet(spentAt, early) <= SumFunctionOnSet(spentAt, all)
          /\ SumFunctionOnSet(spentAt, early) \in Nat
          /\ SumFunctionOnSet(spentAt, all) \in Nat
        BY <2>2, <2>3, <2>5, SpendSums
    <2>7. SumFunctionOnSet(spentAt, all) <= SumFunctionOnSet(spentAt, early) + 0
        <3>1. all \ early \in SUBSET (1..MaxTime)
            BY <2>3
        <3> QED BY <2>2, <2>3, <2>4, <2>5, <3>1, SpendSums
    <2>8. SumFunctionOnSet(spentAt, early) = val.dailySpent
        BY <2>1, <2>6, <2>7
    <2> QED BY <2>8 DEF early, SpentBetween, Blocks
<1>2. Init => WindowsSplit /\ DayBound
    BY DEF Init, NoValidator, WindowsSplit, DayBound
<1> QED BY <1>1, <1>2, PolicyAlwaysInv, NextDays, PTL DEF Spec

-------------------------------------------------------------------------------

\* preCheck reads the stored policy, which a revocation has made expire.
LEMMA RevokedIsRefused ==
    PolicyInv /\ [Next]_vars => [Execute /\ hook.installed => ~revoked]_vars
BY DEF PolicyInv, RevokedIsExpired, Execute, PreCheck, InScope, Expired

\* preCheck refuses an expired policy, and a revoked one is expired: whatever
\* the validator's cache says, nothing executes under the hook after a revocation.
THEOREM RevocationStopsExecution == Spec => NoExecutionAfterRevoke
<1> QED BY RevokedIsRefused, PolicyAlwaysInv, PTL DEF Spec, NoExecutionAfterRevoke

\* After a burn no call changes the policy or the pauses again.
THEOREM BurnedRulesStand == Spec => BurnFreezesRules
<1>1. PolicyInv /\ [Next]_vars
        => [installed /\ nftOwner = NoOwner
              => UNCHANGED <<nftOwner, auditVars, pauseVars>>]_facetVars
    <2> SUFFICES ASSUME PolicyInv, Next, installed, nftOwner = NoOwner, facetVars' # facetVars
                 PROVE  UNCHANGED <<nftOwner, auditVars, pauseVars>>
        BY DEF vars
    <2>1. FacetNext \/ FacetTick
        BY DEF Next, ValidatorInstall, ValidatorUninstall, SyncPolicy, HookInstall,
               HookUninstall, ValidateUserOp, Admit, StartExecution, Execute,
               ExecutionReverts, Drain
    <2>2. NoOwner \notin Accounts
        BY FacetAssumption
    <2>3. ~FacetNext
        BY <2>2 DEF FacetNext, Deploy, InstallAllowed, UpdatePermission,
                    RevokePermission, RevokeAllowed, PauseForJurisdiction,
                    UnpauseForJurisdiction, TransferNFT, Burn
    <2> QED BY <2>1, <2>3 DEF FacetTick
<1> QED BY <1>1, PolicyAlwaysInv, PTL DEF Spec, BurnFreezesRules

-------------------------------------------------------------------------------
(* StakedValidator *)

StakeInv == StakeTypeOK /\ LockAccounting

\* LockValue counts in steps of MIN_STAKE.
LEMMA LockValueFacts ==
    ASSUME NEW c \in Nat
    PROVE  /\ LockValue(c) \in Nat
           /\ LockValue(0) = 0
           /\ LockValue(c + 1) = LockValue(c) + MIN_STAKE
           /\ c > 0 => /\ LockValue(c - 1) = LockValue(c) - MIN_STAKE
                       /\ LockValue(c) >= MIN_STAKE
<1>1. LockValue(c) \in Nat /\ LockValue(0) = 0
    BY ConstantsAssumption DEF LockValue
<1>2. LockValue(c + 1) = LockValue(c) + MIN_STAKE
    BY ConstantsAssumption DEF LockValue
<1>3. ASSUME c > 0
      PROVE  /\ LockValue(c - 1) = LockValue(c) - MIN_STAKE
             /\ LockValue(c) >= MIN_STAKE
    <2>1. LockValue(c - 1) = LockValue(c) - MIN_STAKE
        BY ConstantsAssumption DEF LockValue
    <2>2. LockValue(c - 1) \in Nat
        <3>1. c - 1 \in Nat
            BY <1>3
        <3> QED BY <3>1, ConstantsAssumption DEF LockValue
    <2> QED BY <2>1, <2>2, <1>1, ConstantsAssumption
<1> QED BY <1>1, <1>2, <1>3

\* The open and the disputed attestations of an account are finite sets, and
\* disputed ones are open.
LEMMA FiniteAttestations ==
    ASSUME NEW v \in Stakers
    PROVE  /\ IsFiniteSet(Open(v)) /\ Cardinality(Open(v)) \in Nat
           /\ IsFiniteSet(Disputed(v)) /\ Cardinality(Disputed(v)) \in Nat
           /\ Disputed(v) \subseteq Open(v)
<1>1. Open(v) \in SUBSET Hashes /\ Disputed(v) \in SUBSET Open(v)
    BY DEF Open, Disputed
<1>2. IsFiniteSet(Open(v))
    BY <1>1, ConstantsAssumption, FS_Subset
<1>3. IsFiniteSet(Disputed(v))
    BY <1>1, <1>2, FS_Subset
<1> QED BY <1>1, <1>2, <1>3, FS_CardinalityType

\* How one write of an attestation's status changes the two sets.
LEMMA StatusWrite ==
    ASSUME StakeTypeOK, NEW h \in Hashes, NEW v \in Stakers,
           NEW s \in AttestationStatus,
           status' = [status EXCEPT ![h][v] = s]
    PROVE  /\ status' \in [Hashes -> [Stakers -> AttestationStatus]]
           /\ \A a \in Stakers \ {v} :
                  Open(a)' = Open(a) /\ Disputed(a)' = Disputed(a)
           /\ Open(v)' = IF s \in {"Validated", "Challenged"}
                            THEN Open(v) \cup {h} ELSE Open(v) \ {h}
           /\ Disputed(v)' = IF s = "Challenged"
                                THEN Disputed(v) \cup {h} ELSE Disputed(v) \ {h}
BY DEF StakeTypeOK, Open, Disputed

\* Open and disputed attestations depend on the statuses alone.
LEMMA StatusUnchanged ==
    ASSUME status' = status
    PROVE  \A a \in Stakers : Open(a)' = Open(a) /\ Disputed(a)' = Disputed(a)
BY DEF Open, Disputed

\* The only facts about Math.min the contract needs.
LEMMA MathMinFact ==
    ASSUME NEW x \in Nat, NEW m \in Nat, x >= m
    PROVE  MathMin(x, m) = m
BY DEF MathMin

\* An open dispute has its MIN_STAKE locked and counted.
LEMMA CoveredDispute ==
    ASSUME StakeInv, NEW h \in Hashes, NEW v \in Stakers, status[h][v] = "Challenged"
    PROVE  /\ lockedStakeOf[v] >= MIN_STAKE
           /\ stakeOf[v] >= MIN_STAKE
           /\ pendingChallengesOf[v] > 0
           /\ Cardinality(Open(v)) > 0
           /\ MathMin(lockedStakeOf[v], MIN_STAKE) = MIN_STAKE
           /\ MathMin(stakeOf[v], MIN_STAKE) = MIN_STAKE
<1>1. h \in Open(v) /\ h \in Disputed(v)
    BY DEF Open, Disputed
<1>2. Cardinality(Open(v)) > 0 /\ Cardinality(Disputed(v)) > 0
    BY <1>1, FiniteAttestations, FS_EmptySet
<1>3. LockValue(Cardinality(Open(v))) >= MIN_STAKE
    BY <1>2, FiniteAttestations, LockValueFacts, ConstantsAssumption
<1>4. stakeOf[v] \in Nat /\ lockedStakeOf[v] \in Nat /\ MIN_STAKE \in Nat
    BY ConstantsAssumption DEF StakeInv, StakeTypeOK
<1>5. /\ lockedStakeOf[v] >= MIN_STAKE
      /\ stakeOf[v] >= MIN_STAKE
      /\ pendingChallengesOf[v] > 0
    BY <1>2, <1>3, <1>4 DEF StakeInv, LockAccounting
<1> QED BY <1>2, <1>4, <1>5, MathMinFact

-------------------------------------------------------------------------------

\* The inductive invariant holds initially.
LEMMA StakeInitInv == StakeInit => StakeInv
<1> SUFFICES ASSUME StakeInit PROVE StakeInv
    OBVIOUS
<1>1. StakeTypeOK
    BY ConstantsAssumption DEF StakeInit, StakeTypeOK, AttestationStatus
<1>2. \A v \in Stakers : Open(v) = {} /\ Disputed(v) = {}
    BY DEF StakeInit, Open, Disputed
<1>3. \A v \in Stakers : Cardinality(Open(v)) = 0 /\ Cardinality(Disputed(v)) = 0
    BY <1>2, FS_EmptySet
<1>4. LockAccounting
    BY <1>3, LockValueFacts DEF StakeInit, LockAccounting
<1> QED BY <1>1, <1>4 DEF StakeInv

\* Every step preserves the inductive invariant.
LEMMA StakeNextInv == StakeInv /\ [StakeNext]_stakeVars => StakeInv'
<1> SUFFICES ASSUME StakeInv, [StakeNext]_stakeVars PROVE StakeInv'
    OBVIOUS
<1> USE ConstantsAssumption
<1>1. ASSUME NEW a \in Stakers, NEW amount \in 1..Supply, Stake(a, amount)
      PROVE  StakeInv'
    <2>1. StakeTypeOK'
        BY <1>1 DEF StakeInv, StakeTypeOK, Stake
    <2>2. LockAccounting'
        BY <1>1, StatusUnchanged DEF StakeInv, StakeTypeOK, Stake, LockAccounting
    <2> QED BY <2>1, <2>2 DEF StakeInv
<1>2. ASSUME NEW a \in Stakers,
             NEW amount \in 1..(Supply * Cardinality(Stakers)),
             Withdraw(a, amount)
      PROVE  StakeInv'
    <2>0. amount \in Int /\ amount > 0
        BY <1>2 DEF Withdraw
    <2>1. StakeTypeOK'
        BY <1>2, <2>0 DEF StakeInv, StakeTypeOK, LockAccounting, Withdraw, Release
    <2>2. LockAccounting'
        BY <1>2, <2>0, StatusUnchanged
        DEF StakeInv, StakeTypeOK, Withdraw, Release, LockAccounting
    <2> QED BY <2>1, <2>2 DEF StakeInv
<1>3. ASSUME NEW a \in Stakers, NEW h \in Hashes, ValidateAttestation(a, h)
      PROVE  StakeInv'
    <2>1. StakeTypeOK'
        BY <1>3
        DEF StakeInv, StakeTypeOK, ValidateAttestation, Lock, ledger, AttestationStatus
    <2>2. /\ Open(a)' = Open(a) \cup {h} /\ Disputed(a)' = Disputed(a) \ {h}
          /\ \A b \in Stakers \ {a} :
                 Open(b)' = Open(b) /\ Disputed(b)' = Disputed(b)
        BY <1>3, StatusWrite
        DEF StakeInv, ValidateAttestation, Lock, AttestationStatus
    <2>3. h \notin Open(a) /\ h \notin Disputed(a)
        BY <1>3 DEF ValidateAttestation, Lock, Open, Disputed
    <2>4. /\ Cardinality(Open(a)') = Cardinality(Open(a)) + 1
          /\ Cardinality(Disputed(a)') = Cardinality(Disputed(a))
        <3>1. Cardinality(Open(a) \cup {h}) = Cardinality(Open(a)) + 1
            BY <2>3, FiniteAttestations, FS_AddElement
        <3>2. Disputed(a) \ {h} = Disputed(a)
            BY <2>3
        <3> QED BY <2>2, <3>1, <3>2
    <2>5. LockValue(Cardinality(Open(a)) + 1)
            = LockValue(Cardinality(Open(a))) + MIN_STAKE
        BY FiniteAttestations, LockValueFacts
    <2>6. LockAccounting'
        <3>1. lockedStakeOf[a] + MIN_STAKE <= stakeOf[a]
            BY <1>3 DEF StakeInv, StakeTypeOK, ValidateAttestation
        <3>2. lockedStakeOf'[a] = LockValue(Cardinality(Open(a)'))
            BY <1>3, <2>4, <2>5
            DEF StakeInv, StakeTypeOK, LockAccounting, ValidateAttestation, Lock
        <3>3. /\ stakeOf' = stakeOf /\ pendingChallengesOf' = pendingChallengesOf
              /\ lockedStakeOf' = [lockedStakeOf EXCEPT ![a] = @ + MIN_STAKE]
            BY <1>3 DEF ValidateAttestation, Lock, ledger
        <3> QED
            BY <2>2, <2>4, <3>1, <3>2, <3>3 DEF StakeInv, StakeTypeOK, LockAccounting
    <2> QED BY <2>1, <2>6 DEF StakeInv
<1>4. ASSUME NEW c \in Stakers, NEW v \in Stakers, NEW h \in Hashes,
             Challenge(c, h, v)
      PROVE  StakeInv'
    <2>1. StakeTypeOK'
        BY <1>4 DEF StakeInv, StakeTypeOK, Challenge, ledger, AttestationStatus
    <2>2. /\ Open(v)' = Open(v) \cup {h} /\ Disputed(v)' = Disputed(v) \cup {h}
          /\ \A b \in Stakers \ {v} :
                 Open(b)' = Open(b) /\ Disputed(b)' = Disputed(b)
        BY <1>4, StatusWrite DEF StakeInv, Challenge, AttestationStatus
    <2>3. h \in Open(v) /\ h \notin Disputed(v)
        BY <1>4 DEF Challenge, Open, Disputed
    <2>4. /\ Cardinality(Open(v)') = Cardinality(Open(v))
          /\ Cardinality(Disputed(v)') = Cardinality(Disputed(v)) + 1
        BY <2>2, <2>3, FiniteAttestations, FS_AddElement
    <2>5. LockAccounting'
        BY <1>4, <2>2, <2>4 DEF StakeInv, StakeTypeOK, Challenge, ledger, LockAccounting
    <2> QED BY <2>1, <2>5 DEF StakeInv
<1>5. ASSUME NEW v \in Stakers, NEW h \in Hashes,
             status[h][v] = "Challenged",
             NEW s \in {"ResolvedHonest", "ResolvedSlashed"},
             status' = [status EXCEPT ![h][v] = s]
      PROVE  /\ \A b \in Stakers \ {v} :
                    Open(b)' = Open(b) /\ Disputed(b)' = Disputed(b)
             /\ Cardinality(Disputed(v)') = Cardinality(Disputed(v)) - 1
             /\ LockValue(Cardinality(Open(v)'))
                  = LockValue(Cardinality(Open(v))) - MIN_STAKE
    <2>1. /\ Open(v)' = Open(v) \ {h} /\ Disputed(v)' = Disputed(v) \ {h}
          /\ \A b \in Stakers \ {v} :
                 Open(b)' = Open(b) /\ Disputed(b)' = Disputed(b)
        BY <1>5, StatusWrite DEF StakeInv, AttestationStatus
    <2>2. h \in Open(v) /\ h \in Disputed(v)
        BY <1>5 DEF Open, Disputed
    <2>3. /\ Cardinality(Open(v)') = Cardinality(Open(v)) - 1
          /\ Cardinality(Disputed(v)') = Cardinality(Disputed(v)) - 1
        <3>1. /\ Cardinality(Open(v) \ {h}) = Cardinality(Open(v)) - 1
              /\ Cardinality(Disputed(v) \ {h}) = Cardinality(Disputed(v)) - 1
            BY <2>2, FiniteAttestations, FS_RemoveElement
        <3> QED BY <2>1, <3>1
    <2>4. LockValue(Cardinality(Open(v)) - 1)
            = LockValue(Cardinality(Open(v))) - MIN_STAKE
        BY <1>5, CoveredDispute, FiniteAttestations, LockValueFacts
    <2> QED BY <2>1, <2>3, <2>4
<1>6. ASSUME NEW v \in Stakers, NEW h \in Hashes, AdjudicateSlashed(h, v)
      PROVE  StakeInv'
    <2>1. status[h][v] = "Challenged"
        BY <1>6 DEF AdjudicateSlashed
    <2>2. /\ MathMin(lockedStakeOf[v], MIN_STAKE) = MIN_STAKE
          /\ MathMin(stakeOf[v], MIN_STAKE) = MIN_STAKE
        BY <2>1, CoveredDispute
    <2>3. StakeTypeOK'
        BY <1>6, <2>1, <2>2, CoveredDispute
        DEF StakeInv, StakeTypeOK, AdjudicateSlashed, AttestationStatus
    <2>4. LockAccounting'
        BY <1>5, <1>6, <2>1, <2>2
        DEF StakeInv, StakeTypeOK, AdjudicateSlashed, LockAccounting
    <2> QED BY <2>3, <2>4 DEF StakeInv
<1>7. ASSUME NEW v \in Stakers, NEW h \in Hashes, AdjudicateHonest(h, v)
      PROVE  StakeInv'
    <2>1. status[h][v] = "Challenged"
        BY <1>7 DEF AdjudicateHonest
    <2>2. MathMin(lockedStakeOf[v], MIN_STAKE) = MIN_STAKE
        BY <2>1, CoveredDispute
    <2>3. StakeTypeOK'
        BY <1>7, <2>1, <2>2, CoveredDispute
        DEF StakeInv, StakeTypeOK, AdjudicateHonest, AttestationStatus, ledger
    <2>4. LockAccounting'
        BY <1>5, <1>7, <2>1, <2>2
        DEF StakeInv, StakeTypeOK, AdjudicateHonest, LockAccounting, ledger
    <2> QED BY <2>3, <2>4 DEF StakeInv
<1>8. CASE Tick
    <2>1. StakeTypeOK'
        BY <1>8 DEF StakeInv, StakeTypeOK, Tick, ledger
    <2>2. LockAccounting'
        BY <1>8, StatusUnchanged DEF StakeInv, Tick, ledger, LockAccounting
    <2> QED BY <2>1, <2>2 DEF StakeInv
<1>9. CASE UNCHANGED stakeVars
    <2>1. StakeTypeOK'
        BY <1>9 DEF StakeInv, StakeTypeOK, stakeVars
    <2>2. LockAccounting'
        BY <1>9, StatusUnchanged DEF StakeInv, stakeVars, LockAccounting
    <2> QED BY <2>1, <2>2 DEF StakeInv
<1> QED BY <1>1, <1>2, <1>3, <1>4, <1>6, <1>7, <1>8, <1>9 DEF StakeNext

\* The inductive invariant holds in every reachable state.
THEOREM StakeAlwaysInv == StakeSpec => []StakeInv
BY StakeInitInv, StakeNextInv, PTL DEF StakeSpec

\* Type correctness: no stake, lock or counter ever goes negative.
THEOREM StakeTypeCorrect == StakeSpec => []StakeTypeOK
<1>1. StakeInv => StakeTypeOK
    BY DEF StakeInv
<1> QED BY <1>1, StakeAlwaysInv, PTL

\* The lock and dispute counters always agree with the attestations.
THEOREM LocksAccounted == StakeSpec => []LockAccounting
<1>1. StakeInv => LockAccounting
    BY DEF StakeInv
<1> QED BY <1>1, StakeAlwaysInv, PTL

\* Each dispute is open, so that its MIN_STAKE is locked and staked.
LEMMA CountersCover == StakeInv => DisputesAreCovered
<1> SUFFICES ASSUME StakeInv, NEW v \in Stakers, NEW h \in Disputed(v)
             PROVE  /\ MathMin(lockedStakeOf[v], MIN_STAKE) = MIN_STAKE
                    /\ MathMin(stakeOf[v], MIN_STAKE) = MIN_STAKE
                    /\ pendingChallengesOf[v] > 0
                    /\ stakeOf[v] - MIN_STAKE >= lockedStakeOf[v] - MIN_STAKE
    BY DEF DisputesAreCovered
<1>1. h \in Hashes /\ status[h][v] = "Challenged"
    BY DEF Disputed
<1>2. /\ stakeOf[v] \in Nat /\ lockedStakeOf[v] \in Nat
      /\ lockedStakeOf[v] <= stakeOf[v]
    BY DEF StakeInv, StakeTypeOK, LockAccounting
<1>3. stakeOf[v] - MIN_STAKE >= lockedStakeOf[v] - MIN_STAKE
    BY <1>2, ConstantsAssumption
<1> QED BY <1>1, <1>3, CoveredDispute

\* A ruling never clips the slashed or the unlocked amount and never reverts
\* for want of stake.
THEOREM DisputesCovered == StakeSpec => []DisputesAreCovered
BY CountersCover, StakeAlwaysInv, PTL

LEMMA StakeInitSolvent == StakeInit => Solvency
<1>1. SumFunction([a \in Stakers |-> 0]) = 0
    BY ConstantsAssumption, SumUpdate
<1> QED BY <1>1 DEF StakeInit, Solvency

\* Whatever moves stake moves as many tokens.
LEMMA StakeMovesTokens ==
    ASSUME StakeInv, StakeInv', Solvency, [StakeNext]_stakeVars
    PROVE  Solvency'
<1>0. stakeOf \in [Stakers -> Nat] /\ stakeOf' \in [Stakers -> Nat] /\ held \in Nat
    BY DEF StakeInv, StakeTypeOK
<1>1. ASSUME NEW v \in Stakers, NEW d \in Int, held' = held + d,
             stakeOf' = [stakeOf EXCEPT ![v] = @ + d]
      PROVE  Solvency'
    <2>1. /\ stakeOf'[v] = stakeOf[v] + d /\ stakeOf[v] \in Nat
          /\ \A y \in Stakers \ {v} : stakeOf'[y] = stakeOf[y]
        BY <1>0, <1>1
    <2>2. SumFunction(stakeOf') = SumFunction(stakeOf) - stakeOf[v] + stakeOf'[v]
        BY <1>0, <2>1, ConstantsAssumption, SumUpdate
    <2>3. SumFunction(stakeOf) \in Nat
        BY <1>0, ConstantsAssumption, SumUpdate
    <2> QED BY <1>0, <1>1, <2>1, <2>2, <2>3 DEF Solvency
<1>2. ASSUME NEW a \in Stakers, NEW n \in 1..Supply, Stake(a, n)
      PROVE  Solvency'
    <2>1. n \in Int /\ held' = held + n /\ stakeOf' = [stakeOf EXCEPT ![a] = @ + n]
        BY <1>2, ConstantsAssumption DEF Stake
    <2> QED BY <1>1, <2>1
<1>3. ASSUME NEW a \in Stakers, NEW n \in 1..(Supply * Cardinality(Stakers)),
             Withdraw(a, n)
      PROVE  Solvency'
    <2>1. n \in Int /\ -n \in Int /\ held' = held + (-n)
        BY <1>0, <1>3 DEF Withdraw, Release
    <2>2. stakeOf' = [stakeOf EXCEPT ![a] = @ + (-n)]
        BY <1>0, <1>3 DEF Withdraw, Release
    <2> QED BY <1>1, <2>1, <2>2
<1>4. ASSUME NEW v \in Stakers, NEW h \in Hashes, AdjudicateSlashed(h, v)
      PROVE  Solvency'
    <2> DEFINE n == MathMin(stakeOf[v], MIN_STAKE)
    <2>1. n \in Int /\ -n \in Int
        BY <1>0, ConstantsAssumption DEF MathMin
    <2>2. held' = held + (-n) /\ stakeOf' = [stakeOf EXCEPT ![v] = @ + (-n)]
        BY <1>0, <1>4, <2>1 DEF AdjudicateSlashed
    <2> HIDE DEF n
    <2> QED BY <1>1, <2>1, <2>2
<1>5. ASSUME held' = held, stakeOf' = stakeOf PROVE Solvency'
    BY <1>5 DEF Solvency
<1> QED BY <1>2, <1>3, <1>4, <1>5
    DEF StakeNext, ValidateAttestation, Lock, Challenge, AdjudicateHonest, Tick,
        ledger, stakeVars

\* The contract holds exactly the stake it owes, so a withdrawal or a slash never
\* fails for lack of tokens.
THEOREM StakeIsBacked == StakeSpec => []Solvency
<1>1. StakeInv /\ StakeInv' /\ Solvency /\ [StakeNext]_stakeVars => Solvency'
    BY StakeMovesTokens
<1> QED BY <1>1, StakeInitSolvent, StakeAlwaysInv, PTL DEF StakeSpec

-------------------------------------------------------------------------------

\* Withdraw is the only other way down and it wants a zero dispute counter,
\* which the inductive invariant excludes while a dispute is open.
THEOREM DisputeHoldsStake == StakeSpec => StakeHeldDuringDispute
<1> DEFINE Lost(v) == \E h \in Disputed(v) :
                         /\ status'[h][v] = "ResolvedSlashed"
                         /\ stakeOf'[v] = stakeOf[v] - MIN_STAKE
           Held == \A v \in Stakers :
                      Disputed(v) # {} /\ stakeOf'[v] < stakeOf[v] => Lost(v)
<1>1. StakeInv /\ [StakeNext]_stakeVars => [Held]_stakeVars
    <2> SUFFICES ASSUME StakeInv, StakeNext, NEW v \in Stakers,
                        Disputed(v) # {}, stakeOf'[v] < stakeOf[v]
                 PROVE  Lost(v)
        OBVIOUS
    <2>1. pendingChallengesOf[v] # 0 /\ stakeOf[v] \in Nat
        BY FiniteAttestations, FS_EmptySet DEF StakeInv, StakeTypeOK, LockAccounting
    <2>2. ASSUME NEW a \in Stakers, NEW n \in 1..Supply, Stake(a, n)
          PROVE  FALSE
        BY <2>1, <2>2, ConstantsAssumption DEF StakeInv, StakeTypeOK, Stake
    <2>3. ASSUME NEW a \in Stakers, NEW n, Withdraw(a, n) PROVE FALSE
        BY <2>1, <2>3 DEF StakeInv, StakeTypeOK, Withdraw, Release
    <2>4. ASSUME NEW u \in Stakers, NEW h \in Hashes, AdjudicateSlashed(h, u)
          PROVE  Lost(v)
        <3>1. u = v
            BY <2>1, <2>4 DEF StakeInv, StakeTypeOK, AdjudicateSlashed
        <3>2. h \in Disputed(v)
            BY <2>4, <3>1 DEF AdjudicateSlashed, Disputed
        <3>3. MathMin(stakeOf[v], MIN_STAKE) = MIN_STAKE
            BY <3>2, CoveredDispute DEF Disputed
        <3>4. /\ status'[h][v] = "ResolvedSlashed"
              /\ stakeOf'[v] = stakeOf[v] - MIN_STAKE
            BY <2>4, <3>1, <3>3 DEF StakeInv, StakeTypeOK, AdjudicateSlashed
        <3> QED BY <3>2, <3>4
    <2>5. stakeOf' # stakeOf
        BY <2>1
    <2> QED BY <2>2, <2>3, <2>4, <2>5
        DEF StakeNext, ValidateAttestation, Lock, Challenge, AdjudicateHonest, Tick,
            ledger
<1> QED BY <1>1, StakeAlwaysInv, PTL DEF StakeSpec, StakeHeldDuringDispute

\* Past its window a Validated attestation can be neither challenged nor
\* released, so its MIN_STAKE is still under the lock after any step.
LEMMA LateStakeKept ==
    ASSUME StakeInv, StakeInv', StakeNext \/ UNCHANGED registryVars,
           NEW v \in Stakers, NEW h \in Hashes,
           status[h][v] = "Validated",
           now > validatedAt[h][v] + CHALLENGE_WINDOW
    PROVE  status'[h][v] = "Validated" /\ stakeOf'[v] >= MIN_STAKE
<1>1. status'[h][v] = "Validated"
    <2>1. ASSUME NEW a \in Stakers, NEW k \in Hashes, ValidateAttestation(a, k)
          PROVE  status'[h][v] = "Validated"
        BY <2>1 DEF StakeInv, StakeTypeOK, ValidateAttestation, Lock
    <2>2. ASSUME NEW c \in Stakers, NEW a \in Stakers, NEW k \in Hashes,
                 Challenge(c, k, a)
          PROVE  status'[h][v] = "Validated"
        <3>1. ~(k = h /\ a = v)
            BY <2>2, ConstantsAssumption DEF Challenge, StakeInv, StakeTypeOK
        <3> QED BY <2>2, <3>1 DEF StakeInv, StakeTypeOK, Challenge
    <2>3. ASSUME NEW a \in Stakers, NEW k \in Hashes,
                 AdjudicateSlashed(k, a) \/ AdjudicateHonest(k, a)
          PROVE  status'[h][v] = "Validated"
        <3>1. ~(k = h /\ a = v)
            BY <2>3 DEF AdjudicateSlashed, AdjudicateHonest
        <3>2. PICK s : status' = [status EXCEPT ![k][a] = s]
            BY <2>3 DEF AdjudicateSlashed, AdjudicateHonest
        <3>3. status'[h][v] = status[h][v]
            BY <3>1, <3>2 DEF StakeInv, StakeTypeOK
        <3> QED BY <3>3
    <2>4. ASSUME status' = status PROVE status'[h][v] = "Validated"
        BY <2>4
    <2> QED BY <2>1, <2>2, <2>3, <2>4 DEF StakeNext, Stake, Withdraw, Release, Tick, registryVars
<1>2. Cardinality(Open(v)') \in Nat /\ Cardinality(Open(v)') > 0
    <2>1. IsFiniteSet(Open(v)')
        BY ConstantsAssumption, FS_Subset DEF Open
    <2>2. h \in Open(v)'
        BY <1>1 DEF Open
    <2> QED BY <2>1, <2>2, FS_EmptySet, FS_CardinalityType
<1>3. LockValue(Cardinality(Open(v)')) >= MIN_STAKE
    BY <1>2, LockValueFacts
<1>4. /\ lockedStakeOf'[v] = LockValue(Cardinality(Open(v)'))
      /\ lockedStakeOf'[v] <= stakeOf'[v]
      /\ lockedStakeOf'[v] \in Nat /\ stakeOf'[v] \in Nat
    BY DEF StakeInv, StakeTypeOK, LockAccounting, LockValue
<1> QED BY <1>1, <1>3, <1>4, ConstantsAssumption

\* What nobody challenged in time stays Validated, with its MIN_STAKE locked.
THEOREM LateStakeStaysLocked == StakeSpec => UnchallengedStakeStaysLocked
<1>1. StakeInv /\ StakeInv' /\ [StakeNext]_stakeVars =>
        [\A v \in Stakers, h \in Hashes :
           status[h][v] = "Validated" /\ now > validatedAt[h][v] + CHALLENGE_WINDOW
             => /\ status'[h][v] = "Validated"
                /\ stakeOf'[v] >= MIN_STAKE]_stakeVars
    BY LateStakeKept
<1> QED BY <1>1, StakeAlwaysInv, PTL DEF StakeSpec, UnchallengedStakeStaysLocked

-------------------------------------------------------------------------------
(* The run of the two together: a behaviour moves one, and the other stays as  *)
(* it began.                                                                   *)

PolicyStarts ==
    val = NoValidator /\ hook = [installed |-> FALSE, bound |-> FALSE] /\ ~executing

PolicyAndStakeInv ==
    /\ subject \in {"policy", "stake"}
    /\ subject = "policy" => PolicyInv /\ WindowsSplit /\ DayBound
    /\ subject = "stake" => PolicyStarts
    /\ StakeInv
    /\ Solvency

LEMMA PolicyAndStakeInitInv == MCInit => PolicyAndStakeInv
<1>1. Init => PolicyInv /\ WindowsSplit /\ DayBound /\ PolicyStarts
    BY PolicyInitInv DEF Init, NoValidator, WindowsSplit, DayBound, PolicyStarts
<1> QED BY <1>1, StakeInitInv, StakeInitSolvent DEF MCInit, PolicyAndStakeInv

\* The registry's invariant does not depend on the time.
LEMMA RegistryStands ==
    ASSUME StakeInv, Solvency, UNCHANGED registryVars, now' \in Nat
    PROVE  StakeInv' /\ Solvency'
<1>1. StakeTypeOK'
    BY DEF registryVars, StakeInv, StakeTypeOK
<1>2. LockAccounting'
    BY StatusUnchanged DEF registryVars, StakeInv, LockAccounting
<1> QED BY <1>1, <1>2 DEF registryVars, StakeInv, Solvency

LEMMA PolicyAndStakeNextInv ==
    ASSUME PolicyAndStakeInv, [MCNext]_allVars
    PROVE  PolicyAndStakeInv'
<1>1. CASE subject = "policy" /\ subject' = subject /\ [Next]_vars /\ UNCHANGED registryVars
    <2>1. PolicyInv' /\ WindowsSplit' /\ DayBound'
        BY <1>1, PolicyNextInv, NextDays DEF PolicyAndStakeInv
    <2>2. now' \in Nat
        BY <2>1, FacetAssumption DEF PolicyInv, TypeOK
    <2> QED BY <1>1, <2>1, <2>2, RegistryStands DEF PolicyAndStakeInv
<1>2. CASE subject = "stake" /\ subject' = subject /\ [StakeNext]_stakeVars /\ UNCHANGED policyVars
    <2>1. StakeInv' /\ Solvency'
        BY <1>2, StakeNextInv, StakeMovesTokens DEF PolicyAndStakeInv
    <2> QED BY <1>2, <2>1 DEF PolicyAndStakeInv, PolicyStarts, policyVars
<1>3. CASE UNCHANGED allVars
    <2>1. UNCHANGED vars /\ UNCHANGED registryVars /\ UNCHANGED stakeVars /\ UNCHANGED policyVars
        BY <1>3 DEF allVars, policyVars, registryVars, vars, facetVars, auditVars, pauseVars,
                    moduleVars, bundleVars, history, stakeVars
    <2>2. subject' = subject
        BY <1>3 DEF allVars
    <2> QED BY <1>1, <1>2, <2>1, <2>2 DEF PolicyAndStakeInv
<1> QED BY <1>1, <1>2, <1>3 DEF MCNext, PolicyAndStakeInv

\* Both invariants hold in every state of the run's combined specification.
THEOREM PolicyAndStakeAlwaysInv == MCSpec => []PolicyAndStakeInv
<1>1. PolicyAndStakeInv /\ [MCNext]_allVars => PolicyAndStakeInv'
    BY PolicyAndStakeNextInv
<1> QED BY PolicyAndStakeInitInv, <1>1, PTL DEF MCSpec

\* In the run as it is checked, for every value of its constants: the budgets and
\* the bound of a day hold, the registry's counters, disputes and stake agree.
THEOREM PolicyAndStakeHold ==
    MCSpec => [](BudgetHolds /\ DayBound /\ LockAccounting /\ DisputesAreCovered /\ Solvency)
<1>1. PolicyStarts => BudgetHolds /\ DayBound
    BY DEF PolicyStarts, NoValidator, BudgetHolds, DayBound
<1>2. PolicyInv => BudgetHolds
    BY DEF PolicyInv
<1>3. StakeInv => LockAccounting /\ DisputesAreCovered
    BY CountersCover DEF StakeInv
<1>4. PolicyAndStakeInv =>
        BudgetHolds /\ DayBound /\ LockAccounting /\ DisputesAreCovered /\ Solvency
    BY <1>1, <1>2, <1>3 DEF PolicyAndStakeInv
<1> QED BY <1>4, PolicyAndStakeAlwaysInv, PTL

\* In that run nothing executes under a revoked policy while the hook is installed,
\* and unchallenged stake stays locked.
THEOREM PolicyAndStakeStep == MCSpec => NoExecutionAfterRevoke /\ UnchallengedStakeStaysLocked
<1>1. PolicyAndStakeInv /\ [MCNext]_allVars => [Execute /\ hook.installed => ~revoked]_vars
    <2>1. PolicyInv /\ [Next]_vars => [Execute /\ hook.installed => ~revoked]_vars
        BY RevokedIsRefused
    <2>2. PolicyStarts => ~Execute
        BY DEF PolicyStarts, Execute
    <2>3. UNCHANGED allVars => UNCHANGED vars
        BY DEF allVars, policyVars, vars, facetVars, auditVars, pauseVars, moduleVars,
               bundleVars, history
    <2> QED BY <2>1, <2>2, <2>3 DEF MCNext, PolicyAndStakeInv
<1>2. PolicyAndStakeInv /\ PolicyAndStakeInv' /\ [MCNext]_allVars =>
        [\A v \in Stakers, h \in Hashes :
           status[h][v] = "Validated" /\ now > validatedAt[h][v] + CHALLENGE_WINDOW
             => /\ status'[h][v] = "Validated"
                /\ stakeOf'[v] >= MIN_STAKE]_stakeVars
    <2>1. UNCHANGED allVars => UNCHANGED registryVars
        BY DEF allVars
    <2> QED BY <2>1, LateStakeKept DEF MCNext, PolicyAndStakeInv
<1> QED BY <1>1, <1>2, PolicyAndStakeAlwaysInv, PTL
           DEF MCSpec, NoExecutionAfterRevoke, UnchallengedStakeStaysLocked
===============================================================================
