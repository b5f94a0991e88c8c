------------------------ MODULE EmergencyShutdownProofs ------------------------
(***************************************************************************)
(* Proofs about EmergencyShutdown for any set of components, any batch     *)
(* size and any timelock.  RegistryIndexed is inductive by the lemmas of   *)
(* DataLemmas; ResumeBelongsToShutdown becomes so once it is known  *)
(* that a shutdown never begins in the future.                             *)
(***************************************************************************)
EXTENDS EmergencyShutdown, DataLemmas

ShutdownIsPast == shutdownAt <= now

IInv == TypeOK /\ RegistryIndexed /\ ResumeBelongsToShutdown /\ ShutdownIsPast

USE ShutdownAssumption, MaxTimeAssumption

\* The inductive invariant holds initially.
LEMMA InitIInv == Init => IInv
<1> SUFFICES ASSUME Init PROVE IInv
    OBVIOUS
<1>1. TypeOK
    <2>1. components \in Seq(Components) /\ index1 \in [Components -> Nat]
        BY DEF Init
    <2>2. /\ registered \in [Components -> BOOLEAN] /\ paused \in [Components -> BOOLEAN]
          /\ isPauser \in [Components -> BOOLEAN] /\ nftExists \in [Components -> BOOLEAN]
        BY Zenon DEF Init
    <2>3. /\ now \in Nat \ {0} /\ pendingResumeAt \in Nat
          /\ shutdownAt \in Nat /\ proposedAt \in Nat
        BY DEF Init
    <2>4. registrars \subseteq Accounts /\ liquidator \in Accounts \cup {NoAccount}
        BY DEF Init
    <2>5. globalShutdown \in BOOLEAN
        BY Zenon DEF Init
    <2> QED BY <2>1, <2>2, <2>3, <2>4, <2>5, Zenon DEF TypeOK
<1>2. RegistryIndexed
    BY DEF Init, RegistryIndexed, IsIndexed
<1>3. ResumeBelongsToShutdown /\ ShutdownIsPast
    BY DEF Init, ResumeBelongsToShutdown, ShutdownIsPast
<1> QED BY <1>1, <1>2, <1>3 DEF IInv

-------------------------------------------------------------------------------
\* A step that leaves the registry alone leaves RegistryIndexed alone.
LEMMA RegistryUntouched ==
    RegistryIndexed /\ UNCHANGED registry => RegistryIndexed'
BY DEF registry, RegistryIndexed, IsIndexed

\* So do the facts about the shutdown when neither it nor the clock moves.
LEMMA ClockUntouched ==
    ResumeBelongsToShutdown /\ ShutdownIsPast
      /\ UNCHANGED <<now, globalShutdown, pendingResumeAt, history>>
      => ResumeBelongsToShutdown' /\ ShutdownIsPast'
BY DEF history, ResumeBelongsToShutdown, ShutdownIsPast

\* registerComponent, by PushKeepsIndex.
LEMMA RegisterStep ==
    ASSUME IInv, NEW s \in Accounts \cup {Owner}, NEW c \in Components,
           RegisterComponent(s, c)
    PROVE  IInv'
<1>1. /\ components \in Seq(Components) /\ index1 \in [Components -> Nat]
      /\ IsIndexed(components, index1) /\ index1[c] = 0
    BY DEF IInv, TypeOK, RegistryIndexed, RegisterComponent
<1>2. /\ components' \in Seq(Components)
      /\ index1' \in [Components -> Nat]
      /\ IsIndexed(components', index1')
      /\ Len(components') = Len(components) + 1
      /\ \A y \in Components : index1'[y] # 0 <=> index1[y] # 0 \/ y = c
    <2>1. components' = PushedList(components, c) /\ index1' = PushedIndex(components, index1, c)
        BY DEF RegisterComponent
    <2>2. /\ PushedList(components, c) \in Seq(Components)
          /\ PushedIndex(components, index1, c) \in [Components -> Nat]
          /\ IsIndexed(PushedList(components, c), PushedIndex(components, index1, c))
          /\ Len(PushedList(components, c)) = Len(components) + 1
          /\ \A y \in Components :
                PushedIndex(components, index1, c)[y] # 0 <=> index1[y] # 0 \/ y = c
        BY <1>1, PushKeepsIndex, SMTT(30)
    <2> QED BY ONLY <2>1, <2>2
<1>3. registered' \in [Components -> BOOLEAN]
      /\ \A y \in Components : registered'[y] <=> registered[y] \/ y = c
    BY Zenon DEF IInv, TypeOK, RegisterComponent
<1>4. \A y \in Components : registered'[y] <=> index1'[y] # 0
    BY <1>2, <1>3, Zenon DEF IInv, RegistryIndexed
<1>5. Len(components') <= MAX_BATCH
    BY <1>1, <1>2 DEF RegisterComponent
<1>6. RegistryIndexed'
    BY <1>2, <1>4, <1>5 DEF RegistryIndexed
<1>7. TypeOK'
    BY <1>2, <1>3 DEF IInv, TypeOK, RegisterComponent, coordinator, fleet, history
<1>8. ResumeBelongsToShutdown' /\ ShutdownIsPast'
    BY ClockUntouched DEF IInv, RegisterComponent, coordinator
<1> QED BY <1>6, <1>7, <1>8 DEF IInv

\* unregisterComponent, by PopKeepsIndex.
LEMMA UnregisterStep ==
    ASSUME IInv, NEW c \in Components, UnregisterComponent(c)
    PROVE  IInv'
<1>1. /\ components \in Seq(Components) /\ index1 \in [Components -> Nat]
      /\ IsIndexed(components, index1) /\ index1[c] # 0
    BY DEF IInv, TypeOK, RegistryIndexed, UnregisterComponent
<1>2. /\ components' \in Seq(Components)
      /\ index1' \in [Components -> Nat]
      /\ IsIndexed(components', index1')
      /\ Len(components') = Len(components) - 1
      /\ \A y \in Components : index1'[y] # 0 <=> index1[y] # 0 /\ y # c
    <2>1. /\ components' = PoppedList(components, index1, c)
          /\ index1' = PoppedIndex(components, index1, c)
        BY DEF UnregisterComponent
    <2>2. /\ PoppedList(components, index1, c) \in Seq(Components)
          /\ PoppedIndex(components, index1, c) \in [Components -> Nat]
          /\ IsIndexed(PoppedList(components, index1, c), PoppedIndex(components, index1, c))
          /\ Len(PoppedList(components, index1, c)) = Len(components) - 1
          /\ \A y \in Components :
                PoppedIndex(components, index1, c)[y] # 0 <=> index1[y] # 0 /\ y # c
        BY <1>1, PopKeepsIndex, SMTT(30)
    <2> QED BY ONLY <2>1, <2>2
<1>3. registered' \in [Components -> BOOLEAN]
      /\ \A y \in Components : registered'[y] <=> registered[y] /\ y # c
    BY Zenon DEF IInv, TypeOK, UnregisterComponent
<1>4. \A y \in Components : registered'[y] <=> index1'[y] # 0
    BY <1>2, <1>3, Zenon DEF IInv, RegistryIndexed
<1>5. Len(components') <= MAX_BATCH
    BY <1>1, <1>2 DEF IInv, RegistryIndexed
<1>6. RegistryIndexed'
    BY <1>2, <1>4, <1>5 DEF RegistryIndexed
<1>7. TypeOK'
    BY <1>2, <1>3 DEF IInv, TypeOK, UnregisterComponent, coordinator, fleet, history
<1>8. ResumeBelongsToShutdown' /\ ShutdownIsPast'
    BY ClockUntouched DEF IInv, UnregisterComponent, coordinator
<1> QED BY <1>6, <1>7, <1>8 DEF IInv

\* What _pauseRange leaves is again a flag per component.
LEMMA PausedAfterType ==
    ASSUME TypeOK, NEW from, NEW to
    PROVE  PausedAfter(from, to) \in [Components -> BOOLEAN]
<1>1. \A c \in Components :
        (paused[c] \/ (Obeys(c) /\ \E k \in (from + 1)..to : components[k] = c))
          \in BOOLEAN
    BY Zenon DEF TypeOK
<1> QED BY <1>1, Zenon DEF PausedAfter

\* The calls of the shutdown and of the resume, one by one.
LEMMA FullShutdownStep == IInv /\ FullShutdown => IInv'
<1> SUFFICES ASSUME IInv, FullShutdown PROVE IInv'
    OBVIOUS
<1>1. paused' \in [Components -> BOOLEAN]
    BY PausedAfterType DEF IInv, FullShutdown
<1>2. TypeOK'
    BY <1>1 DEF IInv, TypeOK, FullShutdown, Activate, registry
<1>3. RegistryIndexed'
    BY RegistryUntouched DEF IInv, FullShutdown
<1>4. ResumeBelongsToShutdown' /\ ShutdownIsPast'
    BY DEF IInv, TypeOK, FullShutdown, Activate, ResumeBelongsToShutdown, ShutdownIsPast
<1> QED BY <1>2, <1>3, <1>4 DEF IInv

\* emergencyShutdownRange, inside and outside of a shutdown.
LEMMA ShutdownRangeStep ==
    ASSUME IInv, NEW from \in 0..MAX_BATCH, NEW to \in 0..MAX_BATCH,
           ShutdownRange(from, to)
    PROVE  IInv'
<1>1. paused' \in [Components -> BOOLEAN]
    BY PausedAfterType DEF IInv, ShutdownRange
<1>2. RegistryIndexed'
    BY RegistryUntouched DEF IInv, ShutdownRange
<1>3. CASE globalShutdown
    <2>1. UNCHANGED <<now, globalShutdown, pendingResumeAt, history>>
        BY <1>3 DEF ShutdownRange
    <2>2. TypeOK'
        BY <1>1, <2>1 DEF IInv, TypeOK, ShutdownRange, registry, history
    <2> QED BY <1>2, <2>1, <2>2, ClockUntouched DEF IInv
<1>4. CASE ~globalShutdown
    <2>1. Activate
        BY <1>4 DEF ShutdownRange
    <2>2. TypeOK'
        BY <1>1, <2>1 DEF IInv, TypeOK, ShutdownRange, Activate, registry
    <2>3. ResumeBelongsToShutdown' /\ ShutdownIsPast'
        BY <2>1 DEF IInv, TypeOK, ShutdownRange, Activate, ResumeBelongsToShutdown,
                    ShutdownIsPast
    <2> QED BY <1>2, <2>2, <2>3 DEF IInv
<1> QED BY <1>3, <1>4

\* proposeResume starts the timelock now, after the shutdown began.
LEMMA ProposeStep == IInv /\ ProposeResume => IInv'
<1> SUFFICES ASSUME IInv, ProposeResume PROVE IInv'
    OBVIOUS
<1>1. TypeOK'
    BY DEF IInv, TypeOK, ProposeResume, registry, fleet
<1>2. RegistryIndexed'
    BY RegistryUntouched DEF IInv, ProposeResume
<1>3. ResumeBelongsToShutdown' /\ ShutdownIsPast'
    BY DEF IInv, TypeOK, ProposeResume, ResumeBelongsToShutdown, ShutdownIsPast
<1> QED BY <1>1, <1>2, <1>3 DEF IInv

\* executeResume uses the pending resume up.
LEMMA ExecuteStep == IInv /\ ExecuteResume => IInv'
<1> SUFFICES ASSUME IInv, ExecuteResume PROVE IInv'
    OBVIOUS
<1>1. \A c \in Components :
        (paused[c] /\ ~(Obeys(c) /\ \E k \in DOMAIN components : components[k] = c))
          \in BOOLEAN
    BY Zenon DEF IInv, TypeOK
<1>2. paused' \in [Components -> BOOLEAN]
    BY <1>1, Zenon DEF ExecuteResume, Reopen
<1>3. TypeOK'
    BY <1>2 DEF IInv, TypeOK, ExecuteResume, Reopen, registry, history
<1>4. RegistryIndexed'
    BY RegistryUntouched DEF IInv, ExecuteResume, Reopen
<1>5. ResumeBelongsToShutdown' /\ ShutdownIsPast'
    BY DEF IInv, ExecuteResume, Reopen, history, ResumeBelongsToShutdown, ShutdownIsPast
<1> QED BY <1>3, <1>4, <1>5 DEF IInv

\* cancelResume.
LEMMA CancelStep == IInv /\ CancelResume => IInv'
<1> SUFFICES ASSUME IInv, CancelResume PROVE IInv'
    OBVIOUS
<1>1. TypeOK'
    BY DEF IInv, TypeOK, CancelResume, registry, fleet, history
<1>2. RegistryIndexed'
    BY RegistryUntouched DEF IInv, CancelResume
<1>3. ResumeBelongsToShutdown' /\ ShutdownIsPast'
    BY DEF IInv, CancelResume, history, ResumeBelongsToShutdown, ShutdownIsPast
<1> QED BY <1>1, <1>2, <1>3 DEF IInv

\* Roles, the vaults' own owners and the clock.
OtherStep ==
    \/ \E a \in Accounts, active \in BOOLEAN : SetRegistrar(a, active)
    \/ \E a \in Accounts, active \in BOOLEAN : SetLiquidator(a, active)
    \/ \E c \in Components : VaultPause(c)
    \/ \E c \in Components : VaultUnpause(c)
    \/ \E c \in Components : VaultSetPauser(c)
    \/ \E c \in Components : BurnNFT(c)
    \/ Tick
    \/ UNCHANGED vars

\* Steps that touch neither the registry nor the shutdown.
LEMMA OtherSteps == IInv /\ OtherStep => IInv'
<1> SUFFICES ASSUME IInv, OtherStep PROVE IInv'
    OBVIOUS
<1>1. RegistryIndexed'
    <2>1. UNCHANGED <<components, index1, registered>>
        BY DEF OtherStep, SetRegistrar, SetLiquidator, VaultPause, VaultUnpause,
               VaultSetPauser, BurnNFT, Tick, Advance, vars, registry
    <2> QED BY <2>1 DEF IInv, RegistryIndexed, IsIndexed
<1>2. ResumeBelongsToShutdown' /\ ShutdownIsPast'
    <2>1. /\ UNCHANGED <<globalShutdown, pendingResumeAt, shutdownAt, proposedAt>>
          /\ now' = now \/ now' = now + 1
        BY DEF OtherStep, SetRegistrar, SetLiquidator, VaultPause, VaultUnpause,
               VaultSetPauser, BurnNFT, Tick, Advance, vars, coordinator, history
    <2> QED BY <2>1 DEF IInv, TypeOK, ResumeBelongsToShutdown, ShutdownIsPast
<1>3. TypeOK'
    <2>1. CASE \E a \in Accounts, active \in BOOLEAN : SetRegistrar(a, active)
        BY <2>1 DEF IInv, TypeOK, SetRegistrar, coordinator, fleet, history
    <2>2. CASE \E a \in Accounts, active \in BOOLEAN : SetLiquidator(a, active)
        BY <2>2 DEF IInv, TypeOK, SetLiquidator, registry, fleet, history
    <2>3. CASE \E c \in Components : VaultPause(c)
        BY <2>3 DEF IInv, TypeOK, VaultPause, registry, coordinator, history
    <2>4. CASE \E c \in Components : VaultUnpause(c)
        BY <2>4 DEF IInv, TypeOK, VaultUnpause, registry, coordinator, history
    <2>5. CASE \E c \in Components : VaultSetPauser(c)
        BY <2>5 DEF IInv, TypeOK, VaultSetPauser, registry, coordinator, history
    <2>6. CASE \E c \in Components : BurnNFT(c)
        BY <2>6 DEF IInv, TypeOK, BurnNFT, registry, coordinator, history
    <2>7. CASE Tick
        BY <2>7 DEF IInv, TypeOK, Tick, Advance, registry, coordinator, fleet, history
    <2>8. CASE UNCHANGED vars
        BY <2>8 DEF IInv, TypeOK, vars, registry, coordinator, fleet, history
    <2> QED BY <2>1, <2>2, <2>3, <2>4, <2>5, <2>6, <2>7, <2>8 DEF OtherStep
<1> QED BY <1>1, <1>2, <1>3 DEF IInv

\* Every step preserves the inductive invariant.
LEMMA NextIInv == IInv /\ [Next]_vars => IInv'
<1> SUFFICES ASSUME IInv, [Next]_vars PROVE IInv'
    OBVIOUS
<1>1. ASSUME NEW s \in Accounts \cup {Owner}, NEW c \in Components,
             RegisterComponent(s, c)
      PROVE  IInv'
    BY <1>1, RegisterStep
<1>2. ASSUME NEW c \in Components, UnregisterComponent(c) PROVE IInv'
    BY <1>2, UnregisterStep
<1>3. ASSUME NEW from \in 0..MAX_BATCH, NEW to \in 0..MAX_BATCH, ShutdownRange(from, to)
      PROVE  IInv'
    BY <1>3, ShutdownRangeStep
<1> QED BY <1>1, <1>2, <1>3, FullShutdownStep, ProposeStep, ExecuteStep, CancelStep,
           OtherSteps DEF Next, OtherStep

-------------------------------------------------------------------------------

\* The inductive invariant holds in every reachable state.
THEOREM InductiveInvariant == Spec => []IInv
BY InitIInv, NextIInv, PTL DEF Spec

\* Type correctness of the coordinator and of the vaults' flags.
THEOREM TypeCorrect == Spec => []TypeOK
<1>1. IInv => TypeOK
    BY DEF IInv
<1> QED BY <1>1, InductiveInvariant, PTL

\* Array, positions and flags of the registry agree in every reachable state.
THEOREM RegistryCorrect == Spec => []RegistryIndexed
<1>1. IInv => RegistryIndexed
    BY DEF IInv
<1> QED BY <1>1, InductiveInvariant, PTL

\* A pending resume always belongs to the shutdown in force.
THEOREM ResumeBelongs == Spec => []ResumeBelongsToShutdown
<1>1. IInv => ResumeBelongsToShutdown
    BY DEF IInv
<1> QED BY <1>1, InductiveInvariant, PTL

\* Only executeResume ends a shutdown, and it waits for a resume announced
\* during that very shutdown.
THEOREM ResumeTimelock == Spec => ResumeWaits
<1>1. ASSUME IInv, [Next]_vars, globalShutdown, ~globalShutdown'
      PROVE  now >= proposedAt + TIMELOCK /\ now >= shutdownAt + TIMELOCK
    <2>1. ExecuteResume
        BY <1>1 DEF Next, vars, coordinator, RegisterComponent, SetRegistrar,
               UnregisterComponent, FullShutdown, Activate, ShutdownRange, ProposeResume,
               CancelResume, SetLiquidator, VaultPause, VaultUnpause, VaultSetPauser,
               BurnNFT, Tick, Advance
    <2> QED BY <1>1, <2>1 DEF IInv, TypeOK, ExecuteResume, ResumeBelongsToShutdown
<1>2. IInv /\ [Next]_vars
        => [globalShutdown /\ ~globalShutdown'
              => now >= proposedAt + TIMELOCK /\ now >= shutdownAt + TIMELOCK]_vars
    BY <1>1
<1> QED BY <1>2, InductiveInvariant, PTL DEF Spec, ResumeWaits

\* By the bijection of the registry the loops of shutdown and resume reach
\* exactly the registered vaults.
THEOREM ShutdownMissesNobody == Spec => LoopsMissNobody
<1> DEFINE Reached ==
        \A c \in Components :
            paused'[c] = IF registered[c] /\ Obeys(c) THEN globalShutdown'
                                                      ELSE paused[c]
<1>1. ASSUME IInv
      PROVE  \A c \in Components :
               registered[c] <=> \E k \in 1..Len(components) : components[k] = c
    <2>1. /\ components \in Seq(Components)
          /\ DOMAIN components = 1..Len(components)
          /\ DOMAIN index1 = Components
        BY <1>1 DEF IInv, TypeOK
    <2>2. \A c \in Components : index1[c] # 0
              <=> \E k \in 1..Len(components) : components[k] = c
        BY <1>1, <2>1 DEF IInv, RegistryIndexed, IsIndexed
    <2>3. \A c \in Components : registered[c] <=> index1[c] # 0
        BY <1>1 DEF IInv, RegistryIndexed
    <2> QED BY <2>2, <2>3, Zenon
<1>2. ASSUME IInv, FullShutdown PROVE Reached
    <2>1. globalShutdown' = TRUE
        BY <1>2 DEF FullShutdown, Activate
    <2>2. 1..Len(components) = (0 + 1)..Len(components)
        BY <1>2 DEF IInv, TypeOK
    <2>3. \A c \in Components : paused'[c] =
            (paused[c] \/ (Obeys(c) /\ \E k \in (0 + 1)..Len(components) : components[k] = c))
        BY <1>2, Zenon DEF FullShutdown, PausedAfter
    <2>4. \A c \in Components : paused[c] \in BOOLEAN
        BY <1>2, Zenon DEF IInv, TypeOK
    <2> QED BY <1>1, <1>2, <2>1, <2>2, <2>3, <2>4, Zenon
<1>3. ASSUME IInv, ExecuteResume PROVE Reached
    <2>1. globalShutdown' = FALSE
        BY <1>3 DEF ExecuteResume, Reopen
    <2>2. 1..Len(components) = DOMAIN components
        BY <1>3 DEF IInv, TypeOK
    <2>3. \A c \in Components : paused'[c] =
            (paused[c] /\ ~(Obeys(c) /\ \E k \in DOMAIN components : components[k] = c))
        BY <1>3, Zenon DEF ExecuteResume, Reopen
    <2>4. \A c \in Components : paused[c] \in BOOLEAN
        BY <1>3, Zenon DEF IInv, TypeOK
    <2> QED BY <1>1, <1>3, <2>1, <2>2, <2>3, <2>4, Zenon
<1>4. IInv /\ [Next]_vars => [FullShutdown \/ ExecuteResume => Reached]_vars
    BY <1>2, <1>3
<1> QED BY <1>4, InductiveInvariant, PTL DEF Spec, LoopsMissNobody
===============================================================================
