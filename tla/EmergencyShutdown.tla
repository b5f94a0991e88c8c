--------------------------- MODULE EmergencyShutdown ---------------------------
(***************************************************************************)
(* EmergencyShutdown.sol: the owner pauses every registered component at   *)
(* once and may resume them only TIMELOCK after announcing it.             *)
(*                                                                         *)
(* The components are AgentVaults as far as pausing goes: a component      *)
(* obeys the coordinator while the coordinator is its pauser and its NFT   *)
(* exists (AgentVault.pause reads ownerOf, which reverts for a burned      *)
(* token), and its own owner may pause and unpause it too.  The calls to   *)
(* the components ignore failures, and pausing what is already paused is   *)
(* one, so only the resulting flag is kept.                                *)
(***************************************************************************)
EXTENDS Clock, IndexedList, Integers, FiniteSets

CONSTANTS
    Components,   \* contracts that may be registered
    Accounts,     \* senders other than the owner
    Owner,        \* the coordinator's owner
    NoAccount,    \* address(0)
    TIMELOCK,
    MAX_BATCH

ASSUME ShutdownAssumption ==
    /\ Owner \notin Accounts
    /\ NoAccount \notin Accounts \cup {Owner}
    /\ TIMELOCK \in Nat \ {0}
    /\ MAX_BATCH \in Nat

VARIABLES
    components,       \* _components
    index1,           \* _index1
    registered,       \* _registered
    registrars,       \* _registrars
    globalShutdown,
    pendingResumeAt,  \* 0 when no resume is pending
    liquidator,
    paused,           \* components: Pausable.paused
    isPauser,         \* components: the coordinator is the pauser
    nftExists,        \* components: ownerOf(tokenId) does not revert
    shutdownAt,       \* history: when the current shutdown began
    proposedAt        \* history: the last proposeResume

registry == <<components, index1, registered, registrars>>
coordinator == <<globalShutdown, pendingResumeAt, liquidator>>
fleet == <<paused, isPauser, nftExists>>
history == <<shutdownAt, proposedAt>>
vars == <<now, registry, coordinator, fleet, history>>

Init ==
    /\ now = 1
    /\ components = <<>>
    /\ index1 = [c \in Components |-> 0]
    /\ registered = [c \in Components |-> FALSE]
    /\ registrars = {}
    /\ globalShutdown = FALSE
    /\ pendingResumeAt = 0
    /\ liquidator = NoAccount
    /\ paused = [c \in Components |-> FALSE]
    /\ isPauser = [c \in Components |-> TRUE]
    /\ nftExists = [c \in Components |-> TRUE]
    /\ shutdownAt = 0
    /\ proposedAt = 0

------------------------------------------------------------------------------
(* The registry *)

RegisterComponent(sender, c) ==
    /\ sender = Owner \/ sender \in registrars
    /\ ~registered[c]
    /\ Len(components) < MAX_BATCH
    /\ registered' = [registered EXCEPT ![c] = TRUE]
    /\ components' = PushedList(components, c)
    /\ index1' = PushedIndex(components, index1, c)
    /\ UNCHANGED <<now, registrars, coordinator, fleet, history>>

SetRegistrar(account, active) ==
    /\ registrars' = IF active THEN registrars \cup {account}
                               ELSE registrars \ {account}
    /\ UNCHANGED <<now, components, index1, registered, coordinator, fleet, history>>

UnregisterComponent(c) ==
    /\ registered[c]
    /\ components' = PoppedList(components, index1, c)
    /\ index1' = PoppedIndex(components, index1, c)
    /\ registered' = [registered EXCEPT ![c] = FALSE]
    /\ UNCHANGED <<now, registrars, coordinator, fleet, history>>

------------------------------------------------------------------------------
(* Shutdown and resume *)

Obeys(c) == isPauser[c] /\ nftExists[c]

\* Mutant: the range is taken as half-open in 1-based positions.
PausedShort(from, to) ==
    [c \in Components |->
        paused[c] \/ (Obeys(c) /\ \E k \in (from + 1)..(to - 1) : components[k] = c)]

\* _pauseRange over the positions from + 1 .. to, as the flags it leaves.
PausedAfter(from, to) ==
    [c \in Components |->
        paused[c] \/ (Obeys(c) /\ \E k \in (from + 1)..to : components[k] = c)]

\* A shutdown that begins cancels a resume that was pending.
Activate ==
    /\ globalShutdown' = TRUE
    /\ pendingResumeAt' = 0
    /\ shutdownAt' = now
    /\ UNCHANGED proposedAt

FullShutdown ==
    /\ ~globalShutdown
    /\ Activate
    /\ paused' = PausedAfter(0, Len(components))
    /\ UNCHANGED <<now, registry, liquidator, isPauser, nftExists>>

ShutdownRange(from, to) ==
    /\ from < to
    /\ to <= Len(components)
    /\ IF globalShutdown
         THEN UNCHANGED <<globalShutdown, pendingResumeAt, history>>
         ELSE Activate
    /\ paused' = PausedAfter(from, to)
    /\ UNCHANGED <<now, registry, liquidator, isPauser, nftExists>>

ProposeResume ==
    /\ globalShutdown
    /\ pendingResumeAt' = now + TIMELOCK
    /\ proposedAt' = now
    /\ UNCHANGED <<now, registry, globalShutdown, liquidator, fleet, shutdownAt>>

Reopen ==
    /\ globalShutdown
    /\ globalShutdown' = FALSE
    /\ paused' = [c \in Components |->
                    paused[c] /\ ~(Obeys(c) /\ \E k \in DOMAIN components :
                                                  components[k] = c)]
    /\ UNCHANGED <<now, registry, liquidator, isPauser, nftExists, history>>

\* Mutant: the announcement is not used up.
ResumeKeepingPending ==
    /\ pendingResumeAt # 0
    /\ now >= pendingResumeAt
    /\ UNCHANGED pendingResumeAt
    /\ Reopen

\* Every registered component that obeys is unpaused, whoever had paused it.
ExecuteResume ==
    /\ pendingResumeAt # 0
    /\ now >= pendingResumeAt
    /\ pendingResumeAt' = 0
    /\ Reopen

CancelResume ==
    /\ pendingResumeAt # 0
    /\ pendingResumeAt' = 0
    /\ UNCHANGED <<now, registry, globalShutdown, liquidator, fleet, history>>

------------------------------------------------------------------------------
(* The liquidator role *)

SetLiquidator(account, active) ==
    /\ liquidator' = IF active THEN account
                     ELSE IF liquidator = account THEN NoAccount ELSE liquidator
    /\ UNCHANGED <<now, registry, globalShutdown, pendingResumeAt, fleet, history>>

\* What liquidate checks itself, and what AgentVault.liquidateBaseAsset checks.
LiquidateAllowed(sender, c) ==
    /\ sender = liquidator
    /\ liquidator # NoAccount
    /\ registered[c]
    /\ isPauser[c]

------------------------------------------------------------------------------
(* The components' own owners: AgentVault.pause, unpause, setPauser, and the *)
(* burn of the PositionNFT                                                   *)

VaultPause(c) ==
    /\ nftExists[c] /\ ~paused[c]
    /\ paused' = [paused EXCEPT ![c] = TRUE]
    /\ UNCHANGED <<now, registry, coordinator, isPauser, nftExists, history>>

VaultUnpause(c) ==
    /\ nftExists[c] /\ paused[c]
    /\ paused' = [paused EXCEPT ![c] = FALSE]
    /\ UNCHANGED <<now, registry, coordinator, isPauser, nftExists, history>>

VaultSetPauser(c) ==
    /\ nftExists[c]
    /\ isPauser' = [isPauser EXCEPT ![c] = ~@]
    /\ UNCHANGED <<now, registry, coordinator, paused, nftExists, history>>

BurnNFT(c) ==
    /\ nftExists[c]
    /\ nftExists' = [nftExists EXCEPT ![c] = FALSE]
    /\ UNCHANGED <<now, registry, coordinator, paused, isPauser, history>>

Tick ==
    /\ Advance
    /\ UNCHANGED <<registry, coordinator, fleet, history>>

Next ==
    \/ \E s \in Accounts \cup {Owner}, c \in Components : RegisterComponent(s, c)
    \/ \E a \in Accounts, active \in BOOLEAN : SetRegistrar(a, active)
    \/ \E c \in Components : UnregisterComponent(c)
    \/ FullShutdown
    \/ \E from, to \in 0..MAX_BATCH : ShutdownRange(from, to)
    \/ ProposeResume
    \/ ExecuteResume
    \/ CancelResume
    \/ \E a \in Accounts, active \in BOOLEAN : SetLiquidator(a, active)
    \/ \E c \in Components : VaultPause(c)
    \/ \E c \in Components : VaultUnpause(c)
    \/ \E c \in Components : VaultSetPauser(c)
    \/ \E c \in Components : BurnNFT(c)
    \/ Tick

Spec == Init /\ [][Next]_vars

------------------------------------------------------------------------------

TypeOK ==
    /\ now \in Nat \ {0}
    /\ components \in Seq(Components)
    /\ index1 \in [Components -> Nat]
    /\ registered \in [Components -> BOOLEAN]
    /\ registrars \subseteq Accounts
    /\ globalShutdown \in BOOLEAN
    /\ pendingResumeAt \in Nat
    /\ liquidator \in Accounts \cup {NoAccount}
    /\ paused \in [Components -> BOOLEAN]
    /\ isPauser \in [Components -> BOOLEAN]
    /\ nftExists \in [Components -> BOOLEAN]
    /\ shutdownAt \in Nat
    /\ proposedAt \in Nat

\* Array, positions and flags agree through any mix of registrations and
\* removals, and the array never outgrows one transaction's batch: a loop over
\* the positions reaches every registered component exactly once.
RegistryIndexed ==
    /\ IsIndexed(components, index1)
    /\ \A c \in Components : registered[c] <=> index1[c] # 0
    /\ Len(components) <= MAX_BATCH

\* A pending resume belongs to the shutdown in force: it was announced after
\* that shutdown began and falls due a full TIMELOCK after its announcement.
ResumeBelongsToShutdown ==
    pendingResumeAt # 0
      => /\ globalShutdown
         /\ shutdownAt <= proposedAt
         /\ pendingResumeAt = proposedAt + TIMELOCK

\* The shutdown ends only TIMELOCK after it was announced, and so never sooner
\* than TIMELOCK after it began.
ResumeWaits ==
    [][globalShutdown /\ ~globalShutdown'
         => now >= proposedAt + TIMELOCK /\ now >= shutdownAt + TIMELOCK]_vars

\* The loops over the positions miss nobody: after the full shutdown every
\* registered vault that obeys is paused, and after the resume none is; a vault
\* that is not registered or has taken another pauser is left alone by both.
LoopsMissNobody ==
    [][FullShutdown \/ ExecuteResume =>
         \A c \in Components :
            paused'[c] = IF registered[c] /\ Obeys(c) THEN globalShutdown'
                                                      ELSE paused[c]]_vars
===============================================================================
