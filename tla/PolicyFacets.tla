----------------------------- MODULE PolicyFacets -----------------------------
(***************************************************************************)
(* The Diamond's record of what one agent may do: the policy kept by       *)
(* Erc7715PolicyAuditFacet, the pauses kept by JurisdictionPolicyFacet, and *)
(* the PositionNFT whose holder governs both.                              *)
(*                                                                         *)
(* Every mapping of the source is keyed by tokenId; the module follows one *)
(* token.  A policy is a record with the fields of LibPolicy.Policy that   *)
(* some check reads (permissionContextHash and issuedAt are only stored).  *)
(* The factory's deployAgent mints the NFT and installs the policy in one  *)
(* transaction and is one action here.                                     *)
(***************************************************************************)
EXTENDS Clock, Integers, FiniteSets, Sequences

CONSTANTS
    Accounts,          \* addresses that may hold the NFT or sign operations
    NoOwner,           \* ownerOf reverts: not minted yet, or burned
    Factory,           \* the address pinned by initAudit
    Contracts,         \* call targets
    Selectors,         \* function selectors
    Policies,          \* policies that callers submit
    PresetHashes,      \* values a caller may put in presetHash
    CanonicalPresets,  \* LibRiskPresets.canonicalHashes and PRESET_CUSTOM
    PRESET_CUSTOM,     \* bytes32(0)
    Isos,              \* jurisdictions, as valid ISO codes
    MaxVersion         \* bound: pause/unpause calls

PolicyType ==
    [allowedContracts : SUBSET Contracts, allowedSelectors : SUBSET Selectors,
     maxNotional : Nat, dailyCap : Nat, expiresAt : Nat,
     dailySpent : Nat, dailyWindowStart : Nat, presetHash : PresetHashes]

\* The zeroed storage slot an uninstalled policy reads as.
EmptyPolicy ==
    [allowedContracts |-> {}, allowedSelectors |-> {},
     maxNotional |-> 0, dailyCap |-> 0, expiresAt |-> 0,
     dailySpent |-> 0, dailyWindowStart |-> 0, presetHash |-> PRESET_CUSTOM]

ASSUME FacetAssumption ==
    /\ NoOwner \notin Accounts
    /\ Factory \notin Accounts
    /\ PRESET_CUSTOM \in CanonicalPresets
    /\ CanonicalPresets \subseteq PresetHashes
    /\ Policies \subseteq PolicyType
    /\ MaxTime \in Nat \ {0}
    /\ MaxVersion \in Nat

VARIABLES
    nftOwner,    \* PositionNFT.ownerOf(tokenId), or NoOwner
    installed,   \* AuditStorage.installed[tokenId]
    policy,      \* AuditStorage.policies[tokenId]
    revoked,     \* history: the last policy write was a revocation
    paused,      \* JurisdictionStorage.paused[tokenId]
    version      \* JurisdictionStorage.version[tokenId]

auditVars == <<installed, policy, revoked>>
pauseVars == <<paused, version>>
facetVars == <<now, nftOwner, auditVars, pauseVars>>

FacetInit ==
    /\ now = 1
    /\ nftOwner = NoOwner
    /\ installed = FALSE
    /\ policy = EmptyPolicy
    /\ revoked = FALSE
    /\ paused = [iso \in Isos |-> FALSE]
    /\ version = 0

\* The legacy entry points store PRESET_CUSTOM whatever the caller sent.
Legacy(p) == [p EXCEPT !.presetHash = PRESET_CUSTOM]
Submitted == Policies \cup {Legacy(p) : p \in Policies}

------------------------------------------------------------------------------
(* Erc7715PolicyAuditFacet *)

\* The checks of _installInternal, for a call by the given sender.
InstallAllowed(sender, p) ==
    /\ sender = Factory
    /\ ~installed
    /\ p.presetHash \in CanonicalPresets

\* deployAgent: mint the NFT to its caller and install the agent's policy.
Deploy(owner, p) ==
    /\ nftOwner = NoOwner
    /\ InstallAllowed(Factory, p)
    /\ nftOwner' = owner
    /\ installed' = TRUE
    /\ policy' = p
    /\ UNCHANGED <<now, revoked, pauseVars>>

UpdatePermission(sender, p) ==
    /\ installed
    /\ p.presetHash \in CanonicalPresets
    /\ sender = nftOwner
    /\ policy' = p
    /\ revoked' = FALSE
    /\ UNCHANGED <<now, nftOwner, installed, pauseVars>>

RevokeAllowed(sender) ==
    /\ installed
    /\ sender = nftOwner
    /\ policy.expiresAt = 0 \/ policy.expiresAt > now

RevokePermission(sender) ==
    /\ RevokeAllowed(sender)
    /\ policy' = [policy EXCEPT !.expiresAt = now]
    /\ revoked' = TRUE
    /\ UNCHANGED <<now, nftOwner, installed, pauseVars>>

------------------------------------------------------------------------------
(* JurisdictionPolicyFacet *)

PauseForJurisdiction(sender, iso) ==
    /\ sender = nftOwner
    /\ ~paused[iso]
    /\ version < MaxVersion
    /\ paused' = [paused EXCEPT ![iso] = TRUE]
    /\ version' = version + 1
    /\ UNCHANGED <<now, nftOwner, auditVars>>

UnpauseForJurisdiction(sender, iso) ==
    /\ sender = nftOwner
    /\ paused[iso]
    /\ version < MaxVersion
    /\ paused' = [paused EXCEPT ![iso] = FALSE]
    /\ version' = version + 1
    /\ UNCHANGED <<now, nftOwner, auditVars>>

------------------------------------------------------------------------------
(* PositionNFT: ERC-721 transfer, and burn by the holder or the factory *)

TransferNFT(to) ==
    /\ nftOwner # NoOwner
    /\ nftOwner' = to
    /\ UNCHANGED <<now, auditVars, pauseVars>>

Burn ==
    /\ nftOwner # NoOwner
    /\ nftOwner' = NoOwner
    /\ UNCHANGED <<now, auditVars, pauseVars>>

FacetNext ==
    \/ \E o \in Accounts, p \in Submitted : Deploy(o, p)
    \/ \E s \in Accounts, p \in Submitted : UpdatePermission(s, p)
    \/ \E s \in Accounts : RevokePermission(s)
    \/ \E s \in Accounts, iso \in Isos : PauseForJurisdiction(s, iso)
    \/ \E s \in Accounts, iso \in Isos : UnpauseForJurisdiction(s, iso)
    \/ \E to \in Accounts : TransferNFT(to)
    \/ Burn

------------------------------------------------------------------------------

\* Time moves only between transactions; PolicyStack says when that is.
FacetTick ==
    /\ now < MaxTime
    /\ now' = now + 1
    /\ UNCHANGED <<nftOwner, auditVars, pauseVars>>

FacetTypeOK ==
    /\ now \in Nat \ {0}
    /\ nftOwner \in Accounts \cup {NoOwner}
    /\ installed \in BOOLEAN
    /\ policy \in PolicyType
    /\ revoked \in BOOLEAN
    /\ paused \in [Isos -> BOOLEAN]
    /\ version \in Nat

\* A revoked policy reads as expired from the very block of the revocation on,
\* until the owner writes a new one.
RevokedIsExpired ==
    revoked => installed /\ policy.expiresAt # 0 /\ now >= policy.expiresAt

\* Once the NFT is burned nobody can revoke, tighten or pause any more: the
\* last rules stand, and only their own expiry ends them.
BurnFreezesRules ==
    [][installed /\ nftOwner = NoOwner
         => UNCHANGED <<nftOwner, auditVars, pauseVars>>]_facetVars
===============================================================================
