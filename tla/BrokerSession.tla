---------------------------- MODULE BrokerSession -----------------------------
(***************************************************************************)
(* One user's Robinhood credential: the OAuth flow with PKCE that creates  *)
(* it, and the refreshes, by the worker of five minutes and by whoever     *)
(* needs a bearer that is about to expire (services/robinhoodOAuth.ts,     *)
(* workers/tokenRefresher.ts).                                             *)
(*                                                                         *)
(* The token endpoint is external: it redeems a code once, and it rotates, *)
(* a refresh token works once and brings its successor.  A call is at an   *)
(* await of the database or of the endpoint; an answer may be lost, a      *)
(* write may fail, and the process may die, with the token in hand.        *)
(***************************************************************************)
EXTENDS Integers

CONSTANTS
    BrokerCalls,        \* calls in flight
    States,             \* OAuthState rows; each authorization is a grant of its own
    NoGrant,
    MaxTokens           \* bound: refresh tokens of one grant

ASSUME BrokerAssumption == NoGrant \notin States

VARIABLES
    authState,          \* authState[s]: "absent", "issued", "consumed" or "expired"
    redeemed,           \* endpoint: the states whose code it has redeemed
    live,               \* endpoint: live[s]: the number of the refresh token it accepts
    credential,         \* the RobinhoodCredential row
    nearExpiry,         \* the row's expiresAt is near or past
    brokerCall,         \* brokerCall[c]: where the call is, and the token in hand
    lost                \* history: grants whose newest token was never stored

brokerVars == <<authState, redeemed, live, credential, nearExpiry, brokerCall, lost>>

NoToken == [grant |-> NoGrant, number |-> 0]
Free == [pc |-> "free", token |-> NoToken]

BrokerTypeOK ==
    /\ authState \in [States -> {"absent", "issued", "consumed", "expired"}]
    /\ redeemed \subseteq States
    /\ live \in [States -> Nat]
    /\ credential \in [grant : States \cup {NoGrant}, number : Nat]
    /\ nearExpiry \in BOOLEAN
    /\ brokerCall \in [BrokerCalls -> [pc : {"free", "code", "store", "consume", "refresh", "update"},
                                       token : [grant : States \cup {NoGrant}, number : Nat]]]
    /\ lost \subseteq States

BrokerInit ==
    /\ authState = [s \in States |-> "absent"]
    /\ redeemed = {}
    /\ live = [s \in States |-> 0]
    /\ credential = NoToken
    /\ nearExpiry = FALSE
    /\ brokerCall = [c \in BrokerCalls |-> Free]
    /\ lost = {}

Holds(c, pc, t) == brokerCall' = [brokerCall EXCEPT ![c] = [pc |-> pc, token |-> t]]
Frees(c) == brokerCall' = [brokerCall EXCEPT ![c] = Free]
InHand(c) == brokerCall[c].token

-----------------------------------------------------------------------------
(* The authorization *)

startAuthorization(s) ==
    /\ authState[s] = "absent"
    /\ authState' = [authState EXCEPT ![s] = "issued"]
    /\ UNCHANGED <<redeemed, live, credential, nearExpiry, brokerCall, lost>>

StateExpires(s) ==
    /\ authState[s] = "issued"
    /\ authState' = [authState EXCEPT ![s] = "expired"]
    /\ UNCHANGED <<redeemed, live, credential, nearExpiry, brokerCall, lost>>

\* completeAuthorization reads the row; callbacks of one state may be in flight together.
completeAuthorization(c, s) ==
    /\ brokerCall[c].pc = "free"
    /\ authState[s] = "issued"
    /\ Holds(c, "code", [grant |-> s, number |-> 0])
    /\ UNCHANGED <<authState, redeemed, live, credential, nearExpiry, lost>>

\* The endpoint redeems the code; the answer arrives with the scope that is
\* required, or it is refused or lost.
CodeRedeemed(c) ==
    LET s == InHand(c).grant
    IN  /\ brokerCall[c].pc = "code"
        /\ s \notin redeemed
        /\ redeemed' = redeemed \cup {s}
        /\ live' = [live EXCEPT ![s] = 1]
        /\ \/ Holds(c, "store", [grant |-> s, number |-> 1]) /\ UNCHANGED lost
           \/ Frees(c) /\ lost' = lost \cup {s}
        /\ UNCHANGED <<authState, credential, nearExpiry>>

\* The upsert of the row.
StoreGrant(c) ==
    /\ brokerCall[c].pc = "store"
    /\ credential' = InHand(c)
    /\ nearExpiry' = FALSE
    /\ Holds(c, "consume", InHand(c))
    /\ UNCHANGED <<authState, redeemed, live, lost>>

\* A failure of this write is logged only.
ConsumeState(c) ==
    /\ brokerCall[c].pc = "consume"
    /\ \/ authState' = [authState EXCEPT ![InHand(c).grant] = "consumed"]
       \/ UNCHANGED authState
    /\ Frees(c)
    /\ UNCHANGED <<redeemed, live, credential, nearExpiry, lost>>

-----------------------------------------------------------------------------
(* Refreshes *)

Ages ==
    /\ credential # NoToken /\ ~nearExpiry
    /\ nearExpiry' = TRUE
    /\ UNCHANGED <<authState, redeemed, live, credential, brokerCall, lost>>

\* getRobinhoodBearer, or refreshIfNearExpiry in the worker's tick: the row is read.
ReadsCredential(c) ==
    /\ brokerCall[c].pc = "free"
    /\ credential # NoToken /\ nearExpiry
    /\ Holds(c, "refresh", credential)
    /\ UNCHANGED <<authState, redeemed, live, credential, nearExpiry, lost>>

\* refreshTokens: the endpoint takes the token and issues the next one.
TokenRotates(c) ==
    LET t == InHand(c)
        next == [grant |-> t.grant, number |-> t.number + 1]
    IN  /\ brokerCall[c].pc = "refresh"
        /\ live[t.grant] = t.number /\ t.number < MaxTokens
        /\ live' = [live EXCEPT ![t.grant] = next.number]
        /\ \/ Holds(c, "update", next) /\ UNCHANGED lost
           \/ Frees(c) /\ lost' = lost \cup {t.grant}
        /\ UNCHANGED <<authState, redeemed, credential, nearExpiry>>

\* Mutant: the access token is stored, the refresh token is not.
UpdateAccessToken(c) ==
    /\ brokerCall[c].pc = "update"
    /\ nearExpiry' = FALSE
    /\ Frees(c)
    /\ UNCHANGED <<authState, redeemed, live, credential, lost>>

\* The update of the user's row, whichever grant the row is of by now.
UpdateCredential(c) ==
    /\ brokerCall[c].pc = "update"
    /\ credential' = InHand(c)
    /\ nearExpiry' = FALSE
    /\ Frees(c)
    /\ UNCHANGED <<authState, redeemed, live, lost>>

\* The call throws: the code was redeemed before, the token was used before, the
\* endpoint or the database failed, or the process died.
CallThrows(c) ==
    /\ brokerCall[c].pc \in {"code", "store", "refresh", "update"}
    /\ lost' = IF brokerCall[c].pc \in {"store", "update"} THEN lost \cup {InHand(c).grant} ELSE lost
    /\ Frees(c)
    /\ UNCHANGED <<authState, redeemed, live, credential, nearExpiry>>

BrokerNext ==
    \/ \E s \in States : startAuthorization(s) \/ StateExpires(s)
    \/ \E c \in BrokerCalls, s \in States : completeAuthorization(c, s)
    \/ \E c \in BrokerCalls :
          \/ CodeRedeemed(c) \/ StoreGrant(c) \/ ConsumeState(c)
          \/ ReadsCredential(c) \/ TokenRotates(c) \/ UpdateCredential(c)
          \/ CallThrows(c)
    \/ Ages

BrokerSpec == BrokerInit /\ [][BrokerNext]_brokerVars

------------------------------------------------------------------------------

\* The stored refresh token is the one that the endpoint accepts, whoever refreshes
\* it at the same time and whichever authorization comes between: its successor is
\* otherwise in the hands of a call that will store it, or was lost before a write.
TokenSurvives ==
    credential # NoToken /\ credential.grant \notin lost /\ credential.number # live[credential.grant]
        => \E c \in BrokerCalls :
              /\ brokerCall[c].pc = "update"
              /\ brokerCall[c].token = [grant |-> credential.grant, number |-> live[credential.grant]]
==============================================================================
