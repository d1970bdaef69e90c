-------------------------- MODULE IdentityProvider --------------------------
(***************************************************************************)
(* Keycloak as the browser client sees it: authorization codes, the SSO    *)
(* sessions behind them, and refresh tokens with the rotation that         *)
(* docs/REALM_SETUP.md:206-225 and the realm file configure.  Nothing of   *)
(* it is under src/packages: each operator is the smallest that answers    *)
(* what client.ts sends.  A login is named by its `state`; its refresh     *)
(* tokens are numbered in the order they are issued.                       *)
(***************************************************************************)
EXTENDS Naturals

CONSTANTS
    States,         \* logins
    RefreshPolicy,  \* the realm's refresh tokens: "rotated", "kept" or "none"
    MaxReuse        \* the realm's refreshTokenMaxReuse

ASSUME ProviderAssumption == /\ RefreshPolicy \in {"rotated", "kept", "none"}
                             /\ MaxReuse \in Nat

VARIABLES
    codes,          \* authorization codes that can be redeemed
    issued,         \* logins that were answered with a code
    live,           \* logins whose SSO session has not ended
    tokens          \* tokens[s]: last token issued, last one used, its uses

provider == <<codes, issued, live, tokens>>

NoToken == 0        \* the response has no refresh_token
FirstToken == IF RefreshPolicy = "none" THEN NoToken ELSE 1

TokenRecord == [issued : Nat, used : Nat, uses : Nat]

ProviderTypeOK ==
    /\ codes \in SUBSET States /\ issued \in SUBSET States /\ live \in SUBSET States
    /\ tokens \in [States -> TokenRecord]

(* The logins in L hold a session each from before.                        *)
ProviderInit(L) ==
    /\ codes = {} /\ issued = L /\ live = L
    /\ tokens = [s \in States |-> [issued |-> IF s \in L THEN FirstToken ELSE 0,
                                   used |-> 0, uses |-> 0]]

Authenticate(s) == /\ codes' = codes \cup {s} /\ issued' = issued \cup {s}
                   /\ live' = live \cup {s}
                   /\ UNCHANGED tokens

(* Signing out, or the SSO idle timeout: all logins of a browser share one *)
(* SSO session.                                                            *)
EndSession == codes' = {} /\ live' = {} /\ UNCHANGED <<issued, tokens>>

(* A code can be redeemed once, while its SSO session lasts.               *)
Redeem(s) == /\ s \in codes
             /\ codes' = codes \ {s}
             /\ tokens' = [tokens EXCEPT ![s].issued = FirstToken]
             /\ UNCHANGED <<issued, live>>

(* Rotation: a token may be presented 1 + MaxReuse times, and never after  *)
(* a token that was issued later has been presented.                       *)
Accepts(s, g) == /\ s \in live
                 /\ \/ g > tokens[s].used
                    \/ g = tokens[s].used /\ tokens[s].uses <= MaxReuse

NextToken(s) == tokens[s].issued + 1

Rotate(s, g) ==
    /\ RefreshPolicy = "rotated" /\ Accepts(s, g)
    /\ tokens' = [tokens EXCEPT ![s] =
           [issued |-> NextToken(s), used |-> g,
            uses |-> IF g = tokens[s].used THEN tokens[s].uses + 1 ELSE 1]]
    /\ UNCHANGED <<codes, issued, live>>

Renew(s, g) == RefreshPolicy = "kept" /\ Accepts(s, g) /\ UNCHANGED provider
=============================================================================
