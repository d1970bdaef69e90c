--------------------------- MODULE VerifierContract ---------------------------
(***************************************************************************)
(* What packages/contract/contract.json:54-70 promises of verifying a      *)
(* token, whatever the language: every request gets one verdict, and which *)
(* ones it may get.  Meanwhile the realm publishes and retires keys.  The  *)
(* promise is complete for tokens of a constant key, one published ever    *)
(* since the verifier was started; of the others it is only that none is   *)
(* accepted wrongly.                                                       *)
(***************************************************************************)
EXTENDS Naturals

CONSTANTS
    Requests,           \* calls of verifyToken, as many as are open at once
    Rsa, Ec, Enc,       \* keys the realm may publish: to sign, and to encrypt
    Patience            \* failed round trips before a request is given up

VARIABLES
    published,      \* the realm's key set
    constant,       \* the keys in it that were never out of it
    ever,           \* the keys that were in it at some time
    token,          \* token[r]: what the request brings
    blips,          \* blips[r]: its failed round trips to the provider, up to 2
    verdict         \* verdict[r]

realm == <<published, constant, ever>>
vars == <<published, constant, ever, token, blips, verdict>>

Keys == Rsa \cup Ec \cup Enc
Algorithms == {"rsa", "ec"}
KeysOf(alg) == IF alg = "rsa" THEN Rsa ELSE Ec

(* A token names a key and an algorithm.  What can be wrong with it: it is *)
(* no JWT of a supported algorithm, its signature is not that of the key   *)
(* it names, or a claim does not hold (issuer, expiry, not-before, and     *)
(* audience, azp or nonce where asked for).                                *)
Flaws == {"none", "malformed", "forged", "claims"}
Signed(tok) == tok.flaw \in {"none", "claims"}
Malformed == [flaw |-> "malformed"]
Tokens == {Malformed} \cup
          {tok \in [kid : Keys, alg : Algorithms, flaw : Flaws \ {"malformed"}] :
              Signed(tok) => tok.kid \in KeysOf(tok.alg)}
NoToken == [flaw |-> "absent"]

Verdicts == {"none", "pending", "accepted", "invalid", "unavailable"}

TypeOK ==
    /\ published \in SUBSET Keys /\ constant \in SUBSET Keys /\ ever \in SUBSET Keys
    /\ token \in [Requests -> Tokens \cup {NoToken}]
    /\ blips \in [Requests -> 0..2]
    /\ verdict \in [Requests -> Verdicts]
    /\ \A r \in Requests : token[r] = NoToken <=> verdict[r] = "none"

Init ==
    /\ published \in (SUBSET Keys) \ {{}}
    /\ constant = published /\ ever = published
    /\ token = [r \in Requests |-> NoToken]
    /\ blips = [r \in Requests |-> 0]
    /\ verdict = [r \in Requests |-> "none"]

(* Rotation: a key that is new is added, another one is taken out.         *)
Publish(k) == /\ k \in Keys \ ever
              /\ published' = published \cup {k} /\ ever' = ever \cup {k}
              /\ UNCHANGED constant
Retire(k) == /\ k \in published /\ published # {k}
             /\ published' = published \ {k} /\ constant' = constant \ {k}
             /\ UNCHANGED ever
RealmStep == \E k \in Keys : Publish(k) \/ Retire(k)

(* A request arrives.  Only a key that the realm has had can have signed.  *)
Ask(r, tok) == /\ verdict[r] # "pending"
               /\ Signed(tok) => tok.kid \in ever
               /\ token' = [token EXCEPT ![r] = tok]
               /\ blips' = [blips EXCEPT ![r] = 0]

Blip(r) == blips' = [blips EXCEPT ![r] = IF @ < 2 THEN @ + 1 ELSE @]

Decide(r, v) == verdict' = [verdict EXCEPT ![r] = v]

(* Nothing but a good token, of a key the realm has published, is accepted. *)
MayAccept(tok) == tok.flaw = "none" /\ tok.kid \in ever

(* "raised for anything wrong with the token"                              *)
MayRefuse(tok) == tok.flaw = "none" => tok.kid \notin constant

(* "raised when the key set cannot be fetched, after the retry"            *)
MayGiveUp(tok, failures) == Signed(tok) /\ tok.kid \in constant => failures >= Patience

Verdict(r, tok) ==
    \/ Decide(r, "accepted") /\ MayAccept(tok)
    \/ Decide(r, "invalid") /\ MayRefuse(tok)
    \/ Decide(r, "unavailable") /\ MayGiveUp(tok, blips'[r])

Next ==
    \/ \E r \in Requests :
        /\ verdict[r] = "pending"
        /\ UNCHANGED <<realm, token>>
        /\ UNCHANGED blips \/ Blip(r)
        /\ UNCHANGED verdict \/ Verdict(r, token[r])
    \/ RealmStep /\ UNCHANGED <<token, blips, verdict>>
    \/ /\ UNCHANGED realm
       /\ \E r \in Requests, tok \in Tokens :
             Ask(r, tok) /\ (Decide(r, "pending") \/ Verdict(r, tok))

Spec == Init /\ [][Next]_vars
=============================================================================
