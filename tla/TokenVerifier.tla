---------------------------- MODULE TokenVerifier -----------------------------
(***************************************************************************)
(* ServerAuth.verifyToken of packages/caselaw-auth/src/server.ts: requests *)
(* of one process that interleave at their awaits and share the discovery  *)
(* document and the cached key set, while the realm rotates its keys and   *)
(* any round trip may fail.                                                *)
(***************************************************************************)
EXTENDS Naturals

CONSTANTS Requests, Rsa, Ec, Enc

VARIABLES
    published, constant, ever,      \* the realm
    token,          \* token[r]
    blips,          \* blips[r]: a history of failed round trips
    verdict,        \* verdict[r]: how the call of verifyToken ended
    discovery,      \* this.discovery is loaded
    jwks,           \* this.jwks, NoKeys for null
    fresh,          \* its age is below jwksCacheSeconds
    pc,             \* pc[r]: "idle", or the await the request is at
    attempt,        \* attempt[r]: 1, or 2 for the forced one
    answer          \* answer[r]: the key set on its way back

realm == <<published, constant, ever>>
shared == <<discovery, jwks, fresh>>
local == <<pc, attempt, answer>>
vars == <<published, constant, ever, token, blips, verdict,
          discovery, jwks, fresh, pc, attempt, answer>>

Contract == INSTANCE VerifierContract WITH Patience <- 2

Keys == Contract!Keys
NoKeys == [set |-> {}, first |-> "none"]
KeySets == [set : (SUBSET Keys) \ {{}}, first : Keys]
Awaits == {"idle", "discovery", "certs", "response"}

TypeOK ==
    /\ Contract!TypeOK
    /\ discovery \in BOOLEAN /\ fresh \in BOOLEAN
    /\ jwks \in KeySets \cup {NoKeys}
    /\ fresh => jwks # NoKeys
    /\ pc \in [Requests -> Awaits]
    /\ attempt \in [Requests -> {1, 2}]
    /\ answer \in [Requests -> KeySets \cup {NoKeys}]
    /\ \A r \in Requests : /\ pc[r] # "idle" <=> verdict[r] = "pending"
                           /\ pc[r] = "response" <=> answer[r] # NoKeys

Init ==
    /\ Contract!Init
    /\ discovery = FALSE /\ jwks = NoKeys /\ fresh = FALSE
    /\ pc = [r \in Requests |-> "idle"]
    /\ attempt = [r \in Requests |-> 1]
    /\ answer = [r \in Requests |-> NoKeys]

-----------------------------------------------------------------------------
(* signingKeys() past the cache: discover() first, unless it has answered. *)
Fetch(r) ==
    /\ pc' = [pc EXCEPT ![r] = IF discovery THEN "certs" ELSE "discovery"]
    /\ verdict' = [verdict EXCEPT ![r] = "pending"]
    /\ answer' = [answer EXCEPT ![r] = NoKeys]

End(r, v) ==
    /\ pc' = [pc EXCEPT ![r] = "idle"]
    /\ verdict' = [verdict EXCEPT ![r] = v]
    /\ attempt' = [attempt EXCEPT ![r] = 1]
    /\ answer' = [answer EXCEPT ![r] = NoKeys]

(* A bug: the second failure is caught like the first one.                 *)
Failed_Forever(r) == attempt' = [attempt EXCEPT ![r] = 2] /\ Fetch(r)

(* A bug: the attempts are counted, and never compared with their number.  *)
Failed_Counting(r) == attempt' = [attempt EXCEPT ![r] = @ + 1] /\ Fetch(r)

(* The catch of verifyToken's loop, of anything but a TokenInvalid.        *)
Failed(r) ==
    \/ attempt[r] = 1 /\ attempt' = [attempt EXCEPT ![r] = 2] /\ Fetch(r)
    \/ attempt[r] = 2 /\ End(r, "unavailable")

(* A bug: the key id is ignored.                                           *)
KeyFor_First(tok, keys) == keys.first

(* keys.find(kid) || keys[0]                                               *)
KeyFor(tok, keys) == IF tok.kid \in keys.set THEN tok.kid ELSE keys.first

(* verifyOnce() once it has keys.  importKey rejects a key of another type *)
(* and one that is not for signing, and decoding the signature throws when *)
(* that is no base64url: neither is a TokenInvalid.                        *)
Judge(r, tok, keys) ==
    LET key == KeyFor(tok, keys)
        imported == key \in Contract!KeysOf(tok.alg)
        verified == Contract!Signed(tok) /\ key = tok.kid
    IN  \/ ~imported /\ Failed(r)
        \/ imported /\ tok.flaw = "forged" /\ Failed(r)
        \/ imported /\ (~verified \/ tok.flaw = "claims") /\ End(r, "invalid")
        \/ imported /\ verified /\ tok.flaw = "none" /\ End(r, "accepted")

(* verifyToken() up to its first await; with a fresh cache up to its end,  *)
(* for importKey and verify touch nothing that is shared.                  *)
Begin(r, tok) ==
    /\ Contract!Ask(r, tok)
    /\ \/ tok.flaw = "malformed" /\ End(r, "invalid")
       \/ tok.flaw # "malformed" /\ fresh /\ Judge(r, tok, jwks)
       \/ tok.flaw # "malformed" /\ ~fresh /\ Fetch(r) /\ UNCHANGED attempt
    /\ UNCHANGED <<realm, shared>>

(* discover() has its answer, keeps it and goes on to the key set.         *)
Discovered(r) ==
    /\ pc[r] = "discovery"
    /\ discovery' = TRUE
    /\ pc' = [pc EXCEPT ![r] = "certs"]
    /\ UNCHANGED <<realm, token, blips, verdict, jwks, fresh, attempt, answer>>

(* The provider answers with the keys it has now, in whatever order.       *)
Certs(r) ==
    /\ pc[r] = "certs"
    /\ pc' = [pc EXCEPT ![r] = "response"]
    /\ \E k \in published :
          answer' = [answer EXCEPT ![r] = [set |-> published, first |-> k]]
    /\ UNCHANGED <<realm, token, blips, verdict, shared, attempt>>

(* The answer arrives: it is cached, over a later one too, and judged by.  *)
Arrives(r) ==
    /\ pc[r] = "response"
    /\ jwks' = answer[r] /\ fresh' = TRUE
    /\ Judge(r, token[r], answer[r])
    /\ UNCHANGED <<realm, token, blips, discovery>>

(* Either fetch is refused or lost, at any moment.                         *)
FetchFails(r) ==
    /\ pc[r] # "idle"
    /\ Contract!Blip(r)
    /\ Failed(r)
    /\ UNCHANGED <<realm, token, shared>>

(* jwksCacheSeconds have passed.                                           *)
CacheExpires ==
    /\ fresh /\ fresh' = FALSE
    /\ UNCHANGED <<realm, token, blips, verdict, discovery, jwks, local>>

Rotates ==
    /\ Contract!RealmStep
    /\ UNCHANGED <<token, blips, verdict, shared, local>>

(* A request that is waiting goes on.                                      *)
Step(r) == /\ pc[r] # "idle"
           /\ Discovered(r) \/ Certs(r) \/ Arrives(r) \/ FetchFails(r)

Next ==
    \/ \E r \in Requests : (\E tok \in Contract!Tokens : Begin(r, tok)) \/ Step(r)
    \/ CacheExpires
    \/ Rotates

Spec == Init /\ [][Next]_vars

(* A fetch is answered or fails in the end.                                *)
FairSpec == Spec /\ \A r \in Requests : WF_vars(Step(r))

-----------------------------------------------------------------------------
(* What both server packages promise (contract.json:54-70), at every step  *)
(* of every request, whatever the others do to the cache.                  *)
KeepsContract == Contract!Spec

(* Every call of verifyToken ends: one retry, and no waiting on the cache  *)
(* that other requests fill (server.ts:300-312).  Always again, a request  *)
(* has its verdict: which is that one that is pending will get it.         *)
EveryRequestEnds ==
    \A r \in Requests : []<>(verdict[r] # "pending")

(* "A malformed or expired token says the same thing on a second pass"     *)
(* (server.ts:306): a token with nothing wrong with it, of a key that the  *)
(* realm publishes, is not refused as invalid.                             *)
GenuineIsNotRefused ==
    [][\A r \in Requests :
          verdict[r] # "invalid" /\ verdict'[r] = "invalid"
             => ~(token'[r].flaw = "none" /\ token'[r].kid \in published)]_vars
=============================================================================
