---------------------------- MODULE PythonVerifier ----------------------------
(***************************************************************************)
(* ServerAuth.verify_token of packages/python: requests of one process are *)
(* threads that share the discovery document and `_jwks`, a PyJWKClient    *)
(* with the time it was made.  The client keeps a key set of its own.  A   *)
(* thread may be interrupted between any two reads of what is shared.      *)
(***************************************************************************)
EXTENDS Naturals

CONSTANTS
    Requests, Rsa, Ec, Enc,
    Clients,        \* PyJWKClients: one in the cell, and one for each request
    None

ASSUME ClientsAssumption ==
    /\ None \notin Clients \cup {"TypeError", "FetchError"}
    /\ \A held \in [Requests -> Clients \cup {None}], c \in Clients \cup {None} :
          (\E r \in Requests : held[r] = None) =>
              \E d \in Clients : d # c /\ \A r \in Requests : held[r] # d

(* A key of the realm is there to sign or to encrypt (`use`), not both.    *)
ASSUME KeysAssumption == (Rsa \cup Ec) \cap Enc = {}

VARIABLES
    published, constant, ever,      \* the realm
    token,          \* token[r]
    blips,          \* blips[r]: a history of failed round trips
    verdict,        \* verdict[r]
    discovery,      \* self._discovery is loaded
    cell,           \* self._jwks[0], None when _jwks is None
    fresh,          \* the age of the cell is below jwks_cache_seconds
    cached,         \* cached[c]: the key set in the client's cache, {} for none
    own,            \* own[r]: the client that r got from _jwks_client()
    pc,             \* pc[r]: what r does next
    attempt,        \* attempt[r]: 1, or 2 for the forced one
    answer,         \* answer[r]: the key set on its way back
    escaped,        \* escaped[r]: the error, none of the package's own, that ended the call
    disturbed       \* disturbed[r]: a history, another's reset of _jwks since r read it

realm == <<published, constant, ever>>
shared == <<discovery, cell, fresh, cached>>
local == <<own, pc, attempt, answer>>
vars == <<published, constant, ever, token, blips, verdict, discovery, cell, fresh,
          cached, own, pc, attempt, answer, escaped, disturbed>>

(* A call that ends with an error that verify_token() does not catch has   *)
(* no verdict on the token, as if the realm were not available.  The       *)
(* patience of the contract is not asked of this package: what it gives up *)
(* for, GivesUpForAReason says.                                            *)
Contract == INSTANCE VerifierContract WITH Patience <- 0

Keys == Contract!Keys
Points == {"idle", "age", "take", "discovery", "create", "keys",
           "fetch", "fetched", "refetch", "refetched"}
Fetching == {"fetch", "fetched", "refetch", "refetched"}
Errors == {"TypeError", "FetchError"}

TypeOK ==
    /\ Contract!TypeOK
    /\ discovery \in BOOLEAN /\ fresh \in BOOLEAN
    /\ cell \in Clients \cup {None}
    /\ fresh => cell # None
    /\ cached \in [Clients -> SUBSET Keys]
    /\ own \in [Requests -> Clients \cup {None}]
    /\ pc \in [Requests -> Points]
    /\ attempt \in [Requests -> {1, 2}]
    /\ answer \in [Requests -> SUBSET Keys]
    /\ escaped \in [Requests -> Errors \cup {None}]
    /\ \A r \in Requests : escaped[r] # None => verdict[r] = "unavailable"
    /\ disturbed \in [Requests -> BOOLEAN]
    /\ \A r \in Requests : /\ pc[r] # "idle" <=> verdict[r] = "pending"
                           /\ own[r] # None <=> pc[r] \in Fetching \cup {"keys"}

Init ==
    /\ Contract!Init
    /\ discovery = FALSE /\ cell = None /\ fresh = FALSE
    /\ cached = [c \in Clients |-> {}]
    /\ own = [r \in Requests |-> None]
    /\ pc = [r \in Requests |-> "idle"]
    /\ attempt = [r \in Requests |-> 1]
    /\ answer = [r \in Requests |-> {}]
    /\ escaped = [r \in Requests |-> None]
    /\ disturbed = [r \in Requests |-> FALSE]

-----------------------------------------------------------------------------
Goto(r, point) == pc' = [pc EXCEPT ![r] = point]
Has(r, c) == own' = [own EXCEPT ![r] = c]

(* A client that nobody refers to any more is gone with its cache.         *)
Keep(sets) == cached' = [c \in Clients |->
                 IF c = cell' \/ \E q \in Requests : own'[q] = c THEN sets[c] ELSE {}]

(* _jwks_client() past its test, and for the forced attempt.               *)
Past == IF discovery THEN "create" ELSE "discovery"

End(r, v) ==
    /\ verdict' = [verdict EXCEPT ![r] = v]
    /\ Goto(r, "idle")
    /\ attempt' = [attempt EXCEPT ![r] = 1]
    /\ Has(r, None)
    /\ answer' = [answer EXCEPT ![r] = {}]

(* verify_token() ends and leaves _jwks as it is.                          *)
Leave(r, v) == /\ End(r, v)
               /\ disturbed' = [disturbed EXCEPT ![r] = FALSE]
               /\ UNCHANGED <<cell, fresh>>

(* It ends with an error that it does not catch.                           *)
Escape(r, error) == /\ Leave(r, "unavailable")
                    /\ escaped' = [escaped EXCEPT ![r] = error]

(* self._jwks = None, while others may be at work.                         *)
Reset(r) == /\ cell' = None /\ fresh' = FALSE
            /\ disturbed' = [q \in Requests |-> q # r /\ pc[q] \in {"age", "take"}]

(* The forced attempt, which asks for a new client.                        *)
Retry(r, n) == /\ attempt' = [attempt EXCEPT ![r] = n]
               /\ Goto(r, Past) /\ Has(r, None)
               /\ answer' = [answer EXCEPT ![r] = {}]
               /\ UNCHANGED verdict

(* A bug: a key set that cannot be had counts as a bad token.              *)
Failed_Invalid(r) == Reset(r) /\ End(r, "invalid")

(* A bug: no second attempt.                                               *)
Failed_Once(r) == Reset(r) /\ End(r, "unavailable")

(* A bug: the attempts are counted, and never compared with their number.  *)
Failed_Counting(r) == Reset(r) /\ Retry(r, attempt[r] + 1)

(* except (PyJWKClientError, httpx.HTTPError, ValueError)                  *)
Failed(r) == Reset(r) /\ IF attempt[r] = 2 THEN End(r, "unavailable") ELSE Retry(r, 2)

(* jwt.decode() and the checks after it.  A key that is not of the token's *)
(* algorithm is a TypeError.                                               *)
Judge(r) ==
    LET tok == token[r] IN
    \/ tok.kid \notin Contract!KeysOf(tok.alg) /\ Escape(r, "TypeError")
    \/ /\ tok.kid \in Contract!KeysOf(tok.alg)
       /\ Leave(r, IF tok.flaw = "none" THEN "accepted" ELSE "invalid")
       /\ UNCHANGED escaped

-----------------------------------------------------------------------------
(* _jwks_client(): `if self._jwks` is the first read of three.             *)
Begin(r, tok) ==
    /\ pc[r] = "idle"
    /\ Contract!Ask(r, tok)
    /\ verdict' = [verdict EXCEPT ![r] = "pending"]
    /\ Goto(r, IF cell # None THEN "age" ELSE Past)
    /\ escaped' = [escaped EXCEPT ![r] = None]
    /\ disturbed' = [disturbed EXCEPT ![r] = FALSE]
    /\ UNCHANGED <<realm, shared, own, attempt, answer>>

HasRead(r) == disturbed' = [disturbed EXCEPT ![r] = FALSE]

(* `now - self._jwks[1]`: None has no item.                                *)
Age(r) ==
    /\ pc[r] = "age"
    /\ \/ cell = None /\ Escape(r, "TypeError")
       \/ /\ cell # None
          /\ Goto(r, IF fresh THEN "take" ELSE Past)
          /\ HasRead(r)
          /\ UNCHANGED <<verdict, cell, fresh, own, attempt, answer, escaped>>
    /\ UNCHANGED <<realm, token, blips, discovery, cached>>

(* `return self._jwks[0]`, whichever client is there by now.               *)
Take(r) ==
    /\ pc[r] = "take"
    /\ \/ cell = None /\ Escape(r, "TypeError")
       \/ /\ cell # None
          /\ Goto(r, "keys") /\ Has(r, cell)
          /\ HasRead(r)
          /\ UNCHANGED <<verdict, cell, fresh, attempt, answer, escaped>>
    /\ UNCHANGED <<realm, token, blips, discovery, cached>>

Discovered(r) ==
    /\ pc[r] = "discovery"
    /\ discovery' = TRUE
    /\ Goto(r, "create")
    /\ UNCHANGED <<realm, token, blips, verdict, cell, fresh, cached, own, attempt,
                   answer, escaped, disturbed>>

(* A transport failure is an AuthBackendUnavailable at once, which         *)
(* verify_token() does not catch; a body that is no JSON is a ValueError,  *)
(* which it does.                                                          *)
DiscoveryFails(r) ==
    /\ pc[r] = "discovery"
    /\ Contract!Blip(r)
    /\ Leave(r, "unavailable") \/ Failed(r)
    /\ Keep(cached)
    /\ UNCHANGED <<realm, token, discovery, escaped>>

Create(r) ==
    /\ pc[r] = "create"
    /\ \E c \in Clients : /\ c # cell /\ \A q \in Requests : own[q] # c
                         /\ cell' = c /\ fresh' = TRUE /\ Has(r, c)
    /\ Keep(cached)
    /\ Goto(r, "keys")
    /\ UNCHANGED <<realm, token, blips, verdict, discovery, attempt, answer, escaped, disturbed>>

-----------------------------------------------------------------------------
(* get_signing_key_from_jwt(): the key with the token's id, from the       *)
(* client's cache, or else from a set that is fetched now.                 *)
Signing(set) == set \ Enc

(* No key to sign: a PyJWKClientError, or a PyJWKSetError, which is none,  *)
(* where PyJWT has no use for the keys at all (RSA-OAEP).                  *)
NoSigningKey(r) == \/ Failed(r) /\ UNCHANGED escaped
                   \/ Escape(r, "FetchError")

Lookup(r) ==
    /\ pc[r] = "keys"
    /\ LET set == cached[own[r]] IN
       \/ token[r].flaw = "malformed" /\ Leave(r, "invalid") /\ UNCHANGED escaped
       \/ /\ token[r].flaw # "malformed"
          /\ \/ token[r].kid \in Signing(set) /\ Judge(r)
             \/ set # {} /\ Signing(set) = {} /\ NoSigningKey(r)
             \/ /\ token[r].kid \notin Signing(set) /\ (Signing(set) # {} \/ set = {})
                /\ Goto(r, IF set = {} THEN "fetch" ELSE "refetch")
                /\ UNCHANGED <<verdict, cell, fresh, own, attempt, answer, escaped, disturbed>>
    /\ Keep(cached)
    /\ UNCHANGED <<realm, token, blips, discovery>>

(* The provider answers with the keys it has now.                          *)
Certs(r) ==
    /\ pc[r] \in {"fetch", "refetch"}
    /\ Goto(r, IF pc[r] = "fetch" THEN "fetched" ELSE "refetched")
    /\ answer' = [answer EXCEPT ![r] = published]
    /\ UNCHANGED <<realm, token, blips, verdict, shared, own, attempt, escaped, disturbed>>

(* It is cached in the client, over another thread's too.  A set without   *)
(* the key is fetched once more, and then a PyJWKClientError.              *)
Arrives(r) ==
    /\ pc[r] \in {"fetched", "refetched"}
    /\ \/ token[r].kid \in Signing(answer[r]) /\ Judge(r)
       \/ /\ token[r].kid \notin Signing(answer[r])
          /\ \/ Signing(answer[r]) = {} /\ NoSigningKey(r)
             \/ /\ pc[r] = "refetched" /\ Signing(answer[r]) # {}
                /\ Failed(r) /\ UNCHANGED escaped
       \/ /\ token[r].kid \notin Signing(answer[r])
          /\ pc[r] = "fetched" /\ Signing(answer[r]) # {}
          /\ Goto(r, "refetch")
          /\ answer' = [answer EXCEPT ![r] = {}]
          /\ UNCHANGED <<verdict, cell, fresh, own, attempt, escaped, disturbed>>
    /\ Keep([cached EXCEPT ![own[r]] = answer[r]])
    /\ UNCHANGED <<realm, token, blips, discovery>>

(* A fetch that fails leaves the client without a key set.  PyJWT makes a  *)
(* PyJWKClientError of a URLError and a timeout, and bad JSON is a         *)
(* ValueError; the connection that breaks while the answer is read         *)
(* (RemoteDisconnected, ConnectionResetError, IncompleteRead) is caught by *)
(* nobody: no reset, and no second attempt.                                *)
FetchFails(r) ==
    /\ pc[r] \in Fetching
    /\ Contract!Blip(r)
    /\ \/ Failed(r) /\ UNCHANGED escaped
       \/ Escape(r, "FetchError")
    /\ Keep([cached EXCEPT ![own[r]] = {}])
    /\ UNCHANGED <<realm, token, discovery>>

(* jwks_cache_seconds have passed; the client's own limit has.             *)
CellExpires ==
    /\ fresh /\ fresh' = FALSE
    /\ UNCHANGED <<realm, token, blips, verdict, discovery, cell, cached, local, escaped, disturbed>>

ClientExpires(c) ==
    /\ cached[c] # {} /\ cached' = [cached EXCEPT ![c] = {}]
    /\ UNCHANGED <<realm, token, blips, verdict, discovery, cell, fresh, local, escaped, disturbed>>

Rotates ==
    /\ Contract!RealmStep
    /\ UNCHANGED <<token, blips, verdict, shared, local, escaped, disturbed>>

Step(r) == \/ Age(r) \/ Take(r) \/ Discovered(r) \/ DiscoveryFails(r) \/ Create(r)
           \/ Lookup(r) \/ Certs(r) \/ Arrives(r) \/ FetchFails(r)

Next ==
    \/ \E r \in Requests : (\E tok \in Contract!Tokens : Begin(r, tok)) \/ Step(r)
    \/ CellExpires
    \/ \E c \in Clients : ClientExpires(c)
    \/ Rotates

Spec == Init /\ [][Next]_vars

-----------------------------------------------------------------------------
(* PROPERTIES *)

(* What both packages promise (contract.json:54-70): whatever the other    *)
(* threads do to the cache, only good tokens of a key the realm had are    *)
(* accepted, and none of a constant key is refused as invalid.             *)
KeepsContract == Contract!Spec

(* When a good token of a constant key gets no verdict.  "After one retry" *)
(* (server.py:66) is true of a caught error but for the discovery's, which *)
(* is not retried; a connection that breaks while the keys are read is one *)
(* round trip, with no retry; and a TypeError wants another thread's       *)
(* attempt to have failed meanwhile (server.py:268 and 297-316).           *)
Protected(r) == token'[r].flaw = "none" /\ token'[r].kid \in constant'
NoVerdict(r) == verdict[r] = "pending" /\ verdict'[r] = "unavailable"
GivesUpForAReason ==
    [][\A r \in Requests : NoVerdict(r) /\ Protected(r) =>
          \/ escaped'[r] = None /\ (blips'[r] = 2 \/ pc[r] = "discovery")
          \/ escaped'[r] = "FetchError" /\ blips'[r] # 0 /\ pc[r] \in Fetching
          \/ escaped'[r] = "TypeError" /\ disturbed[r]]_vars

(* "Base for every error this module raises." (AuthError, server.py:58):   *)
(* whatever becomes of its fetches, a call for a token with nothing wrong  *)
(* with it does not end with a TypeError.                                  *)
NoTypeErrors == \A r \in Requests : escaped[r] = "TypeError" => token[r].flaw # "none"
=============================================================================
