------------------------- MODULE TokenVerifierProofs --------------------------
(***************************************************************************)
(* TokenVerifier implements VerifierContract, for any number of requests   *)
(* at once and any keys, however the realm rotates them.                   *)
(***************************************************************************)
EXTENDS TokenVerifier, TLAPS

RealmInv == /\ constant \subseteq published
            /\ published \subseteq ever
            /\ published # {}

(* A key set that was fetched, whenever that was, holds every key that was *)
(* never taken out of the realm, and none that was never in it.            *)
Sound(keys) == keys.set # {} => /\ constant \subseteq keys.set
                                /\ keys.set \subseteq ever
                                /\ keys.first \in keys.set

SetsInv == Sound(jwks) /\ \A r \in Requests : Sound(answer[r])

(* A second attempt for a token the contract protects follows a failed     *)
(* round trip; a request that is waiting has a token that can be judged.   *)
Protected(tok) == Contract!Signed(tok) /\ tok.kid \in constant

RequestInv ==
    \A r \in Requests :
        /\ pc[r] = "idle" => attempt[r] = 1
        /\ pc[r] # "idle" => token[r].flaw # "malformed"
        /\ attempt[r] = 2 /\ Protected(token[r]) => blips[r] # 0

IInv == TypeOK /\ RealmInv /\ SetsInv /\ RequestInv

-----------------------------------------------------------------------------
LEMMA TokenShape ==
  ASSUME NEW tok \in Contract!Tokens
  PROVE  /\ tok.flaw \in Contract!Flaws
         /\ tok # Contract!NoToken
         /\ tok.flaw # "malformed" => /\ tok.kid \in Keys
                                      /\ tok.alg \in Contract!Algorithms
         /\ Contract!Signed(tok) => tok.kid \in Contract!KeysOf(tok.alg)
BY DEF Contract!Tokens, Contract!Malformed, Contract!NoToken, Contract!Flaws,
       Contract!Signed, Keys

LEMMA RealmKeeps == RealmInv /\ Contract!RealmStep => RealmInv'
BY DEF RealmInv, Contract!RealmStep, Contract!Publish, Contract!Retire

(* The realm only takes keys out of constant, and only adds to ever.       *)
LEMMA RealmMoves ==
  Contract!RealmStep => constant' \subseteq constant /\ ever \subseteq ever'
BY DEF Contract!RealmStep, Contract!Publish, Contract!Retire

(* What the end of an attempt does to a request: it is waiting again, for  *)
(* the second time, or it is over.                                         *)
Outcome(r, p, v, a) ==
    /\ pc' = [pc EXCEPT ![r] = p]
    /\ verdict' = [verdict EXCEPT ![r] = v]
    /\ attempt' = [attempt EXCEPT ![r] = a]
    /\ answer' = [answer EXCEPT ![r] = NoKeys]

Again(r) == \E p \in {"discovery", "certs"} : Outcome(r, p, "pending", 2)
Over(r, v) == Outcome(r, "idle", v, 1)

LEMMA FailedOutcome ==
  ASSUME NEW r \in Requests, Failed(r)
  PROVE  \/ attempt[r] = 1 /\ Again(r)
         \/ attempt[r] = 2 /\ Over(r, "unavailable")
BY DEF Failed, Fetch, End, Again, Over, Outcome

(* The verdict on a token by a sound key set is one the contract allows;   *)
(* and a protected token is never sent to the second attempt.              *)
LEMMA JudgeOutcome ==
  ASSUME NEW r \in Requests, NEW tok \in Contract!Tokens, NEW keys,
         tok.flaw # "malformed", Sound(keys), keys.set # {}, Judge(r, tok, keys)
  PROVE  \/ ~Protected(tok) /\ Failed(r)
         \/ Contract!MayRefuse(tok) /\ Over(r, "invalid")
         \/ Contract!MayAccept(tok) /\ Over(r, "accepted")
<1> DEFINE key == KeyFor(tok, keys)
<1>1. key \in keys.set
  BY DEF KeyFor, Sound
<1>2. Protected(tok) => key = tok.kid /\ key \in Contract!KeysOf(tok.alg)
  BY TokenShape DEF Protected, KeyFor, Sound
<1>3. CASE key \notin Contract!KeysOf(tok.alg)
  BY <1>2, <1>3 DEF Judge
<1>4. CASE /\ key \in Contract!KeysOf(tok.alg)
           /\ ~(Contract!Signed(tok) /\ key = tok.kid) \/ tok.flaw = "claims"
  <2>1. Over(r, "invalid") \/ (tok.flaw = "forged" /\ Failed(r))
    BY <1>4 DEF Judge, Over, Outcome, End
  <2>2. Contract!MayRefuse(tok)
    BY <1>2, <1>4 DEF Contract!MayRefuse, Contract!Signed, Protected
  <2>3. tok.flaw = "forged" => ~Protected(tok)
    BY DEF Protected, Contract!Signed
  <2> QED BY <2>1, <2>2, <2>3
<1>5. CASE /\ key \in Contract!KeysOf(tok.alg)
           /\ Contract!Signed(tok) /\ key = tok.kid /\ tok.flaw # "claims"
  <2>1. Over(r, "accepted") /\ tok.flaw = "none"
    BY <1>5 DEF Judge, Over, Outcome, End, Contract!Signed
  <2>2. Contract!MayAccept(tok)
    BY <1>1, <1>5, <2>1 DEF Contract!MayAccept, Sound
  <2> QED BY <2>1, <2>2
<1> QED BY <1>3, <1>4, <1>5

(* Whatever an attempt ends in, the request stays well typed.              *)
RequestTypes ==
    /\ verdict \in [Requests -> Contract!Verdicts]
    /\ pc \in [Requests -> Awaits]
    /\ attempt \in [Requests -> {1, 2}]
    /\ answer \in [Requests -> KeySets \cup {NoKeys}]
    /\ \A r \in Requests : /\ pc[r] # "idle" <=> verdict[r] = "pending"
                           /\ pc[r] = "response" <=> answer[r] # NoKeys

LEMMA OutcomeTypes ==
  ASSUME RequestTypes, NEW r \in Requests,
         Again(r) \/ \E v \in {"accepted", "invalid", "unavailable"} : Over(r, v)
  PROVE  RequestTypes'
BY DEF RequestTypes, Again, Over, Outcome, Awaits, Contract!Verdicts

(* And the key sets on their way to the other requests are what they were. *)
LEMMA OutcomeSets ==
  ASSUME SetsInv, NEW r \in Requests, answer \in [Requests -> KeySets \cup {NoKeys}],
         Again(r) \/ \E v \in {"accepted", "invalid", "unavailable"} : Over(r, v)
  PROVE  \A q \in Requests : answer'[q] = NoKeys \/ answer'[q] = answer[q]
BY DEF Again, Over, Outcome

LEMMA FailedIsOutcome ==
  ASSUME NEW r \in Requests, Failed(r)
  PROVE  Again(r) \/ \E v \in {"accepted", "invalid", "unavailable"} : Over(r, v)
BY FailedOutcome

LEMMA JudgeIsOutcome ==
  ASSUME NEW r \in Requests, NEW tok \in Contract!Tokens, NEW keys,
         tok.flaw # "malformed", Sound(keys), keys.set # {}, Judge(r, tok, keys)
  PROVE  Again(r) \/ \E v \in {"accepted", "invalid", "unavailable"} : Over(r, v)
BY JudgeOutcome, FailedIsOutcome

(* Only null has no keys.                                                  *)
LEMMA SetIsThere ==
  ASSUME NEW keys \in KeySets \cup {NoKeys}, keys # NoKeys
  PROVE  keys \in KeySets /\ keys.set # {}
BY DEF KeySets, NoKeys

LEMMA InitIInv == Init => IInv
<1> SUFFICES ASSUME Init PROVE IInv
  OBVIOUS
<1> USE DEF Init, Contract!Init
<1>1. Contract!TypeOK
  BY DEF Contract!TypeOK, Contract!Verdicts
<1>2. TypeOK
  BY <1>1 DEF TypeOK, Awaits
<1>3. RealmInv /\ SetsInv /\ RequestInv
  BY DEF RealmInv, SetsInv, Sound, NoKeys, RequestInv
<1> QED BY <1>2, <1>3 DEF IInv

(* A request that begins is judged at once by a fresh cache, or waits.     *)
LEMMA BeginOutcome ==
  ASSUME IInv, NEW r \in Requests, NEW tok \in Contract!Tokens, Begin(r, tok)
  PROVE  \/ Contract!MayRefuse(tok) /\ Over(r, "invalid")
         \/ Contract!MayAccept(tok) /\ Over(r, "accepted")
         \/ /\ tok.flaw # "malformed" /\ ~Protected(tok)
            /\ Again(r)
         \/ /\ tok.flaw # "malformed"
            /\ \E p \in {"discovery", "certs"} : Outcome(r, p, "pending", 1)
<1>0. attempt \in [Requests -> {1, 2}] /\ attempt[r] = 1 /\ answer \in [Requests -> KeySets \cup {NoKeys}]
  BY DEF IInv, TypeOK, RequestInv, Begin, Contract!Ask
<1>1. CASE tok.flaw = "malformed" /\ End(r, "invalid")
  BY <1>1 DEF Over, Outcome, End, Contract!MayRefuse
<1>2. CASE tok.flaw # "malformed" /\ fresh /\ Judge(r, tok, jwks)
  <2>1. Sound(jwks) /\ jwks.set # {}
    BY <1>2, SetIsThere DEF IInv, TypeOK, SetsInv
  <2> QED BY <1>0, <1>2, <2>1, JudgeOutcome, FailedOutcome
<1>3. CASE tok.flaw # "malformed" /\ Fetch(r) /\ UNCHANGED attempt
  <2>1. attempt' = [attempt EXCEPT ![r] = 1]
    BY <1>0, <1>3
  <2> QED BY <1>3, <2>1 DEF Fetch, Outcome
<1> QED BY <1>1, <1>2, <1>3 DEF Begin

LEMMA ArrivesOutcome ==
  ASSUME IInv, NEW r \in Requests, Arrives(r)
  PROVE  /\ Sound(answer[r]) /\ answer[r] \in KeySets
         /\ \/ ~Protected(token[r]) /\ Again(r)
            \/ Contract!MayRefuse(token[r]) /\ Over(r, "invalid")
            \/ Contract!MayAccept(token[r]) /\ Over(r, "accepted")
            \/ /\ ~Protected(token[r]) /\ Over(r, "unavailable")
<1>1. answer[r] \in KeySets /\ answer[r].set # {} /\ Sound(answer[r])
  BY SetIsThere DEF Arrives, IInv, TypeOK, SetsInv
<1>2. token[r] \in Contract!Tokens /\ token[r].flaw # "malformed"
  BY DEF Arrives, IInv, TypeOK, RequestInv, Contract!TypeOK
<1> QED BY <1>1, <1>2, JudgeOutcome, FailedOutcome DEF Arrives

LEMMA BeginIInv ==
  ASSUME IInv, NEW r \in Requests, NEW tok \in Contract!Tokens, Begin(r, tok)
  PROVE  IInv'
<1> USE DEF IInv
<1>1. RequestTypes
  BY DEF TypeOK, Contract!TypeOK, RequestTypes
<1>2. RequestTypes'
  BY <1>1, BeginOutcome DEF RequestTypes, Again, Over, Outcome, Awaits, Contract!Verdicts
<1>3. verdict'[r] # "none" /\ \A q \in Requests \ {r} : verdict'[q] = verdict[q]
  BY <1>1, BeginOutcome DEF RequestTypes, Again, Over, Outcome
<1>4. TypeOK'
  <2>1. token' \in [Requests -> Contract!Tokens \cup {Contract!NoToken}] /\ blips' \in [Requests -> 0..2]
    BY DEF Begin, Contract!Ask, TypeOK, Contract!TypeOK
  <2>2. \A q \in Requests : token'[q] = Contract!NoToken <=> verdict'[q] = "none"
    BY <1>3, TokenShape DEF Begin, Contract!Ask, TypeOK, Contract!TypeOK
  <2> QED BY <1>2, <2>1, <2>2 DEF Begin, realm, shared, TypeOK, Contract!TypeOK, RequestTypes
<1>5. RealmInv' /\ SetsInv'
  <2>1. \A q \in Requests : answer'[q] = NoKeys \/ answer'[q] = answer[q]
    BY <1>1, BeginOutcome DEF RequestTypes, Again, Over, Outcome
  <2> QED BY <2>1 DEF RealmInv, SetsInv, Sound, NoKeys, Begin, realm, shared
<1>6. RequestInv'
  <2>0. \A q \in Requests \ {r} : token'[q] = token[q] /\ blips'[q] = blips[q]
    BY DEF Begin, Contract!Ask, TypeOK, Contract!TypeOK
  <2>1. \A q \in Requests \ {r} : pc'[q] = pc[q] /\ attempt'[q] = attempt[q]
    BY <1>1, BeginOutcome DEF RequestTypes, Again, Over, Outcome
  <2>2. token'[r] = tok /\ constant' = constant
    BY DEF Begin, Contract!Ask, realm, TypeOK, Contract!TypeOK
  <2>3. /\ pc'[r] = "idle" => attempt'[r] = 1
        /\ pc'[r] # "idle" => tok.flaw # "malformed"
        /\ attempt'[r] = 2 => ~Protected(tok)
    BY <1>1, BeginOutcome DEF RequestTypes, Again, Over, Outcome
  <2> QED BY <2>0, <2>1, <2>2, <2>3 DEF RequestInv, Protected
<1> QED BY <1>4, <1>5, <1>6

LEMMA ArrivesIInv ==
  ASSUME IInv, NEW r \in Requests, Arrives(r)
  PROVE  IInv'
<1> USE DEF IInv
<1>1. RequestTypes
  BY DEF TypeOK, Contract!TypeOK, RequestTypes
<1>2. Again(r) \/ \E v \in {"accepted", "invalid", "unavailable"} : Over(r, v)
  BY ArrivesOutcome
<1>3. RequestTypes'
  BY <1>1, <1>2, OutcomeTypes
<1>4. \A q \in Requests : verdict'[q] = "none" <=> verdict[q] = "none"
  BY <1>1, <1>2 DEF Arrives, RequestTypes, Again, Over, Outcome
<1>5. answer[r] \in KeySets /\ answer[r] # NoKeys /\ Sound(answer[r])
  BY ArrivesOutcome DEF TypeOK, Arrives
<1>6. TypeOK'
  BY <1>3, <1>4, <1>5 DEF Arrives, realm, TypeOK, Contract!TypeOK, RequestTypes
<1>7. RealmInv' /\ SetsInv'
  <2>1. \A q \in Requests : answer'[q] = NoKeys \/ answer'[q] = answer[q]
    BY <1>1, <1>2, OutcomeSets DEF RequestTypes
  <2> QED BY <1>5, <2>1 DEF RealmInv, SetsInv, Sound, NoKeys, Arrives, realm
<1>8. RequestInv'
  <2>1. \A q \in Requests \ {r} : pc'[q] = pc[q] /\ attempt'[q] = attempt[q]
    BY <1>1, <1>2 DEF RequestTypes, Again, Over, Outcome
  <2>2. pc'[r] = "idle" => attempt'[r] = 1
    BY <1>1, <1>2 DEF RequestTypes, Again, Over, Outcome
  <2>3. attempt'[r] = 2 => ~Protected(token[r])
    BY <1>1, ArrivesOutcome DEF RequestTypes, Again, Over, Outcome
  <2> QED BY <2>1, <2>2, <2>3 DEF RequestInv, Protected, Arrives, realm
<1> QED BY <1>6, <1>7, <1>8

LEMMA FetchFailsIInv ==
  ASSUME IInv, NEW r \in Requests, FetchFails(r)
  PROVE  IInv'
<1> USE DEF IInv
<1>1. RequestTypes
  BY DEF TypeOK, Contract!TypeOK, RequestTypes
<1>2. Again(r) \/ \E v \in {"accepted", "invalid", "unavailable"} : Over(r, v)
  BY FailedIsOutcome DEF FetchFails
<1>3. RequestTypes'
  BY <1>1, <1>2, OutcomeTypes
<1>4. \A q \in Requests : verdict'[q] = "none" <=> verdict[q] = "none"
  BY <1>1, <1>2 DEF FetchFails, RequestTypes, Again, Over, Outcome
<1>5. /\ blips' \in [Requests -> 0..2]
      /\ blips'[r] # 0 /\ \A q \in Requests \ {r} : blips'[q] = blips[q]
  BY DEF FetchFails, Contract!Blip, TypeOK, Contract!TypeOK
<1>6. TypeOK'
  BY <1>3, <1>4, <1>5 DEF FetchFails, realm, shared, TypeOK, Contract!TypeOK, RequestTypes
<1>7. RealmInv' /\ SetsInv'
  <2>1. \A q \in Requests : answer'[q] = NoKeys \/ answer'[q] = answer[q]
    BY <1>1, <1>2, OutcomeSets DEF RequestTypes
  <2> QED BY <2>1 DEF RealmInv, SetsInv, Sound, NoKeys, FetchFails, realm, shared
<1>8. RequestInv'
  <2>1. \A q \in Requests \ {r} : pc'[q] = pc[q] /\ attempt'[q] = attempt[q]
    BY <1>1, <1>2 DEF RequestTypes, Again, Over, Outcome
  <2>2. pc'[r] = "idle" => attempt'[r] = 1
    BY <1>1, <1>2 DEF RequestTypes, Again, Over, Outcome
  <2> QED BY <1>5, <2>1, <2>2 DEF RequestInv, Protected, FetchFails, realm
<1> QED BY <1>6, <1>7, <1>8

(* The answer to a key set request is sound when it is sent, and stays so  *)
(* however the realm moves on before it arrives.                           *)
LEMMA CertsIInv ==
  ASSUME IInv, NEW r \in Requests, Certs(r)
  PROVE  IInv'
<1> USE DEF IInv
<1>1. PICK k \in published :
        answer' = [answer EXCEPT ![r] = [set |-> published, first |-> k]]
  BY DEF Certs
<1>2. [set |-> published, first |-> k] \in KeySets
  BY DEF RealmInv, TypeOK, Contract!TypeOK, KeySets, Keys
<1>3. [set |-> published, first |-> k] # NoKeys
  BY DEF RealmInv, NoKeys
<1>4. TypeOK'
  BY <1>1, <1>2, <1>3
     DEF Certs, realm, shared, TypeOK, Contract!TypeOK, Awaits
<1>5. Sound([set |-> published, first |-> k])
  BY DEF Sound, RealmInv
<1>6. RealmInv' /\ SetsInv'
  BY <1>1, <1>5 DEF RealmInv, SetsInv, Sound, Certs, realm, shared, TypeOK
<1>7. RequestInv'
  BY DEF RequestInv, Protected, Certs, realm, TypeOK
<1> QED BY <1>4, <1>6, <1>7

LEMMA DiscoveredIInv ==
  ASSUME IInv, NEW r \in Requests, Discovered(r)
  PROVE  IInv'
<1> USE DEF IInv, Discovered, realm
<1>1. TypeOK'
  BY DEF TypeOK, Contract!TypeOK, Awaits
<1>2. RealmInv' /\ SetsInv'
  BY DEF RealmInv, SetsInv, Sound
<1>3. RequestInv'
  BY DEF RequestInv, Protected, TypeOK
<1> QED BY <1>1, <1>2, <1>3

LEMMA RotatesIInv == ASSUME IInv, Rotates PROVE IInv'
<1> USE DEF IInv, Rotates, shared, local
<1>1. TypeOK'
  BY DEF TypeOK, Contract!TypeOK, Contract!RealmStep, Contract!Publish, Contract!Retire
<1>2. RealmInv'
  BY RealmKeeps
<1>3. SetsInv'
  BY RealmMoves DEF SetsInv, Sound
<1>4. RequestInv'
  BY RealmMoves DEF RequestInv, Protected
<1> QED BY <1>1, <1>2, <1>3, <1>4

LEMMA NextIInv == IInv /\ [Next]_vars => IInv'
<1> SUFFICES ASSUME IInv, [Next]_vars PROVE IInv'
  OBVIOUS
<1>1. CASE UNCHANGED vars
  BY <1>1 DEF vars, IInv, TypeOK, Contract!TypeOK, RealmInv, SetsInv, Sound,
              RequestInv, Protected
<1>2. CASE CacheExpires
  BY <1>2 DEF CacheExpires, realm, local, IInv, TypeOK, Contract!TypeOK, RealmInv,
              SetsInv, Sound, RequestInv, Protected
<1>3. CASE Rotates
  BY <1>3, RotatesIInv
<1>4. ASSUME NEW r \in Requests, NEW tok \in Contract!Tokens, Begin(r, tok) PROVE IInv'
  BY <1>4, BeginIInv
<1>5. ASSUME NEW r \in Requests, Step(r) PROVE IInv'
  BY <1>5, DiscoveredIInv, CertsIInv, ArrivesIInv, FetchFailsIInv DEF Step
<1> QED BY <1>1, <1>2, <1>3, <1>4, <1>5 DEF Next

(* Every step of a request is one the contract has for it, or a stutter.   *)
LEMMA BeginRefines ==
  ASSUME IInv, NEW r \in Requests, NEW tok \in Contract!Tokens, Begin(r, tok)
  PROVE  Contract!Next
<1>1. Contract!Ask(r, tok) /\ UNCHANGED Contract!realm
  BY DEF Begin, realm, Contract!realm
<1>2. Contract!Decide(r, "pending") \/ Contract!Verdict(r, tok)
  BY BeginOutcome DEF Again, Over, Outcome, Contract!Decide, Contract!Verdict
<1> QED BY <1>1, <1>2 DEF Contract!Next

(* A request that is still waiting has, for the contract, done nothing.    *)
LEMMA StillPending ==
  ASSUME TypeOK, NEW r \in Requests, verdict[r] = "pending", Again(r)
  PROVE  UNCHANGED verdict
BY DEF TypeOK, Contract!TypeOK, Again, Outcome

LEMMA ArrivesRefines ==
  ASSUME IInv, NEW r \in Requests, Arrives(r)
  PROVE  Contract!Next
<1>1. verdict[r] = "pending" /\ UNCHANGED <<published, constant, ever, token, blips>>
  BY DEF Arrives, realm, IInv, TypeOK
<1>2. CASE Again(r)
  BY <1>1, <1>2, StillPending DEF IInv, Contract!Next, Contract!realm
<1>3. CASE ~Again(r)
  <2>1. Contract!Verdict(r, token[r])
    BY <1>3, ArrivesOutcome
       DEF Over, Outcome, Contract!Decide, Contract!Verdict, Contract!MayGiveUp, Protected
  <2> QED BY <1>1, <2>1 DEF Contract!Next, Contract!realm
<1> QED BY <1>2, <1>3

LEMMA FetchFailsRefines ==
  ASSUME IInv, NEW r \in Requests, FetchFails(r)
  PROVE  Contract!Next
<1>1. /\ verdict[r] = "pending" /\ Contract!Blip(r)
      /\ UNCHANGED <<published, constant, ever, token>>
  BY DEF FetchFails, realm, IInv, TypeOK
<1>2. CASE Again(r)
  BY <1>1, <1>2, StillPending DEF IInv, Contract!Next, Contract!realm
<1>3. CASE attempt[r] = 2 /\ Over(r, "unavailable")
  <2>1. Protected(token[r]) => blips'[r] = 2
    BY <1>1, <1>3 DEF IInv, RequestInv, TypeOK, Contract!TypeOK, Contract!Blip
  <2>2. Contract!Verdict(r, token[r])
    BY <1>3, <2>1
       DEF Over, Outcome, Contract!Decide, Contract!Verdict, Contract!MayGiveUp, Protected
  <2> QED BY <1>1, <2>2 DEF Contract!Next, Contract!realm
<1> QED BY <1>2, <1>3, FailedOutcome DEF FetchFails

LEMMA NextRefines == IInv /\ [Next]_vars => [Contract!Next]_(Contract!vars)
<1> SUFFICES ASSUME IInv, [Next]_vars PROVE [Contract!Next]_(Contract!vars)
  OBVIOUS
<1>1. CASE UNCHANGED vars
  BY <1>1 DEF vars, Contract!vars
<1>2. CASE CacheExpires
  BY <1>2 DEF CacheExpires, realm, Contract!vars
<1>3. CASE Rotates
  BY <1>3 DEF Rotates, Contract!Next
<1>4. ASSUME NEW r \in Requests, NEW tok \in Contract!Tokens, Begin(r, tok)
      PROVE  Contract!Next
  BY <1>4, BeginRefines
<1>5. ASSUME NEW r \in Requests, Discovered(r) \/ Certs(r) PROVE UNCHANGED Contract!vars
  BY <1>5 DEF Discovered, Certs, realm, Contract!vars
<1>6. ASSUME NEW r \in Requests, Arrives(r) \/ FetchFails(r) PROVE Contract!Next
  BY <1>6, ArrivesRefines, FetchFailsRefines
<1> QED BY <1>1, <1>2, <1>3, <1>4, <1>5, <1>6 DEF Next, Step

-----------------------------------------------------------------------------
(* Every state of the verifier is well typed, and each request is at most  *)
(* at its second attempt (server.ts:302).                                  *)
THEOREM TypeCorrect == Spec => []TypeOK
<1>1. Spec => []IInv
  BY InitIInv, NextIInv, PTL DEF Spec
<1>2. IInv => TypeOK
  BY DEF IInv
<1> QED BY <1>1, <1>2, PTL

(* verifyToken keeps the contract of contract.json:54-70: whatever cache   *)
(* the other requests leave behind, and in whatever order their key sets   *)
(* arrive, nothing but a good token of a key the realm had is accepted, a  *)
(* good token of a constant key is never refused, and one that is signed   *)
(* by such a key is only given up after two failed round trips.            *)
THEOREM Refinement == Spec => KeepsContract
<1>1. Init => Contract!Init
  BY DEF Init
<1>2. Spec => []IInv
  BY InitIInv, NextIInv, PTL DEF Spec
<1> QED BY <1>1, <1>2, NextRefines, PTL DEF Spec, KeepsContract, Contract!Spec

-----------------------------------------------------------------------------
(* While no key is added, every published key is a constant one.           *)
NoneNewer == constant = published

Refusals ==
    \A r \in Requests :
        verdict[r] # "invalid" /\ verdict'[r] = "invalid"
           => ~(token'[r].flaw = "none" /\ token'[r].kid \in published)

LEMMA StaysNoneNewer ==
  IInv /\ NoneNewer /\ [Next]_vars /\ ever' = ever => NoneNewer'
<1> SUFFICES ASSUME IInv, NoneNewer, [Next]_vars, ever' = ever PROVE NoneNewer'
  OBVIOUS
<1>1. CASE UNCHANGED realm
  BY <1>1 DEF realm, NoneNewer
<1>2. ASSUME NEW k \in Keys, Contract!Publish(k) PROVE FALSE
  BY <1>2 DEF Contract!Publish
<1>3. ASSUME NEW k \in Keys, Contract!Retire(k) PROVE NoneNewer'
  BY <1>3 DEF Contract!Retire, NoneNewer
<1>4. CASE Rotates
  BY <1>2, <1>3, <1>4 DEF Rotates, Contract!RealmStep, Keys
<1> QED
  BY <1>1, <1>4 DEF Next, Step, vars, Begin, Discovered, Certs, Arrives, FetchFails,
                    CacheExpires, realm

(* The contract itself allows no such refusal then.                        *)
LEMMA ContractRefuses ==
  ASSUME Contract!TypeOK, NoneNewer, Contract!Next
  PROVE  Refusals
<1> SUFFICES ASSUME NEW r \in Requests, verdict[r] # "invalid", verdict'[r] = "invalid"
             PROVE  ~(token'[r].flaw = "none" /\ token'[r].kid \in published)
  BY DEF Refusals
<1>0. /\ verdict \in [Requests -> Contract!Verdicts]
      /\ token \in [Requests -> Contract!Tokens \cup {Contract!NoToken}]
  BY DEF Contract!TypeOK
<1>1. ASSUME NEW q \in Requests, NEW tok, Contract!Verdict(q, tok), token'[q] = tok
      PROVE  ~(token'[r].flaw = "none" /\ token'[r].kid \in published)
  <2>1. PICK v \in Contract!Verdicts :
           Contract!Decide(q, v) /\ (v = "invalid" => Contract!MayRefuse(tok))
    BY <1>1 DEF Contract!Verdict, Contract!Verdicts
  <2>2. q = r /\ v = "invalid"
    BY <1>0, <2>1 DEF Contract!Decide
  <2> QED BY <1>1, <2>1, <2>2 DEF Contract!MayRefuse, NoneNewer
<1>2. ASSUME NEW q \in Requests, Contract!Decide(q, "pending") PROVE FALSE
  BY <1>0, <1>2 DEF Contract!Decide
<1>3. ASSUME NEW q \in Requests, NEW tok \in Contract!Tokens, Contract!Ask(q, tok)
      PROVE  token'[q] = tok
  BY <1>0, <1>3 DEF Contract!Ask
<1> QED BY <1>0, <1>1, <1>2, <1>3 DEF Contract!Next

(* As long as the realm adds no key, whichever it takes out, no genuine    *)
(* token is refused as invalid: the refusals without a retry of            *)
(* server.ts:307 and 338 are those of the time after a new key, alone.     *)
THEOREM RefusalsNeedANewKey == Spec /\ [][UNCHANGED ever]_vars => GenuineIsNotRefused
<1>1. Spec => []IInv
  BY InitIInv, NextIInv, PTL DEF Spec
<1>2. Init => NoneNewer
  BY DEF Init, Contract!Init, NoneNewer
<1>3. IInv /\ NoneNewer /\ [Next]_vars /\ [UNCHANGED ever]_vars => NoneNewer'
  BY StaysNoneNewer DEF vars, realm
<1>4. IInv /\ NoneNewer /\ [Next]_vars => [Refusals]_vars
  <2> SUFFICES ASSUME IInv, NoneNewer, Next PROVE Refusals
    BY DEF Next
  <2>1. CASE Contract!Next
    BY <2>1, ContractRefuses DEF IInv, TypeOK
  <2>2. CASE UNCHANGED Contract!vars
    BY <2>2 DEF Contract!vars, Refusals
  <2> QED BY <2>1, <2>2, NextRefines
<1>5. Spec /\ [][UNCHANGED ever]_vars => [][Refusals]_vars
  <2> HIDE DEF Refusals
  <2> QED BY <1>1, <1>2, <1>3, <1>4, PTL DEF Spec
<1> QED BY <1>5 DEF Refusals, GenuineIsNotRefused
=============================================================================
