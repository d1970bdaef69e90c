-------------------------- MODULE PythonVerifierProofs --------------------------
(***************************************************************************)
(* PythonVerifier implements VerifierContract, for any number of threads,  *)
(* clients and keys, wherever a thread is interrupted; and a good token is *)
(* only left without a verdict for the reasons GivesUpForAReason names.    *)
(***************************************************************************)
EXTENDS PythonVerifier, TLAPS

RealmInv == /\ constant \subseteq published
            /\ published \subseteq ever
            /\ published # {}

(* A key set in a cache, or on its way, holds every key that was never     *)
(* taken out of the realm, and none that was never in it.                  *)
Sound(set) == set # {} => /\ constant \subseteq set
                          /\ set \subseteq ever

SetsInv == /\ \A c \in Clients : Sound(cached[c])
           /\ \A r \in Requests : Sound(answer[r])
           /\ \A r \in Requests : pc[r] \in {"fetched", "refetched"} => answer[r] # {}

(* A token the contract protects reaches the forced attempt only after a   *)
(* failed round trip; who finds the cell empty after its test of it has    *)
(* been disturbed.                                                         *)
Good(tok) == tok.flaw = "none" /\ tok.kid \in constant

RequestInv ==
    \A r \in Requests :
        /\ pc[r] = "idle" => attempt[r] = 1
        /\ attempt[r] = 2 /\ Good(token[r]) => blips[r] # 0
        /\ pc[r] \in {"age", "take"} /\ cell = None => disturbed[r]

IInv == TypeOK /\ RealmInv /\ SetsInv /\ RequestInv

-----------------------------------------------------------------------------
LEMMA TokenShape ==
  ASSUME NEW tok \in Contract!Tokens
  PROVE  /\ tok.flaw \in Contract!Flaws
         /\ tok # Contract!NoToken
         /\ tok.flaw = "none" => tok.kid \in Contract!KeysOf(tok.alg)
BY DEF Contract!Tokens, Contract!Malformed, Contract!NoToken, Contract!Flaws,
       Contract!Signed

LEMMA RealmKeeps == RealmInv /\ Contract!RealmStep => RealmInv'
BY DEF RealmInv, Contract!RealmStep, Contract!Publish, Contract!Retire

(* The realm only takes keys out of constant, and only adds to ever.       *)
LEMMA RealmMoves ==
  Contract!RealmStep => constant' \subseteq constant /\ ever \subseteq ever'
BY DEF Contract!RealmStep, Contract!Publish, Contract!Retire

(* A request that waits brought a token.                                   *)
LEMMA Waiting ==
  ASSUME TypeOK, NEW r \in Requests, pc[r] # "idle"
  PROVE  /\ verdict[r] = "pending"
         /\ token[r] \in Contract!Tokens
         /\ escaped[r] = None
BY DEF TypeOK, Contract!TypeOK

(* The key of a good token is in every sound set, among those that sign.   *)
LEMMA GoodKeyIsThere ==
  ASSUME NEW tok \in Contract!Tokens, Good(tok), NEW set, Sound(set), set # {}
  PROVE  tok.kid \in Signing(set)
<1>1. tok.kid \in Rsa \cup Ec
  BY TokenShape DEF Good, Contract!KeysOf
<1> QED BY <1>1, KeysAssumption DEF Good, Sound, Signing

(* What stays in the clients' caches stays sound.                          *)
LEMMA KeptSets ==
  ASSUME NEW sets \in [Clients -> SUBSET Keys], \A c \in Clients : Sound(sets[c]),
         Keep(sets)
  PROVE  /\ cached' \in [Clients -> SUBSET Keys]
         /\ \A c \in Clients : Sound(cached'[c])
<1>1. \A c \in Clients : cached'[c] = sets[c] \/ cached'[c] = {}
  BY DEF Keep
<1>2. cached' \in [Clients -> SUBSET Keys]
  BY DEF Keep
<1> QED BY <1>1, <1>2 DEF Sound

-----------------------------------------------------------------------------
(* What a step of request r may change besides r's own place: a round trip *)
(* that failed, the discovery document, and the clients' caches.           *)
Frame(r) ==
    /\ UNCHANGED <<realm, token>>
    /\ UNCHANGED blips \/ Contract!Blip(r)
    /\ discovery' \in BOOLEAN
    /\ cached' \in [Clients -> SUBSET Keys]
    /\ \A c \in Clients : Sound(cached'[c])

(* The ways an attempt ends, with what must be true of the token.          *)
Again(r) == /\ Reset(r) /\ Retry(r, 2) /\ UNCHANGED escaped
            /\ Good(token[r]) => blips'[r] # 0
GivenUp(r) == /\ Reset(r) /\ End(r, "unavailable") /\ UNCHANGED escaped
              /\ Good(token[r]) => blips'[r] = 2 \/ pc[r] = "discovery"
NotDiscovered(r) == /\ Leave(r, "unavailable") /\ UNCHANGED escaped
                    /\ pc[r] = "discovery"
Crashes(r) == Escape(r, "TypeError") /\ (token[r].flaw = "none" => disturbed[r])
Broken(r) == /\ Escape(r, "FetchError")
             /\ Good(token[r]) => blips'[r] # 0 /\ pc[r] \in Fetching
Accepted(r) == Leave(r, "accepted") /\ UNCHANGED escaped /\ Contract!MayAccept(token[r])
Refused(r) == Leave(r, "invalid") /\ UNCHANGED escaped /\ Contract!MayRefuse(token[r])

Ends(r) == \/ Again(r) \/ GivenUp(r) \/ NotDiscovered(r)
           \/ Crashes(r) \/ Broken(r) \/ Accepted(r) \/ Refused(r)

LEMMA BlipTypes ==
  ASSUME TypeOK, NEW r \in Requests, UNCHANGED blips \/ Contract!Blip(r)
  PROVE  /\ blips' \in [Requests -> 0..2]
         /\ \A q \in Requests \ {r} : blips'[q] = blips[q]
         /\ blips[r] # 0 => blips'[r] # 0
         /\ Contract!Blip(r) => blips'[r] # 0
         /\ Contract!Blip(r) /\ blips[r] # 0 => blips'[r] = 2
<1>1. blips \in [Requests -> 0..2]
  BY DEF TypeOK, Contract!TypeOK
<1>2. CASE UNCHANGED blips /\ ~Contract!Blip(r)
  BY <1>1, <1>2
<1>3. CASE Contract!Blip(r)
  BY <1>1, <1>3 DEF Contract!Blip
<1> QED BY <1>2, <1>3

(* Where an attempt that ends leaves its request.                          *)
Leaves(r, p, v, a) ==
    /\ pc' = [pc EXCEPT ![r] = p]
    /\ verdict' = [verdict EXCEPT ![r] = v]
    /\ attempt' = [attempt EXCEPT ![r] = a]
    /\ own' = [own EXCEPT ![r] = None]
    /\ answer' = [answer EXCEPT ![r] = {}]

Outcome(r) ==
    \/ Leaves(r, "create", "pending", 2)
    \/ Leaves(r, "discovery", "pending", 2)
    \/ \E v \in {"accepted", "invalid", "unavailable"} : Leaves(r, "idle", v, 1)

LEMMA EndsOutcome ==
  ASSUME TypeOK, NEW r \in Requests, pc[r] # "idle", Ends(r)
  PROVE  /\ Outcome(r)
         /\ attempt'[r] = 2 /\ Good(token[r]) => blips'[r] # 0
<1>0. /\ verdict[r] = "pending"
      /\ verdict \in [Requests -> Contract!Verdicts] /\ attempt \in [Requests -> {1, 2}]
  BY Waiting DEF TypeOK, Contract!TypeOK
<1>1. CASE Again(r)
  <2>1. verdict' = [verdict EXCEPT ![r] = "pending"]
    BY <1>0, <1>1 DEF Again, Retry
  <2>2. Leaves(r, Past, "pending", 2)
    BY <1>1, <2>1 DEF Again, Retry, Goto, Has, Leaves
  <2>3. Past = "create" \/ Past = "discovery"
    BY DEF Past
  <2>4. Outcome(r)
    BY <2>2, <2>3 DEF Outcome
  <2> QED BY <1>1, <2>4 DEF Again
<1>2. ASSUME NEW v \in {"accepted", "invalid", "unavailable"}, End(r, v)
      PROVE  Outcome(r) /\ attempt'[r] = 1
  BY <1>0, <1>2 DEF End, Goto, Has, Outcome, Leaves
<1>3. CASE GivenUp(r)
  BY <1>2, <1>3 DEF GivenUp
<1>4. CASE NotDiscovered(r)
  BY <1>2, <1>4 DEF NotDiscovered, Leave
<1>5. CASE Crashes(r) \/ Broken(r)
  BY <1>2, <1>5 DEF Crashes, Broken, Escape, Leave
<1>6. CASE Accepted(r)
  BY <1>2, <1>6 DEF Accepted, Leave
<1>7. CASE Refused(r)
  BY <1>2, <1>7 DEF Refused, Leave
<1> QED BY <1>1, <1>3, <1>4, <1>5, <1>6, <1>7 DEF Ends

(* The cell is left, or emptied with notice to everybody at work.          *)
LEMMA EndsCell ==
  ASSUME TypeOK, NEW r \in Requests, Ends(r)
  PROVE  /\ \/ UNCHANGED <<cell, fresh>> /\ disturbed' = [disturbed EXCEPT ![r] = FALSE]
            \/ Reset(r)
         /\ \/ UNCHANGED escaped
            \/ \E error \in Errors : /\ escaped' = [escaped EXCEPT ![r] = error]
                                     /\ End(r, "unavailable")
BY DEF Ends, Again, GivenUp, NotDiscovered, Crashes, Broken, Accepted, Refused, Escape,
       Leave, Errors

LEMMA EndsIInv ==
  ASSUME IInv, NEW r \in Requests, pc[r] # "idle", Frame(r), Ends(r)
  PROVE  IInv'
<1> USE DEF IInv
<1>1. /\ blips' \in [Requests -> 0..2]
      /\ \A q \in Requests \ {r} : blips'[q] = blips[q]
  BY BlipTypes DEF Frame
<1>2. Outcome(r)
  BY EndsOutcome
<1>3. /\ pc' \in [Requests -> Points]
      /\ verdict' \in [Requests -> Contract!Verdicts]
      /\ attempt' \in [Requests -> {1, 2}]
      /\ own' \in [Requests -> Clients \cup {None}]
      /\ answer' \in [Requests -> SUBSET Keys]
  BY <1>2 DEF Outcome, Leaves, TypeOK, Contract!TypeOK, Points, Contract!Verdicts
<1>4. /\ pc'[r] \in {"idle", "create", "discovery"}
      /\ pc'[r] = "idle" => attempt'[r] = 1
      /\ pc'[r] # "idle" <=> verdict'[r] = "pending"
      /\ verdict'[r] # "none"
      /\ own'[r] = None /\ answer'[r] = {}
  BY <1>2 DEF Outcome, Leaves, TypeOK, Contract!TypeOK
<1>5. \A q \in Requests \ {r} : /\ pc'[q] = pc[q] /\ verdict'[q] = verdict[q]
                                /\ attempt'[q] = attempt[q] /\ own'[q] = own[q]
                                /\ answer'[q] = answer[q]
  BY <1>2 DEF Outcome, Leaves, TypeOK, Contract!TypeOK
<1>6. /\ cell' \in Clients \cup {None} /\ fresh' \in BOOLEAN
      /\ fresh' => cell' # None
      /\ disturbed' \in [Requests -> BOOLEAN]
  BY EndsCell DEF Reset, TypeOK
<1>7. /\ escaped' \in [Requests -> Errors \cup {None}]
      /\ \A q \in Requests : escaped'[q] # None => verdict'[q] = "unavailable"
  <2>1. /\ escaped[r] = None /\ escaped \in [Requests -> Errors \cup {None}]
        /\ \A q \in Requests : escaped[q] # None => verdict[q] = "unavailable"
    BY Waiting DEF TypeOK
  <2>2. CASE UNCHANGED escaped
    BY <1>5, <2>1, <2>2
  <2>3. ASSUME NEW error \in Errors, escaped' = [escaped EXCEPT ![r] = error],
               End(r, "unavailable")
        PROVE  /\ escaped' \in [Requests -> Errors \cup {None}]
               /\ \A q \in Requests : escaped'[q] # None => verdict'[q] = "unavailable"
    <3>1. verdict'[r] = "unavailable"
      BY <2>3 DEF End, TypeOK, Contract!TypeOK
    <3> QED BY <1>5, <2>1, <2>3, <3>1
  <2> QED BY <2>2, <2>3, EndsCell
<1>8. TypeOK'
  <2>1. \A q \in Requests : token'[q] = Contract!NoToken <=> verdict'[q] = "none"
    BY <1>4, <1>5, Waiting, TokenShape DEF Frame, TypeOK, Contract!TypeOK
  <2>2. Contract!TypeOK'
    BY <1>1, <1>3, <2>1 DEF Frame, realm, TypeOK, Contract!TypeOK
  <2>3. \A q \in Requests : /\ pc'[q] # "idle" <=> verdict'[q] = "pending"
                            /\ own'[q] # None <=> pc'[q] \in Fetching \cup {"keys"}
    BY <1>4, <1>5 DEF TypeOK, Fetching
  <2> QED BY <1>3, <1>6, <1>7, <2>2, <2>3 DEF Frame, TypeOK
<1>9. RealmInv' /\ SetsInv'
  BY <1>4, <1>5 DEF RealmInv, SetsInv, Sound, Frame, realm
<1>10. RequestInv'
  <2>1. constant' = constant /\ token' = token
    BY DEF Frame, realm
  <2>2. attempt'[r] = 2 /\ Good(token[r]) => blips'[r] # 0
    BY EndsOutcome
  <2>3. \A q \in Requests \ {r} : pc[q] \in {"age", "take"} /\ cell' = None => disturbed'[q]
    <3>1. CASE UNCHANGED <<cell, fresh>> /\ disturbed' = [disturbed EXCEPT ![r] = FALSE]
      BY <3>1 DEF RequestInv, TypeOK
    <3>2. CASE Reset(r)
      BY <3>2 DEF Reset
    <3> QED BY <3>1, <3>2, EndsCell
  <2> QED BY <1>1, <1>4, <1>5, <2>1, <2>2, <2>3 DEF RequestInv, Good
<1> QED BY <1>8, <1>9, <1>10

(* A request that moves on without an end of its attempt.                  *)
Moves(r) ==
    /\ UNCHANGED <<verdict, attempt, escaped>>
    /\ UNCHANGED disturbed \/ HasRead(r)
    /\ pc' \in [Requests -> Points]
    /\ own' \in [Requests -> Clients \cup {None}]
    /\ answer' \in [Requests -> SUBSET Keys]
    /\ \A q \in Requests \ {r} : /\ pc'[q] = pc[q] /\ own'[q] = own[q]
                                 /\ answer'[q] = answer[q]
    /\ pc'[r] # "idle"
    /\ own'[r] # None <=> pc'[r] \in Fetching \cup {"keys"}
    /\ Sound(answer'[r])
    /\ pc'[r] \in {"fetched", "refetched"} => answer'[r] # {}
    /\ pc'[r] \in {"age", "take"} => cell' # None
    /\ cell' \in Clients \cup {None} /\ fresh' \in BOOLEAN
    /\ fresh' => cell' # None
    /\ cell' = None => cell = None

LEMMA MovesIInv ==
  ASSUME IInv, NEW r \in Requests, pc[r] # "idle", Frame(r), Moves(r)
  PROVE  IInv'
<1> USE DEF IInv, Moves
<1>1. /\ blips' \in [Requests -> 0..2]
      /\ blips[r] # 0 => blips'[r] # 0
      /\ \A q \in Requests \ {r} : blips'[q] = blips[q]
  BY BlipTypes DEF Frame
<1>2. TypeOK'
  <2>1. Contract!TypeOK'
    BY <1>1 DEF Frame, realm, TypeOK, Contract!TypeOK
  <2>2. \A q \in Requests : /\ pc'[q] # "idle" <=> verdict'[q] = "pending"
                            /\ own'[q] # None <=> pc'[q] \in Fetching \cup {"keys"}
    BY Waiting DEF TypeOK
  <2>3. disturbed' \in [Requests -> BOOLEAN]
    BY DEF HasRead, TypeOK
  <2> QED BY <2>1, <2>2, <2>3 DEF Frame, TypeOK
<1>3. RealmInv' /\ SetsInv'
  BY DEF RealmInv, SetsInv, Sound, Frame, realm
<1>4. RequestInv'
  BY <1>1 DEF RequestInv, Good, Frame, realm, HasRead, TypeOK
<1> QED BY <1>2, <1>3, <1>4

-----------------------------------------------------------------------------
(* Each step of a request keeps its frame, and moves on or ends.           *)
LEMMA SetsKept ==
  ASSUME IInv, UNCHANGED cached
  PROVE  /\ cached' \in [Clients -> SUBSET Keys]
         /\ \A c \in Clients : Sound(cached'[c])
BY DEF IInv, TypeOK, SetsInv

LEMMA AgeStep ==
  ASSUME IInv, NEW r \in Requests, Age(r)
  PROVE  pc[r] # "idle" /\ Frame(r) /\ (Moves(r) \/ Ends(r))
<1>1. Frame(r) /\ pc[r] = "age"
  BY SetsKept DEF Age, Frame, IInv, TypeOK
<1>2. CASE cell = None /\ Escape(r, "TypeError")
  BY <1>1, <1>2 DEF Ends, Crashes, IInv, RequestInv
<1>3. CASE /\ cell # None
           /\ Goto(r, IF fresh THEN "take" ELSE Past)
           /\ HasRead(r)
           /\ UNCHANGED <<verdict, cell, fresh, own, attempt, answer, escaped>>
  <2>1. PICK p \in {"take", "create", "discovery"} : pc' = [pc EXCEPT ![r] = p]
    BY <1>3 DEF Goto, Past
  <2> QED BY <1>1, <1>3, <2>1 DEF Moves, IInv, TypeOK, SetsInv, Points, Fetching
<1> QED BY <1>1, <1>2, <1>3 DEF Age

LEMMA TakeStep ==
  ASSUME IInv, NEW r \in Requests, Take(r)
  PROVE  pc[r] # "idle" /\ Frame(r) /\ (Moves(r) \/ Ends(r))
<1>1. Frame(r) /\ pc[r] = "take"
  BY SetsKept DEF Take, Frame, IInv, TypeOK
<1>2. CASE cell = None /\ Escape(r, "TypeError")
  BY <1>1, <1>2 DEF Ends, Crashes, IInv, RequestInv
<1>3. CASE /\ cell # None
           /\ Goto(r, "keys") /\ Has(r, cell)
           /\ HasRead(r)
           /\ UNCHANGED <<verdict, cell, fresh, attempt, answer, escaped>>
  BY <1>1, <1>3 DEF Goto, Has, Moves, IInv, TypeOK, SetsInv, Points, Fetching
<1> QED BY <1>1, <1>2, <1>3 DEF Take

LEMMA DiscoveredStep ==
  ASSUME IInv, NEW r \in Requests, Discovered(r)
  PROVE  pc[r] # "idle" /\ Frame(r) /\ (Moves(r) \/ Ends(r))
<1>1. Frame(r) /\ pc[r] = "discovery"
  BY SetsKept DEF Discovered, Frame
<1>2. Moves(r)
  BY <1>1 DEF Discovered, Goto, Moves, IInv, TypeOK, SetsInv, Points, Fetching
<1> QED BY <1>1, <1>2

LEMMA DiscoveryFailsStep ==
  ASSUME IInv, NEW r \in Requests, DiscoveryFails(r)
  PROVE  pc[r] # "idle" /\ Frame(r) /\ (Moves(r) \/ Ends(r))
<1>1. Frame(r) /\ pc[r] = "discovery"
  BY KeptSets DEF DiscoveryFails, Frame, IInv, TypeOK, SetsInv
<1>2. blips'[r] # 0
  BY BlipTypes DEF DiscoveryFails, IInv
<1>3. CASE Leave(r, "unavailable")
  BY <1>1, <1>3 DEF DiscoveryFails, Ends, NotDiscovered
<1>4. CASE Failed(r)
  BY <1>1, <1>2, <1>4 DEF DiscoveryFails, Failed, Ends, Again, GivenUp
<1> QED BY <1>1, <1>3, <1>4 DEF DiscoveryFails

LEMMA CreateStep ==
  ASSUME IInv, NEW r \in Requests, Create(r)
  PROVE  pc[r] # "idle" /\ Frame(r) /\ (Moves(r) \/ Ends(r))
<1>1. Frame(r) /\ pc[r] = "create"
  BY KeptSets DEF Create, Frame, IInv, TypeOK, SetsInv
<1>2. PICK c \in Clients : cell' = c /\ fresh' = TRUE /\ Has(r, c)
  BY DEF Create
<1>3. c # None
  BY ClientsAssumption
<1>4. Moves(r)
  BY <1>1, <1>2, <1>3 DEF Create, Goto, Has, Moves, IInv, TypeOK, SetsInv, Points, Fetching
<1> QED BY <1>1, <1>4

LEMMA CertsStep ==
  ASSUME IInv, NEW r \in Requests, Certs(r)
  PROVE  pc[r] # "idle" /\ Frame(r) /\ (Moves(r) \/ Ends(r))
<1>1. Frame(r) /\ pc[r] \in {"fetch", "refetch"}
  BY SetsKept DEF Certs, Frame, shared, IInv, TypeOK
<1>2. Sound(published) /\ published # {} /\ published \in SUBSET Keys
  BY DEF Sound, IInv, RealmInv, TypeOK, Contract!TypeOK, Keys
<1>3. PICK p \in {"fetched", "refetched"} : pc' = [pc EXCEPT ![r] = p]
  BY DEF Certs, Goto
<1>4. Moves(r)
  BY <1>1, <1>2, <1>3 DEF Certs, shared, Moves, IInv, TypeOK, SetsInv, Points, Fetching
<1> QED BY <1>1, <1>4

(* A token that is judged by a sound set gets a verdict it may have.       *)
LEMMA JudgeEnds ==
  ASSUME IInv, NEW r \in Requests, pc[r] # "idle", Judge(r),
         NEW set, Sound(set), token[r].kid \in Signing(set)
  PROVE  Ends(r)
<1>1. token[r] \in Contract!Tokens
  BY Waiting DEF IInv
<1>2. token[r].kid \in ever
  BY DEF Signing, Sound
<1>3. CASE token[r].kid \notin Contract!KeysOf(token[r].alg) /\ Escape(r, "TypeError")
  BY <1>1, <1>3, TokenShape DEF Ends, Crashes, Good
<1>4. CASE Leave(r, "accepted") /\ UNCHANGED escaped /\ token[r].flaw = "none"
  BY <1>2, <1>4 DEF Ends, Accepted, Contract!MayAccept
<1>5. CASE Leave(r, "invalid") /\ UNCHANGED escaped /\ token[r].flaw # "none"
  BY <1>5 DEF Ends, Refused, Contract!MayRefuse
<1> QED BY <1>3, <1>4, <1>5 DEF Judge

(* A key set without the key fails the attempt, of no good token.          *)
LEMMA FailedEnds ==
  ASSUME NEW r \in Requests, Failed(r), UNCHANGED escaped, ~Good(token[r])
  PROVE  Ends(r)
BY DEF Failed, Ends, Again, GivenUp

LEMMA NoSigningKeyEnds ==
  ASSUME NEW r \in Requests, NoSigningKey(r), ~Good(token[r])
  PROVE  Ends(r)
BY FailedEnds DEF NoSigningKey, Ends, Broken

LEMMA LookupStep ==
  ASSUME IInv, NEW r \in Requests, Lookup(r)
  PROVE  pc[r] # "idle" /\ Frame(r) /\ (Moves(r) \/ Ends(r))
<1> DEFINE set == cached[own[r]]
<1>1. Frame(r) /\ pc[r] = "keys"
  BY KeptSets DEF Lookup, Frame, IInv, TypeOK, SetsInv
<1>2. Sound(set)
  BY <1>1 DEF IInv, TypeOK, SetsInv
<1>3. token[r] \in Contract!Tokens
  BY <1>1, Waiting DEF IInv
<1>4. CASE token[r].flaw = "malformed" /\ Leave(r, "invalid") /\ UNCHANGED escaped
  BY <1>1, <1>4 DEF Ends, Refused, Contract!MayRefuse
<1>5. CASE token[r].kid \in Signing(set) /\ Judge(r)
  BY <1>1, <1>2, <1>5, JudgeEnds
<1>6. CASE set # {} /\ Signing(set) = {} /\ NoSigningKey(r)
  BY <1>1, <1>2, <1>3, <1>6, GoodKeyIsThere, NoSigningKeyEnds
<1>7. CASE /\ Goto(r, IF set = {} THEN "fetch" ELSE "refetch")
           /\ UNCHANGED <<verdict, cell, fresh, own, attempt, answer, escaped, disturbed>>
  <2>1. PICK p \in {"fetch", "refetch"} : pc' = [pc EXCEPT ![r] = p]
    BY <1>7 DEF Goto
  <2>2. Moves(r)
    BY <1>1, <1>7, <2>1 DEF Moves, IInv, TypeOK, SetsInv, Points, Fetching
  <2> QED BY <1>1, <2>2
<1> QED BY <1>1, <1>4, <1>5, <1>6, <1>7 DEF Lookup

LEMMA ArrivesStep ==
  ASSUME IInv, NEW r \in Requests, Arrives(r)
  PROVE  pc[r] # "idle" /\ Frame(r) /\ (Moves(r) \/ Ends(r))
<1>1. /\ pc[r] \in {"fetched", "refetched"}
      /\ Sound(answer[r]) /\ answer[r] # {} /\ answer[r] \in SUBSET Keys
  BY DEF Arrives, IInv, TypeOK, SetsInv
<1>2. Frame(r)
  <2> DEFINE sets == [cached EXCEPT ![own[r]] = answer[r]]
  <2>1. sets \in [Clients -> SUBSET Keys] /\ \A c \in Clients : Sound(sets[c])
    BY <1>1 DEF IInv, TypeOK, SetsInv
  <2> QED BY <2>1, KeptSets DEF Arrives, Frame, IInv, TypeOK
<1>3. token[r] \in Contract!Tokens
  BY <1>1, Waiting DEF IInv
<1>4. CASE token[r].kid \in Signing(answer[r]) /\ Judge(r)
  BY <1>1, <1>2, <1>4, JudgeEnds
<1>5. CASE /\ token[r].kid \notin Signing(answer[r])
           /\ NoSigningKey(r) \/ (Failed(r) /\ UNCHANGED escaped)
  BY <1>1, <1>2, <1>3, <1>5, GoodKeyIsThere, NoSigningKeyEnds, FailedEnds
<1>6. CASE /\ Goto(r, "refetch") /\ answer' = [answer EXCEPT ![r] = {}]
           /\ UNCHANGED <<verdict, cell, fresh, own, attempt, escaped, disturbed>>
  <2>1. Moves(r)
    BY <1>1, <1>6 DEF Goto, Moves, Sound, IInv, TypeOK, SetsInv, Points, Fetching
  <2> QED BY <1>1, <1>2, <2>1
<1> QED BY <1>1, <1>2, <1>4, <1>5, <1>6 DEF Arrives

LEMMA FetchFailsStep ==
  ASSUME IInv, NEW r \in Requests, FetchFails(r)
  PROVE  pc[r] # "idle" /\ Frame(r) /\ (Moves(r) \/ Ends(r))
<1>1. pc[r] \in Fetching /\ pc[r] # "idle"
  BY DEF FetchFails, Fetching
<1>2. Frame(r)
  <2> DEFINE sets == [cached EXCEPT ![own[r]] = {}]
  <2>1. sets \in [Clients -> SUBSET Keys] /\ \A c \in Clients : Sound(sets[c])
    BY DEF Sound, IInv, TypeOK, SetsInv
  <2> QED BY <2>1, KeptSets DEF FetchFails, Frame, IInv, TypeOK
<1>3. blips'[r] # 0 /\ (blips[r] # 0 => blips'[r] = 2)
  BY BlipTypes DEF FetchFails, IInv
<1>4. CASE Failed(r) /\ UNCHANGED escaped /\ attempt[r] = 2
  BY <1>1, <1>2, <1>3, <1>4 DEF Failed, Ends, GivenUp, IInv, RequestInv
<1>5. CASE Failed(r) /\ UNCHANGED escaped /\ attempt[r] # 2
  BY <1>1, <1>2, <1>3, <1>5 DEF Failed, Ends, Again
<1>6. CASE Escape(r, "FetchError")
  BY <1>1, <1>2, <1>3, <1>6 DEF Ends, Broken
<1> QED BY <1>4, <1>5, <1>6 DEF FetchFails

LEMMA StepEffect ==
  ASSUME IInv, NEW r \in Requests, Step(r)
  PROVE  pc[r] # "idle" /\ Frame(r) /\ (Moves(r) \/ Ends(r))
BY AgeStep, TakeStep, DiscoveredStep, DiscoveryFailsStep, CreateStep, LookupStep,
   CertsStep, ArrivesStep, FetchFailsStep DEF Step

-----------------------------------------------------------------------------
LEMMA InitIInv == Init => IInv
<1> SUFFICES ASSUME Init PROVE IInv
  OBVIOUS
<1> USE DEF Init, Contract!Init
<1>1. Contract!TypeOK
  BY DEF Contract!TypeOK, Contract!Verdicts
<1>2. TypeOK
  BY <1>1 DEF TypeOK, Points, Fetching
<1>3. RealmInv /\ SetsInv /\ RequestInv
  BY DEF RealmInv, SetsInv, Sound, RequestInv
<1> QED BY <1>2, <1>3 DEF IInv

(* A request begins at the test of the cell, or past it.                   *)
LEMMA BeginIInv ==
  ASSUME IInv, NEW r \in Requests, NEW tok \in Contract!Tokens, Begin(r, tok)
  PROVE  IInv'
<1> USE DEF IInv, Begin, Contract!Ask, realm, shared
<1>1. PICK p \in {"age", "create", "discovery"} :
        pc' = [pc EXCEPT ![r] = p] /\ (p = "age" => cell # None)
  BY DEF Goto, Past
<1>2. TypeOK'
  <2>1. /\ token' \in [Requests -> Contract!Tokens \cup {Contract!NoToken}]
        /\ blips' \in [Requests -> 0..2]
        /\ verdict' \in [Requests -> Contract!Verdicts]
    BY DEF TypeOK, Contract!TypeOK, Contract!Verdicts
  <2>2. \A q \in Requests : token'[q] = Contract!NoToken <=> verdict'[q] = "none"
    BY TokenShape DEF TypeOK, Contract!TypeOK
  <2>3. Contract!TypeOK'
    BY <2>1, <2>2 DEF TypeOK, Contract!TypeOK
  <2>4. /\ pc' \in [Requests -> Points]
        /\ \A q \in Requests : /\ pc'[q] # "idle" <=> verdict'[q] = "pending"
                               /\ own'[q] # None <=> pc'[q] \in Fetching \cup {"keys"}
    BY <1>1 DEF TypeOK, Contract!TypeOK, Points, Fetching
  <2>5. /\ escaped' \in [Requests -> Errors \cup {None}]
        /\ \A q \in Requests : escaped'[q] # None => verdict'[q] = "unavailable"
        /\ disturbed' \in [Requests -> BOOLEAN]
    BY DEF TypeOK, Contract!TypeOK
  <2> QED BY <2>3, <2>4, <2>5 DEF TypeOK
<1>3. RealmInv' /\ SetsInv'
  BY <1>1 DEF RealmInv, SetsInv, Sound, TypeOK
<1>4. RequestInv'
  BY <1>1 DEF RequestInv, Good, TypeOK, Contract!TypeOK
<1> QED BY <1>2, <1>3, <1>4

LEMMA ExpiresIInv ==
  ASSUME IInv, CellExpires \/ \E c \in Clients : ClientExpires(c)
  PROVE  IInv'
<1> USE DEF IInv, realm, local
<1>1. CASE CellExpires
  BY <1>1 DEF CellExpires, TypeOK, Contract!TypeOK, RealmInv, SetsInv, Sound, RequestInv, Good
<1>2. ASSUME NEW c \in Clients, ClientExpires(c)
      PROVE  IInv'
  BY <1>2 DEF ClientExpires, TypeOK, Contract!TypeOK, RealmInv, SetsInv, Sound, RequestInv, Good
<1> QED BY <1>1, <1>2

LEMMA RotatesIInv == ASSUME IInv, Rotates PROVE IInv'
<1> USE DEF IInv, Rotates, shared, local
<1>1. TypeOK'
  BY DEF TypeOK, Contract!TypeOK, Contract!RealmStep, Contract!Publish, Contract!Retire
<1>2. RealmInv'
  BY RealmKeeps
<1>3. SetsInv'
  BY RealmMoves DEF SetsInv, Sound
<1>4. RequestInv'
  BY RealmMoves DEF RequestInv, Good
<1> QED BY <1>1, <1>2, <1>3, <1>4

LEMMA NextIInv == IInv /\ [Next]_vars => IInv'
<1> SUFFICES ASSUME IInv, [Next]_vars PROVE IInv'
  OBVIOUS
<1>1. CASE UNCHANGED vars
  BY <1>1 DEF vars, IInv, TypeOK, Contract!TypeOK, RealmInv, SetsInv, Sound,
              RequestInv, Good
<1>2. CASE CellExpires \/ \E c \in Clients : ClientExpires(c)
  BY <1>2, ExpiresIInv
<1>3. CASE Rotates
  BY <1>3, RotatesIInv
<1>4. ASSUME NEW r \in Requests, NEW tok \in Contract!Tokens, Begin(r, tok) PROVE IInv'
  BY <1>4, BeginIInv
<1>5. ASSUME NEW r \in Requests, Step(r) PROVE IInv'
  BY <1>5, StepEffect, EndsIInv, MovesIInv
<1> QED BY <1>1, <1>2, <1>3, <1>4, <1>5 DEF Next

-----------------------------------------------------------------------------
(* Every end of an attempt is one the contract has, or a stutter of it.    *)
LEMMA EndsRefines ==
  ASSUME IInv, NEW r \in Requests, pc[r] # "idle", Frame(r), Ends(r)
  PROVE  Contract!Next
<1>1. /\ verdict[r] = "pending"
      /\ UNCHANGED <<Contract!realm, token>>
      /\ UNCHANGED blips \/ Contract!Blip(r)
  BY Waiting DEF IInv, Frame, realm, Contract!realm
<1>2. blips'[r] >= 0
  BY BlipTypes DEF IInv, Frame
<1>3. CASE Again(r)
  BY <1>1, <1>3 DEF Again, Retry, Contract!Next
<1>4. CASE \E v \in {"unavailable"} : End(r, v)
  <2>1. Contract!MayGiveUp(token[r], blips'[r])
    BY <1>2 DEF Contract!MayGiveUp
  <2> QED BY <1>1, <1>4, <2>1 DEF End, Contract!Decide, Contract!Verdict, Contract!Next
<1>5. CASE Accepted(r)
  BY <1>1, <1>5 DEF Accepted, Leave, End, Contract!Decide, Contract!Verdict, Contract!Next
<1>6. CASE Refused(r)
  BY <1>1, <1>6 DEF Refused, Leave, End, Contract!Decide, Contract!Verdict, Contract!Next
<1> QED
  BY <1>3, <1>4, <1>5, <1>6
     DEF Ends, GivenUp, NotDiscovered, Crashes, Broken, Escape, Leave

LEMMA NextRefines == IInv /\ [Next]_vars => [Contract!Next]_(Contract!vars)
<1> SUFFICES ASSUME IInv, [Next]_vars PROVE [Contract!Next]_(Contract!vars)
  OBVIOUS
<1>1. CASE UNCHANGED vars
  BY <1>1 DEF vars, Contract!vars
<1>2. CASE CellExpires \/ \E c \in Clients : ClientExpires(c)
  BY <1>2 DEF CellExpires, ClientExpires, realm, Contract!vars
<1>3. CASE Rotates
  BY <1>3 DEF Rotates, Contract!Next
<1>4. ASSUME NEW r \in Requests, NEW tok \in Contract!Tokens, Begin(r, tok)
      PROVE  Contract!Next
  BY <1>4 DEF Begin, realm, Contract!realm, Contract!Decide, Contract!Next
<1>5. ASSUME NEW r \in Requests, Step(r)
      PROVE  [Contract!Next]_(Contract!vars)
  <2>1. pc[r] # "idle" /\ Frame(r)
    BY <1>5, StepEffect
  <2>2. CASE Ends(r)
    BY <2>1, <2>2, EndsRefines
  <2>3. CASE Moves(r)
    BY <2>1, <2>3, Waiting DEF IInv, Moves, Frame, realm, Contract!realm, Contract!Next
  <2> QED BY <1>5, <2>2, <2>3, StepEffect
<1> QED BY <1>1, <1>2, <1>3, <1>4, <1>5 DEF Next

-----------------------------------------------------------------------------
(* What GivesUpForAReason asks of one step.                                *)
Reasons ==
    \A r \in Requests : NoVerdict(r) /\ Protected(r) =>
        \/ escaped'[r] = None /\ (blips'[r] = 2 \/ pc[r] = "discovery")
        \/ escaped'[r] = "FetchError" /\ blips'[r] # 0 /\ pc[r] \in Fetching
        \/ escaped'[r] = "TypeError" /\ disturbed[r]

(* Of a request that waits, only a step of its own changes what it is told. *)
LEMMA NextReasons == IInv /\ [Next]_vars => [Reasons]_vars
<1> SUFFICES ASSUME IInv, [Next]_vars,
                    NEW r \in Requests, NoVerdict(r), Protected(r)
             PROVE  \/ escaped'[r] = None /\ (blips'[r] = 2 \/ pc[r] = "discovery")
                    \/ escaped'[r] = "FetchError" /\ blips'[r] # 0 /\ pc[r] \in Fetching
                    \/ escaped'[r] = "TypeError" /\ disturbed[r]
  BY DEF Reasons
<1>0. /\ escaped[r] = None /\ pc[r] # "idle"
      /\ verdict[r] = "pending" /\ verdict'[r] = "unavailable"
      /\ verdict \in [Requests -> Contract!Verdicts]
      /\ escaped \in [Requests -> Errors \cup {None}]
  BY DEF NoVerdict, IInv, TypeOK, Contract!TypeOK
<1>1. CASE UNCHANGED verdict
  BY <1>0, <1>1
<1>2. ASSUME NEW q \in Requests, NEW tok \in Contract!Tokens, Begin(q, tok)
      PROVE  FALSE
  BY <1>0, <1>2 DEF Begin
<1>3. ASSUME NEW q \in Requests, Step(q), q # r
      PROVE  FALSE
  <2>1. CASE Moves(q)
    BY <1>0, <2>1 DEF Moves
  <2>2. CASE Ends(q)
    BY <1>0, <1>3, <2>2 DEF Ends, Again, GivenUp, NotDiscovered, Crashes, Broken,
                            Accepted, Refused, Escape, Leave, Retry, End
  <2> QED BY <1>3, <2>1, <2>2, StepEffect
<1>4. CASE Step(r)
  <2>1. Good(token[r])
    BY <1>4, StepEffect DEF Protected, Good, Frame, realm
  <2>3. CASE Moves(r)
    BY <1>0, <2>3 DEF Moves
  <2>4. CASE Again(r)
    BY <1>0, <2>4 DEF Again, Retry
  <2>5. CASE GivenUp(r)
    BY <1>0, <2>1, <2>5 DEF GivenUp
  <2>6. CASE NotDiscovered(r)
    BY <1>0, <2>6 DEF NotDiscovered
  <2>7. CASE Crashes(r) \/ Broken(r)
    BY <1>0, <2>1, <2>7 DEF Crashes, Broken, Escape, Good
  <2>8. CASE Accepted(r) \/ Refused(r)
    BY <1>0, <2>8 DEF Accepted, Refused, Leave, End
  <2> QED BY <1>4, <2>3, <2>4, <2>5, <2>6, <2>7, <2>8, StepEffect DEF Ends
<1> QED
  BY <1>1, <1>2, <1>3, <1>4
     DEF Next, vars, CellExpires, ClientExpires, Rotates

-----------------------------------------------------------------------------
(* Every state of the verifier is well typed, whatever the threads, and    *)
(* each request is at most at its second attempt (server.py:298).          *)
THEOREM ThreadsTypeCorrect == Spec => []TypeOK
<1>1. Spec => []IInv
  BY InitIInv, NextIInv, PTL DEF Spec
<1>2. IInv => TypeOK
  BY DEF IInv
<1> QED BY <1>1, <1>2, PTL

(* verify_token keeps the contract of contract.json:54-70: wherever a      *)
(* thread is interrupted, and whatever the others leave in the cell and in *)
(* the clients, nothing but a good token of a key the realm had is         *)
(* accepted, and a good token of a constant key is never refused.          *)
THEOREM ThreadsKeepContract == Spec => KeepsContract
<1>1. Init => Contract!Init
  BY DEF Init
<1>2. Spec => []IInv
  BY InitIInv, NextIInv, PTL DEF Spec
<1> QED BY <1>1, <1>2, NextRefines, PTL DEF Spec, KeepsContract, Contract!Spec

(* A good token of a constant key is left without a verdict only after two *)
(* failed round trips, or one of the discovery, or one of the keys that    *)
(* ends in an error line 312 does not catch; and with a TypeError only     *)
(* when another thread's attempt has failed (server.py:297-316).           *)
THEOREM ThreadsGiveUpForAReason == Spec => GivesUpForAReason
<1>1. Spec => []IInv
  BY InitIInv, NextIInv, PTL DEF Spec
<1>2. Spec => [][Reasons]_vars
  BY <1>1, NextReasons, PTL DEF Spec
<1> QED BY <1>2 DEF Reasons, GivesUpForAReason

-----------------------------------------------------------------------------
(* Where calls do not overlap nobody is disturbed.                         *)
OneAtATime  == \A q, r \in Requests : pc[q] # "idle" /\ pc[r] # "idle" => q = r
Undisturbed == (\A r \in Requests : ~disturbed[r]) /\ NoTypeErrors

LEMMA NextUndisturbed ==
  IInv /\ OneAtATime /\ Undisturbed /\ [Next]_vars => Undisturbed'
<1> SUFFICES ASSUME IInv, OneAtATime, Undisturbed, [Next]_vars PROVE Undisturbed'
  OBVIOUS
<1> USE DEF Undisturbed, NoTypeErrors
<1>0. /\ escaped \in [Requests -> Errors \cup {None}] /\ disturbed \in [Requests -> BOOLEAN]
      /\ token \in [Requests -> Contract!Tokens \cup {Contract!NoToken}]
  BY DEF IInv, TypeOK, Contract!TypeOK
<1>1. CASE UNCHANGED <<token, escaped, disturbed>>
  BY <1>1
<1>2. ASSUME NEW r \in Requests, NEW tok \in Contract!Tokens, Begin(r, tok) PROVE Undisturbed'
  BY <1>0, <1>2, ClientsAssumption DEF Begin, Contract!Ask
<1>3. ASSUME NEW r \in Requests, Step(r) PROVE Undisturbed'
  <2>0. pc[r] # "idle" /\ Frame(r) /\ token' = token
    BY <1>3, StepEffect DEF Frame
  <2>1. CASE Moves(r)
    BY <1>0, <2>0, <2>1 DEF Moves, HasRead
  <2>2. CASE Ends(r)
    <3>1. \A q \in Requests : ~disturbed'[q]
      <4>1. CASE disturbed' = [disturbed EXCEPT ![r] = FALSE]
        BY <1>0, <4>1
      <4>2. CASE Reset(r)
        BY <2>0, <4>2 DEF Reset, OneAtATime, IInv, TypeOK
      <4> QED BY <2>2, <4>1, <4>2, EndsCell DEF IInv
    <3>2. \/ UNCHANGED escaped
          \/ escaped' = [escaped EXCEPT ![r] = "TypeError"] /\ token[r].flaw # "none"
          \/ escaped' = [escaped EXCEPT ![r] = "FetchError"]
      BY <2>2 DEF Ends, Again, GivenUp, NotDiscovered, Crashes, Broken, Accepted, Refused,
                  Escape
    <3> QED BY <1>0, <2>0, <3>1, <3>2
  <2> QED BY <1>3, <2>1, <2>2, StepEffect
<1> QED BY <1>1, <1>2, <1>3 DEF Next, vars, CellExpires, ClientExpires, Rotates

(* Calls that do not overlap, as under a lock or in one thread, do not end *)
(* with a TypeError for a token with nothing wrong with it: that of line   *)
(* 268 is the threads' alone.  The errors of a fetch that line 312 does    *)
(* not catch can end a lone call too, which GivesUpForAReason says.        *)
THEOREM OneAtATimeIsEnough == Spec /\ []OneAtATime => []NoTypeErrors
<1>1. Spec => []IInv
  BY InitIInv, NextIInv, PTL DEF Spec
<1>2. Init => Undisturbed
  BY ClientsAssumption DEF Init, Undisturbed, NoTypeErrors
<1>3. Undisturbed => NoTypeErrors
  BY DEF Undisturbed
<1> QED BY <1>1, <1>2, <1>3, NextUndisturbed, PTL DEF Spec
=============================================================================
