-------------------------- MODULE ServerSessionProofs --------------------------
(***************************************************************************)
(* What a session cookie, and a token's times, mean to the two packages:   *)
(* the same, for every moment, session and lifetime, but for what is said. *)
(***************************************************************************)
EXTENDS ServerSession, TLAPS

(* Cutting now to milliseconds, and those to seconds, is cutting to        *)
(* seconds.                                                                *)
LEMMA Cut ==
  ASSUME NEW n \in Nat, NEW d \in Nat, NEW f \in Nat, NEW i \in Nat,
         d * 1000 <= n, n < (d + 1) * 1000, f * 1000 <= d, d < (f + 1) * 1000,
         i * (1000 * 1000) <= n, n < (i + 1) * (1000 * 1000)
  PROVE  f = i
OBVIOUS

LEMMA Cuts ==
  ASSUME NEW now \in Nat
  PROVE  /\ DateNow(now) \in Nat /\ IntTime(now) \in Nat
         /\ DateNow(now) * 1000 <= now /\ now < (DateNow(now) + 1) * 1000
         /\ IntTime(now) * Second <= now /\ now < (IntTime(now) + 1) * Second
         /\ Floored(now) = IntTime(now)
<1>1. /\ DateNow(now) \in Nat
      /\ DateNow(now) * 1000 <= now /\ now < (DateNow(now) + 1) * 1000
  BY DEF DateNow
<1>2. /\ IntTime(now) \in Nat
      /\ IntTime(now) * Second <= now /\ now < (IntTime(now) + 1) * Second
  BY DEF IntTime, Second
<1>3. /\ Floored(now) \in Nat
      /\ Floored(now) * 1000 <= DateNow(now) /\ DateNow(now) < (Floored(now) + 1) * 1000
  BY <1>1 DEF Floored
<1>4. Floored(now) = IntTime(now)
  <2> DEFINE d == DateNow(now)
             f == Floored(now)
             i == IntTime(now)
  <2>1. /\ d \in Nat /\ d * 1000 <= now /\ now < (d + 1) * 1000
        /\ f \in Nat /\ f * 1000 <= d /\ d < (f + 1) * 1000
        /\ i \in Nat /\ i * (1000 * 1000) <= now /\ now < (i + 1) * (1000 * 1000)
    BY <1>1, <1>2, <1>3 DEF Second
  <2> HIDE DEF d, f, i
  <2>2. f = i
    BY <2>1, Cut
  <2> QED BY <2>2 DEF f, i
<1> QED BY <1>1, <1>2, <1>4

(* A whole second is reached by the one clock when it is by the others.    *)
LEMMA Reached ==
  ASSUME NEW now \in Nat, NEW s \in Nat
  PROVE  /\ s * Second \in Nat
         /\ s * 1000 <= DateNow(now) <=> s * Second <= now
         /\ s <= Floored(now) <=> s * Second <= now
         /\ s > Floored(now) + 60 <=> s * Second > now + 60 * Second
<1> DEFINE d == DateNow(now)
           i == IntTime(now)
<1>1. /\ d \in Nat /\ d * 1000 <= now /\ now < (d + 1) * 1000
      /\ i \in Nat /\ i * (1000 * 1000) <= now /\ now < (i + 1) * (1000 * 1000)
      /\ Floored(now) = i
  BY Cuts DEF Second
<1> HIDE DEF d, i
<1>2. s * (1000 * 1000) \in Nat /\ s * (1000 * 1000) = (s * 1000) * 1000
  OBVIOUS
<1>3. s * 1000 <= d <=> s * (1000 * 1000) <= now
  BY <1>1, <1>2
<1>4. s <= i <=> s * (1000 * 1000) <= now
  BY <1>1
<1>5. s > i + 60 <=> s * (1000 * 1000) > now + 60 * (1000 * 1000)
  BY <1>1
<1> QED BY <1>1, <1>2, <1>3, <1>4, <1>5 DEF Second, d

(* What either package seals is ASCII.                                     *)
LEMMA SealedIsNotForeign ==
  ASSUME NEW value, NEW secret, Genuine(value, secret)
  PROVE  ~Foreign(value)
BY DEF Genuine, Foreign, Ascii, Encodable, Mac

LEMMA Alike ==
  ASSUME NEW now \in Nat, NEW ttl \in Nat, NEW bytes \in Nat
  PROVE  MadeTs(now, ttl, bytes) = MadePy(now, ttl, bytes)
BY Cuts DEF MadeTs, MadePy

(* The two packages read the same session from every value with at most    *)
(* one dot whose signature is ASCII, as all that is sealed is, whoever     *)
(* wrote it and whatever its last second: the cookie is theirs in common   *)
(* (contract/conformance/interop.mjs:8-12).  Another signature, and a      *)
(* payload that UTF-8 cannot encode, raise in Python (server.py:412), which*)
(* by its docstring never does (line 403); TypeScript reads nothing.  With *)
(* more dots Python reads nothing, as contract.json:46 has it, and         *)
(* TypeScript what is before the second one (server.ts:437).               *)
THEOREM UnsealAlike ==
  ASSUME NEW Parts, NEW value \in Seq(Parts), NEW secret, NEW now \in Nat,
         Genuine(value, secret) => value[1].session.expiresAt \in Nat
  PROVE  /\ Len(value) <= 2 /\ ~Foreign(value) =>
               UnsealTs(value, secret, now) = UnsealPy(value, secret, now)
         /\ Foreign(value) => /\ UnsealPy(value, secret, now) = Raises
                              /\ UnsealTs(value, secret, now) = NoSession
         /\ Len(value) > 2 =>
               /\ UnsealPy(value, secret, now) = NoSession
               /\ UnsealTs(value, secret, now) = UnsealTs(<<value[1], value[2]>>, secret, now)
<1> DEFINE n == Len(value)
<1>0. n \in Nat
  OBVIOUS
<1> HIDE DEF n
<1>1. ASSUME Genuine(value, secret), n <= 2, ~Foreign(value)
      PROVE  UnsealTs(value, secret, now) = UnsealPy(value, secret, now)
  <2> DEFINE e == value[1].session.expiresAt
  <2>1. e * 1000 <= DateNow(now) <=> e * Second <= now
    BY <1>1, Reached
  <2>2. n <= 2 => (n >= 2 <=> n = 2)
    BY <1>0
  <2> QED BY <1>1, <2>1, <2>2 DEF UnsealTs, UnsealPy, n
<1>2. ASSUME ~Genuine(value, secret), ~Foreign(value)
      PROVE  UnsealTs(value, secret, now) = UnsealPy(value, secret, now)
  BY <1>2 DEF UnsealTs, UnsealPy
<1>3. ASSUME n > 2
      PROVE  /\ UnsealPy(value, secret, now) = NoSession
             /\ UnsealTs(value, secret, now) = UnsealTs(<<value[1], value[2]>>, secret, now)
  <2>0. n >= 2 /\ n # 2
    BY <1>0, <1>3
  <2> DEFINE cut == <<value[1], value[2]>>
  <2>1. Len(cut) = 2 /\ cut[1] = value[1] /\ cut[2] = value[2]
    OBVIOUS
  <2>2. Genuine(cut, secret) <=> Genuine(value, secret)
    BY <2>1 DEF Genuine
  <2>3. UnsealTs(value, secret, now) = UnsealTs(cut, secret, now)
    BY <2>0, <2>1, <2>2 DEF UnsealTs, n
  <2>4. UnsealPy(value, secret, now) = NoSession
    BY <2>0 DEF UnsealPy, Foreign, n
  <2> QED BY <2>3, <2>4
<1>4. n <= 2 /\ ~Foreign(value) => UnsealTs(value, secret, now) = UnsealPy(value, secret, now)
  BY <1>1, <1>2
<1>5. Foreign(value) => /\ UnsealPy(value, secret, now) = Raises
                        /\ UnsealTs(value, secret, now) = NoSession
  BY SealedIsNotForeign DEF UnsealPy, UnsealTs
<1> QED BY <1>3, <1>4, <1>5 DEF n

LEMMA Fits ==
  ASSUME NEW made \in Nat, NEW ttl \in Nat, NEW bytes \in Nat, NEW name \in Nat,
         Size(name, MadeTs(made, ttl, bytes)) <= ByteLimit
  PROVE  ~(Size(name, MadeTs(made, ttl, bytes)) > ByteLimit)
<1>1. Base64Url(bytes) \in Nat /\ Base64Url(32) \in Nat
  BY DEF Base64Url
<1>2. Size(name, MadeTs(made, ttl, bytes)) = name + 1 + Base64Url(bytes) + 1 + Base64Url(32)
  BY DEF Size, MadeTs
<1> QED BY <1>1, <1>2 DEF ByteLimit

(* A session is read, by either package and whichever made it, until the   *)
(* second its expiry names, and never with another secret: it holds for    *)
(* more than sessionTtlSeconds - 1 and for no more than sessionTtlSeconds. *)
THEOREM SessionHolds ==
  ASSUME NEW made \in Nat, NEW ttl \in Nat, NEW bytes \in Nat, NEW name \in Nat,
         NEW now \in Nat, NEW secret, NEW other,
         Size(name, MadeTs(made, ttl, bytes)) <= ByteLimit
  PROVE  LET session == MadeTs(made, ttl, bytes)
             value == Seal(name, secret, session)
         IN  /\ UnsealTs(value, secret, now) = session <=> now < session.expiresAt * Second
             /\ UnsealPy(value, secret, now) = session <=> now < session.expiresAt * Second
             /\ session.expiresAt * Second <= made + ttl * Second
             /\ made + ttl * Second < (session.expiresAt + 1) * Second
             /\ MadePy(made, ttl, bytes) = session
             /\ other # secret => /\ UnsealTs(value, other, now) = NoSession
                                  /\ UnsealPy(value, other, now) = NoSession
<1> DEFINE session == MadeTs(made, ttl, bytes)
           value == Seal(name, secret, session)
<1>1. session.whole /\ session.expiresAt = IntTime(made) + ttl /\ session.expiresAt \in Nat
  <2>1. Floored(made) = IntTime(made) /\ IntTime(made) \in Nat
    BY Cuts
  <2>2. IntTime(made) + ttl \in Nat
    BY <2>1
  <2> QED BY <2>1, <2>2 DEF MadeTs
<1>2. session # NoSession
  BY DEF MadeTs, NoSession
<1>3. /\ Len(value) = 2 /\ value[1] = Json(session)
      /\ value[2] = Mac(secret, Json(session))
  <2>1. ~(Size(name, session) > ByteLimit)
    BY Fits
  <2> QED BY <2>1 DEF Seal
<1>4. Genuine(value, secret) /\ value[1].session = session
  BY <1>1, <1>3 DEF Genuine, Json, Mac, Empty
<1>5. \A e \in Nat : /\ e * 1000 <= DateNow(now) <=> e * Second <= now
                     /\ e * Second \in Nat
  BY Reached
<1> HIDE DEF session
<1>6. /\ session.expiresAt * 1000 <= DateNow(now) <=> session.expiresAt * Second <= now
      /\ session.expiresAt * Second \in Nat
  BY <1>1, <1>5
<1>7. UnsealTs(value, secret, now) = session <=> now < session.expiresAt * Second
  BY <1>2, <1>3, <1>4, <1>6 DEF UnsealTs
<1>8. UnsealPy(value, secret, now) = session <=> now < session.expiresAt * Second
  BY <1>2, <1>3, <1>4, <1>6, SealedIsNotForeign DEF UnsealPy
<1>9. /\ session.expiresAt * Second <= made + ttl * Second
      /\ made + ttl * Second < (session.expiresAt + 1) * Second
  <2> DEFINE i == IntTime(made)
             e == session.expiresAt
  <2>1. /\ i \in Nat /\ i * (1000 * 1000) <= made /\ made < (i + 1) * (1000 * 1000)
        /\ e = i + ttl
    BY <1>1, Cuts DEF Second
  <2> HIDE DEF i, e
  <2>2. /\ e * (1000 * 1000) <= made + ttl * (1000 * 1000)
        /\ made + ttl * (1000 * 1000) < (e + 1) * (1000 * 1000)
    BY <2>1
  <2> QED BY <2>2 DEF Second, e
<1>10. other # secret => ~Genuine(value, other)
  BY <1>3 DEF Genuine, Mac
<1>11. other # secret => /\ UnsealTs(value, other, now) = NoSession
                         /\ UnsealPy(value, other, now) = NoSession
  BY <1>4, <1>10, SealedIsNotForeign DEF UnsealTs, UnsealPy
<1> QED BY <1>7, <1>8, <1>9, <1>11, Alike DEF session

(* A token the Python package finds timely, the TypeScript one does; the   *)
(* other way round only a token from the future is refused, by a time      *)
(* within the minute that server.ts:356 allows, or issued by such a clock. *)
THEOREM TimesDiffer ==
  ASSUME NEW claims, claims.exp \subseteq Nat, claims.nbf \subseteq Nat,
         claims.iat \subseteq Nat, NEW now \in Nat
  PROVE  /\ TimelyPy(claims, now) => TimelyTs(claims, now)
         /\ TimelyTs(claims, now) /\ ~TimelyPy(claims, now) =>
               \/ \E nbf \in claims.nbf : /\ now < nbf * Second
                                          /\ nbf * Second <= now + 60 * Second
               \/ \E iat \in claims.iat : now < iat * Second
<1>1. ASSUME NEW s \in Nat
      PROVE  /\ s <= Floored(now) <=> s * Second <= now
             /\ s > Floored(now) + 60 <=> s * Second > now + 60 * Second
  BY Reached
<1>2. \A s \in Nat : s * Second \in Nat
  BY Reached
<1>3. TimelyPy(claims, now) => TimelyTs(claims, now)
  <2>1. ASSUME NEW s \in Nat, ~(s * Second > now) PROVE ~(s > Floored(now) + 60)
    BY <1>1, <1>2, <2>1 DEF Second
  <2> QED BY <1>1, <2>1 DEF TimelyPy, TimelyTs
<1>4. ASSUME TimelyTs(claims, now), ~TimelyPy(claims, now)
      PROVE  \/ \E nbf \in claims.nbf : /\ now < nbf * Second
                                        /\ nbf * Second <= now + 60 * Second
             \/ \E iat \in claims.iat : now < iat * Second
  <2>1. CASE \E nbf \in claims.nbf : nbf * Second > now
    <3>1. PICK nbf \in claims.nbf : nbf * Second > now
      BY <2>1
    <3>2. nbf \in Nat /\ ~(nbf * Second > now + 60 * Second)
      BY <1>1, <1>4, <3>1 DEF TimelyTs
    <3>3. now < nbf * Second /\ nbf * Second <= now + 60 * Second
      BY <1>2, <3>1, <3>2 DEF Second
    <3> QED BY <3>3
  <2>2. CASE \E iat \in claims.iat : iat * Second > now
    <3>1. PICK iat \in claims.iat : iat * Second > now
      BY <2>2
    <3>2. now < iat * Second
      BY <1>2, <3>1
    <3> QED BY <3>2
  <2> QED BY <1>1, <1>4, <2>1, <2>2 DEF TimelyTs, TimelyPy
<1> QED BY <1>3, <1>4
=============================================================================
