----------------------------- MODULE ServerSession -----------------------------
(***************************************************************************)
(* The session cookie, and the times in a token, as the two server         *)
(* packages judge them: packages/caselaw-auth/src/server.ts ("Ts") and     *)
(* packages/python (Python, "Py"), which may share a secret and read each  *)
(* other's cookies, and packages/contract/contract.json:42-52.             *)
(*                                                                         *)
(* Now is in microseconds, as time.time() has it; Date.now() cuts it to    *)
(* milliseconds.  A cookie's value is the sequence of what stands between  *)
(* its dots.  Both languages write one session as the same bytes           *)
(* (contract.json:13-18), so a part that holds it is the session itself.   *)
(***************************************************************************)
EXTENDS Naturals, Sequences

Second == 1000 * 1000
DateNow(now) == now \div 1000                   \* milliseconds
Floored(now) == DateNow(now) \div 1000          \* Math.floor(Date.now() / 1000)
IntTime(now) == now \div Second                 \* int(time.time())

Empty == [is |-> "empty"]
Json(session) == [is |-> "json", session |-> session]
Mac(secret, payload) == [is |-> "mac", secret |-> secret, of |-> payload]
Text(letters) == [is |-> "text", letters |-> letters]   \* what nobody sealed
NoSession == [is |-> "none"]
Raises == [is |-> "raises"]

-----------------------------------------------------------------------------
(* What is sealed: a session says until when it holds, how many bytes its  *)
(* JSON has, and whether it has a user id and an expiry at all.            *)
MadeTs(now, ttl, bytes) == [whole |-> TRUE, bytes |-> bytes, expiresAt |-> Floored(now) + ttl]
MadePy(now, ttl, bytes) == [whole |-> TRUE, bytes |-> bytes, expiresAt |-> IntTime(now) + ttl]

(* Sealing throws rather than writes what the browser would drop.          *)
ByteLimit == 4096
Base64Url(bytes) == (4 * bytes + 2) \div 3      \* unpadded
Size(name, session) == name + 1 + Base64Url(session.bytes) + 1 + Base64Url(32)
NoCookie == <<>>
Seal(name, secret, session) ==
    IF Size(name, session) > ByteLimit THEN NoCookie
    ELSE <<Json(session), Mac(secret, Json(session))>>

(* What the two make of a value; `value.split('.')` drops what is after a  *)
(* second dot, and count(".") refuses it.                                  *)
Genuine(value, secret) ==
    /\ value[1] # Empty /\ value[2] # Empty
    /\ value[2] = Mac(secret, value[1])
    /\ value[1].is = "json" /\ value[1].session.whole

UnsealTs(value, secret, now) ==
    IF /\ Len(value) >= 2 /\ Genuine(value, secret)
       /\ ~(value[1].session.expiresAt * 1000 <= DateNow(now))
      THEN value[1].session ELSE NoSession

(* Python hashes a payload that UTF-8 can encode, and compares a signature *)
(* that is ASCII.  For another, hmac.compare_digest() raises a TypeError,  *)
(* and encode() a UnicodeEncodeError.                                      *)
Ascii(part) == part.is = "text" => part.letters = "ascii"
Encodable(part) == part.is = "text" => part.letters # "surrogate"
Foreign(value) == /\ Len(value) = 2 /\ value[1] # Empty /\ value[2] # Empty
                  /\ ~Encodable(value[1]) \/ ~Ascii(value[2])

UnsealPy(value, secret, now) ==
    IF Foreign(value) THEN Raises
    ELSE IF /\ Len(value) = 2 /\ Genuine(value, secret)
            /\ ~(value[1].session.expiresAt * Second <= now)
      THEN value[1].session ELSE NoSession

-----------------------------------------------------------------------------
(* The times of a token, each of them a set of one number, or of none.     *)
TimelyTs(claims, now) ==
    /\ \A exp \in claims.exp : ~(exp <= Floored(now))
    /\ \A nbf \in claims.nbf : ~(nbf > Floored(now) + 60)

(* PyJWT, which jwt.decode() leaves without a leeway.                      *)
TimelyPy(claims, now) ==
    /\ \A exp \in claims.exp : ~(exp * Second <= now)
    /\ \A nbf \in claims.nbf : ~(nbf * Second > now)
    /\ \A iat \in claims.iat : ~(iat * Second > now)
=============================================================================
