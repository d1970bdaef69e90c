--------------------------- MODULE MCTokenVerifier ----------------------------
(* Two requests in one process and a realm with two or three keys.  The    *)
(* runs also evaluate, around some seconds, what ServerSessionProofs       *)
(* proves for all.                                                         *)
EXTENDS TokenVerifier, Sequences

S == INSTANCE ServerSession

Nows == {0, 999, 1000, 999999, 1000000, 1000999, 1999999, 2000000, 61999999, 62000000}
Made == {S!MadeTs(made, ttl, 100) : made \in Nows, ttl \in {0, 1}}
Parts == {S!Empty} \cup {S!Json(session) : session \in Made}
         \cup {S!Mac(secret, S!Json(session)) : secret \in {"ours", "theirs"}, session \in Made}
         \cup {S!Text(letters) : letters \in {"ascii", "latin", "surrogate"}}
Values == UNION {[1..n -> Parts] : n \in 0..2}

ASSUME ReadAlike ==
    \A value \in Values, now \in Nows :
        LET read == S!UnsealTs(value, "ours", now)
        IN  S!UnsealPy(value, "ours", now) =
                IF S!Foreign(value) /\ read = S!NoSession THEN S!Raises ELSE read

ASSUME ReadUntilExpiry ==
    \A made \in Nows, now \in Nows, ttl \in {0, 1}, bytes \in {100, 3027} :
        LET session == S!MadePy(made, ttl, bytes)
            value == S!Seal(15, "ours", session)
        IN  /\ S!UnsealTs(value, "ours", now) = session <=> now < session.expiresAt * S!Second
            /\ S!UnsealTs(value, "theirs", now) = S!NoSession

ASSUME TooLargeIsNotSealed == S!Seal(15, "ours", S!MadeTs(0, 1, 3028)) = S!NoCookie
=============================================================================
