------------------------------- MODULE AccessJwt -------------------------------
(***************************************************************************)
(* access-jwt.ts: the verification of Cloudflare Access tokens against the *)
(* team's key set, and what each failure is reported as.                   *)
(*                                                                         *)
(* jose (external) keeps the keys it fetched for MaxAge, refetches on an   *)
(* unknown kid unless the last fetch is less than Cooldown old, checks     *)
(* alg, signature and then the claims iss, aud, nbf, exp, and throws a     *)
(* coded error.  The team rotates its keys; its endpoint may be down, slow *)
(* or answer rubbish.  A token carries a kid and says whether that key     *)
(* really signed it.                                                       *)
(***************************************************************************)
EXTENDS Integers, FiniteSets
CONSTANTS Kids,           \* key ids the team uses over time
          JwtTokens,      \* tokens that arrive
          VerifierConfigs, \* configurations createAccessJwtVerifier is called with
          Null, Cooldown, JwtMaxAge, Tolerance,
          JwtLastTime     \* bound on time
ASSUME JwtAssumption ==
  /\ Cooldown \in Nat /\ JwtMaxAge \in Nat /\ Tolerance \in Nat /\ JwtLastTime \in Nat
  /\ Cooldown <= JwtMaxAge /\ \A t \in JwtTokens : t.nbf \in Int /\ t.exp \in Int
VARIABLES verifier,   \* the configuration; Null when it was refused
          published,  \* the keys the team serves
          since,      \* [Kids -> when it was last published or retired]
          heldKeys,   \* the keys jose holds; Null before the first fetch
          fetchedAt,
          answer,     \* the token verified last and what verify answered; Null once the world has moved on
          instant     \* time
jwtVars == <<verifier, published, since, heldKeys, fetchedAt, answer, instant>>

\* createAccessJwtVerifier's checks.
Usable(c) == c.https /\ c.audience # Null /\ c.oidPath # Null

---------------------------------------------------------------------------
(* jose: the key set after a look-up of a kid, or the error of its fetch   *)
Fresh == heldKeys # Null /\ instant < fetchedAt + JwtMaxAge
CooldownDuration == Cooldown
Cooling == heldKeys # Null /\ instant < fetchedAt + CooldownDuration
MustFetch(kid) == ~(Fresh /\ (kid \in heldKeys \/ Cooling))
FetchErrors == {"ERR_JWKS_TIMEOUT", "ERR_JWKS_INVALID", "TypeError fetch failed",
    "ERR_JOSE_GENERIC expected 200 ok"}

\* What the options pin: the algorithm, the issuer, the audience, the clock tolerance.
AudienceOK(t) == t.aud = verifier.audience
JoseError(t, keys) ==
  CASE t.alg # "RS256" -> "ERR_JOSE_ALG_NOT_ALLOWED"
    [] t.alg = "RS256" /\ t.kid \notin keys -> "ERR_JWKS_NO_MATCHING_KEY"
    [] t.alg = "RS256" /\ t.kid \in keys /\ ~t.signed -> "ERR_JWS_SIGNATURE_VERIFICATION_FAILED"
    [] OTHER ->
         IF ~t.iss THEN "claim iss" ELSE IF ~AudienceOK(t) THEN "claim aud"
         ELSE IF t.nbf > instant + Tolerance THEN "claim nbf"
         ELSE IF t.exp <= instant - Tolerance THEN "ERR_JWT_EXPIRED" ELSE "none"

(* classify *)
\* Mutant: a key endpoint that fails is the token's fault.
MutClassify(e) ==
  CASE e = "ERR_JWT_EXPIRED" -> "expired"
    [] e \in {"ERR_JWS_SIGNATURE_VERIFICATION_FAILED", "ERR_JWKS_NO_MATCHING_KEY"} -> "invalid_signature"
    [] e = "ERR_JOSE_ALG_NOT_ALLOWED" -> "wrong_algorithm"
    [] e = "claim iss" -> "bad_issuer"
    [] e = "claim aud" -> "bad_audience"
    [] e = "claim nbf" -> "not_yet_valid"
    [] OTHER -> "malformed"
Classify(e) ==
  CASE e = "ERR_JWT_EXPIRED" -> "expired"
    [] e \in {"ERR_JWS_SIGNATURE_VERIFICATION_FAILED", "ERR_JWKS_NO_MATCHING_KEY"} -> "invalid_signature"
    [] e = "ERR_JOSE_ALG_NOT_ALLOWED" -> "wrong_algorithm"
    [] e = "claim iss" -> "bad_issuer"
    [] e = "claim aud" -> "bad_audience"
    [] e = "claim nbf" -> "not_yet_valid"
    [] e \in FetchErrors -> "jwks_unavailable"
    [] OTHER -> "malformed"

Refusal(code) == [code |-> code]
(* verify, after the token was accepted: the claims become a principal *)
PrincipalOf(t) ==
  IF t.sub = Null THEN Refusal("missing_principal")
  ELSE IF t.oid # Null THEN [code |-> "ok", oid |-> t.oid, email |-> t.email, sub |-> t.sub]
  ELSE IF verifier.allowEmailFallback /\ t.email # Null THEN [code |-> "ok", oid |-> Null,
      email |-> t.email, sub |-> t.sub]
  ELSE Refusal("missing_principal")

JwtVerdict(t, keys) ==
  IF JoseError(t, keys) = "none" THEN PrincipalOf(t) ELSE Refusal(Classify(JoseError(t, keys)))
Answered(t, what, keys, at) == answer' = [token |-> t, what |-> what, keys |-> keys, fetched |-> at]

\* jwtVerify: from the keys it holds, after a fetch that worked, or after one that failed.
VerifyHeld(t) ==
  /\ verifier # Null
  /\ t.alg # "RS256" \/ ~MustFetch(t.kid)
  /\ LET keys == IF heldKeys = Null THEN {} ELSE heldKeys IN Answered(t, JwtVerdict(t, keys), keys, fetchedAt)
  /\ UNCHANGED <<verifier, published, since, heldKeys, fetchedAt, instant>>
VerifyFetched(t) ==
  /\ verifier # Null /\ t.alg = "RS256" /\ MustFetch(t.kid)
  /\ heldKeys' = published /\ fetchedAt' = instant
  /\ Answered(t, JwtVerdict(t, published), published, instant)
  /\ UNCHANGED <<verifier, published, since, instant>>
VerifyUnavailable(t) ==
  /\ verifier # Null /\ t.alg = "RS256" /\ MustFetch(t.kid)
  /\ \E e \in FetchErrors : Answered(t, Refusal(Classify(e)), IF heldKeys = Null THEN {} ELSE heldKeys,
       fetchedAt)
  /\ UNCHANGED <<verifier, published, since, heldKeys, fetchedAt, instant>>

---------------------------------------------------------------------------
\* External: keys are published and retired, time passes; a fetch may fail at any time.
Rotates(k) ==
  /\ published' = IF k \in published THEN published \ {k} ELSE published \cup {k}
  /\ since' = [since EXCEPT ![k] = instant]
  /\ answer' = Null
  /\ UNCHANGED <<verifier, heldKeys, fetchedAt, instant>>
JwtTick ==
  /\ instant < JwtLastTime /\ instant' = instant + 1
  /\ answer' = Null
  /\ UNCHANGED <<verifier, published, since, heldKeys, fetchedAt>>

JwtInit ==
  /\ verifier \in {IF Usable(c) THEN c ELSE Null : c \in VerifierConfigs}
  /\ published \in {{k} : k \in Kids}
  /\ since = [k \in Kids |-> 0]
  /\ heldKeys = Null /\ fetchedAt = 0 /\ answer = Null /\ instant = 0
JwtNext ==
  \/ JwtTick
  \/ \E k \in Kids : Rotates(k)
  \/ \E t \in JwtTokens : VerifyHeld(t) \/ VerifyFetched(t) \/ VerifyUnavailable(t)
JwtSpec == JwtInit /\ [][JwtNext]_jwtVars

---------------------------------------------------------------------------
JwtAdmitted == answer # Null /\ answer.what.code = "ok"

\* A verifier only runs with usable settings, and what it fetched is not from the future.
JwtTypeOK ==
  /\ verifier # Null => Usable(verifier)
  /\ published \subseteq Kids /\ fetchedAt <= instant
  /\ JwtAdmitted => answer.what.sub # Null
  /\ answer # Null => answer.what.code \in {"ok", "malformed", "invalid_signature", "expired", "not_yet_valid",
       "bad_issuer", "bad_audience", "wrong_algorithm", "missing_principal", "jwks_unavailable"}

\* A token is blamed only for what is wrong with the token: while the key set cannot be
\* fetched the answer is jwks_unavailable or comes from keys held, never "bad token"
\* (access-jwt.ts, "A 5xx, never a bad token").
OutageNotBlamed ==
  answer # Null /\ answer.token.alg = "RS256" /\ answer.what.code \in {"malformed", "invalid_signature"}
    => ~answer.token.signed \/ answer.token.kid \notin answer.keys
\* ... and a genuine token of a key the team now serves is called badly signed only for
\* Cooldown after the fetch that missed the key: rotation heals itself.
RotationHeals ==
  answer # Null /\ answer.what.code = "invalid_signature" /\ answer.token.signed
  /\ answer.token.kid \in published /\ since[answer.token.kid] < instant
    => instant < answer.fetched + Cooldown
\* A retired key stops working within MaxAge, and nobody is admitted on a token the team
\* did not sign for this application and this time.
AdmittedWasGenuine ==
  JwtAdmitted =>
    LET t == answer.token
    IN  /\ t.alg = "RS256" /\ t.signed /\ t.iss /\ t.aud = verifier.audience
        /\ t.nbf <= instant + Tolerance /\ instant < t.exp + Tolerance
        /\ t.kid \in published \/ since[t.kid] = instant \/ instant < since[t.kid] + JwtMaxAge
\* Whoever the token names by oid is that oid: the address stands in only when there is
\* no oid and the fallback was enabled.
OidWins ==
  JwtAdmitted => IF answer.token.oid # Null THEN answer.what.oid = answer.token.oid
              ELSE verifier.allowEmailFallback /\ answer.what.email = answer.token.email

\* The verifier of access tokens: it admits genuine tokens only, heals after a key rotation, never
\* blames a caller for an outage, and names the principal by oid.
JwtSafe == JwtTypeOK /\ OutageNotBlamed /\ RotationHeals /\ AdmittedWasGenuine /\ OidWins
=============================================================================
