----------------------------- MODULE MCIdentity -----------------------------
(***************************************************************************)
(* Small instances of the identity package side by side: the initial state *)
(* picks the part that runs, the others stay as they start.  Attempts,     *)
(* browsers, sign-ins, requests, tokens, sessions and providers share the  *)
(* model values x1, x2; devices, calls, users and pods share y1, y2, so    *)
(* that one permutation acts on all of them.                               *)
(***************************************************************************)
EXTENDS SignInThrottle, KnownDevice, SignUpPolicy, AccessJwt, AccountLife,
        UserSessions, SessionContext, StaffSession, SsoSecrets, TLC

VARIABLE part

-----------------------------------------------------------------------------
(* SignUpPolicy *)
Qn == <<"vn", "qnsc">>
Uni == <<"test", "uni">>
MCDomainOf == "boss" :> Qn @@ "lab" :> <<"vn", "qnsc", "lab">> @@ "stud" :> Uni @@ "odd" :> << >>
E(w, h) == [wild |-> w, host |-> h]
O(ps, st, g, u) == [presets |-> ps, staff |-> st, allowGuests |-> g, requireUpn |-> u]
All == {"public", "staff", "organizations"}
MCSetups ==
    {O(All, {E(FALSE, Qn)}, TRUE, TRUE), O(All, {E(TRUE, Qn)}, FALSE, FALSE),
     O({"public"}, {}, FALSE, TRUE), O({"staff"}, {E(FALSE, Qn), E(TRUE, Qn)}, TRUE, TRUE),
     O(All, {E(TRUE, <<"vn">>)}, TRUE, TRUE), O(All, {E(TRUE, <<"vn", "com">>)}, TRUE, TRUE),
     O({"staff"}, {}, FALSE, TRUE), O({}, {}, FALSE, TRUE)}
MCClaims == {{Uni}, {<<"vn">>}, {Uni, <<"vn", "qnsc", "lab">>}}
Profile(m, u) == [mail |-> m, upn |-> u]
MCProfiles == {Profile("boss", "boss"), Profile("stud", NoMail), Profile("boss", "stud")}
MCFirst == [x \in Entra |-> IF x \in Guests THEN Profile("stud", NoMail) ELSE Profile("boss", "boss")]

(* AccessJwt *)
T(alg, kid, signed, iss, aud, nbf, exp, sub, oid, email) ==
    [alg |-> alg, kid |-> kid, signed |-> signed, iss |-> iss, aud |-> aud, nbf |-> nbf, exp |-> exp,
     sub |-> sub, oid |-> oid, email |-> email]
Good(k) == T("RS256", k, TRUE, TRUE, "app", 0, 9, "s", "o", "e")
MCTokens ==
    {Good(k) : k \in Kids} \cup
    {[Good("k1") EXCEPT !.alg = "HS256"], [Good("k1") EXCEPT !.signed = FALSE],
     [Good("k1") EXCEPT !.iss = FALSE], [Good("k1") EXCEPT !.aud = "other"],
     [Good("k1") EXCEPT !.nbf = 3], [Good("k1") EXCEPT !.exp = 1],
     [Good("k1") EXCEPT !.sub = Null], [Good("k1") EXCEPT !.oid = Null],
     [Good("k1") EXCEPT !.oid = Null, !.email = Null]}
C(h, a, p, f) == [https |-> h, audience |-> a, oidPath |-> p, allowEmailFallback |-> f]
MCVerifiers ==
    {C(TRUE, "app", "oid", TRUE), C(TRUE, "app", "oid", FALSE), C(FALSE, "app", "oid", TRUE),
     C(TRUE, Null, "oid", TRUE)}

\* Bound: ticks of the clock and outages of Valkey together, for the user's sessions.
SessionsBound == clock + outages <= LastNow

Symmetry == Permutations(Tokens) \cup Permutations(Users)

-----------------------------------------------------------------------------
(* Side by side *)

Parts == {"throttle", "device", "policy", "jwt", "life", "sessions", "context", "staff", "sso"}

\* A part that does not run has one initial state; the keys are alike, k1 comes first.
MCInit ==
    /\ part \in Parts
    /\ ThrottleInit /\ (part # "throttle" => ~enrolled)
    /\ DeviceInit /\ (part # "device" => exact /\ \A b \in Browsers : jar[b] = NoCookie)
    /\ PolicyInit /\ (part # "policy" => options = O({"public"}, {}, FALSE, TRUE))
    /\ JwtInit /\ published = {"k1"} /\ (part # "jwt" => verifier = Null)
    /\ LifeInit
    /\ SessionsInit
    /\ ContextInit
    /\ StaffInit
    /\ SsoInit /\ (part # "sso" => \A r \in Providers : current[r] = "a" /\ column[r].form = "plain")

MCNext ==
    /\ UNCHANGED part
    /\ \/ part = "throttle" /\ ThrottleNext
       \/ part # "throttle" /\ UNCHANGED throttleVars
    /\ \/ part = "device" /\ DeviceNext
       \/ part # "device" /\ UNCHANGED deviceVars
    /\ \/ part = "policy" /\ PolicyNext
       \/ part # "policy" /\ UNCHANGED policyVars
    /\ \/ part = "jwt" /\ JwtNext
       \/ part # "jwt" /\ UNCHANGED jwtVars
    /\ \/ part = "life" /\ LifeNext
       \/ part # "life" /\ UNCHANGED lifeVars
    /\ \/ part = "sessions" /\ SessionsNext
       \/ part # "sessions" /\ UNCHANGED sessionVars
    /\ \/ part = "context" /\ ContextNext
       \/ part # "context" /\ UNCHANGED ctxVars
    /\ \/ part = "staff" /\ StaffNext
       \/ part # "staff" /\ UNCHANGED staffVars
    /\ \/ part = "sso" /\ SsoNext
       \/ part # "sso" /\ UNCHANGED ssoVars

MCSpec ==
    MCInit /\ [][MCNext]_<<part, throttleVars, deviceVars, policyVars, jwtVars, lifeVars,
                            sessionVars, ctxVars, staffVars, ssoVars>>
=============================================================================
