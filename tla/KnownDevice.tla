---------------------------- MODULE KnownDevice ----------------------------
(***************************************************************************)
(* The known-device cookie of one user (known-device.ts) and the hooks of  *)
(* lockout.ts that set, re-issue and invalidate it.  A cookie carries the  *)
(* epoch it was minted under: the user's updatedAt and the version of the  *)
(* credential; its HMAC is taken to be unforgeable (external).  Every      *)
(* await of the adapter is a step, and two writes of the user's row fall   *)
(* in different milliseconds.                                              *)
(***************************************************************************)
EXTENDS Integers, FiniteSets

CONSTANTS
    Browsers, Calls, NoCookie, NoBrowser,
    MaxAge,        \* DEFAULTS.lockout.knownDevice.maxAgeSeconds
    DeviceLastNow, \* bound: the clock stops here
    MaxPassword    \* bound: password changes

ASSUME DeviceAssumption == {MaxAge, DeviceLastNow, MaxPassword} \subseteq Nat /\ DeviceLastNow > 0

VARIABLES
    now,     \* the clock; every write of the row takes a tick of it
    updated, \* user.updatedAt
    exact,   \* the stored updatedAt has no more precision than a JS Date
    secret,  \* version of the credential account
    jar,     \* [Browsers -> cookie or NoCookie]
    call     \* [Calls -> [pc, kind, by, u, p, device, doomed]]

deviceVars == <<now, updated, exact, secret, jar, call>>

NewCall == [pc |-> "idle", kind |-> "none", by |-> NoBrowser, u |-> -1, p |-> -1,
            device |-> NoCookie, doomed |-> {}]

DeviceInit ==
    /\ now = 1 /\ updated = 0 /\ exact \in BOOLEAN /\ secret = 0
    /\ jar \in [Browsers -> {NoCookie, [u |-> 0, p |-> 0, iat |-> 0, born |-> 0, re |-> FALSE]}]
    /\ call = [c \in Calls |-> NewCall]

\* validDevice: the age of the signed iat, and the epoch against the given inputs.
Fingerprint(k, u, p) == k.u = u /\ k.p = p
ValidAgainst(k, u, p) == k # NoCookie /\ now - k.iat <= MaxAge /\ Fingerprint(k, u, p)
Valid(k) == ValidAgainst(k, updated, secret)

\* bumpDeviceEpoch: updatedAt moves to the present.
Bump == now < DeviceLastNow /\ now' = now + 1 /\ updated' = (IF now' > updated THEN now' ELSE updated + 1)
    /\ exact' = TRUE

Step(c, pc) == call' = [call EXCEPT ![c].pc = pc]

\* rememberDevice after a completed sign-in: a valid cookie stays, else one is minted.
\* The epoch's two reads run at once (readEpochInputs).
SignIn(c, b) ==
    /\ call[c].pc = "idle" /\ ~Valid(jar[b])
    /\ call' = [call EXCEPT ![c] = [NewCall EXCEPT !.pc = "read", !.kind = "signin", !.by = b]]
    /\ UNCHANGED <<now, updated, exact, secret, jar>>
\* The before hook of /revoke-sessions and of /revoke-other-sessions.
RevokeBegins(c, b, kind) ==
    /\ call[c].pc = "idle" /\ kind \in {"other", "all"}
    /\ call' = [call EXCEPT ![c] = [NewCall EXCEPT !.pc = IF kind = "other" THEN "read" ELSE "revoke",
         !.kind = kind, !.by = b,
           !.doomed = {jar[x] : x \in IF kind = "other" THEN Browsers \ {b} ELSE Browsers} \ {NoCookie}]]
    /\ UNCHANGED <<now, updated, exact, secret, jar>>

\* readEpochInputs: Promise.all of the user and of the accounts.
ReadUser(c) ==
    /\ call[c].pc = "read" /\ call[c].u = -1
    /\ call' = [call EXCEPT ![c].u = updated] /\ UNCHANGED <<now, updated, exact, secret, jar>>
ReadAccounts(c) ==
    /\ call[c].pc = "read" /\ call[c].p = -1
    /\ call' = [call EXCEPT ![c].p = secret] /\ UNCHANGED <<now, updated, exact, secret, jar>>

\* writeDevice: the cookie under the epoch that was read, with a new device and iat.
Mint(c) ==
    /\ call[c].pc = "read" /\ call[c].kind = "signin" /\ call[c].u # -1 /\ call[c].p # -1
    /\ jar' = [jar EXCEPT ![call[c].by] =
          [u |-> call[c].u, p |-> call[c].p, iat |-> now, born |-> call[c].p, re |-> FALSE]]
    /\ Step(c, "ended") /\ UNCHANGED <<now, updated, exact, secret>>

\* The before hook judges the cookie against that snapshot and keeps both.
Judge(c) ==
    /\ call[c].pc = "read" /\ call[c].kind = "other" /\ call[c].u # -1 /\ call[c].p # -1
    /\ call' = [call EXCEPT ![c].pc = "revoke", ![c].device =
          IF ValidAgainst(jar[call[c].by], call[c].u, call[c].p) THEN jar[call[c].by] ELSE NoCookie]
    /\ UNCHANGED <<now, updated, exact, secret, jar>>

\* The endpoint deletes the sessions, or it throws and the after hook returns.
EndpointThrew(c) ==
    /\ call[c].pc = "revoke" /\ Step(c, "failed") /\ UNCHANGED <<now, updated, exact, secret, jar>>
\* The after hook without a device to keep.
BumpAll(c) ==
    /\ call[c].pc = "revoke" /\ call[c].device = NoCookie /\ Bump /\ Step(c, "ended")
    /\ UNCHANGED <<secret, jar>>

\* bumpAndReissue: the compare-and-set on updatedAt, and the cookie for the value written.
Reissued(c, u) == [call[c].device EXCEPT !.u = u, !.p = call[c].p, !.re = TRUE]
Won(c) == exact /\ updated = call[c].u
Reissue(c) ==
    /\ call[c].pc = "revoke" /\ call[c].device # NoCookie /\ Won(c)
    /\ Bump /\ jar' = [jar EXCEPT ![call[c].by] = Reissued(c, updated')]
    /\ Step(c, "ended") /\ UNCHANGED secret
Lost(c) ==
    /\ call[c].pc = "revoke" /\ call[c].device # NoCookie /\ ~Won(c) /\ Step(c, "again")
    /\ UNCHANGED <<now, updated, exact, secret, jar>>
\* Nothing moved: no bump happened, and the others must still die.
\* Mutant: a lost compare-and-set always means that somebody else bumped.
MutReread(c) ==
    /\ call[c].pc = "again" /\ Step(c, "ended")
    /\ UNCHANGED <<now, updated, exact, secret, jar>>
Reread(c) ==
    /\ call[c].pc = "again" /\ Step(c, IF updated = call[c].u THEN "bump" ELSE "ended")
    /\ UNCHANGED <<now, updated, exact, secret, jar>>
BumpAfterAll(c) ==
    /\ call[c].pc = "bump" /\ Bump /\ Step(c, "ended") /\ UNCHANGED <<secret, jar>>

\* The admin's revoke-all bumps; a password change or reset moves the credential.
AdminRevokes == Bump /\ UNCHANGED <<secret, jar, call>>
PasswordChanges ==
    /\ secret < MaxPassword /\ now < DeviceLastNow /\ now' = now + 1 /\ secret' = secret + 1
    /\ UNCHANGED <<updated, exact, jar, call>>

DeviceNext ==
    \/ \E c \in Calls : \/ \E b \in Browsers : SignIn(c, b) \/ \E kind \in {"other", "all"} : RevokeBegins(c, b, kind)
                        \/ ReadUser(c) \/ ReadAccounts(c) \/ Mint(c) \/ Judge(c) \/ EndpointThrew(c)
                             \/ BumpAll(c)
                        \/ Reissue(c) \/ Lost(c) \/ Reread(c) \/ BumpAfterAll(c)
    \/ AdminRevokes \/ PasswordChanges

DeviceSpec == DeviceInit /\ [][DeviceNext]_deviceVars

\* Types; a cookie in a jar was minted for an updatedAt no later than the row's.
DeviceTypeOK ==
    /\ now \in 0..DeviceLastNow /\ exact \in BOOLEAN /\ secret \in 0..MaxPassword
    /\ \A b \in Browsers : jar[b] # NoCookie => jar[b].u <= updated /\ jar[b].p <= secret
    /\ \A c \in Calls : call[c].pc \in {"idle", "read", "revoke", "again", "bump", "ended", "failed"}

\* A call that has answered "signed out" leaves every cookie it was to sign out dead
\* for good: the other browsers' for the others, all of them for everywhere, whatever
\* raced with it and whatever the precision of the stored time.
SignedOutStaysOut ==
    \A c \in Calls : call[c].pc = "ended" => \A k \in call[c].doomed : ~Valid(k)

\* The comment of bumpAndReissue: two devices that race end with at most one cookie.
AtMostOneSurvivor == Cardinality({b \in Browsers : Valid(jar[b]) /\ jar[b].re}) <= 1

\* A password change kills the cookies of every sign-in before it, also one that is
\* re-issued while the change lands: a valid cookie goes back to a sign-in under the
\* password in force.
PasswordKills == \A b \in Browsers : Valid(jar[b]) => jar[b].born = secret

\* The known-device cookie: signed out stays out, at most one device survives signing the others
\* out at once, and a new password ends every cookie from before.
DeviceSafe == DeviceTypeOK /\ SignedOutStaysOut /\ AtMostOneSurvivor /\ PasswordKills
=============================================================================
