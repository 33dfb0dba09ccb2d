--------------------------- MODULE SignInThrottle ---------------------------
(***************************************************************************)
(* The per-account throttle of sign-in and of second-factor verification   *)
(* (lockout.ts) for one account.  Requests run at once; each await of the  *)
(* secondary storage is a step, and its increment is atomic (external).    *)
(* A counter is kept as the set of the attempts counted in its window, so  *)
(* the number the code compares is its cardinality.                        *)
(***************************************************************************)
EXTENDS Integers, FiniteSets

CONSTANTS
    Attempts, Devices, Addresses, NoDevice,
    DeviceMax,   \* DEFAULTS.lockout.knownDevice.maxAttempts
    DevicesMax,  \* knownDevice.accountMaxAttempts
    HereMax,     \* perAccountAndIp.maxAttempts
    Free,        \* perAccount.freeAttempts
    Ceiling,     \* perAccount.ceiling
    MaxResets,   \* bound: password resets
    MaxExpiries  \* bound: windows that run out

ASSUME ThrottleAssumption ==
    /\ {DeviceMax, DevicesMax, HereMax, Free, Ceiling, MaxResets, MaxExpiries} \subseteq Nat
    /\ NoDevice \notin Devices

\* Sign-in counts the email, a second factor the user id.
Kinds == {"signin", "2fa"}

VARIABLES
    enrolled, \* the account has a second factor
    gen,      \* [Kinds -> the stored generation of the kind's subject]
    counted,  \* [keys in use -> attempts counted in the key's window]
    at,       \* [Attempts -> [pc, kind, dev, addr, gen, of]]
    resets, expiries, clearing

throttleVars == <<enrolled, gen, counted, at, resets, expiries, clearing>>

Idle == [pc |-> "idle", kind |-> "signin", dev |-> NoDevice, addr |-> "none", gen |-> 0, of |-> {}]

ThrottleInit ==
    /\ enrolled \in BOOLEAN /\ gen = [k \in Kinds |-> 0] /\ counted = <<>>
    /\ at = [a \in Attempts |-> Idle] /\ resets = 0 /\ expiries = 0 /\ clearing = {}

\* The keys of lockoutKeys.
DeviceKey(a) == <<at[a].kind, at[a].gen, "dev", at[a].dev>>
DevicesKey(a) == <<at[a].kind, at[a].gen, "devs">>
HereKey(a) == <<at[a].kind, at[a].gen, "ip", at[a].addr>>
AccountKey(a) == <<at[a].kind, at[a].gen, "acct">>

\* storage.increment: what it answers, and what it stores.
In(k) == IF k \in DOMAIN counted THEN counted[k] ELSE {}
Incremented(k, a) == Cardinality(In(k) \cup {a})
Increment(k, a) ==
    counted' = [x \in DOMAIN counted \cup {k} |-> IF x = k THEN In(k) \cup {a} ELSE counted[x]]

Goto(a, pc) == at' = [at EXCEPT ![a].pc = pc]

\* The before hook of /sign-in/email or of a second factor: the cookie is judged
\* (KnownDevice), the subject known, and admit reads the generation.
Attempt(a, kind, dev, addr) ==
    /\ at[a].pc = "idle"
    /\ \/ kind = "signin" /\ at' = [at EXCEPT ![a] = [pc |-> IF dev = NoDevice THEN "here" ELSE "device",
                 kind |-> kind, dev |-> dev, addr |-> addr, gen |-> gen[kind], of |-> {}]]
       \/ /\ kind = "2fa"
          /\ \E s \in Attempts : /\ at[s].pc = "challenge"
                                 /\ at' = [at EXCEPT ![a] = [pc |-> IF dev = NoDevice THEN "here" ELSE "device",
                                       kind |-> kind, dev |-> dev, addr |-> addr, gen |-> gen[kind],
                                           of |-> {s}]]
    /\ UNCHANGED <<enrolled, gen, counted, resets, expiries, clearing>>

\* admit, a known device: first its own limit, then the budget all devices share;
\* past that budget the cookie counts for nothing.
OwnLimit(a) ==
    /\ at[a].pc = "device" /\ Increment(DeviceKey(a), a)
    /\ Goto(a, IF Incremented(DeviceKey(a), a) > DeviceMax THEN "refused" ELSE "together")
    /\ UNCHANGED <<enrolled, gen, resets, expiries, clearing>>
SharedBudget(a) ==
    /\ at[a].pc = "together" /\ Increment(DevicesKey(a), a)
    /\ Goto(a, IF Incremented(DevicesKey(a), a) <= DevicesMax THEN "admitted" ELSE "here")
    /\ UNCHANGED <<enrolled, gen, resets, expiries, clearing>>

\* admit, any other request: the limit of the account and address, then the
\* account's ceiling, then the progressive delay.
LimitHere(a) ==
    /\ at[a].pc = "here" /\ Increment(HereKey(a), a)
    /\ Goto(a, IF Incremented(HereKey(a), a) > HereMax THEN "refused" ELSE "account")
    /\ UNCHANGED <<enrolled, gen, resets, expiries, clearing>>
\* Mutant: a request is refused by the ceiling only past the attempt it admits.
MutLimitAccount(a) ==
    /\ at[a].pc = "account" /\ Increment(AccountKey(a), a)
    /\ Goto(a, IF Cardinality(In(AccountKey(a)) \ {a}) > Ceiling THEN "refused"
               ELSE IF Incremented(AccountKey(a), a) > Free THEN "delayed" ELSE "admitted")
    /\ UNCHANGED <<enrolled, gen, resets, expiries, clearing>>
LimitAccount(a) ==
    /\ at[a].pc = "account" /\ Increment(AccountKey(a), a)
    /\ Goto(a, IF Incremented(AccountKey(a), a) > Ceiling THEN "refused"
               ELSE IF Incremented(AccountKey(a), a) > Free THEN "delayed" ELSE "admitted")
    /\ UNCHANGED <<enrolled, gen, resets, expiries, clearing>>
Delayed(a) ==
    /\ at[a].pc = "delayed" /\ Goto(a, "admitted")
    /\ UNCHANGED <<enrolled, gen, counted, resets, expiries, clearing>>

\* The endpoint and the after hook: a wrong guess keeps the counters, a second-factor
\* challenge too; a session clears them, and clearAttempts reads the generation first.
Judged(a) ==
    /\ at[a].pc = "admitted"
    /\ \/ Goto(a, "failed")
       \/ at[a].kind = "signin" /\ enrolled /\ Goto(a, "challenge")
       \/ /\ at[a].kind = "2fa" \/ ~enrolled
          /\ at' = [at EXCEPT ![a].pc = "clear", ![a].gen = gen[at[a].kind]]
    /\ UNCHANGED <<enrolled, gen, counted, resets, expiries, clearing>>
Cleared(a) ==
    /\ at[a].pc = "clear" /\ Goto(a, "ended") /\ gen' = [gen EXCEPT ![at[a].kind] = at[a].gen + 1]
    /\ UNCHANGED <<enrolled, counted, resets, expiries, clearing>>

\* The after hook of /reset-password clears the email's counters.
ResetReads ==
    /\ resets < MaxResets /\ clearing = {} /\ clearing' = {gen["signin"]} /\ resets' = resets + 1
    /\ UNCHANGED <<enrolled, gen, counted, at, expiries>>
ResetClears ==
    /\ \E g \in clearing : gen' = [gen EXCEPT !["signin"] = g + 1]
    /\ clearing' = {} /\ UNCHANGED <<enrolled, counted, at, resets, expiries>>

\* A counter's window runs out in the storage.
WindowEnds(k) ==
    /\ expiries < MaxExpiries /\ expiries' = expiries + 1
    /\ counted' = [x \in DOMAIN counted \ {k} |-> counted[x]]
    /\ UNCHANGED <<enrolled, gen, at, resets, clearing>>

ThrottleNext ==
    \/ \E a \in Attempts : \/ \E kind \in Kinds, dev \in Devices \cup {NoDevice}, addr \in Addresses : Attempt(a, kind, dev, addr)
                           \/ OwnLimit(a) \/ SharedBudget(a) \/ LimitHere(a) \/ LimitAccount(a)
                           \/ Delayed(a) \/ Judged(a) \/ Cleared(a)
    \/ ResetReads \/ ResetClears \/ \E k \in DOMAIN counted : WindowEnds(k)

ThrottleSpec == ThrottleInit /\ [][ThrottleNext]_throttleVars

Admitted == {"delayed", "admitted", "failed", "challenge", "clear", "ended"}

\* Types, and a counter only ever holds attempts that carry its kind.
ThrottleTypeOK ==
    /\ enrolled \in BOOLEAN /\ gen \in [Kinds -> Nat] /\ resets \in 0..MaxResets /\ expiries \in 0..MaxExpiries
    /\ \A a \in Attempts : at[a].pc \in Admitted \cup {"idle", "device", "together", "here", "account",
         "refused"}
    /\ \A k \in DOMAIN counted : \A a \in counted[k] : at[a].kind = k[1]

\* Guesses that race from any number of addresses never get more past the account's
\* counter than its ceiling in one generation and window (the comment of admit: N
\* parallel guesses cannot all slip through ahead of the first recorded failure).
CeilingHolds ==
    \A k \in DOMAIN counted : k[3] = "acct" =>
        Cardinality({a \in counted[k] : at[a].pc \in Admitted}) <= Ceiling

\* However many requests without a cookie flood the account, a request with a valid
\* one is refused only when its own device, or the account's devices together, made
\* more attempts than their limits.
OwnerShielded ==
    \A a \in Attempts :
        at[a].dev # NoDevice /\ at[a].pc \in {"account", "refused", "delayed"} =>
            \/ Cardinality({x \in Attempts : at[x].dev = at[a].dev}) > DeviceMax
            \/ Cardinality({x \in Attempts : at[x].dev # NoDevice}) > DevicesMax

\* One device takes at most its own limit out of the budget the devices share, in each
\* of its windows, however its requests interleave with the others'.
OneDeviceCannotDrain ==
    \A k \in DOMAIN counted : k[3] = "devs" => \A d \in Devices :
        Cardinality({a \in counted[k] : at[a].dev = d}) <= DeviceMax * (1 + expiries)

\* The after hook's comment: the counters of a sign-in that ended in a second-factor
\* challenge stay until the factor verifies.  So once the verification has cleared,
\* the sign-in it completes is in no counter of the generation in force.
VerifiedForgets ==
    \A b \in Attempts : at[b].pc = "ended" =>
        \A s \in at[b].of : \A k \in DOMAIN counted : k[2] = gen[k[1]] => s \notin counted[k]

\* The sign-in throttle: the ceiling holds against attempts that overlap, the owner's known
\* device is shielded from strangers, and one device cannot drain what others share.
ThrottleSafe == ThrottleTypeOK /\ CeilingHolds /\ OwnerShielded /\ OneDeviceCannotDrain
=============================================================================
