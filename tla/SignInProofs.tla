---------------------------- MODULE SignInProofs ----------------------------
(***************************************************************************)
(* Proofs about signing in: the throttle, the known devices, the SSO       *)
(* secrets and who may have an account.                                    *)
(***************************************************************************)
EXTENDS SignInThrottle, KnownDevice, SsoSecrets, SignUpPolicy, FiniteSetTheorems, SequenceTheorems, TLAPS

-----------------------------------------------------------------------------
(***************************************************************************)
(* SignInThrottle, for any attempts, devices and addresses: every count    *)
(* in Valkey is the number of admissions that still matter to it.          *)
(***************************************************************************)

ThrottlePcs == Admitted \cup {"idle", "device", "together", "here", "account", "refused"}
ThrottleAttempt ==
    [pc : ThrottlePcs, kind : Kinds, dev : Devices \cup {NoDevice}, addr : Addresses \cup {"none"},
     gen : Nat, of : SUBSET Attempts]
ThrottleKeys ==
    (Kinds \X Nat \X {"devs", "acct"}) \cup (Kinds \X Nat \X {"dev"} \X (Devices \cup {NoDevice}))
      \cup (Kinds \X Nat \X {"ip"} \X (Addresses \cup {"none"}))
Started == {a \in Attempts : at[a].pc # "idle"}

\* Who is in a counter: attempts of its kind and device, and only past its step of admit.
CountedFits(k, a) ==
    /\ a \in Started /\ at[a].kind = k[1]
    /\ k[3] = "dev" => at[a].dev = k[4]
    /\ k[3] = "devs" => at[a].dev # NoDevice /\ at[a].pc \notin {"device", "together"}
    /\ k[3] = "acct" => at[a].pc \notin {"device", "together", "here", "account"}
ThrottleShape ==
    /\ enrolled \in BOOLEAN /\ gen \in [Kinds -> Nat] /\ resets \in 0..MaxResets /\ expiries \in 0..MaxExpiries
    /\ clearing \subseteq Nat
    /\ at \in [Attempts -> ThrottleAttempt] /\ IsFiniteSet(Started)
    /\ \A a \in Attempts : at[a].pc = "idle" => at[a].dev = NoDevice
    /\ \A a \in Attempts : at[a].pc \in {"device", "together"} => at[a].dev # NoDevice
    /\ DOMAIN counted \subseteq ThrottleKeys
    /\ \A k \in DOMAIN counted : \A a \in counted[k] : CountedFits(k, a)

\* A part of a finite set is finite and no larger.
LEMMA CardinalityShrinks ==
  ASSUME NEW S, IsFiniteSet(S), NEW T, T \subseteq S
  PROVE  IsFiniteSet(T) /\ Cardinality(T) \in Nat /\ Cardinality(S) \in Nat /\ Cardinality(T) <= Cardinality(S)
  BY FS_Subset, FS_CardinalityType

\* What an increment of the storage does to every counter.
LEMMA IncrementIs ==
  ASSUME NEW k, NEW a, Increment(k, a)
  PROVE  /\ DOMAIN counted' = DOMAIN counted \cup {k} /\ counted'[k] = In(k) \cup {a}
         /\ \A x \in DOMAIN counted : x # k => counted'[x] = counted[x]
  BY DEF Increment, In

\* The sizes of two sets that share nothing add up.
LEMMA CardinalityAdds ==
  ASSUME NEW S, IsFiniteSet(S), NEW T, IsFiniteSet(T), S \cap T = {}
  PROVE  IsFiniteSet(S \cup T) /\ Cardinality(S \cup T) = Cardinality(S) + Cardinality(T)
<1>1. /\ IsFiniteSet(S \cup T)
      /\ Cardinality(S \cup T) = Cardinality(S) + Cardinality(T) - Cardinality(S \cap T)
  BY FS_Union
<1>2. Cardinality(S \cap T) = 0
  BY FS_EmptySet
<1>3. Cardinality(S) \in Nat /\ Cardinality(T) \in Nat
  BY FS_CardinalityType
<1>4. QED
  BY <1>1, <1>2, <1>3

\* Initially nothing was counted and no attempt was made.
LEMMA ThrottleInitShape == ThrottleInit => ThrottleShape
<1> SUFFICES ASSUME ThrottleInit PROVE ThrottleShape
  OBVIOUS
<1>1. Started = {} /\ DOMAIN counted = {}
  BY DEF Started, ThrottleInit, Idle
<1>2. at \in [Attempts -> ThrottleAttempt]
  BY DEF ThrottleInit, Idle, ThrottleAttempt, ThrottlePcs, Kinds
<1>3. IsFiniteSet(Started)
  BY <1>1, FS_EmptySet
<1>4. MaxResets \in Nat /\ MaxExpiries \in Nat
  BY ThrottleAssumption
<1>5. /\ gen \in [Kinds -> Nat] /\ resets \in 0..MaxResets /\ expiries \in 0..MaxExpiries
      /\ clearing \subseteq Nat /\ enrolled \in BOOLEAN
  BY <1>4 DEF ThrottleInit, Kinds
<1>6. \A a \in Attempts : at[a].pc = "idle" /\ at[a].dev = NoDevice
  BY DEF ThrottleInit, Idle
<1>7. QED
  BY <1>1, <1>2, <1>3, <1>5, <1>6 DEF ThrottleShape

\* One more attempt that started leaves finitely many of them.
LEMMA StartedGrows ==
  ASSUME ThrottleShape, NEW a, Started' \subseteq Started \cup {a}
  PROVE  IsFiniteSet(Started)'
  BY FS_AddElement, FS_Subset DEF ThrottleShape

\* A step of admit or after it: only the place of one started attempt changes, and who is
\* counted still fits.
LEMMA MoveKeepsShape ==
  ASSUME ThrottleShape, NEW a \in Attempts, NEW pc \in ThrottlePcs \ {"idle"}, Goto(a, pc),
         at[a].pc # "idle", pc \in {"device", "together"} => at[a].dev # NoDevice,
         UNCHANGED <<enrolled, resets, expiries, clearing, gen>>,
         DOMAIN counted' \subseteq ThrottleKeys,
         \A k \in DOMAIN counted' : \A b \in counted'[k] :
            /\ b # a => CountedFits(k, b)
            /\ b = a => CountedFits(k, a)'
  PROVE  ThrottleShape'
<1>1. at' \in [Attempts -> ThrottleAttempt]
  BY DEF Goto, ThrottleShape, ThrottleAttempt
<1>2. \A b \in Attempts : /\ at'[b].dev = at[b].dev /\ at'[b].kind = at[b].kind /\ at'[b].gen = at[b].gen
                          /\ b # a => at'[b] = at[b]
  BY DEF Goto, ThrottleShape, ThrottleAttempt
<1>3. at'[a].pc = pc
  BY DEF Goto, ThrottleShape, ThrottleAttempt
<1>4. Started' = Started
  BY <1>2, <1>3 DEF Started
<1>5. \A k \in DOMAIN counted' : \A b \in counted'[k] : CountedFits(k, b)'
  BY <1>2, <1>4 DEF CountedFits, Started
<1>6. QED
  BY <1>1, <1>2, <1>3, <1>4, <1>5 DEF ThrottleShape

\* The keys that admit increments are keys, and tell their counters apart.
LEMMA KeysAreKeys ==
  ASSUME ThrottleShape, NEW a \in Attempts
  PROVE  /\ {DeviceKey(a), DevicesKey(a), HereKey(a), AccountKey(a)} \subseteq ThrottleKeys
         /\ DeviceKey(a)[1] = at[a].kind /\ DeviceKey(a)[3] = "dev" /\ DeviceKey(a)[4] = at[a].dev
         /\ DevicesKey(a)[1] = at[a].kind /\ DevicesKey(a)[3] = "devs"
         /\ HereKey(a)[1] = at[a].kind /\ HereKey(a)[3] = "ip"
         /\ AccountKey(a)[1] = at[a].kind /\ AccountKey(a)[3] = "acct"
<1>1. at[a].kind \in Kinds /\ at[a].gen \in Nat /\ at[a].dev \in Devices \cup {NoDevice}
      /\ at[a].addr \in Addresses \cup {"none"}
  BY DEF ThrottleShape, ThrottleAttempt
<1>2. QED
  BY <1>1 DEF DeviceKey, DevicesKey, HereKey, AccountKey, ThrottleKeys

\* One step of admit: a counter is incremented and the attempt moves on.
LEMMA AdmitKeepsShape ==
  ASSUME ThrottleShape, NEW a \in Attempts, NEW pc \in ThrottlePcs \ {"idle"}, Goto(a, pc),
         NEW k \in ThrottleKeys, Increment(k, a), at[a].pc # "idle",
         UNCHANGED <<enrolled, gen, resets, expiries, clearing>>,
         pc \in {"device", "together"} => at[a].pc \in {"device", "together"},
         pc \in {"here", "account"} => at[a].pc \in {"device", "together", "here", "account"},
         k[1] = at[a].kind, k[3] = "dev" => k[4] = at[a].dev,
         k[3] = "devs" => at[a].dev # NoDevice /\ pc \notin {"device", "together"},
         k[3] = "acct" => pc \notin {"device", "together", "here", "account"}
  PROVE  ThrottleShape'
<1>1. at'[a].pc = pc /\ at'[a].kind = at[a].kind /\ at'[a].dev = at[a].dev
  BY DEF Goto, ThrottleShape, ThrottleAttempt
<1>0. /\ DOMAIN counted' = DOMAIN counted \cup {k} /\ counted'[k] = In(k) \cup {a}
      /\ \A x \in DOMAIN counted : x # k => counted'[x] = counted[x]
  BY IncrementIs
<1>2. DOMAIN counted' \subseteq ThrottleKeys
  BY <1>0 DEF ThrottleShape
<1>3. a \in Started /\ a \in Started'
  BY <1>1 DEF Started
<1>4. ASSUME NEW x \in DOMAIN counted', NEW b \in counted'[x]
      PROVE  (b # a => CountedFits(x, b)) /\ (b = a => CountedFits(x, a)')
  <2>1. CASE x = k
    <3>1. b # a => x \in DOMAIN counted /\ b \in counted[x]
      BY <1>0, <1>4, <2>1 DEF In
    <3>2. CountedFits(k, a)'
      BY <1>1, <1>3 DEF CountedFits
    <3>3. QED
      BY <2>1, <3>1, <3>2 DEF ThrottleShape
  <2>2. CASE x # k
    <3>1. x \in DOMAIN counted /\ b \in counted[x]
      BY <1>0, <1>4, <2>2
    <3>2. CountedFits(x, b)
      BY <3>1 DEF ThrottleShape
    <3>3. CountedFits(x, a) => CountedFits(x, a)'
      BY <1>1, <1>3 DEF CountedFits
    <3>4. QED
      BY <3>2, <3>3
  <2>3. QED
    BY <2>1, <2>2
<1>5. pc \in {"device", "together"} => at[a].dev # NoDevice
  BY DEF ThrottleShape
<1>6. QED
  BY <1>2, <1>4, <1>5, MoveKeepsShape

\* Every step keeps the shape of the attempts, the counters and the locks of failures.
LEMMA ThrottleStepShape == ThrottleShape /\ [ThrottleNext]_throttleVars => ThrottleShape'
<1> SUFFICES ASSUME ThrottleShape, [ThrottleNext]_throttleVars PROVE ThrottleShape'
  OBVIOUS
<1>1. ASSUME NEW a \in Attempts, NEW kind \in Kinds, NEW dev \in Devices \cup {NoDevice},
             NEW addr \in Addresses, Attempt(a, kind, dev, addr)
      PROVE  ThrottleShape'
  <2> DEFINE Entry(of) == [pc |-> IF dev = NoDevice THEN "here" ELSE "device", kind |-> kind,
                           dev |-> dev, addr |-> addr, gen |-> gen[kind], of |-> of]
  <2>0. gen[kind] \in Nat
    BY DEF ThrottleShape
  <2>1. PICK of \in SUBSET Attempts : at' = [at EXCEPT ![a] = Entry(of)]
    BY <1>1 DEF Attempt
  <2> DEFINE r == Entry(of)
  <2>8. r \in ThrottleAttempt /\ r.dev = dev /\ r.pc = IF dev = NoDevice THEN "here" ELSE "device"
    BY <2>0 DEF ThrottleAttempt, ThrottlePcs
  <2>9. at' = [at EXCEPT ![a] = r]
    BY <2>1
  <2> HIDE DEF r, Entry
  <2>2. at' \in [Attempts -> ThrottleAttempt] /\ at'[a] = r /\ \A b \in Attempts : b # a => at'[b] = at[b]
    BY <2>8, <2>9 DEF ThrottleShape
  <2>3. IsFiniteSet(Started)'
    BY <2>2, StartedGrows DEF Started
  <2>4. \A k \in DOMAIN counted : a \notin counted[k]
    BY <1>1 DEF Attempt, ThrottleShape, CountedFits, Started
  <2>5. UNCHANGED <<enrolled, gen, counted, resets, expiries, clearing>>
    BY <1>1 DEF Attempt
  <2>6. \A k \in DOMAIN counted : \A b \in counted[k] : CountedFits(k, b)'
    BY <2>2, <2>4 DEF ThrottleShape, CountedFits, Started
  <2>7. QED
    BY <2>2, <2>3, <2>5, <2>6, <2>8 DEF ThrottleShape
<1>2. ASSUME NEW a \in Attempts, OwnLimit(a) PROVE ThrottleShape'
  <2>1. PICK pc \in {"refused", "together"} : Goto(a, pc)
    BY <1>2 DEF OwnLimit
  <2>2. PICK k : k = DeviceKey(a)
    OBVIOUS
  <2>3. Increment(k, a) /\ at[a].pc = "device" /\ UNCHANGED <<enrolled, gen, resets, expiries, clearing>>
    BY <1>2, <2>2 DEF OwnLimit
  <2>4. at[a].dev # NoDevice
    BY <2>3 DEF ThrottleShape
  <2>5. QED
    BY <2>1, <2>2, <2>3, <2>4, KeysAreKeys, AdmitKeepsShape DEF ThrottlePcs, Admitted
<1>3. ASSUME NEW a \in Attempts, SharedBudget(a) PROVE ThrottleShape'
  <2>1. PICK pc \in {"here", "admitted"} : Goto(a, pc)
    BY <1>3 DEF SharedBudget
  <2>2. PICK k : k = DevicesKey(a)
    OBVIOUS
  <2>3. Increment(k, a) /\ at[a].pc = "together" /\ UNCHANGED <<enrolled, gen, resets, expiries, clearing>>
    BY <1>3, <2>2 DEF SharedBudget
  <2>4. at[a].dev # NoDevice
    BY <2>3 DEF ThrottleShape
  <2>5. QED
    BY <2>1, <2>2, <2>3, <2>4, KeysAreKeys, AdmitKeepsShape DEF ThrottlePcs, Admitted
<1>4. ASSUME NEW a \in Attempts, LimitHere(a) PROVE ThrottleShape'
  <2>1. PICK pc \in {"refused", "account"} : Goto(a, pc)
    BY <1>4 DEF LimitHere
  <2>2. PICK k : k = HereKey(a)
    OBVIOUS
  <2>3. Increment(k, a) /\ at[a].pc = "here" /\ UNCHANGED <<enrolled, gen, resets, expiries, clearing>>
    BY <1>4, <2>2 DEF LimitHere
  <2>4. QED
    BY <2>1, <2>2, <2>3, KeysAreKeys, AdmitKeepsShape DEF ThrottlePcs, Admitted
<1>5. ASSUME NEW a \in Attempts, LimitAccount(a) PROVE ThrottleShape'
  <2>1. PICK pc \in {"refused", "delayed", "admitted"} : Goto(a, pc)
    BY <1>5 DEF LimitAccount
  <2>2. PICK k : k = AccountKey(a)
    OBVIOUS
  <2>3. Increment(k, a) /\ at[a].pc = "account" /\ UNCHANGED <<enrolled, gen, resets, expiries, clearing>>
    BY <1>5, <2>2 DEF LimitAccount
  <2>4. QED
    BY <2>1, <2>2, <2>3, KeysAreKeys, AdmitKeepsShape DEF ThrottlePcs, Admitted
<1>6. ASSUME NEW a \in Attempts, Delayed(a) \/ Judged(a) \/ Cleared(a) PROVE ThrottleShape'
  <2>1. PICK pc \in Admitted, g \in Nat : at' = [at EXCEPT ![a] = [at[a] EXCEPT !.pc = pc, !.gen = g]]
    <3>1. at[a].gen \in Nat /\ gen[at[a].kind] \in Nat /\ at[a] = [at[a] EXCEPT !.gen = at[a].gen]
      BY DEF ThrottleShape, ThrottleAttempt
    <3>2. ASSUME NEW pc \in Admitted, Goto(a, pc)
          PROVE  \E g \in Nat : at' = [at EXCEPT ![a] = [at[a] EXCEPT !.pc = pc, !.gen = g]]
      <4>1. [at[a] EXCEPT !.pc = pc] = [at[a] EXCEPT !.pc = pc, !.gen = at[a].gen]
        BY DEF ThrottleShape, ThrottleAttempt
      <4>2. QED
        BY <3>1, <3>2, <4>1 DEF Goto
    <3>3. CASE Delayed(a)
      BY <3>2, <3>3 DEF Delayed, Admitted
    <3>4. CASE Judged(a)
      <4>1. CASE Goto(a, "failed") \/ Goto(a, "challenge")
        BY <3>2, <4>1 DEF Admitted
      <4>2. CASE at' = [at EXCEPT ![a].pc = "clear", ![a].gen = gen[at[a].kind]]
        <5>1. at' = [at EXCEPT ![a] = [at[a] EXCEPT !.pc = "clear", !.gen = gen[at[a].kind]]]
          BY <4>2 DEF ThrottleShape, ThrottleAttempt
        <5>2. QED
          BY <3>1, <5>1 DEF Admitted
      <4>3. QED
        BY <3>4, <4>1, <4>2 DEF Judged
    <3>5. CASE Cleared(a)
      BY <3>2, <3>5 DEF Cleared, Admitted
    <3>6. QED
      BY <1>6, <3>3, <3>4, <3>5
  <2>2. at[a].pc \in Admitted
    BY <1>6 DEF Delayed, Judged, Cleared, Admitted
  <2>3. /\ at' \in [Attempts -> ThrottleAttempt]
        /\ \A b \in Attempts : /\ at'[b].dev = at[b].dev /\ at'[b].kind = at[b].kind
                              /\ at'[b].pc = IF b = a THEN pc ELSE at[b].pc
    <3>1. [at[a] EXCEPT !.pc = pc, !.gen = g] \in ThrottleAttempt
      BY DEF ThrottleShape, ThrottleAttempt, ThrottlePcs
    <3>2. at'[a] = [at[a] EXCEPT !.pc = pc, !.gen = g] /\ \A b \in Attempts : b # a => at'[b] = at[b]
      BY <2>1 DEF ThrottleShape
    <3>3. at' \in [Attempts -> ThrottleAttempt]
      BY <2>1, <3>1 DEF ThrottleShape
    <3>4. at'[a].dev = at[a].dev /\ at'[a].kind = at[a].kind /\ at'[a].pc = pc
      BY <3>2 DEF ThrottleShape, ThrottleAttempt
    <3>5. QED
      BY <3>2, <3>3, <3>4
  <2>4. UNCHANGED <<enrolled, counted, resets, expiries, clearing>> /\ gen' \in [Kinds -> Nat]
    BY <1>6 DEF Delayed, Judged, Cleared, ThrottleShape, ThrottleAttempt
  <2>5. Started' = Started
    BY <2>2, <2>3 DEF Started, Admitted
  <2>6. \A k \in DOMAIN counted : \A b \in counted[k] : CountedFits(k, b)'
    BY <2>3, <2>5 DEF ThrottleShape, CountedFits, Started, Admitted
  <2>7. QED
    BY <2>2, <2>3, <2>4, <2>5, <2>6 DEF ThrottleShape, Admitted
<1>7. CASE ResetReads \/ ResetClears
  <2>1. UNCHANGED <<enrolled, counted, at, expiries>> /\ gen' \in [Kinds -> Nat] /\ clearing' \subseteq Nat
        /\ resets' \in 0..MaxResets
    BY <1>7, ThrottleAssumption DEF ResetReads, ResetClears, ThrottleShape, Kinds
  <2>2. QED
    BY <2>1 DEF ThrottleShape, Started, CountedFits
<1>8. ASSUME NEW k \in DOMAIN counted, WindowEnds(k) PROVE ThrottleShape'
  <2>1. expiries' \in 0..MaxExpiries
    BY <1>8, ThrottleAssumption DEF WindowEnds, ThrottleShape
  <2>2. QED
    BY <1>8, <2>1 DEF WindowEnds, ThrottleShape, Started, CountedFits
<1>9. CASE UNCHANGED throttleVars
  BY <1>9 DEF throttleVars, ThrottleShape, Started, CountedFits
<1>10. QED
  BY <1>1, <1>2, <1>3, <1>4, <1>5, <1>6, <1>7, <1>8, <1>9 DEF ThrottleNext

\* Every counter holds finitely many attempts.
LEMMA CountersFinite ==
  ASSUME ThrottleShape, NEW k
  PROVE  In(k) \subseteq Started /\ IsFiniteSet(In(k)) /\ Cardinality(In(k)) \in Nat
<1>1. In(k) \subseteq Started
  BY DEF In, ThrottleShape, CountedFits
<1>2. QED
  BY <1>1, CardinalityShrinks DEF ThrottleShape

-----------------------------------------------------------------------------
\* Those who are past the account's counter k.
PastCeiling(k) == {a \in In(k) : at[a].pc \in Admitted}

\* Nobody gets past an account's counter by a step that does not count anyone in it.
LEMMA CeilingKept ==
  ASSUME ThrottleShape, CeilingHolds,
         \A k \in DOMAIN counted' : k[3] = "acct" =>
            {a \in counted'[k] : at'[a].pc \in Admitted} \subseteq PastCeiling(k)
  PROVE  CeilingHolds'
<1>1. SUFFICES ASSUME NEW k \in DOMAIN counted', k[3] = "acct"
               PROVE  Cardinality({a \in counted'[k] : at'[a].pc \in Admitted}) <= Ceiling
  BY DEF CeilingHolds, Admitted
<1>2. Cardinality(PastCeiling(k)) <= Ceiling
  <2>1. CASE k \in DOMAIN counted
    BY <1>1, <2>1 DEF CeilingHolds, PastCeiling, In
  <2>2. CASE k \notin DOMAIN counted
    <3>1. PastCeiling(k) = {}
      BY <2>2 DEF PastCeiling, In
    <3>2. QED
      BY <3>1, FS_EmptySet, ThrottleAssumption
  <2>3. QED
    BY <2>1, <2>2
<1>3. IsFiniteSet(PastCeiling(k))
  BY CountersFinite, FS_Subset DEF PastCeiling
<1>4. Ceiling \in Nat
  BY ThrottleAssumption
<1>5. Cardinality({a \in counted'[k] : at'[a].pc \in Admitted}) \in Nat
      /\ Cardinality({a \in counted'[k] : at'[a].pc \in Admitted}) <= Cardinality(PastCeiling(k))
      /\ Cardinality(PastCeiling(k)) \in Nat
  BY <1>1, <1>3, CardinalityShrinks
<1>6. QED
  BY <1>2, <1>4, <1>5

\* Every step keeps the admissions that one count of an account admits under its ceiling.
LEMMA CeilingStep ==
  ThrottleShape /\ CeilingHolds /\ [ThrottleNext]_throttleVars => CeilingHolds'
<1> SUFFICES ASSUME ThrottleShape, CeilingHolds, [ThrottleNext]_throttleVars PROVE CeilingHolds'
  OBVIOUS
<1>0. \A k \in DOMAIN counted : \A a \in counted[k] :
         /\ a \in Attempts /\ at[a].pc # "idle"
         /\ k[3] = "acct" => at[a].pc \notin {"device", "together", "here", "account"}
  BY DEF ThrottleShape, CountedFits, Started
<1>1. ASSUME NEW a \in Attempts, NEW kind \in Kinds, NEW dev \in Devices \cup {NoDevice},
             NEW addr \in Addresses, Attempt(a, kind, dev, addr)
      PROVE  CeilingHolds'
  <2>1. counted' = counted /\ \A b \in Attempts : b # a => at'[b] = at[b]
    BY <1>1 DEF Attempt, ThrottleShape
  <2>2. \A k \in DOMAIN counted : a \notin counted[k]
    BY <1>0, <1>1 DEF Attempt
  <2>3. QED
    BY <1>0, <2>1, <2>2, CeilingKept DEF PastCeiling, In
\* A step of admit on another counter.
<1>2. ASSUME NEW a \in Attempts, NEW k, Increment(k, a), k[3] # "acct", NEW pc, Goto(a, pc),
             at[a].pc \in {"device", "together", "here"}
      PROVE  CeilingHolds'
  <2>1. /\ DOMAIN counted' = DOMAIN counted \cup {k}
        /\ \A x \in DOMAIN counted : x # k => counted'[x] = counted[x]
    BY <1>2, IncrementIs
  <2>2. \A b \in Attempts : b # a => at'[b] = at[b]
    BY <1>2 DEF Goto, ThrottleShape
  <2>3. \A x \in DOMAIN counted : x[3] = "acct" => a \notin counted[x]
    BY <1>0, <1>2
  <2>4. QED
    BY <1>0, <1>2, <2>1, <2>2, <2>3, CeilingKept DEF PastCeiling, In
<1>3. ASSUME NEW a \in Attempts, OwnLimit(a) \/ SharedBudget(a) \/ LimitHere(a) PROVE CeilingHolds'
  <2>1. PICK k, pc : k \in {DeviceKey(a), DevicesKey(a), HereKey(a)} /\
           Increment(k, a) /\ Goto(a, pc) /\ at[a].pc \in {"device", "together", "here"}
    BY <1>3 DEF OwnLimit, SharedBudget, LimitHere
  <2>2. k[3] # "acct"
    BY <2>1, KeysAreKeys
  <2>3. QED
    BY <1>2, <2>1, <2>2
<1>4. ASSUME NEW a \in Attempts, LimitAccount(a) PROVE CeilingHolds'
  <2>1. PICK k : k = AccountKey(a)
    OBVIOUS
  <2>2. Increment(k, a) /\ at[a].pc = "account"
    BY <1>4, <2>1 DEF LimitAccount
  <2>3. /\ DOMAIN counted' = DOMAIN counted \cup {k} /\ counted'[k] = In(k) \cup {a}
        /\ \A x \in DOMAIN counted : x # k => counted'[x] = counted[x]
    BY <2>2, IncrementIs
  <2>4. (\A b \in Attempts : b # a => at'[b] = at[b]) /\ In(k) \subseteq Attempts
    BY <1>0, <1>4 DEF LimitAccount, Goto, ThrottleShape, In
  <2>5. \A x \in DOMAIN counted : x[3] = "acct" => a \notin counted[x]
    BY <1>0, <2>2
  <2>6. CASE Incremented(k, a) > Ceiling
    <3>1. at'[a].pc = "refused"
      BY <1>4, <2>1, <2>6 DEF LimitAccount, Goto, ThrottleShape, ThrottleAttempt
    <3>2. QED
      BY <1>0, <2>3, <2>4, <2>5, <3>1, CeilingKept DEF PastCeiling, In, Admitted
  <2>7. CASE ~(Incremented(k, a) > Ceiling)
    <3>1. Ceiling \in Nat /\ IsFiniteSet(In(k) \cup {a}) /\ Cardinality(In(k) \cup {a}) \in Nat
      BY CountersFinite, FS_AddElement, FS_CardinalityType, ThrottleAssumption
    <3>2. Cardinality(In(k) \cup {a}) <= Ceiling
      BY <2>7, <3>1 DEF Incremented
    <3>3. ASSUME NEW x \in DOMAIN counted', x[3] = "acct"
          PROVE  Cardinality({b \in counted'[x] : at'[b].pc \in Admitted}) <= Ceiling
      <4>1. CASE x = k
        <5>1. {b \in counted'[x] : at'[b].pc \in Admitted} \subseteq In(k) \cup {a}
          BY <2>3, <4>1
        <5>2. QED
          BY <3>1, <3>2, <5>1, CardinalityShrinks
      <4>2. CASE x # k
        <5>1. {b \in counted'[x] : at'[b].pc \in Admitted} = {b \in counted[x] : at[b].pc \in Admitted}
              /\ x \in DOMAIN counted
          BY <1>0, <2>3, <2>4, <2>5, <3>3, <4>2
        <5>2. QED
          BY <3>3, <5>1 DEF CeilingHolds
      <4>3. QED
        BY <4>1, <4>2
    <3>4. QED
      BY <3>3 DEF CeilingHolds, Admitted
  <2>8. QED
    BY <2>6, <2>7
<1>5. ASSUME NEW a \in Attempts, Delayed(a) \/ Judged(a) \/ Cleared(a) PROVE CeilingHolds'
  <2>1. /\ at[a].pc \in Admitted /\ counted' = counted
        /\ \A b \in Attempts : b # a => at'[b] = at[b]
    BY <1>5 DEF Delayed, Judged, Cleared, Goto, ThrottleShape, Admitted
  <2>2. QED
    BY <1>0, <2>1, CeilingKept DEF PastCeiling, In
<1>6. CASE ResetReads \/ ResetClears \/ UNCHANGED throttleVars
  BY <1>6 DEF ResetReads, ResetClears, throttleVars, CeilingHolds, Admitted
<1>7. ASSUME NEW k \in DOMAIN counted, WindowEnds(k) PROVE CeilingHolds'
  BY <1>7, CeilingKept DEF WindowEnds, PastCeiling, In
<1>8. QED
  BY <1>1, <1>3, <1>4, <1>5, <1>6, <1>7 DEF ThrottleNext

-----------------------------------------------------------------------------
\* The attempts of a device, those with any device, and whether they are past the limits.
OfDevice(d) == {x \in Attempts : at[x].dev = d}
WithDevice == {x \in Attempts : at[x].dev # NoDevice}
OverLimits(d) == Cardinality(OfDevice(d)) > DeviceMax \/ Cardinality(WithDevice) > DevicesMax

\* OwnerShielded, from the step where a device stops being a device.
TurnedAway == {"here", "account", "refused", "delayed"}
ShieldInv ==
    \A a \in Attempts : at[a].dev # NoDevice /\ at[a].pc \in TurnedAway => OverLimits(at[a].dev)

\* Devices are only ever given to attempts, so limits that are passed stay passed.
LEMMA OverLimitsStays ==
  ASSUME ThrottleShape, ThrottleShape', NEW d \in Devices, OverLimits(d),
         \A b \in Attempts : at[b].dev # NoDevice => at'[b].dev = at[b].dev
  PROVE  OverLimits(d)'
<1>1. d # NoDevice
  BY ThrottleAssumption
<1>2. OfDevice(d)' \subseteq Started' /\ WithDevice' \subseteq Started' /\ IsFiniteSet(Started')
  BY <1>1 DEF OfDevice, WithDevice, Started, ThrottleShape
<1>3. OfDevice(d) \subseteq OfDevice(d)' /\ WithDevice \subseteq WithDevice'
  BY <1>1 DEF OfDevice, WithDevice
<1>4. IsFiniteSet(OfDevice(d)') /\ IsFiniteSet(WithDevice')
  BY <1>2, FS_Subset
<1>5. /\ Cardinality(OfDevice(d)) <= Cardinality(OfDevice(d)')
      /\ Cardinality(OfDevice(d)) \in Nat /\ Cardinality(OfDevice(d)') \in Nat
  BY <1>3, <1>4, CardinalityShrinks
<1>6. /\ Cardinality(WithDevice) <= Cardinality(WithDevice')
      /\ Cardinality(WithDevice) \in Nat /\ Cardinality(WithDevice') \in Nat
  BY <1>3, <1>4, CardinalityShrinks
<1>7. DeviceMax \in Nat /\ DevicesMax \in Nat
  BY ThrottleAssumption
<1>8. Cardinality(OfDevice(d))' = Cardinality(OfDevice(d)') /\ Cardinality(WithDevice)' = Cardinality(WithDevice')
  OBVIOUS
<1>9. QED
  BY <1>5, <1>6, <1>7, <1>8 DEF OverLimits

\* A step that gives nobody a new refusal below the limits, and takes no device back, keeps the shield.
LEMMA ShieldKept ==
  ASSUME ThrottleShape, ThrottleShape', ShieldInv,
         \A b \in Attempts : at[b].dev # NoDevice => at'[b].dev = at[b].dev,
         \A b \in Attempts : at'[b].dev # NoDevice /\ at'[b].pc \in TurnedAway =>
            at'[b].dev = at[b].dev /\ (at[b].pc \in TurnedAway \/ OverLimits(at[b].dev))
  PROVE  ShieldInv'
<1>1. SUFFICES ASSUME NEW b \in Attempts, at'[b].dev # NoDevice, at'[b].pc \in TurnedAway
               PROVE  OverLimits(at[b].dev)'
  BY DEF ShieldInv, TurnedAway
<1>2. PICK d : d = at[b].dev
  OBVIOUS
<1>3. d = at'[b].dev /\ OverLimits(d)
  BY <1>1, <1>2 DEF ShieldInv
<1>4. d \in Devices
  BY <1>1, <1>3 DEF ThrottleShape, ThrottleAttempt
<1>5. OverLimits(d)'
  BY <1>3, <1>4, OverLimitsStays
<1>6. QED
  BY <1>3, <1>5

\* Every step keeps the shield: who came with a known device is turned away over its own limits only.
LEMMA ShieldStep ==
  ThrottleShape /\ ShieldInv /\ [ThrottleNext]_throttleVars => ShieldInv'
<1> SUFFICES ASSUME ThrottleShape, ShieldInv, [ThrottleNext]_throttleVars PROVE ShieldInv'
  OBVIOUS
<1>0. ThrottleShape'
  BY ThrottleStepShape
<1>1. ASSUME NEW a \in Attempts, NEW kind \in Kinds, NEW dev \in Devices \cup {NoDevice},
             NEW addr \in Addresses, Attempt(a, kind, dev, addr)
      PROVE  ShieldInv'
  <2>1. at[a].pc = "idle" /\ \A b \in Attempts : b # a => at'[b] = at[b]
    BY <1>1 DEF Attempt, ThrottleShape
  <2>2. at[a].dev = NoDevice
    BY <2>1 DEF ThrottleShape
  <2>3. at'[a].dev = NoDevice \/ at'[a].pc = "device"
    BY <1>1 DEF Attempt, ThrottleShape
  <2>4. QED
    BY <1>0, <2>1, <2>2, <2>3, ShieldKept DEF TurnedAway
\* A step of admit, or after it, that turns a device away only past the limits.
<1>2. ASSUME NEW a \in Attempts, NEW pc, Goto(a, pc),
             pc \in TurnedAway /\ at[a].dev # NoDevice => at[a].pc \in TurnedAway \/ OverLimits(at[a].dev)
      PROVE  ShieldInv'
  <2>1. /\ \A b \in Attempts : b # a => at'[b] = at[b]
        /\ at'[a].dev = at[a].dev /\ at'[a].pc = pc
    BY <1>2 DEF Goto, ThrottleShape, ThrottleAttempt
  <2>2. QED
    BY <1>0, <1>2, <2>1, ShieldKept
<1>3. ASSUME NEW a \in Attempts, OwnLimit(a) PROVE ShieldInv'
  <2>1. PICK k : k = DeviceKey(a)
    OBVIOUS
  <2>2. at[a].dev \in Devices /\ at[a].pc = "device"
    BY <1>3 DEF OwnLimit, ThrottleShape, ThrottleAttempt
  <2>3. CASE Incremented(k, a) > DeviceMax
    <3>1. In(k) \cup {a} \subseteq OfDevice(at[a].dev)
      BY <2>1, KeysAreKeys DEF ThrottleShape, CountedFits, Started, In, OfDevice
    <3>2. IsFiniteSet(OfDevice(at[a].dev))
      <4>1. OfDevice(at[a].dev) \subseteq Started
        BY <2>2, ThrottleAssumption DEF OfDevice, ThrottleShape, Started
      <4>2. QED
        BY <4>1, FS_Subset DEF ThrottleShape
    <3>3. /\ Cardinality(In(k) \cup {a}) <= Cardinality(OfDevice(at[a].dev))
          /\ Cardinality(In(k) \cup {a}) \in Nat /\ Cardinality(OfDevice(at[a].dev)) \in Nat
      BY <3>1, <3>2, CardinalityShrinks
    <3>4. OverLimits(at[a].dev)
      BY <2>3, <3>3, ThrottleAssumption DEF OverLimits, Incremented
    <3>5. QED
      BY <1>2, <1>3, <3>4 DEF OwnLimit
  <2>4. CASE ~(Incremented(k, a) > DeviceMax)
    BY <1>2, <1>3, <2>1, <2>4 DEF OwnLimit, TurnedAway
  <2>5. QED
    BY <2>3, <2>4
<1>4. ASSUME NEW a \in Attempts, SharedBudget(a) PROVE ShieldInv'
  <2>1. PICK k : k = DevicesKey(a)
    OBVIOUS
  <2>2. at[a].dev # NoDevice
    BY <1>4 DEF SharedBudget, ThrottleShape
  <2>3. CASE Incremented(k, a) <= DevicesMax
    BY <1>2, <1>4, <2>1, <2>3 DEF SharedBudget, TurnedAway
  <2>4. CASE ~(Incremented(k, a) <= DevicesMax)
    <3>1. In(k) \cup {a} \subseteq WithDevice
      BY <2>1, <2>2, KeysAreKeys DEF ThrottleShape, CountedFits, Started, In, WithDevice
    <3>2. IsFiniteSet(WithDevice)
      <4>1. WithDevice \subseteq Started
        BY DEF WithDevice, ThrottleShape, Started
      <4>2. QED
        BY <4>1, FS_Subset DEF ThrottleShape
    <3>3. /\ Cardinality(In(k) \cup {a}) <= Cardinality(WithDevice)
          /\ Cardinality(In(k) \cup {a}) \in Nat /\ Cardinality(WithDevice) \in Nat
      BY <3>1, <3>2, CardinalityShrinks
    <3>4. OverLimits(at[a].dev)
      BY <2>4, <3>3, ThrottleAssumption DEF OverLimits, Incremented
    <3>5. QED
      BY <1>2, <1>4, <3>4 DEF SharedBudget
  <2>5. QED
    BY <2>3, <2>4
<1>5. ASSUME NEW a \in Attempts, LimitHere(a) \/ LimitAccount(a) PROVE ShieldInv'
  BY <1>2, <1>5 DEF LimitHere, LimitAccount, TurnedAway
<1>6. ASSUME NEW a \in Attempts, Delayed(a) \/ Judged(a) \/ Cleared(a) PROVE ShieldInv'
  <2>1. CASE at' = [at EXCEPT ![a].pc = "clear", ![a].gen = gen[at[a].kind]]
    <3>1. /\ \A b \in Attempts : b # a => at'[b] = at[b]
          /\ at'[a].dev = at[a].dev /\ at'[a].pc = "clear"
      BY <2>1 DEF ThrottleShape, ThrottleAttempt
    <3>2. QED
      BY <1>0, <3>1, ShieldKept DEF TurnedAway
  <2>2. QED
    BY <1>2, <1>6, <2>1 DEF Delayed, Judged, Cleared, TurnedAway
<1>7. CASE UNCHANGED at
  BY <1>0, <1>7, ShieldKept
<1>8. QED
  BY <1>1, <1>3, <1>4, <1>5, <1>6, <1>7 DEF ThrottleNext, ResetReads, ResetClears, WindowEnds, throttleVars

-----------------------------------------------------------------------------

\* What is multiplied by a larger number grows.
LEMMA Growing ==
  ASSUME NEW m \in Nat, NEW i \in Nat, NEW j \in Nat, i <= j
  PROVE  m * i <= m * j /\ m * i \in Nat /\ m * j \in Nat /\ m * (1 + i) = m + m * i
  OBVIOUS

\* The attempts of one device in the budget its generation shares, with those about to
\* be counted in it, the device's own counter of that generation, and how they compare:
\* the window in force let DeviceMax of them through, each window that ended as many.
Drew(kind, g, d) ==
    {a \in In(<<kind, g, "devs">>) : at[a].dev = d}
      \cup {a \in Attempts : at[a].pc = "together" /\ at[a].kind = kind /\ at[a].gen = g /\ at[a].dev = d}
OwnCounter(kind, g, d) == In(<<kind, g, "dev", d>>)
Inside(kind, g, d) == Drew(kind, g, d) \cap OwnCounter(kind, g, d)
Outside(kind, g, d) == Drew(kind, g, d) \ OwnCounter(kind, g, d)
BudgetInv ==
    \A kind \in Kinds, g \in Nat, d \in Devices :
        /\ Cardinality(Inside(kind, g, d)) <= DeviceMax
        /\ Cardinality(Outside(kind, g, d)) <= DeviceMax * expiries

\* The attempts that drew on a budget, and those of them inside its span, are finitely many.
LEMMA DrewFinite ==
  ASSUME ThrottleShape, NEW kind, NEW g, NEW d
  PROVE  /\ IsFiniteSet(Drew(kind, g, d))
         /\ IsFiniteSet(Inside(kind, g, d)) /\ Cardinality(Inside(kind, g, d)) \in Nat
         /\ IsFiniteSet(Outside(kind, g, d)) /\ Cardinality(Outside(kind, g, d)) \in Nat
<1>1. Drew(kind, g, d) \subseteq Started
  BY CountersFinite DEF Drew, Started
<1>2. IsFiniteSet(Drew(kind, g, d))
  BY <1>1, FS_Subset DEF ThrottleShape
<1>3. QED
  BY <1>2, CardinalityShrinks DEF Inside, Outside

\* An attempt that neither draws nor counts for its device draws nothing.
LEMMA BudgetKept ==
  ASSUME ThrottleShape, BudgetInv, expiries' \in Nat, expiries' >= expiries,
         \A kind \in Kinds, g \in Nat, d \in Devices :
            /\ Inside(kind, g, d)' \subseteq Inside(kind, g, d)
            /\ Outside(kind, g, d)' \subseteq Outside(kind, g, d)
  PROVE  BudgetInv'
<1>1. SUFFICES ASSUME NEW kind \in Kinds, NEW g \in Nat, NEW d \in Devices
               PROVE  /\ Cardinality(Inside(kind, g, d)') <= DeviceMax
                      /\ Cardinality(Outside(kind, g, d)') <= DeviceMax * expiries'
  BY DEF BudgetInv
<1>2. /\ Inside(kind, g, d)' \subseteq Inside(kind, g, d)
      /\ Outside(kind, g, d)' \subseteq Outside(kind, g, d)
  OBVIOUS
<1>3. /\ IsFiniteSet(Inside(kind, g, d)) /\ IsFiniteSet(Outside(kind, g, d))
  BY DrewFinite
<1>4. /\ Cardinality(Inside(kind, g, d)') <= Cardinality(Inside(kind, g, d))
      /\ Cardinality(Inside(kind, g, d)') \in Nat /\ Cardinality(Inside(kind, g, d)) \in Nat
  BY <1>2, <1>3, CardinalityShrinks
<1>5. /\ Cardinality(Outside(kind, g, d)') <= Cardinality(Outside(kind, g, d))
      /\ Cardinality(Outside(kind, g, d)') \in Nat /\ Cardinality(Outside(kind, g, d)) \in Nat
  BY <1>2, <1>3, CardinalityShrinks
<1>6. DeviceMax \in Nat /\ expiries \in Nat
  BY ThrottleAssumption DEF ThrottleShape
<1>7. DeviceMax * expiries <= DeviceMax * expiries' /\ DeviceMax * expiries \in Nat /\ DeviceMax * expiries' \in Nat
  BY <1>6, Growing
<1>8. QED
  BY <1>4, <1>5, <1>6, <1>7 DEF BudgetInv

\* A step that moves one attempt, which is not about to draw before or after it, and
\* counts it at most in a counter that is neither a device's nor shared by devices.
LEMMA OthersDrawNothing ==
  ASSUME ThrottleShape, BudgetInv, NEW a \in Attempts, at[a].pc # "together", at'[a].pc # "together",
         expiries' = expiries, \A b \in Attempts : b # a => at'[b] = at[b],
         \A x \in DOMAIN counted : x[3] = "devs" /\ a \in counted[x] => at'[a].dev = at[a].dev,
         counted' = counted \/ \E k : Increment(k, a) /\ k[3] \notin {"dev", "devs"}
  PROVE  BudgetInv'
<1>1. ASSUME NEW x, x[3] \in {"dev", "devs"} PROVE In(x)' = In(x)
  BY <1>1 DEF Increment, In
<1>2. ASSUME NEW kind \in Kinds, NEW g \in Nat, NEW d \in Devices
      PROVE  Drew(kind, g, d)' = Drew(kind, g, d) /\ OwnCounter(kind, g, d)' = OwnCounter(kind, g, d)
  <2>1. PICK x, y : x = <<kind, g, "devs">> /\ y = <<kind, g, "dev", d>>
    OBVIOUS
  <2>2. In(x)' = In(x) /\ In(y)' = In(y)
    BY <1>1, <2>1
  <2>3. In(x) \subseteq Attempts /\ (a \in In(x) => at'[a].dev = at[a].dev)
    BY <2>1, CountersFinite DEF Started, In
  <2>4. {b \in In(x)' : at'[b].dev = d} = {b \in In(x) : at[b].dev = d}
    BY <2>2, <2>3
  <2>5. QED
    BY <2>1, <2>2, <2>4 DEF Drew, OwnCounter
<1>3. expiries \in Nat
  BY DEF ThrottleShape
<1>4. QED
  BY <1>2, <1>3, BudgetKept DEF Inside, Outside

\* Every step keeps each counter at the number of admissions that still matter to it.
LEMMA BudgetStep ==
  ThrottleShape /\ BudgetInv /\ [ThrottleNext]_throttleVars => BudgetInv'
<1> SUFFICES ASSUME ThrottleShape, BudgetInv, [ThrottleNext]_throttleVars PROVE BudgetInv'
  OBVIOUS
<1>0. expiries \in Nat /\ DeviceMax \in Nat
  BY ThrottleAssumption DEF ThrottleShape
<1>00. \A x \in DOMAIN counted : \A b \in counted[x] :
         /\ b \in Attempts /\ at[b].pc # "idle"
         /\ x[3] = "devs" => at[b].pc \notin {"device", "together"}
  BY DEF ThrottleShape, CountedFits, Started
<1>1. ASSUME NEW a \in Attempts, NEW kind \in Kinds, NEW dev \in Devices \cup {NoDevice},
             NEW addr \in Addresses, Attempt(a, kind, dev, addr)
      PROVE  BudgetInv'
  <2>1. /\ at[a].pc = "idle" /\ \A b \in Attempts : b # a => at'[b] = at[b]
        /\ at'[a].pc # "together" /\ expiries' = expiries /\ counted' = counted
    BY <1>1 DEF Attempt, ThrottleShape
  <2>2. QED
    BY <1>00, <2>1, OthersDrawNothing
<1>2. ASSUME NEW a \in Attempts, OwnLimit(a) PROVE BudgetInv'
  <2>1. PICK k : k = DeviceKey(a)
    OBVIOUS
  <2>2. /\ \A b \in Attempts : b # a => at'[b] = at[b]
        /\ at'[a] = [at[a] EXCEPT !.pc = IF Incremented(k, a) > DeviceMax THEN "refused" ELSE "together"]
        /\ at[a].pc = "device" /\ Increment(k, a) /\ expiries' = expiries
    BY <1>2, <2>1 DEF OwnLimit, Goto, ThrottleShape
  <2>3. /\ at'[a].kind = at[a].kind /\ at'[a].gen = at[a].gen /\ at'[a].dev = at[a].dev
        /\ at'[a].pc = IF Incremented(k, a) > DeviceMax THEN "refused" ELSE "together"
    BY <2>2 DEF ThrottleShape, ThrottleAttempt
  <2>4. ASSUME NEW kind \in Kinds, NEW g \in Nat, NEW d \in Devices
        PROVE  /\ Cardinality(Inside(kind, g, d)') <= DeviceMax
               /\ Cardinality(Outside(kind, g, d)') <= DeviceMax * expiries'
    <3>1. PICK x, y : x = <<kind, g, "devs">> /\ y = <<kind, g, "dev", d>>
      OBVIOUS
    <3>2. k = y <=> kind = at[a].kind /\ g = at[a].gen /\ d = at[a].dev
      BY <2>1, <3>1 DEF DeviceKey
    <3>3. x # k
      BY <2>1, <3>1, KeysAreKeys
    <3>4. In(x)' = In(x) /\ In(y)' = IF y = k THEN In(k) \cup {a} ELSE In(y)
      BY <2>2, <3>3 DEF Increment, In
    <3>5. In(x) \subseteq Attempts /\ a \notin In(x)
      BY <1>00, <2>2, <3>1 DEF In
    <3>6. {b \in In(x)' : at'[b].dev = d} = {b \in In(x) : at[b].dev = d}
      BY <2>2, <3>4, <3>5
    <3>7. /\ Drew(kind, g, d)' = {b \in In(x)' : at'[b].dev = d} \cup
               {b \in Attempts : at'[b].pc = "together" /\ at'[b].kind = kind /\ at'[b].gen = g /\ at'[b].dev = d}
          /\ Drew(kind, g, d) = {b \in In(x) : at[b].dev = d} \cup
               {b \in Attempts : at[b].pc = "together" /\ at[b].kind = kind /\ at[b].gen = g /\ at[b].dev = d}
          /\ OwnCounter(kind, g, d)' = In(y)' /\ OwnCounter(kind, g, d) = In(y)
      BY <3>1 DEF Drew, OwnCounter
    <3>8. a \notin Drew(kind, g, d)
      BY <2>2, <3>5, <3>7
    <3>9. /\ Cardinality(Inside(kind, g, d)) <= DeviceMax
          /\ Cardinality(Outside(kind, g, d)) <= DeviceMax * expiries
      BY DEF BudgetInv
    <3>10. /\ IsFiniteSet(Inside(kind, g, d)) /\ Cardinality(Inside(kind, g, d)) \in Nat
           /\ IsFiniteSet(Outside(kind, g, d)) /\ Cardinality(Outside(kind, g, d)) \in Nat
           /\ DeviceMax * expiries \in Nat
      BY <1>0, DrewFinite, Growing
    <3>11. CASE at'[a].pc = "together" /\ y = k
      <4>1. Drew(kind, g, d)' = Drew(kind, g, d) \cup {a}
        BY <2>2, <2>3, <3>2, <3>6, <3>7, <3>11
      <4>2. Outside(kind, g, d)' \subseteq Outside(kind, g, d)
        BY <3>4, <3>7, <3>11, <4>1 DEF Outside
      <4>3. Inside(kind, g, d)' \subseteq In(k) \cup {a}
        BY <3>4, <3>7, <3>11 DEF Inside
      <4>4. IsFiniteSet(In(k) \cup {a}) /\ Cardinality(In(k) \cup {a}) \in Nat
        BY CountersFinite, FS_AddElement, FS_CardinalityType
      <4>5. Cardinality(In(k) \cup {a}) <= DeviceMax
        BY <1>0, <2>3, <3>11, <4>4 DEF Incremented
      <4>6. Cardinality(Inside(kind, g, d)') <= Cardinality(In(k) \cup {a})
            /\ Cardinality(Inside(kind, g, d)') \in Nat
        BY <4>3, <4>4, CardinalityShrinks
      <4>7. Cardinality(Outside(kind, g, d)') <= Cardinality(Outside(kind, g, d))
            /\ Cardinality(Outside(kind, g, d)') \in Nat
        BY <3>10, <4>2, CardinalityShrinks
      <4>8. QED
        BY <1>0, <2>2, <3>9, <3>10, <4>4, <4>5, <4>6, <4>7
    <3>12. CASE ~(at'[a].pc = "together" /\ y = k)
      <4>0. {b \in Attempts : at'[b].pc = "together" /\ at'[b].kind = kind /\ at'[b].gen = g /\ at'[b].dev = d}
              = {b \in Attempts : at[b].pc = "together" /\ at[b].kind = kind /\ at[b].gen = g /\ at[b].dev = d}
        BY <2>2, <2>3, <3>2, <3>12
      <4>1. Drew(kind, g, d)' = Drew(kind, g, d)
        BY <3>6, <3>7, <4>0
      <4>2. Inside(kind, g, d)' = Inside(kind, g, d) /\ Outside(kind, g, d)' = Outside(kind, g, d)
        BY <3>4, <3>7, <3>8, <4>1 DEF Inside, Outside
      <4>3. QED
        BY <2>2, <3>9, <4>2
    <3>13. QED
      BY <3>11, <3>12
  <2>5. QED
    BY <2>4 DEF BudgetInv
<1>3. ASSUME NEW a \in Attempts, SharedBudget(a) PROVE BudgetInv'
  <2>1. PICK k : k = DevicesKey(a)
    OBVIOUS
  <2>2. PICK pc \in {"admitted", "here"} : Goto(a, pc)
    BY <1>3 DEF SharedBudget
  <2>3. /\ \A b \in Attempts : b # a => at'[b] = at[b]
        /\ at'[a] = [at[a] EXCEPT !.pc = pc]
        /\ at[a].pc = "together" /\ Increment(k, a) /\ expiries' = expiries
    BY <1>3, <2>1, <2>2 DEF SharedBudget, Goto, ThrottleShape
  <2>4. at'[a].kind = at[a].kind /\ at'[a].gen = at[a].gen /\ at'[a].dev = at[a].dev /\ at'[a].pc = pc
    BY <2>3 DEF ThrottleShape, ThrottleAttempt
  <2>5. ASSUME NEW kind \in Kinds, NEW g \in Nat, NEW d \in Devices
        PROVE  Drew(kind, g, d)' = Drew(kind, g, d) /\ OwnCounter(kind, g, d)' = OwnCounter(kind, g, d)
    <3>1. PICK x, y : x = <<kind, g, "devs">> /\ y = <<kind, g, "dev", d>>
      OBVIOUS
    <3>2. k = x <=> kind = at[a].kind /\ g = at[a].gen
      BY <2>1, <3>1 DEF DevicesKey
    <3>3. y # k
      BY <2>1, <3>1, KeysAreKeys
    <3>4. In(y)' = In(y) /\ In(x)' = IF x = k THEN In(k) \cup {a} ELSE In(x)
      BY <2>3, <3>3 DEF Increment, In
    <3>5. In(x) \subseteq Attempts /\ a \notin In(x)
      BY <1>00, <2>3, <3>1 DEF In
    <3>6. /\ Drew(kind, g, d)' = {b \in In(x)' : at'[b].dev = d} \cup
               {b \in Attempts : at'[b].pc = "together" /\ at'[b].kind = kind /\ at'[b].gen = g /\ at'[b].dev = d}
          /\ Drew(kind, g, d) = {b \in In(x) : at[b].dev = d} \cup
               {b \in Attempts : at[b].pc = "together" /\ at[b].kind = kind /\ at[b].gen = g /\ at[b].dev = d}
          /\ OwnCounter(kind, g, d)' = In(y)' /\ OwnCounter(kind, g, d) = In(y)
      BY <3>1 DEF Drew, OwnCounter
    <3>7. CASE x = k /\ d = at[a].dev
      <4>1. {b \in Attempts : at'[b].pc = "together" /\ at'[b].kind = kind /\ at'[b].gen = g /\ at'[b].dev = d}
              = {b \in Attempts : at[b].pc = "together" /\ at[b].kind = kind /\ at[b].gen = g /\ at[b].dev = d} \ {a}
        BY <2>3, <2>4
      <4>2. {b \in In(x)' : at'[b].dev = d} = {b \in In(x) : at[b].dev = d} \cup {a}
        BY <2>3, <2>4, <3>4, <3>5, <3>7
      <4>3. a \in {b \in Attempts : at[b].pc = "together" /\ at[b].kind = kind /\ at[b].gen = g /\ at[b].dev = d}
        BY <2>3, <3>2, <3>7
      <4>4. QED
        BY <3>3, <3>4, <3>6, <4>1, <4>2, <4>3
    <3>8. CASE ~(x = k /\ d = at[a].dev)
      <4>1. {b \in Attempts : at'[b].pc = "together" /\ at'[b].kind = kind /\ at'[b].gen = g /\ at'[b].dev = d}
              = {b \in Attempts : at[b].pc = "together" /\ at[b].kind = kind /\ at[b].gen = g /\ at[b].dev = d}
        BY <2>3, <2>4, <3>2, <3>8
      <4>2. {b \in In(x)' : at'[b].dev = d} = {b \in In(x) : at[b].dev = d}
        <5>1. CASE x = k
          BY <2>3, <2>4, <3>4, <3>5, <3>8, <5>1
        <5>2. CASE x # k
          BY <2>3, <3>4, <3>5, <5>2
        <5>3. QED
          BY <5>1, <5>2
      <4>3. QED
        BY <3>3, <3>4, <3>6, <4>1, <4>2
    <3>9. QED
      BY <3>7, <3>8
  <2>6. QED
    BY <1>0, <2>3, <2>5, BudgetKept DEF Inside, Outside
<1>4. ASSUME NEW a \in Attempts, LimitHere(a) \/ LimitAccount(a) \/ Delayed(a) \/ Judged(a) \/ Cleared(a)
      PROVE  BudgetInv'
  <2>1. /\ \A b \in Attempts : b # a => at'[b] = at[b]
        /\ at[a].pc # "together" /\ at'[a].pc # "together" /\ at'[a].dev = at[a].dev /\ expiries' = expiries
    <3>1. PICK pc, g : pc # "together" /\ at' = [at EXCEPT ![a] = [at[a] EXCEPT !.pc = pc, !.gen = g]]
      <4>1. ASSUME NEW pc, Goto(a, pc) PROVE \E g : at' = [at EXCEPT ![a] = [at[a] EXCEPT !.pc = pc, !.gen = g]]
        <5>1. [at[a] EXCEPT !.pc = pc] = [at[a] EXCEPT !.pc = pc, !.gen = at[a].gen]
          BY DEF ThrottleShape, ThrottleAttempt
        <5>2. QED
          BY <4>1, <5>1 DEF Goto
      <4>2. CASE at' = [at EXCEPT ![a].pc = "clear", ![a].gen = gen[at[a].kind]]
        <5>1. at' = [at EXCEPT ![a] = [at[a] EXCEPT !.pc = "clear", !.gen = gen[at[a].kind]]]
          BY <4>2 DEF ThrottleShape, ThrottleAttempt
        <5>2. QED
          BY <5>1
      <4>3. CASE Judged(a)
        <5>1. CASE Goto(a, "failed")
          BY <4>1, <5>1
        <5>2. CASE Goto(a, "challenge")
          BY <4>1, <5>2
        <5>3. QED
          BY <4>2, <4>3, <5>1, <5>2 DEF Judged
      <4>4. CASE ~Judged(a)
        <5>1. PICK pc \in {"refused", "account", "delayed", "admitted", "ended"} : Goto(a, pc)
          BY <1>4, <4>4 DEF LimitHere, LimitAccount, Delayed, Cleared
        <5>2. QED
          BY <4>1, <5>1
      <4>5. QED
        BY <4>3, <4>4
    <3>2. /\ \A b \in Attempts : b # a => at'[b] = at[b]
          /\ at'[a] = [at[a] EXCEPT !.pc = pc, !.gen = g]
      BY <3>1 DEF ThrottleShape
    <3>3. at'[a].dev = at[a].dev /\ at'[a].pc = pc
      BY <3>2 DEF ThrottleShape, ThrottleAttempt
    <3>4. QED
      BY <1>4, <3>1, <3>2, <3>3 DEF LimitHere, LimitAccount, Delayed, Judged, Cleared
  <2>2. counted' = counted \/ \E k : Increment(k, a) /\ k[3] \notin {"dev", "devs"}
    <3>1. HereKey(a)[3] = "ip" /\ AccountKey(a)[3] = "acct"
      BY KeysAreKeys
    <3>2. QED
      BY <1>4, <3>1 DEF LimitHere, LimitAccount, Delayed, Judged, Cleared
  <2>3. QED
    BY <2>1, <2>2, OthersDrawNothing
<1>5. CASE ResetReads \/ ResetClears \/ UNCHANGED throttleVars
  BY <1>5 DEF ResetReads, ResetClears, throttleVars, BudgetInv, Inside, Outside, Drew, OwnCounter, In
<1>6. ASSUME NEW k \in DOMAIN counted, WindowEnds(k) PROVE BudgetInv'
  <2>1. UNCHANGED at /\ expiries' = expiries + 1 /\ \A x : In(x)' = IF x = k THEN {} ELSE In(x)
    BY <1>6 DEF WindowEnds, In
  <2>2. ASSUME NEW kind \in Kinds, NEW g \in Nat, NEW d \in Devices
        PROVE  /\ Cardinality(Inside(kind, g, d)') <= DeviceMax
               /\ Cardinality(Outside(kind, g, d)') <= DeviceMax * expiries'
    <3>1. PICK x, y : x = <<kind, g, "devs">> /\ y = <<kind, g, "dev", d>>
      OBVIOUS
    <3>2. /\ Drew(kind, g, d)' \subseteq Drew(kind, g, d)
          /\ OwnCounter(kind, g, d)' = IF y = k THEN {} ELSE OwnCounter(kind, g, d)
      BY <2>1, <3>1 DEF Drew, OwnCounter
    <3>3. /\ Cardinality(Inside(kind, g, d)) <= DeviceMax
          /\ Cardinality(Outside(kind, g, d)) <= DeviceMax * expiries
      BY DEF BudgetInv
    <3>4. /\ IsFiniteSet(Inside(kind, g, d)) /\ Cardinality(Inside(kind, g, d)) \in Nat
          /\ IsFiniteSet(Outside(kind, g, d)) /\ Cardinality(Outside(kind, g, d)) \in Nat
          /\ DeviceMax * expiries \in Nat
      BY <1>0, DrewFinite, Growing
    <3>5. DeviceMax * expiries' = DeviceMax + DeviceMax * expiries
      BY <1>0, <2>1, Growing
    <3>6. /\ IsFiniteSet(Inside(kind, g, d) \cup Outside(kind, g, d))
          /\ Cardinality(Inside(kind, g, d) \cup Outside(kind, g, d))
               = Cardinality(Inside(kind, g, d)) + Cardinality(Outside(kind, g, d))
      <4>1. Inside(kind, g, d) \cap Outside(kind, g, d) = {}
        BY DEF Inside, Outside
      <4>2. QED
        BY <3>4, <4>1, CardinalityAdds
    <3>7. Inside(kind, g, d)' \subseteq Inside(kind, g, d)
          /\ Outside(kind, g, d)' \subseteq Inside(kind, g, d) \cup Outside(kind, g, d)
      BY <3>2 DEF Inside, Outside
    <3>8. Cardinality(Inside(kind, g, d)') <= Cardinality(Inside(kind, g, d))
          /\ Cardinality(Inside(kind, g, d)') \in Nat
      BY <3>4, <3>7, CardinalityShrinks
    <3>9. Cardinality(Outside(kind, g, d)') <= Cardinality(Inside(kind, g, d) \cup Outside(kind, g, d))
          /\ Cardinality(Outside(kind, g, d)') \in Nat
      BY <3>6, <3>7, CardinalityShrinks
    <3>10. QED
      BY <1>0, <3>3, <3>4, <3>5, <3>6, <3>8, <3>9
  <2>3. QED
    BY <2>2 DEF BudgetInv
<1>7. QED
  BY <1>1, <1>2, <1>3, <1>4, <1>5, <1>6 DEF ThrottleNext

-----------------------------------------------------------------------------
ThrottleInv == ThrottleShape /\ CeilingHolds /\ ShieldInv /\ BudgetInv

\* Initially no budget was drawn on.
LEMMA ThrottleInitInv == ThrottleInit => ThrottleInv
<1> SUFFICES ASSUME ThrottleInit PROVE ThrottleInv
  OBVIOUS
<1>1. ThrottleShape
  BY ThrottleInitShape
<1>2. DOMAIN counted = {} /\ expiries = 0 /\ \A a \in Attempts : at[a].pc = "idle" /\ at[a].dev = NoDevice
  BY DEF ThrottleInit, Idle
<1>3. CeilingHolds /\ ShieldInv
  BY <1>2 DEF CeilingHolds, ShieldInv
<1>4. \A kind, g, d : Inside(kind, g, d) = {} /\ Outside(kind, g, d) = {}
  BY <1>2 DEF Inside, Outside, Drew, OwnCounter, In
<1>5. BudgetInv
  <2>1. DeviceMax \in Nat /\ DeviceMax * expiries = 0
    BY <1>2, ThrottleAssumption
  <2>2. Cardinality({}) = 0
    BY FS_EmptySet
  <2>3. QED
    BY <1>4, <2>1, <2>2 DEF BudgetInv
<1>6. QED
  BY <1>1, <1>3, <1>5 DEF ThrottleInv

\* The invariant of the throttle gives the ceiling, the shield and the budgets.
LEMMA ThrottleInvSafe == ThrottleInv => ThrottleSafe
<1> SUFFICES ASSUME ThrottleInv PROVE ThrottleSafe
  OBVIOUS
<1>1. ThrottleTypeOK
  BY DEF ThrottleInv, ThrottleShape, ThrottleTypeOK, ThrottleAttempt, ThrottlePcs, CountedFits
<1>2. OwnerShielded
  BY DEF ThrottleInv, ShieldInv, OwnerShielded, TurnedAway, OverLimits, OfDevice, WithDevice
<1>3. ASSUME NEW k \in DOMAIN counted, k[3] = "devs", NEW d \in Devices
      PROVE  Cardinality({a \in counted[k] : at[a].dev = d}) <= DeviceMax * (1 + expiries)
  <2>1. PICK kind \in Kinds, g \in Nat : k = <<kind, g, "devs">>
    <3>1. k \in ThrottleKeys
      BY DEF ThrottleInv, ThrottleShape
    <3>2. k \in Kinds \X Nat \X {"devs", "acct"}
      BY <1>3, <3>1 DEF ThrottleKeys
    <3>3. QED
      BY <1>3, <3>2
  <2>2. {a \in counted[k] : at[a].dev = d} \subseteq Inside(kind, g, d) \cup Outside(kind, g, d)
    BY <2>1 DEF Inside, Outside, Drew, In
  <2>3. /\ IsFiniteSet(Inside(kind, g, d)) /\ Cardinality(Inside(kind, g, d)) \in Nat
        /\ IsFiniteSet(Outside(kind, g, d)) /\ Cardinality(Outside(kind, g, d)) \in Nat
    BY DrewFinite DEF ThrottleInv
  <2>4. /\ Cardinality(Inside(kind, g, d)) <= DeviceMax
        /\ Cardinality(Outside(kind, g, d)) <= DeviceMax * expiries
    BY DEF ThrottleInv, BudgetInv
  <2>5. /\ IsFiniteSet(Inside(kind, g, d) \cup Outside(kind, g, d))
        /\ Cardinality(Inside(kind, g, d) \cup Outside(kind, g, d))
             = Cardinality(Inside(kind, g, d)) + Cardinality(Outside(kind, g, d))
    <3>1. Inside(kind, g, d) \cap Outside(kind, g, d) = {}
      BY DEF Inside, Outside
    <3>2. QED
      BY <2>3, <3>1, CardinalityAdds
  <2>6. /\ Cardinality({a \in counted[k] : at[a].dev = d}) \in Nat
        /\ Cardinality({a \in counted[k] : at[a].dev = d})
             <= Cardinality(Inside(kind, g, d) \cup Outside(kind, g, d))
    BY <2>2, <2>5, CardinalityShrinks
  <2>7. expiries \in Nat /\ DeviceMax \in Nat
    BY ThrottleAssumption DEF ThrottleInv, ThrottleShape
  <2>8. DeviceMax * (1 + expiries) = DeviceMax + DeviceMax * expiries /\ DeviceMax * expiries \in Nat
    BY <2>7, Growing
  <2>9. QED
    BY <2>3, <2>4, <2>5, <2>6, <2>7, <2>8
<1>4. OneDeviceCannotDrain
  BY <1>3 DEF OneDeviceCannotDrain
<1>5. QED
  BY <1>1, <1>2, <1>4 DEF ThrottleInv, ThrottleSafe

\* The ceiling of an account holds against any number of requests that race, an owner's
\* known device is turned away only past the limits of devices, and one device takes at
\* most its own limit per window out of what the devices share.
THEOREM ThrottleHolds == ThrottleSpec => []ThrottleSafe
<1>1. ThrottleInv /\ [ThrottleNext]_throttleVars => ThrottleInv'
  BY ThrottleStepShape, CeilingStep, ShieldStep, BudgetStep DEF ThrottleInv
<1>2. QED
  BY <1>1, ThrottleInitInv, ThrottleInvSafe, PTL DEF ThrottleSpec

-----------------------------------------------------------------------------
(***************************************************************************)
(* KnownDevice, for any browsers and calls: a cookie that passes was made  *)
(* after everything that should have ended it.                             *)
(***************************************************************************)

Cookies == [u : Nat, p : Nat, iat : Nat, born : Nat, re : BOOLEAN]
DevicePcs == {"idle", "read", "revoke", "again", "bump", "ended", "failed"}
DeviceCalls ==
    [pc : DevicePcs, kind : {"none", "signin", "other", "all"}, by : Browsers \cup {NoBrowser},
     u : Nat \cup {-1}, p : Nat \cup {-1}, device : Cookies \cup {NoCookie}, doomed : SUBSET Cookies]

DeviceShape ==
    /\ now \in 0..DeviceLastNow /\ updated \in Nat /\ exact \in BOOLEAN /\ secret \in 0..MaxPassword
    /\ jar \in [Browsers -> Cookies \cup {NoCookie}] /\ call \in [Calls -> DeviceCalls]
\* A cookie is from the past, says under which password it was minted, and two cookies
\* that were re-issued were so under different epochs.
JarFits ==
    /\ \A b \in Browsers : jar[b] # NoCookie =>
          jar[b].u <= updated /\ jar[b].p <= secret /\ jar[b].born = jar[b].p
    /\ \A a, b \in Browsers : a # b /\ jar[a] # NoCookie /\ jar[b] # NoCookie /\ jar[a].re /\ jar[b].re
                                 => jar[a].u # jar[b].u
\* What a call read is no later than the present and no earlier than the cookies it is to
\* sign out; once it ended the epoch is past them.
CallFits(c) ==
    /\ call[c].kind # "none" => call[c].by \in Browsers
    /\ \A k \in call[c].doomed : k.u <= updated
    /\ call[c].u # -1 => call[c].u <= updated /\ \A k \in call[c].doomed : k.u <= call[c].u
    /\ call[c].p # -1 => call[c].p <= secret
    /\ call[c].device # NoCookie => /\ call[c].device.p = call[c].p /\ call[c].device.born = call[c].p
                                    /\ call[c].u # -1 /\ call[c].p # -1
    /\ call[c].pc \in {"again", "bump"} => call[c].u # -1
    /\ call[c].kind = "signin" => call[c].doomed = {}
    /\ call[c].pc = "ended" => \A k \in call[c].doomed : k.u < updated

DeviceInv == DeviceShape /\ JarFits /\ \A c \in Calls : CallFits(c)

\* Initially no browser has a cookie and no call runs.
LEMMA DeviceInitInv == DeviceInit => DeviceInv
<1> SUFFICES ASSUME DeviceInit PROVE DeviceInv
  OBVIOUS
<1> DEFINE k == [u |-> 0, p |-> 0, iat |-> 0, born |-> 0, re |-> FALSE]
<1>1. k \in Cookies /\ k.u = 0 /\ k.p = 0 /\ k.born = 0 /\ k.re = FALSE
  BY DEF Cookies
<1>2. NewCall \in DeviceCalls
  BY DEF NewCall, DeviceCalls, DevicePcs
<1>7. jar \in [Browsers -> {NoCookie, k}]
  BY DEF DeviceInit
<1> HIDE DEF k
<1>8. \A b \in Browsers : jar[b] # NoCookie => jar[b] = k
  BY <1>7
<1>9. jar \in [Browsers -> Cookies \cup {NoCookie}]
  BY <1>1, <1>7
<1>10. /\ now \in 0..DeviceLastNow /\ updated = 0 /\ exact \in BOOLEAN /\ secret = 0
       /\ 0 \in 0..MaxPassword /\ call \in [Calls -> DeviceCalls]
  BY <1>2, DeviceAssumption DEF DeviceInit
<1>3. DeviceShape
  BY <1>9, <1>10 DEF DeviceShape
<1>11. 0 <= updated /\ 0 <= secret
  BY <1>10
<1>12. \A b \in Browsers : jar[b] # NoCookie => jar[b].u <= updated /\ jar[b].p <= secret /\ jar[b].born = jar[b].p
  BY <1>1, <1>8, <1>11, Zenon
<1>13. \A b \in Browsers : jar[b] # NoCookie => ~jar[b].re
  BY <1>1, <1>8, Zenon
<1>14. \A a, b \in Browsers : a # b /\ jar[a] # NoCookie /\ jar[b] # NoCookie /\ jar[a].re /\ jar[b].re
                                 => jar[a].u # jar[b].u
  BY <1>13, Zenon
<1>4. JarFits
  BY <1>12, <1>14 DEF JarFits
<1>5. \A c \in Calls : CallFits(c)
  BY DEF DeviceInit, CallFits, NewCall
<1>6. QED
  BY <1>3, <1>4, <1>5 DEF DeviceInv

\* A call that does not move keeps its facts while the row only moves forward.
LEMMA CallKept ==
  ASSUME DeviceInv, NEW c \in Calls, call'[c] = call[c], updated' \in Nat, updated' >= updated,
         secret' \in Nat, secret' >= secret
  PROVE  CallFits(c)'
<1>1. CallFits(c) /\ call[c] \in DeviceCalls /\ updated \in Nat /\ secret \in Nat
  BY DeviceAssumption DEF DeviceInv, DeviceShape
<1>2. \A k \in call[c].doomed : k.u \in Nat
  BY <1>1 DEF DeviceCalls, Cookies
<1>3. QED
  BY <1>1, <1>2 DEF CallFits, DeviceCalls

\* The bump moves the epoch past everything that was minted before it.
LEMMA BumpMoves ==
  ASSUME DeviceInv, Bump
  PROVE  now' \in 0..DeviceLastNow /\ updated' \in Nat /\ updated' > updated /\ exact' \in BOOLEAN
  BY DeviceAssumption DEF DeviceInv, DeviceShape, Bump

\* A step of one call that leaves the row and the jars alone.
LEMMA CallMoves ==
  ASSUME DeviceInv, NEW c \in Calls, UNCHANGED <<now, updated, exact, secret, jar>>,
         call' \in [Calls -> DeviceCalls], \A d \in Calls : d # c => call'[d] = call[d], CallFits(c)'
  PROVE  DeviceInv'
<1>1. updated \in Nat /\ secret \in Nat
  BY DeviceAssumption DEF DeviceInv, DeviceShape
<1>2. \A d \in Calls : d # c => CallFits(d)'
  BY <1>1, CallKept
<1>3. DeviceShape' /\ JarFits'
  BY DEF DeviceInv, DeviceShape, JarFits
<1>4. QED
  BY <1>2, <1>3 DEF DeviceInv

\* A step of a call moves that call only.
LEMMA StepIs ==
  ASSUME call \in [Calls -> DeviceCalls], NEW c \in Calls, NEW pc \in DevicePcs, Step(c, pc)
  PROVE  /\ call' \in [Calls -> DeviceCalls] /\ \A d \in Calls : d # c => call'[d] = call[d]
         /\ call'[c].pc = pc /\ call'[c].kind = call[c].kind /\ call'[c].by = call[c].by
         /\ call'[c].u = call[c].u /\ call'[c].p = call[c].p /\ call'[c].device = call[c].device
         /\ call'[c].doomed = call[c].doomed
  BY DEF Step, DeviceCalls

\* Every step of the browsers, the calls and the clock keeps the invariant of the known devices.
LEMMA DeviceStepInv == DeviceInv /\ [DeviceNext]_deviceVars => DeviceInv'
<1> SUFFICES ASSUME DeviceInv, [DeviceNext]_deviceVars PROVE DeviceInv'
  OBVIOUS
<1>0. /\ call \in [Calls -> DeviceCalls] /\ jar \in [Browsers -> Cookies \cup {NoCookie}]
      /\ updated \in Nat /\ secret \in Nat /\ now \in Nat /\ exact \in BOOLEAN
      /\ \A c \in Calls : CallFits(c)
  BY DeviceAssumption DEF DeviceInv, DeviceShape
<1>1. ASSUME NEW c \in Calls, NEW b \in Browsers, SignIn(c, b) PROVE DeviceInv'
  <2> DEFINE r == [NewCall EXCEPT !.pc = "read", !.kind = "signin", !.by = b]
  <2>1. /\ r \in DeviceCalls /\ r.pc = "read" /\ r.kind = "signin" /\ r.by = b /\ r.u = -1 /\ r.p = -1
        /\ r.device = NoCookie /\ r.doomed = {}
    BY DEF NewCall, DeviceCalls, DevicePcs
  <2>2. call' = [call EXCEPT ![c] = r] /\ UNCHANGED <<now, updated, exact, secret, jar>>
    BY <1>1 DEF SignIn
  <2> HIDE DEF r
  <2>3. call' \in [Calls -> DeviceCalls] /\ call'[c] = r /\ \A d \in Calls : d # c => call'[d] = call[d]
    BY <1>0, <2>1, <2>2
  <2>4. CallFits(c)'
    BY <2>1, <2>3 DEF CallFits
  <2>5. QED
    BY <2>2, <2>3, <2>4, CallMoves
<1>2. ASSUME NEW c \in Calls, NEW b \in Browsers, NEW kind \in {"other", "all"}, RevokeBegins(c, b, kind)
      PROVE  DeviceInv'
  <2> DEFINE doomed == {jar[x] : x \in IF kind = "other" THEN Browsers \ {b} ELSE Browsers} \ {NoCookie}
             r == [NewCall EXCEPT !.pc = IF kind = "other" THEN "read" ELSE "revoke", !.kind = kind, !.by = b,
                     !.doomed = doomed]
  <2>1. doomed \subseteq Cookies /\ \A k \in doomed : k.u <= updated
    BY <1>0 DEF DeviceInv, JarFits
  <2>2. call' = [call EXCEPT ![c] = r] /\ UNCHANGED <<now, updated, exact, secret, jar>>
    BY <1>2 DEF RevokeBegins
  <2> HIDE DEF doomed
  <2>3. /\ r \in DeviceCalls /\ r.pc \in {"read", "revoke"} /\ r.kind = kind /\ r.by = b /\ r.u = -1 /\ r.p = -1
        /\ r.device = NoCookie /\ r.doomed = doomed
    BY <2>1 DEF NewCall, DeviceCalls, DevicePcs
  <2> HIDE DEF r
  <2>4. call' \in [Calls -> DeviceCalls] /\ call'[c] = r /\ \A d \in Calls : d # c => call'[d] = call[d]
    BY <1>0, <2>2, <2>3
  <2>5. CallFits(c)'
    BY <2>1, <2>2, <2>3, <2>4 DEF CallFits
  <2>6. QED
    BY <2>2, <2>4, <2>5, CallMoves
<1>3. ASSUME NEW c \in Calls, ReadUser(c) PROVE DeviceInv'
  <2>1. /\ call' \in [Calls -> DeviceCalls] /\ \A d \in Calls : d # c => call'[d] = call[d]
        /\ call'[c].pc = "read" /\ call'[c].kind = call[c].kind /\ call'[c].by = call[c].by
        /\ call'[c].u = updated /\ call'[c].p = call[c].p /\ call'[c].device = call[c].device
        /\ call'[c].doomed = call[c].doomed /\ UNCHANGED <<now, updated, exact, secret, jar>>
    BY <1>0, <1>3 DEF ReadUser, DeviceCalls
  <2>2. call[c].device = NoCookie
    BY <1>0, <1>3 DEF ReadUser, CallFits
  <2>3. CallFits(c)'
    BY <1>0, <2>1, <2>2 DEF CallFits
  <2>4. QED
    BY <2>1, <2>3, CallMoves
<1>4. ASSUME NEW c \in Calls, ReadAccounts(c) PROVE DeviceInv'
  <2>1. /\ call' \in [Calls -> DeviceCalls] /\ \A d \in Calls : d # c => call'[d] = call[d]
        /\ call'[c].pc = "read" /\ call'[c].kind = call[c].kind /\ call'[c].by = call[c].by
        /\ call'[c].u = call[c].u /\ call'[c].p = secret /\ call'[c].device = call[c].device
        /\ call'[c].doomed = call[c].doomed /\ UNCHANGED <<now, updated, exact, secret, jar>>
    BY <1>0, <1>4 DEF ReadAccounts, DeviceCalls
  <2>2. call[c].device = NoCookie
    BY <1>0, <1>4 DEF ReadAccounts, CallFits
  <2>3. CallFits(c)'
    BY <1>0, <2>1, <2>2 DEF CallFits
  <2>4. QED
    BY <2>1, <2>3, CallMoves
<1>5. ASSUME NEW c \in Calls, Mint(c) PROVE DeviceInv'
  <2> DEFINE k == [u |-> call[c].u, p |-> call[c].p, iat |-> now, born |-> call[c].p, re |-> FALSE]
  <2>1. /\ call[c].u # -1 /\ call[c].p # -1 /\ call[c].kind = "signin" /\ Step(c, "ended")
        /\ jar' = [jar EXCEPT ![call[c].by] = k] /\ UNCHANGED <<now, updated, exact, secret>>
    BY <1>5 DEF Mint
  <2>2. call[c].u \in Nat /\ call[c].p \in Nat /\ call[c].u <= updated /\ call[c].p <= secret /\ call[c].doomed = {}
    BY <1>0, <2>1 DEF DeviceCalls, CallFits
  <2>3. k \in Cookies /\ k.u <= updated /\ k.p <= secret /\ k.born = k.p /\ ~k.re
    BY <1>0, <2>2 DEF Cookies
  <2> HIDE DEF k
  <2>4. /\ jar' \in [Browsers -> Cookies \cup {NoCookie}]
        /\ \A b \in Browsers : jar'[b] = IF b = call[c].by THEN k ELSE jar[b]
    BY <1>0, <2>1, <2>3
  <2>5. /\ call' \in [Calls -> DeviceCalls] /\ \A d \in Calls : d # c => call'[d] = call[d]
        /\ call'[c].pc = "ended" /\ call'[c].kind = call[c].kind /\ call'[c].by = call[c].by
        /\ call'[c].u = call[c].u /\ call'[c].p = call[c].p /\ call'[c].device = call[c].device
        /\ call'[c].doomed = call[c].doomed
    BY <1>0, <2>1, StepIs DEF DevicePcs
  <2>6. DeviceShape'
    BY <2>1, <2>4, <2>5 DEF DeviceInv, DeviceShape
  <2>7. JarFits'
    BY <2>1, <2>3, <2>4 DEF DeviceInv, JarFits
  <2>8. CallFits(c)'
    BY <1>0, <2>1, <2>2, <2>5 DEF CallFits
  <2>9. ASSUME NEW d \in Calls, d # c PROVE CallFits(d)'
    BY <1>0, <2>1, <2>5, <2>9, CallKept
  <2>10. QED
    BY <2>6, <2>7, <2>8, <2>9 DEF DeviceInv
<1>6. ASSUME NEW c \in Calls, Judge(c) PROVE DeviceInv'
  <2> DEFINE k == IF ValidAgainst(jar[call[c].by], call[c].u, call[c].p) THEN jar[call[c].by] ELSE NoCookie
  <2>1. /\ call[c].u # -1 /\ call[c].p # -1 /\ call[c].kind = "other"
        /\ call' = [call EXCEPT ![c].pc = "revoke", ![c].device = k] /\ UNCHANGED <<now, updated, exact, secret, jar>>
    BY <1>6 DEF Judge
  <2>2. call[c].by \in Browsers
    BY <1>0, <2>1 DEF CallFits
  <2>3. k \in Cookies \cup {NoCookie} /\ (k # NoCookie => k.p = call[c].p /\ k.born = call[c].p)
    BY <1>0, <2>2 DEF ValidAgainst, Fingerprint, DeviceInv, JarFits
  <2> HIDE DEF k
  <2>4. /\ call' \in [Calls -> DeviceCalls] /\ \A d \in Calls : d # c => call'[d] = call[d]
        /\ call'[c].pc = "revoke" /\ call'[c].kind = call[c].kind /\ call'[c].by = call[c].by
        /\ call'[c].u = call[c].u /\ call'[c].p = call[c].p /\ call'[c].device = k
        /\ call'[c].doomed = call[c].doomed
    BY <1>0, <2>1, <2>3 DEF DeviceCalls, DevicePcs
  <2>5. CallFits(c)'
    BY <1>0, <2>1, <2>3, <2>4 DEF CallFits
  <2>6. QED
    BY <2>1, <2>4, <2>5, CallMoves
\* A step to a place where the call has answered nothing.
<1>7. ASSUME NEW c \in Calls, NEW pc \in {"failed", "again", "bump", "ended"}, Step(c, pc),
             UNCHANGED <<now, updated, exact, secret, jar>>,
             pc \in {"again", "bump"} => call[c].u # -1,
             pc = "ended" => \A k \in call[c].doomed : k.u < updated
      PROVE  DeviceInv'
  <2>1. /\ call' \in [Calls -> DeviceCalls] /\ \A d \in Calls : d # c => call'[d] = call[d]
        /\ call'[c].pc = pc /\ call'[c].kind = call[c].kind /\ call'[c].by = call[c].by
        /\ call'[c].u = call[c].u /\ call'[c].p = call[c].p /\ call'[c].device = call[c].device
        /\ call'[c].doomed = call[c].doomed
    BY <1>0, <1>7, StepIs DEF DevicePcs
  <2>2. CallFits(c)'
    BY <1>0, <1>7, <2>1 DEF CallFits
  <2>3. QED
    BY <1>7, <2>1, <2>2, CallMoves
<1>8. ASSUME NEW c \in Calls, EndpointThrew(c) \/ Lost(c) PROVE DeviceInv'
  BY <1>0, <1>7, <1>8 DEF EndpointThrew, Lost, CallFits
<1>9. ASSUME NEW c \in Calls, Reread(c) PROVE DeviceInv'
  <2>1. call[c].u # -1
    BY <1>0, <1>9 DEF Reread, CallFits
  <2>2. call[c].u \in Nat /\ call[c].u <= updated /\ \A k \in call[c].doomed : k.u \in Nat /\ k.u <= call[c].u
    BY <1>0, <2>1 DEF CallFits, DeviceCalls, Cookies
  <2>3. updated # call[c].u => \A k \in call[c].doomed : k.u < updated
    BY <1>0, <2>2
  <2>4. QED
    BY <1>7, <1>9, <2>1, <2>3 DEF Reread
\* A bump under which one call ends and at most its own jar gets a cookie, re-issued.
<1>10. ASSUME NEW c \in Calls, Bump, Step(c, "ended"), UNCHANGED secret, jar' = jar PROVE DeviceInv'
  <2>1. now' \in 0..DeviceLastNow /\ updated' \in Nat /\ updated' > updated /\ exact' \in BOOLEAN
    BY <1>10, BumpMoves
  <2>2. /\ call' \in [Calls -> DeviceCalls] /\ \A d \in Calls : d # c => call'[d] = call[d]
        /\ call'[c].pc = "ended" /\ call'[c].kind = call[c].kind /\ call'[c].by = call[c].by
        /\ call'[c].u = call[c].u /\ call'[c].p = call[c].p /\ call'[c].device = call[c].device
        /\ call'[c].doomed = call[c].doomed
    BY <1>0, <1>10, StepIs DEF DevicePcs
  <2>3. \A k \in call[c].doomed : k.u \in Nat
    BY <1>0 DEF DeviceCalls, Cookies
  <2>4. DeviceShape'
    BY <1>10, <2>1, <2>2 DEF DeviceInv, DeviceShape
  <2>5. \A b \in Browsers : jar[b] # NoCookie => jar[b].u \in Nat
    BY <1>0 DEF Cookies
  <2>6. JarFits'
    BY <1>0, <1>10, <2>1, <2>5 DEF DeviceInv, JarFits
  <2>7. CallFits(c)'
    BY <1>0, <1>10, <2>1, <2>2, <2>3 DEF CallFits, DeviceCalls
  <2>8. ASSUME NEW d \in Calls, d # c PROVE CallFits(d)'
    BY <1>0, <1>10, <2>1, <2>2, <2>8, CallKept
  <2>9. QED
    BY <2>4, <2>6, <2>7, <2>8 DEF DeviceInv
<1>11. ASSUME NEW c \in Calls, BumpAll(c) \/ BumpAfterAll(c) PROVE DeviceInv'
  BY <1>10, <1>11 DEF BumpAll, BumpAfterAll
<1>12. ASSUME NEW c \in Calls, Reissue(c) PROVE DeviceInv'
  <2>0. PICK v \in Nat : v = updated' /\ v > updated
    BY <1>12, BumpMoves DEF Reissue
  <2> DEFINE k == [call[c].device EXCEPT !.u = v, !.p = call[c].p, !.re = TRUE]
  <2>1. /\ call[c].device # NoCookie /\ Bump /\ Step(c, "ended") /\ secret' = secret
        /\ jar' = [jar EXCEPT ![call[c].by] = k]
    BY <1>12, <2>0 DEF Reissue, Reissued
  <2>2. now' \in 0..DeviceLastNow /\ updated' \in Nat /\ updated' > updated /\ exact' \in BOOLEAN
    BY <2>1, BumpMoves
  <2>3. /\ call[c].device \in Cookies /\ call[c].device.born = call[c].p
        /\ call[c].p \in Nat /\ call[c].p <= secret
    BY <1>0, <2>1 DEF DeviceCalls, CallFits
  <2>4. k \in Cookies /\ k.u = v /\ k.p <= secret /\ k.born = k.p
    BY <2>3 DEF Cookies
  <2> HIDE DEF k
  <2>5. /\ jar' \in [Browsers -> Cookies \cup {NoCookie}]
        /\ \A b \in Browsers : jar'[b] = IF b = call[c].by THEN k ELSE jar[b]
    BY <1>0, <2>1, <2>4
  <2>6. /\ call' \in [Calls -> DeviceCalls] /\ \A d \in Calls : d # c => call'[d] = call[d]
        /\ call'[c].pc = "ended" /\ call'[c].kind = call[c].kind /\ call'[c].by = call[c].by
        /\ call'[c].u = call[c].u /\ call'[c].p = call[c].p /\ call'[c].device = call[c].device
        /\ call'[c].doomed = call[c].doomed
    BY <1>0, <2>1, StepIs DEF DevicePcs
  <2>7. DeviceShape'
    BY <2>1, <2>2, <2>5, <2>6 DEF DeviceInv, DeviceShape
  <2>8. \A b \in Browsers : jar[b] # NoCookie => jar[b].u \in Nat /\ jar[b].u < v
    BY <1>0, <2>0 DEF Cookies, DeviceInv, JarFits
  <2>9. JarFits'
    BY <1>0, <2>0, <2>1, <2>4, <2>5, <2>8 DEF DeviceInv, JarFits
  <2>10. \A x \in call[c].doomed : x.u \in Nat
    BY <1>0 DEF DeviceCalls, Cookies
  <2>11. CallFits(c)'
    BY <1>0, <2>1, <2>2, <2>6, <2>10 DEF CallFits, DeviceCalls
  <2>12. ASSUME NEW d \in Calls, d # c PROVE CallFits(d)'
    BY <1>0, <2>1, <2>2, <2>6, <2>12, CallKept
  <2>13. QED
    BY <2>7, <2>9, <2>11, <2>12 DEF DeviceInv
\* The row moves and no call does.
<1>13. ASSUME now' \in 0..DeviceLastNow, updated' \in Nat, updated' >= updated, exact' \in BOOLEAN,
              secret' \in 0..MaxPassword, secret' >= secret, UNCHANGED <<jar, call>>
       PROVE  DeviceInv'
  <2>1. DeviceShape'
    BY <1>13 DEF DeviceInv, DeviceShape
  <2>2. \A b \in Browsers : jar[b] # NoCookie => jar[b].u \in Nat /\ jar[b].p \in Nat
    BY <1>0 DEF Cookies
  <2>3. secret' \in Nat
    BY <1>13, DeviceAssumption
  <2>4. JarFits'
    BY <1>0, <1>13, <2>2, <2>3 DEF DeviceInv, JarFits
  <2>5. \A c \in Calls : CallFits(c)'
    BY <1>0, <1>13, <2>3, CallKept
  <2>6. QED
    BY <2>1, <2>4, <2>5 DEF DeviceInv
<1>14. CASE AdminRevokes
  <2>1. now' \in 0..DeviceLastNow /\ updated' \in Nat /\ updated' > updated /\ exact' \in BOOLEAN
    BY <1>14, BumpMoves DEF AdminRevokes
  <2>2. QED
    BY <1>0, <1>13, <1>14, <2>1 DEF AdminRevokes, DeviceInv, DeviceShape
<1>15. CASE PasswordChanges
  BY <1>0, <1>13, <1>15, DeviceAssumption DEF PasswordChanges, DeviceInv, DeviceShape
<1>16. CASE UNCHANGED deviceVars
  BY <1>0, <1>13, <1>16 DEF deviceVars, DeviceInv, DeviceShape
<1>17. QED
  BY <1>1, <1>2, <1>3, <1>4, <1>5, <1>6, <1>8, <1>9, <1>11, <1>12, <1>14, <1>15, <1>16 DEF DeviceNext

\* Signed out stays out, at most one device survives when devices sign each other out at
\* once, and a new password ends every cookie from before it.
THEOREM DeviceHolds == DeviceSpec => []DeviceSafe
<1>1. ASSUME DeviceInv PROVE DeviceSafe
  <2>1. DeviceTypeOK
    BY <1>1 DEF DeviceInv, DeviceShape, JarFits, DeviceTypeOK, DeviceCalls, DevicePcs
  <2>2. SignedOutStaysOut
    <3>1. ASSUME NEW c \in Calls, call[c].pc = "ended", NEW k \in call[c].doomed PROVE ~Valid(k)
      <4>1. k.u \in Nat /\ k.u < updated /\ updated \in Nat
        BY <1>1, <3>1 DEF DeviceInv, DeviceShape, DeviceCalls, Cookies, CallFits
      <4>2. QED
        BY <4>1 DEF Valid, ValidAgainst, Fingerprint
    <3>2. QED
      BY <3>1 DEF SignedOutStaysOut
  <2>3. PasswordKills
    BY <1>1 DEF DeviceInv, JarFits, PasswordKills, Valid, ValidAgainst, Fingerprint
  <2>4. AtMostOneSurvivor
    <3> DEFINE S == {b \in Browsers : Valid(jar[b]) /\ jar[b].re}
    <3>1. \A a, b \in S : a = b
      BY <1>1 DEF DeviceInv, JarFits, Valid, ValidAgainst, Fingerprint
    <3>2. CASE S = {}
      BY <3>2, FS_EmptySet DEF AtMostOneSurvivor
    <3>3. CASE S # {}
      <4>1. PICK b : S = {b}
        BY <3>1, <3>3
      <4>2. Cardinality(S) = 1
        BY <4>1, FS_Singleton
      <4>3. QED
        BY <4>2 DEF AtMostOneSurvivor
    <3>4. QED
      BY <3>2, <3>3
  <2>5. QED
    BY <2>1, <2>2, <2>3, <2>4 DEF DeviceSafe
<1>2. QED
  BY <1>1, DeviceInitInv, DeviceStepInv, PTL DEF DeviceSpec

-----------------------------------------------------------------------------
(***************************************************************************)
(* Proofs about SsoSecrets, for any number of pods, providers and client   *)
(* secrets.                                                                *)
(*                                                                         *)
(* What holds a rotation together is how far the pods may be apart: until  *)
(* v1 is dropped every pod has v1, and v1 is dropped only when every pod   *)
(* has v2, so that from then on nothing is sealed with v1.                 *)
(***************************************************************************)

USE SsoAssumption

Rings == {{1}, {1, 2}, {2}}

\* The keys of the pods, by the keys of the deployment.
Apart ==
    /\ env \in Rings /\ rings \in [SsoPods -> Rings]
    /\ env = {1} => \A p \in SsoPods : rings[p] = {1}
    /\ env = {1, 2} => \A p \in SsoPods : rings[p] # {2}
    /\ env = {2} => \A p \in SsoPods : rings[p] # {1}

\* What is stored is sealed with a key of the deployment, and what the application
\* wrote is sealed.
Stored ==
    /\ column \in [Providers -> [form : {"plain", "sealed"}, ver : 0..2, text : ClientKeys]]
    /\ \A r \in Providers : column[r].form = "sealed" => column[r].ver \in env
    /\ byCode \subseteq Providers /\ SealedAtRest

\* A read gave a secret, or an error in a pod that is behind the deployment.
ReadOK ==
    /\ opened \in [SsoPods -> [of : Providers \cup {"none"}, text : ClientKeys \cup {"none", "error"}]]
    /\ \A p \in SsoPods :
         /\ opened[p].of = "none" <=> opened[p].text = "none"
         /\ opened[p].text = "error" => rings[p] # env

SsoInv == Apart /\ Stored /\ ReadOK

\* The current key of a ring is its highest version.
LEMMA Current == CurrentOf({1}) = 1 /\ CurrentOf({1, 2}) = 2 /\ CurrentOf({2}) = 2
  BY DEF CurrentOf, Max

\* Initially every pod and every row has v1.
LEMMA SsoInitInv == SsoInit => SsoInv
  <1> SUFFICES ASSUME SsoInit PROVE SsoInv
    OBVIOUS
  <1>1. Apart
    BY DEF SsoInit, Apart, Rings
  <1>2. Stored
    <2>1. PICK forms \in [Providers -> {"plain", "sealed"}] :
             column = [r \in Providers |-> [form |-> forms[r], ver |-> 1, text |-> current[r]]]
      BY DEF SsoInit
    <2>2. current \in [Providers -> ClientKeys]
      BY DEF SsoInit
    <2>3. column \in [Providers -> [form : {"plain", "sealed"}, ver : 0..2, text : ClientKeys]]
      BY <2>1, <2>2
    <2>4. \A r \in Providers : column[r].form = "sealed" => column[r].ver \in env
      BY <2>1 DEF SsoInit
    <2> QED BY <2>3, <2>4 DEF SsoInit, Stored, SealedAtRest
  <1>3. ReadOK
    BY DEF SsoInit, ReadOK, Nothing
  <1> QED BY <1>1, <1>2, <1>3 DEF SsoInv

\* A write seals the row with a key that the deployment has.
LEMMA WriteStored ==
    ASSUME SsoInv, NEW p \in SsoPods, NEW r \in Providers, NEW text \in ClientKeys, NEW tx \in BOOLEAN,
           WriteRow(p, r, text, tx)
    PROVE  Stored'
  <1>1. Apart /\ Stored
    BY DEF SsoInv
  <1>2. CurrentOf(rings[p]) \in 1..2 /\ CurrentOf(rings[p]) \in env
    <2>1. rings[p] \in {{1}, {1, 2}, {2}} /\ env \in {{1}, {1, 2}, {2}}
      BY <1>1 DEF Apart, Rings
    <2>2. CASE rings[p] = {1}
      <3>1. env # {2}
        BY <1>1, <2>2 DEF Apart
      <3> QED BY <2>1, <2>2, <3>1, Current
    <2>3. CASE rings[p] = {1, 2} \/ rings[p] = {2}
      <3>1. env # {1}
        BY <1>1, <2>3 DEF Apart
      <3> QED BY <2>1, <2>3, <3>1, Current
    <2> QED BY <2>1, <2>2, <2>3
  <1>3. Seal(Plainly(text), rings[p]) = [form |-> "sealed", ver |-> CurrentOf(rings[p]), text |-> text]
    BY DEF Seal, Plainly
  <1>4. /\ column' = [column EXCEPT ![r] =
                        [form |-> "sealed", ver |-> CurrentOf(rings[p]), text |-> text]]
        /\ byCode' = byCode \cup {r} /\ env' = env
    BY <1>3 DEF WriteRow, Patched
  <1>5. column' \in [Providers -> [form : {"plain", "sealed"}, ver : 0..2, text : ClientKeys]]
    BY <1>1, <1>2, <1>4 DEF Stored
  <1>6. \A q \in Providers : column'[q].form = "sealed" => column'[q].ver \in env'
    BY <1>1, <1>2, <1>4 DEF Stored
  <1>7. \A q \in byCode' : column'[q].form = "sealed"
    BY <1>1, <1>4 DEF Stored, SealedAtRest
  <1> QED BY <1>1, <1>4, <1>5, <1>6, <1>7 DEF Stored, SealedAtRest

\* Every step keeps the invariant.
LEMMA SsoStepInv == SsoInv /\ [SsoNext]_ssoVars => SsoInv'
  <1> SUFFICES ASSUME SsoInv, [SsoNext]_ssoVars PROVE SsoInv'
    OBVIOUS
  <1>0. Apart /\ Stored /\ ReadOK
    BY DEF SsoInv
  <1>1. CASE UNCHANGED ssoVars
    BY <1>0, <1>1 DEF ssoVars, SsoInv, Apart, Stored, ReadOK, SealedAtRest
  <1>2. ASSUME NEW p \in SsoPods, Rolls(p) PROVE SsoInv'
    <2>1. Apart'
      BY <1>0, <1>2 DEF Rolls, Apart
    <2>2. Stored'
      BY <1>0, <1>2 DEF Rolls, Stored, SealedAtRest
    <2>3. ReadOK'
      BY <1>0, <1>2 DEF Rolls, ReadOK, Nothing, Apart
    <2> QED BY <2>1, <2>2, <2>3 DEF SsoInv
  <1>3. ASSUME NEW p \in SsoPods, NEW r \in Providers, ReadRow(p, r) PROVE SsoInv'
    <2>1. Apart' /\ Stored'
      BY <1>0, <1>3 DEF ReadRow, Apart, Stored, SealedAtRest
    <2>2. OpenOf(column[r], rings[p]) \in ClientKeys \cup {"error"}
      BY <1>0 DEF OpenOf, Stored
    <2>3. OpenOf(column[r], rings[p]) = "error" => rings[p] # env
      BY <1>0 DEF OpenOf, Stored
    <2>4. ReadOK'
      BY <1>0, <1>3, <2>2, <2>3 DEF ReadRow, ReadOK
    <2> QED BY <2>1, <2>4 DEF SsoInv
  <1>4. ASSUME NEW p \in SsoPods, NEW tx \in BOOLEAN, Resave(p, tx) PROVE SsoInv'
    <2>1. opened[p].of \in Providers /\ opened[p].text \in ClientKeys
      BY <1>0, <1>4 DEF Resave, ReadOK
    <2>2. WriteRow(p, opened[p].of, opened[p].text, tx) /\ opened' = opened
      BY <1>4 DEF Resave
    <2>3. Stored'
      BY <2>1, <2>2, WriteStored
    <2>4. Apart' /\ ReadOK'
      BY <1>0, <2>2 DEF WriteRow, Apart, ReadOK
    <2> QED BY <2>3, <2>4 DEF SsoInv
  <1>5. ASSUME NEW p \in SsoPods, NEW tx \in BOOLEAN, NEW r \in Providers, NEW text \in ClientKeys,
               SaveSecret(p, r, text, tx)
        PROVE  SsoInv'
    <2>1. WriteRow(p, r, text, tx) /\ opened' = [opened EXCEPT ![p] = [of |-> r, text |-> text]]
      BY <1>5 DEF SaveSecret
    <2>2. Stored'
      BY <2>1, WriteStored
    <2>3. Apart' /\ rings' = rings /\ env' = env
      BY <1>0, <2>1 DEF WriteRow, Apart
    <2>4. ReadOK'
      BY <1>0, <2>1, <2>3 DEF ReadOK
    <2> QED BY <2>2, <2>3, <2>4 DEF SsoInv
  <1>6. ASSUME NEW r \in Providers, ToolSeals(r) PROVE SsoInv'
    <2>1. CurrentOf(env) \in 1..2 /\ CurrentOf(env) \in env
      <3>1. env = {1} \/ env = {1, 2} \/ env = {2}
        BY <1>0 DEF Apart, Rings
      <3>2. CASE env = {1}
        BY <3>2, Current
      <3>3. CASE env = {1, 2}
        BY <3>3, Current
      <3>4. CASE env = {2}
        BY <3>4, Current
      <3> QED BY <3>1, <3>2, <3>3, <3>4
    <2>2. Apart' /\ ReadOK'
      BY <1>0, <1>6 DEF ToolSeals, Apart, ReadOK
    <2>3. column' \in [Providers -> [form : {"plain", "sealed"}, ver : 0..2, text : ClientKeys]]
      BY <1>0, <1>6, <2>1 DEF ToolSeals, Seal, Stored
    <2>4. \A q \in Providers : column'[q].form = "sealed" => column'[q].ver \in env'
      BY <1>0, <1>6, <2>1 DEF ToolSeals, Seal, Stored
    <2>5. \A q \in byCode' : column'[q].form = "sealed"
      BY <1>0, <1>6 DEF ToolSeals, Seal, Stored, SealedAtRest
    <2> QED BY <1>0, <1>6, <2>2, <2>3, <2>4, <2>5 DEF ToolSeals, SsoInv, Stored, SealedAtRest
  <1>7. CASE AddKey
    <2>1. Apart'
      BY <1>0, <1>7 DEF AddKey, Apart, Rings
    <2>2. Stored'
      BY <1>0, <1>7 DEF AddKey, Stored, SealedAtRest
    <2>3. \A p \in SsoPods : opened[p].text # "error"
      BY <1>0, <1>7 DEF AddKey, Apart, ReadOK
    <2> QED BY <1>0, <1>7, <2>1, <2>2, <2>3 DEF AddKey, SsoInv, ReadOK
  <1>8. CASE DropKey
    <2>1. Apart'
      BY <1>0, <1>8 DEF DropKey, Apart, Rings
    <2>2. Stored'
      BY <1>0, <1>8 DEF DropKey, Stored, SealedAtRest
    <2>3. \A p \in SsoPods : opened[p].text # "error"
      BY <1>0, <1>8 DEF DropKey, ReadOK
    <2> QED BY <1>0, <1>8, <2>1, <2>2, <2>3 DEF DropKey, SsoInv, ReadOK
  <1> QED BY <1>1, <1>2, <1>3, <1>4, <1>5, <1>6, <1>7, <1>8 DEF SsoNext

-----------------------------------------------------------------------------
\* The inductive invariant of the sealed rows and the key rings.
THEOREM SsoInductive == SsoSpec => []SsoInv
  BY SsoInitInv, SsoStepInv, PTL DEF SsoSpec

\* SSO client secrets: what the application wrote is sealed at rest, a read gives the
\* secret or an error in a pod that is behind, and a rolling rotation loses no row.
THEOREM SsoIsSafe == SsoSpec => []SsoSafe
  <1>1. SsoInv => SsoSafe
    <2> SUFFICES ASSUME SsoInv PROVE SsoSafe
      OBVIOUS
    <2>1. SealedAtRest /\ OpenedOrRefused
      BY DEF SsoInv, Stored, ReadOK, OpenedOrRefused
    <2>2. RotationKeepsRows
      BY DEF SsoInv, Stored, RotationKeepsRows, OpenOf
    <2> QED BY <2>1, <2>2 DEF SsoSafe
  <1> QED BY <1>1, SsoInductive, PTL

HIDE SsoAssumption

-----------------------------------------------------------------------------
(***************************************************************************)
(* SignUpPolicy, for any mailboxes, tenants and providers: every account   *)
(* of a user belongs to its address, and every sign-in in flight was let   *)
(* through for what it is.                                                 *)
(***************************************************************************)

Identities == [via : {"credential", "google", "microsoft", "sso"},
               id : PolicyAddresses \cup {NoMail} \cup Entra \cup SsoProviders]
UserRows == [accounts : SUBSET Identities, by : Identities, verified : BOOLEAN,
             member : SUBSET SsoProviders, let : SUBSET SsoProviders]

\* Addresses that only the tenant may have.
Closed(a) == DomainOf[a] = <<>> \/ DomainIn(DomainOf[a], StaffReservedDomains(options.staff))

\* What an account may be for the user of an address.
Belongs(id, a, u) ==
    /\ id.via \in {"credential", "google"} => id.id = a
    /\ Closed(a) => id.via = "microsoft"
    /\ \A x \in Entra \ Guests : id = Microsoft(x) => StaffDomainIn(DomainOf[a], options.staff)
    /\ \A x \in Guests : id = Microsoft(x) => u.by = id
    /\ \A p \in SsoProviders : id = Sso(p) => u.by = id \/ (p \in u.let /\ p \in u.member)
RowFits(a, u) == u \in UserRows /\ u.by \in u.accounts /\ \A id \in u.accounts : Belongs(id, a, u)

Holds(a, id) == users[a] # NoUser /\ id \in users[a].accounts
UsersFit ==
    /\ users \in [PolicyAddresses -> UserRows \cup {NoUser}]
    /\ \A a \in PolicyAddresses : users[a] # NoUser => RowFits(a, users[a])
    /\ \A a, b \in PolicyAddresses : \A id : Holds(a, id) /\ Holds(b, id) => a = b

\* A sign-in in flight was let through for what it is.
PolicyCallFits(k) ==
    /\ k.id \in Identities /\ k.email \in PolicyAddresses /\ k.verified \in BOOLEAN
    /\ k.id.via # "sso"
    /\ k.id.via \in {"credential", "google"} => k.id.id = k.email
    /\ Closed(k.email) => k.id.via = "microsoft"
    /\ \A x \in Entra \ Guests : k.id = Microsoft(x) => StaffDomainIn(DomainOf[k.email], options.staff)
    /\ \A x \in Guests : k.id = Microsoft(x) => ~k.verified
PolicyCallsFit ==
    /\ calls \in [SignIns -> [id : Identities, email : PolicyAddresses \cup {NoMail}, verified : BOOLEAN]]
    /\ \A c \in SignIns : calls[c] # NoCall => PolicyCallFits(calls[c])

SsoFits ==
    /\ sso \in [SsoProviders -> [domains : Claims \cup {{}}, verified : BOOLEAN]]
    /\ \A p \in SsoProviders : /\ sso[p].domains # {} => ~ReservedClaim(sso[p].domains)
                               /\ sso[p].verified => sso[p].domains # {}

PolicyInv ==
    /\ options \in Setups /\ Configured(options) /\ edits \in 0..MaxEdits /\ entra \in [Entra -> Profiles]
    /\ UsersFit /\ PolicyCallsFit /\ SsoFits

\* What the assumption says of the mailboxes, the profiles and the claims.
LEMMA PolicyConstants ==
  /\ Guests \subseteq Entra /\ DomainOf \in [PolicyAddresses -> Seq(STRING)] /\ FirstProfile \in [Entra -> Profiles]
  /\ \A profile \in Profiles : {profile.mail, profile.upn} \subseteq PolicyAddresses \cup {NoMail}
  /\ \A o \in Setups : \A e \in o.staff : e.host \in Seq(STRING)
  /\ \A ds \in Claims : ds \subseteq Seq(STRING) \ {<<>>}
  /\ NoMail \notin PolicyAddresses /\ MaxEdits \in Nat
BY PolicyAssumption

\* Two domains above one domain are one above the other.
LEMMA PrefixIs ==
  ASSUME NEW L, NEW s \in Seq(L), NEW t \in Seq(L)
  PROVE  IsPrefix(s, t) <=> Len(s) <= Len(t) /\ \A i \in 1..Len(s) : s[i] = t[i]
<1>1. Len(s) \in Nat /\ Len(t) \in Nat
  OBVIOUS
<1>2. ASSUME Len(s) <= Len(t)
      PROVE  SubSeq(s, 1, Len(s)) = SubSeq(t, 1, Len(s)) <=> \A i \in 1..Len(s) : s[i] = t[i]
  <2>1. SubSeq(s, 1, Len(s)) = [i \in 1..Len(s) |-> s[i]]
    BY <1>1
  <2>2. SubSeq(t, 1, Len(s)) = [i \in 1..Len(s) |-> t[i]]
    BY <1>1, <1>2
  <2>3. QED
    BY <2>1, <2>2
<1>3. QED
  BY <1>2 DEF IsPrefix

\* Of two domains that a name ends in, one ends in the other.
LEMMA PrefixesCompare ==
  ASSUME NEW L, NEW s \in Seq(L), NEW t \in Seq(L), NEW d \in Seq(L), IsPrefix(s, d), IsPrefix(t, d)
  PROVE  IsPrefix(s, t) \/ IsPrefix(t, s)
<1>1. /\ Len(s) \in Nat /\ Len(t) \in Nat
      /\ Len(s) <= Len(d) /\ \A i \in 1..Len(s) : s[i] = d[i]
      /\ Len(t) <= Len(d) /\ \A i \in 1..Len(t) : t[i] = d[i]
  BY PrefixIs
<1>2. CASE Len(s) <= Len(t)
  <2>1. \A i \in 1..Len(s) : s[i] = t[i]
    BY <1>1, <1>2
  <2>2. QED
    BY <1>2, <2>1, PrefixIs
<1>3. CASE Len(t) <= Len(s)
  <2>1. \A i \in 1..Len(t) : t[i] = s[i]
    BY <1>1, <1>3
  <2>2. QED
    BY <1>3, <2>1, PrefixIs
<1>4. QED
  BY <1>1, <1>2, <1>3

\* A claim the registration guard let through covers no address of the company.
LEMMA ClaimsStayOut ==
  ASSUME NEW o \in Setups, options = o, NEW ds \in Claims, ~ReservedClaim(ds), NEW a \in PolicyAddresses,
         DomainIn(DomainOf[a], ds)
  PROVE  ~Closed(a)
<1> SUFFICES ASSUME Closed(a) PROVE FALSE
  OBVIOUS
<1>1. DomainOf[a] # <<>> /\ DomainOf[a] \in Seq(STRING)
  BY PolicyConstants DEF DomainIn
<1>2. PICK x \in ds : IsPrefix(x, DomainOf[a])
  BY DEF DomainIn
<1>3. PICK s \in StaffReservedDomains(options.staff) : IsPrefix(s, DomainOf[a])
  BY <1>1 DEF Closed, DomainIn
<1>4. x \in Seq(STRING) /\ x # <<>> /\ s \in Seq(STRING)
  BY PolicyConstants DEF StaffReservedDomains
<1>5. IsPrefix(x, s) \/ IsPrefix(s, x)
  BY <1>1, <1>2, <1>3, <1>4, PrefixesCompare
<1>6. CASE IsPrefix(s, x)
  BY <1>4, <1>6 DEF ReservedClaim, DomainIn
<1>7. CASE IsPrefix(x, s) /\ s # <<>>
  BY <1>7 DEF ReservedClaim, DomainIn
<1>8. CASE s = <<>>
  <2>1. IsPrefix(s, x)
    <3>1. Len(s) = 0 /\ Len(x) \in Nat
      BY <1>4, <1>8
    <3>2. Len(s) <= Len(x) /\ \A i \in 1..Len(s) : s[i] = x[i]
      BY <3>1
    <3>3. QED
      BY <1>4, <3>2, PrefixIs
  <2>2. QED
    BY <2>1, <1>6
<1>9. QED
  BY <1>5, <1>6, <1>7, <1>8

\* Initially nobody has an account.
LEMMA PolicyInitInv == PolicyInit => PolicyInv
<1> SUFFICES ASSUME PolicyInit PROVE PolicyInv
  OBVIOUS
<1>1. options \in Setups /\ Configured(options) /\ edits \in 0..MaxEdits /\ entra \in [Entra -> Profiles]
  BY PolicyConstants DEF PolicyInit
<1>2. UsersFit
  BY DEF PolicyInit, UsersFit, Holds
<1>3. PolicyCallsFit
  BY DEF PolicyInit, PolicyCallsFit, NoCall, Credential, Identities
<1>4. SsoFits
  BY DEF PolicyInit, SsoFits
<1>5. QED
  BY <1>1, <1>2, <1>3, <1>4 DEF PolicyInv

\* A row is replaced by one that fits, with no account of somebody else.
LEMMA RowWritten ==
  ASSUME UsersFit, options' = options, NEW a \in PolicyAddresses, NEW u, users' = [users EXCEPT ![a] = u],
         u = NoUser \/ (RowFits(a, u) /\ \A id \in u.accounts : Holds(a, id) \/ Owner(id) = {})
  PROVE  UsersFit'
<1>0. /\ users \in [PolicyAddresses -> UserRows \cup {NoUser}]
      /\ \A b \in PolicyAddresses : users[b] # NoUser => RowFits(b, users[b])
      /\ \A b, c \in PolicyAddresses : \A id : Holds(b, id) /\ Holds(c, id) => b = c
  BY DEF UsersFit
<1>1. u \in UserRows \cup {NoUser}
  BY DEF RowFits
<1>2. /\ users' \in [PolicyAddresses -> UserRows \cup {NoUser}] /\ users'[a] = u
      /\ \A b \in PolicyAddresses : b # a => users'[b] = users[b]
  BY <1>0, <1>1
<1>3. ASSUME NEW b \in PolicyAddresses, NEW v PROVE RowFits(b, v)' <=> RowFits(b, v)
  BY DEF RowFits, Belongs, Closed
<1>4. ASSUME NEW b \in PolicyAddresses, users'[b] # NoUser PROVE RowFits(b, users[b])'
  <2>1. PICK v : v = users'[b]
    OBVIOUS
  <2>2. RowFits(b, v)
    BY <1>0, <1>2, <1>4, <2>1
  <2>3. RowFits(b, v)'
    BY <1>3, <2>2
  <2>4. QED
    BY <2>1, <2>3 DEF RowFits, Belongs, Closed
<1>5. ASSUME NEW b \in PolicyAddresses, NEW id, b # a, Holds(b, id)', Holds(a, id)' PROVE FALSE
  <2>1. Holds(b, id) /\ u # NoUser /\ id \in u.accounts
    BY <1>2, <1>5 DEF Holds
  <2>2. Holds(a, id) \/ Owner(id) = {}
    BY <2>1
  <2>3. b \in Owner(id)
    BY <2>1 DEF Owner, Holds
  <2>4. QED
    BY <1>0, <1>5, <2>1, <2>2, <2>3
<1>6. ASSUME NEW b \in PolicyAddresses, NEW c \in PolicyAddresses, NEW id, Holds(b, id)', Holds(c, id)' PROVE b = c
  <2>1. b # a => Holds(b, id)
    BY <1>2, <1>6 DEF Holds
  <2>2. c # a => Holds(c, id)
    BY <1>2, <1>6 DEF Holds
  <2>3. QED
    BY <1>0, <1>5, <1>6, <2>1, <2>2
<1>7. QED
  BY <1>2, <1>4, <1>6 DEF UsersFit

\* Removing a squatter, an unverified user of an address, keeps the users in order.
LEMMA RemovedFits ==
  ASSUME PolicyInv, NEW a \in PolicyAddresses, options' = options, users' = WithoutSquatter(a) \/ users' = users
  PROVE  UsersFit'
<1>0. UsersFit
  BY DEF PolicyInv
<1>1. CASE users' = users
  BY <1>0, <1>1 DEF UsersFit, RowFits, Belongs, Closed, Holds
<1>2. CASE users' = [users EXCEPT ![a] = NoUser]
  BY <1>0, <1>2, RowWritten
<1>3. QED
  BY <1>1, <1>2 DEF WithoutSquatter

\* A sign-in that is decided is one that fits.
LEMMA DecidesInv ==
  ASSUME PolicyInv, NEW c \in SignIns, NEW k, calls' = [calls EXCEPT ![c] = k], k = NoCall \/ PolicyCallFits(k),
         k \in [id : Identities, email : PolicyAddresses \cup {NoMail}, verified : BOOLEAN],
         UNCHANGED <<options, sso, entra, edits>>, UsersFit'
  PROVE  PolicyInv'
<1>0. PolicyCallsFit /\ SsoFits
  BY DEF PolicyInv
<1>1. \A b : Closed(b)' = Closed(b)
  BY DEF Closed
<1>2. PolicyCallsFit'
  <2>1. /\ calls' \in [SignIns -> [id : Identities, email : PolicyAddresses \cup {NoMail}, verified : BOOLEAN]]
        /\ calls'[c] = k /\ \A d \in SignIns : d # c => calls'[d] = calls[d]
    BY <1>0 DEF PolicyCallsFit
  <2>2. ASSUME NEW d \in SignIns, calls'[d] # NoCall PROVE PolicyCallFits(calls[d])'
    <3>1. PICK m : m = calls'[d]
      OBVIOUS
    <3>2. PolicyCallFits(m)
      BY <1>0, <2>1, <2>2, <3>1 DEF PolicyCallsFit
    <3>3. QED
      BY <1>1, <3>1, <3>2 DEF PolicyCallFits
  <2>3. QED
    BY <2>1, <2>2 DEF PolicyCallsFit, NoCall
<1>3. SsoFits'
  BY <1>0 DEF SsoFits, ReservedClaim
<1>4. QED
  BY <1>2, <1>3 DEF PolicyInv, Configured

\* An address whose sign-up is not refused as reserved is no address of the company.
LEMMA OpenIs ==
  ASSUME NEW a, ~Reserved(a) PROVE ~Closed(a)
BY DEF Reserved, Closed

\* The decision on a sign-up with a password, or with Google, keeps the invariant.
LEMMA SignUpInv ==
  ASSUME PolicyInv, NEW c \in SignIns, NEW a \in PolicyAddresses,
         SignUp(c, a) \/ \E v \in BOOLEAN : GoogleDecides(c, a, v)
  PROVE  PolicyInv'
<1>1. PICK id, v : v \in BOOLEAN /\ Decides(c, id, a, v) /\ ~Reserved(a) /\ (id = Credential(a) \/ id = Google(a))
  <2>1. CASE SignUp(c, a)
    BY <2>1 DEF SignUp
  <2>2. ASSUME NEW v \in BOOLEAN, GoogleDecides(c, a, v) PROVE Decides(c, Google(a), a, v) /\ ~Reserved(a)
    BY <2>2 DEF GoogleDecides
  <2>3. QED
    BY <2>1, <2>2
<1>2. UsersFit'
  <2>1. options' = options /\ (users' = users \/ users' = WithoutSquatter(a))
    BY DEF SignUp, GoogleDecides, Decides
  <2>2. QED
    BY <2>1, RemovedFits
<1>3. id \in Identities /\ id.via \in {"credential", "google"} /\ id.id = a
  BY <1>1 DEF Credential, Google, Identities
<1>4. PICK k : k = [id |-> id, email |-> a, verified |-> v]
  OBVIOUS
<1>5. k.id = id /\ k.email = a /\ k.verified = v
  BY <1>4
<1>6. k \in [id : Identities, email : PolicyAddresses \cup {NoMail}, verified : BOOLEAN]
  BY <1>1, <1>3, <1>4
<1>7. \A x \in Entra : id # Microsoft(x)
  BY <1>3 DEF Microsoft
<1>8. PolicyCallFits(k)
  BY <1>1, <1>3, <1>5, <1>7, OpenIs, PolicyConstants DEF PolicyCallFits
<1>9. calls' = [calls EXCEPT ![c] = k] /\ UNCHANGED <<options, sso, entra, edits>>
  BY <1>1, <1>4 DEF Decides
<1>10. QED
  BY <1>2, <1>6, <1>8, <1>9, DecidesInv

\* The decision on a sign-in of the company's tenant, a guest or a member, keeps the invariant.
LEMMA TenantInv ==
  ASSUME PolicyInv, NEW c \in SignIns, NEW x \in Entra, GuestDecides(c, x) \/ MemberDecides(c, x)
  PROVE  PolicyInv'
<1>0. entra[x] \in Profiles
  BY DEF PolicyInv
<1>1. PICK a \in PolicyAddresses : a = entra[x].mail
  BY <1>0, PolicyConstants DEF GuestDecides, MemberDecides, OnStaff
<1>2. PICK v \in BOOLEAN : /\ Decides(c, Microsoft(x), a, v) /\ (x \in Guests => ~v)
                           /\ x \notin Guests => StaffDomainIn(DomainOf[a], options.staff)
  BY <1>1 DEF GuestDecides, MemberDecides, OnStaff
<1>3. UsersFit'
  <2>1. options' = options /\ (users' = users \/ users' = WithoutSquatter(a))
    BY <1>1 DEF GuestDecides, MemberDecides, Decides
  <2>2. QED
    BY <2>1, RemovedFits
<1>4. PICK id, k : id = Microsoft(x) /\ k = [id |-> id, email |-> a, verified |-> v]
  OBVIOUS
<1>5. id \in Identities /\ id.via = "microsoft" /\ \A y : id = Microsoft(y) => y = x
  <2>1. id.via = "microsoft" /\ id.id = x /\ id \in Identities
    BY <1>4 DEF Microsoft, Identities
  <2>2. \A y : Microsoft(y).id = y
    BY DEF Microsoft
  <2>3. QED
    BY <2>1, <2>2
<1>6. k.id = id /\ k.email = a /\ k.verified = v
  BY <1>4
<1>7. k \in [id : Identities, email : PolicyAddresses \cup {NoMail}, verified : BOOLEAN]
  BY <1>4, <1>5
<1>8. PolicyCallFits(k)
  BY <1>2, <1>5, <1>6 DEF PolicyCallFits
<1>9. calls' = [calls EXCEPT ![c] = k] /\ UNCHANGED <<options, sso, entra, edits>>
  BY <1>2, <1>4 DEF Decides
<1>10. QED
  BY <1>3, <1>7, <1>8, <1>9, DecidesInv

\* A new account on a row that has nothing the account may not be with.
LEMMA WrittenFits ==
  ASSUME UsersFit, NEW a \in PolicyAddresses, NEW id \in Identities, NEW v \in BOOLEAN, NEW let \in SUBSET SsoProviders,
         Owner(id) = {}, options' = options,
         NEW us, us = users \/ us = [users EXCEPT ![a] = NoUser], users' = Written(us, id, a, v, let),
         NEW by, by = IF us[a] = NoUser THEN id ELSE us[a].by,
         id.via \in {"credential", "google"} => id.id = a,
         Closed(a) => id.via = "microsoft",
         \A x \in Entra \ Guests : id = Microsoft(x) => StaffDomainIn(DomainOf[a], options.staff),
         \A x \in Guests : id = Microsoft(x) => by = id,
         \A p \in SsoProviders : id = Sso(p) => by = id \/ (p \in let /\ p \in us[a].member)
  PROVE  UsersFit'
<1>0. /\ users \in [PolicyAddresses -> UserRows \cup {NoUser}] /\ us[a] \in UserRows \cup {NoUser}
      /\ us[a] # NoUser => us = users /\ RowFits(a, users[a])
  BY DEF UsersFit
<1>1. CASE us[a] = NoUser
  <2>1. PICK u : u = NewUser(id, v)
    OBVIOUS
  <2>2. users' = [users EXCEPT ![a] = u]
    BY <1>0, <1>1, <2>1 DEF Written
  <2>3. u \in UserRows /\ u.by = id /\ u.accounts = {id}
    BY <2>1 DEF NewUser, UserRows
  <2>4. by = id
    BY <1>1
  <2>5. Belongs(id, a, u)
    BY <1>1, <2>3, <2>4 DEF Belongs
  <2>6. RowFits(a, u)
    BY <2>3, <2>5 DEF RowFits
  <2>7. QED
    BY <2>2, <2>3, <2>6, RowWritten
<1>2. CASE us[a] # NoUser
  <2>0. us = users /\ users[a] \in UserRows /\ RowFits(a, users[a]) /\ by = users[a].by
    BY <1>0, <1>2
  <2> DEFINE q == [users[a] EXCEPT !.accounts = @ \cup {id}, !.let = @ \cup let]
  <2>1. /\ q \in UserRows /\ q.accounts = users[a].accounts \cup {id} /\ q.let = users[a].let \cup let
        /\ q.by = users[a].by /\ q.member = users[a].member
    BY <2>0 DEF UserRows
  <2>2. users' = [users EXCEPT ![a] = q]
    BY <1>0, <1>2, <2>0 DEF Written
  <2> HIDE DEF q
  <2>3. PICK u : u = q
    OBVIOUS
  <2>4. ASSUME NEW i \in u.accounts PROVE Belongs(i, a, u)
    <3>1. CASE i = id
      BY <2>0, <2>1, <2>3, <3>1 DEF Belongs
    <3>2. CASE i \in users[a].accounts
      <4>1. Belongs(i, a, users[a])
        BY <2>0, <3>2 DEF RowFits
      <4>2. QED
        BY <2>1, <2>3, <4>1 DEF Belongs
    <3>3. QED
      BY <2>1, <2>3, <3>1, <3>2
  <2>5. RowFits(a, u)
    BY <2>0, <2>1, <2>3, <2>4 DEF RowFits
  <2>6. \A i \in u.accounts : Holds(a, i) \/ Owner(i) = {}
    BY <1>2, <2>0, <2>1, <2>3 DEF Holds
  <2>7. QED
    BY <2>2, <2>3, <2>5, <2>6, RowWritten
<1>3. QED
  BY <1>1, <1>2

\* Better Auth writes what the provider decided.
LEMMA WritesInv ==
  ASSUME PolicyInv, NEW c \in SignIns, Writes(c)
  PROVE  PolicyInv'
<1>1. PICK k : k = calls[c]
  OBVIOUS
<1>0. UsersFit /\ PolicyCallFits(k) /\ k # NoCall
  BY <1>1 DEF PolicyInv, PolicyCallsFit, Writes
<1>2. /\ calls' = [calls EXCEPT ![c] = NoCall] /\ UNCHANGED <<options, sso, entra, edits>>
      /\ users' = IF Owner(k.id) # {} \/ (users[k.email] # NoUser /\ ~k.verified) THEN users
                  ELSE Written(users, k.id, k.email, k.verified, {})
  BY <1>1 DEF Writes
<1>3. UsersFit'
  <2>1. CASE users' = users
    BY <1>0, <1>2, <2>1 DEF UsersFit, RowFits, Belongs, Closed, Holds
  <2>2. CASE /\ users' = Written(users, k.id, k.email, k.verified, {})
             /\ Owner(k.id) = {} /\ (users[k.email] # NoUser => k.verified)
    <3>1. PICK id \in Identities, a \in PolicyAddresses, v \in BOOLEAN : id = k.id /\ a = k.email /\ v = k.verified
      BY <1>0 DEF PolicyCallFits
    <3>2. PICK by : by = IF users[a] = NoUser THEN id ELSE users[a].by
      OBVIOUS
    <3>3. /\ id.via # "sso" /\ (id.via \in {"credential", "google"} => id.id = a)
          /\ Closed(a) => id.via = "microsoft"
          /\ \A x \in Entra \ Guests : id = Microsoft(x) => StaffDomainIn(DomainOf[a], options.staff)
          /\ \A x \in Guests : id = Microsoft(x) => ~v
      BY <1>0, <3>1 DEF PolicyCallFits
    <3>4. \A x \in Guests : id = Microsoft(x) => by = id
      BY <2>2, <3>1, <3>2, <3>3
    <3>5. \A p \in SsoProviders : id # Sso(p)
      BY <3>3 DEF Sso
    <3>6. {} \in SUBSET SsoProviders
      OBVIOUS
    <3>7. PICK us : us = users
      OBVIOUS
    <3>8. users' = Written(us, id, a, v, {}) /\ Owner(id) = {} /\ options' = options /\ by = IF us[a] = NoUser THEN id ELSE us[a].by
      BY <1>2, <2>2, <3>1, <3>2, <3>7
    <3>9. QED
      BY <1>0, <3>3, <3>4, <3>5, <3>6, <3>7, <3>8, WrittenFits
  <2>3. QED
    BY <1>2, <2>1, <2>2
<1>4. NoCall \in [id : Identities, email : PolicyAddresses \cup {NoMail}, verified : BOOLEAN]
  BY DEF NoCall, Credential, Identities
<1>5. QED
  BY <1>2, <1>3, <1>4, DecidesInv DEF NoCall

\* What does not touch the calls, the claims, the tenant and the options.
LEMMA UsersInv ==
  ASSUME PolicyInv, UsersFit', UNCHANGED <<options, sso, entra, calls, edits>>
  PROVE  PolicyInv'
<1>0. PolicyCallsFit /\ SsoFits
  BY DEF PolicyInv
<1>1. PolicyCallsFit'
  BY <1>0 DEF PolicyCallsFit, PolicyCallFits, Closed, NoCall
<1>2. SsoFits'
  BY <1>0 DEF SsoFits, ReservedClaim
<1>3. QED
  BY <1>1, <1>2 DEF PolicyInv, Configured

\* An organization's provider resolves a user.
LEMMA ResolveInv ==
  ASSUME PolicyInv, NEW p \in SsoProviders, NEW a \in PolicyAddresses, ResolveUser(p, a)
  PROVE  PolicyInv'
<1>0. UsersFit /\ options \in Setups /\ SsoFits
  BY DEF PolicyInv
<1>1. PICK left : left = WithoutSquatter(a)
  OBVIOUS
<1>2. /\ sso[p].verified /\ DomainIn(DomainOf[a], sso[p].domains)
      /\ UNCHANGED <<options, sso, entra, calls, edits>>
      /\ users' = IF Owner(Sso(p)) = {} /\ (left[a] = NoUser \/ p \in left[a].member)
                  THEN Written(left, Sso(p), a, TRUE, {p}) ELSE left
  BY <1>1 DEF ResolveUser
<1>3. ~Closed(a)
  <2>1. sso[p].domains \in Claims /\ ~ReservedClaim(sso[p].domains)
    BY <1>0, <1>2 DEF SsoFits
  <2>2. PICK o \in Setups, ds \in Claims : options = o /\ ds = sso[p].domains
    BY <1>0, <2>1
  <2>3. QED
    BY <1>2, <2>1, <2>2, ClaimsStayOut
<1>4. UsersFit'
  <2>1. CASE users' = left
    BY <1>1, <1>2, <2>1, RemovedFits
  <2>2. CASE /\ users' = Written(left, Sso(p), a, TRUE, {p})
             /\ Owner(Sso(p)) = {} /\ (left[a] = NoUser \/ p \in left[a].member)
    <3>1. PICK id : id = Sso(p)
      OBVIOUS
    <3>2. id \in Identities /\ id.via = "sso" /\ \A y : id = Sso(y) => y = p
      <4>1. id.via = "sso" /\ id.id = p /\ id \in Identities
        BY <3>1 DEF Sso, Identities
      <4>2. \A y : Sso(y).id = y
        BY DEF Sso
      <4>3. QED
        BY <4>1, <4>2
    <3>3. \A x : id # Microsoft(x)
      BY <3>2 DEF Microsoft
    <3>4. PICK by, let : by = (IF left[a] = NoUser THEN id ELSE left[a].by) /\ let = {p}
      OBVIOUS
    <3>5. \A q \in SsoProviders : id = Sso(q) => by = id \/ (q \in let /\ q \in left[a].member)
      BY <2>2, <3>2, <3>4
    <3>6. left = users \/ left = [users EXCEPT ![a] = NoUser]
      BY <1>1 DEF WithoutSquatter
    <3>7. users' = Written(left, id, a, TRUE, let) /\ Owner(id) = {} /\ options' = options /\ let \in SUBSET SsoProviders
      BY <1>2, <2>2, <3>1, <3>4
    <3>8. PICK v \in BOOLEAN : v = TRUE
      OBVIOUS
    <3>9. users' = Written(left, id, a, v, let)
      BY <3>7, <3>8
    <3>10. id.via \in {"credential", "google"} => id.id = a
      BY <3>2
    <3>11. Owner(id) = {} /\ options' = options /\ let \in SUBSET SsoProviders
      BY <3>7
    <3>12. QED
      BY <1>0, <1>3, <3>2, <3>3, <3>4, <3>5, <3>6, <3>9, <3>10, <3>11, WrittenFits
  <2>3. QED
    BY <1>2, <2>1, <2>2
<1>5. QED
  BY <1>2, <1>4, UsersInv

\* A row that stays whose it is: joined, or its address verified.
LEMMA MembersInv ==
  ASSUME PolicyInv, NEW a \in PolicyAddresses, (\E p \in SsoProviders : Joins(a, p)) \/ VerifiesEmail(a)
  PROVE  PolicyInv'
<1>0. UsersFit /\ users[a] # NoUser /\ users[a] \in UserRows /\ RowFits(a, users[a])
      /\ users \in [PolicyAddresses -> UserRows \cup {NoUser}]
  BY DEF PolicyInv, UsersFit, Joins, VerifiesEmail
<1>1. UNCHANGED <<options, sso, entra, calls, edits>>
  BY DEF Joins, VerifiesEmail
<1>2. \E u \in UserRows : /\ users' = [users EXCEPT ![a] = u] /\ u.accounts = users[a].accounts /\ u.by = users[a].by
                          /\ u.let = users[a].let /\ users[a].member \subseteq u.member
  <2>1. ASSUME NEW p \in SsoProviders, Joins(a, p) PROVE <1>2!:
    <3> DEFINE q == [users[a] EXCEPT !.member = @ \cup {p}]
    <3>1. /\ q \in UserRows /\ q.accounts = users[a].accounts /\ q.by = users[a].by
          /\ q.let = users[a].let /\ users[a].member \subseteq q.member
      BY <1>0 DEF UserRows
    <3>2. users' = [users EXCEPT ![a] = q]
      BY <1>0, <2>1 DEF Joins
    <3> HIDE DEF q
    <3>3. QED
      BY <3>1, <3>2
  <2>2. CASE VerifiesEmail(a)
    <3> DEFINE q == [users[a] EXCEPT !.verified = TRUE]
    <3>1. /\ q \in UserRows /\ q.accounts = users[a].accounts /\ q.by = users[a].by
          /\ q.let = users[a].let /\ users[a].member \subseteq q.member
      BY <1>0 DEF UserRows
    <3>2. users' = [users EXCEPT ![a] = q]
      BY <1>0, <2>2 DEF VerifiesEmail
    <3> HIDE DEF q
    <3>3. QED
      BY <3>1, <3>2
  <2>3. QED
    BY <2>1, <2>2
<1>3. PICK u \in UserRows : /\ users' = [users EXCEPT ![a] = u] /\ u.accounts = users[a].accounts /\ u.by = users[a].by
                            /\ u.let = users[a].let /\ users[a].member \subseteq u.member
  BY <1>2
<1>4. RowFits(a, u)
  <2>1. ASSUME NEW i \in u.accounts PROVE Belongs(i, a, u)
    <3>1. Belongs(i, a, users[a])
      BY <1>0, <1>3 DEF RowFits
    <3>2. QED
      BY <1>3, <3>1 DEF Belongs
  <2>2. u.by \in u.accounts
    BY <1>0, <1>3 DEF RowFits
  <2>3. QED
    BY <2>1, <2>2 DEF RowFits
<1>5. \A i \in u.accounts : Holds(a, i)
  BY <1>0, <1>3 DEF Holds
<1>6. UsersFit'
  BY <1>0, <1>1, <1>3, <1>4, <1>5, RowWritten
<1>7. QED
  BY <1>1, <1>6, UsersInv

\* The claims of domains by organizations, and their proofs, keep the invariant.
LEMMA ClaimsInv ==
  ASSUME PolicyInv, NEW p \in SsoProviders, ProvesDomain(p) \/ \E ds \in Claims : Registers(p, ds)
  PROVE  PolicyInv'
<1>0. UsersFit /\ PolicyCallsFit /\ SsoFits /\ sso \in [SsoProviders -> [domains : Claims \cup {{}}, verified : BOOLEAN]]
  BY DEF PolicyInv, SsoFits
<1>1. UNCHANGED <<options, users, entra, calls, edits>>
  BY DEF ProvesDomain, Registers
<1>2. \E q \in [domains : Claims \cup {{}}, verified : BOOLEAN] :
         /\ sso' = [sso EXCEPT ![p] = q]
         /\ (q.domains # {} => ~ReservedClaim(q.domains)) /\ (q.verified => q.domains # {})
  <2>1. CASE ProvesDomain(p)
    <3> DEFINE q == [sso[p] EXCEPT !.verified = TRUE]
    <3>1. sso[p] \in [domains : Claims \cup {{}}, verified : BOOLEAN] /\ sso[p].domains # {}
      BY <1>0, <2>1 DEF ProvesDomain
    <3>2. q \in [domains : Claims \cup {{}}, verified : BOOLEAN] /\ q.domains = sso[p].domains
      BY <3>1
    <3>3. sso' = [sso EXCEPT ![p] = q]
      BY <1>0, <2>1 DEF ProvesDomain
    <3> HIDE DEF q
    <3>4. ~ReservedClaim(sso[p].domains)
      BY <1>0, <3>1 DEF SsoFits
    <3>5. QED
      BY <3>1, <3>2, <3>3, <3>4
  <2>2. ASSUME NEW ds \in Claims, Registers(p, ds) PROVE <1>2!:
    <3> DEFINE q == [domains |-> ds, verified |-> FALSE]
    <3>1. q \in [domains : Claims \cup {{}}, verified : BOOLEAN] /\ q.domains = ds /\ ~q.verified
      OBVIOUS
    <3>2. sso' = [sso EXCEPT ![p] = q] /\ ~ReservedClaim(ds)
      BY <2>2 DEF Registers
    <3> HIDE DEF q
    <3>3. QED
      BY <3>1, <3>2
  <2>3. QED
    BY <2>1, <2>2
<1>3. PICK q \in [domains : Claims \cup {{}}, verified : BOOLEAN] :
         /\ sso' = [sso EXCEPT ![p] = q]
         /\ (q.domains # {} => ~ReservedClaim(q.domains)) /\ (q.verified => q.domains # {})
  BY <1>2
<1>4. /\ sso' \in [SsoProviders -> [domains : Claims \cup {{}}, verified : BOOLEAN]]
      /\ sso'[p] = q /\ \A r \in SsoProviders : r # p => sso'[r] = sso[r]
  BY <1>0, <1>3
<1>5. SsoFits'
  <2>1. ASSUME NEW r \in SsoProviders
        PROVE  (sso'[r].domains # {} => ~ReservedClaim(sso'[r].domains)) /\ (sso'[r].verified => sso'[r].domains # {})
    <3>1. CASE r = p
      BY <1>3, <1>4, <3>1
    <3>2. CASE r # p
      BY <1>0, <1>4, <3>2 DEF SsoFits
    <3>3. QED
      BY <3>1, <3>2
  <2>2. QED
    BY <1>1, <1>4, <2>1 DEF SsoFits, ReservedClaim
<1>6. UsersFit'
  BY <1>0, <1>1 DEF UsersFit, RowFits, Belongs, Closed, Holds
<1>7. PolicyCallsFit'
  BY <1>0, <1>1 DEF PolicyCallsFit, PolicyCallFits, Closed, NoCall
<1>8. QED
  BY <1>1, <1>5, <1>6, <1>7 DEF PolicyInv, Configured

\* Every step keeps the invariant of who may have an account.
LEMMA PolicyStepInv == PolicyInv /\ [PolicyNext]_policyVars => PolicyInv'
<1> SUFFICES ASSUME PolicyInv, [PolicyNext]_policyVars PROVE PolicyInv'
  OBVIOUS
<1>0. UsersFit /\ PolicyCallsFit /\ SsoFits
  BY DEF PolicyInv
<1>1. ASSUME UNCHANGED <<options, users, sso, calls>>, edits' \in 0..MaxEdits, entra' \in [Entra -> Profiles] PROVE PolicyInv'
  <2>1. UsersFit'
    BY <1>0, <1>1 DEF UsersFit, RowFits, Belongs, Closed, Holds
  <2>2. PolicyCallsFit'
    BY <1>0, <1>1 DEF PolicyCallsFit, PolicyCallFits, Closed, NoCall
  <2>3. SsoFits'
    BY <1>0, <1>1 DEF SsoFits, ReservedClaim
  <2>4. QED
    BY <1>1, <2>1, <2>2, <2>3 DEF PolicyInv, Configured
<1>2. ASSUME NEW x \in Entra, NEW profile \in Profiles, EditsMail(x, profile) PROVE PolicyInv'
  <2>1. edits' \in 0..MaxEdits /\ entra' \in [Entra -> Profiles] /\ UNCHANGED <<options, users, sso, calls>>
    BY <1>2, PolicyConstants DEF EditsMail, PolicyInv
  <2>2. QED
    BY <1>1, <2>1
<1>3. CASE UNCHANGED policyVars
  BY <1>1, <1>3 DEF policyVars, PolicyInv
<1>4. CASE PolicyNext
  BY <1>2, <1>4, WritesInv, SignUpInv, TenantInv, ResolveInv, MembersInv, ClaimsInv DEF PolicyNext
<1>5. QED
  BY <1>3, <1>4

\* The invariant gives whose account each user may have.
LEMMA PolicyInvSafe == PolicyInv => PolicySafe
<1> SUFFICES ASSUME PolicyInv PROVE PolicySafe
  OBVIOUS
<1>0. UsersFit /\ SsoFits /\ options \in Setups /\ Configured(options) /\ edits \in 0..MaxEdits
  BY DEF PolicyInv
<1>1. ASSUME NEW a \in PolicyAddresses, users[a] # NoUser
      PROVE  users[a].by \in users[a].accounts /\ \A id \in users[a].accounts : Belongs(id, a, users[a]) /\ Owner(id) = {a}
  <2>1. RowFits(a, users[a])
    BY <1>0, <1>1 DEF UsersFit
  <2>2. \A id \in users[a].accounts : Owner(id) = {a}
    BY <1>0, <1>1 DEF UsersFit, Owner, Holds
  <2>3. QED
    BY <2>1, <2>2 DEF RowFits
<1>2. PolicyTypeOK
  BY <1>0, <1>1 DEF PolicyTypeOK, SsoFits, Belongs
<1>3. StaffOnlyEntra
  BY <1>1 DEF StaffOnlyEntra, Belongs, Closed
<1>4. MembersOnStaff
  BY <1>1 DEF MembersOnStaff, Belongs
<1>5. GuestOwn
  BY <1>1 DEF GuestOwn, Belongs
<1>6. SsoInside
  BY <1>1 DEF SsoInside, Belongs
<1>7. QED
  BY <1>2, <1>3, <1>4, <1>5, <1>6 DEF PolicySafe

\* For any mailboxes, tenants, providers, claims and sign-ins in flight: an address of the company
\* has accounts of its own tenant only, a guest only the user it created, and an organization's
\* provider enters only users it created or that had joined it.
THEOREM PolicyHolds == PolicySpec => []PolicySafe
<1>1. PolicyInit => PolicyInv
  BY PolicyInitInv
<1>2. PolicyInv /\ [PolicyNext]_policyVars => PolicyInv'
  BY PolicyStepInv
<1>3. PolicyInv => PolicySafe
  BY PolicyInvSafe
<1>4. QED
  BY <1>1, <1>2, <1>3, PTL DEF PolicySpec
=============================================================================
