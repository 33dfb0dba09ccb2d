----------------------------- MODULE EdgeProofs -----------------------------
(***************************************************************************)
(* Proofs about the HTTP edge: the signed client address, the request      *)
(* pipeline, pagination and metrics.                                       *)
(***************************************************************************)
EXTENDS EdgeAddress, HttpRequest, PageWalk, Telemetry, FiniteSetTheorems, SequenceTheorems, WellFoundedInduction, TLAPS

-----------------------------------------------------------------------------
(***************************************************************************)
(* EdgeAddress, for any addresses, targets and requests: each signature    *)
(* that is heard was made by the Worker for one request and one time.      *)
(***************************************************************************)

Marks == {"old", "new"} \cup Nat \cup Addresses \cup Targets
Trios == [ts : Nat, ip : Addresses, sig : Seq(Marks)]
EdgeRecords == [pc : {"new", "wire"}, target : Targets \cup {"none"}, seen : Addresses \cup {"none"},
                trio : Trios \cup {NoTrio}, via : {"none", "worker", "direct"}, at : Nat]
EdgeShape ==
    /\ edgeNow \in Nat /\ edgeReq \in [EdgeRequests -> EdgeRecords] /\ heard \subseteq Trios
    /\ known \in [EdgeRequests -> {"unknown", Socket} \cup Addresses]
    /\ told \in [EdgeRequests -> [Askers -> {"unasked", Socket} \cup Addresses]]
    /\ counted \in [EdgeRequests -> {0, 1}] /\ pendingLog \in Nat /\ logged \in Nat

\* The three stages of a rotation.
KeysFit ==
    /\ workerKey \in Plain /\ apiKeys \in Seq(Plain) /\ Len(apiKeys) \in {1, 2}
    /\ \/ Len(apiKeys) = 1 /\ apiKeys[1].key = workerKey.key
       \/ Len(apiKeys) = 2 /\ apiKeys[1].key = "new" /\ apiKeys[2].key = "old"

\* A key still verifies, or what it signed is stale.
KeyFits(k, ts) == (\E i \in 1..Len(apiKeys) : apiKeys[i].key = k) \/ edgeNow - ts > MaxSkew

\* What the Worker signed for a request is of this request.
WorkerFits(s) ==
    (edgeReq[s].via = "worker" /\ edgeReq[s].trio # NoTrio) =>
        /\ edgeReq[s].trio.ip = edgeReq[s].seen /\ edgeReq[s].seen \in Usable
        /\ edgeReq[s].trio.ts \in Nat /\ edgeReq[s].trio.ts <= edgeNow
        /\ edgeReq[s].trio \in heard
        /\ \E k \in {"old", "new"} :
             /\ edgeReq[s].trio.sig = <<k, edgeReq[s].trio.ts, edgeReq[s].seen, edgeReq[s].target>>
             /\ KeyFits(k, edgeReq[s].trio.ts)

\* Whatever else arrives has its signature from the wire.
DirectFits(r) ==
    /\ edgeReq[r].via # "none" <=> edgeReq[r].pc = "wire"
    /\ edgeReq[r].via = "direct" /\ edgeReq[r].trio # NoTrio =>
         edgeReq[r].trio.sig = << >> \/ \E h \in heard : edgeReq[r].trio.sig = h.sig /\ edgeReq[r].trio.ts = h.ts

HeardFits(t) == t # NoTrio /\ \E s \in EdgeRequests : edgeReq[s].via = "worker" /\ edgeReq[s].trio = t

Believed(r) ==
    /\ known[r] \in RealIps
    /\ \E s \in EdgeRequests :
         /\ edgeReq[s].via = "worker" /\ edgeReq[s].seen = known[r] /\ edgeReq[s].target = edgeReq[r].target
         /\ edgeReq[r].at - edgeReq[s].trio.ts <= MaxSkew
    /\ edgeReq[r].via = "worker" => known[r] = edgeReq[r].seen
KnownFits(r) ==
    /\ \A a \in Askers : told[r][a] = "unasked" \/ (told[r][a] = known[r] /\ known[r] # "unknown")
    /\ known[r] # "unknown" => (\E a \in Askers : told[r][a] # "unasked") /\ edgeReq[r].pc = "wire"
    /\ known[r] \notin {"unknown", Socket} => Believed(r)
    /\ known[r] = "unknown" => counted[r] = 0

Counted == {r \in EdgeRequests : counted[r] > 0}
CountFits == IsFiniteSet(Counted) /\ pendingLog + logged = Cardinality(Counted)

EdgeInv ==
    /\ EdgeShape /\ KeysFit /\ CountFits /\ \A t \in heard : HeardFits(t)
    /\ \A r \in EdgeRequests : WorkerFits(r) /\ DirectFits(r) /\ KnownFits(r)

\* What the constants are.
LEMMA EdgeConstants ==
  /\ MaxSkew \in Nat /\ WarnEvery \in Nat /\ RealIps \subseteq Usable /\ Usable \subseteq Addresses
  /\ "unknown" \notin Addresses /\ "unasked" \notin Addresses /\ Socket # "unknown" /\ Socket # "unasked"
BY EdgeAssumption

\* The only element of a sequence is an element of its set.
LEMMA FirstOf ==
  ASSUME NEW S, NEW s \in Seq(S), Len(s) = 1
  PROVE  s[1] \in S
OBVIOUS

\* Initially nothing was sent and nobody asked.
LEMMA EdgeInitInv == EdgeInit => EdgeInv
<1> SUFFICES ASSUME EdgeInit PROVE EdgeInv
  OBVIOUS
<1> DEFINE e == [pc |-> "new", target |-> "none", seen |-> "none", trio |-> NoTrio, via |-> "none", at |-> 0]
           k == [key |-> "old", padded |-> FALSE]
<1>1. e \in EdgeRecords /\ e.pc = "new" /\ e.via = "none"
  BY DEF EdgeRecords
<1>2. k \in Plain /\ k.key = "old"
  BY DEF Plain
<1>3. /\ edgeReq = [r \in EdgeRequests |-> e] /\ apiKeys = <<k>> /\ workerKey \in Plain /\ workerKey.key = "old"
      /\ edgeNow = 0 /\ heard = {} /\ pendingLog = 0 /\ logged = 0
      /\ known = [r \in EdgeRequests |-> "unknown"] /\ told = [r \in EdgeRequests |-> [a \in Askers |-> "unasked"]]
      /\ counted = [r \in EdgeRequests |-> 0]
  BY DEF EdgeInit
<1> HIDE DEF e, k
<1>4. KeysFit
  BY <1>2, <1>3 DEF KeysFit
<1>5. Counted = {}
  BY <1>3 DEF Counted
<1>6. CountFits
  BY <1>3, <1>5, FS_EmptySet DEF CountFits
<1>7. EdgeShape
  BY <1>1, <1>3 DEF EdgeShape
<1>8. \A r \in EdgeRequests : WorkerFits(r) /\ DirectFits(r) /\ KnownFits(r)
  BY <1>1, <1>3 DEF WorkerFits, DirectFits, KnownFits
<1>9. QED
  BY <1>3, <1>4, <1>6, <1>7, <1>8 DEF EdgeInv

\* What a request is, but for when it was resolved.
SameRequest(s) ==
    /\ edgeReq'[s].pc = edgeReq[s].pc /\ edgeReq'[s].target = edgeReq[s].target /\ edgeReq'[s].seen = edgeReq[s].seen
    /\ edgeReq'[s].trio = edgeReq[s].trio /\ edgeReq'[s].via = edgeReq[s].via

\* What a step that leaves the keys alone and moves one request, or none, keeps of the others.
LEMMA OthersStay ==
  ASSUME EdgeInv, NEW s \in EdgeRequests, SameRequest(s), UNCHANGED apiKeys, edgeNow' \in Nat, edgeNow' >= edgeNow,
         heard \subseteq heard'
  PROVE  WorkerFits(s)' /\ DirectFits(s)'
<1>0. /\ WorkerFits(s) /\ DirectFits(s) /\ edgeNow \in Nat /\ MaxSkew \in Nat
  BY EdgeConstants DEF EdgeInv, EdgeShape
<1>1. DirectFits(s)'
  BY <1>0 DEF DirectFits, SameRequest
<1>2. WorkerFits(s)'
  <2> SUFFICES ASSUME edgeReq[s].via = "worker", edgeReq[s].trio # NoTrio PROVE WorkerFits(s)'
    BY DEF WorkerFits, SameRequest
  <2>1. PICK k \in {"old", "new"} :
             /\ edgeReq[s].trio.sig = <<k, edgeReq[s].trio.ts, edgeReq[s].seen, edgeReq[s].target>>
             /\ KeyFits(k, edgeReq[s].trio.ts)
    BY <1>0 DEF WorkerFits
  <2>2. edgeReq[s].trio.ts \in Nat /\ edgeReq[s].trio.ts <= edgeNow
    BY <1>0 DEF WorkerFits
  <2>3. PICK ts \in Nat : ts = edgeReq[s].trio.ts
    BY <2>2
  <2>4. KeyFits(k, ts)'
    BY <1>0, <2>1, <2>3 DEF KeyFits
  <2>5. QED
    BY <1>0, <2>1, <2>2, <2>3, <2>4 DEF WorkerFits, SameRequest
<1>3. QED
  BY <1>1, <1>2

\* A step that leaves a request and what was told of it alone keeps what is known of it.
LEMMA KnownStays ==
  ASSUME EdgeInv, NEW r \in EdgeRequests, known'[r] = known[r], told'[r] = told[r], counted'[r] = counted[r],
         edgeReq[r].pc = "wire" => SameRequest(r) /\ edgeReq'[r].at = edgeReq[r].at,
         \A s \in EdgeRequests : edgeReq[s].via = "worker" => SameRequest(s)
  PROVE  KnownFits(r)'
<1>0. KnownFits(r)
  BY DEF EdgeInv
<1>1. known[r] \notin {"unknown", Socket} => Believed(r)'
  BY <1>0 DEF KnownFits, Believed, SameRequest
<1>2. QED
  BY <1>0, <1>1 DEF KnownFits, SameRequest

\* A signature determines the key, the time, the address and the target it was made for.
LEMMA SignatureIs ==
  ASSUME NEW s, NEW ts, NEW ip, NEW target
  PROVE  Signature(s, ts, ip, target) = <<s.key, ts, ip, target>>
BY DEF Signature, Normalize

\* What verifies was signed by the Worker, for this target, not long ago.
LEMMA AcceptedWasSigned ==
  ASSUME EdgeInv, NEW r \in EdgeRequests, edgeReq[r].pc = "wire", edgeReq[r].trio # NoTrio,
         Rejection(edgeReq[r].trio, edgeReq[r].target) = "none"
  PROVE  /\ edgeReq[r].trio.ip \in RealIps
         /\ \E s \in EdgeRequests :
              /\ edgeReq[s].via = "worker" /\ edgeReq[s].seen = edgeReq[r].trio.ip
              /\ edgeReq[s].target = edgeReq[r].target
              /\ edgeNow - edgeReq[s].trio.ts <= MaxSkew
         /\ edgeReq[r].via = "worker" => edgeReq[r].trio.ip = edgeReq[r].seen
<1> DEFINE t == edgeReq[r].trio
<1>0. /\ apiKeys \in Seq(Plain) /\ Len(apiKeys) \in {1, 2} /\ edgeNow \in Nat /\ edgeReq[r] \in EdgeRecords
      /\ WorkerFits(r) /\ DirectFits(r) /\ MaxSkew \in Nat
  BY EdgeConstants DEF EdgeInv, EdgeShape, KeysFit
<1>1. apiKeys # << >>
  <2>1. Len(<< >>) = 0
    OBVIOUS
  <2>2. 1 # 0 /\ 2 # 0
    OBVIOUS
  <2>3. Len(apiKeys) = 1 \/ Len(apiKeys) = 2
    BY <1>0, Zenon
  <2>4. QED
    BY <2>1, <2>2, <2>3, Zenon
<1>2. t.sig # << >> /\ ~Stale(t.ts) /\ Signed(t, edgeReq[r].target) /\ t.ip \in RealIps
  BY <1>1 DEF Rejection
<1>3. PICK i \in 1..Len(apiKeys) : t.sig = <<apiKeys[i].key, t.ts, t.ip, edgeReq[r].target>>
  BY <1>2, SignatureIs DEF Signed
<1>4. t.ts \in Nat
  BY <1>0 DEF EdgeRecords, Trios
<1>5. edgeNow - t.ts <= MaxSkew
  BY <1>0, <1>2, <1>4 DEF Stale
<1>6. CASE edgeReq[r].via = "worker"
  <2>1. t.ip = edgeReq[r].seen
    BY <1>0, <1>6 DEF WorkerFits
  <2>2. QED
    BY <1>2, <1>5, <1>6, <2>1
<1>7. CASE edgeReq[r].via = "direct"
  <2>1. PICK h \in heard : t.sig = h.sig /\ t.ts = h.ts
    BY <1>0, <1>2, <1>7 DEF DirectFits
  <2>2. PICK s \in EdgeRequests : edgeReq[s].via = "worker" /\ edgeReq[s].trio = h /\ h # NoTrio
    BY <2>1 DEF EdgeInv, HeardFits
  <2>3. PICK k \in {"old", "new"} : h.sig = <<k, h.ts, edgeReq[s].seen, edgeReq[s].target>>
    BY <2>2 DEF EdgeInv, WorkerFits
  <2>4. edgeReq[s].seen = t.ip /\ edgeReq[s].target = edgeReq[r].target
    <3>1. <<apiKeys[i].key, t.ts, t.ip, edgeReq[r].target>> = <<k, h.ts, edgeReq[s].seen, edgeReq[s].target>>
      BY <1>3, <2>1, <2>3
    <3> HIDE DEF t
    <3>2. QED
      BY <3>1
  <2>5. QED
    BY <1>2, <1>5, <1>7, <2>1, <2>2, <2>4
<1>8. QED
  BY <1>0, <1>6, <1>7 DEF DirectFits, EdgeRecords

\* A request that the Worker signs and forwards keeps the invariant.
LEMMA ForwardInv ==
  ASSUME EdgeInv, NEW r \in EdgeRequests, NEW target \in Targets, NEW ip \in Addresses, NEW brought,
         Forward(r, ip, target, brought)
  PROVE  EdgeInv'
<1> DEFINE t == Forwarded(ip, target, brought)
           e == [pc |-> "wire", target |-> target, seen |-> ip, trio |-> t, via |-> "worker", at |-> 0]
<1>0. /\ EdgeShape /\ KeysFit /\ CountFits /\ \A h \in heard : HeardFits(h)
      /\ \A o \in EdgeRequests : WorkerFits(o) /\ DirectFits(o) /\ KnownFits(o)
  BY DEF EdgeInv
<1>1. /\ edgeReq[r].pc = "new" /\ edgeReq' = [edgeReq EXCEPT ![r] = e] /\ heard' = heard \cup ({t} \ {NoTrio})
      /\ UNCHANGED <<edgeNow, workerKey, apiKeys, known, told, counted, pendingLog, logged, lastWarnAt>>
  BY DEF Forward
<1>2. t = NoTrio \/ (ip \in Usable /\ t = Trio(edgeNow, ip, <<workerKey.key, edgeNow, ip, target>>))
  BY SignatureIs DEF Forwarded
<1>3. workerKey.key \in {"old", "new"} /\ \E i \in 1..Len(apiKeys) : apiKeys[i].key = workerKey.key
  BY <1>0 DEF KeysFit, Plain
<1> HIDE DEF t
<1>4. t # NoTrio =>
        /\ t \in Trios /\ t.ts = edgeNow /\ t.ip = ip /\ ip \in Usable /\ t.sig = <<workerKey.key, edgeNow, ip, target>>
  <2> DEFINE g == <<workerKey.key, edgeNow, ip, target>>
  <2>1. workerKey.key \in Marks /\ edgeNow \in Marks /\ ip \in Marks /\ target \in Marks /\ edgeNow \in Nat
    BY <1>0, <1>3 DEF EdgeShape, Marks
  <2>2. g \in Seq(Marks)
    BY <2>1
  <2>3. t # NoTrio => ip \in Usable /\ t = [ts |-> edgeNow, ip |-> ip, sig |-> g]
    BY <1>2 DEF Trio
  <2> HIDE DEF g
  <2>4. t # NoTrio => t \in Trios /\ t.ts = edgeNow /\ t.ip = ip /\ ip \in Usable /\ t.sig = g
    BY <2>1, <2>2, <2>3 DEF Trios
  <2>5. QED
    BY <2>4 DEF g
<1>5. e \in EdgeRecords /\ e.pc = "wire" /\ e.target = target /\ e.seen = ip /\ e.trio = t /\ e.via = "worker"
  BY <1>4 DEF EdgeRecords
<1> HIDE DEF e
<1>6. EdgeShape'
  BY <1>0, <1>1, <1>4, <1>5 DEF EdgeShape
<1>7. edgeReq'[r] = e /\ \A o \in EdgeRequests : o # r => edgeReq'[o] = edgeReq[o]
  BY <1>0, <1>1 DEF EdgeShape
<1>8. edgeReq[r].via = "none"
  BY <1>0, <1>1 DEF DirectFits
<1>9. WorkerFits(r)' /\ DirectFits(r)'
  <2>1. DirectFits(r)'
    BY <1>5, <1>7 DEF DirectFits
  <2>2. PICK k \in {"old", "new"}, n \in Nat : k = workerKey.key /\ n = edgeNow
    BY <1>0, <1>3 DEF EdgeShape
  <2>3. KeyFits(k, n)'
    BY <1>1, <1>3, <2>2 DEF KeyFits
  <2>4. t # NoTrio => t \in heard' /\ t.sig = <<k, n, ip, target>> /\ t.ts = n /\ t.ip = ip /\ ip \in Usable /\ n <= edgeNow'
    BY <1>1, <1>4, <2>2
  <2>5. WorkerFits(r)'
    BY <1>5, <1>7, <2>2, <2>3, <2>4 DEF WorkerFits
  <2>6. QED
    BY <2>1, <2>5
<1>10. ASSUME NEW o \in EdgeRequests, o # r PROVE WorkerFits(o)' /\ DirectFits(o)'
  BY <1>0, <1>1, <1>7, <1>10, OthersStay DEF SameRequest, EdgeShape
<1>11. \A s \in EdgeRequests : edgeReq[s].pc = "wire" => s # r /\ SameRequest(s) /\ edgeReq'[s].at = edgeReq[s].at
  BY <1>1, <1>7 DEF SameRequest
<1>12. ASSUME NEW o \in EdgeRequests PROVE KnownFits(o)'
  <2>1. \A s \in EdgeRequests : edgeReq[s].via = "worker" => SameRequest(s)
    BY <1>0, <1>11 DEF DirectFits
  <2>2. QED
    BY <1>1, <1>11, <2>1, KnownStays
<1>13. ASSUME NEW h \in heard' PROVE HeardFits(h)'
  <2>1. CASE h = t /\ t # NoTrio
    BY <1>5, <1>7, <2>1 DEF HeardFits
  <2>2. CASE h \in heard
    <3>1. PICK s \in EdgeRequests : edgeReq[s].via = "worker" /\ edgeReq[s].trio = h /\ h # NoTrio
      BY <1>0, <2>2 DEF HeardFits
    <3>2. QED
      BY <1>7, <1>8, <3>1 DEF HeardFits
  <2>3. QED
    BY <1>1, <2>1, <2>2
<1>14. KeysFit' /\ CountFits'
  BY <1>0, <1>1 DEF KeysFit, CountFits, Counted
<1>15. QED
  BY <1>6, <1>9, <1>10, <1>12, <1>13, <1>14 DEF EdgeInv

\* A request that comes past the Worker, with headers of its own, keeps the invariant.
LEMMA DirectInv ==
  ASSUME EdgeInv, NEW r \in EdgeRequests, NEW target \in Targets, NEW trio, Direct(r, target, trio)
  PROVE  EdgeInv'
<1> DEFINE e == [pc |-> "wire", target |-> target, seen |-> "none", trio |-> trio, via |-> "direct", at |-> 0]
<1>0. /\ EdgeShape /\ KeysFit /\ CountFits /\ \A h \in heard : HeardFits(h)
      /\ \A o \in EdgeRequests : WorkerFits(o) /\ DirectFits(o) /\ KnownFits(o)
  BY DEF EdgeInv
<1>1. /\ edgeReq[r].pc = "new" /\ edgeReq' = [edgeReq EXCEPT ![r] = e] /\ trio \in Lifted
      /\ UNCHANGED <<edgeNow, workerKey, apiKeys, known, told, counted, pendingLog, logged, lastWarnAt, heard>>
  BY DEF Direct
<1>2. trio = NoTrio \/ (trio \in Trios /\ (trio.sig = << >> \/ \E h \in heard : trio.sig = h.sig /\ trio.ts = h.ts))
  <2>1. CASE trio = NoTrio
    BY <2>1
  <2>2. CASE trio \in heard
    BY <1>0, <2>2 DEF EdgeShape
  <2>3. ASSUME NEW h \in heard, NEW ip \in Addresses, trio = [h EXCEPT !.ip = ip]
        PROVE  trio \in Trios /\ trio.sig = h.sig /\ trio.ts = h.ts
    BY <1>0, <2>3 DEF EdgeShape, Trios
  <2>4. ASSUME NEW h \in heard, trio = [h EXCEPT !.sig = << >>] PROVE trio \in Trios /\ trio.sig = << >>
    <3>1. << >> \in Seq(Marks) /\ h \in Trios
      BY <1>0 DEF EdgeShape
    <3> DEFINE z == << >>
    <3>2. trio = [h EXCEPT !.sig = z] /\ z \in Seq(Marks)
      BY <2>4, <3>1
    <3> HIDE DEF z
    <3>3. trio \in Trios /\ trio.sig = z
      BY <3>1, <3>2 DEF Trios
    <3>4. QED
      BY <3>3 DEF z
  <2>5. QED
    BY <1>1, <2>1, <2>2, <2>3, <2>4 DEF Lifted
<1>5. e \in EdgeRecords /\ e.pc = "wire" /\ e.trio = trio /\ e.via = "direct"
  BY <1>2 DEF EdgeRecords
<1> HIDE DEF e
<1>6. EdgeShape'
  BY <1>0, <1>1, <1>5 DEF EdgeShape
<1>7. edgeReq'[r] = e /\ \A o \in EdgeRequests : o # r => edgeReq'[o] = edgeReq[o]
  BY <1>0, <1>1 DEF EdgeShape
<1>8. edgeReq[r].via = "none"
  BY <1>0, <1>1 DEF DirectFits
<1>9. WorkerFits(r)' /\ DirectFits(r)'
  BY <1>1, <1>2, <1>5, <1>7 DEF WorkerFits, DirectFits
<1>10. ASSUME NEW o \in EdgeRequests, o # r PROVE WorkerFits(o)' /\ DirectFits(o)'
  BY <1>0, <1>1, <1>7, <1>10, OthersStay DEF SameRequest, EdgeShape
<1>11. \A s \in EdgeRequests : edgeReq[s].pc = "wire" => s # r /\ SameRequest(s) /\ edgeReq'[s].at = edgeReq[s].at
  BY <1>1, <1>7 DEF SameRequest
<1>12. ASSUME NEW o \in EdgeRequests PROVE KnownFits(o)'
  <2>1. \A s \in EdgeRequests : edgeReq[s].via = "worker" => SameRequest(s)
    BY <1>0, <1>11 DEF DirectFits
  <2>2. QED
    BY <1>1, <1>11, <2>1, KnownStays
<1>13. ASSUME NEW h \in heard' PROVE HeardFits(h)'
  <2>1. PICK s \in EdgeRequests : edgeReq[s].via = "worker" /\ edgeReq[s].trio = h /\ h # NoTrio
    BY <1>0, <1>1 DEF HeardFits
  <2>2. QED
    BY <1>7, <1>8, <2>1 DEF HeardFits
<1>14. KeysFit' /\ CountFits'
  BY <1>0, <1>1 DEF KeysFit, CountFits, Counted
<1>15. QED
  BY <1>6, <1>9, <1>10, <1>12, <1>13, <1>14 DEF EdgeInv

\* A refusal is counted once and is either pending or logged.
LEMMA CountStep ==
  ASSUME EdgeShape, CountFits, NEW r \in EdgeRequests, counted[r] = 0, Report(r)
  PROVE  /\ CountFits' /\ counted' \in [EdgeRequests -> {0, 1}] /\ pendingLog' \in Nat /\ logged' \in Nat
         /\ \A o \in EdgeRequests : o # r => counted'[o] = counted[o]
<1> DEFINE due == edgeNow - lastWarnAt >= WarnEvery
<1>0. /\ counted \in [EdgeRequests -> {0, 1}] /\ pendingLog \in Nat /\ logged \in Nat
      /\ IsFiniteSet(Counted) /\ pendingLog + logged = Cardinality(Counted)
  BY DEF EdgeShape, CountFits
<1>1. /\ counted' = [counted EXCEPT ![r] = @ + 1]
      /\ pendingLog' = (IF due THEN 0 ELSE pendingLog + 1)
      /\ logged' = (IF due THEN logged + pendingLog + 1 ELSE logged)
  BY DEF Report
<1>2. counted' = [counted EXCEPT ![r] = 1]
  BY <1>0, <1>1
<1>3. counted' \in [EdgeRequests -> {0, 1}] /\ \A o \in EdgeRequests : o # r => counted'[o] = counted[o]
  BY <1>0, <1>2
<1>4. Counted' = Counted \cup {r} /\ r \notin Counted
  BY <1>0, <1>2 DEF Counted
<1>5. IsFiniteSet(Counted') /\ Cardinality(Counted') = Cardinality(Counted) + 1
  BY <1>0, <1>4, FS_AddElement
<1> HIDE DEF due
<1>6. /\ pendingLog' \in Nat /\ logged' \in Nat /\ pendingLog' + logged' = pendingLog + logged + 1
  BY <1>0, <1>1
<1>7. QED
  BY <1>0, <1>3, <1>5, <1>6 DEF CountFits

\* Asking for the address of a request keeps the invariant.
LEMMA EdgeAskInv ==
  ASSUME EdgeInv, NEW r \in EdgeRequests, NEW a \in Askers, AskFor(r, a)
  PROVE  EdgeInv'
<1> DEFINE ip == IF known[r] # "unknown" THEN known[r] ELSE Resolved(r)
<1>0. /\ EdgeShape /\ KeysFit /\ CountFits /\ \A h \in heard : HeardFits(h)
      /\ \A o \in EdgeRequests : WorkerFits(o) /\ DirectFits(o) /\ KnownFits(o)
  BY DEF EdgeInv
<1>1. /\ edgeReq[r].pc = "wire" /\ told[r][a] = "unasked"
      /\ told' = [told EXCEPT ![r][a] = ip] /\ known' = [known EXCEPT ![r] = ip]
      /\ UNCHANGED <<edgeNow, workerKey, apiKeys, heard>>
  BY DEF AskFor, Memo
<1>2. /\ edgeReq' = (IF known[r] = "unknown" THEN [edgeReq EXCEPT ![r].at = edgeNow] ELSE edgeReq)
      /\ \/ known[r] = "unknown" /\ Report(r)
         \/ UNCHANGED <<counted, pendingLog, logged, lastWarnAt>>
  BY DEF AskFor, Memo
<1>3. /\ Resolved(r) \in {Socket} \cup Addresses
      /\ Resolved(r) # Socket =>
           /\ edgeReq[r].trio # NoTrio /\ Rejection(edgeReq[r].trio, edgeReq[r].target) = "none"
           /\ Resolved(r) = edgeReq[r].trio.ip
  <2>1. edgeReq[r].trio = NoTrio \/ edgeReq[r].trio.ip \in Addresses
    BY <1>0 DEF EdgeShape, EdgeRecords, Trios
  <2>2. QED
    BY <2>1 DEF Resolved
<1>4. ip \in {Socket} \cup Addresses /\ ip # "unknown" /\ ip # "unasked"
  BY <1>0, <1>3, EdgeConstants DEF EdgeShape
<1>5. known[r] = "unknown" /\ ip # Socket =>
        /\ ip \in RealIps
        /\ \E s \in EdgeRequests :
              /\ edgeReq[s].via = "worker" /\ edgeReq[s].seen = ip /\ edgeReq[s].target = edgeReq[r].target
              /\ edgeNow - edgeReq[s].trio.ts <= MaxSkew
        /\ edgeReq[r].via = "worker" => ip = edgeReq[r].seen
  BY <1>1, <1>3, AcceptedWasSigned
<1>6. known[r] # "unknown" => ip = known[r]
  OBVIOUS
<1> HIDE DEF ip
<1>7. /\ counted' \in [EdgeRequests -> {0, 1}] /\ pendingLog' \in Nat /\ logged' \in Nat /\ CountFits'
      /\ \A o \in EdgeRequests : o # r => counted'[o] = counted[o]
  <2>1. CASE known[r] = "unknown" /\ Report(r)
    <3>1. counted[r] = 0
      BY <1>0, <2>1 DEF KnownFits
    <3>2. QED
      BY <1>0, <2>1, <3>1, CountStep
  <2>2. CASE UNCHANGED <<counted, pendingLog, logged, lastWarnAt>>
    BY <1>0, <2>2 DEF EdgeShape, CountFits, Counted
  <2>3. QED
    BY <1>2, <2>1, <2>2
<1>8. /\ edgeReq' \in [EdgeRequests -> EdgeRecords] /\ \A s \in EdgeRequests : SameRequest(s)
      /\ \A s \in EdgeRequests : s # r \/ known[r] # "unknown" => edgeReq'[s].at = edgeReq[s].at
      /\ known[r] = "unknown" => edgeReq'[r].at = edgeNow
  <2>1. edgeReq \in [EdgeRequests -> EdgeRecords] /\ edgeNow \in Nat
    BY <1>0 DEF EdgeShape
  <2>2. CASE known[r] = "unknown"
    <3>1. edgeReq' = [edgeReq EXCEPT ![r].at = edgeNow]
      BY <1>2, <2>2
    <3>2. QED
      BY <2>1, <2>2, <3>1 DEF EdgeRecords, SameRequest
  <2>3. CASE known[r] # "unknown"
    BY <1>2, <2>1, <2>3 DEF SameRequest
  <2>4. QED
    BY <2>2, <2>3
<1>9. /\ known'[r] = ip /\ told'[r][a] = ip /\ \A b \in Askers : b # a => told'[r][b] = told[r][b]
      /\ \A o \in EdgeRequests : o # r => known'[o] = known[o] /\ told'[o] = told[o]
      /\ known' \in [EdgeRequests -> {"unknown", Socket} \cup Addresses]
      /\ told' \in [EdgeRequests -> [Askers -> {"unasked", Socket} \cup Addresses]]
  BY <1>0, <1>1, <1>4 DEF EdgeShape
<1>10. EdgeShape'
  BY <1>0, <1>1, <1>7, <1>8, <1>9 DEF EdgeShape
<1>11. KnownFits(r)'
  <2>1. \A b \in Askers : told'[r][b] = "unasked" \/ told'[r][b] = ip
    BY <1>0, <1>6, <1>9 DEF KnownFits
  <2>2. ip # Socket => Believed(r)'
    <3>1. CASE known[r] = "unknown"
      BY <1>5, <1>8, <1>9, <3>1 DEF Believed, SameRequest
    <3>2. CASE known[r] # "unknown"
      <4>1. ip # Socket => Believed(r)
        BY <1>0, <1>6, <3>2 DEF KnownFits
      <4>2. QED
        BY <1>6, <1>8, <1>9, <3>2, <4>1 DEF Believed, SameRequest
    <3>3. QED
      BY <3>1, <3>2
  <2>3. QED
    BY <1>1, <1>4, <1>8, <1>9, <2>1, <2>2 DEF KnownFits, SameRequest
<1>12. ASSUME NEW o \in EdgeRequests, o # r PROVE KnownFits(o)'
  BY <1>7, <1>8, <1>9, <1>12, KnownStays
<1>13. ASSUME NEW o \in EdgeRequests PROVE WorkerFits(o)' /\ DirectFits(o)'
  BY <1>0, <1>1, <1>8, OthersStay DEF EdgeShape
<1>14. \A h \in heard' : HeardFits(h)'
  BY <1>0, <1>1, <1>8 DEF HeardFits, SameRequest
<1>15. KeysFit'
  BY <1>0, <1>1 DEF KeysFit
<1>16. QED
  BY <1>7, <1>10, <1>11, <1>12, <1>13, <1>14, <1>15 DEF EdgeInv

\* A step that only changes the keys, so that what was signed still verifies or is stale.
LEMMA RotationInv ==
  ASSUME EdgeInv, AddSecret \/ SwitchWorker \/ DropSecret
  PROVE  EdgeInv'
<1>0. /\ EdgeShape /\ KeysFit /\ CountFits /\ \A h \in heard : HeardFits(h) /\ h \in Trios
      /\ \A o \in EdgeRequests : WorkerFits(o) /\ DirectFits(o) /\ KnownFits(o)
      /\ edgeReq \in [EdgeRequests -> EdgeRecords]
  BY DEF EdgeInv, EdgeShape
<1>1. UNCHANGED <<edgeNow, edgeReq, known, told, counted, pendingLog, logged, lastWarnAt, heard>>
  BY DEF AddSecret, SwitchWorker, DropSecret
<1>2. KeysFit'
  <2>1. CASE AddSecret
    <3>1. PICK pad \in BOOLEAN : apiKeys' = <<[key |-> "new", padded |-> pad], apiKeys[1]>>
      BY <2>1 DEF AddSecret
    <3> DEFINE n == [key |-> "new", padded |-> pad]
               o == apiKeys[1]
    <3>6. n \in Plain /\ n.key = "new"
      BY DEF Plain
    <3>8. apiKeys \in Seq(Plain) /\ Len(apiKeys) = 1 /\ apiKeys[1].key = "old"
      BY <1>0, <2>1 DEF AddSecret, KeysFit
    <3>9. apiKeys[1] \in Plain
      BY <3>8, FirstOf
    <3>7. o \in Plain /\ o.key = "old"
      BY <3>8, <3>9
    <3>2. n \in Plain /\ n.key = "new" /\ o \in Plain /\ o.key = "old"
      BY <3>6, <3>7
    <3>3. apiKeys' = <<n, o>> /\ workerKey' = workerKey
      BY <2>1, <3>1 DEF AddSecret
    <3> HIDE DEF n, o
    <3>4. apiKeys' \in Seq(Plain) /\ Len(apiKeys') = 2 /\ apiKeys'[1] = n /\ apiKeys'[2] = o
      BY <3>2, <3>3
    <3>5. QED
      BY <1>0, <3>2, <3>3, <3>4 DEF KeysFit
  <2>2. CASE SwitchWorker
    <3>1. PICK pad \in BOOLEAN : workerKey' = [key |-> "new", padded |-> pad]
      BY <2>2 DEF SwitchWorker
    <3>2. workerKey' \in Plain
      BY <3>1 DEF Plain
    <3>3. QED
      BY <1>0, <2>2, <3>2 DEF SwitchWorker, KeysFit
  <2>3. CASE DropSecret
    <3> DEFINE n == apiKeys[1]
    <3>1. /\ n \in Plain /\ n.key = "new" /\ workerKey.key = "new"
          /\ apiKeys' = <<n>> /\ workerKey' = workerKey
      BY <1>0, <2>3 DEF DropSecret, KeysFit
    <3> HIDE DEF n
    <3>2. apiKeys' \in Seq(Plain) /\ Len(apiKeys') = 1 /\ apiKeys'[1] = n
      BY <3>1
    <3>3. QED
      BY <1>0, <3>1, <3>2 DEF KeysFit
  <2>4. QED
    BY <2>1, <2>2, <2>3
<1>3. ASSUME NEW h \in heard, NEW k \in {"old", "new"}, h.sig[1] = k, h.ts \in Nat, h.ts <= edgeNow, KeyFits(k, h.ts)
      PROVE  KeyFits(k, h.ts)'
  <2>1. CASE AddSecret
    <3> DEFINE o == apiKeys[1]
    <3>1. PICK pad \in BOOLEAN : apiKeys' = <<[key |-> "new", padded |-> pad], o>>
      BY <2>1 DEF AddSecret
    <3> DEFINE n == [key |-> "new", padded |-> pad]
    <3>2. n.key = "new" /\ o.key = "old" /\ apiKeys' = <<n, o>>
      BY <2>1, <3>1 DEF AddSecret
    <3> HIDE DEF n, o
    <3>3. Len(apiKeys') = 2 /\ apiKeys'[1] = n /\ apiKeys'[2] = o
      BY <3>2
    <3>4. QED
      BY <3>2, <3>3 DEF KeyFits
  <2>2. CASE SwitchWorker
    BY <1>1, <1>3, <2>2 DEF SwitchWorker, KeyFits
  <2>3. CASE DropSecret
    <3> DEFINE n == apiKeys[1]
    <3>1. /\ n.key = "new" /\ apiKeys[2].key = "old" /\ apiKeys' = <<n>>
          /\ h.sig[1] = "old" => Stale(h.ts)
      BY <1>0, <2>3 DEF DropSecret, KeysFit, Normalize
    <3> HIDE DEF n
    <3>2. Len(apiKeys') = 1 /\ apiKeys'[1] = n
      BY <3>1
    <3>3. Stale(h.ts) => edgeNow - h.ts > MaxSkew
      BY <1>0, <1>3, EdgeConstants DEF Stale, EdgeShape
    <3>4. QED
      BY <1>1, <1>3, <3>1, <3>2, <3>3 DEF KeyFits
  <2>4. QED
    BY <2>1, <2>2, <2>3
<1>4. ASSUME NEW s \in EdgeRequests PROVE WorkerFits(s)'
  <2> SUFFICES ASSUME edgeReq[s].via = "worker", edgeReq[s].trio # NoTrio PROVE WorkerFits(s)'
    BY <1>1 DEF WorkerFits
  <2>1. WorkerFits(s)
    BY <1>0
  <2>2. PICK k \in {"old", "new"} :
             /\ edgeReq[s].trio.sig = <<k, edgeReq[s].trio.ts, edgeReq[s].seen, edgeReq[s].target>>
             /\ KeyFits(k, edgeReq[s].trio.ts)
    BY <2>1 DEF WorkerFits
  <2>3. PICK h \in heard : h = edgeReq[s].trio
    BY <2>1 DEF WorkerFits
  <2>4. h.sig[1] = k /\ h.ts \in Nat /\ h.ts <= edgeNow /\ KeyFits(k, h.ts)
    BY <2>1, <2>2, <2>3 DEF WorkerFits
  <2>5. KeyFits(k, h.ts)'
    BY <1>3, <2>4
  <2>6. QED
    BY <1>1, <2>1, <2>2, <2>3, <2>5 DEF WorkerFits
<1>5. \A o \in EdgeRequests : DirectFits(o)' /\ KnownFits(o)'
  BY <1>0, <1>1 DEF DirectFits, KnownFits, Believed
<1>6. EdgeShape' /\ CountFits' /\ \A h \in heard' : HeardFits(h)'
  BY <1>0, <1>1 DEF EdgeShape, CountFits, Counted, HeardFits
<1>7. QED
  BY <1>2, <1>4, <1>5, <1>6 DEF EdgeInv

\* Every step keeps the invariant of the signed address.
LEMMA EdgeStepInv == EdgeInv /\ [EdgeNext]_edgeVars => EdgeInv'
<1> SUFFICES ASSUME EdgeInv, [EdgeNext]_edgeVars PROVE EdgeInv'
  OBVIOUS
<1>0. /\ EdgeShape /\ KeysFit /\ CountFits /\ \A h \in heard : HeardFits(h)
  BY DEF EdgeInv
<1>1. CASE EdgeTick \/ UNCHANGED edgeVars
  <2>1. /\ edgeNow' \in Nat /\ edgeNow' >= edgeNow
        /\ UNCHANGED <<workerKey, apiKeys, edgeReq, known, told, counted, pendingLog, logged, lastWarnAt, heard>>
    BY <1>0, <1>1 DEF EdgeTick, edgeVars, EdgeShape
  <2>2. ASSUME NEW o \in EdgeRequests PROVE SameRequest(o) /\ edgeReq'[o].at = edgeReq[o].at
    BY <2>1 DEF SameRequest
  <2>3. ASSUME NEW o \in EdgeRequests PROVE WorkerFits(o)' /\ DirectFits(o)' /\ KnownFits(o)'
    BY <2>1, <2>2, OthersStay, KnownStays
  <2>4. EdgeShape' /\ KeysFit' /\ CountFits' /\ \A h \in heard' : HeardFits(h)'
    BY <1>0, <2>1 DEF EdgeShape, KeysFit, CountFits, Counted, HeardFits
  <2>5. QED
    BY <2>3, <2>4 DEF EdgeInv
<1>2. QED
  BY <1>1, ForwardInv, DirectInv, EdgeAskInv, RotationInv DEF EdgeNext

\* The invariant gives that an address that is believed was signed for this request.
LEMMA EdgeInvSafe == EdgeInv => EdgeSafe
<1> SUFFICES ASSUME EdgeInv PROVE EdgeSafe
  OBVIOUS
<1>0. /\ EdgeShape /\ KeysFit /\ CountFits
      /\ \A o \in EdgeRequests : WorkerFits(o) /\ DirectFits(o) /\ KnownFits(o)
  BY DEF EdgeInv
<1>1. EdgeTypeOK
  BY <1>0 DEF EdgeShape, KeysFit, KnownFits, EdgeTypeOK
<1>2. AskersAgree
  BY <1>0 DEF KnownFits, AskersAgree
<1>3. BelievedWasSigned
  BY <1>0, EdgeConstants DEF KnownFits, Believed, BelievedWasSigned
<1>4. EveryRefusalCounted
  <2>1. \A r \in EdgeRequests : counted[r] <= 1
    BY <1>0 DEF EdgeShape
  <2>2. QED
    BY <1>0, <2>1 DEF CountFits, Counted, EveryRefusalCounted
<1>5. RotationSeamless
  <2> SUFFICES ASSUME NEW r \in EdgeRequests, edgeReq[r].via = "worker", edgeReq[r].trio # NoTrio
               PROVE  Rejection(edgeReq[r].trio, edgeReq[r].target) \in {"none", "stale", "not_ip"}
    BY DEF RotationSeamless
  <2> DEFINE t == edgeReq[r].trio
  <2>1. /\ t.ip = edgeReq[r].seen /\ t.ip \in Usable /\ t.ts \in Nat /\ t.ts <= edgeNow
        /\ \E k \in {"old", "new"} : t.sig = <<k, t.ts, edgeReq[r].seen, edgeReq[r].target>> /\ KeyFits(k, t.ts)
    BY <1>0 DEF WorkerFits
  <2>2. PICK k \in {"old", "new"} : t.sig = <<k, t.ts, t.ip, edgeReq[r].target>> /\ KeyFits(k, t.ts)
    BY <2>1
  <2>3. t.sig # << >>
    <3>1. Len(<<k, t.ts, t.ip, edgeReq[r].target>>) = 4 /\ Len(<< >>) = 0
      OBVIOUS
    <3>2. QED
      BY <2>2, <3>1
  <2>4. Stale(t.ts) \/ Signed(t, edgeReq[r].target)
    <3>1. CASE \E i \in 1..Len(apiKeys) : apiKeys[i].key = k
      BY <2>2, <3>1, SignatureIs DEF Signed
    <3>2. CASE edgeNow - t.ts > MaxSkew
      BY <3>2 DEF Stale
    <3>3. QED
      BY <2>2, <3>1, <3>2 DEF KeyFits
  <2> HIDE DEF t
  <2>5. Rejection(t, edgeReq[r].target) \in {"none", "stale", "not_ip"}
    BY <2>1, <2>3, <2>4 DEF Rejection
  <2>6. QED
    BY <2>5 DEF t
<1>6. QED
  BY <1>1, <1>2, <1>3, <1>4, <1>5 DEF EdgeSafe

\* For any addresses, targets and requests: an address that is believed was signed by the Worker for this
\* target within the tolerance, all who ask of a request get one answer, each refusal is counted once,
\* and a rotation of the secret in three moves refuses nothing that the Worker signed.
THEOREM EdgeHolds == EdgeSpec => []EdgeSafe
<1>1. EdgeInit => EdgeInv
  BY EdgeInitInv
<1>2. EdgeInv /\ [EdgeNext]_edgeVars => EdgeInv'
  BY EdgeStepInv
<1>3. EdgeInv => EdgeSafe
  BY EdgeInvSafe
<1>4. QED
  BY <1>1, <1>2, <1>3, PTL DEF EdgeSpec

-----------------------------------------------------------------------------
(***************************************************************************)
(* HttpRequest, for any requests, visitors, limits and clocks: a request   *)
(* that does not move keeps its facts, and every admission younger than    *)
(* the span still has its entry in the window.                             *)
(***************************************************************************)

HttpIds  == {"none", "bootstrap", "unknown"} \cup ({"supplied", "generated"} \X Requests)
Contexts == [id : HttpIds, user : Callers \cup {NoCaller}, tenant : {"none", "tenant"}]
Replies  == [header : HttpIds, status : Nat, bodyId : HttpIds, key : Keys \cup {"none"}, calledAt : Nat]
HttpShape ==
    /\ setup \in Setups /\ visitor \in [Requests -> Visitors] /\ boot \in {"starting", "up", "refused"}
    /\ stage \in [Requests -> {"new", "product", "session", "ban", "hook", "limit", "consume", "handler", "done"}]
    /\ holds \in [Requests -> Requests \cup {Ambient, NoCaller}]
    /\ context \in [Requests \cup {Ambient} -> Contexts] /\ reply \in [Requests -> Replies]
    /\ httpNow \in Nat /\ failOpens \subseteq Requests \cup {"boot"}

BootFits == (boot = "up" => BootOK(setup)) /\ (boot # "up" => \A r \in Requests : stage[r] = "new")

Guarded(r) == visitor[r].route = "guarded"
PassedSession(r) == stage[r] = "handler" \/ (setup.first = "session" /\ stage[r] \in {"limit", "consume"})
PassedLimit(r) == stage[r] = "handler" \/ (setup.first = "limit" /\ stage[r] \in {"session", "ban", "hook"})

\* A context of its own: the request's id, and nobody's name but its caller's.
Own(r) == {a \in admitted : a.key = visitor[r].caller /\ visitor[a.of].caller = visitor[r].caller}
SeededFits(r) ==
    /\ stage[r] # "new" => holds[r] = r /\ context[r].id = reply[r].header
    /\ context[r].user \in {NoCaller, visitor[r].caller}
    /\ reply[r].status \notin {0, 200} => reply[r].bodyId = reply[r].header
    /\ stage[r] = "ban" \/ (PassedSession(r) /\ Guarded(r)) =>
         context[r].user = visitor[r].caller /\ visitor[r].caller # NoCaller
    /\ stage[r] = "consume" => reply[r].key \in {"address", visitor[r].caller}
    /\ stage[r] = "consume" /\ setup.first = "session" /\ Guarded(r) => reply[r].key = visitor[r].caller
    /\ reply[r].status = 429 /\ setup.first = "session" /\ Guarded(r) => Cardinality(Own(r)) >= Limit

StageFits(r) ==
    /\ stage[r] = "done" <=> reply[r].status # 0
    /\ holds[r] \in {r, Ambient, NoCaller}
    /\ stage[r] = "ban" => visitor[r].cred = "mark"
    /\ stage[r] = "hook" => visitor[r].cred = "cookie"
    /\ PassedSession(r) /\ Guarded(r) => visitor[r].cred \in {"cookie", "mark"}
    /\ setup.production /\ setup.mode # "edge-only" /\ visitor[r].route # "skipped" /\ PassedLimit(r) =>
         r \in failOpens \/ \E a \in admitted : a.of = r
    /\ stage[r] = "consume" => reply[r].calledAt <= httpNow /\ httpNow <= reply[r].calledAt + EvalTime /\ reply[r].key \in Keys
    /\ (\E a \in admitted : a.of = r) => PassedLimit(r) \/ stage[r] = "done"

LinesFit ==
    setup.seeded => \A l \in lines :
        /\ l.of \in Requests /\ stage[l.of] # "new"
        /\ l.id = reply[l.of].header /\ l.user \in {NoCaller, visitor[l.of].caller}

\* Every admission younger than the guarded span still has its entry in the window.
Span == Window - ClockSkew - EvalTime
Entries == [key : Keys, score : Int, of : Requests]
Admissions == [key : Keys, at : Nat, of : Requests]
StillThere(a) ==
    \/ httpNow - a.at >= Span
    \/ /\ \E e \in window : e.of = a.of /\ e.key = a.key /\ e.score >= a.at - EvalTime
       /\ expires[a.key] >= a.at + Window
WindowFits ==
    /\ IsFiniteSet(window) /\ window \subseteq Entries /\ IsFiniteSet(admitted) /\ admitted \subseteq Admissions
    /\ expires \in [Keys -> Nat] /\ \A k \in Keys : expires[k] <= httpNow + Window
    /\ \A a, b \in admitted : a.of = b.of => a = b
    /\ \A e, f \in window : e.of = f.of => e = f
    /\ \A e \in window : \E a \in admitted : a.of = e.of /\ a.key = e.key
    /\ setup.seeded => \A e \in window : e.key \in {"address", visitor[e.of].caller}
    /\ \A a \in admitted : a.at <= httpNow /\ StillThere(a)

HttpInv ==
    /\ HttpShape /\ BootFits /\ LinesFit /\ WindowFits /\ WindowHolds
    /\ \A r \in Requests : StageFits(r) /\ (setup.seeded => SeededFits(r))

\* What the assumption says of the limit, the clocks and the set-ups.
LEMMA HttpConstants ==
  /\ Limit \in Nat \ {0} /\ Window \in Nat /\ ClockSkew \in Nat /\ EvalTime \in Nat /\ HttpLastTime \in Nat
  /\ Ambient \notin Requests /\ NoCaller \notin Requests /\ NoCaller # Ambient
  /\ \A s \in Setups : s.first \in {"session", "limit"} /\ s.mode \in {"cache", "disabled", "edge-only"}
  /\ \A v \in Visitors : /\ v.skew \in 0..ClockSkew /\ v.caller # "address" /\ v.caller \in Callers \cup {NoCaller}
                         /\ v.cred = "cookie" => v.caller # NoCaller
BY HttpAssumption DEF Callers

\* A set that is mapped one to one into a finite set is finite and no larger.
LEMMA InjectionBounds ==
  ASSUME NEW S, NEW T, IsFiniteSet(T), NEW f \in [S -> T], \A a, b \in S : f[a] = f[b] => a = b
  PROVE  Cardinality(S) <= Cardinality(T) /\ IsFiniteSet(S)
<1>1. f \in Injection(S, T)
  BY DEF Injection, IsInjective
<1>2. QED
  BY <1>1, FS_Injection

\* The order of the guards in each set-up.
LEMMA AfterIs ==
  ASSUME HttpShape
  PROVE  /\ setup.first = "session" \/ setup.first = "limit"
         /\ setup.first = "session" => After("session") = "limit" /\ After("limit") = "handler"
         /\ setup.first = "limit" => After("session") = "handler" /\ After("limit") = "session"
BY HttpConstants DEF HttpShape, After

\* Initially no request was made and no limit drawn on.
LEMMA HttpInitInv == HttpInit => HttpInv
<1> SUFFICES ASSUME HttpInit PROVE HttpInv
  OBVIOUS
<1> DEFINE p == [header |-> "none", status |-> 0, bodyId |-> "none", key |-> "none", calledAt |-> 0]
           c(x) == [Blank EXCEPT !.id = IF x = Ambient THEN "bootstrap" ELSE "none"]
<1>1. p \in Replies /\ p.status = 0
  BY DEF Replies, HttpIds
<1>2. \A x : c(x) \in Contexts /\ c(x).user = NoCaller
  BY DEF Contexts, HttpIds, Blank
<1>3. /\ reply = [r \in Requests |-> p] /\ context = [x \in Requests \cup {Ambient} |-> c(x)]
      /\ setup \in Setups /\ visitor \in [Requests -> Visitors] /\ boot = "starting" /\ httpNow = 0
      /\ stage = [r \in Requests |-> "new"] /\ holds = [r \in Requests |-> NoCaller]
      /\ lines = {} /\ window = {} /\ expires = [k \in Keys |-> 0] /\ admitted = {} /\ failOpens = {}
  BY DEF HttpInit
<1> HIDE DEF p, c
<1>4. HttpShape
  BY <1>1, <1>2, <1>3 DEF HttpShape
<1>5. BootFits /\ LinesFit
  BY <1>3 DEF BootFits, LinesFit
<1>6. WindowFits
  BY <1>3, FS_EmptySet, HttpConstants DEF WindowFits
<1>7. WindowHolds
  <2> SUFFICES ASSUME NEW burst \in SUBSET admitted, Cardinality(burst) = Limit + 1 PROVE FALSE
    BY DEF WindowHolds
  <2>1. burst = {} /\ Cardinality({}) = 0
    BY <1>3, FS_EmptySet
  <2>2. QED
    BY <2>1, HttpConstants
<1>8. ASSUME NEW r \in Requests PROVE StageFits(r) /\ SeededFits(r)
  BY <1>1, <1>2, <1>3 DEF StageFits, SeededFits, PassedSession, PassedLimit
<1>9. QED
  BY <1>4, <1>5, <1>6, <1>7, <1>8 DEF HttpInv

\* A request that does not move keeps its facts.
LEMMA OtherKept ==
  ASSUME HttpInv, NEW o \in Requests, UNCHANGED <<setup, visitor>>,
         stage'[o] = stage[o], holds'[o] = holds[o], reply'[o] = reply[o], context'[o] = context[o],
         failOpens \subseteq failOpens', admitted \subseteq admitted', IsFiniteSet(admitted'),
         \A a \in admitted' : a.of = o => a \in admitted,
         stage[o] = "consume" => httpNow' >= reply[o].calledAt /\ httpNow' <= reply[o].calledAt + EvalTime
  PROVE  StageFits(o)' /\ (setup'.seeded => SeededFits(o)')
<1>0. StageFits(o) /\ (setup.seeded => SeededFits(o))
  BY DEF HttpInv
<1>1. PassedSession(o)' = PassedSession(o) /\ PassedLimit(o)' = PassedLimit(o) /\ Guarded(o)' = Guarded(o)
  BY DEF PassedSession, PassedLimit, Guarded
<1>2. StageFits(o)'
  BY <1>0, <1>1 DEF StageFits
<1>3. Cardinality(Own(o)) >= Limit => Cardinality(Own(o)') >= Limit
  <2>1. Own(o) \subseteq Own(o)' /\ Own(o)' \subseteq admitted'
    BY DEF Own
  <2>2. IsFiniteSet(Own(o)') /\ Cardinality(Own(o)) <= Cardinality(Own(o)') /\ IsFiniteSet(Own(o))
    BY <2>1, FS_Subset
  <2>3. Cardinality(Own(o)) \in Nat /\ Cardinality(Own(o)') \in Nat
    BY <2>2, FS_CardinalityType
  <2>4. QED
    BY <2>2, <2>3, HttpConstants
<1>4. setup.seeded => SeededFits(o)'
  BY <1>0, <1>1, <1>3 DEF SeededFits
<1>5. QED
  BY <1>2, <1>4

\* A step of one request that leaves the windows alone.
LEMMA RequestMoves ==
  ASSUME HttpInv, NEW r \in Requests, boot = "up" \/ stage[r] # "new",
         UNCHANGED <<setup, visitor, boot, window, expires, admitted, httpNow>>,
         HttpShape', failOpens \subseteq failOpens', LinesFit',
         \A o \in Requests : o # r => /\ stage'[o] = stage[o] /\ holds'[o] = holds[o] /\ reply'[o] = reply[o]
                                      /\ context'[o] = context[o],
         StageFits(r)', setup.seeded => SeededFits(r)'
  PROVE  HttpInv'
<1>0. /\ HttpShape /\ BootFits /\ LinesFit /\ WindowFits /\ WindowHolds
      /\ \A o \in Requests : StageFits(o)
  BY DEF HttpInv
<1>1. ASSUME NEW o \in Requests, o # r PROVE StageFits(o)' /\ (setup'.seeded => SeededFits(o)')
  <2>1. IsFiniteSet(admitted')
    BY <1>0 DEF WindowFits
  <2>2. stage[o] = "consume" => httpNow' >= reply[o].calledAt /\ httpNow' <= reply[o].calledAt + EvalTime
    BY <1>0 DEF StageFits
  <2>3. QED
    BY <1>1, <2>1, <2>2, OtherKept
<1>2. BootFits'
  BY <1>0 DEF BootFits
<1>3. WindowFits'
  BY <1>0 DEF WindowFits, StillThere
<1>4. WindowHolds'
  BY <1>0 DEF WindowHolds
<1>5. QED
  BY <1>1, <1>2, <1>3, <1>4 DEF HttpInv

\* A request has a correlation id and an identity of their shapes.
LEMMA IdentityType ==
  ASSUME HttpShape, NEW r \in Requests
  PROVE  IdOf(r) \in HttpIds /\ UserOf(r) \in Callers \cup {NoCaller}
<1>1. holds[r] = NoCaller \/ (holds[r] \in Requests \cup {Ambient} /\ context[holds[r]] \in Contexts)
  BY DEF HttpShape
<1>2. QED
  BY <1>1 DEF IdOf, UserOf, Contexts, HttpIds

\* In a context of its own a request is itself.
LEMMA IdentityIs ==
  ASSUME HttpInv, NEW r \in Requests, stage[r] # "new", setup.seeded
  PROVE  /\ IdOf(r) = reply[r].header /\ UserOf(r) = context[r].user
         /\ UserOf(r) \in {NoCaller, visitor[r].caller} /\ holds[r] = r
<1>1. SeededFits(r) /\ NoCaller \notin Requests
  BY HttpConstants DEF HttpInv
<1>2. QED
  BY <1>1 DEF SeededFits, IdOf, UserOf

\* Lines of the request that moves.
LEMMA LinesGrow ==
  ASSUME HttpInv, NEW r \in Requests, stage[r] # "new", UNCHANGED <<setup, visitor>>,
         \A l \in lines' : l \in lines \/ (l.of = r /\ l.id = IdOf(r) /\ l.user \in {NoCaller, UserOf(r)}),
         \A o \in Requests : stage[o] # "new" => stage'[o] # "new" /\ reply'[o].header = reply[o].header
  PROVE  LinesFit'
<1> SUFFICES ASSUME setup.seeded, NEW l \in lines'
             PROVE  /\ l.of \in Requests /\ stage'[l.of] # "new"
                    /\ l.id = reply'[l.of].header /\ l.user \in {NoCaller, visitor[l.of].caller}
  BY DEF LinesFit
<1>1. CASE l \in lines
  <2>1. /\ l.of \in Requests /\ stage[l.of] # "new"
        /\ l.id = reply[l.of].header /\ l.user \in {NoCaller, visitor[l.of].caller}
    BY <1>1 DEF HttpInv, LinesFit
  <2>2. QED
    BY <2>1
<1>2. CASE l.of = r /\ l.id = IdOf(r) /\ l.user \in {NoCaller, UserOf(r)}
  BY <1>2, IdentityIs
<1>3. QED
  BY <1>1, <1>2

\* A request that ends with an error keeps to its own id.
LEMMA CaughtIs ==
  ASSUME HttpInv, NEW r \in Requests, stage[r] # "new", NEW kind, NEW status \in Nat \ {0, 200}, NEW before,
         Caught(r, kind, status, before),
         \A l \in before : l.of = r /\ l.id = IdOf(r) /\ l.user \in {NoCaller, UserOf(r)},
         UNCHANGED <<setup, visitor, boot, holds, context, failOpens, httpNow, admitted>>,
         status = 429 /\ setup.seeded /\ setup.first = "session" /\ Guarded(r) => Cardinality(Own(r)) >= Limit
  PROVE  /\ HttpShape' /\ LinesFit' /\ StageFits(r)' /\ (setup.seeded => SeededFits(r)')
         /\ \A o \in Requests : o # r => stage'[o] = stage[o] /\ reply'[o] = reply[o]
<1> DEFINE id == IdOf(r)
<1>0. HttpShape /\ StageFits(r) /\ (setup.seeded => SeededFits(r))
  BY DEF HttpInv
<1>1. /\ stage' = [stage EXCEPT ![r] = "done"]
      /\ reply' = [reply EXCEPT ![r].status = status, ![r].bodyId = id]
  BY DEF Caught
<1>2. id \in HttpIds /\ reply \in [Requests -> Replies]
  BY <1>0, IdentityType DEF HttpShape
<1> HIDE DEF id
<1>3. /\ reply' \in [Requests -> Replies] /\ \A o \in Requests : o # r => reply'[o] = reply[o]
      /\ reply'[r].status = status /\ reply'[r].bodyId = id /\ reply'[r].header = reply[r].header
  <2> DEFINE q == [reply[r] EXCEPT !.status = status, !.bodyId = id]
  <2>1. reply[r] \in Replies /\ status \in Nat
    BY <1>2
  <2>2. q \in Replies /\ q.status = status /\ q.bodyId = id /\ q.header = reply[r].header
    BY <1>2, <2>1 DEF Replies
  <2>3. reply' = [reply EXCEPT ![r] = q]
    BY <1>1, <1>2
  <2> HIDE DEF q
  <2>4. QED
    BY <1>2, <2>2, <2>3
<1>4. /\ stage'[r] = "done" /\ \A o \in Requests : o # r => stage'[o] = stage[o]
      /\ stage' \in [Requests -> {"new", "product", "session", "ban", "hook", "limit", "consume", "handler", "done"}]
  BY <1>0, <1>1 DEF HttpShape
<1>5. HttpShape'
  BY <1>0, <1>3, <1>4 DEF HttpShape
<1>6. \A l \in lines' : l \in lines \/ (l.of = r /\ l.id = IdOf(r) /\ l.user \in {NoCaller, UserOf(r)})
  <2>1. \A k : \A u \in {NoCaller, UserOf(r)} : /\ Line(r, k, status, u).of = r /\ Line(r, k, status, u).id = IdOf(r)
                                                 /\ Line(r, k, status, u).user = u
    BY DEF Line
  <2>2. lines' = lines \cup before \cup
           (IF status \in SecurityStatus THEN {Line(r, "security", status, IF kind = "domain" THEN UserOf(r) ELSE NoCaller)}
            ELSE IF kind = "unhandled" THEN {Line(r, "unhandled", status, NoCaller)} ELSE {})
    BY DEF Caught
  <2> DEFINE u == IF kind = "domain" THEN UserOf(r) ELSE NoCaller
  <2>3. u \in {NoCaller, UserOf(r)}
    OBVIOUS
  <2>4. \A l \in lines' : l \in lines \/ l \in before \/ l = Line(r, "security", status, u) \/ l = Line(r, "unhandled", status, NoCaller)
    BY <2>2
  <2> HIDE DEF u
  <2>5. QED
    BY <2>1, <2>3, <2>4
<1>7. LinesFit'
  BY <1>3, <1>4, <1>6, LinesGrow
<1>8. StageFits(r)'
  BY <1>0, <1>3, <1>4 DEF StageFits, PassedSession, PassedLimit
<1>9. ASSUME setup.seeded PROVE SeededFits(r)'
  <2>1. id = reply[r].header /\ holds[r] = r
    BY <1>9, IdentityIs DEF id
  <2>2. Own(r)' = Own(r) /\ Guarded(r)' = Guarded(r)
    BY DEF Own, Guarded
  <2>3. SeededFits(r)
    BY <1>0, <1>9
  <2>4. QED
    BY <1>3, <1>4, <1>9, <2>1, <2>2, <2>3 DEF SeededFits, PassedSession
<1>10. QED
  BY <1>3, <1>4, <1>5, <1>7, <1>8, <1>9

\* The exception filter, whatever was thrown, keeps the invariant.
LEMMA CaughtInv ==
  ASSUME HttpInv, NEW r \in Requests, stage[r] # "new", NEW kind, NEW status \in Nat \ {0, 200, 429}, NEW before,
         Caught(r, kind, status, before),
         \A l \in before : l.of = r /\ l.id = IdOf(r) /\ l.user \in {NoCaller, UserOf(r)},
         UNCHANGED <<setup, visitor, boot, holds, context, window, expires, admitted, failOpens, httpNow>>
  PROVE  HttpInv'
<1>1. /\ HttpShape' /\ LinesFit' /\ StageFits(r)' /\ (setup.seeded => SeededFits(r)')
      /\ \A o \in Requests : o # r => stage'[o] = stage[o] /\ reply'[o] = reply[o]
  BY CaughtIs
<1>2. QED
  BY <1>1, RequestMoves

\* The refusals of the session guard and the failures of a handler keep the invariant.
LEMMA ErrorsInv ==
  ASSUME HttpInv, NEW r \in Requests,
         RefuseMarked(r) \/ NoSession(r) \/ \E f \in Failures : Throws(r, f[1], f[2])
  PROVE  HttpInv'
<1>0. \A k, s : \A u \in {NoCaller, UserOf(r)} : /\ Line(r, k, s, u).of = r /\ Line(r, k, s, u).id = IdOf(r)
                                               /\ Line(r, k, s, u).user \in {NoCaller, UserOf(r)}
  BY DEF Line
<1>1. CASE RefuseMarked(r)
  <2>1. /\ stage[r] = "session" /\ Caught(r, "domain", 401, {Line(r, "refused mark", 401, NoCaller)})
        /\ UNCHANGED <<setup, visitor, boot, holds, context, window, expires, admitted, failOpens, httpNow>>
    BY <1>1 DEF RefuseMarked, Marked
  <2> DEFINE b == Line(r, "refused mark", 401, NoCaller)
             before == {b}
  <2>2. b.of = r /\ b.id = IdOf(r) /\ b.user \in {NoCaller, UserOf(r)}
    BY <1>0
  <2>3. Caught(r, "domain", 401, before)
    BY <2>1
  <2> HIDE DEF b
  <2>4. \A l \in before : l.of = r /\ l.id = IdOf(r) /\ l.user \in {NoCaller, UserOf(r)}
    BY <2>2
  <2> HIDE DEF before
  <2>6. /\ stage[r] # "new"
        /\ UNCHANGED <<setup, visitor, boot, holds, context, window, expires, admitted, failOpens, httpNow>>
    BY <2>1
  <2>5. QED
    BY <2>3, <2>4, <2>6, CaughtInv
<1>2. CASE NoSession(r)
  <2>1. /\ stage[r] = "session" /\ (Caught(r, "domain", 401, {}) \/ Caught(r, "unhandled", 500, {}))
        /\ UNCHANGED <<setup, visitor, boot, holds, context, window, expires, admitted, failOpens, httpNow>>
    BY <1>2 DEF NoSession, Unmarked
  <2> DEFINE before == {}
  <2>2. Caught(r, "domain", 401, before) \/ Caught(r, "unhandled", 500, before)
    BY <2>1
  <2>3. \A l \in before : l.of = r /\ l.id = IdOf(r) /\ l.user \in {NoCaller, UserOf(r)}
    OBVIOUS
  <2> HIDE DEF before
  <2>4. QED
    BY <2>1, <2>2, <2>3, CaughtInv
<1>3. ASSUME NEW f \in Failures, Throws(r, f[1], f[2]) PROVE HttpInv'
  <2> DEFINE b == Line(r, "access", LoggedStatus(f[1], f[2]), UserOf(r))
  <2>1. f[2] \in Nat \ {0, 200, 429}
    BY DEF Failures
  <2>2. /\ stage[r] = "handler" /\ Caught(r, f[1], f[2], {b})
        /\ UNCHANGED <<setup, visitor, boot, holds, context, window, expires, admitted, failOpens, httpNow>>
    BY <1>3 DEF Throws
  <2>3. b.of = r /\ b.id = IdOf(r) /\ b.user \in {NoCaller, UserOf(r)}
    BY <1>0
  <2> HIDE DEF b
  <2>5. PICK k, n : k = f[1] /\ n = f[2]
    OBVIOUS
  <2>6. n \in Nat \ {0, 200, 429} /\ Caught(r, k, n, {b}) /\ stage[r] # "new"
    BY <2>1, <2>2, <2>5
  <2>7. \A l \in {b} : l.of = r /\ l.id = IdOf(r) /\ l.user \in {NoCaller, UserOf(r)}
    BY <2>3
  <2>8. UNCHANGED <<setup, visitor, boot, holds, context, window, expires, admitted, failOpens, httpNow>>
    BY <2>2
  <2> DEFINE before == {b}
  <2>9. Caught(r, k, n, before) /\ \A l \in before : l.of = r /\ l.id = IdOf(r) /\ l.user \in {NoCaller, UserOf(r)}
    BY <2>6, <2>7
  <2> HIDE DEF before
  <2>4. QED
    BY <2>6, <2>8, <2>9, CaughtInv
<1>4. QED
  BY <1>1, <1>2, <1>3

\* A request that only goes on.
LEMMA GoesOn ==
  ASSUME HttpInv, NEW r \in Requests, stage[r] \notin {"new", "done"},
         NEW to \in {"product", "session", "ban", "hook", "limit", "handler"}, stage' = [stage EXCEPT ![r] = to],
         UNCHANGED <<setup, visitor, boot, holds, context, reply, lines, window, expires, admitted, httpNow>>,
         failOpens \subseteq failOpens', failOpens' \subseteq failOpens \cup {r},
         StageFits(r)', setup.seeded => SeededFits(r)'
  PROVE  HttpInv'
<1>0. HttpShape
  BY DEF HttpInv
<1>1. /\ stage'[r] = to /\ \A o \in Requests : o # r => stage'[o] = stage[o]
      /\ stage' \in [Requests -> {"new", "product", "session", "ban", "hook", "limit", "consume", "handler", "done"}]
  BY <1>0 DEF HttpShape
<1>2. HttpShape'
  BY <1>0, <1>1 DEF HttpShape
<1>3. LinesFit'
  BY <1>1, LinesGrow
<1>4. QED
  BY <1>1, <1>2, <1>3, RequestMoves

\* The ways past the session guard keep the invariant.
LEMMA PassesInv ==
  ASSUME HttpInv, NEW r \in Requests,
         SessionPublic(r) \/ AdmitMarked(r) \/ BanAnswer(r) \/ HasSession(r) \/ Unlimited(r)
  PROVE  HttpInv'
<1>0. HttpShape /\ BootFits /\ StageFits(r) /\ (setup.seeded => SeededFits(r)) /\ visitor[r] \in Visitors
  BY DEF HttpInv, HttpShape
<1>a. /\ setup.first = "session" \/ setup.first = "limit"
      /\ setup.first = "session" => After("session") = "limit" /\ After("limit") = "handler"
      /\ setup.first = "limit" => After("session") = "handler" /\ After("limit") = "session"
  BY <1>0, AfterIs
<1>b. ASSUME NEW to, stage' = [stage EXCEPT ![r] = to] PROVE stage'[r] = to
  BY <1>0, <1>b DEF HttpShape
<1>1. CASE SessionPublic(r)
  <2>1. /\ stage[r] = "session" /\ ~Guarded(r) /\ stage' = [stage EXCEPT ![r] = After("session")]
        /\ UNCHANGED <<setup, visitor, boot, holds, context, reply, lines, window, expires, admitted, failOpens, httpNow>>
    BY <1>1 DEF SessionPublic, Passes, Guarded
  <2>2. stage'[r] = After("session") /\ After("session") \in {"limit", "handler"}
    BY <1>a, <1>b, <2>1
  <2>3. StageFits(r)'
    BY <1>0, <1>a, <2>1, <2>2 DEF StageFits, PassedSession, PassedLimit, Guarded
  <2>4. setup.seeded => SeededFits(r)'
    BY <1>0, <1>a, <2>1, <2>2 DEF SeededFits, PassedSession, Guarded, Own
  <2>5. QED
    BY <2>1, <2>2, <2>3, <2>4, GoesOn
<1>2. CASE AdmitMarked(r)
  <2>1. /\ stage[r] = "session" /\ Guarded(r) /\ Named(r) /\ stage' = [stage EXCEPT ![r] = "ban"]
        /\ UNCHANGED <<setup, visitor, boot, holds, context, reply, lines, window, expires, admitted, failOpens, httpNow>>
    BY <1>2 DEF AdmitMarked, Marked, Guarded
  <2>2. stage'[r] = "ban"
    BY <1>b, <2>1
  <2>3. StageFits(r)'
    BY <1>0, <1>a, <2>1, <2>2 DEF StageFits, PassedSession, PassedLimit, Guarded, Named
  <2>4. ASSUME setup.seeded PROVE SeededFits(r)'
    <3>1. holds[r] = r /\ UserOf(r) = context[r].user /\ r # NoCaller
      BY <2>1, <2>4, IdentityIs, HttpConstants
    <3>2. context[r].user = visitor[r].caller /\ visitor[r].caller # NoCaller
      BY <1>0, <2>1, <2>4, <3>1 DEF Named, SeededFits
    <3>3. QED
      BY <1>0, <2>1, <2>2, <2>4, <3>2 DEF SeededFits, PassedSession, Guarded, Own
  <2>5. QED
    BY <2>1, <2>2, <2>3, <2>4, GoesOn
<1>3. CASE BanAnswer(r)
  <2>1. /\ stage[r] = "ban"
        /\ UNCHANGED <<setup, visitor, boot, holds, context, window, expires, admitted, failOpens, httpNow>>
    BY <1>3 DEF BanAnswer
  <2>2. CASE Caught(r, "domain", 401, {})
    BY <2>1, <2>2, CaughtInv
  <2>3. CASE stage' = [stage EXCEPT ![r] = After("session")] /\ UNCHANGED <<reply, lines>>
    <3>1. stage'[r] = After("session") /\ After("session") \in {"limit", "handler"}
      BY <1>a, <1>b, <2>3
    <3>2. StageFits(r)'
      BY <1>0, <1>a, <2>1, <2>3, <3>1 DEF StageFits, PassedSession, PassedLimit, Guarded
    <3>3. setup.seeded => SeededFits(r)'
      BY <1>0, <1>a, <2>1, <2>3, <3>1 DEF SeededFits, PassedSession, Guarded, Own
    <3>4. QED
      BY <2>1, <2>3, <3>1, <3>2, <3>3, GoesOn
  <2>4. QED
    BY <1>3, <2>2, <2>3 DEF BanAnswer, Passes
<1>4. CASE HasSession(r)
  <2>1. /\ stage[r] = "session" /\ visitor[r].cred = "cookie" /\ stage' = [stage EXCEPT ![r] = "hook"]
        /\ UNCHANGED <<setup, visitor, boot, holds, context, reply, lines, window, expires, admitted, failOpens, httpNow>>
    BY <1>4 DEF HasSession, Unmarked
  <2>2. stage'[r] = "hook"
    BY <1>b, <2>1
  <2>3. StageFits(r)'
    BY <1>0, <1>a, <2>1, <2>2 DEF StageFits, PassedSession, PassedLimit, Guarded
  <2>4. setup.seeded => SeededFits(r)'
    BY <1>0, <2>1, <2>2 DEF SeededFits, PassedSession, Guarded, Own
  <2>5. QED
    BY <2>1, <2>2, <2>3, <2>4, GoesOn
<1>5. CASE Unlimited(r)
  <2>1. /\ stage[r] = "limit" /\ stage' = [stage EXCEPT ![r] = After("limit")]
        /\ setup.mode # "cache" \/ visitor[r].route = "skipped" \/ ~setup.client
        /\ failOpens' = (IF setup.mode = "disabled" /\ setup.production THEN failOpens \cup {r} ELSE failOpens)
        /\ UNCHANGED <<setup, visitor, boot, holds, context, reply, lines, window, expires, admitted, httpNow>>
    BY <1>5 DEF Unlimited, Passes
  <2>2. stage'[r] = After("limit") /\ After("limit") \in {"session", "handler"}
    BY <1>a, <1>b, <2>1
  <2>3. failOpens \subseteq failOpens' /\ failOpens' \subseteq failOpens \cup {r}
    BY <2>1
  <2>4. boot = "up" /\ BootOK(setup) /\ setup.mode \in {"cache", "disabled", "edge-only"}
    BY <1>0, <2>1, HttpConstants DEF BootFits, HttpShape
  <2>5. setup.production /\ setup.mode # "edge-only" /\ visitor[r].route # "skipped" => r \in failOpens'
    BY <2>1, <2>4 DEF BootOK
  <2>6. StageFits(r)'
    BY <1>0, <1>a, <2>1, <2>2, <2>5 DEF StageFits, PassedSession, PassedLimit, Guarded
  <2>7. setup.seeded => SeededFits(r)'
    BY <1>0, <1>a, <2>1, <2>2 DEF SeededFits, PassedSession, Guarded, Own
  <2>8. QED
    BY <2>1, <2>2, <2>3, <2>6, <2>7, GoesOn
<1>6. QED
  BY <1>1, <1>2, <1>3, <1>4, <1>5

\* Who writes into a context writes into its own, or into the one no request has.
LEMMA WritesOwn ==
  ASSUME HttpInv, NEW r \in Requests, stage[r] # "new", NEW h, h = holds[r], h # NoCaller,
         NEW q \in Contexts, q.id = context[h].id, context' = [context EXCEPT ![h] = q]
  PROVE  /\ context' \in [Requests \cup {Ambient} -> Contexts]
         /\ \A o \in Requests : o # r => context'[o] = context[o]
         /\ context'[r].id = context[r].id
         /\ setup.seeded => context'[r].user = q.user
<1>0. /\ context \in [Requests \cup {Ambient} -> Contexts] /\ h \in {r, Ambient} /\ Ambient \notin Requests
      /\ setup.seeded => h = r
  BY HttpConstants DEF HttpInv, HttpShape, StageFits, SeededFits
<1>1. QED
  BY <1>0

\* The guard of the product, which writes the principal, keeps the invariant.
LEMMA PrincipalInv ==
  ASSUME HttpInv, NEW r \in Requests, ProductGuard(r) \/ WritePrincipal(r)
  PROVE  HttpInv'
<1>0. HttpShape /\ StageFits(r) /\ (setup.seeded => SeededFits(r)) /\ visitor[r] \in Visitors
  BY DEF HttpInv, HttpShape
<1>a. /\ setup.first = "session" \/ setup.first = "limit"
      /\ setup.first = "session" => After("session") = "limit" /\ After("limit") = "handler"
      /\ setup.first = "limit" => After("session") = "handler" /\ After("limit") = "session"
  BY <1>0, AfterIs
<1>b. visitor[r].caller \in Callers \cup {NoCaller} /\ (visitor[r].cred = "cookie" => visitor[r].caller # NoCaller)
  BY <1>0, HttpConstants
<1>c. /\ UNCHANGED <<setup, visitor, boot, holds, reply, lines, window, expires, admitted, failOpens, httpNow>>
      /\ stage[r] \in {"product", "hook"}
  BY DEF ProductGuard, WritePrincipal
<1>d. SeededFits(r) /\ setup.seeded => holds[r] # NoCaller
  BY <1>c, HttpConstants DEF SeededFits
\* What is left to say once the stage and the context are known.
<1>1. ASSUME NEW to \in {"session", "limit", "handler"}, stage' = [stage EXCEPT ![r] = to],
             context' \in [Requests \cup {Ambient} -> Contexts], \A o \in Requests : o # r => context'[o] = context[o],
             StageFits(r)', setup.seeded => SeededFits(r)'
      PROVE  HttpInv'
  <2>1. /\ stage'[r] = to /\ \A o \in Requests : o # r => stage'[o] = stage[o]
        /\ stage' \in [Requests -> {"new", "product", "session", "ban", "hook", "limit", "consume", "handler", "done"}]
    BY <1>0, <1>1 DEF HttpShape
  <2>2. HttpShape'
    BY <1>0, <1>1, <1>c, <2>1 DEF HttpShape
  <2>3. LinesFit'
    BY <1>c, <2>1, LinesGrow
  <2>4. QED
    BY <1>1, <1>c, <2>1, <2>2, <2>3, RequestMoves
<1>2. CASE ProductGuard(r)
  <2>1. /\ stage[r] = "product" /\ stage' = [stage EXCEPT ![r] = setup.first]
        /\ context' = (IF visitor[r].cred = "unnamed" \/ holds[r] = NoCaller THEN context
                       ELSE [context EXCEPT ![holds[r]].user = visitor[r].caller])
    BY <1>2 DEF ProductGuard
  <2>2. /\ context' \in [Requests \cup {Ambient} -> Contexts] /\ \A o \in Requests : o # r => context'[o] = context[o]
        /\ context'[r].id = context[r].id
        /\ setup.seeded => context'[r].user \in {context[r].user, visitor[r].caller}
    <3>1. CASE visitor[r].cred = "unnamed" \/ holds[r] = NoCaller
      BY <1>0, <2>1, <3>1 DEF HttpShape
    <3>2. CASE ~(visitor[r].cred = "unnamed" \/ holds[r] = NoCaller)
      <4>1. holds[r] \in Requests \cup {Ambient} /\ context[holds[r]] \in Contexts
        BY <1>0, <3>2 DEF HttpShape
      <4>2. PICK h \in Requests \cup {Ambient} : h = holds[r]
        BY <4>1
      <4>3. PICK u \in Callers \cup {NoCaller} : u = visitor[r].caller
        BY <1>b
      <4> DEFINE q == [context[h] EXCEPT !.user = u]
      <4>4. q \in Contexts /\ q.id = context[h].id /\ q.user = u
        BY <4>1, <4>2 DEF Contexts
      <4>5. context' = [context EXCEPT ![h] = q]
        BY <1>0, <2>1, <3>2, <4>2, <4>3 DEF HttpShape
      <4> HIDE DEF q
      <4>6. stage[r] # "new" /\ h = holds[r] /\ h # NoCaller
        BY <2>1, <3>2, <4>2
      <4>7. QED
        BY <4>3, <4>4, <4>5, <4>6, WritesOwn
    <3>3. QED
      BY <3>1, <3>2
  <2>3. stage'[r] = setup.first
    BY <1>0, <2>1 DEF HttpShape
  <2>4. StageFits(r)'
    BY <1>0, <1>a, <1>c, <2>1, <2>3 DEF StageFits, PassedSession, PassedLimit, Guarded
  <2>5. ASSUME setup.seeded PROVE SeededFits(r)'
    <3>1. CASE setup.first = "session"
      BY <1>0, <1>a, <1>c, <2>1, <2>2, <2>3, <2>5, <3>1 DEF SeededFits, PassedSession, Guarded, Own
    <3>2. CASE setup.first = "limit"
      BY <1>0, <1>a, <1>c, <2>1, <2>2, <2>3, <2>5, <3>2 DEF SeededFits, PassedSession, Guarded, Own
    <3>3. QED
      BY <1>a, <3>1, <3>2
  <2>6. QED
    BY <1>1, <1>a, <2>1, <2>2, <2>4, <2>5
<1>3. CASE WritePrincipal(r)
  <2>1. stage[r] = "hook" /\ stage' = [stage EXCEPT ![r] = After("session")]
    BY <1>3 DEF WritePrincipal, Passes
  <2>2. ASSUME holds[r] # NoCaller
        PROVE  /\ context' \in [Requests \cup {Ambient} -> Contexts] /\ \A o \in Requests : o # r => context'[o] = context[o]
               /\ context'[r].id = context[r].id
               /\ setup.seeded => context'[r].user = visitor[r].caller
    <3>1. PICK h \in Requests \cup {Ambient} : h = holds[r]
      BY <1>0, <2>2 DEF HttpShape
    <3>2. PICK u \in Callers \cup {NoCaller} : u = visitor[r].caller
      BY <1>b
    <3>3. \E p \in Contexts : p.id = context[h].id /\ p.user = u /\ context' = [context EXCEPT ![h] = p]
      <4>1. PICK extra \in {"none", "tenant", "other user", "throws"} :
             context' = [context EXCEPT ![h].user = u, ![h].tenant = IF extra = "tenant" THEN extra ELSE @]
        BY <1>3, <2>2, <3>1, <3>2 DEF WritePrincipal, Written
      <4>2. context[h] \in Contexts
        BY <1>0, <3>1 DEF HttpShape
      <4> DEFINE q == [context[h] EXCEPT !.user = u, !.tenant = IF extra = "tenant" THEN extra ELSE @]
      <4>3. q \in Contexts /\ q.id = context[h].id /\ q.user = u
        BY <4>2 DEF Contexts
      <4>4. context' = [context EXCEPT ![h] = q]
        BY <1>0, <3>1, <4>1 DEF HttpShape
      <4> HIDE DEF q
      <4>5. QED
        BY <4>3, <4>4
    <3>4. PICK p \in Contexts : p.id = context[h].id /\ p.user = u /\ context' = [context EXCEPT ![h] = p]
      BY <3>3
    <3>5. stage[r] # "new" /\ h = holds[r] /\ h # NoCaller
      BY <2>1, <2>2, <3>1
    <3>6. /\ context' \in [Requests \cup {Ambient} -> Contexts]
          /\ \A o \in Requests : o # r => context'[o] = context[o]
          /\ context'[r].id = context[r].id
          /\ setup.seeded => context'[r].user = p.user
      <4>1. p.id = context[h].id /\ context' = [context EXCEPT ![h] = p]
        BY <3>4
      <4>2. /\ context \in [Requests \cup {Ambient} -> Contexts] /\ h \in {r, Ambient} /\ Ambient \notin Requests
            /\ setup.seeded => h = r
        BY <1>0, <3>5, HttpConstants DEF HttpShape, StageFits, SeededFits
      <4>3. QED
        BY <4>1, <4>2
    <3>7. QED
      BY <3>2, <3>4, <3>6
  <2>3. /\ context' \in [Requests \cup {Ambient} -> Contexts] /\ \A o \in Requests : o # r => context'[o] = context[o]
        /\ context'[r].id = context[r].id
        /\ setup.seeded => context'[r].user = visitor[r].caller
    <3>1. CASE holds[r] = NoCaller
      <4>1. context' = context
        BY <1>3, <3>1 DEF WritePrincipal
      <4>2. QED
        BY <1>0, <1>d, <3>1, <4>1 DEF HttpShape
    <3>2. QED
      BY <2>2, <3>1
  <2>4. stage'[r] = After("session") /\ After("session") \in {"limit", "handler"}
    BY <1>0, <1>a, <2>1 DEF HttpShape
  <2>5. visitor[r].cred = "cookie" /\ visitor[r].caller # NoCaller
    BY <1>0, <1>b, <2>1 DEF StageFits
  <2>6. StageFits(r)'
    BY <1>0, <1>a, <1>c, <2>1, <2>4, <2>5 DEF StageFits, PassedSession, PassedLimit, Guarded
  <2>7. ASSUME setup.seeded PROVE SeededFits(r)'
    BY <1>0, <1>a, <1>c, <2>1, <2>3, <2>4, <2>5, <2>7 DEF SeededFits, PassedSession, Guarded, Own
  <2>8. QED
    BY <1>1, <2>1, <2>3, <2>4, <2>6, <2>7
<1>4. QED
  BY <1>2, <1>3

\* A request enters the pipeline in a context that is new, or in none of its own.
LEMMA EnterInv ==
  ASSUME HttpInv, NEW r \in Requests, Enter(r)
  PROVE  HttpInv'
<1>0. /\ HttpShape /\ StageFits(r) /\ LinesFit /\ (setup.seeded => SeededFits(r))
      /\ context \in [Requests \cup {Ambient} -> Contexts] /\ reply \in [Requests -> Replies]
      /\ Ambient \notin Requests
  BY HttpConstants DEF HttpInv, HttpShape
<1>a. setup.first = "session" \/ setup.first = "limit"
  BY <1>0, AfterIs
<1>1. /\ boot = "up" /\ stage[r] = "new"
      /\ UNCHANGED <<setup, visitor, boot, lines, window, expires, admitted, failOpens, httpNow>>
  BY DEF Enter
<1>2. PICK to \in {"product", "session", "limit"} :
        /\ stage' = [stage EXCEPT ![r] = to] /\ (to = "product" \/ to = setup.first)
  BY <1>a DEF Enter
<1>3. /\ stage'[r] = to /\ \A o \in Requests : o # r => stage'[o] = stage[o]
      /\ stage' \in [Requests -> {"new", "product", "session", "ban", "hook", "limit", "consume", "handler", "done"}]
  BY <1>0, <1>2 DEF HttpShape
<1>4. PICK h \in {r, Ambient, NoCaller} : holds' = [holds EXCEPT ![r] = h] /\ (setup.seeded => h = r)
  BY DEF Enter, ContextOf
<1>5. /\ holds'[r] = h /\ \A o \in Requests : o # r => holds'[o] = holds[o]
      /\ holds' \in [Requests -> Requests \cup {Ambient, NoCaller}]
  BY <1>0, <1>4 DEF HttpShape
<1>6. /\ context' \in [Requests \cup {Ambient} -> Contexts] /\ reply' \in [Requests -> Replies]
      /\ \A o \in Requests : o # r => context'[o] = context[o] /\ reply'[o] = reply[o]
      /\ reply'[r].status = reply[r].status /\ reply'[r].key = reply[r].key
      /\ setup.seeded => context'[r].id = reply'[r].header /\ context'[r].user = NoCaller
  <2>1. CASE ~setup.seeded
    BY <1>0, <2>1 DEF Enter
  <2>2. CASE setup.seeded
    <3>1. PICK id \in HttpIds : id = ResolvedId(r)
      BY DEF ResolvedId, HttpIds
    <3> DEFINE c == [Blank EXCEPT !.id = id]
               q == [reply[r] EXCEPT !.header = id]
    <3>2. c \in Contexts /\ c.id = id /\ c.user = NoCaller
      BY DEF Blank, Contexts, HttpIds
    <3>3. q \in Replies /\ q.header = id /\ q.status = reply[r].status /\ q.key = reply[r].key
      BY <1>0 DEF Replies
    <3>4. context' = [context EXCEPT ![r] = c] /\ reply' = [reply EXCEPT ![r] = q]
      BY <1>0, <2>2, <3>1 DEF Enter, ContextOf
    <3> HIDE DEF c, q
    <3>5. QED
      BY <1>0, <3>2, <3>3, <3>4
  <2>3. QED
    BY <2>1, <2>2
<1>7. HttpShape'
  BY <1>0, <1>1, <1>3, <1>5, <1>6 DEF HttpShape
<1>8. LinesFit'
  <2> SUFFICES ASSUME setup.seeded, NEW l \in lines
               PROVE  /\ l.of \in Requests /\ stage'[l.of] # "new"
                      /\ l.id = reply'[l.of].header /\ l.user \in {NoCaller, visitor[l.of].caller}
    BY <1>1 DEF LinesFit
  <2>1. /\ l.of \in Requests /\ stage[l.of] # "new" /\ l.of # r
        /\ l.id = reply[l.of].header /\ l.user \in {NoCaller, visitor[l.of].caller}
    BY <1>0, <1>1 DEF LinesFit
  <2>2. QED
    BY <1>3, <1>6, <2>1
<1>9. StageFits(r)'
  BY <1>0, <1>1, <1>2, <1>3, <1>4, <1>5, <1>6, <1>a DEF StageFits, PassedSession, PassedLimit, Guarded
<1>10. ASSUME setup.seeded PROVE SeededFits(r)'
  <2>1. reply'[r].status = 0
    BY <1>0, <1>1, <1>6 DEF StageFits
  <2>2. QED
    BY <1>1, <1>2, <1>3, <1>4, <1>5, <1>6, <1>10, <1>a, <2>1 DEF SeededFits, PassedSession, Guarded
<1>11. QED
  BY <1>1, <1>3, <1>5, <1>6, <1>7, <1>8, <1>9, <1>10, RequestMoves

\* The script is sent under the bucket of the caller the context knows.
LEMMA AskInv ==
  ASSUME HttpInv, NEW r \in Requests, Ask(r)
  PROVE  HttpInv'
<1>0. /\ HttpShape /\ StageFits(r) /\ (setup.seeded => SeededFits(r)) /\ reply \in [Requests -> Replies] /\ httpNow \in Nat
  BY DEF HttpInv, HttpShape
<1>a. setup.first = "session" \/ setup.first = "limit"
  BY <1>0, AfterIs
<1>1. /\ stage[r] = "limit" /\ stage' = [stage EXCEPT ![r] = "consume"]
      /\ reply' = [reply EXCEPT ![r].key = BucketOf(r), ![r].calledAt = httpNow]
      /\ UNCHANGED <<setup, visitor, boot, holds, context, lines, window, expires, admitted, failOpens, httpNow>>
  BY DEF Ask
<1>2. PICK k \in Keys : k = BucketOf(r)
  BY <1>0, IdentityType DEF BucketOf, Keys
<1>3. /\ reply' \in [Requests -> Replies] /\ \A o \in Requests : o # r => reply'[o] = reply[o]
      /\ reply'[r].status = reply[r].status /\ reply'[r].bodyId = reply[r].bodyId /\ reply'[r].header = reply[r].header
      /\ reply'[r].key = k /\ reply'[r].calledAt = httpNow
  <2> DEFINE q == [reply[r] EXCEPT !.key = k, !.calledAt = httpNow]
  <2>1. /\ q \in Replies /\ q.status = reply[r].status /\ q.bodyId = reply[r].bodyId /\ q.header = reply[r].header
        /\ q.key = k /\ q.calledAt = httpNow
    BY <1>0 DEF Replies
  <2>2. reply' = [reply EXCEPT ![r] = q]
    BY <1>0, <1>1, <1>2
  <2> HIDE DEF q
  <2>3. QED
    BY <1>0, <2>1, <2>2
<1>4. /\ stage'[r] = "consume" /\ \A o \in Requests : o # r => stage'[o] = stage[o]
      /\ stage' \in [Requests -> {"new", "product", "session", "ban", "hook", "limit", "consume", "handler", "done"}]
  BY <1>0, <1>1 DEF HttpShape
<1>5. HttpShape'
  BY <1>0, <1>1, <1>3, <1>4 DEF HttpShape
<1>6. LinesFit'
  BY <1>1, <1>3, <1>4, LinesGrow
<1>7. StageFits(r)'
  <2>1. /\ reply'[r].calledAt <= httpNow /\ httpNow <= reply'[r].calledAt + EvalTime /\ reply'[r].key \in Keys
    BY <1>0, <1>3, HttpConstants
  <2>2. PassedSession(r)' = PassedSession(r) /\ ~PassedLimit(r)' /\ Guarded(r)' = Guarded(r) /\ ~PassedLimit(r)
    BY <1>1, <1>4, <1>a DEF PassedSession, PassedLimit, Guarded
  <2>3. QED
    BY <1>0, <1>1, <1>3, <1>4, <2>1, <2>2 DEF StageFits
<1>8. ASSUME setup.seeded PROVE SeededFits(r)'
  <2>1. /\ holds[r] = r /\ UserOf(r) = context[r].user /\ UserOf(r) \in {NoCaller, visitor[r].caller}
    BY <1>1, <1>8, IdentityIs
  <2>2. k \in {"address", visitor[r].caller} /\ (context[r].user = visitor[r].caller /\ visitor[r].caller # NoCaller => k = visitor[r].caller)
    BY <1>2, <2>1 DEF BucketOf
  <2>3. PassedSession(r)' = PassedSession(r) /\ Guarded(r)' = Guarded(r) /\ Own(r)' = Own(r)
    BY <1>1, <1>4, <1>a DEF PassedSession, Guarded, Own
  <2>4. setup.first = "session" => PassedSession(r)
    BY <1>1 DEF PassedSession
  <2>5. setup.first = "session" /\ Guarded(r) => k = visitor[r].caller
    BY <1>0, <1>8, <2>2, <2>4 DEF SeededFits
  <2>6. QED
    BY <1>0, <1>1, <1>3, <1>4, <1>8, <2>1, <2>2, <2>3, <2>5 DEF SeededFits
<1>9. QED
  BY <1>1, <1>3, <1>4, <1>5, <1>6, <1>7, <1>8, RequestMoves

\* The handler answers, or the limiter's call threw and the request passes uncounted.
LEMMA AnswersInv ==
  ASSUME HttpInv, NEW r \in Requests, Answers(r)
  PROVE  HttpInv'
<1>0. /\ HttpShape /\ StageFits(r) /\ (setup.seeded => SeededFits(r)) /\ reply \in [Requests -> Replies]
  BY DEF HttpInv, HttpShape
<1>1. /\ stage[r] = "handler" /\ stage' = [stage EXCEPT ![r] = "done"]
      /\ reply' = [reply EXCEPT ![r].status = 200]
      /\ lines' = lines \cup {Line(r, "access", 200, UserOf(r))}
      /\ UNCHANGED <<setup, visitor, boot, holds, context, window, expires, admitted, failOpens, httpNow>>
  BY DEF Answers
<1>3. /\ reply' \in [Requests -> Replies] /\ \A o \in Requests : o # r => reply'[o] = reply[o]
      /\ reply'[r].status = 200 /\ reply'[r].header = reply[r].header
  <2> DEFINE q == [reply[r] EXCEPT !.status = 200]
  <2>1. q \in Replies /\ q.status = 200 /\ q.header = reply[r].header
    BY <1>0 DEF Replies
  <2>2. reply' = [reply EXCEPT ![r] = q]
    BY <1>0, <1>1
  <2> HIDE DEF q
  <2>3. QED
    BY <1>0, <2>1, <2>2
<1>4. /\ stage'[r] = "done" /\ \A o \in Requests : o # r => stage'[o] = stage[o]
      /\ stage' \in [Requests -> {"new", "product", "session", "ban", "hook", "limit", "consume", "handler", "done"}]
  BY <1>0, <1>1 DEF HttpShape
<1>5. HttpShape'
  BY <1>0, <1>1, <1>3, <1>4 DEF HttpShape
<1>6. LinesFit'
  <2>1. \A l \in lines' : l \in lines \/ (l.of = r /\ l.id = IdOf(r) /\ l.user \in {NoCaller, UserOf(r)})
    BY <1>1 DEF Line
  <2>2. \A o \in Requests : stage[o] # "new" => stage'[o] # "new" /\ reply'[o].header = reply[o].header
    BY <1>3, <1>4
  <2>3. QED
    BY <1>1, <2>1, <2>2, LinesGrow
<1>7. StageFits(r)'
  BY <1>0, <1>1, <1>3, <1>4 DEF StageFits, PassedSession, PassedLimit
<1>8. ASSUME setup.seeded PROVE SeededFits(r)'
  BY <1>0, <1>1, <1>3, <1>4, <1>8 DEF SeededFits, PassedSession
<1>9. QED
  BY <1>1, <1>3, <1>4, <1>5, <1>6, <1>7, <1>8, RequestMoves

\* A limiter whose cache fails keeps the invariant.
LEMMA ConsumeThrewInv ==
  ASSUME HttpInv, NEW r \in Requests, ConsumeThrew(r)
  PROVE  HttpInv'
<1>0. /\ HttpShape /\ StageFits(r) /\ (setup.seeded => SeededFits(r))
  BY DEF HttpInv, HttpShape
<1>a. /\ setup.first = "session" \/ setup.first = "limit"
      /\ setup.first = "session" => After("session") = "limit" /\ After("limit") = "handler"
      /\ setup.first = "limit" => After("session") = "handler" /\ After("limit") = "session"
  BY <1>0, AfterIs
<1>1. /\ stage[r] = "consume" /\ stage' = [stage EXCEPT ![r] = After("limit")]
      /\ failOpens' = failOpens \cup {r}
      /\ lines' = lines \cup {Line(r, "fail open", 0, UserOf(r))}
      /\ UNCHANGED <<setup, visitor, boot, holds, context, reply, window, expires, admitted, httpNow>>
  BY DEF ConsumeThrew, Passes, FailedOpen
<1>4. /\ stage'[r] = After("limit") /\ After("limit") \in {"session", "handler"}
      /\ \A o \in Requests : o # r => stage'[o] = stage[o]
      /\ stage' \in [Requests -> {"new", "product", "session", "ban", "hook", "limit", "consume", "handler", "done"}]
  BY <1>0, <1>1, <1>a DEF HttpShape
<1>5. HttpShape'
  <2>1. failOpens' \subseteq Requests \cup {"boot"}
    BY <1>0, <1>1 DEF HttpShape
  <2>2. QED
    BY <1>0, <1>1, <1>4, <2>1 DEF HttpShape
<1>6. LinesFit'
  <2> DEFINE b == Line(r, "fail open", 0, UserOf(r))
  <2>a. b.of = r /\ b.id = IdOf(r) /\ b.user = UserOf(r)
    BY DEF Line
  <2>b. lines' = lines \cup {b}
    BY <1>1
  <2> HIDE DEF b
  <2>1. \A l \in lines' : l \in lines \/ (l.of = r /\ l.id = IdOf(r) /\ l.user \in {NoCaller, UserOf(r)})
    BY <2>a, <2>b
  <2>2. \A o \in Requests : stage[o] # "new" => stage'[o] # "new" /\ reply'[o].header = reply[o].header
    BY <1>1, <1>4
  <2>3. QED
    BY <1>1, <2>1, <2>2, LinesGrow
<1>7. StageFits(r)'
  BY <1>0, <1>1, <1>a, <1>4 DEF StageFits, PassedSession, PassedLimit, Guarded
<1>8. ASSUME setup.seeded PROVE SeededFits(r)'
  <2>1. Own(r)' = Own(r) /\ Guarded(r)' = Guarded(r) /\ (PassedSession(r)' => PassedSession(r))
    BY <1>1, <1>a, <1>4 DEF PassedSession, Guarded, Own
  <2>2. SeededFits(r) /\ stage'[r] \notin {"new", "ban", "consume"}
    BY <1>0, <1>4, <1>8
  <2>3. /\ UNCHANGED <<setup, visitor, holds, context, reply>> /\ stage[r] = "consume"
    BY <1>1
  <2>4. QED
    BY <2>1, <2>2, <2>3 DEF SeededFits
<1>9. QED
  BY <1>1, <1>4, <1>5, <1>6, <1>7, <1>8, RequestMoves

\* The choice of the set-up at boot keeps the invariant.
LEMMA BootInv ==
  ASSUME HttpInv, Boot
  PROVE  HttpInv'
<1>0. HttpShape /\ BootFits /\ LinesFit /\ WindowFits /\ WindowHolds
  BY DEF HttpInv
<1>1. /\ boot = "starting" /\ boot' \in {"up", "refused"} /\ (boot' = "up" => BootOK(setup))
      /\ failOpens' \subseteq {"boot"}
      /\ UNCHANGED <<setup, visitor, stage, holds, context, reply, lines, window, expires, admitted, httpNow>>
  BY DEF Boot
<1>2. \A r \in Requests : stage[r] = "new"
  BY <1>0, <1>1 DEF BootFits
<1>3. HttpShape'
  BY <1>0, <1>1 DEF HttpShape
<1>4. BootFits' /\ LinesFit'
  BY <1>0, <1>1, <1>2 DEF BootFits, LinesFit, BootOK
<1>5. WindowFits' /\ WindowHolds'
  BY <1>0, <1>1 DEF WindowFits, StillThere, WindowHolds
<1>6. ASSUME NEW r \in Requests PROVE StageFits(r)' /\ (setup'.seeded => SeededFits(r)')
  <2>1. StageFits(r) /\ (setup.seeded => SeededFits(r)) /\ stage'[r] = "new"
    BY <1>1, <1>2 DEF HttpInv
  <2>2. StageFits(r)'
    BY <1>1, <2>1 DEF StageFits, PassedSession, PassedLimit
  <2>3. setup.seeded => SeededFits(r)'
    BY <1>1, <2>1 DEF SeededFits, PassedSession, Own, Guarded
  <2>4. QED
    BY <1>1, <2>2, <2>3
<1>7. QED
  BY <1>3, <1>4, <1>5, <1>6 DEF HttpInv

\* Time passes: entries only leave the span that is guarded.
LEMMA TickInv ==
  ASSUME HttpInv, Tick
  PROVE  HttpInv'
<1>0. HttpShape /\ BootFits /\ LinesFit /\ WindowFits /\ WindowHolds /\ \A r \in Requests : StageFits(r)
  BY DEF HttpInv
<1>1. /\ httpNow' = httpNow + 1 /\ httpNow \in Nat
      /\ \A r \in Requests : stage[r] = "consume" => httpNow < reply[r].calledAt + EvalTime
      /\ UNCHANGED <<setup, visitor, boot, stage, holds, context, reply, lines, window, expires, admitted, failOpens>>
  BY <1>0 DEF Tick, HttpShape
<1>2. HttpShape'
  BY <1>0, <1>1 DEF HttpShape
<1>3. BootFits' /\ LinesFit' /\ WindowHolds'
  BY <1>0, <1>1 DEF BootFits, LinesFit, WindowHolds
<1>4. WindowFits'
  <2>1. ASSUME NEW a \in admitted PROVE a.at <= httpNow' /\ StillThere(a)'
    <3>1. a.at \in Nat /\ a.at <= httpNow /\ StillThere(a) /\ Span \in Int
      BY <1>0, HttpConstants DEF WindowFits, Admissions, Span
    <3>2. CASE httpNow - a.at >= Span
      BY <1>1, <3>1, <3>2 DEF StillThere, Span
    <3>3. CASE /\ \E e \in window : e.of = a.of /\ e.key = a.key /\ e.score >= a.at - EvalTime
               /\ expires[a.key] >= a.at + Window
      BY <1>1, <3>1, <3>3 DEF StillThere
    <3>4. QED
      BY <3>1, <3>2, <3>3 DEF StillThere
  <2>2. \A k \in Keys : expires[k] <= httpNow' + Window
    BY <1>0, <1>1, HttpConstants DEF WindowFits
  <2>3. QED
    BY <1>0, <1>1, <2>1, <2>2 DEF WindowFits
<1>5. ASSUME NEW o \in Requests PROVE StageFits(o)' /\ (setup'.seeded => SeededFits(o)')
  <2>1. stage[o] = "consume" => httpNow' >= reply[o].calledAt /\ httpNow' <= reply[o].calledAt + EvalTime
    <3>1. reply[o].calledAt \in Nat /\ StageFits(o)
      BY <1>0 DEF HttpShape, Replies
    <3>2. QED
      BY <1>1, <3>1, HttpConstants DEF StageFits
  <2>2. IsFiniteSet(admitted')
    BY <1>0, <1>1 DEF WindowFits
  <2>3. QED
    BY <1>1, <2>1, <2>2, OtherKept
<1>6. QED
  BY <1>2, <1>3, <1>4, <1>5 DEF HttpInv

\* The script scores with a clock that is off by at most the skew and the call's time.
LEMMA ScoreBounds ==
  ASSUME HttpInv, NEW r \in Requests, stage[r] = "consume"
  PROVE  /\ ScoreOf(r) \in Int /\ ScoreOf(r) <= httpNow + ClockSkew /\ ScoreOf(r) >= httpNow - EvalTime
         /\ reply[r].key \in Keys /\ httpNow \in Nat /\ reply[r].status = 0
<1>1. /\ httpNow \in Nat /\ reply[r].calledAt \in Nat /\ visitor[r] \in Visitors /\ StageFits(r)
  BY DEF HttpInv, HttpShape, Replies
<1>2. /\ visitor[r].skew \in Nat /\ visitor[r].skew <= ClockSkew /\ ClockSkew \in Nat /\ EvalTime \in Nat
  BY <1>1, HttpConstants
<1>3. /\ reply[r].calledAt <= httpNow /\ httpNow <= reply[r].calledAt + EvalTime /\ reply[r].key \in Keys
      /\ reply[r].status = 0
  BY <1>1 DEF StageFits
<1>4. QED
  BY <1>1, <1>2, <1>3 DEF ScoreOf

\* What the script evicts is no younger than the span it guards.
LEMMA YoungKept ==
  ASSUME HttpInv, NEW r \in Requests, stage[r] = "consume", NEW a \in admitted, ~(httpNow - a.at >= Span)
  PROVE  /\ \E e \in Others(r) \cup Kept(r) : e.of = a.of /\ e.key = a.key /\ e.score >= a.at - EvalTime
         /\ expires[a.key] >= a.at + Window
         /\ a.key = reply[r].key => \E e \in Kept(r) : e.of = a.of
<1>0. /\ a.at \in Nat /\ a.key \in Keys /\ StillThere(a) /\ expires \in [Keys -> Nat] /\ window \subseteq Entries
  BY DEF HttpInv, WindowFits, Admissions
<1>1. PICK e \in window : e.of = a.of /\ e.key = a.key /\ e.score >= a.at - EvalTime
  BY <1>0 DEF StillThere
<1>2. expires[a.key] >= a.at + Window /\ expires[a.key] \in Nat /\ e.score \in Int
  BY <1>0, <1>1 DEF StillThere, Entries
<1>3. /\ ScoreOf(r) \in Int /\ ScoreOf(r) <= httpNow + ClockSkew /\ httpNow \in Nat
      /\ Window \in Nat /\ ClockSkew \in Nat /\ EvalTime \in Nat
  BY ScoreBounds, HttpConstants
<1>4. httpNow < expires[e.key]
  BY <1>0, <1>1, <1>2, <1>3 DEF Span
<1>5. e.score > ScoreOf(r) - Window
  BY <1>0, <1>1, <1>2, <1>3 DEF Span
<1>6. e.key = reply[r].key => e \in Kept(r)
  BY <1>4, <1>5 DEF Kept
<1>7. e.key # reply[r].key => e \in Others(r)
  BY DEF Others
<1>8. QED
  BY <1>1, <1>2, <1>6, <1>7

\* The entries that a consume keeps are a finite part of the window.
LEMMA KeptWindow ==
  ASSUME HttpInv, NEW r \in Requests
  PROVE  /\ Others(r) \cup Kept(r) \subseteq window /\ IsFiniteSet(Kept(r)) /\ IsFiniteSet(Others(r) \cup Kept(r))
         /\ Cardinality(Kept(r)) \in Nat
<1>1. Others(r) \cup Kept(r) \subseteq window /\ Kept(r) \subseteq window /\ IsFiniteSet(window)
  BY DEF Others, Kept, HttpInv, WindowFits
<1>2. IsFiniteSet(Kept(r)) /\ IsFiniteSet(Others(r) \cup Kept(r))
  BY <1>1, FS_Subset
<1>3. QED
  BY <1>1, <1>2, FS_CardinalityType

\* A refused caller filled its bucket itself.
LEMMA OwnBucket ==
  ASSUME HttpInv, NEW r \in Requests, stage[r] = "consume", setup.seeded, setup.first = "session", Guarded(r),
         ~(Cardinality(Kept(r)) < Limit)
  PROVE  Cardinality(Own(r)) >= Limit
<1>0. /\ WindowFits /\ SeededFits(r) /\ visitor[r] \in Visitors
  BY DEF HttpInv, HttpShape
<1>1. reply[r].key = visitor[r].caller /\ visitor[r].caller # "address"
  BY <1>0, HttpConstants DEF SeededFits
<1>2. ASSUME NEW e \in Kept(r) PROVE \E a \in Own(r) : a.of = e.of
  <2>1. e \in window /\ e.key = visitor[r].caller
    BY <1>1 DEF Kept
  <2>2. e.key \in {"address", visitor[e.of].caller}
    BY <1>0, <2>1 DEF WindowFits
  <2>3. PICK a \in admitted : a.of = e.of /\ a.key = e.key
    BY <1>0, <2>1 DEF WindowFits
  <2>4. QED
    BY <1>1, <2>1, <2>2, <2>3 DEF Own
<1>3. \A e, f \in Kept(r) : e.of = f.of => e = f
  BY <1>0 DEF Kept, WindowFits
<1> DEFINE pick == [e \in Kept(r) |-> CHOOSE a \in Own(r) : a.of = e.of]
<1>4. \A e \in Kept(r) : pick[e] \in Own(r) /\ pick[e].of = e.of
  BY <1>2
<1>5. pick \in [Kept(r) -> Own(r)]
  BY <1>4
<1> HIDE DEF pick
<1>6. \A e, f \in Kept(r) : pick[e] = pick[f] => e = f
  BY <1>3, <1>4
<1>7. Own(r) \subseteq admitted /\ IsFiniteSet(Own(r))
  <2>1. Own(r) \subseteq admitted /\ IsFiniteSet(admitted)
    BY <1>0 DEF Own, WindowFits
  <2>2. QED
    BY <2>1, FS_Subset
<1>8. Cardinality(Kept(r)) <= Cardinality(Own(r))
  BY <1>5, <1>6, <1>7, InjectionBounds
<1>9. Cardinality(Kept(r)) \in Nat /\ Cardinality(Own(r)) \in Nat
  BY <1>7, KeptWindow, FS_CardinalityType
<1>10. QED
  BY <1>8, <1>9, HttpConstants

\* A consume that finds the window full keeps the invariant.
LEMMA RefusedInv ==
  ASSUME HttpInv, NEW r \in Requests, Consume(r), ~(Cardinality(Kept(r)) < Limit)
  PROVE  HttpInv'
<1>0. /\ HttpShape /\ BootFits /\ LinesFit /\ WindowFits /\ WindowHolds
      /\ \A o \in Requests : StageFits(o)
  BY DEF HttpInv
<1>1. /\ stage[r] = "consume" /\ window' = Others(r) \cup Kept(r)
      /\ UNCHANGED <<setup, visitor, boot, holds, context, failOpens, httpNow, expires, admitted>>
  BY DEF Consume
<1> DEFINE b == Line(r, "limited", 429, UserOf(r))
           before == {b}
<1>2. b.of = r /\ b.id = IdOf(r) /\ b.user = UserOf(r)
  BY DEF Line
<1>3. Caught(r, "domain", 429, before)
  BY DEF Consume
<1> HIDE DEF b
<1>4. \A l \in before : l.of = r /\ l.id = IdOf(r) /\ l.user \in {NoCaller, UserOf(r)}
  BY <1>2
<1> HIDE DEF before
<1>5. setup.seeded /\ setup.first = "session" /\ Guarded(r) => Cardinality(Own(r)) >= Limit
  BY <1>1, OwnBucket
<1>6. /\ HttpShape' /\ LinesFit' /\ StageFits(r)' /\ (setup.seeded => SeededFits(r)')
      /\ \A o \in Requests : o # r => stage'[o] = stage[o] /\ reply'[o] = reply[o]
  <2>1. /\ stage[r] # "new" /\ UNCHANGED <<setup, visitor, boot, holds, context, failOpens, httpNow, admitted>>
    BY <1>1
  <2>2. 429 \in Nat \ {0, 200}
    OBVIOUS
  <2>3. QED
    BY <1>3, <1>4, <1>5, <2>1, <2>2, CaughtIs
<1>7. BootFits' /\ WindowHolds'
  BY <1>0, <1>1, <1>6 DEF BootFits, WindowHolds
<1>8. WindowFits'
  <2>1. window' \subseteq window /\ IsFiniteSet(window')
    BY <1>1, KeptWindow
  <2>2. ASSUME NEW a \in admitted PROVE StillThere(a)'
    BY <1>1, YoungKept DEF StillThere
  <2>3. \A e \in window' : e \in window
    BY <2>1
  <2>4. QED
    BY <1>0, <1>1, <2>1, <2>2, <2>3 DEF WindowFits
<1>9. ASSUME NEW o \in Requests, o # r PROVE StageFits(o)' /\ (setup'.seeded => SeededFits(o)')
  <2>1. IsFiniteSet(admitted')
    BY <1>0, <1>1 DEF WindowFits
  <2>2. stage[o] = "consume" => httpNow' >= reply[o].calledAt /\ httpNow' <= reply[o].calledAt + EvalTime
    BY <1>0, <1>1 DEF StageFits
  <2>3. /\ stage'[o] = stage[o] /\ reply'[o] = reply[o]
    BY <1>6, <1>9
  <2>4. QED
    BY <1>1, <2>1, <2>2, <2>3, OtherKept
<1>10. QED
  BY <1>1, <1>6, <1>7, <1>8, <1>9 DEF HttpInv

\* A finite set without one of its elements has one element less.
LEMMA RemoveOne ==
  ASSUME NEW S, NEW x \in S, IsFiniteSet(S)
  PROVE  Cardinality(S \ {x}) = Cardinality(S) - 1
BY FS_RemoveElement

\* A burst with the new admission in it that is younger than the span would have filled the window.
LEMMA NoBurst ==
  ASSUME HttpInv, NEW r \in Requests, stage[r] = "consume", Cardinality(Kept(r)) < Limit,
         NEW z, z = [key |-> reply[r].key, at |-> httpNow, of |-> r],
         NEW burst \in SUBSET (admitted \cup {z}), z \in burst, Cardinality(burst) = Limit + 1,
         \A x, y \in burst : x.key = y.key
  PROVE  \E x, y \in burst : y.at - x.at >= Span
<1> SUFFICES ASSUME \A x, y \in burst : ~(y.at - x.at >= Span) PROVE FALSE
  OBVIOUS
<1>0. WindowFits /\ z.key = reply[r].key /\ z.at = httpNow
  BY DEF HttpInv
<1> DEFINE S == burst \ {z}
<1>1. S \subseteq admitted /\ \A x \in S : x.key = reply[r].key /\ ~(httpNow - x.at >= Span)
  BY <1>0
<1>2. ASSUME NEW x \in S PROVE \E e \in Kept(r) : e.of = x.of
  BY <1>1, YoungKept
<1>3. \A x, y \in S : x.of = y.of => x = y
  BY <1>0, <1>1 DEF WindowFits
<1>4. IsFiniteSet(burst) /\ IsFiniteSet(Kept(r)) /\ Cardinality(Kept(r)) \in Nat
  <2>1. IsFiniteSet(admitted \cup {z})
    BY <1>0, FS_AddElement DEF WindowFits
  <2>2. QED
    BY <2>1, KeptWindow, FS_Subset
<1>5. Cardinality(S) = Limit
  <2>1. Cardinality(burst \ {z}) = Cardinality(burst) - 1
    BY <1>4, RemoveOne, Zenon
  <2>2. QED
    BY <2>1, HttpConstants
<1> HIDE DEF S
<1> DEFINE pick == [x \in S |-> CHOOSE e \in Kept(r) : e.of = x.of]
<1>6. \A x \in S : pick[x] \in Kept(r) /\ pick[x].of = x.of
  BY <1>2
<1>7. pick \in [S -> Kept(r)]
  BY <1>6
<1> HIDE DEF pick
<1>8. \A x, y \in S : pick[x] = pick[y] => x = y
  BY <1>3, <1>6
<1>9. Cardinality(S) <= Cardinality(Kept(r))
  BY <1>4, <1>7, <1>8, InjectionBounds
<1>10. QED
  BY <1>4, <1>5, <1>9, HttpConstants

\* A consume that admits the request keeps the invariant.
LEMMA AdmittedInv ==
  ASSUME HttpInv, NEW r \in Requests, Consume(r), Cardinality(Kept(r)) < Limit
  PROVE  HttpInv'
<1>0. /\ HttpShape /\ BootFits /\ LinesFit /\ WindowFits /\ WindowHolds /\ StageFits(r)
      /\ \A o \in Requests : StageFits(o)
  BY DEF HttpInv
<1>a. /\ setup.first = "session" \/ setup.first = "limit"
      /\ setup.first = "session" => After("session") = "limit" /\ After("limit") = "handler"
      /\ setup.first = "limit" => After("session") = "handler" /\ After("limit") = "session"
  BY <1>0, AfterIs
<1>b. PICK k \in Keys, t \in Int : k = reply[r].key /\ t = ScoreOf(r) /\ t >= httpNow - EvalTime
  BY ScoreBounds DEF Consume
<1>n. PICK n : n = [key |-> k, score |-> t, of |-> r]
  OBVIOUS
<1>z. PICK z : z = [key |-> k, at |-> httpNow, of |-> r]
  OBVIOUS
<1>1. /\ stage[r] = "consume" /\ stage' = [stage EXCEPT ![r] = After("limit")]
      /\ UNCHANGED <<setup, visitor, boot, holds, context, failOpens, httpNow, reply, lines>>
  BY DEF Consume, Passes
<1>2. /\ window' = Others(r) \cup Kept(r) \cup {n} /\ admitted' = admitted \cup {z}
      /\ expires' = [expires EXCEPT ![k] = httpNow + Window]
  BY <1>b, <1>n, <1>z DEF Consume
<1>c. httpNow \in Nat /\ Window \in Nat /\ EvalTime \in Nat
  BY <1>0, HttpConstants DEF HttpShape
<1>3. /\ n \in Entries /\ n.key = k /\ n.score = t /\ n.of = r
      /\ z \in Admissions /\ z.key = k /\ z.at = httpNow /\ z.of = r
  BY <1>b, <1>c, <1>n, <1>z DEF Entries, Admissions
<1>d. z = [key |-> reply[r].key, at |-> httpNow, of |-> r]
  BY <1>b, <1>z
<1>4. /\ stage'[r] = After("limit") /\ After("limit") \in {"session", "handler"}
      /\ \A o \in Requests : o # r => stage'[o] = stage[o]
      /\ stage' \in [Requests -> {"new", "product", "session", "ban", "hook", "limit", "consume", "handler", "done"}]
  BY <1>0, <1>1, <1>a DEF HttpShape
<1>5. \A a \in admitted : a.of # r
  BY <1>0, <1>1 DEF StageFits, PassedLimit
<1>6. HttpShape'
  BY <1>0, <1>1, <1>4 DEF HttpShape
<1>7. BootFits' /\ LinesFit'
  BY <1>0, <1>1, <1>4 DEF BootFits, LinesFit
<1>8. IsFiniteSet(window') /\ IsFiniteSet(admitted')
  BY <1>0, <1>2, KeptWindow, FS_AddElement DEF WindowFits
<1>9. WindowFits'
  <2>1. /\ expires' \in [Keys -> Nat] /\ \A x \in Keys : expires'[x] >= expires[x] /\ expires'[x] <= httpNow + Window
        /\ expires'[k] = httpNow + Window
    BY <1>0, <1>2, <1>c DEF WindowFits
  <2>2. \A e \in window' : e = n \/ e \in window
    BY <1>2, KeptWindow
  <2>3. \A e \in window : e.of # r
    BY <1>0, <1>5 DEF WindowFits
  <2>4. \A a \in admitted' : a = z \/ a \in admitted
    BY <1>2
  <2>5. ASSUME NEW a \in admitted PROVE a.at <= httpNow /\ StillThere(a)'
    <3>1. a.at \in Nat /\ a.at <= httpNow /\ a.key \in Keys
      BY <1>0 DEF WindowFits, Admissions
    <3>2. CASE httpNow - a.at >= Span
      BY <1>1, <3>1, <3>2 DEF StillThere
    <3>3. CASE ~(httpNow - a.at >= Span)
      <4>1. PICK e \in Others(r) \cup Kept(r) : e.of = a.of /\ e.key = a.key /\ e.score >= a.at - EvalTime
        BY <1>1, <3>3, YoungKept
      <4>2. expires[a.key] >= a.at + Window
        BY <1>1, <3>3, YoungKept
      <4>3. expires[a.key] \in Nat /\ expires'[a.key] \in Nat /\ expires'[a.key] >= expires[a.key]
        BY <1>0, <2>1, <3>1 DEF WindowFits
      <4>4. expires'[a.key] >= a.at + Window
        BY <1>c, <3>1, <4>2, <4>3
      <4>5. e \in window'
        BY <1>2, <4>1
      <4>6. StillThere(a)'
        BY <4>1, <4>4, <4>5 DEF StillThere
      <4>7. QED
        BY <3>1, <4>6
    <3>4. QED
      BY <3>1, <3>2, <3>3
  <2>6. z.at <= httpNow /\ StillThere(z)'
    <3>1. n \in window' /\ n.of = z.of /\ n.key = z.key /\ n.score >= z.at - EvalTime
      BY <1>2, <1>3, <1>b
    <3>2. expires'[z.key] >= z.at + Window
      BY <1>3, <1>c, <2>1
    <3>3. QED
      BY <1>3, <1>c, <3>1, <3>2 DEF StillThere
  <2>7. window' \subseteq Entries /\ admitted' \subseteq Admissions
    BY <1>0, <1>3, <2>2, <2>4 DEF WindowFits
  <2>8. \A a, b \in admitted' : a.of = b.of => a = b
    BY <1>0, <1>3, <1>5, <2>4 DEF WindowFits
  <2>9. \A e, f \in window' : e.of = f.of => e = f
    BY <1>0, <1>3, <2>2, <2>3 DEF WindowFits
  <2>10. \A e \in window' : \E a \in admitted' : a.of = e.of /\ a.key = e.key
    BY <1>0, <1>2, <1>3, <2>2 DEF WindowFits
  <2>11. setup.seeded => \A e \in window' : e.key \in {"address", visitor[e.of].caller}
    <3>1. setup.seeded => k \in {"address", visitor[r].caller}
      BY <1>1, <1>b DEF HttpInv, SeededFits
    <3>2. QED
      BY <1>0, <1>3, <2>2, <3>1 DEF WindowFits
  <2>12. \A a \in admitted' : a.at <= httpNow' /\ StillThere(a)'
    BY <1>1, <2>4, <2>5, <2>6
  <2>13. \A x \in Keys : expires'[x] <= httpNow' + Window
    BY <1>1, <2>1
  <2>14. QED
    BY <1>1, <1>8, <2>1, <2>7, <2>8, <2>9, <2>10, <2>11, <2>12, <2>13 DEF WindowFits
<1>10. WindowHolds'
  <2> SUFFICES ASSUME NEW burst \in SUBSET admitted', Cardinality(burst) = Limit + 1, \A x, y \in burst : x.key = y.key
               PROVE  \E x, y \in burst : y.at - x.at >= Window - ClockSkew - EvalTime
    BY DEF WindowHolds
  <2>1. CASE z \notin burst
    <3>1. burst \in SUBSET admitted
      BY <1>2, <2>1
    <3>2. QED
      BY <1>0, <3>1 DEF WindowHolds
  <2>2. CASE z \in burst
    <3>1. burst \in SUBSET (admitted \cup {z})
      BY <1>2
    <3>2. \E x, y \in burst : y.at - x.at >= Span
      BY <1>1, <1>d, <2>2, <3>1, NoBurst
    <3>3. QED
      BY <3>2 DEF Span
  <2>3. QED
    BY <2>1, <2>2
<1>11. ASSUME NEW o \in Requests, o # r PROVE StageFits(o)' /\ (setup'.seeded => SeededFits(o)')
  <2>1. \A a \in admitted' : a.of = o => a \in admitted
    BY <1>2, <1>3, <1>11
  <2>2. stage[o] = "consume" => httpNow' >= reply[o].calledAt /\ httpNow' <= reply[o].calledAt + EvalTime
    BY <1>0, <1>1 DEF StageFits
  <2>3. stage'[o] = stage[o] /\ admitted \subseteq admitted'
    BY <1>2, <1>4, <1>11
  <2>4. QED
    BY <1>1, <1>8, <2>1, <2>2, <2>3, OtherKept
<1>12. StageFits(r)'
  <2>1. z \in admitted' /\ z.of = r /\ PassedLimit(r)'
    BY <1>1, <1>2, <1>3, <1>4, <1>a DEF PassedLimit
  <2>2. \E a \in admitted' : a.of = r
    BY <2>1
  <2>3. (PassedSession(r)' => PassedSession(r)) /\ Guarded(r)' = Guarded(r)
    BY <1>1, <1>4, <1>a DEF PassedSession, Guarded
  <2>4. UNCHANGED <<setup, visitor, holds, reply, failOpens>> /\ stage[r] = "consume"
    BY <1>1
  <2>5. QED
    BY <1>0, <1>4, <2>1, <2>2, <2>3, <2>4 DEF StageFits
<1>13. ASSUME setup.seeded PROVE SeededFits(r)'
  <2>1. Guarded(r)' = Guarded(r) /\ (PassedSession(r)' => PassedSession(r))
    BY <1>1, <1>a, <1>4 DEF PassedSession, Guarded
  <2>2. SeededFits(r) /\ stage'[r] \notin {"new", "ban", "consume"} /\ reply[r].status = 0
    BY <1>1, <1>4, <1>13, ScoreBounds DEF HttpInv
  <2>3. /\ UNCHANGED <<setup, visitor, holds, context, reply>> /\ stage[r] = "consume"
    BY <1>1
  <2>4. QED
    BY <2>1, <2>2, <2>3 DEF SeededFits
<1>14. QED
  BY <1>1, <1>6, <1>7, <1>9, <1>10, <1>11, <1>12, <1>13 DEF HttpInv

\* Every step of the pipeline and of the clock keeps its invariant.
LEMMA HttpStepInv == HttpInv /\ [HttpNext]_httpVars => HttpInv'
<1> SUFFICES ASSUME HttpInv, [HttpNext]_httpVars PROVE HttpInv'
  OBVIOUS
<1>1. ASSUME NEW r \in Requests, Consume(r) PROVE HttpInv'
  BY <1>1, RefusedInv, AdmittedInv
<1>2. CASE HttpNext
  BY <1>1, <1>2, BootInv, TickInv, EnterInv, PrincipalInv, PassesInv, ErrorsInv, AskInv, ConsumeThrewInv, AnswersInv DEF HttpNext
<1>3. CASE UNCHANGED httpVars
  <2>0. HttpShape /\ BootFits /\ LinesFit /\ WindowFits /\ WindowHolds /\ \A o \in Requests : StageFits(o)
    BY DEF HttpInv
  <2>1. UNCHANGED <<setup, visitor, boot, stage, holds, context, reply, lines, window, expires, admitted, failOpens, httpNow>>
    BY <1>3 DEF httpVars
  <2>2. HttpShape'
    BY <2>0, <2>1 DEF HttpShape
  <2>3. BootFits' /\ LinesFit'
    BY <2>0, <2>1 DEF BootFits, LinesFit, BootOK
  <2>4. WindowFits' /\ WindowHolds'
    BY <2>0, <2>1 DEF WindowFits, StillThere, WindowHolds
  <2>5. ASSUME NEW o \in Requests PROVE StageFits(o)' /\ (setup'.seeded => SeededFits(o)')
    <3>1. IsFiniteSet(admitted')
      BY <2>0, <2>1 DEF WindowFits
    <3>2. stage[o] = "consume" => httpNow' >= reply[o].calledAt /\ httpNow' <= reply[o].calledAt + EvalTime
      BY <2>0, <2>1 DEF StageFits
    <3>3. QED
      BY <2>1, <3>1, <3>2, OtherKept
  <2>6. QED
    BY <2>2, <2>3, <2>4, <2>5 DEF HttpInv
<1>4. QED
  BY <1>2, <1>3

\* The invariant gives the guarantees of the pipeline.
LEMMA HttpInvSafe == HttpInv => HttpSafe
<1> SUFFICES ASSUME HttpInv PROVE HttpSafe
  OBVIOUS
<1>0. /\ HttpShape /\ BootFits /\ LinesFit /\ WindowHolds
      /\ \A r \in Requests : StageFits(r) /\ (setup.seeded => SeededFits(r))
  BY DEF HttpInv
<1>1. HttpTypeOK
  BY <1>0 DEF HttpTypeOK, HttpShape, BootFits, StageFits
<1>2. OwnIdentity
  BY <1>0 DEF OwnIdentity, LinesFit, SeededFits
<1>3. HandlerKnowsCaller
  <2> SUFFICES ASSUME NEW r \in Requests, stage[r] = "handler", visitor[r].route = "guarded"
               PROVE  visitor[r].cred \in {"cookie", "mark"} /\ (setup.seeded => UserOf(r) = visitor[r].caller)
    BY DEF HandlerKnowsCaller
  <2>1. PassedSession(r) /\ Guarded(r)
    BY DEF PassedSession, Guarded
  <2>2. visitor[r].cred \in {"cookie", "mark"}
    BY <1>0, <2>1 DEF StageFits
  <2>3. ASSUME setup.seeded PROVE UserOf(r) = visitor[r].caller
    BY <1>0, <2>1, <2>3, IdentityIs DEF SeededFits
  <2>4. QED
    BY <2>2, <2>3
<1>4. NoSilentBypass
  BY <1>0 DEF NoSilentBypass, StageFits, PassedLimit
<1>5. RefusedForOwn
  BY <1>0 DEF RefusedForOwn, SeededFits, Guarded, Own
<1>6. QED
  BY <1>0, <1>1, <1>2, <1>3, <1>4, <1>5 DEF HttpSafe

\* Whatever requests do between the awaits of another, for any number of them, any limit, window,
\* skew and call time: contexts do not leak, the sliding window bounds every burst, nothing passes
\* the limiter unrecorded in production, and a named caller is refused only for its own requests.
THEOREM HttpHolds == HttpSpec => []HttpSafe
<1>1. HttpInit => HttpInv
  BY HttpInitInv
<1>2. HttpInv /\ [HttpNext]_httpVars => HttpInv'
  BY HttpStepInv
<1>3. HttpInv => HttpSafe
  BY HttpInvSafe
<1>4. QED
  BY <1>1, <1>2, <1>3, PTL DEF HttpSpec

-----------------------------------------------------------------------------
(***************************************************************************)
(* PageWalk, for any finite table, any page limits and any edits between   *)
(* the pages: a row that stayed is among the pages so far or comes after   *)
(* the cursor; an offset walk without edits has shown a beginning of the   *)
(* list.                                                                   *)
(***************************************************************************)

\* The order of the list is a strict total order.
LEMMA FollowsIs ==
    ASSUME NEW x \in Rows, NEW y \in Rows, NEW z \in Rows
    PROVE  /\ ~Follows(x, x)
           /\ x # y => Follows(x, y) \/ Follows(y, x)
           /\ Follows(x, y) => ~Follows(y, x)
           /\ Follows(x, y) /\ Follows(y, z) => Follows(x, z)
  <1>1. /\ x[1] \in Int /\ x[2] \in Int /\ y[1] \in Int /\ y[2] \in Int /\ z[1] \in Int /\ z[2] \in Int
        /\ x = <<x[1], x[2]>> /\ y = <<y[1], y[2]>>
    BY PageAssumption
  <1>2. x[1] = y[1] /\ x[2] = y[2] => x = y
    BY <1>1
  <1>3. /\ ~Before(x, x)
        /\ x # y => Before(x, y) \/ Before(y, x)
        /\ Before(x, y) => ~Before(y, x)
        /\ Before(x, y) /\ Before(y, z) => Before(x, z)
        /\ Before(z, y) /\ Before(y, x) => Before(z, x)
    BY <1>1, <1>2 DEF Before
  <1>4. Before(y, x) => ~Before(x, y)
    BY <1>1 DEF Before
  <1> QED BY <1>3, <1>4 DEF Follows

\* What the query of a set of rows returns: each row once, in order.
Listing(s, rows) ==
    /\ s \in Seq(rows) /\ \A r \in rows : \E k \in 1..Len(s) : s[k] = r
    /\ \A i, j \in 1..Len(s) : i < j => Follows(s[j], s[i])

\* The numbers of the rows have no gap, and grow along the list.
LEMMA RanksAre ==
    ASSUME NEW S \in SUBSET Rows
    PROVE  /\ IsFiniteSet(S) /\ Cardinality(S) \in Nat
           /\ \A r \in S : RowsUpTo(r, S) \in 1..Cardinality(S)
           /\ \A r, q \in S : Follows(r, q) => RowsUpTo(q, S) < RowsUpTo(r, S)
           /\ \A k \in 1..Cardinality(S) : \E r \in S : RowsUpTo(r, S) = k
  <1>1. IsFiniteSet(S) /\ Cardinality(S) \in Nat
    BY PageAssumption, FS_Subset, FS_CardinalityType
  <1>2. ASSUME NEW r \in S
        PROVE  IsFiniteSet({x \in S : x = r \/ Follows(r, x)}) /\ RowsUpTo(r, S) \in 1..Cardinality(S)
               /\ RowsUpTo(r, S) \in Nat
    <2>1. PICK T : T = {x \in S : x = r \/ Follows(r, x)}
      OBVIOUS
    <2>2. T \in SUBSET S /\ r \in T
      BY <2>1
    <2>3. IsFiniteSet(T) /\ Cardinality(T) <= Cardinality(S) /\ Cardinality(T) \in Nat
      BY <1>1, <2>2, FS_Subset, FS_CardinalityType
    <2>4. Cardinality(T) # 0
      BY <2>2, <2>3, FS_EmptySet
    <2>5. Cardinality(T) \in 1..Cardinality(S)
      BY <1>1, <2>3, <2>4
    <2> QED BY <2>1, <2>3, <2>5 DEF RowsUpTo
  <1>3. ASSUME NEW r \in S, NEW q \in S, Follows(r, q) PROVE RowsUpTo(q, S) < RowsUpTo(r, S)
    <2>1. PICK T : T = {x \in S : x = r \/ Follows(r, x)}
      OBVIOUS
    <2>2. PICK U : U = {x \in S : x = q \/ Follows(q, x)}
      OBVIOUS
    <2>3. IsFiniteSet(T) /\ IsFiniteSet(U)
      BY <1>2, <2>1, <2>2
    <2>4. U \in SUBSET T
      BY <1>3, <2>1, <2>2, FollowsIs
    <2>5. r \in T /\ r \notin U
      BY <1>3, <2>1, <2>2, FollowsIs
    <2>6. Cardinality(U) <= Cardinality(T) /\ Cardinality(U) # Cardinality(T)
      BY <2>3, <2>4, <2>5, FS_Subset
    <2>7. Cardinality(U) \in Nat /\ Cardinality(T) \in Nat
      BY <2>3, FS_CardinalityType
    <2>8. Cardinality(U) < Cardinality(T)
      BY <2>6, <2>7
    <2> QED BY <2>1, <2>2, <2>8 DEF RowsUpTo
  <1>4. PICK f : f = [r \in S |-> RowsUpTo(r, S)]
    OBVIOUS
  <1>5. f \in [S -> 1..Cardinality(S)]
    BY <1>2, <1>4
  <1>6. \A r, q \in S : f[r] = f[q] => r = q
    <2> SUFFICES ASSUME NEW r \in S, NEW q \in S, f[r] = f[q], r # q PROVE FALSE
      OBVIOUS
    <2>1. Follows(r, q) \/ Follows(q, r)
      BY FollowsIs
    <2>2. RowsUpTo(r, S) = RowsUpTo(q, S) /\ RowsUpTo(r, S) \in Nat
      BY <1>2, <1>4
    <2> QED BY <1>3, <2>1, <2>2
  <1>7. f \in Injection(S, 1..Cardinality(S))
    BY <1>5, <1>6 DEF Injection, IsInjective
  <1>8. IsFiniteSet(1..Cardinality(S)) /\ Cardinality(1..Cardinality(S)) = Cardinality(S)
    BY <1>1, FS_Interval
  <1>9. f \in Surjection(S, 1..Cardinality(S))
    BY <1>7, <1>8, FS_Injection
  <1>10. \A k \in 1..Cardinality(S) : \E r \in S : f[r] = k
    BY <1>9 DEF Surjection
  <1> QED BY <1>1, <1>2, <1>3, <1>4, <1>10

\* The query lists the rows that match.
LEMMA QueryLists ==
    ASSUME pageTable \subseteq Rows, NEW from
    PROVE  Listing(Query(from), Matching(from))
  <1>1. PICK S : S = Matching(from)
    OBVIOUS
  <1>2. S \in SUBSET Rows
    BY <1>1 DEF Matching
  <1>3. PICK n : n = Cardinality(S)
    OBVIOUS
  <1>4. /\ n \in Nat
        /\ \A r \in S : RowsUpTo(r, S) \in 1..n
        /\ \A r, q \in S : Follows(r, q) => RowsUpTo(q, S) < RowsUpTo(r, S)
        /\ \A k \in 1..n : \E r \in S : RowsUpTo(r, S) = k
    BY <1>2, <1>3, RanksAre
  <1>5. PICK s : s = Query(from)
    OBVIOUS
  <1>6. s = [k \in 1..n |-> CHOOSE r \in S : RowsUpTo(r, S) = k]
    BY <1>1, <1>3, <1>5 DEF Query
  <1>7. \A k \in 1..n : s[k] \in S /\ RowsUpTo(s[k], S) = k
    BY <1>4, <1>6
  <1>8. s \in Seq(S) /\ Len(s) = n
    BY <1>4, <1>6, <1>7
  <1>9. ASSUME NEW r \in S, NEW q \in S, RowsUpTo(r, S) = RowsUpTo(q, S) PROVE r = q
    <2>1. r # q => Follows(r, q) \/ Follows(q, r)
      BY <1>2, FollowsIs
    <2>2. RowsUpTo(r, S) \in Nat
      BY <1>4
    <2> QED BY <1>4, <1>9, <2>1, <2>2
  <1>10. ASSUME NEW r \in S PROVE \E k \in 1..n : s[k] = r
    <2>1. PICK k : k = RowsUpTo(r, S)
      OBVIOUS
    <2>2. k \in 1..n
      BY <1>4, <2>1
    <2>3. s[k] \in S /\ RowsUpTo(s[k], S) = RowsUpTo(r, S)
      BY <1>7, <2>1, <2>2
    <2>4. s[k] = r
      BY <1>9, <2>3
    <2> QED BY <2>2, <2>4
  <1>11. ASSUME NEW i \in 1..n, NEW j \in 1..n, i < j PROVE Follows(s[j], s[i])
    <2>1. s[i] \in S /\ s[j] \in S /\ RowsUpTo(s[i], S) = i /\ RowsUpTo(s[j], S) = j
      BY <1>7
    <2>2. s[i] # s[j]
      BY <1>11, <2>1
    <2>3. Follows(s[j], s[i]) \/ Follows(s[i], s[j])
      BY <1>2, <2>1, <2>2, FollowsIs
    <2>4. ~Follows(s[i], s[j])
      <3>1. Follows(s[i], s[j]) => j < i
        BY <1>4, <2>1
      <3> QED BY <1>11, <3>1
    <2> QED BY <2>3, <2>4
  <1> QED BY <1>1, <1>5, <1>8, <1>10, <1>11 DEF Listing

\* A beginning of a list.
LEMMA FirstsAre ==
    ASSUME NEW S, NEW s \in Seq(S), NEW n \in Nat
    PROVE  /\ Firsts(s, n) \in Seq(S)
           /\ Len(Firsts(s, n)) = IF Len(s) < n THEN Len(s) ELSE n
           /\ \A i \in 1..Len(Firsts(s, n)) : Firsts(s, n)[i] = s[i]
  <1>1. PICK m : m = IF Len(s) < n THEN Len(s) ELSE n
    OBVIOUS
  <1>2. m \in Nat /\ m <= Len(s) /\ Len(s) \in Nat
    BY <1>1
  <1>3. \A i \in 1..m : s[i] \in S
    BY <1>2
  <1>4. PICK t : t = SubSeq(s, 1, m)
    OBVIOUS
  <1>5. t \in Seq(S) /\ Len(t) = (IF 1 <= m THEN m - 1 + 1 ELSE 0) /\ \A i \in 1..(m - 1 + 1) : t[i] = s[1 + i - 1]
    BY <1>2, <1>3, <1>4, SubSeqProperties
  <1>6. Len(t) = m
    BY <1>2, <1>5
  <1>7. \A i \in 1..m : t[i] = s[i]
    <2>1. m - 1 + 1 = m /\ \A i \in 1..m : 1 + i - 1 = i
      BY <1>2
    <2> QED BY <1>5, <2>1
  <1>8. Firsts(s, n) = t
    BY <1>1, <1>4 DEF Firsts
  <1> QED BY <1>1, <1>5, <1>6, <1>7, <1>8

-----------------------------------------------------------------------------
Ordered(s) == \A i, j \in 1..Len(s) : i < j => Follows(s[j], s[i])
Shows(s, r) == \E i \in 1..Len(s) : s[i] = r

WalkRecords == [mode : {"cursor", "offset"}, dir : {"asc", "desc"}, limit : PageLimits,
                pc : {"walk", "refused", "end"}, cursor : Rows \cup {NoCursor}, offset : Nat]

PageShape ==
    /\ pageTable \subseteq Rows /\ stayed \subseteq pageTable /\ walk \in WalkRecords
    /\ got \in Seq(Rows) /\ edits \in Nat /\ (edits = 0 => stayed = pageTable)

\* The cursor is the last row shown, and what stayed was shown or comes after it.
CursorInv ==
    walk.mode = "cursor" =>
        /\ Ordered(got)
        /\ walk.pc = "walk" =>
              /\ walk.cursor = NoCursor => got = << >>
              /\ walk.cursor # NoCursor => got # << >> /\ walk.cursor = got[Len(got)]
              /\ \A r \in stayed : Shows(got, r) \/ walk.cursor = NoCursor \/ Follows(r, walk.cursor)
        /\ walk.pc = "end" => \A r \in stayed : Shows(got, r)

\* While nothing changed, a beginning of the list was shown, as long as the offset.
OffsetInv ==
    (walk.mode = "offset" /\ edits = 0) =>
        /\ Ordered(got)
        /\ walk.pc = "walk" =>
              /\ walk.offset = Len(got) /\ walk.offset <= Len(Query(NoCursor))
              /\ \A i \in 1..Len(got) : got[i] = Query(NoCursor)[i]
        /\ walk.pc = "end" => \A r \in stayed : Shows(got, r)

PageInv == PageShape /\ CursorInv /\ OffsetInv

\* Initially nothing was shown.
LEMMA PageInitInv == PageInit => PageInv
  <1> SUFFICES ASSUME PageInit PROVE PageInv
    OBVIOUS
  <1>1. PICK mode \in {"cursor", "offset"}, dir \in {"asc", "desc"}, limit \in PageLimits :
            walk = [mode |-> mode, dir |-> dir, limit |-> limit, pc |-> "walk", cursor |-> NoCursor, offset |-> 0]
    BY DEF PageInit
  <1>2. Len(<< >>) = 0 /\ << >> \in Seq(Rows)
    OBVIOUS
  <1>3. walk \in WalkRecords /\ walk.pc = "walk" /\ walk.cursor = NoCursor /\ walk.offset = 0
    BY <1>1 DEF WalkRecords
  <1>4. pageTable \subseteq Rows /\ stayed = pageTable /\ got = << >> /\ edits = 0
    BY DEF PageInit
  <1>5. PageShape
    BY <1>2, <1>3, <1>4 DEF PageShape
  <1>6. Ordered(got)
    BY <1>2, <1>4 DEF Ordered
  <1>7. CursorInv
    BY <1>3, <1>4, <1>6 DEF CursorInv
  <1>8. Len(Query(NoCursor)) \in Nat
    <2>1. Listing(Query(NoCursor), Matching(NoCursor))
      BY <1>4, QueryLists
    <2> QED BY <2>1 DEF Listing
  <1>9. OffsetInv
    BY <1>2, <1>3, <1>4, <1>6, <1>8 DEF OffsetInv
  <1> QED BY <1>5, <1>7, <1>9 DEF PageInv

\* A page after the pages so far.
LEMMA JoinIs ==
    ASSUME NEW g \in Seq(Rows), NEW d \in Seq(Rows)
    PROVE  /\ g \o d \in Seq(Rows) /\ Len(g \o d) = Len(g) + Len(d) /\ Len(g) \in Nat /\ Len(d) \in Nat
           /\ \A i \in 1..Len(g \o d) : IF i <= Len(g) THEN i \in 1..Len(g) /\ (g \o d)[i] = g[i]
                                        ELSE i - Len(g) \in 1..Len(d) /\ (g \o d)[i] = d[i - Len(g)]
           /\ \A r : Shows(g \o d, r) <=> Shows(g, r) \/ Shows(d, r)
  <1>1. PICK s : s = g \o d
    OBVIOUS
  <1>2. s \in Seq(Rows) /\ Len(s) = Len(g) + Len(d) /\ Len(g) \in Nat /\ Len(d) \in Nat
    BY <1>1
  <1>3. \A i \in 1..Len(s) : IF i <= Len(g) THEN i \in 1..Len(g) /\ s[i] = g[i]
                             ELSE i - Len(g) \in 1..Len(d) /\ s[i] = d[i - Len(g)]
    BY <1>1, <1>2
  <1>4. ASSUME NEW r, Shows(s, r) PROVE Shows(g, r) \/ Shows(d, r)
    BY <1>3, <1>4 DEF Shows
  <1>5. ASSUME NEW r, Shows(g, r) PROVE Shows(s, r)
    <2>1. PICK i \in 1..Len(g) : g[i] = r
      BY <1>5 DEF Shows
    <2>2. i \in 1..Len(s) /\ i <= Len(g)
      BY <1>2
    <2>3. s[i] = r
      BY <1>3, <2>1, <2>2
    <2> QED BY <2>2, <2>3 DEF Shows
  <1>6. ASSUME NEW r, Shows(d, r) PROVE Shows(s, r)
    <2>1. PICK i \in 1..Len(d) : d[i] = r
      BY <1>6 DEF Shows
    <2>2. PICK k : k = i + Len(g)
      OBVIOUS
    <2>3. k \in 1..Len(s) /\ ~(k <= Len(g)) /\ k - Len(g) = i
      BY <1>2, <2>2
    <2>4. s[k] = r
      BY <1>3, <2>1, <2>3
    <2> QED BY <2>3, <2>4 DEF Shows
  <1> QED BY <1>1, <1>2, <1>3, <1>4, <1>5, <1>6

\* Pages in order, each after all before it, are in order together.
LEMMA JoinOrdered ==
    ASSUME NEW g \in Seq(Rows), NEW d \in Seq(Rows), Ordered(g), Ordered(d),
           \A i \in 1..Len(g) : \A j \in 1..Len(d) : Follows(d[j], g[i])
    PROVE  Ordered(g \o d)
  <1>1. PICK s : s = g \o d
    OBVIOUS
  <1>2. /\ Len(s) = Len(g) + Len(d) /\ Len(g) \in Nat /\ Len(d) \in Nat
        /\ \A i \in 1..Len(s) : IF i <= Len(g) THEN i \in 1..Len(g) /\ s[i] = g[i]
                                ELSE i - Len(g) \in 1..Len(d) /\ s[i] = d[i - Len(g)]
    BY <1>1, JoinIs
  <1>3. ASSUME NEW i \in 1..Len(s), NEW j \in 1..Len(s), i < j PROVE Follows(s[j], s[i])
    <2>1. CASE j <= Len(g)
      <3>1. i \in 1..Len(g) /\ j \in 1..Len(g) /\ s[i] = g[i] /\ s[j] = g[j]
        BY <1>2, <1>3, <2>1
      <3> QED BY <1>3, <3>1 DEF Ordered
    <2>2. CASE ~(j <= Len(g)) /\ i <= Len(g)
      <3>1. i \in 1..Len(g) /\ j - Len(g) \in 1..Len(d) /\ s[i] = g[i] /\ s[j] = d[j - Len(g)]
        BY <1>2, <2>2
      <3> QED BY <3>1
    <2>3. CASE ~(j <= Len(g)) /\ ~(i <= Len(g))
      <3>1. /\ i - Len(g) \in 1..Len(d) /\ j - Len(g) \in 1..Len(d) /\ i - Len(g) < j - Len(g)
            /\ s[i] = d[i - Len(g)] /\ s[j] = d[j - Len(g)]
        BY <1>2, <1>3, <2>3
      <3> QED BY <3>1 DEF Ordered
    <2> QED BY <2>1, <2>2, <2>3
  <1> QED BY <1>1, <1>3 DEF Ordered

-----------------------------------------------------------------------------
\* No step turns the list round.
LEMMA OrderStays ==
    ASSUME walk'.dir = walk.dir
    PROVE  /\ \A x, y : Follows(x, y)' <=> Follows(x, y)
           /\ \A s : Ordered(s)' <=> Ordered(s)
  <1>1. \A x, y : Follows(x, y)' <=> Follows(x, y)
    BY DEF Follows
  <1> QED BY <1>1 DEF Ordered

\* While the table stays, the list stays.
LEMMA ListStays ==
    ASSUME walk'.dir = walk.dir, pageTable' = pageTable
    PROVE  Query(NoCursor)' = Query(NoCursor)
  <1>1. Matching(NoCursor)' = Matching(NoCursor)
    BY OrderStays DEF Matching
  <1>2. \A r, S : RowsUpTo(r, S)' = RowsUpTo(r, S)
    BY OrderStays DEF RowsUpTo
  <1> QED BY <1>1, <1>2 DEF Query

\* A walk that is refused has shown what it has shown.
LEMMA RefusedKeeps ==
    ASSUME PageInv, walk' = [walk EXCEPT !.pc = "refused"], UNCHANGED <<pageTable, got, stayed, edits>>
    PROVE  PageInv'
  <1>1. walk \in WalkRecords /\ walk' \in WalkRecords
    BY DEF PageInv, PageShape, WalkRecords
  <1>2. walk'.pc = "refused" /\ walk'.mode = walk.mode /\ walk'.dir = walk.dir
    BY <1>1 DEF WalkRecords
  <1>3. PageShape'
    BY <1>1 DEF PageInv, PageShape
  <1>4. Ordered(got)' <=> Ordered(got)
    BY <1>2, OrderStays DEF Ordered
  <1>5. CursorInv'
    BY <1>2, <1>4 DEF PageInv, CursorInv
  <1>6. OffsetInv'
    BY <1>2, <1>4 DEF PageInv, OffsetInv
  <1> QED BY <1>3, <1>5, <1>6 DEF PageInv

\* A row that comes or goes is no longer one that stayed; the cursor needs no row of its own.
LEMMA EditKeeps ==
    ASSUME PageInv, NEW r \in Rows, Edit(r)
    PROVE  PageInv'
  <1>1. /\ edits' = edits + 1 /\ edits \in Nat /\ walk' = walk /\ got' = got
        /\ pageTable' \subseteq Rows /\ stayed' \subseteq pageTable' /\ stayed' \subseteq stayed
    BY DEF Edit, PageInv, PageShape
  <1>2. edits' \in Nat /\ edits' # 0
    BY <1>1
  <1>3. PageShape'
    BY <1>1, <1>2 DEF PageInv, PageShape
  <1>4. /\ \A x, y : Follows(x, y)' <=> Follows(x, y)
        /\ Ordered(got)' <=> Ordered(got)
    BY <1>1, OrderStays DEF Ordered
  <1>5. CursorInv'
    BY <1>1, <1>4 DEF PageInv, CursorInv, Shows
  <1>6. OffsetInv'
    BY <1>2 DEF OffsetInv
  <1> QED BY <1>3, <1>5, <1>6 DEF PageInv

\* Every row of a page comes after all that was shown before it.
LEMMA NextRowsFollow ==
    ASSUME PageInv, walk.mode = "cursor", walk.pc = "walk", NEW r \in Matching(walk.cursor),
           NEW i \in 1..Len(got)
    PROVE  Follows(r, got[i])
  <1>1. got \in Seq(Rows) /\ Ordered(got) /\ r \in Rows
    BY DEF PageInv, PageShape, CursorInv, Matching
  <1>2. got # << >> /\ Len(got) \in Nat /\ got[i] \in Rows
    BY <1>1
  <1>3. walk.cursor # NoCursor /\ walk.cursor = got[Len(got)] /\ Len(got) \in 1..Len(got)
    BY <1>2 DEF PageInv, CursorInv
  <1>4. Follows(r, got[Len(got)]) /\ got[Len(got)] \in Rows
    BY <1>1, <1>3 DEF Matching
  <1>5. i = Len(got) \/ i < Len(got)
    BY <1>2
  <1>6. i < Len(got) => Follows(got[Len(got)], got[i])
    BY <1>1, <1>3 DEF Ordered
  <1> QED BY <1>1, <1>2, <1>4, <1>5, <1>6, FollowsIs

\* The page is a beginning of what matches, and the next cursor its last row.
LEMMA CursorPageKeeps ==
    ASSUME PageInv, CursorPage
    PROVE  PageInv'
  <1>1. /\ walk \in WalkRecords /\ walk.mode = "cursor" /\ walk.pc = "walk" /\ walk.limit \in 1..MaxLimit
        /\ pageTable \subseteq Rows /\ stayed \subseteq pageTable /\ got \in Seq(Rows)
        /\ UNCHANGED <<pageTable, stayed, edits>>
    BY DEF PageInv, PageShape, CursorPage, PageQueryOK
  <1>2. PICK Q : Q = Query(walk.cursor)
    OBVIOUS
  <1>3. PICK M : M = Matching(walk.cursor)
    OBVIOUS
  <1>4. Listing(Q, M) /\ M \subseteq Rows
    BY <1>1, <1>2, <1>3, QueryLists DEF Matching
  <1>5. Q \in Seq(Rows) /\ Len(Q) \in Nat /\ \A i \in 1..Len(Q) : Q[i] \in M
    BY <1>4 DEF Listing
  <1>6. PICK L : L = walk.limit
    OBVIOUS
  <1>7. L \in Nat /\ 1 <= L /\ L + 1 \in Nat
    BY <1>1, <1>6, PageAssumption
  <1>8. PICK raw : raw = Firsts(Q, L + 1)
    OBVIOUS
  <1>9. PICK data : data = Firsts(raw, L)
    OBVIOUS
  <1>10. /\ raw \in Seq(Rows) /\ Len(raw) = (IF Len(Q) < L + 1 THEN Len(Q) ELSE L + 1)
         /\ \A i \in 1..Len(raw) : raw[i] = Q[i]
    BY <1>5, <1>7, <1>8, FirstsAre
  <1>11. /\ data \in Seq(Rows) /\ Len(data) = (IF Len(raw) < L THEN Len(raw) ELSE L)
         /\ \A i \in 1..Len(data) : data[i] = raw[i]
    BY <1>7, <1>9, <1>10, FirstsAre
  <1>12. Len(data) = (IF Len(Q) < L THEN Len(Q) ELSE L) /\ Len(data) \in Nat /\ Len(data) <= Len(raw)
         /\ Len(data) <= Len(Q) /\ Len(raw) \in Nat
    BY <1>5, <1>7, <1>10, <1>11
  <1>13. \A i \in 1..Len(data) : data[i] = Q[i] /\ i \in 1..Len(Q) /\ data[i] \in M
    BY <1>5, <1>10, <1>11, <1>12
  <1>14. HasNext(raw) <=> Len(Q) > L
    <2>1. Len(raw) > L <=> Len(Q) > L
      BY <1>5, <1>7, <1>10
    <2> QED BY <1>6, <2>1 DEF HasNext
  <1>15. /\ got' = got \o data
         /\ walk' = IF HasNext(raw) /\ data # << >> THEN [walk EXCEPT !.cursor = CursorOf(raw, data)]
                    ELSE [walk EXCEPT !.pc = "end"]
    BY <1>2, <1>6, <1>8, <1>9 DEF CursorPage
  <1>16. Ordered(data)
    <2> SUFFICES ASSUME NEW i \in 1..Len(data), NEW j \in 1..Len(data), i < j PROVE Follows(data[j], data[i])
      BY DEF Ordered
    <2>1. data[i] = Q[i] /\ data[j] = Q[j] /\ i \in 1..Len(Q) /\ j \in 1..Len(Q)
      BY <1>13
    <2> QED BY <1>4, <2>1 DEF Listing
  <1>17. \A i \in 1..Len(got) : \A j \in 1..Len(data) : Follows(data[j], got[i])
    BY <1>1, <1>3, <1>13, NextRowsFollow
  <1>18. Ordered(got)
    BY <1>1 DEF PageInv, CursorInv
  <1>19. Ordered(got \o data)
    BY <1>1, <1>11, <1>16, <1>17, <1>18, JoinOrdered
  <1>20. /\ got' \in Seq(Rows) /\ Len(got') = Len(got) + Len(data) /\ Len(got) \in Nat
         /\ \A r : Shows(got', r) <=> Shows(got, r) \/ Shows(data, r)
    BY <1>1, <1>11, <1>15, JoinIs
  <1>21. ASSUME NEW r \in stayed PROVE Shows(got, r) \/ \E k \in 1..Len(Q) : Q[k] = r
    <2>1. r \in pageTable
      BY <1>1
    <2>2. Shows(got, r) \/ walk.cursor = NoCursor \/ Follows(r, walk.cursor)
      BY <1>1 DEF PageInv, CursorInv
    <2>3. Shows(got, r) \/ r \in M
      BY <1>3, <2>1, <2>2 DEF Matching
    <2> QED BY <1>4, <2>3 DEF Listing
  <1>22. \A k \in 1..Len(data) : Shows(data, Q[k])
    BY <1>13 DEF Shows
  <1>23. CASE Len(Q) > L
    <2>1. Len(data) = L /\ L \in 1..Len(data) /\ data # << >>
      <3>1. Len(data) = L
        BY <1>5, <1>7, <1>12, <1>23
      <3>2. L \in 1..Len(data)
        BY <1>7, <3>1
      <3>3. Len(<< >>) = 0
        OBVIOUS
      <3> QED BY <1>7, <3>1, <3>2, <3>3
    <2>2. walk' = [walk EXCEPT !.cursor = data[L]]
      BY <1>14, <1>15, <1>23, <2>1 DEF CursorOf
    <2>3. data[L] \in Rows /\ data[L] = Q[L]
      BY <1>11, <1>13, <2>1
    <2>4. NoCursor \notin Rows
      BY PageAssumption DEF NoCursor
    <2>5. /\ walk' \in WalkRecords /\ walk'.cursor = data[L] /\ walk'.cursor # NoCursor
          /\ walk'.pc = "walk" /\ walk'.mode = "cursor" /\ walk'.dir = walk.dir
      BY <1>1, <2>2, <2>3, <2>4 DEF WalkRecords
    <2>6. PageShape'
      BY <1>1, <1>20, <2>5 DEF PageInv, PageShape
    <2>7. got' # << >> /\ got'[Len(got')] = data[L]
      <3>1. PICK s : s = got'
        OBVIOUS
      <3>2. Len(s) = Len(got) + L /\ Len(s) \in Nat /\ Len(s) # 0 /\ Len(s) \in 1..Len(s)
            /\ ~(Len(s) <= Len(got)) /\ Len(s) - Len(got) = L
        BY <1>7, <1>20, <2>1, <3>1
      <3>3. s[Len(s)] = data[Len(s) - Len(got)]
        BY <1>1, <1>11, <1>15, <3>1, <3>2, JoinIs
      <3>4. Len(<< >>) = 0
        OBVIOUS
      <3> QED BY <3>1, <3>2, <3>3, <3>4
    <2>8. ASSUME NEW r \in stayed PROVE Shows(got', r) \/ Follows(r, data[L])
      <3>1. CASE Shows(got, r)
        BY <1>20, <3>1
      <3>2. ASSUME NEW k \in 1..Len(Q), Q[k] = r PROVE Shows(got', r) \/ Follows(r, data[L])
        <4>1. CASE k \in 1..Len(data)
          BY <1>20, <1>22, <3>2, <4>1
        <4>2. CASE k \notin 1..Len(data)
          <5>1. L < k /\ L \in 1..Len(Q)
            BY <1>5, <1>7, <1>23, <2>1, <4>2
          <5>2. Follows(Q[k], Q[L])
            BY <1>4, <5>1 DEF Listing
          <5> QED BY <2>3, <3>2, <5>2
        <4> QED BY <4>1, <4>2
      <3> QED BY <1>21, <3>1, <3>2
    <2>9. Ordered(got)' /\ \A x, y : Follows(x, y)' <=> Follows(x, y)
      <3>1. \A x, y : Follows(x, y)' <=> Follows(x, y)
        BY <2>5, OrderStays
      <3> QED BY <1>15, <1>19, <3>1 DEF Ordered
    <2>10. CursorInv'
      <3>1. \A r \in stayed' : Shows(got, r)' \/ Follows(r, walk.cursor)'
        <4>1. \A r : Follows(r, walk.cursor)' <=> Follows(r, data[L])
          <5>1. \A r : Follows(r, walk.cursor)' <=> Follows(r, data[L])'
            BY <2>5 DEF Follows
          <5> QED BY <2>9, <5>1
        <4>2. \A r : Shows(got, r)' <=> Shows(got', r)
          BY DEF Shows
        <4> QED BY <1>1, <2>8, <4>1, <4>2
      <3> QED BY <2>5, <2>7, <2>9, <3>1 DEF CursorInv, NoCursor
    <2>11. OffsetInv'
      BY <2>5 DEF OffsetInv
    <2> QED BY <2>6, <2>10, <2>11 DEF PageInv
  <1>24. CASE ~(Len(Q) > L)
    <2>1. Len(data) = Len(Q)
      BY <1>5, <1>7, <1>12, <1>24
    <2>2. walk' = [walk EXCEPT !.pc = "end"]
      BY <1>14, <1>15, <1>24
    <2>3. walk' \in WalkRecords /\ walk'.pc = "end" /\ walk'.mode = "cursor" /\ walk'.dir = walk.dir
      BY <1>1, <2>2 DEF WalkRecords
    <2>4. PageShape'
      BY <1>1, <1>20, <2>3 DEF PageInv, PageShape
    <2>5. ASSUME NEW r \in stayed PROVE Shows(got', r)
      BY <1>20, <1>21, <1>22, <2>1
    <2>6. Ordered(got)'
      <3>1. \A x, y : Follows(x, y)' <=> Follows(x, y)
        BY <2>3, OrderStays
      <3> QED BY <1>15, <1>19, <3>1 DEF Ordered
    <2>7. CursorInv'
      BY <1>1, <2>3, <2>5, <2>6 DEF CursorInv, Shows
    <2>8. OffsetInv'
      BY <2>3 DEF OffsetInv
    <2> QED BY <2>4, <2>7, <2>8 DEF PageInv
  <1> QED BY <1>23, <1>24

\* A slice of the list: what an offset page holds.
LEMMA SliceIs ==
    ASSUME NEW s \in Seq(Rows), NEW o \in Nat, NEW L \in Nat, 1 <= L
    PROVE  LET m == IF o + L < Len(s) THEN o + L ELSE Len(s)
               d == SubSeq(s, o + 1, m)
           IN  /\ d \in Seq(Rows) /\ Len(d) = (IF o < m THEN m - o ELSE 0)
               /\ \A i \in 1..Len(d) : o + i \in 1..Len(s) /\ d[i] = s[o + i]
  <1>1. PICK m : m = IF o + L < Len(s) THEN o + L ELSE Len(s)
    OBVIOUS
  <1>2. PICK d : d = SubSeq(s, o + 1, m)
    OBVIOUS
  <1>3. m \in Nat /\ m <= Len(s) /\ Len(s) \in Nat
    BY <1>1
  <1>4. \A i \in (o + 1)..m : i \in 1..Len(s)
    BY <1>3
  <1>5. \A i \in (o + 1)..m : s[i] \in Rows
    BY <1>4
  <1>6. /\ d \in Seq(Rows) /\ Len(d) = (IF o + 1 <= m THEN m - (o + 1) + 1 ELSE 0)
        /\ \A i \in 1..(m - (o + 1) + 1) : d[i] = s[(o + 1) + i - 1]
    BY <1>3, <1>5, <1>2, SubSeqProperties
  <1>7. Len(d) = IF o < m THEN m - o ELSE 0
    BY <1>3, <1>6
  <1>8. ASSUME NEW i \in 1..Len(d) PROVE o + i \in 1..Len(s) /\ d[i] = s[o + i]
    <2>1. o + i \in 1..Len(s) /\ i \in 1..(m - (o + 1) + 1) /\ (o + 1) + i - 1 = o + i
      BY <1>3, <1>7
    <2> QED BY <1>6, <2>1
  <1> QED BY <1>1, <1>2, <1>6, <1>7, <1>8

\* While nothing changed, the slice goes on where the pages so far ended.
LEMMA OffsetPageKeeps ==
    ASSUME PageInv, OffsetPage
    PROVE  PageInv'
  <1>1. /\ walk \in WalkRecords /\ walk.mode = "offset" /\ walk.pc = "walk" /\ walk.limit \in 1..MaxLimit
        /\ pageTable \subseteq Rows /\ stayed \subseteq pageTable /\ got \in Seq(Rows)
        /\ UNCHANGED <<pageTable, stayed, edits>> /\ walk.offset \in Nat
    BY DEF PageInv, PageShape, OffsetPage, PageQueryOK, WalkRecords
  <1>2. PICK Q : Q = Query(NoCursor)
    OBVIOUS
  <1>3. Listing(Q, pageTable)
    <2>1. Matching(NoCursor) = pageTable
      BY DEF Matching
    <2> QED BY <1>1, <1>2, <2>1, QueryLists
  <1>4. Q \in Seq(Rows) /\ Len(Q) \in Nat
    BY <1>1, <1>3 DEF Listing
  <1>5. PICK L : L = walk.limit
    OBVIOUS
  <1>6. L \in Nat /\ 1 <= L
    BY <1>1, <1>5, PageAssumption
  <1>7. PICK o : o = walk.offset
    OBVIOUS
  <1>8. PICK m : m = IF o + L < Len(Q) THEN o + L ELSE Len(Q)
    OBVIOUS
  <1>9. PICK d : d = SubSeq(Q, o + 1, m)
    OBVIOUS
  <1>10. o \in Nat /\ m \in Nat /\ m <= Len(Q)
    BY <1>1, <1>4, <1>6, <1>7, <1>8
  <1>11. /\ d \in Seq(Rows) /\ Len(d) = (IF o < m THEN m - o ELSE 0)
         /\ \A i \in 1..Len(d) : o + i \in 1..Len(Q) /\ d[i] = Q[o + i]
    BY <1>4, <1>6, <1>8, <1>9, <1>10, SliceIs
  <1>12. /\ got' = got \o d
         /\ walk' = IF o + Len(d) < Len(Q) THEN [walk EXCEPT !.offset = @ + L] ELSE [walk EXCEPT !.pc = "end"]
    BY <1>2, <1>5, <1>7, <1>8, <1>9 DEF OffsetPage, OffsetHasNext
  <1>13. /\ walk' \in WalkRecords /\ walk'.mode = "offset" /\ walk'.dir = walk.dir
         /\ o + Len(d) < Len(Q) => walk'.pc = "walk" /\ walk'.offset = o + L
         /\ ~(o + Len(d) < Len(Q)) => walk'.pc = "end"
    <2>1. walk.offset + L \in Nat
      BY <1>1, <1>6
    <2> QED BY <1>1, <1>7, <1>12, <2>1 DEF WalkRecords
  <1>14. /\ got' \in Seq(Rows) /\ Len(got') = Len(got) + Len(d) /\ Len(got) \in Nat /\ Len(d) \in Nat
         /\ \A i \in 1..Len(got') : IF i <= Len(got) THEN i \in 1..Len(got) /\ got'[i] = got[i]
                                    ELSE i - Len(got) \in 1..Len(d) /\ got'[i] = d[i - Len(got)]
    BY <1>1, <1>11, <1>12, JoinIs
  <1>15. PageShape'
    BY <1>1, <1>13, <1>14 DEF PageInv, PageShape
  <1>16. CursorInv'
    BY <1>13 DEF CursorInv
  <1>17. ASSUME edits = 0 PROVE OffsetInv'
    <2>1. /\ o = Len(got) /\ o <= Len(Q) /\ stayed = pageTable
          /\ \A i \in 1..Len(got) : got[i] = Q[i]
      BY <1>1, <1>2, <1>7, <1>17 DEF PageInv, PageShape, OffsetInv
    <2>2. Len(got') = m /\ o <= m
      <3>1. o <= m
        BY <1>4, <1>6, <1>8, <1>10, <2>1
      <3>2. Len(d) = m - o
        BY <1>10, <1>11, <3>1
      <3> QED BY <1>10, <1>14, <2>1, <3>1, <3>2
    <2>3. ASSUME NEW i \in 1..Len(got') PROVE got'[i] = Q[i] /\ i \in 1..Len(Q)
      <3>1. i \in 1..Len(Q)
        BY <1>4, <1>10, <2>2
      <3>2. CASE i <= Len(got)
        BY <1>14, <2>1, <3>1, <3>2
      <3>3. CASE ~(i <= Len(got))
        <4>1. i - o \in 1..Len(d) /\ got'[i] = d[i - o]
          BY <1>14, <2>1, <3>3
        <4>2. o + (i - o) = i
          BY <1>10
        <4> QED BY <1>11, <3>1, <4>1, <4>2
      <3> QED BY <3>2, <3>3
    <2>4. Ordered(got)'
      <3>1. \A x, y : Follows(x, y)' <=> Follows(x, y)
        BY <1>13, OrderStays
      <3>2. \A i, j \in 1..Len(got') : i < j => Follows(got'[j], got'[i])
        BY <1>3, <2>3 DEF Listing
      <3> QED BY <3>1, <3>2 DEF Ordered
    <2>5. Query(NoCursor)' = Q
      BY <1>1, <1>2, <1>13, ListStays
    <2>6. CASE o + Len(d) < Len(Q)
      <3>1. m < Len(Q) /\ m = o + L
        <4>1. m < Len(Q)
          BY <1>4, <1>10, <1>14, <2>1, <2>2, <2>6
        <4> QED BY <1>4, <1>6, <1>8, <1>10, <4>1
      <3>2. walk'.pc = "walk" /\ walk'.offset = Len(got') /\ walk'.offset <= Len(Q)
        BY <1>10, <1>13, <2>2, <2>6, <3>1
      <3> QED BY <2>3, <2>4, <2>5, <3>2 DEF OffsetInv
    <2>7. CASE ~(o + Len(d) < Len(Q))
      <3>1. Len(got') = Len(Q)
        BY <1>4, <1>10, <1>14, <2>1, <2>2, <2>7
      <3>2. \A r \in stayed' : Shows(got, r)'
        BY <1>1, <1>3, <2>1, <2>3, <3>1 DEF Listing, Shows
      <3> QED BY <1>13, <2>4, <2>7, <3>2 DEF OffsetInv
    <2> QED BY <2>6, <2>7
  <1>18. ASSUME edits # 0 PROVE OffsetInv'
    BY <1>1, <1>18 DEF OffsetInv
  <1> QED BY <1>15, <1>16, <1>17, <1>18 DEF PageInv

\* A step that changes nothing of the walk.
LEMMA PageStutters == PageInv /\ UNCHANGED pageVars => PageInv'
  <1> SUFFICES ASSUME PageInv, UNCHANGED pageVars PROVE PageInv'
    OBVIOUS
  <1>1. walk' = walk /\ pageTable' = pageTable /\ got' = got /\ stayed' = stayed /\ edits' = edits
    BY DEF pageVars
  <1>2. Query(NoCursor)' = Query(NoCursor)
    BY <1>1, ListStays
  <1>3. PageShape'
    BY <1>1 DEF PageInv, PageShape
  <1>4. CursorInv'
    BY <1>1 DEF PageInv, CursorInv, Ordered, Shows, Follows
  <1>5. OffsetInv'
    BY <1>1, <1>2 DEF PageInv, OffsetInv, Ordered, Shows, Follows
  <1> QED BY <1>3, <1>4, <1>5 DEF PageInv

\* Every step keeps the invariant.
LEMMA PageStepInv == PageInv /\ [PageNext]_pageVars => PageInv'
  <1> SUFFICES ASSUME PageInv, [PageNext]_pageVars PROVE PageInv'
    OBVIOUS
  <1>1. CASE Refuse \/ Tampered
    BY <1>1, RefusedKeeps DEF Refuse, Tampered
  <1>2. CASE CursorPage
    BY <1>2, CursorPageKeeps
  <1>3. CASE OffsetPage
    BY <1>3, OffsetPageKeeps
  <1>4. CASE \E r \in Rows : Edit(r)
    BY <1>4, EditKeeps
  <1>5. CASE UNCHANGED pageVars
    BY <1>5, PageStutters
  <1> QED BY <1>1, <1>2, <1>3, <1>4, <1>5 DEF PageNext

\* The invariant says that the walk is complete.
LEMMA PageInvSafe == PageInv => WalkComplete
  <1> SUFFICES ASSUME PageInv, walk.mode = "cursor" \/ edits = 0
               PROVE  /\ \A i, j \in DOMAIN got : i < j => Follows(got[j], got[i])
                      /\ walk.pc = "end" => stayed \subseteq ToSet(got)
    BY DEF WalkComplete
  <1>1. got \in Seq(Rows) /\ walk.mode \in {"cursor", "offset"}
    BY DEF PageInv, PageShape, WalkRecords
  <1>2. DOMAIN got = 1..Len(got)
    BY <1>1
  <1>3. Ordered(got) /\ (walk.pc = "end" => \A r \in stayed : Shows(got, r))
    BY <1>1 DEF PageInv, CursorInv, OffsetInv
  <1>4. \A r : Shows(got, r) => r \in ToSet(got)
    BY <1>2 DEF Shows, ToSet
  <1> QED BY <1>2, <1>3, <1>4 DEF Ordered

\* For any finite table, any limits and any edits between two pages: a cursor walk shows no row
\* twice and in order, and misses none that stayed; so does an offset walk of a table at rest.
THEOREM WalkHolds == PageSpec => []WalkComplete
  <1>1. PageSpec => []PageInv
    BY PageInitInv, PageStepInv, PTL DEF PageSpec
  <1> QED BY <1>1, PageInvSafe, PTL

-----------------------------------------------------------------------------
(***************************************************************************)
(* Telemetry, for any labels, limit, paths, queues, jobs and timings:      *)
(* every point is in one series, who has a series of its own gets all of   *)
(* its points, and the label of a job that began never changes again.      *)
(***************************************************************************)

\* A set of naturals has a least element.
LEMMA LeastNat ==
    ASSUME NEW S, S \subseteq Nat, S # {}
    PROVE  \E m \in S : \A k \in S : m <= k
  <1>1. PICK R : R = OpToRel(<, Nat)
    OBVIOUS
  <1>2. IsWellFoundedOn(R, Nat)
    BY <1>1, NatLessThanWellFounded
  <1>3. PICK m \in S : \A k \in S : <<k, m>> \notin R
    BY <1>2, WFMin
  <1>4. \A k \in S : ~(k < m)
    BY <1>1, <1>3 DEF OpToRel
  <1>5. \A k \in S : m <= k
    BY <1>4
  <1> QED BY <1>5

Pick(s) == CHOOSE x \in s : TRUE
\* h adds f up over the sets of sets.
Adds(h, f, sets) ==
    /\ h \in [sets -> Nat]
    /\ \A s \in sets : h[s] = IF s = {} THEN 0 ELSE f[Pick(s)] + h[s \ {Pick(s)}]

\* A set without the element that was picked.
LEMMA PickIs ==
    ASSUME NEW D, IsFiniteSet(D), NEW s \in SUBSET D, s # {}
    PROVE  /\ Pick(s) \in s /\ s \ {Pick(s)} \in SUBSET D
           /\ IsFiniteSet(s) /\ Cardinality(s) \in Nat \ {0} /\ Cardinality(s \ {Pick(s)}) = Cardinality(s) - 1
  <1>1. Pick(s) \in s
    BY DEF Pick
  <1>2. IsFiniteSet(s) /\ Cardinality(s) \in Nat
    BY FS_Subset, FS_CardinalityType
  <1>3. Cardinality(s) # 0
    BY <1>2, FS_EmptySet
  <1>4. Cardinality(s \ {Pick(s)}) = Cardinality(s) - 1
    BY <1>1, <1>2, FS_RemoveElement
  <1> QED BY <1>1, <1>2, <1>3, <1>4

Small(D, n) == {s \in SUBSET D : Cardinality(s) <= n}

\* A function on a finite set can be added up: the least size that could not be reached could.
LEMMA AddsExist ==
    ASSUME NEW D, IsFiniteSet(D), NEW f \in [D -> Nat]
    PROVE  \E h : Adds(h, f, SUBSET D)
  <1>1. PICK S : S = {n \in Nat : ~ \E h : Adds(h, f, Small(D, n))}
    OBVIOUS
  <1>2. ASSUME S # {} PROVE FALSE
    <2>1. PICK m \in S : \A k \in S : m <= k
      BY <1>1, <1>2, LeastNat
    <2>2. m \in Nat /\ ~ \E h : Adds(h, f, Small(D, m))
      BY <1>1, <2>1
    <2>3. CASE m = 0
      <3>1. \A s \in Small(D, 0) : s = {}
        <4> SUFFICES ASSUME NEW s \in Small(D, 0), s # {} PROVE FALSE
          OBVIOUS
        <4>1. Cardinality(s) \in Nat \ {0} /\ Cardinality(s) <= 0
          BY PickIs DEF Small
        <4> QED BY <4>1
      <3>2. PICK h : h = [s \in Small(D, 0) |-> 0]
        OBVIOUS
      <3>3. Adds(h, f, Small(D, 0))
        BY <3>1, <3>2 DEF Adds
      <3> QED BY <2>2, <2>3, <3>3
    <2>4. CASE m # 0
      <3>1. m - 1 \in Nat /\ m - 1 \notin S
        BY <2>1, <2>2, <2>4
      <3>2. PICK g : Adds(g, f, Small(D, m - 1))
        BY <1>1, <3>1
      <3>3. PICK h : h = [s \in Small(D, m) |-> IF s = {} THEN 0 ELSE f[Pick(s)] + g[s \ {Pick(s)}]]
        OBVIOUS
      <3>4. ASSUME NEW s \in Small(D, m), s # {}
            PROVE  /\ s \ {Pick(s)} \in Small(D, m - 1) /\ s \ {Pick(s)} \in Small(D, m) /\ f[Pick(s)] \in Nat
                   /\ g[s \ {Pick(s)}] \in Nat
        <4>1. /\ Pick(s) \in D /\ s \ {Pick(s)} \in SUBSET D /\ Cardinality(s) \in Nat \ {0} /\ Cardinality(s) <= m
              /\ Cardinality(s \ {Pick(s)}) = Cardinality(s) - 1
          BY <3>4, PickIs DEF Small
        <4>2. PICK k : k = Cardinality(s)
          OBVIOUS
        <4>3. k - 1 <= m - 1 /\ k - 1 <= m
          BY <2>2, <4>1, <4>2
        <4>4. s \ {Pick(s)} \in Small(D, m - 1) /\ s \ {Pick(s)} \in Small(D, m)
          BY <4>1, <4>2, <4>3 DEF Small
        <4> QED BY <3>2, <4>1, <4>4 DEF Adds
      <3>5. ASSUME NEW s \in Small(D, m) PROVE h[s] \in Nat
        <4>1. CASE s = {}
          BY <3>3, <4>1
        <4>2. CASE s # {}
          <5>1. h[s] = f[Pick(s)] + g[s \ {Pick(s)}]
            BY <3>3, <4>2
          <5>2. f[Pick(s)] \in Nat /\ g[s \ {Pick(s)}] \in Nat
            BY <3>4, <4>2
          <5> QED BY <5>1, <5>2
        <4> QED BY <4>1, <4>2
      <3>6. ASSUME NEW s \in Small(D, m - 1) PROVE s \in Small(D, m) /\ h[s] = g[s]
        <4>1. s \in SUBSET D /\ Cardinality(s) <= m - 1 /\ IsFiniteSet(s)
          BY FS_Subset DEF Small
        <4>2. Cardinality(s) \in Nat
          BY <4>1, FS_CardinalityType
        <4>3. Cardinality(s) <= m
          BY <2>2, <4>1, <4>2
        <4>4. s \in Small(D, m)
          BY <4>1, <4>3 DEF Small
        <4>5. g[s] = IF s = {} THEN 0 ELSE f[Pick(s)] + g[s \ {Pick(s)}]
          BY <3>2 DEF Adds
        <4> QED BY <3>3, <4>4, <4>5
      <3>7. Adds(h, f, Small(D, m))
        <4>1. h \in [Small(D, m) -> Nat]
          BY <3>3, <3>5
        <4>2. \A s \in Small(D, m) : h[s] = IF s = {} THEN 0 ELSE f[Pick(s)] + h[s \ {Pick(s)}]
          BY <3>3, <3>4, <3>6
        <4> QED BY <4>1, <4>2 DEF Adds
      <3> QED BY <2>2, <3>7
    <2> QED BY <2>3, <2>4
  <1>3. Cardinality(D) \in Nat
    BY FS_CardinalityType
  <1>4. Small(D, Cardinality(D)) = SUBSET D
    BY FS_Subset DEF Small
  <1>5. Cardinality(D) \notin S
    BY <1>2
  <1> QED BY <1>1, <1>3, <1>4, <1>5

\* What SumFunction is: it adds up over all subsets.
LEMMA SumIs ==
    ASSUME NEW D, IsFiniteSet(D), NEW f \in [D -> Nat]
    PROVE  \E h : Adds(h, f, SUBSET D) /\ SumFunction(f) = h[D]
  <1>1. PICK h : h = CHOOSE g : g = [s \in SUBSET D |-> IF s = {} THEN 0 ELSE f[Pick(s)] + g[s \ {Pick(s)}]]
    OBVIOUS
  <1>2. SumFunction(f) = h[D]
    BY <1>1 DEF SumFunction, SumFunctionOnSet, FoldFunctionOnSet, MapThenFoldSet, Pick
  <1>3. PICK e : Adds(e, f, SUBSET D)
    BY AddsExist
  <1>4. e = [s \in SUBSET D |-> IF s = {} THEN 0 ELSE f[Pick(s)] + e[s \ {Pick(s)}]]
    BY <1>3 DEF Adds
  <1>5. h = [s \in SUBSET D |-> IF s = {} THEN 0 ELSE f[Pick(s)] + h[s \ {Pick(s)}]]
    BY <1>1, <1>4
  <1>6. PICK B : B = {s \in SUBSET D : h[s] # e[s]}
    OBVIOUS
  <1>7. B = {}
    <2> SUFFICES ASSUME B # {} PROVE FALSE
      OBVIOUS
    <2>1. PICK N : N = {Cardinality(s) : s \in B}
      OBVIOUS
    <2>2. N \subseteq Nat /\ N # {}
      BY <1>6, <2>1, FS_Subset, FS_CardinalityType
    <2>3. PICK m \in N : \A k \in N : m <= k
      BY <2>2, LeastNat
    <2>4. PICK s \in B : Cardinality(s) = m
      BY <2>1, <2>3
    <2>5. s \in SUBSET D /\ h[s] # e[s] /\ s # {}
      BY <1>4, <1>5, <1>6
    <2>6. s \ {Pick(s)} \in SUBSET D /\ m \in Nat /\ Cardinality(s \ {Pick(s)}) = m - 1
      BY <2>4, <2>5, PickIs
    <2>7. s \ {Pick(s)} \notin B
      <3>1. ASSUME s \ {Pick(s)} \in B PROVE FALSE
        <4>1. m - 1 \in N
          BY <2>1, <2>6, <3>1
        <4>2. m <= m - 1
          BY <2>3, <4>1
        <4> QED BY <2>6, <4>2
      <3> QED BY <3>1
    <2>8. h[s \ {Pick(s)}] = e[s \ {Pick(s)}]
      BY <1>6, <2>6, <2>7
    <2> QED BY <1>4, <1>5, <2>5, <2>8
  <1>8. h = e
    BY <1>4, <1>5, <1>6, <1>7
  <1> QED BY <1>2, <1>3, <1>8

\* One more at one place is one more in the sum.
LEMMA SumPlus ==
    ASSUME NEW D, IsFiniteSet(D), NEW f \in [D -> Nat], NEW x \in D
    PROVE  /\ SumFunction(f) \in Nat
           /\ SumFunction([f EXCEPT ![x] = @ + 1]) = SumFunction(f) + 1
  <1>1. PICK g : g = [f EXCEPT ![x] = @ + 1]
    OBVIOUS
  <1>2. g \in [D -> Nat] /\ \A y \in D : g[y] = IF y = x THEN f[y] + 1 ELSE f[y]
    BY <1>1
  <1>3. PICK h : Adds(h, f, SUBSET D) /\ SumFunction(f) = h[D]
    BY SumIs
  <1>4. PICK e : Adds(e, g, SUBSET D) /\ SumFunction(g) = e[D]
    BY <1>2, SumIs
  <1>5. PICK B : B = {s \in SUBSET D : e[s] # h[s] + (IF x \in s THEN 1 ELSE 0)}
    OBVIOUS
  <1>6. B = {}
    <2> SUFFICES ASSUME B # {} PROVE FALSE
      OBVIOUS
    <2>1. PICK N : N = {Cardinality(s) : s \in B}
      OBVIOUS
    <2>2. N \subseteq Nat /\ N # {}
      BY <1>5, <2>1, FS_Subset, FS_CardinalityType
    <2>3. PICK m \in N : \A k \in N : m <= k
      BY <2>2, LeastNat
    <2>4. PICK s \in B : Cardinality(s) = m
      BY <2>1, <2>3
    <2>5. s \in SUBSET D /\ e[s] # h[s] + (IF x \in s THEN 1 ELSE 0)
      BY <1>5
    <2>6. h[{}] = 0 /\ e[{}] = 0
      BY <1>3, <1>4 DEF Adds
    <2>7. s # {}
      BY <2>5, <2>6
    <2>8. PICK p : p = Pick(s)
      OBVIOUS
    <2>9. PICK r : r = s \ {p}
      OBVIOUS
    <2>10. r \in SUBSET D /\ m \in Nat /\ Cardinality(r) = m - 1 /\ p \in s /\ p \in D
      BY <2>4, <2>5, <2>7, <2>8, <2>9, PickIs
    <2>11. r \notin B
      <3>1. ASSUME r \in B PROVE FALSE
        <4>1. m - 1 \in N
          BY <2>1, <2>10, <3>1
        <4>2. m <= m - 1
          BY <2>3, <4>1
        <4> QED BY <2>10, <4>2
      <3> QED BY <3>1
    <2>12. e[r] = h[r] + (IF x \in r THEN 1 ELSE 0)
      BY <1>5, <2>10, <2>11
    <2>13. h[s] = f[p] + h[r] /\ e[s] = g[p] + e[r]
      BY <1>3, <1>4, <2>5, <2>7, <2>8, <2>9 DEF Adds
    <2>14. h[r] \in Nat /\ f[p] \in Nat
      BY <1>3, <2>10 DEF Adds
    <2>15. CASE p = x
      <3>1. x \notin r /\ x \in s
        BY <2>9, <2>10, <2>15
      <3>2. e[r] = h[r] /\ g[p] = f[p] + 1
        BY <1>2, <2>10, <2>12, <2>14, <2>15, <3>1
      <3>3. e[s] = h[s] + 1
        BY <2>13, <2>14, <3>2
      <3> QED BY <2>5, <3>1, <3>3
    <2>16. CASE p # x
      <3>1. x \in r <=> x \in s
        BY <2>9, <2>16
      <3>2. g[p] = f[p]
        BY <1>2, <2>10, <2>16
      <3>3. e[s] = h[s] + (IF x \in s THEN 1 ELSE 0)
        <4>1. CASE x \in s
          BY <2>12, <2>13, <2>14, <3>1, <3>2, <4>1
        <4>2. CASE x \notin s
          BY <2>12, <2>13, <2>14, <3>1, <3>2, <4>2
        <4> QED BY <4>1, <4>2
      <3> QED BY <2>5, <3>3
    <2> QED BY <2>15, <2>16
  <1>7. e[D] = h[D] + 1 /\ h[D] \in Nat
    <2>1. D \in SUBSET D /\ D \notin B /\ x \in D
      BY <1>6
    <2>2. e[D] = h[D] + 1
      BY <1>5, <2>1
    <2> QED BY <1>3, <2>2 DEF Adds
  <1> QED BY <1>1, <1>3, <1>4, <1>7

\* Nothing adds up to nothing.
LEMMA SumZero ==
    ASSUME NEW D, IsFiniteSet(D), NEW f, f = [y \in D |-> 0]
    PROVE  SumFunction(f) = 0
  <1>1. f \in [D -> Nat] /\ \A y \in D : f[y] = 0
    OBVIOUS
  <1>2. PICK h : Adds(h, f, SUBSET D) /\ SumFunction(f) = h[D]
    BY <1>1, SumIs
  <1>3. PICK B : B = {s \in SUBSET D : h[s] # 0}
    OBVIOUS
  <1>4. B = {}
    <2> SUFFICES ASSUME B # {} PROVE FALSE
      OBVIOUS
    <2>1. PICK N : N = {Cardinality(s) : s \in B}
      OBVIOUS
    <2>2. N \subseteq Nat /\ N # {}
      BY <1>3, <2>1, FS_Subset, FS_CardinalityType
    <2>3. PICK m \in N : \A k \in N : m <= k
      BY <2>2, LeastNat
    <2>4. PICK s \in B : Cardinality(s) = m
      BY <2>1, <2>3
    <2>5. s \in SUBSET D /\ h[s] # 0 /\ s # {}
      BY <1>2, <1>3 DEF Adds
    <2>6. s \ {Pick(s)} \in SUBSET D /\ m \in Nat /\ Cardinality(s \ {Pick(s)}) = m - 1 /\ Pick(s) \in D
      BY <2>4, <2>5, PickIs
    <2>7. s \ {Pick(s)} \notin B
      <3>1. ASSUME s \ {Pick(s)} \in B PROVE FALSE
        <4>1. m - 1 \in N
          BY <2>1, <2>6, <3>1
        <4>2. m <= m - 1
          BY <2>3, <4>1
        <4> QED BY <2>6, <4>2
      <3> QED BY <3>1
    <2>8. h[s \ {Pick(s)}] = 0 /\ f[Pick(s)] = 0
      BY <1>1, <1>3, <2>6, <2>7
    <2>9. h[s] = 0
      BY <1>2, <2>5, <2>8 DEF Adds
    <2> QED BY <2>5, <2>9
  <1> QED BY <1>2, <1>3, <1>4

-----------------------------------------------------------------------------
TimedRecords == [pc : {"idle", "run", "ended"}, job : Jobs \cup {Overflow}, early : BOOLEAN]

TelemetryShape ==
    /\ options \in Options /\ sdk \in {"none", "running", "shut"}
    /\ registered = (IF sdk = "none" THEN 0 ELSE 1)
    /\ seen \in [Labels -> SUBSET Texts] /\ series \in [Labels -> [Values -> Nat]]
    /\ asked \in [Labels -> [Texts -> Nat]] /\ dropped \in [Labels -> Nat]
    /\ failures \in [Values -> Int] /\ exported \in [Values -> Int]
    /\ timed \in [Timed -> TimedRecords] /\ fresh \subseteq Jobs

Full(l) == ~(Cardinality(seen[l]) < LabelLimit)

\* The series of a label: only what was seen has one, what was not seen when it was asked for met a
\* full label, and who has a series has all its points.
LabelFits(l) ==
    /\ Cardinality(seen[l]) <= LabelLimit
    /\ \A v \in Values : series[l][v] > 0 => v \in seen[l] \cup {Overflow}
    /\ SumFunction(series[l]) + dropped[l] = SumFunction(asked[l])
    /\ \A t \in Texts : asked[l][t] > 0 => t \in seen[l] \/ Full(l)
    /\ dropped[l] = 0 => \A t \in seen[l] : series[l][t] = asked[l][t]

\* The label of this job will not change any more.
Settled(job) == job \in seen["job_name"] \/ Full("job_name")

Ended == {c \in Timed : timed[c].pc = "ended"}
FailureFits ==
    \A v \in Values : -1 <= exported[v] /\ exported[v] <= failures[v] /\ failures[v] <= Cardinality(Ended)

\* A run: its failure series is there, and was exported if the run began before the last export.
TimedFits(c) ==
    /\ timed[c].pc # "idle" =>
          timed[c].job \in Jobs /\ Settled(timed[c].job) /\ failures[JobLabel(timed[c].job)] # -1
    /\ timed[c].early => timed[c].pc # "idle" /\ exported[JobLabel(timed[c].job)] # -1

\* A failure that counts as an increase: the backend has a lower sample of its series.
FreshFits(job) ==
    Settled(job) /\ exported[JobLabel(job)] # -1 /\ exported[JobLabel(job)] < failures[JobLabel(job)]

TelemetryInv ==
    /\ TelemetryShape /\ (\A l \in Labels : LabelFits(l)) /\ NoIdInRoute /\ SdkAsMeant /\ FailureFits
    /\ (\A c \in Timed : TimedFits(c)) /\ \A job \in fresh : FreshFits(job)

\* The texts are finitely many, and none is the overflow's.
LEMMA TextsAre ==
    /\ IsFiniteSet(Texts) /\ IsFiniteSet(Values) /\ Overflow \notin Texts
    /\ Texts \subseteq Values /\ Overflow \in Values /\ Jobs \subseteq Texts /\ Queued \subseteq Texts
    /\ \A p \in Paths : Template(p) \in Texts
    /\ \A p \in Paths : \A i \in DOMAIN Template(p) : Template(p)[i].kind \notin {"uuid", "number", "opaque"}
  <1>1. PICK Q : Q = {[i \in DOMAIN p |-> IF p[i].kind = "word" THEN p[i] ELSE [kind |-> "id", of |-> 0]] : p \in Paths}
    OBVIOUS
  <1>2. Texts = Paths \cup Q \cup Queued \cup Jobs /\ Values = Texts \cup {Overflow}
    BY <1>1 DEF Texts, Values
  <1>3. IsFiniteSet(Q)
    <2>1. PICK F : F = [p \in Paths |-> [i \in DOMAIN p |-> IF p[i].kind = "word" THEN p[i] ELSE [kind |-> "id", of |-> 0]]]
      OBVIOUS
    <2>2. F \in [Paths -> Q] /\ \A q \in Q : \E p \in Paths : F[p] = q
      BY <1>1, <2>1
    <2>3. F \in Surjection(Paths, Q)
      BY <2>2 DEF Surjection
    <2> QED BY <2>3, TelemetryAssumption, FS_Surjection
  <1>4. IsFiniteSet(Texts)
    <2>1. IsFiniteSet(Paths \cup Q)
      BY <1>3, TelemetryAssumption, FS_Union
    <2>2. IsFiniteSet(Paths \cup Q \cup Queued)
      BY <2>1, TelemetryAssumption, FS_Union
    <2> QED BY <1>2, <2>2, TelemetryAssumption, FS_Union
  <1>5. IsFiniteSet(Values)
    BY <1>2, <1>4, FS_AddElement
  <1>6. ASSUME NEW p \in Paths \cup Queued \cup Jobs
        PROVE  \A i \in DOMAIN p : p[i].kind \in {"word", "uuid", "number", "opaque"}
    <2>1. PICK R : R = [kind : {"word", "uuid", "number", "opaque"}, of : Int]
      OBVIOUS
    <2>2. p \in Seq(R)
      BY <2>1, TelemetryAssumption
    <2>3. \A i \in DOMAIN p : p[i] \in R
      BY <2>2
    <2> QED BY <2>1, <2>3
  <1>7. \A t \in Texts : t[1].kind # "__other__" \/ DOMAIN t # {1}
    <2> SUFFICES ASSUME NEW t \in Texts, DOMAIN t = {1} PROVE t[1].kind # "__other__"
      OBVIOUS
    <2>1. CASE t \in Paths \cup Queued \cup Jobs
      <3>1. t[1].kind \in {"word", "uuid", "number", "opaque"}
        BY <1>6, <2>1
      <3> QED BY <3>1
    <2>2. CASE t \in Q
      <3>1. PICK p \in Paths : t = [i \in DOMAIN p |-> IF p[i].kind = "word" THEN p[i] ELSE [kind |-> "id", of |-> 0]]
        BY <1>1, <2>2
      <3>2. 1 \in DOMAIN p
        BY <3>1
      <3>3. t[1].kind \in {"word", "id"}
        BY <3>1, <3>2
      <3> QED BY <3>3
    <2> QED BY <1>2, <2>1, <2>2
  <1>8. Overflow[1].kind = "__other__" /\ DOMAIN Overflow = {1}
    BY DEF Overflow
  <1>9. Overflow \notin Texts
    BY <1>7, <1>8
  <1>10. ASSUME NEW p \in Paths
         PROVE  /\ Template(p) \in Texts
                /\ \A i \in DOMAIN Template(p) : Template(p)[i].kind \notin {"uuid", "number", "opaque"}
    <2>1. \A i \in DOMAIN p : p[i].kind \in {"word", "uuid", "number", "opaque"}
      BY <1>6
    <2>2. Template(p) = [i \in DOMAIN p |-> IF p[i].kind = "word" THEN p[i] ELSE [kind |-> "id", of |-> 0]]
      BY <2>1 DEF Template
    <2>3. Template(p) \in Q
      BY <1>1, <2>2
    <2>4. \A i \in DOMAIN Template(p) : Template(p)[i].kind \in {"word", "id"}
      BY <2>2
    <2> QED BY <1>2, <2>3, <2>4
  <1> QED BY <1>2, <1>4, <1>5, <1>9, <1>10

\* Initially nothing is recorded.
LEMMA TelemetryInitInv == TelemetryInit => TelemetryInv
  <1> SUFFICES ASSUME TelemetryInit PROVE TelemetryInv
    OBVIOUS
  <1>1. TelemetryShape
    <2>1. Zero \in [Values -> Nat]
      BY DEF Zero
    <2>2. \A c \in Timed : timed[c] \in TimedRecords
      BY DEF TelemetryInit, TimedRecords
    <2>3. timed \in [Timed -> TimedRecords]
      BY <2>2 DEF TelemetryInit
    <2>4. asked \in [Labels -> [Texts -> Nat]] /\ dropped \in [Labels -> Nat] /\ seen \in [Labels -> SUBSET Texts]
      BY DEF TelemetryInit
    <2>5. failures \in [Values -> Int] /\ exported \in [Values -> Int]
      BY DEF TelemetryInit
    <2>6. series \in [Labels -> [Values -> Nat]]
      BY <2>1 DEF TelemetryInit
    <2>7. options \in Options /\ sdk = "none" /\ registered = 0 /\ fresh = {}
      BY DEF TelemetryInit
    <2> QED BY <2>3, <2>4, <2>5, <2>6, <2>7 DEF TelemetryShape
  <1>2. ASSUME NEW l \in Labels PROVE LabelFits(l)
    <2>1. seen[l] = {} /\ series[l] = Zero /\ asked[l] = [t \in Texts |-> 0] /\ dropped[l] = 0
      BY DEF TelemetryInit
    <2>2. Cardinality({}) = 0
      BY FS_EmptySet
    <2>3. SumFunction(series[l]) = 0 /\ SumFunction(asked[l]) = 0
      BY <2>1, TextsAre, SumZero DEF Zero
    <2>4. \A v \in Values : series[l][v] = 0
      BY <2>1 DEF Zero
    <2>5. LabelLimit \in Nat
      BY TelemetryAssumption
    <2> QED BY <2>1, <2>2, <2>3, <2>4, <2>5 DEF LabelFits
  <1>3. NoIdInRoute
    BY TelemetryAssumption DEF TelemetryInit, NoIdInRoute
  <1>4. SdkAsMeant
    BY DEF TelemetryInit, SdkAsMeant
  <1>5. FailureFits
    <2>1. IsFiniteSet(Ended)
      BY TelemetryAssumption, FS_Subset DEF Ended
    <2>2. Cardinality(Ended) \in Nat
      BY <2>1, FS_CardinalityType
    <2> QED BY <2>2 DEF TelemetryInit, FailureFits
  <1>6. ASSUME NEW c \in Timed PROVE TimedFits(c)
    BY DEF TelemetryInit, TimedFits
  <1>7. fresh = {}
    BY DEF TelemetryInit
  <1> QED BY <1>1, <1>2, <1>3, <1>4, <1>5, <1>6, <1>7 DEF TelemetryInv

-----------------------------------------------------------------------------
\* A label that takes a text: below its limit it has it then, and at the limit it stays as it is.
Takes(l, t) ==
    /\ seen' \in [Labels -> SUBSET Texts] /\ (\A k \in Labels : k # l => seen'[k] = seen[k])
    /\ seen[l] \subseteq seen'[l] /\ seen'[l] \subseteq seen[l] \cup {t} /\ Cardinality(seen'[l]) <= LabelLimit
    /\ Full(l) => seen'[l] = seen[l]
    /\ t \in seen'[l] \/ Full(l)
    /\ Bound(l, t) \in Values /\ (Bound(l, t) = IF t \in seen'[l] THEN t ELSE Overflow)

\* LabelCardinalityGuard.bound.
LEMMA BoundTakes ==
    ASSUME TelemetryShape, NEW l \in Labels, LabelFits(l), NEW t \in Texts, seen' = Seen(l, t)
    PROVE  Takes(l, t)
  <1>1. seen \in [Labels -> SUBSET Texts] /\ LabelLimit \in Nat /\ Cardinality(seen[l]) <= LabelLimit
    BY TelemetryAssumption DEF TelemetryShape, LabelFits
  <1>2. IsFiniteSet(seen[l]) /\ Cardinality(seen[l]) \in Nat
    BY <1>1, TextsAre, FS_Subset, FS_CardinalityType
  <1>3. t # Overflow /\ t \in Values /\ Overflow \in Values /\ Overflow \notin Texts
    BY TextsAre
  <1>4. CASE t \in seen[l]
    <2>1. Bound(l, t) = t
      BY <1>4 DEF Bound
    <2>2. seen' = seen
      BY <1>1, <1>4, <2>1 DEF Seen
    <2> QED BY <1>1, <1>3, <1>4, <2>1, <2>2 DEF Takes
  <1>5. CASE t \notin seen[l] /\ Full(l)
    <2>1. Bound(l, t) = Overflow
      BY <1>5 DEF Bound, Full
    <2>2. seen' = seen
      BY <1>1, <2>1 DEF Seen
    <2> QED BY <1>1, <1>3, <1>5, <2>1, <2>2 DEF Takes
  <1>6. CASE t \notin seen[l] /\ ~Full(l)
    <2>1. Bound(l, t) = t /\ Cardinality(seen[l]) < LabelLimit
      BY <1>6 DEF Bound, Full
    <2>2. seen' = [seen EXCEPT ![l] = @ \cup {t}]
      BY <1>3, <2>1 DEF Seen
    <2>3. seen'[l] = seen[l] \cup {t} /\ seen' \in [Labels -> SUBSET Texts] /\ \A k \in Labels : k # l => seen'[k] = seen[k]
      BY <1>1, <2>2
    <2>4. Cardinality(seen[l] \cup {t}) = Cardinality(seen[l]) + 1
      BY <1>2, <1>6, FS_AddElement
    <2>5. Cardinality(seen'[l]) <= LabelLimit
      BY <1>1, <1>2, <2>1, <2>3, <2>4
    <2> QED BY <1>3, <1>6, <2>1, <2>3, <2>5 DEF Takes
  <1> QED BY <1>4, <1>5, <1>6

\* A label that is full stays full.
LEMMA FullStays ==
    ASSUME NEW l, Full(l), seen'[l] = seen[l]
    PROVE  Full(l)'
  BY DEF Full

\* What happens to a label only grows it, and not at its limit.
Lasts == \A l \in Labels : seen[l] \subseteq seen'[l] /\ (Full(l) => seen'[l] = seen[l])

\* Taking a text is such a step, and so is leaving the labels alone.
LEMMA TakesLasts ==
    ASSUME NEW l \in Labels, NEW t, Takes(l, t)
    PROVE  Lasts
  BY DEF Takes, Lasts

\* The label of a job that began stays the same.
LEMMA SettledStays ==
    ASSUME Lasts, NEW job, Settled(job)
    PROVE  Settled(job)' /\ JobLabel(job)' = JobLabel(job)
  <1>1. "job_name" \in Labels
    BY TelemetryAssumption
  <1>2. CASE job \in seen["job_name"]
    <2>1. job \in seen'["job_name"]
      BY <1>1, <1>2 DEF Lasts
    <2> QED BY <1>2, <2>1 DEF Settled, JobLabel, Bound
  <1>3. CASE job \notin seen["job_name"] /\ Full("job_name")
    <2>1. seen'["job_name"] = seen["job_name"]
      BY <1>1, <1>3 DEF Lasts
    <2> QED BY <1>3, <2>1 DEF Settled, JobLabel, Bound, Full
  <1> QED BY <1>2, <1>3 DEF Settled

\* A job whose name was bound is settled.
LEMMA BoundSettles ==
    ASSUME NEW job, Takes("job_name", job)
    PROVE  Settled(job)' /\ JobLabel(job)' = JobLabel(job) /\ JobLabel(job) \in Values
  <1>1. CASE job \in seen'["job_name"]
    BY <1>1 DEF Takes, Settled, JobLabel, Bound
  <1>2. CASE job \notin seen'["job_name"]
    <2>1. Full("job_name") /\ seen'["job_name"] = seen["job_name"]
      BY <1>2 DEF Takes
    <2> QED BY <1>2, <2>1 DEF Takes, Settled, JobLabel, Bound, Full
  <1> QED BY <1>1, <1>2

\* A label whose points stay, and that takes a text or not.
LEMMA LabelKept ==
    ASSUME TelemetryShape, NEW l \in Labels, LabelFits(l), UNCHANGED <<series, asked, dropped>>,
           seen' = seen \/ \E k \in Labels : \E t \in Texts : Takes(k, t)
    PROVE  LabelFits(l)'
  <1>1. CASE seen'[l] = seen[l]
    BY <1>1 DEF LabelFits, Full
  <1>2. CASE seen'[l] # seen[l]
    <2>1. PICK t \in Texts : Takes(l, t)
      BY <1>2 DEF Takes
    <2>2. /\ seen[l] \subseteq seen'[l] /\ seen'[l] \subseteq seen[l] \cup {t} /\ Cardinality(seen'[l]) <= LabelLimit
          /\ ~Full(l) /\ t \in seen'[l] /\ t \notin seen[l] /\ t \in Values /\ t # Overflow
      BY <1>2, <2>1, TextsAre DEF Takes
    <2>3. \A x \in Texts : asked[l][x] > 0 => x \in seen[l]
      BY <2>2 DEF LabelFits
    <2>4. asked[l][t] = 0 /\ series[l][t] = 0
      <3>1. asked[l][t] \in Nat /\ series[l][t] \in Nat
        BY <2>2 DEF TelemetryShape
      <3>2. ~(asked[l][t] > 0) /\ ~(series[l][t] > 0)
        BY <2>2, <2>3 DEF LabelFits
      <3> QED BY <3>1, <3>2
    <2>5. \A x \in Texts : asked[l][x] > 0 => x \in seen'[l]
      BY <2>2, <2>3
    <2>6. \A v \in Values : series[l][v] > 0 => v \in seen'[l] \cup {Overflow}
      BY <2>2 DEF LabelFits
    <2>7. dropped[l] = 0 => \A x \in seen'[l] : series[l][x] = asked[l][x]
      BY <2>2, <2>4 DEF LabelFits
    <2>8. SumFunction(series[l]) + dropped[l] = SumFunction(asked[l])
      BY DEF LabelFits
    <2> QED BY <2>2, <2>5, <2>6, <2>7, <2>8 DEF LabelFits
  <1> QED BY <1>1, <1>2

\* The runs and the failures do not notice what other labels do.
LEMMA JobsKept ==
    ASSUME TelemetryInv, Lasts, UNCHANGED <<failures, exported, timed, fresh>>
    PROVE  FailureFits' /\ (\A c \in Timed : TimedFits(c)') /\ \A job \in fresh' : FreshFits(job)'
  <1>1. FailureFits'
    <2>1. Ended' = Ended
      BY DEF Ended
    <2> QED BY <2>1 DEF TelemetryInv, FailureFits
  <1>2. ASSUME NEW c \in Timed PROVE TimedFits(c)'
    <2>1. PICK j : j = timed[c].job
      OBVIOUS
    <2>2. TimedFits(c)
      BY DEF TelemetryInv
    <2>3. CASE timed[c].pc # "idle"
      <3>1. Settled(j) /\ j \in Jobs /\ failures[JobLabel(j)] # -1 /\ (timed[c].early => exported[JobLabel(j)] # -1)
        BY <2>1, <2>2, <2>3 DEF TimedFits
      <3>2. Settled(j)' /\ JobLabel(j)' = JobLabel(j)
        BY <3>1, SettledStays
      <3>3. timed'[c].job = j /\ timed'[c].pc # "idle"
        BY <2>1, <2>3
      <3>4. Settled(timed[c].job)' /\ JobLabel(timed[c].job)' = JobLabel(j)
        BY <3>2, <3>3 DEF Settled, JobLabel, Bound, Full
      <3> QED BY <3>1, <3>3, <3>4 DEF TimedFits
    <2>4. CASE timed[c].pc = "idle"
      BY <2>2, <2>4 DEF TimedFits
    <2> QED BY <2>3, <2>4
  <1>3. ASSUME NEW job \in fresh' PROVE FreshFits(job)'
    <2>1. FreshFits(job)
      BY DEF TelemetryInv
    <2>2. Settled(job)' /\ JobLabel(job)' = JobLabel(job)
      BY <2>1, SettledStays DEF FreshFits
    <2> QED BY <2>1, <2>2 DEF FreshFits
  <1> QED BY <1>1, <1>2, <1>3

-----------------------------------------------------------------------------
\* A point goes into the series of its label, or is dropped; the others stay.
LEMMA PointFits ==
    ASSUME TelemetryInv, NEW l \in Labels, NEW t \in Texts, NEW throws \in BOOLEAN, Record(l, t, throws), Takes(l, t)
    PROVE  /\ \A k \in Labels : LabelFits(k)'
           /\ series' \in [Labels -> [Values -> Nat]] /\ asked' \in [Labels -> [Texts -> Nat]]
           /\ dropped' \in [Labels -> Nat]
  <1>1. TelemetryShape /\ LabelFits(l)
    BY DEF TelemetryInv
  <1>2. /\ asked' = [asked EXCEPT ![l][t] = @ + 1]
        /\ throws => dropped' = [dropped EXCEPT ![l] = @ + 1] /\ series' = series
        /\ ~throws => series' = [series EXCEPT ![l][Bound(l, t)] = @ + 1] /\ dropped' = dropped
    BY DEF Record, Added
  <1>3. PICK b : b = Bound(l, t)
    OBVIOUS
  <1>4. b \in Values /\ (b = IF t \in seen'[l] THEN t ELSE Overflow) /\ t \in Values /\ Overflow \notin Texts
    BY <1>3, TextsAre DEF Takes
  <1>5. /\ series \in [Labels -> [Values -> Nat]] /\ asked \in [Labels -> [Texts -> Nat]]
        /\ dropped \in [Labels -> Nat] /\ seen \in [Labels -> SUBSET Texts] /\ seen' \in [Labels -> SUBSET Texts]
    BY <1>1 DEF TelemetryShape, Takes
  <1>6. /\ series[l] \in [Values -> Nat] /\ asked[l] \in [Texts -> Nat] /\ dropped[l] \in Nat
        /\ series[l][b] + 1 \in Nat /\ asked[l][t] + 1 \in Nat /\ dropped[l] + 1 \in Nat
    BY <1>4, <1>5
  <1>7. /\ asked'[l] = [asked[l] EXCEPT ![t] = @ + 1] /\ asked' \in [Labels -> [Texts -> Nat]]
        /\ \A k \in Labels : k # l => asked'[k] = asked[k]
    BY <1>2, <1>5, <1>6
  <1>8. /\ series' \in [Labels -> [Values -> Nat]] /\ \A k \in Labels : k # l => series'[k] = series[k]
        /\ throws => series'[l] = series[l]
        /\ ~throws => series'[l] = [series[l] EXCEPT ![b] = @ + 1]
    <2>1. CASE throws
      BY <1>2, <1>5, <2>1
    <2>2. CASE ~throws
      <3>1. PICK f : f = [series[l] EXCEPT ![b] = @ + 1]
        OBVIOUS
      <3>2. f \in [Values -> Nat]
        BY <1>4, <1>6, <3>1
      <3>3. series' = [series EXCEPT ![l] = f]
        BY <1>2, <1>3, <2>2, <3>1
      <3>4. series'[l] = f /\ (\A k \in Labels : k # l => series'[k] = series[k]) /\ series' \in [Labels -> [Values -> Nat]]
        BY <1>5, <3>2, <3>3
      <3> QED BY <2>2, <3>1, <3>4
    <2> QED BY <2>1, <2>2
  <1>9. /\ dropped' \in [Labels -> Nat] /\ \A k \in Labels : k # l => dropped'[k] = dropped[k]
        /\ throws => dropped'[l] = dropped[l] + 1
        /\ ~throws => dropped'[l] = dropped[l]
    <2>1. CASE throws
      BY <1>2, <1>5, <1>6, <2>1
    <2>2. CASE ~throws
      BY <1>2, <1>5, <2>2
    <2> QED BY <2>1, <2>2
  <1>10. ASSUME NEW k \in Labels, k # l PROVE LabelFits(k)'
    <2>1. seen'[k] = seen[k] /\ series'[k] = series[k] /\ asked'[k] = asked[k] /\ dropped'[k] = dropped[k]
      BY <1>7, <1>8, <1>9, <1>10 DEF Takes
    <2>2. LabelFits(k)
      BY DEF TelemetryInv
    <2> QED BY <2>1, <2>2 DEF LabelFits, Full
  <1>11. LabelFits(l)'
    <2>1. /\ seen[l] \subseteq seen'[l] /\ seen'[l] \subseteq seen[l] \cup {t} /\ Cardinality(seen'[l]) <= LabelLimit
          /\ (Full(l) => seen'[l] = seen[l]) /\ (t \in seen'[l] \/ Full(l))
      BY DEF Takes
    <2>2. Full(l) => Full(l)'
      BY <2>1 DEF Full
    <2>3. \A v \in Values : v # b => series'[l][v] = series[l][v]
      BY <1>5, <1>8
    <2>4. \A x \in Texts : x # t => asked'[l][x] = asked[l][x]
      BY <1>5, <1>7
    <2>5. \A v \in Values : series'[l][v] > 0 => v \in seen'[l] \cup {Overflow}
      <3>1. b \in seen'[l] \cup {Overflow}
        BY <1>4
      <3> QED BY <1>1, <2>1, <2>3, <3>1 DEF LabelFits
    <2>6. \A x \in Texts : asked'[l][x] > 0 => x \in seen'[l] \/ Full(l)'
      <3>1. ASSUME NEW x \in Texts, asked'[l][x] > 0 PROVE x \in seen'[l] \/ Full(l)
        <4>1. CASE x = t
          BY <2>1, <4>1
        <4>2. CASE x # t
          BY <1>1, <2>1, <2>4, <3>1, <4>2 DEF LabelFits
        <4> QED BY <4>1, <4>2
      <3> QED BY <2>2, <3>1
    <2>7. SumFunction(series'[l]) + dropped'[l] = SumFunction(asked'[l])
      <3>1. SumFunction(asked[l]) \in Nat /\ SumFunction(asked'[l]) = SumFunction(asked[l]) + 1
        BY <1>6, <1>7, TextsAre, SumPlus
      <3>2. SumFunction(series[l]) \in Nat /\ SumFunction([series[l] EXCEPT ![b] = @ + 1]) = SumFunction(series[l]) + 1
        BY <1>4, <1>6, TextsAre, SumPlus
      <3>3. SumFunction(series[l]) + dropped[l] = SumFunction(asked[l])
        BY <1>1 DEF LabelFits
      <3>4. CASE throws
        <4>1. SumFunction(series'[l]) = SumFunction(series[l]) /\ dropped'[l] = dropped[l] + 1
          BY <1>8, <1>9, <3>4
        <4> QED BY <1>6, <3>1, <3>2, <3>3, <4>1
      <3>5. CASE ~throws
        <4>1. SumFunction(series'[l]) = SumFunction(series[l]) + 1 /\ dropped'[l] = dropped[l]
          BY <1>8, <1>9, <3>2, <3>5
        <4> QED BY <1>6, <3>1, <3>2, <3>3, <4>1
      <3> QED BY <3>4, <3>5
    <2>8. dropped'[l] = 0 => \A x \in seen'[l] : series'[l][x] = asked'[l][x]
      <3> SUFFICES ASSUME dropped'[l] = 0, NEW x \in seen'[l] PROVE series'[l][x] = asked'[l][x]
        OBVIOUS
      <3>1. ~throws /\ dropped[l] = 0
        BY <1>6, <1>9
      <3>2. x \in Texts /\ x \in Values
        BY <1>5, TextsAre
      <3>3. CASE x # t
        <4>1. x # b /\ x \in seen[l]
          BY <1>4, <2>1, <3>2, <3>3
        <4>2. series[l][x] = asked[l][x]
          BY <1>1, <3>1, <4>1 DEF LabelFits
        <4> QED BY <2>3, <2>4, <3>2, <3>3, <4>1, <4>2
      <3>4. CASE x = t
        <4>1. b = t
          BY <1>4, <3>4
        <4>2. series'[l][t] = series[l][t] + 1 /\ asked'[l][t] = asked[l][t] + 1
          BY <1>4, <1>6, <1>7, <1>8, <3>1, <4>1
        <4>3. series[l][t] = asked[l][t]
          <5>1. CASE t \in seen[l]
            BY <1>1, <3>1, <5>1 DEF LabelFits
          <5>2. CASE t \notin seen[l]
            <6>1. ~Full(l)
              BY <2>1, <3>4, <5>2
            <6>2. ~(asked[l][t] > 0) /\ ~(series[l][t] > 0)
              BY <1>1, <1>4, <5>2, <6>1, TextsAre DEF LabelFits
            <6>3. asked[l][t] \in Nat /\ series[l][t] \in Nat
              BY <1>4, <1>6
            <6> QED BY <6>2, <6>3
          <5> QED BY <5>1, <5>2
        <4> QED BY <3>4, <4>2, <4>3
      <3> QED BY <3>3, <3>4
    <2> QED BY <2>1, <2>5, <2>6, <2>7, <2>8 DEF LabelFits
  <1> QED BY <1>7, <1>8, <1>9, <1>10, <1>11

\* HttpMetrics.record and QueueMetrics.
LEMMA RecordKeeps ==
    ASSUME TelemetryInv, NEW l \in {"route", "queue"}, NEW t \in Texts, NEW throws \in BOOLEAN, Record(l, t, throws),
           l = "route" => \A i \in DOMAIN t : t[i].kind \notin {"uuid", "number", "opaque"}
    PROVE  TelemetryInv'
  <1>1. l \in Labels /\ "route" \in Labels
    BY TelemetryAssumption
  <1>2. seen' = Seen(l, t) /\ UNCHANGED <<options, sdk, config, registered, failures, exported, timed, fresh>>
    BY DEF Record
  <1>3. Takes(l, t)
    BY <1>1, <1>2, BoundTakes DEF TelemetryInv
  <1>4. /\ \A k \in Labels : LabelFits(k)'
        /\ series' \in [Labels -> [Values -> Nat]] /\ asked' \in [Labels -> [Texts -> Nat]]
        /\ dropped' \in [Labels -> Nat]
    BY <1>1, <1>3, PointFits
  <1>5. TelemetryShape'
    BY <1>2, <1>3, <1>4 DEF TelemetryInv, TelemetryShape, Takes
  <1>6. NoIdInRoute'
    BY <1>1, <1>3 DEF TelemetryInv, NoIdInRoute, Takes
  <1>7. SdkAsMeant'
    BY <1>2 DEF TelemetryInv, SdkAsMeant, Streams
  <1>8. Lasts
    BY <1>1, <1>3, TakesLasts
  <1>9. FailureFits' /\ (\A c \in Timed : TimedFits(c)') /\ \A job \in fresh' : FreshFits(job)'
    BY <1>2, <1>8, JobsKept
  <1> QED BY <1>4, <1>5, <1>6, <1>7, <1>9 DEF TelemetryInv

\* A step that leaves the labels and their points alone.
LEMMA LabelsKept ==
    ASSUME TelemetryInv, UNCHANGED <<seen, series, asked, dropped>>
    PROVE  Lasts /\ NoIdInRoute' /\ \A l \in Labels : LabelFits(l)'
  <1>1. \A l \in Labels : LabelFits(l)'
    BY LabelKept DEF TelemetryInv
  <1>2. Lasts
    BY DEF Lasts
  <1> QED BY <1>1, <1>2 DEF TelemetryInv, NoIdInRoute

\* What startOtel gives the SDK is what its options mean.
LEMMA StartKeeps ==
    ASSUME TelemetryInv, StartOtel
    PROVE  TelemetryInv'
  <1>1. /\ sdk = "none" /\ sdk' = "running" /\ registered' = registered + 1
        /\ config' = [views |-> Views(options), sampling |-> Sampling(options), interval |-> Interval(options),
                      timeout |-> Min({30000, Interval(options)})]
        /\ UNCHANGED <<options, seen, series, asked, dropped, failures, exported, timed, fresh>>
    BY DEF StartOtel
  <1>2. TelemetryShape'
    BY <1>1 DEF TelemetryInv, TelemetryShape
  <1>3. Lasts /\ NoIdInRoute' /\ \A l \in Labels : LabelFits(l)'
    BY <1>1, LabelsKept
  <1>4. FailureFits' /\ (\A c \in Timed : TimedFits(c)') /\ \A job \in fresh' : FreshFits(job)'
    BY <1>1, <1>3, JobsKept
  <1>5. SdkAsMeant'
    <2>1. PICK o : o = options
      OBVIOUS
    <2>2. o \in Options /\ o.interval \in Int /\ options' = o
      BY <1>1, <2>1, TelemetryAssumption DEF TelemetryInv, TelemetryShape
    <2>3. /\ config'.views = Views(o) /\ config'.sampling = Sampling(o) /\ config'.interval = Interval(o)
          /\ config'.timeout = Min({30000, Interval(o)})
      BY <1>1, <2>1
    <2>4. config'.sampling > 0
      BY <2>3 DEF Sampling
    <2>5. config'.timeout <= config'.interval
      <3>1. PICK n : n = Interval(o)
        OBVIOUS
      <3>2. n \in Int
        BY <2>2, <3>1 DEF Interval
      <3>3. \E x \in {30000, n} : \A y \in {30000, n} : x <= y
        BY <3>2
      <3>4. Min({30000, n}) <= n
        BY <3>3 DEF Min
      <3> QED BY <2>3, <3>1, <3>4
    <2>6. Streams("runtime-node", "v8js.memory.heap.used")' = {"default"}
      <3>1. {v \in Views(o) : v[1] \in {"runtime-node", "any"} /\ v[2] = "v8js.memory.heap.used"} = {}
        BY DEF Views, Unused
      <3> QED BY <2>3, <3>1 DEF Streams
    <2>7. o.http = "drop" => Streams("instrumentation-http", "http.server.duration")' = {}
      <3> SUFFICES ASSUME o.http = "drop" PROVE Streams("instrumentation-http", "http.server.duration")' = {}
        OBVIOUS
      <3>1. {v \in Views(o) : v[1] \in {"instrumentation-http", "any"} /\ v[2] = "http.server.duration"}
              = {<<"instrumentation-http", "http.server.duration", "drop">>}
        BY DEF Views, Unused
      <3>2. PICK by : by = {<<"instrumentation-http", "http.server.duration", "drop">>}
        OBVIOUS
      <3>3. by # {} /\ {v[3] : v \in by} = {"drop"}
        BY <3>2
      <3>4. {v[3] : v \in by} \ {"drop"} = {}
        BY <3>3
      <3>5. Streams("instrumentation-http", "http.server.duration")'
              = IF by = {} THEN {"default"} ELSE {v[3] : v \in by} \ {"drop"}
        BY <2>3, <3>1, <3>2 DEF Streams
      <3> QED BY <3>3, <3>4, <3>5
    <2>8. Streams("qnsc", "http.server.duration")' = {IF o.boundaries = << >> THEN "default" ELSE "buckets"}
      <3>1. CASE o.boundaries = << >>
        <4>1. {v \in Views(o) : v[1] \in {"qnsc", "any"} /\ v[2] = "http.server.duration"} = {}
          BY <3>1 DEF Views, Unused
        <4> QED BY <2>3, <3>1, <4>1 DEF Streams
      <3>2. CASE o.boundaries # << >>
        <4>1. PICK w : w = IF o.http = "drop" THEN "qnsc" ELSE "any"
          OBVIOUS
        <4>2. PICK by : by = {<<w, "http.server.duration", "buckets">>}
          OBVIOUS
        <4>3. by # {} /\ {v[3] : v \in by} = {"buckets"}
          BY <4>2
        <4>4. {v[3] : v \in by} \ {"drop"} = {"buckets"}
          BY <4>3
        <4>6. {v \in Views(o) : v[1] \in {"qnsc", "any"} /\ v[2] = "http.server.duration"} = by
          BY <3>2, <4>1, <4>2 DEF Views, Unused
        <4>5. Streams("qnsc", "http.server.duration")' = IF by = {} THEN {"default"} ELSE {v[3] : v \in by} \ {"drop"}
          BY <2>3, <4>6 DEF Streams
        <4> QED BY <3>2, <4>3, <4>4, <4>5
      <3> QED BY <3>1, <3>2
    <2> QED BY <2>2, <2>4, <2>5, <2>6, <2>7, <2>8 DEF SdkAsMeant
  <1> QED BY <1>2, <1>3, <1>4, <1>5 DEF TelemetryInv

-----------------------------------------------------------------------------
\* An export shows what the runs recorded, and the series of every run that began is there.
LEMMA ExportFits ==
    ASSUME TelemetryInv, UNCHANGED <<seen, failures>>, exported' = failures,
           \A c \in Timed : timed'[c].pc = timed[c].pc, \A c \in Timed : timed'[c].job = timed[c].job,
           \A c \in Timed : timed'[c].early => timed[c].early \/ timed[c].pc = "run"
    PROVE  FailureFits' /\ \A c \in Timed : TimedFits(c)'
  <1>1. FailureFits'
    <2>1. Ended' = Ended
      BY DEF Ended
    <2>2. \A v \in Values : exported[v] \in Int /\ failures[v] \in Int
      BY DEF TelemetryInv, TelemetryShape
    <2>3. FailureFits
      BY DEF TelemetryInv
    <2> QED BY <2>1, <2>2, <2>3 DEF FailureFits
  <1>2. ASSUME NEW c \in Timed PROVE TimedFits(c)'
    <2>1. TimedFits(c)
      BY DEF TelemetryInv
    <2>2. PICK j : j = timed[c].job
      OBVIOUS
    <2>3. timed'[c].pc = timed[c].pc /\ timed'[c].job = j /\ (timed'[c].early => timed[c].early \/ timed[c].pc = "run")
      BY <2>2
    <2>4. Settled(timed[c].job)' = Settled(j) /\ JobLabel(timed[c].job)' = JobLabel(j)
      BY <2>3 DEF Settled, JobLabel, Bound, Full
    <2>5. timed[c].pc # "idle" => j \in Jobs /\ Settled(j) /\ failures[JobLabel(j)] # -1
      BY <2>1, <2>2 DEF TimedFits
    <2>6. timed[c].early => timed[c].pc # "idle"
      BY <2>1 DEF TimedFits
    <2> QED BY <2>3, <2>4, <2>5, <2>6 DEF TimedFits
  <1> QED BY <1>1, <1>2

\* shutdownOtel.
LEMMA ShutdownKeeps ==
    ASSUME TelemetryInv, ShutdownOtel
    PROVE  TelemetryInv'
  <1>1. /\ sdk = "running" /\ sdk' = "shut" /\ exported' = failures /\ fresh' = {}
        /\ UNCHANGED <<options, config, registered, seen, series, asked, dropped, failures, timed>>
    BY DEF ShutdownOtel
  <1>2. TelemetryShape'
    BY <1>1 DEF TelemetryInv, TelemetryShape
  <1>3. NoIdInRoute' /\ \A l \in Labels : LabelFits(l)'
    BY <1>1, LabelsKept
  <1>4. FailureFits' /\ \A c \in Timed : TimedFits(c)'
    BY <1>1, ExportFits
  <1>5. SdkAsMeant'
    BY <1>1 DEF SdkAsMeant
  <1> QED BY <1>1, <1>2, <1>3, <1>4, <1>5 DEF TelemetryInv

\* The periodic reader's export.
LEMMA ExportKeeps ==
    ASSUME TelemetryInv, Export
    PROVE  TelemetryInv'
  <1>1. /\ exported' = failures /\ fresh' = {}
        /\ timed' = [c \in Timed |-> [timed[c] EXCEPT !.early = @ \/ timed[c].pc = "run"]]
        /\ UNCHANGED <<options, sdk, config, registered, seen, series, asked, dropped, failures>>
    BY DEF Export
  <1>2. ASSUME NEW c \in Timed
        PROVE  /\ timed'[c] \in TimedRecords /\ timed'[c].pc = timed[c].pc /\ timed'[c].job = timed[c].job
               /\ timed'[c].early => timed[c].early \/ timed[c].pc = "run"
    <2>1. timed[c] \in TimedRecords
      BY DEF TelemetryInv, TelemetryShape
    <2>2. timed'[c] = [timed[c] EXCEPT !.early = timed[c].early \/ timed[c].pc = "run"]
      BY <1>1
    <2>3. (timed[c].early \/ timed[c].pc = "run") \in BOOLEAN
      OBVIOUS
    <2>4. PICK e \in BOOLEAN : e = (timed[c].early \/ timed[c].pc = "run")
      BY <2>3
    <2>5. timed'[c] = [timed[c] EXCEPT !.early = e]
      BY <2>2, <2>4
    <2>6. timed'[c] \in TimedRecords /\ timed'[c].pc = timed[c].pc /\ timed'[c].job = timed[c].job /\ timed'[c].early = e
      BY <2>1, <2>5 DEF TimedRecords
    <2> QED BY <2>4, <2>6
  <1>3. TelemetryShape'
    <2>1. timed' \in [Timed -> TimedRecords]
      BY <1>1, <1>2
    <2> QED BY <1>1, <2>1 DEF TelemetryInv, TelemetryShape
  <1>4. NoIdInRoute' /\ \A l \in Labels : LabelFits(l)'
    BY <1>1, LabelsKept
  <1>5. FailureFits' /\ \A c \in Timed : TimedFits(c)'
    BY <1>1, <1>2, ExportFits
  <1>6. SdkAsMeant'
    BY <1>1 DEF TelemetryInv, SdkAsMeant, Streams
  <1> QED BY <1>1, <1>3, <1>4, <1>5, <1>6 DEF TelemetryInv

\* The failures of the label L after adding n: they only grow, and the series is there.
LEMMA PlusGrows ==
    ASSUME TelemetryInv, NEW L \in Values, NEW n \in {0, 1}, failures' = Plus(L, n)
    PROVE  /\ failures' \in [Values -> Int] /\ failures'[L] # -1
           /\ \A v \in Values : /\ failures[v] <= failures'[v] /\ (failures[v] # -1 => failures'[v] # -1)
                               /\ failures'[v] <= Cardinality(Ended) + n
           /\ (failures[L] # -1 /\ n = 1) => failures'[L] = failures[L] + 1
  <1>1. failures \in [Values -> Int] /\ \A v \in Values : -1 <= failures[v] /\ failures[v] <= Cardinality(Ended)
    <2>1. \A v \in Values : exported[v] \in Int /\ failures[v] \in Int
      BY DEF TelemetryInv, TelemetryShape
    <2>2. Cardinality(Ended) \in Nat
      BY TelemetryAssumption, FS_Subset, FS_CardinalityType DEF Ended
    <2>3. FailureFits
      BY DEF TelemetryInv
    <2> QED BY <2>1, <2>2, <2>3 DEF TelemetryInv, TelemetryShape, FailureFits
  <1>2. Cardinality(Ended) \in Nat
    BY TelemetryAssumption, FS_Subset, FS_CardinalityType DEF Ended
  <1>3. PICK m : m = IF failures[L] = -1 THEN n ELSE failures[L] + n
    OBVIOUS
  <1>4. failures' = [failures EXCEPT ![L] = m]
    BY <1>3 DEF Plus
  <1>5. m \in Int /\ m # -1 /\ failures[L] <= m /\ m <= Cardinality(Ended) + n
        /\ (failures[L] # -1 /\ n = 1 => m = failures[L] + 1)
    BY <1>1, <1>2, <1>3
  <1>6. failures' \in [Values -> Int] /\ failures'[L] = m /\ \A v \in Values : v # L => failures'[v] = failures[v]
    BY <1>1, <1>4, <1>5
  <1>7. ASSUME NEW v \in Values
        PROVE  /\ failures[v] <= failures'[v] /\ (failures[v] # -1 => failures'[v] # -1)
               /\ failures'[v] <= Cardinality(Ended) + n
    <2>1. CASE v = L
      BY <1>5, <1>6, <2>1
    <2>2. CASE v # L
      BY <1>1, <1>2, <1>6, <2>2
    <2> QED BY <2>1, <2>2
  <1> QED BY <1>5, <1>6, <1>7

\* A run that stays where it is, and a failure that still counts, while failures grow.
LEMMA RunStays ==
    ASSUME TelemetryInv, Lasts, exported' = exported,
           \A v \in Values : failures[v] <= failures'[v] /\ (failures[v] # -1 => failures'[v] # -1) /\ failures'[v] \in Int
    PROVE  /\ \A c \in Timed : timed'[c] = timed[c] => TimedFits(c)'
           /\ \A job \in fresh : FreshFits(job)'
  <1>1. ASSUME NEW job \in Jobs PROVE JobLabel(job) \in Values
    BY TextsAre DEF JobLabel, Bound
  <1>2. ASSUME NEW c \in Timed, timed'[c] = timed[c] PROVE TimedFits(c)'
    <2>1. PICK j : j = timed[c].job
      OBVIOUS
    <2>2. TimedFits(c)
      BY DEF TelemetryInv
    <2>3. CASE timed[c].pc # "idle"
      <3>1. Settled(j) /\ j \in Jobs /\ failures[JobLabel(j)] # -1 /\ (timed[c].early => exported[JobLabel(j)] # -1)
        BY <2>1, <2>2, <2>3 DEF TimedFits
      <3>2. Settled(j)' /\ JobLabel(j)' = JobLabel(j)
        BY <3>1, SettledStays
      <3>3. timed'[c].job = j /\ timed'[c].pc # "idle" /\ timed'[c].early = timed[c].early
        BY <1>2, <2>1, <2>3
      <3>4. Settled(timed[c].job)' /\ JobLabel(timed[c].job)' = JobLabel(j)
        BY <3>2, <3>3 DEF Settled, JobLabel, Bound, Full
      <3>5. failures'[JobLabel(j)] # -1
        BY <1>1, <3>1
      <3> QED BY <3>1, <3>3, <3>4, <3>5 DEF TimedFits
    <2>4. CASE timed[c].pc = "idle"
      BY <1>2, <2>2, <2>4 DEF TimedFits
    <2> QED BY <2>3, <2>4
  <1>3. ASSUME NEW job \in fresh PROVE FreshFits(job)'
    <2>1. FreshFits(job) /\ job \in Jobs
      BY DEF TelemetryInv, TelemetryShape
    <2>2. Settled(job)' /\ JobLabel(job)' = JobLabel(job)
      BY <2>1, SettledStays DEF FreshFits
    <2>3. PICK L : L = JobLabel(job)
      OBVIOUS
    <2>4. L \in Values /\ exported[L] # -1 /\ exported[L] < failures[L] /\ failures[L] <= failures'[L]
      BY <1>1, <2>1, <2>3 DEF FreshFits
    <2>5. exported[L] \in Int /\ failures[L] \in Int /\ failures'[L] \in Int
      BY <2>4 DEF TelemetryInv, TelemetryShape
    <2>6. exported[L] < failures'[L]
      BY <2>4, <2>5
    <2> QED BY <2>2, <2>3, <2>4, <2>6 DEF FreshFits
  <1> QED BY <1>2, <1>3

\* A step that takes a job's name: the labels, their points and the SDK.
LEMMA NameTaken ==
    ASSUME TelemetryInv, NEW job \in Jobs, seen' = Seen("job_name", job),
           UNCHANGED <<options, sdk, config, registered, series, asked, dropped, exported>>
    PROVE  /\ Takes("job_name", job) /\ Lasts /\ SdkAsMeant' /\ NoIdInRoute' /\ \A l \in Labels : LabelFits(l)'
           /\ seen' \in [Labels -> SUBSET Texts]
  <1>1. "job_name" \in Labels /\ "route" \in Labels /\ job \in Texts
    BY TelemetryAssumption, TextsAre
  <1>2. Takes("job_name", job)
    BY <1>1, BoundTakes DEF TelemetryInv
  <1>3. Lasts
    BY <1>1, <1>2, TakesLasts
  <1>4. \A l \in Labels : LabelFits(l)'
    BY <1>1, <1>2, LabelKept DEF TelemetryInv
  <1>5. SdkAsMeant'
    BY DEF TelemetryInv, SdkAsMeant, Streams
  <1>6. seen'["route"] = seen["route"]
    BY <1>1, <1>2 DEF Takes
  <1>7. NoIdInRoute'
    BY <1>6 DEF TelemetryInv, NoIdInRoute
  <1>8. seen' \in [Labels -> SUBSET Texts]
    BY <1>2 DEF Takes
  <1> QED BY <1>2, <1>3, <1>4, <1>5, <1>7, <1>8

\* The start of a timed run.
LEMMA BeginKeeps ==
    ASSUME TelemetryInv, NEW c \in Timed, NEW job \in Jobs, TimeBegins(c, job)
    PROVE  TelemetryInv'
  <1>1. /\ timed[c].pc = "idle" /\ timed' = [timed EXCEPT ![c] = [pc |-> "run", job |-> job, early |-> FALSE]]
        /\ failures' = Plus(JobLabel(job), 0) /\ seen' = Seen("job_name", job)
        /\ UNCHANGED <<options, sdk, config, registered, series, asked, dropped, exported, fresh>>
    BY DEF TimeBegins, Prepared
  <1>2. /\ Takes("job_name", job) /\ Lasts /\ SdkAsMeant' /\ NoIdInRoute' /\ \A l \in Labels : LabelFits(l)'
        /\ seen' \in [Labels -> SUBSET Texts]
    BY <1>1, NameTaken
  <1>3. Settled(job)' /\ JobLabel(job)' = JobLabel(job) /\ JobLabel(job) \in Values
    BY <1>2, BoundSettles
  <1>4. PICK L \in Values : L = JobLabel(job)
    BY <1>3
  <1>5. /\ failures' \in [Values -> Int] /\ failures'[L] # -1
        /\ \A v \in Values : /\ failures[v] <= failures'[v] /\ (failures[v] # -1 => failures'[v] # -1)
                            /\ failures'[v] <= Cardinality(Ended) + 0
    BY <1>1, <1>4, PlusGrows
  <1>6. /\ timed \in [Timed -> TimedRecords] /\ timed'[c] = [pc |-> "run", job |-> job, early |-> FALSE]
        /\ \A d \in Timed : d # c => timed'[d] = timed[d]
    BY <1>1 DEF TelemetryInv, TelemetryShape
  <1>7. timed' \in [Timed -> TimedRecords]
    BY <1>1, <1>6 DEF TimedRecords
  <1>8. TelemetryShape'
    BY <1>1, <1>2, <1>5, <1>7 DEF TelemetryInv, TelemetryShape
  <1>9. FailureFits'
    <2>1. Ended' = Ended
      BY <1>1, <1>6 DEF Ended
    <2>2. Cardinality(Ended) \in Nat
      BY TelemetryAssumption, FS_Subset, FS_CardinalityType DEF Ended
    <2>3. ASSUME NEW v \in Values
          PROVE  -1 <= exported[v] /\ exported[v] <= failures'[v] /\ failures'[v] <= Cardinality(Ended)
      <3>1. exported[v] \in Int /\ failures[v] \in Int /\ failures'[v] \in Int
        BY <1>5 DEF TelemetryInv, TelemetryShape
      <3>2. -1 <= exported[v] /\ exported[v] <= failures[v]
        BY DEF TelemetryInv, FailureFits
      <3> QED BY <1>5, <2>2, <3>1, <3>2
    <2> QED BY <1>1, <2>1, <2>3 DEF FailureFits
  <1>10. (\A d \in Timed : timed'[d] = timed[d] => TimedFits(d)') /\ \A j \in fresh : FreshFits(j)'
    BY <1>1, <1>2, <1>5, RunStays
  <1>11. TimedFits(c)'
    <2>1. Settled(timed[c].job)' /\ JobLabel(timed[c].job)' = L
      BY <1>3, <1>4, <1>6 DEF Settled, JobLabel, Bound, Full
    <2> QED BY <1>5, <1>6, <2>1 DEF TimedFits
  <1>12. \A d \in Timed : TimedFits(d)'
    BY <1>6, <1>10, <1>11
  <1> QED BY <1>1, <1>2, <1>8, <1>9, <1>10, <1>12 DEF TelemetryInv

\* The end of a timed run.
LEMMA EndKeeps ==
    ASSUME TelemetryInv, NEW c \in Timed, NEW failed \in BOOLEAN, TimeEnds(c, failed)
    PROVE  TelemetryInv'
  <1>1. PICK job : job = timed[c].job
    OBVIOUS
  <1>2. /\ timed[c].pc = "run" /\ timed' = [timed EXCEPT ![c].pc = "ended"] /\ seen' = Seen("job_name", job)
        /\ failed => failures' = Plus(JobLabel(job), 1) /\ fresh' = fresh \cup (IF timed[c].early THEN {job} ELSE {})
        /\ ~failed => failures' = failures /\ fresh' = fresh
        /\ UNCHANGED <<options, sdk, config, registered, series, asked, dropped, exported>>
    BY <1>1 DEF TimeEnds
  <1>3. /\ job \in Jobs /\ Settled(job) /\ failures[JobLabel(job)] # -1
        /\ timed[c].early => exported[JobLabel(job)] # -1
    BY <1>1, <1>2 DEF TelemetryInv, TimedFits
  <1>4. /\ Takes("job_name", job) /\ Lasts /\ SdkAsMeant' /\ NoIdInRoute' /\ \A l \in Labels : LabelFits(l)'
        /\ seen' \in [Labels -> SUBSET Texts]
    BY <1>2, <1>3, NameTaken
  <1>5. Settled(job)' /\ JobLabel(job)' = JobLabel(job) /\ JobLabel(job) \in Values
    BY <1>4, BoundSettles
  <1>6. PICK L \in Values : L = JobLabel(job)
    BY <1>5
  <1>7. /\ timed \in [Timed -> TimedRecords] /\ timed'[c] = [timed[c] EXCEPT !.pc = "ended"]
        /\ \A d \in Timed : d # c => timed'[d] = timed[d]
    BY <1>2 DEF TelemetryInv, TelemetryShape
  <1>8. timed'[c].pc = "ended" /\ timed'[c].job = job /\ timed'[c].early = timed[c].early /\ timed'[c] \in TimedRecords
    BY <1>1, <1>7 DEF TimedRecords
  <1>9. timed' \in [Timed -> TimedRecords]
    BY <1>2, <1>7, <1>8
  <1>10. Cardinality(Ended) \in Nat /\ Cardinality(Ended') = Cardinality(Ended) + 1
    <2>1. IsFiniteSet(Ended) /\ c \notin Ended
      BY <1>2, TelemetryAssumption, FS_Subset DEF Ended
    <2>2. Ended' = Ended \cup {c}
      BY <1>2, <1>7, <1>8 DEF Ended
    <2> QED BY <2>1, <2>2, FS_AddElement, FS_CardinalityType
  <1>11. /\ failures' \in [Values -> Int] /\ failures'[L] # -1
         /\ \A v \in Values : /\ failures[v] <= failures'[v] /\ (failures[v] # -1 => failures'[v] # -1)
                             /\ failures'[v] <= Cardinality(Ended) + 1
         /\ failed => failures'[L] = failures[L] + 1
    <2>1. CASE failed
      BY <1>2, <1>3, <1>6, <2>1, PlusGrows
    <2>2. CASE ~failed
      <3>1. \A v \in Values : failures[v] <= Cardinality(Ended)
        BY DEF TelemetryInv, FailureFits
      <3> QED BY <1>2, <1>3, <1>6, <1>10, <2>2, <3>1 DEF TelemetryInv, TelemetryShape
    <2> QED BY <2>1, <2>2
  <1>12. fresh' \subseteq fresh \cup {job} /\ fresh \subseteq fresh'
         /\ (fresh' # fresh => failed /\ timed[c].early)
    <2>1. CASE failed /\ timed[c].early
      BY <1>2, <2>1
    <2>2. CASE failed /\ ~timed[c].early
      BY <1>2, <2>2
    <2>3. CASE ~failed
      BY <1>2, <2>3
    <2> QED BY <2>1, <2>2, <2>3
  <1>13. TelemetryShape'
    <2>1. fresh' \subseteq Jobs
      BY <1>3, <1>12 DEF TelemetryInv, TelemetryShape
    <2> QED BY <1>2, <1>4, <1>9, <1>11, <2>1 DEF TelemetryInv, TelemetryShape
  <1>14. FailureFits'
    <2>1. ASSUME NEW v \in Values
          PROVE  -1 <= exported[v] /\ exported[v] <= failures'[v] /\ failures'[v] <= Cardinality(Ended')
      <3>1. exported[v] \in Int /\ failures[v] \in Int /\ failures'[v] \in Int
        BY <1>11 DEF TelemetryInv, TelemetryShape
      <3>2. -1 <= exported[v] /\ exported[v] <= failures[v]
        BY DEF TelemetryInv, FailureFits
      <3> QED BY <1>10, <1>11, <3>1, <3>2
    <2> QED BY <1>2, <2>1 DEF FailureFits
  <1>15. (\A d \in Timed : timed'[d] = timed[d] => TimedFits(d)') /\ \A j \in fresh : FreshFits(j)'
    BY <1>2, <1>4, <1>11, RunStays
  <1>16. TimedFits(c)'
    <2>1. Settled(timed[c].job)' /\ JobLabel(timed[c].job)' = L
      BY <1>5, <1>6, <1>8 DEF Settled, JobLabel, Bound, Full
    <2>2. timed'[c].early => exported'[L] # -1
      BY <1>2, <1>3, <1>6, <1>8
    <2> QED BY <1>3, <1>8, <1>11, <2>1, <2>2 DEF TimedFits
  <1>17. \A d \in Timed : TimedFits(d)'
    BY <1>7, <1>15, <1>16
  <1>18. ASSUME NEW j \in fresh' PROVE FreshFits(j)'
    <2>1. CASE j \in fresh
      BY <1>15, <2>1
    <2>2. CASE j \notin fresh
      <3>1. j = job /\ failed /\ timed[c].early
        BY <1>12, <2>2
      <3>2. exported[L] # -1 /\ failures'[L] = failures[L] + 1
        BY <1>3, <1>6, <1>11, <3>1
      <3>3. exported[L] \in Int /\ failures[L] \in Int /\ exported[L] <= failures[L]
        BY DEF TelemetryInv, TelemetryShape, FailureFits
      <3>4. exported'[L] < failures'[L]
        BY <1>2, <3>2, <3>3
      <3> QED BY <1>2, <1>5, <1>6, <3>1, <3>2, <3>4 DEF FreshFits
    <2> QED BY <2>1, <2>2
  <1> QED BY <1>4, <1>13, <1>14, <1>17, <1>18 DEF TelemetryInv

\* A step that changes nothing.
LEMMA TelemetryStutters ==
    ASSUME TelemetryInv, UNCHANGED telemetryVars
    PROVE  TelemetryInv'
  <1>1. UNCHANGED <<options, sdk, config, registered, seen, series, asked, dropped, failures, exported, timed, fresh>>
    BY DEF telemetryVars
  <1>2. TelemetryShape'
    BY <1>1 DEF TelemetryInv, TelemetryShape
  <1>3. Lasts /\ NoIdInRoute' /\ \A l \in Labels : LabelFits(l)'
    BY <1>1, LabelsKept
  <1>4. FailureFits' /\ (\A c \in Timed : TimedFits(c)') /\ \A job \in fresh' : FreshFits(job)'
    BY <1>1, <1>3, JobsKept
  <1>5. SdkAsMeant'
    BY <1>1 DEF TelemetryInv, SdkAsMeant, Streams
  <1> QED BY <1>2, <1>3, <1>4, <1>5 DEF TelemetryInv

\* Every step keeps it.
LEMMA TelemetryStepInv ==
    ASSUME TelemetryInv, [TelemetryNext]_telemetryVars
    PROVE  TelemetryInv'
  <1>1. ASSUME NEW throws \in BOOLEAN, NEW path \in Paths, RecordHttp(path, throws) PROVE TelemetryInv'
    <2>1. /\ Template(path) \in Texts
          /\ \A i \in DOMAIN Template(path) : Template(path)[i].kind \notin {"uuid", "number", "opaque"}
      BY TextsAre
    <2>2. Record("route", Template(path), throws)
      BY <1>1 DEF RecordHttp
    <2> QED BY <2>1, <2>2, RecordKeeps
  <1>2. ASSUME NEW throws \in BOOLEAN, NEW queue \in Queued, RecordQueue(queue, throws) PROVE TelemetryInv'
    <2>1. queue \in Texts
      BY TextsAre
    <2>2. Record("queue", queue, throws)
      BY <1>2 DEF RecordQueue
    <2> QED BY <2>1, <2>2, RecordKeeps
  <1> QED BY <1>1, <1>2, StartKeeps, ShutdownKeeps, ExportKeeps, BeginKeeps, EndKeeps, TelemetryStutters
          DEF TelemetryNext

\* What the invariant says of the counts.
LEMMA InvCounts == TelemetryInv => TelemetryTypeOK /\ CountsStayTrue
  <1> SUFFICES ASSUME TelemetryInv PROVE TelemetryTypeOK /\ CountsStayTrue
    OBVIOUS
  <1>1. TelemetryShape /\ FailureFits
    BY DEF TelemetryInv
  <1>2. Cardinality(Ended) \in Nat /\ Cardinality(Timed) \in Nat /\ Cardinality(Ended) <= Cardinality(Timed)
    BY TelemetryAssumption, FS_Subset, FS_CardinalityType DEF Ended
  <1>3. ASSUME NEW v \in Values
        PROVE  failures[v] \in -1..Cardinality(Timed) /\ exported[v] \in -1..Cardinality(Timed)
    <2>1. failures[v] \in Int /\ exported[v] \in Int
      BY <1>1 DEF TelemetryShape
    <2>2. -1 <= exported[v] /\ exported[v] <= failures[v] /\ failures[v] <= Cardinality(Ended)
      BY <1>1 DEF FailureFits
    <2> QED BY <1>2, <2>1, <2>2
  <1>4. TelemetryTypeOK
    <2>1. failures \in [Values -> -1..Cardinality(Timed)] /\ exported \in [Values -> -1..Cardinality(Timed)]
      BY <1>1, <1>3 DEF TelemetryShape
    <2>2. \A l \in Labels : Cardinality(seen[l]) <= LabelLimit
      BY DEF TelemetryInv, LabelFits
    <2>3. registered = (IF sdk = "none" THEN 0 ELSE 1) /\ sdk \in {"none", "running", "shut"}
      BY <1>1 DEF TelemetryShape
    <2>4. registered <= 1 /\ ((sdk # "none") <=> (registered = 1))
      BY <2>3
    <2> QED BY <1>1, <2>1, <2>2, <2>3, <2>4 DEF TelemetryShape, TelemetryTypeOK
  <1>5. CountsStayTrue
    <2> SUFFICES ASSUME NEW l \in Labels \ {"job_name"}
                 PROVE  /\ Cardinality({v \in Values : series[l][v] > 0}) <= LabelLimit + 1
                        /\ SumFunction(series[l]) + dropped[l] = SumFunction(asked[l])
                        /\ \A t \in Texts : (t \in seen[l] /\ dropped[l] = 0) => series[l][t] = asked[l][t]
      BY DEF CountsStayTrue
    <2>1. LabelFits(l)
      BY DEF TelemetryInv
    <2>2. IsFiniteSet(seen[l]) /\ Cardinality(seen[l]) \in Nat /\ Overflow \notin seen[l]
      BY <1>1, TextsAre, FS_Subset, FS_CardinalityType DEF TelemetryShape
    <2>3. /\ IsFiniteSet(seen[l] \cup {Overflow})
          /\ Cardinality(seen[l] \cup {Overflow}) = Cardinality(seen[l]) + 1
      BY <2>2, FS_AddElement
    <2>4. {v \in Values : series[l][v] > 0} \subseteq seen[l] \cup {Overflow}
      BY <2>1 DEF LabelFits
    <2>5. /\ Cardinality({v \in Values : series[l][v] > 0}) \in Nat
          /\ Cardinality({v \in Values : series[l][v] > 0}) <= Cardinality(seen[l] \cup {Overflow})
      BY <2>3, <2>4, FS_Subset, FS_CardinalityType
    <2>6. LabelLimit \in Nat /\ Cardinality(seen[l]) <= LabelLimit
      BY <2>1, TelemetryAssumption DEF LabelFits
    <2>7. Cardinality({v \in Values : series[l][v] > 0}) <= LabelLimit + 1
      BY <2>2, <2>3, <2>5, <2>6
    <2> QED BY <2>1, <2>7 DEF LabelFits
  <1> QED BY <1>4, <1>5

\* An export shows every failure that counts as an increase.
LEMMA IncreaseShows ==
    ASSUME TelemetryInv, [TelemetryNext]_telemetryVars, exported' # exported, NEW job \in fresh
    PROVE  LET v == JobLabel(job) IN exported[v] # -1 /\ exported'[v] > exported[v]
  <1>1. exported' = failures
    <2>1. ASSUME NEW throws \in BOOLEAN, (\E path \in Paths : RecordHttp(path, throws)) \/ \E queue \in Queued : RecordQueue(queue, throws)
          PROVE  FALSE
      BY <2>1 DEF RecordHttp, RecordQueue, Record
    <2>2. ASSUME NEW c \in Timed, (\E j \in Jobs : TimeBegins(c, j)) \/ \E failed \in BOOLEAN : TimeEnds(c, failed)
          PROVE  FALSE
      BY <2>2 DEF TimeBegins, TimeEnds
    <2>3. ~StartOtel /\ ~UNCHANGED telemetryVars
      BY DEF StartOtel, telemetryVars
    <2>4. ShutdownOtel \/ Export
      BY <2>1, <2>2, <2>3 DEF TelemetryNext
    <2> QED BY <2>4 DEF ShutdownOtel, Export
  <1>2. FreshFits(job) /\ job \in Jobs
    BY DEF TelemetryInv, TelemetryShape
  <1>3. JobLabel(job) \in Values
    BY <1>2, TextsAre DEF JobLabel, Bound
  <1>4. PICK L \in Values : L = JobLabel(job)
    BY <1>3
  <1>5. exported[L] # -1 /\ exported[L] < failures[L] /\ exported[L] \in Int /\ failures[L] \in Int
    BY <1>2, <1>4 DEF FreshFits, TelemetryInv, TelemetryShape
  <1>6. exported'[L] > exported[L]
    BY <1>1, <1>5
  <1> QED BY <1>4, <1>5, <1>6

\* What a process exports can be believed (metrics.ts, otel.bootstrap.ts): bounded labels lose no count but what a
\* throwing recorder lost, routes carry no ids, the SDK is set up as its options mean, and the failure of a run that was
\* under way at an export is, at the next one, a higher sample of a series that was there.
THEOREM TelemetryHolds == TelemetrySpec => TelemetryHonest
  <1>1. TelemetryInit => TelemetryInv
    BY TelemetryInitInv
  <1>2. TelemetryInv /\ [TelemetryNext]_telemetryVars => TelemetryInv'
    BY TelemetryStepInv
  <1>3. TelemetryInv => TelemetryTypeOK /\ CountsStayTrue /\ NoIdInRoute /\ SdkAsMeant
    BY InvCounts DEF TelemetryInv
  <1>4. TelemetryInv /\ [TelemetryNext]_telemetryVars =>
          [(exported' # exported) =>
             \A job \in fresh : LET v == JobLabel(job) IN exported[v] # -1 /\ exported'[v] > exported[v]]_telemetryVars
    BY IncreaseShows
  <1> QED BY <1>1, <1>2, <1>3, <1>4, PTL DEF TelemetrySpec, TelemetryHonest, FailureIsIncrease
=============================================================================
