--------------------------- MODULE JobQueueProofs ---------------------------
(***************************************************************************)
(* Proofs about JobQueue, for every number of ids, batches, redrivers and  *)
(* retries.                                                                *)
(***************************************************************************)
EXTENDS JobQueue, TLAPS

USE JobQueueAssumption

\* How one step may change the row of an id.
RowStep(i) ==
    \/ job'[i] = job[i]
    \/ job'[i] = NoRow /\ (job[i].state \in Live \/ ~HeldId(i))
    \/ job[i].state = "active" /\ job'[i] = [job[i] EXCEPT !.state = "completed"]
    \/ job[i].state = "active" /\ job'[i] = [job[i] EXCEPT !.state = "failed"]
    \/ job[i].state = "active" /\ job[i].rc < RetryLimit /\ job'[i] = [job[i] EXCEPT !.state = "retry"]
    \/ job[i].state \in Waiting
         /\ job'[i] = [job[i] EXCEPT !.state = "active", !.rc = ClaimedRc(job[i])]
    \/ /\ issued < MaxInc /\ issued' = issued + 1
       /\ job[i].state \in {"none", "failed"}
       /\ dlq' \subseteq dlq /\ \A k \in Ids : k # i => job'[k] = job[k]
       /\ ~HeldId(i) \/ \E r \in Redrivers : redriver[r].pc = "inserted" /\ redriver'[r].pc = "idle"
       /\ \E l \in 1..(issued + 1) :
            /\ job'[i] = FreshRow(issued + 1, l)
            /\ l = issued + 1 \/ \E c \in dlq : c.load = l /\ c \notin dlq'

\* The failure of a set of active rows retries or fails each of them.
LEMMA FailRowsStep ==
    ASSUME TypeOK, NEW S \in SUBSET Ids, NEW permanent \in SUBSET Ids,
           \A i \in S : job[i].state = "active",
           FailRows(S, permanent)
    PROVE  job' \in [Ids -> Row] /\ \A i \in Ids : RowStep(i)
  <1>1. job \in [Ids -> Row]
    BY DEF TypeOK
  <1>2. SUFFICES ASSUME NEW i \in Ids
                 PROVE  job'[i] \in Row /\ RowStep(i)
    BY DEF FailRows
  <1>3. job[i] \in Row /\ job[i].rc \in 0..RetryLimit
    BY <1>1 DEF Row
  <1>4. CASE i \notin S
    BY <1>3, <1>4 DEF FailRows, RowStep
  <1>5. CASE i \in S
    BY <1>3, <1>5 DEF FailRows, RowStep, Row, Live, Waiting
  <1> QED BY <1>4, <1>5

\* How one step may change what a batch holds for an id.
SlotStep(b, i) ==
    LET s == batch[b].slot[i]
        t == batch'[b].slot[i]
    IN  \/ t = s
        \/ t = EmptySlot
        \/ s.pc # "empty" /\ t.pc # "empty" /\ t.rc = s.rc /\ t.inc = s.inc /\ t.load = s.load
        \/ /\ job[i].state \in Waiting
           /\ job'[i] = [job[i] EXCEPT !.state = "active", !.rc = ClaimedRc(job[i])]
           /\ t = [pc |-> "handler", rc |-> ClaimedRc(job[i]), inc |-> job[i].inc, load |-> job[i].load]
           /\ \A a \in Batches : a # b => batch'[a] = batch[a]

\* Every step keeps the types of the rows and changes each of them in one of the known ways.
LEMMA RowsMove ==
    ASSUME IInv, [Next]_vars
    PROVE  job' \in [Ids -> Row] /\ \A i \in Ids : RowStep(i)
  <1> USE DEF IInv
  <1>0. job \in [Ids -> Row] /\ issued \in 0..MaxInc
    BY DEF TypeOK
  <1>a. ASSUME NEW b \in Batches, Worker(b)
        PROVE  job' \in [Ids -> Row] /\ \A i \in Ids : RowStep(i)
    <2>1. ASSUME NEW S \in SUBSET Ids, Fetch(b, S)
          PROVE  job' \in [Ids -> Row] /\ \A i \in Ids : RowStep(i)
      <3>1. SUFFICES ASSUME NEW i \in Ids PROVE job'[i] \in Row /\ RowStep(i)
        BY <2>1 DEF Fetch
      <3>2. job[i] \in Row /\ job[i].rc \in 0..RetryLimit
        BY <1>0 DEF Row
      <3>3. CASE i \notin S
        BY <2>1, <3>2, <3>3 DEF Fetch, RowStep
      <3>4. CASE i \in S
        <4>1. job'[i] = [job[i] EXCEPT !.state = "active", !.rc = ClaimedRc(job[i])]
              /\ job[i].state \in Waiting
          BY <2>1, <3>4 DEF Fetch
        <4>2. ClaimedRc(job[i]) \in 0..RetryLimit
          BY <3>2 DEF ClaimedRc, RowsOK
        <4>3. job'[i] \in Row
          BY <3>2, <4>1, <4>2 DEF Row, Live
        <4> QED BY <4>1, <4>3 DEF RowStep
      <3> QED BY <3>3, <3>4
    <2>2. ASSUME NEW i \in Ids, EarlySettle(b, i) \/ EarlySettleError(b, i)
          PROVE  job' \in [Ids -> Row] /\ \A k \in Ids : RowStep(k)
      <3>1. CASE job' = job
        BY <1>0, <3>1 DEF RowStep
      <3>2. CASE Fenced(job[i], batch[b].slot[i]) /\ CompleteRow(i)
        BY <1>0, <3>2 DEF RowStep, Fenced, CompleteRow, Row
      <3>3. CASE Fenced(job[i], batch[b].slot[i]) /\ DeleteRow(i)
        <4>1. NoRow \in Row
          BY DEF NoRow, Row
        <4> QED BY <1>0, <3>3, <4>1 DEF RowStep, DeleteRow, Fenced, Live
      <3> QED BY <2>2, <3>1, <3>2, <3>3 DEF EarlySettle, EarlySettleError, SettleSuccess
    <2>3. ASSUME NEW i \in Ids, BatchSettle(b, i)
          PROVE  job' \in [Ids -> Row] /\ \A k \in Ids : RowStep(k)
      <3>0. batch[b].slot[i].pc \in {"empty", "handler", "succeeded", "unsettled", "completed", "failed", "deadletter"}
        BY DEF TypeOK, Batch, Slot
      <3>1. CASE job' = job
        BY <1>0, <3>1 DEF RowStep
      <3>2. CASE Fenced(job[i], batch[b].slot[i]) /\ CompleteRow(i)
        BY <1>0, <3>2 DEF RowStep, Fenced, CompleteRow, Row
      <3>3. CASE \E P \in SUBSET Ids :
                   FailRows(IF Fenced(job[i], batch[b].slot[i]) THEN {i} ELSE {}, P)
        <4> PICK P \in SUBSET Ids : FailRows(IF Fenced(job[i], batch[b].slot[i]) THEN {i} ELSE {}, P)
          BY <3>3
        <4> DEFINE F == IF Fenced(job[i], batch[b].slot[i]) THEN {i} ELSE {}
        <4>1. F \in SUBSET Ids /\ \A k \in F : job[k].state = "active"
          BY DEF Fenced
        <4>2. FailRows(F, P)
          OBVIOUS
        <4> HIDE DEF F
        <4> QED BY <4>1, <4>2, FailRowsStep
      <3>4. {} \in SUBSET Ids /\ {i} \in SUBSET Ids
        OBVIOUS
      <3>5. job' = job \/ (Fenced(job[i], batch[b].slot[i]) /\ CompleteRow(i))
            \/ FailRows(IF Fenced(job[i], batch[b].slot[i]) THEN {i} ELSE {}, {})
            \/ FailRows(IF Fenced(job[i], batch[b].slot[i]) THEN {i} ELSE {}, {i})
        <4>1. ~(batch[b].slot[i].pc \in {"handler", "succeeded", "empty"})
          BY <2>3 DEF BatchSettle, SlotsOK
        <4> QED BY <2>3, <3>0, <4>1 DEF BatchSettle
      <3> QED BY <3>1, <3>2, <3>3, <3>4, <3>5
    <2>4. ASSUME CutOff(b)
          PROVE  job' \in [Ids -> Row] /\ \A k \in Ids : RowStep(k)
      <3> DEFINE F == {i \in Ids : batch[b].slot[i].pc # "empty" /\ Fenced(job[i], batch[b].slot[i])}
      <3>1. F \in SUBSET Ids /\ \A k \in F : job[k].state = "active"
        BY DEF Fenced
      <3>2. FailRows(F, {})
        BY <2>4 DEF CutOff
      <3> HIDE DEF F
      <3> QED BY <3>1, <3>2, FailRowsStep
    <2>5. ASSUME (\E i \in Ids, o \in Outcomes : HandlerReturns(b, i, o)) \/ BatchReturns(b) \/ Crash(b)
          PROVE  job' \in [Ids -> Row] /\ \A k \in Ids : RowStep(k)
      BY <1>0, <2>5 DEF HandlerReturns, BatchReturns, Crash, RowStep
    <2> QED BY <1>a, <2>1, <2>2, <2>3, <2>4, <2>5 DEF Worker
  <1>b. ASSUME NEW i \in Ids, Send(i)
        PROVE  job' \in [Ids -> Row] /\ \A k \in Ids : RowStep(k)
    <2> DEFINE f == FreshRow(issued + 1, issued + 1)
    <2>1. /\ job' = [job EXCEPT ![i] = f] /\ issued < MaxInc /\ issued' = issued + 1
          /\ job[i].state = "none" /\ ~HeldId(i) /\ dlq' = dlq
      BY <1>b DEF Send
    <2>2. f \in Row /\ issued + 1 \in 1..(issued + 1)
      BY <1>0, <2>1 DEF FreshRow, Row, Live, Waiting
    <2>3. job'[i] = f /\ \A k \in Ids : k # i => job'[k] = job[k]
      BY <1>0, <2>1
    <2>4. job' \in [Ids -> Row]
      BY <1>0, <2>1, <2>2
    <2>5. RowStep(i)
      BY <2>1, <2>2, <2>3 DEF RowStep
    <2> QED BY <2>3, <2>4, <2>5 DEF RowStep
  <1>c. ASSUME NEW i \in Ids, Expire(i)
        PROVE  job' \in [Ids -> Row] /\ \A k \in Ids : RowStep(k)
    <2>1. {i} \in SUBSET Ids /\ {} \in SUBSET Ids /\ \A k \in {i} : job[k].state = "active"
      BY <1>c DEF Expire
    <2> QED BY <1>c, <2>1, FailRowsStep DEF Expire
  <1>d. ASSUME Drops
        PROVE  job' \in [Ids -> Row] /\ \A k \in Ids : RowStep(k)
    <2>1. NoRow \in Row
      BY DEF NoRow, Row
    <2> QED BY <1>0, <1>d, <2>1 DEF Drops, SweepPending, Maintain, DropCopy, DeleteRow, RowStep, Live
  <1>e. ASSUME NEW r \in Redrivers, Operator(r)
        PROVE  job' \in [Ids -> Row] /\ \A k \in Ids : RowStep(k)
    <2>1. CASE job' = job
      BY <1>0, <2>1 DEF RowStep
    <2>2. CASE RedriveCommit(r)
      <3> DEFINE c == redriver[r].copy
                 f == FreshRow(issued + 1, c.load)
      <3>1. c \in Copy /\ c \in dlq /\ c.load \in 1..issued
        BY <2>2 DEF RedriveCommit, MovesOK, CopyHeld, HeldRows, TypeOK, CopiesOK
      <3>2. c.id \in Ids
        BY <3>1 DEF Copy
      <3>3. /\ job' = [job EXCEPT ![c.id] = f] /\ issued < MaxInc /\ issued' = issued + 1
            /\ dlq' = dlq \ {c} /\ redriver[r].pc = "inserted" /\ redriver'[r].pc = "idle"
        BY <2>2 DEF RedriveCommit, TypeOK, IdleRedrive
      <3>4. f \in Row /\ c.load \in 1..(issued + 1)
        BY <1>0, <3>1, <3>3 DEF FreshRow, Row, Live, Waiting
      <3>5. job'[c.id] = f /\ \A k \in Ids : k # c.id => job'[k] = job[k]
        BY <1>0, <3>2, <3>3
      <3>6. job' \in [Ids -> Row]
        BY <1>0, <3>2, <3>3, <3>4
      <3>7. job[c.id].state \in {"none", "failed"}
        BY <2>2 DEF MovesOK, CopyHeld, HeldRows, RedriveCommit
      <3>8. RowStep(c.id)
        BY <3>1, <3>3, <3>4, <3>5, <3>7 DEF RowStep
      <3> QED BY <3>5, <3>6, <3>8 DEF RowStep
    <2> QED BY <1>e, <2>1, <2>2 DEF Operator, RedriveLock, RedriveFree, RedriveSend, RedriveRollback
  <1>f. CASE UNCHANGED vars
    BY <1>0, <1>f DEF vars, RowStep
  <1> QED BY <1>a, <1>b, <1>c, <1>d, <1>e, <1>f DEF Next

\* Every step keeps the types of the batches and changes what they hold in one of the known ways.
LEMMA SlotsMove ==
    ASSUME IInv, [Next]_vars
    PROVE  batch' \in [Batches -> Batch] /\ \A b \in Batches, i \in Ids : SlotStep(b, i)
  <1> USE DEF IInv
  <1>0. batch \in [Batches -> Batch] /\ job \in [Ids -> Row] /\ IdleBatch \in Batch
    BY DEF TypeOK, IdleBatch, Batch, EmptySlot, Slot
  <1>1. CASE batch' = batch
    BY <1>0, <1>1 DEF SlotStep
  <1>2. ASSUME NEW b \in Batches, batch' = [batch EXCEPT ![b] = IdleBatch]
        PROVE  batch' \in [Batches -> Batch] /\ \A a \in Batches, i \in Ids : SlotStep(a, i)
    <2>1. \A i \in Ids : IdleBatch.slot[i] = EmptySlot
      BY DEF IdleBatch
    <2> QED BY <1>0, <1>2, <2>1 DEF SlotStep
  <1>3. ASSUME NEW b \in Batches, NEW S \in SUBSET Ids, Fetch(b, S)
        PROVE  batch' \in [Batches -> Batch] /\ \A a \in Batches, i \in Ids : SlotStep(a, i)
    <2> DEFINE new == [i \in Ids |->
            IF i \in S THEN [pc |-> "handler", rc |-> ClaimedRc(job[i]),
                             inc |-> job[i].inc, load |-> job[i].load]
            ELSE EmptySlot]
    <2>1. batch' = [batch EXCEPT ![b] = [phase |-> "running", cut |-> FALSE, slot |-> new]]
      BY <1>3 DEF Fetch
    <2>2. new \in [Ids -> Slot]
      <3>1. SUFFICES ASSUME NEW i \in Ids PROVE new[i] \in Slot
        OBVIOUS
      <3>2. job[i] \in Row /\ job[i].rc \in 0..RetryLimit
        BY <1>0 DEF Row
      <3>3. ClaimedRc(job[i]) \in 0..RetryLimit
        BY <3>2 DEF ClaimedRc, RowsOK
      <3> QED BY <3>2, <3>3 DEF Slot, EmptySlot, Row
    <2>3. [phase |-> "running", cut |-> FALSE, slot |-> new] \in Batch
      BY <2>2 DEF Batch
    <2>4. batch' \in [Batches -> Batch]
      BY <1>0, <2>1, <2>3
    <2>5. ASSUME NEW a \in Batches, NEW i \in Ids PROVE SlotStep(a, i)
      <3>1. CASE a # b
        BY <1>0, <2>1, <3>1 DEF SlotStep
      <3>2. CASE a = b
        <4>1. batch'[a].slot[i] = new[i] /\ \A d \in Batches : d # a => batch'[d] = batch[d]
          BY <1>0, <2>1, <3>2
        <4>2. CASE i \notin S
          BY <4>1, <4>2 DEF SlotStep
        <4>3. CASE i \in S
          <5>1. new[i] = [pc |-> "handler", rc |-> ClaimedRc(job[i]), inc |-> job[i].inc, load |-> job[i].load]
            BY <4>3
          <5>2. job[i].state \in Waiting
                /\ job'[i] = [job[i] EXCEPT !.state = "active", !.rc = ClaimedRc(job[i])]
            BY <1>3, <4>3 DEF Fetch
          <5> HIDE DEF new
          <5> QED BY <4>1, <5>1, <5>2 DEF SlotStep
        <4> QED BY <4>2, <4>3
      <3> QED BY <3>1, <3>2
    <2> QED BY <2>4, <2>5
  <1>4. ASSUME NEW b \in Batches, NEW i \in Ids,
               NEW o \in {"succeeded", "unsettled", "completed", "failed", "deadletter"},
               batch[b].slot[i].pc # "empty", batch' = [batch EXCEPT ![b].slot[i].pc = o]
        PROVE  batch' \in [Batches -> Batch] /\ \A a \in Batches, k \in Ids : SlotStep(a, k)
    <2>1. batch[b] \in Batch /\ batch[b].slot \in [Ids -> Slot] /\ batch[b].slot[i] \in Slot
      BY <1>0 DEF Batch
    <2> DEFINE t == [batch[b].slot[i] EXCEPT !.pc = o]
               u == [batch[b].slot EXCEPT ![i] = t]
               w == [batch[b] EXCEPT !.slot = u]
    <2>2. t \in Slot
      BY <2>1 DEF Slot
    <2>3. u \in [Ids -> Slot] /\ u[i] = t /\ \A k \in Ids : k # i => u[k] = batch[b].slot[k]
      BY <2>1, <2>2
    <2>4. batch' = [batch EXCEPT ![b] = w]
      BY <1>0, <1>4
    <2>5. w \in Batch /\ w.slot = u
      <3> HIDE DEF u
      <3> QED BY <2>1, <2>3 DEF Batch
    <2>6. batch' \in [Batches -> Batch] /\ batch'[b] = w /\ \A a \in Batches : a # b => batch'[a] = batch[a]
      <3> HIDE DEF w
      <3> QED BY <1>0, <2>4, <2>5
    <2> HIDE DEF u, w
    <2>7. ASSUME NEW a \in Batches, NEW k \in Ids PROVE SlotStep(a, k)
      <3>1. CASE a = b /\ k = i
        <4>1. batch'[a].slot[k] = t
          BY <2>3, <2>5, <2>6, <3>1
        <4> QED BY <1>4, <2>1, <3>1, <4>1 DEF SlotStep, Slot
      <3>2. CASE ~(a = b /\ k = i)
        <4>1. batch'[a].slot[k] = batch[a].slot[k]
          BY <2>3, <2>5, <2>6, <3>2
        <4> QED BY <4>1 DEF SlotStep
      <3> QED BY <3>1, <3>2
    <2> QED BY <2>6, <2>7
  <1>5. ASSUME NEW b \in Batches,
               \/ batch' = [batch EXCEPT ![b].cut = TRUE]
               \/ batch' = [batch EXCEPT ![b].phase = "settling"]
               \/ batch' = [batch EXCEPT ![b] = [batch[b] EXCEPT !.phase = "settling"]]
        PROVE  batch' \in [Batches -> Batch] /\ \A a \in Batches, k \in Ids : SlotStep(a, k)
    <2>1. batch[b] \in Batch
      BY <1>0
    <2>2. PICK w \in Batch : w.slot = batch[b].slot /\ batch' = [batch EXCEPT ![b] = w]
      <3>1. [batch[b] EXCEPT !.cut = TRUE] \in Batch /\ [batch[b] EXCEPT !.phase = "settling"] \in Batch
        BY <2>1 DEF Batch
      <3>2. [batch[b] EXCEPT !.cut = TRUE].slot = batch[b].slot
            /\ [batch[b] EXCEPT !.phase = "settling"].slot = batch[b].slot
        BY <2>1 DEF Batch
      <3> QED BY <1>5, <3>1, <3>2
    <2>3. batch' \in [Batches -> Batch] /\ \A a \in Batches : batch'[a].slot = batch[a].slot
      BY <1>0, <2>2
    <2> QED BY <2>3 DEF SlotStep
  <1>6. ASSUME NEW b \in Batches, NEW i \in Ids,
               batch' = [batch EXCEPT ![b] = [batch[b] EXCEPT !.slot = [@ EXCEPT ![i] = EmptySlot]]]
        PROVE  batch' \in [Batches -> Batch] /\ \A a \in Batches, k \in Ids : SlotStep(a, k)
    <2>1. batch[b] \in Batch /\ batch[b].slot \in [Ids -> Slot] /\ EmptySlot \in Slot
      BY <1>0 DEF Batch, EmptySlot, Slot
    <2>2. [batch[b].slot EXCEPT ![i] = EmptySlot] \in [Ids -> Slot]
      BY <2>1
    <2>3. [batch[b] EXCEPT !.slot = [@ EXCEPT ![i] = EmptySlot]] \in Batch
      BY <2>1, <2>2 DEF Batch
    <2>4. batch' \in [Batches -> Batch]
      BY <1>0, <1>6, <2>3
    <2>5. \A a \in Batches, k \in Ids :
            batch'[a].slot[k] = IF a = b /\ k = i THEN EmptySlot ELSE batch[a].slot[k]
      BY <1>0, <1>6, <2>1 DEF Batch
    <2> QED BY <2>4, <2>5 DEF SlotStep
  <1>7. ASSUME NEW b \in Batches, Worker(b)
        PROVE  batch' \in [Batches -> Batch] /\ \A a \in Batches, k \in Ids : SlotStep(a, k)
    <2>1. CASE \E i \in Ids : BatchSettle(b, i)
      <3> PICK i \in Ids : BatchSettle(b, i)
        BY <2>1
      <3>1. \/ batch' = [batch EXCEPT ![b] = IdleBatch]
            \/ batch' = [batch EXCEPT ![b] = [batch[b] EXCEPT !.slot = [@ EXCEPT ![i] = EmptySlot]]]
        BY DEF BatchSettle
      <3> QED BY <3>1, <1>2, <1>6
    <2>2. CASE BatchReturns(b)
      <3>1. \/ batch' = [batch EXCEPT ![b] = IdleBatch]
            \/ batch' = [batch EXCEPT ![b] = [batch[b] EXCEPT !.phase = "settling"]]
        BY <2>2 DEF BatchReturns
      <3> QED BY <3>1, <1>2, <1>5
    <2>3. CASE CutOff(b)
      BY <2>3, <1>5 DEF CutOff
    <2>4. CASE Crash(b)
      BY <2>4, <1>2 DEF Crash
    <2>5. CASE \E S \in SUBSET Ids : Fetch(b, S)
      BY <2>5, <1>3
    <2>6. CASE \E i \in Ids, o \in Outcomes : HandlerReturns(b, i, o)
      BY <2>6, <1>4 DEF HandlerReturns, Outcomes
    <2>7. CASE \E i \in Ids : EarlySettle(b, i) \/ EarlySettleError(b, i)
      BY <2>7, <1>4 DEF EarlySettle, EarlySettleError
    <2> QED BY <1>7, <2>1, <2>2, <2>3, <2>4, <2>5, <2>6, <2>7 DEF Worker
  <1>8. CASE UNCHANGED vars \/ (\E i \in Ids : Send(i) \/ Expire(i)) \/ Drops
             \/ (\E r \in Redrivers : Operator(r))
    <2>1. batch' = batch
      BY <1>8 DEF vars, Send, Expire, Drops, SweepPending, Maintain, DropCopy, Operator,
                  RedriveLock, RedriveFree, RedriveSend, RedriveCommit, RedriveRollback
    <2> QED BY <2>1, <1>1
  <1> QED BY <1>7, <1>8 DEF Next

\* A dead letter appears only when its job, which was active, fails for good.
DlqStep ==
    /\ dlq' \subseteq Copy
    /\ \A c \in dlq' \ dlq : /\ job[c.id].state = "active" /\ job'[c.id].state = "failed"
                             /\ c.inc = job[c.id].inc /\ c.load = job[c.id].load
                             /\ issued' = issued /\ redriver' = redriver

LEMMA FailRowsDlq ==
    ASSUME TypeOK, RowsOK, NEW S \in SUBSET Ids, NEW permanent \in SUBSET Ids,
           \A i \in S : job[i].state = "active",
           FailRows(S, permanent), UNCHANGED <<redriver, issued>>
    PROVE  DlqStep /\ dlq \subseteq dlq'
  <1>1. job \in [Ids -> Row] /\ issued \in 0..MaxInc
    BY DEF TypeOK
  <1>2. ASSUME NEW i \in S
        PROVE  [inc |-> job[i].inc, id |-> i, load |-> job[i].load] \in Copy
    BY <1>1, <1>2 DEF RowsOK, Copy, Incs, TypeOK
  <1>3. ASSUME NEW c \in dlq' \ dlq
        PROVE  c \in Copy /\ job[c.id].state = "active" /\ job'[c.id].state = "failed"
               /\ c.inc = job[c.id].inc /\ c.load = job[c.id].load
    <2>1. PICK i \in S : c = [inc |-> job[i].inc, id |-> i, load |-> job[i].load]
                         /\ (i \in permanent \/ job[i].rc = RetryLimit)
      BY <1>3 DEF FailRows
    <2>2. job'[i] = [job[i] EXCEPT !.state = "failed"]
      BY <2>1 DEF FailRows
    <2>3. job[i] \in Row
      BY <1>1
    <2> QED BY <1>2, <2>1, <2>2, <2>3 DEF Row
  <1>4. dlq \subseteq dlq' /\ dlq \subseteq Copy
    BY DEF FailRows, TypeOK
  <1> QED BY <1>3, <1>4 DEF DlqStep

LEMMA DlqMoves ==
    ASSUME IInv, [Next]_vars
    PROVE  DlqStep /\ (redriver' = redriver =>
                         \A c \in dlq \ dlq' : \A r \in Redrivers : redriver[r].copy # c)
  <1> USE DEF IInv
  <1>0. dlq \subseteq Copy
    BY DEF TypeOK
  <1>1. CASE dlq' = dlq
    BY <1>0, <1>1 DEF DlqStep
  <1>2. ASSUME NEW S \in SUBSET Ids, NEW P \in SUBSET Ids, \A i \in S : job[i].state = "active",
               FailRows(S, P), UNCHANGED <<redriver, issued>>
        PROVE  DlqStep /\ dlq \subseteq dlq'
    BY <1>2, FailRowsDlq
  <1>3. CASE \E i \in Ids : Expire(i)
    <2>1. PICK i \in Ids : Expire(i)
      BY <1>3
    <2>2. {i} \in SUBSET Ids /\ {} \in SUBSET Ids /\ \A k \in {i} : job[k].state = "active"
      BY <2>1 DEF Expire
    <2> QED BY <1>2, <2>1, <2>2 DEF Expire
  <1>4. CASE \E b \in Batches : CutOff(b)
    <2>1. PICK b \in Batches : CutOff(b)
      BY <1>4
    <2> DEFINE F == {i \in Ids : batch[b].slot[i].pc # "empty" /\ Fenced(job[i], batch[b].slot[i])}
    <2>2. F \in SUBSET Ids /\ {} \in SUBSET Ids /\ \A k \in F : job[k].state = "active"
      BY DEF Fenced
    <2>3. FailRows(F, {}) /\ UNCHANGED <<redriver, issued>>
      BY <2>1 DEF CutOff
    <2> HIDE DEF F
    <2> QED BY <1>2, <2>2, <2>3
  <1>5. CASE \E b \in Batches, i \in Ids : BatchSettle(b, i)
    <2>1. PICK b \in Batches, i \in Ids : BatchSettle(b, i)
      BY <1>5
    <2> DEFINE F == IF Fenced(job[i], batch[b].slot[i]) THEN {i} ELSE {}
    <2>2. F \in SUBSET Ids /\ {} \in SUBSET Ids /\ {i} \in SUBSET Ids /\ \A k \in F : job[k].state = "active"
      BY DEF Fenced
    <2>3. batch[b].slot[i].pc \in {"unsettled", "completed", "failed", "deadletter"}
      <3>1. batch[b].slot[i].pc \in {"empty", "handler", "succeeded", "unsettled", "completed", "failed", "deadletter"}
        BY DEF TypeOK, Batch, Slot
      <3> QED BY <2>1, <3>1 DEF BatchSettle, SlotsOK
    <2>4. (dlq' = dlq \/ FailRows(F, {}) \/ FailRows(F, {i})) /\ UNCHANGED <<redriver, issued>>
      BY <2>1, <2>3 DEF BatchSettle
    <2> HIDE DEF F
    <2> QED BY <1>1, <1>2, <2>2, <2>4
  <1>6. CASE \E c \in dlq : DropCopy(c)
    BY <1>0, <1>6 DEF DropCopy, DlqStep
  <1>7. CASE \E r \in Redrivers : RedriveCommit(r)
    <2>1. PICK r \in Redrivers : RedriveCommit(r)
      BY <1>7
    <2>2. redriver' # redriver
      BY <2>1 DEF RedriveCommit, TypeOK, IdleRedrive
    <2> QED BY <1>0, <2>1, <2>2 DEF RedriveCommit, DlqStep
  <1>8. CASE UNCHANGED vars
    BY <1>1, <1>8 DEF vars
  <1>9. CASE \E i \in Ids : Send(i)
    BY <1>1, <1>9 DEF Send
  <1>10. CASE \E b \in Batches : Worker(b)
    BY <1>1, <1>4, <1>5, <1>10
       DEF Worker, Fetch, HandlerReturns, EarlySettle, EarlySettleError, BatchReturns, Crash
  <1>11. CASE Drops
    BY <1>1, <1>6, <1>11 DEF Drops, SweepPending, Maintain
  <1>12. CASE \E r \in Redrivers : Operator(r)
    BY <1>1, <1>7, <1>12 DEF Operator, RedriveLock, RedriveFree, RedriveSend, RedriveRollback
  <1> QED BY <1>3, <1>8, <1>9, <1>10, <1>11, <1>12 DEF Next

\* The counter of incarnations grows by at most one, and only while the bound allows.
LEMMA IssuedMoves ==
    ASSUME TypeOK, [Next]_vars
    PROVE  issued' \in 0..MaxInc /\ (issued' = issued \/ issued' = issued + 1)
  <1>1. issued \in 0..MaxInc
    BY DEF TypeOK
  <1>2. issued' = issued \/ (issued' = issued + 1 /\ issued < MaxInc)
    BY DEF Next, vars, Send, Expire, Drops, SweepPending, Maintain, DropCopy, Operator, RedriveLock,
           RedriveFree, RedriveSend, RedriveCommit, RedriveRollback, Worker, Fetch, HandlerReturns,
           EarlySettle, EarlySettleError, BatchSettle, BatchReturns, CutOff, Crash
  <1> QED BY <1>1, <1>2

LEMMA RedriversTyped ==
    ASSUME IInv, [Next]_vars
    PROVE  redriver' \in [Redrivers -> Redrive]
  <1> USE DEF IInv
  <1>0. redriver \in [Redrivers -> Redrive] /\ IdleRedrive \in Redrive /\ dlq \subseteq Copy
    BY DEF TypeOK, IdleRedrive, Redrive
  <1>1. CASE redriver' = redriver
    BY <1>0, <1>1
  <1>2. ASSUME NEW r \in Redrivers, Operator(r)
        PROVE  redriver' \in [Redrivers -> Redrive]
    <2>0. redriver[r] \in Redrive
      BY <1>0
    <2>1. CASE \E c \in dlq : RedriveLock(r, c)
      BY <1>0, <2>1 DEF RedriveLock, Redrive
    <2>2. CASE RedriveFree(r)
      BY <1>0, <2>0, <2>2 DEF RedriveFree, Redrive
    <2>3. CASE RedriveSend(r)
      BY <1>0, <2>0, <2>3 DEF RedriveSend, Redrive
    <2>4. CASE RedriveCommit(r) \/ RedriveRollback(r)
      BY <1>0, <2>4 DEF RedriveCommit, RedriveRollback
    <2> QED BY <1>2, <2>1, <2>2, <2>3, <2>4 DEF Operator
  <1>3. CASE UNCHANGED vars \/ (\E i \in Ids : Send(i) \/ Expire(i)) \/ Drops
             \/ (\E b \in Batches : Worker(b))
    <2>1. redriver' = redriver
      BY <1>3 DEF vars, Send, Expire, Drops, SweepPending, Maintain, DropCopy, Worker, Fetch,
         HandlerReturns, EarlySettle, EarlySettleError, BatchSettle, BatchReturns, CutOff, Crash
    <2> QED BY <2>1, <1>1
  <1> QED BY <1>2, <1>3 DEF Next

LEMMA RowsKept ==
    ASSUME IInv, [Next]_vars
    PROVE  RowsOK'
  <1> USE DEF IInv
  <1>1. SUFFICES ASSUME NEW i \in Ids
                 PROVE  /\ job'[i].state = "none" => job'[i] = NoRow
                        /\ job'[i].state # "none" => job'[i].inc \in 1..issued' /\ job'[i].load \in 1..issued'
                        /\ job'[i].state = "retry" => job'[i].rc < RetryLimit
    BY DEF RowsOK
  <1>2. job[i] \in Row /\ issued \in 0..MaxInc
    BY DEF TypeOK
  <1>3. RowStep(i) /\ issued' \in 0..MaxInc /\ (issued' = issued \/ issued' = issued + 1)
    BY RowsMove, IssuedMoves
  <1>4. CASE job'[i] = job[i] \/ job'[i] = NoRow
    BY <1>2, <1>3, <1>4 DEF RowsOK, NoRow
  <1>5. CASE \E l \in 1..(issued + 1) : issued' = issued + 1 /\ job'[i] = FreshRow(issued + 1, l)
    BY <1>2, <1>3, <1>5 DEF FreshRow
  <1>6. CASE /\ job[i].state \in Live /\ job'[i].state \in {"active", "retry", "completed", "failed"}
             /\ job'[i].inc = job[i].inc /\ job'[i].load = job[i].load
             /\ job'[i].state = "retry" => job'[i].rc < RetryLimit
    BY <1>2, <1>3, <1>6 DEF RowsOK, Live, Waiting
  <1>7. \/ job'[i] = job[i] \/ job'[i] = NoRow
        \/ \E l \in 1..(issued + 1) : issued' = issued + 1 /\ job'[i] = FreshRow(issued + 1, l)
        \/ /\ job[i].state \in Live /\ job'[i].state \in {"active", "retry", "completed", "failed"}
           /\ job'[i].inc = job[i].inc /\ job'[i].load = job[i].load
           /\ job'[i].state = "retry" => job'[i].rc < RetryLimit
    BY <1>2, <1>3 DEF RowStep, Row, Live
  <1> QED BY <1>4, <1>5, <1>6, <1>7

LEMMA CopiesKept ==
    ASSUME IInv, [Next]_vars
    PROVE  CopiesOK'
  <1> USE DEF IInv
  <1>1. SUFFICES ASSUME NEW c \in dlq' PROVE c.inc \in 1..issued' /\ c.load \in 1..issued'
    BY DEF CopiesOK
  <1>2. issued \in 0..MaxInc /\ issued' \in 0..MaxInc /\ (issued' = issued \/ issued' = issued + 1)
    BY IssuedMoves DEF TypeOK
  <1>3. CASE c \in dlq
    BY <1>2, <1>3 DEF CopiesOK
  <1>4. CASE c \notin dlq
    <2>1. c \in Copy /\ job[c.id].state = "active" /\ c.inc = job[c.id].inc /\ c.load = job[c.id].load
      BY <1>4, DlqMoves DEF DlqStep
    <2>2. c.id \in Ids
      BY <2>1 DEF Copy
    <2> QED BY <1>2, <2>1, <2>2 DEF RowsOK
  <1> QED BY <1>3, <1>4

LEMMA DuplicateFree ==
    ASSUME IInv, [Next]_vars
    PROVE  NoDuplicate'
  <1> USE DEF IInv
  <1>0. /\ job \in [Ids -> Row] /\ dlq \subseteq Copy /\ dlq' \subseteq Copy /\ issued \in 0..MaxInc
        /\ \A c \in Copy : c.id \in Ids
    BY DlqMoves DEF TypeOK, DlqStep, Copy
  <1>1. \A i \in Ids : RowStep(i)
    BY RowsMove
  <1>2. \A c \in dlq' \ dlq : /\ c \in Copy /\ c.id \in Ids
                              /\ job[c.id].state \in Live /\ job'[c.id].state \notin Live
                              /\ c.inc = job[c.id].inc /\ c.load = job[c.id].load
    BY <1>0, DlqMoves DEF DlqStep, Live, Waiting
  \* A row that is live after the step was live before it with the same payload, or is new.
  <1> DEFINE New(i) ==
        /\ dlq' \subseteq dlq /\ \A k \in Ids : k # i => job'[k] = job[k]
        /\ \/ job'[i].load = issued + 1
           \/ \E c \in dlq : c.load = job'[i].load /\ c \notin dlq'
  <1>3. ASSUME NEW i \in Ids, job'[i].state \in Live
        PROVE  (job[i].state \in Live /\ job'[i].load = job[i].load) \/ New(i)
    <2>1. job[i] \in Row /\ RowStep(i)
      BY <1>0, <1>1
    <2>2. CASE \E l \in 1..(issued + 1) :
                  /\ job'[i] = FreshRow(issued + 1, l)
                  /\ l = issued + 1 \/ \E c \in dlq : c.load = l /\ c \notin dlq'
      <3>1. CASE dlq' \subseteq dlq /\ \A k \in Ids : k # i => job'[k] = job[k]
        BY <2>2, <3>1 DEF FreshRow
      <3>2. CASE ~(dlq' \subseteq dlq /\ \A k \in Ids : k # i => job'[k] = job[k])
        <4>1. \/ job'[i] = job[i] \/ job'[i] = NoRow
              \/ job[i].state \in Live /\ job'[i].load = job[i].load
          BY <2>1, <3>2 DEF RowStep, Row, Live
        <4> QED BY <1>3, <4>1 DEF NoRow, Live, Waiting
      <3> QED BY <3>1, <3>2
    <2>3. CASE ~(\E l \in 1..(issued + 1) :
                  /\ job'[i] = FreshRow(issued + 1, l)
                  /\ l = issued + 1 \/ \E c \in dlq : c.load = l /\ c \notin dlq')
      <3>1. \/ job'[i] = job[i] \/ job'[i] = NoRow
            \/ job[i].state \in Live /\ job'[i].load = job[i].load
        BY <2>1, <2>3 DEF RowStep, Row, Live
      <3> QED BY <1>3, <3>1 DEF NoRow, Live, Waiting
    <2> QED BY <2>2, <2>3
  <1>4. \A i \in Ids : job[i].state \in Live => job[i].load \in 1..issued
    BY DEF RowsOK, Live, Waiting
  <1>5. ASSUME NEW c \in dlq', NEW d \in dlq', c.load = d.load
        PROVE  c = d
    <2>1. CASE c \in dlq /\ d \in dlq
      BY <1>5, <2>1 DEF NoDuplicate
    <2>2. CASE c \notin dlq /\ d \in dlq
      BY <1>2, <1>5, <2>2 DEF NoDuplicate
    <2>3. CASE c \in dlq /\ d \notin dlq
      BY <1>2, <1>5, <2>3 DEF NoDuplicate
    <2>4. CASE c \notin dlq /\ d \notin dlq
      <3>1. c.id = d.id
        BY <1>2, <1>5, <2>4 DEF NoDuplicate
      <3> QED BY <1>2, <1>5, <2>4, <3>1 DEF Copy
    <2> QED BY <2>1, <2>2, <2>3, <2>4
  <1>6. ASSUME NEW c \in dlq', NEW i \in Ids, job'[i].state \in Live
        PROVE  job'[i].load # c.load
    <2>1. CASE New(i)
      <3>1. c \in dlq /\ c.load \in 1..issued
        BY <2>1 DEF CopiesOK
      <3> QED BY <1>0, <2>1, <3>1 DEF NoDuplicate
    <2>2. CASE job[i].state \in Live /\ job'[i].load = job[i].load
      <3>1. CASE c \in dlq
        BY <2>2, <3>1 DEF NoDuplicate
      <3>2. CASE c \notin dlq
        BY <1>2, <1>6, <2>2, <3>2 DEF NoDuplicate
      <3> QED BY <3>1, <3>2
    <2> QED BY <1>3, <1>6, <2>1, <2>2
  <1>7. ASSUME NEW i \in Ids, NEW k \in Ids, job'[i].state \in Live, job'[k].state \in Live,
               job'[i].load = job'[k].load, i # k
        PROVE  FALSE
    <2>1. ASSUME NEW x \in Ids, NEW y \in Ids, x # y, New(x), job'[y].state \in Live,
                 job'[x].load = job'[y].load
          PROVE  FALSE
      <3>1. job'[y] = job[y] /\ job[y].state \in Live
        BY <2>1
      <3> QED BY <1>0, <1>4, <2>1, <3>1 DEF NoDuplicate
    <2>2. CASE New(i)
      BY <1>7, <2>1, <2>2
    <2>3. CASE New(k)
      BY <1>7, <2>1, <2>3
    <2>4. CASE ~New(i) /\ ~New(k)
      BY <1>3, <1>7, <2>4 DEF NoDuplicate
    <2> QED BY <2>2, <2>3, <2>4
  <1> QED BY <1>5, <1>6, <1>7 DEF NoDuplicate

\* A batch is idle only when it holds nothing, and settles only when no handler is left.
PhaseOK(b) ==
    /\ batch[b].phase = "idle" => \A i \in Ids : batch[b].slot[i].pc = "empty"
    /\ batch[b].phase = "settling" => \A i \in Ids : batch[b].slot[i].pc \notin {"handler", "succeeded"}

LEMMA PhasesKept ==
    ASSUME IInv, [Next]_vars
    PROVE  \A b \in Batches : PhaseOK(b)'
  <1> USE DEF IInv
  <1>0. batch \in [Batches -> Batch] /\ \A b \in Batches : PhaseOK(b)
    BY DEF TypeOK, SlotsOK, PhaseOK
  <1>1. CASE batch' = batch
    BY <1>0, <1>1 DEF PhaseOK
  <1>2. ASSUME NEW b \in Batches, Worker(b), NEW a \in Batches PROVE PhaseOK(a)'
    <2>1. CASE a # b
      <3>1. batch'[a] = batch[a]
        BY <1>0, <1>2, <2>1 DEF Worker, Fetch, HandlerReturns, EarlySettle, EarlySettleError, BatchSettle,
                               BatchReturns, CutOff, Crash
      <3> QED BY <1>0, <3>1 DEF PhaseOK
    <2>2. CASE a = b
      <3>0. batch[b] \in Batch /\ batch[b].slot \in [Ids -> Slot]
        BY <1>0 DEF Batch
      <3>1. CASE batch'[b] = IdleBatch
        BY <2>2, <3>1 DEF PhaseOK, IdleBatch, EmptySlot
      <3>2. CASE batch'[b].phase = "running"
        BY <2>2, <3>2 DEF PhaseOK
      <3>3. CASE BatchReturns(b)
        <4>1. batch'[b] = IdleBatch \/ (batch'[b].slot = batch[b].slot /\ batch'[b].phase = "settling")
          BY <1>0, <3>0, <3>3 DEF BatchReturns, Batch
        <4> QED BY <2>2, <3>1, <3>3, <4>1 DEF PhaseOK, BatchReturns
      <3>4. CASE \E i \in Ids : BatchSettle(b, i)
        <4>1. PICK i \in Ids : BatchSettle(b, i)
          BY <3>4
        <4> DEFINE rest == [batch[b].slot EXCEPT ![i] = EmptySlot]
        <4>2. batch'[b] = IdleBatch \/ batch'[b] = [batch[b] EXCEPT !.slot = rest]
          BY <1>0, <4>1 DEF BatchSettle
        <4>3. \A k \in Ids : rest[k] = EmptySlot \/ rest[k] = batch[b].slot[k]
          BY <3>0
        <4>4. batch[b].phase = "settling" /\ PhaseOK(b)
          BY <1>0, <4>1 DEF BatchSettle
        <4> HIDE DEF rest
        <4>5. CASE batch'[b] = [batch[b] EXCEPT !.slot = rest]
          <5>1. batch'[b].phase = "settling" /\ batch'[b].slot = rest
            BY <3>0, <4>4, <4>5 DEF Batch
          <5> QED BY <2>2, <4>3, <4>4, <5>1 DEF PhaseOK, EmptySlot
        <4> QED BY <3>1, <4>2, <4>5
      <3>5. CASE Crash(b)
        BY <1>0, <3>1, <3>5 DEF Crash
      <3>6. CASE (\E S \in SUBSET Ids : Fetch(b, S)) \/ CutOff(b)
        <4>1. CASE \E S \in SUBSET Ids : Fetch(b, S)
          <5>1. PICK S \in SUBSET Ids : Fetch(b, S)
            BY <4>1
          <5>2. PICK w : batch' = [batch EXCEPT ![b] = [phase |-> "running", cut |-> FALSE, slot |-> w]]
            BY <5>1 DEF Fetch
          <5>3. batch'[b].phase = "running"
            BY <1>0, <5>2
          <5> QED BY <3>2, <5>3
        <4>2. CASE CutOff(b)
          <5>1. batch'[b] = [batch[b] EXCEPT !.cut = TRUE] /\ batch[b].phase = "running"
            BY <1>0, <4>2 DEF CutOff
          <5>2. batch'[b].phase = "running"
            BY <3>0, <5>1 DEF Batch
          <5> QED BY <3>2, <5>2
        <4> QED BY <3>6, <4>1, <4>2
      <3>7. CASE \E i \in Ids : \/ \E o \in Outcomes : HandlerReturns(b, i, o)
                                \/ EarlySettle(b, i) \/ EarlySettleError(b, i)
        <4>1. PICK i \in Ids, o \in {"succeeded", "unsettled", "completed", "failed", "deadletter"} :
                /\ batch[b].slot[i].pc \in {"handler", "succeeded"}
                /\ batch' = [batch EXCEPT ![b].slot[i].pc = o]
          BY <3>7 DEF HandlerReturns, EarlySettle, EarlySettleError, Outcomes
        <4>2. batch'[b].phase = batch[b].phase
          BY <1>0, <3>0, <4>1 DEF Batch
        <4>3. batch[b].phase = "running"
          BY <1>0, <3>0, <4>1 DEF PhaseOK, Batch
        <4> QED BY <3>2, <4>2, <4>3
      <3> QED BY <1>2, <3>3, <3>4, <3>5, <3>6, <3>7 DEF Worker
    <2> QED BY <2>1, <2>2
  <1>3. CASE UNCHANGED vars \/ (\E i \in Ids : Send(i) \/ Expire(i)) \/ Drops
             \/ (\E r \in Redrivers : Operator(r))
    <2>1. batch' = batch
      BY <1>3 DEF vars, Send, Expire, Drops, SweepPending, Maintain, DropCopy, Operator,
                  RedriveLock, RedriveFree, RedriveSend, RedriveCommit, RedriveRollback
    <2> QED BY <2>1, <1>1
  <1> QED BY <1>2, <1>3 DEF Next

\* The attempt a batch holds was fetched, and the row it came from has not gone back behind it.
LEMMA SlotsKept ==
    ASSUME IInv, [Next]_vars
    PROVE  SlotsOK'
  <1> USE DEF IInv
  <1>1. SUFFICES ASSUME NEW b \in Batches, NEW i \in Ids, batch'[b].slot[i].pc # "empty"
                 PROVE  /\ batch'[b].slot[i].inc \in 1..issued'
                        /\ batch'[b].slot[i].inc = job'[i].inc =>
                             /\ batch'[b].slot[i].rc <= job'[i].rc /\ job'[i].state # "created"
                             /\ batch'[b].slot[i].load = job'[i].load
    BY PhasesKept DEF SlotsOK, PhaseOK
  <1> DEFINE s == batch[b].slot[i]
             t == batch'[b].slot[i]
  <1>2. /\ job[i] \in Row /\ batch[b] \in Batch /\ s \in Slot
        /\ issued \in 0..MaxInc /\ issued' \in 0..MaxInc /\ (issued' = issued \/ issued' = issued + 1)
    BY IssuedMoves DEF TypeOK, Batch
  <1>3. RowStep(i) /\ SlotStep(b, i)
    BY RowsMove, SlotsMove
  <1>4. CASE s.pc # "empty" /\ t.rc = s.rc /\ t.inc = s.inc /\ t.load = s.load
    <2>1. s.inc \in 1..issued
      BY <1>4 DEF SlotsOK
    <2>2. ASSUME s.inc = job'[i].inc
          PROVE  s.rc <= job'[i].rc /\ job'[i].state # "created" /\ s.load = job'[i].load
      <3>0. NoRow.inc = 0 /\ \A l \in 1..(issued + 1) : FreshRow(issued + 1, l).inc = issued + 1
        BY DEF NoRow, FreshRow
      <3>1. job'[i] # NoRow /\ ~\E l \in 1..(issued + 1) : job'[i] = FreshRow(issued + 1, l)
        BY <1>2, <2>1, <2>2, <3>0
      <3>2. /\ job'[i].inc = job[i].inc /\ job'[i].load = job[i].load
            /\ job'[i].rc = job[i].rc \/ (job[i].state = "retry" /\ job'[i].rc = job[i].rc + 1)
            /\ job'[i].state = "created" => job[i].state = "created"
        BY <1>2, <1>3, <3>1 DEF RowStep, Row, ClaimedRc
      <3>3. s.rc <= job[i].rc /\ job[i].state # "created" /\ s.load = job[i].load
        BY <1>4, <2>2, <3>2 DEF SlotsOK
      <3>4. s.rc \in Nat /\ job[i].rc \in Nat
        BY <1>2 DEF Slot, Row
      <3> QED BY <3>2, <3>3, <3>4
    <2> QED BY <1>2, <1>4, <2>1, <2>2
  <1>5. CASE /\ job[i].state \in Waiting
             /\ job'[i] = [job[i] EXCEPT !.state = "active", !.rc = ClaimedRc(job[i])]
             /\ t = [pc |-> "handler", rc |-> ClaimedRc(job[i]), inc |-> job[i].inc, load |-> job[i].load]
    <2>1. job[i].inc \in 1..issued /\ job[i].rc \in Nat
      BY <1>2, <1>5 DEF RowsOK, Waiting, Row
    <2>2. ClaimedRc(job[i]) \in Nat
      BY <2>1 DEF ClaimedRc
    <2> QED BY <1>2, <1>5, <2>1, <2>2 DEF Row
  <1>6. t # EmptySlot
    BY <1>1 DEF EmptySlot
  <1> QED BY <1>1, <1>3, <1>4, <1>5, <1>6 DEF SlotStep

\* Two batches never come to hold the same attempt: a fetch takes a number no batch holds.
LEMMA HoldersKept ==
    ASSUME IInv, [Next]_vars
    PROVE  OneHolderPerAttempt'
  <1> USE DEF IInv
  <1>1. SUFFICES ASSUME NEW i \in Ids, NEW a \in Batches, NEW b \in Batches, a # b,
                        batch'[a].slot[i].pc # "empty", batch'[b].slot[i].pc # "empty",
                        batch'[a].slot[i].inc = batch'[b].slot[i].inc,
                        batch'[a].slot[i].rc = batch'[b].slot[i].rc
                 PROVE  FALSE
    BY DEF OneHolderPerAttempt
  <1> DEFINE Same(x) == /\ batch[x].slot[i].pc # "empty"
                        /\ batch'[x].slot[i].rc = batch[x].slot[i].rc
                        /\ batch'[x].slot[i].inc = batch[x].slot[i].inc
             Taken(x) == /\ job[i].state \in Waiting
                         /\ batch'[x].slot[i].rc = ClaimedRc(job[i])
                         /\ batch'[x].slot[i].inc = job[i].inc
                         /\ \A y \in Batches : y # x => batch'[y] = batch[y]
  <1>2. ASSUME NEW x \in Batches, batch'[x].slot[i].pc # "empty"
        PROVE  Same(x) \/ Taken(x)
    <2>1. SlotStep(x, i) /\ batch'[x].slot[i] # EmptySlot
      BY <1>2, SlotsMove DEF EmptySlot
    <2> QED BY <1>2, <2>1 DEF SlotStep
  <1>3. ASSUME NEW x \in Batches, NEW y \in Batches, x # y, Taken(x), batch'[y].slot[i].pc # "empty",
               batch'[x].slot[i].inc = batch'[y].slot[i].inc
        PROVE  batch'[x].slot[i].rc # batch'[y].slot[i].rc
    <2>1. batch'[y] = batch[y]
      BY <1>3
    <2>a. batch[y].slot[i].pc # "empty" /\ batch[y].slot[i].inc = job[i].inc
      BY <1>3, <2>1
    <2>2. batch[y].slot[i].rc <= job[i].rc /\ job[i].state # "created"
      BY <2>a DEF SlotsOK
    <2>3. job[i].rc \in Nat /\ batch[y].slot[i].rc \in Nat
      BY DEF TypeOK, Row, Batch, Slot
    <2> QED BY <1>3, <2>1, <2>2, <2>3 DEF ClaimedRc, Waiting
  <1>4. CASE Same(a) /\ Same(b)
    BY <1>1, <1>4 DEF OneHolderPerAttempt
  <1>5. CASE Taken(a)
    <2> HIDE DEF Taken
    <2> QED BY <1>1, <1>3, <1>5
  <1>6. CASE Taken(b)
    <2> HIDE DEF Taken
    <2> QED BY <1>1, <1>3, <1>6
  <1> QED BY <1>1, <1>2, <1>4, <1>5, <1>6

\* Nobody else changes the row of an id while a transaction that holds it stays open.
LEMMA HeldRowsKept ==
    ASSUME IInv, [Next]_vars, redriver' = redriver, NEW r \in Redrivers,
           redriver[r].pc = "inserted" \/ redriver[r].freed
    PROVE  job'[redriver[r].copy.id].state = job[redriver[r].copy.id].state
  <1> USE DEF IInv
  <1> DEFINE i == redriver[r].copy.id
  <1>1. redriver[r].pc # "idle"
    BY DEF MovesOK, CopyHeld, CopiesApart, HeldRows, HoldersApart, HoldsRow
  <1>2. redriver[r].copy \in Copy
    BY <1>1 DEF MovesOK, CopyHeld, CopiesApart, HeldRows, HoldersApart, HoldsRow, TypeOK
  <1>3. i \in Ids
    BY <1>2 DEF Copy
  <1>4. HeldId(i) /\ job[i].state \in {"none", "failed"}
    BY DEF HeldId, MovesOK, CopyHeld, CopiesApart, HeldRows, HoldersApart, HoldsRow
  <1>5. RowStep(i)
    BY <1>3, RowsMove
  <1>6. ~\E q \in Redrivers : redriver[q].pc = "inserted" /\ redriver'[q].pc = "idle"
    OBVIOUS
  <1> QED BY <1>4, <1>5, <1>6 DEF RowStep, Live, Waiting

LEMMA MovesKept ==
    ASSUME IInv, [Next]_vars
    PROVE  MovesOK'
  <1> USE DEF IInv
  <1>0. /\ redriver \in [Redrivers -> Redrive] /\ dlq \subseteq Copy /\ job \in [Ids -> Row]
        /\ \A c \in Copy : c.id \in Ids /\ c.inc \in Incs
    BY DEF TypeOK, Copy
  <1>1. CASE redriver' = redriver
    <2>1. \A r \in Redrivers : redriver[r].pc # "idle" => redriver[r].copy \in dlq'
      BY <1>1, DlqMoves DEF MovesOK, CopyHeld, CopiesApart, HeldRows, HoldersApart, HoldsRow
    <2>2. \A r \in Redrivers : (redriver[r].pc = "inserted" \/ redriver[r].freed)
             => job'[redriver[r].copy.id].state = job[redriver[r].copy.id].state
      BY <1>1, HeldRowsKept
    <2> QED BY <1>1, <2>1, <2>2 DEF MovesOK, CopyHeld, CopiesApart, HeldRows, HoldersApart, HoldsRow
  <1>2. ASSUME NEW r \in Redrivers, NEW c \in dlq, RedriveLock(r, c)
        PROVE  MovesOK'
    <2>1. /\ redriver'[r] = [pc |-> "locked", copy |-> c, freed |-> FALSE]
          /\ \A q \in Redrivers : q # r => redriver'[q] = redriver[q]
          /\ \A q \in Redrivers : redriver[q].copy # c
          /\ job' = job /\ dlq' = dlq
      BY <1>0, <1>2 DEF RedriveLock
    <2> QED BY <2>1 DEF MovesOK, CopyHeld, CopiesApart, HeldRows, HoldersApart, HoldsRow
  <1>3. ASSUME NEW r \in Redrivers, RedriveFree(r)
        PROVE  MovesOK'
    <2> DEFINE i == redriver[r].copy.id
    <2>0. redriver[r] \in Redrive
      BY <1>0
    <2>1. /\ redriver'[r].pc = "freed" /\ redriver'[r].copy = redriver[r].copy
          /\ redriver'[r].freed = (job[i].state = "failed")
          /\ \A q \in Redrivers : q # r => redriver'[q] = redriver[q]
          /\ redriver[r].pc = "locked" /\ ~HeldId(i)
          /\ job' = job /\ dlq' = dlq
      BY <1>0, <1>3, <2>0 DEF RedriveFree, Redrive
    <2>2. \A q \in Redrivers : (redriver[q].pc = "inserted" \/ redriver[q].freed)
                                 => redriver[q].copy.id # i
      BY <2>1 DEF HeldId
    <2>a. \A q \in Redrivers : redriver'[q].pc = "idle" <=> redriver[q].pc = "idle"
      BY <2>1
    <2>b. \A q \in Redrivers : redriver'[q].copy = redriver[q].copy
      BY <2>1
    <2>c. CopyHeld'
      BY <2>1, <2>a, <2>b DEF MovesOK, CopyHeld
    <2>d. CopiesApart'
      BY <2>a, <2>b DEF MovesOK, CopiesApart
    <2>e. HeldRows'
      BY <2>1 DEF MovesOK, HeldRows
    <2>3. CopyHeld' /\ CopiesApart' /\ HeldRows'
      BY <2>c, <2>d, <2>e
    <2>4. HoldersApart'
      BY <2>1, <2>2 DEF MovesOK, HoldersApart, HoldsRow
    <2> QED BY <2>3, <2>4 DEF MovesOK
  <1>4. ASSUME NEW r \in Redrivers, RedriveSend(r)
        PROVE  MovesOK'
    <2> DEFINE i == redriver[r].copy.id
    <2>0. redriver[r] \in Redrive
      BY <1>0
    <2>1. /\ redriver'[r].pc = "inserted" /\ redriver'[r].copy = redriver[r].copy
          /\ redriver'[r].freed = redriver[r].freed
          /\ \A q \in Redrivers : q # r => redriver'[q] = redriver[q]
          /\ redriver[r].pc = "freed"
          /\ redriver[r].freed \/ (job[i].state = "none" /\ ~HeldId(i))
          /\ job' = job /\ dlq' = dlq
      BY <1>0, <1>4, <2>0 DEF RedriveSend, Redrive
    <2>2. \A q \in Redrivers : (q # r /\ (redriver[q].pc = "inserted" \/ redriver[q].freed))
                                 => redriver[q].copy.id # i
      BY <2>1 DEF HeldId, MovesOK, CopyHeld, CopiesApart, HeldRows, HoldersApart, HoldsRow
    <2> QED BY <2>1, <2>2 DEF MovesOK, CopyHeld, CopiesApart, HeldRows, HoldersApart, HoldsRow
  <1>5. ASSUME NEW r \in Redrivers, RedriveRollback(r)
        PROVE  MovesOK'
    <2>1. /\ redriver'[r] = IdleRedrive /\ \A q \in Redrivers : q # r => redriver'[q] = redriver[q]
          /\ job' = job /\ dlq' = dlq
      BY <1>0, <1>5 DEF RedriveRollback
    <2>2. \A q \in Redrivers : redriver[q].pc # "idle" => redriver[q].copy # NoCopy
      BY <1>0 DEF MovesOK, CopyHeld, CopiesApart, HeldRows, HoldersApart, HoldsRow, NoCopy, Incs
    <2>a. redriver'[r].pc = "idle" /\ redriver'[r].freed = FALSE
      BY <2>1 DEF IdleRedrive
    <2>b. CopyHeld'
      BY <2>1, <2>a DEF MovesOK, CopyHeld
    <2>c. HeldRows'
      BY <2>1, <2>a DEF MovesOK, HeldRows
    <2>3. CopyHeld' /\ HeldRows'
      BY <2>b, <2>c
    <2>4. CopiesApart'
      BY <2>1, <2>2 DEF MovesOK, CopiesApart, IdleRedrive
    <2>5. HoldersApart'
      BY <2>1 DEF MovesOK, HoldersApart, HoldsRow, IdleRedrive
    <2> QED BY <2>3, <2>4, <2>5 DEF MovesOK
  <1>6. ASSUME NEW r \in Redrivers, RedriveCommit(r)
        PROVE  MovesOK'
    <2> DEFINE c == redriver[r].copy
    <2>1. /\ redriver'[r] = IdleRedrive /\ \A q \in Redrivers : q # r => redriver'[q] = redriver[q]
          /\ redriver[r].pc = "inserted"
          /\ job' = [job EXCEPT ![c.id] = FreshRow(issued + 1, c.load)] /\ dlq' = dlq \ {c}
      BY <1>0, <1>6 DEF RedriveCommit
    <2>2. \A q \in Redrivers : redriver[q].pc # "idle" => redriver[q].copy # NoCopy
      BY <1>0 DEF MovesOK, CopyHeld, CopiesApart, HeldRows, HoldersApart, HoldsRow, NoCopy, Incs
    <2>3. \A q \in Redrivers : (q # r /\ redriver[q].pc # "idle") =>
                                 redriver[q].copy \in dlq' /\ redriver[q].copy.id \in Ids
      BY <1>0, <2>1 DEF MovesOK, CopyHeld, CopiesApart, HeldRows, HoldersApart, HoldsRow
    <2>4. \A q \in Redrivers : (q # r /\ (redriver[q].pc = "inserted" \/ redriver[q].freed)) =>
                                 job'[redriver[q].copy.id] = job[redriver[q].copy.id]
      <3>1. SUFFICES ASSUME NEW q \in Redrivers, q # r, redriver[q].pc = "inserted" \/ redriver[q].freed
                     PROVE  job'[redriver[q].copy.id] = job[redriver[q].copy.id]
        OBVIOUS
      <3>2. redriver[q].pc # "idle" /\ redriver[q].copy.id # c.id
        BY <2>1, <3>1 DEF MovesOK, CopyHeld, CopiesApart, HeldRows, HoldersApart, HoldsRow
      <3> QED BY <1>0, <2>1, <2>3, <3>1, <3>2
    <2>a. redriver'[r].pc = "idle"
      BY <2>1 DEF IdleRedrive
    <2>5. CopyHeld'
      BY <2>1, <2>3, <2>a DEF MovesOK, CopyHeld
    <2>6. CopiesApart'
      BY <2>1, <2>2 DEF MovesOK, CopiesApart, IdleRedrive
    <2>7. HeldRows'
      BY <2>1, <2>4 DEF MovesOK, HeldRows, IdleRedrive
    <2>8. HoldersApart'
      BY <2>1 DEF MovesOK, HoldersApart, HoldsRow, IdleRedrive
    <2> QED BY <2>5, <2>6, <2>7, <2>8 DEF MovesOK
  <1>7. CASE UNCHANGED vars \/ (\E i \in Ids : Send(i) \/ Expire(i)) \/ Drops
             \/ (\E b \in Batches : Worker(b))
    <2>1. redriver' = redriver
      BY <1>7 DEF vars, Send, Expire, Drops, SweepPending, Maintain, DropCopy, Worker, Fetch,
         HandlerReturns, EarlySettle, EarlySettleError, BatchSettle, BatchReturns, CutOff, Crash
    <2> QED BY <2>1, <1>1
  <1> QED BY <1>2, <1>3, <1>4, <1>5, <1>6, <1>7 DEF Next, Operator

-----------------------------------------------------------------------------
LEMMA InitIInv ==
    ASSUME Init PROVE IInv
  <1>1. TypeOK
    <2>1. NoRow \in Row /\ EmptySlot \in Slot /\ IdleRedrive \in Redrive
      BY DEF NoRow, Row, EmptySlot, Slot, IdleRedrive, Redrive
    <2>2. IdleBatch \in Batch
      BY <2>1 DEF IdleBatch, Batch
    <2> QED BY <2>1, <2>2 DEF Init, TypeOK
  <1>2. RowsOK /\ CopiesOK
    BY DEF Init, RowsOK, CopiesOK, NoRow
  <1>3. MovesOK
    BY DEF Init, MovesOK, CopyHeld, CopiesApart, HeldRows, HoldersApart, HoldsRow, IdleRedrive
  <1>4. SlotsOK /\ OneHolderPerAttempt
    BY DEF Init, SlotsOK, OneHolderPerAttempt, IdleBatch, EmptySlot
  <1>5. NoDuplicate
    BY DEF Init, NoDuplicate, NoRow, Live, Waiting
  <1> QED BY <1>1, <1>2, <1>3, <1>4, <1>5 DEF IInv

\* IInv is an inductive invariant of the queue.
THEOREM Inductive == Spec => []IInv
  <1>1. IInv /\ [Next]_vars => IInv'
    <2> SUFFICES ASSUME IInv, [Next]_vars PROVE IInv'
      OBVIOUS
    <2>1. TypeOK'
      BY RowsMove, SlotsMove, DlqMoves, RedriversTyped, IssuedMoves DEF TypeOK, DlqStep, IInv
    <2> QED BY <2>1, RowsKept, CopiesKept, MovesKept, SlotsKept, HoldersKept, DuplicateFree DEF IInv
  <1> QED BY <1>1, InitIInv, PTL DEF Spec

\* The types of the rows, dead letters, batches and redrive transactions hold throughout.
THEOREM TypeCorrect == Spec => []TypeOK
  <1>1. IInv => TypeOK
    BY DEF IInv
  <1> QED BY <1>1, Inductive, PTL

\* runOne's fence tells the attempts of one job apart: no two batches hold the same one.
THEOREM AttemptsDistinct == Spec => []OneHolderPerAttempt
  <1>1. IInv => OneHolderPerAttempt
    BY DEF IInv
  <1> QED BY <1>1, Inductive, PTL

\* redrive, retries and dead-lettering never leave a payload in two places.
THEOREM NeverDuplicated == Spec => []NoDuplicate
  <1>1. IInv => NoDuplicate
    BY DEF IInv
  <1> QED BY <1>1, Inductive, PTL

\* A settled job is never queued again, and only a running attempt is ever dead-lettered.
THEOREM FinishedForGood == Spec => FinishedStaysFinished
  <1>1. ASSUME IInv, [Next]_vars
        PROVE  /\ \A i \in Ids : (job[i].state \in {"completed", "failed"} /\ job'[i].inc = job[i].inc)
                                   => job'[i].state = job[i].state
               /\ \A c \in dlq' \ dlq : job[c.id].state = "active" /\ job[c.id].inc = c.inc
    <2>1. ASSUME NEW i \in Ids, job[i].state \in {"completed", "failed"}, job'[i].inc = job[i].inc
          PROVE  job'[i].state = job[i].state
      <3>1. job[i].inc \in 1..issued /\ issued \in 0..MaxInc
        BY <1>1, <2>1 DEF IInv, RowsOK, TypeOK
      <3>2. NoRow.inc = 0 /\ \A l \in 1..(issued + 1) : FreshRow(issued + 1, l).inc = issued + 1
        BY DEF NoRow, FreshRow
      <3>3. job'[i] # NoRow /\ ~\E l \in 1..(issued + 1) : job'[i] = FreshRow(issued + 1, l)
        BY <2>1, <3>1, <3>2
      <3>4. RowStep(i)
        BY <1>1, RowsMove
      <3> QED BY <2>1, <3>3, <3>4 DEF RowStep, Waiting
    <2>2. \A c \in dlq' \ dlq : job[c.id].state = "active" /\ job[c.id].inc = c.inc
      BY <1>1, DlqMoves DEF DlqStep
    <2> QED BY <2>1, <2>2
  <1> QED BY <1>1, Inductive, PTL DEF Spec, FinishedStaysFinished

\* What fail() fails stays kept: its rows retry or leave a copy.
LEMMA FailRowsKeep ==
    ASSUME TypeOK, NEW S \in SUBSET Ids, NEW permanent \in SUBSET Ids, FailRows(S, permanent)
    PROVE  Kept \subseteq Kept'
  <1>1. SUFFICES ASSUME NEW l \in Kept PROVE l \in Kept'
    OBVIOUS
  <1>2. CASE \E c \in dlq : c.load = l
    BY <1>2 DEF Kept, FailRows
  <1>3. CASE \E i \in Ids : job[i].state \in Live /\ job[i].load = l
    <2>1. PICK i \in Ids : job[i].state \in Live /\ job[i].load = l
      BY <1>3
    <2>2. job[i] \in Row
      BY DEF TypeOK
    <2> DEFINE dead == i \in S /\ (i \in permanent \/ job[i].rc = RetryLimit)
    <2>3. CASE dead
      <3>1. [inc |-> job[i].inc, id |-> i, load |-> job[i].load] \in dlq'
        BY <2>3 DEF FailRows
      <3> QED BY <2>1, <3>1 DEF Kept
    <2>4. CASE ~dead
      <3>1. job'[i] = job[i] \/ job'[i] = [job[i] EXCEPT !.state = "retry"]
        BY <2>4 DEF FailRows
      <3>2. job'[i].state \in Live /\ job'[i].load = l
        BY <2>1, <2>2, <3>1 DEF Live, Waiting, Row
      <3> QED BY <3>2 DEF Kept
    <2> QED BY <2>3, <2>4
  <1> QED BY <1>1, <1>2, <1>3 DEF Kept

\* What a row holds is kept as long as the row lives with the same payload.
LEMMA RowKeeps ==
    ASSUME dlq \subseteq dlq', NEW l \in Kept \ Kept'
    PROVE  \E i \in Ids : /\ job[i].state \in Live /\ job[i].load = l
                          /\ ~(job'[i].state \in Live /\ job'[i].load = l)
  BY DEF Kept

\* A row that a batch settles held the payload the batch's handler succeeded on, or was overtaken.
LEMMA SettledWasHandled ==
    ASSUME IInv, NEW b \in Batches, NEW i \in Ids, NEW l \in Kept \ Kept',
           batch[b].slot[i].pc \in {"succeeded", "unsettled", "completed"},
           job' = job \/ CompleteRow(i) \/ DeleteRow(i), dlq' = dlq
    PROVE  Succeeded(l) \/ (job[i].load = l /\ Overtaken(i))
  <1>1. PICK k \in Ids : /\ job[k].state \in Live /\ job[k].load = l
                         /\ ~(job'[k].state \in Live /\ job'[k].load = l)
    BY RowKeeps
  <1>2. k = i
    BY <1>1 DEF CompleteRow, DeleteRow, IInv, TypeOK
  <1>3. CASE batch[b].slot[i].inc = job[i].inc
    <2>1. batch[b].slot[i].load = l
      BY <1>1, <1>2, <1>3 DEF IInv, SlotsOK
    <2> QED BY <2>1 DEF Succeeded
  <1>4. CASE batch[b].slot[i].inc # job[i].inc
    BY <1>1, <1>2, <1>4 DEF Overtaken
  <1> QED BY <1>3, <1>4

\* A redrive puts the payload of the copy it deletes back into a row that held none.
LEMMA CommitKeeps ==
    ASSUME IInv, NEW r \in Redrivers, RedriveCommit(r)
    PROVE  Kept \subseteq Kept'
  <1> DEFINE c == redriver[r].copy
  <1> DEFINE f == FreshRow(issued + 1, c.load)
  <1>1. /\ redriver[r].pc = "inserted" /\ dlq' = dlq \ {c}
        /\ job' = [job EXCEPT ![c.id] = f]
    BY DEF RedriveCommit
  <1>2. c \in dlq /\ c.id \in Ids
    BY <1>1 DEF IInv, MovesOK, CopyHeld, TypeOK, Copy
  <1>3. job[c.id].state \in {"none", "failed"}
    BY <1>1 DEF IInv, MovesOK, HeldRows
  <1>4. f.state \in Live /\ f.load = c.load
    BY DEF FreshRow, Live, Waiting
  <1>5. job'[c.id] = f /\ \A k \in Ids : k # c.id => job'[k] = job[k]
    BY <1>1, <1>2 DEF IInv, TypeOK
  <1> HIDE DEF c, f
  <1>6. ASSUME NEW k \in Ids, job[k].state \in Live
        PROVE  job[k].load \in Kept'
    <2>1. k # c.id
      BY <1>3, <1>6 DEF Live, Waiting
    <2> QED BY <1>5, <1>6, <2>1 DEF Kept
  <1>7. ASSUME NEW d \in dlq
        PROVE  d.load \in Kept'
    <2>1. CASE d = c
      BY <1>2, <1>4, <1>5, <2>1 DEF Kept
    <2>2. CASE d # c
      BY <1>1, <2>2 DEF Kept
    <2> QED BY <2>1, <2>2
  <1> QED BY <1>6, <1>7 DEF Kept

\* A payload leaves the rows and the dead letters only after a handler or by a deadline.
LEMMA PayloadStep ==
    ASSUME IInv, [Next]_vars, ~Drops, NEW l \in Kept \ Kept'
    PROVE  Succeeded(l) \/ \E i \in Ids : job[i].load = l /\ Overtaken(i)
  <1>0. job \in [Ids -> Row] /\ TypeOK
    BY DEF IInv, TypeOK
  <1>1. ASSUME job' = job, dlq' = dlq PROVE FALSE
    BY <1>1 DEF Kept
  <1>2. ASSUME NEW S \in SUBSET Ids, NEW P \in SUBSET Ids, FailRows(S, P) PROVE FALSE
    BY <1>0, <1>2, FailRowsKeep
  <1>3. ASSUME NEW i \in Ids, Send(i) PROVE FALSE
    <2>1. dlq' = dlq /\ \A k \in Ids : k # i => job'[k] = job[k]
      BY <1>0, <1>3 DEF Send
    <2>2. job[i].state \notin Live
      BY <1>3 DEF Send, Live, Waiting
    <2> QED BY <2>1, <2>2, RowKeeps
  <1>4. ASSUME NEW i \in Ids, Expire(i) PROVE FALSE
    <2>1. FailRows({i}, {})
      BY <1>4 DEF Expire
    <2> QED BY <1>2, <2>1
  <1>5. ASSUME NEW b \in Batches, Worker(b)
        PROVE  Succeeded(l) \/ \E i \in Ids : job[i].load = l /\ Overtaken(i)
    <2>1. ASSUME NEW S \in SUBSET Ids, Fetch(b, S) PROVE FALSE
      <3>1. dlq' = dlq
        BY <2>1 DEF Fetch
      <3>2. ASSUME NEW i \in Ids, job[i].state \in Live
            PROVE  job'[i].state \in Live /\ job'[i].load = job[i].load
        <4>1. job'[i] = job[i] \/ job'[i] = [job[i] EXCEPT !.state = "active", !.rc = ClaimedRc(job[i])]
          BY <2>1 DEF Fetch
        <4> QED BY <1>0, <3>2, <4>1 DEF Row, Live
      <3> QED BY <3>1, <3>2, RowKeeps
    <2>2. ASSUME NEW i \in Ids, EarlySettle(b, i) \/ EarlySettleError(b, i)
          PROVE  Succeeded(l) \/ \E k \in Ids : job[k].load = l /\ Overtaken(k)
      <3>1. /\ batch[b].slot[i].pc = "succeeded" /\ dlq' = dlq
            /\ job' = job \/ CompleteRow(i) \/ DeleteRow(i)
        BY <2>2 DEF EarlySettle, EarlySettleError, SettleSuccess
      <3> QED BY <3>1, SettledWasHandled
    <2>3. ASSUME NEW i \in Ids, BatchSettle(b, i)
          PROVE  Succeeded(l) \/ \E k \in Ids : job[k].load = l /\ Overtaken(k)
      <3> DEFINE F == IF Fenced(job[i], batch[b].slot[i]) THEN {i} ELSE {}
      <3>1. F \in SUBSET Ids /\ {} \in SUBSET Ids /\ {i} \in SUBSET Ids
        OBVIOUS
      <3>2. batch[b].slot[i].pc \in {"unsettled", "completed", "failed", "deadletter"}
        <4>1. batch[b].slot[i].pc \in {"empty", "handler", "succeeded", "unsettled", "completed", "failed", "deadletter"}
          BY <1>0 DEF TypeOK, Batch, Slot
        <4> QED BY <2>3, <4>1 DEF BatchSettle, IInv, SlotsOK
      <3>3. \/ FailRows(F, {}) \/ FailRows(F, {i})
            \/ /\ batch[b].slot[i].pc \in {"unsettled", "completed"} /\ dlq' = dlq
               /\ job' = job \/ CompleteRow(i)
        BY <2>3, <3>2 DEF BatchSettle
      <3> HIDE DEF F
      <3> QED BY <1>2, <3>1, <3>3, SettledWasHandled
    <2>4. ASSUME CutOff(b) PROVE FALSE
      <3> DEFINE F == {i \in Ids : batch[b].slot[i].pc # "empty" /\ Fenced(job[i], batch[b].slot[i])}
      <3>1. F \in SUBSET Ids /\ {} \in SUBSET Ids
        OBVIOUS
      <3>2. FailRows(F, {})
        BY <2>4 DEF CutOff
      <3> HIDE DEF F
      <3> QED BY <1>2, <3>1, <3>2
    <2>5. ASSUME (\E i \in Ids, o \in Outcomes : HandlerReturns(b, i, o)) \/ BatchReturns(b) \/ Crash(b)
          PROVE  FALSE
      BY <1>1, <2>5 DEF HandlerReturns, BatchReturns, Crash
    <2> QED BY <1>5, <2>1, <2>2, <2>3, <2>4, <2>5 DEF Worker
  <1>6. ASSUME NEW r \in Redrivers, Operator(r) PROVE FALSE
    BY <1>1, <1>6, CommitKeeps DEF Operator, RedriveLock, RedriveFree, RedriveSend, RedriveRollback
  <1>7. CASE UNCHANGED vars
    BY <1>1, <1>7 DEF vars
  <1> QED BY <1>3, <1>4, <1>5, <1>6, <1>7 DEF Next

\* "Never loses a payload": a job disappears only after its handler succeeded or its deadline passed.
THEOREM PayloadsKept == Spec => NoPayloadLost
  <1> DEFINE Kind == \A l \in Kept \ Kept' :
                        \/ Succeeded(l)
                        \/ Drops
                        \/ \E i \in Ids : job[i].load = l /\ Overtaken(i)
  <1>1. IInv /\ [Next]_vars => [Kind]_vars
    BY PayloadStep
  <1> QED BY <1>1, Inductive, PTL DEF Spec, NoPayloadLost

\* The queue's promises about attempts and payloads, together.
THEOREM JobsAreSafe == Spec => []JobsSafe
  <1>1. IInv => JobsSafe
    BY DEF IInv, JobsSafe
  <1> QED BY <1>1, Inductive, PTL

\* No step loses a payload or revives a finished job.
THEOREM JobStepsHold == Spec => JobSteps
  BY PayloadsKept, FinishedForGood DEF JobSteps
=============================================================================
