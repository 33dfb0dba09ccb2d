---------------------------- MODULE StaffSession ----------------------------
(***************************************************************************)
(* The 12-hour cap of staff sessions (staff-session.ts) for one user of an *)
(* instance with both presets: the create and update hooks, the guard      *)
(* where a session is read, the memo of who is staff in each process, and  *)
(* the hook that ends the long sessions of a user who becomes staff.       *)
(* Better Auth creates, reads, refreshes and deletes sessions (external).  *)
(***************************************************************************)
EXTENDS Integers, FiniteSets

CONSTANTS
    Sessions, Pods, Cap,
    Long,       \* sessionConfig.expiresIn
    UpdateAge,  \* sessionConfig.updateAge
    MemoTime,   \* CLASSIFICATION_TTL_MS
    ReadTime,   \* bound: a read of the accounts, and of a session, take at most this
    LastHour    \* bound: the clock stops here

ASSUME StaffAssumption ==
    {Cap, Long, UpdateAge, MemoTime, ReadTime, LastHour} \subseteq Nat /\ Cap < Long /\ UpdateAge <= Long

VARIABLES
    hour,
    staffAt,  \* when the user became staff, or -1
    sess,     \* [Sessions -> [pc, created, expires]]
    knows,    \* [Pods -> [staff, until]]
    rd,       \* [Pods -> the read of a session under way]
    hook,     \* the becomes-staff hook: where it is, and the rows it read
    served,   \* [Sessions -> hour of the last answer, or -1]
    tamed     \* history: sessions that a refresh of a staff user has capped

staffVars == <<hour, staffAt, sess, knows, rd, hook, served, tamed>>

NoRead == [pc |-> "idle", s |-> "none", staff |-> FALSE, since |-> -1, act |-> "none"]
Staff == staffAt # -1

StaffInit ==
    /\ hour = 0 /\ staffAt = -1 /\ sess = [s \in Sessions |-> [pc |-> "new", created |-> -1, expires |-> -1]]
    /\ knows = [p \in Pods |-> [staff |-> FALSE, until |-> 0]] /\ rd = [p \in Pods |-> NoRead]
    /\ hook = [pc |-> "idle", doomed |-> {}] /\ served = [s \in Sessions |-> -1]
    /\ tamed = {}

Earliest(a, b) == IF a < b THEN a ELSE b
Busy(since) == since # -1 /\ hour - since >= ReadTime
HourPasses ==
    /\ hour < LastHour /\ \A p \in Pods : ~Busy(rd[p].since)
    /\ \A s \in Sessions : sess[s].pc = "judged" => hour - sess[s].created < ReadTime
    /\ hour' = hour + 1 /\ UNCHANGED <<staffAt, sess, knows, rd, hook, served, tamed>>

\* create.before clamps the session of a staff user; the row is written after it.
Clamp(created, expires) == IF Staff THEN Earliest(expires, created + Cap) ELSE expires
CreateBefore(s) ==
    /\ sess[s].pc = "new"
    /\ sess' = [sess EXCEPT ![s] = [pc |-> "judged", created |-> hour, expires |-> Clamp(hour, hour + Long)]]
    /\ UNCHANGED <<hour, staffAt, knows, rd, hook, served, tamed>>
Inserted(s) ==
    /\ sess[s].pc = "judged" /\ sess' = [sess EXCEPT ![s].pc = "live"]
    /\ UNCHANGED <<hour, staffAt, knows, rd, hook, served, tamed>>

\* The user becomes staff: a Microsoft account is linked or the address moves to a staff
\* domain.  The hook remembers it in its process and ends the sessions that are not capped.
BecomesStaff(p) ==
    /\ ~Staff /\ staffAt' = hour /\ hook' = [hook EXCEPT !.pc = "find"]
    /\ knows' = [knows EXCEPT ![p] = [staff |-> TRUE, until |-> hour + MemoTime]]
    /\ UNCHANGED <<hour, sess, rd, served, tamed>>
\* Mutant: the lifetime that is left is compared with the cap.
MutUncapped(s) == sess[s].pc = "live" /\ sess[s].expires > hour + Cap
Uncapped(s) == sess[s].pc = "live" /\ sess[s].expires > sess[s].created + Cap
RevokeFinds ==
    /\ hook.pc = "find" /\ hook' = [pc |-> "delete", doomed |-> {s \in Sessions : Uncapped(s)}]
    /\ UNCHANGED <<hour, staffAt, sess, knows, rd, served, tamed>>
RevokeDeletes ==
    /\ hook.pc = "delete" /\ hook' = [hook EXCEPT !.pc = "done"]
    /\ sess' = [s \in Sessions |-> IF s \in hook.doomed THEN [sess[s] EXCEPT !.pc = "gone"] ELSE sess[s]]
    /\ UNCHANGED <<hour, staffAt, knows, rd, served, tamed>>

\* findSession under the guard.  Only a session that must die, or that is capped and due
\* for a refresh, needs to know whether the user is staff; the memo may answer.
MustDie(s) == sess[s].expires > sess[s].created + Cap /\ sess[s].created + Cap < hour
Due(s) == sess[s].expires - (Long - UpdateAge) <= hour
Skippable(s) == sess[s].expires <= sess[s].created + Cap /\ Due(s)
Alive(s) == sess[s].pc = "live" /\ sess[s].expires > hour

\* Better Auth's answer: an expired session is deleted, one that is due is refreshed.
ReadFound(p, s, act) == rd' = [rd EXCEPT ![p] = [pc |-> act, s |-> s, staff |-> FALSE, since |-> hour,
    act |-> act]]
FindSession(p, s) ==
    /\ rd[p].pc = "idle" /\ Alive(s)
    /\ IF ~MustDie(s) /\ ~Skippable(s) THEN ReadFound(p, s, IF Due(s) THEN "refresh" ELSE "answer")
       ELSE IF knows[p].until > hour
            THEN ReadFound(p, s, IF ~knows[p].staff THEN IF Due(s) THEN "refresh" ELSE "answer"
                                 ELSE IF MustDie(s) THEN "expire" ELSE "answer")
            ELSE rd' = [rd EXCEPT ![p] = [pc |-> "classify", s |-> s, staff |-> Staff, since |-> hour,
                          act |-> IF MustDie(s) THEN "expire" ELSE "answer"]]
    /\ UNCHANGED <<hour, staffAt, sess, knows, hook, served, tamed>>
\* classify: the accounts that were read, remembered from now on.
Remember(p, staff) == knows' = [knows EXCEPT ![p] = [staff |-> staff, until |-> hour + MemoTime]]
Classified(p) ==
    /\ rd[p].pc = "classify" /\ Remember(p, rd[p].staff)
    /\ rd' = [rd EXCEPT ![p].pc = IF rd[p].staff THEN rd[p].act ELSE IF Due(rd[p].s) THEN "refresh"
         ELSE "answer"]
    /\ UNCHANGED <<hour, staffAt, sess, hook, served, tamed>>

Served(p) == served' = [served EXCEPT ![rd[p].s] = hour]
Answer(p) ==
    /\ rd[p].pc = "answer" /\ Served(p) /\ rd' = [rd EXCEPT ![p] = NoRead]
    /\ UNCHANGED <<hour, staffAt, sess, knows, hook, tamed>>
Expire(p) ==
    /\ rd[p].pc = "expire" /\ sess' = [sess EXCEPT ![rd[p].s].pc = "gone"] /\ rd' = [rd EXCEPT ![p] = NoRead]
    /\ UNCHANGED <<hour, staffAt, knows, hook, served, tamed>>
\* update.before asks whether the user is staff and clamps what the refresh writes; the
\* answer is the row it wrote.
UpdateBefore(p) ==
    /\ rd[p].pc = "refresh" /\ rd' = [rd EXCEPT ![p].pc = "write", ![p].staff = Staff]
    /\ UNCHANGED <<hour, staffAt, sess, knows, hook, served, tamed>>
Refresh(p) ==
    /\ rd[p].pc = "write" /\ Served(p) /\ rd' = [rd EXCEPT ![p] = NoRead]
    /\ sess' = [sess EXCEPT ![rd[p].s].expires = IF sess[rd[p].s].pc # "live" THEN @
                    ELSE IF rd[p].staff THEN Earliest(hour + Long, sess[rd[p].s].created + Cap)
                        ELSE hour + Long]
    /\ tamed' = (IF rd[p].staff THEN tamed \cup {rd[p].s} ELSE tamed)
    /\ UNCHANGED <<hour, staffAt, knows, hook>>

StaffNext ==
    \/ HourPasses \/ RevokeFinds \/ RevokeDeletes
    \/ \E s \in Sessions : CreateBefore(s) \/ Inserted(s)
    \/ \E p \in Pods : \/ BecomesStaff(p) \/ Classified(p) \/ Answer(p) \/ Expire(p) \/ UpdateBefore(p) \/ Refresh(p)
                       \/ \E s \in Sessions : FindSession(p, s)

StaffSpec == StaffInit /\ [][StaffNext]_staffVars

\* Types; a session never expires before it was created, and is served only once created.
StaffTypeOK ==
    /\ hour \in 0..LastHour /\ staffAt \in -1..LastHour /\ hook.pc \in {"idle", "find", "delete", "done"}
    /\ \A s \in Sessions : /\ sess[s].pc \in {"new", "judged", "live", "gone"} /\ sess[s].created <= sess[s].expires
                           /\ served[s] # -1 => served[s] >= sess[s].created

\* No session of a staff user is served past its creation and the cap, whatever expiry it
\* was written with and however it became a staff user's: only the reads under way, and a
\* process that has just remembered the user as no staff, may still answer.
CapHolds ==
    \A s \in Sessions : served[s] # -1 /\ Staff /\ served[s] > staffAt + MemoTime + 2 * ReadTime =>
        served[s] <= sess[s].created + Cap + ReadTime

\* Once the hook has run no session that was there when the user became staff still has
\* a long lifetime: a refresh that judged the user before it cannot bring one back.  The
\* one way around the hook takes two refreshes: one caps the session, so that the hook
\* passes it over, and one that had judged the user before writes the long lifetime last.
LongSessionsEnd ==
    hook.pc = "done" => \A s \in Sessions :
        sess[s].pc = "live" /\ sess[s].expires > sess[s].created + Cap =>
            \/ sess[s].created + ReadTime >= staffAt
            \/ s \in tamed /\ sess[s].expires <= staffAt + ReadTime + Long

\* A staff session ends by its cap on every path, also one that began before its user was staff.
StaffSafe == StaffTypeOK /\ CapHolds /\ LongSessionsEnd
=============================================================================
