---------------------------- MODULE UserSessions ----------------------------
(***************************************************************************)
(* The sessions of one user: rows in PostgreSQL, copies and the list of    *)
(* the user's tokens in Valkey, where a session is looked for first.       *)
(* Modelled are the service-side operations of create-identity.ts          *)
(* (revokeAllSessions, revokeUserSessions, setUserBanned,                  *)
(* unlinkMicrosoftAccount), one at a time in the process Home, and the     *)
(* guard of banned-guard.ts in every process.  Better Auth writes and      *)
(* reads the sessions (external).  The storage swallows what fails while   *)
(* Valkey is down and only counts it.                                      *)
(***************************************************************************)
EXTENDS Integers, FiniteSets

CONSTANTS
    Tokens, Procs, Home, NoToken,
    Ttl,        \* NOT_BANNED_TTL_MS
    Latency,    \* bound: how long a read of the user's row takes
    LastNow,    \* bound: the clock stops here
    MaxOutages, \* bound: outages of Valkey
    MaxOps      \* bound: operations

ASSUME SessionsAssumption == Home \in Procs /\ NoToken \notin Tokens
    /\ {Ttl, Latency, LastNow, MaxOutages, MaxOps} \subseteq Nat

VARIABLES
    rows, cached, listed, \* sessions in PostgreSQL, in Valkey, in the user's list
    fresh, signing,       \* tokens not used yet, and of sign-ins past Better Auth's checks
    stranded,             \* history: tokens whose row went while Valkey was down
    delisted,             \* history: tokens whose list was deleted and whose copy was not
    up, outages,          \* Valkey can be written
    banned, bannedAt, linked,
    clock,
    believed,             \* [Procs -> until when the user is believed not banned]
    look,                 \* [Procs -> the read of the user's row under way]
    op                    \* the operation under way

store == <<rows, cached, listed, fresh, signing, stranded, delisted>>
user == <<banned, bannedAt, linked>>
guard == <<believed, look>>
sessionVars == <<rows, cached, listed, fresh, signing, stranded, delisted, up, outages, banned, bannedAt,
    linked, clock, believed, look, op>>

NoLook == [token |-> NoToken, saw |-> FALSE, since |-> -1]
NoOp == [pc |-> "idle", kind |-> "none", dead |-> {}, batch |-> {}, previous |-> NoToken, last |-> TRUE,
    nr |-> 0]

SessionsInit ==
    /\ rows = {} /\ cached = {} /\ listed = {} /\ fresh = Tokens /\ signing = {} /\ stranded = {}
    /\ delisted = {}
    /\ up = TRUE /\ outages = 0 /\ banned = FALSE /\ bannedAt = 0 /\ linked = TRUE /\ clock = 0
    /\ believed = [p \in Procs |-> 0] /\ look = [p \in Procs |-> NoLook] /\ op = NoOp

-----------------------------------------------------------------------------
\* Better Auth: a sign-in checks the ban and the account, and writes the session later.
SignInChecked(t) ==
    /\ t \in fresh /\ ~banned /\ linked /\ fresh' = fresh \ {t} /\ signing' = signing \cup {t}
    /\ UNCHANGED <<rows, cached, listed, stranded, delisted, up, outages, user, clock, guard, op>>
SessionWritten(t) ==
    /\ t \in signing /\ signing' = signing \ {t} /\ rows' = rows \cup {t}
    /\ cached' = (IF up THEN cached \cup {t} ELSE cached) /\ listed' = (IF up THEN listed \cup {t} ELSE listed)
    /\ UNCHANGED <<fresh, stranded, delisted, up, outages, user, clock, guard, op>>
\* A session ends by itself: signed out, or read as expired.
Ended(t) ==
    /\ rows' = rows \ {t} /\ cached' = (IF up THEN cached \ {t} ELSE cached)
    /\ listed' = (IF up THEN listed \ {t} ELSE listed)
    /\ stranded' = (IF up THEN stranded ELSE stranded \cup {t})
SignOut(t) ==
    /\ t \in rows /\ Ended(t) /\ UNCHANGED <<fresh, signing, delisted, up, outages, user, clock, guard, op>>
ValkeyFails ==
    /\ up /\ outages < MaxOutages /\ up' = FALSE /\ outages' = outages + 1
         /\ UNCHANGED <<store, user, clock, guard, op>>
ValkeyRecovers == ~up /\ up' = TRUE /\ UNCHANGED <<store, outages, user, clock, guard, op>>
ClockTicks ==
    /\ clock < LastNow /\ \A p \in Procs : look[p].since # -1 => clock - look[p].since < Latency
    /\ clock' = clock + 1 /\ UNCHANGED <<store, up, outages, user, guard, op>>

-----------------------------------------------------------------------------
\* findSession under the guard, and isBanned (token NoToken): a belief that has not run
\* out answers at once, else the user's row is read.
Believes(p) == believed[p] > clock
Readable == (IF up THEN cached ELSE {}) \cup rows
FromMemo(p, t) ==
    /\ t \in Readable \cup {NoToken} /\ Believes(p) /\ UNCHANGED sessionVars
Lookup(p, t) ==
    /\ t \in Readable \cup {NoToken} /\ ~Believes(p) /\ look[p] = NoLook
    /\ look' = [look EXCEPT ![p] = [token |-> t, saw |-> banned, since |-> clock]]
    /\ UNCHANGED <<store, up, outages, user, clock, believed, op>>
LookupEnds(p) ==
    /\ look[p].since # -1 /\ look' = [look EXCEPT ![p] = NoLook]
    /\ IF look[p].saw
       THEN believed' = [believed EXCEPT ![p] = 0] /\ (IF look[p].token = NoToken THEN UNCHANGED store
            ELSE Ended(look[p].token) /\ UNCHANGED <<fresh, signing, delisted>>)
       ELSE believed' = [believed EXCEPT ![p] = clock + Ttl] /\ UNCHANGED store
    /\ UNCHANGED <<up, outages, user, clock, op>>

-----------------------------------------------------------------------------
\* The operations refuse before they change anything while Valkey is down, and an unlink
\* finds no account or a ban no user only when there is nothing to do.
Starts(kind) ==
    /\ op.pc \in {"idle", "done", "failed"} /\ op.nr < MaxOps /\ up /\ (kind = "unlink" => linked)
         /\ (kind = "ban" => ~banned)
    /\ op' = [NoOp EXCEPT !.kind = kind, !.pc = IF kind = "ban" THEN "ban" ELSE "find",
         !.last = kind # "unlink", !.nr = op.nr + 1,
              !.dead = rows \cup (IF kind = "all" THEN {} ELSE listed)]
    /\ UNCHANGED <<store, up, outages, user, clock, guard>>
\* setUserBanned: the row, then the local memo is forgotten, then the sessions end.
Bans ==
    /\ op.pc = "ban" /\ banned' = TRUE /\ bannedAt' = clock /\ believed' = [believed EXCEPT ![Home] = 0]
    /\ op' = [op EXCEPT !.pc = "find", !.dead = rows \cup listed]
    /\ UNCHANGED <<store, up, outages, linked, clock, look>>
Unbans ==
    /\ op.pc \in {"idle", "done", "failed"} /\ banned /\ banned' = FALSE
         /\ believed' = [believed EXCEPT ![Home] = 0]
    /\ op' = [NoOp EXCEPT !.nr = op.nr] /\ UNCHANGED <<store, up, outages, bannedAt, linked, clock, look>>

\* purgeSessions: a batch of rows; none, or the same first token again, ends the loop.
Found(b, t) ==
    op' = [op EXCEPT !.batch = b, !.previous = t, !.pc =
        IF b # {} /\ t # op.previous THEN "uncache" ELSE IF op.kind = "all" THEN "purged" ELSE "list"]
FindRows ==
    /\ op.pc = "find" /\ IF rows = {} THEN Found({}, NoToken) ELSE \E t \in rows : Found(rows, t)
    /\ UNCHANGED <<store, up, outages, user, clock, guard>>
\* The cache first, and verified: deletes that did not land are seen in the count.
Landed(deleted) == deleted = op.batch /\ up
\* Mutant: the count of the swallowed failures is not looked at.
MutVerdict(deleted) == "rows"
Verdict(deleted) == IF Landed(deleted) THEN "rows" ELSE "failed"
Uncache ==
    /\ op.pc = "uncache"
    /\ \E deleted \in SUBSET op.batch :
          /\ cached' = cached \ deleted /\ op' = [op EXCEPT !.pc = Verdict(deleted)]
    /\ UNCHANGED <<rows, listed, fresh, signing, stranded, delisted, up, outages, user, clock, guard>>
DeleteRows ==
    /\ op.pc = "rows" /\ rows' = rows \ op.batch /\ op' = [op EXCEPT !.pc = "find"]
    /\ UNCHANGED <<cached, listed, fresh, signing, stranded, delisted, up, outages, user, clock, guard>>
\* The list of the user's tokens: read, its copies deleted, then the list itself, also
\* when a delete before it did not land.
ReadList ==
    /\ op.pc = "list" /\ op' = [op EXCEPT !.pc = IF up THEN "unlist" ELSE "failed", !.batch = listed]
    /\ UNCHANGED <<store, up, outages, user, clock, guard>>
Unlist ==
    /\ op.pc = "unlist"
    /\ \E deleted \in SUBSET op.batch :
          /\ cached' = cached \ deleted
          /\ listed' \in (IF up THEN {{}} ELSE IF deleted = op.batch THEN {{}, listed} ELSE {listed})
          /\ op' = [op EXCEPT !.pc = IF Landed(deleted) /\ listed' = {} THEN "purged" ELSE "failed"]
    /\ delisted' = delisted \cup ((listed \ listed') \cap cached')
    /\ UNCHANGED <<rows, fresh, signing, stranded, up, outages, user, clock, guard>>
\* unlinkMicrosoftAccount: the accounts go after the sessions, and what signed in
\* meanwhile goes last.
Unlinks ==
    /\ op.pc = "purged" /\ ~op.last /\ linked' = FALSE
    /\ op' = [op EXCEPT !.pc = "find", !.last = TRUE, !.previous = NoToken, !.dead = op.dead \cup rows]
    /\ UNCHANGED <<store, up, outages, banned, bannedAt, clock, guard>>
Answers ==
    /\ op.pc = "purged" /\ op.last /\ op' = [op EXCEPT !.pc = "done", !.batch = {}, !.previous = NoToken]
    /\ UNCHANGED <<store, up, outages, user, clock, guard>>

SessionsNext ==
    \/ \E t \in Tokens : SignInChecked(t) \/ SessionWritten(t) \/ SignOut(t)
    \/ ValkeyFails \/ ValkeyRecovers \/ ClockTicks
    \/ \E p \in Procs : LookupEnds(p) \/ \E t \in Tokens \cup {NoToken} : FromMemo(p, t) \/ Lookup(p, t)
    \/ \E kind \in {"all", "user", "ban", "unlink"} : Starts(kind)
    \/ Bans \/ Unbans \/ FindRows \/ Uncache \/ DeleteRows \/ ReadList \/ Unlist \/ Unlinks \/ Answers

SessionsSpec == SessionsInit /\ [][SessionsNext]_sessionVars

\* Types; a token is new, signing in, or in the stores.
SessionsTypeOK ==
    /\ op.pc \in {"idle", "ban", "find", "uncache", "rows", "list", "unlist", "purged", "done", "failed"}
    /\ rows \cup cached \cup listed \subseteq Tokens \ (fresh \cup signing)
    /\ op.batch \subseteq Tokens /\ clock \in 0..LastNow /\ outages \in 0..MaxOutages

\* An operation that answers has ended every session it was to end, in both stores and
\* for good: those that had a row when it began, for one user also those that only
\* Valkey still held, and for an unlink those signed in before the account went.  A copy
\* escapes only when nothing leads to it any more: its row went during an outage, and for
\* one user its list was deleted too, by a purge that did not see it or did not reach it.
RevokedStayGone ==
    op.pc = "done" => op.dead \cap (rows \cup cached) \subseteq
        stranded \cap (IF op.kind = "all" THEN Tokens ELSE delisted)

\* A ban reaches every process: none believes the user past the ban by more than a
\* lookup that had started before it and the 30 s of the memo.
BanReaches ==
    banned => \A p \in Procs :
        /\ believed[p] <= bannedAt + Latency + Ttl
        /\ look[p].since # -1 /\ ~look[p].saw => clock <= bannedAt + Latency

\* What SessionStoreUnavailableError tells the caller: run it again when the cache is
\* healthy.  So a revoke that failed leaves every copy in Valkey where the next one
\* looks: under a row or in the user's list.
RerunFinds == op.pc = "failed" => cached \subseteq rows \cup listed

\* The comment of isUserBanned: a ban takes effect at once in the process that made it.
BanAtOnce == banned => ~Believes(Home)

\* Revoked sessions stay gone and a ban reaches every process, through cache outages.
SessionsSafe == SessionsTypeOK /\ RevokedStayGone /\ BanReaches
=============================================================================
