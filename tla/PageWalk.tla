------------------------------ MODULE PageWalk ------------------------------
(***************************************************************************)
(* A client follows nextCursor through a list (pagination/cursor.ts) or    *)
(* counts offsets (pagination/offset.ts) while rows come and go between    *)
(* its pages.  A row is a sort key and an id; keys may be equal.  The      *)
(* repository's query is external: the first limit + 1 rows after the      *)
(* cursor in (key, id) order, or limit rows after an offset.               *)
(***************************************************************************)
EXTENDS Integers, Sequences, SequencesExt, FiniteSets

CONSTANTS
    Rows,       \* <<key, id>>: rows the table may hold
    PageLimits, \* limits a query may ask for
    MaxLimit,   \* MAX_LIMIT
    MaxEdits    \* bound: rows inserted or deleted during the walk

ASSUME PageAssumption ==
    /\ IsFiniteSet(Rows) /\ Rows \subseteq (Int \X Int) \ {<<0, 0>>}
    /\ MaxLimit \in Nat \ {0} /\ PageLimits \subseteq Int /\ MaxEdits \in Nat

VARIABLES
    pageTable,  \* the rows
    walk,       \* [mode, dir, limit, pc, cursor, offset]
    got,        \* what the pages held, in order
    stayed,     \* history: rows in the table since the walk began
    edits

pageVars == <<pageTable, walk, got, stayed, edits>>

NoCursor == <<0, 0>>

PageInit ==
    /\ pageTable \in SUBSET Rows /\ stayed = pageTable /\ got = << >> /\ edits = 0
    /\ \E mode \in {"cursor", "offset"}, dir \in {"asc", "desc"}, limit \in PageLimits :
         walk = [mode |-> mode, dir |-> dir, limit |-> limit, pc |-> "walk", cursor |-> NoCursor, offset |-> 0]

Before(x, y) == x[1] < y[1] \/ (x[1] = y[1] /\ x[2] < y[2])
Follows(x, y) == IF walk.dir = "asc" THEN Before(y, x) ELSE Before(x, y)
\* The rows of the query, in order: the k-th is the one with k rows up to it.
Matching(from) == {r \in pageTable : from = NoCursor \/ Follows(r, from)}
RowsUpTo(r, rows) == Cardinality({x \in rows : x = r \/ Follows(r, x)})
Query(from) ==
    LET rows == Matching(from)
    IN  [k \in 1..Cardinality(rows) |-> CHOOSE r \in rows : RowsUpTo(r, rows) = k]
Firsts(s, n) == SubSeq(s, 1, IF Len(s) < n THEN Len(s) ELSE n)

-----------------------------------------------------------------------------
(* PageQuerySchema, buildPageArgs, buildPageResult *)

PageQueryOK == walk.limit \in 1..MaxLimit
Refuse ==
    /\ walk.pc = "walk" /\ ~PageQueryOK /\ walk' = [walk EXCEPT !.pc = "refused"]
    /\ UNCHANGED <<pageTable, got, stayed, edits>>
\* decodeCursor: a token that is not one of ours is refused (the walk ends).
Tampered ==
    /\ walk.pc = "walk" /\ walk.mode = "cursor" /\ walk.cursor # NoCursor
    /\ walk' = [walk EXCEPT !.pc = "refused"]
    /\ UNCHANGED <<pageTable, got, stayed, edits>>

\* limit + 1 rows were fetched; the extra one says that there is a next page.
HasNext(raw) == Len(raw) > walk.limit
\* Mutant: the cursor is the extra row's.
MutCursorOf(raw, data) == raw[Len(raw)]
CursorOf(raw, data) == data[Len(data)]
CursorPage ==
    /\ walk.pc = "walk" /\ PageQueryOK /\ walk.mode = "cursor"
    /\ LET raw == Firsts(Query(walk.cursor), walk.limit + 1)
           data == Firsts(raw, walk.limit)
       IN  /\ got' = got \o data
           /\ walk' = IF HasNext(raw) /\ data # << >> THEN [walk EXCEPT !.cursor = CursorOf(raw, data)]
                      ELSE [walk EXCEPT !.pc = "end"]
    /\ UNCHANGED <<pageTable, stayed, edits>>

\* The slice and the count, and hasNextPage from both.
OffsetHasNext(data, total) == walk.offset + Len(data) < total
OffsetPage ==
    /\ walk.pc = "walk" /\ PageQueryOK /\ walk.mode = "offset"
    /\ LET all == Query(NoCursor)
           data == SubSeq(all, walk.offset + 1, IF walk.offset + walk.limit < Len(all)
               THEN walk.offset + walk.limit ELSE Len(all))
       IN  /\ got' = got \o data
           /\ walk' = IF OffsetHasNext(data, Len(all)) THEN [walk EXCEPT !.offset = @ + walk.limit]
                      ELSE [walk EXCEPT !.pc = "end"]
    /\ UNCHANGED <<pageTable, stayed, edits>>

-----------------------------------------------------------------------------
\* Other requests insert and delete rows.
Edit(r) ==
    /\ edits < MaxEdits /\ edits' = edits + 1 /\ walk.pc = "walk"
    /\ pageTable' = IF r \in pageTable THEN pageTable \ {r} ELSE pageTable \cup {r}
    /\ stayed' = stayed \ {r}
    /\ UNCHANGED <<walk, got>>

PageNext == Refuse \/ Tampered \/ CursorPage \/ OffsetPage \/ \E r \in Rows : Edit(r)
PageSpec == PageInit /\ [][PageNext]_pageVars

-----------------------------------------------------------------------------
(* Properties *)

\* A cursor walk has no skew: it shows no row twice, in order, and at its end every row that
\* was there throughout was shown once, though the row of the cursor itself may be deleted and
\* keys may be equal.  An offset walk promises this only while nothing changes.
WalkComplete ==
    (walk.mode = "cursor" \/ edits = 0) =>
        /\ \A i, j \in DOMAIN got : i < j => Follows(got[j], got[i])
        /\ walk.pc = "end" => stayed \subseteq ToSet(got)

=============================================================================
