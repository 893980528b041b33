----------------------------- MODULE Pagination -----------------------------
(***************************************************************************)
(* Lab 34: a client pages through activity_events in the order             *)
(* (created_at, id) while rows are inserted and deleted, with OFFSET and   *)
(* with a keyset cursor.  A row is [at, id]: several rows share a          *)
(* created_at, which is why the id is part of the order.                   *)
(***************************************************************************)
EXTENDS Integers, Sequences, FiniteSets, SequencesExt

CONSTANTS
    SeededAt,      \* created_at of the seeded rows, in id order
    PageSize,
    MaxMutations   \* bound on inserts and deletes

ASSUME PagingSizes == SeededAt \in Seq(Int) /\ PageSize \in Nat \ {0} /\ MaxMutations \in Nat

VARIABLES
    paging,     \* "offset" or "keyset"
    activity,   \* the rows of the table
    nextId,     \* the identity column
    delivered,  \* the rows the client has got
    pages,      \* how many pages it asked for
    lastPage,   \* the page it got last
    baseline,   \* the page it would have got next, had nothing changed
    between     \* the mutations since its last page

pageVars == <<paging, activity, nextId, delivered, pages, lastPage, baseline, between>>

Key(r, s) == r.at < s.at \/ (r.at = s.at /\ r.id < s.id)
\* ORDER BY created_at, id LIMIT PageSize OFFSET skip.
OrderedFrom(rows, skip) ==
    LET left == Cardinality(rows) - skip
        length == IF left < 0 THEN 0 ELSE IF left < PageSize THEN left ELSE PageSize
    IN  [i \in 1..length |->
            CHOOSE r \in rows : Cardinality({q \in rows : Key(q, r)}) = skip + i - 1]
NoRow == [at |-> 0, id |-> 0]

\* Mutant: the cursor compares created_at alone.
MutAfterCursor(cursor, r) == cursor.at < r.at

runOffsetPage(rows, offset) == OrderedFrom(rows, offset)
\* WHERE (created_at, id) > cursor; without a cursor the first page.
AfterCursor(cursor, r) == Key(cursor, r)
runKeysetPage(rows, cursor) ==
    OrderedFrom({r \in rows : cursor = NoRow \/ AfterCursor(cursor, r)}, 0)
cursorFromRow == IF delivered = <<>> THEN NoRow ELSE Last(delivered)
\* With OFFSET the next multiple of the page size, whatever has been delivered.
NextPage(rows, got, cursor) ==
    IF paging = "offset" THEN runOffsetPage(rows, PageSize * got) ELSE runKeysetPage(rows, cursor)

PageInit ==
    /\ paging \in {"offset", "keyset"}
    /\ activity = {[at |-> SeededAt[i], id |-> i] : i \in DOMAIN SeededAt}
    /\ nextId = Len(SeededAt) + 1
    /\ delivered = <<>> /\ pages = 0 /\ lastPage = <<>>
    /\ baseline = <<>> /\ between = <<>>

Finished == pages > 0 /\ lastPage = <<>>
FetchPage ==
    /\ ~Finished
    /\ LET page == NextPage(activity, pages, cursorFromRow)
           cursor == IF page = <<>> THEN cursorFromRow ELSE Last(page)
       IN  /\ lastPage' = page /\ delivered' = delivered \o page
           /\ baseline' = NextPage(activity, pages + 1, cursor)
    /\ pages' = pages + 1
    /\ between' = <<>>
    /\ UNCHANGED <<paging, activity, nextId>>
\* Inserts, and rows gone.
Mutations == 2 * (nextId - 1) - Len(SeededAt) - Cardinality(activity)
\* Where the client has got to: at or before its cursor.
Behind(r) == ~Key(cursorFromRow, r)
\* One hour before everything (before 1970 when min() is NULL), or anywhere
\* among the others, between the cursor and the end of page 2 for instance.
Earliest == {r \in activity : \A q \in activity : r.at <= q.at}
CreatedAts ==
    {SeededAt[i] : i \in DOMAIN SeededAt}
    \cup IF activity = {} THEN {-1} ELSE {r.at - 1 : r \in Earliest}
InsertRow(at) ==
    /\ Mutations < MaxMutations
    /\ LET new == [at |-> at, id |-> nextId]
       IN  /\ activity' = activity \cup {new}
           /\ between' = Append(between, IF Behind(new) THEN "insert_before" ELSE "insert_mid")
    /\ nextId' = nextId + 1
    /\ UNCHANGED <<paging, delivered, pages, lastPage, baseline>>
DeleteRow(r) ==
    /\ Mutations < MaxMutations
    /\ activity' = activity \ {r}
    /\ between' = Append(between, IF Behind(r) THEN "delete_delivered" ELSE "delete_ahead")
    /\ UNCHANGED <<paging, nextId, delivered, pages, lastPage, baseline>>

PageNext ==
    \/ FetchPage
    \/ ~Finished /\ \E at \in CreatedAts : InsertRow(at)
    \/ ~Finished /\ \E r \in activity : DeleteRow(r)
PageSpec == PageInit /\ [][PageNext]_pageVars

(***************************************************************************)
(* What the two correctness scripts find, before the next page is read.    *)
(***************************************************************************)
Upcoming == NextPage(activity, pages, cursorFromRow)
\* BUG REPRODUCED, twice: the last row again, and a row that is never seen.
OffsetCorrectnessBug ==
    paging = "offset" /\ Len(lastPage) = PageSize =>
        /\ between = <<"insert_before">> => Head(Upcoming) = Last(lastPage)
        /\ between = <<"delete_delivered">> /\ baseline # <<>> =>
              Head(baseline) \notin ToSet(lastPage) \cup ToSet(Upcoming)
\* NO DUPLICATE, NO SKIP; a row inserted ahead of the cursor does appear.
KeysetCorrectness ==
    paging = "keyset" /\ pages > 0 =>
        /\ ToSet(between) \subseteq {"insert_before", "delete_delivered"} => Upcoming = baseline
        /\ between = <<"insert_mid">> /\ baseline # <<>> =>
              \A r \in activity : Key(cursorFromRow, r) /\ Key(r, Last(baseline)) =>
                  r \in ToSet(Upcoming)

(***************************************************************************)
(* Properties.                                                             *)
(***************************************************************************)
\* Keyset paging delivers no row twice, in order, and leaves out no row that is
\* there and lies behind the cursor, unless it was inserted behind it: every
\* seeded row that is still there at the end has been delivered.  OFFSET
\* repeats and skips exactly as the script shows.
PagesAreExact ==
    /\ KeysetCorrectness /\ OffsetCorrectnessBug
    /\ paging = "keyset" =>
          /\ \A i, j \in 1..Len(delivered) : i < j => Key(delivered[i], delivered[j])
          /\ \A r \in activity : r.id <= Len(SeededAt) /\ (Finished \/ ~Key(cursorFromRow, r))
                => r \in ToSet(delivered) \/ pages = 0
=============================================================================
