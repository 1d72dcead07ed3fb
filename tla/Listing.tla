-------------------------------- MODULE Listing --------------------------------
(***************************************************************************)
(* GET /appointments: AppointmentsService.findAll, asked for page after    *)
(* page by one client while other requests book appointments.              *)
(*                                                                         *)
(* Without a cursor the answer is the page with a given number; its rows   *)
(* and the total come from two statements sent together, each with a       *)
(* snapshot of its own.  With a cursor one statement returns what follows  *)
(* the position in it; a cursor that cannot be decoded is no position.     *)
(*                                                                         *)
(* Rows only ever appear: appointments are not deleted, and the columns a  *)
(* filter or the order looks at are never updated.  A filter is therefore  *)
(* a set of rows.                                                          *)
(***************************************************************************)
EXTENDS Integers, Sequences, FiniteSets

CONSTANTS
    Rows,         \* appointments that exist or will: start, id
    Filters,      \* the rows each filter selects
    AskedLimits,  \* values of the limit parameter
    MaxLimit,     \* 100 in the code
    NoCursor,     \* null
    Unreadable    \* a cursor that does not decode

ASSUME ListingAssumption ==
    /\ IsFiniteSet(Rows) /\ Rows \subseteq [start : Nat, id : Nat]
    /\ Filters \subseteq SUBSET Rows
    /\ AskedLimits \subseteq Int
    /\ MaxLimit \in Nat \ {0}
    /\ NoCursor # Unreadable
    /\ NoCursor \notin [start : Nat, id : Nat] /\ Unreadable \notin [start : Nat, id : Nat]

VARIABLES
    table,        \* appointments committed so far
    pc,           \* idle, query (a numbered page is being read) or turn (of the client)
    pending,      \* statements of the numbered page that have not run
    where,        \* the client's filter
    size,         \* its page size
    byCursor,     \* whether it goes on by cursor or by page number
    page,         \* number of the page asked for last
    data, total,  \* results of the two statements
    next,         \* nextCursor of the last answer, or the cursor it starts with
    pages,        \* pages received
    before,       \* ghost: matching rows when the walk began
    undercounted  \* ghost: the last total is older than its rows and misses some

vars == <<table, pc, pending, where, size, byCursor, page, data, total, next, pages, before, undercounted>>
walk == <<where, size, byCursor, before>>

-----------------------------------------------------------------------------

\* Mutant: the limit has no upper bound.
AtLeastOne(asked) == IF asked < 1 THEN 1 ELSE asked

\* limit = Math.min(100, Math.max(1, asked)).
PageSize(asked) == IF asked < 1 THEN 1 ELSE IF asked > MaxLimit THEN MaxLimit ELSE asked

\* ORDER BY start_time, id; ids are random.
Before(q, r) == q.start < r.start \/ (q.start = r.start /\ q.id < r.id)

Rank(r, S) == Cardinality({q \in S : Before(q, r)})

\* OFFSET skip LIMIT take.
Slice(S, skip, take) == {r \in S : skip <= Rank(r, S) /\ Rank(r, S) < skip + take}

LastRow(S) == CHOOSE r \in S : \A q \in S : ~ Before(r, q)

EncodeCursor(r) == [start |-> r.start, id |-> r.id]
DecodeCursor(cursor) == IF cursor = Unreadable THEN NoCursor ELSE cursor

\* Mutants: rows with the start of the last one are left out; the last one is sent again.
StartsAfter(S, position) ==
    IF position = NoCursor THEN S ELSE {r \in S : position.start < r.start}
AtOrAfter(S, position) ==
    IF position = NoCursor THEN S ELSE {r \in S : r = position \/ Before(position, r)}

RowsAfter(S, position) ==
    IF position = NoCursor THEN S ELSE {r \in S : Before(position, r)}

NextCursor(hasMore, rows) ==
    IF hasMore /\ rows # {} THEN EncodeCursor(LastRow(rows)) ELSE NoCursor

Matching == table \intersect where

-----------------------------------------------------------------------------

Init ==
    /\ table \in SUBSET Rows
    /\ pc = "idle" /\ pending = {}
    /\ where = {} /\ size = 1 /\ byCursor = FALSE
    /\ page = 1 /\ data = {} /\ total = 0 /\ next = NoCursor
    /\ pages = <<>> /\ before = {} /\ undercounted = FALSE

\* The commit of POST /appointments.
Book(r) ==
    /\ r \in Rows \ table
    /\ table' = table \union {r}
    /\ UNCHANGED <<pc, pending, walk, page, data, total, next, pages, undercounted>>

Begin(filter, asked) ==
    /\ pc = "idle"
    /\ where' = filter
    /\ size' = PageSize(asked)
    /\ before' = table \intersect filter

\* The first request of a walk has no cursor ...
OpenWithPage(filter, asked) ==
    /\ Begin(filter, asked)
    /\ byCursor' \in BOOLEAN
    /\ pc' = "query" /\ pending' = {"rows", "total"}
    /\ UNCHANGED <<table, page, data, total, next, pages, undercounted>>

\* ... or one that cannot be decoded.
OpenWithUnreadableCursor(filter, asked) ==
    /\ Begin(filter, asked)
    /\ byCursor' = TRUE /\ next' = Unreadable
    /\ pc' = "turn"
    /\ UNCHANGED <<table, pending, page, data, total, pages, undercounted>>

Skipped == (page - 1) * size

ReadRows ==
    /\ "rows" \in pending
    /\ data' = Slice(Matching, Skipped, size)
    /\ undercounted' = ("total" \notin pending /\ total < Cardinality(Matching))
    /\ pending' = pending \ {"rows"}
    /\ UNCHANGED <<table, pc, walk, page, total, next, pages>>

ReadTotal ==
    /\ "total" \in pending
    /\ total' = Cardinality(Matching)
    /\ pending' = pending \ {"total"}
    /\ UNCHANGED <<table, pc, walk, page, data, next, pages, undercounted>>

AnswerPage ==
    /\ pc = "query" /\ pending = {}
    /\ pages' = Append(pages, data)
    /\ next' = NextCursor(total > Skipped + Cardinality(data), data)
    /\ pc' = "turn"
    /\ UNCHANGED <<table, pending, walk, page, data, total, undercounted>>

\* The client asks for the next number as long as the total says there is more.
TurnPage ==
    /\ pc = "turn" /\ ~ byCursor /\ page * size < total
    /\ page' = page + 1
    /\ pc' = "query" /\ pending' = {"rows", "total"}
    /\ UNCHANGED <<table, walk, data, total, next, pages, undercounted>>

\* One row more than the page is fetched, to see whether there is more.
FollowCursor ==
    /\ pc = "turn" /\ byCursor /\ next # NoCursor
    /\ LET found   == Slice(RowsAfter(Matching, DecodeCursor(next)), 0, size + 1)
           hasMore == Cardinality(found) > size
           result  == IF hasMore THEN Slice(found, 0, size) ELSE found
       IN  /\ pages' = Append(pages, result)
           /\ next' = NextCursor(hasMore, result)
    /\ undercounted' = FALSE
    /\ UNCHANGED <<table, pc, pending, walk, page, data, total>>

AtEnd == pc = "turn" /\ IF byCursor THEN next = NoCursor ELSE page * size >= total

Finished == AtEnd /\ UNCHANGED vars

Next ==
    \/ \E r \in Rows : Book(r)
    \/ \E filter \in Filters, asked \in AskedLimits :
          OpenWithPage(filter, asked) \/ OpenWithUnreadableCursor(filter, asked)
    \/ ReadRows \/ ReadTotal \/ AnswerPage \/ TurnPage \/ FollowCursor
    \/ Finished

Spec == Init /\ [][Next]_vars

-----------------------------------------------------------------------------
(* Properties. *)

\* Types; and a page never has more rows than the limit allows, none of them
\* outside the filter.
TypeOK ==
    /\ table \subseteq Rows /\ where \subseteq Rows /\ before \subseteq Matching
    /\ pc \in {"idle", "query", "turn"}
    /\ pending \subseteq {"rows", "total"} /\ (pending # {} => pc = "query")
    /\ size \in 1..MaxLimit /\ byCursor \in BOOLEAN /\ undercounted \in BOOLEAN
    /\ page \in Nat \ {0} /\ total \in Nat
    /\ data \subseteq Matching /\ Cardinality(data) <= size
    /\ next \in Rows \union {NoCursor, Unreadable}
    /\ pages \in Seq(SUBSET Rows)
    /\ \A i \in DOMAIN pages : pages[i] \subseteq Matching /\ Cardinality(pages[i]) <= size

Received == UNION {pages[i] : i \in DOMAIN pages}

\* A walk by cursor delivers no appointment twice and goes forward only, whatever is
\* booked meanwhile; a walk by page number does as long as nothing is booked into it.
InOrder ==
    byCursor \/ Matching = before =>
        \A i, j \in DOMAIN pages : i < j => \A q \in pages[i], r \in pages[j] : Before(q, r)

\* A walk that comes to its end has delivered every appointment that was there when it
\* began: bookings push rows back, never into a page already read.  The exception
\* is a last page whose total was counted too early to show that rows are left.
MissesNothing == AtEnd /\ ~ undercounted => before \subseteq Received

(***************************************************************************)
(* The inductive invariant: where the rows are that have not come yet.     *)
(***************************************************************************)
RowsRead == pc = "query" /\ "rows" \notin pending
InHand == Received \union (IF RowsRead THEN data ELSE {})

PagesCounted ==
    /\ pc = "idle" => pages = <<>> /\ page = 1 /\ data = {}
    /\ pc = "query" => Len(pages) = page - 1
    /\ pc = "turn" /\ ~ byCursor => Len(pages) = page
    /\ byCursor => page = 1
    /\ pc = "turn" /\ next = Unreadable => pages = <<>> /\ byCursor

\* They have been pushed behind all numbered pages read so far ...
PushedBack ==
    ~ byCursor =>
        \A r \in before \ InHand :
            Rank(r, Matching) >= (Len(pages) + (IF RowsRead THEN 1 ELSE 0)) * size

\* ... the total shows that they exist ...
TotalShows ==
    pc # "idle" /\ pending = {} /\ ~ undercounted /\ ~ before \subseteq InHand
        => /\ ~ byCursor => total > page * size
           /\ byCursor /\ pc = "query" => total > Cardinality(data)

\* ... and the cursor stands before them.
FirstPageIsHead ==
    RowsRead /\ byCursor =>
        /\ \A r \in before, q \in data : Before(r, q) => r \in data
        /\ before # {} => data # {}

CursorStands ==
    pc = "turn" /\ byCursor =>
        /\ next \in Rows => /\ \A r \in Received : r = next \/ Before(r, next)
                            /\ \A r \in before \ Received : Before(next, r)
        /\ next = NoCursor /\ ~ undercounted => before \subseteq Received

\* As long as nothing is booked into it, a numbered page is a slice of the same rows.
PagesAreSlices ==
    ~ byCursor /\ Matching = before =>
        /\ \A i \in DOMAIN pages : pages[i] = Slice(before, (i - 1) * size, size)
        /\ RowsRead => data = Slice(before, (page - 1) * size, size)

\* Whatever is booked between and inside the requests of a walk.
WalkInv ==
    /\ TypeOK /\ PagesCounted /\ PushedBack /\ TotalShows
    /\ FirstPageIsHead /\ CursorStands /\ PagesAreSlices /\ InOrder

=============================================================================
