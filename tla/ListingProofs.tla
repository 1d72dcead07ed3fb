------------------------------ MODULE ListingProofs ------------------------------
(***************************************************************************)
(* Walks through GET /appointments, for any appointments, filters and page *)
(* sizes and any bookings in between.                                      *)
(***************************************************************************)
EXTENDS Listing, FiniteSetTheorems, WellFoundedInduction, TLAPS

(***************************************************************************)
(* The order of the rows, and slices of it.                                *)
(***************************************************************************)

LEMMA RowFields ==
    ASSUME NEW r \in Rows
    PROVE  r.start \in Nat /\ r.id \in Nat /\ r = [start |-> r.start, id |-> r.id]
<1>1. r \in [start : Nat, id : Nat]
  BY ListingAssumption
<1> QED
  BY <1>1

LEMMA BeforeIsAnOrder ==
    ASSUME NEW q \in Rows, NEW r \in Rows
    PROVE  /\ ~ Before(r, r)
           /\ q = r \/ Before(q, r) \/ Before(r, q)
           /\ ~ (Before(q, r) /\ Before(r, q))
           /\ \A s \in Rows : Before(q, r) /\ Before(r, s) => Before(q, s)
<1>1. \A s \in Rows : s.start \in Nat /\ s.id \in Nat /\ s = [start |-> s.start, id |-> s.id]
  BY RowFields
<1> QED
  BY <1>1 DEF Before

LEMMA SmallestImage ==
    ASSUME NEW S, S # {}, NEW f \in [S -> Nat]
    PROVE  \E x \in S : \A y \in S : f[x] <= f[y]
<1> DEFINE Less == {ss \in Nat \X Nat : ss[1] < ss[2]}
           T == {f[x] : x \in S}
<1>1. IsWellFoundedOn(Less, Nat)
  BY NatLessThanWellFounded, Zenon DEF OpToRel
<1>2. ASSUME NEW m \in Nat, NEW n \in Nat, m < n
      PROVE  <<m, n>> \in Less
  BY <1>2
<1>3. T \subseteq Nat /\ T # {}
  OBVIOUS
<1> HIDE DEF Less, T
<1>4. PICK m \in T : \A n \in T : <<n, m>> \notin Less
  BY <1>1, <1>3, WFMin
<1>5. \A n \in T : m <= n
  <2>1. ASSUME NEW n \in T
        PROVE  ~ (n < m)
    BY <1>2, <1>3, <1>4, Zenon
  <2> QED
    BY <1>3, <2>1
<1> QED
  BY <1>5 DEF T

LEMMA RankFacts ==
    ASSUME NEW S \in SUBSET Rows, NEW r \in Rows
    PROVE  /\ IsFiniteSet(S) /\ Cardinality(S) \in Nat
           /\ Rank(r, S) \in Nat
           /\ r \in S => Rank(r, S) < Cardinality(S)
           /\ \A T \in SUBSET S : Cardinality(T) <= Cardinality(S) /\ (T # S => Cardinality(T) < Cardinality(S))
           /\ \A T \in SUBSET Rows : S \subseteq T => Rank(r, S) <= Rank(r, T)
<1>1. \A T \in SUBSET Rows : IsFiniteSet(T) /\ Cardinality(T) \in Nat
  BY ListingAssumption, FS_Subset, FS_CardinalityType
<1>2. ASSUME NEW T \in SUBSET Rows, NEW X \in SUBSET T
      PROVE  Cardinality(X) <= Cardinality(T) /\ (X # T => Cardinality(X) < Cardinality(T))
  <2>1. IsFiniteSet(T) /\ Cardinality(T) \in Nat /\ Cardinality(X) \in Nat
    BY <1>1
  <2>2. Cardinality(X) <= Cardinality(T) /\ (Cardinality(T) = Cardinality(X) => T = X)
    BY <2>1, FS_Subset
  <2> QED
    BY <2>1, <2>2
<1>3. \A T \in SUBSET Rows : {q \in T : Before(q, r)} \in SUBSET Rows
  OBVIOUS
<1>4. \A T \in SUBSET Rows : S \subseteq T => Rank(r, S) <= Rank(r, T)
  <2> SUFFICES ASSUME NEW T \in SUBSET Rows, S \subseteq T
               PROVE  Rank(r, S) <= Rank(r, T)
    OBVIOUS
  <2>1. {q \in S : Before(q, r)} \in SUBSET {q \in T : Before(q, r)}
    OBVIOUS
  <2> QED
    BY <1>2, <1>3, <2>1 DEF Rank
<1>5. ASSUME r \in S
      PROVE  Rank(r, S) < Cardinality(S)
  <2>1. {q \in S : Before(q, r)} \in SUBSET S /\ {q \in S : Before(q, r)} # S
    BY <1>5, BeforeIsAnOrder
  <2> QED
    BY <1>2, <2>1 DEF Rank
<1>6. Rank(r, S) \in Nat
  BY <1>1, <1>3 DEF Rank
<1> QED
  BY <1>1, <1>2, <1>4, <1>5, <1>6

\* Ranks and the order agree.
LEMMA RankOrders ==
    ASSUME NEW S \in SUBSET Rows, NEW q \in S, NEW r \in S
    PROVE  Before(q, r) <=> Rank(q, S) < Rank(r, S)
<1>1. ASSUME NEW x \in S, NEW y \in S, Before(x, y)
      PROVE  Rank(x, S) < Rank(y, S)
  <2> DEFINE X == {s \in S : Before(s, x)}
             Y == {s \in S : Before(s, y)}
  <2>1. X \subseteq Y
    BY <1>1, BeforeIsAnOrder
  <2>2. x \in Y /\ x \notin X
    BY <1>1, BeforeIsAnOrder
  <2>3. Y \in SUBSET Rows /\ X \in SUBSET Y /\ X # Y
    BY <2>1, <2>2
  <2> HIDE DEF X, Y
  <2>4. Cardinality(X) < Cardinality(Y)
    BY <2>3, RankFacts
  <2> QED
    BY <2>4 DEF Rank, X, Y
<1>2. Rank(q, S) \in Nat /\ Rank(r, S) \in Nat
  BY RankFacts
<1>3. CASE Before(q, r)
  BY <1>1, <1>3
<1>4. CASE q = r
  BY <1>2, <1>4, BeforeIsAnOrder
<1>5. CASE Before(r, q)
  <2>1. Rank(r, S) < Rank(q, S) /\ ~ Before(q, r)
    BY <1>1, <1>5, BeforeIsAnOrder
  <2> QED
    BY <1>2, <2>1
<1> QED
  BY <1>3, <1>4, <1>5, BeforeIsAnOrder

\* The first and the last row of a page.
LEMMA FirstOfRows ==
    ASSUME NEW S \in SUBSET Rows, S # {}
    PROVE  \E r \in S : \A q \in S : ~ Before(q, r)
<1> DEFINE f == [r \in S |-> Rank(r, S)]
<1>1. f \in [S -> Nat]
  BY RankFacts
<1>2. PICK r \in S : \A q \in S : f[r] <= f[q]
  <2> HIDE DEF f
  <2> QED
    BY <1>1, SmallestImage
<1>3. ASSUME NEW q \in S
      PROVE  ~ Before(q, r)
  <2>1. Rank(q, S) \in Nat /\ Rank(r, S) \in Nat /\ Rank(r, S) <= Rank(q, S)
    BY <1>2, RankFacts
  <2> QED
    BY <2>1, RankOrders
<1> QED
  BY <1>3

LEMMA LastOfRows ==
    ASSUME NEW S \in SUBSET Rows, S # {}
    PROVE  LastRow(S) \in S /\ \A q \in S : q = LastRow(S) \/ Before(q, LastRow(S))
<1> DEFINE f == [r \in S |-> Cardinality(S) - Rank(r, S)]
<1>1. f \in [S -> Nat]
  <2>1. ASSUME NEW r \in S
        PROVE  Cardinality(S) - Rank(r, S) \in Nat
    <3>1. Rank(r, S) \in Nat /\ Cardinality(S) \in Nat /\ Rank(r, S) < Cardinality(S)
      BY RankFacts
    <3> QED
      BY <3>1
  <2> QED
    BY <2>1
<1>2. PICK r \in S : \A q \in S : f[r] <= f[q]
  <2> HIDE DEF f
  <2> QED
    BY <1>1, SmallestImage
<1>3. ASSUME NEW q \in S
      PROVE  ~ Before(r, q)
  <2>1. /\ Rank(q, S) \in Nat /\ Rank(r, S) \in Nat /\ Cardinality(S) \in Nat
        /\ Cardinality(S) - Rank(r, S) <= Cardinality(S) - Rank(q, S)
    BY <1>2, RankFacts
  <2>2. ~ (Rank(r, S) < Rank(q, S))
    BY <2>1
  <2> QED
    BY <2>2, RankOrders
<1>4. LastRow(S) \in S /\ \A q \in S : ~ Before(LastRow(S), q)
  BY <1>3 DEF LastRow
<1> QED
  BY <1>4, BeforeIsAnOrder

\* What OFFSET 0 LIMIT n returns: the rows up to some row, and all of them if it is not full.
LEMMA HeadOfRows ==
    ASSUME NEW S \in SUBSET Rows, NEW n \in Nat
    PROVE  /\ Slice(S, 0, n) \subseteq S
           /\ \A r \in Slice(S, 0, n), q \in S : Before(q, r) => q \in Slice(S, 0, n)
           /\ Cardinality(Slice(S, 0, n)) < n => Slice(S, 0, n) = S
           /\ n > 0 /\ S # {} => Slice(S, 0, n) # {}
<1> DEFINE head == Slice(S, 0, n)
<1>1. head = {r \in S : Rank(r, S) < n}
  BY RankFacts DEF Slice
<1>2. ASSUME NEW r \in head, NEW q \in S, Before(q, r)
      PROVE  q \in head
  <2>1. Rank(q, S) < Rank(r, S) /\ Rank(r, S) < n /\ Rank(q, S) \in Nat /\ Rank(r, S) \in Nat
    BY <1>1, <1>2, RankOrders, RankFacts
  <2> QED
    BY <1>1, <2>1
<1>3. ASSUME Cardinality(head) < n, head # S
      PROVE  FALSE
  <2>1. PICK r \in S \ head : \A q \in S \ head : ~ Before(q, r)
    BY <1>1, <1>3, FirstOfRows
  <2>2. {q \in S : Before(q, r)} \in SUBSET head
    BY <1>1, <2>1
  <2>3. Rank(r, S) <= Cardinality(head)
    BY <1>1, <2>2, RankFacts DEF Rank
  <2>4. Rank(r, S) \in Nat /\ Cardinality(head) \in Nat /\ ~ (Rank(r, S) < n)
    BY <1>1, <2>1, RankFacts
  <2> QED
    BY <1>3, <2>3, <2>4
<1>4. ASSUME n > 0, S # {}
      PROVE  head # {}
  <2>1. PICK r \in S : \A q \in S : ~ Before(q, r)
    BY <1>4, FirstOfRows
  <2>2. {q \in S : Before(q, r)} = {}
    BY <2>1
  <2>3. Rank(r, S) = 0
    BY <2>2, FS_EmptySet DEF Rank
  <2> QED
    BY <1>1, <1>4, <2>3
<1> QED
  BY <1>1, <1>2, <1>3, <1>4

\* No page is larger than its limit.
LEMMA SliceIsBounded ==
    ASSUME NEW S \in SUBSET Rows, NEW skip \in Nat, NEW take \in Nat
    PROVE  Slice(S, skip, take) \subseteq S /\ Cardinality(Slice(S, skip, take)) <= take
<1> DEFINE T == Slice(S, skip, take)
<1>1. T \in SUBSET S /\ T \in SUBSET Rows /\ \A r \in T : skip <= Rank(r, S) /\ Rank(r, S) < skip + take
  BY DEF Slice
<1> HIDE DEF T
<1>2. CASE T = {}
  BY <1>1, <1>2, FS_EmptySet DEF T
<1>3. CASE T # {}
  <2>1. PICK f \in T : \A q \in T : ~ Before(q, f)
    BY <1>1, <1>3, FirstOfRows
  <2>2. PICK l \in T : \A q \in T : q = l \/ Before(q, l)
    BY <1>1, <1>3, LastOfRows
  <2> DEFINE A == {q \in S : Before(q, f)}
             B == {q \in S : Before(q, l)}
             C == T \ {l}
  <2>3. A \subseteq B /\ C \subseteq B /\ A \intersect C = {}
    BY <1>1, <2>1, <2>2, BeforeIsAnOrder
  <2>4. A \in SUBSET Rows /\ B \in SUBSET Rows /\ C \in SUBSET Rows
    BY <1>1
  <2> HIDE DEF A, B, C
  <2>5. Cardinality(A \union C) = Cardinality(A) + Cardinality(C)
    <3>1. IsFiniteSet(A) /\ IsFiniteSet(C) /\ Cardinality(A) \in Nat /\ Cardinality(C) \in Nat
      BY <1>1, <2>1, <2>4, RankFacts
    <3>2. Cardinality(A \intersect C) = 0
      BY <2>3, FS_EmptySet
    <3>3. Cardinality(A \union C) = Cardinality(A) + Cardinality(C) - Cardinality(A \intersect C)
      BY <3>1, FS_Union
    <3> QED
      BY <3>1, <3>2, <3>3
  <2>6. Cardinality(A \union C) <= Cardinality(B)
    BY <1>1, <2>1, <2>3, <2>4, RankFacts
  <2>7. Cardinality(C) = Cardinality(T) - 1
    BY <1>1, <2>2, RankFacts, FS_RemoveElement DEF C
  <2>8. Cardinality(A) >= skip /\ Cardinality(B) < skip + take
    BY <1>1, <2>1, <2>2 DEF Rank, A, B
  <2>9. Cardinality(A) \in Nat /\ Cardinality(B) \in Nat /\ Cardinality(C) \in Nat /\ Cardinality(T) \in Nat
    BY <1>1, <2>1, <2>4, RankFacts
  <2>10. Cardinality(T) <= take
    BY <2>5, <2>6, <2>7, <2>8, <2>9
  <2> QED
    BY <1>1, <2>10 DEF T
<1> QED
  BY <1>2, <1>3

(***************************************************************************)
(* Steps.                                                                  *)
(***************************************************************************)

LEMMA CursorOfRow ==
    ASSUME NEW r \in Rows
    PROVE  EncodeCursor(r) = r /\ DecodeCursor(r) = r /\ r # NoCursor /\ r # Unreadable
<1>1. r \in [start : Nat, id : Nat] /\ EncodeCursor(r) = r
  BY RowFields, ListingAssumption DEF EncodeCursor
<1>2. r # NoCursor /\ r # Unreadable
  BY <1>1, ListingAssumption
<1> QED
  BY <1>1, <1>2 DEF DecodeCursor

LEMMA NextCursorIs ==
    ASSUME NEW S \in SUBSET Rows, NEW more \in BOOLEAN
    PROVE  NextCursor(more, S) = IF more /\ S # {} THEN LastRow(S) ELSE NoCursor
BY CursorOfRow, LastOfRows DEF NextCursor

\* The answer to a cursor: what follows it, up to the row that the next cursor names.
LEMMA AnswerToCursor ==
    ASSUME TypeOK, next # NoCursor, FollowCursor,
           NEW S, S = RowsAfter(Matching, DecodeCursor(next))
    PROVE  \E result \in SUBSET S :
              /\ Cardinality(result) <= size
              /\ pages' = Append(pages, result)
              /\ \/ result = S /\ next' = NoCursor
                 \/ /\ next' \in result /\ next' \in Rows
                    /\ \A r \in result : r = next' \/ Before(r, next')
                    /\ \A r \in S \ result : Before(next', r)
<1> DEFINE found == Slice(S, 0, size + 1)
           head == Slice(found, 0, size)
<1>1. size \in Nat \ {0} /\ size + 1 \in Nat \ {0}
  BY ListingAssumption DEF TypeOK
<1>2. S \in SUBSET Rows /\ S \in SUBSET Matching
  BY DEF TypeOK, Matching, RowsAfter
<1>3. found \in SUBSET S /\ found \in SUBSET Rows
  BY <1>1, <1>2, HeadOfRows
<1>4. Cardinality(found) \in Nat
  <2>1. IsFiniteSet(found)
    BY <1>3, FS_Subset, ListingAssumption
  <2> QED
    BY <2>1, FS_CardinalityType
<1>5. CASE Cardinality(found) > size
  <2>1. found # {}
    BY <1>1, <1>5, FS_EmptySet
  <2>2. /\ head \in SUBSET found /\ head # {} /\ Cardinality(head) <= size
        /\ \A r \in head, q \in found : Before(q, r) => q \in head
    BY <1>1, <1>3, <2>1, HeadOfRows, SliceIsBounded
  <2>3. pages' = Append(pages, head) /\ next' = LastRow(head)
    BY <1>3, <1>5, <2>2, NextCursorIs DEF FollowCursor
  <2>4. /\ LastRow(head) \in head
        /\ \A r \in head : r = LastRow(head) \/ Before(r, LastRow(head))
    BY <1>3, <2>2, LastOfRows
  <2>5. \A r \in found, q \in S : Before(q, r) => q \in found
    BY <1>1, <1>2, HeadOfRows
  <2>6. ASSUME NEW r \in S \ head
        PROVE  Before(LastRow(head), r)
    <3>1. ~ Before(r, LastRow(head))
      BY <2>2, <2>4, <2>5
    <3> QED
      BY <1>2, <1>3, <2>2, <2>4, <3>1, BeforeIsAnOrder
  <2> QED
    BY <1>3, <2>2, <2>3, <2>4, <2>6
<1>6. CASE ~ (Cardinality(found) > size)
  <2>1. found = S
    <3>1. Cardinality(found) < size + 1
      BY <1>1, <1>4, <1>6
    <3> QED
      BY <1>1, <1>2, <3>1, HeadOfRows
  <2>2. pages' = Append(pages, found) /\ next' = NoCursor
    BY <1>6 DEF FollowCursor, NextCursor
  <2>3. Cardinality(found) <= size
    BY <1>1, <1>4, <1>6
  <2> QED
    BY <2>1, <2>2, <2>3
<1> QED
  BY <1>5, <1>6

LEMMA PageAppended ==
    ASSUME pages \in Seq(SUBSET Rows), NEW P \in SUBSET Rows, pages' = Append(pages, P)
    PROVE  /\ pages' \in Seq(SUBSET Rows) /\ Len(pages') = Len(pages) + 1
           /\ DOMAIN pages = 1..Len(pages) /\ DOMAIN pages' = 1..(Len(pages) + 1)
           /\ \A i \in DOMAIN pages : pages'[i] = pages[i]
           /\ pages'[Len(pages) + 1] = P
           /\ Received' = Received \union P
<1>1. /\ pages' \in Seq(SUBSET Rows) /\ Len(pages') = Len(pages) + 1 /\ Len(pages) \in Nat
      /\ DOMAIN pages = 1..Len(pages) /\ DOMAIN pages' = 1..(Len(pages) + 1)
      /\ \A i \in DOMAIN pages : pages'[i] = pages[i]
      /\ pages'[Len(pages) + 1] = P
  OBVIOUS
<1>2. \A i : i \in DOMAIN pages' <=> i \in DOMAIN pages \/ i = Len(pages) + 1
  BY <1>1
<1>3. Received' = Received \union P
  <2>1. \A r : r \in Received' <=> \E i \in DOMAIN pages' : r \in pages'[i]
    BY DEF Received
  <2>2. \A r : r \in Received <=> \E i \in DOMAIN pages : r \in pages[i]
    BY DEF Received
  <2>3. \A r : r \in Received' <=> r \in Received \/ r \in P
    BY <1>1, <1>2, <2>1, <2>2, Zenon
  <2> QED
    BY <2>3
<1> QED
  BY <1>1, <1>3

\* How the rows of a walk change.
LEMMA MatchingGrows ==
    ASSUME TypeOK, [Next]_vars, pc # "idle"
    PROVE  where' = where /\ before' = before /\ Matching \subseteq Matching' /\ Matching' \subseteq Rows
           /\ size' = size /\ byCursor' = byCursor
<1>1. where' = where /\ before' = before /\ size' = size /\ byCursor' = byCursor
      /\ table \subseteq table' /\ table' \subseteq Rows
  BY DEF TypeOK, Next, vars, walk, Book, Begin, OpenWithPage, OpenWithUnreadableCursor,
         ReadRows, ReadTotal, AnswerPage, TurnPage, FollowCursor, Finished
<1> QED
  BY <1>1 DEF Matching

LEMMA LimitBounds ==
    ASSUME NEW asked \in AskedLimits
    PROVE  PageSize(asked) \in 1..MaxLimit
BY ListingAssumption DEF PageSize

LEMMA SizeAndSkip ==
    ASSUME TypeOK
    PROVE  size \in Nat \ {0} /\ Skipped \in Nat /\ Skipped + size = page * size
<1>1. size \in Nat \ {0} /\ page \in Nat \ {0}
  BY ListingAssumption DEF TypeOK
<1>2. \A m, n \in Nat : (m + 1) * n \in Nat /\ m * n \in Nat /\ m * n + n = (m + 1) * n
  OBVIOUS
<1>3. page - 1 \in Nat /\ (page - 1) + 1 = page
  BY <1>1
<1>4. (page - 1) * size \in Nat /\ (page - 1) * size + size = ((page - 1) + 1) * size
  BY <1>1, <1>2, <1>3, Zenon
<1> QED
  BY <1>1, <1>3, <1>4 DEF Skipped

\* The cursor in the answer to a numbered page.
LEMMA CursorOfPage ==
    ASSUME TypeOK, AnswerPage
    PROVE  \/ next' = NoCursor /\ (total <= Skipped + Cardinality(data) \/ data = {})
           \/ next' \in data /\ next' \in Rows /\ \A r \in data : r = next' \/ Before(r, next')
<1>1. data \in SUBSET Rows
  BY DEF TypeOK, Matching
<1>2. total \in Nat /\ Skipped \in Nat /\ Cardinality(data) \in Nat
  <2>1. IsFiniteSet(data)
    BY <1>1, FS_Subset, ListingAssumption
  <2> QED
    BY <2>1, FS_CardinalityType, SizeAndSkip DEF TypeOK
<1>3. CASE total > Skipped + Cardinality(data) /\ data # {}
  <2>1. next' = EncodeCursor(LastRow(data))
    BY <1>3 DEF AnswerPage, NextCursor
  <2> QED
    BY <1>1, <1>3, <2>1, LastOfRows, CursorOfRow
<1>4. CASE ~ (total > Skipped + Cardinality(data) /\ data # {})
  <2>1. next' = NoCursor
    BY <1>4 DEF AnswerPage, NextCursor
  <2> QED
    BY <1>2, <1>4, <2>1
<1> QED
  BY <1>3, <1>4

LEMMA TypeKept ==
    ASSUME WalkInv, [Next]_vars
    PROVE  TypeOK'
<1>0. TypeOK
  BY DEF WalkInv
<1>1. CASE UNCHANGED vars \/ Finished
  BY <1>0, <1>1 DEF TypeOK, vars, Finished, Matching
<1>2. ASSUME NEW r \in Rows, Book(r)
      PROVE  TypeOK'
  <2>1. Matching \subseteq Matching'
    BY <1>2 DEF Book, walk, Matching
  <2> QED
    BY <1>0, <1>2, <2>1 DEF TypeOK, Book, walk
<1>3. ASSUME NEW filter \in Filters, NEW asked \in AskedLimits,
             OpenWithPage(filter, asked) \/ OpenWithUnreadableCursor(filter, asked)
      PROVE  TypeOK'
  <2>1. filter \subseteq Rows /\ size' \in 1..MaxLimit /\ where' = filter
    BY <1>3, LimitBounds, ListingAssumption DEF OpenWithPage, OpenWithUnreadableCursor, Begin
  <2>2. before' = Matching' /\ pages = <<>> /\ data = {} /\ pages' = <<>> /\ data' = {}
    BY <1>3 DEF OpenWithPage, OpenWithUnreadableCursor, Begin, Matching, WalkInv, PagesCounted
  <2>3. Cardinality(data') <= size'
    BY <2>1, <2>2, FS_EmptySet, ListingAssumption
  <2>4. /\ pages' \in Seq(SUBSET Rows)
        /\ \A i \in DOMAIN pages' : pages'[i] \subseteq Matching' /\ Cardinality(pages'[i]) <= size'
    BY <2>2
  <2> QED
    BY <1>0, <1>3, <2>1, <2>2, <2>3, <2>4 DEF TypeOK, OpenWithPage, OpenWithUnreadableCursor, Begin
<1>4. CASE ReadRows
  <2>1. Matching \in SUBSET Rows
    BY <1>0 DEF TypeOK, Matching
  <2>2. data' \subseteq Matching /\ Cardinality(data') <= size
    BY <1>0, <1>4, <2>1, SliceIsBounded, SizeAndSkip DEF ReadRows
  <2> QED
    BY <1>0, <1>4, <2>2 DEF TypeOK, ReadRows, walk, Matching
<1>5. CASE ReadTotal
  <2>1. Cardinality(Matching) \in Nat
    <3>1. IsFiniteSet(Matching)
      BY <1>0, FS_Subset, ListingAssumption DEF TypeOK, Matching
    <3> QED
      BY <3>1, FS_CardinalityType
  <2> QED
    BY <1>0, <1>5, <2>1 DEF TypeOK, ReadTotal, walk, Matching
<1>6. CASE AnswerPage
  <2>1. data \in SUBSET Rows
    BY <1>0 DEF TypeOK, Matching
  <2>2. next' \in Rows \union {NoCursor, Unreadable}
    BY <1>0, <1>6, CursorOfPage
  <2>3. pages' = Append(pages, data) /\ Matching' = Matching /\ size' = size
    BY <1>6 DEF AnswerPage, walk, Matching
  <2>4. /\ pages' \in Seq(SUBSET Rows)
        /\ \A i \in DOMAIN pages' : pages'[i] \subseteq Matching' /\ Cardinality(pages'[i]) <= size'
    BY <1>0, <2>1, <2>3, PageAppended DEF TypeOK
  <2> QED
    BY <1>0, <1>6, <2>2, <2>3, <2>4 DEF TypeOK, AnswerPage, walk
<1>7. CASE TurnPage
  BY <1>0, <1>7 DEF TypeOK, TurnPage, walk, Matching
<1>8. CASE FollowCursor
  <2>1. PICK result \in SUBSET RowsAfter(Matching, DecodeCursor(next)) :
           /\ Cardinality(result) <= size
           /\ pages' = Append(pages, result)
           /\ next' = NoCursor \/ next' \in Rows
    <3>1. next # NoCursor
      BY <1>8 DEF FollowCursor
    <3> QED
      BY <1>0, <1>8, <3>1, AnswerToCursor
  <2>2. result \in SUBSET Rows /\ result \subseteq Matching
    BY <1>0 DEF RowsAfter, TypeOK, Matching
  <2>3. Matching' = Matching /\ size' = size
    BY <1>8 DEF FollowCursor, walk, Matching
  <2>4. /\ pages' \in Seq(SUBSET Rows)
        /\ \A i \in DOMAIN pages' : pages'[i] \subseteq Matching' /\ Cardinality(pages'[i]) <= size'
    BY <1>0, <2>1, <2>2, <2>3, PageAppended DEF TypeOK
  <2> QED
    BY <1>0, <1>8, <2>1, <2>3, <2>4 DEF TypeOK, FollowCursor, walk
<1> QED
  BY <1>1, <1>2, <1>3, <1>4, <1>5, <1>6, <1>7, <1>8 DEF Next

LEMMA CountKept ==
    ASSUME WalkInv, [Next]_vars
    PROVE  PagesCounted'
<1>0. TypeOK /\ PagesCounted /\ TypeOK'
  BY TypeKept DEF WalkInv
<1>1. CASE UNCHANGED vars \/ Finished \/ \E r \in Rows : Book(r)
  BY <1>0, <1>1 DEF PagesCounted, vars, Finished, Book, walk
<1>2. ASSUME NEW filter \in Filters, NEW asked \in AskedLimits, OpenWithPage(filter, asked)
      PROVE  PagesCounted'
  BY <1>0, <1>2 DEF PagesCounted, OpenWithPage, Begin
<1>3. ASSUME NEW filter \in Filters, NEW asked \in AskedLimits, OpenWithUnreadableCursor(filter, asked)
      PROVE  PagesCounted'
  BY <1>0, <1>3 DEF PagesCounted, OpenWithUnreadableCursor, Begin
<1>4. CASE ReadRows \/ ReadTotal
  BY <1>0, <1>4 DEF PagesCounted, ReadRows, ReadTotal, walk, TypeOK
<1>5. CASE AnswerPage
  <2>1. data \in SUBSET Rows
    BY <1>0 DEF TypeOK, Matching
  <2>2. Len(pages') = page
    BY <1>0, <1>5, <2>1, PageAppended DEF PagesCounted, AnswerPage, TypeOK
  <2>3. next' # Unreadable
    <3>1. next' \in Rows \union {NoCursor}
      BY <1>0, <1>5, CursorOfPage
    <3> QED
      BY <3>1, CursorOfRow, ListingAssumption
  <2> QED
    BY <1>0, <1>5, <2>2, <2>3 DEF PagesCounted, AnswerPage, walk
<1>6. CASE TurnPage
  BY <1>0, <1>6 DEF PagesCounted, TurnPage, walk, TypeOK
<1>7. CASE FollowCursor
  <2>1. next' = NoCursor \/ next' \in Rows
    <3>1. next # NoCursor
      BY <1>7 DEF FollowCursor
    <3> QED
      BY <1>0, <1>7, <3>1, AnswerToCursor
  <2>2. next' # Unreadable
    BY <2>1, CursorOfRow, ListingAssumption
  <2> QED
    BY <1>0, <1>7, <2>2 DEF PagesCounted, FollowCursor, walk
<1> QED
  BY <1>1, <1>2, <1>3, <1>4, <1>5, <1>6, <1>7 DEF Next

\* What a step adds to what is in hand.
LEMMA HandStep ==
    ASSUME WalkInv
    PROVE  /\ UNCHANGED vars \/ (\E r \in Rows : Book(r)) \/ ReadTotal \/ Finished =>
                  UNCHANGED <<pages, page, data, pc>> /\ RowsRead' = RowsRead /\ Received' = Received /\ InHand' = InHand
           /\ TurnPage => ~ RowsRead /\ ~ RowsRead' /\ pages' = pages /\ Received' = Received /\ InHand' = InHand
           /\ AnswerPage => /\ RowsRead /\ ~ RowsRead' /\ InHand' = InHand /\ Received' = InHand
                            /\ Len(pages') = Len(pages) + 1
           /\ ReadRows => /\ ~ RowsRead /\ RowsRead' /\ pages' = pages /\ Received' = Received
                          /\ InHand = Received /\ InHand' = Received \union data'
<1>0. TypeOK
  BY DEF WalkInv
<1>1. ASSUME UNCHANGED vars \/ (\E r \in Rows : Book(r)) \/ ReadTotal \/ Finished
      PROVE  UNCHANGED <<pages, page, data, pc>> /\ RowsRead' = RowsRead /\ Received' = Received /\ InHand' = InHand
  <2>1. UNCHANGED <<pages, page, data, pc>> /\ ("rows" \in pending' <=> "rows" \in pending)
    BY <1>1 DEF vars, Book, ReadTotal, Finished, walk
  <2> QED
    BY <2>1 DEF RowsRead, Received, InHand
<1>2. ASSUME TurnPage
      PROVE  ~ RowsRead /\ ~ RowsRead' /\ pages' = pages /\ Received' = Received /\ InHand' = InHand
  <2>1. ~ RowsRead /\ ~ RowsRead' /\ pages' = pages
    BY <1>2 DEF TurnPage, RowsRead
  <2> QED
    BY <2>1 DEF Received, InHand
<1>3. ASSUME AnswerPage
      PROVE  RowsRead /\ ~ RowsRead' /\ InHand' = InHand /\ Received' = InHand /\ Len(pages') = Len(pages) + 1
  <2>1. RowsRead /\ ~ RowsRead' /\ pages' = Append(pages, data)
    BY <1>3 DEF AnswerPage, RowsRead
  <2>2. data \in SUBSET Rows /\ pages \in Seq(SUBSET Rows)
    BY <1>0 DEF TypeOK, Matching
  <2>3. Received' = Received \union data /\ Len(pages') = Len(pages) + 1
    BY <2>1, <2>2, PageAppended
  <2> QED
    BY <2>1, <2>3 DEF InHand
<1>4. ASSUME ReadRows
      PROVE  /\ ~ RowsRead /\ RowsRead' /\ pages' = pages /\ Received' = Received
             /\ InHand = Received /\ InHand' = Received \union data'
  <2>1. ~ RowsRead /\ RowsRead' /\ pages' = pages
    BY <1>0, <1>4 DEF ReadRows, RowsRead, TypeOK
  <2> QED
    BY <2>1 DEF Received, InHand
<1> QED
  BY <1>1, <1>2, <1>3, <1>4

LEMMA Opened ==
    ASSUME WalkInv, NEW filter \in Filters, NEW asked \in AskedLimits,
           OpenWithPage(filter, asked) \/ OpenWithUnreadableCursor(filter, asked)
    PROVE  /\ before' = Matching' /\ pages' = <<>> /\ Received' = {} /\ InHand' = {} /\ ~ RowsRead'
           /\ OpenWithPage(filter, asked) => pending' # {}
           /\ OpenWithUnreadableCursor(filter, asked) => byCursor' /\ pc' = "turn" /\ next' = Unreadable
<1>1. pages' = <<>> /\ before' = Matching' /\ ~ RowsRead'
  BY DEF WalkInv, PagesCounted, OpenWithPage, OpenWithUnreadableCursor, Begin, Matching, RowsRead
<1>2. Received' = {} /\ InHand' = {}
  BY <1>1 DEF Received, InHand
<1> QED
  BY <1>1, <1>2 DEF OpenWithPage, OpenWithUnreadableCursor, Begin

LEMMA NothingTimes ==
    ASSUME NEW n \in Nat
    PROVE  (0 + 0) * n = 0
<1>1. 0 + 0 = 0 /\ 0 * n = 0
  OBVIOUS
<1> QED
  BY <1>1, Zenon

\* Bookings push rows back, never forward.
LEMMA PushedBackKept ==
    ASSUME WalkInv, [Next]_vars
    PROVE  PushedBack'
<1> DEFINE Read == Len(pages) + (IF RowsRead THEN 1 ELSE 0)
<1>0. TypeOK /\ PagesCounted /\ PushedBack /\ size \in Nat \ {0} /\ Len(pages) \in Nat
  BY SizeAndSkip DEF WalkInv, TypeOK
<1>1. \A m, n \in Nat : m * n \in Nat
  OBVIOUS
<1>2. ASSUME pc # "idle", Read' = Read, InHand' = InHand
      PROVE  PushedBack'
  <2> SUFFICES ASSUME ~ byCursor', NEW r \in before' \ InHand'
               PROVE  Rank(r, Matching') >= Read' * size'
    BY DEF PushedBack
  <2>1. /\ ~ byCursor /\ r \in before \ InHand /\ size' = size
        /\ Matching \in SUBSET Rows /\ Matching' \in SUBSET Rows /\ Matching \subseteq Matching'
    BY <1>0, <1>2, MatchingGrows DEF TypeOK, Matching
  <2>2. Rank(r, Matching) >= Read * size
    BY <1>0, <2>1 DEF PushedBack
  <2>3. r \in Rows
    BY <1>0, <2>1 DEF TypeOK
  <2>4. Rank(r, Matching) \in Nat /\ Rank(r, Matching') \in Nat /\ Rank(r, Matching) <= Rank(r, Matching')
    BY <2>1, <2>3, RankFacts
  <2>5. Read * size \in Nat
    BY <1>0, <1>1
  <2> HIDE DEF Read
  <2> QED
    BY <1>2, <2>1, <2>2, <2>4, <2>5
<1>3. CASE UNCHANGED vars \/ Finished \/ \E r \in Rows : Book(r)
  <2>1. UNCHANGED <<pages, pc>> /\ RowsRead' = RowsRead /\ InHand' = InHand
    BY <1>3, HandStep
  <2>2. CASE pc = "idle"
    <3>1. Len(pages') = 0 /\ ~ RowsRead'
      BY <1>0, <2>1, <2>2 DEF PagesCounted, RowsRead
    <3>2. before' \subseteq Rows /\ Matching' \in SUBSET Rows /\ size' \in Nat
      BY TypeKept, ListingAssumption DEF TypeOK, Matching
    <3>3. \A r \in before' : Rank(r, Matching') \in Nat
      BY <3>2, RankFacts
    <3>4. (0 + 0) * size' = 0
      BY <3>2, NothingTimes
    <3> QED
      BY <3>1, <3>3, <3>4 DEF PushedBack
  <2>3. CASE pc # "idle"
    BY <1>2, <2>1, <2>3
  <2> QED
    BY <2>2, <2>3
<1>4. ASSUME NEW filter \in Filters, NEW asked \in AskedLimits,
             OpenWithPage(filter, asked) \/ OpenWithUnreadableCursor(filter, asked)
      PROVE  PushedBack'
  <2>1. Len(pages') = 0 /\ ~ RowsRead'
    BY <1>4, Opened
  <2>2. before' \subseteq Rows /\ Matching' \in SUBSET Rows /\ size' \in Nat
    BY TypeKept, ListingAssumption DEF TypeOK, Matching
  <2>3. \A r \in before' : Rank(r, Matching') \in Nat
    BY <2>2, RankFacts
  <2>4. (0 + 0) * size' = 0
    BY <2>2, NothingTimes
  <2> QED
    BY <2>1, <2>3, <2>4 DEF PushedBack
<1>5. CASE ReadTotal \/ TurnPage
  <2>1. pc # "idle"
    BY <1>0, <1>5 DEF TypeOK, ReadTotal, TurnPage
  <2>2. Read' = Read /\ InHand' = InHand
    BY <1>5, HandStep
  <2> QED
    BY <1>2, <2>1, <2>2
<1>6. CASE AnswerPage
  <2>1. pc # "idle"
    BY <1>6 DEF AnswerPage
  <2>2. Read' = Read /\ InHand' = InHand
    BY <1>0, <1>6, HandStep
  <2> QED
    BY <1>2, <2>1, <2>2
<1>7. CASE ReadRows
  <2> SUFFICES ASSUME ~ byCursor', NEW r \in before' \ InHand'
               PROVE  Rank(r, Matching') >= Read' * size'
    BY DEF PushedBack
  <2>1. /\ ~ byCursor /\ r \in before /\ size' = size /\ Matching' = Matching /\ pc = "query"
        /\ data' = Slice(Matching, Skipped, size) /\ pages' = pages
    BY <1>0, <1>7 DEF ReadRows, walk, Matching, TypeOK
  <2>2. r \notin InHand /\ r \notin data' /\ ~ RowsRead /\ RowsRead'
    BY <1>7, HandStep
  <2>3. Len(pages) = page - 1 /\ page \in Nat
    BY <1>0, <2>1 DEF PagesCounted, TypeOK
  <2>4. Rank(r, Matching) >= (page - 1) * size
    BY <1>0, <2>1, <2>2, <2>3 DEF PushedBack
  <2>5. r \in Matching /\ Matching \in SUBSET Rows /\ Skipped \in Nat /\ Skipped + size = page * size
    BY <1>0, <2>1, SizeAndSkip DEF TypeOK, Matching
  <2>6. Rank(r, Matching) \in Nat
    BY <2>5, RankFacts
  <2>7. ~ (Rank(r, Matching) < Skipped + size)
    BY <2>1, <2>2, <2>4, <2>5 DEF Slice, Skipped
  <2>8. Rank(r, Matching) >= page * size
    BY <1>0, <2>5, <2>6, <2>7
  <2>9. Read' = page
    BY <2>1, <2>2, <2>3
  <2> QED
    BY <2>1, <2>8, <2>9
<1>8. CASE FollowCursor
  BY <1>8 DEF FollowCursor, PushedBack, walk
<1> QED
  BY <1>3, <1>4, <1>5, <1>6, <1>7, <1>8 DEF Next

LEMMA TotalKept ==
    ASSUME WalkInv, [Next]_vars
    PROVE  TotalShows'
<1>0. /\ TypeOK /\ TypeOK' /\ PagesCounted /\ PushedBack' /\ TotalShows /\ size \in Nat \ {0} /\ Len(pages) \in Nat
  BY TypeKept, PushedBackKept, SizeAndSkip DEF WalkInv, TypeOK
<1>1. CASE UNCHANGED vars \/ Finished \/ \E r \in Rows : Book(r)
  <2>1. InHand' = InHand
    BY <1>1, HandStep
  <2>2. CASE pc = "idle"
    BY <1>1, <2>2 DEF TotalShows, vars, Finished, Book, walk
  <2>3. CASE pc # "idle"
    <3>1. before' = before /\ UNCHANGED <<pending, undercounted, byCursor, total, page, size, data, pc>>
      BY <1>1 , <2>3 DEF vars, Finished, Book, walk
    <3> QED
      BY <1>0, <2>1, <3>1 DEF TotalShows
  <2> QED
    BY <2>2, <2>3
<1>2. ASSUME NEW filter \in Filters, NEW asked \in AskedLimits,
             OpenWithPage(filter, asked) \/ OpenWithUnreadableCursor(filter, asked)
      PROVE  TotalShows'
  BY <1>2, Opened DEF TotalShows
\* The second of the two statements has run, and a row of before is not in hand.
<1>3. ASSUME ReadRows \/ ReadTotal, pending' = {}, ~ undercounted', NEW r \in before' \ InHand'
      PROVE  /\ ~ byCursor' => total' > page' * size'
             /\ byCursor' => total' > Cardinality(data')
  <2>1. /\ RowsRead' /\ Matching' = Matching /\ pages' = pages /\ pc = "query"
        /\ UNCHANGED <<page, size, byCursor, before>>
    BY <1>0, <1>3, HandStep DEF RowsRead, ReadRows, ReadTotal, Matching, walk, TypeOK
  <2>2. Matching \in SUBSET Rows /\ r \in Matching /\ data' \in SUBSET Matching /\ r \notin data'
    BY <1>0, <1>3, <2>1 DEF TypeOK, Matching, InHand
  <2>3. /\ Rank(r, Matching) \in Nat /\ Cardinality(Matching) \in Nat /\ Rank(r, Matching) < Cardinality(Matching)
        /\ Cardinality(data') \in Nat /\ Cardinality(data') < Cardinality(Matching)
    BY <2>2, RankFacts
  <2>4. total' \in Nat /\ total' >= Cardinality(Matching)
    BY <1>0, <1>3, <2>3 DEF ReadRows, ReadTotal, TypeOK
  <2>5. ASSUME ~ byCursor'
        PROVE  Rank(r, Matching) >= page * size
    <3>1. Len(pages) + 1 = page
      BY <1>0, <2>1 DEF PagesCounted, TypeOK
    <3>2. Rank(r, Matching') >= (Len(pages') + 1) * size'
      BY <1>0, <1>3, <2>1, <2>5 DEF PushedBack
    <3> QED
      BY <2>1, <3>1, <3>2
  <2>6. page * size \in Nat
    BY <1>0, SizeAndSkip DEF TypeOK
  <2> QED
    BY <2>1, <2>3, <2>4, <2>5, <2>6
<1>4. CASE ReadRows \/ ReadTotal
  <2> SUFFICES ASSUME pending' = {}, ~ undercounted', ~ before' \subseteq InHand'
               PROVE  /\ ~ byCursor' => total' > page' * size'
                      /\ byCursor' => total' > Cardinality(data')
    BY DEF TotalShows
  <2> QED
    BY <1>3, <1>4
<1>5. CASE AnswerPage
  <2>1. InHand' = InHand /\ pc' = "turn" /\ pc = "query"
        /\ UNCHANGED <<pending, undercounted, byCursor, before, total, page, size>>
    BY <1>5, HandStep DEF AnswerPage, walk
  <2> QED
    BY <1>0, <2>1 DEF TotalShows
<1>6. CASE TurnPage
  BY <1>6 DEF TurnPage, TotalShows
<1>7. CASE FollowCursor
  BY <1>7 DEF FollowCursor, TotalShows, walk
<1> QED
  BY <1>1, <1>2, <1>4, <1>5, <1>6, <1>7 DEF Next

LEMMA HeadKept ==
    ASSUME WalkInv, [Next]_vars
    PROVE  FirstPageIsHead'
<1>0. TypeOK /\ FirstPageIsHead /\ PagesCounted
  BY DEF WalkInv
<1>1. CASE UNCHANGED vars \/ Finished \/ ReadTotal \/ \E r \in Rows : Book(r)
  <2>1. RowsRead' = RowsRead /\ UNCHANGED <<data, pc>>
    BY <1>1, HandStep
  <2>2. RowsRead' => before' = before /\ byCursor' = byCursor
    BY <1>1, <2>1 DEF vars, Finished, ReadTotal, Book, walk
  <2> QED
    BY <1>0, <2>1, <2>2 DEF FirstPageIsHead
<1>2. ASSUME NEW filter \in Filters, NEW asked \in AskedLimits,
             OpenWithPage(filter, asked) \/ OpenWithUnreadableCursor(filter, asked)
      PROVE  FirstPageIsHead'
  BY <1>2, Opened DEF FirstPageIsHead
<1>3. CASE ReadRows
  <2> SUFFICES ASSUME byCursor'
               PROVE  /\ \A r \in before', q \in data' : Before(r, q) => r \in data'
                      /\ before' # {} => data' # {}
    BY DEF FirstPageIsHead
  <2>1. before' = before /\ byCursor /\ data' = Slice(Matching, Skipped, size)
    BY <1>3 DEF ReadRows, walk
  <2>2. Skipped = 0 /\ size \in Nat \ {0}
    <3>1. page = 1 /\ size \in Nat \ {0}
      BY <1>0, <2>1, SizeAndSkip DEF PagesCounted
    <3>2. Skipped = 0 * size
      BY <3>1 DEF Skipped
    <3> QED
      BY <3>1, <3>2
  <2>3. Matching \in SUBSET Rows /\ before \subseteq Matching
    BY <1>0 DEF TypeOK, Matching
  <2>4. \A r \in data', q \in Matching : Before(q, r) => q \in data'
    BY <2>1, <2>2, <2>3, HeadOfRows
  <2>5. Matching # {} => data' # {}
    BY <2>1, <2>2, <2>3, HeadOfRows
  <2> QED
    BY <2>1, <2>3, <2>4, <2>5
<1>4. CASE AnswerPage \/ TurnPage
  BY <1>4, HandStep DEF FirstPageIsHead
<1>5. CASE FollowCursor
  BY <1>5 DEF FollowCursor, FirstPageIsHead, RowsRead
<1> QED
  BY <1>1, <1>2, <1>3, <1>4, <1>5 DEF Next

LEMMA CursorKept ==
    ASSUME WalkInv, [Next]_vars
    PROVE  CursorStands'
<1>0. TypeOK /\ FirstPageIsHead /\ PagesCounted /\ CursorStands /\ TotalShows
  BY DEF WalkInv
<1>1. CASE UNCHANGED vars \/ Finished \/ ReadTotal \/ \E r \in Rows : Book(r)
  <2>1. Received' = Received /\ pc' = pc
    BY <1>1, HandStep
  <2>2. pc = "turn" => UNCHANGED <<before, byCursor, next, undercounted>>
    BY <1>0, <1>1 DEF vars, Finished, ReadTotal, Book, walk, TypeOK
  <2> QED
    BY <1>0, <2>1, <2>2 DEF CursorStands
<1>2. ASSUME NEW filter \in Filters, NEW asked \in AskedLimits,
             OpenWithPage(filter, asked) \/ OpenWithUnreadableCursor(filter, asked)
      PROVE  CursorStands'
  <2>1. CASE OpenWithPage(filter, asked)
    BY <2>1 DEF OpenWithPage, CursorStands
  <2>2. CASE OpenWithUnreadableCursor(filter, asked)
    <3>1. next' = Unreadable
      BY <2>2, Opened
    <3> QED
      BY <3>1, CursorOfRow, ListingAssumption DEF CursorStands
  <2> QED
    BY <1>2, <2>1, <2>2
<1>3. CASE ReadRows \/ TurnPage
  BY <1>0, <1>3 DEF ReadRows, TurnPage, CursorStands, TypeOK
<1>4. CASE AnswerPage
  <2> SUFFICES ASSUME byCursor'
               PROVE  /\ next' \in Rows => /\ \A r \in Received' : r = next' \/ Before(r, next')
                                           /\ \A r \in before' \ Received' : Before(next', r)
                      /\ next' = NoCursor /\ ~ undercounted' => before' \subseteq Received'
    BY DEF CursorStands
  <2>1. byCursor /\ before' = before /\ undercounted' = undercounted /\ pc = "query" /\ pending = {}
    BY <1>4 DEF AnswerPage, walk
  <2>2. RowsRead /\ Received' = InHand
    BY <1>4, HandStep
  <2>3. page = 1 /\ Skipped = 0
    <3>1. page = 1 /\ size \in Nat
      BY <1>0, <2>1, SizeAndSkip DEF PagesCounted
    <3>2. Skipped = 0 * size
      BY <3>1 DEF Skipped
    <3> QED
      BY <3>1, <3>2
  <2>4. Received = {} /\ InHand = data
    <3>1. DOMAIN pages = {}
      BY <1>0, <2>1, <2>3 DEF PagesCounted, TypeOK
    <3> QED
      BY <2>2, <3>1 DEF Received, InHand
  <2>5. data \in SUBSET Rows /\ before \in SUBSET Rows
    BY <1>0 DEF TypeOK, Matching
  <2>6. ASSUME next' \in Rows
        PROVE  /\ \A r \in data : r = next' \/ Before(r, next')
               /\ \A r \in before \ data : Before(next', r)
    <3>1. next' \in data /\ \A r \in data : r = next' \/ Before(r, next')
      BY <1>0, <1>4, <2>6, CursorOfPage, CursorOfRow
    <3>2. \A r \in before \ data : ~ Before(r, next')
      BY <1>0, <2>1, <2>2, <3>1 DEF FirstPageIsHead
    <3> QED
      BY <2>5, <3>1, <3>2, BeforeIsAnOrder
  <2>7. ASSUME next' = NoCursor, ~ undercounted, ~ before \subseteq data
        PROVE  FALSE
    <3>1. data # {}
      BY <1>0, <2>1, <2>2, <2>7 DEF FirstPageIsHead
    <3>2. total <= 0 + Cardinality(data)
      BY <1>0, <1>4, <2>3, <2>5, <2>7, <3>1, CursorOfPage, CursorOfRow
    <3>3. total > Cardinality(data)
      BY <1>0, <2>1, <2>4, <2>7 DEF TotalShows
    <3>4. total \in Nat /\ Cardinality(data) \in Nat
      BY <1>0, <2>5, FS_Subset, FS_CardinalityType, ListingAssumption DEF TypeOK
    <3> QED
      BY <3>2, <3>3, <3>4
  <2> QED
    BY <2>1, <2>2, <2>4, <2>6, <2>7
<1>5. CASE FollowCursor
  <2>0. pc = "turn" /\ byCursor /\ next # NoCursor /\ before' = before /\ Matching \in SUBSET Rows
    BY <1>0, <1>5 DEF FollowCursor, walk, TypeOK, Matching
  <2> DEFINE S == RowsAfter(Matching, DecodeCursor(next))
  <2>1. PICK result \in SUBSET S :
           /\ pages' = Append(pages, result)
           /\ \/ result = S /\ next' = NoCursor
              \/ /\ next' \in result /\ next' \in Rows
                 /\ \A r \in result : r = next' \/ Before(r, next')
                 /\ \A r \in S \ result : Before(next', r)
    BY <1>0, <1>5, <2>0, AnswerToCursor
  <2>2. S \in SUBSET Rows /\ result \in SUBSET Rows
    BY <2>0 DEF RowsAfter
  <2>3. Received' = Received \union result
    BY <1>0, <2>1, <2>2, PageAppended DEF TypeOK
  \* Nothing received comes after the old cursor, nor does anything old come before it.
  <2>4. /\ \A r \in Received, q \in S : Before(r, q)
        /\ before \subseteq Received \union S
    <3>1. CASE next \in Rows
      <4>1. S = {r \in Matching : Before(next, r)}
        BY <3>1, CursorOfRow DEF RowsAfter
      <4>2. \A r \in Received : r = next \/ Before(r, next)
        BY <1>0, <2>0, <3>1 DEF CursorStands
      <4>3. Received \subseteq Rows
        BY <1>0 DEF TypeOK, Received
      <4>4. \A r \in before \ Received : Before(next, r)
        BY <1>0, <2>0, <3>1 DEF CursorStands
      <4>5. before \subseteq Matching
        BY <1>0 DEF TypeOK
      <4> QED
        BY <2>2, <3>1, <4>1, <4>2, <4>3, <4>4, <4>5, BeforeIsAnOrder
    <3>2. CASE next = Unreadable
      <4>1. S = Matching
        BY <3>2 DEF RowsAfter, DecodeCursor
      <4>2. Received = {}
        BY <1>0, <2>0, <3>2 DEF PagesCounted, Received
      <4> QED
        BY <1>0, <4>1, <4>2 DEF TypeOK
    <3> QED
      BY <1>0, <2>0, <3>1, <3>2 DEF TypeOK
  <2> HIDE DEF S
  <2>5. CASE result = S /\ next' = NoCursor
    BY <2>0, <2>3, <2>4, <2>5, CursorOfRow DEF CursorStands
  <2>6. CASE /\ next' \in result /\ next' \in Rows
             /\ \A r \in result : r = next' \/ Before(r, next')
             /\ \A r \in S \ result : Before(next', r)
    <3>1. \A r \in Received' : r = next' \/ Before(r, next')
      BY <2>1, <2>3, <2>4, <2>6
    <3>2. \A r \in before' \ Received' : Before(next', r)
      BY <2>0, <2>3, <2>4, <2>6
    <3> QED
      BY <2>6, <3>1, <3>2, CursorOfRow DEF CursorStands
  <2> QED
    BY <2>1, <2>5, <2>6
<1> QED
  BY <1>1, <1>2, <1>3, <1>4, <1>5 DEF Next

LEMMA SlicesKept ==
    ASSUME WalkInv, [Next]_vars
    PROVE  PagesAreSlices'
<1>0. TypeOK /\ PagesCounted /\ PagesAreSlices
  BY DEF WalkInv
<1>1. ASSUME pc # "idle", ~ byCursor', Matching' = before'
      PROVE  /\ ~ byCursor /\ Matching = before /\ before' = before /\ size' = size
             /\ \A i \in DOMAIN pages : pages[i] = Slice(before, (i - 1) * size, size)
             /\ RowsRead => data = Slice(before, (page - 1) * size, size)
  <2>1. ~ byCursor /\ before' = before /\ size' = size /\ Matching = before
    BY <1>0, <1>1, MatchingGrows DEF TypeOK
  <2> QED
    BY <1>0, <2>1 DEF PagesAreSlices
<1>2. CASE pc = "idle"
  <2>1. pages' = <<>> /\ ~ RowsRead'
    BY <1>0, <1>2 DEF PagesCounted, Next, vars, Book, OpenWithPage, OpenWithUnreadableCursor, Begin, walk,
          ReadRows, ReadTotal, AnswerPage, TurnPage, FollowCursor, Finished, RowsRead, TypeOK
  <2> QED
    BY <2>1 DEF PagesAreSlices
<1>3. CASE pc # "idle" /\ (UNCHANGED vars \/ Finished \/ ReadTotal \/ TurnPage \/ \E r \in Rows : Book(r))
  <2>1. pages' = pages /\ (RowsRead' => RowsRead /\ data' = data /\ page' = page)
    BY <1>3, HandStep
  <2> QED
    BY <1>1, <1>3, <2>1 DEF PagesAreSlices
<1>4. CASE ReadRows
  <2>1. pages' = pages /\ page' = page /\ Matching' = Matching /\ pc # "idle"
        /\ data' = Slice(Matching, (page - 1) * size, size)
    BY <1>0, <1>4 DEF ReadRows, walk, Matching, Skipped, TypeOK
  <2> QED
    BY <1>1, <2>1 DEF PagesAreSlices
<1>5. CASE AnswerPage
  <2>1. pages' = Append(pages, data) /\ pc = "query" /\ RowsRead /\ ~ RowsRead'
    BY <1>5, HandStep DEF AnswerPage
  <2>2. Len(pages) + 1 = page /\ page \in Nat
    BY <1>0, <2>1 DEF PagesCounted, TypeOK
  <2>3. data \in SUBSET Rows
    BY <1>0 DEF TypeOK, Matching
  <2>4. /\ \A i \in DOMAIN pages : pages'[i] = pages[i]
        /\ pages'[page] = data
        /\ \A i \in DOMAIN pages' : i \in DOMAIN pages \/ i = page
    <3>1. /\ DOMAIN pages = 1..Len(pages) /\ DOMAIN pages' = 1..(Len(pages) + 1)
          /\ \A i \in DOMAIN pages : pages'[i] = pages[i]
          /\ pages'[Len(pages) + 1] = data
      BY <1>0, <2>1, <2>3, PageAppended DEF TypeOK
    <3>2. Len(pages) \in Nat
      BY <1>0 DEF TypeOK
    <3> QED
      BY <2>2, <3>1, <3>2
  <2> SUFFICES ASSUME ~ byCursor', Matching' = before', NEW i \in DOMAIN pages'
               PROVE  pages'[i] = Slice(before', (i - 1) * size', size')
    BY <2>1 DEF PagesAreSlices
  <2> QED
    BY <1>1, <2>1, <2>4
<1>6. CASE FollowCursor
  BY <1>6 DEF FollowCursor, PagesAreSlices, walk
<1>7. CASE \E filter \in Filters, asked \in AskedLimits :
              OpenWithPage(filter, asked) \/ OpenWithUnreadableCursor(filter, asked)
  BY <1>2, <1>7 DEF OpenWithPage, OpenWithUnreadableCursor, Begin
<1> QED
  BY <1>2, <1>3, <1>4, <1>5, <1>6, <1>7 DEF Next

LEMMA InOrderKept ==
    ASSUME WalkInv, [Next]_vars
    PROVE  InOrder'
<1>0. TypeOK /\ TypeOK' /\ PagesCounted /\ CursorStands /\ InOrder
  BY TypeKept DEF WalkInv
<1>1. CASE ~ byCursor'
  <2> SUFFICES ASSUME Matching' = before', NEW i \in DOMAIN pages', NEW j \in DOMAIN pages', i < j,
                      NEW q \in pages'[i], NEW r \in pages'[j]
               PROVE  Before(q, r)
    BY <1>1 DEF InOrder
  <2>1. pages'[i] = Slice(before', (i - 1) * size', size') /\ pages'[j] = Slice(before', (j - 1) * size', size')
    BY <1>1, SlicesKept DEF PagesAreSlices
  <2>2. i \in Nat \ {0} /\ j \in Nat \ {0} /\ size' \in Nat
    BY <1>0, ListingAssumption DEF TypeOK
  <2>3. q \in before' /\ r \in before' /\ before' \in SUBSET Rows
    BY <1>0, <2>1 DEF TypeOK, Matching, Slice
  <2>4. Rank(q, before') \in Nat /\ Rank(r, before') \in Nat
    BY <2>3, RankFacts
  <2>5. Rank(q, before') < (i - 1) * size' + size' /\ (j - 1) * size' <= Rank(r, before')
    BY <2>1 DEF Slice
  <2>6. \A m, n, s \in Nat : m < n => m * s + s <= n * s
    <3> SUFFICES ASSUME NEW m \in Nat, NEW n \in Nat, NEW s \in Nat, m < n
                 PROVE  m * s + s <= n * s
      OBVIOUS
    <3>1. PICK d \in Nat : n = m + 1 + d
      BY n - m - 1 \in Nat
    <3>2. (m + 1 + d) * s = m * s + s + d * s /\ d * s \in Nat /\ m * s \in Nat
      OBVIOUS
    <3> QED
      BY <3>1, <3>2
  <2>7. (i - 1) * size' + size' <= (j - 1) * size'
    <3>1. i - 1 \in Nat /\ j - 1 \in Nat /\ i - 1 < j - 1
      BY <2>2
    <3> QED
      BY <2>2, <2>6, <3>1
  <2>8. (i - 1) * size' \in Int /\ (j - 1) * size' \in Int
    BY <2>2
  <2>9. Rank(q, before') < Rank(r, before')
    BY <2>2, <2>4, <2>5, <2>7, <2>8
  <2> QED
    BY <2>3, <2>9, RankOrders
<1>2. CASE byCursor' /\ pages' = pages
  <2>1. CASE byCursor
    BY <1>0, <1>2, <2>1 DEF InOrder
  <2>2. CASE ~ byCursor
    <3>1. pc = "idle"
      BY <1>0, <1>2, <2>2, MatchingGrows
    <3> QED
      BY <1>0, <1>2, <3>1 DEF PagesCounted, InOrder
  <2> QED
    BY <2>1, <2>2
<1>3. CASE byCursor' /\ AnswerPage
  <2>1. Len(pages) = 0 /\ data \in SUBSET Rows /\ pages' = Append(pages, data)
    BY <1>0, <1>3 DEF PagesCounted, AnswerPage, walk, TypeOK, Matching
  <2>2. DOMAIN pages' = 1..1
    BY <1>0, <2>1, PageAppended DEF TypeOK
  <2> QED
    BY <2>2 DEF InOrder
<1>4. CASE FollowCursor
  <2>0. pc = "turn" /\ byCursor /\ next # NoCursor /\ Matching \in SUBSET Rows
    BY <1>0, <1>4 DEF FollowCursor, TypeOK, Matching
  <2> DEFINE S == RowsAfter(Matching, DecodeCursor(next))
  <2>1. PICK result \in SUBSET S : pages' = Append(pages, result)
    BY <1>0, <1>4, <2>0, AnswerToCursor
  <2>2. S \in SUBSET Rows /\ result \in SUBSET Rows
    BY <2>0 DEF RowsAfter
  <2>3. /\ DOMAIN pages = 1..Len(pages) /\ DOMAIN pages' = 1..(Len(pages) + 1) /\ Len(pages) \in Nat
        /\ \A i \in DOMAIN pages : pages'[i] = pages[i]
        /\ pages'[Len(pages) + 1] = result
    BY <1>0, <2>1, <2>2, PageAppended DEF TypeOK
  <2>4. \A q \in Received, r \in S : Before(q, r)
    <3>1. CASE next \in Rows
      <4>1. S = {r \in Matching : Before(next, r)}
        BY <3>1, CursorOfRow DEF RowsAfter
      <4>2. \A q \in Received : q = next \/ Before(q, next)
        BY <1>0, <2>0, <3>1 DEF CursorStands
      <4>3. Received \subseteq Rows
        BY <1>0 DEF TypeOK, Received
      <4> QED
        BY <2>2, <3>1, <4>1, <4>2, <4>3, BeforeIsAnOrder
    <3>2. CASE next = Unreadable
      BY <1>0, <2>0, <3>2 DEF PagesCounted, Received
    <3> QED
      BY <1>0, <2>0, <3>1, <3>2 DEF TypeOK
  <2> SUFFICES ASSUME NEW i \in DOMAIN pages', NEW j \in DOMAIN pages', i < j,
                      NEW q \in pages'[i], NEW r \in pages'[j]
               PROVE  Before(q, r)
    BY DEF InOrder
  <2>5. i \in DOMAIN pages
    BY <2>3
  <2>6. CASE j \in DOMAIN pages
    <3>1. q \in pages[i] /\ r \in pages[j]
      BY <2>3, <2>5, <2>6
    <3> QED
      BY <1>0, <2>0, <2>5, <2>6, <3>1 DEF InOrder
  <2>7. CASE j \notin DOMAIN pages
    <3>1. j = Len(pages) + 1
      BY <2>3, <2>7
    <3>2. r \in result /\ q \in Received
      BY <2>3, <2>5, <3>1 DEF Received
    <3> QED
      BY <2>4, <3>2
  <2> QED
    BY <2>6, <2>7
<1>5. CASE byCursor' /\ pages' # pages
  BY <1>3, <1>4, <1>5 DEF Next, vars, Book, OpenWithPage, OpenWithUnreadableCursor, ReadRows, ReadTotal,
        TurnPage, Finished
<1>6. byCursor' \in BOOLEAN
  BY <1>0 DEF TypeOK
<1> QED
  BY <1>1, <1>2, <1>5, <1>6

LEMMA WalkBegins == Init => WalkInv
<1> SUFFICES ASSUME Init PROVE WalkInv
  OBVIOUS
<1>1. /\ Matching = {} /\ pages = <<>> /\ DOMAIN pages = {} /\ data = {} /\ before = {} /\ ~ RowsRead
      /\ pc = "idle" /\ ~ byCursor /\ pending = {} /\ page = 1 /\ next = NoCursor
  BY DEF Init, Matching, RowsRead
<1>2. TypeOK
  <2>1. Cardinality(data) <= size /\ size \in 1..MaxLimit
    BY <1>1, FS_EmptySet, ListingAssumption DEF Init
  <2>2. pages \in Seq(SUBSET Rows) /\ table \subseteq Rows
    BY <1>1 DEF Init
  <2>3. before \subseteq Matching /\ data \subseteq Matching /\ where \subseteq Rows
    BY <1>1 DEF Init
  <2>4. /\ undercounted = FALSE /\ byCursor = FALSE /\ total = 0
        /\ \A i \in DOMAIN pages : pages[i] \subseteq Matching /\ Cardinality(pages[i]) <= size
    BY <1>1 DEF Init
  <2>5. page \in Nat \ {0} /\ total \in Nat /\ next \in Rows \union {NoCursor, Unreadable}
    BY <1>1, <2>4
  <2>6. pc \in {"idle", "query", "turn"} /\ pending \subseteq {"rows", "total"} /\ pending = {}
    BY <1>1
  <2> QED
    BY <2>1, <2>2, <2>3, <2>4, <2>5, <2>6 DEF TypeOK
<1> QED
  BY <1>1, <1>2 DEF WalkInv, PagesCounted, PushedBack, TotalShows, FirstPageIsHead, CursorStands,
        PagesAreSlices, InOrder

(***************************************************************************)
(* Theorems.                                                               *)
(***************************************************************************)

\* Where the rows of a walk are that have not come yet: behind the cursor, or pushed behind
\* the pages read so far and shown by the total.
THEOREM WalkInvariance == Spec => []WalkInv
<1>1. WalkInv /\ [Next]_vars => WalkInv'
  <2> SUFFICES ASSUME WalkInv, [Next]_vars PROVE WalkInv'
    OBVIOUS
  <2> QED
    BY TypeKept, CountKept, PushedBackKept, TotalKept, HeadKept, CursorKept, SlicesKept, InOrderKept DEF WalkInv
<1> QED
  BY WalkBegins, <1>1, PTL DEF Spec

\* Answers are typed, and no page of either kind is larger than its limit.
THEOREM PagesAreBounded == Spec => []TypeOK
<1>1. WalkInv => TypeOK
  BY DEF WalkInv
<1> QED
  BY WalkInvariance, <1>1, PTL

\* A walk by cursor goes forward only, whatever is booked meanwhile.
THEOREM WalksGoForward == Spec => []InOrder
<1>1. WalkInv => InOrder
  BY DEF WalkInv
<1> QED
  BY WalkInvariance, <1>1, PTL

\* A walk to the end delivers every appointment that was there when it began, unless its
\* last total is older than its last rows.
THEOREM WalksMissNothing == Spec => []MissesNothing
<1>1. WalkInv => MissesNothing
  <2> SUFFICES ASSUME WalkInv, AtEnd, ~ undercounted
               PROVE  before \subseteq Received
    BY DEF MissesNothing
  <2>1. pc = "turn" /\ pending = {} /\ page \in Nat /\ size \in Nat /\ total \in Nat /\ byCursor \in BOOLEAN
    BY ListingAssumption DEF AtEnd, WalkInv, TypeOK
  <2>2. CASE byCursor
    BY <2>1, <2>2 DEF AtEnd, WalkInv, CursorStands
  <2>3. CASE ~ byCursor
    <3>1. InHand = Received
      BY <2>1 DEF InHand, RowsRead
    <3>2. ~ (total > page * size)
      <4>1. page * size \in Nat /\ page * size >= total
        BY <2>1, <2>3 DEF AtEnd
      <4> QED
        BY <2>1, <4>1
    <3> QED
      BY <2>1, <2>3, <3>1, <3>2 DEF WalkInv, TotalShows
  <2> QED
    BY <2>1, <2>2, <2>3
<1> QED
  BY WalkInvariance, <1>1, PTL

=============================================================================
