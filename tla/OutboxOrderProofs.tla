---------------------------- MODULE OutboxOrderProofs ----------------------------
(***************************************************************************)
(* The order in which listeners see the events of an appointment, for any  *)
(* number of events, batches and failures, as long as no poll starts       *)
(* before the last one has ended.                                          *)
(***************************************************************************)
EXTENDS OutboxProofs

(***************************************************************************)
(* What was delivered.                                                     *)
(***************************************************************************)

\* An event that has been counted is one of those delivered.
LEMMA CountedIsDelivered ==
    ASSUME DeliveryInv, NEW e \in Events, Times(e) > 0
    PROVE  \E j \in 1..Len(delivered) : delivered[j] = e
<1> SUFFICES ASSUME \A j \in 1..Len(delivered) : delivered[j] # e
             PROVE  FALSE
  OBVIOUS
<1>1. DOMAIN delivered = 1..Len(delivered)
  BY DEF DeliveryInv, TypeOK
<1>2. {i \in DOMAIN delivered : delivered[i] = e} = {}
  BY <1>1
<1>3. Times(e) = 0
  BY <1>2, FS_EmptySet DEF Times
<1> QED
  BY <1>3

LEMMA StandingIsDelivered ==
    ASSUME DeliveryInv, NEW e \in Events, e \notin Malformed, Standing(e) \/ undone[e] > 0
    PROVE  \E j \in 1..Len(delivered) : delivered[j] = e
<1>1. undone[e] \in Nat /\ Times(e) = undone[e] + (IF Standing(e) THEN 1 ELSE 0)
  BY DEF DeliveryInv, TypeOK, RedeliveryNeedsRollback
<1>2. Times(e) > 0
  BY <1>1
<1> QED
  BY <1>2, CountedIsDelivered

LEMMA EventNumbers ==
    /\ Events \subseteq Nat /\ 0 \notin Events
    /\ \A f \in Events : 1..(f - 1) \subseteq Events /\ \A e \in 1..(f - 1) : e < f
BY OutboxAssumption DEF Events

LEMMA LastIndexIsMax ==
    ASSUME NEW n \in Nat, NEW S \in SUBSET (1..n)
    PROVE  Max(S \union {n + 1}) = n + 1
<1> DEFINE T == S \union {n + 1}
<1>1. n + 1 \in T /\ \A y \in T : n + 1 >= y
  OBVIOUS
<1>2. ASSUME NEW x \in T, \A y \in T : x >= y
      PROVE  x = n + 1
  <2>1. x \in 1..(n + 1) /\ x >= n + 1
    BY <1>2
  <2> QED
    BY <2>1
<1> HIDE DEF T
<1>3. Max(T) = n + 1
  BY <1>1, <1>2 DEF Max
<1> QED
  BY <1>3 DEF T

LEMMA MaxIsOne ==
    ASSUME NEW n \in Nat, NEW S \in SUBSET (1..n), S # {}
    PROVE  Max(S) \in S
<1> DEFINE Less == {ss \in Nat \X Nat : ss[1] < ss[2]}
           T == {n - i : i \in S}
<1>1. IsWellFoundedOn(Less, Nat)
  BY NatLessThanWellFounded, Zenon DEF OpToRel
<1>2. ASSUME NEW x \in Nat, NEW y \in Nat, x < y
      PROVE  <<x, y>> \in Less
  BY <1>2
<1>3. T \subseteq Nat /\ T # {}
  <2>1. \A i \in S : n - i \in Nat
    OBVIOUS
  <2>2. PICK i \in S : TRUE
    OBVIOUS
  <2>3. n - i \in T
    BY Zenon
  <2> QED
    BY <2>1, <2>3, Zenon
<1> HIDE DEF Less
<1>4. PICK m \in T : \A k \in T : <<k, m>> \notin Less
  BY <1>1, <1>3, WFMin
<1>5. PICK x \in S : m = n - x
  OBVIOUS
<1>6. ASSUME NEW y \in S
      PROVE  x >= y
  <2>1. n - y \in T
    BY Zenon
  <2>2. ~ (n - y < m)
    BY <1>2, <1>3, <1>4, <2>1, Zenon
  <2>3. x \in 1..n /\ y \in 1..n
    OBVIOUS
  <2> QED
    BY <1>5, <2>2, <2>3
<1> QED
  BY <1>6 DEF Max

\* An event delivered now is the latest about its appointment; the others have kept theirs.
LEMMA LatestOnceMore ==
    ASSUME delivered \in Seq(Events), NEW d \in Events, delivered' = Append(delivered, d), NEW e \in Events
    PROVE  IF Subject[e] = Subject[d] THEN LastAbout(Subject[e])' = d
           ELSE About(Subject[e]) # {} => LastAbout(Subject[e])' = LastAbout(Subject[e])
<1> DEFINE n == Len(delivered)
           S == About(Subject[e])
<1>1. n \in Nat /\ DOMAIN delivered = 1..n /\ DOMAIN delivered' = 1..(n + 1)
  OBVIOUS
<1>2. delivered'[n + 1] = d /\ \A i \in 1..n : delivered'[i] = delivered[i]
  OBVIOUS
<1>3. S \in SUBSET (1..n)
  BY <1>1 DEF About
<1>4. About(Subject[e])' = IF Subject[e] = Subject[d] THEN S \union {n + 1} ELSE S
  <2>1. \A i : i \in 1..(n + 1) <=> i \in 1..n \/ i = n + 1
    BY <1>1
  <2>2. n + 1 \notin 1..n
    BY <1>1
  <2> HIDE DEF n
  <2> QED
    BY <1>1, <1>2, <2>1, <2>2 DEF About
<1> HIDE DEF n, S
<1>5. CASE Subject[e] = Subject[d]
  BY <1>1, <1>2, <1>3, <1>4, <1>5, LastIndexIsMax DEF LastAbout
<1>6. CASE Subject[e] # Subject[d]
  <2>1. ASSUME S # {}
        PROVE  Max(S) \in 1..n
    BY <1>1, <1>3, <2>1, MaxIsOne
  <2> QED
    BY <1>2, <1>4, <1>6, <2>1 DEF S, LastAbout
<1> QED
  BY <1>5, <1>6

(***************************************************************************)
(* Polls that are not at work, and a table that keeps its order.           *)
(***************************************************************************)

\* While one poll is at work the others have nothing, and stay that way.
LEMMA OnlyOneMoves ==
    ASSUME DeliveryInv, Ordered, NEW w \in Polls, \A v \in Polls \ {w} : ~ Active(v),
           Poll(w) \/ RollBack(w) \/ TimeOut(w) \/ Stop(w)
    PROVE  /\ OnePollAtATime'
           /\ \A v \in Polls \ {w} : InLine(v)' /\ Dispatched(v) = {} /\ Dispatched(v)' = {}
<1>1. ASSUME NEW v \in Polls \ {w}
      PROVE  pc'[v] = pc[v] /\ cand'[v] = cand[v] /\ batch'[v] = batch[v]
  BY DEF DeliveryInv, TypeOK, Poll, Select, LockRow, StartBatch, Dispatch, Mark, Commit, DispatchLate,
      RollBack, TimeOut, LoseMarks, Stop, Release, Goto
<1>2. ASSUME NEW v \in Polls \ {w}
      PROVE  ~ Active(v)' /\ InLine(v)' /\ Dispatched(v) = {} /\ Dispatched(v)' = {}
  <2>1. ~ Active(v) /\ ~ Active(v)'
    BY <1>1 DEF Active
  <2>2. Taken(v) = {} /\ Dispatched(v)' = Dispatched(v)
    BY <2>1, OthersKept DEF Ordered, InLine
  <2>3. cand[v] = {} /\ batch[v] = {} /\ Dispatched(v) = {}
    BY <2>2 DEF Taken
  <2>4. Taken(v)' = {} /\ Holds(v)' = {} /\ cand'[v] = {} /\ batch'[v] = {} /\ Dispatched(v)' = {}
    BY <1>1, <2>2, <2>3 DEF Taken, Holds
  <2> QED
    BY <2>1, <2>3, <2>4 DEF InLine, Active
<1> QED
  BY <1>2 DEF OnePollAtATime

\* Nothing changes in the table and nothing is delivered.
LEMMA TableKept ==
    ASSUME DeliveryInv, Ordered, rows' = rows, delivered' = delivered,
           \A f \in Events \ Malformed : Standing(f)' => Standing(f)
    PROVE  TableInLine' /\ SeenInOrder'
<1>1. TableInLine /\ SeenInOrder
  BY DEF Ordered
<1>2. SeenInOrder'
  BY <1>1 DEF SeenInOrder
<1>3. \A f \in Events : LastAbout(Subject[f])' = LastAbout(Subject[f]) /\ Done(f)' = Done(f)
  BY DEF LastAbout, About, Done
<1>4. TableInLine'
  BY <1>1, <1>3 DEF TableInLine, EarlierOf
<1> QED
  BY <1>2, <1>4

\* The next event about an appointment is delivered, or one that has been before.
LEMMA DeliverNext ==
    ASSUME DeliveryInv, Ordered, NEW d \in Events, d \notin Malformed,
           rows' = rows, delivered' = Append(delivered, d),
           \A e \in EarlierOf(d) \ Malformed : Standing(e) \/ undone[e] > 0,
           \A f \in Events \ Malformed :
               Standing(f)' => f = d \/ (Standing(f) /\ (Subject[f] = Subject[d] => f < d))
    PROVE  TableInLine' /\ SeenInOrder'
<1> DEFINE n == Len(delivered)
<1>1. delivered \in Seq(Events)
  BY DEF DeliveryInv, TypeOK
<1>2. n \in Nat /\ DOMAIN delivered = 1..n /\ DOMAIN delivered' = 1..(n + 1)
  BY <1>1
<1>3. delivered'[n + 1] = d /\ \A i \in 1..n : delivered'[i] = delivered[i]
  BY <1>1
<1>4. SeenInOrder'
  <2> SUFFICES ASSUME NEW i \in 1..(n + 1), NEW e \in 1..(delivered'[i] - 1),
                      Subject[e] = Subject[delivered'[i]], e \notin Malformed
               PROVE  \E j \in 1..(i - 1) : delivered'[j] = e
    BY <1>2 DEF SeenInOrder
  <2>1. CASE i \in 1..n
    <3>1. PICK j \in 1..(i - 1) : delivered[j] = e
      BY <1>2, <1>3, <2>1 DEF Ordered, SeenInOrder
    <3>2. j \in 1..n
      BY <1>2, <2>1
    <3> QED
      BY <1>3, <3>1, <3>2
  <2>2. CASE i = n + 1
    <3>1. e \in 1..(d - 1) /\ Subject[e] = Subject[d]
      BY <1>3, <2>2
    <3>2. e \in Events /\ e < d
      BY <3>1, EventNumbers
    <3>3. e \in EarlierOf(d)
      BY <3>1, <3>2 DEF EarlierOf
    <3>4. PICK j \in 1..n : delivered[j] = e
      BY <3>2, <3>3, StandingIsDelivered
    <3>5. j \in 1..(i - 1)
      BY <1>2, <2>2
    <3> QED
      BY <1>3, <3>4, <3>5
  <2> QED
    BY <1>2, <2>1, <2>2
<1>5. TableInLine'
  <2>1. \A f \in Events : Done(f)' = Done(f)
    BY DEF Done
  <2>2. ASSUME NEW f \in Events, Standing(f)', f \notin Malformed
        PROVE  LastAbout(Subject[f])' >= f
    <3>0. d \in Nat /\ f \in Nat
      BY EventNumbers
    <3>1. CASE Subject[f] = Subject[d]
      <4>1. f <= d
        BY <2>2, <3>0, <3>1
      <4>2. LastAbout(Subject[f])' = d
        BY <1>1, <3>1, LatestOnceMore
      <4> QED
        BY <3>0, <4>1, <4>2
    <3>2. CASE Subject[f] # Subject[d]
      <4>1. Standing(f)
        BY <2>2, <3>2
      <4>2. PICK j \in 1..n : delivered[j] = f
        BY <2>2, <4>1, StandingIsDelivered
      <4>3. About(Subject[f]) # {}
        BY <1>2, <4>2 DEF About
      <4>4. LastAbout(Subject[f])' = LastAbout(Subject[f])
        BY <1>1, <3>2, <4>3, LatestOnceMore
      <4>5. LastAbout(Subject[f]) >= f
        BY <2>2, <4>1 DEF Ordered, TableInLine
      <4> QED
        BY <4>4, <4>5
    <3> QED
      BY <3>1, <3>2
  <2>3. TableInLine
    BY DEF Ordered
  <2> QED
    BY <2>1, <2>2, <2>3 DEF TableInLine, EarlierOf
<1> QED
  BY <1>4, <1>5

(***************************************************************************)
(* Every step keeps the line.                                              *)
(***************************************************************************)

LEMMA PublishOrdered ==
    ASSUME DeliveryInv, Ordered, NEW d \in Events, Publish(d)
    PROVE  Ordered'
<1>1. /\ rows[d] = "ABSENT" /\ rows'[d] = "PENDING" /\ \A e \in Events \ {d} : rows'[e] = rows[e]
      /\ UNCHANGED <<pc, cand, batch, marks, current, delivered, undone>>
  BY DEF Publish, DeliveryInv, TypeOK
<1>2. \A e \in Events : Done(e)' = Done(e)
  BY <1>1 DEF Done
<1>3. ASSUME NEW w \in Polls
      PROVE  /\ Active(w)' = Active(w) /\ Taken(w)' = Taken(w) /\ Holds(w)' = Holds(w)
             /\ Dispatched(w)' = Dispatched(w)
  BY <1>1 DEF Active, Taken, Holds, Dispatched, Marked
<1>4. OnePollAtATime'
  BY <1>3 DEF Ordered, OnePollAtATime
<1>5. ASSUME NEW w \in Polls
      PROVE  InLine(w)'
  <2>1. InLine(w) /\ cand[w] \subseteq Events
    BY DEF Ordered, DeliveryInv, TypeOK
  <2> QED
    BY <1>1, <1>2, <1>3, <2>1 DEF InLine, EarlierOf
<1>6. \A e \in Events : Standing(e)' = Standing(e)
  BY <1>1, <1>3 DEF Standing
<1>7. \A f \in Events : LastAbout(Subject[f])' = LastAbout(Subject[f])
  BY <1>1 DEF LastAbout, About
<1>8. \A e \in EarlierOf(d) : rows[e] # "ABSENT"
  <2>1. \A e \in Events : e < d => e \in 1..(d - 1)
    BY OutboxAssumption DEF Events
  <2> QED
    BY <2>1 DEF Publish, EarlierOf
<1>9. TableInLine'
  <2>1. TableInLine
    BY DEF Ordered
  <2> QED
    BY <1>1, <1>2, <1>6, <1>7, <1>8, <2>1 DEF TableInLine, EarlierOf
<1>10. SeenInOrder'
  BY <1>1 DEF Ordered, SeenInOrder
<1> QED
  BY <1>4, <1>5, <1>9, <1>10 DEF Ordered

\* At most one poll is at work; one that is has the others idle.
LEMMA Alone ==
    ASSUME Ordered, NEW w \in Polls, Active(w)
    PROVE  \A v \in Polls \ {w} : ~ Active(v) /\ Holds(v) = {}
BY DEF Ordered, OnePollAtATime, InLine, Taken, Holds

LEMMA SelectOrdered ==
    ASSUME DeliveryInv, Ordered, NEW w \in Polls, Select(w), ~ overlapped'
    PROVE  Ordered'
<1>1. \A v \in Polls \ {w} : ~ Active(v)
  BY DEF Select
<1>2. OnePollAtATime' /\ \A v \in Polls \ {w} : InLine(v)' /\ Dispatched(v) = {} /\ Dispatched(v)' = {}
  BY <1>1, OnlyOneMoves DEF Poll
<1>3. /\ pc[w] = "idle" /\ pc'[w] = "locking" /\ cand'[w] = Pending
      /\ UNCHANGED <<batch, marks, current, rows, delivered, undone>>
  BY DEF Select, Goto, DeliveryInv, TypeOK
<1>4. Taken(w) = {}
  BY <1>3 DEF Ordered, InLine, Active
<1>5. batch[w] = {} /\ Dispatched(w) = {} /\ Dispatched(w)' = {}
  BY <1>3, <1>4 DEF Taken, Dispatched, Marked
<1>6. Taken(w)' = Pending /\ Holds(w)' = {}
  BY <1>3, <1>5 DEF Taken, Holds
<1>7. InLine(w)'
  <2>1. \A f \in Pending : \A e \in EarlierOf(f) : e \in Pending \/ Done(e)
    BY DEF Ordered, TableInLine, EarlierOf, Pending, Done, DeliveryInv, TypeOK, RowStatuses
  <2>2. \A e : Done(e)' = Done(e)
    BY <1>3 DEF Done
  <2>3. \A c \in Pending : rows'[c] = "PENDING"
    BY <1>3 DEF Pending
  <2>4. Active(w)'
    BY <1>3 DEF Active
  <2> QED
    BY <1>3, <1>5, <1>6, <2>1, <2>2, <2>3, <2>4 DEF InLine
<1>8. TableInLine' /\ SeenInOrder'
  <2>1. \A f : Standing(f)' = Standing(f)
    BY <1>2, <1>3, <1>5 DEF Standing
  <2> QED
    BY <1>3, <2>1, TableKept
<1> QED
  BY <1>2, <1>7, <1>8 DEF Ordered

LEMMA LockRowOrdered ==
    ASSUME DeliveryInv, Ordered, NEW w \in Polls, LockRow(w)
    PROVE  Ordered'
<1>1. pc[w] = "locking" /\ Active(w)
  BY DEF LockRow, Active
<1>2. OnePollAtATime' /\ \A v \in Polls \ {w} : InLine(v)' /\ Dispatched(v) = {} /\ Dispatched(v)' = {}
  BY <1>1, Alone, OnlyOneMoves DEF Poll
<1>3. InLine(w)
  BY DEF Ordered
<1>4. PICK d \in Events : d = OldestFirst(cand[w]) /\ d \in cand[w] /\ \A c \in cand[w] : d <= c
  BY OldestFirstIsOne DEF LockRow, DeliveryInv, TypeOK
<1>5. Selectable(d, w)
  BY <1>1, <1>3, <1>4, Alone DEF InLine, Selectable, LockedByOther
<1>6. /\ cand'[w] = cand[w] \ {d} /\ batch'[w] = batch[w] \union {d}
      /\ UNCHANGED <<pc, marks, current, rows, delivered, undone>>
  BY <1>4, <1>5 DEF LockRow, table, DeliveryInv, TypeOK
<1>7. Dispatched(w) = {} /\ Dispatched(w)' = {}
  <2>1. Marked(w) = {} /\ current[w] = 0
    BY <1>1 DEF DeliveryInv, OneAfterTheOther
  <2> QED
    BY <1>6, <2>1 DEF Dispatched, Marked
<1>8. Taken(w)' = Taken(w) /\ Holds(w)' = Holds(w) \union {d}
  BY <1>4, <1>6, <1>7 DEF Taken, Holds
<1>9. \A c \in cand'[w] : d < c
  <2>1. cand[w] \subseteq Nat
    BY EventNumbers DEF DeliveryInv, TypeOK
  <2> QED
    BY <1>4, <1>6, <2>1
<1>10. InLine(w)'
  <2>1. \A e : Done(e)' = Done(e)
    BY <1>6 DEF Done
  <2> QED
    BY <1>1, <1>3, <1>6, <1>7, <1>8, <1>9, <2>1 DEF InLine, Active
<1>11. TableInLine' /\ SeenInOrder'
  <2>1. \A f : Standing(f)' = Standing(f)
    BY <1>2, <1>6, <1>7 DEF Standing
  <2> QED
    BY <1>6, <2>1, TableKept
<1> QED
  BY <1>2, <1>10, <1>11 DEF Ordered

LEMMA StartBatchOrdered ==
    ASSUME DeliveryInv, Ordered, NEW w \in Polls, StartBatch(w)
    PROVE  Ordered'
<1>1. pc[w] = "locking" /\ Active(w)
  BY DEF StartBatch, Active
<1>2. OnePollAtATime' /\ \A v \in Polls \ {w} : InLine(v)' /\ Dispatched(v) = {} /\ Dispatched(v)' = {}
  BY <1>1, Alone, OnlyOneMoves DEF Poll
<1>3. InLine(w)
  BY DEF Ordered
<1>4. /\ cand'[w] = {} /\ pc'[w] = "dispatching"
      /\ UNCHANGED <<batch, marks, current, rows, delivered, undone>>
  BY DEF StartBatch, Goto, table, DeliveryInv, TypeOK
<1>5. /\ Dispatched(w)' = Dispatched(w) /\ Holds(w)' = Holds(w) /\ Taken(w)' = Holds(w)
      /\ Taken(w) = cand[w] \union Holds(w)
  BY <1>4 DEF Taken, Holds, Dispatched, Marked
\* What was not locked comes after what was.
<1>6. \A f \in Holds(w) : \A e \in EarlierOf(f) : e \notin cand[w]
  <2>1. Holds(w) \subseteq Nat
    BY HeldAreEvents, EventNumbers
  <2> QED
    BY <1>3, <2>1, EventNumbers DEF InLine, EarlierOf
<1>7. InLine(w)'
  <2>1. \A e : Done(e)' = Done(e)
    BY <1>4 DEF Done
  <2>2. \A f \in Taken(w)' : \A e \in EarlierOf(f) : e \in Taken(w)' \/ Done(e)'
    BY <1>1, <1>3, <1>5, <1>6, <2>1 DEF InLine
  <2> QED
    BY <1>3, <1>4, <1>5, <2>2 DEF InLine, Active
<1>8. TableInLine' /\ SeenInOrder'
  <2>1. \A f : Standing(f)' = Standing(f)
    BY <1>2, <1>4, <1>5 DEF Standing
  <2> QED
    BY <1>4, <2>1, TableKept
<1> QED
  BY <1>2, <1>7, <1>8 DEF Ordered

LEMMA MarkOrdered ==
    ASSUME DeliveryInv, Ordered, NEW w \in Polls, Mark(w)
    PROVE  Ordered'
<1>1. pc[w] = "marking" /\ Active(w)
  BY DEF Mark, Active
<1>2. OnePollAtATime' /\ \A v \in Polls \ {w} : InLine(v)' /\ Dispatched(v) = {} /\ Dispatched(v)' = {}
  BY <1>1, Alone, OnlyOneMoves DEF Poll
<1> DEFINE d == current[w]
<1>3. /\ d \in Events /\ d # 0 /\ current'[w] = 0 /\ pc'[w] = "dispatching"
      /\ marks'[w] = [marks[w] EXCEPT ![d] = IF d \in Malformed THEN "FAILED" ELSE "DELIVERED"]
      /\ UNCHANGED <<cand, batch, rows, delivered, undone>>
  BY <1>1 DEF Mark, Goto, table, DeliveryInv, TypeOK, OneAfterTheOther
<1>4. Dispatched(w)' = Dispatched(w)
  <2>1. marks[w] \in [Events -> RowStatuses]
    BY DEF DeliveryInv, TypeOK
  <2>2. Marked(w)' = Marked(w) \union {d}
    BY <1>3, <2>1 DEF Marked
  <2> QED
    BY <1>3, <2>2 DEF Dispatched
<1>5. Taken(w)' = Taken(w) /\ Holds(w)' = Holds(w)
  BY <1>3, <1>4 DEF Taken, Holds
<1>6. InLine(w)'
  <2>1. \A e : Done(e)' = Done(e)
    BY <1>3 DEF Done
  <2>2. InLine(w)
    BY DEF Ordered
  <2> QED
    BY <1>1, <1>3, <1>4, <1>5, <2>1, <2>2 DEF InLine, Active
<1>7. TableInLine' /\ SeenInOrder'
  <2>1. \A f : Standing(f)' = Standing(f)
    BY <1>2, <1>3, <1>4 DEF Standing
  <2> QED
    BY <1>3, <2>1, TableKept
<1> QED
  BY <1>2, <1>6, <1>7 DEF Ordered

\* What a poll that ends leaves behind.
LEMMA ReleasedInLine ==
    ASSUME DeliveryInv, NEW w \in Polls, Release(w)
    PROVE  InLine(w)' /\ Dispatched(w)' = {}
<1>1. cand'[w] = {} /\ batch'[w] = {} /\ marks'[w] = Unmarked /\ current'[w] = 0 /\ pc'[w] = "idle"
  BY DEF Release, Goto, DeliveryInv, TypeOK
<1>2. Dispatched(w)' = {} /\ Taken(w)' = {} /\ Holds(w)' = {}
  BY <1>1 DEF Dispatched, Marked, Unmarked, Taken, Holds
<1> QED
  BY <1>1, <1>2 DEF InLine

LEMMA CommitOrdered ==
    ASSUME DeliveryInv, Ordered, NEW w \in Polls, Commit(w)
    PROVE  Ordered'
<1>1. pc[w] = "dispatching" /\ Active(w) /\ batch[w] = {} /\ current[w] = 0 /\ Release(w)
  BY DEF Commit, Active, DeliveryInv, OneAfterTheOther
<1>2. OnePollAtATime' /\ \A v \in Polls \ {w} : InLine(v)' /\ Dispatched(v) = {} /\ Dispatched(v)' = {}
  BY <1>1, Alone, OnlyOneMoves DEF Poll
<1>3. InLine(w)' /\ Dispatched(w)' = {}
  BY <1>1, ReleasedInLine
<1>4. Taken(w) = Marked(w) /\ Dispatched(w) = Marked(w)
  BY <1>1 DEF Ordered, InLine, Taken, Dispatched
<1>5. /\ \A e \in Events \ Marked(w) : rows'[e] = rows[e]
      /\ \A e \in Marked(w) : rows'[e] = IF e \in Malformed THEN "FAILED" ELSE "DELIVERED"
      /\ \A e \in Marked(w) : rows[e] = "PENDING"
      /\ delivered' = delivered /\ undone' = undone
  <2>1. \A e \in Marked(w) : e \in Events /\ marks[w][e] = IF e \in Malformed THEN "FAILED" ELSE "DELIVERED"
    BY DEF Marked, DeliveryInv, OneAfterTheOther
  <2>2. Marked(w) \subseteq Holds(w)
    BY DEF Holds, Dispatched
  <2> QED
    BY <2>1, <2>2 DEF Commit, DeliveryInv, HeldByOnePoll
<1>6. \A e \in Events : Done(e)' <=> Done(e) \/ e \in Marked(w)
  BY <1>5 DEF Done
<1>7. \A f \in Marked(w) : \A e \in EarlierOf(f) : e \in Marked(w) \/ Done(e)
  BY <1>1, <1>4 DEF Ordered, InLine
<1>8. \A f \in Events \ Malformed : Standing(f)' => Standing(f)
  BY <1>2, <1>3, <1>4, <1>5 DEF Standing
<1>9. TableInLine'
  <2>1. \A f \in Events : LastAbout(Subject[f])' = LastAbout(Subject[f])
    BY <1>5 DEF LastAbout, About
  <2>2. TableInLine
    BY DEF Ordered
  <2>3. \A f \in Events : \A e \in EarlierOf(f) : e \in Events /\ (Done(f)' => Done(e)')
    BY <1>6, <1>7, <2>2 DEF TableInLine, EarlierOf
  <2>4. \A e \in Events : rows'[e] = "ABSENT" <=> rows[e] = "ABSENT"
    BY <1>5
  <2>5. \A f \in Events : Done(f)' => rows'[f] = IF f \in Malformed THEN "FAILED" ELSE "DELIVERED"
    BY <1>5, <1>6, <2>2 DEF TableInLine
  <2> QED
    BY <1>8, <2>1, <2>2, <2>3, <2>4, <2>5 DEF TableInLine
<1>10. SeenInOrder'
  BY <1>5 DEF Ordered, SeenInOrder
<1> QED
  BY <1>2, <1>3, <1>9, <1>10 DEF Ordered

LEMMA RollBackOrdered ==
    ASSUME DeliveryInv, Ordered, NEW w \in Polls, RollBack(w)
    PROVE  Ordered'
<1>1. Active(w) /\ Release(w) /\ rows' = rows /\ delivered' = delivered
  BY DEF RollBack, LoseMarks
<1>2. OnePollAtATime' /\ \A v \in Polls \ {w} : InLine(v)' /\ Dispatched(v) = {} /\ Dispatched(v)' = {}
  BY <1>1, Alone, OnlyOneMoves
<1>3. InLine(w)' /\ Dispatched(w)' = {}
  BY <1>1, ReleasedInLine
<1>4. TableInLine' /\ SeenInOrder'
  <2>1. \A f : Standing(f)' => Standing(f)
    BY <1>1, <1>2, <1>3 DEF Standing
  <2> QED
    BY <1>1, <2>1, TableKept
<1> QED
  BY <1>2, <1>3, <1>4 DEF Ordered

LEMMA TimeOutOrdered ==
    ASSUME DeliveryInv, Ordered, NEW w \in Polls, TimeOut(w)
    PROVE  Ordered'
<1>1. pc[w] = "dispatching" /\ Active(w) /\ current[w] = 0
  BY DEF TimeOut, Active, DeliveryInv, OneAfterTheOther
<1>2. OnePollAtATime' /\ \A v \in Polls \ {w} : InLine(v)' /\ Dispatched(v) = {} /\ Dispatched(v)' = {}
  BY <1>1, Alone, OnlyOneMoves
<1>3. /\ cand'[w] = batch[w] /\ batch'[w] = {} /\ marks'[w] = Unmarked /\ current'[w] = 0
      /\ pc'[w] = "closed" /\ rows' = rows /\ delivered' = delivered
      /\ \A e \in Events : undone'[e] = IF e \in Dispatched(w) \ Malformed THEN undone[e] + 1 ELSE undone[e]
  BY <1>1 DEF TimeOut, LoseMarks, Goto, DeliveryInv, TypeOK
<1>4. Dispatched(w)' = {} /\ Holds(w)' = {} /\ Taken(w)' = batch[w]
  BY <1>3 DEF Dispatched, Marked, Unmarked, Holds, Taken
<1>5. InLine(w) /\ cand[w] = {} /\ Taken(w) = batch[w] \union Dispatched(w)
  BY <1>1 DEF Ordered, InLine, Taken
<1>6. \A f \in batch[w] : \A e \in EarlierOf(f) :
         e \in batch[w] \/ Done(e)' \/ e \in Malformed \/ undone'[e] > 0
  <2>1. \A e \in Events : undone[e] \in Nat
    BY DEF DeliveryInv, TypeOK
  <2>2. \A e \in Dispatched(w) \ Malformed : e \in Events => undone'[e] > 0
    BY <1>3, <2>1
  <2>3. \A e : Done(e)' = Done(e)
    BY <1>3 DEF Done
  <2> QED
    BY <1>1, <1>5, <2>2, <2>3 DEF InLine, EarlierOf
<1>7. InLine(w)'
  <2>1. \A c \in batch[w] : rows'[c] = "PENDING"
    BY <1>3 DEF DeliveryInv, HeldByOnePoll, Holds
  <2> QED
    BY <1>3, <1>4, <1>6, <2>1 DEF InLine, Active
<1>8. TableInLine' /\ SeenInOrder'
  <2>1. \A f : Standing(f)' => Standing(f)
    BY <1>2, <1>3, <1>4 DEF Standing
  <2> QED
    BY <1>3, <2>1, TableKept
<1> QED
  BY <1>2, <1>7, <1>8 DEF Ordered

LEMMA StopOrdered ==
    ASSUME DeliveryInv, Ordered, NEW w \in Polls, Stop(w)
    PROVE  Ordered'
<1>1. /\ pc[w] = "idle" /\ pc' = [pc EXCEPT ![w] = "stopped"]
      /\ UNCHANGED <<cand, batch, marks, current, rows, delivered, undone>>
  BY DEF Stop, Goto, table
<1>2. ASSUME NEW v \in Polls
      PROVE  /\ Active(v)' = Active(v) /\ Taken(v)' = Taken(v) /\ Holds(v)' = Holds(v)
             /\ Dispatched(v)' = Dispatched(v)
             /\ v # w => pc'[v] = pc[v]
  BY <1>1 DEF Active, Taken, Holds, Dispatched, Marked, DeliveryInv, TypeOK
<1>3. ASSUME NEW v \in Polls
      PROVE  InLine(v)'
  <2>1. \A e : Done(e)' = Done(e)
    BY <1>1 DEF Done
  <2>2. InLine(v)
    BY DEF Ordered
  <2>3. ~ Active(w)
    BY <1>1 DEF Active
  <2>4. CASE v = w
    <3>1. Taken(v)' = {} /\ ~ Active(v)'
      BY <1>2, <2>2, <2>3, <2>4 DEF InLine
    <3> QED
      BY <3>1 DEF InLine, Taken, Holds, Active
  <2>5. CASE v # w
    BY <1>1, <1>2, <2>1, <2>2, <2>5 DEF InLine
  <2> QED
    BY <2>4, <2>5
<1>4. OnePollAtATime'
  BY <1>2 DEF Ordered, OnePollAtATime
<1>5. TableInLine' /\ SeenInOrder'
  <2>1. \A f : Standing(f)' = Standing(f)
    BY <1>1, <1>2 DEF Standing
  <2> QED
    BY <1>1, <2>1, TableKept
<1> QED
  BY <1>3, <1>4, <1>5 DEF Ordered

\* A settled event stands behind one that is still PENDING only if it is about something else.
LEMMA SettledComesFirst ==
    ASSUME DeliveryInv, Ordered, NEW d \in Events, rows[d] = "PENDING",
           NEW f \in Events, Done(f), Subject[f] = Subject[d]
    PROVE  f < d
<1>1. d \in Nat /\ f \in Nat /\ f # d
  BY EventNumbers DEF Done
<1>2. ASSUME d < f
      PROVE  FALSE
  <2>1. d \in EarlierOf(f)
    BY <1>2 DEF EarlierOf
  <2>2. Done(d)
    BY <2>1 DEF Ordered, TableInLine
  <2> QED
    BY <2>2 DEF Done
<1> QED
  BY <1>1, <1>2

LEMMA DispatchOrdered ==
    ASSUME DeliveryInv, Ordered, NEW w \in Polls, Dispatch(w)
    PROVE  Ordered'
<1>1. pc[w] = "dispatching" /\ Active(w) /\ current[w] = 0
  BY DEF Dispatch, Active, DeliveryInv, OneAfterTheOther
<1>2. OnePollAtATime' /\ \A v \in Polls \ {w} : InLine(v)' /\ Dispatched(v) = {} /\ Dispatched(v)' = {}
  BY <1>1, Alone, OnlyOneMoves DEF Poll
<1>3. PICK d \in Events : d = OldestFirst(batch[w]) /\ d \in batch[w] /\ \A b \in batch[w] : d <= b
  BY OldestFirstIsOne DEF Dispatch, DeliveryInv, TypeOK
<1>4. /\ batch'[w] = batch[w] \ {d} /\ current'[w] = d /\ pc'[w] = "marking"
      /\ delivered' = IF d \in Malformed THEN delivered ELSE Append(delivered, d)
      /\ UNCHANGED <<rows, cand, marks, undone>>
  BY <1>3 DEF Dispatch, Goto, DeliveryInv, TypeOK
<1>5. InLine(w) /\ cand[w] = {} /\ batch[w] \subseteq Nat /\ d # 0
  BY <1>1, <1>3, EventNumbers DEF Ordered, InLine, DeliveryInv, TypeOK
<1>6. Dispatched(w)' = Dispatched(w) \union {d}
  BY <1>1, <1>4, <1>5 DEF Dispatched, Marked
<1>7. Taken(w)' = Taken(w) /\ Holds(w)' = Holds(w) /\ Taken(w) = batch[w] \union Dispatched(w)
  BY <1>3, <1>4, <1>5, <1>6 DEF Taken, Holds
<1>8. \A b \in batch'[w] : d < b
  BY <1>3, <1>4, <1>5
<1>9. InLine(w)'
  <2>1. \A e : Done(e)' = Done(e)
    BY <1>4 DEF Done
  <2> QED
    BY <1>1, <1>4, <1>5, <1>6, <1>7, <1>8, <2>1 DEF InLine, Active
<1>10. rows[d] = "PENDING"
  BY <1>3 DEF DeliveryInv, HeldByOnePoll, Holds
<1>11. \A e \in EarlierOf(d) \ Malformed : Standing(e) \/ undone[e] > 0
  <2> SUFFICES ASSUME NEW e \in EarlierOf(d) \ Malformed
               PROVE  Standing(e)
    OBVIOUS
  <2>1. e \in Events /\ e < d /\ e \in Nat
    BY EventNumbers DEF EarlierOf
  <2>2. e \notin batch[w]
    BY <1>3, <1>5, <2>1
  <2>3. e \in Dispatched(w) \/ Done(e)
    BY <1>1, <1>3, <1>5, <1>7, <2>2 DEF InLine
  <2>4. Done(e) => rows[e] = "DELIVERED"
    BY <2>1 DEF Ordered, TableInLine
  <2> QED
    BY <2>3, <2>4 DEF Standing
<1>12. ASSUME NEW f \in Events \ Malformed, Standing(f)', f # d
       PROVE  Standing(f) /\ (Subject[f] = Subject[d] => f < d)
  <2>1. rows[f] = "DELIVERED" \/ f \in Dispatched(w)
    BY <1>2, <1>4, <1>6, <1>12 DEF Standing
  <2>2. CASE rows[f] = "DELIVERED"
    BY <1>10, <2>2, SettledComesFirst DEF Standing, Done
  <2>3. CASE f \in Dispatched(w)
    BY <1>3, <1>5, <2>3 DEF Standing, InLine
  <2> QED
    BY <2>1, <2>2, <2>3
<1>13. TableInLine' /\ SeenInOrder'
  <2>1. CASE d \in Malformed
    <3>1. \A f \in Events \ Malformed : Standing(f)' => Standing(f)
      BY <1>12, <2>1
    <3> QED
      BY <1>4, <2>1, <3>1, TableKept
  <2>2. CASE d \notin Malformed
    <3>1. \A f \in Events \ Malformed :
             Standing(f)' => f = d \/ (Standing(f) /\ (Subject[f] = Subject[d] => f < d))
      BY <1>12
    <3>2. delivered' = Append(delivered, d) /\ rows' = rows
      BY <1>4, <2>2
    <3> QED
      BY <1>11, <2>2, <3>1, <3>2, DeliverNext
  <2> QED
    BY <2>1, <2>2
<1> QED
  BY <1>2, <1>9, <1>13 DEF Ordered

LEMMA DispatchLateOrdered ==
    ASSUME DeliveryInv, Ordered, NEW w \in Polls, DispatchLate(w)
    PROVE  Ordered'
<1>1. pc[w] = "closed" /\ Active(w) /\ Release(w) /\ rows' = rows
  BY DEF DispatchLate, Active
<1>2. OnePollAtATime' /\ \A v \in Polls \ {w} : InLine(v)' /\ Dispatched(v) = {} /\ Dispatched(v)' = {}
  BY <1>1, Alone, OnlyOneMoves DEF Poll
<1>3. InLine(w)' /\ Dispatched(w)' = {}
  BY <1>1, ReleasedInLine
<1>4. batch[w] = {} /\ Dispatched(w) = {} /\ cand[w] # {}
  BY <1>1 DEF DeliveryInv, OneAfterTheOther, Dispatched
<1>5. PICK d \in Events : d = OldestFirst(cand[w]) /\ d \in cand[w] /\ \A c \in cand[w] : d <= c
  BY <1>4, OldestFirstIsOne DEF DeliveryInv, TypeOK
<1>6. rows[d] = "PENDING" /\ Taken(w) = cand[w] /\ cand[w] \subseteq Nat
  BY <1>4, <1>5, EventNumbers DEF Ordered, InLine, Taken, DeliveryInv, TypeOK
<1>7. delivered' = IF d \in Malformed THEN delivered ELSE Append(delivered, d)
  BY <1>5 DEF DispatchLate
<1>8. \A f : Standing(f)' => Standing(f) /\ rows[f] = "DELIVERED"
  BY <1>1, <1>2, <1>3 DEF Standing
<1>9. \A e \in EarlierOf(d) \ Malformed : Standing(e) \/ undone[e] > 0
  <2> SUFFICES ASSUME NEW e \in EarlierOf(d) \ Malformed
               PROVE  Standing(e) \/ undone[e] > 0
    OBVIOUS
  <2>1. e \in Events /\ e < d /\ e \in Nat
    BY EventNumbers DEF EarlierOf
  <2>2. e \notin cand[w]
    BY <1>5, <1>6, <2>1
  <2>3. Done(e) \/ undone[e] > 0
    BY <1>1, <1>5, <1>6, <2>2 DEF Ordered, InLine
  <2>4. Done(e) => rows[e] = "DELIVERED"
    BY <2>1 DEF Ordered, TableInLine
  <2> QED
    BY <2>3, <2>4 DEF Standing
<1>10. TableInLine' /\ SeenInOrder'
  <2>1. CASE d \in Malformed
    BY <1>1, <1>7, <1>8, <2>1, TableKept
  <2>2. CASE d \notin Malformed
    <3>1. \A f \in Events \ Malformed :
             Standing(f)' => f = d \/ (Standing(f) /\ (Subject[f] = Subject[d] => f < d))
      BY <1>6, <1>8, SettledComesFirst DEF Done
    <3>2. delivered' = Append(delivered, d)
      BY <1>7, <2>2
    <3> QED
      BY <1>1, <1>6, <1>9, <2>2, <3>1, <3>2, DeliverNext
  <2> QED
    BY <2>1, <2>2
<1> QED
  BY <1>2, <1>3, <1>10 DEF Ordered

LEMMA LineStarts ==
    ASSUME Init
    PROVE  LineInv
<1>1. \A w \in Polls : pc[w] = "idle" /\ Taken(w) = {} /\ Holds(w) = {} /\ cand[w] = {} /\ batch[w] = {}
                       /\ Dispatched(w) = {}
  BY DEF Init, Taken, Holds, Dispatched, Marked, Unmarked
<1>2. OnePollAtATime /\ \A w \in Polls : InLine(w)
  BY <1>1 DEF OnePollAtATime, Active, InLine
<1>3. \A e \in Events : rows[e] = "ABSENT" /\ ~ Done(e) /\ ~ Standing(e)
  BY <1>1 DEF Init, Done, Standing
<1>4. TableInLine
  BY <1>3 DEF TableInLine
<1>5. SeenInOrder
  BY DEF Init, SeenInOrder
<1> QED
  BY <1>2, <1>4, <1>5 DEF LineInv, Ordered

\* What is published, taken, settled and seen of an appointment stays in one order.
THEOREM LineInvariance == Spec => []LineInv
<1>1. Init => LineInv
  BY LineStarts
<1>2. DeliveryInv /\ LineInv /\ [Next]_vars => LineInv'
  <2> SUFFICES ASSUME DeliveryInv, LineInv, [Next]_vars, ~ overlapped'
               PROVE  Ordered'
    BY DEF LineInv, Ordered
  <2>1. ~ overlapped
    BY DEF Next, vars, Publish, Poll, Select, LockRow, StartBatch, Dispatch, Mark, Commit, DispatchLate,
        RollBack, TimeOut, LoseMarks, Stop, Settled, table
  <2>2. Ordered
    BY <2>1 DEF LineInv, Ordered
  <2>3. CASE UNCHANGED vars
    BY <2>2, <2>3 DEF vars, Ordered, OnePollAtATime, Active, InLine, TableInLine, SeenInOrder, Taken, Holds,
        Dispatched, Marked, Done, Standing, LastAbout, About, EarlierOf
  <2>4. ASSUME NEW d \in Events, Publish(d)
        PROVE  Ordered'
    BY <2>2, <2>4, PublishOrdered
  <2>5. ASSUME NEW w \in Polls, Poll(w)
        PROVE  Ordered'
    BY <2>2, <2>5, SelectOrdered, LockRowOrdered, StartBatchOrdered, DispatchOrdered, MarkOrdered,
       CommitOrdered, DispatchLateOrdered DEF Poll
  <2>6. ASSUME NEW w \in Polls, RollBack(w) \/ TimeOut(w) \/ Stop(w)
        PROVE  Ordered'
    BY <2>2, <2>6, RollBackOrdered, TimeOutOrdered, StopOrdered
  <2> QED
    BY <2>3, <2>4, <2>5, <2>6 DEF Next, Settled
<1> QED
  BY <1>1, <1>2, DeliveryInvariance, PTL DEF Spec

\* As long as no poll starts before the last one has ended, listeners first see the events
\* of an appointment in the order in which they were published.
THEOREM EventsAreFirstSeenInOrder == Spec => []FirstSeenInOrder
<1>1. LineInv => FirstSeenInOrder
  BY DEF LineInv, Ordered, FirstSeenInOrder
<1> QED
  BY LineInvariance, <1>1, PTL

\* And what they saw last about an appointment is not older than any delivery settled.
THEOREM LastSeenIsTheLatest == Spec => []LastSeenIsLatest
<1>1. LineInv => LastSeenIsLatest
  <2> SUFFICES ASSUME LineInv, ~ overlapped, NEW e \in Events, rows[e] = "DELIVERED"
               PROVE  LastAbout(Subject[e]) >= e
    BY DEF LastSeenIsLatest
  <2>1. Done(e) /\ Standing(e) /\ TableInLine
    BY DEF LineInv, Ordered, Done, Standing
  <2>2. e \notin Malformed
    BY <2>1 DEF TableInLine
  <2> QED
    BY <2>1, <2>2 DEF TableInLine
<1> QED
  BY LineInvariance, <1>1, PTL

=============================================================================
