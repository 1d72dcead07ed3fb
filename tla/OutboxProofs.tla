------------------------------ MODULE OutboxProofs ------------------------------
(***************************************************************************)
(* Delivery of outbox events, for any number of events, polls, failures    *)
(* and any batch size: what is committed, what the polls hold and what the *)
(* listeners were given always agree.                                      *)
(***************************************************************************)
EXTENDS OutboxWorker, FiniteSetTheorems, WellFoundedInduction, TLAPS

\* The rows are tried in created_at order: the first of a nonempty set is one of it.
LEMMA OldestFirstIsOne ==
    ASSUME NEW S \in SUBSET Events, S # {}
    PROVE  OldestFirst(S) \in S /\ \A e \in S : OldestFirst(S) <= e
<1> DEFINE Less == {ss \in Nat \X Nat : ss[1] < ss[2]}
<1>1. IsWellFoundedOn(Less, Nat)
  BY NatLessThanWellFounded, Zenon DEF OpToRel
<1>2. ASSUME NEW x \in Nat, NEW y \in Nat, x < y
      PROVE  <<x, y>> \in Less
  BY <1>2
<1>3. S \subseteq Nat
  BY OutboxAssumption DEF Events
<1> HIDE DEF Less
<1>4. PICK x \in S : \A y \in S : <<y, x>> \notin Less
  BY <1>1, <1>3, WFMin
<1>5. ASSUME NEW y \in S
      PROVE  x <= y
  <2>1. x \in Nat /\ y \in Nat
    BY <1>3
  <2>2. ~ (y < x)
    BY <1>2, <1>4, <2>1, Zenon
  <2> QED
    BY <2>1, <2>2
<1> QED
  BY <1>5 DEF OldestFirst, Min

\* One more delivery counts for its event and for no other.
LEMMA DeliveredOnceMore ==
    ASSUME delivered \in Seq(Events), NEW d \in Events, delivered' = Append(delivered, d), NEW e \in Events
    PROVE  Times(e) \in Nat /\ Times(e)' = Times(e) + (IF e = d THEN 1 ELSE 0)
<1> DEFINE at == {i \in DOMAIN delivered : delivered[i] = e}
           n == Len(delivered) + 1
<1>1. n \in Nat /\ DOMAIN delivered = 1..(n - 1) /\ DOMAIN delivered' = 1..n
  OBVIOUS
<1>2. IsFiniteSet(at)
  <2>1. IsFiniteSet(DOMAIN delivered)
    BY <1>1, FS_Interval
  <2> QED
    BY <2>1, FS_Subset
<1>3. Cardinality(at) \in Nat
  BY <1>2, FS_CardinalityType
<1>4. {i \in DOMAIN delivered' : delivered'[i] = e} = IF e = d THEN at \union {n} ELSE at
  <2>1. \A i \in 1..(n - 1) : delivered'[i] = delivered[i]
    BY <1>1
  <2>2. delivered'[n] = d
    BY <1>1
  <2>3. \A i : i \in 1..n <=> i \in 1..(n - 1) \/ i = n
    BY <1>1
  <2> HIDE DEF n
  <2> QED
    BY <1>1, <2>1, <2>2, <2>3, Zenon
<1>5. n \notin at
  BY <1>1
<1>6. Cardinality(at \union {n}) = Cardinality(at) + 1
  BY <1>2, <1>5, FS_AddElement
<1> DEFINE after == {i \in DOMAIN delivered' : delivered'[i] = e}
<1>7. Times(e) = Cardinality(at) /\ Times(e)' = Cardinality(after)
  BY DEF Times
<1> HIDE DEF at, n, after
<1>8. CASE e = d
  BY <1>3, <1>4, <1>6, <1>7, <1>8 DEF after
<1>9. CASE e # d
  <2>1. Times(e)' = Times(e)
    BY <1>4, <1>7, <1>9, Zenon DEF after
  <2> QED
    BY <1>3, <1>7, <1>9, <2>1
<1> QED
  BY <1>8, <1>9

LEMMA TimesType ==
    ASSUME delivered \in Seq(Events), NEW e \in Events
    PROVE  Times(e) \in Nat
<1>1. IsFiniteSet(1..Len(delivered))
  BY FS_Interval
<1>2. IsFiniteSet({i \in DOMAIN delivered : delivered[i] = e})
  BY <1>1, FS_Subset
<1> QED
  BY <1>2, FS_CardinalityType DEF Times

LEMMA HeldAreEvents ==
    ASSUME DeliveryInv, NEW w \in Polls
    PROVE  Holds(w) \subseteq Events
BY DEF DeliveryInv, TypeOK, Holds, Dispatched, Marked

\* A poll is left alone by what the others do.
LEMMA OtherPollKept ==
    ASSUME NEW v \in Polls, batch'[v] = batch[v], marks'[v] = marks[v], current'[v] = current[v]
    PROVE  Marked(v)' = Marked(v) /\ Holds(v)' = Holds(v) /\ Dispatched(v)' = Dispatched(v)
BY DEF Holds, Dispatched, Marked

LEMMA AppendKeepsType ==
    ASSUME NEW s \in Seq(Events), NEW e \in Events
    PROVE  Append(s, e) \in Seq(Events)
OBVIOUS

LEMMA TypeKept ==
    ASSUME DeliveryInv, [Next]_vars
    PROVE  TypeOK'
<1> USE DEF DeliveryInv, TypeOK
<1>1. CASE UNCHANGED vars
  BY <1>1 DEF vars
<1>2. ASSUME NEW e \in Events, Publish(e)
      PROVE  TypeOK'
  BY <1>2 DEF Publish, RowStatuses
<1>3. ASSUME NEW w \in Polls, Select(w)
      PROVE  TypeOK'
  BY <1>3 DEF Select, Goto, Pending
<1>4. ASSUME NEW w \in Polls, LockRow(w)
      PROVE  TypeOK'
  <2> DEFINE e == OldestFirst(cand[w])
  <2>1. e \in Events
    BY <1>4, OldestFirstIsOne DEF LockRow
  <2> HIDE DEF e
  <2>2. cand' = [cand EXCEPT ![w] = cand[w] \ {e}]
    BY <1>4 DEF LockRow, e
  <2>3. batch' = batch \/ batch' = [batch EXCEPT ![w] = batch[w] \union {e}]
    BY <1>4 DEF LockRow, e
  <2>4. cand[w] \ {e} \in SUBSET Events /\ batch[w] \union {e} \in SUBSET Events
    BY <2>1
  <2>5. cand' \in [Polls -> SUBSET Events] /\ batch' \in [Polls -> SUBSET Events]
    BY <2>2, <2>3, <2>4
  <2> QED
    BY <1>4, <2>5 DEF LockRow, table
<1>5. ASSUME NEW w \in Polls, StartBatch(w)
      PROVE  TypeOK'
  BY <1>5 DEF StartBatch, Goto, table
<1>6. ASSUME NEW w \in Polls, Dispatch(w)
      PROVE  TypeOK'
  <2> DEFINE e == OldestFirst(batch[w])
  <2>1. e \in Events
    BY <1>6, OldestFirstIsOne DEF Dispatch
  <2> HIDE DEF e
  <2>2. batch' = [batch EXCEPT ![w] = batch[w] \ {e}] /\ current' = [current EXCEPT ![w] = e]
    BY <1>6 DEF Dispatch, e
  <2>3. batch' \in [Polls -> SUBSET Events] /\ current' \in [Polls -> {0} \union Events]
    BY <2>1, <2>2
  <2>4. delivered' = delivered \/ delivered' = Append(delivered, e)
    BY <1>6 DEF Dispatch, e
  <2>5. delivered' \in Seq(Events)
    BY <2>1, <2>4, AppendKeepsType
  <2> QED
    BY <1>6, <2>3, <2>5 DEF Dispatch, Goto
<1>7. ASSUME NEW w \in Polls, Mark(w)
      PROVE  TypeOK'
  BY <1>7 DEF Mark, Goto, table, RowStatuses
<1>8. ASSUME NEW w \in Polls, Commit(w)
      PROVE  TypeOK'
  BY <1>8 DEF Commit, Release, Goto, Unmarked, RowStatuses
<1>9. ASSUME NEW w \in Polls, RollBack(w) \/ TimeOut(w)
      PROVE  TypeOK'
  <2>1. rollbacks' \in 0..MaxRollbacks
    BY <1>9, OutboxAssumption DEF RollBack, TimeOut, LoseMarks
  <2>2. undone' \in [Events -> Nat]
    BY <1>9 DEF RollBack, TimeOut, LoseMarks
  <2>3. CASE RollBack(w)
    BY <2>1, <2>2, <2>3 DEF RollBack, LoseMarks, Release, Goto, Unmarked, RowStatuses
  <2>4. CASE TimeOut(w)
    BY <2>1, <2>2, <2>4 DEF TimeOut, LoseMarks, Goto, Unmarked, RowStatuses
  <2> QED
    BY <1>9, <2>3, <2>4
<1>10. ASSUME NEW w \in Polls, Stop(w)
       PROVE  TypeOK'
  BY <1>10 DEF Stop, Goto, table
<1>11. ASSUME NEW w \in Polls, DispatchLate(w)
       PROVE  TypeOK'
  <2> DEFINE e == OldestFirst(cand[w])
  <2>1. e \in Events
    BY <1>11, OldestFirstIsOne DEF DispatchLate, OneAfterTheOther
  <2> HIDE DEF e
  <2>2. delivered' \in {delivered, Append(delivered, e)}
    BY <1>11 DEF DispatchLate, e
  <2>3. delivered' \in Seq(Events)
    BY <2>1, <2>2, AppendKeepsType
  <2>4. undone' \in [Events -> Nat]
    BY <1>11 DEF DispatchLate
  <2> QED
    BY <1>11, <2>3, <2>4 DEF DispatchLate, Release, Goto, Unmarked, RowStatuses
<1> QED
  BY <1>1, <1>2, <1>3, <1>4, <1>5, <1>6, <1>7, <1>8, <1>9, <1>10, <1>11 DEF Next, Poll, Settled

\* A poll keeps to its order.
LEMMA OrderKept ==
    ASSUME DeliveryInv, [Next]_vars, NEW v \in Polls
    PROVE  OneAfterTheOther(v)'
<1> USE DEF DeliveryInv, TypeOK
<1>0. OneAfterTheOther(v)
  OBVIOUS
<1>1. CASE UNCHANGED vars \/ \E e \in Events : Publish(e)
  BY <1>0, <1>1 DEF vars, Publish, OneAfterTheOther, Marked
<1>2. ASSUME NEW w \in Polls, w # v, Poll(w) \/ RollBack(w) \/ TimeOut(w) \/ Stop(w)
      PROVE  OneAfterTheOther(v)'
  <2>1. /\ pc'[v] = pc[v] /\ batch'[v] = batch[v] /\ marks'[v] = marks[v]
        /\ current'[v] = current[v] /\ cand'[v] = cand[v]
    BY <1>2 DEF Poll, Select, LockRow, StartBatch, Dispatch, Mark, Commit, DispatchLate, RollBack, TimeOut, LoseMarks, Stop, Release, Goto
  <2> QED
    BY <1>0, <2>1, OtherPollKept DEF OneAfterTheOther, Marked
<1>3. CASE Select(v) \/ StartBatch(v) \/ Stop(v)
  BY <1>0, <1>3 DEF Select, StartBatch, Stop, Goto, OneAfterTheOther, Marked
<1>4. CASE LockRow(v)
  <2>1. pc[v] = "locking" /\ pc' = pc /\ marks' = marks /\ current' = current
    BY <1>4 DEF LockRow
  <2>2. Marked(v) = {} /\ Marked(v)' = {} /\ current'[v] = 0
    BY <1>0, <2>1 DEF OneAfterTheOther, Marked
  <2>3. batch'[v] \in SUBSET Events
    BY TypeKept
  <2>4. 0 \notin Events
    BY OutboxAssumption DEF Events
  <2> QED
    BY <2>1, <2>2, <2>3, <2>4 DEF OneAfterTheOther
<1>5. CASE Dispatch(v)
  <2> DEFINE e == OldestFirst(batch[v])
  <2>1. e \in batch[v] /\ e \in Events
    BY <1>5, OldestFirstIsOne DEF Dispatch
  <2>0. 0 \notin Events
    BY OutboxAssumption DEF Events
  <2> HIDE DEF e
  <2>2. /\ batch'[v] = batch[v] \ {e} /\ current'[v] = e /\ marks'[v] = marks[v]
        /\ pc[v] = "dispatching" /\ pc'[v] = "marking"
    BY <1>5 DEF Dispatch, Goto, e
  <2>3. Marked(v)' = Marked(v)
    BY <2>2 DEF Marked
  <2> QED
    BY <1>0, <2>0, <2>1, <2>2, <2>3 DEF OneAfterTheOther
<1>6. CASE Mark(v)
  <2> DEFINE e == current[v]
  <2>1. e \in Events /\ e \notin batch[v] /\ 0 \notin Events
    BY <1>0, <1>6, OutboxAssumption DEF Mark, OneAfterTheOther, Events
  <2>2. /\ batch'[v] = batch[v] /\ current'[v] = 0 /\ pc'[v] = "dispatching"
        /\ marks'[v] = [marks[v] EXCEPT ![e] = IF e \in Malformed THEN "FAILED" ELSE "DELIVERED"]
    BY <1>6 DEF Mark, Goto
  <2>3. Marked(v)' = Marked(v) \union {e}
    BY <2>1, <2>2 DEF Marked
  <2>4. \A d \in Marked(v)' : marks'[v][d] = IF d \in Malformed THEN "FAILED" ELSE "DELIVERED"
    BY <1>0, <2>1, <2>2, <2>3 DEF OneAfterTheOther, Marked
  <2>5. 0 \notin batch'[v] \union Marked(v)'
    BY <2>1, <2>2 DEF Marked
  <2> QED
    BY <1>0, <2>1, <2>2, <2>3, <2>4, <2>5 DEF OneAfterTheOther
<1>7. CASE Commit(v) \/ RollBack(v) \/ DispatchLate(v)
  <2>1. batch'[v] = {} /\ current'[v] = 0 /\ marks'[v] = Unmarked /\ pc'[v] = "idle"
    BY <1>7 DEF Commit, RollBack, DispatchLate, Release, Goto
  <2> QED
    BY <2>1 DEF OneAfterTheOther, Marked, Unmarked
<1>8. CASE TimeOut(v)
  <2>1. /\ batch'[v] = {} /\ current'[v] = 0 /\ marks'[v] = Unmarked /\ pc'[v] = "closed"
        /\ cand'[v] # {}
    BY <1>0, <1>8 DEF TimeOut, LoseMarks, Goto, OneAfterTheOther
  <2> QED
    BY <2>1 DEF OneAfterTheOther, Marked, Unmarked
<1> QED
  BY <1>1, <1>2, <1>3, <1>4, <1>5, <1>6, <1>7, <1>8 DEF Next, Poll, Settled

\* What a poll does leaves the others and what they hold alone.
LEMMA OthersKept ==
    ASSUME DeliveryInv, NEW w \in Polls, Poll(w) \/ RollBack(w) \/ TimeOut(w) \/ Stop(w), NEW v \in Polls \ {w}
    PROVE  Holds(v)' = Holds(v) /\ Dispatched(v)' = Dispatched(v)
<1>1. batch'[v] = batch[v] /\ marks'[v] = marks[v] /\ current'[v] = current[v]
  BY DEF DeliveryInv, TypeOK, Poll, Select, LockRow, StartBatch, Dispatch, Mark, Commit, DispatchLate,
      RollBack, TimeOut, LoseMarks, Stop, Release, Goto
<1> QED
  BY <1>1, OtherPollKept

\* A row is taken only when nobody holds it, and changes only in the hands of its holder.
LEMMA HeldKept ==
    ASSUME DeliveryInv, [Next]_vars
    PROVE  HeldByOnePoll'
<1>0. HeldByOnePoll
  BY DEF DeliveryInv
<1>1. CASE UNCHANGED vars
  BY <1>0, <1>1 DEF vars, HeldByOnePoll, LockedByOther, Holds, Dispatched, Marked
<1>2. ASSUME NEW e \in Events, Publish(e)
      PROVE  HeldByOnePoll'
  <2>1. \A w \in Polls : Holds(w)' = Holds(w)
    BY <1>2 DEF Publish, Holds, Dispatched, Marked
  <2>2. \A w \in Polls, d \in Events : rows[d] = "PENDING" => rows'[d] = "PENDING"
    BY <1>2 DEF Publish, DeliveryInv, TypeOK
  <2>3. \A w \in Polls : Holds(w) \subseteq Events
    BY HeldAreEvents
  <2> QED
    BY <1>0, <2>1, <2>2, <2>3 DEF HeldByOnePoll, LockedByOther
<1>3. ASSUME NEW w \in Polls, Poll(w) \/ RollBack(w) \/ TimeOut(w) \/ Stop(w),
             Holds(w)' \subseteq Holds(w), rows' = rows
      PROVE  HeldByOnePoll'
  <2>1. \A v \in Polls \ {w} : Holds(v)' = Holds(v)
    BY <1>3, OthersKept
  <2> QED
    BY <1>0, <1>3, <2>1 DEF HeldByOnePoll, LockedByOther
<1>4. ASSUME NEW w \in Polls, Select(w) \/ StartBatch(w) \/ Stop(w)
      PROVE  HeldByOnePoll'
  <2>1. Holds(w)' = Holds(w) /\ rows' = rows
    BY <1>4 DEF Select, StartBatch, Stop, Holds, Dispatched, Marked, table
  <2> QED
    BY <1>3, <1>4, <2>1 DEF Poll
<1>5. ASSUME NEW w \in Polls, LockRow(w)
      PROVE  HeldByOnePoll'
  <2> DEFINE e == OldestFirst(cand[w])
  <2>1. rows' = rows /\ marks' = marks /\ current' = current
    BY <1>5 DEF LockRow, table
  <2> HIDE DEF e
  <2>2. \/ batch' = batch
        \/ batch' = [batch EXCEPT ![w] = batch[w] \union {e}] /\ Selectable(e, w)
    BY <1>5 DEF LockRow, e
  <2>3. CASE batch' = batch
    <3>1. Holds(w)' = Holds(w)
      BY <2>1, <2>3 DEF Holds, Dispatched, Marked
    <3> QED
      BY <1>3, <1>5, <2>1, <3>1 DEF Poll
  <2>4. CASE batch' = [batch EXCEPT ![w] = batch[w] \union {e}] /\ Selectable(e, w)
    <3>1. batch'[w] = batch[w] \union {e}
      BY <2>4 DEF DeliveryInv, TypeOK
    <3>2. Holds(w)' = Holds(w) \union {e}
      BY <2>1, <3>1 DEF Holds, Dispatched, Marked
    <3>3. \A v \in Polls \ {w} : Holds(v)' = Holds(v) /\ e \notin Holds(v)
      BY <1>5, <2>4, OthersKept DEF Poll, Selectable, LockedByOther
    <3> QED
      BY <1>0, <2>1, <2>4, <3>2, <3>3 DEF HeldByOnePoll, LockedByOther, Selectable
  <2> QED
    BY <2>2, <2>3, <2>4
<1>6. ASSUME NEW w \in Polls, Dispatch(w)
      PROVE  HeldByOnePoll'
  <2> DEFINE e == OldestFirst(batch[w])
  <2>1. rows' = rows /\ marks' = marks /\ batch'[w] = batch[w] \ {e} /\ current'[w] = e
    BY <1>6 DEF Dispatch, DeliveryInv, TypeOK
  <2>2. e \in batch[w]
    BY <1>6, OldestFirstIsOne DEF Dispatch, DeliveryInv, TypeOK
  <2> HIDE DEF e
  <2>3. Holds(w)' \subseteq Holds(w)
    BY <2>1, <2>2 DEF Holds, Dispatched, Marked
  <2> QED
    BY <1>3, <1>6, <2>1, <2>3 DEF Poll
<1>7. ASSUME NEW w \in Polls, Mark(w)
      PROVE  HeldByOnePoll'
  <2> DEFINE e == current[w]
  <2>1. rows' = rows /\ batch' = batch /\ current'[w] = 0
    BY <1>7 DEF Mark, table, DeliveryInv, TypeOK
  <2>2. \A d \in Events \ {e} : marks'[w][d] = marks[w][d]
    BY <1>7 DEF Mark, DeliveryInv, TypeOK
  <2>3. e # 0
    BY <1>7 DEF Mark, DeliveryInv, OneAfterTheOther
  <2>4. Holds(w)' \subseteq Holds(w)
    BY <2>1, <2>2, <2>3 DEF Holds, Dispatched, Marked
  <2> QED
    BY <1>3, <1>7, <2>1, <2>4 DEF Poll
<1>8. ASSUME NEW w \in Polls, Commit(w) \/ RollBack(w) \/ TimeOut(w) \/ DispatchLate(w)
      PROVE  HeldByOnePoll'
  <2>1. Holds(w)' = {}
    <3>1. batch'[w] = {} /\ marks'[w] = Unmarked /\ current'[w] = 0
      BY <1>8 DEF Commit, RollBack, TimeOut, DispatchLate, Release, DeliveryInv, TypeOK, OneAfterTheOther
    <3> QED
      BY <3>1 DEF Holds, Dispatched, Marked, Unmarked
  <2>2. \A v \in Polls \ {w} : Holds(v)' = Holds(v)
    BY <1>8, OthersKept DEF Poll
  <2>3. Marked(w) \subseteq Holds(w)
    BY DEF Holds, Dispatched
  <2>4. \A d \in Events : rows'[d] = rows[d] \/ d \in Holds(w)
    BY <1>8, <2>3 DEF Commit, RollBack, TimeOut, LoseMarks, DispatchLate, DeliveryInv, TypeOK
  <2>5. \A v \in Polls : Holds(v) \subseteq Events
    BY HeldAreEvents
  <2> QED
    BY <1>0, <2>1, <2>2, <2>4, <2>5 DEF HeldByOnePoll, LockedByOther
<1> QED
  BY <1>1, <1>2, <1>4, <1>5, <1>6, <1>7, <1>8 DEF Next, Poll, Settled

\* Steps that deliver nothing and undo nothing leave the account as it is.
LEMMA AccountKept ==
    ASSUME DeliveryInv, UNCHANGED <<delivered, undone>>,
           \A e \in Events \ Malformed : Standing(e)' = Standing(e)
    PROVE  RedeliveryNeedsRollback'
<1>1. \A e \in Events : Times(e)' = Times(e)
  BY DEF Times
<1>2. RedeliveryNeedsRollback
  BY DEF DeliveryInv
<1>3. ASSUME NEW e \in Events
      PROVE  Times(e)' = undone'[e] + (IF Standing(e)' /\ e \notin Malformed THEN 1 ELSE 0)
  <2>1. Times(e) = undone[e] + (IF Standing(e) /\ e \notin Malformed THEN 1 ELSE 0)
    BY <1>2 DEF RedeliveryNeedsRollback
  <2> QED
    BY <1>1, <2>1, Zenon
<1> QED
  BY <1>3 DEF RedeliveryNeedsRollback

LEMMA AccountStep ==
    ASSUME DeliveryInv, [Next]_vars
    PROVE  RedeliveryNeedsRollback'
<1>1. CASE UNCHANGED vars
  BY <1>1, AccountKept DEF vars, Standing, Dispatched, Holds, Marked
<1>2. ASSUME NEW d \in Events, Publish(d)
      PROVE  RedeliveryNeedsRollback'
  <2>1. \A w \in Polls : Dispatched(w)' = Dispatched(w)
    BY <1>2 DEF Publish, Dispatched, Holds, Marked
  <2>2. \A e \in Events : rows'[e] = "DELIVERED" <=> rows[e] = "DELIVERED"
    BY <1>2 DEF Publish, DeliveryInv, TypeOK
  <2>3. UNCHANGED <<delivered, undone>>
    BY <1>2 DEF Publish
  <2> QED
    BY <2>1, <2>2, <2>3, AccountKept DEF Standing
\* A step of a poll that leaves what it has dispatched alone.
<1>3. ASSUME NEW w \in Polls, Poll(w) \/ Stop(w), UNCHANGED <<rows, delivered, undone>>,
             Dispatched(w)' = Dispatched(w)
      PROVE  RedeliveryNeedsRollback'
  <2>1. \A v \in Polls : Dispatched(v)' = Dispatched(v)
    BY <1>3, OthersKept
  <2>2. \A e \in Events : Standing(e)' = Standing(e)
    BY <1>3, <2>1 DEF Standing
  <2> QED
    BY <1>3, <2>2, AccountKept
<1>4. ASSUME NEW w \in Polls, Select(w) \/ LockRow(w) \/ StartBatch(w) \/ Stop(w)
      PROVE  RedeliveryNeedsRollback'
  <2>1. UNCHANGED <<rows, delivered, undone, marks, current>>
    BY <1>4 DEF Select, LockRow, StartBatch, Stop, table
  <2>2. Dispatched(w)' = Dispatched(w)
    BY <2>1 DEF Dispatched, Marked
  <2> QED
    BY <1>3, <1>4, <2>1, <2>2 DEF Poll
<1>5. ASSUME NEW w \in Polls, Mark(w)
      PROVE  RedeliveryNeedsRollback'
  <2> DEFINE e == current[w]
  <2>1. UNCHANGED <<rows, delivered, undone>> /\ current'[w] = 0
    BY <1>5 DEF Mark, table, DeliveryInv, TypeOK
  <2>2. e \in Events /\ e # 0
    BY <1>5 DEF Mark, DeliveryInv, TypeOK, OneAfterTheOther
  <2>3. marks'[w] = [marks[w] EXCEPT ![e] = IF e \in Malformed THEN "FAILED" ELSE "DELIVERED"]
    BY <1>5 DEF Mark, DeliveryInv, TypeOK
  <2>4. marks[w] \in [Events -> RowStatuses]
    BY DEF DeliveryInv, TypeOK
  <2>5. Marked(w)' = Marked(w) \union {e}
    BY <2>2, <2>3, <2>4 DEF Marked
  <2>6. Dispatched(w)' = Dispatched(w)
    BY <2>1, <2>2, <2>5 DEF Dispatched
  <2> QED
    BY <1>3, <1>5, <2>1, <2>6 DEF Poll
<1>6. ASSUME NEW w \in Polls, Commit(w)
      PROVE  RedeliveryNeedsRollback'
  <2>1. current[w] = 0 /\ Dispatched(w) = Marked(w) /\ Dispatched(w)' = {}
    BY <1>6 DEF Commit, Release, Dispatched, Marked, Unmarked, DeliveryInv, TypeOK, OneAfterTheOther
  <2>2. \A v \in Polls \ {w} : Dispatched(v)' = Dispatched(v)
    BY <1>6, OthersKept DEF Poll
  <2>3. \A e \in Events \ Marked(w) : rows'[e] = rows[e]
    BY <1>6 DEF Commit
  <2>4. \A e \in Marked(w) \ Malformed : rows'[e] = "DELIVERED"
    BY <1>6 DEF Commit, Marked, DeliveryInv, OneAfterTheOther
  <2>5. \A e \in Events \ Malformed : Standing(e)' = Standing(e)
    BY <2>1, <2>2, <2>3, <2>4 DEF Standing
  <2> QED
    BY <1>6, <2>5, AccountKept DEF Commit
<1>7. ASSUME NEW w \in Polls, Dispatch(w)
      PROVE  RedeliveryNeedsRollback'
  <2>0. OldestFirst(batch[w]) \in batch[w] /\ batch[w] \subseteq Events
    BY <1>7, OldestFirstIsOne DEF Dispatch, DeliveryInv, TypeOK
  <2>1. PICK d \in Events : d = OldestFirst(batch[w]) /\ d \in batch[w]
    BY <2>0
  <2>2. /\ rows' = rows /\ marks' = marks /\ undone' = undone /\ current'[w] = d
        /\ delivered' = IF d \in Malformed THEN delivered ELSE Append(delivered, d)
        /\ pc[w] = "dispatching"
    BY <1>7, <2>1 DEF Dispatch, DeliveryInv, TypeOK
  <2>3. d # 0 /\ current[w] = 0
    BY <2>1, <2>2, OutboxAssumption DEF Events, DeliveryInv, OneAfterTheOther
  <2>4. Dispatched(w)' = Dispatched(w) \union {d}
    BY <2>2, <2>3 DEF Dispatched, Marked
  <2>5. \A v \in Polls \ {w} : Dispatched(v)' = Dispatched(v)
    BY <1>7, OthersKept DEF Poll
  <2>6. \A e \in Events \ {d} : Standing(e)' = Standing(e)
    BY <2>2, <2>4, <2>5 DEF Standing
  <2>7. CASE d \in Malformed
    BY <2>2, <2>6, <2>7, AccountKept
  <2>8. CASE d \notin Malformed
    <3>1. ~ Standing(d) /\ Standing(d)'
      <4>1. d \in Holds(w)
        BY <2>1 DEF Holds
      <4>2. rows[d] = "PENDING" /\ \A v \in Polls \ {w} : d \notin Holds(v)
        BY <4>1 DEF DeliveryInv, HeldByOnePoll, LockedByOther
      <4>3. d \notin Dispatched(w)
        BY <2>1, <2>3 DEF Dispatched, DeliveryInv, OneAfterTheOther
      <4>4. \A v \in Polls : d \notin Dispatched(v)
        BY <4>2, <4>3 DEF Holds
      <4>5. ~ Standing(d)
        BY <4>2, <4>4 DEF Standing
      <4>6. Standing(d)'
        <5>1. d \in Dispatched(w)'
          BY <2>4
        <5> QED
          BY <5>1 DEF Standing
      <4> QED
        BY <4>5, <4>6
    <3>2. \A e \in Events : Times(e) \in Nat /\ Times(e)' = Times(e) + (IF e = d THEN 1 ELSE 0)
      BY <2>1, <2>2, <2>8, DeliveredOnceMore DEF DeliveryInv, TypeOK
    <3>3. ASSUME NEW e \in Events
          PROVE  Times(e)' = undone'[e] + (IF Standing(e)' /\ e \notin Malformed THEN 1 ELSE 0)
      <4>1. Times(e) = undone[e] + (IF Standing(e) /\ e \notin Malformed THEN 1 ELSE 0)
        BY DEF DeliveryInv, RedeliveryNeedsRollback
      <4>2. undone[e] \in Nat
        BY DEF DeliveryInv, TypeOK
      <4>3. CASE e = d
        <5>1. Times(e) = undone[e]
          BY <3>1, <4>1, <4>2, <4>3
        <5>2. Times(e)' = undone[e] + 1
          BY <3>2, <4>3, <5>1
        <5>3. Standing(e)' /\ e \notin Malformed
          BY <2>8, <3>1, <4>3
        <5> QED
          BY <2>2, <5>2, <5>3
      <4>4. CASE e # d
        <5>1. Times(e)' = Times(e)
          BY <3>2, <4>4
        <5> QED
          BY <2>2, <2>6, <4>1, <4>4, <5>1, Zenon
      <4> QED BY <4>3, <4>4
    <3> QED
      BY <3>3 DEF RedeliveryNeedsRollback
  <2> QED
    BY <2>7, <2>8
<1>8. ASSUME NEW w \in Polls, RollBack(w) \/ TimeOut(w)
      PROVE  RedeliveryNeedsRollback'
  <2>0. /\ rows' = rows /\ delivered' = delivered /\ marks'[w] = Unmarked /\ current'[w] = 0
        /\ undone' = [e \in Events |->
                IF e \in Dispatched(w) \ Malformed THEN undone[e] + 1 ELSE undone[e]]
    BY <1>8 DEF RollBack, TimeOut, LoseMarks, Release, DeliveryInv, TypeOK, OneAfterTheOther
  <2>1. Dispatched(w)' = {}
    BY <2>0 DEF Dispatched, Marked, Unmarked
  <2>2. \A v \in Polls \ {w} : Dispatched(v)' = Dispatched(v)
    BY <1>8, OthersKept
  <2>3. ASSUME NEW e \in Events
        PROVE  Times(e)' = undone'[e] + (IF Standing(e)' /\ e \notin Malformed THEN 1 ELSE 0)
    <3>1. Times(e)' = Times(e)
      BY <2>0 DEF Times
    <3>2. Times(e) = undone[e] + (IF Standing(e) /\ e \notin Malformed THEN 1 ELSE 0)
      BY DEF DeliveryInv, RedeliveryNeedsRollback
    <3>3. undone[e] \in Nat
      BY DEF DeliveryInv, TypeOK
    <3>4. CASE e \in Dispatched(w) \ Malformed
      <4>1. undone'[e] = undone[e] + 1
        BY <2>0, <3>4
      <4>2. Standing(e) /\ ~ Standing(e)'
        BY <2>0, <2>1, <2>2, <3>4 DEF Standing, DeliveryInv, HeldByOnePoll, LockedByOther, Holds
      <4> QED
        BY <3>1, <3>2, <3>3, <3>4, <4>1, <4>2
    <3>5. CASE e \notin Dispatched(w) \ Malformed
      <4>1. undone'[e] = undone[e]
        BY <2>0, <3>5
      <4>2. e \notin Malformed => Standing(e)' = Standing(e)
        BY <2>0, <2>1, <2>2, <3>5 DEF Standing
      <4> QED
        BY <3>1, <3>2, <4>1, <4>2, Zenon
    <3> QED BY <3>4, <3>5
  <2> QED
    BY <2>3 DEF RedeliveryNeedsRollback
<1>9. ASSUME NEW w \in Polls, DispatchLate(w)
      PROVE  RedeliveryNeedsRollback'
  <2>0. OldestFirst(cand[w]) \in cand[w] /\ cand[w] \subseteq Events
    BY <1>9, OldestFirstIsOne DEF DispatchLate, DeliveryInv, TypeOK, OneAfterTheOther
  <2>1. PICK d \in Events : d = OldestFirst(cand[w])
    BY <2>0
  <2>2. /\ rows' = rows
        /\ IF d \in Malformed THEN delivered' = delivered /\ undone' = undone
           ELSE delivered' = Append(delivered, d) /\ undone' = [undone EXCEPT ![d] = @ + 1]
    BY <1>9, <2>1 DEF DispatchLate
  <2>3. Dispatched(w) = {} /\ Dispatched(w)' = {}
    BY <1>9 DEF DispatchLate, Release, Dispatched, Marked, Unmarked, DeliveryInv, TypeOK, OneAfterTheOther
  <2>4. \A v \in Polls \ {w} : Dispatched(v)' = Dispatched(v)
    BY <1>9, OthersKept DEF Poll
  <2>5. \A e \in Events : Standing(e)' = Standing(e)
    BY <2>2, <2>3, <2>4 DEF Standing
  <2>6. CASE d \in Malformed
    BY <2>2, <2>5, <2>6, AccountKept
  <2>7. CASE d \notin Malformed
    <3>1. \A e \in Events : Times(e) \in Nat /\ Times(e)' = Times(e) + (IF e = d THEN 1 ELSE 0)
      BY <2>2, <2>7, DeliveredOnceMore DEF DeliveryInv, TypeOK
    <3>2. \A e \in Events :
             undone[e] \in Nat /\ undone'[e] = undone[e] + (IF e = d THEN 1 ELSE 0)
      BY <2>2, <2>7 DEF DeliveryInv, TypeOK
    <3>3. ASSUME NEW e \in Events
          PROVE  Times(e)' = undone'[e] + (IF Standing(e)' /\ e \notin Malformed THEN 1 ELSE 0)
      <4> DEFINE once == IF Standing(e) /\ e \notin Malformed THEN 1 ELSE 0
      <4>1. Times(e) = undone[e] + once
        BY DEF DeliveryInv, RedeliveryNeedsRollback
      <4>2. (IF Standing(e)' /\ e \notin Malformed THEN 1 ELSE 0) = once
        BY <2>5, Zenon
      <4>3. once \in Nat
        OBVIOUS
      <4> HIDE DEF once
      <4>4. Times(e)' = undone'[e] + once
        BY <3>1, <3>2, <4>1, <4>3
      <4> QED
        BY <4>2, <4>4, Zenon
    <3> QED
      BY <3>3 DEF RedeliveryNeedsRollback
  <2> QED
    BY <2>6, <2>7
<1> QED
  BY <1>1, <1>2, <1>4, <1>5, <1>6, <1>7, <1>8, <1>9 DEF Next, Poll, Settled

LEMMA DeliveryStarts == Init => DeliveryInv
<1> SUFFICES ASSUME Init PROVE DeliveryInv
  OBVIOUS
<1>1. TypeOK
  <2>1. delivered \in Seq(Events) /\ rollbacks \in 0..MaxRollbacks
    BY OutboxAssumption DEF Init
  <2> QED
    BY <2>1 DEF Init, TypeOK, RowStatuses, Unmarked
<1>2. \A w \in Polls : Marked(w) = {} /\ current[w] = 0 /\ batch[w] = {} /\ pc[w] = "idle"
  BY DEF Init, Marked, Unmarked
<1>3. \A w \in Polls : OneAfterTheOther(w) /\ Dispatched(w) = {} /\ Holds(w) = {}
  BY <1>2 DEF OneAfterTheOther, Dispatched, Holds
<1>4. \A e \in Events : Times(e) = 0 /\ undone[e] = 0 /\ rows[e] = "ABSENT"
  <2>1. \A e : {i \in DOMAIN delivered : delivered[i] = e} = {}
    BY DEF Init
  <2> QED
    BY <2>1, FS_EmptySet DEF Init, Times
<1> QED
  BY <1>1, <1>3, <1>4 DEF DeliveryInv, HeldByOnePoll, RedeliveryNeedsRollback, Standing

\* What is committed, what the polls hold and what the listeners were given agree.
THEOREM DeliveryInvariance == Spec => []DeliveryInv
<1>1. DeliveryInv /\ [Next]_vars => DeliveryInv'
  <2> SUFFICES ASSUME DeliveryInv, [Next]_vars PROVE DeliveryInv'
    OBVIOUS
  <2> QED
    BY TypeKept, OrderKept, HeldKept, AccountStep DEF DeliveryInv
<1> QED
  BY DeliveryStarts, <1>1, PTL DEF Spec

\* However many polls overlap: one event is in the hands of one poll, and only as long as
\* it is PENDING.
THEOREM EventsAreHeldByOnePoll == Spec => []HeldByOnePoll
<1>1. DeliveryInv => HeldByOnePoll
  BY DEF DeliveryInv
<1> QED
  BY DeliveryInvariance, <1>1, PTL

\* An event reaches the listeners once, and once more for each delivery whose mark was lost.
THEOREM RedeliveriesAreAccountedFor == Spec => []RedeliveryNeedsRollback
<1>1. DeliveryInv => RedeliveryNeedsRollback
  BY DEF DeliveryInv
<1> QED
  BY DeliveryInvariance, <1>1, PTL

-----------------------------------------------------------------------------
(* The outbox implements Delivery. *)

\* DeliveredAtLeastOnce made inductive: rows in a snapshot are published, which a late loop
\* relies on, as it holds none of them any more.
PromiseInv == DeliveryInv /\ DeliveredAtLeastOnce /\ \A w \in Polls : \A e \in cand[w] : rows[e] # "ABSENT"

\* What stands as a delivery has been shown to the listeners.
LEMMA StandingWasShown ==
    ASSUME DeliveryInv, NEW e \in Events \ Malformed, Standing(e)
    PROVE  e \in Promised!Shown
<1>1. Times(e) = undone[e] + 1 /\ undone[e] \in Nat
  BY DEF DeliveryInv, TypeOK, RedeliveryNeedsRollback
<1>2. Times(e) # 0
  BY <1>1
<1>3. {i \in DOMAIN delivered : delivered[i] = e} # {}
  BY <1>2, FS_EmptySet DEF Times
<1> QED
  BY <1>3 DEF Promised!Shown

\* Handing an event over is showing it, in a transaction or after its end.
LEMMA ShowStep ==
    ASSUME PromiseInv, NEW w \in Polls, Dispatch(w) \/ DispatchLate(w)
    PROVE  [Promised!Next]_<<rows, delivered>>
<1> USE DEF PromiseInv, DeliveryInv, TypeOK
<1>1. CASE Dispatch(w)
  <2> DEFINE e == OldestFirst(batch[w])
  <2>1. e \in batch[w] /\ batch[w] \subseteq Events
    BY <1>1, OldestFirstIsOne DEF Dispatch
  <2>2. rows[e] = "PENDING"
    BY <2>1 DEF HeldByOnePoll, Holds
  <2>3. rows' = rows /\ delivered' = IF e \in Malformed THEN delivered ELSE Append(delivered, e)
    BY <1>1 DEF Dispatch
  <2> HIDE DEF e
  <2>4. CASE e \in Malformed
    BY <2>3, <2>4
  <2>5. CASE e \notin Malformed
    BY <2>1, <2>2, <2>3, <2>5 DEF Promised!Next, Promised!Show
  <2> QED
    BY <2>4, <2>5
<1>2. CASE DispatchLate(w)
  <2> DEFINE e == OldestFirst(cand[w])
  <2>1. cand[w] # {} /\ cand[w] \subseteq Events
    BY <1>2 DEF DispatchLate, OneAfterTheOther
  <2>2. e \in cand[w]
    BY <2>1, OldestFirstIsOne
  <2>3. rows[e] # "ABSENT"
    BY <2>2
  <2>4. rows' = rows /\ (delivered' = delivered \/ (e \notin Malformed /\ delivered' = Append(delivered, e)))
    BY <1>2 DEF DispatchLate
  <2> HIDE DEF e
  <2>5. CASE delivered' = delivered
    BY <2>4, <2>5
  <2>6. CASE e \notin Malformed /\ delivered' = Append(delivered, e)
    BY <2>1, <2>2, <2>3, <2>4, <2>6 DEF Promised!Next, Promised!Show
  <2> QED
    BY <2>4, <2>5, <2>6
<1> QED
  BY <1>1, <1>2

\* The commit of a poll settles what it has marked.
LEMMA SettleStep ==
    ASSUME PromiseInv, NEW w \in Polls, Commit(w)
    PROVE  Promised!Settle(Marked(w)) /\ Marked(w) \subseteq Events
<1> USE DEF PromiseInv, DeliveryInv, TypeOK
<1>1. Marked(w) \subseteq Dispatched(w) /\ Marked(w) \subseteq Holds(w) /\ Marked(w) \subseteq Events
  BY DEF Marked, Dispatched, Holds
<1>2. ASSUME NEW e \in Marked(w)
      PROVE  /\ rows[e] = "PENDING"
             /\ marks[w][e] = IF e \in Malformed THEN "FAILED" ELSE "DELIVERED"
             /\ e \in Events \ Malformed => e \in Promised!Shown
  <2>1. Standing(e)
    BY <1>1 DEF Standing
  <2> QED
    BY <1>1, <2>1, StandingWasShown DEF HeldByOnePoll, OneAfterTheOther
<1>3. rows' = [e \in Events |-> IF e \in Marked(w) THEN marks[w][e] ELSE rows[e]] /\ delivered' = delivered
  BY DEF Commit
<1> HIDE DEF PromiseInv, DeliveryInv, TypeOK
<1> DEFINE settled == [e \in Events |-> IF e \notin Marked(w) THEN rows[e]
                                        ELSE IF e \in Events \ Malformed THEN "DELIVERED" ELSE "FAILED"]
<1>4. rows' = settled
  BY <1>1, <1>2, <1>3
<1> QED
  BY <1>1, <1>2, <1>3, <1>4 DEF Promised!Settle

\* Every step of the publishers and of the polls is a step of Delivery or none.
LEMMA PromisedStep ==
    ASSUME PromiseInv, [Next]_vars
    PROVE  [Promised!Next]_<<rows, delivered>>
<1>1. ASSUME NEW e \in Events, Publish(e)
      PROVE  Promised!Next
  BY <1>1 DEF Publish, Promised!Next, Promised!Publish
<1>2. ASSUME NEW w \in Polls, Select(w) \/ LockRow(w) \/ StartBatch(w) \/ Mark(w)
      PROVE  UNCHANGED <<rows, delivered>>
  BY <1>2 DEF Select, LockRow, StartBatch, Mark, table
<1>3. ASSUME NEW w \in Polls, RollBack(w) \/ TimeOut(w) \/ Stop(w)
      PROVE  UNCHANGED <<rows, delivered>>
  BY <1>3 DEF RollBack, TimeOut, LoseMarks, Stop, table
<1>4. ASSUME NEW w \in Polls, Commit(w)
      PROVE  Promised!Next
  BY <1>4, SettleStep DEF Promised!Next
<1>5. CASE Settled \/ UNCHANGED vars
  BY <1>5 DEF Settled, vars
<1> QED
  BY <1>1, <1>2, <1>3, <1>4, <1>5, ShowStep DEF Next, Poll

LEMMA OneMoreShown ==
    ASSUME delivered \in Seq(Events), NEW e \in Events, delivered' = Append(delivered, e)
    PROVE  Promised!Shown' = Promised!Shown \union {e}
<1>1. DOMAIN delivered' = DOMAIN delivered \union {Len(delivered) + 1}
  OBVIOUS
<1>2. delivered'[Len(delivered) + 1] = e /\ \A i \in DOMAIN delivered : delivered'[i] = delivered[i]
  OBVIOUS
<1> QED
  BY <1>1, <1>2 DEF Promised!Shown

\* No step takes back what is published or shown, and what it settles has been shown.
LEMMA PromiseKept ==
    ASSUME PromiseInv, [Next]_vars
    PROVE  DeliveredAtLeastOnce' /\ \A e \in Events : rows[e] # "ABSENT" => rows'[e] # "ABSENT"
<1> USE DEF PromiseInv, DeliveryInv, TypeOK, DeliveredAtLeastOnce, Promised!AtLeastOnce
<1>1. CASE UNCHANGED <<rows, delivered>>
  BY <1>1 DEF Promised!Shown
<1>2. ASSUME NEW e \in Events, Promised!Publish(e)
      PROVE  DeliveredAtLeastOnce' /\ \A f \in Events : rows[f] # "ABSENT" => rows'[f] # "ABSENT"
  <2>1. Promised!Shown' = Promised!Shown
    BY <1>2 DEF Promised!Publish, Promised!Shown
  <2>2. rows' = [rows EXCEPT ![e] = "PENDING"] /\ rows[e] = "ABSENT"
    BY <1>2 DEF Promised!Publish
  <2> QED
    BY <2>1, <2>2
<1>3. ASSUME NEW e \in Events, Promised!Show(e)
      PROVE  DeliveredAtLeastOnce' /\ \A f \in Events : rows[f] # "ABSENT" => rows'[f] # "ABSENT"
  <2>1. Promised!Shown' = Promised!Shown \union {e}
    BY <1>3, OneMoreShown DEF Promised!Show
  <2>2. rows' = rows /\ rows[e] # "ABSENT" /\ e \notin Malformed
    BY <1>3 DEF Promised!Show
  <2>3. DeliveredAtLeastOnce'
    BY <2>1, <2>2
  <2> QED
    BY <2>2, <2>3
<1>4. ASSUME NEW b \in SUBSET Events, Promised!Settle(b)
      PROVE  DeliveredAtLeastOnce' /\ \A f \in Events : rows[f] # "ABSENT" => rows'[f] # "ABSENT"
  <2>1. Promised!Shown' = Promised!Shown
    BY <1>4 DEF Promised!Settle, Promised!Shown
  <2>2. /\ \A e \in b : rows[e] = "PENDING" /\ (e \in Events \ Malformed => e \in Promised!Shown)
        /\ rows' = [e \in Events |-> IF e \notin b THEN rows[e]
                                     ELSE IF e \in Events \ Malformed THEN "DELIVERED" ELSE "FAILED"]
    BY <1>4 DEF Promised!Settle
  <2> QED
    BY <2>1, <2>2
<1> QED
  BY <1>1, <1>2, <1>3, <1>4, PromisedStep DEF Promised!Next

\* A snapshot or a loop that goes on has published events only.
LEMMA CandidatesPublished ==
    ASSUME PromiseInv, [Next]_vars, NEW v \in Polls
    PROVE  \A e \in cand'[v] : rows'[e] # "ABSENT"
<1> USE DEF PromiseInv, DeliveryInv, TypeOK
<1>1. cand'[v] \subseteq cand[v] \union Pending \union batch[v]
  <2>1. CASE UNCHANGED vars \/ Settled \/ \E e \in Events : Publish(e)
    BY <2>1 DEF vars, Settled, Publish
  <2>2. ASSUME NEW w \in Polls, Select(w) \/ LockRow(w) \/ StartBatch(w)
        PROVE  cand'[v] \subseteq cand[v] \union Pending
    BY <2>2 DEF Select, LockRow, StartBatch
  <2>3. ASSUME NEW w \in Polls, Dispatch(w) \/ Mark(w) \/ Stop(w) \/ TimeOut(w)
        PROVE  cand'[v] \subseteq cand[v] \union batch[v]
    BY <2>3 DEF Dispatch, Mark, Stop, TimeOut
  <2>4. ASSUME NEW w \in Polls, Commit(w) \/ DispatchLate(w) \/ RollBack(w)
        PROVE  cand'[v] \subseteq cand[v]
    BY <2>4 DEF Commit, DispatchLate, RollBack, Release
  <2> QED
    BY <2>1, <2>2, <2>3, <2>4 DEF Next, Poll
<1>2. \A e \in cand[v] \union Pending \union batch[v] : rows[e] # "ABSENT" /\ e \in Events
  BY DEF Pending, HeldByOnePoll, Holds
<1> QED
  BY <1>1, <1>2, PromiseKept

\* What a poll may rely on: a row it has seen, now or before its transaction was lost, is
\* published, and the deliveries it settles have been made.
LEMMA PromiseInvariance == Spec => []PromiseInv
<1>1. Init => PromiseInv
  BY DeliveryStarts DEF Init, PromiseInv, DeliveredAtLeastOnce, Promised!AtLeastOnce, Promised!Shown
<1>2. PromiseInv /\ [Next]_vars => PromiseInv'
  BY TypeKept, OrderKept, HeldKept, AccountStep, PromiseKept, CandidatesPublished DEF PromiseInv, DeliveryInv
<1> QED
  BY <1>1, <1>2, PTL DEF Spec

\* DELIVERED means shown to the listeners, FAILED that they cannot be, and nothing is
\* shown before it is committed, for any number of instances, polls and lost transactions.
THEOREM EventsAreDeliveredAtLeastOnce == Spec => []DeliveredAtLeastOnce
<1>1. PromiseInv => DeliveredAtLeastOnce
  BY DEF PromiseInv
<1> QED
  BY PromiseInvariance, <1>1, PTL

\* Polls of any number of instances, with their batches, their locks, their lost
\* transactions and their late loops, implement the outbox Delivery describes.
THEOREM DeliveryImplemented == Spec => DeliveryPromise
<1>1. Init => Promised!Init
  BY DEF Init, Promised!Init
<1>2. PromiseInv /\ [Next]_vars => [Promised!Next]_<<rows, delivered>>
  BY PromisedStep
<1> QED
  BY <1>1, <1>2, PromiseInvariance, PTL DEF Spec, DeliveryPromise, Promised!Spec

=============================================================================
