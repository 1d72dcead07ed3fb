---------------------------- MODULE LifecycleProofs ----------------------------
(***************************************************************************)
(* AppointmentLifecycle implements Lifecycle for any number of requests,   *)
(* any clock and any skew, as long as every committed update moves         *)
(* updatedAt forward.                                                      *)
(***************************************************************************)
EXTENDS AppointmentLifecycle, TLAPS

AdvancingNext == Next /\ ~ stalled'

\* The row a request has read changes in no step but its own Accept.
LEMMA ReadKept ==
    ASSUME LifecycleInv, [AdvancingNext]_vars, NEW p \in Requests,
           pc'[p] \in {"checked", "issued", "updated"}
    PROVE  \/ pc[p] \in {"checked", "issued", "updated"} /\ read'[p] = read[p] /\ target'[p] = target[p]
           \/ \E to \in Targets : Accept(p, to)
<1>1. CASE UNCHANGED vars
  BY <1>1 DEF vars
<1>2. ASSUME NEW q \in Requests, NEW to \in Targets, Accept(q, to) \/ Reject(q, to)
      PROVE  \/ pc[p] \in {"checked", "issued", "updated"} /\ read'[p] = read[p] /\ target'[p] = target[p]
             \/ \E t \in Targets : Accept(p, t)
  <2>1. CASE q = p
    BY <1>2, <2>1 DEF LifecycleInv, TypeOK, Accept, Reject, Goto, Reply
  <2>2. CASE q # p
    BY <1>2, <2>2 DEF LifecycleInv, TypeOK, Accept, Reject, Goto, Reply
  <2> QED BY <2>1, <2>2
<1>3. ASSUME NEW q \in Requests, Proceed(q) \/ Fail(q)
      PROVE  pc[p] \in {"checked", "issued", "updated"} /\ read'[p] = read[p] /\ target'[p] = target[p]
  BY <1>3 DEF LifecycleInv, TypeOK, Proceed, Fail, Issue, Update, Lose, Commit, Respond, Goto, Reply
<1>4. CASE Tick \/ AllAnswered
  BY <1>4 DEF Tick, AllAnswered, vars
<1> QED BY <1>1, <1>2, <1>3, <1>4 DEF AdvancingNext, Next, Arrive

\* Only a commit changes the row, and then it moves updatedAt forward.
LEMMA RowStep ==
    ASSUME LifecycleInv, [AdvancingNext]_vars
    PROVE  \/ UNCHANGED <<row, events>>
           \/ \E p \in Requests : Commit(p) /\ row.updatedAt < stamp[p]
<1>1. CASE UNCHANGED vars
  BY <1>1 DEF vars
<1>2. ASSUME NEW q \in Requests, Commit(q), ~ stalled' PROVE row.updatedAt < stamp[q]
  <2>1. stamp[q] \in Int /\ row.updatedAt \in Int
    BY LifecycleAssumption DEF LifecycleInv, TypeOK, Row, Stamps
  <2>2. ~ (stamp[q] <= row.updatedAt)
    BY <1>2 DEF Commit
  <2> QED BY <2>1, <2>2
<1>3. ASSUME NEW q \in Requests, Arrive(q) \/ Fail(q) \/ Issue(q) \/ Update(q) \/ Lose(q) \/ Respond(q)
      PROVE  UNCHANGED <<row, events>>
  BY <1>3 DEF Arrive, Accept, Reject, Fail, Issue, Update, Lose, Respond
<1>4. CASE Tick \/ AllAnswered
  BY <1>4 DEF Tick, AllAnswered, vars
<1>5. CASE Next /\ ~ stalled'
  <2>1. CASE \E q \in Requests : Commit(q)
    BY <1>2, <1>5, <2>1
  <2>2. CASE ~ \E q \in Requests : Commit(q)
    BY <1>3, <1>4, <1>5, <2>2 DEF Next, Proceed
  <2> QED BY <2>1, <2>2
<1> QED BY <1>1, <1>5 DEF AdvancingNext

\* The type invariant is kept by every step.
LEMMA TypesKept == LifecycleInv /\ [AdvancingNext]_vars => TypeOK'
<1> SUFFICES ASSUME LifecycleInv, [AdvancingNext]_vars PROVE TypeOK'
  OBVIOUS
<1> USE LifecycleAssumption
<1>1. CASE UNCHANGED vars
  BY <1>1 DEF LifecycleInv, TypeOK, vars
<1>2. ASSUME NEW p \in Requests, NEW to \in Targets, Accept(p, to) PROVE TypeOK'
  BY <1>2 DEF LifecycleInv, TypeOK, Accept, Goto
<1>3. ASSUME NEW p \in Requests, NEW to \in Targets, Reject(p, to) PROVE TypeOK'
  BY <1>3 DEF LifecycleInv, TypeOK, Reject, Goto, Reply
<1>4. ASSUME NEW p \in Requests, Issue(p) PROVE TypeOK'
  <2>1. PICK t \in now..(now + MaxSkew) : stamp' = [stamp EXCEPT ![p] = t]
    BY <1>4 DEF Issue
  <2>2. t \in Stamps
    BY <2>1 DEF LifecycleInv, TypeOK, Stamps
  <2> QED BY <1>4, <2>1, <2>2 DEF LifecycleInv, TypeOK, Issue, Goto
<1>5. ASSUME NEW p \in Requests, Update(p) \/ Lose(p) \/ Fail(p) PROVE TypeOK'
  BY <1>5 DEF LifecycleInv, TypeOK, Update, Lose, Fail, Goto, Reply
<1>6. ASSUME NEW p \in Requests, Commit(p) PROVE TypeOK'
  <2>1. row' \in Row
    BY <1>6 DEF LifecycleInv, TypeOK, Commit, Row, Targets, Statuses
  <2>2. stalled' \in BOOLEAN
    BY <1>6 DEF Commit
  <2> QED BY <1>6, <2>1, <2>2 DEF LifecycleInv, TypeOK, Commit, Goto
<1>7. ASSUME NEW p \in Requests, Respond(p) PROVE TypeOK'
  BY <1>7 DEF LifecycleInv, TypeOK, Respond, Goto, Reply
<1>8. CASE Tick \/ AllAnswered
  BY <1>8 DEF LifecycleInv, TypeOK, Tick, AllAnswered, vars
<1> QED BY <1>1, <1>2, <1>3, <1>4, <1>5, <1>6, <1>7, <1>8 DEF AdvancingNext, Next, Arrive, Proceed

\* A request comes to hold the row by its own Update only.
LEMMA UpdatedStep ==
    ASSUME LifecycleInv, [AdvancingNext]_vars, NEW p \in Requests, pc'[p] = "updated"
    PROVE  pc[p] = "updated" \/ Update(p)
<1>1. CASE UNCHANGED vars
  BY <1>1 DEF vars
<1>2. ASSUME NEW q \in Requests, Arrive(q) \/ Fail(q) \/ Issue(q) \/ Lose(q) \/ Commit(q) \/ Respond(q)
      PROVE  pc[p] = "updated"
  BY <1>2 DEF LifecycleInv, TypeOK, Arrive, Accept, Reject, Fail, Issue, Lose, Commit, Respond, Goto
<1>3. ASSUME NEW q \in Requests, Update(q) PROVE pc[p] = "updated" \/ Update(p)
  BY <1>3 DEF LifecycleInv, TypeOK, Update, Goto
<1>4. CASE Tick \/ AllAnswered
  BY <1>4 DEF Tick, AllAnswered, vars
<1> QED BY <1>1, <1>2, <1>3, <1>4 DEF AdvancingNext, Next, Proceed

\* An unchanged updatedAt still means an unchanged row after any step: another
\* request's commit takes updatedAt past what was read.
LEMMA ReadStillIdentifiesRow ==
    ASSUME LifecycleInv, [AdvancingNext]_vars, NEW p \in Requests,
           pc'[p] \in {"checked", "issued", "updated"}
    PROVE  /\ TransitionAllowed(read'[p].status, target'[p])
           /\ read'[p].updatedAt <= row'.updatedAt
           /\ row'.updatedAt = read'[p].updatedAt => read'[p] = row'
<1> USE DEF LifecycleInv
<1>1. CASE \E to \in Targets : Accept(p, to)
  <2>1. PICK to \in Targets : Accept(p, to)
    BY <1>1
  <2>2. read'[p] = row /\ row' = row /\ target'[p] = to /\ TransitionAllowed(row.status, to)
    BY <2>1 DEF TypeOK, Accept
  <2>3. row.updatedAt \in Int
    BY LifecycleAssumption DEF TypeOK, Row, Stamps
  <2> QED BY <2>2, <2>3
<1>2. CASE pc[p] \in {"checked", "issued", "updated"} /\ read'[p] = read[p] /\ target'[p] = target[p]
  <2>1. /\ TransitionAllowed(read[p].status, target[p])
        /\ read[p].updatedAt <= row.updatedAt
        /\ row.updatedAt = read[p].updatedAt => read[p] = row
    BY <1>2 DEF TokenIdentifiesRow, TokenMatches
  <2>2. CASE row' = row
    BY <1>2, <2>1, <2>2
  <2>3. ASSUME NEW q \in Requests, Commit(q), row.updatedAt < stamp[q]
        PROVE  read[p].updatedAt < row'.updatedAt
    <3>1. row'.updatedAt = stamp[q]
      BY <2>3 DEF Commit
    <3>2. read[p].updatedAt \in Int /\ row.updatedAt \in Int /\ stamp[q] \in Int
      BY LifecycleAssumption DEF TypeOK, Row, Stamps
    <3> QED BY <2>1, <2>3, <3>1, <3>2
  <2>4. row' \in Row
    BY TypesKept DEF TypeOK
  <2>5. row'.updatedAt \in Int /\ read[p].updatedAt \in Int
    BY <2>4, LifecycleAssumption DEF TypeOK, Row, Stamps
  <2> QED BY <1>2, <2>1, <2>2, <2>3, <2>5, RowStep
<1> QED BY <1>1, <1>2, ReadKept

\* The row a request has updated stays as it was read until that request ends.
LEMMA RowIsHeld ==
    ASSUME LifecycleInv, [AdvancingNext]_vars, NEW p \in Requests, pc'[p] = "updated"
    PROVE  row'.updatedAt = read'[p].updatedAt /\ \A q \in Requests \ {p} : pc'[q] # "updated"
<1> USE DEF LifecycleInv
<1>1. CASE Update(p)
  <2>1. row' = row /\ read' = read /\ row.updatedAt = read[p].updatedAt
    BY <1>1 DEF Update, TokenMatches
  <2>2. \A q \in Requests \ {p} : pc'[q] = pc[q] /\ pc[q] # "updated"
    BY <1>1 DEF TypeOK, Update, RowLocked, Goto
  <2> QED BY <2>1, <2>2
<1>2. CASE pc[p] = "updated" /\ ~ Update(p)
  <2>1. row.updatedAt = read[p].updatedAt /\ \A q \in Requests \ {p} : pc[q] # "updated"
    BY <1>2 DEF TokenIdentifiesRow, TokenMatches
  <2>2. \A q \in Requests \ {p} : pc'[q] # "updated"
    BY <1>2, <2>1, UpdatedStep DEF Update, RowLocked
  <2>3. \A q \in Requests : ~ Commit(q)
    BY <2>1 DEF TypeOK, Commit, Goto
  <2>4. read'[p] = read[p]
    BY <1>2, ReadKept DEF Accept
  <2> QED BY <2>1, <2>2, <2>3, <2>4, RowStep
<1> QED BY <1>1, <1>2, UpdatedStep

LEMMA TokenKept == LifecycleInv /\ [AdvancingNext]_vars => TokenIdentifiesRow'
  BY ReadStillIdentifiesRow, RowIsHeld DEF TokenIdentifiesRow, TokenMatches, TransitionAllowed

-----------------------------------------------------------------------------

LEMMA InitialInv == Init => LifecycleInv
<1> SUFFICES ASSUME Init PROVE LifecycleInv
  OBVIOUS
<1>1. \A t \in 0..MaxSkew : Created(t) \in Row
  BY LifecycleAssumption DEF Created, Row, Stamps, Statuses
<1>2. 0 \in 0..MaxSkew /\ 0 \in 0..MaxNow /\ 0 \in Stamps
  BY LifecycleAssumption DEF Stamps
<1>3. TypeOK
  BY <1>1, <1>2 DEF Init, TypeOK, Targets
<1>4. TokenIdentifiesRow
  BY DEF Init, TokenIdentifiesRow
<1> QED BY <1>3, <1>4 DEF LifecycleInv

\* Once an update has not moved updatedAt forward, that is remembered.
LEMMA StallIsKept == [Next]_vars /\ stalled => stalled'
<1>1. ASSUME NEW q \in Requests, Arrive(q) \/ Proceed(q) \/ Fail(q), stalled PROVE stalled'
  BY <1>1 DEF Arrive, Accept, Reject, Proceed, Issue, Update, Lose, Commit, Respond, Fail
<1>2. CASE Tick \/ AllAnswered \/ UNCHANGED vars
  BY <1>2 DEF Tick, AllAnswered, vars
<1> QED BY <1>1, <1>2 DEF Next

\* Between its check and its commit a request may rely on updatedAt: while the row
\* still carries the one it read, no other change has come in between.
THEOREM TokenInvariance == AdvancingSpec => []LifecycleInv
<1>1. Init => LifecycleInv
  BY InitialInv
<1>2. LifecycleInv /\ [AdvancingNext]_vars => LifecycleInv'
  BY TypesKept, TokenKept DEF LifecycleInv
<1> QED BY <1>1, <1>2, PTL DEF AdvancingSpec, AdvancingNext

\* A commit of a request whose token still matches is one promised change.
LEMMA CommitIsChange ==
    ASSUME LifecycleInv, NEW p \in Requests, Commit(p)
    PROVE  /\ row.status \in Statuses /\ target[p] \in Targets
           /\ target[p] \in Promised!Allowed[row.status]
           /\ row'.status = target[p]
           /\ events' = Append(events, Promised!EventFor(row.status, target[p]))
<1> USE DEF LifecycleInv
<1>1. read[p] = row /\ TransitionAllowed(row.status, target[p])
  BY DEF TokenIdentifiesRow, Commit
<1>2. row.status \in Statuses /\ target[p] \in Targets
  BY DEF TypeOK, Row
<1>3. target[p] \in Promised!Allowed[row.status]
  BY <1>1, <1>2 DEF TransitionAllowed, ALLOWED_TRANSITIONS, Promised!Allowed, Statuses, Targets
<1>4. row'.status = target[p]
  BY DEF Commit
<1>5. events' = Append(events, Promised!EventFor(row.status, target[p]))
  BY <1>1 DEF Commit, EventOf, Promised!EventFor
<1> QED BY <1>2, <1>3, <1>4, <1>5

\* updateStatus and cancel, however they interleave, implement single legal changes
\* of the status, each with one event that names the status it replaced.
THEOREM LifecycleImplemented == AdvancingSpec => LifecyclePromise
<1>1. Init => Promised!Init
  BY DEF Init, Created, Promised!Init
<1>2. LifecycleInv /\ [AdvancingNext]_vars => [Promised!Next]_<<row.status, events>>
  <2> SUFFICES ASSUME LifecycleInv, NEW p \in Requests, Commit(p) PROVE Promised!Next
    BY RowStep
  <2> QED BY CommitIsChange DEF Promised!Next, Promised!Change, Targets
<1> QED BY <1>1, <1>2, TokenInvariance, PTL DEF AdvancingSpec, AdvancingNext, LifecyclePromise, Promised!Spec

-----------------------------------------------------------------------------
(* The history the events tell, for Spec as well: up to the first update that *)
(* does not move updatedAt forward.                                           *)

\* Every event an appointment can have.
Events == {Promised!EventFor(from, to) : from \in Statuses, to \in Targets}

HistoryInv == LifecycleInv /\ events \in Seq(Events) /\ EventsTellHistory

\* One more event tells one more change.
LEMMA HistoryExtended ==
    ASSUME HistoryInv, NEW p \in Requests, Commit(p)
    PROVE  events' \in Seq(Events) /\ EventsTellHistory'
<1> DEFINE from == row.status
           to == target[p]
           e == Promised!EventFor(from, to)
           last == Len(events)
<1>1. /\ from \in Statuses /\ to \in Targets /\ to \in Promised!Allowed[from]
      /\ row'.status = to /\ events' = Append(events, e)
  BY CommitIsChange DEF HistoryInv
<1>2. e \in Events
  BY <1>1 DEF Events
<1>3. e.to = to
  BY <1>1 DEF Promised!EventFor
<1>4. events \in Seq(Events) /\ last \in Nat
  BY DEF HistoryInv
<1>5. from = Promised!StatusAfter(last)
  BY DEF HistoryInv, EventsTellHistory, Promised!EventsTell
<1> HIDE DEF e
<1>6. /\ events' \in Seq(Events) /\ Len(events') = last + 1 /\ events'[last + 1] = e
      /\ \A n \in 1..last : events'[n] = events[n]
  BY <1>1, <1>2, <1>4
<1>7. \A n \in 0..last : Promised!StatusAfter(n)' = Promised!StatusAfter(n)
  BY <1>4, <1>6 DEF Promised!StatusAfter
<1>8. row'.status = Promised!StatusAfter(Len(events))'
  BY <1>1, <1>3, <1>4, <1>6 DEF Promised!StatusAfter
<1>9. ASSUME NEW n \in DOMAIN events'
      PROVE  LET before == Promised!StatusAfter(n - 1)'
             IN  /\ events'[n].to \in Promised!Allowed[before]
                 /\ events'[n] = Promised!EventFor(before, events'[n].to)
  <2>1. n \in 1..(last + 1)
    BY <1>4, <1>6
  <2>2. CASE n = last + 1
    <3>1. Promised!StatusAfter(n - 1)' = from
      BY <1>4, <1>5, <1>7, <2>2
    <3>2. events'[n] = e
      BY <1>6, <2>2
    <3> QED BY <1>1, <1>3, <3>1, <3>2 DEF e
  <2>3. CASE n # last + 1
    <3>1. n \in 1..last /\ n - 1 \in 0..last
      BY <1>4, <2>1, <2>3
    <3>2. Promised!StatusAfter(n - 1)' = Promised!StatusAfter(n - 1) /\ events'[n] = events[n]
      BY <1>6, <1>7, <3>1
    <3>3. n \in DOMAIN events
      BY <1>4, <3>1
    <3> QED BY <3>2, <3>3 DEF HistoryInv, EventsTellHistory, Promised!EventsTell
  <2> QED BY <2>2, <2>3
<1> QED BY <1>6, <1>8, <1>9 DEF EventsTellHistory, Promised!EventsTell

LEMMA HistoryKept == HistoryInv /\ [AdvancingNext]_vars => HistoryInv'
<1> SUFFICES ASSUME HistoryInv, [AdvancingNext]_vars PROVE HistoryInv'
  OBVIOUS
<1>1. LifecycleInv'
  BY TypesKept, TokenKept DEF HistoryInv, LifecycleInv
<1>2. CASE UNCHANGED <<row, events>>
  BY <1>1, <1>2 DEF HistoryInv, EventsTellHistory, Promised!EventsTell, Promised!StatusAfter
<1>3. CASE \E p \in Requests : Commit(p)
  BY <1>1, <1>3, HistoryExtended DEF HistoryInv
<1> QED BY <1>2, <1>3, RowStep DEF HistoryInv

\* A cancellation's event is the last one: no legal change follows it.
LEMMA CancellationEndsHistory == HistoryInv => NoDuplicateCancellation
<1> SUFFICES ASSUME HistoryInv PROVE NoDuplicateCancellation
  OBVIOUS
<1>1. events \in Seq(Events) /\ DOMAIN events = 1..Len(events) /\ Len(events) \in Nat
  BY DEF HistoryInv
<1> SUFFICES ASSUME NEW i \in DOMAIN events, NEW j \in DOMAIN events, i < j, events[i].to = "CANCELLED"
             PROVE  FALSE
  BY <1>1 DEF NoDuplicateCancellation
<1>2. i + 1 \in DOMAIN events /\ i \in Nat /\ i # 0
  BY <1>1
<1>3. Promised!StatusAfter(i) = "CANCELLED"
  BY <1>2 DEF Promised!StatusAfter
<1>4. events[i + 1].to \in Promised!Allowed[Promised!StatusAfter((i + 1) - 1)]
  BY <1>2 DEF HistoryInv, EventsTellHistory, Promised!EventsTell
<1>5. (i + 1) - 1 = i
  BY <1>2
<1>6. Promised!Allowed["CANCELLED"] = {}
  BY DEF Promised!Allowed
<1> QED BY <1>3, <1>4, <1>5, <1>6

\* Of every behaviour of the code: until some committed update has failed to move
\* updatedAt forward, the events tell the status and no cancellation is announced
\* twice.  The clock is the only way to break either.
THEOREM HistoryUntilStalled == Spec => [](~ stalled => EventsTellHistory /\ NoDuplicateCancellation)
<1> DEFINE IInv == ~ stalled => HistoryInv
<1>1. Init => IInv
  <2> SUFFICES ASSUME Init PROVE HistoryInv
    OBVIOUS
  <2>1. LifecycleInv
    BY InitialInv
  <2>2. events = <<>> /\ row.status = "CONFIRMED"
    BY DEF Init, Created
  <2> QED BY <2>1, <2>2 DEF HistoryInv, EventsTellHistory, Promised!EventsTell, Promised!StatusAfter
<1>2. IInv /\ [Next]_vars => IInv'
  <2> SUFFICES ASSUME IInv, [Next]_vars, ~ stalled' PROVE HistoryInv'
    OBVIOUS
  <2>1. ~ stalled
    BY StallIsKept
  <2> QED BY <2>1, HistoryKept DEF AdvancingNext
<1>3. IInv => (~ stalled => EventsTellHistory /\ NoDuplicateCancellation)
  BY CancellationEndsHistory DEF HistoryInv
<1> HIDE DEF IInv
<1> QED BY <1>1, <1>2, <1>3, PTL DEF Spec

\* A consumer of an appointment's events knows its status and every change it went
\* through, whatever requests ran at the same time, if updatedAt always advances.
THEOREM EventsTellTheHistory == AdvancingSpec => []EventsTellHistory
<1>1. Init => ~ stalled
  BY DEF Init
<1>2. ~ stalled /\ [Next /\ ~ stalled']_vars => ~ stalled'
  BY DEF vars
<1>3. AdvancingSpec => []~ stalled
  BY <1>1, <1>2, PTL DEF AdvancingSpec
<1>4. AdvancingSpec => Spec
  <2>1. [Next /\ ~ stalled']_vars => [Next]_vars
    OBVIOUS
  <2> QED BY <2>1, PTL DEF AdvancingSpec, Spec
<1> QED BY <1>3, <1>4, HistoryUntilStalled, PTL

=============================================================================
