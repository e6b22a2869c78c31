---------------------------- MODULE OutboxProofs ----------------------------
(***************************************************************************)
(* Proofs about Outbox, for any number of tasks, events, replicas and      *)
(* handlers and any number of faults.                                      *)
(***************************************************************************)
EXTENDS Outbox, TLAPS

USE DEF messages, loops

-----------------------------------------------------------------------------
(* Type correctness: the counters are naturals, only handlers insert, only *)
(* loops read batches, and a process that publishes has an event in hand.  *)
LEMMA TypeInit == Init => TypeOK
BY DEF Init, TypeOK, NoRow, EventRow, EventStatus, TaskStatus, Procs,
       PublishPc, HoldingPc, RecoverPc

LEMMA NewRowType == \A t \in Tasks : NewRow(t) \in EventRow
BY DEF NewRow, EventRow, EventStatus

LEMMA PublishedRowType ==
  \A row \in EventRow : [row EXCEPT !.status = "published"] \in EventRow
BY DEF EventRow, EventStatus

LEMMA CountUp ==
  ASSUME NEW S, NEW f \in [S -> Nat], NEW e \in S
  PROVE  [f EXCEPT ![e] = @ + 1] \in [S -> Nat]
OBVIOUS

LEMMA StrandType ==
  ASSUME TypeOK, NEW P, Strand(P)
  PROVE  adrift' \in [Events -> Nat]
BY DEF TypeOK, Strand

LEMMA HandlerType == TypeOK /\ (\E h \in Handlers : HandlerStep(h)) => TypeOK'
<1> SUFFICES ASSUME TypeOK, NEW h \in Handlers, HandlerStep(h)
             PROVE  TypeOK'
    OBVIOUS
<1> USE ConstantsAssumption DEF TypeOK, Procs, PublishPc, HoldingPc, RecoverPc
<1>1. CASE \E t \in Tasks : Submit(h, t)
      BY <1>1 DEF Submit, Goto, Fault
<1>2. CASE Insert(h)
  <2>1. CASE ~ TaskIdFree(cur[h]) /\ Goto(h, "idle", None) /\ UNCHANGED <<task, outbox>>
        BY <1>2, <2>1 DEF Insert, Goto
  <2>2. CASE TaskIdFree(cur[h])
    <3>1. PICK e \in Events :
             /\ task' = [task EXCEPT ![cur[h]] = "pending"]
             /\ outbox' = [outbox EXCEPT ![e] = NewRow(cur[h])]
             /\ Goto(h, "lock", e)
          BY <1>2, <2>2 DEF Insert
    <3>2. cur[h] \in Tasks
          BY <1>2 DEF Insert
    <3>3. outbox' \in [Events -> EventRow]
          BY <3>1, <3>2, NewRowType
    <3>4. task' \in [Tasks -> TaskStatus \cup {"absent"}]
          BY <3>1, <3>2 DEF TaskStatus
    <3>5. QED
          BY <1>2, <3>1, <3>3, <3>4 DEF Insert, Goto
  <2>3. QED
        BY <1>2, <2>1, <2>2 DEF Insert
<1>3. QED
      BY <1>1, <1>2 DEF HandlerStep

LEMMA PublishType == TypeOK /\ (\E p \in Procs : PublishStep(p)) => TypeOK'
<1> SUFFICES ASSUME TypeOK, NEW p \in Procs, PublishStep(p)
             PROVE  TypeOK'
    OBVIOUS
<1> USE ConstantsAssumption DEF TypeOK, Procs, PublishPc, HoldingPc, RecoverPc
<1>1. CASE BeginPublish(p)
      BY <1>1 DEF BeginPublish, Goto, Finish, Return, AfterPublish
<1>2. CASE Ack(p)
  <2>1. copies' = [copies EXCEPT ![cur[p]] = @ + 1]
        BY <1>2 DEF Ack
  <2>2. cur[p] \in Events /\ copies \in [Events -> Nat]
        BY <1>2 DEF Ack
  <2>3. copies' \in [Events -> Nat]
        BY <2>1, <2>2, CountUp
  <2>4. QED
        BY <1>2, <2>3 DEF Ack, Goto
<1>3. CASE Fail(p)
      BY <1>3, StrandType DEF Fail, Fault, Finish, Goto, Return
<1>4. CASE GiveUp(p)
      BY <1>4 DEF GiveUp, Quit, Goto
<1>5. CASE Commit(p)
  <2>1. outbox' = [outbox EXCEPT ![cur[p]].status = "published"]
        BY <1>5 DEF Commit, Published
  <2>2. outbox' \in [Events -> EventRow]
        BY <2>1, PublishedRowType
  <2>3. QED
        BY <1>5, <2>2 DEF Commit, Finish, Goto, Return
<1>6. CASE Returned(p)
  <2>1. cur[p] \in Events /\ returned' = returned \cup {cur[p]}
        BY <1>6 DEF Returned
  <2>2. returned' \subseteq Events
        BY <2>1
  <2>3. QED
        BY <1>6, <2>2 DEF Returned, Fault, Goto
<1>7. QED
      BY <1>1, <1>2, <1>3, <1>4, <1>5, <1>6 DEF PublishStep

LEMMA LoopType == TypeOK /\ (\E s \in Servers : LoopStep(s)) => TypeOK'
<1> SUFFICES ASSUME TypeOK, NEW s \in Servers, LoopStep(s)
             PROVE  TypeOK'
    OBVIOUS
<1> USE ConstantsAssumption DEF TypeOK, Procs, PublishPc, HoldingPc, RecoverPc
<1>1. CASE Tick(s)
      BY <1>1 DEF Tick, Goto, Oldest, Eligible
<1>2. CASE NextEvent(s)
      BY <1>2 DEF NextEvent, Goto, Oldest
<1>3. CASE ListTasks(s)
      BY <1>3 DEF ListTasks, Goto
<1>4. CASE \E t \in Tasks : Inspect(s, t)
      BY <1>4 DEF Inspect, Goto
<1>5. CASE Count(s)
      BY <1>5 DEF Count, Goto
<1>6. CASE Requeue(s)
      BY <1>6 DEF Requeue, Goto, TaskStatus
<1>7. CASE Recreate(s)
  <2>1. outbox' \in [Events -> EventRow]
        BY <1>7, NewRowType DEF Recreate
  <2>2. task' \in [Tasks -> TaskStatus \cup {"absent"}]
        BY <1>7 DEF Recreate, TaskStatus
  <2>3. QED
        BY <1>7, <2>1, <2>2 DEF Recreate, Goto
<1>8. CASE EndTick(s)
      BY <1>8 DEF EndTick, Goto
<1>9. QED
      BY <1>1, <1>2, <1>3, <1>4, <1>5, <1>6, <1>7, <1>8 DEF LoopStep

\* Crashes, lost connections, failing statements and contexts that end
FaultStep ==
  \/ \E s \in Servers : Crash(s) \/ LoseConnection(s)
  \/ \E p \in Procs : StatementFails(p) \/ Abort(p)

LEMMA FaultType == TypeOK /\ FaultStep => TypeOK'
<1> USE ConstantsAssumption DEF TypeOK, Procs, PublishPc, HoldingPc, RecoverPc, Fault
<1>1. ASSUME TypeOK, NEW s \in Servers, Crash(s)
      PROVE  TypeOK'
      BY <1>1, StrandType DEF Crash
<1>2. ASSUME TypeOK, NEW s \in Servers, LoseConnection(s)
      PROVE  TypeOK'
      BY <1>2, StrandType DEF LoseConnection
<1>3. ASSUME TypeOK, NEW p \in Procs, Abort(p)
      PROVE  TypeOK'
      BY <1>3, StrandType DEF Abort, Quit, Goto
<1>4. ASSUME TypeOK, NEW p \in Procs, StatementFails(p)
      PROVE  TypeOK'
  <2>1. adrift' \in [Events -> Nat] /\ faults' \in Nat /\ todo' \in [Servers -> SUBSET Tasks]
    <3>1. adrift' \in [Events -> Nat]
          BY <1>4, StrandType DEF StatementFails
    <3>2. UNCHANGED todo \/ \E S \in SUBSET Tasks : todo' = [todo EXCEPT ![p] = S]
          BY <1>4 DEF StatementFails
    <3>3. QED
          BY <1>4, <3>1, <3>2 DEF StatementFails
  <2>2. CASE pc[p] \in {"lock", "confirm", "commit"}
    <3>1. Finish(p) /\ UNCHANGED loops /\ UNCHANGED <<task, outbox, copies, returned, chan, working>>
          BY <1>4, <2>2 DEF StatementFails
    <3>2. QED
          BY <1>4, <2>1, <3>1 DEF Finish, Goto, Return
  <2>3. CASE pc[p] \notin {"lock", "confirm", "commit"}
        BY <1>4, <2>1, <2>3 DEF StatementFails, Goto
  <2>4. QED
        BY <2>2, <2>3
<1>5. QED
      BY <1>1, <1>2, <1>3, <1>4 DEF FaultStep

LEMMA EnvironmentType == TypeOK /\ Environment => TypeOK'
<1>1. ASSUME TypeOK, NEW e \in Events, StoreLate(e)
      PROVE  TypeOK'
  <2>1. copies' \in [Events -> Nat] /\ adrift' \in [Events -> Nat]
        BY <1>1 DEF StoreLate, TypeOK
  <2>2. QED
        BY <1>1, <2>1 DEF StoreLate, TypeOK
<1>2. ASSUME TypeOK, NEW t \in Tasks, StartTask(t) \/ SaveTask(t) \/ StopTask(t) \/ CancelTask(t)
      PROVE  TypeOK'
      BY <1>2 DEF StartTask, SaveTask, StopTask, CancelTask, TypeOK, TaskStatus
<1>3. QED
      BY <1>1, <1>2 DEF Environment

LEMMA TypeStep == TypeOK /\ [Next]_vars => TypeOK'
<1>1. TypeOK /\ UNCHANGED vars => TypeOK'
      BY DEF TypeOK, vars
<1>2. QED
      BY <1>1, HandlerType, PublishType, LoopType, FaultType, EnvironmentType DEF Next, FaultStep

THEOREM TypeCorrect == Spec => []TypeOK
<1>1. QED
      BY TypeInit, TypeStep, PTL DEF Spec

-----------------------------------------------------------------------------
(* The row lock *)

\* Only BeginPublish takes a lock; every other step keeps or drops locks.
LEMMA LocksKept ==
  ASSUME OnePublisher,
         \A q \in Procs : pc'[q] \in HoldingPc => pc[q] \in HoldingPc /\ cur'[q] = cur[q]
  PROVE  OnePublisher'
BY DEF OnePublisher, Holds

\* Rows that are pending and locked are not written by anyone else.
LEMMA HeldKept ==
  ASSUME HeldIsPending,
         \A q \in Procs : pc'[q] \in HoldingPc =>
           /\ pc[q] \in HoldingPc
           /\ cur'[q] = cur[q]
           /\ outbox'[cur[q]].status = outbox[cur[q]].status
  PROVE  HeldIsPending'
BY DEF HeldIsPending

\* A new row is not one that is locked.
LEMMA NewRowUnheld ==
  ASSUME LockInv, NEW e \in Events, IsNewEvent(e), NEW t \in Tasks,
         outbox' = [outbox EXCEPT ![e] = NewRow(t)],
         NEW q \in Procs, pc[q] \in HoldingPc
  PROVE  outbox'[cur[q]].status = outbox[cur[q]].status
<1>1. outbox[e].status = "absent"
      BY ConstantsAssumption DEF IsNewEvent, Exists
<1>2. cur[q] # e
      BY <1>1 DEF LockInv, HeldIsPending
<1>3. QED
      BY <1>2 DEF LockInv, TypeOK

LEMMA HandlerLock == LockInv /\ (\E h \in Handlers : HandlerStep(h)) => OnePublisher' /\ HeldIsPending'
<1> SUFFICES ASSUME LockInv, NEW h \in Handlers, HandlerStep(h)
             PROVE  OnePublisher' /\ HeldIsPending'
    OBVIOUS
<1>1. CASE \E t \in Tasks : Submit(h, t)
      BY <1>1, LocksKept, HeldKept DEF LockInv, Submit, Goto, HoldingPc, TypeOK, Procs
<1>2. CASE Insert(h)
  <2>1. \A q \in Procs : pc'[q] \in HoldingPc => pc[q] \in HoldingPc /\ cur'[q] = cur[q]
        BY <1>2 DEF LockInv, Insert, Goto, HoldingPc, TypeOK, Procs
  <2>2. ASSUME NEW q \in Procs, pc[q] \in HoldingPc
        PROVE  outbox'[cur[q]].status = outbox[cur[q]].status
    <3>1. CASE UNCHANGED outbox
          BY <3>1
    <3>2. CASE \E e \in Events : IsNewEvent(e) /\ outbox' = [outbox EXCEPT ![e] = NewRow(cur[h])]
      <4>1. cur[h] \in Tasks
            BY <1>2 DEF LockInv, TypeOK, Insert, Procs
      <4>2. QED
            BY <3>2, <4>1, <2>2, NewRowUnheld
    <3>3. QED
          BY <1>2, <3>1, <3>2 DEF Insert
  <2>3. QED
        BY <2>1, <2>2, LocksKept, HeldKept DEF LockInv
<1>3. QED
      BY <1>1, <1>2 DEF HandlerStep

LEMMA PublishLock == LockInv /\ (\E p \in Procs : PublishStep(p)) => OnePublisher' /\ HeldIsPending'
<1> SUFFICES ASSUME LockInv, NEW p \in Procs, PublishStep(p)
             PROVE  OnePublisher' /\ HeldIsPending'
    OBVIOUS
<1> USE DEF LockInv, HoldingPc, Finish, Goto, Return, TypeOK
<1>1. CASE BeginPublish(p)
  <2>1. CASE StillPending(cur[p]) /\ Goto(p, AfterPublish(p), cur[p])
        BY <1>1, <2>1 DEF BeginPublish, AfterPublish, StillPending, RowFree, Holds,
                          OnePublisher, HeldIsPending
  <2>2. CASE Finish(p)
        BY <1>1, <2>2, LocksKept, HeldKept DEF BeginPublish
  <2>3. QED
        BY <1>1, <2>1, <2>2 DEF BeginPublish
<1>2. CASE Ack(p)
      BY <1>2, LocksKept, HeldKept DEF Ack
<1>3. CASE Fail(p)
      BY <1>3, LocksKept, HeldKept DEF Fail
<1>4. CASE GiveUp(p)
      BY <1>4, LocksKept, HeldKept DEF GiveUp, Quit
<1>5. CASE Commit(p)
  <2>1. \A q \in Procs : pc'[q] \in HoldingPc => q # p /\ pc[q] \in HoldingPc /\ cur'[q] = cur[q]
        BY <1>5 DEF Commit
  <2>2. ASSUME NEW q \in Procs, q # p, pc[q] \in HoldingPc
        PROVE  outbox'[cur[q]].status = outbox[cur[q]].status
    <3>1. cur[p] \in Events /\ cur[q] \in Events
          BY <1>5, <2>2 DEF Commit, PublishPc
    <3>2. cur[q] # cur[p]
          BY <1>5, <2>2, <3>1 DEF Commit, OnePublisher, Holds
    <3>3. QED
          BY <1>5, <3>1, <3>2 DEF Commit, Published
  <2>3. QED
        BY <2>1, <2>2, LocksKept, HeldKept
<1>6. CASE Returned(p)
      BY <1>6, LocksKept, HeldKept DEF Returned
<1>7. QED
      BY <1>1, <1>2, <1>3, <1>4, <1>5, <1>6 DEF PublishStep

LEMMA LoopLock == LockInv /\ (\E s \in Servers : LoopStep(s)) => OnePublisher' /\ HeldIsPending'
<1> SUFFICES ASSUME LockInv, NEW s \in Servers, LoopStep(s)
             PROVE  OnePublisher' /\ HeldIsPending'
    OBVIOUS
<1> USE DEF LockInv, HoldingPc, Goto, TypeOK, Procs
<1>1. \A q \in Procs : pc'[q] \in HoldingPc => pc[q] \in HoldingPc /\ cur'[q] = cur[q]
      BY DEF LoopStep, Tick, NextEvent, ListTasks, Inspect, Count, Requeue, Recreate, EndTick
<1>2. ASSUME NEW q \in Procs, pc[q] \in HoldingPc
      PROVE  outbox'[cur[q]].status = outbox[cur[q]].status
  <2>1. CASE UNCHANGED outbox
        BY <2>1
  <2>2. CASE Recreate(s)
    <3>1. cur[s] \in Tasks
          BY <2>2 DEF Recreate, RecoverPc
    <3>2. QED
          BY <1>2, <2>2, <3>1, NewRowUnheld DEF Recreate
  <2>3. QED
        BY <2>1, <2>2 DEF LoopStep, Tick, NextEvent, ListTasks, Inspect, Count, Requeue, EndTick
<1>3. QED
      BY <1>1, <1>2, LocksKept, HeldKept

LEMMA FaultLock == LockInv /\ FaultStep => OnePublisher' /\ HeldIsPending'
<1> SUFFICES ASSUME LockInv, FaultStep
             PROVE  OnePublisher' /\ HeldIsPending'
    OBVIOUS
<1>1. \A q \in Procs : pc'[q] \in HoldingPc => pc[q] \in HoldingPc /\ cur'[q] = cur[q]
  <2> USE DEF LockInv, HoldingPc, TypeOK
  <2>1. CASE \E s \in Servers : Crash(s)
        BY <2>1 DEF Crash
  <2>2. CASE \E s \in Servers : LoseConnection(s)
        BY <2>2 DEF LoseConnection
  <2>3. CASE \E p \in Procs : Abort(p)
        BY <2>3 DEF Abort, Quit, Goto
  <2>4. CASE \E p \in Procs : StatementFails(p)
        BY <2>4 DEF StatementFails, Finish, Return, Goto
  <2>5. QED
        BY <2>1, <2>2, <2>3, <2>4 DEF FaultStep
<1>2. UNCHANGED outbox
      BY DEF FaultStep, Crash, LoseConnection, StatementFails, Abort
<1>3. QED
      BY <1>1, <1>2, LocksKept, HeldKept DEF LockInv

LEMMA EnvironmentLock == LockInv /\ Environment => OnePublisher' /\ HeldIsPending'
BY LocksKept, HeldKept DEF LockInv, Environment, StartTask, SaveTask, StopTask, CancelTask, StoreLate

LEMMA LockStep == LockInv /\ [Next]_vars => LockInv'
<1>1. LockInv /\ UNCHANGED vars => OnePublisher' /\ HeldIsPending'
      BY LocksKept, HeldKept DEF LockInv, vars
<1>2. LockInv /\ [Next]_vars => TypeOK'
      BY TypeStep DEF LockInv
<1>3. QED
      BY <1>1, <1>2, HandlerLock, PublishLock, LoopLock, FaultLock, EnvironmentLock
      DEF Next, FaultStep, LockInv

LEMMA LockInit == Init => LockInv
<1>1. Init => OnePublisher /\ HeldIsPending
      BY DEF Init, OnePublisher, HeldIsPending, Holds, HoldingPc
<1>2. QED
      BY <1>1, TypeInit DEF LockInv

\* SELECT FOR UPDATE admits one publisher of an event at a time, in all replicas.
THEOREM RowLock == Spec => []OnePublisher
<1>1. LockInv => OnePublisher
      BY DEF LockInv
<1>2. QED
      BY <1>1, LockInit, LockStep, PTL DEF Spec

-----------------------------------------------------------------------------
(* Delivery: no event is lost, no copy is free *)

\* A message under way belongs to an event that is not sent yet.
LEMMA InFlightUnsent ==
  ASSUME LockInv, NEW e \in InFlight(Procs)
  PROVE  e \in Events /\ ~ Sent(e) /\ outbox[e].status = "pending"
<1>1. PICK p \in Procs : pc[p] = "confirm" /\ cur[p] = e
      BY DEF InFlight
<1>2. e \in Events
      BY <1>1 DEF LockInv, TypeOK, PublishPc, HoldingPc
<1>3. outbox[e].status = "pending"
      BY <1>1 DEF LockInv, HeldIsPending, HoldingPc
<1>4. ASSUME NEW q \in Procs, pc[q] = "commit", cur[q] = e
      PROVE  FALSE
  <2>1. p = q
        BY <1>1, <1>2, <1>4 DEF LockInv, OnePublisher, Holds, HoldingPc
  <2>2. QED
        BY <1>1, <1>4, <2>1
<1>5. QED
      BY <1>2, <1>3, <1>4 DEF Sent

\* A step that sends nothing and forgets nothing that was sent.
LEMMA DeliveryKept ==
  ASSUME TypeOK, DeliveryInv, UNCHANGED messages, faults' \in Nat, faults' >= faults,
         \A e \in Events : (outbox'[e].status = "published") = (outbox[e].status = "published"),
         \A q \in Procs : (pc'[q] = "commit") = (pc[q] = "commit"),
         \A q \in Procs : pc[q] = "commit" => cur'[q] = cur[q]
  PROVE  DeliveryInv'
<1>1. PublishedWasEnqueued' /\ AckedWasEnqueued'
      BY DEF DeliveryInv, PublishedWasEnqueued, AckedWasEnqueued
<1>2. ASSUME NEW e \in Events
      PROVE  Sent(e)' = Sent(e)
      BY DEF Sent
<1>3. DuplicatesArePaid'
      BY <1>2 DEF DeliveryInv, DuplicatesArePaid, TypeOK
<1>4. QED
      BY <1>1, <1>3 DEF DeliveryInv

\* A fault may set messages under way adrift, and may undo an ack whose
\* transaction has not committed: either way it pays for one message.
LEMMA FaultPays ==
  ASSUME LockInv, DeliveryInv, UNCHANGED <<outbox, copies, returned>>, faults' = faults + 1,
         NEW P \in SUBSET Procs, Strand(P),
         \A q \in Procs : pc'[q] = "commit" => pc[q] = "commit" /\ cur'[q] = cur[q]
  PROVE  DeliveryInv'
<1> USE DEF LockInv, TypeOK
<1>1. PublishedWasEnqueued' /\ AckedWasEnqueued'
      BY DEF DeliveryInv, PublishedWasEnqueued, AckedWasEnqueued
<1>2. ASSUME NEW e \in Events
      PROVE  copies'[e] + adrift'[e] <= faults' + (IF Sent(e)' THEN 1 ELSE 0)
  <2>1. copies[e] + adrift[e] <= faults + (IF Sent(e) THEN 1 ELSE 0)
        BY DEF DeliveryInv, DuplicatesArePaid
  <2>2. CASE e \in InFlight(P)
    <3>1. ~ Sent(e)
          BY <2>2, InFlightUnsent DEF InFlight
    <3>2. adrift'[e] = adrift[e] + 1
          BY <2>2 DEF Strand
    <3>3. QED
          BY <2>1, <3>1, <3>2
  <2>3. CASE e \notin InFlight(P)
        BY <2>1, <2>3 DEF Strand
  <2>4. QED
        BY <2>2, <2>3
<1>3. QED
      BY <1>1, <1>2 DEF DeliveryInv, DuplicatesArePaid

LEMMA HandlerDelivery ==
  LockInv /\ DeliveryInv /\ (\E h \in Handlers : HandlerStep(h)) => DeliveryInv'
<1> SUFFICES ASSUME LockInv, DeliveryInv, NEW h \in Handlers, HandlerStep(h)
             PROVE  DeliveryInv'
    OBVIOUS
<1> USE DEF LockInv, TypeOK, Goto, Procs
<1>1. CASE \E t \in Tasks : Submit(h, t)
      BY <1>1, DeliveryKept DEF Submit, Fault
<1>2. CASE Insert(h)
  <2>1. \A e \in Events : (outbox'[e].status = "published") = (outbox[e].status = "published")
    <3>1. \A e \in Events : IsNewEvent(e) => outbox[e].status = "absent"
          BY ConstantsAssumption DEF IsNewEvent, Exists
    <3>2. QED
          BY <1>2, <3>1 DEF Insert, NewRow
  <2>2. QED
        BY <1>2, <2>1, DeliveryKept DEF Insert
<1>3. QED
      BY <1>1, <1>2 DEF HandlerStep

LEMMA PublishDelivery ==
  LockInv /\ DeliveryInv /\ (\E p \in Procs : PublishStep(p)) => DeliveryInv'
<1> SUFFICES ASSUME LockInv, DeliveryInv, NEW p \in Procs, PublishStep(p)
             PROVE  DeliveryInv'
    OBVIOUS
<1> USE DEF LockInv, TypeOK, Goto, Finish, Return
<1>1. CASE BeginPublish(p)
      BY <1>1, DeliveryKept DEF BeginPublish, AfterPublish
<1>2. CASE Ack(p) \/ Returned(p)
  <2>1. cur[p] \in Events /\ ~ Sent(cur[p])
        BY <1>2, InFlightUnsent DEF Ack, Returned, InFlight
  <2>2. /\ pc' = [pc EXCEPT ![p] = "commit"] /\ cur' = [cur EXCEPT ![p] = cur[p]]
        /\ UNCHANGED <<outbox, adrift>> /\ faults' \in Nat /\ faults' >= faults
        /\ returned \subseteq returned'
        BY <1>2 DEF Ack, Returned, Fault
  <2>3. /\ \A e \in Events \ {cur[p]} : copies'[e] = copies[e]
        /\ copies'[cur[p]] \in {copies[cur[p]], copies[cur[p]] + 1}
        /\ copies'[cur[p]] > 0 \/ cur[p] \in returned'
        BY <1>2, <2>1 DEF Ack, Returned
  <2>4. PublishedWasEnqueued' /\ AckedWasEnqueued'
        BY <2>1, <2>2, <2>3
        DEF DeliveryInv, PublishedWasEnqueued, AckedWasEnqueued, PublishPc, HoldingPc
  <2>5. ASSUME NEW e \in Events
        PROVE  copies'[e] + adrift'[e] <= faults' + (IF Sent(e)' THEN 1 ELSE 0)
    <3>1. copies[e] + adrift[e] <= faults + (IF Sent(e) THEN 1 ELSE 0)
          BY DEF DeliveryInv, DuplicatesArePaid
    <3>2. CASE e = cur[p]
      <4>1. Sent(e)'
            BY <2>2, <3>2 DEF Sent
      <4>2. QED
            BY <2>1, <2>2, <2>3, <3>1, <3>2, <4>1
    <3>3. CASE e # cur[p]
      <4>1. Sent(e) => Sent(e)'
            BY <2>2, <3>3 DEF Sent
      <4>2. QED
            BY <2>2, <2>3, <3>1, <3>3, <4>1
    <3>4. QED
          BY <3>2, <3>3
  <2>6. QED
        BY <2>4, <2>5 DEF DeliveryInv, DuplicatesArePaid
<1>3. CASE Fail(p)
      BY <1>3, FaultPays DEF Fail, Fault
<1>4. CASE GiveUp(p)
      BY <1>4, DeliveryKept DEF GiveUp, Quit
<1>5. CASE Commit(p)
  <2>1. cur[p] \in Events /\ (copies[cur[p]] > 0 \/ cur[p] \in returned)
        BY <1>5 DEF Commit, PublishPc, HoldingPc, DeliveryInv, AckedWasEnqueued
  <2>2. PublishedWasEnqueued' /\ AckedWasEnqueued'
        BY <1>5, <2>1
        DEF Commit, Published, DeliveryInv, PublishedWasEnqueued, AckedWasEnqueued
  <2>3. ASSUME NEW e \in Events, Sent(e)
        PROVE  Sent(e)'
        BY <1>5, <2>1, <2>3 DEF Commit, Published, Sent, EventRow
  <2>4. DuplicatesArePaid'
        BY <1>5, <2>3 DEF Commit, DeliveryInv, DuplicatesArePaid
  <2>5. QED
        BY <2>2, <2>4 DEF DeliveryInv
<1>6. QED
      BY <1>1, <1>2, <1>3, <1>4, <1>5 DEF PublishStep

LEMMA LoopDelivery ==
  LockInv /\ DeliveryInv /\ (\E s \in Servers : LoopStep(s)) => DeliveryInv'
<1> SUFFICES ASSUME LockInv, DeliveryInv, NEW s \in Servers, LoopStep(s)
             PROVE  DeliveryInv'
    OBVIOUS
<1> USE DEF LockInv, TypeOK, Goto, Procs
<1>1. \A e \in Events : (outbox'[e].status = "published") = (outbox[e].status = "published")
  <2>1. CASE UNCHANGED outbox
        BY <2>1
  <2>2. CASE Recreate(s)
    <3>1. \A e \in Events : IsNewEvent(e) => outbox[e].status = "absent"
          BY ConstantsAssumption DEF IsNewEvent, Exists
    <3>2. QED
          BY <2>2, <3>1 DEF Recreate, NewRow
  <2>3. QED
        BY <2>1, <2>2 DEF LoopStep, Tick, NextEvent, ListTasks, Inspect, Count, Requeue, EndTick
<1>2. UNCHANGED <<messages, faults>>
      BY DEF LoopStep, Tick, NextEvent, ListTasks, Inspect, Count, Requeue, Recreate, EndTick
<1>3. /\ \A q \in Procs : (pc'[q] = "commit") = (pc[q] = "commit")
      /\ \A q \in Procs : pc[q] = "commit" => cur'[q] = cur[q]
      BY DEF LoopStep, Tick, NextEvent, ListTasks, Inspect, Count, Requeue, Recreate, EndTick
<1>4. QED
      BY <1>1, <1>2, <1>3, DeliveryKept

LEMMA FaultDelivery == LockInv /\ DeliveryInv /\ FaultStep => DeliveryInv'
<1> USE DEF LockInv, TypeOK
<1>1. ASSUME LockInv, DeliveryInv, NEW s \in Servers, Crash(s) \/ LoseConnection(s)
      PROVE  DeliveryInv'
  <2>1. Hosted(s) \in SUBSET Procs /\ Strand(Hosted(s))
        BY <1>1 DEF Crash, LoseConnection, Hosted
  <2>2. \A q \in Procs : pc'[q] = "commit" => pc[q] = "commit" /\ cur'[q] = cur[q]
        BY <1>1 DEF Crash, LoseConnection
  <2>3. QED
        BY <1>1, <2>1, <2>2, FaultPays DEF Crash, LoseConnection, Fault
<1>2. ASSUME LockInv, DeliveryInv, NEW p \in Procs, StatementFails(p) \/ Abort(p)
      PROVE  DeliveryInv'
  <2>1. {p} \in SUBSET Procs /\ Strand({p})
        BY <1>2 DEF StatementFails, Abort
  <2>2. \A q \in Procs : pc'[q] = "commit" => pc[q] = "commit" /\ cur'[q] = cur[q]
        BY <1>2 DEF StatementFails, Abort, Finish, Return, Quit, Goto
  <2>3. QED
        BY <1>2, <2>1, <2>2, FaultPays DEF StatementFails, Abort, Fault
<1>3. QED
      BY <1>1, <1>2 DEF FaultStep

\* A message that is stored late was paid for when it was set adrift.
LEMMA LateDelivery == LockInv /\ DeliveryInv /\ (\E e \in Events : StoreLate(e)) => DeliveryInv'
<1> SUFFICES ASSUME LockInv, DeliveryInv, NEW d \in Events, StoreLate(d)
             PROVE  DeliveryInv'
    OBVIOUS
<1> USE DEF LockInv, TypeOK
<1>1. /\ UNCHANGED <<outbox, returned, pc, cur, faults>>
      /\ \A e \in Events : /\ copies'[e] + adrift'[e] = copies[e] + adrift[e]
                           /\ copies'[e] >= copies[e]
  <2>1. /\ copies'[d] = copies[d] + 1 /\ adrift'[d] = adrift[d] - 1
        /\ copies[d] \in Nat /\ adrift[d] \in Nat
        BY DEF StoreLate
  <2>2. \A e \in Events \ {d} : /\ copies'[e] = copies[e] /\ adrift'[e] = adrift[e]
                                /\ copies[e] \in Nat /\ adrift[e] \in Nat
        BY DEF StoreLate
  <2>3. UNCHANGED <<outbox, returned, pc, cur, faults>>
        BY DEF StoreLate
  <2>4. ASSUME NEW e \in Events
        PROVE  copies'[e] + adrift'[e] = copies[e] + adrift[e] /\ copies'[e] >= copies[e]
    <3>1. CASE e = d
          BY <2>1, <3>1
    <3>2. CASE e # d
          BY <2>2, <3>2
    <3>3. QED
          BY <3>1, <3>2
  <2>5. QED
        BY <2>3, <2>4
<1>2. PublishedWasEnqueued'
  <2>1. \A e \in Events : copies[e] \in Nat /\ copies'[e] \in Nat
        BY DEF StoreLate
  <2>2. \A e \in Events : copies[e] > 0 => copies'[e] > 0
        BY <1>1, <2>1
  <2>3. QED
        BY <1>1, <2>2 DEF DeliveryInv, PublishedWasEnqueued
<1>3. AckedWasEnqueued'
  <2> SUFFICES ASSUME NEW p \in Procs, pc[p] = "commit"
               PROVE  copies'[cur[p]] > 0 \/ cur[p] \in returned
      BY <1>1 DEF AckedWasEnqueued
  <2>1. cur[p] \in Events /\ (copies[cur[p]] > 0 \/ cur[p] \in returned)
        BY DEF DeliveryInv, AckedWasEnqueued, PublishPc, HoldingPc
  <2>2. copies'[cur[p]] \in Nat /\ copies'[cur[p]] >= copies[cur[p]]
        BY <1>1, <2>1 DEF StoreLate
  <2>3. QED
        BY <2>1, <2>2
<1>4. \A e \in Events : Sent(e)' = Sent(e)
      BY <1>1 DEF Sent
<1>5. DuplicatesArePaid'
      BY <1>1, <1>4 DEF DeliveryInv, DuplicatesArePaid
<1>6. QED
      BY <1>2, <1>3, <1>5 DEF DeliveryInv

LEMMA DeliveryStep == LockInv /\ DeliveryInv /\ [Next]_vars => DeliveryInv'
<1>1. LockInv /\ DeliveryInv /\ UNCHANGED vars => DeliveryInv'
      BY DeliveryKept DEF LockInv, TypeOK, vars
<1>2. LockInv /\ DeliveryInv
        /\ (\E t \in Tasks : StartTask(t) \/ SaveTask(t) \/ StopTask(t) \/ CancelTask(t))
          => DeliveryInv'
      BY DeliveryKept DEF LockInv, TypeOK, StartTask, SaveTask, StopTask, CancelTask
<1>3. QED
      BY <1>1, <1>2, HandlerDelivery, PublishDelivery, LoopDelivery, FaultDelivery, LateDelivery
      DEF Next, FaultStep, Environment

LEMMA DeliveryInit == Init => DeliveryInv
BY DEF Init, DeliveryInv, PublishedWasEnqueued, AckedWasEnqueued, DuplicatesArePaid, NoRow

LEMMA DeliveryInvariant == Spec => [](LockInv /\ DeliveryInv)
<1>1. QED
      BY LockInit, DeliveryInit, LockStep, DeliveryStep, PTL DEF Spec

\* A row that says published stands for a message that the durable queue has, or
\* that the broker returned: nothing else closes an event.
THEOREM NoLostMessage == Spec => []PublishedWasEnqueued
<1>1. DeliveryInv => PublishedWasEnqueued
      BY DEF DeliveryInv
<1>2. QED
      BY <1>1, DeliveryInvariant, PTL

\* However many handlers and loops race, only faults make duplicates.
THEOREM DuplicatesBounded == Spec => []DuplicatesArePaid
<1>1. DeliveryInv => DuplicatesArePaid
      BY DEF DeliveryInv
<1>2. QED
      BY <1>1, DeliveryInvariant, PTL
-----------------------------------------------------------------------------
(* The two tables together *)

\* Steps that neither insert a row nor queue a task.
LEMMA TablesKept ==
  ASSUME RowInv,
         \A e \in Events : outbox'[e].task = outbox[e].task,
         \A e \in Events : (outbox'[e].status = "absent") = (outbox[e].status = "absent"),
         \A t \in Tasks : (task'[t] = "absent") = (task[t] = "absent"),
         \A t \in Tasks : task'[t] = "queued" => task[t] = "queued",
         \A t \in Tasks : working'[t] => working[t] \/ task[t] # "absent"
  PROVE  RowsNameTasks' /\ WorkHasRow' /\ OneEventPerTask' /\ QueuedHasEvent'
<1>1. RowsNameTasks'
      BY DEF RowInv, RowsNameTasks, Exists
<1>2. \A t \in Tasks : EventsOf(t)' = EventsOf(t)
      BY DEF EventsOf
<1>3. OneEventPerTask'
      BY <1>2 DEF RowInv, OneEventPerTask
<1>4. QueuedHasEvent'
      BY <1>2 DEF RowInv, QueuedHasEvent
<1>5. WorkHasRow'
      BY DEF RowInv, WorkHasRow
<1>6. QED
      BY <1>1, <1>3, <1>4, <1>5

\* What a recovery transaction has read stays true while others move: tasks
\* do not disappear and events only accumulate.
LEMMA ReadsKept ==
  ASSUME RowInv, TypeOK,
         \A t \in Tasks : task[t] # "absent" => task'[t] # "absent",
         \A t \in Tasks : EventsOf(t) \subseteq EventsOf(t)',
         \A s \in Servers : pc'[s] \in RecoverPc => pc'[s] = pc[s] /\ cur'[s] = cur[s]
  PROVE  RecoveryReadsHold'
<1> SUFFICES ASSUME NEW s \in Servers, pc'[s] \in RecoverPc
             PROVE  /\ task'[cur'[s]] # "absent"
                    /\ pc'[s] = "requeue" => \E e \in Events : outbox'[e].task = cur'[s]
                    /\ pc'[s] = "recreate" => cur'[s] \in Seeded
    BY DEF RecoveryReadsHold, RecoverPc, EventsOf
<1>1. PICK t \in Tasks : pc'[s] = pc[s] /\ cur'[s] = t /\ cur[s] = t
      BY DEF TypeOK, Procs
<1>2. /\ task[t] # "absent"
      /\ pc[s] = "requeue" => \E e \in Events : outbox[e].task = t
      /\ pc[s] = "recreate" => t \in Seeded
      BY <1>1 DEF RowInv, RecoveryReadsHold, EventsOf
<1>3. (\E e \in Events : outbox[e].task = t) => (\E e \in Events : outbox'[e].task = t)
      BY DEF EventsOf
<1>4. QED
      BY <1>1, <1>2, <1>3

\* A row inserted for t adds one event to t and none to another task.
LEMMA NewRowEvents ==
  ASSUME TypeOK, RowInv, NEW e \in Events, IsNewEvent(e), NEW t \in Tasks,
         outbox' = [outbox EXCEPT ![e] = NewRow(t)]
  PROVE  /\ RowsNameTasks'
         /\ EventsOf(t)' = EventsOf(t) \cup {e}
         /\ \A u \in Tasks \ {t} : EventsOf(u)' = EventsOf(u)
<1>1. outbox[e].status = "absent"
      BY ConstantsAssumption DEF IsNewEvent, Exists
<1>2. outbox[e].task \notin Tasks
      BY <1>1 DEF RowInv, RowsNameTasks, Exists
<1>3. /\ outbox'[e].task = t /\ outbox'[e].status = "pending"
      /\ \A d \in Events \ {e} : outbox'[d] = outbox[d]
      BY DEF TypeOK, NewRow
<1>4. RowsNameTasks'
      BY <1>3 DEF RowInv, RowsNameTasks, Exists
<1>5. QED
      BY <1>2, <1>3, <1>4 DEF EventsOf

LEMMA HandlerRows ==
  LockInv /\ RowInv /\ (\E h \in Handlers : HandlerStep(h)) => RowInv'
<1> SUFFICES ASSUME LockInv, RowInv, NEW h \in Handlers, HandlerStep(h)
             PROVE  RowInv'
    OBVIOUS
<1>0. TypeOK
      BY DEF LockInv
<1>1. \A s \in Servers : pc'[s] \in RecoverPc => pc'[s] = pc[s] /\ cur'[s] = cur[s]
      BY <1>0 DEF HandlerStep, Submit, Insert, Goto, RecoverPc, TypeOK, Procs
<1>2. CASE UNCHANGED <<task, outbox>>
  <2>1. RecoveryReadsHold'
        BY <1>0, <1>1, <1>2, ReadsKept DEF EventsOf
  <2>2. QED
        BY <1>2, <2>1, TablesKept DEF RowInv, HandlerStep, Submit, Insert
<1>3. ASSUME NEW e \in Events, IsNewEvent(e), TaskIdFree(cur[h]), Insert(h),
             task' = [task EXCEPT ![cur[h]] = "pending"],
             outbox' = [outbox EXCEPT ![e] = NewRow(cur[h])]
      PROVE  RowInv'
  <2>1. PICK t \in Tasks : t = cur[h] /\ task[t] = "absent"
        BY <1>0, <1>3 DEF Insert, TaskIdFree, TypeOK, Procs
  <2>2. /\ RowsNameTasks'
        /\ EventsOf(t)' = EventsOf(t) \cup {e}
        /\ \A u \in Tasks \ {t} : EventsOf(u)' = EventsOf(u)
        BY <1>0, <1>3, <2>1, NewRowEvents
  <2>3. task'[t] = "pending" /\ \A u \in Tasks \ {t} : task'[u] = task[u]
        BY <1>0, <1>3, <2>1 DEF TypeOK
  <2>4. RecoveryReadsHold'
        BY <1>0, <1>1, <2>1, <2>2, <2>3, ReadsKept
  <2>5. OneEventPerTask'
    <3>1. t \notin Seeded => EventsOf(t)' = {e}
          BY <2>1, <2>2 DEF RowInv, OneEventPerTask
    <3>2. QED
          BY <2>1, <2>2, <2>3, <3>1 DEF RowInv, OneEventPerTask
  <2>6. QueuedHasEvent'
        BY <2>1, <2>2, <2>3 DEF RowInv, QueuedHasEvent
  <2>7. WorkHasRow'
        BY <1>3, <2>3 DEF Insert, RowInv, WorkHasRow
  <2>8. QED
        BY <2>2, <2>4, <2>5, <2>6, <2>7 DEF RowInv
<1>4. QED
      BY <1>2, <1>3 DEF HandlerStep, Submit, Insert

LEMMA PublishRows ==
  LockInv /\ RowInv /\ (\E p \in Procs : PublishStep(p)) => RowInv'
<1> SUFFICES ASSUME LockInv, RowInv, NEW p \in Procs, PublishStep(p)
             PROVE  RowInv'
    OBVIOUS
<1>0. TypeOK /\ HeldIsPending
      BY DEF LockInv
<1>1. \A s \in Servers : pc'[s] \in RecoverPc => pc'[s] = pc[s] /\ cur'[s] = cur[s]
      BY <1>0 DEF PublishStep, BeginPublish, Ack, Returned, Fail, GiveUp, Commit,
                  Finish, Quit, Goto, Return, AfterPublish, RecoverPc, TypeOK, Procs
<1>2. UNCHANGED task
      BY DEF PublishStep, BeginPublish, Ack, Returned, Fail, GiveUp, Commit
<1>3. /\ \A e \in Events : outbox'[e].task = outbox[e].task
      /\ \A e \in Events : (outbox'[e].status = "absent") = (outbox[e].status = "absent")
  <2>1. CASE UNCHANGED outbox
        BY <2>1
  <2>2. CASE Commit(p)
    <3>1. cur[p] \in Events /\ outbox[cur[p]].status = "pending"
          BY <1>0, <2>2 DEF Commit, TypeOK, HeldIsPending, PublishPc, HoldingPc
    <3>2. \A e \in Events \ {cur[p]} : outbox'[e] = outbox[e]
          BY <1>0, <2>2, <3>1 DEF Commit, Published, TypeOK
    <3>3. outbox'[cur[p]].task = outbox[cur[p]].task /\ outbox'[cur[p]].status = "published"
          BY <1>0, <2>2, <3>1 DEF Commit, Published, TypeOK, EventRow
    <3>4. QED
          BY <3>1, <3>2, <3>3
  <2>3. QED
        BY <2>1, <2>2 DEF PublishStep, BeginPublish, Ack, Returned, Fail, GiveUp
<1>4. RecoveryReadsHold'
      BY <1>0, <1>1, <1>2, <1>3, ReadsKept DEF EventsOf
<1>5. UNCHANGED working
      BY DEF PublishStep, BeginPublish, Ack, Returned, Fail, GiveUp, Commit
<1>6. QED
      BY <1>2, <1>3, <1>4, <1>5, TablesKept DEF RowInv

LEMMA LoopRows ==
  LockInv /\ RowInv /\ (\E s \in Servers : LoopStep(s)) => RowInv'
<1> SUFFICES ASSUME LockInv, RowInv, NEW s \in Servers, LoopStep(s)
             PROVE  RowInv'
    OBVIOUS
<1>0. TypeOK /\ UNCHANGED working
      BY DEF LockInv, LoopStep, Tick, NextEvent, ListTasks, Inspect, Count, Requeue, Recreate, EndTick
<1>1. CASE Tick(s) \/ NextEvent(s) \/ ListTasks(s) \/ EndTick(s)
  <2>1. UNCHANGED <<task, outbox>>
        BY <1>1 DEF Tick, NextEvent, ListTasks, EndTick
  <2>2. \A r \in Servers : pc'[r] \in RecoverPc => pc'[r] = pc[r] /\ cur'[r] = cur[r]
        BY <1>0, <1>1 DEF Tick, NextEvent, ListTasks, EndTick, Goto, RecoverPc, TypeOK, Procs
  <2>3. RecoveryReadsHold'
        BY <1>0, <2>1, <2>2, ReadsKept DEF EventsOf
  <2>4. QED
        BY <1>0, <2>1, <2>3, TablesKept DEF RowInv
<1>2. ASSUME NEW t \in Tasks, Inspect(s, t)
      PROVE  RowInv'
  <2>1. UNCHANGED <<task, outbox>>
        BY <1>2 DEF Inspect
  <2>2. \A u : EventsOf(u)' = EventsOf(u)
        BY <2>1 DEF EventsOf
  <2>3. \A r \in Servers : pc'[r] \in RecoverPc =>
          \/ r # s /\ pc'[r] = pc[r] /\ cur'[r] = cur[r]
          \/ r = s /\ pc'[r] = "count" /\ cur'[r] = t /\ task[t] = "pending"
        BY <1>0, <1>2 DEF Inspect, StillWaits, Goto, RecoverPc, TypeOK, Procs
  <2>4. RecoveryReadsHold'
        BY <2>1, <2>2, <2>3 DEF RowInv, RecoveryReadsHold, RecoverPc
  <2>5. QED
        BY <1>0, <2>1, <2>4, TablesKept DEF RowInv
<1>3. CASE Count(s)
  <2>1. UNCHANGED <<task, outbox, cur>>
        BY <1>0, <1>3 DEF Count, Goto, TypeOK, Procs
  <2>2. \A u : EventsOf(u)' = EventsOf(u)
        BY <2>1 DEF EventsOf
  <2>3. cur[s] \in Tasks /\ task[cur[s]] # "absent"
        BY <1>0, <1>3 DEF Count, RowInv, RecoveryReadsHold, RecoverPc, TypeOK, Procs
  <2>4. \A r \in Servers \ {s} : pc'[r] = pc[r]
        BY <1>0, <1>3 DEF Count, Goto, TypeOK, Procs
  <2>5. /\ pc'[s] = "requeue" => EventsOf(cur[s]) # {}
        /\ pc'[s] = "recreate" => EventsOf(cur[s]) = {}
        BY <1>0, <1>3 DEF Count, CountsEvent, Goto, TypeOK, Procs
  <2>6. pc'[s] = "recreate" => cur[s] \in Seeded
        BY <2>3, <2>5 DEF RowInv, OneEventPerTask
  <2>7. RecoveryReadsHold'
        BY <2>1, <2>2, <2>3, <2>4, <2>5, <2>6 DEF RowInv, RecoveryReadsHold, RecoverPc
  <2>8. QED
        BY <1>0, <2>1, <2>7, TablesKept DEF RowInv
<1>4. CASE Requeue(s) \/ Recreate(s)
  <2>1. PICK t \in Tasks : t = cur[s] /\ task[t] # "absent"
        BY <1>0, <1>4 DEF Requeue, Recreate, RowInv, RecoveryReadsHold, RecoverPc, TypeOK, Procs
  <2>2. task'[t] = "queued" /\ \A u \in Tasks \ {t} : task'[u] = task[u]
        BY <1>0, <1>4, <2>1 DEF Requeue, Recreate, TypeOK
  <2>3. \A r \in Servers : pc'[r] \in RecoverPc => pc'[r] = pc[r] /\ cur'[r] = cur[r]
        BY <1>0, <1>4 DEF Requeue, Recreate, Goto, RecoverPc, TypeOK, Procs
  <2>4. /\ RowsNameTasks' /\ EventsOf(t)' # {} /\ EventsOf(t) \subseteq EventsOf(t)'
        /\ t \notin Seeded => EventsOf(t)' = EventsOf(t)
        /\ \A u \in Tasks \ {t} : EventsOf(u)' = EventsOf(u)
    <3>1. CASE Requeue(s)
      <4>1. UNCHANGED outbox /\ EventsOf(t) # {}
            BY <2>1, <3>1 DEF Requeue, RowInv, RecoveryReadsHold
      <4>2. \A u \in Tasks : EventsOf(u)' = EventsOf(u)
            BY <4>1 DEF EventsOf
      <4>3. EventsOf(t)' = EventsOf(t)
            BY <2>1, <4>1 DEF EventsOf
      <4>4. QED
            BY <4>1, <4>2, <4>3 DEF RowInv, RowsNameTasks, Exists
    <3>2. CASE Recreate(s)
      <4>1. PICK e \in Events : IsNewEvent(e) /\ outbox' = [outbox EXCEPT ![e] = NewRow(t)]
            BY <2>1, <3>2 DEF Recreate
      <4>2. t \in Seeded
            BY <2>1, <3>2 DEF Recreate, RowInv, RecoveryReadsHold
      <4>3. QED
            BY <1>0, <2>1, <4>1, <4>2, NewRowEvents
    <3>3. QED
          BY <1>4, <3>1, <3>2
  <2>5. RecoveryReadsHold'
        BY <1>0, <2>1, <2>2, <2>3, <2>4, ReadsKept
  <2>6. OneEventPerTask'
        BY <2>1, <2>2, <2>4 DEF RowInv, OneEventPerTask
  <2>7. QueuedHasEvent'
        BY <2>2, <2>4 DEF RowInv, QueuedHasEvent
  <2>8. WorkHasRow'
        BY <1>0, <2>2 DEF RowInv, WorkHasRow
  <2>9. QED
        BY <2>4, <2>5, <2>6, <2>7, <2>8 DEF RowInv
<1>5. QED
      BY <1>1, <1>2, <1>3, <1>4 DEF LoopStep

LEMMA FaultRows == LockInv /\ RowInv /\ FaultStep => RowInv'
<1> SUFFICES ASSUME LockInv, RowInv, FaultStep
             PROVE  RowInv'
    OBVIOUS
<1>0. TypeOK
      BY DEF LockInv
<1>1. UNCHANGED <<task, outbox, working>>
      BY DEF FaultStep, Crash, LoseConnection, StatementFails, Abort
<1>2. \A s \in Servers : pc'[s] \in RecoverPc => pc'[s] = pc[s] /\ cur'[s] = cur[s]
  <2> USE <1>0 DEF RecoverPc, TypeOK, Procs
  <2>1. CASE \E s \in Servers : Crash(s)
        BY <2>1 DEF Crash
  <2>2. CASE \E s \in Servers : LoseConnection(s)
        BY <2>2 DEF LoseConnection
  <2>3. CASE \E p \in Procs : Abort(p)
        BY <2>3 DEF Abort, Quit, Goto
  <2>4. CASE \E p \in Procs : StatementFails(p)
        BY <2>4 DEF StatementFails, Finish, Return, Goto
  <2>5. QED
        BY <2>1, <2>2, <2>3, <2>4 DEF FaultStep
<1>3. RecoveryReadsHold'
      BY <1>0, <1>1, <1>2, ReadsKept DEF EventsOf
<1>4. QED
      BY <1>1, <1>3, TablesKept DEF RowInv

LEMMA EnvironmentRows == LockInv /\ RowInv /\ Environment => RowInv'
<1> SUFFICES ASSUME LockInv, RowInv, Environment
             PROVE  RowInv'
    OBVIOUS
<1>0. TypeOK
      BY DEF LockInv
<1>1. UNCHANGED <<outbox, pc, cur>>
      BY DEF Environment, StartTask, SaveTask, StopTask, CancelTask, StoreLate
<1>2. /\ \A t \in Tasks : (task'[t] = "absent") = (task[t] = "absent")
      /\ \A t \in Tasks : task'[t] = "queued" => task[t] = "queued"
      /\ \A t \in Tasks : working'[t] => working[t] \/ task[t] # "absent"
  <2> USE <1>0 DEF TypeOK
  <2>1. ASSUME NEW t \in Tasks, StartTask(t) \/ StopTask(t) \/ CancelTask(t)
        PROVE  <1>2!1 /\ <1>2!2 /\ <1>2!3
        BY <2>1 DEF StartTask, StopTask, CancelTask
  <2>2. ASSUME NEW t \in Tasks, SaveTask(t)
        PROVE  <1>2!1 /\ <1>2!2 /\ <1>2!3
    <3>1. task[t] # "absent"
          BY <2>2 DEF SaveTask, RowInv, WorkHasRow
    <3>2. QED
          BY <2>2, <3>1 DEF SaveTask
  <2>3. QED
        BY <2>1, <2>2 DEF Environment, StoreLate
<1>3. RecoveryReadsHold'
      BY <1>0, <1>1, <1>2, ReadsKept DEF EventsOf
<1>4. QED
      BY <1>1, <1>2, <1>3, TablesKept DEF RowInv

LEMMA RowStep == LockInv /\ RowInv /\ [Next]_vars => RowInv'
<1>1. LockInv /\ RowInv /\ UNCHANGED vars => RowInv'
  <2> SUFFICES ASSUME LockInv, RowInv, UNCHANGED vars
               PROVE  RowInv'
      OBVIOUS
  <2>1. RecoveryReadsHold'
        BY ReadsKept DEF LockInv, vars, EventsOf
  <2>2. QED
        BY <2>1, TablesKept DEF RowInv, vars
<1>2. QED
      BY <1>1, HandlerRows, PublishRows, LoopRows, FaultRows, EnvironmentRows DEF Next, FaultStep

LEMMA RowInit == Init => RowInv
BY ConstantsAssumption
DEF Init, RowInv, RowsNameTasks, WorkHasRow, RecoveryReadsHold, OneEventPerTask, QueuedHasEvent,
    EventsOf, Exists, NoRow, RecoverPc, Procs

\* The row lock, the order of ack and commit, and the joint commit of both
\* tables: the whole inductive invariant.
THEOREM Inductive == Spec => []IInv
<1>1. Init => IInv
      BY LockInit, DeliveryInit, RowInit DEF IInv
<1>2. IInv /\ [Next]_vars => IInv'
      BY LockStep, DeliveryStep, RowStep DEF IInv
<1>3. QED
      BY <1>1, <1>2, PTL DEF Spec

\* Both inserts commit or neither does, and recovery adds no second event.
THEOREM OneEvent == Spec => []OneEventPerTask
<1>1. IInv => OneEventPerTask
      BY DEF IInv, RowInv
<1>2. QED
      BY <1>1, Inductive, PTL

\* A task the recovery loop calls queued has an event to queue it.
THEOREM QueuedBacked == Spec => []QueuedHasEvent
<1>1. IInv => QueuedHasEvent
      BY DEF IInv, RowInv
<1>2. QED
      BY <1>1, Inductive, PTL

-----------------------------------------------------------------------------
(* What the composition with the workers rests on *)

\* Only events of the outbox are in the queue or on the way, and nothing marks one
\* as failed.
SentRows ==
  \A e \in Events :
    /\ outbox[e].status \in {"absent", "pending", "published"}
    /\ copies[e] > 0 \/ adrift[e] > 0 => Exists(e)

LEMMA RowWrites ==
  ASSUME LockInv, [Next]_vars, NEW e \in Events
  PROVE  outbox'[e].status \in {outbox[e].status, "pending", "published"}
<1>1. TypeOK
      BY DEF LockInv
<1>2. CASE UNCHANGED outbox
      BY <1>2
<1>3. ASSUME NEW d \in Events, NEW t, outbox' = [outbox EXCEPT ![d] = NewRow(t)]
      PROVE  outbox'[e].status \in {outbox[e].status, "pending"}
      BY <1>1, <1>3 DEF NewRow, TypeOK
<1>4. ASSUME NEW p \in Procs, Commit(p)
      PROVE  outbox'[e].status \in {outbox[e].status, "published"}
      BY <1>1, <1>4 DEF Commit, Published, TypeOK, EventRow
<1>5. \/ UNCHANGED outbox \/ \E p \in Procs : Commit(p)
      \/ \E d \in Events, t \in Tasks \cup Events \cup {None} : outbox' = [outbox EXCEPT ![d] = NewRow(t)]
  <2>1. CASE \E h \in Handlers : HandlerStep(h)
    <3>1. \A h \in Handlers : cur[h] \in Tasks \cup Events \cup {None}
          BY <1>1 DEF TypeOK, Procs
    <3>2. QED
          BY <2>1, <3>1 DEF HandlerStep, Submit, Insert
  <2>2. CASE \E s \in Servers : LoopStep(s)
    <3>1. \A s \in Servers : cur[s] \in Tasks \cup Events \cup {None}
          BY <1>1 DEF TypeOK, Procs
    <3>2. QED
          BY <2>2, <3>1 DEF LoopStep, Tick, NextEvent, ListTasks, Inspect, Count, Requeue, Recreate, EndTick
  <2>3. CASE \E p \in Procs : PublishStep(p)
        BY <2>3 DEF PublishStep, BeginPublish, Ack, Returned, Fail, GiveUp
  <2>4. CASE FaultStep \/ Environment \/ UNCHANGED vars
        BY <2>4 DEF FaultStep, Crash, LoseConnection, StatementFails, Abort,
          Environment, StartTask, SaveTask, StopTask, CancelTask, StoreLate, vars
  <2>5. QED
        BY <2>1, <2>2, <2>3, <2>4 DEF Next, FaultStep
<1>6. QED
      BY <1>2, <1>3, <1>4, <1>5

\* The queue accepts at most one message at a time, one under way or adrift.
Stores(e) == copies' = [copies EXCEPT ![e] = @ + 1]

LEMMA CopiesRise ==
  ASSUME [Next]_vars
  PROVE  \/ UNCHANGED copies
         \/ \E p \in Procs : Ack(p) /\ cur[p] \in InFlight(Procs) /\ Stores(cur[p])
         \/ \E e \in Events : StoreLate(e) /\ adrift[e] > 0 /\ Stores(e)
<1>1. CASE \E h \in Handlers : HandlerStep(h)
      BY <1>1 DEF HandlerStep, Submit, Insert
<1>2. CASE \E s \in Servers : LoopStep(s)
      BY <1>2 DEF LoopStep, Tick, NextEvent, ListTasks, Inspect, Count, Requeue, Recreate, EndTick
<1>3. CASE \E p \in Procs : PublishStep(p)
      BY <1>3 DEF PublishStep, BeginPublish, Ack, Returned, Fail, GiveUp, Commit, InFlight, Stores
<1>4. CASE FaultStep
      BY <1>4 DEF FaultStep, Crash, LoseConnection, StatementFails, Abort
<1>5. CASE Environment \/ UNCHANGED vars
      BY <1>5 DEF Environment, StartTask, SaveTask, StopTask, CancelTask, StoreLate, Stores, vars
<1>6. QED
      BY <1>1, <1>2, <1>3, <1>4, <1>5 DEF Next, FaultStep

\* What is set adrift was under way.
LEMMA AdriftRises ==
  ASSUME TypeOK, [Next]_vars, NEW e \in Events, adrift'[e] > adrift[e]
  PROVE  e \in InFlight(Procs)
<1>1. (\E P \in SUBSET Procs : Strand(P)) => e \in InFlight(Procs)
      BY DEF Strand, InFlight, TypeOK
<1>2. CASE \E p \in Procs : PublishStep(p)
      BY <1>1, <1>2 DEF PublishStep, BeginPublish, Ack, Returned, Fail, GiveUp, Commit, TypeOK
<1>3. CASE FaultStep
      BY <1>1, <1>3 DEF FaultStep, Crash, LoseConnection, StatementFails, Abort, Hosted
<1>4. CASE \/ \E h \in Handlers : HandlerStep(h)
           \/ \E s \in Servers : LoopStep(s)
      BY <1>4 DEF HandlerStep, Submit, Insert, TypeOK,
        LoopStep, Tick, NextEvent, ListTasks, Inspect, Count, Requeue, Recreate, EndTick
<1>5. CASE Environment \/ UNCHANGED vars
      BY <1>5 DEF Environment, StartTask, SaveTask, StopTask, CancelTask, StoreLate, vars, TypeOK
<1>6. QED
      BY <1>2, <1>3, <1>4, <1>5 DEF Next, FaultStep

LEMMA SentInit == Init => SentRows
BY DEF Init, SentRows, NoRow

LEMMA SentStep == LockInv /\ SentRows /\ [Next]_vars => SentRows'
<1> SUFFICES ASSUME LockInv, SentRows, [Next]_vars, NEW e \in Events
             PROVE  /\ outbox'[e].status \in {"absent", "pending", "published"}
                    /\ copies'[e] > 0 \/ adrift'[e] > 0 => outbox'[e].status # "absent"
    BY DEF SentRows, Exists
<1>0. TypeOK
      BY DEF LockInv
<1>1. outbox'[e].status \in {outbox[e].status, "pending", "published"}
      BY RowWrites
<1>2. e \in InFlight(Procs) => outbox[e].status = "pending"
      BY InFlightUnsent
<1>3. copies'[e] > 0 => copies[e] > 0 \/ adrift[e] > 0 \/ e \in InFlight(Procs)
      BY <1>0, CopiesRise DEF Stores, TypeOK
<1>4. adrift'[e] > 0 => adrift[e] > 0 \/ e \in InFlight(Procs)
  <2>1. adrift[e] \in Nat /\ adrift'[e] \in Nat
        BY <1>0, TypeStep DEF TypeOK
  <2>2. QED
        BY <1>0, <2>1, AdriftRises
<1>5. QED
      BY <1>1, <1>2, <1>3, <1>4 DEF SentRows, Exists

LEMMA FaultsBounded ==
  /\ Init => faults <= MaxFaults
  /\ TypeOK /\ faults <= MaxFaults /\ [Next]_vars => faults' <= MaxFaults
<1>1. Init => faults <= MaxFaults
      BY ConstantsAssumption DEF Init
<1>2. ASSUME TypeOK, faults <= MaxFaults, [Next]_vars
      PROVE  faults' <= MaxFaults
  <2>1. UNCHANGED faults \/ Fault
    <3>1. CASE \E h \in Handlers : HandlerStep(h)
          BY <3>1 DEF HandlerStep, Submit, Insert
    <3>2. CASE \E s \in Servers : LoopStep(s)
          BY <3>2 DEF LoopStep, Tick, NextEvent, ListTasks, Inspect, Count, Requeue, Recreate, EndTick
    <3>3. CASE \E p \in Procs : PublishStep(p)
          BY <3>3 DEF PublishStep, BeginPublish, Ack, Returned, Fail, GiveUp, Commit
    <3>4. CASE FaultStep \/ Environment \/ UNCHANGED vars
          BY <3>4 DEF FaultStep, Crash, LoseConnection, StatementFails, Abort,
            Environment, StartTask, SaveTask, StopTask, CancelTask, StoreLate, vars
    <3>5. QED
          BY <1>2, <3>1, <3>2, <3>3, <3>4 DEF Next, FaultStep
  <2>2. QED
        BY <1>2, <2>1, ConstantsAssumption DEF Fault, TypeOK
<1>3. QED
      BY <1>1, <1>2

LEMMA IInvInit == Init => IInv
BY LockInit, DeliveryInit, RowInit DEF IInv

LEMMA IInvStep == IInv /\ [Next]_vars => IInv'
BY LockStep, DeliveryStep, RowStep DEF IInv
=============================================================================
