-------------------------- MODULE OutboxRefinement --------------------------
(***************************************************************************)
(* The outbox implements Delivery: inserting a row records an event, a     *)
(* publish sends it, an ack or a late message delivers, a return bounces,  *)
(* a commit closes, every other step stutters.  A publisher that stops     *)
(* waiting stutters too: its message goes from under way to adrift.        *)
(***************************************************************************)
EXTENDS OutboxProofs

USE DEF messages, loops

StageMap == [e \in Events |-> Stage(e)]
SendingMap == [e \in Events |-> Underway(e)]

LEMMA InitRefines == Init => Abstract!Init
BY DEF Init, Abstract!Init, Stage, Exists, NoRow, Underway, InFlight

\* The stages change only with the outbox, what is under way only with adrift
\* and the processes that wait for an answer.
LEMMA StageKept == UNCHANGED outbox => UNCHANGED StageMap
BY DEF StageMap, Stage, Exists

LEMMA SendingKept ==
  ASSUME UNCHANGED adrift,
         \A q \in Procs : (pc'[q] = "confirm") = (pc[q] = "confirm"),
         \A q \in Procs : pc[q] = "confirm" => cur'[q] = cur[q]
  PROVE  UNCHANGED SendingMap
<1>1. InFlight(Procs)' = InFlight(Procs)
      BY DEF InFlight
<1>2. QED
      BY <1>1 DEF SendingMap, Underway

LEMMA StutterRefines ==
  ASSUME UNCHANGED <<outbox, copies, returned>>, UNCHANGED SendingMap
  PROVE  UNCHANGED Abstract!vars
BY StageKept DEF Abstract!vars, StageMap, SendingMap

LEMMA RecordRefines ==
  ASSUME TypeOK, NEW e \in Events, IsNewEvent(e), NEW t \in Tasks,
         outbox' = [outbox EXCEPT ![e] = NewRow(t)], UNCHANGED <<copies, returned>>,
         UNCHANGED SendingMap
  PROVE  Abstract!Next
<1>1. outbox[e].status = "absent"
      BY ConstantsAssumption DEF IsNewEvent, Exists
<1>2. outbox'[e].status = "pending" /\ \A d \in Events \ {e} : outbox'[d] = outbox[d]
      BY DEF TypeOK, NewRow
<1>3. Stage(e) = "none" /\ Stage(e)' = "open" /\ \A d \in Events \ {e} : Stage(d)' = Stage(d)
      BY <1>1, <1>2 DEF Stage, Exists
<1>4. StageMap' = [StageMap EXCEPT ![e] = "open"]
      BY <1>3 DEF StageMap
<1>5. Abstract!Record(e)
      BY <1>3, <1>4 DEF Abstract!Record, StageMap, SendingMap
<1>6. QED
      BY <1>5 DEF Abstract!Next

LEMMA HandlerRefines ==
  LockInv /\ (\E h \in Handlers : HandlerStep(h))
    => Abstract!Next \/ UNCHANGED Abstract!vars
<1> SUFFICES ASSUME LockInv, NEW h \in Handlers, HandlerStep(h)
             PROVE  Abstract!Next \/ UNCHANGED Abstract!vars
    OBVIOUS
<1>1. UNCHANGED messages
      BY DEF HandlerStep, Submit, Insert
<1>2. UNCHANGED SendingMap
      BY <1>1, SendingKept DEF HandlerStep, Submit, Insert, Goto, LockInv, TypeOK, Procs
<1>3. CASE UNCHANGED outbox
      BY <1>1, <1>2, <1>3, StutterRefines
<1>4. ASSUME NEW e \in Events, IsNewEvent(e), outbox' = [outbox EXCEPT ![e] = NewRow(cur[h])],
             pc[h] = "insert"
      PROVE  Abstract!Next
  <2>1. cur[h] \in Tasks
        BY <1>4 DEF LockInv, TypeOK, Procs
  <2>2. QED
        BY <1>1, <1>2, <1>4, <2>1, RecordRefines DEF LockInv
<1>5. QED
      BY <1>3, <1>4 DEF HandlerStep, Submit, Insert

LEMMA LoopRefines ==
  LockInv /\ (\E s \in Servers : LoopStep(s))
    => Abstract!Next \/ UNCHANGED Abstract!vars
<1> SUFFICES ASSUME LockInv, NEW s \in Servers, LoopStep(s)
             PROVE  Abstract!Next \/ UNCHANGED Abstract!vars
    OBVIOUS
<1>1. UNCHANGED messages
      BY DEF LoopStep, Tick, NextEvent, ListTasks, Inspect, Count, Requeue, Recreate, EndTick
<1>2. /\ \A q \in Procs : (pc'[q] = "confirm") = (pc[q] = "confirm")
      /\ \A q \in Procs : pc[q] = "confirm" => cur'[q] = cur[q]
      BY DEF LoopStep, Tick, NextEvent, ListTasks, Inspect, Count, Requeue, Recreate, EndTick,
        Goto, LockInv, TypeOK, Procs
<1>3. UNCHANGED SendingMap
      BY <1>1, <1>2, SendingKept
<1>4. CASE UNCHANGED outbox
      BY <1>1, <1>3, <1>4, StutterRefines
<1>5. CASE Recreate(s)
  <2>1. cur[s] \in Tasks
        BY <1>5 DEF Recreate, LockInv, TypeOK, Procs, RecoverPc
  <2>2. QED
        BY <1>1, <1>3, <1>5, <2>1, RecordRefines DEF Recreate, LockInv
<1>6. QED
      BY <1>4, <1>5
      DEF LoopStep, Tick, NextEvent, ListTasks, Inspect, Count, Requeue, EndTick

\* Of an event that p publishes nobody else has a message under way.
LEMMA OnlyOneUnderWay ==
  ASSUME LockInv, NEW p \in Procs, Holds(p, cur[p]), cur[p] \in Events,
         NEW q \in Procs, q # p, pc[q] = "confirm"
  PROVE  cur[q] # cur[p]
BY DEF LockInv, OnePublisher, Holds, HoldingPc

\* p enters the wait for an answer to a publish of its event.
LEMMA SendRefines ==
  ASSUME LockInv, LockInv', NEW p \in Procs, pc[p] = "lock", pc' = [pc EXCEPT ![p] = "confirm"],
         UNCHANGED <<outbox, messages, cur>>, outbox[cur[p]].status = "pending"
  PROVE  Abstract!Next
<1> USE DEF LockInv, TypeOK, PublishPc, HoldingPc
<1>1. PICK e \in Events : e = cur[p]
      OBVIOUS
<1>2. e \notin InFlight(Procs)
  <2> SUFFICES ASSUME NEW q \in Procs, pc[q] = "confirm", cur[q] = e
               PROVE  FALSE
      BY DEF InFlight
  <2>1. q # p /\ pc'[q] = "confirm" /\ pc'[p] = "confirm"
        OBVIOUS
  <2>2. Holds(p, e)' /\ Holds(q, e)'
        BY <1>1, <2>1 DEF Holds
  <2>3. QED
        BY <2>1, <2>2 DEF OnePublisher
<1>3. InFlight(Procs)' = InFlight(Procs) \cup {e}
      BY <1>1 DEF InFlight
<1>4. Stage(e) = "open"
      BY <1>1 DEF Stage, Exists
<1>5. Underway(e)' = Underway(e) + 1 /\ \A d \in Events \ {e} : Underway(d)' = Underway(d)
      BY <1>2, <1>3 DEF Underway
<1>6. SendingMap' = [SendingMap EXCEPT ![e] = @ + 1]
      BY <1>5 DEF SendingMap
<1>7. UNCHANGED StageMap
      BY StageKept
<1>8. Abstract!Send(e)
      BY <1>4, <1>6, <1>7 DEF Abstract!Send, StageMap, SendingMap
<1>9. QED
      BY <1>8 DEF Abstract!Next

\* The answer for p settles its message and no other one.
LEMMA SettleKeeps ==
  ASSUME LockInv, NEW p \in Procs, pc[p] = "confirm", UNCHANGED adrift,
         pc' = [pc EXCEPT ![p] = "commit"], cur' = [cur EXCEPT ![p] = cur[p]]
  PROVE  /\ cur[p] \in Events
         /\ Underway(cur[p]) > 0
         /\ SendingMap' = [SendingMap EXCEPT ![cur[p]] = @ - 1]
<1> USE DEF LockInv, TypeOK, PublishPc, HoldingPc
<1>1. PICK e \in Events : e = cur[p]
      OBVIOUS
<1>2. e \in InFlight(Procs)
      BY <1>1 DEF InFlight
<1>3. \A q \in Procs : q # p /\ pc[q] = "confirm" => cur[q] # e
      BY <1>1, OnlyOneUnderWay DEF Holds
<1>4. InFlight(Procs)' = InFlight(Procs) \ {e}
      BY <1>1, <1>3 DEF InFlight
<1>5. /\ Underway(e) = adrift[e] + 1 /\ Underway(e)' = adrift[e]
      /\ \A d \in Events \ {e} : Underway(d)' = Underway(d)
      BY <1>2, <1>4 DEF Underway
<1>6. Underway(e) > 0 /\ Underway(e)' = Underway(e) - 1
      BY <1>5
<1>7. SendingMap' = [SendingMap EXCEPT ![e] = @ - 1]
      BY <1>5, <1>6 DEF SendingMap
<1>8. QED
      BY <1>1, <1>6, <1>7

\* Who stops waiting sets the message adrift: it is still under way.
LEMMA StrandRefines ==
  ASSUME LockInv, NEW P \in SUBSET Procs, Strand(P),
         \A q \in P : pc'[q] # "confirm",
         \A q \in Procs \ P : pc'[q] = pc[q] /\ cur'[q] = cur[q]
  PROVE  UNCHANGED SendingMap
<1> USE DEF LockInv, TypeOK, PublishPc, HoldingPc
<1>1. ASSUME NEW e \in Events
      PROVE  Underway(e)' = Underway(e)
  <2>1. InFlight(Procs)' = InFlight(Procs \ P)
        BY DEF InFlight
  <2>2. CASE e \in InFlight(P)
    <3>1. PICK p \in P : pc[p] = "confirm" /\ cur[p] = e
          BY <2>2 DEF InFlight
    <3>2. \A q \in Procs : q # p /\ pc[q] = "confirm" => cur[q] # e
          BY <3>1, OnlyOneUnderWay DEF Holds
    <3>3. e \notin InFlight(Procs \ P)
          BY <3>1, <3>2 DEF InFlight
    <3>4. e \in InFlight(Procs) /\ adrift'[e] = adrift[e] + 1
          BY <2>2 DEF InFlight, Strand
    <3>5. QED
          BY <2>1, <3>3, <3>4 DEF Underway
  <2>3. CASE e \notin InFlight(P)
    <3>1. e \in InFlight(Procs \ P) <=> e \in InFlight(Procs)
          BY <2>3 DEF InFlight
    <3>2. adrift'[e] = adrift[e]
          BY <2>3 DEF Strand
    <3>3. QED
          BY <2>1, <3>1, <3>2 DEF Underway
  <2>4. QED
        BY <2>2, <2>3
<1>2. QED
      BY <1>1 DEF SendingMap

LEMMA PublishRefines ==
  LockInv /\ LockInv' /\ DeliveryInv /\ (\E p \in Procs : PublishStep(p))
    => Abstract!Next \/ UNCHANGED Abstract!vars
<1> SUFFICES ASSUME LockInv, LockInv', DeliveryInv, NEW p \in Procs, PublishStep(p)
             PROVE  Abstract!Next \/ UNCHANGED Abstract!vars
    OBVIOUS
<1> USE DEF LockInv, TypeOK
<1>1. CASE BeginPublish(p)
  <2>1. CASE StillPending(cur[p]) /\ Goto(p, AfterPublish(p), cur[p])
    <3>1. cur' = cur
          BY <2>1 DEF Goto
    <3>2. QED
          BY <1>1, <2>1, <3>1, SendRefines DEF BeginPublish, AfterPublish, StillPending, Goto
  <2>2. CASE Finish(p)
    <3>1. UNCHANGED SendingMap
          BY <1>1, <2>2, SendingKept DEF BeginPublish, Finish, Return, Goto
    <3>2. QED
          BY <1>1, <3>1, StutterRefines DEF BeginPublish
  <2>3. QED
        BY <1>1, <2>1, <2>2 DEF BeginPublish
<1>2. CASE GiveUp(p)
  <2>1. UNCHANGED SendingMap
        BY <1>2, SendingKept DEF GiveUp, Quit, Goto
  <2>2. QED
        BY <1>2, <2>1, StutterRefines DEF GiveUp
<1>3. CASE Ack(p)
  <2>1. /\ cur[p] \in Events /\ Underway(cur[p]) > 0
        /\ SendingMap' = [SendingMap EXCEPT ![cur[p]] = @ - 1]
        BY <1>3, SettleKeeps DEF Ack, Goto
  <2>2. UNCHANGED StageMap
        BY <1>3, StageKept DEF Ack
  <2>3. Abstract!Deliver(cur[p])
        BY <1>3, <2>1, <2>2 DEF Ack, Abstract!Deliver, StageMap, SendingMap
  <2>4. QED
        BY <2>1, <2>3 DEF Abstract!Next
<1>4. CASE Returned(p)
  <2>1. /\ cur[p] \in Events /\ Underway(cur[p]) > 0
        /\ SendingMap' = [SendingMap EXCEPT ![cur[p]] = @ - 1]
        BY <1>4, SettleKeeps DEF Returned, Goto
  <2>2. UNCHANGED StageMap
        BY <1>4, StageKept DEF Returned
  <2>3. Abstract!Bounce(cur[p])
        BY <1>4, <2>1, <2>2 DEF Returned, Abstract!Bounce, StageMap, SendingMap
  <2>4. QED
        BY <2>1, <2>3 DEF Abstract!Next
<1>5. CASE Fail(p)
  <2>1. /\ {p} \in SUBSET Procs /\ Strand({p}) /\ pc'[p] # "confirm"
        /\ \A q \in Procs \ {p} : pc'[q] = pc[q] /\ cur'[q] = cur[q]
        BY <1>5 DEF Fail, Finish, Return, Goto
  <2>2. UNCHANGED SendingMap
        BY <2>1, StrandRefines
  <2>3. QED
        BY <1>5, <2>2, StutterRefines DEF Fail
<1>6. CASE Commit(p)
  <2>1. PICK e \in Events : e = cur[p]
        BY <1>6 DEF Commit, PublishPc, HoldingPc
  <2>2. outbox[e].status = "pending" /\ (copies[e] > 0 \/ e \in returned)
        BY <1>6, <2>1
        DEF Commit, HeldIsPending, HoldingPc, DeliveryInv, AckedWasEnqueued
  <2>3. outbox'[e].status = "published" /\ \A d \in Events \ {e} : outbox'[d] = outbox[d]
        BY <1>6, <2>1 DEF Commit, Published, EventRow
  <2>4. Stage(e) = "open" /\ Stage(e)' = "closed" /\ \A d \in Events \ {e} : Stage(d)' = Stage(d)
        BY <2>2, <2>3 DEF Stage, Exists
  <2>5. StageMap' = [StageMap EXCEPT ![e] = "closed"]
        BY <2>4 DEF StageMap
  <2>6. UNCHANGED SendingMap
        BY <1>6, SendingKept DEF Commit, Finish, Return, Goto
  <2>7. Abstract!Close(e)
        BY <1>6, <2>2, <2>4, <2>5, <2>6 DEF Commit, Abstract!Close, StageMap, SendingMap
  <2>8. QED
        BY <2>7 DEF Abstract!Next
<1>7. QED
      BY <1>1, <1>2, <1>3, <1>4, <1>5, <1>6 DEF PublishStep

LEMMA FaultRefines == LockInv /\ FaultStep => UNCHANGED Abstract!vars
<1> SUFFICES ASSUME LockInv, FaultStep
             PROVE  UNCHANGED Abstract!vars
    OBVIOUS
<1> USE DEF LockInv, TypeOK
<1>1. UNCHANGED <<outbox, copies, returned>>
      BY DEF FaultStep, Crash, LoseConnection, StatementFails, Abort
<1>2. CASE \E s \in Servers : Crash(s)
      BY <1>1, <1>2, StrandRefines, StutterRefines DEF Crash, Hosted
<1>3. ASSUME NEW s \in Servers, LoseConnection(s)
      PROVE  UNCHANGED Abstract!vars
  <2>1. /\ Hosted(s) \in SUBSET Procs /\ Strand(Hosted(s))
        /\ \A q \in Hosted(s) : pc'[q] # "confirm"
        /\ \A q \in Procs \ Hosted(s) : pc'[q] = pc[q] /\ cur'[q] = cur[q]
        BY <1>3 DEF LoseConnection, Hosted
  <2>2. QED
        BY <1>1, <2>1, StrandRefines, StutterRefines
<1>4. ASSUME NEW p \in Procs, Abort(p) \/ StatementFails(p)
      PROVE  UNCHANGED Abstract!vars
  <2>1. /\ {p} \in SUBSET Procs /\ Strand({p}) /\ pc'[p] # "confirm"
        /\ \A q \in Procs \ {p} : pc'[q] = pc[q] /\ cur'[q] = cur[q]
        BY <1>4 DEF Abort, StatementFails, Finish, Return, Quit, Goto
  <2>2. QED
        BY <1>1, <2>1, StrandRefines, StutterRefines
<1>5. QED
      BY <1>2, <1>3, <1>4 DEF FaultStep

LEMMA LateRefines ==
  ASSUME LockInv, NEW e \in Events, StoreLate(e)
  PROVE  Abstract!Next
<1> USE DEF LockInv, TypeOK
<1>1. InFlight(Procs)' = InFlight(Procs) /\ UNCHANGED StageMap
      BY StageKept DEF StoreLate, InFlight
<1>2. /\ Underway(e) > 0 /\ Underway(e)' = Underway(e) - 1
      /\ \A d \in Events \ {e} : Underway(d)' = Underway(d)
      BY <1>1 DEF StoreLate, Underway
<1>3. SendingMap' = [SendingMap EXCEPT ![e] = @ - 1]
      BY <1>2 DEF SendingMap
<1>4. Abstract!Deliver(e)
      BY <1>1, <1>2, <1>3 DEF StoreLate, Abstract!Deliver, StageMap, SendingMap
<1>5. QED
      BY <1>4 DEF Abstract!Next

LEMMA StepRefines == IInv /\ [Next]_vars => [Abstract!Next]_(Abstract!vars)
<1> SUFFICES ASSUME IInv, [Next]_vars
             PROVE  Abstract!Next \/ UNCHANGED Abstract!vars
    OBVIOUS
<1>1. LockInv /\ LockInv' /\ DeliveryInv
      BY LockStep DEF IInv
<1>2. ASSUME \/ UNCHANGED vars
             \/ \E t \in Tasks : StartTask(t) \/ SaveTask(t) \/ StopTask(t) \/ CancelTask(t)
      PROVE  UNCHANGED Abstract!vars
  <2>1. UNCHANGED <<outbox, messages, pc, cur>>
        BY <1>2 DEF StartTask, SaveTask, StopTask, CancelTask, vars
  <2>2. QED
        BY <2>1, SendingKept, StutterRefines
<1>3. QED
      BY <1>1, <1>2, HandlerRefines, LoopRefines, PublishRefines, FaultRefines, LateRefines
      DEF Next, FaultStep, Environment

\* The outbox of the replicas and its races implement the abstract Delivery, with
\* messages that the broker stores late or returns.
THEOREM Refinement == Spec => Delivers
<1>1. QED
      BY InitRefines, StepRefines, Inductive, PTL DEF Spec, Delivers, Abstract!Spec
=============================================================================
