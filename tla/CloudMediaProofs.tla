-------------------------- MODULE CloudMediaProofs --------------------------
(***************************************************************************)
(* Proofs about CloudMedia, for any number of tasks, events, replicas,     *)
(* workers and faults: each part is to the other one what the other one's  *)
(* module takes for its environment, so the invariants of OutboxProofs and *)
(* WorkerPoolProofs hold of the whole, and no task is out of all hands.    *)
(***************************************************************************)
EXTENDS CloudMedia, FiniteSetTheorems, TLAPS

OP == INSTANCE OutboxRefinement WITH Seeded <- {}, MaxFaults <- ApiFaults, working <- AtWork

WP == INSTANCE WorkerPoolProofs WITH
  Messages <- Events, Recoverers <- Servers,
  MaxCopies <- ApiFaults + 1, MaxFaults <- PoolFaults,
  status <- RowStatus, sent <- copies, seen <- InHand,
  pc <- wpc, faults <- pfaults

-----------------------------------------------------------------------------
(* O and OP, P and WP are two names for the same formulas. *)

LEMMA SameAssumptions == OP!ConstantsAssumption /\ WP!PoolAssumption
BY CompositionAssumption
DEF O!ConstantsAssumption, OP!ConstantsAssumption, P!PoolAssumption, WP!PoolAssumption,
  P!IsFiniteSet, WP!IsFiniteSet

LEMMA SameOutboxInit == O!Init => OP!Init
BY DEF O!Init, OP!Init, O!NoRow, OP!NoRow, O!Procs, OP!Procs

LEMMA SameOldest == \A S, n : O!Oldest(S, n) = OP!Oldest(S, n)
BY DEF O!Oldest, OP!Oldest, O!Cardinality, OP!Cardinality

LEMMA SameHandler == \A h \in Handlers : O!HandlerStep(h) => OP!HandlerStep(h)
BY DEF O!HandlerStep, OP!HandlerStep, O!Submit, OP!Submit, O!Insert, OP!Insert,
  O!TaskIdFree, OP!TaskIdFree, O!IsNewEvent, OP!IsNewEvent, O!Exists, OP!Exists,
  O!NewRow, OP!NewRow, O!Goto, OP!Goto, O!Fault, OP!Fault, O!messages, OP!messages,
  O!loops, OP!loops

LEMMA SameStrand ==
  /\ O!Procs = OP!Procs
  /\ \A p : O!Host(p) = OP!Host(p)
  /\ \A s : O!Hosted(s) = OP!Hosted(s)
  /\ \A Q : O!InFlight(Q) = OP!InFlight(Q) /\ (O!Strand(Q) => OP!Strand(Q))
BY DEF O!Procs, OP!Procs, O!Host, OP!Host, O!Hosted, OP!Hosted, O!InFlight, OP!InFlight,
  O!Strand, OP!Strand

LEMMA SamePublish == \A p \in OP!Procs : O!PublishStep(p) => OP!PublishStep(p)
BY SameStrand
DEF O!PublishStep, OP!PublishStep, O!BeginPublish, OP!BeginPublish, O!RowFree, OP!RowFree,
  O!Holds, OP!Holds, O!HoldingPc, OP!HoldingPc, O!Goto, OP!Goto, O!Fault, OP!Fault,
  O!StillPending, OP!StillPending, O!AfterPublish, OP!AfterPublish,
  O!Finish, OP!Finish, O!Return, OP!Return, O!Ack, OP!Ack, O!Returned, OP!Returned,
  O!Fail, OP!Fail, O!GiveUp, OP!GiveUp, O!Quit, OP!Quit, O!Commit, OP!Commit,
  O!Published, OP!Published, O!messages, OP!messages, O!loops, OP!loops

LEMMA SameLoop == \A s \in Servers : O!LoopStep(s) => OP!LoopStep(s)
BY SameOldest
DEF O!LoopStep, OP!LoopStep, O!Tick, OP!Tick, O!Eligible, OP!Eligible, O!NextEvent, OP!NextEvent,
  O!ListTasks, OP!ListTasks, O!Inspect, OP!Inspect, O!StillWaits, OP!StillWaits,
  O!Count, OP!Count, O!CountsEvent, OP!CountsEvent, O!EventsOf, OP!EventsOf, O!Requeue, OP!Requeue,
  O!Recreate, OP!Recreate, O!EndTick, OP!EndTick, O!IsNewEvent, OP!IsNewEvent, O!Exists, OP!Exists,
  O!NewRow, OP!NewRow, O!Goto, OP!Goto, O!messages, OP!messages, O!loops, OP!loops

LEMMA SameFaults ==
  /\ \A s \in Servers : (O!Crash(s) => OP!Crash(s)) /\ (O!LoseConnection(s) => OP!LoseConnection(s))
  /\ \A p \in OP!Procs : (O!StatementFails(p) => OP!StatementFails(p)) /\ (O!Abort(p) => OP!Abort(p))
BY SameStrand
DEF O!Crash, OP!Crash, O!LoseConnection, OP!LoseConnection, O!Abort, OP!Abort,
  O!StatementFails, OP!StatementFails, O!RecoverPc, OP!RecoverPc, O!Finish, OP!Finish,
  O!Return, OP!Return, O!Quit, OP!Quit, O!Goto, OP!Goto, O!Fault, OP!Fault, O!loops, OP!loops

LEMMA SameEnvironment == O!Environment => OP!Environment
BY DEF O!Environment, OP!Environment, O!StartTask, OP!StartTask, O!SaveTask, OP!SaveTask,
  O!StopTask, OP!StopTask, O!CancelTask, OP!CancelTask, O!StoreLate, OP!StoreLate,
  O!HasMessage, OP!HasMessage, O!EventsOf, OP!EventsOf, O!messages, OP!messages, O!loops, OP!loops

LEMMA SameOutboxNext == [O!Next]_(O!vars) => [OP!Next]_(OP!vars)
<1>1. UNCHANGED O!vars => UNCHANGED OP!vars
      BY DEF O!vars, OP!vars
<1>2. O!Next => OP!Next
      BY SameStrand, SameHandler, SamePublish, SameLoop, SameFaults, SameEnvironment
      DEF O!Next, OP!Next
<1>3. QED
      BY <1>1, <1>2

LEMMA SamePoolInit == P!Init => WP!Init
BY DEF P!Init, WP!Init

LEMMA SamePoolNext == [P!Next]_(P!vars) => [WP!Next]_(WP!vars)
BY DEF P!Next, WP!Next, P!vars, WP!vars, P!Consume, WP!Consume, P!Process, WP!Process,
  P!Lifecycle, WP!Lifecycle, P!Environment, WP!Environment, P!rows, WP!rows, P!history, WP!history,
  P!api, WP!api, P!Waiting, WP!Waiting, P!BusyPc, WP!BusyPc, P!On, WP!On, P!Fault, WP!Fault,
  P!Goto, WP!Goto, P!Write, WP!Write, P!Hit, WP!Hit, P!Available, WP!Available, P!Receive, WP!Receive,
  P!Check, WP!Check, P!Mark, WP!Mark, P!Startable, WP!Startable, P!Start, WP!Start,
  P!CountActive, WP!CountActive, P!Active, WP!Active, P!SaveInfo, WP!SaveInfo,
  P!SavedFailed, WP!SavedFailed, P!FailTask, WP!FailTask, P!Succeed, WP!Succeed, P!Ack, WP!Ack,
  P!GiveBack, WP!GiveBack, P!LoseConnection, WP!LoseConnection, P!Reconnect, WP!Reconnect,
  P!Exit, WP!Exit, P!Crash, WP!Crash, P!PreStop, WP!PreStop, P!Sigterm, WP!Sigterm,
  P!Arrive, WP!Arrive, P!CancelTask, WP!CancelTask, P!Cleanup, WP!Cleanup,
  P!ReadPending, WP!ReadPending, P!LetGo, WP!LetGo, P!Requeue, WP!Requeue

-----------------------------------------------------------------------------
(* The invariants of both parts, and that events carry the tasks foreseen *)
OutboxInv == OP!IInv /\ OP!SentRows /\ faults <= ApiFaults
PoolInv == WP!GuardInv /\ WP!ProcessingHasWorker /\ WP!WasSent /\ WP!CopiesCounted
Foreseen == \A e \in Events : outbox[e].status # "absent" => outbox[e].task = TaskOf[e]

Whole == OutboxInv /\ PoolInv /\ Foreseen

LEMMA Types ==
  ASSUME Whole
  PROVE  /\ OP!TypeOK /\ WP!TypeOK
         /\ task \in [Tasks -> OP!TaskStatus \cup {"absent"}]
         /\ copies \in [Events -> Nat] /\ adrift \in [Events -> Nat]
         /\ ready \in [Events -> Nat]
         /\ regress \in [Tasks -> Nat]
         /\ TaskOf \in [Events -> Tasks] /\ None \notin Tasks \cup Events
<1>1. OP!TypeOK /\ WP!TypeOK
      BY DEF Whole, OutboxInv, PoolInv, OP!IInv, OP!LockInv, WP!GuardInv
<1>2. /\ task \in [Tasks -> OP!TaskStatus \cup {"absent"}]
      /\ copies \in [Events -> Nat] /\ adrift \in [Events -> Nat]
      BY <1>1 DEF OP!TypeOK
<1>3. ready \in [Events -> Nat] /\ regress \in [Tasks -> Nat]
      BY <1>1 DEF WP!TypeOK
<1>4. TaskOf \in [Events -> Tasks] /\ None \notin Tasks \cup Events
      BY SameAssumptions DEF OP!ConstantsAssumption, WP!PoolAssumption
<1>5. QED
      BY <1>1, <1>2, <1>3, <1>4

-----------------------------------------------------------------------------
(* A step of an API server, as the pool sees it *)

\* A message under way or adrift has fewer copies than the pool bounds.
LEMMA RoomForCopy ==
  ASSUME Whole, NEW e, e \in OP!InFlight(OP!Procs) \/ (e \in Events /\ adrift[e] > 0)
  PROVE  e \in Events /\ copies[e] < ApiFaults + 1
<1>1. e \in Events /\ (~ OP!Sent(e) \/ adrift[e] > 0)
      BY SameAssumptions, OP!InFlightUnsent DEF Whole, OutboxInv, OP!IInv
<1>2. copies[e] + adrift[e] <= faults + (IF OP!Sent(e) THEN 1 ELSE 0)
      BY <1>1 DEF Whole, OutboxInv, OP!IInv, OP!DeliveryInv, OP!DuplicatesArePaid
<1>3. /\ faults \in Nat /\ copies[e] \in Nat /\ adrift[e] \in Nat /\ ApiFaults \in Nat
      /\ faults <= ApiFaults
      BY <1>1, Types, SameAssumptions DEF OP!TypeOK, OP!ConstantsAssumption, Whole, OutboxInv
<1>4. QED
      BY <1>1, <1>2, <1>3

LEMMA RegressKept ==
  ASSUME Whole, CountRegress, RowStatus' = RowStatus
  PROVE  regress' = regress
<1>1. ASSUME NEW t \in Tasks
      PROVE  ~ TakenBack(t)
  <2>1. RowStatus'[t] = RowStatus[t]
        OBVIOUS
  <2>2. QED
        BY <2>1 DEF RowStatus, TakenBack, P!Waiting
<1>2. \A t \in Tasks : regress'[t] = regress[t]
      BY <1>1 DEF CountRegress
<1>3. regress \in [Tasks -> Nat] /\ regress' = [t \in Tasks |-> regress'[t]]
      BY Types DEF CountRegress
<1>4. QED
      BY <1>2, <1>3

LEMMA QueueKept ==
  ASSUME Whole, UNCHANGED copies, HandOver
  PROVE  UNCHANGED <<copies, ready>>
<1>1. \A e \in Events : ready'[e] = ready[e] + copies[e] - copies[e]
      BY DEF HandOver
<1>2. \A e \in Events : ready[e] \in Nat /\ copies[e] \in Nat
      BY Types
<1>3. \A e \in Events : ready'[e] = ready[e]
      BY <1>1, <1>2
<1>4. ready \in [Events -> Nat] /\ ready' = [e \in Events |-> ready'[e]]
      BY Types DEF HandOver
<1>5. QED
      BY <1>3, <1>4

\* What the broker stores, the queue has.
LEMMA QueueGrows ==
  ASSUME Whole, NEW e \in Events, OP!Stores(e), HandOver
  PROVE  /\ copies' = [copies EXCEPT ![e] = @ + 1]
         /\ ready' = [ready EXCEPT ![e] = @ + 1]
<1>1. copies' = [copies EXCEPT ![e] = @ + 1]
      BY DEF OP!Stores
<1>2. ASSUME NEW d \in Events
      PROVE  ready'[d] = IF d = e THEN ready[d] + 1 ELSE ready[d]
  <2>1. /\ copies[d] \in Nat /\ ready[d] \in Nat
        /\ copies'[d] = IF d = e THEN copies[d] + 1 ELSE copies[d]
        BY <1>1, Types
  <2>2. ready'[d] = ready[d] + copies'[d] - copies[d]
        BY DEF HandOver
  <2>3. QED
        BY <2>1, <2>2
<1>3. ready' = [d \in Events |-> ready'[d]] /\ ready = [d \in Events |-> ready[d]]
      BY Types DEF HandOver
<1>4. QED
      BY <1>1, <1>2, <1>3

\* A step of a server that writes no row and takes none in hand is an arrival, or nothing.
LEMMA ApiArrives ==
  ASSUME Whole, [OP!Next]_(OP!vars), HandOver, CountRegress, UNCHANGED poolVars,
         RowStatus' = RowStatus, InHand' = InHand
  PROVE  [P!Next]_(P!vars)
<1>1. UNCHANGED <<RowStatus, InHand, marks, wpc, msg, up, stopping, hit, regress, pfaults>>
      BY RegressKept DEF poolVars
<1>2. CASE UNCHANGED copies
      BY <1>1, <1>2, QueueKept DEF P!vars
<1>3. ASSUME NEW e, e \in OP!InFlight(OP!Procs) \/ (e \in Events /\ adrift[e] > 0), OP!Stores(e)
      PROVE  P!Next
  <2>1. e \in Events /\ copies[e] < ApiFaults + 1
        BY <1>3, RoomForCopy
  <2>2. /\ copies' = [copies EXCEPT ![e] = @ + 1]
        /\ ready' = [ready EXCEPT ![e] = @ + 1]
        BY <1>3, <2>1, QueueGrows
  <2>3. P!Arrive(e)
        BY <1>1, <2>1, <2>2 DEF P!Arrive, P!rows, P!history
  <2>4. QED
        BY <2>1, <2>3 DEF P!Next, P!Environment
<1>4. QED
      BY <1>2, <1>3, SameAssumptions, OP!CopiesRise

\* A recovery transaction that rolls back lets go of its task.
LEMMA ApiLetsGo ==
  ASSUME Whole, HandOver, CountRegress, UNCHANGED poolVars, UNCHANGED copies,
         RowStatus' = RowStatus, NEW s \in Servers, InHand[s] # None,
         InHand' = [InHand EXCEPT ![s] = None]
  PROVE  P!Next
<1>1. UNCHANGED <<copies, ready, regress>>
      BY RegressKept, QueueKept
<1>2. P!LetGo(s)
      BY <1>1 DEF P!LetGo, P!rows, P!history, poolVars
<1>3. QED
      BY <1>2 DEF P!Next, P!Environment

\* One process moves, to a label of no recovery transaction.
LEMMA HandMoves ==
  ASSUME Whole, NEW p \in OP!Procs, NEW label, label \notin OP!RecoverPc, \E x : OP!Goto(p, label, x)
  PROVE  \/ InHand' = InHand
         \/ /\ p \in Servers /\ pc[p] \in OP!RecoverPc /\ InHand[p] # None
            /\ InHand' = [InHand EXCEPT ![p] = None]
<1>0. OP!RecoverPc = {"count", "requeue", "recreate"}
      BY DEF OP!RecoverPc
<1>1. OP!TypeOK /\ \A s \in Servers : s \in OP!Procs
      BY Types DEF OP!Procs
<1>2. pc'[p] = label /\ \A q \in OP!Procs \ {p} : pc'[q] = pc[q] /\ cur'[q] = cur[q]
      BY <1>1 DEF OP!Goto, OP!TypeOK
<1>3. \A s \in Servers : InHand'[s] = IF s = p THEN None ELSE InHand[s]
      BY <1>0, <1>1, <1>2 DEF InHand
<1>4. InHand' = [s \in Servers |-> InHand'[s]] /\ InHand = [s \in Servers |-> InHand[s]]
      BY DEF InHand
<1>5. CASE p \in Servers /\ InHand[p] # None
  <2>1. pc[p] \in OP!RecoverPc
        BY <1>0, <1>5 DEF InHand
  <2>2. QED
        BY <1>3, <1>4, <1>5, <2>1
<1>6. CASE ~ (p \in Servers /\ InHand[p] # None)
  <2>1. \A s \in Servers : InHand'[s] = InHand[s]
        BY <1>3, <1>6
  <2>2. QED
        BY <1>4, <2>1
<1>7. QED
      BY <1>5, <1>6

\* The steps that take no task in hand: nothing is written that the pool sees.
LEMMA HandlerToPool ==
  ASSUME Whole, NEW h \in Handlers, OP!HandlerStep(h)
  PROVE  InHand' = InHand /\ RowStatus' = RowStatus
<1>1. h \in OP!Procs /\ h \notin Servers
      BY SameAssumptions DEF OP!Procs, OP!ConstantsAssumption
<1>2. PICK label \in {"idle", "lock", "insert"} : \E x : OP!Goto(h, label, x)
      BY DEF OP!HandlerStep, OP!Insert, OP!Submit
<1>3. label \notin OP!RecoverPc
      BY DEF OP!RecoverPc
<1>4. InHand' = InHand
      BY <1>1, <1>2, <1>3, HandMoves
<1>5. RowStatus' = RowStatus
  <2>1. CASE UNCHANGED task
        BY <2>1 DEF RowStatus
  <2>2. CASE task[cur[h]] = "absent" /\ task' = [task EXCEPT ![cur[h]] = "pending"]
        BY <2>2, Types DEF RowStatus
  <2>3. QED
        BY <2>1, <2>2 DEF OP!HandlerStep, OP!Insert, OP!Submit, OP!TaskIdFree
<1>6. QED
      BY <1>4, <1>5

LEMMA PublishToPool ==
  ASSUME Whole, NEW p \in OP!Procs, OP!PublishStep(p)
  PROVE  InHand' = InHand /\ RowStatus' = RowStatus
<1>1. PICK label \in {"idle", "batch", "confirm", "commit"} : \E x : OP!Goto(p, label, x)
  <2>1. CASE OP!BeginPublish(p) \/ OP!Fail(p) \/ OP!Commit(p)
        BY <2>1 DEF OP!BeginPublish, OP!AfterPublish, OP!Fail, OP!Commit, OP!Finish, OP!Return
  <2>2. CASE OP!Ack(p) \/ OP!Returned(p)
        BY <2>2 DEF OP!Ack, OP!Returned
  <2>3. CASE OP!GiveUp(p)
        BY <2>3 DEF OP!GiveUp, OP!Quit
  <2>4. QED
        BY <2>1, <2>2, <2>3 DEF OP!PublishStep
<1>2. pc[p] \notin OP!RecoverPc /\ label \notin OP!RecoverPc
      BY DEF OP!PublishStep, OP!BeginPublish, OP!Ack, OP!Returned, OP!Fail, OP!GiveUp, OP!Commit, OP!RecoverPc
<1>3. UNCHANGED task
      BY DEF OP!PublishStep, OP!BeginPublish, OP!Ack, OP!Returned, OP!Fail, OP!GiveUp, OP!Commit
<1>4. QED
      BY <1>1, <1>2, <1>3, HandMoves DEF RowStatus

LEMMA LossToPool ==
  ASSUME Whole, NEW s \in Servers, OP!LoseConnection(s)
  PROVE  InHand' = InHand /\ RowStatus' = RowStatus
<1>1. UNCHANGED <<task, cur>>
      BY DEF OP!LoseConnection
<1>2. \A r \in Servers : pc'[r] = pc[r] \/ (pc[r] = "confirm" /\ pc'[r] = "orphaned")
      BY DEF OP!LoseConnection, OP!Procs
<1>3. \A r \in Servers : InHand'[r] = InHand[r]
      BY <1>1, <1>2 DEF InHand
<1>4. InHand' = [r \in Servers |-> InHand'[r]] /\ InHand = [r \in Servers |-> InHand[r]]
      BY DEF InHand
<1>5. QED
      BY <1>1, <1>3, <1>4 DEF RowStatus

\* Crashes, ends of a context and failing statements: a recovery transaction in
\* progress is one that rolls back.
LEMMA FaultToPool ==
  ASSUME Whole, [OP!Next]_(OP!vars), HandOver, CountRegress, UNCHANGED poolVars,
         \/ \E s \in Servers : OP!Crash(s)
         \/ \E p \in OP!Procs : OP!StatementFails(p) \/ OP!Abort(p)
  PROVE  [P!Next]_(P!vars)
<1>1. UNCHANGED copies /\ RowStatus' = RowStatus
      BY DEF OP!Crash, OP!StatementFails, OP!Abort, RowStatus
<1>2. ASSUME InHand' = InHand
      PROVE  [P!Next]_(P!vars)
      BY <1>1, <1>2, ApiArrives
<1>3. ASSUME NEW s \in Servers, InHand[s] # None, InHand' = [InHand EXCEPT ![s] = None]
      PROVE  [P!Next]_(P!vars)
      BY <1>1, <1>3, ApiLetsGo
<1>4. ASSUME NEW p \in OP!Procs, NEW label \in {"idle", "batch", "tasks"}, \E x : OP!Goto(p, label, x)
      PROVE  [P!Next]_(P!vars)
  <2>1. label \notin OP!RecoverPc
        BY DEF OP!RecoverPc
  <2>2. QED
        BY <1>2, <1>3, <1>4, <2>1, HandMoves
<1>5. ASSUME NEW p \in OP!Procs, OP!StatementFails(p)
      PROVE  [P!Next]_(P!vars)
  <2>1. CASE UNCHANGED <<pc, cur>>
    <3>1. InHand' = InHand
          BY <2>1 DEF InHand
    <3>2. QED
          BY <1>2, <3>1
  <2>2. CASE \E label \in {"idle", "batch", "tasks"}, x \in {None} : OP!Goto(p, label, x)
        BY <1>4, <2>2
  <2>3. QED
        BY <1>5, <2>1, <2>2 DEF OP!StatementFails, OP!Finish, OP!Return
<1>6. ASSUME NEW p \in OP!Procs, OP!Abort(p)
      PROVE  [P!Next]_(P!vars)
      BY <1>4, <1>6 DEF OP!Abort, OP!Quit
<1>7. ASSUME NEW s \in Servers, OP!Crash(s)
      PROVE  [P!Next]_(P!vars)
  <2>1. \A r \in Servers : r \in OP!Procs /\ (r \in OP!Hosted(s) <=> r = s)
        BY DEF OP!Procs, OP!Hosted, OP!Host
  <2>2. \A r \in Servers : IF r = s THEN pc'[r] = "idle" ELSE pc'[r] = pc[r] /\ cur'[r] = cur[r]
        BY <1>7, <2>1 DEF OP!Crash
  <2>3. \A r \in Servers : InHand'[r] = IF r = s THEN None ELSE InHand[r]
        BY <2>2 DEF InHand
  <2>4. InHand' = [r \in Servers |-> InHand'[r]] /\ InHand = [r \in Servers |-> InHand[r]]
        BY DEF InHand
  <2>5. CASE InHand[s] # None
        BY <1>3, <2>3, <2>4, <2>5
  <2>6. CASE InHand[s] = None
    <3>1. \A r \in Servers : InHand'[r] = InHand[r]
          BY <2>3, <2>6
    <3>2. QED
          BY <1>2, <2>4, <3>1
  <2>7. QED
        BY <2>5, <2>6
<1>8. QED
      BY <1>5, <1>6, <1>7

\* The loop's steps other than those that read a pending row and write 'queued'
LEMMA LoopToPool ==
  ASSUME Whole, NEW s \in Servers,
         \/ OP!Tick(s) \/ OP!NextEvent(s) \/ OP!ListTasks(s) \/ OP!Count(s) \/ OP!EndTick(s)
         \/ \E t \in Tasks : OP!Inspect(s, t) /\ ~ OP!StillWaits(t)
  PROVE  InHand' = InHand /\ RowStatus' = RowStatus
<1>1. UNCHANGED task
      BY DEF OP!Tick, OP!NextEvent, OP!ListTasks, OP!Count, OP!EndTick, OP!Inspect
<1>2. OP!TypeOK /\ s \in OP!Procs /\ \A r \in Servers : r \in OP!Procs
      BY Types DEF OP!Procs
<1>3. CASE OP!Count(s)
  <2>1. PICK label \in {"requeue", "recreate"} : OP!Goto(s, label, cur[s])
        BY <1>3 DEF OP!Count
  <2>2. /\ pc[s] = "count" /\ pc'[s] = label
        /\ \A r \in Servers : cur'[r] = cur[r] /\ (pc'[r] = pc[r] \/ r = s)
        BY <1>2, <1>3, <2>1 DEF OP!Goto, OP!TypeOK, OP!Count
  <2>3. \A r \in Servers : InHand'[r] = InHand[r]
        BY <2>1, <2>2 DEF InHand
  <2>4. InHand' = [r \in Servers |-> InHand'[r]] /\ InHand = [r \in Servers |-> InHand[r]]
        BY DEF InHand
  <2>5. QED
        BY <1>1, <2>3, <2>4 DEF RowStatus
<1>4. CASE \/ OP!Tick(s) \/ OP!NextEvent(s) \/ OP!ListTasks(s) \/ OP!EndTick(s)
           \/ \E t \in Tasks : OP!Inspect(s, t) /\ ~ OP!StillWaits(t)
  <2>1. PICK label \in {"batch", "lock", "tasks", "idle"} : \E x : OP!Goto(s, label, x)
        BY <1>4 DEF OP!Tick, OP!NextEvent, OP!ListTasks, OP!EndTick, OP!Inspect
  <2>2. pc[s] \notin OP!RecoverPc /\ label \notin OP!RecoverPc
        BY <1>4 DEF OP!Tick, OP!NextEvent, OP!ListTasks, OP!EndTick, OP!Inspect, OP!RecoverPc
  <2>3. QED
        BY <1>1, <1>2, <2>1, <2>2, HandMoves DEF RowStatus
<1>5. QED
      BY <1>3, <1>4

\* A loop reads a pending row: it has it in hand.
LEMMA ReadIsForeseen ==
  ASSUME Whole, HandOver, CountRegress, UNCHANGED poolVars,
         NEW s \in Servers, NEW t \in Tasks, OP!Inspect(s, t), OP!StillWaits(t)
  PROVE  P!ReadPending(s, t)
<1>1. OP!TypeOK /\ s \in OP!Procs /\ \A r \in Servers : r \in OP!Procs
      BY Types DEF OP!Procs
<1>2. pc[s] = "tasks" /\ UNCHANGED <<task, copies>> /\ OP!Goto(s, "count", t) /\ task[t] = "pending"
      BY DEF OP!Inspect, OP!StillWaits, OP!messages
<1>3. /\ pc'[s] = "count" /\ cur'[s] = t
      /\ \A r \in Servers \ {s} : pc'[r] = pc[r] /\ cur'[r] = cur[r]
      BY <1>1, <1>2 DEF OP!Goto, OP!TypeOK
<1>5. InHand[s] = None /\ InHand' = [InHand EXCEPT ![s] = t]
  <2>1. InHand[s] = None
        BY <1>2 DEF InHand
  <2>2. \A r \in Servers : InHand'[r] = IF r = s THEN t ELSE InHand[r]
        BY <1>3 DEF InHand
  <2>3. InHand' = [r \in Servers |-> InHand'[r]] /\ InHand = [r \in Servers |-> InHand[r]]
        BY DEF InHand
  <2>4. QED
        BY <2>1, <2>2, <2>3
<1>6. RowStatus[t] = "pending" /\ RowStatus' = RowStatus
      BY <1>2 DEF RowStatus
<1>7. UNCHANGED <<regress, copies, ready>>
      BY <1>2, <1>6, RegressKept, QueueKept
<1>8. QED
      BY <1>5, <1>6, <1>7 DEF P!ReadPending, P!rows, P!history, poolVars

\* A loop writes 'queued' over what is in the row by now.
LEMMA RequeueIsForeseen ==
  ASSUME Whole, HandOver, CountRegress, UNCHANGED poolVars,
         NEW s \in Servers, OP!Requeue(s) \/ OP!Recreate(s)
  PROVE  P!Requeue(s)
<1> DEFINE t == cur[s]
<1>1. OP!TypeOK /\ s \in OP!Procs /\ \A r \in Servers : r \in OP!Procs
      BY Types DEF OP!Procs
<1>2. /\ pc[s] \in {"requeue", "recreate"} /\ UNCHANGED copies
      /\ OP!Goto(s, "tasks", None) /\ task' = [task EXCEPT ![t] = "queued"]
      BY DEF OP!Requeue, OP!Recreate, OP!messages
<1>3. /\ pc'[s] = "tasks"
      /\ \A r \in Servers \ {s} : pc'[r] = pc[r] /\ cur'[r] = cur[r]
      BY <1>1, <1>2 DEF OP!Goto, OP!TypeOK
<1>4. pc[s] \in {"count", "requeue", "recreate"}
      BY <1>2
<1>5. t \in Tasks /\ t # None
  <2>1. pc[s] \in OP!RecoverPc
        BY <1>2 DEF OP!RecoverPc
  <2>2. QED
        BY <1>1, <2>1, Types DEF OP!TypeOK
<1>6. task[t] # "absent"
  <2>1. pc[s] \in OP!RecoverPc
        BY <1>2 DEF OP!RecoverPc
  <2>2. QED
        BY <2>1 DEF Whole, OutboxInv, OP!IInv, OP!RowInv, OP!RecoveryReadsHold
<1>7. InHand[s] = t /\ InHand' = [InHand EXCEPT ![s] = None]
  <2>1. InHand[s] = t
        BY <1>4 DEF InHand
  <2>2. \A r \in Servers : InHand'[r] = IF r = s THEN None ELSE InHand[r]
        BY <1>3, <1>4 DEF InHand
  <2>3. InHand' = [r \in Servers |-> InHand'[r]] /\ InHand = [r \in Servers |-> InHand[r]]
        BY DEF InHand
  <2>4. QED
        BY <2>1, <2>2, <2>3
<1>8. RowStatus[t] = task[t] /\ RowStatus' = [RowStatus EXCEPT ![t] = "queued"]
  <2>1. \A u \in Tasks : task'[u] = IF u = t THEN "queued" ELSE task[u]
        BY <1>2, Types
  <2>2. \A u \in Tasks : RowStatus'[u] = IF u = t THEN "queued" ELSE RowStatus[u]
        BY <2>1 DEF RowStatus
  <2>3. RowStatus' = [u \in Tasks |-> RowStatus'[u]] /\ RowStatus = [u \in Tasks |-> RowStatus[u]]
        BY DEF RowStatus
  <2>4. RowStatus[t] = task[t]
        BY <1>5, <1>6 DEF RowStatus
  <2>5. QED
        BY <2>2, <2>3, <2>4
<1>9. regress' = [regress EXCEPT ![t] = IF task[t] \in P!Waiting THEN @ ELSE @ + 1]
  <2>1. \A u \in Tasks : TakenBack(u) <=> u = t /\ task[t] \notin P!Waiting
        BY <1>2, <1>5, Types DEF TakenBack, P!Waiting
  <2>2. \A u \in Tasks : regress'[u] = IF u = t /\ task[t] \notin P!Waiting THEN regress[u] + 1 ELSE regress[u]
        BY <2>1 DEF CountRegress
  <2>3. regress' = [u \in Tasks |-> regress'[u]] /\ regress \in [Tasks -> Nat]
        BY Types DEF CountRegress
  <2>4. QED
        BY <1>5, <2>2, <2>3
<1>10. UNCHANGED <<copies, ready>>
      BY <1>2, QueueKept
<1> HIDE DEF t
<1>11. QED
      BY <1>5, <1>7, <1>8, <1>9, <1>10 DEF P!Requeue, P!Write, poolVars

LEMMA CancelIsForeseen ==
  ASSUME Whole, HandOver, CountRegress, UNCHANGED poolVars, NEW t \in Tasks, OP!CancelTask(t)
  PROVE  P!CancelTask(t)
<1>1. /\ task[t] # "absent" /\ task' = [task EXCEPT ![t] = "cancelled"]
      /\ UNCHANGED <<copies, pc, cur>>
      BY DEF OP!CancelTask, OP!messages
<1>2. RowStatus' = [RowStatus EXCEPT ![t] = "cancelled"]
  <2>1. \A u \in Tasks : task'[u] = IF u = t THEN "cancelled" ELSE task[u]
        BY <1>1, Types
  <2>2. \A u \in Tasks : RowStatus'[u] = IF u = t THEN "cancelled" ELSE RowStatus[u]
        BY <2>1 DEF RowStatus
  <2>3. RowStatus' = [u \in Tasks |-> RowStatus'[u]] /\ RowStatus = [u \in Tasks |-> RowStatus[u]]
        BY DEF RowStatus
  <2>4. QED
        BY <2>2, <2>3
<1>3. InHand' = InHand
      BY <1>1 DEF InHand
<1>4. UNCHANGED <<regress, copies, ready>>
  <2>1. \A u \in Tasks : ~ TakenBack(u)
        BY <1>1, Types DEF TakenBack, P!Waiting
  <2>2. \A u \in Tasks : regress'[u] = regress[u]
        BY <2>1 DEF CountRegress
  <2>3. regress \in [Tasks -> Nat] /\ regress' = [u \in Tasks |-> regress'[u]]
        BY Types DEF CountRegress
  <2>4. QED
        BY <1>1, <2>2, <2>3, QueueKept
<1>5. QED
      BY <1>2, <1>3, <1>4 DEF P!CancelTask, P!Write, P!api, P!history, poolVars

\* Whatever an API server does, the pool's module has foreseen.
LEMMA ApiToPool == Whole /\ ApiStep => [P!Next]_(P!vars)
<1> SUFFICES ASSUME Whole, ApiStep
             PROVE  [P!Next]_(P!vars)
    OBVIOUS
<1>1. HandOver /\ CountRegress /\ UNCHANGED poolVars
      BY DEF ApiStep, ApiSide
<1>2. ASSUME InHand' = InHand, RowStatus' = RowStatus, OP!Next
      PROVE  [P!Next]_(P!vars)
      BY <1>1, <1>2, ApiArrives
<1>3. ASSUME NEW h \in Handlers, O!HandlerStep(h)
      PROVE  [P!Next]_(P!vars)
      BY <1>2, <1>3, SameHandler, HandlerToPool DEF OP!Next
<1>4. ASSUME NEW p \in OP!Procs, O!PublishStep(p)
      PROVE  [P!Next]_(P!vars)
      BY <1>2, <1>4, SamePublish, PublishToPool DEF OP!Next
<1>5. ASSUME NEW p \in OP!Procs, O!StatementFails(p) \/ O!Abort(p)
      PROVE  [P!Next]_(P!vars)
  <2>1. OP!StatementFails(p) \/ OP!Abort(p)
        BY <1>5, SameFaults
  <2>2. OP!Next
        BY <2>1 DEF OP!Next
  <2>3. QED
        BY <1>1, <2>1, <2>2, FaultToPool
<1>6. ASSUME NEW s \in Servers, O!Crash(s) \/ O!LoseConnection(s)
      PROVE  [P!Next]_(P!vars)
  <2>1. OP!Crash(s) \/ OP!LoseConnection(s)
        BY <1>6, SameFaults
  <2>2. OP!Next
        BY <2>1 DEF OP!Next
  <2>3. QED
        BY <1>1, <1>2, <2>1, <2>2, FaultToPool, LossToPool
<1>7. ASSUME NEW s \in Servers, O!LoopStep(s)
      PROVE  [P!Next]_(P!vars)
  <2>1. OP!LoopStep(s)
        BY <1>7, SameLoop
  <2>2. CASE \/ OP!Tick(s) \/ OP!NextEvent(s) \/ OP!ListTasks(s) \/ OP!Count(s) \/ OP!EndTick(s)
             \/ \E t \in Tasks : OP!Inspect(s, t) /\ ~ OP!StillWaits(t)
        BY <1>2, <2>1, <2>2, LoopToPool DEF OP!Next
  <2>3. ASSUME NEW t \in Tasks, OP!Inspect(s, t), OP!StillWaits(t)
        PROVE  P!Next
        BY <1>1, <2>3, ReadIsForeseen DEF P!Next, P!Environment
  <2>4. CASE OP!Requeue(s) \/ OP!Recreate(s)
        BY <1>1, <2>4, RequeueIsForeseen DEF P!Next, P!Environment
  <2>5. QED
        BY <2>1, <2>2, <2>3, <2>4 DEF OP!LoopStep
<1>8. ASSUME NEW t \in Tasks, O!CancelTask(t)
      PROVE  P!Next
  <2>1. OP!CancelTask(t)
        BY <1>8 DEF O!CancelTask, OP!CancelTask, O!messages, OP!messages, O!loops, OP!loops
  <2>2. QED
        BY <1>1, <2>1, CancelIsForeseen DEF P!Next, P!Environment
<1>9. ASSUME NEW e \in Events, O!StoreLate(e)
      PROVE  [P!Next]_(P!vars)
  <2>1. OP!Next
        BY <1>9, SameEnvironment DEF O!Environment, OP!Next
  <2>2. InHand' = InHand /\ RowStatus' = RowStatus
        BY <1>9 DEF O!StoreLate, InHand, RowStatus
  <2>3. QED
        BY <1>2, <2>1, <2>2
<1>10. QED
       BY <1>3, <1>4, <1>5, <1>6, <1>7, <1>8, <1>9, SameStrand DEF ApiStep, ApiSide

-----------------------------------------------------------------------------
(* A step of a worker, as the outbox sees it *)

\* A worker at work has a message that was sent, so its task was submitted.
LEMMA WorkWasSubmitted ==
  ASSUME Whole, NEW w \in Workers, wpc[w] # "idle"
  PROVE  /\ P!On(w) \in Tasks /\ task[P!On(w)] # "absent"
         /\ O!HasMessage(P!On(w))
<1> DEFINE e == msg[w]
<1>1. e \in Events /\ TaskOf[e] \in Tasks /\ P!On(w) = TaskOf[e]
  <2>1. msg \in [Workers -> Events \cup {None}] /\ e # None
        BY Types DEF WP!TypeOK
  <2>2. QED
        BY <2>1, Types DEF P!On
<1>2. copies[e] > 0
      BY DEF Whole, PoolInv, WP!WasSent
<1>3. outbox[e].task = TaskOf[e]
      BY <1>1, <1>2 DEF Whole, OutboxInv, OP!SentRows, OP!Exists, Foreseen
<1>4. e \in OP!EventsOf(TaskOf[e]) /\ e \in O!EventsOf(TaskOf[e])
      BY <1>1, <1>3 DEF OP!EventsOf, O!EventsOf
<1>5. task[TaskOf[e]] # "absent"
  <2>1. \A t \in Tasks \ {} : task[t] # "absent" <=> OP!EventsOf(t) # {}
        BY DEF Whole, OutboxInv, OP!IInv, OP!RowInv, OP!OneEventPerTask
  <2>2. QED
        BY <1>1, <1>4, <2>1
<1> HIDE DEF e
<1>6. QED
      BY <1>1, <1>2, <1>4, <1>5 DEF O!HasMessage

\* A step that leaves the statuses alone writes no row.
LEMMA NoWrite ==
  ASSUME Whole, WriteRow, UNCHANGED RowStatus
  PROVE  UNCHANGED task
<1> SUFFICES ASSUME NEW t \in Tasks, NEW s \in P!Status, s # RowStatus[t],
                    task' = [task EXCEPT ![t] = s]
             PROVE  FALSE
    BY DEF WriteRow
<1>1. s # "absent"
      BY DEF P!Status, P!Waiting, P!Terminal
<1>2. task'[t] = s
      BY Types
<1>3. QED
      BY <1>1, <1>2 DEF RowStatus

\* A write of a worker is to the row of the task it is on.
LEMMA WriteIsOwn ==
  ASSUME Whole, WriteRow, NEW u \in Tasks, task[u] # "absent",
         NEW x \in {"processing", "success", "failed"}, P!Write(u, x)
  PROVE  UNCHANGED task \/ task' = [task EXCEPT ![u] = x]
<1> SUFFICES ASSUME NEW t \in Tasks, NEW s \in P!Status, s # RowStatus[t],
                    task' = [task EXCEPT ![t] = s]
             PROVE  t = u /\ s = x
    BY DEF WriteRow
<1>1. s # "absent"
      BY DEF P!Status, P!Waiting, P!Terminal
<1>2. task'[t] = s
      BY Types
<1>3. RowStatus'[t] = s
      BY <1>1, <1>2 DEF RowStatus
<1>4. RowStatus'[t] = IF t = u THEN x ELSE RowStatus[t]
      BY DEF P!Write, RowStatus
<1>5. QED
      BY <1>3, <1>4

\* Functions to BOOLEAN that agree are the same.
LEMMA BoolSame ==
  ASSUME NEW T, NEW f \in [T -> BOOLEAN], NEW g \in [T -> BOOLEAN], \A t \in T : g[t] <=> f[t]
  PROVE  g = f
<1>1. ASSUME NEW t \in T
      PROVE  g[t] = f[t]
  <2>1. f[t] \in BOOLEAN /\ g[t] \in BOOLEAN /\ (g[t] <=> f[t])
        OBVIOUS
  <2>2. QED
        BY <2>1
<1>2. QED
      BY <1>1

LEMMA BoolUpdate ==
  ASSUME NEW T, NEW f \in [T -> BOOLEAN], NEW g \in [T -> BOOLEAN], NEW u \in T,
         \A t \in T : t # u => (g[t] <=> f[t])
  PROVE  g = [f EXCEPT ![u] = g[u]]
<1> DEFINE h == [f EXCEPT ![u] = g[u]]
<1>1. h \in [T -> BOOLEAN] 
      OBVIOUS
<1>2. \A t \in T : g[t] <=> h[t]
      OBVIOUS
<1> HIDE DEF h
<1>3. QED
      BY <1>1, <1>2, BoolSame
\* AtWork follows the one worker that moves.
LEMMA WorkerMoves ==
  ASSUME Whole, NEW w \in Workers,
         \A v \in Workers \ {w} : wpc'[v] = wpc[v] /\ msg'[v] = msg[v]
  PROVE  /\ wpc[w] \notin P!BusyPc /\ wpc'[w] \notin P!BusyPc => AtWork' = AtWork
         /\ wpc[w] \in P!BusyPc => /\ AtWork[P!On(w)]
                                   /\ wpc'[w] \notin P!BusyPc =>
                                        \E b \in BOOLEAN : AtWork' = [AtWork EXCEPT ![P!On(w)] = b]
         /\ P!On(w) \in Tasks /\ wpc'[w] \in P!BusyPc /\ msg'[w] = msg[w]
              => AtWork' = [AtWork EXCEPT ![P!On(w)] = TRUE]
<1>1. AtWork \in [Tasks -> BOOLEAN] /\ AtWork' \in [Tasks -> BOOLEAN]
      BY DEF AtWork
<1> DEFINE Works(t) == \E v \in Workers : wpc[v] \in P!BusyPc /\ P!On(v) = t
           Goes(t) == \E v \in Workers : wpc'[v] \in P!BusyPc /\ TaskOf[msg'[v]] = t
<1>2. \A t \in Tasks : AtWork[t] <=> Works(t)
      BY DEF AtWork, P!BusyOn
<1>3. \A t \in Tasks : AtWork'[t] <=> Goes(t)
      BY DEF AtWork, P!BusyOn, P!On
<1>4. \A v \in Workers \ {w} : TaskOf[msg'[v]] = P!On(v)
      BY DEF P!On
<1>5. wpc[w] \in P!BusyPc => P!On(w) \in Tasks
      BY WorkWasSubmitted DEF P!BusyPc
<1>6. ASSUME wpc[w] \notin P!BusyPc, wpc'[w] \notin P!BusyPc
      PROVE  AtWork' = AtWork
  <2>1. \A t \in Tasks : Goes(t) <=> Works(t)
        BY <1>4, <1>6
  <2> HIDE DEF Works, Goes
  <2>2. \A t \in Tasks : AtWork'[t] <=> AtWork[t]
        BY <1>2, <1>3, <2>1
  <2>3. QED
        BY <1>1, <2>2, BoolSame
<1>7. ASSUME wpc[w] \in P!BusyPc
      PROVE  AtWork[P!On(w)]
      BY <1>2, <1>5, <1>7
<1>8. ASSUME P!On(w) \in Tasks, wpc'[w] \notin P!BusyPc \/ TaskOf[msg'[w]] = P!On(w)
      PROVE  AtWork' = [AtWork EXCEPT ![P!On(w)] = AtWork'[P!On(w)]]
  <2>1. \A t \in Tasks : t # P!On(w) => (Goes(t) <=> Works(t))
        BY <1>4, <1>8
  <2> HIDE DEF Works, Goes
  <2>2. \A t \in Tasks : t # P!On(w) => (AtWork'[t] <=> AtWork[t])
        BY <1>2, <1>3, <2>1
  <2>3. QED
        BY <1>1, <1>8, <2>2, BoolUpdate
<1>9. ASSUME wpc[w] \in P!BusyPc, wpc'[w] \notin P!BusyPc
      PROVE  \E b \in BOOLEAN : AtWork' = [AtWork EXCEPT ![P!On(w)] = b]
  <2>1. AtWork'[P!On(w)] \in BOOLEAN
        BY <1>1, <1>5, <1>9
  <2>2. QED
        BY <1>5, <1>8, <1>9, <2>1
<1>10. ASSUME P!On(w) \in Tasks, wpc'[w] \in P!BusyPc, msg'[w] = msg[w]
       PROVE  AtWork' = [AtWork EXCEPT ![P!On(w)] = TRUE]
  <2>1. TaskOf[msg'[w]] = P!On(w)
        BY <1>10 DEF P!On
  <2>2. Goes(P!On(w))
        BY <1>10, <2>1
  <2> HIDE DEF Goes
  <2>3. AtWork'[P!On(w)] = TRUE
    <3>1. AtWork'[P!On(w)] \in BOOLEAN /\ AtWork'[P!On(w)]
          BY <1>1, <1>3, <1>10, <2>2
    <3>2. QED
          BY <3>1
  <2>4. QED
        BY <1>8, <1>10, <2>1, <2>3
<1>11. QED
       BY <1>6, <1>7, <1>9, <1>10

\* What a worker does to a row is what the API servers expect of one at work on it.
LEMMA WorkIsForeseen ==
  ASSUME Whole, UNCHANGED apiVars, NEW t \in Tasks, AtWork[t], NEW b \in BOOLEAN,
         AtWork' = [AtWork EXCEPT ![t] = b],
         UNCHANGED task \/ \E x \in {"processing", "success", "failed"} : task' = [task EXCEPT ![t] = x]
  PROVE  [O!Next]_(O!vars)
<1>1. UNCHANGED <<outbox, copies, adrift, returned, pc, cur, batch, todo, chan, faults>>
      BY DEF apiVars
<1>2. CASE UNCHANGED task /\ b = TRUE
  <2>1. AtWork' = AtWork
        BY <1>2 DEF AtWork
  <2>2. QED
        BY <1>1, <1>2, <2>1 DEF O!vars
<1>3. CASE UNCHANGED task /\ b = FALSE
  <2>1. O!StopTask(t)
        BY <1>1, <1>3 DEF O!StopTask, O!messages, O!loops
  <2>2. QED
        BY <2>1 DEF O!Next, O!Environment
<1>4. CASE \E x \in {"processing", "success", "failed"} : task' = [task EXCEPT ![t] = x]
  <2>1. O!SaveTask(t)
        BY <1>1, <1>4 DEF O!SaveTask, O!messages, O!loops
  <2>2. QED
        BY <2>1 DEF O!Next, O!Environment
<1>5. QED
      BY <1>2, <1>3, <1>4

LEMMA PoolToOutbox == Whole /\ PoolStep => [O!Next]_(O!vars)
<1> SUFFICES ASSUME Whole, PoolStep
             PROVE  [O!Next]_(O!vars)
    OBVIOUS
<1>1. WriteRow /\ UNCHANGED apiVars
      BY DEF PoolStep, WorkerStep, PoolSide
<1>2. ASSUME UNCHANGED task, AtWork' = AtWork
      PROVE  UNCHANGED O!vars
      BY <1>1, <1>2 DEF apiVars, O!vars
<1>3. ASSUME UNCHANGED RowStatus, AtWork' = AtWork
      PROVE  UNCHANGED O!vars
      BY <1>1, <1>2, <1>3, NoWrite
<1>4. ASSUME NEW w \in Workers, UNCHANGED RowStatus, wpc[w] \notin P!BusyPc, wpc'[w] \notin P!BusyPc,
             \A v \in Workers \ {w} : wpc'[v] = wpc[v] /\ msg'[v] = msg[v]
      PROVE  UNCHANGED O!vars
      BY <1>3, <1>4, WorkerMoves
<1>5. ASSUME NEW w \in Workers, UNCHANGED <<RowStatus, wpc, msg>>
      PROVE  UNCHANGED O!vars
  <2>1. AtWork' = AtWork
        BY <1>5 DEF AtWork, P!BusyOn, P!On
  <2>2. QED
        BY <1>3, <1>5, <2>1
<1>6. wpc \in [Workers -> {"idle", "ack", "check", "mark", "start", "count", "work", "encode"}]
      BY Types DEF WP!TypeOK, WP!OpenPc, WP!BusyPc
<1>7. msg \in [Workers -> Events \cup {None}]
      BY Types DEF WP!TypeOK
<1>8. ASSUME NEW w \in Workers, P!Receive(w) \/ P!Check(w) \/ P!Mark(w) \/ P!Ack(w)
      PROVE  [O!Next]_(O!vars)
  <2>1. UNCHANGED RowStatus
        BY <1>8 DEF P!Receive, P!Check, P!Mark, P!Ack, P!rows
  <2>2. \A v \in Workers \ {w} : wpc'[v] = wpc[v] /\ msg'[v] = msg[v]
        BY <1>6, <1>7, <1>8 DEF P!Receive, P!Check, P!Mark, P!Ack, P!Goto
  <2>3. wpc[w] \notin P!BusyPc /\ wpc'[w] \notin P!BusyPc
        BY <1>6, <1>8 DEF P!Receive, P!Check, P!Mark, P!Ack, P!Goto, P!BusyPc
  <2>4. QED
        BY <1>4, <2>1, <2>2, <2>3
<1>9. ASSUME NEW w \in Workers, P!Start(w)
      PROVE  [O!Next]_(O!vars)
  <2>1. wpc[w] = "start" /\ wpc[w] # "idle" /\ wpc[w] \notin P!BusyPc
        BY <1>9 DEF P!Start, P!BusyPc
  <2>2. P!On(w) \in Tasks /\ task[P!On(w)] # "absent" /\ O!HasMessage(P!On(w))
        BY <2>1, WorkWasSubmitted
  <2>3. msg' = msg /\ \A v \in Workers \ {w} : wpc'[v] = wpc[v]
        BY <1>6, <1>9 DEF P!Start, P!Goto
  <2>4. CASE UNCHANGED RowStatus /\ wpc'[w] = "ack"
        BY <1>4, <2>1, <2>3, <2>4 DEF P!BusyPc
  <2>5. CASE RowStatus[P!On(w)] \in P!Waiting /\ P!Write(P!On(w), "processing") /\ wpc'[w] = "count"
    <3>1. task[P!On(w)] \in {"pending", "queued"}
          BY <2>2, <2>5 DEF RowStatus, P!Waiting
    <3>2. AtWork' = [AtWork EXCEPT ![P!On(w)] = TRUE]
          BY <2>2, <2>3, <2>5, WorkerMoves DEF P!BusyPc
    <3>3. task' = [task EXCEPT ![P!On(w)] = "processing"]
      <4>1. UNCHANGED task \/ task' = [task EXCEPT ![P!On(w)] = "processing"]
            BY <1>1, <2>2, <2>5, WriteIsOwn
      <4>2. RowStatus'[P!On(w)] = "processing"
            BY <2>2, <2>5 DEF P!Write, RowStatus
      <4>3. ~ UNCHANGED task
            BY <2>2, <3>1, <4>2 DEF RowStatus
      <4>4. QED
            BY <4>1, <4>3
    <3>4. O!StartTask(P!On(w))
          BY <1>1, <2>2, <3>1, <3>2, <3>3 DEF O!StartTask, apiVars, O!messages, O!loops
    <3>5. QED
          BY <2>2, <3>4 DEF O!Next, O!Environment
  <2>6. QED
        BY <1>6, <1>9, <2>4, <2>5 DEF P!Start, P!Startable, P!Goto
<1>10. ASSUME NEW w \in Workers, wpc[w] \in P!BusyPc, wpc'[w] \notin P!BusyPc \/ msg'[w] = msg[w],
              \A v \in Workers \ {w} : wpc'[v] = wpc[v] /\ msg'[v] = msg[v],
              \/ UNCHANGED RowStatus
              \/ \E x \in {"processing", "success", "failed"} : P!Write(P!On(w), x)
       PROVE  [O!Next]_(O!vars)
  <2>1. P!On(w) \in Tasks /\ task[P!On(w)] # "absent"
        BY <1>10, WorkWasSubmitted DEF P!BusyPc
  <2>2. AtWork[P!On(w)] /\ \E b \in BOOLEAN : AtWork' = [AtWork EXCEPT ![P!On(w)] = b]
    <3>1. AtWork[P!On(w)]
          BY <1>10, WorkerMoves
    <3>2. CASE wpc'[w] \in P!BusyPc
      <4>1. AtWork' = [AtWork EXCEPT ![P!On(w)] = TRUE]
            BY <1>10, <2>1, <3>2, WorkerMoves
      <4>2. QED
            BY <3>1, <4>1
    <3>3. CASE wpc'[w] \notin P!BusyPc
          BY <1>10, <3>1, <3>3, WorkerMoves
    <3>4. QED
          BY <3>2, <3>3
  <2>3. UNCHANGED task \/ \E x \in {"processing", "success", "failed"} : task' = [task EXCEPT ![P!On(w)] = x]
        BY <1>1, <1>10, <2>1, NoWrite, WriteIsOwn
  <2>4. QED
        BY <1>1, <2>1, <2>2, <2>3, WorkIsForeseen
<1>11. ASSUME NEW w \in Workers, P!Process(w)
       PROVE  [O!Next]_(O!vars)
  <2>1. wpc[w] \in P!BusyPc /\ msg' = msg /\ \A v \in Workers \ {w} : wpc'[v] = wpc[v]
        BY <1>6, <1>11 DEF P!Process, P!CountActive, P!SaveInfo, P!FailTask, P!Succeed, P!Active, P!Goto, P!BusyPc
  <2>2. \/ UNCHANGED RowStatus
        \/ \E x \in {"processing", "success", "failed"} : P!Write(P!On(w), x)
        BY <1>11 DEF P!Process, P!CountActive, P!SaveInfo, P!FailTask, P!Succeed, P!SavedFailed, P!Write, P!rows
  <2>3. QED
        BY <1>10, <2>1, <2>2
<1>12. ASSUME NEW w \in Workers, P!Exit(w)
       PROVE  [O!Next]_(O!vars)
  <2>1. /\ UNCHANGED RowStatus /\ wpc'[w] = "idle"
        /\ \A v \in Workers \ {w} : wpc'[v] = wpc[v] /\ msg'[v] = msg[v]
        BY <1>6, <1>7, <1>12 DEF P!Exit, P!rows
  <2>2. wpc'[w] \notin P!BusyPc
        BY <2>1 DEF P!BusyPc
  <2>3. QED
        BY <1>4, <1>10, <2>1, <2>2
<1>13. ASSUME NEW w \in Workers, P!Consume(w) \/ P!Process(w) \/ P!Lifecycle(w)
       PROVE  [O!Next]_(O!vars)
  <2>1. CASE P!LoseConnection(w) \/ P!Reconnect(w) \/ P!PreStop(w)
    <3>1. UNCHANGED <<RowStatus, wpc, msg>>
          BY <2>1 DEF P!LoseConnection, P!Reconnect, P!PreStop, P!rows
    <3>2. QED
          BY <1>5, <3>1
  <2>2. CASE P!Crash(w) \/ P!Sigterm(w)
        BY <1>12, <2>2 DEF P!Crash, P!Sigterm
  <2>3. QED
        BY <1>8, <1>9, <1>11, <1>13, <2>1, <2>2 DEF P!Consume, P!Lifecycle
<1>14. ASSUME NEW e \in Events, P!Cleanup(e)
       PROVE  [O!Next]_(O!vars)
  <2>1. UNCHANGED <<RowStatus, wpc, msg>>
        BY <1>14 DEF P!Cleanup
  <2>2. AtWork' = AtWork
        BY <2>1 DEF AtWork, P!BusyOn, P!On
  <2>3. QED
        BY <1>3, <2>1, <2>2
<1>15. QED
       BY <1>13, <1>14 DEF PoolStep, WorkerStep, PoolSide, P!Lifecycle

-----------------------------------------------------------------------------
(* Each part is the other one's environment. *)

LEMMA ApiToOutbox == ApiStep => O!Next
BY DEF ApiStep, ApiSide, O!Next, O!Environment

LEMMA PoolToPool == PoolStep => P!Next
BY DEF PoolStep, WorkerStep, PoolSide, P!Next, P!Environment, P!Lifecycle

LEMMA StepsAreForeseen ==
  Whole /\ [Next]_vars => [O!Next]_(O!vars) /\ [P!Next]_(P!vars)
<1>1. UNCHANGED vars => UNCHANGED O!vars /\ UNCHANGED P!vars
  <2>1. UNCHANGED vars => UNCHANGED <<task, outbox, copies, adrift, returned, pc, cur, batch,
                                      todo, chan, faults, ready, marks, wpc, msg, up, stopping, hit, regress, pfaults>>
        BY DEF vars, apiVars, poolVars
  <2>2. UNCHANGED vars => RowStatus' = RowStatus /\ InHand' = InHand /\ AtWork' = AtWork
        BY <2>1 DEF RowStatus, InHand, AtWork, P!BusyOn, P!On
  <2>3. QED
        BY <2>1, <2>2 DEF O!vars, P!vars
<1>2. QED
      BY <1>1, ApiToOutbox, ApiToPool, PoolToOutbox, PoolToPool DEF Next

LEMMA InitIsForeseen == Init => O!Init /\ P!Init
<1> SUFFICES ASSUME Init
             PROVE  P!Init
    BY DEF Init
<1>1. RowStatus = [t \in Tasks |-> "pending"]
      BY DEF Init, O!Init, RowStatus
<1>2. InHand = [s \in Servers |-> None]
      BY DEF Init, O!Init, InHand, O!Procs
<1>3. copies = [e \in Events |-> 0]
      BY DEF Init, O!Init
<1>4. QED
      BY <1>1, <1>2, <1>3 DEF Init, P!Init

LEMMA WholeInit == Init => Whole
<1> SUFFICES ASSUME Init
             PROVE  Whole
    OBVIOUS
<1>1. OP!Init /\ WP!Init
      BY InitIsForeseen, SameOutboxInit, SamePoolInit
<1>2. OutboxInv
      BY <1>1, SameAssumptions, OP!IInvInit, OP!SentInit, OP!FaultsBounded DEF OutboxInv
<1>3. PoolInv
      BY <1>1, SameAssumptions, WP!GuardInit, WP!WorkInit, WP!SentInit, WP!CopiesInit DEF PoolInv
<1>4. Foreseen
      BY DEF Init, O!Init, O!NoRow, Foreseen
<1>5. QED
      BY <1>2, <1>3, <1>4 DEF Whole

LEMMA WholeStep == Whole /\ [Next]_vars => Whole'
<1> SUFFICES ASSUME Whole, [Next]_vars
             PROVE  Whole'
    OBVIOUS
<1>1. [OP!Next]_(OP!vars) /\ [WP!Next]_(WP!vars)
      BY StepsAreForeseen, SameOutboxNext, SamePoolNext
<1>2. OutboxInv'
  <2>1. OP!IInv' /\ OP!SentRows'
        BY <1>1, SameAssumptions, OP!IInvStep, OP!SentStep DEF Whole, OutboxInv, OP!IInv
  <2>2. faults' <= ApiFaults
        BY <1>1, SameAssumptions, Types, OP!FaultsBounded DEF Whole, OutboxInv
  <2>3. QED
        BY <2>1, <2>2 DEF OutboxInv
<1>3. PoolInv'
  <2>1. WP!GuardInv'
        BY <1>1, SameAssumptions, WP!GuardStep DEF Whole, PoolInv
  <2>2. WP!WasSent'
        BY <1>1, SameAssumptions, Types, WP!SentStep DEF Whole, PoolInv
  <2>3. WP!CopiesCounted'
        BY <1>1, SameAssumptions, Types, WP!CopiesStep DEF Whole, PoolInv
  <2>4. WP!ProcessingHasWorker'
        BY <1>1, SameAssumptions, Types, WP!WorkStep DEF Whole, PoolInv
  <2>5. QED
        BY <2>1, <2>2, <2>3, <2>4 DEF PoolInv
<1>4. Foreseen'
  <2>1. CASE ApiStep
        BY <2>1 DEF ApiStep, ApiSide, AsForeseen, Foreseen
  <2>2. CASE UNCHANGED outbox
        BY <2>2 DEF Whole, Foreseen
  <2>3. QED
        BY <2>1, <2>2 DEF Next, PoolStep, WorkerStep, PoolSide, vars, apiVars
<1>5. QED
      BY <1>2, <1>3, <1>4 DEF Whole

\* The invariants of both parts hold of the whole.
THEOREM PartsHold == Spec => []Whole
<1>1. QED
      BY WholeInit, WholeStep, PTL DEF Spec

\* To the API servers the workers are what Outbox takes them for.
THEOREM OutboxServed == Spec => OutboxIsServed
<1>1. Init => O!Init
      BY DEF Init
<1>2. Whole /\ [Next]_vars => [O!Next]_(O!vars)
      BY StepsAreForeseen
<1>3. QED
      BY <1>1, <1>2, PartsHold, PTL DEF Spec, OutboxIsServed, O!Spec

\* To the workers the API servers are what WorkerPool takes them for.
THEOREM PoolServed == Spec => PoolIsServed
<1>1. Init => P!Init
      BY InitIsForeseen
<1>2. Whole /\ [Next]_vars => [P!Next]_(P!vars)
      BY StepsAreForeseen
<1>3. QED
      BY <1>1, <1>2, PartsHold, PTL DEF Spec, PoolIsServed, P!Spec

\* A task that waits is pending in the outbox, in the queue or with a worker
\* that will start it, one that is processing with a worker: nobody lets go of it
\* before the next one has it, unless the broker returned its message, a fault hit its
\* handling or recovery took it back.
THEOREM TaskInHand == Spec => []TaskIsInHand
<1>1. ASSUME Whole, NEW t \in Tasks, task[t] \in P!Waiting, P!Undisturbed(t)
      PROVE  \E e \in P!MessagesOf(t) :
               \/ outbox[e].status = "pending" \/ e \in returned
               \/ ready[e] > 0 \/ \E w \in Workers : P!Serves(w, e)
  <2>1. task[t] # "absent" /\ RowStatus[t] = task[t]
        BY <1>1 DEF P!Waiting, RowStatus
  <2>2. PICK e \in Events : outbox[e].task = t
    <3>1. \A u \in Tasks \ {} : task[u] # "absent" <=> OP!EventsOf(u) # {}
          BY <1>1 DEF Whole, OutboxInv, OP!IInv, OP!RowInv, OP!OneEventPerTask
    <3>2. QED
          BY <2>1, <3>1 DEF OP!EventsOf
  <2>3. outbox[e].status # "absent"
        BY <1>1, <2>2 DEF Whole, OutboxInv, OP!IInv, OP!RowInv, OP!RowsNameTasks, OP!Exists
  <2>4. e \in P!MessagesOf(t) /\ e \in WP!MessagesOf(t)
        BY <1>1, <2>2, <2>3 DEF Whole, Foreseen, P!MessagesOf, WP!MessagesOf
  <2>5. CASE outbox[e].status = "pending" \/ e \in returned
        BY <2>4, <2>5
  <2>6. CASE outbox[e].status = "published" /\ e \notin returned
    <3>1. copies[e] > 0
          BY <1>1, <2>6 DEF Whole, OutboxInv, OP!IInv, OP!DeliveryInv, OP!PublishedWasEnqueued
    <3>2. RowStatus[t] \in WP!Waiting /\ WP!Undisturbed(t)
          BY <1>1, <2>1 DEF P!Waiting, WP!Waiting, P!Undisturbed, WP!Undisturbed
    <3>3. \E m \in WP!MessagesOf(t) : ready[m] > 0 \/ \E w \in Workers : WP!Serves(w, m)
          BY <1>1, <2>4, <3>1, <3>2 DEF Whole, PoolInv, WP!GuardInv, WP!WaitingHasMessage
    <3>4. QED
          BY <3>3 DEF P!MessagesOf, WP!MessagesOf, P!Serves, WP!Serves, P!OpenPc, WP!OpenPc
  <2>7. QED
        BY <1>1, <2>3, <2>5, <2>6 DEF Whole, OutboxInv, OP!SentRows
<1>2. ASSUME Whole, NEW t \in Tasks, task[t] = "processing", ~ hit[t]
      PROVE  P!BusyOn(t) # {}
  <2>1. RowStatus[t] = "processing"
        BY <1>2 DEF RowStatus
  <2>2. WP!BusyOn(t) # {}
        BY <1>2, <2>1 DEF Whole, PoolInv, WP!ProcessingHasWorker
  <2>3. QED
        BY <2>2 DEF P!BusyOn, WP!BusyOn, P!BusyPc, WP!BusyPc, P!On, WP!On
<1>3. Whole => TaskIsInHand
      BY <1>1, <1>2 DEF TaskIsInHand
<1>4. QED
      BY <1>3, PartsHold, PTL

\* The tables, the queue, the servers and the workers keep their types.
THEOREM WellTyped == Spec => []TypeOK
<1>1. OP!TypeOK => O!TypeOK
      BY DEF O!TypeOK, OP!TypeOK, O!TaskStatus, OP!TaskStatus, O!EventRow, OP!EventRow,
        O!EventStatus, OP!EventStatus, O!Procs, OP!Procs, O!PublishPc, OP!PublishPc,
        O!HoldingPc, OP!HoldingPc, O!RecoverPc, OP!RecoverPc
<1>2. WP!TypeOK => P!TypeOK
      BY DEF P!TypeOK, WP!TypeOK, P!Status, WP!Status, P!Waiting, WP!Waiting,
        P!Terminal, WP!Terminal, P!OpenPc, WP!OpenPc, P!BusyPc, WP!BusyPc
<1>3. Whole => TypeOK
      BY <1>1, <1>2, Types DEF TypeOK
<1>4. QED
      BY <1>3, PartsHold, PTL

\* Of an event there is one message at a time, and one more for each fault: what the
\* outbox pays for a copy and the pool for a redelivery adds up.
THEOREM EveryCopyPaid == Spec => []CopiesArePaid
<1>1. ASSUME Whole, NEW e \in Events
      PROVE  ready[e] + Cardinality({w \in Workers : msg[w] = e})
               <= faults + pfaults + (IF O!Sent(e) THEN 1 ELSE 0)
  <2>1. /\ ready[e] \in Nat /\ copies[e] \in Nat /\ adrift[e] \in Nat
        /\ faults \in Nat /\ pfaults \in Nat
        BY <1>1, Types DEF OP!TypeOK, WP!TypeOK
  <2>2. copies[e] + adrift[e] <= faults + (IF OP!Sent(e) THEN 1 ELSE 0)
        BY <1>1 DEF Whole, OutboxInv, OP!IInv, OP!DeliveryInv, OP!DuplicatesArePaid
  <2>3. OP!Sent(e) <=> O!Sent(e)
        BY DEF O!Sent, OP!Sent, O!Procs, OP!Procs
  <2>4. ready[e] + Cardinality({w \in Workers : msg[w] = e}) <= copies[e] + pfaults
        BY <1>1 DEF Whole, PoolInv, WP!CopiesCounted, WP!Holders, WP!Cardinality, Cardinality
  <2>5. Cardinality({w \in Workers : msg[w] = e}) \in Nat
    <3>1. IsFiniteSet(Workers)
          BY SameAssumptions DEF WP!PoolAssumption, WP!IsFiniteSet, IsFiniteSet
    <3>2. IsFiniteSet({w \in Workers : msg[w] = e})
          BY <3>1, FS_Subset
    <3>3. QED
          BY <3>2, FS_CardinalityType
  <2>6. QED
        BY <2>1, <2>2, <2>3, <2>4, <2>5
<1>2. Whole => CopiesArePaid
      BY <1>1 DEF CopiesArePaid
<1>3. QED
      BY <1>2, PartsHold, PTL

\* What OutboxProofs and WorkerPoolProofs prove of each part alone holds where they
\* meet: an event is handed to the queue and closed as Delivery says; beyond the first
\* each worker on a task is one that recovery let in; a final status that nobody has in
\* hand stays final.
THEOREM PartsKeepTheirPromises ==
  /\ Spec => OP!Delivers
  /\ Spec => []O!OneEventPerTask
  /\ Spec => []P!WorkersArePaid
  /\ Spec => P!FinalIsFinal
<1>1. Whole => O!OneEventPerTask
      BY DEF Whole, OutboxInv, OP!IInv, OP!RowInv, OP!OneEventPerTask, O!OneEventPerTask,
        OP!EventsOf, O!EventsOf
<1>2. Spec => WP!Spec
  <2>1. Init => WP!Init
        BY InitIsForeseen, SamePoolInit
  <2>2. Whole /\ [Next]_vars => [WP!Next]_(WP!vars)
        BY StepsAreForeseen, SamePoolNext
  <2>3. QED
        BY <2>1, <2>2, PartsHold, PTL DEF Spec, WP!Spec
<1>3. WP!Spec => []WP!WorkersArePaid
      BY SameAssumptions, WP!WorkersBounded, PTL
<1>4. WP!WorkersArePaid => P!WorkersArePaid
      BY DEF WP!WorkersArePaid, P!WorkersArePaid, WP!BusyOn, P!BusyOn, WP!On, P!On, WP!BusyPc, P!BusyPc,
        WP!Waiting, P!Waiting, WP!Cardinality, P!Cardinality
<1>5. WP!Spec => WP!FinalIsFinal
      BY SameAssumptions, WP!FinalStatusStays, PTL
<1>6. WP!FinalIsFinal => P!FinalIsFinal
  <2>1. [\A t \in Tasks : WP!Quiet(t) => RowStatus'[t] \in WP!Terminal]_(WP!vars)
          => [\A t \in Tasks : P!Quiet(t) => RowStatus'[t] \in P!Terminal]_(P!vars)
        BY DEF WP!Quiet, P!Quiet, WP!Terminal, P!Terminal, WP!BusyOn, P!BusyOn, WP!On, P!On,
          WP!BusyPc, P!BusyPc, WP!vars, P!vars
  <2>2. QED
        BY <2>1, PTL DEF WP!FinalIsFinal, P!FinalIsFinal
<1>7. Spec => OP!Spec
  <2>1. Init => OP!Init
        BY InitIsForeseen, SameOutboxInit
  <2>2. Whole /\ [Next]_vars => [OP!Next]_(OP!vars)
        BY StepsAreForeseen, SameOutboxNext
  <2>3. QED
        BY <2>1, <2>2, PartsHold, PTL DEF Spec, OP!Spec
<1>8. OP!Spec => OP!Delivers
      BY SameAssumptions, OP!Refinement, PTL
<1>9. QED
      BY <1>1, <1>2, <1>3, <1>4, <1>5, <1>6, <1>7, <1>8, PartsHold, PTL
=============================================================================
