-------------------------- MODULE WorkerPoolProofs --------------------------
(***************************************************************************)
(* Proofs about WorkerPool, for any number of workers, messages, copies,   *)
(* recovery loops and faults.                                              *)
(***************************************************************************)
EXTENDS WorkerPool, FiniteSetTheorems, TLAPS

-----------------------------------------------------------------------------
(* Type correctness: a worker has a message unless it is idle, and nothing *)
(* is taken from or given back to the queue that is not there.             *)
LEMMA TypeInit == Init => TypeOK
BY PoolAssumption DEF Init, TypeOK, Status, Waiting

\* A worker that is not idle has a message, whose task is known.
LEMMA HasMessage ==
  ASSUME TypeOK, NEW w \in Workers, pc[w] # "idle"
  PROVE  msg[w] \in Messages /\ On(w) \in Tasks
BY PoolAssumption DEF TypeOK, On

LEMMA GiveBackType ==
  ASSUME TypeOK, NEW w \in Workers
  PROVE  GiveBack(w) \in [Messages -> Nat]
BY HasMessage DEF GiveBack, TypeOK

LEMMA ConsumeType == TypeOK /\ (\E w \in Workers : Consume(w)) => TypeOK'
<1> SUFFICES ASSUME TypeOK, NEW w \in Workers, Consume(w)
             PROVE  TypeOK'
    OBVIOUS
<1> USE DEF TypeOK, OpenPc, BusyPc, rows, api, history, Goto
<1>1. CASE Receive(w)
      BY <1>1, PoolAssumption DEF Receive, Available
<1>2. CASE Check(w)
      BY <1>2 DEF Check, Fault
<1>3. CASE Mark(w)
  <2>1. msg[w] \in Messages
        BY <1>3, HasMessage DEF Mark
  <2>2. QED
        BY <1>3, <2>1 DEF Mark, Fault
<1>4. CASE Start(w)
  <2>1. On(w) \in Tasks
        BY <1>4, HasMessage DEF Start
  <2>2. status' \in [Tasks -> Status] /\ hit' \in [Tasks -> BOOLEAN]
        BY <1>4, <2>1 DEF Start, Write, Hit, Status
  <2>3. QED
        BY <1>4, <2>2 DEF Start, Fault, Hit
<1>5. CASE Ack(w)
      BY <1>5 DEF Ack
<1>6. QED
      BY <1>1, <1>2, <1>3, <1>4, <1>5 DEF Consume

LEMMA ProcessType == TypeOK /\ (\E w \in Workers : Process(w)) => TypeOK'
<1> SUFFICES ASSUME TypeOK, NEW w \in Workers, Process(w)
             PROVE  TypeOK'
    OBVIOUS
<1>1. On(w) \in Tasks
      BY HasMessage DEF Process, CountActive, SaveInfo, FailTask, Succeed, Active
<1> USE DEF TypeOK, OpenPc, BusyPc, rows, api, history, Goto
<1>2. CASE CountActive(w)
      BY <1>2 DEF CountActive
<1>3. CASE SaveInfo(w)
      BY <1>1, <1>3 DEF SaveInfo, Fault, Write, Status
<1>4. CASE FailTask(w)
  <2>1. status' \in [Tasks -> Status] /\ hit' \in [Tasks -> BOOLEAN]
        BY <1>1, <1>4 DEF FailTask, SavedFailed, Hit, Status, Terminal
  <2>2. QED
        BY <1>4, <2>1 DEF FailTask, Active, Fault, Hit
<1>5. CASE Succeed(w)
  <2>1. status' \in [Tasks -> Status] /\ hit' \in [Tasks -> BOOLEAN]
        BY <1>1, <1>5 DEF Succeed, Write, Hit, Status, Terminal
  <2>2. QED
        BY <1>5, <2>1 DEF Succeed, Fault, Hit
<1>6. QED
      BY <1>2, <1>3, <1>4, <1>5 DEF Process

LEMMA ExitType ==
  ASSUME TypeOK, NEW w \in Workers, Exit(w), faults' \in Nat
  PROVE  TypeOK'
<1>1. pc[w] \in BusyPc \cup {"start"} => On(w) \in Tasks
      BY HasMessage DEF BusyPc
<1>2. hit' \in [Tasks -> BOOLEAN] /\ regress' = regress
      BY <1>1 DEF Exit, Hit, history, TypeOK
<1>3. ready' \in [Messages -> Nat]
      BY GiveBackType DEF Exit
<1>4. QED
      BY <1>2, <1>3, PoolAssumption DEF Exit, TypeOK, rows, api

LEMMA LifecycleType == TypeOK /\ (\E w \in Workers : Lifecycle(w)) => TypeOK'
<1> SUFFICES ASSUME TypeOK, NEW w \in Workers, Lifecycle(w)
             PROVE  TypeOK'
    OBVIOUS
<1>1. CASE LoseConnection(w)
      BY <1>1, GiveBackType DEF LoseConnection, Fault, TypeOK, rows, api, history
<1>2. CASE Reconnect(w)
      BY <1>2 DEF Reconnect, TypeOK, rows, api, history
<1>3. CASE Crash(w)
      BY <1>3, ExitType DEF Crash, Fault, TypeOK
<1>4. CASE PreStop(w)
      BY <1>4 DEF PreStop, Fault, TypeOK, rows, api, history
<1>5. CASE Sigterm(w)
      BY <1>5, ExitType DEF Sigterm, TypeOK
<1>6. QED
      BY <1>1, <1>2, <1>3, <1>4, <1>5 DEF Lifecycle

LEMMA EnvironmentType == TypeOK /\ Environment => TypeOK'
<1> SUFFICES ASSUME TypeOK, Environment
             PROVE  TypeOK'
    OBVIOUS
<1> USE DEF TypeOK, rows, api, history
<1>0. ASSUME NEW a \in Messages, Arrive(a)
      PROVE  TypeOK'
      BY <1>0 DEF Arrive
<1>1. CASE \E m \in Messages : Cleanup(m)
      BY <1>1 DEF Cleanup
<1>2. CASE \E t \in Tasks : CancelTask(t)
      BY <1>2 DEF CancelTask, Write, Status, Terminal
<1>3. ASSUME NEW r \in Recoverers, Requeue(r)
      PROVE  TypeOK'
      BY <1>3, PoolAssumption DEF Requeue, Write, Status, Waiting
<1>4. CASE \E r \in Recoverers, t \in Tasks : ReadPending(r, t)
      BY <1>4 DEF ReadPending
<1>5. CASE \E r \in Recoverers : LetGo(r)
      BY <1>5 DEF LetGo
<1>6. QED
      BY <1>0, <1>1, <1>2, <1>3, <1>4, <1>5 DEF Environment

LEMMA TypeStep == TypeOK /\ [Next]_vars => TypeOK'
<1>1. TypeOK /\ UNCHANGED vars => TypeOK'
      BY DEF TypeOK, vars
<1>2. QED
      BY <1>1, ConsumeType, ProcessType, LifecycleType, EnvironmentType DEF Next

\* The worker pool is type correct: no copy of a message is taken twice.
THEOREM PoolTypeCorrect == Spec => []TypeOK
<1>1. QED
      BY TypeInit, TypeStep, PTL DEF Spec

-----------------------------------------------------------------------------
(* Final statuses *)

LEMMA FinalStep ==
  ASSUME TypeOK, [Next]_vars, NEW t \in Tasks, Quiet(t)
  PROVE  status'[t] \in Terminal
<1> USE DEF TypeOK, Quiet
<1>0. \A w \in Workers : pc[w] \in BusyPc => On(w) # t
      BY DEF BusyOn
<1>1. CASE UNCHANGED status
      BY <1>1
<1>2. ASSUME NEW w \in Workers, Start(w)
      PROVE  status'[t] \in Terminal
  <2>1. On(w) = t => ~ Startable(On(w))
        BY DEF Startable, Waiting, Terminal
  <2>2. QED
        BY <1>2, <2>1 DEF Start, Write
<1>3. ASSUME NEW w \in Workers, Process(w)
      PROVE  status'[t] \in Terminal
  <2>1. On(w) # t
        BY <1>0, <1>3 DEF Process, CountActive, SaveInfo, FailTask, Succeed, Active, BusyPc
  <2>2. QED
        BY <1>3, <2>1 DEF Process, CountActive, SaveInfo, FailTask, Succeed, SavedFailed,
                          Write, rows
<1>4. ASSUME NEW u \in Tasks, CancelTask(u)
      PROVE  status'[t] \in Terminal
      BY <1>4 DEF CancelTask, Write, Terminal
<1>5. ASSUME NEW r \in Recoverers, Requeue(r)
      PROVE  status'[t] \in Terminal
      BY <1>5 DEF Requeue, Write
<1>6. QED
      BY <1>1, <1>2, <1>3, <1>4, <1>5
      DEF Next, Consume, Receive, Check, Mark, Ack, Lifecycle, LoseConnection, Reconnect,
          Crash, PreStop, Sigterm, Exit, Environment, Arrive, Cleanup, LetGo, ReadPending, rows, vars

\* A final status outlives whatever copies of the message are still to come.
THEOREM FinalStatusStays == Spec => FinalIsFinal
<1>1. TypeOK /\ [Next]_vars => [\A t \in Tasks : Quiet(t) => status'[t] \in Terminal]_vars
      BY FinalStep
<1>2. QED
      BY <1>1, PoolTypeCorrect, PTL DEF Spec, FinalIsFinal

-----------------------------------------------------------------------------
(* Workers on one task *)

LEMMA BusyFinite == \A t \in Tasks : IsFiniteSet(BusyOn(t)) /\ Cardinality(BusyOn(t)) \in Nat
<1> SUFFICES ASSUME NEW t \in Tasks
             PROVE  IsFiniteSet(BusyOn(t)) /\ Cardinality(BusyOn(t)) \in Nat
    OBVIOUS
<1>1. IsFiniteSet(BusyOn(t))
      BY PoolAssumption, FS_Subset DEF BusyOn
<1>2. QED
      BY <1>1, FS_CardinalityType

Allowed(t) == regress[t] + (IF status[t] \in Waiting THEN 0 ELSE 1)

\* No worker joins, and no allowance is taken away.
LEMMA PaidKept ==
  ASSUME TypeOK, TypeOK', WorkersArePaid,
         \A w \in Workers : pc'[w] \in BusyPc => pc[w] \in BusyPc /\ msg'[w] = msg[w],
         \A t \in Tasks : Allowed(t)' >= Allowed(t)
  PROVE  WorkersArePaid'
<1> SUFFICES ASSUME NEW t \in Tasks
             PROVE  (Cardinality(BusyOn(t)) <= Allowed(t))'
    BY DEF WorkersArePaid, Allowed
<1>1. BusyOn(t)' \subseteq BusyOn(t)
      BY DEF BusyOn, On
<1>2. Cardinality(BusyOn(t)') <= Cardinality(BusyOn(t)) /\ Cardinality(BusyOn(t)') \in Nat
      BY <1>1, BusyFinite, FS_Subset, FS_CardinalityType
<1>3. Allowed(t) \in Nat /\ Allowed(t)' \in Nat
      BY DEF Allowed, TypeOK
<1>4. Cardinality(BusyOn(t)) <= Allowed(t)
      BY DEF WorkersArePaid, Allowed
<1>5. QED
      BY <1>2, <1>3, <1>4, BusyFinite

LEMMA PaidStart ==
  ASSUME TypeOK, TypeOK', WorkersArePaid, NEW w \in Workers, Startable(On(w)),
         pc[w] = "start", Goto(w, "count"), Write(On(w), "processing"), UNCHANGED regress
  PROVE  WorkersArePaid'
<1> SUFFICES ASSUME NEW t \in Tasks
             PROVE  (Cardinality(BusyOn(t)) <= Allowed(t))'
    BY DEF WorkersArePaid, Allowed
<1>1. Cardinality(BusyOn(t)) <= Allowed(t)
      BY DEF WorkersArePaid, Allowed
<1>2. CASE t = On(w)
  <2>1. BusyOn(t)' = BusyOn(t) \cup {w} /\ w \notin BusyOn(t)
        BY <1>2 DEF BusyOn, On, Goto, BusyPc, TypeOK
  <2>2. Cardinality(BusyOn(t)') = Cardinality(BusyOn(t)) + 1
        BY <2>1, BusyFinite, FS_AddElement
  <2>3. Allowed(t) = regress[t] /\ Allowed(t)' = regress[t] + 1
        BY <1>2 DEF Allowed, Startable, Write, Waiting, TypeOK
  <2>4. QED
        BY <1>1, <2>2, <2>3, BusyFinite DEF TypeOK
<1>3. CASE t # On(w)
  <2>1. BusyOn(t)' = BusyOn(t)
        BY <1>3 DEF BusyOn, On, Goto, BusyPc, TypeOK
  <2>2. Allowed(t)' = Allowed(t)
        BY <1>3 DEF Allowed, Write, TypeOK
  <2>3. QED
        BY <1>1, <2>1, <2>2
<1>4. QED
      BY <1>2, <1>3

LEMMA PaidStep == TypeOK /\ TypeOK' /\ WorkersArePaid /\ [Next]_vars => WorkersArePaid'
<1> SUFFICES ASSUME TypeOK, TypeOK', WorkersArePaid, [Next]_vars
             PROVE  WorkersArePaid'
    OBVIOUS
<1> USE DEF rows, api, history
<1>0. \A t \in Tasks : Allowed(t) \in Nat
      BY DEF Allowed, TypeOK
<1>1. ASSUME NEW w \in Workers, Consume(w), ~ (Startable(On(w)) /\ Goto(w, "count"))
      PROVE  WorkersArePaid'
  <2>1. UNCHANGED <<status, regress>>
        BY <1>1 DEF Consume, Receive, Check, Mark, Start, Ack, Hit
  <2>2. \A v \in Workers : pc'[v] \in BusyPc => pc[v] \in BusyPc /\ msg'[v] = msg[v]
        BY <1>1 DEF Consume, Receive, Check, Mark, Start, Ack, Goto, BusyPc, TypeOK
  <2>3. \A t \in Tasks : Allowed(t)' = Allowed(t)
        BY <2>1 DEF Allowed
  <2>4. QED
        BY <1>0, <2>2, <2>3, PaidKept
<1>2. ASSUME NEW w \in Workers, Start(w), Startable(On(w)), Goto(w, "count")
      PROVE  WorkersArePaid'
      BY <1>2, PaidStart DEF Start, Goto, TypeOK
<1>3. ASSUME NEW w \in Workers, Process(w)
      PROVE  WorkersArePaid'
  <2>1. \A v \in Workers : pc'[v] \in BusyPc => pc[v] \in BusyPc /\ msg'[v] = msg[v]
        BY <1>3 DEF Process, CountActive, SaveInfo, FailTask, Succeed, Active, Goto, BusyPc, TypeOK
  <2>2. /\ UNCHANGED regress
        /\ \A t \in Tasks : status'[t] = status[t] \/ status'[t] \notin Waiting
        BY <1>3 DEF Process, CountActive, SaveInfo, FailTask, Succeed, SavedFailed, Write,
                    Hit, Waiting, TypeOK
  <2>3. \A t \in Tasks : Allowed(t)' >= Allowed(t)
        BY <2>2 DEF Allowed, TypeOK
  <2>4. QED
        BY <2>1, <2>3, PaidKept
<1>4. ASSUME NEW w \in Workers, Lifecycle(w)
      PROVE  WorkersArePaid'
  <2>1. UNCHANGED <<status, regress>>
        BY <1>4 DEF Lifecycle, LoseConnection, Reconnect, Crash, PreStop, Sigterm, Exit, Hit
  <2>2. \A v \in Workers : pc'[v] \in BusyPc => pc[v] \in BusyPc /\ msg'[v] = msg[v]
        BY <1>4 DEF Lifecycle, LoseConnection, Reconnect, Crash, PreStop, Sigterm, Exit,
                    BusyPc, TypeOK
  <2>3. \A t \in Tasks : Allowed(t)' = Allowed(t)
        BY <2>1 DEF Allowed
  <2>4. QED
        BY <1>0, <2>2, <2>3, PaidKept
<1>5. CASE Environment \/ UNCHANGED vars
  <2>1. UNCHANGED <<pc, msg>>
        BY <1>5 DEF Environment, Arrive, Cleanup, CancelTask, Requeue, LetGo, ReadPending, vars
  <2>2. \A t \in Tasks : Allowed(t)' >= Allowed(t)
    <3>1. CASE UNCHANGED <<status, regress>>
          BY <1>0, <3>1 DEF Allowed
    <3>2. ASSUME NEW u \in Tasks, CancelTask(u)
          PROVE  \A t \in Tasks : Allowed(t)' >= Allowed(t)
          BY <3>2 DEF CancelTask, Write, Allowed, Waiting, TypeOK
    <3>3. ASSUME NEW r \in Recoverers, Requeue(r)
          PROVE  \A t \in Tasks : Allowed(t)' >= Allowed(t)
      <4>1. PICK u \in Tasks : u = seen[r]
            BY <3>3 DEF Requeue, TypeOK
      <4>2. \A t \in Tasks \ {u} : status'[t] = status[t] /\ regress'[t] = regress[t]
            BY <3>3, <4>1 DEF Requeue, Write, TypeOK
      <4>3. /\ status'[u] = "queued"
            /\ regress'[u] = IF status[u] \in Waiting THEN regress[u] ELSE regress[u] + 1
            BY <3>3, <4>1 DEF Requeue, Write, TypeOK
      <4>4. QED
            BY <4>2, <4>3 DEF Allowed, Waiting, TypeOK
    <3>4. QED
          BY <1>5, <3>1, <3>2, <3>3 DEF Environment, Arrive, Cleanup, LetGo, ReadPending, vars
  <2>3. QED
        BY <2>1, <2>2, PaidKept
<1>6. ASSUME NEW w \in Workers, Consume(w)
      PROVE  WorkersArePaid'
  <2>1. Goto(w, "count") => Start(w)
        BY <1>6 DEF Consume, Receive, Check, Mark, Ack, Goto, TypeOK
  <2>2. QED
        BY <1>1, <1>2, <1>6, <2>1
<1>7. QED
      BY <1>3, <1>4, <1>5, <1>6 DEF Next

LEMMA PaidInit == Init => WorkersArePaid
<1> SUFFICES ASSUME Init, NEW t \in Tasks
             PROVE  Cardinality(BusyOn(t)) <= regress[t] + (IF status[t] \in Waiting THEN 0 ELSE 1)
    BY DEF WorkersArePaid
<1>1. BusyOn(t) = {}
      BY DEF Init, BusyOn, BusyPc
<1>2. QED
      BY <1>1, FS_EmptySet DEF Init, Waiting

\* Beyond the first, each worker on a task is one that recovery let in.
THEOREM WorkersBounded == Spec => []WorkersArePaid
<1>1. QED
      BY TypeInit, TypeStep, PaidInit, PaidStep, PTL DEF Spec

-----------------------------------------------------------------------------
(* No waiting task is forgotten *)

Open(t) == status[t] \in Waiting /\ Undisturbed(t)
Marker(m) == \E w \in Workers : msg[w] = m /\ pc[w] = "start"
Served(m) == ready[m] > 0 \/ \E w \in Workers : Serves(w, m)

\* Steps under which no task opens, and no message of one that stays open is
\* let go.
LEMMA GuardKept ==
  ASSUME TypeOK, GuardInv, marks' \subseteq marks, UNCHANGED sent,
         \A t \in Tasks : Open(t)' => Open(t),
         \A m \in Messages : Open(TaskOf[m])' /\ Marker(m) => Marker(m)',
         \A m \in Messages : Open(TaskOf[m])' /\ Served(m) => Served(m)'
  PROVE  MarkedIsHandled' /\ WaitingHasMessage'
<1>1. MarkedIsHandled'
      BY PoolAssumption DEF GuardInv, MarkedIsHandled, Open, Marker, TypeOK
<1>2. WaitingHasMessage'
      BY DEF GuardInv, WaitingHasMessage, Open, Served, MessagesOf
<1>3. QED
      BY <1>1, <1>2

LEMMA ConsumeGuard == GuardInv /\ (\E w \in Workers : Consume(w)) => MarkedIsHandled' /\ WaitingHasMessage'
<1> SUFFICES ASSUME GuardInv, NEW w \in Workers, Consume(w)
             PROVE  MarkedIsHandled' /\ WaitingHasMessage'
    OBVIOUS
<1>0. TypeOK
      BY DEF GuardInv
<1> USE <1>0 DEF TypeOK, rows, api, history, Goto, OpenPc
<1>1. CASE Receive(w)
  <2>1. \A t \in Tasks : Open(t)' = Open(t)
        BY <1>1 DEF Receive, Open, Undisturbed
  <2>2. \A m \in Messages : Marker(m) => Marker(m)'
        BY <1>1 DEF Receive, Marker
  <2>3. \A m \in Messages : Served(m) => Served(m)'
        BY <1>1 DEF Receive, Served, Serves
  <2>4. QED
        BY <1>1, <2>1, <2>2, <2>3, GuardKept DEF Receive
<1>2. CASE Check(w)
  <2>1. \A t \in Tasks : Open(t)' = Open(t)
        BY <1>2 DEF Check, Open, Undisturbed
  <2>2. \A m \in Messages : Marker(m) => Marker(m)'
        BY <1>2 DEF Check, Marker
  <2>3. ASSUME NEW m \in Messages, Open(TaskOf[m]), Served(m)
        PROVE  Served(m)'
    <3>1. CASE msg[w] = m /\ m \in marks /\ pc' = [pc EXCEPT ![w] = "ack"]
      <4>1. PICK v \in Workers : msg[v] = m /\ pc[v] = "start"
            BY <2>3, <3>1 DEF GuardInv, MarkedIsHandled, Open
      <4>2. QED
            BY <1>2, <3>1, <4>1 DEF Check, Served, Serves
    <3>2. CASE ~ (msg[w] = m /\ m \in marks /\ pc' = [pc EXCEPT ![w] = "ack"])
          BY <1>2, <2>3, <3>2 DEF Check, Served, Serves
    <3>3. QED
          BY <3>1, <3>2
  <2>4. QED
        BY <1>2, <2>1, <2>2, <2>3, PoolAssumption, GuardKept DEF Check
<1>3. CASE Mark(w)
  <2>1. \A t \in Tasks : Open(t)' = Open(t)
        BY <1>3 DEF Mark, Open, Undisturbed
  <2>2. \A m \in Messages : (Marker(m) => Marker(m)') /\ (msg[w] = m => Marker(m)')
        BY <1>3 DEF Mark, Marker
  <2>3. \A m \in Messages : Served(m) => Served(m)'
        BY <1>3 DEF Mark, Served, Serves
  <2>4. MarkedIsHandled'
        BY <1>3, <2>1, <2>2, PoolAssumption DEF Mark, GuardInv, MarkedIsHandled, Open, Marker
  <2>5. WaitingHasMessage'
        BY <1>3, <2>1, <2>3 DEF Mark, GuardInv, WaitingHasMessage, Open, Served, MessagesOf
  <2>6. QED
        BY <2>4, <2>5
<1>4. CASE Start(w)
  <2>1. On(w) \in Tasks
        BY <1>4, HasMessage DEF Start
  <2>2. \A t \in Tasks : Open(t)' => Open(t) /\ t # On(w)
        BY <1>4, <2>1 DEF Start, Startable, Write, Hit, Open, Undisturbed, Waiting
  <2>3. \A m \in Messages : TaskOf[m] # On(w) => msg[w] # m
        BY DEF On
  <2>4. \A m \in Messages : TaskOf[m] # On(w) /\ Marker(m) => Marker(m)'
        BY <1>4, <2>3 DEF Start, Marker
  <2>5. \A m \in Messages : TaskOf[m] # On(w) /\ Served(m) => Served(m)'
        BY <1>4, <2>3 DEF Start, Served, Serves
  <2>6. QED
        BY <1>4, <2>2, <2>4, <2>5, PoolAssumption, GuardKept DEF Start
<1>5. CASE Ack(w)
  <2>1. \A t \in Tasks : Open(t)' = Open(t)
        BY <1>5 DEF Ack, Open, Undisturbed
  <2>2. \A m \in Messages : Marker(m) => Marker(m)'
        BY <1>5 DEF Ack, Marker
  <2>3. \A m \in Messages : Served(m) => Served(m)'
        BY <1>5 DEF Ack, Served, Serves
  <2>4. QED
        BY <1>5, <2>1, <2>2, <2>3, GuardKept DEF Ack
<1>6. QED
      BY <1>1, <1>2, <1>3, <1>4, <1>5 DEF Consume

LEMMA ProcessGuard == GuardInv /\ (\E w \in Workers : Process(w)) => MarkedIsHandled' /\ WaitingHasMessage'
<1> SUFFICES ASSUME GuardInv, NEW w \in Workers, Process(w)
             PROVE  MarkedIsHandled' /\ WaitingHasMessage'
    OBVIOUS
<1>0. TypeOK
      BY DEF GuardInv
<1>1. On(w) \in Tasks /\ pc[w] \in BusyPc
      BY <1>0, HasMessage DEF Process, CountActive, SaveInfo, FailTask, Succeed, Active, BusyPc
<1>2. \A t \in Tasks : Open(t)' => Open(t)
  <2>1. \A t \in Tasks : status'[t] \in Waiting => status'[t] = status[t]
        BY <1>0, <1>1 DEF Process, CountActive, SaveInfo, FailTask, Succeed, SavedFailed,
                          Write, Waiting, rows, TypeOK
  <2>2. \A t \in Tasks : Undisturbed(t)' => Undisturbed(t)
        BY <1>0, <1>1 DEF Process, CountActive, SaveInfo, FailTask, Succeed, Hit,
                          Undisturbed, history, TypeOK
  <2>3. QED
        BY <2>1, <2>2 DEF Open
<1>3. /\ UNCHANGED <<marks, sent, ready, msg, up>>
      /\ \A v \in Workers : pc[v] \in OpenPc => v # w /\ pc'[v] = pc[v]
      BY <1>0, <1>1 DEF Process, CountActive, SaveInfo, FailTask, Succeed, Goto, OpenPc, BusyPc,
                        rows, api, TypeOK
<1>4. \A m \in Messages : (Marker(m) => Marker(m)') /\ (Served(m) => Served(m)')
      BY <1>3 DEF Marker, Served, Serves, OpenPc
<1>5. QED
      BY <1>0, <1>2, <1>3, <1>4, GuardKept

LEMMA LifecycleGuard == GuardInv /\ (\E w \in Workers : Lifecycle(w)) => MarkedIsHandled' /\ WaitingHasMessage'
<1> SUFFICES ASSUME GuardInv, NEW w \in Workers, Lifecycle(w)
             PROVE  MarkedIsHandled' /\ WaitingHasMessage'
    OBVIOUS
<1>0. TypeOK
      BY DEF GuardInv
<1>1. pc[w] # "idle" => msg[w] \in Messages /\ On(w) \in Tasks
      BY <1>0, HasMessage
<1>2. UNCHANGED <<status, marks, sent>>
      BY DEF Lifecycle, LoseConnection, Reconnect, Crash, PreStop, Sigterm, Exit, rows, api
\* whatever w had not acked is in the queue again
<1>3. \A m \in Messages : ready[m] > 0 => GiveBack(w)[m] > 0
      BY <1>0, <1>1 DEF GiveBack, TypeOK
<1>4. pc[w] # "idle" /\ up[w] => GiveBack(w)[msg[w]] > 0
      BY <1>0, <1>1 DEF GiveBack, TypeOK
<1>5. CASE LoseConnection(w)
  <2>1. \A t \in Tasks : Open(t)' = Open(t)
        BY <1>2, <1>5 DEF LoseConnection, Open, Undisturbed, history
  <2>2. \A m \in Messages : Marker(m) => Marker(m)'
        BY <1>5 DEF LoseConnection, Marker
  <2>3. \A m \in Messages : Served(m) => Served(m)'
        BY <1>0, <1>3, <1>4, <1>5 DEF LoseConnection, Served, Serves, OpenPc, TypeOK
  <2>4. QED
        BY <1>0, <1>2, <2>1, <2>2, <2>3, GuardKept
<1>6. CASE Reconnect(w) \/ PreStop(w)
  <2>1. \A t \in Tasks : Open(t)' = Open(t)
        BY <1>2, <1>6 DEF Reconnect, PreStop, Open, Undisturbed, history
  <2>2. \A m \in Messages : (Marker(m) => Marker(m)') /\ (Served(m) => Served(m)')
        BY <1>0, <1>6 DEF Reconnect, PreStop, Marker, Served, Serves, TypeOK
  <2>3. QED
        BY <1>0, <1>2, <2>1, <2>2, GuardKept
<1>7. CASE Exit(w)
  <2>1. \A t \in Tasks : Open(t)' => Open(t) /\ (pc[w] = "start" => t # On(w))
        BY <1>0, <1>1, <1>2, <1>7 DEF Exit, Hit, Open, Undisturbed, history, TypeOK
  <2>2. \A m \in Messages : TaskOf[m] # On(w) => msg[w] # m
        BY DEF On
  <2>3. ASSUME NEW m \in Messages, pc[w] = "start" => TaskOf[m] # On(w)
        PROVE  (Marker(m) => Marker(m)') /\ (Served(m) => Served(m)')
    <3>1. Marker(m) => Marker(m)'
          BY <1>0, <1>7, <2>2, <2>3 DEF Exit, Marker, TypeOK
    <3>2. ready[m] > 0 => Served(m)'
          BY <1>3, <1>7 DEF Exit, Served
    <3>3. Serves(w, m) => Served(m)'
          BY <1>4, <1>7, <2>2, <2>3 DEF Exit, Served, Serves, OpenPc
    <3>4. ASSUME NEW v \in Workers, v # w, Serves(v, m)
          PROVE  Served(m)'
          BY <1>0, <1>7, <3>4 DEF Exit, Served, Serves, TypeOK
    <3>5. QED
          BY <3>1, <3>2, <3>3, <3>4 DEF Served
  <2>4. QED
        BY <1>0, <1>2, <2>1, <2>3, PoolAssumption, GuardKept
<1>8. QED
      BY <1>5, <1>6, <1>7 DEF Lifecycle, Crash, Sigterm

LEMMA EnvironmentGuard == GuardInv /\ Environment => MarkedIsHandled' /\ WaitingHasMessage'
<1> SUFFICES ASSUME GuardInv, Environment
             PROVE  MarkedIsHandled' /\ WaitingHasMessage'
    OBVIOUS
<1>0. TypeOK
      BY DEF GuardInv
<1>1. UNCHANGED <<pc, msg, up>> /\ marks' \subseteq marks
      BY DEF Environment, Arrive, Cleanup, CancelTask, Requeue, LetGo, ReadPending, rows
<1>2. \A m \in Messages : Marker(m) => Marker(m)'
      BY <1>1 DEF Marker
<1>3. ASSUME NEW a \in Messages, Arrive(a)
      PROVE  MarkedIsHandled' /\ WaitingHasMessage'
  <2>1. \A t \in Tasks : Open(t)' = Open(t)
        BY <1>3 DEF Arrive, Open, Undisturbed, rows, history
  <2>2. \A n \in Messages : n # a => sent'[n] = sent[n] /\ ready'[n] = ready[n]
        BY <1>0, <1>3 DEF Arrive, TypeOK
  <2>3. Served(a)'
        BY <1>0, <1>3 DEF Arrive, Served, TypeOK
  <2>4. \A n \in Messages : Served(n) => Served(n)'
        BY <1>1, <2>2, <2>3 DEF Served, Serves
  <2>5. MarkedIsHandled'
        BY <1>1, <1>2, <2>1, <1>0, PoolAssumption DEF GuardInv, MarkedIsHandled, Open, Marker, TypeOK
  <2>6. WaitingHasMessage'
        BY <2>1, <2>2, <2>3, <2>4 DEF GuardInv, WaitingHasMessage, Open, Served, MessagesOf
  <2>7. QED
        BY <2>5, <2>6
<1>4. CASE UNCHANGED <<sent, ready>>
  <2>1. \A m \in Messages : Served(m) => Served(m)'
        BY <1>1, <1>4 DEF Served, Serves
  <2>2. \A t \in Tasks : Open(t)' => Open(t)
    <3>1. CASE UNCHANGED <<status, history>>
          BY <3>1 DEF Open, Undisturbed, history
    <3>2. ASSUME NEW u \in Tasks, CancelTask(u)
          PROVE  \A t \in Tasks : Open(t)' => Open(t)
          BY <1>0, <3>2 DEF CancelTask, Write, Open, Undisturbed, Waiting, history, TypeOK
    <3>3. ASSUME NEW r \in Recoverers, Requeue(r)
          PROVE  \A t \in Tasks : Open(t)' => Open(t)
      <4>1. PICK u \in Tasks : u = seen[r]
            BY <1>0, <3>3 DEF Requeue, TypeOK
      <4>2. UNCHANGED hit /\ \A t \in Tasks \ {u} : status'[t] = status[t] /\ regress'[t] = regress[t]
            BY <1>0, <3>3, <4>1 DEF Requeue, Write, TypeOK
      <4>3. regress'[u] = IF status[u] \in Waiting THEN regress[u] ELSE regress[u] + 1
            BY <1>0, <3>3, <4>1 DEF Requeue, TypeOK
      <4>4. regress[u] \in Nat
            BY <1>0 DEF TypeOK
      <4>5. QED
            BY <4>2, <4>3, <4>4 DEF Open, Undisturbed
    <3>4. QED
          BY <3>1, <3>2, <3>3 DEF Environment, Arrive, Cleanup, LetGo, ReadPending, rows
  <2>3. QED
        BY <1>0, <1>1, <1>2, <1>4, <2>1, <2>2, GuardKept
<1>5. QED
      BY <1>3, <1>4 DEF Environment, Cleanup, CancelTask, Requeue, LetGo, ReadPending, api

LEMMA GuardInit == Init => GuardInv
<1> SUFFICES ASSUME Init
             PROVE  GuardInv
    OBVIOUS
<1>1. MarkedIsHandled
      BY DEF Init, MarkedIsHandled
<1>2. WaitingHasMessage
      BY DEF Init, WaitingHasMessage, MessagesOf
<1>3. QED
      BY <1>1, <1>2, TypeInit DEF GuardInv

LEMMA GuardStep == GuardInv /\ [Next]_vars => GuardInv'
<1> SUFFICES ASSUME GuardInv, [Next]_vars
             PROVE  GuardInv'
    OBVIOUS
<1>1. TypeOK'
      BY TypeStep DEF GuardInv
<1>2. CASE UNCHANGED vars
  <2>1. \A t \in Tasks : Open(t)' = Open(t)
        BY <1>2 DEF vars, Open, Undisturbed
  <2>2. \A m \in Messages : Marker(m)' = Marker(m) /\ Served(m)' = Served(m)
        BY <1>2 DEF vars, Marker, Served, Serves
  <2>3. QED
        BY <1>1, <1>2, <2>1, <2>2, GuardKept DEF vars, GuardInv
<1>3. CASE Next
      BY <1>1, <1>3, ConsumeGuard, ProcessGuard, LifecycleGuard, EnvironmentGuard DEF Next, GuardInv
<1>4. QED
      BY <1>2, <1>3

\* The two guards keep their bookkeeping together.
THEOREM GuardsAgree == Spec => []GuardInv
<1>1. QED
      BY GuardInit, GuardStep, PTL DEF Spec

\* Neither guard against duplicates loses a task: while one waits undisturbed,
\* a copy of a message of it is queued or with a worker that will decide on it.
THEOREM NoTaskForgotten == Spec => []WaitingHasMessage
<1>1. GuardInv => WaitingHasMessage
      BY DEF GuardInv
<1>2. QED
      BY <1>1, GuardsAgree, PTL

-----------------------------------------------------------------------------
(* No task is left processing *)

\* Steps of one worker that leave no task processing without it.
LEMMA WorkKept ==
  ASSUME TypeOK, ProcessingHasWorker, NEW w \in Workers,
         \A v \in Workers \ {w} : pc'[v] = pc[v] /\ msg'[v] = msg[v],
         \A t \in Tasks : hit[t] => hit'[t],
         \A t \in Tasks : status'[t] = "processing" => status[t] = "processing" \/ w \in BusyOn(t)',
         \A t \in Tasks : w \in BusyOn(t) =>
           w \in BusyOn(t)' \/ hit'[t] \/ status'[t] # "processing"
  PROVE  ProcessingHasWorker'
<1> SUFFICES ASSUME NEW t \in Tasks, status'[t] = "processing", ~ hit'[t], w \notin BusyOn(t)'
             PROVE  BusyOn(t)' # {}
    BY DEF ProcessingHasWorker
<1>1. status[t] = "processing" /\ ~ hit[t] /\ w \notin BusyOn(t)
      OBVIOUS
<1>2. PICK v \in Workers : v \in BusyOn(t)
      BY <1>1 DEF ProcessingHasWorker, BusyOn
<1>3. v # w
      BY <1>1, <1>2
<1>4. v \in BusyOn(t)'
      BY <1>2, <1>3 DEF BusyOn, On
<1>5. QED
      BY <1>4

LEMMA WorkStep == TypeOK /\ ProcessingHasWorker /\ [Next]_vars => ProcessingHasWorker'
<1> SUFFICES ASSUME TypeOK, ProcessingHasWorker, [Next]_vars
             PROVE  ProcessingHasWorker'
    OBVIOUS
<1> USE DEF TypeOK, rows, api, history
<1>1. ASSUME NEW w \in Workers, Receive(w) \/ Check(w) \/ Mark(w) \/ Ack(w)
      PROVE  ProcessingHasWorker'
  <2>1. UNCHANGED <<status, hit>> /\ pc[w] \notin BusyPc
        BY <1>1 DEF Receive, Check, Mark, Ack, BusyPc
  <2>2. \A v \in Workers \ {w} : pc'[v] = pc[v] /\ msg'[v] = msg[v]
        BY <1>1 DEF Receive, Check, Mark, Ack, Goto
  <2>3. QED
        BY <2>1, <2>2, WorkKept DEF BusyOn
<1>2. ASSUME NEW w \in Workers, Start(w)
      PROVE  ProcessingHasWorker'
  <2>1. On(w) \in Tasks /\ pc[w] \notin BusyPc
        BY <1>2, HasMessage DEF Start, BusyPc
  <2>2. \A v \in Workers \ {w} : pc'[v] = pc[v] /\ msg'[v] = msg[v]
        BY <1>2 DEF Start, Goto
  <2>3. \A t \in Tasks : hit[t] => hit'[t]
        BY <1>2, <2>1 DEF Start, Hit
  <2>4. ASSUME NEW t \in Tasks, status'[t] = "processing", status[t] # "processing"
        PROVE  w \in BusyOn(t)'
    <3>1. t = On(w) /\ pc'[w] = "count" /\ msg'[w] = msg[w]
          BY <1>2, <2>1, <2>4 DEF Start, Write, Goto
    <3>2. QED
          BY <3>1 DEF BusyOn, On, BusyPc
  <2>5. QED
        BY <2>1, <2>2, <2>3, <2>4, WorkKept DEF BusyOn
<1>3. ASSUME NEW w \in Workers, CountActive(w) \/ SaveInfo(w)
      PROVE  ProcessingHasWorker'
  <2>1. On(w) \in Tasks /\ pc[w] # "idle"
        BY <1>3, HasMessage DEF CountActive, SaveInfo
  <2>2. /\ \A v \in Workers \ {w} : pc'[v] = pc[v] /\ msg'[v] = msg[v]
        /\ pc'[w] \in BusyPc /\ msg'[w] = msg[w]
        BY <1>3 DEF CountActive, SaveInfo, Goto, BusyPc
  <2>3. w \in BusyOn(On(w))' /\ UNCHANGED On(w)
        BY <2>2 DEF BusyOn, On
  <2>4. UNCHANGED hit /\ \A t \in Tasks : t # On(w) => status'[t] = status[t]
        BY <1>3 DEF CountActive, SaveInfo, Write
  <2>5. \A t \in Tasks : w \in BusyOn(t) => t = On(w)
        BY DEF BusyOn
  <2>6. QED
        BY <2>2, <2>3, <2>4, <2>5, WorkKept
<1>4. ASSUME NEW w \in Workers, FailTask(w) \/ Succeed(w)
      PROVE  ProcessingHasWorker'
  <2>1. On(w) \in Tasks
        BY <1>4, HasMessage DEF FailTask, Succeed, Active
  <2>2. \A v \in Workers \ {w} : pc'[v] = pc[v] /\ msg'[v] = msg[v]
        BY <1>4 DEF FailTask, Succeed, Goto
  <2>3. hit'[On(w)] \/ status'[On(w)] # "processing"
        BY <1>4, <2>1 DEF FailTask, Succeed, SavedFailed, Write, Hit
  <2>4. \A t \in Tasks : t # On(w) => status'[t] = status[t] /\ hit'[t] = hit[t]
        BY <1>4, <2>1 DEF FailTask, Succeed, SavedFailed, Write, Hit
  <2>5. /\ hit[On(w)] => hit'[On(w)]
        /\ status'[On(w)] = status[On(w)] \/ status'[On(w)] # "processing"
        BY <1>4, <2>1 DEF FailTask, Succeed, SavedFailed, Write, Hit
  <2>6. \A t \in Tasks : w \in BusyOn(t) => t = On(w)
        BY DEF BusyOn
  <2>7. QED
        BY <2>2, <2>3, <2>4, <2>5, <2>6, WorkKept
<1>5. ASSUME NEW w \in Workers, LoseConnection(w) \/ Reconnect(w) \/ PreStop(w)
      PROVE  ProcessingHasWorker'
      BY <1>5 DEF LoseConnection, Reconnect, PreStop, ProcessingHasWorker, BusyOn, On
<1>6. ASSUME NEW w \in Workers, Exit(w)
      PROVE  ProcessingHasWorker'
  <2>1. pc[w] \in BusyPc => On(w) \in Tasks
        BY HasMessage DEF BusyPc
  <2>2. \A v \in Workers \ {w} : pc'[v] = pc[v] /\ msg'[v] = msg[v]
        BY <1>6 DEF Exit
  <2>3. UNCHANGED status /\ \A t \in Tasks : hit[t] => hit'[t]
        BY <1>6 DEF Exit, Hit
  <2>4. \A t \in Tasks : w \in BusyOn(t) => hit'[t]
        BY <1>6, <2>1 DEF Exit, Hit, BusyOn
  <2>5. QED
        BY <2>2, <2>3, <2>4, WorkKept
<1>7. CASE Environment \/ UNCHANGED vars
  <2>1. UNCHANGED <<pc, msg, hit>>
        BY <1>7 DEF Environment, Arrive, Cleanup, CancelTask, Requeue, LetGo, ReadPending, vars
  <2>2. \A t \in Tasks : status'[t] = "processing" => status[t] = "processing"
        BY <1>7 DEF Environment, Arrive, Cleanup, CancelTask, Requeue, LetGo, ReadPending, Write, vars
  <2>3. QED
        BY <2>1, <2>2 DEF ProcessingHasWorker, BusyOn, On
<1>8. QED
      BY <1>1, <1>2, <1>3, <1>4, <1>5, <1>6, <1>7
      DEF Next, Consume, Process, Lifecycle, Crash, Sigterm

LEMMA WorkInit == Init => ProcessingHasWorker
BY DEF Init, ProcessingHasWorker

\* What is processing is being processed, unless a fault ended the work: no order of
\* duplicates, requeues, cancellations and saves leaves a task without a worker.
THEOREM NoTaskStranded == Spec => []ProcessingHasWorker
<1>1. QED
      BY TypeInit, TypeStep, WorkInit, WorkStep, PTL DEF Spec

-----------------------------------------------------------------------------
(* Messages come from the API only: what is in the queue or with a worker  *)
(* was sent.                                                               *)
WasSent ==
  /\ \A m \in Messages : ready[m] > 0 => sent[m] > 0
  /\ \A w \in Workers : pc[w] # "idle" => sent[msg[w]] > 0

LEMMA SentInit == Init => WasSent
BY DEF Init, WasSent

LEMMA SentStep == TypeOK /\ WasSent /\ [Next]_vars => WasSent'
<1> SUFFICES ASSUME TypeOK, WasSent, [Next]_vars
             PROVE  WasSent'
    OBVIOUS
<1>1. ASSUME NEW w \in Workers, Consume(w)
      PROVE  WasSent'
  <2>1. CASE Receive(w)
    <3>1. PICK m \in Messages : /\ Available(m)
                                /\ ready' = [ready EXCEPT ![m] = @ - 1]
                                /\ msg' = [msg EXCEPT ![w] = m]
          BY <2>1 DEF Receive
    <3>2. UNCHANGED sent /\ pc' = [pc EXCEPT ![w] = "check"]
          BY <2>1 DEF Receive, api
    <3>3. sent[m] > 0
          BY <3>1 DEF WasSent, Available
    <3>4. QED
          BY <3>1, <3>2, <3>3 DEF WasSent, TypeOK
  <2>2. CASE Check(w) \/ Mark(w) \/ Start(w) \/ Ack(w)
    <3>1. UNCHANGED <<ready, sent>> /\ \A v \in Workers : pc'[v] # "idle" => pc[v] # "idle" /\ msg'[v] = msg[v]
          BY <2>2 DEF Check, Mark, Start, Ack, Goto, api, TypeOK
    <3>2. QED
          BY <3>1 DEF WasSent
  <2>3. QED
        BY <1>1, <2>1, <2>2 DEF Consume
<1>2. ASSUME NEW w \in Workers, Process(w)
      PROVE  WasSent'
  <2>1. UNCHANGED <<ready, sent>> /\ \A v \in Workers : pc'[v] # "idle" => pc[v] # "idle" /\ msg'[v] = msg[v]
        BY <1>2 DEF Process, CountActive, SaveInfo, FailTask, Succeed, Active, Goto, api, TypeOK
  <2>2. QED
        BY <2>1 DEF WasSent
<1>3. ASSUME NEW w \in Workers, Lifecycle(w)
      PROVE  WasSent'
  <2>1. UNCHANGED sent /\ \A v \in Workers : pc'[v] # "idle" => pc[v] # "idle" /\ msg'[v] = msg[v]
        BY <1>3 DEF Lifecycle, LoseConnection, Reconnect, Crash, PreStop, Sigterm, Exit, api, TypeOK
  <2>2. ready' = ready \/ ready' = GiveBack(w)
        BY <1>3 DEF Lifecycle, LoseConnection, Reconnect, Crash, PreStop, Sigterm, Exit
  <2>3. \A m \in Messages : GiveBack(w)[m] > 0 => sent[m] > 0
        BY HasMessage DEF GiveBack, WasSent, TypeOK
  <2>4. QED
        BY <2>1, <2>2, <2>3 DEF WasSent
<1>4. CASE Environment
  <2>1. ASSUME NEW a \in Messages, Arrive(a)
        PROVE  WasSent'
    <3>1. \A m \in Messages : sent[m] \in Nat /\ ready[m] \in Nat
          BY DEF TypeOK
    <3>2. ASSUME NEW m \in Messages
          PROVE  (ready'[m] > 0 => sent'[m] > 0) /\ (sent[m] > 0 => sent'[m] > 0)
      <4>1. CASE m = a
            BY <2>1, <3>1, <4>1 DEF Arrive, TypeOK
      <4>2. CASE m # a
            BY <2>1, <4>2 DEF Arrive, WasSent, TypeOK
      <4>3. QED
            BY <4>1, <4>2
    <3>3. \A w \in Workers : pc[w] # "idle" => msg[w] \in Messages
          BY HasMessage
    <3>4. QED
          BY <2>1, <3>2, <3>3 DEF Arrive, WasSent
  <2>2. CASE UNCHANGED <<sent, ready, pc, msg>>
        BY <2>2 DEF WasSent
  <2>3. QED
        BY <1>4, <2>1, <2>2 DEF Environment, Cleanup, CancelTask, Requeue, LetGo, ReadPending, api
<1>5. CASE UNCHANGED vars
      BY <1>5 DEF vars, WasSent
<1>6. QED
      BY <1>1, <1>2, <1>3, <1>4, <1>5 DEF Next

-----------------------------------------------------------------------------
(* Where the copies of a message are: in the queue, or in a worker's hand  *)

Holders(m) == {w \in Workers : msg[w] = m}

\* A worker that lost its connection goes on with a message the queue has again: there
\* is one more of it than was sent, and a fault more.
CopiesCounted == \A m \in Messages : ready[m] + Cardinality(Holders(m)) <= sent[m] + faults

LEMMA HoldersFinite == \A m : IsFiniteSet(Holders(m)) /\ Cardinality(Holders(m)) \in Nat
<1> SUFFICES ASSUME NEW m
             PROVE  IsFiniteSet(Holders(m)) /\ Cardinality(Holders(m)) \in Nat
    OBVIOUS
<1>1. IsFiniteSet(Holders(m))
      BY PoolAssumption, FS_Subset DEF Holders
<1>2. QED
      BY <1>1, FS_CardinalityType

\* One worker changes its message.
LEMMA HoldersStep ==
  ASSUME TypeOK, NEW w \in Workers, NEW x, msg' = [msg EXCEPT ![w] = x], NEW m
  PROVE  /\ x # m => Cardinality(Holders(m)') <= Cardinality(Holders(m))
         /\ x # m /\ msg[w] = m => Cardinality(Holders(m)') = Cardinality(Holders(m)) - 1
         /\ x = m /\ msg[w] # m => Cardinality(Holders(m)') = Cardinality(Holders(m)) + 1
         /\ Cardinality(Holders(m)') \in Nat
<1>1. msg'[w] = x /\ \A v \in Workers \ {w} : msg'[v] = msg[v]
      BY DEF TypeOK
<1>2. ASSUME x # m
      PROVE  Holders(m)' = Holders(m) \ {w}
      BY <1>1, <1>2 DEF Holders
<1>3. w \in Holders(m) <=> msg[w] = m
      BY DEF Holders
<1>4. ASSUME x # m
      PROVE  /\ Cardinality(Holders(m)') \in Nat
             /\ Cardinality(Holders(m)') <= Cardinality(Holders(m))
             /\ msg[w] = m => Cardinality(Holders(m)') = Cardinality(Holders(m)) - 1
  <2>1. /\ IsFiniteSet(Holders(m) \ {w})
        /\ Cardinality(Holders(m) \ {w}) =
             IF w \in Holders(m) THEN Cardinality(Holders(m)) - 1 ELSE Cardinality(Holders(m))
        BY HoldersFinite, FS_RemoveElement
  <2>2. Cardinality(Holders(m)) \in Nat /\ Cardinality(Holders(m)') \in Nat
        BY <1>2, <1>4, <2>1, HoldersFinite, FS_CardinalityType
  <2>3. QED
        BY <1>2, <1>3, <1>4, <2>1, <2>2
<1>5. ASSUME x = m
      PROVE  Holders(m)' = Holders(m) \cup {w}
      BY <1>1, <1>5 DEF Holders
<1>6. ASSUME x = m
      PROVE  /\ Cardinality(Holders(m)') \in Nat
             /\ msg[w] # m => Cardinality(Holders(m)') = Cardinality(Holders(m)) + 1
  <2>1. /\ IsFiniteSet(Holders(m) \cup {w})
        /\ Cardinality(Holders(m) \cup {w}) =
             IF w \in Holders(m) THEN Cardinality(Holders(m)) ELSE Cardinality(Holders(m)) + 1
        BY HoldersFinite, FS_AddElement
  <2>2. Cardinality(Holders(m)') \in Nat
        BY <1>5, <1>6, <2>1, FS_CardinalityType
  <2>3. QED
        BY <1>3, <1>5, <1>6, <2>1, <2>2
<1>7. QED
      BY <1>4, <1>6

\* The messages stay where they are.
LEMMA CopiesKept ==
  ASSUME TypeOK, TypeOK', CopiesCounted, UNCHANGED <<msg, ready, sent>>, faults' >= faults
  PROVE  CopiesCounted'
<1>1. \A m : Holders(m)' = Holders(m)
      BY DEF Holders
<1>2. QED
      BY <1>1, HoldersFinite DEF CopiesCounted, TypeOK

LEMMA ReceiveCounted ==
  ASSUME TypeOK, CopiesCounted, NEW w \in Workers, Receive(w)
  PROVE  CopiesCounted'
<1>1. PICK x \in Messages : /\ Available(x)
                            /\ ready' = [ready EXCEPT ![x] = @ - 1]
                            /\ msg' = [msg EXCEPT ![w] = x]
      BY DEF Receive
<1>2. msg[w] = None /\ UNCHANGED <<sent, faults>>
      BY DEF Receive, TypeOK, api
<1>3. ASSUME NEW m \in Messages
      PROVE  ready'[m] + Cardinality(Holders(m)') <= sent[m] + faults
  <2>1. ready[m] \in Nat /\ sent[m] \in Nat /\ faults \in Nat
        BY DEF TypeOK
  <2>2. ready[m] + Cardinality(Holders(m)) <= sent[m] + faults /\ Cardinality(Holders(m)) \in Nat
        BY HoldersFinite DEF CopiesCounted
  <2>3. CASE m = x
    <3>1. ready'[m] = ready[m] - 1
          BY <1>1, <2>3 DEF TypeOK
    <3>2. Cardinality(Holders(m)') = Cardinality(Holders(m)) + 1
          BY <1>1, <1>2, <2>3, PoolAssumption, HoldersStep
    <3>3. QED
          BY <2>1, <2>2, <3>1, <3>2
  <2>4. CASE m # x
    <3>1. ready'[m] = ready[m]
          BY <1>1, <2>4 DEF TypeOK
    <3>2. Cardinality(Holders(m)') <= Cardinality(Holders(m)) /\ Cardinality(Holders(m)') \in Nat
          BY <1>1, <2>4, HoldersStep
    <3>3. QED
          BY <2>1, <2>2, <3>1, <3>2
  <2>5. QED
        BY <2>3, <2>4
<1>4. QED
      BY <1>2, <1>3 DEF CopiesCounted

\* An ack, a process that is gone: the worker has no message any more.
LEMMA LeaveCounted ==
  ASSUME TypeOK, CopiesCounted, NEW w \in Workers, msg' = [msg EXCEPT ![w] = None],
         UNCHANGED sent, faults' \in Nat, faults' >= faults,
         ready' = ready \/ ready' = GiveBack(w)
  PROVE  CopiesCounted'
<1>1. ASSUME NEW m \in Messages
      PROVE  ready'[m] + Cardinality(Holders(m)') <= sent[m] + faults'
  <2>1. ready[m] \in Nat /\ sent[m] \in Nat /\ faults \in Nat /\ None # m
        BY PoolAssumption DEF TypeOK
  <2>2. ready[m] + Cardinality(Holders(m)) <= sent[m] + faults /\ Cardinality(Holders(m)) \in Nat
        BY HoldersFinite DEF CopiesCounted
  <2>3. /\ Cardinality(Holders(m)') <= Cardinality(Holders(m))
        /\ msg[w] = m => Cardinality(Holders(m)') = Cardinality(Holders(m)) - 1
        /\ Cardinality(Holders(m)') \in Nat
        BY <2>1, HoldersStep
  <2>4. ready'[m] = ready[m] \/ (msg[w] = m /\ ready'[m] = ready[m] + 1)
        BY DEF GiveBack, TypeOK
  <2>5. QED
        BY <2>1, <2>2, <2>3, <2>4
<1>2. QED
      BY <1>1 DEF CopiesCounted

LEMMA LoseCounted ==
  ASSUME TypeOK, CopiesCounted, NEW w \in Workers, LoseConnection(w)
  PROVE  CopiesCounted'
<1>1. \A m : Holders(m)' = Holders(m)
      BY DEF LoseConnection, Holders
<1>2. UNCHANGED sent /\ faults' = faults + 1 /\ ready' = GiveBack(w)
      BY DEF LoseConnection, Fault, api
<1>3. \A m \in Messages : ready'[m] <= ready[m] + 1 /\ ready'[m] \in Nat
      BY <1>2, GiveBackType DEF GiveBack, TypeOK
<1>4. QED
      BY <1>1, <1>2, <1>3, HoldersFinite DEF CopiesCounted, TypeOK

LEMMA ArriveCounted ==
  ASSUME TypeOK, CopiesCounted, NEW a \in Messages, Arrive(a)
  PROVE  CopiesCounted'
<1>1. \A m : Holders(m)' = Holders(m)
      BY DEF Arrive, Holders
<1>2. ASSUME NEW m \in Messages
      PROVE  \/ ready'[m] = ready[m] /\ sent'[m] = sent[m]
             \/ ready'[m] = ready[m] + 1 /\ sent'[m] = sent[m] + 1
  <2>1. CASE m = a
        BY <2>1 DEF Arrive, TypeOK
  <2>2. CASE m # a
        BY <2>2 DEF Arrive, TypeOK
  <2>3. QED
        BY <2>1, <2>2
<1>3. faults' = faults
      BY DEF Arrive
<1>4. QED
      BY <1>1, <1>2, <1>3, HoldersFinite DEF CopiesCounted, TypeOK

LEMMA CopiesInit == Init => CopiesCounted
<1> SUFFICES ASSUME Init, NEW m \in Messages
             PROVE  ready[m] + Cardinality(Holders(m)) <= sent[m] + faults
    BY DEF CopiesCounted
<1>1. Holders(m) = {}
      BY PoolAssumption DEF Init, Holders
<1>2. QED
      BY <1>1, FS_EmptySet DEF Init

LEMMA CopiesStep == TypeOK /\ CopiesCounted /\ [Next]_vars => CopiesCounted'
<1> SUFFICES ASSUME TypeOK, CopiesCounted, [Next]_vars
             PROVE  CopiesCounted'
    OBVIOUS
<1>1. TypeOK' /\ faults \in Nat
      BY TypeStep DEF TypeOK
<1>2. ASSUME NEW w \in Workers, Consume(w) \/ Process(w)
      PROVE  CopiesCounted'
  <2>1. CASE Receive(w)
        BY <2>1, ReceiveCounted
  <2>2. CASE Ack(w)
    <3>1. msg' = [msg EXCEPT ![w] = None] /\ UNCHANGED <<sent, ready, faults>>
          BY <2>2 DEF Ack, api
    <3>2. faults' \in Nat /\ faults' >= faults
          BY <1>1, <3>1
    <3>3. QED
          BY <3>1, <3>2, LeaveCounted
  <2>3. CASE Check(w) \/ Mark(w) \/ Start(w) \/ Process(w)
    <3>1. UNCHANGED <<msg, ready, sent>>
          BY <2>3 DEF Check, Mark, Start, Process, CountActive, SaveInfo, FailTask, Succeed, Goto, api
    <3>2. faults' >= faults
          BY <1>1, <2>3 DEF Check, Mark, Start, Process, CountActive, SaveInfo, FailTask, Succeed, Fault
    <3>3. QED
          BY <1>1, <3>1, <3>2, CopiesKept
  <2>4. QED
        BY <1>2, <2>1, <2>2, <2>3 DEF Consume
<1>3. ASSUME NEW w \in Workers, Lifecycle(w)
      PROVE  CopiesCounted'
  <2>1. CASE LoseConnection(w)
        BY <2>1, LoseCounted
  <2>2. CASE Crash(w) \/ Sigterm(w)
        BY <1>1, <2>2, LeaveCounted DEF Crash, Sigterm, Exit, Fault, api
  <2>3. CASE Reconnect(w) \/ PreStop(w)
        BY <1>1, <2>3, CopiesKept DEF Reconnect, PreStop, Fault, api
  <2>4. QED
        BY <1>3, <2>1, <2>2, <2>3 DEF Lifecycle
<1>4. CASE Environment \/ UNCHANGED vars
  <2>1. ASSUME NEW a \in Messages, Arrive(a)
        PROVE  CopiesCounted'
        BY <2>1, ArriveCounted
  <2>2. CASE UNCHANGED <<msg, ready, sent, faults>>
        BY <1>1, <2>2, CopiesKept
  <2>3. QED
        BY <1>4, <2>1, <2>2 DEF Environment, Cleanup, CancelTask, Requeue, LetGo, ReadPending, api, vars
<1>5. QED
      BY <1>2, <1>3, <1>4 DEF Next

\* A message is in the queue or in a worker's hand only as often as it was sent, and
\* once more for each fault.
THEOREM NoStrayCopy == Spec => []CopiesCounted
<1>1. QED
      BY TypeInit, TypeStep, CopiesInit, CopiesStep, PTL DEF Spec
=============================================================================
