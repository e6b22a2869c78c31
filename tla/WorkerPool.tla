----------------------------- MODULE WorkerPool -----------------------------
(***************************************************************************)
(* The consumers: ConsumeTasks and handleMessage of rabbitmq_broker.go,    *)
(* ProcessTask of worker.go, TryMarkAsProcessed, TryTransitionToProcessing *)
(* and Update of the repositories, and the stop of a worker pod.           *)
(*                                                                         *)
(* A worker holds one unacked message (Qos 1).  Every database call is a   *)
(* step of its own, and so is the final ack or nack; both settle the       *)
(* message for good, for a nack does not requeue it and the queue has no   *)
(* dead letter exchange.  Download, transcoding and upload show in their   *)
(* outcome only.                                                           *)
(*                                                                         *)
(* The API side is the environment: Arrive (the queue accepts a copy from  *)
(* an outbox), CancelTask, and the recovery loops, whose check of the      *)
(* status and write of 'queued' are two steps without a lock (ReadPending, *)
(* then Requeue or LetGo).                                                 *)
(*                                                                         *)
(* The unique index of processed_messages is not a parameter: without it   *)
(* two concurrent markers both insert, with it the second gets an error    *)
(* whose text is not the one compared with; both then call the handler.    *)
(***************************************************************************)
EXTENDS Naturals, FiniteSets

CONSTANTS
  Tasks,
  Messages,    \* message ids: the ids of outbox events
  TaskOf,      \* TaskOf[m]: the task message m carries
  Workers,
  Recoverers,  \* recovery loops
  MaxCopies,   \* bound: copies of a message the outbox enqueues
  MaxFaults,   \* bound: crashes, pod stops, lost connections, failed database calls
  None

ASSUME PoolAssumption ==
  /\ TaskOf \in [Messages -> Tasks]
  /\ IsFiniteSet(Workers)
  /\ MaxCopies \in Nat
  /\ MaxFaults \in Nat
  /\ None \notin Tasks \cup Messages

VARIABLES
  status,    \* status[t]: video_tasks.status
  sent,      \* sent[m]: copies of m enqueued so far
  ready,     \* ready[m]: copies of m in the queue, delivered to no one
  marks,     \* message ids in processed_messages
  pc,        \* pc[w]: where worker w is
  msg,       \* msg[w]: the message it handles
  up,        \* up[w]: its AMQP connection is open
  stopping,  \* stopping[w]: its preStop hook has seen no active task
  seen,      \* seen[r]: the task recoverer r has read as pending
  hit,       \* history: a fault hit the handling of t after it was marked
  regress,   \* history: times recovery took t back to queued
  faults

vars == <<status, sent, ready, marks, pc, msg, up, stopping, seen, hit, regress, faults>>
rows == <<status, marks>>
history == <<hit, regress>>
api == <<sent, seen>>

Waiting == {"pending", "queued"}
Terminal == {"success", "failed", "cancelled"}
Status == Waiting \cup {"processing"} \cup Terminal

\* between the transition to processing and the last save
BusyPc == {"count", "work", "encode"}
\* the decision to process is still to come
OpenPc == {"check", "mark", "start"}

On(w) == TaskOf[msg[w]]
BusyOn(t) == {w \in Workers : pc[w] \in BusyPc /\ On(w) = t}
MessagesOf(t) == {m \in Messages : TaskOf[m] = t}

Init ==
  /\ status = [t \in Tasks |-> "pending"]
  /\ sent = [m \in Messages |-> 0]
  /\ ready = [m \in Messages |-> 0]
  /\ marks = {}
  /\ pc = [w \in Workers |-> "idle"]
  /\ msg = [w \in Workers |-> None]
  /\ up = [w \in Workers |-> TRUE]
  /\ stopping = [w \in Workers |-> FALSE]
  /\ seen = [r \in Recoverers |-> None]
  /\ hit = [t \in Tasks |-> FALSE]
  /\ regress = [t \in Tasks |-> 0]
  /\ faults = 0

Fault == faults < MaxFaults /\ faults' = faults + 1

\* w reaches a label with the message it has
Goto(w, label) == pc' = [pc EXCEPT ![w] = label] /\ UNCHANGED msg

Write(t, s) == status' = [status EXCEPT ![t] = s]

\* the work on t was cut short by a fault
Hit(t) == hit' = [hit EXCEPT ![t] = TRUE] /\ UNCHANGED regress

-----------------------------------------------------------------------------
(* handleMessage: delivery and the two guards against duplicates *)

AnyMessage(m) == TRUE
Available(m) == ready[m] > 0

Receive(w) ==
  /\ pc[w] = "idle"
  /\ up[w]
  /\ \E m \in Messages :
       /\ Available(m)
       /\ ready' = [ready EXCEPT ![m] = @ - 1]
       /\ msg' = [msg EXCEPT ![w] = m]
  /\ pc' = [pc EXCEPT ![w] = "check"]
  /\ UNCHANGED <<rows, api, up, stopping, history, faults>>

\* The count of TryMarkAsProcessed.  On an error the message is handled all the same.
Check(w) ==
  /\ pc[w] = "check"
  /\ \/ Goto(w, IF msg[w] \in marks THEN "ack" ELSE "mark") /\ UNCHANGED faults
     \/ Fault /\ Goto(w, "start")
  /\ UNCHANGED <<rows, ready, api, up, stopping, history>>

\* The insert and the commit, which no error keeps from the handler either.
Mark(w) ==
  /\ pc[w] = "mark"
  /\ \/ marks' = marks \cup {msg[w]} /\ UNCHANGED faults
     \/ Fault /\ UNCHANGED marks
  /\ Goto(w, "start")
  /\ UNCHANGED <<status, ready, api, up, stopping, history>>

StartUnchecked(t) == TRUE
\* SELECT FOR UPDATE and the check of the status: only these may start
Startable(t) == status[t] \in Waiting

\* TryTransitionToProcessing.  Every error, of the database too, makes
\* ProcessTask return nil, and the message is acked.
Start(w) ==
  /\ pc[w] = "start"
  /\ \/ /\ Startable(On(w))
        /\ Write(On(w), "processing")
        /\ Goto(w, "count")
        /\ UNCHANGED <<history, faults>>
     \/ /\ ~ Startable(On(w))
        /\ Goto(w, "ack")
        /\ UNCHANGED <<status, history, faults>>
     \/ /\ Fault
        /\ Hit(On(w))
        /\ Goto(w, "ack")
        /\ UNCHANGED status
  /\ UNCHANGED <<marks, ready, api, up, stopping>>

-----------------------------------------------------------------------------
(* ProcessTask *)

\* incrementActiveTask
CountActive(w) ==
  /\ pc[w] = "count"
  /\ Goto(w, "work")
  /\ UNCHANGED <<rows, ready, api, up, stopping, history, faults>>

Active(w) == pc[w] \in {"work", "encode"}

\* The source is here and valid: the row read at the start is saved whole,
\* status included.  A failure of the save is only logged.
SaveInfo(w) ==
  /\ pc[w] = "work"
  /\ Goto(w, "encode")
  /\ \/ Write(On(w), "processing") /\ UNCHANGED faults
     \/ Fault /\ UNCHANGED status
  /\ UNCHANGED <<marks, ready, api, up, stopping, history>>

ErrorUnsaved(t) == status
SavedFailed(t) == [status EXCEPT ![t] = "failed"]

\* handleTaskError, from any stage; then a nack.
FailTask(w) ==
  /\ Active(w)
  /\ Goto(w, "ack")
  /\ \/ status' = SavedFailed(On(w)) /\ UNCHANGED <<history, faults>>
     \/ Fault /\ Hit(On(w)) /\ UNCHANGED status
  /\ UNCHANGED <<marks, ready, api, up, stopping>>

\* The result is saved; if that fails the message is nacked all the same.
Succeed(w) ==
  /\ pc[w] = "encode"
  /\ Goto(w, "ack")
  /\ \/ Write(On(w), "success") /\ UNCHANGED <<history, faults>>
     \/ Fault /\ Hit(On(w)) /\ UNCHANGED status
  /\ UNCHANGED <<marks, ready, api, up, stopping>>

\* On a connection that is gone the ack fails, and that is only logged.
Ack(w) ==
  /\ pc[w] = "ack"
  /\ pc' = [pc EXCEPT ![w] = "idle"]
  /\ msg' = [msg EXCEPT ![w] = None]
  /\ UNCHANGED <<rows, ready, api, up, stopping, history, faults>>

-----------------------------------------------------------------------------
(* Connections, crashes, stops *)

AutoAcked(w) == ready
\* RabbitMQ takes back what w has not acked, unless it did when the connection broke
GiveBack(w) ==
  IF pc[w] # "idle" /\ up[w] THEN [ready EXCEPT ![msg[w]] = @ + 1] ELSE ready

LoseConnection(w) ==
  /\ up[w]
  /\ Fault
  /\ ready' = GiveBack(w)
  /\ up' = [up EXCEPT ![w] = FALSE]
  /\ UNCHANGED <<rows, api, pc, msg, stopping, history>>

\* Run: ConsumeTasks has returned, five seconds later Reconnect succeeds.
Reconnect(w) ==
  /\ pc[w] = "idle"
  /\ ~ up[w]
  /\ up' = [up EXCEPT ![w] = TRUE]
  /\ UNCHANGED <<rows, ready, api, pc, msg, stopping, history, faults>>

\* The process is gone and a new one takes its place.
Exit(w) ==
  /\ ready' = GiveBack(w)
  /\ pc' = [pc EXCEPT ![w] = "idle"]
  /\ msg' = [msg EXCEPT ![w] = None]
  /\ up' = [up EXCEPT ![w] = TRUE]
  /\ stopping' = [stopping EXCEPT ![w] = FALSE]
  /\ IF pc[w] \in BusyPc \cup {"start"} THEN Hit(On(w)) ELSE UNCHANGED history
  /\ UNCHANGED <<rows, api>>

Crash(w) == Fault /\ Exit(w)

\* prestop.sh polls /status until active_tasks is 0; the worker goes on consuming.
\* (When it gives up after an hour, or gets no answer, it lets go of active tasks:
\* that stop is a Crash.)
PreStop(w) ==
  /\ ~ stopping[w]
  /\ ~ Active(w)
  /\ Fault
  /\ stopping' = [stopping EXCEPT ![w] = TRUE]
  /\ UNCHANGED <<rows, ready, api, pc, msg, up, history>>

\* main cancels the context and returns, without waiting for Run.  What a handler
\* does before the process is gone fails: those are its steps with a Fault.
Sigterm(w) == stopping[w] /\ Exit(w) /\ UNCHANGED faults

-----------------------------------------------------------------------------
(* The environment *)

\* The outbox enqueues a copy of m.
Arrive(m) ==
  /\ sent[m] < MaxCopies
  /\ sent' = [sent EXCEPT ![m] = @ + 1]
  /\ ready' = [ready EXCEPT ![m] = @ + 1]
  /\ UNCHANGED <<rows, pc, msg, up, stopping, seen, history, faults>>

\* UpdateStatus asks nothing of the status it replaces.
CancelTask(t) ==
  /\ Write(t, "cancelled")
  /\ UNCHANGED <<marks, ready, api, pc, msg, up, stopping, history, faults>>

\* cleanupOldMessages.  Which marks are seven days old is left open.
Cleanup(m) ==
  /\ m \in marks
  /\ marks' = marks \ {m}
  /\ UNCHANGED <<status, ready, api, pc, msg, up, stopping, history, faults>>

ReadPending(r, t) ==
  /\ seen[r] = None
  /\ status[t] = "pending"
  /\ seen' = [seen EXCEPT ![r] = t]
  /\ UNCHANGED <<rows, sent, ready, pc, msg, up, stopping, history, faults>>

\* The transaction of r rolls back: a statement failed, or r is gone.
LetGo(r) ==
  /\ seen[r] # None
  /\ seen' = [seen EXCEPT ![r] = None]
  /\ UNCHANGED <<rows, sent, ready, pc, msg, up, stopping, history, faults>>

Requeue(r) ==
  /\ seen[r] # None
  /\ Write(seen[r], "queued")
  /\ seen' = [seen EXCEPT ![r] = None]
  /\ regress' = [regress EXCEPT ![seen[r]] = IF status[seen[r]] \in Waiting THEN @ ELSE @ + 1]
  /\ UNCHANGED <<marks, sent, ready, pc, msg, up, stopping, hit, faults>>

-----------------------------------------------------------------------------
Consume(w) == Receive(w) \/ Check(w) \/ Mark(w) \/ Start(w) \/ Ack(w)
Process(w) == CountActive(w) \/ SaveInfo(w) \/ FailTask(w) \/ Succeed(w)
Lifecycle(w) ==
  LoseConnection(w) \/ Reconnect(w) \/ Crash(w) \/ PreStop(w) \/ Sigterm(w)

Environment ==
  \/ \E m \in Messages : Arrive(m) \/ Cleanup(m)
  \/ \E t \in Tasks : CancelTask(t)
  \/ \E r \in Recoverers : Requeue(r) \/ LetGo(r) \/ \E t \in Tasks : ReadPending(r, t)

Next ==
  \/ \E w \in Workers : Consume(w) \/ Process(w) \/ Lifecycle(w)
  \/ Environment

Spec == Init /\ [][Next]_vars

\* A worker that can go on does: downloads, transcoding and uploads end, the
\* queue delivers, the retries of Reconnect succeed.
LiveSpec == Spec /\ \A w \in Workers : WF_vars(Consume(w) \/ Process(w) \/ Reconnect(w))

-----------------------------------------------------------------------------
TypeOK ==
  /\ status \in [Tasks -> Status]
  /\ sent \in [Messages -> Nat]
  /\ ready \in [Messages -> Nat]
  /\ marks \subseteq Messages
  /\ pc \in [Workers -> {"idle", "ack"} \cup OpenPc \cup BusyPc]
  /\ msg \in [Workers -> Messages \cup {None}]
  /\ \A w \in Workers : pc[w] = "idle" <=> msg[w] = None
  /\ up \in [Workers -> BOOLEAN]
  /\ stopping \in [Workers -> BOOLEAN]
  /\ seen \in [Recoverers -> Tasks \cup {None}]
  /\ hit \in [Tasks -> BOOLEAN]
  /\ regress \in [Tasks -> Nat]
  /\ faults \in Nat

(* However often a message is duplicated, redelivered or its mark lost, a  *)
(* second worker is at work on a task only after a recovery loop took the  *)
(* task back to queued: TryTransitionToProcessing lets one through.        *)
WorkersArePaid ==
  \A t \in Tasks :
    Cardinality(BusyOn(t)) <= regress[t] + (IF status[t] \in Waiting THEN 0 ELSE 1)

(* A task that waits has a message that will start it, once one was sent,  *)
(* unless a fault hit its handling or recovery took it back: neither guard *)
(* against duplicates drops the last message of a task nobody started.     *)
Undisturbed(t) == ~ hit[t] /\ regress[t] = 0

\* w will decide on m, or hand it back
Serves(w, m) == msg[w] = m /\ pc[w] \in OpenPc /\ (up[w] \/ pc[w] = "start")

WaitingHasMessage ==
  \A t \in Tasks :
    status[t] \in Waiting /\ Undisturbed(t) /\ (\E m \in MessagesOf(t) : sent[m] > 0)
      => \E m \in MessagesOf(t) : ready[m] > 0 \/ \E w \in Workers : Serves(w, m)

(* A task is processing only while a worker is at work on it, or after a   *)
(* fault cut that work short: whatever duplicates, requeues, cancellations *)
(* and saves of whole rows do to each other, none of them leaves it so.    *)
ProcessingHasWorker ==
  \A t \in Tasks : status[t] = "processing" /\ ~ hit[t] => BusyOn(t) # {}

(* Once no worker is on a task and no recovery loop has it in hand, a      *)
(* final status stays final, whatever duplicates are still to come.        *)
Quiet(t) ==
  /\ status[t] \in Terminal
  /\ BusyOn(t) = {}
  /\ \A r \in Recoverers : seen[r] # t

FinalIsFinal == [][\A t \in Tasks : Quiet(t) => status'[t] \in Terminal]_vars

(* A task whose message is in the queue is finished in the end, unless a   *)
(* fault hit its handling or recovery took it back.                        *)
TaskSettles ==
  \A t \in Tasks :
    (\E m \in MessagesOf(t) : sent[m] > 0) ~> (status[t] \in Terminal \/ ~ Undisturbed(t))

(* Inductive with WaitingHasMessage: a message is marked before its task   *)
(* starts, and whoever marked it still has to start it.                    *)
MarkedIsHandled ==
  \A m \in marks :
    status[TaskOf[m]] \in Waiting /\ Undisturbed(TaskOf[m])
      => \E w \in Workers : msg[w] = m /\ pc[w] = "start"

GuardInv == TypeOK /\ MarkedIsHandled /\ WaitingHasMessage

-----------------------------------------------------------------------------
(* What comments, scripts and the README say, and the code does not do. *)

(* worker.go:76: SELECT FOR UPDATE and a transaction guarantee that only   *)
(* one worker can process a task.                                          *)
OneWorkerPerTask == \A t \in Tasks : Cardinality(BusyOn(t)) <= 1

(* README.md:41: stuck tasks are recovered automatically.                  *)
StuckTaskRecovers == \A t \in Tasks : status[t] = "processing" ~> status[t] \in Terminal
=============================================================================
