----------------------------- MODULE CloudMedia -----------------------------
(***************************************************************************)
(* The API servers and the workers together: the outbox of Outbox and the  *)
(* consumers of WorkerPool over one video_tasks table and one queue.  Each *)
(* module has an environment of its own where the other one should be;     *)
(* here they meet.  What the broker accepts from a publisher is what the   *)
(* consumers find in the queue, and what a worker saves is what a recovery *)
(* loop reads.                                                             *)
(*                                                                         *)
(* Which event will carry which task is fixed beforehand (TaskOf).         *)
(***************************************************************************)
EXTENDS Naturals, FiniteSets

CONSTANTS
  Tasks, Events, TaskOf, Servers, Handlers, HostOf, Workers,
  BatchSize, MaxRetries, None,
  ApiFaults,    \* bound: faults on the API side
  PoolFaults    \* bound: faults of the workers

VARIABLES
  task, outbox, copies, adrift, returned,                              \* Outbox
  pc, cur, batch, todo, chan, faults,
  ready, marks, wpc, msg, up, stopping, hit, regress, pfaults          \* WorkerPool

apiVars == <<outbox, copies, adrift, returned, pc, cur, batch, todo, chan, faults>>
poolVars == <<marks, wpc, msg, up, stopping, hit, pfaults>>
vars == <<task, apiVars, poolVars, ready, regress>>

\* The pool knows no task that is not submitted, so its row may as well wait.
RowStatus == [t \in Tasks |-> IF task[t] = "absent" THEN "pending" ELSE task[t]]
\* The task a recovery transaction has read as pending: its pc is one of RecoverPc.
InHand ==
  [s \in Servers |-> IF pc[s] \in {"count", "requeue", "recreate"} THEN cur[s] ELSE None]

P == INSTANCE WorkerPool WITH
  Messages <- Events, Recoverers <- Servers,
  MaxCopies <- ApiFaults + 1, MaxFaults <- PoolFaults,
  status <- RowStatus, sent <- copies, seen <- InHand,
  pc <- wpc, faults <- pfaults

\* To the API servers a worker is at work on a task or not.
AtWork == [t \in Tasks |-> P!BusyOn(t) # {}]

O == INSTANCE Outbox WITH Seeded <- {}, MaxFaults <- ApiFaults, working <- AtWork

\* What both parts assume of the constants
ASSUME CompositionAssumption == O!ConstantsAssumption /\ P!PoolAssumption

Init ==
  /\ ready = [e \in Events |-> 0]
  /\ marks = {}
  /\ wpc = [w \in Workers |-> "idle"]
  /\ msg = [w \in Workers |-> None]
  /\ up = [w \in Workers |-> TRUE]
  /\ stopping = [w \in Workers |-> FALSE]
  /\ hit = [t \in Tasks |-> FALSE]
  /\ regress = [t \in Tasks |-> 0]
  /\ pfaults = 0
  /\ O!Init

-----------------------------------------------------------------------------
(* A step of an API server, or of the broker that stores a late message *)

\* What the queue accepts is there to be delivered.
HandOver == ready' = [e \in Events |-> ready[e] + copies'[e] - copies[e]]

\* A recovery loop has written 'queued' over a status that was no longer waiting.
TakenBack(t) == task'[t] = "queued" /\ task[t] \notin P!Waiting

CountRegress ==
  regress' = [t \in Tasks |-> IF TakenBack(t) THEN regress[t] + 1 ELSE regress[t]]

AsForeseen ==
  \A e \in Events : outbox'[e].status # "absent" => outbox'[e].task = TaskOf[e]

ApiSide(A) == UNCHANGED poolVars /\ A /\ AsForeseen /\ HandOver /\ CountRegress

ApiStep ==
  \/ \E h \in Handlers : ApiSide(O!HandlerStep(h))
  \/ \E s \in Servers : ApiSide(O!LoopStep(s) \/ O!Crash(s) \/ O!LoseConnection(s))
  \/ \E p \in O!Procs : ApiSide(O!PublishStep(p) \/ O!StatementFails(p) \/ O!Abort(p))
  \/ \E t \in Tasks : ApiSide(O!CancelTask(t))
  \/ \E e \in Events : ApiSide(O!StoreLate(e))

-----------------------------------------------------------------------------
(* A step of a worker, which may write a row *)

WriteRow ==
  \/ UNCHANGED task
  \/ \E t \in Tasks, s \in P!Status : s # RowStatus[t] /\ task' = [task EXCEPT ![t] = s]

PoolSide(A) == UNCHANGED apiVars /\ WriteRow /\ A

WorkerStep(w) == PoolSide(P!Consume(w) \/ P!Process(w) \/ P!Reconnect(w))

PoolStep ==
  \/ \E w \in Workers : WorkerStep(w) \/ PoolSide(P!Lifecycle(w))
  \/ \E e \in Events : PoolSide(P!Cleanup(e))

Next == ApiStep \/ PoolStep

Spec == Init /\ [][Next]_vars

\* The fairness of both modules
LiveSpec ==
  /\ Spec
  /\ \A p \in O!Procs :
       /\ SF_vars(ApiSide(O!BeginPublish(p)))
       /\ WF_vars(ApiSide(O!Ack(p)))
       /\ WF_vars(ApiSide(O!GiveUp(p)))
       /\ WF_vars(ApiSide(O!Commit(p)))
  /\ \A s \in Servers : WF_vars(ApiSide(O!LoopStep(s)))
  /\ \A h \in Handlers : WF_vars(ApiSide(O!Insert(h)))
  /\ \A w \in Workers : WF_vars(WorkerStep(w))

-----------------------------------------------------------------------------
(* Type invariant: that of both parts. *)
TypeOK == O!TypeOK /\ P!TypeOK

(* To the API servers the workers are what Outbox takes them for: they     *)
(* start only tasks that wait and whose message they were sent, and write  *)
(* to a row in no other way than that, unless they are at work on it.      *)
OutboxIsServed == O!Spec

(* To the workers the API servers are what WorkerPool takes them for:      *)
(* messages come only from a publish, a recovery loop writes 'queued' only *)
(* over a row that it has read as pending, and cancellations are the only  *)
(* other write.                                                            *)
PoolIsServed == P!Spec

(* From the commit of the submission to the final status a task is never   *)
(* out of everybody's hands: its event is pending in the outbox, its       *)
(* message is in the queue or with a worker that will start it, or a       *)
(* worker is at work on it.  The exceptions are a message that the broker  *)
(* returned, a fault of the handling and, before the start of the work, a  *)
(* task taken back to queued.                                              *)
TaskIsInHand ==
  \A t \in Tasks :
    /\ task[t] \in P!Waiting /\ P!Undisturbed(t) =>
         \E e \in P!MessagesOf(t) :
           \/ outbox[e].status = "pending" \/ e \in returned
           \/ ready[e] > 0 \/ \E w \in Workers : P!Serves(w, e)
    /\ task[t] = "processing" /\ ~ hit[t] => P!BusyOn(t) # {}

(* A message is in the queue or in a worker's hand once after its publish  *)
(* succeeded, and once more only for a fault on either side: no race of    *)
(* publishers, recovery loops and workers makes a second one.              *)
CopiesArePaid ==
  \A e \in Events :
    ready[e] + Cardinality({w \in Workers : msg[w] = e})
      <= faults + pfaults + (IF O!Sent(e) THEN 1 ELSE 0)

(* A submitted task is finished in the end, through outbox, queue and      *)
(* worker, unless the broker returned its message, a fault hit its         *)
(* handling, recovery took it back, or all API servers have lost their     *)
(* connection.                                                             *)
TaskIsFinished ==
  \A t \in Tasks : task[t] # "absent" ~>
    \/ task[t] \in P!Terminal \/ ~ P!Undisturbed(t)
    \/ P!MessagesOf(t) \cap returned # {}
    \/ \A s \in Servers : chan[s] = "down"
=============================================================================
