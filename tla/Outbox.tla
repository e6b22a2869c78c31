------------------------------- MODULE Outbox -------------------------------
(***************************************************************************)
(* internal/usecase/outbox_service.go: the transactional outbox.           *)
(*                                                                         *)
(* Every replica of the API server runs request handlers, which insert a   *)
(* task and its outbox event in one transaction and publish the event at   *)
(* once, and one recovery loop, which publishes what is still pending and  *)
(* then requeues pending tasks.  All of them share the video_tasks and     *)
(* outbox_events tables and publish with publisher confirms.               *)
(*                                                                         *)
(* A publishing transaction is three steps: it takes the row lock, checks  *)
(* the row and publishes (BeginPublish); the broker answers (Ack, Returned)*)
(* or the publisher stops waiting (Fail, StatementFails, Abort, Crash,     *)
(* LoseConnection, GiveUp); it commits (Commit).  A message whose          *)
(* publisher has stopped waiting is adrift: the broker may store it at any *)
(* time (StoreLate), or never.  What a transaction writes before its       *)
(* commit no other one sees, so uncommitted writes are not state: a        *)
(* rollback is a step that leaves outbox alone.  The tables change only    *)
(* where a transaction commits.                                            *)
(*                                                                         *)
(* The workers and CancelTask, which move the same video_tasks rows, are   *)
(* the environment: StartTask, SaveTask, StopTask, CancelTask.             *)
(***************************************************************************)
EXTENDS Naturals, FiniteSets

CONSTANTS
  Tasks,       \* task ids clients submit
  Seeded,      \* tasks whose row was written without an event (VideoTaskRepository.Create)
  Events,      \* ids of outbox_events rows, ascending with created_at
  Servers,     \* API replicas; a server's name is also its recovery loop's
  Handlers,    \* request goroutines
  HostOf,      \* HostOf[h]: the replica that runs handler h
  BatchSize,   \* OutboxConfig.BatchSize
  MaxRetries,  \* OutboxConfig.MaxRetries
  MaxFaults,   \* bound: crashes, lost connections, nacks and returns, timeouts,
               \* requests that end, statements that fail
  None

ASSUME ConstantsAssumption ==
  /\ Seeded \subseteq Tasks
  /\ Events \subseteq Nat
  /\ Servers \cap Handlers = {}
  /\ HostOf \in [Handlers -> Servers]
  /\ BatchSize \in Nat \ {0}
  /\ MaxRetries \in Nat \ {0}
  /\ MaxFaults \in Nat
  /\ Tasks \cap Events = {}
  /\ None \notin Tasks \cup Events

VARIABLES
  task,     \* task[t]: video_tasks.status of t, "absent" before the insert
  outbox,   \* outbox[e]: the outbox_events row
  copies,   \* copies[e]: messages of e the durable queue has accepted
  adrift,   \* adrift[e]: messages of e no one waits for, which the broker may still store
  returned, \* events of which a message was returned as unroutable, and then acked
  pc,       \* pc[p]: where process p is
  cur,      \* cur[p]: the event p publishes, or the task it submits or requeues
  batch,    \* batch[s]: events loop s read as pending and has not tried yet
  todo,     \* todo[s]: tasks loop s read as pending or queued, not yet inspected
  chan,     \* chan[s]: "up", or "down" after the AMQP connection is lost
  working,  \* working[t]: a worker is at work on t
  faults    \* faults so far

vars == <<task, outbox, copies, adrift, returned, pc, cur, batch, todo, chan, working, faults>>
messages == <<copies, adrift, returned>>
loops == <<batch, todo>>

Procs == Servers \cup Handlers
Host(p) == IF p \in Servers THEN p ELSE HostOf[p]

TaskStatus == {"pending", "queued", "processing", "success", "failed", "cancelled"}
EventStatus == {"pending", "published", "failed"}
EventRow == [status : EventStatus \cup {"absent"}, task : Tasks \cup {None}, retry : Nat]
NoRow == [status |-> "absent", task |-> None, retry |-> 0]

HoldingPc == {"confirm", "orphaned", "commit"}
PublishPc == {"lock"} \cup HoldingPc
RecoverPc == {"count", "requeue", "recreate"}

-----------------------------------------------------------------------------
(* Queries on the tables *)

Exists(e) == outbox[e].status # "absent"

\* uuid.New() with created_at = now: a row not yet there, younger than all rows.
IsNewEvent(e) == \A d \in Events : Exists(d) <=> d < e

\* created by PublishVideoTaskTransactional and by recoverPendingTasks
NewRow(t) == [status |-> "pending", task |-> t, retry |-> 0]

\* GetPendingEvents: WHERE status = 'pending' AND retry_count < max_retries
\* ORDER BY created_at LIMIT n
Eligible == {e \in Events : outbox[e].status = "pending" /\ outbox[e].retry < MaxRetries}
Oldest(S, n) == {e \in S : Cardinality({d \in S : d < e}) < n}

EventsOf(t) == {e \in Events : outbox[e].task = t}

EventAssumed(t) == TRUE
\* the COUNT of step 2 of recoverPendingTasks is not zero
CountsEvent(t) == EventsOf(t) # {}

TaskIdUnchecked(t) == TRUE
\* video_tasks.task_id is a unique index: a second insert fails
TaskIdFree(t) == task[t] = "absent"

Holds(p, e) == pc[p] \in HoldingPc /\ cur[p] = e

RowUnlocked(e) == TRUE
\* SELECT ... FOR UPDATE returns only when no other transaction has the row
RowFree(e) == \A q \in Procs : ~ Holds(q, e)

StillPendingUnchecked(e) == TRUE
\* the check of the status read under the lock
StillPending(e) == outbox[e].status = "pending"

-----------------------------------------------------------------------------
(* Steps shared by all processes *)

Init ==
  /\ task = [t \in Tasks |-> IF t \in Seeded THEN "pending" ELSE "absent"]
  /\ outbox = [e \in Events |-> NoRow]
  /\ copies = [e \in Events |-> 0]
  /\ adrift = [e \in Events |-> 0]
  /\ returned = {}
  /\ pc = [p \in Procs |-> "idle"]
  /\ cur = [p \in Procs |-> None]
  /\ batch = [s \in Servers |-> {}]
  /\ todo = [s \in Servers |-> {}]
  /\ chan = [s \in Servers |-> "up"]
  /\ working = [t \in Tasks |-> FALSE]
  /\ faults = 0

Fault == faults < MaxFaults /\ faults' = faults + 1

Goto(p, label, x) ==
  /\ pc' = [pc EXCEPT ![p] = label]
  /\ cur' = [cur EXCEPT ![p] = x]

ReturnToBatch(p) == "batch"
\* publishSingleEvent returns to the loop over the batch, or to the handler,
\* which only logs the error
Return(p) == IF p \in Servers THEN "batch" ELSE "idle"

Finish(p) == Goto(p, Return(p), None)

\* events whose message was handed to the channel, and whose publisher waits
InFlight(P) == {cur[p] : p \in {q \in P : pc[q] = "confirm"}}

\* The publishers in P stop waiting.  Their entries in pendingConfirms go, the
\* frames stay with the broker.
Strand(P) ==
  adrift' = [e \in Events |-> IF e \in InFlight(P) THEN adrift[e] + 1 ELSE adrift[e]]

-----------------------------------------------------------------------------
(* The request handler: SubmitTranscodeTask, PublishVideoTaskTransactional *)

\* GetByTaskID found nothing, or failed: its error is dropped.
Submit(h, t) ==
  /\ pc[h] = "idle"
  /\ \/ task[t] = "absent" /\ UNCHANGED faults
     \/ task[t] # "absent" /\ Fault
  /\ Goto(h, "insert", t)
  /\ UNCHANGED <<task, outbox, messages, loops, chan, working>>

\* One transaction inserts both rows; the unique index rejects a second one.
Insert(h) ==
  /\ pc[h] = "insert"
  /\ \/ /\ ~ TaskIdFree(cur[h])
        /\ Goto(h, "idle", None)
        /\ UNCHANGED <<task, outbox>>
     \/ /\ TaskIdFree(cur[h])
        /\ \E e \in Events :
             /\ IsNewEvent(e)
             /\ task' = [task EXCEPT ![cur[h]] = "pending"]
             /\ outbox' = [outbox EXCEPT ![e] = NewRow(cur[h])]
             /\ Goto(h, "lock", e)
  /\ UNCHANGED <<messages, loops, chan, working, faults>>

-----------------------------------------------------------------------------
(* publishSingleEvent, by a handler or a loop *)

CommitPublishedUnsent(p) == "commit"
\* PublishWithConfirm waits for the broker's answer
AfterPublish(p) == "confirm"

\* Steps 1 to 4 up to the wait.  The row stays locked, so nothing can change
\* between them.  On a closed channel Publish fails and the transaction rolls
\* back: retry_count + 1 and 'failed' were written in it and go with it.
BeginPublish(p) ==
  /\ pc[p] = "lock"
  /\ RowFree(cur[p])
  /\ \/ /\ StillPending(cur[p])
        /\ chan[Host(p)] = "up"
        /\ Goto(p, AfterPublish(p), cur[p])
     \/ /\ ~ StillPending(cur[p]) \/ chan[Host(p)] = "down"
        /\ Finish(p)
  /\ UNCHANGED <<task, outbox, messages, loops, chan, working, faults>>

\* The broker stored the message and confirmed it.
Ack(p) ==
  /\ pc[p] = "confirm"
  /\ copies' = [copies EXCEPT ![cur[p]] = @ + 1]
  /\ Goto(p, "commit", cur[p])
  /\ UNCHANGED <<task, outbox, adrift, returned, loops, chan, working, faults>>

\* There is no such queue: the mandatory message is returned, which is only
\* logged, and then confirmed like any other.
Returned(p) ==
  /\ pc[p] = "confirm"
  /\ Fault
  /\ returned' = returned \cup {cur[p]}
  /\ Goto(p, "commit", cur[p])
  /\ UNCHANGED <<task, outbox, copies, adrift, loops, chan, working>>

\* A nack, or a handler's confirm timeout (a loop's tick ends before it: Abort).
\* The transaction returns the error, which rolls it back.  A nack does not say
\* that the message is not stored either.
Fail(p) ==
  /\ pc[p] = "confirm"
  /\ Fault
  /\ Strand({p})
  /\ Finish(p)
  /\ UNCHANGED <<task, outbox, copies, returned, loops, chan, working>>

\* p's request or tick ends at once: with its context every later statement fails.
Quit(p) ==
  /\ Goto(p, "idle", None)
  /\ batch' = [s \in Servers |-> IF s = p THEN {} ELSE batch[s]]
  /\ todo' = [s \in Servers |-> IF s = p THEN {} ELSE todo[s]]

\* The confirmation handler is gone with the connection.  What is left is the
\* confirm timeout (60 s), for a loop the end of its tick's context (20 s).
GiveUp(p) ==
  /\ pc[p] = "orphaned"
  /\ Quit(p)
  /\ UNCHANGED <<task, outbox, messages, chan, working, faults>>

LeftProcessing(e) == [outbox EXCEPT ![e].status = "processing"]
\* step 5: status = 'published'
Published(e) == [outbox EXCEPT ![e].status = "published"]

Commit(p) ==
  /\ pc[p] = "commit"
  /\ outbox' = Published(cur[p])
  /\ Finish(p)
  /\ UNCHANGED <<task, messages, loops, chan, working, faults>>

\* The broker stores a message whose publisher has left, and maybe another one
\* has published and closed the event since.
StoreLate(e) ==
  /\ adrift[e] > 0
  /\ copies' = [copies EXCEPT ![e] = @ + 1]
  /\ adrift' = [adrift EXCEPT ![e] = @ - 1]
  /\ UNCHANGED <<task, outbox, returned, pc, cur, loops, chan, working, faults>>

-----------------------------------------------------------------------------
(* recoveryLoop *)

\* A tick: GetPendingEvents.  What it returns is only a snapshot.
Tick(s) ==
  /\ pc[s] = "idle"
  /\ batch' = [batch EXCEPT ![s] = Oldest(Eligible, BatchSize)]
  /\ Goto(s, "batch", None)
  /\ UNCHANGED <<task, outbox, messages, todo, chan, working, faults>>

NextEvent(s) ==
  /\ pc[s] = "batch"
  /\ \E e \in Oldest(batch[s], 1) :
       /\ batch' = [batch EXCEPT ![s] = @ \ {e}]
       /\ Goto(s, "lock", e)
  /\ UNCHANGED <<task, outbox, messages, todo, chan, working, faults>>

StatusUnchecked(t) == TRUE
\* recoverPendingTasks, step 1: if currentTask.Status != "pending" return
StillWaits(t) == task[t] = "pending"

\* recoverPendingTasks: ListPendingTasks, WHERE created_at > now - maxAge.
\* Which rows are young enough is left open.
ListTasks(s) ==
  /\ pc[s] = "batch"
  /\ batch[s] = {}
  /\ \E young \in SUBSET Tasks :
       todo' = [todo EXCEPT ![s] = {t \in young : task[t] \in {"pending", "queued"}}]
  /\ Goto(s, "tasks", None)
  /\ UNCHANGED <<task, outbox, messages, batch, chan, working, faults>>

\* A transaction per task.  Its first read takes no lock.
Inspect(s, t) ==
  /\ pc[s] = "tasks"
  /\ t \in todo[s]
  /\ todo' = [todo EXCEPT ![s] = @ \ {t}]
  /\ IF StillWaits(t) THEN Goto(s, "count", t) ELSE Goto(s, "tasks", None)
  /\ UNCHANGED <<task, outbox, messages, batch, chan, working, faults>>

Count(s) ==
  /\ pc[s] = "count"
  /\ Goto(s, IF CountsEvent(cur[s]) THEN "requeue" ELSE "recreate", cur[s])
  /\ UNCHANGED <<task, outbox, messages, loops, chan, working, faults>>

\* UPDATE ... SET status = 'queued' WHERE id = ?, whatever the status is by now
Requeue(s) ==
  /\ pc[s] = "requeue"
  /\ task' = [task EXCEPT ![cur[s]] = "queued"]
  /\ Goto(s, "tasks", None)
  /\ UNCHANGED <<outbox, messages, loops, chan, working, faults>>

Recreate(s) ==
  /\ pc[s] = "recreate"
  /\ \E e \in Events :
       /\ IsNewEvent(e)
       /\ outbox' = [outbox EXCEPT ![e] = NewRow(cur[s])]
  /\ task' = [task EXCEPT ![cur[s]] = "queued"]
  /\ Goto(s, "tasks", None)
  /\ UNCHANGED <<messages, loops, chan, working, faults>>

EndTick(s) ==
  /\ pc[s] = "tasks"
  /\ todo[s] = {}
  /\ Goto(s, "idle", None)
  /\ UNCHANGED <<task, outbox, messages, loops, chan, working, faults>>

-----------------------------------------------------------------------------
(* Faults *)

\* One statement of p fails, or its commit, or the database ends its session: the
\* transaction rolls back, its row lock goes, and p goes on with what comes next.
\* (If the list of tasks fails, nothing is left of the tick: Abort.)
StatementFails(p) ==
  /\ Fault
  /\ Strand({p})
  /\ \/ /\ pc[p] \in {"lock", "confirm", "commit"}
        /\ Finish(p)
        /\ UNCHANGED loops
     \/ /\ pc[p] \in RecoverPc
        /\ Goto(p, "tasks", None)
        /\ UNCHANGED loops
     \/ /\ p \in Servers /\ pc[p] = "idle"
        /\ Goto(p, "batch", None)
        /\ UNCHANGED loops
     \/ /\ pc[p] = "tasks"
        /\ \E t \in todo[p] : todo' = [todo EXCEPT ![p] = @ \ {t}]
        /\ UNCHANGED <<pc, cur, batch>>
  /\ UNCHANGED <<task, outbox, copies, returned, chan, working>>

\* The context of p ends: the client left, the 20 s of a tick are over.
Abort(p) ==
  /\ pc[p] # "idle"
  /\ Fault
  /\ Strand({p})
  /\ Quit(p)
  /\ UNCHANGED <<task, outbox, copies, returned, chan, working>>

Hosted(s) == {p \in Procs : Host(p) = s}

\* SIGTERM or a crash, and the restart.  Nothing waits for the loop: main
\* cancels a context the outbox service does not use.
Crash(s) ==
  /\ Fault
  /\ Strand(Hosted(s))
  /\ pc' = [p \in Procs |-> IF p \in Hosted(s) THEN "idle" ELSE pc[p]]
  /\ cur' = [p \in Procs |-> IF p \in Hosted(s) THEN None ELSE cur[p]]
  /\ batch' = [batch EXCEPT ![s] = {}]
  /\ todo' = [todo EXCEPT ![s] = {}]
  /\ chan' = [chan EXCEPT ![s] = "up"]
  /\ UNCHANGED <<task, outbox, copies, returned, working>>

\* The connection to RabbitMQ breaks: handleConfirmations returns, those who
\* wait stay until their timeout, and the API server never calls Reconnect.
LoseConnection(s) ==
  /\ chan[s] = "up"
  /\ Fault
  /\ chan' = [chan EXCEPT ![s] = "down"]
  /\ Strand(Hosted(s))
  /\ pc' = [p \in Procs |->
              IF p \in Hosted(s) /\ pc[p] = "confirm" THEN "orphaned" ELSE pc[p]]
  /\ UNCHANGED <<task, outbox, copies, returned, cur, loops, working>>

-----------------------------------------------------------------------------
(* The environment: workers and CancelTask on the same rows *)

HasMessage(t) == \E e \in EventsOf(t) : copies[e] > 0

\* A worker starts a task that waits and whose message it was sent.
StartTask(t) ==
  /\ task[t] \in {"pending", "queued"}
  /\ HasMessage(t)
  /\ task' = [task EXCEPT ![t] = "processing"]
  /\ working' = [working EXCEPT ![t] = TRUE]
  /\ UNCHANGED <<outbox, messages, pc, cur, loops, chan, faults>>

\* A worker at work on t saves the whole row it read, whatever the status is by
\* now.  It may be done with that, or another one be at work still.
SaveTask(t) ==
  /\ working[t]
  /\ \E status \in {"processing", "success", "failed"} : task' = [task EXCEPT ![t] = status]
  /\ \E others \in BOOLEAN : working' = [working EXCEPT ![t] = others]
  /\ UNCHANGED <<outbox, messages, pc, cur, loops, chan, faults>>

\* The work on t is cut short, or its last save fails.
StopTask(t) ==
  /\ working[t]
  /\ working' = [working EXCEPT ![t] = FALSE]
  /\ UNCHANGED <<task, outbox, messages, pc, cur, loops, chan, faults>>

CancelTask(t) ==
  /\ task[t] # "absent"
  /\ task' = [task EXCEPT ![t] = "cancelled"]
  /\ UNCHANGED <<outbox, messages, pc, cur, loops, chan, working, faults>>

-----------------------------------------------------------------------------
HandlerStep(h) == Insert(h) \/ \E t \in Tasks : Submit(h, t)

PublishStep(p) ==
  BeginPublish(p) \/ Ack(p) \/ Returned(p) \/ Fail(p) \/ GiveUp(p) \/ Commit(p)

LoopStep(s) ==
  \/ Tick(s) \/ NextEvent(s) \/ ListTasks(s)
  \/ \E t \in Tasks : Inspect(s, t)
  \/ Count(s) \/ Requeue(s) \/ Recreate(s) \/ EndTick(s)

Environment ==
  \/ \E t \in Tasks : StartTask(t) \/ SaveTask(t) \/ StopTask(t) \/ CancelTask(t)
  \/ \E e \in Events : StoreLate(e)

Next ==
  \/ \E h \in Handlers : HandlerStep(h)
  \/ \E s \in Servers : LoopStep(s) \/ Crash(s) \/ LoseConnection(s)
  \/ \E p \in Procs : PublishStep(p) \/ StatementFails(p) \/ Abort(p)
  \/ Environment

Spec == Init /\ [][Next]_vars

(***************************************************************************)
(* Fairness.  A goroutine that can run does run; the ticker keeps firing.  *)
(* Postgres grants a row lock first come, first served, so BeginPublish is *)
(* strongly fair.  The broker answers whoever goes on waiting; faults are  *)
(* finitely many, so from some point on the answer is an ack.  Nothing is  *)
(* assumed of clients, workers, faults and messages adrift.                *)
(***************************************************************************)
LiveSpec ==
  /\ Spec
  /\ \A p \in Procs :
       /\ SF_vars(BeginPublish(p))
       /\ WF_vars(Ack(p))
       /\ WF_vars(GiveUp(p))
       /\ WF_vars(Commit(p))
  /\ \A s \in Servers : WF_vars(LoopStep(s))
  /\ \A h \in Handlers : WF_vars(Insert(h))

-----------------------------------------------------------------------------
(* Type invariant: also which process can be where, and with what in hand. *)
TypeOK ==
  /\ task \in [Tasks -> TaskStatus \cup {"absent"}]
  /\ outbox \in [Events -> EventRow]
  /\ copies \in [Events -> Nat]
  /\ adrift \in [Events -> Nat]
  /\ returned \subseteq Events
  /\ pc \in [Procs -> {"idle", "insert", "batch", "tasks"} \cup PublishPc \cup RecoverPc]
  /\ cur \in [Procs -> Tasks \cup Events \cup {None}]
  /\ batch \in [Servers -> SUBSET Events]
  /\ todo \in [Servers -> SUBSET Tasks]
  /\ chan \in [Servers -> {"up", "down"}]
  /\ working \in [Tasks -> BOOLEAN]
  /\ faults \in Nat
  /\ \A h \in Handlers : pc[h] \in {"idle", "insert"} \cup PublishPc
  /\ \A s \in Servers : pc[s] # "insert"
  /\ \A p \in Procs :
       /\ pc[p] \in PublishPc => cur[p] \in Events
       /\ pc[p] \in {"insert"} \cup RecoverPc => cur[p] \in Tasks

(* PublishVideoTaskTransactional is atomic and the task id unique: a       *)
(* submitted task has exactly one outbox event, a task never inserted has  *)
(* none, however requests for one id race, abort and crash.                *)
OneEventPerTask ==
  \A t \in Tasks \ Seeded :
    /\ task[t] # "absent" <=> EventsOf(t) # {}
    /\ \A d, e \in EventsOf(t) : d = e

(* recoverPendingTasks marks a task queued only when an event that will    *)
(* carry it to the queue is in the outbox.                                 *)
QueuedHasEvent == \A t \in Tasks : task[t] = "queued" => EventsOf(t) # {}

(* SELECT FOR UPDATE: of all handlers and loops of all replicas, at most   *)
(* one is between its publish and its commit of an event.                  *)
OnePublisher ==
  \A p, q \in Procs : \A e \in Events : Holds(p, e) /\ Holds(q, e) => p = q

(* No lost message: a row says published only if the queue has the event,  *)
(* or the broker returned it, to which nothing listens.                    *)
PublishedWasEnqueued ==
  \A e \in Events : outbox[e].status = "published" => copies[e] > 0 \/ e \in returned

Sent(e) == outbox[e].status = "published" \/ \E p \in Procs : pc[p] = "commit" /\ cur[p] = e

(* Duplicates are paid for: every message of an event beyond the first, in *)
(* the queue or on its way there without anybody waiting for it, goes back *)
(* to a crash, a nack, a timeout, an aborted transaction or a lost         *)
(* connection.  Without faults an event is enqueued once, whoever races to *)
(* publish it.                                                             *)
DuplicatesArePaid ==
  \A e \in Events : copies[e] + adrift[e] <= faults + (IF Sent(e) THEN 1 ELSE 0)

(* The outbox implements Delivery: an event is recorded once and handed to *)
(* the broker only while open; the broker stores of it what it was handed, *)
(* be it late; it is closed only after it was stored or returned, and for  *)
(* good.                                                                   *)
Stage(e) ==
  IF ~ Exists(e) THEN "none"
  ELSE IF outbox[e].status = "published" THEN "closed" ELSE "open"

\* messages of e that the broker has been handed and has not settled
Underway(e) == adrift[e] + (IF e \in InFlight(Procs) THEN 1 ELSE 0)

Abstract == INSTANCE Delivery WITH
  stage <- [e \in Events |-> Stage(e)],
  sending <- [e \in Events |-> Underway(e)],
  delivered <- copies,
  bounced <- returned

Delivers == Abstract!Spec

(* Every pending event is in the end published, if some replica still has  *)
(* its connection to RabbitMQ: handlers that fail or crash leave it to the *)
(* recovery loops.                                                         *)
EventuallyPublished ==
  \A e \in Events :
    outbox[e].status = "pending" ~>
      (outbox[e].status = "published" \/ \A s \in Servers : chan[s] = "down")

-----------------------------------------------------------------------------
(* The inductive invariant behind the theorems of OutboxProofs.            *)

\* A row is locked only while it is pending: its holder saw it so, and no
\* one else can commit a change to it.
HeldIsPending ==
  \A p \in Procs : pc[p] \in HoldingPc => outbox[cur[p]].status = "pending"

AckedWasEnqueued ==
  \A p \in Procs : pc[p] = "commit" => copies[cur[p]] > 0 \/ cur[p] \in returned

RowsNameTasks == \A e \in Events : Exists(e) <=> outbox[e].task \in Tasks
WorkHasRow == \A t \in Tasks : working[t] => task[t] # "absent"

\* What a recovery transaction has read still holds, though it has no lock:
\* rows are never deleted and events never change their task.
RecoveryReadsHold ==
  \A s \in Servers :
    /\ pc[s] \in RecoverPc => task[cur[s]] # "absent"
    /\ pc[s] = "requeue" => EventsOf(cur[s]) # {}
    /\ pc[s] = "recreate" => cur[s] \in Seeded

LockInv == TypeOK /\ OnePublisher /\ HeldIsPending
DeliveryInv == PublishedWasEnqueued /\ AckedWasEnqueued /\ DuplicatesArePaid
RowInv ==
  RowsNameTasks /\ WorkHasRow /\ RecoveryReadsHold /\ OneEventPerTask /\ QueuedHasEvent

(* Together inductive: the row lock keeps what a publisher saw true until  *)
(* it commits, an ack precedes a commit, and both tables change together.  *)
IInv == LockInv /\ DeliveryInv /\ RowInv

-----------------------------------------------------------------------------
(* What comments and the README say, and the code does not do. *)

(* outbox_service.go:251 "发布失败，增加重试计数": an attempt of the loop   *)
(* that the broker refuses or leaves unanswered counts as a retry.  (Only  *)
(* a failed attempt takes a loop from waiting back to its batch.)          *)
FailureIsCounted ==
  [][\A s \in Servers :
       pc[s] = "confirm" /\ pc'[s] = "batch"
         => outbox'[cur[s]].retry = outbox[cur[s]].retry + 1]_vars
=============================================================================
