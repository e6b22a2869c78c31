# Verification of cloud-media

TLA+ modules for the video transcoding system of this repository: an API with a
transactional outbox between PostgreSQL and RabbitMQ, a publisher with confirms, a pool
of workers, and what a worker does with ffmpeg and the object store. The modules are
translated from the Go code; TLC checks them on small instances, and TLAPS proves the
main safety properties for every value of the constants. `PROJECT.json` maps every
definition to the lines it models, and lists the runs, the hazards with the properties
that cover them, and the theorems.

## 1. Inventory

| component | state | operations | hard behaviour |
|---|---|---|---|
| task API: `video_handler.go`, `video_usecase.go` | `video_tasks` rows, the input bucket | GetUploadURL, SubmitTask, GetTaskStatus, ListTasks, CancelTask | check before insert; a failed commit that happened; ids clients choose; pages over a changing table; a total from another query |
| outbox: `outbox_service.go`, `persistence/outbox.go` | `outbox_events` rows; per replica a ticker and a snapshot of a batch | PublishVideoTaskTransactional, publishSingleEvent, recoveryLoop, recoverPendingTasks, cleanup | handlers and loops of all replicas race for one row; a crash between publish and commit; rollback of what was meant to be recorded |
| publisher: `rabbitmq_broker.go` (PublishWithConfirm, handleConfirmations, Start, Stop, Reconnect) | `pendingConfirms` by delivery tag, a goroutine per channel | publish, ack, nack, timeout, return | answers that come late or never; tags restart after a reconnect; a send under the mutex |
| consumer: `rabbitmq_broker.go` (ConsumeTasks, handleMessage) | unacked delivery, Qos 1 | deliver, ack, nack without requeue | redelivery; connection lost under a running task |
| duplicate guards: `processed_messages`, `TryTransitionToProcessing` | marks; task status | TryMarkAsProcessed, transition under a row lock, CleanupOldEntries | a mark is set before the work is done; errors count as "go on" in one guard and as "already done" in the other |
| worker: `worker.go`, `cmd/worker`, `worker-prestop-script.yaml` | active task counter | ProcessTask, handleTaskError, Run, preStop, SIGTERM | whole-row saves over concurrent writes; exit in the middle of a task |
| transcoder: `ffmpeg_transcoder.go`, `pkg/ffmpeg` | the ffmpeg process, its pipe, the progress goroutine | probe, thumbnail, encode, playlists; scaling, rotation, deadline | late progress writes; a pipe nobody reads; odd and turned sizes |
| object storage: `s3_compat.go` | the output bucket and its keys | ensureBucketExists, UploadFile, DownloadToWriter | two first uploads create one bucket |
| schema and pool: `database.go` | tables, index, connections | AutoMigrate | index before its table |
| telemetry, metrics, logging, health, config, generated RPC and wire code, test clients | none the properties depend on | I/O | — |

How they interact. A request handler inserts task and event in one transaction and
publishes the event in a second one, which holds the row lock while it waits for the
broker's confirm. Every API replica also runs a recovery loop that publishes what is
still pending and then looks at pending *tasks*: it sets them to `queued`, after
creating an event if they have none. A worker gets the message, passes two guards,
downloads, encodes and uploads, and writes the same `video_tasks` row that recovery,
cancellation and its own progress goroutine write.

What makes each part correct:

* task API: an answer stays true; a source whose id the server chose cannot be replaced by
  others before the list shows it; a walk through the pages misses nothing;
* outbox: task and event are created together; one publisher per event; *published* only
  after the queue accepted the message or the broker returned it; extra copies only when a
  fault explains them; in the end published;
* publisher: an answer reaches the publisher it belongs to, success means an ack, and
  nobody blocks the confirmation goroutine;
* worker pool: one worker per task; a waiting task has a message; a final status stays
  final; a task comes to an end;
* transcoder: success means that the files the row names are there; progress does not fall;
  the encoded picture has the right shape; the worker always comes to an end;
* together: a submitted task is never out of everybody's hands, and is finished, unless the
  broker returned its message.

## 2. Modules

| module | models | role |
|---|---|---|
| `Delivery` | — | abstract: an event is recorded, handed over while open, closed for good; its messages arrive then, later or never |
| `Outbox`, `MCOutbox` | submit, publish and recovery on all replicas, their faults | implements `Delivery` |
| `PublisherConfirms`, `MCPublisherConfirms` | the broker as a publisher, by delivery tag and channel | what `Outbox` has as `Ack`, `Returned`, `Fail`, `GiveUp` |
| `WorkerPool`, `MCWorkerPool` | consumer, both guards, status of the task, crashes, stops | |
| `Media` | the arithmetic of `pkg/ffmpeg` | pure operators |
| `Transcode`, `MCTranscode` | the work on one task: ffmpeg, parser, progress, uploads | proved to take only the steps `SaveInfo`, `FailTask`, `Succeed` and `Crash` of `WorkerPool` |
| `TaskApi`, `MCTaskApi` | the requests as clients see them | |
| `CloudMedia`, `MCCloudMedia` | `Outbox` and `WorkerPool` over one table and one queue | composition |
| `OutboxProofs`, `OutboxRefinement`, `PublisherConfirmsProofs`, `WorkerPoolProofs`, `MediaProofs`, `TranscodeProofs`, `TaskApiProofs`, `CloudMediaProofs` | — | theorems |

### Outbox

`task` and `outbox` are the two tables, as committed. A transaction's own writes are no
state: a rollback is a step that leaves the tables alone. A process is a request handler
or a replica's recovery loop (which bears the name of the replica); `pc` says where it is
and `cur` what it has in hand.

    Submit, Insert                                   SubmitTranscodeTask, PublishVideoTaskTransactional
    BeginPublish -> Ack/Returned/Fail/... -> Commit  publishSingleEvent, by a handler or a loop
    Tick, NextEvent                                  PublishOutboxEvents
    ListTasks, Inspect, Count, Requeue/Recreate, EndTick     recoverPendingTasks
    StatementFails, Abort, Crash, LoseConnection     faults
    StoreLate                                        the broker
    StartTask, SaveTask, StopTask, CancelTask        what workers and CancelTask do to task rows

`BeginPublish` joins lock, check and publish: the row is locked in between, and no other
transaction can see or change it. `Ack` is the broker storing the message, the confirm
and its way to the waiter. `Returned` is the other way to a confirm: no queue takes the
message, the broker returns it, which is only logged, and then acks it, so the event is
marked published and `returned` remembers it. `Fail` is a nack or a timeout.

Whenever a publisher stops waiting (`Fail`, `StatementFails`, `Abort`, `Crash`,
`LoseConnection`), its message is still with the broker: `Strand` adds it to `adrift`, and
`StoreLate` may store it at any later time, also after another replica has published
and closed the event. Nothing says that it ever does. When the connection is lost, all
who wait become `orphaned` and only their timeout ends the wait; the API server never
reconnects, so from then on `BeginPublish` of that replica fails.

`StatementFails` is one failing statement or commit, after which the loop goes on with the
next event or task; `Abort` is the end of a request's or tick's context, after which it
does nothing more.

The workers are seen as `working`: a worker starts only a task that waits and whose message it
was sent, and only one that is at work on a task saves its row, over any status.

`retry_count` is a field of the row that no committed step changes: the increment of
`publishSingleEvent` is in the transaction its own error rolls back. The field and
`MaxRetries` stay in the model because the query tests them.

`Seeded` are tasks whose row was written without an event. `VideoTaskRepository.Create`
can write one; the current API does not call it, but lines 393-422 of
`recoverPendingTasks` are there for such rows. Two loops that find one create an event
each: this is where a task with two messages comes from.

### PublisherConfirms

Publishers register a one-place channel under the next tag and wait; `handler[c]` is the
goroutine of AMQP channel `c`, and `held[c]` the answer it has read before it gets the
mutex. Critical sections are single steps, except that of Reconnect, which dials while it
holds the mutex (`locked`). `Answer` is the broker: it stores, refuses or returns a message,
and acks what it returned. Reconnect replaces the map and starts the tags again at 1, so
an old handler may still hold an answer whose tag means another message by now; the
properties say how far that can reach.

### WorkerPool

A worker is `idle`, or holds a message and goes through
`check -> mark -> start -> count -> work -> encode -> ack`; every database call is a step
of its own. `handleMessage` turns every outcome into an ack or a nack without requeue, and
there is no dead letter exchange, so both are the one action `Ack`. Each call can fail, and
the branch taken is the one in the code:

* TryMarkAsProcessed fails: the message is handled nevertheless;
* TryTransitionToProcessing fails: ProcessTask returns nil and the message is acked, as if
  it had been processed before;
* the save of the source's properties fails: logged;
* the save of the result, or of `failed`, fails: nack, message gone.

`LoseConnection` hands the message back to the queue while the worker goes on with it; its later
ack is only logged as failed. `Exit` is the end of the process by a crash or after SIGTERM, and
its restart. `PreStop` is the moment the hook sees `active_tasks` at 0; the counter is
incremented after the transition (`CountActive`), and the worker goes on consuming. `Arrive` is
the queue accepting one copy from an outbox, `ReadPending` and `Requeue` are the two halves of
the recovery transaction, which may also end in between (`LetGo`), `CancelTask` asks nothing of
the status, `Cleanup` may remove any mark, as the age of marks is not modelled. The unique index
of `processed_messages` is no parameter: with or without it, the second of two concurrent
markers goes on to the handler (with it, after an error whose text is not the one the code
compares with).

Two history variables say what a property may blame: `hit[t]`, a fault struck the handling
of `t` after its mark; `regress[t]`, how often recovery took `t` from a later status back to
`queued`.

### Media and Transcode

`Media` has the functions of `pkg/ffmpeg` on a file given by its video streams, duration,
size and sound: rotation (with Go's `%`), the last video stream overwriting the ones before,
validation, scaling to even sides, the deadline, and per cent.

`Transcode` is three processes per task: the worker (`stage`), ffmpeg with its pipe of bounded
size, and the parser, which reads the pipe through a buffer and calls UpdateProgress. The worker
waits for ffmpeg and never for the parser: after `Wait` the parser still has what is in its
buffer. `GiveUp` is the scanner refusing a line of 64 KB; ffmpeg then blocks on the pipe
(`HasRoom`), and only `Timeout` ends it. The thumbnail is the first picture from 1.00 s on: if
there is none (`HasThumbnail`: the video is no longer than that, or its picture ends before its
sound) ffmpeg writes no file and exits with 0 (`"empty"`), and the row names an object nobody
uploads. A thumbnail, a progress report or a save of the video's data that goes wrong is only
logged: `Slip` counts it as a fault, and blames nothing for the outcome of the task. A source
without sound makes ffmpeg fail, as `-map 0:a` is not optional. `CheckBucket`, `MakeBucket` and
`Put` are the three calls of each upload; the bucket may appear between the first two. `SaveRow`
writes the whole row, progress included, as it was read; `SetProgress` asks nothing of the
status.

`W` shows `Transcode` as a `WorkerPool` in which each task is in the hands of a worker that
bears its name and has passed both guards: `PoolPc` puts it at `work` up to the save of the
source's data, at `encode` until it has a result (`FailTask` is possible at both), at `ack` when
it is done, and back at `idle`, its message in the queue again, when it crashed. A task whose
last save went wrong is `hit` and a fault of the pool, other faults of `Transcode` are none of
the pool's. `StepsOfPool` says that every step of worker, ffmpeg and parser is one of four
actions of `WorkerPool` or changes nothing the pool can see. So `WorkerPool` misses no write of
a status: an `UpdateProgress` that also wrote the status would violate it.

### TaskApi

A client asks for an upload URL, uploads, submits, tries again after an internal error, asks for
the status or cancels; another process walks through ListTasks. The API has no accounts: a
request may name any id and any key, so a client here names what it chose or was given and
whatever ListTasks shows, ids as well as the ids in source keys (`KnownIds`, `KnownKeys`). That
nobody guesses an id of `uuid.New()` is the one thing assumed of them. A request is as many
steps as it has statements that others can come between: `Check` and `Insert`, `CountTasks` and
`FindTasks`. A failed insert or cancellation may have been committed. GetTaskStatus and
CancelTask refuse an empty id; every other error of theirs, a missing row too, is an internal
one, so an answer has a field that says whether the database had failed (`failed`, which the
client does not see). `ListFails` is a query of a page that fails. `Page` is the SQL with its
order left open among equal `created_at` (`TieBreakers`). `Save` is a worker's whole-row save,
which writes the zero time to `created_at` (`FromDomain` has no such field).

### CloudMedia

One `task` table and one queue. A worker is `working` for the API side while it is at work on a
task (`AtWork`). `TakenBack` counts what recovery writes over a status that no longer waits.
Steps of `Outbox` other than those of its environment are taken with `HandOver`: what `copies`
grows by, `ready` grows by. Steps of `WorkerPool` other than those of its environment write
`task`. The environments of both modules are replaced by the other side; that each side does no
more than the other's environment allows is what `OutboxIsServed` (`Outbox!Spec`) and
`PoolIsServed` (`WorkerPool!Spec`) state. So what is proved or checked of either module alone
holds in the whole. The row of a task that is not yet submitted counts as `pending` for the
pool, which knows no absent rows and has no message of it.

## 3. Runs

| run | question | answer |
|---|---|---|
| `outbox` | two recovery loops and a request handler race to submit one task and publish its event, two faults of any kind, messages stored late | one publisher per event, nothing marked published that was neither enqueued nor returned, every duplicate paid for by a fault; implements `Delivery`; `IInv` holds; the event is published in the end unless every replica has lost its connection |
| `outbox_races` | two loops, a row without events, a second task submitted meanwhile, no faults | races alone enqueue no event twice; one event per submitted task; a queued task has one |
| `confirms` | two publishers, two tags, two channels: answers, timeouts, Stop and Reconnect | nobody registered has left or been told; success means an ack; until a Reconnect no waiter is forgotten |
| `pool` | two workers, two messages of a task, a recovery loop, two faults | a second worker is on a task only when recovery took it back; a waiting task keeps a message; a task is processing only under a worker, or after a fault; a final status is not reopened; a task whose message was sent is finished unless something named is in the way |
| `transcode` | one task over sources of every kind, ffmpeg, the parser, a shared bucket, one fault or crash | the files of a successful task are there, but for a thumbnail that could not be made; progress grows while ffmpeg runs; the shape is kept; everything ends; a sound source succeeds unless something named is in the way, and calls that are only logged are not; to the pool all this is a save, an end or a crash |
| `api` | two clients, one named id and two generated ones, any id and key they can know, a walk, one fault, two saves or cancellations | answers are true; from when on, and by whom, a source can be replaced; what a walk may miss, and why; URLs exactly with success |
| `system` | one replica and one worker over one table and queue, a fault on each side | each side is what the other takes it for; the task is always in somebody's hands, and is finished, unless its message was returned or something else named is in the way; a second copy of a message has a fault behind it |

And five runs in which a claim of the repository does not hold:

| run | claim | what the counterexample shows |
|---|---|---|
| `retry` | `outbox_service.go:251`: a failed publish increments the retry count | the increment rolls back with the transaction; `failed` and `MaxRetries` are unreachable, and an event is retried for ever |
| `one_worker` | `worker.go:76`: only one worker can process a task | recovery puts a task back to `queued` under a worker, and a duplicate starts a second one; no fault is needed |
| `stuck` | `README.md:41`: stuck tasks are recovered | a worker that dies, or cannot save its last status, leaves the task `processing`; its message is gone or will be skipped, and recovery lists only pending and queued tasks |
| `returned` | `README.md:39`: mandatory and returns deal with routing failures | the return is logged, the ack that follows it makes PublishWithConfirm succeed. `Outbox` has the outcome as `Returned`, and `PublishedWasEnqueued`, `TaskIsInHand` and `TaskIsFinished` name it as their exception |
| `progress` | `progress.go:28`: progress does not fall back | nobody waits for the progress goroutine: its last report may come after the worker's 100 and after the final save |

Met on the way, and shown by the conditions of the properties rather than by a run: a save by a
worker sets `created_at` to the zero time, so a task jumps to the end of the list
(`WalkSeesEveryTask`); a page size above 100 becomes 20 without a word, so a client that
counts by its own size and the total stops early (same); a missing task is an `internal`
error; a cover image that is the last video stream gives the picture the wrong shape
(`EncodedKeepsShape`); a video without a picture at or after 1.00 s (one of exactly a second
is the shortest case a test would pick) succeeds with a thumbnail that is not there
(`SuccessIsPlayable`); anybody who has an id from ListTasks gets an upload URL that replaces
the source of that task (`OwnSource`); a silent video passes the validation and always fails
(`SoundTaskSucceeds`); the confirm timeout is 60 seconds, the README says 30.

### Bounds, and why they are enough

* `outbox*`: a handler and a loop of one replica differ in what a crash or a lost connection
  does to them, two replicas in that it does not. `outbox` has one handler and both loops: every
  conflict over one event is between two processes, a third only waits. `outbox_races` has a
  handler on each replica, for two requests with one id. One or two tasks; an event per submit,
  one more for a second insert that must fail, and two for two loops that each create one.
  `IsNewEvent` stops new rows at the bound. `MaxFaults` 2 lets a fault strike while another's
  consequences are still there (a message adrift, then a failed commit; a return after a
  timeout); the theorems hold for any number. `BatchSize` 1 makes a loop come back for a second
  event; the retry count never grows, so larger values of `MaxRetries` differ in nothing.
* `confirms`: two tags per channel and two channels, so that a tag of the old channel and the
  same tag of the new one are both in use. Publishers are interchangeable and no liveness is
  checked: symmetry. Both end when the tags are used up, hence no deadlock check.
* `pool`: a worker that checks and one that works; two messages of one task, as two loops can
  create them. Copies of one message come from redelivery (`MaxCopies` 1), in
  `one_worker` from the outbox. Tasks share nothing but workers, so one is enough.
* `transcode`: `PipeSize` 2 and three lines: the parser has lines in its buffer, the pipe is full,
  and ffmpeg has one more to write. Positions rise and fall, and one is past the end. Sources:
  plain, turned by the Display Matrix without a duration, turned with a negative field and of exactly
  a second, one whose picture ends before its sound, with a cover image, silent, too flat, without
  video, too large, and missing. `BucketAppears` stands for a
  second worker.
* `api`: two clients are enough for every conflict over an id. `WalksApart`: a behaviour with a
  walk has submissions, retries, saves and faults in it, but no upload URLs, status requests and
  cancellations, which change neither the number nor the creation time of rows; those that do
  without a walk have them all. `MaxChanges` 2: a save and a cancellation, or two saves, of one
  task or two. Two creation times, so that tasks tie or do not. Page size 2, and 3, which is
  above the maximum of 2 and becomes 1. Clients are interchangeable, and so are generated ids:
  symmetry, and no liveness.
* `system`: one replica, one worker, a fault each. Races between workers and between replicas
  are the business of `pool` and `outbox`; what is new here is the interplay of the two sides,
  all of whose steps occur.

`api`, `transcode`, `confirms` may stop (clients are done, tasks ended); in all other runs
deadlock is checked: a tick or an arriving message is always possible.

### Fairness

`Outbox!LiveSpec`: a goroutine that can run does run and the ticker fires for ever (weak
fairness of the loop and of the handler's insert, not of clients). PostgreSQL serves row
locks in order of request, so `BeginPublish` is strongly fair. The broker answers or the
confirm timeout does; as faults (returns and nacks among them) are finitely many, from some point on
the answer is an ack of a stored message. Nothing is assumed of faults, workers, cancellations and
messages adrift: `StoreLate` may never happen.

`WorkerPool!LiveSpec`: a worker that has something to do does it. For download and upload this
is an assumption about S3 and the network (the code gives them no timeout). A queue with
messages delivers to an open consumer, and `Reconnect` succeeds in the end. Recovery,
cancellation and cleanup have no fairness.

`Transcode!LiveSpec`: the worker and the parser go on, ffmpeg exits if it can write, the
deadline of `timeoutCtx` comes. `GiveUp`, crashes and the bucket appearing have no fairness.

`CloudMedia!LiveSpec` is the fairness of `Outbox` and `WorkerPool` together.

## 4. Proofs

The only assumptions are those the modules name (`ConstantsAssumption`, `PoolAssumption`,
`ConfirmsAssumption`, `MediaAssumption`, `TranscodeAssumption`, `ApiAssumption`,
`CompositionAssumption`): sets that do not overlap, event ids that are naturals, finitely many
workers and task ids (also in `Transcode`), bounds that are numbers. TLC evaluates them in the runs.

**Outbox** (`OutboxProofs`, `OutboxRefinement`). `IInv` has three layers. `LockInv`: a row is
held by at most one process, and is pending while it is held. This makes the check under the
lock as good as a check at the commit. `DeliveryInv`: a process about to commit has had its ack,
so *published* implies enqueued or returned; and the number of messages, stored or adrift, is at
most the faults, plus one once the event is sent. Messages adrift are counted from the moment
their publisher leaves, so that `StoreLate`, which may come at any time, changes nothing of the
sum. The last bound is inductive only with the first layer: a second ack would need a second
holder, or a pending row that has been sent. `RowInv`: rows and tasks are created together, and
what a recovery transaction read without a lock still holds when it writes, because rows are
never deleted and change their task never (the *status* it read may not hold: run `one_worker`);
a worker is only at work on a task that has a row (`WorkHasRow`). From `IInv`: `TypeCorrect`,
`RowLock`, `NoLostMessage`, `DuplicatesBounded`, `OneEvent`, `QueuedBacked`, and `Refinement`,
`Spec => Delivers`: an insert records, a publish sends, an ack or a late storing delivers, a
return bounces, a commit closes, all else stutters; a publisher that leaves moves its message
from the one it waits for to those adrift, and what is under way (`Underway`) stays the same.

**Publisher** (`PublisherConfirmsProofs`). `ConfirmInv`: only opened channels have handlers,
answers and messages; a tag is used once per channel; an entry of the map belongs to a publisher
that waits with that tag on the current channel and has been told nothing; an answer under way
says what the broker did. From it `HandlerNeverBlocks`, `NoWaiterForgotten`,
`SuccessWasAcked`. A deletion by tag is safe because the tag is the publisher's own as long as
the channel is, and that is why `NoWaiterForgotten` stops at a Reconnect.

**WorkerPool** (`WorkerPoolProofs`). `WorkersBounded`: the workers on a task number at most the
times recovery took the task back, plus one when it is not waiting; a start adds a worker and
takes the status out of waiting, a requeue puts it back and, out of any other status, adds to
`regress`; nothing else raises the one or lowers the other. `FinalStatusStays` needs only that a
worker that writes is on the task. `NoTaskForgotten` is the subtle one: `WaitingHasMessage` is
not inductive, since `Check` drops a message it finds marked. `GuardInv` adds `MarkedIsHandled`:
as long as the task waits undisturbed, whoever set the mark is still before its `Start`. So the
message that is dropped is not the last one. `NoTaskStranded` completes it: a task is processing
only while a worker is on it or after a fault, so what run `stuck` shows needs a fault, whatever
duplicates, requeues and whole-row saves do. Its last writer either leaves a final status or has
been hit, and a second worker does not take the first one's place away. `NoStrayCopy` counts the
copies of a message in the queue and in workers' hands (`CopiesCounted`): delivery and
acknowledgment move or remove one, and only a lost connection, a fault, adds one to the queue
while the worker keeps its own.

**Media** (`MediaProofs`). For every input: a stored rotation is in 0..359; the filter turns a
picture on its side exactly when its size was computed for one; sides are even and at least 2;
a scaled picture keeps the shape of the upright one to within two pixels, so the encoding of a
file with one video stream does; the deadline is within its bounds, progress within 0..100.

**Transcode** (`TranscodeProofs`). `BaseInv`: a worker past the validation has a file that
passed it, and so has everything it started; with the lemmas of `MediaProofs` this gives
`EncodingsKeepShape`. `PlayInv`: each file of the output is in `left` or in the bucket, where
nothing is ever deleted; a worker that writes the final row has an empty `left`; a thumbnail
that is named and was not made means a video without a picture at or after 1.00 s. This gives
`SuccessPlays`. `GrowInv`: until ffmpeg has ended, the row shows at most `TotalProgress` of the
best position the parser has seen, and a value on its way to the row is that best one; so a
write of it cannot lower the row (`ProgressOnlyGrows`). `TranscodeTypeCorrect` has the bounds of
the pipe and of the parser's buffer. `WorkIsThePools` shows every step to the pool
(`StepsOfPool`). What makes it a proof and not a renaming is `PoolInv`: before its end a worker
has left the status `processing`, so that a final status is always the one last step that writes
it; and the tasks that end without one number at most the faults, so that the pool's faults are
faults that happened. Each action is first reduced to what it can mean to the pool (`Hides`,
`Works`, `Ends`: `WorkerView`, `MachineView`, `CrashView`), then the meanings are matched with
the pool's actions (`ViewKept`, `PoolView`).

**TaskApi** (`TaskApiProofs`). `AnswerInv`: a row that is there keeps owner and source, and a
client that was told of a task, or is about to be, has a row that bears this out; so an internal
error about it comes from a failed read (`AnswersStayTrue`). `SourceInv`: what comes up in rows,
requests and URLs are ids that were chosen or drawn and keys made of them (`RowsTraced`), a key
determines its id, an object came with a URL of whoever put it there (`PutsOwned`), and the id
the server gave a client is another one's only by name, and once the list shows it (`IdsApart`):
a drawn id is new to everybody, and rows, which keep their source and are never deleted, stay
listed (`SourcesApart`). `UrlInv`: a row that says success names its output (`UrlsTrue`).
`WalkInv` is about positions in a list that changes: a task with a time of its own has been
seen, or the number of tasks `Ahead` of it is at least the offset to be asked for next. New
tasks only raise that number, and a page that does not show the task leaves it true of the next
offset. The walk ends at an empty page: whatever order the database gives to equal times, the
positions are 0, 1, ... without a gap (`PlacesFill`, by counting), so no task is at or beyond
that offset. A walk that ends by the total needs a count that still holds. From it
`WalkIsComplete`. `ApiTypeCorrect` bounds the page a walk asks for: page *n* with at least one
task on it means *n* tasks or more, so the next is at most one beyond the number of ids. This
holds of a client that goes on to an empty page, or asks for a size of at least 1; one that goes
by the total with a smaller size never gets there, as it counts by its own size while the server
uses 20.

**CloudMedia** (`CloudMediaProofs`). `Whole` is `IInv` of the outbox, `GuardInv`,
`ProcessingHasWorker` and `CopiesCounted` of the pool, and `Foreseen` (events carry the tasks
the composition has foreseen for them). Given `Whole`, each step of one side is a step of the
environment the other side assumes, or none: `OutboxServed` and `PoolServed` prove it action by
action through the refinement mappings `RowStatus` and `InHand`. So `Whole` is inductive out of
the invariants the parts already have (`PartsHold`), and what was proved of either module holds
of the system. `TaskInHand` joins the two: an event that is pending is in the hands of the API
side, one that was published was enqueued, or is in `returned`; then `WaitingHasMessage` takes
over, and from the start of the work `ProcessingHasWorker`. `EveryCopyPaid` adds up what the
outbox pays for a copy (`DuplicatesArePaid`) and the pool for a redelivery (`CopiesCounted`):
neither part alone can say it, as a copy enqueued twice and a copy delivered twice look the same
in the queue. `PartsKeepTheirPromises` carries the theorems of the parts over: `Delivers`,
`OneEventPerTask`, `WorkersArePaid` and `FinalIsFinal` hold of `CloudMedia!Spec`, for any number
of replicas and workers.

Model-checked only: everything that rests on fairness (`EventuallyPublished`, `TaskSettles`,
`TaskEnds`, `SoundTaskSucceeds`, `TaskIsFinished`), which is out of the prover's reach, and the
five refuted claims. Every invariant and every action property of a passing run is a theorem.

## 5. Not modelled

* Time: confirm timeout, tick deadline and ages of rows are choices. That a loop's tick
  (20 s) ends before its publish times out (60 s) shows in `GiveUp`, which ends the tick. The
  database pool's limit of 100 connections costs time only: no transaction takes a second
  connection.
* The migration: its order decides whether `processed_messages` has its index, which makes no
  difference to the guards (see WorkerPool). What PostgreSQL does with the statements is its own.
* Contents: payloads, error texts, the status log, codec settings and bit rates, the format of
  playlists and URLs.
* A commit whose answer is lost counts as failed and rolled back, except where it matters who
  was told what: inserts and cancellations of `TaskApi` have both outcomes.
* A queue that is deleted with messages in it: the loss is the broker's. That a message finds no
  queue is `Returned`. A message adrift that is returned instead of stored changes nothing that
  anybody reads, and is one that stays adrift.
* `OutboxService.Stop` has no caller; the end of an API process is `Crash`. `MarkAsPublished`,
  `MarkAsFailed`, `IncrementRetry`, `CreateOutboxEvent`, ListObjects and DeleteObject have none
  either.
* The composition has one replica and one worker, for the size of its state space; `Transcode`
  and `TaskApi` are not composed with the rest: of the one it is proved that it does only what
  `WorkerPool` has it do, the other shares with the rest the table, whose changes are `Save` and
  `CancelTask`.
* Telemetry, metrics, logging, health, configuration, generated code and test clients: nothing
  reads back what they keep; `PROJECT.json` lists each with its reason.
