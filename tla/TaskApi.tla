------------------------------ MODULE TaskApi ------------------------------
(***************************************************************************)
(* The requests of the API as its clients see them: video_handler.go and   *)
(* video_usecase.go over the video_tasks table (video_task.go) and the     *)
(* input bucket (s3_compat.go).                                            *)
(*                                                                         *)
(* Clients ask for an upload URL, upload, submit, try again when the       *)
(* answer is an internal error, and ask for the status or cancel; one of   *)
(* them walks through the pages of ListTasks meanwhile.  There are no      *)
(* accounts: a request may name any id and any key, those of other         *)
(* clients too once ListTasks shows them.  A request is as many steps as   *)
(* it has statements that other requests can come between.  Publishing     *)
(* the event is Outbox; that it failed is not part of any answer.          *)
(*                                                                         *)
(* The workers are the environment: Save writes the whole row from a       *)
(* domain object without CreatedAt, so created_at becomes the zero time.   *)
(***************************************************************************)
EXTENDS Integers, FiniteSets

CONSTANTS
  Ids,          \* task ids: those clients choose and those uuid.New() returns
  NamedIds,     \* ids clients choose
  NoId,         \* task_id = ""
  Clients,
  Nobody,
  FileNames,    \* of source videos
  NoKey,        \* source_key = ""
  Times,        \* values of created_at
  DefaultPageSize, MaxPageSize,   \* 20 and 100
  FirstPages,   \* where clients begin to count pages
  Sizes,        \* values of page_size
  MaxFaults,    \* bound: failed database calls
  MaxChanges,   \* bound: saves of workers and cancellations
  WalksApart    \* bound: TRUE if a walk through the list goes together only with
                \* submissions and saves, not with the requests that no list shows

ASSUME ApiAssumption ==
  /\ IsFiniteSet(Ids) /\ NamedIds \subseteq Ids
  /\ NoId \notin Ids
  /\ \A i \in Ids, name \in FileNames : NoKey # <<"uploads", i, name>>
  /\ Nobody \notin Clients
  /\ Times \subseteq Nat \ {0}
  /\ MaxPageSize \in Nat /\ DefaultPageSize \in 1..MaxPageSize
  /\ Sizes \subseteq Int /\ FirstPages \subseteq {0, 1}
  /\ MaxFaults \in Nat /\ MaxChanges \in Nat
  /\ WalksApart \in BOOLEAN

VARIABLES
  rows,     \* rows[i]: the video_tasks row of task i
  puts,     \* uploads so far: object key and client
  stage,    \* stage[c]: where client c's request is
  given,    \* given[c]: task id and key that GetUploadURL gave c; asked: c named the id
  req,      \* req[c]: its SubmitTask request
  reply,    \* reply[c]: the answer to it
  answer,   \* answer[c]: the answer of GetTaskStatus or CancelTask, and whether the
            \* database failed there
  drawn,    \* ids uuid.New() has returned
  walk,     \* the walk through the list
  faults, changes

vars == <<rows, puts, stage, given, req, reply, answer, drawn, walk, faults, changes>>

NoRow == [owner |-> Nobody, source |-> NoKey, status |-> "absent", created |-> 0, output |-> FALSE]
Rows == {i \in Ids : rows[i].status # "absent"}
NoUrl == [id |-> NoId, key |-> NoKey, asked |-> FALSE]
NoAnswer == [id |-> NoId, status |-> "none", urls |-> FALSE, failed |-> FALSE]
Idle == [at |-> "idle", page |-> 0, size |-> 0, stop |-> "empty", total |-> 0,
         start |-> {}, seen |-> {}, moved |-> FALSE, grown |-> FALSE]

Init ==
  /\ rows = [i \in Ids |-> NoRow]
  /\ puts = {}
  /\ stage = [c \in Clients |-> "start"]
  /\ given = [c \in Clients |-> NoUrl]
  /\ req = [c \in Clients |-> [id |-> NoId, key |-> NoKey, fresh |-> FALSE]]
  /\ reply = [c \in Clients |-> "none"]
  /\ answer = [c \in Clients |-> NoAnswer]
  /\ drawn = {}
  /\ walk = Idle
  /\ faults = 0
  /\ changes = 0

Fault == faults < MaxFaults /\ faults' = faults + 1
Unlisted == walk.at = "idle" \/ ~ WalksApart
Goto(c, label) == stage' = [stage EXCEPT ![c] = label]
Reply(c, code) == reply' = [reply EXCEPT ![c] = code]
list == <<walk, changes>>

\* uuid.New(): an id nobody else has
Fresh == Ids \ (NamedIds \cup drawn)

KeyOfFile(id, name) == <<"uploads", name>>
\* for ids and names without a slash
KeyOf(id, name) == <<"uploads", id, name>>

\* ids that ListTasks shows, as they are or in a source_key
Listed == Rows \cup {i \in Ids : \E j \in Rows, name \in FileNames : rows[j].source = KeyOf(i, name)}

\* what client c can name: its own, what is listed, and what anybody may think of
KnownIds(c) == NamedIds \cup Listed \cup ({given[c].id, req[c].id} \ {NoId})
KnownKeys(c) ==
  {KeyOf(i, name) : i \in NamedIds, name \in FileNames}
    \cup {rows[j].source : j \in Rows} \cup ({given[c].key} \ {NoKey})

-----------------------------------------------------------------------------
(* GetUploadURL, and the upload *)

\* The URL is signed here, nothing is looked up; a signing that fails changes nothing.
GetUploadURL(c) ==
  /\ Unlisted
  /\ stage[c] = "start"
  /\ \E name \in FileNames :
       \/ \E id \in KnownIds(c) :
            /\ given' = [given EXCEPT ![c] = [id |-> id, key |-> KeyOf(id, name), asked |-> TRUE]]
            /\ UNCHANGED drawn
       \/ \E id \in Fresh :
            /\ given' = [given EXCEPT ![c] = [id |-> id, key |-> KeyOf(id, name), asked |-> FALSE]]
            /\ drawn' = drawn \cup {id}
  /\ Goto(c, "given")
  /\ UNCHANGED <<rows, puts, req, reply, answer, list, faults>>

\* The client puts its video where the URL points to.
Upload(c) ==
  /\ Unlisted
  /\ stage[c] = "given"
  /\ puts' = puts \cup {[key |-> given[c].key, by |-> c]}
  /\ Goto(c, "uploaded")
  /\ UNCHANGED <<rows, given, req, reply, answer, drawn, list, faults>>

-----------------------------------------------------------------------------
(* SubmitTask *)

\* without a bucket or a key, or with any key and any id or none
Submit(c) ==
  /\ stage[c] \in {"start", "uploaded"}
  /\ \/ /\ Reply(c, "invalid_argument")
        /\ Goto(c, "end")
        /\ UNCHANGED <<req, drawn>>
     \/ /\ \E key \in KnownKeys(c) :
             \/ \E id \in KnownIds(c) :
                  /\ req' = [req EXCEPT ![c] = [id |-> id, key |-> key, fresh |-> FALSE]]
                  /\ UNCHANGED drawn
             \/ \E id \in Fresh :
                  /\ req' = [req EXCEPT ![c] = [id |-> id, key |-> key, fresh |-> TRUE]]
                  /\ drawn' = drawn \cup {id}
        /\ Goto(c, "check")
        /\ UNCHANGED reply
  /\ UNCHANGED <<rows, puts, given, answer, list, faults>>

\* GetByTaskID; an error of it counts as "not there".
Check(c) ==
  /\ stage[c] = "check"
  /\ \/ /\ req[c].id \in Rows
        /\ Reply(c, "already_exists")
        /\ Goto(c, "told")
        /\ UNCHANGED faults
     \/ /\ req[c].id \notin Rows
        /\ Goto(c, "insert")
        /\ UNCHANGED <<reply, faults>>
     \/ /\ req[c].id \in Rows
        /\ Fault
        /\ Goto(c, "insert")
        /\ UNCHANGED reply
  /\ UNCHANGED <<rows, puts, given, req, answer, drawn, list>>

IndexDropped(i) == TRUE
\* the unique index of video_tasks.task_id
IndexAllows(i) == rows[i].status = "absent"

AddRow(c) ==
  /\ IndexAllows(req[c].id)
  /\ \E time \in Times :
       rows' = [rows EXCEPT ![req[c].id] =
                  [owner |-> c, source |-> req[c].key, status |-> "pending",
                   created |-> time, output |-> FALSE]]
  /\ walk' = [walk EXCEPT !.grown = TRUE]

\* PublishVideoTaskTransactional.  When the transaction returns an error it may have
\* been committed all the same.
Insert(c) ==
  /\ stage[c] = "insert"
  /\ Goto(c, "told")
  /\ \/ AddRow(c) /\ Reply(c, "ok") /\ UNCHANGED faults
     \/ AddRow(c) /\ Reply(c, "internal") /\ Fault
     \/ ~ IndexAllows(req[c].id) /\ Reply(c, "internal") /\ UNCHANGED <<rows, walk, faults>>
     \/ Reply(c, "internal") /\ Fault /\ UNCHANGED <<rows, walk>>
  /\ UNCHANGED <<puts, given, req, answer, drawn, changes>>

\* The client tries again with the same request; without an id it gets another one.
Retry(c) ==
  /\ stage[c] = "told"
  /\ reply[c] = "internal"
  /\ IF req[c].fresh
     THEN \E id \in Fresh : req' = [req EXCEPT ![c].id = id] /\ drawn' = drawn \cup {id}
     ELSE UNCHANGED <<req, drawn>>
  /\ Goto(c, "check")
  /\ UNCHANGED <<rows, puts, given, reply, answer, list, faults>>

-----------------------------------------------------------------------------
(* GetTaskStatus, CancelTask, and what workers save *)

UrlsAlways(i) == rows[i].output
\* playback URLs for a successful task
Urls(i) == rows[i].status = "success" /\ rows[i].output

Answer(c, id, code) ==
  answer' = [answer EXCEPT ![c] = [id |-> id, status |-> code, urls |-> FALSE, failed |-> FALSE]]
Failed(c, id) ==
  answer' = [answer EXCEPT ![c] = [id |-> id, status |-> "internal", urls |-> FALSE, failed |-> TRUE]]

\* A missing row is a plain error like any other of the database, and
\* toConnectError makes an internal one of them all.
GetTaskStatus(c) ==
  /\ Unlisted
  /\ stage[c] = "told"
  /\ Goto(c, "end")
  /\ LET id == req[c].id IN
     \/ Answer(c, NoId, "invalid_argument") /\ UNCHANGED faults
     \/ Failed(c, id) /\ Fault
     \/ id \notin Rows /\ Answer(c, id, "internal") /\ UNCHANGED faults
     \/ /\ id \in Rows
        /\ answer' = [answer EXCEPT ![c] =
                        [id |-> id, status |-> rows[id].status, urls |-> Urls(id), failed |-> FALSE]]
        /\ UNCHANGED faults
  /\ UNCHANGED <<rows, puts, given, req, reply, drawn, list>>

Change == changes < MaxChanges /\ changes' = changes + 1

RowAssumed(i) == TRUE
\* the read at the start of UpdateStatus
RowFound(i) == i \in Rows

\* UpdateStatus, which leaves created_at and output_info alone
Cancel(i) ==
  /\ RowFound(i)
  /\ Change
  /\ rows' = [rows EXCEPT ![i].status = "cancelled"]

\* of any task; a transaction that returns an error may have been committed
CancelTask(c) ==
  /\ Unlisted
  /\ stage[c] \in {"start", "told"}
  /\ Goto(c, "end")
  /\ \/ Answer(c, NoId, "invalid_argument") /\ UNCHANGED <<rows, faults, changes>>
     \/ \E id \in KnownIds(c) :
          \/ Cancel(id) /\ Answer(c, id, "cancelled") /\ UNCHANGED faults
          \/ ~ RowFound(id) /\ Answer(c, id, "internal") /\ UNCHANGED <<rows, faults, changes>>
          \/ Failed(c, id) /\ Fault /\ (Cancel(id) \/ UNCHANGED <<rows, changes>>)
  /\ UNCHANGED <<puts, given, req, reply, drawn, walk>>

\* FromDomain sets no CreatedAt, and Save writes every column.
Save(i) ==
  /\ i \in Rows
  /\ Change
  /\ \E status \in {"processing", "success", "failed"} :
       rows' = [rows EXCEPT ![i] = [@ EXCEPT !.status = status, !.created = 0,
                                             !.output = status = "success"]]
  /\ walk' = [walk EXCEPT !.moved = TRUE]
  /\ UNCHANGED <<puts, stage, given, req, reply, answer, drawn, faults>>

-----------------------------------------------------------------------------
(* ListTasks *)

PageOf(page) == IF page < 1 THEN 1 ELSE page
SizeOf(size) == IF size < 1 \/ size > MaxPageSize THEN DefaultPageSize ELSE size

OffsetByPage(page, size) == page * size
Offset(page, size) == (page - 1) * size

\* ORDER BY created_at DESC leaves open how rows with the same time are ordered.
TieBreakers ==
  {f \in [Ids -> 1..Cardinality(Ids)] : \A i, j \in Ids : f[i] = f[j] => i = j}
Before(i, j, tie) ==
  \/ rows[i].created > rows[j].created
  \/ rows[i].created = rows[j].created /\ tie[i] < tie[j]
Position(i, tie) == Cardinality({j \in Rows : Before(j, i, tie)})

\* LIMIT size OFFSET (page - 1) * size
Page(page, size, tie) ==
  {i \in Rows : Position(i, tie) \in Offset(page, size)..(Offset(page, size) + size - 1)}

\* A client goes on until a page is empty, or until it has
\* asked for as many as the answer says there are.
StartWalk ==
  /\ walk.at = "idle"
  /\ WalksApart => \A c \in Clients : given[c] = NoUrl /\ answer[c] = NoAnswer
  /\ \E page \in FirstPages, size \in Sizes, stop \in {"empty", "total"} :
       walk' = [Idle EXCEPT !.at = "count", !.page = page, !.size = size, !.stop = stop,
                            !.start = Rows]
  /\ UNCHANGED <<rows, puts, stage, given, req, reply, answer, drawn, faults, changes>>

\* The two queries of List share no transaction.
CountTasks ==
  /\ walk.at = "count"
  /\ walk' = [walk EXCEPT !.at = "find", !.total = Cardinality(Rows)]
  /\ UNCHANGED <<rows, puts, stage, given, req, reply, answer, drawn, faults, changes>>

WalkEnds(found) ==
  IF walk.stop = "empty" THEN found = {} ELSE walk.page * walk.size >= walk.total

FindTasks ==
  /\ walk.at = "find"
  /\ \E tie \in TieBreakers :
       LET found == Page(PageOf(walk.page), SizeOf(walk.size), tie) IN
       walk' = [walk EXCEPT !.seen = @ \cup found,
                            !.at = IF WalkEnds(found) THEN "end" ELSE "count",
                            !.page = IF WalkEnds(found) THEN @ ELSE @ + 1]
  /\ UNCHANGED <<rows, puts, stage, given, req, reply, answer, drawn, faults, changes>>

\* One of the queries fails: an internal error, and the client asks for the page again.
ListFails ==
  /\ walk.at \in {"count", "find"}
  /\ Fault
  /\ walk' = [walk EXCEPT !.at = "count"]
  /\ UNCHANGED <<rows, puts, stage, given, req, reply, answer, drawn, changes>>

-----------------------------------------------------------------------------
ClientStep(c) ==
  \/ GetUploadURL(c) \/ Upload(c)
  \/ Submit(c) \/ Check(c) \/ Insert(c) \/ Retry(c)
  \/ GetTaskStatus(c) \/ CancelTask(c)

ListStep == StartWalk \/ CountTasks \/ FindTasks \/ ListFails

Next ==
  \/ \E c \in Clients : ClientStep(c)
  \/ \E i \in Ids : Save(i)
  \/ ListStep

Spec == Init /\ [][Next]_vars

-----------------------------------------------------------------------------
TypeOK ==
  /\ \A i \in Ids :
       /\ rows[i].owner \in Clients \cup {Nobody}
       /\ rows[i].status \in {"absent", "pending", "processing", "success", "failed", "cancelled"}
       /\ rows[i].created \in Times \cup {0}
       /\ i \in Rows => i \in NamedIds \cup drawn /\ rows[i].owner \in Clients
  /\ stage \in [Clients -> {"start", "given", "uploaded", "check", "insert", "told", "end"}]
  /\ \A c \in Clients :
       /\ reply[c] \in {"none", "ok", "already_exists", "invalid_argument", "internal"}
       /\ stage[c] \in {"check", "insert", "told"} => req[c].id \in Ids
  /\ walk.seen \subseteq Rows /\ walk.start \subseteq Rows
  /\ walk.page \in Nat
  /\ walk.stop = "empty" \/ walk.size >= 1 => walk.page <= Cardinality(Ids) + 1
  /\ faults \in 0..MaxFaults /\ changes \in 0..MaxChanges

(* Answers of SubmitTask are true for good, however requests for one id    *)
(* race, fail and are retried: ok means that this client's task was        *)
(* created, so it is said once per id; already_exists means that somebody  *)
(* created it.  Whoever was told so finds the task with GetTaskStatus and  *)
(* CancelTask: the error of a missing task means there that the database   *)
(* failed.                                                                 *)
AnswersAreTrue ==
  \A c \in Clients :
    /\ reply[c] = "ok" => rows[req[c].id].owner = c
    /\ reply[c] = "already_exists" => req[c].id \in Rows
    /\ /\ reply[c] \in {"ok", "already_exists"}
       /\ answer[c].id = req[c].id
       /\ answer[c].status = "internal"
       => answer[c].failed

(* A client that lets the server choose the id has the object under its    *)
(* upload URL to itself, whatever files others upload under the same name, *)
(* until a task with that id or that source is in the list.  From then on  *)
(* those can replace it who ask for an URL of that very id, and nobody     *)
(* else.                                                                   *)
OwnSource ==
  \A c \in Clients : \A p \in puts :
    /\ p.key = given[c].key
    /\ p.by # c
    /\ ~ given[c].asked
    => given[p.by].asked /\ given[p.by].id = given[c].id /\ given[c].id \in Listed

(* A client that pages through ListTasks until a page is empty has seen    *)
(* every task there was at the start, while others are submitted with      *)
(* whatever created_at, and whatever page size it asked for; one that goes *)
(* by the total has if no task is submitted and its page size is in range. *)
(* Two things spoil it: tasks with the same created_at, and a worker that  *)
(* saves a task, which moves it to the end of the list.                    *)
Distinct(i) == \A j \in Rows \ {i} : rows[j].created # rows[i].created

WalkSeesEveryTask ==
  walk.at = "end" /\ ~ walk.moved
    /\ (walk.stop = "total" => ~ walk.grown /\ walk.size \in 1..MaxPageSize)
    => {i \in walk.start : Distinct(i)} \subseteq walk.seen

(* An answer of GetTaskStatus has playback URLs exactly when it says       *)
(* success, although cancellations keep the output in the row.             *)
UrlsMeanSuccess == \A c \in Clients : answer[c].urls <=> answer[c].status = "success"
=============================================================================
