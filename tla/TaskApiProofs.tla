--------------------------- MODULE TaskApiProofs ---------------------------
(***************************************************************************)
(* Proofs about TaskApi, for any number of clients, ids, files, retries    *)
(* and failed calls: what SubmitTask answers stays true, and what is       *)
(* uploaded under a generated id is its client's until a list shows it.    *)
(***************************************************************************)
EXTENDS TaskApi, FiniteSetTheorems, TLAPS

Keys == {NoKey} \cup {KeyOf(i, name) : i \in Ids, name \in FileNames}
Statuses == {"absent", "pending", "processing", "success", "failed", "cancelled"}

Row == [owner : Clients \cup {Nobody}, source : Keys, status : Statuses,
        created : Int, output : BOOLEAN]
UrlType == [id : Ids \cup {NoId}, key : Keys, asked : BOOLEAN]
AnswerType == [id : Ids \cup {NoId}, status : Statuses \cup {"none", "invalid_argument", "internal"},
               urls : BOOLEAN, failed : BOOLEAN]

\* Shapes only; TypeOK of TaskApi has the rest.
Shapes ==
  /\ rows \in [Ids -> Row]
  /\ puts \subseteq [key : Keys, by : Clients]
  /\ stage \in [Clients -> {"start", "given", "uploaded", "check", "insert", "told", "end"}]
  /\ given \in [Clients -> UrlType]
  /\ req \in [Clients -> [id : Ids \cup {NoId}, key : Keys, fresh : BOOLEAN]]
  /\ reply \in [Clients -> {"none", "ok", "already_exists", "invalid_argument", "internal"}]
  /\ answer \in [Clients -> AnswerType]

-----------------------------------------------------------------------------
(* A step leaves most of the variables alone, or changes them in one of a  *)
(* few ways.                                                               *)

\* A task is inserted once, and what is in the table stays there.
RowStep ==
  \A i \in Ids :
    \/ rows'[i] = rows[i]
    \/ /\ rows[i].status = "absent"
       /\ \E c \in Clients :
            /\ stage[c] = "insert" /\ req[c].id = i
            /\ rows'[i].owner = c /\ rows'[i].source = req[c].key
            /\ rows'[i].status # "absent"
    \/ /\ rows[i].status # "absent" /\ rows'[i].status # "absent"
       /\ rows'[i].owner = rows[i].owner /\ rows'[i].source = rows[i].source

LEMMA InitShapes == Init => Shapes
BY ApiAssumption DEF Init, Shapes, Row, NoRow, NoUrl, NoAnswer, UrlType, AnswerType, Keys, Statuses

LEMMA FreshIds == Fresh \subseteq Ids /\ Fresh \cap (NamedIds \cup drawn) = {}
BY DEF Fresh

LEMMA KnownShapes ==
  ASSUME Shapes, NEW c \in Clients
  PROVE  KnownIds(c) \subseteq Ids /\ KnownKeys(c) \subseteq Keys
<1>1. Rows \subseteq Ids /\ Listed \subseteq Ids /\ NamedIds \subseteq Ids
      BY ApiAssumption DEF Rows, Listed
<1>2. given[c].id \in Ids \cup {NoId} /\ req[c].id \in Ids \cup {NoId} /\ given[c].key \in Keys
      BY DEF Shapes, UrlType
<1>3. \A j \in Rows : rows[j].source \in Keys
      BY <1>1 DEF Shapes, Row
<1>4. KnownIds(c) \subseteq Ids
      BY <1>1, <1>2 DEF KnownIds
<1>5. KnownKeys(c) \subseteq Keys
      BY <1>1, <1>2, <1>3 DEF KnownKeys, Keys
<1>6. QED
      BY <1>4, <1>5

LEMMA AddRowShape ==
  ASSUME Shapes, NEW c \in Clients, req[c].id \in Ids, stage[c] = "insert", AddRow(c)
  PROVE  /\ rows' \in [Ids -> Row]
         /\ RowStep
         /\ rows'[req[c].id].owner = c
<1>1. PICK time \in Times :
        rows' = [rows EXCEPT ![req[c].id] =
                   [owner |-> c, source |-> req[c].key, status |-> "pending",
                    created |-> time, output |-> FALSE]]
      BY DEF AddRow
<1>2. time \in Int /\ req[c].key \in Keys
      BY ApiAssumption DEF Shapes
<1>3. rows[req[c].id].status = "absent"
      BY DEF AddRow, IndexAllows
<1>4. QED
      BY <1>1, <1>2, <1>3 DEF Shapes, Row, RowStep, Statuses

-----------------------------------------------------------------------------
(* Answers *)

\* Where a request may be, and what has been said so far.
Progress(c) ==
  /\ stage[c] \in {"check", "insert", "told"} => req[c].id \in Ids
  /\ stage[c] \in {"start", "given", "uploaded"} => reply[c] = "none"
  /\ stage[c] \in {"check", "insert"} => reply[c] \notin {"ok", "already_exists"}
  /\ reply[c] \in {"ok", "already_exists"} => req[c].id \in Ids
  /\ stage[c] # "end" => answer[c] = NoAnswer

Promise(c) ==
  /\ reply[c] = "ok" => rows[req[c].id].owner = c
  /\ reply[c] = "already_exists" => rows[req[c].id].status # "absent"
  /\ reply[c] \in {"ok", "already_exists"} /\ answer[c].id = req[c].id /\ answer[c].status = "internal"
       => answer[c].failed

OwnedIsThere == \A i \in Ids : rows[i].owner # Nobody <=> rows[i].status # "absent"

AnswerInv ==
  /\ Shapes
  /\ OwnedIsThere
  /\ \A c \in Clients : Progress(c) /\ Promise(c)

LEMMA AnswerInit == Init => AnswerInv
<1> SUFFICES ASSUME Init
             PROVE  AnswerInv
    OBVIOUS
<1>1. Shapes
      BY InitShapes
<1>2. OwnedIsThere
      BY DEF Init, OwnedIsThere, NoRow
<1>3. \A c \in Clients : Progress(c) /\ Promise(c)
      BY DEF Init, Progress, Promise, NoAnswer
<1>4. QED
      BY <1>1, <1>2, <1>3 DEF AnswerInv

\* The table only grows; then whatever is said of another client stays true.
LEMMA RowsGrow ==
  ASSUME AnswerInv, RowStep
  PROVE  /\ OwnedIsThere'
         /\ \A i \in Ids : rows[i].status # "absent" =>
              rows'[i].status # "absent" /\ rows'[i].owner = rows[i].owner
BY ApiAssumption DEF AnswerInv, OwnedIsThere, RowStep

LEMMA OthersKept ==
  ASSUME AnswerInv, RowStep, NEW d \in Clients,
         stage'[d] = stage[d], given'[d] = given[d], req'[d] = req[d],
         reply'[d] = reply[d], answer'[d] = answer[d]
  PROVE  Progress(d)' /\ Promise(d)'
<1>1. Progress(d)'
      BY DEF AnswerInv, Progress
<1>2. Promise(d) /\ Progress(d)
      BY DEF AnswerInv
<1>3. d # Nobody
      BY ApiAssumption
<1>4. CASE reply[d] \in {"ok", "already_exists"}
  <2>1. req[d].id \in Ids
        BY <1>2, <1>4 DEF Progress
  <2>2. rows[req[d].id].status # "absent"
        BY <1>2, <1>3, <1>4, <2>1 DEF Promise, AnswerInv, OwnedIsThere
  <2>3. QED
        BY <1>1, <1>2, <2>1, <2>2, RowsGrow DEF Promise
<1>5. CASE reply[d] \notin {"ok", "already_exists"}
      BY <1>1, <1>5 DEF Promise
<1>6. QED
      BY <1>1, <1>4, <1>5

LEMMA RowReplaced ==
  ASSUME Shapes, NEW i \in Rows, NEW r \in Row, rows' = [rows EXCEPT ![i] = r],
         r.owner = rows[i].owner, r.source = rows[i].source, r.status # "absent"
  PROVE  rows' \in [Ids -> Row] /\ RowStep
<1>1. i \in Ids /\ rows[i].status # "absent" /\ rows \in [Ids -> Row]
      BY DEF Rows, Shapes
<1>2. QED
      BY <1>1 DEF RowStep

LEMMA CancelRows ==
  ASSUME Shapes, NEW c \in Clients, CancelTask(c)
  PROVE  rows' \in [Ids -> Row] /\ RowStep
<1>1. CASE UNCHANGED rows
      BY <1>1 DEF Shapes, RowStep
<1>2. ASSUME NEW i \in Ids, Cancel(i)
      PROVE  rows' \in [Ids -> Row] /\ RowStep
  <2> DEFINE r == [rows[i] EXCEPT !.status = "cancelled"]
  <2>1. i \in Rows /\ rows' = [rows EXCEPT ![i] = r]
        BY <1>2 DEF Cancel, RowFound
  <2>2. rows[i] \in Row
        BY DEF Shapes
  <2>3. r \in Row /\ r.owner = rows[i].owner /\ r.source = rows[i].source /\ r.status # "absent"
        BY <2>2 DEF Row, Statuses
  <2> HIDE DEF r
  <2>4. QED
        BY <2>1, <2>3, RowReplaced
<1>3. QED
      BY <1>1, <1>2, KnownShapes DEF CancelTask

LEMMA CancelAnswer ==
  ASSUME Shapes, NEW c \in Clients, CancelTask(c)
  PROVE  \E a \in AnswerType :
           /\ answer' = [answer EXCEPT ![c] = a]
           /\ a.status = "internal" => a.failed \/ a.id \notin Rows
<1>1. ASSUME NEW id \in Ids \cup {NoId}, NEW code \in {"invalid_argument", "cancelled", "internal"},
             Answer(c, id, code), code = "internal" => id \notin Rows
      PROVE  \E a \in AnswerType :
               /\ answer' = [answer EXCEPT ![c] = a]
               /\ a.status = "internal" => a.failed \/ a.id \notin Rows
  <2> DEFINE a == [id |-> id, status |-> code, urls |-> FALSE, failed |-> FALSE]
  <2>1. a \in AnswerType /\ answer' = [answer EXCEPT ![c] = a]
        BY <1>1 DEF Answer, AnswerType, Statuses
  <2>2. a.status = "internal" => a.id \notin Rows
        BY <1>1
  <2>3. QED
        BY <2>1, <2>2
<1>2. ASSUME NEW id \in Ids, Failed(c, id)
      PROVE  \E a \in AnswerType : answer' = [answer EXCEPT ![c] = a] /\ a.failed
  <2> DEFINE a == [id |-> id, status |-> "internal", urls |-> FALSE, failed |-> TRUE]
  <2>1. a \in AnswerType /\ answer' = [answer EXCEPT ![c] = a] /\ a.failed
        BY <1>2 DEF Failed, AnswerType
  <2>2. QED
        BY <2>1
<1>3. KnownIds(c) \subseteq Ids
      BY KnownShapes
<1>4. QED
      BY <1>1, <1>2, <1>3 DEF CancelTask, RowFound

LEMMA StatusAnswer ==
  ASSUME Shapes, NEW c \in Clients, req[c].id \in Ids, GetTaskStatus(c)
  PROVE  \E a \in AnswerType :
           /\ answer' = [answer EXCEPT ![c] = a]
           /\ a.id = req[c].id /\ a.status = "internal" => a.failed \/ req[c].id \notin Rows
<1> DEFINE id == req[c].id
           Goal(a) == /\ answer' = [answer EXCEPT ![c] = a]
                      /\ a.id = id /\ a.status = "internal" => a.failed \/ id \notin Rows
<1>1. CASE Answer(c, NoId, "invalid_argument")
  <2> DEFINE a == [id |-> NoId, status |-> "invalid_argument", urls |-> FALSE, failed |-> FALSE]
  <2>1. a \in AnswerType /\ Goal(a)
        BY <1>1 DEF Answer, AnswerType
  <2>2. QED
        BY <2>1
<1>2. CASE Failed(c, id)
  <2> DEFINE a == [id |-> id, status |-> "internal", urls |-> FALSE, failed |-> TRUE]
  <2>1. a \in AnswerType /\ Goal(a)
        BY <1>2 DEF Failed, AnswerType
  <2>2. QED
        BY <2>1
<1>3. CASE id \notin Rows /\ Answer(c, id, "internal")
  <2> DEFINE a == [id |-> id, status |-> "internal", urls |-> FALSE, failed |-> FALSE]
  <2>1. a \in AnswerType /\ Goal(a)
        BY <1>3 DEF Answer, AnswerType
  <2>2. QED
        BY <2>1
<1>4. CASE id \in Rows /\ answer' = [answer EXCEPT ![c] =
             [id |-> id, status |-> rows[id].status, urls |-> Urls(id), failed |-> FALSE]]
  <2>1. rows[id].status \in Statuses /\ Urls(id) \in BOOLEAN
        BY <1>4 DEF Shapes, Row, Rows, Urls
  <2> DEFINE a == [id |-> id, status |-> rows[id].status, urls |-> Urls(id), failed |-> FALSE]
  <2>2. a \in AnswerType
        BY <2>1 DEF AnswerType
  <2>3. a.status # "internal"
        BY <2>1 DEF Statuses
  <2>4. QED
        BY <1>4, <2>2, <2>3
<1>5. QED
      BY <1>1, <1>2, <1>3, <1>4 DEF GetTaskStatus

\* A step of client c alone: everybody else's part stays.
LEMMA ClientAnswer ==
  ASSUME AnswerInv, NEW c \in Clients, ClientStep(c)
  PROVE  AnswerInv'
<1> DEFINE Own == Progress(c)' /\ Promise(c)'
           Others == \A d \in Clients \ {c} :
                       /\ stage'[d] = stage[d] /\ given'[d] = given[d] /\ req'[d] = req[d]
                       /\ reply'[d] = reply[d] /\ answer'[d] = answer[d]
<1>1. SUFFICES Shapes' /\ RowStep /\ Own /\ Others
  <2>1. ASSUME Shapes', RowStep, Own, Others
        PROVE  AnswerInv'
    <3>1. \A d \in Clients \ {c} : Progress(d)' /\ Promise(d)'
          BY <2>1, OthersKept
    <3>2. QED
          BY <2>1, <3>1, RowsGrow DEF AnswerInv
  <2>2. QED
        BY <2>1
<1>2. Shapes /\ OwnedIsThere /\ Progress(c) /\ Promise(c) /\ NoId \notin Ids /\ Nobody # c
      BY ApiAssumption DEF AnswerInv
<1>3. CASE GetUploadURL(c)
  <2>1. PICK u \in UrlType : given' = [given EXCEPT ![c] = u]
    <3>1. PICK id \in Ids, name \in FileNames, asked \in BOOLEAN :
            given' = [given EXCEPT ![c] = [id |-> id, key |-> KeyOf(id, name), asked |-> asked]]
          BY <1>2, <1>3, FreshIds, KnownShapes DEF GetUploadURL
    <3>2. [id |-> id, key |-> KeyOf(id, name), asked |-> asked] \in UrlType
          BY DEF UrlType, Keys
    <3>3. QED
          BY <3>1, <3>2
  <2>2. Shapes' /\ RowStep /\ Others
        BY <1>2, <1>3, <2>1 DEF GetUploadURL, Goto, Shapes, RowStep
  <2>3. Own
        BY <1>2, <1>3 DEF GetUploadURL, Goto, Shapes, Progress, Promise
  <2>4. QED
        BY <2>2, <2>3
<1>4. CASE Upload(c)
  <2>1. given[c].key \in Keys
        BY <1>2 DEF Shapes, UrlType
  <2>2. Shapes' /\ RowStep /\ Others
        BY <1>2, <1>4, <2>1 DEF Upload, Goto, Shapes, RowStep
  <2>3. Own
        BY <1>2, <1>4 DEF Upload, Goto, Shapes, Progress, Promise
  <2>4. QED
        BY <2>2, <2>3
<1>5. CASE Submit(c)
  <2>1. CASE Reply(c, "invalid_argument") /\ Goto(c, "end") /\ UNCHANGED <<req, drawn>>
    <3>1. Shapes' /\ RowStep /\ Others
          BY <1>2, <1>5, <2>1 DEF Submit, Goto, Reply, Shapes, RowStep
    <3>2. Own
          BY <1>2, <1>5, <2>1 DEF Submit, Goto, Reply, Shapes, Progress, Promise
    <3>3. QED
          BY <3>1, <3>2
  <2>2. ASSUME NEW id \in Ids, NEW key \in Keys, NEW fresh \in BOOLEAN,
               req' = [req EXCEPT ![c] = [id |-> id, key |-> key, fresh |-> fresh]],
               Goto(c, "check"), UNCHANGED reply
        PROVE  Shapes' /\ RowStep /\ Own /\ Others
    <3>1. Shapes' /\ RowStep /\ Others
          BY <1>2, <1>5, <2>2 DEF Submit, Goto, Shapes, RowStep
    <3>2. Own
          BY <1>2, <1>5, <2>2 DEF Submit, Goto, Shapes, Progress, Promise
    <3>3. QED
          BY <3>1, <3>2
  <2>3. QED
        BY <1>2, <1>5, <2>1, <2>2, FreshIds, KnownShapes DEF Submit
<1>6. CASE Check(c)
  <2>1. Shapes' /\ RowStep /\ Others
        BY <1>2, <1>6 DEF Check, Goto, Reply, Shapes, RowStep
  <2>2. Own
        BY <1>2, <1>6 DEF Check, Goto, Reply, Shapes, Progress, Promise, Rows, NoAnswer
  <2>3. QED
        BY <2>1, <2>2
<1>7. CASE Insert(c)
  <2>1. req[c].id \in Ids /\ stage[c] = "insert"
        BY <1>2, <1>7 DEF Insert, Progress
  <2>2. CASE AddRow(c)
    <3>1. Reply(c, "ok") \/ Reply(c, "internal")
          BY <1>7 DEF Insert
    <3>2. Shapes' /\ RowStep /\ Others
          BY <1>2, <1>7, <2>1, <2>2, <3>1, AddRowShape DEF Insert, Goto, Reply, Shapes
    <3>3. rows'[req[c].id].owner = c
          BY <1>2, <2>1, <2>2, AddRowShape
    <3>4. Own
          BY <1>2, <1>7, <2>1, <3>1, <3>3 DEF Insert, Goto, Reply, Shapes, Progress, Promise, NoAnswer
    <3>5. QED
          BY <3>2, <3>4
  <2>3. CASE Reply(c, "internal") /\ UNCHANGED rows
    <3>1. Shapes' /\ RowStep /\ Others
          BY <1>2, <1>7, <2>3 DEF Insert, Goto, Reply, Shapes, RowStep
    <3>2. Own
          BY <1>2, <1>7, <2>1, <2>3 DEF Insert, Goto, Reply, Shapes, Progress, Promise
    <3>3. QED
          BY <3>1, <3>2
  <2>4. QED
        BY <1>7, <2>2, <2>3 DEF Insert
<1>8. CASE Retry(c)
  <2>1. PICK id \in Ids : req' = [req EXCEPT ![c].id = id]
    <3>1. CASE req[c].fresh
          BY <1>8, <3>1, FreshIds DEF Retry
    <3>2. CASE ~ req[c].fresh
      <4>1. req' = [req EXCEPT ![c].id = req[c].id] /\ req[c].id \in Ids
            BY <1>2, <1>8, <3>2 DEF Retry, Shapes, Progress
      <4>2. QED
            BY <4>1
    <3>3. QED
          BY <3>1, <3>2
  <2>2. Shapes' /\ RowStep /\ Others
        BY <1>2, <1>8, <2>1 DEF Retry, Goto, Shapes, RowStep
  <2>3. Own
        BY <1>2, <1>8, <2>1 DEF Retry, Goto, Shapes, Progress, Promise
  <2>4. QED
        BY <2>2, <2>3
<1>9. CASE GetTaskStatus(c)
  <2>1. req[c].id \in Ids /\ reply[c] \in {"ok", "already_exists"} => req[c].id \in Rows
        BY <1>2 DEF Promise, Rows, OwnedIsThere
  <2>2. req[c].id \in Ids
        BY <1>2, <1>9 DEF GetTaskStatus, Progress
  <2>3. PICK a \in AnswerType :
          /\ answer' = [answer EXCEPT ![c] = a]
          /\ a.id = req[c].id /\ a.status = "internal" => a.failed \/ req[c].id \notin Rows
        BY <1>2, <1>9, <2>2, StatusAnswer DEF Shapes
  <2>4. Shapes' /\ RowStep /\ Others
        BY <1>2, <1>9, <2>3 DEF GetTaskStatus, Goto, Shapes, RowStep
  <2>5. Own
        BY <1>2, <1>9, <2>1, <2>3 DEF GetTaskStatus, Goto, Shapes, Progress, Promise
  <2>6. QED
        BY <2>4, <2>5
<1>10. CASE CancelTask(c)
  <2>1. req[c].id \in Ids /\ reply[c] \in {"ok", "already_exists"} => req[c].id \in Rows
        BY <1>2 DEF Promise, Rows, OwnedIsThere
  <2>2. PICK a \in AnswerType :
          /\ answer' = [answer EXCEPT ![c] = a]
          /\ a.status = "internal" => a.failed \/ a.id \notin Rows
        BY <1>2, <1>10, CancelAnswer DEF Shapes
  <2>3. rows' \in [Ids -> Row] /\ RowStep
        BY <1>2, <1>10, CancelRows
  <2>4. Shapes' /\ Others
        BY <1>2, <1>10, <2>2, <2>3 DEF CancelTask, Goto, Shapes
  <2>5. \A i \in Ids : rows[i].status # "absent" => rows'[i].status # "absent" /\ rows'[i].owner = rows[i].owner
        BY <2>3, RowsGrow
  <2>6. Own
        BY <1>2, <1>10, <2>1, <2>2, <2>5 DEF CancelTask, Goto, Shapes, Progress, Promise, OwnedIsThere
  <2>7. QED
        BY <2>3, <2>4, <2>6
<1>11. QED
      BY <1>3, <1>4, <1>5, <1>6, <1>7, <1>8, <1>9, <1>10 DEF ClientStep

\* Workers and the list touch no client.
LEMMA OtherSteps ==
  ASSUME Shapes, ListStep \/ \E i \in Ids : Save(i)
  PROVE  Shapes' /\ RowStep /\ UNCHANGED <<puts, stage, given, req, reply, answer, drawn>>
<1>1. CASE ListStep
      BY <1>1 DEF ListStep, StartWalk, CountTasks, FindTasks, ListFails, Shapes, RowStep
<1>2. ASSUME NEW i \in Ids, Save(i)
      PROVE  Shapes' /\ RowStep /\ UNCHANGED <<puts, stage, given, req, reply, answer, drawn>>
  <2>1. i \in Rows /\ UNCHANGED <<puts, stage, given, req, reply, answer, drawn>>
        BY <1>2 DEF Save
  <2>2. rows[i] \in Row
        BY DEF Shapes
  <2>3. PICK status \in {"processing", "success", "failed"} :
          rows' = [rows EXCEPT ![i] = [@ EXCEPT !.status = status, !.created = 0,
                                                !.output = status = "success"]]
        BY <1>2 DEF Save
  <2> DEFINE o == status = "success"
             moved == [rows[i] EXCEPT !.status = status]
             started == [moved EXCEPT !.created = 0]
             r == [started EXCEPT !.output = o]
  <2>4. rows' = [rows EXCEPT ![i] = r] /\ status \in {"processing", "success", "failed"}
        BY <2>3
  <2>5. o \in BOOLEAN
        OBVIOUS
  <2> HIDE DEF o, r
  <2>6. /\ moved \in Row /\ moved.owner = rows[i].owner /\ moved.source = rows[i].source
        /\ moved.status # "absent"
        BY <2>2, <2>4 DEF Row, Statuses
  <2> HIDE DEF moved
  <2>7. /\ started \in Row /\ started.owner = rows[i].owner /\ started.source = rows[i].source
        /\ started.status # "absent"
        BY <2>6 DEF Row
  <2> HIDE DEF started
  <2>8. r \in Row /\ r.owner = rows[i].owner /\ r.source = rows[i].source /\ r.status # "absent"
        BY <2>5, <2>7 DEF Row, r
  <2>9. rows' \in [Ids -> Row] /\ RowStep
        BY <2>1, <2>4, <2>8, RowReplaced
  <2>10. QED
        BY <2>1, <2>9 DEF Shapes
<1>3. QED
      BY <1>1, <1>2

LEMMA OtherAnswer ==
  ASSUME AnswerInv, ListStep \/ \E i \in Ids : Save(i)
  PROVE  AnswerInv'
<1>1. Shapes' /\ RowStep /\ UNCHANGED <<stage, given, req, reply, answer>>
      BY OtherSteps DEF AnswerInv
<1>2. \A d \in Clients : Progress(d)' /\ Promise(d)'
      BY <1>1, OthersKept
<1>3. QED
      BY <1>1, <1>2, RowsGrow DEF AnswerInv

LEMMA AnswerStep == AnswerInv /\ [Next]_vars => AnswerInv'
<1> SUFFICES ASSUME AnswerInv, [Next]_vars
             PROVE  AnswerInv'
    OBVIOUS
<1>1. CASE UNCHANGED vars
  <2>1. Shapes' /\ OwnedIsThere'
        BY <1>1 DEF vars, AnswerInv, Shapes, OwnedIsThere
  <2>2. \A d \in Clients : Progress(d)' /\ Promise(d)'
        BY <1>1 DEF vars, AnswerInv, Progress, Promise
  <2>3. QED
        BY <2>1, <2>2 DEF AnswerInv
<1>2. CASE Next
      BY <1>2, ClientAnswer, OtherAnswer DEF Next
<1>3. QED
      BY <1>1, <1>2

\* What SubmitTask said stays true, however requests for one id race, fail
\* and are retried: ok is said to the client whose task was created, and
\* whoever was told that a task exists finds it afterwards, unless the
\* database fails when it looks.
THEOREM AnswersStayTrue == Spec => []AnswersAreTrue
<1>1. AnswerInv => AnswersAreTrue
  <2> SUFFICES ASSUME AnswerInv, NEW c \in Clients
               PROVE  /\ reply[c] = "ok" => rows[req[c].id].owner = c
                      /\ reply[c] = "already_exists" => req[c].id \in Rows
                      /\ /\ reply[c] \in {"ok", "already_exists"}
                         /\ answer[c].id = req[c].id
                         /\ answer[c].status = "internal"
                         => answer[c].failed
      BY DEF AnswersAreTrue
  <2>1. Progress(c) /\ Promise(c)
        BY DEF AnswerInv
  <2>2. QED
        BY <2>1 DEF Progress, Promise, Rows
<1>2. QED
      BY <1>1, AnswerInit, AnswerStep, PTL DEF Spec

-----------------------------------------------------------------------------
(* Sources *)

\* ids and keys that have come up
Ours == NamedIds \cup drawn
Traced(S, key) == \E i \in S, name \in FileNames : key = KeyOf(i, name)

\* c was given an URL.
HasUrl(c) ==
  /\ given[c].id \in Ours
  /\ \E name \in FileNames : given[c].key = KeyOf(given[c].id, name)

ClientSource(c) ==
  /\ given[c] = NoUrl \/ HasUrl(c)
  /\ stage[c] = "start" => given[c] = NoUrl /\ req[c].id = NoId
  /\ given[c].id \in NamedIds => given[c].asked
  /\ stage[c] = "given" => HasUrl(c)
  /\ req[c].id = NoId \/ req[c].id \in Ours
  /\ stage[c] \in {"check", "insert", "told"} => Traced(Ours, req[c].key)

RowsTraced == \A i \in Rows : i \in Ours /\ Traced(Ours, rows[i].source)

PutsOwned == \A p \in puts : HasUrl(p.by) /\ p.key = given[p.by].key

\* The id of a client that let the server choose is another's only by name, and
\* only once it is listed.
IdsApart ==
  \A c, d \in Clients :
    given[c].id \in Ids /\ ~ given[c].asked /\ given[d].id = given[c].id /\ c # d
      => given[d].asked /\ given[c].id \in Listed

SourceInv ==
  /\ AnswerInv
  /\ drawn \subseteq Ids
  /\ RowsTraced
  /\ \A c \in Clients : ClientSource(c)
  /\ IdsApart /\ PutsOwned

LEMMA SourceInit == Init => SourceInv
<1> SUFFICES ASSUME Init
             PROVE  SourceInv
    OBVIOUS
<1>1. AnswerInv /\ drawn \subseteq Ids /\ NoId \notin Ids
      BY AnswerInit, ApiAssumption DEF Init
<1>2. \A c \in Clients : ClientSource(c)
      BY <1>1, ApiAssumption DEF Init, ClientSource, NoUrl
<1>3. IdsApart /\ PutsOwned /\ RowsTraced
      BY <1>1 DEF Init, IdsApart, PutsOwned, RowsTraced, Rows, NoRow, NoUrl
<1>4. QED
      BY <1>1, <1>2, <1>3 DEF SourceInv

\* What has come up stays, and a new row has the id and the key of a request.
LEMMA TracesKept ==
  ASSUME SourceInv, RowStep, Shapes', drawn \subseteq drawn'
  PROVE  /\ Ours \subseteq Ours' /\ Listed \subseteq Listed'
         /\ \A key : Traced(Ours, key) => Traced(Ours', key)
         /\ RowsTraced'
<1>1. Ours \subseteq Ours'
      BY DEF Ours
<1>2. \A key : Traced(Ours, key) => Traced(Ours', key)
      BY <1>1 DEF Traced, KeyOf
<1>3. \A i \in Rows : i \in Rows' /\ rows'[i].source = rows[i].source
      BY DEF Rows, RowStep
<1>4. Listed \subseteq Listed'
      BY <1>3 DEF Listed
<1>5. ASSUME NEW i \in Rows'
      PROVE  i \in Ours' /\ Traced(Ours', rows'[i].source)
  <2>1. CASE i \in Rows
    <3>1. i \in Ours /\ Traced(Ours, rows[i].source)
          BY <2>1 DEF SourceInv, RowsTraced
    <3>2. QED
          BY <1>1, <1>2, <1>3, <2>1, <3>1
  <2>2. CASE i \notin Rows
    <3>1. i \in Ids /\ rows[i].status = "absent" /\ rows'[i].status # "absent"
          BY <1>5, <2>2 DEF Rows
    <3>2. PICK c \in Clients : stage[c] = "insert" /\ req[c].id = i /\ rows'[i].source = req[c].key
          BY <3>1 DEF RowStep
    <3>3. i \in Ours /\ Traced(Ours, req[c].key)
          BY <3>1, <3>2, ApiAssumption DEF SourceInv, ClientSource
    <3>4. QED
          BY <1>1, <1>2, <3>2, <3>3
  <2>3. QED
        BY <2>1, <2>2
<1>6. RowsTraced'
      BY <1>5 DEF RowsTraced
<1>7. QED
      BY <1>1, <1>2, <1>4, <1>6

\* What a client can name has come up.
LEMMA KnownTraced ==
  ASSUME SourceInv, NEW c \in Clients
  PROVE  /\ KnownIds(c) \subseteq Ours /\ \A key \in KnownKeys(c) : Traced(Ours, key)
         /\ stage[c] = "start" => KnownIds(c) \subseteq NamedIds \cup Listed
<1>1. /\ ClientSource(c) /\ RowsTraced /\ drawn \subseteq Ids /\ NamedIds \subseteq Ids /\ NoId \notin Ids
      BY ApiAssumption DEF SourceInv
<1>2. Listed \subseteq Ours
  <2>1. ASSUME NEW i \in Ids, NEW j \in Rows, NEW name \in FileNames, rows[j].source = KeyOf(i, name)
        PROVE  i \in Ours
        BY <1>1, <2>1 DEF RowsTraced, Traced, KeyOf
  <2>2. QED
        BY <1>1, <2>1 DEF Listed, RowsTraced
<1>3. NamedIds \subseteq Ours
      BY DEF Ours
<1>4. KnownIds(c) \subseteq Ours
      BY <1>1, <1>2, <1>3 DEF KnownIds, ClientSource, HasUrl, NoUrl
<1>5. \A key \in KnownKeys(c) : Traced(Ours, key)
  <2>1. given[c].key = NoKey \/ Traced(Ours, given[c].key)
        BY <1>1 DEF ClientSource, HasUrl, NoUrl, Traced
  <2>2. QED
        BY <1>1, <1>3, <2>1 DEF KnownKeys, RowsTraced, Traced
<1>6. stage[c] = "start" => KnownIds(c) \subseteq NamedIds \cup Listed
      BY <1>1 DEF ClientSource, KnownIds, NoUrl
<1>7. QED
      BY <1>4, <1>5, <1>6

\* The rows of a client's step, from ClientAnswer's cases.
LEMMA ClientRows ==
  ASSUME AnswerInv, NEW c \in Clients, ClientStep(c)
  PROVE  RowStep
<1>1. Shapes /\ Progress(c)
      BY DEF AnswerInv
<1>2. CASE Insert(c)
  <2>1. req[c].id \in Ids /\ stage[c] = "insert"
        BY <1>1, <1>2 DEF Insert, Progress
  <2>2. CASE AddRow(c)
        BY <1>1, <2>1, <2>2, AddRowShape
  <2>3. CASE UNCHANGED rows
        BY <2>3 DEF RowStep
  <2>4. QED
        BY <1>2, <2>2, <2>3 DEF Insert
<1>3. CASE UNCHANGED rows
      BY <1>3 DEF RowStep
<1>4. CASE CancelTask(c)
      BY <1>1, <1>4, CancelRows
<1>5. QED
      BY <1>2, <1>3, <1>4 DEF ClientStep, GetUploadURL, Upload, Submit, Check, Retry, GetTaskStatus

\* uuid.New() gives an id nobody has, and only what is listed can be asked for.
LEMMA UploadUrlSource ==
  ASSUME SourceInv, AnswerInv', RowStep, NEW c \in Clients, GetUploadURL(c)
  PROVE  SourceInv'
<1>1. /\ stage[c] = "start" /\ ClientSource(c) /\ NoId \notin Ids /\ NamedIds \subseteq Ids
      /\ drawn \subseteq Ids /\ given \in [Clients -> UrlType] /\ Shapes /\ Shapes'
      /\ UNCHANGED <<rows, puts, req>>
      BY ApiAssumption DEF GetUploadURL, SourceInv, AnswerInv, Shapes
<1>2. given[c] = NoUrl /\ ~ HasUrl(c)
      BY <1>1 DEF ClientSource, HasUrl, NoUrl, Ours
<1>3. PICK name \in FileNames, id \in Ids, asked \in BOOLEAN :
        /\ given' = [given EXCEPT ![c] = [id |-> id, key |-> KeyOf(id, name), asked |-> asked]]
        /\ asked => id \in NamedIds \cup Listed /\ id \in Ours /\ drawn' = drawn
        /\ ~ asked => id \notin Ours /\ drawn' = drawn \cup {id}
  <2>1. KnownIds(c) \subseteq Ours /\ KnownIds(c) \subseteq NamedIds \cup Listed /\ KnownIds(c) \subseteq Ids
        BY <1>1, KnownTraced, KnownShapes
  <2>2. QED
        BY <2>1, FreshIds DEF GetUploadURL, Ours
<1>4. /\ given'[c] = [id |-> id, key |-> KeyOf(id, name), asked |-> asked]
      /\ \A d \in Clients \ {c} : given'[d] = given[d]
      BY <1>1, <1>3
<1>5. given'[c].id = id /\ given'[c].key = KeyOf(id, name) /\ given'[c].asked = asked
      BY <1>4
<1>6. drawn \subseteq drawn' /\ drawn' \subseteq Ids /\ id \in Ours'
      BY <1>1, <1>3 DEF Ours
<1>7. /\ Ours \subseteq Ours' /\ Listed \subseteq Listed' /\ RowsTraced'
      /\ \A key : Traced(Ours, key) => Traced(Ours', key)
      BY <1>1, <1>6, TracesKept
<1>8. \A d \in Clients \ {c} : ClientSource(d)'
  <2>1. SUFFICES ASSUME NEW d \in Clients \ {c}
                 PROVE  ClientSource(d)'
        OBVIOUS
  <2>2. ClientSource(d) /\ given'[d] = given[d] /\ req'[d] = req[d] /\ stage'[d] = stage[d]
        BY <1>1, <1>4 DEF SourceInv, GetUploadURL, Goto, Shapes
  <2>3. HasUrl(d) => HasUrl(d)'
        BY <1>7, <2>2 DEF HasUrl
  <2>4. QED
        BY <1>7, <2>2, <2>3 DEF ClientSource
<1>9. HasUrl(c)'
      BY <1>5, <1>6 DEF HasUrl
<1>10. ClientSource(c)'
  <2>1. stage'[c] = "given" /\ req'[c] = req[c]
        BY <1>1 DEF GetUploadURL, Goto, Shapes
  <2>2. id \in NamedIds => asked
        BY <1>3 DEF Ours
  <2>3. req'[c].id = NoId
        BY <1>1, <2>1 DEF ClientSource
  <2>4. QED
        BY <1>5, <1>9, <2>1, <2>2, <2>3 DEF ClientSource
<1>11. \A d \in Clients \ {c} : given[d].id = id => asked
  <2>1. \A d \in Clients : given[d].id = NoId \/ given[d].id \in Ours
        BY DEF SourceInv, ClientSource, HasUrl, NoUrl
  <2>2. QED
        BY <1>1, <1>3, <2>1
<1>12. ASSUME NEW a \in Clients, NEW b \in Clients, given'[a].id \in Ids, ~ given'[a].asked,
              given'[b].id = given'[a].id, a # b
       PROVE  given'[b].asked /\ given'[a].id \in Listed'
  <2>1. a # c
        BY <1>4, <1>5, <1>11, <1>12
  <2>2. given'[a] = given[a]
        BY <1>4, <2>1
  <2>3. CASE b = c
    <3>1. asked /\ id = given[a].id
          BY <1>5, <1>11, <1>12, <2>1, <2>2, <2>3
    <3>2. given[a].id \notin NamedIds
          BY <1>12, <2>2 DEF SourceInv, ClientSource
    <3>3. QED
          BY <1>3, <1>5, <1>7, <2>2, <2>3, <3>1, <3>2
  <2>4. CASE b # c
    <3>1. given'[b] = given[b]
          BY <1>4, <2>4
    <3>2. given[b].asked /\ given[a].id \in Listed
          BY <1>12, <2>2, <3>1 DEF SourceInv, IdsApart
    <3>3. QED
          BY <1>7, <2>2, <3>1, <3>2
  <2>5. QED
        BY <2>3, <2>4
<1>13. IdsApart'
       BY <1>12 DEF IdsApart
<1>14. PutsOwned'
  <2>1. SUFFICES ASSUME NEW p \in puts
                 PROVE  HasUrl(p.by)' /\ p.key = given'[p.by].key
        BY <1>1 DEF PutsOwned, HasUrl
  <2>2. p.by \in Clients /\ HasUrl(p.by) /\ p.key = given[p.by].key
        BY <1>1 DEF SourceInv, PutsOwned, Shapes
  <2>3. p.by # c
        BY <1>2, <2>2
  <2>4. QED
        BY <1>4, <1>7, <2>2, <2>3 DEF HasUrl
<1>15. QED
       BY <1>6, <1>7, <1>8, <1>10, <1>13, <1>14 DEF SourceInv

\* Everything else leaves the URLs alone, or draws more ids.
LEMMA SourceKept ==
  ASSUME SourceInv, AnswerInv', RowStep, UNCHANGED given,
         drawn \subseteq drawn', drawn' \subseteq Ids,
         \A p \in puts' \ puts : HasUrl(p.by) /\ p.key = given[p.by].key,
         \A c \in Clients :
           /\ stage'[c] = "start" => stage[c] = "start" /\ req'[c] = req[c]
           /\ stage'[c] = "given" => stage[c] = "given"
           /\ \/ req'[c].id = req[c].id
              \/ req'[c].id \in Ours'
           /\ stage'[c] \in {"check", "insert", "told"} => Traced(Ours', req'[c].key)
  PROVE  SourceInv'
<1>1. /\ Ours \subseteq Ours' /\ Listed \subseteq Listed' /\ RowsTraced'
      BY TracesKept DEF AnswerInv
<1>2. \A c : HasUrl(c) => HasUrl(c)'
      BY <1>1 DEF HasUrl
<1>3. \A c \in Clients : ClientSource(c)'
  <2>1. SUFFICES ASSUME NEW c \in Clients
                 PROVE  ClientSource(c)'
        OBVIOUS
  <2>2. ClientSource(c)
        BY DEF SourceInv
  <2>3. req'[c].id = NoId \/ req'[c].id \in Ours'
        BY <1>1, <2>2 DEF ClientSource
  <2>4. QED
        BY <1>2, <2>2, <2>3 DEF ClientSource
<1>4. PutsOwned'
      BY <1>2 DEF SourceInv, PutsOwned
<1>5. IdsApart'
      BY <1>1 DEF SourceInv, IdsApart
<1>6. QED
      BY <1>1, <1>3, <1>4, <1>5 DEF SourceInv

\* Only the stage and the request of client c matter for the sources.
LEMMA ClientSourceStep ==
  ASSUME SourceInv, NEW c \in Clients, ClientStep(c)
  PROVE  SourceInv'
<1>1. AnswerInv /\ AnswerInv' /\ RowStep
      BY ClientAnswer, ClientRows DEF SourceInv
<1>2. /\ Shapes /\ ClientSource(c) /\ drawn \subseteq Ids
      /\ \A d \in Clients : ClientSource(d)
      BY DEF SourceInv, AnswerInv
<1>3. CASE GetUploadURL(c)
      BY <1>1, <1>3, UploadUrlSource DEF SourceInv
<1> DEFINE Kept(d) ==
      /\ stage'[d] = "start" => stage[d] = "start" /\ req'[d] = req[d]
      /\ stage'[d] = "given" => stage[d] = "given"
      /\ req'[d].id = req[d].id \/ req'[d].id \in Ours'
      /\ stage'[d] \in {"check", "insert", "told"} => Traced(Ours', req'[d].key)
<1>4. ASSUME drawn \subseteq drawn', NEW d \in Clients, stage'[d] = stage[d], req'[d] = req[d]
      PROVE  Kept(d)
  <2>1. \A key : Traced(Ours, key) => Traced(Ours', key)
        BY <1>1, <1>4, TracesKept DEF AnswerInv
  <2>2. QED
        BY <1>2, <1>4, <2>1 DEF ClientSource
<1>5. CASE Upload(c)
  <2>1. HasUrl(c)
        BY <1>2, <1>5 DEF Upload, ClientSource
  <2>2. UNCHANGED <<given, drawn, req>> /\ puts' = puts \cup {[key |-> given[c].key, by |-> c]}
        BY <1>5 DEF Upload
  <2>3. \A p \in puts' \ puts : HasUrl(p.by) /\ p.key = given[p.by].key
        BY <2>1, <2>2
  <2>4. \A d \in Clients \ {c} : Kept(d)
        BY <1>2, <1>4, <1>5, <2>2 DEF Upload, Goto, Shapes
  <2>5. Kept(c)
        BY <1>2, <1>5, <2>2 DEF Upload, Goto, Shapes
  <2>6. QED
        BY <1>1, <1>2, <2>2, <2>3, <2>4, <2>5, SourceKept
<1>6. CASE Submit(c) \/ Check(c) \/ Insert(c) \/ Retry(c) \/ GetTaskStatus(c) \/ CancelTask(c)
  <2>1. UNCHANGED <<given, puts>> /\ drawn \subseteq drawn' /\ drawn' \subseteq Ids
        BY <1>2, <1>6, FreshIds DEF Submit, Check, Insert, Retry, GetTaskStatus, CancelTask
  <2>2. \A d \in Clients \ {c} : stage'[d] = stage[d] /\ req'[d] = req[d]
        BY <1>2, <1>6 DEF Submit, Check, Insert, Retry, GetTaskStatus, CancelTask, Goto, Shapes
  <2>3. \A d \in Clients \ {c} : Kept(d)
        BY <1>4, <2>1, <2>2
  <2>4. Ours \subseteq Ours' /\ \A key : Traced(Ours, key) => Traced(Ours', key)
        BY <1>1, <2>1, TracesKept DEF AnswerInv
  <2>5. CASE Submit(c)
    <3>1. KnownIds(c) \subseteq Ours' /\ \A key \in KnownKeys(c) : Traced(Ours', key)
      <4>1. KnownIds(c) \subseteq Ours /\ \A key \in KnownKeys(c) : Traced(Ours, key)
            BY KnownTraced DEF SourceInv
      <4>2. QED
            BY <2>4, <4>1
    <3>2. ASSUME stage' = [stage EXCEPT ![c] = "end"], UNCHANGED req
          PROVE  Kept(c)
          BY <1>2, <3>2 DEF Shapes
    <3>3. ASSUME NEW key \in KnownKeys(c), NEW id \in Ours', NEW fresh \in BOOLEAN,
                 stage' = [stage EXCEPT ![c] = "check"],
                 req' = [req EXCEPT ![c] = [id |-> id, key |-> key, fresh |-> fresh]]
          PROVE  Kept(c)
          BY <1>2, <3>1, <3>3 DEF Shapes
    <3>4. \/ stage' = [stage EXCEPT ![c] = "end"] /\ UNCHANGED req
          \/ /\ stage' = [stage EXCEPT ![c] = "check"]
             /\ \E key \in KnownKeys(c), id \in Ours', fresh \in BOOLEAN :
                  req' = [req EXCEPT ![c] = [id |-> id, key |-> key, fresh |-> fresh]]
      <4>1. ASSUME NEW key \in KnownKeys(c), NEW id \in Fresh, drawn' = drawn \cup {id}
            PROVE  id \in Ours'
            BY <4>1 DEF Ours
      <4>2. QED
            BY <2>5, <3>1, <4>1 DEF Submit, Goto
    <3>5. Kept(c)
          BY <3>2, <3>3, <3>4
    <3>6. QED
          BY <1>1, <2>1, <2>3, <3>5, SourceKept
  <2>6. CASE Check(c) \/ Insert(c) \/ Retry(c) \/ GetTaskStatus(c) \/ CancelTask(c)
    <3>1. /\ stage[c] \in {"check", "insert", "told"} \/ stage'[c] = "end"
          /\ stage'[c] \in {"check", "insert", "told", "end"}
          BY <1>2, <2>6 DEF Check, Insert, Retry, GetTaskStatus, CancelTask, Goto, Shapes
    <3>2. req'[c].key = req[c].key /\ (req'[c].id = req[c].id \/ req'[c].id \in Ours')
      <4>1. CASE UNCHANGED req
            BY <4>1
      <4>2. CASE \E id \in Fresh : req' = [req EXCEPT ![c].id = id] /\ drawn' = drawn \cup {id}
            BY <1>2, <4>2 DEF Shapes, Ours
      <4>3. QED
            BY <2>6, <4>1, <4>2 DEF Check, Insert, Retry, GetTaskStatus, CancelTask
    <3>3. Kept(c)
          BY <1>2, <2>4, <3>1, <3>2 DEF ClientSource
    <3>4. QED
          BY <1>1, <2>1, <2>3, <3>3, SourceKept
  <2>7. QED
        BY <1>6, <2>5, <2>6
<1>7. QED
      BY <1>3, <1>5, <1>6 DEF ClientStep

LEMMA SourceStep == SourceInv /\ [Next]_vars => SourceInv'
<1> SUFFICES ASSUME SourceInv, [Next]_vars
             PROVE  SourceInv'
    OBVIOUS
<1>1. CASE \E c \in Clients : ClientStep(c)
      BY <1>1, ClientSourceStep
<1>2. ASSUME RowStep, UNCHANGED <<puts, stage, given, req, drawn>>
      PROVE  SourceInv'
  <2>1. AnswerInv'
        BY AnswerStep DEF SourceInv
  <2>2. \A c \in Clients : stage[c] \in {"check", "insert", "told"} => Traced(Ours', req[c].key)
        BY <1>2, <2>1, TracesKept DEF SourceInv, ClientSource, AnswerInv
  <2>3. QED
        BY <1>2, <2>1, <2>2, SourceKept DEF SourceInv
<1>3. CASE ListStep \/ \E i \in Ids : Save(i)
      BY <1>2, <1>3, OtherSteps DEF SourceInv, AnswerInv
<1>4. CASE UNCHANGED vars
      BY <1>2, <1>4 DEF vars, RowStep
<1>5. QED
      BY <1>1, <1>3, <1>4 DEF Next

\* A client that lets the server choose the id has the object under its upload
\* URL to itself until a list shows a task with that id or source; after that
\* only those can put a file there who ask for an URL of that very id.
THEOREM SourcesApart == Spec => []OwnSource
<1>1. SourceInv => OwnSource
  <2> SUFFICES ASSUME SourceInv, NEW c \in Clients, NEW p \in puts,
                      p.key = given[c].key, p.by # c, ~ given[c].asked
               PROVE  given[p.by].asked /\ given[p.by].id = given[c].id /\ given[c].id \in Listed
      BY DEF OwnSource
  <2>1. p.by \in Clients /\ HasUrl(p.by) /\ p.key = given[p.by].key
        BY DEF SourceInv, PutsOwned, AnswerInv, Shapes
  <2>2. PICK name \in FileNames : p.key = KeyOf(given[p.by].id, name)
        BY <2>1 DEF HasUrl
  <2>3. given[p.by].id \in Ids
        BY <2>1, ApiAssumption DEF SourceInv, HasUrl, Ours
  <2>4. given[c].key # NoKey
        BY <2>2, <2>3, ApiAssumption DEF KeyOf
  <2>5. HasUrl(c)
    <3>1. given[c] = NoUrl \/ HasUrl(c)
          BY DEF SourceInv, ClientSource
    <3>2. given[c] # NoUrl
          BY <2>4 DEF NoUrl
    <3>3. QED
          BY <3>1, <3>2
  <2>6. given[p.by].id = given[c].id
    <3>1. PICK n \in FileNames : given[c].key = KeyOf(given[c].id, n)
          BY <2>5 DEF HasUrl
    <3>2. KeyOf(given[p.by].id, name) = KeyOf(given[c].id, n)
          BY <2>2, <3>1
    <3>3. \A i, j, m, k : KeyOf(i, m) = KeyOf(j, k) => i = j
          BY DEF KeyOf
    <3>4. QED
          BY <3>2, <3>3
  <2>7. QED
        BY <2>1, <2>3, <2>6 DEF SourceInv, IdsApart
<1>2. QED
      BY <1>1, SourceInit, SourceStep, PTL DEF Spec

-----------------------------------------------------------------------------
(* Playback URLs *)

\* A successful row has output; a cancelled one may have kept it.
OutputSaved == \A i \in Ids : rows[i].status = "success" => rows[i].output = TRUE

UrlInv == AnswerInv /\ OutputSaved /\ UrlsMeanSuccess

LEMMA OutputStep == AnswerInv /\ OutputSaved /\ [Next]_vars => OutputSaved'
<1> SUFFICES ASSUME AnswerInv, OutputSaved, [Next]_vars
             PROVE  OutputSaved'
    OBVIOUS
<1>1. rows \in [Ids -> Row]
      BY DEF AnswerInv, Shapes
<1>2. CASE UNCHANGED rows
      BY <1>2 DEF OutputSaved
<1>3. ASSUME NEW c \in Clients, AddRow(c)
      PROVE  OutputSaved'
      BY <1>1, <1>3 DEF AddRow, OutputSaved
<1>4. ASSUME NEW i, Cancel(i)
      PROVE  OutputSaved'
  <2>1. i \in Ids
        BY <1>4 DEF Cancel, RowFound, Rows
  <2>2. QED
        BY <1>1, <1>4, <2>1 DEF Cancel, OutputSaved
<1>5. ASSUME NEW i \in Ids, Save(i)
      PROVE  OutputSaved'
  <2>1. PICK status \in {"processing", "success", "failed"} :
          rows' = [rows EXCEPT ![i] = [@ EXCEPT !.status = status, !.created = 0,
                                                !.output = status = "success"]]
        BY <1>5 DEF Save
  <2>2. CASE status = "success"
        BY <1>1, <2>1, <2>2 DEF OutputSaved, Row
  <2>3. CASE status # "success"
        BY <1>1, <2>1, <2>3 DEF OutputSaved, Row
  <2>4. QED
        BY <2>2, <2>3
<1>6. QED
      BY <1>2, <1>3, <1>4, <1>5
      DEF Next, ClientStep, GetUploadURL, Upload, Submit, Check, Insert, Retry, GetTaskStatus,
          CancelTask, ListStep, StartWalk, CountTasks, FindTasks, ListFails, vars

LEMMA UrlStep == UrlInv /\ [Next]_vars => UrlInv'
<1> SUFFICES ASSUME UrlInv, [Next]_vars
             PROVE  UrlInv'
    OBVIOUS
<1>1. AnswerInv' /\ OutputSaved'
      BY AnswerStep, OutputStep DEF UrlInv
<1>2. UrlsMeanSuccess'
  <2>1. CASE UNCHANGED answer
        BY <2>1 DEF UrlInv, UrlsMeanSuccess
  <2>2. ASSUME NEW c \in Clients, GetTaskStatus(c)
        PROVE  UrlsMeanSuccess'
    <3>1. answer \in [Clients -> AnswerType]
          BY DEF UrlInv, AnswerInv, Shapes
    <3>2. \A d \in Clients \ {c} : answer'[d] = answer[d]
          BY <2>2, <3>1 DEF GetTaskStatus, Answer, Failed
    <3>3. answer'[c].urls <=> answer'[c].status = "success"
      <4>1. CASE answer'[c] = [id |-> req[c].id, status |-> rows[req[c].id].status,
                               urls |-> Urls(req[c].id), failed |-> FALSE]
                 /\ req[c].id \in Rows
        <5>1. Urls(req[c].id) <=> rows[req[c].id].status = "success"
              BY <4>1 DEF UrlInv, OutputSaved, Urls, Rows
        <5>2. QED
              BY <4>1, <5>1
      <4>2. CASE Answer(c, NoId, "invalid_argument") \/ Answer(c, req[c].id, "internal")
            BY <3>1, <4>2 DEF Answer
      <4>3. CASE Failed(c, req[c].id)
            BY <3>1, <4>3 DEF Failed
      <4>4. QED
            BY <2>2, <3>1, <4>1, <4>2, <4>3 DEF GetTaskStatus
    <3>4. QED
          BY <3>2, <3>3 DEF UrlInv, UrlsMeanSuccess
  <2>3. ASSUME NEW c \in Clients, CancelTask(c)
        PROVE  UrlsMeanSuccess'
    <3>1. PICK id \in Ids \cup {NoId}, code \in {"invalid_argument", "cancelled", "internal"},
            failed \in BOOLEAN :
            answer' = [answer EXCEPT ![c] = [id |-> id, status |-> code, urls |-> FALSE, failed |-> failed]]
          BY <2>3, KnownShapes DEF CancelTask, Answer, Failed, UrlInv, AnswerInv
    <3>2. answer \in [Clients -> AnswerType]
          BY DEF UrlInv, AnswerInv, Shapes
    <3>3. \A d \in Clients \ {c} : answer'[d] = answer[d]
          BY <3>1, <3>2
    <3>4. answer'[c].urls = FALSE /\ answer'[c].status # "success"
          BY <3>1, <3>2
    <3>5. QED
          BY <3>3, <3>4 DEF UrlInv, UrlsMeanSuccess
  <2>4. QED
        BY <2>1, <2>2, <2>3
        DEF Next, ClientStep, GetUploadURL, Upload, Submit, Check, Insert, Retry, Save,
            ListStep, StartWalk, CountTasks, FindTasks, ListFails, vars
<1>3. QED
      BY <1>1, <1>2 DEF UrlInv

\* Playback URLs come with success and with nothing else, although a
\* cancellation leaves the output in the row.
THEOREM UrlsTrue == Spec => []UrlsMeanSuccess
<1>1. Init => UrlInv
  <2>1. Init => OutputSaved
        BY DEF Init, OutputSaved, NoRow
  <2>2. Init => UrlsMeanSuccess
        BY DEF Init, UrlsMeanSuccess, NoAnswer
  <2>3. QED
        BY <2>1, <2>2, AnswerInit DEF UrlInv
<1>2. QED
      BY <1>1, UrlStep, PTL DEF Spec, UrlInv

-----------------------------------------------------------------------------
(* The walk through the list *)

\* how many tasks are listed before i
Ahead(i) == Cardinality({j \in Rows : rows[j].created > rows[i].created})

LEMMA CountRows ==
  ASSUME NEW S \in SUBSET Rows
  PROVE  /\ IsFiniteSet(S) /\ Cardinality(S) \in Nat
         /\ \A T \in SUBSET S : Cardinality(T) <= Cardinality(S) /\ (Cardinality(T) = Cardinality(S) => T = S)
         /\ \A T \in SUBSET S : IsFiniteSet(T) /\ Cardinality(T) \in Nat
<1>1. IsFiniteSet(S)
  <2>1. S \in SUBSET Ids
        BY DEF Rows
  <2>2. QED
        BY <2>1, FS_Subset, ApiAssumption
<1>2. QED
      BY <1>1, FS_Subset, FS_CardinalityType

\* A task with a time of its own has its place whatever the database does with ties.
LEMMA PlaceOfDistinct ==
  ASSUME Shapes, NEW i \in Rows, Distinct(i), NEW tie \in TieBreakers
  PROVE  Position(i, tie) = Ahead(i)
<1>1. \A j \in Rows : Before(j, i, tie) <=> rows[j].created > rows[i].created
  <2>1. ASSUME NEW j \in Rows
        PROVE  Before(j, i, tie) <=> rows[j].created > rows[i].created
    <3>1. rows[j].created \in Int /\ rows[i].created \in Int
          BY DEF Shapes, Row, Rows
    <3>2. CASE j = i
      <4>1. ~ (rows[i].created > rows[i].created)
            BY <3>1
      <4>2. tie[i] \in 1..Cardinality(Ids)
            BY DEF TieBreakers, Rows
      <4>3. QED
            BY <3>2, <4>1, <4>2 DEF Before
    <3>3. CASE j # i
          BY <3>1, <3>3 DEF Before, Distinct
    <3>4. QED
          BY <3>2, <3>3
  <2>2. QED
        BY <2>1
<1>2. {j \in Rows : Before(j, i, tie)} = {j \in Rows : rows[j].created > rows[i].created}
      BY <1>1
<1>3. QED
      BY <1>2 DEF Position, Ahead

\* Any order the database chooses is a strict total one.
LEMMA OrderIsTotal ==
  ASSUME Shapes, NEW tie \in TieBreakers
  PROVE  /\ \A i \in Rows : ~ Before(i, i, tie)
         /\ \A i, j \in Rows : i # j => Before(i, j, tie) \/ Before(j, i, tie)
         /\ \A i, j, k \in Rows : Before(i, j, tie) /\ Before(j, k, tie) => Before(i, k, tie)
<1>1. \A i \in Rows : i \in Ids /\ rows[i].created \in Int /\ tie[i] \in Int
  <2>1. tie \in [Ids -> 1..Cardinality(Ids)]
        BY DEF TieBreakers
  <2>2. QED
        BY <2>1 DEF Shapes, Row, Rows
<1>2. \A i, j \in Rows : tie[i] = tie[j] => i = j
      BY <1>1 DEF TieBreakers
<1>3. \A i \in Rows : ~ Before(i, i, tie)
      BY <1>1 DEF Before
<1>4. ASSUME NEW i \in Rows, NEW j \in Rows, i # j
      PROVE  Before(i, j, tie) \/ Before(j, i, tie)
      BY <1>1, <1>2, <1>4 DEF Before
<1>5. ASSUME NEW i \in Rows, NEW j \in Rows, NEW k \in Rows, Before(i, j, tie), Before(j, k, tie)
      PROVE  Before(i, k, tie)
      BY <1>1, <1>5 DEF Before
<1>6. QED
      BY <1>3, <1>4, <1>5

\* The places are 0, 1, ... without a gap.
LEMMA PlacesFill ==
  ASSUME Shapes, NEW tie \in TieBreakers
  PROVE  {Position(i, tie) : i \in Rows} = 0..(Cardinality(Rows) - 1)
<1> DEFINE n == Cardinality(Rows)
           Earlier(i) == {j \in Rows : Before(j, i, tie)}
           place == [i \in Rows |-> Position(i, tie)]
           Places == {place[i] : i \in Rows}
<1>1. n \in Nat /\ IsFiniteSet(Rows)
      BY CountRows
<1>2. \A i \in Rows : place[i] \in 0..(n - 1)
  <2>1. ASSUME NEW i \in Rows
        PROVE  Position(i, tie) \in 0..(n - 1)
    <3>1. Earlier(i) \in SUBSET Rows /\ i \notin Earlier(i)
          BY OrderIsTotal
    <3>2. Cardinality(Earlier(i)) \in Nat /\ Cardinality(Earlier(i)) <= n /\ Cardinality(Earlier(i)) # n
          BY <3>1, CountRows
    <3>3. QED
          BY <1>1, <3>2 DEF Position
  <2>2. QED
        BY <2>1
<1>3. ASSUME NEW i \in Rows, NEW j \in Rows, Before(i, j, tie)
      PROVE  place[i] # place[j]
  <2>1. Earlier(i) \in SUBSET Earlier(j)
        BY <1>3, OrderIsTotal
  <2>2. i \in Earlier(j) /\ i \notin Earlier(i)
        BY <1>3, OrderIsTotal
  <2>3. Cardinality(Earlier(i)) # Cardinality(Earlier(j))
        BY <2>1, <2>2, CountRows
  <2>4. QED
        BY <2>3 DEF Position
<1>4. \A i, j \in Rows : place[i] = place[j] => i = j
      BY <1>3, OrderIsTotal
<1>5. place \in Surjection(Rows, Places) /\ place \in Injection(Rows, Places)
      BY <1>4 DEF Surjection, Injection, IsInjective
<1>6. Cardinality(Places) = n
      BY <1>1, <1>5, FS_Surjection
<1>7. Places \in SUBSET (0..(n - 1))
      BY <1>2
<1>8. IsFiniteSet(0..(n - 1)) /\ Cardinality(0..(n - 1)) = n
  <2>1. 0 \in Int /\ n - 1 \in Int
        BY <1>1
  <2>2. QED
        BY <1>1, <2>1, FS_Interval
<1>9. Places = 0..(n - 1)
      BY <1>6, <1>7, <1>8, FS_Subset
<1>10. QED
      BY <1>9

LEMMA AheadIsPlace ==
  ASSUME Shapes, NEW i \in Rows
  PROVE  Ahead(i) \in Nat /\ Ahead(i) < Cardinality(Rows)
<1>1. rows[i].created \in Int
      BY DEF Shapes, Row, Rows
<1> DEFINE S == {j \in Rows : rows[j].created > rows[i].created}
<1>2. S \in SUBSET Rows /\ i \notin S
      BY <1>1
<1>3. Cardinality(S) \in Nat /\ Cardinality(Rows) \in Nat
      BY <1>2, CountRows
<1>4. Cardinality(S) <= Cardinality(Rows) /\ Cardinality(S) # Cardinality(Rows)
      BY <1>2, CountRows
<1>5. QED
      BY <1>3, <1>4 DEF Ahead

-----------------------------------------------------------------------------
\* the part of the list the walk has asked for
Asked == Offset(PageOf(walk.page), SizeOf(walk.size))

ByTotal == walk.stop = "total" /\ ~ walk.grown

WalkType ==
  walk \in [at : {"idle", "count", "find", "end"}, page : Nat, size : Int,
            stop : {"empty", "total"}, total : Int, start : SUBSET Ids, seen : SUBSET Ids,
            moved : BOOLEAN, grown : BOOLEAN]

\* Until a worker moves a task, every task with a time of its own that was
\* there at the start is seen or still ahead.
StillAhead ==
  walk.at \in {"count", "find"} /\ ~ walk.moved =>
    \A i \in walk.start : Distinct(i) => i \in walk.seen \/ Ahead(i) >= Asked

TotalIsTrue ==
  /\ walk.at # "idle" /\ ByTotal => Rows = walk.start
  /\ walk.at = "find" /\ ByTotal => walk.total = Cardinality(Rows)

WalkInv ==
  /\ Shapes
  /\ WalkType
  /\ walk.start \subseteq Rows
  /\ TotalIsTrue
  /\ StillAhead
  /\ WalkSeesEveryTask

LEMMA WalkInit == Init => WalkInv
<1> SUFFICES ASSUME Init
             PROVE  WalkInv
    OBVIOUS
<1>1. walk = Idle
      BY DEF Init
<1>2. WalkType /\ walk.start \subseteq Rows /\ TotalIsTrue /\ StillAhead /\ WalkSeesEveryTask
      BY <1>1 DEF WalkType, TotalIsTrue, StillAhead, WalkSeesEveryTask, Idle
<1>3. QED
      BY <1>2, InitShapes DEF WalkInv

\* The pages of a walk follow each other without a gap.
LEMMA PagesFollow ==
  ASSUME WalkType
  PROVE  /\ SizeOf(walk.size) \in Nat /\ SizeOf(walk.size) >= 1
         /\ Asked \in Nat
         /\ walk.page * SizeOf(walk.size) \in Nat
         /\ Offset(PageOf(walk.page + 1), SizeOf(walk.size)) = walk.page * SizeOf(walk.size)
         /\ walk.page * SizeOf(walk.size) <= Asked + SizeOf(walk.size)
<1> DEFINE z == SizeOf(walk.size)
           p == walk.page
<1>1. p \in Nat /\ z \in Nat /\ z >= 1
  <2>1. DefaultPageSize \in Nat /\ DefaultPageSize >= 1
        BY ApiAssumption
  <2>2. walk.size \in Int /\ p \in Nat
        BY DEF WalkType
  <2>3. z \in Int /\ z >= 1
        BY <2>1, <2>2 DEF SizeOf
  <2>4. QED
        BY <2>2, <2>3
<1>2. PageOf(p + 1) = p + 1 /\ PageOf(p) = IF p = 0 THEN 1 ELSE p
      BY <1>1 DEF PageOf
<1> HIDE DEF z, p
<1>3. p * z \in Nat
      BY <1>1
<1>4. Offset(PageOf(p + 1), z) = p * z
  <2>1. (p + 1) - 1 = p
        BY <1>1
  <2>2. QED
        BY <1>2, <2>1 DEF Offset
<1>5. CASE p = 0
  <2>1. Offset(PageOf(p), z) = 0 /\ p * z = 0
        BY <1>1, <1>2, <1>5 DEF Offset
  <2>2. QED
        BY <1>1, <1>3, <1>4, <2>1 DEF Asked, p, z
<1>6. CASE p # 0
  <2>1. p - 1 \in Nat /\ Offset(PageOf(p), z) = (p - 1) * z
        BY <1>1, <1>2, <1>6 DEF Offset
  <2>2. (p - 1) * z \in Nat /\ (p - 1) * z + z = p * z
        BY <1>1, <2>1
  <2>3. QED
        BY <1>1, <1>3, <1>4, <2>1, <2>2 DEF Asked, p, z
<1>7. QED
      BY <1>5, <1>6

\* A new task may come anywhere in the list: what was ahead is not less far ahead.
LEMMA NewRowsKeepWalk ==
  ASSUME WalkInv, Shapes', WalkType',
         \A j \in Rows : j \in Rows' /\ rows'[j].created = rows[j].created,
         Rows' = Rows \/ walk'.grown,
         walk.grown => walk'.grown,
         /\ walk'.at = walk.at /\ walk'.page = walk.page /\ walk'.size = walk.size
         /\ walk'.stop = walk.stop /\ walk'.total = walk.total /\ walk'.start = walk.start
         /\ walk'.seen = walk.seen /\ walk'.moved = walk.moved
  PROVE  WalkInv'
<1>1. walk.start \subseteq Rows /\ walk'.start \subseteq Rows'
      BY DEF WalkInv
<1>2. TotalIsTrue'
      BY DEF WalkInv, TotalIsTrue, ByTotal
<1>3. \A i \in Rows : Distinct(i)' => Distinct(i)
      BY DEF Distinct
<1>4. ASSUME NEW i \in Rows
      PROVE  Ahead(i) \in Nat /\ Ahead(i)' \in Nat /\ Ahead(i)' >= Ahead(i)
  <2> DEFINE S == {j \in Rows : rows[j].created > rows[i].created}
             T == {j \in Rows' : rows'[j].created > rows'[i].created}
  <2>1. S \in SUBSET T
        OBVIOUS
  <2>2. T \in SUBSET Ids
        BY DEF Rows
  <2>3. IsFiniteSet(T) /\ Cardinality(T) \in Nat
        BY <2>2, ApiAssumption, FS_Subset, FS_CardinalityType
  <2>4. Cardinality(S) \in Nat /\ Cardinality(S) <= Cardinality(T)
        BY <2>1, <2>3, FS_Subset, FS_CardinalityType
  <2>5. Ahead(i) = Cardinality(S) /\ Ahead(i)' = Cardinality(T)
        BY DEF Ahead
  <2>6. QED
        BY <2>3, <2>4, <2>5
<1>5. StillAhead'
  <2>1. Asked' = Asked /\ Asked \in Nat
        BY PagesFollow DEF Asked, WalkInv
  <2>2. ASSUME NEW i \in walk.start, Distinct(i)', walk.at \in {"count", "find"}, ~ walk.moved
        PROVE  i \in walk.seen \/ Ahead(i)' >= Asked
    <3>1. i \in walk.seen \/ Ahead(i) >= Asked
          BY <1>1, <1>3, <2>2 DEF WalkInv, StillAhead
    <3>2. QED
          BY <1>1, <1>4, <2>1, <3>1
  <2>3. QED
        BY <2>1, <2>2 DEF StillAhead
<1>6. WalkSeesEveryTask'
      BY <1>1, <1>3 DEF WalkInv, WalkSeesEveryTask
<1>7. QED
      BY <1>1, <1>2, <1>5, <1>6 DEF WalkInv

LEMMA ClientWalk ==
  ASSUME WalkInv, AnswerInv, AnswerInv', NEW c \in Clients, ClientStep(c)
  PROVE  WalkInv'
<1>0. WalkType /\ rows \in [Ids -> Row] /\ Shapes'
      BY DEF WalkInv, AnswerInv, Shapes
<1>1. CASE UNCHANGED <<rows, walk>>
  <2>1. Rows' = Rows /\ WalkType'
        BY <1>0, <1>1 DEF Rows, WalkType
  <2>2. QED
        BY <1>0, <1>1, <2>1, NewRowsKeepWalk
<1>2. CASE Insert(c) /\ AddRow(c)
  <2>1. req[c].id \in Ids /\ req[c].id \notin Rows
        BY <1>2 DEF Insert, AddRow, IndexAllows, Rows, AnswerInv, Progress
  <2>2. \A j \in Rows : rows'[j] = rows[j] /\ j \in Rows'
        BY <1>0, <1>2, <2>1 DEF AddRow, Rows
  <2>3. walk' = [walk EXCEPT !.grown = TRUE]
        BY <1>2 DEF AddRow
  <2>4. /\ WalkType' /\ walk'.grown
        /\ walk'.at = walk.at /\ walk'.page = walk.page /\ walk'.size = walk.size
        /\ walk'.stop = walk.stop /\ walk'.total = walk.total /\ walk'.start = walk.start
        /\ walk'.seen = walk.seen /\ walk'.moved = walk.moved
        BY <1>0, <2>3 DEF WalkType
  <2>5. QED
        BY <1>0, <2>2, <2>4, NewRowsKeepWalk
<1>3. CASE CancelTask(c)
  <2>1. UNCHANGED walk
        BY <1>3 DEF CancelTask
  <2>2. CASE UNCHANGED rows
        BY <1>1, <2>1, <2>2
  <2>3. ASSUME NEW i, Cancel(i)
        PROVE  WalkInv'
    <3>1. i \in Rows /\ i \in Ids /\ rows' = [rows EXCEPT ![i].status = "cancelled"]
          BY <2>3 DEF Cancel, RowFound, Rows
    <3>2. \A j \in Ids : rows'[j].created = rows[j].created /\ (j \in Rows' <=> j \in Rows)
          BY <1>0, <3>1 DEF Rows, Row
    <3>3. Rows' = Rows /\ WalkType'
          BY <1>0, <2>1, <3>2 DEF Rows, WalkType
    <3>4. QED
          BY <1>0, <2>1, <3>2, <3>3, NewRowsKeepWalk DEF Rows
  <2>4. QED
        BY <1>3, <2>2, <2>3 DEF CancelTask
<1>4. QED
      BY <1>1, <1>2, <1>3
      DEF ClientStep, GetUploadURL, Upload, Submit, Check, Insert, Retry, GetTaskStatus, list

\* A save spoils the walk.
LEMMA SaveWalk ==
  ASSUME WalkInv, Shapes', NEW i \in Ids, Save(i)
  PROVE  WalkInv'
<1>1. i \in Rows /\ walk' = [walk EXCEPT !.moved = TRUE]
      BY DEF Save
<1>2. PICK status \in {"processing", "success", "failed"} :
        rows' = [rows EXCEPT ![i] = [@ EXCEPT !.status = status, !.created = 0,
                                              !.output = status = "success"]]
      BY DEF Save
<1>3. rows'[i].status = status /\ \A j \in Ids \ {i} : rows'[j] = rows[j]
      BY <1>2 DEF WalkInv, Shapes, Row
<1>4. Rows' = Rows
      BY <1>1, <1>3 DEF Rows
<1>5. /\ WalkType' /\ walk'.moved /\ walk'.grown = walk.grown
      /\ walk'.at = walk.at /\ walk'.stop = walk.stop /\ walk'.total = walk.total
      /\ walk'.start = walk.start
      BY <1>1 DEF WalkInv, WalkType
<1>6. TotalIsTrue' /\ StillAhead' /\ WalkSeesEveryTask'
      BY <1>4, <1>5 DEF WalkInv, TotalIsTrue, ByTotal, StillAhead, WalkSeesEveryTask
<1>7. QED
      BY <1>4, <1>5, <1>6 DEF WalkInv

LEMMA StartWalkStep == WalkInv /\ StartWalk => WalkInv'
<1> SUFFICES ASSUME WalkInv, StartWalk
             PROVE  WalkInv'
    OBVIOUS
<1>1. UNCHANGED rows /\ Shapes'
      BY DEF StartWalk, WalkInv, Shapes
<1>2. Rows' = Rows /\ Rows \in SUBSET Ids
      BY <1>1 DEF Rows
<1>3. PICK page \in FirstPages, size \in Sizes, stop \in {"empty", "total"} :
        walk' = [Idle EXCEPT !.at = "count", !.page = page, !.size = size, !.stop = stop,
                             !.start = Rows]
      BY DEF StartWalk
<1>4. page \in {0, 1} /\ size \in Int
      BY ApiAssumption
<1>5. /\ walk'.at = "count" /\ walk'.page = page /\ walk'.start = Rows
      /\ walk'.page \in {0, 1} /\ ~ walk'.moved
      BY <1>3, <1>4 DEF Idle
<1>6. WalkType'
  <2>1. walk' = [at |-> "count", page |-> page, size |-> size, stop |-> stop, total |-> 0,
                 start |-> Rows, seen |-> {}, moved |-> FALSE, grown |-> FALSE]
        BY <1>3 DEF Idle
  <2>2. page \in Nat
        BY <1>4
  <2>3. QED
        BY <1>2, <1>4, <2>1, <2>2 DEF WalkType
<1>7. Asked' = 0
  <2>1. PageOf(walk'.page) = 1
        BY <1>5 DEF PageOf
  <2>2. SizeOf(walk'.size) \in Int
    <3>1. walk'.size \in Int /\ DefaultPageSize \in Int
          BY <1>6, ApiAssumption DEF WalkType
    <3>2. QED
          BY <3>1 DEF SizeOf
  <2>3. QED
        BY <2>1, <2>2 DEF Asked, Offset
<1>8. \A i \in Rows : Ahead(i)' >= 0
  <2>1. \A i \in Rows : Ahead(i)' = Ahead(i)
        BY <1>1, <1>2 DEF Ahead
  <2>2. \A i \in Rows : Ahead(i) \in Nat
        BY AheadIsPlace DEF WalkInv
  <2>3. QED
        BY <2>1, <2>2
<1>9. TotalIsTrue' /\ StillAhead' /\ WalkSeesEveryTask'
      BY <1>2, <1>5, <1>7, <1>8 DEF TotalIsTrue, StillAhead, WalkSeesEveryTask
<1>10. QED
      BY <1>1, <1>2, <1>5, <1>6, <1>9 DEF WalkInv

LEMMA CountTasksStep == WalkInv /\ CountTasks => WalkInv'
<1> SUFFICES ASSUME WalkInv, CountTasks
             PROVE  WalkInv'
    OBVIOUS
<1>1. UNCHANGED rows /\ Shapes'
      BY DEF CountTasks, WalkInv, Shapes
<1>2. Rows' = Rows /\ \A i \in Rows : Ahead(i)' = Ahead(i) /\ (Distinct(i)' <=> Distinct(i))
      BY <1>1 DEF Rows, Ahead, Distinct
<1>3. walk.at = "count" /\ walk' = [walk EXCEPT !.at = "find", !.total = Cardinality(Rows)]
      BY DEF CountTasks
<1>4. Cardinality(Rows) \in Int
      BY CountRows
<1>5. /\ WalkType' /\ walk'.at = "find" /\ walk'.total = Cardinality(Rows)
      /\ walk'.page = walk.page /\ walk'.size = walk.size /\ walk'.stop = walk.stop
      /\ walk'.start = walk.start /\ walk'.seen = walk.seen
      /\ walk'.moved = walk.moved /\ walk'.grown = walk.grown
      BY <1>3, <1>4 DEF WalkInv, WalkType
<1>6. Asked' = Asked
      BY <1>5 DEF Asked
<1>7. walk.start \subseteq Rows
      BY DEF WalkInv
<1>8. TotalIsTrue'
      BY <1>2, <1>3, <1>5 DEF WalkInv, TotalIsTrue, ByTotal
<1>9. StillAhead'
      BY <1>2, <1>3, <1>5, <1>6, <1>7 DEF WalkInv, StillAhead
<1>10. WalkSeesEveryTask'
      BY <1>5 DEF WalkSeesEveryTask
<1>11. QED
      BY <1>1, <1>2, <1>5, <1>7, <1>8, <1>9, <1>10 DEF WalkInv

\* A page that is empty has nothing after it, whatever the order of ties.
LEMMA EmptyPageIsLast ==
  ASSUME Shapes, NEW tie \in TieBreakers, NEW i \in Rows,
         NEW page \in Int, NEW size \in Nat, size >= 1,
         Offset(page, size) \in Nat, Position(i, tie) >= Offset(page, size)
  PROVE  Page(page, size, tie) # {}
<1>1. Position(i, tie) \in 0..(Cardinality(Rows) - 1) /\ Cardinality(Rows) \in Nat
      BY PlacesFill, CountRows
<1>2. Offset(page, size) \in 0..(Cardinality(Rows) - 1)
      BY <1>1
<1>3. PICK j \in Rows : Position(j, tie) = Offset(page, size)
      BY <1>2, PlacesFill
<1>4. Position(j, tie) \in Offset(page, size)..(Offset(page, size) + size - 1)
      BY <1>3
<1>5. QED
      BY <1>4 DEF Page

LEMMA FindTasksStep == WalkInv /\ FindTasks => WalkInv'
<1> SUFFICES ASSUME WalkInv, FindTasks
             PROVE  WalkInv'
    OBVIOUS
<1> DEFINE size == SizeOf(walk.size)
<1>1. UNCHANGED rows /\ Shapes' /\ Shapes /\ WalkType /\ walk.start \subseteq Rows /\ walk.at = "find"
      BY DEF FindTasks, WalkInv, Shapes
<1>2. Rows' = Rows /\ \A i \in Rows : Ahead(i)' = Ahead(i) /\ (Distinct(i)' <=> Distinct(i))
      BY <1>1 DEF Rows, Ahead, Distinct
<1>3. PICK tie \in TieBreakers :
        LET found == Page(PageOf(walk.page), SizeOf(walk.size), tie) IN
        walk' = [walk EXCEPT !.seen = @ \cup found,
                             !.at = IF WalkEnds(found) THEN "end" ELSE "count",
                             !.page = IF WalkEnds(found) THEN @ ELSE @ + 1]
      BY DEF FindTasks
<1> DEFINE found == Page(PageOf(walk.page), SizeOf(walk.size), tie)
<1>4. found \in SUBSET Ids
      BY DEF Page, Rows
<1>5. walk' = [walk EXCEPT !.seen = @ \cup found,
                           !.at = IF WalkEnds(found) THEN "end" ELSE "count",
                           !.page = IF WalkEnds(found) THEN @ ELSE @ + 1]
      BY <1>3
<1> HIDE DEF found
<1>6. /\ WalkType'
      /\ walk'.at = IF WalkEnds(found) THEN "end" ELSE "count"
      /\ walk'.page = IF WalkEnds(found) THEN walk.page ELSE walk.page + 1
      /\ walk'.seen = walk.seen \cup found
      /\ walk'.size = walk.size /\ walk'.stop = walk.stop /\ walk'.total = walk.total
      /\ walk'.start = walk.start /\ walk'.moved = walk.moved /\ walk'.grown = walk.grown
  <2> DEFINE at == IF WalkEnds(found) THEN "end" ELSE "count"
             page == IF WalkEnds(found) THEN walk.page ELSE walk.page + 1
  <2>1. at \in {"end", "count"} /\ page \in Nat
        BY <1>1 DEF WalkType
  <2>2. walk' = [walk EXCEPT !.seen = walk.seen \cup found, !.at = at, !.page = page]
        BY <1>5
  <2> HIDE DEF at, page
  <2>3. walk' = [at |-> at, page |-> page, size |-> walk.size, stop |-> walk.stop,
                 total |-> walk.total, start |-> walk.start, seen |-> walk.seen \cup found,
                 moved |-> walk.moved, grown |-> walk.grown]
        BY <1>1, <2>2 DEF WalkType
  <2>4. WalkType'
        BY <1>1, <1>4, <2>1, <2>3 DEF WalkType
  <2>5. walk'.at = at /\ walk'.page = page
        BY <2>3
  <2>6. /\ walk'.seen = walk.seen \cup found
        /\ walk'.size = walk.size /\ walk'.stop = walk.stop /\ walk'.total = walk.total
        /\ walk'.start = walk.start /\ walk'.moved = walk.moved /\ walk'.grown = walk.grown
        BY <2>3
  <2>7. QED
        BY <2>4, <2>5, <2>6 DEF at, page
<1>7. /\ size \in Nat /\ size >= 1 /\ Asked \in Nat /\ walk.page * size \in Nat
      /\ Offset(PageOf(walk.page + 1), size) = walk.page * size
      /\ walk.page * size <= Asked + size
      BY <1>1, PagesFollow
<1>8. \A i \in Rows : Ahead(i) \in Nat /\ Ahead(i) < Cardinality(Rows)
      BY <1>1, AheadIsPlace
<1>9. ASSUME NEW i \in walk.start, Distinct(i), ~ walk.moved
      PROVE  i \in walk'.seen \/ Ahead(i) >= Asked + size
  <2>1. i \in walk.seen \/ Ahead(i) >= Asked
        BY <1>1, <1>9 DEF WalkInv, StillAhead
  <2>2. CASE Ahead(i) >= Asked /\ Ahead(i) < Asked + size
    <3>1. Position(i, tie) = Ahead(i)
          BY <1>1, <1>9, PlaceOfDistinct
    <3>2. Ahead(i) \in Asked..(Asked + size - 1)
          BY <1>1, <1>7, <1>8, <2>2
    <3>3. i \in found
          BY <1>1, <3>1, <3>2 DEF found, Page, Asked
    <3>4. QED
          BY <1>6, <3>3
  <2>3. QED
        BY <1>1, <1>6, <1>7, <1>8, <2>1, <2>2
<1>10. StillAhead'
  <2>1. SUFFICES ASSUME ~ WalkEnds(found), ~ walk.moved, NEW i \in walk.start, Distinct(i)
                 PROVE  i \in walk'.seen \/ Ahead(i) >= Asked'
        BY <1>1, <1>2, <1>6 DEF StillAhead
  <2>2. Asked' = walk.page * size
        BY <1>6, <1>7, <2>1 DEF Asked
  <2>3. CASE Ahead(i) >= Asked + size
    <3>1. Ahead(i) >= walk.page * size
          BY <1>1, <1>7, <1>8, <2>3
    <3>2. QED
          BY <2>2, <3>1
  <2>4. QED
        BY <1>9, <2>1, <2>3
<1>11. WalkSeesEveryTask'
  <2>1. SUFFICES ASSUME WalkEnds(found), ~ walk.moved, NEW i \in walk.start, Distinct(i),
                        walk.stop = "total" => ~ walk.grown /\ walk.size \in 1..MaxPageSize
                 PROVE  i \in walk'.seen
        BY <1>1, <1>2, <1>6 DEF WalkSeesEveryTask
  <2>2. SUFFICES ASSUME Ahead(i) >= Asked + size
                 PROVE  FALSE
        BY <1>9, <2>1
  <2>3. CASE walk.stop = "empty"
    <3>1. found = {}
          BY <2>1, <2>3 DEF WalkEnds
    <3>2. Position(i, tie) >= Asked
      <4>1. Position(i, tie) = Ahead(i)
            BY <1>1, <2>1, PlaceOfDistinct
      <4>2. QED
            BY <1>1, <1>7, <1>8, <2>2, <4>1
    <3>3. PageOf(walk.page) \in Int
          BY <1>1 DEF PageOf, WalkType
    <3>4. Offset(PageOf(walk.page), size) = Asked
          BY DEF Asked
    <3> HIDE DEF size
    <3>5. Page(PageOf(walk.page), size, tie) # {}
          BY <1>1, <1>7, <3>2, <3>3, <3>4, EmptyPageIsLast
    <3>6. QED
          BY <3>1, <3>5 DEF found, size
  <2>4. CASE walk.stop = "total"
    <3>1. size = walk.size
          BY <1>1, <2>1, <2>4, ApiAssumption DEF SizeOf, WalkType
    <3>2. walk.page * size >= Cardinality(Rows)
      <4>1. walk.total = Cardinality(Rows)
            BY <1>1, <2>1, <2>4 DEF WalkInv, TotalIsTrue, ByTotal
      <4>2. QED
            BY <2>1, <2>4, <3>1, <4>1 DEF WalkEnds
    <3>3. Cardinality(Rows) \in Nat
          BY CountRows
    <3> HIDE DEF size
    <3>4. QED
          BY <1>1, <1>7, <1>8, <2>2, <3>2, <3>3
  <2>5. QED
        BY <1>1, <2>3, <2>4 DEF WalkType
<1>12. TotalIsTrue'
      BY <1>1, <1>2, <1>6 DEF WalkInv, TotalIsTrue, ByTotal
<1>13. QED
      BY <1>1, <1>2, <1>6, <1>10, <1>11, <1>12 DEF WalkInv

LEMMA ListFailsStep == WalkInv /\ ListFails => WalkInv'
<1> SUFFICES ASSUME WalkInv, ListFails
             PROVE  WalkInv'
    OBVIOUS
<1>1. UNCHANGED rows /\ Shapes' /\ WalkType /\ walk.at \in {"count", "find"}
      BY DEF ListFails, WalkInv, Shapes
<1>2. Rows' = Rows /\ \A i \in Rows : Ahead(i)' = Ahead(i) /\ (Distinct(i)' <=> Distinct(i))
      BY <1>1 DEF Rows, Ahead, Distinct
<1>3. walk' = [walk EXCEPT !.at = "count"]
      BY DEF ListFails
<1>4. /\ WalkType' /\ walk'.at = "count"
      /\ walk'.page = walk.page /\ walk'.size = walk.size /\ walk'.stop = walk.stop
      /\ walk'.start = walk.start /\ walk'.seen = walk.seen
      /\ walk'.moved = walk.moved /\ walk'.grown = walk.grown
      BY <1>1, <1>3 DEF WalkType
<1>5. Asked' = Asked /\ walk.start \subseteq Rows
      BY <1>4 DEF Asked, WalkInv
<1>6. TotalIsTrue' /\ StillAhead'
      BY <1>1, <1>2, <1>4, <1>5 DEF WalkInv, TotalIsTrue, ByTotal, StillAhead
<1>7. WalkSeesEveryTask'
      BY <1>4 DEF WalkSeesEveryTask
<1>8. QED
      BY <1>1, <1>2, <1>4, <1>5, <1>6, <1>7 DEF WalkInv

LEMMA WalkStep == WalkInv /\ AnswerInv /\ AnswerInv' /\ [Next]_vars => WalkInv'
<1> SUFFICES ASSUME WalkInv, AnswerInv, AnswerInv', [Next]_vars
             PROVE  WalkInv'
    OBVIOUS
<1>1. Shapes'
      BY DEF AnswerInv
<1>2. CASE UNCHANGED vars
  <2>1. UNCHANGED <<rows, walk>> /\ Rows' = Rows
        BY <1>2 DEF vars, Rows
  <2>2. WalkType'
        BY <2>1 DEF WalkInv, WalkType
  <2>3. QED
        BY <1>1, <2>1, <2>2, NewRowsKeepWalk
<1>3. CASE Next
      BY <1>1, <1>3, ClientWalk, SaveWalk, StartWalkStep, CountTasksStep, FindTasksStep, ListFailsStep
      DEF Next, ListStep
<1>4. QED
      BY <1>2, <1>3

\* A walk through ListTasks until a page is empty, or until the total if the
\* total does not grow, shows every task of a time of its own that was there
\* at the start, for every number of tasks and every size of page: what is
\* submitted meanwhile only pushes tasks towards pages still to come.
THEOREM WalkIsComplete == Spec => []WalkSeesEveryTask
<1>1. Init => WalkInv /\ AnswerInv
      BY WalkInit, AnswerInit
<1>2. (WalkInv /\ AnswerInv) /\ [Next]_vars => (WalkInv /\ AnswerInv)'
      BY WalkStep, AnswerStep
<1>3. WalkInv => WalkSeesEveryTask
      BY DEF WalkInv
<1>4. QED
      BY <1>1, <1>2, <1>3, PTL DEF Spec
-----------------------------------------------------------------------------
(* TypeOK: what Shapes leaves out, and how far a walk can get *)

\* A page that shows something is not beyond the last task, and a client that
\* goes by the total asks for no page beyond it.
WalkBound ==
  /\ walk.seen \subseteq Rows
  /\ walk.at = "find" => walk.total <= Cardinality(Ids)
  /\ walk.stop = "empty" \/ walk.size >= 1 => walk.page <= Cardinality(Ids) + 1

Counters == faults \in 0..MaxFaults /\ changes \in 0..MaxChanges
TimesOk == \A i \in Ids : rows[i].created \in Times \cup {0}

BoundInv == WalkBound /\ Counters /\ TimesOk

LEMMA RowsAreFew ==
  /\ IsFiniteSet(Ids) /\ Cardinality(Ids) \in Nat
  /\ Cardinality(Rows) \in Nat /\ Cardinality(Rows) <= Cardinality(Ids)
<1>1. Rows \in SUBSET Ids /\ IsFiniteSet(Ids)
      BY ApiAssumption DEF Rows
<1>2. QED
      BY <1>1, FS_Subset, FS_CardinalityType

LEMMA BoundInit == Init => BoundInv
<1> SUFFICES ASSUME Init
             PROVE  BoundInv
    OBVIOUS
<1>1. Rows = {}
      BY DEF Init, Rows, NoRow
<1>2. WalkBound
      BY <1>1, RowsAreFew DEF Init, Idle, WalkBound
<1>3. Counters /\ TimesOk
      BY ApiAssumption DEF Init, NoRow, Counters, TimesOk
<1>4. QED
      BY <1>2, <1>3 DEF BoundInv

LEMMA CountersStep == Counters /\ [Next]_vars => Counters'
<1> SUFFICES ASSUME Counters, [Next]_vars
             PROVE  Counters'
    OBVIOUS
<1>1. faults \in Nat /\ changes \in Nat /\ MaxFaults \in Nat /\ MaxChanges \in Nat
      BY ApiAssumption DEF Counters
<1>2. UNCHANGED faults \/ Fault
      BY DEF Next, ClientStep, GetUploadURL, Upload, Submit, Check, Insert, Retry, GetTaskStatus,
         CancelTask, Save, ListStep, StartWalk, CountTasks, FindTasks, ListFails, vars
<1>3. UNCHANGED changes \/ Change
      BY DEF Next, ClientStep, GetUploadURL, Upload, Submit, Check, Insert, Retry, GetTaskStatus,
         CancelTask, Cancel, Save, ListStep, StartWalk, CountTasks, FindTasks, ListFails, vars, list
<1>4. QED
      BY <1>1, <1>2, <1>3 DEF Counters, Fault, Change

LEMMA TimesStep == AnswerInv /\ TimesOk /\ [Next]_vars => TimesOk'
<1> SUFFICES ASSUME AnswerInv, TimesOk, [Next]_vars
             PROVE  TimesOk'
    OBVIOUS
<1>1. rows \in [Ids -> Row]
      BY DEF AnswerInv, Shapes
<1>2. CASE UNCHANGED rows
      BY <1>2 DEF TimesOk
<1>3. ASSUME NEW c \in Clients, AddRow(c)
      PROVE  TimesOk'
      BY <1>1, <1>3 DEF AddRow, TimesOk
<1>4. ASSUME NEW i, Cancel(i)
      PROVE  TimesOk'
      BY <1>1, <1>4 DEF Cancel, RowFound, Rows, TimesOk, Row
<1>5. ASSUME NEW i \in Ids, Save(i)
      PROVE  TimesOk'
  <2>1. PICK status \in {"processing", "success", "failed"} :
          rows' = [rows EXCEPT ![i] = [@ EXCEPT !.status = status, !.created = 0,
                                                !.output = status = "success"]]
        BY <1>5 DEF Save
  <2>2. rows'[i].created = 0 /\ \A j \in Ids \ {i} : rows'[j] = rows[j]
        BY <1>1, <2>1 DEF Row
  <2>3. QED
        BY <2>2 DEF TimesOk
<1>6. QED
      BY <1>2, <1>3, <1>4, <1>5
      DEF Next, ClientStep, GetUploadURL, Upload, Submit, Check, Insert, Retry, GetTaskStatus,
          CancelTask, ListStep, StartWalk, CountTasks, FindTasks, ListFails, vars

LEMMA RowsStay ==
  ASSUME AnswerInv, [Next]_vars
  PROVE  Rows \subseteq Rows'
<1>1. ASSUME NEW c \in Clients, ClientStep(c)
      PROVE  RowStep
      BY <1>1, ClientRows
<1>2. CASE ListStep \/ \E i \in Ids : Save(i)
      BY <1>2, OtherSteps DEF AnswerInv, RowStep, Rows
<1>3. CASE UNCHANGED vars
      BY <1>3 DEF vars, Rows
<1>4. QED
      BY <1>1, <1>2, <1>3 DEF Next, RowStep, Rows

LEMMA FindTasksBound == WalkInv /\ WalkBound /\ FindTasks => WalkBound'
<1> SUFFICES ASSUME WalkInv, WalkBound, FindTasks
             PROVE  WalkBound'
    OBVIOUS
<1> DEFINE n == Cardinality(Ids)
           size == SizeOf(walk.size)
<1>1. UNCHANGED rows /\ Shapes /\ WalkType /\ walk.at = "find" /\ walk.seen \subseteq Rows
      BY DEF FindTasks, WalkInv, WalkBound
<1>2. Rows' = Rows
      BY <1>1 DEF Rows
<1>3. PICK tie \in TieBreakers :
        LET found == Page(PageOf(walk.page), SizeOf(walk.size), tie) IN
        walk' = [walk EXCEPT !.seen = @ \cup found,
                             !.at = IF WalkEnds(found) THEN "end" ELSE "count",
                             !.page = IF WalkEnds(found) THEN @ ELSE @ + 1]
      BY DEF FindTasks
<1> DEFINE found == Page(PageOf(walk.page), SizeOf(walk.size), tie)
<1>4. found \subseteq Rows
      BY DEF Page
<1>5. walk' = [walk EXCEPT !.seen = @ \cup found,
                           !.at = IF WalkEnds(found) THEN "end" ELSE "count",
                           !.page = IF WalkEnds(found) THEN @ ELSE @ + 1]
      BY <1>3
<1>6. n \in Nat /\ walk.page \in Nat /\ walk.size \in Int /\ walk.total \in Int
      BY <1>1, RowsAreFew DEF WalkType
<1>7. ASSUME ~ WalkEnds(found), walk.stop = "empty" \/ walk.size >= 1
      PROVE  walk.page <= n
  <2>1. CASE walk.stop = "empty"
    <3>1. PICK i \in Rows : Position(i, tie) \in Asked..(Asked + size - 1)
          BY <1>7, <2>1 DEF WalkEnds, Page, Asked
    <3>2. Position(i, tie) \in 0..(Cardinality(Rows) - 1)
          BY <1>1, PlacesFill
    <3>3. size \in Nat /\ size >= 1 /\ Asked \in Nat
          BY <1>1, PagesFollow
    <3>4. Asked < n
          BY <1>6, <3>1, <3>2, <3>3, RowsAreFew
    <3>5. walk.page - 1 <= Asked
      <4>1. CASE walk.page = 0
            BY <3>3, <4>1
      <4>2. CASE walk.page # 0
        <5>1. walk.page - 1 \in Nat /\ Asked = (walk.page - 1) * size
              BY <1>6, <4>2 DEF Asked, Offset, PageOf
        <5> DEFINE k == walk.page - 1
        <5> HIDE DEF size, k
        <5>2. k \in Nat /\ Asked = k * size
              BY <5>1 DEF k
        <5>3. k <= k * size
              BY <3>3, <5>2
        <5>4. QED
              BY <5>2, <5>3 DEF k
      <4>3. QED
            BY <4>1, <4>2
    <3>6. QED
          BY <1>6, <3>3, <3>4, <3>5
  <2>2. CASE walk.stop = "total"
    <3>1. walk.size >= 1 /\ ~ (walk.page * walk.size >= walk.total)
          BY <1>7, <2>2 DEF WalkEnds
    <3>2. walk.total <= n
          BY <1>1 DEF WalkBound
    <3>3. \A k, z \in Nat : z >= 1 => k <= k * z /\ k * z \in Nat
          OBVIOUS
    <3>4. walk.size \in Nat
          BY <1>6, <3>1
    <3> DEFINE done == walk.page * walk.size
    <3>5. walk.page <= done /\ done \in Nat
          BY <1>6, <3>1, <3>3, <3>4
    <3>6. ~ (done >= walk.total)
          BY <3>1
    <3> HIDE DEF done
    <3>7. QED
          BY <1>6, <3>2, <3>5, <3>6
  <2>3. QED
        BY <1>1, <2>1, <2>2 DEF WalkType
<1> HIDE DEF found
<1>8. /\ walk'.at # "find" /\ walk'.seen = walk.seen \cup found
      /\ walk'.size = walk.size /\ walk'.stop = walk.stop
      /\ walk'.page = IF WalkEnds(found) THEN walk.page ELSE walk.page + 1
      BY <1>1, <1>5 DEF WalkType
<1>9. QED
      BY <1>1, <1>2, <1>4, <1>6, <1>7, <1>8 DEF WalkBound

LEMMA WalkBoundStep == WalkInv /\ AnswerInv /\ WalkBound /\ [Next]_vars => WalkBound'
<1> SUFFICES ASSUME WalkInv, AnswerInv, WalkBound, [Next]_vars
             PROVE  WalkBound'
    OBVIOUS
<1>1. Rows \subseteq Rows' /\ WalkType
      BY RowsStay DEF WalkInv
<1>2. ASSUME walk'.at = walk.at, walk'.page = walk.page, walk'.size = walk.size,
             walk'.stop = walk.stop, walk'.total = walk.total, walk'.seen = walk.seen
      PROVE  WalkBound'
      BY <1>1, <1>2 DEF WalkBound
<1>3. CASE UNCHANGED walk
      BY <1>2, <1>3
<1>4. ASSUME NEW c \in Clients, AddRow(c)
      PROVE  WalkBound'
  <2>1. walk' = [walk EXCEPT !.grown = TRUE]
        BY <1>4 DEF AddRow
  <2>2. QED
        BY <1>1, <1>2, <2>1 DEF WalkType
<1>5. ASSUME NEW i \in Ids, Save(i)
      PROVE  WalkBound'
  <2>1. walk' = [walk EXCEPT !.moved = TRUE]
        BY <1>5 DEF Save
  <2>2. QED
        BY <1>1, <1>2, <2>1 DEF WalkType
<1>6. CASE StartWalk
  <2>1. walk'.at = "count" /\ walk'.page \in {0, 1} /\ walk'.seen = {}
        BY <1>6, ApiAssumption DEF StartWalk, Idle
  <2>2. walk'.page <= Cardinality(Ids) + 1
        BY <2>1, RowsAreFew
  <2>3. QED
        BY <2>1, <2>2 DEF WalkBound
<1>7. CASE CountTasks
  <2>1. walk' = [walk EXCEPT !.at = "find", !.total = Cardinality(Rows)] /\ UNCHANGED rows
        BY <1>7 DEF CountTasks
  <2>2. /\ walk'.total = Cardinality(Rows) /\ walk'.page = walk.page /\ walk'.size = walk.size
        /\ walk'.stop = walk.stop /\ walk'.seen = walk.seen
        BY <1>1, <2>1 DEF WalkType
  <2>3. QED
        BY <1>1, <2>2, RowsAreFew DEF WalkBound
<1>8. CASE FindTasks
      BY <1>8, FindTasksBound
<1>9. CASE ListFails
  <2>1. walk.at \in {"count", "find"} /\ walk' = [walk EXCEPT !.at = "count"]
        BY <1>9 DEF ListFails
  <2>2. /\ walk'.at = "count" /\ walk'.page = walk.page /\ walk'.size = walk.size
        /\ walk'.stop = walk.stop /\ walk'.seen = walk.seen
        BY <1>1, <2>1 DEF WalkType
  <2>3. QED
        BY <1>1, <2>2 DEF WalkBound
<1>10. QED
      BY <1>3, <1>4, <1>5, <1>6, <1>7, <1>8, <1>9
      DEF Next, ClientStep, GetUploadURL, Upload, Submit, Check, Insert, Retry, GetTaskStatus,
          CancelTask, ListStep, vars, list

\* Types, bounds, and that a walk comes to an end: it asks for no more pages
\* than there are ids, and one, however small its pages are.
THEOREM ApiTypeCorrect == Spec => []TypeOK
<1> DEFINE AllInv == SourceInv /\ WalkInv /\ BoundInv
<1>1. Init => AllInv
      BY SourceInit, WalkInit, BoundInit
<1>2. AllInv /\ [Next]_vars => AllInv'
  <2> SUFFICES ASSUME AllInv, [Next]_vars
               PROVE  AllInv'
      OBVIOUS
  <2>1. AnswerInv
        BY DEF SourceInv
  <2>2. SourceInv' /\ AnswerInv'
        BY SourceStep DEF SourceInv
  <2>3. WalkInv'
        BY <2>1, <2>2, WalkStep
  <2>4. BoundInv'
        BY <2>1, WalkBoundStep, CountersStep, TimesStep DEF BoundInv
  <2>5. QED
        BY <2>2, <2>3, <2>4
<1>3. AllInv => TypeOK
  <2> SUFFICES ASSUME AllInv
               PROVE  TypeOK
      OBVIOUS
  <2>1. Shapes /\ WalkType /\ walk.start \subseteq Rows
        BY DEF WalkInv
  <2>2. \A i \in Ids : /\ rows[i].owner \in Clients \cup {Nobody}
                       /\ rows[i].status \in Statuses
                       /\ rows[i].created \in Times \cup {0}
                       /\ i \in Rows => i \in NamedIds \cup drawn /\ rows[i].owner \in Clients
    <3>1. \A i \in Rows : i \in NamedIds \cup drawn /\ rows[i].owner # Nobody
          BY DEF SourceInv, RowsTraced, Ours, AnswerInv, OwnedIsThere, Rows
    <3>2. QED
          BY <2>1, <3>1 DEF Shapes, Row, BoundInv, TimesOk
  <2>3. \A c \in Clients :
          /\ reply[c] \in {"none", "ok", "already_exists", "invalid_argument", "internal"}
          /\ stage[c] \in {"check", "insert", "told"} => req[c].id \in Ids
        BY <2>1 DEF Shapes, SourceInv, AnswerInv, Progress
  <2>4. walk.page \in Nat
        BY <2>1 DEF WalkType
  <2>5. QED
        BY <2>1, <2>2, <2>3, <2>4 DEF TypeOK, Shapes, Statuses, BoundInv, WalkBound, Counters
<1>4. QED
      BY <1>1, <1>2, <1>3, PTL DEF Spec
=============================================================================
