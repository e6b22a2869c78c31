----------------------------- MODULE Transcode -----------------------------
(***************************************************************************)
(* What a worker does with a task it has taken: ProcessTask of worker.go   *)
(* from the download to the last save, Transcode of ffmpeg_transcoder.go,  *)
(* the progress goroutine (progress.go), and the uploads (s3_compat.go).   *)
(*                                                                         *)
(* Three processes share a task: the worker; ffmpeg, which writes lines    *)
(* into a pipe of bounded size and blocks when it is full; and the parser, *)
(* which reads the pipe through a buffer and writes the task's progress.   *)
(* The worker waits for ffmpeg, never for the parser.  All workers share   *)
(* the output bucket, which whoever finds it missing creates.              *)
(*                                                                         *)
(* Each task has one worker here; WorkerPool says when it has two.         *)
(***************************************************************************)
EXTENDS Media, FiniteSets

CONSTANTS
  Tasks,
  Files,       \* source videos
  NoFile,      \* the source object does not exist
  Variants,    \* t.cfg.Variants
  TargetSize,  \* TargetSize[v]
  Positions,   \* positions in the video ffmpeg reports
  PipeSize,    \* lines that fit into the stderr pipe
  MaxLines,    \* bound: lines ffmpeg writes
  MaxFaults,   \* bound: failed calls, ffmpeg's own failures, crashes
  None         \* no message

\* What a video stream of ffprobe's output has
Stream == [width : Nat, height : Nat, rotation : Int, matrices : Seq(Int)]

ASSUME TranscodeAssumption ==
  /\ IsFiniteSet(Tasks) /\ None \notin Tasks
  /\ \A f \in Files : f.duration \in Nat /\ f.lastPicture \in Nat /\ f.streams \in Seq(Stream)
  /\ NoFile \notin Files
  /\ Positions \subseteq Nat
  /\ Variants # {}   \* a configuration without variants fails every task
  /\ {"master", "thumbnail"} \cap Variants = {}
  /\ TargetSize \in [Variants -> Nat] /\ \A v \in Variants : TargetSize[v] >= 2
  /\ PipeSize \in Nat \ {0} /\ MaxLines \in Nat /\ MaxFaults \in Nat

VARIABLES
  file,     \* file[t]: the source object
  row,      \* row[t]: status, progress and output of the video_tasks row
  stage,    \* stage[t]: where its worker is
  thumb,    \* thumb[t]: "none", "empty": ffmpeg was content and wrote no picture, "made"
  ffmpeg,   \* ffmpeg[t]: "none", "running", "ok", "failed", "killed"
  lines,    \* lines[t]: lines ffmpeg has written
  pipe,     \* pipe[t]: positions written and not yet read
  parser,   \* parser[t]: the goroutine, "none", "scan", "call", "done"
  buffer,   \* buffer[t]: the scanner's buffer
  best,     \* best[t]: maxProgress
  told,     \* told[t]: lastReportedProgress
  left,     \* left[t]: output files not yet uploaded
  bucket,   \* the output bucket exists
  objects,  \* keys of the objects in it
  cause,    \* history: what kept the task from its end
  faults

vars == <<file, row, stage, thumb, ffmpeg, lines, pipe, parser, buffer, best, told, left,
          bucket, objects, cause, faults>>
encoder == <<ffmpeg, lines>>
progress == <<parser, buffer, best, told>>
store == <<bucket, objects>>

Stages == {"download", "probe", "save", "thumb", "tell", "start", "run", "list", "tell100",
           "upload", "make", "put", "finish", "fail", "end"}

Init ==
  /\ file \in [Tasks -> Files \cup {NoFile}]
  /\ row = [t \in Tasks |-> [status |-> "processing", progress |-> 0, output |-> {}]]
  /\ stage = [t \in Tasks |-> "download"]
  /\ thumb = [t \in Tasks |-> "none"]
  /\ ffmpeg = [t \in Tasks |-> "none"]
  /\ lines = [t \in Tasks |-> 0]
  /\ pipe = [t \in Tasks |-> << >>]
  /\ parser = [t \in Tasks |-> "none"]
  /\ buffer = [t \in Tasks |-> << >>]
  /\ best = [t \in Tasks |-> 0]
  /\ told = [t \in Tasks |-> -1]
  /\ left = [t \in Tasks |-> {}]
  /\ bucket = FALSE
  /\ objects = {}
  /\ cause = [t \in Tasks |-> {}]
  /\ faults = 0

Goto(t, label) == stage' = [stage EXCEPT ![t] = label]
Blame(t, c) == cause' = [cause EXCEPT ![t] = @ \cup {c}]
Strike(t, c) == faults < MaxFaults /\ faults' = faults + 1 /\ Blame(t, c)
Fault(t) == Strike(t, "fault")
\* a failed call that the worker only logs
Slip == faults < MaxFaults /\ faults' = faults + 1 /\ UNCHANGED cause
NoFault == UNCHANGED <<faults, cause>>

\* A call of the worker's at label from: it goes on, or the task fails.
Succeeds(t, from, to) == stage[t] = from /\ Goto(t, to) /\ NoFault
Fails(t, from) == stage[t] = from /\ Goto(t, "fail") /\ Fault(t)
Refuses(t, from, c) == stage[t] = from /\ Goto(t, "fail") /\ Blame(t, c) /\ UNCHANGED faults

\* UpdateProgress, which asks nothing of the status
Clamp(p) == IF p < 0 THEN 0 ELSE IF p > 100 THEN 100 ELSE p
\* the row as the worker had it, progress changed
SaveProgress(t, p) ==
  row' = [row EXCEPT ![t] = [status |-> "processing", progress |-> Clamp(p), output |-> {}]]
SetProgress(t, p) == row' = [row EXCEPT ![t].progress = Clamp(p)]

\* Update: the whole row, its progress as it was when the worker read it
SaveRow(t, status, p, output) ==
  row' = [row EXCEPT ![t] = [status |-> status, progress |-> p, output |-> output]]
AsRead == 0

-----------------------------------------------------------------------------
(* Up to the start of ffmpeg *)

\* DownloadToWriter: a missing object shows when it is read.
SourceExists(t) == file[t] # NoFile

Download(t) ==
  /\ \/ SourceExists(t) /\ Succeeds(t, "download", "probe")
     \/ ~ SourceExists(t) /\ Refuses(t, "download", "source")
     \/ Fails(t, "download")
  /\ UNCHANGED <<file, row, thumb, encoder, pipe, progress, left, store>>

\* GetVideoInfo
Probe(t) ==
  /\ stage[t] = "probe"
  /\ \/ Valid(file[t]) /\ Succeeds(t, "probe", "save")
     \/ ~ Valid(file[t]) /\ Refuses(t, "probe", "source")
     \/ Fails(t, "probe")
  /\ UNCHANGED <<file, row, thumb, encoder, pipe, progress, left, store>>

\* A failure is only logged.
SaveInfo(t) ==
  /\ stage[t] = "save"
  /\ Goto(t, "thumb")
  /\ \/ SaveRow(t, "processing", AsRead, {}) /\ NoFault
     \/ Slip /\ UNCHANGED row
  /\ UNCHANGED <<file, thumb, encoder, pipe, progress, left, store>>

EndWithoutThumbnail(result) == IF result = "none" THEN "fail" ELSE "tell"
\* A failed thumbnail is logged, and not counted in the progress.
AfterThumbnail(result) == IF result = "none" THEN "start" ELSE "tell"

\* The first picture from 1.00 s on.  If there is none, because the video is no longer
\* than that, or its picture ends before its sound, ffmpeg exits with 0 and writes
\* nothing, and the thumbnail counts as made.
HasThumbnail(f) == f.lastPicture >= 100

Thumbnail(t) ==
  /\ stage[t] = "thumb"
  /\ \E result \in {"none", "empty", "made"} :
       /\ result = "empty" => ~ HasThumbnail(file[t])
       /\ result = "made" => HasThumbnail(file[t])
       /\ thumb' = [thumb EXCEPT ![t] = result]
       /\ Goto(t, AfterThumbnail(result))
  /\ NoFault
  /\ UNCHANGED <<file, row, encoder, pipe, progress, left, store>>

\* onProgress(10) after the thumbnail, onProgress(100) after the master playlist; that
\* UpdateProgress failed is only logged.
Tell(t, from, p, to) ==
  /\ stage[t] = from
  /\ Goto(t, to)
  /\ \/ SetProgress(t, p) /\ NoFault
     \/ Slip /\ UNCHANGED row
  /\ UNCHANGED <<file, thumb, encoder, pipe, progress, left, store>>

\* ffmpeg and the progress goroutine
StartEncoding(t) ==
  /\ \/ /\ Succeeds(t, "start", "run")
        /\ ffmpeg' = [ffmpeg EXCEPT ![t] = "running"]
        /\ parser' = [parser EXCEPT ![t] = "scan"]
     \/ Fails(t, "start") /\ UNCHANGED <<ffmpeg, parser>>
  /\ UNCHANGED <<file, row, thumb, lines, pipe, buffer, best, told, left, store>>

-----------------------------------------------------------------------------
(* ffmpeg *)

HasRoom(t) == Len(pipe[t]) < PipeSize

Emit(t) ==
  /\ ffmpeg[t] = "running"
  /\ lines[t] < MaxLines
  /\ HasRoom(t)
  /\ lines' = [lines EXCEPT ![t] = @ + 1]
  /\ \E p \in Positions : pipe' = [pipe EXCEPT ![t] = Append(@, p)]
  /\ NoFault
  /\ UNCHANGED <<file, row, stage, thumb, ffmpeg, progress, left, store>>

\* -map 0:a: without an audio stream ffmpeg does not even begin.
ExitFfmpeg(t) ==
  /\ ffmpeg[t] = "running"
  /\ \/ /\ file[t].audio
        /\ HasRoom(t)
        /\ ffmpeg' = [ffmpeg EXCEPT ![t] = "ok"]
        /\ NoFault
     \/ /\ ~ file[t].audio
        /\ ffmpeg' = [ffmpeg EXCEPT ![t] = "failed"]
        /\ Blame(t, "source")
        /\ UNCHANGED faults
     \/ /\ file[t].audio
        /\ ffmpeg' = [ffmpeg EXCEPT ![t] = "failed"]
        /\ Fault(t)
  /\ UNCHANGED <<file, row, stage, thumb, lines, pipe, progress, left, store>>

NoTimeout(t) == FALSE
\* timeoutCtx ends while ffmpeg runs
TimeoutDue(t) == ffmpeg[t] = "running"

Timeout(t) ==
  /\ TimeoutDue(t)
  /\ ffmpeg' = [ffmpeg EXCEPT ![t] = "killed"]
  /\ Blame(t, "timeout")
  /\ UNCHANGED <<file, row, stage, thumb, lines, pipe, progress, left, store, faults>>

-----------------------------------------------------------------------------
(* ProgressParser.Parse *)

\* A read of the pipe takes all that is there.
Read(t) ==
  /\ parser[t] = "scan"
  /\ buffer[t] = << >>
  /\ pipe[t] # << >>
  /\ buffer' = [buffer EXCEPT ![t] = pipe[t]]
  /\ pipe' = [pipe EXCEPT ![t] = << >>]
  /\ NoFault
  /\ UNCHANGED <<file, row, stage, thumb, encoder, parser, best, told, left, store>>

Latest(t, p) == p
\* if progress > maxProgress
Highest(t, p) == IF p > best[t] THEN p ELSE best[t]

\* Without a duration there is no progress.
Line(t) ==
  /\ parser[t] = "scan"
  /\ buffer[t] # << >>
  /\ buffer' = [buffer EXCEPT ![t] = Tail(@)]
  /\ IF file[t].duration = 0 THEN UNCHANGED <<best, told, parser>>
     ELSE LET p == Highest(t, PercentOf(Head(buffer[t]), file[t].duration)) IN
          /\ best' = [best EXCEPT ![t] = p]
          /\ told' = [told EXCEPT ![t] = p]
          /\ parser' = [parser EXCEPT ![t] = IF p # told[t] THEN "call" ELSE @]
  /\ NoFault
  /\ UNCHANGED <<file, row, stage, thumb, encoder, pipe, left, store>>

\* The callback.  It does not know how far the worker is; a failure is logged.
Report(t) ==
  /\ parser[t] = "call"
  /\ parser' = [parser EXCEPT ![t] = "scan"]
  /\ \/ SetProgress(t, TotalProgress(told[t])) /\ NoFault
     \/ Slip /\ UNCHANGED row
  /\ UNCHANGED <<file, stage, thumb, encoder, pipe, buffer, best, told, left, store>>

EndOfPipe(t) == ffmpeg[t] # "running" /\ pipe[t] = << >>

ParserEnds(t) ==
  /\ parser[t] = "scan"
  /\ buffer[t] = << >>
  /\ EndOfPipe(t)
  /\ parser' = [parser EXCEPT ![t] = "done"]
  /\ NoFault
  /\ UNCHANGED <<file, row, stage, thumb, encoder, pipe, buffer, best, told, left, store>>

\* 64 KB without a line feed (ffmpeg ends its statistics with a carriage return) are
\* too long a token for the scanner.  Nobody reads the pipe from then on.
GiveUp(t) ==
  /\ parser[t] = "scan"
  /\ buffer[t] = << >>
  /\ ffmpeg[t] = "running"
  /\ parser' = [parser EXCEPT ![t] = "done"]
  /\ NoFault
  /\ UNCHANGED <<file, row, stage, thumb, encoder, pipe, buffer, best, told, left, store>>

-----------------------------------------------------------------------------
(* The end of ffmpeg, playlists, uploads *)

OutputFiles(t) ==
  Variants \cup {"master"} \cup (IF thumb[t] = "made" THEN {"thumbnail"} ELSE {})

\* Wait closes the pipe: what the parser has not read is lost, what it has read is not.
Wait(t) ==
  /\ stage[t] = "run"
  /\ ffmpeg[t] \in {"ok", "failed", "killed"}
  /\ Goto(t, IF ffmpeg[t] = "ok" THEN "list" ELSE "fail")
  /\ pipe' = [pipe EXCEPT ![t] = << >>]
  /\ NoFault
  /\ UNCHANGED <<file, row, thumb, encoder, progress, left, store>>

\* generateMasterPlaylist
List(t) ==
  /\ Succeeds(t, "list", "tell100") \/ Fails(t, "list")
  /\ left' = [left EXCEPT ![t] = OutputFiles(t)]
  /\ UNCHANGED <<file, row, thumb, encoder, pipe, progress, store>>

UnderOutput(t, f) == <<"output", f>>
\* The key of output file f: the task id, and its path below outputDir
ObjectKey(t, f) == <<t, f>>

\* The paths in OutputInfo, with the task id put in front
Output(t) ==
  {<<t, f>> : f \in Variants \cup {"master"} \cup (IF thumb[t] # "none" THEN {"thumbnail"} ELSE {})}

\* What the lines of master.m3u8 name, relative to its own key
Listed(t) == {<<t, v>> : v \in Variants}

\* ensureBucketExists, for each file: BucketExists
CheckBucket(t) ==
  /\ left[t] # {}
  /\ Succeeds(t, "upload", IF bucket THEN "put" ELSE "make") \/ Fails(t, "upload")
  /\ UNCHANGED <<file, row, thumb, encoder, pipe, progress, left, store>>

\* MakeBucket is refused when somebody else has created it meanwhile.
MakeBucket(t) ==
  /\ \/ ~ bucket /\ Succeeds(t, "make", "put") /\ bucket' = TRUE
     \/ bucket /\ Refuses(t, "make", "bucket") /\ UNCHANGED bucket
     \/ Fails(t, "make") /\ UNCHANGED bucket
  /\ UNCHANGED <<file, row, thumb, encoder, pipe, progress, left, objects>>

Put(t) ==
  /\ \/ /\ Succeeds(t, "put", "upload")
        /\ \E f \in left[t] :
             /\ left' = [left EXCEPT ![t] = @ \ {f}]
             /\ objects' = objects \cup {ObjectKey(t, f)}
     \/ Fails(t, "put") /\ UNCHANGED <<left, objects>>
  /\ UNCHANGED <<file, row, thumb, encoder, pipe, progress, bucket>>

Uploaded(t) ==
  /\ left[t] = {}
  /\ Succeeds(t, "upload", "finish")
  /\ UNCHANGED <<file, row, thumb, encoder, pipe, progress, left, store>>

Finish(t) ==
  /\ stage[t] = "finish"
  /\ Goto(t, "end")
  /\ \/ SaveRow(t, "success", 100, Output(t)) /\ NoFault
     \/ Fault(t) /\ UNCHANGED row
  /\ UNCHANGED <<file, thumb, encoder, pipe, progress, left, store>>

\* handleTaskError
Fail(t) ==
  /\ stage[t] = "fail"
  /\ Goto(t, "end")
  /\ \/ SaveRow(t, "failed", AsRead, {}) /\ NoFault
     \/ Fault(t) /\ UNCHANGED row
  /\ UNCHANGED <<file, thumb, encoder, pipe, progress, left, store>>

-----------------------------------------------------------------------------
(* Around it *)

\* The worker's process is gone, with ffmpeg and the parser.
Crash(t) ==
  /\ stage[t] # "end"
  /\ Strike(t, "crash")
  /\ Goto(t, "end")
  /\ ffmpeg' = [ffmpeg EXCEPT ![t] = "none"]
  /\ parser' = [parser EXCEPT ![t] = "none"]
  /\ UNCHANGED <<file, row, thumb, lines, pipe, buffer, best, told, left, store>>

\* Another worker, or an operator, creates the bucket.
BucketAppears ==
  /\ ~ bucket
  /\ bucket' = TRUE
  /\ NoFault
  /\ UNCHANGED <<file, row, stage, thumb, encoder, pipe, progress, left, objects>>

-----------------------------------------------------------------------------
WorkerStep(t) ==
  \/ Download(t) \/ Probe(t) \/ SaveInfo(t) \/ Thumbnail(t) \/ Tell(t, "tell", 10, "start")
  \/ StartEncoding(t) \/ Wait(t) \/ List(t) \/ Tell(t, "tell100", 100, "upload") \/ CheckBucket(t)
  \/ MakeBucket(t) \/ Put(t) \/ Uploaded(t) \/ Finish(t) \/ Fail(t)

ParserStep(t) == Read(t) \/ Line(t) \/ Report(t) \/ ParserEnds(t)

Next ==
  \/ \E t \in Tasks :
       WorkerStep(t) \/ ParserStep(t) \/ GiveUp(t) \/ Emit(t) \/ ExitFfmpeg(t) \/ Timeout(t) \/ Crash(t)
  \/ BucketAppears

Spec == Init /\ [][Next]_vars

\* ffmpeg comes to an end if it is not blocked; the deadline of timeoutCtx comes.
LiveSpec ==
  Spec /\ \A t \in Tasks : WF_vars(WorkerStep(t)) /\ WF_vars(ParserStep(t))
                           /\ WF_vars(ExitFfmpeg(t)) /\ WF_vars(Timeout(t))
-----------------------------------------------------------------------------
TypeOK ==
  /\ file \in [Tasks -> Files \cup {NoFile}]
  /\ \A t \in Tasks :
       /\ row[t].status \in {"processing", "success", "failed"}
       /\ row[t].progress \in 0..100
       /\ stage[t] \in Stages
       /\ stage[t] \notin {"download", "fail", "end"} => file[t] # NoFile
       /\ thumb[t] \in {"none", "empty", "made"}
       /\ ffmpeg[t] \in {"none", "running", "ok", "failed", "killed"}
       /\ parser[t] \in {"none", "scan", "call", "done"}
       /\ Len(pipe[t]) <= PipeSize /\ Len(buffer[t]) <= PipeSize
       /\ best[t] \in 0..100 /\ told[t] \in -1..best[t]
       /\ left[t] \subseteq Variants \cup {"master", "thumbnail"}
  /\ bucket \in BOOLEAN
  /\ faults \in 0..MaxFaults

(* A task is reported as successful only when the bucket holds whatever    *)
(* its output and its master playlist name: every playlist, and the        *)
(* thumbnail, except that of a video without a picture at or after 1.00 s, *)
(* which is named and was never made.  Neither a failed upload nor a lost  *)
(* race for the bucket nor the renaming of the paths leaves a successful   *)
(* task with another dead link.                                            *)
SuccessIsPlayable ==
  \A t \in Tasks : row[t].status = "success" =>
    /\ bucket
    /\ Listed(t) \subseteq objects
    /\ \A k \in row[t].output :
         k \in objects \/ (k[2] = "thumbnail" /\ ~ HasThumbnail(file[t]))

(* What WorkerPool takes the work on a task to be is all it is: whatever   *)
(* the worker, ffmpeg and the late parser do to the row is SaveInfo,       *)
(* FailTask, Succeed or Crash of WorkerPool, or nothing the pool can see.  *)
(* Here every worker is named by its task, which is also its message.  A   *)
(* task about to fail counts as encoding: FailTask is the same for both.   *)
Crashed(t) == "crash" \in cause[t]

PoolPc(t) ==
  CASE Crashed(t) -> "idle"
    [] ~ Crashed(t) /\ stage[t] = "end" -> "ack"
    [] ~ Crashed(t) /\ stage[t] \in {"download", "probe", "save"} -> "work"
    [] OTHER -> "encode"

\* the last save went wrong, or was never reached
Unsaved(t) == stage[t] = "end" /\ row[t].status = "processing"

W == INSTANCE WorkerPool WITH
  Messages <- Tasks, TaskOf <- [t \in Tasks |-> t], Workers <- Tasks,
  Recoverers <- {}, MaxCopies <- 1,
  status <- [t \in Tasks |-> row[t].status],
  sent <- [t \in Tasks |-> 1],
  ready <- [t \in Tasks |-> IF Crashed(t) THEN 1 ELSE 0],
  marks <- Tasks,
  pc <- [t \in Tasks |-> PoolPc(t)],
  msg <- [t \in Tasks |-> IF Crashed(t) THEN None ELSE t],
  up <- [t \in Tasks |-> TRUE],
  stopping <- [t \in Tasks |-> FALSE],
  seen <- [r \in {} |-> None],
  hit <- [t \in Tasks |-> Unsaved(t)],
  regress <- [t \in Tasks |-> 0],
  faults <- Cardinality({t \in Tasks : Unsaved(t)})

StepsOfPool ==
  [][\E t \in Tasks : W!SaveInfo(t) \/ W!FailTask(t) \/ W!Succeed(t) \/ W!Crash(t)]_(W!vars)

(* While ffmpeg runs, the progress clients see never falls, in whatever    *)
(* order the positions of several outputs arrive.                          *)
ProgressGrows ==
  [][\A t \in Tasks : stage[t] = "run" => row'[t].progress >= row[t].progress]_vars

(* A sound source becomes a successful task, unless the deadline, a crash, *)
(* the race for the bucket or a fault of a call that the task needs is in  *)
(* the way.  A thumbnail, a progress report or a save of the video's data  *)
(* that goes wrong is no such cause, and fails no task.                    *)
Sound(f) == f # NoFile /\ Valid(f) /\ f.audio

SoundTaskSucceeds ==
  \A t \in Tasks :
    Sound(file[t]) ~> (row[t].status = "success" \/ cause[t] \ {"source"} # {})

(* rotation.go and scale.go act on one picture: what is encoded from a     *)
(* file with one video stream has the shape of its picture turned upright, *)
(* sides H.264 accepts, and the size the master playlist names.  (With a   *)
(* second one, a cover image, size and rotation are the last stream's, the *)
(* picture is the first one's.)                                            *)
EncodedKeepsShape ==
  \A t \in Tasks : ffmpeg[t] # "none" /\ Len(file[t].streams) = 1 =>
    \A v \in Variants :
      LET e == Encoding(file[t], TargetSize[v]) IN
      EvenSides(e[2]) /\ SameShape(e[2], e[1]) /\ ListedSize(file[t], TargetSize[v]) = e[2]

(* The worker and the progress goroutine come to an end, although ffmpeg   *)
(* may be blocked on a pipe that nobody reads any more: the deadline of    *)
(* the encoding ends it.                                                   *)
TaskEnds == \A t \in Tasks : <>(stage[t] = "end" /\ parser[t] \in {"none", "done"})

-----------------------------------------------------------------------------
(* progress.go:28: the maximum is tracked to keep progress from falling    *)
(* back.  A task that goes on or has succeeded should not show less than   *)
(* before.                                                                 *)
ProgressNeverFallsBack ==
  [][\A t \in Tasks : row'[t].status # "failed" => row'[t].progress >= row[t].progress]_vars
=============================================================================
