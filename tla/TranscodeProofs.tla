-------------------------- MODULE TranscodeProofs --------------------------
(***************************************************************************)
(* Proofs about Transcode, for any number of tasks, files, variants, lines *)
(* and faults: success can be played, progress grows while ffmpeg runs,    *)
(* and what is encoded keeps its shape.                                    *)
(***************************************************************************)
EXTENDS Transcode, MediaProofs, SequenceTheorems, FiniteSetTheorems

Names == Variants \cup {"master", "thumbnail"}
TaskRow == [status : {"processing", "success", "failed"}, progress : 0..100,
            output : SUBSET (Tasks \X Names)]

\* Shapes only; TypeOK of Transcode has the rest.
Shapes ==
  /\ file \in [Tasks -> Files \cup {NoFile}]
  /\ row \in [Tasks -> TaskRow]
  /\ stage \in [Tasks -> Stages]
  /\ thumb \in [Tasks -> {"none", "empty", "made"}]
  /\ ffmpeg \in [Tasks -> {"none", "running", "ok", "failed", "killed"}]
  /\ parser \in [Tasks -> {"none", "scan", "call", "done"}]
  /\ pipe \in [Tasks -> Seq(Positions)] /\ buffer \in [Tasks -> Seq(Positions)]
  /\ best \in [Tasks -> 0..100] /\ told \in [Tasks -> {-1} \cup (0..100)]
  /\ left \in [Tasks -> SUBSET Names]

\* The source is there, and accepted from the save on.
FileRead(t) ==
  /\ stage[t] \notin {"download", "fail", "end"} => file[t] \in Files
  /\ stage[t] \in {"save", "thumb", "tell", "start"} => Valid(file[t])
  /\ parser[t] # "none" \/ ffmpeg[t] # "none" => file[t] \in Files /\ Valid(file[t])
  /\ parser[t] = "call" => told[t] >= 0

BaseInv == Shapes /\ \A t \in Tasks : FileRead(t)

-----------------------------------------------------------------------------
LEMMA OutputType == \A t \in Tasks : OutputFiles(t) \subseteq Names /\ Output(t) \subseteq Tasks \X Names
BY DEF OutputFiles, Output, Names

LEMMA RowTypes ==
  ASSUME Shapes, NEW t \in Tasks
  PROVE  /\ \A p \in Int : SetProgress(t, p) => row' \in [Tasks -> TaskRow]
         /\ \A status \in {"processing", "success", "failed"}, p \in 0..100,
               output \in SUBSET (Tasks \X Names) :
              SaveRow(t, status, p, output) => row' \in [Tasks -> TaskRow]
<1>1. ASSUME NEW p \in Int, SetProgress(t, p)
      PROVE  row' \in [Tasks -> TaskRow]
  <2>1. Clamp(p) \in 0..100
        BY DEF Clamp
  <2>2. row' = [row EXCEPT ![t].progress = Clamp(p)] /\ row \in [Tasks -> TaskRow]
        BY <1>1 DEF SetProgress, Shapes
  <2>3. QED
        BY <2>1, <2>2 DEF TaskRow
<1>2. ASSUME NEW status \in {"processing", "success", "failed"}, NEW p \in 0..100,
             NEW output \in SUBSET (Tasks \X Names), SaveRow(t, status, p, output)
      PROVE  row' \in [Tasks -> TaskRow]
      BY <1>2 DEF SaveRow, Shapes, TaskRow
<1>3. QED
      BY <1>1, <1>2

LEMMA BaseInit == Init => BaseInv
<1> SUFFICES ASSUME Init
             PROVE  BaseInv
    OBVIOUS
<1>1. row \in [Tasks -> TaskRow]
      BY DEF Init, TaskRow
<1>2. << >> \in Seq(Positions)
      OBVIOUS
<1>3. Shapes
      BY <1>1, <1>2 DEF Init, Shapes, Stages
<1>4. \A t \in Tasks : FileRead(t)
      BY DEF Init, FileRead
<1>5. QED
      BY <1>3, <1>4 DEF BaseInv

\* What a step does to the tasks it is not about: nothing.
Alone(t) ==
  \A u \in Tasks \ {t} :
    /\ stage'[u] = stage[u] /\ row'[u] = row[u] /\ thumb'[u] = thumb[u] /\ left'[u] = left[u]
    /\ ffmpeg'[u] = ffmpeg[u] /\ parser'[u] = parser[u] /\ best'[u] = best[u] /\ told'[u] = told[u]

\* The steps of ffmpeg and of the parser leave the worker where it is.
LEMMA MachineBase ==
  ASSUME BaseInv, NEW t \in Tasks,
         ParserStep(t) \/ GiveUp(t) \/ Emit(t) \/ ExitFfmpeg(t) \/ Timeout(t)
  PROVE  Shapes' /\ FileRead(t)' /\ Alone(t)
<1>1. Shapes /\ FileRead(t)
      BY DEF BaseInv
<1> USE DEF encoder, progress, store
<1>2. CASE Read(t)
  <2>1. pipe[t] \in Seq(Positions)
        BY <1>1 DEF Shapes
  <2>2. Shapes'
        BY <1>1, <1>2, <2>1 DEF Read, Shapes
  <2>3. FileRead(t)' /\ Alone(t)
        BY <1>1, <1>2 DEF Read, FileRead, Alone
  <2>4. QED
        BY <2>2, <2>3
<1>3. CASE Line(t)
  <2>1. parser[t] = "scan" /\ file[t] \in Files /\ buffer[t] \in Seq(Positions) /\ buffer[t] # << >>
        BY <1>1, <1>3 DEF Line, FileRead, Shapes
  <2>2. Head(buffer[t]) \in Nat /\ Tail(buffer[t]) \in Seq(Positions) /\ file[t].duration \in Nat
    <3>1. Head(buffer[t]) \in Positions /\ Tail(buffer[t]) \in Seq(Positions)
          BY <2>1, HeadTailProperties
    <3>2. QED
          BY <2>1, <3>1, TranscodeAssumption
  <2>3. PICK p \in 0..100 :
          \/ UNCHANGED <<best, told, parser>>
          \/ /\ best' = [best EXCEPT ![t] = p]
             /\ told' = [told EXCEPT ![t] = p]
             /\ \/ UNCHANGED parser
                \/ parser' = [parser EXCEPT ![t] = "call"]
    <3>1. CASE file[t].duration = 0
          BY <1>3, <3>1 DEF Line
    <3>2. CASE file[t].duration # 0
      <4> DEFINE q == PercentOf(Head(buffer[t]), file[t].duration)
                 p == Highest(t, q)
      <4>1. q \in 0..100
            BY <2>2, <3>2, PercentType
      <4> HIDE DEF q
      <4>2. p \in 0..100
            BY <1>1, <4>1 DEF Highest, Shapes
      <4>3. /\ best' = [best EXCEPT ![t] = p]
            /\ told' = [told EXCEPT ![t] = p]
            /\ parser' = [parser EXCEPT ![t] = IF p # told[t] THEN "call" ELSE @]
            BY <1>3, <3>2 DEF Line, q
      <4> HIDE DEF p
      <4>4. UNCHANGED parser \/ parser' = [parser EXCEPT ![t] = "call"]
        <5>1. CASE p # told[t]
              BY <4>3, <5>1
        <5>2. CASE p = told[t]
              BY <1>1, <4>3, <5>2 DEF Shapes
        <5>3. QED
              BY <5>1, <5>2
      <4>5. QED
            BY <4>2, <4>3, <4>4
    <3>3. QED
          BY <3>1, <3>2
  <2>4. Shapes'
    <3>1. buffer' \in [Tasks -> Seq(Positions)]
          BY <1>1, <1>3, <2>2 DEF Line, Shapes
    <3>2. /\ best' \in [Tasks -> 0..100] /\ told' \in [Tasks -> {-1} \cup (0..100)]
          /\ parser' \in [Tasks -> {"none", "scan", "call", "done"}]
      <4>1. p \in {-1} \cup (0..100)
            BY <2>3
      <4>2. best' \in [Tasks -> 0..100]
            BY <1>1, <2>3 DEF Shapes
      <4>3. told' \in [Tasks -> {-1} \cup (0..100)]
            BY <1>1, <2>3, <4>1 DEF Shapes
      <4>4. parser' \in [Tasks -> {"none", "scan", "call", "done"}]
            BY <1>1, <2>3 DEF Shapes
      <4>5. QED
            BY <4>2, <4>3, <4>4
    <3>3. UNCHANGED <<file, row, stage, thumb, encoder, pipe, left>>
          BY <1>3 DEF Line
    <3>4. QED
          BY <1>1, <3>1, <3>2, <3>3 DEF Shapes
  <2>5. FileRead(t)' /\ Alone(t)
        BY <1>1, <1>3, <2>1, <2>3 DEF Line, FileRead, Alone, Shapes
  <2>6. QED
        BY <2>4, <2>5
<1>4. CASE Report(t)
  <2>1. TotalProgress(told[t]) \in Int
    <3>1. told[t] \in {-1} \cup (0..100)
      <4>1. told \in [Tasks -> {-1} \cup (0..100)]
            BY <1>1 DEF Shapes
      <4>2. QED
            BY <4>1
    <3>2. told[t] >= 0
          BY <1>1, <1>4 DEF Report, FileRead
    <3>3. told[t] \in 0..100
          BY <3>1, <3>2
    <3>4. QED
          BY <3>3, TotalBounds
  <2>2. row' \in [Tasks -> TaskRow]
        BY <1>1, <1>4, <2>1, RowTypes DEF Report, Shapes
  <2>3. Shapes'
        BY <1>1, <1>4, <2>2 DEF Report, Shapes
  <2>4. FileRead(t)' /\ Alone(t)
        BY <1>1, <1>4 DEF Report, SetProgress, FileRead, Alone, Shapes
  <2>5. QED
        BY <2>3, <2>4
<1>5. CASE ParserEnds(t) \/ GiveUp(t)
      BY <1>1, <1>5 DEF ParserEnds, GiveUp, Shapes, FileRead, Alone
<1>6. CASE Emit(t)
  <2>1. PICK p \in Positions : pipe' = [pipe EXCEPT ![t] = Append(@, p)]
        BY <1>6 DEF Emit
  <2>2. Append(pipe[t], p) \in Seq(Positions)
        BY <1>1, <2>1 DEF Shapes
  <2>3. Shapes'
        BY <1>1, <1>6, <2>1, <2>2 DEF Emit, Shapes
  <2>4. FileRead(t)' /\ Alone(t)
        BY <1>1, <1>6 DEF Emit, FileRead, Alone
  <2>5. QED
        BY <2>3, <2>4
<1>7. CASE ExitFfmpeg(t) \/ Timeout(t)
  <2>1. ffmpeg[t] = "running" /\ file[t] \in Files /\ Valid(file[t])
        BY <1>1, <1>7 DEF ExitFfmpeg, Timeout, TimeoutDue, FileRead
  <2>2. PICK result \in {"ok", "failed", "killed"} : ffmpeg' = [ffmpeg EXCEPT ![t] = result]
        BY <1>7 DEF ExitFfmpeg, Timeout
  <2>3. UNCHANGED <<file, row, stage, thumb, pipe, progress, left>>
        BY <1>7 DEF ExitFfmpeg, Timeout
  <2>4. QED
        BY <1>1, <2>1, <2>2, <2>3 DEF Shapes, FileRead, Alone
<1>8. QED
      BY <1>2, <1>3, <1>4, <1>5, <1>6, <1>7 DEF ParserStep

\* A call of the worker's: it goes on, or the task fails.
LEMMA StageTypes ==
  ASSUME Shapes, NEW t \in Tasks, NEW label \in Stages, Goto(t, label)
  PROVE  /\ stage' \in [Tasks -> Stages] /\ stage'[t] = label
         /\ \A u \in Tasks \ {t} : stage'[u] = stage[u]
BY DEF Goto, Shapes

\* The calls that leave the row, the thumbnail and the list of files alone.
LEMMA CallBase ==
  ASSUME BaseInv, NEW t \in Tasks, NEW label \in Stages, Goto(t, label),
         UNCHANGED <<file, row, thumb, encoder, pipe, progress, left>>,
         label \notin {"download", "fail", "end"} => file[t] \in Files,
         label \in {"save", "thumb", "tell", "start"} => Valid(file[t])
  PROVE  Shapes' /\ FileRead(t)' /\ Alone(t)
<1>1. Shapes /\ FileRead(t)
      BY DEF BaseInv
<1>2. /\ stage' \in [Tasks -> Stages] /\ stage'[t] = label
      /\ \A u \in Tasks \ {t} : stage'[u] = stage[u]
      BY <1>1, StageTypes
<1>3. Shapes'
      BY <1>1, <1>2 DEF Shapes, encoder, progress
<1>4. FileRead(t)' /\ Alone(t)
      BY <1>1, <1>2 DEF FileRead, Alone, encoder, progress
<1>5. QED
      BY <1>3, <1>4

\* The calls that write the row.
LEMMA RowBase ==
  ASSUME BaseInv, NEW t \in Tasks, NEW label \in Stages, Goto(t, label),
         row' \in [Tasks -> TaskRow], \A u \in Tasks \ {t} : row'[u] = row[u],
         UNCHANGED <<file, thumb, encoder, pipe, progress, left>>,
         label \notin {"download", "fail", "end"} => file[t] \in Files,
         label \in {"save", "thumb", "tell", "start"} => Valid(file[t])
  PROVE  Shapes' /\ FileRead(t)' /\ Alone(t)
<1>1. Shapes /\ FileRead(t)
      BY DEF BaseInv
<1>2. /\ stage' \in [Tasks -> Stages] /\ stage'[t] = label
      /\ \A u \in Tasks \ {t} : stage'[u] = stage[u]
      BY <1>1, StageTypes
<1>3. Shapes'
      BY <1>1, <1>2 DEF Shapes, encoder, progress
<1>4. FileRead(t)' /\ Alone(t)
      BY <1>1, <1>2 DEF FileRead, Alone, encoder, progress
<1>5. QED
      BY <1>3, <1>4

LEMMA RowWritten ==
  ASSUME Shapes, NEW t \in Tasks
  PROVE  /\ \A p \in {10, 100} : SetProgress(t, p) =>
              row' \in [Tasks -> TaskRow] /\ \A u \in Tasks \ {t} : row'[u] = row[u]
         /\ SaveRow(t, "processing", AsRead, {}) \/ SaveRow(t, "failed", AsRead, {})
              \/ SaveRow(t, "success", 100, Output(t))
              => row' \in [Tasks -> TaskRow] /\ \A u \in Tasks \ {t} : row'[u] = row[u]
         /\ UNCHANGED row => row' \in [Tasks -> TaskRow] /\ \A u \in Tasks \ {t} : row'[u] = row[u]
<1>1. AsRead \in 0..100 /\ 100 \in 0..100 /\ Output(t) \in SUBSET (Tasks \X Names)
      BY OutputType DEF AsRead
<1>2. \A p : SetProgress(t, p) => \A u \in Tasks \ {t} : row'[u] = row[u]
      BY DEF SetProgress, Shapes
<1>3. \A status, p, output : SaveRow(t, status, p, output) => \A u \in Tasks \ {t} : row'[u] = row[u]
      BY DEF SaveRow, Shapes
<1>4. UNCHANGED row => row' \in [Tasks -> TaskRow] /\ \A u \in Tasks \ {t} : row'[u] = row[u]
      BY DEF Shapes
<1>5. \A p \in {10, 100} : SetProgress(t, p) => row' \in [Tasks -> TaskRow]
  <2>1. SUFFICES ASSUME NEW p \in {10, 100}, SetProgress(t, p)
                 PROVE  row' \in [Tasks -> TaskRow]
        OBVIOUS
  <2>2. p \in Int
        OBVIOUS
  <2>3. QED
        BY <2>1, <2>2, RowTypes
<1>6. /\ SaveRow(t, "processing", AsRead, {}) => row' \in [Tasks -> TaskRow]
      /\ SaveRow(t, "failed", AsRead, {}) => row' \in [Tasks -> TaskRow]
      /\ SaveRow(t, "success", 100, Output(t)) => row' \in [Tasks -> TaskRow]
      BY <1>1, RowTypes
<1>7. QED
      BY <1>2, <1>3, <1>4, <1>5, <1>6

LEMMA WorkerBase ==
  ASSUME BaseInv, NEW t \in Tasks, WorkerStep(t)
  PROVE  Shapes' /\ FileRead(t)' /\ Alone(t)
<1>1. Shapes /\ FileRead(t)
      BY DEF BaseInv
<1> USE DEF store
<1>2. CASE Download(t)
  <2>1. SourceExists(t) => file[t] \in Files
        BY <1>1 DEF SourceExists, Shapes
  <2>2. UNCHANGED <<file, row, thumb, encoder, pipe, progress, left>>
        BY <1>2 DEF Download
  <2>3. Goto(t, "fail") \/ (SourceExists(t) /\ Goto(t, "probe"))
        BY <1>2 DEF Download, Succeeds, Refuses, Fails
  <2>4. QED
        BY <2>1, <2>2, <2>3, CallBase DEF Stages
<1>3. CASE Probe(t)
  <2>1. file[t] \in Files
        BY <1>1, <1>3 DEF Probe, FileRead
  <2>2. UNCHANGED <<file, row, thumb, encoder, pipe, progress, left>>
        BY <1>3 DEF Probe
  <2>3. Goto(t, "fail") \/ (Valid(file[t]) /\ Goto(t, "save"))
        BY <1>3 DEF Probe, Succeeds, Refuses, Fails
  <2>4. QED
        BY <2>1, <2>2, <2>3, CallBase DEF Stages
<1>4. CASE SaveInfo(t)
  <2>1. file[t] \in Files /\ Valid(file[t])
        BY <1>1, <1>4 DEF SaveInfo, FileRead
  <2>2. UNCHANGED <<file, thumb, encoder, pipe, progress, left>> /\ Goto(t, "thumb")
        BY <1>4 DEF SaveInfo
  <2>3. row' \in [Tasks -> TaskRow] /\ \A u \in Tasks \ {t} : row'[u] = row[u]
        BY <1>1, <1>4, RowWritten DEF SaveInfo
  <2>4. QED
        BY <2>1, <2>2, <2>3, RowBase DEF Stages
<1>5. CASE Thumbnail(t)
  <2>1. PICK result \in {"none", "empty", "made"} :
          thumb' = [thumb EXCEPT ![t] = result] /\ Goto(t, AfterThumbnail(result))
        BY <1>5 DEF Thumbnail
  <2>2. PICK label \in {"start", "tell"} : label = AfterThumbnail(result)
        BY DEF AfterThumbnail
  <2>3. /\ stage' \in [Tasks -> Stages] /\ stage'[t] = label
        /\ \A u \in Tasks \ {t} : stage'[u] = stage[u]
        BY <1>1, <2>1, <2>2, StageTypes DEF Stages
  <2>4. UNCHANGED <<file, row, encoder, pipe, progress, left>>
        BY <1>5 DEF Thumbnail
  <2>5. Shapes'
        BY <1>1, <2>1, <2>3, <2>4 DEF Shapes, encoder, progress
  <2>6. FileRead(t)'
        BY <1>1, <1>5, <2>3, <2>4 DEF Thumbnail, FileRead, encoder, progress
  <2>7. Alone(t)
        BY <1>1, <2>1, <2>3, <2>4 DEF Alone, Shapes, encoder, progress
  <2>8. QED
        BY <2>5, <2>6, <2>7
<1>6. CASE Tell(t, "tell", 10, "start") \/ Tell(t, "tell100", 100, "upload")
  <2>1. PICK p \in {10, 100}, label \in {"start", "upload"} :
          /\ label = "start" => stage[t] = "tell"
          /\ label = "upload" => stage[t] = "tell100"
          /\ Goto(t, label)
          /\ SetProgress(t, p) \/ UNCHANGED row
        BY <1>6 DEF Tell
  <2>2. UNCHANGED <<file, thumb, encoder, pipe, progress, left>>
        BY <1>6 DEF Tell
  <2>3. row' \in [Tasks -> TaskRow] /\ \A u \in Tasks \ {t} : row'[u] = row[u]
        BY <1>1, <2>1, RowWritten
  <2>4. file[t] \in Files /\ (label = "start" => Valid(file[t]))
        BY <1>1, <2>1 DEF FileRead
  <2>5. QED
        BY <2>1, <2>2, <2>3, <2>4, RowBase DEF Stages
<1>7. CASE StartEncoding(t)
  <2>1. stage[t] = "start" /\ file[t] \in Files /\ Valid(file[t])
        BY <1>1, <1>7 DEF StartEncoding, Succeeds, Fails, FileRead
  <2>2. PICK label \in {"run", "fail"} : Goto(t, label)
        BY <1>7 DEF StartEncoding, Succeeds, Fails
  <2>3. /\ stage' \in [Tasks -> Stages] /\ stage'[t] = label
        /\ \A u \in Tasks \ {t} : stage'[u] = stage[u]
        BY <1>1, <2>2, StageTypes DEF Stages
  <2>4. UNCHANGED <<file, row, thumb, lines, pipe, buffer, best, told, left>>
        BY <1>7 DEF StartEncoding
  <2>5. \/ UNCHANGED <<ffmpeg, parser>>
        \/ /\ ffmpeg' = [ffmpeg EXCEPT ![t] = "running"]
           /\ parser' = [parser EXCEPT ![t] = "scan"]
        BY <1>7 DEF StartEncoding
  <2>6. Shapes'
        BY <1>1, <2>3, <2>4, <2>5 DEF Shapes
  <2>7. FileRead(t)'
        BY <1>1, <2>1, <2>3, <2>4, <2>5 DEF FileRead, Shapes
  <2>8. Alone(t)
        BY <1>1, <2>3, <2>4, <2>5 DEF Alone, Shapes
  <2>9. QED
        BY <2>6, <2>7, <2>8
<1>8. CASE Wait(t)
  <2>1. file[t] \in Files
        BY <1>1, <1>8 DEF Wait, FileRead
  <2>2. PICK label \in {"list", "fail"} : Goto(t, label)
        BY <1>8 DEF Wait
  <2>3. /\ stage' \in [Tasks -> Stages] /\ stage'[t] = label
        /\ \A u \in Tasks \ {t} : stage'[u] = stage[u]
        BY <1>1, <2>2, StageTypes DEF Stages
  <2>4. /\ UNCHANGED <<file, row, thumb, encoder, progress, left>>
        /\ pipe' = [pipe EXCEPT ![t] = << >>]
        BY <1>8 DEF Wait
  <2>5. << >> \in Seq(Positions)
        OBVIOUS
  <2>6. Shapes'
        BY <1>1, <2>3, <2>4, <2>5 DEF Shapes, encoder, progress
  <2>7. FileRead(t)' /\ Alone(t)
        BY <1>1, <2>1, <2>3, <2>4 DEF FileRead, Alone, encoder, progress
  <2>8. QED
        BY <2>6, <2>7
<1>9. CASE List(t)
  <2>1. file[t] \in Files
        BY <1>1, <1>9 DEF List, Succeeds, Fails, FileRead
  <2>2. PICK label \in {"tell100", "fail"} : Goto(t, label)
        BY <1>9 DEF List, Succeeds, Fails
  <2>3. /\ stage' \in [Tasks -> Stages] /\ stage'[t] = label
        /\ \A u \in Tasks \ {t} : stage'[u] = stage[u]
        BY <1>1, <2>2, StageTypes DEF Stages
  <2>4. /\ UNCHANGED <<file, row, thumb, encoder, pipe, progress>>
        /\ left' = [left EXCEPT ![t] = OutputFiles(t)]
        BY <1>9 DEF List
  <2>5. Shapes'
        BY <1>1, <2>3, <2>4, OutputType DEF Shapes, encoder, progress
  <2>6. FileRead(t)' /\ Alone(t)
        BY <1>1, <2>1, <2>3, <2>4 DEF FileRead, Alone, Shapes, encoder, progress
  <2>7. QED
        BY <2>5, <2>6
<1>10. CASE CheckBucket(t) \/ MakeBucket(t) \/ Uploaded(t)
  <2>1. file[t] \in Files
        BY <1>1, <1>10 DEF CheckBucket, MakeBucket, Uploaded, Succeeds, Fails, Refuses, FileRead
  <2>2. PICK label \in {"put", "make", "finish", "fail"} : Goto(t, label)
    <3>1. CASE CheckBucket(t)
          BY <3>1 DEF CheckBucket, Succeeds, Fails
    <3>2. CASE MakeBucket(t) \/ Uploaded(t)
          BY <3>2 DEF MakeBucket, Uploaded, Succeeds, Fails, Refuses
    <3>3. QED
          BY <1>10, <3>1, <3>2
  <2>3. UNCHANGED <<file, row, thumb, encoder, pipe, progress, left>>
        BY <1>10 DEF CheckBucket, MakeBucket, Uploaded
  <2>4. QED
        BY <2>1, <2>2, <2>3, CallBase DEF Stages
<1>11. CASE Put(t)
  <2>1. file[t] \in Files
        BY <1>1, <1>11 DEF Put, Succeeds, Fails, FileRead
  <2>2. PICK label \in {"upload", "fail"} : Goto(t, label)
        BY <1>11 DEF Put, Succeeds, Fails
  <2>3. /\ stage' \in [Tasks -> Stages] /\ stage'[t] = label
        /\ \A u \in Tasks \ {t} : stage'[u] = stage[u]
        BY <1>1, <2>2, StageTypes DEF Stages
  <2>4. /\ UNCHANGED <<file, row, thumb, encoder, pipe, progress>>
        /\ UNCHANGED left \/ \E f \in left[t] : left' = [left EXCEPT ![t] = @ \ {f}]
        BY <1>11 DEF Put
  <2>5. left' \in [Tasks -> SUBSET Names] /\ \A u \in Tasks \ {t} : left'[u] = left[u]
        BY <1>1, <2>4 DEF Shapes
  <2>6. Shapes'
        BY <1>1, <2>3, <2>4, <2>5 DEF Shapes, encoder, progress
  <2>7. FileRead(t)' /\ Alone(t)
        BY <1>1, <2>1, <2>3, <2>4, <2>5 DEF FileRead, Alone, encoder, progress
  <2>8. QED
        BY <2>6, <2>7
<1>12. CASE Finish(t) \/ Fail(t)
  <2>1. UNCHANGED <<file, thumb, encoder, pipe, progress, left>> /\ Goto(t, "end")
        BY <1>12 DEF Finish, Fail
  <2>2. row' \in [Tasks -> TaskRow] /\ \A u \in Tasks \ {t} : row'[u] = row[u]
    <3>1. \/ SaveRow(t, "failed", AsRead, {}) \/ SaveRow(t, "success", 100, Output(t))
          \/ UNCHANGED row
          BY <1>12 DEF Finish, Fail
    <3>2. QED
          BY <1>1, <3>1, RowWritten
  <2>3. QED
        BY <2>1, <2>2, RowBase DEF Stages
<1>13. QED
      BY <1>2, <1>3, <1>4, <1>5, <1>6, <1>7, <1>8, <1>9, <1>10, <1>11, <1>12 DEF WorkerStep

LEMMA CrashBase ==
  ASSUME BaseInv, NEW t \in Tasks, Crash(t)
  PROVE  Shapes' /\ FileRead(t)' /\ Alone(t)
<1>1. Shapes
      BY DEF BaseInv
<1>2. /\ stage' \in [Tasks -> Stages] /\ stage'[t] = "end"
      /\ \A u \in Tasks \ {t} : stage'[u] = stage[u]
      BY <1>1, StageTypes DEF Crash, Stages
<1>3. Shapes'
      BY <1>1, <1>2 DEF Crash, Shapes
<1>4. FileRead(t)' /\ Alone(t)
      BY <1>1, <1>2 DEF Crash, Shapes, FileRead, Alone
<1>5. QED
      BY <1>3, <1>4

LEMMA TaskBase ==
  ASSUME BaseInv, NEW t \in Tasks,
         \/ WorkerStep(t) \/ ParserStep(t) \/ GiveUp(t) \/ Emit(t) \/ ExitFfmpeg(t)
         \/ Timeout(t) \/ Crash(t)
  PROVE  BaseInv' /\ Alone(t) /\ UNCHANGED file
<1>1. Shapes' /\ FileRead(t)' /\ Alone(t)
      BY WorkerBase, MachineBase, CrashBase
<1>2. UNCHANGED file
      BY DEF WorkerStep, Download, Probe, SaveInfo, Thumbnail, Tell, StartEncoding, Wait, List,
             CheckBucket, MakeBucket, Put, Uploaded, Finish, Fail, ParserStep, Read, Line, Report,
             ParserEnds, GiveUp, Emit, ExitFfmpeg, Timeout, Crash
<1>3. \A u \in Tasks \ {t} : FileRead(u)'
      BY <1>1, <1>2 DEF BaseInv, FileRead, Alone
<1>4. QED
      BY <1>1, <1>2, <1>3 DEF BaseInv

\* Steps that are about no task
LEMMA IdleBase == BaseInv /\ (UNCHANGED vars \/ BucketAppears) => BaseInv'
<1> SUFFICES ASSUME BaseInv, UNCHANGED vars \/ BucketAppears
             PROVE  BaseInv'
    OBVIOUS
<1>1. UNCHANGED <<file, row, stage, thumb, encoder, pipe, progress, left>>
      BY DEF vars, BucketAppears, encoder, progress
<1>2. QED
      BY <1>1 DEF BaseInv, Shapes, FileRead, encoder, progress

LEMMA BaseStep == BaseInv /\ [Next]_vars => BaseInv'
BY TaskBase, IdleBase DEF Next

(* The shapes of all variables, and that no worker goes on without a       *)
(* source ffprobe accepted: ffmpeg and the parser run only on files that   *)
(* passed the validation.                                                  *)
THEOREM BaseHolds == Spec => []BaseInv
BY BaseInit, BaseStep, PTL DEF Spec

-----------------------------------------------------------------------------
(* What is encoded *)

LEMMA AcceptedSize ==
  ASSUME NEW f \in Files, Valid(f), Len(f.streams) = 1
  PROVE  /\ f.streams # << >>
         /\ f.streams[1].width \in Nat \ {0} /\ f.streams[1].height \in Nat \ {0}
<1>1. f.streams \in Seq(Stream) /\ f.streams # << >>
  <2>1. f.streams \in Seq(Stream)
        BY TranscodeAssumption
  <2>2. Len(<< >>) = 0
        OBVIOUS
  <2>3. Len(f.streams) # 0
        OBVIOUS
  <2>4. f.streams # << >>
        BY <2>2, <2>3, Zenon
  <2>5. QED
        BY <2>1, <2>4
<1>2. f.streams[1] \in Stream
      BY <1>1
<1>3. Info(f).width = f.streams[1].width /\ Info(f).height = f.streams[1].height
      BY <1>1 DEF Info
<1>4. Info(f).width # 0 /\ Info(f).height # 0
      BY DEF Valid
<1>5. QED
      BY <1>1, <1>2, <1>3, <1>4 DEF Stream

LEMMA BaseShape == BaseInv => EncodedKeepsShape
<1> SUFFICES ASSUME BaseInv, NEW t \in Tasks, ffmpeg[t] # "none", Len(file[t].streams) = 1,
                    NEW v \in Variants
             PROVE  LET e == Encoding(file[t], TargetSize[v]) IN
                    /\ EvenSides(e[2]) /\ SameShape(e[2], e[1])
                    /\ ListedSize(file[t], TargetSize[v]) = e[2]
    BY DEF EncodedKeepsShape
<1>1. file[t] \in Files /\ Valid(file[t])
      BY DEF BaseInv, FileRead
<1>2. TargetSize[v] \in Nat /\ TargetSize[v] >= 2
      BY TranscodeAssumption
<1>3. /\ file[t].streams # << >>
      /\ file[t].streams[1].width \in Nat \ {0} /\ file[t].streams[1].height \in Nat \ {0}
      BY <1>1, AcceptedSize
<1>4. QED
      BY <1>2, <1>3, SingleStreamKeepsShape

(* ffmpeg_transcoder.go, rotation.go, scale.go: for every accepted file    *)
(* with one video stream, of whatever size and rotation, and every         *)
(* variant, the encoded picture has the shape of the upright source, even  *)
(* sides and the size the master playlist names.                           *)
THEOREM EncodingsKeepShape == Spec => []EncodedKeepsShape
BY BaseHolds, BaseShape, PTL

-----------------------------------------------------------------------------
(* What is uploaded *)

Uploading == {"tell100", "upload", "make", "put", "finish"}
Saved(t, f) == ObjectKey(t, f) \in objects

\* What of a task's output is still to be uploaded, and what a successful row says.
Play(t) ==
  /\ stage[t] \in Uploading => \A f \in OutputFiles(t) : f \in left[t] \/ Saved(t, f)
  /\ stage[t] = "finish" => left[t] = {}
  /\ stage[t] = "put" => bucket
  /\ thumb[t] = "empty" => ~ HasThumbnail(file[t])
  /\ row[t].status = "success" =>
       /\ stage[t] = "end"
       /\ row[t].output = Output(t)
       /\ \A f \in OutputFiles(t) : Saved(t, f)

Stored == bucket \in BOOLEAN /\ (objects # {} => bucket)
PlayInv == BaseInv /\ Stored /\ \A t \in Tasks : Play(t)

LEMMA PlayInit == Init => PlayInv
<1> SUFFICES ASSUME Init
             PROVE  PlayInv
    OBVIOUS
<1>1. \A t \in Tasks : stage[t] = "download" /\ thumb[t] = "none" /\ row[t].status = "processing"
      BY DEF Init
<1>2. \A t \in Tasks : Play(t)
      BY <1>1 DEF Play, Uploading
<1>3. Stored
      BY DEF Init, Stored
<1>4. QED
      BY <1>2, <1>3, BaseInit DEF PlayInv

\* A step that does not upload: the worker goes elsewhere, or stays where it is.
LEMMA PlayMoves ==
  ASSUME PlayInv, NEW t \in Tasks,
         thumb'[t] = thumb[t], left'[t] = left[t], file'[t] = file[t],
         UNCHANGED store,
         \/ stage'[t] = stage[t]
         \/ stage[t] # "end" /\ stage'[t] \notin Uploading
         \/ stage[t] \in Uploading /\ stage'[t] \in Uploading \ {"finish", "put"},
         row'[t].status = row[t].status /\ row'[t].output = row[t].output
  PROVE  Play(t)'
<1>1. Play(t)
      BY DEF PlayInv
<1>2. OutputFiles(t)' = OutputFiles(t) /\ Output(t)' = Output(t)
      BY DEF OutputFiles, Output
<1>3. \A f : Saved(t, f)' <=> Saved(t, f)
      BY DEF Saved, store, ObjectKey
<1>4. QED
      BY <1>1, <1>2, <1>3 DEF Play, store, Uploading

LEMMA StatusKept ==
  ASSUME Shapes, NEW t \in Tasks, NEW p
  PROVE  SetProgress(t, p) \/ UNCHANGED row =>
           row'[t].status = row[t].status /\ row'[t].output = row[t].output
BY DEF SetProgress, Shapes, TaskRow

LEMMA PlayMachine ==
  ASSUME PlayInv, NEW t \in Tasks,
         ParserStep(t) \/ GiveUp(t) \/ Emit(t) \/ ExitFfmpeg(t) \/ Timeout(t) \/ Crash(t)
  PROVE  Play(t)' /\ Stored'
<1>1. Shapes
      BY DEF PlayInv, BaseInv
<1>2. UNCHANGED <<file, thumb, left, store>>
      BY DEF ParserStep, Read, Line, Report, ParserEnds, GiveUp, Emit, ExitFfmpeg, Timeout, Crash
<1>3. row'[t].status = row[t].status /\ row'[t].output = row[t].output
  <2>1. UNCHANGED row \/ SetProgress(t, TotalProgress(told[t]))
        BY DEF ParserStep, Read, Line, Report, ParserEnds, GiveUp, Emit, ExitFfmpeg, Timeout, Crash
  <2>2. QED
        BY <1>1, <2>1, StatusKept
<1>4. \/ stage'[t] = stage[t]
      \/ stage[t] # "end" /\ stage'[t] \notin Uploading
  <2>1. CASE Crash(t)
        BY <1>1, <2>1 DEF Crash, Goto, Shapes, Uploading
  <2>2. CASE ParserStep(t) \/ GiveUp(t) \/ Emit(t) \/ ExitFfmpeg(t) \/ Timeout(t)
        BY <2>2 DEF ParserStep, Read, Line, Report, ParserEnds, GiveUp, Emit, ExitFfmpeg, Timeout
  <2>3. QED
        BY <2>1, <2>2
<1>5. Play(t)'
      BY <1>2, <1>3, <1>4, PlayMoves
<1>6. QED
      BY <1>2, <1>5 DEF PlayInv, Stored, store

\* The calls of the worker's that do not touch the bucket, and leave no success behind
LEMMA PlayCalls ==
  ASSUME PlayInv, NEW t \in Tasks,
         \/ Download(t) \/ Probe(t) \/ SaveInfo(t) \/ Tell(t, "tell", 10, "start")
         \/ StartEncoding(t) \/ Wait(t) \/ Tell(t, "tell100", 100, "upload") \/ Fail(t)
  PROVE  Play(t)' /\ Stored'
<1>1. Shapes /\ Play(t)
      BY DEF PlayInv, BaseInv
<1>2. UNCHANGED <<file, thumb, left, store>>
      BY DEF Download, Probe, SaveInfo, Tell, StartEncoding, Wait, Fail
<1>3. PICK label \in Stages :
        /\ Goto(t, label) /\ stage[t] # "end"
        /\ label \notin Uploading \/ (label = "upload" /\ stage[t] = "tell100")
  <2>1. CASE Download(t) \/ Probe(t)
        BY <2>1 DEF Download, Probe, Succeeds, Refuses, Fails, Stages, Uploading
  <2>2. CASE SaveInfo(t) \/ Fail(t)
        BY <2>2 DEF SaveInfo, Fail, Stages, Uploading
  <2>3. CASE Tell(t, "tell", 10, "start")
        BY <2>3 DEF Tell, Stages, Uploading
  <2>4. CASE Tell(t, "tell100", 100, "upload")
        BY <2>4 DEF Tell, Stages
  <2>5. CASE StartEncoding(t) \/ Wait(t)
        BY <2>5 DEF StartEncoding, Wait, Succeeds, Fails, Stages, Uploading
  <2>6. QED
        BY <2>1, <2>2, <2>3, <2>4, <2>5
<1>4. stage'[t] = label
      BY <1>1, <1>3, StageTypes
<1>5. row[t].status # "success" /\ row'[t].status # "success"
  <2>1. row[t].status # "success"
        BY <1>1, <1>3 DEF Play
  <2>2. \/ UNCHANGED row \/ SetProgress(t, 10) \/ SetProgress(t, 100)
        \/ SaveRow(t, "processing", AsRead, {}) \/ SaveRow(t, "failed", AsRead, {})
        BY DEF Download, Probe, SaveInfo, Tell, StartEncoding, Wait, Fail
  <2>3. CASE UNCHANGED row \/ SetProgress(t, 10) \/ SetProgress(t, 100)
    <3>1. SetProgress(t, 10) \/ UNCHANGED row => row'[t].status = row[t].status
          BY <1>1, StatusKept
    <3>2. SetProgress(t, 100) \/ UNCHANGED row => row'[t].status = row[t].status
          BY <1>1, StatusKept
    <3>3. QED
          BY <2>1, <2>3, <3>1, <3>2
  <2>4. CASE SaveRow(t, "processing", AsRead, {}) \/ SaveRow(t, "failed", AsRead, {})
        BY <1>1, <2>1, <2>4 DEF SaveRow, Shapes
  <2>5. QED
        BY <2>1, <2>2, <2>3, <2>4
<1>6. OutputFiles(t)' = OutputFiles(t) /\ \A f : Saved(t, f)' <=> Saved(t, f)
      BY <1>2 DEF OutputFiles, Saved, store, ObjectKey
<1>7. Play(t)'
  <2>1. CASE label \notin Uploading
        BY <1>1, <1>2, <1>4, <1>5, <2>1 DEF Play, Uploading
  <2>2. CASE label = "upload" /\ stage[t] = "tell100"
        BY <1>1, <1>2, <1>4, <1>5, <1>6, <2>2 DEF Play, Uploading
  <2>3. QED
        BY <1>3, <2>1, <2>2
<1>8. QED
      BY <1>2, <1>7 DEF PlayInv, Stored, store

\* The thumbnail, the playlist, the bucket, the uploads and the last save
LEMMA PlayUploads ==
  ASSUME PlayInv, NEW t \in Tasks,
         \/ Thumbnail(t) \/ List(t) \/ CheckBucket(t) \/ MakeBucket(t) \/ Put(t) \/ Uploaded(t)
         \/ Finish(t)
  PROVE  Play(t)' /\ Stored'
<1>1. Shapes /\ Play(t) /\ Stored
      BY DEF PlayInv, BaseInv
<1>2. row[t].status # "success"
  <2>1. stage[t] # "end"
        BY DEF Thumbnail, List, CheckBucket, MakeBucket, Put, Uploaded, Finish, Succeeds, Fails, Refuses
  <2>2. QED
        BY <1>1, <2>1 DEF Play
<1>3. CASE Thumbnail(t)
  <2>1. PICK result \in {"none", "empty", "made"} :
          /\ thumb' = [thumb EXCEPT ![t] = result] /\ Goto(t, AfterThumbnail(result))
          /\ result = "empty" => ~ HasThumbnail(file[t])
        BY <1>3 DEF Thumbnail
  <2>2. PICK label \in {"start", "tell"} : label = AfterThumbnail(result)
        BY DEF AfterThumbnail
  <2>3. stage'[t] = label
        BY <1>1, <2>1, <2>2, StageTypes DEF Stages
  <2>4. UNCHANGED <<file, row, left, store>>
        BY <1>3 DEF Thumbnail
  <2>5. thumb'[t] = result
        BY <1>1, <2>1 DEF Shapes
  <2>6. QED
        BY <1>1, <1>2, <2>1, <2>2, <2>3, <2>4, <2>5 DEF Play, Stored, store, Uploading
<1>4. CASE List(t)
  <2>1. PICK label \in {"tell100", "fail"} : Goto(t, label)
        BY <1>4 DEF List, Succeeds, Fails
  <2>2. stage'[t] = label
        BY <1>1, <2>1, StageTypes DEF Stages
  <2>3. UNCHANGED <<file, row, thumb, store>> /\ left'[t] = OutputFiles(t)
        BY <1>1, <1>4 DEF List, Shapes
  <2>4. OutputFiles(t)' = OutputFiles(t)
        BY <2>3 DEF OutputFiles
  <2>5. QED
        BY <1>1, <1>2, <2>2, <2>3, <2>4 DEF Play, Stored, store, Uploading
<1>5. CASE CheckBucket(t) \/ MakeBucket(t) \/ Uploaded(t)
  <2>1. UNCHANGED <<file, row, thumb, left, objects>>
        BY <1>5 DEF CheckBucket, MakeBucket, Uploaded, store
  <2>2. PICK label \in Stages :
          /\ Goto(t, label)
          /\ label = "fail" \/ (label \in Uploading /\ stage[t] \in Uploading)
          /\ label = "put" => bucket'
          /\ label = "finish" => left[t] = {}
    <3>1. CASE CheckBucket(t)
      <4>1. stage[t] = "upload" /\ UNCHANGED bucket
            BY <3>1 DEF CheckBucket, Succeeds, Fails, store
      <4>2. (bucket /\ Goto(t, "put")) \/ Goto(t, "make") \/ Goto(t, "fail")
            BY <3>1 DEF CheckBucket, Succeeds, Fails
      <4>3. QED
            BY <4>1, <4>2 DEF Stages, Uploading
    <3>2. CASE MakeBucket(t)
          BY <3>2 DEF MakeBucket, Succeeds, Fails, Refuses, Stages, Uploading
    <3>3. CASE Uploaded(t)
          BY <3>3 DEF Uploaded, Succeeds, Stages, Uploading
    <3>4. QED
          BY <1>5, <3>1, <3>2, <3>3
  <2>3. stage'[t] = label
        BY <1>1, <2>2, StageTypes
  <2>4. OutputFiles(t)' = OutputFiles(t) /\ \A f : Saved(t, f)' <=> Saved(t, f)
        BY <2>1 DEF OutputFiles, Saved, ObjectKey
  <2>5. Stored'
    <3>1. bucket' = bucket \/ bucket' = TRUE
          BY <1>5 DEF CheckBucket, MakeBucket, Uploaded, store
    <3>2. QED
          BY <1>1, <2>1, <3>1 DEF Stored
  <2>6. Play(t)'
        BY <1>1, <1>2, <2>1, <2>2, <2>3, <2>4 DEF Play, Uploading
  <2>7. QED
        BY <2>5, <2>6
<1>6. CASE Put(t)
  <2>1. stage[t] = "put" /\ UNCHANGED <<file, row, thumb, bucket>>
        BY <1>6 DEF Put, Succeeds, Fails
  <2>2. OutputFiles(t)' = OutputFiles(t)
        BY <2>1 DEF OutputFiles
  <2>3. CASE Fails(t, "put") /\ UNCHANGED <<left, objects>>
    <3>1. stage'[t] = "fail"
          BY <1>1, <2>3, StageTypes DEF Fails, Stages
    <3>2. QED
          BY <1>1, <1>2, <2>1, <2>3, <3>1 DEF Play, Stored, Uploading
  <2>4. CASE /\ Goto(t, "upload")
             /\ \E f \in left[t] : /\ left' = [left EXCEPT ![t] = @ \ {f}]
                                   /\ objects' = objects \cup {ObjectKey(t, f)}
    <3>1. PICK f \in left[t] : /\ left' = [left EXCEPT ![t] = @ \ {f}]
                               /\ objects' = objects \cup {ObjectKey(t, f)}
          BY <2>4
    <3>2. stage'[t] = "upload"
          BY <1>1, <2>4, StageTypes DEF Stages
    <3>3. left'[t] = left[t] \ {f}
          BY <1>1, <3>1 DEF Shapes
    <3>4. \A g : (Saved(t, g) => Saved(t, g)') /\ Saved(t, f)'
          BY <3>1 DEF Saved, ObjectKey
    <3>5. \A g \in OutputFiles(t) : g \in left'[t] \/ Saved(t, g)'
          BY <1>1, <2>1, <3>3, <3>4 DEF Play, Uploading
    <3>6. bucket /\ Stored'
          BY <1>1, <2>1 DEF Play, Stored
    <3>7. Play(t)'
          BY <1>1, <1>2, <2>1, <2>2, <3>2, <3>5 DEF Play, Uploading
    <3>8. QED
          BY <3>6, <3>7
  <2>5. QED
        BY <1>6, <2>3, <2>4 DEF Put, Succeeds
<1>7. CASE Finish(t)
  <2>1. stage[t] = "finish" /\ UNCHANGED <<file, thumb, left, store>> /\ Goto(t, "end")
        BY <1>7 DEF Finish
  <2>2. stage'[t] = "end"
        BY <1>1, <2>1, StageTypes DEF Stages
  <2>3. OutputFiles(t)' = OutputFiles(t) /\ Output(t)' = Output(t)
        BY <2>1 DEF OutputFiles, Output
  <2>4. \A f \in OutputFiles(t) : Saved(t, f)'
    <3>1. \A f \in OutputFiles(t) : Saved(t, f)
          BY <1>1, <2>1 DEF Play, Uploading
    <3>2. QED
          BY <2>1, <3>1 DEF Saved, store, ObjectKey
  <2>5. row'[t].status = "success" => row'[t].output = Output(t)
    <3>1. CASE SaveRow(t, "success", 100, Output(t))
          BY <1>1, <3>1 DEF SaveRow, Shapes
    <3>2. CASE UNCHANGED row
          BY <1>2, <3>2
    <3>3. QED
          BY <1>7, <3>1, <3>2 DEF Finish
  <2>6. QED
        BY <1>1, <2>1, <2>2, <2>3, <2>4, <2>5 DEF Play, Stored, store, Uploading
<1>8. QED
      BY <1>3, <1>4, <1>5, <1>6, <1>7

LEMMA StoreGrows ==
  ASSUME NEW t \in Tasks,
         \/ WorkerStep(t) \/ ParserStep(t) \/ GiveUp(t) \/ Emit(t) \/ ExitFfmpeg(t)
         \/ Timeout(t) \/ Crash(t)
  PROVE  objects \subseteq objects' /\ (bucket => bucket')
<1>1. CASE WorkerStep(t)
      BY <1>1 DEF WorkerStep, Download, Probe, SaveInfo, Thumbnail, Tell, StartEncoding, Wait, List,
                  CheckBucket, MakeBucket, Put, Uploaded, Finish, Fail, store
<1>2. CASE ~ WorkerStep(t)
      BY <1>2 DEF ParserStep, Read, Line, Report, ParserEnds, GiveUp, Emit, ExitFfmpeg, Timeout,
                  Crash, store
<1>3. QED
      BY <1>1, <1>2

\* What other tasks have uploaded stays.
LEMMA PlayOthers ==
  ASSUME PlayInv, NEW t \in Tasks, NEW u \in Tasks \ {t}, Alone(t), UNCHANGED file,
         objects \subseteq objects', bucket => bucket'
  PROVE  Play(u)'
<1>1. Play(u)
      BY DEF PlayInv
<1>2. /\ stage'[u] = stage[u] /\ row'[u] = row[u] /\ thumb'[u] = thumb[u] /\ left'[u] = left[u]
      /\ file'[u] = file[u]
      BY DEF Alone
<1>3. OutputFiles(u)' = OutputFiles(u) /\ Output(u)' = Output(u)
      BY <1>2 DEF OutputFiles, Output
<1>4. \A f : Saved(u, f) => Saved(u, f)'
      BY DEF Saved, ObjectKey
<1>5. QED
      BY <1>1, <1>2, <1>3, <1>4 DEF Play

LEMMA PlayStep == PlayInv /\ [Next]_vars => PlayInv'
<1> SUFFICES ASSUME PlayInv, [Next]_vars
             PROVE  PlayInv'
    OBVIOUS
<1>1. BaseInv'
      BY BaseStep DEF PlayInv
<1>2. ASSUME NEW t \in Tasks,
             \/ WorkerStep(t) \/ ParserStep(t) \/ GiveUp(t) \/ Emit(t) \/ ExitFfmpeg(t)
             \/ Timeout(t) \/ Crash(t)
      PROVE  PlayInv'
  <2>1. Alone(t) /\ UNCHANGED file
        BY <1>2, TaskBase DEF PlayInv
  <2>2. Play(t)' /\ Stored'
        BY <1>2, PlayMachine, PlayCalls, PlayUploads DEF WorkerStep
  <2>3. \A u \in Tasks \ {t} : Play(u)'
        BY <1>2, <2>1, StoreGrows, PlayOthers
  <2>4. QED
        BY <1>1, <2>2, <2>3 DEF PlayInv
<1>3. CASE BucketAppears
  <2>1. UNCHANGED <<file, row, stage, thumb, left, objects>> /\ bucket'
        BY <1>3 DEF BucketAppears
  <2>2. \A t \in Tasks : Play(t)'
        BY <2>1 DEF PlayInv, Play, OutputFiles, Output, Saved, ObjectKey
  <2>3. Stored'
        BY <1>3 DEF BucketAppears, Stored
  <2>4. QED
        BY <1>1, <2>2, <2>3 DEF PlayInv
<1>4. CASE UNCHANGED vars
      BY <1>1, <1>4 DEF vars, store, PlayInv, Play, Stored, OutputFiles, Output, Saved, ObjectKey
<1>5. QED
      BY <1>2, <1>3, <1>4 DEF Next

LEMMA PlayableSuccess == PlayInv => SuccessIsPlayable
<1> SUFFICES ASSUME PlayInv, NEW t \in Tasks, row[t].status = "success"
             PROVE  /\ bucket
                    /\ Listed(t) \subseteq objects
                    /\ \A k \in row[t].output :
                         k \in objects \/ (k[2] = "thumbnail" /\ ~ HasThumbnail(file[t]))
    BY DEF SuccessIsPlayable
<1>1. /\ row[t].output = Output(t)
      /\ \A f \in OutputFiles(t) : <<t, f>> \in objects
      /\ thumb[t] = "empty" => ~ HasThumbnail(file[t])
      BY DEF PlayInv, Play, Saved, ObjectKey
<1>2. Listed(t) \subseteq objects
      BY <1>1 DEF Listed, OutputFiles
<1>3. bucket
  <2>1. <<t, "master">> \in objects
        BY <1>1 DEF OutputFiles
  <2>2. QED
        BY <2>1 DEF PlayInv, Stored
<1>4. ASSUME NEW k \in row[t].output
      PROVE  k \in objects \/ (k[2] = "thumbnail" /\ ~ HasThumbnail(file[t]))
  <2>1. PICK f \in OutputFiles(t) \cup (IF thumb[t] # "none" THEN {"thumbnail"} ELSE {}) :
          k = <<t, f>>
        BY <1>1 DEF Output, OutputFiles
  <2>2. CASE f \in OutputFiles(t)
        BY <1>1, <2>1, <2>2
  <2>3. CASE f = "thumbnail" /\ f \notin OutputFiles(t)
    <3>1. thumb[t] = "empty"
          BY <2>1, <2>3 DEF OutputFiles, PlayInv, BaseInv, Shapes
    <3>2. QED
          BY <1>1, <2>1, <2>3, <3>1
  <2>4. QED
        BY <2>1, <2>2, <2>3
<1>5. QED
      BY <1>2, <1>3, <1>4

(* worker.go, s3_compat.go: whatever fails, crashes or races for the       *)
(* bucket, a task is successful only when the bucket holds its playlists,  *)
(* and its thumbnail, unless there is no picture at or after 1.00 s.       *)
THEOREM SuccessPlays == Spec => []SuccessIsPlayable
BY PlayInit, PlayStep, PlayableSuccess, PTL DEF Spec

-----------------------------------------------------------------------------
(* Progress *)

Before == {"download", "probe", "save", "thumb", "tell", "start"}

\* What the row shows is at most what the parser has found.
Grow(t) ==
  /\ stage[t] \in Before => parser[t] = "none" /\ best[t] = 0
  /\ stage[t] \in Before \ {"start"} => row[t].progress = 0
  /\ stage[t] = "start" => row[t].progress <= 10
  /\ stage[t] = "run" => row[t].progress <= TotalProgress(best[t])
  /\ parser[t] = "call" => told[t] = best[t]

GrowInv == BaseInv /\ \A t \in Tasks : Grow(t)

LEMMA GrowInit == Init => GrowInv
<1> SUFFICES ASSUME Init
             PROVE  GrowInv
    OBVIOUS
<1>1. \A t \in Tasks : /\ stage[t] = "download" /\ parser[t] = "none" /\ best[t] = 0
                       /\ row[t].progress = 0
      BY DEF Init
<1>2. \A t \in Tasks : Grow(t)
      BY <1>1 DEF Grow
<1>3. QED
      BY <1>2, BaseInit DEF GrowInv

LEMMA ProgressWritten ==
  ASSUME Shapes, NEW t \in Tasks, NEW p \in 0..100
  PROVE  SetProgress(t, p) => row'[t].progress = p
<1>1. Clamp(p) = p
      BY DEF Clamp
<1>2. QED
      BY <1>1 DEF SetProgress, Shapes, TaskRow

\* The worker's own steps, and the crash
LEMMA GrowWorker ==
  ASSUME GrowInv, NEW t \in Tasks, WorkerStep(t) \/ Crash(t)
  PROVE  Grow(t)' /\ (stage[t] = "run" => row'[t] = row[t])
<1>1. Shapes /\ Grow(t)
      BY DEF GrowInv, BaseInv
<1> USE DEF progress
<1>2. CASE Download(t) \/ Probe(t) \/ Thumbnail(t)
  <2>1. UNCHANGED <<row, progress>> /\ stage[t] \in Before \ {"start", "tell"}
        BY <1>2 DEF Download, Probe, Thumbnail, Succeeds, Refuses, Fails, Before
  <2>2. PICK label \in {"probe", "save", "start", "tell", "fail"} : Goto(t, label)
        BY <1>2 DEF Download, Probe, Thumbnail, Succeeds, Refuses, Fails, AfterThumbnail
  <2>3. stage'[t] = label
        BY <1>1, <2>2, StageTypes DEF Stages
  <2>4. QED
        BY <1>1, <2>1, <2>2, <2>3 DEF Grow, Before
<1>3. CASE SaveInfo(t)
  <2>1. UNCHANGED progress /\ stage[t] = "save" /\ Goto(t, "thumb")
        BY <1>3 DEF SaveInfo
  <2>2. stage'[t] = "thumb"
        BY <1>1, <2>1, StageTypes DEF Stages
  <2>3. row'[t].progress = 0
    <3>1. CASE UNCHANGED row
          BY <1>1, <2>1, <3>1 DEF Grow, Before
    <3>2. CASE SaveRow(t, "processing", AsRead, {})
          BY <1>1, <3>2 DEF SaveRow, AsRead, Shapes
    <3>3. QED
          BY <1>3, <3>1, <3>2 DEF SaveInfo
  <2>4. QED
        BY <1>1, <2>1, <2>2, <2>3 DEF Grow, Before
<1>4. CASE Tell(t, "tell", 10, "start")
  <2>1. UNCHANGED progress /\ stage[t] = "tell" /\ Goto(t, "start")
        BY <1>4 DEF Tell
  <2>2. stage'[t] = "start"
        BY <1>1, <2>1, StageTypes DEF Stages
  <2>3. row'[t].progress = 0 \/ row'[t].progress = 10
    <3>1. CASE UNCHANGED row
          BY <1>1, <2>1, <3>1 DEF Grow, Before
    <3>2. CASE SetProgress(t, 10)
          BY <1>1, <3>2, ProgressWritten
    <3>3. QED
          BY <1>4, <3>1, <3>2 DEF Tell
  <2>4. QED
        BY <1>1, <2>1, <2>2, <2>3 DEF Grow, Before
<1>5. CASE StartEncoding(t)
  <2>1. UNCHANGED <<row, best, told>> /\ stage[t] = "start"
        BY <1>5 DEF StartEncoding, Succeeds, Fails
  <2>2. PICK label \in {"run", "fail"} : Goto(t, label)
        BY <1>5 DEF StartEncoding, Succeeds, Fails
  <2>3. stage'[t] = label
        BY <1>1, <2>2, StageTypes DEF Stages
  <2>4. parser'[t] # "call"
    <3>1. parser[t] = "none"
          BY <1>1, <2>1 DEF Grow, Before
    <3>2. QED
          BY <1>1, <1>5, <3>1 DEF StartEncoding, Shapes
  <2>5. TotalProgress(0) = 10
        BY DEF TotalProgress
  <2>6. row'[t].progress <= TotalProgress(best'[t])
        BY <1>1, <2>1, <2>5 DEF Grow, Before
  <2>7. QED
        BY <2>1, <2>2, <2>3, <2>4, <2>6 DEF Grow, Before
<1>6. CASE \/ Wait(t) \/ List(t) \/ Tell(t, "tell100", 100, "upload") \/ CheckBucket(t)
           \/ MakeBucket(t) \/ Put(t) \/ Uploaded(t) \/ Finish(t) \/ Fail(t) \/ Crash(t)
  <2>1. PICK label \in Stages \ (Before \cup {"run"}) : Goto(t, label)
    <3>1. CASE Wait(t) \/ List(t) \/ Tell(t, "tell100", 100, "upload")
          BY <3>1 DEF Wait, List, Tell, Succeeds, Fails, Stages, Before
    <3>2. CASE CheckBucket(t) \/ MakeBucket(t)
          BY <3>2 DEF CheckBucket, MakeBucket, Succeeds, Fails, Refuses, Stages, Before
    <3>3. CASE Put(t) \/ Uploaded(t) \/ Finish(t) \/ Fail(t) \/ Crash(t)
          BY <3>3 DEF Put, Uploaded, Finish, Fail, Crash, Succeeds, Fails, Stages, Before
    <3>4. QED
          BY <1>6, <3>1, <3>2, <3>3
  <2>2. stage'[t] = label
        BY <1>1, <2>1, StageTypes
  <2>3. UNCHANGED <<best, told>> /\ (parser'[t] = "call" => parser[t] = "call")
    <3>1. UNCHANGED <<best, told>>
          BY <1>6 DEF Wait, List, Tell, CheckBucket, MakeBucket, Put, Uploaded, Finish, Fail, Crash
    <3>2. UNCHANGED parser \/ parser' = [parser EXCEPT ![t] = "none"]
          BY <1>6 DEF Wait, List, Tell, CheckBucket, MakeBucket, Put, Uploaded, Finish, Fail, Crash
    <3>3. QED
          BY <1>1, <3>1, <3>2 DEF Shapes
  <2>4. stage[t] = "run" => UNCHANGED row
        BY <1>6 DEF Wait, List, Tell, CheckBucket, MakeBucket, Put, Uploaded, Finish, Fail, Crash,
                    Succeeds, Fails, Refuses
  <2>5. QED
        BY <1>1, <2>1, <2>2, <2>3, <2>4 DEF Grow, Before
<1>7. QED
      BY <1>2, <1>3, <1>4, <1>5, <1>6 DEF WorkerStep

LEMMA AtMost == \A a, b, c \in Int : a <= b /\ b <= c => a <= c
OBVIOUS

\* ffmpeg and the parser
LEMMA GrowMachine ==
  ASSUME GrowInv, NEW t \in Tasks,
         ParserStep(t) \/ GiveUp(t) \/ Emit(t) \/ ExitFfmpeg(t) \/ Timeout(t)
  PROVE  Grow(t)' /\ (stage[t] = "run" => row'[t].progress >= row[t].progress)
<1>1. Shapes /\ Grow(t) /\ FileRead(t)
      BY DEF GrowInv, BaseInv
<1>2. row[t].progress \in 0..100
      BY <1>1 DEF Shapes, TaskRow
<1> USE DEF progress
<1>3. CASE Read(t) \/ ParserEnds(t) \/ GiveUp(t) \/ Emit(t) \/ ExitFfmpeg(t) \/ Timeout(t)
  <2>1. UNCHANGED <<row, stage, best, told>>
        BY <1>3 DEF Read, ParserEnds, GiveUp, Emit, ExitFfmpeg, Timeout
  <2>2. UNCHANGED parser \/ (parser[t] # "none" /\ parser' = [parser EXCEPT ![t] = "done"])
        BY <1>3 DEF Read, ParserEnds, GiveUp, Emit, ExitFfmpeg, Timeout
  <2>3. parser'[t] = parser[t] \/ (parser[t] # "none" /\ parser'[t] = "done")
        BY <1>1, <2>2 DEF Shapes
  <2>4. QED
        BY <1>1, <1>2, <2>1, <2>3 DEF Grow
<1>4. CASE Line(t)
  <2>1. /\ parser[t] = "scan" /\ file[t] \in Files
        /\ buffer[t] \in Seq(Positions) /\ buffer[t] # << >>
        /\ UNCHANGED <<row, stage>>
        BY <1>1, <1>4 DEF Line, FileRead, Shapes
  <2>2. Head(buffer[t]) \in Nat /\ file[t].duration \in Nat
    <3>1. Head(buffer[t]) \in Positions
          BY <2>1, HeadTailProperties
    <3>2. QED
          BY <2>1, <3>1, TranscodeAssumption
  <2>3. stage[t] \notin Before
        BY <1>1, <2>1 DEF Grow
  <2>4. CASE file[t].duration = 0
    <3>1. UNCHANGED <<row, stage, best, told, parser>>
          BY <1>4, <2>1, <2>4 DEF Line
    <3>2. QED
          BY <1>1, <1>2, <3>1 DEF Grow
  <2>5. CASE file[t].duration # 0
    <3>1. best[t] \in 0..100
          BY <1>1 DEF Shapes
    <3>2. PICK p \in 0..100 : /\ best[t] <= p
                              /\ best' = [best EXCEPT ![t] = p] /\ told' = [told EXCEPT ![t] = p]
      <4> DEFINE q == PercentOf(Head(buffer[t]), file[t].duration)
                 p == Highest(t, q)
      <4>1. q \in 0..100
            BY <2>2, <2>5, PercentType
      <4> HIDE DEF q
      <4>2. p \in 0..100 /\ best[t] <= p
            BY <3>1, <4>1 DEF Highest
      <4>3. best' = [best EXCEPT ![t] = p] /\ told' = [told EXCEPT ![t] = p]
            BY <1>4, <2>5 DEF Line, q
      <4> HIDE DEF p
      <4>4. QED
            BY <4>2, <4>3
    <3>3. best'[t] = p /\ told'[t] = p
          BY <1>1, <3>2 DEF Shapes
    <3>4. TotalProgress(best[t]) <= TotalProgress(p)
          BY <3>1, <3>2, TotalGrows
    <3>5. TotalProgress(best[t]) \in 10..100 /\ TotalProgress(p) \in 10..100
          BY <3>1, <3>2, TotalBounds
    <3>6. stage[t] = "run" => row[t].progress <= TotalProgress(p)
      <4>1. stage[t] = "run" => row[t].progress <= TotalProgress(best[t])
            BY <1>1 DEF Grow
      <4>2. /\ row[t].progress \in Int
            /\ TotalProgress(best[t]) \in Int /\ TotalProgress(p) \in Int
            BY <1>2, <3>5
      <4>3. QED
            BY <3>4, <4>1, <4>2, AtMost
    <3>7. stage'[t] = stage[t] /\ row'[t] = row[t]
          BY <2>1
    <3>8. Grow(t)'
      <4>1. stage'[t] \notin Before /\ told'[t] = best'[t]
            BY <2>3, <3>3, <3>7
      <4>2. stage'[t] = "run" => row'[t].progress <= TotalProgress(best'[t])
            BY <3>3, <3>6, <3>7
      <4>3. QED
            BY <4>1, <4>2 DEF Grow, Before
    <3>9. QED
          BY <1>2, <3>7, <3>8
  <2>6. QED
        BY <2>4, <2>5
<1>5. CASE Report(t)
  <2>1. /\ parser[t] = "call" /\ parser' = [parser EXCEPT ![t] = "scan"]
        /\ UNCHANGED <<stage, best, told>>
        BY <1>5 DEF Report
  <2>2. parser'[t] = "scan"
        BY <1>1, <2>1 DEF Shapes
  <2>3. stage[t] \notin Before /\ told[t] = best[t]
        BY <1>1, <2>1 DEF Grow
  <2>4. TotalProgress(best[t]) \in 10..100
        BY <1>1, TotalBounds DEF Shapes
  <2>5. row'[t].progress \in {row[t].progress, TotalProgress(best[t])}
    <3>1. CASE UNCHANGED row
          BY <3>1
    <3>2. CASE SetProgress(t, TotalProgress(told[t]))
      <4>1. TotalProgress(best[t]) \in 0..100
            BY <2>4
      <4>2. SetProgress(t, TotalProgress(best[t]))
            BY <2>3, <3>2
      <4>3. QED
            BY <1>1, <4>1, <4>2, ProgressWritten
    <3>3. QED
          BY <1>5, <3>1, <3>2 DEF Report
  <2>6. stage[t] = "run" => row[t].progress <= TotalProgress(best[t])
        BY <1>1 DEF Grow
  <2>7. QED
        BY <1>2, <2>1, <2>2, <2>3, <2>4, <2>5, <2>6 DEF Grow, Before
<1>6. QED
      BY <1>3, <1>4, <1>5 DEF ParserStep

LEMMA GrowStep ==
  GrowInv /\ [Next]_vars =>
    GrowInv' /\ \A t \in Tasks : stage[t] = "run" => row'[t].progress >= row[t].progress
<1> SUFFICES ASSUME GrowInv, [Next]_vars
             PROVE  /\ GrowInv'
                    /\ \A t \in Tasks : stage[t] = "run" => row'[t].progress >= row[t].progress
    OBVIOUS
<1>1. BaseInv' /\ \A t \in Tasks : row[t].progress \in 0..100
  <2>1. \A t \in Tasks : row[t].progress \in 0..100
        BY DEF GrowInv, BaseInv, Shapes, TaskRow
  <2>2. QED
        BY <2>1, BaseStep DEF GrowInv
<1>2. ASSUME NEW t \in Tasks,
             \/ WorkerStep(t) \/ ParserStep(t) \/ GiveUp(t) \/ Emit(t) \/ ExitFfmpeg(t)
             \/ Timeout(t) \/ Crash(t)
      PROVE  \A u \in Tasks : Grow(u)' /\ (stage[u] = "run" => row'[u].progress >= row[u].progress)
  <2>1. Alone(t)
        BY <1>2, TaskBase DEF GrowInv
  <2>2. Grow(t)' /\ (stage[t] = "run" => row'[t].progress >= row[t].progress)
        BY <1>1, <1>2, GrowWorker, GrowMachine
  <2>3. \A u \in Tasks \ {t} : Grow(u)' /\ row'[u] = row[u]
        BY <2>1 DEF Alone, Grow, GrowInv
  <2>4. QED
        BY <1>1, <2>2, <2>3
<1>3. CASE BucketAppears \/ UNCHANGED vars
  <2>1. UNCHANGED <<row, stage, progress>>
        BY <1>3 DEF BucketAppears, vars, progress
  <2>2. QED
        BY <1>1, <2>1 DEF GrowInv, Grow, progress
<1>4. QED
  <2>1. CASE \E t \in Tasks :
               \/ WorkerStep(t) \/ ParserStep(t) \/ GiveUp(t) \/ Emit(t) \/ ExitFfmpeg(t)
               \/ Timeout(t) \/ Crash(t)
        BY <1>1, <1>2, <2>1 DEF GrowInv
  <2>2. QED
        BY <1>3, <2>1 DEF Next

(* progress.go:28: while ffmpeg runs, the progress clients see never       *)
(* falls, in whatever order the positions of the outputs arrive, for any   *)
(* number of tasks and lines.                                              *)
THEOREM ProgressOnlyGrows == Spec => ProgressGrows
<1>1. Spec => []GrowInv
      BY GrowInit, GrowStep, PTL DEF Spec
<1>2. GrowInv /\ [Next]_vars =>
        [\A t \in Tasks : stage[t] = "run" => row'[t].progress >= row[t].progress]_vars
      BY GrowStep
<1>3. QED
      BY <1>1, <1>2, PTL DEF Spec, ProgressGrows

-----------------------------------------------------------------------------
(* The bounds of TypeOK that Shapes leaves out *)

\* Pipe and buffer hold what the pipe can; the last report is not above the maximum.
Holds(t) ==
  /\ Len(pipe[t]) <= PipeSize /\ Len(buffer[t]) <= PipeSize
  /\ told[t] <= best[t]

BoundInv == BaseInv /\ faults \in 0..MaxFaults /\ \A t \in Tasks : Holds(t)

LEMMA BoundInit == Init => BoundInv
<1> SUFFICES ASSUME Init
             PROVE  BoundInv
    OBVIOUS
<1>1. Len(<< >>) = 0 /\ PipeSize \in Nat /\ MaxFaults \in Nat
      BY TranscodeAssumption
<1>2. \A t \in Tasks : pipe[t] = << >> /\ buffer[t] = << >> /\ told[t] = -1 /\ best[t] = 0
      BY DEF Init
<1>3. \A t \in Tasks : Holds(t)
      BY <1>1, <1>2 DEF Holds
<1>4. faults \in 0..MaxFaults
      BY <1>1 DEF Init
<1>5. QED
      BY <1>3, <1>4, BaseInit DEF BoundInv

LEMMA FaultsCounted ==
  ASSUME faults \in 0..MaxFaults, [Next]_vars
  PROVE  faults' \in 0..MaxFaults
<1>1. MaxFaults \in Nat
      BY TranscodeAssumption
<1>2. ASSUME NEW t \in Tasks, NEW c, Strike(t, c)
      PROVE  faults' \in 0..MaxFaults
      BY <1>1, <1>2 DEF Strike
<1>3. CASE UNCHANGED faults
      BY <1>3
<1>4. ASSUME NEW t \in Tasks,
             WorkerStep(t) \/ ParserStep(t) \/ GiveUp(t) \/ Emit(t) \/ ExitFfmpeg(t)
               \/ Timeout(t) \/ Crash(t)
      PROVE  UNCHANGED faults \/ Slip \/ \E c : Strike(t, c)
  <2>1. CASE Download(t) \/ Probe(t) \/ SaveInfo(t) \/ Thumbnail(t) \/ Tell(t, "tell", 10, "start")
        BY <2>1 DEF Download, Probe, SaveInfo, Thumbnail, Tell, Succeeds, Fails, Refuses, Fault, Slip, NoFault
  <2>2. CASE \/ StartEncoding(t) \/ Wait(t) \/ List(t) \/ Tell(t, "tell100", 100, "upload")
             \/ CheckBucket(t)
        BY <2>2 DEF StartEncoding, Wait, List, Tell, CheckBucket, Succeeds, Fails, Fault, Slip, NoFault
  <2>3. CASE MakeBucket(t) \/ Put(t) \/ Uploaded(t) \/ Finish(t) \/ Fail(t)
        BY <2>3 DEF MakeBucket, Put, Uploaded, Finish, Fail, Succeeds, Fails, Refuses, Fault, Slip, NoFault
  <2>4. CASE ParserStep(t) \/ GiveUp(t)
        BY <2>4 DEF ParserStep, Read, Line, Report, ParserEnds, GiveUp, Fault, Slip, NoFault
  <2>5. CASE Emit(t) \/ ExitFfmpeg(t) \/ Timeout(t) \/ Crash(t)
        BY <2>5 DEF Emit, ExitFfmpeg, Timeout, Crash, Fault, NoFault
  <2>6. QED
        BY <1>4, <2>1, <2>2, <2>3, <2>4, <2>5 DEF WorkerStep
<1>5. QED
      BY <1>1, <1>2, <1>3, <1>4 DEF Next, Slip, BucketAppears, NoFault, vars

LEMMA QueuesBounded ==
  ASSUME BoundInv, BaseInv', NEW t \in Tasks,
         \/ WorkerStep(t) \/ ParserStep(t) \/ GiveUp(t) \/ Emit(t) \/ ExitFfmpeg(t)
         \/ Timeout(t) \/ Crash(t),
         NEW u \in Tasks
  PROVE  Holds(u)'
<1>1. Shapes /\ Holds(u) /\ PipeSize \in Nat \ {0}
      BY TranscodeAssumption DEF BoundInv, BaseInv
<1>2. pipe \in [Tasks -> Seq(Positions)] /\ buffer \in [Tasks -> Seq(Positions)]
      BY <1>1 DEF Shapes
<1> USE DEF progress
<1>3. CASE UNCHANGED <<pipe, buffer, best, told>>
      BY <1>1, <1>3 DEF Holds
<1>4. CASE Emit(t)
  <2>1. PICK p \in Positions : pipe' = [pipe EXCEPT ![t] = Append(pipe[t], p)]
        BY <1>4 DEF Emit
  <2>2. Len(Append(pipe[t], p)) = Len(pipe[t]) + 1 /\ Len(pipe[t]) \in Nat
        BY <1>2
  <2>3. Len(pipe'[u]) <= PipeSize
        BY <1>1, <1>2, <1>4, <2>1, <2>2 DEF Emit, HasRoom, Holds
  <2>4. UNCHANGED <<buffer, best, told>>
        BY <1>4 DEF Emit
  <2>5. QED
        BY <1>1, <2>3, <2>4 DEF Holds
<1>5. Len(<< >>) = 0
      OBVIOUS
<1>6. CASE Read(t)
  <2>1. buffer' = [buffer EXCEPT ![t] = pipe[t]] /\ pipe' = [pipe EXCEPT ![t] = << >>]
        BY <1>6 DEF Read
  <2>2. UNCHANGED <<best, told>>
        BY <1>6 DEF Read
  <2>3. Len(pipe'[u]) <= PipeSize /\ Len(buffer'[u]) <= PipeSize
        BY <1>1, <1>2, <1>5, <2>1 DEF Holds
  <2>4. QED
        BY <1>1, <2>2, <2>3 DEF Holds
<1>7. CASE Wait(t)
  <2>1. pipe' = [pipe EXCEPT ![t] = << >>] /\ UNCHANGED <<buffer, best, told>>
        BY <1>7 DEF Wait
  <2>2. Len(pipe'[u]) <= PipeSize
        BY <1>1, <1>2, <1>5, <2>1 DEF Holds
  <2>3. QED
        BY <1>1, <2>1, <2>2 DEF Holds
<1>8. CASE Line(t)
  <2>1. buffer' = [buffer EXCEPT ![t] = Tail(buffer[t])] /\ buffer[t] # << >> /\ UNCHANGED pipe
        BY <1>8 DEF Line
  <2>2. Len(Tail(buffer[t])) = Len(buffer[t]) - 1 /\ Len(buffer[t]) \in Nat
        BY <1>2, <2>1, HeadTailProperties
  <2>3. Len(buffer'[u]) <= PipeSize
        BY <1>1, <1>2, <2>1, <2>2 DEF Holds
  <2>4. told'[u] <= best'[u]
    <3>1. CASE UNCHANGED <<best, told>>
          BY <1>1, <3>1 DEF Holds
    <3>2. ASSUME NEW p, best' = [best EXCEPT ![t] = p], told' = [told EXCEPT ![t] = p]
          PROVE  told'[u] <= best'[u]
      <4>1. CASE u = t
        <5>1. best'[u] = p /\ told'[u] = p
              BY <1>1, <3>2, <4>1 DEF Shapes
        <5>2. told'[u] = best'[u]
              BY <5>1
        <5>3. best'[u] \in 0..100
          <6>1. best' \in [Tasks -> 0..100]
                BY DEF BaseInv, Shapes
          <6>2. QED
                BY <6>1
        <5>4. QED
              BY <5>2, <5>3
      <4>2. CASE u # t
            BY <1>1, <3>2, <4>2 DEF Shapes, Holds
      <4>3. QED
            BY <4>1, <4>2
    <3>3. QED
          BY <1>8, <3>1, <3>2 DEF Line
  <2>5. QED
        BY <1>1, <2>1, <2>3, <2>4 DEF Holds
<1>9. QED
  <2>1. ASSUME WorkerStep(t) \/ Crash(t), ~ Wait(t)
        PROVE  UNCHANGED <<pipe, buffer, best, told>>
        BY <2>1 DEF WorkerStep, Download, Probe, SaveInfo, Thumbnail, Tell, StartEncoding, List,
          CheckBucket, MakeBucket, Put, Uploaded, Finish, Fail, Crash
  <2>2. ASSUME Report(t) \/ ParserEnds(t) \/ GiveUp(t) \/ ExitFfmpeg(t) \/ Timeout(t)
        PROVE  UNCHANGED <<pipe, buffer, best, told>>
        BY <2>2 DEF Report, ParserEnds, GiveUp, ExitFfmpeg, Timeout
  <2>3. QED
        BY <1>3, <1>4, <1>6, <1>7, <1>8, <2>1, <2>2 DEF ParserStep

LEMMA BoundStep == BoundInv /\ [Next]_vars => BoundInv'
<1> SUFFICES ASSUME BoundInv, [Next]_vars
             PROVE  BoundInv'
    OBVIOUS
<1>1. BaseInv' /\ faults' \in 0..MaxFaults
      BY BaseStep, FaultsCounted DEF BoundInv
<1>2. CASE UNCHANGED vars \/ BucketAppears
      BY <1>1, <1>2 DEF BoundInv, Holds, vars, BucketAppears, progress
<1>3. ASSUME NEW t \in Tasks,
             WorkerStep(t) \/ ParserStep(t) \/ GiveUp(t) \/ Emit(t) \/ ExitFfmpeg(t)
               \/ Timeout(t) \/ Crash(t)
      PROVE  BoundInv'
      BY <1>1, <1>3, QueuesBounded DEF BoundInv
<1>4. QED
      BY <1>2, <1>3 DEF Next

(* Every variable of the worker, ffmpeg and the parser keeps its type; the *)
(* pipe and the parser's buffer stay within the size of the pipe.          *)
THEOREM TranscodeTypeCorrect == Spec => []TypeOK
<1>1. BoundInv /\ PlayInv => TypeOK
  <2> SUFFICES ASSUME BoundInv, PlayInv
               PROVE  TypeOK
      OBVIOUS
  <2>1. Shapes /\ NoFile \notin Files /\ bucket \in BOOLEAN /\ faults \in 0..MaxFaults
        BY TranscodeAssumption DEF BoundInv, BaseInv, PlayInv, Stored
  <2>2. ASSUME NEW t \in Tasks
        PROVE  /\ row[t].status \in {"processing", "success", "failed"}
               /\ row[t].progress \in 0..100
               /\ stage[t] \notin {"download", "fail", "end"} => file[t] # NoFile
               /\ Len(pipe[t]) <= PipeSize /\ Len(buffer[t]) <= PipeSize
               /\ told[t] \in -1..best[t]
    <3>1. row[t] \in TaskRow /\ told[t] \in {-1} \cup (0..100) /\ best[t] \in 0..100
          BY <2>1 DEF Shapes
    <3>2. Holds(t) /\ FileRead(t)
          BY DEF BoundInv, BaseInv
    <3>3. row[t].status \in {"processing", "success", "failed"} /\ row[t].progress \in 0..100
          BY <3>1 DEF TaskRow
    <3>4. told[t] \in -1..best[t]
      <4>1. told[t] \in Int /\ told[t] >= -1 /\ best[t] \in Int
            BY <3>1
      <4>2. told[t] <= best[t]
            BY <3>2 DEF Holds
      <4>3. QED
            BY <4>1, <4>2
    <3>5. QED
          BY <2>1, <3>2, <3>3, <3>4 DEF Holds, FileRead
  <2>3. QED
        BY <2>1, <2>2 DEF TypeOK, Shapes, Names
<1>2. Spec => []BoundInv
      BY BoundInit, BoundStep, PTL DEF Spec
<1>3. Spec => []PlayInv
      BY PlayInit, PlayStep, PTL DEF Spec
<1>4. QED
      BY <1>1, <1>2, <1>3, PTL

-----------------------------------------------------------------------------
(* The work on a task as WorkerPool sees it *)

TaskStep(t) ==
  \/ WorkerStep(t) \/ ParserStep(t) \/ GiveUp(t) \/ Emit(t) \/ ExitFfmpeg(t) \/ Timeout(t)
  \/ Crash(t)

Causes == {"fault", "crash", "source", "timeout", "bucket"}
Early == {"download", "probe", "save"}
Lost == {t \in Tasks : Unsaved(t)}

\* A worker that has not come to the end has written no final status; every task that
\* was left without one was left by a fault of its own.
PoolInv ==
  /\ BaseInv
  /\ cause \in [Tasks -> SUBSET Causes]
  /\ faults \in 0..MaxFaults
  /\ \A t \in Tasks : stage[t] # "end" => row[t].status = "processing" /\ ~ Crashed(t)
  /\ Cardinality(Lost) <= faults

\* What a step of t can be, to WorkerPool
Hides(t) ==
  /\ stage'[t] = stage[t] /\ row'[t].status = row[t].status
  /\ Crashed(t)' <=> Crashed(t)
  /\ faults' \in {faults, faults + 1}
Works(t) ==
  /\ stage[t] # "end" /\ stage'[t] # "end"
  /\ stage'[t] \in Early => stage[t] \in Early
  /\ row'[t].status = "processing" /\ ~ Crashed(t)'
  /\ faults' \in {faults, faults + 1}
Ends(t, from, status) ==
  /\ stage[t] = from /\ stage'[t] = "end"
  /\ ~ Crashed(t)'
  /\ \/ row'[t].status = status /\ UNCHANGED faults
     \/ row'[t].status = "processing" /\ faults' = faults + 1 /\ faults < MaxFaults
Breaks(t) ==
  /\ stage[t] # "end" /\ stage'[t] = "end"
  /\ row'[t].status = "processing" /\ Crashed(t)'
  /\ faults' = faults + 1 /\ faults < MaxFaults

LEMMA PoolInit == Init => PoolInv
<1> SUFFICES ASSUME Init
             PROVE  PoolInv
    OBVIOUS
<1>1. faults = 0 /\ MaxFaults \in Nat
      BY TranscodeAssumption DEF Init
<1>2. \A t \in Tasks : stage[t] = "download" /\ row[t].status = "processing" /\ ~ Crashed(t)
      BY DEF Init, Crashed
<1>3. cause \in [Tasks -> SUBSET Causes]
      BY DEF Init
<1>4. Lost = {}
      BY <1>2 DEF Lost, Unsaved
<1>5. Cardinality(Lost) = 0
      BY <1>4, FS_EmptySet
<1>6. QED
      BY <1>1, <1>2, <1>3, <1>5, BaseInit DEF PoolInv

\* Blame, and what a step costs: nothing but a crash is a crash.
LEMMA BlameTypes ==
  ASSUME PoolInv, NEW t \in Tasks, NEW c \in Causes, Blame(t, c)
  PROVE  /\ cause' \in [Tasks -> SUBSET Causes]
         /\ \A u \in Tasks \ {t} : cause'[u] = cause[u]
         /\ Crashed(t)' <=> (c = "crash" \/ Crashed(t))
<1>1. cause \in [Tasks -> SUBSET Causes]
      BY DEF PoolInv
<1>2. cause' = [cause EXCEPT ![t] = cause[t] \cup {c}]
      BY DEF Blame
<1>3. cause'[t] = cause[t] \cup {c} /\ cause[t] \cup {c} \in SUBSET Causes
      BY <1>1, <1>2
<1>4. QED
      BY <1>1, <1>2, <1>3 DEF Crashed

\* What a call costs.
Costs(t) ==
  \/ NoFault
  \/ UNCHANGED faults /\ \E c \in Causes \ {"crash"} : Blame(t, c)
  \/ Fault(t)
  \/ Slip

LEMMA CostTypes ==
  ASSUME PoolInv, NEW t \in Tasks, Costs(t)
  PROVE  /\ cause' \in [Tasks -> SUBSET Causes]
         /\ \A u \in Tasks \ {t} : cause'[u] = cause[u]
         /\ Crashed(t)' <=> Crashed(t)
         /\ faults' = faults \/ (faults' = faults + 1 /\ faults < MaxFaults)
<1>1. cause \in [Tasks -> SUBSET Causes]
      BY DEF PoolInv
<1>2. CASE NoFault
      BY <1>1, <1>2 DEF NoFault, Crashed
<1>3. ASSUME UNCHANGED faults, NEW c \in Causes \ {"crash"}, Blame(t, c)
      PROVE  /\ cause' \in [Tasks -> SUBSET Causes]
             /\ \A u \in Tasks \ {t} : cause'[u] = cause[u]
             /\ Crashed(t)' <=> Crashed(t)
      BY <1>3, BlameTypes
<1>4. CASE Fault(t)
      BY <1>4, BlameTypes DEF Fault, Strike, Causes
<1>5. CASE Slip
      BY <1>1, <1>5 DEF Slip, Crashed
<1>6. QED
      BY <1>2, <1>3, <1>4, <1>5 DEF Costs

\* A call of the worker's that is not its last one
LEMMA CallWorks ==
  ASSUME PoolInv, NEW t \in Tasks, NEW from \in Stages \ {"end"}, NEW to \in Stages \ {"end"},
         to \in Early => from \in Early,
         stage[t] = from, Goto(t, to), Costs(t),
         \/ \E p \in Int : SetProgress(t, p)
         \/ SaveRow(t, "processing", AsRead, {})
         \/ UNCHANGED row
  PROVE  Works(t)
<1>1. Shapes /\ row[t].status = "processing" /\ ~ Crashed(t)
      BY DEF PoolInv, BaseInv
<1>2. stage'[t] = to
      BY <1>1, StageTypes
<1>3. row'[t].status = "processing"
  <2>1. CASE SaveRow(t, "processing", AsRead, {})
        BY <1>1, <2>1 DEF SaveRow, Shapes
  <2>2. ASSUME NEW p, SetProgress(t, p) \/ UNCHANGED row
        PROVE  row'[t].status = "processing"
        BY <1>1, <2>2, StatusKept
  <2>3. QED
        BY <2>1, <2>2
<1>4. QED
      BY <1>1, <1>2, <1>3, CostTypes DEF Works

LEMMA WorkerView ==
  ASSUME PoolInv, NEW t \in Tasks, WorkerStep(t)
  PROVE  /\ Costs(t)
         /\ Works(t) \/ Ends(t, "fail", "failed") \/ Ends(t, "finish", "success")
<1>1. Shapes /\ row[t].status \in {"processing", "success", "failed"}
      BY DEF PoolInv, BaseInv, Shapes, TaskRow
<1> USE DEF Stages, Early
<1>2. ASSUME NEW from \in Stages, NEW to \in Stages, Succeeds(t, from, to)
      PROVE  stage[t] = from /\ Goto(t, to) /\ Costs(t)
      BY <1>2 DEF Succeeds, Costs
<1>3. ASSUME NEW from \in Stages, Fails(t, from)
      PROVE  stage[t] = from /\ Goto(t, "fail") /\ Costs(t)
      BY <1>3 DEF Fails, Costs
<1>4. ASSUME NEW from \in Stages, NEW c \in Causes \ {"crash"}, Refuses(t, from, c)
      PROVE  stage[t] = from /\ Goto(t, "fail") /\ Costs(t)
      BY <1>4 DEF Refuses, Costs
<1>5. CASE Download(t) \/ Probe(t)
  <2>1. \E from \in Early, to \in {"probe", "save", "fail"} : stage[t] = from /\ Goto(t, to) /\ Costs(t)
    <3>1. CASE Download(t)
          BY <1>2, <1>3, <1>4, <3>1 DEF Download, Causes
    <3>2. CASE Probe(t)
          BY <1>2, <1>3, <1>4, <3>2 DEF Probe, Causes
    <3>3. QED
          BY <1>5, <3>1, <3>2
  <2>2. UNCHANGED row
        BY <1>5 DEF Download, Probe
  <2>3. QED
        BY <2>1, <2>2, CallWorks
<1>6. CASE SaveInfo(t) \/ Thumbnail(t)
  <2>1. PICK from \in {"save", "thumb"}, to \in {"thumb", "tell", "start"} :
          stage[t] = from /\ Goto(t, to)
        BY <1>6 DEF SaveInfo, Thumbnail, AfterThumbnail
  <2>2. Costs(t) /\ (SaveRow(t, "processing", AsRead, {}) \/ UNCHANGED row)
        BY <1>6 DEF SaveInfo, Thumbnail, Costs
  <2>3. QED
        BY <2>1, <2>2, CallWorks
<1>7. CASE Tell(t, "tell", 10, "start") \/ Tell(t, "tell100", 100, "upload")
  <2>1. PICK from \in {"tell", "tell100"}, to \in {"start", "upload"}, p \in {10, 100} :
          stage[t] = from /\ Goto(t, to) /\ (SetProgress(t, p) \/ UNCHANGED row)
        BY <1>7 DEF Tell
  <2>2. Costs(t)
        BY <1>7 DEF Tell, Costs
  <2>3. QED
        BY <2>1, <2>2, CallWorks
<1>8. CASE StartEncoding(t) \/ Wait(t) \/ List(t)
  <2>1. \E from \in {"start", "run", "list"}, to \in {"run", "list", "tell100", "fail"} :
          stage[t] = from /\ Goto(t, to) /\ Costs(t)
    <3>1. CASE StartEncoding(t)
          BY <1>2, <1>3, <3>1 DEF StartEncoding
    <3>2. CASE Wait(t)
          BY <3>2 DEF Wait, Costs
    <3>3. CASE List(t)
          BY <1>2, <1>3, <3>3 DEF List
    <3>4. QED
          BY <1>8, <3>1, <3>2, <3>3
  <2>2. UNCHANGED row
        BY <1>8 DEF StartEncoding, Wait, List
  <2>3. QED
        BY <2>1, <2>2, CallWorks
<1>9. CASE CheckBucket(t) \/ MakeBucket(t) \/ Put(t) \/ Uploaded(t)
  <2>1. \E from \in {"upload", "make", "put"}, to \in {"put", "make", "upload", "finish", "fail"} :
          stage[t] = from /\ Goto(t, to) /\ Costs(t)
    <3>1. CASE CheckBucket(t)
          BY <1>2, <1>3, <3>1 DEF CheckBucket
    <3>2. CASE MakeBucket(t)
          BY <1>2, <1>3, <1>4, <3>2 DEF MakeBucket, Causes
    <3>3. CASE Put(t) \/ Uploaded(t)
          BY <1>2, <1>3, <3>3 DEF Put, Uploaded
    <3>4. QED
          BY <1>9, <3>1, <3>2, <3>3
  <2>2. UNCHANGED row
        BY <1>9 DEF CheckBucket, MakeBucket, Put, Uploaded
  <2>3. QED
        BY <2>1, <2>2, CallWorks
<1>10. CASE Finish(t) \/ Fail(t)
  <2>1. PICK from \in {"fail", "finish"}, status \in {"failed", "success"} :
          /\ status = IF from = "fail" THEN "failed" ELSE "success"
          /\ stage[t] = from /\ Goto(t, "end")
          /\ \/ NoFault /\ \E p, output : SaveRow(t, status, p, output)
             \/ Fault(t) /\ UNCHANGED row
        BY <1>10 DEF Finish, Fail
  <2>2. Costs(t)
        BY <2>1 DEF Costs
  <2>3. stage'[t] = "end" /\ row[t].status = "processing" /\ ~ Crashed(t)'
        BY <1>1, <2>1, <2>2, StageTypes, CostTypes DEF PoolInv
  <2>4. \A p, output : SaveRow(t, status, p, output) => row'[t].status = status
        BY <1>1 DEF SaveRow, Shapes
  <2>5. Ends(t, from, status)
        BY <2>1, <2>3, <2>4 DEF Ends, Fault, Strike, NoFault
  <2>6. QED
        BY <2>1, <2>2, <2>5
<1>11. QED
       BY <1>5, <1>6, <1>7, <1>8, <1>9, <1>10 DEF WorkerStep

LEMMA MachineView ==
  ASSUME PoolInv, NEW t \in Tasks,
         ParserStep(t) \/ GiveUp(t) \/ Emit(t) \/ ExitFfmpeg(t) \/ Timeout(t)
  PROVE  Costs(t) /\ Hides(t)
<1>1. Shapes
      BY DEF PoolInv, BaseInv
<1>2. Costs(t)
  <2>1. CASE ParserStep(t) \/ GiveUp(t) \/ Emit(t)
        BY <2>1 DEF ParserStep, Read, Line, Report, ParserEnds, GiveUp, Emit, Costs
  <2>2. CASE ExitFfmpeg(t) \/ Timeout(t)
        BY <2>2 DEF ExitFfmpeg, Timeout, Costs, Causes, Blame
  <2>3. QED
        BY <2>1, <2>2
<1>3. UNCHANGED stage /\ (UNCHANGED row \/ SetProgress(t, TotalProgress(told[t])))
      BY DEF ParserStep, Read, Line, Report, ParserEnds, GiveUp, Emit, ExitFfmpeg, Timeout
<1>4. row'[t].status = row[t].status
      BY <1>1, <1>3, StatusKept
<1>5. QED
      BY <1>2, <1>3, <1>4, CostTypes DEF Hides

LEMMA CrashView ==
  ASSUME PoolInv, NEW t \in Tasks, Crash(t)
  PROVE  /\ Breaks(t)
         /\ cause' \in [Tasks -> SUBSET Causes]
         /\ \A u \in Tasks \ {t} : cause'[u] = cause[u]
<1>1. Shapes /\ stage[t] # "end"
      BY DEF PoolInv, BaseInv, Crash
<1>2. stage'[t] = "end"
      BY <1>1, StageTypes DEF Crash, Stages
<1>3. /\ cause' \in [Tasks -> SUBSET Causes]
      /\ \A u \in Tasks \ {t} : cause'[u] = cause[u]
      /\ Crashed(t)'
      BY BlameTypes DEF Crash, Strike, Causes
<1>4. row'[t].status = "processing" /\ faults' = faults + 1 /\ faults < MaxFaults
      BY <1>1 DEF PoolInv, Crash, Strike
<1>5. QED
      BY <1>1, <1>2, <1>3, <1>4 DEF Breaks

\* A step of t is one of five, and none of the other tasks' business.
LEMMA StepView ==
  ASSUME PoolInv, NEW t \in Tasks, TaskStep(t)
  PROVE  /\ \/ Hides(t) \/ Works(t) \/ Breaks(t)
            \/ Ends(t, "fail", "failed") \/ Ends(t, "finish", "success")
         /\ cause' \in [Tasks -> SUBSET Causes]
         /\ \A u \in Tasks \ {t} :
              /\ stage'[u] = stage[u] /\ row'[u] = row[u]
              /\ Crashed(u)' <=> Crashed(u)
              /\ Unsaved(u)' <=> Unsaved(u)
              /\ PoolPc(u)' = PoolPc(u)
<1>1. Alone(t)
      BY TaskBase DEF PoolInv, TaskStep
<1>2. /\ \/ Hides(t) \/ Works(t) \/ Breaks(t)
         \/ Ends(t, "fail", "failed") \/ Ends(t, "finish", "success")
      /\ cause' \in [Tasks -> SUBSET Causes]
      /\ \A u \in Tasks \ {t} : cause'[u] = cause[u]
      BY WorkerView, MachineView, CrashView, CostTypes DEF TaskStep
<1>3. QED
      BY <1>1, <1>2 DEF Alone, Crashed, Unsaved, PoolPc

\* A task is lost only by its own step, and for a fault.
LEMMA LostStep ==
  ASSUME PoolInv, NEW t \in Tasks, TaskStep(t)
  PROVE  /\ Hides(t) \/ Works(t) => Lost' = Lost
         /\ ~ Unsaved(t) /\ ~ Unsaved(t)' => Lost' = Lost
         /\ ~ Unsaved(t) /\ Unsaved(t)' => Cardinality(Lost') = Cardinality(Lost) + 1
         /\ Cardinality(Lost) \in Nat
<1>1. \A u \in Tasks \ {t} : Unsaved(u)' <=> Unsaved(u)
      BY StepView
<1>2. Hides(t) \/ Works(t) => (Unsaved(t)' <=> Unsaved(t))
      BY DEF Hides, Works, Unsaved
<1>3. (Unsaved(t)' <=> Unsaved(t)) => Lost' = Lost
      BY <1>1 DEF Lost
<1>4. IsFiniteSet(Lost)
      BY TranscodeAssumption, FS_Subset DEF Lost
<1>5. ASSUME ~ Unsaved(t), Unsaved(t)'
      PROVE  Cardinality(Lost') = Cardinality(Lost) + 1
  <2>1. Lost' = Lost \cup {t} /\ t \notin Lost
        BY <1>1, <1>5 DEF Lost
  <2>2. QED
        BY <1>4, <2>1, FS_AddElement
<1>6. QED
      BY <1>2, <1>3, <1>4, <1>5, FS_CardinalityType

LEMMA PoolStep == PoolInv /\ [Next]_vars => PoolInv'
<1> SUFFICES ASSUME PoolInv, [Next]_vars
             PROVE  PoolInv'
    OBVIOUS
<1>1. BaseInv' /\ faults' \in 0..MaxFaults /\ faults \in 0..MaxFaults /\ MaxFaults \in Nat
      BY BaseStep, FaultsCounted, TranscodeAssumption DEF PoolInv
<1>2. CASE UNCHANGED vars \/ BucketAppears
  <2>1. UNCHANGED <<row, stage, cause, faults>>
        BY <1>2 DEF vars, BucketAppears, NoFault
  <2>2. Lost' = Lost
        BY <2>1 DEF Lost, Unsaved
  <2>3. QED
        BY <1>1, <2>1, <2>2 DEF PoolInv, Crashed
<1>3. ASSUME NEW t \in Tasks, TaskStep(t)
      PROVE  PoolInv'
  <2>1. \A u \in Tasks : stage'[u] # "end" => row'[u].status = "processing" /\ ~ Crashed(u)'
    <3>1. stage'[t] # "end" => row'[t].status = "processing" /\ ~ Crashed(t)'
          BY <1>3, StepView DEF Hides, Works, Ends, Breaks, PoolInv
    <3>2. QED
          BY <1>3, <3>1, StepView DEF PoolInv
  <2>2. Cardinality(Lost') <= faults'
    <3>1. CASE Hides(t) \/ Works(t)
          BY <1>1, <1>3, <3>1, LostStep DEF PoolInv, Hides, Works
    <3>2. CASE Breaks(t) \/ Ends(t, "fail", "failed") \/ Ends(t, "finish", "success")
      <4>1. ~ Unsaved(t) /\ (Unsaved(t)' => faults' = faults + 1) /\ faults' \in {faults, faults + 1}
            BY <3>2 DEF Breaks, Ends, Unsaved
      <4>2. QED
            BY <1>1, <1>3, <4>1, LostStep DEF PoolInv
    <3>3. QED
          BY <1>3, <3>1, <3>2, StepView
  <2>3. QED
        BY <1>1, <1>3, <2>1, <2>2, StepView DEF PoolInv
<1>4. QED
      BY <1>2, <1>3 DEF Next, TaskStep

\* The variables of W that are not constant
StatusView == [u \in Tasks |-> row[u].status]
PcView == [u \in Tasks |-> PoolPc(u)]
ReadyView == [u \in Tasks |-> IF Crashed(u) THEN 1 ELSE 0]
MsgView == [u \in Tasks |-> IF Crashed(u) THEN None ELSE u]
HitView == [u \in Tasks |-> Unsaved(u)]

LEMMA ViewStep ==
  ASSUME PoolInv, NEW t \in Tasks, TaskStep(t)
  PROVE  /\ StatusView' = [StatusView EXCEPT ![t] = row'[t].status]
         /\ PcView' = [PcView EXCEPT ![t] = PoolPc(t)']
         /\ ReadyView' = [ReadyView EXCEPT ![t] = IF Crashed(t)' THEN 1 ELSE 0]
         /\ MsgView' = [MsgView EXCEPT ![t] = IF Crashed(t)' THEN None ELSE t]
         /\ Unsaved(t)' => HitView' = [HitView EXCEPT ![t] = TRUE]
         /\ (Unsaved(t)' <=> Unsaved(t)) => UNCHANGED HitView
         /\ (Crashed(t)' <=> Crashed(t)) => UNCHANGED <<ReadyView, MsgView>>
         /\ row'[t].status = row[t].status => UNCHANGED StatusView
         /\ PoolPc(t)' = PoolPc(t) => UNCHANGED PcView
<1>1. \A u \in Tasks \ {t} :
        /\ stage'[u] = stage[u] /\ row'[u] = row[u]
        /\ Crashed(u)' <=> Crashed(u)
        /\ PoolPc(u)' = PoolPc(u)
      BY StepView
<1>2. /\ StatusView' = [StatusView EXCEPT ![t] = row'[t].status]
      /\ PcView' = [PcView EXCEPT ![t] = PoolPc(t)']
      BY <1>1 DEF StatusView, PcView
<1>3. ReadyView' = [ReadyView EXCEPT ![t] = IF Crashed(t)' THEN 1 ELSE 0]
      BY <1>1 DEF ReadyView
<1>4. MsgView' = [MsgView EXCEPT ![t] = IF Crashed(t)' THEN None ELSE t]
      BY <1>1 DEF MsgView
<1>5. /\ Unsaved(t)' => HitView' = [HitView EXCEPT ![t] = TRUE]
      /\ (Unsaved(t)' <=> Unsaved(t)) => UNCHANGED HitView
      BY <1>1 DEF HitView, Unsaved
<1>6. (Crashed(t)' <=> Crashed(t)) => UNCHANGED <<ReadyView, MsgView>>
      BY <1>1 DEF ReadyView, MsgView
<1>7. /\ row'[t].status = row[t].status => UNCHANGED StatusView
      /\ PoolPc(t)' = PoolPc(t) => UNCHANGED PcView
      BY <1>1 DEF StatusView, PcView
<1>8. QED
      BY <1>2, <1>3, <1>4, <1>5, <1>6, <1>7

LEMMA ViewKept ==
  ASSUME UNCHANGED <<StatusView, PcView, ReadyView, MsgView, HitView>>, Lost' = Lost
  PROVE  UNCHANGED W!vars
BY DEF W!vars, StatusView, PcView, ReadyView, MsgView, HitView, Lost

\* Nothing the pool can see
LEMMA HiddenStep ==
  ASSUME PoolInv, NEW t \in Tasks, TaskStep(t),
         Hides(t) \/ (Works(t) /\ PoolPc(t)' = PoolPc(t))
  PROVE  UNCHANGED W!vars
<1>1. /\ row'[t].status = row[t].status /\ (Crashed(t)' <=> Crashed(t))
      /\ Unsaved(t)' <=> Unsaved(t)
      /\ PoolPc(t)' = PoolPc(t)
  <2>1. CASE Hides(t)
        BY <2>1 DEF Hides, Unsaved, PoolPc
  <2>2. CASE Works(t) /\ PoolPc(t)' = PoolPc(t)
        BY <2>2 DEF Works, Unsaved, PoolInv
  <2>3. QED
        BY <2>1, <2>2
<1>2. UNCHANGED <<StatusView, PcView, ReadyView, MsgView, HitView>>
      BY <1>1, ViewStep
<1>3. Lost' = Lost
      BY LostStep
<1>4. QED
      BY <1>2, <1>3, ViewKept

\* From the preparation to the encoding
LEMMA SaveStep ==
  ASSUME PoolInv, NEW t \in Tasks, TaskStep(t), Works(t), PoolPc(t)' # PoolPc(t)
  PROVE  W!SaveInfo(t)
<1>1. /\ PcView[t] = "work" /\ PoolPc(t)' = "encode"
      /\ row[t].status = "processing" /\ row'[t].status = "processing"
      /\ ~ Crashed(t) /\ ~ Crashed(t)'
      /\ ~ Unsaved(t) /\ ~ Unsaved(t)'
      BY DEF Works, PoolPc, PoolInv, Early, Unsaved, PcView
<1>2. /\ StatusView' = [StatusView EXCEPT ![t] = "processing"]
      /\ PcView' = [PcView EXCEPT ![t] = "encode"]
      /\ UNCHANGED <<ReadyView, MsgView, HitView>>
      BY <1>1, ViewStep
<1>3. Cardinality(Lost') = Cardinality(Lost)
      BY LostStep
<1>4. MsgView[t] = t
      BY <1>1 DEF MsgView
<1>5. QED
      BY <1>1, <1>2, <1>3, <1>4
      DEF W!SaveInfo, W!Goto, W!Write, W!On, W!api, W!history,
          StatusView, PcView, ReadyView, MsgView, HitView, Lost

\* The save of the result, or of the failure, done or not
LEMMA LastStep ==
  ASSUME PoolInv, NEW t \in Tasks, TaskStep(t)
  PROVE  /\ Ends(t, "fail", "failed") => W!FailTask(t)
         /\ Ends(t, "finish", "success") => W!Succeed(t)
<1>1. ASSUME NEW from \in {"fail", "finish"}, NEW status \in {"failed", "success"},
             Ends(t, from, status)
      PROVE  /\ PcView[t] = "encode" /\ MsgView[t] = t
             /\ PcView' = [PcView EXCEPT ![t] = "ack"]
             /\ UNCHANGED <<ReadyView, MsgView>>
             /\ \/ /\ StatusView' = [StatusView EXCEPT ![t] = status]
                   /\ UNCHANGED HitView
                   /\ Cardinality(Lost') = Cardinality(Lost)
                \/ /\ Cardinality(Lost) < MaxFaults /\ Cardinality(Lost') = Cardinality(Lost) + 1
                   /\ HitView' = [HitView EXCEPT ![t] = TRUE]
                   /\ UNCHANGED StatusView
  <2>1. /\ ~ Crashed(t) /\ ~ Crashed(t)' /\ ~ Unsaved(t)
        /\ PoolPc(t) = "encode" /\ PoolPc(t)' = "ack"
        /\ row[t].status = "processing"
        BY <1>1 DEF Ends, PoolInv, PoolPc, Unsaved
  <2>2. PcView[t] = "encode" /\ MsgView[t] = t
        BY <2>1 DEF PcView, MsgView
  <2>3. PcView' = [PcView EXCEPT ![t] = "ack"] /\ UNCHANGED <<ReadyView, MsgView>>
        BY <2>1, ViewStep
  <2>4. CASE row'[t].status = status
    <3>1. ~ Unsaved(t)'
          BY <2>4 DEF Unsaved
    <3>2. UNCHANGED HitView /\ Cardinality(Lost') = Cardinality(Lost)
          BY <2>1, <3>1, ViewStep, LostStep
    <3>3. QED
          BY <2>2, <2>3, <2>4, <3>2, ViewStep
  <2>5. CASE row'[t].status = "processing" /\ faults < MaxFaults
    <3>1. Unsaved(t)'
          BY <1>1, <2>5 DEF Unsaved, Ends
    <3>2. HitView' = [HitView EXCEPT ![t] = TRUE] /\ UNCHANGED StatusView
          BY <2>1, <2>5, <3>1, ViewStep
    <3>3. Cardinality(Lost) < MaxFaults
      <4>1. faults \in Nat /\ MaxFaults \in Nat /\ Cardinality(Lost) \in Nat
            BY LostStep, TranscodeAssumption DEF PoolInv
      <4>2. QED
            BY <2>5, <4>1 DEF PoolInv
    <3>4. QED
          BY <2>1, <2>2, <2>3, <3>1, <3>2, <3>3, LostStep
  <2>6. QED
        BY <1>1, <2>4, <2>5 DEF Ends
<1>2. ASSUME Ends(t, "fail", "failed")
      PROVE  W!FailTask(t)
      BY <1>1, <1>2
      DEF W!FailTask, W!Active, W!Goto, W!SavedFailed, W!Fault, W!Hit, W!On, W!history,
          StatusView, PcView, ReadyView, MsgView, HitView, Lost
<1>3. ASSUME Ends(t, "finish", "success")
      PROVE  W!Succeed(t)
      BY <1>1, <1>3
      DEF W!Succeed, W!Goto, W!Write, W!Fault, W!Hit, W!On, W!history,
          StatusView, PcView, ReadyView, MsgView, HitView, Lost
<1>4. QED
      BY <1>2, <1>3

LEMMA CrashStep ==
  ASSUME PoolInv, NEW t \in Tasks, TaskStep(t), Breaks(t)
  PROVE  W!Crash(t)
<1>1. /\ PoolPc(t) \in {"work", "encode"} /\ PoolPc(t)' = "idle"
      /\ row[t].status = "processing" /\ row'[t].status = "processing"
      /\ ~ Crashed(t) /\ Crashed(t)' /\ ~ Unsaved(t) /\ Unsaved(t)'
      BY DEF Breaks, PoolInv, PoolPc, Unsaved
<1>2. PcView[t] \in {"work", "encode"} /\ MsgView[t] = t /\ ReadyView[t] = 0
      BY <1>1 DEF PcView, MsgView, ReadyView
<1>3. /\ PcView' = [PcView EXCEPT ![t] = "idle"]
      /\ MsgView' = [MsgView EXCEPT ![t] = None]
      /\ ReadyView' = [ReadyView EXCEPT ![t] = ReadyView[t] + 1]
      /\ HitView' = [HitView EXCEPT ![t] = TRUE]
      /\ UNCHANGED StatusView
      BY <1>1, <1>2, ViewStep
<1>4. Cardinality(Lost) < MaxFaults /\ Cardinality(Lost') = Cardinality(Lost) + 1
  <2>1. faults \in Nat /\ MaxFaults \in Nat /\ Cardinality(Lost) \in Nat
        BY LostStep, TranscodeAssumption DEF PoolInv
  <2>2. QED
        BY <1>1, <2>1, LostStep DEF PoolInv, Breaks
<1>5. W!Fault
      BY <1>4 DEF W!Fault, Lost
<1>6. W!Exit(t)
  <2>1. W!GiveBack(t) = [ReadyView EXCEPT ![t] = ReadyView[t] + 1]
        BY <1>2 DEF W!GiveBack, PcView, ReadyView, MsgView
  <2>2. W!Hit(t) /\ W!On(t) = t /\ W!BusyPc = {"count", "work", "encode"}
        BY <1>2, <1>3 DEF W!Hit, W!On, W!BusyPc, HitView, MsgView
  <2>3. QED
        BY <1>2, <1>3, <2>1, <2>2
        DEF W!Exit, W!rows, W!api, StatusView, PcView, ReadyView, MsgView
<1>7. QED
      BY <1>5, <1>6 DEF W!Crash

LEMMA PoolView ==
  PoolInv /\ [Next]_vars =>
    [\E t \in Tasks : W!SaveInfo(t) \/ W!FailTask(t) \/ W!Succeed(t) \/ W!Crash(t)]_(W!vars)
<1> SUFFICES ASSUME PoolInv, [Next]_vars
             PROVE  [\E t \in Tasks : W!SaveInfo(t) \/ W!FailTask(t) \/ W!Succeed(t) \/ W!Crash(t)]_(W!vars)
    OBVIOUS
<1>1. CASE UNCHANGED vars \/ BucketAppears
  <2>1. UNCHANGED <<row, stage, cause>>
        BY <1>1 DEF vars, BucketAppears, NoFault
  <2>2. UNCHANGED <<StatusView, PcView, ReadyView, MsgView, HitView>> /\ Lost' = Lost
        BY <2>1 DEF StatusView, PcView, ReadyView, MsgView, HitView, Lost, PoolPc, Crashed, Unsaved
  <2>3. QED
        BY <2>2, ViewKept
<1>2. ASSUME NEW t \in Tasks, TaskStep(t)
      PROVE  W!SaveInfo(t) \/ W!FailTask(t) \/ W!Succeed(t) \/ W!Crash(t) \/ UNCHANGED W!vars
  <2>1. CASE Hides(t) \/ Works(t)
        BY <1>2, <2>1, HiddenStep, SaveStep
  <2>2. CASE Ends(t, "fail", "failed") \/ Ends(t, "finish", "success")
        BY <1>2, <2>2, LastStep
  <2>3. CASE Breaks(t)
        BY <1>2, <2>3, CrashStep
  <2>4. QED
        BY <1>2, <2>1, <2>2, <2>3, StepView
<1>3. QED
      BY <1>1, <1>2 DEF Next, TaskStep

LEMMA ViewAssumption == W!PoolAssumption
BY TranscodeAssumption DEF W!PoolAssumption, W!IsFiniteSet, IsFiniteSet

(* Whatever the worker, ffmpeg and the parser do in ProcessTask is, to the *)
(* consumers, a save of the source's data, a final status saved or not     *)
(* saved for a fault, a crash, or nothing: what WorkerPool is proved to    *)
(* do covers what Transcode shows in detail.                               *)
THEOREM WorkIsThePools == Spec => StepsOfPool
<1>1. Spec => []PoolInv
      BY PoolInit, PoolStep, PTL DEF Spec
<1>2. PoolInv /\ [Next]_vars =>
        [\E t \in Tasks : W!SaveInfo(t) \/ W!FailTask(t) \/ W!Succeed(t) \/ W!Crash(t)]_(W!vars)
      BY PoolView
<1>3. QED
      BY <1>1, <1>2, PTL DEF Spec, StepsOfPool
=============================================================================
