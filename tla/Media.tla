------------------------------- MODULE Media -------------------------------
(***************************************************************************)
(* The arithmetic of pkg/ffmpeg and of ffmpeg_transcoder.go: what ffprobe's*)
(* output says of a file (video_info.go), which files are refused          *)
(* (validator.go), how a picture is turned and scaled (rotation.go,        *)
(* scale.go), how long ffmpeg may run and what progress means.             *)
(*                                                                         *)
(* A file is a record: its size, its duration in hundredths of a second    *)
(* (0 if the container names none), the time of its last picture, whether  *)
(* it has audio, and its video streams in order: picture size, the rotation*)
(* field (0 if absent or no number) and the rotations of its Display Matrix*)
(* entries.                                                                *)
(*                                                                         *)
(* Floating point results are those of the exact quotients, rounded as the *)
(* code rounds them.                                                       *)
(***************************************************************************)
EXTENDS Integers, Sequences

CONSTANTS
  MinFileSize, MaxFileSize,   \* ValidationConfig
  MaxDuration,
  MaxAspect                   \* MaxAspectRatio; MinAspectRatio is its inverse

ASSUME MediaAssumption ==
  /\ MinFileSize \in Nat /\ MaxFileSize \in Nat /\ MaxDuration \in Nat
  /\ MaxAspect \in Nat \ {0}

-----------------------------------------------------------------------------
(* video_info.go *)

\* Go's % takes the sign of the dividend.
GoRemainder(a, b) == IF a >= 0 THEN a % b ELSE - ((- a) % b)
NormalizeRotation(r) ==
  LET m == GoRemainder(r, 360) IN IF m < 0 THEN m + 360 ELSE m

\* The rotation field, or else the first entry that turns the picture.
StreamRotation(s) ==
  LET turns == SelectSeq(<<s.rotation>> \o s.matrices, LAMBDA r : NormalizeRotation(r) # 0)
  IN IF turns = << >> THEN 0 ELSE NormalizeRotation(Head(turns))

\* Every video stream overwrites what the one before it said.
Info(f) ==
  IF f.streams = << >> THEN [width |-> 0, height |-> 0, rotation |-> 0, duration |-> f.duration]
  ELSE LET s == f.streams[Len(f.streams)] IN
       [width |-> s.width, height |-> s.height, rotation |-> StreamRotation(s),
        duration |-> f.duration]

-----------------------------------------------------------------------------
(* validator.go *)

\* A container without a video stream has a picture of 0x0.
Valid(f) ==
  LET i == Info(f) IN
  /\ f.size >= MinFileSize /\ f.size <= MaxFileSize
  /\ i.width # 0 /\ i.height # 0
  /\ i.duration <= MaxDuration
  /\ i.width * MaxAspect >= i.height /\ i.width <= MaxAspect * i.height

-----------------------------------------------------------------------------
(* rotation.go *)

Sideways == {90, 270, -90, -270}

RotationFilter(r) ==
  CASE r \in {90, -270}  -> "transpose=2"
    [] r \in {180, -180} -> "transpose=1,transpose=1"
    [] r \in {270, -90}  -> "transpose=1"
    [] OTHER             -> "none"

DimensionsAsStored(w, h, r) == <<w, h>>
EffectiveDimensions(w, h, r) == IF r \in Sideways THEN <<h, w>> ELSE <<w, h>>

\* What ffmpeg's filter makes of a picture of w by h.
Turned(w, h, filter) ==
  IF filter \in {"transpose=1", "transpose=2"} THEN <<h, w>> ELSE <<w, h>>

-----------------------------------------------------------------------------
(* scale.go *)

EnsureEven(n) == IF n % 2 # 0 THEN n - 1 ELSE n
AtLeast2(n) == IF n < 2 THEN 2 ELSE n
Fit(n) == AtLeast2(EnsureEven(n))

\* CalculateWithRotation: the shorter side becomes target, the other one follows.
ScaledSize(w, h, target, r) ==
  LET d == EffectiveDimensions(w, h, r) IN
  IF w <= 0 \/ h <= 0 THEN <<1920, 1080>>
  ELSE IF d[2] > d[1] THEN <<Fit(target), Fit((d[2] * target) \div d[1])>>
  ELSE <<Fit((d[1] * target) \div d[2]), Fit(target)>>

-----------------------------------------------------------------------------
(* ffmpeg_transcoder.go *)

\* buildFiltergraph takes [0:v], the first video stream, turns it by the rotation
\* of Info and scales it: <<picture after the turn, encoded picture>>.
Encoding(f, target) ==
  LET i == Info(f)
      s == f.streams[1]
  IN <<Turned(s.width, s.height, RotationFilter(i.rotation)),
       ScaledSize(i.width, i.height, target, i.rotation)>>

\* The RESOLUTION a line of the master playlist names.
ListedSize(f, target) == LET i == Info(f) IN ScaledSize(i.width, i.height, target, i.rotation)

\* Seconds ffmpeg may run; the bounds of the configuration are minutes.
EncodeTimeout(duration, multiplier, min, max) ==
  LET wanted == (duration * multiplier) \div 100
      atLeast == IF wanted < 60 * min THEN 60 * min ELSE wanted
  IN IF atLeast > 60 * max THEN 60 * max ELSE atLeast

PercentUncapped(time, duration) == (time * 100) \div duration
\* progress.go: the position ffmpeg reports, in per cent of the duration.
PercentOf(time, duration) ==
  LET p == (time * 100) \div duration IN IF p > 100 THEN 100 ELSE p

\* The thumbnail is the first tenth of the task's progress.
TotalProgress(percent) == 10 + (percent * 90) \div 100

-----------------------------------------------------------------------------
(* What the encoder needs, and what scale.go promises: no stretched picture. *)

EvenSides(size) == size[1] >= 2 /\ size[2] >= 2 /\ size[1] % 2 = 0 /\ size[2] % 2 = 0

\* Both sides are within two pixels of a picture with the shape of a by b; when the
\* result is smaller than that, the shape cannot be kept.
SameShape(size, shape) ==
  LET w == size[1] h == size[2] a == shape[1] b == shape[2] IN
  /\ w * b < (h + 2) * a
  /\ h * a < (w + 2) * b
=============================================================================
