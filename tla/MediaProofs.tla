---------------------------- MODULE MediaProofs ----------------------------
(* What the arithmetic of Media guarantees for every input. *)
EXTENDS Media, TLAPS

-----------------------------------------------------------------------------
(* Division *)

LEMMA Quotient ==
  ASSUME NEW n \in Nat, NEW d \in Nat \ {0}
  PROVE  /\ n \div d \in Nat
         /\ d * (n \div d) <= n
         /\ n < d * (n \div d) + d
OBVIOUS

LEMMA Remainder == \A n \in Nat : n % 360 \in 0..359
OBVIOUS

LEMMA Parity ==
  ASSUME NEW n \in Nat
  PROVE  n % 2 \in {0, 1} /\ n = 2 * (n \div 2) + (n % 2) /\ n \div 2 \in Nat
OBVIOUS

-----------------------------------------------------------------------------
(* Rotation *)

(* normalizeRotation: always in 0..359, whatever sign and size ffprobe gives. *)
THEOREM RotationNormalized == \A r \in Int : NormalizeRotation(r) \in 0..359
<1> SUFFICES ASSUME NEW r \in Int
             PROVE  NormalizeRotation(r) \in 0..359
    OBVIOUS
<1>1. CASE r >= 0
  <2>1. r \in Nat
        BY <1>1
  <2>2. GoRemainder(r, 360) \in 0..359
        BY <1>1, <2>1, Remainder DEF GoRemainder
  <2>3. QED
        BY <2>2 DEF NormalizeRotation
<1>2. CASE r < 0
  <2>1. - r \in Nat /\ ~ (r >= 0)
        BY <1>2
  <2>2. (- r) % 360 \in 0..359
        BY <2>1, Remainder
  <2>3. GoRemainder(r, 360) = - ((- r) % 360)
        BY <2>1 DEF GoRemainder
  <2>4. QED
        BY <2>2, <2>3 DEF NormalizeRotation
<1>3. QED
      BY <1>1, <1>2

(* rotation.go and scale.go agree: the filter turns the picture on its     *)
(* side exactly when the size it is scaled to was computed for a picture   *)
(* on its side, so no rotated video comes out squeezed into the other      *)
(* orientation.                                                            *)
THEOREM TurnMatchesSize ==
  \A w, h, r : Turned(w, h, RotationFilter(r)) = EffectiveDimensions(w, h, r)
BY SMT DEF Turned, RotationFilter, EffectiveDimensions, Sideways

-----------------------------------------------------------------------------
(* Scaling *)

LEMMA EvenBounds ==
  ASSUME NEW n \in Nat
  PROVE  /\ Fit(n) \in Nat
         /\ Fit(n) >= 2
         /\ Fit(n) % 2 = 0
         /\ n >= 2 => Fit(n) <= n /\ n < Fit(n) + 2
<1>1. CASE n % 2 = 0
  <2>1. EnsureEven(n) = n
        BY <1>1 DEF EnsureEven
  <2>2. CASE n < 2
        BY <2>1, <2>2 DEF Fit, AtLeast2
  <2>3. CASE n >= 2
        BY <1>1, <2>1, <2>3 DEF Fit, AtLeast2
  <2>4. QED
        BY <2>2, <2>3
<1>2. CASE n % 2 # 0
  <2>1. EnsureEven(n) = n - 1 /\ n >= 1 /\ (n - 1) % 2 = 0
        BY <1>2, Parity DEF EnsureEven
  <2>2. CASE n - 1 < 2
        BY <2>1, <2>2 DEF Fit, AtLeast2
  <2>3. CASE n - 1 >= 2
        BY <2>1, <2>3 DEF Fit, AtLeast2
  <2>4. QED
        BY <2>1, <2>2, <2>3
<1>3. QED
      BY <1>1, <1>2

\* The longer side, before it is made even, is at least as long as the target.
LEMMA LongerSide ==
  ASSUME NEW a \in Nat \ {0}, NEW b \in Nat \ {0}, a >= b, NEW t \in Nat, t >= 2,
         NEW q \in Nat, q = (a * t) \div b
  PROVE  q >= t /\ b * q <= a * t /\ a * t < b * q + b
<1>1. a * t \in Nat
      OBVIOUS
<1>2. b * q <= a * t /\ a * t < b * q + b
      BY <1>1, Quotient
<1>3. q >= t
  <2> SUFFICES ASSUME q < t
               PROVE  FALSE
      OBVIOUS
  <2>1. q + 1 <= t
        OBVIOUS
  <2>2. b * (q + 1) <= b * t
        BY <2>1
  <2>3. b * t <= a * t
        OBVIOUS
  <2>4. b * (q + 1) = b * q + b
        OBVIOUS
  <2>5. QED
        BY <1>2, <2>2, <2>3, <2>4
<1>4. QED
      BY <1>2, <1>3

\* A picture a by b, lying: b is scaled to t and a follows.
LEMMA FitsShape ==
  ASSUME NEW a \in Nat \ {0}, NEW b \in Nat \ {0}, a >= b, NEW t \in Nat, t >= 2
  PROVE  LET w == Fit((a * t) \div b)
             h == Fit(t)
         IN  w * b < (h + 2) * a /\ h * a < (w + 2) * b
<1> DEFINE q == (a * t) \div b
<1>1. q \in Nat
      BY Quotient
<1>2. q >= t /\ b * q <= a * t /\ a * t < b * q + b
      BY <1>1, LongerSide
<1> DEFINE w == Fit(q)
<1> DEFINE h == Fit(t)
<1>3. w \in Nat /\ w <= q /\ q + 1 <= w + 2
      BY <1>1, <1>2, EvenBounds
<1>4. h \in Nat /\ h <= t /\ t < h + 2
      BY EvenBounds
<1> HIDE DEF q, w, h
<1>5. w * b < (h + 2) * a
  <2>1. w * b <= q * b
        BY <1>1, <1>3
  <2>2. q * b <= a * t
        BY <1>1, <1>2
  <2>3. t * a < (h + 2) * a
        BY <1>4
  <2>4. QED
        BY <1>1, <1>3, <1>4, <2>1, <2>2, <2>3
<1>6. h * a < (w + 2) * b
  <2>1. h * a <= t * a
        BY <1>4
  <2>2. a * t < (q + 1) * b
        BY <1>1, <1>2
  <2>3. (q + 1) * b <= (w + 2) * b
        BY <1>1, <1>3
  <2>4. QED
        BY <1>1, <1>3, <1>4, <2>1, <2>2, <2>3
<1>7. QED
      BY <1>5, <1>6 DEF q, w, h

(* scale.go: every encoded picture has even sides of at least two pixels,  *)
(* as H.264 requires, even for the sizes of a file that names none.        *)
THEOREM SidesAreEven ==
  \A w, h, target \in Nat : \A r : EvenSides(ScaledSize(w, h, target, r))
<1> SUFFICES ASSUME NEW w \in Nat, NEW h \in Nat, NEW t \in Nat, NEW r
             PROVE  EvenSides(ScaledSize(w, h, t, r))
    OBVIOUS
<1> USE DEF EvenSides
<1>1. CASE w = 0 \/ h = 0
      BY <1>1 DEF ScaledSize
<1>2. ASSUME NEW a \in Nat \ {0}, NEW b \in Nat \ {0}
      PROVE  (a * t) \div b \in Nat
  <2>1. a * t \in Nat
        OBVIOUS
  <2>2. QED
        BY <2>1, Quotient
<1>3. CASE w # 0 /\ h # 0
  <2>1. PICK a \in Nat \ {0}, b \in Nat \ {0} : EffectiveDimensions(w, h, r) = <<a, b>>
        BY <1>3 DEF EffectiveDimensions
  <2>2. ScaledSize(w, h, t, r) =
          IF b > a THEN <<Fit(t), Fit((b * t) \div a)>> ELSE <<Fit((a * t) \div b), Fit(t)>>
        BY <1>3, <2>1 DEF ScaledSize
  <2>3. /\ Fit(t) >= 2 /\ Fit(t) % 2 = 0
        /\ Fit((b * t) \div a) >= 2 /\ Fit((b * t) \div a) % 2 = 0
        /\ Fit((a * t) \div b) >= 2 /\ Fit((a * t) \div b) % 2 = 0
        BY <1>2, EvenBounds
  <2>4. CASE b > a
        BY <2>2, <2>3, <2>4
  <2>5. CASE ~ (b > a)
        BY <2>2, <2>3, <2>5
  <2>6. QED
        BY <2>4, <2>5
<1>4. QED
      BY <1>1, <1>3

(* scale.go:67 (ensured not to be stretched): the scaled picture has the   *)
(* shape of the turned one, up to the two pixels lost to even sides.       *)
THEOREM ShapeKept ==
  \A w, h, target \in Nat \ {0} : \A r :
    target >= 2 => SameShape(ScaledSize(w, h, target, r), EffectiveDimensions(w, h, r))
<1> SUFFICES ASSUME NEW w \in Nat \ {0}, NEW h \in Nat \ {0}, NEW t \in Nat \ {0}, NEW r,
                    t >= 2
             PROVE  SameShape(ScaledSize(w, h, t, r), EffectiveDimensions(w, h, r))
    OBVIOUS
<1>1. PICK a \in Nat \ {0}, b \in Nat \ {0} : EffectiveDimensions(w, h, r) = <<a, b>>
      BY DEF EffectiveDimensions
<1>2. CASE b > a
  <2>1. ScaledSize(w, h, t, r) = <<Fit(t), Fit((b * t) \div a)>>
        BY <1>1, <1>2 DEF ScaledSize
  <2>2. /\ Fit((b * t) \div a) * a < (Fit(t) + 2) * b
        /\ Fit(t) * b < (Fit((b * t) \div a) + 2) * a
        BY <1>2, FitsShape
  <2>3. QED
        BY <1>1, <2>1, <2>2 DEF SameShape
<1>3. CASE ~ (b > a)
  <2>1. ScaledSize(w, h, t, r) = <<Fit((a * t) \div b), Fit(t)>>
        BY <1>1, <1>3 DEF ScaledSize
  <2>2. /\ Fit((a * t) \div b) * b < (Fit(t) + 2) * a
        /\ Fit(t) * a < (Fit((a * t) \div b) + 2) * b
        BY <1>3, FitsShape
  <2>3. QED
        BY <1>1, <2>1, <2>2 DEF SameShape
<1>4. QED
      BY <1>2, <1>3

(* buildFiltergraph and generateMasterPlaylist, for any file with a single *)
(* video stream and any target: the encoded picture has the shape of the   *)
(* upright source and even sides, and it is the size the playlist names.   *)
THEOREM SingleStreamKeepsShape ==
  ASSUME NEW f, NEW target \in Nat, target >= 2, Len(f.streams) = 1, f.streams # << >>,
         f.streams[1].width \in Nat \ {0}, f.streams[1].height \in Nat \ {0}
  PROVE  LET e == Encoding(f, target) IN
         EvenSides(e[2]) /\ SameShape(e[2], e[1]) /\ ListedSize(f, target) = e[2]
<1> DEFINE s == f.streams[1]
           i == Info(f)
<1>1. i = [width |-> s.width, height |-> s.height, rotation |-> StreamRotation(s),
           duration |-> f.duration]
      BY DEF Info
<1>2. i.width = s.width /\ i.height = s.height
      BY <1>1
<1>3. Encoding(f, target) = <<EffectiveDimensions(s.width, s.height, i.rotation),
                              ScaledSize(s.width, s.height, target, i.rotation)>>
      BY <1>2, TurnMatchesSize DEF Encoding
<1>4. ListedSize(f, target) = ScaledSize(s.width, s.height, target, i.rotation)
      BY <1>2 DEF ListedSize
<1>5. EvenSides(ScaledSize(s.width, s.height, target, i.rotation))
      BY SidesAreEven
<1>6. SameShape(ScaledSize(s.width, s.height, target, i.rotation),
                EffectiveDimensions(s.width, s.height, i.rotation))
      BY ShapeKept
<1> HIDE DEF s, i
<1>7. QED
      BY <1>3, <1>4, <1>5, <1>6

-----------------------------------------------------------------------------
(* Time *)

(* ffmpeg_transcoder.go:246-253: the timeout is between its bounds.        *)
THEOREM TimeoutInBounds ==
  \A duration, multiplier, min, max \in Nat :
    min <= max =>
      LET t == EncodeTimeout(duration, multiplier, min, max) IN 60 * min <= t /\ t <= 60 * max
<1> SUFFICES ASSUME NEW duration \in Nat, NEW multiplier \in Nat, NEW min \in Nat, NEW max \in Nat,
                    min <= max
             PROVE  LET t == EncodeTimeout(duration, multiplier, min, max)
                    IN  60 * min <= t /\ t <= 60 * max
    OBVIOUS
<1>1. duration * multiplier \in Nat
      OBVIOUS
<1> DEFINE wanted == (duration * multiplier) \div 100
<1>2. wanted \in Nat
      BY <1>1, Quotient
<1> HIDE DEF wanted
<1>3. QED
      BY <1>2 DEF EncodeTimeout, wanted

LEMMA PercentType ==
  \A duration \in Nat \ {0}, time \in Nat : PercentOf(time, duration) \in 0..100
<1> SUFFICES ASSUME NEW duration \in Nat \ {0}, NEW time \in Nat
             PROVE  PercentOf(time, duration) \in 0..100
    OBVIOUS
<1>1. (time * 100) \div duration \in Nat
      BY Quotient
<1>2. QED
      BY <1>1 DEF PercentOf

LEMMA TotalBounds == \A p \in 0..100 : TotalProgress(p) \in 10..100
BY DEF TotalProgress

(* The progress a task shows while it is encoded is between the            *)
(* thumbnail's 10 and 100, and it grows with ffmpeg's position.            *)
THEOREM ProgressInBounds ==
  \A duration \in Nat \ {0}, time \in Nat : TotalProgress(PercentOf(time, duration)) \in 10..100
<1> SUFFICES ASSUME NEW duration \in Nat \ {0}, NEW time \in Nat
             PROVE  TotalProgress(PercentOf(time, duration)) \in 10..100
    OBVIOUS
<1>1. PercentOf(time, duration) \in 0..100
      BY PercentType
<1>2. QED
      BY <1>1, TotalBounds

LEMMA TotalGrows == \A p, q \in 0..100 : p <= q => TotalProgress(p) <= TotalProgress(q)
BY DEF TotalProgress
=============================================================================
