---------------------------- MODULE MCTranscode ----------------------------
(* One task and a bucket others may create; sources of every kind. *)
EXTENDS Transcode

CONSTANTS t1, hd, sd

VideoStream(w, h, field, matrices) ==
  [width |-> w, height |-> h, rotation |-> field, matrices |-> matrices]
Video(streams, duration, lastPicture, size, audio) ==
  [streams |-> streams, duration |-> duration, lastPicture |-> lastPicture, size |-> size,
   audio |-> audio]

Landscape == VideoStream(1280, 533, 0, << >>)
Phone == VideoStream(1920, 1080, 0, <<0, -90>>)
Tilted == VideoStream(640, 480, -180, <<90>>)
Cover == VideoStream(600, 600, 0, << >>)

MCFiles == {
  Video(<<Landscape>>, 6000, 5996, 5, TRUE),
  Video(<<Phone>>, 0, 200, 5, TRUE),         \* no duration
  Video(<<Tilted>>, 100, 96, 5, TRUE),       \* one second: the last picture is before its end
  Video(<<Phone>>, 6000, 40, 5, TRUE),       \* the picture ends long before the sound
  Video(<<Landscape, Cover>>, 6000, 5996, 5, TRUE),
  Video(<<Landscape>>, 6000, 5996, 5, FALSE),
  Video(<<VideoStream(3200, 100, 0, << >>)>>, 6000, 5996, 5, TRUE),
  Video(<< >>, 6000, 0, 5, TRUE),
  Video(<<Landscape>>, 6000, 5996, 100, TRUE) }

MCTargetSize == [v \in Variants |-> IF v = hd THEN 720 ELSE 480]
=============================================================================
