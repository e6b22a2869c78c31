SPECIFICATION LiveSpec
CONSTANTS
  t1 = t1
  hd = hd
  sd = sd
  NoFile = NoFile
  None = None
  Tasks = {t1}
  Variants = {hd, sd}
  TargetSize <- MCTargetSize
  Files <- MCFiles
  Positions = {0, 3000, 6600}
  PipeSize = 2
  MaxLines = 3
  MaxFaults = 1
  MinFileSize = 1
  MaxFileSize = 10
  MaxDuration = 8640000
  MaxAspect = 16
INVARIANTS TypeOK SuccessIsPlayable EncodedKeepsShape
PROPERTIES ProgressGrows StepsOfPool TaskEnds SoundTaskSucceeds
CHECK_DEADLOCK FALSE
