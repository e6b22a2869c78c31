SPECIFICATION Spec
CONSTANTS
  t1 = t1
  hd = hd
  sd = sd
  NoFile = NoFile
  None = None
  Tasks = {t1}
  Variants = {hd, sd}
  TargetSize <- MCTargetSize
  Files <- MCFiles
  Positions = {0, 3000, 6600}
  PipeSize = 2
  MaxLines = 3
  MaxFaults = 0
  MinFileSize = 1
  MaxFileSize = 10
  MaxDuration = 8640000
  MaxAspect = 16
PROPERTY ProgressNeverFallsBack
CHECK_DEADLOCK FALSE
