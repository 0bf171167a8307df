\* Two threads, a rotation after three bytes, every failure.
CONSTANTS
  Threads = {t1, t2}
  Free = Free
  NoLine = NoLine
  long1 = long1
  long2 = long2
  short1 = short1
  short2 = short2
  short3 = short3
  quiet = quiet
  Lines <- LogLines
  Length <- LogLength
  Level <- LogLevel
  LevelName = "info"
  RotateSize = 2
  MaxLine = 2
  LastSecond = 3
  MaxRuns = 2
  Faults <- LogFaults
SPECIFICATION Spec
INVARIANTS
  LogTypeOK
  SizeBounded
  OwnLineKept
PROPERTIES
  LinesStay
SYMMETRY Symmetry
\* every line may have been written and the clock have stopped
CHECK_DEADLOCK FALSE
