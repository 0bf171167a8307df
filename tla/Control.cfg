\* Invocations of the program around one pid file, every fault.
CONSTANTS
  Invocations = 3
  Overlap = 2
  Files <- ControlFiles
  Commands <- ControlCommands
  Faults <- AllFaults
  Separator = "/"
  Texts <- ControlTexts
SPECIFICATION Spec
INVARIANTS
  ControlTypeOK
  NamedByFile
  ForeignNeedsCrash
  AnswersAsConfigured
  SplitIsFields
PROPERTIES
  StopEndsServer
\* every invocation may have ended
CHECK_DEADLOCK FALSE
