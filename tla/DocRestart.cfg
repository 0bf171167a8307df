\* A daemon is started, then restarted; nothing goes wrong.
CONSTANTS
  Invocations = 2
  Overlap = 2
  Files <- ControlFiles
  Commands <- RestartCommands
  Faults <- NoFaults
  Separator = "/"
  Texts <- ControlTexts
SPECIFICATION Spec
PROPERTIES
  RestartServes
CHECK_DEADLOCK FALSE
