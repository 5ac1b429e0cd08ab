SPECIFICATION PSpec
CONSTANTS
  Zero = 0
  Word = {0, 1}
  QueueDepth = 2
  ReverseBypass = FALSE
  NumWrites = 1
  NumReads = 1
  Bypass = FALSE
  LifoMode = TRUE
  ShiftRegisterMode = FALSE
  Shallowness = 10
  Alternating = FALSE
PROPERTIES PortsSeeAPipe
