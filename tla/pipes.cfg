SPECIFICATION MCSpec
CONSTANTS
  Zero = 0
  Word = {0, 1}
  QueueDepth = 2
  ReverseBypass = FALSE
  NumWrites = 2
  NumReads = 2
  Bypass = TRUE
  LifoMode = FALSE
  ShiftRegisterMode = FALSE
  Shallowness = 10
  Alternating = FALSE
PROPERTIES AllArePipes PathsAreRegistered AllWritersProgress
