SPECIFICATION Spec
CONSTANTS
  QueueDepth = 3
  ReverseBypass = TRUE
  Word = {w0, w1, w2}
  Zero = w0
INVARIANTS FlagsMatchPointers
PROPERTIES IsAPipe
