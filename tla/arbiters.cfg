SPECIFICATION MCSpec
CONSTANTS
  NumReqs = 3
  num_reqs = 2
  CalleeDepth = 1
  Word = {0, 1}
  Cleared = 0
  Says <- TwoCallers
INVARIANTS BoundedOvertaking
PROPERTIES NoStarvation CallersAreSeparate EveryCallReturns
