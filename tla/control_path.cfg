SPECIFICATION MCSpec
CONSTANTS
  max_iterations_in_flight = 24
  CounterRange = 32
  place_capacity = 2
  ntriggers = 2
  Transitions = {1, 2, 3, 4}
  Blocks <- ForkBlocks
  Paths <- ControlPaths
  Waves = 2
INVARIANTS IterationsAreCounted AtMostMaxInFlight OneDecisionAtATime
  OneSourceAtATime RightSource
  NoDependencyIsLost ReductionIsFaithful MergesAreAllowed
PROPERTIES NothingIsLeftRunning AnswersAreHeeded EveryIterationGetsItsValue
