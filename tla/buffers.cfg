SPECIFICATION MCSpec
CONSTANTS
  QueueDepth = 3
  Zero = 0
  Word = {0, 1, 2}
  Shallowness = 3
  Optimized = TRUE
  MaxSize = 3
  num_ops = 2
  input_buffering <- OneEach
  output_buffering <- OneAndTwo
  num_slots <- OneAndTwo
  full_rate = TRUE
  Operands <- MCOperands
PROPERTIES UnloadBuffersArePipes ReadDataIsHeld EveryUnloadIsAnswered
  OperationsAreSeparate EveryOperationCompletes
