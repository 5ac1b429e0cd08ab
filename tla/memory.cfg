SPECIFICATION MCSpec
CONSTANTS
  LoadPorts = {0}
  StorePorts = {0}
  Addr = {0}
  Word = {0, 1}
  Zero = 0
  Quarter = 2
  LoadStages = 0
  StoreStages = 0
  MaxRequests = 0
  MaxStall = 0
INVARIANTS StampsAreTold
PROPERTIES AllAreMemories EverybodyIsServed
