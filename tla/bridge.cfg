SPECIFICATION FairSpec
CONSTANTS
  Clients = {c1, c2}
  InPipes = {in}
  OutPipes = {out}
  Modules = {mod}
  Word = {0, 1}
  Zero = 0
  Lengths = {2, 3}
  Payloads <- MCPayloads
  MaxBuf = 4
  Nothing = Nothing
PROPERTIES ServesInOrder EveryRequestIsAnswered
