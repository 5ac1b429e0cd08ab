SPECIFICATION FairSpec
CONSTANTS
  Clients = {c1}
  InPipes = {in}
  OutPipes = {out}
  Modules = {mod}
  Word = {0, 1}
  Zero = 0
  Lengths = {2}
  Payloads <- TooLong
  MaxBuf = 2
  Nothing = Nothing
PROPERTIES EveryRequestIsAnswered
