SPECIFICATION Spec
CONSTANTS
  w1 = w1
  w2 = w2
  r1 = r1
  r2 = r2
  Threads = {w1, w2, r1, r2}
  NoThread = nobody
  Strict = FALSE
  Zero = 0
  Word = {0, 1, 2, 3, 4, 5, 6}
  Name = {"a", "b", "c", "g", "n", "nothing", "s", "u"}
  Programs <- JustPrinted
PROPERTIES ShowingChangesNothing
