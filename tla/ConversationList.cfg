\* Two conversations, old or new, two requests, everything may fail.
SPECIFICATION Spec
CONSTANTS
  Convs = {c1, c2}
  Titles = {a, b}
  FirstWords = FirstWords
  Untitled = Untitled
  Faulty = TRUE
  MaxCalls = 2
SYMMETRY ListSymmetry
INVARIANTS
  ListIsStored
  NobodyOnDeleted
  
  NothingLeftWaiting
CHECK_DEADLOCK FALSE
