\* A run that compacts once more after a summarization failed.
SPECIFICATION Spec
CONSTANTS
  u1 = u1
  u2 = u2
  s1 = s1
  s2 = s2
  Users = {u1}
  Subjects = {s1}
  SubjectOf <- Aliases
  Owners = {}
  Convs = {c1}
  Handlers = {h1}
  RunsBudget = 2
  MaxMsg = 4
  CommitInOrder = TRUE
  DBFaults = FALSE
  SummaryFaults = TRUE
INVARIANTS
  WatermarkCovered
