\* What two concurrent runs of one user are sent, on one conversation or two.
SPECIFICATION Spec
CONSTANTS
  u1 = u1
  u2 = u2
  s1 = s1
  s2 = s2
  Users = {u1}
  Subjects = {s1}
  SubjectOf <- Aliases
  Owners = {u1}
  Convs = {c1, c2}
  Handlers = {h1, h2}
  RunsBudget = 1
  MaxMsg = 4
  CommitInOrder = TRUE
  DBFaults = FALSE
  SummaryFaults = FALSE
SYMMETRY HandlerSymmetry
INVARIANTS
  WatermarkCovered
  ContextComplete
