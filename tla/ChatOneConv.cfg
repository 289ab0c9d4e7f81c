\* Two concurrent sends on one conversation, with database faults.
SPECIFICATION Spec
CONSTANTS
  u1 = u1
  u2 = u2
  s1 = s1
  s2 = s2
  Users = {u1, u2}
  Subjects = {s1}
  SubjectOf <- Aliases
  Owners = {}
  Convs = {c1}
  Handlers = {h1, h2}
  RunsBudget = 1
  MaxMsg = 3
  CommitInOrder = TRUE
  DBFaults = TRUE
  SummaryFaults = FALSE
SYMMETRY HandlerSymmetry
INVARIANTS
  CheckedOwnership
  NoOrphans
  ChargedRepliesStored
PROPERTIES
  ImplementsAdmission
