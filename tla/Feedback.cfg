\* One reply, three requests, everything may fail.
SPECIFICATION Spec
CONSTANTS
  Notes = {n}
  NoNote = NoNote
  Faulty = TRUE
  MaxAsks = 3
INVARIANTS
  ShownIsStored
  MirrorFollows
