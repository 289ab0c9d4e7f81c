\* A message sent before the messages are there.
SPECIFICATION Spec
CONSTANTS
  Convs = {c1}
  Nobody = Nobody
  Hasty = TRUE
  Breakable = FALSE
  MaxSends = 1
CHECK_DEADLOCK FALSE
INVARIANTS
  EveryStreamShown
