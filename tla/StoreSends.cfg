\* One conversation, two messages sent, with the usage meter.
SPECIFICATION FairSpec
CONSTANTS
  Convs = {c1}
  Nobody = Nobody
  Hasty = TRUE
  Breakable = TRUE
  MaxSends = 2
CHECK_DEADLOCK FALSE
INVARIANTS
  StreamShown
  SendingIsLive
  MeterFollows
PROPERTIES
  RepliesStay
  SendingEnds
