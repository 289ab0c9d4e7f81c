\* One tab, two accounts, one request besides, everything may fail.
SPECIFICATION FairSpec
CONSTANTS
  Users = {u1, u2}
  Known = {u1}
  Nobody = Nobody
  Work = {w1}
  Faulty = TRUE
  MaxAtOnce = 2
  MaxSignIns = 2
  MaxTokens = 3
  MaxLoads = 1
INVARIANTS
  
  
  NoOwnReuse
  DeletedIsOut
  SignInOffered
PROPERTIES
  DeletesTyped
  PageSettles
CHECK_DEADLOCK FALSE
