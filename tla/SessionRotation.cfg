\* Two tabs of one browser, lost answers, database faults and one link.
SPECIFICATION Spec
CONSTANTS
  Emails = {e1}
  Browsers = {b1}
  Requests = {r1, r2}
  Tabs = 2
  SignupOpen = TRUE
  Lossy = TRUE
  DBFaults = TRUE
  MaxToken = 3
  MaxLink = 1
  MaxUser = 2
SYMMETRY RequestSymmetry
INVARIANTS
  OneLiveToken
  NoSessionWithoutAccount
  SettledReuseEndsFamily
  LinkUsedOnce
  OneAccount
