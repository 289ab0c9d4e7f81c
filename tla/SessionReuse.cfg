\* A reuse seen while the family rotates.
SPECIFICATION Spec
CONSTANTS
  Emails = {e1}
  Browsers = {b1}
  Requests = {r1, r2}
  Tabs = 2
  SignupOpen = TRUE
  Lossy = FALSE
  DBFaults = FALSE
  MaxToken = 4
  MaxLink = 1
  MaxUser = 2
SYMMETRY RequestSymmetry
INVARIANTS
  ReuseEndsFamily
