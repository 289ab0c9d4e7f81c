\* The agent over three rows, or a subagent allowed two searches.
SPECIFICATION Spec
CONSTANTS
  Rows = 3
  Sizes = {1, 2}
  MaxCalls = 2
  Threshold = 4
  Keep = 2
  RecursionLimit = 9
  MaxSearches = 2
  SummaryFaults = TRUE
INVARIANTS
  CallsPaired
  HistoryKept
  ContextBounded
PROPERTIES
  ImplementsStream
  Terminates
