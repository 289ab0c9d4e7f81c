\* A run of up to four model and tool runs.
SPECIFICATION Spec
CONSTANTS
  MaxRuns = 4
  MaxChunks = 3
  MaxCalls = 2
  Ahead = 0
INVARIANTS
  ReloadShowsStream
  NestedAsRun
  StoredAsSaid
  
  
PROPERTIES
  EndsWithFrame
