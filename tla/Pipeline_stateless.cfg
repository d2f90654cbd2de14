SPECIFICATION Spec
CONSTANTS
  Reading <- TinySeries
  Stamp <- TinySeriesStamp
  Property <- OneProperty
  PropOf <- TinySeriesProperty
  MaxLate = 0
  MaxVersion = 1
  StartClock = 3
  MaxClock = 4
  BatchSize = 1
  Guarded = TRUE
  MaxFaults = 1
  LiveLookback = 2
  RewriteLookback = 0
  MaxWindow = 2
  HistoryStart = 0
  RunRetries = 0
  RunSpan = 1
  BackfillWindow = 1
  WindowsPerRun = 2
  EmptyThreshold = 2
  Floor = 1
  BackfillRetries = 1
  PassStart = 1
  PassWindow = 1
  PassRetries = 1
  BackfillMode = "stateless"
INVARIANTS
  PassCovers
