SPECIFICATION Spec
CONSTANTS
  Reading <- OneSeries
  Stamp <- OneSeriesStamp
  Property <- OneProperty
  PropOf <- OneSeriesProperty
  MaxLate = 0
  MaxVersion = 1
  StartClock = 4
  MaxClock = 5
  BatchSize = 1
  Guarded = FALSE
  MaxFaults = 0
  LiveLookback = 2
  RewriteLookback = 0
  MaxWindow = 2
  HistoryStart = 0
  RunRetries = 1
  RunSpan = 1
  BackfillWindow = 1
  WindowsPerRun = 2
  EmptyThreshold = 2
  Floor = 1
  BackfillRetries = 1
  PassStart = 1
  PassWindow = 2
  PassRetries = 1
  BackfillMode = "stateless"
PROPERTIES
  SummaryMonotone
