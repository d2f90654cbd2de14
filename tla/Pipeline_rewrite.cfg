SPECIFICATION Spec
CONSTANTS
  Reading <- TwoSeries
  Stamp <- TwoSeriesStamp
  Property <- TwoProperties
  PropOf <- TwoSeriesProperty
  MaxLate = 1
  MaxVersion = 2
  StartClock = 2
  MaxClock = 5
  BatchSize = 1
  Guarded = FALSE
  MaxFaults = 2
  LiveLookback = 2
  RewriteLookback = 2
  MaxWindow = 3
  HistoryStart = 0
  RunRetries = 1
  RunSpan = 1
  BackfillWindow = 1
  WindowsPerRun = 2
  EmptyThreshold = 2
  Floor = 1
  BackfillRetries = 1
  PassStart = 1
  PassWindow = 2
  PassRetries = 1
  BackfillMode = "none"
INVARIANTS
  RevisionsLand
  SummaryIsBacked
PROPERTIES
  WatermarkMonotone
