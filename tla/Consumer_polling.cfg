SPECIFICATION Spec
CONSTANTS
  Field <- TwoFields
  Counter <- Energy
  Readers <- AllReaders
  Align = 2
  Span = 4
  Schedules <- SomeSchedules
  Duration = 1
  Retries = 1
  RetryDelay = 1
  Tolerance = 3
  Horizon = 7
  MaxFaults = 1
  MaxResets = 1
  None = None
  Others <- Neighbours
  Batches <- ThreeSeries
  MaxSeries = 2
  Threshold = 1
  Every = 4
  Instants <- AtFour
INVARIANTS
  StampIsHonest
  PollingInv
  HealthyIsFresh
  StatsAreExact
  ConsumptionAdds
CHECK_DEADLOCK FALSE
