SPECIFICATION Spec
CONSTANTS
  Property <- TwoProperties
  Horizon = 3
  Window <- Windows
  Limit = 1
  MaxPages = 2
  DayLength = 2
  Kinds <- AllKinds
  Unsigned <- AnyTypes
  MaxHistory = 3
  MaxLater = 1
  MaxAttempts = 2
  MinInterval = 1
  MaxBackoff = 1
  RetryAfter <- AtOnce
INVARIANTS
  FetchInv
  Accounted
  WatermarkSafe
PROPERTIES
  PagingAdvances
  FetchEnds
  ImplementsContract
