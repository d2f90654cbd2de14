SPECIFICATION Spec
CONSTANTS
  Batches <- ShortBatches
  Confirm = 2
  Tolerance = 1
INVARIANTS
  GuardInv
  RejectedReturned
  GenuineKept
  LoneIntruderRejected
  MisledOnce
