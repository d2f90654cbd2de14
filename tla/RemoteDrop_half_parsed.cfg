SPECIFICATION Spec
CONSTANTS
  t1 = t1
  t2 = t2
  Hole = Hole
  Absent = Absent
  Name = {"a", "b"}
  Task <- TwoTasks
  Version <- Exports
  Unreadable <- Garbage
  Protocols <- AllProtocols
  Start = {1}
  Retries = 1
  MaxUploads = 2
  MaxFaults = 1
INVARIANTS
  NothingHalfParsed
