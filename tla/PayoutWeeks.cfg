SPECIFICATION FairSpec
CONSTANTS
  Callers = {c1}
  Scheduler = scheduler
  MaxWeek = 1
  Ahead = 1
  MaxRows = 5
  MaxFaults = 1
INVARIANTS
  TypeOK
  OneAcceptingMonday
  RowsBounded
PROPERTIES
  NoEarlyClose
  WeeksClose
  WeeksReported
