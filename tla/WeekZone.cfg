SPECIFICATION Spec
CONSTANTS
  Callers = {c1}
  Scheduler = scheduler
  Ahead = 1
  MaxWeek = 1
  MaxRows = 4
  MaxFaults = 0
PROPERTY ClosedAfterWindow
