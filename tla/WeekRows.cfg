SPECIFICATION Spec
CONSTANTS
  Callers = {c1}
  Scheduler = scheduler
  Ahead = 0
  MaxWeek = 1
  MaxRows = 4
  MaxFaults = 0
INVARIANT OneRowPerWeek
