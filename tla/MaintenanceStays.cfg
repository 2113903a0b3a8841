SPECIFICATION FairSpec
CONSTANTS
  MaxTime = 2
  MaxHandlers = 1
  MaxLoads = 2
PROPERTIES
  NobodyStays
