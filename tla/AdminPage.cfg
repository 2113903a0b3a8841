SPECIFICATION FairSpec
CONSTANT MaxFetches = 2
INVARIANTS
  OnePoller
  WeekSettles
PROPERTIES
  StrayPollerStops
