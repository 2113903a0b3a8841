SPECIFICATION Spec
CONSTANTS
  Attempts = 2
  MaxLogins = 1
  MaxPolls = 3
INVARIANT LockAfterThreeEntries
