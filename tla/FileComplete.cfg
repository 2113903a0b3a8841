SPECIFICATION FormsSpec
CONSTANTS
  Submissions = {s1}
  MaxFiles = 2
  Chunks = 2
  Attempts = 2
  MaxLists = 1
INVARIANT FileComplete
