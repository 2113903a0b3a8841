SPECIFICATION Spec
CONSTANTS
  i1 = i1
  i2 = i2
  i3 = i3
  s1 = s1
  s2 = s2
  d1 = d1
  d2 = d2
  Ids = {i1, i2, i3}
  Handles = {h1}
  NoHandle = NoHandle
  Submitters = {s1, s2}
  Deciders = {d1, d2}
  NoId = NoId
  MaxWrites = 3
  MaxMiscounts = 1
PROPERTY DecisionFinal
SYMMETRY AppSymmetry
