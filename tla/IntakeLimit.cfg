SPECIFICATION IntakeSpec
CONSTANTS
  r1 = r1
  r2 = r2
  r3 = r3
  r4 = r4
  s1 = s1
  s2 = s2
  RequestIds = {r1, r2, r3, r4}
  Accounts = {a1}
  Submitters = {s1, s2}
  Texts = {NoText}
  Shapes <- IntakeShapes
  MaxWeek = 2
  MaxMiscounts = 0
  NoText = NoText
  NoOne = NoOne
INVARIANT AtMostTwoPending
SYMMETRY IntakeSymmetry
