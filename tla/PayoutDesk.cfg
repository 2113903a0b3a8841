SPECIFICATION Spec
CONSTANTS
  r1 = r1
  r2 = r2
  k1 = k1
  k2 = k2
  s1 = s1
  d1 = d1
  d2 = d2
  RequestIds = {r1, r2}
  Accounts = {a1}
  Keys = {k1, k2}
  Submitters = {s1}
  Deciders = {d1, d2}
  Texts <- DeskTexts
  Typed = {k1, NoText}
  Shapes <- DeskShapes
  MaxWeek = 1
  MaxMiscounts = 0
  NoText = NoText
  NoOne = NoOne
  NoRequest = NoRequest
INVARIANTS
  TypeOK
  AutoKeyReserved
  KeyApprovalHasKey
  NoticeTruthful
PROPERTIES
  DecisionFinal
  LedgerSpec
SYMMETRY DeskSymmetry
