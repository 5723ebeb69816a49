\* Many requests over six markets, and two markets that change twice.
CONSTANTS
  p1 = p1
  p2 = p2
  p3 = p3
  o1 = o1
  o2 = o2
  o3 = o3
  b1 = b1
  b2 = b2
  ali = ali
  sara = sara
  algiers = algiers
  hydra = hydra
  kouba = kouba
  oran = oran
  None = None
  Unreadable = Unreadable
  Types <- MCTypes
  Above <- MCAbove
  Options <- MCOptions
  AppliesTo <- MCAppliesTo
  Days <- MCDays
  Values <- MCValues
  Worlds <- MCWorlds
  Lists <- MCLists
  PropertyEdits <- MCPropertyEdits
  FactEdits <- MCFactEdits
  OfferEdits <- MCOfferEdits
  MaxRuns = 2
  MaxEdits = 2
SPECIFICATION Spec
INVARIANTS
  StoredReplays
  DiagnosticTrue
  PreCheckExact
CHECK_DEADLOCK FALSE
