\* Three transactions over one row of each table, from three states.
CONSTANTS
  t1 = t1
  t2 = t2
  t3 = t3
  c1 = c1
  c2 = c2
  s1 = s1
  s2 = s2
  x = x
  y = y
  None = None
  Actors = {t1, t2, t3}
  Criteria = {c1, c2}
  Slots = {x, y}
  Sources = {s1, s2}
  Amounts = {1, 2}
  Days = 1
  Horizon = 2
  Settings <- MCSettings
SYMMETRY Interchangeable
SPECIFICATION Spec
INVARIANT IInv
PROPERTIES
  DecidedOnWhatItReplaces
  StatusFollowsMachine
  PassSparesTheConfirmed
  PatchSeesEveryChange
