\* One review, one new offer on the property it makes an alias.
CONSTANTS
  t1 = t1
  t2 = t2
  t3 = t3
  x = x
  y = y
  None = None
  Actors = {t1, t2, t3}
  Properties <- MCProperties
  Places = {x, y}
  Plans <- MCTwo
  Worlds <- MCWorlds
SPECIFICATION Spec
PROPERTY NewWritesCanonical
