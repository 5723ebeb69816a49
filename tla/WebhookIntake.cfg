\* Three deliveries or staff commands, one failure, a recovery, two backfills.
CONSTANTS
  p1 = p1
  p2 = p2
  rec = rec
  op = op
  b1 = b1
  b2 = b2
  m1 = m1
  m2 = m2
  x1 = x1
  s1 = s1
  s2 = s2
  r1 = r1
  r2 = r2
  r0 = r0
  t1 = t1
  t2 = t2
  None = None
  Posters = {p1, p2}
  Recoverers = {rec}
  Staff = {op}
  Backfillers = {b1, b2}
  Events = {m1, m2, x1, s1, s2}
  Refs = {r0, r1, r2}
  Threads = {t1, t2}
  Instants = {1, 2}
  Envelope <- MCEnvelope
  Drafts <- MCDrafts
  Legacy <- MCLegacy
  Worlds <- MCWorlds
  KnownThreads = {t1}
  MaxPosts = 3
  MaxFaults = 1
SPECIFICATION Spec
INVARIANTS
  MessagesConsistent
PROPERTIES
  ArchivedUnderConsent
  StatusOnlyForward
  KeepsInbox
  EventuallyFinal
