\* Three attempts of one notification, two failures of any kind.
CONSTANTS
  p1 = p1
  p2 = p2
  rec = rec
  m1 = m1
  s1 = s1
  s2 = s2
  r0 = r0
  r1 = r1
  t1 = t1
  None = None
  Posters = {p1, p2}
  Recoverers = {rec}
  Staff = {}
  Backfillers = {}
  Events = {m1, s1, s2}
  Refs = {r0, r1}
  Threads = {t1}
  Instants = {1}
  Envelope <- MCEnvelope
  Drafts = {}
  Legacy <- MCLegacy
  Worlds <- MCWorlds
  KnownThreads = {t1}
  MaxPosts = 6
  MaxFaults = 2
  Notifications <- MCNotifications
  MaxAttempts = 3
SPECIFICATION RSpec
INVARIANT DeliveredMeansStored
PROPERTY EventuallyDelivered
