SPECIFICATION Spec
CONSTANTS
  s1 = s1
  s2 = s2
  c1 = c1
  c2 = c2
  c3 = c3
  c4 = c4
  r1 = r1
  r2 = r2
  createdAt = createdAt
  isRead = isRead
  Sections = {s1, s2}
  TTL = 2
  Lag = 1
  MaxClock = 5
  Contacts = {c1, c2, c3, c4}
  InitialContacts <- ThreeMessages
  Sorts = {createdAt, isRead}
  DefaultSort = createdAt
  Steady = {createdAt}
  Places <- Both
  DefaultLimit = 2
  MaxLimit = 3
  Limits = {0, 1, 4}
  Requests = {r1, r2}
  Readers = {r1}
  MaxWrites = 3
INVARIANT StatsAreRecent
INVARIANT EverythingIsListed
CHECK_DEADLOCK FALSE
