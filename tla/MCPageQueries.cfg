SPECIFICATION FairSpec
CONSTANTS
  Principals = {u1, u2}
  Searches = {s1, s2}
  Capacity = 2
  CacheSize = 1
  MaxPage = 2
  MaxEdition = 2
  MaxMoves = 3
  None = None
INVARIANTS TypeOK OneWalk StaleIsOwn
PROPERTIES ShownStays AwaitedAnswered
CHECK_DEADLOCK FALSE
