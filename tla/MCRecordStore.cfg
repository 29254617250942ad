SPECIFICATION FairSpec
CONSTANTS
  Procs = {p1, p2}
  Inodes = {i1, i2}
  Temps = {t1}
  Values = {v1, v2}
  None = None
INVARIANTS TypeOK
PROPERTIES AtomicTurns WaitersServed
