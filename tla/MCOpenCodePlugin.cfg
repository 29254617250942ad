SPECIFICATION Spec
CONSTANTS
  root = root
  child = child
  Sessions = {root, child}
  Parent <- Family
  Locations = {A, B, O}
  Projects = {A, B}
  Instances = {i1, i2}
  QueueLimit = 2
  MaxEvents = 5
  MaxUnread = 1
  None = None
INVARIANTS TypeOK ChildrenListed OneAtATime UnobservedReadsUnknown
PROPERTIES DeletedStaysEnded
SYMMETRY Symmetry
CHECK_DEADLOCK FALSE
