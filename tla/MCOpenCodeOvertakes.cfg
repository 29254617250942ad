SPECIFICATION Spec
CONSTANTS
  root = root
  child = child
  Sessions = {root, child}
  Parent <- Family
  Locations = {A, B}
  Projects = {A, B}
  Instances = {i1}
  QueueLimit = 2
  MaxEvents = 5
  MaxUnread = 1
  None = None
INVARIANT ChildNeverOvertakes
CHECK_DEADLOCK FALSE
