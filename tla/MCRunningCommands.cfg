SPECIFICATION FairSpec
CONSTANTS
  Runners = {r1, r2}
  Sessions = {TRUE, FALSE}
  None = None
INVARIANTS TypeOK NoneSlipsBy GroupStopped
PROPERTIES ExitCompletes
