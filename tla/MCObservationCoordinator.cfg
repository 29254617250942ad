SPECIFICATION Spec
CONSTANTS
  Projects = {p1}
  Parts = {"issues", "targets"}
  QueryDriven = FALSE
  MaxGen <- HeadlessGen
  MaxWorld <- HeadlessWorld
  None = None
INVARIANTS TypeOK AgentBindsPublished NothingAcceptedIsLost
PROPERTIES PublishedNeverRegresses
CHECK_DEADLOCK FALSE
