SPECIFICATION FairRunnerSpec
CONSTANTS
  Projects = {p1}
  Parts = {"targets"}
  QueryDriven = TRUE
  MaxGen <- RunnerGen
  MaxWorld <- RunnerWorld
  MaxAsks = 2
  None = None
INVARIANTS RunnerTypeOK GateReopens
PROPERTIES AskedIsObserved BindingsConverge
CHECK_DEADLOCK FALSE
