---------------------- MODULE MCObservationCoordinator ----------------------
EXTENDS ObservationCoordinator, TLC

\* Enough tickets of a source for one to fail after two ran at once.
HeadlessGen == "issues" :> 3 @@ "targets" :> 1 @@ "agent-runs" :> 2
HeadlessWorld == "issues" :> 2 @@ "targets" :> 1
=============================================================================
