------------------------ MODULE MCObservationRunner ------------------------
EXTENDS ObservationRunner, TLC

\* Tickets for every ask, and for a follow-up of every publish.
RunnerGen == "targets" :> 3 @@ "agent-runs" :> 6
RunnerWorld == "targets" :> 2
StillWorld == "targets" :> 1
=============================================================================
