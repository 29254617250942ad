------------------------ MODULE MCRunningCommands -------------------------
(* Two pool threads, with and without a session of their own.              *)
EXTENDS RunningCommands
=============================================================================
