----------------------------- MODULE MCWorkStore -----------------------------
(* Moves between two Worktrees, and hand-overs between Host Processes in one. *)
EXTENDS WorkStore, TLC
Symmetry == Permutations(Processes) \cup Permutations(Workers)
\* Bound: two at a time of the hooks, the commands and the observation.
TwoAtOnce == pass # Scanning => \E k \in Workers : worker[k] = None
=============================================================================
