-------------------------- MODULE CleanupFlowProofs --------------------------
(***************************************************************************)
(* Proofs that a Cleanup loses no work and leaves no Worktree without      *)
(* its Branch, that a Project has one mutation at a time, and that what a  *)
(* person confirms was inspected after every fetch, for any bounds.        *)
(***************************************************************************)
EXTENDS CleanupFlow, FiniteSetTheorems, TLAPS

-----------------------------------------------------------------------------
(* The inductive invariant, in five named parts beside the types.          *)

\* Who holds the Project: at most one of a fetch, an inspection, an open
\* preview and a Cleanup being performed, save the fetch inside a preview.
Control ==
    /\ cleaning = None => inspection = None /\ perform = None
    /\ inspection # None => hold = None
    /\ open => perform = None
    /\ perform # None => inspection = None /\ hold # None
    /\ hold # None => open \/ perform # None
    /\ fetch # None => fetching /\ cleaning = None /\ refresh = None
    /\ fetching => fetch # None \/ refresh # None
    /\ refresh # None =>
         /\ fetching
         /\ hold = None => cleaning = None
         /\ hold # None => open /\ hold.busy /\ hold.screen = refresh.screen

\* What an inspection found deletable has its content at the Integration Branch,
\* then and ever after, and save what it found unintegrated is reached from there.
Integrated(facts, at) ==
    \A t \in Available(facts) \ {"worktree"} :
      /\ facts[t].at \subseteq at.held
      /\ facts[t].at \ facts[t].unintegrated \subseteq at.main

Reached ==
    /\ NoWorkLost
    /\ tracking.main \subseteq upstream.main /\ tracking.held \subseteq upstream.held
    /\ tracking.main \subseteq tracking.held /\ upstream.main \subseteq upstream.held

Kept ==
    /\ inspection # None /\ inspection.stage = "done" =>
         Integrated(inspection.facts, upstream)
    /\ hold # None => Integrated(hold.facts, upstream)
    /\ refresh # None /\ refresh.stage = "inspected" =>
         Integrated(refresh.facts, upstream)
    /\ perform # None =>
         /\ Integrated(perform.facts, upstream)
         /\ perform.stage \in {"confirmed", "deleting"} =>
              /\ perform.left \subseteq Available(perform.facts)
              /\ Disclosed(perform.facts, perform.left) \subseteq dropped

\* The local Branch goes last, with its Worktree or without one.
Attached ==
    /\ NoDanglingHead
    /\ perform # None =>
         /\ perform.stage = "confirmed" /\ cleaning = "worktree" => "worktree" \in perform.left
         /\ perform.stage = "deleting" /\ "local" \in perform.left =>
              "worktree" \in perform.left \/ tree = "absent"

\* Evidence is of the last fetch that ended, wherever it is held.
Evidence ==
    /\ inspection # None /\ inspection.stage = "done" => inspection.fetches = fetches
    /\ hold # None /\ ~hold.busy /\ hold.valid => hold.fetches = fetches
    /\ perform # None /\ perform.stage = "changed" => perform.fetches = fetches
    /\ job # None => job.generation <= generation
    /\ At("waiting") =>
         /\ job # None /\ job.generation >= refresh.after
         /\ job.generation = refresh.after => rerun
         /\ job.generation > refresh.after /\ job.outcome # None => job.fetches = fetches
    /\ At("landed") \/ At("inspecting") \/ At("inspected") =>
         /\ snapshot.fetches = fetches
         /\ job # None /\ job.outcome # None => job.fetches = fetches
    /\ At("inspected") => refresh.fetches = fetches


-----------------------------------------------------------------------------
(* The types. *)
USE NoneAssumption, BoundsAssumption

\* What an inspection finds is well-typed.
LEMMA FactsType ==
    ASSUME TypeOK, NEW kind \in Kinds
    PROVE  Facts(kind) \in FactSets
<1> DEFINE Fact == [at : SUBSET Commits, unintegrated : SUBSET Commits,
                  content : BOOLEAN, blocked : BOOLEAN]
<1>1. Present(kind) \in SUBSET Targets
  BY DEF Present
<1>2. Facts(kind) \in [Present(kind) -> Fact]
  BY DEF Facts, TypeOK, RepositoryTypeOK, Refs, Dirty
<1> QED
  BY <1>1, <1>2 DEF FactSets

\* The next commit has a number.
LEMMA NewType == ASSUME TypeOK PROVE New \in Nat
<1>1. MaxCommits \in Nat
  BY BoundsAssumption
<1>2. IsFiniteSet(0 .. MaxCommits)
  BY <1>1, FS_Interval
<1>3. IsFiniteSet(Commits)
  BY <1>2 DEF Commits
<1> QED
  BY <1>3, FS_Subset, FS_CardinalityType DEF TypeOK, RepositoryTypeOK, New

\* A confirmed Cleanup is of what the preview showed.
LEMMA ConfirmType ==
    ASSUME TypeOK, Confirm, ~fetching
    PROVE  /\ hold \in Previews /\ perform' \in Performances
           /\ perform'.stage = "confirmed" /\ perform'.facts = hold.facts
           /\ perform'.left \in Selections(cleaning, hold.facts)
<1>1. PICK selected \in Selections(cleaning, hold.facts) :
        perform' = [stage |-> "confirmed", facts |-> hold.facts, fetches |-> 0,
                    left |-> selected]
  BY DEF Confirm
<1>2. hold \in Previews /\ hold.facts \in FactSets
  BY DEF Confirm, TypeOK, FlowTypeOK, Previews
<1>3. DOMAIN hold.facts \subseteq Targets
  BY <1>2 DEF FactSets
<1>4. selected \in SUBSET Targets
  BY <1>3 DEF Selections, Available
<1> QED
  BY <1>1, <1>2, <1>4 DEF Performances

\* Each part of the types is preserved by every step; an action named in
\* a lemma changes that part, the others leave it alone.
LEMMA RepositoryTypeStep ==
    ASSUME TypeOK, [Next]_vars
    PROVE  RepositoryTypeOK'
<1>1. ASSUME Commit PROVE RepositoryTypeOK'
  <2>1. New \in Commits
    BY <1>1, NewType DEF Commit, Commits
  <2> QED
    BY <1>1, <2>1 DEF Commit, Beside, TypeOK, RepositoryTypeOK
<1>2. ASSUME Soil PROVE RepositoryTypeOK'
  BY <1>2, NewType DEF Soil, TypeOK, RepositoryTypeOK, Refs, Commits, repository,
     observation, flow, workers, history, Beside
<1>3. ASSUME Push PROVE RepositoryTypeOK'
  BY <1>3, NewType DEF Push, TypeOK, RepositoryTypeOK, Refs, Commits, repository,
     observation, flow, workers, history, Beside
<1>4. ASSUME PushElsewhere PROVE RepositoryTypeOK'
  BY <1>4, NewType DEF PushElsewhere, TypeOK, RepositoryTypeOK, Refs, Commits,
     repository, observation, flow, workers, history, Beside
<1>5. ASSUME Merge PROVE RepositoryTypeOK'
  <2>1. PICK main \in {upstream.main, upstream.main \cup upstream.branch} :
          upstream' = [upstream EXCEPT !.main = main, !.held = @ \cup upstream.branch]
    BY <1>5 DEF Merge
  <2>2. upstream \in Refs
    BY DEF TypeOK, RepositoryTypeOK
  <2>3. main \subseteq Commits /\ upstream.held \cup upstream.branch \subseteq Commits
    BY <2>1, <2>2 DEF Refs
  <2>4. upstream' \in Refs
    BY <2>1, <2>2, <2>3 DEF Refs
  <2> QED
    BY <1>5, <2>4 DEF Merge, Beside, TypeOK, RepositoryTypeOK
<1>6. ASSUME DeleteElsewhere PROVE RepositoryTypeOK'
  BY <1>6, NewType DEF DeleteElsewhere, TypeOK, RepositoryTypeOK, Refs, Commits,
     repository, observation, flow, workers, history, Beside
<1>7. ASSUME RemoveByHand PROVE RepositoryTypeOK'
  BY <1>7 DEF RemoveByHand, Beside, TypeOK, RepositoryTypeOK
<1>8. ASSUME CheckOut PROVE RepositoryTypeOK'
  BY <1>8, NewType DEF CheckOut, TypeOK, RepositoryTypeOK, Refs, Commits,
     repository, observation, flow, workers, history, Beside
<1>9. ASSUME RunFetch PROVE RepositoryTypeOK'
  BY <1>9, NewType DEF RunFetch, TypeOK, RepositoryTypeOK, Refs, Commits,
     repository, observation, flow, workers, history, Beside, GitFetch
<1>10. ASSUME RefreshFetch PROVE RepositoryTypeOK'
  BY <1>10, NewType DEF RefreshFetch, TypeOK, RepositoryTypeOK, Refs, Commits,
     repository, observation, flow, workers, history, Beside, GitFetch
<1>11. ASSUME Delete PROVE RepositoryTypeOK'
  BY <1>11, NewType DEF Delete, TypeOK, RepositoryTypeOK, Refs, Commits, repository,
     observation, flow, workers, history, Beside, GitDelete
<1>12. ASSUME Confirm PROVE RepositoryTypeOK'
  <2>1. CASE fetching
    BY <1>12, <2>1 DEF Confirm, TypeOK, RepositoryTypeOK
  <2>2. CASE ~fetching
    <3>1. hold.facts \in FactSets
      BY <1>12, <2>2, ConfirmType DEF Previews
    <3>2. \A S \in SUBSET DOMAIN hold.facts : Disclosed(hold.facts, S) \subseteq Commits
      BY <3>1 DEF Disclosed, FactSets
    <3>3. \A S \in Selections(cleaning, hold.facts) : S \in SUBSET DOMAIN hold.facts
      BY DEF Selections, Available
    <3> QED
      BY <1>12, <2>2, <3>2, <3>3 DEF Confirm, TypeOK, RepositoryTypeOK
  <2> QED
    BY <2>1, <2>2
<1>13. ASSUME UNCHANGED <<local, tree, tracking, upstream, made, changes, dropped>>
       PROVE  RepositoryTypeOK'
  BY <1>13 DEF TypeOK, RepositoryTypeOK, Refs, Commits, repository, observation,
     flow, workers, history, Beside
<1> QED
  BY <1>1, <1>2, <1>3, <1>4, <1>5, <1>6, <1>7, <1>8, <1>9, <1>10, <1>11, <1>12,
     <1>13 DEF
     Next, Elsewhere, Person, Work, PressFetch, PressFetchInside, Cancel, Confirm,
     PressCleanup, Tick, Observe, Land, RecordFetch, Inspect, FinishInspection,
     FetchRequested, RefreshObserve, RefreshLanded, RefreshTimedOut, RefreshInspect,
     RefreshEnds, Reinspect, FinishCleanup, repository, observation, flow, workers,
     history, Beside, vars

\* ObservationRunner.schedule() keeps the scheduler's types.
LEMMA ScheduleGitType ==
    ASSUME ObservationTypeOK, ScheduleGit
    PROVE  ObservationTypeOK'
<1>1. Ticket(generation + 1) \in Tickets
  BY DEF ObservationTypeOK, Ticket, Tickets
<1> QED
  BY <1>1 DEF ObservationTypeOK, ScheduleGit

LEMMA ObservationTypeStep ==
    ASSUME TypeOK, [Next]_vars
    PROVE  ObservationTypeOK'
<1>1. ASSUME Tick PROVE ObservationTypeOK'
  BY <1>1, ScheduleGitType DEF Tick, TypeOK, ObservationTypeOK
<1>2. ASSUME Observe PROVE ObservationTypeOK'
  <2>1. job' \in Tickets
    BY <1>2 DEF Observe, TypeOK, ObservationTypeOK, FlowTypeOK, Tickets
  <2> QED
    BY <1>2, <2>1 DEF Observe, TypeOK, ObservationTypeOK
<1>3. ASSUME Land PROVE ObservationTypeOK'
  <2>1. Ticket(generation + 1) \in Tickets
    BY DEF TypeOK, ObservationTypeOK, Ticket, Tickets
  <2>2. snapshot' \in [status : {"fresh", "stale"}, fetches : Nat]
    BY <1>3 DEF Land, TypeOK, ObservationTypeOK, Tickets
  <2>3. job' \in Tickets \cup {None} /\ rerun' \in BOOLEAN /\ generation' \in Nat
    <3>1. CASE rerun
      <4>1. job' = Ticket(generation + 1) /\ rerun' = FALSE /\ generation' = generation + 1
        BY <1>3, <3>1 DEF Land
      <4>2. generation + 1 \in Nat
        BY DEF TypeOK, ObservationTypeOK
      <4> QED
        BY <2>1, <4>1, <4>2, Zenon
    <3>2. CASE ~rerun
      BY <1>3, <3>2 DEF Land, TypeOK, ObservationTypeOK
    <3> QED
      BY <3>1, <3>2
  <2> QED
    BY <2>2, <2>3 DEF ObservationTypeOK
<1>4. ASSUME RecordFetch PROVE ObservationTypeOK'
  BY <1>4, ScheduleGitType DEF RecordFetch, observation, TypeOK, ObservationTypeOK
<1>5. ASSUME RefreshObserve PROVE ObservationTypeOK'
  BY <1>5, ScheduleGitType DEF RefreshObserve, TypeOK, ObservationTypeOK
<1>6. ASSUME FinishCleanup PROVE ObservationTypeOK'
  BY <1>6, ScheduleGitType DEF FinishCleanup, observation, TypeOK, ObservationTypeOK
<1>7. ASSUME UNCHANGED <<job, rerun, generation, snapshot>> PROVE ObservationTypeOK'
  BY <1>7 DEF TypeOK, ObservationTypeOK
<1> QED
  BY <1>1, <1>2, <1>3, <1>4, <1>5, <1>6, <1>7 DEF Next, Elsewhere, Person, Work,
     Commit, Soil, Push, PushElsewhere, Merge, DeleteElsewhere, RemoveByHand,
     CheckOut, PressFetch, PressFetchInside, Cancel, Confirm, PressCleanup,
     RunFetch, Inspect, FinishInspection, FetchRequested, RefreshFetch,
     RefreshLanded, RefreshTimedOut, RefreshInspect, RefreshEnds, Reinspect, Delete,
     repository, observation, flow, workers, history, Beside, vars

\* show_preview() holds a well-typed preview.
LEMMA ShowPreviewType ==
    ASSUME TypeOK, NEW facts \in FactSets, NEW at \in Nat, ShowPreview(facts, at)
    PROVE  /\ hold' \in Previews
           /\ opened' \in [screens : Nat, cleanups : Nat, asked : Nat]
  BY DEF ShowPreview, TypeOK, FlowTypeOK, Previews

LEMMA FlowTypeStep ==
    ASSUME TypeOK, Control, [Next]_vars
    PROVE  FlowTypeOK'
<1>1. ASSUME PressFetch PROVE FlowTypeOK'
  BY <1>1 DEF PressFetch, TypeOK, FlowTypeOK, observation, flow, workers, history
<1>2. ASSUME PressFetchInside PROVE FlowTypeOK'
  BY <1>2 DEF PressFetchInside, TypeOK, FlowTypeOK, observation, flow, workers,
     history, Previews
<1>3. ASSUME Cancel PROVE FlowTypeOK'
  BY <1>3 DEF Cancel, TypeOK, FlowTypeOK, observation, flow, workers, history, Release
<1>4. ASSUME Confirm PROVE FlowTypeOK'
  BY <1>4 DEF Confirm, TypeOK, FlowTypeOK, observation, flow, workers, history, Release
<1>5. ASSUME NEW kind \in Kinds, PressCleanup(kind) PROVE FlowTypeOK'
  BY <1>5 DEF PressCleanup, TypeOK, FlowTypeOK, observation, flow, workers, history
<1>6. ASSUME Tick PROVE FlowTypeOK'
  BY <1>6 DEF Tick, TypeOK, FlowTypeOK, observation, flow, workers, history
<1>7. ASSUME RunFetch PROVE FlowTypeOK'
  BY <1>7 DEF RunFetch, TypeOK, FlowTypeOK, observation, flow, workers, history,
     GitFetch
<1>8. ASSUME RecordFetch PROVE FlowTypeOK'
  BY <1>8 DEF RecordFetch, TypeOK, FlowTypeOK, observation, flow, workers, history
<1>9. ASSUME FinishInspection PROVE FlowTypeOK'
  <2>1. CASE inspection.stage = "done"
    <3>1. inspection.facts \in FactSets /\ inspection.fetches \in Nat
      BY <1>9, <2>1 DEF FinishInspection, TypeOK, WorkersTypeOK, Inspections
    <3>2. hold' \in Previews /\ opened' \in [screens : Nat, cleanups : Nat, asked : Nat]
      BY <1>9, <2>1, <3>1, ShowPreviewType DEF FinishInspection
    <3> QED
      BY <1>9, <2>1, <3>2 DEF FinishInspection, ShowPreview, Control, TypeOK, FlowTypeOK
  <2>2. CASE inspection.stage # "done"
    BY <1>9, <2>2 DEF FinishInspection, Release, Control, TypeOK, FlowTypeOK
  <2> QED
    BY <2>1, <2>2
<1>10. ASSUME NEW s \in asked, FetchRequested(s) PROVE FlowTypeOK'
  <2>1. CASE MayFetch(s)
    <3>1. hold' \in Previews
      BY <1>10, <2>1 DEF FetchRequested, MayFetch, TypeOK, FlowTypeOK, Previews
    <3> QED
      BY <1>10, <2>1, <3>1 DEF FetchRequested, MayFetch, TypeOK, FlowTypeOK, history
  <2>2. CASE ~MayFetch(s)
    BY <1>10, <2>2 DEF FetchRequested, TypeOK, FlowTypeOK, history
  <2> QED
    BY <2>1, <2>2
<1>11. ASSUME RefreshFetch PROVE FlowTypeOK'
  BY <1>11 DEF RefreshFetch, TypeOK, FlowTypeOK, observation, flow, workers,
     history, GitFetch
<1>12. ASSUME RefreshEnds PROVE FlowTypeOK'
  <2>1. hold' \in Previews \cup {None} /\ (hold' = None <=> hold = None)
    <3>1. refresh \in Refreshes /\ (~At("failed") => refresh.facts \in FactSets)
      BY <1>12 DEF RefreshEnds, At, TypeOK, WorkersTypeOK
    <3>2. CASE ~(Holds(refresh.screen) /\ open)
      BY <1>12, <3>2 DEF RefreshEnds, TypeOK, FlowTypeOK
    <3>3. CASE Holds(refresh.screen) /\ open /\ At("failed")
      BY <1>12, <3>3 DEF RefreshEnds, Holds, TypeOK, FlowTypeOK, Previews
    <3>4. CASE Holds(refresh.screen) /\ open /\ ~At("failed")
      BY <1>12, <3>1, <3>4 DEF RefreshEnds, Holds, TypeOK, FlowTypeOK, Previews,
         Refreshes
    <3> QED
      BY <3>2, <3>3, <3>4
  <2> QED
    BY <1>12, <2>1 DEF RefreshEnds, LetGo, TypeOK, FlowTypeOK, history
<1>13. ASSUME FinishCleanup PROVE FlowTypeOK'
  <2>1. CASE Performing("changed")
    <3>1. perform.facts \in FactSets /\ perform.fetches \in Nat
      BY <2>1 DEF Performing, TypeOK, WorkersTypeOK, Performances
    <3>2. hold' \in Previews /\ opened' \in [screens : Nat, cleanups : Nat, asked : Nat]
      BY <1>13, <2>1, <3>1, ShowPreviewType DEF FinishCleanup
    <3> QED
      BY <1>13, <2>1, <3>2 DEF FinishCleanup, Performing, ShowPreview, Control,
         TypeOK, FlowTypeOK
  <2>2. CASE ~Performing("changed")
    BY <1>13, <2>2 DEF FinishCleanup, Performing, Release, Control, TypeOK, FlowTypeOK
  <2> QED
    BY <2>1, <2>2
<1>14. ASSUME UNCHANGED <<cleaning, fetching, hold, open, asked, fetches, opened>> PROVE FlowTypeOK'
  BY <1>14 DEF TypeOK, FlowTypeOK, observation, flow, workers, history
<1> QED
  BY <1>1, <1>2, <1>3, <1>4, <1>5, <1>6, <1>7, <1>8, <1>9, <1>10, <1>11, <1>12,
     <1>13, <1>14 DEF Next, Elsewhere, Person, Work, Commit, Soil, Push,
     PushElsewhere, Merge, DeleteElsewhere, RemoveByHand, CheckOut, Observe, Land,
     Inspect, RefreshObserve, RefreshLanded, RefreshTimedOut, RefreshInspect,
     Reinspect, Delete, repository, observation, flow, workers, history, Beside,
     vars

\* The re-inspection of a fetched preview is of the same screen.
LEMMA RefreshInspectType ==
    ASSUME TypeOK, Control, RefreshInspect
    PROVE  /\ refresh # None /\ refresh' \in Refreshes /\ refresh'.screen = refresh.screen
           /\ refresh'.stage = "inspected" => refresh'.facts \in FactSets
<1>1. CASE /\ cleaning # None
           /\ refresh' = [refresh EXCEPT !.stage = "inspected", !.facts = Facts(cleaning),
                                         !.fetches = fetches]
  <2>1. Facts(cleaning) \in FactSets
    BY <1>1, FactsType DEF TypeOK, FlowTypeOK
  <2> QED
    BY <1>1, <2>1 DEF RefreshInspect, At, TypeOK, WorkersTypeOK, FlowTypeOK, Refreshes
<1>2. CASE refresh' = [refresh EXCEPT !.stage = "failed"]
  BY <1>2 DEF RefreshInspect, At, TypeOK, WorkersTypeOK, Refreshes
<1> QED
  BY <1>1, <1>2 DEF RefreshInspect

\* Performing's re-inspection leaves a well-typed performance.
LEMMA ReinspectType ==
    ASSUME TypeOK, Control, Reinspect
    PROVE  /\ cleaning \in Kinds /\ perform \in Performances
           /\ perform' \in Performances
<1>1. cleaning \in Kinds /\ perform \in Performances
  BY DEF Reinspect, Performing, Control, TypeOK, FlowTypeOK, WorkersTypeOK
<1>2. Facts(cleaning) \in FactSets
  BY <1>1, FactsType
<1> QED
  BY <1>1, <1>2 DEF Reinspect, TypeOK, FlowTypeOK, Performances

\* So does each deletion.
LEMMA DeleteType ==
    ASSUME TypeOK, Delete
    PROVE  perform \in Performances /\ perform' \in Performances
<1>1. perform \in Performances
  BY DEF Delete, Performing, TypeOK, WorkersTypeOK
<1>2. \E left \in SUBSET Targets : perform' = [perform EXCEPT !.left = left]
  BY <1>1 DEF Delete, Halted, Performances
<1> QED
  BY <1>1, <1>2 DEF Performances

LEMMA WorkersTypeStep ==
    ASSUME TypeOK, Control, [Next]_vars
    PROVE  WorkersTypeOK'
<1>1. ASSUME PressFetch PROVE WorkersTypeOK'
  BY <1>1 DEF PressFetch, TypeOK, WorkersTypeOK, observation, flow, workers,
     history, FetchStages
<1>2. ASSUME Confirm PROVE WorkersTypeOK'
  <2>1. CASE fetching
    BY <1>2, <2>1 DEF Confirm, TypeOK, WorkersTypeOK
  <2>2. CASE ~fetching
    BY <1>2, <2>2, ConfirmType DEF Confirm, TypeOK, WorkersTypeOK
  <2> QED
    BY <2>1, <2>2 DEF TypeOK, FlowTypeOK
<1>3. ASSUME NEW kind \in Kinds, PressCleanup(kind) PROVE WorkersTypeOK'
  <2>1. inspection' \in Inspections /\ inspection'.stage = "running"
    BY <1>3 DEF PressCleanup, Inspections
  <2> QED
    BY <1>3, <2>1 DEF PressCleanup, TypeOK, WorkersTypeOK
<1>4. ASSUME Land PROVE WorkersTypeOK'
  <2>1. refresh' \in Refreshes \cup {None}
    BY <1>4 DEF Land, TypeOK, WorkersTypeOK, Refreshes
  <2>2. refresh' # None /\ refresh'.stage = "inspected" => refresh'.facts \in FactSets
    BY <1>4 DEF Land, TypeOK, WorkersTypeOK, Refreshes
  <2> QED
    BY <1>4, <2>1, <2>2 DEF Land, TypeOK, WorkersTypeOK
<1>5. ASSUME RunFetch PROVE WorkersTypeOK'
  BY <1>5 DEF RunFetch, TypeOK, WorkersTypeOK, observation, flow, workers, history,
     FetchStages
<1>6. ASSUME RecordFetch PROVE WorkersTypeOK'
  BY <1>6 DEF RecordFetch, TypeOK, WorkersTypeOK, observation, flow, workers, history
<1>7. ASSUME Inspect PROVE WorkersTypeOK'
  <2>1. cleaning \in Kinds
    BY <1>7 DEF Inspect, Control, TypeOK, FlowTypeOK
  <2>2. CASE inspection' = [facts |-> Facts(cleaning), fetches |-> fetches, stage |-> "done"]
    <3>1. inspection' \in Inspections /\ inspection'.facts \in FactSets
      BY <2>1, <2>2, FactsType DEF Inspections, TypeOK, FlowTypeOK
    <3> QED
      BY <1>7, <3>1 DEF Inspect, TypeOK, WorkersTypeOK
  <2>3. CASE inspection' = [inspection EXCEPT !.stage = "failed"]
    <3>1. inspection' \in Inspections /\ inspection'.stage = "failed"
      BY <1>7, <2>3 DEF Inspect, TypeOK, WorkersTypeOK, Inspections
    <3> QED
      BY <1>7, <3>1 DEF Inspect, TypeOK, WorkersTypeOK
  <2> QED
    BY <1>7, <2>2, <2>3 DEF Inspect
<1>8. ASSUME FinishInspection PROVE WorkersTypeOK'
  BY <1>8 DEF FinishInspection, TypeOK, WorkersTypeOK, observation, flow, workers,
     history
<1>9. ASSUME NEW s \in asked, FetchRequested(s) PROVE WorkersTypeOK'
  <2>1. CASE MayFetch(s)
    <3>1. refresh' \in Refreshes /\ refresh'.stage = "fetching"
      BY <1>9, <2>1 DEF FetchRequested, TypeOK, FlowTypeOK, Refreshes
    <3> QED
      BY <1>9, <3>1 DEF FetchRequested, TypeOK, WorkersTypeOK
  <2>2. CASE ~MayFetch(s)
    BY <1>9, <2>2 DEF FetchRequested, TypeOK, WorkersTypeOK
  <2> QED
    BY <2>1, <2>2
<1>10. ASSUME RefreshFetch PROVE WorkersTypeOK'
  <2>1. refresh' \in Refreshes /\ refresh'.stage = "fetched"
    BY <1>10 DEF RefreshFetch, At, TypeOK, WorkersTypeOK, Refreshes
  <2> QED
    BY <1>10, <2>1 DEF RefreshFetch, TypeOK, WorkersTypeOK
<1>11. ASSUME RefreshObserve PROVE WorkersTypeOK'
  <2>1. refresh' \in Refreshes /\ refresh'.stage = "waiting"
    BY <1>11 DEF RefreshObserve, At, TypeOK, WorkersTypeOK, ObservationTypeOK,
       Refreshes, Tickets
  <2> QED
    BY <1>11, <2>1 DEF RefreshObserve, TypeOK, WorkersTypeOK
<1>12. ASSUME RefreshLanded PROVE WorkersTypeOK'
  <2>1. refresh' \in Refreshes /\ refresh'.stage \in {"inspecting", "failed"}
    BY <1>12 DEF RefreshLanded, At, TypeOK, WorkersTypeOK, Refreshes
  <2> QED
    BY <1>12, <2>1 DEF RefreshLanded, TypeOK, WorkersTypeOK
<1>13. ASSUME RefreshTimedOut PROVE WorkersTypeOK'
  <2>1. refresh' \in Refreshes /\ refresh'.stage = "failed"
    BY <1>13 DEF RefreshTimedOut, At, TypeOK, WorkersTypeOK, Refreshes
  <2> QED
    BY <1>13, <2>1 DEF RefreshTimedOut, TypeOK, WorkersTypeOK
<1>14. ASSUME RefreshInspect PROVE WorkersTypeOK'
  BY <1>14, RefreshInspectType DEF RefreshInspect, TypeOK, WorkersTypeOK
<1>15. ASSUME RefreshEnds PROVE WorkersTypeOK'
  BY <1>15 DEF RefreshEnds, TypeOK, WorkersTypeOK, observation, flow, workers, history
<1>16. ASSUME Reinspect PROVE WorkersTypeOK'
  BY <1>16, ReinspectType DEF Reinspect, TypeOK, WorkersTypeOK
<1>17. ASSUME Delete PROVE WorkersTypeOK'
  BY <1>17, DeleteType DEF Delete, flow, TypeOK, WorkersTypeOK
<1>18. ASSUME FinishCleanup PROVE WorkersTypeOK'
  BY <1>18 DEF FinishCleanup, TypeOK, WorkersTypeOK, observation, flow, workers, history
<1>19. ASSUME UNCHANGED <<inspection, fetch, refresh, perform>> PROVE WorkersTypeOK'
  BY <1>19 DEF TypeOK, WorkersTypeOK, observation, flow, workers, history
<1> QED
  BY <1>1, <1>2, <1>3, <1>4, <1>5, <1>6, <1>7, <1>8, <1>9, <1>10, <1>11, <1>12,
     <1>13, <1>14, <1>15, <1>16, <1>17, <1>18, <1>19 DEF Next, Elsewhere, Person,
     Work, Commit, Soil, Push, PushElsewhere, Merge, DeleteElsewhere, RemoveByHand,
     CheckOut, PressFetchInside, Cancel, Tick, Observe, repository, observation,
     flow, workers, history, Beside, vars

\* Together:
LEMMA TypeStep ==
    ASSUME TypeOK, Control, [Next]_vars
    PROVE  TypeOK'
  BY RepositoryTypeStep, ObservationTypeStep, FlowTypeStep, WorkersTypeStep DEF TypeOK

-----------------------------------------------------------------------------
(* Who holds the Project. *)

\* Every step keeps who may hold the Project.
LEMMA ControlStep ==
    ASSUME TypeOK, Control, [Next]_vars
    PROVE  Control'
<1>1. ASSUME PressFetch PROVE Control'
  BY <1>1 DEF PressFetch, Control, TypeOK, FlowTypeOK, WorkersTypeOK, observation,
     flow, workers, history, FetchStages
<1>2. ASSUME Cancel PROVE Control'
  BY <1>2 DEF Cancel, Control, TypeOK, FlowTypeOK, WorkersTypeOK, observation, flow,
     workers, history, Release
<1>3. ASSUME Confirm PROVE Control'
  <2>1. perform = None /\ inspection = None /\ hold # None /\ cleaning # None /\ ~fetching
    BY <1>3 DEF Confirm, Control, TypeOK, FlowTypeOK
  <2>2. fetch = None /\ refresh = None
    BY <2>1 DEF Control
  <2> QED
    BY <1>3, <2>1, <2>2, ConfirmType DEF Confirm, Control
<1>4. ASSUME NEW kind \in Kinds, PressCleanup(kind) PROVE Control'
  <2>1. hold = None /\ perform = None /\ fetch = None /\ refresh = None /\ ~open
    BY <1>4 DEF PressCleanup, Control, TypeOK, FlowTypeOK
  <2> QED
    BY <1>4, <2>1 DEF PressCleanup, Control
<1>5. ASSUME Land PROVE Control'
  <2>1. refresh = None <=> refresh' = None
    BY <1>5, TypeStep DEF Land, TypeOK, WorkersTypeOK, Refreshes
  <2>2. refresh # None => refresh'.screen = refresh.screen
    BY <1>5 DEF Land, TypeOK, WorkersTypeOK, Refreshes
  <2> QED
    BY <1>5, <2>1, <2>2 DEF Land, Control, flow
<1>6. ASSUME RunFetch PROVE Control'
  BY <1>6 DEF RunFetch, Control, TypeOK, FlowTypeOK, WorkersTypeOK, observation,
     flow, workers, history, FetchStages
<1>7. ASSUME RecordFetch PROVE Control'
  BY <1>7 DEF RecordFetch, Control, TypeOK, FlowTypeOK, WorkersTypeOK, observation,
     flow, workers, history, FetchStages
<1>8. ASSUME Inspect PROVE Control'
  BY <1>8 DEF Inspect, Control, flow
<1>9. ASSUME FinishInspection PROVE Control'
  <2>1. cleaning # None /\ hold = None /\ perform = None /\ ~open /\ fetch = None /\ refresh = None
    BY <1>9 DEF FinishInspection, Control, TypeOK, FlowTypeOK
  <2>2. CASE inspection.stage = "done"
    <3>1. hold' # None /\ open' /\ cleaning' = cleaning
      BY <1>9, <2>2, TypeStep DEF FinishInspection, ShowPreview, TypeOK, FlowTypeOK
    <3> QED
      BY <1>9, <2>1, <3>1 DEF FinishInspection, Control
  <2>3. CASE inspection.stage # "done"
    BY <1>9, <2>1, <2>3 DEF FinishInspection, Release, Control
  <2> QED
    BY <2>2, <2>3
<1>10. ASSUME NEW s \in asked, FetchRequested(s) PROVE Control'
  <2>1. CASE MayFetch(s)
    <3>1. hold' # None /\ hold'.busy /\ hold'.screen = s /\ refresh'.screen = s
            /\ refresh' \in Refreshes
      BY <1>10, <2>1, TypeStep DEF FetchRequested, MayFetch, TypeOK, FlowTypeOK,
         Previews, Refreshes
    <3>2. cleaning # None /\ perform = None /\ inspection = None /\ fetch = None
      BY <2>1 DEF MayFetch, Control, TypeOK, FlowTypeOK
    <3> QED
      BY <1>10, <2>1, <3>1, <3>2 DEF FetchRequested, MayFetch, Control
  <2>2. CASE ~MayFetch(s)
    BY <1>10, <2>2 DEF FetchRequested, Control
  <2> QED
    BY <2>1, <2>2
<1>11. ASSUME RefreshFetch PROVE Control'
  <2>1. refresh # None /\ refresh' # None /\ refresh'.screen = refresh.screen
    BY <1>11 DEF RefreshFetch, At, TypeOK, WorkersTypeOK, ObservationTypeOK,
       Refreshes, Tickets
  <2> QED
    BY <1>11, <2>1 DEF RefreshFetch, Control, flow
<1>12. ASSUME RefreshObserve PROVE Control'
  <2>1. PICK n \in Nat : refresh' = [refresh EXCEPT !.stage = "waiting", !.after = n]
    BY <1>12 DEF RefreshObserve, TypeOK, ObservationTypeOK, Tickets
  <2>2. refresh \in Refreshes
    BY <1>12 DEF RefreshObserve, At, TypeOK, WorkersTypeOK
  <2>3. refresh # None /\ refresh' # None /\ refresh'.screen = refresh.screen
    BY <2>1, <2>2 DEF Refreshes
  <2> QED
    BY <1>12, <2>3 DEF RefreshObserve, Control, flow
<1>13. ASSUME RefreshLanded PROVE Control'
  <2>1. refresh # None /\ refresh' # None /\ refresh'.screen = refresh.screen
    BY <1>13 DEF RefreshLanded, At, TypeOK, WorkersTypeOK, ObservationTypeOK,
       Refreshes, Tickets
  <2> QED
    BY <1>13, <2>1 DEF RefreshLanded, Control, flow
<1>14. ASSUME RefreshTimedOut PROVE Control'
  <2>1. refresh # None /\ refresh' # None /\ refresh'.screen = refresh.screen
    BY <1>14 DEF RefreshTimedOut, At, TypeOK, WorkersTypeOK, ObservationTypeOK,
       Refreshes, Tickets
  <2> QED
    BY <1>14, <2>1 DEF RefreshTimedOut, Control, flow
<1>15. ASSUME RefreshInspect PROVE Control'
  BY <1>15, RefreshInspectType DEF RefreshInspect, Control, flow
<1>16. ASSUME RefreshEnds PROVE Control'
  <2>1. hold' = None <=> hold = None
    BY <1>16, TypeStep DEF RefreshEnds, Holds, TypeOK, FlowTypeOK, Previews
  <2>2. perform = None /\ inspection = None /\ fetch = None
    BY <1>16 DEF RefreshEnds, At, Control
  <2> QED
    BY <1>16, <2>1, <2>2 DEF RefreshEnds, LetGo, Control
<1>17. ASSUME Reinspect PROVE Control'
  BY <1>17, ReinspectType DEF Reinspect, Control, flow
<1>18. ASSUME Delete PROVE Control'
  BY <1>18, DeleteType DEF Delete, Control, flow
<1>19. ASSUME FinishCleanup PROVE Control'
  <2>1. perform # None /\ inspection = None /\ fetch = None /\ refresh = None /\ ~open
    BY <1>19 DEF FinishCleanup, Performing, Control
  <2>2. CASE Performing("changed")
    <3>1. hold' # None /\ open' /\ cleaning' = cleaning
      BY <1>19, <2>2, TypeStep DEF FinishCleanup, ShowPreview, TypeOK, FlowTypeOK
    <3> QED
      BY <1>19, <2>1, <3>1 DEF FinishCleanup, Control
  <2>3. CASE ~Performing("changed")
    BY <1>19, <2>1, <2>3 DEF FinishCleanup, Release, Control
  <2> QED
    BY <2>2, <2>3
<1>20. ASSUME UNCHANGED <<cleaning, fetching, hold, open, inspection, fetch, refresh, perform>> PROVE Control'
  BY <1>20 DEF Control, TypeOK, FlowTypeOK, WorkersTypeOK, observation, flow,
     workers, history
<1> QED
  BY <1>1, <1>2, <1>3, <1>4, <1>5, <1>6, <1>7, <1>8, <1>9, <1>10, <1>11, <1>12,
     <1>13, <1>14, <1>15, <1>16, <1>17, <1>18, <1>19, <1>20 DEF Next, Elsewhere,
     Person, Work, Commit, Soil, Push, PushElsewhere, Merge, DeleteElsewhere,
     RemoveByHand, CheckOut, PressFetchInside, Tick, Observe, repository,
     observation, flow, workers, history, Beside, vars

-----------------------------------------------------------------------------
(* No commit is lost. *)
\* What an inspection finds available is integrated.
LEMMA FoundIntegrated ==
    ASSUME TypeOK, Reached, NEW kind \in Kinds
    PROVE  Integrated(Facts(kind), upstream)
<1> SUFFICES ASSUME NEW t \in Available(Facts(kind)) \ {"worktree"}
             PROVE  /\ Facts(kind)[t].at \subseteq upstream.held
                    /\ Facts(kind)[t].at \ Facts(kind)[t].unintegrated \subseteq upstream.main
  BY DEF Integrated
<1> DEFINE at == IF t = "remote" THEN tracking.branch ELSE local
<1>1. t \in Present(kind) /\ t # "worktree"
  BY DEF Available, Facts
<1>2. /\ Facts(kind)[t].at = at /\ Facts(kind)[t].unintegrated = at \ tracking.main
      /\ Facts(kind)[t].content = (at \subseteq tracking.held)
  BY <1>1 DEF Facts
<1>3. at \ tracking.main = {} \/ at \subseteq tracking.held
  BY <1>2 DEF Available
<1> QED
  BY <1>2, <1>3 DEF Reached

\* What is integrated stays so as the Integration Branch grows.
LEMMA IntegratedStays ==
    ASSUME NEW facts, NEW at, NEW later, Integrated(facts, at),
           at.main \subseteq later.main, at.held \subseteq later.held
    PROVE  Integrated(facts, later)
  BY DEF Integrated

\* Every step keeps each commit reached.
LEMMA ReachedStep ==
    ASSUME TypeOK, Reached, Kept, [Next]_vars
    PROVE  Reached'
<1>1. ASSUME Commit PROVE Reached'
  BY <1>1 DEF Commit, TypeOK, RepositoryTypeOK, Reached, NoWorkLost, Refs, Beside
<1>2. ASSUME Soil PROVE Reached'
  BY <1>2 DEF Soil, TypeOK, RepositoryTypeOK, Reached, NoWorkLost, Refs, Beside
<1>3. ASSUME Push PROVE Reached'
  BY <1>3 DEF Push, TypeOK, RepositoryTypeOK, Reached, NoWorkLost, Refs, Beside
<1>4. ASSUME PushElsewhere PROVE Reached'
  BY <1>4 DEF PushElsewhere, TypeOK, RepositoryTypeOK, Reached, NoWorkLost, Refs, Beside
<1>5. ASSUME Merge PROVE Reached'
  BY <1>5 DEF Merge, TypeOK, RepositoryTypeOK, Reached, NoWorkLost, Refs, Beside
<1>6. ASSUME DeleteElsewhere PROVE Reached'
  BY <1>6 DEF DeleteElsewhere, TypeOK, RepositoryTypeOK, Reached, NoWorkLost, Refs,
     Beside
<1>7. ASSUME RemoveByHand PROVE Reached'
  BY <1>7 DEF RemoveByHand, TypeOK, RepositoryTypeOK, Reached, NoWorkLost, Refs, Beside
<1>8. ASSUME CheckOut PROVE Reached'
  BY <1>8 DEF CheckOut, TypeOK, RepositoryTypeOK, Reached, NoWorkLost, Refs, Beside
<1>9. ASSUME RunFetch PROVE Reached'
  BY <1>9 DEF RunFetch, TypeOK, RepositoryTypeOK, Reached, NoWorkLost, Refs, Beside,
     GitFetch
<1>10. ASSUME RefreshFetch PROVE Reached'
  BY <1>10 DEF RefreshFetch, TypeOK, RepositoryTypeOK, Reached, NoWorkLost, Refs,
     Beside, GitFetch
<1>11. ASSUME Delete PROVE Reached'
  <2> DEFINE t == First(perform.left)
  <2>1. perform \in Performances
    BY <1>11, DeleteType
  <2>2. t \in perform.left /\ t \in Targets
    BY <1>11, <2>1 DEF Delete, First, Targets, Performances
  <2>3. t # "worktree" =>
          perform.facts[t].at \subseteq upstream.main \cup (upstream.held \cap dropped)
    <3>1. t \in Available(perform.facts) /\ Integrated(perform.facts, upstream)
      BY <1>11, <2>1, <2>2 DEF Delete, Performing, Kept
    <3>2. perform.facts[t].unintegrated \subseteq dropped
      BY <1>11, <2>1, <2>2 DEF Delete, Performing, Kept, Disclosed
    <3> QED
      BY <3>1, <3>2 DEF Integrated
  <2>4. CASE UNCHANGED <<local, tree, tracking, upstream>>
    BY <1>11, <2>4 DEF Delete, Reached, NoWorkLost
  <2>5. CASE Stands(t) /\ GitDelete(t)
    <3>1. CASE t = "remote"
      BY <1>11, <2>3, <2>5, <3>1 DEF Delete, Stands, GitDelete, Reached,
         NoWorkLost, TypeOK, RepositoryTypeOK, Refs
    <3>2. CASE t = "worktree"
      BY <1>11, <2>5, <3>2 DEF Delete, GitDelete, Reached, NoWorkLost
    <3>3. CASE t = "local"
      BY <1>11, <2>3, <2>5, <3>3 DEF Delete, Stands, GitDelete, Reached, NoWorkLost
    <3> QED
      BY <2>2, <3>1, <3>2, <3>3 DEF Targets
  <2> QED
    BY <1>11, <2>4, <2>5 DEF Delete
<1>12. ASSUME UNCHANGED <<local, tree, tracking, upstream, made, changes>>,
              dropped \subseteq dropped'
       PROVE  Reached'
  BY <1>12 DEF Reached, NoWorkLost
<1>13. ASSUME Confirm PROVE dropped \subseteq dropped'
  BY <1>13 DEF Confirm
<1> QED
  BY <1>13, <1>1, <1>2, <1>3, <1>4, <1>5, <1>6, <1>7, <1>8, <1>9, <1>10, <1>11, <1>12 DEF
     Next, Elsewhere, Person, Work, PressFetch, PressFetchInside, Cancel, Confirm,
     PressCleanup, Tick, Observe, Land, RecordFetch, Inspect, FinishInspection,
     FetchRequested, RefreshObserve, RefreshLanded, RefreshTimedOut, RefreshInspect,
     RefreshEnds, Reinspect, FinishCleanup, repository, observation, flow, workers,
     history, Beside, vars

\* The Integration Branch only grows at the remote; what was let go stays so.
Grows ==
    /\ upstream.main \subseteq upstream'.main /\ upstream.held \subseteq upstream'.held
    /\ dropped \subseteq dropped'

LEMMA MainGrows ==
    ASSUME TypeOK, [Next]_vars
    PROVE  Grows
<1>1. ASSUME Push PROVE Grows
  BY <1>1 DEF Grows, Push, TypeOK, RepositoryTypeOK, Refs
<1>2. ASSUME PushElsewhere PROVE Grows
  BY <1>2 DEF Grows, PushElsewhere, TypeOK, RepositoryTypeOK, Refs
<1>3. ASSUME Merge PROVE Grows
  BY <1>3 DEF Grows, Merge, TypeOK, RepositoryTypeOK, Refs
<1>4. ASSUME DeleteElsewhere PROVE Grows
  BY <1>4 DEF Grows, DeleteElsewhere, TypeOK, RepositoryTypeOK, Refs
<1>5. ASSUME Delete PROVE Grows
  BY <1>5 DEF Grows, Delete, GitDelete, TypeOK, RepositoryTypeOK, Refs, GitDelete
<1>6. ASSUME upstream' = upstream, dropped \subseteq dropped' PROVE Grows
  BY <1>6 DEF Grows
<1>7. ASSUME RemoveByHand \/ Confirm PROVE upstream' = upstream /\ dropped \subseteq dropped'
  BY <1>7 DEF RemoveByHand, Confirm
<1> QED
  BY <1>7, <1>1, <1>2, <1>3, <1>4, <1>5, <1>6 DEF Next, Elsewhere, Person, Work, Commit,
     Soil, RemoveByHand, CheckOut, PressFetch, PressFetchInside, Cancel, Confirm,
     PressCleanup, Tick, Observe, Land, RunFetch, GitFetch, RecordFetch, Inspect,
     FinishInspection, FetchRequested, RefreshFetch, RefreshObserve, RefreshLanded,
     RefreshTimedOut, RefreshInspect, RefreshEnds, Reinspect, FinishCleanup,
     repository, observation, flow, workers, history, Beside, vars

\* Every step keeps what is held for deletion integrated.
LEMMA KeptStep ==
    ASSUME TypeOK, Control, Reached, Kept, [Next]_vars
    PROVE  Kept'
<1>keep. /\ inspection # None /\ inspection.stage = "done" =>
              Integrated(inspection.facts, upstream')
         /\ hold # None => Integrated(hold.facts, upstream')
         /\ refresh # None /\ refresh.stage = "inspected" =>
              Integrated(refresh.facts, upstream')
         /\ perform # None => Integrated(perform.facts, upstream')
         /\ dropped \subseteq dropped'
  BY MainGrows, IntegratedStays DEF Kept, Grows
<1>1. ASSUME Cancel PROVE Kept'
  BY <1>1, <1>keep DEF Cancel, Kept, Release, workers
<1>2. ASSUME Confirm PROVE Kept'
  <2>1. ~fetching
    BY <1>2 DEF Confirm, Control, TypeOK, FlowTypeOK
  <2>2. perform'.left \subseteq Available(perform'.facts)
    BY <1>2, <2>1, ConfirmType DEF Selections
  <2>3. Disclosed(perform'.facts, perform'.left) \subseteq dropped'
    BY <1>2, <2>1 DEF Confirm
  <2> QED
    BY <1>2, <1>keep, <2>1, <2>2, <2>3, ConfirmType DEF Confirm, Kept
<1>3. ASSUME NEW kind \in Kinds, PressCleanup(kind) PROVE Kept'
  <2>1. inspection'.stage # "done"
    BY <1>3 DEF PressCleanup
  <2> QED
    BY <1>3, <1>keep, <2>1 DEF PressCleanup, Kept
<1>4. ASSUME Inspect PROVE Kept'
  <2>1. cleaning \in Kinds /\ inspection \in Inspections
    BY <1>4 DEF Inspect, Control, TypeOK, FlowTypeOK, WorkersTypeOK
  <2>2. inspection'.stage = "done" => inspection'.facts = Facts(cleaning)
    BY <1>4, <2>1 DEF Inspect, Inspections
  <2>3. inspection'.stage = "done" => Integrated(inspection'.facts, upstream')
    BY <1>4, <2>1, <2>2, FoundIntegrated DEF Inspect, repository
  <2> QED
    BY <1>4, <1>keep, <2>3 DEF Inspect, flow, Kept
<1>5. ASSUME FinishInspection PROVE Kept'
  <2>1. CASE inspection.stage = "done"
    <3>1. hold'.facts = inspection.facts
      BY <1>5, <2>1 DEF FinishInspection, ShowPreview
    <3> QED
      BY <1>5, <1>keep, <2>1, <3>1 DEF FinishInspection, Kept
  <2>2. CASE inspection.stage # "done"
    BY <1>5, <1>keep, <2>2 DEF FinishInspection, Release, Kept
  <2> QED
    BY <2>1, <2>2
<1>6. ASSUME NEW s \in asked, FetchRequested(s) PROVE Kept'
  <2>1. CASE MayFetch(s)
    <3>1. hold' # None => hold # None /\ hold'.facts = hold.facts
      BY <1>6, <2>1 DEF FetchRequested, MayFetch, TypeOK, FlowTypeOK, Previews
    <3>2. refresh'.stage # "inspected"
      BY <1>6, <2>1 DEF FetchRequested
    <3> QED
      BY <1>6, <1>keep, <3>1, <3>2 DEF FetchRequested, Kept
  <2>2. CASE ~MayFetch(s)
    BY <1>6, <1>keep, <2>2 DEF FetchRequested, Kept
  <2> QED
    BY <2>1, <2>2
<1>7. ASSUME Land PROVE Kept'
  <2>1. refresh' # None /\ refresh'.stage = "inspected" =>
           refresh # None /\ refresh.stage = "inspected" /\ refresh'.facts = refresh.facts
    BY <1>7 DEF Land, TypeOK, WorkersTypeOK, Refreshes
  <2> QED
    BY <1>7, <1>keep, <2>1 DEF Land, flow, Kept
<1>8. ASSUME RefreshFetch PROVE Kept'
  <2>1. refresh \in Refreshes
    BY <1>8 DEF RefreshFetch, At, TypeOK, WorkersTypeOK
  <2>2. refresh'.stage # "inspected"
    BY <1>8, <2>1 DEF RefreshFetch, Refreshes
  <2> QED
    BY <1>8, <1>keep, <2>2 DEF RefreshFetch, flow, Kept
<1>9. ASSUME RefreshObserve PROVE Kept'
  <2>1. refresh \in Refreshes
    BY <1>9 DEF RefreshObserve, At, TypeOK, WorkersTypeOK
  <2>2. refresh'.stage # "inspected"
    BY <1>9, <2>1 DEF RefreshObserve, Refreshes
  <2> QED
    BY <1>9, <1>keep, <2>2 DEF RefreshObserve, flow, Kept
<1>10. ASSUME RefreshLanded PROVE Kept'
  <2>1. refresh \in Refreshes
    BY <1>10 DEF RefreshLanded, At, TypeOK, WorkersTypeOK
  <2>2. refresh'.stage # "inspected"
    BY <1>10, <2>1 DEF RefreshLanded, Refreshes
  <2> QED
    BY <1>10, <1>keep, <2>2 DEF RefreshLanded, flow, Kept
<1>11. ASSUME RefreshTimedOut PROVE Kept'
  <2>1. refresh \in Refreshes
    BY <1>11 DEF RefreshTimedOut, At, TypeOK, WorkersTypeOK
  <2>2. refresh'.stage # "inspected"
    BY <1>11, <2>1 DEF RefreshTimedOut, Refreshes
  <2> QED
    BY <1>11, <1>keep, <2>2 DEF RefreshTimedOut, flow, Kept
<1>12. ASSUME RefreshInspect PROVE Kept'
  <2>1. refresh \in Refreshes
    BY <1>12 DEF RefreshInspect, At, TypeOK, WorkersTypeOK
  <2>2. refresh'.stage = "inspected" => cleaning \in Kinds /\ refresh'.facts = Facts(cleaning)
    BY <1>12, <2>1 DEF RefreshInspect, TypeOK, FlowTypeOK, Refreshes
  <2>3. refresh'.stage = "inspected" => Integrated(refresh'.facts, upstream')
    BY <1>12, <2>2, FoundIntegrated DEF RefreshInspect, repository
  <2> QED
    BY <1>12, <1>keep, <2>3 DEF RefreshInspect, flow, Kept
<1>13. ASSUME RefreshEnds PROVE Kept'
  <2>1. refresh # None /\ (~At("failed") => refresh.stage = "inspected")
    BY <1>13 DEF RefreshEnds, At
  <2>2. hold' # None => hold'.facts \in {hold.facts, refresh.facts}
                          /\ hold # None /\ (hold'.facts # hold.facts => ~At("failed"))
    BY <1>13 DEF RefreshEnds, Holds, TypeOK, FlowTypeOK, Previews
  <2> QED
    BY <1>13, <1>keep, <2>1, <2>2 DEF RefreshEnds, Kept
<1>14. ASSUME Reinspect PROVE Kept'
  <2>1. cleaning \in Kinds /\ perform \in Performances
    BY <1>14, ReinspectType
  <2>2. perform'.facts \in {perform.facts, Facts(cleaning)}
    BY <1>14, <2>1 DEF Reinspect, Performances
  <2>3. perform'.stage \in {"confirmed", "deleting"} =>
          perform'.facts = perform.facts /\ perform'.left = perform.left
    BY <1>14, <2>1 DEF Reinspect, Performances
  <2>4. perform # None /\ perform.stage = "confirmed"
    BY <1>14 DEF Reinspect, Performing
  <2>5. Integrated(perform'.facts, upstream')
    BY <1>14, <1>keep, <2>1, <2>2, <2>4, FoundIntegrated DEF Reinspect, repository
  <2> QED
    BY <1>14, <1>keep, <2>3, <2>4, <2>5 DEF Reinspect, flow, Kept
<1>15. ASSUME Delete PROVE Kept'
  <2>1. perform # None /\ perform.stage = "deleting" /\ perform \in Performances
    BY <1>15, DeleteType DEF Delete, Performing
  <2>2. perform'.facts = perform.facts /\ perform'.left \subseteq perform.left
    BY <1>15, <2>1 DEF Delete, Halted, Performances
  <2>3. Disclosed(perform'.facts, perform'.left) \subseteq
          Disclosed(perform.facts, perform.left)
    BY <2>2 DEF Disclosed
  <2> QED
    BY <1>15, <1>keep, <2>1, <2>2, <2>3 DEF Delete, flow, Kept
<1>16. ASSUME FinishCleanup PROVE Kept'
  <2>1. CASE Performing("changed")
    <3>1. hold'.facts = perform.facts /\ perform # None
      BY <1>16, <2>1 DEF FinishCleanup, ShowPreview, Performing
    <3> QED
      BY <1>16, <1>keep, <3>1 DEF FinishCleanup, Kept
  <2>2. CASE ~Performing("changed")
    BY <1>16, <1>keep, <2>2 DEF FinishCleanup, Release, Kept
  <2> QED
    BY <2>1, <2>2
<1>17. ASSUME UNCHANGED <<inspection, hold, refresh, perform>> PROVE Kept'
  BY <1>17, <1>keep DEF Kept
<1> QED
  BY <1>1, <1>2, <1>3, <1>4, <1>5, <1>6, <1>7, <1>8, <1>9, <1>10, <1>11, <1>12,
     <1>13, <1>14, <1>15, <1>16, <1>17 DEF Next, Elsewhere, Person, Work, Commit,
     Soil, Push, PushElsewhere, Merge, DeleteElsewhere, RemoveByHand, CheckOut,
     PressFetch, PressFetchInside, Tick, Observe, RunFetch, RecordFetch, repository,
     observation, flow, workers, history, Beside, vars

-----------------------------------------------------------------------------
(* No Worktree is left without its Branch. *)

\* Every step keeps a Worktree's Branch.
LEMMA AttachedStep ==
    ASSUME TypeOK, Control, Kept, Attached, [Next]_vars
    PROVE  Attached'
<1>1. ASSUME Commit PROVE Attached'
  BY <1>1 DEF Commit, Attached, NoDanglingHead, workers, flow, TypeOK,
     RepositoryTypeOK, Beside
<1>2. ASSUME Soil PROVE Attached'
  BY <1>2 DEF Soil, Attached, NoDanglingHead, workers, flow, TypeOK,
     RepositoryTypeOK, Beside
<1>3. ASSUME RemoveByHand PROVE Attached'
  BY <1>3 DEF RemoveByHand, Attached, NoDanglingHead, workers, flow, TypeOK,
     RepositoryTypeOK, Beside
<1>4. ASSUME CheckOut PROVE Attached'
  BY <1>4 DEF CheckOut, Beside, Attached, NoDanglingHead, workers, flow
<1>5. ASSUME NEW kind \in Kinds, PressCleanup(kind) PROVE Attached'
  <2>1. perform = None
    BY <1>5 DEF PressCleanup, Control
  <2> QED
    BY <1>5, <2>1 DEF PressCleanup, repository, Attached, NoDanglingHead
<1>6. ASSUME Cancel PROVE Attached'
  <2>1. perform = None
    BY <1>6 DEF Cancel, Control
  <2> QED
    BY <1>6, <2>1 DEF Cancel, repository, workers, Attached, NoDanglingHead
<1>7. ASSUME Confirm PROVE Attached'
  <2>1. ~fetching
    BY <1>7 DEF Confirm, Control, TypeOK, FlowTypeOK
  <2>2. cleaning = "worktree" => "worktree" \in perform'.left
    BY <2>1, <1>7, ConfirmType DEF Selections
  <2> QED
    BY <1>7, <2>1, <2>2, ConfirmType DEF Confirm, repository, Attached, NoDanglingHead
<1>8. ASSUME FinishInspection PROVE Attached'
  <2>1. perform = None /\ perform' = None
    BY <1>8 DEF FinishInspection, Control
  <2> QED
    BY <1>8, <2>1 DEF FinishInspection, repository, Attached, NoDanglingHead
<1>9. ASSUME Reinspect PROVE Attached'
  <2>1. cleaning \in Kinds /\ perform \in Performances /\ perform.stage = "confirmed"
    BY <1>9, ReinspectType DEF Reinspect, Performing
  <2>2. perform # None /\ perform'.stage # "confirmed"
    BY <1>9, <2>1 DEF Reinspect, Performing, Performances
  <2>3. perform'.stage = "deleting" =>
          perform'.left = perform.left /\ Facts(cleaning) = perform.facts
    BY <1>9, <2>1 DEF Reinspect, Performances
  <2>4. ASSUME perform'.stage = "deleting", "local" \in perform.left, cleaning = "branch"
        PROVE  tree = "absent"
    <3>1. "local" \in Available(Facts(cleaning))
      BY <2>1, <2>2, <2>3, <2>4 DEF Kept
    <3>2. "local" \in Present(cleaning) /\ ~Facts(cleaning)["local"].blocked
      BY <3>1 DEF Available, Facts
    <3> QED
      BY <2>4, <3>2 DEF Facts
  <2>5. cleaning = "worktree" => "worktree" \in perform.left
    BY <2>1, <2>2 DEF Attached
  <2>6. perform'.stage = "deleting" /\ "local" \in perform'.left =>
          "worktree" \in perform'.left \/ tree = "absent"
    BY <2>1, <2>3, <2>4, <2>5
  <2> QED
    BY <1>9, <2>2, <2>6 DEF Reinspect, repository, Attached, NoDanglingHead
<1>10. ASSUME Delete PROVE Attached'
  <2> DEFINE t == First(perform.left)
  <2>1. perform \in Performances /\ perform.stage = "deleting" /\ perform # None
    BY <1>10, DeleteType DEF Delete, Performing
  <2>2. t \in perform.left /\ t \in Targets
    BY <1>10, <2>1 DEF Delete, First, Targets, Performances
  <2>3. t = "local" => "worktree" \notin perform.left
    BY <1>10, <2>1 DEF Delete, First, Targets, Performances
  <2>4. perform'.stage = "deleting" /\ perform'.left \in {perform.left \ {t}, {}}
    BY <1>10, <2>1 DEF Delete, Halted, Performances
  <2>5. t = "local" => tree = "absent"
    BY <2>1, <2>2, <2>3 DEF Attached
  <2>6. tree' = tree \/ (t = "worktree" /\ tree' = "absent")
    BY <1>10, <2>2 DEF Delete, GitDelete
  <2>7. local' = local \/ t = "local"
    BY <1>10 DEF Delete, GitDelete
  <2>8. NoDanglingHead'
    BY <2>5, <2>6, <2>7 DEF Attached, NoDanglingHead
  <2>9. t = "worktree" /\ perform'.left # {} => tree' = "absent"
    BY <1>10, <2>1, <2>2 DEF Delete, GitDelete, Gone, Halted, Performances
  <2> QED
    BY <2>1, <2>4, <2>6, <2>8, <2>9 DEF Attached
<1>11. ASSUME FinishCleanup PROVE Attached'
  <2>1. perform' = None
    BY <1>11 DEF FinishCleanup
  <2> QED
    BY <1>11, <2>1 DEF FinishCleanup, repository, Attached, NoDanglingHead
<1>12. ASSUME UNCHANGED <<local, tree, cleaning, perform>> PROVE Attached'
  BY <1>12 DEF Attached, NoDanglingHead, workers, flow, TypeOK, RepositoryTypeOK
<1> QED
  BY <1>1, <1>2, <1>3, <1>4, <1>5, <1>6, <1>7, <1>8, <1>9, <1>10, <1>11, <1>12 DEF
     Next, Elsewhere, Person, Work, Push, PushElsewhere, Merge, DeleteElsewhere,
     PressFetch, PressFetchInside, Tick, Observe, Land, RunFetch, RecordFetch,
     Inspect, FetchRequested, RefreshFetch, RefreshObserve, RefreshLanded,
     RefreshTimedOut, RefreshInspect, RefreshEnds, GitFetch, repository,
     observation, flow, workers, history, Beside, vars

-----------------------------------------------------------------------------
(* What is confirmed was inspected after every fetch. *)

\* Every step keeps the held evidence of the last fetch.
LEMMA EvidenceStep ==
    ASSUME TypeOK, Control, Evidence, [Next]_vars
    PROVE  Evidence'
<1>1. ASSUME PressFetch PROVE Evidence'
  BY <1>1 DEF PressFetch, Evidence, At, observation, workers, flow, history
<1>2. ASSUME PressFetchInside PROVE Evidence'
  BY <1>2 DEF PressFetchInside, Evidence, At, observation, workers
<1>3. ASSUME Tick PROVE Evidence'
  <2>1. job' = Ticket(generation + 1) /\ generation' = generation + 1
    BY <1>3 DEF Tick, ScheduleGit
  <2>2. ~At("waiting")
    BY <1>3 DEF Tick, Evidence
  <2> QED
    BY <1>3, <2>1, <2>2 DEF Tick, ScheduleGit, Ticket, flow, workers, TypeOK,
       ObservationTypeOK, Evidence, At
<1>4. ASSUME NEW kind \in Kinds, PressCleanup(kind) PROVE Evidence'
  <2>1. inspection'.stage = "running"
    BY <1>4 DEF PressCleanup
  <2> QED
    BY <1>4, <2>1 DEF PressCleanup, observation, Evidence, At
<1>5. ASSUME Cancel PROVE Evidence'
  BY <1>5 DEF Cancel, Evidence, At, Release, workers, observation, history
<1>6. ASSUME Confirm PROVE Evidence'
  <2>1. ~fetching
    BY <1>6 DEF Confirm, Control, TypeOK, FlowTypeOK
  <2> QED
    BY <1>6, <2>1, ConfirmType DEF Confirm, observation, history, Evidence, At
<1>7. ASSUME Observe PROVE Evidence'
  <2>1. job \in Tickets
    BY <1>7 DEF Observe, TypeOK, ObservationTypeOK
  <2>2. job' # None /\ job'.generation = job.generation /\ job'.fetches = fetches
    BY <1>7, <2>1 DEF Observe, TypeOK, FlowTypeOK, Tickets
  <2> QED
    BY <1>7, <2>1, <2>2 DEF Observe, flow, workers, history, Evidence, At
<1>8. ASSUME Land PROVE Evidence'
  <2>1. job \in Tickets
    BY <1>8 DEF Land, TypeOK, ObservationTypeOK
  <2>2. job' # None => job'.generation = generation' /\ job'.outcome = None
    BY <1>8 DEF Land, Ticket
  <2>3. job.generation <= generation /\ generation \in Nat /\ job.generation \in Nat
    BY <2>1 DEF Evidence, TypeOK, ObservationTypeOK, Tickets
  <2>4. generation' = generation + 1 \/ job' = None
    BY <1>8 DEF Land
  <2>5. rerun => job' # None
    BY <1>8, TypeStep, ObservationTypeStep, <2>3 DEF Land, Ticket, Tickets
  <2>6. job'.generation <= generation' \/ job' = None
    BY <2>2, <2>3, <2>4
  <2>7. CASE At("waiting")'
    <3>1. At("waiting") /\ refresh' = refresh /\ ~Satisfies(refresh, job.generation)
      BY <1>8, <2>7 DEF Land, At, TypeOK, WorkersTypeOK, Refreshes
    <3>2. rerun
      BY <2>3, <3>1 DEF Satisfies, Evidence, TypeOK, WorkersTypeOK, Refreshes, At
    <3>3. refresh.after \in Nat /\ job.generation >= refresh.after
      BY <3>1 DEF Evidence, TypeOK, WorkersTypeOK, Refreshes, At
    <3>4. job' # None /\ job'.generation = generation + 1 /\ job'.outcome = None
      BY <2>2, <2>4, <2>5, <3>2
    <3>5. job'.generation > refresh.after
      BY <2>3, <3>3, <3>4
    <3>6. job'.generation >= refresh.after /\ job'.generation # refresh.after
      BY <2>3, <3>3, <3>4
    <3> QED
      BY <1>8, <2>6, <2>7, <3>1, <3>4, <3>5, <3>6 DEF Land, flow, history, Evidence, At
  <2>8. CASE At("landed")' \/ At("inspecting")' \/ At("inspected")'
    <3>1. snapshot'.fetches = fetches
      BY <1>8, <2>1, <2>8 DEF Land, Satisfies, Evidence, At, TypeOK,
         WorkersTypeOK, Refreshes
    <3>2. At("inspected")' => At("inspected") /\ refresh' = refresh
      BY <1>8 DEF Land, At, TypeOK, WorkersTypeOK, Refreshes
    <3> QED
      BY <1>8, <2>2, <2>6, <2>8, <3>1, <3>2 DEF Land, flow, history, Evidence, At
  <2> QED
    BY <1>8, <2>6, <2>7, <2>8 DEF Land, flow, history, Evidence, At
<1>9. ASSUME RunFetch PROVE Evidence'
  <2>1. hold = None /\ inspection = None /\ perform = None /\ refresh = None
    BY <1>9 DEF RunFetch, FetchStages, Control, TypeOK, FlowTypeOK
  <2> QED
    BY <1>9, <2>1 DEF RunFetch, observation, flow, Evidence, At
<1>10. ASSUME RecordFetch PROVE Evidence'
  <2>1. refresh = None
    BY <1>10 DEF RecordFetch, FetchStages, Control
  <2>2. job' # None => job'.generation <= generation'
    BY <1>10 DEF RecordFetch, ScheduleGit, Ticket, observation, Evidence, TypeOK,
       ObservationTypeOK
  <2> QED
    BY <1>10, <2>1, <2>2 DEF RecordFetch, history, Evidence, At
<1>11. ASSUME Inspect PROVE Evidence'
  <2>1. inspection \in Inspections
    BY <1>11 DEF Inspect, TypeOK, WorkersTypeOK
  <2>2. inspection'.stage = "done" => inspection'.fetches = fetches
    BY <1>11, <2>1 DEF Inspect, Inspections
  <2> QED
    BY <1>11, <2>2 DEF Inspect, observation, flow, history, Evidence, At
<1>12. ASSUME FinishInspection PROVE Evidence'
  <2>1. CASE inspection.stage = "done"
    <3>1. hold'.fetches = inspection.fetches
      BY <1>12, <2>1 DEF FinishInspection, ShowPreview
    <3> QED
      BY <1>12, <2>1, <3>1 DEF FinishInspection, observation, Evidence, At
  <2>2. CASE inspection.stage # "done"
    BY <1>12, <2>2 DEF FinishInspection, Release, observation, Evidence, At
  <2> QED
    BY <2>1, <2>2
<1>13. ASSUME NEW s \in asked, FetchRequested(s) PROVE Evidence'
  <2>1. CASE MayFetch(s)
    <3>1. hold'.busy
      BY <1>13, <2>1 DEF FetchRequested, MayFetch, TypeOK, FlowTypeOK, Previews
    <3>2. refresh'.stage = "fetching"
      BY <1>13, <2>1 DEF FetchRequested
    <3> QED
      BY <1>13, <3>1, <3>2 DEF FetchRequested, observation, history, Evidence, At
  <2>2. CASE ~MayFetch(s)
    BY <1>13, <2>2 DEF FetchRequested, observation, history, Evidence, At
  <2> QED
    BY <2>1, <2>2
<1>14. ASSUME RefreshFetch PROVE Evidence'
  <2>1. refresh \in Refreshes
    BY <1>14 DEF RefreshFetch, At, TypeOK, WorkersTypeOK
  <2>2. refresh'.stage = "fetched"
    BY <1>14, <2>1 DEF RefreshFetch, Refreshes
  <2>3. inspection = None /\ perform = None /\ (hold # None => hold.busy)
    BY <2>1 DEF Control
  <2> QED
    BY <1>14, <2>2, <2>3 DEF RefreshFetch, observation, flow, Evidence, At
<1>15. ASSUME RefreshObserve PROVE Evidence'
  <2>1. refresh \in Refreshes /\ refresh'.stage = "waiting"
    BY <1>15 DEF RefreshObserve, At, TypeOK, WorkersTypeOK, Refreshes
  <2>2. refresh'.after = IF job = None THEN 0 ELSE job.generation
    BY <1>15, <2>1 DEF RefreshObserve, Refreshes
  <2>3. CASE job = None
    <3>1. job' = Ticket(generation + 1) /\ generation' = generation + 1 /\ generation \in Nat
      BY <1>15, <2>3 DEF RefreshObserve, ScheduleGit, TypeOK, ObservationTypeOK
    <3>2. job' # None /\ job'.generation = generation + 1 /\ job'.outcome = None
      BY <3>1 DEF Ticket, Tickets
    <3> QED
      BY <1>15, <2>1, <2>2, <2>3, <3>1, <3>2 DEF RefreshObserve, ScheduleGit,
         flow, history, Evidence, At
  <2>4. CASE job # None
    <3>1. job' = job /\ generation' = generation /\ rerun' /\ job.generation \in Nat
      BY <1>15, <2>4 DEF RefreshObserve, ScheduleGit, TypeOK, ObservationTypeOK, Tickets
    <3> QED
      BY <1>15, <2>1, <2>2, <2>4, <3>1 DEF RefreshObserve, ScheduleGit, flow,
         history, Evidence, At
  <2> QED
    BY <2>3, <2>4
<1>16. ASSUME RefreshLanded PROVE Evidence'
  <2>1. refresh \in Refreshes
    BY <1>16 DEF RefreshLanded, At, TypeOK, WorkersTypeOK
  <2>2. refresh'.stage \in {"inspecting", "failed"}
    BY <1>16, <2>1 DEF RefreshLanded, Refreshes
  <2> QED
    BY <1>16, <2>1, <2>2 DEF RefreshLanded, observation, flow, history, Evidence, At
<1>17. ASSUME RefreshTimedOut PROVE Evidence'
  <2>1. refresh \in Refreshes
    BY <1>17 DEF RefreshTimedOut, At, TypeOK, WorkersTypeOK
  <2>2. refresh'.stage \in {"failed"}
    BY <1>17, <2>1 DEF RefreshTimedOut, Refreshes
  <2> QED
    BY <1>17, <2>1, <2>2 DEF RefreshTimedOut, observation, flow, history, Evidence, At
<1>18. ASSUME RefreshInspect PROVE Evidence'
  <2>1. refresh \in Refreshes
    BY <1>18 DEF RefreshInspect, At, TypeOK, WorkersTypeOK
  <2>2. \/ refresh'.stage = "inspected" /\ refresh'.fetches = fetches
        \/ refresh'.stage = "failed"
    BY <1>18, <2>1 DEF RefreshInspect, Refreshes
  <2> QED
    BY <1>18, <2>2 DEF RefreshInspect, observation, flow, history, Evidence, At
<1>19. ASSUME RefreshEnds PROVE Evidence'
  <2>1. refresh # None /\ (~At("failed") => At("inspected"))
    BY <1>19 DEF RefreshEnds, At
  <2>2. hold' # None /\ ~hold'.busy /\ hold'.valid =>
          \/ hold' = hold
          \/ At("inspected") /\ hold'.fetches = refresh.fetches
    BY <1>19, <2>1 DEF RefreshEnds, Holds, TypeOK, FlowTypeOK, Previews
  <2> QED
    BY <1>19, <2>1, <2>2 DEF RefreshEnds, observation, history, Evidence, At
<1>20. ASSUME Reinspect PROVE Evidence'
  <2>1. perform \in Performances
    BY <1>20, ReinspectType
  <2>2. perform'.stage = "changed" => perform'.fetches = fetches
    BY <1>20, <2>1 DEF Reinspect, Performances
  <2> QED
    BY <1>20, <2>2 DEF Reinspect, observation, flow, history, Evidence, At
<1>21. ASSUME Delete PROVE Evidence'
  <2>1. perform \in Performances /\ perform.stage = "deleting"
    BY <1>21, DeleteType DEF Delete, Performing
  <2>2. perform'.stage = "deleting"
    BY <1>21, <2>1 DEF Delete, Performances
  <2> QED
    BY <1>21, <2>2 DEF Delete, observation, flow, history, Evidence, At
<1>22. ASSUME FinishCleanup PROVE Evidence'
  <2>1. refresh = None /\ inspection = None
    BY <1>22 DEF FinishCleanup, Performing, Control
  <2>2. CASE Performing("changed")
    <3>1. hold'.fetches = perform.fetches
      BY <1>22, <2>2 DEF FinishCleanup, ShowPreview
    <3> QED
      BY <1>22, <2>1, <2>2, <3>1 DEF FinishCleanup, Performing, observation,
         Evidence, At
  <2>3. CASE ~Performing("changed")
    <3>1. job' # None => job'.generation <= generation'
      BY <1>22, <2>3 DEF FinishCleanup, ScheduleGit, Ticket, Evidence, TypeOK,
         ObservationTypeOK
    <3> QED
      BY <1>22, <2>1, <2>3, <3>1 DEF FinishCleanup, Release, Evidence, At
  <2> QED
    BY <2>2, <2>3
<1>23. ASSUME UNCHANGED <<job, rerun, generation, snapshot, hold, inspection, refresh, perform, fetches>> PROVE Evidence'
  BY <1>23 DEF Evidence, At
<1> QED
  BY <1>1, <1>2, <1>3, <1>4, <1>5, <1>6, <1>7, <1>8, <1>9, <1>10, <1>11, <1>12,
     <1>13, <1>14, <1>15, <1>16, <1>17, <1>18, <1>19, <1>20, <1>21, <1>22, <1>23 DEF
     Next, Elsewhere, Person, Work, Commit, Soil, Push, PushElsewhere, Merge,
     DeleteElsewhere, RemoveByHand, CheckOut, repository, observation, flow,
     workers, history, Beside, vars

-----------------------------------------------------------------------------
(* The theorems. *)
\* The inductive invariant.
Inv == TypeOK /\ Control /\ Reached /\ Kept /\ Attached /\ Evidence

\* The initial states satisfy the invariant.
LEMMA InitInv == Init => Inv
<1> SUFFICES ASSUME Init PROVE Inv
  OBVIOUS
<1>1. TypeOK
  <2>1. RepositoryTypeOK
    BY DEF Init, RepositoryTypeOK, Refs, Commits
  <2>2. ObservationTypeOK
    BY DEF Init, ObservationTypeOK
  <2>3. FlowTypeOK /\ WorkersTypeOK
    BY DEF Init, FlowTypeOK, WorkersTypeOK
  <2> QED
    BY <2>1, <2>2, <2>3 DEF TypeOK
<1>2. Control /\ Attached /\ Evidence
  BY DEF Init, Control, Attached, NoDanglingHead, Evidence, At
<1>3. Reached /\ Kept
  BY DEF Init, Reached, NoWorkLost, Kept
<1> QED
  BY <1>1, <1>2, <1>3 DEF Inv

\* The invariant holds of every behaviour.
LEMMA Invariance == Spec => []Inv
<1>1. Inv /\ [Next]_vars => Inv'
  BY TypeStep, ControlStep, ReachedStep, KeptStep, AttachedStep, EvidenceStep DEF Inv
<1> QED
  BY InitInv, <1>1, PTL DEF Spec

\* Every hold, preview, worker and ref of a Project at its type (CleanupFlow,
\* RemoteFetchFlow, perform_cleanup): a held preview has its Project reserved.
THEOREM CleanupTypeCorrect == Spec => []TypeOK
<1>1. Inv => TypeOK
  BY DEF Inv
<1> QED
  BY Invariance, <1>1, PTL

\* No commit is ever lost to a Cleanup (perform_cleanup, _delete_local_branch,
\* _delete_remote_branch), for any number of commits and of changes beside it.
THEOREM WorkIsKept == Spec => []NoWorkLost
<1>1. Inv => NoWorkLost
  BY DEF Inv, Reached
<1> QED
  BY Invariance, <1>1, PTL

\* A Cleanup never takes the Branch from under a Worktree that stays
\* (perform_cleanup's order, and its halt at the first refusal).
THEOREM HeadIsKept == Spec => []NoDanglingHead
<1>1. Inv => NoDanglingHead
  BY DEF Inv, Attached
<1> QED
  BY Invariance, <1>1, PTL

\* A Project has one mutation at a time (RemoteFetchFlow.fetching and
\* CleanupFlow.cleaning exclude each other, save inside one preview).
THEOREM MutationsExclude == Spec => []OneMutation
<1>1. Inv => OneMutation
  BY DEF Inv, Control, OneMutation, Confirmable, Fetching, At, TypeOK, FlowTypeOK,
     FetchStages
<1> QED
  BY Invariance, <1>1, PTL

\* What can be confirmed was inspected after every fetch that ended
\* (fetch_preview, observe_fetch, finish_observation).
THEOREM EvidenceIsCurrent == Spec => []EvidenceFollowsFetch
<1>1. Inv => EvidenceFollowsFetch
  BY DEF Inv, Evidence, EvidenceFollowsFetch, Confirmable, TypeOK, FlowTypeOK
<1> QED
  BY Invariance, <1>1, PTL

=============================================================================
