----------------------------- MODULE CleanupFlow -----------------------------
(***************************************************************************)
(* The flows of ui/cleanup_flow.py and ui/fetch_flow.py at one Project, the*)
(* Cleanup they perform (repository/cleanup) and the Git Repository that   *)
(* agents and other people change meanwhile.  A person fetches, or opens   *)
(* the preview of a Cleanup, may fetch inside it, and confirms or cancels; *)
(* handlers run one at a time, their work beside them.                     *)
(*                                                                         *)
(* The Repository has one Branch, at one remote, with at most one Worktree.*)
(* A ref is the set of the commits it reaches, empty when there is none.   *)
(* An inspection reads the Repository in one step.                         *)
(***************************************************************************)
EXTENDS Naturals, FiniteSets

CONSTANTS Kinds,       \* what may be cleaned up: "branch", "worktree"
          MaxCommits,  \* bound: commits made
          MaxChanges,  \* bound: changes made beside the dashboard
          MaxOpened,   \* bound: Cleanups requested
          MaxAsked,    \* bound: Remote Fetches and timer observations asked for
          None

VARIABLES
    local, tree,         \* the Branch here; the Worktree that has it checked out
    tracking, upstream,  \* the Branch and the Integration Branch: as fetched, there
    made, changes,       \* commits ever made; changes made so far
    dropped,             \* history: commits someone chose to let go of
    job, rerun,          \* the Git observation in flight; its queued rerun
    generation, snapshot,
    cleaning, fetching,  \* the Project's holds
    hold, open,          \* the preview held; it is on the screen
    asked,               \* screens whose fetch request is posted
    inspection, fetch,   \* the workers of x and of f
    refresh,             \* the coroutine fetching inside a preview
    perform,             \* the worker performing a confirmed Cleanup
    fetches, opened      \* history: fetches ended, screens opened; asks so far

repository == <<local, tree, tracking, upstream, made, changes, dropped>>
observation == <<job, rerun, generation, snapshot>>
flow == <<cleaning, fetching, hold, open, asked>>
workers == <<inspection, fetch, refresh, perform>>
history == <<fetches, opened>>
vars == <<repository, observation, flow, workers, history>>

Targets == {"remote", "worktree", "local"}
Commits == 0 .. MaxCommits
\* The Integration Branch reaches some commits and holds the content of more:
\* of those that were squashed into it.
Refs == [branch : SUBSET Commits, main : SUBSET Commits, held : SUBSET Commits]

-----------------------------------------------------------------------------
(* What an inspection finds of each target: what it reaches, what of it    *)
(* the Integration Branch does not, whether that holds its content all the *)
(* same, and whether something else blocks it.                             *)
Dirty == tree = "dirty"

Present(kind) ==
    {t \in Targets : CASE t = "remote" -> tracking.branch # {}
                       [] t = "local" -> local # {}
                       [] t = "worktree" -> kind = "worktree"}

Facts(kind) ==
    [t \in Present(kind) |->
       LET at == IF t = "remote" THEN tracking.branch ELSE local
       IN [at |-> at,
           unintegrated |-> IF t = "worktree" THEN {} ELSE at \ tracking.main,
           content |-> t = "worktree" \/ at \subseteq tracking.held,
           blocked |-> IF kind = "worktree" THEN Dirty
                       ELSE t = "local" /\ tree # "absent"]]

\* integration_state(): "integrated" or, by content alone, "content-integrated".
Available(facts) ==
    {t \in DOMAIN facts : (facts[t].unintegrated = {} \/ facts[t].content) /\ ~facts[t].blocked}

\* A Worktree Git does not list is an error, never a preview.
CanInspect(kind) == kind = "worktree" => tree # "absent"

FactSets == UNION {[S -> [at : SUBSET Commits, unintegrated : SUBSET Commits,
                          content : BOOLEAN, blocked : BOOLEAN]] : S \in SUBSET Targets}

\* The selection a preview lets a person confirm: its subject and any of the
\* other targets; a Branch goes with its Worktree.
Selections(kind, facts) ==
    {S \in (SUBSET Available(facts)) \ {{}} :
       CASE kind = "worktree" -> "worktree" \in S
         [] kind = "branch" -> "local" \in Available(facts) => "local" \in S}

\* What a selection's consequences say: the last named ref to these goes.
Disclosed(facts, selected) == UNION {facts[t].unintegrated : t \in selected}

\* The fixed order of a Cleanup's deletions.
First(left) == IF "remote" \in left THEN "remote"
               ELSE IF "worktree" \in left THEN "worktree" ELSE "local"

-----------------------------------------------------------------------------
FetchStages == {"running", "fetched", "failed"}
Tickets == [generation : Nat, fetches : Nat, outcome : {None, "fresh", "stale", "raised"}]
Previews == [screen : Nat, facts : FactSets, fetches : Nat, busy : BOOLEAN, valid : BOOLEAN]
Inspections == [facts : FactSets \cup {None}, fetches : Nat,
                stage : {"running", "done", "failed"}]
Refreshes == [screen : Nat, facts : FactSets \cup {None}, fetches : Nat, after : Nat,
              stage : {"fetching", "fetched", "waiting", "landed", "inspecting",
                       "inspected", "failed"}]
Performances == [facts : FactSets, fetches : Nat, left : SUBSET Targets,
                 stage : {"confirmed", "deleting", "changed", "raised"}]

ASSUME BoundsAssumption ==
    /\ Kinds \subseteq {"branch", "worktree"}
    /\ {MaxCommits, MaxChanges, MaxOpened, MaxAsked} \subseteq Nat
ASSUME NoneAssumption ==
    /\ None \notin Kinds \cup FetchStages \cup {"fresh", "stale", "raised"}
    /\ None \notin Tickets /\ None \notin Previews /\ None \notin Inspections
    /\ None \notin Refreshes /\ None \notin Performances

RepositoryTypeOK ==
    /\ local \subseteq Commits /\ made \subseteq Commits /\ dropped \subseteq Commits
    /\ changes \in Nat
    /\ tree \in {"absent", "clean", "dirty"}
    /\ tracking \in Refs /\ upstream \in Refs

ObservationTypeOK ==
    /\ job \in Tickets \cup {None} /\ rerun \in BOOLEAN /\ generation \in Nat
    /\ snapshot \in [status : {"fresh", "stale"}, fetches : Nat]

FlowTypeOK ==
    /\ cleaning \in Kinds \cup {None} /\ fetching \in BOOLEAN /\ open \in BOOLEAN
    /\ hold \in Previews \cup {None} /\ asked \subseteq Nat
    /\ fetches \in Nat /\ opened \in [screens : Nat, cleanups : Nat, asked : Nat]
    /\ (hold # None => cleaning # None) /\ (open => hold # None)

WorkersTypeOK ==
    /\ inspection \in Inspections \cup {None} /\ fetch \in FetchStages \cup {None}
    /\ refresh \in Refreshes \cup {None} /\ perform \in Performances \cup {None}
    /\ inspection # None /\ inspection.stage = "done" => inspection.facts \in FactSets
    /\ refresh # None /\ refresh.stage = "inspected" => refresh.facts \in FactSets

TypeOK == RepositoryTypeOK /\ ObservationTypeOK /\ FlowTypeOK /\ WorkersTypeOK

Init ==
    /\ local = {0} /\ tree \in {"absent", "clean"}
    /\ tracking = [branch |-> {0}, main |-> {0}, held |-> {0}] /\ upstream = tracking
    /\ made = {0} /\ dropped = {} /\ changes = 0
    /\ job = None /\ rerun = FALSE /\ generation = 1
    /\ snapshot = [status |-> "fresh", fetches |-> 0]
    /\ cleaning = None /\ fetching = FALSE /\ hold = None /\ open = FALSE
    /\ asked = {}
    /\ inspection = None /\ fetch = None /\ refresh = None /\ perform = None
    /\ fetches = 0 /\ opened = [screens |-> 0, cleanups |-> 0, asked |-> 0]

-----------------------------------------------------------------------------
(* Beside the dashboard: agents in the Worktree, people at the remote.     *)
Beside ==
    /\ changes < MaxChanges /\ changes' = changes + 1
    /\ UNCHANGED <<observation, flow, workers, history>>

New == Cardinality(made)

\* An agent commits, or leaves work uncommitted.
Commit ==
    /\ Beside
    /\ tree # "absent" /\ New <= MaxCommits
    /\ local' = local \cup {New} /\ made' = made \cup {New} /\ tree' = "clean"
    /\ UNCHANGED <<tracking, upstream, dropped>>

Soil ==
    /\ Beside
    /\ tree = "clean" /\ tree' = "dirty"
    /\ UNCHANGED <<local, tracking, upstream, made, dropped>>

Push ==
    /\ Beside
    /\ local # {} /\ upstream.branch \subseteq local
    /\ upstream' = [upstream EXCEPT !.branch = local]
    /\ tracking' = [tracking EXCEPT !.branch = local]
    /\ UNCHANGED <<local, tree, made, dropped>>

\* At the remote: another's push, a merge, the merged Branch deleted.
PushElsewhere ==
    /\ Beside
    /\ upstream.branch # {} /\ New <= MaxCommits
    /\ upstream' = [upstream EXCEPT !.branch = @ \cup {New}]
    /\ made' = made \cup {New}
    /\ UNCHANGED <<local, tree, tracking, dropped>>

\* A merge reaches the Branch's commits, a squash only takes their content.
Merge ==
    /\ Beside
    /\ ~(upstream.branch \subseteq upstream.main)
    /\ \E main \in {upstream.main, upstream.main \cup upstream.branch} :
         upstream' = [upstream EXCEPT !.main = main, !.held = @ \cup upstream.branch]
    /\ UNCHANGED <<local, tree, tracking, made, dropped>>

DeleteElsewhere ==
    /\ Beside
    /\ upstream.branch # {} /\ upstream.branch \subseteq upstream.held
    /\ upstream' = [upstream EXCEPT !.branch = {}]
    /\ dropped' = dropped \cup upstream.branch
    /\ UNCHANGED <<local, tree, tracking, made>>

\* By hand: the Worktree is removed, its merged Branch deleted, or the Branch
\* checked out again.  Nobody does so in the instants of a Cleanup's deletions,
\* after its own look for Worktrees: update-ref would not see it (ADR 0019).
RemoveByHand ==
    /\ Beside
    /\ \/ tree = "clean" /\ tree' = "absent" /\ UNCHANGED <<local, dropped>>
       \/ tree = "absent" /\ local # {} /\ local \subseteq upstream.held
            /\ local' = {} /\ dropped' = dropped \cup local /\ UNCHANGED tree
    /\ UNCHANGED <<tracking, upstream, made>>

CheckOut ==
    /\ Beside
    /\ tree = "absent" /\ local # {}
    /\ perform # None => perform.stage # "deleting"
    /\ tree' = "clean"
    /\ UNCHANGED <<local, tracking, upstream, made, dropped>>

-----------------------------------------------------------------------------
(* The Project's Git key, as the observation runner schedules it: at most  *)
(* one observation in flight, a request meanwhile queued as one rerun.     *)
Ticket(g) == [generation |-> g, fetches |-> 0, outcome |-> None]

ScheduleGit ==
    /\ job' = IF job = None THEN Ticket(generation + 1) ELSE job
    /\ generation' = IF job = None THEN generation + 1 ELSE generation
    /\ rerun' = (job # None)
    /\ UNCHANGED snapshot

Tick ==
    /\ job = None /\ opened.asked < MaxAsked
    /\ opened' = [opened EXCEPT !.asked = @ + 1]
    /\ ScheduleGit
    /\ UNCHANGED <<repository, flow, workers, fetches>>

Observe ==
    /\ job # None /\ job.outcome = None
    /\ \E outcome \in {"fresh", "stale", "raised"} :
         job' = [job EXCEPT !.fetches = fetches, !.outcome = outcome]
    /\ UNCHANGED <<repository, rerun, generation, snapshot, flow, workers, history>>

\* Mutant: the landing of the observation that was in flight satisfies it.
SatisfiesInFlight(wait, g) == g >= wait.after

\* finish_observation(): only an observation requested after the fetch counts.
Satisfies(wait, g) == g > wait.after

\* finish(): publish, tell the refresh that waits, then run the queued rerun.
Land ==
    /\ job # None /\ job.outcome # None
    /\ snapshot' = IF job.outcome = "raised" THEN snapshot
                   ELSE [status |-> job.outcome, fetches |-> job.fetches]
    /\ refresh' = IF refresh # None /\ refresh.stage = "waiting" /\ Satisfies(refresh, job.generation)
                  THEN [refresh EXCEPT !.stage = IF job.outcome = "raised" THEN "failed" ELSE "landed"]
                  ELSE refresh
    /\ job' = IF rerun THEN Ticket(generation + 1) ELSE None
    /\ generation' = IF rerun THEN generation + 1 ELSE generation
    /\ rerun' = FALSE
    /\ UNCHANGED <<repository, flow, inspection, fetch, perform, history>>

-----------------------------------------------------------------------------
(* git fetch --prune: the refs there, or a failure that fetched nothing or *)
(* was only not heard of.                                                  *)
GitFetch(ok) ==
    /\ tracking' \in {upstream} \cup IF ok THEN {} ELSE {tracking}
    /\ fetches' = fetches + 1
    /\ UNCHANGED <<local, tree, upstream, made, changes, dropped>>

\* RemoteFetchFlow.request()
PressFetch ==
    /\ cleaning = None /\ ~fetching /\ opened.asked < MaxAsked
    /\ opened' = [opened EXCEPT !.asked = @ + 1]
    /\ fetching' = TRUE /\ fetch' = "running"
    /\ UNCHANGED <<repository, observation, cleaning, hold, open, asked,
                   inspection, refresh, perform, fetches>>

RunFetch ==
    /\ fetch = "running"
    /\ \E ok \in BOOLEAN : GitFetch(ok) /\ fetch' = IF ok THEN "fetched" ELSE "failed"
    /\ UNCHANGED <<observation, flow, inspection, refresh, perform, opened>>

\* record(): let the Project go and observe what a successful fetch changed.
RecordFetch ==
    /\ fetch \in {"fetched", "failed"}
    /\ fetching' = FALSE /\ fetch' = None
    /\ IF fetch = "fetched" THEN ScheduleGit ELSE UNCHANGED observation
    /\ UNCHANGED <<repository, cleaning, hold, open, asked, inspection, refresh,
                   perform, history>>

-----------------------------------------------------------------------------
(* CleanupFlow: a preview. *)

\* Mutant: only the reservation goes, and the preview stays held.
ReleaseReservation == cleaning' = None /\ UNCHANGED hold

Release == cleaning' = None /\ hold' = None

\* request(): refused for a Project being fetched or already in a Cleanup.
PressCleanup(kind) ==
    /\ cleaning = None /\ ~fetching /\ opened.cleanups < MaxOpened
    /\ opened' = [opened EXCEPT !.cleanups = @ + 1]
    /\ cleaning' = kind /\ inspection' = [facts |-> None, fetches |-> 0, stage |-> "running"]
    /\ UNCHANGED <<repository, observation, fetching, hold, open, asked, fetch,
                   refresh, perform, fetches>>

Inspect ==
    /\ inspection # None /\ inspection.stage = "running"
    /\ \/ /\ CanInspect(cleaning)
          /\ inspection' = [facts |-> Facts(cleaning), fetches |-> fetches, stage |-> "done"]
       \/ inspection' = [inspection EXCEPT !.stage = "failed"]
    /\ UNCHANGED <<repository, observation, flow, fetch, refresh, perform, history>>

\* show_preview(): a new screen; a revised preview keeps its Project held.
ShowPreview(facts, at) ==
    /\ opened' = [opened EXCEPT !.screens = @ + 1]
    /\ hold' = [screen |-> opened.screens + 1, facts |-> facts, fetches |-> at,
                busy |-> FALSE, valid |-> TRUE]
    /\ open' = TRUE
    /\ UNCHANGED cleaning

FinishInspection ==
    /\ inspection # None /\ inspection.stage # "running"
    /\ inspection' = None
    /\ IF inspection.stage = "done" THEN ShowPreview(inspection.facts, inspection.fetches)
       ELSE Release /\ UNCHANGED <<open, opened>>
    /\ UNCHANGED <<repository, observation, fetching, asked, fetch, refresh, perform, fetches>>

Cancel ==
    /\ open /\ open' = FALSE
    /\ Release
    /\ UNCHANGED <<repository, observation, fetching, asked, workers, history>>

\* action_confirm() and confirm(): what is selected, of what is shown.
Confirm ==
    /\ open /\ ~hold.busy /\ hold.valid
    /\ \E selected \in Selections(cleaning, hold.facts) :
         /\ open' = FALSE
         /\ IF fetching THEN Release /\ UNCHANGED perform
            ELSE /\ perform' = [stage |-> "confirmed", facts |-> hold.facts, fetches |-> 0,
                                left |-> selected]
                 /\ UNCHANGED <<cleaning, hold>>
         /\ dropped' = IF fetching THEN dropped ELSE dropped \cup Disclosed(hold.facts, selected)
    /\ UNCHANGED <<local, tree, tracking, upstream, made, changes, observation, fetching,
                   asked, inspection, fetch, refresh, history>>

-----------------------------------------------------------------------------
(* A Remote Fetch inside the open preview. *)
PressFetchInside ==
    /\ open /\ ~hold.busy /\ opened.asked < MaxAsked
    /\ opened' = [opened EXCEPT !.asked = @ + 1]
    /\ asked' = asked \cup {hold.screen}
    /\ UNCHANGED <<repository, observation, cleaning, fetching, hold, open, workers, fetches>>

\* Mutant: the screen is still held, whether or not it is still shown.
MayFetchHeld(s) == hold # None /\ hold.screen = s /\ ~hold.busy /\ ~fetching

\* fetch_requested(): for the preview still held, shown and idle, only.
MayFetch(s) == hold # None /\ hold.screen = s /\ open /\ ~hold.busy /\ ~fetching

FetchRequested(s) ==
    /\ s \in asked /\ asked' = asked \ {s}
    /\ IF MayFetch(s)
       THEN /\ hold' = [hold EXCEPT !.busy = TRUE]
            /\ fetching' = TRUE
            /\ refresh' = [screen |-> s, stage |-> "fetching", after |-> 0,
                           facts |-> None, fetches |-> 0]
       ELSE UNCHANGED <<hold, fetching, refresh>>
    /\ UNCHANGED <<repository, observation, cleaning, open, inspection, fetch, perform, history>>

At(stage) == refresh # None /\ refresh.stage = stage

\* fetch_preview(): whatever the fetch came to, its refs are observed again.
RefreshFetch ==
    /\ At("fetching")
    /\ \E ok \in BOOLEAN : GitFetch(ok)
    /\ refresh' = [refresh EXCEPT !.stage = "fetched"]
    /\ UNCHANGED <<observation, flow, inspection, fetch, perform, opened>>

\* observe_fetch(): wait for an observation later than the one in flight.
RefreshObserve ==
    /\ At("fetched")
    /\ refresh' = [refresh EXCEPT !.stage = "waiting",
                                  !.after = IF job = None THEN 0 ELSE job.generation]
    /\ ScheduleGit
    /\ UNCHANGED <<repository, flow, inspection, fetch, perform, history>>

Holds(s) == hold # None /\ hold.screen = s

\* It landed fresh and the preview is still held: inspect; else there is none.
RefreshLanded ==
    /\ At("landed")
    /\ refresh' = [refresh EXCEPT
                     !.stage = IF snapshot.status = "fresh" /\ Holds(refresh.screen)
                               THEN "inspecting" ELSE "failed"]
    /\ UNCHANGED <<repository, observation, flow, inspection, fetch, perform, history>>

RefreshTimedOut ==
    /\ At("waiting")
    /\ refresh' = [refresh EXCEPT !.stage = "failed"]
    /\ UNCHANGED <<repository, observation, flow, inspection, fetch, perform, history>>

RefreshInspect ==
    /\ At("inspecting")
    /\ \/ /\ cleaning # None /\ CanInspect(cleaning)
          /\ refresh' = [refresh EXCEPT !.stage = "inspected", !.facts = Facts(cleaning),
                                        !.fetches = fetches]
       \/ refresh' = [refresh EXCEPT !.stage = "failed"]
    /\ UNCHANGED <<repository, observation, flow, inspection, fetch, perform, history>>

\* Mutant: the Project is let go only with its preview still there.
LetGoShown == fetching' = ~(Holds(refresh.screen) /\ open)

LetGo == fetching' = FALSE

\* finish_fetch() for the preview still there; the fetch's hold ends either way.
RefreshEnds ==
    /\ At("inspected") \/ At("failed")
    /\ hold' = IF ~(Holds(refresh.screen) /\ open) THEN hold
               ELSE IF At("failed") THEN [hold EXCEPT !.busy = FALSE, !.valid = FALSE]
               ELSE [hold EXCEPT !.busy = FALSE, !.valid = TRUE, !.facts = refresh.facts,
                                 !.fetches = refresh.fetches]
    /\ LetGo
    /\ refresh' = None
    /\ UNCHANGED <<repository, observation, cleaning, open, asked, inspection, fetch,
                   perform, history>>

-----------------------------------------------------------------------------
(* perform_cleanup(): inspect again, and do nothing if anything changed.   *)
Performing(stage) == perform # None /\ perform.stage = stage

Reinspect ==
    /\ Performing("confirmed")
    /\ \/ /\ CanInspect(cleaning)
          /\ perform' = IF Facts(cleaning) = perform.facts THEN [perform EXCEPT !.stage = "deleting"]
                        ELSE [perform EXCEPT !.stage = "changed", !.facts = Facts(cleaning),
                                             !.fetches = fetches]
       \/ perform' = [perform EXCEPT !.stage = "raised"]
    /\ UNCHANGED <<repository, observation, flow, inspection, fetch, refresh, history>>

\* Mutant: git branch -D in place of update-ref -d with the previewed commit.
StandsAny(t) ==
    CASE t = "remote" -> upstream.branch = perform.facts[t].at
      [] t = "worktree" -> tree = "clean"
      [] t = "local" -> local # {}

\* What Git checks as it deletes: the lease, no dirt, the previewed commit.
Stands(t) ==
    CASE t = "remote" -> upstream.branch = perform.facts[t].at
      [] t = "worktree" -> tree = "clean"
      [] t = "local" -> local = perform.facts[t].at

Gone(t) ==
    CASE t = "remote" -> upstream.branch = {}
      [] t = "worktree" -> tree = "absent"
      [] t = "local" -> local = {}

GitDelete(t) ==
    /\ local' = IF t = "local" THEN {} ELSE local
    /\ tree' = IF t = "worktree" THEN "absent" ELSE tree
    /\ upstream' = IF t = "remote" THEN [upstream EXCEPT !.branch = {}] ELSE upstream
    /\ tracking' = IF t = "remote" THEN [tracking EXCEPT !.branch = {}] ELSE tracking

\* Mutant: a refused target is reported and the rest attempted.
HaltedNever(left) == left \ {First(left)}

\* A refused or unknown outcome ends it: the rest are not attempted.
Halted(left) == {}

\* Deleted, already absent, refused, or unknown: done or not.
Delete ==
    /\ Performing("deleting") /\ perform.left # {}
    /\ LET t == First(perform.left)  rest == perform.left \ {t}
       IN \/ /\ Stands(t) /\ ~Gone(t)
             /\ GitDelete(t)
             /\ \E left \in {rest, Halted(perform.left)} : perform' = [perform EXCEPT !.left = left]
          \/ /\ perform' = [perform EXCEPT !.left = IF Gone(t) THEN rest ELSE Halted(@)]
             /\ UNCHANGED <<local, tree, tracking, upstream>>
    /\ UNCHANGED <<made, changes, dropped, observation, flow, inspection, fetch, refresh, history>>

\* finish_cleanup(): the revised preview, or let the Project go and observe it.
FinishCleanup ==
    /\ Performing("changed") \/ Performing("raised")
         \/ (Performing("deleting") /\ perform.left = {})
    /\ perform' = None
    /\ IF Performing("changed")
       THEN ShowPreview(perform.facts, perform.fetches) /\ UNCHANGED observation
       ELSE Release /\ ScheduleGit /\ UNCHANGED <<open, opened>>
    /\ UNCHANGED <<repository, fetching, asked, inspection, fetch, refresh, fetches>>

-----------------------------------------------------------------------------
Elsewhere ==
    \/ Commit \/ Soil \/ Push \/ PushElsewhere \/ Merge \/ DeleteElsewhere
    \/ RemoveByHand \/ CheckOut

Person ==
    \/ PressFetch \/ PressFetchInside \/ Cancel \/ Confirm
    \/ \E kind \in Kinds : PressCleanup(kind)

Work ==
    \/ Observe \/ Land \/ RunFetch \/ RecordFetch \/ Inspect \/ FinishInspection
    \/ \E s \in asked : FetchRequested(s)
    \/ RefreshFetch \/ RefreshObserve \/ RefreshLanded \/ RefreshTimedOut
    \/ RefreshInspect \/ RefreshEnds
    \/ Reinspect \/ Delete \/ FinishCleanup

Next == Elsewhere \/ Person \/ Tick \/ Work

Spec == Init /\ [][Next]_vars

\* Commands have a deadline, and the event loop handles what is posted.
FairSpec == Spec /\ WF_vars(Work)

-----------------------------------------------------------------------------
Confirmable == open /\ ~hold.busy /\ hold.valid
Fetching == fetch = "running" \/ At("fetching")

\* No work is ever lost to a Cleanup, whatever agents and other people did while
\* its preview was open: each commit is still reached by the Branch here or at the
\* remote, or by the Integration Branch; or else that holds its content, as after
\* a squash, and whoever deleted the last ref to it chose so, a Cleanup only where
\* the confirmed preview had said that this commit goes.
NoWorkLost ==
    made \subseteq local \cup upstream.branch \cup upstream.main
                    \cup (upstream.held \cap dropped)

\* A Cleanup never takes the Branch from under a Worktree that stays: not when
\* Git refuses the removal, nor when the outcome of one is unknown.
NoDanglingHead == tree # "absent" => local # {}

\* One mutation at a time: a Remote Fetch never runs beside another, nor while
\* a Cleanup is being performed or a preview can be confirmed, however the
\* presses of f, x, Enter and Escape interleave with what they started.
OneMutation ==
    /\ ~(fetch # None /\ refresh # None)
    /\ Fetching => perform = None /\ ~Confirmable

\* What a person can confirm was inspected after every fetch that ended, and
\* inside a preview only once an observation that began after the fetch was
\* published: one already in flight cannot satisfy the wait (ADR 0036).
EvidenceFollowsFetch ==
    /\ Confirmable => hold.fetches = fetches
    /\ At("inspecting") \/ At("inspected") => snapshot.fetches = fetches

\* A Project is always let go: a fetch's hold ends, whatever became of its
\* preview, and a Cleanup's ends unless a preview waits for the person.
ProjectLetGo ==
    /\ fetching ~> ~fetching
    /\ (cleaning # None /\ ~open) ~> (cleaning = None \/ open)
=============================================================================
