------------------------- MODULE ObservationRunner -------------------------
(***************************************************************************)
(* ui/observation_runner.py: the dashboard's scheduling of the coordinator *)
(* on its event loop.  A key is observed at most once at a time; a request *)
(* for a key in flight coalesces onto it and, unless a timer asked, queues *)
(* one rerun for when it lands.  Handlers run one at a time, workers beside*)
(* them; a worker posts its outcome and messages land in any order.        *)
(***************************************************************************)
EXTENDS ObservationCoordinator

CONSTANT MaxAsks   \* bound: refreshes asked for

VARIABLES
    inFlight,   \* the ticket of each key in flight, 0 for none
    rerun,      \* the trigger of each key's queued rerun, or None
    trigger,    \* what each key's running ticket was requested for
    errors,     \* keys whose last landed observation failed
    inbox,      \* outcomes posted and not handled
    indicator,  \* the delay timer is running; the indicator is shown
    asks,       \* refreshes asked for so far
    asked       \* history: keys asked for and not observed since

runnerVars == <<inFlight, rerun, trigger, errors, inbox, indicator, asks, asked>>
allVars == <<vars, runnerVars>>

\* "manual" stands for every trigger that does not coalesce.
Triggers == {"timer", "manual"}
ASSUME RunnerAssumption == MaxAsks \in Nat /\ None \notin Triggers

Outcomes == {"accepted", "discarded", "raised"}
Messages == [key : Keys, generation : Nat, outcome : Outcomes]

InFlight == {k \in Keys : inFlight[k] # 0}

RunnerInit ==
    /\ Init
    /\ inFlight = [k \in Keys |-> 0]
    /\ rerun = [k \in Keys |-> None]
    /\ trigger = [k \in Keys |-> None]
    /\ errors = {} /\ inbox = {}
    /\ indicator = [timer |-> FALSE, visible |-> FALSE]
    /\ asks = 0 /\ asked = {}

-----------------------------------------------------------------------------
(* A handler folds its effects over a plan: what is in flight, the reruns, *)
(* the tickets it requests with their trigger, and the indicator.          *)
Plan == [busy |-> InFlight, rerun |-> rerun, wanted |-> {}, trigger |-> trigger,
         timer |-> indicator.timer, visible |-> indicator.visible]

\* Mutant: a request for a key in flight only coalesces.
ScheduledCoalescing(plan, K, why, rerunInFlight) ==
    [plan EXCEPT !.busy = @ \cup K,
                 !.wanted = @ \cup (K \ plan.busy),
                 !.trigger = [k \in Keys |-> IF k \in K \ plan.busy THEN why ELSE @[k]],
                 !.timer = @ \/ plan.busy \cup K # {}]

\* _schedule: request the keys not in flight, queue a rerun of the others.
Scheduled(plan, K, why, rerunInFlight) ==
    LET coalesced == IF rerunInFlight THEN K \cap plan.busy ELSE {}
    IN [plan EXCEPT
          !.busy = @ \cup K,
          !.wanted = @ \cup (K \ plan.busy),
          !.trigger = [k \in Keys |-> IF k \in K \ plan.busy THEN why ELSE @[k]],
          !.rerun = [k \in Keys |-> IF k \in coalesced THEN why ELSE @[k]],
          !.visible = @ \/ coalesced # {},
          !.timer = @ \/ plan.busy \cup K # {}]

\* _release: reopen the key; hide the indicator with nothing left to wait for.
Released(plan, k, g) ==
    LET busy == IF inFlight[k] = g THEN plan.busy \ {k} ELSE plan.busy
        more == busy # {} \/ \E l \in Keys : plan.rerun[l] # None
    IN [plan EXCEPT !.busy = busy, !.timer = @ /\ more, !.visible = @ /\ more]

\* Mutants: the rerun forgets its trigger; it stays queued.
RerunUntriggered(plan, k) ==
    IF plan.rerun[k] = None THEN plan
    ELSE Scheduled([plan EXCEPT !.rerun[k] = None], {k}, None, TRUE)
RerunNever(plan, k) == plan

\* _rerun: take the key's queued rerun and schedule it as a request would be.
Rerun(plan, k) ==
    IF plan.rerun[k] = None THEN plan
    ELSE Scheduled([plan EXCEPT !.rerun[k] = None], {k}, plan.rerun[k],
                   plan.rerun[k] # "timer")

\* The handler's plan becomes the runner's state, and its tickets are requested.
Carry(plan) ==
    /\ Requested(plan.wanted)
    /\ inFlight' = [k \in Keys |-> IF k \in plan.wanted THEN generation[k] + 1
                                   ELSE IF k \in plan.busy THEN inFlight[k] ELSE 0]
    /\ rerun' = plan.rerun /\ trigger' = plan.trigger
    /\ indicator' = [timer |-> plan.timer, visible |-> plan.visible]

-----------------------------------------------------------------------------
\* refresh(): every key, by the timer or a person; or a Project's Git keys,
\* after a Remote Fetch or Cleanup changed its Repository.
Ask(K, why) ==
    /\ asks < MaxAsks /\ asks' = asks + 1
    /\ Carry(Scheduled(Plan, K, why, why # "timer"))
    /\ asked' = IF why = "timer" THEN asked \cup (K \ InFlight) ELSE asked \cup K
    /\ UNCHANGED <<sourceVars, work, acceptVars, store, errors, inbox>>

GitKeys(p) == {<<p, "targets">>}

\* show_refreshing: the indicator's delay has passed.
ShowRefreshing ==
    /\ indicator.timer
    /\ indicator' = [timer |-> FALSE, visible |-> indicator.visible \/ InFlight # {}]
    /\ UNCHANGED <<vars, inFlight, rerun, trigger, errors, inbox, asks, asked>>

\* _store_change's view of a Project: what observing and binding Agent Runs use.
Projection(c) ==
    IF c = None \/ ~c.snapshot THEN <<c>>
    ELSE <<[x \in Parts \ {"pull-requests"} |-> c.halves[x].version],
           IF "issues" \in Parts THEN c.halves["issues"].status ELSE None>>

\* Mutant: only a Project the store did not have is followed up.
FollowUpsFirst ==
    IF \E p \in pending : store.projects[p] = None THEN {AgentRuns} ELSE {}

\* follow_ups: the Agent Runs, when publishing changed what they are bound to.
FollowUps ==
    IF \E p \in pending : Projection(store.projects[p]) # Projection(composed[p])
    THEN {AgentRuns} ELSE {}

\* finish: release, accept -- which publishes and schedules the follow-ups
\* -- then run the key's rerun, whatever presenting the acceptance did.
FinishAccepted(m) ==
    /\ m.outcome = "accepted"
    /\ Published
    /\ errors' = errors \ {m.key}
    /\ \E open \in {Released(Plan, m.key, m.generation)} :
         \E followed \in {Scheduled(open, FollowUps, trigger[m.key], TRUE)} :
            \E plan \in {Rerun(followed, m.key)} : Carry(plan)
    /\ asked' = asked \cup FollowUps

\* A failure is recorded unless a newer ticket superseded it; a result
\* that was not accepted is dropped.
FinishOther(m) ==
    /\ m.outcome # "accepted"
    /\ errors' = IF m.outcome = "raised" /\ Current(m.key, m.generation)
                 THEN errors \cup {m.key} ELSE errors
    /\ \E open \in {Released(Plan, m.key, m.generation)} :
         \E plan \in {Rerun(open, m.key)} : Carry(plan)
    /\ UNCHANGED <<pending, agentPending, store, asked>>

Finish(m) ==
    /\ m \in inbox /\ inbox' = inbox \ {m}
    /\ FinishAccepted(m) \/ FinishOther(m)
    /\ UNCHANGED <<sourceVars, work, accepted, observed, composed, agent, asks>>

-----------------------------------------------------------------------------
\* A ticket that ends posts its outcome.
Posted(k, g) ==
    inbox' = IF task'[k][g] = "done" /\ task[k][g] # "done"
             THEN inbox \cup {[key |-> k, generation |-> g,
                               outcome |-> IF accepted'[k] # accepted[k] THEN "accepted"
                                           ELSE IF task[k][g] = "observing" THEN "raised"
                                           ELSE "discarded"]}
             ELSE inbox

RunTicket(k, g) ==
    /\ IF k = AgentRuns
       THEN Skip(k, g) \/ Start(k, g) \/ ReadAgents(g) \/ Raise(k, g)
            \/ Discard(k, g) \/ AcceptAgents(g)
       ELSE Ticket(k, g)
    /\ Posted(k, g)
    /\ asked' = IF task[k][g] = "queued" /\ task'[k][g] = "observing"
                THEN asked \ {k} ELSE asked
    /\ UNCHANGED <<inFlight, rerun, trigger, errors, indicator, asks>>

SourceChanges(k) == Change(k) /\ UNCHANGED runnerVars

RunnerNext ==
    \/ \E why \in Triggers : Ask(Keys, why)
    \/ \E p \in Projects : Ask(GitKeys(p), "manual")
    \/ ShowRefreshing
    \/ \E m \in inbox : Finish(m)
    \/ \E k \in Keys : \E g \in Gens(k) : RunTicket(k, g)
    \/ \E k \in ProjectKeys : SourceChanges(k)

RunnerSpec == RunnerInit /\ [][RunnerNext]_allVars

\* The pool has a thread for every key, commands time out and the event loop
\* handles what is posted; nobody has to ask, and no source has to change.
RunnerFairness ==
    /\ WF_allVars(\E k \in Keys : \E g \in Gens(k) : RunTicket(k, g))
    /\ WF_allVars(\E m \in inbox : Finish(m))

FairRunnerSpec == RunnerSpec /\ RunnerFairness

-----------------------------------------------------------------------------
RunnerTypeOK ==
    /\ TypeOK
    /\ inFlight \in [Keys -> Nat]
    /\ rerun \in [Keys -> Triggers \cup {None}]
    /\ trigger \in [Keys -> Triggers \cup {None}]
    /\ \A k \in InFlight : trigger[k] # None
    /\ errors \subseteq Keys /\ inbox \subseteq Messages
    /\ indicator \in [timer : BOOLEAN, visible : BOOLEAN]
    /\ asks \in 0 .. MaxAsks /\ asked \subseteq Keys

(* The in-flight gate always reopens: a key in flight has the newest       *)
(* ticket, still running or with its outcome posted, every other ticket    *)
(* has ended, so that no observation is made only to be discarded when it  *)
(* lands, a rerun is queued only where a landing will run it, and the      *)
(* indicator and its timer are never left on with the gate open.           *)
GateReopens ==
    /\ \A k \in Keys :
         /\ rerun[k] # None => inFlight[k] # 0
         /\ inFlight[k] # 0 =>
              /\ Current(k, inFlight[k])
              /\ \/ task[k][inFlight[k]] \notin {"none", "done"}
                 \/ \E m \in inbox : m.key = k /\ m.generation = inFlight[k]
         /\ \A g \in Gens(k) : g # inFlight[k] => task[k][g] \in {"none", "done"}
    /\ indicator.timer \/ indicator.visible => InFlight # {}

(* Every request is served: a key asked for is observed again.             *)
AskedIsObserved == \A k \in Keys : k \in asked ~> k \notin asked

(* Once everyone rests, the Agent Runs shown are bound to the Projects     *)
(* shown, unless observing them fails: every publish that changed a        *)
(* binding fact had the Agent Runs observed again after it.                *)
BindingsConverge ==
    <>[](AgentRuns \notin errors) =>
        <>[](store.agent # None =>
               \A p \in Projects :
                   Projection(store.agent[p]) = Projection(store.projects[p]))
=============================================================================
