----------------------- MODULE ObservationCoordinator -----------------------
(***************************************************************************)
(* observation/collect.py's ObservationCoordinator: every key -- one part  *)
(* of one Project, or the Agent Runs -- has a generation, a lock and a     *)
(* last accepted result.  Any thread requests keys, pool workers run their *)
(* tickets, and a consumer publishes what was accepted into its store.     *)
(* Each critical section of the coordinator's state lock is one step.      *)
(***************************************************************************)
EXTENDS Naturals

CONSTANTS Projects,
          Parts,        \* the parts of a Project observed as keys
          QueryDriven,  \* the dashboard's mode: compose from any part
          MaxGen,       \* bound: tickets per key of each kind
          MaxWorld,     \* bound: versions each kind of source goes through
          None

ProjectKeys == Projects \X Parts
AgentRuns == <<"*", "agent-runs">>
Keys == ProjectKeys \cup {AgentRuns}
Gens(k) == 1 .. MaxGen[k[2]]

ASSUME CoordinatorAssumption ==
    /\ "targets" \in Parts /\ Parts \subseteq {"issues", "pull-requests", "targets"}
    /\ QueryDriven \in BOOLEAN
    /\ MaxGen \in [Parts \cup {"agent-runs"} -> Nat] /\ MaxWorld \in [Parts -> Nat]

VARIABLES
    world,         \* the version each source is at; a source only moves forward
    cache,         \* the version each stateful source last enumerated whole, 0 before
    generation,    \* newest ticket of each key
    accepted,      \* newest ticket of each key accepted
    task,          \* where each ticket is
    work,          \* what each running ticket has read so far
    observed,      \* last accepted half of each Project key, or None
    composed,      \* latest composition of each Project, or None
    pending,       \* Projects composed but not published
    agent,         \* last accepted Agent Run observation, or None
    agentPending,
    store          \* the consumer's Projects and Agent Runs

acceptVars == <<accepted, observed, composed, pending, agent, agentPending>>
sourceVars == <<world, cache>>
vars == <<sourceVars, generation, task, work, acceptVars, store>>

-----------------------------------------------------------------------------
(* Data.  A half carries the version of the source it shows, 0 for none    *)
(* yet; "project" marks a collector that could not be built.               *)
Half == [version : Nat, status : {"fresh", "stale", "unavailable"},
         project : BOOLEAN]
Composition == [halves : [Parts -> Half], snapshot : BOOLEAN]
Base == [Projects -> Composition \cup {None}]

ASSUME NoneAssumption == None \notin Half /\ None \notin Composition /\ None \notin Base

Unobserved == [version |-> 0, status |-> "unavailable", project |-> FALSE]
Fresh(v) == [version |-> v, status |-> "fresh", project |-> FALSE]

\* RetainingSource._failed: a source keeps its own last good collection.
SourceFailed(v) == [version |-> v, project |-> FALSE,
                    status |-> IF v = 0 THEN "unavailable" ELSE "stale"]

\* _failed_half: keep the last good data, stale, or report none.
FailedHalf(previous, projectFailure) ==
    LET retained == previous # None /\ previous.version > 0
    IN [version |-> IF retained THEN previous.version ELSE 0,
        status |-> IF retained THEN "stale" ELSE "unavailable",
        project |-> projectFailure]

\* _compose: None until every part was observed once, unless query driven.
Compose(p, halves) ==
    LET part == [x \in Parts |-> IF halves[<<p, x>>] = None THEN Unobserved
                                 ELSE halves[<<p, x>>]]
        neverObserved == \A x \in Parts : part[x].version = 0
        failed == \E x \in Parts : part[x].project
    IN IF ~QueryDriven /\ \E x \in Parts : halves[<<p, x>>] = None
       THEN None
       ELSE [halves |-> part, snapshot |-> ~(failed /\ neverObserved)]

-----------------------------------------------------------------------------
Init ==
    /\ world = [k \in ProjectKeys |-> 1] /\ cache = [k \in ProjectKeys |-> 0]
    /\ generation = [k \in Keys |-> 0] /\ accepted = [k \in Keys |-> 0]
    /\ task = [k \in Keys |-> [g \in Gens(k) |-> "none"]]
    /\ work = [k \in Keys |-> [g \in Gens(k) |-> None]]
    /\ observed = [k \in ProjectKeys |-> None]
    /\ composed = [p \in Projects |-> Compose(p, observed)]
    /\ pending = IF QueryDriven THEN Projects ELSE {}
    /\ agent = None /\ agentPending = FALSE
    /\ store = [projects |-> [p \in Projects |-> None], agent |-> None]

\* The observed source changes on its own.
Change(k) ==
    /\ world[k] < MaxWorld[k[2]]
    /\ world' = [world EXCEPT ![k] = @ + 1]
    /\ UNCHANGED <<cache, generation, task, work, acceptVars, store>>

\* request(): a new generation for each key; older tickets are superseded.
Requested(K) ==
    /\ \A k \in K : generation[k] < MaxGen[k[2]]
    /\ generation' = [k \in Keys |-> IF k \in K THEN generation[k] + 1
                                                ELSE generation[k]]
    /\ task' = [k \in Keys |->
                  IF k \in K THEN [task[k] EXCEPT ![generation[k] + 1] = "queued"]
                             ELSE task[k]]

Request(K) ==
    /\ Requested(K)
    /\ UNCHANGED <<sourceVars, work, acceptVars, store>>

Current(k, g) == generation[k] = g

\* Mutant: no lock per key.
KeyLockedNever(k) == FALSE

\* The key's lock is held by the ticket past "queued" and not yet ended.
KeyLocked(k) == \E g \in Gens(k) : task[k][g] \in {"observing", "read", "retained"}

\* The ticket goes on to its next step, holding what it has read.
Proceed(k, g, step, scratch) ==
    /\ task' = [task EXCEPT ![k][g] = step]
    /\ work' = [work EXCEPT ![k][g] = scratch]

AcceptTicket(k, g) ==
    /\ accepted' = [accepted EXCEPT ![k] = g]
    /\ Proceed(k, g, "done", None)

\* observe(): under the key's lock, a superseded ticket does nothing.
Skip(k, g) ==
    /\ task[k][g] = "queued" /\ ~KeyLocked(k) /\ ~Current(k, g)
    /\ Proceed(k, g, "done", None)
    /\ UNCHANGED <<sourceVars, generation, acceptVars, store>>

\* A current one captures what it builds on: its key's previous half, or the
\* Projects composed so far.
Start(k, g) ==
    /\ task[k][g] = "queued" /\ ~KeyLocked(k) /\ Current(k, g)
    /\ Proceed(k, g, "observing", IF k = AgentRuns THEN composed ELSE observed[k])
    /\ UNCHANGED <<sourceVars, generation, acceptVars, store>>

\* The source answers.  Repository State is read afresh; Issues and Pull
\* Requests come from a source that also keeps what it last enumerated.
Read(k, g) ==
    /\ k # AgentRuns /\ task[k][g] = "observing"
    /\ Proceed(k, g, "read", Fresh(world[k]))
    /\ UNCHANGED <<sourceVars, generation, acceptVars, store>>

\* Or it fails: within the source, in an OBSERVATION_FAILURES exception, or
\* before a collector could be built.
ReadFails(k, g) ==
    /\ k # AgentRuns /\ task[k][g] = "observing"
    /\ \E half \in {FailedHalf(work[k][g], FALSE), FailedHalf(work[k][g], TRUE)}
                   \cup (IF k[2] = "targets" THEN {} ELSE {SourceFailed(cache[k])}) :
         Proceed(k, g, "retained", half)
    /\ UNCHANGED <<sourceVars, generation, acceptVars, store>>

\* RetainingSource.refresh: the complete collection becomes the last good one.
Retain(k, g) ==
    /\ k # AgentRuns /\ task[k][g] = "read"
    /\ cache' = [cache EXCEPT ![k] = work[k][g].version]
    /\ Proceed(k, g, "retained", work[k][g])
    /\ UNCHANGED <<world, generation, acceptVars, store>>

\* _observe_agent_runs reads sessions and binds them to the captured Projects;
\* a failure to read them is contained and binds none.
ReadAgents(g) ==
    /\ task[AgentRuns][g] = "observing"
    /\ Proceed(AgentRuns, g, "retained", work[AgentRuns][g])
    /\ UNCHANGED <<sourceVars, generation, acceptVars, store>>

\* An exception the observation does not contain ends its ticket.
Raise(k, g) ==
    /\ task[k][g] = "observing"
    /\ Proceed(k, g, "done", None)
    /\ UNCHANGED <<sourceVars, generation, acceptVars, store>>

\* A ticket superseded while it read is discarded whole.
Discard(k, g) ==
    /\ task[k][g] = "retained" /\ ~Current(k, g)
    /\ Proceed(k, g, "done", None)
    /\ UNCHANGED <<sourceVars, generation, acceptVars, store>>

AcceptAgents(g) ==
    /\ task[AgentRuns][g] = "retained" /\ Current(AgentRuns, g)
    /\ agent' = work[AgentRuns][g] /\ agentPending' = TRUE
    /\ AcceptTicket(AgentRuns, g)
    /\ UNCHANGED <<sourceVars, generation, observed, composed, pending, store>>

\* Mutant: the composition replaces the last one without becoming pending.
AcceptUnpublished(k, g) ==
    /\ k # AgentRuns /\ task[k][g] = "retained" /\ Current(k, g)
    /\ observed' = [observed EXCEPT ![k] = work[k][g]]
    /\ LET p == k[1]
           c == Compose(p, observed')
       IN composed' = [composed EXCEPT ![p] = IF c = None THEN @ ELSE c]
    /\ AcceptTicket(k, g)
    /\ UNCHANGED <<sourceVars, generation, pending, agent, agentPending, store>>

\* Mutant: a Project becomes pending before all its parts were observed.
AcceptIncomplete(k, g) ==
    /\ k # AgentRuns /\ task[k][g] = "retained" /\ Current(k, g)
    /\ observed' = [observed EXCEPT ![k] = work[k][g]]
    /\ LET p == k[1]
           c == Compose(p, observed')
       IN /\ composed' = [composed EXCEPT ![p] = IF c = None THEN @ ELSE c]
          /\ pending' = pending \cup {p}
    /\ AcceptTicket(k, g)
    /\ UNCHANGED <<sourceVars, generation, agent, agentPending, store>>

Accept(k, g) ==
    /\ k # AgentRuns /\ task[k][g] = "retained" /\ Current(k, g)
    /\ observed' = [observed EXCEPT ![k] = work[k][g]]
    /\ LET p == k[1]
           c == Compose(p, observed')
       IN /\ composed' = [composed EXCEPT ![p] = IF c = None THEN @ ELSE c]
          /\ pending' = IF c = None THEN pending ELSE pending \cup {p}
    /\ AcceptTicket(k, g)
    /\ UNCHANGED <<sourceVars, generation, agent, agentPending, store>>

\* Mutant: Agent Runs are moved only along with a Project.
PublishedTogether ==
    /\ store' = [projects |-> [p \in Projects |-> IF p \in pending THEN composed[p]
                                                  ELSE store.projects[p]],
                 agent |-> IF pending # {} /\ agentPending THEN agent ELSE store.agent]
    /\ pending' = {} /\ agentPending' = FALSE

\* publish(): every pending Project, then the Agent Runs, under the state lock.
Published ==
    /\ store' = [projects |-> [p \in Projects |-> IF p \in pending THEN composed[p]
                                                  ELSE store.projects[p]],
                 agent |-> IF agentPending THEN agent ELSE store.agent]
    /\ pending' = {} /\ agentPending' = FALSE

Publish ==
    /\ Published
    /\ UNCHANGED <<sourceVars, generation, accepted, task, work, observed, composed, agent>>

Ticket(k, g) ==
    \/ Skip(k, g) \/ Start(k, g) \/ Read(k, g) \/ ReadFails(k, g)
    \/ Retain(k, g) \/ Raise(k, g) \/ Discard(k, g) \/ Accept(k, g)

Worker ==
    \/ \E k \in Keys : \E g \in Gens(k) : Ticket(k, g)
    \/ \E g \in Gens(AgentRuns) : ReadAgents(g) \/ AcceptAgents(g)

Next ==
    \/ \E k \in ProjectKeys : Change(k)
    \/ \E K \in SUBSET Keys : Request(K)
    \/ Worker
    \/ Publish

Spec == Init /\ [][Next]_vars

-----------------------------------------------------------------------------
Steps == {"none", "queued", "observing", "read", "retained", "done"}

TypeOK ==
    /\ world \in [ProjectKeys -> Nat] /\ cache \in [ProjectKeys -> Nat]
    /\ DOMAIN generation = Keys /\ DOMAIN task = Keys /\ DOMAIN work = Keys
    /\ \A k \in Keys : /\ generation[k] \in 0 .. MaxGen[k[2]]
                       /\ task[k] \in [Gens(k) -> Steps]
                       /\ work[k] \in [Gens(k) -> {None} \cup
                                       (IF k = AgentRuns THEN Base ELSE Half)]
    /\ accepted \in [Keys -> Nat]
    /\ observed \in [ProjectKeys -> Half \cup {None}]
    /\ composed \in Base
    /\ pending \subseteq {p \in Projects : composed[p] # None}
    /\ agent \in Base \cup {None} /\ agentPending \in BOOLEAN
    /\ store \in [projects : Base, agent : Base \cup {None}]

\* Composition c is no older than b, part by part.
NoOlder(c, b) ==
    b # None =>
        /\ c # None
        /\ \A x \in Parts : b.halves[x].version <= c.halves[x].version

(* The Agent Runs in the store are bound only to Project facts the store   *)
(* has been given too: what publish() moves is never behind what an        *)
(* observation of the Agent Runs was built on.                             *)
AgentBindsPublished ==
    store.agent # None =>
        \A p \in Projects : NoOlder(store.projects[p], store.agent[p])

(* No late, failed or retained result takes a published Project back to an *)
(* older reading of any of its parts, nor makes one vanish, and Agent Runs *)
(* are never bound to older Projects than before.                          *)
PublishedNeverRegresses ==
    [][\A p \in Projects :
         /\ NoOlder(store'.projects[p], store.projects[p])
         /\ store.agent # None =>
              store'.agent # None /\ NoOlder(store'.agent[p], store.agent[p])]_vars

(* Halves observed apart and accepted in any order leave a store that      *)
(* holds, or is about to be given, exactly what was last accepted.         *)
NothingAcceptedIsLost ==
    /\ \A p \in Projects \ pending :
         /\ store.projects[p] = composed[p]
         /\ Compose(p, observed) # None => store.projects[p] = Compose(p, observed)
    /\ ~agentPending => store.agent = agent
=============================================================================
