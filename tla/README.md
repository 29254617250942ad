# Dashpot in TLA+

Dashpot is a terminal dashboard over the Projects of one person: their Worktrees
and Branches, the Issues and Pull Requests of their repositories, and the Agent
Sessions and Agent Runs at work in them. It has no server and no database. What
it knows about agents is kept in JSON records inside the Worktrees, which the
hooks of several agent harnesses and the `dashpot` command write as short-lived
processes of their own, while the dashboard reads them, Git and GitHub from
worker threads and draws one picture on one event loop.

So the parts that are hard to get right are the meetings: of processes at a
record, of threads at a coordinator, of messages at an event loop, of answers at
a page someone has since left. This directory models those parts in TLA+, checks
them with TLC on small instances and proves the ones that matter most with TLAPS
for every size.

* `*.tla` without a prefix or suffix: the components.
* `MC*.tla`, `MC*.cfg`: small instances for TLC.
* `*Proofs.tla`: theorems and their proofs.
* `PROJECT.json`: components, runs, mutants, the map from definitions to source
  lines, hazards, findings and theorems.

To check one instance: `tlc -config MCRecordStore.cfg MCRecordStore`. To check
proofs: `tlapm RecordStoreProofs.tla`. Paths below are relative to
`src/src/dashpot/`.

## 1. Inventory

| Component | State it keeps | Operations | Modelled by |
|---|---|---|---|
| Record store, record locks (`core/record_store.py`, `core/file_locks.py`) | one JSON file, one lock file and temporaries per key | locked read/write/remove, atomic replace, sweeps of locks and temporaries | `RecordStore`, promising `AtomicRecord` |
| Observation coordinator (`observation/collect.py`, `observation/keys.py`, `issues/retaining_source.py`) | per key: generation, lock, last accepted result; composed Projects; what is pending | request, observe, accept or discard, publish | `ObservationCoordinator` |
| Observation runner (`ui/observation_runner.py`) | keys in flight, queued reruns, errors, indicator | refresh, land, rerun, publish, re-observe Agent Runs | `ObservationRunner` |
| Page queries (`queries/page_navigation.py`, `ui/page_runner.py`, `queries/cached_source.py`, `queries/github_queries.py`) | per kind: tickets, retained pages, running and waiting query; per source: last pages and totals | restart, refresh, next, previous, query, land | `PageQueries` |
| Rate Limit Pause (`github/github.py`) | latest reading, pause, refusals, generation | admit, answered, refused, record, lift | `RateLimitPause` |
| Work Store and run reconciliation (`sessions/work_store.py`, `work_reconciliation.py`, `work.py`) | at each Worktree one Agent Run per session | start, replace, stop, Live Relocation, orphan continuation, SessionEnd, sweep | `WorkStore` |
| Hook records (`sessions/hook_records.py`, `hook_publish.py`, `hook_scan.py`) | at each Worktree one record per session, with its sub-agents | publish an event, end, prune, place a session | order, placement and pruning in `WorkStore`; OpenCode's records and their children in `OpenCodePlugin` |
| Codex Relocation Intent, deferred end (`work_reconciliation.py`, `deferred_end.py`) | an intent in the run's record; a settler process | end while relocating, settle later | the deferred end in `WorkStore` |
| Worker Assignments (`sessions/worker_assignments.py`) | inside the run's record | assign, claim, release | not modelled |
| OpenCode plugin and publisher (`plugins/opencode.js`, `sessions/opencode_publish.py`, `opencode_publisher_records.py`) | in the server: sessions, queues per root, instances, a cleanup's barrier; per store: sequences and deletions | admit, route, publish, arrive, recover, mark | `OpenCodePlugin` |
| Running commands (`core/commands.py`) | registered processes, those marked interrupted, closed flag | run, time out, interrupt, reap | `RunningCommands` |
| Cleanup (`repository/cleanup/*`) | none between runs | preview, confirm by fingerprint, delete in order | `CleanupFlow` |
| Fetch and Cleanup flows (`ui/fetch_flow.py`, `ui/cleanup_flow.py`) | which flow holds a Project, open previews | fetch, preview, wait for observation, perform | `CleanupFlow` |
| Worktree creation (`repository/worktrees/create.py`) | none | create Branch and Worktree, roll back | not modelled |
| Attendance (`ui/attendance.py`) | the Unattended Pause | idle, probe, return | not modelled |
| Agent Run read model (`sessions/agent_runs.py`, `agent_bindings.py`, `orphaned_runs.py`, ...) | none | observe records, processes and runs; prune gone records | its pruning in `WorkStore` |
| Event Log (`core/event_log*.py`) | append-only files | record, rotate, prune | not modelled |
| Git, sources, configuration, views, CLI | none that outlives a call | parse, format, wire | not modelled: see section 6 |

How they interact. A *hook* of a harness writes the session's hook record, then
reconciles the session's Agent Run in the Work Stores; a *command* does the
latter alone. Both take record locks. The *dashboard* never writes runs; it
observes, and prunes the hook records nobody needs. Its timers and its reader ask the runner, the runner requests tickets
of the coordinator, pool threads observe them, messages come back to the event
loop, the coordinator publishes, and publishing changed facts has the Agent Runs
observed again. Beside that, each paged kind asks its GitHub source a page at a
time, and every source of the process sends its requests through one shared Rate
Limit Pause. A person's fetch or Cleanup holds its Project, runs Git beside the
event loop and has the Project observed again. An OpenCode server publishes its
sessions through a plugin that runs one short-lived helper for each event.

What is hard, and where it is covered:

* lock files unlinked under the processes waiting on them (`RecordStore`);
* reads without a lock, decided upon and written or pruned later (`WorkStore`);
* a run written at two Worktrees, in two steps, either of which may be the last
  one its process makes (`WorkStore`);
* results of threads accepted in any order, kept after failures, and composed of
  parts observed at different moments (`ObservationCoordinator`);
* requests that coalesce onto an observation already reading old facts
  (`ObservationRunner`);
* answers of superseded pages, another login between two requests of one query
  (`PageQueries`);
* a refusal in the middle of requests in flight (`RateLimitPause`);
* a command starting while the exit stops all commands, a helper that outlives
  its leader (`RunningCommands`);
* one move written in two stores under two locks, a queue that orders only what
  it can route, a cleanup that marks what others still publish (`OpenCodePlugin`);
* facts previewed, fetched, confirmed and deleted over many awaits, while others
  commit, push and check out (`CleanupFlow`);
* still uncovered, each with its line in `PROJECT.json` `hazards`: Conversation
  Switches, the roll-back of a failed Worktree creation, attendance.

## 2. Modules

### RecordStore

One key of a `LockedRecordStore`; keys own disjoint files. A lock file is an
*inode*: `linked` is the one the path names now, `holder` the kernel's flock
table, `fd` what each process has open. `Open`, `Acquire`, `Enter`/`StartOver`
and `Release` are the statements of `locked_path`; `PruneCheck` and
`PruneUnlink` those of `prune_lock_file`, after `Sweep`, the listing made
without the lock; `Read`, `CreateTemporary`, `Rename`, `WriteFails`, `Remove`
the body of a caller, the replace being two steps as in `replace_atomically`.
`Crash`, at every step, drops the flock and leaves the temporary;
`Age`/`SweepTemporary` may take the temporary of a writer that is only slow;
`RemoveDirectory` is `git worktree remove`. After the directory was removed
*under* a lock holder a new lock file may exist beside the old one: that is how
the code behaves and the properties are stated for histories without it
(`overlapped`).

Properties: `AtomicTurns` and `WaitersServed`. `Exclusive` (one process inside a
body), `ReadStaysCurrent` (what was read under the lock is still there when it is
replaced) and `LockOutlivesRecord` (a sweep leaves a record its lock) are part of
the inductive invariant and proved as theorems; `AtomicTurns` says as much of the
record's users.

`AtomicTurns` is the abstract specification `AtomicRecord` under the mapping
"whose turn it is = who is inside": users take turns (`Take`), and a turn changes
the record at most once, as its last step (`Finish`). It is what every module
above the store takes for granted when it makes the body of a `with locked(...)`
a few steps of one owner, and what readers without a lock rely on: there is never
a half-written record. Its promise ends with `broken`, the store's `overlapped`.

### ObservationCoordinator

A key is a part of a Project or the Agent Runs. Each critical section of the
coordinator's state lock is one action: `Request` (a new ticket), `Start` or
`Skip` (under the key's lock, if still current), `Read`/`ReadFails`/`ReadAgents`
(no lock held), `Accept`/`AcceptAgents` or `Discard`, `Publish`. The data of a
half is the *version* of the source it shows: a source only moves forward, an
observation reads its present version, and a failure keeps the last good one as
stale (`FailedHalf`), which a retaining source also does by itself (`cache`).
`Compose` is `_compose`: nothing until each part was observed once, except that
a query-driven coordinator composes from the first.

Properties: `AgentBindsPublished`, `NothingAcceptedIsLost`,
`PublishedNeverRegresses`.

### ObservationRunner

Extends the coordinator with the dashboard's event loop. A handler is one
action; what it does in a row is folded over a *plan* of what is in flight, the
queued reruns and the tickets to request (`Scheduled`, `Released`), so a landing
that publishes, re-observes the Agent Runs and starts a queued rerun is one
step. Worker threads are the coordinator's actions between handlers; outcomes
wait in `inbox` and are handled in any order. "manual" stands for every trigger
but the timer, the only one that does not queue a rerun.

Properties: `GateReopens` (a key in flight has a running ticket or a posted
outcome and no other ticket that would only be discarded, and the indicator is
on for nothing else); under fairness `AskedIsObserved` and `BindingsConverge` (when everyone rests, the
Agent Runs shown are bound to the Projects shown).

### WorkStore

One session, the Worktrees of one repository, any number of Host Processes and
of hooks and commands (`Workers`) that run at once. Each worker is a small
program: `todo` is what it has still to lock or read, `seen` what it read. A
hook publishes its record (`Publish`), locks the session's hook stores in path
order (`NextLock`, `LockStore`), then relocates (`Located`, `Read`, `Carry`,
`LockRun`, `WriteTarget`, `UnlinkSource`), continues an orphaned run (`Look`,
`Adopt`) or ends runs (`ToRemove`, `Remove`) and sweeps older records. A command
reads without locks (`StartIssueWork`, `StopIssueWork`, `Read`) and writes under
the run's lock, comparing with what it read. `Crash` stops any of them anywhere
and frees its locks. `Probes` is a liveness probe that may fail to answer.

A Host Process of `Daemons` is a managed Codex daemon: the SessionEnd of one of
its threads may be an unload or a restart of the daemon, so its hook only looks
whether there is a run to end (`Deferred`) and, last of all, leaves it to a
process that outlives hook and daemon (`Settler`). Much later that settler ends
the runs as any end does, comparing with what it reads then, but only if it sees
the daemon live (`Settle`); seen gone, or not seen, it ends nothing. A daemon
runs many threads, so it is never `Exclusive` to a session, and its hooks take up
no orphan (`DaemonAssumption`).

Beside them a dashboard's passes (`pass`) observe the session: `Scan` reads the
hook records one store after another, `Classify` probes each process once for
the whole pass, `Claim` reads the runs and keeps the records of gone processes
that an Orphaned Agent Run still needs, and `Prune` takes the others, each under
its lock and only if it is still what the scan read.

Abstractions, each named where it is made: one session and one session key;
every hook store exists already; a session has no sub-agents, so an ended record
is removed; a record that cannot be read or resolved is a worker giving up,
which `Crash` covers; one dashboard, which observes every Worktree; the location scan of `work start` is one read; Codex's
Relocation Intent, which would let a deferred end see a move on its way, is left out.

What the code does and the properties therefore allow: a crash between writing
the target and unlinking the source leaves the run at two Worktrees (`torn`)
until a later move takes it on, and a stop that races it may leave one of the
copies; two quick moves A to B to C may leave the run at A until the next hook;
a command that reads the Worktrees one after another may miss a run that moves
meanwhile.

Properties: `NoRunLost`, `OneHome`, `EndedStaysEnded`, `OwnerKeepsRun`,
`WorkersEnd`.

### PageQueries

One paged kind answered by GitHub. `principal` and `edition` are GitHub: whom it
answers for and which state of the result set. A query is the requests the
source sends one after another: `Send`, then `Observe` (a continuation is only
interpreted after its context was observed) or `ObserveName` (the first search
needs the repository's name), `Search`, `Resolve`; between any two of them the
login or the results may change, and any may fail. `Fail` retains what the
request last showed *for the principal now known* and the totals that were
counted before the failure. A continuation is modelled by what it is bound to:
principal, request, position and edition. `FinishPage`, `RestartRefused` and
`RefusedSuperseded` are the handler that lands an answer; `Launch` and
`Released` are the key with its one running and one waiting query.

A Pull Request query ends with its search; it takes the step `Resolve` without a
request of its own. The identity queries, the Markdown source, the Refresh Budget
(one of the ways a request fails) and all texts are left out.

Properties: `OneWalk`, `StaleIsOwn`, `ShownStays`, `AwaitedAnswered`.

### RateLimitPause

Time is ticks. `account` is the account at GitHub, whose points fall with every
answer, also by other clients, and come back with each window. A gateway's
request goes out (`Admit`) or is held (`Hold`), GitHub answers, refuses or is not
reached, and the gateway's thread then records the reading (`Record`) and reports
the outcome (`Answered`, `Failed`, `Refused`) in steps of their own, so that
answers overtake each other. `pause.left` is how many ticks of the pause are
left, 0 when it has lapsed without anyone having asked since. REST requests are
not held and are left out.

Properties: `LateAnswersChangeNothing`, `PauseEnds`; proved besides:
`OnlyAttempts`, `PauseStands`, `PointsOnlyFall`.

### RunningCommands

Each pool thread (`Runners`) is in one `_run_command`: `Check`, `Start`,
`Register` (the entry of `holding`, which notices that the registry has closed
and then asks, `AskLate`), `Communicate`, `Judge`, `Unregister`; or, from
`Timeout`, the steps of `_stop`: ask, `Kill` after the grace, `Reap`.
`interrupt()` is `Interrupt` (close and snapshot) and then, for each command of
the snapshot, `Look` (its exit state, read without the lock),
`MarkInterrupted` (under the lock again) and `SignalInterrupted`. A command is
its leader and a helper that inherits its output; `Ask` is `_signal` with
`SIGTERM`, to both when they have a session of their own and to the leader alone
otherwise. `send_signal` polls and so may reap, `killpg` does not: that is why a
group's leader is kept unreaped through the grace. Registration by runner stands
for registration by process, as a runner has one command at a time and none
after the registry closed.

Left out: pids reused between a look and a signal, which the code names and
accepts; `_stop` after an exception other than a timeout, which pool threads do
not meet; uninterruptible mutations, which register nowhere. An asked leader is
taken to start no further helper.

What the code does and the properties therefore allow: a command that ends by
itself between `Look` and `MarkInterrupted` has answered and is yet reported
interrupted; a helper of a command that shares Dashpot's group is never asked
and holds its runner until the timeout.

Properties: `NoneSlipsBy`, `GroupStopped`, `ExitCompletes`; proved besides:
`ResultIsItsOwn`.

### OpenCodePlugin

An OpenCode server, the plugin instances that share its registry, and the helper
each publication runs. OpenCode is external: sessions are created, run, move and
are deleted, and each event carries its session's own sequence (`Emit`); an event
nobody listens to is lost (`missed`). The registry is `plugins/opencode.js`:
`Admit` places the session and fixes the route if every link to its root is
known, `Enqueue` is the queue per root (`QueueOf`), which refuses beyond
`QueueLimit` and whose publications wait for a cleanup's `barrier`, `Begin` the
turn of a publication, with the read of sessions the registry does not know
(`BeginUnread` when that fails: the event is dropped). `Setup` asks for the
instance's registration, `Register` is its answer, the sessions of that location's
store, and `recover` then reads these from OpenCode one at a time: `Ask` begins a
read, only while an instance lives, and `Answer` ends it and publishes what
OpenCode no longer has as `gone`, whoever lives by then. `Cleanup`, `Drained`,
`Mark` and `Marked` are the last instance's cleanup. The helper is `sessions/opencode_publish.py`: `Publish` is
`_publish` under the store's Publisher Record, with `Refused`, `Stale`, `Begins`
and `Forget`; `Arrive` is `_arrive`, under the other store's, and `Killed` stops
the helper before it wrote or between the hook record and what follows. A hook
record is what the hook store makes of these events: a turn, the children listed
(`subs`), ended, moved away, marked.

`touched` holds the pairs of stores of which the first was written since the
second: the fresher evidence of where a root is (`Writes`: an ended record is no
such evidence). A move is seeded from it twice. Where it leaves (`MovedWrite`), the
destination's stores are read too, so that a record there that is the fresher and
live replaces the children of the one left; where it arrives (`Arrived`), the record
left is such a seed. `Carried` is both. A registration's reads take a root's children
in any order, and the root after them.

Abstractions: every location is in a repository of its own, so a move goes to
another Project or outside; moves inside one repository take the run along and
are `WorkStore`. One Host Process. The registry's bounds on sessions, seen events
and stores are not reached. The record a helper writes is one step, as
`RecordStore` shows; so are the read at a publication's turn and that turn, and the
helper's answer to a registration and what its acknowledgment sets going. The first
registration of a server is answered before there are records, and an instance's
before its cleanup. OpenCode may emit a start of a root it has deleted while
running (ADR 0090), but nothing more of a deleted child: that would be listed
again where another store has never heard of the deletion. `cut` and `missed`
remember that a publication failed, or that an event met no instance, which
excuses what may then be stale; after both nothing more is begun (`Going`).

What the code does and the properties therefore allow: a drain that runs out
(`CLEANUP_DRAIN_MS`) leaves publications that may write after the marking. A
registration may find a child gone whose own last events are still to be
received; they follow the deletion it publishes, and after a move of the root
they are written where that deletion is not recorded: the child then stays
listed. `ahead` remembers such children, and `ChildrenListed` excepts them. It
takes two instances, five unread events and nine in all, which the runs do not
have. A registration whose read is answered after the last cleanup has looked at
what is pending writes its deletion after the marking, and so clears the mark of
a root that may still run: `late` remembers that, and `UnobservedReadsUnknown`
excepts it until the next marking. The same deletion, written to a record the root
has moved away from, makes that record the fresher; if the root moves back there,
its children are those of that record, and one that started since is forgotten.
`overtaken` remembers the family, and `ChildrenListed` excepts it. That takes two
children and some nine events, so it is beyond the run, and the exception is what
the proof of `WorkingListed` needs. Two last cleanups may overlap, and the second replaces the barrier of the
first; what was queued behind it has then made `cut` true, and what nobody
observes is still marked, by one or the other.

Properties: `ChildrenListed`, `OneAtATime`, `UnobservedReadsUnknown`,
`DeletedStaysEnded`; `ChildNeverOvertakes` is violated (section 5).

### CleanupFlow

One Project: the flows behind `f` and `x`, the Cleanup they perform and the
repository that others change meanwhile. A ref is the set of commits it reaches:
the Branch here (`local`), at its remote (`upstream.branch`), the Integration
Branch, and the last two as fetched (`tracking`). `tree` is the Worktree with
the Branch checked out. The Integration Branch reaches commits (`main`) and holds
the content of these and of those squashed into it (`held`; `Merge` does either). An
inspection reads the *facts* of each target (what it reaches, what of that the
Integration Branch does not, whether that holds its content all the same, what
blocks it), and a fingerprint is those facts. A Branch may go that is integrated, or
*content-integrated*; of the latter the preview says that the last named ref to so
many original commits goes (`Disclosed`). `PressFetch`, `RunFetch`, `RecordFetch` are `RemoteFetchFlow`;
`PressCleanup`, `Inspect`, `FinishInspection`, `ShowPreview`, `Cancel`, `Confirm`
and `FinishCleanup` are `CleanupFlow`; `FetchRequested` and the `Refresh*` steps
are the coroutine that fetches inside an open preview: fetch, have the Git key
observed (`ScheduleGit`, `Observe`, `Land`: the scheduling of
`ObservationRunner`, for one key), wait for a generation later than the one that
was in flight, inspect again and put the result on the screen if it is still
there. A handler is one step of the event loop; what runs beside it is a step of
its own. `Reinspect` and `Delete` are `perform_cleanup`: inspect again, compare,
then one target after another, each with what Git itself checks (`Stands`: the
lease of the push, a Worktree without dirt, `update-ref` with the old value), and
each of which may succeed, be refused or end unheard of.

Abstractions: one Branch, one remote, at most one Worktree; an inspection reads
in one step and finds content integrated exactly when it is (where Git cannot tell,
the code reads the Branch as unintegrated, or as unknown, and blocks it); a dirty
Worktree stands for every blocker of it (processes,
occupants, ignored content), so the acknowledgement of sub-agents (ADR 0112) is
left out. HEAD is on the Branch: a commit on a detached HEAD that is made after
the inspection goes with its Worktree, which `git worktree remove` does not
refuse. Nobody checks the Branch out again between the look for Worktrees and
the deletion of the Branch, which `update-ref` would not see (ADR 0019). The
closing of the app is left out. The refusal of `confirm` while a fetch runs is
never taken, which is proved: a busy preview cannot be confirmed.

`NoWorkLost` does not say that every commit stays reachable: a Cleanup of a squashed
Branch ends that, as the code says. It says that a commit no ref here or at the
remote reaches any more has its content in the Integration Branch and is among
the `dropped`: those a person deleted by hand or at the remote, and those a person
confirmed a preview of that disclosed them. A Cleanup that deletes what it did not
show is what it rules out. The run has a squashed Branch deleted at the remote, with
its original commit reached by nothing any more.

Properties: `NoWorkLost`, `NoDanglingHead`, `OneMutation`,
`EvidenceFollowsFetch`, `ProjectLetGo`.

## 3. Runs

| Run | Instance | Shows |
|---|---|---|
| `record_store` | 2 processes, 2 inodes, 1 temporary name, 2 values | the atomic record is implemented, and every waiter is served once sweeps cease |
| `observation_coordinator` | 1 Project of 2 parts, headless, up to 3 tickets of a part | order of acceptance never takes the store back, loses a result or binds Agent Runs to unpublished facts |
| `observation_runner` | 1 Project, 1 part and the Agent Runs, query driven, 2 refreshes, a source that changes | the in-flight gate, coalescing and the indicator; what is asked for is observed; bindings converge |
| `work_store` | 2 Worktrees, 1 managed daemon, 2 workers, 3 times | a moving run against start, stop, a deferred end with its settler, and another hook; no two hooks wait for each other |
| `work_store_handover` | 1 Worktree, 3 exclusive Host Processes, 2 workers, 4 times | resumed sessions, late ends, a person's stop and an observer that prunes |
| `page_queries` | 2 principals, 2 searches, 3 pages of which 2 are retained, 2 editions, 3 moves | navigation against late, refused and failed answers |
| `rate_limit_pause` | 2 gateways, 2 windows, 3 pauses, the longest backoff | late answers, and that every pause ends |
| `rate_limit_reading` | 2 gateways | expected violation: see section 5 |
| `running_commands` | 2 pool threads, commands with and without a session of their own | starting, registering and timing out against the exit's interruption |
| `open_code_plugin` | a root and its child, 2 Projects and a place outside them, 2 instances, queues of 2, 5 events, one unread | moves with working children, deletions, lost events, killed helpers, cleanups |
| `open_code_overtakes` | 2 Projects, 1 instance | expected violation: see section 5 |
| `cleanup_flow` | a Branch or its Worktree, 2 commits, 2 changes by others, 1 Cleanup, 2 fetches or ticks | previews, fetches and deletions against each other and against what others do |

Every property of a passing run has a mutant: a plausible bug in one mapped
definition (a dropped check, a lock not taken, a reset forgotten) under which
TLC finds the property violated on the same instance. Mutated forms stand just
before the definition they would replace, marked "Mutant".

*Bounds, and why they are enough.* Two processes are the fewest of which one
waits on the inode the other unlinks and then meets it behind a fresh lock file;
a process has one inode open, so two let a number be reused while another is
open, and `MutualExclusion` and its companions are proved for any number. Two tickets are
the fewest that overtake each other and the third is superseded while both are in
flight. Two Worktrees make a move, two workers a race; a third Host Process lets
two clients resume what a first one left, and the four times allow start, move,
stop and start again; the three of `work_store` are a start, a move and one more
event, its liveness included (a settler meets a stop or a move there; a run that is
declared again while it waits takes a fourth time, which holds too with moves, ends
and `work start` alone, and is proved). Room for two of three pages makes eviction happen;
two principals and two editions are the fewest that can be confused; three moves
are a walk to the third page, or one move and two that cross it. Five events are
a root and a child that are created, start, and move or end once, one on its way
is enough to be overtaken, and a queue of two fills up. Two changes by others
make a commit and the push, or a push and the merge or squash, that follows it; a second Cleanup begins where the first began. In `rate_limit_pause` two
gateways make an attempt and an answer that is late for its pause, three pauses
reach the longest backoff. Values a run varies no further are
bounded by named constants (`MaxGen`, `MaxWorld`, `MaxAsks`, `MaxTime`,
`MaxPage`, `MaxEdition`, `MaxMoves`, `MaxWindow`, `MaxRefusals`, `MaxPresses`,
`MaxEvents`, `MaxUnread`, `MaxCommits`, `MaxChanges`, `MaxOpened`, `MaxAsked`; in
`OpenCodePlugin` a helper fails at most once, nothing is begun once a publication
failed and an event was missed (`Going`), and registrations are answered as section 2 says).
In `work_store_handover` two of the hooks, the commands and the observation are at
work at a time (`TwoAtOnce`), which is all a race needs.
`CHECK_DEADLOCK FALSE` stands where those bounds, or people who stop asking, let
the system rest. Symmetry is only used in runs without liveness.

*Fairness.* `RecordStore`: a live process keeps running, and `Acquire` is
strongly fair, because the kernel gives a released flock to those blocked on it;
nobody has to call, sweep or crash. `ObservationRunner`: the pool has a thread
for every key (`max_workers`), every command it waits for has a timeout, and the
event loop handles what is posted; no one has to ask. `WorkStore`: the operating
system runs hooks and commands to their end. `PageQueries`: the query pool has a
thread for each key and each request ends by answer or timeout. `RateLimitPause`:
time passes, nothing else has to. `RunningCommands`: threads run, and a process
that `SIGTERM` reached ends (Git and `gh` do); no process has to end by itself,
and no timeout has to pass: the exit is shown to need neither. `CleanupFlow`: every
command has a deadline and the event loop handles what is posted (`Work`); nobody
has to press a key. `OpenCodePlugin` has no liveness: a helper may always fail.

## 4. Proofs

TLAPS proves these for every value of the constants.

`RecordStoreProofs`: `TypeCorrect`, `MutualExclusion`, `NoLostUpdate`,
`LockKept`. The inductive invariant says that a process has a descriptor exactly
while it waits or holds, that the flock table agrees with where processes are
(`Flocks`), that whoever is inside holds the *linked* inode (`InsideLinked`), and
that a pruner about to unlink guards no record. Two processes inside hold the
same inode, and an inode has one holder. `Exclusive` alone is not inductive: it
does not say which inode is held. `TakesTurns` is the refinement:
given the invariant before and after, each action is `Take`, `Finish`, `Vanish`
or nothing to the atomic record (`TurnStep`).

`ObservationProofs`, of the coordinator: `TypeCorrect`, `BindingsArePublished`,
`AcceptedReachesStore`, `Monotone`. The invariant orders versions along the way
a fact travels: of a key only one ticket is past its lock (`OneLocked`), what it
has read is no older than what was accepted and no newer than the source
(`WorkOrder`, `SourceOrder`), the composition is that of the accepted halves
(`Composed`), the store is not ahead of it (`StoreOrder`), and what the Agent
Runs were bound to is not ahead of the composition (`AgentOrder`). One lemma per
action. Assumed: `CoordinatorAssumption` and `NoneAssumption`.

`ObservationProofs`, of the runner: `RunnerTypeCorrect`, `GateAlwaysReopens`,
`RunnerKeepsStore`, on top of the coordinator's invariant. `GateReopens` is not
inductive: a late message of an earlier ticket would release a newer one's gate.
`Posts` rules it out, since a posted outcome is of the ticket its key has in
flight, which has ended, and is the only one of that key. A handler is then
followed along its plan: `Sound` says which keys the plan may hold and what it
may request once some were released, each of `Released`, `Scheduled` and `Rerun`
keeps it, and `CarryStep` turns a sound plan into the invariant of the next
state. `HandledStep` is the coordinator's side, publishing and requesting at
once. Assumed besides: `RunnerAssumption`.

`RateLimitPauseProofs`: `TypeCorrect`, `OneAttemptEach`, `LateAnswersIgnored`,
`PauseKept`, `PointsFall`. The invariant is about tickets: none is newer than the
generation, a request in flight when the pause began has an older one
(`OlderOutdated`), and while a pause is in force the current ticket means an
attempt was sent (`CurrentIsAttempt`). `AttemptsPressed` counts the attempt still
allowed along with those sent. Assumed: the durations are positive, and
`DoublingsAssumption`, that the doublings reach the limit and that the powers of
two up to it are numbers, which the provers have no facts about and TLC evaluates.

`RunningCommandsProofs`: `TypeCorrect`, `EveryoneAsked`, `OwnResults`,
`NoOrphans`. The invariant ties how far a command has ended to where its runner
is (`Leaders`: the leader of a group is not reaped before it is killed), a
leader that was asked to the mark its runner will judge by (`AskedIsMarked`), and
says of the exit that a command still holding its runner has been asked, or is
still to be looked at (`Exit`). Assumed: `Sessions` are Booleans, `None` is no
runner.

`CleanupFlowProofs`: `CleanupTypeCorrect`, `WorkIsKept`, `HeadIsKept`,
`MutationsExclude`, `EvidenceIsCurrent`. The inductive invariant `Inv` has these
parts. `Control` says which of the workers there may be beside which hold and
screen: a fetch inside a preview while that preview is busy or gone, a Cleanup
performed only while nothing fetches. `Reached` and `Kept` are about commits:
`NoWorkLost`, with what was fetched of the Integration Branch and what it reaches
being part of what it holds; and, for every preview from its inspection to its
performance, that what it found integrated, by its commits or by content, is so
(`Integrated`), and that what is about to be deleted was disclosed (`dropped`).
Without `Kept` `NoWorkLost` is not inductive, since nothing would keep the previewed
facts true until the deletion. `Attached` says the same of the Worktree: with the
Worktree still there, its Branch is not next. `Evidence` orders the fetches
behind what is shown, observed and waited for by generation. Assumed:
`BoundsAssumption` and `NoneAssumption`.

`PageQueriesProofs`: `TypeCorrect`, `WalkIsOne`, `StaleOwned`, `ShownKept`. The
invariant has three parts beside the types and `StaleIsOwn`. `Walk` is `OneWalk`
and what it rests on: every page past the first was paged to. `Pending` says that
the query that runs and the ticket that waits fit the walk as it is displayed
(`Fits`), unless a newer ticket was issued: without it a landed page could be
appended behind a page it does not continue. `Answered` ties an answer to the
query that runs. Assumed: `PageAssumption` and `NoneAssumption`.

`WorkStoreProofs`: `TypeCorrect`, `NothingLost`, `HomeIsOne`, `EndedForGood`,
`OwnerKeeps`, for any number of Worktrees, Host Processes, hooks and commands.
The invariant speaks of one worker at a time. `HooksHeld` says which hook stores'
locks a move has, and `ReadsAll`, which rests on it, is the heart: a move that
holds them all knows that the run of a Worktree where it read nothing is not at
any other Worktree either, so that the copy it writes has no third home.
`MovesOne` and `Between` keep the source, its locks and both copies in place from
the first write to the second; `Entitled` says that what a worker is about to
change is its own Host Process's or that of one that is gone, and gone for good.
`FoundGone` says the same of the records a pass is about to prune.
`Twins` is `OneHome` for two Worktrees, without the counting. Each action has one
lemma, which gives the invariant and both action properties (`Good`). None of it
depends on which processes are daemons or exclusive. Assumed:
`WorkStoreAssumption` and `NoneAssumption`.

`OpenCodePluginProofs`: `WellTyped`, `DeletedForGood`, `UnobservedIsUnknown`,
`OnePublication`, `WorkingListed`, for any number of sessions, locations, plugin
instances and publications in a queue. Five invariants, each resting on those
before it:

* `Shape` is the types, with what an event of each type carries (`Sane`) and
  where the one being served has got (`Served`). `DeletedForGood` needs no more:
  each way to write a record is looked at where its root is in `gone`.
* `Known` and `Silent`: only where something was routed is there a record, and
  once nobody listens or drains, only recovered deletions are still queued, and an
  unmarked record that reads as running has had one written late, or is still to be
  marked by an instance that is marking.
* `Heard` gives `OnePublication`. That two publications are of different roots is
  clear of roots' own queues; a child's own queue is the difficulty. While every
  event is received OpenCode's creations come in order (`InOrder`), so the
  registry knows every session that is not deleted (`Announced`), and a child's
  queue holds only what its turn cannot find any more (`Stranded`).
* `Settled` says what holds of records and queues whatever the events say: who is
  listed (`Owned`), that nothing is marked while somebody listens (`Steady`), that
  deletions are of deleted sessions (`Buried`), that a queue is one family's
  (`Families`) and that a move about to arrive has just been written where it
  left (`Underway`), so that its record is the fresher of the two.
* `Listings` gives `WorkingListed`. `ChildrenListed` speaks of the moment when
  nothing is on its way; what is invariant speaks of all that is. For a root and
  one child of it a *moment* is where the root is, whether the child works or is
  deleted, and the last event of each. There is a moment the stores hold (`Fits`: the
  child is listed where the root is and nowhere else, and no record of the root is
  fresher than the one there, `Current`, so that a move is not seeded from elsewhere;
  only a recovered deletion breaks that, and puts the root in `overtaken`),
  one the registry knows (`Knows`) and one OpenCode is at (`Reached`), and the
  queue leads from the first to the second and the stream from there to the third
  (`Path`), each event by the step it stands for (`Follows`). Emitting lengthens
  the second path, `Admit` moves an event from one path to the other, a
  publication shortens the first. With both empty the three moments are one. That
  a path can be cut, joined and carried over is by induction on its length, with
  `Counting`, induction over the numbers on a set, from the library's facts about
  well-founded relations.

Assumed: `ConstantsAssumption` (finitely many sessions, of which children have
roots without a parent; Projects among the locations; a limit of at least one)
and `NoneAssumption`.

Only model-checked: liveness under fairness and `ENABLED`, which this prover does
not reach. The library's induction theorems that take an operator, and with them
what a recursive definition computes, are out of its reach too. The modules
use no RECURSIVE operator, so that they can be proved about.

## 5. Findings

`rate_limit_reading`. `LatestRateLimit.record` is documented to "Hold ``reading``
as the most recent, unless it is older than the one held"
(`github/github.py:190`), but it compares readings of the same reset only. Two
concurrent requests whose answers straddle the reset may be recorded in the
other order, and then the reading of the window that is over replaces the current
one: the low-points warning follows the wrong window, and a primary refusal next
waits a backoff instead of the reset the lost reading named. The run shows the
shortest such history, and stands until the next reading is recorded. Within one
window, where the docstring's comparison applies, `PointsOnlyFall` is proved.

`open_code_overtakes`. The comment on the plugin's queues says that a root's
publications and its children's reach the helper "one at a time, in the order
they were admitted, so a child's event never overtakes its root's move"
(`plugins/opencode.js:214`), and `_arrive` rests on it: "so none of them is
written there before the move" (`sessions/opencode_publish.py:545`). But a child
the registry does not know at admission (its creation was received by nobody, or
it was forgotten) is queued under its own id; it is read at its turn and routed
to where its root is *then*, while the root's move is still in the root's queue.
The child's start is then written at the destination first, and the arrival,
which seeds its list from the record left, forgets it. With every event received
the order holds (`OneAtATime`).

## 6. Not modelled

* Git, GitHub and Markdown sources as parsers: they read an answer once and keep
  no state beyond what the modules above have. Their failures are outcomes of the
  actions that read.
* Views, key bindings, layout, Markdown rendering, command line parsing, wiring
  (`composition.py`), configuration read once at start.
* Telemetry (refresh spans, change events, Runtime Events): it decides nothing.
* Codex's Relocation Intent: it decides from process ancestry and moves the run by
  the steps `WorkStore` has; Worker Assignments share the same compare and swap.
* Conversation Switches; the tags of other Host Processes' Sub-agents, and the
  records a pass keeps or prunes for Sub-agents' sake.
* Worktree creation. Its roll-back deletes the Branch with `git branch -D`, after
  looking that it "still points at the base commit" (ADR 0011), without an old
  value: a commit made between the two would go with it. It is a hazard of the
  list without a property.
* Attendance, the Event Log's files, harness integration: clock arithmetic,
  telemetry and one-shot writes.
* `scripts/experiments`: some fifty thousand lines of disposable scripts that
  drive agent harnesses and print what these did. They are linear, have no state
  of their own and are never run by the program, so nothing in them is modelled;
  of the repository's JavaScript only `plugins/opencode.js` is part of it, and
  that file is modelled but for its shell hook.

## 7. Plan

What is left, in order of what could go wrong:

1. Conversation Switches, extending the records of `OpenCodePlugin`
   to several Host Processes.
2. The Relocation Intent, extending `WorkStore`.
3. The roll-back of Worktree creation.
4. Sessions a registration finds gone ahead of their own events: whether the
   deletion should be written at every store routed to, which would let
   `ChildrenListed` hold without its exception.
