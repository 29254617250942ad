------------------------------ MODULE WorkStore ------------------------------
(***************************************************************************)
(* The Agent Runs of one Agent Session across the Worktrees of one         *)
(* Repository: sessions/work_store.py, the reconciliation of the hooks     *)
(* (work_reconciliation.py, in the order hook_publish.py calls it) and the *)
(* commands `work start`, `work stop` and `work stop --session` (work.py). *)
(* Each hook and each command is an operating-system process of its own;   *)
(* they meet only in the records of each Worktree and in their locks.      *)
(* Beside them the dashboard observes the records and prunes what nobody   *)
(* needs any more (agent_runs.py).                                         *)
(* A Worktree is its position in path order.                               *)
(***************************************************************************)
EXTENDS Integers, FiniteSets

CONSTANTS
    Worktrees,   \* of the Repository, in path order
    Processes,   \* Host Processes that may run the session
    Workers,     \* hook and command processes running at once
    Exclusive,   \* exclusive_session_process: one session a Host Process
    Daemons,     \* managed Codex daemons, whose SessionEnd is deferred
    Uses,        \* bound: the kinds of hook and command, and "observe"
    MaxTime,     \* bound: events stamped and runs started
    None

ASSUME WorkStoreAssumption ==
    /\ Worktrees \subseteq Nat /\ IsFiniteSet(Worktrees)
    /\ Exclusive \in BOOLEAN /\ MaxTime \in Nat

\* Codex runs many threads in a daemon; Claude Code one session in a process.
ASSUME DaemonAssumption == Daemons \subseteq Processes /\ (Daemons # {} => ~Exclusive)

Times == 1..MaxTime
Runs == [started : Times, process : Processes, at : Worktrees]
Records == [process : Processes, stamp : Times, started : 0..MaxTime]
HookKinds == {"start", "prompt", "move", "end"}
Kinds == HookKinds \cup {"declare", "stop", "reap", "settle"}
Steps == {"publish", "lock", "look", "adopt", "read", "move", "unlink",
          "declare", "remove", "sweep", "settle"}
Work == [kind : Kinds, process : Processes \cup {None}, at : Worktrees,
         stamp : 0..MaxTime, step : Steps, todo : SUBSET Worktrees,
         seen : [Worktrees -> Runs \cup {None}]]

Passes == [step : {"scan", "claim", "prune"}, todo : SUBSET Worktrees,
           found : [Worktrees -> Records \cup {None}]]

ASSUME NoneAssumption ==
    None \notin Runs \cup Records \cup Work \cup Workers \cup Processes

VARIABLES
    run,        \* the Work Store record at each Worktree
    record,     \* the session's hook record at each Worktree
    runLock, hookLock,   \* who holds each record's lock
    process,    \* each Host Process: "unborn", "live" or "gone"
    now,        \* the clock
    worker,     \* what each running hook or command is doing
    pass,       \* the dashboard's observation of the records and runs
    ended,      \* history: runs a command or a SessionEnd ended
    torn        \* history: runs a crash left at two Worktrees

vars == <<run, record, runLock, hookLock, process, now, worker, pass, ended, torn>>

Nowhere == [w \in Worktrees |-> None]
Scanning == [step |-> "scan", todo |-> Worktrees, found |-> Nowhere]

Init ==
    /\ run = Nowhere /\ record = Nowhere
    /\ runLock = Nowhere /\ hookLock = Nowhere
    /\ process = [p \in Processes |-> "unborn"]
    /\ now = 0
    /\ worker = [k \in Workers |-> None]
    /\ pass = Scanning
    /\ ended = {} /\ torn = {}

-----------------------------------------------------------------------------
Next1(S) == CHOOSE w \in S : \A v \in S : w <= v
Freed(lock, k) == [w \in Worktrees |-> IF lock[w] = k THEN None ELSE lock[w]]

\* A probe answers "gone" only of a process that is; it may not answer.
Probes(p) == {FALSE, process[p] = "gone"}

\* The session's freshest current record is at w (SessionHistory.current).
PlacedAt(w) ==
    /\ record[w] # None /\ process[record[w].process] # "gone"
    /\ \A v \in Worktrees :
         record[v] # None /\ process[record[v].process] # "gone"
            => record[v].stamp <= record[w].stamp

Become(k, s, todo) == worker' = [worker EXCEPT ![k].step = s, ![k].todo = todo]
Forget(k, s, todo) ==
    worker' = [worker EXCEPT ![k].step = s, ![k].todo = todo, ![k].seen = Nowhere]
Finish(k) == worker' = [worker EXCEPT ![k] = None]

Seen(k) == {w \in Worktrees : worker[k].seen[w] # None}

\* spawn_settler, the last step of a deferred end: a process that outlives both.
Settler(k) == worker' = [worker EXCEPT ![k].kind = "settle", ![k].step = "settle",
                                       ![k].seen = Nowhere]

\* A hook's route once its orphan was looked at, and once W is left to end.
AfterLook(k) ==
    IF worker[k].kind = "end" THEN Forget(k, "read", Worktrees) ELSE Finish(k)
ToRemove(k, W) ==
    IF W # {} THEN Become(k, "remove", W)
    ELSE IF worker[k].kind = "end" THEN Forget(k, "publish", {}) ELSE Finish(k)

-----------------------------------------------------------------------------
(* Host Processes, and the hooks and commands they start.                  *)

Spawn(p) ==
    /\ process[p] = "unborn"
    /\ process' = [process EXCEPT ![p] = "live"]
    /\ UNCHANGED <<run, record, runLock, hookLock, now, worker, pass, ended, torn>>

Exit(p) ==
    /\ process[p] = "live"
    /\ process' = [process EXCEPT ![p] = "gone"]
    /\ UNCHANGED <<run, record, runLock, hookLock, now, worker, pass, ended, torn>>

Begin(k, kind, p, w, stamp, s, todo) ==
    /\ worker[k] = None /\ kind \in Uses
    /\ worker' = [worker EXCEPT ![k] =
          [kind |-> kind, process |-> p, at |-> w, stamp |-> stamp,
           step |-> s, todo |-> todo, seen |-> Nowhere]]

\* publish_hook_event: an end looks for an orphan before it publishes.
Hook(k, kind, p, w) ==
    /\ process[p] = "live" /\ now < MaxTime
    /\ now' = now + 1
    /\ Begin(k, kind, p, w, now', IF kind = "end" THEN "look" ELSE "publish", {})
    /\ UNCHANGED <<run, record, runLock, hookLock, process, pass, ended, torn>>

\* start_issue_work: only where the hooks place the session.
StartIssueWork(k, p, w) ==
    /\ process[p] = "live" /\ PlacedAt(w)
    /\ Begin(k, "declare", p, w, 0, "read", Worktrees)
    /\ UNCHANGED <<run, record, runLock, hookLock, process, now, pass, ended, torn>>

StopIssueWork(k, p, w) ==
    /\ process[p] = "live"
    /\ Begin(k, "stop", p, w, 0, "read", Worktrees)
    /\ UNCHANGED <<run, record, runLock, hookLock, process, now, pass, ended, torn>>

\* `work stop --session`, by a person: the run left at this Worktree.
StopOrphan(k, w) ==
    /\ Begin(k, "reap", None, w, 0, "read", {w})
    /\ UNCHANGED <<run, record, runLock, hookLock, process, now, pass, ended, torn>>

-----------------------------------------------------------------------------
(* Writing the hook record, and locking the session's hook stores.         *)

\* HookRecordStore.write
Publish(k) ==
    LET me == worker[k]
        previous == record[me.at]
        begun == IF me.kind = "start" THEN me.stamp
                 ELSE IF previous = None THEN 0 ELSE previous.started
        kept == me.kind = "end" /\ previous # None
                  /\ (previous.process # me.process \/ previous.stamp > me.stamp)
    IN  /\ me # None /\ me.step = "publish" /\ hookLock[me.at] = None
        /\ record' = IF kept THEN record ELSE [record EXCEPT ![me.at] =
                IF me.kind = "end" THEN None
                ELSE [process |-> me.process, stamp |-> me.stamp, started |-> begun]]
        /\ CASE me.kind = "end"  -> Become(k, "sweep", Worktrees \ {me.at})
             [] me.kind = "move" -> Become(k, "lock", Worktrees)
             [] OTHER            -> Become(k, "look", {})
        /\ UNCHANGED <<run, runLock, hookLock, process, now, pass, ended, torn>>

\* Mutant: a hook takes the lock of its own store first.
NextLockOwnFirst(k) ==
    LET me == worker[k] IN IF me.at \in me.todo THEN me.at ELSE Next1(me.todo)

\* locked_session_stores takes the locks in path order.
NextLock(k) == Next1(worker[k].todo)

LockStore(k) ==
    LET me == worker[k]
        w == NextLock(k)
    IN  /\ me # None /\ me.step \in {"lock", "sweep"} /\ me.todo # {}
        /\ hookLock[w] = None
        /\ hookLock' = [hookLock EXCEPT ![w] = k]
        /\ worker' = [worker EXCEPT ![k].todo = @ \ {w}]
        /\ UNCHANGED <<run, record, runLock, process, now, pass, ended, torn>>

\* remove_ended_session_records
Sweep(k) ==
    LET me == worker[k]
        stale(w) == /\ w # me.at /\ record[w] # None
                    /\ record[w].process = me.process /\ record[w].stamp <= me.stamp
    IN  /\ me # None /\ me.step = "sweep" /\ me.todo = {}
        /\ record' = [w \in Worktrees |-> IF stale(w) THEN None ELSE record[w]]
        /\ hookLock' = Freed(hookLock, k)
        /\ IF Seen(k) = {} THEN Finish(k) ELSE Settler(k)
        /\ UNCHANGED <<run, runLock, process, now, pass, ended, torn>>

-----------------------------------------------------------------------------
(* The Live Relocation of carry_live_session_work.                         *)

Elsewhere(k) == {w \in Worktrees : w # worker[k].at /\ record[w] # None}

\* _live_origin: the Worktree of the freshest record elsewhere.
Origin(k) == CHOOSE w \in Elsewhere(k) :
                \A v \in Elsewhere(k) : record[v].stamp <= record[w].stamp

Moved(k) ==
    LET me == worker[k]
    IN  /\ record[me.at] # None /\ record[me.at].stamp = me.stamp
        /\ Elsewhere(k) # {}
        /\ record[Origin(k)].stamp <= me.stamp
        /\ record[Origin(k)].process = me.process
        /\ record[me.at].started <= record[Origin(k)].stamp

Located(k) ==
    /\ worker[k] # None /\ worker[k].step = "lock" /\ worker[k].todo = {}
    /\ IF Moved(k)
       THEN /\ Become(k, "read", Worktrees)
            /\ UNCHANGED hookLock
       ELSE /\ Forget(k, "look", {})
            /\ hookLock' = Freed(hookLock, k)
    /\ UNCHANGED <<run, record, runLock, process, now, pass, ended, torn>>

\* The Work Store records are read one Worktree after another, unlocked;
\* `work start` reads its own Worktree last.
Read(k) ==
    LET me == worker[k]
        others == IF me.kind = "declare" THEN me.todo \ {me.at} ELSE me.todo
        w == IF others = {} THEN me.at ELSE Next1(others)
    IN  /\ me # None /\ me.step = "read" /\ me.todo # {}
        /\ worker' = [worker EXCEPT ![k].todo = @ \ {w}, ![k].seen[w] = run[w]]
        /\ UNCHANGED <<run, record, runLock, hookLock, process, now, pass, ended, torn>>

HasRead(k, kinds) ==
    /\ worker[k] # None /\ worker[k].step = "read" /\ worker[k].todo = {}
    /\ worker[k].kind \in kinds

Source(k) == CHOOSE w \in Seen(k) : w # worker[k].at

\* Mutant: the moved run keeps the working directory it had.
RelocatedInPlace(k) == worker[k].seen[Source(k)]

\* What the move leaves at its target: the copy a crash left there, or the
\* run with the hook's working directory.
Relocated(k) ==
    LET me == worker[k]
        here == me.seen[me.at]
        from == me.seen[Source(k)]
    IN  IF here # None /\ here.started = from.started THEN here
        ELSE [from EXCEPT !.at = me.at]

\* The records a move holds locked.
MoveLocks(k) == {worker[k].at, Source(k)}

\* _carry_run: one run elsewhere, at the origin, of this Host Process.
Carry(k) ==
    LET me == worker[k]
        others == Seen(k) \ {me.at}
    IN  /\ HasRead(k, {"move"})
        /\ IF /\ Cardinality(others) = 1
              /\ others = {Origin(k)}
              /\ me.seen[Source(k)].process = me.process
           THEN /\ Become(k, "move", MoveLocks(k))
                /\ UNCHANGED hookLock
           ELSE /\ Forget(k, "look", {})
                /\ hookLock' = Freed(hookLock, k)
        /\ UNCHANGED <<run, record, runLock, process, now, pass, ended, torn>>

\* complete_relocation takes both record locks in path order.
LockRun(k) ==
    LET me == worker[k]
        w == Next1(me.todo)
    IN  /\ me # None /\ me.step = "move" /\ me.todo # {}
        /\ runLock[w] = None
        /\ runLock' = [runLock EXCEPT ![w] = k]
        /\ worker' = [worker EXCEPT ![k].todo = @ \ {w}]
        /\ UNCHANGED <<run, record, hookLock, process, now, pass, ended, torn>>

Release(k) == /\ runLock' = Freed(runLock, k)
              /\ hookLock' = Freed(hookLock, k)

\* Mutant: the move does not look at its source again.
UnchangedTarget(k) == run[worker[k].at] \in {None, Relocated(k)}

\* The target is written while the source still holds the run it read.
Unchanged(k) ==
    LET me == worker[k]
    IN  /\ run[Source(k)] = me.seen[Source(k)]
        /\ run[me.at] \in {None, Relocated(k)}

\* Mutant: the source goes before the target is written.
SourceFirst(k) == [run EXCEPT ![Source(k)] = None]

\* The target is written first: a crash leaves two copies, never none.
TargetFirst(k) == [run EXCEPT ![worker[k].at] = Relocated(k)]

WriteTarget(k) ==
    LET me == worker[k]
    IN  /\ me # None /\ me.step = "move" /\ me.todo = {}
        /\ IF Unchanged(k)
           THEN /\ run' = TargetFirst(k)
                /\ Become(k, "unlink", {})
                /\ UNCHANGED <<runLock, hookLock>>
           ELSE /\ Forget(k, "look", {})
                /\ Release(k)
                /\ UNCHANGED run
        /\ UNCHANGED <<record, process, now, pass, ended, torn>>

\* Mutant: a source that cannot be unlinked is passed over as moved.
UnlinkSuppressed(k) ==
    /\ worker[k] # None /\ worker[k].step = "unlink"
    /\ Release(k) /\ Finish(k)
    /\ UNCHANGED <<run, record, process, now, pass, ended, torn>>

UnlinkSource(k) ==
    LET me == worker[k]
    IN  /\ me # None /\ me.step = "unlink"
        /\ run' = [run EXCEPT ![Source(k)] = None]
        /\ torn' = torn \ ({me.seen[Source(k)].started} \ ended)
        /\ Release(k) /\ Finish(k)
        /\ UNCHANGED <<record, process, now, pass, ended>>

-----------------------------------------------------------------------------
(* continue_session_work: a run whose Host Process is proved gone.         *)

Look(k) ==
    LET me == worker[k]
        found == run[me.at]
    IN  /\ me # None /\ me.step = "look"
        /\ \E gone \in IF found = None THEN {FALSE} ELSE Probes(found.process) :
             IF Exclusive /\ gone /\ found.process # me.process
             THEN worker' = [worker EXCEPT ![k].step = "adopt", ![k].seen[me.at] = found]
             ELSE AfterLook(k)
        /\ UNCHANGED <<run, record, runLock, hookLock, process, now, pass, ended, torn>>

\* Mutant: whatever record is there is taken for the one read.
StillRecordedAlways(k, w) == worker[k].seen[w] = None => run[w] = None

\* The complete record a worker read is still the one recorded.
StillRecorded(k, w) == run[w] = worker[k].seen[w]

\* replace_current
Adopt(k) ==
    LET me == worker[k]
    IN  /\ me # None /\ me.step = "adopt" /\ runLock[me.at] = None
        /\ run' = IF StillRecorded(k, me.at)
                  THEN [run EXCEPT ![me.at] = [me.seen[me.at] EXCEPT !.process = me.process]]
                  ELSE run
        /\ AfterLook(k)
        /\ UNCHANGED <<record, runLock, hookLock, process, now, pass, ended, torn>>

-----------------------------------------------------------------------------
(* Ending runs: end_session_runs, _stop_session_runs, and a person's stop. *)

\* refuse_other_host_process, for every run in W
Owned(k, W) == \A w \in W : LET p == worker[k].seen[w].process
                            IN  p = worker[k].process \/ process[p] = "gone"

\* session_runs_to_end: of the ending Host Process, and begun before the end.
Endable(k) == {w \in Seen(k) : /\ worker[k].seen[w].process = worker[k].process
                               /\ worker[k].seen[w].started <= worker[k].stamp}

\* defers_session_end: pending_session_end writes nothing.
Deferred(k) == worker[k].kind = "end" /\ worker[k].process \in Daemons

Choose(k) ==
    /\ HasRead(k, {"end", "stop", "reap", "settle"})
    /\ IF Deferred(k) /\ Endable(k) # {} THEN Become(k, "publish", {})
       ELSE IF worker[k].kind \in {"end", "settle"} THEN ToRemove(k, Endable(k))
       ELSE IF Owned(k, Seen(k)) THEN ToRemove(k, Seen(k))
       ELSE Finish(k)
    /\ UNCHANGED <<run, record, runLock, hookLock, process, now, pass, ended, torn>>

\* stop_current, at one Worktree after another; only an end goes on past a
\* run that changed.
Remove(k) ==
    LET me == worker[k]
        w == Next1(me.todo)
        same == StillRecorded(k, w)
    IN  /\ me # None /\ me.step = "remove" /\ me.todo # {} /\ runLock[w] = None
        /\ run' = IF same THEN [run EXCEPT ![w] = None] ELSE run
        /\ ended' = IF same THEN ended \cup {me.seen[w].started} ELSE ended
        /\ IF same \/ me.kind \in {"end", "settle"} THEN ToRemove(k, me.todo \ {w}) ELSE Finish(k)
        /\ UNCHANGED <<record, runLock, hookLock, process, now, pass, torn>>

\* settle_session_end: only a daemon seen live at the deadline unloaded the
\* thread; one that is gone was restarted, and nothing follows from silence.
Settle(k) ==
    LET me == worker[k]
    IN  /\ me # None /\ me.step = "settle"
        /\ \E live \in {FALSE, process[me.process] = "live"} :
             IF live THEN Forget(k, "read", Worktrees) ELSE Finish(k)
        /\ UNCHANGED <<run, record, runLock, hookLock, process, now, pass, ended, torn>>

-----------------------------------------------------------------------------
(* start_issue_work                                                        *)

Decide(k) ==
    /\ HasRead(k, {"declare"})
    /\ IF Owned(k, Seen(k)) THEN Become(k, "declare", {}) ELSE Finish(k)
    /\ UNCHANGED <<run, record, runLock, hookLock, process, now, pass, ended, torn>>

\* WorkStore.start where there was none, replace_current where there was;
\* past the bound the command fails.
Declare(k) ==
    LET me == worker[k]
        previous == me.seen[me.at]
    IN  /\ me # None /\ me.step = "declare" /\ runLock[me.at] = None
        /\ IF StillRecorded(k, me.at) /\ now < MaxTime
           THEN /\ now' = now + 1
                /\ run' = [run EXCEPT ![me.at] =
                      [started |-> now', process |-> me.process, at |-> me.at]]
                /\ ended' = IF previous = None THEN ended ELSE ended \cup {previous.started}
                /\ ToRemove(k, Seen(k) \ {me.at})
           ELSE Finish(k) /\ UNCHANGED <<run, now, ended>>
        /\ UNCHANGED <<record, runLock, hookLock, process, pass, torn>>

\* A hook or a command fails or is killed: the kernel drops its locks.
Crash(k) ==
    /\ worker[k] # None
    /\ torn' = IF worker[k].step = "unlink"
               THEN torn \cup {worker[k].seen[Source(k)].started} ELSE torn
    /\ Release(k) /\ Finish(k)
    /\ UNCHANGED <<run, record, process, now, pass, ended>>

-----------------------------------------------------------------------------
(* The dashboard's passes (observe_agent_runs), one after another. A pass  *)
(* prunes the hook records of gone processes that no Orphaned Agent Run    *)
(* needs; ended records, and those they supersede, are not kept here.      *)

\* scan_hook_stores reads one store after another, unlocked.
Scan ==
    LET w == Next1(pass.todo)
    IN  /\ "observe" \in Uses
        /\ pass.step = "scan" /\ pass.todo # {}
        /\ pass' = [pass EXCEPT !.todo = @ \ {w}, !.found[w] = record[w]]
        /\ UNCHANGED <<run, record, runLock, hookLock, process, now, worker, ended, torn>>

\* On to the records found at T; with none left the pass is over.
Go(s, T, found) ==
    pass' = IF \A w \in T : found[w] = None THEN Scanning
            ELSE [step |-> s, todo |-> T, found |-> found]

\* LivenessProbe: one answer of each process for the whole pass.
Classify ==
    /\ pass.step = "scan" /\ pass.todo = {}
    /\ \E Gone \in SUBSET {p \in Processes : process[p] = "gone"} :
         Go("claim", Worktrees, [w \in Worktrees |->
            IF pass.found[w] # None /\ pass.found[w].process \in Gone
            THEN pass.found[w] ELSE None])
    /\ UNCHANGED <<run, record, runLock, hookLock, process, now, worker, ended, torn>>

\* LastSeenIndex.claim, of the run at one Worktree after another.
Claim ==
    LET w == Next1(pass.todo)
        claimed(v) == run[w] # None /\ run[w].process = pass.found[v].process
        found == [v \in Worktrees |->
                    IF pass.found[v] # None /\ ~claimed(v) THEN pass.found[v] ELSE None]
    IN  /\ pass.step = "claim"
        /\ IF pass.todo = {w} THEN Go("prune", {v \in Worktrees : found[v] # None}, found)
           ELSE pass' = [pass EXCEPT !.todo = @ \ {w}, !.found = found]
        /\ UNCHANGED <<run, record, runLock, hookLock, process, now, worker, ended, torn>>

\* Mutant: whatever the store has is taken for the record found.
StillFoundAlways(w) == record[w] # None

\* The stored record still equals the one observed.
StillFound(w) == record[w] = pass.found[w]

\* HookRecordStore.prune, of one record after another.
Prune ==
    LET w == Next1(pass.todo)
    IN  /\ pass.step = "prune" /\ hookLock[w] = None
        /\ record' = IF StillFound(w) THEN [record EXCEPT ![w] = None] ELSE record
        /\ pass' = IF pass.todo = {w} THEN Scanning ELSE [pass EXCEPT !.todo = @ \ {w}]
        /\ UNCHANGED <<run, runLock, hookLock, process, now, worker, ended, torn>>

\* A pass that fails, or whose dashboard is left.
Abandon ==
    /\ pass # Scanning /\ pass' = Scanning
    /\ UNCHANGED <<run, record, runLock, hookLock, process, now, worker, ended, torn>>

Pass == Scan \/ Classify \/ Claim \/ Prune \/ Abandon

Step(k) ==
    \/ Publish(k) \/ LockStore(k) \/ Sweep(k)
    \/ Located(k) \/ Read(k) \/ Carry(k) \/ LockRun(k) \/ WriteTarget(k) \/ UnlinkSource(k)
    \/ Look(k) \/ Adopt(k)
    \/ Choose(k) \/ Remove(k) \/ Settle(k)
    \/ Decide(k) \/ Declare(k)

Next ==
    \/ Pass
    \/ \E p \in Processes : Spawn(p) \/ Exit(p)
    \/ \E k \in Workers :
         \/ \E p \in Processes, w \in Worktrees :
              \/ \E kind \in HookKinds : Hook(k, kind, p, w)
              \/ StartIssueWork(k, p, w) \/ StopIssueWork(k, p, w)
         \/ \E w \in Worktrees : StopOrphan(k, w)
         \/ Crash(k) \/ Step(k)

Spec == Init /\ [][Next]_vars

\* The operating system runs every hook and command to its end.
FairSpec == Spec /\ \A k \in Workers : WF_vars(Step(k))

-----------------------------------------------------------------------------
TypeOK ==
    /\ run \in [Worktrees -> Runs \cup {None}]
    /\ \A w \in Worktrees : run[w] # None => run[w].at = w
    /\ record \in [Worktrees -> Records \cup {None}]
    /\ runLock \in [Worktrees -> Workers \cup {None}]
    /\ hookLock \in [Worktrees -> Workers \cup {None}]
    /\ process \in [Processes -> {"unborn", "live", "gone"}]
    /\ now \in 0..MaxTime
    /\ worker \in [Workers -> Work \cup {None}]
    /\ pass \in Passes
    /\ ended \subseteq Times /\ torn \subseteq Times

Held == {run[w].started : w \in {v \in Worktrees : run[v] # None}}
Homes(id) == {w \in Worktrees : run[w] # None /\ run[w].started = id}
Moving(id) == \E k \in Workers : /\ worker[k] # None /\ worker[k].step = "unlink"
                                 /\ worker[k].seen[Source(k)].started = id

\* A move never loses a run, whatever else happens beside it and wherever it
\* is cut: what a Worktree once held is still held somewhere, unless a
\* command or a SessionEnd ended it.
NoRunLost == [][Held \ ended \subseteq Held' \cup ended']_vars

\* A run is at two Worktrees only during its move, or after a crash cut that
\* move in two and until a later move takes it on.
OneHome == \A id \in Held : Cardinality(Homes(id)) > 1 => id \in torn \/ Moving(id)

\* A run that was ended or replaced is not brought back by a move or an
\* orphan continuation that had read it before.
EndedStaysEnded == ended \cap Held \subseteq torn

\* While a Host Process lives, only its own hooks and commands change the run
\* or remove the hook record that names it: of two clients resuming a session
\* together only the first takes its run, a late SessionEnd takes neither from
\* the other, and no observation prunes what was published since it looked.
OwnerKeepsRun == [][
    \A w \in Worktrees, p \in Processes :
       /\ process[p] = "live"
       /\ \/ run[w] # None /\ run[w].process = p /\ run'[w] # run[w]
          \/ record[w] # None /\ record[w].process = p /\ record'[w] = None
       => \E k \in Workers : /\ worker[k] # None /\ worker'[k] # worker[k]
                              /\ worker[k].process = p]_vars

\* Every hook and command ends: locks taken in several stores never leave
\* two of them waiting for each other.
WorkersEnd == \A k \in Workers : worker[k] # None ~> worker[k] = None
=============================================================================
