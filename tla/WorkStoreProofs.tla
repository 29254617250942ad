-------------------------- MODULE WorkStoreProofs --------------------------
(***************************************************************************)
(* Proofs that a move loses no run, that a run is at two Worktrees only in *)
(* a move or after a cut one, that what was ended stays ended, and that    *)
(* only its own Host Process's hooks and commands touch a live process's   *)
(* run, for any number of Worktrees, Host Processes, hooks and commands.   *)
(***************************************************************************)
EXTENDS WorkStore, FiniteSetTheorems, WellFoundedInduction, TLAPS

-----------------------------------------------------------------------------
(* The inductive invariant: the clock, each hook or command, and the runs. *)

\* Whatever was recorded or read was started before now; it says where it was.
Stamped ==
    /\ \A w \in Worktrees : run[w] # None => run[w].started <= now
    /\ \A k \in Workers, w \in Worktrees :
         worker[k] # None /\ worker[k].seen[w] # None =>
           worker[k].seen[w].started <= now /\ worker[k].seen[w].at = w
    /\ \A id \in ended : id <= now

\* A move holds the session's hook stores until it ends; only it has them all.
HooksHeld(k) ==
    worker[k].kind = "move" =>
      /\ worker[k].step = "lock" => \A w \in Worktrees \ worker[k].todo : hookLock[w] = k
      /\ worker[k].step \in {"read", "move", "unlink"} => \A w \in Worktrees : hookLock[w] = k

\* What it read nowhere is nowhere it has read: no other move runs beside it.
ReadsAll(k) ==
    worker[k].kind = "move" /\ worker[k].step \in {"read", "move"} =>
      \A w \in Worktrees, v \in Worktrees :
         /\ worker[k].seen[w] = None /\ run[w] # None
         /\ worker[k].step = "read" => w \notin worker[k].todo
         => /\ v # w /\ run[v] # None => run[v].started # run[w].started
            /\ worker[k].seen[v] # None => worker[k].seen[v].started # run[w].started

\* A move has one source, of its own Host Process, and locks both records.
MovesOne(k) ==
    worker[k].step \in {"move", "unlink"} =>
      /\ worker[k].kind = "move"
      /\ Seen(k) \ {worker[k].at} = {Source(k)}
      /\ worker[k].seen[Source(k)].process = worker[k].process
      /\ \A w \in MoveLocks(k) \ worker[k].todo : runLock[w] = k

\* Between its two writes the run is at its source and at its target only.
Between(k) ==
    worker[k].step = "unlink" =>
      /\ worker[k].todo = {}
      /\ run[Source(k)] = worker[k].seen[Source(k)]
      /\ run[worker[k].at] # None
      /\ run[worker[k].at].started = worker[k].seen[Source(k)].started
      /\ \A w \in Worktrees :
           run[w] # None /\ run[w].started = worker[k].seen[Source(k)].started
             => w \in MoveLocks(k)

\* What it is about to change is its own Host Process's, or of one gone.
Entitled(k) ==
    /\ worker[k].step = "adopt" =>
         /\ worker[k].seen[worker[k].at] # None
         /\ process[worker[k].seen[worker[k].at].process] = "gone"
    /\ worker[k].step = "declare" => Owned(k, Seen(k))
    /\ worker[k].step = "remove" => worker[k].todo \subseteq Seen(k) /\ Owned(k, worker[k].todo)

\* Who runs it: a hook and `work start` come from a Host Process.
Named(k) ==
    /\ worker[k].kind \in HookKinds \cup {"declare"} => worker[k].process \in Processes
    /\ worker[k].kind \in HookKinds => worker[k].stamp \in Times
    /\ worker[k].step \in {"publish", "lock", "look", "adopt"} => worker[k].kind \in HookKinds
    /\ worker[k].step = "declare" => worker[k].kind = "declare"
    /\ worker[k].step = "settle" => worker[k].kind = "settle"

WorkerInv(k) ==
    worker[k] # None =>
      /\ Named(k) /\ HooksHeld(k) /\ ReadsAll(k) /\ MovesOne(k) /\ Between(k) /\ Entitled(k)

\* OneHome, of two Worktrees.
Twins ==
    \A v \in Worktrees, w \in Worktrees, id \in Times :
       /\ v # w /\ run[v] # None /\ run[w] # None
       /\ run[v].started = id /\ run[w].started = id
       => id \in torn \/ Moving(id)

\* What an observation is about to prune was left by a Host Process now gone.
FoundGone ==
    pass.step \in {"claim", "prune"} =>
      \A w \in Worktrees :
         pass.found[w] # None => process[pass.found[w].process] = "gone"

IInv ==
    /\ TypeOK /\ Stamped
    /\ \A k \in Workers : WorkerInv(k)
    /\ Twins /\ EndedStaysEnded /\ FoundGone

-----------------------------------------------------------------------------
USE WorkStoreAssumption, NoneAssumption

(* The least of some Worktrees is one of them. *)
LEMMA LeastIn ==
    ASSUME NEW S \in SUBSET Worktrees, S # {}
    PROVE  Next1(S) \in S
<1> DEFINE R == {ss \in Nat \X Nat : ss[1] < ss[2]}
<1>1. IsWellFoundedOn(R, Nat)
  BY NatLessThanWellFounded DEF OpToRel
<1>2. PICK w \in S : \A v \in S : ~(<<v, w>> \in R)
  BY <1>1, WFMin
<1>3. \A v \in S : w <= v
  <2> SUFFICES ASSUME NEW v \in S PROVE w <= v
    OBVIOUS
  <2>1. v \in Nat /\ w \in Nat
    OBVIOUS
  <2>2. ~(<<v, w>> \in R)
    BY <1>2
  <2>3. ~(v < w)
    BY <2>1, <2>2
  <2> QED
    BY <2>1, <2>3
<1> QED
  BY <1>3 DEF Next1

LEMMA NoneIsNone ==
    None \notin Runs /\ None \notin Records /\ None \notin Work /\ None \notin Workers
       /\ None \notin Processes
  OBVIOUS

LEMMA WorkType ==
    ASSUME TypeOK, NEW k \in Workers, worker[k] # None
    PROVE  /\ worker[k] \in Work
           /\ worker[k].kind \in Kinds /\ worker[k].process \in Processes \cup {None}
           /\ worker[k].at \in Worktrees /\ worker[k].stamp \in 0..MaxTime
           /\ worker[k].step \in Steps /\ worker[k].todo \in SUBSET Worktrees
           /\ worker[k].seen \in [Worktrees -> Runs \cup {None}]
  BY DEF TypeOK, Work

LEMMA RunType ==
    ASSUME NEW r \in Runs
    PROVE  /\ r.started \in Nat /\ r.started \in Times
           /\ r.process \in Processes /\ r.at \in Worktrees
  BY DEF Runs, Times

\* The source of a move is a Worktree it read a run at, elsewhere.
LEMMA SourceIn ==
    ASSUME NEW k \in Workers, Seen(k) \ {worker[k].at} # {}
    PROVE  Source(k) \in Seen(k) /\ Source(k) # worker[k].at
  BY DEF Source

LEMMA SourceIs ==
    ASSUME NEW k \in Workers,
           worker'[k].seen = worker[k].seen, worker'[k].at = worker[k].at
    PROVE  Seen(k)' = Seen(k) /\ Source(k)' = Source(k) /\ MoveLocks(k)' = MoveLocks(k)
<1>1. Seen(k)' = Seen(k)
  BY DEF Seen
<1>2. Source(k)' = Source(k)
  BY <1>1 DEF Source
<1> QED
  BY <1>1, <1>2 DEF MoveLocks

-----------------------------------------------------------------------------
(* What a step makes of the hook or command that takes it.                 *)

OthersStay(k) == \A j \in Workers \ {k} : worker'[j] = worker[j]

Stepped(k, s, T, f) ==
    /\ worker' \in [Workers -> Work \cup {None}] /\ OthersStay(k)
    /\ worker'[k] \in Work
    /\ worker'[k].kind = worker[k].kind /\ worker'[k].process = worker[k].process
    /\ worker'[k].at = worker[k].at /\ worker'[k].stamp = worker[k].stamp
    /\ worker'[k].step = s /\ worker'[k].todo = T /\ worker'[k].seen = f

Finished(k) ==
    /\ worker' \in [Workers -> Work \cup {None}] /\ OthersStay(k)
    /\ worker'[k] = None

LEMMA BecomeStep ==
    ASSUME TypeOK, NEW k \in Workers, worker[k] # None, NEW s \in Steps,
           NEW T \in SUBSET Worktrees, Become(k, s, T)
    PROVE  Stepped(k, s, T, worker[k].seen)
<1>1. worker[k] \in Work /\ worker \in [Workers -> Work \cup {None}]
  BY WorkType DEF TypeOK
<1>2. worker' = [worker EXCEPT ![k] = [worker[k] EXCEPT !.step = s, !.todo = T]]
  BY <1>1 DEF Become, Work
<1>3. [worker[k] EXCEPT !.step = s, !.todo = T] \in Work
  BY <1>1 DEF Work
<1> QED
  BY <1>1, <1>2, <1>3 DEF Stepped, OthersStay, Work

LEMMA ForgetStep ==
    ASSUME TypeOK, NEW k \in Workers, worker[k] # None, NEW s \in Steps,
           NEW T \in SUBSET Worktrees, Forget(k, s, T)
    PROVE  Stepped(k, s, T, Nowhere)
<1>1. worker[k] \in Work /\ worker \in [Workers -> Work \cup {None}]
  BY WorkType DEF TypeOK
<1>2. Nowhere \in [Worktrees -> Runs \cup {None}]
  BY DEF Nowhere
<1>3. worker' = [worker EXCEPT ![k] =
                   [worker[k] EXCEPT !.step = s, !.todo = T, !.seen = Nowhere]]
  BY <1>1 DEF Forget, Work
<1>4. [worker[k] EXCEPT !.step = s, !.todo = T, !.seen = Nowhere] \in Work
  BY <1>1, <1>2 DEF Work
<1> QED
  BY <1>1, <1>3, <1>4 DEF Stepped, OthersStay, Work

LEMMA FinishStep ==
    ASSUME TypeOK, NEW k \in Workers, Finish(k)
    PROVE  Finished(k)
  BY DEF Finish, Finished, OthersStay, TypeOK

LEMMA SettlerStep ==
    ASSUME TypeOK, NEW k \in Workers, worker[k] # None, Settler(k)
    PROVE  /\ worker' \in [Workers -> Work \cup {None}] /\ OthersStay(k)
           /\ worker'[k].kind = "settle" /\ worker'[k].step = "settle"
           /\ worker'[k].seen = Nowhere
<1>1. worker[k] \in Work /\ worker \in [Workers -> Work \cup {None}]
  BY WorkType DEF TypeOK
<1>2. Nowhere \in [Worktrees -> Runs \cup {None}]
  BY DEF Nowhere
<1>3. worker' = [worker EXCEPT ![k] =
                   [worker[k] EXCEPT !.kind = "settle", !.step = "settle", !.seen = Nowhere]]
  BY <1>1 DEF Settler, Work
<1>4. [worker[k] EXCEPT !.kind = "settle", !.step = "settle", !.seen = Nowhere] \in Work
  BY <1>1, <1>2 DEF Work, Kinds, Steps
<1> QED
  BY <1>1, <1>3, <1>4 DEF OthersStay, Work

LEMMA ToRemoveStep ==
    ASSUME TypeOK, NEW k \in Workers, worker[k] # None, NEW W \in SUBSET Worktrees,
           ToRemove(k, W)
    PROVE  \/ W # {} /\ Stepped(k, "remove", W, worker[k].seen)
           \/ worker[k].kind = "end" /\ Stepped(k, "publish", {}, Nowhere)
           \/ Finished(k)
<1>1. "remove" \in Steps /\ "publish" \in Steps /\ {} \in SUBSET Worktrees
  BY DEF Steps
<1>2. CASE W # {}
  BY <1>1, <1>2, BecomeStep DEF ToRemove
<1>3. CASE W = {} /\ worker[k].kind = "end"
  BY <1>1, <1>3, ForgetStep DEF ToRemove
<1>4. CASE W = {} /\ worker[k].kind # "end"
  BY <1>4, FinishStep DEF ToRemove
<1> QED
  BY <1>2, <1>3, <1>4

LEMMA AfterLookStep ==
    ASSUME TypeOK, NEW k \in Workers, worker[k] # None, AfterLook(k)
    PROVE  \/ worker[k].kind = "end" /\ Stepped(k, "read", Worktrees, Nowhere)
           \/ Finished(k)
<1>1. "read" \in Steps /\ Worktrees \in SUBSET Worktrees
  BY DEF Steps
<1>2. CASE worker[k].kind = "end"
  BY <1>1, <1>2, ForgetStep DEF AfterLook
<1>3. CASE worker[k].kind # "end"
  BY <1>3, FinishStep DEF AfterLook
<1> QED
  BY <1>2, <1>3

\* A hook or command that holds no lock of a move and does not move is as it
\* should be when it is entitled to what it is about to do.
LEMMA PlainWorker ==
    ASSUME NEW k \in Workers,
           worker'[k] # None => /\ worker'[k].step \notin {"move", "unlink"}
                                /\ worker'[k].kind = "move" =>
                                     worker'[k].step \notin {"lock", "read"}
                                /\ Named(k)' /\ Entitled(k)'
    PROVE  WorkerInv(k)'
  BY DEF WorkerInv, HooksHeld, ReadsAll, MovesOne, Between

-----------------------------------------------------------------------------
(* What a step does to the runs, and so to what the others hold of them.   *)

Continues(x) == /\ run[x] # None /\ run'[x] # None
                /\ run'[x].started = run[x].started /\ ended' = ended
Ends(x) == run[x] # None /\ run'[x] = None /\ ended' = ended \cup {run[x].started}
Declares(x) == /\ run'[x] # None /\ run'[x].started > now
               /\ ended' = IF run[x] = None THEN ended ELSE ended \cup {run[x].started}

\* k may touch the run at x: it is its own Host Process's, or of one gone.
Mine(k, x) ==
    /\ worker[k] # None /\ worker'[k] # worker[k]
    /\ \/ run[x] = None
       \/ process[run[x].process] = "gone"
       \/ worker[k].process = run[x].process

RunStep(k) ==
    \/ UNCHANGED <<run, ended>>
    \/ \E x \in Worktrees :
         /\ \A w \in Worktrees \ {x} : run'[w] = run[w]
         /\ runLock[x] \in {None, k} /\ Mine(k, x)
         /\ Continues(x) \/ Ends(x) \/ Declares(x)

LocksKept(k) ==
    \A w \in Worktrees :
       /\ hookLock[w] \notin {None, k} => hookLock'[w] = hookLock[w]
       /\ runLock[w] \notin {None, k} => runLock'[w] = runLock[w]

GoneStays == \A p \in Processes : process[p] = "gone" => process'[p] = "gone"

\* No step loses a run, nor touches one of another live Host Process.
Lossless == Held \ ended \subseteq Held' \cup ended'
RunSafe ==
    \A w \in Worktrees :
       run[w] # None /\ process[run[w].process] = "live" /\ run'[w] # run[w]
         => \E k \in Workers : /\ worker[k] # None /\ worker'[k] # worker[k]
                               /\ worker[k].process = run[w].process
RecordSafe ==
    \A w \in Worktrees :
       record[w] # None /\ process[record[w].process] = "live" /\ record'[w] = None
         => \E k \in Workers : /\ worker[k] # None /\ worker'[k] # worker[k]
                               /\ worker[k].process = record[w].process

\* To be entitled does not pass: Host Processes stay gone.
LEMMA EntitledStays ==
    ASSUME TypeOK, NEW j \in Workers, worker'[j] = worker[j], worker[j] # None, GoneStays,
           Entitled(j)
    PROVE  Entitled(j)'
<1>1. /\ worker[j].seen \in [Worktrees -> Runs \cup {None}] /\ worker[j].at \in Worktrees
      /\ Seen(j)' = Seen(j) /\ Seen(j) \subseteq Worktrees
      /\ \A w \in Seen(j) : worker[j].seen[w] \in Runs
  BY WorkType DEF Seen
<1>2. ASSUME NEW W, W \subseteq Seen(j), Owned(j, W) PROVE Owned(j, W)'
  <2> SUFFICES ASSUME NEW w \in W
               PROVE  \/ worker[j].seen[w].process = worker[j].process
                      \/ process'[worker[j].seen[w].process] = "gone"
    BY DEF Owned
  <2>1. worker[j].seen[w].process \in Processes
    BY <1>1, <1>2, RunType
  <2> QED
    BY <2>1, <1>2 DEF Owned, GoneStays
<1>3. ASSUME worker[j].step = "adopt"
      PROVE  process'[worker[j].seen[worker[j].at].process] = "gone"
  <2>1. worker[j].seen[worker[j].at] \in Runs
    BY <1>1, <1>3 DEF Entitled
  <2> QED
    BY <2>1, <1>3, RunType DEF Entitled, GoneStays
<1>4. worker[j].step = "declare" => Owned(j, Seen(j))'
  BY <1>1, <1>2 DEF Entitled, Owned
<1>5. worker[j].step = "remove" =>
        worker[j].todo \subseteq Seen(j) /\ Owned(j, worker[j].todo)'
  BY <1>1, <1>2 DEF Entitled, Owned
<1> QED
  BY <1>1, <1>3, <1>4, <1>5 DEF Entitled, Owned

\* Another hook or command keeps what it holds, and what it knows.
LEMMA OthersKept ==
    ASSUME IInv, NEW k \in Workers, OthersStay(k), LocksKept(k), GoneStays, RunStep(k),
           NEW j \in Workers, j # k
    PROVE  WorkerInv(j)'
<1> SUFFICES ASSUME worker[j] # None PROVE WorkerInv(j)'
  BY DEF WorkerInv, OthersStay
<1>1. /\ worker'[j] = worker[j] /\ j # None
      /\ TypeOK /\ Named(j) /\ HooksHeld(j) /\ ReadsAll(j) /\ MovesOne(j) /\ Between(j) /\ Entitled(j)
  BY NoneIsNone DEF OthersStay, IInv, WorkerInv
<1>2. /\ worker[j].at \in Worktrees /\ worker[j].seen \in [Worktrees -> Runs \cup {None}]
      /\ run \in [Worktrees -> Runs \cup {None}] /\ now \in Nat
      /\ \A w \in Worktrees : run[w] # None => run[w].started \in Nat /\ run[w].started <= now
      /\ \A w \in Worktrees : worker[j].seen[w] # None =>
           worker[j].seen[w].started \in Nat /\ worker[j].seen[w].started <= now
  BY <1>1, WorkType, RunType DEF IInv, TypeOK, Stamped
<1>3. Seen(j)' = Seen(j) /\ Source(j)' = Source(j) /\ MoveLocks(j)' = MoveLocks(j)
  BY <1>1, SourceIs
<1>4. HooksHeld(j)'
  BY <1>1 DEF HooksHeld, LocksKept
<1>5. MovesOne(j)'
  <2> SUFFICES ASSUME worker[j].step \in {"move", "unlink"}
               PROVE  \A w \in MoveLocks(j) \ worker[j].todo : runLock'[w] = j
    BY <1>1, <1>3 DEF MovesOne
  <2>1. MoveLocks(j) \subseteq Worktrees
    BY <1>1, <1>2 DEF MovesOne, MoveLocks, Seen
  <2> QED
    BY <1>1, <2>1 DEF MovesOne, LocksKept
<1>6. Entitled(j)'
  BY <1>1, EntitledStays
<1>7. ASSUME UNCHANGED run PROVE ReadsAll(j)' /\ Between(j)'
  BY <1>1, <1>3, <1>7 DEF ReadsAll, Between
<1>8. ASSUME NEW x \in Worktrees,
             \A w \in Worktrees \ {x} : run'[w] = run[w],
             runLock[x] \in {None, k},
             \/ run'[x] = None
             \/ run[x] # None /\ run'[x].started = run[x].started
             \/ run'[x].started > now
      PROVE  ReadsAll(j)' /\ Between(j)'
  <2> DEFINE Old(w) == run[w] # None /\ run'[w].started = run[w].started
  <2>3. ASSUME NEW w \in Worktrees, run'[w] # None
        PROVE  Old(w) \/ (w = x /\ run'[w].started > now)
    BY <1>8, <2>3
  <2>4. ASSUME NEW w \in Worktrees, Old(w)
        PROVE  run'[w].started \in Nat /\ run'[w].started <= now
    BY <1>2, <2>4
  <2>1. ReadsAll(j)'
    <3> SUFFICES ASSUME worker[j].kind = "move", worker[j].step \in {"read", "move"},
                        NEW w \in Worktrees, NEW v \in Worktrees,
                        worker[j].seen[w] = None, run'[w] # None,
                        worker[j].step = "read" => w \notin worker[j].todo
                 PROVE  /\ v # w /\ run'[v] # None => run'[v].started # run'[w].started
                        /\ worker[j].seen[v] # None =>
                             worker[j].seen[v].started # run'[w].started
      BY <1>1 DEF ReadsAll
    <3>1. CASE Old(w)
      <4>1. /\ v # w /\ run[v] # None => run[v].started # run[w].started
            /\ worker[j].seen[v] # None => worker[j].seen[v].started # run[w].started
        BY <1>1, <3>1 DEF ReadsAll
      <4>2. ASSUME v # w, run'[v] # None PROVE run'[v].started # run'[w].started
        <5>1. CASE Old(v)
          BY <4>1, <4>2, <5>1, <3>1
        <5>2. CASE run'[v].started > now
          <6>1. run'[w].started \in Nat /\ run'[w].started <= now
            BY <2>4, <3>1
          <6> QED
            BY <5>2, <6>1, <1>2
        <5> QED
          BY <2>3, <4>2, <5>1, <5>2
      <4> QED
        BY <4>1, <4>2, <3>1
    <3>2. CASE w = x /\ run'[w].started > now
      <4>1. ASSUME v # w, run'[v] # None PROVE run'[v].started # run'[w].started
        <5>1. run'[v].started \in Nat /\ run'[v].started <= now
          BY <1>8, <3>2, <4>1, <2>4
        <5> QED
          BY <5>1, <3>2, <1>2
      <4>2. ASSUME worker[j].seen[v] # None
            PROVE  worker[j].seen[v].started # run'[w].started
        <5>1. worker[j].seen[v].started \in Nat /\ worker[j].seen[v].started <= now
          BY <1>2, <4>2
        <5> QED
          BY <5>1, <3>2, <1>2
      <4> QED
        BY <4>1, <4>2
    <3> QED
      BY <2>3, <3>1, <3>2
  <2>2. Between(j)'
    <3> SUFFICES ASSUME worker[j].step = "unlink" PROVE Between(j)'
      BY <1>1 DEF Between
    <3>1. /\ Source(j) \in Worktrees /\ MoveLocks(j) = {worker[j].at, Source(j)}
          /\ worker[j].seen[Source(j)] # None
      BY <1>1, <1>2 DEF MovesOne, MoveLocks, Seen
    <3>2. x # worker[j].at /\ x # Source(j)
      BY <1>1, <1>8, <3>1 DEF MovesOne, Between
    <3>3. run'[worker[j].at] = run[worker[j].at] /\ run'[Source(j)] = run[Source(j)]
      BY <1>2, <1>8, <3>1, <3>2
    <3>4. ASSUME NEW w \in Worktrees, run'[w] # None,
                 run'[w].started = worker[j].seen[Source(j)].started
          PROVE  w \in MoveLocks(j)
      <4>1. run[w] # None /\ run[w].started = worker[j].seen[Source(j)].started
        <5>1. /\ worker[j].seen[Source(j)].started \in Nat
              /\ worker[j].seen[Source(j)].started <= now
          BY <1>2, <3>1
        <5>2. ~(run'[w].started > now)
          BY <5>1, <3>4, <1>2
        <5> QED
          BY <2>3, <3>4, <5>2
      <4> QED
        BY <4>1, <1>1 DEF Between
    <3> QED
      BY <1>1, <1>3, <3>3, <3>4 DEF Between
  <2> QED
    BY <2>1, <2>2
<1>9. ReadsAll(j)' /\ Between(j)'
  <2>1. CASE UNCHANGED run
    BY <1>7, <2>1
  <2>2. ASSUME NEW x \in Worktrees, \A w \in Worktrees \ {x} : run'[w] = run[w],
               runLock[x] \in {None, k}, Continues(x) \/ Ends(x) \/ Declares(x)
        PROVE  ReadsAll(j)' /\ Between(j)'
    <3>1. \/ run'[x] = None
          \/ run[x] # None /\ run'[x].started = run[x].started
          \/ run'[x].started > now
      BY <2>2 DEF Continues, Ends, Declares
    <3> QED
      BY <1>8, <2>2, <3>1
  <2> QED
    BY <2>1, <2>2 DEF RunStep
<1> QED
  BY <1>1, <1>4, <1>5, <1>6, <1>9 DEF WorkerInv, Named

\* A move under way is still under way, if it is another's.
LEMMA MovingStays ==
    ASSUME NEW k \in Workers, OthersStay(k),
           worker[k] # None => worker[k].step # "unlink",
           NEW id, Moving(id)
    PROVE  Moving(id)'
<1>1. PICK j \in Workers : /\ worker[j] # None /\ worker[j].step = "unlink"
                           /\ worker[j].seen[Source(j)].started = id
  BY DEF Moving
<1>2. worker'[j] = worker[j]
  BY <1>1 DEF OthersStay
<1>3. Source(j)' = Source(j)
  BY <1>2, SourceIs
<1> QED
  BY <1>1, <1>2, <1>3 DEF Moving

\* While a run is between two Worktrees nobody else can touch either record.
LEMMA MovingLocks ==
    ASSUME IInv, NEW x \in Worktrees, run[x] # None, Moving(run[x].started)
    PROVE  \E j \in Workers : /\ worker[j] # None /\ worker[j].step = "unlink"
                              /\ runLock[x] = j
<1>1. PICK j \in Workers : /\ worker[j] # None /\ worker[j].step = "unlink"
                           /\ worker[j].seen[Source(j)].started = run[x].started
  BY DEF Moving
<1>2. x \in MoveLocks(j) /\ worker[j].todo = {}
  BY <1>1 DEF IInv, WorkerInv, Between
<1>3. runLock[x] = j
  BY <1>1, <1>2 DEF IInv, WorkerInv, MovesOne
<1> QED
  BY <1>1, <1>3

LEMMA HeldIn ==
    ASSUME NEW id
    PROVE  /\ id \in Held <=> \E w \in Worktrees : run[w] # None /\ run[w].started = id
           /\ id \in Held' <=> \E w \in Worktrees : run'[w] # None /\ run'[w].started = id
  BY DEF Held

\* One record changes, and nobody moves it: nothing is lost or brought back.
LEMMA RunsKept ==
    ASSUME IInv, NEW k \in Workers, RunStep(k), torn \subseteq torn',
           \A id : Moving(id) => Moving(id)' \/ id \in torn',
           worker[k] # None /\ worker[k].step = "unlink" => UNCHANGED <<run, ended>>
    PROVE  Twins' /\ EndedStaysEnded' /\ Lossless /\ RunSafe
<1>1. CASE UNCHANGED <<run, ended>>
  <2>1. Twins'
    BY <1>1 DEF IInv, Twins
  <2>2. EndedStaysEnded' /\ Lossless
    BY <1>1 DEF IInv, EndedStaysEnded, Lossless, Held
  <2>3. RunSafe
    BY <1>1 DEF RunSafe
  <2> QED
    BY <2>1, <2>2, <2>3
<1>2. ASSUME NEW x \in Worktrees, \A w \in Worktrees \ {x} : run'[w] = run[w],
             runLock[x] \in {None, k}, Mine(k, x),
             Continues(x) \/ Ends(x) \/ Declares(x),
             worker[k] # None => worker[k].step # "unlink"
      PROVE  Twins' /\ EndedStaysEnded' /\ Lossless /\ RunSafe
  <2> DEFINE Old(w) == run[w] # None /\ run'[w].started = run[w].started
  <2>1. /\ now \in Nat
        /\ \A w \in Worktrees : run[w] # None => run[w].started \in Nat /\ run[w].started <= now
        /\ \A id \in ended : id \in Nat /\ id <= now
    BY RunType DEF IInv, TypeOK, Stamped, Times
  <2>2. ASSUME NEW w \in Worktrees, run'[w] # None
        PROVE  Old(w) \/ (w = x /\ Declares(x))
    BY <1>2, <2>2 DEF Continues, Ends
  <2>3. ASSUME NEW v \in Worktrees, NEW w \in Worktrees, v # w, run'[v] # None, run'[w] # None,
               run'[v].started = run'[w].started
        PROVE  Old(v) /\ Old(w)
    <3>1. CASE v = x /\ Declares(x)
      <4>1. run'[w] = run[w] /\ run[w].started \in Nat /\ run[w].started <= now
        BY <1>2, <2>1, <2>3, <3>1
      <4>2. run'[v].started > now
        BY <3>1 DEF Declares
      <4> QED
        BY <4>1, <4>2, <2>1, <2>3
    <3>2. CASE w = x /\ Declares(x)
      <4>1. run'[v] = run[v] /\ run[v].started \in Nat /\ run[v].started <= now
        BY <1>2, <2>1, <2>3, <3>2
      <4>2. run'[w].started > now
        BY <3>2 DEF Declares
      <4> QED
        BY <4>1, <4>2, <2>1, <2>3
    <3> QED
      BY <2>2, <2>3, <3>1, <3>2
  <2>4. Twins'
    <3> SUFFICES ASSUME NEW v \in Worktrees, NEW w \in Worktrees, NEW id \in Times, v # w,
                        run'[v] # None, run'[w] # None, run'[v].started = id,
                        run'[w].started = id
                 PROVE  id \in torn' \/ Moving(id)'
      BY DEF Twins
    <3>1. Old(v) /\ Old(w)
      BY <2>3
    <3> QED
      BY <3>1 DEF IInv, Twins
  <2>5. run[x] # None /\ (\E v \in Worktrees \ {x} : run[v] # None /\ run[v].started = run[x].started)
          => run[x].started \in torn
    <3> SUFFICES ASSUME run[x] # None, NEW v \in Worktrees \ {x}, run[v] # None,
                        run[v].started = run[x].started, run[x].started \notin torn
                 PROVE  FALSE
      OBVIOUS
    <3>1. Moving(run[x].started)
      BY RunType DEF IInv, TypeOK, Twins
    <3>2. PICK j \in Workers : worker[j] # None /\ worker[j].step = "unlink" /\ runLock[x] = j
      BY <3>1, MovingLocks
    <3> QED
      BY <1>2, <3>2, NoneIsNone
  <2>6. EndedStaysEnded'
    <3> SUFFICES ASSUME NEW id \in ended', NEW w \in Worktrees, run'[w] # None,
                        run'[w].started = id
                 PROVE  id \in torn
      BY HeldIn DEF EndedStaysEnded
    <3>1. CASE Old(w) /\ id \in ended
      BY <3>1, HeldIn DEF IInv, EndedStaysEnded
    <3>2. CASE Old(w) /\ id \notin ended
      <4>1. /\ run[x] # None /\ id = run[x].started
            /\ Ends(x) \/ Declares(x)
        BY <1>2, <3>2 DEF Continues, Ends, Declares
      <4>2. w # x
        <5>1. CASE Ends(x)
          BY <5>1 DEF Ends
        <5>2. CASE Declares(x)
          <6>1. run'[x].started > now /\ run[x].started \in Nat /\ run[x].started <= now
            BY <4>1, <5>2, <2>1 DEF Declares
          <6> QED
            BY <6>1, <4>1, <2>1
        <5> QED
          BY <4>1, <5>1, <5>2
      <4> QED
        BY <4>1, <4>2, <3>2, <2>5
    <3>3. CASE w = x /\ Declares(x)
      <4>1. id \in Nat /\ id <= now
        BY <3>3, <2>1 DEF Declares
      <4>2. id > now
        BY <3>3 DEF Declares
      <4> QED
        BY <4>1, <4>2, <2>1
    <3> QED
      BY <2>2, <3>1, <3>2, <3>3
  <2>7. Lossless
    <3> SUFFICES ASSUME NEW w \in Worktrees, run[w] # None, run[w].started \notin ended,
                        run[w].started \notin ended'
                 PROVE  run[w].started \in Held'
      BY HeldIn DEF Lossless
    <3>1. run'[w] # None /\ run'[w].started = run[w].started
      BY <1>2 DEF Continues, Ends, Declares
    <3> QED
      BY <3>1, HeldIn
  <2>8. RunSafe
    BY <1>2 DEF RunSafe, Mine
  <2> QED
    BY <2>4, <2>6, <2>7, <2>8
<1>3. CASE worker[k] # None /\ worker[k].step = "unlink"
  BY <1>1, <1>3
<1>4. CASE worker[k] # None => worker[k].step # "unlink"
  BY <1>1, <1>2, <1>4 DEF RunStep
<1> QED
  BY <1>3, <1>4

-----------------------------------------------------------------------------
(* Steps in general.                                                       *)

Good == IInv' /\ Lossless /\ RunSafe /\ RecordSafe

LEMMA FoundGoneStays ==
    ASSUME TypeOK, GoneStays, UNCHANGED pass, FoundGone
    PROVE  FoundGone'
<1> SUFFICES ASSUME pass.step \in {"claim", "prune"}, NEW w \in Worktrees,
                    pass.found[w] # None
             PROVE  process'[pass.found[w].process] = "gone"
  BY DEF FoundGone
<1>1. pass.found[w].process \in Processes
  BY DEF TypeOK, Passes, Records
<1> QED
  BY <1>1 DEF FoundGone, GoneStays

LEMMA StepGood ==
    ASSUME IInv, NEW k \in Workers, TypeOK', Stamped', OthersStay(k), LocksKept(k), GoneStays,
           RunStep(k), WorkerInv(k)', torn \subseteq torn',
           \A id : Moving(id) => Moving(id)' \/ id \in torn',
           worker[k] # None /\ worker[k].step = "unlink" => UNCHANGED <<run, ended>>,
           UNCHANGED pass, RecordSafe
    PROVE  Good
<1>1. \A j \in Workers \ {k} : WorkerInv(j)'
  BY OthersKept
<1>2. Twins' /\ EndedStaysEnded' /\ Lossless /\ RunSafe
  BY RunsKept
<1>3. FoundGone'
  BY FoundGoneStays DEF IInv
<1> QED
  BY <1>1, <1>2, <1>3 DEF Good, IInv

LEMMA RecordStays ==
    ASSUME UNCHANGED record
    PROVE  RecordSafe
  BY DEF RecordSafe

\* What a hook or command has read when it has taken a step.
ReadsOn(k) ==
    worker'[k] # None =>
      \A w \in Worktrees : \/ worker'[k].seen[w] \in {None, run[w]}
                           \/ worker[k] # None /\ worker'[k].seen[w] = worker[k].seen[w]

LEMMA ReadingsStamped ==
    ASSUME IInv, NEW k \in Workers, OthersStay(k), ReadsOn(k), now' \in Nat, now <= now',
           NEW j \in Workers, NEW w \in Worktrees,
           worker'[j] # None, worker'[j].seen[w] # None
    PROVE  worker'[j].seen[w].started <= now' /\ worker'[j].seen[w].at = w
<1>1. /\ now \in Nat
      /\ run[w] # None => /\ run[w].started \in Nat /\ run[w].started <= now
                          /\ run[w].at = w
      /\ worker[j] # None /\ worker[j].seen[w] # None =>
           /\ worker[j].seen[w].started \in Nat /\ worker[j].seen[w].started <= now
           /\ worker[j].seen[w].at = w
  <2>1. now \in Nat
    BY DEF IInv, TypeOK
  <2>2. ASSUME run[w] # None
        PROVE  run[w].started \in Nat /\ run[w].started <= now /\ run[w].at = w
    BY <2>2, RunType DEF IInv, TypeOK, Stamped
  <2>3. ASSUME worker[j] # None, worker[j].seen[w] # None
        PROVE  /\ worker[j].seen[w].started \in Nat /\ worker[j].seen[w].started <= now
               /\ worker[j].seen[w].at = w
    <3>1. worker[j].seen[w] \in Runs
      BY <2>3, WorkType DEF IInv
    <3> QED
      BY <2>3, <3>1, RunType DEF IInv, Stamped
  <2> QED
    BY <2>1, <2>2, <2>3
<1>2. \/ worker'[j].seen[w] = run[w]
      \/ worker[j] # None /\ worker'[j].seen[w] = worker[j].seen[w]
  BY DEF OthersStay, ReadsOn
<1> QED
  BY <1>1, <1>2

\* A step that changes no run.
LEMMA QuietStep ==
    ASSUME IInv, NEW k \in Workers, worker' \in [Workers -> Work \cup {None}],
           OthersStay(k), LocksKept(k), UNCHANGED <<run, ended, torn, process, pass>>,
           record' \in [Worktrees -> Records \cup {None}],
           runLock' \in [Worktrees -> Workers \cup {None}],
           hookLock' \in [Worktrees -> Workers \cup {None}],
           now' \in 0..MaxTime, now <= now',
           worker[k] # None => worker[k].step # "unlink",
           WorkerInv(k)', ReadsOn(k), RecordSafe
    PROVE  Good
<1>1. TypeOK'
  BY DEF IInv, TypeOK
<1>2. now \in Nat /\ now' \in Nat
  BY DEF IInv, TypeOK
<1>3. Stamped'
  <2>1. ASSUME NEW w \in Worktrees, run[w] # None PROVE run[w].started <= now'
    BY <1>2, <2>1, RunType DEF IInv, TypeOK, Stamped
  <2>2. ASSUME NEW id \in ended PROVE id <= now'
    <3>1. id \in Nat /\ id <= now
      BY <2>2 DEF IInv, TypeOK, Stamped, Times
    <3> QED
      BY <1>2, <3>1
  <2>3. \A j \in Workers, w \in Worktrees :
          worker'[j] # None /\ worker'[j].seen[w] # None =>
            worker'[j].seen[w].started <= now' /\ worker'[j].seen[w].at = w
    BY <1>2, ReadingsStamped
  <2> QED
    BY <2>1, <2>2, <2>3 DEF Stamped
<1>4. GoneStays /\ RunStep(k) /\ torn \subseteq torn'
  BY DEF GoneStays, RunStep
<1>5. \A id : Moving(id) => Moving(id)' \/ id \in torn'
  BY MovingStays
<1> QED
  BY <1>1, <1>3, <1>4, <1>5, StepGood

LEMMA FreedKeeps ==
    ASSUME NEW k, NEW lock \in [Worktrees -> Workers \cup {None}]
    PROVE  /\ Freed(lock, k) \in [Worktrees -> Workers \cup {None}]
           /\ \A w \in Worktrees : lock[w] # k => Freed(lock, k)[w] = lock[w]
  BY DEF Freed

\* With all the hook stores held, no other move is past its locks.
LEMMA MovesAlone ==
    ASSUME IInv, NEW k \in Workers, OthersStay(k), LocksKept(k), GoneStays,
           \A w \in Worktrees : hookLock[w] = k,
           NEW j \in Workers, j # k
    PROVE  WorkerInv(j)' /\ (worker[j] # None => worker[j].step \notin {"move", "unlink"})
<1> SUFFICES ASSUME worker[j] # None
             PROVE  WorkerInv(j)' /\ worker[j].step \notin {"move", "unlink"}
  BY DEF WorkerInv, OthersStay
<1>1. /\ worker'[j] = worker[j] /\ worker[j].at \in Worktrees
      /\ TypeOK /\ Named(j) /\ HooksHeld(j) /\ MovesOne(j) /\ Entitled(j)
  BY WorkType DEF OthersStay, IInv, WorkerInv
<1>2. worker[j].kind = "move" => worker[j].step \notin {"read", "move", "unlink"}
  BY <1>1 DEF HooksHeld
<1>3. worker[j].step \notin {"move", "unlink"}
  BY <1>1, <1>2 DEF MovesOne
<1>4. HooksHeld(j)'
  BY <1>1, <1>2 DEF HooksHeld
<1>5. Entitled(j)'
  BY <1>1, EntitledStays
<1> QED
  BY <1>1, <1>2, <1>3, <1>4, <1>5 DEF WorkerInv, ReadsAll, MovesOne, Between, Named

-----------------------------------------------------------------------------
(* One lemma for each action.                                              *)

LEMMA BeginStep ==
    ASSUME IInv, NEW k \in Workers, NEW kind \in Kinds, NEW p \in Processes \cup {None},
           NEW w \in Worktrees, NEW stamp \in 0..MaxTime, NEW s \in {"publish", "look", "read"},
           NEW T \in SUBSET Worktrees, Begin(k, kind, p, w, stamp, s, T),
           kind \in HookKinds => p \in Processes /\ stamp \in Times,
           kind = "declare" => p \in Processes,
           s # "read" => kind \in HookKinds, s = "read" => kind \notin HookKinds
    PROVE  /\ worker' \in [Workers -> Work \cup {None}] /\ OthersStay(k)
           /\ worker[k] = None /\ WorkerInv(k)' /\ ReadsOn(k)
<1> DEFINE me == [kind |-> kind, process |-> p, at |-> w, stamp |-> stamp,
                  step |-> s, todo |-> T, seen |-> Nowhere]
<1>1. worker[k] = None /\ worker' = [worker EXCEPT ![k] = me]
  BY DEF Begin
<1>2. me \in Work
  BY DEF Work, Steps, Nowhere
<1>3. /\ worker' \in [Workers -> Work \cup {None}] /\ OthersStay(k)
      /\ worker'[k] = me
  BY <1>1, <1>2 DEF IInv, TypeOK, OthersStay
<1>4. ReadsOn(k)
  BY <1>3 DEF ReadsOn, Nowhere
<1>5. Named(k)' /\ Entitled(k)'
  BY <1>3 DEF Named, Entitled
<1>6. WorkerInv(k)'
  BY <1>3, <1>5, PlainWorker DEF HookKinds
<1> QED
  BY <1>1, <1>3, <1>4, <1>6

LEMMA HookStep ==
    ASSUME IInv, NEW k \in Workers, NEW kind \in HookKinds, NEW p \in Processes,
           NEW w \in Worktrees, Hook(k, kind, p, w)
    PROVE  Good
<1> PICK t, s : t = now' /\ s = IF kind = "end" THEN "look" ELSE "publish"
  OBVIOUS
<1>1. /\ now \in Nat /\ t = now + 1 /\ t \in Times /\ t \in 0..MaxTime /\ now <= now'
      /\ now' \in 0..MaxTime
      /\ UNCHANGED <<run, record, runLock, hookLock, process, pass, ended, torn>>
  BY DEF IInv, TypeOK, Hook, Times
<1>2. Begin(k, kind, p, w, t, s, {})
  BY Zenon DEF Hook
<1>3. kind \in Kinds /\ s \in {"publish", "look", "read"} /\ s # "read"
  BY DEF Kinds
<1>4. /\ worker' \in [Workers -> Work \cup {None}] /\ OthersStay(k)
      /\ worker[k] = None /\ WorkerInv(k)' /\ ReadsOn(k)
  BY <1>1, <1>2, <1>3, BeginStep
<1> QED
  BY <1>1, <1>4, QuietStep, RecordStays DEF IInv, TypeOK, LocksKept

LEMMA CommandStep ==
    ASSUME IInv, NEW k \in Workers, NEW p, NEW w \in Worktrees,
           \/ p \in Processes /\ (StartIssueWork(k, p, w) \/ StopIssueWork(k, p, w))
           \/ StopOrphan(k, w)
    PROVE  Good
<1>1. /\ UNCHANGED <<run, record, runLock, hookLock, process, now, pass, ended, torn>>
      /\ now \in 0..MaxTime /\ 0 \in 0..MaxTime /\ now <= now'
  BY DEF IInv, TypeOK, StartIssueWork, StopIssueWork, StopOrphan
<1>2. PICK kind \in {"declare", "stop", "reap"}, q \in Processes \cup {None},
           T \in SUBSET Worktrees :
        Begin(k, kind, q, w, 0, "read", T) /\ (kind = "declare" => q \in Processes)
  <2>1. CASE p \in Processes /\ StartIssueWork(k, p, w)
    <3>1. Begin(k, "declare", p, w, 0, "read", Worktrees)
      BY <2>1 DEF StartIssueWork
    <3> QED
      BY <2>1, <3>1
  <2>2. CASE p \in Processes /\ StopIssueWork(k, p, w)
    <3>1. Begin(k, "stop", p, w, 0, "read", Worktrees)
      BY <2>2 DEF StopIssueWork
    <3> QED
      BY <2>2, <3>1
  <2>3. CASE StopOrphan(k, w)
    <3>1. Begin(k, "reap", None, w, 0, "read", {w})
      BY <2>3 DEF StopOrphan
    <3> QED
      BY <3>1
  <2> QED
    BY <2>1, <2>2, <2>3
<1>3. kind \in Kinds /\ kind \notin HookKinds /\ "read" \in {"publish", "look", "read"}
  BY DEF Kinds, HookKinds
<1>4. /\ worker' \in [Workers -> Work \cup {None}] /\ OthersStay(k)
      /\ worker[k] = None /\ WorkerInv(k)' /\ ReadsOn(k)
  BY <1>1, <1>2, <1>3, BeginStep
<1> QED
  BY <1>1, <1>4, QuietStep, RecordStays DEF IInv, TypeOK, LocksKept

LEMMA TodoStep ==
    ASSUME TypeOK, NEW k \in Workers, worker[k] # None, NEW w,
           worker' = [worker EXCEPT ![k].todo = @ \ {w}]
    PROVE  Stepped(k, worker[k].step, worker[k].todo \ {w}, worker[k].seen)
<1>1. worker[k] \in Work /\ worker \in [Workers -> Work \cup {None}]
  BY WorkType DEF TypeOK
<1>2. worker' = [worker EXCEPT ![k] = [worker[k] EXCEPT !.todo = @ \ {w}]]
  BY <1>1 DEF Work
<1>3. [worker[k] EXCEPT !.todo = @ \ {w}] \in Work
  BY <1>1 DEF Work
<1> QED
  BY <1>1, <1>2, <1>3 DEF Stepped, OthersStay, Work

LEMMA PublishStep ==
    ASSUME IInv, NEW k \in Workers, Publish(k)
    PROVE  Good
<1> DEFINE me == worker[k]
           begun == IF me.kind = "start" THEN me.stamp
                    ELSE IF record[me.at] = None THEN 0 ELSE record[me.at].started
<1>1. /\ me # None /\ me.step = "publish" /\ TypeOK /\ Named(k)
      /\ UNCHANGED <<run, runLock, hookLock, process, now, pass, ended, torn>>
      /\ now \in 0..MaxTime /\ now <= now'
  BY DEF IInv, TypeOK, WorkerInv, Publish
<1>2. /\ me.at \in Worktrees /\ me.stamp \in Times /\ me.process \in Processes
      /\ record \in [Worktrees -> Records \cup {None}]
  BY <1>1, WorkType DEF Named, TypeOK
<1>3. begun \in 0..MaxTime
  <2>1. record[me.at] # None => record[me.at].started \in 0..MaxTime
    BY <1>2 DEF Records
  <2>2. me.stamp \in 0..MaxTime /\ 0 \in 0..MaxTime
    BY <1>2 DEF Times
  <2> QED
    BY <2>1, <2>2
<1>4. record' \in [Worktrees -> Records \cup {None}]
  <2>1. [process |-> me.process, stamp |-> me.stamp, started |-> begun] \in Records
    BY <1>2, <1>3 DEF Records
  <2>2. \/ record' = record
        \/ record' = [record EXCEPT ![me.at] = None]
        \/ record' = [record EXCEPT ![me.at] =
                        [process |-> me.process, stamp |-> me.stamp, started |-> begun]]
    BY DEF Publish
  <2> QED
    BY <1>2, <2>1, <2>2
<1>5. \/ Stepped(k, "sweep", Worktrees \ {me.at}, me.seen)
      \/ Stepped(k, "lock", Worktrees, me.seen)
      \/ me.kind \in HookKinds /\ Stepped(k, "look", {}, me.seen)
  <2>1. /\ "sweep" \in Steps /\ "lock" \in Steps /\ "look" \in Steps
        /\ Worktrees \ {me.at} \in SUBSET Worktrees /\ Worktrees \in SUBSET Worktrees
        /\ {} \in SUBSET Worktrees
    BY DEF Steps
  <2>2. \/ Become(k, "sweep", Worktrees \ {me.at})
        \/ Become(k, "lock", Worktrees)
        \/ Become(k, "look", {})
    BY DEF Publish
  <2>3. me.kind \in HookKinds
    BY <1>1 DEF Named
  <2> QED
    BY <1>1, <2>1, <2>2, <2>3, BecomeStep
<1>6. /\ worker' \in [Workers -> Work \cup {None}] /\ OthersStay(k)
      /\ worker'[k].seen = me.seen
  BY <1>5 DEF Stepped
<1>7. Named(k)' /\ Entitled(k)'
  BY <1>1, <1>5 DEF Stepped, Named, Entitled
<1>8. WorkerInv(k)'
  BY <1>5, <1>7 DEF Stepped, WorkerInv, HooksHeld, ReadsAll, MovesOne, Between
<1>9. ReadsOn(k) /\ LocksKept(k)
  BY <1>1, <1>6 DEF ReadsOn, LocksKept
<1>10. RecordSafe
  <2> SUFFICES ASSUME NEW w \in Worktrees, record[w] # None, record'[w] = None
               PROVE  me.process = record[w].process /\ worker'[k] # me
    BY <1>1 DEF RecordSafe
  <2>1. worker'[k] # me
    BY <1>1, <1>5 DEF Stepped
  <2>2. w = me.at /\ me.process = record[w].process
    <3> PICK r : r = [process |-> me.process, stamp |-> me.stamp, started |-> begun]
      OBVIOUS
    <3>1. r # None
      BY <1>2, <1>3, NoneIsNone DEF Records
    <3>2. CASE /\ me.kind = "end" /\ record' = [record EXCEPT ![me.at] = None]
               /\ ~(record[me.at] # None /\ record[me.at].process # me.process)
      BY <1>2, <3>2
    <3>3. CASE record' = [record EXCEPT ![me.at] = r]
      BY <1>2, <3>1, <3>3
    <3>4. CASE record' = record
      BY <3>4
    <3> QED
      BY <3>2, <3>3, <3>4 DEF Publish
  <2> QED
    BY <2>1, <2>2
<1> QED
  BY <1>1, <1>4, <1>6, <1>8, <1>9, <1>10, QuietStep DEF TypeOK

LEMMA LockStoreStep ==
    ASSUME IInv, NEW k \in Workers, LockStore(k)
    PROVE  Good
<1> PICK w : w = NextLock(k)
  OBVIOUS
<1>1. /\ worker[k] # None /\ worker[k].step \in {"lock", "sweep"}
      /\ TypeOK /\ Named(k) /\ HooksHeld(k)
      /\ hookLock[w] = None /\ hookLock' = [hookLock EXCEPT ![w] = k]
      /\ worker' = [worker EXCEPT ![k].todo = @ \ {w}]
      /\ UNCHANGED <<run, record, runLock, process, now, pass, ended, torn>>
      /\ now \in 0..MaxTime /\ now <= now'
  BY DEF IInv, TypeOK, WorkerInv, LockStore
<1>2. Stepped(k, worker[k].step, worker[k].todo \ {w}, worker[k].seen)
  BY <1>1, TodoStep
<1>3. /\ hookLock' \in [Worktrees -> Workers \cup {None}] /\ LocksKept(k)
      /\ \A v \in Worktrees : (v = w \/ hookLock[v] = k) => hookLock'[v] = k
  BY <1>1 DEF TypeOK, LocksKept
<1>4. HooksHeld(k)'
  BY <1>1, <1>2, <1>3 DEF Stepped, HooksHeld
<1>5. Named(k)' /\ Entitled(k)'
  BY <1>1, <1>2 DEF Stepped, Named, Entitled
<1>6. WorkerInv(k)'
  BY <1>1, <1>2, <1>4, <1>5 DEF Stepped, WorkerInv, ReadsAll, MovesOne, Between
<1>7. /\ ReadsOn(k) /\ worker' \in [Workers -> Work \cup {None}] /\ OthersStay(k)
      /\ worker[k].step # "unlink"
  BY <1>1, <1>2 DEF Stepped, ReadsOn
<1> QED
  BY <1>1, <1>3, <1>6, <1>7, QuietStep, RecordStays DEF TypeOK

LEMMA SweepStep ==
    ASSUME IInv, NEW k \in Workers, Sweep(k)
    PROVE  Good
<1>1. /\ worker[k] # None /\ worker[k].step = "sweep" /\ TypeOK
      /\ hookLock' = Freed(hookLock, k)
      /\ Finish(k) \/ Settler(k)
      /\ UNCHANGED <<run, runLock, process, now, pass, ended, torn>>
      /\ now \in 0..MaxTime /\ now <= now'
  <2>1. now \in 0..MaxTime /\ TypeOK
    BY DEF IInv, TypeOK
  <2> QED
    BY <2>1 DEF Sweep
<1>2. record' \in [Worktrees -> Records \cup {None}]
  BY DEF IInv, TypeOK, Sweep
<1>3. hookLock' \in [Worktrees -> Workers \cup {None}] /\ LocksKept(k)
  BY <1>1, FreedKeeps DEF TypeOK, LocksKept
<1>4. /\ worker' \in [Workers -> Work \cup {None}] /\ OthersStay(k)
      /\ WorkerInv(k)' /\ ReadsOn(k) /\ worker'[k] # worker[k]
  <2>1. CASE Finish(k)
    BY <1>1, <2>1, FinishStep DEF Finished, WorkerInv, ReadsOn
  <2>2. CASE Settler(k)
    <3>1. /\ worker' \in [Workers -> Work \cup {None}] /\ OthersStay(k)
          /\ worker'[k].kind = "settle" /\ worker'[k].step = "settle"
          /\ worker'[k].seen = Nowhere
      BY <1>1, <2>2, SettlerStep
    <3>2. Named(k)' /\ Entitled(k)'
      BY <3>1 DEF Named, Entitled, HookKinds
    <3>3. WorkerInv(k)'
      BY <3>1, <3>2, PlainWorker
    <3> QED
      BY <1>1, <3>1, <3>3 DEF ReadsOn, Nowhere
  <2> QED
    BY <1>1, <2>1, <2>2
<1>5. RecordSafe
  <2> SUFFICES ASSUME NEW w \in Worktrees, record[w] # None, record'[w] = None
               PROVE  worker[k].process = record[w].process
    BY <1>1, <1>4 DEF RecordSafe
  <2> QED
    BY <1>1 DEF Sweep
<1> QED
  BY <1>1, <1>2, <1>3, <1>4, <1>5, QuietStep DEF TypeOK

LEMMA LocatedStep ==
    ASSUME IInv, NEW k \in Workers, Located(k)
    PROVE  Good
<1>1. /\ worker[k] # None /\ worker[k].step = "lock" /\ worker[k].todo = {}
      /\ TypeOK /\ Named(k) /\ HooksHeld(k)
      /\ UNCHANGED <<run, record, runLock, process, now, pass, ended, torn>>
      /\ now \in 0..MaxTime /\ now <= now'
  <2>1. now \in 0..MaxTime
    BY DEF IInv, TypeOK
  <2>2. TypeOK /\ (worker[k] # None => Named(k) /\ HooksHeld(k))
    BY DEF IInv, WorkerInv
  <2> QED
    BY <2>1, <2>2 DEF Located
<1>2. "read" \in Steps /\ "look" \in Steps
  BY DEF Steps
<1>3. \/ Stepped(k, "read", Worktrees, worker[k].seen) /\ hookLock' = hookLock
      \/ Stepped(k, "look", {}, Nowhere) /\ hookLock' = Freed(hookLock, k)
  BY <1>1, <1>2, BecomeStep, ForgetStep DEF Located
<1>4. hookLock' \in [Worktrees -> Workers \cup {None}] /\ LocksKept(k)
  BY <1>1, <1>3, FreedKeeps DEF TypeOK, LocksKept
<1>5. HooksHeld(k)'
  BY <1>1, <1>3 DEF Stepped, HooksHeld
<1>6. Named(k)' /\ Entitled(k)'
  BY <1>1, <1>3 DEF Stepped, Named, Entitled
<1>7. WorkerInv(k)'
  BY <1>3, <1>5, <1>6 DEF Stepped, WorkerInv, ReadsAll, MovesOne, Between
<1>8. ReadsOn(k) /\ worker' \in [Workers -> Work \cup {None}] /\ OthersStay(k)
  BY <1>1, <1>3 DEF Stepped, ReadsOn, Nowhere
<1> QED
  BY <1>1, <1>4, <1>7, <1>8, QuietStep, RecordStays DEF TypeOK

LEMMA ReadStep ==
    ASSUME IInv, NEW k \in Workers, Read(k)
    PROVE  Good
<1> DEFINE me == worker[k]
           others == IF me.kind = "declare" THEN me.todo \ {me.at} ELSE me.todo
<1> PICK w : w = IF others = {} THEN me.at ELSE Next1(others)
  OBVIOUS
<1>1. /\ me # None /\ me.step = "read"
      /\ TypeOK /\ Named(k) /\ HooksHeld(k) /\ ReadsAll(k)
      /\ worker' = [worker EXCEPT ![k].todo = @ \ {w}, ![k].seen[w] = run[w]]
      /\ UNCHANGED <<run, record, runLock, hookLock, process, now, pass, ended, torn>>
      /\ now \in 0..MaxTime /\ now <= now'
  BY DEF IInv, TypeOK, WorkerInv, Read
<1>2. /\ me \in Work /\ worker \in [Workers -> Work \cup {None}]
      /\ run \in [Worktrees -> Runs \cup {None}]
      /\ me.seen \in [Worktrees -> Runs \cup {None}]
  BY <1>1, WorkType DEF TypeOK
<1> DEFINE f == [me.seen EXCEPT ![w] = run[w]]
<1>3. f \in [Worktrees -> Runs \cup {None}]
  BY <1>2
<1>4. /\ \A v \in Worktrees : v # w => f[v] = me.seen[v]
      /\ w \in Worktrees => f[w] = run[w]
  BY <1>2
<1>5. worker' = [worker EXCEPT ![k] = [me EXCEPT !.todo = @ \ {w}, !.seen = f]]
  BY <1>1, <1>2 DEF Work
<1> HIDE DEF f
<1>6. Stepped(k, "read", me.todo \ {w}, f)
  <2>1. [me EXCEPT !.todo = @ \ {w}, !.seen = f] \in Work
    BY <1>2, <1>3 DEF Work
  <2>2. /\ worker' \in [Workers -> Work \cup {None}] /\ OthersStay(k)
        /\ worker'[k] = [me EXCEPT !.todo = @ \ {w}, !.seen = f]
    BY <1>2, <1>5, <2>1 DEF OthersStay
  <2>3. /\ worker'[k].kind = me.kind /\ worker'[k].process = me.process
        /\ worker'[k].at = me.at /\ worker'[k].stamp = me.stamp
        /\ worker'[k].step = me.step /\ worker'[k].todo = me.todo \ {w}
        /\ worker'[k].seen = f
    BY <1>2, <2>2 DEF Work
  <2> QED
    BY <1>1, <2>1, <2>2, <2>3 DEF Stepped
<1>7. ReadsAll(k)'
  <2> SUFFICES ASSUME me.kind = "move",
                      NEW x \in Worktrees, NEW v \in Worktrees,
                      f[x] = None, run[x] # None, x \notin me.todo \ {w}
               PROVE  /\ v # x /\ run[v] # None => run[v].started # run[x].started
                      /\ f[v] # None => f[v].started # run[x].started
    <3>1. /\ run' = run /\ worker'[k].kind = me.kind /\ worker'[k].seen = f
          /\ worker'[k].todo = me.todo \ {w} /\ worker'[k].step = "read"
      BY <1>1, <1>6 DEF Stepped
    <3> QED
      BY <3>1 DEF ReadsAll
  <2>1. x # w /\ me.seen[x] = None /\ x \notin me.todo
    BY <1>4
  <2>2. /\ v # x /\ run[v] # None => run[v].started # run[x].started
        /\ me.seen[v] # None => me.seen[v].started # run[x].started
    BY <1>1, <2>1 DEF ReadsAll
  <2> QED
    BY <1>4, <2>1, <2>2
<1>8. HooksHeld(k)' /\ Named(k)' /\ Entitled(k)'
  BY <1>1, <1>6 DEF Stepped, HooksHeld, Named, Entitled
<1>9. WorkerInv(k)'
  BY <1>6, <1>7, <1>8 DEF Stepped, WorkerInv, MovesOne, Between
<1>10. ReadsOn(k) /\ worker' \in [Workers -> Work \cup {None}] /\ OthersStay(k)
  BY <1>1, <1>4, <1>6 DEF Stepped, ReadsOn
<1> QED
  BY <1>1, <1>9, <1>10, QuietStep, RecordStays DEF TypeOK, LocksKept

LEMMA CarryStep ==
    ASSUME IInv, NEW k \in Workers, Carry(k)
    PROVE  Good
<1>1. /\ worker[k] # None /\ worker[k].step = "read" /\ worker[k].todo = {}
      /\ worker[k].kind = "move"
      /\ TypeOK /\ Named(k) /\ HooksHeld(k) /\ ReadsAll(k)
      /\ UNCHANGED <<run, record, runLock, process, now, pass, ended, torn>>
      /\ now \in 0..MaxTime /\ now <= now'
  BY DEF IInv, TypeOK, WorkerInv, Carry, HasRead
<1>2. worker[k].at \in Worktrees /\ Seen(k) \subseteq Worktrees /\ "move" \in Steps /\ "look" \in Steps
  BY <1>1, WorkType DEF Seen, Steps
<1>3. \/ /\ Stepped(k, "move", MoveLocks(k), worker[k].seen) /\ hookLock' = hookLock
         /\ Seen(k) \ {worker[k].at} = {Source(k)}
         /\ worker[k].seen[Source(k)].process = worker[k].process
      \/ Stepped(k, "look", {}, Nowhere) /\ hookLock' = Freed(hookLock, k)
  <2>1. CASE /\ Become(k, "move", MoveLocks(k)) /\ UNCHANGED hookLock
             /\ Seen(k) \ {worker[k].at} = {Origin(k)}
             /\ worker[k].seen[Source(k)].process = worker[k].process
    <3>1. Source(k) \in Seen(k) /\ Source(k) # worker[k].at
      BY <2>1, SourceIn
    <3>2. MoveLocks(k) \in SUBSET Worktrees
      BY <1>2, <3>1 DEF MoveLocks
    <3>3. Seen(k) \ {worker[k].at} = {Source(k)}
      BY <2>1, <3>1
    <3> QED
      BY <1>1, <1>2, <2>1, <3>2, <3>3, BecomeStep
  <2>2. CASE Forget(k, "look", {}) /\ hookLock' = Freed(hookLock, k)
    BY <1>1, <1>2, <2>2, ForgetStep
  <2> QED
    BY <2>1, <2>2 DEF Carry
<1>4. hookLock' \in [Worktrees -> Workers \cup {None}] /\ LocksKept(k)
  BY <1>1, <1>3, FreedKeeps DEF TypeOK, LocksKept
<1>5. HooksHeld(k)' /\ Named(k)' /\ Entitled(k)'
  <2>1. CASE Stepped(k, "look", {}, Nowhere)
    BY <1>1, <2>1 DEF Stepped, HooksHeld, Named, Entitled, HookKinds
  <2>2. CASE Stepped(k, "move", MoveLocks(k), worker[k].seen) /\ hookLock' = hookLock
    BY <1>1, <2>2 DEF Stepped, HooksHeld, Named, Entitled
  <2> QED
    BY <1>3, <2>1, <2>2
<1>6. ReadsAll(k)'
  <2>1. /\ run' = run /\ worker'[k].kind = worker[k].kind
        /\ \/ worker'[k].step = "look"
           \/ worker'[k].step = "move" /\ worker'[k].seen = worker[k].seen
    BY <1>1, <1>3 DEF Stepped
  <2> QED
    BY <1>1, <2>1 DEF ReadsAll
<1>7. MovesOne(k)' /\ Between(k)'
  <2>1. CASE Stepped(k, "look", {}, Nowhere)
    BY <2>1 DEF Stepped, MovesOne, Between
  <2>2. CASE /\ Stepped(k, "move", MoveLocks(k), worker[k].seen)
             /\ Seen(k) \ {worker[k].at} = {Source(k)}
             /\ worker[k].seen[Source(k)].process = worker[k].process
    <3>1. /\ Seen(k)' = Seen(k) /\ Source(k)' = Source(k) /\ MoveLocks(k)' = MoveLocks(k)
          /\ worker'[k].todo = MoveLocks(k) /\ worker'[k].step = "move"
          /\ worker'[k].kind = "move" /\ worker'[k].at = worker[k].at
          /\ worker'[k].seen = worker[k].seen /\ worker'[k].process = worker[k].process
      BY <1>1, <2>2, SourceIs DEF Stepped
    <3> QED
      BY <2>2, <3>1 DEF MovesOne, Between
  <2> QED
    BY <1>3, <2>1, <2>2
<1>8. ReadsOn(k) /\ worker' \in [Workers -> Work \cup {None}] /\ OthersStay(k)
  BY <1>1, <1>3 DEF Stepped, ReadsOn, Nowhere
<1>9. WorkerInv(k)'
  BY <1>5, <1>6, <1>7 DEF WorkerInv
<1> QED
  BY <1>1, <1>4, <1>8, <1>9, QuietStep, RecordStays DEF TypeOK

LEMMA LockRunStep ==
    ASSUME IInv, NEW k \in Workers, LockRun(k)
    PROVE  Good
<1> PICK w : w = Next1(worker[k].todo)
  OBVIOUS
<1>1. /\ worker[k] # None /\ worker[k].step = "move"
      /\ TypeOK /\ Named(k) /\ HooksHeld(k) /\ ReadsAll(k) /\ MovesOne(k)
      /\ runLock[w] = None /\ runLock' = [runLock EXCEPT ![w] = k]
      /\ worker' = [worker EXCEPT ![k].todo = @ \ {w}]
      /\ UNCHANGED <<run, record, hookLock, process, now, pass, ended, torn>>
      /\ now \in 0..MaxTime /\ now <= now'
  BY DEF IInv, TypeOK, WorkerInv, LockRun
<1>2. Stepped(k, "move", worker[k].todo \ {w}, worker[k].seen)
  BY <1>1, TodoStep
<1>3. /\ runLock' \in [Worktrees -> Workers \cup {None}] /\ LocksKept(k)
      /\ \A v \in Worktrees : (v = w \/ runLock[v] = k) => runLock'[v] = k
  BY <1>1 DEF TypeOK, LocksKept
<1>4. HooksHeld(k)' /\ Named(k)' /\ Entitled(k)' /\ Between(k)'
  BY <1>1, <1>2 DEF Stepped, HooksHeld, Named, Entitled, Between
<1>5. ReadsAll(k)'
  <2>1. /\ run' = run /\ worker'[k].kind = worker[k].kind
        /\ worker'[k].step = "move" /\ worker'[k].seen = worker[k].seen
    BY <1>1, <1>2 DEF Stepped
  <2> QED
    BY <1>1, <2>1 DEF ReadsAll
<1>6. MovesOne(k)'
  <2>1. /\ Seen(k)' = Seen(k) /\ Source(k)' = Source(k) /\ MoveLocks(k)' = MoveLocks(k)
        /\ worker'[k].todo = worker[k].todo \ {w} /\ worker'[k].kind = worker[k].kind
        /\ worker'[k].at = worker[k].at
        /\ worker'[k].seen = worker[k].seen /\ worker'[k].process = worker[k].process
    BY <1>2, SourceIs DEF Stepped
  <2>2. MoveLocks(k) \subseteq Worktrees
    BY <1>1, WorkType DEF MovesOne, MoveLocks, Seen
  <2>3. \A v \in MoveLocks(k) \ (worker[k].todo \ {w}) : runLock'[v] = k
    BY <1>1, <1>3, <2>2 DEF MovesOne
  <2> QED
    BY <1>1, <2>1, <2>3 DEF MovesOne
<1>7. WorkerInv(k)'
  BY <1>4, <1>5, <1>6 DEF WorkerInv
<1>8. ReadsOn(k) /\ worker' \in [Workers -> Work \cup {None}] /\ OthersStay(k)
  BY <1>1, <1>2 DEF Stepped, ReadsOn
<1> QED
  BY <1>1, <1>3, <1>7, <1>8, QuietStep, RecordStays DEF TypeOK

\* Whoever goes on to end the runs of W is entitled to them.
LEMMA RemoveWorker ==
    ASSUME TypeOK, NEW k \in Workers, worker[k] # None, NEW W \in SUBSET Worktrees,
           Named(k), W \subseteq Seen(k), Owned(k, W), process' = process,
           ToRemove(k, W)
    PROVE  /\ worker' \in [Workers -> Work \cup {None}] /\ OthersStay(k)
           /\ WorkerInv(k)' /\ ReadsOn(k)
           /\ worker'[k] # None =>
                \/ worker'[k].todo = W /\ worker'[k].step = "remove"
                \/ worker'[k].step = "publish"
<1>1. CASE W # {} /\ Stepped(k, "remove", W, worker[k].seen)
  <2>1. /\ worker'[k].step = "remove" /\ worker'[k].todo = W
        /\ worker'[k].seen = worker[k].seen /\ worker'[k].process = worker[k].process
        /\ worker'[k].kind = worker[k].kind /\ worker'[k].stamp = worker[k].stamp
        /\ worker'[k].at = worker[k].at
    BY <1>1 DEF Stepped
  <2>2. Entitled(k)'
    BY <2>1, SourceIs DEF Entitled, Owned
  <2>3. Named(k)'
    BY <2>1 DEF Named
  <2>4. WorkerInv(k)'
    BY <2>1, <2>2, <2>3, PlainWorker
  <2> QED
    BY <1>1, <2>1, <2>4 DEF Stepped, ReadsOn
<1>2. CASE worker[k].kind = "end" /\ Stepped(k, "publish", {}, Nowhere)
  <2>1. Named(k)' /\ Entitled(k)' /\ worker'[k].step = "publish"
    BY <1>2 DEF Stepped, Named, Entitled, HookKinds
  <2>2. WorkerInv(k)'
    BY <2>1, PlainWorker
  <2> QED
    BY <1>2, <2>1, <2>2 DEF Stepped, ReadsOn, Nowhere
<1>3. CASE Finished(k)
  BY <1>3 DEF Finished, WorkerInv, ReadsOn
<1> QED
  BY <1>1, <1>2, <1>3, ToRemoveStep

LEMMA AfterLookWorker ==
    ASSUME TypeOK, NEW k \in Workers, worker[k] # None, Named(k), AfterLook(k)
    PROVE  /\ worker' \in [Workers -> Work \cup {None}] /\ OthersStay(k)
           /\ WorkerInv(k)' /\ ReadsOn(k)
           /\ worker'[k] # None => worker'[k].step = "read"
<1>1. CASE worker[k].kind = "end" /\ Stepped(k, "read", Worktrees, Nowhere)
  <2>1. Named(k)' /\ Entitled(k)' /\ worker'[k].step = "read" /\ worker'[k].kind = "end"
    BY <1>1 DEF Stepped, Named, Entitled
  <2>2. WorkerInv(k)'
    BY <2>1, PlainWorker
  <2> QED
    BY <1>1, <2>1, <2>2 DEF Stepped, ReadsOn, Nowhere
<1>2. CASE Finished(k)
  BY <1>2 DEF Finished, WorkerInv, ReadsOn
<1> QED
  BY <1>1, <1>2, AfterLookStep

LEMMA LookStep ==
    ASSUME IInv, NEW k \in Workers, Look(k)
    PROVE  Good
<1> DEFINE me == worker[k]
           found == run[me.at]
<1>1. /\ me # None /\ me.step = "look" /\ TypeOK /\ Named(k)
      /\ UNCHANGED <<run, record, runLock, hookLock, process, now, pass, ended, torn>>
      /\ now \in 0..MaxTime /\ now <= now'
  BY DEF IInv, TypeOK, WorkerInv, Look
<1>2. /\ me \in Work /\ me.at \in Worktrees /\ worker \in [Workers -> Work \cup {None}]
      /\ me.seen \in [Worktrees -> Runs \cup {None}] /\ found \in Runs \cup {None}
  BY <1>1, WorkType DEF TypeOK
<1> DEFINE f == [me.seen EXCEPT ![me.at] = found]
<1>3. \/ AfterLook(k)
      \/ /\ found # None /\ process[found.process] = "gone"
         /\ worker' = [worker EXCEPT ![k].step = "adopt", ![k].seen[me.at] = found]
  <2>1. PICK gone \in IF found = None THEN {FALSE} ELSE Probes(found.process) :
          IF Exclusive /\ gone /\ found.process # me.process
          THEN worker' = [worker EXCEPT ![k].step = "adopt", ![k].seen[me.at] = found]
          ELSE AfterLook(k)
    BY Zenon DEF Look
  <2>2. gone => found # None /\ process[found.process] = "gone"
    BY <2>1, Zenon DEF Probes
  <2> QED
    BY <2>1, <2>2, Zenon
<1>4. /\ worker' \in [Workers -> Work \cup {None}] /\ OthersStay(k)
      /\ WorkerInv(k)' /\ ReadsOn(k)
  <2>1. CASE AfterLook(k)
    BY <1>1, <2>1, AfterLookWorker
  <2>2. CASE /\ found # None /\ process[found.process] = "gone"
             /\ worker' = [worker EXCEPT ![k].step = "adopt", ![k].seen[me.at] = found]
    <3>1. worker' = [worker EXCEPT ![k] = [me EXCEPT !.step = "adopt", !.seen = f]]
      BY <1>2, <2>2 DEF Work
    <3>2. f \in [Worktrees -> Runs \cup {None}] /\ f[me.at] = found
          /\ \A w \in Worktrees : f[w] \in {run[w], me.seen[w]}
      BY <1>2
    <3> HIDE DEF f
    <3>3. [me EXCEPT !.step = "adopt", !.seen = f] \in Work
      BY <1>2, <3>2 DEF Work, Steps
    <3>4. /\ worker' \in [Workers -> Work \cup {None}] /\ OthersStay(k)
          /\ worker'[k] = [me EXCEPT !.step = "adopt", !.seen = f]
      BY <1>2, <3>1, <3>3 DEF OthersStay
    <3>5. /\ worker'[k].kind = me.kind /\ worker'[k].process = me.process
          /\ worker'[k].at = me.at /\ worker'[k].stamp = me.stamp
          /\ worker'[k].step = "adopt" /\ worker'[k].seen = f
      BY <1>2, <3>4 DEF Work
    <3>6. Named(k)' /\ Entitled(k)'
      BY <1>1, <2>2, <3>2, <3>5 DEF Named, Entitled
    <3>7. WorkerInv(k)'
      BY <3>5, <3>6, PlainWorker
    <3>8. ReadsOn(k)
      BY <1>1, <3>2, <3>5 DEF ReadsOn
    <3> QED
      BY <3>4, <3>7, <3>8
  <2> QED
    BY <1>3, <2>1, <2>2
<1> QED
  BY <1>1, <1>4, QuietStep, RecordStays DEF TypeOK, LocksKept

LEMMA ChooseStep ==
    ASSUME IInv, NEW k \in Workers, Choose(k)
    PROVE  Good
<1>1. /\ worker[k] # None /\ worker[k].step = "read" /\ TypeOK /\ Named(k)
      /\ UNCHANGED <<run, record, runLock, hookLock, process, now, pass, ended, torn>>
      /\ now \in 0..MaxTime /\ now <= now'
  BY DEF IInv, TypeOK, WorkerInv, Choose, HasRead
<1>2. /\ worker' \in [Workers -> Work \cup {None}] /\ OthersStay(k)
      /\ WorkerInv(k)' /\ ReadsOn(k)
  <2>1. /\ Endable(k) \subseteq Seen(k) /\ Seen(k) \in SUBSET Worktrees
        /\ Endable(k) \in SUBSET Worktrees /\ Owned(k, Endable(k))
    BY DEF Endable, Seen, Owned
  <2>2. CASE ToRemove(k, Endable(k))
    BY <1>1, <2>1, <2>2, RemoveWorker
  <2>5. CASE Deferred(k) /\ Become(k, "publish", {})
    <3>1. worker[k].kind = "end" /\ Stepped(k, "publish", {}, worker[k].seen)
      BY <1>1, <2>5, BecomeStep DEF Deferred, Steps
    <3>2. Named(k)' /\ Entitled(k)'
      BY <1>1, <3>1 DEF Stepped, Named, Entitled, HookKinds
    <3>3. WorkerInv(k)'
      BY <3>1, <3>2, PlainWorker DEF Stepped
    <3> QED
      BY <1>1, <3>1, <3>3 DEF Stepped, ReadsOn
  <2>3. CASE Owned(k, Seen(k)) /\ ToRemove(k, Seen(k))
    BY <1>1, <2>1, <2>3, RemoveWorker
  <2>4. CASE Finish(k)
    <3>1. Finished(k)
      BY <1>1, <2>4, FinishStep
    <3> QED
      BY <3>1 DEF Finished, WorkerInv, ReadsOn
  <2> QED
    BY <2>2, <2>3, <2>4, <2>5 DEF Choose
<1> QED
  BY <1>1, <1>2, QuietStep, RecordStays DEF TypeOK, LocksKept

LEMMA SettleStep ==
    ASSUME IInv, NEW k \in Workers, Settle(k)
    PROVE  Good
<1>1. /\ worker[k] # None /\ worker[k].step = "settle" /\ TypeOK /\ Named(k)
      /\ Forget(k, "read", Worktrees) \/ Finish(k)
      /\ UNCHANGED <<run, record, runLock, hookLock, process, now, pass, ended, torn>>
      /\ now \in 0..MaxTime /\ now <= now'
  <2>1. now \in 0..MaxTime /\ TypeOK /\ WorkerInv(k)
    BY DEF IInv, TypeOK
  <2>2. worker[k] # None /\ worker[k].step = "settle" /\ Named(k)
    BY <2>1 DEF Settle, WorkerInv
  <2> QED
    BY <2>1, <2>2 DEF Settle
<1>2. /\ worker' \in [Workers -> Work \cup {None}] /\ OthersStay(k)
      /\ WorkerInv(k)' /\ ReadsOn(k)
  <2>1. CASE Forget(k, "read", Worktrees)
    <3>1. worker[k].kind = "settle" /\ Stepped(k, "read", Worktrees, Nowhere)
      BY <1>1, <2>1, ForgetStep DEF Named, Steps
    <3>2. Named(k)' /\ Entitled(k)'
      BY <3>1 DEF Stepped, Named, Entitled, HookKinds
    <3>3. WorkerInv(k)'
      BY <3>1, <3>2, PlainWorker DEF Stepped
    <3> QED
      BY <3>1, <3>3 DEF Stepped, ReadsOn, Nowhere
  <2>2. CASE Finish(k)
    BY <1>1, <2>2, FinishStep DEF Finished, WorkerInv, ReadsOn
  <2> QED
    BY <1>1, <2>1, <2>2
<1> QED
  BY <1>1, <1>2, QuietStep, RecordStays DEF TypeOK, LocksKept

LEMMA DecideStep ==
    ASSUME IInv, NEW k \in Workers, Decide(k)
    PROVE  Good
<1>1. /\ worker[k] # None /\ worker[k].step = "read" /\ worker[k].kind = "declare"
      /\ TypeOK /\ Named(k)
      /\ UNCHANGED <<run, record, runLock, hookLock, process, now, pass, ended, torn>>
      /\ now \in 0..MaxTime /\ now <= now'
  <2>1. now \in 0..MaxTime /\ TypeOK /\ WorkerInv(k)
    BY DEF IInv, TypeOK
  <2>2. HasRead(k, {"declare"})
    BY DEF Decide
  <2>3. /\ worker[k] # None /\ worker[k].step = "read" /\ worker[k].kind = "declare"
        /\ Named(k)
    BY <2>1, <2>2 DEF HasRead, WorkerInv
  <2> QED
    BY <2>1, <2>3 DEF Decide
<1>2. /\ worker' \in [Workers -> Work \cup {None}] /\ OthersStay(k)
      /\ WorkerInv(k)' /\ ReadsOn(k)
  <2>1. CASE Owned(k, Seen(k)) /\ Become(k, "declare", {})
    <3>1. Stepped(k, "declare", {}, worker[k].seen)
      BY <1>1, <2>1, BecomeStep DEF Steps
    <3>2. Named(k)' /\ Entitled(k)'
      <4>1. Seen(k)' = Seen(k) /\ worker'[k].step = "declare" /\ process' = process
            /\ worker'[k].seen = worker[k].seen /\ worker'[k].process = worker[k].process
        BY <1>1, <3>1, SourceIs DEF Stepped
      <4>2. Owned(k, Seen(k))'
        BY <2>1, <4>1 DEF Owned
      <4> QED
        BY <1>1, <3>1, <4>1, <4>2 DEF Stepped, Named, Entitled, HookKinds
    <3>3. WorkerInv(k)'
      BY <3>1, <3>2, PlainWorker DEF Stepped
    <3> QED
      BY <1>1, <3>1, <3>3 DEF Stepped, ReadsOn
  <2>2. CASE Finish(k)
    <3>1. Finished(k)
      BY <1>1, <2>2, FinishStep
    <3> QED
      BY <3>1 DEF Finished, WorkerInv, ReadsOn
  <2> QED
    BY <2>1, <2>2 DEF Decide
<1> QED
  BY <1>1, <1>2, QuietStep, RecordStays DEF TypeOK, LocksKept

\* A step that changes one run, which is not in a move.
LEMMA OneRunStep ==
    ASSUME IInv, NEW k \in Workers, worker' \in [Workers -> Work \cup {None}],
           OthersStay(k), UNCHANGED <<record, runLock, hookLock, process, pass, torn>>,
           now' \in 0..MaxTime, now <= now',
           worker[k] # None => worker[k].step # "unlink",
           WorkerInv(k)', ReadsOn(k),
           NEW x \in Worktrees, NEW r \in Runs \cup {None}, run' = [run EXCEPT ![x] = r],
           r # None => r.at = x /\ r.started <= now',
           ended' \subseteq ended \cup (IF run[x] = None THEN {} ELSE {run[x].started}),
           RunStep(k)
    PROVE  Good
<1>1. /\ TypeOK /\ now \in Nat /\ now' \in Nat /\ run \in [Worktrees -> Runs \cup {None}]
      /\ run[x] # None => run[x].started \in Times /\ run[x].started <= now
      /\ \A w \in Worktrees : run'[w] = IF w = x THEN r ELSE run[w]
  BY RunType DEF IInv, TypeOK, Stamped
<1>2. TypeOK'
  <2>1. run' \in [Worktrees -> Runs \cup {None}]
    BY <1>1
  <2>2. \A w \in Worktrees : run'[w] # None => run'[w].at = w
    BY <1>1 DEF TypeOK
  <2>3. ended' \subseteq Times
    BY <1>1 DEF TypeOK
  <2> QED
    BY <1>1, <2>1, <2>2, <2>3 DEF TypeOK
<1>3. Stamped'
  <2>1. ASSUME NEW w \in Worktrees, run'[w] # None PROVE run'[w].started <= now'
    <3>1. CASE w = x
      BY <1>1, <2>1, <3>1
    <3>2. CASE w # x
      <4>1. run'[w] = run[w] /\ run[w].started \in Nat /\ run[w].started <= now
        BY <1>1, <2>1, <3>2, RunType DEF IInv, Stamped
      <4> QED
        BY <1>1, <4>1
    <3> QED
      BY <3>1, <3>2
  <2>2. ASSUME NEW id \in ended' PROVE id <= now'
    <3>1. id \in Nat /\ id <= now
      BY <1>1, <2>2 DEF IInv, TypeOK, Stamped, Times
    <3> QED
      BY <1>1, <3>1
  <2>3. \A j \in Workers, w \in Worktrees :
          worker'[j] # None /\ worker'[j].seen[w] # None =>
            worker'[j].seen[w].started <= now' /\ worker'[j].seen[w].at = w
    BY <1>1, ReadingsStamped
  <2> QED
    BY <2>1, <2>2, <2>3 DEF Stamped
<1>4. GoneStays /\ LocksKept(k) /\ torn \subseteq torn'
  BY DEF GoneStays, LocksKept
<1>5. \A id : Moving(id) => Moving(id)' \/ id \in torn'
  BY MovingStays
<1>6. worker[k] # None /\ worker[k].step = "unlink" => UNCHANGED <<run, ended>>
  OBVIOUS
<1> QED
  BY <1>2, <1>3, <1>4, <1>5, <1>6, StepGood, RecordStays

LEMMA AdoptStep ==
    ASSUME IInv, NEW k \in Workers, Adopt(k)
    PROVE  Good
<1> DEFINE me == worker[k]
           x == worker[k].at
           r == [worker[k].seen[x] EXCEPT !.process = worker[k].process]
<1>1. /\ me # None /\ me.step = "adopt" /\ TypeOK /\ Named(k) /\ Entitled(k)
      /\ runLock[x] = None /\ AfterLook(k)
      /\ UNCHANGED <<record, runLock, hookLock, process, now, pass, ended, torn>>
      /\ now \in 0..MaxTime /\ now <= now' /\ now' = now
  BY DEF IInv, TypeOK, WorkerInv, Adopt
<1>2. /\ worker' \in [Workers -> Work \cup {None}] /\ OthersStay(k)
      /\ WorkerInv(k)' /\ ReadsOn(k)
      /\ worker'[k] # worker[k]
  BY <1>1, AfterLookWorker
<1>3. /\ x \in Worktrees /\ me.seen[x] \in Runs
      /\ process[me.seen[x].process] = "gone" /\ me.process \in Processes
      /\ me.seen[x].started <= now /\ me.seen[x].at = x
  <2>1. x \in Worktrees /\ me.seen \in [Worktrees -> Runs \cup {None}]
    BY <1>1, WorkType
  <2>2. me.seen[x] # None /\ me.process \in Processes
    BY <1>1 DEF Entitled, Named
  <2> QED
    BY <1>1, <2>1, <2>2 DEF Entitled, IInv, Stamped
<1>4. r \in Runs /\ r.started = me.seen[x].started /\ r.at = x
  BY <1>3 DEF Runs
<1>5. CASE run[x] = me.seen[x] /\ run' = [run EXCEPT ![x] = r]
  <2>1. /\ run'[x] = r /\ \A w \in Worktrees \ {x} : run'[w] = run[w]
    BY <1>1, <1>3, <1>5 DEF TypeOK
  <2>2. run[x] # None /\ r # None
    BY <1>3, <1>4, <1>5
  <2>3. Continues(x) /\ Mine(k, x)
    BY <1>1, <1>2, <1>3, <1>4, <1>5, <2>1, <2>2 DEF Continues, Mine
  <2>4. RunStep(k)
    BY <1>1, <1>3, <2>1, <2>3 DEF RunStep
  <2>5. r.at = x /\ r.started <= now' /\ r \in Runs \cup {None}
    BY <1>1, <1>3, <1>4
  <2> HIDE DEF r
  <2> QED
    BY <1>1, <1>2, <1>3, <1>5, <2>4, <2>5, OneRunStep
<1>6. CASE run' = run
  BY <1>1, <1>2, <1>6, QuietStep, RecordStays DEF TypeOK, LocksKept
<1> QED
  BY <1>5, <1>6 DEF Adopt, StillRecorded

LEMMA RemoveStep ==
    ASSUME IInv, NEW k \in Workers, Remove(k)
    PROVE  Good
<1> PICK x : x = Next1(worker[k].todo)
  OBVIOUS
<1> DEFINE me == worker[k]
<1>1. /\ me # None /\ me.step = "remove" /\ TypeOK /\ Named(k) /\ Entitled(k)
      /\ me.todo # {} /\ runLock[x] = None
      /\ UNCHANGED <<record, runLock, hookLock, process, now, pass, torn>>
      /\ now \in 0..MaxTime /\ now <= now' /\ now' = now
      /\ ToRemove(k, me.todo \ {x}) \/ Finish(k)
  BY DEF IInv, TypeOK, WorkerInv, Remove
<1>2. /\ x \in me.todo /\ me.todo \subseteq Seen(k) /\ me.todo \in SUBSET Worktrees
      /\ Owned(k, me.todo)
  <2>1. me.todo \in SUBSET Worktrees
    BY <1>1, WorkType
  <2> QED
    BY <1>1, <2>1, LeastIn DEF Entitled
<1>3. /\ worker' \in [Workers -> Work \cup {None}] /\ OthersStay(k)
      /\ WorkerInv(k)' /\ ReadsOn(k)
      /\ worker'[k] # worker[k]
  <2>1. CASE ToRemove(k, me.todo \ {x})
    <3>1. Owned(k, me.todo \ {x}) /\ me.todo \ {x} \subseteq Seen(k)
          /\ me.todo \ {x} \in SUBSET Worktrees
      BY <1>2 DEF Owned
    <3> QED
      BY <1>1, <1>2, <2>1, <3>1, RemoveWorker
  <2>2. CASE Finish(k)
    <3>1. Finished(k)
      BY <1>1, <2>2, FinishStep
    <3> QED
      BY <1>1, <3>1 DEF Finished, WorkerInv, ReadsOn
  <2> QED
    BY <1>1, <2>1, <2>2
<1>4. CASE /\ run[x] = me.seen[x] /\ run' = [run EXCEPT ![x] = None]
           /\ ended' = ended \cup {me.seen[x].started}
  <2>1. run[x] # None /\ x \in Worktrees
    BY <1>2, <1>4 DEF Seen
  <2>2. run'[x] = None /\ \A w \in Worktrees \ {x} : run'[w] = run[w]
    BY <1>1, <1>4, <2>1 DEF TypeOK
  <2>3. Ends(x) /\ Mine(k, x)
    BY <1>1, <1>2, <1>3, <1>4, <2>1, <2>2 DEF Ends, Mine, Owned
  <2>4. RunStep(k)
    BY <1>1, <2>1, <2>2, <2>3 DEF RunStep
  <2>5. ended' \subseteq ended \cup (IF run[x] = None THEN {} ELSE {run[x].started})
    BY <1>4, <2>1
  <2> QED
    BY <1>1, <1>3, <1>4, <2>1, <2>4, <2>5, OneRunStep
<1>5. CASE run' = run /\ ended' = ended
  BY <1>1, <1>3, <1>5, QuietStep, RecordStays DEF TypeOK, LocksKept
<1> QED
  BY <1>4, <1>5 DEF Remove, StillRecorded

LEMMA DeclareStep ==
    ASSUME IInv, NEW k \in Workers, Declare(k)
    PROVE  Good
<1> PICK t : t = now'
  OBVIOUS
<1> DEFINE me == worker[k]
           x == worker[k].at
           r == [started |-> t, process |-> worker[k].process, at |-> x]
<1>1. /\ me # None /\ me.step = "declare" /\ TypeOK /\ Named(k) /\ Entitled(k)
      /\ runLock[x] = None
      /\ UNCHANGED <<record, runLock, hookLock, process, pass, torn>>
      /\ now \in 0..MaxTime /\ now \in Nat
      /\ x \in Worktrees /\ me.process \in Processes /\ Owned(k, Seen(k))
      /\ me.seen \in [Worktrees -> Runs \cup {None}]
  BY WorkType DEF IInv, TypeOK, WorkerInv, Declare, Named, Entitled
<1>2. CASE /\ run[x] = me.seen[x] /\ now < MaxTime /\ now' = now + 1
           /\ run' = [run EXCEPT ![x] = r]
           /\ ended' = IF me.seen[x] = None THEN ended ELSE ended \cup {me.seen[x].started}
           /\ ToRemove(k, Seen(k) \ {x})
  <2>1. r \in Runs /\ t \in 0..MaxTime /\ now <= t /\ r.at = x /\ r.started = t /\ t > now
    BY <1>1, <1>2 DEF Runs, Times
  <2>2. r # None
    BY <2>1
  <2>3. /\ worker' \in [Workers -> Work \cup {None}] /\ OthersStay(k)
        /\ WorkerInv(k)' /\ ReadsOn(k) /\ worker'[k] # worker[k]
    <3>1. /\ Seen(k) \ {x} \in SUBSET Worktrees /\ Seen(k) \ {x} \subseteq Seen(k)
          /\ Owned(k, Seen(k) \ {x})
      BY <1>1 DEF Owned, Seen
    <3> QED
      BY <1>1, <1>2, <3>1, RemoveWorker
  <2>4. run'[x] = r /\ \A w \in Worktrees \ {x} : run'[w] = run[w]
    BY <1>1, <1>2 DEF TypeOK
  <2>5. Declares(x)
    BY <1>2, <2>1, <2>2, <2>4 DEF Declares
  <2>6. Mine(k, x)
    BY <1>1, <1>2, <2>3 DEF Mine, Owned, Seen
  <2>7. RunStep(k)
    BY <1>1, <2>4, <2>5, <2>6 DEF RunStep
  <2>8. ended' \subseteq ended \cup (IF run[x] = None THEN {} ELSE {run[x].started})
    BY <1>2
  <2>9. run' = [run EXCEPT ![x] = r] /\ r \in Runs \cup {None} /\ r.started <= now'
    BY <1>2, <2>1
  <2> HIDE DEF r
  <2> QED
    BY <1>1, <2>1, <2>3, <2>7, <2>8, <2>9, OneRunStep
<1>3. CASE Finish(k) /\ UNCHANGED <<run, now, ended>>
  <2>1. Finished(k)
    BY <1>1, <1>3, FinishStep
  <2>2. /\ worker' \in [Workers -> Work \cup {None}] /\ OthersStay(k)
        /\ WorkerInv(k)' /\ ReadsOn(k)
    BY <2>1 DEF Finished, WorkerInv, ReadsOn
  <2> QED
    BY <1>1, <1>3, <2>2, QuietStep, RecordStays DEF TypeOK, LocksKept
<1> QED
  BY <1>2, <1>3 DEF Declare, StillRecorded

LEMMA ReleaseKeeps ==
    ASSUME TypeOK, NEW k \in Workers, Release(k)
    PROVE  /\ hookLock' \in [Worktrees -> Workers \cup {None}]
           /\ runLock' \in [Worktrees -> Workers \cup {None}] /\ LocksKept(k)
<1>1. /\ hookLock \in [Worktrees -> Workers \cup {None}]
      /\ runLock \in [Worktrees -> Workers \cup {None}]
      /\ hookLock' = Freed(hookLock, k) /\ runLock' = Freed(runLock, k)
  BY DEF TypeOK, Release
<1> QED
  BY <1>1, FreedKeeps DEF LocksKept

\* The copy at the target is in no third place: the move had read them all.
LEMMA WriteTargetStep ==
    ASSUME IInv, NEW k \in Workers, WriteTarget(k)
    PROVE  Good
<1>1. /\ worker[k] # None /\ worker[k].step = "move" /\ worker[k].todo = {}
      /\ TypeOK /\ Named(k) /\ HooksHeld(k) /\ ReadsAll(k) /\ MovesOne(k)
      /\ UNCHANGED <<record, process, now, pass, ended, torn>>
      /\ now \in 0..MaxTime /\ now <= now' /\ now' = now /\ now \in Nat
  BY DEF IInv, TypeOK, WorkerInv, WriteTarget
<1>2. CASE Forget(k, "look", {}) /\ Release(k) /\ UNCHANGED run
  <2>1. Stepped(k, "look", {}, Nowhere)
    BY <1>1, <1>2, ForgetStep DEF Steps
  <2>2. Named(k)' /\ Entitled(k)'
    BY <1>1, <2>1 DEF Stepped, Named, Entitled, MovesOne, HookKinds
  <2>3. WorkerInv(k)'
    BY <2>1, <2>2, PlainWorker DEF Stepped
  <2>4. worker' \in [Workers -> Work \cup {None}] /\ OthersStay(k) /\ ReadsOn(k)
    BY <2>1 DEF Stepped, ReadsOn, Nowhere
  <2>5. /\ hookLock' \in [Worktrees -> Workers \cup {None}]
        /\ runLock' \in [Worktrees -> Workers \cup {None}] /\ LocksKept(k)
    BY <1>1, <1>2, ReleaseKeeps
  <2> QED
    BY <1>1, <1>2, <2>3, <2>4, <2>5, QuietStep, RecordStays DEF TypeOK
<1>3. CASE /\ Unchanged(k) /\ run' = TargetFirst(k)
           /\ Become(k, "unlink", {}) /\ UNCHANGED <<runLock, hookLock>>
  <2> PICK at, S, id, r : /\ at = worker[k].at /\ S = Source(k)
                          /\ id = worker[k].seen[Source(k)].started /\ r = Relocated(k)
    OBVIOUS
  <2>1. /\ at \in Worktrees /\ S \in Worktrees /\ S # at /\ MoveLocks(k) = {at, S}
        /\ worker[k].seen[S] \in Runs /\ run[S] = worker[k].seen[S]
        /\ run[at] \in {None, r} /\ run' = [run EXCEPT ![at] = r]
        /\ worker[k].kind = "move"
        /\ worker[k].seen \in [Worktrees -> Runs \cup {None}]
        /\ run \in [Worktrees -> Runs \cup {None}]
    <3>1. /\ worker[k].at \in Worktrees
          /\ worker[k].seen \in [Worktrees -> Runs \cup {None}]
      BY <1>1, WorkType
    <3>2. S \in Seen(k) /\ S # at /\ worker[k].kind = "move"
      BY <1>1 DEF MovesOne
    <3>3. S \in Worktrees /\ worker[k].seen[S] \in Runs
      BY <3>1, <3>2 DEF Seen
    <3>4. /\ run[S] = worker[k].seen[S] /\ run[at] \in {None, r}
          /\ run' = [run EXCEPT ![at] = r] /\ MoveLocks(k) = {at, S}
      BY <1>3 DEF Unchanged, TargetFirst, MoveLocks
    <3>5. run \in [Worktrees -> Runs \cup {None}]
      BY <1>1 DEF TypeOK
    <3> QED
      BY <3>1, <3>2, <3>3, <3>4, <3>5
  <2>2. r \in Runs /\ r # None /\ r.started = id /\ r.at = at /\ id <= now /\ id \in Times
    <3>1. /\ worker[k].seen[at] # None => worker[k].seen[at].at = at
          /\ worker[k].seen[S].started <= now
      BY <1>1, <2>1 DEF IInv, Stamped
    <3>2. worker[k].seen[at] \in Runs \cup {None}
      BY <2>1
    <3> QED
      BY <2>1, <3>1, <3>2, RunType DEF Relocated, Runs
  <2>3. \A w \in Worktrees : run'[w] = IF w = at THEN r ELSE run[w]
    BY <2>1
  <2>4. run[S] # None /\ run[S].started = id /\ worker[k].seen[S].started = id
    BY <2>1
  <2>5. Stepped(k, "unlink", {}, worker[k].seen)
    BY <1>1, <1>3, BecomeStep DEF Steps
  <2>6. /\ worker' \in [Workers -> Work \cup {None}] /\ OthersStay(k) /\ ReadsOn(k)
        /\ worker'[k] # None /\ worker'[k].seen = worker[k].seen
        /\ worker'[k].step = "unlink" /\ worker'[k].todo = {} /\ worker'[k].kind = "move"
        /\ worker'[k].at = at /\ worker'[k].process = worker[k].process
        /\ worker'[k].stamp = worker[k].stamp
        /\ Seen(k)' = Seen(k) /\ Source(k)' = S /\ MoveLocks(k)' = {at, S}
    BY <1>1, <2>1, <2>5, SourceIs, NoneIsNone DEF Stepped, ReadsOn
  <2>7. \A w \in Worktrees : hookLock[w] = k
    BY <1>1, <2>1 DEF HooksHeld
  <2>8. LocksKept(k) /\ GoneStays
    BY <1>1, <1>3 DEF LocksKept, GoneStays
  <2>9. \A j \in Workers \ {k} :
          WorkerInv(j)' /\ (worker[j] # None => worker[j].step \notin {"move", "unlink"})
    BY <2>6, <2>7, <2>8, MovesAlone
  <2>10. WorkerInv(k)'
    <3>1. HooksHeld(k)' /\ ReadsAll(k)' /\ Named(k)' /\ Entitled(k)'
      BY <1>1, <1>3, <2>1, <2>6, <2>7 DEF HooksHeld, ReadsAll, Named, Entitled
    <3>2. MovesOne(k)'
      <4>1. /\ Seen(k) \ {at} = {S} /\ worker[k].seen[S].process = worker[k].process
            /\ \A w \in {at, S} : runLock[w] = k
        BY <1>1, <2>1 DEF MovesOne
      <4> QED
        BY <1>3, <2>6, <4>1 DEF MovesOne
    <3>3. Between(k)'
      <4>1. ASSUME NEW w \in Worktrees, run'[w] # None, run'[w].started = id
            PROVE  w \in {at, S}
        <5> SUFFICES ASSUME w # at, w # S PROVE FALSE
          OBVIOUS
        <5>1. run[w] # None /\ run[w].started = id
          BY <2>3, <4>1
        <5>2. worker[k].seen[w] = None
          BY <1>1 DEF MovesOne, Seen
        <5>3. worker[k].seen[S] # None
          BY <2>1
        <5> QED
          BY <1>1, <2>1, <2>4, <5>1, <5>2, <5>3 DEF ReadsAll
      <4>2. /\ run'[S] = worker[k].seen[S] /\ run'[at] # None /\ run'[at].started = id
        BY <2>1, <2>2, <2>3
      <4> QED
        BY <2>4, <2>6, <4>1, <4>2 DEF Between
    <3> QED
      BY <3>1, <3>2, <3>3 DEF WorkerInv
  <2>11. TypeOK' /\ Stamped'
    <3>1. TypeOK'
      <4>1. run' \in [Worktrees -> Runs \cup {None}]
        BY <2>1, <2>2
      <4>2. \A w \in Worktrees : run'[w] # None => run'[w].at = w
        BY <1>1, <2>2, <2>3 DEF TypeOK
      <4> QED
        BY <1>1, <1>3, <2>6, <4>1, <4>2 DEF TypeOK
    <3>2. \A w \in Worktrees : run'[w] # None => run'[w].started <= now'
      BY <1>1, <2>2, <2>3 DEF IInv, Stamped
    <3>3. \A j \in Workers, w \in Worktrees :
            worker'[j] # None /\ worker'[j].seen[w] # None =>
              worker'[j].seen[w].started <= now' /\ worker'[j].seen[w].at = w
      BY <1>1, <2>6, ReadingsStamped
    <3>4. \A e \in ended' : e <= now'
      BY <1>1 DEF IInv, Stamped
    <3> QED
      BY <3>1, <3>2, <3>3, <3>4 DEF Stamped
  <2>12. Twins'
    <3> SUFFICES ASSUME NEW v \in Worktrees, NEW w \in Worktrees, NEW e \in Times, v # w,
                        run'[v] # None, run'[w] # None, run'[v].started = e, run'[w].started = e
                 PROVE  e \in torn' \/ Moving(e)'
      BY DEF Twins
    <3>1. CASE e = id
      BY <2>4, <2>6, <3>1 DEF Moving
    <3>2. CASE e # id
      <4>1. v # at /\ w # at
        BY <2>2, <2>3, <3>2
      <4>2. e \in torn \/ Moving(e)
        BY <2>3, <4>1 DEF IInv, Twins
      <4>3. ~Moving(e)
        BY <1>1, <2>9 DEF Moving
      <4> QED
        BY <1>1, <4>2, <4>3
    <3> QED
      BY <3>1, <3>2
  <2>13. EndedStaysEnded'
    <3> SUFFICES ASSUME NEW e \in ended, NEW w \in Worktrees, run'[w] # None, run'[w].started = e
                 PROVE  e \in torn
      BY <1>1, HeldIn DEF EndedStaysEnded
    <3>1. \E v \in Worktrees : run[v] # None /\ run[v].started = e
      <4>1. CASE w = at
        BY <2>1, <2>2, <2>3, <2>4, <4>1
      <4>2. CASE w # at
        BY <2>3, <4>2
      <4> QED
        BY <4>1, <4>2
    <3>2. e \in Held
      BY <3>1, HeldIn
    <3> QED
      BY <3>2 DEF IInv, EndedStaysEnded
  <2>14. Lossless
    <3> SUFFICES ASSUME NEW w \in Worktrees, run[w] # None PROVE run[w].started \in Held'
      BY HeldIn DEF Lossless
    <3>1. run'[w] # None /\ run'[w].started = run[w].started
      BY <2>1, <2>2, <2>3
    <3> QED
      BY <3>1, HeldIn
  <2>15. RunSafe
    BY <2>1, <2>3 DEF RunSafe
  <2>16. FoundGone' /\ RecordSafe
    BY <1>1, FoundGoneStays, RecordStays DEF IInv, GoneStays
  <2> QED
    BY <2>9, <2>10, <2>11, <2>12, <2>13, <2>14, <2>15, <2>16 DEF Good, IInv
<1> QED
  BY <1>2, <1>3 DEF WriteTarget

\* The source goes only once its target has the run.
LEMMA UnlinkSourceStep ==
    ASSUME IInv, NEW k \in Workers, UnlinkSource(k)
    PROVE  Good
<1> PICK at, S, id : /\ at = worker[k].at /\ S = Source(k)
                     /\ id = worker[k].seen[Source(k)].started
  OBVIOUS
<1>1. /\ worker[k] # None /\ worker[k].step = "unlink"
      /\ TypeOK /\ Named(k) /\ HooksHeld(k) /\ MovesOne(k) /\ Between(k)
      /\ run' = [run EXCEPT ![S] = None]
      /\ torn' = torn \ ({id} \ ended) /\ Release(k) /\ Finish(k)
      /\ UNCHANGED <<record, process, now, pass, ended>>
      /\ now \in 0..MaxTime /\ now <= now' /\ now' = now /\ now \in Nat
  BY DEF IInv, TypeOK, WorkerInv, UnlinkSource
<1>2. /\ at \in Worktrees /\ S \in Worktrees /\ S # at /\ MoveLocks(k) = {at, S}
      /\ worker[k].kind = "move" /\ run \in [Worktrees -> Runs \cup {None}]
      /\ run[S] = worker[k].seen[S] /\ run[S].started = id
      /\ run[S].process = worker[k].process
      /\ run[at] # None /\ run[at].started = id
  <2>1. worker[k].at \in Worktrees /\ worker[k].kind = "move"
    BY <1>1, WorkType DEF MovesOne
  <2>2. S \in Seen(k) /\ S # at
    BY <1>1 DEF MovesOne
  <2> QED
    BY <1>1, <2>1, <2>2 DEF Seen, MoveLocks, MovesOne, Between, TypeOK
<1>3. \A w \in Worktrees : run'[w] = IF w = S THEN None ELSE run[w]
  BY <1>1, <1>2
<1>4. Finished(k)
  BY <1>1, FinishStep
<1>5. /\ worker' \in [Workers -> Work \cup {None}] /\ OthersStay(k) /\ worker'[k] = None
      /\ WorkerInv(k)' /\ ReadsOn(k)
  BY <1>4 DEF Finished, WorkerInv, ReadsOn
<1>6. /\ hookLock' \in [Worktrees -> Workers \cup {None}]
      /\ runLock' \in [Worktrees -> Workers \cup {None}] /\ LocksKept(k) /\ GoneStays
  BY <1>1, ReleaseKeeps DEF GoneStays
<1>7. \A w \in Worktrees : hookLock[w] = k
  BY <1>1, <1>2 DEF HooksHeld
<1>8. \A j \in Workers \ {k} :
        WorkerInv(j)' /\ (worker[j] # None => worker[j].step \notin {"move", "unlink"})
  BY <1>5, <1>6, <1>7, MovesAlone
<1>9. TypeOK' /\ Stamped'
  <2>1. TypeOK'
    <3>1. run' \in [Worktrees -> Runs \cup {None}]
      BY <1>1, <1>2
    <3>2. \A w \in Worktrees : run'[w] # None => run'[w].at = w
      BY <1>1, <1>3 DEF TypeOK
    <3>3. torn' \subseteq Times
      BY <1>1 DEF TypeOK
    <3> QED
      BY <1>1, <1>5, <1>6, <3>1, <3>2, <3>3 DEF TypeOK
  <2>2. \A w \in Worktrees : run'[w] # None => run'[w].started <= now'
    <3>1. \A w \in Worktrees : run[w] # None => run[w].started <= now
      BY DEF IInv, Stamped
    <3> QED
      BY <1>1, <1>3, <3>1
  <2>3. \A j \in Workers, w \in Worktrees :
          worker'[j] # None /\ worker'[j].seen[w] # None =>
            worker'[j].seen[w].started <= now' /\ worker'[j].seen[w].at = w
    BY <1>1, <1>5, ReadingsStamped
  <2>4. \A e \in ended' : e <= now'
    BY <1>1 DEF IInv, Stamped
  <2> QED
    BY <2>1, <2>2, <2>3, <2>4 DEF Stamped
<1>10. Twins'
  <2> SUFFICES ASSUME NEW v \in Worktrees, NEW w \in Worktrees, NEW e \in Times, v # w,
                      run'[v] # None, run'[w] # None, run'[v].started = e, run'[w].started = e
               PROVE  e \in torn'
    BY DEF Twins
  <2>1. /\ v # S /\ w # S /\ run[v] # None /\ run[w] # None
        /\ run[v].started = e /\ run[w].started = e
    BY <1>3
  <2>2. e # id
    <3> SUFFICES ASSUME e = id PROVE FALSE
      OBVIOUS
    <3>1. v \in {at, S} /\ w \in {at, S}
      BY <1>1, <1>2, <2>1 DEF Between
    <3> QED
      BY <2>1, <3>1
  <2>3. ~Moving(e)
    BY <1>1, <1>8, <2>2 DEF Moving
  <2>4. e \in torn
    BY <2>1, <2>3 DEF IInv, Twins
  <2> QED
    BY <1>1, <2>2, <2>4
<1>11. EndedStaysEnded'
  <2> SUFFICES ASSUME NEW e \in ended, NEW w \in Worktrees, run'[w] # None, run'[w].started = e
               PROVE  e \in torn'
    BY <1>1, HeldIn DEF EndedStaysEnded
  <2>1. e \in Held
    BY <1>3, HeldIn
  <2>2. e \in torn
    BY <2>1 DEF IInv, EndedStaysEnded
  <2> QED
    BY <1>1, <2>2
<1>12. Lossless
  <2> SUFFICES ASSUME NEW w \in Worktrees, run[w] # None PROVE run[w].started \in Held'
    BY HeldIn DEF Lossless
  <2>1. CASE w = S
    <3>1. run'[at] # None /\ run'[at].started = run[w].started
      BY <1>2, <1>3, <2>1
    <3> QED
      BY <1>2, <3>1, HeldIn
  <2>2. CASE w # S
    <3>1. run'[w] = run[w]
      BY <1>3, <2>2
    <3> QED
      BY <3>1, HeldIn
  <2> QED
    BY <2>1, <2>2
<1>13. RunSafe
  <2>1. worker'[k] # worker[k]
    BY <1>1, <1>5
  <2> QED
    BY <1>1, <1>2, <1>3, <2>1 DEF RunSafe
<1>14. FoundGone' /\ RecordSafe
  BY <1>1, <1>6, FoundGoneStays, RecordStays DEF IInv
<1> QED
  BY <1>5, <1>8, <1>9, <1>10, <1>11, <1>12, <1>13, <1>14 DEF Good, IInv

\* A crash in the middle of a move leaves the run torn.
LEMMA CrashStep ==
    ASSUME IInv, NEW k \in Workers, Crash(k)
    PROVE  Good
<1>1. /\ worker[k] # None /\ TypeOK /\ MovesOne(k) /\ Release(k) /\ Finish(k)
      /\ UNCHANGED <<run, record, process, now, pass, ended>>
      /\ now \in 0..MaxTime /\ now <= now' /\ now' = now /\ now' \in Nat
  BY DEF IInv, TypeOK, WorkerInv, Crash
<1>2. /\ torn' = IF worker[k].step = "unlink"
                 THEN torn \cup {worker[k].seen[Source(k)].started} ELSE torn
  BY DEF Crash
<1>3. Finished(k)
  BY <1>1, FinishStep
<1>4. /\ worker' \in [Workers -> Work \cup {None}] /\ OthersStay(k)
      /\ WorkerInv(k)' /\ ReadsOn(k)
  BY <1>3 DEF Finished, WorkerInv, ReadsOn
<1>5. /\ hookLock' \in [Worktrees -> Workers \cup {None}]
      /\ runLock' \in [Worktrees -> Workers \cup {None}] /\ LocksKept(k)
  BY <1>1, ReleaseKeeps
<1>6. torn' \subseteq Times
  <2>1. ASSUME worker[k].step = "unlink" PROVE worker[k].seen[Source(k)].started \in Times
    <3>1. /\ worker[k].seen \in [Worktrees -> Runs \cup {None}]
          /\ Source(k) \in Worktrees /\ worker[k].seen[Source(k)] # None
      BY <1>1, <2>1, WorkType DEF MovesOne, Seen
    <3> QED
      BY <3>1, RunType
  <2> QED
    BY <1>1, <1>2, <2>1 DEF TypeOK
<1>7. TypeOK' /\ Stamped'
  <2>1. \A j \in Workers, w \in Worktrees :
          worker'[j] # None /\ worker'[j].seen[w] # None =>
            worker'[j].seen[w].started <= now' /\ worker'[j].seen[w].at = w
    BY <1>1, <1>4, ReadingsStamped
  <2> QED
    BY <1>1, <1>4, <1>5, <1>6, <2>1 DEF IInv, TypeOK, Stamped
<1>8. RunStep(k) /\ GoneStays /\ torn \subseteq torn'
  BY <1>1, <1>2 DEF RunStep, GoneStays
<1>9. ASSUME NEW id, Moving(id) PROVE Moving(id)' \/ id \in torn'
  <2>1. PICK j \in Workers : /\ worker[j] # None /\ worker[j].step = "unlink"
                             /\ worker[j].seen[Source(j)].started = id
    BY <1>9 DEF Moving
  <2>2. CASE j = k
    BY <1>2, <2>1, <2>2
  <2>3. CASE j # k
    <3>1. worker'[j] = worker[j]
      BY <1>4, <2>3 DEF OthersStay
    <3>2. Source(j)' = Source(j)
      BY <3>1, SourceIs
    <3> QED
      BY <2>1, <3>1, <3>2 DEF Moving
  <2> QED
    BY <2>2, <2>3
<1>10. UNCHANGED <<run, ended>>
  BY <1>1
<1> QED
  BY <1>1, <1>4, <1>5, <1>7, <1>8, <1>9, <1>10, StepGood, RecordStays

\* Host Processes begin and end; nothing recorded changes.
LEMMA ProcessStep ==
    ASSUME IInv, GoneStays, process' \in [Processes -> {"unborn", "live", "gone"}],
           UNCHANGED <<run, record, runLock, hookLock, now, worker, pass, ended, torn>>
    PROVE  Good
<1>1. TypeOK' /\ Stamped'
  BY DEF IInv, TypeOK, Stamped
<1>2. ASSUME NEW j \in Workers PROVE WorkerInv(j)'
  <2> SUFFICES ASSUME worker[j] # None PROVE WorkerInv(j)'
    BY DEF WorkerInv
  <2>1. /\ worker'[j] = worker[j] /\ TypeOK
        /\ Named(j) /\ HooksHeld(j) /\ ReadsAll(j) /\ MovesOne(j) /\ Between(j) /\ Entitled(j)
    BY DEF IInv, WorkerInv
  <2>2. Entitled(j)'
    BY <2>1, EntitledStays
  <2>3. Seen(j)' = Seen(j) /\ Source(j)' = Source(j) /\ MoveLocks(j)' = MoveLocks(j)
    BY <2>1, SourceIs
  <2> QED
    BY <2>1, <2>2, <2>3 DEF WorkerInv, Named, HooksHeld, ReadsAll, MovesOne, Between
<1>3. \A id : Moving(id)' <=> Moving(id)
  BY DEF Moving, Source, Seen
<1>4. Twins' /\ EndedStaysEnded' /\ Lossless /\ RunSafe
  BY <1>3 DEF IInv, Twins, EndedStaysEnded, Lossless, RunSafe, Held
<1>5. FoundGone' /\ RecordSafe
  BY FoundGoneStays, RecordStays DEF IInv
<1> QED
  BY <1>1, <1>2, <1>4, <1>5 DEF Good, IInv

\* An observation prunes what it found, and found it left by a process gone.
LEMMA PassStep ==
    ASSUME IInv, Pass
    PROVE  Good
<1>1. /\ UNCHANGED <<run, runLock, hookLock, process, now, worker, ended, torn>>
      /\ pass \in Passes /\ record \in [Worktrees -> Records \cup {None}]
  BY DEF IInv, TypeOK, Pass, Scan, Classify, Claim, Prune, Abandon
<1>2. /\ pass.step \in {"scan", "claim", "prune"} /\ pass.todo \in SUBSET Worktrees
      /\ pass.found \in [Worktrees -> Records \cup {None}]
  BY <1>1 DEF Passes
<1>3. Scanning \in Passes /\ Scanning.step = "scan"
  BY DEF Scanning, Passes, Nowhere
<1>4. ASSUME NEW s \in {"claim", "prune"}, NEW T \in SUBSET Worktrees,
             NEW f \in [Worktrees -> Records \cup {None}], Go(s, T, f),
             \A w \in Worktrees : f[w] # None => process[f[w].process] = "gone"
      PROVE  pass' \in Passes /\ FoundGone'
  <2>1. CASE pass' = Scanning
    BY <1>3, <2>1 DEF FoundGone
  <2>2. CASE pass' = [step |-> s, todo |-> T, found |-> f]
    BY <1>1, <1>4, <2>2 DEF FoundGone, Passes
  <2> QED
    BY <1>4, <2>1, <2>2 DEF Go
<1>5. ASSUME Scan PROVE pass' \in Passes /\ FoundGone' /\ UNCHANGED record
  <2> PICK w : w = Next1(pass.todo)
    OBVIOUS
  <2>1. /\ pass.step = "scan" /\ pass.todo # {} /\ UNCHANGED record
        /\ pass' = [pass EXCEPT !.todo = @ \ {w}, !.found[w] = record[w]]
    BY <1>5 DEF Scan
  <2>2. w \in Worktrees
    BY <1>2, <2>1, LeastIn
  <2>3. pass' = [step |-> "scan", todo |-> pass.todo \ {w},
                 found |-> [pass.found EXCEPT ![w] = record[w]]]
    BY <1>1, <2>1 DEF Passes
  <2> QED
    BY <1>1, <1>2, <2>1, <2>2, <2>3 DEF Passes, FoundGone
<1>6. ASSUME Classify PROVE pass' \in Passes /\ FoundGone' /\ UNCHANGED record
  <2>1. PICK Gone \in SUBSET {p \in Processes : process[p] = "gone"} :
          Go("claim", Worktrees, [w \in Worktrees |->
             IF pass.found[w] # None /\ pass.found[w].process \in Gone
             THEN pass.found[w] ELSE None])
    BY <1>6 DEF Classify
  <2> DEFINE f == [w \in Worktrees |->
                     IF pass.found[w] # None /\ pass.found[w].process \in Gone
                     THEN pass.found[w] ELSE None]
  <2>2. f \in [Worktrees -> Records \cup {None}]
    BY <1>2
  <2>3. \A w \in Worktrees : f[w] # None => process[f[w].process] = "gone"
    BY <2>1
  <2>4. Go("claim", Worktrees, f)
    BY <2>1
  <2> HIDE DEF f
  <2> QED
    BY <1>4, <1>6, <2>2, <2>3, <2>4 DEF Classify
<1>7. ASSUME Claim PROVE pass' \in Passes /\ FoundGone' /\ UNCHANGED record
  <2> PICK w : w = Next1(pass.todo)
    OBVIOUS
  <2> DEFINE f == [v \in Worktrees |->
                     IF pass.found[v] # None
                        /\ ~(run[w] # None /\ run[w].process = pass.found[v].process)
                     THEN pass.found[v] ELSE None]
             T == {v \in Worktrees : f[v] # None}
  <2>1. /\ pass.step = "claim" /\ UNCHANGED record
        /\ Go("prune", T, f) \/ pass' = [pass EXCEPT !.todo = @ \ {w}, !.found = f]
    BY <1>7 DEF Claim
  <2>2. f \in [Worktrees -> Records \cup {None}] /\ T \in SUBSET Worktrees
    BY <1>2
  <2>3. \A v \in Worktrees : f[v] # None => process[f[v].process] = "gone"
    BY <1>2, <2>1 DEF IInv, FoundGone
  <2> HIDE DEF f, T
  <2>4. CASE Go("prune", T, f)
    BY <1>4, <2>1, <2>2, <2>3, <2>4
  <2>5. CASE pass' = [pass EXCEPT !.todo = @ \ {w}, !.found = f]
    <3>1. pass' = [step |-> "claim", todo |-> pass.todo \ {w}, found |-> f]
      BY <1>1, <2>1, <2>5 DEF Passes
    <3> QED
      BY <1>1, <1>2, <2>1, <2>2, <2>3, <3>1 DEF Passes, FoundGone
  <2> QED
    BY <2>1, <2>4, <2>5
<1>8. ASSUME Prune
      PROVE  /\ pass' \in Passes /\ FoundGone' /\ RecordSafe
             /\ record' \in [Worktrees -> Records \cup {None}]
  <2> PICK w : w = Next1(pass.todo)
    OBVIOUS
  <2>1. /\ pass.step = "prune"
        /\ record' = IF record[w] = pass.found[w]
                     THEN [record EXCEPT ![w] = None] ELSE record
        /\ \/ pass' = Scanning
           \/ pass' = [pass EXCEPT !.todo = @ \ {w}]
    BY <1>8 DEF Prune, StillFound
  <2>2. record' \in [Worktrees -> Records \cup {None}]
    BY <1>1, <2>1
  <2>3. RecordSafe
    <3> SUFFICES ASSUME NEW v \in Worktrees, record[v] # None, record'[v] = None
                 PROVE  process[record[v].process] = "gone"
      BY DEF RecordSafe
    <3>1. v = w /\ record[v] = pass.found[v]
      BY <1>1, <2>1
    <3> QED
      BY <2>1, <3>1 DEF IInv, FoundGone
  <2>4. CASE pass' = Scanning
    BY <1>3, <2>2, <2>3, <2>4 DEF FoundGone
  <2>5. CASE pass' = [pass EXCEPT !.todo = @ \ {w}]
    <3>1. pass' = [step |-> "prune", todo |-> pass.todo \ {w}, found |-> pass.found]
      BY <1>1, <2>1, <2>5 DEF Passes
    <3> QED
      BY <1>1, <1>2, <2>1, <2>2, <2>3, <3>1 DEF IInv, Passes, FoundGone
  <2> QED
    BY <2>1, <2>4, <2>5
<1>9. ASSUME Abandon PROVE pass' \in Passes /\ FoundGone' /\ UNCHANGED record
  BY <1>3, <1>9 DEF Abandon, FoundGone
<1>10. /\ pass' \in Passes /\ FoundGone' /\ RecordSafe
       /\ record' \in [Worktrees -> Records \cup {None}]
  BY <1>1, <1>5, <1>6, <1>7, <1>8, <1>9, RecordStays DEF Pass
<1>11. TypeOK' /\ Stamped'
  BY <1>1, <1>10 DEF IInv, TypeOK, Stamped
<1>12. ASSUME NEW j \in Workers PROVE WorkerInv(j)'
  <2>1. WorkerInv(j)
    BY DEF IInv
  <2>2. Seen(j)' = Seen(j) /\ Source(j)' = Source(j) /\ MoveLocks(j)' = MoveLocks(j)
    BY <1>1, SourceIs
  <2> QED
    BY <1>1, <2>1, <2>2
       DEF WorkerInv, Named, HooksHeld, ReadsAll, MovesOne, Between, Entitled, Owned
<1>13. \A id : Moving(id)' <=> Moving(id)
  BY <1>1 DEF Moving, Source, Seen
<1>14. Twins' /\ EndedStaysEnded' /\ Lossless /\ RunSafe
  BY <1>1, <1>13 DEF IInv, Twins, EndedStaysEnded, Lossless, RunSafe, Held
<1> QED
  BY <1>10, <1>11, <1>12, <1>14 DEF Good, IInv

LEMMA InitGood ==
    ASSUME Init
    PROVE  IInv
<1>1. TypeOK
  BY DEF Init, TypeOK, Nowhere, Scanning, Passes
<1>2. Stamped /\ (\A k \in Workers : WorkerInv(k)) /\ Twins
  BY DEF Init, Nowhere, Stamped, WorkerInv, Twins
<1>3. EndedStaysEnded /\ FoundGone
  BY DEF Init, EndedStaysEnded, FoundGone, Scanning
<1> QED
  BY <1>1, <1>2, <1>3 DEF IInv

LEMMA WorkerStep ==
    ASSUME IInv, NEW k \in Workers, Step(k)
    PROVE  Good
<1>1. CASE Publish(k) \/ LockStore(k) \/ Sweep(k)
  BY <1>1, PublishStep, LockStoreStep, SweepStep
<1>2. CASE Located(k) \/ Read(k) \/ Carry(k) \/ LockRun(k)
  BY <1>2, LocatedStep, ReadStep, CarryStep, LockRunStep
<1>3. CASE WriteTarget(k) \/ UnlinkSource(k)
  BY <1>3, WriteTargetStep, UnlinkSourceStep
<1>4. CASE Look(k) \/ Adopt(k)
  BY <1>4, LookStep, AdoptStep
<1>5. CASE Choose(k) \/ Remove(k) \/ Settle(k)
  BY <1>5, ChooseStep, RemoveStep, SettleStep
<1>6. CASE Decide(k) \/ Declare(k)
  BY <1>6, DecideStep, DeclareStep
<1> QED
  BY <1>1, <1>2, <1>3, <1>4, <1>5, <1>6 DEF Step

LEMMA NextGood ==
    ASSUME IInv, [Next]_vars
    PROVE  Good
<1>1. CASE \E p \in Processes : Spawn(p) \/ Exit(p)
  <2>1. /\ GoneStays /\ process' \in [Processes -> {"unborn", "live", "gone"}]
        /\ UNCHANGED <<run, record, runLock, hookLock, now, worker, pass, ended, torn>>
    BY <1>1 DEF IInv, TypeOK, Spawn, Exit, GoneStays
  <2> QED
    BY <2>1, ProcessStep
<1>2. ASSUME NEW k \in Workers, NEW p \in Processes, NEW w \in Worktrees,
             \/ \E kind \in HookKinds : Hook(k, kind, p, w)
             \/ StartIssueWork(k, p, w) \/ StopIssueWork(k, p, w)
      PROVE  Good
  BY <1>2, HookStep, CommandStep
<1>3. ASSUME NEW k \in Workers, NEW w \in Worktrees, StopOrphan(k, w)
      PROVE  Good
  BY <1>3, CommandStep
<1>4. ASSUME NEW k \in Workers, Crash(k) \/ Step(k)
      PROVE  Good
  BY <1>4, CrashStep, WorkerStep
<1>6. CASE Pass
  BY <1>6, PassStep
<1>5. CASE UNCHANGED vars
  <2>1. /\ GoneStays /\ process' \in [Processes -> {"unborn", "live", "gone"}]
        /\ UNCHANGED <<run, record, runLock, hookLock, now, worker, pass, ended, torn>>
    BY <1>5 DEF IInv, TypeOK, GoneStays, vars
  <2> QED
    BY <2>1, ProcessStep
<1> QED
  BY <1>1, <1>2, <1>3, <1>4, <1>5, <1>6 DEF Next

LEMMA Invariant == Spec => []IInv
<1>1. IInv /\ [Next]_vars => IInv'
  BY NextGood DEF Good
<1> QED
  BY InitGood, <1>1, PTL DEF Spec

-----------------------------------------------------------------------------
\* Every record, lock, hook and command has its type, and a Work Store record
\* is kept at the Worktree it names.
THEOREM TypeCorrect == Spec => []TypeOK
<1>1. IInv => TypeOK
  BY DEF IInv
<1> QED
  BY Invariant, <1>1, PTL

\* A Live Relocation cut anywhere, and whatever runs beside it, loses no run:
\* complete_relocation writes the target before it unlinks the source.
THEOREM NothingLost == Spec => NoRunLost
<1>1. IInv /\ [Next]_vars => [Lossless]_vars
  BY NextGood DEF Good
<1> QED
  BY Invariant, <1>1, PTL DEF Spec, NoRunLost, Lossless

\* A run is at two Worktrees only in complete_relocation, or after a crash
\* cut it there.
THEOREM HomeIsOne == Spec => []OneHome
<1>1. ASSUME IInv PROVE OneHome
  <2> SUFFICES ASSUME NEW id \in Held, Cardinality(Homes(id)) > 1
               PROVE  id \in torn \/ Moving(id)
    BY DEF OneHome
  <2>1. PICK w \in Worktrees : run[w] # None /\ run[w].started = id
    BY HeldIn
  <2>2. id \in Times /\ w \in Homes(id)
    BY <1>1, <2>1, RunType DEF IInv, TypeOK, Homes
  <2>3. Homes(id) # {w}
    BY FS_Singleton
  <2>4. PICK v \in Homes(id) : v # w
    BY <2>2, <2>3
  <2>5. v \in Worktrees /\ run[v] # None /\ run[v].started = id
    BY <2>4 DEF Homes
  <2> QED
    BY <1>1, <2>1, <2>2, <2>4, <2>5 DEF IInv, Twins
<1> QED
  BY Invariant, <1>1, PTL

\* replace_current, stop_current and complete_relocation compare what they
\* read with what is recorded: a run once ended is not written again.
THEOREM EndedForGood == Spec => []EndedStaysEnded
<1>1. IInv => EndedStaysEnded
  BY DEF IInv
<1> QED
  BY Invariant, <1>1, PTL

\* refuse_other_host_process, session_runs_to_end and the proof that a Host
\* Process is gone: a live one's run is changed by its own hooks and commands.
THEOREM OwnerKeeps == Spec => OwnerKeepsRun
<1>1. IInv /\ [Next]_vars =>
        [\A w \in Worktrees, p \in Processes :
           /\ process[p] = "live"
           /\ \/ run[w] # None /\ run[w].process = p /\ run'[w] # run[w]
              \/ record[w] # None /\ record[w].process = p /\ record'[w] = None
           => \E k \in Workers : /\ worker[k] # None /\ worker'[k] # worker[k]
                                  /\ worker[k].process = p]_vars
  BY NextGood DEF Good, RunSafe, RecordSafe
<1> QED
  BY Invariant, <1>1, PTL DEF Spec, OwnerKeepsRun
=============================================================================
