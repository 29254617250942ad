---------------------------- MODULE RecordStore ----------------------------
(***************************************************************************)
(* One record of a LockedRecordStore (core/record_store.py) and the lock   *)
(* file that serializes its writers (core/file_locks.py).  Keys own        *)
(* disjoint files, so one key stands for every key.                        *)
(*                                                                         *)
(* An inode is an open lock file: flock is held on an inode, while the     *)
(* path names whichever inode was created there last.  A sweep may unlink  *)
(* the lock file while others wait on its inode, a process may die at any  *)
(* step, and the directory may vanish with its Worktree.                   *)
(***************************************************************************)
EXTENDS Naturals

CONSTANTS Procs,    \* the threads and processes that use the store
          Inodes,   \* inode numbers of the lock file, reused once free
          Temps,    \* names mkstemp may choose
          Values,   \* contents a record may have
          None

ASSUME NoneAssumption == None \notin Procs \cup Inodes \cup Temps \cup Values

VARIABLES dir,        \* whether the store's directory exists
          linked,     \* the inode linked at lock_path, or None
          holder,     \* who holds the flock of each inode
          record,     \* the record's content, None when absent
          temps,      \* temporary files in the directory
          aged,       \* those older than TEMPORARY_MAX_AGE_SECONDS
          pc, mode,   \* where each process is, and what it opened the lock for
          fd,         \* the inode each process has open
          seen,       \* what each process read of the record under the lock
          tmp,        \* the temporary each writer is renaming
          overlapped  \* history: the directory vanished beneath a lock holder

lockVars == <<dir, linked, holder, fd>>
fileVars == <<record, temps, aged, tmp>>
vars == <<dir, linked, holder, record, temps, aged, pc, mode, fd, seen, tmp,
          overlapped>>

\* A writer creates the directory ("write"); a conditional change of a record
\* that may exist does not ("change"); a sweep reclaims the lock ("prune").
Modes == {"write", "change", "prune"}

\* Inside the body of ``with locked_path``, before its last file operation.
Inside == {"held", "read", "temp", "unlink"}
\* Holding some inode's flock: not yet checked, inside, or about to release it.
Holding == Inside \cup {"verify", "leave"}

TypeOK ==
    /\ dir \in BOOLEAN /\ overlapped \in BOOLEAN
    /\ linked \in Inodes \cup {None}
    /\ holder \in [Inodes -> Procs \cup {None}]
    /\ record \in Values \cup {None}
    /\ temps \subseteq Temps /\ aged \subseteq temps
    /\ pc \in [Procs -> {"idle", "open", "wait"} \cup Holding]
    /\ mode \in [Procs -> Modes]
    /\ fd \in [Procs -> Inodes \cup {None}]
    /\ seen \in [Procs -> Values \cup {None}]
    /\ tmp \in [Procs -> Temps \cup {None}]

Init ==
    /\ dir = FALSE /\ linked = None /\ record = None
    /\ holder = [i \in Inodes |-> None]
    /\ temps = {} /\ aged = {}
    /\ pc = [p \in Procs |-> "idle"] /\ mode = [p \in Procs |-> "write"]
    /\ fd = [p \in Procs |-> None] /\ seen = [p \in Procs |-> None]
    /\ tmp = [p \in Procs |-> None]
    /\ overlapped = FALSE

Goto(p, l) == pc' = [pc EXCEPT ![p] = l]

\* Close the descriptor, which also drops the flock if it is held.
Close(p) ==
    /\ fd' = [fd EXCEPT ![p] = None]
    /\ holder' = [i \in Inodes |-> IF holder[i] = p THEN None ELSE holder[i]]

\* Leave ``with locked_path`` altogether; nothing read there is used again.
Forget(p) ==
    /\ seen' = [seen EXCEPT ![p] = None]
    /\ mode' = [mode EXCEPT ![p] = "write"]
    /\ Goto(p, "idle")

-----------------------------------------------------------------------------
\* locked(): a writer makes the directory, a conditional change does not.
Begin(p) ==
    /\ pc[p] = "idle"
    /\ \/ /\ mode' = [mode EXCEPT ![p] = "write"]
          /\ dir' = TRUE
       \/ /\ mode' = [mode EXCEPT ![p] = "change"]
          /\ dir' = dir
    /\ Goto(p, "open")
    /\ UNCHANGED <<linked, holder, fileVars, fd, seen, overlapped>>

\* sweep(): the listing that found the orphaned lock is not under the lock.
Sweep(p) ==
    /\ pc[p] = "idle"
    /\ linked # None /\ record = None
    /\ mode' = [mode EXCEPT ![p] = "prune"]
    /\ Goto(p, "open")
    /\ UNCHANGED <<lockVars, fileVars, seen, overlapped>>

\* open("a+") creates the lock file when the path names none.
Open(p) ==
    /\ pc[p] = "open" /\ dir
    /\ \E i \in Inodes :
         /\ IF linked = None THEN \A q \in Procs : fd[q] # i ELSE i = linked
         /\ linked' = i
         /\ fd' = [fd EXCEPT ![p] = i]
    /\ Goto(p, "wait")
    /\ UNCHANGED <<dir, holder, fileVars, mode, seen, overlapped>>

\* FileNotFoundError: a writer raises, the others find nothing to change.
OpenMissing(p) ==
    /\ pc[p] = "open" /\ ~dir
    /\ Forget(p)
    /\ UNCHANGED <<lockVars, fileVars, overlapped>>

Acquire(p) ==
    /\ pc[p] = "wait" /\ holder[fd[p]] = None
    /\ holder' = [holder EXCEPT ![fd[p]] = p]
    /\ Goto(p, "verify")
    /\ UNCHANGED <<dir, linked, fd, fileVars, mode, seen, overlapped>>

\* Mutant: check that the path names a file, whichever.
StillLinkedSome(p) == linked # None

\* _still_linked: the holder of an unlinked inode excludes nobody.
StillLinked(p) == fd[p] = linked

Enter(p) ==
    /\ pc[p] = "verify" /\ StillLinked(p)
    /\ Goto(p, "held")
    /\ UNCHANGED <<lockVars, fileVars, mode, seen, overlapped>>

\* Mutant: wait again on the descriptor already open.
StartOverSameFile(p) ==
    /\ pc[p] = "verify" /\ ~StillLinked(p)
    /\ holder' = [holder EXCEPT ![fd[p]] = None]
    /\ Goto(p, "wait")
    /\ UNCHANGED <<dir, linked, fd, fileVars, mode, seen, overlapped>>

StartOver(p) ==
    /\ pc[p] = "verify" /\ ~StillLinked(p)
    /\ Close(p)
    /\ Goto(p, "open")
    /\ UNCHANGED <<dir, linked, fileVars, mode, seen, overlapped>>

-----------------------------------------------------------------------------
\* A caller's body reads the record, then leaves it, removes it or replaces it.
Read(p) ==
    /\ pc[p] = "held" /\ mode[p] # "prune"
    /\ seen' = [seen EXCEPT ![p] = record]
    /\ Goto(p, "read")
    /\ UNCHANGED <<lockVars, fileVars, mode, overlapped>>

Remove(p) ==
    /\ pc[p] = "read" /\ seen[p] # None
    /\ record' = None
    /\ Goto(p, "leave")
    /\ UNCHANGED <<lockVars, temps, aged, tmp, mode, seen, overlapped>>

\* replace_atomically: mkstemp in the record's directory ...
CreateTemporary(p) ==
    /\ pc[p] = "read" /\ dir
    /\ \E t \in Temps \ (temps \cup {tmp[q] : q \in Procs}) :
         /\ temps' = temps \cup {t}
         /\ tmp' = [tmp EXCEPT ![p] = t]
    /\ Goto(p, "temp")
    /\ UNCHANGED <<lockVars, record, aged, mode, seen, overlapped>>

\* ... then os.replace, which fails when a sweep took the temporary for a
\* crash's leftover, or the write before it failed and its temporary is gone.
Rename(p) ==
    /\ pc[p] = "temp" /\ tmp[p] \in temps
    /\ \E v \in Values : record' = v
    /\ temps' = temps \ {tmp[p]} /\ aged' = aged \ {tmp[p]}
    /\ tmp' = [tmp EXCEPT ![p] = None]
    /\ Goto(p, "leave")
    /\ UNCHANGED <<lockVars, mode, seen, overlapped>>

\* Mutant: the temporary leaves the directory but not the sweep's listing.
WriteFailsStillListed(p) ==
    /\ pc[p] = "temp"
    /\ temps' = temps \ {tmp[p]}
    /\ tmp' = [tmp EXCEPT ![p] = None]
    /\ Goto(p, "leave")
    /\ UNCHANGED <<lockVars, record, aged, mode, seen, overlapped>>

WriteFails(p) ==
    /\ pc[p] = "temp"
    /\ temps' = temps \ {tmp[p]} /\ aged' = aged \ {tmp[p]}
    /\ tmp' = [tmp EXCEPT ![p] = None]
    /\ Goto(p, "leave")
    /\ UNCHANGED <<lockVars, record, mode, seen, overlapped>>

-----------------------------------------------------------------------------
\* prune_lock_file: still no record behind the lock, so ...
PruneCheck(p) ==
    /\ pc[p] = "held" /\ mode[p] = "prune" /\ record = None
    /\ Goto(p, "unlink")
    /\ UNCHANGED <<lockVars, fileVars, mode, seen, overlapped>>

\* ... unlink(missing_ok=True) whatever the path names.
PruneUnlink(p) ==
    /\ pc[p] = "unlink"
    /\ linked' = None
    /\ Goto(p, "leave")
    /\ UNCHANGED <<dir, holder, fd, fileVars, mode, seen, overlapped>>

\* The body ends: its last operation is done, or it found nothing to do.
Release(p) ==
    /\ \/ pc[p] \in {"read", "leave"}
       \/ pc[p] = "held" /\ mode[p] = "prune" /\ record # None
    /\ Close(p) /\ Forget(p)
    /\ UNCHANGED <<dir, linked, fileVars, overlapped>>

-----------------------------------------------------------------------------
\* A process that dies drops its flock and leaves its temporary behind.
Crash(p) ==
    /\ pc[p] # "idle"
    /\ Close(p) /\ Forget(p)
    /\ tmp' = [tmp EXCEPT ![p] = None]
    /\ UNCHANGED <<dir, linked, record, temps, aged, overlapped>>

\* A temporary passes max_age: its writer died, or the host slept under it.
Age(t) ==
    /\ t \in temps \ aged
    /\ aged' = aged \cup {t}
    /\ UNCHANGED <<lockVars, record, temps, tmp, pc, mode, seen, overlapped>>

SweepTemporary(t) ==
    /\ t \in aged
    /\ temps' = temps \ {t} /\ aged' = aged \ {t}
    /\ UNCHANGED <<lockVars, record, tmp, pc, mode, seen, overlapped>>

\* The Worktree holding the store is removed.
RemoveDirectory ==
    /\ dir
    /\ dir' = FALSE /\ linked' = None /\ record' = None
    /\ temps' = {} /\ aged' = {}
    /\ overlapped' = (overlapped \/ \E p \in Procs : pc[p] \in Inside)
    /\ UNCHANGED <<holder, tmp, pc, mode, fd, seen>>

Body(p) ==
    \/ Read(p) \/ Remove(p) \/ CreateTemporary(p) \/ Rename(p)
    \/ WriteFails(p) \/ PruneCheck(p) \/ PruneUnlink(p)

Locking(p) ==
    \/ Open(p) \/ OpenMissing(p) \/ Acquire(p) \/ Enter(p) \/ StartOver(p)
    \/ Release(p)

Next ==
    \/ \E p \in Procs : Begin(p) \/ Sweep(p) \/ Locking(p) \/ Body(p) \/ Crash(p)
    \/ \E t \in Temps : Age(t) \/ SweepTemporary(t)
    \/ RemoveDirectory

Spec == Init /\ [][Next]_vars

\* A live process keeps running, and the kernel hands a released flock to
\* those blocked on it in turn; nobody has to call, sweep, remove or crash.
Fairness ==
    \A p \in Procs :
        WF_vars(Locking(p)) /\ WF_vars(Body(p)) /\ SF_vars(Acquire(p))

FairSpec == Spec /\ Fairness

-----------------------------------------------------------------------------
(* At most one process is inside a body, however sweeps unlink the lock    *)
(* file under those waiting on it; _still_linked is what keeps this true.  *)
Exclusive ==
    ~overlapped =>
        \A p, q \in Procs : pc[p] \in Inside /\ pc[q] \in Inside => p = q

(* What a writer read under the lock is still the record when it replaces  *)
(* or removes it: no update between two bodies is lost.                    *)
ReadStaysCurrent ==
    ~overlapped => \A p \in Procs : pc[p] \in {"read", "temp"} => seen[p] = record

(* prune_lock_file never takes the lock file from behind a record.         *)
LockOutlivesRecord == ~overlapped /\ record # None => linked # None

(* The lock, the replace and the sweeps together make the body of each     *)
(* ``with locked_path`` one turn of an atomic record: what is written is   *)
(* only ever a whole value, by the one process inside, as its last step.   *)
Atomic == INSTANCE AtomicRecord
          WITH users <- {p \in Procs : pc[p] \in Inside}, broken <- overlapped

AtomicTurns == Atomic!Spec

(* Once sweeps and removals of the directory cease, everyone who asked for *)
(* the lock gets inside or gives up: starting over on the fresh lock file  *)
(* neither loses a waiter nor leaves it on a dead inode.                   *)
WaitersServed ==
    <>[](dir /\ \A q \in Procs : mode[q] # "prune") =>
        \A p \in Procs : pc[p] = "open" ~> pc[p] \in Inside \cup {"idle"}
=============================================================================
