------------------------- MODULE RecordStoreProofs -------------------------
(***************************************************************************)
(* The lock of a record excludes, for any number of processes, sweeps and  *)
(* crashes.  The invariant is carried by who holds the flock of which      *)
(* inode: two processes inside both hold the inode that is linked, and an  *)
(* inode has one holder.                                                   *)
(***************************************************************************)
EXTENDS RecordStore, TLAPS

\* A process has the lock file open exactly while it waits or holds.
Descriptors ==
    \A p \in Procs : fd[p] # None <=> pc[p] \in Holding \cup {"wait"}

\* The kernel's flock table agrees with where the processes are.
Flocks ==
    \A i \in Inodes, p \in Procs :
        holder[i] = p <=> pc[p] \in Holding /\ fd[p] = i

\* Whoever is inside holds the inode the path names.
InsideLinked == ~overlapped => \A p \in Procs : pc[p] \in Inside => fd[p] = linked

\* A pruner about to unlink still guards no record.
PruningNothing == ~overlapped => \A p \in Procs : pc[p] = "unlink" => record = None

IInv ==
    /\ TypeOK /\ Descriptors /\ Flocks /\ InsideLinked /\ PruningNothing
    /\ ReadStaysCurrent /\ LockOutlivesRecord

(* Two processes inside hold the same, linked inode, so they are one.      *)
LEMMA InsideExcludes == IInv => Exclusive
<1> SUFFICES ASSUME IInv, ~overlapped,
                    NEW p \in Procs, NEW q \in Procs,
                    pc[p] \in Inside, pc[q] \in Inside
             PROVE  p = q
  BY DEF Exclusive
<1>1. fd[p] = linked /\ fd[q] = linked
  BY DEF IInv, InsideLinked
<1>2. linked \in Inodes
  BY <1>1 DEF IInv, TypeOK, Descriptors, Holding
<1> QED
  BY <1>1, <1>2 DEF IInv, Flocks, Holding

(* The same of the next state.                                             *)
LEMMA InsideExcludesNext == IInv' => Exclusive'
<1> SUFFICES ASSUME IInv', ~overlapped',
                    NEW p \in Procs, NEW q \in Procs,
                    pc'[p] \in Inside, pc'[q] \in Inside
             PROVE  p = q
  BY DEF Exclusive, Inside
<1>1. fd'[p] = linked' /\ fd'[q] = linked'
  BY DEF IInv, InsideLinked, Inside
<1>2. linked' \in Inodes
  BY <1>1 DEF IInv, TypeOK, Descriptors, Holding, Inside
<1> QED
  BY <1>1, <1>2 DEF IInv, Flocks, Holding, Inside

(* Every step keeps the variables in their types.                          *)
LEMMA TypeStep == TypeOK /\ [Next]_vars => TypeOK'
<1> SUFFICES ASSUME TypeOK, [Next]_vars PROVE TypeOK'
  OBVIOUS
<1> USE NoneAssumption DEF TypeOK, lockVars, fileVars, Modes, Inside, Holding,
                           Goto, Close, Forget
<1>1. ASSUME NEW p \in Procs, Begin(p) PROVE TypeOK'
  BY <1>1 DEF Begin
<1>2. ASSUME NEW p \in Procs, Sweep(p) PROVE TypeOK'
  BY <1>2 DEF Sweep
<1>3. ASSUME NEW p \in Procs, Locking(p) PROVE TypeOK'
  <2>1. CASE Open(p)
    BY <2>1 DEF Open
  <2>2. CASE OpenMissing(p)
    BY <2>2 DEF OpenMissing
  <2>3. CASE Acquire(p)
    BY <2>3 DEF Acquire
  <2>4. CASE Enter(p)
    BY <2>4 DEF Enter
  <2>5. CASE StartOver(p)
    BY <2>5 DEF StartOver
  <2>6. CASE Release(p)
    BY <2>6 DEF Release
  <2> QED
    BY <1>3, <2>1, <2>2, <2>3, <2>4, <2>5, <2>6 DEF Locking
<1>4. ASSUME NEW p \in Procs, Body(p) PROVE TypeOK'
  BY <1>4 DEF Body, Read, Remove, CreateTemporary, Rename, WriteFails,
              PruneCheck, PruneUnlink
<1>5. ASSUME NEW p \in Procs, Crash(p) PROVE TypeOK'
  BY <1>5 DEF Crash
<1>6. ASSUME NEW t \in Temps, Age(t) \/ SweepTemporary(t) PROVE TypeOK'
  BY <1>6 DEF Age, SweepTemporary
<1>7. CASE RemoveDirectory
  BY <1>7 DEF RemoveDirectory
<1>8. CASE UNCHANGED vars
  BY <1>8 DEF vars
<1> QED
  BY <1>1, <1>2, <1>3, <1>4, <1>5, <1>6, <1>7, <1>8 DEF Next

(* Every step keeps the inductive invariant.                               *)
LEMMA InvStep == IInv /\ [Next]_vars => IInv'
<1> SUFFICES ASSUME IInv, [Next]_vars PROVE IInv'
  OBVIOUS
<1>0. TypeOK' /\ Exclusive
  BY TypeStep, InsideExcludes DEF IInv
<1> USE <1>0, NoneAssumption
        DEF IInv, TypeOK, Exclusive, Descriptors, Flocks, InsideLinked,
            PruningNothing, ReadStaysCurrent, LockOutlivesRecord, lockVars,
            fileVars, Modes, Inside, Holding, Goto, Close, Forget
<1>1. ASSUME NEW p \in Procs, Begin(p) PROVE IInv'
  BY <1>1 DEF Begin
<1>2. ASSUME NEW p \in Procs, Sweep(p) PROVE IInv'
  BY <1>2 DEF Sweep
<1>3. ASSUME NEW p \in Procs, Open(p) PROVE IInv'
  BY <1>3 DEF Open
<1>4. ASSUME NEW p \in Procs, OpenMissing(p) PROVE IInv'
  BY <1>4 DEF OpenMissing
<1>5. ASSUME NEW p \in Procs, Acquire(p) PROVE IInv'
  BY <1>5 DEF Acquire
<1>6. ASSUME NEW p \in Procs, Enter(p) PROVE IInv'
  BY <1>6 DEF Enter, StillLinked
<1>7. ASSUME NEW p \in Procs, StartOver(p) PROVE IInv'
  BY <1>7 DEF StartOver
<1>8. ASSUME NEW p \in Procs, Release(p) PROVE IInv'
  BY <1>8 DEF Release
<1>9. ASSUME NEW p \in Procs, Read(p) PROVE IInv'
  BY <1>9 DEF Read
<1>10. ASSUME NEW p \in Procs, Remove(p) PROVE IInv'
  BY <1>10 DEF Remove
<1>11. ASSUME NEW p \in Procs, CreateTemporary(p) PROVE IInv'
  BY <1>11 DEF CreateTemporary
<1>12. ASSUME NEW p \in Procs, Rename(p) PROVE IInv'
  BY <1>12 DEF Rename
<1>13. ASSUME NEW p \in Procs, WriteFails(p) PROVE IInv'
  BY <1>13 DEF WriteFails
<1>14. ASSUME NEW p \in Procs, PruneCheck(p) PROVE IInv'
  BY <1>14 DEF PruneCheck
<1>15. ASSUME NEW p \in Procs, PruneUnlink(p) PROVE IInv'
  BY <1>15 DEF PruneUnlink
<1>16. ASSUME NEW p \in Procs, Crash(p) PROVE IInv'
  BY <1>16 DEF Crash
<1>17. ASSUME NEW t \in Temps, Age(t) \/ SweepTemporary(t) PROVE IInv'
  BY <1>17 DEF Age, SweepTemporary
<1>18. CASE RemoveDirectory
  BY <1>18 DEF RemoveDirectory
<1>19. CASE UNCHANGED vars
  BY <1>19 DEF vars
<1> QED
  BY <1>1, <1>2, <1>3, <1>4, <1>5, <1>6, <1>7, <1>8, <1>9, <1>10, <1>11,
     <1>12, <1>13, <1>14, <1>15, <1>16, <1>17, <1>18, <1>19
     DEF Next, Locking, Body

(* Spec keeps the inductive invariant: who is inside holds the linked      *)
(* inode, and nothing it read under the lock has changed.                  *)
THEOREM Invariant == Spec => []IInv
<1>1. Init => IInv
  <2> SUFFICES ASSUME Init PROVE IInv
    OBVIOUS
  <2> USE NoneAssumption DEF Init, Inside, Holding
  <2>1. TypeOK
    BY DEF TypeOK, Modes
  <2>2. Descriptors
    BY DEF Descriptors
  <2>3. Flocks
    BY DEF Flocks
  <2>4. InsideLinked /\ PruningNothing
    BY DEF InsideLinked, PruningNothing
  <2>5. ReadStaysCurrent /\ LockOutlivesRecord
    BY DEF ReadStaysCurrent, LockOutlivesRecord
  <2> QED
    BY <2>1, <2>2, <2>3, <2>4, <2>5 DEF IInv
<1> QED
  BY <1>1, InvStep, PTL DEF Spec

(* Type correctness of the record store.                                   *)
THEOREM TypeCorrect == Spec => []TypeOK
BY Invariant, PTL DEF IInv

(* locked_path excludes: at most one process is inside a record's lock.    *)
THEOREM MutualExclusion == Spec => []Exclusive
BY Invariant, InsideExcludes, PTL

(* No update of a record is lost between two bodies.                       *)
THEOREM NoLostUpdate == Spec => []ReadStaysCurrent
BY Invariant, PTL DEF IInv

(* A sweep never prunes the lock file of a record that exists.             *)
THEOREM LockKept == Spec => []LockOutlivesRecord
BY Invariant, PTL DEF IInv

(* A step is a turn taken or finished, the directory vanishing, or nothing *)
(* to the users of the atomic record.                                      *)
LEMMA TurnStep ==
    ASSUME IInv, IInv', Next, ~overlapped
    PROVE  Atomic!Next \/ UNCHANGED Atomic!vars
<1> DEFINE Users == {p \in Procs : pc[p] \in Inside}
<1>0. Exclusive /\ Exclusive'
  BY InsideExcludes, InsideExcludesNext
<1>a. ASSUME NEW p \in Procs, pc[p] \in Inside, pc'[p] \notin Inside,
             \A q \in Procs \ {p} : pc'[q] = pc[q],
             record' \in {record, None} \cup Values, UNCHANGED overlapped
      PROVE  Atomic!Finish(p)
  <2>1. Users = {p} /\ Users' = {}
    BY <1>0, <1>a DEF Exclusive
  <2> QED
    BY <1>a, <2>1 DEF Atomic!Finish
<1>b. ASSUME \A q \in Procs : pc'[q] \in Inside <=> pc[q] \in Inside,
             UNCHANGED <<record, overlapped>>
      PROVE  UNCHANGED Atomic!vars
  <2>1. Users' = Users
    BY <1>b
  <2> QED
    BY <1>b, <2>1 DEF Atomic!vars
<1>1. ASSUME NEW p \in Procs,
             \/ Begin(p) \/ Sweep(p) \/ Open(p) \/ OpenMissing(p) \/ Acquire(p)
             \/ StartOver(p) \/ Read(p) \/ CreateTemporary(p) \/ PruneCheck(p)
      PROVE  UNCHANGED Atomic!vars
  BY <1>1, <1>b DEF IInv, TypeOK, Inside, Goto, Forget, fileVars, Begin, Sweep,
     Open, OpenMissing, Acquire, StartOver, Read, CreateTemporary, PruneCheck
<1>2. ASSUME NEW p \in Procs, Enter(p) PROVE Atomic!Take(p)
  <2>1. UNCHANGED <<record, overlapped>>
    BY <1>2 DEF Enter, fileVars
  <2>2. /\ pc[p] \notin Inside /\ pc'[p] \in Inside
        /\ \A q \in Procs \ {p} : pc'[q] = pc[q]
    BY <1>2 DEF Enter, Goto, Inside, IInv, TypeOK
  <2>3. Users = {} /\ Users' = {p}
    BY <1>0, <2>1, <2>2 DEF Exclusive
  <2> QED
    BY <2>1, <2>3 DEF Atomic!Take
<1>3. ASSUME NEW p \in Procs,
             Remove(p) \/ Rename(p) \/ WriteFails(p) \/ PruneUnlink(p)
      PROVE  Atomic!Finish(p)
  BY <1>3, <1>a DEF IInv, TypeOK, Inside, Goto, fileVars, Remove, Rename,
     WriteFails, PruneUnlink
<1>4. ASSUME NEW p \in Procs, Release(p) \/ Crash(p)
      PROVE  Atomic!Finish(p) \/ UNCHANGED Atomic!vars
  <2>1. /\ pc'[p] \notin Inside
        /\ \A q \in Procs \ {p} : pc'[q] = pc[q]
        /\ UNCHANGED <<record, overlapped>>
    BY <1>4 DEF IInv, TypeOK, Inside, Goto, Forget, fileVars, Release, Crash
  <2> QED
    BY <1>a, <1>b, <2>1
<1>5. ASSUME NEW t \in Temps, Age(t) \/ SweepTemporary(t)
      PROVE  UNCHANGED Atomic!vars
  BY <1>5, <1>b DEF Age, SweepTemporary
<1>6. CASE RemoveDirectory
  <2>1. /\ record' = None /\ pc' = pc
        /\ overlapped' = \E p \in Procs : pc[p] \in Inside
    BY <1>6 DEF RemoveDirectory
  <2>2. Users' = Users /\ (Users # {} <=> \E p \in Procs : pc[p] \in Inside)
    BY <2>1
  <2>3. overlapped' = (Users # {})
    BY <2>1, <2>2
  <2> QED
    BY <2>1, <2>2, <2>3 DEF Atomic!Next, Atomic!Vanish
<1> QED
  BY <1>1, <1>2, <1>3, <1>4, <1>5, <1>6
     DEF Next, Locking, Body, Atomic!Next

(* RecordStore implements the atomic record, for any number of processes.  *)
THEOREM TakesTurns == Spec => AtomicTurns
<1>1. Init => Atomic!Init
  BY DEF Init, Atomic!Init, Inside
<1>2. IInv /\ IInv' /\ [Next]_vars => [~overlapped => Atomic!Next]_(Atomic!vars)
  <2> SUFFICES ASSUME IInv, IInv', [Next]_vars
               PROVE  [~overlapped => Atomic!Next]_(Atomic!vars)
    OBVIOUS
  <2>1. CASE UNCHANGED vars
    BY <2>1 DEF vars, Atomic!vars
  <2>2. CASE Next
    BY <2>2, TurnStep
  <2> QED
    BY <2>1, <2>2
<1> QED
  BY <1>1, <1>2, Invariant, PTL DEF Spec, AtomicTurns, Atomic!Spec
=============================================================================
