----------------------- MODULE RunningCommandsProofs -----------------------
(***************************************************************************)
(* What interrupt() and a timeout promise, for any number of pool threads. *)
(* The invariant follows one command from its check to its end, and says   *)
(* of the exit that whatever it has not yet asked it has still to look at. *)
(***************************************************************************)
EXTENDS RunningCommands, TLAPS

Registered == {"late", "communicate", "grace", "killed", "judge", "unregister"}

\* A command is registered from Register to Unregister.
Registration == \A r \in Runners : r \in registered <=> pc[r] \in Registered

\* Where the runner is bounds how far its command's leader has ended; the
\* leader of a group is not reaped before its runner has done what it will.
Leaders ==
    \A r \in Runners :
        /\ pc[r] \in {"idle", "checked"} => leader[r] \in {"none", "reaped"}
        /\ pc[r] = "started" => leader[r] \in {"running", "exited"}
        /\ pc[r] \in {"late", "communicate", "grace", "killed"} =>
             leader[r] \in {"running", "exited", "reaped"}
        /\ pc[r] \in {"late", "communicate", "grace", "killed"} /\ group[r] =>
             leader[r] # "reaped"
        /\ pc[r] = "killed" => leader[r] # "running"
        /\ pc[r] \in {"judge", "unregister"} => leader[r] = "reaped"

\* What ended a leader; only a timeout's stop kills.
Ends ==
    \A r \in Runners :
        /\ leader[r] \in {"exited", "reaped"} => endedBy[r] # "nothing"
        /\ endedBy[r] = "asked" => "leader" \in asked[r]
        /\ pc[r] \in {"started", "late", "communicate", "judge"} =>
             endedBy[r] # "killed"

\* A leader that was asked, and not by its own runner's timeout, is marked.
AskedIsMarked ==
    \A r \in Runners :
        /\ "leader" \in asked[r] /\ pc[r] \in {"late", "communicate", "judge"} =>
             r \in interrupted
        /\ pc[r] = "started" => "leader" \notin asked[r]
        /\ pc[r] = "late" => closed /\ r \in interrupted

\* Callers are told at the end, and a stopped group is gone by then.
Told ==
    \A r \in Runners :
        /\ pc[r] \notin {"idle", "unregister"} => outcome[r] = "none"
        /\ outcome[r] \in {"result", "timeout"} => leader[r] = "reaped"
        /\ pc[r] = "killed" /\ group[r] => helper[r] # "running"

Reached(r) ==
    /\ leader[r] = "running" => "leader" \in asked[r]
    /\ helper[r] = "running" /\ group[r] => "helper" \in asked[r]

\* The exit looks at commands that were registered when it closed the
\* registry, none of which is followed by another.
Exit ==
    /\ closed <=> ipc # "open"
    /\ \A r \in Runners :
         /\ r \in todo \/ target = r =>
              /\ closed /\ leader[r] # "none"
              /\ pc[r] \notin {"checked", "started", "late"}
         /\ target = r /\ found = "exited" => leader[r] # "running"
         /\ target = r /\ ipc = "signal" /\ found = "running" /\ pc[r] \in Registered =>
              r \in interrupted
         /\ closed /\ pc[r] = "communicate" =>
              r \in todo \/ target = r \/ Reached(r)
    /\ ipc = "done" => todo = {}

IInv ==
    /\ TypeOK /\ Registration /\ Leaders /\ Ends /\ AskedIsMarked /\ Told
    /\ Exit /\ ResultIsItsOwn /\ GroupStopped

(* Every step keeps the variables in their types, as the exit only looks   *)
(* at commands that have been started.                                     *)
LEMMA TypeStep ==
    ASSUME TypeOK, [Next]_vars, \A r \in todo : leader[r] # "none"
    PROVE  TypeOK'
<1> USE NoneAssumption, SessionsAssumption
        DEF TypeOK, command, registry, interrupter, Goto, Tell, Ask
<1>1. ASSUME NEW r \in Runners, Check(r) PROVE TypeOK'
  BY <1>1 DEF Check
<1>2. ASSUME NEW r \in Runners, Run(r) PROVE TypeOK'
  <2>1. CASE Start(r)
    BY <2>1 DEF Start
  <2>2. CASE StartFails(r) \/ Register(r) \/ AskLate(r)
    BY <2>2 DEF StartFails, Register, AskLate
  <2>3. CASE Communicate(r) \/ Judge(r)
    BY <2>3 DEF Communicate, Judge
  <2>4. CASE Kill(r)
    BY <2>4 DEF Kill
  <2>5. CASE Reap(r) \/ Unregister(r)
    BY <2>5 DEF Reap, Unregister
  <2> QED
    BY <1>2, <2>1, <2>2, <2>3, <2>4, <2>5 DEF Run
<1>3. ASSUME NEW r \in Runners, Timeout(r) PROVE TypeOK'
  BY <1>3 DEF Timeout
<1>4. ASSUME NEW r \in Runners, LeaderForks(r) \/ LeaderExits(r) \/ HelperEnds(r)
      PROVE  TypeOK'
  BY <1>4 DEF LeaderForks, LeaderExits, HelperEnds
<1>5. CASE Interrupt
  BY <1>5 DEF Interrupt
<1>6. ASSUME NEW r \in Runners, Look(r) PROVE TypeOK'
  BY <1>6 DEF Look
<1>7. ASSUME NEW r \in Runners, MarkInterrupted(r) \/ SignalInterrupted(r)
      PROVE  TypeOK'
  BY <1>7 DEF MarkInterrupted, SignalInterrupted
<1>8. CASE InterruptReturns
  BY <1>8 DEF InterruptReturns
<1>9. CASE UNCHANGED vars
  BY <1>9 DEF vars
<1> QED
  BY <1>1, <1>2, <1>3, <1>4, <1>5, <1>6, <1>7, <1>8, <1>9 DEF Next, Interrupting

(* Every step keeps the inductive invariant.                               *)
LEMMA InvStep == IInv /\ [Next]_vars => IInv'
<1> SUFFICES ASSUME IInv, [Next]_vars PROVE IInv'
  OBVIOUS
<1>0. TypeOK'
  BY TypeStep DEF IInv, Exit, TypeOK
<1> USE <1>0, NoneAssumption, SessionsAssumption
        DEF IInv, TypeOK, Registered, Registration, Leaders, Ends, AskedIsMarked,
            Told, Reached, Exit, ResultIsItsOwn, GroupStopped,
            command, registry, interrupter, Goto, Tell
<1>1. ASSUME NEW r \in Runners, Check(r) PROVE IInv'
  BY <1>1 DEF Check
<1>2. ASSUME NEW r \in Runners, Start(r) PROVE IInv'
  BY <1>2 DEF Start
<1>3. ASSUME NEW r \in Runners, StartFails(r) PROVE IInv'
  BY <1>3 DEF StartFails
<1>4. ASSUME NEW r \in Runners, Register(r) PROVE IInv'
  BY <1>4 DEF Register
<1>5. ASSUME NEW r \in Runners, AskLate(r) PROVE IInv'
  BY <1>5 DEF AskLate, Ask
<1>6. ASSUME NEW r \in Runners, Communicate(r) PROVE IInv'
  BY <1>6 DEF Communicate
<1>7. ASSUME NEW r \in Runners, Judge(r) PROVE IInv'
  BY <1>7 DEF Judge
<1>8. ASSUME NEW r \in Runners, Timeout(r) PROVE IInv'
  BY <1>8 DEF Timeout, Ask
<1>9. ASSUME NEW r \in Runners, Kill(r) PROVE IInv'
  BY <1>9 DEF Kill
<1>10. ASSUME NEW r \in Runners, Reap(r) PROVE IInv'
  BY <1>10 DEF Reap
<1>11. ASSUME NEW r \in Runners, Unregister(r) PROVE IInv'
  BY <1>11 DEF Unregister
<1>12. CASE Interrupt
  <2> USE DEF Interrupt
  <2>1. (Registration /\ Leaders /\ Ends)'
    BY <1>12
  <2>2. (AskedIsMarked /\ Told /\ ResultIsItsOwn /\ GroupStopped)'
    BY <1>12
  <2>3. Exit'
    <3>1. closed' /\ ipc' = "look" /\ target' = None /\ todo' = registered
      BY <1>12
    <3>2. ASSUME NEW r \in registered
          PROVE  leader'[r] # "none" /\ pc'[r] \notin {"checked", "started", "late"}
      BY <1>12, <3>2
    <3>3. ASSUME NEW r \in Runners, pc'[r] = "communicate" PROVE r \in todo'
      BY <1>12, <3>1, <3>3
    <3> QED
      BY <3>1, <3>2, <3>3
  <2> QED
    BY <1>0, <2>1, <2>2, <2>3
<1>13. ASSUME NEW r \in Runners, Look(r) PROVE IInv'
  BY <1>13 DEF Look
<1>14. ASSUME NEW r \in Runners, MarkInterrupted(r) PROVE IInv'
  BY <1>14 DEF MarkInterrupted
<1>15. ASSUME NEW r \in Runners, SignalInterrupted(r) PROVE IInv'
  BY <1>15 DEF SignalInterrupted, Ask
<1>16. CASE InterruptReturns
  BY <1>16 DEF InterruptReturns
<1>17. ASSUME NEW r \in Runners, LeaderForks(r) PROVE IInv'
  BY <1>17 DEF LeaderForks
<1>18. ASSUME NEW r \in Runners, LeaderExits(r) PROVE IInv'
  BY <1>18 DEF LeaderExits
<1>19. ASSUME NEW r \in Runners, HelperEnds(r) PROVE IInv'
  BY <1>19 DEF HelperEnds
<1>20. CASE UNCHANGED vars
  BY <1>20 DEF vars
<1> QED
  BY <1>1, <1>2, <1>3, <1>4, <1>5, <1>6, <1>7, <1>8, <1>9, <1>10, <1>11,
     <1>12, <1>13, <1>14, <1>15, <1>16, <1>17, <1>18, <1>19, <1>20
     DEF Next, Run, Interrupting

(* One command is followed from its check to its end, and the exit has     *)
(* asked, or has still to look at, whatever holds a runner.                *)
THEOREM Invariant == Spec => []IInv
<1>1. Init => IInv
  <2> SUFFICES ASSUME Init PROVE IInv
    OBVIOUS
  <2> USE NoneAssumption, SessionsAssumption DEF Init
  <2>1. TypeOK
    BY DEF TypeOK
  <2>2. Registration /\ Leaders /\ Ends
    BY DEF Registration, Registered, Leaders, Ends
  <2>3. AskedIsMarked /\ Told /\ ResultIsItsOwn /\ GroupStopped
    BY DEF AskedIsMarked, Told, ResultIsItsOwn, GroupStopped
  <2>4. Exit
    BY DEF Exit
  <2> QED
    BY <2>1, <2>2, <2>3, <2>4 DEF IInv
<1> QED
  BY <1>1, InvStep, PTL DEF Spec

(* Type correctness of the command registry and its commands.              *)
THEOREM TypeCorrect == Spec => []TypeOK
BY Invariant, PTL DEF IInv

(* However commands start and register while the exit closes the registry, *)
(* none that still holds a runner has not been asked to stop.              *)
THEOREM EveryoneAsked == Spec => []NoneSlipsBy
<1>1. IInv => NoneSlipsBy
  BY NoneAssumption DEF IInv, TypeOK, Exit, Reached, NoneSlipsBy
<1> QED
  BY <1>1, Invariant, PTL

(* No caller takes a command that was stopped for one that answered.       *)
THEOREM OwnResults == Spec => []ResultIsItsOwn
BY Invariant, PTL DEF IInv

(* A timeout leaves nothing of the command's group running.                *)
THEOREM NoOrphans == Spec => []GroupStopped
BY Invariant, PTL DEF IInv
=============================================================================
