-------------------------- MODULE RunningCommands --------------------------
(***************************************************************************)
(* Commands on the dashboard's pool threads, and the exit that interrupts  *)
(* them (core/commands.py).  A runner checks that the registry is open,    *)
(* starts a process, registers it and waits for its output; the exit       *)
(* closes the registry and signals what is registered at that moment.      *)
(*                                                                         *)
(* A command is its leader, the process started, and a helper the leader   *)
(* may start, which inherits its output.  In a session of its own (group)  *)
(* both are signalled, otherwise the leader alone.  A pid reused between a *)
(* look at returncode and the signal, a window the code names and accepts, *)
(* is left out, and an asked leader is taken to start nothing more.        *)
(***************************************************************************)
CONSTANTS Runners,   \* pool threads that adopted the registry
          Sessions,  \* whether commands run in sessions of their own: some, all
          None

ASSUME SessionsAssumption == Sessions \subseteq BOOLEAN /\ Sessions # {}
ASSUME NoneAssumption == None \notin Runners

VARIABLES pc,        \* where each runner is in _run_command
          group,     \* whether its command leads a process group
          leader, helper,
          asked,     \* the processes a SIGTERM reached
          endedBy,   \* history: what ended the leader
          outcome,   \* what the last command's caller was told
          closed, registered, interrupted,  \* RunningCommands, by runner
          ipc,       \* where interrupt() is
          todo,      \* commands it has still to look at
          target,    \* the one it looked at last, None when done with it
          found      \* how far that one had ended

command == <<group, leader, helper, asked, endedBy>>
registry == <<closed, registered, interrupted>>
interrupter == <<ipc, todo, target, found>>
vars == <<pc, command, outcome, registry, interrupter>>

TypeOK ==
    /\ pc \in [Runners -> {"idle", "checked", "started", "late", "communicate",
                           "grace", "killed", "judge", "unregister"}]
    /\ group \in [Runners -> Sessions]
    /\ leader \in [Runners -> {"none", "running", "exited", "reaped"}]
    /\ helper \in [Runners -> {"none", "running", "gone"}]
    /\ asked \in [Runners -> SUBSET {"leader", "helper"}]
    /\ endedBy \in [Runners -> {"nothing", "itself", "asked", "killed"}]
    /\ outcome \in [Runners -> {"none", "result", "interrupted", "timeout"}]
    /\ closed \in BOOLEAN
    /\ registered \subseteq Runners /\ interrupted \subseteq registered
    /\ ipc \in {"open", "look", "mark", "signal", "done"}
    /\ todo \subseteq Runners
    /\ target \in IF ipc \in {"mark", "signal"} THEN Runners ELSE {None}
    /\ found \in {"running", "exited"}

Init ==
    /\ pc = [r \in Runners |-> "idle"]
    /\ group \in [Runners -> Sessions]
    /\ leader = [r \in Runners |-> "none"] /\ helper = [r \in Runners |-> "none"]
    /\ asked = [r \in Runners |-> {}]
    /\ endedBy = [r \in Runners |-> "nothing"]
    /\ outcome = [r \in Runners |-> "none"]
    /\ closed = FALSE /\ registered = {} /\ interrupted = {}
    /\ ipc = "open" /\ todo = {} /\ target = None /\ found = "running"

Goto(r, l) == pc' = [pc EXCEPT ![r] = l]
Tell(r, o) == outcome' = [outcome EXCEPT ![r] = o]

\* _signal(process, SIGTERM): a reaped command is left alone.  send_signal,
\* used for a lone process, polls first and so reaps one that has exited.
Ask(r) ==
    LET reached == {p \in {"leader", "helper"} :
                      \/ p = "leader" /\ leader[r] = "running"
                      \/ p = "helper" /\ helper[r] = "running" /\ group[r]
                                      /\ leader[r] # "reaped"}
    IN /\ asked' = [asked EXCEPT ![r] = @ \cup reached]
       /\ leader' = [leader EXCEPT ![r] =
                       IF @ = "exited" /\ ~group[r] THEN "reaped" ELSE @]
       /\ UNCHANGED <<group, helper, endedBy>>

-----------------------------------------------------------------------------
\* _run_command asks the registry before it starts anything.
Check(r) ==
    /\ pc[r] = "idle"
    /\ IF closed THEN Tell(r, "interrupted") /\ UNCHANGED pc
                 ELSE Tell(r, "none") /\ Goto(r, "checked")
    /\ UNCHANGED <<command, registry, interrupter>>

Start(r) ==
    /\ pc[r] = "checked"
    /\ \E g \in Sessions : group' = [group EXCEPT ![r] = g]
    /\ leader' = [leader EXCEPT ![r] = "running"]
    /\ helper' = [helper EXCEPT ![r] = "none"]
    /\ asked' = [asked EXCEPT ![r] = {}]
    /\ endedBy' = [endedBy EXCEPT ![r] = "nothing"]
    /\ Goto(r, "started")
    /\ UNCHANGED <<outcome, registry, interrupter>>

\* No such command or directory: the caller is told another error.
StartFails(r) ==
    /\ pc[r] = "checked"
    /\ Goto(r, "idle")
    /\ UNCHANGED <<command, outcome, registry, interrupter>>

\* Mutant: a process that registers late is not told.
RegisterUntold(r) ==
    /\ pc[r] = "started"
    /\ registered' = registered \cup {r}
    /\ Goto(r, "communicate")
    /\ UNCHANGED <<command, outcome, closed, interrupted, interrupter>>

\* holding(): registered, and stopped here if the registry closed meanwhile.
Register(r) ==
    /\ pc[r] = "started"
    /\ registered' = registered \cup {r}
    /\ interrupted' = interrupted \cup (IF closed THEN {r} ELSE {})
    /\ Goto(r, IF closed THEN "late" ELSE "communicate")
    /\ UNCHANGED <<command, outcome, closed, interrupter>>

AskLate(r) ==
    /\ pc[r] = "late"
    /\ Ask(r)
    /\ Goto(r, "communicate")
    /\ UNCHANGED <<outcome, registry, interrupter>>

\* communicate() returns when no one holds the output and the leader ended.
Communicate(r) ==
    /\ pc[r] = "communicate"
    /\ leader[r] # "running" /\ helper[r] # "running"
    /\ leader' = [leader EXCEPT ![r] = "reaped"]
    /\ Goto(r, "judge")
    /\ UNCHANGED <<group, helper, asked, endedBy, outcome, registry, interrupter>>

Judge(r) ==
    /\ pc[r] = "judge"
    /\ Tell(r, IF r \in interrupted THEN "interrupted" ELSE "result")
    /\ Goto(r, "unregister")
    /\ UNCHANGED <<command, registry, interrupter>>

\* TimeoutExpired, and the request _stop makes first.
Timeout(r) ==
    /\ pc[r] = "communicate"
    /\ Ask(r)
    /\ Goto(r, "grace")
    /\ UNCHANGED <<outcome, registry, interrupter>>

\* A group is killed whether or not its leader stopped in the grace; a lone
\* process only if it did not.
Kill(r) ==
    /\ pc[r] = "grace"
    /\ group[r] \/ leader[r] = "running"
    /\ leader' = [leader EXCEPT ![r] = IF @ = "running" THEN "exited" ELSE @]
    /\ endedBy' = [endedBy EXCEPT ![r] =
                     IF leader[r] = "running" THEN "killed" ELSE @]
    /\ helper' = [helper EXCEPT ![r] =
                    IF group[r] /\ @ = "running" /\ leader[r] # "reaped"
                    THEN "gone" ELSE @]
    /\ Goto(r, "killed")
    /\ UNCHANGED <<group, asked, outcome, registry, interrupter>>

\* Mutant: wait(timeout) for a group too, which reaps the leader before the kill.
ReapInGrace(r) ==
    /\ pc[r] \in {"grace", "killed"} /\ leader[r] # "running"
    /\ leader' = [leader EXCEPT ![r] = "reaped"]
    /\ Tell(r, "timeout")
    /\ Goto(r, "unregister")
    /\ UNCHANGED <<group, helper, asked, endedBy, registry, interrupter>>

Reap(r) ==
    /\ pc[r] = "killed" \/ (pc[r] = "grace" /\ ~group[r])
    /\ leader[r] # "running"
    /\ leader' = [leader EXCEPT ![r] = "reaped"]
    /\ Tell(r, "timeout")
    /\ Goto(r, "unregister")
    /\ UNCHANGED <<group, helper, asked, endedBy, registry, interrupter>>

\* Mutant: the mark outlives the registration.
UnregisterMarked(r) ==
    /\ pc[r] = "unregister"
    /\ registered' = registered \ {r}
    /\ Goto(r, "idle")
    /\ UNCHANGED <<command, outcome, closed, interrupted, interrupter>>

Unregister(r) ==
    /\ pc[r] = "unregister"
    /\ registered' = registered \ {r} /\ interrupted' = interrupted \ {r}
    /\ Goto(r, "idle")
    /\ UNCHANGED <<command, outcome, closed, interrupter>>

-----------------------------------------------------------------------------
\* interrupt(), once, when the app is unmounted.
Interrupt ==
    /\ ipc = "open"
    /\ closed' = TRUE
    /\ todo' = registered /\ ipc' = "look"
    /\ UNCHANGED <<pc, command, outcome, registered, interrupted, target, found>>

\* Mutant: whatever has exited is passed over.
LookPassingExited(r) ==
    /\ ipc = "look" /\ r \in todo
    /\ todo' = todo \ {r}
    /\ IF leader[r] \in {"exited", "reaped"}
         THEN UNCHANGED <<ipc, target, found>>
         ELSE ipc' = "mark" /\ target' = r /\ found' = leader[r]
    /\ UNCHANGED <<pc, command, outcome, registry>>

\* _exit_state reads without reaping; what has answered is passed over.
Look(r) ==
    /\ ipc = "look" /\ r \in todo
    /\ todo' = todo \ {r}
    /\ IF leader[r] = "reaped" \/ (leader[r] = "exited" /\ ~group[r])
         THEN UNCHANGED <<ipc, target, found>>
         ELSE ipc' = "mark" /\ target' = r /\ found' = leader[r]
    /\ UNCHANGED <<pc, command, outcome, registry>>

\* Under the lock again: gone since the snapshot, or marked before the signal.
MarkInterrupted(r) ==
    /\ ipc = "mark" /\ target = r
    /\ IF r \in registered
         THEN /\ ipc' = "signal" /\ target' = r
              /\ interrupted' = interrupted
                                \cup (IF found = "running" THEN {r} ELSE {})
         ELSE ipc' = "look" /\ target' = None /\ UNCHANGED interrupted
    /\ UNCHANGED <<pc, command, outcome, closed, registered, todo, found>>

SignalInterrupted(r) ==
    /\ ipc = "signal" /\ target = r
    /\ Ask(r)
    /\ ipc' = "look" /\ target' = None
    /\ UNCHANGED <<pc, outcome, registry, todo, found>>

InterruptReturns ==
    /\ ipc = "look" /\ todo = {}
    /\ ipc' = "done"
    /\ UNCHANGED <<pc, command, outcome, registry, todo, target, found>>

-----------------------------------------------------------------------------
LeaderForks(r) ==
    /\ leader[r] = "running" /\ helper[r] = "none" /\ "leader" \notin asked[r]
    /\ helper' = [helper EXCEPT ![r] = "running"]
    /\ UNCHANGED <<pc, group, leader, asked, endedBy, outcome, registry, interrupter>>

LeaderExits(r) ==
    /\ leader[r] = "running"
    /\ leader' = [leader EXCEPT ![r] = "exited"]
    /\ endedBy' = [endedBy EXCEPT ![r] =
                     IF "leader" \in asked[r] THEN "asked" ELSE "itself"]
    /\ UNCHANGED <<pc, group, helper, asked, outcome, registry, interrupter>>

HelperEnds(r) ==
    /\ helper[r] = "running"
    /\ helper' = [helper EXCEPT ![r] = "gone"]
    /\ UNCHANGED <<pc, group, leader, asked, endedBy, outcome, registry, interrupter>>

\* A runner's own steps, those of interrupt(), and those of the processes.
Run(r) ==
    \/ Start(r) \/ StartFails(r) \/ Register(r) \/ AskLate(r) \/ Communicate(r)
    \/ Judge(r) \/ Kill(r) \/ Reap(r) \/ Unregister(r)

Interrupting ==
    \/ InterruptReturns
    \/ \E r \in Runners : Look(r) \/ MarkInterrupted(r) \/ SignalInterrupted(r)

Next ==
    \/ \E r \in Runners :
         \/ Check(r) \/ Run(r) \/ Timeout(r)
         \/ LeaderForks(r) \/ LeaderExits(r) \/ HelperEnds(r)
    \/ Interrupt \/ Interrupting

Spec == Init /\ [][Next]_vars

\* Threads run; a process that SIGTERM reached ends.  Nobody has to exit, no
\* process has to end by itself, and no timeout has to pass.
Fairness ==
    /\ WF_vars(Interrupting)
    /\ \A r \in Runners :
         /\ WF_vars(Run(r))
         /\ WF_vars("leader" \in asked[r] /\ LeaderExits(r))
         /\ WF_vars("helper" \in asked[r] /\ HelperEnds(r))

FairSpec == Spec /\ Fairness

-----------------------------------------------------------------------------
(* Once interrupt() has returned, whatever still holds a runner has been   *)
(* asked to stop: a command that registers while the registry closes slips *)
(* past neither side, and a helper that outlives its leader is asked too.  *)
NoneSlipsBy ==
    ipc = "done" =>
        \A r \in Runners :
            pc[r] = "communicate" =>
                /\ leader[r] = "running" => "leader" \in asked[r]
                /\ helper[r] = "running" /\ group[r] => "helper" \in asked[r]

(* A caller is only given the result of a command that ended by itself: one*)
(* asked to stop is marked first, whoever asks it.                         *)
ResultIsItsOwn ==
    \A r \in Runners : outcome[r] = "result" => endedBy[r] = "itself"

(* After a timeout nothing of the command's group is left running, also    *)
(* where the leader stopped when asked and its helper did not.             *)
GroupStopped ==
    \A r \in Runners :
        outcome[r] = "timeout" /\ group[r] => helper[r] # "running"

(* The exit does not wait for a command's own end or its timeout: after    *)
(* interrupt() every pool thread is free again, but for one whose command  *)
(* shares Dashpot's group and left a helper behind.                        *)
ExitCompletes ==
    closed ~> /\ ipc = "done"
              /\ \A r \in Runners :
                   pc[r] = "idle" \/ (~group[r] /\ helper[r] = "running")
=============================================================================
