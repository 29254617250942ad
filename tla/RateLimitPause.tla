--------------------------- MODULE RateLimitPause ---------------------------
(***************************************************************************)
(* The Rate Limit Pause every GitHub gateway of one process shares         *)
(* (LatestRateLimit in github/github.py). Gateways send GraphQL requests   *)
(* from threads of their own; GitHub answers them in any order, each with  *)
(* a reading of the account's points, and refuses some. Time passes in     *)
(* ticks; the account's points come back with each window.                 *)
(***************************************************************************)
EXTENDS Naturals

CONSTANTS
    Gateways,
    Limit,          \* points of one window
    Window,         \* ticks of one window
    Backoff,        \* ticks of the first backoff
    BackoffLimit,   \* ticks no backoff exceeds
    Doublings,      \* after which it reaches its limit
    MaxWindow,      \* bound: windows that begin, the last as long as needed
    MaxRefusals,    \* bound: pauses that start
    MaxPresses,     \* bound: manual refreshes of one pause
    None

ASSUME RateLimitAssumption ==
    /\ Limit \in Nat \ {0} /\ Window \in Nat \ {0}
    /\ Backoff \in Nat \ {0} /\ BackoffLimit \in Nat \ {0} /\ Doublings \in Nat
    /\ MaxWindow \in Nat /\ MaxRefusals \in Nat /\ MaxPresses \in Nat

\* No fewer doublings than reach the limit.
ASSUME DoublingsAssumption ==
    /\ \A d \in 0..Doublings : 2^d \in Nat
    /\ Backoff * 2^Doublings >= BackoffLimit

Readings == [window : 0..MaxWindow, remaining : 0..Limit]
Kinds == {"primary", "secondary"}
Replies == [outcome : {"answer", "failure"} \cup Kinds, reading : Readings \cup {None}]
Requests == [ticket : 0..MaxRefusals, reply : Replies \cup {None}]
Pauses == [left : Nat, attempt : BOOLEAN]

ASSUME NoneAssumption == None \notin Readings \cup Replies \cup Requests \cup Pauses

VARIABLES
    account,      \* the account at GitHub: its window, ticks and points left
    reading,      \* the latest reading held
    pause,        \* the pause, in force while any of its ticks are left
    refusals,     \* in a row
    generation,   \* advanced by every refusal that starts a pause
    request,      \* of each gateway, None when it has none
    presses,      \* history: manual refreshes since the pause began
    sent,         \* history: requests sent since then, while it was in force
    older         \* history: the gateways whose request was sent before it

gate == <<pause, refusals, generation>>
history == <<presses, sent, older>>
vars == <<account, reading, gate, request, history>>

Init ==
    /\ account = [window |-> 0, left |-> Window, points |-> Limit]
    /\ reading = None /\ pause = None /\ refusals = 0 /\ generation = 0
    /\ request = [g \in Gateways |-> None]
    /\ presses = 0 /\ sent = 0 /\ older = {}

InForce == pause # None /\ pause.left > 0
Low(r) == r.remaining * 10 < Limit

Flying == {g \in Gateways : request[g] # None}
Done(g) == request' = [request EXCEPT ![g] = None] /\ older' = older \ {g}

-----------------------------------------------------------------------------
(* A gateway sends a request, unless it is held.                           *)

\* A lifted pause admits one attempt; a lapsed one is forgotten.
Admitted ==
    IF InForce THEN pause.attempt /\ pause' = [pause EXCEPT !.attempt = FALSE]
    ELSE pause' = None

Admit(g) ==
    /\ request[g] = None
    /\ Admitted
    /\ request' = [request EXCEPT ![g] = [ticket |-> generation, reply |-> None]]
    /\ sent' = IF InForce THEN sent + 1 ELSE sent
    /\ UNCHANGED <<account, reading, refusals, generation, presses, older>>

\* Mutant: a held request begins a wait of its own.
HoldExtends(g) ==
    /\ request[g] = None /\ InForce /\ ~pause.attempt
    /\ pause' = [pause EXCEPT !.left = BackoffLimit]
    /\ UNCHANGED <<account, reading, refusals, generation, request, history>>

\* A held request fails before it is sent.
Hold(g) ==
    /\ request[g] = None /\ InForce /\ ~pause.attempt
    /\ UNCHANGED vars

-----------------------------------------------------------------------------
(* GitHub answers, refuses or is not reached.                              *)

Reply(g, outcome, r) ==
    /\ request[g] # None /\ request[g].reply = None
    /\ request' = [request EXCEPT ![g] =
          [ticket |-> @.ticket, reply |-> [outcome |-> outcome, reading |-> r]]]
    /\ UNCHANGED <<reading, gate, history>>

\* The request, and other clients of the account, spend its points.
Answer(g) ==
    /\ account.points > 0
    /\ \E p \in 0..account.points - 1 :
          /\ account' = [account EXCEPT !.points = p]
          /\ Reply(g, "answer", [window |-> account.window, remaining |-> p])

Refusal(g) ==
    /\ \/ account.points = 0 /\ Reply(g, "primary", None)
       \/ Reply(g, "secondary", None)
    /\ UNCHANGED account

Failure(g) == Reply(g, "failure", None) /\ UNCHANGED account

-----------------------------------------------------------------------------
(* The gateway's thread handles the answer.                                *)

\* Within one window the points only fall.
Outdated(r) ==
    reading # None /\ reading.window = r.window /\ reading.remaining < r.remaining

Record(g) ==
    /\ request[g] # None /\ request[g].reply # None
    /\ LET r == request[g].reply.reading
       IN  /\ r # None
           /\ reading' = IF Outdated(r) THEN reading ELSE r
    /\ request' = [request EXCEPT ![g] =
          [ticket |-> @.ticket, reply |-> [outcome |-> @.reply.outcome, reading |-> None]]]
    /\ UNCHANGED <<account, gate, history>>

Report(g, outcomes) ==
    /\ request[g] # None /\ request[g].reply # None
    /\ request[g].reply.reading = None
    /\ request[g].reply.outcome \in outcomes
    /\ UNCHANGED <<account, reading>>

\* Mutant: any request's answer counts.
SinceRefusalAny(g) == TRUE

\* The request was sent since the last refusal that started a pause.
SinceRefusal(g) == request[g].ticket = generation

\* A success ends the pause it was the attempt of.
Answered(g) ==
    /\ Report(g, {"answer"})
    /\ IF SinceRefusal(g) THEN pause' = None /\ refusals' = 0
       ELSE UNCHANGED <<pause, refusals>>
    /\ Done(g)
    /\ UNCHANGED <<generation, presses, sent>>

Failed(g) ==
    /\ Report(g, {"failure"})
    /\ Done(g)
    /\ UNCHANGED <<gate, presses, sent>>

Least(a, b) == IF a < b THEN a ELSE b

\* The backoff doubles with each refusal in a row, up to its limit.
Wait(n) == Least(Backoff * 2^Least(n - 1, Doublings), BackoffLimit)

\* The hour's points are plausibly spent, and come back at a time ahead.
Explains(r) == r # None /\ Low(r) /\ r.window = account.window

Due(kind) ==
    IF kind = "primary" /\ Explains(reading) THEN account.left ELSE Wait(refusals + 1)

\* Mutant: it still counts as one more in a row.
LateRefusalCounted == refusals' = refusals + 1 /\ UNCHANGED <<pause, generation>>

\* The refusal of a request older than the pause.
LateRefusal == UNCHANGED gate

\* A refusal starts the pause again; the requests in flight are older than it.
Refused(g) ==
    /\ Report(g, Kinds)
    /\ request' = [request EXCEPT ![g] = None]
    /\ IF SinceRefusal(g)
       THEN /\ generation < MaxRefusals
            /\ generation' = generation + 1 /\ refusals' = refusals + 1
            /\ pause' = [left |-> Due(request[g].reply.outcome), attempt |-> FALSE]
            /\ presses' = 0 /\ sent' = 0 /\ older' = Flying \ {g}
       ELSE older' = older \ {g} /\ LateRefusal /\ UNCHANGED <<presses, sent>>

-----------------------------------------------------------------------------
\* A manual refresh.
Lift ==
    /\ pause # None /\ presses < MaxPresses
    /\ pause' = [pause EXCEPT !.attempt = TRUE]
    /\ presses' = presses + 1
    /\ UNCHANGED <<account, reading, refusals, generation, request, sent, older>>

Tick ==
    /\ account' =
          IF account.left > 1 THEN [account EXCEPT !.left = @ - 1]
          ELSE IF account.window < MaxWindow
          THEN [window |-> account.window + 1, left |-> Window, points |-> Limit]
          ELSE account
    /\ pause' = IF InForce THEN [pause EXCEPT !.left = @ - 1] ELSE pause
    /\ UNCHANGED <<reading, refusals, generation, request, history>>

Step(g) ==
    \/ Admit(g) \/ Hold(g)
    \/ Answer(g) \/ Refusal(g) \/ Failure(g)
    \/ Record(g) \/ Answered(g) \/ Failed(g) \/ Refused(g)

Next == Lift \/ Tick \/ \E g \in Gateways : Step(g)

Spec == Init /\ [][Next]_vars

\* Time passes.
FairSpec == Spec /\ WF_vars(Tick)

-----------------------------------------------------------------------------
TypeOK ==
    /\ account \in [window : 0..MaxWindow, left : 1..Window, points : 0..Limit]
    /\ reading \in Readings \cup {None} /\ pause \in Pauses \cup {None}
    /\ refusals \in 0..generation /\ generation \in 0..MaxRefusals
    /\ request \in [Gateways -> Requests \cup {None}]
    /\ presses \in 0..MaxPresses /\ sent \in Nat /\ older \subseteq Gateways

(* While a pause is in force only the attempts a person asked for are      *)
(* sent, one for each press, however many gateways ask at once.            *)
OnlyAttempts == InForce => sent <= presses

(* A request sent before the pause began neither extends it, nor ends it,  *)
(* nor counts as another refusal in a row.                                 *)
LateAnswersChangeNothing ==
    [][\A g \in older : request'[g] = None => UNCHANGED gate]_vars

(* A pause in force is ended before its time, or begun again, only by an   *)
(* attempt sent under it: not by the answers that were already on their    *)
(* way, and not by what is held.                                           *)
PauseStands ==
    [][InForce /\ (pause' = None \/ pause'.left > pause.left) => sent > 0]_vars

(* In one window the reading held never shows points coming back.          *)
PointsOnlyFall ==
    [][reading # None /\ reading'.window = reading.window
         => reading'.remaining <= reading.remaining]_vars

(* The reading held is never replaced by one of an earlier window: "Hold   *)
(* reading as the most recent, unless it is older than the one held".      *)
ReadingNeverOlder ==
    [][reading # None => reading'.window >= reading.window]_vars

(* A pause ends, whatever is held meanwhile.                               *)
PauseEnds == InForce ~> ~InForce
=============================================================================
