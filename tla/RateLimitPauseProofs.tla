----------------------- MODULE RateLimitPauseProofs -----------------------
(***************************************************************************)
(* What holds of the Rate Limit Pause for any gateways, durations and      *)
(* number of refusals. Everything rests on the tickets: a request in       *)
(* flight has an older ticket than the refusal it was sent before, and     *)
(* under a pause in force the current ticket is only given to attempts.    *)
(***************************************************************************)
EXTENDS RateLimitPause, TLAPS

TicketsGiven == \A g \in Gateways : request[g] # None => request[g].ticket <= generation

OlderOutdated == \A g \in older : request[g] # None /\ request[g].ticket < generation

CurrentIsAttempt ==
    InForce => \A g \in Gateways :
                  request[g] # None /\ request[g].ticket = generation => sent > 0

AttemptsPressed ==
    InForce => sent + (IF pause.attempt THEN 1 ELSE 0) <= presses

IInv == TypeOK /\ TicketsGiven /\ OlderOutdated /\ CurrentIsAttempt /\ AttemptsPressed

LEMMA Distinct ==
    /\ \A r \in Readings : r # None
    /\ \A r \in Replies : r # None
    /\ \A r \in Requests : r # None
    /\ \A p \in Pauses : p # None
BY NoneAssumption

\* A wait is some whole number of ticks.
LEMMA WaitIsTicks == ASSUME NEW n \in Nat PROVE Wait(n + 1) \in Nat
<1>1. Least(n + 1 - 1, Doublings) \in 0..Doublings
  BY RateLimitAssumption DEF Least
<1>2. 2^Least(n + 1 - 1, Doublings) \in Nat
  BY <1>1, DoublingsAssumption
<1>3. Backoff * 2^Least(n + 1 - 1, Doublings) \in Nat
  BY <1>2, RateLimitAssumption
<1> QED
  BY <1>3, RateLimitAssumption DEF Wait, Least

LEMMA DueIsTicks == ASSUME TypeOK, NEW k PROVE Due(k) \in Nat
<1>1. Wait(refusals + 1) \in Nat
  BY WaitIsTicks DEF TypeOK
<1>2. account.left \in Nat
  BY RateLimitAssumption DEF TypeOK
<1> QED
  BY <1>1, <1>2 DEF Due

LEMMA InitHolds == Init => IInv
<1> SUFFICES ASSUME Init PROVE IInv
  OBVIOUS
<1>1. TypeOK
  BY RateLimitAssumption DEF Init, TypeOK
<1> QED
  BY <1>1 DEF Init, IInv, TicketsGiven, OlderOutdated, CurrentIsAttempt,
              AttemptsPressed, InForce

LEMMA AdmitStep == ASSUME IInv, NEW g \in Gateways, Admit(g) PROVE IInv'
<1> DEFINE new == [ticket |-> generation, reply |-> None]
<1>1. /\ TypeOK /\ new \in Requests /\ new # None
      /\ request' = [request EXCEPT ![g] = new]
  BY Distinct DEF IInv, TypeOK, Requests, Admit
<1>2. pause' \in Pauses \cup {None} /\ (InForce' => InForce)
  BY <1>1, Distinct DEF TypeOK, Admit, Admitted, InForce, Pauses
<1>3. TypeOK'
  <2>1. request' \in [Gateways -> Requests \cup {None}]
    BY <1>1 DEF TypeOK
  <2>2. sent' \in Nat
    BY <1>1 DEF TypeOK, Admit
  <2> QED
    BY <1>1, <1>2, <2>1, <2>2 DEF TypeOK, Admit
<1>4. TicketsGiven'
  BY <1>1 DEF IInv, TicketsGiven, TypeOK, Admit
<1>5. OlderOutdated'
  BY <1>1 DEF IInv, OlderOutdated, TypeOK, Admit
<1>6. CurrentIsAttempt'
  BY <1>1, <1>2 DEF CurrentIsAttempt, TypeOK, Admit
<1>7. AttemptsPressed'
  BY <1>1, <1>2 DEF IInv, AttemptsPressed, TypeOK, Admit, Admitted, InForce, Pauses
<1> QED
  BY <1>3, <1>4, <1>5, <1>6, <1>7 DEF IInv

\* Nothing but the replies changes: the tickets and the pause stand.
LEMMA ReplyStep ==
    ASSUME IInv, NEW g \in Gateways, NEW q \in Requests,
           request[g] # None, q.ticket = request[g].ticket,
           request' = [request EXCEPT ![g] = q],
           account' \in [window : 0..MaxWindow, left : 1..Window, points : 0..Limit],
           reading' \in Readings \cup {None}, UNCHANGED <<gate, history>>
    PROVE  IInv'
<1>1. TypeOK /\ q # None /\ request' \in [Gateways -> Requests \cup {None}]
  BY Distinct DEF IInv, TypeOK
<1>2. TypeOK'
  BY <1>1 DEF TypeOK, gate, history
<1>3. \A h \in Gateways : /\ request'[h] # None <=> request[h] # None
                          /\ request'[h] # None => request'[h].ticket = request[h].ticket
  BY <1>1 DEF TypeOK
<1>4. TicketsGiven' /\ OlderOutdated'
  BY <1>1, <1>3 DEF IInv, TypeOK, TicketsGiven, OlderOutdated, gate, history
<1>5. CurrentIsAttempt' /\ AttemptsPressed'
  BY <1>3 DEF IInv, CurrentIsAttempt, AttemptsPressed, InForce, gate, history
<1> QED
  BY <1>2, <1>4, <1>5 DEF IInv

LEMMA AnsweringStep ==
    ASSUME IInv, NEW g \in Gateways, Answer(g) \/ Refusal(g) \/ Failure(g)
    PROVE  IInv'
<1>1. TypeOK /\ request[g] # None /\ request[g] \in Requests /\ request[g].reply = None
  BY DEF IInv, TypeOK, Answer, Refusal, Failure, Reply
<1>2. ASSUME NEW outcome, NEW r, [outcome |-> outcome, reading |-> r] \in Replies,
             Reply(g, outcome, r),
             account' \in [window : 0..MaxWindow, left : 1..Window, points : 0..Limit]
      PROVE  IInv'
  <2> DEFINE q == [ticket |-> request[g].ticket, reply |-> [outcome |-> outcome, reading |-> r]]
  <2>1. q \in Requests /\ q.ticket = request[g].ticket
    BY <1>1, <1>2 DEF Requests
  <2>2. request' = [request EXCEPT ![g] = q]
    BY <1>2 DEF Reply
  <2>3. reading' \in Readings \cup {None} /\ UNCHANGED <<gate, history>>
    BY <1>1, <1>2 DEF Reply, TypeOK
  <2> HIDE DEF q
  <2> QED
    BY <1>1, <1>2, <2>1, <2>2, <2>3, ReplyStep
<1>3. CASE Answer(g)
  <2>1. PICK p \in 0..account.points - 1 :
            /\ account' = [account EXCEPT !.points = p]
            /\ Reply(g, "answer", [window |-> account.window, remaining |-> p])
    BY <1>3 DEF Answer
  <2>2. p \in 0..Limit
    BY <1>1, <2>1, RateLimitAssumption DEF TypeOK
  <2>3. [window |-> account.window, remaining |-> p] \in Readings
    BY <1>1, <2>2 DEF TypeOK, Readings
  <2>4. account' \in [window : 0..MaxWindow, left : 1..Window, points : 0..Limit]
    BY <1>1, <2>1, <2>2 DEF TypeOK
  <2>5. [outcome |-> "answer", reading |-> [window |-> account.window, remaining |-> p]]
            \in Replies
    BY <2>3 DEF Replies
  <2> QED
    BY <1>2, <2>1, <2>4, <2>5
<1>4. CASE Refusal(g)
  <2>1. account' \in [window : 0..MaxWindow, left : 1..Window, points : 0..Limit]
    BY <1>1, <1>4 DEF Refusal, TypeOK
  <2>2. /\ [outcome |-> "primary", reading |-> None] \in Replies
        /\ [outcome |-> "secondary", reading |-> None] \in Replies
    BY DEF Replies, Kinds
  <2> QED
    BY <1>2, <1>4, <2>1, <2>2 DEF Refusal
<1>5. CASE Failure(g)
  <2>1. account' \in [window : 0..MaxWindow, left : 1..Window, points : 0..Limit]
    BY <1>1, <1>5 DEF Failure, TypeOK
  <2>2. [outcome |-> "failure", reading |-> None] \in Replies
    BY DEF Replies
  <2> QED
    BY <1>2, <1>5, <2>1, <2>2 DEF Failure
<1> QED
  BY <1>3, <1>4, <1>5

LEMMA RecordStep == ASSUME IInv, NEW g \in Gateways, Record(g) PROVE IInv'
<1> DEFINE q == [ticket |-> request[g].ticket,
                 reply |-> [outcome |-> request[g].reply.outcome, reading |-> None]]
<1>1. /\ TypeOK /\ request[g] # None /\ request[g] \in Requests
      /\ request[g].reply # None /\ request[g].reply \in Replies
  BY DEF IInv, TypeOK, Record, Requests
<1>2. q \in Requests /\ q.ticket = request[g].ticket
  BY <1>1 DEF Requests, Replies
<1>3. request' = [request EXCEPT ![g] = q] /\ UNCHANGED <<gate, history>>
  BY DEF Record
<1>4. account' \in [window : 0..MaxWindow, left : 1..Window, points : 0..Limit]
  BY <1>1 DEF Record, TypeOK
<1>5. reading' \in Readings \cup {None}
  BY <1>1 DEF Record, TypeOK, Replies
<1> HIDE DEF q
<1> QED
  BY <1>1, <1>2, <1>3, <1>4, <1>5, ReplyStep

\* A request that is done leaves the other tickets as they were.
LEMMA DoneStep ==
    ASSUME IInv, NEW g \in Gateways, request' = [request EXCEPT ![g] = None],
           older' \subseteq older \ {g}, generation' = generation,
           UNCHANGED <<account, reading, presses, sent>>
    PROVE  /\ request' \in [Gateways -> Requests \cup {None}] /\ older' \subseteq Gateways
           /\ TicketsGiven' /\ OlderOutdated'
           /\ \A h \in Gateways : request'[h] # None => request'[h] = request[h]
<1>1. TypeOK
  BY DEF IInv
<1>2. \A h \in Gateways : request'[h] # None => request'[h] = request[h]
  BY <1>1 DEF TypeOK
<1>3. \A h \in older' : request'[h] = request[h]
  BY <1>1 DEF TypeOK
<1> QED
  BY <1>1, <1>2, <1>3 DEF IInv, TypeOK, TicketsGiven, OlderOutdated

LEMMA AnsweredStep ==
    ASSUME IInv, NEW g \in Gateways, Answered(g) \/ Failed(g) PROVE IInv'
<1>1. /\ request' = [request EXCEPT ![g] = None] /\ older' \subseteq older \ {g}
      /\ generation' = generation /\ UNCHANGED <<account, reading, presses, sent>>
      /\ (pause' = None /\ refusals' = 0) \/ UNCHANGED <<pause, refusals>>
  BY DEF Answered, Failed, Report, Done, gate
<1>2. TypeOK /\ TicketsGiven' /\ OlderOutdated'
  BY <1>1, DoneStep DEF IInv
<1>3. /\ request' \in [Gateways -> Requests \cup {None}] /\ older' \subseteq Gateways
      /\ \A h \in Gateways : request'[h] # None => request'[h] = request[h]
  BY <1>1, DoneStep
<1>4. TypeOK'
  <2>1. refusals' \in 0..generation' /\ pause' \in Pauses \cup {None}
    BY <1>1, <1>2, RateLimitAssumption DEF TypeOK
  <2> QED
    BY <1>1, <1>2, <1>3, <2>1 DEF TypeOK
<1>5. CurrentIsAttempt' /\ AttemptsPressed'
  BY <1>1, <1>3 DEF IInv, CurrentIsAttempt, AttemptsPressed, InForce
<1> QED
  BY <1>2, <1>4, <1>5 DEF IInv

LEMMA RefusedStep == ASSUME IInv, NEW g \in Gateways, Refused(g) PROVE IInv'
<1>1. /\ TypeOK /\ request' = [request EXCEPT ![g] = None]
      /\ UNCHANGED <<account, reading>>
  BY DEF IInv, Refused, Report
<1>2. CASE ~SinceRefusal(g)
  <2>1. /\ older' \subseteq older \ {g} /\ generation' = generation
        /\ UNCHANGED <<account, reading, presses, sent, pause, refusals>>
    BY <1>1, <1>2 DEF Refused, LateRefusal, gate
  <2>2. TicketsGiven' /\ OlderOutdated'
    BY <1>1, <2>1, DoneStep
  <2>3. /\ request' \in [Gateways -> Requests \cup {None}] /\ older' \subseteq Gateways
        /\ \A h \in Gateways : request'[h] # None => request'[h] = request[h]
    BY <1>1, <2>1, DoneStep
  <2>4. TypeOK'
    BY <1>1, <2>1, <2>3 DEF TypeOK
  <2>5. CurrentIsAttempt' /\ AttemptsPressed'
    BY <2>1, <2>3 DEF IInv, CurrentIsAttempt, AttemptsPressed, InForce
  <2> QED
    BY <2>2, <2>4, <2>5 DEF IInv
<1>3. CASE SinceRefusal(g)
  <2> DEFINE wait == Due(request[g].reply.outcome)
  <2>1. /\ generation < MaxRefusals /\ generation' = generation + 1
        /\ refusals' = refusals + 1 /\ pause' = [left |-> wait, attempt |-> FALSE]
        /\ presses' = 0 /\ sent' = 0 /\ older' = Flying \ {g}
    BY <1>3 DEF Refused
  <2>2. wait \in Nat
    BY <1>1, DueIsTicks
  <2> HIDE DEF wait
  <2>3. pause' \in Pauses /\ pause'.attempt = FALSE
    BY <2>1, <2>2 DEF Pauses
  <2>4. request' \in [Gateways -> Requests \cup {None}]
    BY <1>1 DEF TypeOK
  <2>5. older' \subseteq Gateways
    BY <2>1 DEF Flying
  <2>6. /\ generation \in Nat /\ generation' \in 0..MaxRefusals
        /\ refusals' \in 0..generation'
    BY <1>1, <2>1, RateLimitAssumption DEF TypeOK
  <2>7. TypeOK'
    BY <1>1, <2>1, <2>3, <2>4, <2>5, <2>6, RateLimitAssumption DEF TypeOK
  <2>8. \A h \in Gateways : request'[h] # None =>
            request'[h] = request[h] /\ request[h].ticket < generation'
    <3> SUFFICES ASSUME NEW h \in Gateways, request'[h] # None
                 PROVE  request'[h] = request[h] /\ request[h].ticket < generation'
      OBVIOUS
    <3>1. request'[h] = request[h] /\ request[h] # None
      BY <1>1 DEF TypeOK
    <3>2. request[h].ticket <= generation /\ request[h].ticket \in Nat
      BY <1>1, <3>1 DEF IInv, TicketsGiven, TypeOK, Requests
    <3> QED
      BY <2>1, <2>6, <3>1, <3>2
  <2>9. \A h \in older' : h \in Gateways /\ request'[h] # None
    BY <1>1, <2>1 DEF Flying, TypeOK
  <2>10. TicketsGiven' /\ OlderOutdated' /\ CurrentIsAttempt'
    <3>1. ASSUME NEW h \in Gateways, request'[h] # None
          PROVE  request'[h].ticket < generation' /\ request'[h].ticket \in Nat
      BY <2>4, <2>8, <3>1 DEF Requests
    <3> QED
      BY <2>6, <2>9, <3>1 DEF TicketsGiven, OlderOutdated, CurrentIsAttempt
  <2>11. AttemptsPressed'
    BY <2>1, <2>3 DEF AttemptsPressed
  <2> QED
    BY <2>7, <2>10, <2>11 DEF IInv
<1> QED
  BY <1>2, <1>3

LEMMA LiftStep == ASSUME IInv, Lift PROVE IInv'
<1>1. /\ TypeOK /\ pause \in Pauses /\ pause' = [left |-> pause.left, attempt |-> TRUE]
      /\ pause # None /\ pause' # None /\ pause' \in Pauses
  BY Distinct DEF IInv, TypeOK, Lift, Pauses
<1>2. TypeOK'
  BY <1>1, RateLimitAssumption DEF TypeOK, Lift
<1>3. TicketsGiven' /\ OlderOutdated' /\ CurrentIsAttempt' /\ AttemptsPressed'
  BY <1>1 DEF IInv, TicketsGiven, OlderOutdated, CurrentIsAttempt, AttemptsPressed,
              InForce, Lift, TypeOK, Pauses
<1> QED
  BY <1>2, <1>3 DEF IInv

LEMMA TickStep == ASSUME IInv, Tick PROVE IInv'
<1>1. TypeOK
  BY DEF IInv
<1>2. account' \in [window : 0..MaxWindow, left : 1..Window, points : 0..Limit]
  BY <1>1, RateLimitAssumption DEF Tick, TypeOK
<1>3. /\ pause' \in Pauses \cup {None} /\ (InForce' => InForce)
      /\ InForce' => pause'.attempt = pause.attempt
  BY <1>1, Distinct DEF Tick, TypeOK, InForce, Pauses
<1>4. TypeOK'
  BY <1>1, <1>2, <1>3 DEF Tick, TypeOK, history
<1>5. TicketsGiven' /\ OlderOutdated' /\ CurrentIsAttempt' /\ AttemptsPressed'
  BY <1>3 DEF IInv, TicketsGiven, OlderOutdated, CurrentIsAttempt, AttemptsPressed,
              Tick, history
<1> QED
  BY <1>4, <1>5 DEF IInv

LEMMA StutterStep == ASSUME IInv, UNCHANGED vars PROVE IInv'
BY DEF vars, gate, history, IInv, TypeOK, TicketsGiven, OlderOutdated, CurrentIsAttempt,
       AttemptsPressed, InForce

LEMMA NextStep == ASSUME IInv, [Next]_vars PROVE IInv'
<1>1. ASSUME NEW g \in Gateways, Step(g) PROVE IInv'
  BY <1>1, AdmitStep, StutterStep, AnsweringStep, RecordStep, AnsweredStep, RefusedStep
     DEF Step, Hold
<1> QED
  BY <1>1, LiftStep, TickStep, StutterStep DEF Next

LEMMA Inductive == Spec => []IInv
BY InitHolds, NextStep, PTL DEF Spec

-----------------------------------------------------------------------------
(* The gate, its readings and its requests keep their types, whatever the  *)
(* order of the answers: LatestRateLimit in github/github.py.              *)
THEOREM TypeCorrect == Spec => []TypeOK
<1>1. IInv => TypeOK
  BY DEF IInv
<1> QED
  BY <1>1, Inductive, PTL

(* A pause in force lets out one request for each manual refresh, however  *)
(* many gateways share it: the attempt that admit() takes back.            *)
THEOREM OneAttemptEach == Spec => []OnlyAttempts
<1>1. IInv => OnlyAttempts
  BY DEF IInv, TypeOK, AttemptsPressed, OnlyAttempts
<1> QED
  BY <1>1, Inductive, PTL

(* Whatever was on its way when a pause began leaves it, and the count of  *)
(* refusals in a row, as they are: the ticket checks of answered() and     *)
(* refused().                                                              *)
THEOREM LateAnswersIgnored == Spec => LateAnswersChangeNothing
<1>1. ASSUME IInv, [Next]_vars, NEW g \in older, request'[g] = None
      PROVE  UNCHANGED gate
  <2>1. /\ TypeOK /\ g \in Gateways /\ request[g] # None /\ ~SinceRefusal(g)
    BY <1>1 DEF IInv, TypeOK, OlderOutdated, SinceRefusal, Requests
  <2>2. ~UNCHANGED request
    BY <1>1, <2>1
  <2>3. PICK h \in Gateways : Step(h)
    BY <1>1, <2>2 DEF Next, vars, Lift, Tick
  <2>4. CASE h = g
    <3>1. CASE Admit(g) \/ Hold(g) \/ Answer(g) \/ Refusal(g) \/ Failure(g) \/ Record(g)
      BY <3>1, <2>1 DEF Admit, Hold, Answer, Refusal, Failure, Record, Reply, gate, vars
    <3>2. CASE Answered(g) \/ Failed(g) \/ Refused(g)
      BY <3>2, <2>1 DEF Answered, Failed, Refused, LateRefusal, gate
    <3> QED
      BY <2>3, <2>4, <3>1, <3>2 DEF Step
  <2>5. CASE h # g
    <3>1. ASSUME NEW q, request' = [request EXCEPT ![h] = q] PROVE FALSE
      BY <1>1, <2>1, <2>5, <3>1 DEF TypeOK
    <3>2. ~Admit(h)
      BY <3>1 DEF Admit
    <3>3. ~Hold(h)
      BY <2>2 DEF Hold, vars
    <3>4. \A o, r : ~Reply(h, o, r)
      BY <3>1 DEF Reply
    <3>5. ~Record(h)
      BY <3>1 DEF Record
    <3>6. ~Answered(h) /\ ~Failed(h) /\ ~Refused(h)
      BY <3>1 DEF Answered, Failed, Refused, Done
    <3> QED
      BY <2>3, <3>2, <3>3, <3>4, <3>5, <3>6 DEF Step, Answer, Refusal, Failure
  <2> QED
    BY <2>4, <2>5
<1>2. IInv /\ [Next]_vars => [\A g \in older : request'[g] = None => UNCHANGED gate]_vars
  BY <1>1
<1> QED
  BY <1>2, Inductive, PTL DEF Spec, LateAnswersChangeNothing

(* Only an attempt sent under it ends a pause early or begins it again.    *)
THEOREM PauseKept == Spec => PauseStands
<1>1. ASSUME IInv, [Next]_vars, InForce, pause' = None \/ pause'.left > pause.left
      PROVE  sent > 0
  <2>1. TypeOK /\ pause \in Pauses /\ pause # None /\ pause.left \in Nat
    BY <1>1, Distinct DEF IInv, TypeOK, InForce, Pauses
  <2>2. pause' # pause
    BY <1>1, <2>1
  <2>3. ~(pause' \in Pauses /\ pause'.left <= pause.left)
    <3> SUFFICES ASSUME pause' \in Pauses, pause'.left <= pause.left PROVE FALSE
      OBVIOUS
    <3>1. pause'.left \in Nat /\ pause' # None
      BY Distinct DEF Pauses
    <3> QED
      BY <1>1, <2>1, <3>1
  <2>4. ~Lift /\ ~Tick
    <3>1. Lift => pause' \in Pauses /\ pause'.left = pause.left
      BY <2>1 DEF Lift, Pauses
    <3>2. Tick => pause' \in Pauses /\ pause'.left = pause.left - 1
      BY <1>1, <2>1 DEF Tick, Pauses, InForce
    <3> QED
      BY <2>1, <2>3, <3>1, <3>2
  <2>5. PICK g \in Gateways : Step(g)
    BY <1>1, <2>2, <2>4 DEF Next, vars, gate
  <2>6. ~Admit(g)
    <3>1. Admit(g) => pause' \in Pauses /\ pause'.left = pause.left
      BY <1>1, <2>1 DEF Admit, Admitted, Pauses
    <3> QED
      BY <2>1, <2>3, <3>1
  <2>7. Answered(g) \/ Refused(g)
    BY <2>2, <2>5, <2>6 DEF Step, Hold, Answer, Refusal, Failure, Reply, Record, Failed,
                            vars, gate
  <2>8. SinceRefusal(g) /\ request[g] # None
    BY <2>2, <2>7 DEF Answered, Refused, Report, LateRefusal, gate
  <2> QED
    BY <1>1, <2>8 DEF IInv, CurrentIsAttempt, SinceRefusal
<1>2. IInv /\ [Next]_vars
        => [InForce /\ (pause' = None \/ pause'.left > pause.left) => sent > 0]_vars
  BY <1>1
<1> QED
  BY <1>2, Inductive, PTL DEF Spec, PauseStands

(* Within a window the held reading only falls, whatever order the answers *)
(* are recorded in: LatestRateLimit.record.                                *)
THEOREM PointsFall == Spec => PointsOnlyFall
<1>1. ASSUME IInv, [Next]_vars, reading # None, reading'.window = reading.window
      PROVE  reading'.remaining <= reading.remaining
  <2>1. TypeOK /\ reading \in Readings /\ reading.remaining \in Nat
    BY <1>1 DEF IInv, TypeOK, Readings
  <2>2. CASE reading' = reading
    BY <2>1, <2>2
  <2>3. CASE reading' # reading
    <3>1. PICK g \in Gateways : Step(g)
      BY <1>1, <2>3 DEF Next, vars, Lift, Tick
    <3>2. Record(g)
      BY <2>3, <3>1 DEF Step, Admit, Hold, Answer, Refusal, Failure, Reply, Answered,
                        Failed, Refused, Report, vars
    <3>3. request[g].reply \in Replies /\ request[g].reply.reading \in Readings
      BY <2>1, <3>2 DEF Record, TypeOK, Requests, Replies
    <3>4. reading' = request[g].reply.reading /\ ~Outdated(request[g].reply.reading)
      BY <2>3, <3>2 DEF Record
    <3> QED
      BY <1>1, <2>1, <3>3, <3>4 DEF Outdated, Readings
  <2> QED
    BY <2>2, <2>3
<1>2. IInv /\ [Next]_vars
        => [reading # None /\ reading'.window = reading.window
              => reading'.remaining <= reading.remaining]_vars
  BY <1>1
<1> QED
  BY <1>2, Inductive, PTL DEF Spec, PointsOnlyFall
=============================================================================
