-------------------------- MODULE ObservationProofs --------------------------
(***************************************************************************)
(* For every set of Projects and every number of tickets and refreshes:    *)
(* what the store shows never goes back and Agent Runs are bound to what   *)
(* it shows; the runner's in-flight gate reopens, and the runner keeps the *)
(* coordinator's own invariant.                                            *)
(***************************************************************************)
EXTENDS ObservationRunner, TLAPS

\* The steps of a ticket that holds its key's lock.
Locked == {"observing", "read", "retained"}

\* At most one ticket of a key is past its lock.
OneLocked ==
    \A k \in Keys : \A g, h \in Gens(k) :
        task[k][g] \in Locked /\ task[k][h] \in Locked => g = h

\* A source's cache lies between what was accepted of it and what it is.
SourceOrder ==
    \A k \in ProjectKeys :
        /\ cache[k] <= world[k]
        /\ observed[k] # None => observed[k].version <= cache[k]

\* What a running ticket holds is no older than what was accepted before it.
WorkOrder ==
    \A k \in ProjectKeys : \A g \in Gens(k) :
        /\ task[k][g] = "observing" => work[k][g] = observed[k]
        /\ task[k][g] = "read" =>
             /\ work[k][g] # None
             /\ cache[k] <= work[k][g].version /\ work[k][g].version <= world[k]
        /\ task[k][g] = "retained" =>
             /\ work[k][g] # None
             /\ work[k][g].version <= cache[k]
             /\ observed[k] # None => observed[k].version <= work[k][g].version

\* The Projects an observation of the Agent Runs holds lie between the ones
\* the last accepted observation was built on and the ones composed by now.
AgentOrder ==
    /\ \A g \in Gens(AgentRuns) :
         task[AgentRuns][g] \in Locked =>
             /\ work[AgentRuns][g] # None
             /\ \A p \in Projects :
                  /\ NoOlder(composed[p], work[AgentRuns][g][p])
                  /\ agent # None => NoOlder(work[AgentRuns][g][p], agent[p])
    /\ agent # None => \A p \in Projects : NoOlder(composed[p], agent[p])
    /\ store.agent # None =>
         agent # None /\ \A p \in Projects : NoOlder(agent[p], store.agent[p])

Composed == \A p \in Projects : composed[p] = Compose(p, observed)

StoreOrder ==
    /\ \A p \in Projects : NoOlder(composed[p], store.projects[p])
    /\ \A p \in Projects \ pending : store.projects[p] = composed[p]
    /\ ~agentPending => store.agent = agent

IInv == TypeOK /\ OneLocked /\ SourceOrder /\ WorkOrder /\ AgentOrder
        /\ Composed /\ StoreOrder /\ AgentBindsPublished

-----------------------------------------------------------------------------
(* Keys are Project keys or the Agent Runs' own, never both.               *)
LEMMA KeyFacts ==
    /\ AgentRuns \in Keys /\ AgentRuns \notin ProjectKeys /\ ProjectKeys \subseteq Keys
    /\ \A k \in Keys : k # AgentRuns => k \in ProjectKeys
    /\ \A k \in ProjectKeys : k[1] \in Projects /\ k[2] \in Parts
    /\ \A p \in Projects, x \in Parts : <<p, x>> \in ProjectKeys
<1>1. "agent-runs" \notin Parts
  BY CoordinatorAssumption
<1> QED
  BY <1>1 DEF Keys, ProjectKeys, AgentRuns

(* Tickets are numbered from one up to the bound of their key.             *)
LEMMA GenerationFacts ==
    ASSUME NEW k \in Keys PROVE MaxGen[k[2]] \in Nat /\ Gens(k) \subseteq Nat \ {0}
<1>1. AgentRuns[2] \in Parts \cup {"agent-runs"}
  BY DEF AgentRuns
<1>2. MaxGen[k[2]] \in Nat
  BY <1>1, KeyFacts, CoordinatorAssumption
<1> QED
  BY <1>2 DEF Gens

(* A Project composes to a composition or to nothing.                      *)
LEMMA ComposeType ==
    ASSUME NEW halves \in [ProjectKeys -> Half \cup {None}], NEW p \in Projects
    PROVE  Compose(p, halves) \in Composition \cup {None}
<1>1. Unobserved \in Half
  BY DEF Unobserved, Half
<1> DEFINE part == [x \in Parts |-> IF halves[<<p, x>>] = None THEN Unobserved
                                   ELSE halves[<<p, x>>]]
<1>2. part \in [Parts -> Half]
  BY <1>1, KeyFacts
<1> QED
  BY <1>2 DEF Compose, Composition

(* Only a part not observed yet keeps a Project from composing.            *)
LEMMA ComposeNone ==
    ASSUME NEW halves \in [ProjectKeys -> Half \cup {None}], NEW p \in Projects
    PROVE  Compose(p, halves) = None
             <=> ~QueryDriven /\ \E x \in Parts : halves[<<p, x>>] = None
<1>1. CASE ~QueryDriven /\ \E x \in Parts : halves[<<p, x>>] = None
  BY <1>1 DEF Compose
<1>2. CASE ~(~QueryDriven /\ \E x \in Parts : halves[<<p, x>>] = None)
  <2> DEFINE part == [x \in Parts |-> IF halves[<<p, x>>] = None THEN Unobserved
                                     ELSE halves[<<p, x>>]]
  <2>1. part \in [Parts -> Half]
    BY KeyFacts DEF Unobserved, Half
  <2>2. PICK s \in BOOLEAN : Compose(p, halves) = [halves |-> part, snapshot |-> s]
    BY <1>2 DEF Compose
  <2>3. Compose(p, halves) \in Composition
    BY <2>1, <2>2 DEF Composition
  <2> QED
    BY <1>2, <2>3, NoneAssumption
<1> QED
  BY <1>1, <1>2

(* Composing from halves that are nowhere older gives a composition that   *)
(* is nowhere older, and one that exists if there was one before.          *)
LEMMA ComposeMonotone ==
    ASSUME NEW old \in [ProjectKeys -> Half \cup {None}],
           NEW new \in [ProjectKeys -> Half \cup {None}],
           NEW p \in Projects,
           \A k \in ProjectKeys : old[k] # None =>
               new[k] # None /\ old[k].version <= new[k].version
    PROVE  NoOlder(Compose(p, new), Compose(p, old))
<1>1. \A x \in Parts : <<p, x>> \in ProjectKeys
  BY KeyFacts
<1>2. Compose(p, old) # None => Compose(p, new) # None
  BY <1>1, ComposeNone
<1>3. ASSUME NEW x \in Parts, Compose(p, old) # None
      PROVE Compose(p, old).halves[x].version <= Compose(p, new).halves[x].version
  <2>1. Compose(p, old).halves[x] =
          IF old[<<p, x>>] = None THEN Unobserved ELSE old[<<p, x>>]
    BY <1>3 DEF Compose
  <2>2. Compose(p, new).halves[x] =
          IF new[<<p, x>>] = None THEN Unobserved ELSE new[<<p, x>>]
    BY <1>2, <1>3 DEF Compose
  <2>3. old[<<p, x>>] \in Half \cup {None} /\ new[<<p, x>>] \in Half \cup {None}
    BY <1>1
  <2> QED
    BY <1>1, <2>1, <2>2, <2>3 DEF Half, Unobserved
<1> QED
  BY <1>2, <1>3 DEF NoOlder

(* Being no older is a preorder on compositions.                           *)
LEMMA NoOlderReflexive ==
    ASSUME NEW c \in Composition \cup {None} PROVE NoOlder(c, c)
BY DEF NoOlder, Composition, Half

LEMMA NoOlderTransitive ==
    ASSUME NEW a \in Composition \cup {None}, NEW b \in Composition \cup {None},
           NEW c \in Composition \cup {None}, NoOlder(c, b), NoOlder(b, a)
    PROVE  NoOlder(c, a)
<1>1. ASSUME a # None, NEW x \in Parts
      PROVE a.halves[x].version <= c.halves[x].version
  <2>1. b # None /\ c # None
    BY <1>1 DEF NoOlder
  <2>2. /\ a.halves[x].version \in Nat /\ b.halves[x].version \in Nat
        /\ c.halves[x].version \in Nat
    BY <1>1, <2>1 DEF Composition, Half
  <2>3. /\ a.halves[x].version <= b.halves[x].version
        /\ b.halves[x].version <= c.halves[x].version
    BY <1>1, <2>1 DEF NoOlder
  <2> QED
    BY <2>2, <2>3
<1> QED
  BY <1>1 DEF NoOlder

(* A failed half shows the version it builds on.                           *)
LEMMA FailedVersion ==
    ASSUME NEW half \in Half \cup {None}, NEW b \in BOOLEAN
    PROVE  /\ FailedHalf(half, b) \in Half
           /\ half # None => FailedHalf(half, b).version = half.version
           /\ half = None => FailedHalf(half, b).version = 0
BY DEF FailedHalf, Unobserved, Half

LEMMA SourceFailedVersion ==
    ASSUME NEW v \in Nat
    PROVE  SourceFailed(v) \in Half /\ SourceFailed(v).version = v
BY DEF SourceFailed, Fresh, Unobserved, Half

-----------------------------------------------------------------------------
(* A ticket's step changes its own task and scratch and no other ticket's. *)
LEMMA ProceedFacts ==
    ASSUME TypeOK, NEW k \in Keys, NEW g \in Gens(k), NEW step, NEW scratch,
           Proceed(k, g, step, scratch)
    PROVE  /\ task'[k][g] = step /\ work'[k][g] = scratch
           /\ \A l \in Keys : \A h \in Gens(l) : l # k \/ h # g =>
                task'[l][h] = task[l][h] /\ work'[l][h] = work[l][h]
BY DEF Proceed, TypeOK

Scratch(k) == {None} \cup (IF k = AgentRuns THEN Base ELSE Half)

\* The part of TypeOK a ticket's step can disturb.
TicketTypes ==
    /\ DOMAIN task = Keys /\ DOMAIN work = Keys
    /\ \A k \in Keys : /\ task[k] \in [Gens(k) -> Steps]
                       /\ work[k] \in [Gens(k) -> Scratch(k)]

LEMMA ProceedTypes ==
    ASSUME TypeOK, NEW k \in Keys, NEW g \in Gens(k), NEW step \in Steps,
           NEW scratch \in Scratch(k), Proceed(k, g, step, scratch)
    PROVE  TicketTypes'
<1>1. DOMAIN task' = Keys /\ DOMAIN work' = Keys
  BY DEF Proceed, TypeOK
<1>2. ASSUME NEW l \in Keys
      PROVE task'[l] \in [Gens(l) -> Steps] /\ work'[l] \in [Gens(l) -> Scratch(l)]
  BY <1>2 DEF Proceed, TypeOK, Scratch
<1> QED
  BY <1>1, <1>2 DEF TicketTypes

(* Initially nothing was observed.                                         *)
LEMMA InitInv == Init => IInv
<1> SUFFICES ASSUME Init PROVE IInv
  OBVIOUS
<1>1. observed \in [ProjectKeys -> Half \cup {None}]
  BY DEF Init
<1>2. \A p \in Projects : Compose(p, observed) \in Composition \cup {None}
  BY <1>1, ComposeType
<1>3. composed \in Base /\ Composed
  BY <1>2 DEF Init, Base, Composed
<1>4. pending \subseteq {p \in Projects : composed[p] # None}
  <2> SUFFICES ASSUME QueryDriven, NEW p \in Projects PROVE composed[p] # None
    BY DEF Init
  <2> QED
    BY <1>1, ComposeNone DEF Init
<1>5. store \in [projects : Base, agent : Base \cup {None}]
  BY DEF Init, Base
<1>6. TypeOK
  <2>1. \A k \in Keys : MaxGen[k[2]] \in Nat
    BY GenerationFacts
  <2>2. \A k \in Keys : /\ generation[k] \in 0 .. MaxGen[k[2]]
                        /\ task[k] \in [Gens(k) -> Steps]
                        /\ work[k] \in [Gens(k) -> {None} \cup
                                       (IF k = AgentRuns THEN Base ELSE Half)]
    BY <2>1 DEF Init, Steps
  <2> QED
    BY <1>1, <1>3, <1>4, <1>5, <2>2 DEF Init, TypeOK
<1>7. OneLocked /\ SourceOrder /\ WorkOrder /\ AgentOrder
  BY KeyFacts DEF Init, OneLocked, SourceOrder, WorkOrder, AgentOrder, Locked
<1>8. StoreOrder /\ AgentBindsPublished
  <2>1. \A p \in Projects : NoOlder(composed[p], store.projects[p])
    BY DEF Init, NoOlder
  <2>2. ASSUME NEW p \in Projects \ pending PROVE store.projects[p] = composed[p]
    <3>1. ~QueryDriven /\ \E x \in Parts : <<p, x>> \in ProjectKeys
      BY CoordinatorAssumption, KeyFacts DEF Init
    <3> QED
      BY <3>1, KeyFacts DEF Init, Compose
  <2> QED
    BY <2>1, <2>2 DEF Init, StoreOrder, AgentBindsPublished
<1> QED
  BY <1>3, <1>6, <1>7, <1>8 DEF IInv

-----------------------------------------------------------------------------
(* A key's lock is taken only when free.                                   *)
LEMMA OneLockedStep ==
    ASSUME TypeOK, OneLocked, NEW k \in Keys, NEW g \in Gens(k), NEW step, NEW scratch,
           Proceed(k, g, step, scratch),
           task[k][g] \in Locked \/ step \notin Locked \/ ~KeyLocked(k)
    PROVE  OneLocked'
<1>1. /\ task'[k][g] = step
      /\ \A l \in Keys : \A h \in Gens(l) : l # k \/ h # g => task'[l][h] = task[l][h]
  BY ProceedFacts
<1>2. ASSUME NEW l \in Keys, NEW a \in Gens(l), NEW b \in Gens(l),
             task'[l][a] \in Locked, task'[l][b] \in Locked
      PROVE  a = b
  BY <1>1, <1>2 DEF OneLocked, KeyLocked, Locked
<1> QED
  BY <1>2 DEF OneLocked

ticketUnchanged == UNCHANGED <<sourceVars, generation, acceptVars, store>>

(* A ticket's step that accepts nothing keeps every other conjunct.        *)
LEMMA TicketStep ==
    ASSUME IInv, NEW k \in Keys, NEW g \in Gens(k), NEW step \in Steps,
           NEW scratch \in Scratch(k), Proceed(k, g, step, scratch),
           task[k][g] \in Locked \/ step \notin Locked \/ ~KeyLocked(k),
           ticketUnchanged, WorkOrder', AgentOrder'
    PROVE  IInv'
<1> USE DEF ticketUnchanged, sourceVars, acceptVars
<1>1. TypeOK'
  BY ProceedTypes DEF IInv, TypeOK, TicketTypes, Scratch
<1>2. OneLocked'
  BY OneLockedStep DEF IInv
<1>3. SourceOrder' /\ StoreOrder' /\ AgentBindsPublished'
  BY DEF IInv, SourceOrder, StoreOrder, AgentBindsPublished, NoOlder
<1>4. Composed'
  BY DEF IInv, Composed, Compose
<1> QED
  BY <1>1, <1>2, <1>3, <1>4 DEF IInv

(* The scratch of one ticket is all WorkOrder and AgentOrder see of a step.*)
LEMMA ProjectTicketStep ==
    ASSUME IInv, NEW k \in ProjectKeys, NEW g \in Gens(k), NEW step \in Steps,
           NEW scratch \in Half \cup {None}, Proceed(k, g, step, scratch),
           task[k][g] \in Locked \/ step \notin Locked \/ ~KeyLocked(k),
           ticketUnchanged,
           step = "observing" => scratch = observed[k],
           step = "read" => /\ scratch # None
                            /\ cache[k] <= scratch.version /\ scratch.version <= world[k],
           step = "retained" =>
             /\ scratch # None /\ scratch.version <= cache[k]
             /\ observed[k] # None => observed[k].version <= scratch.version
    PROVE  IInv'
<1>1. k \in Keys /\ k # AgentRuns /\ AgentRuns \in Keys
  BY KeyFacts
<1>2. /\ task'[k][g] = step /\ work'[k][g] = scratch
      /\ \A l \in Keys : \A h \in Gens(l) : l # k \/ h # g =>
           task'[l][h] = task[l][h] /\ work'[l][h] = work[l][h]
  BY <1>1, ProceedFacts DEF IInv
<1>3. UNCHANGED <<world, cache, observed, composed, agent, store>>
  BY DEF ticketUnchanged, sourceVars, acceptVars
<1>4. WorkOrder'
  <2> SUFFICES ASSUME NEW l \in ProjectKeys, NEW h \in Gens(l)
               PROVE  /\ task'[l][h] = "observing" => work'[l][h] = observed'[l]
                      /\ task'[l][h] = "read" =>
                           /\ work'[l][h] # None
                           /\ cache'[l] <= work'[l][h].version
                           /\ work'[l][h].version <= world'[l]
                      /\ task'[l][h] = "retained" =>
                           /\ work'[l][h] # None
                           /\ work'[l][h].version <= cache'[l]
                           /\ observed'[l] # None =>
                                observed'[l].version <= work'[l][h].version
    BY DEF WorkOrder, Gens
  <2>1. l \in Keys
    BY KeyFacts
  <2>2. CASE l = k /\ h = g
    BY <1>2, <1>3, <2>2
  <2>3. CASE l # k \/ h # g
    BY <1>2, <1>3, <2>1, <2>3 DEF IInv, WorkOrder
  <2> QED
    BY <2>2, <2>3
<1>5. AgentOrder'
  <2>1. \A h \in Gens(AgentRuns) : /\ task'[AgentRuns][h] = task[AgentRuns][h]
                                   /\ work'[AgentRuns][h] = work[AgentRuns][h]
    BY <1>1, <1>2
  <2> QED
    BY <1>3, <2>1 DEF IInv, AgentOrder, NoOlder, Gens
<1> QED
  BY <1>1, <1>4, <1>5, TicketStep DEF Scratch

LEMMA AgentTicketStep ==
    ASSUME IInv, NEW g \in Gens(AgentRuns), NEW step \in Steps,
           NEW scratch \in Base \cup {None}, Proceed(AgentRuns, g, step, scratch),
           task[AgentRuns][g] \in Locked \/ step \notin Locked \/ ~KeyLocked(AgentRuns),
           ticketUnchanged,
           step \in Locked =>
             /\ scratch # None
             /\ \A p \in Projects :
                  /\ NoOlder(composed[p], scratch[p])
                  /\ agent # None => NoOlder(scratch[p], agent[p])
    PROVE  IInv'
<1>1. AgentRuns \in Keys /\ AgentRuns \notin ProjectKeys /\ ProjectKeys \subseteq Keys
  BY KeyFacts
<1>2. /\ task'[AgentRuns][g] = step /\ work'[AgentRuns][g] = scratch
      /\ \A l \in Keys : \A h \in Gens(l) : l # AgentRuns \/ h # g =>
           task'[l][h] = task[l][h] /\ work'[l][h] = work[l][h]
  BY <1>1, ProceedFacts DEF IInv
<1>3. UNCHANGED <<world, cache, observed, composed, agent, store>>
  BY DEF ticketUnchanged, sourceVars, acceptVars
<1>4. WorkOrder'
  <2>1. \A l \in ProjectKeys : \A h \in Gens(l) :
          task'[l][h] = task[l][h] /\ work'[l][h] = work[l][h]
    BY <1>1, <1>2
  <2> QED
    BY <1>3, <2>1 DEF IInv, WorkOrder, Gens
<1>5. AgentOrder'
  <2>1. ASSUME NEW h \in Gens(AgentRuns), task'[AgentRuns][h] \in Locked
        PROVE  /\ work'[AgentRuns][h] # None
               /\ \A p \in Projects :
                    /\ NoOlder(composed[p], work'[AgentRuns][h][p])
                    /\ agent # None => NoOlder(work'[AgentRuns][h][p], agent[p])
    <3>1. CASE h = g
      BY <1>2, <2>1, <3>1
    <3>2. CASE h # g
      <4>1. task[AgentRuns][h] \in Locked /\ work'[AgentRuns][h] = work[AgentRuns][h]
        BY <1>1, <1>2, <2>1, <3>2
      <4> QED
        BY <4>1 DEF IInv, AgentOrder
    <3> QED
      BY <3>1, <3>2
  <2> QED
    BY <1>3, <2>1 DEF IInv, AgentOrder, NoOlder, Gens
<1> QED
  BY <1>1, <1>4, <1>5, TicketStep DEF Scratch

-----------------------------------------------------------------------------
(* Steps that accept nothing, by ticket.                                   *)
LEMMA SkipStep ==
    ASSUME IInv, NEW k \in Keys, NEW g \in Gens(k),
           Skip(k, g) \/ Raise(k, g) \/ Discard(k, g)
    PROVE  IInv'
<1>1. Proceed(k, g, "done", None) /\ ticketUnchanged
  BY DEF Skip, Raise, Discard, ticketUnchanged
<1>2. "done" \in Steps /\ "done" \notin Locked
  BY DEF Steps, Locked
<1>3. CASE k = AgentRuns
  BY <1>1, <1>2, <1>3, AgentTicketStep
<1>4. CASE k # AgentRuns
  BY <1>1, <1>2, <1>4, KeyFacts, ProjectTicketStep
<1> QED
  BY <1>3, <1>4

LEMMA StartStep ==
    ASSUME IInv, NEW k \in Keys, NEW g \in Gens(k), Start(k, g)
    PROVE  IInv'
<1>1. ticketUnchanged /\ ~KeyLocked(k) /\ "observing" \in Steps
  BY DEF Start, ticketUnchanged, Steps
<1>2. CASE k = AgentRuns
  <2>1. composed \in Base /\ composed # None
    BY NoneAssumption DEF IInv, TypeOK
  <2>2. \A p \in Projects : NoOlder(composed[p], composed[p])
    BY <2>1, NoOlderReflexive DEF Base
  <2>3. Proceed(AgentRuns, g, "observing", composed)
    BY <1>2 DEF Start
  <2> QED
    BY <1>1, <1>2, <2>1, <2>2, <2>3, AgentTicketStep DEF IInv, AgentOrder
<1>3. CASE k # AgentRuns
  <2>1. k \in ProjectKeys
    BY <1>3, KeyFacts
  <2>2. observed[k] \in Half \cup {None}
    BY <2>1 DEF IInv, TypeOK
  <2>3. Proceed(k, g, "observing", observed[k])
    BY <1>3 DEF Start
  <2> QED
    BY <1>1, <2>1, <2>2, <2>3, ProjectTicketStep
<1> QED
  BY <1>2, <1>3

LEMMA ReadStep ==
    ASSUME IInv, NEW k \in Keys, NEW g \in Gens(k), Read(k, g)
    PROVE  IInv'
<1>1. k \in ProjectKeys /\ task[k][g] \in Locked /\ "read" \in Steps
  BY KeyFacts DEF Read, Locked, Steps
<1>2. /\ world[k] \in Nat /\ cache[k] \in Nat /\ cache[k] <= world[k]
  BY <1>1 DEF IInv, TypeOK, SourceOrder
<1>3. Fresh(world[k]) \in Half /\ Fresh(world[k]).version = world[k]
  BY <1>2 DEF Fresh, Half
<1>4. Proceed(k, g, "read", Fresh(world[k])) /\ ticketUnchanged
  BY DEF Read, ticketUnchanged
<1> QED
  BY <1>1, <1>2, <1>3, <1>4, NoneAssumption, ProjectTicketStep

LEMMA ReadFailsStep ==
    ASSUME IInv, NEW k \in Keys, NEW g \in Gens(k), ReadFails(k, g)
    PROVE  IInv'
<1>1. k \in ProjectKeys /\ task[k][g] \in Locked /\ "retained" \in Steps
  BY KeyFacts DEF ReadFails, Locked, Steps
<1>2. /\ observed[k] \in Half \cup {None} /\ cache[k] \in Nat
      /\ observed[k] # None => observed[k].version <= cache[k]
      /\ work[k][g] = observed[k]
  BY <1>1 DEF IInv, TypeOK, SourceOrder, WorkOrder, ReadFails
<1>3. PICK half \in {FailedHalf(work[k][g], FALSE), FailedHalf(work[k][g], TRUE),
                     SourceFailed(cache[k])} : Proceed(k, g, "retained", half)
  BY DEF ReadFails
<1>4. /\ half \in Half /\ half.version <= cache[k]
      /\ observed[k] # None => observed[k].version <= half.version
  <2>1. CASE half = SourceFailed(cache[k])
    BY <1>2, <2>1, SourceFailedVersion
  <2>2. CASE half \in {FailedHalf(observed[k], FALSE), FailedHalf(observed[k], TRUE)}
    <3>1. /\ half \in Half
          /\ observed[k] # None => half.version = observed[k].version
          /\ observed[k] = None => half.version = 0
      BY <1>2, <2>2, FailedVersion
    <3> QED
      BY <1>2, <3>1 DEF Half
  <2> QED
    BY <1>2, <1>3, <2>1, <2>2
<1>5. ticketUnchanged
  BY DEF ReadFails, ticketUnchanged
<1> QED
  BY <1>1, <1>3, <1>4, <1>5, NoneAssumption, ProjectTicketStep

LEMMA ReadAgentsStep ==
    ASSUME IInv, NEW g \in Gens(AgentRuns), ReadAgents(g)
    PROVE  IInv'
<1>1. /\ task[AgentRuns][g] \in Locked /\ "retained" \in Steps
      /\ Proceed(AgentRuns, g, "retained", work[AgentRuns][g]) /\ ticketUnchanged
  BY DEF ReadAgents, Locked, Steps, ticketUnchanged
<1>2. work[AgentRuns][g] \in Base \cup {None}
  BY KeyFacts DEF IInv, TypeOK
<1> QED
  BY <1>1, <1>2, AgentTicketStep DEF IInv, AgentOrder

(* The lock of a key is what keeps its source's cache from going back.     *)
LEMMA RetainStep ==
    ASSUME IInv, NEW k \in Keys, NEW g \in Gens(k), Retain(k, g)
    PROVE  IInv'
<1>1. k \in ProjectKeys /\ k # AgentRuns /\ AgentRuns \in Keys /\ ProjectKeys \subseteq Keys
  BY KeyFacts DEF Retain
<1>2. /\ task[k][g] = "read" /\ task[k][g] \in Locked /\ "retained" \in Steps
      /\ Proceed(k, g, "retained", work[k][g]) /\ cache' = [cache EXCEPT ![k] = work[k][g].version]
      /\ UNCHANGED <<world, generation, acceptVars, store>>
  BY DEF Retain, Locked, Steps
<1>3. /\ work[k][g] \in Half /\ work[k][g] # None
      /\ cache[k] \in Nat /\ world[k] \in Nat /\ work[k][g].version \in Nat
      /\ cache[k] <= work[k][g].version /\ work[k][g].version <= world[k]
      /\ observed[k] # None => observed[k] \in Half /\ observed[k].version <= cache[k]
  <2>1. work[k][g] \in Half
    <3>1. work[k][g] \in Half \cup {None}
      BY <1>1 DEF IInv, TypeOK
    <3> QED
      BY <1>1, <1>2, <3>1 DEF IInv, WorkOrder
  <2> QED
    BY <1>1, <1>2, <2>1 DEF IInv, TypeOK, WorkOrder, SourceOrder, Half
<1>4. /\ task'[k][g] = "retained" /\ work'[k][g] = work[k][g]
      /\ \A l \in Keys : \A h \in Gens(l) : l # k \/ h # g =>
           task'[l][h] = task[l][h] /\ work'[l][h] = work[l][h]
  BY <1>2, ProceedFacts DEF IInv
<1>5. /\ cache' \in [ProjectKeys -> Nat] /\ cache'[k] = work[k][g].version
      /\ \A l \in ProjectKeys : l # k => cache'[l] = cache[l]
  BY <1>1, <1>2, <1>3 DEF IInv, TypeOK
<1>6. TypeOK'
  <2>1. TicketTypes'
    BY <1>2, <1>3, KeyFacts, ProceedTypes DEF IInv, Retain, Scratch
  <2> QED
    BY <1>2, <1>5, <2>1 DEF IInv, TypeOK, TicketTypes, Scratch, acceptVars
<1>7. OneLocked'
  BY <1>2, OneLockedStep DEF IInv
<1>8. SourceOrder'
  <2> SUFFICES ASSUME NEW l \in ProjectKeys
               PROVE  /\ cache'[l] <= world[l]
                      /\ observed[l] # None => observed[l].version <= cache'[l]
    BY <1>2 DEF SourceOrder, acceptVars
  <2>1. CASE l = k
    BY <1>3, <1>5, <2>1 DEF Half
  <2>2. CASE l # k
    BY <1>5, <2>2 DEF IInv, SourceOrder
  <2> QED
    BY <2>1, <2>2
<1>9. WorkOrder'
  <2> SUFFICES ASSUME NEW l \in ProjectKeys, NEW h \in Gens(l)
               PROVE  /\ task'[l][h] = "observing" => work'[l][h] = observed[l]
                      /\ task'[l][h] = "read" =>
                           /\ work'[l][h] # None
                           /\ cache'[l] <= work'[l][h].version
                           /\ work'[l][h].version <= world[l]
                      /\ task'[l][h] = "retained" =>
                           /\ work'[l][h] # None
                           /\ work'[l][h].version <= cache'[l]
                           /\ observed[l] # None =>
                                observed[l].version <= work'[l][h].version
    BY <1>2 DEF WorkOrder, Gens, acceptVars
  <2>1. CASE l = k /\ h = g
    BY <1>3, <1>4, <1>5, <2>1 DEF Half
  <2>2. CASE l = k /\ h # g
    <3>1. task[l][h] \notin Locked /\ task'[l][h] = task[l][h]
      BY <1>1, <1>2, <1>4, <2>2 DEF IInv, OneLocked
    <3> QED
      BY <3>1 DEF Locked
  <2>3. CASE l # k
    BY <1>1, <1>4, <1>5, <2>3 DEF IInv, WorkOrder
  <2> QED
    BY <2>1, <2>2, <2>3
<1>10. AgentOrder'
  <2>1. \A h \in Gens(AgentRuns) : /\ task'[AgentRuns][h] = task[AgentRuns][h]
                                   /\ work'[AgentRuns][h] = work[AgentRuns][h]
    BY <1>1, <1>4, KeyFacts
  <2> QED
    BY <1>2, <2>1 DEF IInv, AgentOrder, NoOlder, Gens, acceptVars
<1>11. Composed' /\ StoreOrder' /\ AgentBindsPublished'
  BY <1>2 DEF IInv, Composed, Compose, StoreOrder, AgentBindsPublished, NoOlder, acceptVars
<1> QED
  BY <1>6, <1>7, <1>8, <1>9, <1>10, <1>11 DEF IInv

LEMMA AcceptAgentsStep ==
    ASSUME IInv, NEW g \in Gens(AgentRuns), AcceptAgents(g)
    PROVE  IInv'
<1>1. AgentRuns \in Keys /\ AgentRuns \notin ProjectKeys /\ ProjectKeys \subseteq Keys
  BY KeyFacts
<1>2. /\ task[AgentRuns][g] = "retained" /\ task[AgentRuns][g] \in Locked
      /\ "done" \in Steps /\ "done" \notin Locked
      /\ Proceed(AgentRuns, g, "done", None)
      /\ accepted' = [accepted EXCEPT ![AgentRuns] = g]
      /\ agent' = work[AgentRuns][g] /\ agentPending' = TRUE
      /\ UNCHANGED <<sourceVars, generation, observed, composed, pending, store>>
  BY DEF AcceptAgents, AcceptTicket, Locked, Steps
<1>3. /\ work[AgentRuns][g] \in Base /\ work[AgentRuns][g] # None
      /\ \A p \in Projects : /\ NoOlder(composed[p], work[AgentRuns][g][p])
                             /\ agent # None => NoOlder(work[AgentRuns][g][p], agent[p])
  <2>1. work[AgentRuns][g] \in Base \cup {None}
    BY <1>1 DEF IInv, TypeOK
  <2> QED
    BY <1>2, <2>1 DEF IInv, AgentOrder
<1>4. /\ task'[AgentRuns][g] = "done"
      /\ \A l \in Keys : \A h \in Gens(l) : l # AgentRuns \/ h # g =>
           task'[l][h] = task[l][h] /\ work'[l][h] = work[l][h]
  BY <1>1, <1>2, ProceedFacts DEF IInv
<1>5. TypeOK'
  <2>1. TicketTypes'
    BY <1>1, <1>2, ProceedTypes DEF IInv, Scratch
  <2>2. accepted' \in [Keys -> Nat]
    BY <1>1, <1>2, GenerationFacts DEF IInv, TypeOK
  <2> QED
    BY <1>2, <1>3, <2>1, <2>2 DEF IInv, TypeOK, TicketTypes, Scratch, sourceVars
<1>6. OneLocked'
  BY <1>1, <1>2, OneLockedStep DEF IInv
<1>7. SourceOrder' /\ Composed' /\ StoreOrder' /\ AgentBindsPublished'
  <2>1. SourceOrder'
    BY <1>2 DEF IInv, SourceOrder, sourceVars
  <2>2. Composed'
    BY <1>2 DEF IInv, Composed, Compose
  <2>3. StoreOrder' /\ AgentBindsPublished'
    BY <1>2 DEF IInv, StoreOrder, AgentBindsPublished, NoOlder
  <2> QED
    BY <2>1, <2>2, <2>3
<1>8. WorkOrder'
  <2>1. \A l \in ProjectKeys : \A h \in Gens(l) :
          task'[l][h] = task[l][h] /\ work'[l][h] = work[l][h]
    BY <1>1, <1>4
  <2> QED
    BY <1>2, <2>1 DEF IInv, WorkOrder, Gens, sourceVars
<1>9. AgentOrder'
  <2>1. \A h \in Gens(AgentRuns) : task'[AgentRuns][h] \notin Locked
    BY <1>1, <1>2, <1>4 DEF IInv, OneLocked
  <2>2. store.agent # None => \A p \in Projects : NoOlder(agent'[p], store.agent[p])
    <3> SUFFICES ASSUME store.agent # None, NEW p \in Projects
                 PROVE  NoOlder(work[AgentRuns][g][p], store.agent[p])
      BY <1>2
    <3>1. agent # None /\ NoOlder(agent[p], store.agent[p])
      BY DEF IInv, AgentOrder
    <3>2. /\ work[AgentRuns][g][p] \in Composition \cup {None}
          /\ agent[p] \in Composition \cup {None}
          /\ store.agent[p] \in Composition \cup {None}
      BY <1>3, <3>1 DEF IInv, TypeOK, Base
    <3> QED
      BY <1>3, <3>1, <3>2, NoOlderTransitive
  <2> QED
    BY <1>2, <1>3, <2>1, <2>2 DEF AgentOrder, NoOlder, Gens
<1> QED
  BY <1>5, <1>6, <1>7, <1>8, <1>9 DEF IInv

(* Accepting a half composes a Project that is nowhere older.              *)
LEMMA AcceptStep ==
    ASSUME IInv, NEW k \in Keys, NEW g \in Gens(k), Accept(k, g)
    PROVE  IInv'
<1> DEFINE q == k[1]
           half == work[k][g]
           c == Compose(q, observed')
<1>1. /\ k \in ProjectKeys /\ k # AgentRuns /\ q \in Projects
      /\ AgentRuns \in Keys /\ ProjectKeys \subseteq Keys
  BY KeyFacts DEF Accept
<1>2. /\ task[k][g] = "retained" /\ task[k][g] \in Locked
      /\ "done" \in Steps /\ "done" \notin Locked
      /\ Proceed(k, g, "done", None) /\ accepted' = [accepted EXCEPT ![k] = g]
      /\ observed' = [observed EXCEPT ![k] = half]
      /\ composed' = [composed EXCEPT ![q] = IF c = None THEN composed[q] ELSE c]
      /\ pending' = IF c = None THEN pending ELSE pending \cup {q}
      /\ UNCHANGED <<world, cache, generation, agent, agentPending, store>>
  BY DEF Accept, AcceptTicket, Locked, Steps, sourceVars
<1>3. /\ half \in Half /\ half.version \in Nat /\ half.version <= cache[k]
      /\ observed[k] # None => observed[k].version <= half.version
  <2>1. half \in Half
    <3>1. half \in Half \cup {None}
      BY <1>1 DEF IInv, TypeOK
    <3> QED
      BY <1>1, <1>2, <3>1 DEF IInv, WorkOrder
  <2> QED
    BY <1>1, <1>2, <2>1 DEF IInv, WorkOrder, Half
<1>4. /\ task'[k][g] = "done"
      /\ \A l \in Keys : \A h \in Gens(l) : l # k \/ h # g =>
           task'[l][h] = task[l][h] /\ work'[l][h] = work[l][h]
  BY <1>2, ProceedFacts DEF IInv
<1>5. /\ observed \in [ProjectKeys -> Half \cup {None}]
      /\ observed' \in [ProjectKeys -> Half \cup {None}]
      /\ observed'[k] = half
      /\ \A l \in ProjectKeys : l # k => observed'[l] = observed[l]
  BY <1>1, <1>2, <1>3 DEF IInv, TypeOK
<1>6. \A l \in ProjectKeys : observed[l] # None =>
          observed'[l] # None /\ observed[l].version <= observed'[l].version
  <2> SUFFICES ASSUME NEW l \in ProjectKeys, observed[l] # None
               PROVE  observed'[l] # None /\ observed[l].version <= observed'[l].version
    OBVIOUS
  <2>1. CASE l = k
    BY <1>3, <1>5, <2>1, NoneAssumption
  <2>2. CASE l # k
    BY <1>5, <2>2 DEF Half
  <2> QED
    BY <2>1, <2>2
<1>7. \A p \in Projects : /\ Compose(p, observed') \in Composition \cup {None}
                         /\ NoOlder(Compose(p, observed'), Compose(p, observed))
  BY <1>5, <1>6, ComposeType, ComposeMonotone
<1>8. /\ \A p \in Projects : composed[p] = Compose(p, observed)
      /\ composed \in Base
  BY DEF IInv, Composed, TypeOK
<1>9. \A p \in Projects : p # q => Compose(p, observed') = Compose(p, observed)
  <2> SUFFICES ASSUME NEW p \in Projects, p # q
               PROVE  Compose(p, observed') = Compose(p, observed)
    OBVIOUS
  <2>1. \A x \in Parts : observed'[<<p, x>>] = observed[<<p, x>>]
    <3> SUFFICES ASSUME NEW x \in Parts PROVE observed'[<<p, x>>] = observed[<<p, x>>]
      OBVIOUS
    <3>1. <<p, x>> # k
      OBVIOUS
    <3> QED
      BY <1>5, <3>1, KeyFacts
  <2> QED
    BY <2>1 DEF Compose
<1>10. \A p \in Projects : composed'[p] = Compose(p, observed')
  <2> SUFFICES ASSUME NEW p \in Projects PROVE composed'[p] = Compose(p, observed')
    OBVIOUS
  <2>1. CASE p # q
    BY <1>2, <1>8, <1>9, <2>1 DEF Base
  <2>2. CASE p = q
    <3>1. c = None => composed[q] = None
      BY <1>1, <1>7, <1>8 DEF NoOlder
    <3>2. composed'[q] = IF c = None THEN composed[q] ELSE c
      BY <1>1, <1>2, <1>8 DEF Base
    <3> QED
      BY <2>2, <3>1, <3>2
  <2> QED
    BY <2>1, <2>2
<1>11. composed' \in Base
  BY <1>1, <1>2, <1>7, <1>8 DEF Base
<1>12. \A p \in Projects : NoOlder(composed'[p], composed[p])
  BY <1>7, <1>8, <1>10
<1>13. TypeOK'
  <2>1. TicketTypes'
    BY <1>2, ProceedTypes DEF IInv, Scratch
  <2>2. accepted' \in [Keys -> Nat]
    BY <1>2, GenerationFacts DEF IInv, TypeOK
  <2>3. pending' \subseteq {p \in Projects : composed'[p] # None}
    <3> SUFFICES ASSUME NEW p \in pending'
                 PROVE  p \in Projects /\ composed'[p] # None
      OBVIOUS
    <3>1. CASE p \in pending
      BY <1>12, <3>1 DEF IInv, TypeOK, NoOlder
    <3>2. CASE p \notin pending
      BY <1>1, <1>2, <1>10, <3>2
    <3> QED
      BY <3>1, <3>2
  <2> QED
    BY <1>2, <1>5, <1>11, <2>1, <2>2, <2>3 DEF IInv, TypeOK, TicketTypes, Scratch
<1>14. OneLocked'
  BY <1>2, OneLockedStep DEF IInv
<1>15. SourceOrder'
  <2> SUFFICES ASSUME NEW l \in ProjectKeys, observed'[l] # None
               PROVE  observed'[l].version <= cache[l]
    BY <1>2 DEF IInv, SourceOrder
  <2>1. CASE l = k
    BY <1>3, <1>5, <2>1
  <2>2. CASE l # k
    BY <1>5, <2>2 DEF IInv, SourceOrder
  <2> QED
    BY <2>1, <2>2
<1>16. WorkOrder'
  <2> SUFFICES ASSUME NEW l \in ProjectKeys, NEW h \in Gens(l)
               PROVE  /\ task'[l][h] = "observing" => work'[l][h] = observed'[l]
                      /\ task'[l][h] = "read" =>
                           /\ work'[l][h] # None
                           /\ cache[l] <= work'[l][h].version
                           /\ work'[l][h].version <= world[l]
                      /\ task'[l][h] = "retained" =>
                           /\ work'[l][h] # None
                           /\ work'[l][h].version <= cache[l]
                           /\ observed'[l] # None =>
                                observed'[l].version <= work'[l][h].version
    BY <1>2 DEF WorkOrder, Gens
  <2>1. CASE l = k
    <3>1. task'[l][h] \notin Locked
      BY <1>1, <1>2, <1>4, <2>1 DEF IInv, OneLocked
    <3> QED
      BY <3>1 DEF Locked
  <2>2. CASE l # k
    BY <1>1, <1>4, <1>5, <2>2 DEF IInv, WorkOrder
  <2> QED
    BY <2>1, <2>2
<1>17. AgentOrder'
  <2>1. ASSUME NEW a \in Base \cup {None}, NEW p \in Projects, a # None,
               NoOlder(composed[p], a[p])
        PROVE  NoOlder(composed'[p], a[p])
    BY <1>8, <1>11, <1>12, <2>1, NoOlderTransitive DEF Base
  <2>2. ASSUME NEW h \in Gens(AgentRuns), task'[AgentRuns][h] \in Locked
        PROVE  /\ work'[AgentRuns][h] # None
               /\ \A p \in Projects :
                    /\ NoOlder(composed'[p], work'[AgentRuns][h][p])
                    /\ agent # None => NoOlder(work'[AgentRuns][h][p], agent[p])
    <3>1. /\ task[AgentRuns][h] \in Locked
          /\ work'[AgentRuns][h] = work[AgentRuns][h]
      BY <1>1, <1>4, <2>2
    <3>2. work[AgentRuns][h] \in Base \cup {None}
      BY <1>1 DEF IInv, TypeOK
    <3> QED
      BY <2>1, <3>1, <3>2 DEF IInv, AgentOrder
  <2>3. agent # None => \A p \in Projects : NoOlder(composed'[p], agent[p])
    BY <2>1 DEF IInv, TypeOK, AgentOrder
  <2> QED
    BY <1>2, <2>2, <2>3 DEF IInv, AgentOrder, Gens, NoOlder
<1>18. StoreOrder'
  <2>1. ASSUME NEW p \in Projects PROVE NoOlder(composed'[p], store.projects[p])
    <3>1. store.projects[p] \in Composition \cup {None}
      BY DEF IInv, TypeOK, Base
    <3> QED
      BY <1>8, <1>11, <1>12, <2>1, <3>1, NoOlderTransitive DEF IInv, StoreOrder, Base
  <2>2. ASSUME NEW p \in Projects \ pending' PROVE store.projects[p] = composed'[p]
    <3>1. p \notin pending /\ composed'[p] = composed[p]
      BY <1>2, <1>8, <2>2 DEF Base
    <3> QED
      BY <2>2, <3>1 DEF IInv, StoreOrder
  <2> QED
    BY <1>2, <2>1, <2>2 DEF IInv, StoreOrder, NoOlder
<1>19. AgentBindsPublished'
  BY <1>2 DEF IInv, AgentBindsPublished, NoOlder
<1> QED
  BY <1>10, <1>13, <1>14, <1>15, <1>16, <1>17, <1>18, <1>19 DEF IInv, Composed

(* New tickets hold no lock and nothing read.                              *)
LEMMA RequestStep ==
    ASSUME IInv, NEW K \in SUBSET Keys, Request(K)
    PROVE  IInv'
<1>1. UNCHANGED <<world, cache, work, accepted, observed, composed, pending, agent,
                  agentPending, store>>
  BY DEF Request, sourceVars, acceptVars
<1>2. ASSUME NEW k \in Keys
      PROVE  /\ generation'[k] \in 0 .. MaxGen[k[2]]
             /\ task'[k] \in [Gens(k) -> Steps]
             /\ \A g \in Gens(k) : task'[k][g] = task[k][g] \/ task'[k][g] = "queued"
  <2>1. /\ generation[k] \in 0 .. MaxGen[k[2]] /\ MaxGen[k[2]] \in Nat
        /\ task[k] \in [Gens(k) -> Steps] /\ "queued" \in Steps
    BY <1>2, GenerationFacts DEF IInv, TypeOK, Steps
  <2>2. CASE k \in K
    <3>1. /\ generation'[k] = generation[k] + 1 /\ generation[k] < MaxGen[k[2]]
          /\ task'[k] = [task[k] EXCEPT ![generation[k] + 1] = "queued"]
      BY <2>2 DEF Request, Requested
    <3>2. generation'[k] \in 0 .. MaxGen[k[2]]
      BY <2>1, <3>1
    <3>3. task'[k] \in [Gens(k) -> Steps]
      BY <2>1, <3>1
    <3>4. \A g \in Gens(k) : task'[k][g] = task[k][g] \/ task'[k][g] = "queued"
      BY <2>1, <3>1
    <3> QED
      BY <3>2, <3>3, <3>4
  <2>3. CASE k \notin K
    <3>1. generation'[k] = generation[k] /\ task'[k] = task[k]
      BY <2>3 DEF Request, Requested
    <3> QED
      BY <2>1, <3>1
  <2> QED
    BY <2>2, <2>3
<1>3. DOMAIN generation' = Keys /\ DOMAIN task' = Keys
  BY DEF Request, Requested
<1>4. TypeOK'
  BY <1>1, <1>2, <1>3 DEF IInv, TypeOK
<1>5. OneLocked'
  BY <1>2 DEF IInv, OneLocked, Locked, Gens
<1>6. SourceOrder' /\ StoreOrder' /\ AgentBindsPublished'
  BY <1>1 DEF IInv, SourceOrder, StoreOrder, AgentBindsPublished, NoOlder
<1>7. Composed'
  BY <1>1 DEF IInv, Composed, Compose
<1>8. WorkOrder'
  BY <1>1, <1>2, KeyFacts DEF IInv, WorkOrder, Gens
<1>9. AgentOrder'
  BY <1>1, <1>2, KeyFacts DEF IInv, AgentOrder, Gens, Locked, NoOlder
<1> QED
  BY <1>4, <1>5, <1>6, <1>7, <1>8, <1>9 DEF IInv

LEMMA ChangeStep ==
    ASSUME IInv, NEW k \in ProjectKeys, Change(k)
    PROVE  IInv'
<1>1. UNCHANGED <<cache, generation, task, work, accepted, observed, composed, pending,
                  agent, agentPending, store>>
  BY DEF Change, acceptVars
<1>2. /\ world' \in [ProjectKeys -> Nat]
      /\ \A l \in ProjectKeys : world[l] \in Nat /\ world[l] <= world'[l]
  BY DEF Change, IInv, TypeOK
<1>3. TypeOK'
  BY <1>1, <1>2 DEF IInv, TypeOK
<1>4. SourceOrder'
  BY <1>1, <1>2 DEF IInv, TypeOK, SourceOrder
<1>5. WorkOrder'
  <2> SUFFICES ASSUME NEW l \in ProjectKeys, NEW h \in Gens(l), task[l][h] = "read"
               PROVE  work[l][h].version <= world'[l]
    BY <1>1 DEF IInv, WorkOrder, Gens
  <2>1. work[l][h] \in Half /\ work[l][h].version <= world[l]
    <3>1. work[l][h] \in Half \cup {None}
      BY KeyFacts DEF IInv, TypeOK
    <3> QED
      BY <3>1 DEF IInv, WorkOrder
  <2> QED
    BY <1>2, <2>1 DEF Half
<1>6. OneLocked' /\ AgentOrder' /\ StoreOrder' /\ AgentBindsPublished'
  BY <1>1 DEF IInv, OneLocked, AgentOrder, StoreOrder, AgentBindsPublished, NoOlder, Gens
<1>7. Composed'
  BY <1>1 DEF IInv, Composed, Compose
<1> QED
  BY <1>3, <1>4, <1>5, <1>6, <1>7 DEF IInv

(* After publishing, the store holds what was composed and accepted.       *)
LEMMA PublishStep ==
    ASSUME IInv, Publish
    PROVE  /\ IInv'
           /\ store'.agent = agent
           /\ \A p \in Projects : store'.projects[p] = composed[p]
<1>1. UNCHANGED <<world, cache, generation, accepted, task, work, observed, composed, agent>>
  BY DEF Publish, sourceVars
<1>2. /\ pending' = {} /\ agentPending' = FALSE
      /\ store' = [projects |-> [p \in Projects |-> IF p \in pending THEN composed[p]
                                                    ELSE store.projects[p]],
                   agent |-> IF agentPending THEN agent ELSE store.agent]
  BY DEF Publish, Published
<1>3. store'.agent = agent /\ \A p \in Projects : store'.projects[p] = composed[p]
  BY <1>2 DEF IInv, StoreOrder, TypeOK
<1>4. TypeOK'
  <2>1. store'.projects \in Base /\ store'.agent \in Base \cup {None}
    BY <1>2, <1>3 DEF IInv, TypeOK, Base
  <2>2. store' \in [projects : Base, agent : Base \cup {None}]
    BY <1>2, <2>1
  <2> QED
    BY <1>1, <1>2, <2>2 DEF IInv, TypeOK
<1>5. \A p \in Projects : composed[p] \in Composition \cup {None}
  BY DEF IInv, TypeOK, Base
<1>6. AgentBindsPublished' /\ StoreOrder'
  BY <1>1, <1>2, <1>3, <1>5, NoOlderReflexive
     DEF IInv, AgentOrder, AgentBindsPublished, StoreOrder
<1>7. AgentOrder'
  <2>1. agent # None => \A p \in Projects : agent[p] \in Composition \cup {None}
    BY DEF IInv, TypeOK, Base
  <2> QED
    BY <1>1, <1>3, <2>1, NoOlderReflexive DEF IInv, AgentOrder, NoOlder, Gens
<1>8. OneLocked' /\ SourceOrder' /\ WorkOrder'
  BY <1>1 DEF IInv, OneLocked, SourceOrder, WorkOrder, Gens
<1>9. Composed'
  BY <1>1 DEF IInv, Composed, Compose
<1> QED
  BY <1>3, <1>4, <1>6, <1>7, <1>8, <1>9 DEF IInv

LEMMA StutterStep == IInv /\ UNCHANGED vars => IInv'
<1> SUFFICES ASSUME IInv, UNCHANGED vars PROVE IInv'
  OBVIOUS
<1> USE DEF vars, sourceVars, acceptVars
<1>1. TypeOK'
  BY DEF IInv, TypeOK
<1>2. OneLocked' /\ SourceOrder' /\ WorkOrder'
  BY DEF IInv, OneLocked, SourceOrder, WorkOrder, Gens
<1>3. AgentOrder' /\ StoreOrder' /\ AgentBindsPublished'
  BY DEF IInv, AgentOrder, StoreOrder, AgentBindsPublished, NoOlder, Gens
<1>4. Composed'
  BY DEF IInv, Composed, Compose
<1> QED
  BY <1>1, <1>2, <1>3, <1>4 DEF IInv

LEMMA WorkerStep == IInv /\ Worker => IInv' /\ UNCHANGED store
<1> SUFFICES ASSUME IInv, Worker PROVE IInv' /\ UNCHANGED store
  OBVIOUS
<1>1. CASE \E k \in Keys : \E g \in Gens(k) : Ticket(k, g)
  <2>1. PICK k \in Keys : \E g \in Gens(k) : Ticket(k, g)
    BY <1>1
  <2>2. PICK g \in Gens(k) : Ticket(k, g)
    BY <2>1
  <2>3. IInv'
    BY <2>2, SkipStep, StartStep, ReadStep, ReadFailsStep, RetainStep, AcceptStep
       DEF Ticket
  <2>4. UNCHANGED store
    BY <2>2 DEF Ticket, Skip, Start, Read, ReadFails, Retain, Raise, Discard, Accept
  <2> QED
    BY <2>3, <2>4
<1>2. CASE \E g \in Gens(AgentRuns) : ReadAgents(g) \/ AcceptAgents(g)
  BY <1>2, ReadAgentsStep, AcceptAgentsStep DEF ReadAgents, AcceptAgents
<1> QED
  BY <1>1, <1>2 DEF Worker

(* The invariant of the coordinator.                                       *)
THEOREM Invariant == Spec => []IInv
<1>1. IInv /\ [Next]_vars => IInv'
  <2> SUFFICES ASSUME IInv, [Next]_vars PROVE IInv'
    OBVIOUS
  <2> QED
    BY ChangeStep, RequestStep, WorkerStep, PublishStep, StutterStep DEF Next
<1> QED
  BY InitInv, <1>1, PTL DEF Spec

(* Type correctness, for any Projects, parts and number of tickets.        *)
THEOREM TypeCorrect == Spec => []TypeOK
<1>1. IInv => TypeOK
  BY DEF IInv
<1> QED
  BY Invariant, <1>1, PTL

(* The Agent Runs a consumer shows are bound to Projects it shows: no      *)
(* order in which halves and Agent Runs are accepted lets publish() move   *)
(* an observation built on a composition the store was not given.          *)
THEOREM BindingsArePublished == Spec => []AgentBindsPublished
<1>1. IInv => AgentBindsPublished
  BY DEF IInv
<1> QED
  BY Invariant, <1>1, PTL

(* What was accepted is in the store or waits to be published.             *)
THEOREM AcceptedReachesStore == Spec => []NothingAcceptedIsLost
<1>1. IInv => NothingAcceptedIsLost
  BY DEF IInv, StoreOrder, Composed, NothingAcceptedIsLost
<1> QED
  BY Invariant, <1>1, PTL

(* Whatever fails, arrives late or is retained by a source, what is shown  *)
(* never goes back.                                                        *)
THEOREM Monotone == Spec => PublishedNeverRegresses
<1> DEFINE Forward ==
      \A p \in Projects :
         /\ NoOlder(store'.projects[p], store.projects[p])
         /\ store.agent # None =>
              store'.agent # None /\ NoOlder(store'.agent[p], store.agent[p])
<1>1. ASSUME IInv, UNCHANGED store PROVE Forward
  <2>1. \A p \in Projects :
          /\ store.projects[p] \in Composition \cup {None}
          /\ store.agent # None => store.agent[p] \in Composition \cup {None}
    BY <1>1 DEF IInv, TypeOK, Base
  <2> QED
    BY <1>1, <2>1, NoOlderReflexive
<1>2. ASSUME IInv, [Next]_vars PROVE [Forward]_vars
  <2>1. CASE Publish
    BY <1>2, <2>1, PublishStep DEF IInv, StoreOrder, AgentOrder
  <2>2. CASE ~Publish
    <3>1. UNCHANGED store
      BY <1>2, <2>2, WorkerStep DEF Next, Change, Request, vars
    <3> QED
      BY <1>1, <1>2, <3>1
  <2> QED
    BY <2>1, <2>2
<1> QED
  BY Invariant, <1>2, PTL DEF Spec, PublishedNeverRegresses

-----------------------------------------------------------------------------
(* The observation runner.                                                 *)

Idle == {"none", "done"}

\* A posted outcome is of the key's ticket in flight, which has ended.
Posts ==
    \A m \in inbox :
        /\ inFlight[m.key] = m.generation /\ m.generation # 0
        /\ task[m.key][m.generation] = "done"
        /\ \A n \in inbox : n.key = m.key => n = m

\* The gate of one key.
Gate(k) ==
    /\ rerun[k] # None => inFlight[k] # 0
    /\ inFlight[k] # 0 =>
         /\ Current(k, inFlight[k])
         /\ \/ task[k][inFlight[k]] \notin Idle
            \/ \E m \in inbox : m.key = k /\ m.generation = inFlight[k]
    /\ \A g \in Gens(k) : g # inFlight[k] => task[k][g] \in Idle

Indicated == indicator.timer \/ indicator.visible => InFlight # {}

\* What RunnerTypeOK says of the runner's own variables.
OwnTypes ==
    /\ inFlight \in [Keys -> Nat]
    /\ rerun \in [Keys -> Triggers \cup {None}]
    /\ trigger \in [Keys -> Triggers \cup {None}]
    /\ \A k \in InFlight : trigger[k] # None
    /\ errors \subseteq Keys /\ inbox \subseteq Messages
    /\ indicator \in [timer : BOOLEAN, visible : BOOLEAN]
    /\ asks \in 0 .. MaxAsks /\ asked \subseteq Keys

RInv == IInv /\ OwnTypes /\ Posts /\ (\A k \in Keys : Gate(k)) /\ Indicated

\* The keys in R have been released: a plan is what the handler will carry.
Plans == [busy : SUBSET Keys, rerun : [Keys -> Triggers \cup {None}],
          wanted : SUBSET Keys, trigger : [Keys -> Triggers \cup {None}],
          timer : BOOLEAN, visible : BOOLEAN]

Sound(plan, R) ==
    /\ plan \in Plans
    /\ plan.busy = (InFlight \ R) \cup plan.wanted
    /\ plan.wanted \cap (InFlight \ R) = {}
    /\ \A l \in plan.busy : plan.trigger[l] # None
    /\ \A l \in Keys : plan.rerun[l] # None => l \in plan.busy \/ l \in R

\* The plan leaves the indicator on only for something to wait for.
Waits(plan) ==
    plan.timer \/ plan.visible =>
        plan.busy # {} \/ \E l \in Keys : plan.rerun[l] # None

-----------------------------------------------------------------------------
(* Initially every gate is open.                                           *)
LEMMA RunnerInitInv == RunnerInit => RInv
<1> SUFFICES ASSUME RunnerInit PROVE RInv
  OBVIOUS
<1>1. IInv
  BY InitInv DEF RunnerInit
<1>2. OwnTypes
  BY RunnerAssumption DEF RunnerInit, OwnTypes, InFlight
<1>3. Posts /\ Indicated
  BY DEF RunnerInit, Posts, Indicated
<1>4. \A k \in Keys : Gate(k)
  BY DEF RunnerInit, Init, Gate, Idle
<1> QED
  BY <1>1, <1>2, <1>3, <1>4 DEF RInv

(* A handler starts from what is in flight.                                *)
LEMMA PlanSound ==
    ASSUME RInv PROVE Sound(Plan, {}) /\ Waits(Plan)
<1>1. Plan \in Plans
  BY DEF Plan, Plans, RInv, OwnTypes, InFlight
<1>2. Sound(Plan, {})
  BY <1>1 DEF Sound, Plan, RInv, OwnTypes, Gate, InFlight
<1> QED
  BY <1>2 DEF Plan, Waits, RInv, Indicated

(* Releasing the key in flight leaves the others, and its rerun, as they   *)
(* were.                                                                   *)
LEMMA ReleasedSound ==
    ASSUME RInv, NEW k \in Keys, NEW g, inFlight[k] = g
    PROVE  /\ Sound(Released(Plan, k, g), {k}) /\ Waits(Released(Plan, k, g))
           /\ Released(Plan, k, g).rerun = rerun
<1> DEFINE plan == Released(Plan, k, g)
           more == InFlight \ {k} # {} \/ \E l \in Keys : rerun[l] # None
<1>1. PICK m \in BOOLEAN : m <=> more
  BY ONLY TRUE
<1>2. /\ plan.busy = InFlight \ {k} /\ plan.rerun = rerun /\ plan.wanted = {}
      /\ plan.trigger = trigger
      /\ plan.timer <=> indicator.timer /\ m
      /\ plan.visible <=> indicator.visible /\ m
  BY <1>1 DEF Released, Plan
<1>3. plan \in Plans
  BY <1>1 DEF Released, Plan, Plans, RInv, OwnTypes, InFlight
<1> HIDE DEF plan
<1>4. Sound(plan, {k})
  BY <1>2, <1>3 DEF Sound, RInv, OwnTypes, Gate, InFlight
<1>5. Waits(plan)
  BY <1>1, <1>2 DEF Waits
<1> QED
  BY <1>2, <1>4, <1>5 DEF plan

(* Scheduling keys requests those not busy and queues what is.             *)
LEMMA ScheduledSound ==
    ASSUME NEW plan, NEW R, Sound(plan, R), NEW K \in SUBSET Keys, NEW why \in Triggers,
           NEW again \in BOOLEAN
    PROVE  /\ Sound(Scheduled(plan, K, why, again), R)
           /\ K \subseteq Scheduled(plan, K, why, again).busy
           /\ plan.busy \subseteq Scheduled(plan, K, why, again).busy
           /\ \A l \in Keys : plan.rerun[l] # None =>
                Scheduled(plan, K, why, again).rerun[l] # None
           /\ Waits(plan) \/ K # {} => Waits(Scheduled(plan, K, why, again))
<1> DEFINE coalesced == IF again THEN K \cap plan.busy ELSE {}
           next == Scheduled(plan, K, why, again)
<1>1. /\ plan.busy \subseteq Keys /\ plan.wanted \subseteq Keys
      /\ plan.rerun \in [Keys -> Triggers \cup {None}]
      /\ plan.trigger \in [Keys -> Triggers \cup {None}]
      /\ plan.timer \in BOOLEAN /\ plan.visible \in BOOLEAN
      /\ DOMAIN plan = {"busy", "rerun", "wanted", "trigger", "timer", "visible"}
  BY DEF Sound, Plans
<1>2. PICK t, v \in BOOLEAN : /\ t <=> plan.timer \/ plan.busy \cup K # {}
                             /\ v <=> plan.visible \/ coalesced # {}
  BY ONLY TRUE
<1>3. next \in Plans
  BY <1>1, <1>2 DEF Scheduled, Sound, Plans
<1>4. /\ next.busy = plan.busy \cup K
      /\ next.wanted = plan.wanted \cup (K \ plan.busy)
      /\ \A l \in Keys : next.rerun[l] = IF l \in coalesced THEN why ELSE plan.rerun[l]
      /\ \A l \in Keys : next.trigger[l] = IF l \in K \ plan.busy THEN why
                                           ELSE plan.trigger[l]
      /\ next.timer \/ next.visible =>
           plan.timer \/ plan.visible \/ plan.busy # {} \/ K # {}
  BY <1>1, <1>2 DEF Scheduled, Sound, Plans
<1>5. coalesced \subseteq plan.busy
  OBVIOUS
<1> HIDE DEF next, coalesced
<1>6. Sound(next, R)
  <2>1. \A l \in next.busy : next.trigger[l] # None
    BY <1>1, <1>4, RunnerAssumption DEF Sound
  <2>2. \A l \in Keys : next.rerun[l] # None => l \in next.busy \/ l \in R
    BY <1>4, <1>5 DEF Sound
  <2>3. /\ next.busy = (InFlight \ R) \cup next.wanted
        /\ next.wanted \cap (InFlight \ R) = {}
    BY <1>4 DEF Sound
  <2> QED
    BY <1>3, <2>1, <2>2, <2>3 DEF Sound
<1>7. \A l \in Keys : plan.rerun[l] # None => next.rerun[l] # None
  BY <1>4, RunnerAssumption
<1>8. Waits(plan) \/ K # {} => Waits(next)
  BY <1>4, <1>7 DEF Waits
<1> QED
  BY <1>4, <1>6, <1>7, <1>8 DEF next

(* Running the rerun of the released key leaves none queued for an open    *)
(* gate, and the indicator on only for a gate that is not.                 *)
LEMMA RerunSound ==
    ASSUME NEW k \in Keys, NEW plan, Sound(plan, {k}), Waits(plan)
    PROVE  /\ Sound(Rerun(plan, k), {k})
           /\ \A l \in Keys : Rerun(plan, k).rerun[l] # None => l \in Rerun(plan, k).busy
           /\ Waits(Rerun(plan, k))
<1>1. CASE plan.rerun[k] = None
  BY <1>1 DEF Rerun, Sound
<1>2. CASE plan.rerun[k] # None
  <2> DEFINE taken == [plan EXCEPT !.rerun[k] = None]
             why == plan.rerun[k]
             again == why # "timer"
  <2>1. why \in Triggers /\ again \in BOOLEAN
    BY <1>2 DEF Sound, Plans
  <2>2. Sound(taken, {k})
    <3>1. /\ taken.rerun \in [Keys -> Triggers \cup {None}]
          /\ \A l \in Keys : taken.rerun[l] # None => plan.rerun[l] # None
      BY DEF Sound, Plans
    <3>2. /\ taken.busy = plan.busy /\ taken.wanted = plan.wanted
          /\ taken.trigger = plan.trigger /\ taken.timer = plan.timer
          /\ taken.visible = plan.visible
          /\ taken \in Plans
      BY <3>1 DEF Sound, Plans
    <3> QED
      BY <3>1, <3>2 DEF Sound
  <2>3. Rerun(plan, k) = Scheduled(taken, {k}, why, again)
    BY <1>2 DEF Rerun
  <2> HIDE DEF taken, why, again
  <2>4. PICK K \in SUBSET Keys : K = {k}
    OBVIOUS
  <2>5. /\ Sound(Rerun(plan, k), {k}) /\ Waits(Rerun(plan, k))
        /\ k \in Rerun(plan, k).busy
    <3>1. /\ Sound(Scheduled(taken, K, why, again), {k})
          /\ K \subseteq Scheduled(taken, K, why, again).busy
          /\ K # {} => Waits(Scheduled(taken, K, why, again))
      BY <2>1, <2>2, ScheduledSound
    <3> QED
      BY <2>3, <2>4, <3>1
  <2> QED
    BY <2>5 DEF Sound
<1> QED
  BY <1>1, <1>2

-----------------------------------------------------------------------------
(* Requesting keys queues a new ticket of each, and of no other.           *)
LEMMA RequestedFacts ==
    ASSUME TypeOK, NEW K \in SUBSET Keys, Requested(K), NEW k \in Keys
    PROVE  /\ task'[k] \in [Gens(k) -> Steps] /\ generation'[k] \in 0 .. MaxGen[k[2]]
           /\ k \notin K => generation'[k] = generation[k] /\ task'[k] = task[k]
           /\ k \in K => /\ generation'[k] = generation[k] + 1
                         /\ generation'[k] \in Gens(k)
                         /\ task'[k][generation'[k]] = "queued"
                         /\ \A g \in Gens(k) : g # generation'[k] =>
                              task'[k][g] = task[k][g]
<1>1. /\ generation[k] \in 0 .. MaxGen[k[2]] /\ MaxGen[k[2]] \in Nat
      /\ task[k] \in [Gens(k) -> Steps] /\ "queued" \in Steps
  BY GenerationFacts DEF TypeOK, Steps
<1>2. CASE k \notin K
  BY <1>1, <1>2 DEF Requested
<1>3. CASE k \in K
  <2>1. /\ generation'[k] = generation[k] + 1 /\ generation[k] < MaxGen[k[2]]
        /\ task'[k] = [task[k] EXCEPT ![generation[k] + 1] = "queued"]
    BY <1>3 DEF Requested
  <2>2. generation'[k] \in 0 .. MaxGen[k[2]] /\ generation'[k] \in Gens(k)
    BY <1>1, <2>1 DEF Gens
  <2>3. task'[k] = [task[k] EXCEPT ![generation'[k]] = "queued"]
    BY <2>1
  <2> QED
    BY <1>1, <1>3, <2>1, <2>2, <2>3
<1> QED
  BY <1>2, <1>3

\* What a handler may do to the coordinator: request keys, and publish before.
Handled(K) ==
    /\ Requested(K)
    /\ Published \/ UNCHANGED <<pending, agentPending, store>>
    /\ UNCHANGED <<sourceVars, work, accepted, observed, composed, agent>>

(* Publishing and requesting in one handler keep what each keeps alone.    *)
LEMMA HandledStep ==
    ASSUME IInv, NEW K \in SUBSET Keys, Handled(K) PROVE IInv'
<1>1. UNCHANGED <<world, cache, work, accepted, observed, composed, agent>>
  BY DEF Handled, sourceVars
<1>2. ASSUME NEW k \in Keys
      PROVE  /\ generation'[k] \in 0 .. MaxGen[k[2]]
             /\ task'[k] \in [Gens(k) -> Steps]
             /\ \A g \in Gens(k) : task'[k][g] = task[k][g] \/ task'[k][g] = "queued"
  BY RequestedFacts DEF Handled, IInv
<1>3. DOMAIN generation' = Keys /\ DOMAIN task' = Keys
  BY DEF Handled, Requested
<1>4. /\ store'.agent = agent \/ store'.agent = store.agent
      /\ store' \in [projects : Base, agent : Base \cup {None}]
      /\ pending' \subseteq pending /\ agentPending' \in BOOLEAN
      /\ AgentBindsPublished' /\ StoreOrder'
      /\ store'.agent # None =>
           agent # None /\ \A p \in Projects : NoOlder(agent[p], store'.agent[p])
  <2>1. CASE UNCHANGED <<pending, agentPending, store>>
    BY <1>1, <2>1
       DEF IInv, TypeOK, AgentBindsPublished, StoreOrder, AgentOrder, NoOlder
  <2>2. CASE Published
    <3>1. /\ pending' = {} /\ agentPending' = FALSE
          /\ store' = [projects |-> [p \in Projects |-> IF p \in pending THEN composed[p]
                                                        ELSE store.projects[p]],
                       agent |-> IF agentPending THEN agent ELSE store.agent]
      BY <2>2 DEF Published
    <3>2. store'.agent = agent /\ \A p \in Projects : store'.projects[p] = composed[p]
      BY <3>1 DEF IInv, StoreOrder, TypeOK
    <3>3. store' \in [projects : Base, agent : Base \cup {None}]
      <4>1. store'.projects \in Base /\ store'.agent \in Base \cup {None}
        BY <3>1, <3>2 DEF IInv, TypeOK, Base
      <4> QED
        BY <3>1, <4>1
    <3>4. \A p \in Projects : composed[p] \in Composition \cup {None}
      BY DEF IInv, TypeOK, Base
    <3>5. AgentBindsPublished' /\ StoreOrder'
      BY <1>1, <3>1, <3>2, <3>4, NoOlderReflexive
         DEF IInv, AgentOrder, AgentBindsPublished, StoreOrder
    <3>6. agent # None => \A p \in Projects : NoOlder(agent[p], agent[p])
      BY NoOlderReflexive DEF IInv, TypeOK, Base
    <3> QED
      BY <3>1, <3>2, <3>3, <3>5, <3>6
  <2> QED
    BY <2>1, <2>2 DEF Handled
<1>5. TypeOK'
  BY <1>1, <1>2, <1>3, <1>4 DEF IInv, TypeOK
<1>6. OneLocked'
  BY <1>2 DEF IInv, OneLocked, Locked, Gens
<1>7. SourceOrder' /\ Composed'
  BY <1>1 DEF IInv, SourceOrder, Composed, Compose
<1>8. WorkOrder'
  BY <1>1, <1>2, KeyFacts DEF IInv, WorkOrder, Gens
<1>9. AgentOrder'
  BY <1>1, <1>2, <1>4, KeyFacts DEF IInv, AgentOrder, Gens, Locked, NoOlder
<1> QED
  BY <1>4, <1>5, <1>6, <1>7, <1>8, <1>9 DEF IInv

(* Carrying a sound plan out, the released keys' messages handled, leaves  *)
(* every gate as it must be.                                               *)
LEMMA CarryStep ==
    ASSUME RInv, NEW R \in SUBSET Keys, NEW plan, Sound(plan, R), Waits(plan),
           \A l \in Keys : plan.rerun[l] # None => l \in plan.busy,
           \A k \in R : \A g \in Gens(k) : task[k][g] \in Idle,
           inbox' = {m \in inbox : m.key \notin R},
           Carry(plan), Handled(plan.wanted),
           errors' \subseteq Keys, asks' \in 0 .. MaxAsks, asked' \subseteq Keys
    PROVE  RInv'
<1>1. /\ plan \in Plans
      /\ plan.busy = (InFlight \ R) \cup plan.wanted
      /\ plan.wanted \cap (InFlight \ R) = {}
      /\ \A l \in plan.busy : plan.trigger[l] # None
      /\ plan.busy \subseteq Keys /\ plan.wanted \in SUBSET Keys
      /\ plan.rerun \in [Keys -> Triggers \cup {None}]
      /\ plan.trigger \in [Keys -> Triggers \cup {None}]
      /\ plan.timer \in BOOLEAN /\ plan.visible \in BOOLEAN
  BY DEF Sound, Plans
<1>2. IInv'
  BY <1>1, HandledStep DEF RInv
<1>3. /\ Requested(plan.wanted)
      /\ inFlight' = [k \in Keys |-> IF k \in plan.wanted THEN generation[k] + 1
                                     ELSE IF k \in plan.busy THEN inFlight[k] ELSE 0]
      /\ rerun' = plan.rerun /\ trigger' = plan.trigger
      /\ indicator' = [timer |-> plan.timer, visible |-> plan.visible]
  BY DEF Carry
<1>4. \A k \in Keys : /\ inFlight[k] \in Nat /\ generation[k] \in Nat
                      /\ k \in InFlight <=> inFlight[k] # 0
  BY GenerationFacts DEF RInv, OwnTypes, IInv, TypeOK, InFlight
<1>5. \A k \in Keys : /\ inFlight'[k] \in Nat
                      /\ inFlight'[k] # 0 <=> k \in plan.busy
                      /\ k \in plan.wanted => inFlight'[k] = generation[k] + 1
                      /\ k \in plan.busy \ plan.wanted => inFlight'[k] = inFlight[k]
  BY <1>1, <1>3, <1>4
<1>6. InFlight' = plan.busy
  BY <1>1, <1>5 DEF InFlight
<1>7. OwnTypes'
  <2>1. inFlight' \in [Keys -> Nat]
    BY <1>3, <1>5
  <2>2. inbox' \subseteq Messages
    BY DEF RInv, OwnTypes
  <2> QED
    BY <1>1, <1>3, <1>6, <2>1, <2>2 DEF OwnTypes
<1>8. Indicated'
  BY <1>1, <1>3, <1>6 DEF Indicated, Waits
<1>9. \A k \in Keys \ plan.wanted : generation'[k] = generation[k] /\ task'[k] = task[k]
  BY <1>1, <1>3, RequestedFacts DEF RInv, IInv
<1>10. Posts'
  <2> SUFFICES ASSUME NEW m \in inbox'
               PROVE  /\ inFlight'[m.key] = m.generation /\ m.generation # 0
                      /\ task'[m.key][m.generation] = "done"
                      /\ \A n \in inbox' : n.key = m.key => n = m
    BY DEF Posts
  <2>1. m \in inbox /\ m.key \in Keys \ R
    BY DEF RInv, OwnTypes, Messages
  <2>2. m.key \in plan.busy \ plan.wanted
    BY <1>1, <1>4, <2>1 DEF RInv, Posts
  <2> QED
    BY <1>5, <1>9, <2>1, <2>2 DEF RInv, Posts
<1>11. ASSUME NEW k \in Keys PROVE Gate(k)'
  <2>1. k \notin InFlight \ R => \A g \in Gens(k) : task[k][g] \in Idle
    <3>1. CASE k \in R
      BY <3>1
    <3>2. CASE k \notin InFlight
      BY <1>4, <3>2, GenerationFacts DEF RInv, Gate
    <3> QED
      BY <3>1, <3>2
  <2>2. CASE k \in plan.wanted
    <3>1. /\ generation'[k] = generation[k] + 1 /\ generation'[k] \in Gens(k)
          /\ task'[k][generation'[k]] = "queued"
          /\ \A g \in Gens(k) : g # generation'[k] => task'[k][g] = task[k][g]
      BY <1>1, <1>3, <2>2, RequestedFacts DEF RInv, IInv
    <3>2. inFlight'[k] = generation'[k] /\ inFlight'[k] # 0
      BY <1>1, <1>5, <2>2, <3>1
    <3> QED
      BY <1>1, <2>1, <2>2, <3>1, <3>2 DEF Gate, Current, Idle, Gens
  <2>3. CASE k \in plan.busy \ plan.wanted
    <3>1. /\ inFlight'[k] = inFlight[k] /\ inFlight[k] # 0
          /\ generation'[k] = generation[k] /\ task'[k] = task[k]
          /\ k \notin R
      BY <1>1, <1>4, <1>5, <1>9, <2>3
    <3>2. \A m \in inbox : m.key = k => m \in inbox'
      BY <3>1
    <3> QED
      BY <3>1, <3>2 DEF RInv, Gate, Current, Gens
  <2>4. CASE k \notin plan.busy
    <3>1. inFlight'[k] = 0 /\ task'[k] = task[k] /\ rerun'[k] = None
      BY <1>1, <1>3, <1>5, <1>9, <2>4
    <3>2. k \notin InFlight \ R
      BY <1>1, <2>4
    <3> QED
      BY <2>1, <3>1, <3>2 DEF Gate, Gens
  <2> QED
    BY <2>2, <2>3, <2>4
<1> QED
  BY <1>2, <1>7, <1>8, <1>10, <1>11 DEF RInv

-----------------------------------------------------------------------------
LEMMA AskStep ==
    ASSUME RInv, NEW K \in SUBSET Keys, NEW why \in Triggers, Ask(K, why)
    PROVE  RInv'
<1>1. PICK again \in BOOLEAN : again = (why # "timer")
  BY Zenon
<1> DEFINE plan == Scheduled(Plan, K, why, again)
<1>2. /\ Carry(plan)
      /\ UNCHANGED <<sourceVars, work, acceptVars, store, errors, inbox>>
      /\ asks < MaxAsks /\ asks' = asks + 1
      /\ asked' = asked \cup (K \ InFlight) \/ asked' = asked \cup K
  BY <1>1, Zenon DEF Ask
<1>3. Sound(Plan, {}) /\ Waits(Plan)
  BY PlanSound
<1>4. Sound(plan, {}) /\ Waits(plan)
  BY <1>3, ScheduledSound
<1> HIDE DEF plan
<1>5. \A l \in Keys : plan.rerun[l] # None => l \in plan.busy
  BY <1>4 DEF Sound
<1>6. Handled(plan.wanted)
  BY <1>2 DEF Handled, Carry, acceptVars
<1>7. inbox' = {m \in inbox : m.key \notin {}}
  BY <1>2
<1>8. /\ errors' \subseteq Keys /\ asks' \in 0 .. MaxAsks /\ asked' \subseteq Keys
  BY <1>2, RunnerAssumption DEF RInv, OwnTypes
<1> QED
  BY <1>2, <1>4, <1>5, <1>6, <1>7, <1>8, CarryStep

LEMMA ShowRefreshingStep ==
    ASSUME RInv, ShowRefreshing PROVE RInv'
<1>1. UNCHANGED vars
  BY DEF ShowRefreshing
<1>2. UNCHANGED <<inFlight, rerun, trigger, errors, inbox, asks, asked>>
  BY DEF ShowRefreshing
<1>3. UNCHANGED <<generation, task>>
  BY <1>1 DEF vars
<1>4. IInv'
  BY <1>1, StutterStep DEF RInv
<1>5. InFlight' = InFlight
  BY <1>2 DEF InFlight
<1>6. OwnTypes'
  <2>1. indicator' \in [timer : BOOLEAN, visible : BOOLEAN]
    BY DEF ShowRefreshing, RInv, OwnTypes
  <2> QED
    BY <1>2, <1>5, <2>1 DEF RInv, OwnTypes
<1>7. Indicated'
  BY <1>5 DEF ShowRefreshing, RInv, Indicated
<1>8. Posts' /\ \A k \in Keys : Gate(k)'
  BY <1>2, <1>3 DEF RInv, Posts, Gate, Current, Gens
<1> QED
  BY <1>4, <1>6, <1>7, <1>8 DEF RInv

(* Landing an outcome releases its key, follows up what was published, and *)
(* runs the rerun.                                                         *)
LEMMA FinishStep ==
    ASSUME RInv, NEW m \in inbox, Finish(m) PROVE RInv'
<1> DEFINE k == m.key
           open == Released(Plan, k, m.generation)
<1>1. /\ k \in Keys /\ inFlight[k] = m.generation
      /\ trigger[k] \in Triggers
  BY DEF RInv, OwnTypes, Posts, Messages, InFlight
<1>2. Sound(open, {k}) /\ Waits(open)
  BY <1>1, ReleasedSound
<1>3. \A l \in {k} : \A g \in Gens(l) : task[l][g] \in Idle
  BY <1>1 DEF RInv, Gate, Posts, Idle
<1>4. inbox' = {n \in inbox : n.key \notin {k}}
  BY DEF Finish, RInv, Posts
<1>5. asks' \in 0 .. MaxAsks
  BY DEF Finish, RInv, OwnTypes
<1>6. UNCHANGED <<sourceVars, work, accepted, observed, composed, agent>>
  BY DEF Finish
<1> HIDE DEF open
<1>7. ASSUME NEW plan, Sound(plan, {k}), Waits(plan), Carry(Rerun(plan, k)),
             Published \/ UNCHANGED <<pending, agentPending, store>>,
             errors' \subseteq Keys, asked' \subseteq Keys
      PROVE  RInv'
  <2>1. PICK next : next = Rerun(plan, k)
    OBVIOUS
  <2>2. /\ Sound(next, {k}) /\ Waits(next)
        /\ \A l \in Keys : next.rerun[l] # None => l \in next.busy
    BY <1>1, <1>7, <2>1, RerunSound
  <2>3. Carry(next)
    BY <1>7, <2>1
  <2>4. Handled(next.wanted)
    BY <1>6, <1>7, <2>3 DEF Handled, Carry
  <2>5. PICK R \in SUBSET Keys : R = {k}
    BY <1>1
  <2> QED
    BY <1>3, <1>4, <1>5, <1>7, <2>2, <2>3, <2>4, <2>5, CarryStep
<1>8. CASE FinishAccepted(m)
  <2>1. PICK followed : followed = Scheduled(open, FollowUps, trigger[k], TRUE)
    OBVIOUS
  <2>2. /\ Published /\ errors' = errors \ {k} /\ asked' = asked \cup FollowUps
        /\ Carry(Rerun(followed, k))
    BY <1>8, <2>1 DEF FinishAccepted, open
  <2>3. FollowUps \in SUBSET Keys
    BY KeyFacts DEF FollowUps
  <2>4. Sound(followed, {k}) /\ Waits(followed)
    BY <1>1, <1>2, <2>1, <2>3, ScheduledSound
  <2> QED
    BY <1>7, <2>2, <2>3, <2>4 DEF RInv, OwnTypes
<1>9. CASE FinishOther(m)
  <2>1. /\ Carry(Rerun(open, k))
        /\ UNCHANGED <<pending, agentPending, store, asked>>
        /\ errors' = errors \cup {k} \/ errors' = errors
    BY <1>9 DEF FinishOther, open
  <2> QED
    BY <1>1, <1>2, <1>7, <2>1 DEF RInv, OwnTypes
<1> QED
  BY <1>8, <1>9 DEF Finish


(* A ticket's step moves one ticket that is not idle, and no other.        *)
LEMMA TicketMoves ==
    ASSUME TypeOK, NEW k \in Keys, NEW g \in Gens(k), RunTicket(k, g)
    PROVE  /\ task[k][g] \notin Idle /\ UNCHANGED generation
           /\ \A l \in Keys : \A h \in Gens(l) : l # k \/ h # g =>
                task'[l][h] = task[l][h]
           /\ task'[k][g] # "none" /\ Worker
<1>1. \/ Skip(k, g) \/ Start(k, g) \/ Read(k, g) \/ ReadFails(k, g) \/ Retain(k, g)
      \/ Raise(k, g) \/ Discard(k, g) \/ Accept(k, g)
      \/ k = AgentRuns /\ (ReadAgents(g) \/ AcceptAgents(g))
  BY DEF RunTicket, Ticket
<1>2. Worker
  BY <1>1 DEF Worker, Ticket
<1>3. task[k][g] \notin Idle /\ UNCHANGED generation
  BY <1>1 DEF Skip, Start, Read, ReadFails, Retain, Raise, Discard, Accept, ReadAgents,
              AcceptAgents, Idle
<1>4. \E step \in Steps \ {"none"} : \E scratch : Proceed(k, g, step, scratch)
  BY <1>1 DEF Skip, Start, Read, ReadFails, Retain, Raise, Discard, Accept,
              ReadAgents, AcceptAgents, AcceptTicket, Steps
<1> QED
  BY <1>2, <1>3, <1>4, ProceedFacts

(* The ticket that runs is the one its key has in flight; ending it posts  *)
(* the outcome the gate waits for.                                         *)
LEMMA RunTicketStep ==
    ASSUME RInv, NEW k \in Keys, NEW g \in Gens(k), RunTicket(k, g) PROVE RInv'
<1>1. /\ task[k][g] \notin Idle /\ UNCHANGED generation
      /\ \A l \in Keys : \A h \in Gens(l) : l # k \/ h # g => task'[l][h] = task[l][h]
      /\ task'[k][g] # "none" /\ Worker
  BY TicketMoves DEF RInv, IInv
<1>2. IInv'
  BY <1>1, WorkerStep DEF RInv
<1>3. UNCHANGED <<inFlight, rerun, trigger, errors, indicator, asks>>
  BY DEF RunTicket
<1>4. inFlight[k] = g /\ g \in Nat /\ g # 0
  BY <1>1, GenerationFacts DEF RInv, Gate
<1>5. task'[k][g] \in Steps /\ task[k][g] # "done"
  BY <1>1, <1>2 DEF IInv, TypeOK, Idle
<1>6. \A m \in inbox : m.key # k
  BY <1>4, <1>5 DEF RInv, Posts
<1>7. \/ task'[k][g] # "done" /\ inbox' = inbox
      \/ /\ task'[k][g] = "done"
         /\ \E o \in Outcomes :
              inbox' = inbox \cup {[key |-> k, generation |-> g, outcome |-> o]}
  <2>1. Posted(k, g)
    BY DEF RunTicket
  <2> QED
    BY <1>5, <2>1 DEF Posted, Outcomes
<1>8. InFlight' = InFlight
  BY <1>3 DEF InFlight
<1>9. OwnTypes' /\ Indicated'
  <2>1. inbox' \subseteq Messages
    BY <1>4, <1>7 DEF RInv, OwnTypes, Messages
  <2>2. asked' \subseteq Keys
    BY DEF RunTicket, RInv, OwnTypes
  <2> QED
    BY <1>3, <1>8, <2>1, <2>2 DEF RInv, OwnTypes, Indicated
<1>10. Posts'
  <2>1. ASSUME NEW m \in inbox
        PROVE  /\ inFlight'[m.key] = m.generation /\ m.generation # 0
               /\ task'[m.key][m.generation] = "done"
    <3>1. m.key \in Keys /\ m.key # k
      BY <1>6 DEF RInv, OwnTypes, Messages
    <3>2. m.generation \in Gens(m.key)
      BY <3>1, GenerationFacts DEF RInv, Posts, Gate, Current, IInv, TypeOK, Gens
    <3> QED
      BY <1>1, <1>3, <3>1, <3>2 DEF RInv, Posts
  <2>2. \A m, n \in inbox : n.key = m.key => n = m
    BY DEF RInv, Posts
  <2>3. CASE inbox' = inbox
    BY <2>1, <2>2, <2>3 DEF Posts
  <2>4. CASE inbox' # inbox
    <3>1. PICK o \in Outcomes :
            inbox' = inbox \cup {[key |-> k, generation |-> g, outcome |-> o]}
      BY <1>7, <2>4
    <3>2. task'[k][g] = "done" /\ inFlight'[k] = g
      BY <1>3, <1>4, <1>7, <2>4
    <3> QED
      BY <1>4, <1>6, <2>1, <2>2, <3>1, <3>2 DEF Posts
  <2> QED
    BY <2>3, <2>4
<1>11. ASSUME NEW l \in Keys PROVE Gate(l)'
  <2>1. CASE l # k
    <3>1. inbox \subseteq inbox'
      BY <1>7
    <3>2. \A h \in Gens(l) : task'[l][h] = task[l][h]
      BY <1>1, <2>1
    <3>3. inFlight[l] # 0 => inFlight[l] \in Gens(l)
      BY GenerationFacts DEF RInv, Gate, Current, IInv, TypeOK, Gens
    <3> QED
      BY <1>1, <1>3, <3>1, <3>2, <3>3 DEF RInv, Gate, Current, Gens
  <2>2. CASE l = k
    <3>1. \A h \in Gens(k) : h # g => task'[k][h] = task[k][h]
      BY <1>1
    <3>2. ASSUME task'[k][g] = "done"
          PROVE  \E m \in inbox' : m.key = k /\ m.generation = g
      <4>1. PICK o \in Outcomes :
              inbox' = inbox \cup {[key |-> k, generation |-> g, outcome |-> o]}
        BY <1>7, <3>2
      <4>2. [key |-> k, generation |-> g, outcome |-> o] \in inbox'
        BY <4>1
      <4> QED
        BY <4>2
    <3> QED
      BY <1>1, <1>3, <1>4, <2>2, <3>1, <3>2 DEF RInv, Gate, Current, Idle, Gens
  <2> QED
    BY <2>1, <2>2
<1> QED
  BY <1>2, <1>9, <1>10, <1>11 DEF RInv

LEMMA SourceChangesStep ==
    ASSUME RInv, NEW k \in ProjectKeys, SourceChanges(k) PROVE RInv'
<1>1. IInv'
  BY ChangeStep DEF RInv, SourceChanges
<1>2. UNCHANGED <<generation, task, runnerVars>>
  BY DEF SourceChanges, Change
<1> QED
  BY <1>1, <1>2 DEF RInv, runnerVars, OwnTypes, InFlight, Posts, Indicated, Gate, Current,
                    Gens

-----------------------------------------------------------------------------
(* The invariant of the runner and the coordinator it drives.              *)
THEOREM RunnerInvariant == RunnerSpec => []RInv
<1>1. RInv /\ [RunnerNext]_allVars => RInv'
  <2> SUFFICES ASSUME RInv, [RunnerNext]_allVars PROVE RInv'
    OBVIOUS
  <2>1. CASE \E why \in Triggers : Ask(Keys, why)
    BY <2>1, AskStep
  <2>2. CASE \E p \in Projects : Ask(GitKeys(p), "manual")
    <3>1. \A p \in Projects : GitKeys(p) \in SUBSET Keys
      BY KeyFacts, CoordinatorAssumption DEF GitKeys
    <3> QED
      BY <2>2, <3>1, AskStep DEF Triggers
  <2>3. CASE ShowRefreshing
    BY <2>3, ShowRefreshingStep
  <2>4. CASE \E m \in inbox : Finish(m)
    BY <2>4, FinishStep
  <2>5. CASE \E k \in Keys : \E g \in Gens(k) : RunTicket(k, g)
    BY <2>5, RunTicketStep
  <2>6. CASE \E k \in ProjectKeys : SourceChanges(k)
    BY <2>6, SourceChangesStep
  <2>7. CASE UNCHANGED allVars
    <3>1. IInv'
      BY <2>7, StutterStep DEF RInv, allVars
    <3>2. UNCHANGED <<generation, task, runnerVars>>
      BY <2>7 DEF allVars, vars
    <3> QED
      BY <3>1, <3>2 DEF RInv, runnerVars, OwnTypes, InFlight, Posts, Indicated, Gate,
                        Current, Gens
  <2> QED
    BY <2>1, <2>2, <2>3, <2>4, <2>5, <2>6, <2>7 DEF RunnerNext
<1> QED
  BY RunnerInitInv, <1>1, PTL DEF RunnerSpec

(* Type correctness of the runner over its coordinator.                    *)
THEOREM RunnerTypeCorrect == RunnerSpec => []RunnerTypeOK
<1>1. RInv => RunnerTypeOK
  BY DEF RInv, IInv, OwnTypes, RunnerTypeOK
<1> QED
  BY RunnerInvariant, <1>1, PTL

(* However many keys, refreshes and publishes there are, and whatever      *)
(* order outcomes land in, an observation in flight is the newest and will *)
(* reopen its key's gate, and no rerun is queued where nothing would run   *)
(* it.                                                                     *)
THEOREM GateAlwaysReopens == RunnerSpec => []GateReopens
<1>1. RInv => GateReopens
  BY DEF RInv, Gate, Indicated, Idle, GateReopens
<1> QED
  BY RunnerInvariant, <1>1, PTL

(* What the coordinator promises a consumer holds under the runner too,    *)
(* which publishes and requests within one handler: the store has, or is   *)
(* about to be given, what was accepted, and Agent Runs are bound to what  *)
(* it has.                                                                 *)
THEOREM RunnerKeepsStore ==
    RunnerSpec => [](NothingAcceptedIsLost /\ AgentBindsPublished)
<1>1. RInv => NothingAcceptedIsLost /\ AgentBindsPublished
  BY DEF RInv, IInv, StoreOrder, Composed, NothingAcceptedIsLost
<1> QED
  BY RunnerInvariant, <1>1, PTL
=============================================================================
