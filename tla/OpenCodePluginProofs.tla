------------------------ MODULE OpenCodePluginProofs ------------------------
(***************************************************************************)
(* For any sessions, locations, instances, queues and bounds: what was     *)
(* deleted stays so, nothing reads as running once nothing observes it, a  *)
(* root and its children are published one at a time, and a working child  *)
(* is listed where its root is.                                            *)
(***************************************************************************)
EXTENDS OpenCodePlugin, SequenceTheorems, FiniteSetTheorems, WellFoundedInduction, TLAPS

USE ConstantsAssumption, NoneAssumption

-----------------------------------------------------------------------------
(* What is known of every event, and of the one that is being served.      *)
Sane == {e \in Events :
    /\ e.type = "created" => e.from \in Locations
    /\ e.type = "moved" => /\ e.session \in Roots
                           /\ e.from \in Locations /\ e.to \in Locations /\ e.from # e.to
    /\ e.type # "moved" => e.to = None
    /\ e.type = "gone" => e.route \in Projects
    /\ e.type \in {"deleted", "gone"} => life[e.session] = "deleted"}
Emitted == {e \in Sane : e.type # "gone"}

\* A publication with the helper, which a move reaches where its session was.
Served(k) ==
    LET e == Head(queue[k])
    IN  /\ turn[k] \in {"asked", "arriving"} /\ e.type = "moved" => e.route = e.from
        /\ turn[k] = "arriving" => e.type = "moved" /\ e.route \in Projects /\ e.to \in Projects

QueueTypes ==
    /\ placed \in [Sessions -> Locations \cup {None}]
    /\ queue \in [Sessions -> Seq(Sane)]
    /\ \A k \in Sessions : Len(queue[k]) <= QueueLimit
    /\ turn \in [Sessions -> {"idle", "barred", "asked", "arriving"}]
    /\ \A k \in Sessions : turn[k] = "idle" <=> queue[k] = <<>>
    /\ bar \in [Sessions -> Instances \cup {None}]

CoreTypes ==
    /\ life \in [Sessions -> {"unborn", "here", "deleted"}]
    /\ working \subseteq Sessions
    /\ home \in [Roots -> Locations]
    /\ seq \in [Sessions -> Nat]
    /\ inst \in [Instances -> {"new", "live", "draining", "marking", "gone"}]
    /\ registering \subseteq Instances /\ found \in [Instances -> SUBSET Recoverable]
    /\ reading \in [Instances -> Recoverable \cup {None}]
    /\ ahead \subseteq Sessions /\ overtaken \subseteq Roots /\ late \subseteq Projects \X Roots
    /\ routed \subseteq Locations
    /\ barrier \in Instances \cup {None}
    /\ todo \in [Instances -> SUBSET Projects]
    /\ cut \in BOOLEAN /\ missed \in BOOLEAN

StoreTypes ==
    /\ rec \in [Projects -> [Roots -> Records \cup {None}]]
    /\ touched \in [Roots -> SUBSET (Projects \X Projects)]
    /\ entry \in [Projects -> [Sessions -> Nat]]
    /\ gone \in [Projects -> SUBSET Sessions]

Shape ==
    /\ CoreTypes /\ StoreTypes /\ QueueTypes
    /\ stream \in Seq(Emitted) /\ \A k \in Sessions : Served(k)

-----------------------------------------------------------------------------
(* Sessions, events and records.                                           *)
LEMMA RootOfRoot ==
    ASSUME NEW s \in Sessions
    PROVE  RootOf(s) \in Roots /\ RootOf(s) \in Sessions /\ RootOf(RootOf(s)) = RootOf(s)
  BY DEF RootOf, Roots, IsChild

LEMMA NotNone ==
    /\ None \notin Projects /\ None \notin Sessions /\ None \notin Locations
    /\ None \notin Instances /\ \A s \in Sessions : s # None
  OBVIOUS

\* An event stays sane while what was deleted stays deleted.
LEMMA SaneStays ==
    ASSUME \A s \in Sessions : life[s] = "deleted" => life'[s] = "deleted"
    PROVE  Sane \subseteq Sane' /\ Emitted \subseteq Emitted'
<1>1. Sane \subseteq Sane'
  BY DEF Sane, Events
<1> QED
  BY <1>1 DEF Emitted

LEMMA Routed ==
    ASSUME NEW e \in Sane, NEW l \in Locations \cup {None}, e.type = "gone" => l \in Projects
    PROVE  [e EXCEPT !.route = l] \in Sane
  BY DEF Sane, Events

LEMMA SaneQueues ==
    ASSUME NEW Q, Q \in [Sessions -> Seq(Sane)]
    PROVE  Q \in [Sessions -> Seq(Events)]
<1> SUFFICES ASSUME NEW k \in Sessions PROVE Q[k] \in Seq(Events)
  OBVIOUS
<1>1. Sane \subseteq Events
  BY DEF Sane
<1> QED
  BY <1>1, SeqMonotonic

LEMMA TheHead ==
    ASSUME NEW S, NEW q \in Seq(S), q # <<>>
    PROVE  /\ Head(q) = q[1] /\ Head(q) \in S /\ Len(q) \in Nat \ {0}
           /\ Tail(q) \in Seq(S) /\ Len(Tail(q)) = Len(q) - 1
           /\ \A n \in 1..Len(q) - 1 : Tail(q)[n] = q[n + 1]
  BY HeadTailProperties, EmptySeq, LenProperties

LEMMA QueueHead ==
    ASSUME QueueTypes, NEW k \in Sessions, turn[k] # "idle"
    PROVE  /\ queue[k] # <<>> /\ Head(queue[k]) \in Sane /\ Head(queue[k]) = queue[k][1]
           /\ Head(queue[k]).session \in Sessions
<1>1. queue[k] \in Seq(Sane) /\ queue[k] # <<>>
  BY DEF QueueTypes
<1> QED
  BY <1>1, TheHead DEF Sane, Events

\* What joins a queue, up to its limit.
LEMMA Within ==
    ASSUME NEW S, NEW q \in Seq(S), NEW t \in Seq(S), Len(q) <= QueueLimit,
           NEW within, within = WithinLimit(q \o t)
    PROVE  /\ within \in Seq(S) /\ Len(within) <= QueueLimit
           /\ Len(within) \in Len(q)..Len(q) + Len(t)
           /\ Len(q \o t) = Len(q) + Len(t)
           /\ \A n \in 1..Len(q) : within[n] = q[n]
           /\ \A n \in Len(q) + 1..Len(within) : within[n] = t[n - Len(q)]
           /\ within = <<>> <=> q \o t = <<>>
           /\ Len(q) + Len(t) <= QueueLimit => within = q \o t
<1> DEFINE all == q \o t
           m == IF Len(all) > QueueLimit THEN QueueLimit ELSE Len(all)
<1>1. /\ all \in Seq(S) /\ Len(all) = Len(q) + Len(t) /\ Len(q) \in Nat /\ Len(t) \in Nat
      /\ \A i \in 1..Len(q) + Len(t) : all[i] = IF i <= Len(q) THEN q[i] ELSE t[i - Len(q)]
  BY ConcatProperties, LenProperties
<1>2. m \in Nat /\ m <= Len(all) /\ m >= Len(q) /\ m <= QueueLimit /\ (m = 0 <=> Len(all) = 0)
      /\ (Len(all) <= QueueLimit => m = Len(all))
  BY <1>1
<1> HIDE DEF m
<1>3. \A i \in 1..m : all[i] \in S
  BY <1>1, <1>2, ElementOfSeq
<1>4. /\ SubSeq(all, 1, m) \in Seq(S)
      /\ Len(SubSeq(all, 1, m)) = IF 1 <= m THEN m - 1 + 1 ELSE 0
      /\ \A i \in 1..m - 1 + 1 : SubSeq(all, 1, m)[i] = all[1 + i - 1]
  BY <1>2, <1>3, SubSeqProperties
<1>5. Len(SubSeq(all, 1, m)) = m /\ \A i \in 1..m : SubSeq(all, 1, m)[i] = all[i]
  BY <1>2, <1>4
<1>6. SubSeq(all, 1, m) = <<>> <=> all = <<>>
  BY <1>1, <1>2, <1>4, <1>5, EmptySeq
<1>7. WithinLimit(all) = SubSeq(all, 1, m)
  BY DEF WithinLimit, m
<1>8. Len(all) <= QueueLimit => SubSeq(all, 1, m) = all
  BY <1>1, <1>2, SubSeqFull
<1> DEFINE w == SubSeq(all, 1, m)
<1>9. \A n \in 1..Len(q) : w[n] = q[n]
  BY <1>1, <1>2, <1>5
<1>10. \A n \in Len(q) + 1..m : w[n] = t[n - Len(q)]
  BY <1>1, <1>2, <1>5
<1>11. w \in Seq(S) /\ Len(w) = m /\ m \in Len(q)..Len(q) + Len(t)
  BY <1>1, <1>2, <1>4, <1>5
<1>12. Len(q) + Len(t) <= QueueLimit => w = all
  BY <1>1, <1>8
<1> HIDE DEF w, all
<1>13. within = w
  BY <1>7 DEF w, all
<1>14. w = <<>> <=> all = <<>>
  BY <1>6 DEF w
<1> QED
  BY <1>1, <1>2, <1>9, <1>10, <1>11, <1>12, <1>13, <1>14 DEF all

\* The event whose turn is over leaves its queue.
LEMMA OverTypes ==
    ASSUME QueueTypes, life' = life, barrier \in Instances \cup {None},
           NEW k \in Sessions, turn[k] # "idle",
           NEW at \in [Sessions -> Locations \cup {None}], Over(k, at)
    PROVE  /\ QueueTypes'
           /\ queue'[k] = Tail(queue[k]) /\ turn'[k] \in {"idle", "barred"}
           /\ \A j \in Sessions : j # k => queue'[j] = queue[j] /\ turn'[j] = turn[j]
<1>1. /\ queue[k] # <<>> /\ queue[k] \in Seq(Sane) /\ Len(queue[k]) <= QueueLimit
      /\ Head(queue[k]).session \in Sessions
  BY QueueHead DEF QueueTypes
<1>2. /\ Tail(queue[k]) \in Seq(Sane) /\ Len(Tail(queue[k])) = Len(queue[k]) - 1
      /\ Len(queue[k]) \in Nat \ {0}
  BY <1>1, TheHead
<1>3. Sane' = Sane
  BY DEF Sane
<1>4. queue' = [queue EXCEPT ![k] = Tail(queue[k])] /\ queue' \in [Sessions -> Seq(Sane)]
  BY <1>2 DEF Over, QueueTypes
<1>5. /\ turn' = [turn EXCEPT ![k] = IF Tail(queue[k]) = <<>> THEN "idle" ELSE "barred"]
      /\ turn' \in [Sessions -> {"idle", "barred", "asked", "arriving"}]
  BY DEF Over, QueueTypes
<1>6. bar' \in [Sessions -> Instances \cup {None}]
  BY DEF Over, QueueTypes
<1>7. placed' \in [Sessions -> Locations \cup {None}]
  BY <1>1 DEF Over, QueueTypes
<1>8. \A j \in Sessions : j # k => queue'[j] = queue[j] /\ turn'[j] = turn[j]
  BY <1>4, <1>5 DEF QueueTypes
<1>9. queue'[k] = Tail(queue[k]) /\ turn'[k] = IF Tail(queue[k]) = <<>> THEN "idle" ELSE "barred"
  BY <1>4, <1>5 DEF QueueTypes
<1>10. \A j \in Sessions : Len(queue'[j]) <= QueueLimit /\ (turn'[j] = "idle" <=> queue'[j] = <<>>)
  <2> SUFFICES ASSUME NEW j \in Sessions
               PROVE  Len(queue'[j]) <= QueueLimit /\ (turn'[j] = "idle" <=> queue'[j] = <<>>)
    OBVIOUS
  <2>1. CASE j = k
    <3>1. turn'[k] = "idle" <=> Tail(queue[k]) = <<>>
      BY <1>9, Zenon
    <3>2. Len(Tail(queue[k])) <= QueueLimit
      BY <1>1, <1>2
    <3> QED
      BY <1>9, <2>1, <3>1, <3>2, Zenon
  <2>2. CASE j # k
    BY <1>8, <2>2 DEF QueueTypes
  <2> QED
    BY <2>1, <2>2
<1> QED
  BY <1>3, <1>4, <1>5, <1>6, <1>7, <1>8, <1>9, <1>10 DEF QueueTypes

\* Events join a queue behind what it has, as far as its limit.
LEMMA EnqueueTypes ==
    ASSUME QueueTypes, life' = life, barrier \in Instances \cup {None},
           NEW k \in Sessions, NEW ev \in Seq(Sane), Enqueue(k, ev),
           placed' \in [Sessions -> Locations \cup {None}]
    PROVE  /\ QueueTypes'
           /\ Len(queue'[k]) \in Len(queue[k])..Len(queue[k]) + Len(ev)
           /\ \A n \in 1..Len(queue[k]) : queue'[k][n] = queue[k][n]
           /\ \A n \in Len(queue[k]) + 1..Len(queue'[k]) : queue'[k][n] = ev[n - Len(queue[k])]
           /\ ~cut' => ~cut /\ queue'[k] = queue[k] \o ev
           /\ queue[k] # <<>> => queue'[k] # <<>> /\ Head(queue'[k]) = Head(queue[k])
           /\ turn'[k] = turn[k] \/ (turn[k] = "idle" /\ turn'[k] = "barred")
           /\ \A j \in Sessions : j # k => queue'[j] = queue[j] /\ turn'[j] = turn[j]
<1> DEFINE w == WithinLimit(queue[k] \o ev)
<1>1. queue[k] \in Seq(Sane) /\ Len(queue[k]) <= QueueLimit
  BY DEF QueueTypes
<1>2. /\ w \in Seq(Sane) /\ Len(w) <= QueueLimit /\ Len(w) \in Len(queue[k])..Len(queue[k]) + Len(ev)
      /\ Len(queue[k] \o ev) = Len(queue[k]) + Len(ev)
      /\ \A n \in 1..Len(queue[k]) : w[n] = queue[k][n]
      /\ \A n \in Len(queue[k]) + 1..Len(w) : w[n] = ev[n - Len(queue[k])]
      /\ w = <<>> <=> queue[k] \o ev = <<>>
      /\ Len(queue[k]) + Len(ev) <= QueueLimit => w = queue[k] \o ev
  <2> DEFINE q == queue[k]
  <2>1. q \in Seq(Sane) /\ Len(q) <= QueueLimit /\ w = WithinLimit(q \o ev)
    BY <1>1
  <2> HIDE DEF q, w
  <2>2. /\ w \in Seq(Sane) /\ Len(w) <= QueueLimit /\ Len(w) \in Len(q)..Len(q) + Len(ev)
        /\ Len(q \o ev) = Len(q) + Len(ev)
        /\ \A n \in 1..Len(q) : w[n] = q[n]
        /\ \A n \in Len(q) + 1..Len(w) : w[n] = ev[n - Len(q)]
        /\ w = <<>> <=> q \o ev = <<>>
        /\ Len(q) + Len(ev) <= QueueLimit => w = q \o ev
    BY <2>1, Within
  <2> QED
    BY <2>2 DEF q
<1>3. Sane' = Sane
  BY DEF Sane
<1>4. queue' = [queue EXCEPT ![k] = w]
  BY DEF Enqueue
<1>5. queue' \in [Sessions -> Seq(Sane)] /\ queue'[k] = w
  BY <1>2, <1>4 DEF QueueTypes
<1>6. /\ turn' = [turn EXCEPT ![k] = IF @ = "idle" /\ queue[k] \o ev # <<>> THEN "barred" ELSE @]
      /\ bar' = [bar EXCEPT ![k] = IF turn[k] = "idle" /\ queue[k] \o ev # <<>> THEN barrier ELSE @]
      /\ cut' = (cut \/ Len(queue[k] \o ev) > QueueLimit)
  BY DEF Enqueue
<1>7. /\ turn' \in [Sessions -> {"idle", "barred", "asked", "arriving"}]
      /\ bar' \in [Sessions -> Instances \cup {None}]
  BY <1>6 DEF QueueTypes
<1>8. \A j \in Sessions : j # k => queue'[j] = queue[j] /\ turn'[j] = turn[j]
  BY <1>4, <1>6 DEF QueueTypes
<1>9. turn'[k] = IF turn[k] = "idle" /\ w # <<>> THEN "barred" ELSE turn[k]
  BY <1>2, <1>6 DEF QueueTypes
<1>10. queue[k] # <<>> => w # <<>> /\ Head(w) = Head(queue[k])
  <2> SUFFICES ASSUME queue[k] # <<>> PROVE w # <<>> /\ Head(w) = Head(queue[k])
    OBVIOUS
  <2>1. Len(queue[k]) \in Nat \ {0} /\ Head(queue[k]) = queue[k][1]
    BY <1>1, TheHead
  <2>2. w # <<>>
    BY <1>2, <2>1, EmptySeq
  <2>3. Head(w) = w[1]
    BY <1>2, <2>2, TheHead
  <2> QED
    BY <1>2, <2>1, <2>2, <2>3
<1>11. ~cut' => ~cut /\ w = queue[k] \o ev
  <2>1. Len(queue[k]) \in Nat /\ Len(ev) \in Nat
    BY <1>1, LenProperties
  <2>2. ~cut' => ~cut /\ ~(Len(queue[k] \o ev) > QueueLimit)
    BY <1>6, Zenon
  <2> HIDE DEF w
  <2>3. ~(Len(queue[k] \o ev) > QueueLimit) => w = queue[k] \o ev
    BY <1>2, <2>1
  <2> QED
    BY <2>2, <2>3
<1>12. \A j \in Sessions : Len(queue'[j]) <= QueueLimit
  BY <1>2, <1>5, <1>8 DEF QueueTypes
<1>13. turn[k] = "idle" <=> queue[k] = <<>>
  BY DEF QueueTypes
<1> HIDE DEF w
<1>14. turn'[k] = "idle" <=> queue'[k] = <<>>
  BY <1>5, <1>9, <1>10, <1>13
<1>15. \A j \in Sessions : turn'[j] = "idle" <=> queue'[j] = <<>>
  BY <1>8, <1>14 DEF QueueTypes
<1>16. QueueTypes'
  BY <1>3, <1>5, <1>7, <1>12, <1>15 DEF QueueTypes
<1> QED
  BY <1>2, <1>5, <1>8, <1>9, <1>10, <1>11, <1>16

-----------------------------------------------------------------------------
(* The types, one action of the system at a time.                          *)
LEMMA ShapeTypes == Shape => TypeOK
<1> SUFFICES ASSUME Shape PROVE TypeOK
  OBVIOUS
<1>1. queue \in [Sessions -> Seq(Events)]
  BY SaneQueues DEF Shape, QueueTypes
<1>2. Emitted \subseteq Events
  BY DEF Emitted, Sane
<1>3. stream \in Seq(Events)
  BY <1>2, SeqMonotonic DEF Shape
<1> QED
  BY <1>1, <1>3 DEF Shape, CoreTypes, StoreTypes, QueueTypes, TypeOK

LEMMA InitShape == Init => Shape
<1> SUFFICES ASSUME Init PROVE Shape
  OBVIOUS
<1>1. CoreTypes /\ StoreTypes
  BY DEF Init, CoreTypes, StoreTypes
<1>2. queue \in [Sessions -> Seq(Sane)] /\ stream \in Seq(Emitted)
  BY EmptySeq DEF Init
<1>3. \A k \in Sessions : queue[k] = <<>> /\ Len(queue[k]) = 0 /\ turn[k] = "idle"
  BY DEF Init
<1>4. QueueTypes
  BY <1>2, <1>3 DEF QueueTypes, Init
<1>5. \A k \in Sessions : Served(k)
  BY <1>3 DEF Served
<1> QED
  BY <1>1, <1>2, <1>4, <1>5 DEF Shape

\* What a step that leaves the queues alone may do.
LEMMA QueuesKept ==
    ASSUME Shape, UNCHANGED registry,
           \A s \in Sessions : life[s] = "deleted" => life'[s] = "deleted"
    PROVE  QueueTypes' /\ \A k \in Sessions : Served(k)'
<1>1. Sane \subseteq Sane'
  BY SaneStays
<1>2. \A k \in Sessions : queue[k] \in Seq(Sane')
  BY <1>1, SeqMonotonic DEF Shape, QueueTypes
<1>3. QueueTypes'
  BY <1>2 DEF Shape, QueueTypes, registry
<1>4. \A k \in Sessions : Served(k)'
  BY DEF Shape, Served, registry
<1> QED
  BY <1>3, <1>4

LEMMA StreamKept ==
    ASSUME Shape, stream' = stream,
           \A s \in Sessions : life[s] = "deleted" => life'[s] = "deleted"
    PROVE  stream' \in Seq(Emitted')
  BY SaneStays, SeqMonotonic DEF Shape

LEMMA EmitShape ==
    ASSUME Shape, NEW s \in Sessions, NEW type \in EventTypes, NEW to \in Locations \cup {None},
           Emit(s, type, to),
           life' \in [Sessions -> {"unborn", "here", "deleted"}], working' \subseteq Sessions,
           home' \in [Roots -> Locations],
           \A x \in Sessions : life[x] = "deleted" => life'[x] = "deleted",
           type = "moved" => s \in Roots /\ to \in Locations /\ to # home[s],
           type # "moved" => to = None,
           type = "deleted" => life'[s] = "deleted"
    PROVE  Shape'
<1> DEFINE event == [type |-> type, session |-> s, seq |-> seq[s] + 1, to |-> to, route |-> None,
                     from |-> IF type \in {"created", "moved"} THEN home[RootOf(s)] ELSE None]
<1>1. QueueTypes' /\ \A k \in Sessions : Served(k)'
  BY QueuesKept DEF Emit, Going
<1>2. CoreTypes'
  <2>1. seq' \in [Sessions -> Nat] /\ missed' \in BOOLEAN
    <3>1. seq' = [seq EXCEPT ![s] = seq[s] + 1] /\ missed' = (missed \/ Live = {})
      BY DEF Emit, Going
    <3>2. seq \in [Sessions -> Nat]
      BY DEF Shape, CoreTypes
    <3>3. seq' \in [Sessions -> Nat]
      BY <3>1, <3>2
    <3> QED
      BY <3>1, <3>3, Zenon
  <2>2. UNCHANGED <<inst, recovery, routed, barrier, todo, remarks, cut>>
    BY DEF Emit, Going, cleanups, recovery
  <2> QED
    BY <2>1, <2>2 DEF Shape, CoreTypes, recovery, remarks
<1>3. StoreTypes'
  BY DEF Shape, StoreTypes, Emit, Going, stores
<1>4. event \in Emitted'
  <2>1. home[RootOf(s)] \in Locations /\ seq[s] + 1 \in Nat
    BY RootOfRoot DEF Shape, CoreTypes
  <2>2. event \in Events /\ type # "gone"
    BY <2>1 DEF Events, EventTypes
  <2>3. s \in Roots => RootOf(s) = s
    BY DEF Roots, RootOf, IsChild
  <2> QED
    BY <2>1, <2>2, <2>3, NotNone DEF Emitted, Sane
<1>5. stream \in Seq(Emitted')
  BY SaneStays, SeqMonotonic DEF Shape
<1>6. stream' = IF Live = {} THEN stream ELSE Append(stream, event)
  BY DEF Emit, Going
<1> HIDE DEF event
<1>7. stream' \in Seq(Emitted')
  BY <1>4, <1>5, <1>6, AppendProperties
<1> QED
  BY <1>1, <1>2, <1>3, <1>7 DEF Shape

LEMMA ServerShape ==
    ASSUME Shape, NEW s \in Sessions, Create(s) \/ Start(s) \/ Finish(s) \/ Delete(s)
    PROVE  Shape'
<1>1. CoreTypes
  BY DEF Shape
<1>2. CASE Create(s)
  BY <1>1, <1>2, EmitShape DEF Create, CoreTypes, EventTypes
<1>3. CASE Start(s)
  BY <1>1, <1>3, EmitShape DEF Start, CoreTypes, EventTypes
<1>4. CASE Finish(s)
  BY <1>1, <1>4, EmitShape DEF Finish, CoreTypes, EventTypes
<1>5. CASE Delete(s)
  BY <1>1, <1>5, EmitShape DEF Delete, CoreTypes, EventTypes
<1> QED
  BY <1>2, <1>3, <1>4, <1>5

LEMMA MoveShape ==
    ASSUME Shape, NEW r \in Roots, NEW l \in Locations, Move(r, l)
    PROVE  Shape'
<1>1. CoreTypes /\ r \in Sessions
  BY DEF Shape, Roots
<1> QED
  BY <1>1, EmitShape DEF Move, CoreTypes, EventTypes

-----------------------------------------------------------------------------
(* The registry's steps. *)

\* A queue that events joined keeps the publication that is being served.
LEMMA EnqueueKeeps ==
    ASSUME Shape, life' = life, NEW k \in Sessions, NEW ev \in Seq(Sane), Enqueue(k, ev),
           placed' \in [Sessions -> Locations \cup {None}]
    PROVE  QueueTypes' /\ cut' \in BOOLEAN /\ \A j \in Sessions : Served(j)'
<1>1. /\ QueueTypes'
      /\ queue[k] # <<>> => queue'[k] # <<>> /\ Head(queue'[k]) = Head(queue[k])
      /\ turn'[k] = turn[k] \/ (turn[k] = "idle" /\ turn'[k] = "barred")
      /\ \A j \in Sessions : j # k => queue'[j] = queue[j] /\ turn'[j] = turn[j]
  BY EnqueueTypes DEF Shape, CoreTypes
<1>2. turn[k] # "idle" => queue[k] # <<>>
  BY DEF Shape, QueueTypes
<1>3. \A j \in Sessions : turn'[j] \in {"asked", "arriving"} =>
        turn'[j] = turn[j] /\ Head(queue'[j]) = Head(queue[j])
  BY <1>1, <1>2
<1>4. \A j \in Sessions : Served(j)'
  BY <1>3 DEF Shape, Served
<1>5. cut' \in BOOLEAN
  <2>1. cut' = (cut \/ Len(queue[k] \o ev) > QueueLimit)
    BY DEF Enqueue
  <2> QED
    BY <2>1, Zenon
<1> QED
  BY <1>1, <1>4, <1>5

LEMMA OverKeeps ==
    ASSUME Shape, life' = life, NEW k \in Sessions, turn[k] # "idle",
           NEW at \in [Sessions -> Locations \cup {None}], Over(k, at)
    PROVE  QueueTypes' /\ \A j \in Sessions : Served(j)'
<1>1. /\ QueueTypes' /\ turn'[k] \in {"idle", "barred"}
      /\ \A j \in Sessions : j # k => queue'[j] = queue[j] /\ turn'[j] = turn[j]
  BY OverTypes DEF Shape, CoreTypes
<1> QED
  BY <1>1 DEF Shape, Served

LEMMA ForgottenTypes ==
    ASSUME QueueTypes, NEW k \in Sessions, turn[k] # "idle"
    PROVE  Forgotten(k) \in [Sessions -> Locations \cup {None}]
<1>1. Head(queue[k]).session \in Sessions
  BY QueueHead DEF QueueTypes
<1> QED
  BY <1>1 DEF Forgotten, QueueTypes

LEMMA StreamHead ==
    ASSUME Shape, stream # <<>>
    PROVE  /\ Head(stream) \in Sane /\ Head(stream).type # "gone" /\ Head(stream) = stream[1]
           /\ Head(stream).session \in Sessions /\ Tail(stream) \in Seq(Emitted)
<1>1. Head(stream) \in Emitted /\ Head(stream) = stream[1] /\ Tail(stream) \in Seq(Emitted)
  BY TheHead DEF Shape
<1> QED
  BY <1>1 DEF Emitted, Sane, Events

\* What admission knows of an event, and the queue it gives it.
AtAdmission(e) ==
    CASE e.type = "created" -> [placed EXCEPT ![e.session] = e.from]
      [] e.type = "moved" -> [placed EXCEPT ![e.session] = IF @ = None THEN @ ELSE e.to]
      [] OTHER -> placed

LEMMA AdmissionTypes ==
    ASSUME Shape, NEW e \in Sane
    PROVE  /\ AtAdmission(e) \in [Sessions -> Locations \cup {None}]
           /\ RouteKnown(AtAdmission(e), e.session) \in Locations \cup {None}
           /\ QueueOf(AtAdmission(e), e.session) \in Sessions
           /\ RootOf(QueueOf(AtAdmission(e), e.session)) = RootOf(e.session)
<1>1. placed \in [Sessions -> Locations \cup {None}] /\ e.session \in Sessions
  BY DEF Shape, QueueTypes, Sane, Events
<1>2. AtAdmission(e) \in [Sessions -> Locations \cup {None}]
  <2>1. CASE e.type = "created"
    BY <1>1, <2>1 DEF AtAdmission, Sane
  <2>2. CASE e.type = "moved"
    BY <1>1, <2>2 DEF AtAdmission, Sane
  <2>3. CASE e.type \notin {"created", "moved"}
    BY <1>1, <2>3 DEF AtAdmission
  <2> QED
    BY <2>1, <2>2, <2>3
<1> QED
  BY <1>1, <1>2, RootOfRoot DEF RouteKnown, QueueOf

\* Admission, written with the names above.
LEMMA AdmitSteps ==
    ASSUME Admit, NEW e, e = Head(stream)
    PROVE  /\ stream # <<>> /\ Live # {} /\ stream' = Tail(stream) /\ placed' = AtAdmission(e)
           /\ Enqueue(QueueOf(AtAdmission(e), e.session),
                      <<[e EXCEPT !.route = RouteKnown(AtAdmission(e), e.session)]>>)
  BY DEF Admit, AtAdmission

LEMMA AdmitShape ==
    ASSUME Shape, Admit PROVE Shape'
<1> DEFINE e == Head(stream)
           at == AtAdmission(e)
           ev == [e EXCEPT !.route = RouteKnown(at, e.session)]
<1>1. /\ stream # <<>> /\ stream' = Tail(stream) /\ placed' = at
      /\ Enqueue(QueueOf(at, e.session), <<ev>>)
  BY AdmitSteps
<1>2. e \in Sane /\ e.type # "gone" /\ Tail(stream) \in Seq(Emitted)
  BY <1>1, StreamHead
<1>3. /\ at \in [Sessions -> Locations \cup {None}] /\ QueueOf(at, e.session) \in Sessions
      /\ ev \in Sane
  BY <1>2, AdmissionTypes, Routed
<1>4. Emitted' = Emitted /\ life' = life
  BY DEF Admit, opencode, Emitted, Sane
<1> HIDE DEF ev, at, e
<1>5. <<ev>> \in Seq(Sane)
  BY <1>3
<1>6. QueueTypes' /\ cut' \in BOOLEAN /\ \A j \in Sessions : Served(j)'
  BY <1>1, <1>3, <1>4, <1>5, EnqueueKeeps
<1>7. CoreTypes'
  BY <1>6 DEF Shape, CoreTypes, recovery, remarks, Admit, opencode, cleanups
<1>8. StoreTypes'
  BY DEF Shape, StoreTypes, Admit, stores
<1> QED
  BY <1>1, <1>2, <1>4, <1>6, <1>7, <1>8 DEF Shape

\* What reading OpenCode teaches the registry.
LEMMA RememberedTypes ==
    ASSUME Shape, NEW S \in SUBSET Sessions
    PROVE  Remembered(S) \in [Sessions -> Locations \cup {None}]
  BY RootOfRoot DEF Remembered, Shape, CoreTypes, QueueTypes

\* Where the publication at the head of k is asked for, and what was read for it.
ReadAt(k) == IF Head(queue[k]).route = None THEN Unknown(Head(queue[k])) ELSE {}
AskedAt(k) ==
    LET e == Head(queue[k])
    IN  IF e.type = "moved" THEN e.from
        ELSE IF e.route = None THEN Remembered(ReadAt(k))[RootOf(e.session)] ELSE e.route

LEMMA BeginSteps ==
    ASSUME NEW k, Begin(k)
    PROVE  /\ turn[k] = "barred" /\ bar[k] = None /\ Readable(ReadAt(k))
           /\ placed' = Remembered(ReadAt(k))
           /\ queue' = [queue EXCEPT ![k][1].route = AskedAt(k)]
           /\ routed' = IF Head(queue[k]).type = "gone" THEN routed
                        ELSE routed \cup ({AskedAt(k), Head(queue[k]).to} \ {None})
           /\ turn' = [turn EXCEPT ![k] = "asked"]
  BY DEF Begin, ReadAt, AskedAt

LEMMA HeadReplaced ==
    ASSUME NEW S, NEW q \in Seq(S), q # <<>>, NEW x \in S, NEW p, p = [q EXCEPT ![1] = x]
    PROVE  /\ p \in Seq(S) /\ p # <<>> /\ Len(p) = Len(q) /\ Head(p) = x /\ Tail(p) = Tail(q)
           /\ \A n \in 2..Len(q) : p[n] = q[n]
<1>1. Len(q) \in Nat \ {0} /\ 1 \in 1..Len(q)
  BY EmptySeq, LenProperties
<1>2. p \in Seq(S) /\ Len(p) = Len(q) /\ \A j \in 1..Len(q) : p[j] = IF j = 1 THEN x ELSE q[j]
  BY <1>1, ExceptSeq
<1>3. p # <<>>
  BY <1>1, <1>2, EmptySeq
<1>4. Head(p) = x
  BY <1>1, <1>2, <1>3, TheHead
<1>5. /\ Tail(p) \in Seq(S) /\ Len(Tail(p)) = Len(q) - 1
      /\ \A n \in 1..Len(q) - 1 : Tail(p)[n] = p[n + 1]
  BY <1>2, <1>3, TheHead
<1>6. /\ Tail(q) \in Seq(S) /\ Len(Tail(q)) = Len(q) - 1
      /\ \A n \in 1..Len(q) - 1 : Tail(q)[n] = q[n + 1]
  BY TheHead
<1>7. \A n \in 1..Len(q) - 1 : Tail(p)[n] = Tail(q)[n]
  BY <1>1, <1>2, <1>5, <1>6
<1>8. Tail(p) = Tail(q)
  BY <1>5, <1>6, <1>7, SeqEqual
<1> QED
  BY <1>1, <1>2, <1>3, <1>4, <1>8

\* The publication asked for stays at the head of its queue, its route fixed.
LEMMA BeginTypes ==
    ASSUME Shape, NEW k \in Sessions, Begin(k)
    PROVE  /\ QueueTypes' /\ turn'[k] = "asked" /\ Head(queue[k]) \in Sane
           /\ AskedAt(k) \in Locations \cup {None}
           /\ ReadAt(k) \subseteq Sessions
           /\ Head(queue'[k]) = [Head(queue[k]) EXCEPT !.route = AskedAt(k)]
           /\ Len(queue'[k]) = Len(queue[k]) /\ Tail(queue'[k]) = Tail(queue[k])
           /\ \A n \in 2..Len(queue[k]) : queue'[k][n] = queue[k][n]
           /\ \A j \in Sessions : j # k => queue'[j] = queue[j] /\ turn'[j] = turn[j]
<1> DEFINE e == Head(queue[k])
           x == [e EXCEPT !.route = AskedAt(k)]
<1>1. /\ turn[k] = "barred" /\ placed' = Remembered(ReadAt(k))
      /\ queue' = [queue EXCEPT ![k][1].route = AskedAt(k)]
      /\ turn' = [turn EXCEPT ![k] = "asked"]
  BY BeginSteps
<1>2. /\ queue[k] # <<>> /\ e \in Sane /\ e = queue[k][1] /\ e.session \in Sessions
      /\ queue[k] \in Seq(Sane)
  BY <1>1, QueueHead DEF Shape, QueueTypes
<1>3. ReadAt(k) \subseteq Sessions
  BY <1>2, RootOfRoot DEF ReadAt, Unknown
<1>4. /\ Remembered(ReadAt(k)) \in [Sessions -> Locations \cup {None}]
      /\ RootOf(e.session) \in Sessions
  BY <1>2, <1>3, RememberedTypes, RootOfRoot
<1>5. e.route \in Locations \cup {None} /\ e.from \in Locations \cup {None}
  BY <1>2 DEF Sane, Events
<1>6. AskedAt(k) \in Locations \cup {None}
  BY <1>4, <1>5 DEF AskedAt
<1>7. e.type = "gone" => AskedAt(k) \in Projects
  BY <1>2, NotNone DEF AskedAt, Sane
<1>8. x \in Sane
  BY <1>2, <1>6, <1>7, Routed
<1>9. queue' = [queue EXCEPT ![k] = [queue[k] EXCEPT ![1] = x]]
  BY <1>1, <1>2
<1> HIDE DEF x, e
<1>10. /\ [queue[k] EXCEPT ![1] = x] \in Seq(Sane) /\ [queue[k] EXCEPT ![1] = x] # <<>>
       /\ Len([queue[k] EXCEPT ![1] = x]) = Len(queue[k])
       /\ Head([queue[k] EXCEPT ![1] = x]) = x
       /\ Tail([queue[k] EXCEPT ![1] = x]) = Tail(queue[k])
       /\ \A n \in 2..Len(queue[k]) : [queue[k] EXCEPT ![1] = x][n] = queue[k][n]
  BY <1>2, <1>8, HeadReplaced
<1>11. /\ queue'[k] = [queue[k] EXCEPT ![1] = x]
       /\ \A j \in Sessions : j # k => queue'[j] = queue[j] /\ turn'[j] = turn[j]
       /\ turn'[k] = "asked"
  BY <1>1, <1>9 DEF Shape, QueueTypes
<1>12. Sane' = Sane /\ bar' = bar
  BY DEF Begin, opencode, Sane
<1>13. queue' \in [Sessions -> Seq(Sane')]
  BY <1>9, <1>10, <1>12 DEF Shape, QueueTypes
<1>14. \A j \in Sessions : Len(queue'[j]) <= QueueLimit
  BY <1>10, <1>11 DEF Shape, QueueTypes
<1>15. turn' \in [Sessions -> {"idle", "barred", "asked", "arriving"}]
  BY <1>1 DEF Shape, QueueTypes
<1>16. \A j \in Sessions : turn'[j] = "idle" <=> queue'[j] = <<>>
  <2> SUFFICES ASSUME NEW j \in Sessions PROVE turn'[j] = "idle" <=> queue'[j] = <<>>
    OBVIOUS
  <2>1. CASE j = k
    BY <1>10, <1>11, <2>1
  <2>2. CASE j # k
    BY <1>11, <2>2 DEF Shape, QueueTypes
  <2> QED
    BY <2>1, <2>2
<1>17. QueueTypes'
  BY <1>1, <1>4, <1>12, <1>13, <1>14, <1>15, <1>16 DEF Shape, QueueTypes
<1> QED
  BY <1>2, <1>3, <1>6, <1>10, <1>11, <1>17 DEF x, e

LEMMA BeginShape ==
    ASSUME Shape, NEW k \in Sessions, Begin(k) PROVE Shape'
<1>1. /\ QueueTypes' /\ turn'[k] = "asked" /\ Head(queue[k]) \in Sane
      /\ AskedAt(k) \in Locations \cup {None}
      /\ Head(queue'[k]) = [Head(queue[k]) EXCEPT !.route = AskedAt(k)]
      /\ \A j \in Sessions : j # k => queue'[j] = queue[j] /\ turn'[j] = turn[j]
  BY BeginTypes
<1>2. routed' \subseteq Locations
  <2>1. routed \subseteq Locations /\ Head(queue[k]).to \in Locations \cup {None}
    BY <1>1 DEF Shape, CoreTypes, Sane, Events
  <2> QED
    BY <1>1, <2>1, BeginSteps
<1>3. CoreTypes'
  BY <1>2 DEF Shape, CoreTypes, recovery, remarks, Begin, opencode
<1>4. StoreTypes'
  BY DEF Shape, StoreTypes, Begin, stores
<1>5. Served(k)'
  BY <1>1 DEF Served, AskedAt, Sane, Events
<1>6. \A j \in Sessions : Served(j)'
  BY <1>1, <1>5 DEF Shape, Served
<1>7. stream' \in Seq(Emitted')
  BY StreamKept DEF Begin, opencode
<1> QED
  BY <1>1, <1>3, <1>4, <1>6, <1>7 DEF Shape

LEMMA BeginUnreadShape ==
    ASSUME Shape, NEW k \in Sessions, BeginUnread(k) PROVE Shape'
<1>1. PICK read : /\ read \in {{}, Unknown(Head(queue[k])) \ {RootOf(Head(queue[k]).session)}}
                  /\ Over(k, Remembered(read))
  BY DEF BeginUnread
<1>2. turn[k] # "idle" /\ life' = life
  BY DEF BeginUnread, opencode
<1>3. Head(queue[k]).session \in Sessions
  BY <1>2, QueueHead DEF Shape
<1>4. read \subseteq Sessions
  BY <1>1, <1>3, RootOfRoot DEF Unknown
<1>5. QueueTypes' /\ \A j \in Sessions : Served(j)'
  BY <1>1, <1>2, <1>4, RememberedTypes, OverKeeps
<1>6. CoreTypes' /\ StoreTypes'
  BY DEF Shape, CoreTypes, recovery, remarks, StoreTypes, BeginUnread, opencode, cleanups, stores
<1>7. stream' \in Seq(Emitted')
  BY StreamKept DEF BeginUnread, opencode
<1> QED
  BY <1>5, <1>6, <1>7 DEF Shape

LEMMA OutsideShape ==
    ASSUME Shape, NEW k \in Sessions, Outside(k) PROVE Shape'
<1>1. turn[k] # "idle" /\ life' = life /\ Over(k, Forgotten(k))
  BY DEF Outside, opencode
<1>2. QueueTypes' /\ \A j \in Sessions : Served(j)'
  BY <1>1, OverKeeps, ForgottenTypes DEF Shape
<1>3. CoreTypes' /\ StoreTypes'
  BY DEF Shape, CoreTypes, recovery, remarks, StoreTypes, Outside, opencode, cleanups, stores
<1>4. stream' \in Seq(Emitted')
  BY StreamKept DEF Outside, opencode
<1> QED
  BY <1>2, <1>3, <1>4 DEF Shape

-----------------------------------------------------------------------------
(* The stores' steps. *)
LEMMA BlankTypes ==
    /\ Blank \in Records
    /\ \A p \in Records \cup {None} : Orelse(p, Blank) \in Records
    /\ \A p \in Records \cup {None} : Forget(p) \in Records \cup {None}
    /\ \A p \in Records \cup {None}, b, c \in BOOLEAN : RootWrite(p, b, c) \in Records
    /\ \A p \in Records \cup {None} : EndWrite(p) \in Records \cup {None}
    /\ \A p \in Records \cup {None}, S \in SUBSET Sessions : ChildWrite(p, S) \in Records \cup {None}
<1>1. Blank \in Records
  BY DEF Blank, Records
<1>2. \A p \in Records \cup {None} : Orelse(p, Blank) \in Records
  BY <1>1 DEF Orelse
<1>3. \A p \in Records \cup {None} : Forget(p) \in Records \cup {None}
  BY DEF Forget, Records
<1>4. ASSUME NEW p \in Records \cup {None}, NEW b \in BOOLEAN, NEW c \in BOOLEAN
      PROVE  RootWrite(p, b, c) \in Records
  <2> DEFINE old == Orelse(p, Blank)
  <2>1. old \in Records /\ RootWrite(p, b, c) =
          [old EXCEPT !.turn = b, !.ended = FALSE, !.away = c, !.marked = FALSE]
    BY <1>2 DEF RootWrite
  <2> HIDE DEF old
  <2> QED
    BY <2>1 DEF Records
<1>5. \A p \in Records \cup {None} : EndWrite(p) \in Records \cup {None}
  BY DEF EndWrite, Records
<1>6. ASSUME NEW p \in Records \cup {None}, NEW S \in SUBSET Sessions
      PROVE  ChildWrite(p, S) \in Records \cup {None}
  <2>1. CASE p = None \/ (p.ended /\ S = {})
    BY <2>1 DEF ChildWrite
  <2>2. CASE ~(p = None \/ (p.ended /\ S = {}))
    <3>1. p \in Records /\ (p.marked /\ p.ended) \in BOOLEAN
      BY <2>2 DEF Records
    <3> DEFINE m == p.marked /\ p.ended
    <3>2. ChildWrite(p, S) = [p EXCEPT !.subs = S, !.marked = m]
      BY <2>2 DEF ChildWrite
    <3> HIDE DEF m
    <3>3. m \in BOOLEAN
      BY <3>1 DEF m
    <3> QED
      BY <3>1, <3>2, <3>3 DEF Records
  <2> QED
    BY <2>1, <2>2
<1> QED
  BY <1>1, <1>2, <1>3, <1>4, <1>5, <1>6

\* The children a record takes from another store's are sessions.
LEMMA CarriedTypes ==
    ASSUME StoreTypes, NEW r \in Roots, NEW p \in Records \cup {None}, NEW l \in Projects,
           NEW other \in Projects
    PROVE  Carried(r, p, l, other) \in SUBSET Sessions
<1> DEFINE seed == rec[other][r]
<1>1. seed \in Records \cup {None}
  BY DEF StoreTypes
<1>2. /\ seed # None => seed.subs \subseteq Sessions
      /\ p # None => p.subs \subseteq Sessions
      /\ Orelse(p, Blank).ended => p # None
      /\ Orelse(p, Blank).subs \subseteq Sessions
  BY <1>1 DEF Records, Orelse, Blank
<1> QED
  BY <1>2 DEF Carried

LEMMA MovedTypes ==
    ASSUME StoreTypes, NEW r \in Roots, NEW p \in Records \cup {None}, NEW l \in Projects,
           NEW to \in Locations
    PROVE  MovedWrite(r, p, l, to) \in Records
<1> DEFINE q == RootWrite(p, TRUE, TRUE)
           subs == IF to \in Projects THEN Carried(r, p, l, to) ELSE q.subs
<1>1. q \in Records
  BY BlankTypes
<1>2. subs \in SUBSET Sessions
  BY <1>1, CarriedTypes DEF Records
<1>3. MovedWrite(r, p, l, to) = [q EXCEPT !.subs = subs]
  BY DEF MovedWrite
<1> HIDE DEF q, subs
<1> QED
  BY <1>1, <1>2, <1>3 DEF Records

LEMMA WrittenTypes ==
    ASSUME StoreTypes, NEW l \in Projects, NEW e \in Events,
           e.type = "moved" => e.to \in Locations
    PROVE  Written(l, e) \in Records \cup {None}
<1> DEFINE old == rec[l][RootOf(e.session)]
           p == IF Begins(l, e) THEN Blank ELSE Forget(old)
           subs == Orelse(p, Blank).subs
<1>1. e.session \in Sessions /\ RootOf(e.session) \in Roots
  BY RootOfRoot DEF Events
<1>2. old \in Records \cup {None}
  BY <1>1 DEF StoreTypes
<1>3. p \in Records \cup {None}
  BY <1>2, BlankTypes
<1>4. subs \subseteq Sessions
  BY <1>3, BlankTypes DEF Records
<1>5. Written(l, e) =
       IF IsChild(e.session)
       THEN CASE e.type \in {"created", "moved"} -> old
              [] e.type = "started" -> ChildWrite(p, subs \cup {e.session})
              [] OTHER -> ChildWrite(p, subs \ {e.session})
       ELSE CASE e.type = "created" -> RootWrite(old, FALSE, FALSE)
              [] e.type = "started" -> RootWrite(p, TRUE, FALSE)
              [] e.type = "ended" -> RootWrite(p, FALSE, FALSE)
              [] e.type = "moved" -> MovedWrite(e.session, p, l, e.to)
              [] OTHER -> EndWrite(p)
  BY DEF Written
<1> HIDE DEF old, p, subs
<1>6. /\ ChildWrite(p, subs \cup {e.session}) \in Records \cup {None}
      /\ ChildWrite(p, subs \ {e.session}) \in Records \cup {None}
      /\ EndWrite(p) \in Records \cup {None}
      /\ RootWrite(old, FALSE, FALSE) \in Records /\ RootWrite(p, TRUE, FALSE) \in Records
      /\ RootWrite(p, FALSE, FALSE) \in Records
  BY <1>1, <1>2, <1>3, <1>4, BlankTypes
<1>7. ~IsChild(e.session) /\ e.type = "moved" => MovedWrite(e.session, p, l, e.to) \in Records
  BY <1>1, <1>3, MovedTypes DEF Roots
<1> QED
  BY <1>2, <1>5, <1>6, <1>7

LEMMA TouchTypes ==
    ASSUME StoreTypes, NEW r \in Roots, NEW l \in Projects, Touch(r, l) \/ UNCHANGED touched
    PROVE  touched' \in [Roots -> SUBSET (Projects \X Projects)]
<1>1. touched \in [Roots -> SUBSET (Projects \X Projects)]
  BY DEF StoreTypes
<1> DEFINE now == {pair \in touched[r] : pair[2] # l} \cup {l} \X (Projects \ {l})
<1>2. now \in SUBSET (Projects \X Projects)
  BY <1>1
<1>3. touched' = touched \/ touched' = [touched EXCEPT ![r] = now]
  BY DEF Touch
<1> HIDE DEF now
<1> QED
  BY <1>1, <1>2, <1>3

LEMMA HookTypes ==
    ASSUME StoreTypes, NEW l \in Projects, NEW e \in Events,
           e.type = "moved" => e.to \in Locations, Hook(l, e)
    PROVE  /\ rec' \in [Projects -> [Roots -> Records \cup {None}]]
           /\ touched' \in [Roots -> SUBSET (Projects \X Projects)]
<1>1. RootOf(e.session) \in Roots
  BY RootOfRoot DEF Events
<1>2. rec' = [rec EXCEPT ![l][RootOf(e.session)] = Written(l, e)]
  BY DEF Hook
<1>3. rec' \in [Projects -> [Roots -> Records \cup {None}]]
  BY <1>1, <1>2, WrittenTypes DEF StoreTypes
<1> QED
  BY <1>1, <1>3, TouchTypes DEF Hook

LEMMA RecordTypes ==
    ASSUME StoreTypes, NEW l \in Projects, NEW e \in Events, Record(l, e)
    PROVE  entry' \in [Projects -> [Sessions -> Nat]] /\ gone' \in [Projects -> SUBSET Sessions]
<1>1. e.session \in Sessions /\ e.seq \in Nat
  BY DEF Events
<1>2. /\ entry' = [entry EXCEPT ![l][e.session] = 0] \/ entry' = [entry EXCEPT ![l][e.session] = e.seq]
      /\ gone' = [gone EXCEPT ![l] = @ \cup {e.session}] \/ gone' = gone
  BY DEF Record
<1>3. entry \in [Projects -> [Sessions -> Nat]] /\ gone \in [Projects -> SUBSET Sessions]
  BY DEF StoreTypes
<1>4. ASSUME NEW n \in Nat, entry' = [entry EXCEPT ![l][e.session] = n]
      PROVE  entry' \in [Projects -> [Sessions -> Nat]]
  BY <1>1, <1>3, <1>4
<1>5. gone' \in [Projects -> SUBSET Sessions]
  BY <1>1, <1>2, <1>3
<1> QED
  BY <1>1, <1>2, <1>4, <1>5

LEMMA ArriveTypes ==
    ASSUME StoreTypes, NEW e \in Events, e.session \in Roots, e.route \in Projects, e.to \in Projects
    PROVE  Arrived(e) \in Records /\ Released(e) \in Records \cup {None}
<1> DEFINE subs == Carried(e.session, rec[e.to][e.session], e.to, e.route)
<1>1. rec[e.route][e.session] \in Records \cup {None} /\ rec[e.to][e.session] \in Records \cup {None}
  BY DEF StoreTypes
<1>2. subs \in SUBSET Sessions
  BY <1>1, CarriedTypes
<1>3. Arrived(e) = [Blank EXCEPT !.subs = subs]
  BY DEF Arrived
<1> HIDE DEF subs
<1>4. Arrived(e) \in Records
  BY <1>2, <1>3 DEF Blank, Records
<1>5. Released(e) \in Records \cup {None}
  BY <1>1 DEF Released, Records
<1> QED
  BY <1>4, <1>5

LEMMA RemarkTypes ==
    ASSUME CoreTypes, NEW l \in Projects, NEW e \in Events, Remark(l, e)
    PROVE  overtaken' \subseteq Roots /\ late' \subseteq Projects \X Roots
<1>1. RootOf(e.session) \in Roots
  BY RootOfRoot DEF Events
<1> QED
  BY <1>1 DEF Remark, CoreTypes

LEMMA PublishShape ==
    ASSUME Shape, NEW k \in Sessions, Publish(k) PROVE Shape'
<1> DEFINE e == Head(queue[k])
           l == e.route
<1>1. turn[k] = "asked" /\ l \in Projects /\ life' = life
  BY DEF Publish, opencode
<1>2. e \in Sane /\ e \in Events /\ queue[k] # <<>>
  BY <1>1, QueueHead DEF Shape, Sane
<1>3. CoreTypes'
  <2>1. UNCHANGED remarks \/ Remark(l, e)
    BY DEF Publish
  <2>2. overtaken' \subseteq Roots /\ late' \subseteq Projects \X Roots
    BY <1>1, <1>2, <2>1, RemarkTypes DEF Shape, CoreTypes, remarks
  <2> QED
    BY <2>2 DEF Shape, CoreTypes, recovery, Publish, opencode, cleanups
<1>4. stream' \in Seq(Emitted')
  BY StreamKept DEF Publish, opencode
<1>5. \/ UNCHANGED stores /\ Over(k, Forgotten(k))
      \/ /\ Hook(l, e) /\ Record(l, e)
         /\ IF e.type = "moved" /\ e.to \in Projects
            THEN turn' = [turn EXCEPT ![k] = "arriving"] /\ UNCHANGED <<queue, bar, placed>>
            ELSE Over(k, Forgotten(k))
  BY DEF Publish
<1>6. StoreTypes'
  <2>1. CASE UNCHANGED stores
    BY <2>1 DEF Shape, StoreTypes, stores
  <2>2. CASE Hook(l, e) /\ Record(l, e)
    BY <1>1, <1>2, <2>2, HookTypes, RecordTypes DEF Shape, StoreTypes, Sane
  <2> QED
    BY <1>5, <2>1, <2>2
<1>7. QueueTypes' /\ \A j \in Sessions : Served(j)'
  <2>1. CASE Over(k, Forgotten(k))
    BY <1>1, <2>1, OverKeeps, ForgottenTypes DEF Shape
  <2>2. CASE /\ e.type = "moved" /\ e.to \in Projects
             /\ turn' = [turn EXCEPT ![k] = "arriving"] /\ UNCHANGED <<queue, bar, placed>>
    <3>1. QueueTypes'
      BY <1>1, <1>2, <2>2 DEF Shape, QueueTypes, Sane
    <3>2. \A j \in Sessions : Served(j)'
      BY <1>1, <2>2 DEF Shape, QueueTypes, Served
    <3> QED
      BY <3>1, <3>2
  <2> QED
    BY <1>5, <2>1, <2>2
<1> QED
  BY <1>3, <1>4, <1>6, <1>7 DEF Shape

LEMMA ArriveShape ==
    ASSUME Shape, NEW k \in Sessions, Arrive(k) PROVE Shape'
<1> DEFINE e == Head(queue[k])
<1>1. turn[k] = "arriving" /\ life' = life /\ Over(k, Forgotten(k))
  BY DEF Arrive, opencode
<1>2. /\ e \in Events /\ e.type = "moved" /\ e.session \in Roots
      /\ e.route \in Projects /\ e.to \in Projects
  BY <1>1, QueueHead DEF Shape, Sane, Served
<1>3. QueueTypes' /\ \A j \in Sessions : Served(j)'
  BY <1>1, OverKeeps, ForgottenTypes DEF Shape
<1>4. CoreTypes'
  BY DEF Shape, CoreTypes, recovery, remarks, Arrive, opencode, cleanups
<1>5. stream' \in Seq(Emitted')
  BY StreamKept DEF Arrive, opencode
<1>6. StoreTypes'
  <2>1. CASE UNCHANGED stores
    BY <2>1 DEF Shape, StoreTypes, stores
  <2>2. CASE /\ rec' = [rec EXCEPT ![e.to][e.session] = Arrived(e),
                                   ![e.route][e.session] = Released(e)]
             /\ Touch(e.session, e.to)
             /\ Record(e.to, e)
    <3>1. rec' \in [Projects -> [Roots -> Records \cup {None}]]
      BY Zenon, <1>2, <2>2, ArriveTypes DEF Shape, StoreTypes
    <3> QED
      BY Zenon, <1>2, <2>2, <3>1, TouchTypes, RecordTypes DEF Shape, StoreTypes
  <2> QED
    BY Zenon, <2>1, <2>2 DEF Arrive
<1> QED
  BY <1>3, <1>4, <1>5, <1>6 DEF Shape

LEMMA KilledShape ==
    ASSUME Shape, NEW k \in Sessions, Killed(k) PROVE Shape'
<1> DEFINE e == Head(queue[k])
           l == IF turn[k] = "asked" THEN e.route ELSE e.to
<1>1. /\ turn[k] \in {"asked", "arriving"} /\ e.route \in Projects /\ life' = life
      /\ Over(k, Forgotten(k)) /\ entry' = entry /\ gone' = gone
  BY DEF Killed, opencode
<1>2. e \in Events /\ (e.type = "moved" => e.to \in Locations)
  BY <1>1, QueueHead DEF Shape, Sane
<1>3. turn[k] = "arriving" => e.to \in Projects /\ e.session \in Roots
  BY <1>1, QueueHead DEF Shape, Served, Sane
<1>4. QueueTypes' /\ \A j \in Sessions : Served(j)'
  BY <1>1, OverKeeps, ForgottenTypes DEF Shape
<1>5. CoreTypes'
  BY DEF Shape, CoreTypes, recovery, remarks, Killed, opencode, cleanups
<1>6. stream' \in Seq(Emitted')
  BY StreamKept DEF Killed, opencode
<1>7. \/ UNCHANGED <<rec, touched>>
      \/ IF turn[k] = "asked" THEN Hook(l, e)
         ELSE /\ rec' = [rec EXCEPT ![l][e.session] = Arrived(e)]
              /\ Touch(e.session, l)
  BY DEF Killed
<1>8. StoreTypes'
  <2>1. CASE UNCHANGED <<rec, touched>>
    BY <1>1, <2>1 DEF Shape, StoreTypes
  <2>2. CASE turn[k] = "asked" /\ Hook(l, e)
    BY <1>1, <1>2, <2>2, HookTypes DEF Shape, StoreTypes
  <2>3. CASE /\ turn[k] # "asked" /\ rec' = [rec EXCEPT ![l][e.session] = Arrived(e)]
             /\ Touch(e.session, l)
    <3>1. l \in Projects /\ e.session \in Roots /\ Arrived(e) \in Records
      BY <1>1, <1>2, <1>3, <2>3, ArriveTypes DEF Shape
    <3> HIDE DEF l
    <3>2. rec' \in [Projects -> [Roots -> Records \cup {None}]]
      BY <2>3, <3>1 DEF Shape, StoreTypes
    <3> QED
      BY <1>1, <2>3, <3>1, <3>2, TouchTypes DEF Shape, StoreTypes
  <2> QED
    BY <1>7, <2>1, <2>2, <2>3
<1> QED
  BY <1>4, <1>5, <1>6, <1>8 DEF Shape

-----------------------------------------------------------------------------
(* The instances' steps. *)
\* What a registration asks OpenCode is among what it found.
LEMMA AskTypes ==
    ASSUME CoreTypes, NEW i \in Instances, NEW S \in SUBSET Recoverable, Ask(i, S)
    PROVE  /\ found' \in [Instances -> SUBSET Recoverable]
           /\ reading' \in [Instances -> Recoverable \cup {None}]
  BY DEF Ask, CoreTypes

LEMMA RegisterShape ==
    ASSUME Shape, NEW i \in Instances, Register(i) PROVE Shape'
<1>1. QueueTypes' /\ \A j \in Sessions : Served(j)'
  BY QueuesKept DEF Register, opencode
<1>2. PICK l \in Projects, roots \in SUBSET Roots \ {{}} :
         Ask(i, {x \in Named(l) : RootOf(x[1]) \in roots})
  BY DEF Register
<1>3. {x \in Named(l) : RootOf(x[1]) \in roots} \in SUBSET Recoverable
  BY DEF Named, Recoverable
<1>4. /\ found' \in [Instances -> SUBSET Recoverable]
      /\ reading' \in [Instances -> Recoverable \cup {None}]
  BY <1>2, <1>3, AskTypes DEF Shape
<1>5. CoreTypes' /\ StoreTypes'
  BY <1>4 DEF Shape, CoreTypes, remarks, StoreTypes, Register, opencode, cleanups, stores
<1>6. stream' \in Seq(Emitted')
  BY StreamKept DEF Register, opencode
<1> QED
  BY <1>1, <1>5, <1>6 DEF Shape

\* An answer publishes at most one deletion, of what was being read.
LEMMA Answers ==
    ASSUME Shape, NEW i \in Instances, Answer(i)
    PROVE  \E s \in Sessions, l \in Projects :
             /\ reading[i] = <<s, l>>
             /\ \/ /\ life[s] = "deleted" /\ GoneEvent(s, l) \in Sane /\ RootOf(s) \in Sessions
                   /\ Enqueue(RootOf(s), <<GoneEvent(s, l)>>) /\ placed' = placed
                   /\ ahead' = IF Unread(s) THEN ahead \cup {s} ELSE ahead
                \/ UNCHANGED <<ahead, registry, cut>>
<1>1. reading[i] \in Recoverable
  BY DEF Shape, CoreTypes, Answer
<1>2. PICK s \in Sessions, l \in Projects : reading[i] = <<s, l>>
  BY <1>1 DEF Recoverable
<1>3. RootOf(s) \in Sessions
  BY RootOfRoot DEF Roots
<1>4. life[s] = "deleted" => GoneEvent(s, l) \in Sane
  BY DEF GoneEvent, Sane, Events, EventTypes
<1>5. reading[i][1] = s /\ reading[i][2] = l
  BY <1>2
<1> QED
  BY <1>2, <1>3, <1>4, <1>5 DEF Answer

LEMMA AnswerShape ==
    ASSUME Shape, NEW i \in Instances, Answer(i) PROVE Shape'
<1>1. PICK s \in Sessions, l \in Projects :
         \/ /\ life[s] = "deleted" /\ GoneEvent(s, l) \in Sane /\ RootOf(s) \in Sessions
            /\ Enqueue(RootOf(s), <<GoneEvent(s, l)>>) /\ placed' = placed
            /\ ahead' = IF Unread(s) THEN ahead \cup {s} ELSE ahead
         \/ UNCHANGED <<ahead, registry, cut>>
  BY Answers
<1>2. life' = life
  BY DEF Answer, opencode
<1>3. QueueTypes' /\ cut' \in BOOLEAN /\ ahead' \subseteq Sessions /\ \A j \in Sessions : Served(j)'
  <2>1. CASE UNCHANGED <<ahead, registry, cut>>
    <3>1. QueueTypes' /\ \A j \in Sessions : Served(j)'
      BY <1>2, <2>1, QueuesKept
    <3> QED
      BY <2>1, <3>1 DEF Shape, CoreTypes
  <2>2. CASE /\ GoneEvent(s, l) \in Sane /\ RootOf(s) \in Sessions
             /\ Enqueue(RootOf(s), <<GoneEvent(s, l)>>) /\ placed' = placed
             /\ ahead' = IF Unread(s) THEN ahead \cup {s} ELSE ahead
    <3>1. <<GoneEvent(s, l)>> \in Seq(Sane)
      BY <2>2
    <3>2. QueueTypes' /\ cut' \in BOOLEAN /\ \A j \in Sessions : Served(j)'
      BY <1>2, <2>2, <3>1, EnqueueKeeps DEF Shape, QueueTypes
    <3> QED
      BY <2>2, <3>2 DEF Shape, CoreTypes
  <2> QED
    BY <1>1, <2>1, <2>2
<1>4. /\ found' \in [Instances -> SUBSET Recoverable]
      /\ reading' \in [Instances -> Recoverable \cup {None}]
  BY AskTypes DEF Answer, Shape, CoreTypes
<1>5. CoreTypes' /\ StoreTypes'
  BY <1>3, <1>4 DEF Shape, CoreTypes, remarks, StoreTypes, Answer, opencode, cleanups, stores
<1>6. stream' \in Seq(Emitted')
  BY StreamKept DEF Answer, opencode
<1> QED
  BY <1>3, <1>5, <1>6 DEF Shape

LEMMA SetupShape ==
    ASSUME Shape, NEW i \in Instances, Setup(i) PROVE Shape'
<1>1. QueueTypes' /\ \A j \in Sessions : Served(j)'
  BY QueuesKept DEF Setup, opencode
<1>2. registering' \subseteq Instances
  BY DEF Setup, Shape, CoreTypes
<1>3. CoreTypes' /\ StoreTypes'
  BY <1>2 DEF Shape, CoreTypes, recovery, remarks, StoreTypes, Setup, opencode, cleanups, stores
<1>4. stream' \in Seq(Emitted')
  BY StreamKept DEF Setup, opencode
<1> QED
  BY <1>1, <1>3, <1>4 DEF Shape

LEMMA CleanupShape ==
    ASSUME Shape, NEW i \in Instances, Cleanup(i) PROVE Shape'
<1>1. QueueTypes' /\ \A j \in Sessions : Served(j)'
  BY QueuesKept DEF Cleanup, opencode
<1>2. inst' \in [Instances -> {"new", "live", "draining", "marking", "gone"}]
  BY DEF Cleanup, Shape, CoreTypes
<1>3. missed' \in BOOLEAN
  <2>1. missed' = (missed \/ Live = {i})
    BY DEF Cleanup
  <2> QED
    BY <2>1, Zenon
<1>4. CoreTypes' /\ StoreTypes'
  BY <1>2, <1>3 DEF Shape, CoreTypes, recovery, remarks, StoreTypes, Cleanup, opencode, cleanups, stores
<1>5. stream' \in Seq(Emitted')
  <2>1. Emitted' = Emitted
    BY DEF Cleanup, opencode, Emitted, Sane
  <2> QED
    BY <2>1, EmptySeq DEF Cleanup, Shape
<1> QED
  BY <1>1, <1>4, <1>5 DEF Shape

LEMMA DrainedShape ==
    ASSUME Shape, NEW i \in Instances, Drained(i) PROVE Shape'
<1>1. QueueTypes' /\ \A j \in Sessions : Served(j)'
  BY QueuesKept DEF Drained, opencode
<1>2. /\ inst' \in [Instances -> {"new", "live", "draining", "marking", "gone"}]
      /\ barrier' \in Instances \cup {None} /\ todo' \in [Instances -> SUBSET Projects]
  <2>1. CASE Live # {} \/ routed = {}
    BY <2>1 DEF Drained, Shape, CoreTypes
  <2>2. CASE ~(Live # {} \/ routed = {})
    <3>1. /\ inst' = [inst EXCEPT ![i] = "marking"] /\ barrier' = i
          /\ todo' = [todo EXCEPT ![i] = routed \cap Projects]
      BY <2>2 DEF Drained
    <3> QED
      BY <3>1 DEF Shape, CoreTypes
  <2> QED
    BY <2>1, <2>2
<1>3. cut' \in BOOLEAN
  <2>1. cut' = (cut \/ (Live = {} /\ ~OnlyGone))
    BY DEF Drained
  <2> QED
    BY <2>1, Zenon
<1>4. CoreTypes' /\ StoreTypes'
  BY <1>2, <1>3 DEF Shape, CoreTypes, recovery, remarks, StoreTypes, Drained, opencode, stores
<1>5. stream' \in Seq(Emitted')
  BY StreamKept DEF Drained, opencode
<1> QED
  BY <1>1, <1>4, <1>5 DEF Shape

LEMMA MarkedShape ==
    ASSUME Shape, NEW i \in Instances, Marked(i) PROVE Shape'
<1>1. bar' \in [Sessions -> Instances \cup {None}]
  BY DEF Marked, Shape, QueueTypes
<1>2. Sane' = Sane
  BY DEF Marked, opencode, Sane
<1>3. QueueTypes' /\ \A j \in Sessions : Served(j)'
  BY <1>1, <1>2 DEF Shape, QueueTypes, Served, Marked
<1>4. /\ inst' \in [Instances -> {"new", "live", "draining", "marking", "gone"}]
      /\ barrier' \in Instances \cup {None} /\ todo' \in [Instances -> SUBSET Projects]
  BY DEF Marked, Shape, CoreTypes
<1>5. cut' \in BOOLEAN
  <2>1. cut' = (cut \/ todo[i] # {})
    BY DEF Marked
  <2> QED
    BY <2>1, Zenon
<1>6. CoreTypes' /\ StoreTypes'
  BY <1>4, <1>5 DEF Shape, CoreTypes, recovery, remarks, StoreTypes, Marked, opencode, stores
<1>7. stream' \in Seq(Emitted')
  BY StreamKept DEF Marked, opencode
<1> QED
  BY <1>3, <1>6, <1>7 DEF Shape

LEMMA MarkShape ==
    ASSUME Shape, NEW i \in Instances, NEW l \in Projects, Mark(i, l) PROVE Shape'
<1>1. QueueTypes' /\ \A j \in Sessions : Served(j)'
  BY QueuesKept DEF Mark, opencode
<1>2. todo' \in [Instances -> SUBSET Projects]
  BY DEF Mark, Shape, CoreTypes
<1>3. rec' \in [Projects -> [Roots -> Records \cup {None}]]
  <2> DEFINE at == [r \in Roots |-> IF Running(rec[l][r]) THEN [rec[l][r] EXCEPT !.marked = TRUE]
                                    ELSE rec[l][r]]
  <2>1. rec' = [rec EXCEPT ![l] = at]
    BY DEF Mark
  <2>2. \A r \in Roots : Running(rec[l][r]) => [rec[l][r] EXCEPT !.marked = TRUE] \in Records
    <3> SUFFICES ASSUME NEW r \in Roots, Running(rec[l][r])
                 PROVE  [rec[l][r] EXCEPT !.marked = TRUE] \in Records
      OBVIOUS
    <3>1. rec[l][r] \in Records \cup {None} /\ rec[l][r] # None
      BY DEF Shape, StoreTypes, Running
    <3> QED
      BY <3>1 DEF Records
  <2>3. at \in [Roots -> Records \cup {None}]
    BY <2>2 DEF Shape, StoreTypes
  <2> HIDE DEF at
  <2> QED
    BY <2>1, <2>3 DEF Shape, StoreTypes
<1>4. late' \subseteq Projects \X Roots
  BY DEF Mark, Shape, CoreTypes
<1>6. CoreTypes' /\ StoreTypes'
  BY <1>2, <1>3, <1>4 DEF Shape, CoreTypes, recovery, StoreTypes, Mark, opencode
<1>5. stream' \in Seq(Emitted')
  BY StreamKept DEF Mark, opencode
<1> QED
  BY <1>1, <1>5, <1>6 DEF Shape

LEMMA NextShape == Shape /\ [Next]_vars => Shape'
<1> SUFFICES ASSUME Shape, [Next]_vars PROVE Shape'
  OBVIOUS
<1>1. CASE UNCHANGED vars
  <2>1. QueueTypes' /\ \A j \in Sessions : Served(j)'
    BY <1>1, QueuesKept DEF vars, opencode
  <2>2. CoreTypes' /\ StoreTypes'
    BY <1>1 DEF Shape, CoreTypes, recovery, remarks, StoreTypes, vars, opencode, cleanups, stores
  <2>3. stream' \in Seq(Emitted')
    BY <1>1, StreamKept DEF vars, opencode
  <2> QED
    BY <2>1, <2>2, <2>3 DEF Shape
<1>2. CASE Next
  <2>1. ASSUME NEW k \in Sessions, Serve(k) PROVE Shape'
    BY <2>1, BeginShape, BeginUnreadShape, OutsideShape, PublishShape, ArriveShape, KilledShape
       DEF Serve
  <2>2. ASSUME NEW i \in Instances,
               Setup(i) \/ Register(i) \/ Answer(i) \/ Cleanup(i) \/ Drained(i) \/ Marked(i)
        PROVE  Shape'
    BY <2>2, SetupShape, RegisterShape, AnswerShape, CleanupShape, DrainedShape, MarkedShape
  <2> QED
    BY <1>2, <2>1, <2>2, ServerShape, MoveShape, AdmitShape, MarkShape DEF Next
<1> QED
  BY <1>1, <1>2

\* What every variable holds; an event of the queues is one of its kind, and the
\* one with the helper is a move only where its session was.
THEOREM WellTyped == Spec => []TypeOK
<1>1. Init => Shape
  BY InitShape
<1>2. Shape /\ [Next]_vars => Shape'
  BY NextShape
<1>3. Shape => TypeOK
  BY ShapeTypes
<1> QED
  BY <1>1, <1>2, <1>3, PTL DEF Spec

-----------------------------------------------------------------------------
(* What was deleted stays so. *)

\* The steps that write a hook record, whole or killed half-way.
HookStep(k) ==
    LET e == Head(queue[k])
    IN  /\ turn[k] = "asked" /\ e.route \in Projects
        /\ ~Refused(e.route, e) /\ ~Stale(e.route, e) /\ Hook(e.route, e)
ArriveStep(k) ==
    LET e == Head(queue[k])
    IN  /\ turn[k] = "arriving" /\ ~Refused(e.to, e) /\ ~Stale(e.to, e) /\ Touch(e.session, e.to)
        /\ \/ rec' = [rec EXCEPT ![e.to][e.session] = Arrived(e)]
           \/ rec' = [rec EXCEPT ![e.to][e.session] = Arrived(e),
                                 ![e.route][e.session] = Released(e)]

LEMMA ServeWrites ==
    ASSUME Shape, NEW k \in Sessions, Serve(k)
    PROVE  UNCHANGED <<rec, touched>> \/ HookStep(k) \/ ArriveStep(k)
<1>1. CASE Begin(k) \/ BeginUnread(k) \/ Outside(k)
  BY <1>1 DEF Begin, BeginUnread, Outside, stores
<1>2. CASE Publish(k)
  BY <1>2 DEF Publish, stores, HookStep
<1>3. CASE Arrive(k)
  BY <1>3 DEF Arrive, stores, ArriveStep
<1>4. CASE Killed(k)
  <2>1. turn[k] = "asked" \/ turn[k] = "arriving"
    BY <1>4 DEF Killed
  <2>2. CASE turn[k] = "asked"
    BY <1>4, <2>2 DEF Killed, HookStep
  <2>3. CASE turn[k] = "arriving"
    BY <1>4, <2>3 DEF Killed, ArriveStep
  <2> QED
    BY <2>1, <2>2, <2>3
<1> QED
  BY <1>1, <1>2, <1>3, <1>4 DEF Serve

LEMMA Writers ==
    ASSUME Shape, [Next]_vars
    PROVE  \/ UNCHANGED <<rec, touched>>
           \/ \E k \in Sessions : Serve(k) /\ (HookStep(k) \/ ArriveStep(k))
           \/ \E i \in Instances, l \in Projects : Mark(i, l)
<1>1. CASE UNCHANGED vars
  BY <1>1 DEF vars, stores
<1>2. CASE \E s \in Sessions : Create(s) \/ Start(s) \/ Finish(s) \/ Delete(s)
  BY <1>2 DEF Create, Start, Finish, Delete, Emit, Going, stores
<1>3. CASE Admit \/ \E r \in Roots, l \in Locations : Move(r, l)
  BY <1>3 DEF Move, Emit, Going, Admit, stores
<1>4. CASE \E i \in Instances : Register(i) \/ Answer(i)
  BY <1>4 DEF Register, Answer, stores
<1>5. CASE \E i \in Instances : Setup(i) \/ Cleanup(i) \/ Drained(i) \/ Marked(i)
  BY <1>5 DEF Setup, Cleanup, Drained, Marked, stores
<1> QED
  BY <1>1, <1>2, <1>3, <1>4, <1>5, ServeWrites DEF Next

LEMMA AskedHead ==
    ASSUME Shape, NEW k \in Sessions, turn[k] \in {"asked", "arriving"}
    PROVE  /\ queue[k] # <<>> /\ Head(queue[k]) \in Sane /\ Head(queue[k]) \in Events
           /\ Head(queue[k]).session \in Sessions /\ RootOf(Head(queue[k]).session) \in Roots
           /\ turn[k] = "arriving" =>
                /\ Head(queue[k]).type = "moved" /\ Head(queue[k]).session \in Roots
                /\ Head(queue[k]).route \in Projects /\ Head(queue[k]).to \in Projects
                /\ Head(queue[k]).route # Head(queue[k]).to
<1>1. /\ queue[k] # <<>> /\ Head(queue[k]) \in Sane /\ Head(queue[k]).session \in Sessions
  BY QueueHead DEF Shape
<1>2. turn[k] = "arriving" =>
        /\ Head(queue[k]).type = "moved" /\ Head(queue[k]).route = Head(queue[k]).from
        /\ Head(queue[k]).route \in Projects /\ Head(queue[k]).to \in Projects
  BY DEF Shape, Served
<1> QED
  BY <1>1, <1>2, RootOfRoot DEF Sane

DeadAt(p) == p = None \/ Orelse(p, Blank).ended
Deader(p, q) == q = None \/ (/\ Orelse(q, Blank).ended
                             /\ Orelse(q, Blank).subs \subseteq Orelse(p, Blank).subs)

\* A record that had ended is written again only for a child that is no more.
LEMMA ChildGone ==
    ASSUME NEW p \in Records \cup {None}, DeadAt(p), NEW c
    PROVE  Deader(p, ChildWrite(Forget(p), Orelse(Forget(p), Blank).subs \ {c}))
<1>1. CASE p = None
  BY <1>1 DEF ChildWrite, Forget, Deader
<1>2. CASE p \in Records
  <2>1. p # None /\ p.ended
    BY <1>2 DEF DeadAt, Orelse
  <2> DEFINE f == Forget(p)
  <2>2. f \in Records /\ f # None /\ f.ended /\ f.subs \subseteq p.subs
    BY <1>2, <2>1 DEF Forget, Records
  <2>3. ChildWrite(f, f.subs \ {c}) =
          IF f.subs \ {c} = {} THEN None
          ELSE [f EXCEPT !.subs = f.subs \ {c}, !.marked = f.marked /\ f.ended]
    BY <2>2 DEF ChildWrite
  <2> HIDE DEF f
  <2> DEFINE m == f.marked /\ f.ended
             w == [f EXCEPT !.subs = f.subs \ {c}, !.marked = m]
  <2>4. ChildWrite(f, f.subs \ {c}) = None \/ ChildWrite(f, f.subs \ {c}) = w
    BY <2>3
  <2> HIDE DEF m
  <2>5. w.ended = f.ended /\ w.subs = f.subs \ {c}
    BY <2>2 DEF Records
  <2> HIDE DEF w
  <2>6. Orelse(f, Blank) = f /\ Orelse(p, Blank) = p
    BY <2>1, <2>2 DEF Orelse
  <2>7. Deader(p, w)
    BY <2>2, <2>5, <2>6 DEF Deader, Orelse
  <2>8. Deader(p, None)
    BY DEF Deader
  <2> QED
    BY <2>4, <2>6, <2>7, <2>8 DEF f
<1> QED
  BY <1>1, <1>2

LEMMA HookDeleted ==
    ASSUME Shape, NEW k \in Sessions, HookStep(k), NEW l \in Projects, NEW r \in Roots,
           r \in gone[l], DeadAt(rec[l][r])
    PROVE  Deader(rec[l][r], rec'[l][r])
<1> DEFINE e == Head(queue[k])
<1>1. e \in Events /\ e.session \in Sessions /\ RootOf(e.session) \in Roots
  BY AskedHead DEF HookStep
<1>2. e.route \in Projects /\ ~Refused(e.route, e) /\ Hook(e.route, e)
  BY DEF HookStep
<1>3. rec' = [rec EXCEPT ![e.route][RootOf(e.session)] = Written(e.route, e)]
  BY <1>2 DEF Hook
<1>4. rec[l][r] \in Records \cup {None}
  BY DEF Shape, StoreTypes
<1>5. CASE e.route = l /\ RootOf(e.session) = r
  <2>1. IsChild(e.session) /\ e.type = "gone"
    BY <1>2, <1>5 DEF Refused
  <2>2. ~Begins(l, e)
    BY <2>1 DEF Begins
  <2>3. Written(l, e) =
          ChildWrite(Forget(rec[l][r]), Orelse(Forget(rec[l][r]), Blank).subs \ {e.session})
    BY <1>5, <2>1, <2>2 DEF Written
  <2>4. rec'[l][r] = Written(l, e)
    BY <1>3, <1>5 DEF Shape, StoreTypes
  <2> QED
    <3> DEFINE p == rec[l][r]
               c == e.session
    <3> HIDE DEF p, c, e
    <3>1. Deader(p, ChildWrite(Forget(p), Orelse(Forget(p), Blank).subs \ {c}))
      BY <1>4, ChildGone DEF p
    <3> QED
      BY <2>3, <2>4, <3>1 DEF p, c
<1>6. CASE ~(e.route = l /\ RootOf(e.session) = r)
  <2>1. rec'[l][r] = rec[l][r]
    BY <1>1, <1>2, <1>3, <1>6 DEF Shape, StoreTypes
  <2> QED
    BY <2>1 DEF DeadAt, Deader
<1> QED
  BY <1>5, <1>6

LEMMA ArriveAt ==
    ASSUME Shape, NEW k \in Sessions, ArriveStep(k), NEW l \in Projects, NEW r \in Roots,
           NEW e, e = Head(queue[k])
    PROVE  \/ rec'[l][r] = rec[l][r]
           \/ l = e.to /\ r = e.session /\ rec'[l][r] = Arrived(e)
           \/ l = e.route /\ r = e.session /\ rec'[l][r] = Released(e)
<1>1. /\ e.session \in Roots /\ e.route \in Projects /\ e.to \in Projects /\ e.route # e.to
      /\ \/ rec' = [rec EXCEPT ![e.to][e.session] = Arrived(e)]
         \/ rec' = [rec EXCEPT ![e.to][e.session] = Arrived(e),
                               ![e.route][e.session] = Released(e)]
  BY AskedHead DEF ArriveStep
<1>2. rec \in [Projects -> [Roots -> Records \cup {None}]]
  BY DEF Shape, StoreTypes
<1>3. CASE rec' = [rec EXCEPT ![e.to][e.session] = Arrived(e)]
  BY <1>1, <1>2, <1>3
<1>4. CASE rec' = [rec EXCEPT ![e.to][e.session] = Arrived(e),
                              ![e.route][e.session] = Released(e)]
  <2> DEFINE mid == [rec EXCEPT ![e.to][e.session] = Arrived(e)]
  <2>1. rec' = [mid EXCEPT ![e.route][e.session] = Released(e)]
    BY <1>4
  <2>2. /\ DOMAIN mid = Projects /\ \A p \in Projects : DOMAIN mid[p] = Roots
        /\ mid[l][r] = rec[l][r] \/ (l = e.to /\ r = e.session /\ mid[l][r] = Arrived(e))
    BY <1>1, <1>2
  <2> HIDE DEF mid
  <2> QED
    BY <1>1, <2>1, <2>2
<1> QED
  BY <1>1, <1>3, <1>4

LEMMA ArriveDeleted ==
    ASSUME Shape, NEW k \in Sessions, ArriveStep(k), NEW l \in Projects, NEW r \in Roots,
           r \in gone[l], DeadAt(rec[l][r])
    PROVE  Deader(rec[l][r], rec'[l][r])
<1> DEFINE e == Head(queue[k])
<1>1. e.session \in Roots /\ e.type = "moved" /\ ~Refused(e.to, e)
  BY AskedHead DEF ArriveStep
<1>2. ~(l = e.to /\ r = e.session)
  BY <1>1 DEF Refused
<1>3. rec'[l][r] = rec[l][r] \/ (l = e.route /\ r = e.session /\ rec'[l][r] = Released(e))
  BY SMT, <1>2, ArriveAt
<1>4. l = e.route /\ r = e.session => Released(e) = rec[l][r]
  BY Zenon DEF Released, DeadAt, Orelse
<1>5. Deader(rec[l][r], rec[l][r])
  BY DEF DeadAt, Deader
<1> QED
  BY Zenon, <1>3, <1>4, <1>5

LEMMA MarkDeleted ==
    ASSUME Shape, NEW i \in Instances, NEW m \in Projects, Mark(i, m),
           NEW l \in Projects, NEW r \in Roots, DeadAt(rec[l][r])
    PROVE  Deader(rec[l][r], rec'[l][r])
<1>1. \/ rec'[l][r] = rec[l][r]
      \/ rec[l][r] # None /\ rec'[l][r] = [rec[l][r] EXCEPT !.marked = TRUE]
  BY DEF Mark, Shape, StoreTypes, Running
<1>2. rec[l][r] \in Records \cup {None}
  BY DEF Shape, StoreTypes
<1> QED
  BY <1>1, <1>2 DEF DeadAt, Deader, Orelse, Records

\* Whatever was deleted where its root is stays so, whichever step comes: what
\* follows a deletion is refused, a child's own end only shortens the list.
THEOREM DeletedForGood == Spec => DeletedStaysEnded
<1>1. Shape /\ [Next]_vars =>
        [\A l \in Projects, r \in Roots :
           r \in gone[l] /\ (rec[l][r] = None \/ Orelse(rec[l][r], Blank).ended) =>
             rec'[l][r] = None \/ (/\ Orelse(rec'[l][r], Blank).ended
                                  /\ Orelse(rec'[l][r], Blank).subs
                                       \subseteq Orelse(rec[l][r], Blank).subs)]_vars
  <2> SUFFICES ASSUME Shape, [Next]_vars, NEW l \in Projects, NEW r \in Roots,
                      r \in gone[l], DeadAt(rec[l][r])
               PROVE  Deader(rec[l][r], rec'[l][r])
    BY DEF DeadAt, Deader
  <2>1. CASE UNCHANGED <<rec, touched>>
    BY <2>1 DEF DeadAt, Deader
  <2> QED
    BY <2>1, Writers, HookDeleted, ArriveDeleted, MarkDeleted
<1>2. Init => Shape
  BY InitShape
<1>3. Shape /\ [Next]_vars => Shape'
  BY NextShape
<1> QED
  BY <1>1, <1>2, <1>3, PTL DEF Spec, DeletedStaysEnded

-----------------------------------------------------------------------------
(* Nothing reads as running once nothing observes it. *)

\* Only a record where something was routed is ever written.
Known ==
    /\ \A l \in Projects, r \in Roots : rec[l][r] # None => l \in routed
    /\ \A k \in Sessions : turn[k] \in {"asked", "arriving"} =>
         LET e == Head(queue[k])
         IN  e.type # "gone" => {e.route, e.to} \ {None} \subseteq routed

\* With no instance left but those that mark, only recovered deletions are queued,
\* and whatever reads as running has still to be marked or had one written late.
Silent ==
    ~cut /\ Live = {} /\ (\A i \in Instances : inst[i] # "draining") =>
      /\ OnlyGone
      /\ \A l \in Projects, r \in Roots : Running(rec[l][r]) /\ ~rec[l][r].marked =>
           \/ <<l, r>> \in late
           \/ \E i \in Instances : inst[i] = "marking" /\ l \in todo[i]

\* The helper is asked for what it has already, or for what begins now.
LEMMA Heads ==
    ASSUME Shape, [Next]_vars, NEW j \in Sessions, turn'[j] \in {"asked", "arriving"}
    PROVE  \/ turn[j] \in {"asked", "arriving"} /\ Head(queue'[j]) = Head(queue[j])
           \/ Begin(j)
<1>1. ASSUME NEW k \in Sessions, NEW ev \in Seq(Sane), Enqueue(k, ev), life' = life,
             placed' \in [Sessions -> Locations \cup {None}]
      PROVE  turn[j] \in {"asked", "arriving"} /\ Head(queue'[j]) = Head(queue[j])
  <2>1. /\ queue[k] # <<>> => Head(queue'[k]) = Head(queue[k])
        /\ turn'[k] = turn[k] \/ (turn[k] = "idle" /\ turn'[k] = "barred")
        /\ \A i \in Sessions : i # k => queue'[i] = queue[i] /\ turn'[i] = turn[i]
    BY <1>1, EnqueueTypes DEF Shape, CoreTypes
  <2>2. turn[k] # "idle" => queue[k] # <<>>
    BY DEF Shape, QueueTypes
  <2> QED
    BY <2>1, <2>2
<1>2. ASSUME NEW k \in Sessions, turn[k] # "idle", life' = life,
             NEW at \in [Sessions -> Locations \cup {None}], Over(k, at)
      PROVE  turn[j] \in {"asked", "arriving"} /\ Head(queue'[j]) = Head(queue[j])
  <2>1. /\ turn'[k] \in {"idle", "barred"}
        /\ \A i \in Sessions : i # k => queue'[i] = queue[i] /\ turn'[i] = turn[i]
    BY <1>2, OverTypes DEF Shape, CoreTypes
  <2> QED
    BY <2>1
<1>3. placed \in [Sessions -> Locations \cup {None}]
  BY DEF Shape, QueueTypes
<1>4. CASE UNCHANGED <<turn, queue>>
  BY <1>4
<1>5. CASE Admit
  <2> DEFINE e == Head(stream)
  <2>1. /\ stream # <<>> /\ placed' = AtAdmission(e)
        /\ Enqueue(QueueOf(AtAdmission(e), e.session),
                   <<[e EXCEPT !.route = RouteKnown(AtAdmission(e), e.session)]>>)
    BY <1>5, AdmitSteps
  <2>2. e \in Sane /\ e.type # "gone"
    BY <2>1, StreamHead
  <2>3. /\ AtAdmission(e) \in [Sessions -> Locations \cup {None}]
        /\ QueueOf(AtAdmission(e), e.session) \in Sessions
        /\ <<[e EXCEPT !.route = RouteKnown(AtAdmission(e), e.session)]>> \in Seq(Sane)
    BY <2>2, AdmissionTypes, Routed
  <2>4. life' = life
    BY <1>5 DEF Admit, opencode
  <2> QED
    BY <1>1, <2>1, <2>3, <2>4
<1>6. ASSUME NEW i \in Instances, Answer(i)
      PROVE  turn[j] \in {"asked", "arriving"} /\ Head(queue'[j]) = Head(queue[j])
  <2>1. PICK s \in Sessions, l \in Projects :
           \/ /\ GoneEvent(s, l) \in Sane /\ RootOf(s) \in Sessions
              /\ Enqueue(RootOf(s), <<GoneEvent(s, l)>>) /\ placed' = placed
           \/ UNCHANGED registry
    BY <1>6, Answers
  <2>2. life' = life
    BY <1>6 DEF Answer, opencode
  <2>3. CASE UNCHANGED registry
    BY <1>4, <2>3 DEF registry
  <2>4. CASE ~UNCHANGED registry
    <3>1. <<GoneEvent(s, l)>> \in Seq(Sane)
      BY <2>1, <2>4
    <3> QED
      BY <1>1, <1>3, <2>1, <2>2, <2>4, <3>1
  <2> QED
    BY <2>3, <2>4
<1>7. ASSUME NEW k \in Sessions, Serve(k)
      PROVE  \/ turn[j] \in {"asked", "arriving"} /\ Head(queue'[j]) = Head(queue[j])
             \/ Begin(j)
  <2>1. CASE Begin(k)
    BY <2>1, BeginTypes
  <2>2. CASE BeginUnread(k)
    <3>1. PICK read : /\ read \in {{}, Unknown(Head(queue[k])) \ {RootOf(Head(queue[k]).session)}}
                      /\ Over(k, Remembered(read))
      BY <2>2 DEF BeginUnread
    <3>2. turn[k] # "idle" /\ life' = life
      BY <2>2 DEF BeginUnread, opencode
    <3>3. read \subseteq Sessions
      BY <3>1, <3>2, QueueHead, RootOfRoot DEF Unknown, Shape
    <3> QED
      BY <1>2, <3>1, <3>2, <3>3, RememberedTypes
  <2>3. CASE Over(k, Forgotten(k)) /\ (Outside(k) \/ Publish(k) \/ Arrive(k) \/ Killed(k))
    <3>1. turn[k] # "idle" /\ life' = life
      BY <2>3 DEF Outside, Publish, Arrive, Killed, opencode
    <3>2. Forgotten(k) \in [Sessions -> Locations \cup {None}]
      BY <3>1, ForgottenTypes DEF Shape
    <3> QED
      BY Zenon, <1>2, <2>3, <3>1, <3>2
  <2>4. CASE turn' = [turn EXCEPT ![k] = "arriving"] /\ queue' = queue /\ Publish(k)
    BY <2>4 DEF Publish, Shape, QueueTypes
  <2> QED
    BY Zenon, <1>7, <2>1, <2>2, <2>3, <2>4 DEF Serve, Outside, Publish, Arrive, Killed
<1>8. CASE \E s \in Sessions : Create(s) \/ Start(s) \/ Finish(s) \/ Delete(s)
  BY <1>4, <1>8 DEF Create, Start, Finish, Delete, Emit, Going, registry
<1>9. CASE \E r \in Roots, l \in Locations : Move(r, l)
  BY <1>4, <1>9 DEF Move, Emit, Going, registry
<1>10. CASE \E i \in Instances :
               Setup(i) \/ Register(i) \/ Cleanup(i) \/ Drained(i) \/ Marked(i)
  BY <1>4, <1>10 DEF Setup, Register, Cleanup, Drained, Marked, registry
<1>11. CASE \E i \in Instances, l \in Projects : Mark(i, l)
  BY <1>4, <1>11 DEF Mark, registry
<1> QED
  BY <1>4, <1>5, <1>6, <1>7, <1>8, <1>9, <1>10, <1>11 DEF Next, vars, registry

LEMMA RoutedGrows ==
    ASSUME Shape, [Next]_vars PROVE routed \subseteq routed'
<1>1. ASSUME NEW k \in Sessions, Serve(k) PROVE routed \subseteq routed'
  BY Zenon, <1>1 DEF Serve, Begin, BeginUnread, Outside, Publish, Arrive, Killed, cleanups
<1>2. CASE \E s \in Sessions : Create(s) \/ Start(s) \/ Finish(s) \/ Delete(s)
  BY <1>2 DEF Create, Start, Finish, Delete, Emit, Going, cleanups
<1>3. CASE (\E r \in Roots, l \in Locations : Move(r, l)) \/ Admit
  BY <1>3 DEF Move, Emit, Going, Admit, cleanups
<1>4. CASE \E i \in Instances, l \in Projects : Mark(i, l)
  BY <1>4 DEF Mark
<1>5. CASE \E i \in Instances :
              Setup(i) \/ Register(i) \/ Answer(i) \/ Cleanup(i) \/ Drained(i) \/ Marked(i)
  BY <1>5 DEF Setup, Register, Answer, Cleanup, Drained, Marked, cleanups
<1> QED
  BY Zenon, <1>1, <1>2, <1>3, <1>4, <1>5 DEF Next, vars, cleanups

\* What is no more begins no record.
LEMMA GoneBegins ==
    ASSUME NEW l, NEW e, e.type = "gone", rec[l][RootOf(e.session)] = None
    PROVE  Written(l, e) = None
<1>1. ~Begins(l, e)
  BY DEF Begins
<1> QED
  BY <1>1 DEF Written, Forget, ChildWrite, EndWrite, Orelse

LEMMA KnownNext == Shape /\ Known /\ [Next]_vars => Known'
<1> SUFFICES ASSUME Shape, Known, [Next]_vars PROVE Known'
  OBVIOUS
<1>1. ASSUME NEW k \in Sessions, turn'[k] \in {"asked", "arriving"},
             Head(queue'[k]).type # "gone"
      PROVE  {Head(queue'[k]).route, Head(queue'[k]).to} \ {None} \subseteq routed'
  <2>1. CASE turn[k] \in {"asked", "arriving"} /\ Head(queue'[k]) = Head(queue[k])
    BY <1>1, <2>1, RoutedGrows DEF Known
  <2>2. CASE Begin(k)
    <3>1. /\ Head(queue[k]) \in Sane
          /\ Head(queue'[k]) = [Head(queue[k]) EXCEPT !.route = AskedAt(k)]
          /\ routed' = IF Head(queue[k]).type = "gone" THEN routed
                       ELSE routed \cup ({AskedAt(k), Head(queue[k]).to} \ {None})
      BY <2>2, BeginTypes, BeginSteps
    <3>2. /\ Head(queue'[k]).route = AskedAt(k) /\ Head(queue'[k]).to = Head(queue[k]).to
          /\ Head(queue'[k]).type = Head(queue[k]).type
      BY <3>1 DEF Sane, Events
    <3> QED
      BY <1>1, <3>1, <3>2
  <2> QED
    BY <1>1, <2>1, <2>2, Heads
<1>2. ASSUME NEW l \in Projects, NEW r \in Roots, rec'[l][r] # None
      PROVE  rec[l][r] # None \/ l \in routed
  <2>1. CASE UNCHANGED <<rec, touched>>
    BY <1>2, <2>1
  <2>2. ASSUME NEW k \in Sessions, HookStep(k) PROVE rec[l][r] # None \/ l \in routed
    <3> DEFINE e == Head(queue[k])
    <3>1. /\ turn[k] = "asked" /\ e.route \in Projects
          /\ rec' = [rec EXCEPT ![e.route][RootOf(e.session)] = Written(e.route, e)]
      BY <2>2 DEF HookStep, Hook
    <3>2. RootOf(e.session) \in Roots
      BY <3>1, AskedHead
    <3>3. rec'[l][r] = rec[l][r]
          \/ (l = e.route /\ r = RootOf(e.session) /\ rec'[l][r] = Written(l, e))
      BY <3>1, <3>2 DEF Shape, StoreTypes
    <3>4. e.type # "gone" => e.route \in routed
      BY <3>1, NotNone DEF Known
    <3> QED
      BY <1>2, <3>3, <3>4, GoneBegins
  <2>3. ASSUME NEW k \in Sessions, ArriveStep(k) PROVE rec[l][r] # None \/ l \in routed
    <3> DEFINE e == Head(queue[k])
    <3>1. /\ e.type = "moved" /\ e.to \in Projects /\ e.route \in Projects /\ e.session \in Roots
          /\ turn[k] = "arriving"
      BY <2>3, AskedHead DEF ArriveStep
    <3>2. e.to \in routed
      BY <3>1, NotNone DEF Known
    <3>3. rec'[l][r] = rec[l][r] \/ l = e.to
          \/ (l = e.route /\ r = e.session /\ rec'[l][r] = Released(e))
      BY <2>3, <3>1, ArriveAt
    <3>4. rec[e.route][e.session] = None => Released(e) = None
      BY DEF Released
    <3> QED
      BY <1>2, <3>2, <3>3, <3>4
  <2>4. ASSUME NEW i \in Instances, NEW m \in Projects, Mark(i, m)
        PROVE rec[l][r] # None
    BY <1>2, <2>4 DEF Mark, Shape, StoreTypes, Running
  <2> QED
    BY <2>1, <2>2, <2>3, <2>4, Writers
<1>3. \A l \in Projects, r \in Roots : rec'[l][r] # None => l \in routed'
  BY <1>2, RoutedGrows DEF Known
<1> QED
  BY <1>1, <1>3 DEF Known

LEMMA GoneHead ==
    ASSUME Shape, OnlyGone, NEW k \in Sessions, turn[k] # "idle"
    PROVE  Head(queue[k]).type = "gone" /\ Head(queue[k]).route \in Projects
<1>1. Head(queue[k]) = queue[k][1] /\ 1 \in 1..Len(queue[k]) /\ Head(queue[k]) \in Sane
  BY QueueHead, TheHead DEF Shape, QueueTypes
<1> QED
  BY <1>1 DEF OnlyGone, Sane

\* Where only recovered deletions are queued, no other follows.
LEMMA OnlyGoneStays ==
    ASSUME Shape, OnlyGone, NEW k \in Sessions, turn[k] # "idle",
           Begin(k) \/ \E at : Over(k, at)
    PROVE  OnlyGone'
<1>1. SUFFICES ASSUME NEW j \in Sessions, NEW n \in 1..Len(queue'[j])
               PROVE  queue'[j][n].type = "gone"
  BY DEF OnlyGone
<1>2. queue[k] \in Seq(Sane) /\ queue[k] # <<>> /\ queue \in [Sessions -> Seq(Sane)]
  BY QueueHead DEF Shape, QueueTypes
<1>3. CASE j # k
  <2>1. queue'[j] = queue[j]
    BY <1>2, <1>3, BeginTypes DEF Over
  <2> QED
    BY <2>1 DEF OnlyGone
<1>4. CASE j = k /\ \E at : Over(k, at)
  <2>1. queue'[k] = Tail(queue[k])
    BY <1>2, <1>4 DEF Over
  <2>2. n + 1 \in 1..Len(queue[k]) /\ queue'[k][n] = queue[k][n + 1]
    BY <1>2, <1>4, <2>1, TheHead
  <2> QED
    BY <1>4, <2>2 DEF OnlyGone
<1>5. CASE j = k /\ Begin(k)
  <2>1. /\ QueueTypes' /\ turn'[k] # "idle"
        /\ Head(queue'[k]) = [Head(queue[k]) EXCEPT !.route = AskedAt(k)]
        /\ Head(queue[k]) \in Events
        /\ Len(queue'[k]) = Len(queue[k]) /\ \A m \in 2..Len(queue[k]) : queue'[k][m] = queue[k][m]
    BY <1>5, BeginTypes DEF Sane
  <2>2. Len(queue[k]) \in Nat
    BY <1>2, LenProperties
  <2>3. CASE n = 1
    <3>1. queue'[k][1] = Head(queue'[k])
      <4>1. queue'[k] \in Seq(Sane') /\ queue'[k] # <<>>
        BY <2>1 DEF QueueTypes
      <4> QED
        BY <4>1, TheHead
    <3>2. Head(queue[k]).type = "gone"
      BY GoneHead
    <3> QED
      BY <1>5, <2>1, <2>3, <3>1, <3>2 DEF Events
  <2>4. CASE n # 1
    <3>1. n \in 2..Len(queue[k])
      BY <1>5, <2>1, <2>2, <2>4
    <3> QED
      BY <1>5, <2>1, <2>2, <3>1 DEF OnlyGone
  <2> QED
    BY <2>3, <2>4
<1> QED
  BY <1>3, <1>4, <1>5

\* A publication with no instance listening, where only deletions are queued.
LEMMA LateServes ==
    ASSUME Shape, OnlyGone, Live = {}, ~cut', NEW k \in Sessions, Serve(k)
    PROVE  /\ OnlyGone' /\ UNCHANGED <<inst, todo, cut>> /\ late \subseteq late'
           /\ \A l \in Projects, r \in Roots : rec'[l][r] = rec[l][r] \/ <<l, r>> \in late'
<1> DEFINE e == Head(queue[k])
<1>1. turn[k] # "idle" /\ UNCHANGED <<inst, todo>>
  BY Zenon DEF Serve, Begin, BeginUnread, Outside, Publish, Arrive, Killed, cleanups
<1>2. e.type = "gone" /\ e.route \in Projects
  BY <1>1, GoneHead
<1>3. CASE Begin(k)
  BY <1>1, <1>3, OnlyGoneStays DEF Begin, stores, remarks
<1>4. CASE BeginUnread(k) \/ Outside(k) \/ Killed(k)
  BY <1>4 DEF BeginUnread, Outside, Killed
<1>5. CASE Arrive(k)
  BY <1>2, <1>5, AskedHead DEF Arrive
<1>6. CASE Publish(k)
  <2>1. turn[k] = "asked" /\ RootOf(e.session) \in Roots
    BY <1>6, AskedHead DEF Publish
  <2>2. Over(k, Forgotten(k)) /\ cut' = cut
    BY <1>2, <1>6 DEF Publish
  <2>3. OnlyGone'
    BY <1>1, <2>2, OnlyGoneStays
  <2>4. \/ UNCHANGED <<stores, remarks>>
        \/ /\ rec' = [rec EXCEPT ![e.route][RootOf(e.session)] = Written(e.route, e)]
           /\ late' = late \cup {<<e.route, RootOf(e.session)>>}
    BY <1>2, <1>6 DEF Publish, Hook, Remark
  <2>5. \A l \in Projects, r \in Roots : rec'[l][r] = rec[l][r] \/ <<l, r>> \in late'
    BY <1>2, <2>1, <2>4 DEF stores, Shape, StoreTypes
  <2> QED
    BY <1>1, <2>2, <2>3, <2>4, <2>5 DEF remarks
<1> QED
  BY <1>3, <1>4, <1>5, <1>6 DEF Serve

LEMMA SilentNext == Shape /\ Known /\ Silent /\ [Next]_vars => Silent'
<1> DEFINE Pending(l, r) ==
             \/ <<l, r>> \in late
             \/ \E i \in Instances : inst[i] = "marking" /\ l \in todo[i]
           Marks == OnlyGone /\ \A l \in Projects, r \in Roots :
                      Running(rec[l][r]) /\ ~rec[l][r].marked => Pending(l, r)
<1> SUFFICES ASSUME Shape, Known, Silent, [Next]_vars, ~cut', Live' = {},
                    \A i \in Instances : inst'[i] # "draining"
             PROVE  Marks'
  BY DEF Silent, Running, OnlyGone
<1>0. ~cut /\ Live = {} /\ (\A i \in Instances : inst[i] # "draining") => Marks
  BY DEF Silent
<1>1. CASE UNCHANGED <<inst, queue, rec, todo, late, cut>>
  BY <1>0, <1>1 DEF Live, Running, OnlyGone
<1>2. inst \in [Instances -> {"new", "live", "draining", "marking", "gone"}]
      /\ todo \in [Instances -> SUBSET Projects]
  BY DEF Shape, CoreTypes
<1>3. CASE Admit
  <2>1. Live # {} /\ inst' = inst
    BY <1>3 DEF Admit
  <2> QED
    BY <2>1 DEF Live
<1>4. ASSUME NEW k \in Sessions, Serve(k) PROVE Marks'
  <2>1. inst' = inst /\ ~cut
    <3>1. inst' = inst
      BY Zenon, <1>4 DEF Serve, Begin, BeginUnread, Outside, Publish, Arrive, Killed
    <3>2. ~cut
      BY Zenon, <1>4 DEF Serve, Begin, BeginUnread, Outside, Publish, Arrive, Killed
    <3> QED
      BY <3>1, <3>2
  <2>2. Live = {} /\ \A i \in Instances : inst[i] # "draining"
    BY <2>1 DEF Live
  <2>3. Marks
    BY <1>0, <2>1, <2>2
  <2>4. /\ OnlyGone' /\ UNCHANGED <<inst, todo, cut>> /\ late \subseteq late'
        /\ \A l \in Projects, r \in Roots : rec'[l][r] = rec[l][r] \/ <<l, r>> \in late'
    BY <1>4, <2>2, <2>3, LateServes
  <2> QED
    BY <2>3, <2>4 DEF Running
<1>5. ASSUME NEW i \in Instances, Answer(i) PROVE Marks'
  <2>1. UNCHANGED <<inst, rec, todo, late, life>>
    BY <1>5 DEF Answer, cleanups, stores, remarks, opencode
  <2>2. PICK s \in Sessions, l \in Projects :
           \/ /\ GoneEvent(s, l) \in Sane /\ RootOf(s) \in Sessions
              /\ Enqueue(RootOf(s), <<GoneEvent(s, l)>>) /\ placed' = placed
           \/ UNCHANGED <<registry, cut>>
    BY <1>5, Answers
  <2>3. CASE UNCHANGED <<registry, cut>>
    BY <1>1, <2>1, <2>3 DEF registry
  <2>4. CASE ~UNCHANGED <<registry, cut>>
    <3> DEFINE q == RootOf(s)
               ev == <<GoneEvent(s, l)>>
    <3>1. ev \in Seq(Sane) /\ Len(ev) = 1 /\ ev[1].type = "gone"
      BY <2>2, <2>4 DEF GoneEvent
    <3>2. q \in Sessions /\ Enqueue(q, ev) /\ placed' = placed
      BY <2>2, <2>4
    <3> HIDE DEF ev, q
    <3>3. /\ Len(queue'[q]) \in Len(queue[q])..Len(queue[q]) + Len(ev)
          /\ \A n \in 1..Len(queue[q]) : queue'[q][n] = queue[q][n]
          /\ \A n \in Len(queue[q]) + 1..Len(queue'[q]) : queue'[q][n] = ev[n - Len(queue[q])]
          /\ ~cut
          /\ \A j \in Sessions : j # q => queue'[j] = queue[j]
      <4>1. QueueTypes /\ barrier \in Instances \cup {None}
        BY DEF Shape, CoreTypes
      <4>2. placed' \in [Sessions -> Locations \cup {None}]
        BY <3>2, <4>1 DEF QueueTypes
      <4> QED
        BY <2>1, <3>1, <3>2, <4>1, <4>2, EnqueueTypes
    <3>4. Marks
      BY <1>0, <2>1, <3>3 DEF Live
    <3>5. queue[q] \in Seq(Sane) /\ Len(queue[q]) \in Nat
      BY <3>2, LenProperties DEF Shape, QueueTypes
    <3>6. \A n \in 1..Len(queue'[q]) : queue'[q][n].type = "gone"
      <4> SUFFICES ASSUME NEW n \in 1..Len(queue'[q]) PROVE queue'[q][n].type = "gone"
        OBVIOUS
      <4>1. CASE n \in 1..Len(queue[q])
        BY <3>2, <3>3, <3>4, <4>1 DEF OnlyGone
      <4>2. CASE n \notin 1..Len(queue[q])
        <5>1. n \in Len(queue[q]) + 1..Len(queue'[q]) /\ n - Len(queue[q]) = 1
          BY <3>1, <3>3, <3>5, <4>2
        <5> QED
          BY <3>1, <3>3, <5>1
      <4> QED
        BY <4>1, <4>2
    <3>7. OnlyGone'
      BY <3>3, <3>4, <3>6 DEF OnlyGone
    <3> QED
      BY <2>1, <3>4, <3>7 DEF Running
  <2> QED
    BY <2>3, <2>4
<1>6. ASSUME NEW i \in Instances, Setup(i) PROVE FALSE
  BY <1>2, <1>6 DEF Setup, Live
<1>7. ASSUME NEW i \in Instances, Cleanup(i) PROVE FALSE
  <2>1. CASE Live = {i}
    BY <1>2, <1>7, <2>1 DEF Cleanup
  <2>2. CASE Live # {i}
    <3>1. inst' = [inst EXCEPT ![i] = "gone"] /\ i \in Live
      BY <1>7, <2>2 DEF Cleanup, Live
    <3>2. PICK j \in Instances : j # i /\ inst[j] = "live"
      BY <2>2, <3>1 DEF Live
    <3> QED
      BY <1>2, <3>1, <3>2 DEF Live
  <2> QED
    BY <2>1, <2>2
<1>8. ASSUME NEW i \in Instances, Drained(i) PROVE Marks'
  <2>1. UNCHANGED <<queue, rec>> /\ cut' = (cut \/ (Live = {} /\ ~OnlyGone))
    BY <1>8 DEF Drained, registry, stores
  <2>2. Live = {}
    BY <1>2, <1>8 DEF Drained, Live
  <2>3. OnlyGone'
    BY <2>1, <2>2 DEF OnlyGone
  <2>4. ASSUME NEW l \in Projects, NEW r \in Roots, Running(rec'[l][r])
        PROVE  \E j \in Instances : inst'[j] = "marking" /\ l \in todo'[j]
    <3>1. l \in routed
      BY <2>1, <2>4 DEF Known, Running
    <3>2. inst' = [inst EXCEPT ![i] = "marking"] /\ todo' = [todo EXCEPT ![i] = routed \cap Projects]
      BY <1>8, <2>2, <3>1 DEF Drained
    <3> QED
      BY <1>2, <3>1, <3>2
  <2> QED
    BY <2>3, <2>4
<1>9. ASSUME NEW i \in Instances, Marked(i) PROVE Marks'
  <2>1. /\ UNCHANGED <<queue, rec, late>> /\ cut' = (cut \/ todo[i] # {}) /\ inst[i] = "marking"
        /\ inst' = [inst EXCEPT ![i] = "gone"] /\ todo' = [todo EXCEPT ![i] = {}]
    BY <1>9 DEF Marked, stores, remarks
  <2>2. Live = {} /\ (\A j \in Instances : inst[j] # "draining")
    BY <1>2, <2>1 DEF Live
  <2>3. ~cut /\ todo[i] = {}
    BY <2>1
  <2>4. \A j \in Instances : inst[j] = "marking" /\ todo[j] # {} =>
          inst'[j] = "marking" /\ todo'[j] = todo[j]
    BY <1>2, <2>1, <2>3
  <2>5. Marks
    BY <1>0, <2>2, <2>3
  <2>6. OnlyGone'
    BY <2>1, <2>5 DEF OnlyGone
  <2> QED
    BY <2>1, <2>4, <2>5, <2>6 DEF Running
<1>10. ASSUME NEW i \in Instances, NEW m \in Projects, Mark(i, m) PROVE Marks'
  <2>1. /\ UNCHANGED <<queue, inst, cut>> /\ todo' = [todo EXCEPT ![i] = @ \ {m}]
        /\ late' = late \ ({m} \X Roots)
    BY <1>10 DEF Mark, registry
  <2>2. Live = {} /\ (\A j \in Instances : inst[j] # "draining") /\ ~cut
    BY <2>1 DEF Live
  <2>3. Marks
    BY <1>0, <2>2
  <2>4. ASSUME NEW l \in Projects, NEW r \in Roots, Running(rec'[l][r]), ~rec'[l][r].marked
        PROVE  Pending(l, r)'
    <3>1. l # m /\ rec'[l][r] = rec[l][r]
      <4>1. rec'[m][r] = IF Running(rec[m][r]) THEN [rec[m][r] EXCEPT !.marked = TRUE] ELSE rec[m][r]
        BY <1>10 DEF Mark, Shape, StoreTypes
      <4>2. rec[m][r] \in Records \cup {None}
        BY DEF Shape, StoreTypes
      <4>3. Running(rec'[m][r]) => rec'[m][r].marked
        BY <4>1, <4>2 DEF Running, Records
      <4>4. l # m => rec'[l][r] = rec[l][r]
        BY <1>10 DEF Mark, Shape, StoreTypes
      <4> QED
        BY <2>4, <4>3, <4>4
    <3>2. Pending(l, r)
      BY <2>3, <2>4, <3>1
    <3>3. <<l, r>> \in late => <<l, r>> \in late'
      BY <2>1, <3>1
    <3>4. \A j \in Instances : l \in todo[j] => l \in todo'[j]
      BY <1>2, <2>1, <3>1
    <3> QED
      BY <2>1, <3>2, <3>3, <3>4
  <2>5. OnlyGone'
    BY <2>1, <2>3 DEF OnlyGone
  <2> QED
    BY <2>4, <2>5
<1>11. CASE (\E s \in Sessions : Create(s) \/ Start(s) \/ Finish(s) \/ Delete(s))
            \/ (\E r \in Roots, l \in Locations : Move(r, l))
            \/ \E i \in Instances : Register(i)
  BY <1>1, <1>11 DEF Create, Start, Finish, Delete, Move, Register, Emit, Going, registry,
                     cleanups, stores, remarks
<1>12. CASE UNCHANGED vars
  BY <1>1, <1>12 DEF vars, registry, cleanups, stores, remarks
<1> QED
  BY <1>3, <1>4, <1>5, <1>6, <1>7, <1>8, <1>9, <1>10, <1>11, <1>12 DEF Next

\* Once every instance has gone and marked, no record reads as running, except
\* by a publication or a marking that failed, or by a deletion that a registration
\* still reading from OpenCode has written after the marking.
THEOREM UnobservedIsUnknown == Spec => []UnobservedReadsUnknown
<1> DEFINE IInv == Shape /\ Known /\ Silent
<1>1. Init => IInv
  <2> SUFFICES ASSUME Init PROVE Known /\ Silent
    BY InitShape
  <2>1. /\ \A l \in Projects, r \in Roots : rec[l][r] = None
        /\ \A k \in Sessions : turn[k] = "idle" /\ queue[k] = <<>>
    BY DEF Init
  <2> QED
    BY <2>1 DEF Known, Silent, Running, OnlyGone
<1>2. IInv /\ [Next]_vars => IInv'
  BY NextShape, KnownNext, SilentNext
<1>3. IInv => UnobservedReadsUnknown
  BY DEF Silent, UnobservedReadsUnknown, Live, Running
<1> QED
  BY <1>1, <1>2, <1>3, PTL DEF Spec

-----------------------------------------------------------------------------
(* A root and its children are published one at a time. *)

\* The registry has still to hear that OpenCode created the session.
Announcing(s) == \E n \in 1..Len(stream) : stream[n].type = "created" /\ stream[n].session = s

\* Deleted and forgotten: the registry learns no location for it again.
Lost(s) == life[s] = "deleted" /\ placed[s] = None /\ ~Announcing(s)

Born ==
    /\ \A s \in Sessions : life[s] # "unborn" => life[RootOf(s)] # "unborn"
    /\ \A s \in working : life[s] # "unborn"

\* OpenCode emits a session's creation before anything of it or of its children.
InOrder ==
    \A n \in 1..Len(stream) :
      /\ life[stream[n].session] # "unborn"
      /\ \A m \in n + 1..Len(stream) : stream[m].type = "created" =>
           stream[m].session \notin {stream[n].session, RootOf(stream[n].session)}

\* Who hears every event knows every session that is not deleted.
Announced ==
    ~missed => \A s \in Sessions :
      life[s] # "unborn" /\ placed[s] = None => life[s] = "deleted" \/ Announcing(s)

\* A child has a queue of its own only for what OpenCode cannot be asked about.
Stranded ==
    ~missed => \A k \in Sessions : IsChild(k) =>
      /\ turn[k] \in {"idle", "barred"}
      /\ \A n \in 1..Len(queue[k]) : queue[k][n].route = None /\ queue[k][n].session = k
      /\ queue[k] # <<>> => Lost(k) \/ Lost(RootOf(k))

Heard == Born /\ InOrder /\ Announced /\ Stranded

\* What the server's steps have in common.
LEMMA Emissions ==
    ASSUME Shape, Born,
           \/ \E s \in Sessions : Create(s) \/ Start(s) \/ Finish(s) \/ Delete(s)
           \/ \E r \in Roots, l \in Locations : Move(r, l)
    PROVE  \E s \in Sessions, type \in EventTypes, to \in Locations \cup {None} :
             /\ Emit(s, type, to) /\ (type = "created" <=> life[s] = "unborn")
             /\ life' = [life EXCEPT ![s] = life'[s]] /\ life'[s] # "unborn"
             /\ life[s] = "deleted" => life'[s] = "deleted"
             /\ working' \subseteq working \cup {s}
             /\ type = "created" /\ IsChild(s) => Parent[s] \in working
<1>1. life \in [Sessions -> {"unborn", "here", "deleted"}] /\ Roots \subseteq Sessions
      /\ working \subseteq Sessions
  BY DEF Shape, CoreTypes, Roots
<1>2. ASSUME NEW s \in Sessions, Create(s) PROVE
        /\ Emit(s, "created", None) /\ life[s] = "unborn" /\ life'[s] = "here"
        /\ life' = [life EXCEPT ![s] = life'[s]] /\ working' = working
        /\ IsChild(s) => Parent[s] \in working
  BY <1>1, <1>2 DEF Create
<1>3. ASSUME NEW s \in Sessions, Start(s) PROVE
        Emit(s, "started", None) /\ life[s] # "unborn" /\ life' = life /\ working' \subseteq working \cup {s}
  BY <1>1, <1>3 DEF Start
<1>4. ASSUME NEW s \in Sessions, Finish(s) PROVE
        Emit(s, "ended", None) /\ life[s] # "unborn" /\ life' = life /\ working' \subseteq working
  BY <1>1, <1>4 DEF Finish, Born
<1>5. ASSUME NEW s \in Sessions, Delete(s) PROVE
        /\ Emit(s, "deleted", None) /\ life[s] # "unborn" /\ life'[s] = "deleted"
        /\ life' = [life EXCEPT ![s] = life'[s]] /\ working' \subseteq working
  BY <1>1, <1>5 DEF Delete
<1>6. ASSUME NEW r \in Roots, NEW l \in Locations, Move(r, l) PROVE
        /\ Emit(r, "moved", l) /\ life[r] # "unborn" /\ life' = life /\ working' = working
        /\ r \in Sessions
  BY <1>1, <1>6 DEF Move, Born
<1>7. life' = life => \A s \in Sessions : life' = [life EXCEPT ![s] = life'[s]]
  BY <1>1
<1>8. {"created", "started", "ended", "moved", "deleted"} \subseteq EventTypes
      /\ None \in Locations \cup {None} /\ Locations \subseteq Locations \cup {None}
  BY DEF EventTypes
<1> QED
  BY <1>2, <1>3, <1>4, <1>5, <1>6, <1>7, <1>8

\* The other steps leave OpenCode alone.
LEMMA Others ==
    ASSUME [Next]_vars,
           ~(\E s \in Sessions : Create(s) \/ Start(s) \/ Finish(s) \/ Delete(s)),
           ~(\E r \in Roots, l \in Locations : Move(r, l))
    PROVE  /\ UNCHANGED opencode
           /\ \/ Admit
              \/ \E i \in Instances : Cleanup(i)
              \/ UNCHANGED <<stream, missed>> /\
                   \/ \E k \in Sessions : Serve(k)
                   \/ UNCHANGED <<placed, queue, turn>>
                   \/ UNCHANGED placed /\ \E i \in Instances : Answer(i)
<1>1. CASE UNCHANGED vars
  BY <1>1 DEF vars, registry
<1>2. CASE Admit
  BY Zenon, <1>2 DEF Admit
<1>3. ASSUME NEW k \in Sessions, Serve(k) PROVE UNCHANGED opencode /\ UNCHANGED <<stream, missed>>
  BY Zenon, <1>3 DEF Serve, Begin, BeginUnread, Outside, Publish, Arrive, Killed
<1>4. ASSUME NEW i \in Instances, Answer(i)
      PROVE  UNCHANGED opencode /\ UNCHANGED <<stream, missed, placed>>
  BY <1>4 DEF Answer, registry
<1>5. ASSUME NEW i \in Instances, Setup(i) \/ Register(i) \/ Drained(i) \/ Marked(i)
      PROVE  UNCHANGED opencode /\ UNCHANGED <<stream, missed, placed, queue, turn>>
  BY <1>5 DEF Setup, Register, Drained, Marked, registry
<1>6. ASSUME NEW i \in Instances, Cleanup(i) PROVE UNCHANGED opencode
  BY <1>6 DEF Cleanup
<1>7. ASSUME NEW i \in Instances, NEW l \in Projects, Mark(i, l)
      PROVE  UNCHANGED opencode /\ UNCHANGED <<stream, missed, placed, queue, turn>>
  BY <1>7 DEF Mark, registry
<1> QED
  BY <1>1, <1>2, <1>3, <1>4, <1>5, <1>6, <1>7 DEF Next

LEMMA LifeOn ==
    ASSUME Shape, Born, [Next]_vars, NEW s \in Sessions
    PROVE  /\ life[s] # "unborn" => life'[s] # "unborn"
           /\ life[s] = "deleted" => life'[s] = "deleted"
<1>1. life \in [Sessions -> {"unborn", "here", "deleted"}]
  BY DEF Shape, CoreTypes
<1>2. CASE (\E x \in Sessions : Create(x) \/ Start(x) \/ Finish(x) \/ Delete(x))
           \/ (\E r \in Roots, l \in Locations : Move(r, l))
  <2>1. PICK x \in Sessions :
          /\ life' = [life EXCEPT ![x] = life'[x]] /\ life'[x] # "unborn"
          /\ life[x] = "deleted" => life'[x] = "deleted"
    BY <1>2, Emissions
  <2> QED
    BY <1>1, <2>1
<1>3. CASE life' = life
  BY <1>3
<1> QED
  BY <1>2, <1>3, Others DEF opencode

LEMMA BornNext == Shape /\ Born /\ [Next]_vars => Born'
<1> SUFFICES ASSUME Shape, Born, [Next]_vars PROVE Born'
  OBVIOUS
<1>1. life \in [Sessions -> {"unborn", "here", "deleted"}] /\ working \subseteq Sessions
  BY DEF Shape, CoreTypes
<1>2. CASE (\E s \in Sessions : Create(s) \/ Start(s) \/ Finish(s) \/ Delete(s))
           \/ (\E r \in Roots, l \in Locations : Move(r, l))
  <2>1. PICK x \in Sessions, type \in EventTypes :
          /\ type = "created" <=> life[x] = "unborn"
          /\ life' = [life EXCEPT ![x] = life'[x]] /\ life'[x] # "unborn"
          /\ working' \subseteq working \cup {x}
          /\ type = "created" /\ IsChild(x) => Parent[x] \in working
    BY <1>2, Emissions
  <2>2. ASSUME NEW s \in Sessions, life'[s] # "unborn" PROVE life'[RootOf(s)] # "unborn"
    <3>1. CASE life[s] # "unborn"
      BY <3>1, RootOfRoot, LifeOn DEF Born
    <3>2. CASE life[s] = "unborn"
      <4>1. s = x /\ type = "created"
        BY <1>1, <2>1, <2>2, <3>2
      <4>2. RootOf(s) = s \/ life[RootOf(s)] # "unborn"
        BY <2>1, <4>1 DEF RootOf, IsChild, Born
      <4> QED
        BY <2>2, <4>2, RootOfRoot, LifeOn
    <3> QED
      BY <3>1, <3>2
  <2>3. \A s \in working' : life'[s] # "unborn"
    BY <1>1, <2>1, LifeOn DEF Born
  <2> QED
    BY <2>2, <2>3 DEF Born
<1>3. CASE UNCHANGED opencode
  BY <1>3 DEF Born, opencode
<1> QED
  BY <1>2, <1>3, Others

\* What a server's step adds to the stream.
LEMMA Emitting ==
    ASSUME Shape, NEW s \in Sessions, NEW type, NEW to, Emit(s, type, to)
    PROVE  \/ stream' = stream /\ missed'
           \/ /\ Len(stream') = Len(stream) + 1 /\ Len(stream) \in Nat
              /\ \A n \in 1..Len(stream) : stream'[n] = stream[n]
              /\ stream'[Len(stream) + 1].session = s /\ stream'[Len(stream) + 1].type = type
<1> DEFINE event == [type |-> type, session |-> s, seq |-> seq[s] + 1, to |-> to, route |-> None,
                     from |-> IF type \in {"created", "moved"} THEN home[RootOf(s)] ELSE None]
<1>1. stream' = IF Live = {} THEN stream ELSE Append(stream, event)
  BY DEF Emit, Going
<1>2. missed' = (missed \/ Live = {})
  BY DEF Emit, Going
<1>3. event.session = s /\ event.type = type
  OBVIOUS
<1>4. Len(stream) \in Nat
  BY LenProperties DEF Shape
<1>5. CASE Live = {}
  BY <1>1, <1>2, <1>5, Zenon
<1>6. CASE Live # {}
  <2>1. stream' = Append(stream, event)
    BY <1>1, <1>6
  <2> HIDE DEF event
  <2>2. stream \in Seq(Emitted \cup {event})
    BY SeqMonotonic DEF Shape
  <2>3. /\ Len(stream') = Len(stream) + 1
        /\ \A n \in 1..Len(stream) : stream'[n] = stream[n]
        /\ stream'[Len(stream) + 1] = event
    BY <2>1, <2>2, AppendProperties
  <2> QED
    BY <1>3, <1>4, <2>3
<1> QED
  BY <1>5, <1>6

LEMMA StreamSessions ==
    ASSUME Shape, NEW n \in 1..Len(stream)
    PROVE  /\ stream[n].session \in Sessions /\ RootOf(stream[n].session) \in Sessions
           /\ stream[n] \in Sane /\ n \in Nat
<1>1. stream[n] \in Emitted /\ Len(stream) \in Nat
  BY ElementOfSeq, LenProperties DEF Shape
<1> QED
  BY <1>1, RootOfRoot DEF Emitted, Sane, Events

LEMMA StreamTail ==
    ASSUME Shape, Admit
    PROVE  /\ stream # <<>> /\ Len(stream) \in Nat \ {0} /\ Len(stream') = Len(stream) - 1
           /\ \A n \in 1..Len(stream) - 1 : stream'[n] = stream[n + 1]
           /\ Head(stream) = stream[1]
<1>1. stream # <<>> /\ stream' = Tail(stream)
  BY AdmitSteps
<1> QED
  BY <1>1, TheHead DEF Shape

LEMMA InOrderNext == Shape /\ Born /\ InOrder /\ [Next]_vars => InOrder'
<1> SUFFICES ASSUME Shape, Born, InOrder, [Next]_vars,
                    NEW n \in 1..Len(stream')
             PROVE  /\ life'[stream'[n].session] # "unborn"
                    /\ \A m \in n + 1..Len(stream') : stream'[m].type = "created" =>
                         stream'[m].session \notin {stream'[n].session, RootOf(stream'[n].session)}
  BY DEF InOrder, RootOf
<1>1. CASE (\E s \in Sessions : Create(s) \/ Start(s) \/ Finish(s) \/ Delete(s))
           \/ (\E r \in Roots, l \in Locations : Move(r, l))
  <2>1. PICK x \in Sessions, type \in EventTypes, to \in Locations \cup {None} :
          /\ Emit(x, type, to) /\ (type = "created" <=> life[x] = "unborn")
          /\ life'[x] # "unborn"
    BY <1>1, Emissions
  <2>2. CASE stream' = stream
    BY <2>2, StreamSessions, LifeOn DEF InOrder
  <2>3. CASE /\ Len(stream') = Len(stream) + 1 /\ Len(stream) \in Nat
             /\ \A i \in 1..Len(stream) : stream'[i] = stream[i]
             /\ stream'[Len(stream) + 1].session = x /\ stream'[Len(stream) + 1].type = type
    <3>1. CASE n = Len(stream) + 1
      BY <2>1, <2>3, <3>1
    <3>2. CASE n \in 1..Len(stream)
      <4>1. /\ stream[n].session \in Sessions /\ life[stream[n].session] # "unborn"
            /\ life[RootOf(stream[n].session)] # "unborn"
        BY <3>2, StreamSessions DEF InOrder, Born
      <4>2. ASSUME NEW m \in n + 1..Len(stream'), stream'[m].type = "created"
            PROVE  stream'[m].session \notin {stream'[n].session, RootOf(stream'[n].session)}
        <5>1. CASE m \in n + 1..Len(stream)
          BY <2>3, <3>2, <4>2, <5>1 DEF InOrder
        <5>2. CASE m = Len(stream) + 1
          BY <2>1, <2>3, <3>2, <4>1, <4>2, <5>2
        <5> QED
          BY <2>3, <3>2, <5>1, <5>2
      <4> QED
        BY <2>3, <3>2, <4>1, <4>2, LifeOn
    <3> QED
      BY <2>3, <3>1, <3>2
  <2> QED
    BY <2>1, <2>2, <2>3, Emitting
<1>2. CASE Admit
  <2>1. n + 1 \in 1..Len(stream) /\ stream'[n] = stream[n + 1] /\ Len(stream') = Len(stream) - 1
        /\ \A m \in n + 1..Len(stream') : m + 1 \in n + 2..Len(stream) /\ stream'[m] = stream[m + 1]
    BY <1>2, StreamTail
  <2>2. life[stream[n + 1].session] # "unborn" /\ stream[n + 1].session \in Sessions
    BY <2>1, StreamSessions DEF InOrder
  <2>3. life'[stream'[n].session] # "unborn"
    BY <2>1, <2>2, LifeOn
  <2>4. \A m \in n + 1..Len(stream') : stream[m + 1].type = "created" =>
          stream[m + 1].session \notin {stream[n + 1].session, RootOf(stream[n + 1].session)}
    BY <2>1 DEF InOrder
  <2> QED
    BY <2>1, <2>3, <2>4
<1>3. CASE \E i \in Instances : Cleanup(i)
  <2>1. stream' = stream \/ stream' = <<>>
    BY <1>3 DEF Cleanup
  <2>2. stream' # <<>>
    BY EmptySeq
  <2> QED
    BY <2>1, <2>2, StreamSessions, LifeOn DEF InOrder
<1>4. CASE stream' = stream
  BY <1>4, StreamSessions, LifeOn DEF InOrder
<1> QED
  BY <1>1, <1>2, <1>3, <1>4, Others

\* What a step may teach the registry of a session, or make it forget.
LEMMA Reading ==
    ASSUME Shape, NEW S \in SUBSET Sessions, Readable(S), NEW s \in Sessions
    PROVE  \/ Remembered(S)[s] = placed[s]
           \/ Remembered(S)[s] # None /\ life[s] = "here"
  BY RootOfRoot, NotNone DEF Remembered, Readable, Shape, CoreTypes

LEMMA Forgetting ==
    ASSUME Shape, NEW k \in Sessions, turn[k] # "idle", NEW s \in Sessions
    PROVE  \/ Forgotten(k)[s] = placed[s]
           \/ Forgotten(k)[s] = None /\ life[s] = "deleted"
<1>1. Head(queue[k]) \in Sane
  BY QueueHead DEF Shape
<1>2. placed \in [Sessions -> Locations \cup {None}]
  BY DEF Shape, QueueTypes
<1> QED
  BY <1>1, <1>2 DEF Forgotten, Sane

LEMMA PlacedNext ==
    ASSUME Shape, [Next]_vars, NEW s \in Sessions
    PROVE  \/ placed'[s] = placed[s]
           \/ placed'[s] # None /\ life[s] = "here"
           \/ placed'[s] = None /\ life[s] = "deleted"
           \/ /\ Admit /\ Head(stream).session = s /\ placed'[s] # None
              /\ Head(stream).type = "created" \/ placed[s] # None
<1>1. placed \in [Sessions -> Locations \cup {None}]
  BY DEF Shape, QueueTypes
<1>2. CASE Admit
  <2>1. placed' = AtAdmission(Head(stream)) /\ stream # <<>>
    BY <1>2, AdmitSteps
  <2>2. Head(stream) \in Sane
    BY <2>1, StreamHead
  <2> QED
    BY <1>1, <1>2, <2>1, <2>2, NotNone DEF AtAdmission, Sane
<1>3. ASSUME NEW k \in Sessions, Serve(k)
      PROVE  \/ placed'[s] = placed[s]
             \/ placed'[s] # None /\ life[s] = "here"
             \/ placed'[s] = None /\ life[s] = "deleted"
  <2>1. CASE Begin(k)
    <3>1. placed' = Remembered(ReadAt(k)) /\ Readable(ReadAt(k)) /\ ReadAt(k) \subseteq Sessions
      BY <2>1, BeginSteps, BeginTypes
    <3> QED
      BY <3>1, Reading
  <2>2. CASE BeginUnread(k)
    <3>1. PICK read : /\ read \in {{}, Unknown(Head(queue[k])) \ {RootOf(Head(queue[k]).session)}}
                      /\ Readable(read) /\ Over(k, Remembered(read))
      BY <2>2 DEF BeginUnread
    <3>2. turn[k] # "idle"
      BY <2>2 DEF BeginUnread
    <3>3. read \subseteq Sessions
      BY <3>1, <3>2, QueueHead, RootOfRoot DEF Unknown, Shape
    <3>4. placed' = Remembered(read)
      BY <3>1 DEF Over
    <3> QED
      BY <3>1, <3>3, <3>4, Reading
  <2>3. CASE Outside(k) \/ Publish(k) \/ Arrive(k) \/ Killed(k)
    <3>1. turn[k] # "idle" /\ (placed' = Forgotten(k) \/ placed' = placed)
      BY <2>3 DEF Outside, Publish, Arrive, Killed, Over
    <3> QED
      BY <3>1, Forgetting
  <2> QED
    BY <1>3, <2>1, <2>2, <2>3 DEF Serve
<1>4. CASE (\E x \in Sessions : Create(x) \/ Start(x) \/ Finish(x) \/ Delete(x))
           \/ (\E r \in Roots, l \in Locations : Move(r, l))
  BY <1>4 DEF Create, Start, Finish, Delete, Move, Emit, Going, registry
<1>5. CASE \E i \in Instances : Cleanup(i)
  BY <1>5 DEF Cleanup, registry
<1> QED
  BY <1>2, <1>3, <1>4, <1>5, Others

\* What is announced stays so until it is admitted or nobody listens.
LEMMA Announcement ==
    ASSUME Shape, Born, [Next]_vars, NEW s \in Sessions
    PROVE  /\ Announcing(s) => \/ Announcing(s)' \/ missed'
                              \/ /\ Admit /\ Head(stream).session = s
                                 /\ Head(stream).type = "created"
           /\ Announcing(s)' => Announcing(s) \/ life[s] = "unborn"
           /\ life[s] = "unborn" /\ life'[s] # "unborn" => Announcing(s)' \/ missed'
<1>1. life \in [Sessions -> {"unborn", "here", "deleted"}]
  BY DEF Shape, CoreTypes
<1>2. CASE (\E x \in Sessions : Create(x) \/ Start(x) \/ Finish(x) \/ Delete(x))
           \/ (\E r \in Roots, l \in Locations : Move(r, l))
  <2>1. PICK x \in Sessions, type \in EventTypes, to \in Locations \cup {None} :
          /\ Emit(x, type, to) /\ (type = "created" <=> life[x] = "unborn")
          /\ life' = [life EXCEPT ![x] = life'[x]]
    BY <1>2, Emissions
  <2>2. life[s] = "unborn" /\ life'[s] # "unborn" => s = x /\ type = "created"
    BY <1>1, <2>1
  <2>3. CASE stream' = stream /\ missed'
    BY <2>3 DEF Announcing
  <2>4. CASE /\ Len(stream') = Len(stream) + 1 /\ Len(stream) \in Nat
             /\ \A i \in 1..Len(stream) : stream'[i] = stream[i]
             /\ stream'[Len(stream) + 1].session = x /\ stream'[Len(stream) + 1].type = type
    <3>1. Announcing(s) => Announcing(s)'
      BY <2>4 DEF Announcing
    <3>2. s = x /\ type = "created" => Announcing(s)'
      BY <2>4 DEF Announcing
    <3>3. Announcing(s)' => Announcing(s) \/ (s = x /\ type = "created")
      BY <2>4 DEF Announcing
    <3> QED
      BY <2>1, <2>2, <3>1, <3>2, <3>3
  <2> QED
    BY <2>1, <2>3, <2>4, Emitting
<1>3. CASE Admit
  <2>1. /\ Len(stream) \in Nat \ {0} /\ Len(stream') = Len(stream) - 1
        /\ \A n \in 1..Len(stream) - 1 : stream'[n] = stream[n + 1]
        /\ Head(stream) = stream[1] /\ life' = life
    BY <1>3, StreamTail DEF Admit, opencode
  <2>2. ASSUME NEW n \in 1..Len(stream), stream[n].type = "created", stream[n].session = s
        PROVE  Announcing(s)' \/ (Head(stream).session = s /\ Head(stream).type = "created")
    <3>1. CASE n = 1
      BY <2>1, <2>2, <3>1
    <3>2. CASE n # 1
      <4>1. n - 1 \in 1..Len(stream') /\ stream'[n - 1] = stream[n]
        BY <2>1, <3>2
      <4> QED
        BY <2>2, <4>1 DEF Announcing
    <3> QED
      BY <3>1, <3>2
  <2>3. ASSUME NEW n \in 1..Len(stream'), stream'[n].type = "created", stream'[n].session = s
        PROVE  Announcing(s)
    <3>1. n + 1 \in 1..Len(stream) /\ stream'[n] = stream[n + 1]
      BY <2>1
    <3> QED
      BY <2>3, <3>1 DEF Announcing
  <2> QED
    BY <1>3, <2>1, <2>2, <2>3 DEF Announcing
<1>4. CASE \E i \in Instances : Cleanup(i)
  <2>1. life' = life /\ (stream' = stream \/ (stream' = <<>> /\ missed'))
    BY <1>4, Zenon DEF Cleanup, opencode
  <2>2. CASE stream' = stream
    BY <2>1, <2>2 DEF Announcing
  <2>3. CASE stream' = <<>> /\ missed'
    <3>1. ~Announcing(s)'
      BY <2>3, EmptySeq DEF Announcing
    <3> QED
      BY <2>1, <2>3, <3>1
  <2> QED
    BY <2>1, <2>2, <2>3
<1>5. CASE stream' = stream /\ life' = life
  BY <1>5 DEF Announcing
<1> QED
  BY <1>2, <1>3, <1>4, <1>5, Others DEF opencode

LEMMA LostStays ==
    ASSUME Shape, Born, [Next]_vars, NEW s \in Sessions, Lost(s)
    PROVE  Lost(s)'
<1>1. life'[s] = "deleted"
  BY LifeOn DEF Lost
<1>2. ~Announcing(s)'
  BY Announcement DEF Lost
<1>3. Admit => ~(Head(stream).session = s /\ Head(stream).type = "created")
  BY StreamTail DEF Lost, Announcing
<1>4. placed'[s] = None
  BY <1>3, PlacedNext DEF Lost
<1> QED
  BY <1>1, <1>2, <1>4 DEF Lost

\* Who missed an event has missed it for good.
LEMMA MissedStays ==
    ASSUME [Next]_vars, missed PROVE missed'
<1>1. ASSUME NEW s \in Sessions, NEW type, NEW to, Emit(s, type, to) PROVE missed'
  BY <1>1, Zenon DEF Emit, Going
<1>2. ASSUME NEW i \in Instances, Cleanup(i) PROVE missed'
  BY <1>2, Zenon DEF Cleanup
<1>3. CASE \E s \in Sessions : Create(s) \/ Start(s) \/ Finish(s) \/ Delete(s)
  BY <1>1, <1>3 DEF Create, Start, Finish, Delete
<1>4. CASE \E r \in Roots, l \in Locations : Move(r, l)
  BY <1>1, <1>4 DEF Move, Roots
<1>5. CASE Admit
  BY <1>5 DEF Admit
<1> QED
  BY <1>2, <1>3, <1>4, <1>5, Others

LEMMA AnnouncedNext == Shape /\ Born /\ Announced /\ [Next]_vars => Announced'
<1> SUFFICES ASSUME Shape, Born, Announced, [Next]_vars, ~missed',
                    NEW s \in Sessions, life'[s] # "unborn", placed'[s] = None
             PROVE  life'[s] = "deleted" \/ Announcing(s)'
  BY DEF Announced, Announcing
<1>1. ~missed
  BY MissedStays
<1>2. CASE life[s] = "unborn"
  BY <1>2, Announcement
<1>3. CASE life[s] # "unborn" /\ placed[s] # None
  BY <1>3, PlacedNext, LifeOn
<1>4. CASE life[s] # "unborn" /\ placed[s] = None
  <2>1. life[s] = "deleted" \/ Announcing(s)
    BY <1>1, <1>4 DEF Announced
  <2>2. Admit => ~(Head(stream).session = s /\ Head(stream).type = "created")
    <3> SUFFICES ASSUME Admit, Head(stream).session = s, Head(stream).type = "created" PROVE FALSE
      OBVIOUS
    <3>1. placed' = AtAdmission(Head(stream)) /\ stream # <<>>
      BY AdmitSteps
    <3>2. Head(stream) \in Sane
      BY <3>1, StreamHead
    <3> QED
      BY <3>1, <3>2, NotNone DEF AtAdmission, Sane, Shape, QueueTypes
  <2> QED
    BY <2>1, <2>2, LifeOn, Announcement
<1> QED
  BY <1>2, <1>3, <1>4

\* What admission leaves unplaced is lost: its creation is not to come.
LEMMA Unplaced ==
    ASSUME Shape, Born, InOrder, Admit, Announced', ~missed',
           NEW e, e = Head(stream), NEW x \in {e.session, RootOf(e.session)}, placed'[x] = None
    PROVE  Lost(x)'
<1>1. stream # <<>> /\ life' = life
  BY AdmitSteps DEF Admit, opencode
<1>2. e.session \in Sessions /\ x \in Sessions
  BY <1>1, StreamHead, RootOfRoot
<1>3. ~Announcing(x)'
  <2>1. /\ Len(stream) \in Nat \ {0} /\ Len(stream') = Len(stream) - 1
        /\ \A n \in 1..Len(stream) - 1 : stream'[n] = stream[n + 1]
        /\ stream[1] = e
    BY StreamTail
  <2>2. \A m \in 2..Len(stream) : stream[m].type = "created" => stream[m].session # x
    BY <2>1 DEF InOrder
  <2>3. \A n \in 1..Len(stream') : stream'[n].type = "created" => stream'[n].session # x
    BY <2>1, <2>2
  <2> QED
    BY <2>3 DEF Announcing
<1>4. life'[x] # "unborn"
  <2>1. life[e.session] # "unborn"
    BY StreamTail DEF InOrder
  <2> QED
    BY <1>1, <1>2, <2>1 DEF Born
<1>5. life'[x] = "deleted"
  BY <1>2, <1>3, <1>4 DEF Announced, Announcing
<1> QED
  BY <1>3, <1>5 DEF Lost

\* Admission gives a child a queue of its own only for what it cannot place.
LEMMA OwnQueues ==
    ASSUME Shape, Born, InOrder, Announced, Admit, Announced', ~missed',
           NEW e, e = Head(stream), NEW k \in Sessions, IsChild(k),
           QueueOf(AtAdmission(e), e.session) = k
    PROVE  /\ e.session = k /\ RouteKnown(AtAdmission(e), e.session) = None
           /\ Lost(k)' \/ Lost(RootOf(k))'
<1>1. /\ stream # <<>> /\ placed' = AtAdmission(e) /\ life' = life
  BY AdmitSteps DEF Admit, opencode
<1>2. e \in Sane /\ e.session \in Sessions
  BY <1>1, StreamHead
<1>3. RootOf(e.session) # k
  BY <1>2, RootOfRoot DEF Roots
<1>4. e.session = k /\ RouteKnown(AtAdmission(e), e.session) = None
  BY <1>3 DEF QueueOf
<1>5. placed'[k] = None \/ placed'[RootOf(k)] = None
  BY <1>1, <1>4 DEF RouteKnown
<1> QED
  BY <1>4, <1>5, Unplaced

\* Serving a queue leaves the others alone.
LEMMA ServesOne ==
    ASSUME Shape, NEW j \in Sessions, Serve(j), NEW k \in Sessions, j # k
    PROVE  queue'[k] = queue[k] /\ turn'[k] = turn[k]
<1>1. CASE Begin(j)
  BY <1>1, BeginSteps DEF Shape, QueueTypes
<1>2. CASE BeginUnread(j)
  BY <1>2 DEF BeginUnread, Over, Shape, QueueTypes
<1>3. CASE Outside(j) \/ Publish(j) \/ Arrive(j) \/ Killed(j)
  BY <1>3 DEF Outside, Publish, Arrive, Killed, Over, Shape, QueueTypes
<1> QED
  BY <1>1, <1>2, <1>3 DEF Serve

\* A child's own queue is never served but for dropping what it holds.
LEMMA ChildUnserved ==
    ASSUME Shape, Stranded, ~missed, NEW k \in Sessions, IsChild(k), Serve(k)
    PROVE  BeginUnread(k)
<1>1. /\ turn[k] \in {"idle", "barred"}
      /\ \A n \in 1..Len(queue[k]) : queue[k][n].route = None /\ queue[k][n].session = k
      /\ queue[k] # <<>> => Lost(k) \/ Lost(RootOf(k))
  BY Zenon DEF Stranded
<1>2. Begin(k) \/ BeginUnread(k)
  BY <1>1 DEF Serve, Outside, Publish, Arrive, Killed
<1>3. turn[k] = "barred"
  BY <1>2 DEF Begin, BeginUnread
<1>4. queue[k] # <<>> /\ Head(queue[k]) = queue[k][1] /\ Len(queue[k]) \in Nat \ {0}
  BY <1>3, TheHead, QueueHead DEF Shape, QueueTypes
<1>5. Head(queue[k]).route = None /\ Head(queue[k]).session = k /\ (Lost(k) \/ Lost(RootOf(k)))
  BY <1>1, <1>4
<1> SUFFICES ASSUME Begin(k) PROVE FALSE
  BY <1>2
<1>6. Readable(ReadAt(k)) /\ ReadAt(k) = {s \in {k, RootOf(k)} : placed[s] = None}
  BY <1>5, BeginSteps DEF ReadAt, Unknown
<1> QED
  BY <1>5, <1>6 DEF Readable, Lost

LEMMA StrandedNext == Shape /\ Heard /\ [Next]_vars => Stranded'
<1> SUFFICES ASSUME Shape, Heard, [Next]_vars, ~missed', NEW k \in Sessions, IsChild(k)
             PROVE  /\ turn'[k] \in {"idle", "barred"}
                    /\ \A n \in 1..Len(queue'[k]) : queue'[k][n].route = None /\ queue'[k][n].session = k
                    /\ queue'[k] # <<>> => Lost(k)' \/ Lost(RootOf(k))'
  BY DEF Stranded, Lost, Announcing, RootOf
<1>1. Born /\ InOrder /\ Announced /\ ~missed /\ Announced' /\ RootOf(k) \in Sessions
  BY MissedStays, AnnouncedNext, RootOfRoot DEF Heard
<1>2. /\ turn[k] \in {"idle", "barred"}
      /\ \A n \in 1..Len(queue[k]) : queue[k][n].route = None /\ queue[k][n].session = k
      /\ queue[k] # <<>> => Lost(k) \/ Lost(RootOf(k))
  BY <1>1 DEF Heard, Stranded
<1>3. Lost(k) \/ Lost(RootOf(k)) => Lost(k)' \/ Lost(RootOf(k))'
  BY <1>1, LostStays
<1>4. queue[k] \in Seq(Sane) /\ Len(queue[k]) \in Nat
  BY LenProperties DEF Shape, QueueTypes
<1>0. QueueTypes /\ barrier \in Instances \cup {None} /\ placed \in [Sessions -> Locations \cup {None}]
  BY DEF Shape, CoreTypes, QueueTypes
<1>5. CASE queue'[k] = queue[k] /\ turn'[k] = turn[k]
  BY <1>2, <1>3, <1>5
<1>6. CASE Admit
  <2> DEFINE e == Head(stream)
             ev == [e EXCEPT !.route = RouteKnown(AtAdmission(e), e.session)]
             q == QueueOf(AtAdmission(e), e.session)
  <2>1. stream # <<>> /\ placed' = AtAdmission(e) /\ Enqueue(q, <<ev>>) /\ life' = life
    BY <1>6, AdmitSteps DEF Admit, opencode
  <2>2. e \in Sane /\ e.type # "gone" /\ e.session \in Sessions
    BY <2>1, StreamHead
  <2>3. /\ AtAdmission(e) \in [Sessions -> Locations \cup {None}] /\ q \in Sessions
        /\ ev \in Sane /\ RouteKnown(AtAdmission(e), e.session) \in Locations \cup {None}
    BY <2>2, AdmissionTypes, Routed
  <2>4. ev.route = RouteKnown(AtAdmission(e), e.session) /\ ev.session = e.session
    BY <2>2 DEF Sane, Events
  <2>5. CASE q # k
    <3> HIDE DEF ev, q
    <3>1. <<ev>> \in Seq(Sane)
      BY <2>3
    <3>2. queue'[k] = queue[k] /\ turn'[k] = turn[k]
      BY <1>0, <2>1, <2>3, <2>5, <3>1, EnqueueTypes
    <3> QED
      BY <1>5, <3>2
  <2>6. CASE q = k
    <3>1. ev.session = k /\ ev.route = None /\ (Lost(k)' \/ Lost(RootOf(k))')
      BY <1>1, <1>6, <2>4, <2>6, OwnQueues
    <3> HIDE DEF ev, q
    <3>2. <<ev>> \in Seq(Sane) /\ Len(<<ev>>) = 1 /\ <<ev>>[1] = ev
      BY <2>3
    <3> DEFINE t == <<ev>>
    <3> HIDE DEF t
    <3>3. t \in Seq(Sane) /\ Enqueue(k, t) /\ Len(t) = 1 /\ t[1] = ev
      BY <2>1, <2>6, <3>2 DEF t
    <3>4. /\ turn'[k] = turn[k] \/ (turn[k] = "idle" /\ turn'[k] = "barred")
          /\ Len(queue'[k]) \in Len(queue[k])..Len(queue[k]) + Len(t)
          /\ \A n \in 1..Len(queue[k]) : queue'[k][n] = queue[k][n]
          /\ \A n \in Len(queue[k]) + 1..Len(queue'[k]) : queue'[k][n] = t[n - Len(queue[k])]
      BY <1>0, <2>1, <2>3, <3>3, EnqueueTypes
    <3>5. \A n \in 1..Len(queue'[k]) : queue'[k][n].route = None /\ queue'[k][n].session = k
      BY <1>2, <1>4, <3>1, <3>3, <3>4
    <3> QED
      BY <1>2, <3>1, <3>4, <3>5
  <2> QED
    BY <2>5, <2>6
<1>7. ASSUME NEW i \in Instances, Answer(i)
      PROVE  queue'[k] = queue[k] /\ turn'[k] = turn[k]
  <2>1. PICK s \in Sessions, l \in Projects :
           \/ /\ GoneEvent(s, l) \in Sane /\ RootOf(s) \in Sessions
              /\ Enqueue(RootOf(s), <<GoneEvent(s, l)>>) /\ placed' = placed
           \/ UNCHANGED registry
    BY <1>7, Answers
  <2>2. life' = life /\ k # RootOf(s)
    BY <1>7, RootOfRoot DEF Roots, Answer, opencode
  <2>3. CASE UNCHANGED registry
    BY <2>3 DEF registry
  <2>4. CASE ~UNCHANGED registry
    <3>1. <<GoneEvent(s, l)>> \in Seq(Sane)
      BY <2>1, <2>4
    <3> QED
      BY <1>0, <2>1, <2>2, <2>4, <3>1, EnqueueTypes
  <2> QED
    BY <2>3, <2>4
<1>8. ASSUME NEW j \in Sessions, Serve(j), j # k
      PROVE  queue'[k] = queue[k] /\ turn'[k] = turn[k]
  BY <1>8, ServesOne
<1>9. ASSUME Serve(k)
      PROVE  /\ turn'[k] \in {"idle", "barred"}
             /\ \A n \in 1..Len(queue'[k]) : queue'[k][n].route = None /\ queue'[k][n].session = k
             /\ queue'[k] # <<>> => Lost(k)' \/ Lost(RootOf(k))'
  <2>1. BeginUnread(k)
    BY <1>1, <1>9, ChildUnserved DEF Heard
  <2>2. turn[k] = "barred"
    BY <2>1 DEF BeginUnread
  <2>3. queue[k] # <<>> /\ Head(queue[k]) = queue[k][1] /\ Len(queue[k]) \in Nat \ {0}
    BY <1>4, <2>2, TheHead, QueueHead DEF Shape
  <2>4. Head(queue[k]).route = None /\ Head(queue[k]).session = k /\ (Lost(k) \/ Lost(RootOf(k)))
    BY <1>2, <2>3
  <2>6. PICK read : Over(k, Remembered(read))
    BY <2>1 DEF BeginUnread
  <2>7. queue'[k] = Tail(queue[k]) /\ turn'[k] \in {"idle", "barred"}
    BY <2>6 DEF Over, Shape, QueueTypes
  <2>8. /\ Len(queue'[k]) = Len(queue[k]) - 1
        /\ \A n \in 1..Len(queue[k]) - 1 : queue'[k][n] = queue[k][n + 1]
    BY <1>4, <2>3, <2>7, TheHead
  <2>9. \A n \in 1..Len(queue'[k]) : queue'[k][n].route = None /\ queue'[k][n].session = k
    BY <1>2, <2>3, <2>8
  <2> QED
    BY <1>3, <2>4, <2>7, <2>9
<1>10. CASE UNCHANGED <<queue, turn>>
  BY <1>5, <1>10
<1>11. CASE \/ \E s \in Sessions : Create(s) \/ Start(s) \/ Finish(s) \/ Delete(s)
            \/ \E r \in Roots, l \in Locations : Move(r, l)
            \/ \E i \in Instances : Cleanup(i)
  BY <1>10, <1>11 DEF Create, Start, Finish, Delete, Move, Emit, Going, Cleanup, registry
<1> QED
  BY <1>5, <1>6, <1>7, <1>8, <1>9, <1>10, <1>11, Others

LEMMA HeardInit == Init => Heard
<1> SUFFICES ASSUME Init PROVE Heard
  OBVIOUS
<1>1. /\ \A s \in Sessions : life[s] = "unborn" /\ queue[s] = <<>> /\ turn[s] = "idle"
      /\ working = {} /\ stream = <<>> /\ Len(stream) = 0
  BY EmptySeq DEF Init
<1>2. \A s \in Sessions : Len(queue[s]) = 0
  BY <1>1, EmptySeq
<1> QED
  BY <1>1, <1>2 DEF Heard, Born, InOrder, Announced, Stranded

LEMMA HeardNext == Shape /\ Heard /\ [Next]_vars => Heard'
  BY BornNext, InOrderNext, AnnouncedNext, StrandedNext DEF Heard

\* While the registry has seen every event, no two publications of a root and
\* its children are with the helper at once: a child's own queue is never served.
THEOREM OnePublication == Spec => []OneAtATime
<1>1. Init => Shape /\ Heard
  BY InitShape, HeardInit
<1>2. Shape /\ Heard /\ [Next]_vars => (Shape /\ Heard)'
  BY NextShape, HeardNext
<1>3. Shape /\ Heard => OneAtATime
  <2> SUFFICES ASSUME Heard, ~missed, NEW j \in Sessions, NEW k \in Sessions,
                      turn[j] \in {"asked", "arriving"}, turn[k] \in {"asked", "arriving"},
                      RootOf(j) = RootOf(k)
               PROVE  j = k
    BY DEF OneAtATime
  <2>1. ~IsChild(j) /\ ~IsChild(k)
    BY DEF Heard, Stranded
  <2> QED
    BY <2>1 DEF RootOf, IsChild
<1> QED
  BY <1>1, <1>2, <1>3, PTL DEF Spec

-----------------------------------------------------------------------------
(* What holds of records and queues, whatever the events.                  *)

\* A record lists its root's children, and has ended only with its root.
Owned ==
    \A l \in Projects, r \in Roots : rec[l][r] # None =>
      /\ \A c \in rec[l][r].subs : Parent[c] = r
      /\ rec[l][r].ended => life[r] = "deleted"

\* While somebody listens nothing is marked, nor about to be.
Steady ==
    ~missed =>
      /\ \A i \in Instances : inst[i] \notin {"draining", "marking"} /\ todo[i] = {}
      /\ \A l \in Projects, r \in Roots : rec[l][r] # None => ~rec[l][r].marked

Buried ==
    /\ \A l \in Projects : \A s \in gone[l] : life[s] = "deleted"
    /\ \A s \in ahead : life[s] = "deleted"
    /\ \A s \in working : life[s] = "here"

\* A queue holds events of one root and its children, and of a root that can
\* still be found only such as have a route.
Families ==
    \A k \in Sessions : \A n \in 1..Len(queue[k]) :
      /\ RootOf(queue[k][n].session) = RootOf(k)
      /\ ~missed /\ ~IsChild(k) /\ queue[k][n].route = None => Lost(k)

\* A move that is about to arrive has just been written where it leaves.
Underway ==
    ~missed => \A k \in Sessions : turn[k] = "arriving" =>
      LET e == Head(queue[k])
      IN  /\ e.session = k /\ rec[e.route][k] # None /\ ~rec[e.route][k].ended
          /\ Fresher(k, e.route, e.to)

Settled == Owned /\ Steady /\ Buried /\ Families /\ Underway

\* A record of r's in good order.
Proper(p, r) ==
    p # None => /\ p \in Records /\ \A c \in p.subs : Parent[c] = r
                /\ p.ended => life[r] = "deleted"

\* What is seeded from another store lists children of the same root.
LEMMA CarriedProper ==
    ASSUME Shape, Owned, NEW r \in Roots, NEW l \in Projects, NEW other \in Projects,
           NEW p \in Records \cup {None}, Proper(p, r)
    PROVE  Carried(r, p, l, other) \subseteq Sessions /\ \A c \in Carried(r, p, l, other) : Parent[c] = r
<1> DEFINE seed == rec[other][r]
<1>1. Orelse(p, Blank) \in Records /\ \A c \in Orelse(p, Blank).subs : Parent[c] = r
  BY BlankTypes DEF Orelse, Proper, Blank
<1>2. seed # None => seed \in Records /\ \A c \in seed.subs : Parent[c] = r
  BY DEF Shape, StoreTypes, Owned
<1>3. Orelse(p, Blank).subs \subseteq Sessions /\ (seed # None => seed.subs \subseteq Sessions)
  BY <1>1, <1>2 DEF Records
<1> DEFINE kept == Orelse(p, Blank).subs
           added == IF Orelse(p, Blank).ended THEN p.subs ELSE {}
<1>4. added \subseteq kept
  BY <1>1 DEF Orelse, Blank
<1>5. \/ Carried(r, p, l, other) = kept
      \/ seed # None /\ Carried(r, p, l, other) = seed.subs \cup added
  BY DEF Carried
<1> HIDE DEF seed, kept, added
<1>6. kept \subseteq Sessions /\ \A c \in kept : Parent[c] = r
  BY <1>1, <1>3 DEF kept
<1>7. seed # None => seed.subs \subseteq Sessions /\ \A c \in seed.subs : Parent[c] = r
  BY <1>2, <1>3
<1> QED
  BY <1>4, <1>5, <1>6, <1>7

\* A record written for a move is live and unmarked.
LEMMA MovedProper ==
    ASSUME Shape, Owned, NEW r \in Roots, NEW l \in Projects, NEW to \in Locations,
           NEW p \in Records \cup {None}, Proper(p, r)
    PROVE  /\ Proper(MovedWrite(r, p, l, to), r) /\ MovedWrite(r, p, l, to) \in Records
           /\ ~MovedWrite(r, p, l, to).marked /\ ~MovedWrite(r, p, l, to).ended
           /\ MovedWrite(r, p, l, to) # None
           /\ MovedWrite(r, p, l, to).subs =
                IF to \in Projects THEN Carried(r, p, l, to) ELSE Orelse(p, Blank).subs
<1> DEFINE o == Orelse(p, Blank)
           w == RootWrite(p, TRUE, TRUE)
           subs == IF to \in Projects THEN Carried(r, p, l, to) ELSE o.subs
<1>1. o \in Records /\ (\A c \in o.subs : Parent[c] = r)
  BY BlankTypes DEF Orelse, Proper, Blank
<1>2. w = [o EXCEPT !.turn = TRUE, !.ended = FALSE, !.away = TRUE, !.marked = FALSE]
  BY DEF RootWrite
<1> HIDE DEF o
<1>3. w \in Records /\ w.subs = o.subs /\ ~w.ended /\ ~w.marked
  BY <1>1, <1>2 DEF Records
<1>4. subs \subseteq Sessions /\ \A c \in subs : Parent[c] = r
  BY <1>1, CarriedProper DEF Records
<1> HIDE DEF w
<1>5. MovedWrite(r, p, l, to) = [w EXCEPT !.subs = subs]
  BY <1>3 DEF MovedWrite, w
<1> HIDE DEF subs
<1>6. /\ MovedWrite(r, p, l, to) \in Records /\ MovedWrite(r, p, l, to).subs = subs
      /\ ~MovedWrite(r, p, l, to).marked /\ ~MovedWrite(r, p, l, to).ended
  BY <1>3, <1>4, <1>5 DEF Records
<1> QED
  BY <1>4, <1>6, NoneAssumption DEF Proper, subs, o

LEMMA WrittenProper ==
    ASSUME Shape, Owned, NEW l \in Projects, NEW e \in Sane
    PROVE  /\ Proper(Written(l, e), RootOf(e.session))
           /\ (rec[l][RootOf(e.session)] # None => ~rec[l][RootOf(e.session)].marked)
                => (Written(l, e) # None => ~Written(l, e).marked)
<1> DEFINE r == RootOf(e.session)
           old == rec[l][r]
           p == IF Begins(l, e) THEN Blank ELSE Forget(old)
           subs == Orelse(p, Blank).subs
<1>1. e.session \in Sessions /\ r \in Roots /\ r \in Sessions
  BY RootOfRoot DEF Sane, Events
<1>2. old \in Records \cup {None}
  BY <1>1 DEF Shape, StoreTypes
<1>3. Proper(old, r)
  BY <1>1, <1>2 DEF Proper, Owned
<1>4. Blank \in Records /\ Blank.subs = {} /\ ~Blank.ended /\ ~Blank.marked
  BY BlankTypes DEF Blank
<1>5. p \in Records \cup {None} /\ Proper(p, r) /\ (p # None /\ (old # None => ~old.marked) => ~p.marked)
  BY <1>2, <1>3, <1>4 DEF Proper, Forget, Records
<1>6. subs \subseteq Sessions /\ \A c \in subs : Parent[c] = r
  BY <1>4, <1>5 DEF Orelse, Proper, Records
<1>7. IsChild(e.session) => Parent[e.session] = r
  BY DEF IsChild, RootOf
<1>8. Written(l, e) =
       IF IsChild(e.session)
       THEN CASE e.type \in {"created", "moved"} -> old
              [] e.type = "started" -> ChildWrite(p, subs \cup {e.session})
              [] OTHER -> ChildWrite(p, subs \ {e.session})
       ELSE CASE e.type = "created" -> RootWrite(old, FALSE, FALSE)
              [] e.type = "started" -> RootWrite(p, TRUE, FALSE)
              [] e.type = "ended" -> RootWrite(p, FALSE, FALSE)
              [] e.type = "moved" -> MovedWrite(e.session, p, l, e.to)
              [] OTHER -> EndWrite(p)
  BY DEF Written
<1>9. ~IsChild(e.session) /\ e.type \notin {"created", "started", "ended", "moved"} =>
        life[r] = "deleted"
  BY DEF Sane, Events, EventTypes, IsChild, RootOf
<1> HIDE DEF old, p, subs, r
<1>10. ASSUME NEW S \in SUBSET Sessions, \A c \in S : Parent[c] = r
       PROVE  /\ Proper(ChildWrite(p, S), r)
              /\ p # None /\ ~p.marked /\ ChildWrite(p, S) # None => ~ChildWrite(p, S).marked
  <2>1. CASE p = None \/ (p.ended /\ S = {})
    BY <2>1 DEF ChildWrite, Proper
  <2>2. CASE ~(p = None \/ (p.ended /\ S = {}))
    <3> DEFINE m == p.marked /\ p.ended
    <3>1. p \in Records /\ m \in BOOLEAN /\ (~p.marked => ~m)
      BY <1>5, <2>2 DEF Records
    <3>2. ChildWrite(p, S) = [p EXCEPT !.subs = S, !.marked = m]
      BY <2>2 DEF ChildWrite
    <3> HIDE DEF m
    <3> QED
      BY <1>5, <1>10, <2>2, <3>1, <3>2 DEF Proper, Records
  <2> QED
    BY <2>1, <2>2
<1>11. ASSUME NEW q \in Records \cup {None}, Proper(q, r), NEW b \in BOOLEAN, NEW w \in BOOLEAN
       PROVE  Proper(RootWrite(q, b, w), r) /\ ~RootWrite(q, b, w).marked
  <2> DEFINE o == Orelse(q, Blank)
  <2>1. /\ o \in Records /\ \A c \in o.subs : Parent[c] = r
        /\ RootWrite(q, b, w) = [o EXCEPT !.turn = b, !.ended = FALSE, !.away = w, !.marked = FALSE]
    BY <1>4, <1>11 DEF Orelse, Proper, RootWrite
  <2> HIDE DEF o
  <2> QED
    BY <2>1 DEF Proper, Records
<1>12. life[r] = "deleted" => Proper(EndWrite(p), r) /\ (EndWrite(p) # None => ~EndWrite(p).marked)
  BY <1>5 DEF EndWrite, Proper, Records
<1>13. /\ Proper(ChildWrite(p, subs \ {e.session}), r)
       /\ p # None /\ ~p.marked /\ ChildWrite(p, subs \ {e.session}) # None
            => ~ChildWrite(p, subs \ {e.session}).marked
  BY <1>6, <1>10
<1>14. Parent[e.session] = r =>
         /\ Proper(ChildWrite(p, subs \cup {e.session}), r)
         /\ p # None /\ ~p.marked /\ ChildWrite(p, subs \cup {e.session}) # None
              => ~ChildWrite(p, subs \cup {e.session}).marked
  BY <1>1, <1>6, <1>10
<1>15. ChildWrite(p, subs \cup {e.session}) # None \/ ChildWrite(p, subs \ {e.session}) # None => p # None
  BY DEF ChildWrite
<1>16. CASE IsChild(e.session)
  BY <1>3, <1>5, <1>7, <1>8, <1>13, <1>14, <1>15, <1>16 DEF r, old
<1>17. CASE ~IsChild(e.session)
  <2>1. CASE e.type \in {"created", "started", "ended"}
    BY <1>2, <1>3, <1>5, <1>8, <1>11, <1>17, <2>1 DEF r, old
  <2>2. CASE e.type \notin {"created", "started", "ended", "moved"}
    BY <1>8, <1>9, <1>12, <1>17, <2>2 DEF r, old
  <2>3. CASE e.type = "moved"
    <3>1. e.session = r /\ e.to \in Locations
      BY <1>17, <2>3 DEF r, RootOf, IsChild, Sane, Events
    <3>2. Written(l, e) = MovedWrite(r, p, l, e.to)
      BY <1>8, <1>17, <2>3, <3>1
    <3> QED
      BY <1>1, <1>5, <3>1, <3>2, MovedProper DEF r
  <2> QED
    BY <2>1, <2>2, <2>3
<1> QED
  BY <1>16, <1>17

\* What the helper writes elsewhere than in the record of the event's root.
LEMMA HookAt ==
    ASSUME Shape, NEW k \in Sessions, HookStep(k), NEW l \in Projects, NEW r \in Roots,
           NEW e, e = Head(queue[k])
    PROVE  /\ e \in Sane /\ e.route \in Projects /\ RootOf(e.session) \in Roots
           /\ IF l = e.route /\ r = RootOf(e.session) THEN rec'[l][r] = Written(l, e)
              ELSE rec'[l][r] = rec[l][r]
<1>1. /\ e \in Sane /\ RootOf(e.session) \in Roots /\ e.route \in Projects
      /\ rec' = [rec EXCEPT ![e.route][RootOf(e.session)] = Written(e.route, e)]
  BY AskedHead DEF HookStep, Hook
<1>2. rec \in [Projects -> [Roots -> Records \cup {None}]]
  BY DEF Shape, StoreTypes
<1> QED
  BY <1>1, <1>2

\* What an arrival leaves is in as good an order as what it found.
LEMMA ArrivedProper ==
    ASSUME Shape, Owned, NEW e \in Sane, e.session \in Roots,
           e.route \in Projects, e.to \in Projects
    PROVE  /\ Proper(Arrived(e), e.session) /\ Proper(Released(e), e.session)
           /\ Arrived(e) # None /\ ~Arrived(e).marked
           /\ (rec[e.route][e.session] # None => ~rec[e.route][e.session].marked)
                => (Released(e) # None => ~Released(e).marked)
<1> DEFINE left == rec[e.route][e.session]
           old == rec[e.to][e.session]
           subs == Carried(e.session, old, e.to, e.route)
<1>1. left \in Records \cup {None} /\ old \in Records \cup {None}
  BY DEF Shape, StoreTypes
<1>2. Proper(left, e.session) /\ Proper(old, e.session)
  BY <1>1 DEF Proper, Owned
<1>4. \A c \in subs : Parent[c] = e.session
  BY <1>1, <1>2, CarriedProper
<1>5. Arrived(e) = [Blank EXCEPT !.subs = subs] /\ Arrived(e) \in Records
  BY ArriveTypes DEF Arrived, Shape, Sane
<1> HIDE DEF subs
<1>6. Arrived(e).subs = subs /\ ~Arrived(e).ended /\ ~Arrived(e).marked
  BY <1>5 DEF Blank
<1>7. Proper(Arrived(e), e.session)
  BY <1>4, <1>5, <1>6 DEF Proper
<1>8. Released(e) = IF left = None THEN None
                    ELSE IF left.ended THEN left ELSE [left EXCEPT !.subs = left.subs \ Arrived(e).subs]
  BY DEF Released
<1> HIDE DEF left
<1>9. CASE left # None /\ ~left.ended
  <2>1. left \in Records /\ Released(e) = [left EXCEPT !.subs = left.subs \ Arrived(e).subs]
    BY <1>1, <1>8, <1>9
  <2>2. /\ Released(e) \in Records /\ Released(e).subs \subseteq left.subs
        /\ Released(e).ended = left.ended /\ Released(e).marked = left.marked
    BY <2>1 DEF Records
  <2> QED
    BY <1>2, <1>5, <1>6, <1>7, <1>9, <2>2 DEF Proper, left
<1>10. CASE left = None \/ left.ended
  BY <1>2, <1>5, <1>6, <1>7, <1>8, <1>10 DEF left
<1> QED
  BY <1>9, <1>10

LEMMA MarkAt ==
    ASSUME Shape, NEW i \in Instances, NEW m \in Projects, Mark(i, m),
           NEW l \in Projects, NEW r \in Roots
    PROVE  /\ m \in todo[i]
           /\ \/ rec'[l][r] = rec[l][r]
              \/ rec[l][r] # None /\ rec'[l][r] = [rec[l][r] EXCEPT !.marked = TRUE]
  BY DEF Mark, Shape, StoreTypes, Running

LEMMA OwnedNext == Shape /\ Born /\ Owned /\ [Next]_vars => Owned'
<1> SUFFICES ASSUME Shape, Born, Owned, [Next]_vars, NEW l \in Projects, NEW r \in Roots,
                    rec'[l][r] # None
             PROVE  /\ \A c \in rec'[l][r].subs : Parent[c] = r
                    /\ rec'[l][r].ended => life'[r] = "deleted"
  BY DEF Owned
<1>1. life[r] = "deleted" => life'[r] = "deleted"
  BY LifeOn DEF Roots
<1>2. rec[l][r] \in Records \cup {None} /\ Proper(rec[l][r], r)
  BY DEF Shape, StoreTypes, Owned, Proper
<1>3. ASSUME Proper(rec'[l][r], r)
      PROVE  /\ \A c \in rec'[l][r].subs : Parent[c] = r
             /\ rec'[l][r].ended => life'[r] = "deleted"
  BY <1>1, <1>3 DEF Proper
<1>4. ASSUME NEW k \in Sessions, HookStep(k) PROVE Proper(rec'[l][r], r)
  BY <1>2, <1>4, HookAt, WrittenProper
<1>5. ASSUME NEW k \in Sessions, ArriveStep(k) PROVE Proper(rec'[l][r], r)
  <2> DEFINE e == Head(queue[k])
  <2>1. e \in Sane /\ e.session \in Roots /\ e.route \in Projects /\ e.to \in Projects
    BY <1>5, AskedHead DEF ArriveStep
  <2>2. Proper(Arrived(e), e.session) /\ Proper(Released(e), e.session)
    BY <2>1, ArrivedProper
  <2> QED
    BY SMT, <1>2, <1>5, <2>2, ArriveAt
<1>6. ASSUME NEW i \in Instances, NEW m \in Projects, Mark(i, m) PROVE Proper(rec'[l][r], r)
  <2> DEFINE p == rec[l][r]
             q == [p EXCEPT !.marked = TRUE]
  <2>1. rec'[l][r] = p \/ (p # None /\ rec'[l][r] = q)
    BY <1>6, MarkAt
  <2> HIDE DEF p
  <2>2. p # None => q \in Records /\ q.subs = p.subs /\ q.ended = p.ended
    BY <1>2 DEF p, Records
  <2> HIDE DEF q
  <2> QED
    BY <1>2, <2>1, <2>2 DEF Proper, p
<1>7. CASE UNCHANGED <<rec, touched>>
  BY <1>2, <1>3, <1>7
<1> QED
  BY <1>3, <1>4, <1>5, <1>6, <1>7, Writers

LEMMA SteadyNext == Shape /\ Owned /\ Steady /\ [Next]_vars => Steady'
<1> SUFFICES ASSUME Shape, Owned, Steady, [Next]_vars, ~missed'
             PROVE  /\ \A i \in Instances : inst'[i] \notin {"draining", "marking"} /\ todo'[i] = {}
                    /\ \A l \in Projects, r \in Roots : rec'[l][r] # None => ~rec'[l][r].marked
  BY DEF Steady
<1>1. /\ ~missed
      /\ \A i \in Instances : inst[i] \notin {"draining", "marking"} /\ todo[i] = {}
      /\ \A l \in Projects, r \in Roots : rec[l][r] # None => ~rec[l][r].marked
  BY MissedStays DEF Steady
<1>2. ASSUME NEW i \in Instances, Cleanup(i) PROVE inst' = [inst EXCEPT ![i] = "gone"] /\ todo' = todo
  <2>1. missed' = (missed \/ Live = {i})
    BY <1>2 DEF Cleanup
  <2>2. Live # {i}
    BY <2>1, Zenon
  <2> QED
    BY <1>2, <2>2 DEF Cleanup, cleanups
<1>3. ASSUME NEW i \in Instances, Setup(i) PROVE inst' = [inst EXCEPT ![i] = "live"] /\ todo' = todo
  BY <1>3 DEF Setup, cleanups
<1>4. /\ \A i \in Instances : ~Drained(i) /\ ~Marked(i)
      /\ \A i \in Instances, l \in Projects : ~Mark(i, l)
  BY Zenon, <1>1 DEF Drained, Marked, Mark
<1>5. ASSUME NEW k \in Sessions, Serve(k) PROVE UNCHANGED <<inst, todo>>
  BY Zenon, <1>5 DEF Serve, Begin, BeginUnread, Outside, Publish, Arrive, Killed, cleanups
<1>7. \A i \in Instances : inst'[i] \notin {"draining", "marking"} /\ todo'[i] = {}
  <2>1. CASE UNCHANGED <<inst, todo>>
    BY <1>1, <2>1
  <2>2. CASE \E i \in Instances : Setup(i) \/ Cleanup(i)
    BY <1>1, <1>2, <1>3, <2>2 DEF Shape, CoreTypes
  <2>3. CASE \/ \E s \in Sessions : Create(s) \/ Start(s) \/ Finish(s) \/ Delete(s)
             \/ \E r \in Roots, l \in Locations : Move(r, l)
             \/ Admit
             \/ \E i \in Instances : Register(i) \/ Answer(i)
    BY <2>1, <2>3
    DEF Create, Start, Finish, Delete, Move, Emit, Going, Admit, Register, Answer, cleanups
  <2> QED
    BY <1>4, <1>5, <2>1, <2>2, <2>3 DEF Next, vars, cleanups
<1>8. ASSUME NEW l \in Projects, NEW r \in Roots, rec'[l][r] # None
      PROVE  ~rec'[l][r].marked
  <2>1. ASSUME NEW k \in Sessions, HookStep(k) PROVE ~rec'[l][r].marked
    <3> DEFINE e == Head(queue[k])
    <3>1. /\ e \in Sane
          /\ IF l = e.route /\ r = RootOf(e.session) THEN rec'[l][r] = Written(l, e)
             ELSE rec'[l][r] = rec[l][r]
      BY <2>1, HookAt
    <3> QED
      BY <1>1, <1>8, <3>1, WrittenProper
  <2>2. ASSUME NEW k \in Sessions, ArriveStep(k) PROVE ~rec'[l][r].marked
    <3> DEFINE e == Head(queue[k])
    <3>1. e \in Sane /\ e.session \in Roots /\ e.route \in Projects /\ e.to \in Projects
      BY <2>2, AskedHead DEF ArriveStep
    <3>2. ~Arrived(e).marked /\ (Released(e) # None => ~Released(e).marked)
      BY <1>1, <3>1, ArrivedProper
    <3> QED
      BY <1>1, <1>8, <2>2, <3>2, ArriveAt
  <2>3. CASE UNCHANGED <<rec, touched>>
    BY <1>1, <1>8, <2>3
  <2> QED
    BY <1>4, <2>1, <2>2, <2>3, Writers
<1> QED
  BY <1>7, <1>8

\* Deletions are recorded of what was deleted.
LEMMA GoneAt ==
    ASSUME Shape, [Next]_vars, NEW l \in Projects, NEW s \in gone'[l]
    PROVE  s \in gone[l] \/ (s \in Sessions /\ life[s] = "deleted")
<1>1. ASSUME NEW k \in Sessions, Serve(k), gone' # gone
      PROVE  s \in gone[l] \/ (s \in Sessions /\ life[s] = "deleted")
  <2> DEFINE e == Head(queue[k])
  <2>1. turn[k] \in {"asked", "arriving"} /\ \E m \in Projects : Record(m, e)
    <3>1. Publish(k) \/ Arrive(k)
      BY <1>1 DEF Serve, Begin, BeginUnread, Outside, Killed, stores
    <3>2. CASE Publish(k)
      BY <1>1, <3>2 DEF Publish, stores
    <3>3. CASE Arrive(k)
      BY <1>1, <3>3, AskedHead DEF Arrive, stores
    <3> QED
      BY Zenon, <3>1, <3>2, <3>3
  <2>2. PICK m \in Projects : gone' = [gone EXCEPT ![m] = @ \cup {e.session}]
                              /\ e.type \in {"deleted", "gone"}
    BY <1>1, <2>1 DEF Record
  <2>3. e \in Sane /\ e.session \in Sessions
    BY <2>1, AskedHead
  <2>4. life[e.session] = "deleted"
    BY <2>2, <2>3 DEF Sane
  <2> QED
    BY <2>2, <2>3, <2>4 DEF Shape, StoreTypes
<1>2. CASE \/ \E x \in Sessions : Create(x) \/ Start(x) \/ Finish(x) \/ Delete(x)
           \/ \E r \in Roots, m \in Locations : Move(r, m)
  BY <1>2 DEF Create, Start, Finish, Delete, Move, Emit, Going, stores
<1>3. CASE Admit \/ \E i \in Instances : Register(i) \/ Answer(i)
  BY <1>3 DEF Admit, Register, Answer, stores
<1>4. CASE \/ \E i \in Instances : Setup(i) \/ Cleanup(i) \/ Drained(i) \/ Marked(i)
           \/ \E i \in Instances, m \in Projects : Mark(i, m)
  BY <1>4 DEF Setup, Cleanup, Drained, Marked, Mark, stores
<1> QED
  BY <1>1, <1>2, <1>3, <1>4 DEF Next, vars, stores

LEMMA AheadAt ==
    ASSUME Shape, [Next]_vars
    PROVE  /\ ahead \subseteq ahead'
           /\ \A s \in ahead' : s \in ahead \/ (s \in Sessions /\ life[s] = "deleted")
<1>1. ASSUME NEW i \in Instances, Answer(i)
      PROVE  /\ ahead \subseteq ahead'
             /\ \A s \in ahead' : s \in ahead \/ (s \in Sessions /\ life[s] = "deleted")
  BY <1>1, Answers
<1>2. ASSUME NEW k \in Sessions, Serve(k) PROVE ahead' = ahead
  BY Zenon, <1>2 DEF Serve, Begin, BeginUnread, Outside, Publish, Arrive, Killed, recovery
<1>3. CASE \/ \E x \in Sessions : Create(x) \/ Start(x) \/ Finish(x) \/ Delete(x)
           \/ \E r \in Roots, m \in Locations : Move(r, m)
           \/ Admit
  BY <1>3 DEF Create, Start, Finish, Delete, Move, Emit, Going, Admit, recovery
<1>4. CASE \/ \E i \in Instances : Setup(i) \/ Register(i)
           \/ \E i \in Instances : Cleanup(i) \/ Drained(i) \/ Marked(i)
           \/ \E i \in Instances, m \in Projects : Mark(i, m)
  BY <1>4 DEF Setup, Register, Cleanup, Drained, Marked, Mark, recovery
<1> QED
  BY <1>1, <1>2, <1>3, <1>4 DEF Next, vars, recovery

LEMMA BuriedNext == Shape /\ Born /\ Buried /\ [Next]_vars => Buried'
<1> SUFFICES ASSUME Shape, Born, Buried, [Next]_vars PROVE Buried'
  OBVIOUS
<1>1. \A s \in Sessions : life[s] = "deleted" => life'[s] = "deleted"
  BY LifeOn
<1>2. gone \in [Projects -> SUBSET Sessions] /\ ahead \subseteq Sessions
  BY DEF Shape, CoreTypes, StoreTypes
<1>3. \A l \in Projects : \A s \in gone'[l] : life'[s] = "deleted"
  BY <1>1, <1>2, GoneAt DEF Buried
<1>4. \A s \in ahead' : life'[s] = "deleted"
  BY <1>1, <1>2, AheadAt DEF Buried
<1>5. \A s \in working' : life'[s] = "here"
  <2>1. life \in [Sessions -> {"unborn", "here", "deleted"}] /\ working \subseteq Sessions
        /\ \A s \in working : life[s] = "here"
    BY DEF Shape, CoreTypes, Buried
  <2>2. ASSUME NEW s \in Sessions, Create(s) \/ Start(s) \/ Finish(s) \/ Delete(s)
        PROVE  \A x \in working' : life'[x] = "here"
    BY <2>1, <2>2 DEF Create, Start, Finish, Delete
  <2>3. CASE \E r \in Roots, l \in Locations : Move(r, l)
    BY <2>1, <2>3 DEF Move
  <2> QED
    BY <2>1, <2>2, <2>3, Others DEF opencode
<1> QED
  BY <1>3, <1>4, <1>5 DEF Buried

\* The helper is asked at a location.
LEMMA AskedSomewhere ==
    ASSUME Shape, NEW k \in Sessions, Begin(k) PROVE AskedAt(k) \in Locations
<1> DEFINE e == Head(queue[k])
<1>1. e \in Sane /\ e.session \in Sessions /\ AskedAt(k) \in Locations \cup {None}
  BY BeginTypes DEF Sane, Events
<1>2. CASE e.type = "moved"
  BY <1>1, <1>2 DEF AskedAt, Sane
<1>3. CASE e.type # "moved" /\ e.route = None
  <2>1. /\ RootOf(e.session) \in Roots /\ RootOf(e.session) \in Sessions
        /\ RootOf(RootOf(e.session)) = RootOf(e.session)
    BY <1>1, RootOfRoot
  <2>2. AskedAt(k) = Remembered(ReadAt(k))[RootOf(e.session)]
        /\ (RootOf(e.session) \in ReadAt(k) <=> placed[RootOf(e.session)] = None)
    BY <1>3 DEF AskedAt, ReadAt, Unknown
  <2> QED
    BY <2>1, <2>2 DEF Remembered, Shape, CoreTypes, QueueTypes
<1>4. CASE e.type # "moved" /\ e.route # None
  BY <1>1, <1>4 DEF AskedAt, Sane, Events
<1> QED
  BY <1>2, <1>3, <1>4

\* An event in its own root's queue, with a route if that root is to be found.
Kin(k, e) ==
    /\ RootOf(e.session) = RootOf(k)
    /\ ~missed /\ ~IsChild(k) /\ e.route = None => Lost(k)

KinNext(k, e) ==
    /\ RootOf(e.session) = RootOf(k)
    /\ ~missed' /\ ~IsChild(k) /\ e.route = None => Lost(k)'

LEMMA KinStays ==
    ASSUME Shape, Born, [Next]_vars, NEW k \in Sessions, NEW e, Kin(k, e)
    PROVE  KinNext(k, e)
  BY MissedStays, LostStays DEF Kin, KinNext

LEMMA FamiliesNext == Shape /\ Heard /\ Owned /\ Families /\ [Next]_vars => Families'
<1> SUFFICES ASSUME Shape, Heard, Owned, Families, [Next]_vars,
                    NEW k \in Sessions, NEW n \in 1..Len(queue'[k])
             PROVE  KinNext(k, queue'[k][n])
  BY DEF Families, KinNext, Lost, Announcing, IsChild, RootOf
<1>0. QueueTypes /\ barrier \in Instances \cup {None} /\ placed \in [Sessions -> Locations \cup {None}]
  BY DEF Shape, CoreTypes, QueueTypes
<1>1. Born /\ InOrder /\ Announced' /\ Shape'
  BY AnnouncedNext, NextShape DEF Heard
<1>2. \A m \in 1..Len(queue[k]) : Kin(k, queue[k][m])
  BY DEF Families, Kin
<1>3. ASSUME NEW e, Kin(k, e), queue'[k][n] = e
      PROVE  KinNext(k, queue'[k][n])
  BY <1>1, <1>3, KinStays
<1>4. queue[k] \in Seq(Sane) /\ Len(queue[k]) \in Nat /\ n \in Nat
      /\ queue'[k] \in Seq(Sane') /\ Len(queue'[k]) \in Nat
  BY <1>1, LenProperties DEF Shape, QueueTypes
<1>5. CASE queue'[k] = queue[k]
  BY <1>2, <1>3, <1>5
<1>6. ASSUME NEW at, turn[k] # "idle", Over(k, at) PROVE KinNext(k, queue'[k][n])
  <2>1. queue'[k] = Tail(queue[k]) /\ queue[k] # <<>>
    BY <1>6 DEF Over, Shape, QueueTypes
  <2>2. n + 1 \in 1..Len(queue[k]) /\ queue'[k][n] = queue[k][n + 1]
    BY <1>4, <2>1, TheHead
  <2> QED
    BY <1>2, <1>3, <2>2
<1>7. CASE Begin(k)
  <2>1. /\ Head(queue'[k]) = [Head(queue[k]) EXCEPT !.route = AskedAt(k)]
        /\ Len(queue'[k]) = Len(queue[k]) /\ queue[k] # <<>> /\ queue'[k] # <<>>
        /\ \A m \in 2..Len(queue[k]) : queue'[k][m] = queue[k][m]
        /\ AskedAt(k) # None /\ Head(queue[k]) \in Sane
    <3>1. turn'[k] = "asked" /\ QueueTypes' /\ turn[k] = "barred"
      BY <1>7, BeginTypes, BeginSteps
    <3> QED
      BY <1>7, <3>1, BeginTypes, AskedSomewhere DEF Shape, QueueTypes
  <2>2. CASE n = 1
    <3>1. Head(queue'[k]) = queue'[k][1] /\ Head(queue[k]) = queue[k][1] /\ Len(queue[k]) \in Nat \ {0}
      BY <1>4, <2>1, TheHead
    <3>2. Kin(k, queue[k][1])
      BY <1>2, <3>1
    <3>3. queue'[k][1].session = queue[k][1].session /\ queue'[k][1].route # None
      BY <2>1, <3>1 DEF Sane, Events
    <3> QED
      BY <2>2, <3>2, <3>3 DEF Kin, KinNext, RootOf
  <2>3. CASE n # 1
    <3>1. n \in 2..Len(queue[k]) /\ n \in 1..Len(queue[k])
      BY <1>4, <2>1, <2>3
    <3> QED
      BY <1>2, <1>3, <2>1, <3>1
  <2> QED
    BY <2>2, <2>3
<1>8. ASSUME NEW q \in Sessions, NEW ev \in Seq(Sane), Enqueue(q, ev), life' = life,
             placed' \in [Sessions -> Locations \cup {None}], q = k,
             \A m \in 1..Len(ev) : KinNext(k, ev[m])
      PROVE  KinNext(k, queue'[k][n])
  <2>1. /\ Len(queue'[k]) \in Len(queue[k])..Len(queue[k]) + Len(ev)
        /\ \A m \in 1..Len(queue[k]) : queue'[k][m] = queue[k][m]
        /\ \A m \in Len(queue[k]) + 1..Len(queue'[k]) : queue'[k][m] = ev[m - Len(queue[k])]
    BY <1>0, <1>8, EnqueueTypes
  <2>2. Len(ev) \in Nat
    BY LenProperties
  <2>3. CASE n \in 1..Len(queue[k])
    BY <1>2, <1>3, <2>1, <2>3
  <2>4. CASE n \notin 1..Len(queue[k])
    <3>1. n \in Len(queue[k]) + 1..Len(queue'[k]) /\ n - Len(queue[k]) \in 1..Len(ev)
      BY <1>4, <2>1, <2>2, <2>4
    <3>2. queue'[k][n] = ev[n - Len(queue[k])]
      BY <2>1, <3>1
    <3> QED
      BY <1>8, <3>1, <3>2
  <2> QED
    BY <2>3, <2>4
<1>9. CASE Admit
  <2> DEFINE e == Head(stream)
             at == AtAdmission(e)
             q == QueueOf(at, e.session)
             ev == [e EXCEPT !.route = RouteKnown(at, e.session)]
  <2>1. stream # <<>> /\ placed' = at /\ Enqueue(q, <<ev>>) /\ life' = life
    BY <1>9, AdmitSteps DEF Admit, opencode
  <2>2. e \in Sane /\ e.session \in Sessions
    BY <2>1, StreamHead
  <2>3. /\ at \in [Sessions -> Locations \cup {None}] /\ q \in Sessions /\ ev \in Sane
        /\ RootOf(q) = RootOf(e.session) /\ RouteKnown(at, e.session) \in Locations \cup {None}
    BY <2>2, StreamHead, <2>1, AdmissionTypes, Routed
  <2>4. ev.session = e.session /\ ev.route = RouteKnown(at, e.session)
    BY <2>2 DEF Sane, Events
  <2>5. CASE q = k
    <3>1. ASSUME ~missed', ~IsChild(k), ev.route = None PROVE Lost(k)'
      <4>1. e.session = k /\ RootOf(e.session) = k
        BY <2>4, <2>5, <3>1 DEF QueueOf, RootOf, IsChild
      <4>2. placed'[k] = None
        BY <2>1, <2>4, <3>1, <4>1 DEF RouteKnown
      <4> QED
        BY <1>1, <1>9, <3>1, <4>1, <4>2, Unplaced DEF Heard
    <3>2. KinNext(k, ev)
      BY <2>3, <2>4, <2>5, <3>1 DEF KinNext
    <3> HIDE DEF ev, q, at
    <3> DEFINE t == <<ev>>
    <3>3. t \in Seq(Sane) /\ \A m \in 1..Len(t) : t[m] = ev
      BY <2>3
    <3> HIDE DEF t
    <3>4. Enqueue(q, t) /\ \A m \in 1..Len(t) : KinNext(k, t[m])
      BY <2>1, <3>2, <3>3 DEF t
    <3> QED
      BY <1>8, <2>1, <2>3, <2>5, <3>3, <3>4
  <2>6. CASE q # k
    <3> HIDE DEF ev, q, at
    <3>1. <<ev>> \in Seq(Sane)
      BY <2>3
    <3>2. queue'[k] = queue[k]
      BY <1>0, <2>1, <2>3, <2>6, <3>1, EnqueueTypes
    <3> QED
      BY <1>5, <3>2
  <2> QED
    BY <2>5, <2>6
<1>10. ASSUME NEW i \in Instances, Answer(i)
       PROVE  KinNext(k, queue'[k][n])
  <2>1. CASE queue' = queue
    BY <1>5, <2>1
  <2>2. CASE queue' # queue
    <3>1. PICK s \in Sessions, l \in Projects :
            /\ GoneEvent(s, l) \in Sane /\ RootOf(s) \in Sessions
            /\ Enqueue(RootOf(s), <<GoneEvent(s, l)>>) /\ placed' = placed
      BY <1>10, <2>2, Answers DEF registry
    <3> DEFINE q == RootOf(s)
               t == <<GoneEvent(s, l)>>
    <3>2. life' = life /\ t \in Seq(Sane) /\ Len(t) = 1 /\ t[1] = GoneEvent(s, l)
      BY <1>10, <3>1 DEF Answer, opencode
    <3>3. RootOf(q) = RootOf(s)
      BY RootOfRoot
    <3>4. KinNext(q, GoneEvent(s, l))
      BY <3>3, ConstantsAssumption DEF KinNext, GoneEvent
    <3>5. q \in Sessions /\ Enqueue(q, t)
      BY <3>1
    <3> HIDE DEF q, t
    <3>8. placed' \in [Sessions -> Locations \cup {None}] /\ life' = life
      BY <1>0, <3>1, <3>2
    <3>6. CASE q = k
      <4>1. \A m \in 1..Len(t) : KinNext(k, t[m])
        BY <3>2, <3>4, <3>6
      <4> QED
        BY <1>8, <3>2, <3>5, <3>6, <3>8, <4>1
    <3>7. CASE q # k
      <4>1. queue'[k] = queue[k]
        BY <1>0, <3>2, <3>5, <3>7, <3>8, EnqueueTypes
      <4> QED
        BY <1>5, <4>1
    <3> QED
      BY <3>6, <3>7
  <2> QED
    BY <2>1, <2>2
<1>11. ASSUME NEW j \in Sessions, Serve(j), j # k PROVE queue'[k] = queue[k]
  BY <1>11, ServesOne
<1>12. CASE Serve(k)
  <2>1. CASE BeginUnread(k)
    BY Zenon, <1>6, <2>1 DEF BeginUnread
  <2>2. CASE Outside(k) \/ Publish(k) \/ Arrive(k) \/ Killed(k)
    BY <1>5, <1>6, <2>2 DEF Outside, Publish, Arrive, Killed
  <2> QED
    BY <1>7, <1>12, <2>1, <2>2 DEF Serve
<1>13. CASE \/ \E s \in Sessions : Create(s) \/ Start(s) \/ Finish(s) \/ Delete(s)
            \/ \E r \in Roots, l \in Locations : Move(r, l)
            \/ \E i \in Instances : Cleanup(i)
  BY <1>5, <1>13 DEF Create, Start, Finish, Delete, Move, Emit, Going, Cleanup, registry
<1> QED
  BY <1>5, <1>9, <1>10, <1>11, <1>12, <1>13, Others

\* The record a move leaves lives, and is fresher than where the move arrives.
Leaving(k) ==
    LET e == Head(queue[k])
    IN  /\ e.session = k /\ rec[e.route][k] # None /\ ~rec[e.route][k].ended
        /\ Fresher(k, e.route, e.to)

LEMMA PublishLeaves ==
    ASSUME Shape, Heard, Owned, Families, ~missed, NEW k \in Sessions, Publish(k),
           turn'[k] = "arriving"
    PROVE  Leaving(k)'
<1> DEFINE e == Head(queue[k])
           l == e.route
<1>1. turn[k] = "asked" /\ l \in Projects
  BY DEF Publish
<1>2. Hook(l, e) /\ e.type = "moved" /\ e.to \in Projects /\ queue' = queue
  <2>1. turn \in [Sessions -> {"idle", "barred", "asked", "arriving"}]
    BY DEF Shape, QueueTypes
  <2>2. ~Over(k, Forgotten(k))
    BY <2>1 DEF Over
  <2> QED
    BY <2>2 DEF Publish
<1>3. e \in Sane /\ e.session \in Roots /\ e.session \in Sessions /\ l # e.to
  <2>1. e \in Sane /\ e.route = e.from
    BY <1>1, <1>2, AskedHead DEF Shape, Served
  <2> QED
    BY <1>2, <2>1 DEF Sane, Roots
<1>4. e.session = k /\ RootOf(e.session) = k /\ k \in Roots /\ ~IsChild(e.session)
  <2>1. ~IsChild(k)
    BY <1>1 DEF Heard, Stranded
  <2>2. e = queue[k][1] /\ 1 \in 1..Len(queue[k])
    BY <1>1, TheHead, QueueHead DEF Shape, QueueTypes
  <2>3. RootOf(e.session) = RootOf(k)
    BY <2>2 DEF Families
  <2> QED
    BY <1>3, <2>1, <2>3 DEF Roots, RootOf, IsChild
<1> DEFINE p == IF Begins(l, e) THEN Blank ELSE Forget(rec[l][k])
           w == MovedWrite(k, p, l, e.to)
<1>5. Written(l, e) = w
  BY <1>2, <1>4 DEF Written
<1>6. p \in Records \cup {None} /\ Proper(p, k)
  <2>1. rec[l][k] \in Records \cup {None} /\ Proper(rec[l][k], k)
    BY <1>1, <1>4 DEF Shape, StoreTypes, Owned, Proper
  <2>2. Proper(Blank, k) /\ Blank \in Records
    BY BlankTypes DEF Proper, Blank
  <2> QED
    BY <2>1, <2>2 DEF Forget, Proper, Records
<1> HIDE DEF p
<1>7. w \in Records /\ ~w.ended
  BY <1>1, <1>2, <1>4, <1>6, MovedProper
<1> HIDE DEF w, l
<1>8. w # None /\ Orelse(w, Blank) = w
  BY <1>7, NoneAssumption DEF Orelse
<1>9. Touch(k, l) /\ rec' = [rec EXCEPT ![l][k] = w]
  BY <1>2, <1>4, <1>5, <1>7, <1>8 DEF Hook, Writes
<1>10. rec'[l][k] = w /\ <<l, e.to>> \in touched'[k]
  BY <1>1, <1>2, <1>3, <1>4, <1>9 DEF Touch, Shape, StoreTypes, l
<1> QED
  BY <1>2, <1>4, <1>7, <1>8, <1>10 DEF Leaving, Fresher, l

LEMMA UnderwayNext ==
    Shape /\ Heard /\ Owned /\ Steady /\ Families /\ Underway /\ [Next]_vars => Underway'
<1> SUFFICES ASSUME Shape, Heard, Owned, Steady, Families, Underway, [Next]_vars, ~missed',
                    NEW k \in Sessions, turn'[k] = "arriving"
             PROVE  Leaving(k)'
  BY DEF Underway, Leaving, Fresher
<1>1. /\ ~missed /\ \A i \in Instances : todo[i] = {}
      /\ \A j \in Sessions : turn[j] = "arriving" => Leaving(j)
      /\ \A j \in Sessions : turn[j] \in {"asked", "arriving"} => ~IsChild(j)
  BY MissedStays DEF Steady, Underway, Leaving, Heard, Stranded
<1>2. CASE Serve(k)
  <2>1. turn \in [Sessions -> {"idle", "barred", "asked", "arriving"}]
    BY Zenon DEF Shape, QueueTypes
  <2>2. Publish(k)
    BY Zenon, <1>2, <2>1 DEF Serve, Begin, BeginUnread, Outside, Arrive, Killed, Over
  <2> QED
    BY <1>1, <2>2, PublishLeaves
<1>3. ASSUME turn[k] = "arriving", Head(queue'[k]) = Head(queue[k]),
             NEW l \in Projects, l = Head(queue[k]).route, rec'[l][k] = rec[l][k], touched'[k] = touched[k]
      PROVE  Leaving(k)'
  BY <1>1, <1>3 DEF Leaving, Fresher
<1>4. ASSUME turn[k] = "arriving", Head(queue'[k]) = Head(queue[k]), UNCHANGED <<rec, touched>>
      PROVE  Leaving(k)'
  BY <1>1, <1>4 DEF Leaving, Fresher
<1>5. ASSUME NEW j \in Sessions, Serve(j), j # k PROVE Leaving(k)'
  <2>1. turn[k] = "arriving" /\ queue'[k] = queue[k]
    BY <1>5, ServesOne
  <2>2. k \in Roots /\ Head(queue[k]).route \in Projects
    BY <1>1, <2>1, AskedHead DEF Roots
  <2> DEFINE e == Head(queue[j])
             l == Head(queue[k]).route
  <2>3. CASE HookStep(j)
    <3>1. turn[j] = "asked" /\ e \in Sane /\ RootOf(e.session) = RootOf(j) /\ ~IsChild(j)
      <4>1. turn[j] = "asked"
        BY <2>3 DEF HookStep
      <4>2. e = queue[j][1] /\ 1 \in 1..Len(queue[j]) /\ e \in Sane
        BY <4>1, TheHead, QueueHead DEF Shape, QueueTypes
      <4> QED
        BY <1>1, <4>1, <4>2 DEF Families
    <3>2. RootOf(e.session) # k
      BY <1>5, <3>1 DEF RootOf, IsChild
    <3>3. rec'[l][k] = rec[l][k]
      BY <2>2, <2>3, <3>2, HookAt
    <3>4. touched'[k] = touched[k]
      BY Zenon, <2>2, <2>3, <3>2 DEF HookStep, Hook, Touch, Shape, StoreTypes
    <3> QED
      BY <1>3, <2>1, <2>2, <3>3, <3>4
  <2>4. CASE ArriveStep(j)
    <3>1. e.session = j
      BY <1>1, <2>4 DEF ArriveStep, Leaving
    <3>2. rec'[l][k] = rec[l][k]
      BY SMT, <1>5, <2>2, <2>4, <3>1, ArriveAt
    <3>3. touched'[k] = touched[k]
      BY <1>5, <2>2, <2>4, <3>1 DEF ArriveStep, Touch, Shape, StoreTypes
    <3> QED
      BY <1>3, <2>1, <2>2, <3>2, <3>3
  <2> QED
    BY <1>4, <1>5, <2>1, <2>3, <2>4, ServeWrites
<1>6. CASE UNCHANGED <<rec, touched>> /\ ~(\E j \in Sessions : Serve(j))
  <2>1. turn[k] \in {"asked", "arriving"} /\ Head(queue'[k]) = Head(queue[k])
    BY <1>6, Heads DEF Serve
  <2>2. turn[k] = "arriving"
    <3>1. turn' = turn \/ turn[k] = "arriving"
      <4>1. CASE Admit
        BY Zenon, <4>1, <2>1 DEF Admit, Enqueue, Shape, QueueTypes
      <4>2. CASE \E i \in Instances : Answer(i)
        <5>1. CASE turn' = turn
          BY <5>1
        <5>2. CASE turn' # turn
          <6>1. \E q \in Sessions, t \in Seq(Sane) : Enqueue(q, t)
            <7>1. PICK i \in Instances : Answer(i)
              BY <4>2
            <7>2. PICK s \in Sessions, l \in Projects :
                    /\ GoneEvent(s, l) \in Sane /\ RootOf(s) \in Sessions
                    /\ Enqueue(RootOf(s), <<GoneEvent(s, l)>>)
              BY <5>2, <7>1, Answers DEF registry
            <7>3. <<GoneEvent(s, l)>> \in Seq(Sane)
              BY <7>2
            <7> QED
              BY Zenon, <7>2, <7>3
          <6> QED
            BY Zenon, <2>1, <6>1 DEF Enqueue, Shape, QueueTypes
        <5> QED
          BY <5>1, <5>2
      <4>3. CASE \/ \E s \in Sessions : Create(s) \/ Start(s) \/ Finish(s) \/ Delete(s)
                 \/ \E r \in Roots, l \in Locations : Move(r, l)
                 \/ \E i \in Instances : Cleanup(i)
        BY <4>3 DEF Create, Start, Finish, Delete, Move, Emit, Going, Cleanup, registry
      <4> QED
        BY Zenon, <1>6, <4>1, <4>2, <4>3, Others
    <3> QED
      BY <3>1
  <2> QED
    BY <1>4, <1>6, <2>1, <2>2
<1>7. \A i \in Instances, l \in Projects : ~Mark(i, l)
  BY <1>1 DEF Mark
<1>8. (\E j \in Sessions : Serve(j)) \/ UNCHANGED <<rec, touched>>
  BY <1>7, Writers
<1> QED
  BY <1>2, <1>5, <1>6, <1>8

LEMMA InitSettled == Init => Settled
<1> SUFFICES ASSUME Init PROVE Settled
  OBVIOUS
<1>1. /\ \A k \in Sessions : queue[k] = <<>> /\ turn[k] = "idle"
      /\ \A l \in Projects, r \in Roots : rec[l][r] = None
      /\ \A l \in Projects : gone[l] = {}
      /\ ahead = {} /\ working = {}
      /\ \A i \in Instances : inst[i] = "new" /\ todo[i] = {}
  BY DEF Init
<1>2. \A k \in Sessions : Len(queue[k]) = 0
  BY <1>1, EmptySeq
<1> QED
  BY <1>1, <1>2 DEF Settled, Owned, Steady, Buried, Families, Underway

LEMMA SettledNext == Shape /\ Heard /\ Settled /\ [Next]_vars => Settled'
  BY OwnedNext, SteadyNext, BuriedNext, FamiliesNext, UnderwayNext DEF Settled, Heard

-----------------------------------------------------------------------------
(* A sequence of events leads from one moment to another.                  *)

\* Induction over the natural numbers, on a set.
Before == {n \in Nat \X Nat : n[1] < n[2]}

LEMMA Counting ==
    ASSUME NEW T, 0 \in T, \A n \in Nat : n \in T => n + 1 \in T
    PROVE  Nat \subseteq T
<1>1. IsWellFoundedOn(Before, Nat)
  BY NatLessThanWellFounded, SMT DEF OpToRel, Before
<1> SUFFICES ASSUME Nat \ T # {} PROVE FALSE
  OBVIOUS
<1>2. PICK n \in Nat \ T : \A m \in Nat \ T : ~(<<m, n>> \in Before)
  BY <1>1, WFMin
<1>3. n \in Nat \ {0} /\ \A m \in Nat \ T : ~(m < n)
  BY <1>2 DEF Before
<1>4. n - 1 \in Nat /\ n - 1 < n
  BY <1>3
<1> QED
  BY <1>2, <1>3, <1>4

\* What is known of a root and one child of it at one moment: where it is,
\* whether the child works or has been deleted, the last event of each.
Moments == {x \in [at : Locations, on : BOOLEAN, dead : BOOLEAN, rs : Nat, cs : Nat] :
              x.dead => ~x.on}

\* The events s lead from x to y by the steps of R.
Path(R, s, x, y) ==
    \E f \in [0..Len(s) -> Moments] :
      /\ f[0] = x /\ f[Len(s)] = y
      /\ \A n \in 1..Len(s) : <<s[n], f[n - 1], f[n]>> \in R

LEMMA PathStay ==
    ASSUME NEW R, NEW S, NEW s \in Seq(S), NEW x \in Moments,
           \A n \in 1..Len(s) : <<s[n], x, x>> \in R
    PROVE  Path(R, s, x, x)
<1> DEFINE f == [n \in 0..Len(s) |-> x]
<1>1. Len(s) \in Nat /\ f \in [0..Len(s) -> Moments]
  BY LenProperties
<1>2. f[0] = x /\ f[Len(s)] = x /\ \A n \in 1..Len(s) : f[n - 1] = x /\ f[n] = x
  BY <1>1
<1> HIDE DEF f
<1> QED
  BY <1>1, <1>2 DEF Path

LEMMA PathOne ==
    ASSUME NEW R, NEW e, NEW x \in Moments, NEW y \in Moments, <<e, x, y>> \in R
    PROVE  Path(R, <<e>>, x, y)
<1> DEFINE s == <<e>>
           f == [n \in 0..1 |-> IF n = 0 THEN x ELSE y]
<1>1. Len(s) = 1 /\ s[1] = e
  OBVIOUS
<1>2. f \in [0..1 -> Moments] /\ f[0] = x /\ f[1] = y
  OBVIOUS
<1> HIDE DEF f, s
<1>3. Path(R, s, x, y)
  BY <1>1, <1>2 DEF Path
<1> QED
  BY <1>3 DEF s

LEMMA PathEnds ==
    ASSUME NEW R, NEW S, NEW s \in Seq(S), NEW x, NEW y, Path(R, s, x, y)
    PROVE  x \in Moments /\ y \in Moments /\ (s = <<>> => x = y)
<1>1. Len(s) \in Nat /\ (s = <<>> => Len(s) = 0)
  BY LenProperties, EmptySeq
<1> QED
  BY <1>1 DEF Path

LEMMA PathJoin ==
    ASSUME NEW R, NEW S, NEW s \in Seq(S), NEW t \in Seq(S), NEW x, NEW y, NEW z,
           Path(R, s, x, y), Path(R, t, y, z)
    PROVE  Path(R, s \o t, x, z)
<1> DEFINE u == s \o t
<1>1. /\ Len(s) \in Nat /\ Len(t) \in Nat /\ Len(u) = Len(s) + Len(t)
      /\ \A n \in 1..Len(s) : u[n] = s[n]
      /\ \A n \in Len(s) + 1..Len(u) : u[n] = t[n - Len(s)]
  BY LenProperties, ConcatProperties
<1>2. PICK f \in [0..Len(s) -> Moments] :
        /\ f[0] = x /\ f[Len(s)] = y
        /\ \A n \in 1..Len(s) : <<s[n], f[n - 1], f[n]>> \in R
  BY DEF Path
<1>3. PICK g \in [0..Len(t) -> Moments] :
        /\ g[0] = y /\ g[Len(t)] = z
        /\ \A n \in 1..Len(t) : <<t[n], g[n - 1], g[n]>> \in R
  BY DEF Path
<1> DEFINE h == [n \in 0..Len(u) |-> IF n <= Len(s) THEN f[n] ELSE g[n - Len(s)]]
<1> HIDE DEF u
<1>4. /\ h \in [0..Len(u) -> Moments]
      /\ \A n \in 0..Len(s) : h[n] = f[n]
      /\ \A n \in Len(s)..Len(u) : h[n] = g[n - Len(s)]
  BY <1>1, <1>2, <1>3
<1> HIDE DEF h
<1>5. h[0] = x /\ h[Len(u)] = z
  BY <1>1, <1>2, <1>3, <1>4
<1>6. ASSUME NEW n \in 1..Len(u) PROVE <<u[n], h[n - 1], h[n]>> \in R
  <2>1. CASE n <= Len(s)
    <3>1. n \in 1..Len(s) /\ n \in 0..Len(s) /\ n - 1 \in 0..Len(s)
      BY <1>1, <2>1
    <3>2. u[n] = s[n] /\ h[n] = f[n] /\ h[n - 1] = f[n - 1]
      BY <1>1, <1>4, <3>1
    <3> QED
      BY <1>2, <3>1, <3>2
  <2>2. CASE ~(n <= Len(s))
    <3>1. n - Len(s) \in 1..Len(t) /\ n \in Len(s)..Len(u) /\ n - 1 \in Len(s)..Len(u)
      BY <1>1, <2>2
    <3>2. n \in Len(s) + 1..Len(u) /\ n - 1 - Len(s) = n - Len(s) - 1
      BY <1>1, <2>2
    <3>3. h[n] = g[n - Len(s)] /\ h[n - 1] = g[n - 1 - Len(s)] /\ u[n] = t[n - Len(s)]
      BY <1>1, <1>4, <3>1, <3>2
    <3> QED
      BY <1>3, <3>1, <3>2, <3>3
  <2> QED
    BY <2>1, <2>2
<1>7. Path(R, u, x, z)
  BY <1>4, <1>5, <1>6 DEF Path
<1> QED
  BY <1>7 DEF u

LEMMA PathTail ==
    ASSUME NEW R, NEW S, NEW s \in Seq(S), s # <<>>, NEW x, NEW z, Path(R, s, x, z)
    PROVE  \E y \in Moments : <<Head(s), x, y>> \in R /\ Path(R, Tail(s), y, z)
<1> DEFINE t == Tail(s)
<1>1. /\ Len(s) \in Nat \ {0} /\ Head(s) = s[1] /\ Len(t) = Len(s) - 1
      /\ \A n \in 1..Len(s) - 1 : t[n] = s[n + 1]
  BY TheHead
<1>2. PICK f \in [0..Len(s) -> Moments] :
        /\ f[0] = x /\ f[Len(s)] = z
        /\ \A n \in 1..Len(s) : <<s[n], f[n - 1], f[n]>> \in R
  BY DEF Path
<1> DEFINE g == [n \in 0..Len(t) |-> f[n + 1]]
<1> HIDE DEF t
<1>3. g \in [0..Len(t) -> Moments] /\ \A n \in 0..Len(t) : g[n] = f[n + 1]
  BY <1>1, <1>2
<1> HIDE DEF g
<1>4. g[0] = f[1] /\ g[Len(t)] = z
  BY <1>1, <1>2, <1>3
<1>5. ASSUME NEW n \in 1..Len(t) PROVE <<t[n], g[n - 1], g[n]>> \in R
  <2>1. n + 1 \in 1..Len(s) /\ t[n] = s[n + 1] /\ g[n - 1] = f[n] /\ g[n] = f[n + 1]
    BY <1>1, <1>3
  <2>2. <<s[n + 1], f[n + 1 - 1], f[n + 1]>> \in R /\ n + 1 - 1 = n
    BY <1>2, <2>1
  <2> QED
    BY <2>1, <2>2
<1>6. Path(R, t, f[1], z)
  BY <1>3, <1>4, <1>5 DEF Path
<1>7. f[1] \in Moments /\ <<s[1], x, f[1]>> \in R
  <2>1. 1 \in 1..Len(s) /\ 1 - 1 = 0
    BY <1>1
  <2> QED
    BY <1>2, <2>1
<1> QED
  BY <1>1, <1>6, <1>7 DEF t

\* The first event in another form.
LEMMA PathHead ==
    ASSUME NEW R, NEW S, NEW s \in Seq(S), s # <<>>, NEW p \in Seq(S), p # <<>>,
           Len(p) = Len(s), \A n \in 2..Len(s) : p[n] = s[n],
           NEW x, NEW z, Path(R, s, x, z),
           \A y \in Moments : <<Head(s), x, y>> \in R => <<Head(p), x, y>> \in R
    PROVE  Path(R, p, x, z)
<1>1. Len(s) \in Nat \ {0} /\ Head(s) = s[1] /\ Head(p) = p[1]
  BY TheHead
<1>2. PICK f \in [0..Len(s) -> Moments] :
        /\ f[0] = x /\ f[Len(s)] = z
        /\ \A n \in 1..Len(s) : <<s[n], f[n - 1], f[n]>> \in R
  BY DEF Path
<1>3. <<p[1], f[0], f[1]>> \in R
  <2>1. 1 \in 1..Len(s) /\ 1 - 1 = 0 /\ f[1] \in Moments
    BY <1>1, <1>2
  <2> QED
    BY <1>1, <1>2, <2>1
<1>4. ASSUME NEW n \in 1..Len(p) PROVE <<p[n], f[n - 1], f[n]>> \in R
  <2>1. CASE n = 1
    <3>1. n - 1 = 0
      BY <2>1
    <3> QED
      BY <1>3, <2>1, <3>1
  <2>2. CASE n # 1
    <3>1. n \in 2..Len(s) /\ n \in 1..Len(s)
      BY <1>1, <2>2
    <3> QED
      BY <1>2, <3>1
  <2> QED
    BY <2>1, <2>2
<1> QED
  BY <1>2, <1>4 DEF Path

\* What no event of a path ends holds at its end.
LEMMA PathKeeps ==
    ASSUME NEW R, NEW S, NEW s \in Seq(S), NEW x, NEW y, Path(R, s, x, y), NEW P, x \in P,
           \A n \in 1..Len(s) : \A a, b \in Moments : a \in P /\ <<s[n], a, b>> \in R => b \in P
    PROVE  y \in P
<1>1. Len(s) \in Nat
  BY LenProperties
<1>2. PICK f \in [0..Len(s) -> Moments] :
        /\ f[0] = x /\ f[Len(s)] = y
        /\ \A n \in 1..Len(s) : <<s[n], f[n - 1], f[n]>> \in R
  BY DEF Path
<1> DEFINE T == {n \in Nat : n <= Len(s) => f[n] \in P}
<1>3. 0 \in T
  BY <1>2
<1>4. ASSUME NEW n \in Nat, n \in T PROVE n + 1 \in T
  <2>1. CASE n + 1 <= Len(s)
    <3>1. n + 1 \in 1..Len(s) /\ n + 1 - 1 = n /\ n \in 0..Len(s) /\ n + 1 \in 0..Len(s)
      BY <1>1, <2>1
    <3>2. f[n] \in P /\ f[n] \in Moments /\ f[n + 1] \in Moments /\ <<s[n + 1], f[n], f[n + 1]>> \in R
      BY <1>2, <1>4, <3>1
    <3> QED
      BY <3>1, <3>2
  <2>2. CASE ~(n + 1 <= Len(s))
    BY <2>2
  <2> QED
    BY <2>1, <2>2
<1> HIDE DEF T
<1>5. Len(s) \in T
  BY <1>1, <1>3, <1>4, Counting
<1> QED
  BY <1>1, <1>2, <1>5 DEF T

-----------------------------------------------------------------------------
(* A working child is listed where its root is. *)

Speaks(e, s) == e.session = s /\ e.type # "gone"

\* What an event does to what is known of r and its child c, if it may come.
Follows(r, c, e, x, y) ==
    \/ /\ Speaks(e, r) /\ x.rs < e.seq
       /\ e.type \in {"created", "moved"} => e.from = x.at
       /\ y = [x EXCEPT !.rs = e.seq, !.at = IF e.type = "moved" THEN e.to ELSE @]
    \/ /\ Speaks(e, c) /\ x.cs < e.seq /\ ~x.dead
       /\ e.type = "created" => ~x.on
       /\ y = [x EXCEPT !.cs = e.seq, !.on = (e.type = "started"), !.dead = (e.type = "deleted")]
    \/ /\ ~Speaks(e, r) /\ ~Speaks(e, c) /\ y = x
       /\ e.session = c => x.dead

\* The events OpenCode emits, and those admitted, which go where the root is.
Leads(r, c) == {t \in Events \X Moments \X Moments : Follows(r, c, t[1], t[2], t[3])}
Serves(r, c) == {t \in Leads(r, c) : t[1].type \notin {"moved", "gone"} => t[1].route = t[2].at}

Listed(l, r) == Orelse(rec[l][r], Blank).subs

\* No record of r is fresher than the one at a location, which exists if one does.
Current(r, at) ==
    \A l \in Projects \ {at} : rec[l][r] # None => rec[at][r] # None /\ ~Fresher(r, l, at)

\* The stores hold what was known at x.
Fits(r, c, x) ==
    /\ x.at \in Projects => Current(r, x.at)
    /\ x.at \in Projects => \A l \in Projects : c \in Listed(l, r) <=> l = x.at /\ x.on
    /\ \A l \in Projects :
         /\ c \in gone[l] => x.dead
         /\ entry[l][c] <= x.cs
         /\ \/ entry[l][r] <= x.rs
            \/ /\ turn[r] = "arriving" /\ l = Head(queue[r]).route
               /\ entry[l][r] <= Head(queue[r]).seq

\* The registry knows what was known at m.
Knows(r, c, m) == (placed[r] = None \/ placed[r] = m.at) /\ (Lost(c) => m.dead)

\* OpenCode is where y is.
Reached(r, c, y) ==
    /\ y.at = home[r] /\ (y.on <=> c \in working) /\ (y.dead <=> life[c] = "deleted")
    /\ y.rs <= seq[r] /\ y.cs <= seq[c]

\* From what the stores hold, the queue leads to what the registry knows and
\* the stream from there to OpenCode.
Told(r, c) ==
    \E x, m, y \in Moments :
      /\ Fits(r, c, x) /\ Path(Serves(r, c), queue[r], x, m)
      /\ Knows(r, c, m) /\ Path(Leads(r, c), stream, m, y)
      /\ Reached(r, c, y)

Listings ==
    ~cut /\ ~missed =>
      \A r \in Roots, c \in Sessions :
        Parent[c] = r /\ life[r] # "deleted" /\ c \notin ahead /\ r \notin overtaken => Told(r, c)

LEMMA Heir ==
    ASSUME NEW r \in Roots, NEW c \in Sessions, Parent[c] = r
    PROVE  /\ r \in Sessions /\ RootOf(r) = r /\ ~IsChild(r)
           /\ RootOf(c) = r /\ IsChild(c) /\ c # r
  BY DEF Roots, RootOf, IsChild

\* What one publication does to the list of the record it is written in.
LEMMA ListedAfter ==
    ASSUME Shape, Owned, Buried, NEW l \in Projects, NEW e \in Sane,
           NEW r, r = RootOf(e.session), life[r] # "deleted",
           rec[l][r] # None => ~rec[l][r].marked, NEW c,
           e.type = "moved" => Current(r, l) /\ e.to # l
    PROVE  c \in Orelse(Written(l, e), Blank).subs <=>
             IF IsChild(e.session) /\ e.session = c /\ e.type \notin {"created", "moved"}
             THEN e.type = "started" ELSE c \in Listed(l, r)
<1> DEFINE old == rec[l][r]
           p == IF Begins(l, e) THEN Blank ELSE Forget(old)
           subs == Orelse(p, Blank).subs
<1>1. e.session \in Sessions /\ r \in Roots /\ r \in Sessions
  BY RootOfRoot DEF Sane, Events
<1>2. old \in Records \cup {None} /\ (old # None => ~old.ended /\ ~old.marked)
  BY <1>1 DEF Shape, StoreTypes, Owned
<1>3. r \notin gone[l]
  BY DEF Buried
<1>4. Blank \in Records /\ Blank.subs = {} /\ ~Blank.ended /\ ~Blank.marked
  BY BlankTypes DEF Blank
<1>5. p \in Records \cup {None} /\ (p # None => ~p.ended) /\ (p = None => old = None)
      /\ subs = Orelse(old, Blank).subs
  BY <1>2, <1>4 DEF Forget, Orelse, Begins
<1>6. p = None /\ IsChild(e.session) => e.type # "started"
  BY <1>2, <1>3, <1>4, <1>5 DEF Begins
<1>7. Written(l, e) =
       IF IsChild(e.session)
       THEN CASE e.type \in {"created", "moved"} -> old
              [] e.type = "started" -> ChildWrite(p, subs \cup {e.session})
              [] OTHER -> ChildWrite(p, subs \ {e.session})
       ELSE CASE e.type = "created" -> RootWrite(old, FALSE, FALSE)
              [] e.type = "started" -> RootWrite(p, TRUE, FALSE)
              [] e.type = "ended" -> RootWrite(p, FALSE, FALSE)
              [] e.type = "moved" -> MovedWrite(e.session, p, l, e.to)
              [] OTHER -> EndWrite(p)
  BY DEF Written
<1>8. ~IsChild(e.session) => e.type \in {"created", "started", "ended", "moved"}
  BY DEF Sane, Events, EventTypes, IsChild, RootOf
<1>9. e.type \in {"created", "started", "ended", "moved", "deleted", "gone"}
  BY DEF Sane, Events, EventTypes
<1>17. CASE e.type = "moved"
  <2>1. e.session = r /\ ~IsChild(e.session) /\ e.to \in Locations /\ Current(r, l) /\ e.to # l
    BY <1>17 DEF Sane, Roots, RootOf, IsChild
  <2>7. p = old
    BY <1>2, <1>17 DEF Begins, Forget
  <2>8. Proper(old, r)
    BY <1>1, <1>2 DEF Proper, Owned
  <2>2. Proper(p, r) /\ (old # None => p # None)
    BY <2>7, <2>8
  <2>3. MovedWrite(r, p, l, e.to) # None /\
        MovedWrite(r, p, l, e.to).subs =
                IF e.to \in Projects THEN Carried(r, p, l, e.to) ELSE Orelse(p, Blank).subs
    BY <1>1, <1>5, <2>1, <2>2, MovedProper
  <2>4. e.to \in Projects => Carried(r, p, l, e.to) = Orelse(p, Blank).subs
    BY <2>1, <2>2 DEF Carried, Current
  <2> HIDE DEF p
  <2>5. Written(l, e) = MovedWrite(r, p, l, e.to)
    BY <1>7, <1>17, <2>1
  <2>6. Orelse(Written(l, e), Blank).subs = Orelse(p, Blank).subs
    BY <2>3, <2>4, <2>5 DEF Orelse
  <2> QED
    BY <1>5, <1>17, <2>1, <2>6 DEF Listed
<1> HIDE DEF p, subs
<1>10. ASSUME NEW S \in SUBSET Sessions
       PROVE  Orelse(ChildWrite(p, S), Blank).subs = IF p = None THEN {} ELSE S
  <2>1. CASE p = None
    BY <1>4, <2>1 DEF ChildWrite, Orelse
  <2>2. CASE p # None
    <3> DEFINE mark == p.marked /\ p.ended
               w == [p EXCEPT !.subs = S, !.marked = mark]
    <3>1. p \in Records /\ ChildWrite(p, S) = w
      BY <1>5, <2>2 DEF ChildWrite
    <3>2. mark \in BOOLEAN
      BY <3>1 DEF Records
    <3> HIDE DEF mark
    <3>3. w \in Records /\ w.subs = S
      BY <3>1, <3>2 DEF Records
    <3> HIDE DEF w
    <3> QED
      BY <2>2, <3>1, <3>3 DEF Orelse
  <2> QED
    BY <2>1, <2>2
<1>11. ASSUME NEW q \in Records \cup {None}, NEW b \in BOOLEAN, NEW a \in BOOLEAN
       PROVE  Orelse(RootWrite(q, b, a), Blank).subs = Orelse(q, Blank).subs
  <2> DEFINE o == Orelse(q, Blank)
             w == [o EXCEPT !.turn = b, !.ended = FALSE, !.away = a, !.marked = FALSE]
  <2>1. o \in Records /\ RootWrite(q, b, a) = w
    BY <1>4 DEF Orelse, RootWrite
  <2> HIDE DEF o
  <2>2. w \in Records /\ w.subs = o.subs
    BY <2>1 DEF Records
  <2> HIDE DEF w
  <2>3. Orelse(w, Blank) = w
    BY <2>2 DEF Orelse
  <2> QED
    BY <2>1, <2>2, <2>3 DEF o
<1>12. subs \subseteq Sessions
  BY <1>4, <1>5 DEF Orelse, Records, subs
<1>13. p = None => subs = {}
  BY <1>4 DEF subs, Orelse
<1>14. Listed(l, r) = subs /\ Orelse(old, Blank).subs = subs
  BY <1>5 DEF Listed
<1>15. CASE ~IsChild(e.session)
  <2>1. \/ Written(l, e) = RootWrite(old, FALSE, FALSE) \/ Written(l, e) = RootWrite(p, TRUE, FALSE)
        \/ Written(l, e) = RootWrite(p, FALSE, FALSE) \/ e.type = "moved"
    BY <1>7, <1>8, <1>15
  <2>2. e.type # "moved" => Orelse(Written(l, e), Blank).subs = subs
    BY <1>2, <1>5, <1>11, <1>14, <2>1 DEF subs
  <2> QED
    BY <1>14, <1>15, <1>17, <2>2
<1>16. CASE IsChild(e.session)
  <2>1. CASE e.type \in {"created", "moved"}
    BY <1>7, <1>14, <1>16, <2>1
  <2>2. CASE e.type = "started"
    <3>1. Written(l, e) = ChildWrite(p, subs \cup {e.session}) /\ p # None
      BY <1>6, <1>7, <1>16, <2>2
    <3>2. Orelse(Written(l, e), Blank).subs = subs \cup {e.session}
      BY <1>1, <1>10, <1>12, <3>1
    <3> QED
      BY <1>14, <1>16, <2>2, <3>2
  <2>3. CASE e.type \notin {"created", "moved", "started"}
    <3>1. Written(l, e) = ChildWrite(p, subs \ {e.session})
      BY <1>7, <1>16, <2>3
    <3>2. Orelse(Written(l, e), Blank).subs = subs \ {e.session}
      BY <1>10, <1>12, <1>13, <3>1
    <3> QED
      BY <1>14, <1>16, <2>3, <3>2
  <2> QED
    BY <2>1, <2>2, <2>3
<1> QED
  BY <1>15, <1>16

\* What a Publisher Record is told of one session leaves the others alone.
LEMMA RecordAt ==
    ASSUME Shape, NEW m \in Projects, NEW e \in Events, Record(m, e),
           NEW l \in Projects, NEW s \in Sessions
    PROVE  IF l = m /\ s = e.session
           THEN IF e.type \in {"deleted", "gone"}
                THEN entry'[l][s] = 0 /\ s \in gone'[l]
                ELSE entry'[l][s] = e.seq /\ (s \in gone'[l] <=> s \in gone[l])
           ELSE entry'[l][s] = entry[l][s] /\ (s \in gone'[l] <=> s \in gone[l])
<1>1. e.session \in Sessions /\ e.seq \in Nat
  BY DEF Events
<1>2. entry \in [Projects -> [Sessions -> Nat]] /\ gone \in [Projects -> SUBSET Sessions]
  BY DEF Shape, StoreTypes
<1>3. CASE e.type \in {"deleted", "gone"}
  BY <1>1, <1>2, <1>3 DEF Record
<1>4. CASE e.type \notin {"deleted", "gone"}
  BY <1>1, <1>2, <1>4 DEF Record
<1> QED
  BY <1>3, <1>4

\* While nothing fails, only roots' queues are served.
LEMMA RootServed ==
    ASSUME Shape, Heard, Families, ~cut', ~missed, NEW k \in Sessions, Serve(k)
    PROVE  /\ k \in Roots /\ RootOf(k) = k
           /\ Begin(k) \/ Publish(k) \/ Arrive(k)
           /\ turn[k] # "idle" /\ queue[k] # <<>> /\ Head(queue[k]) \in Sane
           /\ Head(queue[k]).session \in Sessions /\ RootOf(Head(queue[k]).session) = k
<1>1. ~BeginUnread(k) /\ ~Outside(k) /\ ~Killed(k)
  BY DEF BeginUnread, Outside, Killed
<1>2. ~IsChild(k)
  BY <1>1, ChildUnserved DEF Heard
<1>3. Begin(k) \/ Publish(k) \/ Arrive(k)
  BY Zenon, <1>1 DEF Serve
<1>4. turn[k] # "idle"
  BY Zenon, <1>3 DEF Begin, Publish, Arrive
<1>5. /\ queue[k] # <<>> /\ Head(queue[k]) \in Sane /\ Head(queue[k]).session \in Sessions
      /\ Head(queue[k]) = queue[k][1] /\ 1 \in 1..Len(queue[k])
  BY <1>4, QueueHead, TheHead DEF Shape, QueueTypes
<1> QED
  BY <1>2, <1>3, <1>4, <1>5 DEF Families, Roots, RootOf, IsChild

\* A root's publication leaves the other roots and their children alone.
LEMMA ServeElsewhere ==
    ASSUME Shape, Heard, Settled, ~cut', ~missed, NEW k \in Sessions, Serve(k),
           NEW r \in Roots, r # k, NEW s \in Sessions, RootOf(s) = r
    PROVE  /\ queue'[r] = queue[r] /\ turn'[r] = turn[r] /\ placed'[s] = placed[s]
           /\ \A l \in Projects :
                rec'[l][r] = rec[l][r] /\ entry'[l][s] = entry[l][s]
                /\ (s \in gone'[l] <=> s \in gone[l])
           /\ touched'[r] = touched[r]
<1> DEFINE e == Head(queue[k])
<1>1. /\ k \in Roots /\ RootOf(k) = k /\ e \in Sane /\ e \in Events
      /\ e.session \in Sessions /\ RootOf(e.session) = k /\ turn[k] # "idle"
      /\ Begin(k) \/ Publish(k) \/ Arrive(k)
  BY RootServed DEF Settled, Sane
<1>2. s # e.session /\ s # k /\ r \in Sessions
  BY <1>1 DEF Roots
<1>3. queue'[r] = queue[r] /\ turn'[r] = turn[r]
  BY <1>2, ServesOne
<1>4. CASE Begin(k)
  <2>1. UNCHANGED <<rec, touched, entry, gone>>
    BY <1>4 DEF Begin, stores
  <2>2. placed' = Remembered(ReadAt(k)) /\ ReadAt(k) \subseteq {e.session, k}
    BY <1>1, <1>4, BeginSteps DEF ReadAt, Unknown
  <2>3. placed'[s] = placed[s]
    BY <1>2, <2>2 DEF Remembered
  <2> QED
    BY <1>3, <2>1, <2>3
<1>5. CASE Publish(k) \/ Arrive(k)
  <2>1. placed'[s] = placed[s]
    BY Zenon, <1>1, <1>2, <1>5 DEF Publish, Arrive, Over, Forgotten, Shape, QueueTypes
  <2>2. \A l \in Projects : rec'[l][r] = rec[l][r]
    <3>1. CASE HookStep(k)
      BY <1>1, <3>1, HookAt
    <3>2. CASE ArriveStep(k)
      <4>1. e.session = k
        BY Zenon, <1>1, <3>2, AskedHead DEF ArriveStep, Roots, RootOf, IsChild
      <4> QED
        BY <3>2, <4>1, ArriveAt
    <3> QED
      BY <1>1, <3>1, <3>2, ServeWrites
  <2>3. ASSUME NEW l \in Projects
        PROVE  entry'[l][s] = entry[l][s] /\ (s \in gone'[l] <=> s \in gone[l])
    <3>1. UNCHANGED <<entry, gone>> \/ \E m \in Projects : Record(m, e)
      <4>1. CASE Publish(k)
        BY <4>1 DEF Publish, stores
      <4>2. CASE Arrive(k)
        BY <4>2, AskedHead DEF Arrive, stores
      <4> QED
        BY <1>5, <4>1, <4>2
    <3> QED
      BY <1>1, <1>2, <3>1, RecordAt
  <2>4. touched'[r] = touched[r]
    <3>1. touched \in [Roots -> SUBSET (Projects \X Projects)]
      BY DEF Shape, StoreTypes
    <3>2. CASE HookStep(k)
      BY Zenon, <1>1, <3>1, <3>2 DEF HookStep, Hook, Touch
    <3>3. CASE ArriveStep(k)
      <4>1. e.session = k
        BY Zenon, <1>1, <3>3, AskedHead DEF ArriveStep, Roots, RootOf, IsChild
      <4> QED
        BY Zenon, <1>1, <3>1, <3>3, <4>1 DEF ArriveStep, Touch
    <3> QED
      BY <1>1, <3>2, <3>3, ServeWrites
  <2> QED
    BY <1>3, <2>1, <2>2, <2>3, <2>4
<1> QED
  BY <1>1, <1>4, <1>5

\* The stores go on holding what they held.
LEMMA FitsKept ==
    ASSUME NEW r \in Roots, NEW c \in Sessions, NEW x, Fits(r, c, x),
           \A l \in Projects : /\ rec'[l][r] = rec[l][r]
                               /\ entry'[l][r] = entry[l][r] /\ entry'[l][c] = entry[l][c]
                               /\ c \in gone'[l] <=> c \in gone[l],
           touched'[r] = touched[r],
           turn[r] = "arriving" => turn'[r] = "arriving" /\ Head(queue'[r]) = Head(queue[r])
    PROVE  Fits(r, c, x)'
<1>1. \A l \in Projects : Listed(l, r)' = Listed(l, r)
  BY DEF Listed
<1>2. \A l \in Projects : Current(r, l) => Current(r, l)'
  BY DEF Current, Fresher
<1> QED
  BY <1>1, <1>2 DEF Fits

\* Who was not lost is lost only with the end of its deletion's publication.
LEMMA LostNext ==
    ASSUME Shape, Born, Announced, [Next]_vars, ~missed', NEW s \in Sessions, Lost(s)'
    PROVE  Lost(s) \/ (life[s] = "deleted" /\ placed[s] # None /\ placed'[s] = None)
<1>1. ~missed
  BY MissedStays
<1>2. /\ life'[s] = "deleted" /\ placed'[s] = None /\ ~Announcing(s)'
  BY DEF Lost
<1>3. life[s] # "unborn"
  BY <1>2, Announcement
<1>4. Announcing(s) => /\ Admit /\ Head(stream).session = s /\ Head(stream).type = "created"
  BY <1>2, Announcement
<1>5. ~Announcing(s)
  <2> SUFFICES ASSUME Announcing(s) PROVE FALSE
    OBVIOUS
  <2>1. /\ stream # <<>> /\ placed' = AtAdmission(Head(stream))
        /\ Head(stream).session = s /\ Head(stream).type = "created"
    BY <1>4, AdmitSteps
  <2>2. Head(stream) \in Sane
    BY <2>1, StreamHead
  <2> QED
    BY <1>2, <2>1, <2>2, NotNone DEF AtAdmission, Sane, Shape, QueueTypes
<1>6. CASE placed[s] = None
  <2>1. life[s] = "deleted"
    BY <1>1, <1>3, <1>5, <1>6 DEF Announced
  <2> QED
    BY <1>5, <1>6, <2>1 DEF Lost
<1>7. CASE placed[s] # None
  <2>1. life[s] = "deleted"
    BY <1>2, <1>7, PlacedNext
  <2> QED
    BY <1>2, <1>7, <2>1
<1> QED
  BY <1>6, <1>7

-----------------------------------------------------------------------------
(* What each step does to it. *)

LEMMA ToldNext ==
    ASSUME NEW r \in Roots, NEW c \in Sessions, NEW x \in Moments, NEW m \in Moments, NEW y \in Moments,
           Fits(r, c, x)', Path(Serves(r, c), queue'[r], x, m),
           Knows(r, c, m)', Path(Leads(r, c), stream', m, y), Reached(r, c, y)'
    PROVE  Told(r, c)'
  BY DEF Told

\* What the server's steps do to it, seen from a root and its child.
LEMMA Server ==
    ASSUME Shape, Buried,
           \/ \E s \in Sessions : Create(s) \/ Start(s) \/ Finish(s) \/ Delete(s)
           \/ \E r \in Roots, l \in Locations : Move(r, l)
    PROVE  \E s \in Sessions, type \in EventTypes, to \in Locations \cup {None} :
             /\ Emit(s, type, to)
             /\ type = "moved" => s \in Roots /\ to \in Locations
             /\ \A x \in Sessions : x # s => life'[x] = life[x] /\ (x \in working' <=> x \in working)
             /\ \A q \in Roots : home'[q] = IF type = "moved" /\ q = s THEN to ELSE home[q]
             /\ IsChild(s) =>
                  /\ life[s] # "deleted" /\ (life'[s] = "deleted" <=> type = "deleted")
                  /\ (s \in working' <=> type = "started")
                  /\ type = "created" => s \notin working
<1>1. /\ life \in [Sessions -> {"unborn", "here", "deleted"}] /\ home \in [Roots -> Locations]
      /\ working \subseteq Sessions /\ \A s \in working : life[s] = "here"
      /\ Roots \subseteq Sessions
  BY DEF Shape, CoreTypes, Buried, Roots
<1>2. ASSUME NEW s \in Sessions, Create(s) PROVE
        /\ Emit(s, "created", None) /\ home' = home
        /\ \A x \in Sessions : x # s => life'[x] = life[x] /\ (x \in working' <=> x \in working)
        /\ life[s] = "unborn" /\ life'[s] = "here" /\ s \notin working /\ s \notin working'
  BY <1>1, <1>2 DEF Create
<1>3. ASSUME NEW s \in Sessions, Start(s) PROVE
        /\ Emit(s, "started", None) /\ home' = home /\ life' = life
        /\ \A x \in Sessions : x # s => (x \in working' <=> x \in working)
        /\ IsChild(s) => life[s] = "here" /\ s \in working'
  BY <1>1, <1>3 DEF Start
<1>4. ASSUME NEW s \in Sessions, Finish(s) PROVE
        /\ Emit(s, "ended", None) /\ home' = home /\ life' = life
        /\ \A x \in Sessions : x # s => (x \in working' <=> x \in working)
        /\ life[s] = "here" /\ s \notin working'
  BY <1>1, <1>4 DEF Finish
<1>5. ASSUME NEW s \in Sessions, Delete(s) PROVE
        /\ Emit(s, "deleted", None) /\ home' = home
        /\ \A x \in Sessions : x # s => life'[x] = life[x] /\ (x \in working' <=> x \in working)
        /\ life[s] = "here" /\ life'[s] = "deleted" /\ s \notin working'
  BY <1>1, <1>5 DEF Delete
<1>6. ASSUME NEW r \in Roots, NEW l \in Locations, Move(r, l) PROVE
        /\ Emit(r, "moved", l) /\ life' = life /\ working' = working /\ ~IsChild(r)
        /\ \A q \in Roots : home'[q] = IF q = r THEN l ELSE home[q]
  BY <1>1, <1>6 DEF Move, Roots
<1>7. {"created", "started", "ended", "moved", "deleted"} \subseteq EventTypes
      /\ None \in Locations \cup {None} /\ Locations \subseteq Locations \cup {None}
  BY DEF EventTypes
<1>8. CASE \E s \in Sessions : Create(s)
  BY <1>2, <1>7, <1>8
<1>9. CASE \E s \in Sessions : Start(s)
  BY <1>3, <1>7, <1>9
<1>10. CASE \E s \in Sessions : Finish(s)
  BY <1>4, <1>7, <1>10
<1>11. CASE \E s \in Sessions : Delete(s)
  BY <1>5, <1>7, <1>11
<1>12. CASE \E r \in Roots, l \in Locations : Move(r, l)
  BY <1>1, <1>6, <1>7, <1>12
<1> QED
  BY <1>8, <1>9, <1>10, <1>11, <1>12

\* The stream and OpenCode change together, and nothing else.
LEMMA EmitTold ==
    ASSUME Shape, Heard, Buried, ~missed', [Next]_vars,
           \/ \E s \in Sessions : Create(s) \/ Start(s) \/ Finish(s) \/ Delete(s)
           \/ \E r \in Roots, l \in Locations : Move(r, l),
           NEW r \in Roots, NEW c \in Sessions, Parent[c] = r, Told(r, c)
    PROVE  Told(r, c)'
<1>0. ~missed
  BY MissedStays
<1>1. PICK s \in Sessions, type \in EventTypes, to \in Locations \cup {None} :
        /\ Emit(s, type, to)
        /\ type = "moved" => s \in Roots /\ to \in Locations
        /\ \A x \in Sessions : x # s => life'[x] = life[x] /\ (x \in working' <=> x \in working)
        /\ \A q \in Roots : home'[q] = IF type = "moved" /\ q = s THEN to ELSE home[q]
        /\ IsChild(s) =>
             /\ life[s] # "deleted" /\ (life'[s] = "deleted" <=> type = "deleted")
             /\ (s \in working' <=> type = "started")
             /\ type = "created" => s \notin working
  BY Server
<1>2. PICK x \in Moments, m \in Moments, y \in Moments :
        /\ Fits(r, c, x) /\ Path(Serves(r, c), queue[r], x, m)
        /\ Knows(r, c, m) /\ Path(Leads(r, c), stream, m, y)
        /\ Reached(r, c, y)
  BY DEF Told
<1>3. r \in Sessions /\ RootOf(r) = r /\ ~IsChild(r) /\ RootOf(c) = r /\ IsChild(c) /\ c # r
  BY Heir
<1>4. /\ seq \in [Sessions -> Nat] /\ home \in [Roots -> Locations] /\ RootOf(s) \in Roots
      /\ stream \in Seq(Emitted) /\ life \in [Sessions -> {"unborn", "here", "deleted"}]
  BY RootOfRoot DEF Shape, CoreTypes
<1>8. PICK n \in Nat : n = seq[s] + 1
  BY <1>4
<1> DEFINE from == IF type \in {"created", "moved"} THEN home[RootOf(s)] ELSE None
           e == [type |-> type, session |-> s, seq |-> n, to |-> to, route |-> None, from |-> from]
<1>5. /\ from \in Locations \cup {None} /\ (s = r /\ type \in {"created", "moved"} => from = home[r])
  BY <1>3, <1>4, <1>8
<1>6. /\ seq' = [seq EXCEPT ![s] = n] /\ stream' = Append(stream, e)
      /\ UNCHANGED <<registry, stores>>
  <2>1. Live # {}
    <3>1. missed' = (missed \/ Live = {})
      BY <1>1 DEF Emit, Going
    <3> QED
      BY <3>1, Zenon
  <2> QED
    BY <1>1, <1>8, <2>1 DEF Emit, Going
<1> HIDE DEF from
<1>7. /\ e \in Events /\ e.type = type /\ e.session = s /\ e.seq = n /\ e.to = to
      /\ e.from = from /\ e.type # "gone"
  BY <1>5 DEF Events, EventTypes
<1> HIDE DEF e
<1>9. stream' = stream \o <<e>> /\ stream \in Seq(Events) /\ <<e>> \in Seq(Events)
  <2>1. stream \in Seq(Events)
    BY <1>4, ElementOfSeq, SeqDef DEF Emitted, Sane
  <2> QED
    BY <1>6, <1>7, <2>1, AppendIsConcat
<1>10. PICK z \in Moments : Follows(r, c, e, y, z) /\ Reached(r, c, z)'
  <2>1. /\ y.at = home[r] /\ (y.on <=> c \in working) /\ (y.dead <=> life[c] = "deleted")
        /\ y.rs <= seq[r] /\ y.cs <= seq[c] /\ y.rs \in Nat /\ y.cs \in Nat
        /\ y.at \in Locations /\ y.on \in BOOLEAN /\ y.dead \in BOOLEAN /\ (y.dead => ~y.on)
    BY <1>2 DEF Reached, Moments
  <2>2. CASE s = r
    <3> DEFINE at == IF type = "moved" THEN to ELSE y.at
               z == [y EXCEPT !.rs = n, !.at = at]
    <3>1. at \in Locations /\ at = home'[r]
      BY <1>1, <2>1, <2>2
    <3>2. seq'[r] = n /\ seq'[c] = seq[c] /\ y.rs < n
      BY <1>3, <1>4, <1>6, <1>8, <2>1, <2>2
    <3>3. life'[c] = life[c] /\ (c \in working' <=> c \in working)
      BY <1>1, <1>3, <2>2
    <3>4. at = IF e.type = "moved" THEN e.to ELSE y.at
      BY <1>7
    <3>5. z = [y EXCEPT !.rs = e.seq, !.at = IF e.type = "moved" THEN e.to ELSE @]
      BY <1>7, <3>4
    <3> HIDE DEF at
    <3>6. z \in Moments /\ z.at = at /\ z.on = y.on /\ z.dead = y.dead /\ z.rs = n /\ z.cs = y.cs
      BY <1>2, <1>5, <3>1 DEF Moments
    <3> HIDE DEF z
    <3>7. Speaks(e, r) /\ y.rs < e.seq /\ (e.type \in {"created", "moved"} => e.from = y.at)
      BY <1>5, <1>7, <2>1, <2>2, <3>2 DEF Speaks
    <3>8. Follows(r, c, e, y, z)
      BY <3>5, <3>7 DEF Follows
    <3>9. Reached(r, c, z)'
      <4>1. /\ z.at = home'[r] /\ (z.on <=> c \in working') /\ (z.dead <=> life'[c] = "deleted")
            /\ z.rs <= seq'[r] /\ z.cs <= seq'[c]
        BY <1>5, <2>1, <3>1, <3>2, <3>3, <3>6
      <4> QED
        BY <4>1 DEF Reached
    <3> QED
      BY <3>6, <3>8, <3>9
  <2>3. CASE s = c
    <3> DEFINE on == (type = "started")
               dead == (type = "deleted")
               z == [y EXCEPT !.cs = n, !.on = on, !.dead = dead]
    <3>1. on \in BOOLEAN /\ dead \in BOOLEAN /\ (dead => ~on)
      OBVIOUS
    <3>2. seq'[c] = n /\ seq'[r] = seq[r] /\ y.cs < n /\ home'[r] = home[r]
      BY <1>1, <1>3, <1>4, <1>6, <1>8, <2>1, <2>3
    <3>3. /\ ~y.dead /\ (dead <=> life'[c] = "deleted") /\ (on <=> c \in working')
          /\ e.type = "created" => ~y.on
      BY <1>1, <1>3, <1>7, <2>1, <2>3
    <3>5. z = [y EXCEPT !.cs = e.seq, !.on = (e.type = "started"), !.dead = (e.type = "deleted")]
      BY <1>7
    <3> HIDE DEF on, dead
    <3>6. z \in Moments /\ z.at = y.at /\ z.on = on /\ z.dead = dead /\ z.rs = y.rs /\ z.cs = n
      BY <1>2, <1>5, <3>1 DEF Moments
    <3> HIDE DEF z
    <3>7. Speaks(e, c) /\ y.cs < e.seq
      BY <1>7, <2>3, <3>2 DEF Speaks
    <3>8. Follows(r, c, e, y, z)
      BY <3>3, <3>5, <3>7 DEF Follows
    <3>9. Reached(r, c, z)'
      <4>1. /\ z.at = home'[r] /\ (z.on <=> c \in working') /\ (z.dead <=> life'[c] = "deleted")
            /\ z.rs <= seq'[r] /\ z.cs <= seq'[c]
        BY <1>5, <2>1, <3>1, <3>2, <3>3, <3>6
      <4> QED
        BY <4>1 DEF Reached
    <3> QED
      BY <3>6, <3>8, <3>9
  <2>4. CASE s # r /\ s # c
    <3>1. Follows(r, c, e, y, y)
      BY <1>7, <2>4 DEF Follows, Speaks
    <3>2. Reached(r, c, y)'
      <4>1. /\ y.at = home'[r] /\ (y.on <=> c \in working') /\ (y.dead <=> life'[c] = "deleted")
            /\ y.rs <= seq'[r] /\ y.cs <= seq'[c]
        BY <1>1, <1>3, <1>4, <1>6, <2>1, <2>4
      <4> QED
        BY <4>1 DEF Reached
    <3> QED
      BY <1>2, <3>1, <3>2
  <2> QED
    BY <2>2, <2>3, <2>4
<1>11. Path(Leads(r, c), stream', m, z)
  <2>1. <<e, y, z>> \in Leads(r, c)
    BY <1>2, <1>7, <1>10 DEF Leads
  <2>2. Path(Leads(r, c), <<e>>, y, z)
    BY <1>2, <1>10, <2>1, PathOne
  <2> QED
    BY <1>2, <1>9, <2>2, PathJoin
<1>12. Fits(r, c, x)' /\ queue'[r] = queue[r] /\ placed' = placed
  BY <1>2, <1>6, FitsKept DEF registry, stores
<1>13. Knows(r, c, m)'
  <2>1. Lost(c)' => Lost(c)
    BY <1>3, <1>12, LostNext DEF Heard
  <2> QED
    BY <1>2, <1>12, <2>1 DEF Knows
<1>14. Path(Serves(r, c), queue'[r], x, m)
  BY <1>2, <1>12
<1> QED
  BY <1>2, <1>10, <1>11, <1>12, <1>13, <1>14, ToldNext

\* Admission moves the next event from the stream to a queue.
LEMMA AdmitTold ==
    ASSUME Shape, Heard, Announced', ~cut', ~missed', [Next]_vars, Admit,
           NEW r \in Roots, NEW c \in Sessions, Parent[c] = r, life'[r] # "deleted", Told(r, c)
    PROVE  Told(r, c)'
<1> DEFINE e == Head(stream)
           q == QueueOf(AtAdmission(e), e.session)
           to == RouteKnown(AtAdmission(e), e.session)
           ev == [e EXCEPT !.route = to]
<1>1. /\ stream # <<>> /\ stream' = Tail(stream) /\ placed' = AtAdmission(e)
      /\ Enqueue(q, <<ev>>) /\ UNCHANGED <<opencode, stores>>
  BY AdmitSteps DEF Admit
<1>2. PICK x \in Moments, m \in Moments, y \in Moments :
        /\ Fits(r, c, x) /\ Path(Serves(r, c), queue[r], x, m)
        /\ Knows(r, c, m) /\ Path(Leads(r, c), stream, m, y)
        /\ Reached(r, c, y)
  BY DEF Told
<1>3. r \in Sessions /\ RootOf(r) = r /\ ~IsChild(r) /\ RootOf(c) = r /\ IsChild(c) /\ c # r
  BY Heir
<1>4. /\ e \in Sane /\ e.type # "gone" /\ e.session \in Sessions
  BY <1>1, StreamHead
<1>5. /\ to \in Locations \cup {None} /\ q \in Sessions
      /\ placed' \in [Sessions -> Locations \cup {None}]
  BY <1>1, <1>4, AdmissionTypes
<1>6. stream \in Seq(Emitted) /\ queue[r] \in Seq(Sane) /\ placed \in [Sessions -> Locations \cup {None}]
  BY <1>3 DEF Shape, QueueTypes
<1>7. PICK m1 \in Moments : <<e, m, m1>> \in Leads(r, c) /\ Path(Leads(r, c), stream', m1, y)
  BY <1>1, <1>2, <1>6, PathTail
<1>8. Follows(r, c, e, m, m1)
  BY <1>7 DEF Leads
<1>9. /\ ev \in Sane /\ ev.type = e.type /\ ev.session = e.session /\ ev.seq = e.seq
      /\ ev.from = e.from /\ ev.to = e.to /\ ev.route = to
  <2>1. ev \in Sane
    BY <1>4, <1>5, Routed
  <2> QED
    BY <1>4, <2>1 DEF Sane, Events
<1>10. Follows(r, c, ev, m, m1)
  BY <1>8, <1>9 DEF Follows, Speaks
<1>11. placed' = CASE e.type = "created" -> [placed EXCEPT ![e.session] = e.from]
                   [] e.type = "moved" -> [placed EXCEPT ![e.session] = IF @ = None THEN @ ELSE e.to]
                   [] OTHER -> placed
  BY <1>1 DEF AtAdmission
<1>12. /\ to = IF placed'[e.session] # None THEN placed'[RootOf(e.session)] ELSE None
       /\ q = IF to = None THEN e.session ELSE RootOf(e.session)
  BY <1>1 DEF RouteKnown, QueueOf
<1>13. /\ e.type \in {"created", "moved"} => e.from \in Locations
       /\ e.type = "moved" => e.session \in Roots /\ e.to \in Locations
  BY <1>4 DEF Sane
<1> DEFINE evs == <<ev>>
<1>14. evs \in Seq(Sane) /\ evs \in Seq(Events) /\ Enqueue(q, evs) /\ life' = life
  BY <1>1, <1>9 DEF Sane, opencode
<1>15. QueueTypes /\ barrier \in Instances \cup {None}
  BY DEF Shape, CoreTypes
<1> HIDE DEF e, q, to, ev, evs
<1>16. /\ (~cut' => queue'[q] = queue[q] \o evs)
       /\ queue[q] # <<>> => Head(queue'[q]) = Head(queue[q])
       /\ turn'[q] = turn[q] \/ (turn[q] = "idle" /\ turn'[q] = "barred")
       /\ \A j \in Sessions : j # q => queue'[j] = queue[j] /\ turn'[j] = turn[j]
  BY <1>5, <1>14, <1>15, EnqueueTypes
<1>17. queue'[q] = queue[q] \o evs
  BY <1>16
<1>18. Fits(r, c, x)'
  <2>1. turn[r] = "arriving" => turn'[r] = "arriving" /\ Head(queue'[r]) = Head(queue[r])
    <3>1. turn[r] = "arriving" => queue[r] # <<>>
      BY <1>3, <1>15, QueueHead
    <3> QED
      BY <1>3, <1>16, <3>1
  <2> QED
    BY <1>1, <1>2, <2>1, FitsKept DEF stores
<1>19. Reached(r, c, y)'
  BY <1>1, <1>2 DEF Reached, opencode
\* An event of another session is queued wherever it is without effect.
<1>20. CASE e.session # r /\ e.session # c
  <2>1. m1 = m
    BY <1>8, <1>20 DEF Follows, Speaks
  <2>2. Path(Serves(r, c), queue'[r], x, m)
    <3>1. CASE q = r
      <4>0. to = m.at
        <5>1. to # None /\ RootOf(e.session) = r
          BY <1>12, <1>20, <3>1
        <5>2. to = placed[r]
          BY <1>3, <1>4, <1>6, <1>11, <1>12, <1>20, <5>1
        <5> QED
          BY <1>2, <5>1, <5>2 DEF Knows
      <4>1. <<ev, m, m>> \in Serves(r, c)
        BY <1>2, <1>9, <1>10, <2>1, <4>0 DEF Serves, Leads, Sane
      <4>2. Path(Serves(r, c), evs, m, m)
        BY <1>2, <4>1, PathOne DEF evs
      <4>3. Path(Serves(r, c), queue[r] \o evs, x, m)
        BY <1>2, <1>6, <1>14, <4>2, PathJoin
      <4> QED
        BY <1>17, <3>1, <4>3
    <3>2. CASE q # r
      BY <1>2, <1>3, <1>16, <3>2
    <3> QED
      BY <3>1, <3>2
  <2>3. placed'[r] = placed[r] /\ placed'[c] = placed[c]
    BY <1>3, <1>4, <1>6, <1>11, <1>20
  <2>4. Knows(r, c, m)'
    <3>1. Lost(c)' => Lost(c)
      BY <2>3, LostNext DEF Heard
    <3> QED
      BY <1>2, <2>3, <3>1 DEF Knows
  <2> QED
    BY <1>2, <1>7, <1>18, <1>19, <2>1, <2>2, <2>4, ToldNext
<1>21. CASE e.session = r
  <2>1. q = r
    BY <1>3, <1>12, <1>21
  <2>4. /\ m1 = [m EXCEPT !.rs = e.seq, !.at = IF e.type = "moved" THEN e.to ELSE @]
        /\ e.type \in {"created", "moved"} => e.from = m.at
    BY <1>3, <1>4, <1>8, <1>21 DEF Follows, Speaks
  <2>5. m1.at = (IF e.type = "moved" THEN e.to ELSE m.at) /\ m1.dead = m.dead
    BY <1>2, <2>4 DEF Moments
  <2>6. placed'[r] = None \/ placed'[r] = m1.at
    <3>1. placed[r] = None \/ placed[r] = m.at
      BY <1>2 DEF Knows
    <3>2. CASE e.type = "created"
      BY <1>3, <1>6, <1>11, <1>21, <2>4, <2>5, <3>2
    <3>3. CASE e.type = "moved"
      BY <1>3, <1>6, <1>11, <1>21, <2>5, <3>3
    <3>4. CASE e.type \notin {"created", "moved"}
      BY <1>11, <2>5, <3>1, <3>4
    <3> QED
      BY <3>2, <3>3, <3>4
  <2>8. placed'[r] # None
    <3>1. placed'[r] = None => Lost(r)'
      BY <1>21, Unplaced DEF Heard, e
    <3> QED
      BY <3>1 DEF Lost
  <2>2. <<ev, m, m1>> \in Serves(r, c)
    <3>1. e.type # "moved" => to = m.at
      BY <1>3, <1>12, <1>21, <2>5, <2>6, <2>8
    <3> QED
      BY <1>2, <1>7, <1>9, <1>10, <3>1 DEF Serves, Leads, Sane
  <2>3. Path(Serves(r, c), queue'[r], x, m1)
    <3>1. Path(Serves(r, c), evs, m, m1)
      BY <1>2, <1>7, <2>2, PathOne DEF evs
    <3>2. Path(Serves(r, c), queue[r] \o evs, x, m1)
      BY <1>2, <1>6, <1>14, <3>1, PathJoin
    <3> QED
      BY <1>17, <2>1, <3>2
  <2>7. Lost(c)' => m1.dead
    <3>1. placed'[c] = placed[c]
      BY <1>3, <1>6, <1>11, <1>21
    <3>2. Lost(c)' => Lost(c)
      BY <3>1, LostNext DEF Heard
    <3> QED
      BY <1>2, <2>5, <3>2 DEF Knows
  <2> QED
    <3>1. Knows(r, c, m1)'
      BY <2>6, <2>7 DEF Knows
    <3> QED
      BY <1>7, <1>18, <1>19, <1>2, <2>3, <3>1, ToldNext
<1>22. CASE e.session = c
  <2>1. ~m.dead /\ m1.at = m.at
    BY <1>2, <1>3, <1>4, <1>8, <1>22 DEF Follows, Speaks, Moments
  <2>2. e.type # "moved"
    BY <1>3, <1>13, <1>22 DEF Roots
  <2>3. placed'[r] = placed[r]
    BY <1>3, <1>4, <1>6, <1>11, <1>22
  <2>4. placed'[c] # None \/ placed'[c] = placed[c]
    BY <1>6, <1>11, <1>13, <1>22, <2>2, NotNone
  <2>5. ~Lost(c)'
    BY <1>2, <2>1, <2>4, LostNext DEF Heard, Knows
  <2>6. placed'[c] # None /\ placed'[r] # None
    <3>1. placed'[c] = None => Lost(c)'
      BY <1>22, Unplaced DEF Heard, e
    <3>2. placed'[r] = None => Lost(r)'
      BY <1>3, <1>22, Unplaced DEF Heard, e
    <3> QED
      BY <2>5, <3>1, <3>2 DEF Lost
  <2>7. to = m.at /\ q = r
    BY <1>2, <1>3, <1>12, <1>22, <2>3, <2>6 DEF Knows
  <2>8. <<ev, m, m1>> \in Serves(r, c)
    BY <1>2, <1>7, <1>9, <1>10, <2>7 DEF Serves, Leads, Sane
  <2>9. Path(Serves(r, c), queue'[r], x, m1)
    <3>1. Path(Serves(r, c), evs, m, m1)
      BY <1>2, <1>7, <2>8, PathOne DEF evs
    <3>2. Path(Serves(r, c), queue[r] \o evs, x, m1)
      BY <1>2, <1>6, <1>14, <3>1, PathJoin
    <3> QED
      BY <1>17, <2>7, <3>2
  <2>10. Knows(r, c, m1)'
    BY <1>2, <2>1, <2>3, <2>5 DEF Knows
  <2> QED
    BY <1>7, <1>18, <1>19, <1>2, <2>9, <2>10, ToldNext
<1> QED
  BY <1>20, <1>21, <1>22

\* What nobody has an event of in the stream is dead there if it is at its end.
LEMMA DeadBefore ==
    ASSUME Shape, NEW r \in Roots, NEW c \in Sessions, Parent[c] = r, ~Unread(c),
           NEW m \in Moments, NEW y \in Moments, Path(Leads(r, c), stream, m, y), y.dead
    PROVE  m.dead
<1> SUFFICES ASSUME ~m.dead PROVE FALSE
  OBVIOUS
<1> DEFINE P == {a \in Moments : ~a.dead}
<1>1. stream \in Seq(Emitted)
  BY DEF Shape
<1>2. ASSUME NEW n \in 1..Len(stream), NEW a \in Moments, NEW b \in Moments,
             a \in P, <<stream[n], a, b>> \in Leads(r, c)
      PROVE  b \in P
  <2> DEFINE e == stream[n]
  <2>1. e.session # c /\ Follows(r, c, e, a, b)
    BY <1>2 DEF Unread, Leads
  <2> HIDE DEF e
  <2>2. b.dead = a.dead
    BY <2>1 DEF Follows, Speaks, Moments
  <2> QED
    BY <1>2, <2>2
<1>3. m \in P
  OBVIOUS
<1>4. y \in P
  <2> HIDE DEF P
  <2> QED
    BY <1>1, <1>2, <1>3, PathKeeps
<1> QED
  BY <1>4

\* What is answered queues nothing of a child that has not been known to be dead.
LEMMA AnswerTold ==
    ASSUME Shape, Heard, ~cut', ~missed', [Next]_vars,
           NEW i \in Instances, NEW s \in Sessions, NEW l \in Projects, NEW q, q = RootOf(s),
           Answer(i), life[s] = "deleted", GoneEvent(s, l) \in Sane, q \in Sessions,
           Enqueue(q, <<GoneEvent(s, l)>>), placed' = placed,
           ahead' = IF Unread(s) THEN ahead \cup {s} ELSE ahead,
           NEW r \in Roots, NEW c \in Sessions, Parent[c] = r, c \notin ahead', Told(r, c)
    PROVE  Told(r, c)'
<1>2. UNCHANGED <<opencode, stream, stores>>
  BY DEF Answer
<1>3. PICK x \in Moments, m \in Moments, y \in Moments :
        /\ Fits(r, c, x) /\ Path(Serves(r, c), queue[r], x, m)
        /\ Knows(r, c, m) /\ Path(Leads(r, c), stream, m, y)
        /\ Reached(r, c, y)
  BY DEF Told
<1>4. r \in Sessions
  BY DEF Roots
<1>5. QueueTypes /\ barrier \in Instances \cup {None} /\ placed' \in [Sessions -> Locations \cup {None}]
      /\ life' = life /\ queue[r] \in Seq(Sane)
  BY <1>2, <1>4 DEF Shape, CoreTypes, QueueTypes, opencode
<1> DEFINE e == GoneEvent(s, l)
           evs == <<e>>
<1>6. evs \in Seq(Sane) /\ Enqueue(q, evs)
  OBVIOUS
<1>7. e.type = "gone" /\ e.session = s /\ e \in Events
  BY DEF GoneEvent, Sane
<1> HIDE DEF e, evs
<1>8. /\ queue'[q] = queue[q] \o evs
      /\ queue[q] # <<>> => Head(queue'[q]) = Head(queue[q])
      /\ turn'[q] = turn[q] \/ (turn[q] = "idle" /\ turn'[q] = "barred")
      /\ \A j \in Sessions : j # q => queue'[j] = queue[j] /\ turn'[j] = turn[j]
  BY <1>5, <1>6, EnqueueTypes
<1>9. Fits(r, c, x)'
  <2>1. turn[r] = "arriving" => turn'[r] = "arriving" /\ Head(queue'[r]) = Head(queue[r])
    <3>1. turn[r] = "arriving" => queue[r] # <<>>
      BY <1>4, <1>5, QueueHead
    <3> QED
      BY <1>4, <1>8, <3>1
  <2> QED
    BY <1>2, <1>3, <2>1, FitsKept DEF stores
<1>10. Reached(r, c, y)' /\ Path(Leads(r, c), stream', m, y)
  BY <1>2, <1>3 DEF Reached, opencode
<1>11. Knows(r, c, m)'
  <2>1. Lost(c)' => Lost(c)
    BY LostNext DEF Heard
  <2> QED
    BY <1>3, <2>1 DEF Knows
<1>12. s = c => m.dead
  <2> SUFFICES ASSUME s = c PROVE m.dead
    OBVIOUS
  <2>1. ~Unread(c)
    BY Zenon
  <2>2. y.dead
    BY <1>3 DEF Reached
  <2> QED
    BY <1>3, <2>1, <2>2, DeadBefore
<1>13. Path(Serves(r, c), queue'[r], x, m)
  <2>1. CASE q = r
    <3>1. <<e, m, m>> \in Serves(r, c)
      BY <1>3, <1>7, <1>12 DEF Serves, Leads, Follows, Speaks
    <3>2. Path(Serves(r, c), evs, m, m)
      BY <1>3, <3>1, PathOne DEF evs
    <3>3. Path(Serves(r, c), queue[r] \o evs, x, m)
      BY <1>3, <1>5, <1>6, <3>2, PathJoin
    <3> QED
      BY <1>8, <2>1, <3>3
  <2>2. CASE q # r
    BY <1>3, <1>4, <1>8, <2>2
  <2> QED
    BY <2>1, <2>2
<1> QED
  BY <1>3, <1>9, <1>10, <1>11, <1>13, ToldNext

\* Asking the helper says again where the first event goes.
LEMMA BeginTold ==
    ASSUME Shape, Heard, Families, ~missed', [Next]_vars,
           NEW r \in Roots, Begin(r), NEW c \in Sessions, Parent[c] = r, life'[r] # "deleted", Told(r, c)
    PROVE  Told(r, c)'
<1> DEFINE e == Head(queue[r])
<1>1. ~missed /\ UNCHANGED <<opencode, stream, stores>>
  BY MissedStays DEF Begin
<1>2. PICK x \in Moments, m \in Moments, y \in Moments :
        /\ Fits(r, c, x) /\ Path(Serves(r, c), queue[r], x, m)
        /\ Knows(r, c, m) /\ Path(Leads(r, c), stream, m, y)
        /\ Reached(r, c, y)
  BY DEF Told
<1>3. r \in Sessions /\ RootOf(r) = r /\ ~IsChild(r) /\ RootOf(c) = r /\ IsChild(c) /\ c # r
  BY Heir
<1>4. /\ turn[r] = "barred" /\ placed' = Remembered(ReadAt(r)) /\ turn'[r] = "asked"
      /\ AskedAt(r) \in Locations \cup {None}
      /\ Head(queue'[r]) = [e EXCEPT !.route = AskedAt(r)]
      /\ Len(queue'[r]) = Len(queue[r]) /\ QueueTypes'
      /\ \A n \in 2..Len(queue[r]) : queue'[r][n] = queue[r][n]
  BY <1>3, BeginSteps, BeginTypes
<1>5. /\ queue[r] \in Seq(Sane) /\ queue[r] # <<>> /\ e \in Sane /\ e = queue[r][1]
      /\ Len(queue[r]) \in Nat \ {0} /\ placed \in [Sessions -> Locations \cup {None}]
  BY <1>3, <1>4, QueueHead, TheHead DEF Shape, QueueTypes
<1>6. e.route # None
  <2>1. life[r] # "deleted"
    BY <1>1 DEF opencode
  <2>2. 1 \in 1..Len(queue[r])
    BY <1>5
  <2> QED
    BY <1>1, <1>3, <1>5, <2>1, <2>2 DEF Families, Lost
<1>7. placed' = placed
  BY <1>4, <1>5, <1>6 DEF ReadAt, Remembered
<1>8. AskedAt(r) = IF e.type = "moved" THEN e.from ELSE e.route
  BY <1>6 DEF AskedAt
<1> DEFINE p == queue'[r]
           to == AskedAt(r)
           ev == [e EXCEPT !.route = to]
<1>9. p \in Seq(Sane') /\ p # <<>> /\ Len(p) = Len(queue[r])
      /\ Head(p) = ev /\ \A n \in 2..Len(queue[r]) : p[n] = queue[r][n]
  <2>1. p \in Seq(Sane')
    BY <1>3, <1>4 DEF QueueTypes
  <2> QED
    BY <1>4, <1>5, <2>1, EmptySeq
<1>10. /\ to \in Locations \cup {None} /\ e \in Events
       /\ e.session = c => e.type # "moved"
  BY <1>3, <1>4, <1>5 DEF Sane, Roots
<1> HIDE DEF e, to
<1>11. /\ ev \in Events /\ ev.type = e.type /\ ev.session = e.session /\ ev.seq = e.seq
       /\ ev.from = e.from /\ ev.to = e.to /\ ev.route = to
  BY <1>10 DEF Events
<1> HIDE DEF ev
<1>12. ASSUME NEW z \in Moments, <<e, x, z>> \in Serves(r, c) PROVE <<ev, x, z>> \in Serves(r, c)
  <2>1. Follows(r, c, ev, x, z)
    BY <1>11, <1>12 DEF Serves, Leads, Follows, Speaks
  <2>2. e.type # "moved" => to = e.route
    BY <1>8 DEF to, e
  <2> QED
    BY <1>2, <1>11, <1>12, <2>1, <2>2 DEF Serves, Leads
<1>13. Path(Serves(r, c), queue'[r], x, m)
  <2>1. Sane' = Sane
    BY <1>1 DEF Sane, opencode
  <2>2. p \in Seq(Sane) /\ Head(queue[r]) = e
    BY <1>9, <2>1 DEF e
  <2> HIDE DEF p
  <2>3. Path(Serves(r, c), p, x, m)
    BY <1>2, <1>5, <1>9, <1>12, <2>2, PathHead
  <2> QED
    BY <2>3 DEF p
<1>14. Fits(r, c, x)'
  BY <1>1, <1>2, <1>4, FitsKept DEF stores
<1>15. Reached(r, c, y)' /\ Path(Leads(r, c), stream', m, y)
  BY <1>1, <1>2 DEF Reached, opencode
<1>16. Knows(r, c, m)'
  <2>1. Lost(c)' => Lost(c)
    BY <1>7, LostNext DEF Heard
  <2> QED
    BY <1>2, <1>7, <2>1 DEF Knows
<1> QED
  BY <1>2, <1>13, <1>14, <1>15, <1>16, ToldNext

\* Who is dead stays dead.
LEMMA DeadAfter ==
    ASSUME NEW r, NEW c, NEW s \in Seq(Sane), NEW x \in Moments, NEW m \in Moments,
           Path(Serves(r, c), s, x, m), x.dead, r # c
    PROVE  m.dead
<1> DEFINE P == {a \in Moments : a.dead}
<1>1. ASSUME NEW n \in 1..Len(s), NEW a \in Moments, NEW b \in Moments,
             a \in P, <<s[n], a, b>> \in Serves(r, c)
      PROVE  b \in P
  <2> DEFINE e == s[n]
  <2>1. Follows(r, c, e, a, b) /\ a.dead
    BY <1>1 DEF Serves, Leads
  <2> HIDE DEF e
  <2>2. b.dead = a.dead
    BY <2>1 DEF Follows, Speaks, Moments
  <2> QED
    BY <2>1, <2>2
<1>2. x \in P
  OBVIOUS
<1>3. m \in P
  <2> HIDE DEF P
  <2> QED
    BY <1>1, <1>2, PathKeeps
<1> QED
  BY <1>3

\* A publication that writes no record leaves the one there is as it is.
LEMMA WritesKept ==
    ASSUME Shape, Owned, NEW l \in Projects, NEW e \in Sane,
           NEW r, r = RootOf(e.session), life[r] # "deleted"
    PROVE  /\ ~Writes(l, e) => Written(l, e) = rec[l][r]
           /\ Writes(l, e) /\ e.type = "gone" => rec[l][r] # None
<1> DEFINE old == rec[l][r]
           p == IF Begins(l, e) THEN Blank ELSE Forget(old)
           subs == Orelse(p, Blank).subs
<1>1. e.session \in Sessions /\ r \in Roots /\ r \in Sessions
  BY RootOfRoot DEF Sane, Events
<1>2. old \in Records \cup {None} /\ Proper(old, r)
  BY <1>1 DEF Shape, StoreTypes, Owned, Proper
<1>3. Blank \in Records /\ Blank # None /\ ~Blank.ended /\ Blank.subs = {}
  BY BlankTypes, NoneAssumption DEF Blank
<1>4. /\ p \in Records \cup {None} /\ (p = None => old = None) /\ Proper(p, r)
      /\ e.type = "gone" /\ p # None => old # None
  <2>1. CASE Begins(l, e)
    BY <1>3, <2>1 DEF Begins, Proper
  <2>2. CASE ~Begins(l, e)
    <3>1. old # None => Forget(old) \in Records /\ Forget(old).subs \subseteq old.subs
                        /\ Forget(old).ended = old.ended
      BY <1>2 DEF Forget, Records
    <3> QED
      BY <1>2, <2>2, <3>1, NoneAssumption DEF Proper, Forget
  <2> QED
    BY <2>1, <2>2
<1>5. Written(l, e) =
       IF IsChild(e.session)
       THEN CASE e.type \in {"created", "moved"} -> old
              [] e.type = "started" -> ChildWrite(p, subs \cup {e.session})
              [] OTHER -> ChildWrite(p, subs \ {e.session})
       ELSE CASE e.type = "created" -> RootWrite(old, FALSE, FALSE)
              [] e.type = "started" -> RootWrite(p, TRUE, FALSE)
              [] e.type = "ended" -> RootWrite(p, FALSE, FALSE)
              [] e.type = "moved" -> MovedWrite(e.session, p, l, e.to)
              [] OTHER -> EndWrite(p)
  BY DEF Written
<1>6. Proper(Written(l, e), r)
  BY <1>1, WrittenProper
<1>7. Written(l, e) # None => ~Orelse(Written(l, e), Blank).ended
  BY <1>6 DEF Proper, Orelse
<1>12. subs \subseteq Sessions
  BY <1>3, <1>4 DEF Orelse, Records
<1> HIDE DEF p, subs
<1>8. ~IsChild(e.session) => e.type \in {"created", "started", "ended", "moved"}
  BY DEF Sane, Events, EventTypes, IsChild, RootOf
<1>9. ASSUME NEW q \in Records \cup {None}, NEW b \in BOOLEAN, NEW a \in BOOLEAN
      PROVE  RootWrite(q, b, a) # None
  <2> DEFINE o == Orelse(q, Blank)
             w == [o EXCEPT !.turn = b, !.ended = FALSE, !.away = a, !.marked = FALSE]
  <2>1. o \in Records /\ RootWrite(q, b, a) = w
    BY <1>3 DEF Orelse, RootWrite
  <2> HIDE DEF o
  <2>2. w \in Records
    BY <2>1 DEF Records
  <2> QED
    BY <2>1, <2>2, NoneAssumption
<1>10. CASE ~IsChild(e.session)
  <2>1. CASE e.type = "moved"
    <3>1. e.session = r /\ e.to \in Locations
      BY <1>10, <2>1 DEF Sane, RootOf, IsChild
    <3>2. Written(l, e) # None
      BY <1>1, <1>4, <1>5, <1>10, <2>1, <3>1, MovedProper
    <3> QED
      BY <1>7, <1>10, <2>1, <3>2 DEF Writes
  <2>2. CASE e.type # "moved"
    <3>1. \/ Written(l, e) = RootWrite(old, FALSE, FALSE) \/ Written(l, e) = RootWrite(p, TRUE, FALSE)
          \/ Written(l, e) = RootWrite(p, FALSE, FALSE)
      BY <1>5, <1>8, <1>10, <2>2
    <3>2. Written(l, e) # None
      BY <1>2, <1>4, <1>9, <3>1
    <3> QED
      BY <1>8, <1>10, <3>2 DEF Writes
  <2> QED
    BY <2>1, <2>2
<1>11. CASE IsChild(e.session)
  <2>1. CASE e.type \in {"created", "moved"}
    BY <1>5, <1>11, <2>1 DEF Writes
  <2>2. CASE e.type \notin {"created", "moved"}
    <3>1. PICK S \in SUBSET Sessions : Written(l, e) = ChildWrite(p, S)
      BY <1>1, <1>5, <1>11, <1>12, <2>2
    <3>2. p # None => ~p.ended
      BY <1>4 DEF Proper
    <3>3. Written(l, e) = None <=> p = None
      <4>1. CASE p = None
        BY <3>1, <4>1 DEF ChildWrite
      <4>2. CASE p # None
        <5> DEFINE mark == p.marked /\ p.ended
                   w == [p EXCEPT !.subs = S, !.marked = mark]
        <5>1. Written(l, e) = w
          BY <3>1, <3>2, <4>2 DEF ChildWrite
        <5>2. w # None
          <6>1. p \in Records /\ mark \in BOOLEAN
            BY <1>4, <4>2 DEF Records
          <6> HIDE DEF mark
          <6>2. w \in Records
            BY <6>1 DEF Records
          <6> QED
            BY <6>2, NoneAssumption
        <5> QED
          BY <4>2, <5>1, <5>2
      <4> QED
        BY <4>1, <4>2
    <3>4. ~Writes(l, e) => Written(l, e) = None
      BY <1>7, <2>2 DEF Writes
    <3> QED
      BY <1>4, <3>3, <3>4 DEF Writes
  <2> QED
    BY <2>1, <2>2 DEF Writes
<1> QED
  BY <1>10, <1>11

\* What is published where its root is, or is not remarked, leaves the record there
\* the freshest.
LEMMA PublishCurrent ==
    ASSUME Shape, Owned, NEW l \in Projects, NEW e \in Sane, Hook(l, e), Remark(l, e),
           NEW r, r = RootOf(e.session), life[r] # "deleted", r \notin overtaken',
           NEW at \in Projects, Current(r, at), e.type # "gone" => l = at
    PROVE  Current(r, at)'
<1>1. r \in Roots
  BY RootOfRoot DEF Sane, Events
<1>2. /\ rec \in [Projects -> [Roots -> Records \cup {None}]]
      /\ touched \in [Roots -> SUBSET (Projects \X Projects)]
  BY DEF Shape, StoreTypes
<1>3. \A m \in Projects : rec'[m][r] = IF m = l THEN Written(l, e) ELSE rec[m][r]
  BY <1>1, <1>2 DEF Hook
<1>4. CASE ~Writes(l, e)
  <2>1. Written(l, e) = rec[l][r]
    BY <1>4, WritesKept
  <2>2. touched' = touched
    BY <1>4 DEF Hook
  <2> QED
    BY <1>3, <2>1, <2>2 DEF Current, Fresher
<1>5. CASE Writes(l, e)
  <2>1. Written(l, e) # None
    BY <1>5 DEF Writes
  <2>2. touched'[r] = {pair \in touched[r] : pair[2] # l} \cup {l} \X (Projects \ {l})
    BY Zenon, <1>1, <1>2, <1>5 DEF Hook, Touch
  <2>3. CASE l = at
    <3>1. \A m \in Projects \ {at} : <<m, at>> \notin touched'[r]
      BY <2>2, <2>3
    <3> QED
      BY <1>3, <2>1, <2>3, <3>1 DEF Current, Fresher
  <2>4. CASE l # at
    <3>1. e.type = "gone" /\ rec[l][r] # None
      BY <1>5, <2>4, WritesKept
    <3>2. rec[at][r] # None /\ ~Fresher(r, l, at)
      BY <2>4, <3>1 DEF Current
    <3>3. overtaken' = overtaken \cup {r}
      BY <1>5, <2>4, <3>1, <3>2 DEF Remark
    <3> QED
      BY <3>3
  <2> QED
    BY <2>3, <2>4
<1> QED
  BY <1>4, <1>5

\* What a root's publication does to what Told says of it and its child c.
LEMMA PublishSteps ==
    ASSUME Shape, Heard, Settled, ~cut', ~missed, NEW r \in Roots, Publish(r), life[r] # "deleted",
           NEW c \in Sessions, Parent[c] = r, NEW e, e = Head(queue[r]), NEW l, l = e.route,
           e.type = "moved" => Current(r, l)
    PROVE  /\ e \in Sane /\ e \in Events /\ e.session \in Sessions /\ RootOf(e.session) = r
           /\ queue[r] # <<>> /\ turn[r] = "asked" /\ l \in Projects
           /\ e.type = "moved" => l = e.from
           /\ e.session = r => e.type \notin {"deleted", "gone"}
           /\ placed'[r] = placed[r]
           /\ placed'[c] = placed[c] \/ (e.session = c /\ e.type = "deleted")
           /\ Refused(l, e) \/ Stale(l, e) =>
                /\ UNCHANGED stores /\ queue'[r] = Tail(queue[r]) /\ turn'[r] # "arriving"
           /\ ~Refused(l, e) /\ ~Stale(l, e) =>
                /\ \A p \in Projects : c \in Listed(p, r)' <=>
                     IF p = l /\ e.session = c /\ e.type \notin {"created", "moved"}
                     THEN e.type = "started" ELSE c \in Listed(p, r)
                /\ Hook(l, e) /\ Remark(l, e) /\ Record(l, e)
                /\ IF e.type = "moved" /\ e.to \in Projects
                   THEN UNCHANGED <<queue, placed>> /\ turn'[r] = "arriving"
                   ELSE queue'[r] = Tail(queue[r]) /\ turn'[r] # "arriving"
<1>1. Serve(r) /\ r \in Sessions /\ RootOf(r) = r /\ RootOf(c) = r /\ c # r /\ IsChild(c)
  BY Heir DEF Serve, Roots
<1>2. /\ e \in Sane /\ e \in Events /\ e.session \in Sessions /\ RootOf(e.session) = r
      /\ queue[r] # <<>> /\ turn[r] = "asked" /\ l \in Projects
  BY <1>1, RootServed DEF Settled, Sane, Publish
<1>3. e.type = "moved" => l = e.from
  BY <1>1, <1>2 DEF Shape, Served
<1>4. e.session = r => e.type \notin {"deleted", "gone"}
  BY <1>2 DEF Sane
<1>5. /\ turn \in [Sessions -> {"idle", "barred", "asked", "arriving"}]
      /\ placed \in [Sessions -> Locations \cup {None}]
      /\ queue \in [Sessions -> Seq(Sane)]
  BY DEF Shape, QueueTypes
<1>6. ASSUME Over(r, Forgotten(r))
      PROVE  /\ queue'[r] = Tail(queue[r]) /\ turn'[r] # "arriving"
             /\ \A s \in Sessions : placed'[s] = placed[s] \/ (s = e.session /\ e.type = "deleted")
  BY <1>1, <1>5, <1>6 DEF Over, Forgotten
<1>7. CASE Refused(l, e) \/ Stale(l, e)
  <2>1. Over(r, Forgotten(r)) /\ UNCHANGED stores
    BY <1>7 DEF Publish
  <2> QED
    BY <1>1, <1>2, <1>3, <1>4, <1>6, <1>7, <2>1
<1>8. CASE ~Refused(l, e) /\ ~Stale(l, e)
  <2>1. /\ Hook(l, e) /\ Remark(l, e) /\ Record(l, e)
        /\ IF e.type = "moved" /\ e.to \in Projects
           THEN turn' = [turn EXCEPT ![r] = "arriving"] /\ UNCHANGED <<queue, bar, placed>>
           ELSE Over(r, Forgotten(r))
    BY <1>8 DEF Publish
  <2>2. HookStep(r)
    BY <1>2, <1>8, <2>1 DEF HookStep
  <2>3. rec[l][r] # None => ~rec[l][r].marked
    BY <1>2 DEF Settled, Steady
  <2>4. ASSUME NEW p \in Projects
        PROVE  c \in Listed(p, r)' <=>
                 IF p = l /\ e.session = c /\ e.type \notin {"created", "moved"}
                 THEN e.type = "started" ELSE c \in Listed(p, r)
    <3>1. IF p = l THEN rec'[p][r] = Written(l, e) ELSE rec'[p][r] = rec[p][r]
      BY <1>1, <1>2, <2>2, HookAt
    <3>4. e.type = "moved" => Current(r, l) /\ e.to # l
      BY <1>2, <1>3 DEF Sane
    <3>2. CASE p = l
      <4>1. c \in Orelse(Written(l, e), Blank).subs <=>
             IF IsChild(e.session) /\ e.session = c /\ e.type \notin {"created", "moved"}
             THEN e.type = "started" ELSE c \in Listed(l, r)
        BY <1>2, <2>3, <3>4, ListedAfter DEF Settled
      <4>2. Listed(p, r)' = Orelse(Written(l, e), Blank).subs
        BY <3>1, <3>2 DEF Listed, Orelse, Blank
      <4> QED
        BY <1>1, <3>2, <4>1, <4>2
    <3>3. CASE p # l
      <4>1. Listed(p, r)' = Listed(p, r)
        BY <3>1, <3>3 DEF Listed, Orelse, Blank
      <4> QED
        BY <3>3, <4>1
    <3> QED
      BY <3>2, <3>3
  <2>5. CASE e.type = "moved" /\ e.to \in Projects
    <3>1. UNCHANGED <<queue, placed>> /\ turn'[r] = "arriving"
      BY <1>1, <1>5, <2>1, <2>5
    <3> QED
      BY <1>2, <1>3, <1>4, <1>8, <2>1, <2>4, <2>5, <3>1
  <2>6. CASE ~(e.type = "moved" /\ e.to \in Projects)
    <3>1. Over(r, Forgotten(r))
      BY <2>1, <2>6
    <3> QED
      BY <1>1, <1>2, <1>3, <1>4, <1>6, <1>8, <2>1, <2>4, <2>6, <3>1
  <2> QED
    BY <2>5, <2>6
<1> QED
  BY <1>7, <1>8

\* A root's publication carries out its queue's first event on the stores.
LEMMA PublishTold ==
    ASSUME Shape, Heard, Settled, ~cut', ~missed', [Next]_vars,
           NEW r \in Roots, Publish(r), NEW c \in Sessions, Parent[c] = r,
           life'[r] # "deleted", r \notin overtaken', Told(r, c)
    PROVE  Told(r, c)'
<1> DEFINE e == Head(queue[r])
           l == e.route
<1>1. ~missed /\ UNCHANGED <<opencode, stream>> /\ life[r] # "deleted"
  BY MissedStays DEF Publish, opencode
<1>2. PICK x \in Moments, m \in Moments, y \in Moments :
        /\ Fits(r, c, x) /\ Path(Serves(r, c), queue[r], x, m)
        /\ Knows(r, c, m) /\ Path(Leads(r, c), stream, m, y)
        /\ Reached(r, c, y)
  BY DEF Told
<1>3. r \in Sessions /\ RootOf(r) = r /\ ~IsChild(r) /\ RootOf(c) = r /\ IsChild(c) /\ c # r
  BY Heir
<1>0. e.type = "moved" => Current(r, l)
  <2> SUFFICES ASSUME e.type = "moved" PROVE Current(r, l)
    OBVIOUS
  <2>1. Serve(r) /\ turn[r] = "asked" /\ l \in Projects
    BY DEF Serve, Publish
  <2>2. e \in Sane /\ queue[r] # <<>> /\ RootOf(e.session) = r
    BY <1>1, <1>3, <2>1, RootServed DEF Settled
  <2>3. e.session = r /\ l = e.from
    BY <1>3, <2>1, <2>2 DEF Shape, Served, Sane, Roots, RootOf, IsChild
  <2>4. queue[r] \in Seq(Sane)
    BY <1>3 DEF Shape, QueueTypes
  <2>5. PICK z \in Moments : <<e, x, z>> \in Serves(r, c)
    BY <1>2, <2>2, <2>4, PathTail
  <2>6. e.from = x.at
    BY <1>3, <2>3, <2>5 DEF Serves, Leads, Follows, Speaks
  <2> QED
    BY <1>2, <2>1, <2>3, <2>6 DEF Fits
<1>4. /\ e \in Sane /\ e \in Events /\ e.session \in Sessions /\ RootOf(e.session) = r
      /\ queue[r] # <<>> /\ turn[r] = "asked" /\ l \in Projects
      /\ e.type = "moved" => l = e.from
      /\ e.session = r => e.type \notin {"deleted", "gone"}
      /\ placed'[r] = placed[r]
      /\ placed'[c] = placed[c] \/ (e.session = c /\ e.type = "deleted")
      /\ Refused(l, e) \/ Stale(l, e) =>
           /\ UNCHANGED stores /\ queue'[r] = Tail(queue[r]) /\ turn'[r] # "arriving"
      /\ ~Refused(l, e) /\ ~Stale(l, e) =>
           /\ \A p \in Projects : c \in Listed(p, r)' <=>
                IF p = l /\ e.session = c /\ e.type \notin {"created", "moved"}
                THEN e.type = "started" ELSE c \in Listed(p, r)
           /\ Hook(l, e) /\ Remark(l, e) /\ Record(l, e)
           /\ IF e.type = "moved" /\ e.to \in Projects
              THEN UNCHANGED <<queue, placed>> /\ turn'[r] = "arriving"
              ELSE queue'[r] = Tail(queue[r]) /\ turn'[r] # "arriving"
  BY <1>0, <1>1, PublishSteps
<1>5. queue[r] \in Seq(Sane) /\ Tail(queue[r]) \in Seq(Sane) /\ e.seq \in Nat
  BY <1>3, <1>4, TheHead DEF Shape, QueueTypes, Events
<1>6. PICK x1 \in Moments : <<e, x, x1>> \in Serves(r, c) /\ Path(Serves(r, c), Tail(queue[r]), x1, m)
  BY <1>2, <1>4, <1>5, PathTail
<1>7. Follows(r, c, e, x, x1) /\ (e.type # "gone" => l = x.at)
  <2>1. Follows(r, c, e, x, x1) /\ (e.type \notin {"moved", "gone"} => l = x.at)
    BY <1>6 DEF Serves, Leads
  <2>2. e.type = "moved" => e.session = r
    BY <1>4 DEF Sane, Roots, RootOf, IsChild
  <2>3. e.type = "moved" => e.from = x.at
    BY <1>3, <2>1, <2>2 DEF Follows, Speaks
  <2> QED
    BY <1>4, <2>1, <2>3
<1>8. Reached(r, c, y)' /\ Path(Leads(r, c), stream', m, y)
  BY <1>1, <1>2 DEF Reached, opencode
<1>9. x1.dead => m.dead
  BY <1>3, <1>5, <1>6, DeadAfter
<1>10. ASSUME ~(e.session = c /\ e.type = "deleted") \/ x1.dead PROVE Knows(r, c, m)'
  <2>1. Lost(c)' => Lost(c) \/ placed'[c] # placed[c]
    BY LostNext DEF Heard
  <2>2. Lost(c)' => m.dead
    BY <1>2, <1>4, <1>9, <1>10, <2>1 DEF Knows
  <2> QED
    BY <1>2, <1>4, <2>2 DEF Knows
<1>11. /\ entry \in [Projects -> [Sessions -> Nat]]
       /\ \A p \in Projects : entry[p][c] \in Nat /\ entry[p][r] \in Nat /\ r \notin gone[p]
  BY <1>1, <1>3 DEF Shape, StoreTypes, Settled, Buried
<1>12. /\ x.at \in Projects => \A p \in Projects : c \in Listed(p, r) <=> p = x.at /\ x.on
       /\ \A p \in Projects : (c \in gone[p] => x.dead) /\ entry[p][c] <= x.cs /\ entry[p][r] <= x.rs
       /\ x.at \in Projects => Current(r, x.at)
  BY <1>2, <1>4 DEF Fits
<1>19. ~Refused(l, e) /\ ~Stale(l, e) /\ x.at \in Projects => Current(r, x.at)'
  <2> SUFFICES ASSUME ~Refused(l, e), ~Stale(l, e), x.at \in Projects PROVE Current(r, x.at)'
    OBVIOUS
  <2>1. Hook(l, e) /\ Remark(l, e) /\ l \in Projects
    BY <1>4
  <2> HIDE DEF e, l
  <2> QED
    BY <1>1, <1>4, <1>7, <1>12, <2>1, PublishCurrent DEF Settled
<1>13. x.at \in Locations /\ x.on \in BOOLEAN /\ x.dead \in BOOLEAN /\ x.rs \in Nat /\ x.cs \in Nat
       /\ (x.dead => ~x.on)
  BY DEF Moments
<1>14. ASSUME ~Refused(l, e), ~Stale(l, e), NEW p \in Projects, NEW s \in Sessions
       PROVE  IF p = l /\ s = e.session
              THEN IF e.type \in {"deleted", "gone"}
                   THEN entry'[p][s] = 0 /\ s \in gone'[p]
                   ELSE entry'[p][s] = e.seq /\ (s \in gone'[p] <=> s \in gone[p])
              ELSE entry'[p][s] = entry[p][s] /\ (s \in gone'[p] <=> s \in gone[p])
  <2>1. Record(l, e)
    BY <1>4, <1>14
  <2> HIDE DEF e, l
  <2> QED
    BY <1>4, <2>1, RecordAt
<1>15. e.type # "gone" /\ e.session \in {r, c} => ~Refused(l, e) \/ c \in gone[l]
  BY <1>3, <1>4, <1>11 DEF Refused
<1> HIDE DEF e, l
\* The root's own event.
<1>16. CASE e.session = r
  <2>1. /\ x.rs < e.seq /\ (e.type \in {"created", "moved"} => e.from = x.at)
        /\ x1 = [x EXCEPT !.rs = e.seq, !.at = IF e.type = "moved" THEN e.to ELSE @]
    BY <1>3, <1>4, <1>7, <1>16 DEF Follows, Speaks
  <2>2. ~Refused(l, e) /\ ~Stale(l, e)
    <3>1. ~Refused(l, e)
      BY <1>3, <1>4, <1>11, <1>16 DEF Refused
    <3>2. ~Stale(l, e)
      BY <1>4, <1>5, <1>11, <1>12, <1>13, <1>16, <2>1 DEF Stale
    <3> QED
      BY <3>1, <3>2
  <2>3. \A p \in Projects : c \in Listed(p, r)' <=> c \in Listed(p, r)
    BY <1>3, <1>4, <1>16, <2>2
  <2>4. \A p \in Projects :
          /\ entry'[p][c] = entry[p][c] /\ (c \in gone'[p] <=> c \in gone[p])
          /\ entry'[p][r] = IF p = l THEN e.seq ELSE entry[p][r]
    BY <1>3, <1>4, <1>14, <1>16, <2>2
  <2>5. Knows(r, c, m)'
    BY <1>3, <1>10, <1>16
  <2>6. CASE e.type = "moved" /\ e.to \in Projects
    <3>1. queue' = queue /\ turn'[r] = "arriving"
      BY <1>4, <2>2, <2>6
    <3>2. Fits(r, c, x)'
      <4>1. l = Head(queue'[r]).route /\ e.seq = Head(queue'[r]).seq
        BY <3>1 DEF e, l
      <4>2. \A p \in Projects : entry'[p][r] <= x.rs \/ (p = Head(queue'[r]).route /\ entry'[p][r] <= Head(queue'[r]).seq)
        BY <1>5, <1>12, <2>4, <4>1
      <4> QED
        BY <1>12, <1>19, <2>2, <2>3, <2>4, <3>1, <4>2 DEF Fits
    <3> QED
      BY <1>2, <1>8, <2>5, <3>1, <3>2, ToldNext
  <2>7. CASE ~(e.type = "moved" /\ e.to \in Projects)
    <3>1. queue'[r] = Tail(queue[r])
      BY <1>4, <2>2, <2>7
    <3>2. /\ x1.at = (IF e.type = "moved" THEN e.to ELSE x.at) /\ x1.on = x.on /\ x1.dead = x.dead
          /\ x1.rs = e.seq /\ x1.cs = x.cs
      BY <2>1 DEF Moments
    <3>3. x1.at \in Projects => x1.at = x.at
      BY <2>7, <3>2
    <3>4. ASSUME NEW p \in Projects PROVE entry'[p][r] <= x1.rs
      <4>1. entry'[p][r] = e.seq \/ entry'[p][r] = entry[p][r]
        BY <2>4
      <4>2. entry[p][r] \in Nat /\ entry[p][r] <= x.rs /\ e.seq \in Nat
        BY <1>5, <1>11, <1>12
      <4> QED
        BY <1>13, <2>1, <3>2, <4>1, <4>2
    <3>5. Fits(r, c, x1)'
      BY <1>12, <1>19, <2>2, <2>3, <2>4, <3>2, <3>3, <3>4 DEF Fits
    <3> QED
      BY <1>2, <1>6, <1>8, <2>5, <3>1, <3>5, ToldNext
  <2> QED
    BY <2>6, <2>7
\* The child's event, while it is where the child is.
<1>17. CASE Speaks(e, c)
  <2>1. /\ e.session = c /\ e.type # "gone" /\ x.cs < e.seq /\ ~x.dead /\ l = x.at
        /\ e.type = "created" => ~x.on
        /\ x1 = [x EXCEPT !.cs = e.seq, !.on = (e.type = "started"), !.dead = (e.type = "deleted")]
    BY <1>3, <1>7, <1>17 DEF Follows, Speaks
  <2>2. e.type # "moved"
    BY <1>3, <1>4, <2>1 DEF Sane, Roots
  <2>3. ~Refused(l, e) /\ ~Stale(l, e)
    <3>1. ~Refused(l, e)
      BY <1>4, <1>12, <1>15, <2>1
    <3>2. ~Stale(l, e)
      BY <1>4, <1>5, <1>11, <1>12, <1>13, <2>1 DEF Stale
    <3> QED
      BY <3>1, <3>2
  <2> DEFINE on == (e.type = "started")
             dead == (e.type = "deleted")
  <2>4. x1 = [x EXCEPT !.cs = e.seq, !.on = on, !.dead = dead] /\ on \in BOOLEAN /\ dead \in BOOLEAN
    BY <2>1
  <2>5. (on <=> e.type = "started") /\ (dead <=> e.type = "deleted")
    OBVIOUS
  <2> HIDE DEF on, dead
  <2>6. /\ x1.at = l /\ x1.on = on /\ x1.dead = dead /\ x1.rs = x.rs /\ x1.cs = e.seq
    BY <2>1, <2>4 DEF Moments
  <2>7. \A p \in Projects : c \in Listed(p, r)' <=> p = x1.at /\ x1.on
    <3>1. \A p \in Projects : c \in Listed(p, r) <=> p = l /\ x.on
      BY <1>4, <1>12, <2>1
    <3>2. ASSUME NEW p \in Projects PROVE c \in Listed(p, r)' <=> p = l /\ on
      <4>1. c \in Listed(p, r)' <=> IF p = l /\ e.type # "created" THEN e.type = "started" ELSE c \in Listed(p, r)
        BY <1>4, <2>1, <2>2, <2>3
      <4> QED
        BY <2>1, <2>5, <3>1, <4>1
    <3> QED
      BY <2>6, <3>2
  <2>8. \A p \in Projects : (c \in gone'[p] => x1.dead) /\ entry'[p][c] <= x1.cs /\ entry'[p][r] <= x1.rs
    <3>1. ASSUME NEW p \in Projects
          PROVE  (c \in gone'[p] => x1.dead) /\ entry'[p][c] <= x1.cs /\ entry'[p][r] <= x1.rs
      <4>1. entry'[p][r] = entry[p][r]
        BY <1>3, <1>14, <2>1, <2>3
      <4>2. /\ entry'[p][c] = 0 \/ entry'[p][c] = e.seq \/ entry'[p][c] = entry[p][c]
            /\ c \in gone'[p] => c \in gone[p] \/ e.type = "deleted"
        BY <1>14, <2>1, <2>3
      <4> QED
        BY <1>5, <1>11, <1>12, <1>13, <2>1, <2>5, <2>6, <4>1, <4>2
    <3> QED
      BY <3>1
  <2>9. Fits(r, c, x1)'
    BY <1>4, <1>19, <2>1, <2>3, <2>6, <2>7, <2>8 DEF Fits
  <2>10. Knows(r, c, m)'
    BY <1>10, <2>5, <2>6
  <2>11. queue'[r] = Tail(queue[r])
    BY <1>4, <2>2, <2>3
  <2> QED
    BY <1>2, <1>6, <1>8, <2>9, <2>10, <2>11, ToldNext
\* Another's, or one of the child that came ahead.
<1>18. CASE e.session # r /\ ~Speaks(e, c)
  <2>1. x1 = x /\ (e.session = c => x.dead /\ e.type = "gone")
    BY <1>7, <1>18 DEF Follows, Speaks
  <2>2. e.type # "moved"
    <3>1. e.session \notin Roots
      BY <1>4, <1>18 DEF Roots, RootOf, IsChild
    <3> QED
      BY <1>4, <3>1 DEF Sane
  <2>3. queue'[r] = Tail(queue[r]) /\ turn'[r] # "arriving"
    BY <1>4, <2>2
  <2>4. Knows(r, c, m)'
    BY <1>10, <2>1
  <2>5. Fits(r, c, x)'
    <3>1. CASE Refused(l, e) \/ Stale(l, e)
      <4>1. UNCHANGED stores
        BY <1>4, <3>1
      <4> QED
        BY <1>2, <1>4, <4>1, FitsKept DEF stores
    <3>2. CASE ~Refused(l, e) /\ ~Stale(l, e)
      <4>1. x.at \in Projects => \A p \in Projects : c \in Listed(p, r)' <=> p = x.at /\ x.on
        BY <1>4, <1>12, <1>13, <2>1, <3>2
      <4>2. \A p \in Projects : (c \in gone'[p] => x.dead) /\ entry'[p][c] <= x.cs /\ entry'[p][r] <= x.rs
        <5>1. ASSUME NEW p \in Projects
              PROVE  (c \in gone'[p] => x.dead) /\ entry'[p][c] <= x.cs /\ entry'[p][r] <= x.rs
          <6>1. entry'[p][r] = entry[p][r]
            BY <1>3, <1>14, <1>18, <3>2
          <6>2. /\ entry'[p][c] = 0 \/ entry'[p][c] = entry[p][c]
                /\ c \in gone'[p] => c \in gone[p] \/ e.session = c
            BY <1>14, <2>1, <3>2
          <6> QED
            BY <1>12, <1>13, <2>1, <6>1, <6>2
        <5> QED
          BY <5>1
      <4> QED
        BY <1>19, <3>2, <4>1, <4>2 DEF Fits
    <3> QED
      BY <3>1, <3>2
  <2> QED
    BY <1>2, <1>6, <1>8, <2>1, <2>3, <2>4, <2>5, ToldNext
<1> QED
  BY <1>16, <1>17, <1>18

\* Arriving, the record takes every child of the one left, which keeps none.
LEMMA HandedOver ==
    ASSUME Shape, Owned, NEW r \in Roots, life[r] # "deleted", Leaving(r), turn[r] = "arriving",
           NEW e, e = Head(queue[r])
    PROVE  /\ Arrived(e).subs = Listed(e.route, r)
           /\ Orelse(Released(e), Blank).subs = {} /\ Arrived(e) # None
<1> DEFINE left == rec[e.route][r]
           old == rec[e.to][r]
           subs == left.subs
<1>1. /\ e \in Events /\ e.session = r /\ e.route \in Projects /\ e.to \in Projects /\ r \in Sessions
      /\ left # None /\ ~left.ended /\ Fresher(r, e.route, e.to)
  BY AskedHead DEF Leaving, Roots
<1>2. left \in Records /\ old \in Records \cup {None}
  BY <1>1 DEF Shape, StoreTypes
<1>3. ~Orelse(old, Blank).ended /\ Orelse(left, Blank) = left
  BY Zenon, <1>1, <1>2 DEF Orelse, Owned, Blank
<1>12. Carried(r, old, e.to, e.route) = subs \cup {}
  BY Zenon, <1>1, <1>3 DEF Carried
<1>4. Arrived(e) = [Blank EXCEPT !.subs = subs \cup {}]
  BY Zenon, <1>1, <1>12 DEF Arrived
<1>5. Blank \in Records /\ Blank.subs = {}
  BY BlankTypes DEF Blank
<1>6. subs \subseteq Sessions /\ subs \cup {} = subs
  BY <1>2 DEF Records
<1>7. Listed(e.route, r) = subs
  BY <1>3 DEF Listed
<1> HIDE DEF subs
<1>8. Arrived(e) \in Records /\ Arrived(e).subs = subs
  BY Zenon, <1>4, <1>5, <1>6 DEF Records
<1> DEFINE rest == subs \ Arrived(e).subs
           released == [left EXCEPT !.subs = rest]
<1>9. rest = {} /\ Released(e) = released
  BY Zenon, <1>1, <1>2, <1>8 DEF Released, subs
<1> HIDE DEF rest, left
<1>10. released \in Records /\ released.subs = {}
  BY <1>2, <1>9 DEF Records
<1> HIDE DEF released
<1>11. Orelse(Released(e), Blank) = released
  BY <1>9, <1>10 DEF Orelse
<1> QED
  BY <1>7, <1>8, <1>10, <1>11

\* A move that arrives takes its root's children along.
LEMMA ArriveTold ==
    ASSUME Shape, Heard, Settled, ~cut', ~missed', [Next]_vars,
           NEW r \in Roots, Arrive(r), NEW c \in Sessions, Parent[c] = r,
           life'[r] # "deleted", Told(r, c)
    PROVE  Told(r, c)'
<1> DEFINE e == Head(queue[r])
           l == e.route
           to == e.to
<1>1. ~missed /\ UNCHANGED <<opencode, stream>> /\ life[r] # "deleted" /\ Serve(r) /\ turn[r] = "arriving"
  BY MissedStays DEF Arrive, opencode, Serve
<1>2. PICK x \in Moments, m \in Moments, y \in Moments :
        /\ Fits(r, c, x) /\ Path(Serves(r, c), queue[r], x, m)
        /\ Knows(r, c, m) /\ Path(Leads(r, c), stream, m, y)
        /\ Reached(r, c, y)
  BY DEF Told
<1>3. r \in Sessions /\ RootOf(r) = r /\ ~IsChild(r) /\ RootOf(c) = r /\ IsChild(c) /\ c # r
  BY Heir
<1>4. /\ queue[r] # <<>> /\ e \in Sane /\ e \in Events /\ e.type = "moved" /\ e.seq \in Nat
      /\ l \in Projects /\ to \in Projects /\ l # to
  BY <1>1, <1>3, AskedHead DEF Events
<1>5. Leaving(r) /\ e.session = r /\ l = e.from
  BY <1>1, <1>3, <1>4 DEF Settled, Underway, Leaving, Shape, Served
<1>6. /\ queue[r] \in Seq(Sane) /\ Tail(queue[r]) \in Seq(Sane)
      /\ placed \in [Sessions -> Locations \cup {None}]
      /\ turn \in [Sessions -> {"idle", "barred", "asked", "arriving"}] /\ queue \in [Sessions -> Seq(Sane)]
      /\ rec \in [Projects -> [Roots -> Records \cup {None}]]
  BY <1>3, <1>4, TheHead DEF Shape, QueueTypes, StoreTypes
<1>7. PICK x1 \in Moments : <<e, x, x1>> \in Serves(r, c) /\ Path(Serves(r, c), Tail(queue[r]), x1, m)
  BY Zenon, <1>2, <1>4, <1>6, PathTail
<1>8. /\ x.rs < e.seq /\ l = x.at
      /\ x1 = [x EXCEPT !.rs = e.seq, !.at = to]
  BY Zenon, <1>3, <1>4, <1>5, <1>7 DEF Serves, Leads, Follows, Speaks
<1>9. Over(r, placed)
  BY <1>4 DEF Arrive, Forgotten
<1> HIDE DEF l, to
<1>10. /\ queue'[r] = Tail(queue[r]) /\ turn'[r] # "arriving" /\ placed' = placed
  BY <1>3, <1>4, <1>6, <1>9 DEF Over
<1>11. Reached(r, c, y)' /\ Path(Leads(r, c), stream', m, y)
  BY <1>1, <1>2 DEF Reached, opencode
<1>12. Knows(r, c, m)'
  <2>1. Lost(c)' => Lost(c)
    BY <1>10, LostNext DEF Heard
  <2> QED
    BY <1>2, <1>10, <2>1 DEF Knows
<1>13. /\ \A p \in Projects : entry[p][c] \in Nat /\ entry[p][r] \in Nat /\ r \notin gone[p]
  BY <1>1, <1>3 DEF Shape, StoreTypes, Settled, Buried
<1>14. /\ x.at \in Locations /\ x.on \in BOOLEAN /\ x.rs \in Nat /\ x.cs \in Nat
       /\ x1.at = to /\ x1.on = x.on /\ x1.dead = x.dead /\ x1.rs = e.seq /\ x1.cs = x.cs
  BY <1>7, <1>8 DEF Moments
<1>15. \A p \in Projects : c \in Listed(p, r) <=> p = l /\ x.on
  BY <1>2, <1>4, <1>8 DEF Fits
<1>16. \A p \in Projects :
         /\ c \in gone[p] => x.dead
         /\ entry[p][c] <= x.cs
         /\ entry[p][r] <= x.rs \/ (p = l /\ entry[p][r] <= e.seq)
  BY <1>2 DEF Fits, l
<1>17. ~Refused(to, e) /\ ~Stale(to, e)
  <2>1. ~Refused(to, e)
    BY <1>3, <1>4, <1>5, <1>13 DEF Refused
  <2>2. ~Stale(to, e)
    BY SMT, <1>4, <1>5, <1>8, <1>13, <1>14, <1>16 DEF Stale
  <2> QED
    BY <2>1, <2>2
<1>18. /\ rec' = [rec EXCEPT ![to][r] = Arrived(e), ![l][r] = Released(e)] /\ Record(to, e)
       /\ Touch(r, to)
  BY Zenon, <1>5, <1>17 DEF Arrive, l, to
<1>19. /\ rec'[to][r] = Arrived(e) /\ rec'[l][r] = Released(e)
       /\ \A p \in Projects \ {to, l} : rec'[p][r] = rec[p][r]
  BY <1>4, <1>6, <1>18
<1>20. /\ Arrived(e).subs = Listed(l, r) /\ Arrived(e) # None
       /\ Orelse(Released(e), Blank).subs = {}
  BY <1>1, <1>5, HandedOver DEF Settled, l
<1> HIDE DEF e
<1>21. ASSUME NEW p \in Projects PROVE c \in Listed(p, r)' <=> p = x1.at /\ x1.on
  <2>1. CASE p = to
    <3>1. Listed(p, r)' = Listed(l, r)
      BY <1>19, <1>20, <2>1 DEF Listed, Orelse
    <3> QED
      BY <1>4, <1>14, <1>15, <2>1, <3>1
  <2>2. CASE p = l
    <3>1. Listed(p, r)' = {}
      BY <1>19, <1>20, <2>2 DEF Listed, Orelse, Blank
    <3> QED
      BY <1>4, <1>14, <2>2, <3>1
  <2>3. CASE p \notin {to, l}
    <3>1. Listed(p, r)' = Listed(p, r)
      BY <1>19, <2>3 DEF Listed, Orelse, Blank
    <3> QED
      BY <1>14, <1>15, <2>3, <3>1
  <2> QED
    BY <2>1, <2>2, <2>3
<1>22. ASSUME NEW p \in Projects
       PROVE  (c \in gone'[p] => x1.dead) /\ entry'[p][c] <= x1.cs /\ entry'[p][r] <= x1.rs
  <2>1. entry'[p][c] = entry[p][c] /\ (c \in gone'[p] <=> c \in gone[p])
    BY <1>3, <1>4, <1>5, <1>18, RecordAt
  <2>2. entry'[p][r] = IF p = to THEN e.seq ELSE entry[p][r]
    BY <1>3, <1>4, <1>5, <1>18, RecordAt
  <2> QED
    BY <1>4, <1>8, <1>13, <1>14, <1>16, <2>1, <2>2
<1>24. Current(r, x1.at)'
  <2>1. touched'[r] = {pair \in touched[r] : pair[2] # to} \cup {to} \X (Projects \ {to})
    BY Zenon, <1>18 DEF Touch, Shape, StoreTypes
  <2>2. \A p \in Projects \ {x1.at} : <<p, x1.at>> \notin touched'[r]
    BY <1>14, <2>1
  <2>3. rec'[x1.at][r] # None
    BY <1>14, <1>19, <1>20
  <2> QED
    BY <2>2, <2>3 DEF Current, Fresher
<1>23. Fits(r, c, x1)'
  BY <1>21, <1>22, <1>24 DEF Fits
<1> QED
  BY <1>2, <1>7, <1>10, <1>11, <1>12, <1>23, ToldNext

LEMMA CutStays ==
    ASSUME Shape, [Next]_vars, cut PROVE cut'
<1>1. ASSUME NEW k \in Sessions, Serve(k) PROVE cut'
  <2>1. CASE Begin(k) \/ Publish(k) \/ Arrive(k)
    BY Zenon, <2>1 DEF Begin, Publish, Arrive
  <2>2. CASE BeginUnread(k)
    BY <2>2 DEF BeginUnread
  <2>3. CASE Outside(k) \/ Killed(k)
    BY <2>3 DEF Outside, Killed
  <2> QED
    BY Zenon, <1>1, <2>1, <2>2, <2>3 DEF Serve
<1>2. ASSUME NEW k, NEW events, Enqueue(k, events) PROVE cut'
  <2> DEFINE full == Len(queue[k] \o events) > QueueLimit
  <2>1. cut' = (cut \/ full)
    BY <1>2 DEF Enqueue
  <2> HIDE DEF full
  <2> QED
    BY <2>1, Zenon
<1>3. CASE Admit
  BY <1>2, <1>3, AdmitSteps
<1>4. ASSUME NEW i \in Instances, Answer(i) PROVE cut'
  <2>1. (cut' = cut) \/ \E k, events : Enqueue(k, events)
    BY <1>4, Answers
  <2> QED
    BY Zenon, <1>2, <2>1
<1>5. ASSUME NEW i \in Instances, Drained(i) PROVE cut'
  BY <1>5, Zenon DEF Drained
<1>6. ASSUME NEW i \in Instances, Marked(i) PROVE cut'
  BY <1>6, Zenon DEF Marked
<1>7. ASSUME cut' = cut PROVE cut'
  BY <1>7, Zenon
<1>8. CASE \E s \in Sessions : Create(s) \/ Start(s) \/ Finish(s) \/ Delete(s)
  BY <1>7, <1>8 DEF Create, Start, Finish, Delete, Emit, Going
<1>9. CASE \E r \in Roots, l \in Locations : Move(r, l)
  BY <1>7, <1>9 DEF Move, Emit, Going
<1>10. CASE \E i \in Instances : Setup(i) \/ Register(i) \/ Cleanup(i)
  BY <1>7, <1>10 DEF Setup, Register, Cleanup
<1>11. CASE \E i \in Instances, l \in Projects : Mark(i, l)
  BY <1>7, <1>11 DEF Mark
<1>12. CASE UNCHANGED vars
  BY <1>7, <1>12 DEF vars
<1> QED
  BY <1>1, <1>3, <1>4, <1>5, <1>6, <1>8, <1>9, <1>10, <1>11, <1>12 DEF Next

\* What touches neither of them changes nothing of what is told.
LEMMA ToldKept ==
    ASSUME Shape, Heard, ~missed', [Next]_vars, NEW r \in Roots, NEW c \in Sessions, Told(r, c),
           UNCHANGED <<opencode, stream>>, queue'[r] = queue[r], turn'[r] = turn[r],
           placed'[r] = placed[r], placed'[c] = placed[c], touched'[r] = touched[r],
           \A l \in Projects : /\ rec'[l][r] = rec[l][r]
                               /\ entry'[l][r] = entry[l][r] /\ entry'[l][c] = entry[l][c]
                               /\ c \in gone'[l] <=> c \in gone[l]
    PROVE  Told(r, c)'
<1>1. PICK x \in Moments, m \in Moments, y \in Moments :
        /\ Fits(r, c, x) /\ Path(Serves(r, c), queue[r], x, m)
        /\ Knows(r, c, m) /\ Path(Leads(r, c), stream, m, y)
        /\ Reached(r, c, y)
  BY DEF Told
<1>2. Reached(r, c, y)' /\ Path(Leads(r, c), stream', m, y) /\ Path(Serves(r, c), queue'[r], x, m)
  BY <1>1 DEF Reached, opencode
<1>3. Fits(r, c, x)'
  BY <1>1, FitsKept
<1>4. Knows(r, c, m)'
  <2>1. Lost(c)' => Lost(c)
    BY LostNext DEF Heard
  <2> QED
    BY <1>1, <2>1 DEF Knows
<1> QED
  BY <1>1, <1>2, <1>3, <1>4, ToldNext

LEMMA ServeTold ==
    ASSUME Shape, Heard, Settled, ~cut', ~missed', [Next]_vars, NEW k \in Sessions, Serve(k),
           NEW r \in Roots, NEW c \in Sessions, Parent[c] = r, life'[r] # "deleted",
           r \notin overtaken', Told(r, c)
    PROVE  Told(r, c)'
<1>1. ~missed
  BY MissedStays
<1>2. Begin(k) \/ Publish(k) \/ Arrive(k)
  BY <1>1, RootServed DEF Settled
<1>3. CASE k = r
  BY <1>2, <1>3, BeginTold, PublishTold, ArriveTold DEF Settled
<1>4. CASE k # r
  <2>1. RootOf(r) = r /\ RootOf(c) = r /\ r \in Sessions
    BY Heir
  <2>2. /\ queue'[r] = queue[r] /\ turn'[r] = turn[r] /\ placed'[r] = placed[r]
        /\ \A l \in Projects : rec'[l][r] = rec[l][r] /\ entry'[l][r] = entry[l][r]
        /\ touched'[r] = touched[r]
    BY <1>1, <1>4, <2>1, ServeElsewhere
  <2>3. /\ placed'[c] = placed[c]
        /\ \A l \in Projects : entry'[l][c] = entry[l][c] /\ (c \in gone'[l] <=> c \in gone[l])
    BY SMT, <1>1, <1>4, <2>1, ServeElsewhere
  <2>4. UNCHANGED <<opencode, stream>>
    BY Zenon, <1>2 DEF Begin, Publish, Arrive
  <2> QED
    BY <2>2, <2>3, <2>4, ToldKept
<1> QED
  BY <1>3, <1>4

\* Who was overtaken stays so.
LEMMA OvertakenStays ==
    ASSUME [Next]_vars PROVE overtaken \subseteq overtaken'
<1>1. ASSUME NEW k \in Sessions, Publish(k) PROVE overtaken \subseteq overtaken'
  BY <1>1 DEF Publish, Remark, remarks
<1>2. ASSUME NEW k \in Sessions, Serve(k), ~Publish(k) PROVE overtaken' = overtaken
  BY <1>2 DEF Serve, Begin, BeginUnread, Outside, Arrive, Killed, remarks
<1>3. CASE \/ \E x \in Sessions : Create(x) \/ Start(x) \/ Finish(x) \/ Delete(x)
           \/ \E r \in Roots, m \in Locations : Move(r, m)
           \/ Admit
  BY <1>3 DEF Create, Start, Finish, Delete, Move, Emit, Going, Admit, remarks
<1>4. CASE \/ \E i \in Instances : Setup(i) \/ Register(i) \/ Answer(i)
           \/ \E i \in Instances : Cleanup(i) \/ Drained(i) \/ Marked(i)
           \/ \E i \in Instances, m \in Projects : Mark(i, m)
  BY <1>4 DEF Setup, Register, Answer, Cleanup, Drained, Marked, Mark, remarks
<1> QED
  BY <1>1, <1>2, <1>3, <1>4 DEF Next, vars, remarks

LEMMA ListingsNext ==
    Shape /\ Heard /\ Settled /\ Listings /\ [Next]_vars => Listings'
<1> SUFFICES ASSUME Shape, Heard, Settled, Listings, [Next]_vars, ~cut', ~missed',
                    NEW r \in Roots, NEW c \in Sessions,
                    Parent[c] = r, life'[r] # "deleted", c \notin ahead', r \notin overtaken'
             PROVE  Told(r, c)'
  BY DEF Listings, Told, Fits, Current, Fresher, Knows, Reached, Listed, Lost, Announcing
<1>1. ~missed /\ ~cut /\ c \notin ahead /\ life[r] # "deleted" /\ r \notin overtaken
  BY MissedStays, CutStays, AheadAt, LifeOn, OvertakenStays DEF Heard, Roots
<1>2. Told(r, c)
  BY <1>1 DEF Listings
<1>3. \A i \in Instances : inst[i] \notin {"draining", "marking"} /\ todo[i] = {}
  BY <1>1 DEF Settled, Steady
<1>4. ASSUME UNCHANGED <<opencode, stream, registry, stores>> PROVE Told(r, c)'
  BY <1>2, <1>4, ToldKept DEF registry, stores
<1>5. CASE \/ \E s \in Sessions : Create(s) \/ Start(s) \/ Finish(s) \/ Delete(s)
           \/ \E q \in Roots, l \in Locations : Move(q, l)
  BY <1>2, <1>5, EmitTold DEF Settled
<1>6. CASE Admit
  BY <1>2, <1>6, AnnouncedNext, AdmitTold DEF Heard
<1>7. CASE \E k \in Sessions : Serve(k)
  BY <1>2, <1>7, ServeTold
<1>8. ASSUME NEW i \in Instances, Answer(i) PROVE Told(r, c)'
  <2>1. PICK s \in Sessions, l \in Projects :
          \/ /\ life[s] = "deleted" /\ GoneEvent(s, l) \in Sane /\ RootOf(s) \in Sessions
             /\ Enqueue(RootOf(s), <<GoneEvent(s, l)>>) /\ placed' = placed
             /\ ahead' = IF Unread(s) THEN ahead \cup {s} ELSE ahead
          \/ UNCHANGED <<ahead, registry, cut>>
    BY <1>8, Answers
  <2>2. CASE UNCHANGED <<ahead, registry, cut>>
    BY <1>4, <1>8, <2>2 DEF Answer
  <2>3. CASE ~UNCHANGED <<ahead, registry, cut>>
    BY <1>2, <1>8, <2>1, <2>3, AnswerTold
  <2> QED
    BY <2>2, <2>3
<1>9. CASE \E i \in Instances : Setup(i) \/ Register(i)
  BY <1>4, <1>9 DEF Setup, Register
<1>10. ASSUME NEW i \in Instances, Cleanup(i) PROVE Told(r, c)'
  <2> DEFINE last == Live = {i}
  <2>1. missed' = (missed \/ last) /\ stream' = IF last THEN <<>> ELSE stream
    BY <1>10 DEF Cleanup
  <2> HIDE DEF last
  <2>2. ~last
    BY <2>1, Zenon
  <2> QED
    BY <1>4, <1>10, <2>1, <2>2 DEF Cleanup
<1>11. CASE \/ \E i \in Instances : Drained(i) \/ Marked(i)
            \/ \E i \in Instances, l \in Projects : Mark(i, l)
  BY <1>3, <1>11 DEF Drained, Marked, Mark
<1>12. CASE UNCHANGED vars
  BY <1>4, <1>12 DEF vars
<1> QED
  BY <1>5, <1>6, <1>7, <1>8, <1>9, <1>10, <1>11, <1>12 DEF Next

LEMMA InitListings == Init => Listings
<1> SUFFICES ASSUME Init, NEW r \in Roots, NEW c \in Sessions, Parent[c] = r
             PROVE  Told(r, c)
  BY DEF Listings
<1>1. c # r /\ r \in Sessions
  BY Heir
<1> DEFINE x == [at |-> home[r], on |-> FALSE, dead |-> FALSE, rs |-> 0, cs |-> 0]
<1>2. home[r] \in Locations
  BY DEF Init
<1>3. x \in Moments /\ x.at = home[r] /\ ~x.on /\ ~x.dead /\ x.rs = 0 /\ x.cs = 0
  BY <1>2 DEF Moments
<1> HIDE DEF x
<1>4. /\ stream = <<>> /\ queue[r] = <<>> /\ placed[r] = None /\ ~Lost(c)
      /\ \A l \in Projects : rec[l][r] = None /\ entry[l][r] = 0 /\ entry[l][c] = 0 /\ gone[l] = {}
      /\ working = {} /\ life[c] = "unborn" /\ seq[r] = 0 /\ seq[c] = 0
  BY <1>1 DEF Init, Lost
<1>5. /\ queue[r] \in Seq(Sane) /\ Len(queue[r]) = 0
      /\ stream \in Seq(Sane) /\ Len(stream) = 0
  BY <1>4, EmptySeq
<1>6. Path(Serves(r, c), queue[r], x, x) /\ Path(Leads(r, c), stream, x, x)
  BY <1>3, <1>5, PathStay
<1>7. Fits(r, c, x)
  BY <1>3, <1>4 DEF Fits, Current, Listed, Orelse, Blank
<1>8. Knows(r, c, x) /\ Reached(r, c, x)
  BY <1>3, <1>4 DEF Knows, Reached
<1> QED
  BY <1>3, <1>4, <1>6, <1>7, <1>8 DEF Told

\* Once everything received is published, a child is listed where its root is
\* exactly while it works.
THEOREM WorkingListed == Spec => []ChildrenListed
<1>1. Shape /\ Owned /\ Buried /\ Listings => ChildrenListed
  <2> SUFFICES ASSUME Shape, Owned, Buried, Listings, Quiet, ~cut, ~missed,
                      NEW r \in Roots, r \notin overtaken, life[r] = "here",
                      home[r] \in Projects, NEW l \in Projects
               PROVE  Orelse(rec[l][r], Blank).subs \ ahead =
                        IF l = home[r] THEN {c \in working : Parent[c] = r} ELSE {}
    BY DEF ChildrenListed
  <2>1. \A c \in Listed(l, r) : c \in Sessions /\ Parent[c] = r
    BY DEF Listed, Orelse, Blank, Owned, Shape, StoreTypes, Records
  <2>2. \A c \in working : c \in Sessions /\ c \notin ahead
    BY DEF Buried, Shape, CoreTypes
  <2>3. ASSUME NEW c \in Sessions, Parent[c] = r, c \notin ahead
        PROVE  c \in Listed(l, r) <=> l = home[r] /\ c \in working
    <3>1. PICK x \in Moments, m \in Moments, y \in Moments :
            /\ Fits(r, c, x) /\ Path(Serves(r, c), queue[r], x, m)
            /\ Path(Leads(r, c), stream, m, y) /\ Reached(r, c, y)
      BY <2>3 DEF Listings, Told
    <3>2. queue[r] = <<>> /\ stream = <<>>
      BY DEF Quiet, Roots
    <3>3. queue[r] \in Seq(Sane) /\ stream \in Seq(Emitted)
      BY DEF Shape, QueueTypes, Roots
    <3>4. x = m /\ m = y
      <4>1. x = m
        BY <3>1, <3>2, <3>3, PathEnds
      <4>2. m = y
        BY <3>1, <3>2, <3>3, PathEnds
      <4> QED
        BY <4>1, <4>2
    <3> QED
      BY <3>1, <3>4 DEF Fits, Reached
  <2> QED
    BY <2>1, <2>2, <2>3 DEF Listed
<1> DEFINE Inv == Shape /\ Heard /\ Settled /\ Listings
<1>2. Init => Inv
  BY InitShape, HeardInit, InitSettled, InitListings
<1>3. Inv /\ [Next]_vars => Inv'
  BY NextShape, HeardNext, SettledNext, ListingsNext
<1>4. Inv => ChildrenListed
  BY <1>1 DEF Settled
<1> QED
  BY <1>2, <1>3, <1>4, PTL DEF Spec
=============================================================================
