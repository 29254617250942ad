--------------------------- MODULE OpenCodePlugin ---------------------------
(***************************************************************************)
(* The OpenCode observation plugin (plugins/opencode.js) and the helper it *)
(* runs for each publication (sessions/opencode_publish.py).  One server   *)
(* emits its sessions' events; the registry its plugin instances share     *)
(* admits each one, queues it under its root and sends it to the helper,   *)
(* which writes the root's hook record in the store of the root's          *)
(* location, under that store's Publisher Record.  The last instance's     *)
(* cleanup marks the running records as observed by nothing.               *)
(*                                                                         *)
(* Every location is in a Git Repository of its own, so a move goes to     *)
(* another Project or outside every Project.  One Host Process.  A helper  *)
(* may be killed, or find no free slot, at any point; a killed helper      *)
(* writes nothing more.                                                    *)
(***************************************************************************)
EXTENDS Naturals, Sequences, FiniteSets, SequencesExt

CONSTANTS Sessions,
          Parent,      \* a child session's root, None for a root
          Locations,
          Projects,    \* the locations inside a configured Project
          Instances,   \* plugin instances, each set up at most once
          QueueLimit,  \* publications a root's queue admits
          MaxEvents,   \* bound: events the server emits
          MaxUnread,   \* bound: events emitted and not yet received
          None

ASSUME ConstantsAssumption ==
    /\ IsFiniteSet(Sessions)
    /\ Parent \in [Sessions -> Sessions \cup {None}]
    /\ \A s \in Sessions : Parent[s] # None => Parent[Parent[s]] = None
    /\ Projects \subseteq Locations
    /\ QueueLimit \in Nat \ {0} /\ MaxEvents \in Nat /\ MaxUnread \in Nat
    /\ None \notin Sessions \cup Locations \cup Instances

VARIABLES
    life, working, home, seq,   \* OpenCode: its sessions, where each root is
    stream,                     \* events emitted and not yet received
    inst, registering,          \* the instances, those whose registration is to come
    found, reading,             \* what registrations found still to be read, being read
    ahead, overtaken, late,     \* history: what a recovered deletion came before or after
    placed, queue, turn, bar,   \* the registry: sessions and queues
    routed, barrier, todo,      \* stores routed to, the cleanups' markings
    rec, touched,               \* hook records, and which was written after which
    entry, gone,                \* Publisher Records: sequences, deletions
    cut, missed                 \* history: a publication failed, nobody listened

recovery == <<registering, found, reading, ahead>>
remarks == <<overtaken, late>>
opencode == <<life, working, home, seq>>
registry == <<placed, queue, turn, bar>>
cleanups == <<routed, barrier, todo>>
stores == <<rec, touched, entry, gone>>
vars == <<opencode, stream, inst, recovery, registry, cleanups, stores, remarks, cut, missed>>

RootOf(s) == IF Parent[s] = None THEN s ELSE Parent[s]
IsChild(s) == Parent[s] # None
Roots == {s \in Sessions : ~IsChild(s)}
Live == {i \in Instances : inst[i] = "live"}

EventTypes == {"created", "started", "ended", "moved", "deleted"}
Events == [type : EventTypes \cup {"gone"}, session : Sessions, seq : Nat,
           from : Locations \cup {None}, to : Locations \cup {None},
           route : Locations \cup {None}]
Records == [turn : BOOLEAN, subs : SUBSET Sessions, ended : BOOLEAN,
            away : BOOLEAN, marked : BOOLEAN]
\* A session listed by a hook record, and the location of the record's store.
Recoverable == Sessions \X Projects
ASSUME NoneAssumption == None \notin Records /\ None \notin Recoverable

TypeOK ==
    /\ life \in [Sessions -> {"unborn", "here", "deleted"}]
    /\ working \subseteq Sessions
    /\ home \in [Roots -> Locations]
    /\ seq \in [Sessions -> Nat]
    /\ stream \in Seq(Events)
    /\ inst \in [Instances -> {"new", "live", "draining", "marking", "gone"}]
    /\ registering \subseteq Instances
    /\ found \in [Instances -> SUBSET Recoverable]
    /\ reading \in [Instances -> Recoverable \cup {None}]
    /\ ahead \subseteq Sessions
    /\ overtaken \subseteq Roots /\ late \subseteq Projects \X Roots
    /\ placed \in [Sessions -> Locations \cup {None}]
    /\ queue \in [Sessions -> Seq(Events)]
    /\ \A k \in Sessions : Len(queue[k]) <= QueueLimit
    /\ turn \in [Sessions -> {"idle", "barred", "asked", "arriving"}]
    /\ \A k \in Sessions : turn[k] = "idle" <=> queue[k] = <<>>
    /\ bar \in [Sessions -> Instances \cup {None}]
    /\ routed \subseteq Locations
    /\ barrier \in Instances \cup {None}
    /\ todo \in [Instances -> SUBSET Projects]
    /\ rec \in [Projects -> [Roots -> Records \cup {None}]]
    /\ touched \in [Roots -> SUBSET (Projects \X Projects)]
    /\ entry \in [Projects -> [Sessions -> Nat]]
    /\ gone \in [Projects -> SUBSET Sessions]
    /\ cut \in BOOLEAN /\ missed \in BOOLEAN

Init ==
    /\ life = [s \in Sessions |-> "unborn"]
    /\ working = {}
    /\ home \in [Roots -> Projects]
    /\ seq = [s \in Sessions |-> 0]
    /\ stream = <<>>
    /\ inst = [i \in Instances |-> "new"] /\ registering = {}
    /\ found = [i \in Instances |-> {}] /\ reading = [i \in Instances |-> None]
    /\ ahead = {} /\ overtaken = {} /\ late = {}
    /\ placed = [s \in Sessions |-> None]
    /\ queue = [s \in Sessions |-> <<>>]
    /\ turn = [s \in Sessions |-> "idle"]
    /\ bar = [s \in Sessions |-> None]
    /\ routed = {} /\ barrier = None
    /\ todo = [i \in Instances |-> {}]
    /\ rec = [l \in Projects |-> [r \in Roots |-> None]]
    /\ touched = [r \in Roots |-> {}]
    /\ entry = [l \in Projects |-> [s \in Sessions |-> 0]]
    /\ gone = [l \in Projects |-> {}]
    /\ cut = FALSE /\ missed = FALSE

-----------------------------------------------------------------------------
\* bound: once a publication failed and nobody listened, nothing more is begun.
Going == ~(cut /\ missed)

(* OpenCode: each event carries its session's own durable sequence, and is *)
(* received only while an instance listens.                                *)
Emit(s, type, to) ==
    LET event == [type |-> type, session |-> s, seq |-> seq[s] + 1, to |-> to, route |-> None,
                  from |-> IF type \in {"created", "moved"} THEN home[RootOf(s)] ELSE None]
    IN /\ Going /\ FoldFunction(+, 0, seq) < MaxEvents /\ Len(stream) < MaxUnread
       /\ seq' = [seq EXCEPT ![s] = @ + 1]
       /\ stream' = IF Live = {} THEN stream ELSE Append(stream, event)
       /\ missed' = (missed \/ Live = {})
       /\ UNCHANGED <<inst, recovery, registry, cleanups, stores, remarks, cut>>

Create(s) ==
    /\ life[s] = "unborn"
    /\ IsChild(s) => Parent[s] \in working
    /\ life' = [life EXCEPT ![s] = "here"]
    /\ Emit(s, "created", None)
    /\ UNCHANGED <<working, home>>

\* A stray start may follow the deletion of a running parent (ADR 0090).
Start(s) ==
    /\ s \notin working
    /\ life[s] = "here" \/ (life[s] = "deleted" /\ ~IsChild(s))
    /\ working' = IF life[s] = "here" THEN working \cup {s} ELSE working
    /\ Emit(s, "started", None)
    /\ UNCHANGED <<life, home>>

Finish(s) ==
    /\ s \in working
    /\ working' = working \ {s}
    /\ Emit(s, "ended", None)
    /\ UNCHANGED <<life, home>>

\* A move always falls inside an execution of its root.
Move(r, l) ==
    /\ r \in working /\ ~IsChild(r) /\ l # home[r]
    /\ home' = [home EXCEPT ![r] = l]
    /\ Emit(r, "moved", l)
    /\ UNCHANGED <<life, working>>

Delete(s) ==
    /\ life[s] = "here"
    /\ life' = [life EXCEPT ![s] = "deleted"]
    /\ working' = working \ {s}
    /\ Emit(s, "deleted", None)
    /\ UNCHANGED home

-----------------------------------------------------------------------------
(* The registry. *)

\* routeKnown(): the location of the session's root, if every link is known.
RouteKnown(at, s) == IF at[s] # None THEN at[RootOf(s)] ELSE None

\* Mutant: a session's own queue, whatever its root.
OwnQueue(at, s) == s

\* A known session is queued under its root, another under its own id.
QueueOf(at, s) == IF RouteKnown(at, s) = None THEN s ELSE RootOf(s)

\* Mutant: a queue of no limit.
Admitted(all) == all

\* What QUEUE_LIMIT leaves of a queue and what is to join it.
WithinLimit(all) == SubSeq(all, 1, IF Len(all) > QueueLimit THEN QueueLimit ELSE Len(all))

\* enqueue(): what a full queue refuses is lost.  A free queue gives its first
\* publication its turn at once, which then waits for the barrier of that moment.
Enqueue(k, events) ==
    LET all == queue[k] \o events
    IN /\ queue' = [queue EXCEPT ![k] = WithinLimit(all)]
       /\ turn' = [turn EXCEPT ![k] = IF @ = "idle" /\ all # <<>> THEN "barred" ELSE @]
       /\ bar' = [bar EXCEPT ![k] = IF turn[k] = "idle" /\ all # <<>> THEN barrier ELSE @]
       /\ cut' = (cut \/ Len(all) > QueueLimit)

\* admit(): the route is fixed now if it is known, at the turn otherwise.
Admit ==
    /\ stream # <<>> /\ Live # {}
    /\ LET e == Head(stream)
           at == CASE e.type = "created" -> [placed EXCEPT ![e.session] = e.from]
                   [] e.type = "moved" -> [placed EXCEPT ![e.session] = IF @ = None THEN @ ELSE e.to]
                   [] OTHER -> placed
           known == RouteKnown(at, e.session)
       IN /\ placed' = at
          /\ Enqueue(QueueOf(at, e.session), <<[e EXCEPT !.route = known]>>)
    /\ stream' = Tail(stream)
    /\ UNCHANGED <<opencode, inst, recovery, cleanups, stores, remarks, missed>>

\* The head of queue k is over, however it ended.
Over(k, at) ==
    LET rest == Tail(queue[k])
    IN /\ queue' = [queue EXCEPT ![k] = rest]
       /\ turn' = [turn EXCEPT ![k] = IF rest = <<>> THEN "idle" ELSE "barred"]
       /\ bar' = [bar EXCEPT ![k] = IF rest = <<>> THEN None ELSE barrier]
       /\ placed' = at

\* A deleted session is forgotten once the helper has answered.
Forgotten(k) ==
    LET e == Head(queue[k])
    IN IF e.type = "deleted" THEN [placed EXCEPT ![e.session] = None] ELSE placed

\* route(): the unknown links are read from OpenCode, which answers while an
\* instance lives and only for a session it still has.
Unknown(e) == {s \in {e.session, RootOf(e.session)} : placed[s] = None}
Readable(S) == S # {} => Live # {} /\ \A s \in S : life[s] = "here"
Remembered(S) == [s \in Sessions |-> IF s \in S THEN home[RootOf(s)] ELSE placed[s]]

\* The publication's turn, once the cleanup it waits for has marked: the helper
\* is asked, a move where its session was and anything else where its root is.
Begin(k) ==
    /\ turn[k] = "barred" /\ bar[k] = None
    /\ LET e == Head(queue[k])
           read == IF e.route = None THEN Unknown(e) ELSE {}
           to == IF e.type = "moved" THEN e.from
                 ELSE IF e.route = None THEN Remembered(read)[RootOf(e.session)] ELSE e.route
       IN /\ Readable(read)
          /\ placed' = Remembered(read)
          /\ queue' = [queue EXCEPT ![k][1].route = to]
          /\ routed' = IF e.type = "gone" THEN routed ELSE routed \cup ({to, e.to} \ {None})
    /\ turn' = [turn EXCEPT ![k] = "asked"]
    /\ UNCHANGED <<opencode, stream, inst, recovery, bar, barrier, todo, stores, remarks,
                   cut, missed>>

\* A read fails or finds the session deleted: the event is dropped.
BeginUnread(k) ==
    /\ turn[k] = "barred" /\ bar[k] = None
    /\ LET e == Head(queue[k])
       IN /\ e.route = None /\ Unknown(e) # {}
          /\ \E read \in {{}, Unknown(e) \ {RootOf(e.session)}} :
               Readable(read) /\ Over(k, Remembered(read))
    /\ cut' = TRUE
    /\ UNCHANGED <<opencode, stream, inst, recovery, cleanups, stores, remarks, missed>>

-----------------------------------------------------------------------------
(* The hook records: a root's own events write its turn, its children's    *)
(* only which of them work.  A record running is one with a turn or a      *)
(* child; writing clears the mark.                                         *)
Blank == [turn |-> FALSE, subs |-> {}, ended |-> FALSE, away |-> FALSE, marked |-> FALSE]
Orelse(p, default) == IF p = None THEN default ELSE p

RootWrite(p, inTurn, away) ==
    [Orelse(p, Blank) EXCEPT !.turn = inTurn, !.ended = FALSE, !.away = away, !.marked = FALSE]

\* A SessionEnd keeps an ended record for the children it still lists.
EndWrite(p) ==
    IF p = None \/ p.subs = {} THEN None
    ELSE [p EXCEPT !.turn = FALSE, !.ended = TRUE, !.away = FALSE, !.marked = FALSE]

ChildWrite(p, subs) ==
    IF p = None \/ (p.ended /\ subs = {}) THEN None
    ELSE [p EXCEPT !.subs = subs, !.marked = @ /\ p.ended]

\* Any publication but an incarnation's first forgets a marked record's children.
Forget(p) == IF p # None /\ p.marked THEN [p EXCEPT !.subs = {}] ELSE p

\* _begins_incarnation(): no record of the root yet, for what may begin one.
Begins(l, e) ==
    /\ rec[l][RootOf(e.session)] = None /\ RootOf(e.session) \notin gone[l]
    /\ e.type \in IF IsChild(e.session) THEN {"started"} ELSE {"created", "started", "ended"}

\* Writing a record makes its store the root's freshest.
Touch(r, l) == touched' = [touched EXCEPT ![r] =
                   {pair \in @ : pair[2] # l} \cup {l} \X (Projects \ {l})]
Fresher(r, a, b) == <<a, b>> \in touched[r]

\* The children of r's record p at l, seeded from another store's if that is the
\* fresher and live; an ended record keeps those it lists besides.
Carried(r, p, l, other) ==
    LET seed == rec[other][r]
    IN IF seed # None /\ ~Orelse(seed, Blank).ended /\ (p = None \/ Fresher(r, other, l))
       THEN seed.subs \cup IF Orelse(p, Blank).ended THEN p.subs ELSE {}
       ELSE Orelse(p, Blank).subs

\* A move is written where it leaves, seeded from where it goes.
MovedWrite(r, p, l, to) ==
    [RootWrite(p, TRUE, TRUE) EXCEPT
       !.subs = IF to \in Projects THEN Carried(r, p, l, to) ELSE @]

Written(l, e) ==
    LET old == rec[l][RootOf(e.session)]
        p == IF Begins(l, e) THEN Blank ELSE Forget(old)
        subs == Orelse(p, Blank).subs
    IN IF IsChild(e.session)
       THEN CASE e.type \in {"created", "moved"} -> old
              [] e.type = "started" -> ChildWrite(p, subs \cup {e.session})
              [] OTHER -> ChildWrite(p, subs \ {e.session})
       ELSE CASE e.type = "created" -> RootWrite(old, FALSE, FALSE)
              [] e.type = "started" -> RootWrite(p, TRUE, FALSE)
              [] e.type = "ended" -> RootWrite(p, FALSE, FALSE)
              [] e.type = "moved" -> MovedWrite(e.session, p, l, e.to)
              [] OTHER -> EndWrite(p)

\* Mutant: what follows a deletion is judged by its sequence alone.
RefusedNever(l, e) == FALSE

\* Deletion refuses what follows it, save a recovered child's own end.
Refused(l, e) ==
    /\ {e.session, RootOf(e.session)} \cap gone[l] # {}
    /\ IsChild(e.session) /\ e.type = "gone" => e.session \in gone[l]

\* Mutant: a child's events are judged by its root's sequence.
StaleByRoot(l, e) == e.type # "gone" /\ e.seq <= entry[l][RootOf(e.session)]

Stale(l, e) == e.type # "gone" /\ e.seq <= entry[l][e.session]

\* A child's event stamps no ended record, and its creation is no event.
Writes(l, e) ==
    /\ Written(l, e) # None
    /\ IsChild(e.session) => /\ e.type \notin {"created", "moved"}
                             /\ ~Orelse(Written(l, e), Blank).ended

\* publish_hook_event() at l.
Hook(l, e) ==
    LET r == RootOf(e.session)
    IN /\ rec' = [rec EXCEPT ![l][r] = Written(l, e)]
       /\ IF Writes(l, e) THEN Touch(r, l) ELSE UNCHANGED touched

\* History: a recovered deletion makes a record of its root the fresher of two,
\* or is written when no instance lives to be the last to mark it.
Remark(l, e) ==
    LET r == RootOf(e.session)
        overtakes == \E m \in Projects \ {l} : rec[m][r] # None /\ ~Fresher(r, l, m)
    IN /\ overtaken' = IF e.type = "gone" /\ Writes(l, e) /\ overtakes
                       THEN overtaken \cup {r} ELSE overtaken
       /\ late' = IF e.type = "gone" /\ Live = {} THEN late \cup {<<l, r>>} ELSE late

\* The Publisher Record of l.
Record(l, e) ==
    IF e.type \in {"deleted", "gone"}
    THEN /\ entry' = [entry EXCEPT ![l][e.session] = 0]
         /\ gone' = [gone EXCEPT ![l] = @ \cup {e.session}]
    ELSE /\ entry' = [entry EXCEPT ![l][e.session] = e.seq]
         /\ UNCHANGED gone

-----------------------------------------------------------------------------
(* One publication: written under the store's Publisher Record lock; a     *)
(* move to another Project then arrives there, under that store's own.     *)
Outside(k) ==
    /\ turn[k] = "asked" /\ Head(queue[k]).route \notin Projects
    /\ Over(k, Forgotten(k))
    /\ cut' = TRUE
    /\ UNCHANGED <<opencode, stream, inst, recovery, cleanups, stores, remarks, missed>>

Publish(k) ==
    /\ turn[k] = "asked" /\ Head(queue[k]).route \in Projects
    /\ LET e == Head(queue[k])  l == e.route
       IN \/ /\ Refused(l, e) \/ Stale(l, e)
             /\ Over(k, Forgotten(k))
             /\ UNCHANGED <<stores, remarks>>
          \/ /\ ~Refused(l, e) /\ ~Stale(l, e)
             /\ Hook(l, e) /\ Remark(l, e) /\ Record(l, e)
             /\ IF e.type = "moved" /\ e.to \in Projects
                THEN turn' = [turn EXCEPT ![k] = "arriving"] /\ UNCHANGED <<queue, bar, placed>>
                ELSE Over(k, Forgotten(k))
    /\ UNCHANGED <<opencode, stream, inst, recovery, cleanups, cut, missed>>

\* _arrive(): the record begun at the destination takes the children of the one
\* left, if that is the fresher, and the one left then lets them go.
Arrived(e) ==
    [Blank EXCEPT !.subs = Carried(e.session, rec[e.to][e.session], e.to, e.route)]

Released(e) ==
    LET left == rec[e.route][e.session]
    IN IF left = None THEN None
       ELSE IF left.ended THEN left
       ELSE [left EXCEPT !.subs = @ \ Arrived(e).subs]

Arrive(k) ==
    /\ turn[k] = "arriving"
    /\ LET e == Head(queue[k])
       IN IF Refused(e.to, e) \/ Stale(e.to, e) THEN UNCHANGED stores
          ELSE /\ rec' = [rec EXCEPT ![e.to][e.session] = Arrived(e),
                                     ![e.route][e.session] = Released(e)]
               /\ Touch(e.session, e.to)
               /\ Record(e.to, e)
    /\ Over(k, Forgotten(k))
    /\ UNCHANGED <<opencode, stream, inst, recovery, cleanups, remarks, cut, missed>>

\* The helper finds no slot or is killed: before it wrote, or between the hook
\* record and what follows it.
Killed(k) ==
    /\ ~cut /\ ~missed   \* bound: a helper fails at most once, while every event is received
    /\ turn[k] \in {"asked", "arriving"} /\ Head(queue[k]).route \in Projects
    /\ LET e == Head(queue[k])
           l == IF turn[k] = "asked" THEN e.route ELSE e.to
       IN \/ UNCHANGED <<rec, touched>>
          \/ /\ ~Refused(l, e) /\ ~Stale(l, e)
             /\ IF turn[k] = "asked" THEN Hook(l, e)
                ELSE /\ rec' = [rec EXCEPT ![l][e.session] = Arrived(e)]
                     /\ Touch(e.session, l)
    /\ Over(k, Forgotten(k))
    /\ cut' = TRUE
    /\ UNCHANGED <<opencode, stream, inst, recovery, cleanups, entry, gone, remarks,
                   missed>>

-----------------------------------------------------------------------------
(* Instances. *)

\* setup(): the instance listens, and asks the helper to register it.
Setup(i) ==
    /\ Going
    /\ inst[i] = "new"
    /\ inst' = [inst EXCEPT ![i] = "live"]
    \* bound: the server's first registration is answered before there are records
    /\ registering' = IF \A j \in Instances : inst[j] = "new" THEN registering
                      ELSE registering \cup {i}
    /\ UNCHANGED <<opencode, stream, found, reading, ahead, registry, cleanups, stores, remarks,
                   cut, missed>>

\* What a store's records name: the roots, and the children they list.
Named(l) ==
    {x \in Sessions \X {l} :
       LET p == rec[l][RootOf(x[1])]
       IN p # None /\ (x[1] \in Orelse(p, Blank).subs \/ ~IsChild(x[1]))}

\* recover() reads one session after another from OpenCode, a root's children
\* before it, through any live instance: with none it reads no more.
Ask(i, S) ==
    IF S = {} \/ Live = {}
    THEN found' = [found EXCEPT ![i] = {}] /\ reading' = [reading EXCEPT ![i] = None]
    ELSE \E x \in S :
           /\ ~IsChild(x[1]) => \A y \in S : RootOf(y[1]) = x[1] => y = x
           /\ found' = [found EXCEPT ![i] = S \ {x}]
           /\ reading' = [reading EXCEPT ![i] = x]

\* The registration finds what its location's store names, all of it or the first
\* few roots; one that fails, or finds nothing, changes nothing.
Register(i) ==
    /\ Going
    /\ i \in registering /\ registering' = registering \ {i}
    /\ \E l \in Projects, roots \in SUBSET Roots \ {{}} :
         Ask(i, {x \in Named(l) : RootOf(x[1]) \in roots})
    /\ UNCHANGED <<opencode, stream, inst, ahead, registry, cleanups, stores, remarks, cut, missed>>

Unread(s) == \E n \in 1..Len(stream) : stream[n].session = s

GoneEvent(s, l) == [type |-> "gone", session |-> s, seq |-> 0,
                    from |-> None, to |-> None, route |-> l]

\* What OpenCode answers it has no more is published as gone, whoever lives by
\* now; a read that fails, or finds the session, publishes nothing.
Answer(i) ==
    /\ reading[i] # None
    /\ LET s == reading[i][1]
       IN \/ /\ life[s] = "deleted"
             /\ Enqueue(RootOf(s), <<GoneEvent(s, reading[i][2])>>)
             /\ ahead' = IF Unread(s) THEN ahead \cup {s} ELSE ahead
             /\ UNCHANGED placed
          \/ UNCHANGED <<ahead, registry, cut>>
    /\ Ask(i, found[i])
    /\ UNCHANGED <<opencode, stream, inst, registering, cleanups, stores, remarks, missed>>

\* An instance's cleanup; the last one's lets what was admitted finish, briefly.
Cleanup(i) ==
    /\ inst[i] = "live"
    /\ i \notin registering   \* bound: its registration is answered first
    /\ LET last == Live = {i}
       IN /\ inst' = [inst EXCEPT ![i] = IF last THEN "draining" ELSE "gone"]
          /\ stream' = IF last THEN <<>> ELSE stream
          /\ missed' = (missed \/ last)
    /\ UNCHANGED <<opencode, recovery, registry, cleanups, stores, remarks, cut>>

OnlyGone == \A k \in Sessions : \A n \in 1..Len(queue[k]) : queue[k][n].type = "gone"

\* Then it marks what was routed, unless an instance was set up meanwhile; what
\* was admitted and not yet published fails to be marked.
Drained(i) ==
    /\ inst[i] = "draining"
    /\ IF Live # {} \/ routed = {}
       THEN inst' = [inst EXCEPT ![i] = "gone"] /\ UNCHANGED <<todo, barrier>>
       ELSE /\ inst' = [inst EXCEPT ![i] = "marking"]
            /\ todo' = [todo EXCEPT ![i] = routed \cap Projects]
            /\ barrier' = i
    /\ cut' = (cut \/ (Live = {} /\ ~OnlyGone))
    /\ UNCHANGED <<opencode, stream, recovery, registry, routed, stores, remarks, missed>>

\* Mutant: only a root's own turn makes its record read as running.
RunningTurn(p) == p # None /\ p.turn

Running(p) == p # None /\ (p.turn \/ p.subs # {})

Mark(i, l) ==
    /\ l \in todo[i]
    /\ todo' = [todo EXCEPT ![i] = @ \ {l}]
    /\ rec' = [rec EXCEPT ![l] = [r \in Roots |->
                 IF Running(@[r]) THEN [@[r] EXCEPT !.marked = TRUE] ELSE @[r]]]
    /\ late' = late \ ({l} \X Roots)
    /\ UNCHANGED <<opencode, stream, inst, recovery, registry, routed, barrier,
                   touched, entry, gone, overtaken, cut, missed>>

\* The marking is over, or its helper killed: the barrier opens.
Marked(i) ==
    /\ inst[i] = "marking"
    /\ inst' = [inst EXCEPT ![i] = "gone"]
    /\ todo' = [todo EXCEPT ![i] = {}]
    /\ barrier' = IF barrier = i THEN None ELSE barrier
    /\ bar' = [k \in Sessions |-> IF bar[k] = i THEN None ELSE bar[k]]
    /\ cut' = (cut \/ todo[i] # {})
    /\ UNCHANGED <<opencode, stream, recovery, placed, queue, turn, routed, stores, remarks,
                   missed>>

-----------------------------------------------------------------------------
Serve(k) == Begin(k) \/ BeginUnread(k) \/ Outside(k) \/ Publish(k) \/ Arrive(k) \/ Killed(k)

Next ==
    \/ \E s \in Sessions : Create(s) \/ Start(s) \/ Finish(s) \/ Delete(s)
    \/ \E r \in Roots, l \in Locations : Move(r, l)
    \/ Admit
    \/ \E k \in Sessions : Serve(k)
    \/ \E i \in Instances : Setup(i) \/ Register(i) \/ Answer(i)
    \/ \E i \in Instances : Cleanup(i) \/ Drained(i) \/ Marked(i)
    \/ \E i \in Instances, l \in Projects : Mark(i, l)

Spec == Init /\ [][Next]_vars

-----------------------------------------------------------------------------
Quiet == stream = <<>> /\ \A k \in Sessions : queue[k] = <<>>

\* Once everything received has been published and nothing failed on the way,
\* a working child is listed on its root's record in the Project its root is
\* in, and on no other: none is forgotten by a move (ADR 0109), and none left
\* where its stop does not reach.  Excepted is what a registration found gone
\* while its last events were still to come: those may list it once more where
\* its deletion is then refused.  Excepted too is the family of which a recovered
\* deletion was written to a record its root had left, which that made the fresher:
\* moving back there, the root takes the children from that record.
ChildrenListed ==
    Quiet /\ ~cut /\ ~missed =>
      \A r \in Roots \ overtaken : life[r] = "here" /\ home[r] \in Projects =>
        \A l \in Projects :
          Orelse(rec[l][r], Blank).subs \ ahead =
            IF l = home[r] THEN {c \in working : Parent[c] = r} ELSE {}

\* No child's event is published to a store where a move of its root, admitted
\* and not yet arrived, is going.
ChildNeverOvertakes ==
    \A c \in Sessions : IsChild(c) /\ turn[c] = "asked" =>
      \A n \in 1..Len(queue[Parent[c]]) :
        LET e == queue[Parent[c]][n]
        IN ~(e.type = "moved" /\ e.to = Head(queue[c]).route)

\* While the registry has seen every event, no two publications of a root and
\* its children are ever with the helper at once.
OneAtATime ==
    ~missed => \A j, k \in Sessions :
      turn[j] \in {"asked", "arriving"} /\ turn[k] \in {"asked", "arriving"}
        /\ RootOf(j) = RootOf(k) => j = k

\* Whatever was deleted where its root is stays so: no later publication, of
\* its child, a stray start or another Project's arrival, makes its record live
\* again or lists one more child on it.
DeletedStaysEnded ==
    [][\A l \in Projects, r \in Roots :
         r \in gone[l] /\ (rec[l][r] = None \/ Orelse(rec[l][r], Blank).ended) =>
           rec'[l][r] = None \/ (/\ Orelse(rec'[l][r], Blank).ended
                                /\ Orelse(rec'[l][r], Blank).subs
                                     \subseteq Orelse(rec[l][r], Blank).subs)]_vars

\* Once the last instance has gone and marked, no record reads as running, save
\* one to which a registration still reading from OpenCode has a deletion written
\* after that; what a publication or a marking that failed leaves is excepted.
UnobservedReadsUnknown ==
    ~cut /\ (\A i \in Instances : inst[i] = "gone") =>
      \A l \in Projects, r \in Roots :
        rec[l][r] # None /\ (rec[l][r].turn \/ rec[l][r].subs # {}) =>
          rec[l][r].marked \/ <<l, r>> \in late
=============================================================================
