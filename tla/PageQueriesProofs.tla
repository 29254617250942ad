------------------------- MODULE PageQueriesProofs -------------------------
(***************************************************************************)
(* Proofs that the retained pages are one walk, that a failure shows only  *)
(* what was observed for the principal GitHub last answered for, and that  *)
(* a pane never loses its page, for any bounds.                            *)
(***************************************************************************)
EXTENDS PageQueries, SequenceTheorems, TLAPS

-----------------------------------------------------------------------------
(* The inductive invariant, in four named parts beside the types.          *)

\* Every page past the first was paged to.
Walk ==
    /\ OneWalk
    /\ history = <<>> => ~evicted
    /\ \A i \in 2..Len(history) : history[i].cursor # None

\* The request the walk, as it is displayed, may be continued with.
Fits(t) ==
    t.generation = generation =>
      /\ t.search = search
      /\ t.navigation => /\ index # 0 /\ index = Len(history)
                         /\ t.cursor = history[index].next /\ t.cursor # None
      /\ ~t.navigation => t.cursor = IF index = 0 THEN None ELSE history[index].cursor

\* The key's query and the ticket that waits, which is newer.
Pending ==
    /\ running # None => running.ticket.generation <= generation /\ Fits(running.ticket)
    /\ queued # None =>
         /\ running # None /\ running.ticket.generation < queued.generation
         /\ queued.generation <= generation /\ Fits(queued)

\* What was answered is the running query's.
Answered ==
    answer # None =>
      /\ running # None /\ answer.ticket = running.ticket
      /\ answer.page # None => /\ answer.page.search = running.ticket.search
                               /\ answer.page.cursor = running.ticket.cursor

IInv == TypeOK /\ Walk /\ Pending /\ Answered /\ StaleIsOwn

-----------------------------------------------------------------------------
(* What the navigation displays, and what a landed page makes of the walk. *)
USE PageAssumption, NoneAssumption

LEMMA PageType ==
    ASSUME TypeOK
    PROVE  /\ Page \in Pages \cup {None}
           /\ Shown \in Pages \cup {None}
           /\ index # 0 => Page = history[index] /\ Page \in Pages
           /\ index = 0 => Page = None
<1>1. index \in 0..Len(history) /\ history \in Seq(Pages) /\ replaced \in Pages \cup {None}
  BY DEF TypeOK
<1>2. Len(history) \in Nat
  BY <1>1, LenProperties
<1>3. index # 0 => history[index] \in Pages
  BY <1>1, <1>2, ElementOfSeq
<1> QED
  BY <1>1, <1>3 DEF Page, Shown

LEMMA NoneIsNone ==
    /\ None \notin Pages /\ None \notin Cursors /\ None \notin Tickets /\ None \notin Totals
    /\ None \notin Queries /\ None \notin Answers /\ None \notin Principals
  OBVIOUS

\* The walk up to the displayed page, and the page that lands.
LEMMA Walked ==
    ASSUME NEW h \in Seq(Pages), NEW k \in 0..Len(h), NEW page \in Pages
    PROVE  LET w == Append(SubSeq(h, 1, k), page)
           IN  /\ w \in Seq(Pages) /\ Len(w) = k + 1
               /\ \A i \in 1..k : w[i] = h[i]
               /\ w[k + 1] = page
<1> DEFINE s == SubSeq(h, 1, k)
<1>1. Len(h) \in Nat /\ k \in Int /\ k \in Nat
  BY LenProperties
<1>2. \A i \in 1..k : h[i] \in Pages
  BY <1>1, ElementOfSeq
<1>3. /\ s \in Seq(Pages)
      /\ Len(s) = IF 1 <= k THEN k - 1 + 1 ELSE 0
      /\ \A i \in 1..k - 1 + 1 : s[i] = h[1 + i - 1]
  BY <1>1, <1>2, SubSeqProperties
<1>4. Len(s) = k /\ \A i \in 1..k : s[i] = h[i]
  BY <1>1, <1>3
<1> HIDE DEF s
<1>5. /\ Append(s, page) \in Seq(Pages)
      /\ Len(Append(s, page)) = Len(s) + 1
      /\ \A i \in 1..Len(s) : Append(s, page)[i] = s[i]
      /\ Append(s, page)[Len(s) + 1] = page
  BY <1>3, AppendProperties
<1> QED
  BY <1>1, <1>4, <1>5 DEF s

\* A page that lands joins the walk it was asked from.
LEMMA LandedWalk ==
    ASSUME TypeOK, Walk, NEW t \in Tickets, NEW page \in Pages,
           t.generation = generation, Fits(t), page.search = t.search,
           page.cursor = t.cursor, Landed(t, page), search' = search
    PROVE  /\ history' \in Seq(Pages) /\ index' \in 1..Len(history')
           /\ evicted' \in BOOLEAN
           /\ Walk'
<1> DEFINE k == IF t.navigation \/ index = 0 THEN index ELSE index - 1
           w == Append(SubSeq(history, 1, k), page)
<1>1. /\ history \in Seq(Pages) /\ index \in 0..Len(history) /\ Len(history) \in Nat
      /\ evicted \in BOOLEAN
  BY LenProperties DEF TypeOK
<1>2. k \in 0..Len(history) /\ k \in Nat
  BY <1>1
<1>3. /\ w \in Seq(Pages) /\ Len(w) = k + 1
      /\ \A i \in 1..k : w[i] = history[i]
      /\ w[k + 1] = page
  BY <1>1, <1>2, Walked
<1>4. /\ history' = IF Len(w) > Capacity THEN Tail(w) ELSE w
      /\ index' = Len(w) - (IF Len(w) > Capacity THEN 1 ELSE 0)
      /\ evicted' = (evicted \/ Len(w) > Capacity)
  BY DEF Landed
<1>5. /\ page.search = search
      /\ t.navigation => /\ index # 0 /\ index = Len(history)
                         /\ page.cursor = history[index].next /\ page.cursor # None
      /\ ~t.navigation => page.cursor = IF index = 0 THEN None ELSE history[index].cursor
  BY DEF Fits
<1>6. /\ \A i \in 1..Len(history) : history[i].search = search
      /\ \A i \in 1..Len(history) - 1 : history[i + 1].cursor = history[i].next
      /\ \A i \in 2..Len(history) : history[i].cursor # None
      /\ history # <<>> => index \in 1..Len(history)
      /\ history # <<>> => (evicted <=> history[1].cursor # None)
      /\ history = <<>> => ~evicted
      /\ Len(history) <= Capacity
  BY DEF Walk, OneWalk
<1>7. history = <<>> <=> index = 0
  BY <1>1, <1>6, EmptySeq
<1> HIDE DEF w
<1>8. \A i \in 1..k + 1 : w[i].search = search
  BY <1>1, <1>2, <1>3, <1>5, <1>6
<1>9. \A i \in 1..k : w[i + 1].cursor = w[i].next
  <2> SUFFICES ASSUME NEW i \in 1..k PROVE w[i + 1].cursor = w[i].next
    OBVIOUS
  <2>1. CASE i < k
    <3>1. i \in 1..k /\ i + 1 \in 1..k /\ i \in 1..Len(history) - 1
      BY <2>1, <1>1, <1>2
    <3>2. w[i] = history[i] /\ w[i + 1] = history[i + 1]
      BY <3>1, <1>3
    <3>3. history[i + 1].cursor = history[i].next
      BY <3>1, <1>6
    <3> QED
      BY <3>2, <3>3
  <2>2. CASE i = k
    <3>1. w[i] = history[k] /\ w[i + 1] = page
      BY <2>2, <1>3
    <3>2. CASE t.navigation
      BY <2>2, <3>1, <3>2, <1>5
    <3>3. CASE ~t.navigation
      <4>1. index # 0 /\ k = index - 1 /\ k \in 1..Len(history) - 1 /\ k + 1 = index
        BY <2>2, <3>3, <1>1, <1>2
      <4>2. page.cursor = history[k + 1].cursor
        BY <3>3, <4>1, <1>5
      <4>3. history[k + 1].cursor = history[k].next
        BY <4>1, <1>6
      <4> QED
        BY <3>1, <4>2, <4>3
    <3> QED
      BY <3>2, <3>3
  <2> QED
    BY <2>1, <2>2, <1>2
<1>10. \A i \in 2..k + 1 : w[i].cursor # None
  <2> SUFFICES ASSUME NEW i \in 2..k + 1 PROVE w[i].cursor # None
    OBVIOUS
  <2>1. CASE i <= k
    <3>1. i \in 1..k /\ i \in 2..Len(history)
      BY <2>1, <1>1, <1>2
    <3> QED
      BY <3>1, <1>3, <1>6
  <2>2. CASE i = k + 1
    BY <2>2, <1>1, <1>2, <1>3, <1>5, <1>6
  <2> QED
    BY <2>1, <2>2, <1>2
<1>11. evicted <=> w[1].cursor # None
  <2>1. CASE k = 0
    BY <2>1, <1>1, <1>3, <1>5, <1>6, <1>7
  <2>2. CASE k # 0
    BY <2>2, <1>1, <1>2, <1>3, <1>6, <1>7
  <2> QED
    BY <2>1, <2>2
<1>12. k <= Capacity /\ Capacity \in Nat \ {0}
  BY <1>1, <1>2, <1>6
<1> HIDE DEF k
<1>13. CASE Len(w) > Capacity
  <2>1. k = Capacity /\ k >= 1 /\ w # <<>>
    BY <1>13, <1>2, <1>3, <1>12, EmptySeq
  <2>2. /\ Tail(w) \in Seq(Pages) /\ Len(Tail(w)) = k
        /\ \A i \in 1..k : Tail(w)[i] = w[i + 1]
    BY <2>1, <1>2, <1>3, HeadTailProperties
  <2>3. history' = Tail(w) /\ index' = k /\ evicted' = TRUE
    <3>1. history' = Tail(w) /\ index' = k
      BY <1>13, <1>2, <1>3, <1>4
    <3>2. evicted' = TRUE
      BY ONLY <1>4, <1>13, Zenon
    <3> QED
      BY <3>1, <3>2
  <2>4. /\ \A i \in 1..k : history'[i].search = search
        /\ \A i \in 1..k - 1 : history'[i + 1].cursor = history'[i].next
        /\ \A i \in 1..k : history'[i].cursor # None
    <3>1. ASSUME NEW i \in 1..k
          PROVE  history'[i] = w[i + 1] /\ i + 1 \in 1..k + 1 /\ i + 1 \in 2..k + 1
      BY <2>2, <2>3, <1>2
    <3>2. ASSUME NEW i \in 1..k PROVE history'[i].search = search /\ history'[i].cursor # None
      BY <3>1, <1>8, <1>10
    <3>3. ASSUME NEW i \in 1..k - 1 PROVE history'[i + 1].cursor = history'[i].next
      <4>1. i \in 1..k /\ i + 1 \in 1..k
        BY <1>2
      <4>2. history'[i] = w[i + 1] /\ history'[i + 1] = w[i + 1 + 1]
        BY <3>1, <4>1
      <4>3. w[i + 1 + 1].cursor = w[i + 1].next
        BY <1>9, <4>1
      <4> QED
        BY <4>2, <4>3
    <3> QED
      BY <3>2, <3>3
  <2>5. history' # <<>>
    BY <2>1, <2>2, <2>3, EmptySeq
  <2> QED
    BY <2>1, <2>2, <2>3, <2>4, <2>5, <1>2 DEF Walk, OneWalk
<1>14. CASE ~(Len(w) > Capacity)
  <2>1. history' = w /\ index' = k + 1 /\ evicted' = evicted
    BY <1>14, <1>1, <1>2, <1>3, <1>4
  <2>2. Len(w) <= Capacity /\ w # <<>>
    BY <1>14, <1>2, <1>3, <1>12, EmptySeq
  <2> QED
    BY <2>1, <2>2, <1>1, <1>2, <1>3, <1>8, <1>9, <1>10, <1>11 DEF Walk, OneWalk
<1> QED
  BY <1>13, <1>14

-----------------------------------------------------------------------------
(* What the source answers.                                                *)

\* A failure answers the running ticket's request: what it shows as stale is
\* of the principal it was looked up for.
LEMMA FailAnswer ==
    ASSUME TypeOK, running # None, NEW p \in Principals \cup {None},
           NEW count \in Totals \cup {None}, Fail(p, count),
           count # None => count.status = "fresh"
    PROVE  /\ answer' \in Answers /\ answer'.ticket = running.ticket
           /\ answer'.page # None
           /\ answer'.page.search = running.ticket.search
           /\ answer'.page.cursor = running.ticket.cursor
           /\ answer'.page.status = "stale" => answer'.page.principal = p
           /\ answer'.totals # None
           /\ answer'.totals.status = "stale" => answer'.totals.principal = p
           /\ counted' \in Totals \cup {None}
           /\ running' = running /\ cache' = cache
<1> DEFINE t == running.ticket
           blank == [search |-> t.search, cursor |-> t.cursor, status |-> "unavailable",
                     principal |-> None, next |-> None]
           page == IF Retained(p) # {}
                   THEN [cache[CHOOSE i \in Retained(p) : TRUE] EXCEPT !.status = "stale"]
                   ELSE blank
           sums == IF count # None THEN count
                   ELSE IF counted # None /\ counted.principal = p
                        THEN [counted EXCEPT !.status = "stale"]
                        ELSE [principal |-> None, edition |-> 0, status |-> "unavailable"]
<1>1. answer' = [ticket |-> t, page |-> page, totals |-> sums, refused |-> FALSE]
  BY DEF Fail, Known
<1>2. running' = running /\ cache' = cache /\ counted' = IF count # None THEN count ELSE counted
  BY DEF Fail, CountRetained
<1>3. /\ t \in Tickets /\ t.search \in Searches /\ t.cursor \in Cursors \cup {None}
      /\ cache \in Seq(Pages) /\ Len(cache) \in Nat /\ counted \in Totals \cup {None}
  BY LenProperties DEF TypeOK, Queries, Tickets
<1>4. /\ page \in Pages /\ page.search = t.search /\ page.cursor = t.cursor
      /\ page.status = "stale" => page.principal = p
  <2>1. CASE Retained(p) # {}
    <3> DEFINE i == CHOOSE j \in Retained(p) : TRUE
    <3>1. /\ i \in 1..Len(cache) /\ cache[i].search = t.search
          /\ cache[i].cursor = t.cursor /\ cache[i].principal = p
      BY <2>1 DEF Retained
    <3>2. cache[i] \in Pages
      BY <3>1, <1>3, ElementOfSeq
    <3>3. page = [cache[i] EXCEPT !.status = "stale"]
      BY <2>1
    <3> HIDE DEF i, page
    <3> QED
      BY <3>1, <3>2, <3>3 DEF Pages, Statuses
  <2>2. CASE Retained(p) = {}
    BY <2>2, <1>3 DEF Pages, Statuses
  <2> QED
    BY <2>1, <2>2
<1>5. /\ sums \in Totals
      /\ sums.status = "stale" => sums.principal = p
  <2>1. CASE count # None
    BY <2>1
  <2>2. CASE count = None /\ counted # None /\ counted.principal = p
    BY <2>2, <1>3 DEF Totals, Statuses
  <2>3. CASE count = None /\ ~(counted # None /\ counted.principal = p)
    BY <2>3 DEF Totals, Statuses
  <2> QED
    BY <2>1, <2>2, <2>3
<1> HIDE DEF page, sums, t
<1> QED
  <2>1. answer'.ticket = t /\ answer'.page = page /\ answer'.totals = sums
    BY <1>1
  <2>2. answer' \in Answers
    BY <1>1, <1>3, <1>4, <1>5 DEF Answers
  <2>3. page # None /\ sums # None
    BY <1>4, <1>5, NoneIsNone
  <2>4. counted' \in Totals \cup {None}
    BY <1>2, <1>3
  <2> QED
    BY <2>1, <2>2, <2>3, <2>4, <1>2, <1>4, <1>5 DEF t

\* What is cached beside the page a completion replaces.
LEMMA OthersType ==
    ASSUME TypeOK, NEW p
    PROVE  Others(p) \in Seq(Pages) /\ Len(Others(p)) \in 0..Len(cache)
<1>1. cache \in Seq(Pages) /\ Len(cache) \in Nat
  BY LenProperties DEF TypeOK
<1>2. CASE Retained(p) = {}
  BY <1>1, <1>2 DEF Others
<1>3. CASE Retained(p) # {}
  <2> DEFINE i == CHOOSE j \in Retained(p) : TRUE
             before == SubSeq(cache, 1, i - 1)
             after == SubSeq(cache, i + 1, Len(cache))
  <2>1. i \in 1..Len(cache)
    BY <1>3 DEF Retained
  <2>2. Others(p) = before \o after
    BY <1>3 DEF Others
  <2> HIDE DEF i
  <2>3. /\ i - 1 \in Int /\ i + 1 \in Int /\ Len(cache) \in Int
        /\ \A j \in 1..i - 1 : cache[j] \in Pages
        /\ \A j \in i + 1..Len(cache) : cache[j] \in Pages
    BY <2>1, <1>1, ElementOfSeq
  <2>4. before \in Seq(Pages) /\ Len(before) = IF 1 <= i - 1 THEN i - 1 - 1 + 1 ELSE 0
    BY <2>3, SubSeqProperties
  <2>5. /\ after \in Seq(Pages)
        /\ Len(after) = IF i + 1 <= Len(cache) THEN Len(cache) - (i + 1) + 1 ELSE 0
    BY <2>3, SubSeqProperties
  <2> HIDE DEF before, after
  <2>6. /\ before \o after \in Seq(Pages)
        /\ Len(before \o after) = Len(before) + Len(after)
    BY <2>4, <2>5, ConcatProperties
  <2>7. Len(before) = i - 1 /\ Len(after) = Len(cache) - i
    BY <2>1, <2>4, <2>5, <1>1
  <2>8. Len(before) + Len(after) = Len(cache) - 1 /\ Len(cache) - 1 \in 0..Len(cache)
    BY <2>1, <2>7, <1>1
  <2> QED
    BY <2>2, <2>6, <2>8
<1> QED
  BY <1>2, <1>3

\* A completed page answers the running ticket's request and is cached.
LEMMA CompletedAnswer ==
    ASSUME TypeOK, running # None, running.context \in Principals,
           NEW next \in Cursors \cup {None}, Completed(next)
    PROVE  /\ answer' \in Answers /\ answer'.ticket = running.ticket
           /\ answer'.page # None
           /\ answer'.page.search = running.ticket.search
           /\ answer'.page.cursor = running.ticket.cursor
           /\ answer'.page.status = "fresh" /\ answer'.totals.status = "fresh"
           /\ counted' \in Totals \cup {None}
           /\ cache' \in Seq(Pages) /\ Len(cache') <= CacheSize
           /\ running' = running
<1> DEFINE t == running.ticket
           page == [search |-> t.search, cursor |-> t.cursor, status |-> "fresh",
                    principal |-> running.context, next |-> next]
           sums == Sum(running.context, running.counted)
           pages == Append(Others(page.principal), page)
<1>1. /\ answer' = [ticket |-> t, page |-> page, totals |-> sums, refused |-> FALSE]
      /\ counted' = sums
      /\ cache' = IF Len(pages) > CacheSize THEN Tail(pages) ELSE pages
      /\ running' = running
  BY DEF Completed, Cached
<1>2. /\ t \in Tickets /\ t.search \in Searches /\ t.cursor \in Cursors \cup {None}
      /\ running.counted \in 0..MaxEdition
      /\ Len(cache) \in Nat /\ Len(cache) <= CacheSize
  BY LenProperties DEF TypeOK, Queries, Tickets
<1>3. page \in Pages /\ page # None
  BY <1>2 DEF Pages, Statuses
<1>4. sums \in Totals
  BY <1>2 DEF Sum, Totals, Statuses
<1>5. Others(page.principal) \in Seq(Pages) /\ Len(Others(page.principal)) \in 0..Len(cache)
  BY OthersType
<1>6. /\ pages \in Seq(Pages) /\ pages # <<>>
      /\ Len(pages) = Len(Others(page.principal)) + 1
  BY <1>3, <1>5, AppendProperties
<1> HIDE DEF page, pages, sums, t
<1>7. cache' \in Seq(Pages) /\ Len(cache') <= CacheSize
  <2>1. CASE Len(pages) > CacheSize
    BY <2>1, <1>1, <1>2, <1>5, <1>6, HeadTailProperties
  <2>2. CASE ~(Len(pages) > CacheSize)
    BY <2>2, <1>1, <1>2, <1>5, <1>6
  <2> QED
    BY <2>1, <2>2
<1>8. answer' \in Answers
  BY <1>1, <1>2, <1>3, <1>4 DEF Answers
<1> QED
  BY <1>1, <1>3, <1>4, <1>7, <1>8 DEF page, t, sums, Sum

-----------------------------------------------------------------------------
(* What becomes of the key's query and of the ticket that waits.           *)

LEMMA InitIInv == Init => IInv
<1> SUFFICES ASSUME Init PROVE IInv
  OBVIOUS
<1>1. <<>> \in Seq(Pages) /\ Len(<<>>) = 0
  BY EmptySeq
<1>2. TypeOK
  <2>1. history = <<>> /\ cache = <<>> /\ index = 0 /\ edition = 1 /\ moves = 0
    BY DEF Init
  <2>2. /\ history \in Seq(Pages) /\ index \in 0..Len(history)
        /\ cache \in Seq(Pages) /\ Len(cache) <= CacheSize
    BY <1>1, <2>1
  <2>3. edition \in 1..MaxEdition /\ moves \in 0..MaxMoves
    BY <2>1
  <2> QED
    BY <2>2, <2>3 DEF Init, TypeOK
<1>3. Walk
  BY <1>1 DEF Init, Walk, OneWalk
<1> QED
  BY <1>2, <1>3 DEF Init, IInv, Pending, Answered, StaleIsOwn

LEMMA LaunchedType ==
    ASSUME NEW t \in Tickets
    PROVE  Launched(t) \in Queries /\ Launched(t).ticket = t /\ Launched(t) # None
<1>1. Launched(t) \in Queries
  BY DEF Launched, Queries, QuerySteps
<1> QED
  BY <1>1, NoneIsNone DEF Launched

LEMMA TicketType ==
    ASSUME NEW g \in Nat, NEW s \in Searches, NEW cursor \in Cursors \cup {None},
           NEW moving \in BOOLEAN
    PROVE  /\ Ticket(g, s, cursor, moving) \in Tickets
           /\ Ticket(g, s, cursor, moving).generation = g
           /\ Ticket(g, s, cursor, moving).search = s
           /\ Ticket(g, s, cursor, moving).cursor = cursor
           /\ Ticket(g, s, cursor, moving).navigation = moving
  BY DEF Ticket, Tickets

\* The newest ticket runs, or waits behind an older one.
LEMMA LaunchStep ==
    ASSUME IInv, NEW t \in Tickets, Launch(t),
           t.generation = generation', Fits(t)',
           generation' = generation + 1 \/ (running = None /\ generation' = generation)
    PROVE  /\ running' \in Queries \cup {None} /\ queued' \in Tickets \cup {None}
           /\ running # None => running' = running
           /\ Pending'
<1>1. /\ generation \in Nat /\ running \in Queries \cup {None} /\ queued \in Tickets \cup {None}
      /\ running # None => running.ticket \in Tickets /\ running.ticket.generation \in Nat
  BY DEF IInv, TypeOK, Queries, Tickets
<1>2. CASE running = None
  <2>1. queued = None /\ running' = Launched(t) /\ queued' = None
    BY <1>2 DEF IInv, Pending, Launch
  <2>2. running' \in Queries /\ running'.ticket = t
    BY <2>1, LaunchedType
  <2>3. t.generation <= generation'
    BY <1>1
  <2> QED
    BY <1>2, <2>1, <2>2, <2>3 DEF Pending, Fits
<1>3. CASE running # None
  <2>1. running' = running /\ queued' = t /\ generation' = generation + 1
    BY <1>3 DEF Launch
  <2>2. running.ticket.generation < generation' /\ running.ticket.generation <= generation'
    BY <1>1, <1>3, <2>1 DEF IInv, Pending
  <2>3. running.ticket.generation # generation' /\ t.generation <= generation'
    BY <1>1, <1>3, <2>1, <2>2
  <2> QED
    BY <1>1, <1>3, <2>1, <2>2, <2>3 DEF Pending, Fits
<1> QED
  BY <1>2, <1>3

\* A move supersedes every ticket there is.
LEMMA SupersededStep ==
    ASSUME IInv, generation' = generation + 1, UNCHANGED <<running, queued>>
    PROVE  Pending'
<1>1. /\ generation \in Nat
      /\ running # None => running.ticket \in Tickets /\ running.ticket.generation \in Nat
      /\ queued # None => queued \in Tickets /\ queued.generation \in Nat
  BY DEF IInv, TypeOK, Queries, Tickets
<1>2. running # None => /\ running.ticket.generation <= generation'
                        /\ running.ticket.generation # generation'
  BY <1>1 DEF IInv, Pending
<1>3. queued # None => /\ queued.generation <= generation' /\ queued.generation # generation'
                       /\ running # None /\ running.ticket.generation < queued.generation
  BY <1>1 DEF IInv, Pending
<1> QED
  BY <1>2, <1>3 DEF Pending, Fits

\* A query in progress keeps its ticket, and the walk is left alone.
LEMMA QueryStep ==
    ASSUME IInv, running # None, running' # None, running'.ticket = running.ticket,
           UNCHANGED <<navigation, queued>>
    PROVE  Walk' /\ Pending'
<1>1. Walk'
  BY DEF IInv, Walk, OneWalk, navigation
<1>2. Pending'
  BY DEF IInv, Pending, Fits, navigation
<1> QED
  BY <1>1, <1>2

\* The waiting ticket runs: the one that ran is gone.
LEMMA ReleasedStep ==
    ASSUME IInv, running # None, Released(queued), UNCHANGED <<generation, search>>,
           UNCHANGED <<history, index>> \/ running.ticket.generation = generation
    PROVE  /\ running' \in Queries \cup {None} /\ queued' = None
           /\ Pending'
<1>1. /\ generation \in Nat /\ queued \in Tickets \cup {None}
      /\ running.ticket \in Tickets /\ running.ticket.generation \in Nat
      /\ queued # None => queued.generation \in Nat
  BY DEF IInv, TypeOK, Queries, Tickets
<1>2. CASE queued = None
  BY <1>2 DEF Released, Pending
<1>3. CASE queued # None
  <2>1. /\ running' \in Queries /\ running'.ticket = queued /\ running' # None
        /\ queued' = None
    BY <1>1, <1>3, LaunchedType DEF Released
  <2>2. /\ queued.generation <= generation /\ Fits(queued)
        /\ running.ticket.generation < queued.generation
    BY <1>3 DEF IInv, Pending
  <2>3. running.ticket.generation # generation
    BY <1>1, <1>3, <2>2
  <2>4. Pending'
    BY <2>1, <2>2, <2>3 DEF Pending, Fits
  <2> QED
    BY <2>1, <2>4
<1> QED
  BY <1>2, <1>3

-----------------------------------------------------------------------------
(* One lemma for each action.                                              *)

LEMMA AskType ==
    ASSUME TypeOK, Ask
    PROVE  moves' \in 0..MaxMoves
  BY DEF Ask, TypeOK

LEMMA RunningType ==
    ASSUME TypeOK, running # None
    PROVE  /\ running \in Queries
           /\ running.ticket \in Tickets
           /\ running.ticket.cursor \in Cursors \cup {None}
           /\ running.context \in Principals \cup {None}
           /\ running.counted \in 0..MaxEdition
  BY DEF TypeOK, Queries, Tickets

\* The walk begins again, empty.
LEMMA RestartedWalk ==
    ASSUME IInv, NEW s \in Searches, Restarted(s)
    PROVE  /\ Walk'
           /\ generation' = generation + 1 /\ generation' \in Nat
           /\ history' \in Seq(Pages) /\ index' \in 0..Len(history')
           /\ evicted' \in BOOLEAN /\ replaced' \in Pages \cup {None}
           /\ search' = s /\ index' = 0
<1>1. /\ generation' = generation + 1 /\ search' = s /\ replaced' = Shown
      /\ history' = <<>> /\ index' = 0 /\ evicted' = FALSE
  BY DEF Restarted
<1>2. history' \in Seq(Pages) /\ Len(history') = 0
  BY <1>1, EmptySeq
<1>3. Walk'
  BY <1>1, <1>2 DEF Walk, OneWalk
<1>4. replaced' \in Pages \cup {None}
  BY <1>1, PageType DEF IInv
<1>5. generation' \in Nat
  BY <1>1 DEF IInv, TypeOK
<1>6. index' \in 0..Len(history')
  BY <1>1, <1>2
<1>7. evicted' \in BOOLEAN
  BY ONLY <1>1, Zenon
<1> QED
  BY <1>1, <1>2, <1>3, <1>4, <1>5, <1>6, <1>7

LEMMA RestartStep ==
    ASSUME IInv, NEW s \in Searches, Restart(s)
    PROVE  IInv'
<1> PICK t : t = Ticket(generation + 1, s, None, FALSE)
  OBVIOUS
<1>0. Launch(t) /\ Restarted(s)
  BY Zenon DEF Restart
<1>1. /\ generation \in Nat /\ generation + 1 \in Nat
      /\ UNCHANGED <<principal, edition, answer, failed, last, named, cache, counted, totals>>
      /\ awaited' = TRUE
  BY DEF IInv, TypeOK, Restart, github, source
<1>2. /\ Walk' /\ generation' = generation + 1 /\ generation' \in Nat
      /\ history' \in Seq(Pages) /\ index' \in 0..Len(history')
      /\ evicted' \in BOOLEAN /\ replaced' \in Pages \cup {None}
      /\ search' = s /\ index' = 0
  BY <1>0, RestartedWalk
<1>3. /\ t \in Tickets /\ t.generation = generation + 1 /\ t.search = s
      /\ t.cursor = None /\ t.navigation = FALSE
  BY <1>1 DEF Ticket, Tickets
<1>4. Fits(t)'
  BY <1>2, <1>3 DEF Fits
<1>5. /\ running' \in Queries \cup {None} /\ queued' \in Tickets \cup {None}
      /\ running # None => running' = running
      /\ Pending'
  BY <1>0, <1>2, <1>3, <1>4, LaunchStep
<1>6. moves' \in 0..MaxMoves
  BY AskType DEF IInv, Restart
<1>7. TypeOK'
  BY <1>1, <1>2, <1>5, <1>6 DEF IInv, TypeOK
<1>8. Answered' /\ StaleIsOwn'
  BY <1>1, <1>5 DEF IInv, Answered, StaleIsOwn
<1> QED
  BY <1>2, <1>5, <1>7, <1>8 DEF IInv

LEMMA RefreshTickStep ==
    ASSUME IInv, RefreshTick
    PROVE  IInv'
<1> PICK t : t = Ticket(generation, search, IF Page = None THEN None ELSE Page.cursor, FALSE)
  OBVIOUS
<1>0. Launch(t)
  BY Zenon DEF RefreshTick
<1>1. /\ generation \in Nat /\ search \in Searches /\ running = None
      /\ UNCHANGED <<principal, edition, generation, search, history, index, evicted,
                     replaced, answer, failed, last, named, cache, counted, totals, awaited>>
  BY DEF IInv, TypeOK, RefreshTick, github, source, navigation
<1>2. /\ index # 0 => Page = history[index] /\ Page \in Pages /\ Page # None
      /\ index = 0 => Page = None
      /\ Page # None => Page.cursor \in Cursors \cup {None}
  BY PageType, NoneIsNone DEF IInv, Pages
<1>3. /\ t \in Tickets /\ t.generation = generation /\ t.search = search
      /\ t.cursor = (IF Page = None THEN None ELSE Page.cursor) /\ t.navigation = FALSE
  BY <1>1, <1>2 DEF Ticket, Tickets
<1>4. t.cursor = IF index = 0 THEN None ELSE history[index].cursor
  BY <1>2, <1>3
<1>5. Fits(t)'
  BY <1>1, <1>3, <1>4 DEF Fits
<1>6. /\ running' \in Queries \cup {None} /\ queued' \in Tickets \cup {None}
      /\ Pending'
  BY <1>0, <1>1, <1>3, <1>5, LaunchStep
<1>7. moves' \in 0..MaxMoves
  BY AskType DEF IInv, RefreshTick
<1>8. TypeOK'
  BY <1>1, <1>6, <1>7 DEF IInv, TypeOK
<1>9. Walk' /\ Answered' /\ StaleIsOwn'
  BY <1>1 DEF IInv, Walk, OneWalk, Answered, StaleIsOwn
<1> QED
  BY <1>6, <1>8, <1>9 DEF IInv

LEMMA NextPageStep ==
    ASSUME IInv, NextPage
    PROVE  IInv'
<1>1. /\ generation \in Nat /\ search \in Searches /\ generation' = generation + 1
      /\ index \in 0..Len(history) /\ Len(history) \in Nat
      /\ UNCHANGED <<principal, edition, search, history, evicted,
                     replaced, answer, failed, last, named, cache, counted, totals>>
      /\ Page # None /\ Page.next # None
  BY LenProperties DEF IInv, TypeOK, NextPage, github, source
<1>2. index # 0 /\ Page = history[index] /\ Page \in Pages
  BY <1>1, PageType DEF IInv
<1>3. history # <<>>
  BY <1>1, <1>2, EmptySeq
<1>4. /\ running' \in Queries \cup {None} /\ queued' \in Tickets \cup {None}
      /\ running # None => running' = running
      /\ Pending'
      /\ index' \in 1..Len(history) /\ awaited' \in BOOLEAN
  <2>1. CASE index < Len(history)
    <3>1. index' = index + 1 /\ awaited' = FALSE /\ UNCHANGED <<running, queued>>
      BY <2>1 DEF NextPage
    <3>2. index' \in 1..Len(history)
      BY <3>1, <2>1, <1>1
    <3> QED
      BY <3>1, <3>2, <1>1, SupersededStep DEF IInv, TypeOK
  <2>2. CASE ~(index < Len(history))
    <3> PICK t : t = Ticket(generation + 1, search, Page.next, TRUE)
      OBVIOUS
    <3>0. Launch(t) /\ awaited' = TRUE /\ index' = index
      BY <2>2, Zenon DEF NextPage
    <3>1. index = Len(history) /\ index' = index
      BY <2>2, <3>0, <1>1
    <3>2. Page.next \in Cursors \cup {None} /\ generation + 1 \in Nat
      BY <1>1, <1>2 DEF Pages
    <3>3. /\ t \in Tickets /\ t.generation = generation + 1 /\ t.search = search
          /\ t.cursor = Page.next /\ t.navigation = TRUE
      BY <1>1, <3>2 DEF Ticket, Tickets
    <3>4. Fits(t)'
      BY <1>1, <1>2, <3>1, <3>3 DEF Fits
    <3>5. /\ running' \in Queries \cup {None} /\ queued' \in Tickets \cup {None}
          /\ running # None => running' = running
          /\ Pending'
      BY <1>1, <3>0, <3>3, <3>4, LaunchStep
    <3>6. index' \in 1..Len(history) /\ awaited' \in BOOLEAN
      BY <1>1, <1>2, <3>0, <3>1
    <3> QED
      BY <3>5, <3>6
  <2> QED
    BY <2>1, <2>2
<1>5. moves' \in 0..MaxMoves
  BY AskType DEF IInv, NextPage
<1>6. TypeOK'
  BY <1>1, <1>4, <1>5 DEF IInv, TypeOK
<1>7. Walk'
  BY <1>1, <1>4 DEF IInv, Walk, OneWalk
<1>8. Answered' /\ StaleIsOwn'
  BY <1>1, <1>4 DEF IInv, Answered, StaleIsOwn
<1> QED
  BY <1>4, <1>6, <1>7, <1>8 DEF IInv

LEMMA PreviousPageStep ==
    ASSUME IInv, PreviousPage
    PROVE  IInv'
<1>1. /\ generation \in Nat /\ generation' = generation + 1
      /\ index \in 0..Len(history) /\ Len(history) \in Nat
      /\ UNCHANGED <<principal, edition, search, history, evicted, replaced, running, queued,
                     answer, failed, last, named, cache, counted, totals>>
      /\ awaited' = FALSE /\ Page # None
      /\ index' = IF index = 1 THEN 1 ELSE index - 1
  BY LenProperties DEF IInv, TypeOK, PreviousPage, github, source, runner
<1>2. index # 0
  BY <1>1, PageType DEF IInv
<1>3. index' \in 1..Len(history)
  BY <1>1, <1>2
<1>4. moves' \in 0..MaxMoves
  BY AskType DEF IInv, PreviousPage
<1>5. TypeOK'
  <2>1. index' \in 0..Len(history') /\ generation' \in Nat
    BY <1>1, <1>3
  <2>2. awaited' \in BOOLEAN
    BY ONLY <1>1, Zenon
  <2> QED
    BY <1>1, <1>4, <2>1, <2>2 DEF IInv, TypeOK
<1>6. Walk'
  BY <1>1, <1>3 DEF IInv, Walk, OneWalk
<1>7. Answered' /\ StaleIsOwn'
  BY <1>1 DEF IInv, Answered, StaleIsOwn
<1> QED
  BY <1>1, <1>5, <1>6, <1>7, SupersededStep DEF IInv

\* What an answer to the running query must be.
AnswersRunning ==
    /\ answer' \in Answers /\ answer'.ticket = running.ticket
    /\ answer'.page # None => /\ answer'.page.search = running.ticket.search
                              /\ answer'.page.cursor = running.ticket.cursor
                              /\ answer'.page.status = "stale" => answer'.page.principal = last'
    /\ answer'.totals # None /\ answer'.totals.status = "stale" =>
         answer'.totals.principal = last'

\* A step of the running query, which may answer it.
LEMMA QueryInv ==
    ASSUME IInv, running # None,
           running' \in Queries, running'.ticket = running.ticket,
           UNCHANGED <<principal, edition, navigation, queued, failed, totals, awaited, moves>>,
           last' \in Principals \cup {None}, named' \in BOOLEAN,
           cache' \in Seq(Pages), Len(cache') <= CacheSize, counted' \in Totals \cup {None},
           answer' = None \/ AnswersRunning
    PROVE  IInv'
<1>1. running' # None
  BY NoneIsNone
<1>2. Walk' /\ Pending'
  BY <1>1, QueryStep
<1>3. answer' \in Answers \cup {None}
  BY DEF AnswersRunning
<1>4. TypeOK'
  BY <1>3 DEF IInv, TypeOK, navigation
<1>5. Answered' /\ StaleIsOwn'
  BY <1>1 DEF Answered, StaleIsOwn, AnswersRunning
<1> QED
  BY <1>2, <1>4, <1>5 DEF IInv

LEMMA GotoType ==
    ASSUME TypeOK, running # None, NEW step \in QuerySteps,
           NEW context \in Principals \cup {None}, NEW count \in 0..MaxEdition,
           Goto(step, context, count)
    PROVE  running' \in Queries /\ running'.ticket = running.ticket
<1>1. running \in Queries
  BY RunningType
<1> QED
  BY <1>1 DEF Goto, Queries

\* A refusal answers with neither a page nor totals.
LEMMA RefuseAnswer ==
    ASSUME TypeOK, running # None, Refuse
    PROVE  AnswersRunning /\ UNCHANGED <<running, cache, counted>>
<1>1. /\ running.ticket \in Tickets
      /\ answer' = [ticket |-> running.ticket, page |-> None, totals |-> None,
                    refused |-> TRUE]
  BY RunningType DEF Refuse
<1>2. answer' \in Answers
  BY <1>1 DEF Answers
<1> QED
  BY <1>1, <1>2 DEF AnswersRunning, Refuse

LEMMA FailRunning ==
    ASSUME TypeOK, running # None, NEW p \in Principals \cup {None},
           NEW count \in Totals \cup {None}, Fail(p, count), last' = p,
           count # None => count.status = "fresh"
    PROVE  AnswersRunning /\ UNCHANGED <<running, cache>> /\ counted' \in Totals \cup {None}
  BY FailAnswer DEF AnswersRunning

LEMMA SumType ==
    ASSUME NEW p \in Principals \cup {None}, NEW e \in 0..MaxEdition
    PROVE  Sum(p, e) \in Totals /\ Sum(p, e).status = "fresh"
  BY DEF Sum, Totals, Statuses

LEMMA SendStep ==
    ASSUME IInv, Send
    PROVE  IInv'
<1>1. /\ TypeOK /\ running # None
      /\ UNCHANGED <<principal, edition, navigation, queued, answer, failed, last, named,
                     cache, counted, totals, awaited, moves>>
      /\ answer = None
  BY DEF IInv, Send, Asking, github, source
<1>2. PICK step : step = IF running.ticket.cursor # None THEN "observe"
                         ELSE IF named THEN "search" ELSE "name"
  OBVIOUS
<1>3. Goto(step, last, 0)
  BY <1>2, Zenon DEF Send
<1>4. step \in QuerySteps /\ last \in Principals \cup {None} /\ 0 \in 0..MaxEdition
  BY <1>1, <1>2 DEF QuerySteps, TypeOK
<1>5. running' \in Queries /\ running'.ticket = running.ticket
  BY <1>1, <1>3, <1>4, GotoType
<1> QED
  BY <1>1, <1>5, QueryInv DEF TypeOK

LEMMA ObserveStep ==
    ASSUME IInv, Observe
    PROVE  IInv'
<1>1. /\ TypeOK /\ running # None /\ answer = None
      /\ UNCHANGED <<principal, edition, navigation, queued, failed, totals, awaited, moves>>
      /\ last' = principal /\ named' = TRUE /\ principal \in Principals
  BY DEF IInv, Observe, Asking, github, TypeOK
<1>2. /\ running' \in Queries /\ running'.ticket = running.ticket
      /\ UNCHANGED <<cache, counted>>
      /\ answer' = None \/ AnswersRunning
  <2>1. CASE Goto("search", principal, 0) /\ UNCHANGED <<answer, cache, counted>>
    <3>1. "search" \in QuerySteps /\ 0 \in 0..MaxEdition
      BY DEF QuerySteps
    <3> QED
      BY <1>1, <2>1, <3>1, GotoType
  <2>2. CASE Refuse
    BY <1>1, <2>2, RefuseAnswer, RunningType
  <2> QED
    BY <2>1, <2>2, Zenon DEF Observe
<1>3. named' \in BOOLEAN
  BY ONLY <1>1, Zenon
<1> QED
  BY <1>1, <1>2, <1>3, QueryInv DEF TypeOK

LEMMA ObserveNameStep ==
    ASSUME IInv, ObserveName
    PROVE  IInv'
<1>1. /\ TypeOK /\ running # None /\ answer = None
      /\ UNCHANGED <<principal, edition, navigation, queued, answer, failed, cache, counted,
                     totals, awaited, moves>>
      /\ last' = principal /\ named' = TRUE /\ principal \in Principals
  BY DEF IInv, ObserveName, Asking, github, TypeOK
<1>2. running' \in Queries /\ running'.ticket = running.ticket
  <2>1. "search" \in QuerySteps /\ 0 \in 0..MaxEdition /\ Goto("search", principal, 0)
    BY DEF QuerySteps, ObserveName
  <2> QED
    BY <1>1, <2>1, GotoType
<1>3. named' \in BOOLEAN
  BY ONLY <1>1, Zenon
<1> QED
  BY <1>1, <1>2, <1>3, QueryInv DEF TypeOK

LEMMA SearchStep ==
    ASSUME IInv, Search
    PROVE  IInv'
<1>1. /\ TypeOK /\ running # None /\ answer = None /\ running \in Queries
      /\ UNCHANGED <<principal, edition, navigation, queued, failed, named, totals, awaited,
                     moves>>
      /\ last' = principal /\ principal \in Principals
      /\ edition \in 0..MaxEdition
  BY RunningType DEF IInv, Search, Asking, github, TypeOK
<1>2. /\ running' \in Queries /\ running'.ticket = running.ticket
      /\ cache' = cache /\ counted' \in Totals \cup {None}
      /\ answer' = None \/ AnswersRunning
  <2>1. CASE Fail(principal, None)
    BY <1>1, <2>1, FailRunning
  <2>2. CASE Goto("resolve", principal, edition) /\ UNCHANGED <<answer, cache, counted>>
    <3>1. "resolve" \in QuerySteps
      BY DEF QuerySteps
    <3> QED
      BY <1>1, <2>2, <3>1, GotoType DEF TypeOK
  <2>3. CASE Fail(principal, Sum(principal, edition))
    BY <1>1, <2>3, FailRunning, SumType
  <2>4. CASE Refuse
    BY <1>1, <2>4, RefuseAnswer DEF TypeOK
  <2> QED
    BY <2>1, <2>2, <2>3, <2>4, Zenon DEF Search
<1> QED
  BY <1>1, <1>2, QueryInv DEF TypeOK

LEMMA ResolveStep ==
    ASSUME IInv, Resolve
    PROVE  IInv'
<1>1. /\ TypeOK /\ running # None /\ answer = None /\ running \in Queries
      /\ UNCHANGED <<principal, edition, navigation, queued, failed, named, totals, awaited,
                     moves>>
      /\ last' = principal /\ principal \in Principals
      /\ running.context \in Principals \cup {None} /\ running.counted \in 0..MaxEdition
  BY RunningType DEF IInv, Resolve, Asking, github, TypeOK
<1>2. /\ running' \in Queries /\ running'.ticket = running.ticket
      /\ cache' \in Seq(Pages) /\ Len(cache') <= CacheSize
      /\ counted' \in Totals \cup {None}
      /\ AnswersRunning
  <2>1. ASSUME NEW next \in Following, running.context = principal, Completed(next)
        PROVE  /\ running' = running /\ cache' \in Seq(Pages) /\ Len(cache') <= CacheSize
               /\ counted' \in Totals \cup {None} /\ AnswersRunning
    <3>1. next \in Cursors \cup {None} /\ running.context \in Principals
      BY <1>1, <2>1 DEF Following
    <3>2. /\ answer' \in Answers /\ answer'.ticket = running.ticket
          /\ answer'.page # None
          /\ answer'.page.search = running.ticket.search
          /\ answer'.page.cursor = running.ticket.cursor
          /\ answer'.page.status = "fresh" /\ answer'.totals.status = "fresh"
          /\ counted' \in Totals \cup {None}
          /\ cache' \in Seq(Pages) /\ Len(cache') <= CacheSize
          /\ running' = running
      BY <1>1, <2>1, <3>1, CompletedAnswer
    <3> QED
      BY <1>1, <3>2 DEF AnswersRunning
  <2>2. ASSUME Fail(principal, Sum(running.context, running.counted))
        PROVE  /\ running' = running /\ cache' \in Seq(Pages) /\ Len(cache') <= CacheSize
               /\ counted' \in Totals \cup {None} /\ AnswersRunning
    BY <1>1, <2>2, FailRunning, SumType DEF TypeOK
  <2> QED
    <3>1. \/ running.context = principal /\ \E next \in Following : Completed(next)
          \/ Fail(principal, Sum(running.context, running.counted))
      BY Zenon DEF Resolve
    <3> QED
      BY <1>1, <2>1, <2>2, <3>1, Zenon
<1> QED
  BY <1>1, <1>2, QueryInv DEF TypeOK

LEMMA RequestFailsStep ==
    ASSUME IInv, RequestFails
    PROVE  IInv'
<1>1. /\ TypeOK /\ running # None /\ answer = None /\ running \in Queries
      /\ UNCHANGED <<principal, edition, navigation, queued, failed, last, named, totals,
                     awaited, moves>>
      /\ last \in Principals \cup {None}
      /\ running.context \in Principals \cup {None} /\ running.counted \in 0..MaxEdition
  BY RunningType DEF IInv, RequestFails, github, TypeOK
<1>2. PICK count : count = IF running.step = "resolve"
                           THEN Sum(running.context, running.counted) ELSE None
  OBVIOUS
<1>3. Fail(last, count)
  BY <1>2, Zenon DEF RequestFails
<1>4. count \in Totals \cup {None} /\ (count # None => count.status = "fresh")
  BY <1>1, <1>2, SumType
<1>5. AnswersRunning /\ UNCHANGED <<running, cache>> /\ counted' \in Totals \cup {None}
  BY <1>1, <1>3, <1>4, FailRunning
<1> QED
  BY <1>1, <1>5, QueryInv DEF TypeOK

LEMMA RaiseStep ==
    ASSUME IInv, Raise
    PROVE  IInv'
<1>1. /\ TypeOK /\ running # None /\ running \in Queries /\ running.ticket \in Tickets
      /\ UNCHANGED <<principal, edition, navigation, queued, running, failed, last, named,
                     cache, counted, totals, awaited, moves>>
      /\ answer' = [ticket |-> running.ticket, page |-> None, totals |-> None,
                    refused |-> FALSE]
  BY RunningType DEF IInv, Raise, github, source
<1>2. answer' \in Answers
  BY <1>1 DEF Answers
<1>3. AnswersRunning
  BY <1>1, <1>2 DEF AnswersRunning
<1> QED
  BY <1>1, <1>3, QueryInv DEF TypeOK

\* What an answer says of the query it ends.
LEMMA AnswerType ==
    ASSUME IInv, answer # None
    PROVE  /\ running # None /\ answer.ticket = running.ticket
           /\ answer.ticket \in Tickets /\ Fits(answer.ticket)
           /\ answer.page \in Pages \cup {None} /\ answer.totals \in Totals \cup {None}
           /\ answer.refused \in BOOLEAN
           /\ answer.page # None => /\ answer.page.search = answer.ticket.search
                                    /\ answer.page.cursor = answer.ticket.cursor
<1>1. answer \in Answers
  BY DEF IInv, TypeOK
<1>2. /\ answer.ticket \in Tickets /\ answer.page \in Pages \cup {None}
      /\ answer.totals \in Totals \cup {None} /\ answer.refused \in BOOLEAN
  BY <1>1 DEF Answers
<1>3. running # None /\ answer.ticket = running.ticket /\ Fits(running.ticket)
  BY DEF IInv, Answered, Pending
<1>4. Fits(answer.ticket)
  BY <1>3 DEF Fits
<1> QED
  BY <1>2, <1>3, <1>4 DEF IInv, Answered

LEMMA FinishPageStep ==
    ASSUME IInv, FinishPage
    PROVE  IInv'
<1>1. /\ answer # None
      /\ UNCHANGED <<principal, edition, generation, search, last, named, cache, counted, moves>>
      /\ answer' = None
      /\ totals' = IF answer.totals # None THEN answer.totals ELSE totals
  BY DEF FinishPage, github, source
<1>2. Released(queued)
  BY DEF FinishPage
<1> PICK t, page : t = answer.ticket /\ page = answer.page
  OBVIOUS
<1>3. /\ IF Current(t) THEN Failures(page) ELSE UNCHANGED failed
      /\ IF Current(t) /\ ~Kept(t, page)
         THEN Landed(t, page) /\ replaced' = None
         ELSE UNCHANGED <<history, index, evicted, replaced>>
      /\ awaited' = (awaited /\ ~Current(t))
  BY Zenon DEF FinishPage
<1>4. /\ running # None /\ t = running.ticket /\ t \in Tickets /\ Fits(t)
      /\ page \in Pages \cup {None} /\ answer.totals \in Totals \cup {None}
      /\ page # None => page.search = t.search /\ page.cursor = t.cursor
  BY <1>1, AnswerType
<1>5. /\ Walk' /\ history' \in Seq(Pages) /\ index' \in 0..Len(history')
      /\ evicted' \in BOOLEAN /\ replaced' \in Pages \cup {None}
      /\ UNCHANGED <<history, index>> \/ t.generation = generation
  <2>1. CASE Current(t) /\ ~Kept(t, page)
    <3>1. Landed(t, page) /\ replaced' = None
      BY <1>3, <2>1, Zenon
    <3>2. page \in Pages /\ t.generation = generation
      BY <1>4, <2>1 DEF Kept, Current
    <3>3. /\ history' \in Seq(Pages) /\ index' \in 1..Len(history')
          /\ evicted' \in BOOLEAN /\ Walk'
      BY <1>1, <1>4, <3>1, <3>2, LandedWalk, NoneIsNone DEF IInv
    <3>4. index' \in 0..Len(history')
      BY <3>3, LenProperties
    <3> QED
      BY <3>1, <3>2, <3>3, <3>4
  <2>2. CASE ~(Current(t) /\ ~Kept(t, page))
    <3>1. UNCHANGED <<history, index, evicted, replaced>>
      BY <1>3, <2>2, Zenon
    <3> QED
      BY <1>1, <3>1 DEF IInv, TypeOK, Walk, OneWalk
  <2> QED
    BY <2>1, <2>2
<1>6. /\ running' \in Queries \cup {None} /\ queued' = None /\ Pending'
  BY <1>1, <1>2, <1>4, <1>5, ReleasedStep
<1>7. failed' \in BOOLEAN
  <2>1. CASE Current(t)
    BY <1>3, <2>1, Zenon DEF Failures
  <2>2. CASE ~Current(t)
    BY <1>3, <2>2 DEF IInv, TypeOK
  <2> QED
    BY <2>1, <2>2
<1>8. awaited' \in BOOLEAN
  BY <1>3, Zenon
<1>9. TypeOK'
  BY <1>1, <1>4, <1>5, <1>6, <1>7, <1>8 DEF IInv, TypeOK
<1>10. Answered' /\ StaleIsOwn'
  BY <1>1 DEF Answered, StaleIsOwn
<1> QED
  BY <1>5, <1>6, <1>9, <1>10 DEF IInv

LEMMA RestartRefusedStep ==
    ASSUME IInv, RestartRefused
    PROVE  IInv'
<1> PICK t : t = Ticket(generation + 1, search, None, FALSE)
  OBVIOUS
<1>1. /\ generation \in Nat /\ search \in Searches
      /\ UNCHANGED <<principal, edition, last, named, cache, counted, totals, moves>>
      /\ failed' = FALSE /\ awaited' = TRUE /\ answer' = None
  BY DEF IInv, TypeOK, RestartRefused, github, source
<1>2. Restarted(search) /\ Released(t)
  BY Zenon DEF RestartRefused
<1>3. /\ Walk' /\ generation' = generation + 1 /\ generation' \in Nat
      /\ history' \in Seq(Pages) /\ index' \in 0..Len(history')
      /\ evicted' \in BOOLEAN /\ replaced' \in Pages \cup {None}
      /\ search' = search /\ index' = 0
  BY <1>1, <1>2, RestartedWalk
<1>4. /\ t \in Tickets /\ t.generation = generation + 1 /\ t.search = search
      /\ t.cursor = None /\ t.navigation = FALSE
  BY <1>1 DEF Ticket, Tickets
<1>5. /\ running' \in Queries /\ running'.ticket = t /\ queued' = None
  BY <1>2, <1>4, LaunchedType, NoneIsNone DEF Released
<1>6. Pending'
  <2>1. t.generation <= generation'
    <3>1. t.generation = generation' /\ generation' \in Nat
      BY <1>3, <1>4
    <3> QED
      BY ONLY <3>1
  <2>2. Fits(t)'
    BY <1>3, <1>4 DEF Fits
  <2> QED
    BY <1>5, <2>1, <2>2 DEF Pending, Fits
<1>7. failed' \in BOOLEAN /\ awaited' \in BOOLEAN
  BY ONLY <1>1, Zenon
<1>8. TypeOK'
  BY <1>1, <1>3, <1>5, <1>7 DEF IInv, TypeOK
<1>9. Answered' /\ StaleIsOwn'
  BY <1>1 DEF Answered, StaleIsOwn
<1> QED
  BY <1>3, <1>6, <1>8, <1>9 DEF IInv

LEMMA RefusedSupersededStep ==
    ASSUME IInv, RefusedSuperseded
    PROVE  IInv'
<1>1. /\ answer # None /\ Released(queued) /\ answer' = None
      /\ UNCHANGED <<principal, edition, generation, search, history, index, evicted, replaced,
                     failed, last, named, cache, counted, totals, awaited, moves>>
  BY DEF RefusedSuperseded, github, navigation, source
<1>2. running' \in Queries \cup {None} /\ queued' = None /\ Pending'
  BY <1>1, AnswerType, ReleasedStep
<1>3. TypeOK'
  BY <1>1, <1>2 DEF IInv, TypeOK
<1>4. Walk' /\ Answered' /\ StaleIsOwn'
  BY <1>1 DEF IInv, Walk, OneWalk, Answered, StaleIsOwn
<1> QED
  BY <1>2, <1>3, <1>4 DEF IInv

\* What GitHub holds and whom it answers for, the dashboard does not know yet.
LEMMA ElsewhereStep ==
    ASSUME IInv, ChangePrincipal \/ ChangeResults
    PROVE  IInv'
<1>1. /\ principal' \in Principals /\ edition' \in 1..MaxEdition
      /\ UNCHANGED <<navigation, runner, source, totals, awaited, moves>>
  BY DEF IInv, TypeOK, ChangePrincipal, ChangeResults
<1>2. TypeOK'
  BY <1>1 DEF IInv, TypeOK, navigation, runner, source
<1>3. Walk' /\ Pending'
  BY <1>1 DEF IInv, Walk, OneWalk, Pending, Fits, navigation, runner
<1>4. Answered' /\ StaleIsOwn'
  BY <1>1 DEF IInv, Answered, StaleIsOwn, runner, source
<1> QED
  BY <1>2, <1>3, <1>4 DEF IInv

LEMMA UnchangedStep ==
    ASSUME IInv, UNCHANGED vars
    PROVE  IInv'
<1>1. UNCHANGED <<github, navigation, runner, source, totals, awaited, moves>>
  BY DEF vars
<1>2. TypeOK'
  BY <1>1 DEF IInv, TypeOK, github, navigation, runner, source
<1>3. Walk' /\ Pending'
  BY <1>1 DEF IInv, Walk, OneWalk, Pending, Fits, navigation, runner
<1>4. Answered' /\ StaleIsOwn'
  BY <1>1 DEF IInv, Answered, StaleIsOwn, runner, source
<1> QED
  BY <1>2, <1>3, <1>4 DEF IInv

LEMMA StepIInv ==
    IInv /\ [Next]_vars => IInv'
<1> SUFFICES ASSUME IInv, [Next]_vars PROVE IInv'
  OBVIOUS
<1>1. ASSUME NEW s \in Searches, Restart(s) PROVE IInv'
  BY <1>1, RestartStep
<1>2. CASE RefreshTick
  BY <1>2, RefreshTickStep
<1>3. CASE NextPage
  BY <1>3, NextPageStep
<1>4. CASE PreviousPage
  BY <1>4, PreviousPageStep
<1>5. CASE Query
  BY <1>5, SendStep, ObserveStep, ObserveNameStep, SearchStep, ResolveStep,
     RequestFailsStep, RaiseStep DEF Query
<1>6. CASE Finish
  BY <1>6, FinishPageStep, RestartRefusedStep, RefusedSupersededStep DEF Finish
<1>7. CASE ChangePrincipal \/ ChangeResults
  BY <1>7, ElsewhereStep
<1>8. CASE UNCHANGED vars
  BY <1>8, UnchangedStep
<1> QED
  BY <1>1, <1>2, <1>3, <1>4, <1>5, <1>6, <1>7, <1>8 DEF Next

-----------------------------------------------------------------------------
(* The theorems.                                                           *)

LEMMA Invariance == Spec => []IInv
  BY InitIInv, StepIInv, PTL DEF Spec

(* The types of PageNavigation, PageRunner and the source hold throughout: *)
(* the displayed page is a retained one, and the source retains no more    *)
(* pages than it may.                                                      *)
THEOREM TypeCorrect == Spec => []TypeOK
<1>1. IInv => TypeOK
  BY DEF IInv
<1> QED
  BY <1>1, Invariance, PTL

(* The retained pages are one walk of the submitted request, whatever      *)
(* restarts, moves, evictions and refusals overtake a query: accept's      *)
(* forgetting of what lay beyond, and its generations, are enough.         *)
THEOREM WalkIsOne == Spec => []OneWalk
<1>1. IInv => OneWalk
  BY DEF IInv, Walk
<1> QED
  BY <1>1, Invariance, PTL

(* A failed query shows no page and no totals observed for another         *)
(* principal than GitHub last answered for, however often it changes.      *)
THEOREM StaleOwned == Spec => []StaleIsOwn
<1>1. IInv => StaleIsOwn
  BY DEF IInv
<1> QED
  BY <1>1, Invariance, PTL

(* Once a pane shows a page it always shows one: a restart keeps it until  *)
(* page one lands, and a failed move leaves the displayed page.            *)
THEOREM ShownKept == Spec => ShownStays
<1>1. IInv /\ IInv' /\ [Next]_vars /\ Shown # None => Shown' # None
  <2> SUFFICES ASSUME IInv, IInv', [Next]_vars, Shown # None PROVE Shown' # None
    OBVIOUS
  <2>1. index # 0 <=> Page # None
    BY PageType, NoneIsNone DEF IInv
  <2>2. index' # 0 => Page' # None
    <3>1. history' \in Seq(Pages) /\ index' \in 0..Len(history')
      BY DEF IInv, TypeOK
    <3>2. Len(history') \in Nat
      BY <3>1, LenProperties
    <3>3. index' # 0 => history'[index'] \in Pages
      BY <3>1, <3>2, ElementOfSeq
    <3> QED
      BY <3>3, NoneIsNone DEF Page
  <2>3. CASE UNCHANGED <<history, index, replaced>>
    BY <2>3 DEF Shown, Page
  <2>4. CASE index' # 0
    BY <2>2, <2>4 DEF Shown
  <2>5. ASSUME NEW s, Restarted(s) PROVE Shown' # None
    <3>1. replaced' = Shown /\ index' = 0
      BY <2>5 DEF Restarted
    <3> QED
      BY <3>1 DEF Shown, Page
  <2>6. CASE NextPage \/ PreviousPage
    <3>1. index # 0 /\ index \in Nat
      <4>1. Page # None
        BY <2>6 DEF NextPage, PreviousPage
      <4> QED
        BY <2>1, <4>1, LenProperties DEF IInv, TypeOK
    <3>2. index' = index + 1 \/ index' = index \/ index' = IF index = 1 THEN 1 ELSE index - 1
      BY <2>6, Zenon DEF NextPage, PreviousPage
    <3>3. index' # 0
      BY <3>1, <3>2
    <3> QED
      BY <2>4, <3>3
  <2>7. CASE FinishPage
    <3> PICK t, page : t = answer.ticket /\ page = answer.page
      OBVIOUS
    <3>1. IF Current(t) /\ ~Kept(t, page)
          THEN Landed(t, page) /\ replaced' = None
          ELSE UNCHANGED <<history, index, evicted, replaced>>
      BY <2>7, Zenon DEF FinishPage
    <3>2. CASE Current(t) /\ ~Kept(t, page)
      <4>1. answer # None /\ search' = search /\ Landed(t, page)
        BY <2>7, <3>1, <3>2 DEF FinishPage
      <4>2. /\ t \in Tickets /\ Fits(t) /\ page \in Pages /\ t.generation = generation
            /\ page.search = t.search /\ page.cursor = t.cursor
        BY <3>2, <4>1, AnswerType, NoneIsNone DEF Kept, Current
      <4>3. index' \in 1..Len(history')
        BY <4>1, <4>2, LandedWalk DEF IInv
      <4> QED
        BY <2>4, <4>3
    <3>3. CASE ~(Current(t) /\ ~Kept(t, page))
      BY <2>3, <3>1, <3>3
    <3> QED
      BY <3>2, <3>3
  <2>8. CASE RefreshTick \/ Query \/ RefusedSuperseded \/ ChangePrincipal \/ ChangeResults
    BY <2>3, <2>8 DEF RefreshTick, Query, Send, Observe, ObserveName, Search, Resolve,
       RequestFails, Raise, RefusedSuperseded, ChangePrincipal, ChangeResults, navigation
  <2>9. CASE UNCHANGED vars
    BY <2>3, <2>9 DEF vars, navigation
  <2> QED
    BY <2>5, <2>6, <2>7, <2>8, <2>9 DEF Next, Finish, Restart, RestartRefused
<1>2. IInv /\ IInv' /\ [Next]_vars => [Shown # None => Shown' # None]_vars
  BY <1>1
<1> QED
  BY <1>2, Invariance, PTL DEF Spec, ShownStays
=============================================================================
