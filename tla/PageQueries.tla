---------------------------- MODULE PageQueries ----------------------------
(***************************************************************************)
(* One paged kind of the dashboard: the navigation of its pages            *)
(* (queries/page_navigation.py), the key that runs its queries one at a    *)
(* time (ui/page_runner.py) and the GitHub source that answers them and    *)
(* retains what it answered (queries/cached_source.py, github_queries.py). *)
(* A query is several requests; GitHub may answer each for another         *)
(* principal, and the result set changes between them. An Issues query     *)
(* ends by resolving its Issues; of Pull Requests that step asks nothing.  *)
(***************************************************************************)
EXTENDS Naturals, Sequences

CONSTANTS
    Principals,   \* whom GitHub may answer for
    Searches,     \* the requests a person may submit, but for their cursor
    Capacity,     \* pages a navigation retains
    CacheSize,    \* pages a source retains
    MaxPage,      \* bound: pages past page one
    MaxEdition,   \* bound: states the result set goes through
    MaxMoves,     \* bound: refreshes and moves asked for
    None

ASSUME PageAssumption ==
    /\ Capacity \in Nat \ {0} /\ CacheSize \in Nat
    /\ MaxPage \in Nat /\ MaxEdition \in Nat \ {0} /\ MaxMoves \in Nat

\* A continuation is bound to its context and request (context_fingerprint).
Cursors == [principal : Principals, search : Searches,
            page : 1..MaxPage, edition : 1..MaxEdition]
Statuses == {"fresh", "stale", "unavailable"}
Pages == [search : Searches, cursor : Cursors \cup {None}, status : Statuses,
          principal : Principals \cup {None}, next : Cursors \cup {None}]
Tickets == [generation : Nat, search : Searches, cursor : Cursors \cup {None},
            navigation : BOOLEAN]
Totals == [principal : Principals \cup {None}, edition : 0..MaxEdition,
           status : Statuses]
QuerySteps == {"start", "observe", "name", "search", "resolve"}
Queries == [ticket : Tickets, step : QuerySteps,
            context : Principals \cup {None}, counted : 0..MaxEdition]
Answers == [ticket : Tickets, page : Pages \cup {None},
            totals : Totals \cup {None}, refused : BOOLEAN]

ASSUME NoneAssumption ==
    None \notin Principals \cup Cursors \cup Pages \cup Tickets \cup Totals
                           \cup Queries \cup Answers

VARIABLES
    principal, edition,   \* what GitHub answers for and from now
    generation, search,   \* PageNavigation: the newest ticket, its request
    history, index,       \* the accepted pages and the one displayed, 0 for none
    evicted, replaced,    \* a page was dropped; what a restart still shows
    running, queued,      \* the key's query, and the ticket that waits
    answer,               \* the posted answer of the running query
    failed,               \* the kind is among the page failures
    last, named,          \* the principal last verified; the Repository is named
    cache, counted,       \* the source's last good pages and totals
    totals,               \* the store's Project Totals
    awaited,              \* history: the newest ticket was asked for by a person
    moves

github == <<principal, edition>>
navigation == <<generation, search, history, index, evicted, replaced>>
runner == <<running, queued, answer, failed>>
source == <<last, named, cache, counted>>
vars == <<github, navigation, runner, source, totals, awaited, moves>>

Init ==
    /\ principal \in Principals /\ edition = 1
    /\ generation = 0 /\ search \in Searches
    /\ history = <<>> /\ index = 0
    /\ evicted = FALSE /\ replaced = None
    /\ running = None /\ queued = None /\ answer = None /\ failed = FALSE
    /\ last = None /\ named = FALSE /\ cache = <<>> /\ counted = None
    /\ totals = None /\ awaited = FALSE /\ moves = 0

-----------------------------------------------------------------------------
Page == IF index = 0 THEN None ELSE history[index]
Shown == IF Page # None THEN Page ELSE replaced

Ticket(g, s, cursor, moving) ==
    [generation |-> g, search |-> s, cursor |-> cursor, navigation |-> moving]

Launched(t) == [ticket |-> t, step |-> "start", context |-> None, counted |-> 0]

\* PageRunner._launch: the latest request for a busy key waits.
Launch(t) ==
    IF running = None THEN running' = Launched(t) /\ UNCHANGED queued
    ELSE queued' = t /\ UNCHANGED running

\* Mutant: a restart keeps the page it replaces, not the one it shows.
RestartedPage(s) ==
    /\ generation' = generation + 1 /\ search' = s
    /\ replaced' = Page
    /\ history' = <<>> /\ index' = 0 /\ evicted' = FALSE

\* PageNavigation.restart
Restarted(s) ==
    /\ generation' = generation + 1 /\ search' = s
    /\ replaced' = Shown
    /\ history' = <<>> /\ index' = 0 /\ evicted' = FALSE

-----------------------------------------------------------------------------
(* What a person, a timer or a refresh asks of the kind.                   *)

Ask == moves < MaxMoves /\ moves' = moves + 1

\* A manual refresh, a search, a reordering, a lifecycle or `page one`.
Restart(s) ==
    /\ Ask
    /\ Restarted(s)
    /\ Launch(Ticket(generation + 1, s, None, FALSE))
    /\ awaited' = TRUE
    /\ UNCHANGED <<github, answer, failed, source, totals>>

\* A timer repeats the displayed page, unless the key is busy.
RefreshTick ==
    /\ running = None /\ Ask
    /\ Launch(Ticket(generation, search, IF Page = None THEN None ELSE Page.cursor, FALSE))
    /\ UNCHANGED <<github, navigation, answer, failed, source, totals, awaited>>

NextPage ==
    /\ Page # None /\ Page.next # None /\ Ask
    /\ generation' = generation + 1
    /\ IF index < Len(history)
       THEN /\ index' = index + 1 /\ awaited' = FALSE
            /\ UNCHANGED <<running, queued>>
       ELSE /\ Launch(Ticket(generation + 1, search, Page.next, TRUE))
            /\ awaited' = TRUE
            /\ UNCHANGED index
    /\ UNCHANGED <<github, search, history, evicted, replaced, answer, failed,
                   source, totals>>

\* On the first retained page it only supersedes what is pending.
PreviousPage ==
    /\ Page # None /\ Ask
    /\ generation' = generation + 1
    /\ index' = IF index = 1 THEN 1 ELSE index - 1
    /\ awaited' = FALSE
    /\ UNCHANGED <<github, search, history, evicted, replaced, runner, source, totals>>

-----------------------------------------------------------------------------
(* The source answers a query: CachedQuerySource.query_page.               *)

Asking(step) == running # None /\ running.step = step /\ answer = None

Goto(step, context, count) ==
    running' = [running EXCEPT !.step = step, !.context = context, !.counted = count]

\* request_context, and which request comes first.
Send ==
    /\ Asking("start")
    /\ Goto(IF running.ticket.cursor # None THEN "observe"
            ELSE IF named THEN "search" ELSE "name", last, 0)
    /\ UNCHANGED <<github, navigation, queued, answer, failed, source, totals,
                   awaited, moves>>

\* An InvalidContinuation lands neither a page nor totals.
Refuse ==
    /\ answer' = [ticket |-> running.ticket, page |-> None, totals |-> None,
                  refused |-> TRUE]
    /\ UNCHANGED <<running, cache, counted>>

\* Mutant: a failure is looked up under the context its request was sent in.
KnownSent(p) == IF running.context # None THEN running.context ELSE p

\* _failed_context: the principal a response last answered for.
Known(p) == p

\* _accept_totals: the last count is kept, though its page failed.
CountRetained(count) == counted' = IF count # None THEN count ELSE counted

\* Where the source retains the running request's page for p, if it does.
Retained(p) == {i \in 1..Len(cache) : /\ cache[i].search = running.ticket.search
                                      /\ cache[i].cursor = running.ticket.cursor
                                      /\ cache[i].principal = p}

\* The failure retains the request's last good page, and its totals, under
\* the principal now known.
Fail(p, count) ==
    LET t == running.ticket
        known == Known(p)
        kept == Retained(known)
        page == IF kept # {} THEN [cache[CHOOSE i \in kept : TRUE] EXCEPT !.status = "stale"]
                ELSE [search |-> t.search, cursor |-> t.cursor, status |-> "unavailable",
                      principal |-> None, next |-> None]
        sums == IF count # None THEN count
                ELSE IF counted # None /\ counted.principal = known
                     THEN [counted EXCEPT !.status = "stale"]
                     ELSE [principal |-> None, edition |-> 0, status |-> "unavailable"]
    IN  /\ answer' = [ticket |-> t, page |-> page, totals |-> sums, refused |-> FALSE]
        /\ CountRetained(count)
        /\ UNCHANGED <<running, cache>>

Sum(p, e) == [principal |-> p, edition |-> e, status |-> "fresh"]

\* observe_continuation, then verify_continuation.
Observe ==
    /\ Asking("observe")
    /\ last' = principal /\ named' = TRUE
    /\ IF running.ticket.cursor.principal = principal
          /\ running.ticket.cursor.search = running.ticket.search
       THEN Goto("search", principal, 0) /\ UNCHANGED <<answer, cache, counted>>
       ELSE Refuse
    /\ UNCHANGED <<github, navigation, queued, failed, totals, awaited, moves>>

\* Page one of a source that does not know the Repository's name yet.
ObserveName ==
    /\ Asking("name")
    /\ last' = principal /\ named' = TRUE
    /\ Goto("search", principal, 0)
    /\ UNCHANGED <<github, navigation, queued, answer, failed, cache, counted, totals,
                   awaited, moves>>

\* The search's answer: for another principal than a continuation's, it is
\* discarded; else its totals count, whatever fails after.
Search ==
    /\ Asking("search")
    /\ last' = principal
    /\ IF running.ticket.cursor # None /\ running.context # principal
       THEN Fail(principal, None)
       ELSE \/ Goto("resolve", principal, edition) /\ UNCHANGED <<answer, cache, counted>>
            \/ Fail(principal, Sum(principal, edition))
            \/ running.ticket.cursor # None /\ Refuse
    /\ UNCHANGED <<github, navigation, queued, failed, named, totals, awaited, moves>>

\* Mutant: no page is ever dropped.
AllCached(pages) == pages

\* The cache without the page it retains for p.
Others(p) ==
    IF Retained(p) = {} THEN cache
    ELSE LET i == CHOOSE j \in Retained(p) : TRUE
         IN  SubSeq(cache, 1, i - 1) \o SubSeq(cache, i + 1, Len(cache))

\* The least recently completed page makes room for another.
Cached(pages) == IF Len(pages) > CacheSize THEN Tail(pages) ELSE pages

\* The page as the search found it, kept for its context and request.
Completed(next) ==
    LET t == running.ticket
        page == [search |-> t.search, cursor |-> t.cursor, status |-> "fresh",
                 principal |-> running.context, next |-> next]
        sums == Sum(running.context, running.counted)
    IN  /\ answer' = [ticket |-> t, page |-> page, totals |-> sums, refused |-> FALSE]
        /\ counted' = sums
        /\ cache' = Cached(Append(Others(page.principal), page))
        /\ UNCHANGED running

Following ==
    LET at == IF running.ticket.cursor = None THEN 0 ELSE running.ticket.cursor.page
    IN  {None} \cup {c \in Cursors : /\ c.principal = running.context
                                     /\ c.search = running.ticket.search
                                     /\ c.page = at + 1 /\ c.edition = running.counted}

\* The page's Issues are resolved for the principal of its search.
Resolve ==
    /\ Asking("resolve")
    /\ last' = principal
    /\ \/ running.context = principal /\ \E next \in Following : Completed(next)
       \/ Fail(principal, Sum(running.context, running.counted))
    /\ UNCHANGED <<github, navigation, queued, failed, named, totals, awaited, moves>>

\* A request that fails unanswered, is held by a pause or was never sent.
RequestFails ==
    /\ running # None /\ answer = None
    /\ Fail(last, IF running.step = "resolve" THEN Sum(running.context, running.counted)
                  ELSE None)
    /\ UNCHANGED <<github, navigation, queued, failed, last, named, totals, awaited, moves>>

\* An exception the source does not contain: only its text is posted.
Raise ==
    /\ running # None /\ answer = None
    /\ answer' = [ticket |-> running.ticket, page |-> None, totals |-> None,
                  refused |-> FALSE]
    /\ UNCHANGED <<github, navigation, running, queued, failed, source, totals,
                   awaited, moves>>

-----------------------------------------------------------------------------
(* The answer lands on the event loop: PageRunner.finish_page.             *)

\* Mutant: a superseded answer lands as well.
CurrentAlways(t) == t.generation <= generation

\* Only the newest ticket's answer belongs to the walk.
Current(t) == t.generation = generation

\* Mutant: what waited is forgotten.
ReleasedAlone(waiting) == running' = None /\ queued' = None

\* _release: the key is free, and the request that waited runs.
Released(waiting) ==
    /\ running' = IF waiting = None THEN None ELSE Launched(waiting)
    /\ queued' = None

\* PageNavigation.accept: the page joins the walk, or replaces the displayed
\* one; what lay beyond is forgotten, and so is the oldest beyond capacity.
Landed(t, page) ==
    LET moved == t.navigation \/ index = 0
        walked == Append(SubSeq(history, 1, IF moved THEN index ELSE index - 1), page)
        full == Len(walked) > Capacity
    IN  /\ history' = IF full THEN Tail(walked) ELSE walked
        /\ index' = Len(walked) - (IF full THEN 1 ELSE 0)
        /\ evicted' = (evicted \/ full)

Kept(t, page) == page = None \/ (t.navigation /\ page.status = "unavailable")

\* A failure that left no page is one to report.
Failures(page) == failed' = (page = None)

FinishPage ==
    /\ answer # None /\ ~answer.refused
    /\ LET t == answer.ticket
           page == answer.page
       IN  /\ IF Current(t) THEN Failures(page) ELSE UNCHANGED failed
           /\ IF Current(t) /\ ~Kept(t, page)
              THEN Landed(t, page) /\ replaced' = None
              ELSE UNCHANGED <<history, index, evicted, replaced>>
           /\ awaited' = (awaited /\ ~Current(t))
    /\ totals' = IF answer.totals # None THEN answer.totals ELSE totals
    /\ Released(queued) /\ answer' = None
    /\ UNCHANGED <<github, generation, search, source, moves>>

\* _restart_refused: the walk begins again at page one, which runs next.
RestartRefused ==
    /\ answer # None /\ answer.refused /\ Current(answer.ticket)
    /\ Restarted(search)
    /\ Released(Ticket(generation + 1, search, None, FALSE))
    /\ failed' = FALSE /\ awaited' = TRUE /\ answer' = None
    /\ UNCHANGED <<github, source, totals, moves>>

RefusedSuperseded ==
    /\ answer # None /\ answer.refused /\ ~Current(answer.ticket)
    /\ Released(queued) /\ answer' = None
    /\ UNCHANGED <<github, navigation, failed, source, totals, awaited, moves>>

-----------------------------------------------------------------------------
\* Another login, or another answer to the same query.
ChangePrincipal ==
    /\ \E p \in Principals : principal' = p
    /\ UNCHANGED <<edition, navigation, runner, source, totals, awaited, moves>>

ChangeResults ==
    /\ edition < MaxEdition /\ edition' = edition + 1
    /\ UNCHANGED <<principal, navigation, runner, source, totals, awaited, moves>>

Query == Send \/ Observe \/ ObserveName \/ Search \/ Resolve \/ RequestFails \/ Raise
Finish == FinishPage \/ RestartRefused \/ RefusedSuperseded

Next ==
    \/ \E s \in Searches : Restart(s)
    \/ RefreshTick \/ NextPage \/ PreviousPage
    \/ Query \/ Finish
    \/ ChangePrincipal \/ ChangeResults

Spec == Init /\ [][Next]_vars

\* The key has a thread of its own, each request ends in an answer or a
\* timeout, and the event loop handles what is posted.
FairSpec == Spec /\ WF_vars(Query) /\ WF_vars(Finish)

-----------------------------------------------------------------------------
TypeOK ==
    /\ principal \in Principals /\ edition \in 1..MaxEdition
    /\ generation \in Nat /\ search \in Searches
    /\ history \in Seq(Pages) /\ index \in 0..Len(history)
    /\ evicted \in BOOLEAN /\ replaced \in Pages \cup {None}
    /\ running \in Queries \cup {None} /\ queued \in Tickets \cup {None}
    /\ answer \in Answers \cup {None} /\ failed \in BOOLEAN
    /\ last \in Principals \cup {None} /\ named \in BOOLEAN
    /\ cache \in Seq(Pages) /\ Len(cache) <= CacheSize
    /\ counted \in Totals \cup {None} /\ totals \in Totals \cup {None}
    /\ awaited \in BOOLEAN /\ moves \in 0..MaxMoves

(* The retained pages are one walk of the submitted request: each was      *)
(* paged from the one before it as that one now stands, the first is page  *)
(* one or the person is told it was evicted, and a page is displayed.      *)
OneWalk ==
    /\ \A i \in 1..Len(history) : history[i].search = search
    /\ \A i \in 1..Len(history) - 1 : history[i + 1].cursor = history[i].next
    /\ history # <<>> => /\ index \in 1..Len(history)
                         /\ evicted <=> history[1].cursor # None
    /\ Len(history) <= Capacity

(* A failed query never shows, as a stale page or as stale totals, what    *)
(* was observed for another principal than GitHub last answered for.       *)
StaleIsOwn ==
    answer # None =>
        /\ answer.page # None /\ answer.page.status = "stale"
             => answer.page.principal = last
        /\ answer.totals # None /\ answer.totals.status = "stale"
             => answer.totals.principal = last

(* A pane that has shown a page is never emptied by a restart, a search, a *)
(* refused continuation or an eviction before another page is there.       *)
ShownStays == [][Shown # None => Shown' # None]_vars

(* What a person asks for is answered, or given up by their next move.     *)
AwaitedAnswered == awaited ~> ~awaited
=============================================================================
