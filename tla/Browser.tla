------------------------------- MODULE Browser -------------------------------
(***************************************************************************)
(* Soft navigation in the browser (static/js/app.js): pages are fetched,   *)
(* kept in a small in-memory cache, prefetched when a link is hovered, and *)
(* swapped into the document without loading it again.                     *)
(*                                                                         *)
(* One event of the page is one action.  The continuations of an answered  *)
(* request are microtasks: they run, in order, before any other event, so  *)
(* every event waits for "due" to be empty.                                *)
(*                                                                         *)
(* A page's content is its page, the number of announced changes known     *)
(* when it was requested, and whether one was announced while its request  *)
(* was under way ("late").  Titles, scrolling, the player and the active   *)
(* downloads panel are left out.                                           *)
(***************************************************************************)
EXTENDS Integers, Sequences

CONSTANTS
  Pages,      \* navigation keys of the pages isCacheableNavigationUrl accepts
  None,       \* no page, no request
  CacheSize,  \* PAGE_CACHE_MAX_ENTRIES
  Fetches,    \* slots for requests under way (bound)
  MaxWaiting, \* navigations waiting for one request (bound)
  MaxEpoch    \* changes the page learns of (bound)

ASSUME BrowserAssumption ==
  /\ None \notin Pages /\ None \notin Fetches
  /\ CacheSize \in Nat \ {0}
  /\ MaxWaiting \in Nat /\ MaxEpoch \in Nat

VARIABLES
  location,   \* window.location
  shown,      \* the content of #pageContent
  cache,      \* pageCache: the entries of the Map in insertion order
  fetch,      \* slot -> the request under way and the navigations awaiting it
  prefetch,   \* pagePrefetches: page -> its request
  due,        \* continuations of answered requests, to run before any event
  entries,    \* pages that back and forward reach without a load
  timers,     \* refreshCurrentPage timers set and not fired
  opening,    \* the playlist just added, before navigateTo opens it
  loggingOut, \* isLoggingOut
  epoch,      \* changes the page has learnt of
  crossed     \* history: this document was shown under another's address

vars == <<location, shown, cache, fetch, prefetch, due, entries, timers,
          opening, loggingOut, epoch, crossed>>

(* How a navigation renders its answer: "link" pushes the answer's address,
   "keep" (popstate and refresh) leaves the address alone, and "open" is the
   "link" of the add form, which reports an error in place of loading.      *)
Kinds == {"link", "keep", "open"}
Content == [page : Pages, epoch : 0..MaxEpoch, late : BOOLEAN]
Entry == [key : Pages, content : Content]
Idle == [page |-> None, epoch |-> 0, late |-> FALSE, waiting |-> <<>>]
InFlight == {s \in Fetches : fetch[s].page # None}

------------------------------------------------------------------------------
(* The cache *)

Has(c, k) == \E i \in DOMAIN c : c[i].key = k
Position(c, k) == CHOOSE i \in DOMAIN c : c[i].key = k
Cached(c, k) == c[Position(c, k)].content

Dropped(c, k) ==
  IF Has(c, k)
  THEN [i \in 1..(Len(c) - 1) |-> IF i < Position(c, k) THEN c[i] ELSE c[i + 1]]
  ELSE c

\* Mutant: the bound is compared before the entry is added.
Store_Off(c, e) ==
  IF Has(c, e.key)
  THEN [i \in 1..Len(c) |-> IF c[i].key = e.key THEN e ELSE c[i]]
  ELSE IF Len(c) <= CacheSize THEN Append(c, e)
  ELSE [i \in 1..Len(c) |-> IF i = Len(c) THEN e ELSE c[i + 1]]

\* Map.set replaces in place or appends; trimPageCache deletes the oldest.
Store(c, e) ==
  IF Has(c, e.key)
  THEN [i \in 1..Len(c) |-> IF c[i].key = e.key THEN e ELSE c[i]]
  ELSE IF Len(c) < CacheSize THEN Append(c, e)
  ELSE [i \in 1..Len(c) |-> IF i = Len(c) THEN e ELSE c[i + 1]]

\* A lookup of k deletes its entry when that is older than PAGE_CACHE_TTL_MS.
LookedUp(k) == {cache, Dropped(cache, k)}

------------------------------------------------------------------------------
(* A document is loaded: everything in memory starts afresh *)

FreshContent(p) == [page |-> p, epoch |-> epoch, late |-> FALSE]

Load(p) ==
  /\ location' = p
  /\ shown' = FreshContent(p)
  /\ cache' = <<[key |-> p, content |-> FreshContent(p)]>>
  /\ fetch' = [s \in Fetches |-> Idle]
  /\ prefetch' = [q \in Pages |-> None]
  /\ due' = <<>>
  /\ entries' = {p}
  /\ timers' = 0 /\ opening' = None
  /\ loggingOut' = FALSE /\ crossed' = FALSE
  /\ UNCHANGED epoch

Init ==
  /\ location \in Pages
  /\ epoch = 0
  /\ shown = FreshContent(location)
  /\ cache = <<[key |-> location, content |-> shown]>>
  /\ fetch = [s \in Fetches |-> Idle]
  /\ prefetch = [q \in Pages |-> None]
  /\ due = <<>>
  /\ entries = {location}
  /\ timers = 0 /\ opening = None
  /\ loggingOut = FALSE /\ crossed = FALSE

------------------------------------------------------------------------------
(* Rendering and requesting *)

\* Mutant: the screen is stored before the address is pushed.
Show_Early(c, x, addr) ==
  /\ location' = addr
  /\ shown' = x
  /\ entries' = entries \cup {addr}
  /\ cache' = Store(c, [key |-> location, content |-> x])

\* renderPageSnapshot: x replaces the content, at address addr, and what is
\* then on the screen is stored under the address it is at.
Show(c, x, addr) ==
  /\ location' = addr
  /\ shown' = x
  /\ entries' = entries \cup {addr}
  /\ cache' = Store(c, [key |-> addr, content |-> x])

Request(p, waiting) ==
  LET s == CHOOSE t \in Fetches \ InFlight : TRUE IN
  /\ InFlight # Fetches
  /\ fetch' = [fetch EXCEPT ![s] = [page |-> p, epoch |-> epoch,
                                    late |-> FALSE, waiting |-> waiting]]
  /\ prefetch' = [prefetch EXCEPT ![p] = s]

Await(s, kind) ==
  /\ Len(fetch[s].waiting) < MaxWaiting
  /\ fetch' = [fetch EXCEPT ![s].waiting = Append(@, kind)]
  /\ UNCHANGED prefetch

\* Mutant: a navigation does not look for a prefetch under way.
Navigate_Alone(p, kind, addr) ==
  \E c \in LookedUp(p) :
    \/ /\ Has(c, p)
       /\ Show(c, Cached(c, p), p)
       /\ UNCHANGED <<fetch, prefetch, crossed>>
    \/ /\ ~Has(c, p)
       /\ Request(p, <<kind>>)
       /\ location' = addr
       /\ cache' = c
       /\ UNCHANGED <<shown, entries, crossed>>

\* navigateTo, from address addr on.  useCache makes no difference: the
\* request that follows an ignored cache looks in the cache again.
Navigate(p, kind, addr) ==
  \E c \in LookedUp(p) :
    \/ /\ Has(c, p)
       /\ Show(c, Cached(c, p), p)
       /\ UNCHANGED <<fetch, prefetch, crossed>>
    \/ /\ ~Has(c, p)
       /\ IF prefetch[p] # None THEN Await(prefetch[p], kind)
                                ELSE Request(p, <<kind>>)
       /\ location' = addr
       /\ cache' = c
       /\ UNCHANGED <<shown, entries, crossed>>

------------------------------------------------------------------------------
(* Events *)

\* A link is followed; while logging out the browser loads it instead.
Click(p) ==
  /\ due = <<>> /\ ~loggingOut
  /\ Navigate(p, "link", location)
  /\ UNCHANGED <<due, timers, opening, loggingOut, epoch>>

\* The browser moves the address before it reports the move.
Popstate(p) ==
  /\ due = <<>> /\ p \in entries
  /\ Navigate(p, "keep", p)
  /\ UNCHANGED <<due, timers, opening, loggingOut, epoch>>

\* A refreshCurrentPage timer fires.
Refresh ==
  /\ due = <<>> /\ timers > 0
  /\ timers' = timers - 1
  /\ Navigate(location, "keep", location)
  /\ UNCHANGED <<due, opening, loggingOut, epoch>>

\* The panel is refreshed and the add form opens the new playlist.
OpenAdded ==
  /\ due = <<>> /\ opening # None
  /\ opening' = None
  /\ Navigate(opening, "open", location)
  /\ UNCHANGED <<due, timers, loggingOut, epoch>>

\* Hovered links, and the links of a page just shown.
Prefetch(p) ==
  /\ due = <<>> /\ ~loggingOut /\ p # location
  /\ \E c \in LookedUp(p) :
       /\ ~Has(c, p)
       /\ cache' = c
       /\ IF prefetch[p] = None THEN Request(p, <<>>)
                                ELSE UNCHANGED <<fetch, prefetch>>
  /\ UNCHANGED <<location, shown, due, entries, timers, opening, loggingOut,
                 epoch, crossed>>

Answer(s) == [page |-> fetch[s].page, epoch |-> fetch[s].epoch,
              late |-> fetch[s].late]

\* Mutant: the entry of the page is left behind.
Ended_Forgets(s) ==
  /\ fetch' = [fetch EXCEPT ![s] = Idle]
  /\ UNCHANGED prefetch

\* The request ends, well or not: finally deletes the entry of its page.
Ended(s) ==
  /\ fetch' = [fetch EXCEPT ![s] = Idle]
  /\ prefetch' = [prefetch EXCEPT ![fetch[s].page] = None]

FetchAnswers(s) ==
  /\ due = <<>> /\ s \in InFlight
  /\ cache' = Store(cache, [key |-> fetch[s].page, content |-> Answer(s)])
  /\ due' = [i \in 1..Len(fetch[s].waiting) |->
               [kind |-> fetch[s].waiting[i], content |-> Answer(s)]]
  /\ Ended(s)
  /\ UNCHANGED <<location, shown, entries, timers, opening, loggingOut, epoch,
                 crossed>>

\* Mutant: an answer that took its time is shown without its address.
RunDue_InPlace ==
  /\ due # <<>>
  /\ Show(cache, Head(due).content, location)
  /\ due' = Tail(due)
  /\ UNCHANGED <<fetch, prefetch, timers, opening, loggingOut, epoch, crossed>>

\* A navigation that awaited the answer renders it.
RunDue ==
  /\ due # <<>>
  /\ LET d == Head(due)
         keep == d.kind = "keep" IN
       /\ Show(cache, d.content, IF keep THEN location ELSE d.content.page)
       /\ crossed' = (crossed \/ (keep /\ d.content.page # location))
  /\ due' = Tail(due)
  /\ UNCHANGED <<fetch, prefetch, timers, opening, loggingOut, epoch>>

\* Mutant: every failure is swallowed as that of a prefetch is.
FetchFails_Silent(s) ==
  /\ due = <<>> /\ s \in InFlight
  /\ Ended(s)
  /\ UNCHANGED <<location, shown, cache, due, entries, timers, opening,
                 loggingOut, epoch, crossed>>

\* An error or the timeout: a link is loaded, a kept address is reloaded, and
\* a prefetch or the add form only reports it.
FetchFails(s) ==
  /\ due = <<>> /\ s \in InFlight
  /\ \/ \E i \in 1..Len(fetch[s].waiting) :
          \/ fetch[s].waiting[i] = "link" /\ Load(fetch[s].page)
          \/ fetch[s].waiting[i] = "keep" /\ Load(location)
     \/ /\ \A i \in 1..Len(fetch[s].waiting) : fetch[s].waiting[i] = "open"
        /\ Ended(s)
        /\ UNCHANGED <<location, shown, cache, due, entries, timers, opening,
                       loggingOut, epoch, crossed>>

\* An answer without #pageContent: whoever awaits it loads the page.
FetchIsBlank(s) ==
  /\ due = <<>> /\ s \in InFlight
  /\ \/ fetch[s].waiting # <<>> /\ Load(fetch[s].page)
     \/ /\ fetch[s].waiting = <<>>
        /\ Ended(s)
        /\ UNCHANGED <<location, shown, cache, due, entries, timers, opening,
                       loggingOut, epoch, crossed>>

\* Mutant: the cache is not cleared.
Invalidate_Keep ==
  /\ due = <<>> /\ epoch < MaxEpoch
  /\ epoch' = epoch + 1
  /\ fetch' = [s \in Fetches |->
                 [fetch[s] EXCEPT !.late = fetch[s].page # None]]
  /\ UNCHANGED <<location, shown, cache, prefetch, due, entries, loggingOut,
                 crossed>>

\* The page learns that the data changed: invalidatePageCache.
Invalidate ==
  /\ due = <<>> /\ epoch < MaxEpoch
  /\ epoch' = epoch + 1
  /\ cache' = <<>>
  /\ fetch' = [s \in Fetches |->
                 [fetch[s] EXCEPT !.late = fetch[s].page # None]]
  /\ UNCHANGED <<location, shown, prefetch, due, entries, loggingOut, crossed>>

\* A sync was queued, or the interval saved.
Changed == Invalidate /\ UNCHANGED <<timers, opening>>

\* A playlist was deleted, or pollTask saw its task done.
ChangedHere == Invalidate /\ timers' = timers + 1 /\ UNCHANGED opening

\* A playlist was added; its button stays disabled until it is opened.
Added(p) ==
  /\ opening = None
  /\ Invalidate /\ opening' = p /\ UNCHANGED timers

\* The logout form is submitted: stopBackgroundNavigationWork.
Logout ==
  /\ due = <<>> /\ ~loggingOut
  /\ loggingOut' = TRUE
  /\ cache' = <<>>
  /\ prefetch' = [q \in Pages |-> None]
  /\ UNCHANGED <<location, shown, fetch, due, entries, timers, opening, epoch,
                 crossed>>

\* The user loads a page, or the browser follows the logout.
Reload(p) == due = <<>> /\ Load(p)

Next ==
  \/ \E p \in Pages : Click(p) \/ Popstate(p) \/ Prefetch(p) \/ Added(p)
                      \/ Reload(p)
  \/ \E s \in Fetches : FetchAnswers(s) \/ FetchFails(s) \/ FetchIsBlank(s)
  \/ Refresh \/ OpenAdded \/ RunDue \/ Changed \/ ChangedHere \/ Logout

\* A request is answered, fails or is aborted by fetchWithTimeout, whose timer
\* covers the headers only (that a body once begun ends is the network's part);
\* microtasks run; and a timer fires, strongly because what disables Refresh in
\* between are the bounds on requests and waiters, which a browser has not.
Fairness ==
  /\ \A s \in Fetches :
       WF_vars(FetchAnswers(s) \/ FetchFails(s) \/ FetchIsBlank(s))
  /\ WF_vars(RunDue)
  /\ SF_vars(Refresh)

Spec == Init /\ [][Next]_vars
FairSpec == Spec /\ Fairness

------------------------------------------------------------------------------
(* Properties *)

\* The entries of a Map have distinct keys, trimPageCache keeps its bound, and
\* every variable has the shape the script gives it.
TypeOK ==
  /\ location \in Pages /\ shown \in Content
  /\ cache \in Seq(Entry) /\ Len(cache) <= CacheSize
  /\ \A i, j \in DOMAIN cache : cache[i].key = cache[j].key => i = j
  /\ fetch \in [Fetches -> [page : Pages \cup {None}, epoch : 0..MaxEpoch,
                            late : BOOLEAN, waiting : Seq(Kinds)]]
  /\ prefetch \in [Pages -> Fetches \cup {None}]
  /\ due \in Seq([kind : Kinds, content : Content])
  /\ entries \subseteq Pages
  /\ timers \in Nat /\ opening \in Pages \cup {None}
  /\ loggingOut \in BOOLEAN /\ crossed \in BOOLEAN
  /\ epoch \in 0..MaxEpoch

\* Some navigation that keeps the address still awaits its answer.
KeepsWaiting ==
  \/ \E s \in InFlight : \E i \in DOMAIN fetch[s].waiting :
       fetch[s].waiting[i] = "keep"
  \/ \E i \in DOMAIN due : due[i].kind = "keep"

\* The content on the screen is that of the address, however clicks, answers,
\* failures and history moves interleave: only a history move or a refresh
\* still under way, or one answered after the address had moved on, can part
\* them (renderPageSnapshot with push false, app.js:201).
ShownIsAddressed ==
  ~crossed /\ ~KeepsWaiting => shown.page = location

\* No page is cached under the key of another: what storeCurrentPageSnapshot
\* reads off the screen is filed under the address at that moment, which is
\* right as long as no kept address was crossed (app.js:123).
CacheIsTrue ==
  ~crossed => \A i \in DOMAIN cache : cache[i].content.page = cache[i].key

\* After a change is announced, the cache serves nothing from before it,
\* except a page whose request was under way when it was announced and which
\* is stored on arrival all the same (app.js:154).
FreshCache ==
  \A i \in DOMAIN cache :
    cache[i].content.epoch = epoch \/ cache[i].content.late

\* pagePrefetches holds only requests that are under way and for that page: a
\* navigation never joins one that already ended, whose answer would never be
\* requested again (the finally of fetchPageSnapshot, app.js:184).
PrefetchesInFlight ==
  \A p \in Pages : prefetch[p] # None => fetch[prefetch[p]].page = p

\* Hovering, clicking, going back and refreshing never have two requests for
\* one page under way, until the logout clears pagePrefetches (app.js:163).
OneFetchPerPage ==
  ~loggingOut =>
    \A s, t \in InFlight : fetch[s].page = fetch[t].page => s = t

\* A change to the page on the screen is shown in the end: the timer fires and
\* the content becomes one requested since the last change announced, or one
\* whose request a change overtook (refreshCurrentPage, app.js:888).
NewsIsShown == timers > 0 ~> (shown.epoch = epoch \/ shown.late)

==============================================================================
