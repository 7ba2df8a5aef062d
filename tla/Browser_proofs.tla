---------------------------- MODULE Browser_proofs ----------------------------
(***************************************************************************)
(* Theorems about Browser for any site, any size of the cache, and any     *)
(* number of requests, waiting navigations and changes.                    *)
(***************************************************************************)
EXTENDS Browser, TLAPS

\* A function on 1..n is a sequence.
LEMMA FunctionIsSeq ==
  ASSUME NEW R, NEW n \in Nat, NEW f \in [1..n -> R]
  PROVE  f \in Seq(R) /\ Len(f) = n
OBVIOUS

\* The parts of a sequence that is not empty.
LEMMA HeadAndTail ==
  ASSUME NEW R, NEW q \in Seq(R), q # <<>>
  PROVE  /\ Head(q) \in R /\ Head(q) = q[1] /\ 1 \in DOMAIN q
         /\ Tail(q) \in Seq(R)
         /\ \A i \in DOMAIN Tail(q) : i + 1 \in DOMAIN q /\ Tail(q)[i] = q[i + 1]
OBVIOUS

\* What TypeOK says of the cache.
CacheTyped(c) ==
  /\ c \in Seq(Entry) /\ Len(c) <= CacheSize
  /\ \A i, j \in DOMAIN c : c[i].key = c[j].key => i = j

\* Every entry of d is one of c's.
PartOf(d, c) == \A i \in DOMAIN d : \E j \in DOMAIN c : d[i] = c[j]

\* Storing an entry keeps the cache a bounded map, whose other entries were
\* there before.
LEMMA StoreFacts ==
  ASSUME NEW c, CacheTyped(c), NEW e \in Entry
  PROVE  /\ CacheTyped(Store(c, e))
         /\ \A i \in DOMAIN Store(c, e) :
              Store(c, e)[i] = e \/ \E j \in DOMAIN c : Store(c, e)[i] = c[j]
<1> DEFINE d == Store(c, e)
<1>1. CASE Has(c, e.key)
  <2>1. d = [i \in 1..Len(c) |-> IF c[i].key = e.key THEN e ELSE c[i]]
    BY <1>1 DEF Store
  <2>2. c \in Seq(Entry) /\ Len(c) \in Nat /\ DOMAIN c = 1..Len(c)
    BY DEF CacheTyped
  <2>3. \A i \in 1..Len(c) : c[i] \in Entry
    BY <2>2
  <2>4. d \in Seq(Entry) /\ Len(d) = Len(c) /\ DOMAIN d = 1..Len(c)
    BY <2>1, <2>2, <2>3
  <2>5. \A i \in DOMAIN d : d[i].key = c[i].key
    BY <2>1, <2>4
  <2>6. CacheTyped(d)
    BY <2>2, <2>4, <2>5 DEF CacheTyped
  <2> QED BY <2>1, <2>2, <2>4, <2>6
<1>2. CASE ~Has(c, e.key) /\ Len(c) < CacheSize
  <2>1. d = Append(c, e)
    BY <1>2 DEF Store
  <2>2. c \in Seq(Entry) /\ Len(c) \in Nat /\ DOMAIN c = 1..Len(c)
    BY DEF CacheTyped
  <2>3. d \in Seq(Entry) /\ Len(d) = Len(c) + 1 /\ DOMAIN d = 1..(Len(c) + 1)
    BY <2>1, <2>2
  <2>4. d[Len(c) + 1] = e /\ \A i \in 1..Len(c) : d[i] = c[i]
    BY <2>1, <2>2
  <2>5. \A i \in 1..Len(c) : c[i].key # e.key
    BY <1>2, <2>2 DEF Has
  <2>6. \A i, j \in DOMAIN d : d[i].key = d[j].key => i = j
    BY <2>2, <2>3, <2>4, <2>5 DEF CacheTyped
  <2>7. CacheTyped(d)
    BY <1>2, <2>2, <2>3, <2>6, BrowserAssumption DEF CacheTyped
  <2> QED BY <2>2, <2>3, <2>4, <2>7
<1>3. CASE ~Has(c, e.key) /\ ~(Len(c) < CacheSize)
  <2>1. d = [i \in 1..Len(c) |-> IF i = Len(c) THEN e ELSE c[i + 1]]
    BY <1>3 DEF Store
  <2>2. PICK n \in Nat : Len(c) = n
    BY DEF CacheTyped
  <2>3. c \in [1..n -> Entry] /\ DOMAIN c = 1..n
    BY <2>2 DEF CacheTyped
  <2>4. \A i \in 1..n : i # n => i + 1 \in 1..n
    OBVIOUS
  <2>5. \A i \in 1..n : d[i] = IF i = n THEN e ELSE c[i + 1]
    BY <2>1, <2>2
  <2>6. d \in [1..n -> Entry]
    BY <2>1, <2>2, <2>3, <2>4
  <2>7. d \in Seq(Entry) /\ Len(d) = n /\ DOMAIN d = 1..n
    BY <2>6
  <2>8. \A i \in 1..n : c[i].key # e.key
    BY <1>3, <2>3 DEF Has
  <2>9. \A i, j \in 1..n : c[i].key = c[j].key => i = j
    BY <2>3 DEF CacheTyped
  <2>10. \A i, j \in 1..n : d[i].key = d[j].key => i = j
    <3>1. SUFFICES ASSUME NEW i \in 1..n, NEW j \in 1..n, d[i].key = d[j].key
                   PROVE  i = j
      OBVIOUS
    <3>2. CASE i = n \/ j = n
      BY <2>4, <2>5, <2>8, <3>1, <3>2
    <3>3. CASE i # n /\ j # n
      <4>1. i + 1 = j + 1
        BY <2>4, <2>5, <2>9, <3>1, <3>3
      <4> QED BY <4>1
    <3> QED BY <3>2, <3>3
  <2>11. CacheTyped(d)
    BY <2>2, <2>7, <2>10 DEF CacheTyped
  <2> QED BY <2>3, <2>4, <2>5, <2>7, <2>11
<1> QED BY <1>1, <1>2, <1>3

\* A position that a cached key has.
LEMMA PositionFacts ==
  ASSUME NEW c, CacheTyped(c), NEW k, Has(c, k)
  PROVE  /\ Position(c, k) \in DOMAIN c
         /\ c[Position(c, k)].key = k
         /\ Cached(c, k) = c[Position(c, k)].content
         /\ Cached(c, k) \in Content
<1>1. Position(c, k) \in DOMAIN c /\ c[Position(c, k)].key = k
  BY DEF Has, Position
<1>2. c[Position(c, k)] \in Entry
  BY <1>1 DEF CacheTyped
<1> QED BY <1>1, <1>2 DEF Cached, Entry

\* Deleting the expired entry of a key deletes that and nothing else.
LEMMA DroppedFacts ==
  ASSUME NEW c, CacheTyped(c), NEW k
  PROVE  CacheTyped(Dropped(c, k)) /\ PartOf(Dropped(c, k), c)
<1>0. c \in Seq(Entry) /\ Len(c) \in Nat /\ DOMAIN c = 1..Len(c)
  BY DEF CacheTyped
<1>1. CASE ~Has(c, k)
  BY <1>1 DEF Dropped, PartOf
<1>2. CASE Has(c, k)
  <2> DEFINE p == Position(c, k)
             d == Dropped(c, k)
             at(i) == IF i < p THEN i ELSE i + 1
  <2>1. p \in 1..Len(c)
    BY <1>0, <1>2, PositionFacts
  <2>2. d = [i \in 1..(Len(c) - 1) |-> IF i < p THEN c[i] ELSE c[i + 1]]
    BY <1>2 DEF Dropped
  <2>3. \A i \in 1..(Len(c) - 1) : at(i) \in 1..Len(c) /\ d[i] = c[at(i)]
    BY <1>0, <2>1, <2>2
  <2>4. d \in Seq(Entry) /\ Len(d) = Len(c) - 1 /\ DOMAIN d = 1..(Len(c) - 1)
    <3>1. \A i \in 1..(Len(c) - 1) : d[i] \in Entry
      BY <1>0, <2>3
    <3>2. Len(c) - 1 \in Nat
      BY <1>0, <2>1
    <3> QED BY <2>2, <3>1, <3>2
  <2>5. \A i, j \in 1..(Len(c) - 1) : at(i) = at(j) => i = j
    BY <1>0, <2>1
  <2>6. \A i, j \in DOMAIN d : d[i].key = d[j].key => i = j
    <3>1. \A i, j \in 1..(Len(c) - 1) :
            c[at(i)].key = c[at(j)].key => at(i) = at(j)
      BY <1>0, <2>3 DEF CacheTyped
    <3> HIDE DEF at, d
    <3> QED BY <2>3, <2>4, <2>5, <3>1
  <2>7. CacheTyped(d)
    BY <1>0, <2>4, <2>6, BrowserAssumption DEF CacheTyped
  <2> QED BY <1>0, <2>3, <2>4, <2>7 DEF PartOf
<1> QED BY <1>1, <1>2

\* What a lookup leaves of the cache.
LEMMA LookedUpFacts ==
  ASSUME CacheTyped(cache), NEW k, NEW c \in LookedUp(k)
  PROVE  CacheTyped(c) /\ PartOf(c, cache)
<1>1. CASE c = cache
  BY <1>1 DEF PartOf
<1>2. CASE c = Dropped(cache, k)
  BY <1>2, DroppedFacts
<1> QED BY <1>1, <1>2 DEF LookedUp

------------------------------------------------------------------------------
(* Types *)

\* What TypeOK says of the requests.
FetchTyped(f) == f \in [Fetches -> [page : Pages \cup {None}, epoch : 0..MaxEpoch,
                                    late : BOOLEAN, waiting : Seq(Kinds)]]

\* Rendering keeps the types of what it sets.
LEMMA ShowTyped ==
  ASSUME TypeOK, NEW c, CacheTyped(c), NEW x \in Content, NEW addr \in Pages,
         Show(c, x, addr)
  PROVE  /\ location' \in Pages /\ shown' \in Content
         /\ CacheTyped(cache') /\ entries' \subseteq Pages
<1>1. [key |-> addr, content |-> x] \in Entry
  BY DEF Entry
<1>2. CacheTyped(Store(c, [key |-> addr, content |-> x]))
  BY <1>1, StoreFacts
<1> QED BY <1>2 DEF Show, TypeOK

\* A new request takes a slot that was idle and is entered for its page.
LEMMA RequestFacts ==
  ASSUME TypeOK, NEW p \in Pages, NEW w \in Seq(Kinds), Request(p, w)
  PROVE  \E s \in Fetches \ InFlight :
           /\ fetch' = [fetch EXCEPT ![s] = [page |-> p, epoch |-> epoch,
                                             late |-> FALSE, waiting |-> w]]
           /\ prefetch' = [prefetch EXCEPT ![p] = s]
<1>1. Fetches \ InFlight # {}
  BY DEF Request, InFlight
<1>2. (CHOOSE t \in Fetches \ InFlight : TRUE) \in Fetches \ InFlight
  BY <1>1
<1> QED BY <1>2 DEF Request

\* A new request keeps the types of the requests.
LEMMA RequestTyped ==
  ASSUME TypeOK, NEW p \in Pages, NEW w \in Seq(Kinds), Request(p, w)
  PROVE  FetchTyped(fetch') /\ prefetch' \in [Pages -> Fetches \cup {None}]
<1>1. PICK s \in Fetches \ InFlight :
        /\ fetch' = [fetch EXCEPT ![s] = [page |-> p, epoch |-> epoch,
                                          late |-> FALSE, waiting |-> w]]
        /\ prefetch' = [prefetch EXCEPT ![p] = s]
  BY RequestFacts
<1> QED BY <1>1 DEF TypeOK, FetchTyped

\* A navigation keeps the types of what it sets.
LEMMA NavigateTyped ==
  ASSUME TypeOK, NEW p \in Pages, NEW kind \in Kinds, NEW addr \in Pages,
         Navigate(p, kind, addr)
  PROVE  /\ location' \in Pages /\ shown' \in Content
         /\ CacheTyped(cache') /\ entries' \subseteq Pages
         /\ FetchTyped(fetch') /\ prefetch' \in [Pages -> Fetches \cup {None}]
         /\ crossed' \in BOOLEAN
<1>0. CacheTyped(cache) /\ FetchTyped(fetch)
  BY DEF TypeOK, CacheTyped, FetchTyped
<1>1. PICK c \in LookedUp(p) :
        \/ /\ Has(c, p)
           /\ Show(c, Cached(c, p), p)
           /\ UNCHANGED <<fetch, prefetch, crossed>>
        \/ /\ ~Has(c, p)
           /\ IF prefetch[p] # None THEN Await(prefetch[p], kind)
                                    ELSE Request(p, <<kind>>)
           /\ location' = addr
           /\ cache' = c
           /\ UNCHANGED <<shown, entries, crossed>>
  BY DEF Navigate
<1>2. CacheTyped(c)
  BY <1>0, LookedUpFacts
<1>3. CASE /\ Has(c, p)
           /\ Show(c, Cached(c, p), p)
           /\ UNCHANGED <<fetch, prefetch, crossed>>
  <2>1. Cached(c, p) \in Content
    BY <1>2, <1>3, PositionFacts
  <2> QED BY <1>0, <1>2, <1>3, <2>1, ShowTyped DEF TypeOK
<1>4. CASE /\ IF prefetch[p] # None THEN Await(prefetch[p], kind)
                                    ELSE Request(p, <<kind>>)
           /\ location' = addr
           /\ cache' = c
           /\ UNCHANGED <<shown, entries, crossed>>
  <2>1. CASE prefetch[p] # None
    <3>1. prefetch[p] \in Fetches
      BY <2>1 DEF TypeOK
    <3>2. fetch' = [fetch EXCEPT ![prefetch[p]].waiting = Append(@, kind)]
      BY <1>4, <2>1 DEF Await
    <3>3. Append(fetch[prefetch[p]].waiting, kind) \in Seq(Kinds)
      BY <3>1 DEF TypeOK
    <3>4. FetchTyped(fetch')
      BY <1>0, <3>1, <3>2, <3>3 DEF FetchTyped
    <3> QED BY <1>2, <1>4, <2>1, <3>4 DEF Await, TypeOK
  <2>2. CASE prefetch[p] = None
    <3>1. <<kind>> \in Seq(Kinds)
      OBVIOUS
    <3>2. FetchTyped(fetch') /\ prefetch' \in [Pages -> Fetches \cup {None}]
      BY <1>4, <2>2, <3>1, RequestTyped
    <3> QED BY <1>2, <1>4, <3>2 DEF TypeOK
  <2> QED BY <2>1, <2>2
<1> QED BY <1>1, <1>3, <1>4

\* A freshly loaded document is well typed.
LEMMA LoadTyped ==
  ASSUME TypeOK, NEW p \in Pages, Load(p)
  PROVE  TypeOK'
<1>1. FreshContent(p) \in Content
  BY DEF FreshContent, Content, TypeOK
<1>2. [key |-> p, content |-> FreshContent(p)] \in Entry
  BY <1>1 DEF Entry
<1>3. CacheTyped(cache')
  BY <1>2, BrowserAssumption DEF Load, CacheTyped
<1>4. FetchTyped(fetch')
  BY BrowserAssumption DEF Load, FetchTyped, Idle
<1>5. due' \in Seq([kind : Kinds, content : Content])
  BY DEF Load
<1> QED BY <1>1, <1>3, <1>4, <1>5 DEF Load, TypeOK, CacheTyped, FetchTyped

\* The end of a request keeps the types of the requests.
LEMMA EndedTyped ==
  ASSUME TypeOK, NEW s \in InFlight, Ended(s)
  PROVE  /\ FetchTyped(fetch') /\ prefetch' \in [Pages -> Fetches \cup {None}]
         /\ s \in Fetches /\ fetch[s].page \in Pages
         /\ Answer(s) \in Content /\ fetch[s].waiting \in Seq(Kinds)
<1>1. s \in Fetches /\ fetch[s].page \in Pages
  BY DEF InFlight, TypeOK
<1>2. Idle \in [page : Pages \cup {None}, epoch : 0..MaxEpoch,
                late : BOOLEAN, waiting : Seq(Kinds)]
  BY BrowserAssumption DEF Idle
<1>3. FetchTyped(fetch')
  BY <1>1, <1>2 DEF Ended, TypeOK, FetchTyped
<1>4. prefetch' \in [Pages -> Fetches \cup {None}]
  BY <1>1 DEF Ended, TypeOK
<1>5. Answer(s) \in Content /\ fetch[s].waiting \in Seq(Kinds)
  BY <1>1 DEF Answer, Content, TypeOK
<1> QED BY <1>1, <1>3, <1>4, <1>5

\* An announced change keeps the types of what it sets.
LEMMA InvalidateTyped ==
  ASSUME TypeOK, Invalidate
  PROVE  /\ CacheTyped(cache') /\ FetchTyped(fetch') /\ epoch' \in 0..MaxEpoch
<1>1. epoch' \in 0..MaxEpoch
  BY BrowserAssumption DEF Invalidate, TypeOK
<1>2. CacheTyped(cache')
  BY BrowserAssumption DEF Invalidate, CacheTyped
<1>3. ASSUME NEW r \in [page : Pages \cup {None}, epoch : 0..MaxEpoch,
                        late : BOOLEAN, waiting : Seq(Kinds)],
             NEW b \in BOOLEAN
      PROVE  [r EXCEPT !.late = b]
               \in [page : Pages \cup {None}, epoch : 0..MaxEpoch,
                    late : BOOLEAN, waiting : Seq(Kinds)]
  OBVIOUS
<1>4. \A s \in Fetches : (fetch[s].page # None) \in BOOLEAN
  OBVIOUS
<1>5. FetchTyped(fetch')
  BY <1>3, <1>4, Zenon DEF Invalidate, TypeOK, FetchTyped
<1> QED BY <1>1, <1>2, <1>5

\* Every variable of the page has its type, and the cache stays a map within
\* its bound.
THEOREM TypeCorrect == Spec => []TypeOK
<1>1. Init => TypeOK
  <2> SUFFICES ASSUME Init PROVE TypeOK
    OBVIOUS
  <2>1. shown \in Content
    BY BrowserAssumption DEF Init, FreshContent, Content
  <2>2. [key |-> location, content |-> shown] \in Entry
    BY <2>1 DEF Init, Entry
  <2>3. CacheTyped(cache)
    BY <2>2, BrowserAssumption DEF Init, CacheTyped
  <2>4. FetchTyped(fetch)
    BY BrowserAssumption DEF Init, FetchTyped, Idle
  <2>5. due \in Seq([kind : Kinds, content : Content])
    BY DEF Init
  <2>6. epoch \in 0..MaxEpoch /\ timers \in Nat
    BY BrowserAssumption DEF Init
  <2>7. /\ location \in Pages /\ entries \subseteq Pages
        /\ prefetch \in [Pages -> Fetches \cup {None}]
        /\ opening \in Pages \cup {None}
        /\ loggingOut \in BOOLEAN /\ crossed \in BOOLEAN
    BY Zenon DEF Init
  <2> QED BY <2>1, <2>3, <2>4, <2>5, <2>6, <2>7
          DEF TypeOK, CacheTyped, FetchTyped
<1>2. TypeOK /\ [Next]_vars => TypeOK'
  <2> SUFFICES ASSUME TypeOK, [Next]_vars PROVE TypeOK'
    OBVIOUS
  <2> USE DEF TypeOK, CacheTyped, FetchTyped
  <2>0. {"link", "keep", "open"} = Kinds
    BY DEF Kinds
  <2>1. ASSUME NEW p \in Pages, Click(p) PROVE TypeOK'
    BY <2>0, <2>1, NavigateTyped DEF Click
  <2>2. ASSUME NEW p \in Pages, Popstate(p) PROVE TypeOK'
    BY <2>0, <2>2, NavigateTyped DEF Popstate
  <2>3. ASSUME NEW p \in Pages, Prefetch(p) PROVE TypeOK'
    <3>1. PICK c \in LookedUp(p) :
            /\ ~Has(c, p)
            /\ cache' = c
            /\ IF prefetch[p] = None THEN Request(p, <<>>)
                                     ELSE UNCHANGED <<fetch, prefetch>>
      BY <2>3 DEF Prefetch
    <3>2. CacheTyped(c)
      BY LookedUpFacts
    <3>3. FetchTyped(fetch') /\ prefetch' \in [Pages -> Fetches \cup {None}]
      <4>1. <<>> \in Seq(Kinds)
        OBVIOUS
      <4>2. CASE prefetch[p] = None
        BY <3>1, <4>1, <4>2, RequestTyped
      <4>3. CASE prefetch[p] # None
        BY <3>1, <4>3
      <4> QED BY <4>2, <4>3
    <3>4. UNCHANGED <<location, shown, due, entries, timers, opening,
                      loggingOut, epoch, crossed>>
      BY <2>3 DEF Prefetch
    <3> QED BY <3>1, <3>2, <3>3, <3>4
  <2>4. ASSUME NEW p \in Pages, Added(p) PROVE TypeOK'
    BY <2>4, InvalidateTyped DEF Added, Invalidate
  <2>5. ASSUME NEW p \in Pages, Reload(p) PROVE TypeOK'
    BY <2>5, LoadTyped DEF Reload
  <2>6. ASSUME NEW s \in Fetches, FetchAnswers(s) PROVE TypeOK'
    <3>1. s \in InFlight /\ Ended(s)
      BY <2>6 DEF FetchAnswers
    <3>2. /\ FetchTyped(fetch') /\ prefetch' \in [Pages -> Fetches \cup {None}]
          /\ fetch[s].page \in Pages /\ Answer(s) \in Content
          /\ fetch[s].waiting \in Seq(Kinds)
      BY <3>1, EndedTyped
    <3>3. [key |-> fetch[s].page, content |-> Answer(s)] \in Entry
      BY <3>2 DEF Entry
    <3>4. CacheTyped(cache')
      BY <2>6, <3>3, StoreFacts DEF FetchAnswers
    <3>5. due' \in Seq([kind : Kinds, content : Content])
      <4>1. PICK n \in Nat : Len(fetch[s].waiting) = n
        BY <3>2
      <4>2. \A i \in 1..n : fetch[s].waiting[i] \in Kinds
        BY <3>2, <4>1
      <4>3. due' = [i \in 1..n |-> [kind |-> fetch[s].waiting[i],
                                    content |-> Answer(s)]]
        BY <2>6, <4>1 DEF FetchAnswers
      <4>4. due' \in [1..n -> [kind : Kinds, content : Content]]
        BY <3>2, <4>2, <4>3
      <4> QED BY <4>4, FunctionIsSeq
    <3>6. UNCHANGED <<location, shown, entries, timers, opening, loggingOut,
                      epoch, crossed>>
      BY <2>6 DEF FetchAnswers
    <3> QED BY <3>2, <3>4, <3>5, <3>6
  <2>7. ASSUME NEW s \in Fetches, FetchFails(s) PROVE TypeOK'
    <3>1. s \in InFlight /\ fetch[s].page \in Pages
      BY <2>7 DEF FetchFails, InFlight
    <3>2. CASE Load(fetch[s].page) \/ Load(location)
      BY <3>1, <3>2, LoadTyped
    <3>3. CASE /\ Ended(s)
               /\ UNCHANGED <<location, shown, cache, due, entries, timers,
                              opening, loggingOut, epoch, crossed>>
      BY <3>1, <3>3, EndedTyped
    <3> QED BY <2>7, <3>2, <3>3 DEF FetchFails
  <2>8. ASSUME NEW s \in Fetches, FetchIsBlank(s) PROVE TypeOK'
    <3>1. s \in InFlight /\ fetch[s].page \in Pages
      BY <2>8 DEF FetchIsBlank, InFlight
    <3>2. CASE Load(fetch[s].page)
      BY <3>1, <3>2, LoadTyped
    <3>3. CASE /\ Ended(s)
               /\ UNCHANGED <<location, shown, cache, due, entries, timers,
                              opening, loggingOut, epoch, crossed>>
      BY <3>1, <3>3, EndedTyped
    <3> QED BY <2>8, <3>2, <3>3 DEF FetchIsBlank
  <2>9. ASSUME Refresh PROVE TypeOK'
    <3>1. Navigate(location, "keep", location) /\ timers' \in Nat
      BY <2>9 DEF Refresh
    <3>2. UNCHANGED <<due, opening, loggingOut, epoch>>
      BY <2>9 DEF Refresh
    <3> QED BY <2>0, <3>1, <3>2, NavigateTyped
  <2>10. ASSUME OpenAdded PROVE TypeOK'
    BY <2>0, <2>10, NavigateTyped DEF OpenAdded
  <2>11. ASSUME RunDue PROVE TypeOK'
    <3> DEFINE d == Head(due)
               addr == IF d.kind = "keep" THEN location ELSE d.content.page
    <3>1. /\ d \in [kind : Kinds, content : Content]
          /\ Tail(due) \in Seq([kind : Kinds, content : Content])
      <4>1. due \in Seq([kind : Kinds, content : Content]) /\ due # <<>>
        BY <2>11 DEF RunDue
      <4> QED BY <4>1, HeadAndTail
    <3>2. addr \in Pages /\ d.content \in Content
      BY <3>1 DEF Content
    <3>3. Show(cache, d.content, addr)
      BY <2>11 DEF RunDue
    <3>4. /\ location' \in Pages /\ shown' \in Content
          /\ CacheTyped(cache') /\ entries' \subseteq Pages
      <4> HIDE DEF addr, d
      <4> QED BY <3>2, <3>3, ShowTyped
    <3>5. crossed' \in BOOLEAN
      BY <2>11, Zenon DEF RunDue
    <3> QED BY <2>11, <3>1, <3>4, <3>5 DEF RunDue
  <2>12. ASSUME Changed PROVE TypeOK'
    BY <2>12, InvalidateTyped DEF Changed, Invalidate
  <2>13. ASSUME ChangedHere PROVE TypeOK'
    BY <2>13, InvalidateTyped DEF ChangedHere, Invalidate
  <2>14. ASSUME Logout PROVE TypeOK'
    BY <2>14, BrowserAssumption DEF Logout
  <2>15. CASE UNCHANGED vars
    BY <2>15 DEF vars
  <2> QED BY <2>1, <2>2, <2>3, <2>4, <2>5, <2>6, <2>7, <2>8, <2>9, <2>10,
             <2>11, <2>12, <2>13, <2>14, <2>15 DEF Next
<1> QED BY <1>1, <1>2, PTL DEF Spec

------------------------------------------------------------------------------
(* What a navigation does *)

\* Page p is shown from the cache.
ShownFromCache(p) ==
  \E j \in DOMAIN cache :
    /\ cache[j].key = p
    /\ location' = p /\ shown' = cache[j].content
    /\ \A i \in DOMAIN cache' :
         \/ cache'[i] = [key |-> p, content |-> cache[j].content]
         \/ \E k \in DOMAIN cache : cache'[i] = cache[k]
    /\ UNCHANGED <<fetch, prefetch, crossed>>

\* A request for p is joined.
Joined(p, kind) ==
  /\ prefetch[p] \in Fetches /\ prefetch[p] # None
  /\ fetch' = [fetch EXCEPT ![prefetch[p]].waiting = Append(@, kind)]
  /\ UNCHANGED prefetch

\* A request for p is sent.
Sent(p, w) ==
  /\ prefetch[p] = None
  /\ \E s \in Fetches \ InFlight :
       /\ fetch' = [fetch EXCEPT ![s] = [page |-> p, epoch |-> epoch,
                                         late |-> FALSE, waiting |-> w]]
       /\ prefetch' = [prefetch EXCEPT ![p] = s]

\* A navigation shows a cached page, or waits for a request.
LEMMA NavigateCases ==
  ASSUME TypeOK, NEW p \in Pages, NEW kind \in Kinds, NEW addr \in Pages,
         Navigate(p, kind, addr)
  PROVE  \/ ShownFromCache(p)
         \/ /\ Joined(p, kind) \/ Sent(p, <<kind>>)
            /\ PartOf(cache', cache)
            /\ location' = addr
            /\ UNCHANGED <<shown, crossed>>
<1>0. CacheTyped(cache)
  BY DEF TypeOK, CacheTyped
<1>1. PICK c \in LookedUp(p) :
        \/ /\ Has(c, p)
           /\ Show(c, Cached(c, p), p)
           /\ UNCHANGED <<fetch, prefetch, crossed>>
        \/ /\ ~Has(c, p)
           /\ IF prefetch[p] # None THEN Await(prefetch[p], kind)
                                    ELSE Request(p, <<kind>>)
           /\ location' = addr
           /\ cache' = c
           /\ UNCHANGED <<shown, entries, crossed>>
  BY DEF Navigate
<1>2. CacheTyped(c) /\ PartOf(c, cache)
  BY <1>0, LookedUpFacts
<1>3. CASE /\ Has(c, p)
           /\ Show(c, Cached(c, p), p)
           /\ UNCHANGED <<fetch, prefetch, crossed>>
  <2> DEFINE e == [key |-> p, content |-> Cached(c, p)]
  <2>1. PICK j \in DOMAIN cache :
          cache[j].key = p /\ cache[j].content = Cached(c, p)
    BY <1>2, <1>3, PositionFacts DEF PartOf
  <2>2. Cached(c, p) \in Content
    BY <1>2, <1>3, PositionFacts
  <2>3. e \in Entry
    BY <2>2 DEF Entry
  <2>4. /\ cache' = Store(c, e) /\ location' = p /\ shown' = Cached(c, p)
    BY <1>3 DEF Show
  <2>5. \A i \in DOMAIN cache' :
          cache'[i] = e \/ \E k \in DOMAIN c : cache'[i] = c[k]
    <3> HIDE DEF e
    <3> QED BY <1>2, <2>3, <2>4, StoreFacts
  <2>6. \A i \in DOMAIN cache' :
          cache'[i] = e \/ \E k \in DOMAIN cache : cache'[i] = cache[k]
    BY <1>2, <2>5 DEF PartOf
  <2> QED BY <1>3, <2>1, <2>4, <2>6 DEF ShownFromCache
<1>4. CASE /\ IF prefetch[p] # None THEN Await(prefetch[p], kind)
                                    ELSE Request(p, <<kind>>)
           /\ location' = addr
           /\ cache' = c
           /\ UNCHANGED <<shown, entries, crossed>>
  <2>1. CASE prefetch[p] # None
    BY <1>2, <1>4, <2>1 DEF Await, Joined, TypeOK
  <2>2. CASE prefetch[p] = None
    <3>1. <<kind>> \in Seq(Kinds) /\ Request(p, <<kind>>)
      BY <1>4, <2>2
    <3>2. Sent(p, <<kind>>)
      BY <2>2, <3>1, RequestFacts DEF Sent
    <3> QED BY <1>2, <1>4, <3>2
  <2> QED BY <2>1, <2>2
<1> QED BY <1>1, <1>3, <1>4

\* A prefetch either leaves the requests alone or sends one nobody awaits.
LEMMA PrefetchCases ==
  ASSUME TypeOK, NEW p \in Pages, Prefetch(p)
  PROVE  /\ Sent(p, <<>>) \/ UNCHANGED <<fetch, prefetch>>
         /\ PartOf(cache', cache)
<1>1. PICK c \in LookedUp(p) :
        /\ ~Has(c, p)
        /\ cache' = c
        /\ IF prefetch[p] = None THEN Request(p, <<>>)
                                 ELSE UNCHANGED <<fetch, prefetch>>
  BY DEF Prefetch
<1>2. CacheTyped(cache)
  BY DEF TypeOK, CacheTyped
<1>3. PartOf(cache', cache)
  BY <1>1, <1>2, LookedUpFacts
<1>4. CASE prefetch[p] = None
  <2>1. <<>> \in Seq(Kinds)
    OBVIOUS
  <2> QED BY <1>1, <1>3, <1>4, <2>1, RequestFacts DEF Sent
<1>5. CASE prefetch[p] # None
  BY <1>1, <1>3, <1>5
<1> QED BY <1>4, <1>5

\* A failed or blank request is dropped, or the document is loaded.
LEMMA FailureCases ==
  ASSUME TypeOK, NEW s \in Fetches, FetchFails(s) \/ FetchIsBlank(s)
  PROVE  /\ s \in InFlight
         /\ \/ \E p \in Pages : Load(p)
            \/ /\ Ended(s)
               /\ \A i \in DOMAIN fetch[s].waiting : fetch[s].waiting[i] # "keep"
               /\ UNCHANGED <<location, shown, cache, due, loggingOut, epoch,
                              crossed>>
<1>1. s \in InFlight /\ fetch[s].page \in Pages /\ location \in Pages
  BY DEF FetchFails, FetchIsBlank, InFlight, TypeOK
<1>2. DOMAIN fetch[s].waiting = 1..Len(fetch[s].waiting)
  BY DEF TypeOK
<1>3. CASE FetchFails(s)
  BY <1>1, <1>2, <1>3 DEF FetchFails
<1>4. CASE FetchIsBlank(s)
  BY <1>1, <1>2, <1>4 DEF FetchIsBlank
<1> QED BY <1>3, <1>4

------------------------------------------------------------------------------
(* pagePrefetches *)

\* Unless a logout cleared the map, every request is entered under its page.
Registry ==
  /\ PrefetchesInFlight
  /\ ~loggingOut => \A s \in InFlight : prefetch[fetch[s].page] = s

\* Joining a request leaves the registry as it is.
LEMMA JoinedRegistry ==
  ASSUME TypeOK, Registry, NEW p \in Pages, NEW kind \in Kinds,
         Joined(p, kind), UNCHANGED loggingOut
  PROVE  Registry'
<1>1. \A s \in Fetches : fetch'[s].page = fetch[s].page
  BY DEF Joined, TypeOK
<1>2. prefetch' = prefetch
  BY DEF Joined
<1>3. InFlight' = InFlight
  BY <1>1 DEF InFlight
<1>4. \A q \in Pages : prefetch[q] # None => prefetch[q] \in Fetches
  BY DEF TypeOK
<1>5. InFlight \subseteq Fetches
  BY DEF InFlight
<1> QED BY <1>1, <1>2, <1>3, <1>4, <1>5 DEF Registry, PrefetchesInFlight

\* A request is sent only for a page that has none, and takes an idle slot.
LEMMA SentRegistry ==
  ASSUME TypeOK, Registry, NEW p \in Pages, NEW w, Sent(p, w),
         UNCHANGED loggingOut
  PROVE  Registry'
<1>1. PICK s \in Fetches \ InFlight :
        /\ fetch' = [fetch EXCEPT ![s] = [page |-> p, epoch |-> epoch,
                                          late |-> FALSE, waiting |-> w]]
        /\ prefetch' = [prefetch EXCEPT ![p] = s]
  BY DEF Sent
<1>2. /\ \A t \in Fetches : fetch'[t].page = IF t = s THEN p ELSE fetch[t].page
      /\ \A q \in Pages : prefetch'[q] = IF q = p THEN s ELSE prefetch[q]
  BY <1>1 DEF TypeOK
<1>3. fetch[s].page = None
  BY <1>1 DEF InFlight
<1>4. PrefetchesInFlight'
  <2>1. SUFFICES ASSUME NEW q \in Pages, prefetch'[q] # None
                 PROVE  fetch'[prefetch'[q]].page = q
    BY DEF PrefetchesInFlight
  <2>2. CASE q = p
    BY <1>1, <1>2, <2>2
  <2>3. CASE q # p
    <3>1. prefetch[q] \in Fetches /\ fetch[prefetch[q]].page = q
      BY <1>2, <2>1, <2>3 DEF TypeOK, Registry, PrefetchesInFlight
    <3>2. prefetch[q] # s
      BY <1>3, <3>1, BrowserAssumption
    <3> QED BY <1>2, <2>3, <3>1, <3>2
  <2> QED BY <2>2, <2>3
<1>5. ASSUME ~loggingOut', NEW t \in InFlight'
      PROVE  prefetch'[fetch'[t].page] = t
  <2>1. t \in Fetches /\ fetch'[t].page # None
    BY <1>5 DEF InFlight
  <2>2. CASE t = s
    BY <1>1, <1>2, <2>2
  <2>3. CASE t # s
    <3>1. t \in InFlight /\ fetch'[t].page = fetch[t].page
      BY <1>2, <2>1, <2>3 DEF InFlight
    <3>2. prefetch[fetch[t].page] = t /\ fetch[t].page \in Pages
      BY <1>5, <2>1, <3>1 DEF Registry, TypeOK
    <3>3. fetch[t].page # p
      BY <2>1, <3>2, BrowserAssumption DEF Sent
    <3> QED BY <1>2, <3>1, <3>2, <3>3
  <2> QED BY <2>2, <2>3
<1> QED BY <1>4, <1>5 DEF Registry

\* The end of a request removes the entry of its page, which was its own
\* unless a logout came between.
LEMMA EndedRegistry ==
  ASSUME TypeOK, Registry, NEW s \in InFlight, Ended(s), UNCHANGED loggingOut
  PROVE  Registry'
<1> DEFINE p == fetch[s].page
<1>1. s \in Fetches /\ p \in Pages
  BY DEF InFlight, TypeOK
<1>2. /\ \A t \in Fetches : fetch'[t].page = IF t = s THEN None ELSE fetch[t].page
      /\ \A q \in Pages : prefetch'[q] = IF q = p THEN None ELSE prefetch[q]
  BY <1>1 DEF Ended, Idle, TypeOK
<1>3. PrefetchesInFlight'
  <2>1. SUFFICES ASSUME NEW q \in Pages, prefetch'[q] # None
                 PROVE  fetch'[prefetch'[q]].page = q
    BY DEF PrefetchesInFlight
  <2>2. q # p /\ prefetch'[q] = prefetch[q]
    BY <1>2, <2>1
  <2>3. prefetch[q] \in Fetches /\ fetch[prefetch[q]].page = q
    BY <2>1, <2>2 DEF TypeOK, Registry, PrefetchesInFlight
  <2> QED BY <1>2, <2>2, <2>3
<1>4. ASSUME ~loggingOut', NEW t \in InFlight'
      PROVE  prefetch'[fetch'[t].page] = t
  <2>1. t \in Fetches /\ fetch'[t].page # None
    BY <1>4 DEF InFlight
  <2>2. t # s /\ t \in InFlight /\ fetch'[t].page = fetch[t].page
    BY <1>2, <2>1 DEF InFlight
  <2>3. prefetch[fetch[t].page] = t /\ prefetch[p] = s
    BY <1>4, <2>2 DEF Registry
  <2>4. fetch[t].page # p /\ fetch[t].page \in Pages
    BY <2>1, <2>2, <2>3 DEF TypeOK
  <2> QED BY <1>2, <2>2, <2>3, <2>4
<1> QED BY <1>3, <1>4 DEF Registry

\* A loaded document has no request.
LEMMA LoadRegistry ==
  ASSUME NEW p \in Pages, Load(p)
  PROVE  Registry'
<1>1. \A s \in Fetches : fetch'[s].page = None
  BY DEF Load, Idle
<1>2. \A q \in Pages : prefetch'[q] = None
  BY DEF Load
<1> QED BY <1>1, <1>2 DEF Registry, PrefetchesInFlight, InFlight

\* A navigation keeps the registry, whichever way it goes.
LEMMA NavigateRegistry ==
  ASSUME TypeOK, Registry, NEW p \in Pages, NEW kind \in Kinds,
         NEW addr \in Pages, Navigate(p, kind, addr), UNCHANGED loggingOut
  PROVE  Registry'
<1>1. CASE ShownFromCache(p)
  <2>1. UNCHANGED <<fetch, prefetch>>
    BY <1>1 DEF ShownFromCache
  <2> QED BY <2>1 DEF Registry, PrefetchesInFlight, InFlight
<1>2. CASE Joined(p, kind)
  BY <1>2, JoinedRegistry
<1>3. CASE Sent(p, <<kind>>)
  BY <1>3, SentRegistry
<1> QED BY <1>1, <1>2, <1>3, NavigateCases

\* An announced change marks the requests and moves none.
LEMMA InvalidateRegistry ==
  ASSUME TypeOK, Registry, Invalidate
  PROVE  Registry'
<1>1. \A s \in Fetches : fetch'[s].page = fetch[s].page
  BY DEF Invalidate, TypeOK
<1>2. UNCHANGED <<prefetch, loggingOut>>
  BY DEF Invalidate
<1>3. InFlight' = InFlight /\ InFlight \subseteq Fetches
  BY <1>1 DEF InFlight
<1>4. \A q \in Pages : prefetch[q] # None => prefetch[q] \in Fetches
  BY DEF TypeOK
<1> QED BY <1>1, <1>2, <1>3, <1>4 DEF Registry, PrefetchesInFlight

\* The registry of requests is right at every moment.
LEMMA RegistryHolds == Spec => []Registry
<1>1. Init => Registry
  <2> SUFFICES ASSUME Init PROVE Registry
    OBVIOUS
  <2>1. \A s \in Fetches : fetch[s].page = None
    BY DEF Init, Idle
  <2>2. \A q \in Pages : prefetch[q] = None
    BY DEF Init
  <2> QED BY <2>1, <2>2 DEF Registry, PrefetchesInFlight, InFlight
<1>2. TypeOK /\ Registry /\ [Next]_vars => Registry'
  <2> SUFFICES ASSUME TypeOK, Registry, [Next]_vars PROVE Registry'
    OBVIOUS
  <2>0. Kinds = {"link", "keep", "open"} /\ location \in Pages
        /\ (opening # None => opening \in Pages)
    BY DEF Kinds, TypeOK
  <2>1. ASSUME NEW p \in Pages, Click(p) PROVE Registry'
    BY <2>0, <2>1, NavigateRegistry DEF Click
  <2>2. ASSUME NEW p \in Pages, Popstate(p) PROVE Registry'
    BY <2>0, <2>2, NavigateRegistry DEF Popstate
  <2>3. ASSUME NEW p \in Pages, Prefetch(p) PROVE Registry'
    <3>1. UNCHANGED loggingOut
      BY <2>3 DEF Prefetch
    <3>2. CASE Sent(p, <<>>)
      BY <3>1, <3>2, SentRegistry
    <3>3. CASE UNCHANGED <<fetch, prefetch>>
      BY <3>1, <3>3 DEF Registry, PrefetchesInFlight, InFlight
    <3> QED BY <2>3, <3>2, <3>3, PrefetchCases
  <2>4. ASSUME Invalidate PROVE Registry'
    BY <2>4, InvalidateRegistry
  <2>5. ASSUME NEW p \in Pages, Reload(p) PROVE Registry'
    BY <2>5, LoadRegistry DEF Reload
  <2>6. ASSUME NEW s \in Fetches, FetchAnswers(s) PROVE Registry'
    BY <2>6, EndedRegistry DEF FetchAnswers
  <2>7. ASSUME NEW s \in Fetches, FetchFails(s) \/ FetchIsBlank(s)
        PROVE  Registry'
    BY <2>7, FailureCases, EndedRegistry, LoadRegistry
  <2>8. ASSUME Refresh PROVE Registry'
    BY <2>0, <2>8, NavigateRegistry DEF Refresh
  <2>9. ASSUME OpenAdded PROVE Registry'
    BY <2>0, <2>9, NavigateRegistry DEF OpenAdded
  <2>10. ASSUME UNCHANGED <<fetch, prefetch, loggingOut>> PROVE Registry'
    BY <2>10 DEF Registry, PrefetchesInFlight, InFlight
  <2>11. ASSUME Logout PROVE Registry'
    BY <2>11 DEF Logout, Registry, PrefetchesInFlight
  <2> QED BY <2>1, <2>2, <2>3, <2>4, <2>5, <2>6, <2>7, <2>8, <2>9, <2>10,
             <2>11 DEF Next, Added, Changed, ChangedHere, RunDue, vars
<1> QED BY <1>1, <1>2, TypeCorrect, PTL DEF Spec

\* pagePrefetches holds requests that are under way for their pages, so no
\* navigation joins one that ended.
THEOREM NoDeadPrefetch == Spec => []PrefetchesInFlight
<1>1. Registry => PrefetchesInFlight
  BY DEF Registry
<1> QED BY <1>1, RegistryHolds, PTL

\* Until a logout, no two requests for one page are under way.
THEOREM RequestsAreShared == Spec => []OneFetchPerPage
<1>1. Registry => OneFetchPerPage
  BY DEF Registry, OneFetchPerPage
<1> QED BY <1>1, RegistryHolds, PTL

------------------------------------------------------------------------------
(* The age of what the cache serves *)

Fresh(x) == x.epoch = epoch \/ x.late

\* Whatever can still reach the cache is of this epoch or marked late.
NothingOld ==
  /\ FreshCache
  /\ \A s \in InFlight : fetch[s].epoch = epoch \/ fetch[s].late
  /\ \A i \in DOMAIN due : Fresh(due[i].content)

\* A navigation adds nothing old.
LEMMA NavigateFresh ==
  ASSUME TypeOK, NothingOld, NEW p \in Pages, NEW kind \in Kinds,
         NEW addr \in Pages, Navigate(p, kind, addr), UNCHANGED <<due, epoch>>
  PROVE  NothingOld'
<1>1. \A i \in DOMAIN due' : Fresh(due[i].content)'
  BY DEF NothingOld, Fresh
<1>2. CASE ShownFromCache(p)
  <2>1. FreshCache'
    BY <1>2 DEF ShownFromCache, NothingOld, FreshCache
  <2> QED BY <1>1, <1>2, <2>1 DEF ShownFromCache, NothingOld, InFlight
<1>3. CASE PartOf(cache', cache) /\ (Joined(p, kind) \/ Sent(p, <<kind>>))
  <2>1. FreshCache'
    BY <1>3 DEF PartOf, NothingOld, FreshCache
  <2>2. CASE Joined(p, kind)
    <3>1. \A s \in Fetches : /\ fetch'[s].page = fetch[s].page
                             /\ fetch'[s].epoch = fetch[s].epoch
                             /\ fetch'[s].late = fetch[s].late
      BY <2>2 DEF Joined, TypeOK
    <3> QED BY <1>1, <2>1, <3>1 DEF NothingOld, InFlight
  <2>3. CASE Sent(p, <<kind>>)
    BY <1>1, <2>1, <2>3 DEF Sent, NothingOld, InFlight, TypeOK
  <2> QED BY <1>3, <2>2, <2>3
<1> QED BY <1>2, <1>3, NavigateCases

\* A loaded document holds one page, just read.
LEMMA LoadFresh ==
  ASSUME NEW p \in Pages, Load(p)
  PROVE  NothingOld'
<1>1. \A s \in Fetches : fetch'[s].page = None
  BY DEF Load, Idle
<1>2. FreshCache'
  BY DEF Load, FreshContent, FreshCache
<1> QED BY <1>1, <1>2 DEF Load, NothingOld, InFlight

\* The strengthening is inductive.
LEMMA NothingOldHolds == Spec => []NothingOld
<1>1. Init => NothingOld
  <2> SUFFICES ASSUME Init PROVE NothingOld
    OBVIOUS
  <2>1. \A s \in Fetches : fetch[s].page = None
    BY DEF Init, Idle
  <2>2. FreshCache
    BY DEF Init, FreshContent, FreshCache
  <2> QED BY <2>1, <2>2 DEF Init, NothingOld, InFlight
<1>2. TypeOK /\ NothingOld /\ [Next]_vars => NothingOld'
  <2> SUFFICES ASSUME TypeOK, NothingOld, [Next]_vars PROVE NothingOld'
    OBVIOUS
  <2>0. Kinds = {"link", "keep", "open"} /\ location \in Pages
        /\ (opening # None => opening \in Pages)
    BY DEF Kinds, TypeOK
  <2>01. CacheTyped(cache)
    BY DEF TypeOK, CacheTyped
  <2>1. ASSUME NEW p \in Pages, Click(p) PROVE NothingOld'
    BY <2>0, <2>1, NavigateFresh DEF Click
  <2>2. ASSUME NEW p \in Pages, Popstate(p) PROVE NothingOld'
    BY <2>0, <2>2, NavigateFresh DEF Popstate
  <2>3. ASSUME NEW p \in Pages, Prefetch(p) PROVE NothingOld'
    <3>1. UNCHANGED <<due, epoch>>
      BY <2>3 DEF Prefetch
    <3>2. PartOf(cache', cache)
      BY <2>3, PrefetchCases
    <3>3. FreshCache' /\ \A i \in DOMAIN due' : Fresh(due[i].content)'
      BY <3>1, <3>2 DEF PartOf, NothingOld, FreshCache, Fresh
    <3>4. CASE Sent(p, <<>>)
      BY <3>1, <3>3, <3>4 DEF Sent, NothingOld, InFlight, TypeOK
    <3>5. CASE UNCHANGED <<fetch, prefetch>>
      BY <3>1, <3>3, <3>5 DEF NothingOld, InFlight
    <3> QED BY <2>3, <3>4, <3>5, PrefetchCases
  <2>4. ASSUME Invalidate PROVE NothingOld'
    <3>1. \A s \in Fetches : /\ fetch'[s].page = fetch[s].page
                             /\ fetch[s].page # None => fetch'[s].late
      BY <2>4 DEF Invalidate, TypeOK
    <3>2. cache' = <<>> /\ due' = <<>>
      BY <2>4 DEF Invalidate
    <3> QED BY <3>1, <3>2 DEF NothingOld, FreshCache, InFlight
  <2>5. ASSUME NEW p \in Pages, Reload(p) PROVE NothingOld'
    BY <2>5, LoadFresh DEF Reload
  <2>6. ASSUME NEW s \in Fetches, FetchAnswers(s) PROVE NothingOld'
    <3> DEFINE e == [key |-> fetch[s].page, content |-> Answer(s)]
    <3>1. s \in InFlight /\ Ended(s) /\ epoch' = epoch /\ cache' = Store(cache, e)
      BY <2>6 DEF FetchAnswers
    <3>2. fetch[s].page \in Pages /\ Answer(s) \in Content
      BY <3>1, EndedTyped
    <3>3. Answer(s).epoch = epoch \/ Answer(s).late
      BY <3>1 DEF Answer, NothingOld
    <3>4. FreshCache'
      <4>1. e \in Entry
        BY <3>2 DEF Entry
      <4>2. \A i \in DOMAIN cache' :
              cache'[i] = e \/ \E k \in DOMAIN cache : cache'[i] = cache[k]
        <5> HIDE DEF e
        <5> QED BY <2>01, <3>1, <4>1, StoreFacts
      <4>3. e.content = Answer(s)
        OBVIOUS
      <4> QED BY <3>1, <3>3, <4>2, <4>3 DEF NothingOld, FreshCache
    <3>5. \A t \in InFlight' : t \in InFlight /\ fetch'[t] = fetch[t]
      BY <3>1 DEF Ended, Idle, InFlight, TypeOK
    <3>6. \A i \in DOMAIN due' : Fresh(due[i].content)'
      <4>1. due' = [i \in 1..Len(fetch[s].waiting) |->
                      [kind |-> fetch[s].waiting[i], content |-> Answer(s)]]
        BY <2>6 DEF FetchAnswers
      <4>2. \A i \in DOMAIN due' : due'[i].content = Answer(s)
        BY <4>1
      <4> QED BY <3>1, <3>3, <4>2 DEF Fresh
    <3> QED BY <3>1, <3>4, <3>5, <3>6 DEF NothingOld
  <2>7. ASSUME NEW s \in Fetches, FetchFails(s) \/ FetchIsBlank(s)
        PROVE  NothingOld'
    <3>1. CASE \E p \in Pages : Load(p)
      BY <3>1, LoadFresh
    <3>2. CASE s \in InFlight /\ Ended(s) /\ UNCHANGED <<cache, due, epoch>>
      <4>1. \A t \in InFlight' : t \in InFlight /\ fetch'[t] = fetch[t]
        BY <3>2 DEF Ended, Idle, InFlight, TypeOK
      <4> QED BY <3>2, <4>1 DEF NothingOld, FreshCache, Fresh
    <3> QED BY <2>7, <3>1, <3>2, FailureCases
  <2>8. ASSUME Refresh PROVE NothingOld'
    BY <2>0, <2>8, NavigateFresh DEF Refresh
  <2>9. ASSUME OpenAdded PROVE NothingOld'
    BY <2>0, <2>9, NavigateFresh DEF OpenAdded
  <2>10. ASSUME RunDue PROVE NothingOld'
    <3> DEFINE d == Head(due)
               addr == IF d.kind = "keep" THEN location ELSE d.content.page
               e == [key |-> addr, content |-> d.content]
    <3>1. due \in Seq([kind : Kinds, content : Content]) /\ due # <<>>
      BY <2>10 DEF RunDue, TypeOK
    <3>2. /\ d \in [kind : Kinds, content : Content] /\ d = due[1]
          /\ 1 \in DOMAIN due
          /\ \A i \in DOMAIN Tail(due) : i + 1 \in DOMAIN due
                                         /\ Tail(due)[i] = due[i + 1]
      BY <3>1, HeadAndTail
    <3>3. /\ cache' = Store(cache, e) /\ due' = Tail(due)
          /\ UNCHANGED <<fetch, epoch>>
      BY <2>10 DEF RunDue, Show
    <3>4. e \in Entry
      BY <2>0, <3>2 DEF Entry, Content
    <3>5. Fresh(d.content)
      BY <3>2 DEF NothingOld
    <3>6. FreshCache'
      <4>1. \A i \in DOMAIN cache' :
              cache'[i] = e \/ \E k \in DOMAIN cache : cache'[i] = cache[k]
        <5> HIDE DEF e
        <5> QED BY <2>01, <3>3, <3>4, StoreFacts
      <4>2. e.content = d.content
        OBVIOUS
      <4> HIDE DEF e, d
      <4> QED BY <3>3, <3>5, <4>1, <4>2 DEF NothingOld, FreshCache, Fresh
    <3> HIDE DEF e, d
    <3> QED BY <3>2, <3>3, <3>6 DEF NothingOld, Fresh, InFlight
  <2>11. ASSUME Logout PROVE NothingOld'
    BY <2>11 DEF Logout, NothingOld, FreshCache, Fresh, InFlight
  <2>12. CASE UNCHANGED vars
    BY <2>12 DEF vars, NothingOld, FreshCache, Fresh, InFlight
  <2> QED BY <2>1, <2>2, <2>3, <2>4, <2>5, <2>6, <2>7, <2>8, <2>9, <2>10,
             <2>11, <2>12 DEF Next, Added, Changed, ChangedHere
<1> QED BY <1>1, <1>2, TypeCorrect, PTL DEF Spec

\* After an announced change the cache serves nothing requested before it,
\* but for pages whose request it overtook.
THEOREM NothingStale == Spec => []FreshCache
<1>1. NothingOld => FreshCache
  BY DEF NothingOld
<1> QED BY <1>1, NothingOldHolds, PTL

------------------------------------------------------------------------------
(* The address and what is on the screen *)

Addressed == ShownIsAddressed /\ CacheIsTrue

\* A loaded document is at its address.
LEMMA LoadAddressed ==
  ASSUME NEW p \in Pages, Load(p)
  PROVE  Addressed'
BY DEF Load, FreshContent, Addressed, ShownIsAddressed, CacheIsTrue

\* Joining or sending a request leaves who waits waiting.
LEMMA WaitersStay ==
  ASSUME TypeOK, NEW p \in Pages, NEW kind \in Kinds, NEW w \in Seq(Kinds),
         Joined(p, kind) \/ Sent(p, w), UNCHANGED due, KeepsWaiting
  PROVE  KeepsWaiting'
<1>1. CASE \E i \in DOMAIN due : due[i].kind = "keep"
  BY <1>1 DEF KeepsWaiting
<1>2. CASE \E s \in InFlight : \E i \in DOMAIN fetch[s].waiting :
             fetch[s].waiting[i] = "keep"
  <2>0. PICK s \in InFlight : \E i \in DOMAIN fetch[s].waiting :
                                fetch[s].waiting[i] = "keep"
    BY <1>2
  <2>1. PICK i \in DOMAIN fetch[s].waiting : fetch[s].waiting[i] = "keep"
    BY <2>0
  <2>2. s \in Fetches /\ fetch[s].waiting \in Seq(Kinds) /\ fetch[s].page # None
    BY DEF InFlight, TypeOK
  <2>3. CASE Joined(p, kind)
    <3>1. fetch'[s].page = fetch[s].page
      BY <2>2, <2>3 DEF Joined, TypeOK
    <3>2. \/ fetch'[s].waiting = fetch[s].waiting
          \/ fetch'[s].waiting = Append(fetch[s].waiting, kind)
      BY <2>2, <2>3 DEF Joined, TypeOK
    <3>3. i \in DOMAIN fetch'[s].waiting /\ fetch'[s].waiting[i] = "keep"
      BY <2>1, <2>2, <3>2
    <3> QED BY <2>2, <3>1, <3>3 DEF KeepsWaiting, InFlight
  <2>4. CASE Sent(p, w)
    <3>1. fetch'[s] = fetch[s]
      BY <2>2, <2>4 DEF Sent, TypeOK
    <3> QED BY <2>1, <2>2, <3>1 DEF KeepsWaiting, InFlight
  <2> QED BY <2>3, <2>4
<1> QED BY <1>1, <1>2 DEF KeepsWaiting

\* A kept address that has to be fetched has somebody waiting for it.
LEMMA KeepWaits ==
  ASSUME TypeOK, PrefetchesInFlight, NEW p \in Pages,
         Joined(p, "keep") \/ Sent(p, <<"keep">>)
  PROVE  KeepsWaiting'
<1>1. CASE Joined(p, "keep")
  <2> DEFINE s == prefetch[p]
  <2>1. s \in Fetches /\ fetch[s].page = p /\ fetch[s].waiting \in Seq(Kinds)
    BY <1>1 DEF Joined, PrefetchesInFlight, TypeOK
  <2>2. fetch'[s].waiting = Append(fetch[s].waiting, "keep")
        /\ fetch'[s].page = p
    BY <1>1, <2>1 DEF Joined, TypeOK
  <2>3. \E i \in DOMAIN fetch'[s].waiting : fetch'[s].waiting[i] = "keep"
    <3>1. PICK q : q = fetch[s].waiting
      OBVIOUS
    <3>2. q \in Seq(Kinds) /\ fetch'[s].waiting = Append(q, "keep")
      BY <2>1, <2>2, <3>1
    <3>3. Len(q) + 1 \in DOMAIN Append(q, "keep")
          /\ Append(q, "keep")[Len(q) + 1] = "keep"
      BY <3>2
    <3> QED BY <3>2, <3>3
  <2> QED BY <2>1, <2>2, <2>3, BrowserAssumption DEF KeepsWaiting, InFlight
<1>2. CASE Sent(p, <<"keep">>)
  <2>1. PICK s \in Fetches : /\ fetch'[s].page = p
                             /\ fetch'[s].waiting = <<"keep">>
    BY <1>2 DEF Sent, TypeOK
  <2>2. 1 \in DOMAIN fetch'[s].waiting /\ fetch'[s].waiting[1] = "keep"
    BY <2>1
  <2> QED BY <2>1, <2>2, BrowserAssumption DEF KeepsWaiting, InFlight
<1> QED BY <1>1, <1>2

\* A navigation that moves the address shows the page there, or waits for it.
LEMMA NavigateAddressed ==
  ASSUME TypeOK, PrefetchesInFlight, Addressed, NEW p \in Pages,
         NEW kind \in Kinds, NEW addr \in Pages, Navigate(p, kind, addr),
         addr = location \/ kind = "keep", UNCHANGED due
  PROVE  Addressed'
<1>1. CASE ShownFromCache(p)
  BY <1>1 DEF ShownFromCache, Addressed, ShownIsAddressed, CacheIsTrue
<1>2. CASE /\ Joined(p, kind) \/ Sent(p, <<kind>>)
           /\ PartOf(cache', cache)
           /\ location' = addr
           /\ UNCHANGED <<shown, crossed>>
  <2>1. CacheIsTrue'
    BY <1>2 DEF Addressed, CacheIsTrue, PartOf
  <2>2. <<kind>> \in Seq(Kinds)
    OBVIOUS
  <2>3. KeepsWaiting => KeepsWaiting'
    BY <1>2, <2>2, WaitersStay
  <2>4. kind = "keep" => KeepsWaiting'
    BY <1>2, KeepWaits
  <2> QED BY <1>2, <2>1, <2>3, <2>4 DEF Addressed, ShownIsAddressed
<1> QED BY <1>1, <1>2, NavigateCases

\* The end of a request leaves those waiting for others waiting.
LEMMA EndedWaiters ==
  ASSUME TypeOK, NEW s \in InFlight, Ended(s), KeepsWaiting,
         \A i \in DOMAIN due : \E j \in DOMAIN due' : due'[j].kind = due[i].kind,
         \A i \in DOMAIN fetch[s].waiting :
           fetch[s].waiting[i] = "keep" => \E j \in DOMAIN due' : due'[j].kind = "keep"
  PROVE  KeepsWaiting'
<1>1. CASE \E i \in DOMAIN due : due[i].kind = "keep"
  BY <1>1 DEF KeepsWaiting
<1>2. CASE \E t \in InFlight : \E i \in DOMAIN fetch[t].waiting :
             fetch[t].waiting[i] = "keep"
  <2>1. PICK t \in InFlight : \E i \in DOMAIN fetch[t].waiting :
                                fetch[t].waiting[i] = "keep"
    BY <1>2
  <2>2. CASE t = s
    BY <2>1, <2>2 DEF KeepsWaiting
  <2>3. CASE t # s
    <3>1. fetch'[t] = fetch[t] /\ t \in InFlight'
      BY <2>3 DEF Ended, InFlight, TypeOK
    <3> QED BY <2>1, <3>1 DEF KeepsWaiting
  <2> QED BY <2>2, <2>3
<1> QED BY <1>1, <1>2 DEF KeepsWaiting

\* The screen and the cache agree with the addresses at every moment.
LEMMA AddressedHolds == Spec => []Addressed
<1>1. Init => Addressed
  BY DEF Init, FreshContent, Addressed, ShownIsAddressed, CacheIsTrue
<1>2. TypeOK /\ PrefetchesInFlight /\ Addressed /\ [Next]_vars => Addressed'
  <2> SUFFICES ASSUME TypeOK, PrefetchesInFlight, Addressed, [Next]_vars
               PROVE  Addressed'
    OBVIOUS
  <2>0. Kinds = {"link", "keep", "open"} /\ location \in Pages
        /\ (opening # None => opening \in Pages)
    BY DEF Kinds, TypeOK
  <2>01. CacheTyped(cache)
    BY DEF TypeOK, CacheTyped
  <2>1. ASSUME NEW p \in Pages, Click(p) PROVE Addressed'
    BY <2>0, <2>1, NavigateAddressed DEF Click
  <2>2. ASSUME NEW p \in Pages, Popstate(p) PROVE Addressed'
    BY <2>0, <2>2, NavigateAddressed DEF Popstate
  <2>3. ASSUME NEW p \in Pages, Prefetch(p) PROVE Addressed'
    <3>1. UNCHANGED <<location, shown, due, crossed>>
      BY <2>3 DEF Prefetch
    <3>2. CacheIsTrue'
      BY <2>3, <3>1, PrefetchCases DEF PartOf, Addressed, CacheIsTrue
    <3>3. <<>> \in Seq(Kinds) /\ "link" \in Kinds
      BY <2>0
    <3>4. CASE Sent(p, <<>>)
      <4>1. KeepsWaiting => KeepsWaiting'
        BY <3>1, <3>3, <3>4, WaitersStay
      <4> QED BY <3>1, <3>2, <4>1 DEF Addressed, ShownIsAddressed
    <3>5. CASE UNCHANGED <<fetch, prefetch>>
      BY <3>1, <3>2, <3>5
      DEF Addressed, ShownIsAddressed, KeepsWaiting, InFlight
    <3> QED BY <2>3, <3>4, <3>5, PrefetchCases
  <2>4. ASSUME Invalidate PROVE Addressed'
    <3>1. \A s \in Fetches : /\ fetch'[s].page = fetch[s].page
                             /\ fetch'[s].waiting = fetch[s].waiting
      BY <2>4 DEF Invalidate, TypeOK
    <3>2. UNCHANGED <<location, shown, due, crossed>> /\ cache' = <<>>
      BY <2>4 DEF Invalidate
    <3>3. KeepsWaiting => KeepsWaiting'
      BY <3>1, <3>2 DEF KeepsWaiting, InFlight
    <3> QED BY <3>2, <3>3 DEF Addressed, ShownIsAddressed, CacheIsTrue
  <2>5. ASSUME NEW p \in Pages, Reload(p) PROVE Addressed'
    BY <2>5, LoadAddressed DEF Reload
  <2>6. ASSUME NEW s \in Fetches, FetchAnswers(s) PROVE Addressed'
    <3> DEFINE e == [key |-> fetch[s].page, content |-> Answer(s)]
    <3>1. /\ s \in InFlight /\ Ended(s) /\ cache' = Store(cache, e)
          /\ due = <<>> /\ UNCHANGED <<location, shown, crossed>>
      BY <2>6 DEF FetchAnswers
    <3>2. /\ fetch[s].page \in Pages /\ Answer(s) \in Content
          /\ fetch[s].waiting \in Seq(Kinds)
      BY <3>1, EndedTyped
    <3>3. CacheIsTrue'
      <4>1. e \in Entry
        BY <3>2 DEF Entry
      <4>2. \A i \in DOMAIN cache' :
              cache'[i] = e \/ \E k \in DOMAIN cache : cache'[i] = cache[k]
        <5> HIDE DEF e
        <5> QED BY <2>01, <3>1, <4>1, StoreFacts
      <4>3. e.content.page = e.key
        BY DEF Answer
      <4> HIDE DEF e
      <4> QED BY <3>1, <4>2, <4>3 DEF Addressed, CacheIsTrue
    <3>4. \A i \in DOMAIN fetch[s].waiting :
            i \in DOMAIN due' /\ due'[i].kind = fetch[s].waiting[i]
      <4>1. due' = [i \in 1..Len(fetch[s].waiting) |->
                      [kind |-> fetch[s].waiting[i], content |-> Answer(s)]]
        BY <2>6 DEF FetchAnswers
      <4>2. DOMAIN fetch[s].waiting = 1..Len(fetch[s].waiting)
        BY <3>2
      <4> QED BY <4>1, <4>2
    <3>5. KeepsWaiting => KeepsWaiting'
      <4>1. DOMAIN due = {}
        BY <3>1
      <4>2. \A i \in DOMAIN fetch[s].waiting :
              fetch[s].waiting[i] = "keep"
                => \E j \in DOMAIN due' : due'[j].kind = "keep"
        BY <3>4
      <4> QED BY <3>1, <4>1, <4>2, EndedWaiters
    <3> QED BY <3>1, <3>3, <3>5 DEF Addressed, ShownIsAddressed
  <2>7. ASSUME NEW s \in Fetches, FetchFails(s) \/ FetchIsBlank(s)
        PROVE  Addressed'
    <3>1. CASE \E p \in Pages : Load(p)
      BY <3>1, LoadAddressed
    <3>2. CASE /\ s \in InFlight /\ Ended(s)
               /\ \A i \in DOMAIN fetch[s].waiting : fetch[s].waiting[i] # "keep"
               /\ UNCHANGED <<location, shown, cache, due, crossed>>
      <4>1. KeepsWaiting => KeepsWaiting'
        BY <3>2, EndedWaiters
      <4> QED BY <3>2, <4>1 DEF Addressed, ShownIsAddressed, CacheIsTrue
    <3> QED BY <2>7, <3>1, <3>2, FailureCases
  <2>8. ASSUME Refresh PROVE Addressed'
    BY <2>0, <2>8, NavigateAddressed DEF Refresh
  <2>9. ASSUME OpenAdded PROVE Addressed'
    BY <2>0, <2>9, NavigateAddressed DEF OpenAdded
  <2>10. ASSUME RunDue PROVE Addressed'
    <3> DEFINE d == Head(due)
               addr == IF d.kind = "keep" THEN location ELSE d.content.page
               e == [key |-> addr, content |-> d.content]
    <3>1. due \in Seq([kind : Kinds, content : Content]) /\ due # <<>>
      BY <2>10 DEF RunDue, TypeOK
    <3>2. d \in [kind : Kinds, content : Content]
      BY <3>1, HeadAndTail
    <3>3. /\ cache' = Store(cache, e)
          /\ location' = addr /\ shown' = d.content
          /\ crossed' = (crossed \/ (d.kind = "keep"
                                     /\ d.content.page # location))
      BY <2>10 DEF RunDue, Show
    <3>4. e \in Entry
      BY <2>0, <3>2 DEF Entry, Content
    <3>5. \A i \in DOMAIN cache' :
            cache'[i] = e \/ \E k \in DOMAIN cache : cache'[i] = cache[k]
      <4> HIDE DEF e
      <4> QED BY <2>01, <3>3, <3>4, StoreFacts
    <3>6. ~crossed' => ~crossed /\ addr = d.content.page
      BY <3>3
    <3>7. e.key = addr /\ e.content = d.content
      OBVIOUS
    <3> HIDE DEF e, addr, d
    <3>8. CacheIsTrue'
      BY <3>5, <3>6, <3>7 DEF Addressed, CacheIsTrue
    <3> QED BY <3>3, <3>6, <3>8 DEF Addressed, ShownIsAddressed
  <2>11. ASSUME Logout PROVE Addressed'
    BY <2>11 DEF Logout, Addressed, ShownIsAddressed, CacheIsTrue,
                 KeepsWaiting, InFlight
  <2>12. CASE UNCHANGED vars
    BY <2>12 DEF vars, Addressed, ShownIsAddressed, CacheIsTrue, KeepsWaiting,
                 InFlight
  <2> QED BY <2>1, <2>2, <2>3, <2>4, <2>5, <2>6, <2>7, <2>8, <2>9, <2>10,
             <2>11, <2>12 DEF Next, Added, Changed, ChangedHere
<1> QED BY <1>1, <1>2, TypeCorrect, NoDeadPrefetch, PTL DEF Spec

\* Unless a kept address was crossed or still waits, the screen shows the page
\* of the address.
THEOREM ScreenIsAddressed == Spec => []ShownIsAddressed
<1>1. Addressed => ShownIsAddressed
  BY DEF Addressed
<1> QED BY <1>1, AddressedHolds, PTL

\* Unless a kept address was crossed, every page is cached under its own key.
THEOREM CacheStaysTrue == Spec => []CacheIsTrue
<1>1. Addressed => CacheIsTrue
  BY DEF Addressed
<1> QED BY <1>1, AddressedHolds, PTL

===============================================================================
