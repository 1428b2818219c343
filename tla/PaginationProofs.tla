-------------------------- MODULE PaginationProofs --------------------------
(***************************************************************************)
(* The safety properties of Pagination, for all URLs, items and bounds.    *)
(***************************************************************************)
EXTENDS Pagination, TLAPS

Fetching == pc \in {"fetch", "discover"}

\* The histories grow with page, the mode is chosen by the first page, and
\* discovery belongs to it.
Counting ==
    /\ pc = "next" => Len(pageURLs) = page /\ Len(sources) = page
    /\ Fetching => Len(pageURLs) = page + 1 /\ Len(sources) = page /\ page < MaxPages
    /\ pc = "items" => Len(pageURLs) = page + 1 /\ Len(sources) = page + 1 /\ page < MaxPages
    /\ Len(pageURLs) <= MaxPages
    /\ Len(sources) <= Len(pageURLs)
    /\ newItems <= pageItems
    /\ pc \in {"fetch", "discover", "items"} => nextURL # NoURL
    /\ pc = "discover" => page = 0 /\ link # NoURL
    /\ pc # "done" /\ page = 0 => mode = "none"
    /\ pc # "done" /\ mode = "none" /\ page > 0 => pc = "next" /\ nextURL = NoURL

\* seenURLs has every page requested and every source.
Visited ==
    /\ \A i \in DOMAIN pageURLs : pageURLs[i] \in seenURLs
    /\ \A i \in DOMAIN sources : sources[i] \in seenURLs
    /\ EachPageOnce

\* seenItems are the IDs read.
ItemsRead ==
    /\ \A k \in DOMAIN read : read[k] \in seenItems
    /\ \A id \in seenItems : \E k \in DOMAIN read : read[k] = id
    /\ \A p \in DOMAIN items : items[p] \in DOMAIN read
    /\ FirstOccurrences

\* A guess is expected or under way.
Guessing == pc \in {"fetch", "items"} \/ (pc = "next" /\ nextURL # NoURL)

\* wordPressPage is the number of the page guessed.
Numbers ==
    /\ pc = "items" => doc.source # NoURL /\ Unfragmented(doc.source) = sources[page + 1]
    /\ mode = "wordpress" /\ Guessing => wordPressPage = CurrentPage(sources[1]) + page
    /\ mode = "wordpress" /\ pc = "next" /\ nextURL # NoURL => nextURL.paged = wordPressPage
    /\ mode = "wordpress" => Len(sources) > 0
    /\ GuessesConsecutive

\* Each page of a guessed sequence so far has brought an item, and newItems
\* tells whether this one has.
News ==
    /\ mode # "explicit" /\ Guessing => \A i \in 1..page : BringsNews(i)
    /\ pc = "items" /\ newItems > 0 => BringsNews(page + 1)
    /\ pc \in {"next", "fetch", "discover"} /\ page = 0 => seenItems = {}
    /\ pc = "items" /\ page = 0 => /\ pageItems = 0 => seenItems = {}
                                   /\ pageItems > 0 => newItems > 0
    /\ GuessesBringNews

Failures ==
    /\ pc # "done" => failure = "none"
    /\ FailuresReported

\* The inductive invariant.
IInv == TypeOK /\ Counting /\ Visited /\ ItemsRead /\ Numbers /\ News /\ Failures
-----------------------------------------------------------------------------
(* the operators on URLs and sequences *)

LEMMA AppendFacts ==
    ASSUME NEW S, NEW s \in Seq(S), NEW e \in S
    PROVE  /\ Append(s, e) \in Seq(S)
           /\ Len(Append(s, e)) = Len(s) + 1
           /\ DOMAIN s = 1..Len(s) /\ DOMAIN Append(s, e) = 1..(Len(s) + 1)
           /\ Len(s) \in Nat
           /\ \A i \in 1..Len(s) : Append(s, e)[i] = s[i]
           /\ Append(s, e)[Len(s) + 1] = e
  OBVIOUS

\* Dropping the fragment leaves a URL with the same page number.
LEMMA UnfragmentedURL ==
    ASSUME NEW u \in URLs
    PROVE  /\ Unfragmented(u) \in URLs
           /\ u # NoURL
           /\ Unfragmented(u).paged = u.paged
           /\ u.paged \in 0..MaxInt
  <1>1. u # NoURL
    BY PaginationAssumption
  <1>2. Unfragmented(u) = [u EXCEPT !.frag = FALSE]
    BY <1>1 DEF Unfragmented
  <1> QED
    BY <1>1, <1>2 DEF URLs

LEMMA CurrentPageType ==
    ASSUME NEW u \in URLs
    PROVE  CurrentPage(u) \in 1..MaxInt
  BY PaginationAssumption DEF CurrentPage, URLs

\* A guess is a URL with the number that follows, within the int range.
LEMMA NextGuessFacts ==
    ASSUME NEW u \in URLs, NEW n \in 0..MaxInt
    PROVE  /\ NextGuess(u, n).number \in 0..MaxInt
           /\ NextGuess(u, n).url \in URLs \cup {NoURL}
           /\ NextGuess(u, n).url # NoURL =>
                 /\ NextGuess(u, n).number = n + 1
                 /\ NextGuess(u, n).url.paged = n + 1
  <1>1. CASE n < 1 \/ n = MaxInt
    BY <1>1 DEF NextGuess
  <1>2. CASE ~(n < 1 \/ n = MaxInt)
    <2>1. n + 1 \in 0..MaxInt
      BY <1>2, PaginationAssumption
    <2>2. [u EXCEPT !.paged = n + 1, !.frag = FALSE] \in URLs
      BY <2>1 DEF URLs
    <2>3. [u EXCEPT !.paged = n + 1, !.frag = FALSE].paged = n + 1
      BY DEF URLs
    <2> QED
      BY <1>2, <2>1, <2>2, <2>3 DEF NextGuess
  <1> QED
    BY <1>1, <1>2

\* What the end of a page decides.
LEMMA EndPageFacts ==
    ASSUME TypeOK, Counting, Numbers, EndPage
    PROVE  /\ nextURL' \in URLs \cup {NoURL}
           /\ wordPressPage' \in 0..MaxInt
           /\ mode' \in {"none", "explicit", "wordpress"}
           /\ mode # "none" => mode' = mode
           /\ mode' = "none" => nextURL' = NoURL
           /\ mode' = "wordpress" /\ nextURL' # NoURL =>
                 /\ wordPressPage' = nextURL'.paged
                 /\ IF mode = "none"
                    THEN wordPressPage' = CurrentPage(doc.source) + 1 /\ pageItems > 0
                    ELSE wordPressPage' = wordPressPage + 1 /\ newItems # 0
  <1>1. /\ doc.source \in URLs /\ doc.following \in URLs \cup {NoURL}
        /\ wordPressPage \in 0..MaxInt
        /\ mode \in {"none", "explicit", "wordpress"}
    BY DEF TypeOK, Numbers, EndPage
  <1>2. CASE NextOfFirst
    <2>1. CASE doc.following # NoURL
      BY <1>1, <1>2, <2>1 DEF NextOfFirst, NextPage
    <2>2. CASE doc.following = NoURL /\ doc.wordPress /\ pageItems > 0
      <3>1. /\ nextURL' = NextGuess(doc.source, CurrentPage(doc.source)).url
            /\ wordPressPage' = NextGuess(doc.source, CurrentPage(doc.source)).number
            /\ mode' = "wordpress"
        BY <1>2, <2>2 DEF NextOfFirst, GuessPage, NextPage
      <3>2. CurrentPage(doc.source) \in 0..MaxInt
        BY <1>1, CurrentPageType
      <3> QED
        BY <1>1, <1>2, <2>2, <3>1, <3>2, NextGuessFacts DEF NextOfFirst
    <2>3. CASE doc.following = NoURL /\ ~(doc.wordPress /\ pageItems > 0)
      BY <1>1, <1>2, <2>3 DEF NextOfFirst, NextPage
    <2> QED
      BY <2>1, <2>2, <2>3
  <1>3. CASE NextInExplicit
    BY <1>1, <1>3 DEF NextInExplicit, NextPage
  <1>4. CASE NextInWordPress
    <2>1. CASE Stale
      BY <1>1, <1>4, <2>1 DEF NextInWordPress, NextPage
    <2>2. CASE ~Stale
      <3>1. /\ nextURL' = NextGuess(doc.source, wordPressPage).url
            /\ wordPressPage' = NextGuess(doc.source, wordPressPage).number
            /\ mode = "wordpress" /\ mode' = "wordpress"
        BY <1>4, <2>2 DEF NextInWordPress, GuessPage, NextPage
      <3> QED
        BY <1>1, <2>2, <3>1, NextGuessFacts DEF Stale
    <2> QED
      BY <2>1, <2>2
  <1> QED
    BY <1>2, <1>3, <1>4 DEF EndPage

\* A document comes from a URL.
LEMMA SourceType ==
    ASSUME TypeOK, Counting, Fetching
    PROVE  SourceURLs \subseteq URLs
  BY PaginationAssumption DEF SourceURLs, RequestURL, Fetching, TypeOK, Counting
-----------------------------------------------------------------------------
(* one lemma for each part of the inductive invariant *)

\* A page whose items are read is one of MaxPages.
LEMMA PageInRange == TypeOK /\ Counting /\ pc = "items" => page + 1 \in 1..MaxPages
  <1> SUFFICES ASSUME TypeOK, Counting, pc = "items" PROVE page + 1 \in 1..MaxPages
    OBVIOUS
  <1>1. MaxPages \in Nat /\ page \in 0..MaxPages
    BY PaginationAssumption DEF TypeOK
  <1>2. page < MaxPages
    BY DEF Counting
  <1> QED
    BY <1>1, <1>2

LEMMA Typing == TypeOK /\ Counting /\ Numbers /\ [Next]_vars => TypeOK'
  <1> SUFFICES ASSUME TypeOK, Counting, Numbers, [Next]_vars PROVE TypeOK'
    OBVIOUS
  <1>1. CASE Stop
    BY <1>1 DEF TypeOK, Stop, Return, loopVars, itemVars, history
  <1>2. CASE Request
    <2>1. nextURL \in URLs
      BY <1>2 DEF Request, Exhausted, TypeOK
    <2>2. nextURL' \in URLs
      BY <1>2, <2>1, UnfragmentedURL DEF Request
    <2>3. pageURLs' \in Seq(URLs) /\ seenURLs' \subseteq URLs
      <3>1. pageURLs' = Append(pageURLs, nextURL') /\ seenURLs' = seenURLs \cup {nextURL'}
        BY <1>2 DEF Request
      <3>2. pageURLs \in Seq(URLs) /\ seenURLs \subseteq URLs
        BY DEF TypeOK
      <3> QED
        BY <2>2, <3>1, <3>2, AppendFacts
    <2> QED
      BY <1>2, <2>2, <2>3 DEF TypeOK, Request, itemVars
  <1>3. ASSUME NEW kind \in {"missing", "other"}, RequestFails(kind)
        PROVE  TypeOK'
    BY <1>3 DEF TypeOK, RequestFails, Return, loopVars, itemVars
  <1>4. CASE NotFeed
    BY <1>4 DEF TypeOK, NotFeed, Return, loopVars, itemVars
  <1>5. ASSUME NEW u \in Links, Discover(u)
        PROVE  TypeOK'
    <2>1. Unfragmented(u) \in URLs
      BY PaginationAssumption, UnfragmentedURL
    <2> QED
      BY <1>5, <2>1 DEF TypeOK, Discover, loopVars, itemVars
  <1>6. ASSUME NEW u \in SourceURLs, NEW f \in Links \cup {NoURL}, NEW wp \in BOOLEAN,
               FeedArrives(u, f, wp)
        PROVE  TypeOK'
    <2>1. Fetching
      BY <1>6 DEF FeedArrives, Fetching
    <2>2. u \in URLs /\ Unfragmented(u) \in URLs
      BY <2>1, SourceType, UnfragmentedURL
    <2>3. Unfragmented(f) \in URLs \cup {NoURL}
      <3>1. CASE f = NoURL
        BY <3>1 DEF Unfragmented
      <3>2. CASE f \in Links
        BY <3>2, PaginationAssumption, UnfragmentedURL
      <3> QED
        BY <3>1, <3>2
    <2>4. doc' \in [source : URLs \cup {NoURL}, following : URLs \cup {NoURL}, wordPress : BOOLEAN]
      BY <1>6, <2>2, <2>3 DEF FeedArrives
    <2>5. seenURLs' \subseteq URLs /\ sources' \in Seq(URLs)
      <3>1. sources' = Append(sources, Unfragmented(u)) /\ seenURLs' = seenURLs \cup {Unfragmented(u)}
        BY <1>6 DEF FeedArrives, Seen
      <3>2. sources \in Seq(URLs) /\ seenURLs \subseteq URLs
        BY DEF TypeOK
      <3> QED
        BY <2>2, <3>1, <3>2, AppendFacts
    <2>6. pageItems' \in 0..MaxItems /\ newItems' \in 0..MaxItems /\ pc' = "items"
      BY <1>6, PaginationAssumption DEF FeedArrives
    <2>7. UNCHANGED <<page, nextURL, mode, wordPressPage, seenItems, items, read,
                      origin, ret, pageURLs, link, failure>>
      BY <1>6 DEF FeedArrives
    <2> QED
      BY <2>4, <2>5, <2>6, <2>7 DEF TypeOK
  <1>7. ASSUME NEW id \in Ids, NextItem(id)
        PROVE  TypeOK'
    <2>1. /\ read' = Append(read, id) /\ pageItems' = pageItems + 1 /\ pageItems < MaxItems
          /\ UNCHANGED <<pc, loopVars, doc, ret, history>>
          /\ \/ UNCHANGED <<seenItems, items, newItems>>
             \/ /\ seenItems' = seenItems \cup {id}
                /\ items' = Append(items, Len(read'))
                /\ newItems' = newItems + 1
      BY <1>7 DEF NextItem
    <2>2. /\ read \in Seq(Ids) /\ items \in Seq(Nat) /\ seenItems \subseteq Ids
          /\ pageItems \in 0..MaxItems /\ newItems \in 0..MaxItems /\ newItems <= pageItems
          /\ MaxItems \in Nat
      BY PaginationAssumption DEF TypeOK, Counting
    <2>3. read' \in Seq(Ids) /\ Len(read') \in Nat
      <3> QED
        BY <2>1, <2>2, AppendFacts
    <2>6. origin' \in Seq(1..MaxPages) /\ Len(origin') = Len(read')
      <3>1. origin' = Append(origin, page + 1) /\ pc = "items"
        BY <1>7 DEF NextItem
      <3>2. page + 1 \in 1..MaxPages
        BY <3>1, PageInRange
      <3>3. origin \in Seq(1..MaxPages) /\ Len(origin) = Len(read)
        BY DEF TypeOK
      <3>4. Len(read') = Len(read) + 1
        BY <2>1, <2>2, AppendFacts
      <3> QED
        BY <3>1, <3>2, <3>3, <3>4, AppendFacts
    <2>4. pageItems' \in 0..MaxItems
      <3> QED
        BY <2>1, <2>2
    <2>5. seenItems' \subseteq Ids /\ items' \in Seq(Nat) /\ newItems' \in 0..MaxItems
      <3>1. CASE UNCHANGED <<seenItems, items, newItems>>
        BY <2>2, <3>1
      <3>2. CASE /\ seenItems' = seenItems \cup {id}
                 /\ items' = Append(items, Len(read'))
                 /\ newItems' = newItems + 1
        <4>1. items' \in Seq(Nat)
          BY <2>2, <2>3, <3>2, AppendFacts
        <4>2. newItems' \in 0..MaxItems
          BY <2>1, <2>2, <3>2
        <4> QED
          BY <2>2, <3>2, <4>1, <4>2
      <3> QED
        BY <2>1, <3>1, <3>2
    <2> QED
      <3>1. UNCHANGED <<pc, page, nextURL, mode, wordPressPage, seenURLs, doc, ret,
                        pageURLs, sources, link, failure>>
        BY <2>1 DEF loopVars, history
      <3>2. pc' \in {"next", "fetch", "discover", "items", "done"}
        BY <3>1 DEF TypeOK
      <3>3. doc' \in [source : URLs \cup {NoURL}, following : URLs \cup {NoURL}, wordPress : BOOLEAN]
        BY <3>1 DEF TypeOK
      <3> QED
        BY <2>3, <2>4, <2>5, <2>6, <3>1, <3>2, <3>3 DEF TypeOK
  <1>8. CASE EndPage
    <2>1. NoDocument \in [source : URLs \cup {NoURL}, following : URLs \cup {NoURL}, wordPress : BOOLEAN]
      BY DEF NoDocument
    <2>2. /\ nextURL' \in URLs \cup {NoURL}
          /\ wordPressPage' \in 0..MaxInt
          /\ mode' \in {"none", "explicit", "wordpress"}
      BY <1>8, EndPageFacts
    <2>3. page' \in 0..MaxPages /\ pc' \in {"next", "done"} /\ ret' \in {"none", "items", "error"}
      <3>1. page \in 0..MaxPages /\ page < MaxPages /\ MaxPages \in Nat /\ ret \in {"none", "items", "error"}
        BY <1>8, PaginationAssumption DEF TypeOK, EndPage, Counting
      <3>2. \/ pc' = "next" /\ page' = page + 1 /\ ret' = ret
            \/ pc' = "done" /\ ret' = "items" /\ page' = page
        BY <1>8 DEF EndPage, Return
      <3> QED
        BY <3>1, <3>2
    <2>4. pageItems' \in 0..MaxItems /\ newItems' \in 0..MaxItems
      BY <1>8, PaginationAssumption DEF EndPage
    <2>5. doc' = NoDocument /\ UNCHANGED <<seenURLs, seenItems, items, read, origin, pageURLs, sources, link, failure>>
      BY <1>8 DEF EndPage, history
    <2> QED
      BY <2>1, <2>2, <2>3, <2>4, <2>5 DEF TypeOK
  <1>9. CASE UNCHANGED vars
    <2>1. UNCHANGED <<pc, page, nextURL, mode, wordPressPage, seenURLs, seenItems, items, doc,
                      pageItems, newItems, ret, pageURLs, sources, link, read, origin, failure>>
      BY <1>9 DEF vars, loopVars, itemVars, history
    <2>2. pc' \in {"next", "fetch", "discover", "items", "done"}
      BY <2>1 DEF TypeOK
    <2>3. doc' \in [source : URLs \cup {NoURL}, following : URLs \cup {NoURL}, wordPress : BOOLEAN]
      BY <2>1 DEF TypeOK
    <2>4. failure' \in {"none", "missing", "other", "not feed"} /\ ret' \in {"none", "items", "error"}
      BY <2>1 DEF TypeOK
    <2>5. /\ page' \in 0..MaxPages /\ wordPressPage' \in 0..MaxInt
          /\ pageItems' \in 0..MaxItems
          /\ newItems' \in 0..MaxItems
      BY <2>1 DEF TypeOK
    <2> QED
      BY <2>1, <2>2, <2>3, <2>4, <2>5 DEF TypeOK
  <1> QED
    BY <1>1, <1>2, <1>3, <1>4, <1>5, <1>6, <1>7, <1>8, <1>9 DEF Next, Terminated

LEMMA CountingStep == TypeOK /\ Counting /\ Numbers /\ [Next]_vars => Counting'
  <1> SUFFICES ASSUME TypeOK, Counting, Numbers, [Next]_vars PROVE Counting'
    OBVIOUS
  <1> DEFINE P == Len(pageURLs)
             S == Len(sources)
  <1>0. /\ page \in Nat /\ MaxPages \in Nat /\ P \in Nat /\ S \in Nat
        /\ pageItems \in Nat /\ newItems \in Nat
        /\ pageURLs \in Seq(URLs) /\ sources \in Seq(URLs)
        /\ page <= MaxPages
    <2>1. /\ page \in 0..MaxPages /\ pageItems \in 0..MaxItems /\ newItems \in 0..MaxItems
          /\ MaxPages \in Nat
          /\ pageURLs \in Seq(URLs) /\ sources \in Seq(URLs)
      BY PaginationAssumption DEF TypeOK
    <2> QED
      BY <2>1, AppendFacts
  <1>1. CASE Stop
    <2>1. pc' = "done" /\ UNCHANGED <<page, mode, nextURL, pageURLs, sources, link, pageItems, newItems>>
      BY <1>1 DEF Stop, Return, loopVars, itemVars, history
    <2> QED
      BY <2>1 DEF Counting, Fetching
  <1>2. CASE Request
    <2>1. /\ pc = "next" /\ page # MaxPages /\ nextURL # NoURL /\ nextURL \in URLs
          /\ pc' = "fetch" /\ nextURL' = Unfragmented(nextURL)
          /\ pageURLs' = Append(pageURLs, nextURL')
          /\ UNCHANGED <<page, mode, sources, link, pageItems, newItems>>
      BY <1>2 DEF Request, Exhausted, itemVars, TypeOK
    <2>2. nextURL' \in URLs /\ nextURL' # NoURL
      BY <2>1, UnfragmentedURL, PaginationAssumption
    <2>3. Len(pageURLs') = P + 1
      BY <1>0, <2>1, <2>2, AppendFacts
    <2>4. P = page /\ S = page /\ page < MaxPages
      BY <1>0, <2>1 DEF Counting
    <2>5. mode = "none" => page = 0
      BY <2>1 DEF Counting
    <2> QED
      BY <1>0, <2>1, <2>2, <2>3, <2>4, <2>5 DEF Counting, Fetching
  <1>3. ASSUME \/ \E kind \in {"missing", "other"} : RequestFails(kind)
               \/ NotFeed
        PROVE  Counting'
    <2>1. pc' = "done" /\ UNCHANGED <<page, mode, nextURL, pageURLs, sources, link, pageItems, newItems>>
      BY <1>3 DEF RequestFails, NotFeed, Return, loopVars, itemVars
    <2> QED
      BY <2>1 DEF Counting, Fetching
  <1>4. ASSUME NEW u \in Links, Discover(u)
        PROVE  Counting'
    <2>1. /\ pc = "fetch" /\ page = 0 /\ pc' = "discover" /\ link' = Unfragmented(u)
          /\ UNCHANGED <<page, mode, nextURL, pageURLs, sources, pageItems, newItems>>
      BY <1>4 DEF Discover, MayDiscover, loopVars, itemVars
    <2>2. link' # NoURL
      BY <2>1, UnfragmentedURL, PaginationAssumption
    <2> QED
      BY <2>1, <2>2 DEF Counting, Fetching
  <1>5. ASSUME NEW u \in SourceURLs, NEW f \in Links \cup {NoURL}, NEW wp \in BOOLEAN,
               FeedArrives(u, f, wp)
        PROVE  Counting'
    <2>1. /\ Fetching /\ pc' = "items"
          /\ sources' = Append(sources, Unfragmented(u))
          /\ pageItems' = 0 /\ newItems' = 0
          /\ UNCHANGED <<page, mode, nextURL, pageURLs, link>>
      BY <1>5 DEF FeedArrives, Fetching
    <2>2. Unfragmented(u) \in URLs
      BY <2>1, SourceType, UnfragmentedURL
    <2>3. Len(sources') = S + 1
      BY <1>0, <2>1, <2>2, AppendFacts
    <2>4. S = page /\ P = page + 1 /\ page < MaxPages /\ nextURL # NoURL
      BY <2>1 DEF Counting, Fetching
    <2>5. /\ page = 0 => mode = "none"
          /\ ~(mode = "none" /\ page > 0)
      BY <2>1 DEF Counting, Fetching
    <2> QED
      BY <1>0, <2>1, <2>3, <2>4, <2>5 DEF Counting, Fetching
  <1>6. ASSUME NEW id \in Ids, NextItem(id)
        PROVE  Counting'
    <2>1. /\ pc = "items" /\ pageItems' = pageItems + 1
          /\ newItems' = newItems \/ newItems' = newItems + 1
          /\ UNCHANGED <<pc, page, mode, nextURL, pageURLs, sources, link>>
      BY <1>6 DEF NextItem, loopVars, history
    <2> QED
      BY <1>0, <2>1 DEF Counting, Fetching
  <1>7. CASE EndPage
    <2>1. /\ pc = "items" /\ pageItems' = 0 /\ newItems' = 0
          /\ UNCHANGED <<pageURLs, sources, link>>
          /\ \/ pc' = "next" /\ page' = page + 1
             \/ pc' = "done" /\ page' = page
      BY <1>7 DEF EndPage, Return, history
    <2>2. mode' = "none" => nextURL' = NoURL
      BY <1>7, EndPageFacts
    <2>3. S = page + 1 /\ P = page + 1 /\ page < MaxPages
      BY <2>1 DEF Counting
    <2> QED
      BY <1>0, <2>1, <2>2, <2>3 DEF Counting, Fetching
  <1>8. CASE UNCHANGED vars
    <2>1. UNCHANGED <<pc, page, mode, nextURL, pageURLs, sources, link, pageItems, newItems>>
      BY <1>8 DEF vars, loopVars, itemVars, history
    <2> QED
      BY <2>1 DEF Counting, Fetching
  <1> QED
    BY <1>1, <1>2, <1>3, <1>4, <1>5, <1>6, <1>7, <1>8 DEF Next, Terminated

LEMMA VisitedStep == TypeOK /\ Counting /\ Visited /\ [Next]_vars => Visited'
  <1> SUFFICES ASSUME TypeOK, Counting, Visited, [Next]_vars PROVE Visited'
    OBVIOUS
  <1>0. pageURLs \in Seq(URLs) /\ sources \in Seq(URLs)
    BY DEF TypeOK
  <1>1. CASE Request
    <2>1. /\ pc = "next" /\ nextURL \in URLs
          /\ Unfragmented(nextURL) \notin seenURLs
          /\ seenURLs' = seenURLs \cup {Unfragmented(nextURL)}
          /\ pageURLs' = Append(pageURLs, Unfragmented(nextURL))
          /\ sources' = sources
      BY <1>1 DEF Request, Exhausted, TypeOK
    <2>2. Unfragmented(nextURL) \in URLs
      BY <2>1, UnfragmentedURL
    <2> DEFINE n == Len(pageURLs)
               u == Unfragmented(nextURL)
    <2>3. /\ DOMAIN pageURLs = 1..n /\ DOMAIN pageURLs' = 1..(n + 1) /\ n \in Nat
          /\ \A i \in 1..n : pageURLs'[i] = pageURLs[i]
          /\ pageURLs'[n + 1] = u
      BY <1>0, <2>1, <2>2, AppendFacts
    <2>4. DOMAIN sources = 1..n
      BY <1>0, <2>1 DEF Counting
    <2> HIDE DEF n, u
    <2>5. \A i \in 1..n : pageURLs[i] # u /\ sources[i] # u
      BY <2>1, <2>3, <2>4 DEF Visited, u
    <2>6. EachPageOnce'
      <3> SUFFICES ASSUME NEW i \in 1..(n + 1), NEW j \in 1..(n + 1), i < j
                   PROVE  pageURLs'[j] # pageURLs'[i] /\ pageURLs'[j] # sources'[i]
        BY <2>3 DEF EachPageOnce
      <3>1. i \in 1..n
        BY <2>3
      <3>2. CASE j \in 1..n
        BY <2>1, <2>3, <3>1, <3>2 DEF Visited, EachPageOnce
      <3>3. CASE j = n + 1
        BY <2>1, <2>3, <2>5, <3>1, <3>3
      <3> QED
        BY <2>3, <3>2, <3>3
    <2>7. \A i \in 1..(n + 1) : pageURLs'[i] \in seenURLs'
      BY <2>1, <2>3 DEF Visited, u
    <2> QED
      BY <2>1, <2>3, <2>6, <2>7 DEF Visited
  <1>2. ASSUME NEW u \in SourceURLs, NEW f \in Links \cup {NoURL}, NEW wp \in BOOLEAN,
               FeedArrives(u, f, wp)
        PROVE  Visited'
    <2>1. /\ Fetching
          /\ sources' = Append(sources, Unfragmented(u))
          /\ seenURLs' = seenURLs \cup {Unfragmented(u)}
          /\ pageURLs' = pageURLs
      BY <1>2 DEF FeedArrives, Fetching, Seen
    <2>2. Unfragmented(u) \in URLs
      BY <2>1, SourceType, UnfragmentedURL
    <2> DEFINE n == Len(sources)
    <2>3. /\ DOMAIN sources = 1..n /\ DOMAIN sources' = 1..(n + 1) /\ n \in Nat
          /\ \A i \in 1..n : sources'[i] = sources[i]
          /\ sources'[n + 1] = Unfragmented(u)
      BY <1>0, <2>1, <2>2, AppendFacts
    <2>4. DOMAIN pageURLs = 1..(n + 1)
      BY <1>0, <2>1 DEF Counting
    <2> HIDE DEF n
    <2>5. EachPageOnce'
      <3> SUFFICES ASSUME NEW i \in 1..(n + 1), NEW j \in 1..(n + 1), i < j
                   PROVE  pageURLs[j] # pageURLs[i] /\ pageURLs[j] # sources'[i]
        BY <2>1, <2>4 DEF EachPageOnce
      <3>1. i \in 1..n
        BY <2>3
      <3> QED
        BY <2>3, <2>4, <3>1 DEF Visited, EachPageOnce
    <2>6. \A i \in 1..(n + 1) : sources'[i] \in seenURLs'
      BY <2>1, <2>3 DEF Visited
    <2> QED
      BY <2>1, <2>3, <2>5, <2>6 DEF Visited
  <1>3. CASE UNCHANGED <<pageURLs, sources, seenURLs>>
    BY <1>3 DEF Visited, EachPageOnce
  <1>4. ASSUME \/ Stop
               \/ \E kind \in {"missing", "other"} : RequestFails(kind)
               \/ NotFeed
               \/ \E u \in Links : Discover(u)
               \/ \E id \in Ids : NextItem(id)
               \/ EndPage
               \/ UNCHANGED vars
        PROVE  UNCHANGED <<pageURLs, sources, seenURLs>>
    BY <1>4 DEF Stop, RequestFails, NotFeed, Discover, NextItem, EndPage, vars, loopVars, history
  <1> QED
    BY <1>1, <1>2, <1>3, <1>4 DEF Next, Terminated

LEMMA ItemsReadStep == TypeOK /\ ItemsRead /\ [Next]_vars => ItemsRead'
  <1> SUFFICES ASSUME TypeOK, ItemsRead, [Next]_vars PROVE ItemsRead'
    OBVIOUS
  <1>1. ASSUME NEW id \in Ids, NextItem(id)
        PROVE  ItemsRead'
    <2> DEFINE n == Len(read)
               m == Len(items)
    <2>0. read \in Seq(Ids) /\ items \in Seq(Nat) /\ seenItems \subseteq Ids
      BY DEF TypeOK
    <2>1. /\ DOMAIN read = 1..n /\ DOMAIN read' = 1..(n + 1) /\ n \in Nat /\ Len(read') = n + 1
          /\ \A k \in 1..n : read'[k] = read[k]
          /\ read'[n + 1] = id
      <3>1. read' = Append(read, id)
        BY <1>1 DEF NextItem
      <3> QED
        BY <2>0, <3>1, AppendFacts
    <2>2. DOMAIN items = 1..m /\ m \in Nat /\ \A p \in 1..m : items[p] \in 1..n
      BY <2>0, <2>1 DEF ItemsRead
    <2> HIDE DEF n, m
    <2>3. id \in seenItems <=> \E k \in 1..n : read[k] = id
      BY <2>1 DEF ItemsRead
    <2>4. /\ \A p, q \in 1..m : p < q => items[p] < items[q]
          /\ \A k \in 1..n : (\E p \in 1..m : items[p] = k) <=> \A j \in 1..(k-1) : read[j] # read[k]
      BY <2>1, <2>2 DEF ItemsRead, FirstOccurrences, New
    <2>5. \A k \in 1..n : (\A j \in 1..(k-1) : read'[j] # read'[k]) <=> \A j \in 1..(k-1) : read[j] # read[k]
      BY <2>1
    <2>6. CASE id \in seenItems
      <3>1. UNCHANGED <<seenItems, items>>
        BY <1>1, <2>6 DEF NextItem
      <3>2. \E j \in 1..n : read'[j] = read'[n + 1]
        BY <2>1, <2>3, <2>6
      <3>3. FirstOccurrences'
        <4>1. ~ \E p \in 1..m : items[p] = n + 1
          BY <2>1, <2>2
        <4>2. \A k \in 1..(n + 1) : (\E p \in 1..m : items[p] = k) <=> \A j \in 1..(k-1) : read'[j] # read'[k]
          <5> SUFFICES ASSUME NEW k \in 1..(n + 1)
                       PROVE (\E p \in 1..m : items[p] = k) <=> \A j \in 1..(k-1) : read'[j] # read'[k]
            OBVIOUS
          <5>1. CASE k = n + 1
            <6>1. (n + 1) - 1 = n
              BY <2>1
            <6> QED
              BY <3>2, <4>1, <5>1, <6>1
          <5>2. CASE k \in 1..n
            BY <2>4, <2>5, <5>2
          <5> QED
            BY <2>1, <5>1, <5>2
        <4> QED
          BY <2>1, <2>2, <2>4, <3>1, <4>2 DEF FirstOccurrences, New
      <3>4. \A k \in 1..(n + 1) : read'[k] \in seenItems
        BY <2>1, <2>6 DEF ItemsRead
      <3>5. \A x \in seenItems : \E k \in 1..(n + 1) : read'[k] = x
        BY <2>1 DEF ItemsRead
      <3>6. \A p \in 1..m : items[p] \in 1..(n + 1)
        BY <2>1, <2>2
      <3>7. DOMAIN items' = 1..m /\ items' = items /\ seenItems' = seenItems
        BY <2>2, <3>1
      <3> QED
        BY <2>1, <3>3, <3>4, <3>5, <3>6, <3>7 DEF ItemsRead
    <2>7. CASE id \notin seenItems
      <3>1. seenItems' = seenItems \cup {id} /\ items' = Append(items, n + 1)
        BY <1>1, <2>1, <2>7 DEF NextItem
      <3>2. /\ DOMAIN items' = 1..(m + 1)
            /\ \A p \in 1..m : items'[p] = items[p]
            /\ items'[m + 1] = n + 1
        <4>1. n + 1 \in Nat
          BY <2>1
        <4> QED
          BY <2>0, <3>1, <4>1, AppendFacts DEF m
      <3>3. \A j \in 1..n : read'[j] # read'[n + 1]
        BY <2>1, <2>3, <2>7
      <3>4. \A p, q \in 1..(m + 1) : p < q => items'[p] < items'[q]
        <4> SUFFICES ASSUME NEW p \in 1..(m + 1), NEW q \in 1..(m + 1), p < q
                     PROVE  items'[p] < items'[q]
          OBVIOUS
        <4>1. p \in 1..m /\ items'[p] = items[p] /\ items[p] \in 1..n
          BY <2>2, <3>2
        <4>2. CASE q = m + 1
          BY <2>1, <3>2, <4>1, <4>2
        <4>3. CASE q \in 1..m
          BY <2>4, <3>2, <4>1, <4>3
        <4> QED
          BY <2>2, <4>2, <4>3
      <3>5. \A k \in 1..(n + 1) : (\E p \in 1..(m + 1) : items'[p] = k) <=> \A j \in 1..(k-1) : read'[j] # read'[k]
        <4> SUFFICES ASSUME NEW k \in 1..(n + 1)
                     PROVE (\E p \in 1..(m + 1) : items'[p] = k) <=> \A j \in 1..(k-1) : read'[j] # read'[k]
          OBVIOUS
        <4>1. CASE k = n + 1
          <5>1. (n + 1) - 1 = n /\ m + 1 \in 1..(m + 1)
            BY <2>1, <2>2
          <5> QED
            BY <3>2, <3>3, <4>1, <5>1
        <4>2. CASE k \in 1..n
          <5>1. (\E p \in 1..(m + 1) : items'[p] = k) <=> \E p \in 1..m : items[p] = k
            BY <2>1, <2>2, <3>2, <4>2
          <5> QED
            BY <2>4, <2>5, <4>2, <5>1
        <4> QED
          BY <2>1, <4>1, <4>2
      <3>6. FirstOccurrences'
        BY <2>1, <3>2, <3>4, <3>5 DEF FirstOccurrences, New
      <3>7. \A k \in 1..(n + 1) : read'[k] \in seenItems'
        <4>1. \A k \in 1..n : read'[k] \in seenItems
          BY <2>1 DEF ItemsRead
        <4>2. \A k \in 1..(n + 1) : k = n + 1 \/ k \in 1..n
          BY <2>1
        <4> QED
          BY <2>1, <3>1, <4>1, <4>2
      <3>8. \A x \in seenItems' : \E k \in 1..(n + 1) : read'[k] = x
        <4>1. \A x \in seenItems : \E k \in 1..n : read'[k] = x
          BY <2>1 DEF ItemsRead
        <4>2. n + 1 \in 1..(n + 1) /\ \A k \in 1..n : k \in 1..(n + 1)
          BY <2>1
        <4> QED
          BY <2>1, <3>1, <4>1, <4>2
      <3>9. \A p \in 1..(m + 1) : items'[p] \in 1..(n + 1)
        BY <2>1, <2>2, <3>2
      <3> QED
        BY <2>1, <3>2, <3>6, <3>7, <3>8, <3>9 DEF ItemsRead
    <2> QED
      BY <2>6, <2>7
  <1>2. CASE UNCHANGED <<seenItems, items, read>>
    BY <1>2 DEF ItemsRead, FirstOccurrences, New
  <1>3. ASSUME \/ Stop
               \/ Request
               \/ \E kind \in {"missing", "other"} : RequestFails(kind)
               \/ NotFeed
               \/ \E u \in Links : Discover(u)
               \/ \E u \in SourceURLs, f \in Links \cup {NoURL}, wp \in BOOLEAN : FeedArrives(u, f, wp)
               \/ EndPage
               \/ UNCHANGED vars
        PROVE  UNCHANGED <<seenItems, items, read>>
    BY <1>3 DEF Stop, Request, RequestFails, NotFeed, Discover, FeedArrives, EndPage, vars, itemVars
  <1> QED
    BY <1>1, <1>2, <1>3 DEF Next, Terminated

LEMMA FailuresStep ==
    TypeOK /\ Counting /\ Failures /\ [Next]_vars => Failures'
  <1> SUFFICES ASSUME TypeOK, Counting, Failures, [Next]_vars PROVE Failures'
    OBVIOUS
  <1>1. CASE Stop
    BY <1>1 DEF Stop, Return, history, Failures, FailuresReported
  <1>2. ASSUME NEW kind \in {"missing", "other"}, RequestFails(kind)
        PROVE  Failures'
    <2>1. /\ Fetching /\ failure' = kind /\ pc' = "done"
          /\ ret' = IF kind = "missing" /\ mode = "wordpress" THEN "items" ELSE "error"
          /\ UNCHANGED <<mode, pageURLs>>
      BY <1>2 DEF RequestFails, Return, Excused, Fetching, loopVars
    <2>2. mode = "wordpress" => Len(pageURLs) > 1
      <3>1. page \in 0..MaxPages /\ MaxPages \in Nat
        BY PaginationAssumption DEF TypeOK
      <3>2. Len(pageURLs) = page + 1 /\ (page = 0 => mode = "none")
        BY <2>1 DEF Counting, Fetching
      <3> QED
        BY <3>1, <3>2
    <2> QED
      BY <2>1, <2>2 DEF Failures, FailuresReported
  <1>3. CASE NotFeed
    BY <1>3 DEF NotFeed, Return, Failures, FailuresReported
  <1>4. CASE EndPage
    BY <1>4 DEF EndPage, Return, history, Failures, FailuresReported
  <1>5. ASSUME \/ Request
               \/ \E u \in Links : Discover(u)
               \/ \E u \in SourceURLs, f \in Links \cup {NoURL}, wp \in BOOLEAN : FeedArrives(u, f, wp)
               \/ \E id \in Ids : NextItem(id)
        PROVE  Failures'
    <2>1. pc # "done" /\ pc' # "done" /\ failure' = failure
      BY <1>5 DEF Request, Discover, MayDiscover, FeedArrives, NextItem, history
    <2> QED
      BY <2>1 DEF Failures, FailuresReported
  <1>6. CASE UNCHANGED vars
    BY <1>6 DEF vars, loopVars, history, Failures, FailuresReported
  <1> QED
    BY <1>1, <1>2, <1>3, <1>4, <1>5, <1>6 DEF Next, Terminated

LEMMA NumbersStep == TypeOK /\ Counting /\ Numbers /\ [Next]_vars => Numbers'
  <1> SUFFICES ASSUME TypeOK, Counting, Numbers, [Next]_vars PROVE Numbers'
    OBVIOUS
  <1>0. /\ page \in 0..MaxPages /\ MaxPages \in Nat
        /\ pageURLs \in Seq(URLs) /\ sources \in Seq(URLs)
        /\ wordPressPage \in 0..MaxInt /\ MaxInt \in Nat
    BY PaginationAssumption DEF TypeOK
  <1>1. CASE Request
    <2>1. /\ pc = "next" /\ nextURL # NoURL /\ nextURL \in URLs /\ pc' = "fetch"
          /\ nextURL' = Unfragmented(nextURL)
          /\ pageURLs' = Append(pageURLs, Unfragmented(nextURL))
          /\ UNCHANGED <<page, mode, wordPressPage, sources, doc>>
      BY <1>1 DEF Request, Exhausted, TypeOK
    <2>2. Unfragmented(nextURL) \in URLs /\ Unfragmented(nextURL).paged = nextURL.paged
      BY <2>1, UnfragmentedURL
    <2>3. /\ DOMAIN pageURLs = 1..page /\ DOMAIN pageURLs' = 1..(page + 1)
          /\ \A i \in 1..page : pageURLs'[i] = pageURLs[i]
          /\ pageURLs'[page + 1] = Unfragmented(nextURL)
      <3>1. Len(pageURLs) = page
        BY <2>1 DEF Counting
      <3> QED
        BY <1>0, <2>1, <2>2, <3>1, AppendFacts
    <2>4. mode = "wordpress" =>
             /\ wordPressPage = CurrentPage(sources[1]) + page
             /\ nextURL.paged = wordPressPage
      BY <2>1 DEF Numbers, Guessing
    <2>5. GuessesConsecutive'
      <3> SUFFICES ASSUME mode = "wordpress", NEW i \in 1..(page + 1), i > 1
                   PROVE  pageURLs'[i].paged = CurrentPage(sources[1]) + i - 1
        BY <2>1, <2>3 DEF GuessesConsecutive
      <3>1. CASE i \in 1..page
        BY <2>3, <3>1 DEF Numbers, GuessesConsecutive
      <3>2. CASE i = page + 1
        <4>1. pageURLs'[i].paged = CurrentPage(sources[1]) + page
          BY <2>2, <2>3, <2>4, <3>2
        <4>2. CurrentPage(sources[1]) \in Nat
          <5>1. sources[1] \in URLs
            BY <1>0 DEF Numbers
          <5> QED
            BY <1>0, <5>1, CurrentPageType
        <4> QED
          BY <1>0, <3>2, <4>1, <4>2
      <3> QED
        BY <1>0, <3>1, <3>2
    <2> QED
      BY <2>1, <2>4, <2>5 DEF Numbers, Guessing
  <1>2. ASSUME NEW u \in SourceURLs, NEW f \in Links \cup {NoURL}, NEW wp \in BOOLEAN,
               FeedArrives(u, f, wp)
        PROVE  Numbers'
    <2>1. /\ Fetching /\ pc' = "items" /\ doc'.source = u
          /\ sources' = Append(sources, Unfragmented(u))
          /\ UNCHANGED <<page, mode, wordPressPage, nextURL, pageURLs>>
      BY <1>2 DEF FeedArrives, Fetching
    <2>2. u \in URLs /\ Unfragmented(u) \in URLs /\ u # NoURL
      BY <2>1, SourceType, UnfragmentedURL
    <2>3. Len(sources) = page /\ (page = 0 => mode = "none") /\ (pc = "discover" => page = 0)
      BY <2>1 DEF Counting, Fetching
    <2>4. sources'[page + 1] = Unfragmented(u) /\ Len(sources') = page + 1
      BY <1>0, <2>1, <2>2, <2>3, AppendFacts
    <2>5. mode = "wordpress" => page > 0 /\ sources'[1] = sources[1] /\ pc = "fetch"
      <3>1. page > 0 => sources'[1] = sources[1]
        BY <1>0, <2>1, <2>2, <2>3, AppendFacts
      <3> QED
        BY <1>0, <2>1, <2>3, <3>1 DEF Fetching
    <2>6. mode = "wordpress" => wordPressPage = CurrentPage(sources[1]) + page
      BY <2>5 DEF Numbers, Guessing
    <2>7. GuessesConsecutive'
      BY <2>1, <2>5 DEF Numbers, GuessesConsecutive
    <2> QED
      BY <1>0, <2>1, <2>2, <2>4, <2>5, <2>6, <2>7 DEF Numbers
  <1>3. CASE EndPage
    <2>1. /\ pc = "items"
          /\ UNCHANGED <<pageURLs, sources>>
          /\ \/ pc' = "next" /\ page' = page + 1
             \/ pc' = "done"
      BY <1>3 DEF EndPage, Return, history
    <2>2. /\ Len(pageURLs) = page + 1 /\ Len(sources) = page + 1
          /\ page = 0 => mode = "none"
          /\ mode = "none" => page = 0
      BY <1>0, <2>1 DEF Counting
    <2>3. CurrentPage(doc.source) = CurrentPage(sources[page + 1])
      <3>1. doc.source \in URLs /\ Unfragmented(doc.source) = sources[page + 1]
        BY <2>1 DEF Numbers, TypeOK
      <3> QED
        BY <3>1, UnfragmentedURL DEF CurrentPage
    <2>4. /\ mode # "none" => mode' = mode
          /\ mode' = "wordpress" /\ nextURL' # NoURL =>
                /\ wordPressPage' = nextURL'.paged
                /\ IF mode = "none"
                   THEN wordPressPage' = CurrentPage(doc.source) + 1
                   ELSE wordPressPage' = wordPressPage + 1
      BY <1>3, EndPageFacts
    <2>5. mode = "wordpress" => wordPressPage = CurrentPage(sources[1]) + page
      BY <2>1 DEF Numbers, Guessing
    <2>6. ASSUME mode' = "wordpress", nextURL' # NoURL, pc' = "next"
          PROVE  wordPressPage' = CurrentPage(sources[1]) + page'
      <3>1. sources[1] \in URLs
        BY <1>0, <2>2
      <3>2. CurrentPage(sources[1]) \in Nat
        BY <1>0, <3>1, CurrentPageType
      <3>3. CASE mode = "none"
        BY <1>0, <2>1, <2>2, <2>3, <2>4, <2>6, <3>2, <3>3
      <3>4. CASE mode # "none"
        <4>1. mode = "wordpress" /\ wordPressPage' = wordPressPage + 1 /\ page' = page + 1
          BY <2>1, <2>4, <2>6, <3>4
        <4> QED
          BY <1>0, <2>5, <3>2, <4>1
      <3> QED
        BY <3>3, <3>4
    <2>7. GuessesConsecutive'
      <3>1. CASE mode = "none"
        <4>1. DOMAIN pageURLs' = 1..1
          BY <1>0, <2>1, <2>2, <3>1
        <4> QED
          BY <4>1 DEF GuessesConsecutive
      <3>2. CASE mode # "none"
        BY <2>1, <2>4, <3>2 DEF Numbers, GuessesConsecutive
      <3> QED
        BY <3>1, <3>2
    <2>8. Len(sources') > 0
      BY <1>0, <2>1, <2>2
    <2> QED
      BY <2>1, <2>4, <2>6, <2>7, <2>8 DEF Numbers, Guessing
  <1>4. ASSUME NEW u \in Links, Discover(u)
        PROVE  Numbers'
    <2>1. /\ pc' = "discover" /\ UNCHANGED <<mode, sources, pageURLs>>
      BY <1>4 DEF Discover, loopVars
    <2> QED
      BY <2>1 DEF Numbers, Guessing, GuessesConsecutive
  <1>5. ASSUME \/ Stop
               \/ \E kind \in {"missing", "other"} : RequestFails(kind)
               \/ NotFeed
        PROVE  Numbers'
    <2>1. pc' = "done" /\ UNCHANGED <<mode, sources, pageURLs>>
      BY <1>5 DEF Stop, RequestFails, NotFeed, Return, loopVars, history
    <2> QED
      BY <2>1 DEF Numbers, Guessing, GuessesConsecutive
  <1>6. ASSUME \/ \E id \in Ids : NextItem(id)
               \/ UNCHANGED vars
        PROVE  Numbers'
    <2>1. UNCHANGED <<pc, page, nextURL, mode, wordPressPage, doc, sources, pageURLs>>
      BY <1>6 DEF NextItem, vars, loopVars, history
    <2> QED
      BY <2>1 DEF Numbers, Guessing, GuessesConsecutive
  <1> QED
    BY <1>1, <1>2, <1>3, <1>4, <1>5, <1>6 DEF Next, Terminated

\* An item more takes no news away.
LEMMA NewsKept ==
    ASSUME TypeOK, NEW id \in Ids, read' = Append(read, id),
           NEW n \in 1..MaxPages, origin' = Append(origin, n)
    PROVE  /\ \A i : BringsNews(i) => BringsNews(i)'
           /\ (\A k \in DOMAIN read : read[k] # id) => BringsNews(n)'
  <1>1. /\ read \in Seq(Ids) /\ origin \in Seq(1..MaxPages) /\ Len(origin) = Len(read)
    BY DEF TypeOK
  <1>2. /\ Len(read) \in Nat /\ DOMAIN read = 1..Len(read) /\ DOMAIN read' = 1..(Len(read) + 1)
        /\ \A k \in 1..Len(read) : read'[k] = read[k]
        /\ read'[Len(read) + 1] = id
    BY <1>1, AppendFacts
  <1>3. /\ \A k \in 1..Len(read) : origin'[k] = origin[k]
        /\ origin'[Len(read) + 1] = n
    BY <1>1, AppendFacts
  <1>4. ASSUME NEW i, BringsNews(i) PROVE BringsNews(i)'
    <2>1. PICK k \in 1..Len(read) : origin[k] = i /\ New(k)
      BY <1>2, <1>4 DEF BringsNews
    <2>2. k \in DOMAIN read' /\ origin'[k] = i
      <3>1. k \in 1..Len(read) + 1
        BY <1>2
      <3>2. origin'[k] = origin[k]
        BY <1>3
      <3> QED
        BY <1>2, <2>1, <3>1, <3>2
    <2>3. \A j \in 1..k-1 : read'[j] # read'[k]
      BY <1>2, <2>1 DEF New
    <2> QED
      BY <2>2, <2>3 DEF BringsNews, New
  <1>5. ASSUME \A k \in DOMAIN read : read[k] # id PROVE BringsNews(n)'
    <2>1. PICK p : p = Len(read) + 1
      OBVIOUS
    <2>2. p \in DOMAIN read' /\ p - 1 = Len(read) /\ origin'[p] = n
      <3>1. p \in 1..Len(read) + 1 /\ p - 1 = Len(read)
        BY <1>2, <2>1
      <3>2. origin'[p] = n
        BY <1>3, <2>1
      <3> QED
        BY <1>2, <3>1, <3>2
    <2>3. \A j \in 1..p-1 : read'[j] # read'[p]
      <3>1. \A j \in 1..Len(read) : read'[j] # read'[Len(read) + 1]
        BY <1>2, <1>5
      <3> QED
        BY <2>1, <2>2, <3>1
    <2> QED
      BY <2>2, <2>3 DEF BringsNews, New
  <1> QED
    BY <1>4, <1>5

LEMMA NewsStep == TypeOK /\ Counting /\ Numbers /\ ItemsRead /\ News /\ [Next]_vars => News'
  <1> SUFFICES ASSUME TypeOK, Counting, Numbers, ItemsRead, News, [Next]_vars PROVE News'
    OBVIOUS
  <1>0. /\ page \in Nat /\ newItems \in Nat /\ pageItems \in Nat
        /\ pageURLs \in Seq(URLs) /\ Len(pageURLs) \in Nat
    <2>1. /\ page \in 0..MaxPages /\ pageItems \in 0..MaxItems /\ newItems \in 0..MaxItems
          /\ pageURLs \in Seq(URLs)
      BY DEF TypeOK
    <2> QED
      BY <2>1, AppendFacts
  <1>n. UNCHANGED <<read, origin>> => \A i : BringsNews(i)' <=> BringsNews(i)
    BY DEF BringsNews, New
  <1>1. CASE Request
    <2>1. /\ pc = "next" /\ nextURL \in URLs /\ nextURL # NoURL /\ pc' = "fetch"
          /\ pageURLs' = Append(pageURLs, Unfragmented(nextURL))
          /\ UNCHANGED <<page, mode, read, origin, seenItems>>
      BY <1>1 DEF Request, Exhausted, itemVars, TypeOK
    <2>2. Len(pageURLs') = page + 1 /\ Len(pageURLs') - 1 = page
      <3>1. Unfragmented(nextURL) \in URLs /\ Len(pageURLs) = page
        BY <2>1, UnfragmentedURL DEF Counting
      <3> QED
        BY <1>0, <2>1, <3>1, AppendFacts
    <2>3. mode # "explicit" => \A i \in 1..page : BringsNews(i)'
      BY <1>n, <2>1 DEF News, Guessing
    <2> QED
      BY <2>1, <2>2, <2>3 DEF News, Guessing, GuessesBringNews
  <1>2. ASSUME NEW u \in SourceURLs, NEW f \in Links \cup {NoURL}, NEW wp \in BOOLEAN,
               FeedArrives(u, f, wp)
        PROVE  News'
    <2>1. /\ Fetching /\ pc' = "items" /\ pageItems' = 0 /\ newItems' = 0
          /\ UNCHANGED <<page, mode, read, origin, seenItems, pageURLs, nextURL>>
      BY <1>2 DEF FeedArrives, Fetching
    <2>2. mode # "explicit" => \A i \in 1..page : BringsNews(i)'
      <3>1. CASE pc = "fetch"
        BY <1>n, <2>1, <3>1 DEF News, Guessing
      <3>2. CASE pc = "discover"
        <4>1. 1..page = {}
          BY <1>0, <3>2 DEF Counting
        <4> QED
          BY <4>1
      <3> QED
        BY <2>1, <3>1, <3>2 DEF Fetching
    <2>3. page = 0 => seenItems = {}
      BY <2>1 DEF News, Fetching
    <2>4. GuessesBringNews'
      BY <1>n, <2>1 DEF News, GuessesBringNews
    <2> QED
      BY <2>1, <2>2, <2>3, <2>4 DEF News, Guessing
  <1>3. ASSUME NEW id \in Ids, NextItem(id)
        PROVE  News'
    <2>1. /\ pc = "items" /\ pageItems' = pageItems + 1
          /\ UNCHANGED <<pc, page, mode, pageURLs, nextURL>>
          /\ read' = Append(read, id) /\ origin' = Append(origin, page + 1)
          /\ \/ id \in seenItems /\ newItems' = newItems
             \/ id \notin seenItems /\ newItems' = newItems + 1
      BY <1>3 DEF NextItem, loopVars, history
    <2>2. page + 1 \in 1..MaxPages
      BY <2>1, PageInRange
    <2>3. /\ \A i : BringsNews(i) => BringsNews(i)'
          /\ id \notin seenItems => BringsNews(page + 1)'
      BY <2>1, <2>2, NewsKept DEF ItemsRead
    <2>4. newItems' > 0 => BringsNews(page + 1)'
      <3>1. id \in seenItems /\ newItems > 0 => BringsNews(page + 1)
        BY <2>1 DEF News
      <3> QED
        BY <2>1, <2>3, <3>1
    <2>5. page = 0 => newItems' > 0
      <3>1. page = 0 /\ id \in seenItems => newItems > 0
        BY <1>0, <2>1 DEF News
      <3> QED
        BY <1>0, <2>1, <3>1
    <2>6. mode # "explicit" => \A i \in 1..page : BringsNews(i)'
      BY <2>1, <2>3 DEF News, Guessing
    <2>7. GuessesBringNews'
      BY <2>1, <2>3 DEF News, GuessesBringNews
    <2>8. pageItems' > 0
      BY <1>0, <2>1
    <2> QED
      BY <2>1, <2>4, <2>5, <2>6, <2>7, <2>8 DEF News
  <1>4. CASE EndPage
    <2>1. /\ pc = "items"
          /\ UNCHANGED <<read, origin, seenItems, pageURLs>>
          /\ \/ pc' = "next" /\ page' = page + 1
             \/ pc' = "done"
      BY <1>4 DEF EndPage, Return, history
    <2>2. /\ Len(pageURLs) = page + 1 /\ Len(pageURLs) - 1 = page
          /\ mode = "none" => page = 0
      BY <1>0, <2>1 DEF Counting
    <2>3. /\ mode # "none" => mode' = mode
          /\ mode' = "none" => nextURL' = NoURL
          /\ mode' = "wordpress" /\ nextURL' # NoURL =>
                IF mode = "none" THEN pageItems > 0 ELSE newItems # 0
      BY <1>4, EndPageFacts
    <2>4. mode # "explicit" => \A i \in 1..page : BringsNews(i)
      BY <2>1 DEF News, Guessing
    <2>5. page = 0 /\ pageItems > 0 => newItems > 0
      BY <2>1 DEF News
    <2>6. mode' = "wordpress" /\ nextURL' # NoURL => \A i \in 1..page + 1 : BringsNews(i)'
      <3> SUFFICES ASSUME mode' = "wordpress", nextURL' # NoURL, NEW i \in 1..page + 1
                   PROVE  BringsNews(i)
        BY <1>n, <2>1
      <3>1. mode # "explicit" /\ newItems > 0
        BY <1>0, <2>2, <2>3, <2>5
      <3>2. CASE i = page + 1
        BY <2>1, <3>1, <3>2 DEF News
      <3>3. CASE i # page + 1
        <4>1. i \in 1..page
          BY <1>0, <3>3
        <4> QED
          BY <2>4, <3>1, <4>1
      <3> QED
        BY <3>2, <3>3
    <2>7. mode' # "explicit" /\ nextURL' # NoURL => mode' = "wordpress"
      BY <1>4, <2>3, EndPageFacts
    <2>8. GuessesBringNews'
      <3>1. mode' = "wordpress" => mode # "explicit"
        BY <2>3
      <3> QED
        BY <1>n, <2>1, <2>2, <2>4, <3>1 DEF GuessesBringNews
    <2>9. page' # 0 \/ pc' = "done"
      BY <1>0, <2>1
    <2> QED
      BY <2>1, <2>6, <2>7, <2>8, <2>9 DEF News, Guessing
  <1>5. ASSUME NEW u \in Links, Discover(u)
        PROVE  News'
    <2>1. /\ pc = "fetch" /\ pc' = "discover"
          /\ UNCHANGED <<page, mode, read, origin, seenItems, pageURLs>>
      BY <1>5 DEF Discover, MayDiscover, loopVars, itemVars
    <2> QED
      BY <1>n, <2>1 DEF News, Guessing, GuessesBringNews
  <1>6. ASSUME \/ Stop
               \/ \E kind \in {"missing", "other"} : RequestFails(kind)
               \/ NotFeed
        PROVE  News'
    <2>1. pc' = "done" /\ UNCHANGED <<mode, read, origin, pageURLs>>
      BY <1>6 DEF Stop, RequestFails, NotFeed, Return, loopVars, itemVars, history
    <2> QED
      BY <1>n, <2>1 DEF News, Guessing, GuessesBringNews
  <1>7. CASE UNCHANGED vars
    <2>1. UNCHANGED <<pc, page, nextURL, mode, seenItems, read, origin, pageItems, newItems, pageURLs>>
      BY <1>7 DEF vars, loopVars, itemVars, history
    <2> QED
      BY <1>n, <2>1 DEF News, Guessing, GuessesBringNews
  <1> QED
    BY <1>1, <1>2, <1>3, <1>4, <1>5, <1>6, <1>7 DEF Next, Terminated
-----------------------------------------------------------------------------
LEMMA InitInvariant == Init => IInv
  <1> SUFFICES ASSUME Init PROVE IInv
    OBVIOUS
  <1>1. TypeOK
    <2>1. nextURL \in URLs
      BY PaginationAssumption DEF Init
    <2>2. doc \in [source : URLs \cup {NoURL}, following : URLs \cup {NoURL}, wordPress : BOOLEAN]
      BY DEF Init, NoDocument
    <2>3. /\ page \in 0..MaxPages /\ wordPressPage \in 0..MaxInt
          /\ pageItems \in 0..MaxItems /\ newItems \in 0..MaxItems
      BY PaginationAssumption DEF Init
    <2> QED
      BY <2>1, <2>2, <2>3 DEF Init, TypeOK
  <1>2. Counting
    <2>1. Len(pageURLs) = 0 /\ Len(sources) = 0 /\ MaxPages \in Nat
      BY PaginationAssumption DEF Init
    <2> QED
      BY <2>1 DEF Init, Counting, Fetching
  <1>3. Visited /\ ItemsRead
    BY DEF Init, Visited, EachPageOnce, ItemsRead, FirstOccurrences, New
  <1>4. Numbers /\ News /\ Failures
    BY DEF Init, Numbers, GuessesConsecutive, Guessing, News, GuessesBringNews, Failures, FailuresReported
  <1> QED
    BY <1>1, <1>2, <1>3, <1>4 DEF IInv

THEOREM Invariance == Spec => []IInv
  <1>1. IInv /\ [Next]_vars => IInv'
    BY Typing, CountingStep, VisitedStep, ItemsReadStep, NumbersStep, NewsStep, FailuresStep DEF IInv
  <1> QED
    BY InitInvariant, <1>1, PTL DEF Spec

\* The types of the state; a guessed page number never overflows.
THEOREM TypeCorrect == Spec => []TypeOK
  BY Invariance, PTL DEF IInv

\* However servers link and redirect, no page is requested again.
THEOREM PagesRequestedOnce == Spec => []EachPageOnce
  <1>1. IInv => EachPageOnce
    BY DEF IInv, Visited
  <1> QED
    BY Invariance, <1>1, PTL

\* The items are the first occurrences of the IDs read.
THEOREM ItemsDeduplicated == Spec => []FirstOccurrences
  <1>1. IInv => FirstOccurrences
    BY DEF IInv, ItemsRead
  <1> QED
    BY Invariance, <1>1, PTL

\* Guessed page numbers are consecutive.
THEOREM GuessesNumbered == Spec => []GuessesConsecutive
  <1>1. IInv => GuessesConsecutive
    BY DEF IInv, Numbers
  <1> QED
    BY Invariance, <1>1, PTL

\* A guessed sequence goes on only from a page with an item that no page before
\* it had.
THEOREM GuessesEnd == Spec => []GuessesBringNews
  <1>1. IInv => GuessesBringNews
    BY DEF IInv, News
  <1> QED
    BY Invariance, <1>1, PTL

\* A failure is an error unless it is that of a guessed page.
THEOREM NoTruncation == Spec => []FailuresReported
  <1>1. IInv => FailuresReported
    BY DEF IInv, Failures
  <1> QED
    BY Invariance, <1>1, PTL

\* The number of pages is bounded and discovery is part of the first.
THEOREM RequestsBounded == Spec => []RequestBudget
  <1>1. IInv => RequestBudget
    <2> SUFFICES ASSUME IInv PROVE RequestBudget
      OBVIOUS
    <2>1. Len(pageURLs) <= MaxPages
      BY DEF IInv, Counting
    <2>2. pc = "discover" => Len(pageURLs) = 0 + 1
      BY DEF IInv, Counting, Fetching
    <2> QED
      BY <2>1, <2>2 DEF RequestBudget
  <1> QED
    BY Invariance, <1>1, PTL
=============================================================================
