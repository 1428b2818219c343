----------------------------- MODULE Pagination -----------------------------
(***************************************************************************)
(* fetchFeedPagesWithOptions and fetchFeedPage (src/feed.go): from one URL *)
(* to the items of its feed.  The first document may be an HTML page that  *)
(* names the feed; the feed's pages are then read by following the links   *)
(* to the next page or, for WordPress, by guessing their URLs.             *)
(*                                                                         *)
(* The servers are not modelled: what a request returns is any choice, so  *)
(* they may redirect, loop, repeat themselves, change their mind or fail.  *)
(* A document is what the loop sees of it: the URL it came from, the link  *)
(* to the next page, whether the generator is WordPress, and its items,    *)
(* which are chosen one by one as the loop over them takes them.           *)
(***************************************************************************)
EXTENDS Naturals, Sequences, FiniteSets

CONSTANTS Sites,      \* all of a URL but its paged parameter and fragment
          MaxInt,     \* the greatest int
          NoURL,      \* the empty string in place of a URL
          Ids,        \* item IDs
          FeedURLs,   \* the URLs Fetch may be called with
          Redirects,  \* the URLs a request may be redirected to
          Links,      \* the URLs a document may point at
          MaxPages,   \* WithMaxPages
          MaxItems,   \* bound on the items of one document
          Discovery,  \* WithDiscovery
          Since       \* TRUE if WithSince was given

\* A paged parameter that is absent or no positive number counts as 0.
URLs == [site : Sites, paged : 0..MaxInt, frag : BOOLEAN]

ASSUME PaginationAssumption ==
    /\ MaxInt \in Nat \ {0}
    /\ MaxPages \in Nat \ {0}
    /\ MaxItems \in Nat
    /\ NoURL \notin URLs
    /\ FeedURLs \subseteq URLs
    /\ Redirects \subseteq URLs
    /\ Links \subseteq URLs
    /\ Discovery \in BOOLEAN
    /\ Since \in BOOLEAN

\* paginationURL
Unfragmented(u) == IF u = NoURL THEN NoURL ELSE [u EXCEPT !.frag = FALSE]

\* currentWordPressPage
CurrentPage(u) == IF u.paged > 0 THEN u.paged ELSE 1

\* nextWordPressPageURL: the URL and number of the page after page n.
\* Fault: the greatest int has a successor.
UncheckedGuess(u, n) ==
    [url |-> [u EXCEPT !.paged = n + 1, !.frag = FALSE], number |-> n + 1]
NextGuess(u, n) ==
    IF n < 1 \/ n = MaxInt
    THEN [url |-> NoURL, number |-> n]
    ELSE [url |-> [u EXCEPT !.paged = n + 1, !.frag = FALSE], number |-> n + 1]

NoDocument == [source |-> NoURL, following |-> NoURL, wordPress |-> FALSE]

VARIABLES
    pc,             \* "next": at the head of the loop; "fetch", "discover":
                    \* in fetchFeedDocument; "items": in the loop over pageItems
    page,           \* index of the page
    nextURL,
    mode,           \* the pagination mode
    wordPressPage,
    seenURLs,
    seenItems,
    items,          \* what is returned: positions in read
    doc,            \* the document being read
    pageItems,      \* the number of its items so far
    newItems,
    ret,            \* what is returned: "items" or "error"
    pageURLs,       \* history: the URL of each page requested
    sources,        \* history: the URL each page came from
    link,           \* history: the URL found by discovery
    read,           \* history: the ID of every item of every page
    origin,         \* history: the page that each of these is of
    failure         \* history: how a request failed

loopVars == <<page, nextURL, mode, wordPressPage, seenURLs>>
itemVars == <<seenItems, items, pageItems, newItems, read, origin>>
history == <<pageURLs, sources, link, failure>>
vars == <<pc, loopVars, itemVars, doc, ret, history>>

Init ==
    /\ pc = "next"
    /\ page = 0
    /\ nextURL \in FeedURLs
    /\ mode = "none"
    /\ wordPressPage = 0
    /\ seenURLs = {}
    /\ seenItems = {}
    /\ items = <<>>
    /\ doc = NoDocument
    /\ pageItems = 0
    /\ newItems = 0
    /\ ret = "none"
    /\ pageURLs = <<>>
    /\ sources = <<>>
    /\ link = NoURL
    /\ read = <<>>
    /\ origin = <<>>
    /\ failure = "none"

Return(r) ==
    /\ ret' = r
    /\ pc' = "done"
-----------------------------------------------------------------------------
(* the head of the loop *)

Exhausted == page = MaxPages \/ nextURL = NoURL

Stop ==
    /\ pc = "next"
    /\ Exhausted \/ Unfragmented(nextURL) \in seenURLs
    /\ Return("items")
    /\ UNCHANGED <<loopVars, itemVars, doc, history>>

Request ==
    /\ pc = "next"
    /\ ~Exhausted
    /\ Unfragmented(nextURL) \notin seenURLs
    /\ pc' = "fetch"
    /\ nextURL' = Unfragmented(nextURL)
    /\ seenURLs' = seenURLs \cup {nextURL'}
    /\ pageURLs' = Append(pageURLs, nextURL')
    /\ UNCHANGED <<page, mode, wordPressPage, itemVars, doc, ret, sources, link, failure>>
-----------------------------------------------------------------------------
(* fetchFeedPage *)

\* An error is a failure of Fetch unless it only says that a guessed page
\* does not exist.
\* Fault: any page may be missing.
ExcusedAnywhere(kind) == kind = "missing"
Excused(kind) == kind = "missing" /\ mode = "wordpress"

\* "missing": status 404 or 410; "other": another status, an invalid URL, a
\* failure of the transport, a document that is too large, a done context.
RequestFails(kind) ==
    /\ pc \in {"fetch", "discover"}
    /\ failure' = kind
    /\ Return(IF Excused(kind) THEN "items" ELSE "error")
    /\ UNCHANGED <<loopVars, itemVars, doc, pageURLs, sources, link>>

MayDiscover == pc = "fetch" /\ page = 0 /\ Discovery

\* The document does not parse as a feed and names no feed either.
NotFeed ==
    /\ pc \in {"fetch", "discover"}
    /\ failure' = "not feed"
    /\ Return("error")
    /\ UNCHANGED <<loopVars, itemVars, doc, pageURLs, sources, link>>

\* It names a feed at u; FindAll drops the fragment.
Discover(u) ==
    /\ MayDiscover
    /\ pc' = "discover"
    /\ link' = Unfragmented(u)
    /\ UNCHANGED <<loopVars, itemVars, doc, ret, pageURLs, sources, failure>>

\* The URLs a requested document may come from; the final URL of a redirect
\* has the fragment of its Location.
RequestURL == IF pc = "discover" THEN link ELSE nextURL
SourceURLs == {RequestURL} \cup Redirects

\* Fault: the final URL is kept with its fragment.
SeenFragment(u) == seenURLs \cup {u}
Seen(u) == seenURLs \cup {Unfragmented(u)}

FeedArrives(u, following, wordPress) ==
    /\ pc \in {"fetch", "discover"}
    /\ pc' = "items"
    /\ doc' = [source |-> u, following |-> Unfragmented(following), wordPress |-> wordPress]
    /\ seenURLs' = Seen(u)
    /\ pageItems' = 0
    /\ newItems' = 0
    /\ sources' = Append(sources, Unfragmented(u))
    /\ UNCHANGED <<page, nextURL, mode, wordPressPage, seenItems, items, read,
                   origin, ret, pageURLs, link, failure>>
-----------------------------------------------------------------------------
(* the items of a page *)

\* Fault: an ID is forgotten.
NextItemForgotten(id) ==
    /\ pc = "items" /\ pageItems < MaxItems
    /\ read' = Append(read, id)
    /\ origin' = Append(origin, page + 1)
    /\ pageItems' = pageItems + 1
    /\ IF id \in seenItems
       THEN UNCHANGED <<seenItems, items, newItems>>
       ELSE /\ seenItems' = {id}
            /\ items' = Append(items, Len(read'))
            /\ newItems' = newItems + 1
    /\ UNCHANGED <<pc, loopVars, doc, ret, history>>

NextItem(id) ==
    /\ pc = "items" /\ pageItems < MaxItems
    /\ read' = Append(read, id)
    /\ origin' = Append(origin, page + 1)
    /\ pageItems' = pageItems + 1
    /\ IF id \in seenItems
       THEN UNCHANGED <<seenItems, items, newItems>>
       ELSE /\ seenItems' = seenItems \cup {id}
            /\ items' = Append(items, Len(read'))
            /\ newItems' = newItems + 1
    /\ UNCHANGED <<pc, loopVars, doc, ret, history>>

\* Where the next page is.
NextPage(url, number, m) ==
    /\ nextURL' = url
    /\ wordPressPage' = number
    /\ mode' = m

GuessPage(n) ==
    LET guess == NextGuess(doc.source, n)
    IN NextPage(guess.url, guess.number, "wordpress")

\* Fault: a page with items is news.
StaleIfEmpty == pageItems = 0
Stale == newItems = 0

\* Fault: a link to the next page is followed in any mode.
NextInWordPressOrLink ==
    /\ mode = "wordpress"
    /\ IF doc.following # NoURL THEN NextPage(doc.following, wordPressPage, mode)
       ELSE IF Stale THEN NextPage(NoURL, wordPressPage, mode)
       ELSE GuessPage(wordPressPage)

NextInWordPress ==
    /\ mode = "wordpress"
    /\ IF Stale THEN NextPage(NoURL, wordPressPage, mode)
                ELSE GuessPage(wordPressPage)

NextInExplicit ==
    /\ mode = "explicit"
    /\ NextPage(doc.following, wordPressPage, mode)

\* The first page chooses the mode.
NextOfFirst ==
    /\ mode = "none"
    /\ CASE doc.following # NoURL            -> NextPage(doc.following, wordPressPage, "explicit")
         [] doc.following = NoURL /\ doc.wordPress /\ pageItems > 0
                                             -> GuessPage(CurrentPage(doc.source))
         [] OTHER                            -> NextPage(NoURL, wordPressPage, mode)

\* The end of an iteration.  With WithSince the dates seen may end the loop
\* here (DateOrder has the rule).
EndPage ==
    /\ pc = "items"
    /\ NextOfFirst \/ NextInExplicit \/ NextInWordPress
    /\ \/ /\ pc' = "next"
          /\ page' = page + 1
          /\ UNCHANGED ret
       \/ /\ Since
          /\ Return("items")
          /\ UNCHANGED page
    /\ doc' = NoDocument
    /\ pageItems' = 0
    /\ newItems' = 0
    /\ UNCHANGED <<seenURLs, seenItems, items, read, origin, history>>

Terminated == pc = "done" /\ UNCHANGED vars

Next ==
    \/ Stop
    \/ Request
    \/ \E kind \in {"missing", "other"} : RequestFails(kind)
    \/ NotFeed
    \/ \E u \in Links : Discover(u)
    \/ \E u \in SourceURLs, f \in Links \cup {NoURL}, wp \in BOOLEAN : FeedArrives(u, f, wp)
    \/ \E id \in Ids : NextItem(id)
    \/ EndPage
    \/ Terminated

Spec == Init /\ [][Next]_vars
-----------------------------------------------------------------------------
(* properties *)

TypeOK ==
    /\ pc \in {"next", "fetch", "discover", "items", "done"}
    /\ page \in 0..MaxPages
    /\ nextURL \in URLs \cup {NoURL}
    /\ mode \in {"none", "explicit", "wordpress"}
    /\ wordPressPage \in 0..MaxInt
    /\ seenURLs \subseteq URLs
    /\ seenItems \subseteq Ids
    /\ items \in Seq(Nat)
    /\ doc \in [source : URLs \cup {NoURL}, following : URLs \cup {NoURL}, wordPress : BOOLEAN]
    /\ pageItems \in 0..MaxItems
    /\ newItems \in 0..MaxItems
    /\ ret \in {"none", "items", "error"}
    /\ pageURLs \in Seq(URLs)
    /\ sources \in Seq(URLs)
    /\ link \in URLs \cup {NoURL}
    /\ read \in Seq(Ids)
    /\ origin \in Seq(1..MaxPages) /\ Len(origin) = Len(read)
    /\ failure \in {"none", "missing", "other", "not feed"}

\* Whatever servers answer, no page is requested at a URL at which an earlier
\* page was requested or to which it was redirected: next links that form a
\* loop end the pagination (feed.go:219-224 and 234).
EachPageOnce ==
    \A i, j \in DOMAIN pageURLs :
        i < j => pageURLs[j] # pageURLs[i] /\ pageURLs[j] # sources[i]

\* No item read before the k-th has its ID.
New(k) == \A j \in 1..k-1 : read[j] # read[k]

\* The items are those read whose ID had not been read before, in the order
\* in which they were read, across all pages (feed.go:236-245).
FirstOccurrences ==
    /\ \A p, q \in DOMAIN items : p < q => items[p] < items[q]
    /\ \A k \in DOMAIN read :
           (\E p \in DOMAIN items : items[p] = k) <=> New(k)

\* Guessed pages are numbered consecutively from the page Fetch was given,
\* whatever they link or redirect to (feed.go:250-257 and 263-266).
GuessesConsecutive ==
    mode = "wordpress" =>
        \A i \in DOMAIN pageURLs :
            i > 1 => pageURLs[i].paged = CurrentPage(sources[1]) + i - 1

\* Page i had an item that no page before it had.
BringsNews(i) == \E k \in DOMAIN read : origin[k] = i /\ New(k)

\* A server that accepts every page number is not asked for ever: in a
\* guessed sequence each page but the last brought an item that no earlier
\* page had (feed.go:253-254 and 263, README.md:152-156).
GuessesBringNews == mode = "wordpress" => \A i \in 1..Len(pageURLs)-1 : BringsNews(i)

\* A truncated result is never passed off as the whole: after a failure the
\* items are returned only when the failed request was for a guessed page
\* that does not exist (feed.go:228-233, api.go:181-186).
FailuresReported ==
    pc = "done" =>
        (ret = "error" <=> /\ failure # "none"
                           /\ ~(failure = "missing" /\ mode = "wordpress" /\ Len(pageURLs) > 1))

\* At most MaxPages pages and one document of discovery are requested, and
\* the page that discovery led to is the first (feed.go:219 and 227,
\* api.go:173-178).
RequestBudget ==
    /\ Len(pageURLs) <= MaxPages
    /\ pc = "discover" => Len(pageURLs) = 1

\* README.md:159: "Repeated page URLs stop pagination".
RepeatedURLsStop ==
    \A i, j \in DOMAIN pageURLs :
        i < j => pageURLs[j] # pageURLs[i] /\ pageURLs[j] # link
=============================================================================
