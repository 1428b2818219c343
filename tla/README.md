# TLA+ specifications of rssnip

rssnip reads RSS, Atom, RDF and JSON feeds and writes their items as JSON
Lines; the same code is a Go library (`Fetch`, `Parse`,
`feediscovery.FindAll`). Most of it converts documents. The parts below keep
state over several steps, run concurrently, or must cope with whatever servers
and documents throw at them; those are specified here, checked with TLC on small
instances and, for any value of the constants, proved with TLAPS.

Source references are to files under `src/`.

## The system

| component | state | operations | interacts with | hard behaviour |
|---|---|---|---|---|
| concurrent fetching, `fetchFeeds` in `rssnip.go` | channels `jobs` and `results`, `pending`, `nextJob`, a derived context | dispatch, receive, consume, shutdown; workers; closer | calls `Fetch` in workers, `consume` (output) in main | goroutine interleavings, cancellation, several failures at once, shutdown |
| request pacing, `feed_transport.go` | token and `lastFinished` per host, the `scheduledHostFetch` of a call | `Do`, `RoundTrip`, closing a body | sits on both sides of `http.Client`, which calls `RoundTrip` once per redirect | handing over the duty to release, deadlines, cancellation, waiting for one another |
| pagination, `fetchFeedPagesWithOptions` in `feed.go` | URL of the next page, mode, seen URLs and IDs, items | one iteration per page, discovery on the first | `fetchFeedPage`, which sends requests and calls `FindAll` | servers that loop, redirect, repeat themselves or fail |
| early end by date, `paginationDateOrder` in `feed.go` | two candidates for the order of the feed | observe an item, exhausted | called by the loop over pages; `withinPeriod` filters later | mixed, missing and unordered dates |
| feed discovery, `feediscovery/discover.go`, `url.go`, `document.go` | base URL, template depth, links | checks of the input, two passes over a document | called by pagination and by library users | what a first pass may leave to a second, failures late in a document |
| XHTML scanner, `discoveryTokenizer` in `document.go` | two depths | one step per token | the other source of tags for discovery | namespaces, the limit of nesting |
| foreign content, `feediscovery/html.go` | a stack of frames, an index of names into it | one step per tag | feeds tags to discovery | long sequences of misnested tags |
| document decoding and HTML detection, `document.go` | none | read up to the limit, guess the encoding | used by discovery and `Parse` | a document cut off at the limit |
| feed parsing, `parseFeedDetails` and `parseJSONFeed` in `feed.go` | lists of items and of Atom entries beside it | one iteration per item | called by pagination and `Parse` | dropped items shift one list against the other |
| `xml:base` and next links, `atom.go`, `nextPageURL` | a stack of bases each, depth of entries | one step per XML token | two readers of one document | elements that are read as a whole, malformed bases |
| options, `Fetch` and `Parse`, `api.go` | the options of a call; the array of `filterItems` | apply and check options, filter | called by `fetchFeeds` and library users | the result overwrites its input |
| command line, `runInLocation` in `rssnip.go` | flags, URLs of standard input | one check after the other | makes the one client, calls `fetchFeeds` | checks made again by each `Fetch`, the default period |
| output, `output.go` | the iterator of a query | one value at a time | called by `fetchFeeds` as `consume` | stops in the middle of an item |
| skills command, installer | none | | | |

What makes them correct:

* Fetching several feeds at once must not show: what is written, in which order
  and what the run returns are those of a loop that fetches one after the other.
  It must neither hang, nor leave a goroutine, nor run ahead without bound.
* A host sees one exchange at a time and a pause between two; the token that
  ensures this is given back exactly once on every path; calls end.
* Pagination ends, never repeats a page, keeps its mode, returns each item once
  and reports every failure that truncates the result.
* Ending the pagination early loses nothing that the filter would have kept, as
  long as the feed goes on as it began.
* Discovery finds what the document advertises, all of it or an error.
* The shortcuts in the stack of foreign elements compute what a search would.
* Both readers of `xml:base` go by the same scopes, in every document.
* An item has the parts of its own entry, and no entry is lost.
* Arguments the command accepts are never the error of a feed, and the items are
  those of the period that was asked for.
* Output has no gaps up to the first failure, and ends soon after a cancellation.

`PROJECT.json` lists the hazards at their lines with the properties that
cover them.

## Modules

    SequentialFetch   <--implements--  FetchFeeds
         FetchFeeds   <--implements--  PacedFetch  (with PoliteTransport)   PacedFetchProofs
    PacedHosts        <--implements--  PoliteTransport   PoliteTransportProofs
                                       Pagination        PaginationProofs
                           Periods <-  DateOrder         DateOrderProofs
                           Periods <-  Options  <-  CommandLine  <-  Command  (with Library)
                                                         CommandProofs
                                       FeedDiscovery     FeedDiscoveryProofs
    OpenElements      <--implements--  HTMLNamespaces    HTMLNamespacesProofs
                  (both extend ForeignElements)
                                       Output            CommandProofs
                                       FeedItems         ItemsProofs
                                       XMLBase           ItemsProofs

(`<-` is EXTENDS.)

An `MC` module gives a module its constants for TLC; each `.cfg` is a run.
Definitions marked `Fault:` are never used by a specification: each is a
plausible error in the definition that follows it, and shows which property
would catch it.

**FetchFeeds.** `main` is a program counter: `fill` (the first jobs), `loop`,
`consume`, `refill` (the job after a consumed feed), then the deferred function
in `cancel`, `close`, `wait`. A worker waits for a job, fetches or sends. Both
channels are unbuffered, so a send and its receive are one step of both
(`Dispatch`, `Receive`); every other case of a `select` is an action of its own.
`ctxDone` and `fetchDone` are the caller's context and the one derived from it,
which follows in a step of its own (`CancelPropagates`). `Fetch` is a step with
any outcome, except that it says "canceled" only under a context that is done.
A feed is its number of items; consuming is the loop of `writeItemValuesWithFeed`.

**PoliteTransport.** A client is a goroutine inside of `Do`; its place says
whether it waits for the token (`acquire`), for the pause (`delay`), is in
`http.Client`, on the wire, reading a body, or releasing a host, which takes two
steps (`Stamp`, `Unlock`). `taken` is the flag of `scheduledHostFetch`.
`http.Client` is external: it may fail before `RoundTrip`, follow redirects to
any host, and closes the body before it does. Points in time are kept as what is
left until them, so that time (`Tick`) need not be bounded. Canonical names are a
function on names.

**PacedFetch.** The workers of FetchFeeds as the clients of one PoliteTransport,
both used as they are: FetchFeeds is extended, the transport is an instance whose
clients are the workers and whose cancellation is `fetchDone`. A Fetch is the
requests it makes (`Request`), at most `MaxRequests`; it ends (`FetchEnds`) only
between two, since `fetchFeedDocument` closes the body it has been given. Nothing
else is assumed of it, and so the fairness that FetchFeeds puts on `FetchReturns`
has to follow from that of the transport: `ImplementsFetchFeeds` is `FairSpec` of
FetchFeeds. A request under a context that is done may go as far as the network
here; `http.Transport` ends it there.

**Pagination.** The loop of `fetchFeedPagesWithOptions` from its head (`Stop`,
`Request`) through `fetchFeedPage` (`RequestFails`, `NotFeed`, `Discover`,
`FeedArrives`) and the loop over items (`NextItem`) to the choice of the next
page (`EndPage`). A URL is its `paged` parameter, its fragment and the rest
(`site`). Nothing is assumed of servers. `Init` and the history variables
(`pageURLs`, `sources`, `link`, `read`, `failure`) are all the properties need to
speak of the past.

**DateOrder.** The items of all pages one by one, each with its two dates, and
after an early end the items that are never fetched. Those are assumed to keep
whatever order the fetched ones have (`KeepsOrder`), as feed.go:271-272 and
README.md:170-172 say; without this, early ending is knowingly lossy.

`Periods` has `filterDate` and `withinPeriod`, shared by all that speak of dates.

**FeedDiscovery.** `FindAll` from its checks of the input (`RefuseInput`, `NotHTML`)
on. The input comes in pieces of any length (`ReadMore`) up to the limit of the
reader (`ReadLimit`); `body` is what has been read. What is scanned is a sequence
of tags. The pass for the base and the pass for the links walk it with `nextDocumentTag`, each from the start. In XHTML, `next` counts
the elements of every namespace (`xmlDepth`) and `nextDocumentTag` the templates of
XHTML (`templateDepth`); the decoder of `encoding/xml` is external and fails at an
end tag that is not that of the innermost element (`Mismatched`) and at the end of a
document with open elements. In HTML there are only templates to count. What a link
is, is a rel, a hint (its type, path or title) and an href, of which five kinds stand
for what URL resolution tells apart. `Open`, `Depth`, `DocumentBase`, `Advertised` and
`Broken` say the same of the document as a whole, by counting.

**XMLBase.** A document is made up while it is read, tag by tag: first by
`normalizeAtomDocument`, then, from the start, by `nextPageURL`. A URL is the list of
references it was resolved from, so that a base applied twice or left out shows.
`depth` is the decoder's: how many elements are around each tag read so far; neither
reader looks at it, except that the end of an element comes with the element's name.
What the document says is in terms of the elements around a tag (`Open`) and of no
stack: `Base` counts the relative references inside of the innermost absolute, empty
or malformed one. Names differ from those of FeedItems (`reader`, `here`, `XMLSpec`)
since ItemsProofs is about both.

**FeedItems.** The loop over the items of a feed. A text or an author is the number
of the entry it came from, an attachment keeps the number of its enclosure. gofeed
keeps items and Atom entries in two lists; `AtomEntry` looks into the second by the
index in the first.

**Options, CommandLine, Library, Command.** An option is the record of the field it
sets; in `Applied` the last option of a list that sets a field counts, and else the
default. CommandLine has an action for
each check of `runInLocation`, in its order, and ends with the options of
`fetchFeeds`. Library is `Fetch` or `Parse`, one action per check, then the loop of
`filterItems`: `array` is what `items` and `filtered` share. Command joins them: the
options of the command become those of the call (`StartFetch`), or another program
calls with options that nothing has checked (`ByProgram`). `Asked` says in terms of
the flags which items are wanted.

**Output.** The values of an item are whatever a query yields: the item, a string,
something JSON does not have, an error. Without a query it is the item. With one,
gojq looks at the context before each value (`Interrupted`). A place is an item and a
value of it; `LinesExact` compares the lines with the values at all places before the
one where the loop stops. Its names differ from those of Command (`queried`, `at`,
`OutputSpec`) since CommandProofs is about both.

**HTMLNamespaces.** One step per tag that the tokenizer yields, with the push
or the pops it causes and the count of templates in `nextDocumentTag`. Frames
are numbered from 1; 0 is the code's -1 and an absent entry of `openNames`.
`ForeignElements` has the rules for namespaces, shared with `OpenElements`, which
has the stack and nothing else.

## Runs

| run | bounds | shows |
|---|---|---|
| `MCFetchFeeds.cfg` | 4 feeds of up to 1 item, 3 workers | `TypeOK`, `OutputExact`, `FirstErrorWins`, `NoSpuriousCancellation`, `NoIncompleteStream`, `Window`, `DispatchReady`, `FailFast`; `ImplementsSequential`; `Returns` |
| `MCPoliteTransport.cfg` | 2 clients, 2 hosts with 3 names, 1 redirect, pause 1, timeout 1 | `TokenOwned`; `PacesHosts`; `RequestsEnd` |
| `MCPacedFetch.cfg` | 2 feeds at one host, 2 workers, 2 requests each | `QuietOnReturn`; `ImplementsFetchFeeds` |
| `MCPagination.cfg` | 3 pages of up to 2 items, 2 IDs, 2 sites, greatest int 3 | `TypeOK`, `EachPageOnce`, `FirstOccurrences`, `GuessesConsecutive`, `GuessesBringNews`, `FailuresReported` |
| `MCPaginationRepeated.cfg` | 2 pages | violates `RepeatedURLsStop`, see below |
| `MCDateOrder.cfg` | 4 items and 1 unseen, 3 times, 2 samples | `OrderExact`, `EnoughSamples`, `NothingOmitted` |
| `MCFeedDiscovery.cfg` | 26 inputs of up to 4 bytes, limit 2 bytes; all HTML of up to 4 of 10 tags, all XHTML of up to 5 of 8 tags, nesting limit 2 | `LinksExact`, `NoPartialLinks`, `ReadInFull` |
| `MCHTMLNamespaces.cfg` | 8 names, nesting limit 4, any number of tags | `IndexExact`, `BoundaryExact`, `IntegrationPoints`, `TemplatesAgree`; `ImplementsOpenElements` |
| `MCXMLBase.cfg` | up to 6 tags over 11 elements, depth 4 | `ResolvedOnce`, `NextLinkExact` |
| `MCFeedItems.cfg` | up to 4 of 6 entries, every format | `OwnParts`, `TextAsMarked` |
| `MCCommand.cfg` | all arguments, 3 instants, 2 limits of pages; 11 lists of options; up to 2 items with any dates | `OptionsAccepted`, `ItemsAsAsked` |
| `MCOutput.cfg` | up to 2 items with up to 2 values | `LinesExact`, `StopsWhenCanceled` |

`TypeOK` is checked where a counter could leave its range (the jobs of FetchFeeds, the
page numbers of Pagination); elsewhere it is only proved. So are `RequestBudget`,
which is the loop's own bound, and `StacksMatch`, the heights of the stacks of
XMLBase; `InputOrder` is a part of `OutputExact`. A run states its fairness where it
has a liveness property; safety does not depend on it.

Why these bounds: four feeds and three workers are the least in which the window
slides, two results are early at once and a failure is pending while another
worker still fetches. Two clients contend for a host, and with two hosts each can
be redirected to the other's. Three pages are the least in which a mode chosen by
the first page meets a page that contradicts it and the greatest int is reached.
With two samples the third and fourth item decide about order and boundary; that
published dates are preferred and the period has no end is one choice of constants,
and `EarlyStopSound` is about all of them. Inputs of up to two bytes more than a
document may have end before, at and after what the reader reads. Four tags of HTML hold a base and a link with a template around either, or one template
more than the limit allows; five of XHTML close two elements around a link at the
limit, so that the depth alone decides. A nesting of four holds HTML in SVG in a template.
Six tags hold three elements with their ends, so that a scope is left and another
entered, or a next link stands behind an entry; four entries hold one kept between
two dropped ones. In Command the second item is written where the first was.
PacedFetch has two feeds that need the same host, which is what their workers can
wait for each other for; its `MaxItems` is 0, since items are no matter of the
transport. FetchFeeds alone has more feeds than workers.

The documents, results and answers are not sampled: each is any choice from its
set, at every step. Deadlock is checked, except where the program simply ends: in
DateOrder, XMLBase, FeedItems, Command and Output. In FetchFeeds, Pagination,
FeedDiscovery and HTMLNamespaces the end of the program is an action that changes
nothing. In
PoliteTransport and PacedFetch time always goes on, so that only `RequestsEnd` and
`ImplementsFetchFeeds` show that nobody is ever stuck.

### Fairness

Weak fairness of main, of each worker, the closer and the propagation of a
cancellation in FetchFeeds: the Go scheduler runs every goroutine that can run.
That `Fetch` returns is part of the worker's fairness there; in PacedFetch it is
not, and follows from the fairness of the transport and the bound on requests (at
most `MaxPages` and one for discovery). The cancellation itself is never fair.

In PoliteTransport a client's own steps and time are weakly fair, and so is what
it does once its context is done (`GiveUp`): `http.Transport` and the reader of a
body return when the request's context is. Servers are not fair at all. Taking
the token (`AcquireToken`) is strongly fair since Go queues the senders of a
channel in order.

### Divergence

README.md:159 says "Repeated page URLs stop pagination". When discovery leads from
an HTML page to a feed URL that redirects, only the final URL is recorded as seen
(feed.go:234); a next link back to the URL named by the page is requested a second
time. The harm is small: one of the `--max-pages` is spent and the items are
dropped as duplicates. `EachPageOnce` states what does hold.

## Proofs

Every theorem is of the form `Spec => []P`, `Spec => [][A]_vars` or
`Spec => Abstract!Spec`, for every value of the constants that satisfies the named
assumption of the module (`FetchAssumption`, `RequestsAssumption`,
`TransportAssumption`, `PaginationAssumption`, `DateAssumption`, `CommandAssumption`,
`DiscoveryAssumption`, `DepthAssumption` with `VoidsAssumption`,
`FeedItemsAssumption`, `OutputAssumption`, `XMLBaseAssumption`): that bounds are numbers, that inputs are of
the kind described, and, in `RequestsAssumption`, what the theorems about the transport
need of hosts. Each proof module
strengthens the properties to an inductive `IInv`, shows that `Init` implies it and
every action keeps it, and derives the theorems.

* `PacedFetchProofs`, FetchFeeds alone. The strengthening says where each feed is: not dispatched, at
  one worker, in `pending`, or consumed, never in two places; that what is
  in transit is what `fetched` records; and how contexts, channels and program
  counters go together. `Refinement` maps `Fetch` results that main takes from
  `pending` to the load of the sequential loop.
* `PacedFetchProofs`, the composition. A run of PacedFetch is a run of FetchFeeds
  (`RunsFetchFeeds`) and of PoliteTransport (`RunsTransport`), so whatever is proved of
  the two holds of it: it implements the sequential loop, and its workers pace hosts.
  `NothingLeftRunning` joins them: a request is under way only while its worker is in
  `Fetch`, workers have exited when main has returned, and a token that is out has an
  owner (`TokenOwned`).
* `PoliteTransportProofs`. `TokenOwned` is inductive with `TakenOnce` (past the
  first `RoundTrip`, `Do` has no duty left). `Pacing` needs `PauseCovered`: the pause
  still due is bounded by `lastFinished` as long as nobody holds the token, and is
  over once a holder is past its delay.
  `NoDeadlock` is the safety part of `RequestsEnd`: who waits for a token waits for a
  client that does not wait, and a release never blocks.
* `PaginationProofs`. The invariant relates the sets that the loop keeps to the
  history: `seenURLs` to what was requested and returned, `seenItems` and `items` to
  `read`, `wordPressPage` and `nextURL` to the number of pages. For `GuessesEnd` the
  history `origin` has the page of each item read. `News` says that every page before
  the current one has an item that no page before it had, and so has the current one
  if `newItems` is positive; an item that is read later takes no news away (`NewsKept`).
* `DateOrderProofs`. `rejected` and the previous date decide order for the whole
  sequence, because the previous dated item is a lower bound of an ordered one.
  `EarlyStopSound` then bounds every unseen date by the last one seen. `StopSampled`
  counts the dated items, as a set of positions that grows by at most one per item.
* `CommandProofs`. For `CommandOptionsAccepted` the invariant says at each check of the command
  what the checks before it have left to be true of the flags; `NewOptions` then finds
  nothing to reject. URLs are no options: Fetch checks them feed by feed, and the
  theorem does not say that it accepts them. For `ItemsOfThePeriod` it says of the array that `items` and
  `filtered` share: up to `kept` it holds the items kept, in order, and from `next` on,
  which is never before, still what was there, so that no item is overwritten
  before it is read.
* `CommandProofs`, Output. While the loop runs, the places written are those before the
  cursor, in their order (`LinesInOrder`); after a failure they are those before the one
  that failed. At most one line is behind a cancellation because a query looks at
  the context before its next value and an item without a query has one
  value only (`NothingElse`).
* `FeedDiscoveryProofs`. The counters of a pass are what is open at its position in the
  document: `templateDepth` the templates, `xmlDepth` the elements. In the
  document an element is open if from it on start tags outnumber end tags. Induction
  over the document is not available, so the facts about open elements are
  carried along with the position: from an open element on there are as many start tags
  too many as there are elements open from it on, and so a set of open
  elements has an innermost one, which is what an end tag closes (`NestedEnd`). From it
  follow `LinksAdvertised` (the base and the links found so far are those of the tags
  read so far) and `ErrorsReported` (nothing before the position is broken).
  For `DocumentsReadInFull` the invariant compares `body`, the bytes read so far, with
  the size of the document and the limit of the reader, which is one more than the
  limit of a document: a body within the limit is then the whole of it.
* `HTMLNamespacesProofs`. What the run checks of the stack is inductive as it
  stands; the proof says it of any stack and index (`Sound`) and shows that a pop
  and a push keep it, so that each action is one of these or both. A pop undoes
  frames down to the lowest of a name and a breakout leaves the highest frame with
  HTML content: both exist since `<` on the naturals is well-founded (`Least`,
  `Greatest`). `TemplatesCounted` needs that only foreign frames are left by a
  breakout, and that an HTML template is not void (`VoidsAssumption`).
  `Refinement` forgets `previous` and `htmlBoundary`; `openNames` is then the
  element a search from the top finds (`NearestIsIndexed`), and `htmlBoundary`
  says whether a foreign element is in between (`ReachesByBoundary`).
* `ItemsProofs`, FeedItems. After each entry the items are those of the entries before it
  that are kept, each made of its own; that an XML entry is looked up by its own index is
  what `Own` depends on. `XMLTexts` goes through the kinds of content.
* `ItemsProofs`, XMLBase. The documents come first: what is open at a tag is kept along
  with its depth, one element for each depth below it (`NestedIn`), so that an end tag
  closes the innermost element (`InnermostOpen`), and what is open at an element is what
  is open further inside and before it (`OpenNests`). `BaseInside` is the step from the
  base around an element to its own, which turns the count in `Base` into what the
  stacks compute. The invariant then has one sentence about both stacks (`StackIn`): at
  the depth of each open element they hold its base. While `DecodeElement` reads, that is
  so at the element it was called for, where the reader gets back to with as many end
  tags as `skip` says. The lemmas are about any document, so that they serve for the
  one before a step and the one after it; a tag's place in the longer one is the same
  (`SameOpening`, `SameBase`, `SameMarks`). `XMLStacks` reads the heights off it: a
  stack is as high as the element is deep, less the elements that `DecodeElement` skips.

Only model-checked are the liveness properties `Returns`, `RequestsEnd` and
`ImplementsFetchFeeds`, which are out of the prover's reach, as is the fairness in them.
Every safety property that a run checks and expects to hold is proved.

## Not modelled

* What libraries do: gofeed, `encoding/json`, `encoding/xml`, `golang.org/x/net/html`,
  gojq, `net/url`, `net/http` and the choice of a charset from byte order marks,
  headers and declarations. What the code makes of their outcomes is modelled.
* `resolveHTMLReferences` in `atom.go`, which parses HTML content and resolves
  every URL attribute in it: a walk over a tree with no state.
* The `next_url` of JSON feeds, which is one field of the document; dates
  (`parseItemDate`, `parseTimeBound`, `formatTime`), which are conversions.
* The wording of errors, which sentinel they match, and the redaction of URLs.
* A second `Close` of a body, which `sync.Once` makes harmless.
* The skills command, the installer and the release files: they call a library or
  are shell scripts.

Observations that no property states: a link whose host is followed by a colon and no
port (`http://host:/`) is not recognised as one back to the page, since
`discoveryFetchURL` removes a default port and not an empty one. The 30 seconds of `Do` cover all of a
chain of redirects with its waits, since the context of the first request is the
parent of the others. In misnested foreign content an end tag can close a template
on the stack of html.go without `nextDocumentTag` counting it; `TemplatesAgree`
speaks of properly nested elements only. A query that fails behind its first values
leaves these written: `LinesExact` is about lines, `OutputExact` about whole items.

## Plan

Everything above that keeps state is modelled, and all its safety properties are
proved. What is left is PoliteTransport under the scheduler alone: `RequestsEnd` rests on
a strongly fair `AcquireToken`, and the queue of senders that justifies it could be
modelled.
