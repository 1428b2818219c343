------------------------------- MODULE Command -------------------------------
(***************************************************************************)
(* From the arguments of the command to the items of a feed: the checks of *)
(* runInLocation (CommandLine), whose options go to the Fetch of every     *)
(* feed (Library); one feed stands for all.  Other programs call Fetch and *)
(* Parse with options that nothing has checked.                            *)
(***************************************************************************)
EXTENDS CommandLine

CONSTANTS Calls, MaxItems   \* of Library

ASSUME CommandAssumption ==
    /\ \A call \in Calls : call.options \in Seq(Option)
    /\ MaxItems \in Nat

VARIABLES
    call,
    fetchPC,        \* pc of Library; "idle" before the call
    resolved,
    original,
    array,
    next,
    kept,
    fetchResult     \* result of Library

fetchVars == <<call, fetchPC, resolved, original, array, next, kept, fetchResult>>
commandVars == <<vars, fetchVars>>

Fetch == INSTANCE Library WITH pc <- fetchPC, result <- fetchResult

NoCall == [function |-> "Fetch", nil |-> FALSE, options |-> <<>>, url |-> "valid"]
NoArguments ==
    [command |-> "fetch", since |-> NoDate, until |-> NoDate, all |-> FALSE, updated |-> FALSE,
     jq |-> "", raw |-> FALSE, maxPages |-> DefaultMaxPages, urls |-> FALSE]

ByCommand ==
    /\ Init
    /\ call = NoCall
    /\ fetchPC = "idle"
    /\ Fetch!Unstarted

\* No command is running; its variables have any one value.
ByProgram ==
    /\ args = NoArguments
    /\ stdin = "terminal"
    /\ pc = "program"
    /\ result = "ok"
    /\ stdinURLs = FALSE
    /\ sinceInput = NoDate /\ since = NoDate /\ until = NoDate
    /\ options = <<>>
    /\ Fetch!Init

CommandInit == ByCommand \/ ByProgram

\* fetchFeeds calls Fetch for a URL of the arguments, whatever it is.
StartFetch ==
    /\ pc = "fetch" /\ fetchPC = "idle"
    /\ \E url \in {"valid", "userinfo", "invalid"} :
        call' = [function |-> "Fetch", nil |-> FALSE, options |-> options, url |-> url]
    /\ fetchPC' = "start"
    /\ UNCHANGED <<vars, resolved, original, array, next, kept, fetchResult>>

CommandNext ==
    \/ Next /\ UNCHANGED fetchVars
    \/ StartFetch
    \/ Fetch!Next /\ UNCHANGED vars

CommandSpec == CommandInit /\ [][CommandNext]_commandVars
-----------------------------------------------------------------------------
(* properties *)

CalledByCommand == pc = "fetch" /\ fetchPC # "idle"

\* The arguments --since, --until and --all; --updated chooses the date.
Asked(item) ==
    LET date == FilterDate(item, args.updated)
    IN \/ args.all
       \/ /\ date # NoDate
          /\ args.since # NoDate => date >= args.since
          /\ args.until # NoDate => date < args.until
          /\ args.since = NoDate /\ args.until = NoDate => date >= WeekAgo

Wanted(item) ==
    IF CalledByCommand THEN Asked(item)
    ELSE LET last == Applied(call.options)
         IN WithinPeriod(item, last.since, last.until, last.preferUpdated)

\* The option values that the command accepts are accepted by the newOptions of
\* every Fetch: a bad one is reported once, before the first request, and never
\* for a feed.  URLs are not option values: Fetch refuses them feed by feed.  And
\* all feeds are fetched by the one client of the run, without which requests to
\* the same host would not be paced across feeds (rssnip.go:83-118, api.go:70-95).
OptionsAccepted ==
    CalledByCommand =>
        /\ fetchResult # "option"
        /\ fetchPC \in {"url", "read", "parse", "filter"} => resolved.client = "given"

\* The items kept are those at the given positions of the feed, in its order.
KeptAre(positions) ==
    \E at \in [1..kept -> positions] :
        /\ \A i, j \in 1..kept : i < j => at[i] < at[j]
        /\ \A p \in positions : \E i \in 1..kept : at[i] = p
        /\ \A i \in 1..kept : array[i] = original[at[i]]

\* The items are those of the period asked for, all of them, in the order and
\* number of the feed: of the last week if neither a bound nor --all is given,
\* without a lower limit for --until alone, and although filterItems overwrites
\* the array while it still reads it (README.md:249-258, api.go:245-255).
ItemsAsAsked ==
    fetchResult = "items" => KeptAre({i \in DOMAIN original : Wanted(original[i])})
=============================================================================
