----------------------------- MODULE CommandLine -----------------------------
(***************************************************************************)
(* runInLocation (src/rssnip.go): what the command does with its arguments *)
(* before fetchFeeds, one action per check, in the order of the code.  The *)
(* bounds of the period are checked here and again by the newOptions of    *)
(* each Fetch.                                                             *)
(***************************************************************************)
EXTENDS Options

CONSTANTS Malformed,   \* the value of a flag that does not parse
          WeekAgo,     \* startedAt less defaultSinceDays
          PageLimits   \* values of --max-pages

ASSUME CommandLineAssumption ==
    /\ WeekAgo \in Times
    /\ PageLimits \subseteq Int
    /\ Malformed \notin Int \cup {NoDate}

Bounds == Times \cup {NoDate, Malformed}   \* NoDate: not given, or empty
Arguments ==
    [command : {"skills", "version", "fetch", "misspelt"},
     since : Bounds, until : Bounds, all : BOOLEAN, updated : BOOLEAN,
     jq : {"", "valid", "invalid"}, raw : BOOLEAN,
     maxPages : PageLimits, urls : BOOLEAN]
\* readStdinURLs: nothing is read from a terminal
Inputs == {"terminal", "blank", "urls", "unreadable"}

VARIABLES
    args,
    stdin,
    pc,          \* the next check; "fetch" and "done" are the ends
    result,      \* "ok", or the check that has failed
    stdinURLs,
    sinceInput,
    since,
    until,
    options      \* fetchOptions

vars == <<args, stdin, pc, result, stdinURLs, sinceInput, since, until, options>>
period == <<sinceInput, since, until, options>>

Init ==
    /\ args \in Arguments
    /\ stdin \in Inputs
    /\ pc = "command"
    /\ result = "ok"
    /\ stdinURLs = FALSE
    /\ sinceInput = NoDate
    /\ since = NoDate
    /\ until = NoDate
    /\ options = <<>>

\* An early return, or the next check.
Check(at, fails, then) ==
    /\ pc = at
    /\ pc' = IF fails THEN "done" ELSE then
    /\ result' = IF fails THEN at ELSE result
    /\ UNCHANGED <<args, stdin>>

\* runSkills and printVersion end the run as well.
Command ==
    /\ Check("command", args.command # "fetch", "stdin")
    /\ UNCHANGED <<stdinURLs, period>>

ReadStdinURLs ==
    /\ Check("stdin", stdin = "unreadable", "urls")
    /\ stdinURLs' = (stdin = "urls")
    /\ UNCHANGED period

CheckURLs ==
    /\ Check("urls", ~args.urls /\ ~stdinURLs, "raw")
    /\ UNCHANGED <<stdinURLs, period>>

CheckRaw ==
    /\ Check("raw", args.raw /\ args.jq = "", "max-pages")
    /\ UNCHANGED <<stdinURLs, period>>

\* Fault: zero pages pass.
TooFewOrZero == args.maxPages < 0
TooFewPages == args.maxPages < 1

CheckMaxPages ==
    /\ Check("max-pages", TooFewPages, "default since")
    /\ UNCHANGED <<stdinURLs, period>>

\* Fault: the default is a lower bound for --until, too.
NoSince == args.since = NoDate /\ ~args.all
NoBounds == args.since = NoDate /\ args.until = NoDate /\ ~args.all

DefaultSince ==
    /\ Check("default since", FALSE, "all")
    /\ sinceInput' = IF NoBounds THEN WeekAgo ELSE args.since
    /\ UNCHANGED <<stdinURLs, since, until, options>>

CheckAll ==
    /\ Check("all", args.all /\ (args.since # NoDate \/ args.until # NoDate), "since")
    /\ UNCHANGED <<stdinURLs, period>>

\* parseTimeBound
TimeBound(value) == IF value = Malformed THEN NoDate ELSE value

ParseSince ==
    /\ Check("since", sinceInput = Malformed, "until")
    /\ since' = TimeBound(sinceInput)
    /\ UNCHANGED <<stdinURLs, sinceInput, until, options>>

ParseUntil ==
    /\ Check("until", args.until = Malformed, "order")
    /\ until' = TimeBound(args.until)
    /\ UNCHANGED <<stdinURLs, sinceInput, since, options>>

CheckOrder ==
    /\ Check("order", Reversed(since, until), "updated")
    /\ UNCHANGED <<stdinURLs, period>>

CheckUpdated ==
    /\ Check("updated", args.updated /\ since = NoDate /\ until = NoDate, "query")
    /\ UNCHANGED <<stdinURLs, period>>

CompileQuery ==
    /\ Check("query", args.jq = "invalid", "options")
    /\ UNCHANGED <<stdinURLs, period>>

SharedClient == <<[client |-> "given"]>>

FetchOptions ==
    SharedClient \o <<[maxPages |-> args.maxPages], [preferUpdated |-> args.updated]>>
        \o (IF since = NoDate THEN <<>> ELSE <<[since |-> since]>>)
        \o (IF until = NoDate THEN <<>> ELSE <<[until |-> until]>>)

BuildOptions ==
    /\ Check("options", FALSE, "fetch")
    /\ options' = FetchOptions
    /\ UNCHANGED <<stdinURLs, sinceInput, since, until>>

Next ==
    \/ Command
    \/ ReadStdinURLs
    \/ CheckURLs
    \/ CheckRaw
    \/ CheckMaxPages
    \/ DefaultSince
    \/ CheckAll
    \/ ParseSince
    \/ ParseUntil
    \/ CheckOrder
    \/ CheckUpdated
    \/ CompileQuery
    \/ BuildOptions

Spec == Init /\ [][Next]_vars
-----------------------------------------------------------------------------
TypeOK ==
    /\ args \in Arguments
    /\ stdin \in Inputs
    /\ pc \in {"command", "stdin", "urls", "raw", "max-pages", "default since", "all", "since",
               "until", "order", "updated", "query", "options", "fetch", "done"}
    /\ stdinURLs \in BOOLEAN
    /\ sinceInput \in Bounds
    /\ {since, until} \subseteq Times \cup {NoDate}
    /\ \A i \in DOMAIN options : options[i] \in Option
=============================================================================
