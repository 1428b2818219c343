------------------------------- MODULE Options -------------------------------
(***************************************************************************)
(* The options of Fetch and Parse (src/api.go).  An option is a record of  *)
(* the one field it sets.                                                  *)
(***************************************************************************)
EXTENDS Periods, Sequences, SequencesExt

CONSTANT Times   \* the instants bounds and dates can name

ASSUME TimesAssumption == Times \subseteq Int /\ NoDate \notin Int

\* client: nil, one the caller passes, or one of this call alone.  userAgent
\* only as to whether it is blank.
Option ==
    [client : {"nil", "given"}] \cup [userAgent : {"blank", "set"}]
        \cup [maxPages : Int] \cup [since : Times] \cup [until : Times]
        \cup [preferUpdated : BOOLEAN] \cup [discovery : BOOLEAN]
        \cup [nilOption : {TRUE}]

DefaultMaxPages == 10
DefaultOptions ==
    [client |-> "nil", userAgent |-> "set", maxPages |-> DefaultMaxPages,
     since |-> NoDate, until |-> NoDate, preferUpdated |-> FALSE, discovery |-> TRUE]

Invalid(option) ==
    \/ "nilOption" \in DOMAIN option
    \/ "client" \in DOMAIN option /\ option.client = "nil"
    \/ "userAgent" \in DOMAIN option /\ option.userAgent = "blank"
    \/ "maxPages" \in DOMAIN option /\ option.maxPages < 1

\* since.After(until)
Reversed(since, until) == since # NoDate /\ until # NoDate /\ since > until

\* Applied in order: the last option that sets a field counts.
Setters(options, field) == {i \in DOMAIN options : field \in DOMAIN options[i]}
Applied(options) ==
    [field \in DOMAIN DefaultOptions |->
        LET setters == Setters(options, field)
        IN IF setters = {} THEN DefaultOptions[field] ELSE options[Max(setters)][field]]

\* newOptions reports an error
Rejected(options) ==
    \/ \E i \in DOMAIN options : Invalid(options[i])
    \/ Reversed(Applied(options).since, Applied(options).until)

\* newOptions: without a client each call has one, and a pace, of its own.
NewOptions(options) ==
    LET resolved == Applied(options)
    IN IF resolved.client = "nil" THEN [resolved EXCEPT !.client = "own"] ELSE resolved
=============================================================================
