---------------------------- MODULE CommandProofs ----------------------------
(***************************************************************************)
(* What the command and the library promise about the items of a feed and  *)
(* the lines written for them, proved for every set of instants and page   *)
(* limits, every list of options, and feeds and queries of any length.     *)
(***************************************************************************)
EXTENDS Command, Output, SequenceTheorems, TLAPS

-----------------------------------------------------------------------------
(* The inductive invariant.                                                *)

\* What each check of the command leaves true behind it.
Checked ==
    /\ pc # "program" => args \in Arguments
    /\ pc \in {"default since", "all", "since", "until", "order", "updated", "query",
               "options", "fetch"} => args.maxPages >= 1
    /\ pc \in {"all", "since", "until", "order", "updated", "query", "options", "fetch"} =>
          sinceInput = IF NoBounds THEN WeekAgo ELSE args.since
    /\ pc \in {"since", "until", "order", "updated", "query", "options", "fetch"} =>
          (args.all => args.since = NoDate /\ args.until = NoDate)
    /\ pc \in {"until", "order", "updated", "query", "options", "fetch"} => since = sinceInput
    /\ pc \in {"order", "updated", "query", "options", "fetch"} => until = args.until
    /\ pc \in {"updated", "query", "options", "fetch"} => ~Reversed(since, until)
    /\ pc = "fetch" => options = FetchOptions

\* A Fetch runs for another program, or for the command with its options.
Called ==
    /\ fetchPC # "idle" => pc \in {"fetch", "program"}
    /\ CalledByCommand => call.options = options
    /\ fetchPC \in {"url", "read", "parse", "filter"} \/ fetchResult = "items" =>
          ~Rejected(call.options) /\ resolved = NewOptions(call.options)
    /\ CalledByCommand => fetchResult # "option"
    /\ fetchResult # "none" => fetchPC = "done"

InPeriod(item) == WithinPeriod(item, resolved.since, resolved.until, resolved.preferUpdated)

\* filterItems overwrites only what it has read: the items it has kept are
\* those of the period so far, and the rest of the array is as it was.
Filtered ==
    /\ fetchPC \in {"idle", "start", "options", "url", "read", "parse"} => next = 1 /\ kept = 0
    /\ fetchPC = "filter" =>
          /\ original \in Seq(Fetch!Items) /\ array \in Seq(Fetch!Items)
          /\ Len(array) = Len(original)
          /\ next \in 1..Len(array) + 1
          /\ kept \in 0..next - 1
          /\ Fetch!Unlimited => next = 1
          /\ KeptAre({i \in 1..next - 1 : InPeriod(original[i])})
          /\ \A i \in next..Len(array) : array[i] = original[i]
    /\ fetchResult = "items" => KeptAre({i \in DOMAIN original : InPeriod(original[i])})

IInv == Checked /\ Called /\ Filtered
-----------------------------------------------------------------------------
(* The options of the command. *)

LEMMA MaxOfOne == \A i \in Int : Max({i}) = i
  BY DEF Max

LEMMA OneAndTwo ==
  ASSUME NEW a, NEW b, NEW c
  PROVE  <<a>> \o <<b, c>> = <<a, b, c>>
<1> DEFINE S == {a, b, c}
<1>1. <<a>> \in Seq(S) /\ <<b, c>> \in Seq(S) /\ <<a, b, c>> \in Seq(S)
  OBVIOUS
<1>2. <<a>> \o <<b, c>> \in Seq(S) /\ Len(<<a>> \o <<b, c>>) = 3
  BY <1>1
<1>3. \A i \in 1..3 : (<<a>> \o <<b, c>>)[i] = <<a, b, c>>[i]
  BY <1>1
<1> HIDE DEF S
<1> QED
  BY <1>1, <1>2, <1>3, SeqEqual

LEMMA ThreeAndOne ==
  ASSUME NEW a, NEW b, NEW c, NEW d
  PROVE  <<a, b, c>> \o <<d>> = <<a, b, c, d>>
<1> DEFINE S == {a, b, c, d}
<1>1. <<a, b, c>> \in Seq(S) /\ <<d>> \in Seq(S) /\ <<a, b, c, d>> \in Seq(S)
  OBVIOUS
<1>2. <<a, b, c>> \o <<d>> \in Seq(S) /\ Len(<<a, b, c>> \o <<d>>) = 4
  BY <1>1
<1>3. \A i \in 1..4 : (<<a, b, c>> \o <<d>>)[i] = <<a, b, c, d>>[i]
  BY <1>1
<1> HIDE DEF S
<1> QED
  BY <1>1, <1>2, <1>3, SeqEqual

LEMMA FourAndOne ==
  ASSUME NEW a, NEW b, NEW c, NEW d, NEW e
  PROVE  <<a, b, c, d>> \o <<e>> = <<a, b, c, d, e>>
<1> DEFINE S == {a, b, c, d, e}
<1>1. <<a, b, c, d>> \in Seq(S) /\ <<e>> \in Seq(S) /\ <<a, b, c, d, e>> \in Seq(S)
  OBVIOUS
<1>2. <<a, b, c, d>> \o <<e>> \in Seq(S) /\ Len(<<a, b, c, d>> \o <<e>>) = 5
  BY <1>1
<1>3. \A i \in 1..5 : (<<a, b, c, d>> \o <<e>>)[i] = <<a, b, c, d, e>>[i]
  BY <1>1
<1> HIDE DEF S
<1> QED
  BY <1>1, <1>2, <1>3, SeqEqual

\* FetchOptions, written out.
LEMMA FetchOptionsList ==
  LET client == [client |-> "given"]
      pages  == [maxPages |-> args.maxPages]
      date   == [preferUpdated |-> args.updated]
      from   == [since |-> since]
      to     == [until |-> until]
  IN /\ since = NoDate /\ until = NoDate => FetchOptions = <<client, pages, date>>
     /\ since # NoDate /\ until = NoDate => FetchOptions = <<client, pages, date, from>>
     /\ since = NoDate /\ until # NoDate => FetchOptions = <<client, pages, date, to>>
     /\ since # NoDate /\ until # NoDate => FetchOptions = <<client, pages, date, from, to>>
<1> DEFINE client == [client |-> "given"]
           pages  == [maxPages |-> args.maxPages]
           date   == [preferUpdated |-> args.updated]
           from   == [since |-> since]
           to     == [until |-> until]
<1>1. FetchOptions = ((<<client>> \o <<pages, date>>)
                        \o (IF since = NoDate THEN <<>> ELSE <<from>>))
                        \o (IF until = NoDate THEN <<>> ELSE <<to>>)
  BY DEF FetchOptions, SharedClient
<1> HIDE DEF client, pages, date, from, to
<1>2. <<client>> \o <<pages, date>> = <<client, pages, date>>
  BY OneAndTwo
<1>3. \A x : <<client, pages, date>> \o <<x>> = <<client, pages, date, x>>
  BY ThreeAndOne
<1>4. <<client, pages, date, from>> \o <<to>> = <<client, pages, date, from, to>>
  BY FourAndOne
<1>5. /\ <<client, pages, date>> \o <<>> = <<client, pages, date>>
      /\ <<client, pages, date, from>> \o <<>> = <<client, pages, date, from>>
  OBVIOUS
<1>6. /\ since = NoDate /\ until = NoDate => FetchOptions = <<client, pages, date>>
      /\ since # NoDate /\ until = NoDate => FetchOptions = <<client, pages, date, from>>
      /\ since = NoDate /\ until # NoDate => FetchOptions = <<client, pages, date, to>>
      /\ since # NoDate /\ until # NoDate => FetchOptions = <<client, pages, date, from, to>>
  BY <1>1, <1>2, <1>3, <1>4, <1>5
<1> QED
  BY <1>6 DEF client, pages, date, from, to

\* Every option sets a field of its own, so each of them counts.
LEMMA FetchOptionsApplied ==
  LET applied == Applied(FetchOptions)
  IN /\ applied.client = "given"
     /\ applied.since = since
     /\ applied.until = until
     /\ applied.preferUpdated = args.updated
<1> DEFINE o == FetchOptions
<1>1. /\ Setters(o, "client") = {1} /\ o[1].client = "given"
      /\ Setters(o, "preferUpdated") = {3} /\ o[3].preferUpdated = args.updated
  BY FetchOptionsList DEF Setters
<1>2. IF since = NoDate THEN Setters(o, "since") = {}
      ELSE Setters(o, "since") = {4} /\ o[4].since = since
  BY FetchOptionsList DEF Setters
<1>3. IF until = NoDate THEN Setters(o, "until") = {}
      ELSE \E i \in Int : Setters(o, "until") = {i} /\ o[i].until = until
  BY FetchOptionsList DEF Setters
<1> HIDE DEF o
<1>4. \A f \in {"client", "since", "until", "preferUpdated"} :
        Applied(o)[f] = IF Setters(o, f) = {} THEN DefaultOptions[f]
                        ELSE o[Max(Setters(o, f))][f]
  BY DEF Applied, DefaultOptions
<1>5. DefaultOptions.since = NoDate /\ DefaultOptions.until = NoDate
  BY DEF DefaultOptions
<1> QED
  BY <1>1, <1>2, <1>3, <1>4, <1>5, MaxOfOne DEF o

\* newOptions has nothing to object to that the command has not checked.
LEMMA FetchOptionsAccepted ==
  ASSUME args.maxPages \in Int, args.maxPages >= 1, ~Reversed(since, until)
  PROVE  /\ ~Rejected(FetchOptions)
         /\ NewOptions(FetchOptions) = Applied(FetchOptions)
<1>1. ASSUME NEW i \in DOMAIN FetchOptions PROVE ~Invalid(FetchOptions[i])
  BY FetchOptionsList DEF Invalid
<1>2. ~Reversed(Applied(FetchOptions).since, Applied(FetchOptions).until)
  BY FetchOptionsApplied
<1>3. Applied(FetchOptions).client = "given"
  BY FetchOptionsApplied
<1> QED
  BY <1>1, <1>2, <1>3 DEF Rejected, NewOptions
\* The module Library has them and the periods as they are here.
LEMMA SameOptions ==
  ASSUME NEW list
  PROVE  /\ Fetch!Rejected(list) <=> Rejected(list)
         /\ Fetch!NewOptions(list) = NewOptions(list)
<1>1. Fetch!Applied(list) = Applied(list)
  BY DEF Fetch!Applied, Applied, Fetch!Setters, Setters, Fetch!DefaultOptions, DefaultOptions,
         Fetch!DefaultMaxPages, DefaultMaxPages, Fetch!Max, Max
<1>2. \A option : Fetch!Invalid(option) <=> Invalid(option)
  BY DEF Fetch!Invalid, Invalid
<1>3. \A a, b : Fetch!Reversed(a, b) <=> Reversed(a, b)
  BY DEF Fetch!Reversed, Reversed
<1> QED
  BY <1>1, <1>2, <1>3 DEF Fetch!Rejected, Rejected, Fetch!NewOptions, NewOptions
-----------------------------------------------------------------------------
(* Each part of the invariant holds at first and is preserved. *)

LEMMA InitInvariant == CommandInit => IInv
<1>1. CASE ByCommand
  <2>1. Checked
    BY <1>1 DEF ByCommand, Init, Checked
  <2>2. Called
    BY <1>1 DEF ByCommand, Init, Fetch!Unstarted, Called, CalledByCommand
  <2>3. Filtered
    BY <1>1 DEF ByCommand, Init, Fetch!Unstarted, Filtered
  <2> QED
    BY <2>1, <2>2, <2>3 DEF IInv
<1>2. CASE ByProgram
  <2>1. Checked
    BY <1>2 DEF ByProgram, Checked
  <2>2. Called
    BY <1>2 DEF ByProgram, Fetch!Init, Fetch!Unstarted, Called, CalledByCommand
  <2>3. Filtered
    BY <1>2 DEF ByProgram, Fetch!Init, Fetch!Unstarted, Filtered
  <2> QED
    BY <2>1, <2>2, <2>3 DEF IInv
<1> QED
  BY <1>1, <1>2 DEF CommandInit

LEMMA CheckedStep == Checked /\ [CommandNext]_commandVars => Checked'
<1> SUFFICES ASSUME Checked, [CommandNext]_commandVars PROVE Checked'
  OBVIOUS
<1>1. ASSUME UNCHANGED vars PROVE Checked'
  BY <1>1 DEF vars, Checked, NoBounds, Reversed, FetchOptions
<1>2. args \in Arguments => TooFewPages \/ args.maxPages >= 1
  <2>1. args \in Arguments => args.maxPages \in Int
    BY CommandLineAssumption DEF Arguments
  <2> QED
    BY <2>1 DEF TooFewPages
<1>3. ASSUME Next PROVE Checked'
  <2> USE DEF Checked, Check, period
  <2>1. CASE Command \/ ReadStdinURLs \/ CheckURLs \/ CheckRaw
    BY <2>1 DEF Command, ReadStdinURLs, CheckURLs, CheckRaw
  <2>2. CASE CheckMaxPages
    <3>1. args \in Arguments /\ UNCHANGED <<args, sinceInput, since, until, options>>
      BY <2>2 DEF CheckMaxPages
    <3>2. \/ pc' = "done"
          \/ pc' = "default since" /\ args.maxPages >= 1
      BY <1>2, <2>2, <3>1 DEF CheckMaxPages
    <3> QED
      BY <3>1, <3>2
  <2>3. CASE DefaultSince
    BY <2>3 DEF DefaultSince, NoBounds
  <2>4. CASE CheckAll
    BY <2>4 DEF CheckAll, NoBounds
  <2>5. CASE ParseSince
    BY <2>5 DEF ParseSince, NoBounds, TimeBound
  <2>6. CASE ParseUntil
    BY <2>6 DEF ParseUntil, NoBounds, TimeBound
  <2>7. CASE CheckOrder
    BY <2>7 DEF CheckOrder, NoBounds
  <2>8. CASE CheckUpdated \/ CompileQuery
    BY <2>8 DEF CheckUpdated, CompileQuery, NoBounds
  <2>9. CASE BuildOptions
    BY <2>9 DEF BuildOptions, NoBounds, FetchOptions
  <2> QED
    BY <1>3, <2>1, <2>2, <2>3, <2>4, <2>5, <2>6, <2>7, <2>8, <2>9 DEF Next
<1> QED
  BY <1>1, <1>3 DEF CommandNext, StartFetch, commandVars

LEMMA CalledStep == IInv /\ [CommandNext]_commandVars => Called'
<1> SUFFICES ASSUME IInv, [CommandNext]_commandVars PROVE Called'
  OBVIOUS
<1> USE DEF IInv, Called, CalledByCommand
<1>1. CASE Next /\ UNCHANGED fetchVars
  <2>1. pc \notin {"fetch", "program"}
    BY <1>1 DEF Next, Check, Command, ReadStdinURLs, CheckURLs, CheckRaw, CheckMaxPages,
                DefaultSince, CheckAll, ParseSince, ParseUntil, CheckOrder, CheckUpdated,
                CompileQuery, BuildOptions
  <2> QED
    BY <1>1, <2>1 DEF fetchVars
<1>2. CASE StartFetch
  BY <1>2 DEF StartFetch, vars
<1>3. CASE Fetch!Next /\ UNCHANGED vars
  <2> USE <1>3 DEF vars, Fetch!Continue, Fetch!Fail, Fetch!filter
  <2>1. CASE Fetch!CheckReceiver
    BY <2>1 DEF Fetch!CheckReceiver
  <2>2. CASE Fetch!ResolveOptions
    <3>1. CalledByCommand => ~Rejected(call.options)
      BY FetchOptionsAccepted, CommandLineAssumption DEF Checked, Arguments
    <3> QED
      BY <2>2, <3>1, SameOptions DEF Fetch!ResolveOptions
  <2>3. CASE Fetch!CheckURL \/ Fetch!Read
    BY <2>3 DEF Fetch!CheckURL, Fetch!Read
  <2>4. CASE Fetch!Parse
    BY <2>4 DEF Fetch!Parse
  <2>5. CASE Fetch!ReturnAll \/ Fetch!FilterItem \/ Fetch!ReturnFiltered
    BY <2>5 DEF Fetch!ReturnAll, Fetch!FilterItem, Fetch!ReturnFiltered
  <2> QED
    BY <2>1, <2>2, <2>3, <2>4, <2>5 DEF Fetch!Next
<1>4. CASE UNCHANGED commandVars
  BY <1>4 DEF commandVars, vars, fetchVars
<1> QED
  BY <1>1, <1>2, <1>3, <1>4 DEF CommandNext
-----------------------------------------------------------------------------
(* The filter. *)

LEMMA SamePeriod ==
  ASSUME NEW thing
  PROVE  Fetch!WithinPeriod(thing, resolved.since, resolved.until, resolved.preferUpdated)
            <=> InPeriod(thing)
  BY DEF Fetch!WithinPeriod, Fetch!FilterDate, InPeriod, WithinPeriod, FilterDate

\* The item read is kept behind the others and comes after them in the feed.
LEMMA KeepItem ==
  ASSUME fetchPC = "filter", fetchResult = "none", Filtered, Fetch!FilterItem
  PROVE  Filtered'
<1> USE DEF Filtered
<1> DEFINE InPeriodBefore == {i \in 1..next - 1 : InPeriod(original[i])}
<1>1. /\ next \in 1..Len(array) /\ next' = next + 1
      /\ UNCHANGED <<fetchPC, resolved, original, fetchResult>>
      /\ array \in Seq(Fetch!Items) /\ Len(array) = Len(original) /\ Len(array) \in Nat
      /\ kept \in 0..next - 1
      /\ \A i \in next..Len(array) : array[i] = original[i]
      /\ array[next] = original[next]
      /\ ~Fetch!Unlimited'
  BY DEF Fetch!FilterItem, Fetch!Unlimited
<1>2. \A i : InPeriod(original[i])' <=> InPeriod(original[i])
  BY <1>1 DEF InPeriod
<1>3. PICK was \in [1..kept -> InPeriodBefore] :
        /\ \A i, j \in 1..kept : i < j => was[i] < was[j]
        /\ \A p \in InPeriodBefore : \E i \in 1..kept : was[i] = p
        /\ \A i \in 1..kept : array[i] = original[was[i]]
  BY DEF KeptAre
<1>4. ASSUME NEW positions, positions = InPeriodBefore',
             \E f \in [1..kept' -> positions] :
                /\ \A i, j \in 1..kept' : i < j => f[i] < f[j]
                /\ \A p \in positions : \E i \in 1..kept' : f[i] = p
                /\ \A i \in 1..kept' : array'[i] = original'[f[i]]
      PROVE  KeptAre(InPeriodBefore)'
  <2> HIDE DEF InPeriodBefore
  <2> QED
    BY <1>4 DEF KeptAre
<1>5. CASE InPeriod(array[next])
  <2>1. /\ kept' = kept + 1
        /\ array' = [i \in 1..Len(array) |-> IF i = kept + 1 THEN array[next] ELSE array[i]]
    BY <1>5, SamePeriod DEF Fetch!FilterItem, Fetch!Slot
  <2>2. array' \in Seq(Fetch!Items) /\ Len(array') = Len(array)
    BY <1>1, <2>1
  <2>3. \A i \in 1..Len(array) :
          array'[i] = IF i = kept + 1 THEN array[next] ELSE array[i]
    BY <2>1
  <2>4. KeptAre(InPeriodBefore)'
    <3> DEFINE After == {i \in 1..next : InPeriod(original[i])}
               now == [i \in 1..kept + 1 |-> IF i = kept + 1 THEN next ELSE was[i]]
    <3>1. After = InPeriodBefore \cup {next}
      BY <1>1, <1>5
    <3>2. After = InPeriodBefore'
      BY <1>1, <1>2
    <3>3. now \in [1..kept + 1 -> After]
      BY <1>1, <1>3, <3>1
    <3>4. \A i, j \in 1..kept + 1 : i < j => now[i] < now[j]
      BY <1>1, <1>3
    <3>5. \A p \in After : \E i \in 1..kept + 1 : now[i] = p
      <4>1. now[kept + 1] = next /\ kept + 1 \in 1..kept + 1
        BY <1>1
      <4>2. ASSUME NEW p \in InPeriodBefore PROVE \E i \in 1..kept + 1 : now[i] = p
        <5> PICK i \in 1..kept : was[i] = p
          BY <1>3
        <5>1. i \in 1..kept + 1 /\ now[i] = p
          BY <1>1
        <5> QED
          BY <5>1
      <4> QED
        BY <3>1, <4>1, <4>2
    <3>6. \A i \in 1..kept + 1 : array'[i] = original[now[i]]
      BY <1>1, <1>3, <2>3
    <3>7. \E f \in [1..kept' -> After] :
            /\ \A i, j \in 1..kept' : i < j => f[i] < f[j]
            /\ \A p \in After : \E i \in 1..kept' : f[i] = p
            /\ \A i \in 1..kept' : array'[i] = original'[f[i]]
      <4>1. now \in [1..kept' -> After]
        BY <2>1, <3>3
      <4> HIDE DEF now, After
      <4> WITNESS now \in [1..kept' -> After]
      <4> QED
        BY <1>1, <2>1, <3>4, <3>5, <3>6
    <3> QED
      BY <1>4, <3>2, <3>7
  <2>5. \A i \in next'..Len(array') : array'[i] = original'[i]
    <3>1. ASSUME NEW i \in next'..Len(array') PROVE array'[i] = original'[i]
      <4>1. i \in next..Len(array) /\ i \in 1..Len(array) /\ i # kept + 1
        BY <1>1, <2>2
      <4> QED
        BY <1>1, <2>3, <4>1
    <3> QED
      BY <3>1
  <2>6. next' \in 1..Len(array') + 1 /\ kept' \in 0..next' - 1
    BY <1>1, <2>1, <2>2
  <2> HIDE DEF InPeriodBefore
  <2> QED
    BY <1>1, <2>2, <2>4, <2>5, <2>6 DEF InPeriodBefore
<1>6. CASE ~InPeriod(array[next])
  <2>1. UNCHANGED <<array, kept>>
    BY <1>6, SamePeriod DEF Fetch!FilterItem
  <2>2. InPeriodBefore' = InPeriodBefore
    BY <1>1, <1>2, <1>6
  <2>3. KeptAre(InPeriodBefore)'
    <3>1. \E f \in [1..kept' -> InPeriodBefore] :
            /\ \A i, j \in 1..kept' : i < j => f[i] < f[j]
            /\ \A p \in InPeriodBefore : \E i \in 1..kept' : f[i] = p
            /\ \A i \in 1..kept' : array'[i] = original'[f[i]]
      BY <1>1, <1>3, <2>1
    <3> QED
      BY <1>4, <2>2, <3>1
  <2> QED
    BY <1>1, <2>1, <2>3
<1> QED
  BY <1>5, <1>6

\* Without bounds every item is kept where it is.
LEMMA KeepAll ==
  ASSUME fetchPC = "filter", Filtered, Fetch!Unlimited,
         kept' = Len(array), UNCHANGED <<original, array, resolved>>
  PROVE  KeptAre({i \in DOMAIN original : InPeriod(original[i])})'
<1> DEFINE all == [i \in 1..Len(array) |-> i]
<1>1. /\ original \in Seq(Fetch!Items) /\ array \in Seq(Fetch!Items)
      /\ Len(array) = Len(original)
      /\ \A i \in 1..Len(array) : array[i] = original[i]
  BY DEF Filtered
<1>2. \A x : InPeriod(x)'
  BY DEF Fetch!Unlimited, InPeriod, WithinPeriod
<1>3. {i \in DOMAIN original : InPeriod(original[i])}' = 1..Len(array)
  BY <1>1, <1>2
<1>4. \E was \in [1..kept' -> 1..Len(array)] :
        /\ \A i, j \in 1..kept' : i < j => was[i] < was[j]
        /\ \A p \in 1..Len(array) : \E i \in 1..kept' : was[i] = p
        /\ \A i \in 1..kept' : array'[i] = original'[was[i]]
  <2>1. all \in [1..kept' -> 1..Len(array)]
    OBVIOUS
  <2> WITNESS all \in [1..kept' -> 1..Len(array)]
  <2> QED
    BY <1>1
<1> DEFINE Within == {i \in DOMAIN original : InPeriod(original[i])}
<1>5. Within' = 1..Len(array)
  BY <1>3
<1> HIDE DEF Within
<1>6. KeptAre(Within)'
  BY <1>4, <1>5 DEF KeptAre
<1> QED
  BY <1>6 DEF Within

LEMMA FilteredStep == IInv /\ [CommandNext]_commandVars => Filtered'
<1> SUFFICES ASSUME IInv, [CommandNext]_commandVars PROVE Filtered'
  OBVIOUS
<1>a. Filtered /\ (fetchResult # "none" => fetchPC = "done")
  BY DEF IInv, Called
<1>1. ASSUME UNCHANGED <<resolved, original, array, next, kept, fetchResult>>,
             \/ fetchPC' = fetchPC
             \/ fetchPC' \in {"start", "options", "url", "read", "parse", "done"}
                /\ fetchPC \in {"idle", "start", "options", "url", "read"}
      PROVE  Filtered'
  <2> DEFINE sofar == {i \in 1..next - 1 : InPeriod(original[i])}
             within == {i \in DOMAIN original : InPeriod(original[i])}
  <2>1. sofar' = sofar /\ within' = within /\ (Fetch!Unlimited' <=> Fetch!Unlimited)
    BY <1>1 DEF InPeriod, Fetch!Unlimited
  <2> HIDE DEF sofar, within
  <2>2. (KeptAre(sofar) => KeptAre(sofar)') /\ (KeptAre(within) => KeptAre(within)')
    BY <1>1, <2>1 DEF KeptAre
  <2> QED
    BY <1>1, <1>a, <2>1, <2>2 DEF Filtered, sofar, within
<1>2. ASSUME Fetch!Next PROVE Filtered'
  <2> USE DEF Fetch!Continue, Fetch!Fail, Fetch!filter
  <2>0. ASSUME NEW error, error # "items", Fetch!Fail(error) PROVE Filtered'
    BY <2>0 DEF Filtered
  <2>1. CASE Fetch!CheckReceiver
    BY <1>1, <1>a, <2>0, <2>1 DEF Fetch!CheckReceiver
  <2>2. CASE Fetch!ResolveOptions
    BY <1>a, <2>0, <2>2 DEF Fetch!ResolveOptions, Filtered
  <2>3. CASE Fetch!CheckURL \/ Fetch!Read
    BY <1>1, <1>a, <2>0, <2>3 DEF Fetch!CheckURL, Fetch!Read
  <2>4. CASE Fetch!Parse
    <3>1. ASSUME NEW items \in BoundedSeq(Fetch!Items, MaxItems), fetchPC = "parse",
                 original' = items, array' = items, Fetch!Continue("filter"),
                 UNCHANGED <<resolved, next, kept>>
          PROVE  Filtered'
      <4>1. items \in Seq(Fetch!Items)
        BY <3>1, SeqDef, CommandAssumption DEF BoundedSeq, SeqOf
      <4>2. next' = 1 /\ kept' = 0 /\ fetchResult' = "none"
        BY <1>a, <3>1 DEF Filtered
      <4>3. KeptAre({i \in 1..next - 1 : InPeriod(original[i])})'
        <5>1. {i \in 1..next - 1 : InPeriod(original[i])}' = {}
          BY <4>2
        <5>2. <<>> \in [1..kept' -> {}] /\ 1..kept' = {}
          BY <4>2
        <5> QED
          BY <5>1, <5>2 DEF KeptAre
      <4> QED
        BY <3>1, <4>1, <4>2, <4>3 DEF Filtered
    <3> QED
      BY <2>0, <2>4, <3>1 DEF Fetch!Parse, Fetch!BoundedSeq, Fetch!SeqOf, BoundedSeq, SeqOf
  <2>5. CASE Fetch!ReturnAll
    <3>1. KeptAre({i \in DOMAIN original : InPeriod(original[i])})'
      BY <1>a, <2>5, KeepAll DEF Fetch!ReturnAll
    <3> QED
      BY <2>5, <3>1 DEF Fetch!ReturnAll, Filtered
  <2>6. CASE Fetch!FilterItem
    BY <1>a, <2>6, KeepItem DEF Fetch!FilterItem
  <2>7. CASE Fetch!ReturnFiltered
    <3>0. /\ original \in Seq(Fetch!Items) /\ Len(array) = Len(original)
          /\ next \in 1..Len(array) + 1 /\ next > Len(array)
          /\ KeptAre({i \in 1..next - 1 : InPeriod(original[i])})
      BY <1>a, <2>7 DEF Fetch!ReturnFiltered, Filtered
    <3>1. next - 1 = Len(original)
      BY <3>0
    <3> DEFINE within == {i \in DOMAIN original : InPeriod(original[i])}
    <3>2. within = {i \in 1..next - 1 : InPeriod(original[i])}
      BY <3>0, <3>1
    <3>3. within' = within /\ UNCHANGED <<original, array, kept>>
      BY <2>7 DEF Fetch!ReturnFiltered, InPeriod
    <3>4. KeptAre(within)
      BY <3>0, <3>2
    <3> HIDE DEF within
    <3>5. KeptAre(within)'
      BY <3>3, <3>4 DEF KeptAre
    <3> QED
      BY <2>7, <3>5 DEF Fetch!ReturnFiltered, Filtered, within
  <2> QED
    BY <1>2, <2>1, <2>2, <2>3, <2>4, <2>5, <2>6, <2>7 DEF Fetch!Next
<1>3. CASE StartFetch
  BY <1>1, <1>3, <1>a DEF StartFetch
<1> QED
  BY <1>1, <1>2, <1>3 DEF CommandNext, commandVars, fetchVars
-----------------------------------------------------------------------------
(* The theorems. *)

\* Arguments, options and the array of the filter agree in every run.
THEOREM Invariance == CommandSpec => []IInv
<1>1. IInv /\ [CommandNext]_commandVars => IInv'
  BY CheckedStep, CalledStep, FilteredStep DEF IInv
<1> QED
  BY InitInvariant, <1>1, PTL DEF CommandSpec

\* No Fetch of the command refuses an option value that the command accepted, and
\* each uses the client of the run (rssnip.go:83-118, api.go:70-95).
THEOREM CommandOptionsAccepted == CommandSpec => []OptionsAccepted
<1>1. IInv => OptionsAccepted
  <2> SUFFICES ASSUME IInv, CalledByCommand,
                      fetchPC \in {"url", "read", "parse", "filter"}
               PROVE  resolved.client = "given"
    BY DEF OptionsAccepted, IInv, Called
  <2>1. call.options = FetchOptions /\ resolved = NewOptions(call.options)
    BY DEF IInv, Called, Checked, CalledByCommand
  <2>2. NewOptions(FetchOptions) = Applied(FetchOptions)
    BY FetchOptionsApplied DEF NewOptions
  <2> QED
    BY <2>1, <2>2, FetchOptionsApplied
<1> QED
  BY Invariance, <1>1, PTL

\* What the flags ask for is what the period of the options selects: the
\* default, the bounds and --all, in the cases the command lets through.
LEMMA AskedIsInPeriod ==
  ASSUME IInv, pc = "fetch", NEW thing
  PROVE  Asked(thing) <=> WithinPeriod(thing, since, until, args.updated)
<1>1. /\ since = IF NoBounds THEN WeekAgo ELSE args.since
      /\ until = args.until
      /\ args.all => args.since = NoDate /\ args.until = NoDate
      /\ args.all \in BOOLEAN
  BY DEF IInv, Checked, Arguments
<1>2. WeekAgo # NoDate
  BY TimesAssumption, CommandLineAssumption
<1>3. CASE args.all
  BY <1>1, <1>3 DEF Asked, WithinPeriod, NoBounds
<1>4. CASE ~args.all /\ args.since = NoDate /\ args.until = NoDate
  BY <1>1, <1>2, <1>4 DEF Asked, WithinPeriod, NoBounds
<1>5. CASE ~args.all /\ ~(args.since = NoDate /\ args.until = NoDate)
  BY <1>1, <1>5 DEF Asked, WithinPeriod, NoBounds
<1> QED
  BY <1>3, <1>4, <1>5

\* Fetch and Parse return the items of the period asked for, all of them and
\* in the order of the feed (api.go:245-255, README.md:249-258).
THEOREM ItemsOfThePeriod == CommandSpec => []ItemsAsAsked
<1>1. ASSUME IInv, fetchResult = "items", NEW thing
      PROVE  Wanted(thing) <=> InPeriod(thing)
  <2>1. resolved = NewOptions(call.options)
    BY <1>1 DEF IInv, Called
  <2>2. /\ resolved.since = Applied(call.options).since
        /\ resolved.until = Applied(call.options).until
        /\ resolved.preferUpdated = Applied(call.options).preferUpdated
    BY <2>1 DEF NewOptions, Applied, DefaultOptions
  <2>3. CASE CalledByCommand
    <3>1. call.options = FetchOptions /\ pc = "fetch"
      BY <1>1, <2>3 DEF IInv, Called, Checked, CalledByCommand
    <3> QED
      BY <1>1, <2>2, <2>3, <3>1, FetchOptionsApplied, AskedIsInPeriod DEF Wanted, InPeriod
  <2>4. CASE ~CalledByCommand
    BY <2>2, <2>4 DEF Wanted, InPeriod
  <2> QED
    BY <2>3, <2>4
<1>2. IInv => ItemsAsAsked
  <2> SUFFICES ASSUME IInv, fetchResult = "items"
               PROVE  KeptAre({i \in DOMAIN original : Wanted(original[i])})
    BY DEF ItemsAsAsked
  <2>1. {i \in DOMAIN original : Wanted(original[i])}
           = {i \in DOMAIN original : InPeriod(original[i])}
    BY <1>1
  <2> QED
    BY <2>1 DEF IInv, Filtered
<1> QED
  BY Invariance, <1>2, PTL
-----------------------------------------------------------------------------
(* Output *)

\* What a query yields for each item, and that an item yields itself without
\* one.
QueriedOK ==
    /\ queried \in Seq(Seq(Values))
    /\ Len(queried) <= MaxFeedItems
    /\ \A n \in DOMAIN queried : Len(queried[n]) <= MaxValues
    /\ code \in BOOLEAN /\ raw \in BOOLEAN /\ withFeed \in BOOLEAN
    /\ ~code => \A n \in DOMAIN queried : Len(queried[n]) = 1

\* The place that is written next, if there is one.
Cursor == <<pos, CASE at = "items" -> 1 [] at = "next" -> index + 1 [] OTHER -> index>>

LinesInOrder ==
    /\ \A n \in DOMAIN lines : /\ PlaceOf(lines[n]) \in Places
                               /\ lines[n] = LineOf(PlaceOf(lines[n]))
                               /\ ValueAt(PlaceOf(lines[n])) \in {"item", "text"}
    /\ \A m, n \in DOMAIN lines : m < n => Before(PlaceOf(lines[m]), PlaceOf(lines[n]))

\* After a line that comes too late the next thing that happens is not a line:
\* a query is interrupted, and an item without a query has had its only value.
NothingElse ==
    /\ ~ctxDone => late = 0
    /\ late <= 1
    /\ late = 1 => /\ at # "value"
                   /\ at = "next" => code \/ index = Len(queried[pos])

\* The inductive invariant.
OutputInv ==
    /\ OutputTypeOK
    /\ QueriedOK
    /\ LinesInOrder
    /\ at = "value" => index > 0
    /\ at # "returned" => ret = "none" /\ Written = {q \in Places : Before(q, Cursor)}
    /\ at = "returned" => LinesExact
    /\ NothingElse

LEMMA PlacesAre ==
    ASSUME QueriedOK
    PROVE  \A q : q \in Places <=>
              \E n \in 1..Len(queried) : \E k \in 1..Len(queried[n]) : q = <<n, k>>
  <1>1. DOMAIN queried = 1..Len(queried) /\ \A n \in 1..Len(queried) : DOMAIN queried[n] = 1..Len(queried[n])
    BY DEF QueriedOK
  <1> QED
    BY <1>1 DEF Places

LEMMA BeforePairs ==
    ASSUME NEW a, NEW b, NEW c, NEW d
    PROVE  Before(<<a, b>>, <<c, d>>) <=> a < c \/ (a = c /\ b < d)
  BY DEF Before

\* What is behind a line is behind all that is before it.
LEMMA NoGap ==
    ASSUME QueriedOK, NEW a \in Int, NEW b \in Int, Written = {q \in Places : Before(q, <<a, b>>)}
    PROVE  \A q \in Written : \A p \in Places : Before(p, q) => p \in Written
  <1> SUFFICES ASSUME NEW q \in Written, NEW p \in Places, Before(p, q)
               PROVE  Before(p, <<a, b>>)
    OBVIOUS
  <1>1. PICK n \in Int, k \in Int : q = <<n, k>>
    BY PlacesAre DEF QueriedOK
  <1>2. PICK m \in Int, l \in Int : p = <<m, l>>
    BY PlacesAre DEF QueriedOK
  <1>3. n < a \/ (n = a /\ k < b)
    BY <1>1, BeforePairs
  <1>4. m < n \/ (m = n /\ l < k)
    BY <1>1, <1>2, BeforePairs
  <1>5. m < a \/ (m = a /\ l < b)
    BY <1>3, <1>4
  <1> QED
    BY <1>2, <1>5, BeforePairs

LEMMA SameOutput ==
    ASSUME UNCHANGED <<input, lines>>
    PROVE  /\ QueriedOK' <=> QueriedOK
           /\ LinesInOrder' <=> LinesInOrder
           /\ Places' = Places /\ Written' = Written
           /\ \A p : ValueAt(p)' = ValueAt(p)
  <1>1. queried' = queried /\ code' = code /\ raw' = raw /\ withFeed' = withFeed /\ lines' = lines
    BY DEF input
  <1>2. Places' = Places /\ Written' = Written /\ \A p : ValueAt(p)' = ValueAt(p)
    BY <1>1 DEF Places, Written, ValueAt, PlaceOf
  <1>3. \A p : LineOf(p)' = LineOf(p)
    BY <1>1 DEF LineOf, ValueAt
  <1>4. LinesInOrder' <=> LinesInOrder
    BY <1>1, <1>2, <1>3 DEF LinesInOrder, PlaceOf, ValueAt, LineOf
  <1> QED
    BY <1>1, <1>2, <1>4 DEF QueriedOK

LEMMA OutputFacts ==
    ASSUME OutputInv
    PROVE  /\ QueriedOK /\ Len(queried) \in Nat /\ DOMAIN queried = 1..Len(queried)
           /\ \A n \in 1..Len(queried) : Len(queried[n]) \in 0..MaxValues
           /\ pos \in 1..Len(queried) + 1 /\ index \in 0..MaxValues /\ index \in Nat
           /\ MaxFeedItems \in Nat /\ MaxValues \in Nat \ {0}
           /\ at \in {"next", "value"} => /\ pos \in 1..Len(queried)
                                          /\ index <= Len(queried[pos])
           /\ at # "returned" => Written = {q \in Places : Before(q, Cursor)}
  <1>1. /\ QueriedOK /\ Len(queried) \in Nat /\ DOMAIN queried = 1..Len(queried)
        /\ MaxFeedItems \in Nat /\ MaxValues \in Nat \ {0}
    BY OutputAssumption DEF OutputInv, QueriedOK
  <1>2. ASSUME NEW n \in 1..Len(queried) PROVE Len(queried[n]) \in 0..MaxValues
    <2>1. queried[n] \in Seq(Values) /\ Len(queried[n]) <= MaxValues
      BY <1>1 DEF QueriedOK
    <2>2. Len(queried[n]) \in Nat
      BY <2>1
    <2> QED
      BY <1>1, <2>1, <2>2
  <1>3. pos \in 1..Len(queried) + 1 /\ index \in 0..MaxValues /\ index \in Nat
    BY <1>1 DEF OutputInv, OutputTypeOK
  <1>4. at \in {"next", "value"} => pos \in 1..Len(queried) /\ index <= Len(queried[pos])
    BY <1>1, <1>3 DEF OutputInv, OutputTypeOK
  <1> QED
    BY <1>1, <1>2, <1>3, <1>4 DEF OutputInv

\* Steps that write nothing.
LEMMA NothingWritten ==
    ASSUME OutputInv, at # "returned", at' # "returned", UNCHANGED <<input, lines, ret>>,
           at' \in {"items", "next", "value"},
           pos' \in 1..Len(queried) + 1, index' \in 0..MaxValues, index' \in Nat,
           at' \in {"next", "value"} => pos' <= Len(queried) /\ index' <= Len(queried[pos']),
           at' = "value" => index' > 0,
           ctxDone' \in BOOLEAN, late' = late,
           \A q \in Places : Before(q, Cursor) <=> Before(q, Cursor'),
           NothingElse'
    PROVE  OutputInv'
  <1>1. /\ QueriedOK' /\ LinesInOrder' /\ Places' = Places /\ Written' = Written
    BY SameOutput, OutputFacts DEF OutputInv
  <1>2. OutputTypeOK'
    BY DEF OutputInv, OutputTypeOK, input
  <1>3. ret' = "none"
    BY DEF OutputInv
  <1>4. Written' = {q \in Places : Before(q, Cursor')}
    BY <1>1, OutputFacts
  <1>5. Written' = {q \in Places' : Before(q, Cursor)'}
    BY <1>1, <1>4 DEF Before
  <1> QED
    BY <1>1, <1>2, <1>3, <1>5 DEF OutputInv

\* Steps that return.
LEMMA OutputEnds ==
    ASSUME OutputInv, at # "returned", UNCHANGED <<input, pos, index, lines, ctxDone, late>>,
           NEW r \in {"nil", "canceled", "query", "write"}, ReturnWith(r),
           r = "nil" => Written = Places,
           r = "query" => \E p \in Places : /\ ValueAt(p) = "error"
                                            /\ Written = {q \in Places : Before(q, p)}
    PROVE  OutputInv'
  <1>1. at' = "returned" /\ ret' = r
    BY DEF ReturnWith
  <1>2. /\ QueriedOK' /\ LinesInOrder' /\ Places' = Places /\ Written' = Written
        /\ \A p : ValueAt(p)' = ValueAt(p)
    BY SameOutput, OutputFacts DEF OutputInv
  <1>3. OutputTypeOK'
    BY <1>1 DEF OutputInv, OutputTypeOK, input
  <1>4. \A q \in Written : \A p \in Places : Before(p, q) => p \in Written
    <2> DEFINE b == CASE at = "items" -> 1 [] at = "next" -> index + 1 [] OTHER -> index
    <2>1. pos \in Int /\ b \in Int
      BY OutputFacts
    <2>2. Written = {q \in Places : Before(q, <<pos, b>>)}
      BY OutputFacts DEF Cursor
    <2> HIDE DEF b
    <2> QED
      BY <2>1, <2>2, OutputFacts, NoGap
  <1>5. LinesExact'
    BY <1>1, <1>2, <1>4 DEF LinesExact, LinesInOrder, Before
  <1>6. NothingElse'
    BY <1>1 DEF OutputInv, NothingElse
  <1> QED
    BY <1>1, <1>2, <1>3, <1>5, <1>6 DEF OutputInv

LEMMA ReturnStep ==
    OutputInv /\ (AllWritten \/ ItemsCanceled \/ QueryCanceled \/ QueryFails \/ EncodeFails \/ WriteFails)
        => OutputInv'
  <1> SUFFICES ASSUME OutputInv
               PROVE  AllWritten \/ ItemsCanceled \/ QueryCanceled \/ QueryFails \/ EncodeFails
                        \/ WriteFails => OutputInv'
    OBVIOUS
  <1>1. ASSUME AllWritten PROVE OutputInv'
    <2>1. at = "items" /\ pos > Len(queried)
      BY <1>1 DEF AllWritten
    <2>2. Cursor = <<pos, 1>>
      BY <2>1 DEF Cursor
    <2>3. \A q \in Places : Before(q, <<pos, 1>>)
      BY <2>1, OutputFacts, PlacesAre, BeforePairs
    <2>4. Written = Places
      BY <2>1, <2>2, <2>3, OutputFacts
    <2> QED
      BY <1>1, <2>1, <2>4, OutputEnds DEF AllWritten
  <1>2. ASSUME ItemsCanceled \/ QueryCanceled PROVE OutputInv'
    BY <1>2, OutputEnds DEF ItemsCanceled, QueryCanceled
  <1>3. ASSUME QueryFails PROVE OutputInv'
    <2>1. at = "value" /\ queried[pos][index] = "error" /\ index > 0
      BY <1>3 DEF QueryFails, Value, OutputInv
    <2>2. Cursor = <<pos, index>>
      BY <2>1 DEF Cursor
    <2>3. <<pos, index>> \in Places
      <3>1. pos \in 1..Len(queried) /\ index \in 1..Len(queried[pos])
        BY <2>1, OutputFacts
      <3> QED
        BY <3>1, OutputFacts, PlacesAre
    <2>4. ValueAt(<<pos, index>>) = "error" /\ Written = {q \in Places : Before(q, <<pos, index>>)}
      BY <2>1, <2>2, OutputFacts DEF ValueAt
    <2>5. \E p \in Places : ValueAt(p) = "error" /\ Written = {q \in Places : Before(q, p)}
      BY <2>3, <2>4
    <2> QED
      BY <1>3, <2>1, <2>5, OutputEnds DEF QueryFails
  <1>4. ASSUME EncodeFails \/ WriteFails PROVE OutputInv'
    BY <1>4, OutputEnds DEF EncodeFails, WriteFails
  <1> QED
    BY <1>1, <1>2, <1>3, <1>4

LEMMA MoveStep ==
    OutputInv /\ (ApplyQuery \/ NextValue \/ NextItem \/ Cancel) => OutputInv'
  <1> SUFFICES ASSUME OutputInv
               PROVE  ApplyQuery \/ NextValue \/ NextItem \/ Cancel => OutputInv'
    OBVIOUS
  <1>0. late \in Nat /\ ctxDone \in BOOLEAN /\ code \in BOOLEAN /\ NothingElse
    BY DEF OutputInv, OutputTypeOK, QueriedOK
  <1>1. ASSUME ApplyQuery PROVE OutputInv'
    <2>1. /\ at = "items" /\ at' = "next" /\ index' = 0 /\ pos <= Len(queried) /\ ~ctxDone
          /\ UNCHANGED <<input, pos, lines, ctxDone, late, ret>>
      BY <1>1 DEF ApplyQuery, First
    <2>2. Cursor' = Cursor
      BY <2>1 DEF Cursor
    <2>3. NothingElse'
      BY <1>0, <2>1 DEF NothingElse
    <2>4. 0 \in 0..MaxValues /\ 0 <= Len(queried[pos])
      BY <2>1, OutputFacts
    <2> QED
      BY <1>0, <2>1, <2>2, <2>3, <2>4, OutputFacts, NothingWritten
  <1>2. ASSUME NextValue PROVE OutputInv'
    <2>1. /\ at = "next" /\ at' = "value" /\ index' = index + 1 /\ index < Len(queried[pos])
          /\ ~(code /\ ctxDone)
          /\ UNCHANGED <<input, pos, lines, ctxDone, late, ret>>
      BY <1>2 DEF NextValue, HasNext, Interrupted
    <2>2. Cursor' = Cursor
      BY <2>1 DEF Cursor
    <2>3. late # 1
      BY <1>0, <2>1, OutputFacts DEF NothingElse
    <2>4. NothingElse'
      BY <1>0, <2>1, <2>3 DEF NothingElse
    <2>5. /\ index' \in 0..MaxValues /\ index' \in Nat /\ index' > 0 /\ index' <= Len(queried[pos])
          /\ pos <= Len(queried)
      BY <2>1, OutputFacts
    <2> QED
      BY <1>0, <2>1, <2>2, <2>4, <2>5, OutputFacts, NothingWritten
  <1>3. ASSUME NextItem PROVE OutputInv'
    <2>1. /\ at = "next" /\ at' = "items" /\ pos' = pos + 1 /\ ~(index < Len(queried[pos]))
          /\ UNCHANGED <<input, index, lines, ctxDone, late, ret>>
      BY <1>3 DEF NextItem, HasNext
    <2>2. pos \in 1..Len(queried) /\ index = Len(queried[pos])
      BY <2>1, OutputFacts
    <2>3. Cursor = <<pos, index + 1>> /\ Cursor' = <<pos + 1, 1>>
      BY <2>1 DEF Cursor
    <2>4. \A q \in Places : Before(q, <<pos, index + 1>>) <=> Before(q, <<pos + 1, 1>>)
      <3> SUFFICES ASSUME NEW q \in Places
                   PROVE  Before(q, <<pos, index + 1>>) <=> Before(q, <<pos + 1, 1>>)
        OBVIOUS
      <3>1. PICK n \in 1..Len(queried) : \E k \in 1..Len(queried[n]) : q = <<n, k>>
        BY OutputFacts, PlacesAre
      <3>2. PICK k \in 1..Len(queried[n]) : q = <<n, k>>
        BY <3>1
      <3>3. n = pos => k <= index
        BY <2>2, <3>2, OutputFacts
      <3>4. n < pos \/ (n = pos /\ k < index + 1) <=> n < pos + 1 \/ (n = pos + 1 /\ k < 1)
        BY <2>2, <3>1, <3>2, <3>3, OutputFacts
      <3> QED
        BY <3>2, <3>4, BeforePairs
    <2>5. NothingElse'
      BY <1>0, <2>1 DEF NothingElse
    <2>6. pos' \in 1..Len(queried) + 1
      BY <2>1, <2>2, OutputFacts
    <2> QED
      BY <1>0, <2>1, <2>3, <2>4, <2>5, <2>6, OutputFacts, NothingWritten
  <1>4. ASSUME Cancel PROVE OutputInv'
    <2>1. /\ ~ctxDone /\ ctxDone' = TRUE /\ at # "returned"
          /\ UNCHANGED <<input, at, pos, index, lines, late, ret>>
      BY <1>4 DEF Cancel
    <2>2. Cursor' = Cursor
      BY <2>1 DEF Cursor
    <2>3. NothingElse'
      BY <1>0, <2>1 DEF NothingElse
    <2>4. at \in {"items", "next", "value"} /\ (at = "value" => index > 0)
      BY <2>1 DEF OutputInv, OutputTypeOK
    <2> QED
      BY <1>0, <2>1, <2>2, <2>3, <2>4, OutputFacts, NothingWritten
  <1> QED
    BY <1>1, <1>2, <1>3, <1>4

LEMMA WriteStep == OutputInv /\ WriteValue => OutputInv'
  <1> SUFFICES ASSUME OutputInv, WriteValue PROVE OutputInv'
    OBVIOUS
  <1>1. /\ at = "value" /\ queried[pos][index] \in {"item", "text"}
        /\ lines' = Append(lines, Line(pos, index))
        /\ late' = IF ctxDone THEN late + 1 ELSE late
        /\ at' = "next"
        /\ UNCHANGED <<input, pos, index, ctxDone, ret>>
    BY DEF WriteValue, Value
  <1>2. pos \in 1..Len(queried) /\ index \in 1..Len(queried[pos])
    BY <1>1, OutputFacts DEF OutputInv
  <1> DEFINE p == <<pos, index>>
             n == Len(lines) + 1
             LineType == [item : 1..MaxFeedItems, value : 1..MaxValues, form : {"json", "raw"}, feed : BOOLEAN]
  <1>3. p \in Places
    BY <1>2, OutputFacts, PlacesAre
  <1>4. Line(pos, index) = LineOf(p) /\ PlaceOf(LineOf(p)) = p /\ ValueAt(p) \in {"item", "text"}
    <2>1. p[1] = pos /\ p[2] = index /\ ValueAt(p) = queried[pos][index]
      BY DEF ValueAt
    <2> QED
      BY <1>1, <2>1 DEF Line, Form, LineOf, PlaceOf
  <1>5. Line(pos, index) \in LineType
    <2>1. pos \in 1..MaxFeedItems
      BY <1>2, OutputFacts DEF QueriedOK
    <2>2. index \in 1..MaxValues
      BY <1>2, OutputFacts
    <2>3. (withFeed /\ queried[pos][index] = "item") \in BOOLEAN
      OBVIOUS
    <2> QED
      BY <2>1, <2>2, <2>3 DEF Line, Form
  <1>6. /\ lines \in Seq(LineType) /\ lines' \in Seq(LineType) /\ n \in Nat \ {0}
        /\ DOMAIN lines = 1..n-1 /\ DOMAIN lines' = 1..n
        /\ \A m \in 1..n-1 : lines'[m] = lines[m]
        /\ lines'[n] = LineOf(p)
    <2>1. lines \in Seq(LineType)
      BY DEF OutputInv, OutputTypeOK
    <2> HIDE DEF LineType
    <2> QED
      BY <1>1, <1>4, <1>5, <2>1
  <1>7. /\ queried' = queried /\ raw' = raw /\ withFeed' = withFeed /\ code' = code
        /\ QueriedOK' /\ Places' = Places
        /\ \A q : ValueAt(q)' = ValueAt(q) /\ LineOf(q)' = LineOf(q)
    <2>1. queried' = queried /\ raw' = raw /\ withFeed' = withFeed /\ code' = code
      BY <1>1 DEF input
    <2> QED
      BY <2>1, OutputFacts DEF QueriedOK, Places, ValueAt, LineOf
  <1> HIDE DEF n, LineType
  <1>8. Written = {q \in Places : Before(q, p)}
    BY <1>1, OutputFacts DEF Cursor
  <1>9. \A m \in 1..n-1 : Before(PlaceOf(lines[m]), p)
    BY <1>6, <1>8 DEF Written
  <1>10. LinesInOrder'
    <2>1. \A m \in 1..n : /\ PlaceOf(lines'[m]) \in Places
                          /\ lines'[m] = LineOf(PlaceOf(lines'[m]))
                          /\ ValueAt(PlaceOf(lines'[m])) \in {"item", "text"}
      <3> SUFFICES ASSUME NEW m \in 1..n
                   PROVE  /\ PlaceOf(lines'[m]) \in Places
                          /\ lines'[m] = LineOf(PlaceOf(lines'[m]))
                          /\ ValueAt(PlaceOf(lines'[m])) \in {"item", "text"}
        OBVIOUS
      <3>1. CASE m = n
        BY <1>3, <1>4, <1>6, <3>1
      <3>2. CASE m # n
        BY <1>6, <3>2 DEF OutputInv, LinesInOrder
      <3> QED
        BY <3>1, <3>2
    <2>2. \A l, m \in 1..n : l < m => Before(PlaceOf(lines'[l]), PlaceOf(lines'[m]))
      <3> SUFFICES ASSUME NEW l \in 1..n, NEW m \in 1..n, l < m
                   PROVE  Before(PlaceOf(lines'[l]), PlaceOf(lines'[m]))
        OBVIOUS
      <3>1. CASE m = n
        <4>1. l \in 1..n-1
          BY <1>6, <3>1
        <4>2. lines'[l] = lines[l] /\ PlaceOf(lines'[m]) = p
          BY <1>4, <1>6, <3>1, <4>1
        <4> QED
          BY <1>9, <4>1, <4>2
      <3>2. CASE m # n
        BY <1>6, <3>2 DEF OutputInv, LinesInOrder
      <3> QED
        BY <3>1, <3>2
    <2> QED
      BY <1>6, <1>7, <2>1, <2>2 DEF LinesInOrder, PlaceOf, Before
  <1>11. Written' = Written \cup {p}
    <2>1. 1..n = (1..n-1) \cup {n}
      BY <1>6
    <2>2. Written' = {PlaceOf(lines'[m]) : m \in 1..n}
      BY <1>6 DEF Written, PlaceOf
    <2>3. {PlaceOf(lines'[m]) : m \in 1..n} = {PlaceOf(lines[m]) : m \in 1..n-1} \cup {p}
      BY <1>4, <1>6, <2>1
    <2> QED
      BY <1>6, <2>2, <2>3 DEF Written
  <1>12. {q \in Places : Before(q, <<pos, index + 1>>)} = {q \in Places : Before(q, p)} \cup {p}
    <2>1. ASSUME NEW q \in Places
          PROVE  Before(q, <<pos, index + 1>>) <=> Before(q, p) \/ q = p
      <3>1. PICK m \in Int, k \in Int : q = <<m, k>>
        BY OutputFacts, PlacesAre
      <3>2. pos \in Int /\ index \in Int
        BY OutputFacts
      <3>3. m < pos \/ (m = pos /\ k < index + 1) <=> m < pos \/ (m = pos /\ k < index) \/ (m = pos /\ k = index)
        BY <3>2
      <3>4. q = p <=> m = pos /\ k = index
        BY <3>1
      <3> QED
        BY <3>1, <3>3, <3>4, BeforePairs
    <2>2. Before(p, <<pos, index + 1>>)
      BY <1>3, <2>1
    <2> QED
      BY <1>3, <2>1
  <1>13. Cursor' = <<pos, index + 1>>
    BY <1>1 DEF Cursor
  <1>14. Written' = {q \in Places : Before(q, Cursor')}
    BY <1>8, <1>11, <1>12, <1>13
  <1>15. Written' = {q \in Places' : Before(q, Cursor)'}
    BY <1>7, <1>14 DEF Before
  <1>16. NothingElse'
    <2>1. late \in Nat /\ ctxDone \in BOOLEAN /\ NothingElse
      BY DEF OutputInv, OutputTypeOK
    <2>2. code \/ index = Len(queried[pos])
      <3>1. SUFFICES ASSUME ~code PROVE index = Len(queried[pos])
        OBVIOUS
      <3>2. Len(queried[pos]) = 1
        BY <1>2, <3>1, OutputFacts DEF QueriedOK
      <3> QED
        BY <1>2, <3>2
    <2> QED
      BY <1>1, <1>7, <2>1, <2>2 DEF NothingElse
  <1>17. OutputTypeOK'
    <2>1. late' \in Nat
      BY <1>1 DEF OutputInv, OutputTypeOK
    <2>2. /\ pos' \in 1..Len(queried') + 1 /\ index' \in 0..MaxValues
          /\ pos' <= Len(queried') /\ index' <= Len(queried'[pos'])
      BY <1>1, <1>2, <1>7, OutputFacts
    <2>3. lines' \in Seq([item : 1..MaxFeedItems, value : 1..MaxValues, form : {"json", "raw"}, feed : BOOLEAN])
      BY <1>6 DEF LineType
    <2> QED
      BY <1>1, <2>1, <2>2, <2>3 DEF OutputInv, OutputTypeOK
  <1> QED
    BY <1>1, <1>7, <1>10, <1>15, <1>16, <1>17 DEF OutputInv

LEMMA InitOutput == OutputInit => OutputInv
  <1> SUFFICES ASSUME OutputInit PROVE OutputInv
    OBVIOUS
  <1> DEFINE S == IF code THEN Queried ELSE Unqueried
  <1>1. PICK m \in 0..MaxFeedItems : queried \in [1..m -> S]
    BY DEF OutputInit, SeqOf
  <1>2. MaxFeedItems \in Nat /\ MaxValues \in Nat \ {0}
    BY OutputAssumption
  <1>3. \A s \in Queried : s \in Seq(Values) /\ Len(s) <= MaxValues
    <2> SUFFICES ASSUME NEW s \in Queried PROVE s \in Seq(Values) /\ Len(s) <= MaxValues
      OBVIOUS
    <2>1. PICK l \in 0..MaxValues : s \in [1..l -> Values]
      BY DEF Queried, SeqOf
    <2>2. l \in Nat
      BY <1>2
    <2>3. s \in Seq(Values)
      BY <2>1, <2>2, SeqDef
    <2> QED
      BY <1>2, <2>1, <2>2, <2>3
  <1>4. \A s \in Unqueried : s \in Seq(Values) /\ Len(s) = 1
    <2>1. <<"item">> \in Seq({"item"}) /\ Len(<<"item">>) = 1
      OBVIOUS
    <2>2. <<"item">> \in Seq(Values)
      BY DEF Values
    <2> QED
      BY <2>1, <2>2 DEF Unqueried
  <1>5. \A s \in S : s \in Seq(Values) /\ Len(s) <= MaxValues /\ (~code => Len(s) = 1)
    <2>1. CASE code
      BY <1>3, <2>1
    <2>2. CASE ~code
      <3>1. S = Unqueried
        BY <2>2
      <3>2. 1 <= MaxValues
        BY <1>2
      <3> HIDE DEF S
      <3> QED
        BY <1>4, <3>1, <3>2
    <2> QED
      BY <2>1, <2>2
  <1> HIDE DEF S
  <1>6. queried \in Seq(Seq(Values)) /\ Len(queried) = m /\ DOMAIN queried = 1..m
    <2>1. m \in Nat /\ queried \in [1..m -> Seq(Values)]
      BY <1>1, <1>2, <1>5
    <2>2. queried \in Seq(Seq(Values))
      BY <2>1, SeqDef
    <2> QED
      BY <2>1, <2>2
  <1>7. QueriedOK
    <2>1. Len(queried) <= MaxFeedItems
      BY <1>2, <1>6
    <2>2. \A n \in DOMAIN queried : Len(queried[n]) <= MaxValues /\ (~code => Len(queried[n]) = 1)
      BY <1>1, <1>5, <1>6
    <2>3. code \in BOOLEAN /\ raw \in BOOLEAN /\ withFeed \in BOOLEAN
      BY DEF OutputInit
    <2> QED
      BY <1>6, <2>1, <2>2, <2>3 DEF QueriedOK
  <1>8. /\ at = "items" /\ pos = 1 /\ index = 0 /\ lines = <<>> /\ ctxDone = FALSE /\ late = 0
        /\ ret = "none"
    BY DEF OutputInit
  <1>9. OutputTypeOK
    <2>1. pos \in 1..Len(queried) + 1 /\ index \in 0..MaxValues
      BY <1>2, <1>6, <1>8
    <2>2. lines \in Seq([item : 1..MaxFeedItems, value : 1..MaxValues, form : {"json", "raw"}, feed : BOOLEAN])
      BY <1>8
    <2> QED
      BY <1>8, <2>1, <2>2 DEF OutputTypeOK
  <1>10. LinesInOrder /\ NothingElse /\ Written = {}
    BY <1>8 DEF LinesInOrder, NothingElse, Written
  <1>11. \A q \in Places : ~Before(q, Cursor)
    <2>1. Cursor = <<1, 1>>
      BY <1>8 DEF Cursor
    <2> QED
      BY <1>6, <1>7, <2>1, PlacesAre, BeforePairs
  <1> QED
    BY <1>7, <1>8, <1>9, <1>10, <1>11 DEF OutputInv

THEOREM OutputInvariance == OutputSpec => []OutputInv
  <1>1. OutputInv /\ UNCHANGED outputVars => OutputInv'
    <2> SUFFICES ASSUME OutputInv, UNCHANGED outputVars PROVE OutputInv'
      OBVIOUS
    <2>1. /\ UNCHANGED <<input, at, pos, index, lines, ctxDone, late, ret>>
          /\ UNCHANGED <<input, lines>> /\ queried' = queried /\ code' = code
      BY DEF outputVars, input
    <2>2. /\ QueriedOK' /\ LinesInOrder' /\ Places' = Places /\ Written' = Written
          /\ \A p : ValueAt(p)' = ValueAt(p)
      BY <2>1, SameOutput, OutputFacts DEF OutputInv
    <2>3. OutputTypeOK' /\ NothingElse' /\ Cursor' = Cursor
      BY <2>1 DEF OutputInv, OutputTypeOK, NothingElse, Cursor
    <2>4. at # "returned" => Written' = {q \in Places' : Before(q, Cursor)'}
      BY <2>2, <2>3, OutputFacts DEF Before
    <2>5. at = "returned" => LinesExact'
      BY <2>1, <2>2 DEF OutputInv, LinesExact, LinesInOrder, Before
    <2> QED
      BY <2>1, <2>2, <2>3, <2>4, <2>5 DEF OutputInv
  <1> QED
    BY InitOutput, <1>1, ReturnStep, MoveStep, WriteStep, PTL DEF OutputSpec, OutputNext

\* The lines are those of the values from the first on without a gap, up to the
\* first failure.
THEOREM LinesWithoutGap == OutputSpec => []LinesExact
  <1>1. ASSUME OutputInv, at # "returned" PROVE LinesExact
    <2> DEFINE b == CASE at = "items" -> 1 [] at = "next" -> index + 1 [] OTHER -> index
    <2>1. pos \in Int /\ b \in Int
      BY <1>1, OutputFacts
    <2>2. Written = {q \in Places : Before(q, <<pos, b>>)}
      BY <1>1, OutputFacts DEF Cursor
    <2> HIDE DEF b
    <2>3. \A q \in Written : \A p \in Places : Before(p, q) => p \in Written
      BY <1>1, <2>1, <2>2, OutputFacts, NoGap
    <2>4. LinesInOrder /\ ret = "none"
      BY <1>1 DEF OutputInv
    <2> QED
      BY <2>3, <2>4 DEF LinesExact, LinesInOrder
  <1>2. OutputInv => LinesExact
    BY <1>1 DEF OutputInv
  <1> QED
    BY OutputInvariance, <1>2, PTL

\* Once the context is done at most one more line is written.
THEOREM CancellationStops == OutputSpec => []StopsWhenCanceled
  <1>1. OutputInv => StopsWhenCanceled
    BY DEF OutputInv, NothingElse, StopsWhenCanceled
  <1> QED
    BY OutputInvariance, <1>1, PTL
=============================================================================
