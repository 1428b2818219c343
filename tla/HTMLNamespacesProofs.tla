------------------------- MODULE HTMLNamespacesProofs -------------------------
(***************************************************************************)
(* Proofs about HTMLNamespaces.  The invariant is what the run checks of   *)
(* the stack (IndexExact, BoundaryExact, IntegrationPoints): Sound says it *)
(* of any stack and index, Pop and Push that the two operations on them    *)
(* keep it, and each action is one of these, or a pop and a push.          *)
(***************************************************************************)
EXTENDS HTMLNamespaces, Integers, SequenceTheorems, FiniteSetTheorems,
        WellFoundedInduction, TLAPS

Frames == [name : Names, ns : Namespaces, integration : BOOLEAN, mathText : BOOLEAN,
           previous : 0..MaxNestingDepth, htmlBoundary : 0..MaxNestingDepth]

NearestIn(frames, i, name, n) ==
    \/ /\ i \in 1..n - 1 /\ frames[i].name = name
       /\ \A j \in i+1 .. n-1 : frames[j].name # name
    \/ i = 0 /\ \A j \in 1..n - 1 : frames[j].name # name

Typed(frames, names) ==
    /\ frames \in Seq(Frames)
    /\ Len(frames) <= MaxNestingDepth
    /\ names \in [Names -> 0..MaxNestingDepth]

Indexed(frames, names) ==
    /\ \A name \in Names : NearestIn(frames, names[name], name, Len(frames) + 1)
    /\ \A i \in 1..Len(frames) : NearestIn(frames, frames[i].previous, frames[i].name, i)

Bounded(frames, i) ==
    IF frames[i].ns # "html" THEN frames[i].htmlBoundary = 0
    ELSE /\ frames[i].htmlBoundary < i
         /\ frames[i].htmlBoundary # 0 => frames[frames[i].htmlBoundary].ns # "html"
         /\ \A j \in frames[i].htmlBoundary + 1 .. i : frames[j].ns = "html"

Integrated(frames) ==
    \A i \in 2..Len(frames) : frames[i].ns = "html" => HoldsHTML(frames[i-1])

Sound(frames, names) ==
    /\ Typed(frames, names)
    /\ Indexed(frames, names)
    /\ \A i \in 1..Len(frames) : Bounded(frames, i)
    /\ Integrated(frames)

IInv == TypeOK /\ IndexExact /\ BoundaryExact /\ IntegrationPoints

\* What TypeOK says of the variables beside the stack and its index.
OthersTyped ==
    /\ templateDepth \in 0..MaxNestingDepth
    /\ delivered \in [kind : {"start", "selfClosing", "end", "none"}, name : Names \cup {"none"}]
    /\ failed \in BOOLEAN
    /\ nested \in BOOLEAN

\* The invariant of the specification is Sound of its variables.
LEMMA InvIsSound == IInv <=> Sound(namespaces, openNames) /\ OthersTyped
  BY DEF IInv, TypeOK, IndexExact, BoundaryExact, IntegrationPoints, Sound, Typed, Indexed,
         Bounded, Integrated, OthersTyped, Frames, Nearest, NearestIn, Top

-----------------------------------------------------------------------------
(* the least and the greatest of a set of numbers *)

\* A set of natural numbers that is not empty has a least element.
LEMMA Least ==
  ASSUME NEW S, S \subseteq Nat, S # {}
  PROVE  \E i \in S : \A j \in S : i <= j
<1> DEFINE R == {pair \in Nat \X Nat : pair[1] < pair[2]}
<1>1. IsWellFoundedOn(R, Nat)
  BY NatLessThanWellFounded, Zenon DEF OpToRel
<1>2. \A j, i \in Nat : j < i => <<j, i>> \in R
  OBVIOUS
<1> HIDE DEF R
<1>3. PICK i \in S : \A j \in S : <<j, i>> \notin R
  BY <1>1, WFMin
<1>4. \A j \in S : ~(j < i)
  BY <1>2, <1>3
<1> QED
  BY <1>4

\* A set of natural numbers that are at most n has a greatest element, unless
\* it is empty.
LEMMA Greatest ==
  ASSUME NEW n \in Nat, NEW S, S \subseteq 0..n, S # {}
  PROVE  \E i \in S : \A j \in S : j <= i
<1> DEFINE T == {n - i : i \in S}
<1>1. T \subseteq Nat
  <2>1. \A i \in S : n - i \in Nat
    OBVIOUS
  <2> QED
    BY <2>1, Zenon
<1>2. T # {}
  BY Zenon
<1>3. \A j \in S : n - j \in T
  BY Zenon
<1> HIDE DEF T
<1>4. PICK k \in T : \A l \in T : k <= l
  BY <1>1, <1>2, Least
<1>5. PICK i \in S : k = n - i
  BY <1>4, Zenon DEF T
<1> QED
  BY <1>3, <1>4, <1>5

-----------------------------------------------------------------------------
(* the two operations on the stack *)

\* The frames that a pop leaves are those below.
LEMMA PopKeeps ==
  ASSUME namespaces \in Seq(Frames), NEW length \in 0..Top
  PROVE  /\ Popped(length) \in Seq(Frames)
         /\ Len(Popped(length)) = length
         /\ \A i \in 1..length : Popped(length)[i] = namespaces[i]
  BY SubSeqProperties DEF Popped, Top

\* Undoing the frames from the top down makes the index that of the frames
\* that are left (html.go:114-125).
LEMMA PopIndex ==
  ASSUME Sound(namespaces, openNames), NEW length \in 0..Top, NEW name \in Names
  PROVE  NearestIn(namespaces, NamesAfterPop(length)[name], name, length + 1)
<1> DEFINE gone == {i \in length+1 .. Top : namespaces[i].name = name}
<1> DEFINE lowest == CHOOSE i \in gone : \A j \in gone : i <= j
<1>1. Top \in Nat
  BY DEF Sound, Typed, Top
<1>2. NamesAfterPop(length)[name]
        = IF gone = {} THEN openNames[name] ELSE namespaces[lowest].previous
  BY DEF NamesAfterPop
<1>3. CASE gone = {}
  <2>1. \A j \in length+1 .. Top : namespaces[j].name # name
    BY <1>3
  <2>2. NearestIn(namespaces, openNames[name], name, Top + 1)
    BY DEF Sound, Indexed, Top
  <2> QED
    BY <1>1, <1>2, <1>3, <2>1, <2>2 DEF NearestIn
<1>4. CASE gone # {}
  <2>1. gone \subseteq Nat
    BY <1>1
  <2>2. \E i \in gone : \A j \in gone : i <= j
    BY <1>4, <2>1, Least
  <2>3. lowest \in gone /\ \A j \in gone : lowest <= j
    BY <2>2, Zenon
  <2>4. /\ lowest \in length+1 .. Top
        /\ namespaces[lowest].name = name
        /\ \A j \in length+1 .. lowest-1 : namespaces[j].name # name
    BY <1>1, <2>3
  <2> HIDE DEF lowest
  <2>5. NearestIn(namespaces, namespaces[lowest].previous, name, lowest)
    BY <1>1, <2>4 DEF Sound, Indexed, Top
  <2> QED
    BY <1>1, <1>2, <1>4, <2>4, <2>5 DEF NearestIn
<1> QED
  BY <1>3, <1>4

\* What is left after a pop is sound.
LEMMA Pop ==
  ASSUME Sound(namespaces, openNames), NEW length \in 0..Top
  PROVE  Sound(Popped(length), NamesAfterPop(length))
<1> DEFINE frames == Popped(length)
           names == NamesAfterPop(length)
<1>1. Top \in Nat /\ Top <= MaxNestingDepth /\ MaxNestingDepth \in Nat
  BY DepthAssumption DEF Sound, Typed, Top
<1>2. frames \in Seq(Frames) /\ Len(frames) = length /\ \A i \in 1..length : frames[i] = namespaces[i]
  BY PopKeeps DEF Sound, Typed
<1> HIDE DEF frames
<1>3. ASSUME NEW name \in Names
      PROVE  NearestIn(namespaces, names[name], name, length + 1)
  BY <1>3, PopIndex
<1>4. names \in [Names -> 0..MaxNestingDepth]
  <2>1. \A name \in Names : names[name] \in 0..MaxNestingDepth
    BY <1>1, <1>3 DEF NearestIn
  <2> QED
    BY <2>1, Zenon DEF NamesAfterPop
<1> HIDE DEF names
<1>5. Indexed(frames, names)
  <2>1. \A name \in Names : NearestIn(frames, names[name], name, length + 1)
    BY <1>1, <1>2, <1>3 DEF NearestIn
  <2>2. ASSUME NEW i \in 1..length
        PROVE  NearestIn(frames, frames[i].previous, frames[i].name, i)
    <3>1. NearestIn(namespaces, namespaces[i].previous, namespaces[i].name, i)
      BY <1>1 DEF Sound, Indexed, Top
    <3> QED
      BY <1>1, <1>2, <3>1 DEF NearestIn
  <2> QED
    BY <1>2, <2>1, <2>2 DEF Indexed
<1>6. ASSUME NEW i \in 1..length
      PROVE  Bounded(frames, i)
  <2>1. i \in 1..Len(namespaces)
    BY <1>1 DEF Top
  <2>2. Bounded(namespaces, i)
    BY <2>1 DEF Sound
  <2>3. namespaces[i] \in Frames
    BY <2>1 DEF Sound, Typed
  <2>4. namespaces[i].htmlBoundary \in 0..MaxNestingDepth
    BY <2>3 DEF Frames
  <2> QED
    BY <1>1, <1>2, <2>2, <2>4 DEF Bounded
<1>7. Integrated(frames)
  <2>1. \A i \in 2..length : i \in 2..Len(namespaces) /\ i \in 1..length /\ i - 1 \in 1..length
    BY <1>1 DEF Top
  <2> QED
    BY <1>2, <2>1 DEF Sound, Integrated
<1>8. Typed(frames, names)
  BY <1>1, <1>2, <1>4 DEF Typed
<1> QED
  BY <1>2, <1>5, <1>6, <1>7, <1>8 DEF Sound, frames, names

\* What is there after a push is sound, if HTML is pushed only onto an
\* element that has HTML content (html.go:88-112).
LEMMA Push ==
  ASSUME NEW frames, NEW names, Sound(frames, names), Len(frames) < MaxNestingDepth,
         NEW token \in Tokens, NEW ns \in Namespaces,
         frames # <<>> /\ ns = "html" => HoldsHTML(frames[Len(frames)])
  PROVE  Sound(Append(frames, Frame(token, ns, frames, names)),
               [names EXCEPT ![token.name] = Len(frames) + 1])
<1> DEFINE frame == Frame(token, ns, frames, names)
           n == Len(frames)
           pushed == Append(frames, frame)
           index == [names EXCEPT ![token.name] = n + 1]
<1>1. n \in Nat /\ n < MaxNestingDepth /\ MaxNestingDepth \in Nat /\ token.name \in Names
  BY DepthAssumption DEF Sound, Typed, Tokens
<1>2. frames \in Seq(Frames) /\ names \in [Names -> 0..MaxNestingDepth]
  BY DEF Sound, Typed
<1>3. \A i \in 1..n : frames[i] \in Frames /\ Bounded(frames, i)
  BY <1>2 DEF Sound
<1>4. HTMLBoundary(frames, ns) \in 0..n
  <2>1. CASE frames = <<>>
    BY <1>1, <2>1 DEF HTMLBoundary, CurrentFrame, DocumentFrame
  <2>2. CASE frames # <<>>
    <3>1. n \in 1..n /\ CurrentFrame(frames) = frames[n]
      BY <1>2, <2>2 DEF CurrentFrame
    <3>2. Bounded(frames, n) /\ frames[n].htmlBoundary \in Nat
      BY <1>1, <1>3, <3>1 DEF Frames
    <3> QED
      BY <1>1, <3>1, <3>2 DEF HTMLBoundary, Bounded
  <2> QED
    BY <2>1, <2>2
<1>5. /\ frame \in Frames
      /\ frame.name = token.name /\ frame.ns = ns /\ frame.previous = names[token.name]
      /\ frame.htmlBoundary = HTMLBoundary(frames, ns)
  BY <1>1, <1>2, <1>4 DEF Frame, Frames, Element
<1> HIDE DEF frame
<1>6. /\ pushed \in Seq(Frames) /\ Len(pushed) = n + 1 /\ pushed[n + 1] = frame
      /\ \A i \in 1..n : pushed[i] = frames[i]
  BY <1>1, <1>2, <1>5
<1> HIDE DEF pushed
<1>7. Typed(pushed, index)
  BY <1>1, <1>2, <1>6 DEF Typed
<1>8. Indexed(pushed, index)
  <2>1. ASSUME NEW name \in Names
        PROVE  NearestIn(pushed, index[name], name, n + 2)
    <3>1. NearestIn(frames, names[name], name, n + 1)
      BY DEF Sound, Indexed
    <3>2. CASE name = token.name
      <4>1. index[name] = n + 1
        BY <1>2, <3>2
      <4> QED
        BY <1>1, <1>5, <1>6, <3>2, <4>1 DEF NearestIn
    <3>3. CASE name # token.name
      <4>1. index[name] = names[name]
        BY <1>2, <3>3
      <4> QED
        BY <1>1, <1>5, <1>6, <3>1, <3>3, <4>1 DEF NearestIn
    <3> QED
      BY <3>2, <3>3
  <2>2. ASSUME NEW i \in 1..n
        PROVE  NearestIn(pushed, pushed[i].previous, pushed[i].name, i)
    <3>1. NearestIn(frames, frames[i].previous, frames[i].name, i)
      BY DEF Sound, Indexed
    <3>2. pushed[i] = frames[i] /\ \A j \in 1..i-1 : pushed[j] = frames[j]
      BY <1>1, <1>6
    <3>3. \A j : frames[i].previous \in 1..i-1 /\ j \in frames[i].previous+1 .. i-1 => j \in 1..i-1
      OBVIOUS
    <3> QED
      BY <3>1, <3>2, <3>3, SMTT(30) DEF NearestIn
  <2>3. NearestIn(pushed, pushed[n+1].previous, pushed[n+1].name, n + 1)
    <3>1. NearestIn(frames, names[token.name], token.name, n + 1)
      BY <1>1 DEF Sound, Indexed
    <3> QED
      BY <1>1, <1>5, <1>6, <3>1 DEF NearestIn
  <2>4. \A i \in 1..n+1 : i \in 1..n \/ i = n + 1
    BY <1>1
  <2> HIDE DEF index
  <2> QED
    BY <1>1, <1>6, <2>1, <2>2, <2>3, <2>4 DEF Indexed
<1>9. ASSUME NEW i \in 1..n+1
      PROVE  Bounded(pushed, i)
  <2>1. CASE i \in 1..n
    <3>1. Bounded(frames, i) /\ frames[i].htmlBoundary \in Nat
      BY <1>3, <2>1 DEF Frames
    <3> QED
      BY <1>1, <1>6, <2>1, <3>1 DEF Bounded
  <2>2. CASE i = n + 1 /\ ns # "html"
    BY <1>5, <1>6, <2>2 DEF Bounded, HTMLBoundary
  <2>3. CASE i = n + 1 /\ ns = "html" /\ frames = <<>>
    BY <1>1, <1>5, <1>6, <2>3 DEF Bounded, HTMLBoundary, CurrentFrame, DocumentFrame
  <2>4. CASE i = n + 1 /\ ns = "html" /\ frames # <<>>
    <3>1. n \in 1..n /\ CurrentFrame(frames) = frames[n]
      BY <1>2, <2>4 DEF CurrentFrame
    <3>2. Bounded(frames, n) /\ frames[n].htmlBoundary \in Nat
      BY <1>1, <1>3, <3>1 DEF Frames
    <3>3. CASE frames[n].ns # "html"
      BY <1>1, <1>5, <1>6, <2>4, <3>1, <3>3 DEF Bounded, HTMLBoundary
    <3>4. CASE frames[n].ns = "html"
      <4>1. frame.htmlBoundary = frames[n].htmlBoundary
        BY <1>5, <2>4, <3>1, <3>4 DEF HTMLBoundary
      <4> QED
        BY <1>1, <1>5, <1>6, <2>4, <3>1, <3>2, <3>4, <4>1 DEF Bounded
    <3> QED
      BY <3>3, <3>4
  <2> QED
    BY <1>1, <2>1, <2>2, <2>3, <2>4
<1>10. Integrated(pushed)
  <2>1. ASSUME NEW i \in 2..n+1, pushed[i].ns = "html"
        PROVE  HoldsHTML(pushed[i-1])
    <3>1. CASE i \in 2..n
      BY <1>1, <1>6, <2>1, <3>1 DEF Sound, Integrated
    <3>2. CASE i = n + 1
      <4>1. n \in 1..n /\ frames # <<>> /\ i - 1 = n
        BY <1>1, <1>2, <3>2
      <4> QED
        BY <1>5, <1>6, <2>1, <3>2, <4>1
    <3> QED
      BY <1>1, <3>1, <3>2
  <2> QED
    BY <1>1, <1>6, <2>1 DEF Integrated
<1> QED
  BY <1>1, <1>6, <1>7, <1>8, <1>9, <1>10 DEF Sound, pushed, frame, index

-----------------------------------------------------------------------------
(* the steps *)

\* Where a start tag finds itself: a breakout has left all frames without HTML
\* content, and HTML never starts in one of these (html.go:50-61, 127-142).
LEMMA Start ==
  ASSUME Sound(namespaces, openNames), NEW token \in Tokens
  PROVE  /\ StartLength(token) \in 0..Top
         /\ StartNamespace(token, Current) \in Namespaces
         /\ IF IsBreakout(token, Current)
            THEN /\ StartLength(token) > 0 => HoldsHTML(namespaces[StartLength(token)])
                 /\ \A j \in StartLength(token)+1 .. Top : ~HoldsHTML(namespaces[j])
            ELSE StartLength(token) = Top
         /\ StartLength(token) > 0 /\ StartNamespace(token, Current) = "html"
              => HoldsHTML(namespaces[StartLength(token)])
<1>1. Top \in Nat /\ namespaces \in Seq(Frames)
  BY DEF Sound, Typed, Top
<1>2. Current.ns \in Namespaces
  <2>1. CASE namespaces = <<>>
    BY <2>1 DEF Current, CurrentFrame, DocumentFrame, Namespaces
  <2>2. CASE namespaces # <<>>
    <3>1. Current \in Frames
      BY <1>1, <2>2 DEF Current, CurrentFrame, Top
    <3> QED
      BY <3>1 DEF Frames
  <2> QED
    BY <2>1, <2>2
<1>3. StartNamespace(token, Current) \in Namespaces
  BY <1>2, Zenon DEF StartNamespace, NamespaceForStart, Namespaces
<1>4. CASE IsBreakout(token, Current)
  <2> DEFINE keep == {i \in 1..Top : HoldsHTML(namespaces[i])}
  <2>1. StartLength(token) = IF keep = {} THEN 0 ELSE CHOOSE i \in keep : \A j \in keep : j <= i
    BY <1>4 DEF StartLength, BreakoutLength
  <2>2. CASE keep = {}
    <3>1. \A j \in 1..Top : ~HoldsHTML(namespaces[j])
      BY <2>2
    <3> QED
      BY <1>1, <1>3, <1>4, <2>1, <2>2, <3>1
  <2>3. CASE keep # {}
    <3>1. keep \subseteq 0..Top
      BY <1>1
    <3>2. \E i \in keep : \A j \in keep : j <= i
      BY <1>1, <2>3, <3>1, Greatest
    <3>3. StartLength(token) \in keep /\ \A j \in keep : j <= StartLength(token)
      BY <2>1, <2>3, <3>2, Zenon
    <3>4. /\ StartLength(token) \in 1..Top
          /\ HoldsHTML(namespaces[StartLength(token)])
          /\ \A j \in 1..Top : HoldsHTML(namespaces[j]) => j <= StartLength(token)
      BY <3>3
    <3> QED
      BY <1>1, <1>3, <1>4, <3>4
  <2> QED
    BY <2>2, <2>3
<1>5. CASE ~IsBreakout(token, Current)
  <2>1. StartLength(token) = Top
    BY <1>5 DEF StartLength
  <2>2. ASSUME Top > 0, StartNamespace(token, Current) = "html"
        PROVE  HoldsHTML(namespaces[Top])
    <3>1. namespaces # <<>> /\ Current = namespaces[Top]
      BY <1>1, <2>2 DEF Current, CurrentFrame, Top
    <3>2. NamespaceForStart(Current, token.name) = "html"
      BY <1>5, <2>2 DEF IsBreakout, StartNamespace
    <3>3. HoldsHTML(Current)
      BY <3>2 DEF NamespaceForStart, HoldsHTML
    <3> QED
      BY <3>1, <3>3
  <2> QED
    BY <1>1, <1>3, <1>5, <2>1, <2>2
<1> QED
  BY <1>4, <1>5

\* nextDocumentTag keeps its counter within the limit (document.go:126-137).
LEMMA ReturnTyped ==
  ASSUME OthersTyped, NEW token \in Tokens, NEW ns \in Namespaces, Return(token, ns)
  PROVE  /\ templateDepth' \in 0..MaxNestingDepth
         /\ delivered' \in [kind : {"start", "selfClosing", "end", "none"},
                             name : Names \cup {"none"}]
         /\ failed' \in BOOLEAN
<1>1. Deliver(token, ns) \in [kind : {"start", "selfClosing", "end", "none"},
                              name : Names \cup {"none"}]
  BY DEF Deliver, Nothing, Tokens
<1>2. CountTemplates(Deliver(token, ns)) \in 0..MaxNestingDepth
  BY DepthAssumption DEF CountTemplates, NewTemplateTooDeep, OthersTyped
<1>3. NewTemplateTooDeep(Deliver(token, ns)) \in BOOLEAN
  BY DEF NewTemplateTooDeep
<1> QED
  BY <1>1, <1>2, <1>3 DEF Return

\* The initial state is sound.
LEMMA InitInv == Init => IInv
<1> SUFFICES ASSUME Init PROVE IInv
  OBVIOUS
<1>1. namespaces = <<>> /\ Len(namespaces) = 0 /\ openNames \in [Names -> {0}]
  BY DEF Init
<1>2. Typed(namespaces, openNames)
  BY <1>1, DepthAssumption DEF Typed
<1>3. Indexed(namespaces, openNames)
  BY <1>1 DEF Indexed, NearestIn
<1>4. Integrated(namespaces) /\ \A i \in 1..Len(namespaces) : Bounded(namespaces, i)
  BY <1>1 DEF Integrated
<1>5. OthersTyped
  <2>1. Nothing \in [kind : {"start", "selfClosing", "end", "none"}, name : Names \cup {"none"}]
    BY DEF Nothing
  <2>2. templateDepth \in 0..MaxNestingDepth
    BY DepthAssumption DEF Init
  <2> QED
    BY <2>1, <2>2, Zenon DEF Init, OthersTyped
<1> QED
  BY <1>2, <1>3, <1>4, <1>5, InvIsSound DEF Sound

\* Every step keeps the invariant.
LEMMA StepInv == IInv /\ [Next]_vars => IInv'
<1> SUFFICES ASSUME IInv, [Next]_vars PROVE IInv'
  OBVIOUS
<1>1. Sound(namespaces, openNames) /\ OthersTyped
  BY InvIsSound
<1>2. Top \in Nat /\ Top <= MaxNestingDepth /\ MaxNestingDepth \in Nat
      /\ openNames \in [Names -> 0..MaxNestingDepth] /\ namespaces \in Seq(Frames)
  BY <1>1, DepthAssumption DEF Sound, Typed, Top
<1>3. SUFFICES Sound(namespaces', openNames') /\ OthersTyped'
  BY DEF IInv, TypeOK, IndexExact, BoundaryExact, IntegrationPoints, Sound, Typed, Indexed,
         Bounded, Integrated, OthersTyped, Frames, Nearest, NearestIn, Top
<1>4. ASSUME NEW token \in Tokens, CloseElement(token)
      PROVE  Sound(namespaces', openNames') /\ OthersTyped'
  <2> DEFINE i == openNames[token.name]
  <2>1. token.name \in Names /\ i # 0
    BY <1>4 DEF CloseElement, Closes, Tokens
  <2>2. NearestIn(namespaces, i, token.name, Top + 1)
    BY <1>1, <2>1 DEF Sound, Indexed, Top
  <2>3. i \in 1..Top /\ i - 1 \in 0..Top
    BY <1>2, <2>1, <2>2 DEF NearestIn
  <2>4. namespaces[i].ns \in Namespaces
    <3>1. namespaces[i] \in Frames
      BY <1>2, <2>3 DEF Top
    <3> QED
      BY <3>1 DEF Frames
  <2>5. Sound(namespaces', openNames')
    BY <1>1, <1>4, <2>3, Pop DEF CloseElement
  <2>6. Return(token, namespaces[i].ns) /\ nested' \in BOOLEAN
    BY <1>4 DEF CloseElement
  <2> QED
    BY <1>1, <2>4, <2>5, <2>6, ReturnTyped DEF OthersTyped
<1>5. ASSUME NEW token \in Tokens, StrayEndTag(token)
      PROVE  Sound(namespaces', openNames') /\ OthersTyped'
  <2>1. Current.ns \in Namespaces
    <3>1. CASE namespaces = <<>>
      BY <3>1 DEF Current, CurrentFrame, DocumentFrame, Namespaces
    <3>2. CASE namespaces # <<>>
      <4>1. Current \in Frames
        BY <1>2, <3>2 DEF Current, CurrentFrame, Top
      <4> QED
        BY <4>1 DEF Frames
    <3> QED
      BY <3>1, <3>2
  <2>2. Return(token, Current.ns) /\ nested' \in BOOLEAN /\ UNCHANGED <<namespaces, openNames>>
    BY <1>5 DEF StrayEndTag
  <2> QED
    BY <1>1, <2>1, <2>2, ReturnTyped DEF OthersTyped
<1>6. ASSUME NEW token \in Tokens, OpenElement(token)
      PROVE  Sound(namespaces', openNames') /\ OthersTyped'
  <2> DEFINE ns == StartNamespace(token, Current)
             length == StartLength(token)
             frames == Popped(length)
             names == NamesAfterPop(length)
  <2>1. length \in 0..Top /\ ns \in Namespaces
        /\ (length > 0 /\ ns = "html" => HoldsHTML(namespaces[length]))
    BY <1>1, Start, Zenon
  <2>2. /\ length < MaxNestingDepth
        /\ namespaces' = Append(frames, Frame(token, ns, frames, names))
        /\ openNames' = [names EXCEPT ![token.name] = length + 1]
        /\ Return(token, ns) /\ nested' = nested
    BY <1>6 DEF OpenElement, HasRoom
  <2> HIDE DEF ns, length
  <2>3. Sound(frames, names) /\ Len(frames) = length /\ frames \in Seq(Frames)
        /\ \A i \in 1..length : frames[i] = namespaces[i]
    BY <1>1, <1>2, <2>1, Pop, PopKeeps
  <2> HIDE DEF frames, names
  <2>4. frames # <<>> /\ ns = "html" => HoldsHTML(frames[length])
    BY <2>1, <2>3
  <2>5. Sound(namespaces', openNames')
    BY <2>1, <2>2, <2>3, <2>4, Push
  <2> QED
    BY <1>1, <2>1, <2>2, <2>5, ReturnTyped DEF OthersTyped
<1>7. ASSUME NEW token \in Tokens, VisitElement(token)
      PROVE  Sound(namespaces', openNames') /\ OthersTyped'
  <2>1. StartLength(token) \in 0..Top /\ StartNamespace(token, Current) \in Namespaces
    BY <1>1, Start, Zenon
  <2>2. Sound(namespaces', openNames')
    BY <1>1, <1>7, <2>1, Pop DEF VisitElement
  <2>3. Return(token, StartNamespace(token, Current)) /\ nested' = nested
    BY <1>7 DEF VisitElement
  <2> QED
    BY <1>1, <2>1, <2>2, <2>3, ReturnTyped DEF OthersTyped
<1>8. ASSUME NEW token \in Tokens, TooDeep(token)
      PROVE  Sound(namespaces', openNames') /\ OthersTyped'
  BY <1>1, <1>8 DEF TooDeep, OthersTyped
<1>9. CASE Stopped \/ UNCHANGED vars
  BY <1>1, <1>9 DEF Stopped, vars, OthersTyped
<1> QED
  BY <1>4, <1>5, <1>6, <1>7, <1>8, <1>9 DEF Next

\* The stack has its type and stays within the limit, the tags and the counter
\* theirs (html.go:88-112, document.go:126-137).
THEOREM TypeCorrect == Spec => []TypeOK
<1>1. IInv => TypeOK
  BY DEF IInv
<1> QED
  BY <1>1, InitInv, StepInv, PTL DEF Spec

\* The index finds what a search of the stack would, after any pushes and pops
\* (html.go:104-125).
THEOREM IndexCorrect == Spec => []IndexExact
<1>1. IInv => IndexExact
  BY DEF IInv
<1> QED
  BY <1>1, InitInv, StepInv, PTL DEF Spec

\* Every frame of HTML knows the foreign frame it is in (html.go:95-102).
THEOREM BoundaryCorrect == Spec => []BoundaryExact
<1>1. IInv => BoundaryExact
  BY DEF IInv
<1> QED
  BY <1>1, InitInv, StepInv, PTL DEF Spec

\* HTML is in foreign elements only where they have HTML content
\* (html.go:50-61, 127-142).
THEOREM HTMLOnlyWhereAllowed == Spec => []IntegrationPoints
<1>1. IInv => IntegrationPoints
  BY DEF IInv
<1> QED
  BY <1>1, InitInv, StepInv, PTL DEF Spec

-----------------------------------------------------------------------------
(* the templates *)

IsTemplate(frame) == frame.name = "template" /\ frame.ns = "html"
TemplatesIn(frames) == {i \in 1..Len(frames) : IsTemplate(frames[i])}

\* The templates of a stack can be counted.
LEMMA TemplatesFinite ==
  ASSUME NEW frames \in Seq(Frames)
  PROVE  IsFiniteSet(TemplatesIn(frames)) /\ Cardinality(TemplatesIn(frames)) \in Nat
<1>1. IsFiniteSet(1..Len(frames))
  BY FS_Interval
<1>2. TemplatesIn(frames) \subseteq 1..Len(frames)
  BY DEF TemplatesIn
<1>3. IsFiniteSet(TemplatesIn(frames))
  BY <1>1, <1>2, FS_Subset
<1> QED
  BY <1>3, FS_CardinalityType

\* A pop of frames that are no templates keeps the number of templates.
LEMMA PopTemplates ==
  ASSUME namespaces \in Seq(Frames), NEW length \in 0..Top,
         \A j \in length+1 .. Top : ~IsTemplate(namespaces[j])
  PROVE  TemplatesIn(Popped(length)) = TemplatesIn(namespaces)
<1>1. Len(Popped(length)) = length /\ \A i \in 1..length : Popped(length)[i] = namespaces[i]
  BY PopKeeps
<1>2. \A i : i \in 1..Top /\ i \notin 1..length => i \in length+1 .. Top
  BY DEF Top
<1>3. \A i \in 1..length : i \in 1..Top
  BY DEF Top
<1> QED
  BY <1>1, <1>2, <1>3 DEF TemplatesIn, Top

\* A push of a template makes one more, any other push keeps their number.
LEMMA PushTemplates ==
  ASSUME NEW frames \in Seq(Frames), NEW frame
  PROVE  Cardinality(TemplatesIn(Append(frames, frame)))
           = Cardinality(TemplatesIn(frames)) + IF IsTemplate(frame) THEN 1 ELSE 0
<1> DEFINE n == Len(frames)
           pushed == Append(frames, frame)
<1>1. n \in Nat
  OBVIOUS
<1>2. Len(pushed) = n + 1 /\ pushed[n + 1] = frame /\ \A i \in 1..n : pushed[i] = frames[i]
  BY AppendProperties
<1> HIDE DEF pushed
<1>3. \A i : i \in 1..n+1 <=> i \in 1..n \/ i = n + 1
  BY <1>1
<1>4. TemplatesIn(pushed)
        = IF IsTemplate(frame) THEN TemplatesIn(frames) \cup {n + 1} ELSE TemplatesIn(frames)
  BY <1>2, <1>3 DEF TemplatesIn
<1>5. n + 1 \notin TemplatesIn(frames)
  BY <1>1 DEF TemplatesIn
<1>6. Cardinality(TemplatesIn(frames) \cup {n + 1}) = Cardinality(TemplatesIn(frames)) + 1
  BY <1>5, TemplatesFinite, FS_AddElement
<1> QED
  BY <1>4, <1>6, TemplatesFinite DEF pushed

\* The counter of nextDocumentTag changes with the number of open templates.
LEMMA StepTemplates == IInv /\ TemplatesAgree /\ [Next]_vars => TemplatesAgree'
<1> SUFFICES ASSUME IInv, TemplatesAgree, [Next]_vars, nested', ~failed'
             PROVE  templateDepth' = Cardinality(TemplatesIn(namespaces'))
  BY DEF TemplatesAgree, OpenTemplates, TemplatesIn, IsTemplate, Top
<1> DEFINE Count == Cardinality(TemplatesIn(namespaces))
<1>1. Sound(namespaces, openNames) /\ OthersTyped
  BY InvIsSound
<1>2. Top \in Nat /\ namespaces \in Seq(Frames) /\ templateDepth \in Nat /\ Count \in Nat
  BY <1>1, TemplatesFinite DEF Sound, Typed, Top, OthersTyped
<1>3. nested /\ ~failed => templateDepth = Count
  BY DEF TemplatesAgree, OpenTemplates, TemplatesIn, IsTemplate, Top
<1> HIDE DEF Count
<1>4. ASSUME NEW token \in Tokens, CloseElement(token)
      PROVE  templateDepth' = Cardinality(TemplatesIn(namespaces'))
  <2> DEFINE i == openNames[token.name]
  <2>1. /\ token.name \in Names /\ i # 0 /\ token.kind = "end" /\ token.name = Current.name
        /\ templateDepth = Count
    BY <1>3, <1>4 DEF CloseElement, Closes, Tokens
  <2>2. NearestIn(namespaces, i, token.name, Top + 1)
    BY <1>1, <2>1 DEF Sound, Indexed, Top
  <2>3. i \in 1..Top /\ namespaces[i].name = token.name
        /\ \A j \in i+1 .. Top : namespaces[j].name # token.name
    BY <1>2, <2>1, <2>2 DEF NearestIn
  <2>4. Current = namespaces[Top]
    BY <1>2, <2>3 DEF Current, CurrentFrame, Top
  <2>5. i = Top
    BY <1>2, <2>1, <2>3, <2>4
  <2> DEFINE frames == Popped(Top - 1)
  <2>6. namespaces' = frames /\ Return(token, namespaces[Top].ns)
    BY <1>4, <2>5 DEF CloseElement
  <2>7. frames \in Seq(Frames) /\ Len(frames) = Top - 1
        /\ \A j \in 1..Top - 1 : frames[j] = namespaces[j]
    BY <1>2, <2>3, PopKeeps
  <2>8. namespaces = Append(frames, namespaces[Top])
    BY <1>2, <2>3, SubSeqProperties DEF Popped, Top
  <2> HIDE DEF frames
  <2>9. Count = Cardinality(TemplatesIn(frames)) + IF IsTemplate(namespaces[Top]) THEN 1 ELSE 0
    BY <2>7, <2>8, PushTemplates, Zenon DEF Count
  <2>10. Cardinality(TemplatesIn(frames)) \in Nat
    BY <2>7, TemplatesFinite
  <2>11. CASE IsTemplate(namespaces[Top])
    <3>1. token.name = "template" /\ namespaces[Top].ns = "html"
      BY <2>1, <2>4, <2>11 DEF IsTemplate
    <3>2. templateDepth' = templateDepth - 1
      BY <1>2, <2>1, <2>6, <2>9, <2>10, <2>11, <3>1
      DEF Return, Deliver, CountTemplates, NewTemplateTooDeep
    <3> QED
      BY <1>2, <2>1, <2>6, <2>9, <2>10, <2>11, <3>2
  <2>12. CASE ~IsTemplate(namespaces[Top])
    <3>1. Deliver(token, namespaces[Top].ns).name # "template"
      BY <2>3, <2>5, <2>12 DEF IsTemplate, Deliver, Nothing
    <3>2. templateDepth' = templateDepth
      BY <2>6, <3>1 DEF Return, CountTemplates
    <3> QED
      BY <1>2, <2>1, <2>6, <2>9, <2>10, <2>12, <3>2
  <2> QED
    BY <2>11, <2>12
<1>5. ASSUME NEW token \in Tokens, StrayEndTag(token)
      PROVE  templateDepth' = Cardinality(TemplatesIn(namespaces'))
  <2>1. /\ namespaces = <<>> /\ namespaces' = <<>> /\ token.kind = "end"
        /\ Return(token, Current.ns) /\ templateDepth = Count
    BY <1>3, <1>5 DEF StrayEndTag
  <2>2. TemplatesIn(namespaces) = {}
    BY <2>1 DEF TemplatesIn
  <2>3. Count = 0
    BY <2>2, FS_EmptySet DEF Count
  <2>4. templateDepth' = 0
    BY <2>1, <2>3 DEF Return, CountTemplates, NewTemplateTooDeep, Deliver, Nothing
  <2> QED
    BY <2>1, <2>3, <2>4 DEF Count
<1>6. ASSUME NEW token \in Tokens, OpenElement(token) \/ VisitElement(token)
      PROVE  templateDepth' = Cardinality(TemplatesIn(namespaces'))
  <2> DEFINE ns == StartNamespace(token, Current)
             length == StartLength(token)
             frames == Popped(length)
             tag == Deliver(token, ns)
  <2>1. /\ token.kind # "end" /\ templateDepth = Count
        /\ templateDepth' = CountTemplates(tag) /\ ~NewTemplateTooDeep(tag)
    BY <1>3, <1>6 DEF OpenElement, VisitElement, Return
  <2>2. length \in 0..Top
    BY <1>1, Start, Zenon
  <2>3. \A j \in length+1 .. Top : ~HoldsHTML(namespaces[j])
    <3>1. CASE IsBreakout(token, Current)
      BY <1>1, <3>1, Start, Zenon
    <3>2. CASE ~IsBreakout(token, Current)
      BY <1>2, <3>2 DEF StartLength
    <3> QED
      BY <3>1, <3>2
  <2>4. \A j \in length+1 .. Top : ~IsTemplate(namespaces[j])
    BY <2>3, Zenon DEF HoldsHTML, IsTemplate
  <2> HIDE DEF length
  <2>5. frames \in Seq(Frames) /\ Cardinality(TemplatesIn(frames)) = Count
    BY <1>2, <2>2, <2>4, PopKeeps, PopTemplates DEF Count
  <2> DEFINE IsNew == token.name = "template" /\ ns = "html"
  <2>6. templateDepth' = Count + IF IsNew THEN 1 ELSE 0
    <3> HIDE DEF ns
    <3> QED
      BY <1>2, <2>1 DEF CountTemplates, Deliver, Nothing
  <2>7. CASE OpenElement(token)
    <3> DEFINE frame == Frame(token, ns, frames, NamesAfterPop(length))
    <3>1. namespaces' = Append(frames, frame)
      BY <2>7 DEF OpenElement, length
    <3>2. IsTemplate(frame) <=> IsNew
      BY DEF IsTemplate, Frame
    <3> HIDE DEF frame, frames, ns
    <3>3. Cardinality(TemplatesIn(namespaces'))
            = Cardinality(TemplatesIn(frames)) + IF IsTemplate(frame) THEN 1 ELSE 0
      BY <2>5, <3>1, PushTemplates
    <3> QED
      BY <2>5, <2>6, <3>2, <3>3
  <2>8. CASE VisitElement(token)
    <3>1. namespaces' = frames /\ ~IsTracked(token, ns)
      BY <2>8 DEF VisitElement, length
    <3>2. ~IsNew
      BY <3>1, VoidsAssumption DEF IsTracked, IsEmpty
    <3> HIDE DEF frames, ns
    <3> QED
      BY <1>2, <2>5, <2>6, <3>1, <3>2
  <2> QED
    BY <1>6, <2>7, <2>8
<1>7. ASSUME NEW token \in Tokens, TooDeep(token)
      PROVE  templateDepth' = Cardinality(TemplatesIn(namespaces'))
  BY <1>7 DEF TooDeep
<1>8. CASE Stopped \/ UNCHANGED vars
  <2>1. UNCHANGED <<templateDepth, namespaces>>
    BY <1>8 DEF Stopped, vars
  <2>2. nested' = nested /\ failed' = failed
    BY <1>8 DEF Stopped, vars
  <2>3. nested /\ ~failed
    BY <2>2, Zenon
  <2> QED
    BY <1>3, <2>1, <2>3 DEF Count
<1> QED
  BY <1>4, <1>5, <1>6, <1>7, <1>8 DEF Next

\* While elements are properly nested, as many templates are open as
\* nextDocumentTag has counted (document.go:126-137, html.go:67-73).
THEOREM TemplatesCounted == Spec => []TemplatesAgree
<1>1. Init => TemplatesAgree
  <2> SUFFICES ASSUME Init PROVE TemplatesAgree
    OBVIOUS
  <2>1. OpenTemplates = {}
    BY DEF Init, OpenTemplates, Top
  <2>2. templateDepth = 0 /\ Cardinality(OpenTemplates) = 0
    BY <2>1, FS_EmptySet DEF Init
  <2> QED
    BY <2>2 DEF TemplatesAgree
<1> QED
  BY <1>1, InitInv, StepInv, StepTemplates, PTL DEF Spec

-----------------------------------------------------------------------------
(* the plain stack *)

Bares(frames) == [i \in 1..Len(frames) |-> Bare(frames[i])]
Stack == Bares(namespaces)

\* A pop, seen without the shortcuts.
LEMMA BarePop ==
  ASSUME namespaces \in Seq(Frames), NEW length \in 0..Top
  PROVE  Bares(Popped(length)) = SubSeq(Stack, 1, length)
<1>1. Len(Popped(length)) = length /\ \A i \in 1..length : Popped(length)[i] = namespaces[i]
  BY PopKeeps
<1>2. Bares(Popped(length)) = [i \in 1..length |-> Bare(namespaces[i])]
  BY <1>1, Zenon DEF Bares
<1>3. SubSeq(Stack, 1, length) = [i \in 1..length |-> Bare(namespaces[i])]
  <2>1. \A i \in 1..length : i \in 1..Len(namespaces)
    BY DEF Top
  <2> QED
    BY <2>1 DEF Stack, Bares, Top
<1> QED
  BY <1>2, <1>3

\* A push, seen without the shortcuts.
LEMMA BarePush ==
  ASSUME NEW frames \in Seq(Frames), NEW frame
  PROVE  Bares(Append(frames, frame)) = Append(Bares(frames), Bare(frame))
<1> DEFINE n == Len(frames)
           pushed == Append(frames, frame)
<1>1. n \in Nat
  OBVIOUS
<1>2. Len(pushed) = n + 1 /\ pushed[n + 1] = frame /\ \A i \in 1..n : pushed[i] = frames[i]
  BY AppendProperties
<1> HIDE DEF pushed
<1>3. Bares(pushed) = [i \in 1..n+1 |-> IF i = n + 1 THEN Bare(frame) ELSE Bare(frames[i])]
  <2>1. \A i \in 1..n+1 : i \in 1..n \/ i = n + 1
    BY <1>1
  <2> QED
    BY <1>2, <2>1 DEF Bares
<1>4. Append(Bares(frames), Bare(frame))
        = [i \in 1..n+1 |-> IF i = n + 1 THEN Bare(frame) ELSE Bare(frames[i])]
  BY <1>1 DEF Bares
<1> QED
  BY <1>3, <1>4 DEF pushed

\* The plain stack has the same elements, its innermost one is the current one.
LEMMA BareStack ==
  ASSUME NEW frames \in Seq(Frames)
  PROVE  /\ Len(Bares(frames)) = Len(frames) /\ DOMAIN Bares(frames) = 1..Len(frames)
         /\ \A i \in 1..Len(frames) : Bares(frames)[i] = Bare(frames[i])
         /\ Bare(CurrentFrame(frames)) = Plain!Innermost(Bares(frames))
<1>1. Len(Bares(frames)) = Len(frames) /\ DOMAIN Bares(frames) = 1..Len(frames)
      /\ \A i \in 1..Len(frames) : Bares(frames)[i] = Bare(frames[i])
  BY DEF Bares
<1>2. CASE frames = <<>>
  <2>1. Len(Bares(frames)) = 0 /\ Bares(frames) = <<>>
    BY <1>2 DEF Bares
  <2> QED
    BY <1>1, <1>2, <2>1 DEF Plain!Innermost, CurrentFrame, DocumentFrame, Bare
<1>3. CASE frames # <<>>
  <2>1. Len(frames) \in 1..Len(frames) /\ Bares(frames) # <<>>
    BY <1>1, <1>3
  <2>2. CurrentFrame(frames) = frames[Len(frames)]
    BY <1>3 DEF CurrentFrame
  <2>3. Plain!Innermost(Bares(frames)) = Bares(frames)[Len(frames)]
    BY <1>1, <2>1 DEF Plain!Innermost
  <2> QED
    BY <1>1, <2>1, <2>2, <2>3
<1> QED
  BY <1>2, <1>3

\* The same of the frames of the state.
LEMMA StackFacts ==
  ASSUME namespaces \in Seq(Frames)
  PROVE  /\ Len(Stack) = Top /\ DOMAIN Stack = 1..Top /\ Top \in Nat
         /\ \A i \in 1..Top : Stack[i] = Bare(namespaces[i])
         /\ \A i \in 1..Top : Stack[i].name = namespaces[i].name /\ Stack[i].ns = namespaces[i].ns
         /\ Bare(Current) = Plain!Innermost(Stack)
<1>1. /\ Len(Stack) = Top /\ DOMAIN Stack = 1..Top /\ Top \in Nat
      /\ \A i \in 1..Top : Stack[i] = Bare(namespaces[i])
      /\ Bare(Current) = Plain!Innermost(Stack)
  BY BareStack DEF Stack, Top, Current
<1>2. \A frame : Bare(frame).name = frame.name /\ Bare(frame).ns = frame.ns
  BY DEF Bare
<1> QED
  BY <1>1, <1>2

\* The rules for foreign elements do not see the shortcuts.
LEMMA SameRules ==
  ASSUME NEW token, NEW frame, NEW ns
  PROVE  /\ Plain!StartNamespace(token, Bare(frame)) = StartNamespace(token, frame)
         /\ Plain!IsBreakout(token, Bare(frame)) = IsBreakout(token, frame)
         /\ Plain!HoldsHTML(Bare(frame)) <=> HoldsHTML(frame)
         /\ Plain!IsEmpty(token, ns) = IsEmpty(token, ns)
         /\ Plain!Deliver(token, ns) = Deliver(token, ns)
         /\ Plain!Nothing = Nothing
         /\ Plain!Element(token, ns) = Element(token, ns)
         /\ Plain!Tokens = Tokens
<1>1. /\ Bare(frame).name = frame.name /\ Bare(frame).ns = frame.ns
      /\ Bare(frame).integration = frame.integration /\ Bare(frame).mathText = frame.mathText
  BY DEF Bare
<1>2. Plain!NamespaceForStart(Bare(frame), token.name) = NamespaceForStart(frame, token.name)
  BY <1>1 DEF Plain!NamespaceForStart, NamespaceForStart
<1>3. Plain!IsForeignBreakout(token) = IsForeignBreakout(token)
  BY DEF Plain!IsForeignBreakout, IsForeignBreakout
<1>4. /\ Plain!StartNamespace(token, Bare(frame)) = StartNamespace(token, frame)
      /\ Plain!IsBreakout(token, Bare(frame)) = IsBreakout(token, frame)
  BY <1>2, <1>3, Zenon DEF Plain!StartNamespace, StartNamespace, Plain!IsBreakout, IsBreakout
<1>5. Plain!HoldsHTML(Bare(frame)) <=> HoldsHTML(frame)
  BY <1>1, Zenon DEF Plain!HoldsHTML, HoldsHTML
<1>6. /\ Plain!IsEmpty(token, ns) = IsEmpty(token, ns)
      /\ Plain!Deliver(token, ns) = Deliver(token, ns)
      /\ Plain!Nothing = Nothing
  BY Zenon DEF Plain!IsEmpty, IsEmpty, Plain!Deliver, Deliver, Plain!Nothing, Nothing
<1>7. Plain!Element(token, ns) = Element(token, ns) /\ Plain!Tokens = Tokens
  BY Zenon DEF Plain!Element, Element, Plain!Tokens, Tokens
<1> QED
  BY <1>4, <1>5, <1>6, <1>7

\* The innermost open element of a name is the one the index has.
LEMMA NearestIsIndexed ==
  ASSUME Sound(namespaces, openNames), NEW name \in Names, NEW i \in 1..Top
  PROVE  Plain!IsNearest(i, name) <=> i = openNames[name]
<1>1. NearestIn(namespaces, openNames[name], name, Top + 1) /\ Top \in Nat
  BY DEF Sound, Indexed, Typed, Top
<1>2. Len(Stack) = Top /\ DOMAIN Stack = 1..Top
      /\ \A j \in 1..Top : Stack[j].name = namespaces[j].name
  BY StackFacts DEF Sound, Typed
<1>3. Plain!IsNearest(i, name) <=> /\ namespaces[i].name = name
                                  /\ \A j \in i+1 .. Top : namespaces[j].name # name
  <2>1. \A j \in i+1 .. Top : j \in 1..Top
    BY <1>1
  <2> QED
    BY <1>2, <2>1 DEF Plain!IsNearest, Stack, Bares, Top
<1> QED
  BY <1>1, <1>3 DEF NearestIn

\* The boundary of the current frame decides what a search for foreign frames
\* would (html.go:42-48).
LEMMA ReachesByBoundary ==
  ASSUME Sound(namespaces, openNames), NEW i \in 1..Top
  PROVE  Plain!Reaches(i) <=> \/ Current.ns # "html"
                             \/ namespaces[i].ns = "html"
                             \/ i >= Current.htmlBoundary
<1>1. Top \in Nat /\ Top \in 1..Top /\ namespaces \in Seq(Frames) /\ namespaces # <<>>
  BY DEF Sound, Typed, Top
<1>2. Len(Stack) = Top /\ \A j \in 1..Top : Stack[j].ns = namespaces[j].ns
  BY <1>1, StackFacts
<1>3. Current = namespaces[Top] /\ Plain!Innermost(Stack).ns = Current.ns
  <2>1. Current = namespaces[Top]
    BY <1>1 DEF Current, CurrentFrame, Top
  <2>2. Bare(Current).ns = Current.ns
    BY DEF Bare
  <2> QED
    BY <1>1, <2>1, <2>2, StackFacts
<1>4. Bounded(namespaces, Top) /\ namespaces[Top].htmlBoundary \in Nat
  <2>1. Bounded(namespaces, Top)
    BY <1>1 DEF Sound, Top
  <2>2. namespaces[Top] \in Frames
    BY <1>1 DEF Top
  <2> QED
    BY <2>1, <2>2 DEF Frames
<1>5. Plain!Reaches(i) <=> \/ Current.ns # "html"
                          \/ namespaces[i].ns = "html"
                          \/ \A j \in i+1 .. Top : namespaces[j].ns = "html"
  <2>1. \A j \in i+1 .. Top : j \in 1..Top
    BY <1>1
  <2> QED
    BY <1>2, <1>3, <2>1 DEF Plain!Reaches, Stack, Bares, Top
<1> QED
  BY <1>1, <1>3, <1>4, <1>5 DEF Bounded

\* A start tag is one for the plain stack: a breakout leaves the frames that
\* the plain stack would, and what is tracked is the same.
LEMMA PlainStart ==
  ASSUME Sound(namespaces, openNames), NEW token \in Tokens,
         OpenElement(token) \/ VisitElement(token)
  PROVE  Plain!StartTag(token)
<1> DEFINE ns == StartNamespace(token, Current)
           n == StartLength(token)
           outer == SubSeq(Stack, 1, n)
           frames == Popped(n)
<1>1. namespaces \in Seq(Frames) /\ Top \in Nat /\ n \in 0..Top
  <2>1. namespaces \in Seq(Frames) /\ Top \in Nat
    BY DEF Sound, Typed, Top
  <2> QED
    BY <2>1, Start, Zenon
<1>2. /\ Len(Stack) = Top
      /\ \A i \in 1..Top : Stack[i] = Bare(namespaces[i])
      /\ Bare(Current) = Plain!Innermost(Stack)
  BY <1>1, StackFacts
<1>3. /\ Plain!StartNamespace(token, Plain!Innermost(Stack)) = ns
      /\ Plain!IsBreakout(token, Plain!Innermost(Stack)) = IsBreakout(token, Current)
  BY <1>2, SameRules
<1>4. /\ Plain!IsEmpty(token, ns) = IsEmpty(token, ns)
      /\ Plain!Deliver(token, ns) = Deliver(token, ns)
      /\ Plain!Element(token, ns) = Element(token, ns)
  BY SameRules
<1>5. token.kind # "end" /\ delivered' = Deliver(token, ns)
  BY DEF OpenElement, VisitElement, Return
<1>6. frames \in Seq(Frames) /\ Len(frames) = n /\ Bares(frames) = outer
      /\ \A i \in 1..n : frames[i] = namespaces[i]
  BY <1>1, PopKeeps, BarePop
<1> HIDE DEF frames
<1>7. IF IsBreakout(token, Current)
      THEN /\ Plain!HoldsHTML(Plain!Innermost(outer))
           /\ \A j \in n+1 .. Top : ~Plain!HoldsHTML(Stack[j])
      ELSE n = Top
  <2>1. CASE IsBreakout(token, Current)
    <3>1. /\ n > 0 => HoldsHTML(namespaces[n])
          /\ \A j \in n+1 .. Top : ~HoldsHTML(namespaces[j])
      BY <2>1, Start, Zenon
    <3>2. HoldsHTML(CurrentFrame(frames))
      <4>1. CASE n = 0
        BY <1>6, <4>1 DEF CurrentFrame, DocumentFrame, HoldsHTML
      <4>2. CASE n > 0
        <5>1. CurrentFrame(frames) = namespaces[n]
          BY <1>1, <1>6, <4>2 DEF CurrentFrame
        <5> QED
          BY <3>1, <4>2, <5>1
      <4> QED
        BY <1>1, <4>1, <4>2
    <3>3. Plain!HoldsHTML(Plain!Innermost(outer))
      <4>1. Plain!Innermost(outer) = Bare(CurrentFrame(frames))
        BY <1>6, BareStack
      <4> QED
        BY <3>2, <4>1, SameRules
    <3>4. ASSUME NEW j \in n+1 .. Top
          PROVE  ~Plain!HoldsHTML(Stack[j])
      <4>1. j \in 1..Top
        BY <1>1
      <4>2. Stack[j] = Bare(namespaces[j]) /\ ~HoldsHTML(namespaces[j])
        BY <1>2, <3>1, <4>1
      <4> QED
        BY <4>2, SameRules
    <3> QED
      BY <2>1, <3>3, <3>4
  <2>2. CASE ~IsBreakout(token, Current)
    BY <2>2, Start, Zenon
  <2> QED
    BY <2>1, <2>2
<1> HIDE DEF ns, n
<1>8. IsTracked(token, ns)
        <=> ~(IsEmpty(token, ns) \/ (ns = "html" /\ n = 0 /\ token.name # "template"))
  BY <1>1 DEF IsTracked, n
<1>9. IF IsEmpty(token, ns) \/ (ns = "html" /\ n = 0 /\ token.name # "template")
      THEN Stack' = outer
      ELSE n < MaxNestingDepth /\ Stack' = Append(outer, Element(token, ns))
  <2>1. CASE OpenElement(token)
    <3> DEFINE frame == Frame(token, ns, frames, NamesAfterPop(n))
    <3>1. IsTracked(token, ns) /\ n < MaxNestingDepth /\ namespaces' = Append(frames, frame)
      BY <2>1 DEF OpenElement, HasRoom, ns, n, frames
    <3>2. Bare(frame) = Element(token, ns)
      BY DEF Bare, Frame, Element
    <3> HIDE DEF frame
    <3>3. Stack' = Append(outer, Bare(frame))
      <4>1. Bares(Append(frames, frame)) = Append(Bares(frames), Bare(frame))
        BY <1>6, BarePush
      <4> QED
        BY <1>6, <3>1, <4>1, Zenon DEF Stack
    <3> QED
      BY <1>8, <3>1, <3>2, <3>3
  <2>2. CASE VisitElement(token)
    <3>1. ~IsTracked(token, ns) /\ namespaces' = frames
      BY <2>2 DEF VisitElement, ns, n, frames
    <3>2. Stack' = outer
      BY <1>6, <3>1, Zenon DEF Stack
    <3> QED
      BY <1>8, <3>1, <3>2
  <2> QED
    BY <2>1, <2>2
<1> HIDE DEF outer
<1>10. n \in 0..Len(Stack)
  BY <1>1, <1>2
<1> QED
  BY <1>2, <1>3, <1>4, <1>5, <1>7, <1>9, <1>10 DEF Plain!StartTag, Stack, Bares, Top, outer

\* An end tag is one for the plain stack.
LEMMA PlainEnd ==
  ASSUME Sound(namespaces, openNames), NEW token \in Tokens,
         CloseElement(token) \/ StrayEndTag(token)
  PROVE  Plain!EndTag(token)
<1> DEFINE name == token.name
           k == openNames[name]
<1>1. namespaces \in Seq(Frames) /\ Top \in Nat /\ name \in Names /\ token.kind = "end"
  BY DEF Sound, Typed, Top, Tokens, CloseElement, StrayEndTag
<1>2. /\ Len(Stack) = Top /\ DOMAIN Stack = 1..Top
      /\ \A i \in 1..Top : Stack[i].ns = namespaces[i].ns
      /\ Plain!Innermost(Stack).ns = Current.ns
  <2>1. Bare(Current).ns = Current.ns
    BY DEF Bare
  <2> QED
    BY <1>1, <2>1, StackFacts
<1>3. NearestIn(namespaces, k, name, Top + 1)
  BY <1>1 DEF Sound, Indexed, Top
<1>4. \A i \in 1..Top : Plain!IsNearest(i, name) /\ Plain!Reaches(i) <=> i = k /\ Closes(name)
  <2>1. ASSUME NEW i \in 1..Top
        PROVE  Plain!IsNearest(i, name) /\ Plain!Reaches(i) <=> i = k /\ Closes(name)
    <3>1. Plain!IsNearest(i, name) <=> i = k
      BY <1>1, NearestIsIndexed
    <3>2. Plain!Reaches(i) <=> \/ Current.ns # "html"
                              \/ namespaces[i].ns = "html"
                              \/ i >= Current.htmlBoundary
      BY ReachesByBoundary
    <3> QED
      BY <1>1, <3>1, <3>2 DEF Closes
  <2> QED
    BY <2>1
<1>5. \A ns : Plain!Deliver(token, ns) = Deliver(token, ns)
  BY SameRules
<1>6. CASE CloseElement(token)
  <2>1. /\ Closes(name) /\ namespaces' = Popped(k - 1)
        /\ delivered' = Deliver(token, namespaces[k].ns)
    BY <1>6 DEF CloseElement, Return
  <2>2. k \in 1..Top /\ k - 1 \in 0..Top
    BY <1>1, <1>3, <2>1 DEF NearestIn, Closes
  <2>3. Plain!IsNearest(k, name) /\ Plain!Reaches(k)
    BY <1>4, <2>1, <2>2
  <2>4. Bares(Popped(k - 1)) = SubSeq(Stack, 1, k - 1)
    BY <1>1, <2>2, BarePop
  <2>5. Stack' = SubSeq(Stack, 1, k - 1)
    BY <2>1, <2>4, Zenon DEF Stack
  <2>6. delivered' = Plain!Deliver(token, Stack[k].ns)
    BY <1>2, <1>5, <2>1, <2>2
  <2> HIDE DEF k
  <2> QED
    BY <1>1, <1>2, <2>2, <2>3, <2>5, <2>6 DEF Plain!EndTag, Stack, Bares, Top
<1>7. CASE StrayEndTag(token)
  <2>1. /\ ~Closes(name) /\ namespaces' = namespaces
        /\ delivered' = Deliver(token, Current.ns)
    BY <1>7 DEF StrayEndTag, Return
  <2>2. \A i \in 1..Top : ~(Plain!IsNearest(i, name) /\ Plain!Reaches(i))
    BY <1>4, <2>1
  <2>3. delivered' = Plain!Deliver(token, Plain!Innermost(Stack).ns) /\ Stack' = Stack
    BY <1>2, <1>5, <2>1 DEF Stack
  <2> QED
    BY <1>1, <1>2, <2>2, <2>3 DEF Plain!EndTag, Stack, Bares, Top
<1> QED
  BY <1>6, <1>7

\* The scanner with its shortcuts keeps the same elements open, and takes the
\* same tags for HTML, as one that searches the stack at every end tag
\* (html.go:28-79).
THEOREM Refinement == Spec => ImplementsOpenElements
<1>1. Init => Plain!Init
  <2> SUFFICES ASSUME Init PROVE Plain!Init
    OBVIOUS
  <2>1. Stack = <<>>
    BY DEF Init, Stack, Bares
  <2>2. delivered = Plain!Nothing
    BY DEF Init, Nothing, Plain!Nothing
  <2> QED
    BY <2>1, <2>2 DEF Plain!Init, Stack, Bares, Top
<1>2. IInv /\ [Next]_vars => [Plain!Next]_Plain!vars
  <2> SUFFICES ASSUME IInv, [Next]_vars PROVE [Plain!Next]_Plain!vars
    OBVIOUS
  <2>1. Sound(namespaces, openNames)
    BY InvIsSound
  <2>2. Plain!Tokens = Tokens
    BY SameRules
  <2>3. ASSUME NEW token \in Tokens, CloseElement(token) \/ StrayEndTag(token)
        PROVE  Plain!Next
    BY <2>1, <2>2, <2>3, PlainEnd DEF Plain!Next
  <2>4. ASSUME NEW token \in Tokens, OpenElement(token) \/ VisitElement(token)
        PROVE  Plain!Next
    BY <2>1, <2>2, <2>4, PlainStart DEF Plain!Next
  <2>5. CASE (\E token \in Tokens : TooDeep(token)) \/ Stopped \/ UNCHANGED vars
    <3>1. namespaces' = namespaces /\ delivered' = delivered
      BY <2>5 DEF TooDeep, Stopped, vars
    <3>2. Stack' = Stack
      BY <3>1 DEF Stack
    <3> QED
      BY <3>1, <3>2 DEF Plain!vars, Stack, Bares, Top
  <2> QED
    BY <2>3, <2>4, <2>5 DEF Next
<1> QED
  BY <1>1, <1>2, InitInv, StepInv, PTL DEF Spec, ImplementsOpenElements, Plain!Spec
=============================================================================
