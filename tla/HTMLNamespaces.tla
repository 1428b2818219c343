---------------------------- MODULE HTMLNamespaces ----------------------------
(***************************************************************************)
(* The scanner of src/feediscovery/html.go: the stack of foreign elements, *)
(* templates and what they contain, with two shortcuts that save searching *)
(* it at every end tag.  openNames has the innermost frame of each name    *)
(* and each frame has the one of its name that it hides (previous); each   *)
(* frame of HTML has the foreign frame it is in (htmlBoundary).            *)
(*                                                                         *)
(* nextDocumentTag (src/feediscovery/document.go) counts the templates on  *)
(* its own, from the tags that the scanner delivers.                       *)
(*                                                                         *)
(* Frames are numbered from 1 and 0 stands for the code's -1 and for an    *)
(* absent name.  An atom is its name here.                                 *)
(***************************************************************************)
EXTENDS Naturals, Sequences, FiniteSets, ForeignElements

CONSTANT MaxNestingDepth

ASSUME DepthAssumption == MaxNestingDepth \in Nat

VARIABLES
    namespaces,
    openNames,
    templateDepth,
    delivered,       \* the tag that nextHTML has just returned, or Nothing
    failed,          \* ErrTooDeep
    nested           \* history: every end tag was that of the current frame

vars == <<namespaces, openNames, templateDepth, delivered, failed, nested>>

Top == Len(namespaces)
Nothing == [kind |-> "none", name |-> "none"]
DocumentFrame == [name |-> "document", ns |-> "html", integration |-> FALSE,
                  mathText |-> FALSE, previous |-> 0, htmlBoundary |-> 0]
CurrentFrame(frames) == IF frames = <<>> THEN DocumentFrame ELSE frames[Len(frames)]
Current == CurrentFrame(namespaces)

Init ==
    /\ namespaces = <<>>
    /\ openNames = [name \in Names |-> 0]
    /\ templateDepth = 0
    /\ delivered = Nothing
    /\ failed = FALSE
    /\ nested = TRUE
-----------------------------------------------------------------------------
(* the stack *)

Popped(length) == SubSeq(namespaces, 1, length)

\* Fault: a name that is popped is gone.
NamesForgotten(length) ==
    [name \in Names |->
        IF \E i \in length+1 .. Top : namespaces[i].name = name THEN 0 ELSE openNames[name]]

\* popHTMLNamespaces undoes the frames from the top down, so the lowest of a
\* name has the last word.
NamesAfterPop(length) ==
    [name \in Names |->
        LET gone == {i \in length+1 .. Top : namespaces[i].name = name}
        IN IF gone = {} THEN openNames[name]
           ELSE namespaces[CHOOSE i \in gone : \A j \in gone : i <= j].previous]

\* Fault: only content directly in a foreign element knows where it is.
BoundaryOfParent(frames, ns) ==
    IF ns = "html" /\ CurrentFrame(frames).ns # "html" THEN Len(frames) ELSE 0

HTMLBoundary(frames, ns) ==
    IF ns # "html" THEN 0
    ELSE IF CurrentFrame(frames).ns # "html" THEN Len(frames)
    ELSE CurrentFrame(frames).htmlBoundary

Frame(token, ns, frames, names) ==
    [name |-> token.name,
     ns |-> ns,
     integration |-> Element(token, ns).integration,
     mathText |-> Element(token, ns).mathText,
     previous |-> names[token.name],
     htmlBoundary |-> HTMLBoundary(frames, ns)]

\* What a breakout leaves of the stack.
\* Fault: it does not leave the foreign elements.
BreakoutStays == Top
BreakoutLength ==
    LET keep == {i \in 1..Top : HoldsHTML(namespaces[i])}
    IN IF keep = {} THEN 0 ELSE CHOOSE i \in keep : \A j \in keep : j <= i

HasRoom(length) == length < MaxNestingDepth
-----------------------------------------------------------------------------
(* nextHTML, and nextDocumentTag with what it returns *)

\* Fault: the templates of SVG count as well.
DeliverForeign(token, ns) == [kind |-> token.kind, name |-> token.name]
Deliver(token, ns) ==
    IF ns = "html" THEN [kind |-> token.kind, name |-> token.name] ELSE Nothing

NewTemplateTooDeep(tag) ==
    tag.name = "template" /\ tag.kind # "end" /\ templateDepth >= MaxNestingDepth

CountTemplates(tag) ==
    IF tag.name # "template" \/ NewTemplateTooDeep(tag) THEN templateDepth
    ELSE IF tag.kind # "end" THEN templateDepth + 1
    ELSE IF templateDepth > 0 THEN templateDepth - 1 ELSE 0

Return(token, ns) ==
    /\ delivered' = Deliver(token, ns)
    /\ templateDepth' = CountTemplates(Deliver(token, ns))
    /\ failed' = NewTemplateTooDeep(Deliver(token, ns))

\* Fault: an end tag closes whatever bears its name.
ClosesAnywhere(name) == openNames[name] # 0

\* An end tag closes its element if one is open and, in HTML content, if it is
\* not a foreign element beyond the one the content is in.
Closes(name) ==
    /\ openNames[name] # 0
    /\ \/ Current.ns # "html"
       \/ namespaces[openNames[name]].ns = "html"
       \/ openNames[name] >= Current.htmlBoundary

CloseElement(token) ==
    /\ ~failed /\ token.kind = "end" /\ Closes(token.name)
    /\ namespaces' = Popped(openNames[token.name] - 1)
    /\ openNames' = NamesAfterPop(openNames[token.name] - 1)
    /\ Return(token, namespaces[openNames[token.name]].ns)
    /\ nested' = (nested /\ token.name = Current.name)

StrayEndTag(token) ==
    /\ ~failed /\ token.kind = "end" /\ ~Closes(token.name)
    /\ Return(token, Current.ns)
    /\ nested' = (nested /\ namespaces = <<>>)
    /\ UNCHANGED <<namespaces, openNames>>

\* The stack a start tag finds, once a breakout has closed what it is in.
StartLength(token) ==
    IF IsBreakout(token, Current) THEN BreakoutLength ELSE Top

\* HTML outside of templates and foreign elements is not tracked.
IsTracked(token, ns) ==
    /\ ~IsEmpty(token, ns)
    /\ ns # "html" \/ StartLength(token) > 0 \/ token.name = "template"

OpenElement(token) ==
    LET ns == StartNamespace(token, Current)
        length == StartLength(token)
    IN /\ ~failed /\ token.kind # "end" /\ IsTracked(token, ns)
       /\ HasRoom(length)
       /\ namespaces' = Append(Popped(length),
                               Frame(token, ns, Popped(length), NamesAfterPop(length)))
       /\ openNames' = [NamesAfterPop(length) EXCEPT ![token.name] = length + 1]
       /\ Return(token, ns)
       /\ UNCHANGED nested

VisitElement(token) ==
    LET ns == StartNamespace(token, Current)
        length == StartLength(token)
    IN /\ ~failed /\ token.kind # "end" /\ ~IsTracked(token, ns)
       /\ namespaces' = Popped(length)
       /\ openNames' = NamesAfterPop(length)
       /\ Return(token, ns)
       /\ UNCHANGED nested

TooDeep(token) ==
    /\ ~failed /\ token.kind # "end"
    /\ IsTracked(token, StartNamespace(token, Current))
    /\ ~HasRoom(StartLength(token))
    /\ failed' = TRUE
    /\ UNCHANGED <<namespaces, openNames, templateDepth, delivered, nested>>

\* The error ends the pass.
Stopped == failed /\ UNCHANGED vars

Next ==
    \/ \E token \in Tokens :
        \/ CloseElement(token)
        \/ StrayEndTag(token)
        \/ OpenElement(token)
        \/ VisitElement(token)
        \/ TooDeep(token)
    \/ Stopped

Spec == Init /\ [][Next]_vars
-----------------------------------------------------------------------------
(* properties *)

TypeOK ==
    /\ namespaces \in Seq([name : Names, ns : Namespaces, integration : BOOLEAN,
                           mathText : BOOLEAN, previous : 0..MaxNestingDepth,
                           htmlBoundary : 0..MaxNestingDepth])
    /\ Len(namespaces) <= MaxNestingDepth
    /\ openNames \in [Names -> 0..MaxNestingDepth]
    /\ templateDepth \in 0..MaxNestingDepth
    /\ delivered \in [kind : {"start", "selfClosing", "end", "none"}, name : Names \cup {"none"}]
    /\ failed \in BOOLEAN
    /\ nested \in BOOLEAN

\* i is the innermost frame of this name below frame n, or 0.
Nearest(i, name, n) ==
    \/ /\ i \in 1..n - 1 /\ namespaces[i].name = name
       /\ \A j \in i+1 .. n-1 : namespaces[j].name # name
    \/ i = 0 /\ \A j \in 1..n - 1 : namespaces[j].name # name

\* openNames is where a search from the top of the stack would end, and
\* previous where it would go on, however the frames came and went
\* (html.go:104-125).
IndexExact ==
    /\ \A name \in Names : Nearest(openNames[name], name, Top + 1)
    /\ \A i \in 1..Top : Nearest(namespaces[i].previous, namespaces[i].name, i)

\* htmlBoundary of a frame of HTML is the innermost foreign frame below it
\* (html.go:95-102).
BoundaryExact ==
    \A i \in 1..Top :
        LET b == namespaces[i].htmlBoundary
        IN IF namespaces[i].ns # "html" THEN b = 0
           ELSE /\ b < i
                /\ b # 0 => namespaces[b].ns # "html"
                /\ \A j \in b+1 .. i : namespaces[j].ns = "html"

\* HTML is in a foreign element only where HTML content is allowed, also
\* after breakouts and end tags that cross elements (html.go:50-61, 127-142).
IntegrationPoints ==
    \A i \in 2..Top : namespaces[i].ns = "html" => HoldsHTML(namespaces[i-1])

OpenTemplates == {i \in 1..Top : namespaces[i].name = "template" /\ namespaces[i].ns = "html"}

\* While elements are properly nested the depth that hides links is the
\* number of templates that are open (document.go:126-137, html.go:67-73).
TemplatesAgree == nested /\ ~failed => templateDepth = Cardinality(OpenTemplates)

Bare(frame) == [name |-> frame.name, ns |-> frame.ns,
                integration |-> frame.integration, mathText |-> frame.mathText]

Plain == INSTANCE OpenElements
    WITH stack <- [i \in 1..Top |-> Bare(namespaces[i])]

\* The shortcuts change neither what is open nor which tags are delivered.
ImplementsOpenElements == Plain!Spec
=============================================================================
