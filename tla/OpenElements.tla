----------------------------- MODULE OpenElements -----------------------------
(***************************************************************************)
(* What the bookkeeping of src/feediscovery/html.go computes: the open     *)
(* elements as a plain stack, searched from the top at every end tag.      *)
(***************************************************************************)
EXTENDS Naturals, Sequences, ForeignElements

CONSTANT MaxNestingDepth

VARIABLES stack,      \* the open elements that are tracked
          delivered   \* the last tag, if it is one of HTML

vars == <<stack, delivered>>

Nothing == [kind |-> "none", name |-> "none"]
Deliver(token, ns) ==
    IF ns = "html" THEN [kind |-> token.kind, name |-> token.name] ELSE Nothing

\* Where there is no open element there is the HTML document.
Innermost(s) ==
    IF s = <<>> THEN [name |-> "document", ns |-> "html",
                      integration |-> FALSE, mathText |-> FALSE]
                ELSE s[Len(s)]

\* The innermost open element of this name.
IsNearest(i, name) ==
    /\ i \in DOMAIN stack /\ stack[i].name = name
    /\ \A j \in i+1 .. Len(stack) : stack[j].name # name

\* In HTML content, no end tag of a foreign element reaches beyond the
\* foreign element the content is in.
Reaches(i) ==
    \/ Innermost(stack).ns # "html"
    \/ stack[i].ns = "html"
    \/ \A j \in i+1 .. Len(stack) : stack[j].ns = "html"

Init == stack = <<>> /\ delivered = Nothing

EndTag(token) ==
    /\ token.kind = "end"
    /\ \/ \E i \in DOMAIN stack :
            /\ IsNearest(i, token.name) /\ Reaches(i)
            /\ stack' = SubSeq(stack, 1, i - 1)
            /\ delivered' = Deliver(token, stack[i].ns)
       \/ /\ \A i \in DOMAIN stack : ~(IsNearest(i, token.name) /\ Reaches(i))
          /\ delivered' = Deliver(token, Innermost(stack).ns)
          /\ UNCHANGED stack

\* A breakout first closes the foreign elements it is in.
StartTag(token) ==
    /\ token.kind # "end"
    /\ \E n \in 0..Len(stack) :
          LET outer == SubSeq(stack, 1, n)
              ns == StartNamespace(token, Innermost(stack))
          IN /\ IF IsBreakout(token, Innermost(stack))
                THEN /\ HoldsHTML(Innermost(outer))
                     /\ \A j \in n+1 .. Len(stack) : ~HoldsHTML(stack[j])
                ELSE n = Len(stack)
             /\ IF IsEmpty(token, ns) \/ (ns = "html" /\ n = 0 /\ token.name # "template")
                THEN stack' = outer
                ELSE n < MaxNestingDepth /\ stack' = Append(outer, Element(token, ns))
             /\ delivered' = Deliver(token, ns)

Next == \E token \in Tokens : EndTag(token) \/ StartTag(token)

Spec == Init /\ [][Next]_vars
=============================================================================
