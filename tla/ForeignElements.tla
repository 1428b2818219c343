--------------------------- MODULE ForeignElements ---------------------------
(***************************************************************************)
(* What feed discovery knows of SVG and MathML in HTML                     *)
(* (src/feediscovery/html.go): the namespace a start tag is in, given the  *)
(* element it is in.                                                       *)
(***************************************************************************)

CONSTANTS Names,          \* tag names
          Breakouts,      \* those that end foreign content wherever they are
          Voids,          \* those without an end tag in HTML
          SVGContainers,  \* the SVG elements that have HTML content
          MathTexts       \* the MathML elements that have HTML content

\* An HTML template has content, so it is tracked until its end tag.
ASSUME VoidsAssumption == "template" \notin Voids

Namespaces == {"html", "svg", "math"}

\* marked: a font has one of the attributes that make it a breakout, an
\* annotation-xml has an encoding that makes its content HTML.
Tokens ==
    {token \in [kind : {"start", "selfClosing", "end"}, name : Names, marked : BOOLEAN] :
        token.marked => token.name \in {"font", "annotation-xml"}}

Elements == [name : Names, ns : Namespaces, integration : BOOLEAN, mathText : BOOLEAN]

\* newHTMLFrame
Element(token, ns) ==
    [name |-> token.name,
     ns |-> ns,
     integration |-> \/ ns = "svg" /\ token.name \in SVGContainers
                     \/ ns = "math" /\ token.name = "annotation-xml" /\ token.marked,
     mathText |-> ns = "math" /\ token.name \in MathTexts]

\* A breakout stays inside of these.
HoldsHTML(element) == element.ns = "html" \/ element.integration \/ element.mathText

NamespaceForStart(parent, name) ==
    IF \/ parent.ns = "html"
       \/ parent.integration
       \/ parent.mathText /\ name \notin {"mglyph", "malignmark"}
       \/ parent.ns = "math" /\ parent.name = "annotation-xml" /\ name = "svg"
    THEN IF name \in {"svg", "math"} THEN name ELSE "html"
    ELSE parent.ns

IsForeignBreakout(token) ==
    token.name \in Breakouts \/ (token.name = "font" /\ token.marked)

IsBreakout(token, parent) ==
    NamespaceForStart(parent, token.name) # "html" /\ IsForeignBreakout(token)

\* The namespace of a start tag in parent, once a breakout has left it.
StartNamespace(token, parent) ==
    IF IsForeignBreakout(token) THEN "html" ELSE NamespaceForStart(parent, token.name)

\* The element has no content and no end tag.
IsEmpty(token, ns) ==
    IF ns = "html" THEN token.name \in Voids ELSE token.kind = "selfClosing"
=============================================================================
