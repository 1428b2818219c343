--------------------------- MODULE MCHTMLNamespaces ---------------------------
(* HTMLNamespaces for model checking: one name of each sort. *)
EXTENDS HTMLNamespaces

\* div is a breakout, br one that is void in HTML, foreignobject and mi have
\* HTML content in SVG and in MathML.
MCNames == {"template", "svg", "math", "div", "br", "foreignobject", "mi", "annotation-xml"}
MCBreakouts == {"div", "br"}
MCVoids == {"br"}
MCSVGContainers == {"foreignobject"}
MCMathTexts == {"mi"}
=============================================================================
