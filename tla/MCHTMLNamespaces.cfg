\* HTML in SVG or MathML in HTML or the other way round, and one element more.
CONSTANTS
    Names <- MCNames
    Breakouts <- MCBreakouts
    Voids <- MCVoids
    SVGContainers <- MCSVGContainers
    MathTexts <- MCMathTexts
    MaxNestingDepth = 4
SPECIFICATION Spec
INVARIANTS
    IndexExact
    BoundaryExact
    IntegrationPoints
    TemplatesAgree
PROPERTIES
    ImplementsOpenElements
