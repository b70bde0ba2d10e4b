SPECIFICATION Spec

CONSTANTS
    Articles = {a1, a2}
    Handlers = {h1, h2}
    Bodies <- TextAndColumns
    MaxEdits = 1
    MaxPublishes = 2
    MaxRemoved = 1

SYMMETRY Symmetry

INVARIANTS
    TypeOK
    RowsMakeSense
    FeaturedIsPublished

PROPERTIES
    LegalMoves
    DatesKept
