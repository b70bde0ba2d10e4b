SPECIFICATION Spec

CONSTANTS
    Articles = {a1, a2}
    Handlers = {h1, h2}
    Bodies <- TextOnly
    MaxEdits = 0
    MaxPublishes = 2
    MaxRemoved = 0

SYMMETRY Symmetry

INVARIANTS
    AtMostOneFeatured

