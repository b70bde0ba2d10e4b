CONSTANTS
    Readers = {c1, c2}
    Stories = {r1, r2}
    Messages = {m1, m2, m3}
    None = None
    HistorySize = 1
    ShownSize = 2
    MaxSockets = 2
    Budgets <- Plans
SPECIFICATION Spec
SYMMETRY Symmetric
CHECK_DEADLOCK FALSE
INVARIANTS TypeOK InItsThread PresenceIsHonest ThreadIsWhole PostedWhereTyped
