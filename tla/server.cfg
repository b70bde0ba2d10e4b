SPECIFICATION ServerSpec

CONSTANTS
    a1 = a1
    a2 = a2
    n1 = n1
    n2 = n2
    None = None
    Addresses = {a1, a2}
    Names = {n1, n2}
    NameOf <- SameName
    Budgets <- Plans
    Users = {u1, u2, u3}
    Choices = {"USER", "EDITOR", "ADMIN"}
    StaffBudgets <- StaffPlans
    Writers = {w1, w2}
    Editors = {e1}
    MaxUploads = 2
    MaxDeletes = 2
    MaxFaults = 2
    Stories <- Numbers
    Rails = {"rail"}
    RailOf <- SectionOf
    TagsOf <- Tagged
    RecentSize = 3
    ShownSize = 2
    RailSize = 2
    Limit = 2
    Pool = 2
    MaxChanges = 2

\* a component stops when its bounds are used up
CHECK_DEADLOCK FALSE

INVARIANTS
    TypesOK
    OwnershipProved
    LinksWorkOnce
    PasswordAsTold
    AdminRemains
    SomebodyKnows
    RowsAndImagesMatch
    FrontPageIsWhole
    RelatedIsApt

PROPERTIES
    ImplementsWorkflow
