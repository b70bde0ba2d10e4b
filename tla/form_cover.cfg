SPECIFICATION PagesSpec

CONSTANTS
    MaxArticles = 2
    MaxUploads = 2
    Budgets <- Plans
    Items = {1, 2, 3}
    Named = {1}
    Limit = 1
    ListBudgets <- ListPlans
    ComposerBudgets <- ComposerPlans
    Rates = {1, 2}
    MaxClicks = 5
    SignInBudgets <- SignInPlans

\* a page stops when its bounds are used up
CHECK_DEADLOCK FALSE

INVARIANTS
    RemovedCoverIsCleared
