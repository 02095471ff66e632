SPECIFICATION ContextsSpec
CONSTANTS
    Entities = {1}
    Ids = {1, 2, 3, 4, 5}
    MaxId = 5
    Tokens = {1}
    Env = {}
    MaxSockets = 1
    MaxChanges = 0
    MaxUp = 1
    MaxDown = 2
    Phones = {p, q}
    MaxSessions = 2
    Rooms = {r}
    HistoryLimit = 1
    None = None
    MaxMessages = 3
    Routed = FALSE
    Budgets <- MCBudgets
INVARIANT NothingLost
CHECK_DEADLOCK FALSE
