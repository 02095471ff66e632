SPECIFICATION HubSpec
CONSTANTS
    Entities = {1}
    Ids = {1}
    Tokens = {1, 2}
    Env = {"failure", "remove"}
    MaxSockets = 1
    MaxChanges = 2
    MaxUp = 2
    MaxDown = 2
    a = a
    b = b
    x = x
    y = y
    Autos = {a, b}
    Events = {x, y}
    Actions <- AllActions
    Files <- ReloadedFiles
    MaxRuns = 3
    MaxRuntimes = 4
    Values = {low, high, higher, unavailable}
    Inside = {high, higher}
    NotNumeric = {unavailable}
    Gone = Gone
    AnyState = AnyState
    From = low
    To = high
    For = 2
    MaxTime = 5
    Updates = FALSE
INVARIANT ListenersMatchSubscriptions
INVARIANT NothingToStrangers
INVARIANT NoOverlap
INVARIANT ProtectionMatchesRuns
INVARIANT EntityShowsEnabled
INVARIANT TriggersAreCurrent
PROPERTY RunsEnd
INVARIANT StateHeld
PROPERTY HeldIsFired
INVARIANT NumericHeld
CHECK_DEADLOCK FALSE
