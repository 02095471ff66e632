SPECIFICATION TriggersSpec
CONSTANTS
    Values = {low, high, higher, unavailable}
    Inside = {high, higher}
    NotNumeric = {unavailable}
    Gone = Gone
    AnyState = AnyState
    From = low
    To = high
    For = 2
    MaxTime = 5
    Updates = FALSE
INVARIANT OnlyHeldFires
CHECK_DEADLOCK FALSE
