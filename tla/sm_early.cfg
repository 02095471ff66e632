SPECIFICATION Spec
CONSTANTS
    e1 = e1
    e2 = e2
    off = off
    on = on
    a1 = a1
    auto1 = auto1
    auto2 = auto2
    NoState = NoState
    Entities = {e1}
    Values = {off, on}
    Attrs = {a1}
    Automations = {auto1}
    Mirrors = {}
    Reactions <- Confirm
    Env = {"early"}
    Retention = 1
    MaxClock = 1
    MaxRows = 3
    MaxBoots = 2
PROPERTY RestoreKeepsNewer
CHECK_DEADLOCK FALSE
