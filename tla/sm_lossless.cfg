SPECIFICATION FairSpec
CONSTANTS
    e1 = e1
    e2 = e2
    off = off
    on = on
    a1 = a1
    auto1 = auto1
    auto2 = auto2
    NoState = NoState
    Entities = {e1, e2}
    Values = {off, on}
    Attrs = {a1}
    Automations = {auto1}
    Mirrors = {}
    Reactions <- Forward
    Env = {}
    Retention = 1
    MaxClock = 1
    MaxRows = 3
    MaxBoots = 2
INVARIANT RestartKeepsLastKnown
PROPERTY EventuallyRecoverable
CHECK_DEADLOCK FALSE
