SPECIFICATION UIFairSpec
CONSTANTS
    Entities = {1}
    Ids = {1, 2, 3, 4, 5}
    MaxId = 5
    Tokens = {1}
    Env = {}
    MaxSockets = 2
    MaxChanges = 2
    MaxUp = 1
    MaxDown = 3
PROPERTY ChangesAreShown
CHECK_DEADLOCK FALSE
