SPECIFICATION UIFairSpec
CONSTANTS
    Entities = {1}
    Ids = {1, 2, 3, 4, 5}
    MaxId = 5
    Tokens = {1}
    Env = {"remove"}
    MaxSockets = 2
    MaxChanges = 2
    MaxUp = 1
    MaxDown = 2
PROPERTY UIConverges
PROPERTY ViewFollows
CHECK_DEADLOCK FALSE
