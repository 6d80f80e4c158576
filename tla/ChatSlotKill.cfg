SPECIFICATION FairSpec
CONSTANTS
    Prompts = {p1}
    MaxLives = 1
    MaxTimers = 1
    Calls = {}
    Tools = {}
    MaxSessions = 0
    MaxStarts = 1
PROPERTIES ForceKills
CHECK_DEADLOCK FALSE
