SPECIFICATION FairSpec
CONSTANTS
    Prompts = {p1}
    MaxLives = 2
    MaxTimers = 1
    Calls = {c1}
    Tools = {t1}
    MaxSessions = 2
    MaxStarts = 2
INVARIANTS TypeOK OneOwner GateFailsClosed NoneStranded
PROPERTIES PromptReturns StopEnds
CHECK_DEADLOCK FALSE
