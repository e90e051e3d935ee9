\* Calls that overlap with each other, with a crash and with a turn.
SPECIFICATION Spec
CONSTANTS
    Options = {small, large}
    Unrestarted = {small}
    Off = Off
    FlapMax = 1
    MaxAttempts = 1
    MaxCalls = 3
    MaxFaults = 2
    Turns = {t1}
INVARIANTS OnlyTheDecidedRunsUnraced StatusHonest NeverUnattended
PROPERTIES TurnFindsModelSettled LoadingEnds
CHECK_DEADLOCK FALSE
