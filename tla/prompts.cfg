\* One form, one proposal, one permission of each kind; one drop.
CONSTANTS
    Ask = {ask}
    Schedule = {plan}
    Broker = {module}
    Pty = {deno}
    MaxDrops = 1
    MaxAsked = 3
    NoPrompt = none
SPECIFICATION FairSpec
INVARIANTS BudgetPausedByPrompts ScreenMatchesCall ScheduledAsTold
PROPERTIES CallEnds
CHECK_DEADLOCK FALSE
