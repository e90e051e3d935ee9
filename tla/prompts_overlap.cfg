\* A proposal and a permission open at once, one drop.
CONSTANTS
    Ask = {}
    Schedule = {plan}
    Broker = {module}
    Pty = {}
    MaxDrops = 1
    MaxAsked = 2
    NoPrompt = none
SPECIFICATION Spec
INVARIANTS WaitingCallAsks
CHECK_DEADLOCK FALSE
