\* Two files, two callers, three cancels, retries or removals, three faults.
CONSTANTS
    Files = {f1, f2}
    Callers = {c1, c2}
    None = None
    Pause = Pause
    Lost = Lost
    MaxActs = 3
    MaxFaults = 3
SPECIFICATION Spec
CHECK_DEADLOCK FALSE
INVARIANTS LiveWorker
PROPERTIES CallersAnswered
