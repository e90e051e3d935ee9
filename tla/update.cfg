\* One good and one broken update, two requests, two power failures, two faults.
CONSTANTS
    Versions = {1, 2, 3}
    First = 1
    Broken = {2}
    None = None
    Torn = Torn
    Applies = {a1, a2}
    MaxBootAttempts = 2
    MaxFaults = 2
    MaxCrashes = 2
SPECIFICATION Spec
CHECK_DEADLOCK FALSE
INVARIANTS KeepsGoodBinaryOtherwise Bootable UnprovenIsGuarded
PROPERTIES RollbackJustified BrokenIsUndone
