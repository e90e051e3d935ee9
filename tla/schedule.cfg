\* Two prompts, three edits, one crash, failed check, read or write, or damaged row; late after 1.
CONSTANTS
    Prompts = {p1, p2}
    Specs <- MCSpecs
    Grace = 1
    Retry = 1
    MaxArm = 3
    Never = Never
    Lost = Lost
    MaxTime = 4
    MaxEdits = 3
    MaxFaults = 1
SPECIFICATION Spec
CHECK_DEADLOCK FALSE
INVARIANTS NeverDisarmed
PROPERTIES FiresOnceWhatIsDue DueIsHandled
