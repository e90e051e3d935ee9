------------------------- MODULE MCPromptScheduler -------------------------
(* Scheduled prompts for model checking: one of each kind of schedule.      *)
EXTENDS PromptScheduler
MCSpecs == {[kind |-> "once", at |-> 2], [kind |-> "interval", at |-> 2],
            [kind |-> "calendar", at |-> 3]}
=============================================================================
