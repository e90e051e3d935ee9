------------------------------ MODULE LlmIdle ------------------------------
(***************************************************************************)
(* The llama sidecar and those who decide whether it runs: settings applied*)
(* by services/sidecar-boot.ts, the idle timer of services/llm-idle.ts, and*)
(* the chat turns that reload the model before they use it.                *)
(***************************************************************************)
EXTENDS Sidecar

CONSTANT Turns

VARIABLES
    timer,        \* the idle-unload timer is armed
    turn          \* stage of each turn; id: the start its ensureLoaded awaits

idleVars == <<timer, turn>>
vars == <<sidecarVars, idleVars>>

Busy == {t \in Turns : turn[t].stage # "idle"}

Init ==
    /\ SidecarInit
    /\ timer = FALSE
    /\ turn = [t \in Turns |-> [stage |-> "idle", id |-> 0]]

At(t, s) == turn' = [turn EXCEPT ![t] = [stage |-> s, id |-> 0]]

\* ChatService.start: noteActivity() cancels a pending unload.
BeginTurn(t) ==
    /\ turn[t].stage = "idle"
    /\ At(t, "begun")
    /\ timer' = FALSE
    /\ UNCHANGED sidecarVars

\* Mutant: an unloaded model counts as loaded.
EnsureTrusting(t) ==
    /\ turn[t].stage = "begun"
    /\ At(t, IF status = "Error" THEN "checking" ELSE "sent")
    /\ UNCHANGED <<sidecarVars, timer>>

\* ensureLoaded(), the provider being local: Running or Loading is taken for
\* loaded; otherwise it awaits the check of the files on disk.
Ensure(t) ==
    /\ turn[t].stage = "begun"
    /\ At(t, IF status \in {"Running", "Loading"} THEN "sent" ELSE "checking")
    /\ UNCHANGED <<sidecarVars, timer>>

\* The files are there, and start() is called whatever happened meanwhile.
EnsureStarts(t, o) ==
    /\ turn[t].stage = "checking"
    /\ Start(o, FALSE)
    /\ turn' = [turn EXCEPT ![t] = [stage |-> "loading", id |-> startId']]
    /\ UNCHANGED timer

\* A file is missing: the turn goes on without a model.
EnsureMissing(t) ==
    /\ turn[t].stage = "checking"
    /\ At(t, "sent")
    /\ UNCHANGED <<sidecarVars, timer>>

EnsureReturns(t) ==
    /\ turn[t].stage = "loading" /\ task[turn[t].id].pc = "done"
    /\ At(t, "sent")
    /\ UNCHANGED <<sidecarVars, timer>>

\* The stream leaves the active map; the last one arms the timer.
EndTurn(t) ==
    /\ turn[t].stage = "sent"
    /\ At(t, "idle")
    /\ timer' = (Busy = {t})
    /\ UNCHANGED sidecarVars

Unload ==
    /\ timer /\ timer' = FALSE
    /\ Stop
    /\ UNCHANGED turn

\* applyLlama() and the stop and restart routes.
Apply ==
    /\ Stop \/ \E o \in Options : Start(o, TRUE)
    /\ UNCHANGED idleVars

Next ==
    \/ \E t \in Turns : \/ BeginTurn(t) \/ Ensure(t) \/ EnsureMissing(t)
                        \/ EnsureReturns(t) \/ EndTurn(t)
                        \/ \E o \in Options : EnsureStarts(t, o)
    \/ Unload \/ Apply
    \/ (Supervises \/ Faults) /\ UNCHANGED idleVars

\* Promises and timers of the supervisor run; a process that was sent SIGTERM,
\* and SIGKILL after it, ends.  No caller and no fault is owed.
Spec ==
    /\ Init /\ [][Next]_vars
    /\ WF_vars(Supervises /\ UNCHANGED idleVars)
    /\ \A k \in Starts : /\ WF_vars(ProbeEnds(k) /\ UNCHANGED idleVars)
                         /\ WF_vars(proc[k] = "doomed" /\ Exit(k) /\ UNCHANGED idleVars)

-----------------------------------------------------------------------------
(* Properties                                                              *)

Sends(t) == turn[t].stage = "begun" /\ turn'[t].stage = "sent"

\* A turn that ensureLoaded() waves through has a model to talk to ("trans-
\* parently reloaded on the next turn", llm-idle.ts:5), except while a stop or
\* restart is still ending the old process under a status that says Running.
TurnFindsModelSettled ==
    [][\A t \in Turns : Sends(t) => active # 0 \/ Awaiting \/ raced]_vars
=============================================================================
