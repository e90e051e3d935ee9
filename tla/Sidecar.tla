------------------------------ MODULE Sidecar ------------------------------
(***************************************************************************)
(* The supervisor of one sidecar process (class Sidecar of                 *)
(* sidecars/manager.ts): start, restart and stop calls that overlap at     *)
(* every await, the readiness probe, the exit watcher, and the one restart *)
(* loop with its backoff and its flap guard.  A start is named by its      *)
(* startId, and so is the process it spawns.                               *)
(***************************************************************************)
EXTENDS Naturals

CONSTANTS
    Options,      \* start options a caller may pass
    Unrestarted,  \* those with restartPolicy "none" (only the tests pass it)
    Off,          \* the decision that the sidecar should not run
    FlapMax,      \* FLAP_MAX_RESTARTS
    MaxAttempts,  \* RestartPolicy.maxAttempts
    MaxCalls,     \* bound: explicit start, restart and stop calls
    MaxFaults     \* bound: crashes, failed spawns, readiness timeouts

ASSUME BoundsAssumption ==
    /\ Off \notin Options /\ Unrestarted \subseteq Options
    /\ FlapMax \in Nat /\ MaxAttempts \in Nat \ {0}
    /\ MaxCalls \in Nat /\ MaxFaults \in Nat

VARIABLES
    startId,      \* the last startId given out
    active,       \* this.active's startId, 0 when null
    status,       \* status of the snapshot last emitted
    pendingStop,
    crashes,      \* restartTimes.length
    loop,         \* restartLoop; fresh: explicitGeneration is still its gen
    task,         \* startInternal() of each startId
    proc,         \* the process of each startId
    stopping,     \* processes whose end a stop() awaits
    calls, faults,
    decision,     \* what the last explicit call asked for
    raced,        \* a call came while an earlier one awaited a process's end
    down          \* why nothing runs

sidecarVars == <<startId, active, status, pendingStop, crashes, loop, task, proc,
                 stopping, calls, faults, decision, raced, down>>

Starts == 1..MaxCalls + MaxFaults

NoTask == [pc |-> "none", old |-> 0, opts |-> Off, aborted |-> FALSE]
NoLoop == [phase |-> "none", fresh |-> FALSE, opts |-> Off, attempt |-> 0, id |-> 0]

SidecarInit ==
    /\ startId = 0 /\ active = 0 /\ status = "Disabled"
    /\ pendingStop = FALSE /\ crashes = 0 /\ loop = NoLoop
    /\ task = [k \in Starts |-> NoTask]
    /\ proc = [k \in Starts |-> "none"]
    /\ stopping = {} /\ calls = 0 /\ faults = 0
    /\ decision = Off /\ raced = FALSE /\ down = "none"

Alive == {p \in Starts : proc[p] = "alive"}

\* An earlier start or stop is at `await this.terminateActive(...)`.
Awaiting == stopping # {} \/ \E k \in Starts : task[k].pc = "waitOld"

\* terminateActive: abort the probe, SIGTERM, SIGKILL after the grace period.
Doomed(p) == IF proc[p] = "alive" THEN [proc EXCEPT ![p] = "doomed"] ELSE proc
Aborted(p) == [task EXCEPT ![p].aborted = TRUE]

-----------------------------------------------------------------------------
(* startInternal                                                           *)

\* Steps 2 to 5: validate, emit Loading, spawn, watch.  Nothing looks whether
\* this start was superseded while it awaited the old process.
Launch(k, o) ==
    \/ /\ active' = k /\ status' = "Loading" /\ down' = "none"
       /\ proc' = [proc EXCEPT ![k] = "alive"]
       /\ task' = [task EXCEPT ![k] = [NoTask EXCEPT !.pc = "probing", !.opts = o]]
       /\ UNCHANGED faults
    \/ /\ faults < MaxFaults
       /\ faults' = faults + 1 /\ status' = "Error" /\ down' = "refused"
       /\ task' = [task EXCEPT ![k] = [NoTask EXCEPT !.pc = "done", !.opts = o]]
       /\ UNCHANGED <<active, proc>>

\* Mutant: a stop intent left over from an earlier stop() is not cleared.
BeginStaleIntent(o) ==
    LET k == startId + 1 IN
    /\ k \in Starts
    /\ startId' = k
    /\ UNCHANGED pendingStop
    /\ \/ /\ active = 0 /\ Launch(k, o)
       \/ /\ active # 0 /\ active' = 0
          /\ proc' = Doomed(active)
          /\ task' = [Aborted(active) EXCEPT
                        ![k] = [NoTask EXCEPT !.pc = "waitOld", !.old = active, !.opts = o]]
          /\ UNCHANGED <<status, faults, down>>

\* Step 1: supersede what runs, up to the first await.
Begin(o) ==
    LET k == startId + 1 IN
    /\ k \in Starts
    /\ startId' = k /\ pendingStop' = FALSE
    /\ \/ /\ active = 0 /\ Launch(k, o)
       \/ /\ active # 0 /\ active' = 0
          /\ proc' = Doomed(active)
          /\ task' = [Aborted(active) EXCEPT
                        ![k] = [NoTask EXCEPT !.pc = "waitOld", !.old = active, !.opts = o]]
          /\ UNCHANGED <<status, faults, down>>

OldGone(k) ==
    /\ task[k].pc = "waitOld" /\ proc[task[k].old] = "gone"
    /\ Launch(k, task[k].opts)
    /\ UNCHANGED <<startId, pendingStop, crashes, loop, stopping, calls, decision, raced>>

\* Mutant: a probe that gives up leaves the sidecar Loading.
ProbeGivesUp(k) ==
    /\ task[k].pc = "probing"
    /\ task' = [task EXCEPT ![k].pc = "done"]
    /\ IF active = k /\ ~task[k].aborted
       THEN \/ status' = "Running" /\ UNCHANGED faults
            \/ faults < MaxFaults /\ faults' = faults + 1 /\ UNCHANGED status
       ELSE UNCHANGED <<status, faults>>
    /\ UNCHANGED <<startId, active, pendingStop, crashes, loop, proc, stopping, calls,
                   decision, raced, down>>

\* Mutant: a probe that succeeded is reported without the supersession check.
ProbeUnchecked(k) ==
    /\ task[k].pc = "probing"
    /\ task' = [task EXCEPT ![k].pc = "done"]
    /\ status' = "Running"
    /\ UNCHANGED <<startId, active, pendingStop, crashes, loop, proc, stopping, calls,
                   faults, decision, raced, down>>

\* Step 6: runReadiness() returns.  An aborted probe fails at once.
ProbeEnds(k) ==
    /\ task[k].pc = "probing"
    /\ \/ /\ active # k
          /\ task' = [task EXCEPT ![k].pc = "done"]
          /\ UNCHANGED <<proc, status, faults>>
       \/ /\ active = k /\ ~task[k].aborted
          /\ task' = [task EXCEPT ![k].pc = "done"] /\ status' = "Running"
          /\ UNCHANGED <<proc, faults>>
       \/ /\ active = k
          /\ ~task[k].aborted => faults < MaxFaults
          /\ faults' = IF task[k].aborted THEN faults ELSE faults + 1
          /\ proc' = Doomed(k)
          /\ task' = [Aborted(k) EXCEPT ![k].pc = "killing"]
          /\ UNCHANGED status
    /\ UNCHANGED <<startId, active, pendingStop, crashes, loop, stopping, calls,
                   decision, raced, down>>

\* After the kill of a process that did not become ready.
KillDone(k) ==
    /\ task[k].pc = "killing" /\ proc[k] = "gone"
    /\ task' = [task EXCEPT ![k].pc = "done"]
    /\ IF active = k
       THEN active' = 0 /\ status' = "Error" /\ down' = "refused"
       ELSE UNCHANGED <<active, status, down>>
    /\ UNCHANGED <<startId, pendingStop, crashes, loop, proc, stopping, calls, faults,
                   decision, raced>>

-----------------------------------------------------------------------------
(* The calls                                                               *)

\* start() and, when it forgets the crash history first, restart().
Start(o, forgets) ==
    /\ calls < MaxCalls /\ calls' = calls + 1
    /\ loop' = [loop EXCEPT !.fresh = FALSE]
    /\ crashes' = IF forgets THEN 0 ELSE crashes
    /\ decision' = o
    /\ raced' = (raced \/ Awaiting)
    /\ Begin(o)
    /\ UNCHANGED stopping

Stop ==
    /\ calls < MaxCalls /\ calls' = calls + 1
    /\ pendingStop' = TRUE
    /\ loop' = [loop EXCEPT !.fresh = FALSE]
    /\ crashes' = 0
    /\ decision' = Off
    /\ raced' = (raced \/ Awaiting)
    /\ \/ /\ active = 0
          /\ status' = "Disabled"
          /\ UNCHANGED <<startId, active, proc, task, stopping>>
       \/ /\ active # 0
          /\ active' = 0 /\ startId' = startId + 1 /\ startId' \in Starts
          /\ proc' = Doomed(active) /\ task' = Aborted(active)
          /\ stopping' = stopping \cup {active}
          /\ UNCHANGED status
    /\ UNCHANGED <<faults, down>>

StopDone(p) ==
    /\ p \in stopping /\ proc[p] = "gone"
    /\ stopping' = stopping \ {p}
    /\ status' = "Disabled"
    /\ UNCHANGED <<startId, active, pendingStop, crashes, loop, task, proc, calls, faults,
                   decision, raced, down>>

-----------------------------------------------------------------------------
(* Exit and restart                                                        *)

\* What follows a crash, now counted: flap guard, then the loop.
Recovers(p) ==
    /\ crashes' = crashes + 1
    /\ \/ /\ crashes' > FlapMax
          /\ loop' = [loop EXCEPT !.fresh = FALSE] /\ down' = "flapped"
       \/ /\ crashes' <= FlapMax /\ loop.phase # "none"
          /\ down' = IF loop.fresh THEN down ELSE "swallowed"
          /\ UNCHANGED loop
       \/ /\ crashes' <= FlapMax /\ loop.phase = "none"
          /\ loop' = [NoLoop EXCEPT !.phase = "asleep", !.fresh = TRUE,
                                    !.opts = task[p].opts, !.attempt = 1]
          /\ UNCHANGED down

\* An unexpected exit of the supervised process.
Unexpected(p) ==
    /\ active' = 0 /\ status' = "Error"
    /\ task' = Aborted(p)
    /\ \/ /\ task[p].opts \in Unrestarted
          /\ down' = "unrestarted"
          /\ UNCHANGED <<crashes, loop>>
       \/ /\ task[p].opts \notin Unrestarted
          /\ Recovers(p)
    /\ UNCHANGED pendingStop

\* A process ends, killed or by itself, and watchExit() sees it.
Exit(p) ==
    /\ proc[p] \in {"alive", "doomed"}
    /\ proc[p] = "alive" => faults < MaxFaults
    /\ faults' = IF proc[p] = "alive" THEN faults + 1 ELSE faults
    /\ proc' = [proc EXCEPT ![p] = "gone"]
    /\ \/ /\ active # p
          /\ UNCHANGED <<active, status, pendingStop, crashes, loop, task, down>>
       \/ /\ active = p /\ pendingStop
          /\ pendingStop' = FALSE
          /\ UNCHANGED <<active, status, crashes, loop, task, down>>
       \/ /\ active = p /\ ~pendingStop
          /\ Unexpected(p)
    /\ UNCHANGED <<startId, stopping, calls, decision, raced>>

\* The rolling window moves on.
WindowSlides ==
    /\ crashes' \in 0..crashes /\ crashes' # crashes
    /\ UNCHANGED <<startId, active, status, pendingStop, loop, task, proc, stopping, calls,
                   faults, decision, raced, down>>

\* Mutant: the loop does not look whether an explicit call came.
LoopWakesStale ==
    /\ loop.phase = "asleep"
    /\ Begin(loop.opts)
    /\ loop' = [loop EXCEPT !.phase = "starting", !.id = startId']
    /\ UNCHANGED <<crashes, stopping, calls, decision, raced>>

\* After the backoff: bow out before a newer decision, else one attempt.
LoopWakes ==
    /\ loop.phase = "asleep"
    /\ \/ /\ pendingStop \/ ~loop.fresh
          /\ loop' = NoLoop
          /\ UNCHANGED <<startId, active, status, pendingStop, task, proc, faults, down>>
       \/ /\ ~pendingStop /\ loop.fresh
          /\ Begin(loop.opts)
          /\ loop' = [loop EXCEPT !.phase = "starting", !.id = startId']
    /\ UNCHANGED <<crashes, stopping, calls, decision, raced>>

\* The attempt's startInternal() returned.
AttemptEnds ==
    /\ loop.phase = "starting" /\ task[loop.id].pc = "done"
    /\ LET again == loop.fresh /\ status # "Running" IN
       /\ loop' = IF again /\ loop.attempt < MaxAttempts
                  THEN [loop EXCEPT !.phase = "asleep", !.attempt = @ + 1, !.id = 0]
                  ELSE NoLoop
       /\ down' = IF again /\ loop.attempt = MaxAttempts THEN "exhausted" ELSE down
    /\ UNCHANGED <<startId, active, status, pendingStop, crashes, task, proc, stopping,
                   calls, faults, decision, raced>>

-----------------------------------------------------------------------------

\* What happens without a caller.
Supervises ==
    \/ \E k \in Starts : OldGone(k) \/ ProbeEnds(k) \/ KillDone(k) \/ StopDone(k)
    \/ LoopWakes \/ AttemptEnds

Faults == (\E p \in Starts : Exit(p)) \/ WindowSlides

SidecarTypeOK ==
    /\ startId \in 0..MaxCalls + MaxFaults /\ active \in 0..MaxCalls + MaxFaults
    /\ status \in {"Disabled", "Loading", "Running", "Error"}
    /\ {pendingStop, raced} \subseteq BOOLEAN
    /\ crashes \in 0..FlapMax + MaxFaults /\ calls \in 0..MaxCalls /\ faults \in 0..MaxFaults
    /\ loop \in [phase : {"none", "asleep", "starting"}, fresh : BOOLEAN,
                 opts : Options \cup {Off}, attempt : 0..MaxAttempts, id : Starts \cup {0}]
    /\ task \in [Starts -> [pc : {"none", "waitOld", "probing", "killing", "done"},
                            old : Starts \cup {0}, opts : Options \cup {Off},
                            aborted : BOOLEAN]]
    /\ proc \in [Starts -> {"none", "alive", "doomed", "gone"}]
    /\ stopping \subseteq Starts /\ decision \in Options \cup {Off}
    /\ down \in {"none", "refused", "flapped", "exhausted", "unrestarted", "swallowed"}

\* Every process that nobody is ending is the supervised one, started with the
\* options of the last explicit decision (starts are superseded "via a
\* monotonic startId", manager.ts:5; "a stale loop can never re-spawn with old
\* options over a newer explicit decision", manager.ts:104-106).
OnlyTheDecidedRuns == \A p \in Alive : p = active /\ task[p].opts = decision

\* It holds as long as no call comes while another one awaits the end of a
\* process: the window startInternal() does not check for supersession.
OnlyTheDecidedRunsUnraced == ~raced => OnlyTheDecidedRuns

\* The status clients see is the truth once no call is under way: Running means
\* that the supervised process runs, Disabled that none does.
StatusHonest ==
    /\ SidecarTypeOK
    /\ ~raced /\ ~Awaiting =>
         /\ status = "Running" => active # 0 /\ proc[active] = "alive"
         /\ status = "Disabled" => Alive = {}

\* A sidecar that should run is never down with nobody at work on it: a start,
\* the restart loop, or an announced end (a start refused, the flap guard, all
\* attempts spent, a policy not to restart).  The exception is a crash while a superseded loop still
\* sleeps out its backoff: the loop counts as recovery and then bows out.
NeverUnattended ==
    ~raced /\ decision # Off =>
        \/ active # 0 /\ proc[active] # "gone"
        \/ \E k \in Starts : task[k].pc \in {"waitOld", "probing", "killing"}
        \/ loop.phase # "none" /\ loop.fresh
        \/ down \in {"refused", "flapped", "exhausted", "unrestarted", "swallowed"}

\* Loading comes to an end: by readiness, by the startup timeout, by the exit
\* of the process, or by the call that supersedes the start.
LoadingEnds == status = "Loading" ~> status # "Loading"
=============================================================================
