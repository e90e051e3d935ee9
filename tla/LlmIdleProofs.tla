--------------------------- MODULE LlmIdleProofs ---------------------------
(***************************************************************************)
(* Proofs about Sidecar inside LlmIdle, for any set of turns and options   *)
(* and any number of calls and faults: which process runs, what its status *)
(* tells, that a wanted sidecar is attended to, and what a turn finds.     *)
(***************************************************************************)
EXTENDS LlmIdle, TLAPS

\* The types, in full.
Types ==
    /\ SidecarTypeOK
    /\ timer \in BOOLEAN
    /\ turn \in [Turns -> [stage : {"idle", "begun", "checking", "loading", "sent"},
                           id : Starts \cup {0}]]

\* Each crash the flap guard counts was a fault, and a supervised process that
\* is being killed for not being ready is one fault that may yet count.
Accounts ==
    /\ crashes <= faults
    /\ active # 0 => /\ proc[active] = "doomed" => crashes < faults
                     /\ task[active].aborted => task[active].pc = "killing"

\* While no call overtook another: one process at most that nobody is ending,
\* the supervised one; where its start is, what clients see and what the
\* process does go together.  Who awaits an old process does so alone.
Supervised ==
    ~raced =>
        /\ \A p \in Alive : p = active
        /\ active # 0 =>
             /\ ~Awaiting /\ ~pendingStop /\ task[active].opts = decision
             /\ \/ task[active].pc = "probing" /\ status = "Loading" /\ proc[active] = "alive"
                \/ task[active].pc = "killing" /\ status = "Loading" /\ proc[active] = "doomed"
                \/ task[active].pc = "done" /\ status = "Running" /\ proc[active] = "alive"
        /\ active = 0 /\ ~Awaiting => status \in {"Disabled", "Error"}
        /\ \A k \in Starts : task[k].pc = "waitOld" =>
             /\ task[k].opts = decision /\ ~pendingStop /\ stopping = {}
             /\ \A j \in Starts : task[j].pc = "waitOld" => j = k

Recovering == loop.phase # "none" /\ loop.fresh

\* A restart loop that no call made stale has the last decision's options, and
\* nothing else is starting or stopping the sidecar.
LoopCurrent ==
    ~raced /\ Recovering =>
        /\ ~Awaiting /\ ~pendingStop /\ loop.opts = decision
        /\ loop.phase = "asleep" => active = 0
        /\ loop.phase = "starting" => active \in {0, loop.id}

\* A wanted sidecar runs, is started or recovered, or its end was announced.
Attended ==
    ~raced /\ decision # Off =>
        \/ active # 0
        \/ \E k \in Starts : task[k].pc = "waitOld"
        \/ Recovering
        \/ down # "none"

IInv == Types /\ Accounts /\ Supervised /\ LoopCurrent /\ Attended

-----------------------------------------------------------------------------
(* What the pieces of a step do                                            *)

Tasks == [pc : {"none", "waitOld", "probing", "killing", "done"}, old : Starts \cup {0},
          opts : Options \cup {Off}, aborted : BOOLEAN]
Loops == [phase : {"none", "asleep", "starting"}, fresh : BOOLEAN, opts : Options \cup {Off},
          attempt : 0..MaxAttempts, id : Starts \cup {0}]
Procs == {"none", "alive", "doomed", "gone"}

\* terminateActive ends one process and leaves the others alone.
LEMMA DoomedEffect ==
    ASSUME proc \in [Starts -> Procs], NEW p \in Starts
    PROVE  /\ Doomed(p) \in [Starts -> Procs]
           /\ Doomed(p)[p] = IF proc[p] = "alive" THEN "doomed" ELSE proc[p]
           /\ \A q \in Starts \ {p} : Doomed(p)[q] = proc[q]
  BY DEF Doomed, Procs

\* It aborts that process's probe and changes nothing else of any start.
LEMMA AbortedEffect ==
    ASSUME task \in [Starts -> Tasks], NEW p \in Starts
    PROVE  /\ Aborted(p) \in [Starts -> Tasks]
           /\ \A k \in Starts : /\ Aborted(p)[k].pc = task[k].pc
                                /\ Aborted(p)[k].opts = task[k].opts
           /\ \A k \in Starts \ {p} : Aborted(p)[k] = task[k]
  BY DEF Aborted, Tasks

\* A launch spawns one process and supervises it, or fails and spawns none.
LEMMA LaunchEffect ==
    ASSUME Types, NEW k \in Starts, NEW o \in Options \cup {Off}, Launch(k, o)
    PROVE  /\ task' \in [Starts -> Tasks] /\ proc' \in [Starts -> Procs]
           /\ \A j \in Starts \ {k} : task'[j] = task[j] /\ proc'[j] = proc[j]
           /\ task'[k].opts = o /\ ~task'[k].aborted
           /\ \/ /\ active' = k /\ status' = "Loading" /\ down' = "none" /\ faults' = faults
                 /\ task'[k].pc = "probing" /\ proc'[k] = "alive"
              \/ /\ active' = active /\ status' = "Error" /\ down' = "refused"
                 /\ faults < MaxFaults /\ faults' = faults + 1
                 /\ task'[k].pc = "done" /\ proc' = proc
  <1>1. PICK pc \in {"probing", "done"} :
          task' = [task EXCEPT ![k] = [pc |-> pc, old |-> 0, opts |-> o, aborted |-> FALSE]]
    BY Zenon DEF Launch, NoTask
  <1>2. task \in [Starts -> Tasks] /\ proc \in [Starts -> Procs]
    BY DEF Types, SidecarTypeOK, Tasks, Procs
  <1>3. task' \in [Starts -> Tasks] /\ proc' \in [Starts -> Procs]
    BY <1>1, <1>2 DEF Launch, Tasks, Procs
  <1>4. QED  BY <1>1, <1>2, <1>3 DEF Launch, NoTask

\* A start supersedes what runs: it launches, or awaits the old process's end.
LEMMA BeginEffect ==
    ASSUME Types, NEW o \in Options \cup {Off}, Begin(o)
    PROVE  /\ startId + 1 \in Starts /\ startId' = startId + 1 /\ pendingStop' = FALSE
           /\ \/ active = 0 /\ Launch(startId + 1, o)
              \/ /\ active # 0 /\ active' = 0 /\ UNCHANGED <<status, faults, down>>
                 /\ task' \in [Starts -> Tasks] /\ proc' = Doomed(active)
                 /\ task'[startId + 1].pc = "waitOld" /\ task'[startId + 1].opts = o
                 /\ \A j \in Starts \ {startId + 1} : /\ task'[j].pc = task[j].pc
                                                      /\ task'[j].opts = task[j].opts
  <1> USE DEF Begin
  <1>1. CASE active = 0  BY <1>1
  <1>2. CASE active # 0
    <2>1. active \in Starts /\ startId + 1 \in Starts /\ task \in [Starts -> Tasks]
      BY <1>2 DEF Types, SidecarTypeOK, Starts, Tasks
    <2>2. task' = [Aborted(active) EXCEPT ![startId + 1] =
                     [pc |-> "waitOld", old |-> active, opts |-> o, aborted |-> FALSE]]
      BY <1>2 DEF NoTask
    <2>3. task' \in [Starts -> Tasks]
      BY <2>1, <2>2, AbortedEffect DEF Tasks
    <2>4. QED  BY <1>2, <2>1, <2>2, <2>3, AbortedEffect
  <1>3. QED  BY <1>1, <1>2

SidecarStep ==
    \/ \E o \in Options, forgets \in BOOLEAN : Start(o, forgets)
    \/ Stop \/ Supervises \/ Faults \/ UNCHANGED sidecarVars

\* A start keeps the types of what it assigns.
LEMMA BeginTypes ==
    ASSUME Types, NEW o \in Options \cup {Off}, Begin(o)
    PROVE  /\ startId' \in Starts /\ active' \in Starts \cup {0} /\ pendingStop' \in BOOLEAN
           /\ task' \in [Starts -> Tasks] /\ proc' \in [Starts -> Procs]
           /\ status' \in {"Disabled", "Loading", "Running", "Error"}
           /\ faults' \in 0..MaxFaults
           /\ down' \in {"none", "refused", "flapped", "exhausted", "unrestarted", "swallowed"}
  <1>1. /\ active \in Starts \cup {0} /\ faults \in 0..MaxFaults
        /\ status \in {"Disabled", "Loading", "Running", "Error"}
        /\ down \in {"none", "refused", "flapped", "exhausted", "unrestarted", "swallowed"}
        /\ proc \in [Starts -> Procs]
    BY DEF Types, SidecarTypeOK, Starts, Procs
  <1>2. /\ startId + 1 \in Starts /\ startId' = startId + 1 /\ pendingStop' = FALSE
    BY BeginEffect
  <1>3. CASE active = 0 /\ Launch(startId + 1, o)
    <2>1. /\ task' \in [Starts -> Tasks] /\ proc' \in [Starts -> Procs]
          /\ \/ /\ active' = startId + 1 /\ status' = "Loading" /\ down' = "none"
                /\ faults' = faults
             \/ /\ active' = active /\ status' = "Error" /\ down' = "refused"
                /\ faults < MaxFaults /\ faults' = faults + 1
      BY <1>2, <1>3, LaunchEffect
    <2>2. faults' \in 0..MaxFaults
      BY <1>1, <2>1, BoundsAssumption
    <2>3. active' \in Starts \cup {0} /\ startId' \in Starts
      BY <1>1, <1>2, <2>1
    <2>4. /\ status' \in {"Disabled", "Loading", "Running", "Error"}
          /\ down' \in {"none", "refused", "flapped", "exhausted", "unrestarted", "swallowed"}
      BY <2>1
    <2>5. pendingStop' \in BOOLEAN
      BY <1>2
    <2>6. QED  BY <2>1, <2>2, <2>3, <2>4, <2>5
  <1>4. CASE /\ active # 0 /\ active' = 0 /\ UNCHANGED <<status, faults, down>>
             /\ task' \in [Starts -> Tasks] /\ proc' = Doomed(active)
    BY <1>1, <1>2, <1>4, DoomedEffect
  <1>5. QED  BY <1>3, <1>4, BeginEffect

\* Every step keeps the types; that the crashes stay in their range is Accounts.
LEMMA TypesStep == IInv /\ SidecarStep /\ crashes' <= faults' => SidecarTypeOK'
  <1> SUFFICES ASSUME IInv, SidecarStep, crashes' <= faults' PROVE SidecarTypeOK'
    OBVIOUS
  <1> USE BoundsAssumption DEF IInv
  <1>0. /\ task \in [Starts -> Tasks] /\ proc \in [Starts -> Procs]
        /\ active \in Starts \cup {0} /\ crashes \in Nat /\ 0 \notin Starts
    BY DEF Types, SidecarTypeOK, Tasks, Procs, Starts
  <1> DEFINE Numbers == /\ startId \in 0..MaxCalls + MaxFaults /\ active \in Starts \cup {0}
                        /\ crashes \in Nat /\ calls \in 0..MaxCalls /\ faults \in 0..MaxFaults
             Marks == /\ status \in {"Disabled", "Loading", "Running", "Error"}
                      /\ pendingStop \in BOOLEAN /\ raced \in BOOLEAN
                      /\ stopping \subseteq Starts /\ decision \in Options \cup {Off}
                      /\ down \in {"none", "refused", "flapped", "exhausted", "unrestarted", "swallowed"}
             Kept == task' \in [Starts -> Tasks] /\ proc' \in [Starts -> Procs]
             Goal == Numbers' /\ Marks' /\ loop' \in Loops /\ Kept
  <1>a. Numbers /\ Marks /\ loop \in Loops
    BY DEF Types, SidecarTypeOK, Starts, Loops
  <1>b. SUFFICES Goal
    BY DEF SidecarTypeOK, Starts, Tasks, Procs, Loops
  <1>1. ASSUME NEW o \in Options, NEW forgets \in BOOLEAN, Start(o, forgets) PROVE Goal
    <2>1. Begin(o)  BY <1>1 DEF Start
    <2>2. Numbers'
      <3>1. crashes' \in Nat /\ calls' \in 0..MaxCalls
        BY <1>0, <1>1, <1>a DEF Start
      <3>2. QED  BY <2>1, <3>1, BeginTypes DEF Starts
    <2>3. loop' \in Loops
      BY <1>1, <1>a DEF Start, Loops
    <2>4. stopping' = stopping /\ decision' = o /\ raced' \in BOOLEAN
      BY <1>1, <1>a DEF Start, Awaiting
    <2>5. QED  BY <1>a, <2>1, <2>2, <2>3, <2>4, BeginTypes
  <1>2. CASE Stop
    <2>1. Kept
      BY <1>0, <1>2, DoomedEffect, AbortedEffect DEF Stop
    <2>2. Numbers'
      BY <1>0, <1>2, <1>a DEF Stop, Starts
    <2>3. loop' \in Loops
      BY <1>2, <1>a DEF Stop, Loops
    <2>4. Marks'
      BY <1>0, <1>2, <1>a DEF Stop, Awaiting
    <2>5. QED  BY <2>1, <2>2, <2>3, <2>4
  <1>3. ASSUME NEW k \in Starts, OldGone(k) PROVE Goal
    <2>1. task[k].opts \in Options \cup {Off} /\ Launch(k, task[k].opts)
      BY <1>0, <1>3 DEF OldGone, Tasks
    <2>2. Numbers'
      BY <1>3, <1>a, <2>1, LaunchEffect DEF OldGone
    <2>3. Marks'
      BY <1>3, <1>a, <2>1, LaunchEffect DEF OldGone
    <2>4. QED  BY <1>3, <1>a, <2>1, <2>2, <2>3, LaunchEffect DEF OldGone
  <1>4. ASSUME NEW k \in Starts, ProbeEnds(k) PROVE Goal
    <2>1. proc' \in [Starts -> Procs]
      BY <1>0, <1>4, DoomedEffect DEF ProbeEnds
    <2>2. task' \in [Starts -> Tasks]
      <3>1. [task EXCEPT ![k].pc = "done"] \in [Starts -> Tasks]
        BY <1>0 DEF Tasks
      <3>2. Aborted(k) \in [Starts -> Tasks]
        BY <1>0, AbortedEffect
      <3>3. [Aborted(k) EXCEPT ![k].pc = "killing"] \in [Starts -> Tasks]
        BY <3>2 DEF Tasks
      <3>4. QED  BY <1>4, <3>1, <3>3 DEF ProbeEnds
    <2>3. faults' \in 0..MaxFaults
      BY <1>4, <1>a DEF ProbeEnds
    <2>4. QED  BY <1>4, <1>a, <2>1, <2>2, <2>3 DEF ProbeEnds
  <1>5. ASSUME NEW k \in Starts, KillDone(k) PROVE Goal
    BY <1>0, <1>5, <1>a DEF KillDone, Tasks
  <1>6. ASSUME NEW p \in Starts, StopDone(p) PROVE Goal
    BY <1>0, <1>6, <1>a DEF StopDone
  <1>7. CASE LoopWakes
    <2>1. CASE loop' = NoLoop /\ UNCHANGED <<startId, active, status, pendingStop, task,
                                             proc, faults, down>>
      BY <1>0, <1>7, <1>a, <2>1 DEF LoopWakes, NoLoop, Loops
    <2>2. CASE Begin(loop.opts) /\ loop' = [loop EXCEPT !.phase = "starting", !.id = startId']
      <3>1. loop.opts \in Options \cup {Off}
        BY <1>a DEF Loops
      <3>2. loop' \in Loops
        BY <1>a, <2>2, <3>1, BeginTypes DEF Loops
      <3>3. UNCHANGED <<crashes, stopping, calls, decision, raced>>
        BY <1>7 DEF LoopWakes
      <3>4. Numbers'
        BY <1>a, <2>2, <3>1, <3>3, BeginTypes DEF Starts
      <3>5. QED  BY <1>a, <2>2, <3>1, <3>2, <3>3, <3>4, BeginTypes
    <2>3. QED  BY <1>7, <2>1, <2>2 DEF LoopWakes
  <1>8. CASE AttemptEnds
    <2>1. loop' \in Loops
      <3>1. NoLoop \in Loops
        BY DEF NoLoop, Loops
      <3>2. ASSUME loop.attempt < MaxAttempts
            PROVE  [loop EXCEPT !.phase = "asleep", !.attempt = @ + 1, !.id = 0] \in Loops
        <4>1. loop \in Loops
          BY <1>a
        <4>2. loop.attempt + 1 \in 0..MaxAttempts
          BY <3>2, <4>1 DEF Loops
        <4>3. QED  BY <4>1, <4>2 DEF Loops
      <3> DEFINE again == loop.fresh /\ status # "Running"
      <3>3. CASE again /\ loop.attempt < MaxAttempts
        <4>1. loop' = [loop EXCEPT !.phase = "asleep", !.attempt = @ + 1, !.id = 0]
          BY <1>8, <3>3 DEF AttemptEnds
        <4>2. QED  BY <3>2, <3>3, <4>1
      <3>4. CASE ~(again /\ loop.attempt < MaxAttempts)
        <4>1. loop' = NoLoop
          BY <1>8, <3>4 DEF AttemptEnds
        <4>2. QED  BY <3>1, <4>1
      <3>5. QED  BY <3>3, <3>4
    <2>2. down' \in {down, "exhausted"}
      BY <1>8 DEF AttemptEnds
    <2>3. UNCHANGED <<startId, active, status, pendingStop, crashes, task, proc, stopping,
                      calls, faults, decision, raced>>
      BY <1>8 DEF AttemptEnds
    <2>4. QED  BY <1>0, <1>a, <2>1, <2>2, <2>3
  <1>9. ASSUME NEW p \in Starts, Exit(p) PROVE Goal
    <2>1. proc' \in [Starts -> Procs] /\ faults' \in 0..MaxFaults
      BY <1>0, <1>9, <1>a DEF Exit, Procs
    <2>2. task' \in [Starts -> Tasks]
      BY <1>0, <1>9, AbortedEffect DEF Exit, Unexpected, Recovers
    <2>3. loop' \in Loops
      <3>1. task[p].opts \in Options \cup {Off}
        BY <1>0 DEF Tasks
      <3>2. loop' \in {loop, [loop EXCEPT !.fresh = FALSE],
                       [phase |-> "asleep", fresh |-> TRUE, opts |-> task[p].opts,
                        attempt |-> 1, id |-> 0]}
        BY <1>9, Zenon DEF Exit, Unexpected, Recovers, NoLoop
      <3>3. [loop EXCEPT !.fresh = FALSE] \in Loops
        BY <1>a DEF Loops
      <3>4. [phase |-> "asleep", fresh |-> TRUE, opts |-> task[p].opts,
             attempt |-> 1, id |-> 0] \in Loops
        BY <3>1 DEF Loops
      <3>5. QED  BY <1>a, <3>2, <3>3, <3>4
    <2>4. Numbers'
      BY <1>0, <1>9, <1>a, <2>1 DEF Exit, Unexpected, Recovers
    <2>5. Marks'
      BY <1>9, <1>a DEF Exit, Unexpected, Recovers
    <2>6. QED  BY <2>1, <2>2, <2>3, <2>4, <2>5
  <1>10. CASE WindowSlides
    BY <1>0, <1>10, <1>a DEF WindowSlides
  <1>11. CASE UNCHANGED sidecarVars
    BY <1>0, <1>11, <1>a DEF sidecarVars
  <1>12. QED
    BY <1>1, <1>2, <1>3, <1>4, <1>5, <1>6, <1>7, <1>8, <1>9, <1>10, <1>11
       DEF SidecarStep, Supervises, Faults

\* The types, flat.
LEMMA Flat ==
    ASSUME Types
    PROVE  /\ task \in [Starts -> Tasks] /\ proc \in [Starts -> Procs] /\ loop \in Loops
           /\ active \in Starts \cup {0} /\ 0 \notin Starts /\ stopping \subseteq Starts
           /\ crashes \in Nat /\ faults \in Nat /\ raced \in BOOLEAN
           /\ \A k \in Starts : task[k].opts \in Options \cup {Off}
           /\ loop.opts \in Options \cup {Off}
  BY DEF Types, SidecarTypeOK, Tasks, Procs, Loops, Starts

\* Every step: a crash is counted with the fault that it was, or that the
\* readiness timeout before it was.
LEMMA AccountsStep == IInv /\ SidecarStep => Accounts'
  <1> SUFFICES ASSUME IInv, SidecarStep PROVE Accounts'
    OBVIOUS
  <1>0. Types /\ Accounts
    BY DEF IInv
  <1> USE DEF Accounts
  <1>1. ASSUME NEW o \in Options, NEW forgets \in BOOLEAN, Start(o, forgets) PROVE Accounts'
    <2>1. Begin(o) /\ crashes' \in {0, crashes}
      BY <1>1 DEF Start
    <2>2. CASE active # 0
      <3>1. active' = 0 /\ faults' = faults
        BY <1>0, <2>1, <2>2, BeginEffect
      <3>2. QED  BY <1>0, <2>1, <3>1, Flat
    <2>3. CASE active = 0
      <3>1. startId + 1 \in Starts /\ Launch(startId + 1, o)
        BY <1>0, <2>1, <2>3, BeginEffect
      <3>2. QED  BY <1>0, <2>1, <2>3, <3>1, LaunchEffect, Flat
    <2>4. QED  BY <2>2, <2>3
  <1>2. CASE Stop
    BY <1>0, <1>2, Flat DEF Stop
  <1>3. ASSUME NEW k \in Starts, OldGone(k) PROVE Accounts'
    <2>1. Launch(k, task[k].opts) /\ UNCHANGED crashes
      BY <1>3 DEF OldGone
    <2>2. QED  BY <1>0, <2>1, LaunchEffect, Flat
  <1>4. ASSUME NEW k \in Starts, ProbeEnds(k) PROVE Accounts'
    <2>1. task[k].pc = "probing" /\ UNCHANGED <<active, crashes>>
      BY <1>4 DEF ProbeEnds
    <2>2. CASE task' = [task EXCEPT ![k].pc = "done"] /\ proc' = proc /\ faults' = faults
      <3>1. active = k => ~task[k].aborted
        BY <1>0, <2>1, Flat
      <3>2. QED  BY <1>0, <2>1, <2>2, <3>1, Flat DEF Tasks
    <2>3. CASE active = k /\ task' = [Aborted(k) EXCEPT ![k].pc = "killing"]
               /\ faults' = IF task[k].aborted THEN faults ELSE faults + 1
      <3>1. ~task[k].aborted
        BY <1>0, <2>1, <2>3, Flat
      <3>2. faults' = faults + 1
        BY <2>3, <3>1
      <3>3. task'[k].pc = "killing"
        BY <1>0, <2>3, AbortedEffect, Flat DEF Tasks
      <3>4. QED  BY <1>0, <2>1, <2>3, <3>2, <3>3, Flat
    <2>4. QED  BY <1>4, <2>2, <2>3 DEF ProbeEnds
  <1>5. ASSUME NEW k \in Starts, KillDone(k) PROVE Accounts'
    BY <1>0, <1>5, Flat DEF KillDone, Tasks
  <1>6. ASSUME NEW p \in Starts, StopDone(p) PROVE Accounts'
    BY <1>0, <1>6, Flat DEF StopDone
  <1>7. CASE LoopWakes
    <2>1. CASE UNCHANGED <<active, crashes, task, proc, faults>>
      BY <1>0, <2>1
    <2>2. CASE Begin(loop.opts)
      <3>1. UNCHANGED crashes
        BY <1>7 DEF LoopWakes
      <3>2. loop.opts \in Options \cup {Off}
        BY <1>0, Flat
      <3>3. CASE active # 0
        <4>1. active' = 0 /\ faults' = faults
          BY <1>0, <2>2, <3>2, <3>3, BeginEffect
        <4>2. QED  BY <1>0, <3>1, <4>1, Flat
      <3>4. CASE active = 0
        <4>1. startId + 1 \in Starts /\ Launch(startId + 1, loop.opts)
          BY <1>0, <2>2, <3>2, <3>4, BeginEffect
        <4>2. QED  BY <1>0, <3>1, <3>2, <3>4, <4>1, LaunchEffect, Flat
      <3>5. QED  BY <3>3, <3>4
    <2>3. QED  BY <1>7, <2>1, <2>2 DEF LoopWakes
  <1>8. CASE AttemptEnds
    BY <1>0, <1>8 DEF AttemptEnds
  <1>9. ASSUME NEW p \in Starts, Exit(p) PROVE Accounts'
    BY <1>0, <1>9, Flat DEF Exit, Unexpected, Recovers
  <1>10. CASE WindowSlides
    BY <1>0, <1>10, Flat DEF WindowSlides
  <1>11. CASE UNCHANGED sidecarVars
    BY <1>0, <1>11 DEF sidecarVars
  <1>12. QED
    BY <1>1, <1>2, <1>3, <1>4, <1>5, <1>6, <1>7, <1>8, <1>9, <1>10, <1>11
       DEF SidecarStep, Supervises, Faults

\* Every step that is no call overtaking another leaves one process at most.
LEMMA SupervisedStep == IInv /\ SidecarStep => Supervised'
  <1> SUFFICES ASSUME IInv, SidecarStep, ~raced' PROVE Supervised'
    BY DEF Supervised
  <1>0. Types /\ Accounts /\ Supervised /\ LoopCurrent
    BY DEF IInv
  <1> USE DEF Supervised, Alive, Awaiting
  <1>1. ASSUME NEW o \in Options, NEW forgets \in BOOLEAN, Start(o, forgets) PROVE Supervised'
    <2>1. Begin(o) /\ ~raced /\ ~Awaiting /\ decision' = o /\ stopping' = stopping
      BY <1>1 DEF Start
    <2> DEFINE k == startId + 1
    <2>2. k \in Starts /\ ~pendingStop'
      BY <1>0, <2>1, BeginEffect
    <2>3. CASE active # 0
      <3>1. /\ active' = 0 /\ proc' = Doomed(active)
            /\ task'[k].pc = "waitOld" /\ task'[k].opts = o
            /\ \A j \in Starts \ {k} : task'[j].pc = task[j].pc
        BY <1>0, <2>1, <2>3, BeginEffect
      <3>2. \A q \in Starts : proc'[q] # "alive"
        BY <1>0, <2>1, <2>3, <3>1, DoomedEffect, Flat
      <3>3. QED  BY <2>1, <2>2, <3>1, <3>2
    <2>4. CASE active = 0
      <3>1. Launch(k, o)
        BY <1>0, <2>1, <2>4, BeginEffect
      <3> HIDE DEF k
      <3>2. QED  BY <1>0, <2>1, <2>2, <2>4, <3>1, LaunchEffect, Flat
    <2>5. QED  BY <2>3, <2>4
  <1>2. CASE Stop
    <2>1. ~raced /\ ~Awaiting
      BY <1>2 DEF Stop
    <2>2. CASE active = 0
      BY <1>0, <1>2, <2>1, <2>2 DEF Stop
    <2>3. CASE active # 0
      <3>1. /\ active' = 0 /\ pendingStop' /\ stopping' = stopping \cup {active}
            /\ proc' = Doomed(active) /\ task' = Aborted(active)
        BY <1>2, <2>3 DEF Stop
      <3>2. \A q \in Starts : proc'[q] # "alive"
        BY <1>0, <2>1, <2>3, <3>1, DoomedEffect, Flat
      <3>3. \A k \in Starts : task'[k].pc # "waitOld"
        BY <1>0, <2>1, <2>3, <3>1, AbortedEffect, Flat
      <3>4. QED  BY <2>3, <3>1, <3>2, <3>3
    <2>4. QED  BY <2>2, <2>3
  <1>3. ASSUME NEW k \in Starts, OldGone(k) PROVE Supervised'
    <2>1. /\ task[k].pc = "waitOld" /\ Launch(k, task[k].opts)
          /\ UNCHANGED <<pendingStop, stopping, decision, raced>>
      BY <1>3 DEF OldGone
    <2>2. /\ active = 0 /\ ~pendingStop /\ stopping = {} /\ task[k].opts = decision
          /\ \A j \in Starts : task[j].pc = "waitOld" => j = k
      BY <1>0, <2>1, Flat
    <2>3. QED  BY <1>0, <2>1, <2>2, LaunchEffect, Flat
  <1>4. ASSUME NEW k \in Starts, ProbeEnds(k) PROVE Supervised'
    <2>1. UNCHANGED <<active, pendingStop, stopping, decision, raced>> /\ task[k].pc = "probing"
      BY <1>4 DEF ProbeEnds
    <2>2. CASE active # k
      BY <1>0, <1>4, <2>1, <2>2, Flat DEF ProbeEnds, Tasks
    <2>3. CASE active = k /\ task' = [task EXCEPT ![k].pc = "done"] /\ status' = "Running"
               /\ UNCHANGED proc
      BY <1>0, <2>1, <2>3, Flat DEF Tasks
    <2>4. CASE active = k /\ task' = [Aborted(k) EXCEPT ![k].pc = "killing"]
               /\ proc' = Doomed(k) /\ UNCHANGED status
      BY <1>0, <2>1, <2>4, DoomedEffect, AbortedEffect, Flat DEF Tasks
    <2>5. QED  BY <1>4, <2>2, <2>3, <2>4 DEF ProbeEnds
  <1>5. ASSUME NEW k \in Starts, KillDone(k) PROVE Supervised'
    <2>1. /\ task[k].pc = "killing" /\ proc[k] = "gone"
          /\ UNCHANGED <<proc, pendingStop, stopping, decision, raced>>
          /\ task' = [task EXCEPT ![k].pc = "done"]
      BY <1>5 DEF KillDone
    <2>2. active # k
      BY <1>0, <2>1, Flat
    <2>3. UNCHANGED <<active, status>>
      BY <1>5, <2>2 DEF KillDone
    <2>4. QED  BY <1>0, <2>1, <2>2, <2>3, Flat DEF Tasks
  <1>6. ASSUME NEW p \in Starts, StopDone(p) PROVE Supervised'
    BY <1>0, <1>6, Flat DEF StopDone
  <1>7. CASE LoopWakes
    <2>1. UNCHANGED <<stopping, decision, raced>>
      BY <1>7 DEF LoopWakes
    <2>2. CASE UNCHANGED <<active, status, pendingStop, task, proc>>
      BY <1>0, <2>1, <2>2
    <2>3. CASE Begin(loop.opts) /\ loop.phase = "asleep" /\ loop.fresh
      <3>1. active = 0 /\ ~Awaiting /\ loop.opts = decision
        BY <1>0, <2>1, <2>3 DEF LoopCurrent, Recovering
      <3>2. startId + 1 \in Starts /\ Launch(startId + 1, loop.opts) /\ ~pendingStop'
        BY <1>0, <2>3, <3>1, BeginEffect, Flat
      <3> DEFINE k == startId + 1
      <3> HIDE DEF k
      <3>3. k \in Starts /\ Launch(k, loop.opts)
        BY <3>2 DEF k
      <3>4. QED  BY <1>0, <2>1, <3>1, <3>2, <3>3, LaunchEffect, Flat
    <2>4. QED  BY <1>7, <2>2, <2>3 DEF LoopWakes
  <1>8. CASE AttemptEnds
    BY <1>0, <1>8 DEF AttemptEnds
  <1>9. ASSUME NEW p \in Starts, Exit(p) PROVE Supervised'
    <2>1. /\ proc' = [proc EXCEPT ![p] = "gone"] /\ UNCHANGED <<stopping, decision, raced>>
          /\ proc[p] \in {"alive", "doomed"}
      BY <1>9 DEF Exit
    <2>2. CASE active # p
      BY <1>0, <1>9, <2>1, <2>2, Flat DEF Exit
    <2>3. CASE active = p
      <3>1. Unexpected(p)
        BY <1>0, <1>9, <2>1, <2>3, Flat DEF Exit
      <3>2. active' = 0 /\ status' = "Error" /\ task' = Aborted(p) /\ UNCHANGED pendingStop
        BY <3>1 DEF Unexpected, Recovers
      <3>3. QED  BY <1>0, <2>1, <2>3, <3>2, AbortedEffect, Flat
    <2>4. QED  BY <2>2, <2>3
  <1>10. CASE WindowSlides
    BY <1>0, <1>10 DEF WindowSlides
  <1>11. CASE UNCHANGED sidecarVars
    BY <1>0, <1>11 DEF sidecarVars
  <1>12. QED
    BY <1>1, <1>2, <1>3, <1>4, <1>5, <1>6, <1>7, <1>8, <1>9, <1>10, <1>11
       DEF SidecarStep, Supervises, Faults

\* Every step: a call makes a loop stale, and only the end of the supervised
\* process starts one.
LEMMA LoopCurrentStep == IInv /\ SidecarStep => LoopCurrent'
  <1> SUFFICES ASSUME IInv, SidecarStep, ~raced', Recovering' PROVE LoopCurrent'
    BY DEF LoopCurrent
  <1>0. Types /\ Supervised /\ LoopCurrent
    BY DEF IInv
  <1> USE DEF LoopCurrent, Recovering, Awaiting
  <1>1. ASSUME NEW o \in Options, NEW forgets \in BOOLEAN, Start(o, forgets) PROVE FALSE
    BY <1>0, <1>1, Flat DEF Start, Loops
  <1>2. CASE Stop
    BY <1>0, <1>2, Flat DEF Stop, Loops
  <1>3. ASSUME NEW k \in Starts, OldGone(k) PROVE FALSE
    BY <1>0, <1>3 DEF OldGone
  <1>4. ASSUME NEW k \in Starts, ProbeEnds(k) PROVE LoopCurrent'
    <2>1. CASE task' = [task EXCEPT ![k].pc = "done"]
      <3>1. \A j \in Starts : task'[j].pc = "waitOld" => task[j].pc = "waitOld"
        BY <1>0, <2>1, Flat DEF Tasks
      <3>2. QED  BY <1>0, <1>4, <3>1 DEF ProbeEnds
    <2>2. CASE task' = [Aborted(k) EXCEPT ![k].pc = "killing"]
      <3>1. \A j \in Starts : task'[j].pc = "waitOld" => task[j].pc = "waitOld"
        BY <1>0, <2>2, AbortedEffect, Flat DEF Tasks
      <3>2. QED  BY <1>0, <1>4, <3>1 DEF ProbeEnds
    <2>3. QED  BY <1>4, <2>1, <2>2 DEF ProbeEnds
  <1>5. ASSUME NEW k \in Starts, KillDone(k) PROVE LoopCurrent'
    <2>1. \A j \in Starts : task'[j].pc = "waitOld" => task[j].pc = "waitOld"
      BY <1>0, <1>5, Flat DEF KillDone, Tasks
    <2>2. QED  BY <1>0, <1>5, <2>1 DEF KillDone
  <1>6. ASSUME NEW p \in Starts, StopDone(p) PROVE LoopCurrent'
    BY <1>0, <1>6 DEF StopDone
  <1>7. CASE LoopWakes
    <2>1. UNCHANGED <<stopping, decision, raced>> /\ loop.phase = "asleep"
      BY <1>7 DEF LoopWakes
    <2>2. loop' # NoLoop
      BY DEF NoLoop
    <2>3. /\ Begin(loop.opts) /\ loop.fresh
          /\ loop' = [loop EXCEPT !.phase = "starting", !.id = startId']
      BY <1>7, <2>2 DEF LoopWakes
    <2>4. active = 0 /\ ~Awaiting /\ loop.opts = decision
      BY <1>0, <2>1, <2>3
    <2>5. /\ startId + 1 \in Starts /\ Launch(startId + 1, loop.opts) /\ ~pendingStop'
          /\ startId' = startId + 1
      BY <1>0, <2>3, <2>4, BeginEffect, Flat
    <2> DEFINE k == startId + 1
    <2> HIDE DEF k
    <2>6. k \in Starts /\ Launch(k, loop.opts) /\ startId' = k
      BY <2>5 DEF k
    <2>7. active' \in {0, k} /\ \A j \in Starts : task'[j].pc # "waitOld"
      BY <1>0, <2>4, <2>6, LaunchEffect, Flat
    <2>8. loop'.id = k /\ loop'.phase = "starting" /\ loop'.opts = loop.opts
      BY <1>0, <2>3, <2>6, Flat DEF Loops
    <2>9. QED  BY <2>1, <2>4, <2>5, <2>7, <2>8
  <1>8. CASE AttemptEnds
    <2>1. /\ loop.phase = "starting" /\ task[loop.id].pc = "done"
          /\ UNCHANGED <<active, pendingStop, task, stopping, decision, raced>>
      BY <1>8 DEF AttemptEnds
    <2>2. loop' # NoLoop
      BY DEF NoLoop
    <2>3. /\ loop.fresh /\ status # "Running"
          /\ loop' = [loop EXCEPT !.phase = "asleep", !.attempt = @ + 1, !.id = 0]
      BY <1>8, <2>2 DEF AttemptEnds
    <2>4. active = 0
      BY <1>0, <2>1, <2>3, Flat DEF Supervised
    <2>5. loop'.phase = "asleep" /\ loop'.opts = loop.opts
      BY <1>0, <2>3, Flat DEF Loops
    <2>6. QED  BY <1>0, <2>1, <2>3, <2>4, <2>5
  <1>9. ASSUME NEW p \in Starts, Exit(p) PROVE LoopCurrent'
    <2>1. UNCHANGED <<stopping, decision, raced>> /\ proc[p] \in {"alive", "doomed"}
      BY <1>9 DEF Exit
    <2>2. CASE active # p
      BY <1>0, <1>9, <2>1, <2>2 DEF Exit
    <2>3. CASE active = p
      <3>1. Unexpected(p) /\ ~Awaiting /\ ~pendingStop /\ task[p].opts = decision
        BY <1>0, <1>9, <2>1, <2>3, Flat DEF Exit, Supervised
      <3>2. /\ active' = 0 /\ UNCHANGED pendingStop
            /\ \A j \in Starts : task'[j].pc # "waitOld"
        BY <1>0, <3>1, AbortedEffect, Flat DEF Unexpected, Recovers
      <3>3. \/ loop' = loop
            \/ loop' = [NoLoop EXCEPT !.phase = "asleep", !.fresh = TRUE,
                                      !.opts = task[p].opts, !.attempt = 1]
        <4>1. loop' # [loop EXCEPT !.fresh = FALSE]
          BY <1>0, Flat DEF Loops
        <4>2. QED  BY <3>1, <4>1 DEF Unexpected, Recovers
      <3>4. loop' # loop => loop'.opts = decision
        BY <3>1, <3>3 DEF NoLoop
      <3>5. QED  BY <1>0, <2>1, <3>1, <3>2, <3>4
    <2>4. QED  BY <2>2, <2>3
  <1>10. CASE WindowSlides
    BY <1>0, <1>10 DEF WindowSlides
  <1>11. CASE UNCHANGED sidecarVars
    BY <1>0, <1>11 DEF sidecarVars
  <1>12. QED
    BY <1>1, <1>2, <1>3, <1>4, <1>5, <1>6, <1>7, <1>8, <1>9, <1>10, <1>11
       DEF SidecarStep, Supervises, Faults

\* Every step that takes the sidecar down has someone at work on it, or tells.
LEMMA AttendedStep == IInv /\ SidecarStep => Attended'
  <1> SUFFICES ASSUME IInv, SidecarStep, ~raced', decision' # Off PROVE Attended'
    BY DEF Attended
  <1>0. Types /\ Supervised /\ LoopCurrent /\ Attended
    BY DEF IInv
  <1> USE DEF Attended
  <1>1. ASSUME NEW o \in Options, NEW forgets \in BOOLEAN, Start(o, forgets) PROVE Attended'
    <2>1. Begin(o)  BY <1>1 DEF Start
    <2>2. CASE active # 0
      BY <1>0, <2>1, <2>2, BeginEffect
    <2>3. CASE active = 0
      <3>1. startId + 1 \in Starts /\ Launch(startId + 1, o)
        BY <1>0, <2>1, <2>3, BeginEffect
      <3>2. QED  BY <1>0, <3>1, LaunchEffect, Flat
    <2>4. QED  BY <2>2, <2>3
  <1>2. CASE Stop
    BY <1>2 DEF Stop
  <1>3. ASSUME NEW k \in Starts, OldGone(k) PROVE Attended'
    <2>1. Launch(k, task[k].opts)
      BY <1>3 DEF OldGone
    <2>2. QED  BY <1>0, <2>1, LaunchEffect, Flat
  <1>4. ASSUME NEW k \in Starts, ProbeEnds(k) PROVE Attended'
    <2>1. \A j \in Starts : task[j].pc = "waitOld" => task'[j].pc = "waitOld"
      <3>1. task \in [Starts -> Tasks]
        BY <1>0, Flat
      <3>2. /\ task[k].pc = "probing"
            /\ \/ task' = [task EXCEPT ![k].pc = "done"]
               \/ task' = [Aborted(k) EXCEPT ![k].pc = "killing"]
        BY <1>4, Zenon DEF ProbeEnds
      <3>3. \A j \in Starts \ {k} : task'[j].pc = task[j].pc
        BY <3>1, <3>2, AbortedEffect
      <3>4. QED  BY <3>2, <3>3
    <2>2. QED  BY <1>0, <1>4, <2>1 DEF ProbeEnds, Recovering
  <1>5. ASSUME NEW k \in Starts, KillDone(k) PROVE Attended'
    <2>1. \A j \in Starts : task[j].pc = "waitOld" => task'[j].pc = "waitOld"
      BY <1>0, <1>5, Flat DEF KillDone, Tasks
    <2>2. QED  BY <1>0, <1>5, <2>1 DEF KillDone, Recovering
  <1>6. ASSUME NEW p \in Starts, StopDone(p) PROVE Attended'
    BY <1>0, <1>6 DEF StopDone, Recovering
  <1>7. CASE LoopWakes
    <2>1. UNCHANGED <<stopping, decision, raced>> /\ loop.phase = "asleep"
      BY <1>7 DEF LoopWakes
    <2>2. CASE /\ pendingStop \/ ~loop.fresh
               /\ UNCHANGED <<active, task, down>>
      <3>1. ~Recovering
        BY <1>0, <2>1, <2>2 DEF LoopCurrent, Recovering
      <3>2. QED  BY <1>0, <2>1, <2>2, <3>1
    <2>3. CASE Begin(loop.opts) /\ loop.fresh
      <3>1. active = 0
        BY <1>0, <2>1, <2>3 DEF LoopCurrent, Recovering
      <3>2. startId + 1 \in Starts /\ Launch(startId + 1, loop.opts)
        BY <1>0, <2>3, <3>1, BeginEffect, Flat
      <3>3. QED  BY <1>0, <3>2, LaunchEffect, Flat
    <2>4. QED  BY <1>7, <2>2, <2>3 DEF LoopWakes
  <1>8. CASE AttemptEnds
    <2>1. /\ loop.phase = "starting"
          /\ UNCHANGED <<active, status, pendingStop, task, stopping, decision, raced>>
      BY <1>8 DEF AttemptEnds
    <2>2. CASE ~loop.fresh
      <3>1. ~Recovering /\ UNCHANGED down
        BY <1>8, <2>2 DEF AttemptEnds, Recovering
      <3>2. QED  BY <1>0, <2>1, <3>1
    <2>3. CASE loop.fresh /\ status = "Running"
      <3>1. active # 0
        BY <1>0, <2>1, <2>3 DEF LoopCurrent, Recovering, Supervised
      <3>2. QED  BY <2>1, <3>1
    <2>4. CASE loop.fresh /\ status # "Running" /\ loop.attempt = MaxAttempts
      BY <1>8, <2>4 DEF AttemptEnds
    <2>5. CASE loop.fresh /\ status # "Running" /\ loop.attempt < MaxAttempts
      <3>1. loop' = [loop EXCEPT !.phase = "asleep", !.attempt = @ + 1, !.id = 0]
        BY <1>8, <2>5 DEF AttemptEnds
      <3>2. Recovering'
        BY <1>0, <2>5, <3>1, Flat DEF Recovering, Loops
      <3>3. QED  BY <3>2
    <2>6. loop.attempt = MaxAttempts \/ loop.attempt < MaxAttempts
      BY <1>0, BoundsAssumption, Flat DEF Loops
    <2>7. QED  BY <2>2, <2>3, <2>4, <2>5, <2>6
  <1>9. ASSUME NEW p \in Starts, Exit(p) PROVE Attended'
    <2>1. UNCHANGED <<stopping, decision, raced>> /\ proc[p] \in {"alive", "doomed"}
      BY <1>9 DEF Exit
    <2>2. CASE active # p
      BY <1>0, <1>9, <2>1, <2>2 DEF Exit, Recovering
    <2>3. CASE active = p
      <3>1. Unexpected(p)
        BY <1>0, <1>9, <2>1, <2>3, Flat DEF Exit, Supervised
      <3>2. CASE down' \in {"flapped", "unrestarted", "swallowed"}
        BY <3>2
      <3>3. CASE loop' = loop /\ loop.phase # "none" /\ loop.fresh
        BY <3>3 DEF Recovering
      <3>4. CASE loop' = [NoLoop EXCEPT !.phase = "asleep", !.fresh = TRUE,
                                        !.opts = task[p].opts, !.attempt = 1]
        BY <3>4 DEF Recovering, NoLoop
      <3>5. QED  BY <3>1, <3>2, <3>3, <3>4 DEF Unexpected, Recovers
    <2>4. QED  BY <2>2, <2>3
  <1>10. CASE WindowSlides
    BY <1>0, <1>10 DEF WindowSlides, Recovering
  <1>11. CASE UNCHANGED sidecarVars
    BY <1>0, <1>11 DEF sidecarVars, Recovering
  <1>12. QED
    BY <1>1, <1>2, <1>3, <1>4, <1>5, <1>6, <1>7, <1>8, <1>9, <1>10, <1>11
       DEF SidecarStep, Supervises, Faults

-----------------------------------------------------------------------------
(* Theorems                                                                *)

\* A step of the composition is a step of the sidecar, or leaves it alone.
LEMMA NextIsSidecarStep == [Next]_vars => SidecarStep
  BY DEF Next, vars, SidecarStep, BeginTurn, Ensure, EnsureStarts, EnsureMissing,
     EnsureReturns, EndTurn, Unload, Apply

\* The stages of the turns and the idle timer keep their types.
LEMMA TurnsStep ==
    ASSUME Types, SidecarTypeOK', [Next]_vars
    PROVE  Types'
  <1> DEFINE TurnsOK == /\ timer \in BOOLEAN
                        /\ turn \in [Turns -> [stage : {"idle", "begun", "checking", "loading",
                                                        "sent"}, id : Starts \cup {0}]]
  <1> SUFFICES TurnsOK'
    BY DEF Types
  <1>0. TurnsOK
    BY DEF Types
  <1>1. ASSUME NEW t \in Turns, NEW o \in Options, EnsureStarts(t, o) PROVE TurnsOK'
    <2>1. startId' \in Starts
      BY <1>1, BeginEffect DEF EnsureStarts, Start
    <2>2. QED  BY <1>0, <1>1, <2>1 DEF EnsureStarts
  <1>2. ASSUME NEW t \in Turns,
               BeginTurn(t) \/ Ensure(t) \/ EnsureMissing(t) \/ EnsureReturns(t) \/ EndTurn(t)
        PROVE  TurnsOK'
    <2>1. PICK s \in {"idle", "begun", "checking", "sent"} : At(t, s)
      BY <1>2, Zenon DEF BeginTurn, Ensure, EnsureMissing, EnsureReturns, EndTurn
    <2>2. turn' \in [Turns -> [stage : {"idle", "begun", "checking", "loading", "sent"},
                               id : Starts \cup {0}]]
      BY <1>0, <2>1 DEF At
    <2>3. timer' \in BOOLEAN
      BY <1>0, <1>2 DEF BeginTurn, Ensure, EnsureMissing, EnsureReturns, EndTurn
    <2>4. QED  BY <2>2, <2>3
  <1>3. CASE Unload
    BY <1>0, <1>3 DEF Unload
  <1>4. CASE UNCHANGED idleVars
    BY <1>0, <1>4 DEF idleVars
  <1>5. QED  BY <1>1, <1>2, <1>3, <1>4 DEF Next, Apply, vars

\* Before anything is started the invariant holds.
LEMMA InitIInv == Init => IInv
  <1> SUFFICES ASSUME Init PROVE IInv  OBVIOUS
  <1> USE BoundsAssumption DEF Init, SidecarInit, NoTask, NoLoop
  <1>1. Types
    <2>1. /\ startId \in 0..MaxCalls + MaxFaults /\ active \in 0..MaxCalls + MaxFaults
          /\ crashes \in 0..FlapMax + MaxFaults /\ calls \in 0..MaxCalls
          /\ faults \in 0..MaxFaults
      OBVIOUS
    <2>2. loop \in Loops
      BY DEF Loops
    <2>3. /\ task \in [Starts -> Tasks] /\ proc \in [Starts -> Procs]
          /\ turn \in [Turns -> [stage : {"idle", "begun", "checking", "loading", "sent"},
                                 id : Starts \cup {0}]]
      BY DEF Tasks, Procs
    <2>4. {pendingStop, raced} \subseteq BOOLEAN /\ timer \in BOOLEAN
      OBVIOUS
    <2>5. /\ status \in {"Disabled", "Loading", "Running", "Error"} /\ stopping \subseteq Starts
          /\ decision \in Options \cup {Off}
          /\ down \in {"none", "refused", "flapped", "exhausted", "unrestarted", "swallowed"}
      OBVIOUS
    <2> HIDE DEF Init, SidecarInit, NoTask, NoLoop
    <2>6. QED
      BY <2>1, <2>2, <2>3, <2>4, <2>5 DEF Types, SidecarTypeOK, Tasks, Procs, Loops
  <1>2. Accounts /\ Supervised /\ LoopCurrent /\ Attended
    BY DEF Accounts, Supervised, Alive, LoopCurrent, Recovering, Attended
  <1>3. QED  BY <1>1, <1>2 DEF IInv

\* The invariant holds throughout.
LEMMA Invariance == Spec => []IInv
  <1>1. IInv /\ [Next]_vars => IInv'
    <2> SUFFICES ASSUME IInv, [Next]_vars PROVE IInv'  OBVIOUS
    <2>1. SidecarStep  BY NextIsSidecarStep
    <2>2. Accounts' /\ Supervised' /\ LoopCurrent' /\ Attended'
      BY <2>1, AccountsStep, SupervisedStep, LoopCurrentStep, AttendedStep
    <2>3. SidecarTypeOK'
      BY <2>1, <2>2, TypesStep DEF Accounts
    <2>4. Types'
      BY <2>3, TurnsStep DEF IInv
    <2>5. QED  BY <2>2, <2>4 DEF IInv
  <1>2. QED  BY <1>1, InitIInv, PTL DEF Spec

\* Whatever crashes, times out or is called: while no call came during another's
\* wait for a process to end, the processes that nobody is ending are at most
\* one, the supervised one, with the options of the last decision.
THEOREM OnlyDecided == Spec => []OnlyTheDecidedRunsUnraced
  <1>1. IInv => OnlyTheDecidedRunsUnraced
    BY Flat DEF IInv, Supervised, Alive, OnlyTheDecidedRunsUnraced, OnlyTheDecidedRuns
  <1>2. QED  BY <1>1, Invariance, PTL

\* Once no call is under way, Running means that the supervised process runs,
\* and Disabled that none does.
THEOREM StatusIsHonest == Spec => []StatusHonest
  <1>1. IInv => StatusHonest
    BY Flat DEF IInv, Types, Supervised, Alive, StatusHonest
  <1>2. QED  BY <1>1, Invariance, PTL

\* A sidecar that should run is up, being started or recovered, or its end was
\* announced.
THEOREM AlwaysAttended == Spec => []NeverUnattended
  <1>1. IInv => NeverUnattended
    <2> SUFFICES ASSUME IInv, ~raced, decision # Off PROVE NeverUnattended
      BY DEF NeverUnattended
    <2>1. active # 0 => proc[active] # "gone"
      BY DEF IInv, Supervised
    <2>2. down \in {"none", "refused", "flapped", "exhausted", "unrestarted", "swallowed"}
      BY DEF IInv, Types, SidecarTypeOK
    <2>3. QED  BY <2>1, <2>2 DEF IInv, Attended, Recovering, NeverUnattended
  <1>2. QED  BY <1>1, Invariance, PTL

\* A turn that ensureLoaded() waves through finds a supervised process, except
\* while a stop or restart still ends the old one.
THEOREM TurnsFindModel == Spec => TurnFindsModelSettled
  <1>1. IInv /\ [Next]_vars =>
          \A t \in Turns : Sends(t) => active # 0 \/ Awaiting \/ raced
    <2> SUFFICES ASSUME IInv, [Next]_vars, NEW t \in Turns, Sends(t), ~raced, ~Awaiting
                 PROVE  active # 0
      OBVIOUS
    <2>1. turn \in [Turns -> [stage : {"idle", "begun", "checking", "loading", "sent"},
                              id : Starts \cup {0}]]
      BY DEF IInv, Types
    <2>2. turn' # turn
      BY DEF Sends
    <2>3. PICK u \in Turns : /\ \E s : turn' = [turn EXCEPT ![u] = s]
                          /\ turn[u].stage = "begun" /\ Ensure(u)
      <3>1. ASSUME NEW u \in Turns,
                   BeginTurn(u) \/ EnsureMissing(u) \/ EnsureReturns(u) \/ EndTurn(u)
                     \/ \E o \in Options : EnsureStarts(u, o)
            PROVE  FALSE
        <4>1. turn[u].stage # "begun" \/ turn'[u].stage # "sent"
          BY <2>1, <3>1 DEF BeginTurn, EnsureMissing, EnsureReturns, EndTurn,
             EnsureStarts, At
        <4>2. u # t => turn'[t] = turn[t]
          BY <2>1, <3>1 DEF BeginTurn, EnsureMissing, EnsureReturns, EndTurn,
             EnsureStarts, At
        <4>3. QED  BY <4>1, <4>2 DEF Sends
      <3>2. \E u \in Turns : Ensure(u)
        BY <2>2, <3>1 DEF Next, vars, idleVars, Unload, Apply
      <3>3. QED  BY <3>2 DEF Ensure, At
    <2>4. t = u
      BY <2>1, <2>3 DEF Sends
    <2>5. status \in {"Running", "Loading"}
      BY <2>1, <2>3, <2>4 DEF Sends, Ensure, At
    <2>6. QED  BY <2>5 DEF IInv, Supervised
  <1>2. QED  BY <1>1, Invariance, PTL DEF Spec, TurnFindsModelSettled
=============================================================================
