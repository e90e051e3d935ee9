----------------------------- MODULE WorkerPool -----------------------------
(***************************************************************************)
(* The pool of warm tool workers (tomat-core/src/extensions/worker-pool.ts *)
(* and worker-handle.ts) and the calls in flight on them (worker-call.ts). *)
(* A worker is a subprocess that serves one tool; startCall() reuses the   *)
(* tool's worker, or makes room and spawns one.  Timers (boot, call, drain *)
(* and idle timeouts) fire whenever they are armed: no clock is modelled.  *)
(* The JavaScript event loop runs the promise callbacks of a boot before   *)
(* the next timer or I/O event: see Quiet.                                 *)
(***************************************************************************)
EXTENDS Integers, SequencesExt, FiniteSetsExt

CONSTANTS
    Calls,       \* calls of startCall()
    Tools,       \* worker keys: one per (extension, tool)
    ToolOf,      \* the tool each call is for
    MaxWarm,     \* maxWarmWorkers
    MaxUpsets,   \* bound: workers that exit by themselves, refreshPermissions() of a
                 \* tool, and permission prompts, together
    None

ASSUME WarmAssumption == IsFiniteSet(Calls) /\ MaxWarm \in Nat \ {0} /\ MaxUpsets \in Nat
ASSUME ToolAssumption == ToolOf \in [Calls -> Tools]

\* Each call spawns one worker at the most.
Workers == 1..Cardinality(Calls)

VARIABLES
    workers,     \* the Map: tool -> worker
    lru,         \* its keys, least recently used first
    idleTimers,  \* tool -> the worker its armed timer will terminate
    inFlight,    \* inFlightCalls of each worker
    spawned,     \* workers spawned so far: their ids are 1..spawned
    tool,        \* the tool of each of them
    proc,        \* "none", "booting", "up", "exiting" (terminate called), "dead"
    booted,      \* has the "booted" frame arrived?
    paused,      \* workers whose isolate waits at a permission prompt
    answered,    \* workers with promptAnsweredByUser
    phase,       \* of a call: see Phases
    on,          \* its worker
    cancelled,   \* cancel() was called ...
    drain,       \* ... and its drain timer is armed
    asking,      \* calls that wait on the user for a permission prompt
    armed,       \* calls whose CallTimeout holds a timer
    stray,       \* ... and has a second one pending, which it lost when armed again
    spent,       \* ... and has no budget left
    answering,   \* paused workers that are being written the user's answer
    refreshing,  \* tool -> the worker whose terminate() refreshPermissions awaits
    refreshes, crashes, prompts

poolVars == <<workers, lru, idleTimers, inFlight>>
promptVars == <<paused, answering, answered>>
procVars == <<spawned, tool, proc, booted, promptVars>>
timerVars == <<armed, stray, spent>>
callVars == <<phase, on, cancelled, drain, asking, timerVars>>
boundVars == <<refreshes, crashes, prompts>>
Upsets == refreshes + crashes + prompts
vars == <<poolVars, procVars, callVars, refreshing, boundVars>>

\* "refused": cancelled before boot, done is rejected but the call not settled;
\* "drained": settled by the drain timer with its boot wait still open.
Phases == {"idle", "booting", "running", "refused", "drained", "done"}
\* Its done promise has settled.
Ended(c) == phase[c] \in {"refused", "drained", "done"}

Alive(w) == proc[w] \in {"booting", "up", "exiting"}
\* The calls a worker's inFlightCalls is meant to count.
Running(w) == {c \in Calls : phase[c] = "running" /\ on[c] = w}

\* No onBoot() is due: timers and I/O events may run.
Quiet == \A c \in Calls : phase[c] \in {"booting", "drained"} => ~booted[on[c]]

Init ==
    /\ workers = [t \in {} |-> 0] /\ lru = <<>> /\ idleTimers = [t \in {} |-> 0]
    /\ inFlight = [w \in Workers |-> 0]
    /\ spawned = 0
    /\ tool = [w \in Workers |-> None]
    /\ proc = [w \in Workers |-> "none"] /\ booted = [w \in Workers |-> FALSE]
    /\ paused = {} /\ answering = {} /\ answered = {} /\ asking = {}
    /\ armed = {} /\ stray = {} /\ spent = {}
    /\ phase = [c \in Calls |-> "idle"] /\ on = [c \in Calls |-> 0]
    /\ cancelled = {} /\ drain = {}
    /\ refreshing = [t \in {} |-> 0]
    /\ refreshes = 0 /\ crashes = 0 /\ prompts = 0

-----------------------------------------------------------------------------
(* The Maps                                                                *)

Without(f, T) == [s \in DOMAIN f \ T |-> f[s]]
With(f, t, w) == [s \in DOMAIN f \cup {t} |-> IF s = t THEN w ELSE f[s]]

\* removeFromLru() of every tool in T.
Untouched(l, T) ==
    LET kept[i \in 0..Len(l)] == IF i = 0 THEN <<>>
                                 ELSE IF l[i] \in T THEN kept[i - 1]
                                 ELSE Append(kept[i - 1], l[i])
    IN  kept[Len(l)]

\* terminate(): a live process is told to exit.
Terminated(p, w) == IF p[w] \in {"booting", "up"} THEN [p EXCEPT ![w] = "exiting"] ELSE p

\* Mutant: the idle timers stay armed.
ForgetKeepsTimer(T) ==
    /\ workers' = Without(workers, T)
    /\ lru' = Untouched(lru, T)
    /\ UNCHANGED idleTimers

\* The pool forgets the tools in T.
Forget(T) ==
    /\ workers' = Without(workers, T)
    /\ lru' = Untouched(lru, T)
    /\ idleTimers' = Without(idleTimers, T)

\* killWorker() forgets its key, unless a replacement has taken it.
Killed(t, w) == {s \in {t} \cap DOMAIN workers : workers[s] = w}

\* bumpIdleTimer(): re-arm for the key's current worker, if that is idle.
BumpIdleTimer(t, counts) ==
    idleTimers' = IF t \in DOMAIN workers /\ counts[workers[t]] = 0
                  THEN With(idleTimers, t, workers[t])
                  ELSE Without(idleTimers, {t})

-----------------------------------------------------------------------------
(* startCall()                                                             *)

\* The call latches on to worker w and waits for it to boot.
Attach(c, w) ==
    /\ phase' = [phase EXCEPT ![c] = "booting"]
    /\ on' = [on EXCEPT ![c] = w]
    /\ UNCHANGED <<cancelled, drain, asking, timerVars, refreshing, boundVars,
                   inFlight, booted, promptVars>>

Reuse(c) ==
    LET t == ToolOf[c] IN
    /\ phase[c] = "idle"
    /\ t \in DOMAIN workers
    /\ lru' = Append(Untouched(lru, {t}), t)
    /\ Attach(c, workers[t])
    /\ UNCHANGED <<workers, idleTimers, spawned, tool, proc>>

\* The positions evictLeastRecent() may take: "In-flight workers are skipped".
Evictable == {i \in 1..Len(lru) : inFlight[workers[lru[i]]] = 0}

\* Spawn a worker for c, the tools in gone having made room.
SpawnWorker(c, gone) ==
    LET t == ToolOf[c]
        w == spawned + 1
    IN  /\ workers' = With(Without(workers, gone), t, w)
        /\ lru' = Append(Untouched(lru, gone), t)
        /\ idleTimers' = Without(idleTimers, gone)
        /\ spawned' = w
        /\ tool' = [tool EXCEPT ![w] = t]
        /\ proc' = [v \in Workers |-> IF v = w THEN "booting"
                                      ELSE IF \E s \in gone : workers[s] = v
                                      THEN Terminated(proc, v)[v] ELSE proc[v]]
        /\ Attach(c, w)

MustSpawn(c) == phase[c] = "idle" /\ ToolOf[c] \notin DOMAIN workers

Spawn(c) ==
    /\ MustSpawn(c)
    /\ Cardinality(DOMAIN workers) < MaxWarm
    /\ SpawnWorker(c, {})

\* Mutant: when nothing can be evicted, spawn all the same.
EvictOrExceed(c) ==
    /\ MustSpawn(c)
    /\ Cardinality(DOMAIN workers) >= MaxWarm
    /\ SpawnWorker(c, IF Evictable = {} THEN {} ELSE {lru[Min(Evictable)]})

EvictAndSpawn(c) ==
    /\ MustSpawn(c)
    /\ Cardinality(DOMAIN workers) >= MaxWarm
    /\ Evictable # {}
    /\ SpawnWorker(c, {lru[Min(Evictable)]})

\* server_busy: every warm worker is in use.
RefuseBusy(c) ==
    /\ MustSpawn(c)
    /\ Cardinality(DOMAIN workers) >= MaxWarm
    /\ Evictable = {}
    /\ phase' = [phase EXCEPT ![c] = "done"]
    /\ UNCHANGED <<poolVars, procVars, on, cancelled, drain, asking, timerVars, refreshing,
                   boundVars>>

-----------------------------------------------------------------------------
(* The call                                                                *)

\* arm(): nothing once the budget is spent.  A timer that is armed already is
\* not cleared: the handle is overwritten, and it fires all the same.
Arm(c) ==
    /\ stray' = stray \cup ({c} \cap armed)
    /\ armed' = armed \cup ({c} \ spent)
    /\ UNCHANGED spent

\* disarm(): the last that is asked of the budget.
Disarm(C) == armed' = armed \ C /\ spent' = spent \ C /\ UNCHANGED stray

\* onBoot(): the worker has booted (long ago, when it is reused).
OnBoot(c) ==
    LET w == on[c] IN
    /\ phase[c] \in {"booting", "drained"} /\ booted[w]
    /\ \/ /\ c \in cancelled
          /\ phase' = [phase EXCEPT ![c] = IF @ = "drained" THEN "done" ELSE "refused"]
          /\ UNCHANGED <<poolVars, timerVars>>
       \/ /\ c \notin cancelled
          /\ phase' = [phase EXCEPT ![c] = "running"]
          /\ inFlight' = [inFlight EXCEPT ![w] = @ + 1]
          /\ idleTimers' = Without(idleTimers, {ToolOf[c]})
          /\ Arm(c)
          /\ UNCHANGED <<workers, lru>>
    /\ UNCHANGED <<procVars, on, cancelled, drain, asking, refreshing, boundVars>>

\* The calls in C settle: done resolves or rejects, listener off.
Settle(C, p) ==
    /\ phase' = [c \in Calls |-> IF c \in C THEN p ELSE phase[c]]
    /\ drain' = drain \ C
    /\ cancelled' = IF p = "done" THEN cancelled \ C ELSE cancelled  \* moot
    /\ UNCHANGED <<on, asking>>

Fewer(w, n) == [inFlight EXCEPT ![w] = IF @ > n THEN @ - n ELSE 0]

\* onBootFail(): boot_failed, the exit of the process, or ten seconds.  It
\* does not ask whether the drain timer has settled the call, and disarms nothing.
BootFails(c) ==
    /\ Quiet
    /\ phase[c] \in {"booting", "drained"} /\ ~booted[on[c]]
    /\ inFlight' = Fewer(on[c], 1)
    /\ BumpIdleTimer(ToolOf[c], inFlight')
    /\ Settle({c}, "done")
    /\ UNCHANGED <<workers, lru, procVars, timerVars, refreshing, boundVars>>

\* tool_result or tool_error; the late one of a cancelled call included.
Answer(c) ==
    LET w == on[c]
        t == ToolOf[c]
    IN  /\ Quiet
        /\ phase[c] = "running" /\ Alive(w) /\ w \notin paused
        /\ inFlight' = [inFlight EXCEPT ![w] = @ - 1]
        /\ Settle({c}, "done") /\ Disarm({c})
        /\ \/ /\ w \in answered  \* retire
              /\ Forget(Killed(t, w))
              /\ proc' = Terminated(proc, w)
           \/ /\ w \notin answered
              /\ BumpIdleTimer(t, inFlight')
              /\ UNCHANGED <<workers, lru, proc>>
        /\ UNCHANGED <<spawned, tool, booted, promptVars, refreshing, boundVars>>

\* Mutant: the worker is terminated but stays in the pool.
KillStaysPooled(c) ==
    /\ Quiet
    /\ inFlight' = Fewer(on[c], 1)
    /\ proc' = Terminated(proc, on[c])
    /\ Settle({c}, IF phase[c] = "booting" THEN "drained" ELSE "done")
    /\ UNCHANGED <<workers, lru, idleTimers, spawned, tool, booted, promptVars, refreshing,
                   boundVars>>

\* Mutant: the worker is dropped from the pool but left running.
KillDropsOnly(c) ==
    /\ Quiet
    /\ inFlight' = Fewer(on[c], 1)
    /\ Forget(Killed(ToolOf[c], on[c]))
    /\ Settle({c}, IF phase[c] = "booting" THEN "drained" ELSE "done")
    /\ UNCHANGED <<spawned, tool, proc, booted, promptVars, refreshing, boundVars>>

\* onKilled(): one call fewer, and the worker is killed.
Kill(c) ==
    /\ Quiet
    /\ inFlight' = Fewer(on[c], 1)
    /\ Forget(Killed(ToolOf[c], on[c]))
    /\ proc' = Terminated(proc, on[c])
    /\ Settle({c}, IF phase[c] = "booting" THEN "drained" ELSE "done")
    /\ UNCHANGED <<spawned, tool, booted, promptVars, refreshing, boundVars>>

\* One of the call's timers is gone; its callback drops the handle, whichever
\* timer that is for.
Fired(c) ==
    /\ armed' = armed \ {c}
    /\ stray' = (stray \ {c}) \cup ({c} \cap armed \cap stray)
    /\ UNCHANGED spent

\* Mutant: nothing to do for a call whose worker is already dead.
TimerOfTheLiving(c) ==
    /\ c \in armed \cup stray /\ phase[c] \in {"running", "done"}
    /\ Alive(on[c]) /\ c \notin asking
    /\ Fired(c) /\ Kill(c)

\* The budget runs out, which kills the call, unless the user is being asked.  A
\* boot is over long before; the call may have settled, which is not looked at.
TimerFires(c) ==
    /\ c \in armed \cup stray /\ phase[c] \in {"running", "done"}
    /\ Fired(c)
    /\ IF c \in asking
       THEN Quiet /\ UNCHANGED <<poolVars, procVars, phase, on, cancelled, drain, asking,
                                 refreshing, boundVars>>
       ELSE Kill(c)

Cancel(c) ==
    /\ phase[c] \in {"booting", "running"} /\ c \notin cancelled
    /\ cancelled' = cancelled \cup {c}
    /\ drain' = drain \cup {c}
    /\ Disarm({c})
    /\ UNCHANGED <<poolVars, procVars, phase, on, asking, refreshing, boundVars>>

\* The grace window of a cancel closes on a call that is not settled.
DrainTimer(c) ==
    /\ c \in drain
    /\ Kill(c)
    /\ UNCHANGED timerVars

\* The user answers the prompt: the budget resumes, and the worker is written the
\* answer, but terminate() has dropped the prompt of one that was told to exit.
PromptAnswered(c) ==
    /\ Quiet
    /\ c \in asking /\ ~Ended(c)
    /\ asking' = asking \ {c}
    /\ IF c \in cancelled \cup armed THEN UNCHANGED timerVars ELSE Arm(c)
    /\ answering' = answering \cup ({on[c]} \cap {w \in paused : proc[w] \in {"booting", "up"}})
    /\ UNCHANGED <<poolVars, spawned, tool, proc, booted, paused, answered, phase, on, cancelled,
                   drain, refreshing, boundVars>>

-----------------------------------------------------------------------------
(* The worker process                                                      *)

Boots(w) ==
    /\ Quiet
    /\ proc[w] \in {"booting", "exiting"} /\ ~booted[w] /\ w \notin paused
    /\ booted' = [booted EXCEPT ![w] = TRUE]
    /\ proc' = [proc EXCEPT ![w] = IF @ = "booting" THEN "up" ELSE @]
    /\ UNCHANGED <<poolVars, spawned, tool, promptVars, callVars, refreshing, boundVars>>

\* The calls that listen to w.
Hearing(w) == {c \in Calls : on[c] = w /\ phase[c] \in {"booting", "running"}}

\* A permission prompt, forwarded to every call that listens when inFlightCalls
\* says that there is one at most; each pauses its budget, of which nothing may
\* be left.
PromptOpens(w) ==
    /\ Quiet
    /\ proc[w] \in {"booting", "up"} /\ w \notin paused
    /\ inFlight[w] <= 1
    /\ Upsets < MaxUpsets /\ prompts' = prompts + 1
    /\ paused' = paused \cup {w}
    /\ asking' = asking \cup Hearing(w)
    /\ armed' = armed \ Hearing(w)
    /\ \E late \in SUBSET (armed \cap Hearing(w)) : spent' = spent \cup late
    /\ UNCHANGED <<poolVars, spawned, tool, proc, booted, answering, answered, phase, on,
                   cancelled, drain, stray, refreshing, refreshes, crashes>>

\* Deno confirms the answer, and the worker goes on.
PromptSettles(w) ==
    /\ Quiet
    /\ w \in answering /\ Alive(w)
    /\ paused' = paused \ {w} /\ answering' = answering \ {w}
    /\ answered' = answered \cup {w}
    /\ UNCHANGED <<poolVars, spawned, tool, proc, booted, callVars, refreshing, boundVars>>

\* It does not within ANSWER_GIVEUP_MS: the process is killed, and stays pooled.
AnswerGivesUp(w) ==
    /\ Quiet
    /\ w \in answering /\ proc[w] \in {"booting", "up"}
    /\ proc' = [proc EXCEPT ![w] = "exiting"]
    /\ answering' = answering \ {w}
    /\ UNCHANGED <<poolVars, spawned, tool, booted, paused, answered, callVars, refreshing,
                   boundVars>>

\* worker_exited settles every started call of w, each of which kills what is
\* left of w; a refreshPermissions() that waits for w forgets its key, whoever
\* holds that by now.  A worker that nobody uses stays in the pool.
Exits(w) ==
    LET awaited == {t \in DOMAIN refreshing : refreshing[t] = w}
        killed == IF Running(w) = {} THEN {} ELSE Killed(tool[w], w)
    IN  /\ Quiet
        /\ \/ proc[w] = "exiting" /\ UNCHANGED crashes
           \/ proc[w] \in {"booting", "up"} /\ Upsets < MaxUpsets /\ crashes' = crashes + 1
        /\ proc' = [proc EXCEPT ![w] = "dead"]
        /\ inFlight' = Fewer(w, Cardinality(Running(w)))
        /\ Settle(Running(w), "done") /\ Disarm(Running(w))
        /\ Forget(killed \cup awaited)
        /\ refreshing' = Without(refreshing, awaited)
        /\ paused' = paused \ {w} /\ answering' = answering \ {w}
        /\ answered' = answered \ {w}  \* moot, all three
        /\ UNCHANGED <<spawned, tool, booted, refreshes, prompts>>

-----------------------------------------------------------------------------
(* Idle eviction and refreshPermissions()                                  *)

IdleEvict(t) ==
    /\ Quiet
    /\ t \in DOMAIN idleTimers
    /\ proc' = Terminated(proc, idleTimers[t])
    /\ Forget({t})
    /\ UNCHANGED <<inFlight, spawned, tool, booted, promptVars, callVars, refreshing, boundVars>>

\* For one key: terminate its worker, and await its exit.
Refresh(t) ==
    /\ Upsets < MaxUpsets /\ refreshes' = refreshes + 1
    /\ t \in DOMAIN workers /\ t \notin DOMAIN refreshing
    /\ proc' = Terminated(proc, workers[t])
    /\ IF proc[workers[t]] = "dead"
       THEN Forget({t}) /\ UNCHANGED refreshing
       ELSE refreshing' = With(refreshing, t, workers[t]) /\ UNCHANGED <<workers, lru, idleTimers>>
    /\ UNCHANGED <<inFlight, spawned, tool, booted, promptVars, callVars, crashes, prompts>>

-----------------------------------------------------------------------------

CallStep(c) ==
    \/ Reuse(c) \/ Spawn(c) \/ EvictAndSpawn(c) \/ RefuseBusy(c)
    \/ OnBoot(c) \/ BootFails(c) \/ Answer(c) \/ TimerFires(c)
    \/ Cancel(c) \/ DrainTimer(c) \/ PromptAnswered(c)

WorkerStep(w) ==
    \/ Boots(w) \/ PromptOpens(w) \/ PromptSettles(w) \/ AnswerGivesUp(w)
    \/ Exits(w)

Next ==
    \/ \E c \in Calls : CallStep(c)
    \/ \E w \in 1..spawned : WorkerStep(w)
    \/ \E t \in Tools : IdleEvict(t) \/ Refresh(t)

Spec == Init /\ [][Next]_vars

\* A waiting call gets its boot or the boot timeout, and armed timers fire.
Due(c) == OnBoot(c) \/ BootFails(c) \/ TimerFires(c) \/ DrainTimer(c)

\* Nobody has to answer a prompt, no tool has to return, no process to exit.
FairSpec == Spec /\ \A c \in Calls : WF_vars(Due(c))

-----------------------------------------------------------------------------
(* Properties                                                              *)

TypeOK ==
    /\ DOMAIN workers \subseteq Tools /\ \A t \in DOMAIN workers : workers[t] \in 1..spawned
    /\ ToSet(lru) \subseteq Tools
    /\ DOMAIN idleTimers \subseteq Tools
    /\ \A t \in DOMAIN idleTimers : idleTimers[t] \in 1..spawned
    /\ inFlight \in [Workers -> Int]
    /\ spawned \in 0..Cardinality(Calls)
    /\ proc \in [Workers -> {"none", "booting", "up", "exiting", "dead"}]
    /\ paused \cup answered \subseteq 1..spawned /\ answering \subseteq paused
    /\ asking \cup armed \cup spent \subseteq Calls /\ stray \subseteq Calls
    /\ phase \in [Calls -> Phases] /\ on \in [Calls -> 0..spawned]
    /\ drain \subseteq cancelled

\* The three Maps agree with each other and with the calls: the LRU order holds
\* exactly the keys of the pool, each once, and a timer is armed only for the
\* worker the key stands for now, and never while a started call runs on it
\* (idle eviction terminates no tool at work).
MapsAgree ==
    /\ TypeOK
    /\ ToSet(lru) = DOMAIN workers /\ IsInjective(lru)
    /\ \A t \in DOMAIN idleTimers :
         /\ t \in DOMAIN workers /\ idleTimers[t] = workers[t]
         /\ Running(idleTimers[t]) = {}

\* The pool never holds more than maxWarmWorkers workers, nor a worker under
\* another tool's key.
WarmBounded ==
    /\ Cardinality(DOMAIN workers) <= MaxWarm
    /\ \A t \in DOMAIN workers : tool[workers[t]] = t

\* inFlightCalls is the number of started calls ("`worker.inFlightCalls` is
\* decremented from exactly one place per settle", worker-pool.ts:54-56), at
\* least for every worker that another call can be given.
PooledCountAccurate ==
    \A t \in DOMAIN workers : inFlight[workers[t]] = Cardinality(Running(workers[t]))

\* A live process is in the pool, or on its way out.  One that is neither is never
\* terminated: its idle timer is found by the key, and so is it by shutdown().
NoOrphan == \A w \in 1..spawned : proc[w] \in {"booting", "up"} =>
                \E t \in DOMAIN workers : workers[t] = w

\* While no permissions are refreshed, every path that drops a worker from the
\* pool terminates it.
NoOrphanUnrefreshed == refreshes = 0 => NoOrphan

\* A call that does not wait on the user, and whose budget no prompt has used up
\* to the last, settles or turns to the user, whatever its worker does: it may
\* hang, fail to boot, or have died while it was idle.
EveryCallEnds == \A c \in Calls :
    (phase[c] \in {"booting", "running"} /\ c \notin asking \cup spent)
        ~> (Ended(c) \/ c \in asking \cup spent)
=============================================================================
