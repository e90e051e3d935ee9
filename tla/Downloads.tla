------------------------------ MODULE Downloads ------------------------------
(***************************************************************************)
(* The download manager (downloads/manager.ts, its store, its transfer and *)
(* the semaphore): one row and at most one spawn() per file, one permit    *)
(* for all of them, callers that wait for a file, and a user who cancels,  *)
(* retries and removes.  Rows outlive core; everything else is memory.     *)
(*                                                                         *)
(* Sidecar binaries, which another manager finishes after a restart, are   *)
(* left out, and so is the content of a partial file.                      *)
(***************************************************************************)
EXTENDS Naturals, Sequences, FiniteSets

CONSTANTS
    Files,      \* what can be downloaded: one id, one path
    Callers,    \* enqueue() calls
    None,       \* nobody holds the permit
    Pause,      \* the permit is kept for INTER_DOWNLOAD_DELAY_MS
    Lost,       \* spawn() threw and never gave the permit back
    MaxActs,    \* bound: cancel, retry and remove calls
    MaxFaults   \* bound: failed transfers, store errors, dead peers, crashes

ASSUME DownloadsAssumption ==
    /\ IsFiniteSet(Files)
    /\ Files \cap {None, Pause, Lost} = {} /\ Cardinality({None, Pause, Lost}) = 3
    /\ MaxActs \in Nat /\ MaxFaults \in Nat

VARIABLES
    row,       \* status in the downloads table, "none" without a row
    onDisk,    \* the file is there
    inFlight,  \* the inFlight entry: none, live, or aborted
    worker,    \* where spawn() is
    resumed,   \* the workers that resumePending() started
    permit,    \* who holds the semaphore: a file, Pause, Lost or None
    waiters,   \* its queue
    stranded,  \* rows that a retry() which threw left Pending
    check,     \* a Completed row in reconcileCompleted(): listed, found missing
    call,      \* enqueue() of each caller: its file, and how far it is
    up,        \* core runs
    acts, faults

workVars == <<inFlight, worker, resumed, permit, waiters>>
vars == <<row, onDisk, workVars, stranded, check, call, up, acts, faults>>

NoCall(f) == [pc |-> "none", file |-> f]

Init ==
    /\ row = [f \in Files |-> "none"] /\ onDisk = [f \in Files |-> FALSE]
    /\ inFlight = [f \in Files |-> "none"] /\ worker = [f \in Files |-> "none"]
    /\ permit = None /\ waiters = << >> /\ resumed = {} /\ stranded = {}
    /\ check = [f \in Files |-> "none"]
    /\ call \in [Callers -> {NoCall(f) : f \in Files}]
    /\ up = TRUE /\ acts = 0 /\ faults = 0

Fault == faults < MaxFaults /\ faults' = faults + 1
Works == UNCHANGED faults
Act == acts < MaxActs /\ acts' = acts + 1

Joined(f) == {c \in Callers : call[c].file = f /\ call[c].pc = "joined"}
Settle(cs) == call' = [c \in Callers |-> IF c \in cs THEN [call[c] EXCEPT !.pc = "settled"]
                                                     ELSE call[c]]
\* spawn() up to `await this.sem.acquire()`.
Acquire(f) ==
    IF permit = None
    THEN permit' = f /\ worker' = [worker EXCEPT ![f] = "granted"] /\ UNCHANGED waiters
    ELSE /\ waiters' = Append(waiters, f) /\ worker' = [worker EXCEPT ![f] = "queued"]
         /\ UNCHANGED permit

\* Hand the permit to the next waiter; "w" are the workers without this step's.
Release(w) ==
    IF waiters = << >> THEN permit' = None /\ worker' = w /\ UNCHANGED waiters
    ELSE /\ permit' = Head(waiters) /\ waiters' = Tail(waiters)
         /\ worker' = [w EXCEPT ![Head(waiters)] = "granted"]

\* setStatus(): an UPDATE, which does nothing when the row is gone.
SetStatus(f, status) == IF row[f] = "none" THEN row ELSE [row EXCEPT ![f] = status]

\* A write of the row, or the query of the broadcast behind it, throws inside
\* spawn(): nobody gives the permit back or tells the callers.  Only
\* resumePending() looks: it drops the entry and ends a row that has not ended.
Throws(f, status) ==
    /\ Fault /\ permit' = Lost
    /\ resumed' = resumed \ {f}
    /\ \E written \in {row, SetStatus(f, status)} :
         \/ /\ f \in resumed
            /\ row' = IF written[f] \in {"Pending", "Downloading"}
                      THEN [written EXCEPT ![f] = "Error"] ELSE written
            /\ inFlight' = [inFlight EXCEPT ![f] = "none"]
            /\ worker' = [worker EXCEPT ![f] = "none"]
         \/ /\ f \notin resumed
            /\ row' = written
            /\ worker' = [worker EXCEPT ![f] = "threw"]
            /\ UNCHANGED inFlight
    /\ UNCHANGED <<waiters, call>>

-----------------------------------------------------------------------------
(* enqueue, cancel, retry, remove                                          *)

\* alreadyOnDisk() looks before the call goes on.
Enqueue(c) ==
    /\ up /\ call[c].pc = "none"
    /\ call' = [call EXCEPT ![c].pc = IF onDisk[call[c].file] THEN "there" ELSE "missing"]
    /\ UNCHANGED <<row, onDisk, workVars, stranded, check, up, acts, faults>>

\* The file is there; a store error, before or after the row is written, is the
\* caller's answer too.
EnqueueThere(c) ==
    LET f == call[c].file IN
    /\ up /\ call[c].pc = "there"
    /\ \/ Works /\ row' = [row EXCEPT ![f] = "Completed"]
       \/ Fault /\ row' \in {row, [row EXCEPT ![f] = "Completed"]}
    /\ stranded' = IF row' = row THEN stranded ELSE stranded \ {f}
    /\ Settle({c})
    /\ UNCHANGED <<onDisk, workVars, check, up, acts>>

\* Join the download in flight, or start one.  The entry is set before the row
\* is written and broadcast: when that throws, the caller is told and the entry
\* stays.
EnqueueMissing(c) ==
    LET f == call[c].file IN
    /\ up /\ call[c].pc = "missing"
    /\ \/ /\ inFlight[f] # "none" /\ Works
          /\ call' = [call EXCEPT ![c].pc = "joined"]
          /\ UNCHANGED <<row, inFlight, worker, permit, waiters, stranded>>
       \/ /\ inFlight[f] = "none"
          /\ inFlight' = [inFlight EXCEPT ![f] = "live"] /\ stranded' = stranded \ {f}
          /\ \/ /\ Works
                /\ row' = [row EXCEPT ![f] = "Pending"]
                /\ call' = [call EXCEPT ![c].pc = "joined"]
                /\ Acquire(f)
             \/ /\ Fault
                /\ row' \in {row, [row EXCEPT ![f] = "Pending"]}
                /\ worker' = [worker EXCEPT ![f] = "threw"]
                /\ Settle({c}) /\ UNCHANGED <<permit, waiters>>
    /\ UNCHANGED <<onDisk, resumed, check, up, acts>>

Cancel(f) ==
    /\ up /\ Act
    /\ \/ /\ inFlight[f] = "live" /\ inFlight' = [inFlight EXCEPT ![f] = "aborted"]
          /\ UNCHANGED <<row, stranded>>
       \/ /\ inFlight[f] = "none" /\ row[f] = "Pending"
          /\ row' = [row EXCEPT ![f] = "Cancelled"] /\ stranded' = stranded \ {f}
          /\ UNCHANGED inFlight
    /\ UNCHANGED <<onDisk, worker, resumed, permit, waiters, check, call, up, faults>>

\* The row is written and broadcast before the entry is set: when the broadcast
\* throws, the row stays Pending with nobody to work on it.
Retry(f) ==
    /\ up /\ Act
    /\ row[f] \in {"Completed", "Error", "Cancelled"} /\ inFlight[f] = "none"
    /\ row' = [row EXCEPT ![f] = "Pending"]
    /\ \/ /\ Works
          /\ inFlight' = [inFlight EXCEPT ![f] = "live"]
          /\ Acquire(f) /\ UNCHANGED stranded
       \/ /\ Fault
          /\ stranded' = stranded \cup {f} /\ UNCHANGED <<inFlight, worker, permit, waiters>>
    /\ UNCHANGED <<onDisk, resumed, check, call, up>>

Remove(f) ==
    /\ up /\ Act
    /\ row[f] # "none" /\ inFlight[f] = "none"
    /\ row' = [row EXCEPT ![f] = "none"] /\ stranded' = stranded \ {f}
    /\ UNCHANGED <<onDisk, workVars, check, call, up, faults>>

-----------------------------------------------------------------------------
(* spawn, once it has the permit                                           *)

\* Mutant: a download cancelled in the queue leaves its entry behind.
BeginLeaksEntry(f) ==
    /\ up /\ worker[f] = "granted"
    /\ \/ /\ inFlight[f] = "aborted" /\ Works
          /\ row' = SetStatus(f, "Cancelled")
          /\ Settle(Joined(f)) /\ Release([worker EXCEPT ![f] = "none"])
          /\ resumed' = resumed \ {f} /\ UNCHANGED inFlight
       \/ /\ inFlight[f] = "live" /\ Works
          /\ row' = SetStatus(f, "Downloading")
          /\ worker' = [worker EXCEPT ![f] = "asking"]
          /\ UNCHANGED <<inFlight, resumed, permit, waiters, call>>
    /\ UNCHANGED <<onDisk, stranded, check, up, acts>>

\* Cancelled while it waited (the last broadcast may throw, and the permit is
\* lost); or Downloading.
Begin(f) ==
    /\ up /\ worker[f] = "granted"
    /\ \/ /\ inFlight[f] = "aborted"
          /\ row' = SetStatus(f, "Cancelled")
          /\ inFlight' = [inFlight EXCEPT ![f] = "none"] /\ resumed' = resumed \ {f}
          /\ Settle(Joined(f))
          /\ \/ Works /\ Release([worker EXCEPT ![f] = "none"])
             \/ /\ Fault /\ permit' = Lost
                /\ worker' = [worker EXCEPT ![f] = "none"] /\ UNCHANGED waiters
       \/ /\ inFlight[f] = "live" /\ Works
          /\ row' = SetStatus(f, "Downloading")
          /\ worker' = [worker EXCEPT ![f] = "asking"]
          /\ UNCHANGED <<inFlight, resumed, permit, waiters, call>>
       \/ inFlight[f] = "aborted" /\ Throws(f, row[f])
       \/ inFlight[f] = "live" /\ Throws(f, "Downloading")
    /\ UNCHANGED <<onDisk, stranded, check, up, acts>>

\* resolveExpectedSha asks two hosts with no time limit of its own.  Only a cancel
\* ends a question to the second that is never answered; one to the first, for
\* the catalog, has no signal, and nothing ends it.
Ask(f) ==
    /\ up
    /\ \/ worker[f] = "asking" /\ worker' = [worker EXCEPT ![f] = "streaming"] /\ Works
       \/ /\ worker[f] = "asking" /\ Fault
          /\ \E silent \in {"unanswered", "deaf"} : worker' = [worker EXCEPT ![f] = silent]
       \/ /\ worker[f] = "unanswered" /\ inFlight[f] = "aborted" /\ Works
          /\ worker' = [worker EXCEPT ![f] = "streaming"]
    /\ UNCHANGED <<row, onDisk, inFlight, resumed, permit, waiters, stranded, check, call, up,
                   acts>>

\* Tell the callers, drop the entry, keep the permit a moment longer.
Finish(f) ==
    /\ Settle(Joined(f))
    /\ inFlight' = [inFlight EXCEPT ![f] = "none"]
    /\ worker' = [worker EXCEPT ![f] = "none"] /\ resumed' = resumed \ {f}
    /\ permit' = Pause

\* The file is at its place from here on.
Arrives(f) == onDisk' = [onDisk EXCEPT ![f] = TRUE]

\* The transfer ends: complete, failed or stalled, or stopped by a cancel.  A
\* cancel that comes after the last byte changes nothing; a store error after it
\* is a failure like another, though the file is there.
StreamEnds(f) ==
    /\ up /\ worker[f] = "streaming"
    /\ \/ Works /\ Arrives(f) /\ row' = SetStatus(f, "Completed") /\ Finish(f)
       \/ /\ inFlight[f] = "live" /\ Fault
          /\ (UNCHANGED onDisk \/ Arrives(f))
          /\ row' = SetStatus(f, "Error") /\ Finish(f)
       \/ /\ inFlight[f] = "aborted"
          /\ ((Works /\ UNCHANGED onDisk) \/ (Fault /\ Arrives(f)))
          /\ row' = SetStatus(f, "Cancelled")
          /\ worker' = [worker EXCEPT ![f] = "clearing"]
          /\ UNCHANGED <<inFlight, resumed, permit, call>>
       \/ Throws(f, "Completed") /\ Arrives(f)
       \/ /\ Throws(f, IF inFlight[f] = "live" THEN "Error" ELSE "Cancelled")
          /\ UNCHANGED onDisk
    /\ UNCHANGED <<waiters, stranded, check, up, acts>>

\* The partial file of a cancelled download is gone.
Cleared(f) ==
    /\ up /\ worker[f] = "clearing"
    /\ \/ Works /\ Finish(f) /\ UNCHANGED <<row, waiters>>
       \/ Throws(f, row[f])
    /\ UNCHANGED <<onDisk, stranded, check, up, acts>>

PauseEnds ==
    /\ up /\ permit = Pause
    /\ Release(worker)
    /\ UNCHANGED <<row, onDisk, inFlight, resumed, stranded, check, call, up, acts, faults>>

-----------------------------------------------------------------------------
(* The process and the file system                                         *)

Crash ==
    /\ up /\ Fault
    /\ up' = FALSE /\ permit' = None /\ waiters' = << >> /\ resumed' = {}
    /\ inFlight' = [f \in Files |-> "none"] /\ worker' = [f \in Files |-> "none"]
    /\ stranded' = {} /\ check' = [f \in Files |-> "none"]
    /\ Settle({c \in Callers : call[c].pc # "none"})
    /\ UNCHANGED <<row, onDisk, acts>>

\* The rows as normalizePersistedRows leaves them.
Normalized(f) ==
    CASE row[f] = "Downloading" -> "Pending"
      [] row[f] = "Completed" /\ ~onDisk[f] -> "none"
      [] OTHER -> row[f]

\* Mutant: a resumed row has no entry, so its spawn() returns at once.
RestartUnarmed ==
    /\ ~up /\ up' = TRUE
    /\ row' = [f \in Files |-> Normalized(f)]
    /\ UNCHANGED <<onDisk, workVars, stranded, check, call, acts, faults>>

\* The constructor and resumePending: each Pending row gets its worker.
Restart ==
    LET pending == {f \in Files : Normalized(f) = "Pending"} IN
    /\ ~up /\ up' = TRUE /\ resumed' = pending
    /\ row' = [f \in Files |-> Normalized(f)]
    /\ inFlight' = [f \in Files |-> IF f \in pending THEN "live" ELSE "none"]
    /\ \E order \in [1..Cardinality(pending) -> pending] :
          /\ \A f \in pending : \E i \in DOMAIN order : order[i] = f
          /\ IF pending = {} THEN UNCHANGED <<permit, waiters, worker>>
             ELSE /\ permit' = order[1] /\ waiters' = Tail(order)
                  /\ worker' = [f \in Files |-> IF f = order[1] THEN "granted"
                                                ELSE IF f \in pending THEN "queued" ELSE "none"]
    /\ UNCHANGED <<onDisk, stranded, check, call, acts, faults>>

\* Someone deletes a file.
FileDeleted(f) ==
    /\ onDisk[f] /\ Fault
    /\ onDisk' = [onDisk EXCEPT ![f] = FALSE]
    /\ UNCHANGED <<row, workVars, stranded, check, call, up, acts>>

\* reconcileCompleted lists the Completed rows, ...
ReconcileLists(f) ==
    /\ up /\ row[f] = "Completed" /\ check[f] = "none"
    /\ check' = [check EXCEPT ![f] = "listed"]
    /\ UNCHANGED <<row, onDisk, workVars, stranded, call, up, acts, faults>>

\* ... asks for the file of each, ...
ReconcileStats(f) ==
    /\ up /\ check[f] = "listed"
    /\ check' = [check EXCEPT ![f] = IF onDisk[f] THEN "none" ELSE "missing"]
    /\ UNCHANGED <<row, onDisk, workVars, stranded, call, up, acts, faults>>

\* ... and drops the row of one that is gone, whatever the row is by then.
ReconcileDrops(f) ==
    /\ up /\ check[f] = "missing"
    /\ check' = [check EXCEPT ![f] = "none"]
    /\ row' = [row EXCEPT ![f] = "none"] /\ stranded' = stranded \ {f}
    /\ UNCHANGED <<onDisk, workVars, call, up, acts, faults>>

Reconcile(f) == ReconcileLists(f) \/ ReconcileStats(f) \/ ReconcileDrops(f)

CallStep(c) == EnqueueThere(c) \/ EnqueueMissing(c)
Work(f) == Begin(f) \/ Ask(f) \/ StreamEnds(f) \/ Cleared(f)

Next ==
    \/ \E c \in Callers : Enqueue(c) \/ CallStep(c)
    \/ \E f \in Files : Cancel(f) \/ Retry(f) \/ Remove(f) \/ Work(f)
                        \/ FileDeleted(f) \/ Reconcile(f)
    \/ PauseEnds \/ Crash \/ Restart

\* Code that can run runs; a transfer ends, by its stall watchdog if need be.
Spec == Init /\ [][Next]_vars
        /\ \A c \in Callers : WF_vars(CallStep(c))
        /\ \A f \in Files : WF_vars(Work(f))
        /\ WF_vars(PauseEnds) /\ WF_vars(Restart)

-----------------------------------------------------------------------------
(* Properties                                                              *)

TypeOK ==
    /\ onDisk \in [Files -> BOOLEAN] /\ inFlight \in [Files -> {"none", "live", "aborted"}]
    /\ worker \in [Files -> {"none", "queued", "granted", "asking", "unanswered", "deaf",
                             "streaming", "clearing", "threw"}]
    /\ check \in [Files -> {"none", "listed", "missing"}] /\ stranded \subseteq Files
    /\ resumed \subseteq Files /\ permit \in Files \cup {None, Pause, Lost}
    /\ waiters \in Seq(Files)
    /\ \A c \in Callers : call[c].file \in Files
                          /\ call[c].pc \in {"none", "there", "missing", "joined", "settled"}

\* A store error left a worker's entry or the permit behind, or a host never
\* answers the download in hand: the queue stands until core restarts, or until
\* the user cancels a question that hears it.
Stuck == permit = Lost \/ \E f \in Files : worker[f] \in {"threw", "unanswered", "deaf"}

\* Every non-terminal row has a live worker: one that holds the permit, or one
\* in line for it behind a holder, each once, unless a store error took it, or
\* kept a retry from starting it.
LiveWorker ==
    /\ TypeOK
    /\ up => \A f \in Files \ stranded :
        row[f] \in {"Pending", "Downloading"} =>
            /\ inFlight[f] # "none"
            /\ CASE worker[f] = "queued" ->
                      permit # None /\ Cardinality({i \in DOMAIN waiters : waiters[i] = f}) = 1
                 [] worker[f] = "none" -> FALSE
                 [] worker[f] = "threw" -> TRUE
                 [] OTHER -> permit = f

\* Whoever waits for a file hears of it, however often the download is
\* cancelled and retried by others, unless the queue is stuck.
CallersAnswered ==
    \A c \in Callers : (call[c].pc = "joined") ~> (call[c].pc # "joined" \/ Stuck)

=============================================================================
