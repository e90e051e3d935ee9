-------------------------- MODULE PromptScheduler --------------------------
(***************************************************************************)
(* Scheduled prompts (services/prompt-scheduler.ts): rows in SQLite and    *)
(* one timer armed at the soonest of them.  A tick takes the rows that are *)
(* due, waits while the local model loads, then fires them one by one; the *)
(* user edits rows, the machine sleeps and core dies in between.           *)
(*                                                                         *)
(* Time is a counter.  JavaScript runs to completion, so only a crash      *)
(* comes between two steps of a tick that are not divided by an await.     *)
(* Reads and writes of the table may throw, and each that does is counted. *)
(***************************************************************************)
EXTENDS Integers, FiniteSets, FiniteSetsExt

CONSTANTS
    Prompts,   \* scheduled_prompts rows
    Specs,     \* schedules a user may choose: kind and time
    Grace,     \* MISSED_GRACE_MS
    Retry,     \* SIDECAR_RETRY_MS
    MaxArm,    \* MAX_ARM_MS
    Never,     \* no next occurrence, no timer
    Lost,      \* no timer either: arm() threw after it had cleared the old one
    MaxTime,   \* bound: the clock; at the bound every timer is due
    MaxEdits,  \* bound: create, update and delete calls
    MaxFaults  \* bound: crashes, failed checks and queries, damaged rows

ASSUME SchedulerAssumption ==
    /\ Specs # {}
    /\ \A s \in Specs : s.kind \in {"once", "interval", "calendar"} /\ s.at \in Nat \ {0}
    /\ Grace \in Nat /\ Retry \in Nat \ {0} /\ MaxArm \in Nat \ {0} /\ MaxTime \in Nat
    /\ Never \notin Int /\ Lost \notin Int /\ Never # Lost

VARIABLES
    now,      \* Date.now()
    row,      \* the table; "absent": no such row
    up,       \* core runs and start() was called
    timer,    \* when the armed timer fires, or Never, or Lost
    tick,     \* the running tick: pc, its now, the snapshots left, the row in hand
    fired,    \* history: the sessions each occurrence of each row has opened
    edits, faults

vars == <<now, row, up, timer, tick, fired, edits, faults>>

\* json: a schedule, one that does not parse, or one that does and is none.
Absent == [state |-> "absent", spec |-> CHOOSE s \in Specs : TRUE, missed |-> FALSE,
           next |-> Never, json |-> "good"]
Row(s, state, missed, next, json) ==
    [state |-> state, spec |-> s, missed |-> missed, next |-> next, json |-> json]
Idle == [pc |-> "idle", now |-> 0, due |-> {}, prompt |-> CHOOSE p \in Prompts : TRUE,
         next |-> Never]

-----------------------------------------------------------------------------
(* Arming                                                                  *)

\* nextOccurrence; weekly, monthly and yearly times are multiples of a period.
Next1(s, after) ==
    CASE s.kind = "once"     -> IF s.at > after THEN s.at ELSE Never
      [] s.kind = "interval" -> after + s.at
      [] s.kind = "calendar" -> ((after \div s.at) + 1) * s.at

Armed(table) == {p \in Prompts : table[p].state = "enabled" /\ table[p].next # Never}
DueAt(table, t) == {p \in Armed(table) : table[p].next <= t}

Larger(a, b) == IF a > b THEN a ELSE b
Smaller(a, b) == IF a < b THEN a ELSE b

Costs(n) == faults + n <= MaxFaults /\ faults' = faults + n
Fault == Costs(1)

\* arm(): at the soonest row, at once when it is overdue, at the latest MaxArm on;
\* n operations have failed before.  When its query throws the old timer is gone.
Arm(table, n) ==
    \/ /\ Costs(n)
       /\ timer' = IF Armed(table) = {} THEN Never
                   ELSE LET soonest == Min({table[p].next : p \in Armed(table)}) IN
                        Smaller(Larger(soonest, now), now + MaxArm)
    \/ Costs(n + 1) /\ timer' = Lost

Init ==
    /\ now = 0 /\ up = TRUE /\ timer = Never
    /\ row = [p \in Prompts |-> Absent] /\ tick = Idle
    /\ fired = [p \in Prompts |-> [t \in 0..MaxTime |-> 0]]
    /\ edits = 0 /\ faults = 0

\* Handlers run only while a tick awaits.
AtAwait == up /\ tick.pc \in {"idle", "loading", "fire", "opened"}

-----------------------------------------------------------------------------
(* create, update, delete                                                  *)

Save(p, r) ==
    /\ edits < MaxEdits /\ edits' = edits + 1
    /\ row' = [row EXCEPT ![p] = r]
    /\ Arm(row', 0)
    /\ UNCHANGED <<now, up, tick>>

Create(p, s, missed) ==
    /\ AtAwait /\ row[p].state = "absent" /\ Next1(s, now) # Never
    /\ Save(p, Row(s, "enabled", missed, Next1(s, now), "good"))
    /\ fired' = [fired EXCEPT ![p] = [t \in 0..MaxTime |-> 0]]

\* get() throws on a row that does not parse, so it is neither edited nor deleted.
\* The occurrence stays unless the patch names a schedule, the same or another,
\* or enables the row; what is no schedule then has to be replaced.
Update(p, s, patched, state, missed) ==
    LET derive == patched \/ row[p].state = "disabled"
        json == IF patched THEN "good" ELSE row[p].json
        next == IF state = "disabled" THEN Never
                ELSE IF derive THEN Next1(s, now) ELSE row[p].next IN
    /\ AtAwait /\ row[p].state # "absent" /\ row[p].json # "unparsable"
    /\ patched \/ s = row[p].spec
    /\ state = "enabled" /\ derive => next # Never /\ json = "good"
    /\ Save(p, Row(s, state, missed, next, json))
    /\ UNCHANGED fired

Delete(p) ==
    /\ AtAwait /\ row[p].state # "absent" /\ row[p].json # "unparsable"
    /\ Save(p, Absent) /\ UNCHANGED fired

-----------------------------------------------------------------------------
(* tick                                                                    *)

\* The finally block: re-arm from the rows; n operations of the tick have failed.
Done(table, n) == tick' = Idle /\ Arm(table, n)

\* A timer that fires during a tick is lost; that tick re-arms when it ends.  The
\* query for what is due may throw.
TimerFires ==
    LET due == DueAt(row, now) IN
    /\ AtAwait /\ timer \notin {Never, Lost} /\ (now >= timer \/ now = MaxTime)
    /\ \/ tick.pc # "idle" /\ timer' = Never /\ UNCHANGED <<tick, faults>>
       \/ tick.pc = "idle" /\ due = {} /\ Done(row, 0)
       \/ tick.pc = "idle" /\ Done(row, 1)
       \/ /\ tick.pc = "idle" /\ due # {} /\ timer' = Never
          /\ tick' = [tick EXCEPT !.pc = "loading", !.now = now, !.due = due]
          /\ UNCHANGED faults
    /\ UNCHANGED <<now, row, up, fired, edits>>

\* Mutant: a tick whose loading check throws ends without re-arming.
CheckedForgetsTimer ==
    /\ AtAwait /\ tick.pc = "loading"
    /\ \/ tick' = [tick EXCEPT !.pc = "row"] /\ UNCHANGED <<timer, faults>>
       \/ Fault /\ tick' = Idle /\ UNCHANGED timer
    /\ UNCHANGED <<now, row, up, fired, edits>>

\* The model is ready; or the check itself throws, and the rows are re-armed.
Checked ==
    /\ AtAwait /\ tick.pc = "loading"
    /\ \/ tick' = [tick EXCEPT !.pc = "row"] /\ UNCHANGED <<timer, faults>>
       \/ Done(row, 1)
    /\ UNCHANGED <<now, row, up, fired, edits>>

StillLoading ==
    /\ AtAwait /\ tick.pc = "loading"
    /\ tick' = Idle /\ timer' = now + Retry
    /\ UNCHANGED <<now, row, up, fired, edits, faults>>

Missed(r) == tick.now - r.next > Grace

\* Mutant: a row that fires keeps its occurrence until it has.
TakeRowAdvancesLate(p) ==
    LET r == row[p]
        due == p \in DueAt(row, tick.now)
        left == [tick EXCEPT !.due = @ \ {p}]
        advanced == [row EXCEPT ![p].next = Next1(r.spec, tick.now)] IN
    /\ up /\ tick.pc = "row" /\ p \in tick.due
    /\ \/ ~due /\ tick' = left /\ UNCHANGED <<row, timer, faults>>
       \/ /\ due /\ r.json = "unparsable" /\ tick' = left
          /\ row' = [row EXCEPT ![p].next = Never] /\ UNCHANGED <<timer, faults>>
       \/ /\ due /\ r.json = "good" /\ Missed(r) /\ ~r.missed /\ tick' = left
          /\ row' = advanced /\ UNCHANGED <<timer, faults>>
       \/ /\ due /\ r.json = "good" /\ (Missed(r) => r.missed)
          /\ tick' = [left EXCEPT !.pc = "fire", !.prompt = p, !.next = r.next]
          /\ UNCHANGED <<row, timer, faults>>
       \/ due /\ r.json = "invalid" /\ Done(row, 0) /\ UNCHANGED row
       \/ Done(row, 1) /\ UNCHANGED row
    /\ UNCHANGED <<now, up, fired, edits>>

\* Mutant: a row that does not parse stays due.
TakeRowUnparked(p) ==
    LET r == row[p]
        due == p \in DueAt(row, tick.now)
        left == [tick EXCEPT !.due = @ \ {p}]
        advanced == [row EXCEPT ![p].next = Next1(r.spec, tick.now)] IN
    /\ up /\ tick.pc = "row" /\ p \in tick.due
    /\ \/ ~due /\ tick' = left /\ UNCHANGED <<row, timer, faults>>
       \/ /\ due /\ r.json = "unparsable" /\ tick' = left
          /\ UNCHANGED <<row, timer, faults>>
       \/ /\ due /\ r.json = "good" /\ Missed(r) /\ ~r.missed /\ tick' = left
          /\ row' = advanced /\ UNCHANGED <<timer, faults>>
       \/ /\ due /\ r.json = "good" /\ (Missed(r) => r.missed)
          /\ tick' = [left EXCEPT !.pc = "fire", !.prompt = p, !.next = r.next]
          /\ row' = advanced /\ UNCHANGED <<timer, faults>>
       \/ due /\ r.json = "invalid" /\ Done(row, 0) /\ UNCHANGED row
       \/ Done(row, 1) /\ UNCHANGED row
    /\ UNCHANGED <<now, up, fired, edits>>

\* Re-read one row: no longer due, unreadable (parked), missed, or to be fired,
\* its next occurrence already saved.  nextOccurrence throws on what is no
\* schedule, and a read or a write may: that ends the tick, the rest of it untaken.
TakeRow(p) ==
    LET r == row[p]
        due == p \in DueAt(row, tick.now)
        left == [tick EXCEPT !.due = @ \ {p}]
        advanced == [row EXCEPT ![p].next = Next1(r.spec, tick.now)] IN
    /\ up /\ tick.pc = "row" /\ p \in tick.due
    /\ \/ ~due /\ tick' = left /\ UNCHANGED <<row, timer, faults>>
       \/ /\ due /\ r.json = "unparsable" /\ tick' = left
          /\ row' = [row EXCEPT ![p].next = Never] /\ UNCHANGED <<timer, faults>>
       \/ /\ due /\ r.json = "good" /\ Missed(r) /\ ~r.missed /\ tick' = left
          /\ row' = advanced /\ UNCHANGED <<timer, faults>>
       \/ /\ due /\ r.json = "good" /\ (Missed(r) => r.missed)
          /\ tick' = [left EXCEPT !.pc = "fire", !.prompt = p, !.next = r.next]
          /\ row' = advanced /\ UNCHANGED <<timer, faults>>
       \/ due /\ r.json = "invalid" /\ Done(row, 0) /\ UNCHANGED row
       \/ Done(row, 1) /\ UNCHANGED row
    /\ UNCHANGED <<now, up, fired, edits>>

\* runAutomatedSession: the session is written, or the write fails.
Fire ==
    /\ up /\ tick.pc = "fire"
    /\ \/ /\ fired' = [fired EXCEPT ![tick.prompt][tick.next] = @ + 1]
          /\ tick' = [tick EXCEPT !.pc = "opened"]
       \/ tick' = [tick EXCEPT !.pc = "row"] /\ UNCHANGED fired
    /\ UNCHANGED <<now, row, up, timer, edits, faults>>

\* Its first message is written and its turn started; or the write fails, which is
\* only logged and leaves the session without one.
FireEnds ==
    /\ up /\ tick.pc = "opened"
    /\ tick' = [tick EXCEPT !.pc = "row"]
    /\ UNCHANGED <<now, row, up, timer, fired, edits, faults>>

TickEnds ==
    /\ up /\ tick.pc = "row" /\ tick.due = {}
    /\ Done(row, 0)
    /\ UNCHANGED <<now, row, up, fired, edits>>

-----------------------------------------------------------------------------
(* The machine                                                             *)

Advance ==
    /\ ~up \/ AtAwait
    /\ now < MaxTime /\ now' = now + 1
    /\ UNCHANGED <<row, up, timer, tick, fired, edits, faults>>

\* A schedule_json that does not parse, or that parses to no schedule.
Corrupt(p, json) ==
    /\ row[p].state = "enabled" /\ row[p].json = "good" /\ Fault
    /\ row' = [row EXCEPT ![p].json = json]
    /\ UNCHANGED <<now, up, timer, tick, fired, edits>>

Crash ==
    /\ up /\ Fault
    /\ up' = FALSE /\ timer' = Never /\ tick' = Idle
    /\ UNCHANGED <<now, row, fired, edits>>

\* start() at boot, which fails when it throws.
Start ==
    /\ ~up /\ Arm(row, 0)
    /\ up' = (timer' # Lost)
    /\ UNCHANGED <<now, row, tick, fired, edits>>

TickStep == Checked \/ Fire \/ FireEnds \/ TickEnds \/ \E p \in Prompts : TakeRow(p)

Next ==
    \/ \E p \in Prompts, s \in Specs, m \in BOOLEAN : Create(p, s, m)
    \/ \E p \in Prompts, s \in Specs, m, patched \in BOOLEAN,
         e \in {"enabled", "disabled"} : Update(p, s, patched, e, m)
    \/ \E p \in Prompts : Delete(p)
    \/ TimerFires \/ StillLoading \/ TickStep
    \/ Advance \/ Crash \/ Start
    \/ \E p \in Prompts, json \in {"unparsable", "invalid"} : Corrupt(p, json)

\* Timers fire, core comes back, and a model that loads is loaded in the end.
Spec == Init /\ [][Next]_vars
        /\ WF_vars(TimerFires) /\ SF_vars(TickStep) /\ WF_vars(Start) /\ WF_vars(Advance)

-----------------------------------------------------------------------------
(* Properties                                                              *)

TypeOK ==
    /\ now \in Nat /\ up \in BOOLEAN /\ timer \in Nat \cup {Never, Lost}
    /\ \A p \in Prompts : /\ row[p].spec \in Specs /\ row[p].next \in Nat \cup {Never}
                          /\ row[p].missed \in BOOLEAN
                          /\ row[p].json \in {"good", "unparsable", "invalid"}
    /\ tick.pc \in {"idle", "loading", "row", "fire", "opened"}
    /\ tick.due \subseteq Prompts /\ tick.now <= now

\* A tick that ends never leaves the scheduler disarmed: while core runs and no
\* tick is under way, an enabled row with a next run has a timer no later than
\* that run, or than the retry of a tick that found the model loading.  Left out:
\* arm() itself threw, which no code repairs before the next edit or restart.
NeverDisarmed ==
    /\ TypeOK
    /\ up /\ tick.pc = "idle" /\ timer # Lost =>
        \A p \in Armed(row) : timer # Never /\ timer <= Larger(row[p].next, now + Retry)

\* What a tick takes to be fired is due and enabled, whatever happened to the row
\* while the tick waited for the model or for an earlier row's session; and no
\* occurrence opens two sessions, over edits, ticks that overlap, ticks that
\* throw and a crash in the middle of a run.
FiresOnceWhatIsDue ==
    [][/\ \A p \in Prompts : \A t \in 0..MaxTime :
            fired'[p][t] > fired[p][t] => fired[p][t] = 0 /\ t <= now
       /\ tick.pc = "row" /\ tick'.pc = "fire" =>
            row[tick'.prompt].state = "enabled" /\ tick'.next <= now]_vars

\* arm() threw outside a tick or at the end of one.
Disarmed == up /\ tick.pc = "idle" /\ timer = Lost

\* A row holds what parses and is no schedule; every tick that reaches it throws.
Wedged == \E p \in Armed(row) : row[p].json = "invalid"

\* A row that is due does not stay due: it is fired, skipped or parked in the
\* end, though ticks throw or a crash cuts them short, unless its owner takes it
\* back first.  Left out: the scheduler is disarmed, or a row wedges its ticks.
DueIsHandled ==
    \A p \in Prompts :
       (p \in DueAt(row, now)) ~> (p \notin DueAt(row, now) \/ Disarmed \/ Wedged)

=============================================================================
