---------------------- MODULE PromptSchedulerProofs ----------------------
(***************************************************************************)
(* Proofs about PromptScheduler, for any prompts, schedules and periods    *)
(* and any number of edits, faults and ticks of the clock: the timer is    *)
(* never lost, and no occurrence of a schedule fires twice.                *)
(***************************************************************************)
EXTENDS PromptScheduler, WellFoundedInduction, TLAPS

Counts == [0..MaxTime -> Nat]
Times == Nat \cup {Never}
Timers == Times \cup {Lost}
Rows == [state : {"absent", "enabled", "disabled"}, spec : Specs, missed : BOOLEAN,
         next : Times, json : {"good", "unparsable", "invalid"}]

\* The types, in full.
Types ==
    /\ now \in Nat /\ up \in BOOLEAN /\ timer \in Timers
    /\ row \in [Prompts -> Rows]
    /\ fired \in [Prompts -> Counts]
    /\ tick.pc \in {"idle", "loading", "row", "fire", "opened"}
    /\ tick.due \subseteq Prompts /\ tick.now \in Nat /\ tick.now <= now
    /\ tick = [pc |-> tick.pc, now |-> tick.now, due |-> tick.due, prompt |-> tick.prompt,
               next |-> tick.next]

\* While core runs and no tick is under way, the timer covers every armed row, but
\* where arm() threw.
Covered ==
    up /\ tick.pc = "idle" /\ timer # Lost =>
        \A p \in Armed(row) : timer # Never /\ timer <= Larger(row[p].next, now + Retry)

\* No occurrence that is still to come was fired: not one at or after the time a
\* row is armed for, and none in the future.
Unfired ==
    \A p \in Prompts : \A t \in 0..MaxTime :
        t > now \/ (p \in Armed(row) /\ t >= row[p].next) => fired[p][t] = 0

\* The row in hand: its occurrence is due and unfired, and the row has moved on.
InHand ==
    /\ ~up => tick.pc = "idle"
    /\ tick.pc = "fire" =>
         /\ tick.prompt \in Prompts /\ tick.next \in Nat /\ tick.next <= now
         /\ tick.prompt \in Armed(row) => tick.next < row[tick.prompt].next
         /\ \A t \in 0..MaxTime : t >= tick.next => fired[tick.prompt][t] = 0

IInv == Types /\ Covered /\ Unfired /\ InHand

-----------------------------------------------------------------------------
(* Arming                                                                  *)

\* Min finds the smallest member of a set of natural numbers.
LEMMA MinIsSoonest ==
  ASSUME NEW S, S \subseteq Nat, S # {}
  PROVE  Min(S) \in S /\ \A t \in S : Min(S) <= t
  <1> DEFINE R == {ss \in Nat \X Nat : ss[1] < ss[2]}
  <1>1. IsWellFoundedOn(R, Nat)
    BY NatLessThanWellFounded DEF OpToRel
  <1>2. \A i, j \in Nat : i < j => <<i, j>> \in R
    OBVIOUS
  <1> HIDE DEF R
  <1>3. PICK x \in S : \A y \in S : ~ (<<y, x>> \in R)
    BY <1>1, WFMin, Zenon
  <1>4. ASSUME NEW y \in S PROVE x <= y
    <2>1. <<y, x>> \notin R
      BY <1>3
    <2>2. ~(y < x)
      BY <1>2, <2>1
    <2>3. x \in Nat /\ y \in Nat
      OBVIOUS
    <2>4. QED  BY <2>2, <2>3
  <1>5. \E m \in S : \A y \in S : m <= y
    BY <1>4
  <1>6. QED  BY <1>5, Zenon DEF Min

\* The next multiple of a period is later.
LEMMA NextMultiple ==
  ASSUME NEW a \in Nat, NEW d \in Nat \ {0}
  PROVE  ((a \div d) + 1) * d \in Nat /\ a < ((a \div d) + 1) * d
  <1>1. a \div d \in Nat
    OBVIOUS
  <1>2. a < ((a \div d) + 1) * d
    OBVIOUS
  <1>3. QED  BY <1>1, <1>2

\* The next occurrence after a time, if there is one, is later than that time.
LEMMA NextIsLater ==
  ASSUME NEW s \in Specs, NEW after \in Nat
  PROVE  /\ Next1(s, after) \in Times
         /\ Next1(s, after) # Never => Next1(s, after) \in Nat /\ after < Next1(s, after)
  <1>1. s.kind \in {"once", "interval", "calendar"} /\ s.at \in Nat /\ s.at > 0
    BY SchedulerAssumption
  <1>2. CASE s.kind = "once"
    BY <1>1, <1>2 DEF Next1, Times
  <1>3. CASE s.kind = "interval"
    BY <1>1, <1>3 DEF Next1, Times
  <1>4. CASE s.kind = "calendar"
    BY <1>1, <1>4, NextMultiple DEF Next1, Times
  <1>5. QED  BY <1>1, <1>2, <1>3, <1>4

\* Armed at the soonest row, the timer covers every one.
LEMMA ArmCovers ==
  ASSUME NEW table \in [Prompts -> Rows], NEW n, now \in Nat, Arm(table, n)
  PROVE  /\ timer' \in Timers
         /\ timer' # Lost => \A p \in Armed(table) :
              timer' # Never /\ timer' <= Larger(table[p].next, now + Retry)
  <1>0. CASE timer' = Lost
    BY <1>0 DEF Timers
  <1>1. CASE Armed(table) = {}
    BY <1>1 DEF Arm, Times, Timers
  <1>2. CASE Armed(table) # {} /\ timer' # Lost
    <2> DEFINE S == {table[p].next : p \in Armed(table)}
               m == Min(S)
    <2>1. S \subseteq Nat /\ S # {}
      BY <1>2 DEF Armed, Rows, Times
    <2>2. m \in Nat /\ \A p \in Armed(table) : m <= table[p].next /\ table[p].next \in Nat
      <3> HIDE DEF m
      <3>1. m \in S /\ \A t \in S : m <= t
        BY <2>1, MinIsSoonest DEF m
      <3>2. QED  BY <2>1, <3>1
    <2>3. timer' = Smaller(Larger(m, now), now + MaxArm)
      BY <1>2 DEF Arm
    <2> HIDE DEF S, m
    <2>4. MaxArm \in Nat /\ Retry \in Nat /\ Never \notin Nat
      BY SchedulerAssumption
    <2>5. timer' \in Nat /\ timer' <= Larger(m, now)
      BY <2>2, <2>3, <2>4 DEF Smaller, Larger
    <2>6. ASSUME NEW p \in Armed(table) PROVE timer' <= Larger(table[p].next, now + Retry)
      <3>1. m <= table[p].next /\ table[p].next \in Nat
        BY <2>2
      <3> HIDE DEF Armed
      <3>2. QED  BY <2>2, <2>4, <2>5, <3>1 DEF Larger
    <2>7. QED  BY <2>4, <2>5, <2>6 DEF Times, Timers
  <1>3. QED  BY <1>0, <1>1, <1>2

-----------------------------------------------------------------------------
(* The rows                                                                *)

\* A saved row has the fields of one, and is armed, if at all, for a later time.
LEMMA SavedRow ==
  ASSUME NEW p \in Prompts, NEW r \in Rows, row \in [Prompts -> Rows],
         row' = [row EXCEPT ![p] = r]
  PROVE  /\ row' \in [Prompts -> Rows]
         /\ row'[p] = r /\ \A q \in Prompts \ {p} : row'[q] = row[q]
  OBVIOUS

\* Absent is a row, and not an armed one.
LEMMA AbsentRow == Absent \in Rows /\ Absent.state = "absent"
  <1>1. (CHOOSE s \in Specs : TRUE) \in Specs
    BY SchedulerAssumption
  <1>2. QED  BY <1>1 DEF Absent, Rows, Times

\* What TakeRow does to the row it reads again.
LEMMA TakenRow ==
  ASSUME NEW p \in Prompts, Types, TakeRow(p)
  PROVE  /\ \/ row' = row
            \/ \E next \in Times :
                 /\ row' = [row EXCEPT ![p] = [row[p] EXCEPT !.next = next]]
                 /\ p \in Armed(row) /\ row[p].next \in Nat /\ row[p].next <= tick.now
                 /\ next # Never => next \in Nat /\ tick.now < next
         /\ row' \in [Prompts -> Rows]
         /\ \/ tick' = [tick EXCEPT !.due = @ \ {p}] /\ timer' = timer
            \/ tick' = Idle /\ row' = row /\ \E n \in {0, 1} : Arm(row, n)
            \/ /\ tick' = [tick EXCEPT !.due = @ \ {p}, !.pc = "fire", !.prompt = p,
                                       !.next = row[p].next]
               /\ timer' = timer
               /\ row' = [row EXCEPT ![p].next = Next1(row[p].spec, tick.now)]
               /\ p \in Armed(row) /\ row[p].next \in Nat /\ row[p].next <= tick.now
  <1> DEFINE n == Next1(row[p].spec, tick.now)
             due == p \in DueAt(row, tick.now)
             change == [row EXCEPT ![p].next = n]
             left == [tick EXCEPT !.due = @ \ {p}]
  <1>1. row \in [Prompts -> Rows] /\ tick.now \in Nat
    BY DEF Types
  <1>2. row[p] \in Rows /\ row[p].spec \in Specs
    BY <1>1 DEF Rows
  <1>3. n \in Times /\ (n # Never => n \in Nat /\ tick.now < n)
    BY <1>1, <1>2, NextIsLater
  <1>4. due => p \in Armed(row) /\ row[p].next \in Nat /\ row[p].next <= tick.now
    BY <1>2 DEF DueAt, Armed, Rows, Times
  <1>5. Never \in Times
    BY DEF Times
  <1>6. \/ row' = row /\ tick' = left /\ timer' = timer
        \/ row' = row /\ \E m \in {0, 1} : Done(row, m)
        \/ due /\ row' = [row EXCEPT ![p].next = Never] /\ tick' = left /\ timer' = timer
        \/ due /\ row' = change /\ tick' = left /\ timer' = timer
        \/ /\ due /\ row' = change /\ timer' = timer
           /\ tick' = [left EXCEPT !.pc = "fire", !.prompt = p, !.next = row[p].next]
    BY Zenon DEF TakeRow
  <1> HIDE DEF n, due
  <1>7. \A x \in Times : [row EXCEPT ![p].next = x] = [row EXCEPT ![p] = [row[p] EXCEPT !.next = x]]
                         /\ [row EXCEPT ![p].next = x] \in [Prompts -> Rows]
    BY <1>1, <1>2 DEF Rows
  <1>8. [left EXCEPT !.pc = "fire", !.prompt = p, !.next = row[p].next]
          = [tick EXCEPT !.due = @ \ {p}, !.pc = "fire", !.prompt = p, !.next = row[p].next]
    BY DEF Types
  <1>9. CASE row' = row /\ tick' = left /\ timer' = timer
    BY <1>1, <1>9
  <1>10. CASE due /\ row' = [row EXCEPT ![p].next = Never] /\ tick' = left /\ timer' = timer
    BY <1>4, <1>5, <1>7, <1>10
  <1>11. CASE due /\ row' = change /\ tick' = left /\ timer' = timer
    BY <1>3, <1>4, <1>7, <1>11
  <1>12. CASE /\ due /\ row' = change /\ timer' = timer
              /\ tick' = [left EXCEPT !.pc = "fire", !.prompt = p, !.next = row[p].next]
    BY <1>3, <1>4, <1>7, <1>8, <1>12 DEF n
  <1>13. CASE row' = row /\ \E m \in {0, 1} : Done(row, m)
    BY <1>1, <1>13, Zenon DEF Done
  <1>14. QED  BY <1>6, <1>9, <1>10, <1>11, <1>12, <1>13

Edit(p) ==
    \/ \E s \in Specs, m \in BOOLEAN : Create(p, s, m)
    \/ \E s \in Specs, m, patched \in BOOLEAN, e \in {"enabled", "disabled"} :
         Update(p, s, patched, e, m)
    \/ Delete(p)

Damage(p) == \E json \in {"unparsable", "invalid"} : Corrupt(p, json)

\* What an edit saves: a row that, if it is armed, keeps its occurrence or has
\* one in the future; the timer covers the rows as saved.
LEMMA EditEffect ==
  ASSUME NEW p \in Prompts, Types, Edit(p)
  PROVE  /\ AtAwait /\ UNCHANGED <<now, up, tick>>
         /\ timer' \in Timers
         /\ timer' # Lost => \A q \in Armed(row') :
              timer' # Never /\ timer' <= Larger(row'[q].next, now + Retry)
         /\ fired' = fired \/ fired' = [fired EXCEPT ![p] = [t \in 0..MaxTime |-> 0]]
         /\ \E r \in Rows :
              /\ row' = [row EXCEPT ![p] = r] /\ row' \in [Prompts -> Rows]
              /\ r.state = "enabled" /\ r.next # Never =>
                   /\ r.next \in Nat
                   /\ now < r.next \/ (p \in Armed(row) /\ r.next = row[p].next)
  <1> DEFINE Future(r) == r.state = "enabled" /\ r.next # Never =>
                   /\ r.next \in Nat
                   /\ now < r.next \/ (p \in Armed(row) /\ r.next = row[p].next)
             Fired == fired' = fired \/ fired' = [fired EXCEPT ![p] = [t \in 0..MaxTime |-> 0]]
  <1>1. now \in Nat /\ row \in [Prompts -> Rows] /\ row[p] \in Rows
    BY DEF Types
  <1>2. \E r \in Rows : Save(p, r) /\ AtAwait /\ Fired /\ Future(r)
    <2>1. ASSUME NEW s \in Specs, NEW m \in BOOLEAN, Create(p, s, m)
          PROVE  \E r \in Rows : Save(p, r) /\ AtAwait /\ Fired /\ Future(r)
      <3> DEFINE r == Row(s, "enabled", m, Next1(s, now), "good")
      <3>1. Next1(s, now) \in Nat /\ now < Next1(s, now)
        BY <1>1, <2>1, NextIsLater DEF Create
      <3>2. r \in Rows /\ r.next = Next1(s, now)
        BY <3>1 DEF Row, Rows, Times
      <3>3. Future(r)
        BY <3>1, <3>2
      <3>4. QED  BY <2>1, <3>2, <3>3 DEF Create
    <2>2. ASSUME NEW s \in Specs, NEW m \in BOOLEAN, NEW patched \in BOOLEAN,
                 NEW e \in {"enabled", "disabled"}, Update(p, s, patched, e, m)
          PROVE  \E r \in Rows : Save(p, r) /\ AtAwait /\ Fired /\ Future(r)
      <3> DEFINE derive == patched \/ row[p].state = "disabled"
                 next == IF e = "disabled" THEN Never
                         ELSE IF derive THEN Next1(s, now) ELSE row[p].next
                 json == IF patched THEN "good" ELSE row[p].json
                 r == Row(s, e, m, next, json)
      <3>1. /\ AtAwait /\ row[p].state # "absent" /\ Save(p, r) /\ fired' = fired
        BY <2>2, Zenon DEF Update
      <3>2. Next1(s, now) \in Times
            /\ (Next1(s, now) # Never => Next1(s, now) \in Nat /\ now < Next1(s, now))
        BY <1>1, NextIsLater
      <3>3. row[p].next \in Times /\ row[p].state \in {"absent", "enabled", "disabled"}
        BY <1>1 DEF Rows
      <3>4. next \in Times
        BY <3>2, <3>3 DEF Times
      <3>5. r \in Rows /\ r.next = next /\ r.state = e
        <4> HIDE DEF next
        <4>1. json \in {"good", "unparsable", "invalid"}
          BY <1>1 DEF Rows
        <4> HIDE DEF json
        <4>2. QED  BY <3>4, <4>1 DEF Row, Rows
      <3>6. e = "enabled" /\ next # Never =>
              next \in Nat /\ (now < next \/ (p \in Armed(row) /\ next = row[p].next))
        BY <3>1, <3>2, <3>3 DEF Armed, Times
      <3> HIDE DEF r, next
      <3>7. Future(r)
        BY <3>5, <3>6
      <3>8. QED  BY <3>1, <3>5, <3>7
    <2>3. ASSUME Delete(p) PROVE \E r \in Rows : Save(p, r) /\ AtAwait /\ Fired /\ Future(r)
      BY <2>3, AbsentRow DEF Delete
    <2>4. QED  BY <2>1, <2>2, <2>3 DEF Edit
  <1>3. PICK r \in Rows : Save(p, r) /\ AtAwait /\ Fired /\ Future(r)
    BY <1>2
  <1>4. row' = [row EXCEPT ![p] = r] /\ Arm(row', 0) /\ UNCHANGED <<now, up, tick>>
    BY <1>3 DEF Save
  <1>5. row' \in [Prompts -> Rows]
    BY <1>1, <1>4, SavedRow
  <1>6. /\ timer' \in Timers
        /\ timer' # Lost => \A q \in Armed(row') :
             timer' # Never /\ timer' <= Larger(row'[q].next, now + Retry)
    BY <1>1, <1>4, <1>5, ArmCovers
  <1>7. QED  BY <1>3, <1>4, <1>5, <1>6

\* Every step is an edit or one of the scheduler, the clock and the machine.
LEMMA Steps ==
  ASSUME [Next]_vars
  PROVE  \/ \E p \in Prompts : Edit(p) \/ TakeRow(p) \/ Damage(p)
         \/ TimerFires \/ StillLoading \/ Checked \/ Fire \/ FireEnds \/ TickEnds
         \/ Advance \/ Crash \/ Start \/ UNCHANGED vars
  BY Zenon DEF Next, TickStep, Edit, Damage

-----------------------------------------------------------------------------
(* The inductive invariant                                                 *)

\* It holds at the start.
LEMMA InitInv == Init => IInv
  <1> SUFFICES ASSUME Init PROVE IInv
    OBVIOUS
  <1>1. \A p \in Prompts : row[p] = Absent
    BY DEF Init
  <1>2. \A p \in Prompts : fired[p] \in Counts /\ \A t \in 0..MaxTime : fired[p][t] = 0
    BY DEF Init, Counts
  <1>3. tick.pc = "idle" /\ tick.now = 0 /\ tick.due = {}
        /\ tick = [pc |-> tick.pc, now |-> tick.now, due |-> tick.due,
                   prompt |-> tick.prompt, next |-> tick.next]
    BY DEF Init, Idle
  <1>4. Armed(row) = {}
    BY <1>1, AbsentRow DEF Armed
  <1>5. row \in [Prompts -> Rows] /\ fired \in [Prompts -> Counts]
    BY <1>1, <1>2, AbsentRow DEF Init
  <1>6. Types
    <2>1. now = 0 /\ up = TRUE /\ timer = Never
      BY DEF Init
    <2>2. timer \in Timers
      BY <2>1 DEF Times, Timers
    <2>3. QED  BY <1>3, <1>5, <2>1, <2>2 DEF Types
  <1>7. Covered
    BY <1>4 DEF Covered
  <1>8. Unfired
    BY <1>2 DEF Unfired
  <1>9. InHand
    BY <1>3 DEF Init, InHand
  <1>10. QED  BY <1>6, <1>7, <1>8, <1>9 DEF IInv

\* Every step keeps the types.
LEMMA TypesStep == ASSUME IInv, [Next]_vars PROVE Types'
  <1>1. now \in Nat /\ up \in BOOLEAN /\ timer \in Timers /\ row \in [Prompts -> Rows]
        /\ fired \in [Prompts -> Counts]
    BY DEF IInv, Types
  <1>2. tick.pc \in {"idle", "loading", "row", "fire", "opened"} /\ tick.due \subseteq Prompts
        /\ tick.now \in Nat /\ tick.now <= now
        /\ tick = [pc |-> tick.pc, now |-> tick.now, due |-> tick.due,
                   prompt |-> tick.prompt, next |-> tick.next]
    BY DEF IInv, Types
  <1> DEFINE TickOK == /\ tick'.pc \in {"idle", "loading", "row", "fire", "opened"}
                       /\ tick'.due \subseteq Prompts
                       /\ tick'.now \in Nat /\ tick'.now <= now
                       /\ tick' = [pc |-> tick'.pc, now |-> tick'.now, due |-> tick'.due,
                                   prompt |-> tick'.prompt, next |-> tick'.next]
  <1>3. UNCHANGED tick => TickOK
    BY <1>2
  <1>4. tick' = Idle => TickOK
    BY <1>1 DEF Idle
  <1>5. \A pc \in {"row", "opened"} : tick' = [tick EXCEPT !.pc = pc] => TickOK
    BY <1>2
  <1>6. ASSUME NEW due, due \subseteq Prompts,
               tick' = [tick EXCEPT !.pc = "loading", !.now = now, !.due = due]
        PROVE  TickOK
    <2>1. tick' = [pc |-> "loading", now |-> now, due |-> due, prompt |-> tick.prompt,
                   next |-> tick.next]
      BY <1>2, <1>6
    <2>2. tick'.pc = "loading" /\ tick'.now = now /\ tick'.due = due
          /\ tick'.prompt = tick.prompt /\ tick'.next = tick.next
      BY <2>1
    <2>3. now <= now
      BY <1>1
    <2>4. QED  BY <1>1, <1>6, <2>1, <2>2, <2>3
  <1>7. \A p : tick' = [tick EXCEPT !.due = @ \ {p}] => TickOK
    BY <1>2
  <1>8. \A p, n : tick' = [tick EXCEPT !.due = @ \ {p}, !.pc = "fire", !.prompt = p,
                                       !.next = n] => TickOK
    BY <1>2
  <1> HIDE DEF TickOK
  <1>9. UNCHANGED <<now, up, timer, fired>> /\ row' \in [Prompts -> Rows] /\ TickOK => Types'
    BY <1>1 DEF Types, TickOK
  <1>10. UNCHANGED <<now, row, up, fired>> /\ timer' \in Timers /\ TickOK => Types'
    BY <1>1 DEF Types, TickOK
  <1>11. ASSUME NEW p \in Prompts, Edit(p) PROVE Types'
    <2>1. UNCHANGED <<now, up>> /\ timer' \in Timers /\ row' \in [Prompts -> Rows] /\ TickOK
      BY <1>3, <1>11, EditEffect DEF IInv
    <2>2. fired' = fired \/ fired' = [fired EXCEPT ![p] = [t \in 0..MaxTime |-> 0]]
      BY <1>11, EditEffect DEF IInv
    <2>3. fired' \in [Prompts -> Counts]
      <3>1. [t \in 0..MaxTime |-> 0] \in Counts
        BY DEF Counts
      <3>2. QED  BY <1>1, <2>2, <3>1
    <2>4. QED  BY <1>1, <2>1, <2>3 DEF Types, TickOK
  <1>12. ASSUME NEW p \in Prompts, TakeRow(p) PROVE Types'
    <2>1. row' \in [Prompts -> Rows]
      BY <1>12, TakenRow DEF IInv
    <2>2. TickOK
      BY <1>4, <1>7, <1>8, <1>12, TakenRow DEF IInv
    <2>3. timer' \in Timers
      BY <1>1, <1>12, TakenRow, ArmCovers DEF IInv
    <2>4. UNCHANGED <<now, up, fired>>
      BY <1>12 DEF TakeRow
    <2>5. QED  BY <1>1, <2>1, <2>2, <2>3, <2>4 DEF Types, TickOK
  <1>13. ASSUME NEW p \in Prompts, Damage(p) PROVE Types'
    <2>1. row' \in [Prompts -> Rows]
      BY <1>1, <1>13 DEF Damage, Corrupt, Rows
    <2>2. QED  BY <1>3, <1>9, <1>13, <2>1 DEF Damage, Corrupt
  <1>14. CASE TimerFires
    <2>1. /\ UNCHANGED <<now, row, up, fired>>
          /\ \/ timer' = Never /\ UNCHANGED tick
             \/ \E n \in {0, 1} : Done(row, n)
             \/ /\ timer' = Never
                /\ tick' = [tick EXCEPT !.pc = "loading", !.now = now, !.due = DueAt(row, now)]
      BY <1>14, Zenon DEF TimerFires
    <2>2. Never \in Timers /\ DueAt(row, now) \subseteq Prompts
      BY DEF Times, Timers, DueAt, Armed
    <2>3. CASE \E n \in {0, 1} : Done(row, n)
      <3>1. timer' \in Timers /\ tick' = Idle
        BY <1>1, <2>3, ArmCovers DEF Done
      <3>2. QED  BY <1>4, <1>10, <2>1, <3>1
    <2>4. QED  BY <1>3, <1>6, <1>10, <2>1, <2>2, <2>3
  <1>15. CASE StillLoading
    <2>1. now + Retry \in Timers
      BY <1>1, SchedulerAssumption DEF Times, Timers
    <2>2. QED  BY <1>4, <1>10, <1>15, <2>1 DEF StillLoading
  <1>16. CASE Checked
    <2>1. UNCHANGED <<now, row, up, fired>>
      BY <1>16 DEF Checked
    <2>2. CASE tick' = [tick EXCEPT !.pc = "row"] /\ UNCHANGED timer
      BY <1>1, <1>5, <1>10, <2>1, <2>2
    <2>3. CASE Done(row, 1)
      <3>1. timer' \in Timers
        BY <1>1, <2>3, ArmCovers DEF Done
      <3>2. QED  BY <1>4, <1>10, <2>1, <2>3, <3>1 DEF Done
    <2>4. QED  BY <1>16, <2>2, <2>3 DEF Checked
  <1>17. CASE Fire
    <2>1. fired' \in [Prompts -> Counts]
      <3>0. CASE fired' = fired
        BY <1>1, <3>0
      <3>1. tick.prompt \in Prompts
        BY <1>17 DEF Fire, IInv, InHand
      <3>2. ASSUME NEW q \in Prompts, NEW n
            PROVE  [fired[q] EXCEPT ![n] = @ + 1] \in Counts
        <4>1. fired[q] \in [0..MaxTime -> Nat]
          BY <1>1 DEF Counts
        <4>2. \A k \in Nat : k + 1 \in Nat
          OBVIOUS
        <4>3. QED  BY <4>1, <4>2 DEF Counts
      <3>3. CASE fired' = [fired EXCEPT ![tick.prompt][tick.next] = @ + 1]
        <4>1. fired' = [fired EXCEPT ![tick.prompt] =
                                       [fired[tick.prompt] EXCEPT ![tick.next] = @ + 1]]
          BY <1>1, <3>1, <3>3
        <4>2. QED  BY <1>1, <3>1, <3>2, <4>1
      <3>4. QED  BY <1>17, <3>0, <3>3, Zenon DEF Fire
    <2>2. /\ UNCHANGED <<now, row, up, timer>>
          /\ \E pc \in {"row", "opened"} : tick' = [tick EXCEPT !.pc = pc]
      BY <1>17, Zenon DEF Fire
    <2>3. TickOK
      BY <1>5, <2>2
    <2>4. QED  BY <1>1, <2>1, <2>2, <2>3 DEF Types, TickOK
  <1>18. CASE FireEnds
    BY <1>1, <1>5, <1>10, <1>18 DEF FireEnds
  <1>19. CASE TickEnds
    BY <1>1, <1>4, <1>10, <1>19, ArmCovers DEF TickEnds, Done
  <1>20. CASE Advance
    <2>1. now' \in Nat /\ tick.now <= now' /\ UNCHANGED <<row, up, timer, tick, fired>>
      BY <1>1, <1>2, <1>20 DEF Advance
    <2>2. QED  BY <1>1, <1>2, <2>1 DEF Types
  <1>21. CASE Crash
    <2>1. TickOK /\ up' = FALSE /\ timer' = Never /\ UNCHANGED <<now, row, fired>>
      BY <1>4, <1>21 DEF Crash
    <2>2. QED  BY <1>1, <2>1 DEF Types, TickOK, Times, Timers
  <1>22. CASE Start
    <2>1. TickOK /\ up' \in BOOLEAN /\ timer' \in Timers /\ UNCHANGED <<now, row, fired>>
      BY <1>1, <1>3, <1>22, ArmCovers DEF Start
    <2>2. QED  BY <1>1, <2>1 DEF Types, TickOK
  <1>23. CASE UNCHANGED vars
    BY <1>1, <1>2, <1>23 DEF Types, vars
  <1>24. QED
    BY <1>11, <1>12, <1>13, <1>14, <1>15, <1>16, <1>17, <1>18, <1>19, <1>20, <1>21, <1>22,
       <1>23, Steps

\* Every step keeps the timer over the armed rows.
LEMMA CoveredStep == ASSUME IInv, [Next]_vars PROVE Covered'
  <1>1. now \in Nat /\ row \in [Prompts -> Rows]
    BY DEF IInv, Types
  <1>2. Retry \in Nat /\ Never \notin Nat
    BY SchedulerAssumption
  <1>3. tick'.pc # "idle" => Covered'
    BY DEF Covered
  <1>4. ASSUME UNCHANGED <<now, row>>, NEW n, Arm(row, n) PROVE Covered'
    BY <1>1, <1>4, ArmCovers DEF Covered
  <1>5. \A pc \in {"row", "opened", "loading"} : \A due, time :
           \/ tick' = [tick EXCEPT !.pc = pc]
           \/ tick' = [tick EXCEPT !.pc = pc, !.now = time, !.due = due]
           => Covered'
    <2>1. tick = [pc |-> tick.pc, now |-> tick.now, due |-> tick.due,
                  prompt |-> tick.prompt, next |-> tick.next]
      BY DEF IInv, Types
    <2>2. QED  BY <1>3, <2>1
  <1>6. ASSUME NEW p \in Prompts, Edit(p) PROVE Covered'
    BY <1>6, EditEffect DEF IInv, Covered
  <1>7. ASSUME NEW p \in Prompts, TakeRow(p) PROVE Covered'
    <2>1. tick.pc = "row" /\ now' = now
      BY <1>7 DEF TakeRow
    <2>2. \/ tick'.pc \in {"row", "fire"}
          \/ row' = row /\ \E n \in {0, 1} : Arm(row, n)
      <3>1. tick = [pc |-> tick.pc, now |-> tick.now, due |-> tick.due,
                    prompt |-> tick.prompt, next |-> tick.next]
        BY DEF IInv, Types
      <3>2. \/ tick' = [tick EXCEPT !.due = @ \ {p}]
            \/ row' = row /\ \E n \in {0, 1} : Arm(row, n)
            \/ tick' = [tick EXCEPT !.due = @ \ {p}, !.pc = "fire", !.prompt = p,
                                    !.next = row[p].next]
        BY <1>7, TakenRow, Zenon DEF IInv
      <3>3. QED  BY <2>1, <3>1, <3>2
    <2>3. QED  BY <1>3, <1>4, <2>1, <2>2
  <1>8. ASSUME NEW p \in Prompts, Damage(p) PROVE Covered'
    <2>1. \A q \in Prompts : row'[q].state = row[q].state /\ row'[q].next = row[q].next
      BY <1>1, <1>8 DEF Damage, Corrupt, Rows
    <2>2. Armed(row') = Armed(row)
      BY <2>1 DEF Armed
    <2>3. QED  BY <1>8, <2>1, <2>2 DEF IInv, Covered, Damage, Corrupt, Armed
  <1>9. CASE TimerFires
    <2>1. CASE tick.pc # "idle"
      BY <1>3, <1>9, <2>1 DEF TimerFires
    <2>2. CASE tick.pc = "idle"
      <3>1. /\ UNCHANGED <<now, row>>
            /\ \/ \E n \in {0, 1} : Done(row, n)
               \/ tick' = [tick EXCEPT !.pc = "loading", !.now = now, !.due = DueAt(row, now)]
        BY <1>9, <2>2, Zenon DEF TimerFires
      <3>2. QED  BY <1>4, <1>5, <3>1 DEF Done
    <2>3. QED  BY <2>1, <2>2
  <1>10. CASE StillLoading
    <2>1. timer' = now + Retry /\ UNCHANGED <<now, row>>
      BY <1>10 DEF StillLoading
    <2>2. \A p \in Armed(row) : row[p].next \in Nat
      BY <1>1 DEF Armed, Rows, Times
    <2>3. \A n \in Nat : now + Retry # Never /\ now + Retry <= Larger(n, now + Retry)
      BY <1>1, <1>2 DEF Larger
    <2>4. QED  BY <2>1, <2>2, <2>3 DEF Covered
  <1>11. CASE Checked
    <2>1. UNCHANGED <<now, row>>
      BY <1>11 DEF Checked
    <2>2. tick' = [tick EXCEPT !.pc = "row"] \/ Done(row, 1)
      BY <1>11 DEF Checked
    <2>3. QED  BY <1>4, <1>5, <2>1, <2>2 DEF Done
  <1>12. CASE Fire
    BY <1>5, <1>12 DEF Fire
  <1>13. CASE FireEnds
    BY <1>5, <1>13 DEF FireEnds
  <1>14. CASE TickEnds
    BY <1>4, <1>14 DEF TickEnds, Done
  <1>15. CASE Advance
    <2>1. now' = now + 1 /\ UNCHANGED <<row, up, timer, tick>>
      BY <1>15 DEF Advance
    <2>2. \A p \in Armed(row) : row[p].next \in Nat
      BY <1>1 DEF Armed, Rows, Times
    <2>3. \A n \in Nat : Larger(n, now + Retry) \in Nat
            /\ Larger(n, now + Retry) <= Larger(n, now + 1 + Retry)
            /\ Larger(n, now + 1 + Retry) \in Nat
      BY <1>1, <1>2 DEF Larger
    <2>4. timer \notin {Never, Lost} => timer \in Nat
      BY DEF IInv, Types, Times, Timers
    <2>5. ASSUME up', tick'.pc = "idle", timer # Lost, NEW p \in Armed(row)
          PROVE  timer # Never /\ timer <= Larger(row[p].next, now + 1 + Retry)
      <3>1. timer # Never /\ timer <= Larger(row[p].next, now + Retry)
        BY <2>1, <2>5 DEF IInv, Covered
      <3>2. row[p].next \in Nat
        BY <2>2
      <3>3. timer \in Nat
        BY <2>4, <2>5, <3>1
      <3> HIDE DEF Armed
      <3>4. QED  BY <2>3, <3>1, <3>2, <3>3
    <2>6. QED  BY <2>1, <2>5 DEF Covered
  <1>16. CASE Crash
    BY <1>16 DEF Crash, Covered
  <1>17. CASE Start
    BY <1>4, <1>17 DEF Start
  <1>18. CASE UNCHANGED vars
    BY <1>18 DEF vars, IInv, Covered, Armed
  <1>19. QED
    BY <1>6, <1>7, <1>8, <1>9, <1>10, <1>11, <1>12, <1>13, <1>14, <1>15, <1>16, <1>17,
       <1>18,
       Steps

\* Every step leaves the occurrences to come unfired.
LEMMA UnfiredStep == ASSUME IInv, [Next]_vars PROVE Unfired'
  <1>1. now \in Nat /\ row \in [Prompts -> Rows] /\ fired \in [Prompts -> Counts]
    BY DEF IInv, Types
  <1>2. \A p \in Prompts : row[p].next # Never => row[p].next \in Nat
    BY <1>1 DEF Rows, Times
  <1>3. ASSUME UNCHANGED <<now, row, fired>> PROVE Unfired'
    BY <1>3 DEF IInv, Unfired, Armed
  <1>4. ASSUME NEW p \in Prompts, Edit(p) PROVE Unfired'
    <2>1. fired' = fired \/ fired' = [fired EXCEPT ![p] = [t \in 0..MaxTime |-> 0]]
      BY <1>4, EditEffect DEF IInv
    <2>2. PICK r \in Rows :
              /\ row' = [row EXCEPT ![p] = r] /\ row' \in [Prompts -> Rows]
              /\ r.state = "enabled" /\ r.next # Never =>
                   /\ r.next \in Nat
                   /\ now < r.next \/ (p \in Armed(row) /\ r.next = row[p].next)
      BY <1>4, EditEffect DEF IInv
    <2>3. now' = now
      BY <1>4, EditEffect DEF IInv
    <2> SUFFICES ASSUME NEW q \in Prompts, NEW t \in 0..MaxTime,
                        t > now \/ (q \in Armed(row') /\ t >= row'[q].next)
                 PROVE  fired'[q][t] = 0
      BY <2>3 DEF Unfired
    <2>4. fired[q][t] = 0 => fired'[q][t] = 0
      BY <1>1, <2>1 DEF Counts
    <2>5. t > now => fired[q][t] = 0
      BY DEF IInv, Unfired
    <2>6. CASE q = p /\ q \in Armed(row') /\ t >= row'[q].next
      <3>1. row'[q] = r
        BY <1>1, <2>2, <2>6
      <3>2. r.next \in Nat /\ (now < r.next \/ (p \in Armed(row) /\ r.next = row[p].next))
        BY <2>2, <2>6, <3>1 DEF Armed
      <3>3. t > now \/ (p \in Armed(row) /\ t >= row[p].next)
        BY <1>1, <2>6, <3>1, <3>2
      <3>4. QED  BY <2>4, <2>6, <3>3 DEF IInv, Unfired
    <2>7. CASE q # p /\ q \in Armed(row') /\ t >= row'[q].next
      <3>1. row'[q] = row[q]
        BY <1>1, <2>2, <2>7
      <3>2. q \in Armed(row) /\ t >= row[q].next
        BY <2>7, <3>1 DEF Armed
      <3>3. QED  BY <2>4, <3>2 DEF IInv, Unfired
    <2>8. QED  BY <2>4, <2>5, <2>6, <2>7
  <1>5. ASSUME NEW p \in Prompts, TakeRow(p) PROVE Unfired'
    <2>1. UNCHANGED <<now, fired>>
      BY <1>5 DEF TakeRow
    <2>2. CASE row' = row
      BY <1>3, <2>1, <2>2
    <2>3. CASE row' # row
      <3>1. PICK next \in Times :
              /\ row' = [row EXCEPT ![p] = [row[p] EXCEPT !.next = next]]
              /\ p \in Armed(row) /\ row[p].next \in Nat /\ row[p].next <= tick.now
              /\ next # Never => next \in Nat /\ tick.now < next
        BY <1>5, <2>3, TakenRow DEF IInv
      <3>2. tick.now \in Nat
        BY DEF IInv, Types
      <3>3. row'[p].next = next /\ \A q \in Prompts \ {p} : row'[q] = row[q]
        <4>1. [row[p] EXCEPT !.next = next].next = next
          BY <1>1 DEF Rows
        <4>2. QED  BY <1>1, <3>1, <4>1
      <3>4. ASSUME NEW q \in Prompts, NEW t \in 0..MaxTime,
                   t > now \/ (q \in Armed(row') /\ t >= row'[q].next)
            PROVE  fired[q][t] = 0
        <4>1. t > now \/ (q \in Armed(row) /\ t >= row[q].next)
          <5>1. CASE t > now
            BY <5>1
          <5>2. CASE q # p /\ q \in Armed(row') /\ t >= row'[q].next
            BY <3>3, <5>2 DEF Armed
          <5>3. CASE q = p /\ q \in Armed(row') /\ t >= row'[q].next
            <6>1. next # Never
              BY <3>3, <5>3 DEF Armed
            <6>2. t >= row[p].next
              BY <3>1, <3>2, <3>3, <5>3, <6>1
            <6>3. QED  BY <3>1, <5>3, <6>2
          <5>4. QED  BY <3>4, <5>1, <5>2, <5>3
        <4>2. QED  BY <4>1 DEF IInv, Unfired
      <3>5. QED  BY <2>1, <3>4 DEF Unfired
    <2>4. QED  BY <2>2, <2>3
  <1>6. ASSUME NEW p \in Prompts, Damage(p) PROVE Unfired'
    <2>1. \A q \in Prompts : row'[q].state = row[q].state /\ row'[q].next = row[q].next
      BY <1>1, <1>6 DEF Damage, Corrupt, Rows
    <2>2. Armed(row') = Armed(row)
      BY <2>1 DEF Armed
    <2>3. UNCHANGED <<now, fired>>
      BY <1>6 DEF Damage, Corrupt
    <2>4. QED  BY <2>1, <2>2, <2>3 DEF IInv, Unfired
  <1>7. CASE Fire /\ fired' # fired
    <2>1. /\ tick.pc = "fire" /\ UNCHANGED <<now, row>>
          /\ fired' = [fired EXCEPT ![tick.prompt][tick.next] = @ + 1]
      BY <1>7 DEF Fire
    <2>2. /\ tick.prompt \in Prompts /\ tick.next \in Nat /\ tick.next <= now
          /\ tick.prompt \in Armed(row) => tick.next < row[tick.prompt].next
      BY <2>1 DEF IInv, InHand
    <2>3. \A q \in Prompts, t \in 0..MaxTime :
            q # tick.prompt \/ t # tick.next => fired'[q][t] = fired[q][t]
      BY <1>1, <2>1, <2>2 DEF Counts
    <2>4. ASSUME NEW q \in Prompts, NEW t \in 0..MaxTime,
                 t > now \/ (q \in Armed(row) /\ t >= row[q].next)
          PROVE  q # tick.prompt \/ t # tick.next
      <3>1. CASE t > now
        BY <1>1, <2>2, <3>1
      <3>2. CASE q \in Armed(row) /\ t >= row[q].next
        BY <1>2, <2>2, <3>2 DEF Armed
      <3>3. QED  BY <2>4, <3>1, <3>2
    <2>5. QED  BY <2>1, <2>3, <2>4 DEF IInv, Unfired, Armed
  <1>8. CASE Advance
    <2>1. now' = now + 1 /\ UNCHANGED <<row, fired>>
      BY <1>8 DEF Advance
    <2>2. \A t \in 0..MaxTime : t > now + 1 => t > now
      BY <1>1
    <2>3. QED  BY <2>1, <2>2 DEF IInv, Unfired, Armed
  <1>9. UNCHANGED <<now, row, fired>>
          \/ (\E p \in Prompts : Edit(p) \/ TakeRow(p) \/ Damage(p))
          \/ (Fire /\ fired' # fired) \/ Advance
    BY Steps DEF Fire, TimerFires, StillLoading, Checked, FireEnds, TickEnds, Crash, Start, vars
  <1>10. QED  BY <1>3, <1>4, <1>5, <1>6, <1>7, <1>8, <1>9

\* Every step keeps what is known of the row in hand.
LEMMA InHandStep == ASSUME IInv, [Next]_vars PROVE InHand'
  <1>1. now \in Nat /\ row \in [Prompts -> Rows] /\ fired \in [Prompts -> Counts]
    BY DEF IInv, Types
  <1>2. tick = [pc |-> tick.pc, now |-> tick.now, due |-> tick.due,
                prompt |-> tick.prompt, next |-> tick.next]
    BY DEF IInv, Types
  <1>3. tick'.pc # "fire" /\ up' => InHand'
    BY DEF InHand
  <1>4. tick'.pc = "idle" => InHand'
    BY DEF InHand
  <1>5. \A pc \in {"row", "opened", "loading"} : \A due, time :
           \/ tick' = [tick EXCEPT !.pc = pc]
           \/ tick' = [tick EXCEPT !.pc = pc, !.now = time, !.due = due]
           => tick'.pc # "fire"
    BY <1>2
  <1>6. tick' = Idle => InHand'
    BY <1>4 DEF Idle
  <1>7. ASSUME NEW p \in Prompts, Edit(p) PROVE InHand'
    <2>1. AtAwait /\ UNCHANGED <<up, tick>>
      BY <1>7, EditEffect DEF IInv
    <2>2. PICK r \in Rows :
              /\ row' = [row EXCEPT ![p] = r]
              /\ r.state = "enabled" /\ r.next # Never =>
                   /\ r.next \in Nat
                   /\ now < r.next \/ (p \in Armed(row) /\ r.next = row[p].next)
      BY <1>7, EditEffect DEF IInv
    <2>3. fired' = fired \/ fired' = [fired EXCEPT ![p] = [t \in 0..MaxTime |-> 0]]
      BY <1>7, EditEffect DEF IInv
    <2>4. now' = now /\ up
      BY <1>7, EditEffect DEF IInv, AtAwait
    <2>5. CASE tick.pc = "fire"
      <3>1. /\ tick.prompt \in Prompts /\ tick.next \in Nat /\ tick.next <= now
            /\ tick.prompt \in Armed(row) => tick.next < row[tick.prompt].next
            /\ \A t \in 0..MaxTime : t >= tick.next => fired[tick.prompt][t] = 0
        BY <2>5 DEF IInv, InHand
      <3>2. \A t \in 0..MaxTime : t >= tick.next => fired'[tick.prompt][t] = 0
        <4>1. [t \in 0..MaxTime |-> 0] \in Counts
          BY DEF Counts
        <4>2. fired'[tick.prompt] \in {fired[tick.prompt], [t \in 0..MaxTime |-> 0]}
          BY <1>1, <2>3, <3>1, <4>1
        <4>3. QED  BY <3>1, <4>2
      <3>3. CASE tick.prompt = p
        <4>1. row'[p] = r
          BY <1>1, <2>2
        <4>2. tick.prompt \in Armed(row') => tick.next < r.next
          BY <1>1, <2>2, <3>1, <3>3, <4>1 DEF Armed
        <4>3. QED  BY <2>1, <2>4, <3>1, <3>2, <3>3, <4>1, <4>2 DEF InHand
      <3>4. CASE tick.prompt # p
        <4>1. row'[tick.prompt] = row[tick.prompt]
          BY <1>1, <2>2, <3>1, <3>4
        <4>2. tick.prompt \in Armed(row') => tick.prompt \in Armed(row)
          BY <3>1, <4>1 DEF Armed
        <4>3. QED  BY <2>1, <2>4, <3>1, <3>2, <4>1, <4>2 DEF InHand
      <3>5. QED  BY <3>3, <3>4
    <2>6. QED  BY <1>3, <2>1, <2>4, <2>5
  <1>8. ASSUME NEW p \in Prompts, TakeRow(p) PROVE InHand'
    <2>1. up' /\ tick.pc = "row" /\ UNCHANGED <<now, fired>>
      BY <1>8 DEF TakeRow
    <2>2. CASE tick' = [tick EXCEPT !.due = @ \ {p}]
      <3>1. tick'.pc = "row"
        BY <1>2, <2>1, <2>2
      <3>2. QED  BY <1>3, <2>1, <3>1
    <2>3. CASE tick' = [tick EXCEPT !.due = @ \ {p}, !.pc = "fire", !.prompt = p,
                                    !.next = row[p].next]
      <3> DEFINE n == Next1(row[p].spec, tick.now)
      <3>1. row' = [row EXCEPT ![p].next = n] /\ p \in Armed(row)
            /\ row[p].next \in Nat /\ row[p].next <= tick.now
        <4>1. tick'.pc = "fire"
          BY <1>2, <2>3
        <4>2. tick' # [tick EXCEPT !.due = @ \ {p}]
          BY <1>2, <2>1, <4>1
        <4>3. tick' # Idle
          BY <4>1 DEF Idle
        <4>4. QED  BY <1>8, <4>2, <4>3, TakenRow, Zenon DEF IInv
      <3>2. tick.now \in Nat /\ tick.now <= now
        BY DEF IInv, Types
      <3>3. tick'.prompt = p /\ tick'.next = row[p].next
        BY <1>2, <2>3
      <3>4. row[p].spec \in Specs
        BY <1>1 DEF Rows
      <3>5. n # Never => n \in Nat /\ tick.now < n
        BY <3>2, <3>4, NextIsLater
      <3> HIDE DEF n
      <3>6. row'[p].next = n /\ row'[p].state = row[p].state
        BY <1>1, <3>1 DEF Rows
      <3>7. row[p].state = "enabled"
        BY <3>1 DEF Armed
      <3>8. n # Never => row[p].next < n
        BY <3>1, <3>2, <3>5
      <3>9. row[p].next <= now
        BY <1>1, <3>1, <3>2
      <3>10. \A t \in 0..MaxTime : t >= row[p].next => fired[p][t] = 0
        BY <3>1 DEF IInv, Unfired
      <3>11. p \in Armed(row') => row[p].next < row'[p].next
        BY <3>6, <3>8 DEF Armed
      <3>12. QED  BY <2>1, <3>1, <3>3, <3>9, <3>10, <3>11 DEF InHand
    <2>4. CASE tick' = Idle
      BY <1>6, <2>4
    <2>5. QED  BY <1>8, <2>2, <2>3, <2>4, TakenRow DEF IInv
  <1>9. ASSUME NEW p \in Prompts, Damage(p) PROVE InHand'
    <2>1. \A q \in Prompts : row'[q].state = row[q].state /\ row'[q].next = row[q].next
      BY <1>1, <1>9 DEF Damage, Corrupt, Rows
    <2>2. UNCHANGED <<now, up, tick, fired>>
      BY <1>9 DEF Damage, Corrupt
    <2>3. Armed(row') = Armed(row)
      BY <2>1 DEF Armed
    <2>4. tick.pc = "fire" /\ tick.prompt \in Prompts =>
            row'[tick.prompt].next = row[tick.prompt].next
      BY <2>1
    <2>5. QED  BY <2>2, <2>3, <2>4 DEF IInv, InHand
  <1>10. CASE TimerFires
    <2>1. /\ up' = up /\ up /\ UNCHANGED <<now, row, fired>>
          /\ \/ UNCHANGED tick \/ \E n \in {0, 1} : Done(row, n)
             \/ tick' = [tick EXCEPT !.pc = "loading", !.now = now, !.due = DueAt(row, now)]
      BY <1>10, Zenon DEF TimerFires, AtAwait
    <2>2. CASE UNCHANGED tick
      BY <2>1, <2>2 DEF IInv, InHand, Armed
    <2>3. QED  BY <1>3, <1>5, <1>6, <2>1, <2>2 DEF Done
  <1>11. CASE StillLoading
    BY <1>6, <1>11 DEF StillLoading
  <1>12. CASE Checked
    BY <1>3, <1>5, <1>6, <1>12 DEF Checked, AtAwait, Done
  <1>13. CASE Fire
    BY <1>3, <1>5, <1>13 DEF Fire
  <1>14. CASE FireEnds
    BY <1>3, <1>5, <1>14 DEF FireEnds
  <1>15. CASE TickEnds
    BY <1>6, <1>15 DEF TickEnds, Done
  <1>16. CASE Advance
    <2>1. UNCHANGED <<up, tick, row, fired>> /\ now' = now + 1
      BY <1>16 DEF Advance
    <2>2. \A t \in Nat : t <= now => t <= now + 1
      BY <1>1
    <2>3. QED  BY <2>1, <2>2 DEF IInv, InHand, Armed
  <1>17. CASE Crash
    BY <1>6, <1>17 DEF Crash
  <1>18. CASE Start
    <2>1. ~up /\ tick' = tick
      BY <1>18 DEF Start
    <2>2. QED  BY <1>4, <2>1 DEF IInv, InHand
  <1>19. CASE UNCHANGED vars
    BY <1>19 DEF vars, IInv, InHand
  <1>20. QED
    BY <1>7, <1>8, <1>9, <1>10, <1>11, <1>12, <1>13, <1>14, <1>15, <1>16, <1>17, <1>18,
       <1>19,
       Steps

\* The invariant holds in every reachable state.
LEMMA Invariance == Spec => []IInv
  <1>1. IInv /\ [Next]_vars => IInv'
    BY TypesStep, CoveredStep, UnfiredStep, InHandStep DEF IInv
  <1>2. QED  BY InitInv, <1>1, PTL DEF Spec

-----------------------------------------------------------------------------
(* What holds of the scheduler                                             *)

\* While core runs and no tick is under way, a timer is armed for every enabled
\* row with a next run, through edits, failed checks, crashes and sleep.
THEOREM NeverDisarmedEver == Spec => []NeverDisarmed
  <1>1. IInv => NeverDisarmed
    <2> SUFFICES ASSUME IInv PROVE NeverDisarmed
      OBVIOUS
    <2>1. \A p \in Prompts : /\ row[p].spec \in Specs /\ row[p].next \in Nat \cup {Never}
                             /\ row[p].missed \in BOOLEAN
                             /\ row[p].json \in {"good", "unparsable", "invalid"}
      BY DEF IInv, Types, Rows, Times
    <2>2. TypeOK
      BY <2>1 DEF IInv, Types, Times, Timers, TypeOK
    <2>3. QED  BY <2>2 DEF IInv, Covered, NeverDisarmed
  <1>2. QED  BY <1>1, Invariance, PTL

\* What a tick takes to be fired is due and enabled, and no occurrence opens two
\* sessions: no edit, overlapping tick, failed query or crash makes one fire again.
THEOREM FiresOnce == Spec => FiresOnceWhatIsDue
  <1>1. ASSUME IInv, [Next]_vars, NEW p \in Prompts, NEW t \in 0..MaxTime,
               fired'[p][t] > fired[p][t]
        PROVE  fired[p][t] = 0 /\ t <= now
    <2>1. fired \in [Prompts -> Counts] /\ fired[p][t] \in Nat
      BY <1>1 DEF IInv, Types, Counts
    <2>2. fired' # fired
      BY <1>1, <2>1
    <2>3. ASSUME NEW q \in Prompts, Edit(q) PROVE FALSE
      <3>1. fired' = [fired EXCEPT ![q] = [s \in 0..MaxTime |-> 0]]
        BY <1>1, <2>2, <2>3, EditEffect DEF IInv
      <3>2. fired'[p][t] = 0 \/ fired'[p][t] = fired[p][t]
        BY <2>1, <3>1
      <3>3. QED  BY <1>1, <2>1, <3>2
    <2>4. Fire
      BY <1>1, <2>2, <2>3, Steps DEF TakeRow, Damage, Corrupt, TimerFires, StillLoading,
         Checked, FireEnds, TickEnds, Advance, Crash, Start, vars
    <2>5. /\ tick.prompt \in Prompts /\ tick.next \in Nat /\ tick.next <= now
          /\ \A s \in 0..MaxTime : s >= tick.next => fired[tick.prompt][s] = 0
      BY <1>1, <2>4 DEF Fire, IInv, InHand
    <2>6. p = tick.prompt /\ t = tick.next
      <3>1. fired' = [fired EXCEPT ![tick.prompt][tick.next] = @ + 1]
        BY <2>2, <2>4 DEF Fire
      <3>2. p # tick.prompt \/ t # tick.next => fired'[p][t] = fired[p][t]
        BY <2>1, <2>5, <3>1 DEF Counts
      <3>3. QED  BY <1>1, <2>1, <3>2
    <2>7. t >= t
      OBVIOUS
    <2>8. QED  BY <2>5, <2>6, <2>7
  <1>2. ASSUME IInv, [Next]_vars, tick.pc = "row", tick'.pc = "fire"
        PROVE  row[tick'.prompt].state = "enabled" /\ tick'.next <= now
    <2>1. \A pc : tick' = [tick EXCEPT !.pc = pc] => pc = "fire"
      BY <1>2 DEF IInv, Types
    <2>2. ~ UNCHANGED tick /\ tick' # Idle
      BY <1>2 DEF Idle
    <2>3. PICK p \in Prompts : TakeRow(p)
      BY <1>2, <2>1, <2>2, Steps, EditEffect DEF IInv, Damage, Corrupt, TimerFires,
         StillLoading, Checked, Fire, FireEnds, TickEnds, Done, Advance, Crash, Start, vars,
         AtAwait
    <2>4. tick' # [tick EXCEPT !.due = @ \ {p}]
      BY <1>2 DEF IInv, Types
    <2>5. /\ tick' = [tick EXCEPT !.due = @ \ {p}, !.pc = "fire", !.prompt = p,
                                  !.next = row[p].next]
          /\ p \in Armed(row) /\ row[p].next \in Nat /\ row[p].next <= tick.now
      BY <1>2, <2>2, <2>3, <2>4, TakenRow, Zenon DEF IInv
    <2>6. tick'.prompt = p /\ tick'.next = row[p].next
      BY <1>2, <2>5 DEF IInv, Types
    <2>7. tick.now \in Nat /\ now \in Nat /\ tick.now <= now
      BY <1>2 DEF IInv, Types
    <2>8. row[p].state = "enabled" /\ row[p].next <= now
      BY <2>5, <2>7 DEF Armed
    <2>9. QED  BY <2>6, <2>8
  <1>3. IInv /\ [Next]_vars =>
          /\ \A p \in Prompts : \A t \in 0..MaxTime :
               fired'[p][t] > fired[p][t] => fired[p][t] = 0 /\ t <= now
          /\ tick.pc = "row" /\ tick'.pc = "fire" =>
               row[tick'.prompt].state = "enabled" /\ tick'.next <= now
    BY <1>1, <1>2
  <1>4. QED  BY <1>3, Invariance, PTL DEF Spec, FiresOnceWhatIsDue

=============================================================================
