------------------------- MODULE DownloadsProofs -------------------------
(***************************************************************************)
(* Proofs about Downloads, for any files and callers and any number of     *)
(* cancels, retries, removals and faults: a row that is not at its end has *)
(* a worker, and the worker has the permit or is in line for it.           *)
(***************************************************************************)
EXTENDS Downloads, FiniteSetTheorems, TLAPS

Ends == {"none", "Completed", "Error", "Cancelled"}
Open == {"Pending", "Downloading"}
Holding == {"granted", "asking", "unanswered", "deaf", "streaming", "clearing"}
Workers == {"none", "queued", "threw"} \cup Holding

\* The types, in full.
Types ==
    /\ row \in [Files -> Ends \cup Open] /\ onDisk \in [Files -> BOOLEAN]
    /\ inFlight \in [Files -> {"none", "live", "aborted"}] /\ worker \in [Files -> Workers]
    /\ resumed \subseteq Files /\ permit \in Files \cup {None, Pause, Lost}
    /\ waiters \in Seq(Files)
    /\ call \in [Callers -> [pc : {"none", "there", "missing", "joined", "settled"},
                             file : Files]]
    /\ up \in BOOLEAN /\ stranded \subseteq Files
    /\ check \in [Files -> {"none", "listed", "missing"}]

\* A worker and its entry come and go together; a row that is not at its end has
\* one, unless its retry threw, and a worker that clears up has ended its row.  A
\* process that is down has neither workers nor a permit in use.
Paired == \A f \in Files : inFlight[f] = "none" <=> worker[f] = "none"
Worked == \A f \in Files : /\ row[f] \in Open => worker[f] # "none" \/ f \in stranded
                           /\ worker[f] = "clearing" => row[f] \notin Open
Entered ==
    /\ Paired /\ (up => Worked)
    /\ ~up => permit = None /\ \A f \in Files : worker[f] = "none"

\* One worker at a time is past the semaphore, the one that holds the permit.
Held == \A f \in Files : worker[f] \in Holding <=> permit = f

\* The workers in line are those that wait, each once, and behind a holder.
Once(q) == \A i, j \in 1..Len(q) : q[i] = q[j] => i = j
Members(q) == {q[i] : i \in 1..Len(q)}
Lined ==
    /\ Once(waiters) /\ Members(waiters) = {f \in Files : worker[f] = "queued"}
    /\ permit = None => waiters = << >>

IInv == Types /\ Entered /\ Held /\ Lined

-----------------------------------------------------------------------------
(* Sequences without repetitions                                           *)

\* Appending a new member.
LEMMA AppendNew ==
  ASSUME NEW S, NEW q \in Seq(S), NEW e \in S, e \notin Members(q), Once(q)
  PROVE  /\ Append(q, e) \in Seq(S) /\ Once(Append(q, e))
         /\ Members(Append(q, e)) = Members(q) \cup {e}
  <1> DEFINE t == Append(q, e)
  <1>1. /\ t \in Seq(S) /\ Len(t) = Len(q) + 1
        /\ \A j \in 1..Len(q) : t[j] = q[j]
        /\ t[Len(q) + 1] = e
    OBVIOUS
  <1> HIDE DEF t
  <1>2. Once(t)
    BY <1>1 DEF Once, Members
  <1>3. Members(t) = Members(q) \cup {e}
    BY <1>1 DEF Members
  <1>4. QED  BY <1>1, <1>2, <1>3 DEF t

\* Taking the head.
LEMMA TailOnce ==
  ASSUME NEW S, NEW q \in Seq(S), q # << >>, Once(q)
  PROVE  /\ Head(q) \in S /\ Head(q) \in Members(q)
         /\ Tail(q) \in Seq(S) /\ Once(Tail(q))
         /\ Members(Tail(q)) = Members(q) \ {Head(q)}
  <1> DEFINE t == Tail(q)
  <1>1. /\ t \in Seq(S) /\ Len(t) = Len(q) - 1 /\ Len(q) \in Nat \ {0}
        /\ \A j \in 1..(Len(q) - 1) : t[j] = q[j + 1]
        /\ Head(q) = q[1] /\ q[1] \in S
    OBVIOUS
  <1> HIDE DEF t
  <1>2. Once(t)
    <2> SUFFICES ASSUME NEW a \in 1..(Len(q) - 1), NEW b \in 1..(Len(q) - 1), t[a] = t[b]
                 PROVE  a = b
      BY <1>1 DEF Once
    <2>1. \A x, y \in 1..Len(q) : q[x] = q[y] => x = y
      BY DEF Once
    <2>2. QED  BY <1>1, <2>1
  <1>3. Members(t) \subseteq Members(q) \ {Head(q)} /\ Head(q) \in Members(q)
    BY <1>1 DEF Once, Members
  <1>4. ASSUME NEW x \in Members(q) \ {Head(q)} PROVE x \in Members(t)
    <2>1. PICK k \in 1..Len(q) : q[k] = x /\ k # 1
      BY <1>1 DEF Members
    <2>2. k - 1 \in 1..(Len(q) - 1) /\ t[k - 1] = q[k]
      BY <1>1, <2>1
    <2>3. QED  BY <1>1, <2>1, <2>2 DEF Members
  <1>5. QED  BY <1>1, <1>2, <1>3, <1>4 DEF t

\* The empty sequence has no members, and a sequence without members is empty.
LEMMA NoMembers ==
  ASSUME NEW S, NEW q \in Seq(S)
  PROVE  /\ Once(<< >>) /\ Members(<< >>) = {}
         /\ Members(q) = {} => q = << >>
  <1>1. Once(<< >>) /\ Members(<< >>) = {}
    BY DEF Once, Members
  <1>2. ASSUME Members(q) = {} PROVE q = << >>
    <2>1. Len(q) \in Nat /\ (Len(q) > 0 => 1 \in 1..Len(q))
      OBVIOUS
    <2>2. Len(q) = 0
      BY <1>2, <2>1 DEF Members
    <2>3. QED  BY <2>2
  <1>3. QED  BY <1>1, <1>2

\* A member stands at one place.
LEMMA OnePlace ==
  ASSUME NEW S, NEW q \in Seq(S), Once(q), NEW e \in Members(q)
  PROVE  Cardinality({i \in DOMAIN q : q[i] = e}) = 1
  <1>1. DOMAIN q = 1..Len(q)
    OBVIOUS
  <1>2. PICK k \in 1..Len(q) : q[k] = e
    BY DEF Members
  <1>3. {i \in DOMAIN q : q[i] = e} = {k}
    BY <1>1, <1>2 DEF Once
  <1>4. QED  BY <1>3, FS_Singleton

-----------------------------------------------------------------------------
(* The semaphore                                                           *)

Semaphore ==
    /\ worker \in [Files -> Workers] /\ permit \in Files \cup {None, Pause, Lost}
    /\ waiters \in Seq(Files) /\ Held /\ Lined

\* The permit's values that are no file.
LEMMA NoFile == None \notin Files /\ Pause \notin Files /\ Lost \notin Files
                /\ None # Pause /\ None # Lost
  <1>1. Files \cap {None, Pause, Lost} = {} /\ Cardinality({None, Pause, Lost}) = 3
    BY DownloadsAssumption
  <1>2. ASSUME None = Pause \/ None = Lost PROVE FALSE
    <2>1. IsFiniteSet({None}) /\ Cardinality({None}) = 1
      BY FS_Singleton
    <2>2. ASSUME NEW x PROVE Cardinality({None} \cup {x}) # 3
      <3>1. Cardinality({None} \cup {x})
              = IF x \in {None} THEN Cardinality({None}) ELSE Cardinality({None}) + 1
        BY <2>1, FS_AddElement, Zenon
      <3>2. QED  BY <2>1, <3>1
    <2>3. {None, Pause, Lost} = {None} \cup {Lost} \/ {None, Pause, Lost} = {None} \cup {Pause}
      BY <1>2
    <2>4. QED  BY <1>1, <2>2, <2>3
  <1>3. QED  BY <1>1, <1>2

\* A worker that changes without leaving its place, or that never had one.
LEMMA WorkerMoves ==
  ASSUME Semaphore, NEW f \in Files, NEW x \in Workers,
         (worker[f] \in Holding /\ x \in Holding) \/ (worker[f] = "none" /\ x = "threw"),
         worker' = [worker EXCEPT ![f] = x], UNCHANGED <<permit, waiters>>
  PROVE  Semaphore'
  <1>1. worker' \in [Files -> Workers] /\ worker'[f] = x
        /\ \A g \in Files \ {f} : worker'[g] = worker[g]
    BY DEF Semaphore
  <1>2. Held'
    BY <1>1 DEF Semaphore, Held, Holding
  <1>3. {g \in Files : worker'[g] = "queued"} = {g \in Files : worker[g] = "queued"}
    BY <1>1 DEF Holding
  <1>4. Lined'
    BY <1>3 DEF Semaphore, Lined
  <1>5. QED  BY <1>1, <1>2, <1>4 DEF Semaphore

\* The first of these.
LEMMA HolderMoves ==
  ASSUME Semaphore, NEW f \in Files, NEW x \in Holding, worker[f] \in Holding,
         worker' = [worker EXCEPT ![f] = x], UNCHANGED <<permit, waiters>>
  PROVE  Semaphore'
  <1>1. x \in Workers
    BY DEF Workers
  <1>2. (worker[f] \in Holding /\ x \in Holding) \/ (worker[f] = "none" /\ x = "threw")
    OBVIOUS
  <1>3. QED  BY <1>1, <1>2, WorkerMoves

\* A worker that ends while the permit is kept, or that loses it.
LEMMA HolderLeaves ==
  ASSUME Semaphore, NEW f \in Files, NEW x \in {"none", "threw"}, worker[f] \in Holding,
         worker' = [worker EXCEPT ![f] = x], permit' \in {Pause, Lost}, UNCHANGED waiters
  PROVE  Semaphore'
  <1>1. worker' \in [Files -> Workers] /\ worker'[f] = x
        /\ \A g \in Files \ {f} : worker'[g] = worker[g]
    BY DEF Semaphore, Workers
  <1>2. Held'
    <2>1. \A g \in Files \ {f} : worker[g] \notin Holding
      BY DEF Semaphore, Held
    <2>2. x \notin Holding
      BY DEF Holding
    <2>3. QED  BY <1>1, <2>1, <2>2, NoFile DEF Held
  <1>3. {g \in Files : worker'[g] = "queued"} = {g \in Files : worker[g] = "queued"}
    BY <1>1 DEF Holding
  <1>4. Lined'
    BY <1>3, NoFile DEF Semaphore, Lined
  <1>5. QED  BY <1>1, <1>2, <1>4 DEF Semaphore

\* A new worker takes the free permit or gets in line.
LEMMA WorkerEnters ==
  ASSUME Semaphore, NEW f \in Files, worker[f] = "none", Acquire(f)
  PROVE  /\ Semaphore'
         /\ worker'[f] \in {"granted", "queued"} /\ \A g \in Files \ {f} : worker'[g] = worker[g]
  <1>1. CASE permit = None
    <2>1. permit' = f /\ worker' = [worker EXCEPT ![f] = "granted"] /\ waiters' = waiters
      BY <1>1 DEF Acquire
    <2>2. worker' \in [Files -> Workers] /\ worker'[f] = "granted"
          /\ \A g \in Files \ {f} : worker'[g] = worker[g]
      BY <2>1 DEF Semaphore, Workers, Holding
    <2>3. \A g \in Files : worker[g] \notin Holding
      BY <1>1, NoFile DEF Semaphore, Held
    <2>4. Held'
      BY <2>1, <2>2, <2>3 DEF Held, Holding
    <2>5. {g \in Files : worker'[g] = "queued"} = {g \in Files : worker[g] = "queued"}
      BY <2>2
    <2>6. Lined'
      BY <2>1, <2>5, NoFile DEF Semaphore, Lined
    <2>7. QED  BY <2>1, <2>2, <2>4, <2>6 DEF Semaphore
  <1>2. CASE permit # None
    <2>1. permit' = permit /\ worker' = [worker EXCEPT ![f] = "queued"]
          /\ waiters' = Append(waiters, f)
      BY <1>2 DEF Acquire
    <2>2. worker' \in [Files -> Workers] /\ worker'[f] = "queued"
          /\ \A g \in Files \ {f} : worker'[g] = worker[g]
      BY <2>1 DEF Semaphore, Workers, Holding
    <2>3. Held'
      BY <2>1, <2>2 DEF Semaphore, Held, Holding
    <2>4. Members(waiters) = {g \in Files : worker[g] = "queued"} /\ f \notin Members(waiters)
      BY DEF Semaphore, Lined
    <2>5. waiters' \in Seq(Files) /\ Once(waiters') /\ Members(waiters') = Members(waiters) \cup {f}
      BY <2>1, <2>4, AppendNew DEF Semaphore, Lined
    <2>6. {g \in Files : worker'[g] = "queued"} = {g \in Files : worker[g] = "queued"} \cup {f}
      BY <2>2
    <2>7. Lined'
      BY <1>2, <2>1, <2>4, <2>5, <2>6 DEF Lined
    <2>8. QED  BY <2>1, <2>2, <2>3, <2>5, <2>7 DEF Semaphore
  <1>3. QED  BY <1>1, <1>2

\* When nobody is past the semaphore its permit goes to the first in line.
LEMMA PermitPasses ==
  ASSUME Semaphore, NEW w \in [Files -> Workers], \A g \in Files : w[g] \notin Holding,
         \A g \in Files : w[g] = "queued" <=> worker[g] = "queued", Release(w)
  PROVE  Semaphore' /\ \A g \in Files : /\ worker'[g] = "none" <=> w[g] = "none"
                                        /\ worker'[g] # "clearing"
  <1>1. Members(waiters) = {g \in Files : w[g] = "queued"} /\ Once(waiters)
        /\ waiters \in Seq(Files)
    BY DEF Semaphore, Lined
  <1>2. CASE waiters = << >>
    <2>1. permit' = None /\ worker' = w /\ waiters' = waiters
      BY <1>2 DEF Release
    <2>2. Held'
      BY <2>1, NoFile DEF Held
    <2>3. Lined'
      BY <1>1, <1>2, <2>1 DEF Lined
    <2>4. QED  BY <1>1, <2>1, <2>2, <2>3 DEF Semaphore, Holding
  <1>3. CASE waiters # << >>
    <2> DEFINE h == Head(waiters)
    <2>1. permit' = h /\ waiters' = Tail(waiters) /\ worker' = [w EXCEPT ![h] = "granted"]
      BY <1>3 DEF Release
    <2>2. h \in Files /\ h \in Members(waiters) /\ Tail(waiters) \in Seq(Files)
          /\ Once(Tail(waiters)) /\ Members(Tail(waiters)) = Members(waiters) \ {h}
      BY <1>1, <1>3, TailOnce
    <2> HIDE DEF h
    <2>3. w[h] = "queued"
      BY <1>1, <2>2
    <2>4. worker' \in [Files -> Workers] /\ worker'[h] = "granted"
          /\ \A g \in Files \ {h} : worker'[g] = w[g]
      BY <2>1, <2>2 DEF Workers, Holding
    <2>5. Held'
      BY <2>1, <2>2, <2>4 DEF Held, Holding
    <2>6. {g \in Files : worker'[g] = "queued"} = {g \in Files : w[g] = "queued"} \ {h}
      BY <2>4
    <2>7. Lined'
      BY <1>1, <2>1, <2>2, <2>6, NoFile DEF Lined
    <2>8. QED  BY <2>1, <2>2, <2>3, <2>4, <2>5, <2>7 DEF Semaphore, Holding
  <1>4. QED  BY <1>2, <1>3

\* After a restart the pending rows have the permit or are in line, in some order.
LEMMA LineForms ==
  ASSUME NEW pending \in SUBSET Files, pending # {}, IsFiniteSet(Files),
         NEW order \in [1..Cardinality(pending) -> pending],
         \A f \in pending : \E i \in DOMAIN order : order[i] = f,
         permit' = order[1], waiters' = Tail(order),
         worker' = [f \in Files |-> IF f = order[1] THEN "granted"
                                    ELSE IF f \in pending THEN "queued" ELSE "none"]
  PROVE  Semaphore' /\ \A f \in Files : /\ worker'[f] = "none" <=> f \notin pending
                                        /\ worker'[f] # "clearing"
  <1> DEFINE n == Cardinality(pending)
  <1>1. IsFiniteSet(pending) /\ n \in Nat /\ n # 0
    BY FS_Subset, FS_CardinalityType, FS_EmptySet
  <1>2. IsFiniteSet(1..n) /\ Cardinality(1..n) = n
    BY <1>1, FS_Interval
  <1>3. order \in Surjection(1..n, pending)
    BY DEF Surjection
  <1>4. order \in Injection(1..n, pending)
    BY <1>2, <1>3, FS_SurjSameCardinalityImpliesInj
  <1> HIDE DEF n
  <1>5. order \in [1..n -> pending]
    BY DEF n
  <1>6. order \in Seq(Files) /\ order # << >> /\ Head(order) = order[1] /\ Len(order) = n
        /\ 1 \in 1..n
    BY <1>1, <1>5
  <1>7. Once(order) /\ Members(order) = pending
    <2>1. \A f \in pending : \E i \in 1..n : order[i] = f
      BY <1>5
    <2>2. \A i, j \in 1..n : order[i] = order[j] => i = j
      BY <1>4, <1>5 DEF Injection, IsInjective
    <2>3. \A i \in 1..n : order[i] \in pending
      BY <1>5
    <2>4. QED  BY <1>6, <2>1, <2>2, <2>3 DEF Once, Members
  <1>8. order[1] \in pending /\ Tail(order) \in Seq(Files) /\ Once(Tail(order))
        /\ Members(Tail(order)) = pending \ {order[1]}
    BY <1>5, <1>6, <1>7, TailOnce
  <1>9. worker' \in [Files -> Workers]
    BY DEF Workers, Holding
  <1>10. \A f \in Files : worker'[f] = IF f = order[1] THEN "granted"
                                       ELSE IF f \in pending THEN "queued" ELSE "none"
    OBVIOUS
  <1>11. Held'
    BY <1>8, <1>10 DEF Held, Holding
  <1>12. {f \in Files : worker'[f] = "queued"} = pending \ {order[1]}
    BY <1>8, <1>10
  <1>13. Lined'
    BY <1>8, <1>12, NoFile DEF Lined
  <1>14. QED  BY <1>8, <1>9, <1>10, <1>11, <1>13 DEF Semaphore

-----------------------------------------------------------------------------
(* The inductive invariant                                                 *)

\* Settling calls keeps their types.
LEMMA SettleTypes ==
  ASSUME Types, NEW cs, Settle(cs)
  PROVE  call' \in [Callers -> [pc : {"none", "there", "missing", "joined", "settled"},
                                file : Files]]
  BY DEF Types, Settle

\* A step that changes the entry or the worker of one file alone.
LEMMA PairedStep ==
  ASSUME Paired, NEW f \in Files, inFlight'[f] = "none" <=> worker'[f] = "none",
         \A g \in Files \ {f} : /\ inFlight'[g] = inFlight[g]
                                /\ worker'[g] = "none" <=> worker[g] = "none"
  PROVE  Paired'
  BY DEF Paired

\* A step that changes the row or the worker of one file alone.
LEMMA WorkedStep ==
  ASSUME Worked, NEW f \in Files, row'[f] \in Open => worker'[f] # "none" \/ f \in stranded',
         worker'[f] = "clearing" => row'[f] \notin Open,
         \A g \in Files \ {f} : /\ row'[g] = row[g] /\ (g \in stranded => g \in stranded')
                                /\ worker'[g] = "none" => worker[g] = "none"
                                /\ worker'[g] = "clearing" => worker[g] = "clearing"
  PROVE  Worked'
  BY DEF Worked

\* What a write of a row does to it.
LEMMA WrittenRow ==
  ASSUME Types, NEW f \in Files, NEW s \in Ends \cup Open
  PROVE  /\ SetStatus(f, s) \in [Files -> Ends \cup Open]
         /\ SetStatus(f, s)[f] \in {"none", s}
         /\ \A g \in Files \ {f} : SetStatus(f, s)[g] = row[g]
  BY DEF Types, SetStatus, Ends

\* What a store error inside spawn() does.
LEMMA ThrowsEffect ==
  ASSUME Types, Semaphore, Entered, up, NEW f \in Files, worker[f] \in Holding,
         NEW s \in Ends \cup Open, Throws(f, s), UNCHANGED stranded
  PROVE  /\ Semaphore' /\ resumed' \subseteq Files /\ UNCHANGED <<waiters, call>>
         /\ row' \in [Files -> Ends \cup Open]
         /\ inFlight' \in [Files -> {"none", "live", "aborted"}]
         /\ Paired' /\ Worked'
  <1>1. permit' = Lost /\ resumed' = resumed \ {f} /\ UNCHANGED <<waiters, call>>
    BY DEF Throws
  <1>2. PICK w \in {row, SetStatus(f, s)} :
           \/ /\ row' = IF w[f] \in Open THEN [w EXCEPT ![f] = "Error"] ELSE w
              /\ inFlight' = [inFlight EXCEPT ![f] = "none"]
              /\ worker' = [worker EXCEPT ![f] = "none"]
           \/ row' = w /\ worker' = [worker EXCEPT ![f] = "threw"] /\ UNCHANGED inFlight
    BY Zenon DEF Throws, Open
  <1>3. w \in [Files -> Ends \cup Open] /\ \A g \in Files \ {f} : w[g] = row[g]
    BY WrittenRow DEF Types
  <1>4. worker[f] # "none" /\ worker \in [Files -> Workers]
        /\ inFlight \in [Files -> {"none", "live", "aborted"}]
        /\ Paired /\ Worked
    BY DEF Holding, Entered, Types, Paired, Worked
  <1>5. CASE /\ row' = IF w[f] \in Open THEN [w EXCEPT ![f] = "Error"] ELSE w
             /\ inFlight' = [inFlight EXCEPT ![f] = "none"]
             /\ worker' = [worker EXCEPT ![f] = "none"]
    <2>1. row' \in [Files -> Ends \cup Open] /\ row'[f] \notin Open
          /\ \A g \in Files \ {f} : row'[g] = row[g]
      BY <1>3, <1>5 DEF Ends, Open
    <2>2. Semaphore'
      BY <1>1, <1>5, HolderLeaves
    <2>3. inFlight'[f] = "none" /\ worker'[f] = "none"
          /\ \A g \in Files \ {f} : inFlight'[g] = inFlight[g] /\ worker'[g] = worker[g]
      BY <1>4, <1>5
    <2>4. Paired'
      BY <1>4, <2>3, PairedStep
    <2>5. Worked'
      BY <1>4, <2>1, <2>3, WorkedStep
    <2>6. resumed' \subseteq Files /\ inFlight' \in [Files -> {"none", "live", "aborted"}]
      BY <1>1, <1>4, <1>5 DEF Types
    <2>7. QED  BY <1>1, <2>1, <2>2, <2>4, <2>5, <2>6
  <1>6. CASE row' = w /\ worker' = [worker EXCEPT ![f] = "threw"] /\ UNCHANGED inFlight
    <2>1. Semaphore'
      BY <1>1, <1>6, HolderLeaves
    <2>2. inFlight'[f] # "none" /\ worker'[f] = "threw"
          /\ \A g \in Files \ {f} : inFlight'[g] = inFlight[g] /\ worker'[g] = worker[g]
      BY <1>4, <1>6 DEF Paired
    <2>3. Paired'
      BY <1>4, <2>2, PairedStep
    <2>4. Worked'
      BY <1>3, <1>4, <1>6, <2>2, WorkedStep
    <2>5. resumed' \subseteq Files /\ inFlight' \in [Files -> {"none", "live", "aborted"}]
      BY <1>1, <1>4, <1>6 DEF Types
    <2>6. row' \in [Files -> Ends \cup Open]
      BY <1>3, <1>6
    <2>7. QED  BY <1>1, <2>1, <2>3, <2>4, <2>5, <2>6
  <1>7. QED  BY <1>2, <1>5, <1>6

\* What the end of a transfer does.
LEMMA FinishEffect ==
  ASSUME Types, Semaphore, Entered, up, NEW f \in Files, worker[f] \in Holding,
         NEW s \in Ends, row' \in {row, SetStatus(f, s)}, row'[f] \notin Open,
         Finish(f), UNCHANGED <<waiters, stranded>>
  PROVE  /\ Semaphore' /\ resumed' \subseteq Files
         /\ row' \in [Files -> Ends \cup Open]
         /\ inFlight' \in [Files -> {"none", "live", "aborted"}]
         /\ call' \in [Callers -> [pc : {"none", "there", "missing", "joined", "settled"},
                                   file : Files]]
         /\ Paired' /\ Worked'
  <1>1. /\ Settle(Joined(f))
        /\ inFlight' = [inFlight EXCEPT ![f] = "none"]
        /\ worker' = [worker EXCEPT ![f] = "none"] /\ resumed' = resumed \ {f}
        /\ permit' = Pause
    BY DEF Finish
  <1>2. Semaphore'
    BY <1>1, HolderLeaves
  <1>3. row' \in [Files -> Ends \cup Open] /\ \A g \in Files \ {f} : row'[g] = row[g]
    BY WrittenRow DEF Types
  <1>4. inFlight' \in [Files -> {"none", "live", "aborted"}]
        /\ \A g \in Files : inFlight'[g] = "none" <=> worker'[g] = "none"
    BY <1>1 DEF Types, Entered, Paired, Worked
  <1>5. Paired /\ Worked /\ inFlight'[f] = "none" /\ worker'[f] = "none"
        /\ \A g \in Files \ {f} : inFlight'[g] = inFlight[g] /\ worker'[g] = worker[g]
    BY <1>1 DEF Types, Entered
  <1>6. Paired' /\ Worked'
    <2>1. Paired'
      BY <1>5, PairedStep
    <2>2. Worked'
      BY <1>3, <1>5, WorkedStep
    <2>3. QED  BY <2>1, <2>2
  <1>7. QED  BY <1>1, <1>2, <1>3, <1>4, <1>6, SettleTypes DEF Types

\* It holds at the start.
LEMMA InitInv == Init => IInv
  <1> SUFFICES ASSUME Init PROVE IInv
    OBVIOUS
  <1>1. call \in [Callers -> [pc : {"none", "there", "missing", "joined", "settled"},
                              file : Files]]
    BY DEF Init, NoCall
  <1>2. Types
    BY <1>1 DEF Init, Types, Ends, Workers
  <1>3. Entered
    BY DEF Init, Entered, Open, Paired, Worked
  <1>4. Held
    BY NoFile DEF Init, Held, Holding
  <1>5. Lined
    <2>1. {f \in Files : worker[f] = "queued"} = {}
      BY DEF Init
    <2>2. << >> \in Seq(Files) /\ waiters = << >>
      BY DEF Init
    <2>3. Once(<< >>) /\ Members(<< >>) = {}
      BY <2>2, NoMembers
    <2>4. QED  BY <2>1, <2>2, <2>3 DEF Lined
  <1>6. QED  BY <1>2, <1>3, <1>4, <1>5 DEF IInv

\* The invariant, in the parts a step keeps.
LEMMA Parts ==
  IInv <=> /\ Semaphore /\ Entered
           /\ row \in [Files -> Ends \cup Open] /\ onDisk \in [Files -> BOOLEAN]
           /\ inFlight \in [Files -> {"none", "live", "aborted"}] /\ resumed \subseteq Files
           /\ call \in [Callers -> [pc : {"none", "there", "missing", "joined", "settled"},
                                    file : Files]]
           /\ up \in BOOLEAN /\ stranded \subseteq Files
           /\ check \in [Files -> {"none", "listed", "missing"}]
  BY DEF IInv, Types, Semaphore

\* Every step keeps it.
LEMMA NextInv == IInv /\ [Next]_vars => IInv'
  <1> SUFFICES ASSUME IInv, [Next]_vars PROVE IInv'
    OBVIOUS
  <1>1. /\ Semaphore /\ Entered /\ Types
        /\ row \in [Files -> Ends \cup Open] /\ onDisk \in [Files -> BOOLEAN]
        /\ inFlight \in [Files -> {"none", "live", "aborted"}] /\ resumed \subseteq Files
        /\ call \in [Callers -> [pc : {"none", "there", "missing", "joined", "settled"},
                                 file : Files]]
        /\ up \in BOOLEAN /\ stranded \subseteq Files
        /\ check \in [Files -> {"none", "listed", "missing"}]
    BY Parts DEF IInv
  <1> DEFINE Rows == row' \in [Files -> Ends \cup Open]
             Disk == onDisk' \in [Files -> BOOLEAN]
             Flights == inFlight' \in [Files -> {"none", "live", "aborted"}]
             Resumed == resumed' \subseteq Files
             Calls == call' \in [Callers -> [pc : {"none", "there", "missing", "joined",
                                                   "settled"}, file : Files]]
             Side == stranded' \subseteq Files
                     /\ check' \in [Files -> {"none", "listed", "missing"}]
  <1>2. Semaphore' /\ Rows /\ Disk /\ Flights /\ Resumed /\ Calls /\ Paired' /\ Worked' /\ Side
        /\ up' /\ up' \in BOOLEAN
        => IInv'
    BY Parts DEF Entered, IInv, Types, Semaphore, Paired, Worked
  <1>3. /\ UNCHANGED onDisk => Disk
        /\ UNCHANGED row => Rows
        /\ UNCHANGED inFlight => Flights
        /\ UNCHANGED resumed => Resumed
        /\ UNCHANGED call => Calls
        /\ UNCHANGED <<stranded, check>> => Side
        /\ UNCHANGED <<worker, permit, waiters>> => Semaphore'
        /\ UNCHANGED <<inFlight, worker>> => Paired'
    <2>1. UNCHANGED <<worker, permit, waiters>> => Semaphore'
      BY <1>1 DEF Semaphore, Held, Lined
    <2>2. UNCHANGED <<inFlight, worker>> => Paired'
      BY <1>1 DEF Entered, Paired, Worked
    <2>3. QED  BY <1>1, <2>1, <2>2
  <1>4. up /\ UNCHANGED <<row, worker, stranded>> => Worked'
    BY <1>1 DEF Entered, Paired, Worked
  <1>5. \A f \in Files, s \in Ends \cup Open : row' = [row EXCEPT ![f] = s] => Rows
    BY <1>1
  <1>6. \A f \in Files, s \in Ends :
           /\ up /\ row' = [row EXCEPT ![f] = s] /\ UNCHANGED <<worker, check>>
           /\ stranded' \in {stranded, stranded \ {f}}
           => Worked' /\ Side
    BY <1>1 DEF Entered, Ends, Open, Paired, Worked
  <1>7. \A cs : Settle(cs) => Calls
    BY <1>1, SettleTypes
  <1>8. ASSUME NEW c \in Callers PROVE call[c].file \in Files
    BY <1>1
  <1>9. \A c \in Callers, s \in {"there", "missing", "joined"} :
           call' = [call EXCEPT ![c].pc = s] => Calls
    BY <1>1
  <1> HIDE DEF Rows, Disk, Flights, Resumed, Calls, Side
  <1>10. ASSUME NEW c \in Callers, Enqueue(c) PROVE IInv'
    <2>1. up /\ UNCHANGED <<row, onDisk, inFlight, worker, resumed, permit, waiters, stranded,
                            check, up>>
      BY <1>10 DEF Enqueue, workVars
    <2>2. Calls
      BY <1>9, <1>10 DEF Enqueue
    <2>3. QED  BY <1>2, <1>3, <1>4, <2>1, <2>2
  <1>11. ASSUME NEW c \in Callers, EnqueueThere(c) PROVE IInv'
    <2> DEFINE f == call[c].file
    <2>1. f \in Files /\ up /\ UNCHANGED <<onDisk, inFlight, worker, resumed, permit, waiters,
                                          check, up>>
          /\ row' \in {row, [row EXCEPT ![f] = "Completed"]}
          /\ stranded' = (IF row' = row THEN stranded ELSE stranded \ {f}) /\ Settle({c})
      BY <1>8, <1>11 DEF EnqueueThere, workVars
    <2> HIDE DEF f
    <2>2. CASE UNCHANGED row
      BY <1>2, <1>3, <1>4, <1>7, <2>1, <2>2
    <2>3. CASE row' = [row EXCEPT ![f] = "Completed"]
      <3>1. stranded' \in {stranded, stranded \ {f}} /\ "Completed" \in Ends
        BY <2>1 DEF Ends
      <3>2. Rows /\ Worked' /\ Side
        BY <1>5, <1>6, <2>1, <2>3, <3>1
      <3>3. QED  BY <1>2, <1>3, <1>7, <2>1, <3>2
    <2>4. QED  BY <2>1, <2>2, <2>3
  <1>12. ASSUME NEW c \in Callers, EnqueueMissing(c) PROVE IInv'
    <2> DEFINE f == call[c].file
    <2>1. f \in Files /\ up /\ UNCHANGED <<onDisk, resumed, check, up>>
      BY <1>8, <1>12 DEF EnqueueMissing
    <2> HIDE DEF f
    <2>2. CASE /\ call' = [call EXCEPT ![c].pc = "joined"]
               /\ UNCHANGED <<row, inFlight, worker, permit, waiters, stranded>>
      BY <1>2, <1>3, <1>4, <1>9, <2>1, <2>2
    <2>3. CASE /\ inFlight[f] = "none"
               /\ inFlight' = [inFlight EXCEPT ![f] = "live"] /\ stranded' = stranded \ {f}
               /\ row' = [row EXCEPT ![f] = "Pending"]
               /\ call' = [call EXCEPT ![c].pc = "joined"]
               /\ Acquire(f)
      <3>1. Semaphore' /\ worker'[f] \in {"granted", "queued"}
            /\ \A g \in Files \ {f} : worker'[g] = worker[g]
        BY <1>1, <2>1, <2>3, WorkerEnters DEF Entered, Paired, Worked
      <3>2. Rows /\ Calls
        BY <1>5, <1>9, <2>1, <2>3 DEF Open
      <3>3. Flights /\ Paired'
        BY <1>1, <2>1, <2>3, <3>1 DEF Flights, Paired, Entered, Worked
      <3>4. Worked' /\ Side
        <4>1. Worked /\ row'[f] = "Pending" /\ \A g \in Files \ {f} : row'[g] = row[g]
          BY <1>1, <2>1, <2>3 DEF Entered
        <4>2. worker'[f] \notin {"none", "clearing"}
              /\ \A g \in Files \ {f} : /\ worker'[g] = worker[g] /\ row'[g] = row[g]
                                        /\ g \in stranded => g \in stranded'
          BY <2>3, <3>1, <4>1
        <4>3. Worked'
          <5>1. worker'[f] = "clearing" => row'[f] \notin Open
            BY <4>2
          <5>2. row'[f] \in Open => worker'[f] # "none" \/ f \in stranded'
            BY <4>2
          <5>3. QED  BY <2>1, <4>1, <4>2, <5>1, <5>2, WorkedStep
        <4>4. QED  BY <1>1, <2>1, <2>3, <4>3 DEF Side
      <3>5. QED  BY <1>2, <1>3, <2>1, <3>1, <3>2, <3>3, <3>4
    <2>4. CASE /\ inFlight[f] = "none"
               /\ inFlight' = [inFlight EXCEPT ![f] = "live"] /\ stranded' = stranded \ {f}
               /\ row' \in {row, [row EXCEPT ![f] = "Pending"]}
               /\ worker' = [worker EXCEPT ![f] = "threw"]
               /\ Settle({c}) /\ UNCHANGED <<permit, waiters>>
      <3>1. worker[f] = "none" /\ "threw" \in Workers
        BY <1>1, <2>1, <2>4 DEF Entered, Workers, Paired, Worked
      <3>2. Semaphore'
        BY <1>1, <2>1, <2>4, <3>1, WorkerMoves
      <3>3. Flights /\ Paired'
        BY <1>1, <2>1, <2>4 DEF Flights, Paired, Entered, Types, Worked
      <3>4. Worked' /\ Side
        BY <1>1, <2>1, <2>4 DEF Worked, Side, Entered, Types, Paired
      <3>5. Rows
        BY <1>3, <1>5, <2>1, <2>4 DEF Open
      <3>6. QED  BY <1>2, <1>3, <1>7, <2>1, <2>4, <3>2, <3>3, <3>4, <3>5
    <2>5. QED  BY <1>12, <2>2, <2>3, <2>4, Zenon DEF EnqueueMissing, f
  <1>13. ASSUME NEW f \in Files, Cancel(f) PROVE IInv'
    <2>1. up /\ UNCHANGED <<onDisk, worker, resumed, permit, waiters, check, call, up>>
      BY <1>13 DEF Cancel
    <2>2. CASE inFlight[f] = "live" /\ inFlight' = [inFlight EXCEPT ![f] = "aborted"]
               /\ UNCHANGED <<row, stranded>>
      <3>1. Flights /\ Paired'
        BY <1>1, <2>1, <2>2 DEF Flights, Paired, Entered, Worked
      <3>2. QED  BY <1>2, <1>3, <1>4, <2>1, <2>2, <3>1
    <2>3. CASE row' = [row EXCEPT ![f] = "Cancelled"] /\ stranded' = stranded \ {f}
               /\ UNCHANGED inFlight
      <3>1. Rows /\ Worked' /\ Side
        BY <1>5, <1>6, <2>1, <2>3 DEF Ends
      <3>2. QED  BY <1>2, <1>3, <2>1, <2>3, <3>1
    <2>4. QED  BY <1>13, <2>2, <2>3 DEF Cancel
  <1>14. ASSUME NEW f \in Files, Retry(f) PROVE IInv'
    <2>1. up /\ UNCHANGED <<onDisk, resumed, check, call, up>> /\ inFlight[f] = "none"
          /\ row' = [row EXCEPT ![f] = "Pending"] /\ worker[f] = "none"
      BY <1>1, <1>14 DEF Retry, Entered, Paired, Worked
    <2>2. Rows
      BY <1>5, <2>1 DEF Open
    <2>3. CASE Acquire(f) /\ inFlight' = [inFlight EXCEPT ![f] = "live"] /\ UNCHANGED stranded
      <3>1. Semaphore' /\ worker'[f] \in {"granted", "queued"}
            /\ \A g \in Files \ {f} : worker'[g] = worker[g]
        BY <1>1, <2>1, <2>3, WorkerEnters DEF Entered, Paired, Worked
      <3>2. Flights /\ Paired'
        BY <1>1, <2>1, <2>3, <3>1 DEF Flights, Paired, Entered, Worked
      <3>3. Worked'
        BY <1>1, <2>1, <2>3, <3>1 DEF Worked, Entered, Paired
      <3>4. QED  BY <1>2, <1>3, <2>1, <2>2, <2>3, <3>1, <3>2, <3>3
    <2>4. CASE stranded' = stranded \cup {f} /\ UNCHANGED <<inFlight, worker, permit, waiters>>
      <3>1. Worked' /\ Side
        BY <1>1, <2>1, <2>4 DEF Worked, Side, Entered, Paired
      <3>2. QED  BY <1>2, <1>3, <2>1, <2>2, <2>4, <3>1
    <2>5. QED  BY <1>14, <2>3, <2>4 DEF Retry
  <1>15. ASSUME NEW f \in Files, Remove(f) PROVE IInv'
    <2>1. up /\ UNCHANGED <<onDisk, inFlight, worker, resumed, permit, waiters, check, call, up>>
          /\ row' = [row EXCEPT ![f] = "none"] /\ stranded' = stranded \ {f}
      BY <1>15 DEF Remove, workVars
    <2>2. Rows /\ Worked' /\ Side
      BY <1>5, <1>6, <2>1 DEF Ends
    <2>3. QED  BY <1>2, <1>3, <2>1, <2>2

  <1> DEFINE Throw(f) == \E s \in Ends \cup Open : Throws(f, s)
  <1>16. ASSUME NEW f \in Files, Throw(f), up, up', worker[f] \in Holding, Disk,
                UNCHANGED <<stranded, check>>
         PROVE  IInv'
    <2>1. PICK s \in Ends \cup Open : Throws(f, s)
      BY <1>16
    <2>2. Semaphore' /\ Rows /\ Flights /\ Resumed /\ Paired' /\ Worked' /\ UNCHANGED call
      BY <1>1, <1>16, <2>1, ThrowsEffect DEF Rows, Flights, Resumed, Paired, Worked
    <2>3. QED  BY <1>2, <1>3, <1>16, <2>2
  <1>17. ASSUME NEW f \in Files, Begin(f) PROVE IInv'
    <2>1. up /\ up' /\ UNCHANGED <<onDisk, stranded, check, up>> /\ worker[f] = "granted"
          /\ worker[f] \in Holding
      BY <1>17 DEF Begin, Holding
    <2>2. CASE /\ row' = SetStatus(f, "Cancelled")
               /\ inFlight' = [inFlight EXCEPT ![f] = "none"] /\ resumed' = resumed \ {f}
               /\ Settle(Joined(f))
               /\ \/ Release([worker EXCEPT ![f] = "none"])
                  \/ /\ permit' = Lost
                     /\ worker' = [worker EXCEPT ![f] = "none"] /\ UNCHANGED waiters
      <3> DEFINE w == [worker EXCEPT ![f] = "none"]
      <3>1. w \in [Files -> Workers] /\ w[f] = "none" /\ \A g \in Files \ {f} : w[g] = worker[g]
        BY <1>1 DEF Types, Workers
      <3>2. Release(w) \/ (permit' = Lost /\ worker' = w /\ UNCHANGED waiters)
        BY <2>2
      <3> HIDE DEF w
      <3>3. \A g \in Files \ {f} : worker[g] \notin Holding
        BY <1>1, <2>1 DEF Semaphore, Held
      <3>4. \A g \in Files : w[g] \notin Holding /\ (w[g] = "queued" <=> worker[g] = "queued")
        BY <2>1, <3>1, <3>3 DEF Holding
      <3>5. Semaphore' /\ \A g \in Files : /\ worker'[g] = "none" <=> w[g] = "none"
                                           /\ worker'[g] # "clearing"
        <4>1. CASE Release(w)
          BY <1>1, <3>1, <3>4, <4>1, PermitPasses
        <4>2. CASE permit' = Lost /\ worker' = w /\ UNCHANGED waiters
          <5>1. worker' = [worker EXCEPT ![f] = "none"]
            BY <4>2 DEF w
          <5>2. QED  BY <1>1, <2>1, <3>4, <4>2, <5>1, HolderLeaves DEF Holding
        <4>3. QED  BY <3>2, <4>1, <4>2
      <3>6. row' \in [Files -> Ends \cup Open] /\ row'[f] \in {"none", "Cancelled"}
            /\ \A g \in Files \ {f} : row'[g] = row[g]
        BY <1>1, <2>2, WrittenRow DEF Ends
      <3>7. Rows /\ Resumed /\ Calls
        BY <1>1, <1>7, <2>2, <3>6 DEF Rows, Resumed
      <3>8. Flights /\ Paired'
        <4>1. Paired /\ inFlight'[f] = "none" /\ \A g \in Files \ {f} : inFlight'[g] = inFlight[g]
          BY <1>1, <2>2 DEF Entered
        <4>2. Paired'
          BY <3>1, <3>5, <4>1, PairedStep
        <4>3. QED  BY <1>1, <2>2, <4>2 DEF Flights
      <3>9. Worked'
        <4>1. Worked /\ row'[f] \notin Open /\ \A g \in Files \ {f} : row'[g] = row[g]
          BY <1>1, <2>1, <3>6 DEF Entered, Open
        <4>2. QED  BY <2>1, <3>1, <3>5, <4>1, WorkedStep
      <3>10. QED  BY <1>2, <1>3, <2>1, <3>5, <3>7, <3>8, <3>9
    <2>3. CASE /\ row' = SetStatus(f, "Downloading")
               /\ worker' = [worker EXCEPT ![f] = "asking"]
               /\ UNCHANGED <<inFlight, resumed, permit, waiters, call>>
      <3>1. "asking" \in Holding /\ "asking" \in Workers
        BY DEF Holding, Workers
      <3>2. Semaphore'
        <4>1. UNCHANGED <<permit, waiters>> /\ Semaphore /\ worker[f] \in Holding
          BY <1>1, <2>1, <2>3
        <4>2. QED  BY <2>3, <3>1, <4>1, HolderMoves
      <3>3. row' \in [Files -> Ends \cup Open] /\ \A g \in Files \ {f} : row'[g] = row[g]
        BY <1>1, <2>3, WrittenRow DEF Open
      <3>4. Rows /\ Paired' /\ Worked'
        <4>1. worker[f] # "none" /\ worker'[f] = "asking"
              /\ \A g \in Files \ {f} : worker'[g] = worker[g]
          BY <1>1, <2>1, <2>3 DEF Types
        <4>2. QED  BY <1>1, <2>1, <2>3, <3>3, <4>1 DEF Rows, Paired, Worked, Entered
      <3>5. QED  BY <1>2, <1>3, <2>1, <2>3, <3>2, <3>4
    <2>4. CASE Throws(f, row[f]) \/ Throws(f, "Downloading")
      <3>1. row[f] \in Ends \cup Open /\ "Downloading" \in Ends \cup Open
        BY <1>1 DEF Open
      <3>2. QED  BY <1>3, <1>16, <2>1, <2>4, <3>1
    <2>5. QED  BY <1>17, <2>2, <2>3, <2>4, Zenon DEF Begin
  <1>18. ASSUME NEW f \in Files, Ask(f) PROVE IInv'
    <2>1. up /\ UNCHANGED <<row, onDisk, inFlight, resumed, permit, waiters, stranded, check,
                            call, up>>
      BY <1>18 DEF Ask
    <2>2. PICK x \in {"streaming", "unanswered", "deaf"} : worker' = [worker EXCEPT ![f] = x]
      BY <1>18, Zenon DEF Ask
    <2>3. worker[f] \in Holding /\ x \in Holding /\ x \in Workers
      BY <1>18 DEF Ask, Holding, Workers
    <2>4. Semaphore'
      <3>1. UNCHANGED <<permit, waiters>> /\ Semaphore
        BY <1>1, <2>1
      <3>2. QED  BY <2>2, <2>3, <3>1, HolderMoves
    <2>5. Paired' /\ Worked'
      <3>1. worker[f] # "none" /\ worker'[f] \notin {"none", "clearing"}
            /\ \A g \in Files \ {f} : worker'[g] = worker[g]
        BY <1>1, <2>2, <2>3 DEF Types, Holding
      <3>2. QED  BY <1>1, <2>1, <3>1 DEF Paired, Worked, Entered
    <2>6. QED  BY <1>2, <1>3, <2>1, <2>4, <2>5
  <1>19. ASSUME NEW f \in Files, NEW s \in Ends, row' \in {row, SetStatus(f, s)},
                row'[f] \notin Open, Finish(f), up, up', worker[f] \in Holding, Disk,
                UNCHANGED <<waiters, stranded, check>>
         PROVE  IInv'
    <2>1. Semaphore' /\ Rows /\ Flights /\ Resumed /\ Calls /\ Paired' /\ Worked'
      BY <1>1, <1>19, FinishEffect DEF Rows, Flights, Resumed, Calls, Paired, Worked
    <2>2. QED  BY <1>2, <1>3, <1>19, <2>1
  <1>20. ASSUME NEW f \in Files, StreamEnds(f) PROVE IInv'
    <2>1. up /\ up' /\ UNCHANGED <<waiters, stranded, check, up>> /\ worker[f] \in Holding
      BY <1>20 DEF StreamEnds, Holding
    <2>2. Disk
      BY <1>1, <1>20 DEF StreamEnds, Arrives, Disk
    <2>3. CASE \E s \in {"Completed", "Error"} : row' = SetStatus(f, s) /\ Finish(f)
      <3>1. PICK s \in {"Completed", "Error"} : row' = SetStatus(f, s) /\ Finish(f)
        BY <2>3
      <3>2. s \in Ends /\ row'[f] \notin Open
        BY <1>1, <3>1, WrittenRow DEF Ends, Open
      <3>3. QED  BY <1>19, <2>1, <2>2, <3>1, <3>2
    <2>4. CASE /\ row' = SetStatus(f, "Cancelled")
               /\ worker' = [worker EXCEPT ![f] = "clearing"]
               /\ UNCHANGED <<inFlight, resumed, permit, call>>
      <3>1. "clearing" \in Holding /\ "clearing" \in Workers
        BY DEF Holding, Workers
      <3>2. Semaphore'
        <4>1. UNCHANGED <<permit, waiters>> /\ Semaphore /\ worker[f] \in Holding
          BY <1>1, <2>1, <2>4
        <4>2. QED  BY <2>4, <3>1, <4>1, HolderMoves
      <3>3. row' \in [Files -> Ends \cup Open] /\ row'[f] \notin Open
            /\ \A g \in Files \ {f} : row'[g] = row[g]
        <4> DEFINE c == "Cancelled"
        <4>1. c \in Ends \cup Open /\ "none" \notin Open /\ c \notin Open
          BY DEF Ends, Open
        <4>2. row' = SetStatus(f, c) /\ Types
          BY <1>1, <2>4
        <4> HIDE DEF c
        <4>3. QED  BY <4>1, <4>2, WrittenRow
      <3>4. Rows /\ Paired' /\ Worked'
        <4>1. Paired /\ Worked /\ worker[f] # "none" /\ worker'[f] # "none"
              /\ \A g \in Files \ {f} : worker'[g] = worker[g]
          BY <1>1, <2>1, <2>4 DEF Types, Holding, Entered
        <4>2. Paired'
          BY <2>4, <4>1 DEF Paired
        <4>3. Worked'
          BY <2>1, <3>3, <4>1, WorkedStep
        <4>4. QED  BY <3>3, <4>2, <4>3 DEF Rows
      <3>5. QED  BY <1>2, <1>3, <2>1, <2>2, <2>4, <3>2, <3>4
    <2>5. CASE \E s \in {"Completed", "Error", "Cancelled"} : Throws(f, s)
      BY <1>16, <2>1, <2>2, <2>5 DEF Ends
    <2>6. QED  BY <1>20, <2>3, <2>4, <2>5, Zenon DEF StreamEnds
  <1>21. ASSUME NEW f \in Files, Cleared(f) PROVE IInv'
    <2>1. up /\ up' /\ UNCHANGED <<onDisk, stranded, check, up>> /\ worker[f] \in Holding
      BY <1>21 DEF Cleared, Holding
    <2>2. CASE Finish(f) /\ UNCHANGED <<row, waiters>>
      <3>1. row[f] \notin Open /\ "none" \in Ends
        BY <1>1, <1>21 DEF Cleared, Entered, Ends, Paired, Worked
      <3>2. QED  BY <1>3, <1>19, <2>1, <2>2, <3>1
    <2>3. CASE Throws(f, row[f])
      BY <1>1, <1>3, <1>16, <2>1, <2>3
    <2>4. QED  BY <1>21, <2>2, <2>3 DEF Cleared
  <1>22. ASSUME NEW f \in Files, FileDeleted(f) PROVE IInv'
    <2>1. UNCHANGED <<row, inFlight, worker, resumed, permit, waiters, stranded, check, call,
                      up>>
          /\ onDisk' = [onDisk EXCEPT ![f] = FALSE]
      BY <1>22 DEF FileDeleted, workVars
    <2>2. Disk /\ Semaphore' /\ Entered'
      BY <1>1, <1>3, <2>1 DEF Disk, Entered, Paired, Worked
    <2>3. QED  BY <1>1, <2>1, <2>2, Parts DEF Disk, IInv, Types, Semaphore
  <1>23. ASSUME NEW f \in Files, Reconcile(f) PROVE IInv'
    <2>1. up /\ UNCHANGED <<onDisk, inFlight, worker, resumed, permit, waiters, call, up>>
      BY <1>23 DEF Reconcile, ReconcileLists, ReconcileStats, ReconcileDrops, workVars
    <2>2. PICK x \in {"none", "listed", "missing"} : check' = [check EXCEPT ![f] = x]
      BY <1>23, Zenon DEF Reconcile, ReconcileLists, ReconcileStats, ReconcileDrops
    <2>3. CASE ReconcileDrops(f)
      <3>1. row' = [row EXCEPT ![f] = "none"] /\ stranded' = stranded \ {f}
        BY <2>3 DEF ReconcileDrops
      <3>2. Rows
        BY <1>5, <3>1 DEF Ends
      <3>3. Worked' /\ Side
        BY <1>1, <2>1, <2>2, <3>1 DEF Worked, Side, Entered, Open, Paired
      <3>4. QED  BY <1>2, <1>3, <2>1, <3>2, <3>3
    <2>4. CASE ReconcileLists(f) \/ ReconcileStats(f)
      <3>1. UNCHANGED <<row, stranded>>
        BY <2>4 DEF ReconcileLists, ReconcileStats
      <3>2. Worked' /\ Side
        BY <1>1, <1>4, <2>1, <2>2, <3>1 DEF Side
      <3>3. QED  BY <1>2, <1>3, <2>1, <3>1, <3>2
    <2>5. QED  BY <1>23, <2>3, <2>4 DEF Reconcile
  <1>24. CASE PauseEnds
    <2>1. up /\ permit = Pause /\ Release(worker)
          /\ UNCHANGED <<row, onDisk, inFlight, resumed, stranded, check, call, up>>
      BY <1>24 DEF PauseEnds
    <2>2. worker \in [Files -> Workers] /\ \A g \in Files : worker[g] \notin Holding
      BY <1>1, <2>1, NoFile DEF Semaphore, Held
    <2>3. Semaphore' /\ \A g \in Files : /\ worker'[g] = "none" <=> worker[g] = "none"
                                         /\ worker'[g] # "clearing"
      BY <1>1, <2>1, <2>2, PermitPasses
    <2>4. Paired' /\ Worked'
      <3>1. Paired /\ Worked
        BY <1>1, <2>1 DEF Entered
      <3>2. Paired'
        BY <2>1, <2>3, <3>1 DEF Paired
      <3>3. Worked'
        BY <2>1, <2>3, <3>1 DEF Worked
      <3>4. QED  BY <3>2, <3>3
    <2>5. QED  BY <1>2, <1>3, <2>1, <2>3, <2>4
  <1>25. CASE Crash
    <2>1. /\ up' = FALSE /\ permit' = None /\ waiters' = << >> /\ resumed' = {}
          /\ inFlight' = [f \in Files |-> "none"] /\ worker' = [f \in Files |-> "none"]
          /\ Settle({c \in Callers : call[c].pc # "none"}) /\ UNCHANGED <<row, onDisk>>
          /\ stranded' = {} /\ check' = [f \in Files |-> "none"]
      BY <1>25 DEF Crash
    <2>2. worker' \in [Files -> Workers] /\ \A f \in Files : worker'[f] = "none"
      BY <2>1 DEF Workers
    <2>3. Held'
      BY <2>1, <2>2, NoFile DEF Held, Holding
    <2>4. Lined'
      <3>1. {f \in Files : worker'[f] = "queued"} = {}
        BY <2>2
      <3>2. << >> \in Seq(Files)
        OBVIOUS
      <3>3. Once(<< >>) /\ Members(<< >>) = {}
        BY <3>2, NoMembers
      <3>4. QED  BY <2>1, <3>1, <3>3 DEF Lined
    <2>5. Semaphore'
      BY <2>1, <2>2, <2>3, <2>4 DEF Semaphore
    <2>6. Calls
      BY <1>7, <2>1
    <2>7. Entered'
      BY <2>1, <2>2 DEF Entered, Paired, Worked
    <2>8. inFlight' \in [Files -> {"none", "live", "aborted"}] /\ resumed' \subseteq Files
          /\ stranded' \subseteq Files /\ check' \in [Files -> {"none", "listed", "missing"}]
      BY <2>1
    <2>9. QED
      BY <1>1, <2>1, <2>5, <2>6, <2>7, <2>8, Parts DEF Calls, IInv, Types, Semaphore
  <1>26. CASE Restart
    <2> DEFINE pending == {f \in Files : Normalized(f) = "Pending"}
    <2>1. /\ ~up /\ up' = TRUE /\ resumed' = pending
          /\ row' = [f \in Files |-> Normalized(f)]
          /\ inFlight' = [f \in Files |-> IF f \in pending THEN "live" ELSE "none"]
          /\ UNCHANGED <<onDisk, stranded, check, call>>
      BY <1>26 DEF Restart
    <2>2. \A f \in Files : Normalized(f) \in Ends \cup Open
                           /\ (Normalized(f) \in Open => Normalized(f) = "Pending")
      BY <1>1 DEF Normalized, Ends, Open
    <2>3. PICK order \in [1..Cardinality(pending) -> pending] :
             /\ \A f \in pending : \E i \in DOMAIN order : order[i] = f
             /\ IF pending = {} THEN UNCHANGED <<permit, waiters, worker>>
                ELSE /\ permit' = order[1] /\ waiters' = Tail(order)
                     /\ worker' = [f \in Files |-> IF f = order[1] THEN "granted"
                                          ELSE IF f \in pending THEN "queued" ELSE "none"]
      BY <1>26, Zenon DEF Restart
    <2>4. pending \in SUBSET Files
      OBVIOUS
    <2>5. \A f \in Files : f \in pending <=> Normalized(f) = "Pending"
      OBVIOUS
    <2> HIDE DEF pending
    <2>6. Semaphore' /\ \A f \in Files : /\ worker'[f] = "none" <=> f \notin pending
                                         /\ worker'[f] # "clearing"
      <3>1. CASE pending = {}
        <4>1. Semaphore'
          BY <1>3, <2>3, <3>1
        <4>2. \A f \in Files : worker'[f] = "none"
          BY <1>1, <2>1, <2>3, <3>1 DEF Entered, Paired, Worked
        <4>3. QED  BY <3>1, <4>1, <4>2
      <3>2. CASE pending # {}
        BY <2>3, <2>4, <3>2, LineForms, DownloadsAssumption
      <3>3. QED  BY <3>1, <3>2
    <2>7. Rows /\ Resumed /\ Flights
      BY <2>1, <2>2, <2>4 DEF Rows, Resumed, Flights
    <2>8. Paired'
      <3>1. \A f \in Files : inFlight'[f] = IF f \in pending THEN "live" ELSE "none"
        BY <2>1
      <3>2. QED  BY <2>6, <3>1 DEF Paired
    <2>9. Worked'
      <3>1. \A f \in Files : row'[f] \in Open => f \in pending
        BY <2>1, <2>2, <2>5
      <3>2. QED  BY <2>6, <3>1 DEF Worked
    <2>10. QED  BY <1>2, <1>3, <2>1, <2>6, <2>7, <2>8, <2>9
  <1>27. CASE UNCHANGED vars
    <2>1. UNCHANGED <<row, onDisk, inFlight, worker, resumed, permit, waiters, stranded, check,
                      call, up>>
      BY <1>27 DEF vars, workVars
    <2>2. Semaphore' /\ Entered'
      BY <1>1, <1>3, <2>1 DEF Entered, Paired, Worked
    <2>3. QED  BY <1>1, <2>1, <2>2, Parts DEF IInv, Types, Semaphore
  <1>28. QED
    BY <1>10, <1>11, <1>12, <1>13, <1>14, <1>15, <1>17, <1>18, <1>20, <1>21, <1>22, <1>23,
       <1>24, <1>25, <1>26, <1>27, Zenon DEF Next, CallStep, Work

-----------------------------------------------------------------------------
(* What holds of the download manager                                      *)

\* Every row that is not at its end has a live worker, with the permit or in
\* line behind a holder, once: through cancels, retries, restarts and failures.
THEOREM AlwaysAWorker == Spec => []LiveWorker
  <1>1. IInv => LiveWorker
    <2> SUFFICES ASSUME IInv PROVE LiveWorker
      OBVIOUS
    <2>1. TypeOK
      BY DEF IInv, Types, Workers, Holding, TypeOK
    <2>2. ASSUME up, NEW f \in Files \ stranded, row[f] \in Open
          PROVE  inFlight[f] # "none" /\ worker[f] # "none"
      BY <2>2 DEF IInv, Entered, Paired, Worked
    <2>3. ASSUME NEW f \in Files, worker[f] = "queued"
          PROVE  permit # None /\ Cardinality({i \in DOMAIN waiters : waiters[i] = f}) = 1
      <3>1. f \in Members(waiters) /\ Once(waiters) /\ waiters \in Seq(Files)
        BY <2>3 DEF IInv, Lined, Types
      <3>2. waiters # << >>
        BY <3>1, NoMembers
      <3>3. QED  BY <3>1, <3>2, OnePlace DEF IInv, Lined
    <2>4. \A f \in Files : worker[f] \in Holding => permit = f
      BY DEF IInv, Held
    <2>5. \A f \in Files : worker[f] \in {"none", "queued", "threw"} \cup Holding
      BY DEF IInv, Types, Workers
    <2>6. QED  BY <2>1, <2>2, <2>3, <2>4, <2>5 DEF LiveWorker, Open
  <1>2. Spec => []IInv
    BY InitInv, NextInv, PTL DEF Spec
  <1>3. QED  BY <1>1, <1>2, PTL

=============================================================================
