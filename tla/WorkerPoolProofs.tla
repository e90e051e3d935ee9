------------------------ MODULE WorkerPoolProofs ------------------------
(***************************************************************************)
(* Proofs about WorkerPool, for any calls and tools, any size of the pool  *)
(* and any number of refreshes and crashes: the Maps agree, the pool is    *)
(* bounded, its counters count, and no process is dropped while it runs.   *)
(***************************************************************************)
EXTENDS WorkerPool, FiniteSetTheorems, TLAPS

Pooled == DOMAIN workers
Busy == {"booting", "running", "refused", "drained"}
Live == {"booting", "up"}
Procs == {"none", "booting", "up", "exiting", "dead"}

\* Each worker was spawned by a call of its own; each call under way has a worker,
\* which serves its tool and has booted if the call was started.
CallsOK ==
    /\ spawned \in 0..Cardinality(Calls) /\ tool \in [Workers -> Tools \cup {None}]
    /\ booted \in [Workers -> BOOLEAN]
    /\ phase \in [Calls -> Phases] /\ on \in [Calls -> 0..spawned]
    /\ cancelled \subseteq Calls /\ drain \subseteq cancelled
    /\ spawned <= Cardinality({c \in Calls : phase[c] # "idle"})
    /\ \A c \in Calls : /\ phase[c] \in Busy => on[c] # 0
                        /\ on[c] # 0 => phase[c] # "idle" /\ tool[on[c]] = ToolOf[c]
                        /\ phase[c] = "running" => booted[on[c]]
                        /\ c \in drain => phase[c] \in Busy \ {"drained"}

ProcsOK ==
    /\ inFlight \in [Workers -> Int] /\ proc \in [Workers -> Procs]
    /\ paused \subseteq 1..spawned /\ answered \subseteq 1..spawned
    /\ refreshes \in Nat

\* A pooled worker stands under its own tool's key; the LRU order and the idle
\* timers follow the Map, and the Map is bounded.
PoolOK ==
    /\ Pooled \subseteq Tools /\ IsFiniteSet(Pooled) /\ Cardinality(Pooled) <= MaxWarm
    /\ \A t \in Pooled : workers[t] \in 1..spawned /\ tool[workers[t]] = t
    /\ lru \in Seq(Tools) /\ ToSet(lru) = Pooled /\ IsInjective(lru)
    /\ \A t \in DOMAIN idleTimers : t \in Pooled /\ idleTimers[t] = workers[t]

\* No timer is armed for a worker that is at work.
Spared == \A t \in DOMAIN idleTimers : Running(idleTimers[t]) = {}

\* A worker counts its calls while it is pooled; one to come has none.
Counted ==
    /\ \A t \in Pooled : inFlight[workers[t]] = Cardinality(Running(workers[t]))
    /\ \A w \in Workers : w > spawned => inFlight[w] = 0 /\ ~booted[w]

\* Without refreshes no process that runs is outside the pool.
Kept ==
    refreshes = 0 => /\ DOMAIN refreshing = {}
                     /\ \A w \in 1..spawned : proc[w] \in Live => \E t \in Pooled : workers[t] = w

\* Only a call that was given a worker has timers or asks the user.
TimersOK ==
    /\ asking \cup armed \cup stray \subseteq {c \in Calls : on[c] # 0}
    /\ spent \subseteq Calls /\ answering \subseteq paused

IInv == CallsOK /\ ProcsOK /\ PoolOK /\ Spared /\ Counted /\ Kept

-----------------------------------------------------------------------------
(* The LRU order                                                           *)

\* Induction, on the set of the numbers where a claim fails.
LEMMA NoLeastFailure ==
  ASSUME NEW Bad, Bad \subseteq Nat, 0 \notin Bad,
         \A n \in Nat : n + 1 \in Bad => n \in Bad
  PROVE  Bad = {}
  <1> SUFFICES ASSUME Bad # {} PROVE FALSE
    OBVIOUS
  <1> DEFINE R == {ss \in Nat \X Nat : ss[1] < ss[2]}
  <1>1. IsWellFoundedOn(R, Nat)
    BY NatLessThanWellFounded DEF OpToRel
  <1>2. \A i \in Nat : <<i, i + 1>> \in R
    OBVIOUS
  <1> HIDE DEF R
  <1>3. PICK x \in Bad : \A y \in Bad : ~ (<<y, x>> \in R)
    BY <1>1, WFMin, Zenon
  <1>4. x \in Nat \ {0}
    OBVIOUS
  <1>5. x - 1 \in Nat /\ (x - 1) + 1 = x
    BY <1>4
  <1>6. x - 1 \in Bad
    BY <1>5
  <1>7. QED  BY <1>2, <1>3, <1>5, <1>6

\* A set of natural numbers has a smallest member, which Min finds.
LEMMA MinIsLeast ==
  ASSUME NEW S, S \subseteq Nat, S # {}
  PROVE  Min(S) \in S
  <1> DEFINE R == {ss \in Nat \X Nat : ss[1] < ss[2]}
  <1>1. IsWellFoundedOn(R, Nat)
    BY NatLessThanWellFounded DEF OpToRel
  <1>2. \A i, j \in Nat : i < j => <<i, j>> \in R
    OBVIOUS
  <1> HIDE DEF R
  <1>3. PICK x \in S : \A y \in S : ~ (<<y, x>> \in R)
    BY <1>1, WFMin, Zenon
  <1>4. ASSUME NEW y \in S PROVE x <= y
    <2>1. <<y, x>> \notin R
      BY <1>3
    <2>2. ~(y < x)
      BY <1>2, <2>1
    <2>3. x \in Nat /\ y \in Nat
      OBVIOUS
    <2>4. QED  BY <2>2, <2>3
  <1>5. \E m \in S : \A y \in S : m <= y
    BY <1>4
  <1>6. QED  BY <1>5, Zenon DEF Min

\* Appending a new element to a sequence without repetitions.
LEMMA AppendNew ==
  ASSUME NEW S, NEW s \in Seq(S), NEW e \in S
  PROVE  /\ Append(s, e) \in Seq(S)
         /\ ToSet(Append(s, e)) = ToSet(s) \cup {e}
         /\ e \notin ToSet(s) /\ IsInjective(s) => IsInjective(Append(s, e))
  <1> DEFINE t == Append(s, e)
  <1>1. /\ t \in Seq(S) /\ Len(t) = Len(s) + 1
        /\ \A j \in 1..Len(s) : t[j] = s[j]
        /\ t[Len(s) + 1] = e
    OBVIOUS
  <1> HIDE DEF t
  <1>2. e \notin ToSet(s) /\ IsInjective(s) => IsInjective(t)
    BY <1>1 DEF IsInjective, ToSet
  <1>3. ToSet(t) = ToSet(s) \cup {e}
    BY <1>1 DEF ToSet
  <1>4. QED  BY <1>1, <1>2, <1>3 DEF t

\* The function Untouched folds up: what is kept of the first i keys.
Keeping(kept, l, T, n) ==
    kept = [i \in 0..n |-> IF i = 0 THEN <<>>
                           ELSE IF l[i] \in T THEN kept[i - 1]
                           ELSE Append(kept[i - 1], l[i])]

\* There is such a function.
LEMMA KeepingExists ==
  ASSUME NEW l, NEW T
  PROVE  \A n \in Nat : \E kept : Keeping(kept, l, T, n)
  <1> DEFINE Bad == {n \in Nat : ~ \E kept : Keeping(kept, l, T, n)}
  <1>1. 0 \notin Bad
    <2> DEFINE g == [i \in 0..0 |-> <<>>]
    <2>1. g = [i \in 0..0 |-> IF i = 0 THEN <<>> ELSE IF l[i] \in T THEN g[i - 1]
                              ELSE Append(g[i - 1], l[i])]
      <3>1. \A i \in 0..0 : i = 0
        OBVIOUS
      <3>2. QED  BY <3>1
    <2>2. Keeping(g, l, T, 0)
      BY <2>1, Zenon DEF Keeping
    <2>3. QED  BY <2>2
  <1>2. ASSUME NEW n \in Nat, n \notin Bad PROVE n + 1 \notin Bad
    <2>1. PICK f : Keeping(f, l, T, n)
      BY <1>2
    <2> DEFINE last == IF l[n + 1] \in T THEN f[n] ELSE Append(f[n], l[n + 1])
               g == [i \in 0..(n + 1) |-> IF i = n + 1 THEN last ELSE f[i]]
    <2>2. \A i \in 0..n : f[i] = IF i = 0 THEN <<>> ELSE IF l[i] \in T THEN f[i - 1]
                                 ELSE Append(f[i - 1], l[i])
      BY <2>1, Zenon DEF Keeping
    <2>3. \A i \in 0..(n + 1) :
            g[i] = IF i = 0 THEN <<>> ELSE IF l[i] \in T THEN g[i - 1]
                   ELSE Append(g[i - 1], l[i])
      <3> SUFFICES ASSUME NEW i \in 0..(n + 1)
                   PROVE  g[i] = IF i = 0 THEN <<>> ELSE IF l[i] \in T THEN g[i - 1]
                                 ELSE Append(g[i - 1], l[i])
        OBVIOUS
      <3>1. CASE i = n + 1
        <4>1. i # 0 /\ i - 1 = n /\ n \in 0..(n + 1) /\ n # n + 1
          BY <3>1
        <4>2. g[i] = last /\ g[i - 1] = f[n]
          BY <3>1, <4>1
        <4>3. QED  BY <3>1, <4>1, <4>2
      <3>2. CASE i = 0
        <4>1. i \in 0..n /\ i # n + 1
          BY <3>2
        <4>2. g[i] = f[i]
          BY <4>1
        <4>3. QED  BY <2>2, <3>2, <4>1, <4>2
      <3>3. CASE i # 0 /\ i # n + 1
        <4>1. i \in 0..n /\ i - 1 \in 0..(n + 1) /\ i - 1 # n + 1
          BY <3>3
        <4>2. g[i] = f[i] /\ g[i - 1] = f[i - 1]
          BY <3>3, <4>1
        <4>3. QED  BY <2>2, <3>3, <4>1, <4>2
      <3>4. QED  BY <3>1, <3>2, <3>3
    <2>4. Keeping(g, l, T, n + 1)
      <3>1. g = [i \in 0..(n + 1) |-> g[i]]
        OBVIOUS
      <3> HIDE DEF g
      <3>2. QED  BY <2>3, <3>1 DEF Keeping
    <2>5. QED  BY <2>4
  <1> HIDE DEF Bad
  <1>3. Bad = {}
    <2>1. Bad \subseteq Nat
      BY DEF Bad
    <2>2. QED  BY <1>1, <1>2, <2>1, NoLeastFailure
  <1>4. QED  BY <1>3 DEF Bad

\* Untouched drops the keys in T and keeps the others, each once.
LEMMA UntouchedKeeps ==
  ASSUME NEW S, NEW l \in Seq(S), NEW T
  PROVE  /\ Untouched(l, T) \in Seq(S)
         /\ ToSet(Untouched(l, T)) = ToSet(l) \ T
         /\ IsInjective(l) => IsInjective(Untouched(l, T))
  <1>1. PICK kept : Keeping(kept, l, T, Len(l)) /\ Untouched(l, T) = kept[Len(l)]
    <2> DEFINE K == CHOOSE kept : Keeping(kept, l, T, Len(l))
    <2>1. \E kept : Keeping(kept, l, T, Len(l))
      <3>1. Len(l) \in Nat
        OBVIOUS
      <3>2. QED  BY <3>1, KeepingExists
    <2>2. Keeping(K, l, T, Len(l))
      BY <2>1, Zenon
    <2>3. Untouched(l, T) = K[Len(l)]
      BY Zenon DEF Untouched, Keeping
    <2>4. QED  BY <2>2, <2>3
  <1>2. \A i \in 0..Len(l) : kept[i] = IF i = 0 THEN <<>>
                                       ELSE IF l[i] \in T THEN kept[i - 1]
                                       ELSE Append(kept[i - 1], l[i])
    BY <1>1, Zenon DEF Keeping
  <1> DEFINE Good(i) == /\ kept[i] \in Seq(S)
                        /\ ToSet(kept[i]) = {l[j] : j \in 1..i} \ T
                        /\ IsInjective(l) => IsInjective(kept[i])
             Bad == {i \in 0..Len(l) : ~Good(i)}
  <1>3. Len(l) \in Nat
    OBVIOUS
  <1>4. Good(0)
    <2>1. kept[0] = <<>>
      BY <1>2, <1>3
    <2>2. {l[j] : j \in 1..0} \ T = {}
      OBVIOUS
    <2>3. ToSet(<<>>) = {} /\ IsInjective(<<>>)
      BY DEF ToSet, IsInjective
    <2>4. QED  BY <2>1, <2>2, <2>3
  <1>5. ASSUME NEW n \in Nat, n + 1 <= Len(l), Good(n) PROVE Good(n + 1)
    <2>1. n \in 0..Len(l) /\ n + 1 \in 0..Len(l) /\ n + 1 \in 1..Len(l) /\ (n + 1) - 1 = n
      BY <1>3, <1>5
    <2>2. l[n + 1] \in S
      BY <2>1
    <2>3. {l[j] : j \in 1..(n + 1)} = {l[j] : j \in 1..n} \cup {l[n + 1]}
      <3>1. 1..(n + 1) = 1..n \cup {n + 1}
        OBVIOUS
      <3>2. QED  BY <3>1
    <2>4. CASE l[n + 1] \in T
      <3>1. kept[n + 1] = kept[n]
        BY <1>2, <2>1, <2>4
      <3>2. QED  BY <1>5, <2>3, <2>4, <3>1
    <2>5. CASE l[n + 1] \notin T
      <3>1. kept[n + 1] = Append(kept[n], l[n + 1])
        <4>1. kept[n + 1] = IF n + 1 = 0 THEN <<>>
                            ELSE IF l[n + 1] \in T THEN kept[(n + 1) - 1]
                            ELSE Append(kept[(n + 1) - 1], l[n + 1])
          BY <1>2, <2>1, Zenon
        <4>2. n + 1 # 0
          OBVIOUS
        <4>3. QED  BY <2>1, <2>5, <4>1, <4>2, Zenon
      <3>2. kept[n + 1] \in Seq(S) /\ ToSet(kept[n + 1]) = ToSet(kept[n]) \cup {l[n + 1]}
        BY <1>5, <2>2, <3>1, AppendNew
      <3>3. IsInjective(l) => l[n + 1] \notin {l[j] : j \in 1..n}
        <4> SUFFICES ASSUME IsInjective(l), NEW j \in 1..n, l[n + 1] = l[j] PROVE FALSE
          OBVIOUS
        <4>1. j \in 1..Len(l) /\ j # n + 1
          BY <2>1
        <4>2. QED  BY <2>1, <4>1 DEF IsInjective
      <3>4. IsInjective(l) => IsInjective(kept[n + 1])
        BY <1>5, <2>2, <3>1, <3>3, AppendNew
      <3>5. QED  BY <1>5, <2>3, <2>5, <3>2, <3>4
    <2>6. QED  BY <2>4, <2>5
  <1> HIDE DEF Good
  <1>6. Bad = {}
    <2>1. Bad \subseteq Nat /\ 0 \notin Bad
      BY <1>4
    <2>2. ASSUME NEW n \in Nat, n + 1 \in Bad PROVE n \in Bad
      <3>1. n + 1 <= Len(l) /\ n \in 0..Len(l)
        BY <1>3, <2>2
      <3>2. QED  BY <1>5, <2>2, <3>1
    <2> HIDE DEF Bad
    <2>3. QED  BY <2>1, <2>2, NoLeastFailure
  <1>7. Good(Len(l))
    <2>1. Len(l) \in 0..Len(l)
      BY <1>3
    <2>2. QED  BY <1>6, <2>1
  <1>8. {l[j] : j \in 1..Len(l)} = ToSet(l)
    BY DEF ToSet
  <1>9. QED  BY <1>1, <1>7, <1>8 DEF Good

-----------------------------------------------------------------------------
(* The parts a step touches                                                *)

\* Workers are numbered; calls are finite, and so are those a worker runs.
LEMMA Finite ==
  /\ IsFiniteSet(Calls) /\ Cardinality(Calls) \in Nat
  /\ \A w : IsFiniteSet(Running(w)) /\ Cardinality(Running(w)) \in Nat
            /\ (Cardinality(Running(w)) = 0 <=> Running(w) = {})
  <1>1. IsFiniteSet(Calls) /\ Cardinality(Calls) \in Nat
    BY WarmAssumption, FS_CardinalityType
  <1>2. ASSUME NEW w PROVE IsFiniteSet(Running(w))
    BY <1>1, FS_Subset DEF Running
  <1>3. QED  BY <1>1, <1>2, FS_CardinalityType, FS_EmptySet

\* Forgetting tools keeps the Maps in step.
LEMMA ForgetPool ==
  ASSUME PoolOK, NEW T, Forget(T), UNCHANGED <<spawned, tool>>
  PROVE  /\ PoolOK' /\ Pooled' = Pooled \ T
         /\ \A t \in Pooled' : workers'[t] = workers[t]
         /\ DOMAIN idleTimers' = DOMAIN idleTimers \ T
         /\ \A t \in DOMAIN idleTimers' : idleTimers'[t] = idleTimers[t]
  <1>1. Pooled' = Pooled \ T /\ \A t \in Pooled \ T : workers'[t] = workers[t]
    BY DEF Forget, Without, Pooled
  <1>2. DOMAIN idleTimers' = DOMAIN idleTimers \ T
        /\ \A t \in DOMAIN idleTimers' : idleTimers'[t] = idleTimers[t]
    BY DEF Forget, Without
  <1>3. lru' \in Seq(Tools) /\ ToSet(lru') = Pooled' /\ IsInjective(lru')
    BY <1>1, UntouchedKeeps DEF PoolOK, Forget
  <1>4. IsFiniteSet(Pooled') /\ Cardinality(Pooled') <= MaxWarm
    <2>1. IsFiniteSet(Pooled') /\ Cardinality(Pooled') <= Cardinality(Pooled)
      BY <1>1, FS_Subset DEF PoolOK
    <2>2. Cardinality(Pooled) \in Nat /\ Cardinality(Pooled') \in Nat /\ MaxWarm \in Nat
      BY <2>1, FS_CardinalityType, WarmAssumption DEF PoolOK
    <2>3. QED  BY <2>1, <2>2 DEF PoolOK
  <1>5. QED  BY <1>1, <1>2, <1>3, <1>4 DEF PoolOK

\* So does re-arming the idle timer of a key.
LEMMA BumpPool ==
  ASSUME PoolOK, NEW t, NEW counts, BumpIdleTimer(t, counts),
         UNCHANGED <<workers, lru, spawned, tool>>
  PROVE  /\ PoolOK'
         /\ \A s \in DOMAIN idleTimers' :
              \/ s \in DOMAIN idleTimers /\ s # t
              \/ s = t /\ t \in Pooled /\ counts[workers[t]] = 0
  <1>1. CASE t \in Pooled /\ counts[workers[t]] = 0
    <2>1. idleTimers' = With(idleTimers, t, workers[t])
      BY <1>1 DEF BumpIdleTimer, Pooled
    <2>2. DOMAIN idleTimers' = DOMAIN idleTimers \cup {t} /\ idleTimers'[t] = workers[t]
          /\ \A s \in DOMAIN idleTimers : s # t => idleTimers'[s] = idleTimers[s]
      BY <2>1 DEF With
    <2>3. QED  BY <1>1, <2>2 DEF PoolOK, Pooled
  <1>2. CASE ~(t \in Pooled /\ counts[workers[t]] = 0)
    <2>1. idleTimers' = Without(idleTimers, {t})
      BY <1>2 DEF BumpIdleTimer, Pooled
    <2>2. DOMAIN idleTimers' = DOMAIN idleTimers \ {t}
          /\ \A s \in DOMAIN idleTimers' : idleTimers'[s] = idleTimers[s]
      BY <2>1 DEF Without
    <2>3. QED  BY <2>2 DEF PoolOK, Pooled
  <1>3. QED  BY <1>1, <1>2

\* Nothing changes in the Maps.
LEMMA SamePool ==
  ASSUME PoolOK, UNCHANGED <<workers, lru, idleTimers, spawned, tool>>
  PROVE  PoolOK'
  BY DEF PoolOK, Pooled

\* A call's worker is pooled under the call's own tool, or not at all.
LEMMA KilledTools ==
  ASSUME CallsOK, PoolOK, NEW c \in Calls, on[c] # 0
  PROVE  /\ on[c] \in 1..spawned /\ on[c] \in Workers
         /\ \A t \in Pooled : workers[t] = on[c] <=> t \in Killed(ToolOf[c], on[c])
  <1>1. on[c] \in 0..spawned /\ on[c] # 0 /\ tool[on[c]] = ToolOf[c]
        /\ spawned \in 0..Cardinality(Calls)
    BY DEF CallsOK
  <1>2. on[c] \in 1..spawned /\ on[c] \in Workers
    BY <1>1, Finite DEF Workers
  <1>3. \A t \in Pooled : workers[t] = on[c] <=> t \in Killed(ToolOf[c], on[c])
    BY <1>1 DEF PoolOK, Killed, Pooled
  <1>4. QED  BY <1>2, <1>3

\* Calls that settle leave their workers.
LEMMA SettleCalls ==
  ASSUME CallsOK, NEW C \in SUBSET Calls, NEW p \in {"done", "drained"}, Settle(C, p),
         \A c \in C : on[c] # 0, UNCHANGED <<spawned, tool, booted>>
  PROVE  CallsOK' /\ \A w : Running(w)' = Running(w) \ C
  <1>1. /\ phase' = [c \in Calls |-> IF c \in C THEN p ELSE phase[c]]
        /\ drain' = drain \ C /\ on' = on
        /\ cancelled' \subseteq cancelled /\ cancelled \ C \subseteq cancelled'
    BY DEF Settle
  <1>2. \A c \in Calls : phase'[c] = IF c \in C THEN p ELSE phase[c]
    BY <1>1
  <1>3. phase' \in [Calls -> Phases]
    BY <1>1 DEF CallsOK, Phases
  <1>4. \A c \in Calls : phase'[c] # "idle" <=> phase[c] # "idle"
    BY <1>2 DEF CallsOK
  <1>5. \A c \in Calls : /\ phase'[c] \in Busy => on[c] # 0
                         /\ phase'[c] = "running" => phase[c] = "running" /\ c \notin C
                         /\ c \in drain' => c \in drain /\ phase'[c] = phase[c]
    BY <1>1, <1>2 DEF Busy, CallsOK
  <1>6. CallsOK'
    <2>1. {c \in Calls : phase'[c] # "idle"} = {c \in Calls : phase[c] # "idle"}
      BY <1>4
    <2>2. cancelled' \subseteq Calls /\ drain' \subseteq cancelled'
      BY <1>1 DEF CallsOK
    <2>3. QED  BY <1>1, <1>3, <1>4, <1>5, <2>1, <2>2 DEF CallsOK
  <1>7. \A w : Running(w)' = Running(w) \ C
    BY <1>1, <1>2 DEF Running
  <1>8. QED  BY <1>6, <1>7

\* terminate() ends in a process that no longer runs.
LEMMA TerminatedProc ==
  ASSUME NEW p \in [Workers -> Procs], NEW w \in Workers
  PROVE  /\ Terminated(p, w) \in [Workers -> Procs]
         /\ Terminated(p, w)[w] \notin Live
         /\ \A v \in Workers : Terminated(p, w)[v] \in Live => p[v] \in Live /\ v # w
         /\ \A v \in Workers \ {w} : Terminated(p, w)[v] = p[v]
  BY DEF Terminated, Procs, Live

\* No process that runs is dropped: those that leave the pool do not run.
LEMMA KeptAfter ==
  ASSUME Kept, CallsOK, NEW T, Pooled' = Pooled \ T,
         \A t \in Pooled' : workers'[t] = workers[t], UNCHANGED <<spawned, refreshes>>,
         refreshes = 0 => DOMAIN refreshing' = {},
         \A w \in Workers : proc'[w] \in Live => proc[w] \in Live,
         \A t \in Pooled : t \in T => proc'[workers[t]] \notin Live
  PROVE  Kept'
  <1> SUFFICES ASSUME refreshes = 0, NEW w \in 1..spawned, proc'[w] \in Live
               PROVE  \E t \in Pooled' : workers'[t] = w
    BY DEF Kept
  <1>1. w \in Workers
    BY Finite DEF CallsOK, Workers
  <1>2. PICK t \in Pooled : workers[t] = w
    BY <1>1 DEF Kept
  <1>3. t \in Pooled'
    BY <1>2
  <1>4. QED  BY <1>2, <1>3

\* With fewer calls the timers still spare the busy, and the counts of the others stand.
LEMMA FewerCounts ==
  ASSUME NEW w \in Workers, NEW n \in Nat, inFlight \in [Workers -> Int]
  PROVE  /\ Fewer(w, n) \in [Workers -> Int]
         /\ \A v \in Workers \ {w} : Fewer(w, n)[v] = inFlight[v]
         /\ inFlight[w] <= n => Fewer(w, n)[w] = 0
  BY DEF Fewer

-----------------------------------------------------------------------------
(* The steps of a call                                                     *)

\* A call ends, and its worker with it.
LEMMA EndedInv ==
  ASSUME IInv, NEW c \in Calls, on[c] # 0, NEW p \in {"done", "drained"},
         Settle({c}, p), Forget(Killed(ToolOf[c], on[c])), proc' = Terminated(proc, on[c]),
         inFlight' \in [Workers -> Int],
         \A v \in Workers \ {on[c]} : inFlight'[v] = inFlight[v],
         UNCHANGED <<spawned, tool, booted, paused, answered, refreshing, refreshes>>
  PROVE  IInv'
  <1> DEFINE w == on[c]
             T == Killed(ToolOf[c], w)
  <1>1. /\ Forget(T) /\ proc' = Terminated(proc, w) /\ Settle({c}, p)
        /\ UNCHANGED <<spawned, tool, booted, paused, answered, refreshing, refreshes>>
    OBVIOUS
  <1>2. w \in 1..spawned /\ w \in Workers /\ \A t \in Pooled : workers[t] = w <=> t \in T
    BY KilledTools DEF IInv
  <1>3. p \in {"done", "drained"} /\ inFlight' \in [Workers -> Int]
        /\ \A v \in Workers \ {w} : inFlight'[v] = inFlight[v]
    OBVIOUS
  <1> HIDE DEF w, T
  <1>4. CallsOK' /\ \A v : Running(v)' = Running(v) \ {c}
    BY <1>1, <1>3, SettleCalls DEF IInv
  <1>5. /\ PoolOK' /\ Pooled' = Pooled \ T /\ \A t \in Pooled' : workers'[t] = workers[t]
        /\ DOMAIN idleTimers' = DOMAIN idleTimers \ T
        /\ \A t \in DOMAIN idleTimers' : idleTimers'[t] = idleTimers[t]
    BY <1>1, ForgetPool DEF IInv
  <1>6. /\ proc' \in [Workers -> Procs] /\ proc'[w] \notin Live
        /\ \A v \in Workers : proc'[v] \in Live => proc[v] \in Live
    BY <1>1, <1>2, TerminatedProc DEF IInv, ProcsOK
  <1>7. ProcsOK'
    BY <1>1, <1>3, <1>6 DEF IInv, ProcsOK
  <1>8. Spared'
    BY <1>4, <1>5 DEF IInv, Spared
  <1>9. Counted'
    <2>1. ASSUME NEW v, v # w PROVE Running(v)' = Running(v)
      <3>1. c \notin Running(v)
        BY <2>1 DEF Running, w
      <3>2. QED  BY <1>4, <3>1
    <2>2. \A t \in Pooled' : workers'[t] # w /\ workers'[t] = workers[t] /\ t \in Pooled
                             /\ workers[t] \in Workers
      BY <1>2, <1>5, Finite DEF IInv, PoolOK, CallsOK, Workers
    <2>3. \A v \in Workers : v > spawned => v # w
      <3>1. spawned \in Int /\ w \in Int /\ w <= spawned
        BY <1>2, Finite DEF IInv, CallsOK
      <3>2. QED  BY <3>1 DEF Workers
    <2>4. QED  BY <1>1, <1>3, <2>1, <2>2, <2>3 DEF IInv, Counted
  <1>10. Kept'
    <2>1. Kept /\ CallsOK /\ UNCHANGED <<spawned, refreshes>>
      BY <1>1 DEF IInv
    <2>2. refreshes = 0 => DOMAIN refreshing' = {}
      BY <1>1 DEF IInv, Kept
    <2>3. \A t \in Pooled : t \in T => proc'[workers[t]] \notin Live
      BY <1>2, <1>6, Zenon
    <2>4. QED  BY <1>5, <1>6, <2>1, <2>2, <2>3, KeptAfter, Zenon
  <1>11. QED  BY <1>4, <1>5, <1>7, <1>8, <1>9, <1>10 DEF IInv

\* A call is killed.
LEMMA KillInv == ASSUME IInv, NEW c \in Calls, on[c] # 0, Kill(c) PROVE IInv'
  <1>1. on[c] \in Workers
    BY KilledTools DEF IInv
  <1>2. /\ inFlight' = Fewer(on[c], 1) /\ Forget(Killed(ToolOf[c], on[c]))
        /\ proc' = Terminated(proc, on[c])
        /\ Settle({c}, "drained") \/ Settle({c}, "done")
        /\ UNCHANGED <<spawned, tool, booted, paused, answered, refreshing, refreshes>>
    BY DEF Kill, promptVars, boundVars
  <1>3. /\ inFlight' \in [Workers -> Int]
        /\ \A v \in Workers \ {on[c]} : inFlight'[v] = inFlight[v]
    BY <1>1, <1>2, FewerCounts DEF IInv, ProcsOK
  <1>4. QED  BY <1>2, <1>3, EndedInv

\* A call that has started or has ended is one more that is not idle.
LEMMA MoreStarted ==
  ASSUME CallsOK, NEW c \in Calls, phase[c] = "idle",
         NEW p \in Phases \ {"idle"}, phase' = [phase EXCEPT ![c] = p]
  PROVE  /\ phase' \in [Calls -> Phases] /\ phase'[c] = p
         /\ \A d \in Calls \ {c} : phase'[d] = phase[d]
         /\ spawned + 1 \in 1..Cardinality(Calls)
         /\ spawned + 1 <= Cardinality({d \in Calls : phase'[d] # "idle"})
         /\ spawned <= Cardinality({d \in Calls : phase'[d] # "idle"})
  <1> DEFINE A == {d \in Calls : phase[d] # "idle"}
             B == {d \in Calls : phase'[d] # "idle"}
  <1>1. phase' \in [Calls -> Phases] /\ phase'[c] = p
        /\ \A d \in Calls \ {c} : phase'[d] = phase[d]
    BY DEF CallsOK
  <1>2. B = A \cup {c} /\ c \notin A /\ A \subseteq Calls /\ B \subseteq Calls
    BY <1>1
  <1>3. spawned \in Nat /\ spawned <= Cardinality(A)
    BY Finite DEF CallsOK
  <1> HIDE DEF A, B
  <1>4. IsFiniteSet(A) /\ IsFiniteSet(B) /\ Cardinality(B) <= Cardinality(Calls)
    BY <1>2, Finite, FS_Subset
  <1>5. Cardinality(A) \in Nat /\ Cardinality(B) \in Nat /\ Cardinality(B) = Cardinality(A) + 1
    BY <1>2, <1>4, FS_AddElement, FS_CardinalityType
  <1>6. spawned + 1 \in 1..Cardinality(Calls) /\ spawned + 1 <= Cardinality(B)
        /\ spawned <= Cardinality(B)
    BY <1>3, <1>4, <1>5, Finite
  <1>7. QED  BY <1>1, <1>6 DEF B

\* The order once keys are dropped from it and one is put at its end.
LEMMA OrderAfter ==
  ASSUME PoolOK, NEW T, NEW t \in Tools, t \in T \/ t \notin Pooled
  PROVE  /\ Append(Untouched(lru, T), t) \in Seq(Tools)
         /\ ToSet(Append(Untouched(lru, T), t)) = (Pooled \ T) \cup {t}
         /\ IsInjective(Append(Untouched(lru, T), t))
  <1> DEFINE u == Untouched(lru, T)
  <1>1. u \in Seq(Tools) /\ ToSet(u) = Pooled \ T /\ IsInjective(u)
    BY UntouchedKeeps DEF PoolOK
  <1>2. t \notin ToSet(u)
    BY <1>1
  <1> HIDE DEF u
  <1>3. /\ Append(u, t) \in Seq(Tools) /\ ToSet(Append(u, t)) = ToSet(u) \cup {t}
        /\ IsInjective(Append(u, t))
    BY <1>1, <1>2, AppendNew, Zenon
  <1>4. QED  BY <1>1, <1>3 DEF u

\* A worker that is reused: the order changes, and a call waits.
LEMMA ReuseInv == ASSUME IInv, NEW c \in Calls, Reuse(c) PROVE IInv'
  <1> DEFINE t == ToolOf[c]
             w == workers[t]
  <1>1. /\ phase[c] = "idle" /\ t \in Pooled /\ lru' = Append(Untouched(lru, {t}), t)
        /\ phase' = [phase EXCEPT ![c] = "booting"] /\ on' = [on EXCEPT ![c] = w]
        /\ UNCHANGED <<workers, idleTimers, spawned, tool, proc, cancelled, drain,
                       refreshing, refreshes, inFlight, booted, paused, answered>>
    BY DEF Reuse, Attach, Pooled, boundVars, promptVars
  <1>2. w \in 1..spawned /\ tool[w] = t
    BY <1>1 DEF IInv, PoolOK
  <1> HIDE DEF t, w
  <1>3. /\ phase'[c] = "booting" /\ on'[c] = w
        /\ \A d \in Calls \ {c} : phase'[d] = phase[d] /\ on'[d] = on[d]
        /\ spawned <= Cardinality({d \in Calls : phase'[d] # "idle"})
    <2>1. phase'[c] = "booting" /\ (\A d \in Calls \ {c} : phase'[d] = phase[d])
          /\ spawned <= Cardinality({d \in Calls : phase'[d] # "idle"})
      BY <1>1, MoreStarted DEF IInv, Phases
    <2>2. on'[c] = w /\ \A d \in Calls \ {c} : on'[d] = on[d]
      BY <1>1 DEF IInv, CallsOK
    <2>3. QED  BY <2>1, <2>2
  <1>4. \A v : Running(v)' = Running(v)
    BY <1>1, <1>3 DEF Running
  <1>5. CallsOK'
    <2>1. phase' \in [Calls -> Phases] /\ on' \in [Calls -> 0..spawned]
      BY <1>1, <1>2 DEF IInv, CallsOK, Phases
    <2>3. spawned <= Cardinality({d \in Calls : phase'[d] # "idle"})
      BY <1>3
    <2>4. \A d \in Calls : /\ phase'[d] \in Busy => on'[d] # 0
                           /\ on'[d] # 0 => phase'[d] # "idle" /\ tool[on'[d]] = ToolOf[d]
                           /\ phase'[d] = "running" => booted[on'[d]]
                           /\ d \in drain => phase'[d] \in Busy \ {"drained"}
      BY <1>1, <1>2, <1>3 DEF IInv, CallsOK, t, Busy
    <2>5. QED  BY <1>1, <2>1, <2>3, <2>4 DEF IInv, CallsOK
  <1>6. ProcsOK' /\ Spared' /\ Counted' /\ Kept'
    BY <1>1, <1>4 DEF IInv, ProcsOK, Spared, Counted, Kept, Pooled
  <1>7. PoolOK'
    <2>1. t \in Tools /\ (Pooled \ {t}) \cup {t} = Pooled
      BY <1>1 DEF IInv, PoolOK
    <2>2. lru' \in Seq(Tools) /\ ToSet(lru') = Pooled /\ IsInjective(lru')
      BY <1>1, <2>1, OrderAfter DEF IInv
    <2>3. QED  BY <1>1, <2>2 DEF IInv, PoolOK, Pooled
  <1>8. QED  BY <1>5, <1>6, <1>7 DEF IInv

\* A call that is refused had no worker.
LEMMA RefuseBusyInv == ASSUME IInv, NEW c \in Calls, RefuseBusy(c) PROVE IInv'
  <1>1. /\ phase[c] = "idle" /\ phase' = [phase EXCEPT ![c] = "done"]
        /\ UNCHANGED <<workers, lru, idleTimers, inFlight, spawned, tool, proc, booted, paused,
                       answered, on, cancelled, drain, refreshing, refreshes>>
    BY DEF RefuseBusy, MustSpawn, poolVars, procVars, promptVars, boundVars
  <1>2. phase'[c] = "done" /\ \A d \in Calls \ {c} : phase'[d] = phase[d]
    BY <1>1 DEF IInv, CallsOK
  <1>3. \A v : Running(v)' = Running(v)
    BY <1>1, <1>2 DEF Running
  <1>4. CallsOK'
    <2>1. phase' \in [Calls -> Phases]
      BY <1>1 DEF IInv, CallsOK, Phases
    <2>2. spawned <= Cardinality({d \in Calls : phase'[d] # "idle"})
      BY <1>1, MoreStarted DEF IInv, Phases
    <2>3. \A d \in Calls : /\ phase'[d] \in Busy => on[d] # 0
                           /\ on[d] # 0 => phase'[d] # "idle" /\ tool[on[d]] = ToolOf[d]
                           /\ phase'[d] = "running" => booted[on[d]]
                           /\ d \in drain => phase'[d] \in Busy \ {"drained"}
      BY <1>1, <1>2 DEF IInv, CallsOK, Busy
    <2>4. QED  BY <1>1, <2>1, <2>2, <2>3 DEF IInv, CallsOK
  <1>5. PoolOK'
    BY <1>1, SamePool DEF IInv
  <1>6. ProcsOK' /\ Spared' /\ Counted' /\ Kept'
    BY <1>1, <1>3 DEF IInv, ProcsOK, Spared, Counted, Kept, Pooled
  <1>7. QED  BY <1>4, <1>5, <1>6 DEF IInv


\* A worker that is spawned is counted for its call; the tools in gone made room.
LEMMA SpawnWorkerInv ==
  ASSUME IInv, NEW c \in Calls, MustSpawn(c), NEW gone \in SUBSET Pooled,
         Cardinality(Pooled \ gone) < MaxWarm, SpawnWorker(c, gone)
  PROVE  IInv'
  <1> DEFINE t == ToolOf[c]
             w == spawned + 1
  <1>1. /\ phase[c] = "idle" /\ t \notin Pooled
        /\ workers' = With(Without(workers, gone), t, w)
        /\ lru' = Append(Untouched(lru, gone), t) /\ idleTimers' = Without(idleTimers, gone)
        /\ spawned' = w /\ tool' = [tool EXCEPT ![w] = t]
        /\ phase' = [phase EXCEPT ![c] = "booting"] /\ on' = [on EXCEPT ![c] = w]
        /\ UNCHANGED <<cancelled, drain, refreshing, refreshes, inFlight, booted, paused,
                       answered>>
    BY DEF SpawnWorker, MustSpawn, Attach, Pooled, boundVars, promptVars
  <1>2. t \in Tools
    BY ToolAssumption
  <1>3. /\ phase' \in [Calls -> Phases] /\ phase'[c] = "booting"
        /\ \A d \in Calls \ {c} : phase'[d] = phase[d]
        /\ w \in 1..Cardinality(Calls)
        /\ w <= Cardinality({d \in Calls : phase'[d] # "idle"})
    BY <1>1, MoreStarted DEF IInv, Phases
  <1>4. spawned \in Nat /\ w \in Workers /\ \A v \in 1..spawned : v # w /\ v \in Workers /\ v \in 1..w
    BY <1>3, Finite DEF IInv, CallsOK, Workers
  <1>5. proc' = [v \in Workers |-> IF v = w THEN "booting"
                                   ELSE IF \E s \in gone : workers[s] = v
                                   THEN Terminated(proc, v)[v] ELSE proc[v]]
    BY DEF SpawnWorker
  <1>6. ASSUME NEW v \in Workers
        PROVE  /\ proc'[v] \in Procs /\ (v # w /\ proc'[v] \in Live => proc[v] \in Live)
               /\ \A s \in gone : v # w /\ workers[s] = v => proc'[v] \notin Live
    <2>1. proc[v] \in Procs /\ Terminated(proc, v)[v] \in Procs /\ Terminated(proc, v)[v] \notin Live
      BY TerminatedProc DEF IInv, ProcsOK
    <2>2. proc'[v] = IF v = w THEN "booting"
                     ELSE IF \E s \in gone : workers[s] = v
                     THEN Terminated(proc, v)[v] ELSE proc[v]
      BY <1>5
    <2> HIDE DEF w
    <2>3. CASE v = w
      BY <2>2, <2>3 DEF Procs
    <2>4. CASE v # w /\ \E s \in gone : workers[s] = v
      BY <2>1, <2>2, <2>4
    <2>5. CASE v # w /\ ~ \E s \in gone : workers[s] = v
      BY <2>1, <2>2, <2>5
    <2>6. QED  BY <2>3, <2>4, <2>5
  <1>7. w \in 1..w
    BY <1>4
  <1> HIDE DEF t, w
  <1>8. on' \in [Calls -> 0..w] /\ on'[c] = w /\ \A d \in Calls \ {c} : on'[d] = on[d]
    <2>1. \A i \in 0..spawned : i \in 0..w
      BY <1>4 DEF w
    <2>2. w \in 0..w
      BY <1>4 DEF w
    <2>3. QED  BY <1>1, <2>1, <2>2 DEF IInv, CallsOK
  <1>9. \A v : Running(v)' = Running(v)
    BY <1>1, <1>3, <1>8 DEF Running
  <1>10. tool' \in [Workers -> Tools \cup {None}] /\ tool'[w] = t
         /\ \A v \in Workers \ {w} : tool'[v] = tool[v]
    BY <1>1, <1>2, <1>4 DEF IInv, CallsOK
  <1>11. CallsOK'
    <2>1. ASSUME NEW d \in Calls
          PROVE  /\ phase'[d] \in Busy => on'[d] # 0
                 /\ on'[d] # 0 => phase'[d] # "idle" /\ tool'[on'[d]] = ToolOf[d]
                 /\ phase'[d] = "running" => booted[on'[d]]
                 /\ d \in drain => phase'[d] \in Busy \ {"drained"}
      <3>1. CASE d = c
        BY <1>1, <1>3, <1>4, <1>8, <1>10, <3>1 DEF IInv, CallsOK, t, w, Busy
      <3>2. CASE d # c
        <4>1. on[d] \in 0..spawned /\ (on[d] # 0 => on[d] \in Workers \ {w})
          BY <1>4 DEF IInv, CallsOK
        <4>2. QED  BY <1>3, <1>8, <1>10, <3>2, <4>1 DEF IInv, CallsOK
      <3>3. QED  BY <3>1, <3>2
    <2>2. w \in 0..Cardinality(Calls)
      BY <1>3, Finite
    <2>3. QED  BY <1>1, <1>3, <1>8, <1>10, <2>1, <2>2 DEF IInv, CallsOK
  <1>12. ProcsOK'
    <2>1. proc' = [v \in Workers |-> proc'[v]]
      BY <1>5
    <2>2. proc' \in [Workers -> Procs]
      BY <1>6, <2>1
    <2>3. paused \subseteq 1..w /\ answered \subseteq 1..w
      BY <1>4 DEF IInv, ProcsOK
    <2>4. QED  BY <1>1, <2>2, <2>3 DEF IInv, ProcsOK
  <1>13. /\ Pooled' = (Pooled \ gone) \cup {t} /\ workers'[t] = w
         /\ \A s \in Pooled \ gone : workers'[s] = workers[s] /\ s # t
    BY <1>1 DEF With, Without, Pooled
  <1>14. \A s \in Pooled : workers[s] \in 1..spawned /\ workers[s] \in Workers \ {w}
    BY <1>4 DEF IInv, PoolOK
  <1>15. /\ DOMAIN idleTimers' = DOMAIN idleTimers \ gone
         /\ \A s \in DOMAIN idleTimers' : idleTimers'[s] = idleTimers[s]
    BY <1>1 DEF Without
  <1>16. PoolOK'
    <2>1. IsFiniteSet(Pooled') /\ Cardinality(Pooled') <= MaxWarm
      <3>1. IsFiniteSet(Pooled \ gone) /\ t \notin Pooled \ gone
        BY <1>1, FS_Subset DEF IInv, PoolOK
      <3>2. Cardinality(Pooled \ gone) \in Nat /\ IsFiniteSet(Pooled')
            /\ Cardinality(Pooled') = Cardinality(Pooled \ gone) + 1
        BY <1>13, <3>1, FS_AddElement, FS_CardinalityType
      <3>3. QED  BY <3>2, WarmAssumption
    <2>2. lru' \in Seq(Tools) /\ ToSet(lru') = Pooled' /\ IsInjective(lru')
      BY <1>1, <1>2, <1>13, OrderAfter DEF IInv
    <2>3. ASSUME NEW s \in Pooled' PROVE workers'[s] \in 1..w /\ tool'[workers'[s]] = s
      <3>1. CASE s = t
        BY <1>7, <1>10, <1>13, <3>1
      <3>2. CASE s # t
        BY <1>4, <1>10, <1>13, <1>14, <3>2 DEF IInv, PoolOK
      <3>3. QED  BY <3>1, <3>2
    <2>4. \A s \in DOMAIN idleTimers' : s \in Pooled' /\ idleTimers'[s] = workers'[s]
      BY <1>13, <1>15 DEF IInv, PoolOK
    <2>5. Pooled' \subseteq Tools
      BY <1>2, <1>13 DEF IInv, PoolOK
    <2>6. QED  BY <1>1, <2>1, <2>2, <2>3, <2>4, <2>5 DEF PoolOK
  <1>17. Spared'
    BY <1>9, <1>15 DEF IInv, Spared
  <1>18. Counted'
    <2>1. Running(w) = {} /\ inFlight[w] = 0
      <3>1. inFlight[w] = 0 /\ ~booted[w]
        BY <1>4 DEF IInv, Counted, w
      <3>2. QED  BY <3>1 DEF Running, IInv, CallsOK
    <2>2. inFlight[w] = Cardinality(Running(w))
      BY <2>1, Finite
    <2>3. ASSUME NEW s \in Pooled' PROVE inFlight[workers'[s]] = Cardinality(Running(workers'[s]))
      <3>1. CASE s = t
        BY <1>13, <2>2, <3>1
      <3>2. CASE s # t
        BY <1>13, <3>2 DEF IInv, Counted
      <3>3. QED  BY <3>1, <3>2
    <2>4. \A v \in Workers : v > w => v > spawned
      BY <1>4, Finite DEF w, Workers
    <2>5. QED  BY <1>1, <1>9, <2>3, <2>4 DEF IInv, Counted
  <1>19. Kept'
    <2> SUFFICES ASSUME refreshes = 0, NEW v \in 1..w, proc'[v] \in Live
                 PROVE  \E s \in Pooled' : workers'[s] = v
      BY <1>1 DEF IInv, Kept
    <2>1. CASE v = w
      BY <1>13, <2>1
    <2>2. CASE v # w
      <3>1. v \in 1..spawned /\ v \in Workers
        BY <1>4, <2>2 DEF w
      <3>2. proc[v] \in Live /\ ~ \E s \in gone : workers[s] = v
        BY <1>6, <2>2, <3>1
      <3>3. PICK s \in Pooled : workers[s] = v
        BY <3>1, <3>2 DEF IInv, Kept
      <3>4. QED  BY <1>13, <3>2, <3>3
    <2>3. QED  BY <2>1, <2>2
  <1>20. QED  BY <1>11, <1>12, <1>16, <1>17, <1>18, <1>19 DEF IInv

\* There is room, or the least recently used of the idle workers makes it.
LEMMA SpawnInv ==
  ASSUME IInv, NEW c \in Calls, Spawn(c) \/ EvictAndSpawn(c) PROVE IInv'
  <1>1. CASE Spawn(c)
    <2>1. Pooled \ {} = Pooled /\ MustSpawn(c) /\ SpawnWorker(c, {}) /\ {} \subseteq Pooled
      BY <1>1 DEF Spawn
    <2>2. Cardinality(Pooled \ {}) < MaxWarm
      BY <1>1, <2>1 DEF Spawn, Pooled
    <2>3. QED  BY <2>1, <2>2, SpawnWorkerInv
  <1>2. CASE EvictAndSpawn(c)
    <2> DEFINE i == Min(Evictable)
               gone == {lru[i]}
    <2> HIDE DEF i
    <2>1. Evictable \subseteq 1..Len(lru) /\ Evictable # {} /\ Evictable \subseteq Nat
      BY <1>2 DEF EvictAndSpawn, Evictable
    <2>2. i \in Evictable
      BY <2>1, MinIsLeast, Zenon DEF i
    <2>3. lru[i] \in Pooled
      <3>1. lru \in Seq(Tools) /\ ToSet(lru) = Pooled
        BY DEF IInv, PoolOK
      <3>2. DOMAIN lru = 1..Len(lru)
        BY <3>1
      <3>3. i \in DOMAIN lru
        BY <2>1, <2>2, <3>2, Zenon
      <3>4. lru[i] \in ToSet(lru)
        BY <3>3, Zenon DEF ToSet
      <3>5. QED  BY <3>1, <3>4
    <2>4. Cardinality(Pooled \ gone) < MaxWarm
      <3>1. IsFiniteSet(Pooled) /\ Cardinality(Pooled) <= MaxWarm
        BY DEF IInv, PoolOK
      <3>2. Cardinality(Pooled) \in Nat /\ Cardinality(Pooled \ gone) = Cardinality(Pooled) - 1
        BY <2>3, <3>1, FS_CardinalityType, FS_RemoveElement
      <3>3. QED  BY <3>1, <3>2, WarmAssumption
    <2>5. MustSpawn(c) /\ SpawnWorker(c, gone)
      BY <1>2 DEF EvictAndSpawn, i
    <2>6. gone \in SUBSET Pooled
      BY <2>3
    <2> HIDE DEF gone
    <2>7. QED  BY <2>4, <2>5, <2>6, SpawnWorkerInv
  <1>3. QED  BY <1>1, <1>2

LEMMA InitInv == ASSUME Init PROVE IInv
  <1>1. {c \in Calls : phase[c] # "idle"} = {} /\ Cardinality({}) = 0
        /\ (\A w : Running(w) = {}) /\ Pooled = {} /\ DOMAIN idleTimers = {}
        /\ DOMAIN refreshing = {}
    BY FS_EmptySet DEF Init, Running, Pooled
  <1>2. CallsOK
    <2>1. /\ spawned = 0 /\ spawned \in 0..Cardinality(Calls)
          /\ spawned <= Cardinality({c \in Calls : phase[c] # "idle"})
      <3>1. spawned = 0
        BY DEF Init
      <3>2. Cardinality({c \in Calls : phase[c] # "idle"}) = 0
        BY <1>1, Zenon
      <3>3. QED  BY <3>1, <3>2, Finite
    <2>2. /\ tool \in [Workers -> Tools \cup {None}] /\ booted \in [Workers -> BOOLEAN]
          /\ phase \in [Calls -> Phases] /\ on \in [Calls -> 0..spawned]
          /\ cancelled \subseteq Calls /\ drain \subseteq cancelled
      BY <2>1 DEF Init, Phases
    <2>3. \A c \in Calls : phase[c] = "idle" /\ c \notin drain
      BY DEF Init
    <2>4. QED  BY <2>1, <2>2, <2>3 DEF CallsOK, Busy
  <1>3. ProcsOK
    BY DEF ProcsOK, Init, Procs
  <1>4. PoolOK
    <2>1. lru = <<>> /\ lru \in Seq(Tools) /\ ToSet(lru) = {} /\ IsInjective(lru)
      BY DEF Init, ToSet, IsInjective
    <2>2. IsFiniteSet(Pooled) /\ Cardinality(Pooled) <= MaxWarm
      BY <1>1, FS_EmptySet, WarmAssumption
    <2>3. QED  BY <1>1, <2>1, <2>2 DEF PoolOK
  <1>5. Spared /\ Counted /\ Kept
    BY <1>1 DEF Spared, Counted, Kept, Init
  <1>6. QED  BY <1>2, <1>3, <1>4, <1>5 DEF IInv

\* A worker that has booted runs its call, unless the call was cancelled.
LEMMA OnBootInv == ASSUME IInv, NEW c \in Calls, OnBoot(c) PROVE IInv'
  <1> DEFINE w == on[c]
  <1>1. /\ phase[c] \in {"booting", "drained"} /\ booted[w]
        /\ UNCHANGED <<spawned, tool, proc, booted, paused, answered, on, cancelled, drain,
                       refreshing, refreshes, workers, lru>>
    BY DEF OnBoot, procVars, promptVars, boundVars, poolVars
  <1>2. w \in 1..spawned /\ w \in Workers /\ tool[w] = ToolOf[c]
        /\ \A t \in Pooled : workers[t] = w <=> t \in Killed(ToolOf[c], w)
    BY <1>1, KilledTools DEF IInv, CallsOK, Busy
  <1>3. Kept'
    BY <1>1 DEF IInv, Kept, Pooled
  <1>4. CASE /\ c \in cancelled /\ UNCHANGED <<inFlight, idleTimers>>
             /\ phase' = [phase EXCEPT ![c] = IF @ = "drained" THEN "done" ELSE "refused"]
    <2>1. /\ phase' \in [Calls -> Phases] /\ phase'[c] \in {"done", "refused"}
          /\ phase[c] = "booting" => phase'[c] = "refused"
          /\ \A d \in Calls \ {c} : phase'[d] = phase[d]
      BY <1>1, <1>4 DEF IInv, CallsOK, Phases
    <2>2. \A v : Running(v)' = Running(v)
      BY <1>1, <2>1 DEF Running
    <2>3. {d \in Calls : phase'[d] # "idle"} = {d \in Calls : phase[d] # "idle"}
      BY <1>1, <2>1
    <2>4. \A d \in Calls : /\ phase'[d] \in Busy => phase[d] \in Busy
                           /\ phase'[d] = "idle" => phase[d] = "idle"
                           /\ phase'[d] = "running" => phase[d] = "running"
                           /\ d \in drain => phase'[d] \in Busy \ {"drained"}
      BY <1>1, <2>1 DEF IInv, CallsOK, Busy
    <2>5. CallsOK'
      BY <1>1, <2>1, <2>3, <2>4 DEF IInv, CallsOK
    <2>6. PoolOK'
      BY <1>1, <1>4, SamePool DEF IInv
    <2>7. ProcsOK' /\ Spared' /\ Counted'
      BY <1>1, <1>4, <2>2 DEF IInv, ProcsOK, Spared, Counted, Pooled
    <2>8. QED  BY <1>3, <2>5, <2>6, <2>7 DEF IInv
  <1>5. CASE /\ c \notin cancelled /\ phase' = [phase EXCEPT ![c] = "running"]
             /\ inFlight' = [inFlight EXCEPT ![w] = @ + 1]
             /\ idleTimers' = Without(idleTimers, {ToolOf[c]})
    <2> HIDE DEF w
    <2>1. /\ phase' \in [Calls -> Phases] /\ phase'[c] = "running"
          /\ \A d \in Calls \ {c} : phase'[d] = phase[d]
      BY <1>5 DEF IInv, CallsOK, Phases
    <2>2. Running(w)' = Running(w) \cup {c} /\ c \notin Running(w)
          /\ \A v : v # w => Running(v)' = Running(v)
      BY <1>1, <2>1 DEF Running, w
    <2>3. {d \in Calls : phase'[d] # "idle"} = {d \in Calls : phase[d] # "idle"}
      BY <1>1, <2>1
    <2>4. CallsOK'
      <3>1. \A d \in Calls : /\ phase'[d] \in Busy => phase[d] \in Busy
                             /\ phase'[d] = "idle" => phase[d] = "idle"
                             /\ phase'[d] = "running" => booted[on[d]]
                             /\ d \in drain => phase'[d] \in Busy \ {"drained"}
        BY <1>1, <2>1 DEF IInv, CallsOK, Busy, w
      <3>2. QED  BY <1>1, <2>1, <2>3, <3>1 DEF IInv, CallsOK
    <2>5. /\ inFlight' \in [Workers -> Int] /\ inFlight'[w] = inFlight[w] + 1
          /\ \A v \in Workers \ {w} : inFlight'[v] = inFlight[v]
      BY <1>2, <1>5 DEF IInv, ProcsOK
    <2>6. ProcsOK'
      BY <1>1, <2>5 DEF IInv, ProcsOK
    <2>7. /\ DOMAIN idleTimers' = DOMAIN idleTimers \ {ToolOf[c]}
          /\ \A t \in DOMAIN idleTimers' : idleTimers'[t] = idleTimers[t]
      BY <1>5 DEF Without
    <2>8. PoolOK'
      BY <1>1, <2>7 DEF IInv, PoolOK, Pooled
    <2>9. Spared'
      <3>1. \A t \in DOMAIN idleTimers' : idleTimers[t] # w
        BY <1>2, <2>7 DEF IInv, PoolOK
      <3>2. QED  BY <2>2, <2>7, <3>1 DEF IInv, Spared
    <2>10. Counted'
      <3>1. Cardinality(Running(w) \cup {c}) = Cardinality(Running(w)) + 1
        BY <2>2, Finite, FS_AddElement
      <3>2. \A t \in Pooled : workers[t] \in Workers
        BY Finite DEF IInv, PoolOK, CallsOK, Workers
      <3>3. \A t \in Pooled : inFlight'[workers[t]] = Cardinality(Running(workers[t])')
        <4> SUFFICES ASSUME NEW t \in Pooled
                     PROVE  inFlight'[workers[t]] = Cardinality(Running(workers[t])')
          OBVIOUS
        <4>1. inFlight[workers[t]] = Cardinality(Running(workers[t]))
          BY DEF IInv, Counted
        <4>2. CASE workers[t] = w
          <5>1. Running(w)' = Running(w) \cup {c} /\ w' = w /\ workers' = workers
            BY <1>1, <2>2 DEF w
          <5>2. Running(workers[t])' = Running(w) \cup {c}
            BY <4>2, <5>1
          <5>3. QED  BY <2>5, <3>1, <4>1, <4>2, <5>2
        <4>3. CASE workers[t] # w
          BY <1>1, <2>2, <2>5, <3>2, <4>1, <4>3
        <4>4. QED  BY <4>2, <4>3
      <3>4. \A v \in Workers : v > spawned => v # w
        BY <1>2, Finite DEF IInv, CallsOK, Workers
      <3>5. Pooled' = Pooled
        BY <1>1 DEF Pooled
      <3>6. QED  BY <1>1, <2>5, <3>3, <3>4, <3>5 DEF IInv, Counted
    <2>11. QED  BY <1>3, <2>4, <2>6, <2>8, <2>9, <2>10 DEF IInv
  <1>6. QED  BY <1>4, <1>5 DEF OnBoot, poolVars

\* A call leaves a worker that goes on: the worker's timer is armed if it is idle,
\* and its count is that of the calls it still runs.
LEMMA BumpInv ==
  ASSUME IInv, NEW c \in Calls, on[c] # 0, Settle({c}, "done"),
         inFlight' \in [Workers -> Int],
         \A v \in Workers \ {on[c]} : inFlight'[v] = inFlight[v],
         \A t \in Pooled : workers[t] = on[c] =>
             inFlight'[on[c]] = Cardinality(Running(on[c]) \ {c}),
         BumpIdleTimer(ToolOf[c], inFlight'),
         UNCHANGED <<workers, lru, spawned, tool, proc, booted, paused, answered,
                     refreshing, refreshes>>
  PROVE  IInv'
  <1> DEFINE w == on[c]
  <1>1. w \in 1..spawned /\ w \in Workers
    BY KilledTools DEF IInv
  <1>2. CallsOK' /\ \A v : Running(v)' = Running(v) \ {c}
    BY SettleCalls DEF IInv
  <1>3. /\ PoolOK' /\ Pooled' = Pooled
        /\ \A s \in DOMAIN idleTimers' :
              \/ s \in DOMAIN idleTimers /\ s # ToolOf[c]
              \/ s \in Pooled /\ inFlight'[workers[s]] = 0
    BY BumpPool DEF IInv, Pooled
  <1> HIDE DEF w
  <1>4. Counted'
    <2>1. ASSUME NEW v, v # w PROVE Running(v)' = Running(v)
      <3>1. c \notin Running(v)
        BY <2>1 DEF Running, w
      <3>2. QED  BY <1>2, <3>1
    <2>2. \A t \in Pooled : workers[t] \in Workers
      BY Finite DEF IInv, PoolOK, CallsOK, Workers
    <2>3. ASSUME NEW t \in Pooled PROVE inFlight'[workers[t]] = Cardinality(Running(workers[t])')
      <3>1. CASE workers[t] = w
        BY <1>2, <3>1 DEF w
      <3>2. CASE workers[t] # w
        BY <2>1, <2>2, <3>2 DEF IInv, Counted, w
      <3>3. QED  BY <3>1, <3>2
    <2>4. \A v \in Workers : v > spawned => v # w
      BY <1>1, Finite DEF IInv, CallsOK, Workers
    <2>5. \A v \in Workers : v > spawned => inFlight'[v] = 0 /\ ~booted'[v]
      BY <2>4 DEF IInv, Counted, w
    <2>6. QED  BY <1>3, <2>3, <2>5 DEF Counted
  <1>5. Spared'
    <2> SUFFICES ASSUME NEW s \in DOMAIN idleTimers', NEW v, v = idleTimers'[s]
                 PROVE  Running(v)' = {}
      BY DEF Spared
    <2>1. s \in Pooled' /\ v = workers'[s] /\ v = workers[s]
      BY <1>3 DEF PoolOK
    <2>2. CASE s \in DOMAIN idleTimers
      <3>1. v = idleTimers[s] /\ Running(v) = {}
        BY <2>1, <2>2 DEF IInv, PoolOK, Spared
      <3>2. QED  BY <1>2, <3>1
    <2>3. CASE s \in Pooled /\ inFlight'[workers[s]] = 0
      <3>1. Cardinality(Running(v)') = 0
        BY <1>4, <2>1, <2>3 DEF Counted
      <3>2. IsFiniteSet(Running(v)')
        BY <1>2, Finite, FS_Subset
      <3>3. QED  BY <3>1, <3>2, FS_EmptySet
    <2>4. QED  BY <1>3, <2>2, <2>3
  <1>6. ProcsOK'
    BY DEF IInv, ProcsOK
  <1>7. Kept'
    BY DEF IInv, Kept, Pooled
  <1>8. QED  BY <1>2, <1>3, <1>4, <1>5, <1>6, <1>7 DEF IInv

\* No call runs on a worker that has not booted.
LEMMA BootFailsInv == ASSUME IInv, NEW c \in Calls, BootFails(c) PROVE IInv'
  <1> DEFINE w == on[c]
  <1>1. /\ on[c] # 0 /\ ~booted[w] /\ inFlight' = Fewer(w, 1) /\ Settle({c}, "done")
        /\ BumpIdleTimer(ToolOf[c], inFlight')
        /\ UNCHANGED <<workers, lru, spawned, tool, proc, booted, paused, answered, refreshing,
                       refreshes>>
    BY DEF BootFails, procVars, promptVars, boundVars, Busy, IInv, CallsOK
  <1>2. w \in Workers
    BY <1>1, KilledTools DEF IInv
  <1>3. Running(w) = {} /\ Running(w) \ {c} = {}
    BY <1>1 DEF IInv, CallsOK, Running
  <1> HIDE DEF w
  <1>4. /\ inFlight' \in [Workers -> Int] /\ \A v \in Workers \ {w} : inFlight'[v] = inFlight[v]
        /\ inFlight[w] <= 1 => inFlight'[w] = 0
    BY <1>1, <1>2, FewerCounts DEF IInv, ProcsOK
  <1>5. ASSUME NEW t \in Pooled, workers[t] = w PROVE inFlight'[w] = Cardinality(Running(w) \ {c})
    <2>1. inFlight[w] = 0
      BY <1>3, <1>5, FS_EmptySet DEF IInv, Counted
    <2>2. QED  BY <1>3, <1>4, <2>1, FS_EmptySet
  <1>6. QED  BY <1>1, <1>4, <1>5, BumpInv DEF w

\* A call returns: its worker is retired, or waits for the next.
LEMMA AnswerInv == ASSUME IInv, NEW c \in Calls, Answer(c) PROVE IInv'
  <1> DEFINE w == on[c]
             T == Killed(ToolOf[c], w)
  <1>1. /\ phase[c] = "running" /\ on[c] # 0
        /\ inFlight' = [inFlight EXCEPT ![w] = @ - 1] /\ Settle({c}, "done")
        /\ UNCHANGED <<spawned, tool, booted, paused, answered, refreshing, refreshes>>
    BY DEF Answer, promptVars, boundVars, Busy, IInv, CallsOK
  <1>2. w \in 1..spawned /\ w \in Workers /\ \A t \in Pooled : workers[t] = w <=> t \in T
    BY <1>1, KilledTools DEF IInv
  <1> HIDE DEF w, T
  <1>3. /\ inFlight' \in [Workers -> Int] /\ inFlight'[w] = inFlight[w] - 1
        /\ \A v \in Workers \ {w} : inFlight'[v] = inFlight[v]
    BY <1>1, <1>2 DEF IInv, ProcsOK
  <1>4. CASE Forget(T) /\ proc' = Terminated(proc, w)
    <2>1. inFlight' \in [Workers -> Int] /\ \A v \in Workers \ {w} : inFlight'[v] = inFlight[v]
      BY <1>3
    <2>2. QED  BY <1>1, <1>4, <2>1, EndedInv DEF w, T
  <1>5. CASE BumpIdleTimer(ToolOf[c], inFlight') /\ UNCHANGED <<workers, lru, proc>>
    <2>1. ASSUME NEW t \in Pooled, workers[t] = w
          PROVE  inFlight'[w] = Cardinality(Running(w) \ {c})
      <3>1. c \in Running(w)
        BY <1>1 DEF Running, w
      <3>2. inFlight[w] = Cardinality(Running(w))
        BY <2>1 DEF IInv, Counted
      <3>3. QED  BY <1>3, <3>1, <3>2, Finite, FS_RemoveElement
    <2>2. QED  BY <1>1, <1>3, <1>5, <2>1, BumpInv DEF w
  <1>6. QED  BY <1>4, <1>5 DEF Answer, w, T

\* A call is cancelled; a worker boots; a prompt opens, or comes to its end.
LEMMA CancelInv == ASSUME IInv, NEW c \in Calls, Cancel(c) PROVE IInv'
  <1>1. /\ phase[c] \in {"booting", "running"}
        /\ cancelled' = cancelled \cup {c} /\ drain' = drain \cup {c}
        /\ UNCHANGED <<workers, lru, idleTimers, inFlight, spawned, tool, proc, booted, paused,
                       answered, phase, on, refreshing, refreshes>>
    BY DEF Cancel, poolVars, procVars, promptVars, boundVars
  <1>2. CallsOK'
    BY <1>1 DEF IInv, CallsOK, Busy
  <1>3. PoolOK'
    BY <1>1, SamePool DEF IInv
  <1>4. \A v : Running(v)' = Running(v)
    BY <1>1 DEF Running
  <1>5. ProcsOK' /\ Spared' /\ Counted' /\ Kept'
    BY <1>1, <1>4 DEF IInv, ProcsOK, Spared, Counted, Kept, Pooled
  <1>6. QED  BY <1>2, <1>3, <1>5 DEF IInv

\* What a prompt does is no matter of the pool's.
LEMMA AsideInv ==
  ASSUME IInv, proc' \in [Workers -> Procs],
         \A v \in Workers : proc'[v] \in Live => proc[v] \in Live,
         paused' \subseteq 1..spawned, answered' \subseteq 1..spawned,
         UNCHANGED <<workers, lru, idleTimers, inFlight, spawned, tool, booted, phase, on,
                     cancelled, drain, refreshing, refreshes>>
  PROVE  IInv'
  <1>1. CallsOK'
    BY DEF IInv, CallsOK
  <1>2. PoolOK'
    BY SamePool DEF IInv
  <1>3. \A v : Running(v)' = Running(v)
    BY DEF Running
  <1>4. ProcsOK' /\ Spared' /\ Counted'
    BY <1>3 DEF IInv, ProcsOK, Spared, Counted, Pooled
  <1>5. Kept'
    <2>1. \A v \in 1..spawned : v \in Workers
      BY Finite DEF IInv, CallsOK, Workers
    <2>2. QED  BY <2>1 DEF IInv, Kept, Pooled
  <1>6. QED  BY <1>1, <1>2, <1>4, <1>5 DEF IInv

LEMMA PromptAnsweredInv == ASSUME IInv, NEW c \in Calls, PromptAnswered(c) PROVE IInv'
  BY AsideInv DEF PromptAnswered, poolVars, boundVars, IInv, ProcsOK

LEMMA PromptSettlesInv ==
  ASSUME IInv, TimersOK, NEW w \in 1..spawned, PromptSettles(w) PROVE IInv'
  <1>1. paused' \subseteq paused /\ answered' \subseteq answered \cup paused
    BY DEF PromptSettles, TimersOK
  <1>2. QED  BY <1>1, AsideInv DEF PromptSettles, poolVars, callVars, boundVars, IInv, ProcsOK

LEMMA AnswerGivesUpInv == ASSUME IInv, NEW w \in 1..spawned, AnswerGivesUp(w) PROVE IInv'
  <1>1. proc' = [proc EXCEPT ![w] = "exiting"] /\ proc \in [Workers -> Procs]
    BY DEF AnswerGivesUp, IInv, ProcsOK
  <1>2. /\ proc' \in [Workers -> Procs]
        /\ \A v \in Workers : proc'[v] \in Live => proc[v] \in Live
    BY <1>1 DEF Procs, Live
  <1>3. QED
    BY <1>2, AsideInv DEF AnswerGivesUp, poolVars, callVars, boundVars, IInv, ProcsOK

LEMMA BootsInv == ASSUME IInv, NEW w \in 1..spawned, Boots(w) PROVE IInv'
  <1>1. /\ proc[w] \in {"booting", "exiting"} /\ booted' = [booted EXCEPT ![w] = TRUE]
        /\ proc' = [proc EXCEPT ![w] = IF @ = "booting" THEN "up" ELSE @]
        /\ UNCHANGED <<workers, lru, idleTimers, inFlight, spawned, tool, paused, answered,
                       phase, on, cancelled, drain, refreshing, refreshes>>
    BY DEF Boots, poolVars, promptVars, callVars, boundVars
  <1>2. w \in Workers /\ w <= spawned /\ spawned \in Int
    BY Finite DEF IInv, CallsOK, Workers
  <1>3. /\ booted' \in [Workers -> BOOLEAN]
        /\ \A v \in Workers : booted[v] => booted'[v]
        /\ \A v \in Workers \ {w} : booted'[v] = booted[v]
    BY <1>1, <1>2 DEF IInv, CallsOK
  <1>4. proc' \in [Workers -> Procs] /\ \A v \in Workers : proc'[v] \in Live => proc[v] \in Live
    BY <1>1, <1>2 DEF IInv, ProcsOK, Procs, Live
  <1>5. CallsOK'
    <2>1. \A d \in Calls : phase[d] = "running" => booted'[on[d]]
      <3> SUFFICES ASSUME NEW d \in Calls, phase[d] = "running" PROVE booted'[on[d]]
        OBVIOUS
      <3>1. on[d] \in Workers /\ booted[on[d]]
        BY KilledTools DEF IInv, CallsOK, Busy
      <3>2. QED  BY <1>3, <3>1
    <2>2. QED  BY <1>1, <1>3, <2>1 DEF IInv, CallsOK
  <1>6. PoolOK'
    BY <1>1, SamePool DEF IInv
  <1>7. \A v : Running(v)' = Running(v)
    BY <1>1 DEF Running
  <1>8. ProcsOK' /\ Spared'
    BY <1>1, <1>4, <1>7 DEF IInv, ProcsOK, Spared
  <1>9. Counted'
    <2>1. \A v \in Workers : v > spawned => v # w
      BY <1>2 DEF Workers
    <2>2. QED  BY <1>1, <1>3, <1>7, <2>1 DEF IInv, Counted, Pooled
  <1>10. Kept'
    <2>1. \A v \in 1..spawned : v \in Workers
      BY Finite DEF IInv, CallsOK, Workers
    <2>2. QED  BY <1>1, <1>4, <2>1 DEF IInv, Kept, Pooled
  <1>11. QED  BY <1>5, <1>6, <1>8, <1>9, <1>10 DEF IInv

LEMMA PromptOpensInv == ASSUME IInv, NEW w \in 1..spawned, PromptOpens(w) PROVE IInv'
  BY AsideInv DEF PromptOpens, poolVars, IInv, ProcsOK

\* A process exits, and its calls end with it.
LEMMA ExitsInv == ASSUME IInv, NEW w \in 1..spawned, Exits(w) PROVE IInv'
  <1> DEFINE awaited == {t \in DOMAIN refreshing : refreshing[t] = w}
             killed == IF Running(w) = {} THEN {} ELSE Killed(tool[w], w)
             n == Cardinality(Running(w))
             T == killed \cup awaited
  <1>1. /\ proc' = [proc EXCEPT ![w] = "dead"] /\ inFlight' = Fewer(w, n)
        /\ Settle(Running(w), "done") /\ Forget(T)
        /\ refreshing' = Without(refreshing, awaited)
        /\ paused' = paused \ {w} /\ answered' = answered \ {w}
        /\ UNCHANGED <<spawned, tool, booted, refreshes>>
    BY DEF Exits
  <1>2. w \in Workers /\ w <= spawned /\ spawned \in Int /\ n \in Nat
    BY Finite DEF IInv, CallsOK, Workers
  <1>3. /\ \A t \in Pooled : t \in killed => workers[t] = w
        /\ DOMAIN refreshing = {} => awaited = {}
    BY DEF Killed
  <1>4. DOMAIN refreshing' \subseteq DOMAIN refreshing
    BY <1>1 DEF Without
  <1> HIDE DEF awaited, killed, n
  <1>5. CallsOK' /\ \A v : Running(v)' = Running(v) \ Running(w)
    <2>1. Running(w) \in SUBSET Calls /\ \A c \in Running(w) : on[c] # 0
      BY DEF Running, Busy, IInv, CallsOK
    <2>2. QED  BY <1>1, <2>1, SettleCalls DEF IInv
  <1>6. Running(w)' = {}
    BY <1>5
  <1>7. ASSUME NEW v, v # w PROVE Running(v)' = Running(v)
    <2>1. Running(v) \cap Running(w) = {}
      BY <1>7 DEF Running
    <2>2. QED  BY <1>5, <2>1
  <1> HIDE DEF T
  <1>8. /\ PoolOK' /\ Pooled' = Pooled \ T /\ \A t \in Pooled' : workers'[t] = workers[t]
        /\ DOMAIN idleTimers' = DOMAIN idleTimers \ T
        /\ \A t \in DOMAIN idleTimers' : idleTimers'[t] = idleTimers[t]
    BY <1>1, ForgetPool DEF IInv
  <1>9. /\ proc' \in [Workers -> Procs] /\ proc'[w] \notin Live
        /\ \A v \in Workers : proc'[v] \in Live => proc[v] \in Live
    BY <1>1, <1>2 DEF IInv, ProcsOK, Procs, Live
  <1>10. /\ inFlight' \in [Workers -> Int]
         /\ \A v \in Workers \ {w} : inFlight'[v] = inFlight[v]
         /\ inFlight[w] <= n => inFlight'[w] = 0
    BY <1>1, <1>2, FewerCounts DEF IInv, ProcsOK
  <1>11. ProcsOK'
    BY <1>1, <1>9, <1>10 DEF IInv, ProcsOK
  <1>12. Spared'
    BY <1>5, <1>8 DEF IInv, Spared
  <1>13. Counted'
    <2>1. ASSUME NEW t \in Pooled', NEW v, v = workers[t]
          PROVE  inFlight'[v] = Cardinality(Running(v)')
      <3>1. t \in Pooled /\ v \in Workers /\ inFlight[v] = Cardinality(Running(v))
        BY <1>8, <2>1, Finite DEF IInv, PoolOK, CallsOK, Workers, Counted
      <3>2. CASE v = w
        <4>1. inFlight'[w] = 0
          BY <1>2, <1>10, <3>1, <3>2 DEF n
        <4>2. QED  BY <1>6, <3>2, <4>1, FS_EmptySet
      <3>3. CASE v # w
        BY <1>7, <1>10, <3>1, <3>3
      <3>4. QED  BY <3>2, <3>3
    <2>2. \A v \in Workers : v > spawned => v # w
      BY <1>2 DEF Workers
    <2>3. QED  BY <1>1, <1>8, <1>10, <2>1, <2>2 DEF IInv, Counted
  <1>14. Kept'
    <2>1. CASE refreshes = 0
      <3>1. DOMAIN refreshing = {} /\ \A t \in Pooled : t \in T => workers[t] = w
        BY <1>3, <2>1 DEF IInv, Kept, T
      <3>2. QED  BY <1>1, <1>4, <1>8, <1>9, <3>1, KeptAfter DEF IInv
    <2>2. CASE refreshes # 0
      BY <1>1, <2>2 DEF Kept
    <2>3. QED  BY <2>1, <2>2
  <1>15. QED  BY <1>5, <1>8, <1>11, <1>12, <1>13, <1>14 DEF IInv

\* A worker is terminated and leaves the pool, or stays until it exits.
LEMMA StoppedInv ==
  ASSUME IInv, NEW t \in Pooled, proc' = Terminated(proc, workers[t]),
         \/ Forget({t}) /\ refreshes' = refreshes /\ UNCHANGED refreshing
         \/ Forget({t}) /\ refreshes' = refreshes + 1
         \/ UNCHANGED <<workers, lru, idleTimers>> /\ refreshes' = refreshes + 1,
         UNCHANGED <<inFlight, spawned, tool, booted, promptVars, callVars>>
  PROVE  IInv'
  <1> DEFINE w == workers[t]
  <1>1. UNCHANGED <<spawned, tool, booted, paused, answered, phase, on, cancelled, drain>>
    BY DEF callVars, promptVars
  <1>2. w \in Workers
    BY Finite DEF IInv, PoolOK, CallsOK, Workers
  <1>3. CallsOK'
    BY <1>1 DEF IInv, CallsOK
  <1>4. \A v : Running(v)' = Running(v)
    BY <1>1 DEF Running
  <1>5. /\ proc' \in [Workers -> Procs] /\ proc'[w] \notin Live
        /\ \A v \in Workers : proc'[v] \in Live => proc[v] \in Live
    BY <1>2, TerminatedProc DEF IInv, ProcsOK
  <1>6. refreshes \in Nat /\ (refreshes' # refreshes => refreshes' \in Nat \ {0})
    BY DEF IInv, ProcsOK
  <1>7. ProcsOK'
    BY <1>1, <1>5, <1>6 DEF IInv, ProcsOK
  <1>8. CASE Forget({t})
    <2>1. /\ PoolOK' /\ Pooled' = Pooled \ {t} /\ \A s \in Pooled' : workers'[s] = workers[s]
          /\ DOMAIN idleTimers' = DOMAIN idleTimers \ {t}
          /\ \A s \in DOMAIN idleTimers' : idleTimers'[s] = idleTimers[s]
      BY <1>1, <1>8, ForgetPool DEF IInv
    <2>2. Spared' /\ Counted'
      BY <1>1, <1>4, <2>1 DEF IInv, Spared, Counted
    <2>3. Kept'
      <3>1. CASE refreshes' = refreshes
        <4>1. refreshing' = refreshing
          BY <1>6, <3>1 DEF IInv, ProcsOK
        <4>2. \A s \in Pooled : s \in {t} => proc'[workers[s]] \notin Live
          BY <1>5
        <4>3. refreshes = 0 => DOMAIN refreshing' = {}
          BY <4>1 DEF IInv, Kept
        <4>4. QED  BY <1>1, <1>5, <2>1, <3>1, <4>2, <4>3, KeptAfter DEF IInv
      <3>2. CASE refreshes' # refreshes
        BY <1>6, <3>2 DEF Kept
      <3>3. QED  BY <3>1, <3>2
    <2>4. QED  BY <1>3, <1>7, <2>1, <2>2, <2>3 DEF IInv
  <1>9. CASE UNCHANGED <<workers, lru, idleTimers>> /\ refreshes' = refreshes + 1
    <2>1. PoolOK'
      BY <1>1, <1>9, SamePool DEF IInv
    <2>2. Spared' /\ Counted'
      BY <1>1, <1>4, <1>9 DEF IInv, Spared, Counted, Pooled
    <2>3. refreshes' # 0
      BY <1>6, <1>9
    <2>4. QED  BY <1>3, <1>7, <2>1, <2>2, <2>3 DEF IInv, Kept
  <1>10. QED  BY <1>8, <1>9

LEMMA IdleEvictInv == ASSUME IInv, NEW t \in Tools, IdleEvict(t) PROVE IInv'
  <1>1. t \in Pooled /\ idleTimers[t] = workers[t]
    BY DEF IdleEvict, IInv, PoolOK
  <1>2. QED  BY <1>1, StoppedInv DEF IdleEvict, boundVars

LEMMA RefreshInv == ASSUME IInv, NEW t \in Tools, Refresh(t) PROVE IInv'
  <1>1. t \in Pooled
    BY DEF Refresh, Pooled
  <1>2. \/ Forget({t})
        \/ UNCHANGED <<workers, lru, idleTimers>>
    BY DEF Refresh
  <1>3. QED  BY <1>1, <1>2, StoppedInv DEF Refresh

\* A timer that fires ends its call, or finds the user being asked.
LEMMA TimerFiresInv == ASSUME IInv, TimersOK, NEW c \in Calls, TimerFires(c) PROVE IInv'
  <1>1. CASE c \in asking
    BY <1>1, AsideInv DEF TimerFires, poolVars, procVars, promptVars, boundVars, IInv, ProcsOK
  <1>2. CASE c \notin asking
    BY <1>2, KillInv DEF TimerFires, TimersOK
  <1>3. QED  BY <1>1, <1>2

LEMMA NextInv == ASSUME IInv, TimersOK, [Next]_vars PROVE IInv'
  <1>1. ASSUME NEW c \in Calls, CallStep(c) PROVE IInv'
    <2>1. DrainTimer(c) => on[c] # 0 /\ Kill(c)
      BY DEF DrainTimer, IInv, CallsOK
    <2>2. QED
      BY <1>1, <2>1, ReuseInv, SpawnInv, RefuseBusyInv, OnBootInv, BootFailsInv,
         AnswerInv, TimerFiresInv, KillInv, CancelInv, PromptAnsweredInv DEF CallStep
  <1>2. ASSUME NEW w \in 1..spawned, WorkerStep(w) PROVE IInv'
    BY <1>2, BootsInv, PromptOpensInv, PromptSettlesInv, AnswerGivesUpInv, ExitsInv
    DEF WorkerStep
  <1>3. ASSUME NEW t \in Tools, IdleEvict(t) \/ Refresh(t) PROVE IInv'
    BY <1>3, IdleEvictInv, RefreshInv
  <1>4. CASE UNCHANGED vars
    BY <1>4, AsideInv
    DEF vars, poolVars, procVars, promptVars, callVars, boundVars, IInv, ProcsOK
  <1>5. QED  BY <1>1, <1>2, <1>3, <1>4 DEF Next

\* What a step does to the timers of a call, and to those who wait for the user.
LEMMA NextTimers == ASSUME IInv, TimersOK, [Next]_vars PROVE TimersOK'
  <1>1. \A c \in Calls : on[c] # 0 => on'[c] # 0
    <2> SUFFICES ASSUME Next PROVE \A c \in Calls : on[c] # 0 => on'[c] # 0
      BY DEF vars, callVars
    <2>1. ASSUME NEW c \in Calls, Reuse(c) \/ Spawn(c) \/ EvictAndSpawn(c)
          PROVE  \A d \in Calls : on[d] # 0 => on'[d] # 0
      <3>1. PICK w : w # 0 /\ on' = [on EXCEPT ![c] = w]
        <4>1. \A t \in DOMAIN workers : workers[t] # 0
          BY DEF IInv, PoolOK, Pooled
        <4>2. spawned + 1 # 0
          BY DEF IInv, CallsOK
        <4>3. QED  BY <2>1, <4>1, <4>2 DEF Reuse, Spawn, EvictAndSpawn, SpawnWorker, Attach
      <3>2. QED  BY <3>1 DEF IInv, CallsOK
    <2>2. ASSUME NEW c \in Calls, CallStep(c), ~(Reuse(c) \/ Spawn(c) \/ EvictAndSpawn(c))
          PROVE  on' = on
      BY <2>2 DEF CallStep, RefuseBusy, OnBoot, BootFails, Answer, TimerFires, Kill, Cancel,
                  DrainTimer, PromptAnswered, Settle
    <2>3. ASSUME NEW w \in 1..spawned, WorkerStep(w) PROVE on' = on
      BY <2>3 DEF WorkerStep, Boots, PromptOpens, PromptSettles, AnswerGivesUp, Exits, Settle,
                  callVars
    <2>4. ASSUME NEW t \in Tools, IdleEvict(t) \/ Refresh(t) PROVE on' = on
      BY <2>4 DEF IdleEvict, Refresh, callVars
    <2>5. QED  BY <2>1, <2>2, <2>3, <2>4 DEF Next
  <1>2. /\ asking' \cup armed' \cup stray' \subseteq {c \in Calls : on[c] # 0}
        /\ spent' \subseteq Calls /\ answering' \subseteq paused'
    <2>1. ASSUME NEW c \in Calls, CallStep(c)
          PROVE  /\ asking' \cup armed' \cup stray' \subseteq {d \in Calls : on[d] # 0}
                 /\ spent' \subseteq Calls /\ answering' \subseteq paused'
      <3>1. CASE Reuse(c) \/ Spawn(c) \/ EvictAndSpawn(c) \/ RefuseBusy(c)
        BY <3>1 DEF Reuse, Spawn, EvictAndSpawn, SpawnWorker, Attach, RefuseBusy, TimersOK,
                    timerVars, procVars, promptVars
      <3>2. CASE OnBoot(c)
        <4>1. on[c] # 0 /\ UNCHANGED <<asking, procVars>>
          BY <3>2 DEF OnBoot, IInv, CallsOK, Busy
        <4>2. UNCHANGED timerVars \/ Arm(c)
          BY <3>2 DEF OnBoot
        <4>3. QED  BY <4>1, <4>2 DEF Arm, TimersOK, timerVars, procVars, promptVars
      <3>3. CASE BootFails(c) \/ DrainTimer(c)
        BY <3>3 DEF BootFails, DrainTimer, Kill, Settle, TimersOK, timerVars, procVars, promptVars
      <3>4. CASE Answer(c) \/ Cancel(c)
        BY <3>4 DEF Answer, Cancel, Disarm, Settle, TimersOK, procVars, promptVars
      <3>5. CASE TimerFires(c)
        BY <3>5 DEF TimerFires, Fired, Kill, Settle, TimersOK, procVars, promptVars
      <3>6. CASE PromptAnswered(c)
        <4>1. on[c] # 0 /\ (UNCHANGED timerVars \/ Arm(c))
          BY <3>6 DEF PromptAnswered, TimersOK
        <4>2. /\ asking' \subseteq asking /\ paused' = paused
              /\ answering' \subseteq answering \cup paused
          BY <3>6 DEF PromptAnswered
        <4>3. QED  BY <4>1, <4>2 DEF Arm, TimersOK, timerVars
      <3>7. QED  BY <2>1, <3>1, <3>2, <3>3, <3>4, <3>5, <3>6 DEF CallStep
    <2>2. ASSUME NEW w \in 1..spawned, WorkerStep(w)
          PROVE  /\ asking' \cup armed' \cup stray' \subseteq {d \in Calls : on[d] # 0}
                 /\ spent' \subseteq Calls /\ answering' \subseteq paused'
      <3>1. CASE Boots(w) \/ PromptSettles(w) \/ AnswerGivesUp(w)
        BY <3>1 DEF Boots, PromptSettles, AnswerGivesUp, TimersOK, callVars, timerVars, promptVars
      <3>2. CASE PromptOpens(w)
        <4>1. Hearing(w) \subseteq {d \in Calls : on[d] # 0}
          BY DEF Hearing
        <4>2. QED  BY <3>2, <4>1 DEF PromptOpens, TimersOK
      <3>3. CASE Exits(w)
        BY <3>3 DEF Exits, Settle, Disarm, TimersOK
      <3>4. QED  BY <2>2, <3>1, <3>2, <3>3 DEF WorkerStep
    <2>3. ASSUME NEW t \in Tools, IdleEvict(t) \/ Refresh(t)
          PROVE  UNCHANGED <<promptVars, callVars>>
      BY <2>3 DEF IdleEvict, Refresh
    <2>4. UNCHANGED vars => UNCHANGED <<promptVars, callVars>>
      BY DEF vars, procVars
    <2>5. QED  BY <2>1, <2>2, <2>3, <2>4 DEF Next, TimersOK, promptVars, callVars, timerVars
  <1>3. QED  BY <1>1, <1>2 DEF TimersOK

LEMMA Invariance == Spec => [](IInv /\ TimersOK)
  <1>1. Init => IInv /\ TimersOK
    BY InitInv DEF Init, TimersOK
  <1>2. IInv /\ TimersOK /\ [Next]_vars => (IInv /\ TimersOK)'
    BY NextInv, NextTimers
  <1>3. QED  BY <1>1, <1>2, PTL DEF Spec

-----------------------------------------------------------------------------
(* The theorems                                                            *)

\* At every moment the pool's three Maps agree: the LRU order (whose first idle
\* key evictLeastRecent() takes) lists each key of the pool once and no other, and
\* a timer is armed only for the worker now under its key, with no call at work on it.
THEOREM MapsAlwaysAgree == Spec => []MapsAgree
  <1>1. IInv /\ TimersOK => MapsAgree
    <2> SUFFICES ASSUME IInv, TimersOK PROVE MapsAgree
      OBVIOUS
    <2>1. TypeOK
      <3>1. \A t \in DOMAIN idleTimers : t \in Tools /\ idleTimers[t] \in 1..spawned
        BY DEF IInv, PoolOK
      <3>2. QED
        BY <3>1 DEF IInv, CallsOK, ProcsOK, PoolOK, TimersOK, Pooled, Procs, TypeOK
    <2>2. \A t \in DOMAIN idleTimers : Running(idleTimers[t]) = {}
      BY DEF IInv, Spared
    <2>3. QED  BY <2>1, <2>2 DEF IInv, PoolOK, Pooled, MapsAgree
  <1>2. QED  BY <1>1, Invariance, PTL

\* The pool never holds more than maxWarmWorkers workers: a call that cannot evict
\* an idle one is refused; and no worker ever stands under another tool's key.
THEOREM AlwaysWarmBounded == Spec => []WarmBounded
  <1>1. IInv => WarmBounded
    BY DEF IInv, PoolOK, Pooled, WarmBounded
  <1>2. QED  BY <1>1, Invariance, PTL

\* A pooled worker's inFlightCalls is the number of the calls that run on it, however
\* its calls end: by result, error, timeout, cancellation, exit or failed boot.
THEOREM CountsAreAccurate == Spec => []PooledCountAccurate
  <1>1. IInv => PooledCountAccurate
    BY DEF IInv, Counted, Pooled, PooledCountAccurate
  <1>2. QED  BY <1>1, Invariance, PTL

\* Until permissions are refreshed, a process that leaves the pool has been told to
\* exit: by eviction, by its idle timer, by the end of its call, or it is dead.
THEOREM NoOrphanEver == Spec => []NoOrphanUnrefreshed
  <1>1. IInv => NoOrphanUnrefreshed
    BY DEF IInv, Kept, Pooled, Live, NoOrphan, NoOrphanUnrefreshed
  <1>2. QED  BY <1>1, Invariance, PTL
=============================================================================
