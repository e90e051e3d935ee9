--------------------------- MODULE SlotScheduler ---------------------------
(***************************************************************************)
(* LlmScheduler (tomat-core-engine/src/services/llm-scheduler.ts): the     *)
(* semaphore in front of the local llama-server.  At most Slots            *)
(* completions are in flight; the rest queue per client and are granted    *)
(* by a rotating index over the clients that have a queue.  JavaScript     *)
(* runs each method to completion, so an action is what runs between two   *)
(* awaits.  Requests to an external provider bypass the class and are not  *)
(* in the model.                                                           *)
(***************************************************************************)
EXTENDS Integers, SequencesExt, FiniteSetsExt

CONSTANTS
    Clients,              \* the client ids
    Requests,             \* calls of schedule() for the local provider
    ClientOf,             \* the client each request is made for
    Slots,                \* parallelSlots
    QueueDepthMultiplier, \* QUEUE_DEPTH_MULTIPLIER
    Reissued              \* the requests that are asked for again when they have ended

ASSUME SlotsAssumption   == Slots \in Nat \ {0}
ASSUME ClientsAssumption == ClientOf \in [Requests -> Clients]
ASSUME DepthAssumption   == QueueDepthMultiplier \in Nat \ {0}

VARIABLES
    localActive,        \* slots taken
    localQueueByClient, \* the Map: its keys are the DOMAIN, a value is a
                        \* queue of grants, one grant per queued request
    clientOrder,        \* the rotation
    nextClientIdx,      \* zero-based, as in the code
    phase,              \* where each request is
    wedged              \* active requests whose upstream emits no more deltas

vars == <<localActive, localQueueByClient, clientOrder, nextClientIdx, phase, wedged>>
queueVars == <<localQueueByClient, clientOrder, nextClientIdx>>

Phase == {"idle", "queued", "active", "done"}

In(p) == {r \in Requests : phase[r] = p}

QueueLen == MapThenSumSet(LAMBDA c : Len(localQueueByClient[c]), DOMAIN localQueueByClient)
MaxQueueDepth == Slots * QueueDepthMultiplier

Enter(r, p) == phase' = [phase EXCEPT ![r] = p]

Init ==
    /\ localActive = 0
    /\ localQueueByClient = [c \in {} |-> <<>>]
    /\ clientOrder = <<>>
    /\ nextClientIdx = 0
    /\ phase = [r \in Requests |-> "idle"]
    /\ wedged = {}

-----------------------------------------------------------------------------
(* schedule() up to its first await                                        *)

\* The queue is full (server_busy), or the signal is aborted already.
Refuse(r) ==
    /\ phase[r] = "idle"
    /\ QueueLen >= MaxQueueDepth
    /\ Enter(r, "done")
    /\ UNCHANGED <<localActive, queueVars, wedged>>

RejectAborted(r) ==
    /\ phase[r] = "idle"
    /\ QueueLen < MaxQueueDepth
    /\ Enter(r, "done")
    /\ UNCHANGED <<localActive, queueVars, wedged>>

\* Mutant: the fast path forgets to compare with parallelSlots.
TakeSlotUnchecked(r) ==
    /\ phase[r] = "idle"
    /\ QueueLen < MaxQueueDepth
    /\ localActive' = localActive + 1
    /\ Enter(r, "active")
    /\ UNCHANGED <<queueVars, wedged>>

TakeSlot(r) ==
    /\ phase[r] = "idle"
    /\ QueueLen < MaxQueueDepth
    /\ localActive < Slots
    /\ localActive' = localActive + 1
    /\ Enter(r, "active")
    /\ UNCHANGED <<queueVars, wedged>>

\* The Map with client c's queue set to q, creating the key if need be ...
WithQueue(c, q) ==
    [d \in DOMAIN localQueueByClient \cup {c} |->
        IF d = c THEN q ELSE localQueueByClient[d]]
\* ... and the Map without the key c.
WithoutQueue(c) == [d \in DOMAIN localQueueByClient \ {c} |-> localQueueByClient[d]]

Enqueue(r) ==
    LET c == ClientOf[r] IN
    /\ phase[r] = "idle"
    /\ QueueLen < MaxQueueDepth
    /\ localActive >= Slots
    /\ \/ /\ c \in DOMAIN localQueueByClient
          /\ localQueueByClient' = WithQueue(c, Append(localQueueByClient[c], r))
          /\ UNCHANGED clientOrder
       \/ /\ c \notin DOMAIN localQueueByClient
          /\ localQueueByClient' = WithQueue(c, <<r>>)
          /\ clientOrder' = Append(clientOrder, c)
    /\ Enter(r, "queued")
    /\ UNCHANGED <<localActive, nextClientIdx, wedged>>

-----------------------------------------------------------------------------
(* The abort listener of a queued request: removeQueuedGrant()             *)

\* Mutant: the rotation index moves although the client removed is the next one.
RemoveQueuedGrantAtCursor(r) ==
    LET c == ClientOf[r] IN
    \E i \in 1..Len(localQueueByClient[c]) :
        /\ localQueueByClient[c][i] = r
        /\ \/ /\ Len(localQueueByClient[c]) > 1
              /\ localQueueByClient' = WithQueue(c, RemoveAt(localQueueByClient[c], i))
              /\ UNCHANGED <<clientOrder, nextClientIdx>>
           \/ /\ Len(localQueueByClient[c]) = 1
              /\ localQueueByClient' = WithoutQueue(c)
              /\ \E k \in 1..Len(clientOrder) :
                    /\ clientOrder[k] = c
                    /\ clientOrder' = RemoveAt(clientOrder, k)
                    /\ nextClientIdx' = IF nextClientIdx >= k - 1
                                        THEN nextClientIdx - 1 ELSE nextClientIdx

\* Mutant: the client stays in the rotation when its queue is gone.
RemoveQueuedGrantOnly(r) ==
    LET c == ClientOf[r]
        q == SelectSeq(localQueueByClient[c], LAMBDA x : x # r)
    IN  /\ localQueueByClient' = IF q = <<>> THEN WithoutQueue(c) ELSE WithQueue(c, q)
        /\ UNCHANGED <<clientOrder, nextClientIdx>>

\* r's grant is at position i of its client's queue and leaves it.
RemoveQueuedGrant(r) ==
    LET c == ClientOf[r] IN
    \E i \in 1..Len(localQueueByClient[c]) :
        /\ localQueueByClient[c][i] = r
        /\ \/ /\ Len(localQueueByClient[c]) > 1
              /\ localQueueByClient' = WithQueue(c, RemoveAt(localQueueByClient[c], i))
              /\ UNCHANGED <<clientOrder, nextClientIdx>>
           \/ /\ Len(localQueueByClient[c]) = 1
              /\ localQueueByClient' = WithoutQueue(c)
              /\ \E k \in 1..Len(clientOrder) :
                    /\ clientOrder[k] = c
                    /\ clientOrder' = RemoveAt(clientOrder, k)
                    /\ nextClientIdx' = IF nextClientIdx > k - 1
                                        THEN nextClientIdx - 1 ELSE nextClientIdx

\* Mutant: the abort listener rejects the request and leaves the grant behind.
AbortKeepsGrant(r) ==
    /\ phase[r] = "queued"
    /\ Enter(r, "done")
    /\ UNCHANGED <<localActive, queueVars, wedged>>

AbortQueued(r) ==
    /\ phase[r] = "queued"
    /\ RemoveQueuedGrant(r)
    /\ Enter(r, "done")
    /\ UNCHANGED <<localActive, wedged>>

-----------------------------------------------------------------------------
(* releaseLocal() and dispatch(), in the finally block of schedule()       *)

\* Position (one-based) that the rotation looks at after i others.
Turn(i) == (((nextClientIdx % Len(clientOrder)) + i) % Len(clientOrder)) + 1

HasWork(k) ==
    /\ clientOrder[k] \in DOMAIN localQueueByClient
    /\ localQueueByClient[clientOrder[k]] # <<>>

\* k is the first position of the rotation with a queued grant.
IsNextPosition(k) ==
    \E i \in 0..(Len(clientOrder) - 1) :
        /\ k = Turn(i)
        /\ HasWork(k)
        /\ \A j \in 0..(i - 1) : ~HasWork(Turn(j))

\* The grant at the head of position k's queue takes the slot r gave up.
Grant(r, k) ==
    LET c == clientOrder[k]
        q == localQueueByClient[c]
    IN  /\ \/ /\ Len(q) = 1
              /\ localQueueByClient' = WithoutQueue(c)
              /\ clientOrder' = RemoveAt(clientOrder, k)
              /\ nextClientIdx' = k - 1
           \/ /\ Len(q) > 1
              /\ localQueueByClient' = WithQueue(c, Tail(q))
              /\ nextClientIdx' = k
              /\ UNCHANGED clientOrder
        /\ phase' = [phase EXCEPT ![r] = "done", ![Head(q)] = "active"]

\* Mutant: a grant does not take the slot again.
ReleaseWithoutRetake(r) ==
    \/ /\ \E k \in 1..Len(clientOrder) : IsNextPosition(k) /\ Grant(r, k)
       /\ localActive' = localActive - 1
    \/ /\ \A k \in 1..Len(clientOrder) : ~HasWork(k)
       /\ localActive' = localActive - 1
       /\ Enter(r, "done")
       /\ UNCHANGED queueVars

\* Mutant: the slot is given up without a look at the queues.
ReleaseWithoutDispatch(r) ==
    /\ localActive' = localActive - 1
    /\ Enter(r, "done")
    /\ UNCHANGED queueVars

\* localActive-- and, when the decremented count is below Slots, dispatch().
ReleaseLocal(r) ==
    \/ /\ localActive - 1 < Slots
       /\ \E k \in 1..Len(clientOrder) : IsNextPosition(k) /\ Grant(r, k)
       /\ UNCHANGED localActive
    \/ /\ \/ localActive - 1 >= Slots
          \/ \A k \in 1..Len(clientOrder) : ~HasWork(k)
       /\ localActive' = localActive - 1
       /\ Enter(r, "done")
       /\ UNCHANGED queueVars

\* The stream ends, fails, or is aborted by the turn's signal.
Complete(r) ==
    /\ phase[r] = "active"
    /\ r \notin wedged
    /\ ReleaseLocal(r)
    /\ UNCHANGED wedged

\* The upstream stalls: no delta re-arms the watchdog any more.
Wedge(r) ==
    /\ phase[r] = "active"
    /\ r \notin wedged
    /\ wedged' = wedged \cup {r}
    /\ UNCHANGED <<localActive, queueVars, phase>>

\* The stall watchdog, or the user's abort, ends a wedged stream.
Watchdog(r) ==
    /\ phase[r] = "active"
    /\ r \in wedged
    /\ wedged' = wedged \ {r}
    /\ ReleaseLocal(r)

\* The client asks again (its next turn, or the next hop of the same one).
AskAgain(r) ==
    /\ r \in Reissued
    /\ phase[r] = "done"
    /\ Enter(r, "idle")
    /\ UNCHANGED <<localActive, queueVars, wedged>>

Step(r) ==
    \/ Refuse(r) \/ RejectAborted(r) \/ TakeSlot(r) \/ Enqueue(r)
    \/ AbortQueued(r)
    \/ Complete(r) \/ Wedge(r) \/ Watchdog(r)
    \/ AskAgain(r)

Next == \E r \in Requests : Step(r)

Spec == Init /\ [][Next]_vars

\* A stream that is not wedged ends, and the watchdog timer of one that is
\* fires.  Nobody has to ask, to abort or to wedge.
Fairness == \A r \in Requests : WF_vars(Complete(r)) /\ WF_vars(Watchdog(r))

FairSpec == Spec /\ Fairness

-----------------------------------------------------------------------------
(* Properties                                                              *)

TypeOK ==
    /\ localActive \in Int
    /\ DOMAIN localQueueByClient \subseteq Clients
    /\ \A c \in DOMAIN localQueueByClient : localQueueByClient[c] \in Seq(Requests)
    /\ clientOrder \in Seq(Clients)
    /\ nextClientIdx \in Nat
    /\ phase \in [Requests -> Phase]
    /\ wedged \subseteq In("active")

\* localActive counts the requests that hold a slot, which are never more than
\* the server was started for: a slot neither leaks nor is released twice,
\* however grants, aborts and watchdogs interleave (localActive++ / --).
SlotsAccounted ==
    /\ localActive = Cardinality(In("active"))
    /\ localActive <= Slots

\* Nobody queues beside a free slot: there is no lost wakeup in releaseLocal.
NoIdleSlot == In("queued") # {} => localActive = Slots

\* The Map and the rotation agree: its keys are the clients of clientOrder,
\* each once and with a non-empty queue (removeQueuedGrant must mirror
\* dispatch's bookkeeping, llm-scheduler.ts:205-206).
RotationConsistent ==
    /\ ToSet(clientOrder) = DOMAIN localQueueByClient
    /\ IsInjective(clientOrder)
    /\ \A c \in DOMAIN localQueueByClient : localQueueByClient[c] # <<>>

\* A grant is in the queue of its client exactly while its request waits, and
\* once: no queued request is forgotten, no aborted one keeps a grant.
GrantsFaithful ==
    /\ \A c \in DOMAIN localQueueByClient :
          /\ IsInjective(localQueueByClient[c])
          /\ ToSet(localQueueByClient[c]) = {r \in In("queued") : ClientOf[r] = c}
    /\ \A r \in In("queued") : ClientOf[r] \in DOMAIN localQueueByClient

\* A request that ended (aborted in the queue, refused) is not given a slot.
EndedStaysEnded ==
    [][\A r \in Requests : phase[r] = "done" => phase'[r] # "active"]_vars

\* Every queued request is granted or aborted in the end.
QueuedIsServed == \A r \in Requests : phase[r] = "queued" ~> phase[r] # "queued"

\* The queues and the rotation implement the slot pool.
Pool == INSTANCE SlotPool WITH waiting <- In("queued"), running <- In("active")
ImplementsPool == Pool!Spec
=============================================================================
