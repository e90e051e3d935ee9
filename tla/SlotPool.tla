------------------------------ MODULE SlotPool ------------------------------
(***************************************************************************)
(* What the scheduler in front of the local llama-server promises, without *)
(* its queues and its rotation: a request is refused or admitted, an       *)
(* admitted one waits or holds one of Slots slots, and whoever gives a     *)
(* slot up hands it to a waiting request in the same step when there is    *)
(* one.                                                                    *)
(***************************************************************************)
EXTENDS Naturals, FiniteSets

CONSTANTS Requests,   \* the completions asked of the local server
          Slots       \* its concurrent completions

VARIABLES waiting,    \* requests whose turn has not come
          running     \* requests that hold a slot

vars == <<waiting, running>>

Init == waiting = {} /\ running = {}

\* A request that neither waits nor runs gets a free slot, ...
Start(r) ==
    /\ r \notin waiting \cup running
    /\ waiting = {}
    /\ Cardinality(running) < Slots
    /\ running' = running \cup {r}
    /\ UNCHANGED waiting

\* ... or waits, only when every slot is taken.
Wait(r) ==
    /\ r \notin waiting \cup running
    /\ Cardinality(running) = Slots
    /\ waiting' = waiting \cup {r}
    /\ UNCHANGED running

\* A waiting request gives up: no slot moves.
GiveUp(r) ==
    /\ r \in waiting
    /\ waiting' = waiting \ {r}
    /\ UNCHANGED running

\* The slot of r goes to some waiting request s, and to nobody only when
\* nobody waits.
Leave(r) ==
    /\ r \in running
    /\ \/ /\ waiting = {}
          /\ running' = running \ {r}
          /\ UNCHANGED waiting
       \/ \E s \in waiting :
             /\ running' = (running \ {r}) \cup {s}
             /\ waiting' = waiting \ {s}

Next == \E r \in Requests : Start(r) \/ Wait(r) \/ GiveUp(r) \/ Leave(r)

Spec == Init /\ [][Next]_vars
=============================================================================
