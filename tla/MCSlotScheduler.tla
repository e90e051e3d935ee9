-------------------------- MODULE MCSlotScheduler --------------------------
(* SlotScheduler on a few requests of two or three clients.                *)
EXTENDS SlotScheduler

CONSTANTS alice, bob, carol, a1, a2, a3, b1, b2, c1, c2

\* Three clients, so that the rotation has a middle; with two slots and a queue
\* of four the seventh request is refused.
SevenOf == (a1 :> alice) @@ (a2 :> alice) @@ (a3 :> alice) @@ (b1 :> bob) @@ (b2 :> bob)
         @@ (c1 :> carol) @@ (c2 :> carol)

\* Two clients, each with two overlapping requests.
PairsOf == (a1 :> alice) @@ (a2 :> alice) @@ (b1 :> bob) @@ (b2 :> bob)
=============================================================================
