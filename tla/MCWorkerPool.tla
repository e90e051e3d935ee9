---------------------------- MODULE MCWorkerPool ----------------------------
(* WorkerPool on a few calls of two tools.                                 *)
EXTENDS WorkerPool, TLC

CONSTANTS c1, c2, c3, ask, fetch

\* Two calls share a worker, the third needs another.
TwoAndOne == (c1 :> ask) @@ (c2 :> ask) @@ (c3 :> fetch)
=============================================================================
