----------------------------- MODULE MCUpdater -----------------------------
(* The self-update for model checking: two requests, three versions.        *)
EXTENDS Updater
=============================================================================
