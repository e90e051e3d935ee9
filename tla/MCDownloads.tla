---------------------------- MODULE MCDownloads ----------------------------
(* The download manager for model checking.                                 *)
EXTENDS Downloads
=============================================================================
