----------------------------- MODULE MCLlmIdle -----------------------------
(* LlmIdle with few calls and faults, and a session of turns.              *)
EXTENDS LlmIdle
=============================================================================
