---------------------------- MODULE MCChatResume ----------------------------
(* ChatResume on one short turn.                                           *)
EXTENDS ChatResume
=============================================================================
