----------------------------- MODULE MCChatTurn -----------------------------
(* ChatTurn on turns of a few messages.                                    *)
EXTENDS ChatTurn
=============================================================================
