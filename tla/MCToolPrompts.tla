---------------------------- MODULE MCToolPrompts ----------------------------
(* ToolPrompts for TLC: a prompt of each kind, three of which one call puts.     *)
EXTENDS ToolPrompts, TLC
=============================================================================
