------------------------ MODULE MCClaudeCodeAdapter ------------------------
(* Two or three callers, one or two cancellers. *)
EXTENDS ClaudeCodeAdapter, TLC

CONSTANTS c1, c2, c3, x1, x2
=============================================================================
