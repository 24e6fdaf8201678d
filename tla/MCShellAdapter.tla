--------------------------- MODULE MCShellAdapter ---------------------------
(* One or two callers, one canceller. *)
EXTENDS ShellAdapter, TLC

CONSTANTS c1, c2, x1
=============================================================================
