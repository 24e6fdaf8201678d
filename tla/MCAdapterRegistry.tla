------------------------- MODULE MCAdapterRegistry -------------------------
(* One caller, two registrars, a canceller, three ids for the one adapter. *)
EXTENDS AdapterRegistry, TLC

CONSTANTS c1, x1, x2, x3, b1, b2, b3
=============================================================================
