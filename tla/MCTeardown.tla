----------------------------- MODULE MCTeardown -----------------------------
(* A parent bus and two sub-buses: one is managed by the agent that holds the
   parent's token, the other by the supervisor itself. *)
EXTENDS Teardown, TLC

CONSTANTS am, a1, root, b1, b2

MCTokenHolder == root :> a1 @@ b1 :> a1 @@ b2 :> am
=============================================================================
