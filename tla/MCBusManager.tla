---------------------------- MODULE MCBusManager ----------------------------
(* Two clients, a master and a slave, of one bus, whose managers share a bus id,
   as those of the programs do. *)
EXTENDS BusRefinement, TLC

CONSTANTS c1, c2, m, s, b1, b2

MCAidOf == (c1 :> m) @@ (c2 :> s)

MCIdShared == (c1 :> b1) @@ (c2 :> b1)

MCNoUpdate == [Aid |-> Keep, Target_Aid |-> Keep, Request |-> Keep,
               Token_Holder |-> Keep, Vector_Clock |-> Keep]

MCTakeToken == [MCNoUpdate EXCEPT !.Token_Holder = m]

(* No holder, and a clock that is set back. *)
MCSetBack == [MCNoUpdate EXCEPT !.Token_Holder = NoAid, !.Vector_Clock = 0]

MCPayload == {MCNoUpdate, MCTakeToken, MCSetBack}

(* A bus with a child and no parent, which only a root bus may be.  One without
   relatives is what a transition makes of a missing file. *)
MCOrphan == {[parent |-> NoBus, children |-> {b2}]}
=============================================================================
