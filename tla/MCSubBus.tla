------------------------------ MODULE MCSubBus ------------------------------
(* A master and a slave, both with the sub-bus. *)
EXTENDS SubBus, TLC

CONSTANTS m1, s1, am1, as1

MCAidOf  == m1 :> am1 @@ s1 :> as1
MCIdOf   == [n \in Client |-> Root]
MCTarget == [m \in Master |-> as1]
=============================================================================
