--------------------------- MODULE MCCycloneNodes ---------------------------
(* One or two masters and slaves.  As in the code all of them call the root
   bus by the same bus id. *)
EXTENDS CycloneNodes, TLC

CONSTANTS m1, m2, s1, s2, am1, am2, as1, as2, root

MCAidOf  == [c \in Client |-> CASE c = m1 -> am1 [] c = m2 -> am2
                                [] c = s1 -> as1 [] c = s2 -> as2]
MCIdOf   == [c \in Client |-> root]
MCTarget == [m \in Master |-> as1]

(* The first master calls s1, the second one whoever listens. *)
MCTargetAny == [m \in Master |-> IF m = m1 THEN as1 ELSE AnyAid]
=============================================================================
