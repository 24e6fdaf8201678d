--------------------------- MODULE BusRefinement ----------------------------
(* The bus managers implement the register, whichever of them share a bus id.
   A frame is prepared from the read of the bus file until its rename, and waits
   to be reported from then until it is in the ledger; clients of one bus id meet
   when one opens the temporary file between another one's open and rename. *)
EXTENDS BusManager

PendingIn(steps) ==
    [c \in Client |-> IF pc[c] \in steps THEN pend[c].new ELSE Absent]

Register == INSTANCE BusRegister WITH
    Name      <- IdOf,
    Nothing   <- Absent,
    Torn      <- {Empty, Corrupt},
    value     <- busData,
    prepared  <- PendingIn({"open", "flush", "replace"}),
    met       <- {c \in Client : pc[c] \in {"flush", "replace"} /\ "temp" \notin fresh[c]},
    installed <- PendingIn({"log"}),
    audit     <- IF ledger = NoEntry THEN Absent
                 ELSE [status |-> ledger.new_status, clock |-> ledger.vector_clock]

(* Seen through this mapping every step of the managers is a step of the
   register: a write takes effect at its rename or not at all, and nothing is in
   the ledger that was not on the bus, unless clients of one bus id have met. *)
ImplementsRegister == Register!Spec
=============================================================================
