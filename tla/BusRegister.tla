---------------------------- MODULE BusRegister -----------------------------
(***************************************************************************)
(* What a bus promises those who share it, without files: one register.  A *)
(* client prepares a frame that is a legal successor of what the register  *)
(* holds, installs it in one step, however much later, and then may report *)
(* it to the audit trail.  The register says nothing of the order in which *)
(* prepared frames are installed: a slow client may overwrite a newer      *)
(* frame.                                                                  *)
(*                                                                         *)
(* Clients that go by the same name may meet while both of them have a     *)
(* frame prepared.  From then on nothing is promised of those frames but   *)
(* that each client ends its call: any frame that names its holder, or     *)
(* none, may be in the register when they are done.                        *)
(***************************************************************************)
EXTENDS Protocol

CONSTANTS
    Client,
    Name,       \* Name[c]: the name c goes by
    Nothing,    \* no frame
    Torn        \* what else the register may hold after clients have met

VARIABLES
    value,      \* the frame in the register, Nothing, or something torn
    prepared,   \* prepared[c]: the frame c is about to install, or Nothing
    met,        \* the clients that met another one since they prepared
    installed,  \* installed[c]: the frame c installed and has yet to report
    audit       \* status and clock of the last reported frame, or Nothing

Init ==
    /\ value = Nothing
    /\ prepared = [c \in Client |-> Nothing]
    /\ met = {}
    /\ installed = [c \in Client |-> Nothing]
    /\ audit = Nothing

(* A frame for a register without one is an unused bus or the first probe. *)
Successor(old, new) ==
    IF old \in Torn \cup {Nothing}
    THEN \/ new.status = UNINITIALIZED /\ new.Vector_Clock = 0
         \/ new.status = PROBE
    ELSE /\ ValidateTransition(old.status, new.status)
         /\ new.Vector_Clock > old.Vector_Clock
         /\ HolderPresent(new)

Prepare(c) ==
    /\ prepared[c] = Nothing /\ installed[c] = Nothing
    /\ prepared'[c] \in Frame
    /\ Successor(value, prepared'[c])
    /\ prepared' = [prepared EXCEPT ![c] = prepared'[c]]
    /\ UNCHANGED <<value, met, installed, audit>>

(* c meets others of its name. *)
Meet(c) ==
    /\ \E others \in SUBSET {d \in Client \ {c} : Name[d] = Name[c]} :
          /\ others # {}
          /\ \A d \in others \cup {c} : prepared[d] # Nothing
          /\ met' = met \cup others \cup {c}
    /\ UNCHANGED <<value, prepared, installed, audit>>

(* The call of c is over as far as the register is concerned. *)
Done(c) ==
    /\ prepared' = [prepared EXCEPT ![c] = Nothing]
    /\ met' = met \ {c}

Install(c) ==
    /\ prepared[c] # Nothing
    /\ c \notin met => value' = prepared[c]
    /\ c \in met => value' \in Torn \cup {frame \in Frame : HolderPresent(frame)}
    /\ Done(c)
    /\ \/ installed' = [installed EXCEPT ![c] = prepared[c]]
       \/ UNCHANGED installed
    /\ UNCHANGED audit

(* A client that met others writes into what they have installed. *)
Scribble(c) ==
    /\ c \in met
    /\ value' \in Torn \cup {prepared[c]}
    /\ UNCHANGED <<prepared, met, installed, audit>>

(* What c was about to install is lost to those it met. *)
Lose(c) ==
    /\ c \in met
    /\ Done(c)
    /\ UNCHANGED <<value, installed, audit>>

Report(c) ==
    /\ installed[c] # Nothing
    /\ audit' = [status |-> installed[c].status, clock |-> installed[c].Vector_Clock]
    /\ installed' = [installed EXCEPT ![c] = Nothing]
    /\ UNCHANGED <<value, prepared, met>>

(* A crash before the frame is installed, or before it is reported. *)
Abandon(c) ==
    /\ Done(c)
    /\ installed' = [installed EXCEPT ![c] = Nothing]
    /\ UNCHANGED <<value, audit>>

Remove ==
    /\ value' = Nothing
    /\ UNCHANGED <<prepared, met, installed, audit>>

Next ==
    \/ Remove
    \/ \E c \in Client : \/ Prepare(c) \/ Meet(c) \/ Install(c) \/ Scribble(c)
                          \/ Lose(c) \/ Report(c) \/ Abandon(c)

Spec == Init /\ [][Next]_<<value, prepared, met, installed, audit>>
=============================================================================
