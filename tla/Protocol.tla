------------------------------ MODULE Protocol ------------------------------
(***************************************************************************)
(* The pure protocol layer of A2A-Cyclone: the bus states of enums.py, the *)
(* connection graph of state_machine.py, the access rules of               *)
(* permissions.py and the invariants of invariants.py.  Nothing here has a *)
(* state of its own; the runtime modules EXTEND it and call its operators  *)
(* before they write a frame to the bus file.                              *)
(*                                                                         *)
(* A frame is the JSON object the bus file holds.  Its "content" and       *)
(* "Lease_Extension" keys and the two force_reset_* texts are left out:    *)
(* the code only prints them.                                              *)
(***************************************************************************)
EXTENDS Naturals

CONSTANTS
    Agent,          \* the Agent ids (AIDs) in use
    Controller,     \* those whose id starts with "root-" or "master-"
    NoAid,          \* the empty AID ""
    AnyAid,         \* "*", the target that addresses every slave
    BusId,          \* the bus ids
    RootId,         \* those that start with "root"
    NoBus           \* Parent_Bus = None

ASSUME ProtocolAssumption ==
    /\ Controller \subseteq Agent
    /\ NoAid \notin Agent /\ AnyAid \notin Agent /\ AnyAid # NoAid
    /\ RootId \subseteq BusId
    /\ NoBus \notin BusId

-----------------------------------------------------------------------------
(* BusState *)
UNINITIALIZED   == "000"
PROBE           == "001"
HANDSHAKE_ACK   == "002"
SLAVE_PASSIVE   == "101"
ACTIVE_CONTROL  == "102"
LEASE_HEARTBEAT == "202"
RELEASE_SUCCESS == "100"
RELEASE_FAILED  == "103"

Status == {UNINITIALIZED, PROBE, HANDSHAKE_ACK, SLAVE_PASSIVE, ACTIVE_CONTROL,
           LEASE_HEARTBEAT, RELEASE_SUCCESS, RELEASE_FAILED}

(* The connection graph: the pairs <<current, next>> validate_transition
   accepts. *)
ValidTransitions ==
    {<<UNINITIALIZED, PROBE>>,
     <<PROBE, HANDSHAKE_ACK>>,
     <<HANDSHAKE_ACK, SLAVE_PASSIVE>>,
     <<SLAVE_PASSIVE, ACTIVE_CONTROL>>}
    \cup ({ACTIVE_CONTROL} \X {LEASE_HEARTBEAT, RELEASE_SUCCESS, RELEASE_FAILED})
    \cup ({LEASE_HEARTBEAT} \X {LEASE_HEARTBEAT, RELEASE_SUCCESS, RELEASE_FAILED})
    \cup ({PROBE, HANDSHAKE_ACK, SLAVE_PASSIVE, ACTIVE_CONTROL,
           RELEASE_SUCCESS, RELEASE_FAILED} \X {UNINITIALIZED})

ValidateTransition(current, next) == <<current, next>> \in ValidTransitions

ActiveStates == {SLAVE_PASSIVE, ACTIVE_CONTROL, LEASE_HEARTBEAT}

-----------------------------------------------------------------------------
(* The requests the nodes put on a bus. *)
NoRequest == ""
Connect   == "Connect/ctrl/"
Task      == "Task/exec/"
Request   == {NoRequest, Connect, Task}

Frame == [status       : Status,
          bus_id       : BusId,
          Aid          : Agent \cup {NoAid},
          Target_Aid   : Agent \cup {NoAid, AnyAid},
          Request      : Request,
          Token_Holder : Agent \cup {NoAid},
          Vector_Clock : Nat,
          Parent_Bus   : BusId \cup {NoBus},
          Child_Buses  : SUBSET BusId,
          force_reset  : BOOLEAN]

-----------------------------------------------------------------------------
(* can_transition: heartbeats and releases belong to the holder of the token,
   a probe to a controller. *)
CanTransition(actor, frame, next) ==
    /\ next \in {LEASE_HEARTBEAT, RELEASE_SUCCESS, RELEASE_FAILED}
          => actor = frame.Token_Holder
    /\ next = PROBE => actor \in Controller

(* assert_invariants: an active bus names the holder of its token, and a bus
   without a parent may have children only if it is a root. *)
HolderPresent(frame) ==
    frame.status \in ActiveStates => frame.Token_Holder # NoAid

NotOrphanParent(frame) ==
    frame.Child_Buses # {} /\ frame.Parent_Bus = NoBus => frame.bus_id \in RootId

AssertTopologyOnly(frame) == NotOrphanParent(frame)     \* mutant
AssertHolderOnly(frame) == HolderPresent(frame)         \* mutant
AssertInvariants(frame) == HolderPresent(frame) /\ NotOrphanParent(frame)

AllowSameClock(frame, proposed) == proposed >= frame.Vector_Clock   \* mutant
AssertVectorClockMonotonicity(frame, proposed) == proposed > frame.Vector_Clock
=============================================================================
