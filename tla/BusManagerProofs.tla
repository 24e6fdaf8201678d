-------------------------- MODULE BusManagerProofs --------------------------
(***************************************************************************)
(* Theorems about the bus managers, for any number of clients, bus ids,    *)
(* agents and payloads, and any assignment of bus ids to clients.          *)
(*                                                                         *)
(*   1. the frames the calls build are frames                 (type)       *)
(*   2. TypeOK is inductive                                                *)
(*   3. relative to it, "every frame on its way to the bus was checked" is *)
(*      inductive and gives TokenConservation and OrphanStaysIdle          *)
(*   4. "the temporary file of a client that met no other one is its own   *)
(*      from open to rename" is inductive and gives LoneWriteAtomic        *)
(*   5. relative to both, "what a fresh writer is about to install is a    *)
(*      legal successor of the bus" gives IsolatedWriteLegal               *)
(*   6. "an empty file has a writer" is inductive and gives                *)
(*      EmptyIsTransient                                                   *)
(***************************************************************************)
EXTENDS BusManager, TLAPS

USE DEF Content, Write, Entry

-----------------------------------------------------------------------------
(* The frames calls build. *)

LEMMA InitialFrameType ==
    ASSUME NEW id \in BusId
    PROVE  InitialFrame(id) \in Frame
  BY DEF InitialFrame, Frame, Status, UNINITIALIZED, Request, NoRequest

(* A key of a payload keeps the type of the frame's field. *)
LEMMA GivenType ==
    ASSUME NEW S, NEW value \in S \cup {Keep}, NEW old \in S
    PROVE  Given(value, old) \in S
  BY DEF Given

LEMMA NextFrameType ==
    ASSUME NEW frame \in Frame, NEW next \in Status
    PROVE  NextFrame(frame, next) \in Frame
  <1>1. frame.Vector_Clock + 1 \in Nat
    BY DEF Frame
  <1> QED
    BY <1>1 DEF NextFrame, Frame

LEMMA ForcedFrameType ==
    ASSUME NEW frame \in Frame, NEW next \in Status
    PROVE  ForcedFrame(frame, next) \in Frame
  BY NextFrameType DEF ForcedFrame, Frame

LEMMA WithPayloadType ==
    ASSUME NEW frame \in Frame, NEW p \in Updates
    PROVE  WithPayload(frame, p) \in Frame
  <1>1. /\ Given(p.Aid, frame.Aid) \in Agent \cup {NoAid}
        /\ Given(p.Target_Aid, frame.Target_Aid) \in Agent \cup {NoAid, AnyAid}
        /\ Given(p.Request, frame.Request) \in Request
        /\ Given(p.Token_Holder, frame.Token_Holder) \in Agent \cup {NoAid}
        /\ Given(p.Vector_Clock, frame.Vector_Clock) \in Nat
    BY GivenType DEF Updates, Frame
  <1> QED
    BY <1>1 DEF WithPayload, Frame

LEMMA CurrentFrameType ==
    ASSUME NEW c \in Client, busData \in Content
    PROVE  CurrentFrame(c) \in Frame
  BY InitialFrameType, BusManagerAssumption DEF CurrentFrame, Readable

(* A file that can be read holds a frame and conversely. *)
LEMMA ReadableFrame ==
    ASSUME busData \in Content
    PROVE  Readable <=> busData \in Frame
  BY BusManagerAssumption DEF Readable

-----------------------------------------------------------------------------
(* Every call of Next begins with a well-typed frame. *)
LEMMA BeginWriteType ==
    ASSUME TypeOK, NEW c \in Client, NEW from \in Status, NEW new \in Frame,
           BeginWrite(c, from, new, Auditor(c)) \/ BeginWrite(c, from, new, NoAid)
    PROVE  TypeOK'
  <1>1. PICK by \in Agent \cup {NoAid} : BeginWrite(c, from, new, by)
    BY BusManagerAssumption DEF Auditor
  <1>2. [from |-> from, new |-> new, by |-> by] \in Write
    BY <1>1
  <1>3. [from |-> from, new |-> new, by |-> by] # NoWrite
    BY <1>2, BusManagerAssumption
  <1> QED
    BY <1>1, <1>2, <1>3 DEF TypeOK, BeginWrite

(* What is appended to the ledger is an entry. *)
LEMMA EntryType ==
    ASSUME TypeOK, NEW c \in Client, AppendLedger(c)
    PROVE  ledger' \in Entry
  <1>1. pend[c] \in Write /\ pend[c].by \in Agent
    BY DEF TypeOK, AppendLedger
  <1> QED
    BY <1>1 DEF AppendLedger, Frame

(* The calls, for payloads and topologies callers may pass. *)
LEMMA TransitionType ==
    ASSUME TypeOK, NEW c \in Client, NEW next \in Status, NEW p \in Updates,
           Transition(c, next, p)
    PROVE  TypeOK'
  <1> DEFINE old == CurrentFrame(c)
             new == WithPayload(NextFrame(old, next), p)
  <1>1. old \in Frame
    BY CurrentFrameType DEF TypeOK
  <1>2. new \in Frame
    BY <1>1, NextFrameType, WithPayloadType
  <1>3. BeginWrite(c, old.status, new, Auditor(c))
    BY DEF Transition
  <1>4. old.status \in Status
    BY <1>1 DEF Frame
  <1> HIDE DEF old, new
  <1> QED
    BY <1>2, <1>3, <1>4, BeginWriteType

LEMMA ForceType ==
    ASSUME TypeOK, NEW c \in Client, NEW next \in Status, ForceTransition(c, next)
    PROVE  TypeOK'
  <1> DEFINE old == CurrentFrame(c)
             new == ForcedFrame(old, next)
  <1>1. old \in Frame
    BY CurrentFrameType DEF TypeOK
  <1>2. new \in Frame
    BY <1>1, ForcedFrameType
  <1>3. BeginWrite(c, old.status, new, Auditor(c))
    BY DEF ForceTransition
  <1>4. old.status \in Status
    BY <1>1 DEF Frame
  <1> HIDE DEF old, new
  <1> QED
    BY <1>2, <1>3, <1>4, BeginWriteType

LEMMA InitializeType ==
    ASSUME TypeOK, NEW c \in Client,
           NEW topology \in [parent : BusId \cup {NoBus}, children : SUBSET BusId],
           InitializeBus(c, topology)
    PROVE  TypeOK'
  <1> DEFINE new == [InitialFrame(IdOf[c]) EXCEPT
                        !.Aid = AidOf[c],
                        !.Parent_Bus = topology.parent,
                        !.Child_Buses = topology.children]
  <1>1. InitialFrame(IdOf[c]) \in Frame
    BY InitialFrameType, BusManagerAssumption
  <1>2. AidOf[c] \in Agent
    BY BusManagerAssumption
  <1>3. new \in Frame
    BY <1>1, <1>2 DEF Frame
  <1>4. BeginWrite(c, UNINITIALIZED, new, NoAid)
    BY DEF InitializeBus
  <1>5. UNINITIALIZED \in Status
    BY DEF Status
  <1> HIDE DEF new
  <1> QED
    BY <1>3, <1>4, <1>5, BeginWriteType

(* The steps of a write, and the death of a writer. *)
LEMMA FileStepType ==
    ASSUME TypeOK, NEW c \in Client, Continue(c) \/ Crash(c)
    PROVE  TypeOK'
  <1>1. CASE Open(c)
    BY <1>1 DEF TypeOK, Open
  <1>2. CASE Flush(c)
    <2>1. pend[c].new \in Frame
      BY <1>2 DEF TypeOK, Flush
    <2>2. \A x : Overwritten(x, pend[c].new) \subseteq Content
      BY <2>1 DEF Overwritten
    <2>3. busData' \in Content /\ tempData' \in [BusId -> Content]
      BY <1>2, <2>2 DEF TypeOK, Flush
    <2>4. fresh' \in [Client -> SUBSET {"bus", "temp"}]
      BY <1>2 DEF TypeOK, Flush, Stale
    <2> QED
      BY <1>2, <2>3, <2>4 DEF TypeOK, Flush
  <1>3. CASE Replace(c)
    <2>1. IdOf[c] \in BusId
      BY BusManagerAssumption
    <2>2. busData' \in Content /\ tempData' \in [BusId -> Content]
      BY <1>3, <2>1 DEF TypeOK, Replace
    <2>3. fd' \in [Client -> {"none", "temp", "bus", "orphan"}]
      BY <1>3 DEF TypeOK, Replace, Renamed, Unlinked
    <2> QED
      BY <1>3, <2>2, <2>3 DEF TypeOK, Replace, Return, Stale
  <1>4. CASE ReplaceFails(c)
    BY <1>4 DEF TypeOK, ReplaceFails, Return
  <1>5. CASE AppendLedger(c)
    BY <1>5, EntryType DEF TypeOK, AppendLedger, Return
  <1>6. CASE Crash(c)
    BY <1>6, BusManagerAssumption DEF TypeOK, Crash, Return
  <1> QED
    BY <1>1, <1>2, <1>3, <1>4, <1>5, <1>6 DEF Continue

LEMMA TypeStep == TypeOK /\ [Next]_vars => TypeOK'
  <1> SUFFICES ASSUME TypeOK, [Next]_vars PROVE TypeOK'
    OBVIOUS
  <1>1. ASSUME NEW c \in Client, Call(c)
        PROVE  TypeOK'
    <2>1. DestroyBus(c) => TypeOK'
      BY DEF TypeOK, DestroyBus, Unlinked, Stale
    <2>2. /\ Payload \subseteq Updates
          /\ Topology \subseteq [parent : BusId \cup {NoBus}, children : SUBSET BusId]
      BY BusManagerAssumption
    <2> QED
      BY <1>1, <2>1, <2>2, TransitionType, ForceType, InitializeType DEF Call
  <1>2. CASE UNCHANGED vars
    BY <1>2 DEF TypeOK, vars
  <1> QED
    BY <1>1, <1>2, FileStepType DEF Next

LEMMA TypeInit == Init => TypeOK
  BY BusManagerAssumption DEF Init, TypeOK

(* The variables keep their types: the file contents are frames or one of the
   three marks, and a call in progress has a well-formed write pending. *)
THEOREM TypeCorrect == Spec => []TypeOK
  <1> QED
    BY TypeInit, TypeStep, PTL DEF Spec

-----------------------------------------------------------------------------
(* A frame on its way to the bus is in the bus file, in a temporary file or in
   the hands of a client.  Wherever the frames come from that the clients write,
   the steps of a write add no others. *)
FramesIn(S) ==
    /\ busData \in Frame => busData \in S
    /\ \A i \in BusId : tempData[i] \in Frame => tempData[i] \in S
    /\ \A c \in Client : pend[c] # NoWrite => pend[c].new \in S

LEMMA FramesBegin ==
    ASSUME TypeOK, NEW S, FramesIn(S), NEW c \in Client, NEW from, NEW new \in S, NEW by,
           BeginWrite(c, from, new, by)
    PROVE  FramesIn(S)'
  <1>1. \A d \in Client : pend'[d] # NoWrite => pend'[d].new \in S
    BY DEF TypeOK, FramesIn, BeginWrite
  <1> QED
    BY <1>1 DEF FramesIn, BeginWrite

(* A call that ends takes its frame with it. *)
LEMMA ReturnFrames ==
    ASSUME TypeOK, NEW S, FramesIn(S), NEW c \in Client, Return(c)
    PROVE  \A d \in Client : pend'[d] # NoWrite => pend'[d].new \in S
  BY DEF TypeOK, FramesIn, Return

LEMMA FileStepFrames ==
    ASSUME TypeOK, NEW S, FramesIn(S), NEW c \in Client, Continue(c) \/ Crash(c)
    PROVE  FramesIn(S)'
  <1>1. CASE Open(c)
    BY <1>1, BusManagerAssumption DEF TypeOK, FramesIn, Open
  <1>2. CASE Flush(c)
    <2>1. pend[c].new \in S
      BY <1>2 DEF TypeOK, FramesIn, Flush
    <2>2. \A x, y : y \in Overwritten(x, pend[c].new) /\ y \in Frame => y \in S
      BY <2>1, BusManagerAssumption DEF Overwritten
    <2>3. busData' \in Frame => busData' \in S
      BY <1>2, <2>2 DEF FramesIn, Flush
    <2>4. \A i \in BusId : tempData'[i] \in Frame => tempData'[i] \in S
      BY <1>2, <2>2 DEF TypeOK, FramesIn, Flush
    <2> QED
      BY <1>2, <2>3, <2>4 DEF FramesIn, Flush
  <1>3. CASE Replace(c)
    <2>1. busData' \in Frame => busData' \in S
      BY <1>3, BusManagerAssumption DEF FramesIn, Replace
    <2>2. \A i \in BusId : tempData'[i] \in Frame => tempData'[i] \in S
      BY <1>3, BusManagerAssumption DEF TypeOK, FramesIn, Replace
    <2>3. \A d \in Client : pend'[d] # NoWrite => pend'[d].new \in S
      BY <1>3, ReturnFrames DEF FramesIn, Replace
    <2> QED
      BY <2>1, <2>2, <2>3 DEF FramesIn
  <1>4. CASE ReplaceFails(c) \/ AppendLedger(c) \/ Crash(c)
    BY <1>4, ReturnFrames DEF FramesIn, ReplaceFails, AppendLedger, Crash
  <1> QED
    BY <1>1, <1>2, <1>3, <1>4 DEF Continue

(* What assert_invariants leaves true of every such frame: initialize_bus skips
   it, but its frames are in state 000. *)
Checked(frame) ==
    /\ HolderPresent(frame)
    /\ NotOrphanParent(frame) \/ frame.status = UNINITIALIZED

CheckedInv == FramesIn({frame \in Frame : Checked(frame)})

LEMMA InitializeChecked ==
    ASSUME NEW id, NEW aid, NEW parent, NEW children
    PROVE  Checked([InitialFrame(id) EXCEPT !.Aid = aid,
                                            !.Parent_Bus = parent,
                                            !.Child_Buses = children])
  BY DEF Checked, HolderPresent, InitialFrame, UNINITIALIZED, ActiveStates,
         SLAVE_PASSIVE, ACTIVE_CONTROL, LEASE_HEARTBEAT

LEMMA BeginChecked ==
    ASSUME TypeOK, TypeOK', CheckedInv, NEW c \in Client, NEW from, NEW new, NEW by,
           Checked(new), BeginWrite(c, from, new, by)
    PROVE  CheckedInv'
  <1>1. new \in Frame
    <2>1. pend'[c] # NoWrite /\ pend'[c].new = new
      BY DEF TypeOK, BeginWrite
    <2> QED
      BY <2>1 DEF TypeOK
  <1> QED
    BY <1>1, FramesBegin DEF CheckedInv

LEMMA CheckedStep == TypeOK /\ CheckedInv /\ [Next]_vars => CheckedInv'
  <1> SUFFICES ASSUME TypeOK, CheckedInv, [Next]_vars PROVE CheckedInv'
    OBVIOUS
  <1>1. TypeOK'
    BY TypeStep
  <1>2. ASSUME NEW c \in Client, NEW next \in Status, NEW p \in Payload,
               Transition(c, next, p)
        PROVE  CheckedInv'
    <2> DEFINE old == CurrentFrame(c)
               new == WithPayload(NextFrame(old, next), p)
    <2>1. Checked(new)
      BY <1>2 DEF Transition, Admissible, AssertInvariants, Checked
    <2>2. BeginWrite(c, old.status, new, Auditor(c))
      BY <1>2 DEF Transition
    <2> HIDE DEF old, new
    <2> QED
      BY <1>1, <2>1, <2>2, BeginChecked
  <1>3. ASSUME NEW c \in Client, NEW next \in Status, ForceTransition(c, next)
        PROVE  CheckedInv'
    <2> DEFINE old == CurrentFrame(c)
               new == ForcedFrame(old, next)
    <2>1. Checked(new)
      BY <1>3 DEF ForceTransition, AssertInvariants, Checked
    <2>2. BeginWrite(c, old.status, new, Auditor(c))
      BY <1>3 DEF ForceTransition
    <2> HIDE DEF old, new
    <2> QED
      BY <1>1, <2>1, <2>2, BeginChecked
  <1>4. ASSUME NEW c \in Client, NEW topology \in Topology,
               InitializeBus(c, topology)
        PROVE  CheckedInv'
    BY <1>1, <1>4, InitializeChecked, BeginChecked DEF InitializeBus
  <1>5. ASSUME NEW c \in Client, DestroyBus(c)
        PROVE  CheckedInv'
    BY <1>5, BusManagerAssumption DEF CheckedInv, FramesIn, DestroyBus
  <1>6. CASE UNCHANGED vars
    BY <1>6 DEF CheckedInv, FramesIn, vars
  <1> QED
    BY <1>2, <1>3, <1>4, <1>5, <1>6, FileStepFrames DEF Next, Call, CheckedInv

LEMMA CheckedInit == Init => CheckedInv
  BY BusManagerAssumption DEF Init, CheckedInv, FramesIn

LEMMA CheckedCorrect == Spec => []CheckedInv
  BY TypeCorrect, CheckedInit, CheckedStep, PTL DEF Spec

(* An active bus names its holder, whatever the writers do, crash and share:
   each frame in flight was checked by itself. *)
THEOREM TokenConserved == Spec => []TokenConservation
  <1>1. TypeOK /\ CheckedInv => TokenConservation
    BY ReadableFrame DEF TypeOK, CheckedInv, FramesIn, Checked, TokenConservation
  <1> QED
    BY <1>1, TypeCorrect, CheckedCorrect, PTL

(* A parentless bus that is no root and has children stays in 000. *)
THEOREM OrphansStayIdle == Spec => []OrphanStaysIdle
  <1>1. TypeOK /\ CheckedInv => OrphanStaysIdle
    BY ReadableFrame DEF TypeOK, CheckedInv, FramesIn, Checked, OrphanStaysIdle
  <1> QED
    BY <1>1, TypeCorrect, CheckedCorrect, PTL

-----------------------------------------------------------------------------
(* The temporary file of a client that met no other one is never renamed while
   that client has it open, and holds the client's frame when it is renamed. *)
LoneAt(c) ==
    /\ fd[c] # "none" => pc[c] = "flush"
    /\ "temp" \in fresh[c] =>
          /\ pc[c] \in {"open", "flush", "replace"}
          /\ pc[c] \in {"flush", "replace"} => Rivals(c) = {}
          /\ pc[c] = "flush" => fd[c] = "temp" /\ tempData[IdOf[c]] = Empty
          /\ pc[c] = "replace" => tempData[IdOf[c]] = pend[c].new

LoneInv == \A c \in Client : LoneAt(c)

(* A client that is elsewhere than the one that takes the step. *)
LEMMA LoneOther ==
    ASSUME NEW d \in Client, LoneAt(d),
           pc'[d] = pc[d], pend'[d] = pend[d], fresh'[d] \subseteq fresh[d],
           fd[d] = "none" => fd'[d] = "none",
           "temp" \in fresh'[d] /\ pc[d] \in {"flush", "replace"} =>
               /\ fd'[d] = fd[d]
               /\ tempData'[IdOf[d]] = tempData[IdOf[d]]
               /\ Rivals(d)' = {}
    PROVE  LoneAt(d)'
  BY DEF LoneAt

LEMMA LoneBegin ==
    ASSUME LoneInv, TypeOK, NEW c \in Client, NEW from, NEW new, NEW by,
           BeginWrite(c, from, new, by)
    PROVE  LoneInv'
  <1>1. /\ pc'[c] = "open" /\ fd'[c] = "none"
        /\ \A d \in Client \ {c} : pc'[d] = pc[d] /\ pend'[d] = pend[d] /\ fresh'[d] = fresh[d]
    BY DEF LoneInv, LoneAt, TypeOK, BeginWrite
  <1>2. LoneAt(c)'
    BY <1>1 DEF LoneAt
  <1>3. ASSUME NEW d \in Client \ {c}
        PROVE  LoneAt(d)'
    <2>1. Rivals(d)' \subseteq Rivals(d)
      BY <1>1 DEF Rivals
    <2>2. fd' = fd /\ tempData' = tempData
      BY DEF BeginWrite
    <2>3. "temp" \in fresh[d] /\ pc[d] \in {"flush", "replace"} => Rivals(d) = {}
      BY DEF LoneInv, LoneAt
    <2>4. LoneAt(d)
      BY DEF LoneInv
    <2> QED
      BY <1>1, <2>1, <2>2, <2>3, <2>4, LoneOther
  <1> QED
    BY <1>2, <1>3 DEF LoneInv

(* The steps of c's write that leave the other clients where they are. *)
LEMMA LoneWrite ==
    ASSUME LoneInv, TypeOK, NEW c \in Client, Open(c) \/ Flush(c) \/ Replace(c)
    PROVE  \A d \in Client \ {c} : LoneAt(d)'
  <1> SUFFICES ASSUME NEW d \in Client \ {c}
               PROVE  LoneAt(d)'
    OBVIOUS
  <1>1. /\ pc'[d] = pc[d] /\ pend'[d] = pend[d] /\ fresh'[d] \subseteq fresh[d]
    BY DEF TypeOK, Open, Flush, Replace, Return, Stale
  <1>2. fd[d] = "none" => fd'[d] = "none"
    BY DEF TypeOK, Open, Flush, Replace, Renamed, Unlinked
  <1>3. ASSUME "temp" \in fresh'[d], pc[d] \in {"flush", "replace"}
        PROVE  fd'[d] = fd[d] /\ tempData'[IdOf[d]] = tempData[IdOf[d]] /\ Rivals(d)' = {}
    <2>1. /\ LoneAt(d) /\ "temp" \in fresh[d] /\ Rivals(d) = {}
          /\ fd[d] = IF pc[d] = "flush" THEN "temp" ELSE "none"
      <3>1. LoneAt(d) /\ "temp" \in fresh[d]
        BY <1>1, <1>3 DEF LoneInv
      <3> QED
        BY <1>3, <3>1 DEF LoneAt, TypeOK
    <2>2. IdOf[d] # IdOf[c]
      <3>1. CASE Open(c)
        <4>1. ~Met(c, d)
          BY <1>3, <3>1 DEF Open
        <4> QED
          BY <1>3, <4>1 DEF Met, Rivals
      <3>2. CASE Flush(c) \/ Replace(c)
        <4>1. pc[c] \in {"flush", "replace"}
          BY <3>2 DEF Flush, Replace
        <4>2. c \notin Rivals(d)
          BY <2>1
        <4> QED
          BY <4>1, <4>2 DEF Rivals
      <3> QED
        BY <3>1, <3>2
    <2>3. fd'[d] = fd[d]
      BY <2>1, <2>2 DEF TypeOK, Open, Flush, Replace, Renamed, Unlinked
    <2>4. tempData'[IdOf[d]] = tempData[IdOf[d]]
      BY <2>2, BusManagerAssumption DEF TypeOK, Open, Flush, Replace
    <2>5. \A e \in Client \ {c} : pc'[e] = pc[e]
      BY DEF TypeOK, Open, Flush, Replace, Return
    <2>6. Rivals(d)' \subseteq Rivals(d)
      BY <2>2, <2>5 DEF Rivals
    <2> QED
      BY <2>1, <2>3, <2>4, <2>6
  <1>4. LoneAt(d)
    BY DEF LoneInv
  <1> QED
    BY <1>1, <1>2, <1>3, <1>4, LoneOther

(* The steps with which c's call ends, and removing the bus. *)
LEMMA LoneEnd ==
    ASSUME LoneInv, TypeOK, NEW c \in Client,
           ReplaceFails(c) \/ AppendLedger(c) \/ Crash(c) \/ DestroyBus(c)
    PROVE  LoneInv'
  <1>1. fd'[c] = "none" /\ "temp" \notin fresh'[c]
    <2>1. CASE Crash(c)
      BY <2>1 DEF TypeOK, Crash
    <2>2. CASE ReplaceFails(c)
      BY <2>2 DEF LoneInv, LoneAt, TypeOK, ReplaceFails
    <2>3. CASE AppendLedger(c) \/ DestroyBus(c)
      BY <2>3 DEF LoneInv, LoneAt, TypeOK, AppendLedger, DestroyBus, Unlinked, Stale
    <2> QED
      BY <2>1, <2>2, <2>3
  <1>2. pc'[c] = "idle" /\ tempData' = tempData
    BY DEF TypeOK, ReplaceFails, AppendLedger, Crash, DestroyBus, Return
  <1>3. ASSUME NEW d \in Client \ {c}
        PROVE  LoneAt(d)'
    <2>1. pc'[d] = pc[d] /\ pend'[d] = pend[d] /\ fresh'[d] \subseteq fresh[d]
      BY DEF TypeOK, ReplaceFails, AppendLedger, Crash, DestroyBus, Return, Stale
    <2>2. fd'[d] = Unlinked(fd[d]) \/ fd'[d] = fd[d]
      BY DEF TypeOK, ReplaceFails, AppendLedger, Crash, DestroyBus
    <2>3. Rivals(d)' \subseteq Rivals(d)
      <3>1. \A e \in Client \ {c} : pc'[e] = pc[e]
        BY DEF TypeOK, ReplaceFails, AppendLedger, Crash, DestroyBus, Return
      <3> QED
        BY <1>2, <3>1 DEF Rivals
    <2>4. LoneAt(d)
      BY DEF LoneInv
    <2>5. "temp" \in fresh'[d] /\ pc[d] \in {"flush", "replace"} =>
              Rivals(d) = {} /\ fd[d] \in {"none", "temp"}
      BY <2>1, <2>4 DEF LoneAt, TypeOK
    <2> QED
      BY <1>2, <2>1, <2>2, <2>3, <2>4, <2>5, LoneOther DEF Unlinked
  <1> QED
    BY <1>1, <1>2, <1>3 DEF LoneInv, LoneAt

LEMMA LoneStep == TypeOK /\ LoneInv /\ [Next]_vars => LoneInv'
  <1> SUFFICES ASSUME TypeOK, LoneInv, [Next]_vars
               PROVE  LoneInv'
    OBVIOUS
  <1>1. ASSUME NEW c \in Client, Call(c)
        PROVE  LoneInv'
    <2>1. DestroyBus(c) => LoneInv'
      BY LoneEnd
    <2> QED
      BY <1>1, <2>1, LoneBegin DEF Call, Transition, ForceTransition, InitializeBus
  <1>2. ASSUME NEW c \in Client, Open(c)
        PROVE  LoneInv'
    <2>1. /\ pc'[c] = "flush" /\ fd'[c] = "temp" /\ tempData'[IdOf[c]] = Empty
          /\ "temp" \in fresh'[c] => ~Met(c, c)
      BY <1>2, BusManagerAssumption DEF TypeOK, Open
    <2>2. Rivals(c)' = Rivals(c)
      BY <1>2 DEF TypeOK, Open, Rivals
    <2>3. LoneAt(c)'
      BY <2>1, <2>2 DEF LoneAt, Met
    <2> QED
      BY <1>2, <2>3, LoneWrite DEF LoneInv
  <1>3. ASSUME NEW c \in Client, Flush(c)
        PROVE  LoneInv'
    <2>1. /\ pc'[c] = "replace" /\ fd'[c] = "none" /\ fresh'[c] \subseteq fresh[c]
          /\ pend' = pend
      BY <1>3 DEF TypeOK, Flush, Stale
    <2>2. Rivals(c)' = Rivals(c)
      BY <1>3 DEF TypeOK, Flush, Rivals
    <2>3. "temp" \in fresh[c] => tempData'[IdOf[c]] = pend[c].new /\ Rivals(c) = {}
      <3>1. pc[c] = "flush" /\ LoneAt(c)
        BY <1>3 DEF LoneInv, Flush
      <3>2. "temp" \in fresh[c] => fd[c] = "temp" /\ tempData[IdOf[c]] = Empty /\ Rivals(c) = {}
        BY <3>1 DEF LoneAt
      <3>3. ASSUME fd[c] = "temp", tempData[IdOf[c]] = Empty
            PROVE  tempData'[IdOf[c]] = pend[c].new
        <4>1. tempData' = [tempData EXCEPT ![IdOf[c]] = pend[c].new]
          BY <1>3, <3>3 DEF Flush, Overwritten
        <4> QED
          BY <4>1, BusManagerAssumption DEF TypeOK
      <3> QED
        BY <2>1, <3>1, <3>2, <3>3
    <2>4. LoneAt(c)'
      BY <2>1, <2>2, <2>3 DEF LoneAt
    <2> QED
      BY <1>3, <2>4, LoneWrite DEF LoneInv
  <1>4. ASSUME NEW c \in Client, Replace(c)
        PROVE  LoneInv'
    <2>1. fresh'[c] = {} /\ fd'[c] = "none"
      BY <1>4 DEF LoneInv, LoneAt, TypeOK, Replace, Renamed, Unlinked
    <2>2. LoneAt(c)'
      BY <2>1 DEF LoneAt
    <2> QED
      BY <1>4, <2>2, LoneWrite DEF LoneInv
  <1>5. CASE UNCHANGED vars
    BY <1>5 DEF LoneInv, LoneAt, Rivals, vars
  <1> QED
    BY <1>1, <1>2, <1>3, <1>4, <1>5, LoneEnd DEF Next, Continue

LEMMA LoneCorrect == Spec => []LoneInv
  <1>1. Init => LoneInv
    BY DEF Init, LoneInv, LoneAt
  <1> QED
    BY <1>1, LoneStep, TypeCorrect, PTL DEF Spec

(* What the steps of a call do that met no other one. *)
LEMMA LoneFacts ==
    ASSUME TypeOK, LoneInv, NEW c \in Client, "temp" \in fresh[c]
    PROVE  /\ Flush(c) => busData' = busData
           /\ Replace(c) => busData' = pend[c].new
           /\ ~ReplaceFails(c)
  <1>1. LoneAt(c)
    BY DEF LoneInv
  <1>2. Flush(c) => busData' = busData
    BY <1>1 DEF LoneAt, Flush
  <1>3. Replace(c) => busData' = pend[c].new
    BY <1>1 DEF LoneAt, Replace
  <1>4. ~ReplaceFails(c)
    <2>1. pc[c] = "replace" => pend[c].new \in Frame /\ tempData[IdOf[c]] = pend[c].new
      BY <1>1 DEF LoneAt, TypeOK
    <2> QED
      BY <2>1, BusManagerAssumption DEF ReplaceFails
  <1> QED
    BY <1>2, <1>3, <1>4

(* A call that met no other one on its temporary file is atomic, for any number of
   clients, any sharing of temporary files and any crashes. *)
THEOREM LoneWritesAreAtomic == Spec => LoneWriteAtomic
  <1>1. TypeOK /\ LoneInv =>
            \A c \in Client : "temp" \in fresh[c] =>
                /\ Flush(c) => busData' = busData
                /\ Replace(c) => busData' = pend[c].new
                /\ ~ReplaceFails(c)
    BY LoneFacts
  <1> QED
    BY <1>1, LoneCorrect, TypeCorrect, PTL DEF LoneWriteAtomic

-----------------------------------------------------------------------------
(* A fresh writer validated its frame against the frame that is still there. *)
FreshInv ==
    \A c \in Client : "bus" \in fresh[c] =>
        /\ pc[c] \in {"open", "flush", "replace"}
        /\ Readable => LegalStep(busData, pend[c].new)

LEMMA FreshBegin ==
    ASSUME TypeOK, FreshInv, NEW c \in Client, NEW from, NEW new, NEW by,
           BeginWrite(c, from, new, by),
           Readable => LegalStep(busData, new)
    PROVE  FreshInv'
  BY DEF TypeOK, FreshInv, BeginWrite, Readable

(* One step of time is one forward. *)
LEMMA NextFrameStatus ==
    ASSUME NEW frame \in Frame, NEW next
    PROVE  /\ NextFrame(frame, next).status = next
           /\ NextFrame(frame, next).Vector_Clock > frame.Vector_Clock
           /\ ForcedFrame(frame, next).status = next
           /\ ForcedFrame(frame, next).Vector_Clock > frame.Vector_Clock
  <1>1. frame.Vector_Clock + 1 > frame.Vector_Clock
    BY DEF Frame
  <1> QED
    BY <1>1 DEF NextFrame, ForcedFrame, Frame

LEMMA WithPayloadStatus ==
    ASSUME NEW frame \in Frame, NEW p
    PROVE  WithPayload(frame, p).status = frame.status
  BY DEF WithPayload, Frame

(* What a call prepares: the fields it was given, and a legal successor of what
   it has read. *)
LEMMA TransitionFacts ==
    ASSUME TypeOK, NEW c \in Client, NEW next \in Status, NEW p \in Updates,
           Transition(c, next, p)
    PROVE  /\ next # PROBE => Readable
           /\ \E new \in Frame :
               /\ \E from, by : BeginWrite(c, from, new, by)
               /\ new.status = next
               /\ HolderPresent(new)
               /\ Readable => LegalStep(busData, new)
               /\ Readable => new.Target_Aid = Given(p.Target_Aid, busData.Target_Aid)
               /\ new.Child_Buses = CurrentFrame(c).Child_Buses
  <1> DEFINE old == CurrentFrame(c)
             mid == NextFrame(old, next)
             new == WithPayload(mid, p)
  <1>1. old \in Frame /\ (Readable => old = busData)
    BY CurrentFrameType DEF TypeOK, CurrentFrame
  <1>2. mid \in Frame /\ mid.status = next /\ mid.Target_Aid = old.Target_Aid
    <2>1. mid \in Frame /\ mid.status = next
      BY <1>1, NextFrameType, NextFrameStatus
    <2>2. mid.Target_Aid = old.Target_Aid
      BY <1>1 DEF NextFrame, Frame
    <2> QED
      BY <2>1, <2>2
  <1>3. /\ new \in Frame /\ new.status = next
        /\ new.Target_Aid = Given(p.Target_Aid, old.Target_Aid)
    <2>1. new \in Frame /\ new.status = next
      BY <1>2, WithPayloadType, WithPayloadStatus
    <2>2. new.Target_Aid = Given(p.Target_Aid, old.Target_Aid)
      BY <1>2 DEF WithPayload, Frame
    <2> QED
      BY <2>1, <2>2
  <1>4. LegalStep(old, new) /\ HolderPresent(new)
    BY <1>3 DEF Transition, Admissible, AssertVectorClockMonotonicity, AssertInvariants, LegalStep
  <1>5. BeginWrite(c, old.status, new, Auditor(c))
    BY DEF Transition
  <1>6. ~Readable => old.status = UNINITIALIZED
    BY DEF CurrentFrame, InitialFrame
  <1>8. new.Child_Buses = old.Child_Buses
    BY <1>1, <1>2 DEF WithPayload, NextFrame, Frame
  <1> HIDE DEF old, mid, new
  <1>7. next # PROBE => Readable
    BY <1>3, <1>4, <1>6
       DEF LegalStep, ValidateTransition, ValidTransitions, UNINITIALIZED, PROBE, HANDSHAKE_ACK,
           SLAVE_PASSIVE, ACTIVE_CONTROL, LEASE_HEARTBEAT, RELEASE_SUCCESS, RELEASE_FAILED
  <1> QED
    BY <1>1, <1>3, <1>4, <1>5, <1>7, <1>8 DEF old

LEMMA ForceFacts ==
    ASSUME TypeOK, NEW c \in Client, NEW next \in Status, ForceTransition(c, next)
    PROVE  \E new \in Frame :
               /\ \E from, by : BeginWrite(c, from, new, by)
               /\ new.status = next /\ HolderPresent(new)
               /\ new.Child_Buses = CurrentFrame(c).Child_Buses
  <1>1. CurrentFrame(c) \in Frame
    BY CurrentFrameType DEF TypeOK
  <1>2. ForcedFrame(CurrentFrame(c), next).Child_Buses = CurrentFrame(c).Child_Buses
    BY <1>1 DEF ForcedFrame, NextFrame, Frame
  <1> QED
    BY <1>1, <1>2, ForcedFrameType, NextFrameStatus DEF ForceTransition, AssertInvariants

LEMMA FreshStep == TypeOK /\ FreshInv /\ [Next]_vars => FreshInv'
  <1> SUFFICES ASSUME TypeOK, FreshInv, [Next]_vars PROVE FreshInv'
    OBVIOUS
  <1>1. ASSUME NEW c \in Client, NEW next \in Status, NEW p \in Payload,
               Transition(c, next, p)
        PROVE  FreshInv'
    <2> DEFINE old == CurrentFrame(c)
               new == WithPayload(NextFrame(old, next), p)
    <2>1. old \in Frame
      BY CurrentFrameType DEF TypeOK
    <2>2. new.status = next
      BY <2>1, NextFrameType, NextFrameStatus, WithPayloadStatus
    <2>3. LegalStep(old, new)
      BY <1>1, <2>2 DEF Transition, Admissible, AssertVectorClockMonotonicity,
                        LegalStep
    <2>4. Readable => old = busData
      BY DEF CurrentFrame
    <2>5. BeginWrite(c, old.status, new, Auditor(c))
      BY <1>1 DEF Transition
    <2> HIDE DEF old, new
    <2> QED
      BY <2>3, <2>4, <2>5, FreshBegin
  <1>2. ASSUME NEW c \in Client, NEW next \in Status, ForceTransition(c, next)
        PROVE  FreshInv'
    <2> DEFINE old == CurrentFrame(c)
               new == ForcedFrame(old, next)
    <2>1. old \in Frame
      BY CurrentFrameType DEF TypeOK
    <2>2. LegalStep(old, new)
      BY <1>2, <2>1, NextFrameStatus DEF ForceTransition, LegalStep
    <2>3. Readable => old = busData
      BY DEF CurrentFrame
    <2>4. BeginWrite(c, old.status, new, Auditor(c))
      BY <1>2 DEF ForceTransition
    <2> HIDE DEF old, new
    <2> QED
      BY <2>2, <2>3, <2>4, FreshBegin
  <1>3. ASSUME NEW c \in Client, NEW topology \in Topology,
               InitializeBus(c, topology)
        PROVE  FreshInv'
    BY <1>3, FreshBegin DEF InitializeBus
  <1>4. ASSUME NEW c \in Client, DestroyBus(c)
        PROVE  FreshInv'
    BY <1>4 DEF FreshInv, DestroyBus, Stale
  <1>5. ASSUME NEW c \in Client, Open(c)
        PROVE  FreshInv'
    BY <1>5 DEF TypeOK, FreshInv, Open, Readable
  <1>6. ASSUME NEW c \in Client, Flush(c)
        PROVE  FreshInv'
    BY <1>6 DEF TypeOK, FreshInv, Flush, Stale, Readable
  <1>7. ASSUME NEW c \in Client, Replace(c)
        PROVE  FreshInv'
    BY <1>7 DEF FreshInv, Replace, Stale
  <1>8. ASSUME NEW c \in Client, ReplaceFails(c)
        PROVE  FreshInv'
    BY <1>8 DEF TypeOK, FreshInv, ReplaceFails, Return, Readable
  <1>9. ASSUME NEW c \in Client, AppendLedger(c)
        PROVE  FreshInv'
    BY <1>9 DEF TypeOK, FreshInv, AppendLedger, Return, Readable
  <1>10. ASSUME NEW c \in Client, Crash(c)
         PROVE  FreshInv'
    BY <1>10 DEF TypeOK, FreshInv, Crash, Return, Readable
  <1>11. CASE UNCHANGED vars
    BY <1>11 DEF FreshInv, vars, Readable
  <1> QED
    BY <1>1, <1>2, <1>3, <1>4, <1>5, <1>6, <1>7, <1>8, <1>9, <1>10, <1>11
       DEF Next, Call, Continue

(* A write nobody interfered with is a legal edge and moves the clock on. *)
THEOREM IsolatedWritesLegal == Spec => IsolatedWriteLegal
  <1>1. Init => FreshInv
    BY DEF Init, FreshInv
  <1>2. TypeOK /\ LoneInv /\ FreshInv =>
            \A c \in Client : fresh[c] = {"bus", "temp"} /\ Replace(c) /\ Readable
                => LegalStep(busData, busData')
    BY LoneFacts DEF FreshInv
  <1> QED
    BY <1>1, <1>2, FreshStep, TypeCorrect, LoneCorrect, PTL
       DEF Spec, IsolatedWriteLegal

-----------------------------------------------------------------------------
(* An empty file, temporary or renamed over the bus,
   has a writer whose descriptor it is, until somebody dies. *)
Filler(c, f) == pc[c] = "flush" /\ fd[c] = f

FillerInv ==
    crashes = 0 =>
        /\ busData = Empty => \E c \in Client : Filler(c, "bus")
        /\ \A i \in BusId : tempData[i] = Empty =>
               \E c \in Client : Filler(c, "temp") /\ IdOf[c] = i

(* What is written is not empty. *)
LEMMA OverwrittenFull ==
    ASSUME TypeOK, NEW c \in Client, pc[c] # "idle", NEW content,
           NEW x \in Overwritten(content, pend[c].new)
    PROVE  x # Empty
  <1>1. pend[c].new \in Frame
    BY DEF TypeOK
  <1> QED
    BY <1>1, BusManagerAssumption DEF Overwritten

(* A client that begins a call was idle, and fills nothing. *)
LEMMA BeginFills ==
    ASSUME TypeOK, FillerInv, NEW c \in Client, NEW from, NEW new, NEW by,
           BeginWrite(c, from, new, by)
    PROVE  FillerInv'
  <1>1. \A d \in Client : \A f : Filler(d, f) => Filler(d, f)'
    BY DEF BeginWrite, Filler, TypeOK
  <1> QED
    BY <1>1 DEF BeginWrite, FillerInv

LEMMA FillerStep == TypeOK /\ FillerInv /\ [Next]_vars => FillerInv'
  <1> SUFFICES ASSUME TypeOK, FillerInv, [Next]_vars PROVE FillerInv'
    OBVIOUS
  <1>1. ASSUME NEW c \in Client, Open(c)
        PROVE  FillerInv'
    <2>1. Filler(c, "temp")' /\ IdOf[c] \in BusId
      BY <1>1, BusManagerAssumption DEF Open, Filler, TypeOK
    <2>2. \A d \in Client : \A f : Filler(d, f) => Filler(d, f)'
      BY <1>1 DEF Open, Filler, TypeOK
    <2> QED
      BY <1>1, <2>1, <2>2 DEF Open, FillerInv, TypeOK
  <1>2. ASSUME NEW c \in Client, Flush(c)
        PROVE  FillerInv'
    <2>1. \A d \in Client \ {c} : \A f : Filler(d, f) => Filler(d, f)'
      BY <1>2 DEF Flush, Filler, TypeOK
    <2>2. pc[c] # "idle" /\ IdOf[c] \in BusId
      BY <1>2, BusManagerAssumption DEF Flush
    <2>3. CASE fd[c] = "temp"
      <3>1. PICK x \in Overwritten(tempData[IdOf[c]], pend[c].new) :
                tempData' = [tempData EXCEPT ![IdOf[c]] = x] /\ busData' = busData
        BY <1>2, <2>3 DEF Flush
      <3>2. x # Empty
        BY <2>2, OverwrittenFull
      <3>3. tempData'[IdOf[c]] # Empty /\ \A i \in BusId \ {IdOf[c]} : tempData'[i] = tempData[i]
        BY <2>2, <3>1, <3>2 DEF TypeOK
      <3> QED
        BY <1>2, <2>1, <2>3, <3>1, <3>3 DEF Flush, FillerInv, Filler
    <2>4. CASE fd[c] = "bus"
      <3>1. busData' # Empty /\ tempData' = tempData
        BY <1>2, <2>2, <2>4, OverwrittenFull DEF Flush
      <3> QED
        BY <1>2, <2>1, <2>4, <3>1 DEF Flush, FillerInv, Filler
    <2>5. CASE fd[c] = "orphan"
      BY <1>2, <2>1, <2>5 DEF Flush, FillerInv, Filler
    <2> QED
      BY <1>2, <2>3, <2>4, <2>5 DEF Flush
  <1>3. ASSUME NEW c \in Client, Replace(c)
        PROVE  FillerInv'
    <2>1. \A d \in Client : pc[d] = "flush" => d # c /\ pc'[d] = "flush"
      BY <1>3 DEF Replace, Return, TypeOK
    <2>2. \A d \in Client : fd'[d] = Renamed(c, d)
      BY <1>3 DEF Replace
    <2>3. ASSUME crashes = 0, busData' = Empty
          PROVE  \E d \in Client : Filler(d, "bus")'
      <3>1. tempData[IdOf[c]] = Empty /\ IdOf[c] \in BusId
        BY <1>3, <2>3, BusManagerAssumption DEF Replace
      <3>2. PICK d \in Client : Filler(d, "temp") /\ IdOf[d] = IdOf[c]
        BY <2>3, <3>1 DEF FillerInv
      <3> QED
        BY <2>1, <2>2, <3>2 DEF Filler, Renamed
    <2>4. ASSUME crashes = 0, NEW i \in BusId, tempData'[i] = Empty
          PROVE  \E d \in Client : Filler(d, "temp")' /\ IdOf[d] = i
      <3>1. i # IdOf[c] /\ tempData[i] = Empty
        BY <1>3, <2>4, BusManagerAssumption DEF Replace, TypeOK
      <3>2. PICK d \in Client : Filler(d, "temp") /\ IdOf[d] = i
        BY <2>4, <3>1 DEF FillerInv
      <3> QED
        BY <2>1, <2>2, <3>1, <3>2 DEF Filler, Renamed, Unlinked
    <2> QED
      BY <1>3, <2>3, <2>4 DEF Replace, FillerInv
  <1>4. ASSUME NEW c \in Client, ReplaceFails(c) \/ AppendLedger(c)
        PROVE  FillerInv'
    <2>1. \A d \in Client : \A f : Filler(d, f) => Filler(d, f)'
      BY <1>4 DEF ReplaceFails, AppendLedger, Return, Filler, TypeOK
    <2> QED
      BY <1>4, <2>1 DEF ReplaceFails, AppendLedger, FillerInv
  <1>5. ASSUME NEW c \in Client, Call(c)
        PROVE  FillerInv'
    <2>1. CASE DestroyBus(c)
      <3>1. \A d \in Client : Filler(d, "temp") => Filler(d, "temp")'
        BY <2>1 DEF DestroyBus, Filler, Unlinked
      <3> QED
        BY <2>1, <3>1, BusManagerAssumption DEF DestroyBus, FillerInv
    <2> QED
      BY <1>5, <2>1, BeginFills DEF Call, Transition, ForceTransition, InitializeBus
  <1>6. ASSUME NEW c \in Client, Crash(c)
        PROVE  FillerInv'
    BY <1>6 DEF Crash, FillerInv, TypeOK
  <1>7. CASE UNCHANGED vars
    BY <1>7 DEF vars, FillerInv, Filler
  <1> QED
    BY <1>1, <1>2, <1>3, <1>4, <1>5, <1>6, <1>7 DEF Next, Continue

(* An empty bus file is about to be filled, for any number of clients and any
   sharing of temporary files, as long as nobody has died: whoever renamed it in
   this state renamed a file that another one has open. *)
THEOREM EmptyPasses == Spec => []EmptyIsTransient
  <1>1. Init => FillerInv
    BY BusManagerAssumption DEF Init, FillerInv
  <1>2. FillerInv => EmptyIsTransient
    BY DEF FillerInv, Filler, EmptyIsTransient
  <1> QED
    BY <1>1, <1>2, FillerStep, TypeCorrect, PTL DEF Spec
=============================================================================
