------------------------- MODULE CycloneNodesProofs -------------------------
(***************************************************************************)
(* Theorems about the reference programs on one root bus, for any number   *)
(* of masters and slaves, any numbers of polls and heartbeats, any         *)
(* restarts and crashes.  What the bus managers check is proved in         *)
(* BusManagerProofs; here the frames the slaves write past them come in.   *)
(***************************************************************************)
EXTENDS CycloneNodes, BusManagerProofs, FiniteSetTheorems

-----------------------------------------------------------------------------
(* The types. *)

(* A step of a program takes the bus manager from types to types. *)
LEMMA TryType ==
    ASSUME TypeOK, NEW c \in Client, NEW status \in Status, NEW next
    PROVE  /\ \A p \in Updates : TryTransition(c, status, p, next) => TypeOK'
           /\ TryForceTransition(c, status, next) => TypeOK'
  <1>1. UNCHANGED vars => TypeOK'
    BY DEF vars, TypeOK
  <1> QED
    BY <1>1, TransitionType, ForceType DEF TryTransition, TryForceTransition

LEMMA StatusType ==
    {UNINITIALIZED, PROBE, HANDSHAKE_ACK, SLAVE_PASSIVE, ACTIVE_CONTROL, LEASE_HEARTBEAT,
     RELEASE_SUCCESS} \subseteq Status
  BY DEF Status

(* The payloads of the master. *)
LEMMA PayloadType ==
    ASSUME NodeTypeOK, NEW m \in Master
    PROVE  /\ [NoUpdate EXCEPT !.Aid = AidOf[m], !.Target_Aid = Target[m],
                               !.Request = Connect, !.Token_Holder = AidOf[m]] \in Updates
           /\ [NoUpdate EXCEPT !.Target_Aid = peer[m], !.Token_Holder = AidOf[m]] \in Updates
           /\ [NoUpdate EXCEPT !.Request = Task, !.Token_Holder = AidOf[m]] \in Updates
  <1>1. AidOf[m] \in Agent /\ Target[m] \in Agent \cup {AnyAid} /\ peer[m] \in Agent \cup {NoAid}
    BY NodesAssumption, BusManagerAssumption DEF NodeTypeOK
  <1> QED
    BY <1>1 DEF NoUpdate, Updates, Request, Connect, Task

LEMMA MasterBusType ==
    ASSUME NodeTypeOK, NEW m \in Master, MasterStep(m)
    PROVE  TypeOK'
  <1>1. m \in Client /\ TypeOK
    BY NodesAssumption DEF NodeTypeOK
  <1>2. UNCHANGED vars => TypeOK'
    BY <1>1 DEF vars, TypeOK
  <1>3. [parent |-> NoBus, children |-> {}]
            \in [parent : BusId \cup {NoBus}, children : SUBSET BusId]
    OBVIOUS
  <1>4. CASE Create(m)
    BY <1>1, <1>2, <1>3, <1>4, InitializeType DEF Create
  <1>5. CASE Start(m) \/ Await(m) \/ Monitor(m)
    BY <1>2, <1>5 DEF Start, Await, Monitor
  <1>6. CASE Probe(m)
    BY <1>1, <1>6, TryType, StatusType, PayloadType DEF Probe
  <1>7. CASE Lock(m)
    BY <1>1, <1>7, TryType, StatusType, PayloadType DEF Lock
  <1>8. CASE Command(m)
    BY <1>1, <1>8, TryType, StatusType, PayloadType DEF Command
  <1>9. CASE Reset(m) \/ GiveUp(m)
    BY <1>1, <1>9, TryType, StatusType DEF Reset, GiveUp
  <1> QED
    BY <1>4, <1>5, <1>6, <1>7, <1>8, <1>9 DEF MasterStep

(* What a slave writes over the frame it has read. *)
AckFrame(s, frame) ==
    [NextFrame(frame, HANDSHAKE_ACK) EXCEPT !.Target_Aid = frame.Aid, !.Aid = AidOf[s],
                                            !.Token_Holder = NoAid]
BeatFrame(s, frame) == [NextFrame(frame, LEASE_HEARTBEAT) EXCEPT !.Token_Holder = AidOf[s]]
ReleaseFrame(frame) == [NextFrame(frame, RELEASE_SUCCESS) EXCEPT !.Token_Holder = NoAid]

LEMMA SlaveFrameType ==
    ASSUME NEW s \in Slave, NEW frame \in Frame
    PROVE  /\ AckFrame(s, frame) \in Frame
           /\ BeatFrame(s, frame) \in Frame
           /\ ReleaseFrame(frame) \in Frame
  <1>1. AidOf[s] \in Agent /\ frame.Aid \in Agent \cup {NoAid}
    BY NodesAssumption, BusManagerAssumption DEF Frame
  <1>2. /\ NextFrame(frame, HANDSHAKE_ACK) \in Frame
        /\ NextFrame(frame, LEASE_HEARTBEAT) \in Frame
        /\ NextFrame(frame, RELEASE_SUCCESS) \in Frame
    BY StatusType, NextFrameType
  <1>3. ASSUME NEW f \in Frame, NEW holder \in Agent \cup {NoAid}
        PROVE  /\ [f EXCEPT !.Token_Holder = holder] \in Frame
               /\ [f EXCEPT !.Target_Aid = frame.Aid, !.Aid = AidOf[s],
                            !.Token_Holder = holder] \in Frame
    BY <1>1 DEF Frame
  <1> QED
    BY <1>1, <1>2, <1>3 DEF AckFrame, BeatFrame, ReleaseFrame

(* The three writes of a slave. *)
LEMMA SlaveWrites ==
    ASSUME NEW s, SlaveStep(s)
    PROVE  \/ UNCHANGED vars
           \/ Readable /\ (\/ Ack(s) /\ RawWrite(s, AckFrame(s, busData))
                           \/ Beat(s) /\ RawWrite(s, BeatFrame(s, busData))
                           \/ Release(s) /\ RawWrite(s, ReleaseFrame(busData)))
  BY DEF SlaveStep, Execute, Ack, Beat, Release, Addressed, AckFrame, BeatFrame, ReleaseFrame

LEMMA SlaveBusType ==
    ASSUME TypeOK, NEW s \in Slave, SlaveStep(s)
    PROVE  TypeOK'
  <1>1. CASE UNCHANGED vars
    BY <1>1 DEF vars, TypeOK
  <1>2. ASSUME Readable, NEW new \in Frame, RawWrite(s, new)
        PROVE  TypeOK'
    <2>1. busData.status \in Status /\ s \in Client
      BY <1>2, ReadableFrame, NodesAssumption DEF TypeOK, Frame
    <2> QED
      BY <1>2, <2>1, BeginWriteType DEF RawWrite
  <1>3. Readable => busData \in Frame
    BY ReadableFrame DEF TypeOK
  <1> QED
    BY <1>1, <1>2, <1>3, SlaveWrites, SlaveFrameType

(* A write, a crash and a restart, as the bus manager sees them. *)
LEMMA ProcessSteps ==
    ASSUME NEW n, WriteStep(n) \/ NodeCrash(n) \/ Restart(n)
    PROVE  Continue(n) \/ Crash(n) \/ UNCHANGED vars
  BY DEF WriteStep, NodeCrash, Restart, Continue

LEMMA BusTypeStep ==
    ASSUME NodeTypeOK, [NodeNext]_allVars
    PROVE  TypeOK'
  <1>1. TypeOK
    BY DEF NodeTypeOK
  <1>2. CASE UNCHANGED allVars
    BY <1>1, <1>2 DEF allVars, vars, TypeOK
  <1>3. ASSUME NEW n \in Client, WriteStep(n) \/ NodeCrash(n) \/ Restart(n)
        PROVE  TypeOK'
    BY <1>1, <1>3, ProcessSteps, FileStepType DEF vars, TypeOK
  <1> QED
    BY <1>1, <1>2, <1>3, MasterBusType, SlaveBusType DEF NodeNext

(* The rest of NodeTypeOK: where the programs are and what they have counted. *)
NodeTypes ==
    /\ stage \in [Client -> MasterStage \cup SlaveStage \cup Stopped]
    /\ \A m \in Master : stage[m] \notin SlaveStage
    /\ \A s \in Slave : stage[s] \in SlaveStage \cup {"failed", "down"}
    /\ \A n \in Client : pc[n] # "idle" => stage[n] \notin {"start", "failed", "down"}
    /\ count \in [Client -> Nat]
    /\ peer \in [Master -> Agent \cup {NoAid}]
    /\ busy \in [Slave -> BOOLEAN]
    /\ restarts \in [Client -> 0..MaxRestarts]
    /\ commands \in Nat /\ executions \in Nat

(* n moves on, perhaps with a write, or its program has ended. *)
Goes(n, next) ==
    /\ \A d \in Client \ {n} : pc'[d] = pc[d]
    /\ \/ GoTo(n, next)
       \/ GoTo(n, "failed") /\ pc'[n] = "idle"

LEMMA TryGoes ==
    ASSUME TypeOK, NEW n \in Client, pc[n] = "idle", NEW status, NEW next
    PROVE  /\ \A p : TryTransition(n, status, p, next) => Goes(n, next)
           /\ TryForceTransition(n, status, next) => Goes(n, next)
  BY DEF TryTransition, TryForceTransition, Transition, ForceTransition, BeginWrite, Goes,
         vars, TypeOK

LEMMA GoesTypes ==
    ASSUME NodeTypes, NEW m \in Master, NEW next \in MasterStage \ {"start"}, Goes(m, next)
    PROVE  /\ stage' \in [Client -> MasterStage \cup SlaveStage \cup Stopped]
           /\ \A n \in Master : stage'[n] \notin SlaveStage
           /\ \A s \in Slave : stage'[s] \in SlaveStage \cup {"failed", "down"}
           /\ \A n \in Client : pc'[n] # "idle" => stage'[n] \notin {"start", "failed", "down"}
           /\ count' \in [Client -> Nat]
  BY NodesAssumption
     DEF NodeTypes, Goes, GoTo, MasterStage, SlaveStage, Stopped

LEMMA MasterTypes ==
    ASSUME NodeTypeOK, NEW m \in Master, MasterStep(m)
    PROVE  NodeTypes'
  <1>1. m \in Client /\ TypeOK /\ NodeTypes
    BY NodesAssumption DEF NodeTypeOK, NodeTypes
  <1>2. \A next : GoTo(m, next) /\ (pc' = pc \/ \E from, new, by : BeginWrite(m, from, new, by))
            => Goes(m, next)
    BY <1>1 DEF Goes, BeginWrite, TypeOK
  <1>3. {"create", "reset", "probe", "await", "lock", "command", "monitor", "done", "gaveup"}
            = MasterStage \ {"start"}
    BY DEF MasterStage
  <1>4. CASE Start(m)
    <2>1. PICK next \in {"create", "reset", "probe"} : GoTo(m, next) /\ pc' = pc
      BY <1>4 DEF Start, vars
    <2>2. Goes(m, next)
      BY <1>2, <2>1
    <2> QED
      BY <1>1, <1>3, <1>4, <2>1, <2>2, GoesTypes DEF Start, NodeTypes
  <1>5. CASE Create(m)
    <2>1. Goes(m, "probe")
      BY <1>2, <1>5 DEF Create, InitializeBus, vars
    <2> QED
      BY <1>1, <1>3, <1>5, <2>1, GoesTypes DEF Create, NodeTypes
  <1>6. CASE Reset(m)
    <2>1. Goes(m, "probe")
      BY <1>1, <1>6, TryGoes DEF Reset, At
    <2> QED
      BY <1>1, <1>3, <1>6, <2>1, GoesTypes DEF Reset, NodeTypes
  <1>7. CASE Probe(m)
    <2>1. Goes(m, "await")
      BY <1>1, <1>7, TryGoes DEF Probe, At
    <2> QED
      BY <1>1, <1>3, <1>7, <2>1, GoesTypes DEF Probe, NodeTypes
  <1>8. CASE Lock(m)
    <2>1. Goes(m, "command")
      BY <1>1, <1>8, TryGoes DEF Lock, At
    <2> QED
      BY <1>1, <1>3, <1>8, <2>1, GoesTypes DEF Lock, NodeTypes
  <1>9. CASE GiveUp(m)
    <2>1. Goes(m, "gaveup")
      BY <1>1, <1>9, TryGoes DEF GiveUp, At
    <2> QED
      BY <1>1, <1>3, <1>9, <2>1, GoesTypes DEF GiveUp, NodeTypes
  <1>10. CASE Command(m)
    <2>1. Goes(m, "monitor")
      BY <1>1, <1>10, TryGoes DEF Command, At
    <2>2. commands' \in Nat
      BY <1>1, <1>10 DEF Command, NodeTypes
    <2> QED
      BY <1>1, <1>3, <1>10, <2>1, <2>2, GoesTypes DEF Command, NodeTypes
  <1>11. CASE Await(m)
    <2>1. CASE AckVisible(m)
      <3>1. Goes(m, "lock")
        BY <1>2, <1>11, <2>1 DEF Await, vars
      <3>2. busData.Aid \in Agent \cup {NoAid}
        BY <1>1, <2>1, ReadableFrame DEF AckVisible, TypeOK, Frame
      <3>3. peer' \in [Master -> Agent \cup {NoAid}]
        BY <1>1, <1>11, <2>1, <3>2 DEF Await, NodeTypes
      <3> QED
        BY <1>1, <1>3, <1>11, <3>1, <3>3, GoesTypes DEF Await, NodeTypes
    <2>2. CASE ~AckVisible(m)
      BY <1>1, <1>11, <2>2 DEF Await, Counted, vars, NodeTypes
    <2> QED
      BY <2>1, <2>2
  <1>12. CASE Monitor(m)
    <2>1. CASE stage' = stage /\ Counted(m)
      BY <1>1, <1>12, <2>1 DEF Monitor, Counted, vars, NodeTypes
    <2>2. CASE GoTo(m, "done")
      <3>1. Goes(m, "done")
        BY <1>2, <1>12, <2>2 DEF Monitor, vars
      <3> QED
        BY <1>1, <1>3, <1>12, <3>1, GoesTypes DEF Monitor, NodeTypes
    <2> QED
      BY <1>12, <2>1, <2>2 DEF Monitor
  <1> QED
    BY <1>4, <1>5, <1>6, <1>7, <1>8, <1>9, <1>10, <1>11, <1>12 DEF MasterStep

LEMMA SlaveTypes ==
    ASSUME NodeTypeOK, NEW s \in Slave, SlaveStep(s)
    PROVE  NodeTypes'
  <1>1. s \in Client /\ s \notin Master /\ TypeOK /\ NodeTypes
    BY NodesAssumption DEF NodeTypeOK, NodeTypes
  <1>2. \A new : RawWrite(s, new) => \A n \in Client : pc'[n] # "idle" => n = s \/ pc[n] # "idle"
    BY <1>1 DEF RawWrite, BeginWrite, TypeOK
  <1>3. UNCHANGED vars => pc' = pc
    BY DEF vars
  <1>4. CASE Ack(s)
    BY <1>1, <1>2, <1>4 DEF Ack, At, nodeVars, NodeTypes
  <1>5. CASE Execute(s)
    BY <1>1, <1>3, <1>5 DEF Execute, At, GoTo, NodeTypes, SlaveStage, Stopped
  <1>6. CASE Beat(s)
    BY <1>1, <1>2, <1>3, <1>6 DEF Beat, At, Counted, NodeTypes
  <1>7. CASE Release(s)
    <2>1. \A n \in Client : pc'[n] # "idle" => n = s \/ pc[n] # "idle"
      BY <1>2, <1>3, <1>7 DEF Release
    <2>2. busy' \in [Slave -> BOOLEAN]
      BY <1>1, <1>7 DEF Release, NodeTypes
    <2> QED
      BY <1>1, <1>7, <2>1, <2>2 DEF Release, At, GoTo, NodeTypes, SlaveStage, Stopped
  <1> QED
    BY <1>4, <1>5, <1>6, <1>7 DEF SlaveStep

(* A program is ended, or dies. *)
LEMMA EndTypes ==
    ASSUME NodeTypes, NEW n \in Client, GoTo(n, "failed") \/ GoTo(n, "down"),
           \A d \in Client : pc'[d] # "idle" => d # n /\ pc[d] # "idle",
           UNCHANGED <<peer, busy, restarts, commands, executions>>
    PROVE  NodeTypes'
  BY NodesAssumption DEF GoTo, NodeTypes, MasterStage, SlaveStage, Stopped

LEMMA ProcessTypes ==
    ASSUME NodeTypeOK, NEW n \in Client, WriteStep(n) \/ NodeCrash(n) \/ Restart(n)
    PROVE  NodeTypes'
  <1>1. TypeOK /\ NodeTypes
    BY DEF NodeTypeOK, NodeTypes
  <1>2. CASE (Open(n) \/ Flush(n) \/ Replace(n) \/ AppendLedger(n)) /\ UNCHANGED nodeVars
    <2>1. \A d \in Client : pc'[d] # "idle" => pc[d] # "idle"
      BY <1>1, <1>2 DEF Open, Flush, Replace, AppendLedger, Return, TypeOK
    <2> QED
      BY <1>1, <1>2, <2>1 DEF nodeVars, NodeTypes
  <1>3. ASSUME GoTo(n, "failed") \/ GoTo(n, "down"), Return(n),
               UNCHANGED <<peer, busy, restarts, commands, executions>>
        PROVE  NodeTypes'
    <2>1. \A d \in Client : pc'[d] # "idle" => d # n /\ pc[d] # "idle"
      BY <1>1, <1>3 DEF Return, TypeOK
    <2> QED
      BY <1>1, <1>3, <2>1, EndTypes
  <1>4. CASE Restart(n)
    <2>1. pc' = pc /\ pc[n] = "idle"
      BY <1>4 DEF Restart, At, vars
    <2>2. restarts' \in [Client -> 0..MaxRestarts]
      BY <1>1, <1>4, NodesAssumption DEF Restart, NodeTypes
    <2>3. /\ busy' \in [Slave -> BOOLEAN]
          /\ peer' \in [Master -> Agent \cup {NoAid}]
      BY <1>1, <1>4 DEF Restart, NodeTypes
    <2>4. GoTo(n, First(n)) /\ UNCHANGED <<commands, executions>>
      BY <1>4 DEF Restart
    <2> QED
      BY <1>1, <2>1, <2>2, <2>3, <2>4, NodesAssumption
         DEF GoTo, First, NodeTypes, MasterStage, SlaveStage, Stopped
  <1> QED
    BY <1>2, <1>3, <1>4 DEF WriteStep, ReplaceFails, NodeCrash, Crash

LEMMA NodeTypeStep == NodeTypeOK /\ [NodeNext]_allVars => NodeTypeOK'
  <1> SUFFICES ASSUME NodeTypeOK, [NodeNext]_allVars PROVE NodeTypeOK'
    OBVIOUS
  <1>1. CASE UNCHANGED allVars
    BY <1>1 DEF allVars, nodeVars, vars, NodeTypeOK, TypeOK, NodeTypes
  <1>2. NodeTypes'
    BY <1>1, MasterTypes, SlaveTypes, ProcessTypes DEF NodeNext, NodeTypeOK, NodeTypes
  <1> QED
    BY <1>2, BusTypeStep DEF NodeTypeOK, NodeTypes

(* The programs and their bus keep their types; a program that was ended, or is
   yet to start, has no write of its own in progress. *)
THEOREM NodeTypesCorrect == NodeSpec => []NodeTypeOK
  <1>1. NodeInit => NodeTypeOK
    BY TypeInit, NodesAssumption
       DEF NodeInit, Init, NodeTypeOK, First, MasterStage, SlaveStage, Stopped
  <1> QED
    BY <1>1, NodeTypeStep, PTL DEF NodeSpec


-----------------------------------------------------------------------------
(* The frames the programs write. *)

(* A step of the master leaves the bus manager alone or begins to write one of
   these frames. *)
LEMMA MasterCalls ==
    ASSUME NodeTypeOK, NEW m \in Master, MasterStep(m)
    PROVE  \/ UNCHANGED vars
           \/ \E new \in Frame :
                 /\ \E from, by : BeginWrite(m, from, new, by)
                 /\ HolderPresent(new)
                 /\ \/ new.status \in {UNINITIALIZED, PROBE}
                    \/ /\ Lock(m) /\ new.status = SLAVE_PASSIVE
                       /\ new.Target_Aid = peer[m]
                    \/ /\ Command(m) /\ new.status = ACTIVE_CONTROL
                       /\ Readable /\ busData.status = SLAVE_PASSIVE
                       /\ new.Target_Aid = busData.Target_Aid
  <1>1. m \in Client /\ TypeOK
    BY NodesAssumption DEF NodeTypeOK
  <1>2. CASE Start(m) \/ Await(m) \/ Monitor(m)
    BY <1>2 DEF Start, Await, Monitor
  <1>3. CASE Create(m)
    <2> DEFINE new == [InitialFrame(IdOf[m]) EXCEPT !.Aid = AidOf[m], !.Parent_Bus = NoBus,
                                                    !.Child_Buses = {}]
    <2>1. CASE BeginWrite(m, UNINITIALIZED, new, NoAid)
      <3>1. InitialFrame(IdOf[m]) \in Frame /\ InitialFrame(IdOf[m]).status = UNINITIALIZED
        BY <1>1, InitialFrameType, BusManagerAssumption DEF InitialFrame
      <3>2. AidOf[m] \in Agent
        BY <1>1, BusManagerAssumption
      <3>3. new \in Frame /\ new.status = UNINITIALIZED
        BY <3>1, <3>2 DEF Frame
      <3> HIDE DEF new
      <3>4. HolderPresent(new)
        BY <3>3 DEF HolderPresent, ActiveStates, UNINITIALIZED, SLAVE_PASSIVE, ACTIVE_CONTROL,
                    LEASE_HEARTBEAT
      <3> QED
        BY <2>1, <3>3, <3>4
    <2> QED
      BY <1>3, <2>1 DEF Create, InitializeBus
  <1>4. CASE Probe(m)
    <2> DEFINE p == [NoUpdate EXCEPT !.Aid = AidOf[m], !.Target_Aid = Target[m],
                                     !.Request = Connect, !.Token_Holder = AidOf[m]]
    <2>1. CASE Transition(m, PROBE, p)
      <3>1. p \in Updates
        BY PayloadType
      <3> HIDE DEF p
      <3> QED
        BY <1>1, <2>1, <3>1, StatusType, TransitionFacts
    <2> QED
      BY <1>4, <2>1 DEF Probe, TryTransition
  <1>5. CASE Lock(m)
    <2> DEFINE p == [NoUpdate EXCEPT !.Target_Aid = peer[m], !.Token_Holder = AidOf[m]]
    <2>1. CASE Transition(m, SLAVE_PASSIVE, p)
      <3>1. p \in Updates /\ p.Target_Aid = peer[m]
        BY PayloadType DEF NoUpdate
      <3>2. peer[m] # Keep
        BY BusManagerAssumption DEF NodeTypeOK
      <3> HIDE DEF p
      <3> QED
        BY <1>1, <1>5, <2>1, <3>1, <3>2, StatusType, TransitionFacts
           DEF Given, PROBE, SLAVE_PASSIVE
    <2> QED
      BY <1>5, <2>1 DEF Lock, TryTransition
  <1>6. CASE Command(m)
    <2> DEFINE p == [NoUpdate EXCEPT !.Request = Task, !.Token_Holder = AidOf[m]]
    <2>1. CASE Transition(m, ACTIVE_CONTROL, p)
      <3>1. p \in Updates /\ p.Target_Aid = Keep
        BY PayloadType DEF NoUpdate
      <3> HIDE DEF p
      <3>2. PICK new \in Frame :
               /\ \E from, by : BeginWrite(m, from, new, by)
               /\ new.status = ACTIVE_CONTROL /\ HolderPresent(new)
               /\ Readable /\ LegalStep(busData, new)
               /\ new.Target_Aid = busData.Target_Aid
        BY <1>1, <2>1, <3>1, StatusType, TransitionFacts DEF Given, PROBE, ACTIVE_CONTROL
      <3>3. busData.status = SLAVE_PASSIVE
        BY <3>2 DEF LegalStep, ValidateTransition, ValidTransitions, UNINITIALIZED, PROBE,
                    HANDSHAKE_ACK, SLAVE_PASSIVE, ACTIVE_CONTROL, LEASE_HEARTBEAT,
                    RELEASE_SUCCESS, RELEASE_FAILED
      <3> QED
        BY <1>6, <3>2, <3>3
    <2> QED
      BY <1>6, <2>1 DEF Command, TryTransition
  <1>7. CASE Reset(m) \/ GiveUp(m)
    BY <1>1, <1>7, StatusType, ForceFacts DEF Reset, GiveUp, TryForceTransition
  <1> QED
    BY <1>2, <1>3, <1>4, <1>5, <1>6, <1>7 DEF MasterStep

LEMMA SlaveFrameFacts ==
    ASSUME NEW s \in Slave, NEW frame \in Frame
    PROVE  /\ AckFrame(s, frame).status = HANDSHAKE_ACK
           /\ AckFrame(s, frame).Aid = AidOf[s]
           /\ AckFrame(s, frame).Vector_Clock > frame.Vector_Clock
           /\ BeatFrame(s, frame).status = LEASE_HEARTBEAT
           /\ BeatFrame(s, frame).Target_Aid = frame.Target_Aid
           /\ BeatFrame(s, frame).Token_Holder = AidOf[s]
           /\ BeatFrame(s, frame).Vector_Clock > frame.Vector_Clock
           /\ ReleaseFrame(frame).status = RELEASE_SUCCESS
           /\ ReleaseFrame(frame).Vector_Clock > frame.Vector_Clock
  <1>1. frame.Vector_Clock \in Nat
    BY DEF Frame
  <1>2. frame.Vector_Clock + 1 > frame.Vector_Clock
    BY <1>1
  <1> QED
    BY <1>2 DEF AckFrame, BeatFrame, ReleaseFrame, NextFrame, Frame

(* So does a step of the slave, whose frames are not checked. *)
LEMMA SlaveCalls ==
    ASSUME TypeOK, NEW s \in Slave, SlaveStep(s)
    PROVE  \/ UNCHANGED vars
           \/ \E new \in Frame :
                 /\ RawWrite(s, new)
                 /\ HolderPresent(new)
                 /\ new.status \in {HANDSHAKE_ACK, LEASE_HEARTBEAT, RELEASE_SUCCESS}
  <1>1. AidOf[s] # NoAid
    BY NodesAssumption, BusManagerAssumption, ProtocolAssumption
  <1>2. ASSUME NEW frame \in Frame
        PROVE  /\ HolderPresent(AckFrame(s, frame))
               /\ HolderPresent(BeatFrame(s, frame))
               /\ HolderPresent(ReleaseFrame(frame))
    BY <1>1, <1>2, SlaveFrameFacts
       DEF HolderPresent, ActiveStates, HANDSHAKE_ACK, RELEASE_SUCCESS, LEASE_HEARTBEAT,
           SLAVE_PASSIVE, ACTIVE_CONTROL
  <1>3. Readable => busData \in Frame
    BY ReadableFrame DEF TypeOK
  <1>4. ASSUME busData \in Frame, RawWrite(s, AckFrame(s, busData))
        PROVE  \E new \in Frame :
                  /\ RawWrite(s, new)
                  /\ HolderPresent(new)
                  /\ new.status \in {HANDSHAKE_ACK, LEASE_HEARTBEAT, RELEASE_SUCCESS}
    BY <1>2, <1>4, SlaveFrameType, SlaveFrameFacts
  <1>5. ASSUME busData \in Frame, RawWrite(s, BeatFrame(s, busData))
        PROVE  \E new \in Frame :
                  /\ RawWrite(s, new)
                  /\ HolderPresent(new)
                  /\ new.status \in {HANDSHAKE_ACK, LEASE_HEARTBEAT, RELEASE_SUCCESS}
    BY <1>2, <1>5, SlaveFrameType, SlaveFrameFacts
  <1>6. ASSUME busData \in Frame, RawWrite(s, ReleaseFrame(busData))
        PROVE  \E new \in Frame :
                  /\ RawWrite(s, new)
                  /\ HolderPresent(new)
                  /\ new.status \in {HANDSHAKE_ACK, LEASE_HEARTBEAT, RELEASE_SUCCESS}
    BY <1>2, <1>6, SlaveFrameType, SlaveFrameFacts
  <1> QED
    BY <1>3, <1>4, <1>5, <1>6, SlaveWrites

-----------------------------------------------------------------------------
(* The token. *)

HoldersPresent == FramesIn({frame \in Frame : HolderPresent(frame)})

LEMMA HoldersStep == NodeTypeOK /\ HoldersPresent /\ [NodeNext]_allVars => HoldersPresent'
  <1> SUFFICES ASSUME NodeTypeOK, HoldersPresent, [NodeNext]_allVars PROVE HoldersPresent'
    OBVIOUS
  <1>1. TypeOK /\ Master \subseteq Client /\ Slave \subseteq Client
    BY NodesAssumption DEF NodeTypeOK
  <1>2. UNCHANGED vars => HoldersPresent'
    BY DEF vars, HoldersPresent, FramesIn
  <1>3. ASSUME NEW m \in Master, MasterStep(m) PROVE HoldersPresent'
    BY <1>1, <1>2, <1>3, MasterCalls, FramesBegin DEF HoldersPresent
  <1>4. ASSUME NEW s \in Slave, SlaveStep(s) PROVE HoldersPresent'
    BY <1>1, <1>2, <1>4, SlaveCalls, FramesBegin DEF HoldersPresent, RawWrite
  <1>5. ASSUME NEW n \in Client, WriteStep(n) \/ NodeCrash(n) \/ Restart(n)
        PROVE  HoldersPresent'
    BY <1>1, <1>2, <1>5, ProcessSteps, FileStepFrames DEF HoldersPresent
  <1> QED
    BY <1>2, <1>3, <1>4, <1>5 DEF NodeNext, allVars

LEMMA HoldersHold == TypeOK /\ HoldersPresent => TokenConservation
  BY ReadableFrame DEF TypeOK, HoldersPresent, FramesIn, TokenConservation

LEMMA HoldersInit == Init => HoldersPresent
  BY BusManagerAssumption DEF Init, HoldersPresent, FramesIn

(* An active root bus names the holder of its token whatever the programs, whose
   slaves check nothing, do on it: every frame a slave writes is not active or
   carries its own name. *)
THEOREM NodesConserveToken == NodeSpec => []TokenConservation
  <1>1. NodeInit => HoldersPresent
    BY HoldersInit DEF NodeInit
  <1>2. NodeTypeOK => TypeOK
    BY DEF NodeTypeOK
  <1> QED
    BY <1>1, <1>2, NodeTypesCorrect, HoldersStep, HoldersHold, PTL DEF NodeSpec

-----------------------------------------------------------------------------
(* The undisturbed session.  Its writers take turns because each of them waits
   for a status only the other one writes: the invariant says which statuses the
   bus can have at every stage of the master, before and after its own write, and
   when the slave it calls can be writing or working. *)

Writing(c) == pc[c] \in {"open", "flush", "replace"}

Writes(c, status) == Writing(c) /\ pend[c].new.status = status

(* The frame names the slave that m calls. *)
Stamped(m, frame) ==
    /\ frame.status \in {PROBE, SLAVE_PASSIVE, ACTIVE_CONTROL, LEASE_HEARTBEAT}
         => frame.Target_Aid = Target[m]
    /\ frame.status = HANDSHAKE_ACK => frame.Aid = Target[m]

(* There is one writer at most, whose temporary file nobody has touched. *)
SessionFiles(m) ==
    /\ busData \notin {Empty, Corrupt}
    /\ Readable => Stamped(m, busData)
    /\ \A c, d \in Client : Writing(c) /\ Writing(d) => c = d
    /\ \A c \in Client : Writing(c) =>
          /\ pc[c] = "flush" => fd[c] = "temp" /\ tempData[IdOf[c]] = Empty
          /\ pc[c] = "replace" => tempData[IdOf[c]] = pend[c].new
          /\ Readable => LegalStep(busData, pend[c].new)
          /\ Stamped(m, pend[c].new)

Turn(m, before, status, after) ==
    IF Writing(m) THEN BusIn(before) /\ pend[m].new.status = status ELSE BusIn(after)

Answered == {ACTIVE_CONTROL, LEASE_HEARTBEAT, RELEASE_SUCCESS}

MasterTurn(m) ==
    /\ stage[m] \notin {"reset", "down"}
    /\ stage[m] \in {"start", "create"} => ~Readable /\ ~Writing(m)
    /\ stage[m] = "probe" => IF Writing(m)
                             THEN ~Readable /\ pend[m].new.status = UNINITIALIZED
                             ELSE BusIn({UNINITIALIZED})
    /\ stage[m] = "await" => Turn(m, {UNINITIALIZED}, PROBE, {PROBE, HANDSHAKE_ACK})
    /\ stage[m] = "lock" => ~Writing(m) /\ BusIn({HANDSHAKE_ACK})
    /\ stage[m] = "command" => Turn(m, {HANDSHAKE_ACK}, SLAVE_PASSIVE, {SLAVE_PASSIVE})
    /\ stage[m] = "monitor" => Turn(m, {SLAVE_PASSIVE}, ACTIVE_CONTROL, Answered)
    /\ stage[m] = "done" => ~Writing(m) /\ BusIn(Answered)
    /\ stage[m] \in {"lock", "command", "monitor", "done"} => peer[m] = Target[m]

SlaveTurn(m, s) ==
    /\ stage[s] = "beat" => AidOf[s] = Target[m] /\ BusIn({ACTIVE_CONTROL, LEASE_HEARTBEAT})
    /\ Writing(s) =>
         /\ AidOf[s] = Target[m]
         /\ \/ stage[s] = "listen" /\ Writes(s, HANDSHAKE_ACK) /\ BusIn({PROBE})
            \/ stage[s] = "beat" /\ Writes(s, LEASE_HEARTBEAT)
            \/ /\ stage[s] = "listen" /\ Writes(s, RELEASE_SUCCESS)
               /\ BusIn({ACTIVE_CONTROL, LEASE_HEARTBEAT})

Session(m) == SessionFiles(m) /\ MasterTurn(m) /\ \A s \in Slave : SlaveTurn(m, s)

SessionInv == Undisturbed => \A m \in Master : Session(m)

(* Nothing that disturbs a session is undone. *)
LEMMA UndisturbedBefore ==
    ASSUME NodeTypeOK, [NodeNext]_allVars, Undisturbed'
    PROVE  Undisturbed
  <1> USE DEF NodeTypeOK, TypeOK
  <1>1. CASE UNCHANGED allVars
    BY <1>1 DEF allVars, vars, nodeVars, Undisturbed, Alone
  <1>2. ASSUME NEW m \in Master, MasterStep(m)
        PROVE  Undisturbed
    <2>1. crashes' = crashes /\ restarts' = restarts
      BY <1>2 DEF MasterStep, Start, Create, Reset, Probe, Await, Lock, GiveUp, Command,
                  Monitor, TryTransition, TryForceTransition, Transition, ForceTransition,
                  InitializeBus, BeginWrite, vars
    <2>2. \A n \in Client : stage[n] \in {"gaveup", "failed"} => stage'[n] \in {"gaveup", "failed"}
      <3>1. stage[m] \notin {"gaveup", "failed"}
        BY <1>2 DEF MasterStep, Start, Create, Reset, Probe, Await, Lock, GiveUp, Command,
                    Monitor, At
      <3>2. \A n \in Client \ {m} : stage'[n] = stage[n]
        BY <1>2 DEF MasterStep, Start, Create, Reset, Probe, Await, Lock, GiveUp, Command,
                    Monitor, TryTransition, TryForceTransition, GoTo
      <3> QED
        BY <3>1, <3>2
    <2> QED
      BY <2>1, <2>2 DEF Undisturbed, Alone
  <1>3. ASSUME NEW s \in Slave, SlaveStep(s)
        PROVE  Undisturbed
    <2>1. crashes' = crashes /\ restarts' = restarts
      BY <1>3 DEF SlaveStep, Execute, Ack, Beat, Release, RawWrite, BeginWrite, vars, nodeVars
    <2>2. \A n \in Client : stage[n] \in {"gaveup", "failed"} => stage'[n] = stage[n]
      BY <1>3 DEF SlaveStep, Execute, Ack, Beat, Release, At, GoTo, nodeVars
    <2> QED
      BY <2>1, <2>2 DEF Undisturbed, Alone
  <1>4. ASSUME NEW n \in Client, WriteStep(n)
        PROVE  Undisturbed
    <2>1. crashes' = crashes /\ restarts' = restarts
      BY <1>4 DEF WriteStep, Open, Flush, Replace, ReplaceFails, AppendLedger, nodeVars
    <2>2. \A d \in Client : stage[d] \in {"gaveup", "failed"} => stage'[d] \in {"gaveup", "failed"}
      BY <1>4 DEF WriteStep, GoTo, nodeVars
    <2> QED
      BY <2>1, <2>2 DEF Undisturbed, Alone
  <1>5. ASSUME NEW n \in Client, NodeCrash(n)
        PROVE  Undisturbed
    <2>1. crashes' = crashes + 1 /\ crashes \in Nat
      BY <1>5, BusManagerAssumption DEF NodeCrash, Crash
    <2> QED
      BY <2>1 DEF Undisturbed
  <1>6. ASSUME NEW n \in Client, Restart(n)
        PROVE  Undisturbed
    <2>1. restarts'[n] = restarts[n] + 1 /\ restarts[n] \in Nat
      BY <1>6, NodesAssumption DEF Restart
    <2> QED
      BY <2>1 DEF Undisturbed
  <1> QED
    BY <1>1, <1>2, <1>3, <1>4, <1>5, <1>6 DEF NodeNext

LEMMA OnlyMaster ==
    ASSUME Alone, NEW m \in Master, NEW n \in Master
    PROVE  n = m
  <1>1. IsFiniteSet(Master) /\ Cardinality(Master) = 1
    BY NodesAssumption, FS_Subset DEF Alone
  <1> QED
    BY <1>1, FS_Singleton

(* A write begins, while nobody else writes. *)
LEMMA SessionBegins ==
    ASSUME TypeOK, NEW m \in Master, SessionFiles(m),
           NEW c \in Client, NEW from, NEW new, NEW by, BeginWrite(c, from, new, by),
           \A d \in Client : ~Writing(d),
           Readable => LegalStep(busData, new),
           Stamped(m, new)
    PROVE  /\ SessionFiles(m)'
           /\ Writing(c)' /\ pend'[c].new = new
           /\ \A d \in Client \ {c} : ~Writing(d)'
           /\ busData' = busData
  BY DEF TypeOK, SessionFiles, BeginWrite, Writing, Readable

(* What a program does to others: nothing, as long as it leaves the bus alone. *)
LEMMA SlaveTurnStays ==
    ASSUME NEW m, NEW s, SlaveTurn(m, s), UNCHANGED busData, stage'[s] = stage[s],
           Writing(s)' => Writing(s) /\ pend'[s] = pend[s]
    PROVE  SlaveTurn(m, s)'
  BY DEF SlaveTurn, Writes, BusIn, Readable

LEMMA MasterTurnStays ==
    ASSUME NEW m, MasterTurn(m), UNCHANGED busData, stage'[m] = stage[m], peer'[m] = peer[m],
           Writing(m)' <=> Writing(m), pend'[m] = pend[m]
    PROVE  MasterTurn(m)'
  BY DEF MasterTurn, Turn, Writes, BusIn, Readable

LEMMA FilesStay ==
    ASSUME NEW m, SessionFiles(m), UNCHANGED vars
    PROVE  /\ SessionFiles(m)' /\ busData' = busData
           /\ \A c \in Client : Writing(c)' = Writing(c) /\ pend'[c] = pend[c]
  BY DEF vars, SessionFiles, Writing, Readable

(* m begins a write at a stage at which no slave writes. *)
LEMMA MasterWrites ==
    ASSUME NodeTypeOK, NEW m \in Master, Alone, Session(m), pc[m] = "idle",
           ~Readable \/ BusIn({UNINITIALIZED, HANDSHAKE_ACK, SLAVE_PASSIVE}),
           NEW new, \E from, by : BeginWrite(m, from, new, by),
           Readable => LegalStep(busData, new),
           Stamped(m, new),
           \A n \in Client \ {m} : stage'[n] = stage[n],
           MasterTurn(m)'
    PROVE  Session(m)'
  <1>1. m \in Client /\ TypeOK /\ \A s \in Slave : s \in Client \ {m}
    BY NodesAssumption DEF NodeTypeOK
  <1>2. \A s \in Slave : ~Writing(s)
    BY DEF Session, SlaveTurn, BusIn, UNINITIALIZED, HANDSHAKE_ACK, SLAVE_PASSIVE,
           PROBE, ACTIVE_CONTROL, LEASE_HEARTBEAT
  <1>3. \A c \in Client : ~Writing(c)
    BY <1>2, OnlyMaster, NodesAssumption DEF Writing
  <1>4. /\ SessionFiles(m)' /\ busData' = busData
        /\ \A s \in Slave : ~Writing(s)'
    BY <1>1, <1>3, SessionBegins DEF Session
  <1>5. \A s \in Slave : SlaveTurn(m, s)'
    BY <1>1, <1>4, SlaveTurnStays DEF Session
  <1> QED
    BY <1>4, <1>5 DEF Session

(* A refusal ends the program, and the session is disturbed. *)
LEMMA NotRefused ==
    ASSUME NodeTypeOK, Undisturbed', NEW c \in Client, NEW status, NEW p, NEW next,
           TryTransition(c, status, p, next)
    PROVE  Transition(c, status, p) /\ GoTo(c, next)
  BY DEF TryTransition, GoTo, Undisturbed, NodeTypeOK

LEMMA MasterSession ==
    ASSUME NodeTypeOK, Undisturbed, Undisturbed', NEW m \in Master, Session(m), MasterStep(m)
    PROVE  Session(m)'
  <1>1. m \in Client /\ TypeOK /\ Alone /\ \A s \in Slave : s \in Client \ {m}
    BY NodesAssumption DEF NodeTypeOK, Undisturbed
  <1>2. Target[m] \in Agent /\ Target[m] # Keep
    BY <1>1, BusManagerAssumption DEF Alone
  <1>3. \A next : GoTo(m, next) => stage'[m] = next /\ \A n \in Client \ {m} : stage'[n] = stage[n]
    BY <1>1 DEF GoTo, NodeTypeOK
  <1>4. SessionFiles(m) /\ MasterTurn(m) /\ \A s \in Slave : SlaveTurn(m, s)
    BY DEF Session
  <1>5. ASSUME UNCHANGED vars, \A n \in Client \ {m} : stage'[n] = stage[n], MasterTurn(m)'
        PROVE  Session(m)'
    BY <1>1, <1>4, <1>5, FilesStay, SlaveTurnStays DEF Session
  <1>6. ASSUME NEW new \in Frame, \E from, by : BeginWrite(m, from, new, by)
        PROVE  /\ Writing(m)' /\ pend'[m].new = new
               /\ busData' = busData
    BY <1>1, <1>6 DEF BeginWrite, TypeOK, Writing
  <1>7. CASE Start(m)
    <2>1. stage'[m] = "create" /\ UNCHANGED <<vars, peer>>
      BY <1>3, <1>4, <1>7 DEF Start, At, MasterTurn
    <2>2. MasterTurn(m)'
      BY <1>4, <1>7, <2>1 DEF Start, At, MasterTurn, vars, Writing, Readable
    <2> QED
      BY <1>3, <1>5, <1>7, <2>1, <2>2 DEF Start
  <1>8. CASE Create(m)
    <2>1. ~Readable /\ GoTo(m, "probe") /\ peer' = peer /\ pc[m] = "idle"
      BY <1>4, <1>8 DEF Create, At, MasterTurn
    <2> DEFINE new == [InitialFrame(IdOf[m]) EXCEPT !.Aid = AidOf[m], !.Parent_Bus = NoBus,
                                                    !.Child_Buses = {}]
    <2>2. BeginWrite(m, UNINITIALIZED, new, NoAid)
      BY <1>8, <2>1 DEF Create, InitializeBus
    <2>3. new \in Frame /\ new.status = UNINITIALIZED
      <3>1. InitialFrame(IdOf[m]) \in Frame /\ InitialFrame(IdOf[m]).status = UNINITIALIZED
        BY <1>1, InitialFrameType, BusManagerAssumption DEF InitialFrame
      <3>2. AidOf[m] \in Agent
        BY <1>1, BusManagerAssumption
      <3> QED
        BY <3>1, <3>2 DEF Frame
    <2> HIDE DEF new
    <2>4. Stamped(m, new)
      BY <2>3 DEF Stamped, UNINITIALIZED, PROBE, HANDSHAKE_ACK, SLAVE_PASSIVE,
                  ACTIVE_CONTROL, LEASE_HEARTBEAT
    <2>5. MasterTurn(m)'
      BY <1>3, <1>6, <2>1, <2>2, <2>3 DEF MasterTurn, Readable
    <2> QED
      BY <1>1, <1>3, <2>1, <2>2, <2>4, <2>5, MasterWrites
  <1>9. CASE Probe(m)
    <2> DEFINE p == [NoUpdate EXCEPT !.Aid = AidOf[m], !.Target_Aid = Target[m],
                                     !.Request = Connect, !.Token_Holder = AidOf[m]]
    <2>1. Transition(m, PROBE, p) /\ GoTo(m, "await") /\ peer' = peer
      BY <1>1, <1>9, NotRefused DEF Probe
    <2>2. p \in Updates /\ p.Target_Aid = Target[m]
      BY PayloadType DEF NoUpdate
    <2> HIDE DEF p
    <2>3. BusIn({UNINITIALIZED}) /\ pc[m] = "idle" /\ Readable
      BY <1>4, <1>9 DEF Probe, At, MasterTurn, Writing, BusIn
    <2>4. PICK new \in Frame :
               /\ \E from, by : BeginWrite(m, from, new, by)
               /\ new.status = PROBE
               /\ Readable => LegalStep(busData, new)
               /\ Readable => new.Target_Aid = Given(p.Target_Aid, busData.Target_Aid)
      BY <1>1, <2>1, <2>2, StatusType, TransitionFacts
    <2>5. Stamped(m, new)
      BY <1>2, <2>2, <2>3, <2>4 DEF Stamped, Given, PROBE, HANDSHAKE_ACK
    <2>6. MasterTurn(m)'
      BY <1>3, <1>6, <2>1, <2>3, <2>4 DEF MasterTurn, Turn, BusIn, Readable
    <2>7. BusIn({UNINITIALIZED, HANDSHAKE_ACK, SLAVE_PASSIVE})
      BY <2>3 DEF BusIn
    <2> QED
      BY <1>1, <1>3, <2>1, <2>3, <2>4, <2>5, <2>6, <2>7, MasterWrites
  <1>10. CASE Await(m)
    <2>1. UNCHANGED vars /\ pc[m] = "idle"
      BY <1>10 DEF Await, At
    <2>2. \A n \in Client \ {m} : stage'[n] = stage[n]
      BY <1>3, <1>10 DEF Await
    <2>3. MasterTurn(m)'
      <3>1. CASE AckVisible(m)
        <4>1. stage'[m] = "lock" /\ peer'[m] = busData.Aid
          BY <1>3, <1>10, <3>1 DEF Await, NodeTypeOK
        <4>2. BusIn({HANDSHAKE_ACK})' /\ ~Writing(m)'
          BY <2>1, <3>1 DEF AckVisible, BusIn, Readable, vars, Writing
        <4>3. busData.Aid = Target[m]
          BY <1>4, <3>1 DEF SessionFiles, Stamped, AckVisible
        <4> QED
          BY <4>1, <4>2, <4>3 DEF MasterTurn
      <3>2. CASE ~AckVisible(m)
        BY <1>4, <1>10, <3>2, MasterTurnStays DEF Await, vars, Writing
      <3> QED
        BY <3>1, <3>2
    <2> QED
      BY <1>5, <2>1, <2>2, <2>3
  <1>11. CASE Lock(m)
    <2> DEFINE p == [NoUpdate EXCEPT !.Target_Aid = peer[m], !.Token_Holder = AidOf[m]]
    <2>1. Transition(m, SLAVE_PASSIVE, p) /\ GoTo(m, "command") /\ peer' = peer
      BY <1>1, <1>11, NotRefused DEF Lock
    <2>2. p \in Updates /\ p.Target_Aid = peer[m]
      BY PayloadType DEF NoUpdate
    <2> HIDE DEF p
    <2>3. BusIn({HANDSHAKE_ACK}) /\ pc[m] = "idle" /\ Readable /\ peer[m] = Target[m]
      BY <1>4, <1>11 DEF Lock, At, MasterTurn, BusIn
    <2>4. PICK new \in Frame :
               /\ \E from, by : BeginWrite(m, from, new, by)
               /\ new.status = SLAVE_PASSIVE
               /\ Readable => LegalStep(busData, new)
               /\ Readable => new.Target_Aid = Given(p.Target_Aid, busData.Target_Aid)
      BY <1>1, <2>1, <2>2, StatusType, TransitionFacts
    <2>5. Stamped(m, new)
      BY <1>2, <2>2, <2>3, <2>4 DEF Stamped, Given, SLAVE_PASSIVE, HANDSHAKE_ACK
    <2>6. MasterTurn(m)'
      BY <1>3, <1>6, <2>1, <2>3, <2>4 DEF MasterTurn, Turn, BusIn, Readable
    <2>7. BusIn({UNINITIALIZED, HANDSHAKE_ACK, SLAVE_PASSIVE})
      BY <2>3 DEF BusIn
    <2> QED
      BY <1>1, <1>3, <2>1, <2>3, <2>4, <2>5, <2>6, <2>7, MasterWrites
  <1>12. CASE Command(m)
    <2> DEFINE p == [NoUpdate EXCEPT !.Request = Task, !.Token_Holder = AidOf[m]]
    <2>1. Transition(m, ACTIVE_CONTROL, p) /\ GoTo(m, "monitor") /\ peer' = peer
      BY <1>1, <1>12, NotRefused DEF Command
    <2>2. p \in Updates /\ p.Target_Aid = Keep
      BY PayloadType DEF NoUpdate
    <2> HIDE DEF p
    <2>3. /\ BusIn({SLAVE_PASSIVE}) /\ pc[m] = "idle" /\ Readable
          /\ peer[m] = Target[m] /\ busData.Target_Aid = Target[m]
      BY <1>4, <1>12 DEF Command, At, MasterTurn, Turn, Writing, BusIn, SessionFiles, Stamped
    <2>4. PICK new \in Frame :
               /\ \E from, by : BeginWrite(m, from, new, by)
               /\ new.status = ACTIVE_CONTROL
               /\ Readable => LegalStep(busData, new)
               /\ Readable => new.Target_Aid = Given(p.Target_Aid, busData.Target_Aid)
      BY <1>1, <2>1, <2>2, StatusType, TransitionFacts
    <2>5. Stamped(m, new)
      BY <1>2, <2>2, <2>3, <2>4 DEF Stamped, Given, ACTIVE_CONTROL, HANDSHAKE_ACK
    <2>6. MasterTurn(m)'
      BY <1>3, <1>6, <2>1, <2>3, <2>4 DEF MasterTurn, Turn, BusIn, Readable
    <2>7. BusIn({UNINITIALIZED, HANDSHAKE_ACK, SLAVE_PASSIVE})
      BY <2>3 DEF BusIn
    <2> QED
      BY <1>1, <1>3, <2>1, <2>3, <2>4, <2>5, <2>6, <2>7, MasterWrites
  <1>13. CASE Monitor(m)
    <2>1. UNCHANGED vars /\ peer' = peer /\ pc[m] = "idle" /\ stage[m] = "monitor"
      BY <1>13 DEF Monitor, At
    <2>2. stage'[m] \in {"monitor", "done"} /\ \A n \in Client \ {m} : stage'[n] = stage[n]
      BY <1>3, <1>13, <2>1 DEF Monitor
    <2>3. MasterTurn(m)'
      BY <1>4, <2>1, <2>2 DEF MasterTurn, Turn, vars, Writing, BusIn, Readable
    <2> QED
      BY <1>5, <2>1, <2>2, <2>3
  <1>14. ~Reset(m)
    BY <1>4 DEF MasterTurn, Reset, At
  <1>15. ~GiveUp(m)
    BY <1>1, <1>3 DEF GiveUp, TryForceTransition, Undisturbed
  <1> QED
    BY <1>7, <1>8, <1>9, <1>10, <1>11, <1>12, <1>13, <1>14, <1>15 DEF MasterStep

(* What the status of the bus says of the master. *)
LEMMA MasterWaits ==
    ASSUME NodeTypeOK, Undisturbed, NEW m \in Master, MasterTurn(m)
    PROVE  /\ BusIn({PROBE}) => stage[m] = "await" /\ ~Writing(m)
           /\ BusIn({ACTIVE_CONTROL, LEASE_HEARTBEAT})
                => stage[m] \in {"monitor", "done"} /\ ~Writing(m)
  <1>1. m \in Client /\ stage[m] \in MasterStage \ {"reset", "gaveup"}
    BY NodesAssumption
       DEF NodeTypeOK, Undisturbed, MasterTurn, MasterStage, SlaveStage, Stopped
  <1>2. stage[m] \in {"start", "create", "probe", "await", "lock", "command", "monitor", "done"}
    BY <1>1 DEF MasterStage
  <1> QED
    BY <1>2 DEF MasterTurn, Turn, BusIn, Answered, UNINITIALIZED, PROBE, HANDSHAKE_ACK,
                SLAVE_PASSIVE, ACTIVE_CONTROL, LEASE_HEARTBEAT, RELEASE_SUCCESS

(* The slave writes, and nobody else does. *)
LEMMA SlaveWritesSession ==
    ASSUME NodeTypeOK, Undisturbed, NEW m \in Master, Session(m),
           NEW s \in Slave, pc[s] = "idle", AidOf[s] = Target[m],
           BusIn({PROBE}) \/ BusIn({ACTIVE_CONTROL, LEASE_HEARTBEAT}),
           NEW new, RawWrite(s, new),
           LegalStep(busData, new),
           Stamped(m, new),
           \A n \in Client \ {s} : stage'[n] = stage[n],
           peer' = peer,
           SlaveTurn(m, s)'
    PROVE  Session(m)'
  <1>1. s \in Client /\ s # m /\ m \in Client /\ TypeOK
    BY NodesAssumption DEF NodeTypeOK
  <1>2. \A d \in Client : ~Writing(d)
    <2>1. ASSUME NEW d \in Slave, Writing(d) PROVE FALSE
      <3>1. d = s
        BY <1>1, <2>1, NodesAssumption DEF Session, SlaveTurn, Undisturbed, Alone
      <3> QED
        BY <2>1, <3>1 DEF Writing
    <2>2. ~Writing(m) /\ \A d \in Master : d = m
      BY MasterWaits, OnlyMaster DEF Session, Undisturbed
    <2> QED
      BY <2>1, <2>2, NodesAssumption
  <1>3. /\ SessionFiles(m)' /\ busData' = busData
        /\ \A d \in Client \ {s} : ~Writing(d)'
    BY <1>1, <1>2, SessionBegins DEF Session, RawWrite
  <1>4. pend'[m] = pend[m]
    BY <1>1 DEF RawWrite, BeginWrite, TypeOK
  <1>5. MasterTurn(m)'
    BY <1>1, <1>2, <1>3, <1>4, MasterTurnStays DEF Session
  <1>6. \A d \in Slave \ {s} : SlaveTurn(m, d)'
    BY <1>3, NodesAssumption, SlaveTurnStays DEF Session
  <1> QED
    BY <1>3, <1>5, <1>6 DEF Session

LEMMA SlaveSession ==
    ASSUME NodeTypeOK, Undisturbed, NEW m \in Master, Session(m),
           NEW s \in Slave, SlaveStep(s)
    PROVE  Session(m)'
  <1>1. s \in Client /\ s # m /\ m \in Client /\ TypeOK /\ Alone
    BY NodesAssumption DEF NodeTypeOK, Undisturbed
  <1>2. Target[m] \in Agent /\ Target[m] # AnyAid
    BY <1>1, ProtocolAssumption DEF Alone
  <1>3. \A next : GoTo(s, next) => stage'[s] = next /\ \A n \in Client \ {s} : stage'[n] = stage[n]
    BY <1>1 DEF GoTo, NodeTypeOK
  <1>4. SessionFiles(m) /\ MasterTurn(m) /\ \A d \in Slave : SlaveTurn(m, d)
    BY DEF Session
  <1>5. /\ Readable => busData \in Frame
        /\ Addressed(s) /\ busData.status \in {PROBE, ACTIVE_CONTROL} => AidOf[s] = Target[m]
    BY <1>1, <1>2, <1>4, ReadableFrame DEF TypeOK, Addressed, SessionFiles, Stamped
  <1>6. ASSUME NEW new, RawWrite(s, new)
        PROVE  Writing(s)' /\ pend'[s].new = new /\ busData' = busData
    BY <1>1, <1>6 DEF RawWrite, BeginWrite, TypeOK, Writing
  <1>7. CASE Ack(s)
    <2>1. /\ RawWrite(s, AckFrame(s, busData)) /\ busData \in Frame /\ BusIn({PROBE})
          /\ AidOf[s] = Target[m] /\ pc[s] = "idle" /\ stage[s] = "listen"
          /\ UNCHANGED <<stage, peer>>
      BY <1>5, <1>7 DEF Ack, At, Addressed, AckFrame, BusIn, nodeVars
    <2>2. LegalStep(busData, AckFrame(s, busData)) /\ Stamped(m, AckFrame(s, busData))
      BY <2>1, SlaveFrameFacts
         DEF LegalStep, Stamped, ValidateTransition, ValidTransitions, BusIn, PROBE,
             HANDSHAKE_ACK, SLAVE_PASSIVE, ACTIVE_CONTROL, LEASE_HEARTBEAT
    <2>3. SlaveTurn(m, s)'
      BY <1>6, <2>1, SlaveFrameFacts DEF SlaveTurn, Writes, BusIn, Readable
    <2> QED
      BY <1>6, <2>1, <2>2, <2>3, SlaveWritesSession
  <1>8. CASE Execute(s)
    <2>1. /\ UNCHANGED <<vars, peer>> /\ AidOf[s] = Target[m] /\ BusIn({ACTIVE_CONTROL, LEASE_HEARTBEAT})
          /\ pc[s] = "idle" /\ GoTo(s, "beat")
      BY <1>5, <1>8 DEF Execute, At, Addressed, BusIn
    <2>2. SlaveTurn(m, s)'
      BY <1>3, <2>1 DEF SlaveTurn, BusIn, Readable, Writing, vars
    <2>3. \A d \in Slave \ {s} : SlaveTurn(m, d)'
      BY <1>3, <1>4, <2>1, FilesStay, SlaveTurnStays, NodesAssumption
    <2>4. MasterTurn(m)'
      BY <1>1, <1>3, <1>4, <2>1, FilesStay, MasterTurnStays
    <2> QED
      BY <1>4, <2>1, <2>2, <2>3, <2>4, FilesStay DEF Session
  <1>9. CASE Beat(s)
    <2>1. /\ RawWrite(s, BeatFrame(s, busData)) /\ busData \in Frame
          /\ BusIn({ACTIVE_CONTROL, LEASE_HEARTBEAT})
          /\ AidOf[s] = Target[m] /\ pc[s] = "idle" /\ stage[s] = "beat"
          /\ UNCHANGED <<stage, peer>>
      BY <1>4, <1>5, <1>9 DEF Beat, At, BeatFrame, BusIn, SlaveTurn
    <2>2. LegalStep(busData, BeatFrame(s, busData)) /\ Stamped(m, BeatFrame(s, busData))
      BY <1>4, <2>1, SlaveFrameFacts
         DEF LegalStep, Stamped, ValidateTransition, ValidTransitions, BusIn, SessionFiles, PROBE,
             HANDSHAKE_ACK, SLAVE_PASSIVE, ACTIVE_CONTROL, LEASE_HEARTBEAT
    <2>3. SlaveTurn(m, s)'
      BY <1>6, <2>1, SlaveFrameFacts DEF SlaveTurn, Writes, BusIn, Readable
    <2> QED
      BY <1>6, <2>1, <2>2, <2>3, SlaveWritesSession
  <1>10. CASE Release(s)
    <2>1. /\ RawWrite(s, ReleaseFrame(busData)) /\ busData \in Frame
          /\ BusIn({ACTIVE_CONTROL, LEASE_HEARTBEAT})
          /\ AidOf[s] = Target[m] /\ pc[s] = "idle"
          /\ GoTo(s, "listen") /\ peer' = peer
      BY <1>4, <1>5, <1>10 DEF Release, At, ReleaseFrame, BusIn, SlaveTurn
    <2>2. LegalStep(busData, ReleaseFrame(busData)) /\ Stamped(m, ReleaseFrame(busData))
      BY <2>1, SlaveFrameFacts
         DEF LegalStep, Stamped, ValidateTransition, ValidTransitions, BusIn, PROBE,
             HANDSHAKE_ACK, SLAVE_PASSIVE, ACTIVE_CONTROL, LEASE_HEARTBEAT, RELEASE_SUCCESS
    <2>3. SlaveTurn(m, s)'
      BY <1>3, <1>6, <2>1, SlaveFrameFacts DEF SlaveTurn, Writes, BusIn, Readable
    <2> QED
      BY <1>3, <1>6, <2>1, <2>2, <2>3, SlaveWritesSession
  <1> QED
    BY <1>7, <1>8, <1>9, <1>10 DEF SlaveStep

(* The steps of a write.  What is written follows the bus as it is. *)
LEMMA WriteSession ==
    ASSUME NodeTypeOK, Undisturbed, Undisturbed', NEW m \in Master, Session(m),
           NEW n \in Client, WriteStep(n)
    PROVE  Session(m)'
  <1>1. m \in Client /\ TypeOK /\ Alone /\ \A s \in Slave : s \in Client
    BY NodesAssumption DEF NodeTypeOK, Undisturbed
  <1>2. SessionFiles(m) /\ MasterTurn(m) /\ \A s \in Slave : SlaveTurn(m, s)
    BY DEF Session
  <1>3. (Open(n) \/ Flush(n) \/ Replace(n) \/ AppendLedger(n)) /\ UNCHANGED nodeVars
    BY DEF WriteStep, GoTo, Undisturbed, NodeTypeOK
  <1>4. ASSUME busData' = busData,
               \A d \in Client : Writing(d)' = Writing(d) /\ (Writing(d) => pend'[d] = pend[d])
        PROVE  MasterTurn(m)' /\ \A s \in Slave : SlaveTurn(m, s)'
    BY <1>1, <1>2, <1>3, <1>4
       DEF MasterTurn, SlaveTurn, Turn, Writes, BusIn, Readable, nodeVars
  <1>5. IdOf[n] \in BusId
    BY BusManagerAssumption
  <1>6. CASE Open(n)
    <2>1. Writing(n) /\ busData' = busData /\ pend' = pend /\ \A d \in Client : Writing(d)' = Writing(d)
      BY <1>1, <1>6 DEF Open, Writing, TypeOK
    <2>2. pc'[n] = "flush" /\ fd'[n] = "temp" /\ tempData'[IdOf[n]] = Empty
      BY <1>1, <1>5, <1>6 DEF Open, TypeOK
    <2>3. SessionFiles(m)'
      BY <1>1, <1>2, <2>1, <2>2 DEF SessionFiles, Readable
    <2> QED
      BY <1>4, <2>1, <2>3 DEF Session
  <1>7. CASE Flush(n)
    <2>1. Writing(n) /\ fd[n] = "temp" /\ tempData[IdOf[n]] = Empty
      BY <1>1, <1>2, <1>7 DEF Flush, Writing, SessionFiles
    <2>2. tempData' = [tempData EXCEPT ![IdOf[n]] = pend[n].new] /\ busData' = busData
      BY <1>7, <2>1 DEF Flush, Overwritten
    <2>3. pend' = pend /\ pc'[n] = "replace" /\ \A d \in Client : Writing(d)' = Writing(d)
      BY <1>1, <1>7 DEF Flush, Writing, TypeOK
    <2>4. tempData'[IdOf[n]] = pend'[n].new
      BY <1>1, <1>5, <2>2, <2>3 DEF TypeOK
    <2>5. SessionFiles(m)'
      BY <1>1, <1>2, <2>1, <2>2, <2>3, <2>4 DEF SessionFiles, Readable
    <2> QED
      BY <1>4, <2>2, <2>3, <2>5 DEF Session
  <1>8. CASE Replace(n)
    <2>1. Writing(n) /\ busData' = pend[n].new /\ pend[n].new \in Frame
      <3>1. Writing(n) /\ pc[n] = "replace" /\ busData' = tempData[IdOf[n]]
        BY <1>8 DEF Replace, Writing
      <3>2. pend[n].new \in Frame
        BY <1>1, <3>1 DEF TypeOK, Write
      <3>3. tempData[IdOf[n]] = pend[n].new
        BY <1>2, <3>1 DEF SessionFiles
      <3> QED
        BY <3>1, <3>2, <3>3
    <2>2. \A d \in Client : ~Writing(d)'
      BY <1>1, <1>2, <1>8, <2>1 DEF Replace, Return, Writing, SessionFiles, TypeOK
    <2>3. Readable' /\ busData' \notin {Empty, Corrupt}
      BY <2>1, BusManagerAssumption DEF Readable
    <2>4. SessionFiles(m)'
      BY <1>2, <2>1, <2>2, <2>3 DEF SessionFiles, Stamped
    <2>5. UNCHANGED <<stage, peer>>
      BY <1>3 DEF nodeVars
    <2>6. CASE n = m
      <3>1. \A s \in Slave : stage[s] # "beat"
        BY <1>2, <2>1, <2>6, MasterWaits DEF SlaveTurn
      <3>2. MasterTurn(m)'
        BY <1>2, <2>1, <2>2, <2>3, <2>5, <2>6
           DEF MasterTurn, Turn, BusIn, Answered
      <3>3. \A s \in Slave : SlaveTurn(m, s)'
        BY <1>1, <2>2, <2>5, <3>1 DEF SlaveTurn
      <3> QED
        BY <2>4, <3>2, <3>3 DEF Session
    <2>7. CASE n \in Slave
      <3>1. AidOf[n] = Target[m] /\ \A s \in Slave : stage[s] = "beat" => s = n
        BY <1>1, <1>2, <2>1, <2>7 DEF SlaveTurn, Alone
      <3>2. CASE stage[n] = "listen" /\ Writes(n, HANDSHAKE_ACK) /\ BusIn({PROBE})
        <4>1. stage[m] = "await" /\ BusIn({HANDSHAKE_ACK})'
          BY <1>2, <2>1, <2>3, <3>2, MasterWaits DEF Writes, BusIn
        <4>2. BusIn({PROBE, HANDSHAKE_ACK})'
          BY <4>1 DEF BusIn
        <4>3. MasterTurn(m)'
          BY <1>1, <2>2, <2>5, <4>1, <4>2 DEF MasterTurn, Turn
        <4>4. \A s \in Slave : SlaveTurn(m, s)'
          BY <1>1, <2>2, <2>5, <3>1, <3>2 DEF SlaveTurn
        <4> QED
          BY <2>4, <4>3, <4>4 DEF Session
      <3>3. CASE stage[n] = "beat" /\ Writes(n, LEASE_HEARTBEAT)
        <4>1. stage[m] \in {"monitor", "done"} /\ BusIn({LEASE_HEARTBEAT})' /\ peer[m] = Target[m]
          BY <1>2, <2>1, <2>3, <2>7, <3>3, MasterWaits DEF Writes, BusIn, SlaveTurn, MasterTurn
        <4>2. BusIn(Answered)' /\ BusIn({ACTIVE_CONTROL, LEASE_HEARTBEAT})'
          BY <4>1 DEF BusIn, Answered
        <4>3. MasterTurn(m)'
          BY <1>1, <2>2, <2>5, <4>1, <4>2 DEF MasterTurn, Turn
        <4>4. \A s \in Slave : SlaveTurn(m, s)'
          BY <1>1, <2>2, <2>5, <3>1, <4>2 DEF SlaveTurn
        <4> QED
          BY <2>4, <4>3, <4>4 DEF Session
      <3>4. CASE /\ stage[n] = "listen" /\ Writes(n, RELEASE_SUCCESS)
                 /\ BusIn({ACTIVE_CONTROL, LEASE_HEARTBEAT})
        <4>1. stage[m] \in {"monitor", "done"} /\ BusIn({RELEASE_SUCCESS})' /\ peer[m] = Target[m]
          BY <1>2, <2>1, <2>3, <3>4, MasterWaits DEF Writes, BusIn, MasterTurn
        <4>2. BusIn(Answered)'
          BY <4>1 DEF BusIn, Answered
        <4>3. MasterTurn(m)'
          BY <1>1, <2>2, <2>5, <4>1, <4>2 DEF MasterTurn, Turn
        <4>4. \A s \in Slave : SlaveTurn(m, s)'
          BY <1>1, <2>2, <2>5, <3>1, <3>4 DEF SlaveTurn
        <4> QED
          BY <2>4, <4>3, <4>4 DEF Session
      <3> QED
        BY <1>2, <2>1, <2>7, <3>2, <3>3, <3>4 DEF SlaveTurn
    <2> QED
      BY <1>1, <2>6, <2>7, OnlyMaster, NodesAssumption
  <1>9. CASE AppendLedger(n)
    <2>1. ~Writing(n) /\ UNCHANGED <<busData, tempData, fd>>
      BY <1>9 DEF AppendLedger, Writing
    <2>2. \A d \in Client : /\ Writing(d)' = Writing(d)
                            /\ Writing(d) => pend'[d] = pend[d] /\ pc'[d] = pc[d]
      BY <1>1, <1>9 DEF AppendLedger, Return, Writing, TypeOK
    <2>3. SessionFiles(m)'
      BY <1>2, <2>1, <2>2 DEF SessionFiles, Readable
    <2> QED
      BY <1>4, <2>1, <2>2, <2>3 DEF Session
  <1> QED
    BY <1>3, <1>6, <1>7, <1>8, <1>9

LEMMA SessionStep == NodeTypeOK /\ SessionInv /\ [NodeNext]_allVars => SessionInv'
  <1> SUFFICES ASSUME NodeTypeOK, SessionInv, [NodeNext]_allVars, Undisturbed', NEW m \in Master
               PROVE  Session(m)'
    BY DEF SessionInv
  <1>1. Undisturbed /\ Session(m)
    BY UndisturbedBefore DEF SessionInv
  <1>2. ASSUME NEW n \in Master, MasterStep(n)
        PROVE  Session(m)'
    BY <1>1, <1>2, OnlyMaster, MasterSession DEF Undisturbed
  <1>3. ASSUME NEW n \in Client, NodeCrash(n) \/ Restart(n)
        PROVE  FALSE
    BY <1>1, <1>3, NodesAssumption
       DEF NodeCrash, Crash, Restart, Undisturbed, NodeTypeOK, TypeOK
  <1>4. CASE UNCHANGED allVars
    <2>1. UNCHANGED <<vars, stage, peer>>
      BY <1>4 DEF allVars, nodeVars
    <2>2. SessionFiles(m)' /\ MasterTurn(m)'
      BY <1>1, <2>1, FilesStay, MasterTurnStays, NodesAssumption DEF Session
    <2>3. \A s \in Slave : SlaveTurn(m, s)'
      BY <1>1, <2>1, FilesStay, SlaveTurnStays, NodesAssumption DEF Session
    <2> QED
      BY <2>2, <2>3 DEF Session
  <1> QED
    BY <1>1, <1>2, <1>3, <1>4, SlaveSession, WriteSession DEF NodeNext

LEMMA SessionInit == NodeInit => SessionInv
  <1> SUFFICES ASSUME NodeInit, NEW m \in Master
               PROVE  Session(m)
    BY DEF SessionInv
  <1>1. busData = Absent /\ ~Readable /\ busData \notin {Empty, Corrupt}
    BY BusManagerAssumption DEF NodeInit, Init, Readable
  <1>2. \A c \in Client : ~Writing(c) /\ stage[c] = First(c)
    BY DEF NodeInit, Init, Writing
  <1>3. stage[m] = "start" /\ \A s \in Slave : stage[s] = "listen"
    BY <1>2, NodesAssumption DEF First
  <1> QED
    BY <1>1, <1>2, <1>3, NodesAssumption DEF Session, SessionFiles, MasterTurn, SlaveTurn

LEMMA SessionCorrect == NodeSpec => [](NodeTypeOK /\ SessionInv)
  <1>1. NodeInit => SessionInv
    BY SessionInit
  <1> QED
    BY <1>1, SessionStep, NodeTypesCorrect, PTL DEF NodeSpec

(* Without any lock, and with one temporary file for all, the writers of an
   undisturbed session keep apart, and nobody reads a torn frame in it: for any
   number of slaves that listen, and any numbers of polls and heartbeats. *)
THEOREM WritersKeepApart == NodeSpec => []WritersAlternate
  <1>1. NodeTypeOK /\ SessionInv => WritersAlternate
    <2> SUFFICES ASSUME SessionInv, Undisturbed
                 PROVE  /\ \A c, d \in Client :
                               {pc[c], pc[d]} \subseteq {"open", "flush", "replace"} => c = d
                        /\ busData \notin {Empty, Corrupt}
      BY DEF WritersAlternate
    <2>1. PICK m \in Master : TRUE
      BY NodesAssumption, FS_Subset, FS_Singleton DEF Undisturbed, Alone
    <2>2. SessionFiles(m)
      BY <2>1 DEF SessionInv, Session
    <2> QED
      BY <2>2 DEF SessionFiles, Writing
  <1> QED
    BY <1>1, SessionCorrect, PTL

(* The slave that works is the one the master has locked. *)
THEOREM SlavesWorkForMaster == NodeSpec => []ExecutesForMaster
  <1>1. NodeTypeOK /\ SessionInv => ExecutesForMaster
    <2> SUFFICES ASSUME NodeTypeOK, SessionInv, Undisturbed, NEW s \in Slave, stage[s] = "beat"
                 PROVE  /\ \A t \in Slave : stage[t] = "beat" => t = s
                        /\ \E m \in Master : stage[m] \in {"monitor", "done"} /\ peer[m] = AidOf[s]
      BY DEF ExecutesForMaster
    <2>1. PICK m \in Master : TRUE
      BY NodesAssumption, FS_Subset, FS_Singleton DEF Undisturbed, Alone
    <2>2. MasterTurn(m) /\ \A t \in Slave : SlaveTurn(m, t)
      BY <2>1 DEF SessionInv, Session
    <2>3. \A t \in Slave : stage[t] = "beat" => t = s
      BY <2>2, NodesAssumption DEF SlaveTurn, Undisturbed, Alone
    <2>4. stage[m] \in {"monitor", "done"}
      BY <2>2, MasterWaits DEF SlaveTurn
    <2>5. peer[m] = AidOf[s]
      BY <2>2, <2>4 DEF MasterTurn, SlaveTurn
    <2> QED
      BY <2>3, <2>4, <2>5
  <1> QED
    BY <1>1, SessionCorrect, PTL

(* Every frame that replaces another in such a session follows the connection
   graph and moves the clock on, the unchecked ones of the slave included. *)
THEOREM SessionsLegal == NodeSpec => SessionLegal
  <1>1. NodeTypeOK /\ SessionInv /\ [NodeNext]_allVars
            => [Undisturbed /\ Readable /\ Readable' /\ busData' # busData
                    => LegalStep(busData, busData')]_allVars
    <2> SUFFICES ASSUME NodeTypeOK, SessionInv, [NodeNext]_allVars, Undisturbed, Readable,
                        busData' # busData
                 PROVE  LegalStep(busData, busData')
      OBVIOUS
    <2>1. PICK m \in Master : SessionFiles(m)
      BY NodesAssumption, FS_Subset, FS_Singleton DEF Undisturbed, Alone, SessionInv, Session
    <2>2. PICK n \in Client : Replace(n)
      <3>1. ASSUME NEW n \in Client, Flush(n) PROVE FALSE
        <4>1. fd[n] = "temp"
          BY <2>1, <3>1 DEF SessionFiles, Flush, Writing
        <4> QED
          BY <3>1, <4>1 DEF Flush
      <3>2. ASSUME NEW n \in Client, Open(n) \/ ReplaceFails(n) \/ AppendLedger(n) \/ Crash(n)
            PROVE  FALSE
        BY <3>2 DEF Open, ReplaceFails, AppendLedger, Crash
      <3>3. ASSUME NEW m1 \in Master, MasterStep(m1) PROVE FALSE
        BY <3>3 DEF MasterStep, Start, Create, Reset, Probe, Await, Lock, GiveUp, Command,
                    Monitor, TryTransition, TryForceTransition, Transition, ForceTransition,
                    InitializeBus, BeginWrite, vars
      <3>4. ASSUME NEW s \in Slave, SlaveStep(s) PROVE FALSE
        BY <3>4 DEF SlaveStep, Execute, Ack, Beat, Release, RawWrite, BeginWrite, vars, nodeVars
      <3> QED
        BY <3>1, <3>2, <3>3, <3>4, ProcessSteps DEF NodeNext, Continue, allVars, vars
    <2>3. busData' = tempData[IdOf[n]] /\ pc[n] = "replace"
      BY <2>2 DEF Replace
    <2> QED
      BY <2>1, <2>3 DEF SessionFiles, Writing
  <1> QED
    BY <1>1, SessionCorrect, PTL DEF NodeSpec, SessionLegal

-----------------------------------------------------------------------------
(* Executions.  A 102 frame that nobody has executed yet is in the hands of its
   writer, in a temporary file, or on the bus while the slave it names is free
   for it.  These places never hold more than the commands given, and the
   restarts of slaves, have not been spent on executions.  A slave that works,
   writes or is down is not free: it leaves that state with a rename, which takes
   the 102 off the bus, or is started again. *)

(* A frame that commands a slave addresses one. *)
Addressing(frame) ==
    frame.status \in {SLAVE_PASSIVE, ACTIVE_CONTROL} => frame.Target_Aid # AnyAid

AddressInv ==
    /\ FramesIn({frame \in Frame : Addressing(frame)})
    /\ \A s \in Slave : pend[s] # NoWrite => pend[s].by = NoAid

LEMMA AddressMaster ==
    ASSUME NodeTypeOK, AddressInv, NEW m \in Master, MasterStep(m)
    PROVE  AddressInv'
  <1>1. m \in Client /\ m \notin Slave /\ TypeOK
    BY NodesAssumption DEF NodeTypeOK
  <1>2. UNCHANGED vars => AddressInv'
    BY DEF vars, AddressInv, FramesIn
  <1>3. ASSUME NEW new \in Frame, NEW from, NEW by, BeginWrite(m, from, new, by), Addressing(new)
        PROVE  AddressInv'
    <2>1. FramesIn({frame \in Frame : Addressing(frame)})'
      BY <1>1, <1>3, FramesBegin DEF AddressInv
    <2>2. \A s \in Slave : pend'[s] # NoWrite => pend'[s].by = NoAid
      BY <1>1, <1>3, NodesAssumption DEF BeginWrite, AddressInv, TypeOK
    <2> QED
      BY <2>1, <2>2 DEF AddressInv
  <1>4. peer[m] # AnyAid
    BY ProtocolAssumption DEF NodeTypeOK
  <1>5. Readable => Addressing(busData)
    BY <1>1, ReadableFrame DEF TypeOK, AddressInv, FramesIn
  <1>6. \A new \in Frame : new.status \in {UNINITIALIZED, PROBE} => Addressing(new)
    BY DEF Addressing, UNINITIALIZED, PROBE, SLAVE_PASSIVE, ACTIVE_CONTROL
  <1> QED
    BY <1>2, <1>3, <1>4, <1>5, <1>6, MasterCalls DEF Addressing

LEMMA AddressSlave ==
    ASSUME TypeOK, AddressInv, NEW s \in Slave, SlaveStep(s)
    PROVE  AddressInv'
  <1>1. s \in Client
    BY NodesAssumption
  <1>2. UNCHANGED vars => AddressInv'
    BY DEF vars, AddressInv, FramesIn
  <1>3. ASSUME NEW new \in Frame, RawWrite(s, new),
               new.status \in {HANDSHAKE_ACK, LEASE_HEARTBEAT, RELEASE_SUCCESS}
        PROVE  AddressInv'
    <2>1. Addressing(new)
      BY <1>3 DEF Addressing, HANDSHAKE_ACK, LEASE_HEARTBEAT, RELEASE_SUCCESS, SLAVE_PASSIVE,
                  ACTIVE_CONTROL
    <2>2. FramesIn({frame \in Frame : Addressing(frame)})'
      BY <1>1, <1>3, <2>1, FramesBegin DEF AddressInv, RawWrite
    <2>3. \A d \in Slave : pend'[d] # NoWrite => pend'[d].by = NoAid
      BY <1>1, <1>3, NodesAssumption DEF RawWrite, BeginWrite, AddressInv, TypeOK
    <2> QED
      BY <2>2, <2>3 DEF AddressInv
  <1> QED
    BY <1>2, <1>3, SlaveCalls

LEMMA AddressFile ==
    ASSUME TypeOK, AddressInv, NEW n \in Client, Continue(n) \/ Crash(n) \/ UNCHANGED vars
    PROVE  AddressInv'
  <1>1. CASE UNCHANGED vars
    BY <1>1 DEF vars, AddressInv, FramesIn
  <1>2. CASE Continue(n) \/ Crash(n)
    <2>1. FramesIn({frame \in Frame : Addressing(frame)})'
      BY <1>2, FileStepFrames DEF AddressInv
    <2>2. \A d \in Client : pend'[d] \in {pend[d], NoWrite}
      BY <1>2 DEF Continue, Open, Flush, Replace, ReplaceFails, AppendLedger, Crash, Return, TypeOK
    <2> QED
      BY <2>1, <2>2, NodesAssumption DEF AddressInv
  <1> QED
    BY <1>1, <1>2

LEMMA AddressInit == Init => AddressInv
  BY BusManagerAssumption, NodesAssumption DEF Init, AddressInv, FramesIn

-----------------------------------------------------------------------------
(* The places of the commands. *)

Commanding(x) == x \in Frame /\ x.status = ACTIVE_CONTROL

Hands == {c \in Client : pc[c] \in {"open", "flush"} /\ pend[c].new.status = ACTIVE_CONTROL}

TempIds == {IdOf[c] : c \in Client}

Temps == {i \in TempIds : Commanding(tempData[i])}

Engaged(s) == stage[s] \in {"beat", "failed", "down"} \/ pc[s] # "idle"

Waits == Commanding(busData) /\ \E s \in Slave : AidOf[s] = busData.Target_Aid /\ ~Engaged(s)

Waiting == Cardinality(Hands) + Cardinality(Temps) + IF Waits THEN 1 ELSE 0

Starts == {start \in Slave \X (1..MaxRestarts) : start[2] <= restarts[start[1]]}

Spent == Waiting + executions <= commands + Cardinality(Starts)

LEMMA PlacesFinite ==
    /\ IsFiniteSet(Hands) /\ Cardinality(Hands) \in Nat
    /\ IsFiniteSet(Temps) /\ Cardinality(Temps) \in Nat
    /\ IsFiniteSet(Starts) /\ Cardinality(Starts) \in Nat
  <1>1. IsFiniteSet(Hands)
    BY NodesAssumption, FS_Subset DEF Hands
  <1>2. IsFiniteSet(TempIds)
    <2>1. [c \in Client |-> IdOf[c]] \in Surjection(Client, TempIds)
      BY DEF Surjection, TempIds
    <2> QED
      BY <2>1, NodesAssumption, FS_Surjection
  <1>3. IsFiniteSet(Temps)
    BY <1>2, FS_Subset DEF Temps
  <1>4. IsFiniteSet(Slave \X (1..MaxRestarts))
    <2>1. MaxRestarts \in Nat /\ IsFiniteSet(Slave)
      BY NodesAssumption, FS_Subset
    <2>2. IsFiniteSet(1..MaxRestarts)
      BY <2>1, FS_Interval
    <2> QED
      BY <2>1, <2>2, FS_Product
  <1>5. IsFiniteSet(Starts)
    BY <1>4, FS_Subset DEF Starts
  <1> QED
    BY <1>1, <1>3, <1>5, FS_CardinalityType

(* A call adds the frame it is about to write. *)
LEMMA SpentBegin ==
    ASSUME TypeOK, NEW n \in Client, NEW from, NEW new, NEW by, BeginWrite(n, from, new, by),
           \A s \in Slave : Engaged(s) => Engaged(s)'
    PROVE  Waiting' <= Waiting + IF new.status = ACTIVE_CONTROL THEN 1 ELSE 0
  <1>1. Hands' \subseteq Hands \cup {n} /\ (new.status # ACTIVE_CONTROL => Hands' \subseteq Hands)
    BY DEF Hands, BeginWrite, TypeOK
  <1>2. Cardinality(Hands') <= Cardinality(Hands) + IF new.status = ACTIVE_CONTROL THEN 1 ELSE 0
    <2>1. /\ IsFiniteSet(Hands \cup {n})
          /\ Cardinality(Hands \cup {n}) <= Cardinality(Hands) + 1
          /\ Cardinality(Hands \cup {n}) \in Nat
      BY PlacesFinite, FS_AddElement, FS_CardinalityType
    <2>2. IsFiniteSet(Hands') /\ Cardinality(Hands') \in Nat
      BY <1>1, <2>1, FS_Subset, FS_CardinalityType
    <2> QED
      BY <1>1, <2>1, <2>2, PlacesFinite, FS_Subset
  <1>3. Temps' = Temps /\ (Waits' => Waits)
    BY DEF BeginWrite, Temps, TempIds, Waits
  <1>4. Cardinality(Hands') \in Nat
    BY <1>1, PlacesFinite, FS_AddElement, FS_Subset, FS_CardinalityType
  <1> QED
    BY <1>2, <1>3, <1>4, PlacesFinite DEF Waiting

(* The steps of the write move the frame on, or drop it. *)
LEMMA SpentFile ==
    ASSUME TypeOK, AddressInv, NEW n \in Client, Continue(n) \/ Crash(n),
           \A s \in Slave : stage[s] \in {"beat", "failed", "down"}
                                => stage'[s] \in {"beat", "failed", "down"},
           n \in Slave /\ (ReplaceFails(n) \/ Crash(n)) => stage'[n] \in {"failed", "down"}
    PROVE  Waiting' <= Waiting
  <1> DEFINE i == IdOf[n]
  <1>0. /\ i \in BusId /\ i \in TempIds /\ \A c \in Client : IdOf[c] \in BusId
        /\ TempIds \subseteq BusId
    BY BusManagerAssumption DEF TempIds
  <1>1. /\ \A H : H \subseteq Hands \ {n} /\ n \in Hands
                => Cardinality(H) \in Nat /\ Cardinality(H) <= Cardinality(Hands) - 1
        /\ \A H : H \subseteq Hands => Cardinality(H) \in Nat /\ Cardinality(H) <= Cardinality(Hands)
        /\ \A T : T \subseteq Temps \ {i} /\ i \in Temps
                => Cardinality(T) \in Nat /\ Cardinality(T) <= Cardinality(Temps) - 1
        /\ \A T : T \subseteq Temps => Cardinality(T) \in Nat /\ Cardinality(T) <= Cardinality(Temps)
        /\ \A T : T \subseteq Temps \cup {i}
                => Cardinality(T) \in Nat /\ Cardinality(T) <= Cardinality(Temps) + 1
    <2>1. ASSUME NEW A, NEW B, IsFiniteSet(B), Cardinality(B) \in Nat, A \subseteq B
          PROVE  Cardinality(A) \in Nat /\ Cardinality(A) <= Cardinality(B)
      BY <2>1, FS_Subset, FS_CardinalityType
    <2>2. ASSUME NEW B, NEW x, IsFiniteSet(B), Cardinality(B) \in Nat
          PROVE  /\ IsFiniteSet(B \ {x}) /\ IsFiniteSet(B \cup {x})
                 /\ Cardinality(B \ {x}) \in Nat /\ Cardinality(B \cup {x}) \in Nat
                 /\ x \in B => Cardinality(B \ {x}) = Cardinality(B) - 1
                 /\ Cardinality(B \cup {x}) <= Cardinality(B) + 1
      BY <2>2, FS_RemoveElement, FS_AddElement, FS_CardinalityType
    <2>3. ASSUME NEW H, H \subseteq Hands \ {n}, n \in Hands
          PROVE  Cardinality(H) \in Nat /\ Cardinality(H) <= Cardinality(Hands) - 1
      <3>1. /\ IsFiniteSet(Hands \ {n}) /\ Cardinality(Hands \ {n}) \in Nat
            /\ Cardinality(Hands \ {n}) = Cardinality(Hands) - 1
        BY <2>2, <2>3, PlacesFinite
      <3> QED
        BY <2>1, <2>3, <3>1
    <2>4. ASSUME NEW T, T \subseteq Temps \ {i}, i \in Temps
          PROVE  Cardinality(T) \in Nat /\ Cardinality(T) <= Cardinality(Temps) - 1
      <3>1. /\ IsFiniteSet(Temps \ {i}) /\ Cardinality(Temps \ {i}) \in Nat
            /\ Cardinality(Temps \ {i}) = Cardinality(Temps) - 1
        BY <2>2, <2>4, PlacesFinite
      <3> QED
        BY <2>1, <2>4, <3>1
    <2>5. ASSUME NEW T, T \subseteq Temps \cup {i}
          PROVE  Cardinality(T) \in Nat /\ Cardinality(T) <= Cardinality(Temps) + 1
      <3>1. /\ IsFiniteSet(Temps \cup {i}) /\ Cardinality(Temps \cup {i}) \in Nat
            /\ Cardinality(Temps \cup {i}) <= Cardinality(Temps) + 1
        BY <2>2, PlacesFinite
      <3> QED
        BY <2>1, <2>5, <3>1
    <2> QED
      BY <2>1, <2>3, <2>4, <2>5, PlacesFinite
  <1>2. \A s \in Slave \ {n} : Engaged(s) => Engaged(s)'
    BY NodesAssumption
       DEF Engaged, Continue, Open, Flush, Replace, ReplaceFails, AppendLedger, Crash, Return, TypeOK
  <1>3. CASE Open(n)
    <2>1. Hands' \subseteq Hands /\ Temps' \subseteq Temps
      BY <1>0, <1>3, BusManagerAssumption DEF Open, Hands, Temps, Commanding, TypeOK
    <2>2. Waits' => Waits
      <3>1. n \in Slave => Engaged(n)'
        BY <1>3 DEF Open, Engaged, TypeOK
      <3> QED
        BY <1>2, <1>3, <3>1 DEF Open, Waits
    <2> QED
      BY <1>1, <2>1, <2>2, PlacesFinite DEF Waiting
  <1>4. CASE Flush(n)
    <2>1. Hands' \subseteq Hands \ {n}
      BY <1>4 DEF Flush, Hands, TypeOK
    <2>2. n \in Hands <=> pend[n].new.status = ACTIVE_CONTROL
      BY <1>4 DEF Flush, Hands
    <2>3. n \in Slave => Engaged(n)'
      BY <1>4 DEF Flush, Engaged, TypeOK
    <2>4. CASE fd[n] = "temp"
      <3>1. /\ Temps' \subseteq Temps \cup {i}
            /\ pend[n].new.status # ACTIVE_CONTROL => Temps' \subseteq Temps
        BY <1>0, <1>4, <2>4, BusManagerAssumption
           DEF Flush, Overwritten, Temps, Commanding, TypeOK
      <3>2. Waits' => Waits
        BY <1>2, <1>4, <2>3, <2>4 DEF Flush, Waits
      <3>3. CASE pend[n].new.status = ACTIVE_CONTROL
        BY <1>1, <2>1, <2>2, <3>1, <3>2, <3>3, PlacesFinite DEF Waiting
      <3>4. CASE pend[n].new.status # ACTIVE_CONTROL
        BY <1>1, <2>1, <3>1, <3>2, <3>4, PlacesFinite DEF Waiting
      <3> QED
        BY <3>3, <3>4
    <2>5. CASE fd[n] # "temp"
      <3>1. Temps' \subseteq Temps
        BY <1>4, <2>5 DEF Flush, Temps
      <3>2. Waits' /\ pend[n].new.status # ACTIVE_CONTROL => Waits
        BY <1>2, <1>4, <2>3, <2>5, BusManagerAssumption DEF Flush, Overwritten, Waits, Commanding
      <3>3. CASE pend[n].new.status = ACTIVE_CONTROL
        BY <1>1, <2>1, <2>2, <3>1, <3>3, PlacesFinite DEF Waiting
      <3>4. CASE pend[n].new.status # ACTIVE_CONTROL
        BY <1>1, <2>1, <3>1, <3>2, <3>4, PlacesFinite DEF Waiting
      <3> QED
        BY <3>3, <3>4
    <2> QED
      BY <2>4, <2>5
  <1>5. CASE Replace(n)
    <2>1. Hands' \subseteq Hands /\ Temps' \subseteq Temps \ {i}
      BY <1>0, <1>5, BusManagerAssumption DEF Replace, Return, Hands, Temps, Commanding, TypeOK
    <2>2. Waits' => i \in Temps
      BY <1>0, <1>5 DEF Replace, Waits, Temps, Commanding
    <2>3. CASE i \in Temps
      BY <1>1, <2>1, <2>3, PlacesFinite DEF Waiting
    <2>4. CASE i \notin Temps
      BY <1>1, <2>1, <2>2, <2>4, PlacesFinite DEF Waiting
    <2> QED
      BY <2>3, <2>4
  <1>6. CASE ReplaceFails(n) \/ AppendLedger(n) \/ Crash(n)
    <2>1. Hands' \subseteq Hands /\ Temps' \subseteq Temps
      BY <1>6 DEF ReplaceFails, AppendLedger, Crash, Return, Hands, Temps, TypeOK
    <2>2. n \in Slave => Engaged(n)'
      BY <1>6 DEF AppendLedger, TypeOK, AddressInv, Engaged
    <2>3. Waits' => Waits
      BY <1>2, <1>6, <2>2 DEF ReplaceFails, AppendLedger, Crash, Waits
    <2> QED
      BY <1>1, <2>1, <2>3, PlacesFinite DEF Waiting
  <1> QED
    BY <1>3, <1>4, <1>5, <1>6 DEF Continue

(* Only the slave a command names starts on it, and it is one. *)
LEMMA SpentExecute ==
    ASSUME NodeTypeOK, AddressInv, SlavesDiffer,
           NEW s \in Slave, Execute(s)
    PROVE  Waiting' + 1 <= Waiting
  <1>1. UNCHANGED <<pc, pend, busData, tempData>>
    BY DEF Execute, vars
  <1>2. Hands' = Hands /\ Temps' = Temps
    BY <1>1 DEF Hands, Temps
  <1>3. busData \in Frame /\ busData.Target_Aid = AidOf[s] /\ Commanding(busData)
    <2>1. busData \in Frame
      BY ReadableFrame DEF Execute, Addressed, NodeTypeOK, TypeOK
    <2>2. busData.Target_Aid # AnyAid
      BY <2>1 DEF Execute, Addressing, AddressInv, FramesIn
    <2> QED
      BY <2>1, <2>2 DEF Execute, Addressed, Commanding
  <1>4. Waits
    BY <1>3 DEF Execute, At, Waits, Engaged
  <1>5. ~Waits'
    <2>1. Engaged(s)'
      BY <1>1, NodesAssumption DEF Execute, GoTo, Engaged, NodeTypeOK
    <2> QED
      BY <1>1, <1>3, <2>1 DEF Waits, SlavesDiffer
  <1> QED
    BY <1>2, <1>4, <1>5, PlacesFinite DEF Waiting

(* A slave that is started again may find a command it has executed already. *)
LEMMA SpentRestart ==
    ASSUME NodeTypeOK, NEW n \in Client, Restart(n)
    PROVE  Waiting' + Cardinality(Starts) <= Waiting + Cardinality(Starts')
  <1>1. Hands' = Hands /\ Temps' = Temps
    BY DEF Restart, vars, Hands, Temps
  <1>2. CASE n \in Slave
    <2>1. Starts' = Starts \cup {<<n, restarts[n] + 1>>} /\ <<n, restarts[n] + 1>> \notin Starts
      <3>1. restarts[n] + 1 \in 1..MaxRestarts /\ restarts' = [restarts EXCEPT ![n] = @ + 1]
            /\ MaxRestarts \in Nat /\ restarts \in [Client -> 0..MaxRestarts]
        BY NodesAssumption DEF Restart, NodeTypeOK
      <3>2. ASSUME NEW s \in Slave, NEW k \in 1..MaxRestarts
            PROVE  <<s, k>> \in Starts' <=> <<s, k>> \in Starts \/ <<s, k>> = <<n, restarts[n] + 1>>
        BY <3>1, NodesAssumption DEF Starts
      <3> QED
        BY <1>2, <3>1, <3>2 DEF Starts
    <2>2. Cardinality(Starts') = Cardinality(Starts) + 1
      BY <2>1, PlacesFinite, FS_AddElement
    <2> QED
      BY <1>1, <2>2, PlacesFinite DEF Waiting
  <1>3. CASE n \notin Slave
    <2>1. \A s \in Slave : stage'[s] = stage[s] /\ restarts'[s] = restarts[s] /\ pc'[s] = pc[s]
      BY <1>3, NodesAssumption DEF Restart, GoTo, vars, NodeTypeOK
    <2>2. Starts' = Starts
      BY <2>1 DEF Starts
    <2>3. Waits' = Waits
      BY <2>1 DEF Restart, vars, Waits, Engaged
    <2> QED
      BY <1>1, <2>2, <2>3, PlacesFinite DEF Waiting
  <1> QED
    BY <1>2, <1>3

(* A step adds to what is waiting or was executed no more than to what was given. *)
Paid == Waiting' + executions' + (commands + Cardinality(Starts))
            <= Waiting + executions + (commands' + Cardinality(Starts'))

LEMMA CountsType ==
    ASSUME NodeTypeOK, NodeTypeOK'
    PROVE  /\ Waiting \in Nat /\ Waiting' \in Nat
           /\ Cardinality(Starts) \in Nat /\ Cardinality(Starts') \in Nat
           /\ commands \in Nat /\ executions \in Nat /\ commands' \in Nat /\ executions' \in Nat
  <1>1. Waiting \in Nat /\ Cardinality(Starts) \in Nat
    BY PlacesFinite DEF Waiting
  <1>2. /\ (Cardinality(Hands) \in Nat)' /\ (Cardinality(Temps) \in Nat)'
        /\ (Cardinality(Starts) \in Nat)'
    BY PlacesFinite, PTL
  <1>3. Waiting' \in Nat /\ Cardinality(Starts') \in Nat
    BY <1>2 DEF Waiting
  <1> QED
    BY <1>1, <1>3 DEF NodeTypeOK

LEMMA PaidSum ==
    ASSUME NodeTypeOK, NodeTypeOK',
           \/ /\ executions' = executions /\ commands' = commands
              /\ Waiting' <= Waiting /\ Starts' = Starts
           \/ /\ executions' = executions /\ commands' = commands
              /\ Waiting' + Cardinality(Starts) <= Waiting + Cardinality(Starts')
           \/ /\ executions' = executions /\ commands' = commands + 1
              /\ Waiting' <= Waiting + 1 /\ Starts' = Starts
           \/ /\ executions' = executions + 1 /\ commands' = commands
              /\ Waiting' + 1 <= Waiting /\ Starts' = Starts
    PROVE  Paid
  <1> DEFINE given == Cardinality(Starts)
             later == Cardinality(Starts')
  <1>1. Starts' = Starts => later = given
    OBVIOUS
  <1>2. /\ Waiting \in Nat /\ Waiting' \in Nat /\ given \in Nat /\ later \in Nat
        /\ commands \in Nat /\ executions \in Nat /\ commands' \in Nat /\ executions' \in Nat
    BY CountsType
  <1>3. \/ /\ executions' = executions /\ commands' = commands
           /\ Waiting' <= Waiting /\ later = given
        \/ /\ executions' = executions /\ commands' = commands
           /\ Waiting' + given <= Waiting + later
        \/ /\ executions' = executions /\ commands' = commands + 1
           /\ Waiting' <= Waiting + 1 /\ later = given
        \/ /\ executions' = executions + 1 /\ commands' = commands
           /\ Waiting' + 1 <= Waiting /\ later = given
    BY <1>1
  <1> HIDE DEF given, later
  <1>4. ASSUME NEW w \in Nat, NEW w1 \in Nat, NEW e \in Nat, NEW e1 \in Nat,
               NEW c \in Nat, NEW c1 \in Nat, NEW s \in Nat, NEW s1 \in Nat,
               \/ e1 = e /\ c1 = c /\ w1 <= w /\ s1 = s
               \/ e1 = e /\ c1 = c /\ w1 + s <= w + s1
               \/ e1 = e /\ c1 = c + 1 /\ w1 <= w + 1 /\ s1 = s
               \/ e1 = e + 1 /\ c1 = c /\ w1 + 1 <= w /\ s1 = s
        PROVE  w1 + e1 + (c + s) <= w + e + (c1 + s1)
    BY <1>4
  <1>5. Waiting' + executions' + (commands + given) <= Waiting + executions + (commands' + later)
    BY ONLY <1>2, <1>3, <1>4, Zenon
  <1>6. /\ given = Cardinality(Starts) /\ later = Cardinality(Starts')
    BY DEF given, later
  <1> QED
    BY ONLY <1>5, <1>6, Zenon DEF Paid

LEMMA SpentPaid ==
    ASSUME NodeTypeOK, NodeTypeOK', Spent, Paid
    PROVE  Spent'
  <1> DEFINE given == Cardinality(Starts)
             later == Cardinality(Starts')
  <1>1. /\ Waiting + executions \in Nat /\ Waiting' + executions' \in Nat
        /\ commands + given \in Nat /\ commands' + later \in Nat
    BY CountsType
  <1>2. /\ Waiting + executions <= commands + given
        /\ Waiting' + executions' + (commands + given) <= Waiting + executions + (commands' + later)
    BY DEF Spent, Paid
  <1>3. ASSUME NEW a \in Nat, NEW a1 \in Nat, NEW b \in Nat, NEW b1 \in Nat,
               a <= b, a1 + b <= a + b1
        PROVE  a1 <= b1
    BY <1>3
  <1> HIDE DEF given, later
  <1>4. Waiting' + executions' <= commands' + later
    BY ONLY <1>1, <1>2, <1>3, Zenon
  <1>5. Waiting' + executions' <= commands' + Cardinality(Starts')
    BY <1>4 DEF later
  <1> QED
    BY <1>5 DEF Spent

LEMMA PaidMaster ==
    ASSUME NodeTypeOK, NodeTypeOK', NEW m \in Master, MasterStep(m)
    PROVE  Paid
  <1>1. /\ m \in Client /\ TypeOK
        /\ \A s \in Slave : stage'[s] = stage[s] /\ (UNCHANGED vars => pc'[s] = pc[s])
        /\ executions' = executions /\ Starts' = Starts
        /\ pc[m] = "idle"
        /\ Command(m) \/ commands' = commands
    BY NodesAssumption
       DEF NodeTypeOK, MasterStep, Start, Create, Reset, Probe, Await, Lock, GiveUp, Command,
           Monitor, TryTransition, TryForceTransition, GoTo, Counted, At, Starts, vars
  <1>2. Waiting \in Nat /\ Cardinality(Starts) \in Nat
    BY PlacesFinite DEF Waiting
  <1>3. CASE UNCHANGED vars
    <2>1. Waiting' <= Waiting
      <3>1. Hands' = Hands /\ Temps' = Temps /\ Waits' = Waits
        BY <1>1, <1>3 DEF vars, Hands, Temps, Waits, Engaged
      <3> QED
        BY <3>1, <1>2 DEF Waiting
    <2>2. commands' = commands
      BY <1>1, <1>3 DEF Command, vars
    <2> QED
      BY <1>1, <2>1, <2>2, PaidSum
  <1>4. ASSUME NEW new \in Frame, NEW from, NEW by, BeginWrite(m, from, new, by)
        PROVE  Waiting' <= Waiting + IF new.status = ACTIVE_CONTROL THEN 1 ELSE 0
    <2>1. \A s \in Slave : Engaged(s) => Engaged(s)'
      BY <1>1, <1>4 DEF BeginWrite, Engaged, TypeOK
    <2> QED
      BY <1>1, <1>4, <2>1, SpentBegin
  <1>5. ASSUME NEW new \in Frame, NEW from, NEW by, BeginWrite(m, from, new, by), Command(m)
        PROVE  commands' = commands + 1
    BY <1>1, <1>5 DEF BeginWrite, Command, TypeOK
  <1>6. ASSUME NEW new \in Frame, NEW from, NEW by, BeginWrite(m, from, new, by),
               Command(m) \/ new.status # ACTIVE_CONTROL
        PROVE  Paid
    <2>1. (Waiting \in Nat)'
      <3>1. /\ (Cardinality(Hands) \in Nat)' /\ (Cardinality(Temps) \in Nat)'
        BY PlacesFinite, PTL
      <3> QED
        BY <3>1 DEF Waiting
    <2>2. CASE Command(m)
      <3>1. Waiting' <= Waiting + 1
        BY <1>2, <1>4, <1>6, <2>1
      <3> QED
        BY <1>1, <1>5, <1>6, <2>2, <3>1, PaidSum
    <2>3. CASE ~Command(m)
      <3>1. Waiting' <= Waiting
        BY <1>2, <1>4, <1>6, <2>1, <2>3
      <3> QED
        BY <1>1, <2>3, <3>1, PaidSum
    <2> QED
      BY <2>2, <2>3
  <1>7. /\ ACTIVE_CONTROL \notin {UNINITIALIZED, PROBE} /\ SLAVE_PASSIVE # ACTIVE_CONTROL
    BY DEF ACTIVE_CONTROL, UNINITIALIZED, PROBE, SLAVE_PASSIVE
  <1> QED
    BY <1>3, <1>6, <1>7, MasterCalls

LEMMA PaidSlave ==
    ASSUME NodeTypeOK, NodeTypeOK', AddressInv,
           SlavesDiffer, NEW s \in Slave, SlaveStep(s)
    PROVE  Paid
  <1>1. s \in Client /\ TypeOK
    BY NodesAssumption DEF NodeTypeOK
  <1>2. Waiting \in Nat /\ (Waiting \in Nat)' /\ Cardinality(Starts) \in Nat
    <2>1. (Cardinality(Hands) \in Nat)' /\ (Cardinality(Temps) \in Nat)'
      BY PlacesFinite, PTL
    <2> QED
      BY <2>1, PlacesFinite DEF Waiting
  <1>3. CASE Execute(s)
    <2>1. Starts' = Starts /\ executions' = executions + 1 /\ commands' = commands
      BY <1>3 DEF Execute, Starts
    <2> QED
      BY <1>3, <2>1, SpentExecute, PaidSum
  <1>4. CASE ~Execute(s)
    <2>1. /\ Starts' = Starts /\ executions' = executions /\ commands' = commands
          /\ pc[s] = "idle"
      BY <1>4 DEF SlaveStep, Ack, Beat, Release, nodeVars, At, Starts
    <2>2. CASE UNCHANGED vars
      <3>1. ~Waits' \/ \A t \in Slave : Engaged(t) => Engaged(t)'
        <4>1. CASE stage' = stage
          BY <2>2, <4>1 DEF vars, Engaged
        <4>2. CASE Release(s)
          BY <1>1, <2>1, <2>2, <4>2, BusManagerAssumption
             DEF Release, RawWrite, BeginWrite, TypeOK, vars, Waits, Readable, Commanding
        <4> QED
          BY <1>4, <4>1, <4>2 DEF SlaveStep, Ack, Beat, nodeVars
      <3>2. Waits' => Waits
        BY <2>2, <3>1 DEF vars, Waits
      <3>3. Hands' = Hands /\ Temps' = Temps
        BY <2>2 DEF vars, Hands, Temps
      <3>4. Waiting' <= Waiting
        BY <3>2, <3>3, PlacesFinite DEF Waiting
      <3> QED
        BY <2>1, <3>4, PaidSum
    <2>3. ASSUME NEW new \in Frame, RawWrite(s, new), new.status # ACTIVE_CONTROL
          PROVE  Paid
      <3>1. \A t \in Slave : Engaged(t) => Engaged(t)'
        <4>1. \A t \in Slave \ {s} : stage'[t] = stage[t] /\ pc'[t] = pc[t]
          BY <1>1, <1>4, <2>3, NodesAssumption
             DEF SlaveStep, Ack, Beat, Release, GoTo, nodeVars, NodeTypeOK, TypeOK, RawWrite,
                 BeginWrite
        <4>2. Engaged(s)'
          BY <1>1, <2>3 DEF RawWrite, BeginWrite, Engaged, TypeOK
        <4> QED
          BY <4>1, <4>2 DEF Engaged
      <3>2. Waiting' <= Waiting
        BY <1>1, <1>2, <2>3, <3>1, SpentBegin DEF RawWrite
      <3> QED
        BY <2>1, <3>2, PaidSum
    <2>4. ACTIVE_CONTROL \notin {HANDSHAKE_ACK, LEASE_HEARTBEAT, RELEASE_SUCCESS}
      BY DEF ACTIVE_CONTROL, HANDSHAKE_ACK, LEASE_HEARTBEAT, RELEASE_SUCCESS
    <2> QED
      BY <1>1, <2>2, <2>3, <2>4, SlaveCalls
  <1> QED
    BY <1>3, <1>4

LEMMA PaidProcess ==
    ASSUME NodeTypeOK, NodeTypeOK', AddressInv, NEW n \in Client,
           \/ WriteStep(n)
           \/ /\ Crash(n) /\ GoTo(n, "down")
              /\ UNCHANGED <<restarts, commands, executions>>
           \/ Restart(n)
    PROVE  Paid
  <1>1. TypeOK
    BY DEF NodeTypeOK
  <1>2. Waiting \in Nat /\ (Waiting \in Nat)' /\ Cardinality(Starts) \in Nat
    <2>1. (Cardinality(Hands) \in Nat)' /\ (Cardinality(Temps) \in Nat)'
      BY PlacesFinite, PTL
    <2> QED
      BY <2>1, PlacesFinite DEF Waiting
  <1>3. CASE Restart(n)
    <2>1. executions' = executions /\ commands' = commands
      BY <1>3 DEF Restart
    <2> QED
      BY <1>3, <2>1, SpentRestart, PaidSum
  <1>4. CASE ~Restart(n)
    <2>1. /\ Starts' = Starts /\ executions' = executions /\ commands' = commands
      BY <1>4 DEF WriteStep, nodeVars, Starts
    <2>2. Continue(n) \/ Crash(n)
      BY <1>4 DEF WriteStep, Continue
    <2>3. /\ \A s \in Slave : stage[s] \in {"beat", "failed", "down"}
                                => stage'[s] \in {"beat", "failed", "down"}
          /\ n \in Slave /\ (ReplaceFails(n) \/ Crash(n)) => stage'[n] \in {"failed", "down"}
      <3>1. CASE stage' = stage /\ UNCHANGED nodeVars
                 /\ (Open(n) \/ Flush(n) \/ Replace(n) \/ AppendLedger(n))
        <4>1. ~ReplaceFails(n)
          BY <3>1 DEF Open, Flush, Replace, AppendLedger, ReplaceFails
        <4>2. ~Crash(n)
          BY <1>1, <3>1 DEF Open, Flush, Replace, AppendLedger, Crash, TypeOK
        <4> QED
          BY <3>1, <4>1, <4>2
      <3>2. CASE GoTo(n, "failed") \/ GoTo(n, "down")
        BY <3>2, NodesAssumption DEF GoTo, NodeTypeOK
      <3> QED
        BY <1>4, <3>1, <3>2 DEF WriteStep, nodeVars
    <2>4. Waiting' <= Waiting
      BY <1>1, <2>2, <2>3, SpentFile
    <2> QED
      BY <2>1, <2>4, PaidSum
  <1> QED
    BY <1>3, <1>4

LEMMA PaidStep ==
    ASSUME NodeTypeOK, NodeTypeOK', AddressInv, SlavesDiffer, NodeNext
    PROVE  Paid
  BY PaidMaster, PaidSlave, PaidProcess DEF NodeNext, NodeCrash

LEMMA SpentStep ==
    ASSUME NodeTypeOK, NodeTypeOK', AddressInv, SlavesDiffer, Spent, [NodeNext]_allVars
    PROVE  Spent'
  <1>1. CASE UNCHANGED allVars
    BY <1>1 DEF allVars, vars, nodeVars, Spent, Waiting, Hands, Temps, Waits, Engaged, Starts
  <1>2. CASE NodeNext
    BY <1>2, PaidStep, SpentPaid
  <1> QED
    BY <1>1, <1>2

LEMMA AddressStep ==
    ASSUME NodeTypeOK, AddressInv, [NodeNext]_allVars
    PROVE  AddressInv'
  <1>1. TypeOK
    BY DEF NodeTypeOK
  <1>2. CASE UNCHANGED allVars
    BY <1>2 DEF allVars, vars, AddressInv, FramesIn
  <1>3. ASSUME NEW n \in Client, WriteStep(n) \/ NodeCrash(n) \/ Restart(n)
        PROVE  AddressInv'
    BY <1>1, <1>3, ProcessSteps, AddressFile
  <1> QED
    BY <1>1, <1>2, <1>3, AddressMaster, AddressSlave DEF NodeNext

LEMMA SpentInit == NodeInit => Spent
  <1> SUFFICES ASSUME NodeInit PROVE Spent
    OBVIOUS
  <1>1. Hands = {} /\ Temps = {} /\ Starts = {} /\ ~Waits
    <2>1. Hands = {}
      BY DEF NodeInit, Init, Hands
    <2>2. Temps = {}
      BY BusManagerAssumption DEF NodeInit, Init, Temps, TempIds, Commanding
    <2>3. Starts = {}
      BY NodesAssumption DEF NodeInit, Starts
    <2>4. ~Waits
      BY BusManagerAssumption DEF NodeInit, Init, Waits, Commanding
    <2> QED
      BY <2>1, <2>2, <2>3, <2>4
  <1>2. Waiting = 0 /\ Cardinality(Starts) = 0
    BY <1>1, FS_EmptySet DEF Waiting
  <1> QED
    BY <1>2 DEF Spent, NodeInit

LEMMA SpentBounds == NodeTypeOK /\ (SlavesDiffer => Spent) => ExecutionsBounded
  <1> SUFFICES ASSUME NodeTypeOK, Spent
               PROVE  executions <= commands + Cardinality(Starts)
    BY DEF ExecutionsBounded, Starts
  <1> DEFINE given == Cardinality(Starts)
  <1>1. Waiting \in Nat /\ given \in Nat /\ executions \in Nat /\ commands \in Nat
    BY PlacesFinite DEF Waiting, NodeTypeOK
  <1>2. Waiting + executions <= commands + given
    BY DEF Spent
  <1> HIDE DEF given
  <1>3. ASSUME NEW w \in Nat, NEW e \in Nat, NEW c \in Nat, NEW s \in Nat, w + e <= c + s
        PROVE  e <= c + s
    BY <1>3
  <1>4. executions <= commands + given
    BY ONLY <1>1, <1>2, <1>3, Zenon
  <1> QED
    BY <1>4 DEF given

(* A command is executed once for every time it was given or a slave was started
   again, whatever the masters, the slaves and the crashes. *)
THEOREM ExecutionsAreBounded == NodeSpec => []ExecutionsBounded
  <1>1. NodeInit => AddressInv /\ Spent
    BY AddressInit, SpentInit DEF NodeInit
  <1>2. NodeTypeOK /\ NodeTypeOK' /\ AddressInv /\ (SlavesDiffer => Spent) /\ [NodeNext]_allVars
            => AddressInv' /\ (SlavesDiffer' => Spent')
    BY AddressStep, SpentStep DEF SlavesDiffer
  <1> QED
    BY <1>1, <1>2, SpentBounds, NodeTypesCorrect, PTL DEF NodeSpec
=============================================================================
