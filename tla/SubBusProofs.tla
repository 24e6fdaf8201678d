---------------------------- MODULE SubBusProofs ----------------------------
(***************************************************************************)
(* Theorems about the two programs with a sub-bus, for any number of       *)
(* masters and slaves, any numbers of polls and heartbeats, any restarts   *)
(* and crashes.  A step of the programs disturbs the root bus, the sub-bus *)
(* or neither.  For the root bus the lemmas of CycloneNodesProofs are used *)
(* as they are; the frame the master writes to enter a sub-bus, which it   *)
(* has read before, comes in.  For the sub-bus those of BusManagerProofs   *)
(* are taken for its variables (SubP).  That it is left free is a matter   *)
(* of where the one PROBE of its master can be (Kept).                     *)
(***************************************************************************)
EXTENDS SubBus, CycloneNodesProofs

SubP == INSTANCE BusManagerProofs WITH
    busData <- subData, tempData <- subTemp, pc <- subPc, fd <- subFd,
    pend <- subPend, fresh <- subFresh, IdOf <- SubIdOf

-----------------------------------------------------------------------------
(* The sub-bus is under the bus manager as the root bus is: constants, frames and
   steps are the same. *)
LEMMA SameStatus ==
    /\ Sub!Status = Status /\ SubP!Status = Status
    /\ Sub!Request = Request /\ SubP!Request = Request
  BY DEF Sub!Status, SubP!Status, Status, Sub!Request, SubP!Request, Request,
         Sub!UNINITIALIZED, Sub!PROBE, Sub!HANDSHAKE_ACK, Sub!SLAVE_PASSIVE,
         Sub!ACTIVE_CONTROL, Sub!LEASE_HEARTBEAT, Sub!RELEASE_SUCCESS, Sub!RELEASE_FAILED,
         SubP!UNINITIALIZED, SubP!PROBE, SubP!HANDSHAKE_ACK, SubP!SLAVE_PASSIVE,
         SubP!ACTIVE_CONTROL, SubP!LEASE_HEARTBEAT, SubP!RELEASE_SUCCESS, SubP!RELEASE_FAILED,
         UNINITIALIZED, PROBE, HANDSHAKE_ACK, SLAVE_PASSIVE, ACTIVE_CONTROL,
         LEASE_HEARTBEAT, RELEASE_SUCCESS, RELEASE_FAILED,
         Sub!NoRequest, Sub!Connect, Sub!Task, SubP!NoRequest, SubP!Connect, SubP!Task,
         NoRequest, Connect, Task

LEMMA SameSets ==
    /\ Sub!Frame = Frame /\ SubP!Frame = Frame
    /\ Sub!Content = Content /\ SubP!Content = Content
    /\ Sub!Write = Write /\ SubP!Write = Write
    /\ Sub!Entry = Entry /\ SubP!Entry = Entry
    /\ SubP!Updates = Updates
  BY SameStatus DEF Sub!Frame, SubP!Frame, Frame, Sub!Content, SubP!Content, Content,
     Sub!Write, SubP!Write, Write, Sub!Entry, SubP!Entry, Entry, SubP!Updates, Updates

LEMMA SubAssumptions == SubP!ProtocolAssumption /\ SubP!BusManagerAssumption
  <1>1. SubP!ProtocolAssumption
    BY ProtocolAssumption DEF SubP!ProtocolAssumption
  <1>2. SubIdOf \in [Client -> BusId]
    BY SubBusAssumption DEF SubIdOf
  <1>3. SubP!BusManagerAssumption
    BY BusManagerAssumption, <1>2, SameStatus, SameSets DEF SubP!BusManagerAssumption
  <1> QED
    BY <1>1, <1>3

LEMMA SameType == Sub!TypeOK <=> SubP!TypeOK
  BY SameSets DEF Sub!TypeOK, SubP!TypeOK

LEMMA SameSteps ==
    ASSUME NEW c
    PROVE  /\ Sub!Open(c) <=> SubP!Open(c)
           /\ Sub!Flush(c) <=> SubP!Flush(c)
           /\ Sub!Replace(c) <=> SubP!Replace(c)
           /\ Sub!ReplaceFails(c) <=> SubP!ReplaceFails(c)
           /\ Sub!AppendLedger(c) <=> SubP!AppendLedger(c)
           /\ Sub!Crash(c) <=> SubP!Crash(c)
  <1>1. Sub!Open(c) <=> SubP!Open(c)
    BY DEF Sub!Open, SubP!Open, Sub!Met, SubP!Met, Sub!Rivals, SubP!Rivals
  <1>2. Sub!Flush(c) <=> SubP!Flush(c)
    BY DEF Sub!Flush, SubP!Flush, Sub!Overwritten, SubP!Overwritten, Sub!Stale,
           SubP!Stale
  <1>3. Sub!Replace(c) <=> SubP!Replace(c)
    BY DEF Sub!Replace, SubP!Replace, Sub!Return, SubP!Return, Sub!Renamed, SubP!Renamed,
           Sub!Unlinked, SubP!Unlinked, Sub!Stale, SubP!Stale
  <1>4. Sub!ReplaceFails(c) <=> SubP!ReplaceFails(c)
    BY DEF Sub!ReplaceFails, SubP!ReplaceFails, Sub!Return, SubP!Return
  <1>5. Sub!AppendLedger(c) <=> SubP!AppendLedger(c)
    BY DEF Sub!AppendLedger, SubP!AppendLedger, Sub!Return, SubP!Return
  <1>6. Sub!Crash(c) <=> SubP!Crash(c)
    BY DEF Sub!Crash, SubP!Crash, Sub!Return, SubP!Return
  <1> QED
    BY <1>1, <1>2, <1>3, <1>4, <1>5, <1>6

LEMMA SameFrames ==
    /\ Sub!Readable <=> SubP!Readable
    /\ \A c : Sub!CurrentFrame(c) = SubP!CurrentFrame(c)
    /\ \A frame, next : Sub!NextFrame(frame, next) = SubP!NextFrame(frame, next)
    /\ \A frame, next : Sub!ForcedFrame(frame, next) = SubP!ForcedFrame(frame, next)
    /\ \A frame, p : Sub!WithPayload(frame, p) = SubP!WithPayload(frame, p)
    /\ \A id : Sub!InitialFrame(id) = SubP!InitialFrame(id)
    /\ \A c : Sub!Auditor(c) = SubP!Auditor(c)
  <1>1. Sub!Readable <=> SubP!Readable
    BY DEF Sub!Readable, SubP!Readable
  <1>2. \A id : Sub!InitialFrame(id) = SubP!InitialFrame(id)
    BY DEF Sub!InitialFrame, SubP!InitialFrame, Sub!NoRequest, SubP!NoRequest,
           Sub!UNINITIALIZED, SubP!UNINITIALIZED
  <1>3. \A c : Sub!CurrentFrame(c) = SubP!CurrentFrame(c)
    BY <1>1, <1>2 DEF Sub!CurrentFrame, SubP!CurrentFrame
  <1>4. \A frame, next : Sub!NextFrame(frame, next) = SubP!NextFrame(frame, next)
    BY DEF Sub!NextFrame, SubP!NextFrame
  <1>5. \A frame, next : Sub!ForcedFrame(frame, next) = SubP!ForcedFrame(frame, next)
    BY <1>4 DEF Sub!ForcedFrame, SubP!ForcedFrame
  <1>6. \A frame, p : Sub!WithPayload(frame, p) = SubP!WithPayload(frame, p)
    BY DEF Sub!WithPayload, SubP!WithPayload, Sub!Given, SubP!Given
  <1>7. \A c : Sub!Auditor(c) = SubP!Auditor(c)
    BY DEF Sub!Auditor, SubP!Auditor
  <1> QED
    BY <1>1, <1>2, <1>3, <1>4, <1>5, <1>6, <1>7

LEMMA SameCalls ==
    ASSUME NEW c
    PROVE  /\ \A from, new, by : Sub!BeginWrite(c, from, new, by) <=> SubP!BeginWrite(c, from, new, by)
           /\ \A next, p : Sub!Transition(c, next, p) <=> SubP!Transition(c, next, p)
           /\ \A next : Sub!ForceTransition(c, next) <=> SubP!ForceTransition(c, next)
  <1>1. \A from, new, by : Sub!BeginWrite(c, from, new, by) <=> SubP!BeginWrite(c, from, new, by)
    BY DEF Sub!BeginWrite, SubP!BeginWrite
  <1>2. \A a, b : Sub!ValidateTransition(a, b) <=> SubP!ValidateTransition(a, b)
    BY DEF Sub!ValidateTransition, SubP!ValidateTransition, Sub!ValidTransitions,
           SubP!ValidTransitions, Sub!UNINITIALIZED, Sub!PROBE, Sub!HANDSHAKE_ACK,
           Sub!SLAVE_PASSIVE, Sub!ACTIVE_CONTROL, Sub!LEASE_HEARTBEAT, Sub!RELEASE_SUCCESS,
           Sub!RELEASE_FAILED, SubP!UNINITIALIZED, SubP!PROBE, SubP!HANDSHAKE_ACK,
           SubP!SLAVE_PASSIVE, SubP!ACTIVE_CONTROL, SubP!LEASE_HEARTBEAT,
           SubP!RELEASE_SUCCESS, SubP!RELEASE_FAILED
  <1>3. \A frame : Sub!AssertInvariants(frame) <=> SubP!AssertInvariants(frame)
    BY DEF Sub!AssertInvariants, SubP!AssertInvariants, Sub!HolderPresent, SubP!HolderPresent,
           Sub!ActiveStates, SubP!ActiveStates, Sub!SLAVE_PASSIVE, Sub!ACTIVE_CONTROL,
           Sub!LEASE_HEARTBEAT, SubP!SLAVE_PASSIVE, SubP!ACTIVE_CONTROL, SubP!LEASE_HEARTBEAT,
           Sub!NotOrphanParent, SubP!NotOrphanParent
  <1>4. \A actor, old, next, new :
            Sub!Admissible(actor, old, next, new) <=> SubP!Admissible(actor, old, next, new)
    BY <1>2, <1>3
       DEF Sub!Admissible, SubP!Admissible, Sub!CanTransition, SubP!CanTransition,
           Sub!AssertVectorClockMonotonicity, SubP!AssertVectorClockMonotonicity,
           Sub!LEASE_HEARTBEAT, SubP!LEASE_HEARTBEAT, Sub!RELEASE_SUCCESS,
           SubP!RELEASE_SUCCESS, Sub!RELEASE_FAILED, SubP!RELEASE_FAILED, Sub!PROBE, SubP!PROBE
  <1> QED
    BY <1>1, <1>2, <1>3, <1>4, SameFrames
       DEF Sub!Transition, SubP!Transition, Sub!ForceTransition, SubP!ForceTransition

LEMMA SameWrite ==
    ASSUME NEW n
    PROVE  /\ SubWrite(n) => SubP!Continue(n)
           /\ Sub!Crash(n) => SubP!Crash(n)
  BY SameSteps DEF SubWrite, SubP!Continue

-----------------------------------------------------------------------------
(* The programs bring two kinds of frames to the sub-bus: one in 000 that
   initializes or clears it, and the master's probe. *)
SubFrames == {frame \in Frame : frame.status \in {UNINITIALIZED, PROBE} /\ frame.Child_Buses = {}}

SubHolds == SubP!FramesIn(SubFrames)

OnSubBus(n) == CreateSub(n) \/ ProbeSub(n) \/ ClearSub(n)

LEMMA SubCurrent ==
    ASSUME SubP!TypeOK, SubHolds, NEW n \in Client
    PROVE  /\ SubP!CurrentFrame(n) \in SubFrames
           /\ SubP!Readable => SubP!CurrentFrame(n) = subData
           /\ SubP!Readable <=> subData \in Frame
  <1>1. SubP!Readable <=> subData \in Frame
    BY SubAssumptions, SubP!ReadableFrame, SameSets DEF SubP!TypeOK
  <1>2. SubP!InitialFrame(SubIdOf[n]) \in SubFrames
    <2>1. SubP!InitialFrame(SubIdOf[n]) \in Frame
      BY SubAssumptions, SubP!InitialFrameType, SameSets, SubBusAssumption DEF SubIdOf
    <2> QED
      BY <2>1 DEF SubP!InitialFrame, SubFrames, SubP!UNINITIALIZED, UNINITIALIZED
  <1> QED
    BY <1>1, <1>2, SameSets DEF SubP!CurrentFrame, SubHolds, SubP!FramesIn

(* The probe's payload. *)
LEMMA ProbingType ==
    ASSUME NEW m \in SubMaster
    PROVE  Probing(m) \in Updates
  <1>1. AidOf[m] \in Agent /\ Target[m] \in Agent
    BY SubBusAssumption, NodesAssumption, BusManagerAssumption
  <1> QED
    BY <1>1 DEF Probing, NoUpdate, Updates, Request, Connect

(* Who has what to do with the sub-bus. *)
PlaceInv ==
    \A n \in Client :
        /\ place[n] # "off" => n \in SubMaster \cup Trunk
        /\ place[n] \in {"register", "probe", "over"} => n \in Master
        /\ place[n] \in {"register", "create", "probe", "work"} /\ n \in Master
              => stage[n] = "monitor"

TreeTypes == SubTypeOK /\ SubHolds /\ PlaceInv

LEMMA SubUnchanged ==
    SubP!TypeOK /\ UNCHANGED <<subVars, ledger, crashes>> => SubP!TypeOK'
  BY DEF subVars, SubP!TypeOK

LEMMA CreateCall ==
    ASSUME TreeTypes, NEW n \in Client, CreateSub(n)
    PROVE  \/ UNCHANGED <<subVars, ledger, crashes>>
           \/ \E new \in SubFrames : /\ SubP!BeginWrite(n, UNINITIALIZED, new, NoAid)
                                     /\ new.status = UNINITIALIZED
  <1> DEFINE aid == IF n \in Master THEN Target[n] ELSE AidOf[n]
             new == [Sub!InitialFrame(SubId) EXCEPT !.Aid = aid, !.Parent_Bus = Root]
  <1>1. aid \in Agent
    BY SubBusAssumption, NodesAssumption, BusManagerAssumption
       DEF TreeTypes, PlaceInv, CreateSub, Here
  <1>2. InitialFrame(SubId) \in Frame /\ Sub!InitialFrame(SubId) = InitialFrame(SubId)
    <2>1. InitialFrame(SubId) \in Frame
      BY InitialFrameType, SubBusAssumption
    <2>2. Sub!InitialFrame(SubId) = InitialFrame(SubId)
      BY DEF Sub!InitialFrame, InitialFrame, Sub!NoRequest, NoRequest, Sub!UNINITIALIZED,
             UNINITIALIZED
    <2> QED
      BY <2>1, <2>2
  <1>3. new \in Frame
    BY <1>1, <1>2, SubBusAssumption DEF Frame
  <1>4. new.status = UNINITIALIZED /\ new.Child_Buses = {}
    <2>1. InitialFrame(SubId).status = UNINITIALIZED /\ InitialFrame(SubId).Child_Buses = {}
      BY DEF InitialFrame
    <2> QED
      BY <1>2, <2>1 DEF Frame
  <1>5. UNCHANGED <<subVars, ledger, crashes>> \/ Sub!BeginWrite(n, UNINITIALIZED, new, NoAid)
    BY DEF CreateSub
  <1> HIDE DEF new
  <1> QED
    BY <1>3, <1>4, <1>5, SameCalls DEF SubFrames

LEMMA ProbeCall ==
    ASSUME TreeTypes, NEW n \in Client, ProbeSub(n)
    PROVE  /\ n \in SubMaster
           /\ \/ UNCHANGED <<subVars, ledger, crashes>>
              \/ /\ SubP!Transition(n, PROBE, Probing(n)) /\ Move(n, "work")
                 /\ \E new \in SubFrames : \E from, by : SubP!BeginWrite(n, from, new, by)
  <1>1. n \in SubMaster
    BY SubBusAssumption, NodesAssumption DEF TreeTypes, PlaceInv, ProbeSub, Here
  <1>2. CASE SubP!Transition(n, PROBE, Probing(n)) /\ Move(n, "work")
    <2>1. PICK new \in SubP!Frame :
              /\ \E from, by : SubP!BeginWrite(n, from, new, by)
              /\ new.status = PROBE
              /\ new.Child_Buses = SubP!CurrentFrame(n).Child_Buses
      BY <1>1, <1>2, SubAssumptions, SubP!TransitionFacts, ProbingType, SameSets, SameStatus,
         SameType DEF TreeTypes, SubTypeOK, Status
    <2>2. new \in SubFrames
      BY <2>1, SameSets, SubCurrent, SameType DEF TreeTypes, SubTypeOK, SubFrames
    <2> QED
      BY <1>1, <1>2, <2>1, <2>2
  <1> QED
    BY <1>1, <1>2, SameCalls DEF ProbeSub

LEMMA ClearCall ==
    ASSUME TreeTypes, NEW n \in Client, ClearSub(n)
    PROVE  \/ UNCHANGED <<subVars, ledger, crashes>>
           \/ /\ SubP!ForceTransition(n, UNINITIALIZED)
              /\ \E new \in SubFrames : /\ \E from, by : SubP!BeginWrite(n, from, new, by)
                                        /\ new.status = UNINITIALIZED
  <1>1. CASE SubP!ForceTransition(n, UNINITIALIZED)
    <2>1. PICK new \in SubP!Frame :
              /\ \E from, by : SubP!BeginWrite(n, from, new, by)
              /\ new.status = UNINITIALIZED
              /\ new.Child_Buses = SubP!CurrentFrame(n).Child_Buses
      BY <1>1, SubAssumptions, SubP!ForceFacts, SameStatus, SameType
         DEF TreeTypes, SubTypeOK, Status
    <2>2. new \in SubFrames
      BY <2>1, SameSets, SubCurrent, SameType DEF TreeTypes, SubTypeOK, SubFrames
    <2> QED
      BY <1>1, <2>1, <2>2
  <1> QED
    BY <1>1, SameCalls DEF ClearSub

(* A call on the sub-bus keeps its types and its frames, and begins a probe only
   when the master moves on from it. *)
LEMMA SubCalls ==
    ASSUME TreeTypes, NEW n \in Client, OnSubBus(n)
    PROVE  /\ SubP!TypeOK' /\ SubHolds'
           /\ \/ UNCHANGED <<subVars, ledger, crashes>>
              \/ \E new \in SubFrames :
                    /\ \E from, by : SubP!BeginWrite(n, from, new, by)
                    /\ new.status = PROBE => ProbeSub(n) /\ Move(n, "work")
  <1>1. SubP!TypeOK
    BY SameType DEF TreeTypes, SubTypeOK
  <1>2. ASSUME UNCHANGED <<subVars, ledger, crashes>>
        PROVE  SubP!TypeOK' /\ SubHolds'
    BY <1>1, <1>2, SubUnchanged DEF TreeTypes, SubHolds, SubP!FramesIn, subVars
  <1>3. ASSUME NEW new \in SubFrames, NEW from, NEW by, SubP!BeginWrite(n, from, new, by)
        PROVE  SubHolds'
    BY <1>1, <1>3, SubAssumptions, SubP!FramesBegin DEF TreeTypes, SubHolds
  <1>4. UNINITIALIZED # PROBE /\ {UNINITIALIZED, PROBE} \subseteq SubP!Status
    BY SameStatus DEF UNINITIALIZED, PROBE, Status
  <1>5. CASE CreateSub(n)
    <2>1. ASSUME NEW new \in SubFrames, SubP!BeginWrite(n, UNINITIALIZED, new, NoAid)
          PROVE  SubP!TypeOK'
      BY <1>1, <1>4, <2>1, SubAssumptions, SubP!BeginWriteType, SameSets DEF SubFrames
    <2> QED
      BY <1>2, <1>3, <1>4, <1>5, <2>1, CreateCall
  <1>6. CASE ProbeSub(n)
    <2>1. SubP!Transition(n, PROBE, Probing(n)) => SubP!TypeOK'
      BY <1>1, <1>4, <1>6, SubAssumptions, SubP!TransitionType, ProbeCall, ProbingType, SameSets
    <2> QED
      BY <1>2, <1>3, <1>6, <2>1, ProbeCall
  <1>7. CASE ClearSub(n)
    <2>1. SubP!ForceTransition(n, UNINITIALIZED) => SubP!TypeOK'
      BY <1>1, <1>4, SubAssumptions, SubP!ForceType
    <2> QED
      BY <1>2, <1>3, <1>4, <1>7, <2>1, ClearCall
  <1> QED
    BY <1>5, <1>6, <1>7 DEF OnSubBus

-----------------------------------------------------------------------------
(* The types of the tree: a step is one of CycloneNodes and leaves the sub-bus
   alone, or one of these. *)
LEMMA TreeKinds ==
    ASSUME NEW n \in Client, TreeStep(n) \/ CrashTree(n) \/ RestartTree(n)
    PROVE  \/ NodeNext /\ UNCHANGED subVars
           \/ RegisterChild(n) \/ OnSubBus(n) \/ SubWrite(n) \/ CrashTree(n)
  <1>1. n \in Master /\ (MasterOnRoot(n) \/ MonitorTree(n)) => NodeNext /\ UNCHANGED subVars
    BY DEF MasterOnRoot, MonitorTree, MasterStep, OnRoot, NodeNext
  <1>2. n \in Slave /\ (SlaveOnRoot(n) \/ ReleaseTree(n)) => NodeNext /\ UNCHANGED subVars
    BY DEF SlaveOnRoot, ReleaseTree, SlaveStep, OnRoot, NodeNext
  <1>3. RootWrite(n) \/ RestartTree(n) => NodeNext /\ UNCHANGED subVars
    BY DEF RootWrite, RestartTree, NodeNext
  <1> QED
    BY <1>1, <1>2, <1>3 DEF TreeStep, OnSub, OnSubBus

(* What a step leaves as it is keeps its type. *)
LEMMA SubKept ==
    ASSUME TreeTypes, TypeOK', UNCHANGED subVars
    PROVE  SubP!TypeOK' /\ SubHolds'
  <1>1. SubP!TypeOK
    BY SameType DEF TreeTypes, SubTypeOK
  <1>2. ledger' \in SubP!Entry \cup {NoEntry} /\ crashes' \in 0..MaxCrashes
    BY SameSets DEF TypeOK
  <1> QED
    BY <1>1, <1>2 DEF TreeTypes, SubHolds, SubP!FramesIn, subVars, SubP!TypeOK

LEMMA RootKept ==
    ASSUME TypeOK, SubP!TypeOK', UNCHANGED rootVars
    PROVE  TypeOK'
  <1>1. ledger' \in Entry \cup {NoEntry} /\ crashes' \in 0..MaxCrashes
    BY SameSets DEF SubP!TypeOK
  <1> QED
    BY <1>1 DEF TypeOK, rootVars

LEMMA SubFiles ==
    ASSUME TreeTypes, NEW n \in Client, SubWrite(n) \/ Sub!Crash(n)
    PROVE  SubP!TypeOK' /\ SubHolds'
  <1>1. SubP!TypeOK
    BY SameType DEF TreeTypes, SubTypeOK
  <1> QED
    BY <1>1, SameWrite, SubAssumptions, SubP!FileStepType, SubP!FileStepFrames
       DEF TreeTypes, SubHolds

LEMMA TreeBusTypes ==
    ASSUME TreeTypes, NEW n \in Client, TreeStep(n) \/ CrashTree(n) \/ RestartTree(n)
    PROVE  NodeTypeOK' /\ SubP!TypeOK' /\ SubHolds'
  <1>1. NodeTypeOK /\ TypeOK /\ NodeTypes /\ SubP!TypeOK
    BY SameType DEF TreeTypes, SubTypeOK, NodeTypeOK, NodeTypes
  <1>2. CASE NodeNext /\ UNCHANGED subVars
    <2>1. NodeTypeOK' /\ TypeOK'
      BY <1>1, <1>2, NodeTypeStep DEF NodeTypeOK
    <2> QED
      BY <1>2, <2>1, SubKept
  <1>3. TypeOK' /\ NodeTypes' => NodeTypeOK'
    BY DEF NodeTypeOK, NodeTypes
  <1>4. UNCHANGED <<pc, nodeVars>> => NodeTypes'
    BY <1>1 DEF nodeVars, NodeTypes
  <1>5. GoTo(n, "failed") /\ pc[n] = "idle" /\ pc' = pc
            /\ UNCHANGED <<peer, busy, restarts, commands, executions>> => NodeTypes'
    BY <1>1, EndTypes
  <1>6. CASE RegisterChild(n)
    <2>1. CASE Readable
      <3>1. busData \in Frame
        BY <1>1, <2>1, ReadableFrame DEF TypeOK
      <3>2. [busData EXCEPT !.Child_Buses = {SubId}] \in Frame /\ busData.status \in Status
        BY <3>1, SubBusAssumption DEF Frame
      <3>3. BeginWrite(n, busData.status, [busData EXCEPT !.Child_Buses = {SubId}], NoAid)
        BY <1>6, <2>1 DEF RegisterChild, RawWrite
      <3>4. TypeOK'
        BY <1>1, <3>2, <3>3, BeginWriteType
      <3>5. pc' = [pc EXCEPT ![n] = "open"]
        BY <3>3 DEF BeginWrite
      <3>6. NodeTypes'
        BY <1>1, <1>6, <3>5 DEF NodeTypes, TypeOK, RegisterChild, nodeVars
      <3> QED
        BY <1>3, <1>6, <3>4, <3>6, SubKept DEF RegisterChild, nodeVars
    <2>2. CASE ~Readable
      <3>1. UNCHANGED vars /\ UNCHANGED nodeVars /\ UNCHANGED subVars
        BY <1>6, <2>2 DEF RegisterChild, nodeVars
      <3>2. TypeOK' /\ NodeTypes'
        BY <1>1, <1>4, <3>1 DEF vars, TypeOK
      <3> QED
        BY <1>3, <3>1, <3>2, SubKept
    <2> QED
      BY <2>1, <2>2
  <1>7. CASE OnSubBus(n)
    <2>1. SubP!TypeOK' /\ SubHolds'
      BY <1>7, SubCalls
    <2>2. /\ UNCHANGED rootVars
          /\ \/ UNCHANGED nodeVars
             \/ /\ GoTo(n, "failed") /\ pc[n] = "idle"
                /\ UNCHANGED <<peer, busy, restarts, commands, executions>>
      BY <1>7 DEF OnSubBus, CreateSub, ProbeSub, ClearSub, Here, nodeVars
    <2>3. TypeOK' /\ pc' = pc
      BY <1>1, <2>1, <2>2, RootKept DEF rootVars
    <2> QED
      BY <1>3, <1>4, <1>5, <2>1, <2>2, <2>3
  <1>8. CASE SubWrite(n)
    <2>1. SubP!TypeOK' /\ SubHolds'
      BY <1>8, SubFiles
    <2>2. pc[n] = "idle"
      BY <1>8 DEF SubWrite, Sub!Open, Sub!Flush, Sub!Replace, Sub!AppendLedger,
                  Sub!ReplaceFails, TreeTypes, SubTypeOK
    <2>3. /\ UNCHANGED rootVars
          /\ \/ UNCHANGED nodeVars
             \/ /\ GoTo(n, "failed")
                /\ UNCHANGED <<peer, busy, restarts, commands, executions>>
      BY <1>8 DEF SubWrite, nodeVars
    <2>4. TypeOK' /\ pc' = pc
      BY <1>1, <2>1, <2>3, RootKept DEF rootVars
    <2> QED
      BY <1>3, <1>4, <1>5, <2>1, <2>2, <2>3, <2>4
  <1>9. CASE CrashTree(n)
    <2>1. SubP!TypeOK' /\ SubHolds' /\ TypeOK'
      BY <1>1, <1>9, SubFiles, FileStepType DEF CrashTree
    <2>2. \A d \in Client : pc'[d] # "idle" => d # n /\ pc[d] # "idle"
      BY <1>1, <1>9 DEF CrashTree, Crash, Return, TypeOK
    <2> QED
      BY <1>1, <1>3, <1>9, <2>1, <2>2, EndTypes DEF CrashTree
  <1> QED
    BY <1>2, <1>6, <1>7, <1>8, <1>9, TreeKinds


-----------------------------------------------------------------------------
(* Where the programs are. *)

(* A step of n leaves the others where they are. *)
OthersStay(n) ==
    \A d \in Client \ {n} : place'[d] = place[d] /\ stage'[d] = stage[d]
                                /\ pc'[d] = pc[d] /\ subPc'[d] = subPc[d]

LEMMA NodeMoves ==
    ASSUME NodeTypeOK, NEW n \in Client,
           \/ n \in Master /\ MasterStep(n)
           \/ n \in Slave /\ SlaveStep(n)
           \/ WriteStep(n)
           \/ Restart(n)
    PROVE  /\ \A d \in Client \ {n} : stage'[d] = stage[d] /\ pc'[d] = pc[d]
           /\ n \in Master => (stage'[n] = "monitor" => stage[n] \in {"command", "monitor"})
  <1>1. TypeOK /\ stage \in [Client -> MasterStage \cup SlaveStage \cup Stopped]
    BY DEF NodeTypeOK
  <1>2. \A next : GoTo(n, next) => /\ \A d \in Client \ {n} : stage'[d] = stage[d]
                                   /\ stage'[n] = next
    BY <1>1 DEF GoTo
  <1>3. UNCHANGED vars => pc' = pc
    BY DEF vars
  <1>4. \A from, new, by : BeginWrite(n, from, new, by) => \A d \in Client \ {n} : pc'[d] = pc[d]
    BY <1>1 DEF BeginWrite, TypeOK
  <1>5. CASE n \in Master /\ MasterStep(n)
    <2>1. \A d \in Client \ {n} : pc'[d] = pc[d]
      BY <1>3, <1>4, <1>5, MasterCalls
    <2>2. CASE Start(n) \/ Create(n) \/ Await(n) \/ Monitor(n)
      BY <1>1, <1>2, <2>1, <2>2 DEF Start, Create, Await, Monitor, At, Counted
    <2>3. CASE Reset(n) \/ Probe(n) \/ Lock(n) \/ GiveUp(n) \/ Command(n)
      BY <1>1, <1>2, <2>1, <2>3
         DEF Reset, Probe, Lock, GiveUp, Command, At, TryTransition, TryForceTransition
    <2> QED
      BY <1>5, <2>2, <2>3 DEF MasterStep
  <1>6. CASE n \in Slave /\ SlaveStep(n)
    <2>1. \A d \in Client \ {n} : pc'[d] = pc[d]
      BY <1>3, <1>4, <1>6, SlaveWrites DEF RawWrite
    <2> QED
      BY <1>1, <1>2, <1>6, <2>1, NodesAssumption
         DEF SlaveStep, Ack, Execute, Beat, Release, nodeVars
  <1>7. CASE WriteStep(n)
    <2>1. \A d \in Client \ {n} : pc'[d] = pc[d]
      BY <1>1, <1>7 DEF WriteStep, Open, Flush, Replace, AppendLedger, ReplaceFails, Return, TypeOK
    <2> QED
      BY <1>1, <1>2, <1>7, <2>1 DEF WriteStep, nodeVars
  <1>8. CASE Restart(n)
    BY <1>1, <1>2, <1>3, <1>8 DEF Restart, First
  <1> QED
    BY <1>5, <1>6, <1>7, <1>8

(* What a step on the sub-bus leaves to the others. *)
LEMMA SubMoves ==
    ASSUME SubTypeOK, NEW n \in Client,
           \/ UNCHANGED subVars
           \/ \E from, new, by : SubP!BeginWrite(n, from, new, by)
           \/ SubP!Continue(n) \/ SubP!Crash(n)
    PROVE  \A d \in Client \ {n} : subPc'[d] = subPc[d]
  BY SameType
     DEF SubTypeOK, subVars, SubP!TypeOK, SubP!BeginWrite, SubP!Continue, SubP!Crash, SubP!Open,
         SubP!Flush, SubP!Replace, SubP!ReplaceFails, SubP!AppendLedger, SubP!Return

Placed(n) ==
    /\ place[n] \in Place
    /\ pc[n] = "idle" \/ subPc[n] = "idle"
    /\ stage[n] \in {"failed", "down"} => place[n] = "off" /\ pc[n] = "idle" /\ subPc[n] = "idle"
    /\ place[n] # "off" => n \in SubMaster \cup Trunk
    /\ place[n] \in {"register", "probe", "over"} => n \in Master
    /\ place[n] \in {"register", "create", "probe", "work"} /\ n \in Master => stage[n] = "monitor"

LEMMA MoveTo ==
    ASSUME place \in [Client -> Place], NEW n \in Client, NEW to, Move(n, to)
    PROVE  place'[n] = to /\ \A d \in Client \ {n} : place'[d] = place[d]
  BY DEF Move

LEMMA PlacesFromSteps ==
    ASSUME TreeTypes, NodeTypeOK', SubP!TypeOK', NEW n \in Client, OthersStay(n), Placed(n)',
           place' = [place EXCEPT ![n] = place'[n]], troubled' \in BOOLEAN
    PROVE  SubTypeOK' /\ PlaceInv'
  <1>1. \A d \in Client : Placed(d)
    BY DEF TreeTypes, SubTypeOK, PlaceInv, Placed
  <1>2. \A d \in Client : Placed(d)'
    BY <1>1 DEF OthersStay, Placed
  <1>3. Sub!TypeOK' <=> SubP!TypeOK'
    BY SameType, PTL
  <1> QED
    BY <1>2, <1>3 DEF TreeTypes, SubTypeOK, PlaceInv, Placed


LEMMA TreeOthers ==
    ASSUME TreeTypes, NEW n \in Client, TreeStep(n) \/ CrashTree(n) \/ RestartTree(n)
    PROVE  OthersStay(n) /\ place' = [place EXCEPT ![n] = place'[n]]
  <1>1. /\ SubTypeOK /\ NodeTypeOK /\ TypeOK /\ place \in [Client -> Place]
        /\ stage \in [Client -> MasterStage \cup SlaveStage \cup Stopped]
    BY DEF TreeTypes, SubTypeOK, NodeTypeOK
  <1>2. place' = place \/ \E to : Move(n, to)
    BY DEF TreeStep, MasterOnRoot, MonitorTree, SlaveOnRoot, ReleaseTree, OnSub, RegisterChild,
           CreateSub, ProbeSub, ClearSub, RootWrite, SubWrite, CrashTree, RestartTree
  <1>3. /\ place' = [place EXCEPT ![n] = place'[n]]
        /\ \A d \in Client \ {n} : place'[d] = place[d]
    BY <1>1, <1>2 DEF Move
  <1>4. \A d \in Client \ {n} : subPc'[d] = subPc[d]
    <2>1. \/ UNCHANGED subVars \/ OnSubBus(n) \/ SubWrite(n) \/ Sub!Crash(n)
      BY TreeKinds DEF RegisterChild, CrashTree
    <2> QED
      BY <1>1, <2>1, SubCalls, SameWrite, SubMoves
  <1>5. \A d \in Client \ {n} : stage'[d] = stage[d] /\ pc'[d] = pc[d]
    <2>1. CASE \/ n \in Master /\ (MasterOnRoot(n) \/ MonitorTree(n))
               \/ n \in Slave /\ (SlaveOnRoot(n) \/ ReleaseTree(n))
               \/ RootWrite(n) \/ RestartTree(n)
      BY <1>1, <2>1, NodeMoves
         DEF MasterOnRoot, MonitorTree, MasterStep, SlaveOnRoot, ReleaseTree, SlaveStep,
             RootWrite, RestartTree
    <2>2. CASE RegisterChild(n)
      BY <1>1, <2>2 DEF RegisterChild, RawWrite, BeginWrite, vars, nodeVars, TypeOK
    <2>3. CASE OnSubBus(n) \/ SubWrite(n)
      BY <1>1, <2>3
         DEF OnSubBus, CreateSub, ProbeSub, ClearSub, SubWrite, rootVars, nodeVars, GoTo
    <2>4. CASE CrashTree(n)
      BY <1>1, <2>4 DEF CrashTree, Crash, Return, GoTo, TypeOK
    <2> QED
      BY <2>1, <2>2, <2>3, <2>4 DEF TreeStep, OnSub, OnSubBus
  <1> QED
    BY <1>3, <1>4, <1>5 DEF OthersStay

(* One step per action. *)
LEMMA TreePlaces ==
    ASSUME TreeTypes, NodeTypeOK', NEW n \in Client,
           TreeStep(n) \/ CrashTree(n) \/ RestartTree(n)
    PROVE  Placed(n)'
  <1>1. /\ SubTypeOK /\ NodeTypeOK /\ TypeOK /\ place \in [Client -> Place]
        /\ stage \in [Client -> MasterStage \cup SlaveStage \cup Stopped]
        /\ Placed(n)
    BY DEF TreeTypes, SubTypeOK, NodeTypeOK, PlaceInv, Placed
  <1>2. stage'[n] \in {"failed", "down"} => pc'[n] = "idle"
    BY DEF NodeTypeOK
  <1>3. (\A to : Move(n, to) => place'[n] = to) /\ (UNCHANGED place => place'[n] = place[n])
    BY <1>1 DEF Move
  <1>4. \A next : GoTo(n, next) => stage'[n] = next
    BY <1>1 DEF GoTo
  <1>5. UNCHANGED subVars => subPc'[n] = subPc[n]
    BY DEF subVars
  <1>6. SubMaster \subseteq Master /\ Trunk \subseteq Slave /\ Master \cap Slave = {}
    BY SubBusAssumption, NodesAssumption
  <1>7. ASSUME n \in Master, MasterOnRoot(n)
        PROVE  Placed(n)'
    BY <1>2, <1>3, <1>5, <1>6, <1>7 DEF MasterOnRoot, OnRoot, Placed, Place
  <1>8. ASSUME n \in Master, MonitorTree(n)
        PROVE  Placed(n)'
    <2>1. stage[n] = "monitor" /\ stage'[n] \in {"monitor", "done"} /\ pc'[n] = "idle"
      BY <1>1, <1>4, <1>8 DEF MonitorTree, Monitor, At, vars
    <2> QED
      BY <1>1, <1>3, <1>5, <1>6, <1>8, <2>1 DEF MonitorTree, OnRoot, Placed, Place
  <1>9. ASSUME n \in Slave, SlaveOnRoot(n) \/ ReleaseTree(n)
        PROVE  Placed(n)'
    <2>1. stage'[n] \in {"listen", "beat"}
      BY <1>1, <1>4, <1>9
         DEF SlaveOnRoot, ReleaseTree, Ack, Execute, Beat, Release, At, nodeVars
    <2> QED
      BY <1>1, <1>3, <1>5, <1>6, <1>9, <2>1 DEF SlaveOnRoot, ReleaseTree, OnRoot, Placed, Place
  <1>10. CASE RegisterChild(n)
    BY <1>1, <1>3, <1>5, <1>6, <1>10 DEF RegisterChild, Here, nodeVars, Placed, Place
  <1>11. CASE CreateSub(n)
    BY <1>1, <1>3, <1>6, <1>11, NodesAssumption
       DEF CreateSub, Here, rootVars, nodeVars, Placed, Place
  <1>12. CASE ProbeSub(n)
    BY <1>1, <1>3, <1>4, <1>5, <1>6, <1>12 DEF ProbeSub, Here, rootVars, subVars, Placed, Place
  <1>13. CASE ClearSub(n)
    BY <1>1, <1>3, <1>6, <1>13, NodesAssumption
       DEF ClearSub, Here, rootVars, nodeVars, Placed, Place
  <1>14. CASE RootWrite(n)
    <2>1. subPc[n] = "idle" /\ stage[n] \notin {"failed", "down"}
      BY <1>1, <1>14 DEF RootWrite, WriteStep, Open, Flush, Replace, AppendLedger, ReplaceFails,
                         Placed
    <2>2. stage'[n] \in {stage[n], "failed"}
      BY <1>4, <1>14 DEF RootWrite, WriteStep, nodeVars
    <2> QED
      BY <1>1, <1>2, <1>3, <1>5, <1>14, <2>1, <2>2 DEF RootWrite, Placed, Place
  <1>15. CASE SubWrite(n)
    <2>1. subPc[n] # "idle"
      BY <1>15 DEF SubWrite, Sub!Open, Sub!Flush, Sub!Replace, Sub!AppendLedger, Sub!ReplaceFails
    <2>2. pc'[n] = pc[n] /\ pc[n] = "idle" /\ stage[n] \notin {"failed", "down"}
      BY <1>1, <1>15, <2>1 DEF SubWrite, rootVars, Placed
    <2>3. CASE UNCHANGED <<nodeVars, place>>
      BY <1>1, <2>2, <2>3 DEF nodeVars, Placed
    <2>4. CASE Sub!ReplaceFails(n) /\ GoTo(n, "failed") /\ Move(n, "off")
      <3>1. subPc'[n] = "idle"
        BY <1>1, <2>4, SameType DEF SubTypeOK, Sub!ReplaceFails, Sub!Return, Sub!TypeOK
      <3> QED
        BY <1>3, <2>2, <2>4, <3>1 DEF Placed, Place
    <2> QED
      BY <1>15, <2>3, <2>4 DEF SubWrite
  <1>16. CASE CrashTree(n)
    <2>1. subPc'[n] = "idle" /\ pc'[n] = "idle"
      BY <1>1, <1>16 DEF SubTypeOK, CrashTree, Crash, Return, Sub!Crash, Sub!Return, Sub!TypeOK, TypeOK
    <2> QED
      BY <1>3, <1>16, <2>1 DEF CrashTree, Placed, Place
  <1>17. CASE RestartTree(n)
    <2>1. stage'[n] \in {"start", "listen"} /\ pc'[n] = "idle" /\ subPc'[n] = "idle"
      BY <1>4, <1>5, <1>17 DEF RestartTree, Restart, Running, At, First, vars
    <2> QED
      BY <1>3, <1>17, <2>1 DEF RestartTree, Placed, Place
  <1> QED
    BY <1>7, <1>8, <1>9, <1>10, <1>11, <1>12, <1>13, <1>14, <1>15, <1>16, <1>17
       DEF TreeStep, OnSub

LEMMA TreeTypesStep == TreeTypes /\ [TreeNext]_treeVars => TreeTypes'
  <1> SUFFICES ASSUME TreeTypes, [TreeNext]_treeVars PROVE TreeTypes'
    OBVIOUS
  <1>1. CASE UNCHANGED treeVars
    BY <1>1
       DEF treeVars, allVars, vars, nodeVars, subVars, TreeTypes, SubTypeOK, NodeTypeOK, TypeOK,
           Sub!TypeOK, PlaceInv, SubHolds, SubP!FramesIn
  <1>2. ASSUME NEW n \in Client, TreeStep(n) \/ CrashTree(n) \/ RestartTree(n), TroubleKnown
        PROVE  TreeTypes'
    <2>1. troubled' \in BOOLEAN
      BY <1>2 DEF TroubleKnown, TreeTypes, SubTypeOK
    <2>2. NodeTypeOK' /\ SubP!TypeOK' /\ SubHolds'
      BY <1>2, TreeBusTypes
    <2> QED
      BY <1>2, <2>1, <2>2, TreeOthers, TreePlaces, PlacesFromSteps DEF TreeTypes
  <1> QED
    BY <1>1, <1>2 DEF TreeNext

LEMMA TreeTypesInit == SubInit => TreeTypes
  <1> SUFFICES ASSUME SubInit PROVE TreeTypes
    OBVIOUS
  <1>1. NodeTypeOK
    BY TypeInit, NodesAssumption
       DEF SubInit, NodeInit, Init, NodeTypeOK, First, MasterStage, SlaveStage, Stopped
  <1>2. SubP!Init
    BY DEF SubInit, NodeInit, Init, Sub!Init, SubP!Init
  <1>3. SubP!TypeOK
    BY <1>2, SubAssumptions, SubP!TypeInit
  <1>4. SubHolds
    BY <1>2, SubAssumptions, SameSets
       DEF SubP!Init, SubP!BusManagerAssumption, SubHolds, SubP!FramesIn
  <1> QED
    BY <1>1, <1>2, <1>3, <1>4, SameType, NodesAssumption
       DEF SubInit, SubP!Init, TreeTypes, SubTypeOK, PlaceInv, Place, NodeInit, Init, First

(* A program with a sub-bus is at one of its places, works on one of the two buses
   at a time, and neither writes nor goes on with the sub-bus when it was ended or
   has died, for any number of masters and slaves. *)
THEOREM TreesKeepTypes == TreeSpec => []SubTypeOK
  <1>1. TreeTypes => SubTypeOK
    BY DEF TreeTypes
  <1> QED
    BY <1>1, TreeTypesInit, TreeTypesStep, PTL DEF TreeSpec


-----------------------------------------------------------------------------
(* The root bus under the programs with a sub-bus: what the master read before
   and writes again, with the sub-bus in it, has the marks of what it read. *)
ChildFrame == [busData EXCEPT !.Child_Buses = {SubId}]

LEMMA ChildFrameFacts ==
    ASSUME busData \in Frame
    PROVE  /\ ChildFrame \in Frame
           /\ ChildFrame.status = busData.status
           /\ HolderPresent(busData) => HolderPresent(ChildFrame)
           /\ Addressing(busData) => Addressing(ChildFrame)
  <1>1. ChildFrame \in Frame
    BY SubBusAssumption DEF ChildFrame, Frame
  <1>2. /\ ChildFrame.status = busData.status
        /\ ChildFrame.Token_Holder = busData.Token_Holder
        /\ ChildFrame.Target_Aid = busData.Target_Aid
    BY DEF ChildFrame, Frame
  <1> QED
    BY <1>1, <1>2 DEF HolderPresent, Addressing

(* What a step does to the root bus. *)
LEMMA RootSteps ==
    ASSUME TreeTypes, NEW n \in Client, TreeStep(n) \/ CrashTree(n) \/ RestartTree(n)
    PROVE  \/ NodeNext
           \/ /\ RegisterChild(n) /\ Readable /\ busData \in Frame /\ RawWrite(n, ChildFrame)
              /\ n \in Master /\ n \notin Slave
           \/ Crash(n) /\ CrashTree(n)
           \/ /\ UNCHANGED <<rootVars, restarts, commands, executions>>
              /\ UNCHANGED stage \/ GoTo(n, "failed")
  <1>1. TypeOK /\ SubTypeOK
    BY DEF TreeTypes, SubTypeOK, NodeTypeOK
  <1>2. CASE RegisterChild(n)
    <2>1. n \in Master /\ n \notin Slave
      BY <1>2, NodesAssumption DEF TreeTypes, PlaceInv, RegisterChild, Here
    <2>2. Readable => busData \in Frame
      BY <1>1, ReadableFrame DEF TypeOK
    <2> QED
      BY <1>2, <2>1, <2>2 DEF RegisterChild, ChildFrame, vars, rootVars, nodeVars
  <1>3. CASE OnSubBus(n) \/ SubWrite(n)
    BY <1>3 DEF OnSubBus, CreateSub, ProbeSub, ClearSub, SubWrite, nodeVars
  <1>4. CASE CrashTree(n)
    BY <1>4 DEF CrashTree
  <1> QED
    BY <1>2, <1>3, <1>4, TreeKinds

LEMMA TreeHoldersStep == TreeTypes /\ HoldersPresent /\ [TreeNext]_treeVars => HoldersPresent'
  <1> SUFFICES ASSUME TreeTypes, HoldersPresent, [TreeNext]_treeVars PROVE HoldersPresent'
    OBVIOUS
  <1>1. NodeTypeOK /\ TypeOK
    BY DEF TreeTypes, SubTypeOK, NodeTypeOK
  <1>2. UNCHANGED rootVars => HoldersPresent'
    BY DEF rootVars, HoldersPresent, FramesIn
  <1>3. ASSUME NEW n \in Client, Readable, busData \in Frame, RawWrite(n, ChildFrame)
        PROVE  HoldersPresent'
    <2>1. HolderPresent(ChildFrame) /\ ChildFrame \in Frame
      BY <1>3, ChildFrameFacts DEF HoldersPresent, FramesIn
    <2> QED
      BY <1>1, <1>3, <2>1, FramesBegin DEF HoldersPresent, RawWrite
  <1>4. ASSUME NEW n \in Client, Crash(n) PROVE HoldersPresent'
    BY <1>1, <1>4, FileStepFrames DEF HoldersPresent
  <1>5. UNCHANGED treeVars => UNCHANGED rootVars
    BY DEF treeVars, allVars, vars, rootVars
  <1> QED
    BY <1>1, <1>2, <1>3, <1>4, <1>5, HoldersStep, RootSteps DEF TreeNext

(* Both buses name the holder of the token while they are active: the master puts
   back on the root bus what was checked before, and the sub-bus is never active. *)
THEOREM TreesConserveTokens == TreeSpec => []TokensConserved
  <1>1. SubInit => HoldersPresent
    BY HoldersInit DEF SubInit, NodeInit
  <1>2. TreeTypes => Sub!TokenConservation
    <2> SUFFICES ASSUME TreeTypes, Sub!Readable PROVE Sub!HolderPresent(subData)
      BY DEF Sub!TokenConservation
    <2>1. SubP!TypeOK /\ SubP!Readable
      BY SameType DEF TreeTypes, SubTypeOK, Sub!Readable, SubP!Readable
    <2>2. subData \in SubFrames
      BY <2>1, SubAssumptions, SubP!ReadableFrame, SameSets
         DEF SubP!TypeOK, TreeTypes, SubHolds, SubP!FramesIn
    <2> QED
      BY <2>2
         DEF SubFrames, Sub!HolderPresent, Sub!ActiveStates, Sub!SLAVE_PASSIVE,
             Sub!ACTIVE_CONTROL, Sub!LEASE_HEARTBEAT, UNINITIALIZED, PROBE
  <1>3. TreeTypes /\ HoldersPresent => TokenConservation
    BY HoldersHold DEF TreeTypes, SubTypeOK, NodeTypeOK
  <1> QED
    BY <1>1, <1>2, <1>3, TreeTypesInit, TreeTypesStep, TreeHoldersStep, PTL
       DEF TreeSpec, TokensConserved


-----------------------------------------------------------------------------
(* Executions, as in CycloneNodesProofs, with the 102 that the master may put back
   on the root bus. *)
LEMMA TreeAddressStep == TreeTypes /\ AddressInv /\ [TreeNext]_treeVars => AddressInv'
  <1> SUFFICES ASSUME TreeTypes, AddressInv, [TreeNext]_treeVars PROVE AddressInv'
    OBVIOUS
  <1>1. NodeTypeOK /\ TypeOK
    BY DEF TreeTypes, SubTypeOK, NodeTypeOK
  <1>2. UNCHANGED rootVars => AddressInv'
    BY DEF rootVars, AddressInv, FramesIn
  <1>3. ASSUME NEW n \in Client, n \notin Slave, busData \in Frame, RawWrite(n, ChildFrame)
        PROVE  AddressInv'
    <2>1. Addressing(ChildFrame) /\ ChildFrame \in Frame
      BY <1>3, ChildFrameFacts DEF AddressInv, FramesIn
    <2>2. FramesIn({frame \in Frame : Addressing(frame)})'
      BY <1>1, <1>3, <2>1, FramesBegin DEF AddressInv, RawWrite
    <2>3. \A s \in Slave : pend'[s] = pend[s]
      BY <1>1, <1>3, NodesAssumption DEF RawWrite, BeginWrite, TypeOK
    <2> QED
      BY <2>2, <2>3 DEF AddressInv
  <1>4. ASSUME NEW n \in Client, Crash(n) PROVE AddressInv'
    BY <1>1, <1>4, AddressFile
  <1>5. UNCHANGED treeVars => UNCHANGED rootVars
    BY DEF treeVars, allVars, vars, rootVars
  <1> QED
    BY <1>1, <1>2, <1>3, <1>4, <1>5, AddressStep, RootSteps DEF TreeNext

(* A command is spent at most twice: once when it is given, and once when its master
   puts the 102 back.  While the master has that before it, it counts too. *)
Registering == {m \in Client : place[m] = "register"}

TreeSpent ==
    Waiting + executions + Cardinality(Registering) <= 2 * commands + Cardinality(Starts)

LEMMA RegisteringFinite == IsFiniteSet(Registering) /\ Cardinality(Registering) \in Nat
  BY NodesAssumption, FS_Subset, FS_CardinalityType DEF Registering

LEMMA OneMore ==
    ASSUME NEW S, IsFiniteSet(S), Cardinality(S) \in Nat, NEW x
    PROVE  /\ IsFiniteSet(S \cup {x}) /\ Cardinality(S \cup {x}) \in Nat
           /\ Cardinality(S \cup {x}) <= Cardinality(S) + 1
  <1>1. IsFiniteSet(S \cup {x}) /\ Cardinality(S \cup {x}) \in Nat
    BY FS_AddElement, FS_CardinalityType
  <1>2. CASE x \in S
    <2>1. S \cup {x} = S
      BY <1>2
    <2>2. Cardinality(S \cup {x}) = Cardinality(S)
      BY <2>1
    <2>3. \A k \in Nat : k <= k + 1
      OBVIOUS
    <2> QED
      BY <1>1, <2>2, <2>3
  <1>3. CASE x \notin S
    BY <1>1, <1>3, FS_AddElement
  <1> QED
    BY <1>1, <1>2, <1>3

LEMMA RegisteringSteps ==
    ASSUME NEW n \in Client, place \in [Client -> Place], place' = [place EXCEPT ![n] = place'[n]]
    PROVE  /\ Cardinality(Registering)' <= Cardinality(Registering) + 1
           /\ place'[n] # "register" \/ place[n] = "register"
                => Cardinality(Registering)' <= Cardinality(Registering)
           /\ place[n] = "register" /\ place'[n] # "register"
                => Cardinality(Registering)' + 1 <= Cardinality(Registering)
  <1>1. /\ Registering' \subseteq Registering \cup {n}
        /\ place'[n] # "register" \/ place[n] = "register" => Registering' \subseteq Registering
        /\ place[n] = "register" /\ place'[n] # "register"
              => n \in Registering /\ Registering' \subseteq Registering \ {n}
    BY DEF Registering
  <1>2. /\ IsFiniteSet(Registering \cup {n})
        /\ Cardinality(Registering \cup {n}) <= Cardinality(Registering) + 1
        /\ Cardinality(Registering \cup {n}) \in Nat
    BY RegisteringFinite, OneMore
  <1>3. n \in Registering
            => /\ IsFiniteSet(Registering \ {n})
               /\ Cardinality(Registering \ {n}) = Cardinality(Registering) - 1
    BY RegisteringFinite, FS_RemoveElement
  <1>4. Cardinality(Registering') \in Nat
    BY <1>1, <1>2, FS_Subset, FS_CardinalityType
  <1>5. Cardinality(Registering') <= Cardinality(Registering) + 1
    BY <1>1, <1>2, <1>4, RegisteringFinite, FS_Subset
  <1>6. Registering' \subseteq Registering => Cardinality(Registering') <= Cardinality(Registering)
    BY RegisteringFinite, FS_Subset
  <1>7. n \in Registering /\ Registering' \subseteq Registering \ {n}
            => Cardinality(Registering') + 1 <= Cardinality(Registering)
    <2> SUFFICES ASSUME n \in Registering, Registering' \subseteq Registering \ {n}
                 PROVE  Cardinality(Registering') + 1 <= Cardinality(Registering)
      OBVIOUS
    <2>1. Cardinality(Registering') <= Cardinality(Registering \ {n})
      BY <1>3, FS_Subset
    <2> QED
      BY <2>1, <1>3, <1>4, RegisteringFinite
  <1> QED
    BY <1>1, <1>5, <1>6, <1>7

(* The count after a step. *)
LEMMA TreeSpentSum ==
    ASSUME NodeTypeOK, NodeTypeOK', TreeSpent, Cardinality(Registering') \in Nat,
           \/ /\ Paid /\ commands' = commands
              /\ Cardinality(Registering') <= Cardinality(Registering)
           \/ /\ Paid /\ commands' = commands + 1
              /\ Cardinality(Registering') <= Cardinality(Registering) + 1
           \/ /\ executions' = executions /\ commands' = commands /\ Starts' = Starts
              /\ Waiting' <= Waiting + 1
              /\ Cardinality(Registering') + 1 <= Cardinality(Registering)
    PROVE  TreeSpent'
  <1> DEFINE spent  == Waiting + executions
             spent1 == Waiting' + executions'
             given  == Cardinality(Starts)
             given1 == Cardinality(Starts')
             due    == Cardinality(Registering)
             due1   == Cardinality(Registering')
  <1>1. /\ spent \in Nat /\ spent1 \in Nat /\ given \in Nat /\ given1 \in Nat
        /\ due \in Nat /\ due1 \in Nat /\ commands \in Nat /\ commands' \in Nat
    BY CountsType, RegisteringFinite
  <1>2. spent + due <= 2 * commands + given
    BY DEF TreeSpent
  <1>3. \/ /\ spent1 + (commands + given) <= spent + (commands' + given1)
           /\ commands' = commands /\ due1 <= due
        \/ /\ spent1 + (commands + given) <= spent + (commands' + given1)
           /\ commands' = commands + 1 /\ due1 <= due + 1
        \/ commands' = commands /\ given1 = given /\ spent1 <= spent + 1 /\ due1 + 1 <= due
    <2>1. Starts' = Starts => given1 = given
      OBVIOUS
    <2>2. executions' = executions /\ Waiting' <= Waiting + 1 => spent1 <= spent + 1
      <3>1. ASSUME NEW w \in Nat, NEW w1 \in Nat, NEW e \in Nat, w1 <= w + 1
            PROVE  w1 + e <= w + e + 1
        BY <3>1
      <3>2. Waiting \in Nat /\ Waiting' \in Nat /\ executions \in Nat
        BY CountsType
      <3>3. Waiting' <= Waiting + 1 => Waiting' + executions <= Waiting + executions + 1
        BY ONLY <3>1, <3>2, Zenon
      <3> QED
        BY <3>3
    <2> QED
      BY <2>1, <2>2 DEF Paid
  <1> HIDE DEF spent, spent1, given, given1, due, due1
  <1>4. PICK p \in Nat, p1 \in Nat : p = spent /\ p1 = spent1
    BY ONLY <1>1
  <1>5. PICK g \in Nat, g1 \in Nat : g = given /\ g1 = given1
    BY ONLY <1>1
  <1>6. PICK d \in Nat, d1 \in Nat : d = due /\ d1 = due1
    BY ONLY <1>1
  <1>7. PICK c \in Nat, c1 \in Nat : c = commands /\ c1 = commands'
    BY ONLY <1>1
  <1>8. p + d <= 2 * c + g
    BY ONLY <1>2, <1>4, <1>5, <1>6, <1>7
  <1>9. \/ p1 + (c + g) <= p + (c1 + g1) /\ c1 = c /\ d1 <= d
        \/ p1 + (c + g) <= p + (c1 + g1) /\ c1 = c + 1 /\ d1 <= d + 1
        \/ c1 = c /\ g1 = g /\ p1 <= p + 1 /\ d1 + 1 <= d
    BY ONLY <1>3, <1>4, <1>5, <1>6, <1>7
  <1>10. p1 + d1 <= 2 * c1 + g1
    BY <1>8, <1>9
  <1>11. spent1 + due1 <= 2 * commands' + given1
    BY ONLY <1>10, <1>4, <1>5, <1>6, <1>7
  <1>12. Waiting' + executions' + Cardinality(Registering') <= 2 * commands' + Cardinality(Starts')
    BY <1>11 DEF spent1, due1, given1
  <1> QED
    BY <1>12 DEF TreeSpent

LEMMA SpentRegister ==
    ASSUME TreeTypes, NEW n \in Client, RegisterChild(n), busData \in Frame,
           RawWrite(n, ChildFrame), NodeTypeOK'
    PROVE  /\ executions' = executions /\ commands' = commands /\ Starts' = Starts
           /\ Waiting' <= Waiting + 1
  <1>1. NodeTypeOK /\ TypeOK
    BY DEF TreeTypes, SubTypeOK, NodeTypeOK
  <1>2. /\ BeginWrite(n, busData.status, ChildFrame, NoAid)
        /\ executions' = executions /\ commands' = commands /\ Starts' = Starts /\ stage' = stage
    BY DEF RegisterChild, RawWrite, Starts, nodeVars
  <1>3. \A s \in Slave : Engaged(s) => Engaged(s)'
    BY <1>1, <1>2, NodesAssumption DEF BeginWrite, Engaged, TypeOK
  <1>4. Waiting' <= Waiting + IF ChildFrame.status = ACTIVE_CONTROL THEN 1 ELSE 0
    BY <1>1, <1>2, <1>3, SpentBegin
  <1>5. Waiting \in Nat /\ Waiting' \in Nat
    BY <1>1, CountsType
  <1> QED
    BY <1>2, <1>4, <1>5

LEMMA PaidAside ==
    ASSUME NodeTypeOK, NodeTypeOK', NEW n \in Client,
           UNCHANGED <<rootVars, restarts, commands, executions>>,
           UNCHANGED stage \/ GoTo(n, "failed")
    PROVE  Paid
  <1>1. \A s \in Slave : Engaged(s) => Engaged(s)'
    BY NodesAssumption DEF rootVars, Engaged, GoTo, NodeTypeOK
  <1>2. Hands' = Hands /\ Temps' = Temps /\ Starts' = Starts /\ (Waits' => Waits)
    BY <1>1 DEF rootVars, Hands, Temps, Starts, Waits
  <1>3. Waiting' <= Waiting
    BY <1>2, PlacesFinite DEF Waiting
  <1> QED
    BY <1>2, <1>3, PaidSum

(* Only a command leads to an entry of the sub-bus. *)
LEMMA CommandsGiven ==
    ASSUME TreeTypes, NEW n \in Client, TreeStep(n) \/ CrashTree(n) \/ RestartTree(n)
    PROVE  /\ commands' = commands \/ commands' = commands + 1
           /\ commands' = commands /\ place'[n] = "register" => place[n] = "register"
  <1>1. /\ place \in [Client -> Place] /\ TypeOK /\ NodeTypeOK
        /\ stage \in [Client -> MasterStage \cup SlaveStage \cup Stopped]
        /\ commands \in Nat
    BY DEF TreeTypes, SubTypeOK, NodeTypeOK
  <1>2. (\A to : Move(n, to) => place'[n] = to) /\ (UNCHANGED place => place'[n] = place[n])
    BY <1>1 DEF Move
  <1>3. CASE n \in Master /\ Command(n)
    <2>1. commands' = IF pc'[n] = "idle" THEN commands ELSE commands + 1
      BY <1>3 DEF Command
    <2>2. stage'[n] = "monitor" => pc'[n] = "open"
      <3> DEFINE p == [NoUpdate EXCEPT !.Request = Task, !.Token_Holder = AidOf[n]]
      <3>1. TryTransition(n, ACTIVE_CONTROL, p, "monitor")
        BY <1>3 DEF Command
      <3> HIDE DEF p
      <3>2. GoTo(n, "failed") => stage'[n] # "monitor"
        BY <1>1 DEF GoTo
      <3>3. Transition(n, ACTIVE_CONTROL, p) => pc'[n] = "open"
        BY <1>1 DEF Transition, BeginWrite, TypeOK
      <3> QED
        BY <3>1, <3>2, <3>3 DEF TryTransition
    <2>3. stage'[n] # "monitor" /\ MasterOnRoot(n) => UNCHANGED place
      BY <1>3, <1>1
         DEF MasterOnRoot, Start, Create, Reset, Probe, Await, Lock, GiveUp, Command, At
    <2>4. stage'[n] # "monitor" /\ (TreeStep(n) \/ CrashTree(n) \/ RestartTree(n))
              => place'[n] # "register" \/ place[n] = "register"
      BY <1>2, <2>3, <1>3, NodesAssumption
         DEF TreeStep, MonitorTree, SlaveOnRoot, ReleaseTree, OnSub, RegisterChild,
             CreateSub, ProbeSub, ClearSub, RootWrite, SubWrite, CrashTree, RestartTree
    <2> QED
      BY <1>1, <2>1, <2>2, <2>4
  <1>4. CASE ~(n \in Master /\ Command(n))
    <2>1. place'[n] = "register" => place[n] = "register"
      BY <1>2, <1>4
         DEF TreeStep, MasterOnRoot, MonitorTree, SlaveOnRoot, ReleaseTree, OnSub, RegisterChild,
             CreateSub, ProbeSub, ClearSub, RootWrite, SubWrite, CrashTree, RestartTree
    <2>2. commands' = commands
      BY <1>4
         DEF TreeStep, MasterOnRoot, Start, Create, Reset, Probe, Await, Lock, GiveUp,
             MonitorTree, Monitor, SlaveOnRoot, Ack, Execute, Beat, ReleaseTree, Release,
             OnSub, RegisterChild, CreateSub, ProbeSub, ClearSub, RootWrite, WriteStep, SubWrite,
             CrashTree, RestartTree, Restart, nodeVars
    <2> QED
      BY <2>1, <2>2
  <1> QED
    BY <1>3, <1>4

LEMMA TreeSpentStep ==
    ASSUME TreeTypes, TreeTypes', AddressInv, SlavesDiffer, TreeSpent, [TreeNext]_treeVars
    PROVE  TreeSpent'
  <1>1. NodeTypeOK /\ NodeTypeOK' /\ place \in [Client -> Place]
    BY DEF TreeTypes, SubTypeOK
  <1>2. Cardinality(Registering') \in Nat
    <2>1. (Cardinality(Registering) \in Nat)'
      BY RegisteringFinite, PTL
    <2> QED
      BY <2>1
  <1>3. CASE UNCHANGED treeVars
    BY <1>3 DEF treeVars, allVars, vars, nodeVars, TreeSpent, Registering, Waiting, Hands, Temps,
                Waits, Engaged, Starts
  <1>4. ASSUME NEW n \in Client, TreeStep(n) \/ CrashTree(n) \/ RestartTree(n)
        PROVE  TreeSpent'
    <2>1. /\ Cardinality(Registering') <= Cardinality(Registering) + 1
          /\ place'[n] # "register" \/ place[n] = "register"
                => Cardinality(Registering') <= Cardinality(Registering)
          /\ place[n] = "register" /\ place'[n] # "register"
                => Cardinality(Registering') + 1 <= Cardinality(Registering)
      BY <1>1, <1>4, TreeOthers, RegisteringSteps
    <2>2. CASE Paid
      BY <1>1, <1>2, <1>4, <2>1, <2>2, CommandsGiven, TreeSpentSum
    <2>3. CASE RegisterChild(n) /\ busData \in Frame /\ RawWrite(n, ChildFrame)
      <3>1. place[n] = "register" /\ place'[n] = "create"
        BY <1>1, <2>3 DEF RegisterChild, Here, Move
      <3> QED
        BY <1>1, <1>2, <2>1, <2>3, <3>1, SpentRegister, TreeSpentSum
    <2>4. CASE NodeNext
      BY <1>1, <2>2, <2>4, PaidStep
    <2>5. CASE CrashTree(n)
      BY <1>1, <2>2, <2>5, PaidProcess DEF CrashTree
    <2>6. CASE /\ UNCHANGED <<rootVars, restarts, commands, executions>>
               /\ UNCHANGED stage \/ GoTo(n, "failed")
      BY <1>1, <2>2, <2>6, PaidAside
    <2> QED
      BY <1>4, <2>3, <2>4, <2>5, <2>6, RootSteps
  <1> QED
    BY <1>3, <1>4 DEF TreeNext

LEMMA TreeSpentInit == SubInit => TreeSpent
  <1> SUFFICES ASSUME SubInit PROVE TreeSpent
    OBVIOUS
  <1>1. Spent /\ commands = 0
    BY SpentInit DEF SubInit, NodeInit
  <1>2. Registering = {}
    BY DEF SubInit, Registering
  <1>3. Cardinality(Registering) = 0
    BY <1>2, FS_EmptySet
  <1>4. executions = 0 /\ Waiting \in Nat /\ Cardinality(Starts) \in Nat
    BY PlacesFinite DEF SubInit, NodeInit, Waiting
  <1> QED
    BY <1>1, <1>3, <1>4 DEF Spent, TreeSpent

LEMMA TreeSpentBounds == NodeTypeOK /\ (SlavesDiffer => TreeSpent) => ExecutionsPaired
  <1> SUFFICES ASSUME NodeTypeOK, TreeSpent
               PROVE  executions <= 2 * commands + Cardinality(Starts)
    BY DEF ExecutionsPaired, Starts
  <1> DEFINE given == Cardinality(Starts)
             due   == Cardinality(Registering)
  <1>1. /\ Waiting \in Nat /\ given \in Nat /\ due \in Nat
        /\ executions \in Nat /\ commands \in Nat
    BY PlacesFinite, RegisteringFinite DEF Waiting, NodeTypeOK
  <1>2. Waiting + executions + due <= 2 * commands + given
    BY DEF TreeSpent
  <1> HIDE DEF given, due
  <1>3. ASSUME NEW w \in Nat, NEW e \in Nat, NEW d \in Nat, NEW c \in Nat, NEW s \in Nat,
               w + e + d <= 2 * c + s
        PROVE  e <= 2 * c + s
    BY <1>3
  <1>4. executions <= 2 * commands + given
    BY ONLY <1>1, <1>2, <1>3, Zenon
  <1> QED
    BY <1>4 DEF given

(* With a sub-bus a command is executed at most twice, once for being given and once
   for being put back by its master, and once more for every time a slave was started
   again. *)
THEOREM TreesBoundExecutions == TreeSpec => []ExecutionsPaired
  <1>1. SubInit => AddressInv /\ TreeSpent
    BY AddressInit, TreeSpentInit DEF SubInit, NodeInit
  <1>2. TreeTypes /\ TreeTypes' /\ AddressInv /\ (SlavesDiffer => TreeSpent) /\ [TreeNext]_treeVars
            => AddressInv' /\ (SlavesDiffer' => TreeSpent')
    BY TreeAddressStep, TreeSpentStep DEF SlavesDiffer
  <1>3. TreeTypes /\ (SlavesDiffer => TreeSpent) => ExecutionsPaired
    BY TreeSpentBounds DEF TreeTypes, SubTypeOK
  <1> QED
    BY <1>1, <1>2, <1>3, TreeTypesInit, TreeTypesStep, PTL DEF TreeSpec


-----------------------------------------------------------------------------
(* The release of the sub-bus.  With one master on it and nobody dead, a 001 is in
   that master's hands, in the temporary file just before its rename, or on the
   sub-bus while the master works or clears it.  When its 000 is about to replace
   a 001 the temporary file is there: whoever took it away has put the 000, or
   what is no frame, on the sub-bus already. *)
Probed(x) == x \in Frame /\ x.status = PROBE

Kept(m) ==
    /\ \A c \in Client : subPend[c] # NoWrite /\ subPend[c].new.status = PROBE
                            => c = m /\ place[m] = "work"
    /\ Probed(subTemp[SubId]) => place[m] = "work" /\ subPc[m] = "replace"
    /\ Probed(subData) => \/ place[m] \in {"work", "clear"}
                          \/ place[m] = "over" /\ subPc[m] \in {"open", "flush", "replace"}
    /\ Probed(subData) /\ place[m] = "over" /\ subPc[m] \in {"flush", "replace"}
          => subTemp[SubId] # Absent

ReleaseInv == OneSubMaster /\ ~troubled => \A m \in SubMaster : Kept(m)

NobodyEnded == \A n \in Client : stage'[n] \notin {"failed", "down"}

(* Steps that leave the sub-bus alone. *)
LEMMA AsidePlaces ==
    ASSUME TreeTypes, TreeTypes', NobodyEnded, NEW m \in SubMaster, NEW n \in Client,
           TreeStep(n) \/ CrashTree(n) \/ RestartTree(n), ~OnSubBus(n), ~SubWrite(n)
    PROVE  /\ UNCHANGED subVars
           /\ \/ place'[m] = place[m]
              \/ /\ subPc[m] = "idle" /\ place'[m] # "over"
                 /\ place[m] = "work" => place'[m] = "clear"
                 /\ place[m] # "clear"
  <1>1. m \in Client /\ m \in Master /\ m \notin Slave
    BY SubBusAssumption, NodesAssumption
  <1>2. /\ stage \in [Client -> MasterStage \cup SlaveStage \cup Stopped]
        /\ place \in [Client -> Place] /\ PlaceInv
    BY DEF TreeTypes, SubTypeOK, NodeTypeOK
  <1>3. ~CrashTree(n)
    BY <1>2 DEF CrashTree, GoTo, NobodyEnded
  <1>4. UNCHANGED subVars
    BY <1>3, TreeKinds DEF RegisterChild
  <1>5. (\A to : Move(n, to) => place'[n] = to) /\ (UNCHANGED place => place'[n] = place[n])
    BY <1>2 DEF Move
  <1>6. CASE n # m
    BY <1>1, <1>4, <1>6, TreeOthers DEF OthersStay
  <1>7. CASE n = m
    <2>1. CASE MasterOnRoot(n)
      BY <1>5, <1>7, <2>1 DEF MasterOnRoot, OnRoot
    <2>2. CASE MonitorTree(n)
      BY <1>5, <1>7, <2>2 DEF MonitorTree, OnRoot
    <2>3. CASE RegisterChild(n)
      BY <1>5, <1>7, <2>3 DEF RegisterChild, Here
    <2>4. CASE RootWrite(n)
      BY <1>5, <1>7, <2>4 DEF RootWrite, NobodyEnded
    <2>5. CASE RestartTree(n)
      <3>1. stage[n] # "monitor" /\ subPc[n] = "idle" /\ place[n] # "clear"
        BY <2>5 DEF RestartTree, Restart, At, Running
      <3> QED
        BY <1>1, <1>2, <1>5, <1>7, <2>5, <3>1 DEF RestartTree, PlaceInv
    <2> QED
      BY <1>1, <1>3, <1>7, <2>1, <2>2, <2>3, <2>4, <2>5 DEF TreeStep, OnSub, OnSubBus
  <1> QED
    BY <1>4, <1>6, <1>7

LEMMA AsideKept ==
    ASSUME TreeTypes, TreeTypes', NobodyEnded, NEW m \in SubMaster, Kept(m), NEW n \in Client,
           TreeStep(n) \/ CrashTree(n) \/ RestartTree(n), ~OnSubBus(n), ~SubWrite(n)
    PROVE  Kept(m)'
  <1>1. m \in Client
    BY SubBusAssumption, NodesAssumption
  <1>2. subPc[m] = "idle" => subPend[m] = NoWrite
    BY <1>1 DEF TreeTypes, SubTypeOK, Sub!TypeOK
  <1>3. UNCHANGED <<subData, subTemp, subPc, subPend>>
    BY AsidePlaces DEF subVars
  <1>4. CASE place'[m] = place[m]
    BY <1>3, <1>4 DEF Kept
  <1>5. CASE /\ subPc[m] = "idle" /\ place'[m] # "over"
             /\ place[m] = "work" => place'[m] = "clear"
             /\ place[m] # "clear"
    BY <1>1, <1>2, <1>3, <1>5 DEF Kept
  <1> QED
    BY <1>4, <1>5, AsidePlaces

(* A clearing is not refused while the master's probe is on the sub-bus. *)
LEMMA ClearAdmitted ==
    ASSUME TreeTypes, NEW n \in Client, ClearSub(n), Probed(subData)
    PROVE  SubP!ForceTransition(n, UNINITIALIZED)
  <1>1. SubP!TypeOK /\ SubHolds
    BY SameType DEF TreeTypes, SubTypeOK
  <1>2. SubP!Readable /\ SubP!CurrentFrame(n) = subData /\ subData \in SubFrames
    BY <1>1, SubCurrent DEF Probed
  <1>3. Sub!CurrentFrame(n) = subData
    BY <1>2, SameFrames
  <1>4. Sub!ValidateTransition(subData.status, UNINITIALIZED)
    BY DEF Probed, Sub!ValidateTransition, Sub!ValidTransitions, Sub!UNINITIALIZED, Sub!PROBE,
           Sub!HANDSHAKE_ACK, Sub!SLAVE_PASSIVE, Sub!ACTIVE_CONTROL, Sub!RELEASE_SUCCESS,
           Sub!RELEASE_FAILED, UNINITIALIZED, PROBE
  <1>5. /\ Sub!ForcedFrame(subData, UNINITIALIZED).status = UNINITIALIZED
        /\ Sub!ForcedFrame(subData, UNINITIALIZED).Child_Buses = {}
    BY <1>2 DEF Sub!ForcedFrame, Sub!NextFrame, SubFrames, Frame
  <1>6. Sub!AssertInvariants(Sub!ForcedFrame(subData, UNINITIALIZED))
    BY <1>5 DEF Sub!AssertInvariants, Sub!HolderPresent, Sub!NotOrphanParent, Sub!ActiveStates,
                Sub!SLAVE_PASSIVE, Sub!ACTIVE_CONTROL, Sub!LEASE_HEARTBEAT, UNINITIALIZED
  <1>7. ValidateTransition(subData.status, UNINITIALIZED)
    BY DEF Probed, ValidateTransition, ValidTransitions, UNINITIALIZED, PROBE
  <1>8. AssertInvariants(Sub!ForcedFrame(subData, UNINITIALIZED))
    BY <1>5 DEF AssertInvariants, HolderPresent, NotOrphanParent, ActiveStates, SLAVE_PASSIVE,
                ACTIVE_CONTROL, LEASE_HEARTBEAT, UNINITIALIZED
  <1> QED
    BY <1>3, <1>7, <1>8, SameCalls DEF ClearSub

LEMMA CallKept ==
    ASSUME TreeTypes, TreeTypes', NobodyEnded, OneSubMaster, NEW m \in SubMaster, Kept(m),
           NEW n \in Client, TreeStep(n), OnSubBus(n)
    PROVE  Kept(m)'
  <1>1. m \in Client /\ m \in Master /\ SubP!TypeOK /\ SubHolds
    BY SubBusAssumption, NodesAssumption, SameType DEF TreeTypes, SubTypeOK
  <1>2. /\ place \in [Client -> Place]
        /\ stage \in [Client -> MasterStage \cup SlaveStage \cup Stopped]
    BY DEF TreeTypes, SubTypeOK, NodeTypeOK
  <1>3. subPc[n] = "idle" /\ subPend[n] = NoWrite
    BY <1>1 DEF OnSubBus, CreateSub, ProbeSub, ClearSub, Here, SubP!TypeOK
  <1>4. ASSUME NEW new \in SubFrames, NEW from, NEW by, SubP!BeginWrite(n, from, new, by)
        PROVE  /\ subData' = subData /\ subTemp' = subTemp
               /\ subPc' = [subPc EXCEPT ![n] = "open"]
               /\ subPend'[n] # NoWrite => subPend'[n].new = new
               /\ \A c \in Client \ {n} : subPend'[c] = subPend[c]
    BY <1>1, <1>4 DEF SubP!BeginWrite, SubP!TypeOK
  <1>5. UNCHANGED <<subVars, ledger, crashes>>
            => subData' = subData /\ subTemp' = subTemp /\ subPc' = subPc /\ subPend' = subPend
    BY DEF subVars
  <1>6. CASE n # m
    <2>1. place'[m] = place[m] /\ subPc'[m] = subPc[m]
      BY <1>1, <1>6, TreeOthers DEF OthersStay
    <2>2. ~ProbeSub(n)
      BY <1>6, ProbeCall DEF OneSubMaster
    <2>3. CASE UNCHANGED <<subVars, ledger, crashes>>
      BY <1>5, <2>1, <2>3 DEF Kept
    <2>4. ASSUME NEW new \in SubFrames, NEW from, NEW by, SubP!BeginWrite(n, from, new, by),
                 new.status # PROBE
          PROVE  Kept(m)'
      <3>1. \A c \in Client : subPend'[c] # NoWrite /\ subPend'[c].new.status = PROBE
                                => subPend[c] # NoWrite /\ subPend[c].new.status = PROBE
        BY <1>4, <2>4
      <3> QED
        BY <1>1, <1>4, <2>1, <2>4, <3>1 DEF Kept
    <2> QED
      BY <2>2, <2>3, <2>4, SubCalls
  <1>7. CASE n = m
    <2>1. (\A to : Move(m, to) => place'[m] = to)
      BY <1>1, <1>2 DEF Move
    <2>2. ASSUME place[m] # "work"
          PROVE  \A c \in Client : subPend[c] # NoWrite => subPend[c].new.status # PROBE
      BY <2>2 DEF Kept
    <2>3. CASE CreateSub(m)
      <3>1. place[m] = "create" /\ place'[m] = "probe"
        BY <1>1, <2>1, <2>3 DEF CreateSub, Here
      <3>2. CASE UNCHANGED <<subVars, ledger, crashes>>
        BY <1>5, <3>1, <3>2 DEF Kept
      <3>3. ASSUME NEW new \in SubFrames, SubP!BeginWrite(m, UNINITIALIZED, new, NoAid),
                   new.status = UNINITIALIZED
            PROVE  Kept(m)'
        <4>1. \A c \in Client : subPend'[c] # NoWrite => subPend'[c].new.status # PROBE
          BY <1>4, <1>7, <2>2, <3>1, <3>3 DEF UNINITIALIZED, PROBE
        <4> QED
          BY <1>4, <1>7, <3>1, <3>3, <4>1 DEF Kept
      <3> QED
        BY <1>1, <2>3, <3>2, <3>3, CreateCall
    <2>4. CASE ProbeSub(m)
      <3>1. place[m] = "probe"
        BY <2>4 DEF ProbeSub, Here
      <3>2. ~GoTo(m, "failed")
        BY <1>1, <1>2 DEF GoTo, NobodyEnded
      <3>3. Sub!Transition(m, PROBE, Probing(m)) /\ Move(m, "work")
        BY <2>4, <3>2 DEF ProbeSub
      <3>4. PICK new \in SubFrames : \E from, by : SubP!BeginWrite(m, from, new, by)
        <4>1. subPc' # subPc
          BY <1>1, <1>3, <1>7, <3>3
             DEF Sub!Transition, Sub!BeginWrite, SubP!TypeOK
        <4> QED
          BY <1>1, <1>5, <2>4, <4>1, ProbeCall
      <3>5. place'[m] = "work"
        BY <2>1, <3>3
      <3> QED
        BY <1>4, <1>7, <2>2, <3>1, <3>4, <3>5 DEF Kept
    <2>5. CASE ClearSub(m)
      <3>1. place[m] = "clear" /\ place'[m] = "over"
        BY <1>1, <2>1, <2>5 DEF ClearSub, Here
      <3>2. ASSUME NEW new \in SubFrames, NEW from, NEW by, SubP!BeginWrite(m, from, new, by),
                   new.status = UNINITIALIZED
            PROVE  Kept(m)'
        <4>1. \A c \in Client : subPend'[c] # NoWrite => subPend'[c].new.status # PROBE
          BY <1>4, <1>7, <2>2, <3>1, <3>2 DEF UNINITIALIZED, PROBE
        <4>2. subPc'[m] = "open"
          BY <1>1, <1>4, <1>7, <3>2 DEF SubP!TypeOK
        <4> QED
          BY <1>4, <1>7, <3>1, <3>2, <4>1, <4>2 DEF Kept
      <3>3. CASE UNCHANGED <<subVars, ledger, crashes>> /\ ~Probed(subData)
        BY <1>5, <2>2, <3>1, <3>3 DEF Kept
      <3>4. Probed(subData) => ~UNCHANGED <<subVars, ledger, crashes>>
        BY <1>1, <1>3, <1>7, <2>5, ClearAdmitted
           DEF SubP!ForceTransition, SubP!BeginWrite, subVars, SubP!TypeOK
      <3> QED
        BY <1>1, <2>5, <3>2, <3>3, <3>4, ClearCall
    <2> QED
      BY <1>7, <2>3, <2>4, <2>5 DEF OnSubBus
  <1> QED
    BY <1>6, <1>7


(* The steps of a write on the sub-bus. *)
LEMMA WriteStays ==
    ASSUME TreeTypes, TreeTypes', NobodyEnded, NEW n \in Client, SubWrite(n)
    PROVE  /\ place' = place
           /\ \A c \in Client : subPend'[c] \in {subPend[c], NoWrite}
           /\ \A c \in Client \ {n} : subPc'[c] = subPc[c]
           /\ subPc[n] # "idle"
  <1>1. stage \in [Client -> MasterStage \cup SlaveStage \cup Stopped] /\ Sub!TypeOK
    BY DEF TreeTypes, SubTypeOK, NodeTypeOK
  <1>2. ~GoTo(n, "failed")
    BY <1>1 DEF GoTo, NobodyEnded
  <1>3. place' = place
    BY <1>2 DEF SubWrite
  <1>4. \A c \in Client : subPend'[c] \in {subPend[c], NoWrite}
    BY <1>1 DEF SubWrite, Sub!Open, Sub!Flush, Sub!Replace, Sub!AppendLedger, Sub!ReplaceFails,
                Sub!Return, Sub!TypeOK
  <1>5. (\A c \in Client \ {n} : subPc'[c] = subPc[c]) /\ subPc[n] # "idle"
    BY <1>1 DEF SubWrite, Sub!Open, Sub!Flush, Sub!Replace, Sub!AppendLedger, Sub!ReplaceFails,
                Sub!Return, Sub!TypeOK
  <1> QED
    BY <1>3, <1>4, <1>5

LEMMA WriteKept ==
    ASSUME TreeTypes, TreeTypes', NobodyEnded, NEW m \in SubMaster, Kept(m),
           NEW n \in Client, SubWrite(n)
    PROVE  Kept(m)'
  <1>1. m \in Client /\ SubId \in BusId /\ SubIdOf[n] = SubId /\ SubIdOf[m] = SubId
    BY SubBusAssumption, NodesAssumption DEF SubIdOf
  <1>2. /\ subPc \in [Client -> {"idle", "open", "flush", "replace", "log"}]
        /\ subTemp \in [BusId -> Sub!Content]
        /\ \A c \in Client : (subPc[c] = "idle") <=> (subPend[c] = NoWrite)
    BY DEF TreeTypes, SubTypeOK, Sub!TypeOK
  <1>3. \A x \in {Absent, Empty, Corrupt} : ~Probed(x)
    BY BusManagerAssumption DEF Probed
  <1>4. /\ place'[m] = place[m]
        /\ \A c \in Client : subPend'[c] # NoWrite => subPend'[c] = subPend[c]
        /\ \A c \in Client \ {n} : subPc'[c] = subPc[c]
        /\ subPc[n] # "idle"
    BY <1>1, WriteStays
  <1>5. \A c \in Client : subPend'[c] # NoWrite /\ subPend'[c].new.status = PROBE
                            => c = m /\ place'[m] = "work"
    BY <1>4 DEF Kept
  <1>6. Probed(subPend[n].new) => n = m /\ place[m] = "work"
    BY <1>2, <1>4 DEF Probed, Kept
  <1>7. CASE Sub!Open(n)
    <2>1. /\ subPc[n] = "open" /\ subPc'[n] = "flush" /\ subData' = subData
          /\ subTemp'[SubId] = Empty
      BY <1>1, <1>2, <1>7 DEF Sub!Open
    <2>2. Empty # Absent
      BY BusManagerAssumption
    <2> QED
      BY <1>1, <1>3, <1>4, <1>5, <2>1, <2>2 DEF Kept
  <1>8. CASE Sub!Flush(n)
    <2>1. subPc[n] = "flush" /\ subPc'[n] = "replace"
      BY <1>2, <1>8 DEF Sub!Flush
    <2>2. \/ subTemp'[SubId] \in {subPend[n].new, Corrupt} /\ subData' = subData
          \/ subData' \in {subPend[n].new, Corrupt} /\ subTemp' = subTemp
          \/ subData' = subData /\ subTemp' = subTemp
      BY <1>1, <1>2, <1>8 DEF Sub!Flush, Sub!Overwritten
    <2>3. subPend[n].new # Absent /\ Corrupt # Absent
      <3>1. subPend[n] \in Write
        BY <1>2, <1>4, SameSets DEF TreeTypes, SubTypeOK, Sub!TypeOK
      <3> QED
        BY <3>1, BusManagerAssumption DEF Write
    <2>4. Probed(subTemp'[SubId]) => place[m] = "work" /\ subPc'[m] = "replace"
      BY <1>1, <1>3, <1>4, <1>6, <2>1, <2>2 DEF Kept
    <2>5. Probed(subData') => \/ place[m] \in {"work", "clear"}
                              \/ place[m] = "over" /\ subPc'[m] \in {"open", "flush", "replace"}
      BY <1>1, <1>3, <1>4, <1>6, <2>1, <2>2 DEF Kept
    <2>6. Probed(subData') /\ place[m] = "over" /\ subPc'[m] \in {"flush", "replace"}
            => subTemp'[SubId] # Absent
      BY <1>1, <1>3, <1>4, <1>6, <2>1, <2>2, <2>3 DEF Kept
    <2> QED
      BY <1>4, <1>5, <2>4, <2>5, <2>6 DEF Kept
  <1>9. CASE Sub!Replace(n)
    <2>1. subData' = subTemp[SubId] /\ subTemp'[SubId] = Absent
      BY <1>1, <1>2, <1>9 DEF Sub!Replace
    <2> QED
      BY <1>3, <1>4, <1>5, <2>1 DEF Kept
  <1>10. CASE Sub!ReplaceFails(n)
    <2>1. /\ subPc[n] = "replace" /\ subTemp[SubId] = Absent
          /\ subData' = subData /\ subTemp' = subTemp
      BY <1>1, <1>10 DEF Sub!ReplaceFails
    <2> QED
      BY <1>1, <1>3, <1>4, <1>5, <2>1 DEF Kept
  <1>11. CASE Sub!AppendLedger(n)
    <2>1. subPc[n] = "log" /\ subData' = subData /\ subTemp' = subTemp
      BY <1>11 DEF Sub!AppendLedger
    <2>2. subPc'[n] = "idle"
      BY <1>2, <1>11 DEF Sub!AppendLedger, Sub!Return
    <2> QED
      BY <1>1, <1>4, <1>5, <2>1, <2>2 DEF Kept
  <1> QED
    BY <1>7, <1>8, <1>9, <1>10, <1>11 DEF SubWrite

LEMMA ReleaseStep ==
    ASSUME TreeTypes, TreeTypes', ReleaseInv, [TreeNext]_treeVars
    PROVE  ReleaseInv'
  <1> SUFFICES ASSUME OneSubMaster, ~troubled', NEW m \in SubMaster
               PROVE  Kept(m)'
    BY DEF ReleaseInv, OneSubMaster
  <1>1. CASE UNCHANGED treeVars
    BY <1>1 DEF treeVars, subVars, ReleaseInv, Kept
  <1>2. ASSUME NEW n \in Client, TreeStep(n) \/ CrashTree(n) \/ RestartTree(n), TroubleKnown
        PROVE  Kept(m)'
    <2>1. NobodyEnded /\ Kept(m)
      BY <1>2 DEF TroubleKnown, NobodyEnded, ReleaseInv
    <2>2. OnSubBus(n) => TreeStep(n)
      BY DEF OnSubBus, TreeStep, OnSub
    <2> QED
      BY <1>2, <2>1, <2>2, AsideKept, CallKept, WriteKept
  <1> QED
    BY <1>1, <1>2 DEF TreeNext

LEMMA ReleaseInit == SubInit => ReleaseInv
  <1> SUFFICES ASSUME SubInit, NEW m \in SubMaster PROVE Kept(m)
    BY DEF ReleaseInv
  <1>1. subData = Absent /\ subTemp[SubId] = Absent /\ \A c \in Client : subPend[c] = NoWrite
    BY SubBusAssumption DEF SubInit, Sub!Init
  <1> QED
    BY <1>1, BusManagerAssumption DEF Kept, Probed

(* A master's probe of a sub-bus at 000 is accepted. *)
LEMMA ProbeAdmitted ==
    ASSUME TreeTypes, NEW m \in SubMaster, ~Probed(subData)
    PROVE  ~SubProbeRefused(m)
  <1> DEFINE old == Sub!CurrentFrame(m)
             new == Sub!WithPayload(Sub!NextFrame(old, PROBE), Probing(m))
  <1>1. m \in Client /\ AidOf[m] \in Controller
    BY SubBusAssumption, NodesAssumption
  <1>2. old \in SubFrames /\ old.status = UNINITIALIZED
    <2>1. SubP!TypeOK /\ SubHolds /\ old = SubP!CurrentFrame(m)
      BY SameType, SameFrames DEF TreeTypes, SubTypeOK
    <2>2. old \in SubFrames
      BY <1>1, <2>1, SubCurrent
    <2>3. SubP!Readable => old.status # PROBE
      BY <1>1, <2>1, SubCurrent DEF Probed
    <2>4. ~SubP!Readable => old.status = UNINITIALIZED
      BY <2>1 DEF SubP!CurrentFrame, SubP!InitialFrame, SubP!UNINITIALIZED, UNINITIALIZED
    <2> QED
      BY <2>2, <2>3, <2>4 DEF SubFrames
  <1>3. new.status = PROBE /\ new.Child_Buses = {} /\ new.Vector_Clock > old.Vector_Clock
    <2>1. old \in Frame /\ old.Child_Buses = {} /\ old.Vector_Clock \in Nat
      BY <1>2 DEF SubFrames, Frame
    <2>2. Probing(m).Vector_Clock = Keep
      BY DEF Probing, NoUpdate
    <2>3. new.status = PROBE /\ new.Child_Buses = {} /\ new.Vector_Clock = old.Vector_Clock + 1
      BY <2>1, <2>2 DEF Sub!WithPayload, Sub!NextFrame, Sub!Given, Frame
    <2> QED
      BY <2>1, <2>3
  <1> HIDE DEF old, new
  <1>4. Sub!ValidateTransition(old.status, PROBE)
    BY <1>2 DEF Sub!ValidateTransition, Sub!ValidTransitions, Sub!UNINITIALIZED, Sub!PROBE,
                UNINITIALIZED, PROBE
  <1>5. Sub!CanTransition(AidOf[m], old, PROBE)
    BY <1>1 DEF Sub!CanTransition, Sub!LEASE_HEARTBEAT, Sub!RELEASE_SUCCESS,
                Sub!RELEASE_FAILED, PROBE
  <1>6. Sub!AssertVectorClockMonotonicity(old, new.Vector_Clock)
    BY <1>3 DEF Sub!AssertVectorClockMonotonicity
  <1>7. Sub!AssertInvariants(new)
    BY <1>3 DEF Sub!AssertInvariants, Sub!HolderPresent, Sub!NotOrphanParent, Sub!ActiveStates,
                Sub!SLAVE_PASSIVE, Sub!ACTIVE_CONTROL, Sub!LEASE_HEARTBEAT, PROBE
  <1> QED
    BY <1>4, <1>5, <1>6, <1>7 DEF SubProbeRefused, Sub!Admissible, old, new

(* One master at a time and any number of trunk slaves share the sub-bus; nobody
   has died or was ended.  Then a master that is done has left it at 000, though
   it does not look whether its cleanup came through, and a master that starts is
   never refused. *)
THEOREM SubBusIsReleased == TreeSpec => []SubBusReleased
  <1>1. ASSUME TreeTypes, ReleaseInv, OneSubMaster, ~troubled, NEW m \in SubMaster
        PROVE  /\ place[m] = "over" /\ subPc[m] = "idle" => Idle000
               /\ Here(m, "probe") => ~SubProbeRefused(m)
    <2>1. Kept(m)
      BY <1>1 DEF ReleaseInv
    <2>2. ~Probed(subData) => Idle000
      <3>1. SubP!TypeOK /\ (Sub!Readable <=> SubP!Readable) /\ SubHolds
        BY <1>1, SameType DEF TreeTypes, SubTypeOK, Sub!Readable, SubP!Readable
      <3>2. Sub!Readable => subData \in SubFrames
        BY <3>1, SubAssumptions, SubP!ReadableFrame, SameSets
           DEF SubP!TypeOK, SubHolds, SubP!FramesIn
      <3> QED
        BY <3>2 DEF Idle000, Probed, SubFrames
    <2>3. Here(m, "probe") => ~Probed(subData)
      BY <2>1 DEF Kept, Here
    <2> QED
      BY <1>1, <2>1, <2>2, <2>3, ProbeAdmitted DEF Kept
  <1>2. TreeTypes /\ ReleaseInv => SubBusReleased
    BY <1>1 DEF SubBusReleased
  <1> QED
    BY <1>2, TreeTypesInit, TreeTypesStep, ReleaseInit, ReleaseStep, PTL DEF TreeSpec
=============================================================================
