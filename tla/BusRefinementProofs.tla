------------------------ MODULE BusRefinementProofs -------------------------
(***************************************************************************)
(* The bus managers implement the register, whatever their number and      *)
(* whichever of them share a bus id.  A call's beginning prepares, its     *)
(* rename installs, its ledger entry reports, a crash abandons; to open    *)
(* the temporary file between the open and the rename of another client is *)
(* to meet it.  LoneInv of BusManagerProofs says why a client that met     *)
(* nobody installs what it prepared, CheckedInv what can come of the       *)
(* others.                                                                 *)
(***************************************************************************)
EXTENDS BusRefinement, BusManagerProofs

USE DEF Content, Write, Entry

Writing == {"open", "flush", "replace"}

Prepared  == PendingIn(Writing)
Installed == PendingIn({"log"})
Audit     == IF ledger = NoEntry THEN Absent
             ELSE [status |-> ledger.new_status, clock |-> ledger.vector_clock]

MetClients == {c \in Client : pc[c] \in {"flush", "replace"} /\ "temp" \notin fresh[c]}

RegisterVars == <<busData, Prepared, MetClients, Installed, Audit>>

(* The register reads the same protocol. *)
LEMMA SameProtocol ==
    /\ Register!UNINITIALIZED = UNINITIALIZED
    /\ Register!PROBE = PROBE
    /\ Register!ValidTransitions = ValidTransitions
    /\ Register!ActiveStates = ActiveStates
    /\ Register!Frame = Frame
  <1>1. /\ Register!UNINITIALIZED = UNINITIALIZED
        /\ Register!PROBE = PROBE
        /\ Register!HANDSHAKE_ACK = HANDSHAKE_ACK
        /\ Register!SLAVE_PASSIVE = SLAVE_PASSIVE
        /\ Register!ACTIVE_CONTROL = ACTIVE_CONTROL
        /\ Register!LEASE_HEARTBEAT = LEASE_HEARTBEAT
        /\ Register!RELEASE_SUCCESS = RELEASE_SUCCESS
        /\ Register!RELEASE_FAILED = RELEASE_FAILED
    BY DEF Register!UNINITIALIZED, Register!PROBE, Register!HANDSHAKE_ACK,
           Register!SLAVE_PASSIVE, Register!ACTIVE_CONTROL, Register!LEASE_HEARTBEAT,
           Register!RELEASE_SUCCESS, Register!RELEASE_FAILED,
           UNINITIALIZED, PROBE, HANDSHAKE_ACK, SLAVE_PASSIVE, ACTIVE_CONTROL,
           LEASE_HEARTBEAT, RELEASE_SUCCESS, RELEASE_FAILED
  <1>2. Register!Status = Status /\ Register!Request = Request
    BY <1>1 DEF Register!Status, Status, Register!Request, Request,
                Register!NoRequest, NoRequest, Register!Connect, Connect,
                Register!Task, Task
  <1>3. Register!Frame = Frame
    BY <1>2 DEF Register!Frame, Frame
  <1> QED
    BY <1>1, <1>3 DEF Register!ValidTransitions, ValidTransitions,
                      Register!ActiveStates, ActiveStates

(* The register's variables change with the pc and the pending write of one
   client only. *)
LEMMA PendingOfOne ==
    ASSUME TypeOK, NEW c \in Client, NEW steps,
           \A d \in Client \ {c} : pc'[d] = pc[d] /\ pend'[d] = pend[d]
    PROVE  PendingIn(steps)' = [PendingIn(steps) EXCEPT ![c] = PendingIn(steps)'[c]]
  BY DEF PendingIn

LEMMA PrepareRefines ==
    ASSUME TypeOK, NEW c \in Client, NEW from \in Status,
           NEW new \in Frame, NEW by, BeginWrite(c, from, new, by),
           Register!Successor(busData, new)
    PROVE  Register!Prepare(c)
  <1>1. /\ PendingIn(Writing)[c] = Absent /\ PendingIn({"log"})[c] = Absent
        /\ PendingIn(Writing)'[c] = new /\ PendingIn({"log"})'[c] = Absent
    BY DEF TypeOK, BeginWrite, PendingIn, Writing
  <1>2. \A d \in Client \ {c} : pc'[d] = pc[d] /\ pend'[d] = pend[d]
    BY DEF TypeOK, BeginWrite
  <1>3. PendingIn(Writing)' = [PendingIn(Writing) EXCEPT ![c] = PendingIn(Writing)'[c]]
    BY <1>2, PendingOfOne
  <1>4. PendingIn({"log"})' = PendingIn({"log"})
    BY <1>1, <1>2 DEF PendingIn
  <1>5. busData' = busData /\ ledger' = ledger
    BY DEF BeginWrite
  <1>6. MetClients' = MetClients
    BY DEF TypeOK, BeginWrite, MetClients
  <1> QED
    BY <1>1, <1>3, <1>4, <1>5, <1>6, SameProtocol DEF Register!Prepare, Writing, MetClients

(* The first thing that can happen to an unreadable bus is a probe. *)
LEMMA SuccessorOfValid ==
    ASSUME TypeOK, NEW c \in Client, NEW new,
           LegalStep(CurrentFrame(c), new), HolderPresent(new)
    PROVE  Register!Successor(busData, new)
  <1>1. CASE Readable
    BY <1>1, SameProtocol
       DEF Readable, CurrentFrame, LegalStep, Register!Successor, Register!ValidateTransition,
           ValidateTransition, Register!HolderPresent, HolderPresent
  <1>2. CASE ~Readable
    <2>1. ValidateTransition(UNINITIALIZED, new.status)
      BY <1>2 DEF CurrentFrame, InitialFrame, LegalStep
    <2>2. new.status = PROBE
      BY <2>1 DEF ValidateTransition, ValidTransitions, UNINITIALIZED, PROBE,
                  HANDSHAKE_ACK, SLAVE_PASSIVE, ACTIVE_CONTROL, LEASE_HEARTBEAT,
                  RELEASE_SUCCESS, RELEASE_FAILED
    <2> QED
      BY <1>2, <2>2, SameProtocol DEF Readable, Register!Successor
  <1> QED
    BY <1>1, <1>2

(* A step that leaves the phase and the pending write of every client alone. *)
LEMMA SamePending ==
    ASSUME NEW steps, \A d \in Client : PendingIn(steps)'[d] = PendingIn(steps)[d]
    PROVE  PendingIn(steps)' = PendingIn(steps)
  BY DEF PendingIn

(* A client that is about to open its file has met nobody. *)
OpenInv == \A c \in Client : pc[c] = "open" => "temp" \in fresh[c]

LEMMA OpenCorrect == Spec => []OpenInv
  <1>1. Init => OpenInv
    BY DEF Init, OpenInv
  <1>2. TypeOK /\ OpenInv /\ [Next]_vars => OpenInv'
    <2> SUFFICES ASSUME TypeOK, OpenInv, [Next]_vars
                 PROVE  OpenInv'
      OBVIOUS
    <2>1. ASSUME NEW c \in Client, Call(c)
          PROVE  OpenInv'
      <3>1. ASSUME NEW from, NEW new, NEW by, BeginWrite(c, from, new, by)
            PROVE  OpenInv'
        BY <3>1 DEF BeginWrite, TypeOK, OpenInv
      <3>2. DestroyBus(c) => OpenInv'
        BY DEF DestroyBus, Stale, TypeOK, OpenInv
      <3> QED
        BY <2>1, <3>1, <3>2 DEF Call, Transition, ForceTransition, InitializeBus
    <2>2. ASSUME NEW c \in Client, Open(c)
          PROVE  OpenInv'
      <3>1. ASSUME NEW d \in Client, pc'[d] = "open"
            PROVE  "temp" \in fresh'[d]
        <4>1. d # c /\ pc[d] = "open"
          BY <2>2, <3>1 DEF Open, TypeOK
        <4>2. ~Met(c, d)
          BY <4>1 DEF Met, Rivals
        <4> QED
          BY <2>2, <4>1, <4>2 DEF Open, OpenInv
      <3> QED
        BY <3>1 DEF OpenInv
    <2>3. ASSUME NEW c \in Client,
                 Flush(c) \/ Replace(c) \/ ReplaceFails(c) \/ AppendLedger(c) \/ Crash(c)
          PROVE  OpenInv'
      BY <2>3 DEF Flush, Replace, ReplaceFails, AppendLedger, Crash, Return, Stale, TypeOK,
                  OpenInv
    <2>4. CASE UNCHANGED vars
      BY <2>4 DEF vars, OpenInv
    <2> QED
      BY <2>1, <2>2, <2>3, <2>4 DEF Next, Continue
  <1> QED
    BY <1>1, <1>2, TypeCorrect, PTL DEF Spec

LEMMA RefinementStep ==
    ASSUME TypeOK, LoneInv, CheckedInv, OpenInv, [Next]_vars
    PROVE  [Register!Next]_RegisterVars
  <1> USE DEF RegisterVars, Prepared, Installed, Audit
  <1>1. ASSUME NEW c \in Client, NEW next \in Status, NEW p \in Payload,
               Transition(c, next, p)
        PROVE  Register!Prepare(c)
    <2> DEFINE old == CurrentFrame(c)
               new == WithPayload(NextFrame(old, next), p)
    <2>1. old \in Frame /\ old.status \in Status
      BY CurrentFrameType DEF TypeOK, Frame
    <2>2. new \in Frame
      <3>1. p \in Updates
        BY BusManagerAssumption
      <3> QED
        BY <2>1, <3>1, NextFrameType, WithPayloadType
    <2>3. new.status = next
      BY <2>1, NextFrameType, NextFrameStatus, WithPayloadStatus
    <2>4. LegalStep(old, new) /\ HolderPresent(new)
      BY <1>1, <2>3 DEF Transition, Admissible, AssertVectorClockMonotonicity,
                        AssertInvariants, LegalStep
    <2>5. BeginWrite(c, old.status, new, Auditor(c))
      BY <1>1 DEF Transition
    <2> HIDE DEF new
    <2>6. Register!Successor(busData, new)
      BY <2>4, SuccessorOfValid
    <2> QED
      BY <2>1, <2>2, <2>5, <2>6, PrepareRefines
  <1>2. ASSUME NEW c \in Client, NEW next \in Status, ForceTransition(c, next)
        PROVE  Register!Prepare(c)
    <2> DEFINE old == CurrentFrame(c)
               new == ForcedFrame(old, next)
    <2>1. old \in Frame /\ old.status \in Status
      BY CurrentFrameType DEF TypeOK, Frame
    <2>2. new \in Frame
      BY <2>1, ForcedFrameType
    <2>3. LegalStep(old, new) /\ HolderPresent(new)
      BY <1>2, <2>1, NextFrameStatus DEF ForceTransition, AssertInvariants, LegalStep
    <2>4. BeginWrite(c, old.status, new, Auditor(c))
      BY <1>2 DEF ForceTransition
    <2> HIDE DEF new
    <2>5. Register!Successor(busData, new)
      BY <2>3, SuccessorOfValid
    <2> QED
      BY <2>1, <2>2, <2>4, <2>5, PrepareRefines
  <1>3. ASSUME NEW c \in Client, NEW topology \in Topology,
               InitializeBus(c, topology)
        PROVE  Register!Prepare(c)
    <2> DEFINE new == [InitialFrame(IdOf[c]) EXCEPT
                          !.Aid = AidOf[c],
                          !.Parent_Bus = topology.parent,
                          !.Child_Buses = topology.children]
    <2>1. InitialFrame(IdOf[c]) \in Frame
      BY InitialFrameType, BusManagerAssumption
    <2>2. /\ AidOf[c] \in Agent
          /\ topology.parent \in BusId \cup {NoBus}
          /\ topology.children \in SUBSET BusId
      BY BusManagerAssumption
    <2>3. new \in Frame
      BY <2>1, <2>2 DEF Frame
    <2>4. new.status = UNINITIALIZED /\ new.Vector_Clock = 0
      BY DEF InitialFrame
    <2>5. busData \in {Absent, Empty, Corrupt}
      BY <1>3 DEF InitializeBus, Readable
    <2>6. BeginWrite(c, UNINITIALIZED, new, NoAid) /\ UNINITIALIZED \in Status
      BY <1>3 DEF InitializeBus, Status
    <2> HIDE DEF new
    <2>7. Register!Successor(busData, new)
      BY <2>4, <2>5, SameProtocol DEF Register!Successor
    <2> QED
      BY <2>3, <2>6, <2>7, PrepareRefines
  <1>4. ASSUME NEW c \in Client, DestroyBus(c)
        PROVE  Register!Remove
    <2>1. MetClients' = MetClients
      BY <1>4 DEF TypeOK, DestroyBus, Stale, MetClients
    <2> QED
      BY <1>4, <2>1 DEF DestroyBus, Register!Remove, PendingIn, Writing, MetClients
  <1>5. ASSUME NEW c \in Client, Open(c)
        PROVE  Register!Meet(c) \/ UNCHANGED RegisterVars
    <2>1. /\ PendingIn(Writing)' = PendingIn(Writing)
          /\ PendingIn({"log"})' = PendingIn({"log"})
      BY <1>5, SamePending DEF TypeOK, Open, PendingIn, Writing
    <2>2. busData' = busData /\ ledger' = ledger
      BY <1>5 DEF Open
    <2>3. CASE Rivals(c) = {}
      <3>1. fresh' = fresh
        BY <1>5, <2>3 DEF TypeOK, Open, Met
      <3>2. c \notin MetClients /\ c \notin MetClients'
        BY <1>5, <3>1 DEF OpenInv, Open, MetClients
      <3>3. \A d \in Client \ {c} : pc'[d] = pc[d]
        BY <1>5 DEF TypeOK, Open
      <3>4. MetClients' = MetClients
        BY <3>1, <3>2, <3>3 DEF MetClients
      <3> QED
        BY <2>1, <2>2, <3>4
    <2>4. CASE Rivals(c) # {}
      <3>1. Rivals(c) \in SUBSET {d \in Client \ {c} : IdOf[d] = IdOf[c]}
        BY DEF Rivals
      <3>2. \A d \in Rivals(c) \cup {c} : PendingIn(Writing)[d] # Absent
        <4>1. \A d \in Rivals(c) \cup {c} : d \in Client /\ pc[d] \in Writing
          BY <1>5 DEF Rivals, Open, Writing
        <4> QED
          BY <4>1, BusManagerAssumption DEF TypeOK, PendingIn, Writing
      <3>3. MetClients' = MetClients \cup Rivals(c) \cup {c}
        <4>1. pc' = [pc EXCEPT ![c] = "flush"] /\ pc[c] = "open"
          BY <1>5 DEF Open
        <4>2. \A d \in Client :
                  "temp" \in fresh'[d] <=> "temp" \in fresh[d] /\ d \notin Rivals(c) \cup {c}
          BY <1>5, <2>4 DEF Open, Met
        <4> QED
          BY <4>1, <4>2 DEF TypeOK, Rivals, MetClients
      <3> QED
        BY <2>1, <2>2, <2>4, <3>1, <3>2, <3>3 DEF Register!Meet, Writing, MetClients
    <2> QED
      BY <2>3, <2>4
  <1>6. ASSUME NEW c \in Client, Flush(c)
        PROVE  Register!Scribble(c) \/ UNCHANGED RegisterVars
    <2>1. /\ PendingIn(Writing)' = PendingIn(Writing)
          /\ PendingIn({"log"})' = PendingIn({"log"})
      BY <1>6, SamePending DEF TypeOK, Flush, PendingIn, Writing
    <2>2. MetClients' = MetClients /\ ledger' = ledger
      BY <1>6 DEF TypeOK, Flush, Stale, MetClients
    <2>3. CASE fd[c] = "bus"
      <3>1. c \in MetClients
        BY <1>6, <2>3 DEF LoneInv, LoneAt, Flush, MetClients
      <3>2. busData' \in {pend[c].new, Corrupt}
        BY <1>6, <2>3 DEF Flush, Overwritten
      <3>3. PendingIn(Writing)[c] = pend[c].new
        BY <1>6 DEF Flush, PendingIn, Writing
      <3> QED
        BY <2>1, <2>2, <3>1, <3>2, <3>3 DEF Register!Scribble, Writing, MetClients
    <2>4. CASE fd[c] # "bus"
      <3>1. busData' = busData
        BY <1>6, <2>4 DEF Flush
      <3> QED
        BY <2>1, <2>2, <3>1
    <2> QED
      BY <2>3, <2>4
  <1>7. ASSUME NEW c \in Client, Replace(c)
        PROVE  Register!Install(c)
    <2>1. pend[c] \in Write /\ Prepared[c] = pend[c].new
      BY <1>7 DEF TypeOK, Replace, PendingIn, Writing
    <2>2. Prepared[c] # Absent
      BY <2>1, BusManagerAssumption
    <2>3. \A d \in Client \ {c} : pc'[d] = pc[d] /\ pend'[d] = pend[d]
      BY <1>7 DEF TypeOK, Replace, Return
    <2>4. Prepared' = [Prepared EXCEPT ![c] = Absent]
      <3>1. Prepared'[c] = Absent
        BY <1>7 DEF TypeOK, Replace, Return, PendingIn, Writing
      <3> QED
        BY <2>3, <3>1, PendingOfOne
    <2>5. \/ Installed' = [Installed EXCEPT ![c] = Prepared[c]]
          \/ Installed' = Installed
      <3>1. CASE pend[c].by = NoAid
        <4>1. Installed'[c] = Installed[c]
          BY <1>7, <3>1 DEF TypeOK, Replace, Return, PendingIn
        <4> QED
          BY <2>3, <4>1, SamePending DEF PendingIn
      <3>2. CASE pend[c].by # NoAid
        <4>1. Installed'[c] = Prepared[c]
          BY <1>7, <2>1, <3>2 DEF TypeOK, Replace, PendingIn
        <4> QED
          BY <2>3, <4>1, PendingOfOne
      <3> QED
        BY <3>1, <3>2
    <2>6. ledger' = ledger
      BY <1>7 DEF Replace
    <2>7. c \notin MetClients => busData' = Prepared[c]
      BY <1>7, <2>1, LoneFacts DEF Replace, MetClients
    <2>8. busData' \in {Empty, Corrupt} \cup {frame \in Frame : HolderPresent(frame)}
      <3>1. busData' = tempData[IdOf[c]] /\ busData' # Absent /\ IdOf[c] \in BusId
        BY <1>7, BusManagerAssumption DEF Replace
      <3>2. busData' \in Frame => HolderPresent(busData')
        BY <3>1 DEF CheckedInv, FramesIn, Checked
      <3> QED
        BY <3>1, <3>2 DEF TypeOK
    <2>9. MetClients' = MetClients \ {c}
      <3>1. c \notin MetClients'
        BY <1>7 DEF TypeOK, Replace, Return, MetClients
      <3>2. \A d \in Client \ {c} : "temp" \in fresh'[d] <=> "temp" \in fresh[d]
        BY <1>7 DEF TypeOK, Replace, Stale
      <3> QED
        BY <2>3, <3>1, <3>2 DEF MetClients
    <2> QED
      BY <2>2, <2>4, <2>5, <2>6, <2>7, <2>8, <2>9, SameProtocol
         DEF Register!Install, Register!Done, Register!HolderPresent, HolderPresent, Writing,
             MetClients
  <1>8. ASSUME NEW c \in Client, ReplaceFails(c)
        PROVE  Register!Lose(c)
    <2>1. c \in MetClients
      BY <1>8, LoneFacts DEF ReplaceFails, MetClients
    <2>2. \A d \in Client \ {c} : pc'[d] = pc[d] /\ pend'[d] = pend[d] /\ fresh'[d] = fresh[d]
      BY <1>8 DEF TypeOK, ReplaceFails, Return
    <2>3. Prepared'[c] = Absent /\ Installed'[c] = Installed[c] /\ c \notin MetClients'
      BY <1>8 DEF TypeOK, ReplaceFails, Return, PendingIn, Writing, MetClients
    <2>4. MetClients' = MetClients \ {c}
      BY <2>2, <2>3 DEF MetClients
    <2>5. Prepared' = [Prepared EXCEPT ![c] = Absent]
      BY <2>2, <2>3, PendingOfOne
    <2>6. Installed' = Installed
      BY <2>2, <2>3, SamePending DEF PendingIn
    <2> QED
      BY <1>8, <2>1, <2>4, <2>5, <2>6
         DEF ReplaceFails, Register!Lose, Register!Done, Writing, MetClients
  <1>9. ASSUME NEW c \in Client, AppendLedger(c)
        PROVE  Register!Report(c)
    <2>1. /\ Installed[c] = pend[c].new
          /\ pend[c].new \in Frame
      BY <1>9 DEF TypeOK, AppendLedger, PendingIn
    <2>2. Installed[c] # Absent
      BY <2>1, BusManagerAssumption
    <2>3. \A d \in Client \ {c} : pc'[d] = pc[d] /\ pend'[d] = pend[d]
      BY <1>9 DEF TypeOK, AppendLedger, Return
    <2>4. Installed' = [Installed EXCEPT ![c] = Absent]
      <3>1. Installed'[c] = Absent
        BY <1>9 DEF TypeOK, AppendLedger, Return, PendingIn
      <3> QED
        BY <2>3, <3>1, PendingOfOne
    <2>5. Prepared' = Prepared
      <3>1. Prepared'[c] = Prepared[c]
        BY <1>9 DEF TypeOK, AppendLedger, Return, PendingIn, Writing
      <3> QED
        BY <2>3, <3>1, SamePending DEF PendingIn
    <2>6. ledger' # NoEntry
      BY <1>9, EntryType, BusManagerAssumption
    <2>7. Audit' = [status |-> Installed[c].status, clock |-> Installed[c].Vector_Clock]
      BY <1>9, <2>1, <2>6 DEF AppendLedger
    <2>8. MetClients' = MetClients
      BY <1>9, <2>3 DEF TypeOK, AppendLedger, Return, MetClients
    <2> QED
      BY <1>9, <2>2, <2>4, <2>5, <2>7, <2>8 DEF Register!Report, AppendLedger, Writing, MetClients
  <1>10. ASSUME NEW c \in Client, Crash(c)
         PROVE  Register!Abandon(c)
    <2>1. \A d \in Client \ {c} : pc'[d] = pc[d] /\ pend'[d] = pend[d]
      BY <1>10 DEF TypeOK, Crash, Return
    <2>2. Prepared'[c] = Absent /\ Installed'[c] = Absent
      BY <1>10 DEF TypeOK, Crash, Return, PendingIn, Writing
    <2>3. MetClients' = MetClients \ {c}
      BY <1>10, <2>1 DEF TypeOK, Crash, Return, MetClients
    <2> QED
      BY <1>10, <2>1, <2>2, <2>3, PendingOfOne
         DEF Register!Abandon, Register!Done, Crash, Writing, MetClients
  <1>11. CASE UNCHANGED vars
    BY <1>11 DEF vars, PendingIn, MetClients
  <1> QED
    BY <1>1, <1>2, <1>3, <1>4, <1>5, <1>6, <1>7, <1>8, <1>9, <1>10, <1>11
       DEF Next, Call, Continue, Register!Next

(* The bus is an atomic register for whoever does not meet another client of its
   bus id, whichever clients share bus ids: reads see whole frames, writes take
   effect at once or not at all, and what the ledger names has been on the bus. *)
THEOREM Refinement == Spec => ImplementsRegister
  <1>1. Init => Register!Init
    BY DEF Init, Register!Init, PendingIn
  <1>2. TypeOK /\ LoneInv /\ CheckedInv /\ OpenInv /\ [Next]_vars
            => [Register!Next]_RegisterVars
    BY RefinementStep
  <1> QED
    BY <1>1, <1>2, LoneCorrect, CheckedCorrect, OpenCorrect, TypeCorrect, PTL
       DEF Spec, ImplementsRegister, Register!Spec, RegisterVars, Prepared,
           Installed, Audit, Writing, MetClients
=============================================================================
