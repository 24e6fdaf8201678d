--------------------------- MODULE TeardownProofs ---------------------------
(***************************************************************************)
(* Theorems about the supervisor of Teardown, for any tree of sub-buses,   *)
(* any agents, any grace period, and any number of calls and crashes.      *)
(***************************************************************************)
EXTENDS Teardown, TLAPS

(* Every step, by what it does to the lease watcher, the agents and the handler. *)
LEMMA Steps ==
    ASSUME [Next]_vars
    PROVE  \/ Watch
           \/ \E b \in SubBus : CreateSubBus(b) \/ MasterReads(b) \/ AgentReads(b) \/ AgentWrites(b)
           \/ MasterWrites \/ MasterFails
           \/ \E a \in Agent : AgentDies(a) \/ AgentStarts(a)
           \/ \E a \in Agent, fatal \in BOOLEAN : BeginTeardown(a, fatal)
           \/ \E b \in Bus : Skip(b) \/ ForceReads(b) \/ ForceRefused(b)
           \/ ForceWrites \/ ForceFails
           \/ HandlerReturns
           \/ ClearPendingSignals
           \/ SupervisorCrashes
           \/ UNCHANGED vars
  <1>1. \A b \in SubBus : TokenHolder[b] \in Agent
    BY TeardownAssumption DEF Bus
  <1> QED
    BY <1>1 DEF Next, Handle, HandleAgentLost, HandleCascadingFailure

-----------------------------------------------------------------------------
(* The lease watcher. *)
Lease == [last : Nat, missed : Nat, status : LeaseStatus]

LeaseFields == now \in Nat /\ watch \in [Watched -> Lease \cup {Unwatched}]

LeaseInv == LeaseFields /\ ExpiredMeansSilent

LEMMA LeaseStep ==
    ASSUME LeaseInv, LeaseNext
    PROVE  LeaseInv'
  <1> DEFINE Silent(b) ==
                 watch[b] # Unwatched =>
                     /\ IsExpired(b) => LeaseOver(b, b \in Trunk)
                     /\ IsExpired(b) <=> watch[b].missed > 0
  <1> USE DEF LeaseInv, LeaseFields, Lease, LeaseStatus
  <1>1. \A b \in Watched : \A t \in BOOLEAN : ComputeGracePeriod(t) \in Nat
    BY LeaseAssumption DEF ComputeGracePeriod
  <1>2. CASE Tick
    <2>1. now' = now + 1 /\ watch' = watch
      BY <1>2 DEF Tick
    <2>2. ASSUME NEW b \in Watched, watch[b] # Unwatched PROVE Silent(b)'
      <3>1. watch[b].last \in Nat /\ (b \in Trunk) \in BOOLEAN
        BY <2>2
      <3>2. LeaseOver(b, b \in Trunk) => LeaseOver(b, b \in Trunk)'
        <4> DEFINE grace == ComputeGracePeriod(b \in Trunk)
        <4>1. grace \in Nat /\ grace' = grace
          BY <1>1, <3>1 DEF ComputeGracePeriod
        <4>2. LeaseOver(b, b \in Trunk) <=> now - watch[b].last > grace
          BY DEF LeaseOver
        <4>3. LeaseOver(b, b \in Trunk)' <=> now' - watch'[b].last > grace
          BY <4>1 DEF LeaseOver
        <4> HIDE DEF grace
        <4> QED
          BY <4>1, <4>2, <4>3, <2>1, <3>1
      <3>3. Silent(b)
        BY DEF ExpiredMeansSilent
      <3> QED
        BY <2>1, <2>2, <3>2, <3>3 DEF IsExpired
    <2> QED
      BY <2>1, <2>2 DEF ExpiredMeansSilent
  <1>3. ASSUME NEW b \in Watched,
               \E status \in {"monitoring", "healthy"} :
                   watch' = [watch EXCEPT ![b] = [last |-> now, missed |-> 0, status |-> status]],
               now' = now
        PROVE  LeaseInv'
    BY <1>3 DEF ExpiredMeansSilent, IsExpired, LeaseOver, ComputeGracePeriod
  <1>4. ASSUME NEW b \in Watched, Unregister(b) PROVE LeaseInv'
    BY <1>4 DEF Unregister, ExpiredMeansSilent, IsExpired, LeaseOver, ComputeGracePeriod
  <1>5. ASSUME NEW b \in Watched, CheckLease(b, b \in Trunk) PROVE LeaseInv'
    <2>1. /\ watch[b] \in Lease /\ LeaseOver(b, b \in Trunk) /\ now' = now
          /\ watch' = [watch EXCEPT ![b] = [last |-> watch[b].last, missed |-> watch[b].missed + 1,
                                            status |-> "expired"]]
      BY <1>5 DEF CheckLease
    <2>2. watch'[b] \in Lease /\ watch'[b].last = watch[b].last /\ watch'[b].missed > 0
          /\ watch'[b].status = "expired"
      BY <2>1
    <2>3. watch' \in [Watched -> Lease \cup {Unwatched}]
      BY <2>1, <2>2
    <2>4. Silent(b)'
      BY <2>1, <2>2 DEF IsExpired, LeaseOver, ComputeGracePeriod
    <2>5. ASSUME NEW c \in Watched, c # b PROVE Silent(c)'
      BY <2>1, <2>5 DEF ExpiredMeansSilent, IsExpired, LeaseOver, ComputeGracePeriod
    <2> QED
      BY <2>1, <2>3, <2>4, <2>5 DEF ExpiredMeansSilent
  <1> QED
    BY <1>2, <1>3, <1>4, <1>5 DEF LeaseNext, Register, HeartbeatReceived

(* The verdict of the lease watcher is sound for every interval, every number of
   heartbeats that may be missed and every multiplier, and it stays sound however
   long the supervisor waits before it acts on it. *)
THEOREM VerdictIsSound == Spec => []ExpiredMeansSilent
  <1>1. Init => LeaseInv
    BY DEF Init, LeaseInit, LeaseInv, LeaseFields, ExpiredMeansSilent
  <1>2. LeaseInv /\ [Next]_vars => LeaseInv'
    <2> SUFFICES ASSUME LeaseInv, [Next]_vars PROVE LeaseInv'
      OBVIOUS
    <2>1. CASE Watch
      BY <2>1, LeaseStep DEF Watch
    <2>2. CASE UNCHANGED leaseVars
      BY <2>2 DEF leaseVars, LeaseInv, LeaseFields, ExpiredMeansSilent, IsExpired, LeaseOver,
                  ComputeGracePeriod
    <2>3. CASE SupervisorCrashes
      BY <2>3 DEF SupervisorCrashes, LeaseInv, LeaseFields, ExpiredMeansSilent, IsExpired
    <2> QED
      BY <2>1, <2>2, <2>3, Steps
         DEF CreateSubBus, MasterReads, MasterWrites, MasterFails, AgentReads, AgentWrites, AgentDies,
             AgentStarts, BeginTeardown, Skip, ForceReads, ForceRefused, ForceWrites, ForceFails, HandlerReturns, ClearPendingSignals, vars
  <1>3. LeaseInv => ExpiredMeansSilent
    BY DEF LeaseInv
  <1> QED
    BY <1>1, <1>2, <1>3, PTL DEF Spec

-----------------------------------------------------------------------------
(* A pending signal has its teardown in the log.  Only the return of a call
   appends to either. *)
LEMMA SignalsAreLate == Spec => []EscalatedAfterTeardown
  <1>1. Init => EscalatedAfterTeardown
    BY DEF Init, EscalatedAfterTeardown
  <1>2. EscalatedAfterTeardown /\ [Next]_vars => EscalatedAfterTeardown'
    <2> SUFFICES ASSUME EscalatedAfterTeardown, [Next]_vars PROVE EscalatedAfterTeardown'
      OBVIOUS
    <2> USE DEF EscalatedAfterTeardown
    <2>1. CASE HandlerReturns
      <3>1. log' = log \cup {Record} /\ Record.agent = job.agent /\ Record.fatal = job.fatal
        BY <2>1 DEF HandlerReturns, Record
      <3>2. CASE job.fatal
        BY <3>1, <3>2, <2>1 DEF HandlerReturns
      <3>3. CASE ~job.fatal
        BY <3>1, <3>3, <2>1 DEF HandlerReturns
      <3> QED
        BY <3>2, <3>3
    <2>2. CASE log' = log /\ (signals' = signals \/ signals' = {})
      BY <2>2
    <2>3. CASE SupervisorCrashes
      BY <2>3 DEF SupervisorCrashes
    <2>4. \/ UNCHANGED <<log, signals>> \/ HandlerReturns
          \/ ClearPendingSignals \/ SupervisorCrashes
      BY Steps
         DEF Watch, CreateSubBus, MasterReads, MasterWrites, MasterFails, AgentReads, AgentWrites,
             AgentDies, AgentStarts, BeginTeardown, Skip, ForceReads, ForceRefused, ForceWrites, ForceFails, vars, handlerVars
    <2> QED
      BY <2>1, <2>2, <2>3, <2>4 DEF ClearPendingSignals
  <1> QED
    BY <1>1, <1>2, PTL DEF Spec

-----------------------------------------------------------------------------
(* The calls of the handler: what a call has answered so far are the targets it
   took from todo and there is a manager for. *)
CallInv ==
    /\ job = Nothing => seen = Nothing
    /\ job # Nothing => /\ todo \subseteq job.targets
                        /\ DOMAIN results = (job.targets \ todo) \cap Managers
                        /\ seen # Nothing => seen \in todo \cap Managers
    /\ TargetsTried

LEMMA CallStep ==
    ASSUME CallInv, [Next]_vars
    PROVE  CallInv'
  <1> USE DEF CallInv, TargetsTried
  <1>1. ASSUME NEW a \in Agent, NEW fatal \in BOOLEAN, BeginTeardown(a, fatal)
        PROVE  CallInv'
    <2>1. job = Nothing /\ seen' = seen /\ log' = log /\ todo' = job'.targets /\ DOMAIN results' = {}
      BY <1>1 DEF BeginTeardown, SupervisorFree, NoResults
    <2> QED
      BY <2>1
  <1>2. ASSUME NEW b \in Bus, Skip(b) PROVE CallInv'
    BY <1>2 DEF Skip, NextTarget
  <1>3. ASSUME NEW b \in Bus, ForceReads(b) PROVE CallInv'
    BY <1>3 DEF ForceReads, NextTarget
  <1>4. ASSUME NEW b, NEW outcome, b \in todo \cap Managers, job # Nothing, Answer(b, outcome),
               seen \in {b, Nothing}, seen' = Nothing, job' = job, log' = log
        PROVE  CallInv'
    BY <1>4 DEF Answer
  <1>5. ASSUME NEW b \in Bus, ForceRefused(b) PROVE CallInv'
    <2>1. /\ b \in todo \cap Managers /\ job # Nothing /\ Answer(b, "refused")
          /\ seen = Nothing /\ UNCHANGED <<seen, job, log>>
      BY <1>5 DEF ForceRefused, NextTarget
    <2> QED
      BY <2>1, <1>4
  <1>6. CASE ForceWrites \/ ForceFails
    <2>1. /\ seen # Nothing /\ seen \in todo \cap Managers /\ job # Nothing
          /\ seen' = Nothing /\ job' = job /\ log' = log
          /\ \E outcome : Answer(seen, outcome)
      BY <1>6 DEF ForceWrites, ForceFails
    <2> QED
      BY <2>1, <1>4
  <1>7. CASE HandlerReturns
    <2>1. log' = log \cup {Record} /\ job' = Nothing /\ seen' = seen /\ seen = Nothing
      BY <1>7 DEF HandlerReturns
    <2>2. /\ Record.targets = job.targets /\ Record.results = results
          /\ DOMAIN results = job.targets \cap Managers
      BY <1>7 DEF HandlerReturns, Record
    <2> QED
      BY <2>1, <2>2
  <1>8. CASE SupervisorCrashes
    BY <1>8 DEF SupervisorCrashes
  <1>9. CASE UNCHANGED <<callVars, log>>
    BY <1>9 DEF callVars
  <1> QED
    <2>1. \/ \E a \in Agent, fatal \in BOOLEAN : BeginTeardown(a, fatal)
          \/ \E b \in Bus : Skip(b) \/ ForceReads(b) \/ ForceRefused(b)
          \/ ForceWrites \/ ForceFails \/ HandlerReturns \/ SupervisorCrashes
          \/ UNCHANGED <<callVars, log>>
      BY Steps
         DEF Watch, CreateSubBus, MasterReads, MasterWrites, MasterFails, AgentReads, AgentWrites,
             AgentDies, AgentStarts, ClearPendingSignals, handlerVars, vars
    <2> QED
      BY <2>1, <1>1, <1>2, <1>3, <1>5, <1>6, <1>7, <1>8, <1>9

LEMMA CallsAnswer == Spec => []CallInv
  <1>1. Init => CallInv
    BY DEF Init, CallInv, TargetsTried
  <1> QED
    BY <1>1, CallStep, PTL DEF Spec

(* However many targets fail or are refused, a call that has returned dealt with
   all of them. *)
THEOREM TargetsAreAnswered == Spec => []EveryTargetAnswered
  <1>1. CallInv /\ EscalatedAfterTeardown => EveryTargetAnswered
    BY DEF CallInv, EveryTargetAnswered
  <1> QED
    BY <1>1, CallsAnswer, SignalsAreLate, PTL

-----------------------------------------------------------------------------
(* What the master writes itself it writes outside the calls of the handler. *)
OwnInv ==
    /\ own \in [bus : Managers, next : {PROBE, UNINITIALIZED}] \cup {Nothing}
    /\ own # Nothing => job = Nothing

LEMMA OwnStep ==
    ASSUME OwnInv, [Next]_vars
    PROVE  OwnInv'
  <1> USE DEF OwnInv
  <1>1. ASSUME NEW b \in SubBus, MasterReads(b) PROVE OwnInv'
    BY <1>1 DEF MasterReads, SupervisorFree, handlerVars, callVars
  <1>2. CASE own' = Nothing
    BY <1>2
  <1>3. CASE own' = own /\ (job' = job \/ own = Nothing \/ job' = Nothing)
    BY <1>3
  <1> QED
    <2>1. \/ \E b \in SubBus : MasterReads(b)
          \/ own' = Nothing
          \/ own' = own /\ (job' = job \/ own = Nothing \/ job' = Nothing)
      BY Steps
         DEF Watch, CreateSubBus, MasterWrites, MasterFails, AgentReads, AgentWrites, AgentDies,
             AgentStarts, BeginTeardown, SupervisorFree, Skip, ForceReads, ForceRefused,
             ForceWrites, ForceFails, HandlerReturns, ClearPendingSignals, SupervisorCrashes,
             handlerVars, callVars, vars
    <2> QED
      BY <2>1, <1>1, <1>2, <1>3

LEMMA OwnCorrect == Spec => []OwnInv
  <1>1. Init => OwnInv
    BY DEF Init, OwnInv
  <1> QED
    BY <1>1, OwnStep, PTL DEF Spec

-----------------------------------------------------------------------------
(* A bus that works was set to work, and the one the handler is about to force
   was working when it was read.  Forcing is what ends that, so until then the
   history remembers it. *)
WorkInv ==
    /\ sub \in [SubBus -> Status \cup {Missing}]
    /\ \A b \in SubBus : sub[b] \in Working => b \in working
    /\ seen # Nothing => seen \in SubBus \cap working

LEMMA GraphTearsDownWorking ==
    ASSUME NEW current \in Status
    PROVE  ValidateTransition(current, RELEASE_FAILED) <=> current \in Working
  BY DEF ValidateTransition, ValidTransitions, Working, Status, UNINITIALIZED, PROBE,
         HANDSHAKE_ACK, SLAVE_PASSIVE, ACTIVE_CONTROL, LEASE_HEARTBEAT, RELEASE_SUCCESS,
         RELEASE_FAILED

LEMMA StatusOfMissing ==
    /\ Missing \notin Working /\ UNINITIALIZED \notin Working /\ RELEASE_FAILED \notin Working
    /\ UNINITIALIZED \in Status /\ RELEASE_FAILED \in Status /\ Working \subseteq Status
  BY TeardownAssumption DEF Status, Working, UNINITIALIZED, PROBE, HANDSHAKE_ACK, SLAVE_PASSIVE,
                            ACTIVE_CONTROL, LEASE_HEARTBEAT, RELEASE_SUCCESS, RELEASE_FAILED

(* What the handler sees of a bus, and what the graph says of it. *)
LEMMA HandlerSees ==
    ASSUME sub \in [SubBus -> Status \cup {Missing}], NEW b \in SubBus
    PROVE  ValidateTransition(CurrentStatus(b), RELEASE_FAILED) <=> sub[b] \in Working
  <1>1. CurrentStatus(b) \in Status
    BY StatusOfMissing DEF CurrentStatus
  <1>2. CurrentStatus(b) \in Working <=> sub[b] \in Working
    BY StatusOfMissing DEF CurrentStatus
  <1> QED
    BY <1>1, <1>2, GraphTearsDownWorking

LEMMA WorkStep ==
    ASSUME WorkInv, OwnInv, [Next]_vars
    PROVE  WorkInv'
  <1> USE DEF WorkInv
  <1>1. ASSUME NEW b \in SubBus, CreateSubBus(b) PROVE WorkInv'
    BY <1>1, StatusOfMissing DEF CreateSubBus, handlerVars, callVars, history
  <1>2. ASSUME NEW b \in SubBus, AgentWrites(b) PROVE WorkInv'
    <2> PICK next \in Status :
          /\ sub' = [sub EXCEPT ![b] = next]
          /\ working' = IF next \in Working THEN working \cup {b} ELSE working
      BY <1>2 DEF AgentWrites
    <2>1. seen' = seen /\ working \subseteq working' /\ (next \in Working => b \in working')
      BY <1>2 DEF AgentWrites, handlerVars, callVars
    <2> QED
      BY <2>1
  <1>3. ASSUME NEW b \in Bus, ForceReads(b) PROVE WorkInv'
    <2>1. b \in SubBus /\ ValidateTransition(CurrentStatus(b), RELEASE_FAILED)
      BY <1>3, TeardownAssumption DEF ForceReads
    <2>2. b \in working /\ seen' = b /\ sub' = sub /\ working' = working
      BY <1>3, <2>1, HandlerSees DEF ForceReads, agentVars, history
    <2> QED
      BY <2>1, <2>2
  <1>4. CASE ForceWrites
    BY <1>4, StatusOfMissing DEF ForceWrites
  <1>5. CASE UNCHANGED <<sub, working>> /\ seen' \in {seen, Nothing}
    BY <1>5
  <1>6. CASE MasterWrites
    <2>1. own.bus \in SubBus /\ own.next \in Status \ Working
      BY <1>6, TeardownAssumption DEF MasterWrites, OwnInv, Status, Working, PROBE, UNINITIALIZED,
                                      ACTIVE_CONTROL, LEASE_HEARTBEAT
    <2>2. UNCHANGED <<seen, working>> /\ sub' = [sub EXCEPT ![own.bus] = own.next]
      BY <1>6 DEF MasterWrites, handlerVars, callVars
    <2> QED
      BY <2>1, <2>2
  <1> QED
    <2>1. \/ \E b \in SubBus : CreateSubBus(b) \/ AgentWrites(b)
          \/ \E b \in Bus : ForceReads(b)
          \/ ForceWrites \/ MasterWrites
          \/ UNCHANGED <<sub, working>> /\ seen' \in {seen, Nothing}
      BY Steps
         DEF Watch, MasterReads, MasterFails, AgentReads, AgentDies, AgentStarts, BeginTeardown,
             Skip, ForceRefused, ForceFails, HandlerReturns, ClearPendingSignals,
             SupervisorCrashes, handlerVars, callVars, agentVars, history, vars
    <2> QED
      BY <2>1, <1>1, <1>2, <1>3, <1>4, <1>5, <1>6

LEMMA WorkIsRemembered == Spec => []WorkInv
  <1>1. Init => WorkInv
    BY TeardownAssumption DEF Init, WorkInv
  <1> QED
    BY <1>1, WorkStep, OwnCorrect, PTL DEF Spec

(* No sub-bus is torn down twice without having been set to work in between,
   although the handler keeps no list of what it tore down and may crash. *)
THEOREM NeverTornTwice == Spec => NotTornTwice
  <1>1. WorkInv /\ [Next]_vars => [\A b \in SubBus : ForceWrites /\ seen = b => b \in working]_vars
    BY TeardownAssumption DEF WorkInv, ForceWrites
  <1> QED
    BY <1>1, WorkIsRemembered, PTL DEF Spec, NotTornTwice

-----------------------------------------------------------------------------
(* The dead write nothing: only what a living agent read is acted upon.  An agent
   that lives may undo what was reported of its bus, so nothing is. *)
DeadInv ==
    /\ reported \in [SubBus -> Outcome \cup {Nothing}]
    /\ \A b \in SubBus : TokenHolder[b] \in alive => reported[b] = Nothing
    /\ \A b \in SubBus : held[b] # Nothing => TokenHolder[b] \in alive
    /\ ReportsHold

LEMMA NothingIsNoOutcome ==
    Nothing \notin Outcome /\ Nothing # "teardown_success" /\ Nothing # "refused"
  BY TeardownAssumption DEF Outcome

(* An answer for bus b that is true of it when it is given. *)
LEMMA DeadAnswered ==
    ASSUME DeadInv, WorkInv, NEW b \in SubBus, NEW outcome \in Outcome, Answer(b, outcome),
           UNCHANGED <<alive, held>>,
           \/ sub' = sub /\ outcome # "teardown_success" /\ (outcome = "refused" => sub[b] \notin Working)
           \/ sub' = [sub EXCEPT ![b] = RELEASE_FAILED]
    PROVE  DeadInv'
  <1> USE DEF DeadInv, ReportsHold
  <1> DEFINE answer == IF TokenHolder[b] \in alive THEN Nothing ELSE outcome
  <1>1. reported' = [reported EXCEPT ![b] = answer] /\ answer \in {Nothing, outcome}
    BY DEF Answer
  <1>2. Nothing \notin {"teardown_success", "refused"} \/ TokenHolder[b] \in alive \/ answer = outcome
    OBVIOUS
  <1>3. ASSUME NEW c \in SubBus \ {b}
        PROVE  reported'[c] = reported[c] /\ sub'[c] = sub[c]
    BY <1>1 DEF WorkInv
  <1>4. reported'[b] = answer
    BY <1>1
  <1> QED
    BY <1>1, <1>3, <1>4, StatusOfMissing DEF WorkInv

LEMMA DeadStep ==
    ASSUME DeadInv, CallInv, WorkInv, OwnInv, [Next]_vars
    PROVE  DeadInv'
  <1> USE DEF DeadInv, ReportsHold
  <1>1. ASSUME NEW b \in SubBus, CreateSubBus(b) PROVE DeadInv'
    <2>1. /\ UNCHANGED <<reported, alive, held>>
          /\ sub' = [sub EXCEPT ![b] = IF sub[b] = Missing THEN UNINITIALIZED ELSE sub[b]]
      BY <1>1 DEF CreateSubBus, history
    <2>2. Missing # RELEASE_FAILED
      BY StatusOfMissing, TeardownAssumption
    <2> QED
      BY <2>1, <2>2, StatusOfMissing DEF WorkInv
  <1>2. CASE MasterWrites
    <2>1. own.bus \in SubBus
      BY <1>2, TeardownAssumption DEF MasterWrites, OwnInv
    <2>2. /\ UNCHANGED <<alive, held>>
          /\ \A c \in SubBus \ {own.bus} : sub'[c] = sub[c] /\ reported'[c] = reported[c]
          /\ reported' = [reported EXCEPT ![own.bus] = Nothing]
      BY <1>2, <2>1 DEF MasterWrites, WorkInv
    <2> QED
      BY <2>1, <2>2, NothingIsNoOutcome
  <1>3. ASSUME NEW b \in SubBus, AgentReads(b) PROVE DeadInv'
    <2>1. /\ UNCHANGED <<reported, alive, sub>> /\ TokenHolder[b] \in alive
          /\ \A c \in SubBus \ {b} : held'[c] = held[c]
      BY <1>3 DEF AgentReads, history
    <2> QED
      BY <2>1
  <1>4. ASSUME NEW b \in SubBus, AgentWrites(b) PROVE DeadInv'
    <2>1. /\ UNCHANGED <<reported, alive>> /\ TokenHolder[b] \in alive
          /\ reported[b] = Nothing
          /\ \A c \in SubBus \ {b} : sub'[c] = sub[c]
          /\ held' = [held EXCEPT ![b] = Nothing]
      BY <1>4 DEF AgentWrites, WorkInv
    <2> QED
      BY <2>1, NothingIsNoOutcome
  <1>5. ASSUME NEW a \in Agent, AgentDies(a) PROVE DeadInv'
    <2>1. UNCHANGED <<reported, sub>> /\ alive' = alive \ {a} /\ Forget(a)
      BY <1>5 DEF AgentDies, history
    <2> QED
      BY <2>1 DEF Forget
  <1>6. ASSUME NEW a \in Agent, AgentStarts(a) PROVE DeadInv'
    <2>1. /\ UNCHANGED <<sub, held>> /\ alive' = alive \cup {a}
          /\ reported' = [b \in SubBus |-> IF TokenHolder[b] = a THEN Nothing ELSE reported[b]]
      BY <1>6 DEF AgentStarts
    <2> QED
      BY <2>1, NothingIsNoOutcome
  <1>7. ASSUME NEW b \in Bus, ForceRefused(b) PROVE DeadInv'
    <2>1. /\ b \in SubBus /\ Answer(b, "refused") /\ UNCHANGED <<alive, held, sub>>
          /\ ~ValidateTransition(CurrentStatus(b), RELEASE_FAILED)
      BY <1>7, TeardownAssumption DEF ForceRefused, NextTarget, agentVars
    <2>2. sub[b] \notin Working
      BY <2>1, HandlerSees DEF WorkInv
    <2> QED
      BY <2>1, <2>2, DeadAnswered DEF Outcome
  <1>8. CASE ForceWrites
    <2>1. /\ seen \in SubBus /\ Answer(seen, "teardown_success")
          /\ UNCHANGED <<alive, held>> /\ sub' = [sub EXCEPT ![seen] = RELEASE_FAILED]
      BY <1>8 DEF ForceWrites, WorkInv
    <2> QED
      BY <2>1, DeadAnswered DEF Outcome
  <1>9. CASE ForceFails
    <2>1. /\ seen \in SubBus /\ Answer(seen, "failed") /\ UNCHANGED <<alive, held, sub>>
      BY <1>9 DEF ForceFails, WorkInv, agentVars
    <2> QED
      BY <2>1, DeadAnswered DEF Outcome
  <1>10. CASE SupervisorCrashes
    <2>1. UNCHANGED <<reported, sub, alive>> /\ Forget(Supervisor)
      BY <1>10 DEF SupervisorCrashes, history
    <2> QED
      BY <2>1 DEF Forget
  <1>11. CASE UNCHANGED <<reported, alive, held, sub>>
    BY <1>11
  <1> QED
    <2>1. \/ \E b \in SubBus : CreateSubBus(b) \/ AgentReads(b) \/ AgentWrites(b)
          \/ MasterWrites
          \/ \E a \in Agent : AgentDies(a) \/ AgentStarts(a)
          \/ \E b \in Bus : ForceRefused(b)
          \/ ForceWrites \/ ForceFails \/ SupervisorCrashes
          \/ UNCHANGED <<reported, alive, held, sub>>
      BY Steps
         DEF Watch, MasterFails, HandlerReturns, ClearPendingSignals, MasterReads, BeginTeardown,
             Skip, ForceReads, vars, agentVars, history
    <2> QED
      BY <2>1, <1>1, <1>2, <1>3, <1>4, <1>5, <1>6, <1>7, <1>8, <1>9, <1>10, <1>11

(* What the handler answered of the bus of a dead agent stays true until the agent
   is started again or the master itself writes to the bus, whatever living
   agents, later calls of the handler and restarts of the supervisor do. *)
THEOREM ReportsStayTrue == Spec => []ReportsHold
  <1>1. Init => DeadInv
    BY NothingIsNoOutcome DEF Init, DeadInv, ReportsHold
  <1>2. DeadInv => ReportsHold
    BY DEF DeadInv
  <1>3. DeadInv /\ CallInv /\ WorkInv /\ OwnInv /\ [Next]_vars => DeadInv'
    BY DeadStep
  <1> QED
    BY <1>1, <1>2, <1>3, CallsAnswer, WorkIsRemembered, OwnCorrect, PTL DEF Spec


-----------------------------------------------------------------------------
(* The types. *)
AgentTypes ==
    /\ childBuses \subseteq SubBus /\ working \subseteq SubBus
    /\ held \in [SubBus -> Status \cup {Nothing}]
    /\ alive \subseteq Agent

CallTypes ==
    /\ job \in Job \cup {Nothing}
    /\ todo \subseteq Bus
    /\ DOMAIN results \subseteq Managers
    /\ \A b \in DOMAIN results : results[b] \in Outcome
    /\ signals \subseteq Agent
    /\ calls \in 0..MaxCalls /\ reads \in 0..MaxReads

LEMMA LeaseTypeStep ==
    ASSUME LeaseTypeOK, [Next]_vars
    PROVE  LeaseTypeOK'
  <1> USE LeaseAssumption DEF LeaseTypeOK, LeaseStatus
  <1>1. now \in Nat /\ now <= MaxTime /\ 0 \in 0..MaxVerdicts
    OBVIOUS
  <1>2. CASE Tick
    BY <1>2 DEF Tick
  <1>3. ASSUME NEW b \in Watched, CheckLease(b, b \in Trunk) PROVE LeaseTypeOK'
    <2>1. /\ watch[b] \in [last : 0..MaxTime, missed : 0..MaxVerdicts, status : LeaseStatus]
          /\ watch[b].missed < MaxVerdicts /\ now' = now
          /\ watch' = [watch EXCEPT ![b] = [last |-> watch[b].last,
                                            missed |-> watch[b].missed + 1,
                                            status |-> "expired"]]
      BY <1>3 DEF CheckLease
    <2>2. watch[b].last \in 0..MaxTime /\ watch[b].missed + 1 \in 0..MaxVerdicts
      BY <2>1
    <2> QED
      BY <2>1, <2>2
  <1>4. ASSUME NEW b \in Watched, Register(b) \/ HeartbeatReceived(b) PROVE LeaseTypeOK'
    BY <1>1, <1>4 DEF Register, HeartbeatReceived
  <1>5. ASSUME NEW b \in Watched, Unregister(b) PROVE LeaseTypeOK'
    BY <1>5 DEF Unregister
  <1>6. CASE SupervisorCrashes
    BY <1>6 DEF SupervisorCrashes
  <1>7. CASE UNCHANGED leaseVars
    BY <1>7 DEF leaseVars
  <1>8. LeaseNext \/ SupervisorCrashes \/ UNCHANGED leaseVars
    BY Steps
       DEF Watch, CreateSubBus, MasterReads, MasterWrites, MasterFails, AgentReads, AgentWrites,
           AgentDies, AgentStarts, BeginTeardown, Skip, ForceReads, ForceRefused, ForceWrites, ForceFails, HandlerReturns,
           ClearPendingSignals, vars
  <1> QED
    BY <1>2, <1>3, <1>4, <1>5, <1>6, <1>7, <1>8 DEF LeaseNext

LEMMA AgentTypesStep ==
    ASSUME AgentTypes, WorkInv, CallInv, [Next]_vars
    PROVE  AgentTypes'
  <1> USE DEF AgentTypes
  <1>1. CASE UNCHANGED <<childBuses, working, held, alive>>
    BY <1>1
  <1>2. ASSUME NEW b \in SubBus, CreateSubBus(b) PROVE AgentTypes'
    BY <1>2 DEF CreateSubBus, history
  <1>3. ASSUME NEW b \in SubBus, AgentReads(b) PROVE AgentTypes'
    <2>1. sub[b] \in Status
      BY <1>3 DEF AgentReads, WorkInv
    <2> QED
      BY <1>3, <2>1 DEF AgentReads, history
  <1>4. ASSUME NEW b \in SubBus, AgentWrites(b) PROVE AgentTypes'
    BY <1>4 DEF AgentWrites
  <1>5. ASSUME NEW a \in Agent, AgentDies(a) PROVE AgentTypes'
    BY <1>5 DEF AgentDies, Forget, history
  <1>6. CASE ForceWrites
    BY <1>6 DEF ForceWrites
  <1>7. CASE SupervisorCrashes
    BY <1>7 DEF SupervisorCrashes, Forget, history
  <1>8. ASSUME NEW a \in Agent, AgentStarts(a) PROVE AgentTypes'
    BY <1>8 DEF AgentStarts
  <1> QED
    <2>1. \/ UNCHANGED <<childBuses, working, held, alive>>
          \/ \E b \in SubBus : CreateSubBus(b) \/ AgentReads(b) \/ AgentWrites(b)
          \/ \E a \in Agent : AgentDies(a) \/ AgentStarts(a)
          \/ ForceWrites \/ SupervisorCrashes
      BY Steps
         DEF Watch, MasterReads, MasterWrites, MasterFails, BeginTeardown, Skip, ForceReads,
             ForceRefused, ForceFails, HandlerReturns, ClearPendingSignals, agentVars, history, vars
    <2> QED
      BY <2>1, <1>1, <1>2, <1>3, <1>4, <1>5, <1>6, <1>7, <1>8

LEMMA CallTypesStep ==
    ASSUME CallTypes, CallInv, AgentTypes, [Next]_vars
    PROVE  CallTypes'
  <1> USE TeardownAssumption DEF CallTypes
  <1>1. ASSUME NEW a \in Agent, NEW fatal \in BOOLEAN, BeginTeardown(a, fatal)
        PROVE  CallTypes'
    <2>1. ComputeTeardownTargets(childBuses, FindManagedBuses(a)) \subseteq Bus
      BY DEF ComputeTeardownTargets, FindManagedBuses, AgentTypes, Bus
    <2>2. childBuses \subseteq Bus
      BY DEF AgentTypes, Bus
    <2>3. job' \in Job /\ todo' \subseteq Bus
      BY <1>1, <2>1, <2>2 DEF BeginTeardown, Job
    <2>4. calls' \in 0..MaxCalls
      BY <1>1 DEF BeginTeardown
    <2>5. DOMAIN results' = {}
      BY <1>1 DEF BeginTeardown, NoResults
    <2> QED
      BY <1>1, <2>3, <2>4, <2>5 DEF BeginTeardown
  <1>2. ASSUME NEW b \in Managers, NEW outcome \in Outcome, Answer(b, outcome),
               UNCHANGED <<job, signals, calls, reads>>
        PROVE  CallTypes'
    BY <1>2 DEF Answer
  <1>3. ASSUME NEW b \in Bus, Skip(b) \/ ForceReads(b) PROVE CallTypes'
    BY <1>3 DEF Skip, ForceReads, counts
  <1>4. ASSUME NEW b \in Bus, ForceRefused(b) PROVE CallTypes'
    BY <1>2, <1>4 DEF ForceRefused, Outcome, counts
  <1>5. CASE ForceWrites \/ ForceFails
    <2>1. seen \in Managers
      BY <1>5 DEF ForceWrites, ForceFails, CallInv
    <2> QED
      BY <1>2, <1>5, <2>1 DEF ForceWrites, ForceFails, Outcome, counts
  <1>6. CASE HandlerReturns
    <2>1. DOMAIN results' = {} /\ job' = Nothing /\ UNCHANGED <<todo, calls, reads>>
      BY <1>6 DEF HandlerReturns, NoResults, counts
    <2>2. job.agent \in Agent
      BY <1>6 DEF HandlerReturns, Job
    <2>3. signals' \subseteq Agent
      BY <1>6, <2>2 DEF HandlerReturns
    <2> QED
      BY <2>1, <2>3
  <1>7. CASE SupervisorCrashes
    BY <1>7 DEF SupervisorCrashes, NoResults, counts
  <1>8. ASSUME NEW b \in SubBus, AgentReads(b) PROVE CallTypes'
    BY <1>8 DEF AgentReads, handlerVars, callVars
  <1>9. CASE UNCHANGED <<callVars, calls, reads>> /\ signals' \in {signals, {}}
    BY <1>9 DEF callVars
  <1> QED
    <2>1. \/ \E a \in Agent, fatal \in BOOLEAN : BeginTeardown(a, fatal)
          \/ \E b \in Bus : Skip(b) \/ ForceReads(b) \/ ForceRefused(b)
          \/ ForceWrites \/ ForceFails \/ HandlerReturns \/ SupervisorCrashes
          \/ \E b \in SubBus : AgentReads(b)
          \/ UNCHANGED <<callVars, calls, reads>> /\ signals' \in {signals, {}}
      BY Steps
         DEF Watch, CreateSubBus, MasterReads, MasterWrites, MasterFails, AgentWrites, AgentDies,
             AgentStarts, ClearPendingSignals, handlerVars, counts, vars
    <2> QED
      BY <2>1, <1>1, <1>3, <1>4, <1>5, <1>6, <1>7, <1>8, <1>9

(* At every moment, after any number of crashes: what the handler is about to
   force is a target that has no answer yet, only buses with a manager have one,
   and nobody acts on a read but a living agent. *)
THEOREM SupervisorKeepsTypes == Spec => []TypeOK
  <1> DEFINE Inv == /\ LeaseTypeOK /\ AgentTypes /\ CallTypes
                    /\ CallInv /\ OwnInv /\ WorkInv /\ DeadInv
  <1>1. Init => Inv
    <2> SUFFICES ASSUME Init PROVE Inv
      OBVIOUS
    <2>1. LeaseTypeOK
      BY LeaseAssumption DEF Init, LeaseInit, LeaseTypeOK
    <2>2. AgentTypes
      BY TeardownAssumption DEF Init, AgentTypes, Bus
    <2>3. CallTypes
      BY TeardownAssumption DEF Init, CallTypes, NoResults
    <2>4. CallInv /\ OwnInv
      BY DEF Init, CallInv, OwnInv, TargetsTried
    <2>6. DeadInv
      BY NothingIsNoOutcome DEF Init, DeadInv, ReportsHold
    <2>5. WorkInv
      BY TeardownAssumption DEF Init, WorkInv
    <2> QED
      BY <2>1, <2>2, <2>3, <2>4, <2>5, <2>6
  <1>2. Inv /\ [Next]_vars => Inv'
    BY LeaseTypeStep, AgentTypesStep, CallTypesStep, CallStep, OwnStep, WorkStep, DeadStep
  <1>3. Inv => TypeOK
    BY DEF AgentTypes, CallTypes, CallInv, OwnInv, WorkInv, DeadInv, TypeOK
  <1> QED
    BY <1>1, <1>2, <1>3, PTL DEF Spec
=============================================================================
