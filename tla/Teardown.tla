------------------------------ MODULE Teardown ------------------------------
(***************************************************************************)
(* runtime/teardown_handler.py with the parts of the protocol it calls     *)
(* (bus_topology.py, failure_propagation.py) and of the bus manager        *)
(* (force_transition).  One supervisor, the master of a parent bus, owns a *)
(* LeaseWatcher and a TeardownHandler.  When the lease of an agent is over *)
(* or a fatal failure of one is reported, the handler forces the sub-buses *)
(* to 103, one after the other, and keeps what became of each.             *)
(*                                                                         *)
(* The agents that work on the sub-buses know nothing of that.  An agent   *)
(* writes after a frame it read before, with or without a look at the      *)
(* graph, so it may undo what the handler did in between; and it may die   *)
(* and be started again, or be alive although its lease is over.  The      *)
(* supervisor may die too, and starts again with empty objects.            *)
(*                                                                         *)
(* The shipped master makes these calls, but never gets to the point (see  *)
(* NodesLease in the README); the supervisor here calls as the docstrings  *)
(* describe.  A frame is its status: nothing else decides here, for 103 is *)
(* no active state and a sub-bus has a parent.                             *)
(***************************************************************************)
EXTENDS LeaseWatcher, Protocol

CONSTANTS
    SubBus,         \* the sub-buses
    Parent,         \* the parent bus
    Supervisor,     \* the AID of its master, which may manage sub-buses itself
    TokenHolder,    \* bus_topology: TokenHolder[b] is the agent that manages b
    Managers,       \* child_bus_managers: the buses there is a manager for
    Found,          \* what an earlier session may have left of a sub-bus
    Missing,        \* a sub-bus whose file does not exist
    Nothing,        \* no read, no call
    MaxCalls,       \* bound on the calls of the handler
    MaxReads        \* bound on the frames the agents read to act on them

Bus == SubBus \cup {Parent}

Outcome == {"teardown_success", "refused", "failed"}

ASSUME TeardownAssumption ==
    /\ Bus \subseteq BusId /\ Parent \notin SubBus
    /\ Managers \subseteq SubBus /\ Watched \subseteq Bus
    /\ TokenHolder \in [Bus -> Agent] /\ Supervisor \in Agent
    /\ Found \subseteq Status \cup {Missing}
    /\ Missing \notin Status /\ Nothing \notin Status \cup Bus \cup Outcome /\ Missing # Nothing
    /\ {MaxCalls, MaxReads} \subseteq Nat

VARIABLES
    childBuses,     \* Child_Buses of the parent bus
    sub,            \* sub[b]: the status of sub-bus b
    held,           \* held[b]: the status its agent read and has not acted on
    alive,          \* the agents that live
    job,            \* the call of handle_agent_lost that runs
    todo,           \* its targets that are left
    seen,           \* the target force_transition has read and validated
    results,        \* results[b]: what became of target b
    log,            \* _teardown_log
    signals,        \* the agents whose failures wait in _pending_signals
    own,            \* the write of its own the supervisor has validated
    calls,          \* how often the handler was called
    reads,          \* how many frames the agents read
    working,        \* history: the sub-buses set to work since their last teardown
    reported        \* history: what the handler last answered of a bus whose agent
                    \* was dead and is dead since, if its master did not write to it

agentVars   == <<childBuses, sub, held, alive>>
callVars    == <<job, todo, seen, results>>
handlerVars == <<callVars, log, signals>>
counts      == <<calls, reads>>
history     == <<working, reported>>
vars        == <<leaseVars, agentVars, handlerVars, own, counts, history>>

Working == {ACTIVE_CONTROL, LEASE_HEARTBEAT}

Job   == [agent : Agent, fatal : BOOLEAN, children : SUBSET Bus, targets : SUBSET Bus]

TypeOK ==
    /\ LeaseTypeOK
    /\ childBuses \subseteq SubBus
    /\ sub \in [SubBus -> Status \cup {Missing}]
    /\ held \in [SubBus -> Status \cup {Nothing}]
    /\ alive \subseteq Agent
    /\ \A b \in SubBus : held[b] # Nothing => TokenHolder[b] \in alive
    /\ job \in Job \cup {Nothing}
    /\ todo \subseteq Bus /\ seen \in todo \cup {Nothing}
    /\ DOMAIN results \subseteq Managers
    /\ \A b \in DOMAIN results : results[b] \in Outcome
    /\ signals \subseteq Agent
    /\ calls \in 0..MaxCalls /\ reads \in 0..MaxReads
    /\ own \in [bus : Managers, next : {PROBE, UNINITIALIZED}] \cup {Nothing}
    /\ own # Nothing => job = Nothing
    /\ working \subseteq SubBus
    /\ reported \in [SubBus -> Outcome \cup {Nothing}]

NoResults == [b \in {} |-> "failed"]

(* The supervisor may find the sub-buses of an earlier session. *)
Init ==
    /\ LeaseInit
    /\ sub \in [SubBus -> Found]
    /\ childBuses = {b \in SubBus : sub[b] # Missing}
    /\ held = [b \in SubBus |-> Nothing]
    /\ alive = {TokenHolder[b] : b \in SubBus}
    /\ job = Nothing /\ todo = {} /\ seen = Nothing /\ results = NoResults
    /\ log = {} /\ signals = {}
    /\ own = Nothing
    /\ calls = 0 /\ reads = 0
    /\ reported = [b \in SubBus |-> Nothing]
    /\ working = {b \in SubBus : sub[b] \in Working}

-----------------------------------------------------------------------------
(* The supervisor has one thread: what it does itself and a call of the handler
   do not overlap. *)
SupervisorFree ==
    /\ job = Nothing /\ own = Nothing
    /\ \A b \in SubBus : TokenHolder[b] = Supervisor => held[b] = Nothing

(* The master registers a child bus and creates its file. *)
CreateSubBus(b) ==
    /\ SupervisorFree
    /\ b \notin childBuses
    /\ childBuses' = childBuses \cup {b}
    /\ sub' = [sub EXCEPT ![b] = IF @ = Missing THEN UNINITIALIZED ELSE @]
    /\ UNCHANGED <<leaseVars, held, alive, handlerVars, own, counts, history>>

(* transition and force_transition take a missing file for a bus at 000. *)
CurrentStatus(b) == IF sub[b] = Missing THEN UNINITIALIZED ELSE sub[b]

(* Its other writes to a sub-bus: the PROBE that follows, and the reset to 000 at
   the end of a session, also of what the handler forced to 103.  The next session
   may find the bus as this one left it. *)
MasterReads(b) ==
    /\ SupervisorFree
    /\ b \in Managers
    /\ \E next \in {PROBE, UNINITIALIZED} :
          /\ ValidateTransition(CurrentStatus(b), next)
          /\ own' = [bus |-> b, next |-> next]
    /\ UNCHANGED <<leaseVars, agentVars, handlerVars, counts, history>>

MasterWrites ==
    /\ own # Nothing
    /\ sub' = [sub EXCEPT ![own.bus] = own.next]
    /\ reported' = [reported EXCEPT ![own.bus] = Nothing]
    /\ own' = Nothing
    /\ UNCHANGED <<leaseVars, childBuses, held, alive, handlerVars, counts, working>>

(* An exception of the write: of the reset it is printed and dropped. *)
MasterFails ==
    /\ own # Nothing
    /\ own' = Nothing
    /\ UNCHANGED <<leaseVars, agentVars, handlerVars, counts, history>>

(* The agents. *)
AgentReads(b) ==
    /\ TokenHolder[b] \in alive
    /\ held[b] = Nothing /\ sub[b] # Missing
    /\ TokenHolder[b] = Supervisor => SupervisorFree
    /\ held' = [held EXCEPT ![b] = sub[b]]
    /\ reads < MaxReads
    /\ reads' = reads + 1
    /\ UNCHANGED <<leaseVars, childBuses, sub, alive, handlerVars, own, calls, history>>

(* What an executing slave writes over whatever it read. *)
Unchecked == {LEASE_HEARTBEAT, RELEASE_SUCCESS}

AgentWrites(b) ==
    /\ held[b] # Nothing
    /\ \E next \in Status :
          /\ ValidateTransition(held[b], next) \/ next \in Unchecked
          /\ sub' = [sub EXCEPT ![b] = next]
          /\ working' = IF next \in Working THEN working \cup {b} ELSE working
    /\ held' = [held EXCEPT ![b] = Nothing]
    /\ UNCHANGED <<leaseVars, childBuses, alive, handlerVars, own, counts, reported>>

Forget(a) == held' = [b \in SubBus |-> IF TokenHolder[b] = a THEN Nothing ELSE held[b]]

AgentDies(a) ==
    /\ a \in alive \ {Supervisor}
    /\ alive' = alive \ {a}
    /\ Forget(a)
    /\ UNCHANGED <<leaseVars, childBuses, sub, handlerVars, own, counts, history>>

AgentStarts(a) ==
    /\ a \notin alive
    /\ alive' = alive \cup {a}
    /\ reported' = [b \in SubBus |-> IF TokenHolder[b] = a THEN Nothing ELSE reported[b]]
    /\ UNCHANGED <<leaseVars, childBuses, sub, held, handlerVars, own, counts, working>>

Watch ==
    /\ LeaseNext
    /\ SupervisorFree \/ UNCHANGED watch
    /\ UNCHANGED <<agentVars, handlerVars, own, counts, history>>

-----------------------------------------------------------------------------
(* The failures.  CASCADING_FAILURE is what goes up, and is not among them. *)
FailureCategory == {"TRANSIENT_TIMEOUT", "LEASE_EXPIRED", "PERMISSION_DENIED",
                    "INVARIANT_VIOLATION", "AGENT_UNREACHABLE", "CORRUPTED_BUS"}

(* determine_criticality, for a sub-bus: only these leave it. *)
GlobalFatal(category) == category \in {"AGENT_UNREACHABLE", "INVARIANT_VIOLATION"}

FindManagedBuses(a) == {b \in Bus : TokenHolder[b] = a}

(* All children of the parent, whoever manages them, and the buses of the agent. *)
ComputeTeardownTargets(children, managed) == children \cup managed

(* handle_agent_lost begins. *)
BeginTeardown(a, fatal) ==
    LET targets == ComputeTeardownTargets(childBuses, FindManagedBuses(a))
    IN  /\ SupervisorFree
        /\ calls < MaxCalls
        /\ calls' = calls + 1
        /\ job' = [agent |-> a, fatal |-> fatal, children |-> childBuses,
                   targets |-> targets]
        /\ todo' = targets
        /\ results' = NoResults
        /\ UNCHANGED <<leaseVars, agentVars, seen, log, signals, own, reads, history>>

HandleAgentLost(a) ==
    /\ \E b \in Watched : TokenHolder[b] = a /\ IsExpired(b)
    /\ BeginTeardown(a, FALSE)

(* A failure that stays local returns None and changes nothing. *)
HandleCascadingFailure(b, category) ==
    /\ GlobalFatal(category)
    /\ BeginTeardown(TokenHolder[b], TRUE)

(* The loop: the children of the parent come first. *)
NextTarget(b) ==
    /\ job # Nothing /\ seen = Nothing
    /\ b \in todo
    /\ b \in job.children \/ todo \cap job.children = {}

Answer(b, outcome) ==
    /\ results' = [c \in DOMAIN results \cup {b} |-> IF c = b THEN outcome ELSE results[c]]
    /\ todo' = todo \ {b}
    /\ reported' = [reported EXCEPT ![b] = IF TokenHolder[b] \in alive THEN Nothing ELSE outcome]

Skip(b) ==
    /\ NextTarget(b) /\ b \notin Managers
    /\ todo' = todo \ {b}
    /\ UNCHANGED <<leaseVars, agentVars, job, seen, results, log, signals, own, counts, history>>

ReadUnvalidated(b) ==      \* mutant: the graph is not consulted
    /\ NextTarget(b) /\ b \in Managers
    /\ seen' = b
    /\ UNCHANGED <<leaseVars, agentVars, job, todo, results, log, signals, own, counts, history>>

ForceReads(b) ==
    /\ NextTarget(b) /\ b \in Managers
    /\ ValidateTransition(CurrentStatus(b), RELEASE_FAILED)
    /\ seen' = b
    /\ UNCHANGED <<leaseVars, agentVars, job, todo, results, log, signals, own, counts, history>>

(* Mutant: a refusal leaves the loop. *)
RefusedLeaves(b) ==
    /\ NextTarget(b) /\ b \in Managers
    /\ ~ValidateTransition(CurrentStatus(b), RELEASE_FAILED)
    /\ todo' = {}
    /\ UNCHANGED <<leaseVars, agentVars, job, seen, results, log, signals, own, counts, history>>

(* Mutant: a target that was refused is tried again. *)
RefusedAgain(b) ==
    /\ NextTarget(b) /\ b \in Managers
    /\ ~ValidateTransition(CurrentStatus(b), RELEASE_FAILED)
    /\ results' = [c \in DOMAIN results \cup {b} |-> "refused"]
    /\ UNCHANGED <<leaseVars, agentVars, job, todo, seen, log, signals, own, counts, history>>

ForceRefused(b) ==
    /\ NextTarget(b) /\ b \in Managers
    /\ ~ValidateTransition(CurrentStatus(b), RELEASE_FAILED)
    /\ Answer(b, "refused")
    /\ UNCHANGED <<leaseVars, agentVars, job, seen, log, signals, own, counts, working>>

ForceWrites ==
    /\ seen # Nothing
    /\ sub' = [sub EXCEPT ![seen] = RELEASE_FAILED]
    /\ working' = working \ {seen}
    /\ Answer(seen, "teardown_success")
    /\ seen' = Nothing
    /\ UNCHANGED <<leaseVars, childBuses, held, alive, job, log, signals, own, counts>>

SucceedsAnyway ==      \* mutant: the exception is not looked at
    /\ seen # Nothing
    /\ Answer(seen, "teardown_success")
    /\ seen' = Nothing
    /\ UNCHANGED <<leaseVars, agentVars, job, log, signals, own, counts, working>>

FailsMidway ==      \* mutant: the next target starts with what this one left
    /\ seen # Nothing
    /\ Answer(seen, "failed")
    /\ UNCHANGED <<leaseVars, agentVars, job, seen, log, signals, own, counts, working>>

(* An exception of the write (no space, the temporary file renamed by another). *)
ForceFails ==
    /\ seen # Nothing
    /\ Answer(seen, "failed")
    /\ seen' = Nothing
    /\ UNCHANGED <<leaseVars, agentVars, job, log, signals, own, counts, working>>

Record == [agent |-> job.agent, fatal |-> job.fatal, targets |-> job.targets, results |-> results]

HandlerReturns ==
    /\ job # Nothing /\ todo = {}
    /\ log' = log \cup {Record}
    /\ signals' = IF job.fatal THEN signals \cup {job.agent} ELSE signals
    /\ job' = Nothing
    /\ results' = NoResults
    /\ UNCHANGED <<leaseVars, agentVars, todo, seen, own, counts, history>>

ClearPendingSignals ==
    /\ SupervisorFree
    /\ signals # {}
    /\ signals' = {}
    /\ UNCHANGED <<leaseVars, agentVars, callVars, log, own, counts, history>>

(* The supervisor dies and is started again. *)
SupervisorCrashes ==
    /\ watch' = [b \in Watched |-> Unwatched]
    /\ job' = Nothing /\ todo' = {} /\ seen' = Nothing /\ results' = NoResults
    /\ log' = {} /\ signals' = {} /\ own' = Nothing
    /\ Forget(Supervisor)
    /\ UNCHANGED <<now, childBuses, sub, alive, counts, history>>

-----------------------------------------------------------------------------
Handle ==
    \/ \E b \in Bus : Skip(b) \/ ForceReads(b) \/ ForceRefused(b)
    \/ ForceWrites \/ ForceFails \/ HandlerReturns

Next ==
    \/ Watch
    \/ \E b \in SubBus : CreateSubBus(b) \/ MasterReads(b) \/ AgentReads(b) \/ AgentWrites(b)
    \/ MasterWrites \/ MasterFails
    \/ \E a \in Agent : AgentDies(a) \/ AgentStarts(a) \/ HandleAgentLost(a)
    \/ \E b \in SubBus, category \in FailureCategory : HandleCascadingFailure(b, category)
    \/ Handle \/ ClearPendingSignals \/ SupervisorCrashes

Spec == Init /\ [][Next]_vars

(* A call of the handler goes on; nobody is made to call it. *)
FairSpec == Spec /\ WF_vars(Handle)

-----------------------------------------------------------------------------
(* One target that cannot be torn down does not keep the others from it: a call
   that has returned tried every target there is a manager for, and no other; and
   a failure goes up only after such a call for the agent it came from. *)
TargetsTried == \A e \in log : DOMAIN e.results = e.targets \cap Managers

EscalatedAfterTeardown == \A a \in signals : \E e \in log : e.agent = a /\ e.fatal

EveryTargetAnswered == TargetsTried /\ EscalatedAfterTeardown

(* What the handler answered of a bus whose agent was dead stays true until the
   agent is started again or the master itself resets or probes the bus: one that
   was torn down is at 103, and one that was refused does not work.  Neither
   another call of the handler that fails, nor an agent that lives, nor a restart
   of the supervisor in the middle of a call changes that. *)
ReportsHold ==
    \A b \in SubBus :
        /\ reported[b] = "teardown_success" => sub[b] = RELEASE_FAILED
        /\ reported[b] = "refused" => sub[b] \notin Working

(* Nothing but the graph keeps a bus from being torn down twice, and it is
   enough, although the read and the write of the handler are two steps: in
   between somebody has set the bus to work again. *)
NotTornTwice == [][\A b \in SubBus : ForceWrites /\ seen = b => b \in working]_vars

(* A call of the handler returns, however many of its targets fail. *)
TeardownReturns == job # Nothing ~> job = Nothing
=============================================================================
