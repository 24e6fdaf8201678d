---------------------------- MODULE CycloneNodes ----------------------------
(***************************************************************************)
(* The two reference programs over one root bus, master_node.py (without   *)
(* --sub-bus) and slave_node.py (without --sub-bus-file).  They share      *)
(* nothing but the bus file, which they reach through BusManager.          *)
(*                                                                         *)
(* stage[n] is the place of node n's program between two uses of the bus,  *)
(* pc[n] the place within a write.  Every read of the bus is a step: what  *)
(* a node read may be stale when it writes.  An exception that leaves the  *)
(* main loop (a refused transition, a rename that finds no file) ends the  *)
(* process.  A read of the bus that makes no difference to the reader is   *)
(* not a step, except where the code counts it.                            *)
(*                                                                         *)
(* Time is left out: sleeps may take any time, and a timeout is a number   *)
(* of reads.  check_lease runs right after heartbeat_received has set the  *)
(* time of the last heartbeat to now, finds no lease expired and so        *)
(* changes nothing (master_node.py:219-223).                               *)
(*                                                                         *)
(* These programs never write 103 on the root bus, so the slave's reaction *)
(* to it (slave_node.py:190-195) is unreachable and left out.              *)
(***************************************************************************)
EXTENDS BusManager, FiniteSets

CONSTANTS
    Master, Slave,      \* the processes, by program
    Target,             \* Target[m]: the slave master m calls (--target)
    HandshakePolls,     \* reads a master waits for the 002 (20 in the code)
    MonitorPolls,       \* reads it follows the execution (20)
    Heartbeats,         \* heartbeats of one execution (3)
    MaxRestarts         \* bound on the number of times a process is restarted

ASSUME NodesAssumption ==
    /\ Client = Master \cup Slave /\ IsFiniteSet(Client)
    /\ Master \cap Slave = {}
    /\ Target \in [Master -> Agent \cup {AnyAid}]
    /\ \A m \in Master : AidOf[m] \in Controller
    /\ {HandshakePolls, MonitorPolls, Heartbeats, MaxRestarts} \subseteq Nat

VARIABLES
    stage,      \* stage[n]: the place in n's program
    count,      \* count[n]: reads of the current wait; heartbeats of the execution
    peer,       \* peer[m]: the Aid of the 002 frame m accepted
    busy,       \* busy[s]: task_in_progress
    restarts,   \* restarts[n]: how often n was started again
    commands,   \* history: number of 102 frames masters began to write
    executions  \* history: number of executions slaves began

nodeVars == <<stage, count, peer, busy, restarts, commands, executions>>
allVars  == <<vars, nodeVars>>

MasterStage == {"start", "create", "reset", "probe", "await", "lock", "command",
                "monitor", "done", "gaveup"}
SlaveStage  == {"listen", "beat"}
Stopped     == {"done", "gaveup", "failed", "down"}

NodeTypeOK ==
    /\ TypeOK
    /\ stage \in [Client -> MasterStage \cup SlaveStage \cup Stopped]
    /\ \A m \in Master : stage[m] \notin SlaveStage
    /\ \A s \in Slave : stage[s] \in SlaveStage \cup {"failed", "down"}
    /\ \A n \in Client : pc[n] # "idle" => stage[n] \notin {"start", "failed", "down"}
    /\ count \in [Client -> Nat]
    /\ peer \in [Master -> Agent \cup {NoAid}]
    /\ busy \in [Slave -> BOOLEAN]
    /\ restarts \in [Client -> 0..MaxRestarts]
    /\ commands \in Nat /\ executions \in Nat

First(n) == IF n \in Master THEN "start" ELSE "listen"

NodeInit ==
    /\ Init
    /\ stage = [n \in Client |-> First(n)]
    /\ count = [n \in Client |-> 0]
    /\ peer = [m \in Master |-> NoAid]
    /\ busy = [s \in Slave |-> FALSE]
    /\ restarts = [n \in Client |-> 0]
    /\ commands = 0
    /\ executions = 0

-----------------------------------------------------------------------------
(* n goes on at stage next, with its counter reset. *)
GoTo(n, next) ==
    /\ stage' = [stage EXCEPT ![n] = next]
    /\ count' = [count EXCEPT ![n] = 0]

At(n, here) == stage[n] = here /\ pc[n] = "idle"

Counted(n) == count' = [count EXCEPT ![n] = @ + 1]

NoUpdate == [Aid |-> Keep, Target_Aid |-> Keep, Request |-> Keep,
             Token_Holder |-> Keep, Vector_Clock |-> Keep]

(* n calls transition, and goes on at stage next if it is accepted; the
   exception of a refusal ends the program. *)
TryTransition(n, status, p, next) ==
    \/ /\ Transition(n, status, p)
       /\ GoTo(n, next)
    \/ /\ LET old == CurrentFrame(n)
          IN  ~Admissible(AidOf[n], old, status, WithPayload(NextFrame(old, status), p))
       /\ GoTo(n, "failed")
       /\ UNCHANGED vars

TryForceTransition(n, status, next) ==
    \/ /\ ForceTransition(n, status)
       /\ GoTo(n, next)
    \/ /\ LET old == CurrentFrame(n)
          IN  ~(/\ ValidateTransition(old.status, status)
                /\ AssertInvariants(ForcedFrame(old, status)))
       /\ GoTo(n, "failed")
       /\ UNCHANGED vars

-----------------------------------------------------------------------------
(* The master. *)

(* It looks whether there is a bus, and what an earlier session left. *)
Start(m) ==
    /\ At(m, "start")
    /\ GoTo(m, IF ~Readable THEN "create"
               ELSE IF busData.status \in {RELEASE_SUCCESS, RELEASE_FAILED}
                    THEN "reset" ELSE "probe")
    /\ UNCHANGED <<vars, peer, busy, restarts, commands, executions>>

(* initialize_bus reads the file again. *)
Create(m) ==
    /\ At(m, "create")
    /\ \/ InitializeBus(m, [parent |-> NoBus, children |-> {}])
       \/ Readable /\ UNCHANGED vars
    /\ GoTo(m, "probe")
    /\ UNCHANGED <<peer, busy, restarts, commands, executions>>

Reset(m) ==
    /\ At(m, "reset")
    /\ TryForceTransition(m, UNINITIALIZED, "probe")
    /\ UNCHANGED <<peer, busy, restarts, commands, executions>>

Probe(m) ==
    /\ At(m, "probe")
    /\ TryTransition(m, PROBE,
           [NoUpdate EXCEPT !.Aid = AidOf[m], !.Target_Aid = Target[m],
                            !.Request = Connect, !.Token_Holder = AidOf[m]],
           "await")
    /\ UNCHANGED <<peer, busy, restarts, commands, executions>>

(* One read while it waits for the 002. *)
AckVisible(m) ==
    Readable /\ busData.status = HANDSHAKE_ACK /\ busData.Target_Aid = AidOf[m]

Await(m) ==
    /\ At(m, "await")
    /\ count[m] < HandshakePolls
    /\ \/ /\ AckVisible(m)
          /\ peer' = [peer EXCEPT ![m] = busData.Aid]
          /\ GoTo(m, "lock")
       \/ /\ ~AckVisible(m)
          /\ Counted(m)
          /\ UNCHANGED <<stage, peer>>
    /\ UNCHANGED <<vars, busy, restarts, commands, executions>>

LockKeepingTarget(m) ==      \* mutant: the 101 is not addressed to the slave
    /\ At(m, "lock")
    /\ TryTransition(m, SLAVE_PASSIVE, [NoUpdate EXCEPT !.Token_Holder = AidOf[m]],
                     "command")
    /\ UNCHANGED <<peer, busy, restarts, commands, executions>>

Lock(m) ==
    /\ At(m, "lock")
    /\ TryTransition(m, SLAVE_PASSIVE,
           [NoUpdate EXCEPT !.Target_Aid = peer[m], !.Token_Holder = AidOf[m]],
           "command")
    /\ UNCHANGED <<peer, busy, restarts, commands, executions>>

(* The handshake timed out: whatever the bus holds now goes back to 000. *)
GiveUp(m) ==
    /\ At(m, "await")
    /\ count[m] = HandshakePolls
    /\ TryForceTransition(m, UNINITIALIZED, "gaveup")
    /\ UNCHANGED <<peer, busy, restarts, commands, executions>>

Command(m) ==
    /\ At(m, "command")
    /\ TryTransition(m, ACTIVE_CONTROL,
           [NoUpdate EXCEPT !.Request = Task, !.Token_Holder = AidOf[m]],
           "monitor")
    /\ commands' = IF pc'[m] = "idle" THEN commands ELSE commands + 1
    /\ UNCHANGED <<peer, busy, restarts, executions>>

(* One read while the slave works.  After MonitorPolls of them it leaves the
   bus as it is. *)
Released == Readable /\ busData.status \in {RELEASE_SUCCESS, RELEASE_FAILED}

MonitorUnbounded(m) ==      \* mutant: the master waits for the release
    /\ At(m, "monitor")
    /\ Released
    /\ GoTo(m, "done")
    /\ UNCHANGED <<vars, peer, busy, restarts, commands, executions>>

Monitor(m) ==
    /\ At(m, "monitor")
    /\ \/ /\ Released \/ count[m] = MonitorPolls
          /\ GoTo(m, "done")
       \/ /\ ~Released /\ count[m] < MonitorPolls
          /\ Counted(m)
          /\ UNCHANGED stage
    /\ UNCHANGED <<vars, peer, busy, restarts, commands, executions>>

MasterStep(m) ==
    Start(m) \/ Create(m) \/ Reset(m) \/ Probe(m) \/ Await(m) \/ Lock(m) \/ GiveUp(m)
        \/ Command(m) \/ Monitor(m)

-----------------------------------------------------------------------------
(* The slave.  It writes frames of its own making, unchecked and unaudited. *)

AddressedAnyway(s) == Readable      \* mutant: the target is not looked at
Addressed(s) == Readable /\ busData.Target_Aid \in {AidOf[s], AnyAid}

RawWriteSameClock(s, new) ==      \* mutant: the clock is not moved on
    BeginWrite(s, busData.status, [new EXCEPT !.Vector_Clock = @ - 1], NoAid)

RawWrite(s, new) == BeginWrite(s, busData.status, new, NoAid)

Ack(s) ==
    /\ At(s, "listen")
    /\ Addressed(s) /\ busData.status = PROBE /\ busData.Request = Connect
    /\ RawWrite(s, [NextFrame(busData, HANDSHAKE_ACK) EXCEPT
                        !.Target_Aid = busData.Aid,
                        !.Aid = AidOf[s],
                        !.Token_Holder = NoAid])
    /\ UNCHANGED nodeVars

ExecuteUnaddressed(s) ==      \* mutant: any slave takes the command
    /\ At(s, "listen")
    /\ Readable /\ busData.status = ACTIVE_CONTROL /\ busData.Request = Task
    /\ GoTo(s, "beat")
    /\ busy' = [busy EXCEPT ![s] = TRUE]
    /\ executions' = executions + 1
    /\ UNCHANGED <<vars, peer, restarts, commands>>

ExecuteOnRequest(s) ==      \* mutant: the status is not looked at
    /\ At(s, "listen")
    /\ Addressed(s) /\ busData.Request = Task
    /\ GoTo(s, "beat")
    /\ busy' = [busy EXCEPT ![s] = TRUE]
    /\ executions' = executions + 1
    /\ UNCHANGED <<vars, peer, restarts, commands>>

Execute(s) ==
    /\ At(s, "listen")
    /\ Addressed(s) /\ busData.status = ACTIVE_CONTROL /\ busData.Request = Task
    /\ GoTo(s, "beat")
    /\ busy' = [busy EXCEPT ![s] = TRUE]
    /\ executions' = executions + 1
    /\ UNCHANGED <<vars, peer, restarts, commands>>

BeatKeepingToken(s) ==      \* mutant: the slave does not claim the token
    /\ At(s, "beat")
    /\ count[s] < Heartbeats
    /\ \/ Readable /\ RawWrite(s, NextFrame(busData, LEASE_HEARTBEAT))
       \/ ~Readable /\ UNCHANGED vars
    /\ Counted(s)
    /\ UNCHANGED <<stage, peer, busy, restarts, commands, executions>>

(* One round of the work.  The bus is read anew, its status is not looked at. *)
Beat(s) ==
    /\ At(s, "beat")
    /\ count[s] < Heartbeats
    /\ \/ /\ Readable
          /\ RawWrite(s, [NextFrame(busData, LEASE_HEARTBEAT) EXCEPT
                              !.Token_Holder = AidOf[s]])
       \/ ~Readable /\ UNCHANGED vars
    /\ Counted(s)
    /\ UNCHANGED <<stage, peer, busy, restarts, commands, executions>>

(* The task is done.  If the bus cannot be read the result is dropped, and
   task_in_progress stays set. *)
Release(s) ==
    /\ At(s, "beat")
    /\ count[s] = Heartbeats
    /\ \/ /\ Readable
          /\ RawWrite(s, [NextFrame(busData, RELEASE_SUCCESS) EXCEPT
                              !.Token_Holder = NoAid])
          /\ busy' = [busy EXCEPT ![s] = FALSE]
       \/ ~Readable /\ UNCHANGED <<vars, busy>>
    /\ GoTo(s, "listen")
    /\ UNCHANGED <<peer, restarts, commands, executions>>

SlaveStep(s) == Ack(s) \/ Execute(s) \/ Beat(s) \/ Release(s)

-----------------------------------------------------------------------------
(* The steps of a write, for both. *)
WriteStep(n) ==
    \/ (Open(n) \/ Flush(n) \/ Replace(n) \/ AppendLedger(n)) /\ UNCHANGED nodeVars
    \/ /\ ReplaceFails(n)
       /\ GoTo(n, "failed")
       /\ UNCHANGED <<peer, busy, restarts, commands, executions>>

NodeCrash(n) ==
    /\ stage[n] \notin Stopped \/ pc[n] # "idle"
    /\ Crash(n)
    /\ GoTo(n, "down")
    /\ UNCHANGED <<peer, busy, restarts, commands, executions>>

Restart(n) ==
    /\ At(n, "done") \/ At(n, "gaveup") \/ At(n, "failed") \/ At(n, "down")
    /\ restarts[n] < MaxRestarts
    /\ restarts' = [restarts EXCEPT ![n] = @ + 1]
    /\ GoTo(n, First(n))
    /\ busy' = [s \in Slave |-> busy[s] /\ s # n]
    /\ peer' = [m \in Master |-> IF m = n THEN NoAid ELSE peer[m]]
    /\ UNCHANGED <<vars, commands, executions>>

NodeNext ==
    \/ \E m \in Master : MasterStep(m)
    \/ \E s \in Slave : SlaveStep(s)
    \/ \E n \in Client : WriteStep(n) \/ NodeCrash(n) \/ Restart(n)

NodeSpec == NodeInit /\ [][NodeNext]_allVars

(* What process n does while it runs. *)
Step(n) ==
    \/ n \in Master /\ MasterStep(n)
    \/ n \in Slave /\ SlaveStep(n)
    \/ WriteStep(n)

(* Every running process takes its next step some time; nobody is made to
   crash or to restart. *)
FairNodeSpec == NodeSpec /\ \A n \in Client : WF_allVars(Step(n))

-----------------------------------------------------------------------------
(* One master, which calls one slave, AIDs that differ, and a first session in
   which so far nobody has crashed, was refused, or gave the handshake up. *)
Alone ==
    /\ Cardinality(Master) = 1
    /\ Target \in [Master -> Agent]
    /\ \A c, d \in Client : AidOf[c] = AidOf[d] => c = d

Undisturbed ==
    /\ Alone
    /\ crashes = 0
    /\ \A n \in Client : restarts[n] = 0 /\ stage[n] \notin {"gaveup", "failed"}

(* There is no lock, and the temporary file is shared, but the protocol itself
   keeps the writers of an undisturbed session apart, for each waits for a status
   that only the other one writes, and hence nobody reads a torn frame in it. *)
WritersAlternate ==
    Undisturbed =>
        /\ \A c, d \in Client :
               {pc[c], pc[d]} \subseteq {"open", "flush", "replace"} => c = d
        /\ busData \notin {Empty, Corrupt}

(* Although the slave validates nothing, every frame that replaces another
   follows the connection graph and moves the clock on. *)
SessionLegal ==
    [][Undisturbed /\ Readable /\ Readable' /\ busData' # busData
            => LegalStep(busData, busData')]_allVars

(* A slave works for a master that has locked it: it starts on a 102 that was
   written after the handshake with it, and is the only one that does. *)
ExecutesForMaster ==
    Undisturbed =>
        \A s \in Slave : stage[s] = "beat" =>
            /\ \A t \in Slave : stage[t] = "beat" => t = s
            /\ \E m \in Master : stage[m] \in {"monitor", "done"} /\ peer[m] = AidOf[s]

(* Slaves have AIDs of their own. *)
SlavesDiffer == \A s, t \in Slave : AidOf[s] = AidOf[t] => s = t

(* Whatever happens, a command is executed at most once for every time it was
   given or a slave was started again. *)
ExecutionsBounded ==
    LET starts == {start \in Slave \X (1..MaxRestarts) : start[2] <= restarts[start[1]]}
    IN  SlavesDiffer => executions <= commands + Cardinality(starts)

(* Whoever crashes or competes, no wait in the programs is without bound: a
   master that was started ends, and a slave that works comes back to listen, or
   dies, even if what it does on the bus fails. *)
ProgramsReturn ==
    /\ \A m \in Master : []<>(stage[m] \in Stopped)
    /\ \A s \in Slave : stage[s] = "beat" ~> stage[s] # "beat"

(* A command that was given to a slave is answered on the bus, if the master is
   alone, though it need not be there any more to see that; but a master that is
   started again meanwhile may get in between. *)
CommandAnswered ==
    LET undisturbed == \A n \in Client : restarts[n] = 0
    IN  Alone => \A m \in Master : stage[m] = "monitor" /\ undisturbed ~>
                    (Readable /\ busData.status = RELEASE_SUCCESS) \/ ~undisturbed

-----------------------------------------------------------------------------
(* What the documentation promises and these programs do not keep. *)

BusIn(states) == Readable /\ busData.status \in states

(* SPECIFICATION 1.4.2 and 1.4.3: when the heartbeats stop, the lease expires
   and the bus goes back to 000. *)
LeaseReclaimed ==
    \A s \in Slave : (stage[s] = "down" /\ BusIn({LEASE_HEARTBEAT})) ~> BusIn({UNINITIALIZED})
=============================================================================
