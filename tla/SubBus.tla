------------------------------- MODULE SubBus -------------------------------
(***************************************************************************)
(* The reference programs with a sub-bus: a master run with --sub-bus and  *)
(* a trunk slave run with --sub-bus-file, over the same second bus file.   *)
(* The programs are those of CycloneNodes with further places in them      *)
(* (place[n]); the sub-bus is a second bus under BusManager (Sub), its     *)
(* managers have one bus id and so one temporary file.                     *)
(*                                                                         *)
(* The slave's reads of the sub-bus between heartbeats are only printed    *)
(* and left out, and it takes note that the task is over (task_in_progress)*)
(* before it clears the sub-bus here, after it in the code; nothing reads  *)
(* that in between.                                                        *)
(***************************************************************************)
EXTENDS CycloneNodes

CONSTANTS
    SubMaster,      \* the masters run with --sub-bus
    Trunk,          \* the slaves run with --sub-bus-file
    Root, SubId     \* the root bus and the sub-bus

ASSUME SubBusAssumption ==
    /\ SubMaster \subseteq Master /\ Trunk \subseteq Slave
    /\ {Root, SubId} \subseteq BusId /\ Root # SubId
    /\ \A m \in SubMaster : Target[m] \in Agent

VARIABLES
    subData, subTemp, subPc, subFd, subPend, subFresh,  \* the sub-bus, as in BusManager
    place,      \* place[n]: what n has to do with the sub-bus next
    troubled    \* history: a program crashed or was ended by an exception

subVars  == <<subData, subTemp, subPc, subFd, subPend, subFresh>>
rootVars == <<busData, tempData, pc, fd, pend, fresh>>
treeVars == <<allVars, subVars, place, troubled>>

SubIdOf == [n \in Client |-> SubId]

Sub == INSTANCE BusManager WITH
    busData <- subData, tempData <- subTemp, pc <- subPc, fd <- subFd,
    pend <- subPend, fresh <- subFresh, IdOf <- SubIdOf

Place == {"off", "register", "create", "probe", "work", "clear", "over"}

SubTypeOK ==
    /\ NodeTypeOK /\ Sub!TypeOK
    /\ place \in [Client -> Place] /\ troubled \in BOOLEAN
    /\ \A n \in Client : pc[n] = "idle" \/ subPc[n] = "idle"
    /\ \A n \in Client : stage[n] \in {"failed", "down"}
                            => place[n] = "off" /\ pc[n] = "idle" /\ subPc[n] = "idle"

SubInit ==
    /\ NodeInit /\ Sub!Init
    /\ place = [n \in Client |-> "off"]
    /\ troubled = FALSE

-----------------------------------------------------------------------------
Move(n, to) == place' = [place EXCEPT ![n] = to]

Here(n, here) == place[n] = here /\ pc[n] = "idle" /\ subPc[n] = "idle"

(* A step of the program on the root bus, at a place where it has no business
   with the sub-bus. *)
OnRoot(n, places) ==
    /\ place[n] \in places /\ subPc[n] = "idle"
    /\ UNCHANGED subVars

MasterOnRoot(m) ==
    \/ /\ Start(m) \/ Create(m) \/ Reset(m) \/ Probe(m) \/ Await(m) \/ Lock(m) \/ GiveUp(m)
       /\ OnRoot(m, {"off"}) /\ UNCHANGED place
    \/ /\ Command(m)
       /\ OnRoot(m, {"off"})
       /\ IF m \in SubMaster /\ stage'[m] = "monitor"
          THEN Move(m, "register") ELSE UNCHANGED place

(* Mutant: the sub-bus is cleared only after a release. *)
MonitorWithoutClearing(m) ==
    /\ Monitor(m)
    /\ OnRoot(m, {"off", "work"})
    /\ IF m \in SubMaster /\ stage'[m] = "done"
       THEN Move(m, IF Released THEN "clear" ELSE "over") ELSE UNCHANGED place

MonitorTree(m) ==
    /\ Monitor(m)
    /\ OnRoot(m, {"off", "work"})
    /\ IF m \in SubMaster /\ stage'[m] = "done" THEN Move(m, "clear") ELSE UNCHANGED place

SlaveOnRoot(s) ==
    \/ Ack(s) /\ OnRoot(s, {"off"}) /\ UNCHANGED place
    \/ /\ Execute(s)
       /\ OnRoot(s, {"off"})
       /\ IF s \in Trunk THEN Move(s, "create") ELSE UNCHANGED place
    \/ Beat(s) /\ OnRoot(s, {"off", "work"}) /\ UNCHANGED place

(* A trunk slave that cannot read the root bus in the end does not clear the
   sub-bus. *)
ReleaseTree(s) ==
    /\ Release(s)
    /\ OnRoot(s, {"off", "work"})
    /\ IF s \in Trunk THEN Move(s, IF Readable THEN "clear" ELSE "off") ELSE UNCHANGED place

-----------------------------------------------------------------------------
RegisterAsNew(m) ==      \* mutant: the root bus is created again, with the child
    /\ Here(m, "register") /\ stage[m] = "monitor"
    /\ \/ /\ Readable
          /\ RawWrite(m, [InitialFrame(Root) EXCEPT !.Aid = AidOf[m],
                                                   !.Child_Buses = {SubId}])
       \/ ~Readable /\ UNCHANGED vars
    /\ Move(m, "create")
    /\ UNCHANGED <<subVars, nodeVars>>

(* The master enters the sub-bus into the root bus, with a frame it read before
   and at the same clock.  The frame can be the 102 of a command that is being
   executed, or has been, when it is put back. *)
RegisterChild(m) ==
    /\ Here(m, "register") /\ stage[m] = "monitor"
    /\ \/ /\ Readable
          /\ RawWrite(m, [busData EXCEPT !.Child_Buses = {SubId}])
       \/ ~Readable /\ UNCHANGED vars
    /\ Move(m, "create")
    /\ UNCHANGED <<subVars, nodeVars>>

(* initialize_bus of the sub-bus: the master names its target, the slave itself. *)
CreateSub(n) ==
    /\ Here(n, "create")
    /\ \/ /\ ~Sub!Readable
          /\ LET aid == IF n \in Master THEN Target[n] ELSE AidOf[n]
             IN  Sub!BeginWrite(n, UNINITIALIZED,
                    [Sub!InitialFrame(SubId) EXCEPT !.Aid = aid, !.Parent_Bus = Root], NoAid)
       \/ /\ Sub!Readable
          /\ UNCHANGED <<subVars, ledger, crashes>>
    /\ Move(n, IF n \in Master THEN "probe" ELSE "work")
    /\ UNCHANGED <<rootVars, nodeVars>>

(* The exception of a refusal ends the program. *)
Probing(m) ==
    [NoUpdate EXCEPT !.Aid = AidOf[m], !.Target_Aid = Target[m],
                     !.Request = Connect, !.Token_Holder = AidOf[m]]

SubProbeRefused(m) ==
    LET old == Sub!CurrentFrame(m)
    IN  ~Sub!Admissible(AidOf[m], old, PROBE,
                        Sub!WithPayload(Sub!NextFrame(old, PROBE), Probing(m)))

ProbeSub(m) ==
    /\ Here(m, "probe")
    /\ \/ /\ Sub!Transition(m, PROBE, Probing(m))
          /\ Move(m, "work")
          /\ UNCHANGED <<stage, count>>
       \/ /\ SubProbeRefused(m)
          /\ GoTo(m, "failed")
          /\ Move(m, "off")
          /\ UNCHANGED <<subVars, ledger, crashes>>
    /\ UNCHANGED <<rootVars, peer, busy, restarts, commands, executions>>

(* Back to 000; an exception is printed. *)
ClearSub(n) ==
    /\ Here(n, "clear")
    /\ \/ Sub!ForceTransition(n, UNINITIALIZED)
       \/ /\ LET old == Sub!CurrentFrame(n)
             IN  ~(/\ ValidateTransition(old.status, UNINITIALIZED)
                   /\ AssertInvariants(Sub!ForcedFrame(old, UNINITIALIZED)))
          /\ UNCHANGED <<subVars, ledger, crashes>>
    /\ Move(n, IF n \in Master THEN "over" ELSE "off")
    /\ UNCHANGED <<rootVars, nodeVars>>

OnSub(n) == RegisterChild(n) \/ CreateSub(n) \/ ProbeSub(n) \/ ClearSub(n)

-----------------------------------------------------------------------------
(* The steps of a write, to the root bus and to the sub-bus.  A rename that
   finds no file ends the program, except in ClearSub. *)
RootWrite(n) ==
    /\ WriteStep(n)
    /\ UNCHANGED subVars
    /\ IF stage'[n] = "failed" THEN Move(n, "off") ELSE UNCHANGED place

SubWrite(n) ==
    /\ \/ /\ Sub!Open(n) \/ Sub!Flush(n) \/ Sub!Replace(n) \/ Sub!AppendLedger(n)
          /\ UNCHANGED <<nodeVars, place>>
       \/ /\ Sub!ReplaceFails(n)
          /\ place[n] \in {"probe", "work"}
          /\ GoTo(n, "failed") /\ Move(n, "off")
          /\ UNCHANGED <<peer, busy, restarts, commands, executions>>
       \/ /\ Sub!ReplaceFails(n)
          /\ place[n] \in {"over", "off"}
          /\ UNCHANGED <<nodeVars, place>>
    /\ UNCHANGED rootVars

Running(n) ==
    stage[n] \notin Stopped \/ pc[n] # "idle" \/ subPc[n] # "idle" \/ place[n] = "clear"

CrashTree(n) ==
    /\ Running(n)
    /\ Crash(n) /\ Sub!Crash(n)
    /\ GoTo(n, "down") /\ Move(n, "off")
    /\ UNCHANGED <<peer, busy, restarts, commands, executions>>

RestartTree(n) ==
    /\ ~Running(n)
    /\ Restart(n)
    /\ Move(n, "off")
    /\ UNCHANGED subVars

-----------------------------------------------------------------------------
TreeStep(n) ==
    \/ n \in Master /\ (MasterOnRoot(n) \/ MonitorTree(n))
    \/ n \in Slave /\ (SlaveOnRoot(n) \/ ReleaseTree(n))
    \/ OnSub(n) \/ RootWrite(n) \/ SubWrite(n)

TroubleKnown == troubled' = (troubled \/ \E n \in Client : stage'[n] \in {"failed", "down"})

TreeNext ==
    /\ \E n \in Client : TreeStep(n) \/ CrashTree(n) \/ RestartTree(n)
    /\ TroubleKnown

TreeSpec == SubInit /\ [][TreeNext]_treeVars

(* Every running process takes its next step some time. *)
FairTreeSpec == TreeSpec /\ \A n \in Client : WF_treeVars(TreeStep(n) /\ TroubleKnown)

-----------------------------------------------------------------------------
(* Both buses name the holder of the token while they are active, although the
   master writes to the root bus what it read before and the temporary file of
   the sub-bus is shared. *)
TokensConserved == TokenConservation /\ Sub!TokenConservation

Idle000 == ~Sub!Readable \/ subData.status = UNINITIALIZED

(* There is one session on the sub-bus at a time. *)
OneSubMaster == \A m, k \in SubMaster : m = k

(* A master that is done leaves the sub-bus free for the next one, although it
   ignores a failed cleanup and the slaves initialize and clear the same bus
   when they like; hence a master never finds the sub-bus taken.  A crash is
   enough to break this: a sub-bus a dead master left at 001 is not reset by the
   next one, unlike a root bus at 100 or 103. *)
SubBusReleased ==
    OneSubMaster /\ ~troubled => \A m \in SubMaster :
        /\ place[m] = "over" /\ subPc[m] = "idle" => Idle000
        /\ Here(m, "probe") => ~SubProbeRefused(m)

(* A command may be executed again because its master puts the 102 back when it
   enters the sub-bus, after the slave has released the bus.  That happens at most
   once for a command, whatever crashes or competes, and a second execution has no
   other reason but a slave that was started again. *)
ExecutionsPaired ==
    LET starts == {start \in Slave \X (1..MaxRestarts) : start[2] <= restarts[start[1]]}
    IN  SlavesDiffer => executions <= 2 * commands + Cardinality(starts)

(* What the master puts back on the root bus to enter the sub-bus does not lose the
   command it has just given: that is answered, if the master is alone and no
   program crashes, is ended by an exception or started again.  The answer may be
   put back to an earlier status in turn, and the master may never see it. *)
CommandSurvivesRegister ==
    LET quiet == ~troubled /\ \A n \in Client : restarts[n] = 0
    IN  Alone => \A m \in SubMaster : place[m] = "register" /\ quiet ~>
                    BusIn({RELEASE_SUCCESS}) \/ ~quiet

(* A master with a sub-bus ends too, and is not held up by its cleanup. *)
TreesFinish == \A m \in Master : []<>~Running(m)
=============================================================================
