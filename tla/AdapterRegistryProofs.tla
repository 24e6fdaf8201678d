----------------------- MODULE AdapterRegistryProofs -----------------------
(***************************************************************************)
(* Theorems about one shell adapter, for any number of callers,            *)
(* cancellers, retries and calls, and about the registry with the adapter  *)
(* in it, for any number of registrars and ids.  NoOrphanChild and         *)
(* BusyIsExecuting are inductive relative to the types of the fields they  *)
(* speak of; every step of the composed system is a step of the adapter or *)
(* leaves it alone, so that they hold in it too.                           *)
(***************************************************************************)
EXTENDS AdapterRegistry, FiniteSetTheorems, TLAPS

(* What the proofs need of TypeOK. *)
Fields ==
    /\ child \in [Child -> {"unborn", "running"} \cup Ended]
    /\ at \in [Thread -> Place]
    /\ proc \in [Thread -> Child \cup {NoProcess}]
    /\ process \in Child \cup {NoProcess}

(* The steps that say which child a thread holds or where it is. *)
LEMMA FieldsInductive ==
    ASSUME Fields, [Next]_vars
    PROVE  Fields'
  <1> USE DEF Fields, Thread, Place, Ended, shared
  <1>1. ASSUME NEW k \in Child, ChildExits(k) PROVE Fields'
    BY <1>1 DEF ChildExits, Ended, shared
  <1>2. ASSUME NEW c \in Caller, Enter(c) PROVE Fields'
    BY <1>2 DEF Enter, GoTo
  <1>3. ASSUME NEW c \in Caller, Execute(c) PROVE Fields'
    <2> USE DEF GoTo, shared
    <2>1. CASE Begin(c)
      BY <2>1 DEF Begin
    <2>2. CASE Spawn(c)
      <3>1. PICK k \in Child : /\ child' = [child EXCEPT ![k] = "running"]
                               /\ proc' = [proc EXCEPT ![c] = k]
        BY <2>2 DEF Spawn
      <3> QED
        BY <2>2, <3>1 DEF Spawn
    <2>3. CASE SpawnNotFound(c) \/ SpawnRaises(c) \/ InTime(c) \/ SeesNoFlag(c)
               \/ WaitsAgain(c) \/ SeesExit(c)
      BY <2>3 DEF SpawnNotFound, SpawnRaises, InTime, SeesNoFlag, WaitsAgain, SeesExit
    <2>4. CASE Publish(c)
      BY <2>4 DEF Publish
    <2>5. CASE TimesOut(c) \/ SeesFlag(c)
      BY <2>5 DEF TimesOut, SeesFlag, KillProcess, Ended
    <2>6. CASE Collect(c)
      BY <2>6 DEF Collect
    <2>7. CASE Finish(c)
      BY <2>7 DEF Finish
    <2> QED
      BY <1>3, <2>1, <2>2, <2>3, <2>4, <2>5, <2>6, <2>7 DEF Execute
  <1>4. ASSUME NEW x \in Canceller, Cancel(x) PROVE Fields'
    BY <1>4 DEF Cancel, GoTo
  <1>5. ASSUME NEW x \in Canceller, Kill(x) PROVE Fields'
    BY <1>5 DEF Kill, KillProcess, GoTo, shared, Ended
  <1>6. ASSUME NEW x \in Canceller, Mark(x) PROVE Fields'
    BY <1>6 DEF Mark, GoTo
  <1>7. CASE UNCHANGED vars
    BY <1>7 DEF vars, shared
  <1> QED
    BY <1>1, <1>2, <1>3, <1>4, <1>5, <1>6, <1>7 DEF Next

-----------------------------------------------------------------------------
(* Caller c watches child k. *)
Watches(c, k) == proc[c] = k /\ at[c] \in {"publish", "timer", "flag", "wait"}

(* A step that starts no child and takes nobody off a running one. *)
LEMMA KeepsWatch ==
    ASSUME NoOrphanChild,
           \A k \in Child : child'[k] = "running" => child[k] = "running",
           \A c \in Caller, k \in Child :
               child'[k] = "running" /\ Watches(c, k) => Watches(c, k)'
    PROVE  NoOrphanChild'
  BY DEF NoOrphanChild, Watches

(* Killing a child leaves it not running, and no other child is touched. *)
LEMMA KillEnds ==
    ASSUME Fields, NEW j \in Child, KillProcess(j)
    PROVE  \A k \in Child : child'[k] = "running" => child[k] = "running" /\ k # j
  BY DEF Fields, KillProcess, Ended

LEMMA NoOrphanChildInductive ==
    ASSUME Fields, NoOrphanChild, Caller \cap Canceller = {}, [Next]_vars
    PROVE  NoOrphanChild'
  <1> USE DEF Fields, Thread
  <1>1. ASSUME NEW k \in Child, ChildExits(k) PROVE NoOrphanChild'
    BY <1>1, KeepsWatch DEF ChildExits, Ended, Watches
  <1>2. ASSUME NEW c \in Caller, Enter(c) PROVE NoOrphanChild'
    BY <1>2, KeepsWatch DEF Enter, GoTo, Watches
  <1>3. ASSUME NEW c \in Caller, Execute(c) PROVE NoOrphanChild'
    <2> USE DEF GoTo, shared
    <2>1. CASE Begin(c) \/ SpawnNotFound(c) \/ SpawnRaises(c) \/ Publish(c) \/ InTime(c)
               \/ SeesNoFlag(c) \/ WaitsAgain(c) \/ Collect(c) \/ Finish(c)
      BY <2>1, KeepsWatch DEF Begin, SpawnNotFound, SpawnRaises, Publish, InTime,
                              SeesNoFlag, WaitsAgain, Collect, Finish, Watches
    <2>2. CASE Spawn(c)
      <3>1. PICK k \in Child : /\ child' = [child EXCEPT ![k] = "running"]
                               /\ proc' = [proc EXCEPT ![c] = k]
        BY <2>2 DEF Spawn
      <3>2. at[c] = "spawn" /\ at' = [at EXCEPT ![c] = "publish"]
        BY <2>2 DEF Spawn
      <3>3. Watches(c, k)'
        BY <3>1, <3>2 DEF Watches
      <3>4. ASSUME NEW j \in Child, j # k, child'[j] = "running"
            PROVE  \E d \in Caller : Watches(d, j)'
        <4>1. child[j] = "running"
          BY <3>1, <3>4
        <4>2. PICK d \in Caller : Watches(d, j)
          BY <4>1 DEF NoOrphanChild, Watches
        <4>3. d # c
          BY <4>2, <3>2 DEF Watches
        <4> QED
          BY <4>2, <4>3, <3>1, <3>2 DEF Watches
      <3> QED
        BY <3>3, <3>4 DEF NoOrphanChild, Watches
    <2>3. CASE TimesOut(c) \/ SeesFlag(c)
      <3>1. at[c] \in {"timer", "flag"} /\ at' = [at EXCEPT ![c] = "finish"]
            /\ proc' = proc /\ KillProcess(proc[c])
        BY <2>3 DEF TimesOut, SeesFlag
      <3>2. \A k \in Child : child'[k] = "running" => child[k] = "running" /\ k # proc[c]
        <4>1. CASE proc[c] \in Child
          BY <4>1, <3>1, KillEnds
        <4>2. CASE proc[c] = NoProcess
          BY <4>2, <3>1 DEF KillProcess, NoProcess, Child, Ended
        <4> QED
          BY <4>1, <4>2
      <3> QED
        BY <3>1, <3>2, KeepsWatch DEF Watches
    <2>4. CASE SeesExit(c)
      BY <2>4, KeepsWatch DEF SeesExit, Watches
    <2> QED
      BY <1>3, <2>1, <2>2, <2>3, <2>4 DEF Execute
  <1>4. ASSUME NEW x \in Canceller, Cancel(x) PROVE NoOrphanChild'
    BY <1>4, KeepsWatch DEF Cancel, GoTo, Watches
  <1>5. ASSUME NEW x \in Canceller, Kill(x) PROVE NoOrphanChild'
    BY <1>5, KeepsWatch DEF Kill, KillProcess, GoTo, shared, Ended, Watches
  <1>6. ASSUME NEW x \in Canceller, Mark(x) PROVE NoOrphanChild'
    BY <1>6, KeepsWatch DEF Mark, GoTo, shared, Watches
  <1>7. CASE UNCHANGED vars
    BY <1>7, KeepsWatch DEF vars, shared, Watches
  <1> QED
    BY <1>1, <1>2, <1>3, <1>4, <1>5, <1>6, <1>7 DEF Next

(* No child outlives its attempt, however many threads execute and cancel. *)
THEOREM NoOrphans == Spec => []NoOrphanChild
  <1>1. Init => Fields /\ NoOrphanChild
    BY DEF Init, Fields, NoOrphanChild, Thread, Place
  <1>2. Fields /\ NoOrphanChild /\ [Next]_vars => (Fields /\ NoOrphanChild)'
    BY FieldsInductive, NoOrphanChildInductive, ShellAssumption
  <1> QED
    BY <1>1, <1>2, PTL DEF Spec

-----------------------------------------------------------------------------
(* Only Enter makes the adapter BUSY, and a caller leaves execute through
   Finish, which says IDLE, or with an exception. *)
LEMMA BusyIsExecutingInductive ==
    ASSUME Fields, BusyIsExecuting, Caller \cap Canceller = {}, [Next]_vars
    PROVE  BusyIsExecuting'
  <1> USE DEF Fields, Thread, BusyIsExecuting, Inside, GoTo, shared
  <1>1. ASSUME NEW k \in Child, ChildExits(k) PROVE BusyIsExecuting'
    BY <1>1 DEF ChildExits
  <1>2. ASSUME NEW c \in Caller, Enter(c) PROVE BusyIsExecuting'
    BY <1>2 DEF Enter
  <1>3. ASSUME NEW c \in Caller, Execute(c) PROVE BusyIsExecuting'
    <2>1. CASE SpawnRaises(c)
      BY <2>1 DEF SpawnRaises
    <2>2. CASE Collect(c) \/ Finish(c)
      BY <2>2 DEF Collect, Finish
    <2>3. CASE Begin(c) \/ Spawn(c) \/ SpawnNotFound(c) \/ Publish(c) \/ TimesOut(c)
               \/ InTime(c) \/ SeesFlag(c) \/ SeesNoFlag(c) \/ WaitsAgain(c) \/ SeesExit(c)
      <3>1. /\ status' = status /\ raised' = raised
            /\ \E next \in Place \ {"out"} : at' = [at EXCEPT ![c] = next]
        BY <2>3 DEF Begin, Spawn, SpawnNotFound, Publish, TimesOut, InTime, SeesFlag,
                    SeesNoFlag, WaitsAgain, SeesExit, Place
      <3> QED
        BY <3>1
    <2> QED
      BY <1>3, <2>1, <2>2, <2>3 DEF Execute
  <1>4. ASSUME NEW x \in Canceller, Cancel(x) PROVE BusyIsExecuting'
    BY <1>4 DEF Cancel
  <1>5. ASSUME NEW x \in Canceller, Kill(x) PROVE BusyIsExecuting'
    BY <1>5 DEF Kill
  <1>6. ASSUME NEW x \in Canceller, Mark(x) PROVE BusyIsExecuting'
    BY <1>6 DEF Mark
  <1>7. CASE UNCHANGED vars
    BY <1>7 DEF vars
  <1> QED
    BY <1>1, <1>2, <1>3, <1>4, <1>5, <1>6, <1>7 DEF Next

(* The adapter is BUSY without executing only after an exception has left
   execute, however many threads use it. *)
THEOREM BusyExecutes == Spec => []BusyIsExecuting
  <1>1. Init => Fields /\ BusyIsExecuting
    BY DEF Init, Fields, BusyIsExecuting, Thread, Place
  <1>2. Fields /\ BusyIsExecuting /\ [Next]_vars => (Fields /\ BusyIsExecuting)'
    BY FieldsInductive, BusyIsExecutingInductive, ShellAssumption
  <1> QED
    BY <1>1, <1>2, PTL DEF Spec

-----------------------------------------------------------------------------
(* The registry. *)

(* Every step of the composed system, as the registry sees it. *)
LEMMA RegistrySteps ==
    ASSUME [RegistryNext]_allVars
    PROVE  \/ UNCHANGED regVars
           \/ \E x \in Registrar, b \in BusId : Register(x, b) \/ Unregister(x, b) \/ Look(x, b)
           \/ \E x \in Registrar : Clear(x) \/ CallsCancel(x) \/ Remove(x)
  BY DEF RegistryNext, AdapterStep, Goes, allVars

(* What the registry does to the adapter is a call of cancel or nothing. *)
LEMMA AdapterSteps ==
    ASSUME [RegistryNext]_allVars
    PROVE  [Next]_vars
  <1>1. CASE AdapterStep
    BY <1>1 DEF AdapterStep, Next
  <1>2. ASSUME NEW x \in Registrar, CallsCancel(x) PROVE [Next]_vars
    BY <1>2, RegistryAssumption DEF CallsCancel, CancelFails, Next
  <1>3. ASSUME NEW x \in Registrar, NEW b \in BusId,
               Register(x, b) \/ Unregister(x, b) \/ Look(x, b)
        PROVE  [Next]_vars
    BY <1>3 DEF Register, Unregister, Begins, Look
  <1>4. ASSUME NEW x \in Registrar, Clear(x) \/ Remove(x) PROVE [Next]_vars
    BY <1>4 DEF Clear, Begins, Remove
  <1>5. CASE UNCHANGED allVars
    BY <1>5 DEF allVars
  <1> QED
    BY <1>1, <1>2, <1>3, <1>4, <1>5 DEF RegistryNext, Goes

(* The adapter in a registry is a shell adapter: what was proved of it alone
   holds, and unregister leaves no child behind that nobody watches. *)
THEOREM RegistryImplementsAdapter == RegistrySpec => Spec /\ []NoOrphanChild
  <1>1. RegistryInit => Init
    BY DEF RegistryInit
  <1> QED
    BY <1>1, AdapterSteps, NoOrphans, PTL DEF RegistrySpec, Spec

-----------------------------------------------------------------------------
(* A registrar inside a call holds the lock, so nobody else deletes. *)
LockInv ==
    /\ step \in [Registrar -> {"out", "look", "cancel"}]
    /\ doomed \in [Registrar -> SUBSET BusId]
    /\ \A x \in Registrar : step[x] # "out" => lock = x /\ doomed[x] \subseteq adapters

KeysInv == adapters \subseteq BusId

LEMMA LockStep ==
    ASSUME LockInv, [RegistryNext]_allVars, KeysInv
    PROVE  LockInv'
  <1> USE RegistryAssumption DEF LockInv, KeysInv
  <1>1. CASE UNCHANGED regVars
    BY <1>1 DEF regVars
  <1>2. ASSUME NEW x \in Registrar, NEW b \in BusId, Register(x, b) PROVE LockInv'
    BY <1>2 DEF Register
  <1>3. ASSUME NEW x \in Registrar, NEW ids \in SUBSET BusId, ids \subseteq adapters, Begins(x, ids)
        PROVE  LockInv'
    BY <1>3 DEF Begins
  <1>4. ASSUME NEW x \in Registrar, NEW b \in BusId, Look(x, b) PROVE LockInv'
    BY <1>4 DEF Look
  <1>5. ASSUME NEW x \in Registrar, CallsCancel(x) PROVE LockInv'
    BY <1>5 DEF CallsCancel
  <1>6. ASSUME NEW x \in Registrar, Remove(x) PROVE LockInv'
    BY <1>6 DEF Remove
  <1> QED
    BY <1>1, <1>2, <1>3, <1>4, <1>5, <1>6, RegistrySteps DEF Unregister, Clear

LEMMA KeysStep ==
    ASSUME KeysInv, [RegistryNext]_allVars
    PROVE  KeysInv'
  BY RegistrySteps DEF KeysInv, regVars, Register, Unregister, Begins, Look, Clear, CallsCancel, Remove

(* What unregister and clear delete was not deleted by another thread since they
   found it, for any number of registrars and ids. *)
THEOREM NoKeyError == RegistrySpec => []RemovesWhatItChecked
  <1>1. RegistryInit => LockInv /\ KeysInv
    BY DEF RegistryInit, LockInv, KeysInv
  <1>2. LockInv => RemovesWhatItChecked
    BY DEF LockInv, RemovesWhatItChecked
  <1> QED
    BY <1>1, <1>2, LockStep, KeysStep, PTL DEF RegistrySpec

-----------------------------------------------------------------------------
(* A canceller past its kill holds a child that has ended, and an ended child
   never runs again. *)
KillInv ==
    \A x \in Canceller :
        /\ at[x] \in {"out", "kill", "mark"}
        /\ proc[x] # NoProcess => child[proc[x]] # "unborn"
        /\ at[x] # "kill" /\ proc[x] # NoProcess => child[proc[x]] \in Ended

LEMMA ChildrenAge ==
    ASSUME Fields, [Next]_vars, NEW k \in Child
    PROVE  /\ child[k] \in Ended => child'[k] \in Ended
           /\ child[k] # "unborn" => child'[k] # "unborn"
  <1> DEFINE Ages == /\ child[k] \in Ended => child'[k] \in Ended
                     /\ child[k] # "unborn" => child'[k] # "unborn"
  <1> USE DEF Fields, Ended
  <1>1. \A j : KillProcess(j) => Ages
    BY DEF KillProcess
  <1>2. ASSUME NEW c \in Caller, Execute(c) PROVE Ages
    BY <1>1, <1>2 DEF Execute, Begin, Spawn, SpawnNotFound, SpawnRaises, Publish, TimesOut,
       InTime, SeesFlag, SeesNoFlag, WaitsAgain, SeesExit, Collect, Finish
  <1> QED
    BY <1>1, <1>2 DEF Next, ChildExits, Enter, Cancel, Kill, Mark, vars

LEMMA KillStep ==
    ASSUME Fields, KillInv, Caller \cap Canceller = {}, [Next]_vars
    PROVE  KillInv'
  <1> USE DEF KillInv, Fields, Thread
  <1>1. ASSUME NEW x \in Canceller, at'[x] = at[x], proc'[x] = proc[x]
        PROVE  /\ at'[x] \in {"out", "kill", "mark"}
               /\ proc'[x] # NoProcess => child'[proc'[x]] # "unborn"
               /\ at'[x] # "kill" /\ proc'[x] # NoProcess => child'[proc'[x]] \in Ended
    BY <1>1, ChildrenAge
  <1>2. ASSUME NEW c \in Caller, Enter(c) \/ Execute(c)
        PROVE  \A x \in Canceller : at'[x] = at[x] /\ proc'[x] = proc[x]
    BY <1>2 DEF Enter, Execute, Begin, Spawn, SpawnNotFound, SpawnRaises, Publish, TimesOut,
       InTime, SeesFlag, SeesNoFlag, WaitsAgain, SeesExit, Collect, Finish, GoTo
  <1>3. ASSUME NEW y \in Canceller, Cancel(y) \/ Kill(y) \/ Mark(y)
        PROVE  \A x \in Canceller \ {y} : at'[x] = at[x] /\ proc'[x] = proc[x]
    BY <1>3 DEF Cancel, Kill, Mark, GoTo
  <1>4. ASSUME NEW y \in Canceller, Cancel(y) PROVE KillInv'
    <2>1. at'[y] = "kill" /\ proc'[y] = process /\ child' = child /\ child[process] = "running"
      BY <1>4 DEF Cancel, Cancellable, GoTo
    <2> QED
      BY <1>1, <1>3, <1>4, <2>1
  <1>5. ASSUME NEW y \in Canceller, Kill(y) PROVE KillInv'
    <2>1. at'[y] = "mark" /\ proc' = proc /\ KillProcess(proc[y]) /\ at[y] = "kill"
      BY <1>5 DEF Kill, GoTo
    <2>2. proc[y] # NoProcess => child'[proc[y]] \in Ended /\ child'[proc[y]] # "unborn"
      BY <2>1 DEF KillProcess, Ended
    <2> QED
      BY <1>1, <1>3, <1>5, <2>1, <2>2
  <1>6. ASSUME NEW y \in Canceller, Mark(y) PROVE KillInv'
    <2>1. at[y] = "mark" /\ at'[y] = "out" /\ proc' = proc /\ child' = child
      BY <1>6 DEF Mark, GoTo
    <2> QED
      BY <1>1, <1>3, <1>6, <2>1
  <1>7. ASSUME NEW k \in Child, ChildExits(k) PROVE KillInv'
    BY <1>1, <1>7 DEF ChildExits
  <1>8. CASE UNCHANGED vars
    BY <1>1, <1>8 DEF vars
  <1> QED
    BY <1>1, <1>2, <1>4, <1>5, <1>6, <1>7, <1>8 DEF Next

(* The child that unregister or clear found running has ended when the id goes,
   for any number of threads. *)
THEOREM StopsBeforeRemoving == RegistrySpec => StoppedBeforeRemoved
  <1>1. RegistryInit => Fields /\ KillInv
    BY DEF RegistryInit, Init, Fields, KillInv, Thread, Place
  <1>2. Fields /\ KillInv /\ [RegistryNext]_allVars => (Fields /\ KillInv)'
    BY AdapterSteps, FieldsInductive, KillStep, ShellAssumption
  <1>3. LockInv /\ Fields /\ KillInv /\ [RegistryNext]_allVars
          => [\A x \in Registrar :
                  step[x] = "look" /\ step'[x] = "out" /\ proc[x] # NoProcess
                      => child[proc[x]] # "running"]_allVars
    <2> SUFFICES ASSUME LockInv, Fields, KillInv, [RegistryNext]_allVars, NEW x \in Registrar,
                        step[x] = "look", step'[x] = "out", proc[x] # NoProcess
                 PROVE  child[proc[x]] # "running"
      OBVIOUS
    <2>1. Remove(x)
      BY RegistrySteps DEF LockInv, regVars, Register, Unregister, Begins, Look, Clear,
                           CallsCancel, Remove
    <2>2. at[x] = "out" /\ x \in Canceller
      BY <2>1, RegistryAssumption DEF Remove
    <2> QED
      BY <2>2 DEF KillInv, Ended
  <1>4. RegistryInit => LockInv /\ KeysInv
    BY DEF RegistryInit, LockInv, KeysInv
  <1> QED
    BY <1>1, <1>2, <1>3, <1>4, LockStep, KeysStep, PTL DEF RegistrySpec, StoppedBeforeRemoved


-----------------------------------------------------------------------------
(* The rest of the types: the retries and the rounds of an attempt stay within
   their bounds, and whoever holds a process holds one that was started. *)
Counters ==
    /\ retries \in [Caller -> 0..MaxRetries]
    /\ polls \in [Caller -> 0..TimeoutPolls]
    /\ calls \in [Caller -> 0..MaxCalls]
    /\ \A c \in Caller : at[c] \in {"flag", "wait"} => polls[c] < TimeoutPolls

Started ==
    /\ process # NoProcess => child[process] # "unborn"
    /\ \A t \in Thread : proc[t] # NoProcess => child[proc[t]] # "unborn"

Flags ==
    /\ status \in {"IDLE", "BUSY", "ERROR"}
    /\ cancelFlag \in BOOLEAN /\ raised \in BOOLEAN
    /\ cancelled \subseteq Caller

LEMMA FlagsStep == Flags /\ [Next]_vars => Flags'
  BY DEF Flags, Next, vars, shared, ChildExits, Enter, Execute, Begin, Spawn, SpawnNotFound,
         SpawnRaises, Publish, TimesOut, InTime, SeesFlag, SeesNoFlag, WaitsAgain, SeesExit,
         Collect, Finish, Cancel, Kill, Mark

LEMMA CountersStep ==
    ASSUME Fields, Counters, [Next]_vars
    PROVE  Counters'
  <1> USE ShellAssumption DEF Fields, Thread, Counters, GoTo, local
  <1>1. ASSUME UNCHANGED <<retries, polls, calls>>,
               \A c \in Caller : at'[c] \in {"flag", "wait"}
                                    => at[c] \in {"flag", "wait"} \/ polls[c] < TimeoutPolls
        PROVE  Counters'
    BY <1>1
  <1>2. ASSUME NEW c \in Caller, Enter(c) PROVE Counters'
    BY <1>2 DEF Enter
  <1>3. ASSUME NEW c \in Caller, Execute(c) PROVE Counters'
    <2>1. CASE Begin(c) \/ Spawn(c) \/ SpawnNotFound(c) \/ SpawnRaises(c) \/ TimesOut(c)
               \/ InTime(c) \/ SeesFlag(c) \/ SeesNoFlag(c) \/ SeesExit(c) \/ Finish(c)
      BY <1>1, <2>1 DEF Begin, Spawn, SpawnNotFound, SpawnRaises, TimesOut, InTime, SeesFlag,
                        SeesNoFlag, SeesExit, Finish
    <2>2. CASE Publish(c)
      BY <2>2 DEF Publish
    <2>3. CASE WaitsAgain(c)
      <3>1. polls[c] \in 0..TimeoutPolls /\ polls[c] < TimeoutPolls /\ TimeoutPolls \in Nat
        BY <2>3 DEF WaitsAgain
      <3>2. polls[c] + 1 \in 0..TimeoutPolls
        BY <3>1
      <3> QED
        BY <2>3, <3>2 DEF WaitsAgain
    <2>4. CASE Collect(c)
      BY <2>4 DEF Collect
    <2> QED
      BY <1>3, <2>1, <2>2, <2>3, <2>4 DEF Execute
  <1>4. ASSUME NEW x \in Canceller, Cancel(x) \/ Kill(x) \/ Mark(x) PROVE Counters'
    BY <1>1, <1>4 DEF Cancel, Kill, Mark
  <1>5. (\E k \in Child : ChildExits(k)) \/ UNCHANGED vars => Counters'
    BY <1>1 DEF ChildExits, vars
  <1> QED
    BY <1>2, <1>3, <1>4, <1>5 DEF Next

LEMMA StartedStep ==
    ASSUME Fields, Fields', Started, [Next]_vars
    PROVE  Started'
  <1> USE DEF Fields, Started, Thread, shared
  <1>1. ASSUME process' \in {process, NoProcess} \cup {proc[t] : t \in Thread},
               \A t \in Thread : proc'[t] \in {proc[t], process}
        PROVE  Started'
    BY <1>1, ChildrenAge
  <1>2. ASSUME NEW c \in Caller, Spawn(c) PROVE Started'
    <2>1. PICK k \in Child : /\ child' = [child EXCEPT ![k] = "running"]
                             /\ proc' = [proc EXCEPT ![c] = k]
      BY <1>2 DEF Spawn
    <2> QED
      BY <1>2, <2>1 DEF Spawn
  <1>3. ASSUME NEW c \in Caller, Publish(c) PROVE Started'
    BY <1>1, <1>3 DEF Publish
  <1>4. ASSUME NEW c \in Caller, Execute(c), ~Spawn(c), ~Publish(c) PROVE Started'
    BY <1>1, <1>4 DEF Execute, Begin, SpawnNotFound, SpawnRaises, TimesOut, InTime, SeesFlag,
       SeesNoFlag, WaitsAgain, SeesExit, Collect, Finish
  <1>5. ASSUME NEW x \in Canceller, Cancel(x) PROVE Started'
    BY <1>1, <1>5 DEF Cancel
  <1>6. ASSUME \/ \E k \in Child : ChildExits(k)
               \/ \E c \in Caller : Enter(c)
               \/ \E x \in Canceller : Kill(x) \/ Mark(x)
               \/ UNCHANGED vars
        PROVE  Started'
    BY <1>1, <1>6 DEF ChildExits, Enter, Kill, Mark, vars
  <1> QED
    BY <1>2, <1>3, <1>4, <1>5, <1>6 DEF Next

(* The keys of the registry are never more than it may hold. *)
Keys ==
    /\ lock \in Registrar \cup {Free}
    /\ adapters \subseteq BusId /\ Cardinality(adapters) <= MaxAdapters
    /\ visit \in [Registrar -> SUBSET BusId]

LEMMA RegistryTypeStep ==
    ASSUME Keys, LockInv, [RegistryNext]_allVars
    PROVE  Keys'
  <1> USE RegistryAssumption DEF Keys
  <1>1. IsFiniteSet(adapters) /\ Cardinality(adapters) \in Nat
    BY FS_Subset, FS_CardinalityType
  <1>2. CASE UNCHANGED regVars
    BY <1>2 DEF regVars
  <1>3. ASSUME NEW x \in Registrar, NEW b \in BusId, Register(x, b) PROVE Keys'
    <2>1. Cardinality(adapters \cup {b}) = Cardinality(adapters) + 1
      BY <1>1, <1>3, FS_AddElement DEF Register
    <2>2. Cardinality(adapters) + 1 <= MaxAdapters
      BY <1>1, <1>3 DEF Register
    <2> QED
      BY <1>3, <2>1, <2>2 DEF Register
  <1>4. ASSUME NEW x \in Registrar, NEW ids \in SUBSET BusId, Begins(x, ids) PROVE Keys'
    BY <1>4 DEF Begins
  <1>5. ASSUME NEW x \in Registrar, NEW b \in BusId, Look(x, b) PROVE Keys'
    BY <1>5 DEF Look
  <1>6. ASSUME NEW x \in Registrar, CallsCancel(x) PROVE Keys'
    BY <1>6 DEF CallsCancel
  <1>7. ASSUME NEW x \in Registrar, Remove(x) PROVE Keys'
    <2>1. /\ Cardinality(adapters \ doomed[x]) <= Cardinality(adapters)
          /\ Cardinality(adapters \ doomed[x]) \in Nat
      BY <1>1, FS_Subset, FS_CardinalityType
    <2> QED
      BY <1>1, <1>7, <2>1 DEF Remove
  <1> QED
    BY <1>2, <1>3, <1>4, <1>5, <1>6, <1>7, RegistrySteps DEF Unregister, Clear

(* The registry never holds more adapters than it may, though it cancels and
   deletes while others execute; the adapter in it never makes more attempts than
   the package allows, and no attempt waits longer than its timeout. *)
THEOREM RegistryKeepsTypes == RegistrySpec => []RegistryTypeOK
  <1>1. RegistryInit => Fields /\ Counters /\ Started /\ Flags
    <2>1. Init => Fields
      BY DEF Init, Fields, Thread, Place
    <2>2. Init => Counters
      <3>1. {0} \subseteq 0..MaxRetries /\ {0} \subseteq 0..TimeoutPolls /\ {0} \subseteq 0..MaxCalls
        BY ShellAssumption
      <3> QED
        BY <3>1 DEF Init, Counters, Thread
    <2>3. Init => Started /\ Flags
      BY DEF Init, Started, Flags
    <2> QED
      BY <2>1, <2>2, <2>3 DEF RegistryInit
  <1>2. RegistryInit => LockInv /\ KeysInv /\ Keys
    BY FS_EmptySet, RegistryAssumption DEF RegistryInit, LockInv, KeysInv, Keys
  <1>3. Fields /\ Fields' /\ Counters /\ Started /\ Flags /\ [RegistryNext]_allVars
            => Counters' /\ Started' /\ Flags'
    BY AdapterSteps, CountersStep, StartedStep, FlagsStep
  <1>4. Fields /\ [RegistryNext]_allVars => Fields'
    BY AdapterSteps, FieldsInductive
  <1>5. Fields /\ Counters /\ Started /\ Flags /\ LockInv /\ Keys => RegistryTypeOK
    BY DEF Fields, Counters, Started, Flags, LockInv, Keys, RegistryTypeOK, TypeOK, Ended
  <1> QED
    BY <1>1, <1>2, <1>3, <1>4, <1>5, LockStep, KeysStep, RegistryTypeStep, PTL DEF RegistrySpec
=============================================================================
