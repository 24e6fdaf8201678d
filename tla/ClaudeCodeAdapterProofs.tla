---------------------- MODULE ClaudeCodeAdapterProofs ----------------------
(***************************************************************************)
(* Theorems about one Claude adapter, for any number of callers,           *)
(* cancellers, retries and calls.  The count of executions is inductive    *)
(* together with what the status says of it; what an attempt reads and     *)
(* which attempt a cancel reaches follow from that count while no cancel   *)
(* has said ERROR.  That no process and no directory is left behind needs  *)
(* no more than who holds them.                                            *)
(***************************************************************************)
EXTENDS ClaudeCodeAdapter, FiniteSetTheorems, TLAPS

Place == {"out", "begin", "prepare", "parse", "finish", "kill", "mark"} \cup WithDirectory

(* What the proofs need of TypeOK. *)
Fields ==
    /\ at \in [Thread -> Place]
    /\ sink \in [Caller -> Nat]
    /\ lists \in Nat /\ marks \in Nat

LEMMA FieldsInductive ==
    ASSUME Fields, [Next]_vars
    PROVE  Fields'
  <1> USE DEF Fields, Thread, Place, WithDirectory, GoTo, object, local, history
  <1>1. ASSUME NEW k \in Child, ChildExits(k) PROVE Fields'
    BY <1>1 DEF ChildExits
  <1>2. ASSUME NEW c \in Caller, Enter(c) PROVE Fields'
    BY <1>2 DEF Enter
  <1>3. ASSUME NEW c \in Caller, Execute(c) PROVE Fields'
    <2>1. CASE Begin(c) \/ Prepare(c) \/ PrepareRaises(c) \/ Spawn(c) \/ SpawnNotFound(c)
               \/ SpawnRaises(c)
      BY <2>1 DEF Begin, Prepare, PrepareRaises, Spawn, SpawnNotFound, SpawnRaises
    <2>2. CASE WriteFails(c) \/ Parse(c)
      BY <2>2 DEF WriteFails, Parse, RetryOrFinish
    <2>3. CASE Publish(c)
      BY <2>3 DEF Publish
    <2>4. CASE TimesOut(c) \/ InTime(c) \/ SeesFlag(c) \/ SeesNoFlag(c) \/ WaitsAgain(c)
               \/ SeesExit(c) \/ CleanUp(c) \/ Finish(c)
      BY <2>4 DEF TimesOut, InTime, SeesFlag, SeesNoFlag, WaitsAgain, SeesExit, CleanUp,
                  Finish
    <2> QED
      BY <1>3, <2>1, <2>2, <2>3, <2>4 DEF Execute
  <1>4. ASSUME NEW x \in Canceller, Cancel(x) \/ Kill(x) \/ Mark(x) PROVE Fields'
    BY <1>4 DEF Cancel, Kill, Mark
  <1>5. CASE UNCHANGED vars
    BY <1>5 DEF vars
  <1> QED
    BY <1>1, <1>2, <1>3, <1>4, <1>5 DEF Next

-----------------------------------------------------------------------------
(* How often cancel has said ERROR bounds the executions, by one more while the
   status is BUSY. *)
Door ==
    /\ status # "BUSY" => Cardinality(Executing) <= marks
    /\ Cardinality(Executing) <= marks + 1

LEMMA CallersCounted ==
    ASSUME NEW S \in SUBSET Caller, NEW c \in Caller
    PROVE  /\ Cardinality(S) \in Nat
           /\ Cardinality(S \cup {c}) <= Cardinality(S) + 1
           /\ c \in S => Cardinality(S \ {c}) = Cardinality(S) - 1
  <1>1. IsFiniteSet(S)
    BY FS_Subset, ClaudeAssumption
  <1> QED
    BY <1>1, FS_CardinalityType, FS_AddElement, FS_RemoveElement

(* A step inside execute keeps the status and stays inside, but for the last
   one and the two exceptions. *)
LEMMA InsideOrOut ==
    ASSUME Fields, NEW c \in Caller, Execute(c)
    PROVE  /\ Executing' = Executing \/ (c \in Executing /\ Executing' = Executing \ {c})
           /\ marks' = marks
           /\ status' = status \/ Finish(c)
           /\ Finish(c) => c \in Executing /\ Executing' = Executing \ {c}
  <1> USE DEF Fields, Thread, Place, WithDirectory, GoTo, object, local, history, Executing,
              Inside
  <1>1. CASE Begin(c) \/ Prepare(c) \/ Spawn(c) \/ SpawnNotFound(c) \/ WriteFails(c)
             \/ Publish(c) \/ TimesOut(c) \/ InTime(c) \/ SeesFlag(c) \/ SeesNoFlag(c)
             \/ WaitsAgain(c) \/ SeesExit(c) \/ CleanUp(c) \/ Parse(c)
    <2>1. /\ at[c] # "out" /\ at[c] # "finish"
          /\ \E next \in Place \ {"out"} : at' = [at EXCEPT ![c] = next]
          /\ marks' = marks /\ status' = status
      BY <1>1 DEF Begin, Prepare, Spawn, SpawnNotFound, WriteFails, Publish, TimesOut,
                  InTime, SeesFlag, SeesNoFlag, WaitsAgain, SeesExit, CleanUp, Parse,
                  RetryOrFinish
    <2> QED
      BY <2>1 DEF Finish
  <1>2. CASE PrepareRaises(c) \/ SpawnRaises(c)
    BY <1>2 DEF PrepareRaises, SpawnRaises, Finish
  <1>3. CASE Finish(c)
    BY <1>3 DEF Finish
  <1> QED
    BY <1>1, <1>2, <1>3 DEF Execute

LEMMA DoorInductive ==
    ASSUME Fields, Door, [Next]_vars
    PROVE  Door'
  <1> USE DEF Fields, Door
  <1>0. Executing \in SUBSET Caller
    BY DEF Executing
  <1>1. ASSUME NEW k \in Child, ChildExits(k) PROVE Door'
    <2>1. Executing' = Executing /\ status' = status /\ marks' = marks
      BY <1>1 DEF ChildExits, Executing, Inside, object, history
    <2> QED
      BY <2>1
  <1>2. ASSUME NEW c \in Caller, Enter(c) PROVE Door'
    <2>1. status # "BUSY" /\ status' = "BUSY" /\ marks' = marks
          /\ at' = [at EXCEPT ![c] = "begin"]
      BY <1>2 DEF Enter, GoTo, history
    <2>2. Executing' = Executing \cup {c}
      BY <2>1 DEF Executing, Inside, Thread
    <2>3. Cardinality(Executing') <= Cardinality(Executing) + 1
          /\ Cardinality(Executing) \in Nat
      BY <1>0, <2>2, CallersCounted
    <2>4. Cardinality(Executing') \in Nat
      BY CallersCounted, <1>0, <2>2
    <2> QED
      BY <2>1, <2>3, <2>4
  <1>3. ASSUME NEW c \in Caller, Execute(c) PROVE Door'
    <2>1. /\ Cardinality(Executing) \in Nat
          /\ c \in Executing => Cardinality(Executing \ {c}) = Cardinality(Executing) - 1
      BY <1>0, CallersCounted
    <2>2. CASE Finish(c)
      <3>1. c \in Executing /\ Executing' = Executing \ {c} /\ marks' = marks
        BY <2>2, <1>3, InsideOrOut
      <3>2. Cardinality(Executing') = Cardinality(Executing) - 1
        BY <3>1, <2>1
      <3> QED
        BY <3>1, <3>2, <2>1
    <2>3. CASE status' = status
      <3>1. Cardinality(Executing') = Cardinality(Executing)
            \/ Cardinality(Executing') = Cardinality(Executing) - 1
        BY <2>1, <1>3, InsideOrOut
      <3> QED
        BY <3>1, <2>1, <2>3, <1>3, InsideOrOut
    <2> QED
      BY <1>3, <2>2, <2>3, InsideOrOut
  <1>4. ASSUME NEW x \in Canceller, Cancel(x) \/ Kill(x) \/ Mark(x) PROVE Door'
    <2>1. Executing' = Executing
      BY <1>4, ClaudeAssumption DEF Cancel, Kill, Mark, GoTo, Executing, Inside, Thread
    <2>2. Cardinality(Executing) \in Nat
      BY <1>0, ClaudeAssumption, FS_Subset, FS_CardinalityType
    <2>3. \/ status' = status /\ marks' = marks
          \/ status' = "ERROR" /\ marks' = marks + 1
      BY <1>4 DEF Cancel, Kill, Mark, object, history
    <2> QED
      BY <2>1, <2>2, <2>3
  <1>5. CASE UNCHANGED vars
    <2>1. Executing' = Executing /\ status' = status /\ marks' = marks
      BY <1>5 DEF vars, object, history, Executing, Inside
    <2> QED
      BY <2>1
  <1> QED
    BY <1>1, <1>2, <1>3, <1>4, <1>5 DEF Next

LEMMA InitDoor == Init => Fields /\ Door
  <1> SUFFICES ASSUME Init PROVE Fields /\ Door
    OBVIOUS
  <1>1. Executing = {}
    BY DEF Init, Executing, Inside, Thread
  <1> QED
    BY <1>1, FS_EmptySet DEF Init, Fields, Door, Thread, Place

(* Every cancel lets at most one more execution in, however many threads call
   execute and whatever they meet. *)
THEOREM OverlapIsBounded == Spec => []OverlapBounded
  <1>1. Fields /\ Door /\ [Next]_vars => (Fields /\ Door)'
    BY FieldsInductive, DoorInductive
  <1>2. Door => OverlapBounded
    BY DEF Door, OverlapBounded
  <1> QED
    BY InitDoor, <1>1, <1>2, PTL DEF Spec

-----------------------------------------------------------------------------
(* No cancel, no company. *)
LEMMA AloneUntilCancelled ==
    ASSUME Fields, Door, marks = 0
    PROVE  /\ \A c, d \in Executing : c = d
           /\ status # "BUSY" => Executing = {}
  <1>1. Executing \in SUBSET Caller
    BY DEF Executing
  <1>2. /\ IsFiniteSet(Executing)
        /\ Cardinality(Executing) \in Nat
        /\ Cardinality(Executing) <= 1
        /\ status # "BUSY" => Cardinality(Executing) = 0
    BY <1>1, ClaudeAssumption, FS_Subset, FS_CardinalityType DEF Door
  <1>3. ASSUME NEW c \in Executing, NEW d \in Executing, c # d PROVE FALSE
    <2>1. {c, d} \in SUBSET Executing
      OBVIOUS
    <2>2. Cardinality({c, d}) <= Cardinality(Executing)
      BY <2>1, <1>2, FS_Subset
    <2>3. /\ IsFiniteSet({c}) /\ Cardinality({c}) = 1
          /\ {c, d} = {c} \cup {d}
      BY FS_Singleton
    <2>4. Cardinality({c, d}) = 2
      BY <2>3, <1>3, FS_AddElement
    <2> QED
      BY <2>2, <2>4, <1>2
  <1> QED
    BY <1>2, <1>3, FS_EmptySet

LEMMA MarksStay ==
    ASSUME Fields, [Next]_vars, marks' = 0
    PROVE  marks = 0
  <1>1. marks' = marks \/ marks' = marks + 1
    BY DEF history, Next, vars, ChildExits, Enter, Execute, Begin, Prepare, WriteFails,
           PrepareRaises, Spawn, SpawnNotFound, SpawnRaises, Publish, TimesOut, InTime,
           SeesFlag, SeesNoFlag, WaitsAgain, SeesExit, CleanUp, Parse, Finish, Cancel, Kill,
           Mark
  <1> QED
    BY <1>1 DEF Fields

LEMMA OwnOutputInductive ==
    ASSUME Fields, Door, OwnOutput, [Next]_vars, marks' = 0
    PROVE  \A d \in Caller : at'[d] \in Captured => sink'[d] = lists'
  <1> SUFFICES ASSUME NEW d \in Caller, at'[d] \in Captured PROVE sink'[d] = lists'
    OBVIOUS
  <1> USE DEF Fields, Thread, Place, WithDirectory, Captured, GoTo, object, local, history
  <1>1. marks = 0
    BY MarksStay
  <1>2. at[d] \in Captured => sink[d] = lists
    BY <1>1 DEF OwnOutput
  <1>3. ASSUME NEW k \in Child, ChildExits(k) PROVE sink'[d] = lists'
    BY <1>2, <1>3 DEF ChildExits
  <1>4. ASSUME NEW c \in Caller, Enter(c) PROVE sink'[d] = lists'
    <2>1. Executing = {}
      BY <1>1, <1>4, AloneUntilCancelled DEF Enter
    <2> QED
      BY <2>1, <1>4 DEF Enter, Executing, Inside
  <1>5. ASSUME NEW c \in Caller, Execute(c) PROVE sink'[d] = lists'
    <2>1. CASE Begin(c)
      <3>1. d \in Executing /\ c \in Executing
        BY <2>1 DEF Begin, Executing, Inside
      <3>2. d = c
        BY <3>1, <1>1, AloneUntilCancelled
      <3> QED
        BY <3>2, <2>1 DEF Begin
    <2>2. CASE Publish(c)
      BY <1>2, <2>2 DEF Publish
    <2>3. CASE Prepare(c) \/ WriteFails(c) \/ PrepareRaises(c) \/ Spawn(c)
               \/ SpawnNotFound(c) \/ SpawnRaises(c)
      BY <1>2, <2>3 DEF Prepare, WriteFails, PrepareRaises, Spawn, SpawnNotFound,
                        SpawnRaises, RetryOrFinish
    <2>4. CASE TimesOut(c) \/ InTime(c) \/ SeesFlag(c) \/ SeesNoFlag(c) \/ WaitsAgain(c)
               \/ SeesExit(c) \/ CleanUp(c) \/ Finish(c)
      BY <1>2, <2>4 DEF TimesOut, InTime, SeesFlag, SeesNoFlag, WaitsAgain, SeesExit,
                        CleanUp, Finish
    <2>5. CASE Parse(c)
      BY <1>2, <2>5 DEF Parse, RetryOrFinish
    <2> QED
      BY <1>5, <2>1, <2>2, <2>3, <2>4, <2>5 DEF Execute
  <1>6. ASSUME NEW x \in Canceller, Cancel(x) \/ Kill(x) \/ Mark(x)
        PROVE  sink'[d] = lists'
    BY <1>2, <1>6, ClaudeAssumption DEF Cancel, Kill, Mark
  <1>7. CASE UNCHANGED vars
    BY <1>2, <1>7 DEF vars
  <1> QED
    BY <1>3, <1>4, <1>5, <1>6, <1>7 DEF Next

(* Until a cancel says ERROR, the status alone keeps every attempt reading the
   output of its own process, for any number of callers. *)
THEOREM OutputIsOwn == Spec => []OwnOutput
  <1>1. Init => OwnOutput
    BY DEF Init, OwnOutput, Captured, Thread
  <1>2. Fields /\ Door /\ OwnOutput /\ [Next]_vars => OwnOutput'
    BY OwnOutputInductive DEF OwnOutput, Captured
  <1>3. Fields /\ Door /\ [Next]_vars => (Fields /\ Door)'
    BY FieldsInductive, DoorInductive
  <1> QED
    BY InitDoor, <1>1, <1>2, <1>3, PTL DEF Spec

-----------------------------------------------------------------------------
(* Children.  Who holds one, or has published one, holds one that was started. *)
Started(k) == k = NoProcess \/ (k \in Child /\ child[k] # "unborn")

Held ==
    /\ child \in [Child -> {"unborn", "running"} \cup Ended]
    /\ proc \in [Thread -> Child \cup {NoProcess}]
    /\ \A t \in Thread : Started(proc[t])
    /\ Started(process)
    /\ cancelFlag \in BOOLEAN

LEMMA NoChild == NoProcess \notin Child
  BY DEF NoProcess, Child

(* Killing a child leaves it not running, touches no other, and revives none. *)
LEMMA KillEnds ==
    ASSUME Held, NEW j, KillProcess(j)
    PROVE  /\ child' \in [Child -> {"unborn", "running"} \cup Ended]
           /\ \A k \in Child : child'[k] = "running" => child[k] = "running" /\ k # j
           /\ \A k \in Child : child[k] # "unborn" => child'[k] # "unborn"
  BY DEF Held, KillProcess, Ended

(* A step that brings no child back to where it was not started. *)
LEMMA StartedStays ==
    ASSUME Held, NEW k, Started(k),
           \A j \in Child : child[j] # "unborn" => child'[j] # "unborn"
    PROVE  Started(k)'
  BY DEF Started

LEMMA HeldInductive ==
    ASSUME Held, [Next]_vars
    PROVE  Held'
  <1> USE DEF GoTo, object, local, history
  <1>1. ASSUME NEW k \in Child, ChildExits(k) PROVE Held'
    BY <1>1 DEF ChildExits, Held, Started, Ended
  <1>2. ASSUME NEW c \in Caller, Enter(c) PROVE Held'
    BY <1>2 DEF Enter, Held, Started
  <1>3. ASSUME NEW c \in Caller, Execute(c) PROVE Held'
    <2>1. CASE Begin(c) \/ Prepare(c) \/ WriteFails(c) \/ PrepareRaises(c) \/ SpawnNotFound(c)
               \/ SpawnRaises(c)
      BY <2>1 DEF Begin, Prepare, WriteFails, PrepareRaises, SpawnNotFound, SpawnRaises,
                  Held, Started
    <2>2. CASE Spawn(c)
      <3>1. PICK k \in Child : /\ child' = [child EXCEPT ![k] = "running"]
                               /\ proc' = [proc EXCEPT ![c] = k]
        BY <2>2 DEF Spawn
      <3>2. c \in Thread /\ process' = process /\ cancelFlag' = cancelFlag
        BY <2>2 DEF Spawn, Thread
      <3> QED
        BY <3>1, <3>2 DEF Held, Started
    <2>3. CASE Publish(c)
      BY <2>3 DEF Publish, Held, Started, Thread
    <2>4. CASE TimesOut(c) \/ SeesFlag(c)
      <3>1. KillProcess(proc[c]) /\ UNCHANGED <<proc, process, cancelFlag>>
        BY <2>4 DEF TimesOut, SeesFlag
      <3> QED
        BY <3>1, KillEnds DEF Held, Started
    <2>5. CASE InTime(c) \/ SeesNoFlag(c) \/ WaitsAgain(c) \/ SeesExit(c) \/ CleanUp(c)
               \/ Parse(c) \/ Finish(c)
      BY <2>5 DEF InTime, SeesNoFlag, WaitsAgain, SeesExit, CleanUp, Parse, Finish, Held,
                  Started
    <2> QED
      BY <1>3, <2>1, <2>2, <2>3, <2>4, <2>5 DEF Execute
  <1>4. ASSUME NEW x \in Canceller, Cancel(x) PROVE Held'
    BY <1>4 DEF Cancel, Held, Started, Thread
  <1>5. ASSUME NEW x \in Canceller, Kill(x) PROVE Held'
    <2>1. KillProcess(proc[x]) /\ UNCHANGED <<proc, process, cancelFlag>>
      BY <1>5 DEF Kill
    <2> QED
      BY <2>1, KillEnds DEF Held, Started
  <1>6. ASSUME NEW x \in Canceller, Mark(x) PROVE Held'
    BY <1>6 DEF Mark, Held, Started
  <1>7. CASE UNCHANGED vars
    BY <1>7 DEF vars, Held, Started
  <1> QED
    BY <1>1, <1>2, <1>3, <1>4, <1>5, <1>6, <1>7 DEF Next

-----------------------------------------------------------------------------
(* Nothing outlives an attempt: the children. *)
Watched == \A k \in Child : child[k] = "running" => \E c \in Caller : Watches(c, k)

(* A step that starts no child and takes nobody off a running one. *)
LEMMA KeepsWatch ==
    ASSUME Watched,
           \A k \in Child : child'[k] = "running" => child[k] = "running",
           \A c \in Caller, k \in Child :
               child'[k] = "running" /\ Watches(c, k) => Watches(c, k)'
    PROVE  Watched'
  BY DEF Watched, Watches

LEMMA WatchedInductive ==
    ASSUME Fields, Held, Watched, [Next]_vars
    PROVE  Watched'
  <1> USE ClaudeAssumption DEF Fields, Held, Thread, GoTo, object, local, history
  <1>1. ASSUME NEW k \in Child, ChildExits(k) PROVE Watched'
    BY <1>1, KeepsWatch DEF ChildExits, Ended, Watches
  <1>2. ASSUME NEW c \in Caller, Enter(c) PROVE Watched'
    BY <1>2, KeepsWatch DEF Enter, Watches
  <1>3. ASSUME NEW c \in Caller, Execute(c) PROVE Watched'
    <2>1. CASE Begin(c) \/ Prepare(c) \/ PrepareRaises(c) \/ SpawnNotFound(c)
               \/ SpawnRaises(c) \/ Publish(c) \/ InTime(c) \/ SeesNoFlag(c) \/ WaitsAgain(c)
      BY <2>1, KeepsWatch DEF Begin, Prepare, PrepareRaises, SpawnNotFound, SpawnRaises,
                              Publish, InTime, SeesNoFlag, WaitsAgain, Watches
    <2>2. CASE WriteFails(c) \/ CleanUp(c) \/ Parse(c) \/ Finish(c)
      <3>1. /\ at[c] \in {"prepare", "exited", "stopped", "parse", "finish"}
            /\ \E next : at' = [at EXCEPT ![c] = next]
            /\ UNCHANGED <<child, proc>>
        BY <2>2 DEF WriteFails, CleanUp, Parse, Finish, RetryOrFinish
      <3> QED
        BY <3>1, KeepsWatch DEF Watches
    <2>3. CASE Spawn(c)
      <3>1. PICK k \in Child : /\ child' = [child EXCEPT ![k] = "running"]
                               /\ proc' = [proc EXCEPT ![c] = k]
        BY <2>3 DEF Spawn
      <3>2. at[c] = "spawn" /\ at' = [at EXCEPT ![c] = "publish"]
        BY <2>3 DEF Spawn
      <3>3. Watches(c, k)'
        BY <3>1, <3>2 DEF Watches
      <3>4. ASSUME NEW j \in Child, j # k, child'[j] = "running"
            PROVE  \E d \in Caller : Watches(d, j)'
        <4>1. PICK d \in Caller : Watches(d, j)
          BY <3>1, <3>4 DEF Watched
        <4> QED
          BY <4>1, <3>1, <3>2 DEF Watches
      <3> QED
        BY <3>3, <3>4 DEF Watched
    <2>4. CASE TimesOut(c) \/ SeesFlag(c)
      <3>1. at' = [at EXCEPT ![c] = "stopped"] /\ proc' = proc /\ KillProcess(proc[c])
        BY <2>4 DEF TimesOut, SeesFlag
      <3> QED
        BY <3>1, KillEnds, KeepsWatch DEF Watches
    <2>5. CASE SeesExit(c)
      BY <2>5, KeepsWatch DEF SeesExit, Watches
    <2> QED
      BY <1>3, <2>1, <2>2, <2>3, <2>4, <2>5 DEF Execute
  <1>4. ASSUME NEW x \in Canceller, Cancel(x) \/ Mark(x) PROVE Watched'
    BY <1>4, KeepsWatch DEF Cancel, Mark, Watches
  <1>5. ASSUME NEW x \in Canceller, Kill(x) PROVE Watched'
    BY <1>5, KillEnds, KeepsWatch DEF Kill, Watches
  <1>6. CASE UNCHANGED vars
    BY <1>6, KeepsWatch DEF vars, Watches
  <1> QED
    BY <1>1, <1>2, <1>3, <1>4, <1>5, <1>6 DEF Next

-----------------------------------------------------------------------------
(* The directories. *)
Holders == {c \in Caller : at[c] \in WithDirectory}

Swept ==
    /\ dirs \in Int /\ raises \in Nat
    /\ dirs <= Cardinality(Holders) + raises

(* What a step does to the directories, the attempts that have one, and the
   exceptions. *)
LEMMA DirectorySteps ==
    ASSUME Fields, Swept, [Next]_vars
    PROVE  \/ Holders' = Holders /\ dirs' = dirs /\ raises' \in {raises, raises + 1}
           \/ Holders' = Holders /\ dirs' = dirs + 1 /\ raises' = raises + 1
           \/ \E c \in Caller \ Holders : /\ Holders' = Holders \cup {c}
                                         /\ dirs' = dirs + 1 /\ raises' = raises
           \/ \E c \in Holders : /\ Holders' = Holders \ {c}
                                /\ \/ dirs' = dirs - 1 /\ raises' = raises
                                   \/ dirs' = dirs /\ raises' = raises + 1
  <1> USE ClaudeAssumption DEF Fields, Thread, Holders, WithDirectory, GoTo, object, local,
                               history
  <1>1. ASSUME NEW c \in Caller, Execute(c)
        PROVE  \/ Holders' = Holders /\ dirs' = dirs /\ raises' \in {raises, raises + 1}
               \/ Holders' = Holders /\ dirs' = dirs + 1 /\ raises' = raises + 1
               \/ /\ c \notin Holders /\ Holders' = Holders \cup {c}
                  /\ dirs' = dirs + 1 /\ raises' = raises
               \/ /\ c \in Holders /\ Holders' = Holders \ {c}
                  /\ \/ dirs' = dirs - 1 /\ raises' = raises
                     \/ dirs' = dirs /\ raises' = raises + 1
    <2>1. CASE Begin(c) \/ Parse(c) \/ Finish(c)
      BY <2>1 DEF Begin, Parse, Finish, RetryOrFinish
    <2>6. CASE WriteFails(c)
      <3>1. Holders' = Holders
        BY <2>6 DEF WriteFails, RetryOrFinish
      <3> QED
        BY <2>6, <3>1 DEF WriteFails, CleanupTmpdir, Swept
    <2>7. CASE PrepareRaises(c)
      BY <2>7 DEF PrepareRaises
    <2>2. CASE Prepare(c)
      BY <2>2 DEF Prepare
    <2>3. CASE Spawn(c) \/ Publish(c) \/ TimesOut(c) \/ InTime(c) \/ SeesFlag(c)
               \/ SeesNoFlag(c) \/ WaitsAgain(c) \/ SeesExit(c)
      BY <2>3 DEF Spawn, Publish, TimesOut, InTime, SeesFlag, SeesNoFlag, WaitsAgain,
                  SeesExit
    <2>4. CASE SpawnNotFound(c) \/ CleanUp(c)
      BY <2>4 DEF SpawnNotFound, CleanUp, CleanupTmpdir
    <2>5. CASE SpawnRaises(c)
      BY <2>5 DEF SpawnRaises
    <2> QED
      BY <1>1, <2>1, <2>2, <2>3, <2>4, <2>5, <2>6, <2>7 DEF Execute
  <1>2. ASSUME NEW k \in Child, ChildExits(k)
        PROVE  Holders' = Holders /\ dirs' = dirs /\ raises' = raises
    BY <1>2 DEF ChildExits
  <1>3. ASSUME NEW c \in Caller, Enter(c)
        PROVE  Holders' = Holders /\ dirs' = dirs /\ raises' = raises
    BY <1>3 DEF Enter
  <1>4. ASSUME NEW x \in Canceller, Cancel(x) \/ Kill(x) \/ Mark(x)
        PROVE  Holders' = Holders /\ dirs' = dirs /\ raises' = raises
    BY <1>4 DEF Cancel, Kill, Mark
  <1>5. CASE UNCHANGED vars
    BY <1>5 DEF vars
  <1> QED
    BY <1>1, <1>2, <1>3, <1>4, <1>5 DEF Next

LEMMA SweptInductive ==
    ASSUME Fields, Swept, [Next]_vars
    PROVE  Swept'
  <1> USE DEF Swept
  <1>1. Holders \in SUBSET Caller
    BY DEF Holders
  <1>2. /\ IsFiniteSet(Holders) /\ Cardinality(Holders) \in Nat
        /\ \A c \in Caller \ Holders : Cardinality(Holders \cup {c}) = Cardinality(Holders) + 1
        /\ \A c \in Holders : Cardinality(Holders \ {c}) = Cardinality(Holders) - 1
    BY <1>1, ClaudeAssumption, FS_Subset, FS_CardinalityType, FS_AddElement, FS_RemoveElement
  <1>3. CASE /\ Holders' = Holders
             /\ \/ dirs' = dirs /\ raises' \in {raises, raises + 1}
                \/ dirs' = dirs + 1 /\ raises' = raises + 1
    <2>1. Cardinality(Holders)' = Cardinality(Holders)
      BY <1>3
    <2> QED
      BY <1>2, <1>3, <2>1
  <1>4. ASSUME NEW c \in Caller \ Holders, Holders' = Holders \cup {c},
               dirs' = dirs + 1, raises' = raises
        PROVE  Swept'
    BY <1>2, <1>4
  <1>5. ASSUME NEW c \in Holders, Holders' = Holders \ {c},
               \/ dirs' = dirs - 1 /\ raises' = raises
               \/ dirs' = dirs /\ raises' = raises + 1
        PROVE  Swept'
    <2>1. Cardinality(Holders)' = Cardinality(Holders) - 1
      BY <1>2, <1>5
    <2> QED
      BY <1>2, <1>5, <2>1
  <1> QED
    BY <1>3, <1>4, <1>5, DirectorySteps

LEMMA InitSwept == Init => Held /\ Watched /\ Swept
  <1> SUFFICES ASSUME Init PROVE Held /\ Watched /\ Swept
    OBVIOUS
  <1>1. Holders = {}
    BY DEF Init, Holders, WithDirectory, Thread
  <1>2. Held /\ Watched
    BY DEF Init, Held, Started, Watched, Ended
  <1> QED
    BY <1>1, <1>2, FS_EmptySet DEF Init, Swept

(* No claude process and no temporary directory is left behind, but for a
   directory per exception, those of the removal included, however many threads
   execute and cancel. *)
THEOREM NothingIsLeft == Spec => []NothingLeftBehind
  <1> DEFINE Inv == Fields /\ Held /\ Watched /\ Swept
  <1>1. Init => Inv
    BY InitDoor, InitSwept
  <1>2. Inv /\ [Next]_vars => Inv'
    BY FieldsInductive, HeldInductive, WatchedInductive, SweptInductive
  <1>3. Inv => NothingLeftBehind
    BY DEF Watched, Swept, Holders, NothingLeftBehind
  <1> QED
    BY <1>1, <1>2, <1>3, PTL DEF Spec

-----------------------------------------------------------------------------
(* Which attempt a cancel reaches.  Until a cancel says ERROR, the only attempt
   there is watches what it has published, and no attempt has the flag against
   it before its process is published. *)
Aimed ==
    marks = 0 =>
        \A c \in Caller :
            /\ at[c] = "publish" => proc[c] # process
            /\ cancelFlag =>
                  /\ at[c] \notin {"prepare", "spawn", "publish"}
                  /\ at[c] \in {"timer", "flag", "wait"} =>
                        \E x \in Canceller : proc[x] = proc[c]

LEMMA AimedInductive ==
    ASSUME Fields, Door, Held, Watched, Aimed, [Next]_vars
    PROVE  Aimed'
  <1> SUFFICES ASSUME marks' = 0, NEW d \in Caller
               PROVE  /\ at'[d] = "publish" => proc'[d] # process'
                      /\ cancelFlag' =>
                            /\ at'[d] \notin {"prepare", "spawn", "publish"}
                            /\ at'[d] \in {"timer", "flag", "wait"} =>
                                  \E x \in Canceller : proc'[x] = proc'[d]
    BY DEF Aimed
  <1> DEFINE Fine == /\ at[d] = "publish" => proc[d] # process
                     /\ cancelFlag =>
                           /\ at[d] \notin {"prepare", "spawn", "publish"}
                           /\ at[d] \in {"timer", "flag", "wait"} =>
                                 \E x \in Canceller : proc[x] = proc[d]
  <1> USE ClaudeAssumption DEF Fields, Held, Thread, GoTo, object, local, history
  <1>1. marks = 0 /\ Fine
    BY MarksStay DEF Aimed
  <1>2. /\ \A c, e \in Caller : at[c] # "out" /\ at[e] # "out" => c = e
        /\ status # "BUSY" => \A c \in Caller : at[c] = "out"
    BY <1>1, AloneUntilCancelled DEF Executing, Inside
  <1>3. ASSUME NEW k \in Child, ChildExits(k) PROVE Fine'
    BY <1>1, <1>3 DEF ChildExits
  <1>4. ASSUME NEW c \in Caller, Enter(c) PROVE Fine'
    BY <1>2, <1>4 DEF Enter
  <1>5. ASSUME NEW c \in Caller, Execute(c) PROVE Fine'
    <2>1. CASE Begin(c)
      BY <1>1, <2>1 DEF Begin
    <2>2. CASE Prepare(c) \/ PrepareRaises(c) \/ SpawnNotFound(c) \/ SpawnRaises(c)
               \/ TimesOut(c) \/ InTime(c) \/ SeesFlag(c) \/ SeesNoFlag(c) \/ WaitsAgain(c)
               \/ SeesExit(c)
      BY <1>1, <1>2, <2>2 DEF Prepare, PrepareRaises, SpawnNotFound, SpawnRaises, TimesOut,
                              InTime, SeesFlag, SeesNoFlag, WaitsAgain, SeesExit
    <2>3. CASE WriteFails(c) \/ CleanUp(c) \/ Parse(c)
      BY <1>1, <2>3 DEF WriteFails, CleanUp, Parse, RetryOrFinish
    <2>4. CASE Spawn(c)
      <3>1. PICK k \in Child : child[k] = "unborn" /\ proc' = [proc EXCEPT ![c] = k]
        BY <2>4 DEF Spawn
      <3>2. k # process
        BY <3>1, NoChild DEF Started
      <3>3. ~cancelFlag /\ at[c] = "spawn" /\ at' = [at EXCEPT ![c] = "publish"]
        BY <1>1, <2>4 DEF Spawn, Aimed
      <3> QED
        BY <1>2, <2>4, <3>1, <3>2, <3>3 DEF Spawn
    <2>5. CASE Publish(c)
      BY <1>1, <1>2, <2>5 DEF Publish
    <2>6. CASE Finish(c)
      BY <1>1, <1>2, <2>6 DEF Finish
    <2> QED
      BY <1>5, <2>1, <2>2, <2>3, <2>4, <2>5, <2>6 DEF Execute
  <1>6. ASSUME NEW x \in Canceller, Cancel(x) PROVE Fine'
    <2>1. process \in Child /\ child[process] = "running"
      BY <1>6 DEF Cancel, Started
    <2>2. PICK c \in Caller : Watches(c, process)
      BY <2>1 DEF Watched
    <2>3. at[c] \in {"timer", "flag", "wait"} /\ proc[c] = process
      BY <1>1, <2>2 DEF Watches, Aimed
    <2>4. at[d] # "out" => d = c
      BY <1>2, <2>3
    <2> QED
      BY <2>3, <2>4, <1>6 DEF Cancel
  <1>7. ASSUME NEW x \in Canceller, Kill(x) PROVE Fine'
    BY <1>1, <1>7 DEF Kill
  <1>8. ASSUME NEW x \in Canceller, Mark(x) PROVE Fine'
    BY <1>1, <1>8 DEF Mark
  <1>9. CASE UNCHANGED vars
    BY <1>1, <1>9 DEF vars
  <1> QED
    BY <1>3, <1>4, <1>5, <1>6, <1>7, <1>8, <1>9 DEF Next

(* Until a cancel says ERROR, an attempt that sees the cancel flag is the one
   whose process was cancelled, for any number of callers and cancellers. *)
THEOREM CancelIsAimed == Spec => []CancelHitsItsTarget
  <1> DEFINE Inv == Fields /\ Door /\ Held /\ Watched /\ Aimed
  <1>1. Init => Inv
    BY InitDoor, InitSwept DEF Init, Aimed, Thread
  <1>2. Inv /\ [Next]_vars => Inv'
    BY FieldsInductive, DoorInductive, HeldInductive, WatchedInductive, AimedInductive
  <1>3. Inv => CancelHitsItsTarget
    BY DEF Aimed, CancelHitsItsTarget
  <1> QED
    BY <1>1, <1>2, <1>3, PTL DEF Spec


-----------------------------------------------------------------------------
(* The types.  A thread is in time only while rounds are left; a caller fills
   lists the object has had; and as no attempt has more than one directory, there
   are never fewer directories than attempts that have one. *)
Counters ==
    /\ retries \in [Caller -> 0..MaxRetries]
    /\ polls \in [Caller -> 0..TimeoutPolls]
    /\ calls \in [Thread -> 0..MaxCalls]
    /\ \A c \in Caller : at[c] \in {"flag", "wait"} => polls[c] < TimeoutPolls

PastLists == \A c \in Caller : sink[c] <= lists

DirectoryEach == Cardinality(Holders) <= dirs

StatusTyped == status \in {"IDLE", "BUSY", "ERROR"}

LEMMA CountersStep ==
    ASSUME Fields, Counters, [Next]_vars
    PROVE  Counters'
  <1> USE ClaudeAssumption DEF Fields, Thread, Counters, GoTo, local
  <1>1. ASSUME UNCHANGED <<retries, polls, calls>>,
               \A c \in Caller : at'[c] \in {"flag", "wait"}
                                    => at[c] \in {"flag", "wait"} \/ polls[c] < TimeoutPolls
        PROVE  Counters'
    BY <1>1
  <1>2. ASSUME NEW t \in Thread, CallOnce(t) PROVE calls' \in [Thread -> 0..MaxCalls]
    <2>1. calls[t] \in 0..MaxCalls /\ calls[t] < MaxCalls /\ MaxCalls \in Nat
      BY <1>2 DEF CallOnce
    <2>2. calls[t] + 1 \in 0..MaxCalls
      BY <2>1
    <2> QED
      BY <1>2, <2>2 DEF CallOnce
  <1>3. ASSUME NEW c \in Caller, NEW from \in {"prepare", "parse"}, RetryOrFinish(c, from),
               UNCHANGED <<polls, calls>>
        PROVE  Counters'
    <2>1. CASE UNCHANGED retries
      BY <1>1, <1>3, <2>1 DEF RetryOrFinish
    <2>2. CASE retries[c] < MaxRetries /\ retries' = [retries EXCEPT ![c] = @ + 1]
      <3>1. retries[c] \in 0..MaxRetries /\ MaxRetries \in Nat
        OBVIOUS
      <3>2. retries[c] + 1 \in 0..MaxRetries
        BY <3>1, <2>2
      <3> QED
        BY <1>3, <2>2, <3>2 DEF RetryOrFinish
    <2> QED
      BY <1>3, <2>1, <2>2 DEF RetryOrFinish
  <1>4. ASSUME NEW c \in Caller, Enter(c) PROVE Counters'
    <2>1. calls' \in [Thread -> 0..MaxCalls] /\ 0 \in 0..MaxRetries
      BY <1>2, <1>4 DEF Enter
    <2> QED
      BY <1>4, <2>1 DEF Enter
  <1>5. ASSUME NEW c \in Caller, Execute(c) PROVE Counters'
    <2>1. CASE Begin(c) \/ Prepare(c) \/ PrepareRaises(c) \/ Spawn(c) \/ SpawnNotFound(c)
               \/ SpawnRaises(c) \/ TimesOut(c) \/ InTime(c) \/ SeesFlag(c) \/ SeesNoFlag(c)
               \/ SeesExit(c) \/ CleanUp(c) \/ Finish(c)
      BY <1>1, <2>1 DEF Begin, Prepare, PrepareRaises, Spawn, SpawnNotFound, SpawnRaises,
                        TimesOut, InTime, SeesFlag, SeesNoFlag, SeesExit, CleanUp, Finish
    <2>2. CASE Publish(c)
      BY <2>2 DEF Publish
    <2>3. CASE WaitsAgain(c)
      <3>1. polls[c] \in 0..TimeoutPolls /\ polls[c] < TimeoutPolls /\ TimeoutPolls \in Nat
        BY <2>3 DEF WaitsAgain
      <3>2. polls[c] + 1 \in 0..TimeoutPolls
        BY <3>1
      <3> QED
        BY <2>3, <3>2 DEF WaitsAgain
    <2>4. CASE WriteFails(c)
      BY <1>3, <2>4 DEF WriteFails
    <2>5. CASE Parse(c)
      <3>1. CASE RetryOrFinish(c, "parse")
        BY <1>3, <2>5, <3>1 DEF Parse
      <3>2. CASE ~RetryOrFinish(c, "parse")
        BY <1>1, <2>5, <3>2 DEF Parse
      <3> QED
        BY <3>1, <3>2
    <2> QED
      BY <1>5, <2>1, <2>2, <2>3, <2>4, <2>5 DEF Execute
  <1>6. ASSUME NEW x \in Canceller, Cancel(x) PROVE Counters'
    <2>1. calls' \in [Thread -> 0..MaxCalls]
      BY <1>2, <1>6 DEF Cancel
    <2> QED
      BY <1>6, <2>1 DEF Cancel
  <1>7. ASSUME NEW x \in Canceller, Kill(x) \/ Mark(x) PROVE Counters'
    BY <1>1, <1>7 DEF Kill, Mark
  <1>8. (\E k \in Child : ChildExits(k)) \/ UNCHANGED vars => Counters'
    BY <1>1 DEF ChildExits, vars
  <1> QED
    BY <1>4, <1>5, <1>6, <1>7, <1>8 DEF Next

LEMMA StatusStep == StatusTyped /\ [Next]_vars => StatusTyped'
  BY DEF StatusTyped, Next, vars, object, ChildExits, Enter, Execute, Begin, Prepare, WriteFails,
         PrepareRaises, Spawn, SpawnNotFound, SpawnRaises, Publish, TimesOut, InTime,
         SeesFlag, SeesNoFlag, WaitsAgain, SeesExit, CleanUp, Parse, Finish, Cancel, Kill,
         Mark

(* The lists are only ever replaced, never put back. *)
LEMMA PastListsStep ==
    ASSUME Fields, PastLists, [Next]_vars
    PROVE  PastLists'
  <1> USE DEF Fields
  <1>1. /\ lists' \in {lists, lists + 1}
        /\ sink' = sink \/ \E c \in Caller : sink' = [sink EXCEPT ![c] = lists]
    BY DEF Next, vars, object, local, ChildExits, Enter, Execute, Begin, Prepare, WriteFails,
           PrepareRaises, Spawn, SpawnNotFound, SpawnRaises, Publish, TimesOut, InTime,
           SeesFlag, SeesNoFlag, WaitsAgain, SeesExit, CleanUp, Parse, Finish, Cancel, Kill,
           Mark
  <1>2. \A c \in Caller : sink'[c] \in {sink[c], lists}
    BY <1>1
  <1> QED
    BY <1>1, <1>2 DEF PastLists

LEMMA DirectoryEachStep ==
    ASSUME Fields, Swept, DirectoryEach, [Next]_vars
    PROVE  DirectoryEach'
  <1> USE DEF Swept, DirectoryEach
  <1>1. Holders \in SUBSET Caller
    BY DEF Holders
  <1>2. /\ Cardinality(Holders) \in Nat
        /\ \A c \in Caller \ Holders : Cardinality(Holders \cup {c}) = Cardinality(Holders) + 1
        /\ \A c \in Holders : Cardinality(Holders \ {c}) = Cardinality(Holders) - 1
    BY <1>1, ClaudeAssumption, FS_Subset, FS_CardinalityType, FS_AddElement, FS_RemoveElement
  <1>3. CASE Holders' = Holders /\ dirs' \in {dirs, dirs + 1}
    <2>1. Cardinality(Holders') = Cardinality(Holders)
      BY <1>3
    <2> QED
      BY <1>2, <1>3, <2>1
  <1>4. ASSUME NEW c \in Caller \ Holders, Holders' = Holders \cup {c}, dirs' = dirs + 1
        PROVE  DirectoryEach'
    BY <1>2, <1>4
  <1>5. ASSUME NEW c \in Holders, Holders' = Holders \ {c}, dirs' \in {dirs, dirs - 1}
        PROVE  DirectoryEach'
    <2>1. Cardinality(Holders') = Cardinality(Holders) - 1
      BY <1>2, <1>5
    <2> QED
      BY <1>2, <1>5, <2>1
  <1> QED
    BY <1>3, <1>4, <1>5, DirectorySteps

(* One adapter never makes more attempts than the package allows, waits for none
   longer than its timeout, publishes only processes it started, and removes no
   more directories than it made. *)
THEOREM ClaudeKeepsTypes == Spec => []TypeOK
  <1> DEFINE Inv == Fields /\ Held /\ Swept /\ Counters /\ StatusTyped /\ PastLists
                    /\ DirectoryEach
  <1>1. Init => Inv
    <2>1. Init => Counters
      <3>1. {0} \subseteq 0..MaxRetries /\ {0} \subseteq 0..TimeoutPolls /\ {0} \subseteq 0..MaxCalls
        BY ClaudeAssumption
      <3> QED
        BY <3>1 DEF Init, Counters, Thread
    <2>2. Init => StatusTyped /\ PastLists
      BY DEF Init, StatusTyped, PastLists
    <2>3. Init => DirectoryEach
      <3>1. Init => Holders = {}
        BY DEF Init, Holders, WithDirectory, Thread
      <3> QED
        BY <3>1, FS_EmptySet DEF Init, DirectoryEach
    <2> QED
      BY <2>1, <2>2, <2>3, InitDoor, InitSwept
  <1>2. Inv /\ [Next]_vars => Inv'
    BY FieldsInductive, HeldInductive, SweptInductive, CountersStep, StatusStep, PastListsStep,
       DirectoryEachStep
  <1>3. Inv => TypeOK
    <2> SUFFICES ASSUME Inv PROVE TypeOK
      OBVIOUS
    <2>1. process \in Child \cup {NoProcess}
      BY DEF Held, Started
    <2>2. sink \in [Caller -> 0..lists]
      BY DEF Fields, PastLists
    <2>3. dirs \in Nat
      <3>1. Cardinality(Holders) \in Nat
        BY ClaudeAssumption, FS_Subset, FS_CardinalityType DEF Holders
      <3> QED
        BY <3>1 DEF Swept, DirectoryEach
    <2>4. child \in [Child -> {"unborn", "running", "succeeded", "failed"}]
      BY DEF Held, Ended
    <2> QED
      BY <2>1, <2>2, <2>3, <2>4 DEF TypeOK, Fields, Place, Held, Swept, Counters, StatusTyped
  <1> QED
    BY <1>1, <1>2, <1>3, PTL DEF Spec
=============================================================================
