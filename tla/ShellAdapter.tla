---------------------------- MODULE ShellAdapter ----------------------------
(***************************************************************************)
(* adapter/shell_adapter.py: one ShellAdapter object, the threads that     *)
(* call execute ("callers"), the threads that call cancel ("cancellers"),  *)
(* and the child processes.  A step is a block under self._lock, or what   *)
(* happens between two such blocks.                                        *)
(*                                                                         *)
(* The blocks protect the fields one at a time.  A caller is inside        *)
(* execute during many of them, and what keeps a second one out is only    *)
(* the field _status.                                                      *)
(*                                                                         *)
(* Time is left out: a child ends when it likes, and an attempt times out  *)
(* after at most TimeoutPolls rounds of its loop.  SIGKILL ends a child.   *)
(* The capture threads and their buffers are left out: a result matters    *)
(* here only by what execute does with it.                                 *)
(***************************************************************************)
EXTENDS Naturals, FiniteSets

CONSTANTS
    Caller, Canceller,
    MaxRetries,         \* package.max_retries
    TimeoutPolls,       \* package.timeout_seconds, in rounds of the loop
    MaxCalls            \* bound on the calls of each caller

ASSUME ShellAssumption ==
    /\ IsFiniteSet(Caller) /\ Caller \cap Canceller = {}
    /\ {MaxRetries, TimeoutPolls, MaxCalls} \subseteq Nat

(* The Popen objects, in the order in which they are made. *)
Child == 1..(Cardinality(Caller) * MaxCalls * (MaxRetries + 1))

NoProcess == 0

VARIABLES
    status,         \* _status
    process,        \* _process
    cancelFlag,     \* _cancel_flag
    child,          \* child[k]: where child process k is
    at,             \* at[t]: the next step of thread t, caller or canceller
    proc,           \* proc[t]: the Popen object t holds
    retries,        \* retries[c]: of the current call of execute
    polls,          \* polls[c]: rounds of the loop of the current attempt
    calls,          \* calls[c]: how often c called execute
    raised,         \* history: an exception left execute after it had begun
    cancelled       \* history: the callers inside execute whose child was cancelled

shared == <<status, process, cancelFlag>>
local  == <<retries, polls, calls>>
vars   == <<shared, child, at, proc, local, raised, cancelled>>

Thread == Caller \cup Canceller

Place == {"out", "begin", "spawn", "publish", "timer", "flag", "wait", "collect",
          "finish", "kill", "mark"}

TypeOK ==
    /\ status \in {"IDLE", "BUSY", "ERROR"}
    /\ process \in Child \cup {NoProcess}
    /\ cancelFlag \in BOOLEAN
    /\ child \in [Child -> {"unborn", "running", "succeeded", "failed"}]
    /\ at \in [Thread -> Place]
    /\ proc \in [Thread -> Child \cup {NoProcess}]
    /\ process # NoProcess => child[process] # "unborn"
    /\ \A t \in Thread : proc[t] # NoProcess => child[proc[t]] # "unborn"
    /\ retries \in [Caller -> 0..MaxRetries]
    /\ polls \in [Caller -> 0..TimeoutPolls]
    /\ calls \in [Caller -> 0..MaxCalls]
    /\ raised \in BOOLEAN
    /\ cancelled \subseteq Caller

Init ==
    /\ status = "IDLE"
    /\ process = NoProcess
    /\ cancelFlag = FALSE
    /\ child = [k \in Child |-> "unborn"]
    /\ at = [t \in Thread |-> "out"]
    /\ proc = [t \in Thread |-> NoProcess]
    /\ retries = [c \in Caller |-> 0]
    /\ polls = [c \in Caller |-> 0]
    /\ calls = [c \in Caller |-> 0]
    /\ raised = FALSE
    /\ cancelled = {}

GoTo(t, from, to) == at[t] = from /\ at' = [at EXCEPT ![t] = to]

Inside(c) == at[c] # "out"

-----------------------------------------------------------------------------
(* A child ends by itself, or it is killed and can have any exit code then:
   it may handle SIGTERM. *)
Ended == {"succeeded", "failed"}

ChildExits(k) ==
    /\ child[k] = "running"
    /\ \E e \in Ended : child' = [child EXCEPT ![k] = e]
    /\ UNCHANGED <<shared, at, proc, local, raised, cancelled>>

Spare(k) == UNCHANGED child      \* mutant of KillProcess

KillProcess(k) ==
    IF child[k] = "running"
    THEN \E e \in Ended : child' = [child EXCEPT ![k] = e]
    ELSE UNCHANGED child

-----------------------------------------------------------------------------
(* execute *)

(* A call while the adapter is BUSY raises RuntimeError at once. *)
Enter(c) ==
    /\ status # "BUSY"
    /\ GoTo(c, "out", "begin")
    /\ calls[c] < MaxCalls
    /\ calls' = [calls EXCEPT ![c] = @ + 1]
    /\ status' = "BUSY"
    /\ cancelFlag' = FALSE
    /\ retries' = [retries EXCEPT ![c] = 0]
    /\ cancelled' = cancelled \ {c}
    /\ UNCHANGED <<process, child, proc, polls, raised>>

(* _run_once: every attempt lowers the cancel flag, without the lock. *)
Begin(c) ==
    /\ GoTo(c, "begin", "spawn")
    /\ cancelFlag' = FALSE
    /\ UNCHANGED <<status, process, child, proc, local, raised, cancelled>>

Spawn(c) ==
    /\ GoTo(c, "spawn", "publish")
    /\ \E k \in Child :
          /\ child[k] = "unborn"
          /\ \A j \in Child : j < k => child[j] # "unborn"
          /\ child' = [child EXCEPT ![k] = "running"]
          /\ proc' = [proc EXCEPT ![c] = k]
    /\ UNCHANGED <<shared, local, raised, cancelled>>

(* FileNotFoundError becomes a result that is not retried; *)
SpawnNotFound(c) ==
    /\ GoTo(c, "spawn", "finish")
    /\ UNCHANGED <<shared, child, proc, local, raised, cancelled>>

(* any other OSError of makedirs or Popen leaves execute. *)
SpawnRaises(c) ==
    /\ GoTo(c, "spawn", "out")
    /\ raised' = TRUE
    /\ UNCHANGED <<shared, child, proc, local, cancelled>>

Publish(c) ==
    /\ GoTo(c, "publish", "timer")
    /\ process' = proc[c]
    /\ polls' = [polls EXCEPT ![c] = 0]
    /\ UNCHANGED <<status, cancelFlag, child, proc, retries, calls, raised, cancelled>>

(* One round of the loop: the timeout, the cancel flag, the child. *)
TimesOut(c) ==
    /\ GoTo(c, "timer", "finish")
    /\ KillProcess(proc[c])
    /\ UNCHANGED <<shared, proc, local, raised, cancelled>>

InTime(c) ==
    /\ polls[c] < TimeoutPolls
    /\ GoTo(c, "timer", "flag")
    /\ UNCHANGED <<shared, child, proc, local, raised, cancelled>>

SeesFlag(c) ==
    /\ cancelFlag
    /\ GoTo(c, "flag", "finish")
    /\ KillProcess(proc[c])
    /\ UNCHANGED <<shared, proc, local, raised, cancelled>>

SeesNoFlag(c) ==
    /\ ~cancelFlag
    /\ GoTo(c, "flag", "wait")
    /\ UNCHANGED <<shared, child, proc, local, raised, cancelled>>

WaitsUncounted(c) ==      \* mutant: each round has the whole timeout
    /\ GoTo(c, "wait", "timer")
    /\ child[proc[c]] = "running"
    /\ UNCHANGED <<shared, child, proc, local, raised, cancelled>>

WaitsAgain(c) ==
    /\ GoTo(c, "wait", "timer")
    /\ child[proc[c]] = "running"
    /\ polls' = [polls EXCEPT ![c] = @ + 1]
    /\ UNCHANGED <<shared, child, proc, retries, calls, raised, cancelled>>

SeesExit(c) ==
    /\ GoTo(c, "wait", "collect")
    /\ child[proc[c]] # "running"
    /\ UNCHANGED <<shared, child, proc, local, raised, cancelled>>

(* The attempt is over: the adapter says IDLE although execute may go on.  A
   failure is not retried if its output holds one of the words of
   _is_non_recoverable. *)
Collect(c) ==
    /\ status' = "IDLE"
    /\ process' = NoProcess
    /\ \/ /\ GoTo(c, "collect", "finish")
          /\ UNCHANGED retries
       \/ /\ GoTo(c, "collect", "begin")
          /\ child[proc[c]] = "failed" /\ retries[c] < MaxRetries
          /\ retries' = [retries EXCEPT ![c] = @ + 1]
    /\ UNCHANGED <<cancelFlag, child, proc, polls, calls, raised, cancelled>>

FinishKeepingStatus(c) ==      \* mutant: the status is not reset
    /\ GoTo(c, "finish", "out")
    /\ process' = NoProcess
    /\ UNCHANGED <<status, cancelFlag, child, proc, local, raised, cancelled>>

Finish(c) ==
    /\ GoTo(c, "finish", "out")
    /\ status' = "IDLE"
    /\ process' = NoProcess
    /\ UNCHANGED <<cancelFlag, child, proc, local, raised, cancelled>>

Execute(c) ==
    \/ Begin(c) \/ Spawn(c) \/ SpawnNotFound(c) \/ SpawnRaises(c) \/ Publish(c)
    \/ TimesOut(c) \/ InTime(c) \/ SeesFlag(c) \/ SeesNoFlag(c) \/ WaitsAgain(c)
    \/ SeesExit(c) \/ Collect(c) \/ Finish(c)

-----------------------------------------------------------------------------
(* cancel: it returns False at once when there is no running child. *)
Cancellable == process # NoProcess /\ child[process] = "running"

CancelFails(x) ==
    /\ at[x] = "out"
    /\ ~Cancellable
    /\ UNCHANGED vars

Cancel(x) ==
    /\ Cancellable
    /\ GoTo(x, "out", "kill")
    /\ cancelFlag' = TRUE
    /\ proc' = [proc EXCEPT ![x] = process]
    /\ cancelled' = cancelled \cup {c \in Caller : Inside(c) /\ proc[c] = process}
    /\ UNCHANGED <<status, process, child, local, raised>>

Kill(x) ==
    /\ GoTo(x, "kill", "mark")
    /\ KillProcess(proc[x])
    /\ UNCHANGED <<shared, proc, local, raised, cancelled>>

Mark(x) ==
    /\ GoTo(x, "mark", "out")
    /\ status' = "ERROR"
    /\ UNCHANGED <<process, cancelFlag, child, proc, local, raised, cancelled>>

-----------------------------------------------------------------------------
Next ==
    \/ \E k \in Child : ChildExits(k)
    \/ \E c \in Caller : Enter(c) \/ Execute(c)
    \/ \E x \in Canceller : Cancel(x) \/ Kill(x) \/ Mark(x)

Spec == Init /\ [][Next]_vars

(* A thread that is inside a call goes on; children need not end. *)
FairSpec ==
    /\ Spec
    /\ \A c \in Caller : WF_vars(Execute(c))
    /\ \A x \in Canceller : WF_vars(Kill(x) \/ Mark(x))

-----------------------------------------------------------------------------
(* No child outlives its attempt: whatever the threads do, a child runs only
   while the caller that started it is inside execute and watches it. *)
NoOrphanChild ==
    \A k \in Child : child[k] = "running" =>
        \E c \in Caller :
            proc[c] = k /\ at[c] \in {"publish", "timer", "flag", "wait"}

(* A BUSY adapter is executing, unless an exception left execute before. *)
BusyIsExecuting ==
    status = "BUSY" /\ ~raised => \E c \in Caller : Inside(c)

(* Every call of execute returns, whether or not its children end. *)
ExecuteReturns == \A c \in Caller : Inside(c) ~> ~Inside(c)

-----------------------------------------------------------------------------
(* What the comments promise and the adapter does not do. *)

(* shell_adapter.py:328: a task the user cancelled is not retried. *)
CancelledNotRetried ==
    [][\A c \in Caller : Spawn(c) => c \notin cancelled]_vars
=============================================================================
