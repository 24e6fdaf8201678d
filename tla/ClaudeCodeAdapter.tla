------------------------- MODULE ClaudeCodeAdapter -------------------------
(***************************************************************************)
(* adapter/claude_code_adapter.py: one ClaudeCodeAdapter object, the       *)
(* threads that call execute ("callers") and cancel ("cancellers"), and    *)
(* the claude processes.  A step is a block under self._lock, or what      *)
(* happens between two of them.                                            *)
(*                                                                         *)
(* It differs from the shell adapter in what protects an execution: the    *)
(* status stays BUSY until execute is over, so nobody gets in between two  *)
(* attempts.  Only cancel, which says ERROR when it has killed the child,  *)
(* opens the door.  Each attempt has a temporary directory, and the        *)
(* capture threads of an attempt fill the output lists the object had when *)
(* they were started; execute reads those it has at the end.               *)
(*                                                                         *)
(* What claude prints is a marker, or none; whether its summary holds one  *)
(* of the words of _is_non_recoverable is open.  The prompt, the command   *)
(* line and the diff are left out: they decide nothing.  Time is left out  *)
(* as in ShellAdapter.                                                     *)
(***************************************************************************)
EXTENDS Naturals, FiniteSets

CONSTANTS
    Caller, Canceller,
    MaxRetries,         \* package.max_retries
    TimeoutPolls,       \* package.timeout_seconds, in rounds of the loop
    MaxCalls            \* bound on the calls of each thread

ASSUME ClaudeAssumption ==
    /\ IsFiniteSet(Caller) /\ Caller \cap Canceller = {}
    /\ {MaxRetries, TimeoutPolls, MaxCalls} \subseteq Nat

(* The Popen objects, in the order in which they are made. *)
Child == 1..(Cardinality(Caller) * MaxCalls * (MaxRetries + 1))

NoProcess == 0

VARIABLES
    status,         \* _status
    process,        \* _process
    cancelFlag,     \* _cancel_flag
    lists,          \* how often _stdout_data and _stderr_data were replaced
    child,          \* child[k]: where claude process k is
    dirs,           \* number of a2a_task_ directories on the disk
    at,             \* at[t]: the next step of thread t
    proc,           \* proc[t]: the Popen object t holds
    sink,           \* sink[c]: the lists the capture threads of c's attempt fill
    retries, polls, \* retries[c], polls[c]: as in ShellAdapter
    calls,          \* calls[t]: how often t made its call
    marks,          \* history: how often cancel has said ERROR
    raises          \* history: exceptions that left execute half way, and those
                    \* _cleanup_tmpdir dropped

object  == <<status, process, cancelFlag>>
local   == <<sink, retries, polls, calls>>
history == <<marks, raises>>
vars    == <<object, lists, child, dirs, at, proc, local, history>>

Thread == Caller \cup Canceller

(* The places of an attempt that has a temporary directory, and those at which
   its capture threads run or have filled the lists. *)
WithDirectory == {"spawn", "publish", "timer", "flag", "wait", "exited", "stopped"}
Captured      == {"timer", "flag", "wait", "exited", "parse"}

TypeOK ==
    /\ status \in {"IDLE", "BUSY", "ERROR"}
    /\ process \in Child \cup {NoProcess}
    /\ cancelFlag \in BOOLEAN
    /\ lists \in Nat
    /\ child \in [Child -> {"unborn", "running", "succeeded", "failed"}]
    /\ dirs \in Nat
    /\ at \in [Thread -> {"out", "begin", "prepare", "parse", "finish", "kill", "mark"}
                         \cup WithDirectory]
    /\ proc \in [Thread -> Child \cup {NoProcess}]
    /\ sink \in [Caller -> 0..lists]
    /\ retries \in [Caller -> 0..MaxRetries]
    /\ polls \in [Caller -> 0..TimeoutPolls]
    /\ calls \in [Thread -> 0..MaxCalls]
    /\ marks \in Nat /\ raises \in Nat

Init ==
    /\ status = "IDLE"
    /\ process = NoProcess
    /\ cancelFlag = FALSE
    /\ lists = 0 /\ dirs = 0
    /\ child = [k \in Child |-> "unborn"]
    /\ at = [t \in Thread |-> "out"]
    /\ proc = [t \in Thread |-> NoProcess]
    /\ sink = [c \in Caller |-> 0]
    /\ retries = [c \in Caller |-> 0]
    /\ polls = [c \in Caller |-> 0]
    /\ calls = [t \in Thread |-> 0]
    /\ marks = 0 /\ raises = 0

GoTo(t, from, to) == at[t] = from /\ at' = [at EXCEPT ![t] = to]

CallOnce(t) ==
    /\ calls[t] < MaxCalls
    /\ calls' = [calls EXCEPT ![t] = @ + 1]

Inside(c) == at[c] # "out"

-----------------------------------------------------------------------------
(* A claude process ends by itself, or it is killed and can have any exit code
   then. *)
Ended == {"succeeded", "failed"}

ChildExits(k) ==
    /\ child[k] = "running"
    /\ \E e \in Ended : child' = [child EXCEPT ![k] = e]
    /\ UNCHANGED <<object, lists, dirs, at, proc, local, history>>

KillProcess(k) ==
    IF child[k] = "running"
    THEN \E e \in Ended : child' = [child EXCEPT ![k] = e]
    ELSE UNCHANGED child

-----------------------------------------------------------------------------
(* execute *)

Enter(c) ==
    /\ status # "BUSY"
    /\ GoTo(c, "out", "begin")
    /\ CallOnce(c)
    /\ status' = "BUSY"
    /\ cancelFlag' = FALSE
    /\ lists' = lists + 1
    /\ retries' = [retries EXCEPT ![c] = 0]
    /\ UNCHANGED <<process, child, dirs, proc, sink, polls, history>>

(* _run_once lowers the flag and replaces the lists, without the lock. *)
BeginKeepingFlag(c) ==      \* mutant: the flag of the last attempt stays
    /\ GoTo(c, "begin", "prepare")
    /\ lists' = lists + 1
    /\ UNCHANGED <<object, child, dirs, proc, local, history>>

Begin(c) ==
    /\ GoTo(c, "begin", "prepare")
    /\ cancelFlag' = FALSE
    /\ lists' = lists + 1
    /\ UNCHANGED <<status, process, child, dirs, proc, local, history>>

RetryOnceMore(c, from) ==      \* mutant: max_retries + 1 attempts are retried
    \/ /\ GoTo(c, from, "finish")
       /\ UNCHANGED retries
    \/ /\ GoTo(c, from, "begin")
       /\ retries[c] <= MaxRetries
       /\ retries' = [retries EXCEPT ![c] = @ + 1]

(* After an attempt that failed.  The words of _is_non_recoverable decide, and
   max_retries. *)
RetryOrFinish(c, from) ==
    \/ /\ GoTo(c, from, "finish")
       /\ UNCHANGED retries
    \/ /\ GoTo(c, from, "begin")
       /\ retries[c] < MaxRetries
       /\ retries' = [retries EXCEPT ![c] = @ + 1]

Prepare(c) ==
    /\ GoTo(c, "prepare", "spawn")
    /\ dirs' = dirs + 1
    /\ UNCHANGED <<object, lists, child, proc, local, history>>

(* _cleanup_tmpdir drops every exception: then the directory stays. *)
CleanupTmpdir(made) ==
    \/ dirs' = made - 1 /\ UNCHANGED raises
    \/ dirs' = made /\ raises' = raises + 1

(* An OSError of writing task.md is a failed attempt; *)
WriteFails(c) ==
    /\ RetryOrFinish(c, "prepare")
    /\ CleanupTmpdir(dirs + 1)
    /\ UNCHANGED <<object, lists, child, proc, sink, polls, calls, marks>>

(* one of makedirs or mkdtemp leaves execute, and so does any other of the write,
   which leaves the directory behind. *)
PrepareRaises(c) ==
    /\ GoTo(c, "prepare", "out")
    /\ dirs' \in {dirs, dirs + 1}
    /\ raises' = raises + 1
    /\ UNCHANGED <<object, lists, child, proc, local, marks>>

Spawn(c) ==
    /\ GoTo(c, "spawn", "publish")
    /\ \E k \in Child :
          /\ child[k] = "unborn"
          /\ \A j \in Child : j < k => child[j] # "unborn"
          /\ child' = [child EXCEPT ![k] = "running"]
          /\ proc' = [proc EXCEPT ![c] = k]
    /\ UNCHANGED <<object, lists, dirs, local, history>>

SpawnNotFoundUncleaned(c) ==      \* mutant: the directory is left behind
    /\ GoTo(c, "spawn", "finish")
    /\ UNCHANGED <<object, lists, child, dirs, proc, local, history>>

SpawnNotFound(c) ==
    /\ GoTo(c, "spawn", "finish")
    /\ CleanupTmpdir(dirs)
    /\ UNCHANGED <<object, lists, child, proc, local, marks>>

(* Any other exception of Popen leaves the directory and the status behind. *)
SpawnRaises(c) ==
    /\ GoTo(c, "spawn", "out")
    /\ raises' = raises + 1
    /\ UNCHANGED <<object, lists, child, dirs, proc, local, marks>>

Publish(c) ==
    /\ GoTo(c, "publish", "timer")
    /\ process' = proc[c]
    /\ sink' = [sink EXCEPT ![c] = lists]
    /\ polls' = [polls EXCEPT ![c] = 0]
    /\ UNCHANGED <<status, cancelFlag, lists, child, dirs, proc, retries, calls, history>>

(* One round of the loop: the timeout, the cancel flag, the child. *)
TimesOut(c) ==
    /\ GoTo(c, "timer", "stopped")
    /\ KillProcess(proc[c])
    /\ UNCHANGED <<object, lists, dirs, proc, local, history>>

InTime(c) ==
    /\ polls[c] < TimeoutPolls
    /\ GoTo(c, "timer", "flag")
    /\ UNCHANGED <<object, lists, child, dirs, proc, local, history>>

SeesFlag(c) ==
    /\ cancelFlag
    /\ GoTo(c, "flag", "stopped")
    /\ KillProcess(proc[c])
    /\ UNCHANGED <<object, lists, dirs, proc, local, history>>

SeesNoFlag(c) ==
    /\ ~cancelFlag
    /\ GoTo(c, "flag", "wait")
    /\ UNCHANGED <<object, lists, child, dirs, proc, local, history>>

WaitsUncounted(c) ==      \* mutant: each round has the whole timeout
    /\ GoTo(c, "wait", "timer")
    /\ child[proc[c]] = "running"
    /\ UNCHANGED <<object, lists, child, dirs, proc, local, history>>

WaitsAgain(c) ==
    /\ GoTo(c, "wait", "timer")
    /\ child[proc[c]] = "running"
    /\ polls' = [polls EXCEPT ![c] = @ + 1]
    /\ UNCHANGED <<object, lists, child, dirs, proc, sink, retries, calls, history>>

SeesExit(c) ==
    /\ GoTo(c, "wait", "exited")
    /\ child[proc[c]] # "running"
    /\ UNCHANGED <<object, lists, child, dirs, proc, local, history>>

(* The capture threads are joined and the directory is to go.  An attempt that
   timed out or saw the flag is not retried. *)
CleanUp(c) ==
    /\ GoTo(c, "exited", "parse") \/ GoTo(c, "stopped", "finish")
    /\ CleanupTmpdir(dirs)
    /\ UNCHANGED <<object, lists, child, proc, local, marks>>

(* _determine_success: a marker outweighs the exit code. *)
Marker == {"none", "SUCCESS", "FAILURE"}

Successful(code, marker) ==
    marker = "SUCCESS" \/ (marker = "none" /\ code = "succeeded")

ParseReleasing(c) ==      \* mutant: the status is reset after each attempt
    /\ \E marker \in Marker :
          \/ /\ GoTo(c, "parse", "finish")
             /\ Successful(child[proc[c]], marker)
             /\ UNCHANGED retries
          \/ /\ RetryOrFinish(c, "parse")
             /\ ~Successful(child[proc[c]], marker)
    /\ status' = "IDLE"
    /\ UNCHANGED <<process, cancelFlag, lists, child, dirs, proc, sink, polls, calls, history>>

Parse(c) ==
    /\ \E marker \in Marker :
          \/ /\ GoTo(c, "parse", "finish")
             /\ Successful(child[proc[c]], marker)
             /\ UNCHANGED retries
          \/ /\ RetryOrFinish(c, "parse")
             /\ ~Successful(child[proc[c]], marker)
    /\ UNCHANGED <<object, lists, child, dirs, proc, sink, polls, calls, history>>

Finish(c) ==
    /\ GoTo(c, "finish", "out")
    /\ status' = "IDLE"
    /\ process' = NoProcess
    /\ UNCHANGED <<cancelFlag, lists, child, dirs, proc, local, history>>

Execute(c) ==
    \/ Begin(c) \/ Prepare(c) \/ WriteFails(c) \/ PrepareRaises(c)
    \/ Spawn(c) \/ SpawnNotFound(c) \/ SpawnRaises(c) \/ Publish(c)
    \/ TimesOut(c) \/ InTime(c) \/ SeesFlag(c) \/ SeesNoFlag(c) \/ WaitsAgain(c)
    \/ SeesExit(c) \/ CleanUp(c) \/ Parse(c) \/ Finish(c)

-----------------------------------------------------------------------------
(* cancel: it returns False at once when there is no running child. *)
Cancel(x) ==
    /\ process # NoProcess /\ child[process] = "running"
    /\ GoTo(x, "out", "kill")
    /\ CallOnce(x)
    /\ cancelFlag' = TRUE
    /\ proc' = [proc EXCEPT ![x] = process]
    /\ UNCHANGED <<status, process, lists, child, dirs, sink, retries, polls, history>>

Kill(x) ==
    /\ GoTo(x, "kill", "mark")
    /\ KillProcess(proc[x])
    /\ UNCHANGED <<object, lists, dirs, proc, local, history>>

Mark(x) ==
    /\ GoTo(x, "mark", "out")
    /\ status' = "ERROR"
    /\ marks' = marks + 1
    /\ UNCHANGED <<process, cancelFlag, lists, child, dirs, proc, local, raises>>

-----------------------------------------------------------------------------
Next ==
    \/ \E k \in Child : ChildExits(k)
    \/ \E c \in Caller : Enter(c) \/ Execute(c)
    \/ \E x \in Canceller : Cancel(x) \/ Kill(x) \/ Mark(x)

Spec == Init /\ [][Next]_vars

(* A thread that is inside a call goes on; children need not end. *)
FairSpec ==
    /\ Spec
    /\ \A c \in Caller : WF_vars(Execute(c))
    /\ \A x \in Canceller : WF_vars(Kill(x) \/ Mark(x))

-----------------------------------------------------------------------------
(* The status keeps a second execution out until cancel, which does not wait for
   execute to end, says ERROR: every cancel lets at most one more in. *)
Executing == {c \in Caller : Inside(c)}

OverlapBounded == Cardinality(Executing) <= marks + 1

(* Nothing outlives an attempt unnoticed: a claude process runs only while the
   caller that started it watches it, and there is a temporary directory for each
   attempt that goes on and at most one for each exception, one that left execute
   or one of the removal. *)
Watches(c, k) == proc[c] = k /\ at[c] \in {"publish", "timer", "flag", "wait"}

NothingLeftBehind ==
    /\ \A k \in Child : child[k] = "running" => \E c \in Caller : Watches(c, k)
    /\ dirs <= Cardinality({c \in Caller : at[c] \in WithDirectory}) + raises

(* Until a cancel has let a second execution in, an attempt is judged by the
   output of its own process, *)
OwnOutput == marks = 0 => \A c \in Caller : at[c] \in Captured => sink[c] = lists

(* and an attempt that sees the cancel flag is the one that was cancelled, not
   the next one. *)
CancelHitsItsTarget ==
    marks = 0 /\ cancelFlag =>
        \A c \in Caller : at[c] = "flag" => \E x \in Canceller : proc[x] = proc[c]

(* Every call of execute returns, whether or not its children end. *)
ExecuteReturns == \A c \in Caller : Inside(c) ~> ~Inside(c)
=============================================================================
