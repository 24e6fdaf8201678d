# Verification of A2A-Cyclone

A2A-Cyclone lets agents on one machine coordinate through small JSON files, the
*buses*. A bus file holds one frame: a status code (`000` unused, `001` probe,
`002` acknowledged, `101` slave locked, `102` command given, `202` heartbeat,
`100`/`103` released), who wrote it to whom, who holds the token, and a vector
clock. There is no server and no lock: every process reads, validates and replaces
the whole file. What can go wrong is therefore a matter of interleavings, stale
reads, half-done file operations and processes that die, and that is what these
modules are about.

## 1. Inventory

| Component | State | Operations | Interacts with |
|---|---|---|---|
| protocol layer (`protocol/enums`, `state_machine`, `permissions`, `invariants`) | none | `validate_transition`, `can_transition`, `assert_invariants`, `assert_vector_clock_monotonicity` | called by the bus manager before a write |
| bus manager (`runtime/bus_manager.py`) | the bus file, `.temp_<bus_id>.json`, the bound ledger | `atomic_read`, `atomic_write`, `transition`, `force_transition`, `initialize_bus`, `destroy_bus` | other processes, through the file system |
| master (`master_node.py`) | its place in the session, poll counters | stale-bus reset, probe, wait for 002, lock, command, monitor, give up; the sub-bus with `--sub-bus` | bus manager, ledger writer, lease watcher, teardown |
| slave (`slave_node.py`) | `task_in_progress`, heartbeat count | acknowledge, execute with heartbeats, release; the sub-bus with `--sub-bus-file` | bus manager, by raw `atomic_write` |
| ledger writer (`runtime/ledger_writer.py`) | JSONL file, entries in memory, sequence number | `append`, `read_all`, `validate`, `clear` | called by the bus manager |
| lease watcher (`runtime/lease_watcher.py`) | last heartbeat, missed count and verdict per bus | `register`, `unregister`, `heartbeat_received`, `check_lease`, `is_expired` | polled by the master |
| teardown handler (`runtime/teardown_handler.py`) | log, pending signals | `handle_agent_lost`, `handle_cascading_failure`, `clear_pending_signals` | forces transitions on sub-buses, calls the two pure modules below |
| bus topology, failure propagation, ledger schema (`protocol/`) | none | pure functions on trees, signals, entry lists | teardown handler, lease watcher, ledger writer |
| AID pool, master coordination (`protocol/`) | none of their own | allocate, release, elect | nobody in the runtime |
| shell adapter (`adapter/shell_adapter.py`) | `_status`, `_process`, `_cancel_flag`, output buffers | `execute` with retries, `cancel`, `get_status`, two capture threads per child | child processes, caller threads |
| Claude adapter (`adapter/claude_code_adapter.py`) | the same, and a temporary directory per attempt | `execute`, `cancel` | `claude` processes, caller threads, git |
| adapter registry (`adapter/registry.py`) | adapters by bus id, a lock | `register`, `unregister`, `clear`, queries | cancels the adapters it removes, under its lock |

Hard behaviours, and what correctness means for each component:

* **bus manager** - concurrent writers; a write is five steps of several system
  calls; the temporary file may be shared; processes die in between. It should keep
  the frame invariants whatever happens, never show a reader half a frame, and move
  a bus along the connection graph unless writers overlap.
* **master and slave** - stale reads; a timeout racing a late 002; two masters;
  probes to everybody; restarts on what an earlier session left; a second bus that
  both create and clear. A command should be executed by the slave that was locked,
  not more often than it was given, and be answered; a master should always end and
  leave the sub-bus free.
* **adapters** - callers, cancellers and children run concurrently; the lock
  protects fields, not the call. No child, and no temporary directory, may be left
  behind, `execute` must return with the result of its own process, and `_status`
  should tell the truth.
* **registry** - no adapter is dropped while it works; the lock, which is held while
  `cancel` sleeps, comes free.
* **ledger writer** - crash between memory and file, restart with an old file.
* **lease watcher, teardown** - a verdict of expiry must not outlive a heartbeat; a
  target that cannot be forced must not keep the others from it; what is reported
  must be so although the agents on the sub-buses go on working.

`PROJECT.json` lists the hazards by line, with the properties that watch them, or
why none does.

## 2. Modules

| Module | Models |
|---|---|
| `Protocol` | the pure layer: statuses, connection graph, ACL, frame invariants. No variables; everything about a bus EXTENDS it |
| `BusManager` | any number of clients, each with a manager of one bus file: the calls and the file steps of each |
| `BusRegister` | what sharers of a bus may rely on: a register that is replaced in one step as long as clients of one name do not meet, and an audit of what was installed |
| `BusRefinement` | the mapping from `BusManager` to `BusRegister` |
| `CycloneNodes` | the two programs, composed over one root bus through the actions of `BusManager` |
| `SubBus` | the same programs with `--sub-bus` and `--sub-bus-file`: two instances of `BusManager`, composed |
| `ShellAdapter` | one adapter object, its threads and children |
| `AdapterRegistry` | a registry over a `ShellAdapter`, which it refines |
| `ClaudeCodeAdapter` | one Claude adapter, its threads, capture threads, children and directories |
| `LedgerWriter` | the ledger file, the processes that append to it, their memories |
| `LeaseWatcher` | one watcher and the clock it reads |
| `Teardown` | a supervisor with a `LeaseWatcher` and a teardown handler, the sub-buses and the agents on them |
| `BusManagerProofs`, `BusRefinementProofs`, `CycloneNodesProofs`, `SubBusProofs`, `AdapterRegistryProofs` (with those about `ShellAdapter`), `ClaudeCodeAdapterProofs`, `LedgerWriterProofs`, `TeardownProofs` | the theorems about these |
| `MC...` | small instances for TLC |

### BusManager

`busData` is the content of the bus file: a frame, or `Absent`, `Empty` (created or
truncated, not yet written), `Corrupt` (no JSON). `tempData[i]` is the content of
`.temp_<i>.json`. A client is at `pc[c]` of its call:

| Step | Code |
|---|---|
| `Transition`, `ForceTransition`, `InitializeBus` | read and validate (`transition` 109-134 and its siblings); the read is atomic, a frame is smaller than a buffer |
| `Open` | `open(temp_file, "w")` creates or truncates |
| `Flush` | the buffered JSON reaches the file when the `with` block closes it |
| `Replace` / `ReplaceFails` | `os.replace`; without a temporary file it raises and the ledger is not reached |
| `AppendLedger` | `_append_ledger` for clients that bound a ledger |
| `DestroyBus` | `os.remove` |
| `Crash` | the process dies; files stay as they are |

An open file follows its inode, which `fd[c]` records: after another client's rename
the descriptor points to the bus file itself (`"bus"`), and after one more rename or
a removal to no name (`"orphan"`). Writing over a longer text leaves that text's tail
(`Corrupt`); whether it is longer is left open. The programs give all managers of a
bus the same id (`master_node.py:77`, `slave_node.py:66`), so all of them share one
temporary file, and the runs and theorems allow any sharing. Two writes meet when one
opens the temporary file while the other is between its open and its rename
(`Rivals`, `Met`). The history variable `fresh[c]` says what nobody else has touched
since `c` read the bus: `"bus"` while the bus file is as it was read, `"temp"` while
no other write met this one.

A frame keeps the keys that decide something. `content`, `Lease_Extension` and the
two `force_reset_*` texts are only printed and are left out. `force_transition` does
not call `can_force_reset`, so neither does the model.

### CycloneNodes

Every read or write of the bus by a program is a step of its own; `stage[n]` is the
place between two of them, and the steps of a write are those of `BusManager`. A
refused transition (`ValueError`, `PermissionError`, `AssertionError`) or a failed
rename leaves the main function and stops the process (`"failed"`).

* Time is left out. Sleeps take any time; the timeouts of the master are counted in
  reads, as the code does (`range(20)`).
* `check_lease` runs right after `heartbeat_received` has stored the current time
  (`master_node.py:219-223`), so in these programs it always says that the lease is
  valid, and the branch behind it (224-240) is dead. It is not modelled here; the run
  `NodesLease` shows the consequence, and `Teardown` models what the branch calls.
* These programs never write `103` on the root bus, so `slave_node.py:189-195` is
  unreachable and left out, and so is what the master does about a `103` beyond
  leaving its loop.
* A target `"*"` is `AnyAid`.

### SubBus

`place[n]` is what the program has to do with the sub-bus next: the master enters it
into `Child_Buses` of the root bus with the frame it has read (`RegisterChild`), it
or the slave initializes it (`CreateSub`), the master probes it (`ProbeSub`), and at
the end both force it back to 000 (`ClearSub`). The sub-bus is a second instance of
`BusManager`, and since every manager of it has the same id its temporary file is
shared. The master's frame is stale when it is written. It can put a 102 back that the
slave is executing or has answered, so that one command is executed twice: `ExecutionsPaired`
says that it is never more than twice, but for restarts. It can also put an earlier
status over the 100 of the slave, and then the master never sees the answer it waits
for; `CommandSurvivesRegister` says that the 100 is on the bus some time all the same.
What the slave reads of the sub-bus between two heartbeats is printed only.

### LedgerWriter

The file is the list of its ended lines and the `tail` after the last newline; a line
is an entry or `Junk`. `append` is two steps, `Remember` (memory and sequence number)
and `WriteLine`. `present` says whether the file exists: without one
`read_all` returns nothing and leaves the memory as it is (`ledger_writer.py:70-71`),
so `ReadAll` has nothing to do. A line is far shorter than a buffer, so `flush` hands
it to the system in one appending write; a full disk or a stopped machine cuts it anywhere,
which `Interrupted` describes for `AppendFails` (the `OSError` that `_append_ledger`
drops) and `Crash`. `read_all` skips what is no JSON and accepts a last line without
newline. Text without newline is what makes the file hard: the next line is glued to
it and both are lost.

An entry is its author and its unique `event_id`; the ids are numbered in the order of
the calls of `append`. The vector clock of an entry is data the writer does not look
at, and nothing is claimed of it: it comes from a frame that was computed from a bus
that may have changed since, so the clocks of one author can repeat and go back, and
rule 2 of `assert_ledger_invariants` with them. No caller sets `parent_event_id`, so
rule 3 is left out. The text is taken to be ASCII: of other text a piece can end
within a character, and then `read_all` raises `UnicodeDecodeError`, which it does not
catch, and changes nothing. `_sequence_number` is the length of the memory. `Kept` is the loop of
`read_all`, line by line. `get_entry_count`, `get_last_entry` and `validate` only
read.

### ShellAdapter and ClaudeCodeAdapter

A step is a block under `_lock`, or what a thread does between two. Children are
`Popen` objects numbered in the order they are made. A result matters by what
`execute` does with it: success, a failure that is retried, or one that is not (the
words of `_is_non_recoverable` may occur in any output, so that is an open choice). A
killed child may have any exit code, SIGKILL ends it. The timeout is a number of
rounds of the loop.

The shell adapter says IDLE after every attempt, so another thread gets in between
two attempts; the Claude adapter stays BUSY until `execute` is over, and only
`cancel`, which says ERROR when the child is killed, lets a second execution in. Its
module has what the other leaves out: `lists` counts how often the output lists were
replaced and `sink[c]` is the pair the capture threads of an attempt fill, while
`execute` reads those the object has when it ends; `dirs` counts the temporary
directories. `_cleanup_tmpdir` drops every exception of its own
(`claude_code_adapter.py:567`), so the directory may stay although nothing was raised
(`CleanupTmpdir`); `raises` counts these exceptions and those that left `execute` half
way. The prompt, the command line, the diff of the worktree and the metadata
decide nothing. After a `cancel` that came too late the status stays ERROR until the
next `execute`, so `list_idle` does not find the adapter.

### AdapterRegistry

`lock` is held from the look-up to the `del`; `cancel` inside it is `ShellAdapter`'s,
step by step, and sleeps. One adapter is registered under several ids, which the
registry allows. The queries change nothing. An adapter that says IDLE between two
attempts, or that has made its `Popen` and not yet published it, goes on executing
after it was removed, though the docstring (`registry.py:63`) says that it is ended
first; `StoppedBeforeRemoved` says what the code does achieve.

### LeaseWatcher and Teardown

`LeaseWatcher` counts time in ticks of the clock the object reads. `missed` counts
the checks that found the lease over, as `missed_count` does, not the heartbeats that
were missed. `Teardown` composes it with one supervisor: it may call the watcher and
the handler at any time, as their docstrings describe. `handle_agent_lost` is one
step per target (`Skip` without a manager, else `ForceReads` and then `ForceWrites`
or `ForceFails`, or `ForceRefused`) and `HandlerReturns`; `handle_cascading_failure`
is the same with a failure to judge first. A sub-bus is its status. Agents read a
status and write a successor of it later (`held`), or a 202 or 100 over whatever they
read, as a slave at work does (`slave_node.py:145-172`); they live on although their
lease is over, die and are started again. The master has writes of its own to the same
bus (`MasterReads`, `MasterWrites`, `MasterFails`): the PROBE (`master_node.py:190-201`)
and the reset to 000 at the end of a session, which also takes back the 103 of a
teardown (276-288). The supervisor dies and comes back with empty objects.

So an answer of the handler stays true until somebody who may has undone it.
`reported[b]` is what the handler last answered of a bus whose agent was dead then; it
is forgotten when the agent is started again or the master writes to the bus.
`ReportsHold` says that while it is kept it is true, whatever further calls, other
agents and a restart of the supervisor do.

As in the code, the targets are all `Child_Buses` of the lost agent's bus, those of
healthy agents included (the comment at `bus_topology.py:145-147` names only the
agent's own), the teardown is not recursive, and nothing remembers which bus was torn
down already (`teardown_handler.py:42` says so; the connection graph does it, which
is `NotTornTwice`).

## 3. What the runs show

Passing runs:

| Run | Instance | Properties |
|---|---|---|
| `BusShared` | 2 clients, one bus id, one audited, clock to 3, payloads that keep or set the holder, or clear it and set the clock back, a bus made with a child or without relatives, one crash (1.9 million states) | `TokenConservation`: an active bus names its holder although frames are validated against stale reads; `OrphanStaysIdle`; `EmptyIsTransient`: an empty bus file has a writer about to fill it, unless a process died; `LoneWriteAtomic`: a call that met no other on the temporary file becomes visible whole and does not fail, whoever died before it; `ImplementsRegister`; `IsolatedWriteLegal`: only overlapping writers leave the graph or roll the clock back |
| `NodesSession` | 1 master, 2 slaves, the code's 20, 20 and 3, one restart each, fairness | `WritersAlternate`: the protocol does the work of the missing lock, and nobody reads a torn file; `SessionLegal`: the slave's unchecked frames follow the graph all the same; `ExecutesForMaster`; `CommandAnswered` |
| `NodesContest` | 2 masters, of which one calls `"*"`, 1 slave, one temporary file, one crash, fairness | `ExecutionsBounded`; `ProgramsReturn`: whatever competes, no wait is without bound |
| `SubBus` | 1 master and 1 trunk slave, one crash, one restart each, fairness (600 thousand states) | `TokensConserved` on both buses; `ExecutionsPaired`: the frame the master puts back doubles a command at most; `CommandSurvivesRegister`: and does not lose it; `SubBusReleased`: with one trunk master and no crash the sub-bus is free when the master is done, and its PROBE is accepted; `TreesFinish` |
| `LedgerRecovery` | 2 writers, one file, 5 entries, 3 failures | `TypeOK`; `LossBounded`: a failure costs at most one completed append; `WritersInOrder`: what is remembered or recovered is in the order of the appends and without repetition, author by author; `RecordsKept` |
| `Teardown` | a parent bus, one agent with a sub-bus and one sub-bus of the supervisor, 2 calls, 1 stale read, a grace period of 1 tick (1.6 million states), fairness | `TypeOK`; `ExpiredMeansSilent`; `EveryTargetAnswered`; `ReportsHold`; `NotTornTwice`; `TeardownReturns` |
| `ShellThreads` | 2 callers, 1 canceller, 1 retry, fairness | `NoOrphanChild`, `BusyIsExecuting`, `ExecuteReturns` |
| `ClaudeThreads` | 2 callers, 1 canceller, 1 retry, fairness | `TypeOK`; `OverlapBounded`: every cancel lets at most one more execution in; `NothingLeftBehind`; `OwnOutput`; `CancelHitsItsTarget`; `ExecuteReturns` |
| `Registry` | 1 caller, 2 registrars and a canceller, 3 ids, room for 2, fairness | `RegistryTypeOK` (the capacity included); `RemovesWhatItChecked`: no `KeyError`; `StoppedBeforeRemoved`; `RegistryComesFree` |

Runs that end in a counterexample, each of one sentence in the repository's
documents or comments that the code does not keep (`findings` quotes them):

| Run | What happens |
|---|---|
| `BusTorn` | two writers with one bus id meet on the temporary file, and a half-written bus file is what a reader finds |
| `NodesLease` | the bus of a slave that died at work stays in 202 |
| `ShellCancel` | a cancelled task is run again |

Other sentences the models contradict, and no run kept for them: an exception of `makedirs` or `Popen` leaves an adapter
BUSY for good (`base.py:14`); the graph refuses 103 from 101, so the sub-bus of a
lost agent that was just locked stays active (`invariants.py:106-110`); a 001 can
replace another master's 101 (SPECIFICATION 1.5.2), the initial frame of a slow
master can replace a 102, and the slave heartbeats in every session while the master
holds the token (5.2.2), a 002 that is not followed up is never taken back (1.3.2),
the slave's writes are not in the ledger (9.3.4) and the entries of two clients can
arrive out of clock order (9.3.2), a second `execute` can enter between two attempts
of the first (`shell_adapter.py:73`), and the slower of two overlapping transitions
sets the clock back (`invariants.py:42`; `IsolatedWriteLegal` says that it takes
two). In the ledger an entry that `read_all` has returned can be spoilt by the next
append if only its newline was missing (`ledger_writer.py:6`: no record is ever
changed); `RecordsKept` says that this can happen to no entry whose append was
completed.

With a sub-bus `WritersAlternate` and `CommandAnswered` do not hold any more: the
master's entry of the child bus overlaps the slave's heartbeats, can put an older
frame back over them, and a stale heartbeat can lose the entry. After a crash a
sub-bus left at 001 refuses the next master's PROBE, since nothing resets it, which
is why `SubBusReleased` excludes crashes; and a second trunk master can find the sub-bus at
the 001 of the first, which is why it speaks of one.

**Bounds.** `MaxClock`, `MaxCrashes`, `MaxRestarts`, `MaxCalls`, `MaxReads`,
`MaxFailures`, `MaxTime`, `MaxVerdicts` are bounds of the models, not of the code.
Two clients suffice for every interleaving of one write with another; the three steps
of the clock in `BusShared` are what an active state takes and allow a frame to be
overtaken twice, and what they leave out the proofs cover for every bound. In the runs of the programs the bound on the
clock (40) is never reached, so it cuts no behaviour off and the liveness properties
do not rest on it. `NodesSession` uses the numbers of the code; the others use one or
two polls and two heartbeats, which lets every timeout race what it waits for. Two
calls of the handler allow a second teardown of what the first one left; two ticks
exceed the grace period of one. Five entries and three failures let a line be
glued twice and the entry after it survive. `CHECK_DEADLOCK FALSE` is set where the
system may stop: masters end, a slave whose bus never changes has nothing to do,
threads and supervisors have made their calls. The bus and ledger runs check for
deadlock.

**Fairness.** Always weak, and for what runs once it has begun: each process's
program (`FairNodeSpec`, `FairTreeSpec`), the threads inside a call of an adapter
(`FairSpec`) or of the registry (`FairRegistrySpec`), the call of the teardown handler
(`Handle`). Children need not end, nobody has to call, crash or restart. The code has
no other scheduling: it sleeps and goes on, and its locks are held for bounded code.

## 4. What is proved

Every safety invariant and every action property that a passing run checks is a
theorem, for any sets of clients, agents, payloads, threads and buses and any values
of the bounds. The proofs use the named assumptions of the modules (`...Assumption`)
only. These say that the sets of threads and clients are finite where something is
counted, that the bounds are naturals, and that markers like `Keep`, `Missing` or
`Nothing` differ from the values they are put beside.

* **BusManager.** `TypeCorrect`: `TypeOK` is inductive; lemmas say that the frames
  the calls build are frames. `TokenConserved`, `OrphansStayIdle`:
  `TokenConservation` speaks of the bus file, but a frame gets there from a temporary
  file or a client's hands, perhaps long after it was validated and perhaps through
  another client's rename. `CheckedInv` says that every frame in any of these places
  was checked; it is inductive without any assumption on who shares what, which is
  why the token invariant survives torn files, crashes and stale reads.
  `LoneWritesAreAtomic`, for any sharing: `LoneInv` follows the temporary file of a
  client that met no other one from its truncation to its rename, and says that it has
  no rivals on the way. `IsolatedWritesLegal`: `FreshInv` adds that a writer whose read
  is still current holds a legal successor of the bus.
  `EmptyPasses`: `FillerInv` says of the temporary files
  too that an empty one has a writer, whose descriptor follows the rename.
* **Refinement**: `Spec` implies `Register!Spec`, for any sharing of temporary files.
  Reads and validations map to `Prepare`, the rename to `Install`, the ledger to
  `Report`, crashes to `Abandon`, and the file steps of a call that met no other to
  stutters. An `Open` that finds rivals is `Meet`; from then on a flush can be
  `Scribble` and a failed rename is `Lose`. What is promised of clients that met is
  little, and what they install is one of their checked frames or torn; the theorem
  says that all harm comes from there.
* **The programs.** `NodeTypesCorrect`; `NodesConserveToken`: the slave writes
  without any check, so the argument of `BusManager` does not carry over.
  `HoldersPresent` says of the frames in all places that an active one has a holder;
  a slave's frame is not active or carries its own name.
  `WritersKeepApart`, `SlavesWorkForMaster`, `SessionsLegal` are about the session of
  one master with one of any number of slaves, before anything disturbs it. `Session`
  is the handshake as a table: `MasterTurn` and `SlaveTurn` give, for each place of a
  program, the statuses the bus can have and the write it may be in, `SessionFiles`
  says that a write in progress is one legal step ahead of a bus file that holds a
  frame, and that nobody else writes. Each waits for a status that only the other one
  writes, which is what makes the table inductive without a lock. `UndisturbedBefore`
  (what disturbs a session is never undone) allows the implication to be used as an
  invariant.
  `ExecutionsAreBounded` holds of any number of masters, with crashes and torn files.
  `Spent` counts what is not executed yet: the 102s in the hands of writers, those in
  temporary files, and the one on the bus while the slave it is meant for has not
  taken it. With the executions they are never more than the commands and the starts
  of slaves, for a rename moves a 102 and never doubles one (`AddressInv`: a frame
  that commands a slave names one). It needs that slaves have AIDs of their
  own (`SlavesDiffer`, in the property): two that share one would both execute.
* **Programs with a sub-bus.** `TreesKeepTypes` (a program works on one bus at a time
  and a dead one on none), `TreesConserveTokens`: a step disturbs the root bus, the sub-bus or neither. The
  lemmas about a root bus are used as they are, those about a bus manager are
  instantiated once more for the sub-bus (`SubP`), where only 000 and 001 are ever
  written (`SubHolds`); the master's stale entry of the child bus comes in.
  `TreesBoundExecutions`: the count of `Spent` goes on, and a master that has yet to
  enter its sub-bus counts for one more 102 (`Registering`), so a command is paid for
  twice when it is given.
  `SubBusIsReleased`: `Kept` follows the one trunk master from its PROBE, past slaves
  that create and clear the same bus at any time, to the 000 it leaves.
* **Adapters.** `NoOrphans`, `BusyExecutes`: a running child was started by a caller
  that is still watching it, and every way to stop watching goes through a kill or an
  observed exit. `RegistryImplementsAdapter`: the registry is one more user of the
  adapter. `NoKeyError` needs that only the holder of the lock is inside a call;
  `StopsBeforeRemoving` that a registrar leaves `cancel` only when its child has
  ended. `RegistryKeepsTypes` and `ClaudeKeepsTypes` are type
  correctness with its bounds: attempts, polls, adapters, directories. `OverlapIsBounded` counts executions against what the status says and what
  cancellers hold; `OutputIsOwn` and `CancelIsAimed` follow while no cancel has said
  ERROR, since there is one execution then: a cancel finds only a published process,
  and the attempt that watches it is the one that meets the flag. `NothingIsLeft`: a
  running claude has a caller that watches it, and the directories are counted against
  the attempts that have one and the exceptions, those the cleanup drops included.
* **LedgerWriter.** `LossIsBounded`, `RecordsAreKept`, `LedgerKeepsTypes`. `LossBounded` is not
  inductive: a failure costs its entry only when the next line is glued to what it
  left. `LossInv` counts such text as a loss already and says that it is never a
  completed entry, which needs that an entry on its way is nowhere yet (`InFlight`)
  and has an id of its own (`Numbered`).
  `WritersStayInOrder`: what is recovered is in order because the file is (`OrderInv`:
  an entry on its way was appended after all that its author has in the file), and because the
  loop of `read_all` picks lines in their order (`Picked`). That is a fact about every
  sequence, so it is proved by induction on the length, as is that the recursive
  function `Kept` exists; the induction is on a set of naturals (`LeastOf`,
  `Induction`), from the well-foundedness of `<`, since the library's induction
  theorems take a formula as a parameter and the provers cannot instantiate that.
* **LeaseWatcher, Teardown.** `SupervisorKeepsTypes`; `VerdictIsSound`; `TargetsAreAnswered` (`CallInv`): the
  targets that have an answer and those that are left make up the targets of the
  call; `NeverTornTwice` (`WorkInv`): the graph lets 103 in only from 102 and 202, so
  a bus the handler has read and validated was set to work since its last teardown,
  whatever happens to it before the write; `ReportsStayTrue` (`DeadInv`, `OwnInv`): a
  dead agent acts on no read any more, and a write of the master's own, which is never
  under way during a call, takes the report with it.

Only model-checked: liveness (`CommandAnswered`, `ProgramsReturn`, `TreesFinish`,
`TeardownReturns`, `ExecuteReturns`, `RegistryComesFree`), since the prover does not
handle `ENABLED` and with it fairness.

## 5. Not modelled

* `aid_pool.py` and `master_coordination.py`: pure functions on values that a caller
  would keep. Nothing in the runtime or in the programs calls them, so there is no
  state and no interleaving; the same holds of `validate_topology`,
  `detect_orphan_buses`, `should_trigger_teardown`, `classify_failure`,
  `can_force_reset`, `can_create_sub_bus`, `can_register_as_master`, the assertions of
  v0.2.0 in `invariants.py` and the roles of `BusNode`.
* Real time outside `LeaseWatcher`: a sleep takes any time.
* The branch of the master behind an expired lease and the reactions to a 103 on the
  root bus, which the programs never reach.
* The capture threads of the shell adapter (its buffers are joined as they are; the
  Claude adapter's are modelled), a negative `max_retries`, the filter that
  `list_by_capability` calls under the registry's lock, and the numbers of ledger
  lines after a restart, which start from 1 unless `read_all` is called.
* Printing, help texts, package exports, `validate_aid_format`, the tests and assets.
