----------------------------- MODULE BusManager -----------------------------
(***************************************************************************)
(* runtime/bus_manager.py: every process ("client") that works on a bus    *)
(* owns a BusManager, and the only thing the managers share is the file    *)
(* system.  A write is not one step.  The manager reads the bus file and   *)
(* validates the change (Transition, ForceTransition, InitializeBus),      *)
(* creates or truncates its temporary file (Open), the buffered JSON       *)
(* reaches that file when it is closed (Flush), os.replace renames it over *)
(* the bus file (Replace), and the change is appended to the ledger        *)
(* (AppendLedger).  Steps of other clients may come in between, there is   *)
(* no lock.                                                                *)
(*                                                                         *)
(* The temporary file is named after the bus id the manager was given, so  *)
(* two managers with the same bus id work on the SAME temporary file.  An  *)
(* open file follows its inode: when another client renames the temporary  *)
(* file while it is open here, this client's data goes to the bus file     *)
(* ("bus"), and to no file at all after one more rename ("orphan").  POSIX *)
(* renames are assumed; a frame is smaller than the write buffer.          *)
(***************************************************************************)
EXTENDS Protocol

CONSTANTS
    Client,         \* the processes
    AidOf,          \* AidOf[c]: the AID process c runs under
    IdOf,           \* IdOf[c]: the bus_id its manager was constructed with
    Audited,        \* the clients that bound a ledger writer
    Payload,        \* the payload_updates callers pass to transition
    Topology,       \* the parent and child buses they pass to initialize_bus
    Keep,           \* a key that is missing from payload_updates
    Absent,         \* content of a file that does not exist
    Empty,          \* of one that was created or truncated, not yet written
    Corrupt,        \* of one that holds no JSON object
    NoWrite,        \* no write in progress
    NoEntry,        \* the ledger is empty
    MaxClock,       \* bound on Vector_Clock
    MaxCrashes      \* bound on the number of crashes

Updates == [Aid          : Agent \cup {NoAid, Keep},
            Target_Aid   : Agent \cup {NoAid, AnyAid, Keep},
            Request      : Request \cup {Keep},
            Token_Holder : Agent \cup {NoAid, Keep},
            Vector_Clock : Nat \cup {Keep}]

ASSUME BusManagerAssumption ==
    /\ AidOf \in [Client -> Agent]
    /\ IdOf \in [Client -> BusId]
    /\ Audited \subseteq Client
    /\ Payload \subseteq Updates
    /\ Keep \notin Agent \cup {NoAid, AnyAid} \cup Request
    /\ Topology \subseteq [parent : BusId \cup {NoBus}, children : SUBSET BusId]
    /\ \A x \in {Absent, Empty, Corrupt} : x \notin Frame
    /\ Absent # Empty /\ Absent # Corrupt /\ Empty # Corrupt
    /\ NoWrite \notin [from : Status, new : Frame, by : Agent \cup {NoAid}]
    /\ NoEntry \notin [agent_id : Agent, old_status : Status, new_status : Status,
                       vector_clock : Nat, forced : BOOLEAN]
    /\ MaxClock \in Nat
    /\ MaxCrashes \in Nat

VARIABLES
    busData,    \* content of the bus file
    tempData,   \* tempData[i]: content of .temp_<i>.json
    pc,         \* pc[c]: the next step of c's call
    fd,         \* fd[c]: where the temporary file c opened is now
    pend,       \* pend[c]: the status c read, the frame it writes, who is audited
    fresh,      \* history: which of the bus file and the temporary file nobody
                \* else has touched since c read the bus
    ledger,     \* the last ledger entry
    crashes     \* number of crashes so far

vars == <<busData, tempData, pc, fd, pend, fresh, ledger, crashes>>

Content == Frame \cup {Absent, Empty, Corrupt}
Write   == [from : Status, new : Frame, by : Agent \cup {NoAid}]
Entry   == [agent_id : Agent, old_status : Status, new_status : Status,
            vector_clock : Nat, forced : BOOLEAN]

TypeOK ==
    /\ busData \in Content
    /\ tempData \in [BusId -> Content]
    /\ pc \in [Client -> {"idle", "open", "flush", "replace", "log"}]
    /\ fd \in [Client -> {"none", "temp", "bus", "orphan"}]
    /\ pend \in [Client -> Write \cup {NoWrite}]
    /\ \A c \in Client : (pc[c] = "idle") <=> (pend[c] = NoWrite)
    /\ \A c \in Client : pc[c] = "log" => pend[c].by # NoAid
    /\ fresh \in [Client -> SUBSET {"bus", "temp"}]
    /\ ledger \in Entry \cup {NoEntry}
    /\ crashes \in 0..MaxCrashes

-----------------------------------------------------------------------------
(* atomic_read: no frame comes out of a file that is missing or no JSON. *)
Readable == busData \notin {Absent, Empty, Corrupt}

InitialFrame(id) ==
    [status |-> UNINITIALIZED, bus_id |-> id, Aid |-> NoAid, Target_Aid |-> NoAid,
     Request |-> NoRequest, Token_Holder |-> NoAid, Vector_Clock |-> 0,
     Parent_Bus |-> NoBus, Child_Buses |-> {}, force_reset |-> FALSE]

(* The frame a transition of c starts from. *)
CurrentFrame(c) == IF Readable THEN busData ELSE InitialFrame(IdOf[c])

NextFrame(frame, next) ==
    [frame EXCEPT !.status = next, !.Vector_Clock = @ + 1]

Given(value, old) == IF value = Keep THEN old ELSE value

(* new_data.update(payload_updates) *)
WithPayload(frame, p) ==
    [frame EXCEPT !.Aid          = Given(p.Aid, @),
                  !.Target_Aid   = Given(p.Target_Aid, @),
                  !.Request      = Given(p.Request, @),
                  !.Token_Holder = Given(p.Token_Holder, @),
                  !.Vector_Clock = Given(p.Vector_Clock, @)]

ForcedFrame(frame, next) == [NextFrame(frame, next) EXCEPT !.force_reset = TRUE]

(* Mutant: the graph is not consulted. *)
AdmissibleOffGraph(actor, old, next, new) ==
    /\ CanTransition(actor, old, next)
    /\ AssertVectorClockMonotonicity(old, new.Vector_Clock)
    /\ AssertInvariants(new)

(* What transition() accepts. *)
Admissible(actor, old, next, new) ==
    /\ ValidateTransition(old.status, next)
    /\ CanTransition(actor, old, next)
    /\ AssertVectorClockMonotonicity(old, new.Vector_Clock)
    /\ AssertInvariants(new)

-----------------------------------------------------------------------------
Init ==
    /\ busData = Absent
    /\ tempData = [i \in BusId |-> Absent]
    /\ pc = [c \in Client |-> "idle"]
    /\ fd = [c \in Client |-> "none"]
    /\ pend = [c \in Client |-> NoWrite]
    /\ fresh = [c \in Client |-> {}]
    /\ ledger = NoEntry
    /\ crashes = 0

(* The read-and-validate part of a call: c read the status from, will write
   the frame new, and will record that in the name of by (of nobody if by is
   NoAid). *)
BeginWrite(c, from, new, by) ==
    /\ pc[c] = "idle"
    /\ new.Vector_Clock <= MaxClock
    /\ pc' = [pc EXCEPT ![c] = "open"]
    /\ pend' = [pend EXCEPT ![c] = [from |-> from, new |-> new, by |-> by]]
    /\ fresh' = [fresh EXCEPT ![c] = {"bus", "temp"}]
    /\ UNCHANGED <<busData, tempData, fd, ledger, crashes>>

Auditor(c) == IF c \in Audited THEN AidOf[c] ELSE NoAid

Transition(c, next, p) ==
    LET old == CurrentFrame(c)
        new == WithPayload(NextFrame(old, next), p)
    IN  /\ Admissible(AidOf[c], old, next, new)
        /\ BeginWrite(c, old.status, new, Auditor(c))

ForceTransition(c, next) ==
    LET old == CurrentFrame(c)
        new == ForcedFrame(old, next)
    IN  /\ ValidateTransition(old.status, next)
        /\ AssertInvariants(new)
        /\ BeginWrite(c, old.status, new, Auditor(c))

(* Only when the bus cannot be read; not validated and not audited. *)
InitializeBus(c, topology) ==
    /\ ~Readable
    /\ BeginWrite(c, UNINITIALIZED,
                  [InitialFrame(IdOf[c]) EXCEPT !.Aid = AidOf[c],
                                                !.Parent_Bus = topology.parent,
                                                !.Child_Buses = topology.children],
                  NoAid)

(* The bus file's inode is gone: a temporary file that had become the bus
   file while it was open belongs to no name any more. *)
Unlinked(f) == IF f = "bus" THEN "orphan" ELSE f

(* The bus file has changed. *)
Stale(f) == f \ {"bus"}

DestroyBus(c) ==
    /\ pc[c] = "idle"
    /\ busData # Absent
    /\ busData' = Absent
    /\ fd' = [d \in Client |-> Unlinked(fd[d])]
    /\ fresh' = [d \in Client |-> Stale(fresh[d])]
    /\ UNCHANGED <<tempData, pc, pend, ledger, crashes>>

-----------------------------------------------------------------------------
(* atomic_write, step by step. *)

(* The clients whose write is between open and rename, on the temporary file of
   c. *)
Rivals(c) == {d \in Client \ {c} : IdOf[d] = IdOf[c] /\ pc[d] \in {"flush", "replace"}}

(* c and its rivals, if it has any, may now work on each other's data. *)
Met(c, d) == Rivals(c) # {} /\ d \in Rivals(c) \cup {c}

(* Mutant: the file is opened without truncating it. *)
OpenWithoutTruncating(c) ==
    /\ pc[c] = "open"
    /\ IF tempData[IdOf[c]] = Absent
       THEN tempData' = [tempData EXCEPT ![IdOf[c]] = Empty]
       ELSE UNCHANGED tempData
    /\ fd' = [fd EXCEPT ![c] = "temp"]
    /\ pc' = [pc EXCEPT ![c] = "flush"]
    /\ fresh' = [d \in Client |-> fresh[d] \ {x \in {"temp"} : Met(c, d)}]
    /\ UNCHANGED <<busData, pend, ledger, crashes>>

Open(c) ==
    /\ pc[c] = "open"
    /\ tempData' = [tempData EXCEPT ![IdOf[c]] = Empty]
    /\ fd' = [fd EXCEPT ![c] = "temp"]
    /\ pc' = [pc EXCEPT ![c] = "flush"]
    /\ fresh' = [d \in Client |-> fresh[d] \ {x \in {"temp"} : Met(c, d)}]
    /\ UNCHANGED <<busData, pend, ledger, crashes>>

(* The text is written from offset 0.  Over a longer text it leaves that
   text's tail behind, and the file holds no JSON. *)
Overwritten(content, frame) ==
    IF content = Empty THEN {frame} ELSE {frame, Corrupt}

(* Mutant: the file is renamed before its buffer is written out. *)
FlushTooLate(c) ==
    /\ pc[c] = "flush"
    /\ fd' = [fd EXCEPT ![c] = "none"]
    /\ pc' = [pc EXCEPT ![c] = "replace"]
    /\ UNCHANGED <<busData, tempData, pend, fresh, ledger, crashes>>

Flush(c) ==
    /\ pc[c] = "flush"
    /\ \/ /\ fd[c] = "temp"
          /\ \E x \in Overwritten(tempData[IdOf[c]], pend[c].new) :
                tempData' = [tempData EXCEPT ![IdOf[c]] = x]
          /\ UNCHANGED <<busData, fresh>>
       \/ /\ fd[c] = "bus"
          /\ busData' \in Overwritten(busData, pend[c].new)
          /\ fresh' = [d \in Client |-> Stale(fresh[d])]
          /\ UNCHANGED tempData
       \/ /\ fd[c] = "orphan"
          /\ UNCHANGED <<busData, tempData, fresh>>
    /\ fd' = [fd EXCEPT ![c] = "none"]
    /\ pc' = [pc EXCEPT ![c] = "replace"]
    /\ UNCHANGED <<pend, ledger, crashes>>

(* The call of c is over: it returns, raises, or dies with its process. *)
Return(c) ==
    /\ pc' = [pc EXCEPT ![c] = "idle"]
    /\ pend' = [pend EXCEPT ![c] = NoWrite]

(* Where the file that d has open is after c's rename. *)
Renamed(c, d) ==
    IF fd[d] = "temp" /\ IdOf[d] = IdOf[c] THEN "bus" ELSE Unlinked(fd[d])

Replace(c) ==
    /\ pc[c] = "replace"
    /\ tempData[IdOf[c]] # Absent
    /\ busData' = tempData[IdOf[c]]
    /\ tempData' = [tempData EXCEPT ![IdOf[c]] = Absent]
    /\ fd' = [d \in Client |-> Renamed(c, d)]
    /\ fresh' = [d \in Client |-> IF d = c THEN {} ELSE Stale(fresh[d])]
    /\ \/ /\ pend[c].by = NoAid
          /\ Return(c)
       \/ /\ pend[c].by # NoAid
          /\ pc' = [pc EXCEPT ![c] = "log"]
          /\ UNCHANGED pend
    /\ UNCHANGED <<ledger, crashes>>

(* FileNotFoundError: another client has renamed the temporary file.  The
   exception leaves the call before the ledger is written. *)
ReplaceFails(c) ==
    /\ pc[c] = "replace"
    /\ tempData[IdOf[c]] = Absent
    /\ Return(c)
    /\ fresh' = [fresh EXCEPT ![c] = {}]
    /\ UNCHANGED <<busData, tempData, fd, ledger, crashes>>

AppendLedger(c) ==
    /\ pc[c] = "log"
    /\ ledger' = [agent_id     |-> pend[c].by,
                  old_status   |-> pend[c].from,
                  new_status   |-> pend[c].new.status,
                  vector_clock |-> pend[c].new.Vector_Clock,
                  forced       |-> pend[c].new.force_reset]
    /\ Return(c)
    /\ UNCHANGED <<busData, tempData, fd, fresh, crashes>>

(* The process dies, perhaps within a call; its files stay as they are. *)
Crash(c) ==
    /\ crashes < MaxCrashes
    /\ crashes' = crashes + 1
    /\ Return(c)
    /\ fd' = [fd EXCEPT ![c] = "none"]
    /\ fresh' = [fresh EXCEPT ![c] = {}]
    /\ UNCHANGED <<busData, tempData, ledger>>

-----------------------------------------------------------------------------
(* Steps of a call that has begun. *)
Continue(c) ==
    Open(c) \/ Flush(c) \/ Replace(c) \/ ReplaceFails(c) \/ AppendLedger(c)

Call(c) ==
    \/ \E next \in Status, p \in Payload : Transition(c, next, p)
    \/ \E next \in Status : ForceTransition(c, next)
    \/ \E topology \in Topology : InitializeBus(c, topology)
    \/ DestroyBus(c)

Next == \E c \in Client : Call(c) \/ Continue(c) \/ Crash(c)

Spec == Init /\ [][Next]_vars

-----------------------------------------------------------------------------
(* Whatever the interleaving of the writers, whoever crashes and whichever
   temporary files are shared: a bus in an active state (101, 102, 202) names
   the holder of its token (SPECIFICATION 5.1).  Every frame that can reach
   the bus was validated, although against a bus that may have changed. *)
TokenConservation == Readable => HolderPresent(busData)

(* A bus with children but no parent that is no root never leaves 000:
   initialize_bus creates it unchecked, every later change is refused. *)
OrphanStaysIdle ==
    Readable /\ ~NotOrphanParent(busData) => busData.status = UNINITIALIZED

(* Even when temporary files are shared an empty bus file is a passing state:
   a writer that has it open is about to fill it, unless a process died. *)
EmptyIsTransient ==
    busData = Empty /\ crashes = 0 =>
        \E c \in Client : pc[c] = "flush" /\ fd[c] = "bus"

(* A call whose write met no other one on its temporary file is atomic, whatever
   the others do to the bus meanwhile and whoever died before it with the file
   half written: the bus file becomes the call's own frame at the rename, and
   neither before nor piecemeal, and the rename does not fail. *)
LoneWriteAtomic ==
    [][\A c \in Client : "temp" \in fresh[c] =>
          /\ Flush(c) => busData' = busData
          /\ Replace(c) => busData' = pend[c].new
          /\ ~ReplaceFails(c)]_vars

(* If moreover nobody changed the bus since the call read it, the call moves the
   bus along an edge of the connection graph and forwards in time: a rollback or
   an illegal edge takes two overlapping calls. *)
LegalStep(old, new) ==
    /\ ValidateTransition(old.status, new.status)
    /\ new.Vector_Clock > old.Vector_Clock

IsolatedWriteLegal ==
    [][\A c \in Client :
          fresh[c] = {"bus", "temp"} /\ Replace(c) /\ Readable
              => LegalStep(busData, busData')]_vars

-----------------------------------------------------------------------------
(* What the documentation promises and the managers do not keep. *)

(* The docstring of atomic_write (bus_manager.py:63-64): a read sees the old file
   or the whole new one, never one that is half written. *)
NoTornRead == busData \notin {Empty, Corrupt}
=============================================================================
