-------------------------- MODULE AdapterRegistry --------------------------
(***************************************************************************)
(* adapter/registry.py over adapter/shell_adapter.py: one AdapterRegistry, *)
(* in which one ShellAdapter is registered, under one id or several (the   *)
(* registry does not ask).  The threads that call the registry             *)
(* ("registrars") hold its lock while they look at the adapter and cancel  *)
(* it; the callers of execute got the adapter before, and know nothing of  *)
(* the registry.                                                           *)
(*                                                                         *)
(* A step of the adapter is one of ShellAdapter, so RegistrySpec           *)
(* implements Spec.  The queries (get, list_adapters, list_idle, count)    *)
(* change nothing and are left out.                                        *)
(***************************************************************************)
EXTENDS ShellAdapter

CONSTANTS
    Registrar,      \* the threads that call register, unregister and clear
    BusId,          \* the ids to register under
    MaxAdapters,    \* max_adapters
    Free            \* nobody holds the lock of the registry

ASSUME RegistryAssumption ==
    /\ Registrar \subseteq Canceller
    /\ IsFiniteSet(BusId) /\ MaxAdapters \in Nat
    /\ Free \notin Registrar

VARIABLES
    lock,       \* the registrar that holds self._lock
    adapters,   \* the keys of _adapters
    doomed,     \* doomed[x]: the ids the call of x is about to delete
    visit,      \* visit[x]: those whose adapter it has not looked at
    step        \* step[x]: where the call of x is

regVars == <<lock, adapters, doomed, visit, step>>
allVars == <<vars, regVars>>

RegistryTypeOK ==
    /\ TypeOK
    /\ lock \in Registrar \cup {Free}
    /\ adapters \subseteq BusId /\ Cardinality(adapters) <= MaxAdapters
    /\ doomed \in [Registrar -> SUBSET BusId]
    /\ visit \in [Registrar -> SUBSET BusId]
    /\ step \in [Registrar -> {"out", "look", "cancel"}]

RegistryInit ==
    /\ Init
    /\ lock = Free
    /\ adapters = {}
    /\ doomed = [x \in Registrar |-> {}]
    /\ visit = [x \in Registrar |-> {}]
    /\ step = [x \in Registrar |-> "out"]

-----------------------------------------------------------------------------
RegisterUnchecked(x, b) ==      \* mutant: the capacity is not looked at
    /\ lock = Free /\ step[x] = "out" /\ b \notin adapters
    /\ adapters' = adapters \cup {b}
    /\ UNCHANGED <<vars, lock, doomed, visit, step>>

(* register; a full registry or a known id is refused. *)
Register(x, b) ==
    /\ lock = Free /\ step[x] = "out"
    /\ Cardinality(adapters) < MaxAdapters
    /\ b \notin adapters
    /\ adapters' = adapters \cup {b}
    /\ UNCHANGED <<vars, lock, doomed, visit, step>>

(* unregister and clear take the lock and keep it until they have deleted. *)
Begins(x, ids) ==
    /\ lock = Free /\ step[x] = "out"
    /\ lock' = x
    /\ doomed' = [doomed EXCEPT ![x] = ids]
    /\ visit' = [visit EXCEPT ![x] = ids]
    /\ step' = [step EXCEPT ![x] = "look"]
    /\ UNCHANGED <<vars, adapters>>

Unregister(x, b) == b \in adapters /\ Begins(x, {b})

Clear(x) == Begins(x, adapters)

(* get_status: an adapter that says IDLE is not cancelled. *)
Look(x, b) ==
    /\ step[x] = "look" /\ at[x] = "out"
    /\ b \in visit[x]
    /\ visit' = [visit EXCEPT ![x] = @ \ {b}]
    /\ step' = IF status = "IDLE" THEN step ELSE [step EXCEPT ![x] = "cancel"]
    /\ UNCHANGED <<vars, lock, adapters, doomed>>

UnlockedCancel(x) ==      \* mutant: the lock is not held during cancel
    /\ step[x] = "cancel"
    /\ Cancel(x) \/ CancelFails(x)
    /\ step' = [step EXCEPT ![x] = "look"]
    /\ lock' = Free
    /\ UNCHANGED <<adapters, doomed, visit>>

CallsCancel(x) ==
    /\ step[x] = "cancel"
    /\ Cancel(x) \/ CancelFails(x)
    /\ step' = [step EXCEPT ![x] = "look"]
    /\ UNCHANGED <<lock, adapters, doomed, visit>>

RemoveBeforeKill(x) ==      \* mutant: deleted while cancel is still at work
    /\ step[x] = "look" /\ visit[x] = {}
    /\ adapters' = adapters \ doomed[x]
    /\ doomed' = [doomed EXCEPT ![x] = {}]
    /\ step' = [step EXCEPT ![x] = "out"]
    /\ lock' = Free
    /\ UNCHANGED <<vars, visit>>

RemoveWhenIdle(x) ==      \* mutant: waits for the adapter
    /\ step[x] = "look" /\ at[x] = "out" /\ visit[x] = {}
    /\ status = "IDLE"
    /\ adapters' = adapters \ doomed[x]
    /\ doomed' = [doomed EXCEPT ![x] = {}]
    /\ step' = [step EXCEPT ![x] = "out"]
    /\ lock' = Free
    /\ UNCHANGED <<vars, visit>>

Remove(x) ==
    /\ step[x] = "look" /\ at[x] = "out" /\ visit[x] = {}
    /\ adapters' = adapters \ doomed[x]
    /\ doomed' = [doomed EXCEPT ![x] = {}]
    /\ step' = [step EXCEPT ![x] = "out"]
    /\ lock' = Free
    /\ UNCHANGED <<vars, visit>>

-----------------------------------------------------------------------------
AdapterStep ==
    /\ \/ \E k \in Child : ChildExits(k)
       \/ \E c \in Caller : Enter(c) \/ Execute(c)
       \/ \E x \in Canceller \ Registrar : Cancel(x)
       \/ \E x \in Canceller : Kill(x) \/ Mark(x)
    /\ UNCHANGED regVars

Goes(x) == (\E b \in BusId : Look(x, b)) \/ CallsCancel(x) \/ Remove(x)

RegistryNext ==
    \/ AdapterStep
    \/ \E x \in Registrar, b \in BusId : Register(x, b) \/ Unregister(x, b)
    \/ \E x \in Registrar : Clear(x) \/ Goes(x)

RegistrySpec == RegistryInit /\ [][RegistryNext]_allVars

(* A thread that is inside a call goes on. *)
FairRegistrySpec ==
    /\ RegistrySpec
    /\ \A c \in Caller : WF_allVars(Execute(c) /\ UNCHANGED regVars)
    /\ \A x \in Canceller : WF_allVars((Kill(x) \/ Mark(x)) /\ UNCHANGED regVars)
    /\ \A x \in Registrar : WF_allVars(Goes(x))

-----------------------------------------------------------------------------
(* The child that unregister or clear found running has ended when the id is
   deleted: the executor is not lost while it works (registry.py:63).  An adapter
   between two attempts says IDLE, though, and one between Popen and publishing
   the process has nothing to cancel: those go on executing. *)
StoppedBeforeRemoved ==
    [][\A x \in Registrar :
           step[x] = "look" /\ step'[x] = "out" /\ proc[x] # NoProcess
               => child[proc[x]] # "running"]_allVars

(* What a call deletes is still there: no second registrar has deleted it since
   the check, so the del at line 67 raises no KeyError. *)
RemovesWhatItChecked == \A x \in Registrar : step[x] # "out" => doomed[x] \subseteq adapters

(* The lock of the registry is held across cancel, and still comes free: nothing
   the adapter does with its own lock waits for the registry. *)
RegistryComesFree == lock # Free ~> lock = Free
=============================================================================
