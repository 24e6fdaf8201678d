---------------------------- MODULE LeaseWatcher ----------------------------
(***************************************************************************)
(* runtime/lease_watcher.py: one LeaseWatcher object, which a supervisor   *)
(* tells of the heartbeats it has seen and asks whether a lease still      *)
(* stands.  The verdict is kept (is_expired) until the next heartbeat.     *)
(* Time is counted in ticks of the clock the object reads; the supervisor  *)
(* calls in any order and at any time.                                     *)
(***************************************************************************)
EXTENDS Naturals

CONSTANTS
    Watched,            \* the buses the supervisor may watch
    Trunk,              \* those whose holder is the master of another bus
    HeartbeatInterval,  \* heartbeat_interval_ms, in ticks
    MaxMissed,          \* max_missed_heartbeats
    TrunkMultiplier,    \* trunk_grace_multiplier
    Unwatched,          \* the bus is not in _watch_state
    MaxTime,            \* bound on the clock
    MaxVerdicts         \* bound on missed_count

LeaseStatus == {"monitoring", "healthy", "expired"}

ASSUME LeaseAssumption ==
    /\ Trunk \subseteq Watched
    /\ {HeartbeatInterval, MaxMissed, TrunkMultiplier, MaxTime, MaxVerdicts} \subseteq Nat
    /\ Unwatched \notin [last : Nat, missed : Nat, status : LeaseStatus]

VARIABLES
    now,        \* time.time()
    watch       \* watch[b]: the entry of bus b in _watch_state

leaseVars == <<now, watch>>

LeaseTypeOK ==
    /\ now \in 0..MaxTime
    /\ watch \in [Watched -> [last : 0..MaxTime, missed : 0..MaxVerdicts,
                              status : LeaseStatus] \cup {Unwatched}]

LeaseInit ==
    /\ now = 0
    /\ watch = [b \in Watched |-> Unwatched]

ComputeGracePeriod(trunk) ==
    HeartbeatInterval * MaxMissed * (IF trunk THEN TrunkMultiplier ELSE 1)

-----------------------------------------------------------------------------
Register(b) ==
    /\ watch' = [watch EXCEPT ![b] = [last |-> now, missed |-> 0, status |-> "monitoring"]]
    /\ UNCHANGED now

(* unregister, and reset. *)
Unregister(b) ==
    /\ watch' = [watch EXCEPT ![b] = Unwatched]
    /\ UNCHANGED now

HeartbeatKeepingVerdict(b) ==      \* mutant: the verdict outlives the heartbeat
    /\ watch' = [watch EXCEPT ![b] =
                    IF @ = Unwatched
                    THEN [last |-> now, missed |-> 0, status |-> "healthy"]
                    ELSE [@ EXCEPT !.last = now]]
    /\ UNCHANGED now

(* A bus that is not registered is registered by its first heartbeat. *)
HeartbeatReceived(b) ==
    /\ watch' = [watch EXCEPT ![b] = [last |-> now, missed |-> 0, status |-> "healthy"]]
    /\ UNCHANGED now

LeaseOver(b, trunk) == now - watch[b].last > ComputeGracePeriod(trunk)

(* check_lease; a check that finds the lease valid, or no lease, changes nothing. *)
CheckLease(b, trunk) ==
    /\ watch[b] # Unwatched /\ LeaseOver(b, trunk)
    /\ watch[b].missed < MaxVerdicts
    /\ watch' = [watch EXCEPT ![b] =
                    [last |-> @.last, missed |-> @.missed + 1, status |-> "expired"]]
    /\ UNCHANGED now

IsExpired(b) == watch[b] # Unwatched /\ watch[b].status = "expired"

Tick ==
    /\ now < MaxTime
    /\ now' = now + 1
    /\ UNCHANGED watch

LeaseNext ==
    \/ Tick
    \/ \E b \in Watched :
          Register(b) \/ Unregister(b) \/ HeartbeatReceived(b) \/ CheckLease(b, b \in Trunk)

-----------------------------------------------------------------------------
(* The stored verdict can be trusted at any later time: while it says expired,
   nothing was heard of the bus for the whole grace period that its kind of
   holder is given, and get_missed_count agrees that the lease was missed. *)
ExpiredMeansSilent ==
    \A b \in Watched : watch[b] # Unwatched =>
        /\ IsExpired(b) => LeaseOver(b, b \in Trunk)
        /\ IsExpired(b) <=> watch[b].missed > 0
=============================================================================
