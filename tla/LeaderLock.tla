----------------------------- MODULE LeaderLock -----------------------------
(***************************************************************************)
(* The SQLite leader lock (kanban_warden/lock.py) and the supervisor loops *)
(* that compete for it (kanban_warden/supervisor.py, __init__.py).         *)
(*                                                                         *)
(* A supervisor is one WardenSupervisor object; Owner[s] is the lock owner *)
(* string "profile:pid" it computes, so supervisors of one process share   *)
(* an owner.  The lock database is one row, or none.  Every transaction on *)
(* it is one action; between the clock reading that opens a tick and the   *)
(* transactions of that tick any other supervisor may step.                *)
(*                                                                         *)
(* Time is discrete.  A tick that began at now[s] is over by               *)
(* now[s] + TickBound: the bound is an assumption on the environment (the  *)
(* code has none) and the runs choose it inside or outside the lease.      *)
(***************************************************************************)
EXTENDS Integers

CONSTANTS
    Supervisors,        \* WardenSupervisor objects
    Owners,             \* owner strings "profile:pid"; one per process
    Owner,              \* the owner string of each supervisor
    LeaseSeconds,       \* leader_lock.lease_seconds
    HeartbeatSeconds,   \* leader_lock.heartbeat_seconds
    JoinTimeout,        \* the timeout of WardenSupervisor.stop
    TickBound,          \* longest duration of one tick (environment)
    Once,               \* loop.once
    CrashHorizon,       \* bound: processes crash no later than this
    MaxClock            \* bound on the clock

ASSUME OwnerAssumption ==
    /\ Owner \in [Supervisors -> Owners]
    /\ "none" \notin Owners

ASSUME TimeAssumption ==
    /\ LeaseSeconds \in Nat \ {0}
    /\ HeartbeatSeconds \in Nat \ {0}
    /\ JoinTimeout \in Nat
    /\ TickBound \in Nat
    /\ CrashHorizon \in Nat
    /\ MaxClock \in Nat
    /\ Once \in BOOLEAN

VARIABLES
    clock,              \* time.time()
    lock,               \* the row of table locks, or NoLock
    life,               \* life cycle of the supervisor object
    pc,                 \* where its loop thread is
    now,                \* local of tick(): its clock reading; 0 outside a tick
    last_heartbeat,     \* self._last_heartbeat
    stop_at             \* local of stop(): when its join began; 0 outside it

vars == <<clock, lock, life, pc, now, last_heartbeat, stop_at>>

-----------------------------------------------------------------------------
NoLock == [owner |-> "none", expires_at |-> 0]

LockRow == {NoLock} \cup [owner : Owners, expires_at : Nat]

Process(s) == {t \in Supervisors : Owner[t] = Owner[s]}

InTick(s) == pc[s] \in {"heartbeat", "acquire", "collect"}

\* The supervisor does the work that only the leader may do.
Acting(s) == pc[s] = "collect"

TypeOK ==
    /\ clock \in Nat
    /\ lock \in LockRow
    /\ life \in [Supervisors -> {"new", "started", "stopping", "stopped"}]
    /\ pc \in [Supervisors ->
                 {"none", "wait", "heartbeat", "acquire", "collect", "exited"}]
    /\ now \in [Supervisors -> Nat]
    /\ last_heartbeat \in [Supervisors -> Nat]
    /\ stop_at \in [Supervisors -> Nat]

\* The clock starts late enough that a supervisor with _last_heartbeat = 0.0
\* is outside its heartbeat interval, as time.time() always is.
Init ==
    /\ clock = HeartbeatSeconds
    /\ lock = NoLock
    /\ life = [s \in Supervisors |-> "new"]
    /\ pc = [s \in Supervisors |-> "none"]
    /\ now = [s \in Supervisors |-> 0]
    /\ last_heartbeat = [s \in Supervisors |-> 0]
    /\ stop_at = [s \in Supervisors |-> 0]

-----------------------------------------------------------------------------
(* Life cycle: register, unregister, process death.                        *)

\* register() builds and starts a supervisor when the process has none: the
\* global _SUPERVISOR is empty or its supervisor has returned from stop().
\* A stopped supervisor whose thread is gone stands for a fresh object.
Register(s) ==
    /\ \A t \in Process(s) : life[t] \in {"new", "stopped"}
    /\ pc[s] \in {"none", "exited"}
    /\ life' = [life EXCEPT ![s] = "started"]
    /\ pc' = [pc EXCEPT ![s] = "wait"]
    /\ last_heartbeat' = [last_heartbeat EXCEPT ![s] = 0]
    /\ UNCHANGED <<clock, lock, now, stop_at>>

\* stop(), first half: set the stop event and begin to join the thread.
Unregister(s) ==
    /\ life[s] = "started"
    /\ life' = [life EXCEPT ![s] = "stopping"]
    /\ stop_at' = [stop_at EXCEPT ![s] = clock]
    /\ UNCHANGED <<clock, lock, pc, now, last_heartbeat>>

\* (Wrong variant: stop() does not join at all.)
JoinSkipped(s) == life[s] # "new"

JoinReturns(s) ==
    \/ pc[s] = "exited"
    \/ clock - stop_at[s] >= JoinTimeout

\* (Wrong variant: the row is left to expire.)
ReleaseForgotten(s) == lock' = lock

\* LeaderLock.release: DELETE ... WHERE name = ? AND owner = ?
Release(s) == lock' = IF lock.owner = Owner[s] THEN NoLock ELSE lock

\* stop(), second half: the join ended or timed out; release the lock.
StopReturns(s) ==
    /\ life[s] = "stopping"
    /\ JoinReturns(s)
    /\ Release(s)
    /\ life' = [life EXCEPT ![s] = "stopped"]
    /\ stop_at' = [stop_at EXCEPT ![s] = 0]
    /\ UNCHANGED <<clock, pc, now, last_heartbeat>>

\* The process of owner o dies, or a run-once command exits: its objects are
\* gone, its row stays.  The pid, and so the owner string, may come back.
Crash(o) ==
    /\ clock <= CrashHorizon
    /\ \E s \in Supervisors : Owner[s] = o /\ life[s] # "new"
    /\ life' = [s \in Supervisors |-> IF Owner[s] = o THEN "new" ELSE life[s]]
    /\ pc' = [s \in Supervisors |-> IF Owner[s] = o THEN "none" ELSE pc[s]]
    /\ last_heartbeat' =
         [s \in Supervisors |-> IF Owner[s] = o THEN 0 ELSE last_heartbeat[s]]
    /\ now' = [s \in Supervisors |-> IF Owner[s] = o THEN 0 ELSE now[s]]
    /\ stop_at' = [s \in Supervisors |-> IF Owner[s] = o THEN 0 ELSE stop_at[s]]
    /\ UNCHANGED <<clock, lock>>

-----------------------------------------------------------------------------
(* The loop thread: run_forever, tick and _ensure_leader.                  *)

\* tick() returned or raised: the thread waits for the next interval, or ends.
LoopAgain(s) ==
    /\ pc' = [pc EXCEPT ![s] = IF Once THEN "exited" ELSE "wait"]
    /\ now' = [now EXCEPT ![s] = 0]

\* The stop event is set: run_forever returns.
LoopExit(s) ==
    /\ pc[s] = "wait"
    /\ life[s] # "started"
    /\ pc' = [pc EXCEPT ![s] = "exited"]
    /\ UNCHANGED <<clock, lock, life, now, last_heartbeat, stop_at>>

\* (Wrong variant: the heartbeat is trusted for the whole lease.)
FreshLease(s) == clock - last_heartbeat[s] < LeaseSeconds

\* _ensure_leader asks the database only once per heartbeat interval.
FreshHeartbeat(s) == clock - last_heartbeat[s] < HeartbeatSeconds

\* The loop test, the clock reading of tick and the fast path.
BeginTick(s) ==
    /\ pc[s] = "wait"
    /\ life[s] = "started"
    /\ now' = [now EXCEPT ![s] = clock]
    /\ pc' = [pc EXCEPT ![s] = IF FreshHeartbeat(s) THEN "collect"
                                                    ELSE "heartbeat"]
    /\ UNCHANGED <<clock, lock, life, last_heartbeat, stop_at>>

\* (Wrong variants: the lease runs backwards; the lease runs from the last
\* heartbeat.)
LeasedBackwards(s) == [owner |-> Owner[s], expires_at |-> now[s] - LeaseSeconds]

LeasedFromHeartbeat(s) ==
    [owner |-> Owner[s], expires_at |-> last_heartbeat[s] + LeaseSeconds]

\* The row an owner writes: the lease runs from the tick's clock reading.
Leased(s) == [owner |-> Owner[s], expires_at |-> now[s] + LeaseSeconds]

\* LeaderLock.heartbeat updated one row: its own, expired or not.
HeartbeatHits(s) ==
    /\ pc[s] = "heartbeat"
    /\ lock.owner = Owner[s]
    /\ lock' = Leased(s)
    /\ last_heartbeat' = [last_heartbeat EXCEPT ![s] = now[s]]
    /\ pc' = [pc EXCEPT ![s] = "collect"]
    /\ UNCHANGED <<clock, life, now, stop_at>>

\* LeaderLock.heartbeat updated no row: go on to acquire.
HeartbeatMisses(s) ==
    /\ pc[s] = "heartbeat"
    /\ lock.owner # Owner[s]
    /\ pc' = [pc EXCEPT ![s] = "acquire"]
    /\ UNCHANGED <<clock, lock, life, now, last_heartbeat, stop_at>>

\* (Wrong variants: the last heartbeat interval of a lease does not count; a
\* lease never ends.)
RefusesShortLease(s) ==
    /\ lock # NoLock
    /\ lock.owner # Owner[s]
    /\ lock.expires_at > now[s] + HeartbeatSeconds

RefusesForever(s) ==
    /\ lock # NoLock
    /\ lock.owner # Owner[s]

\* The row refuses an acquire: another owner's lease outlives the caller's
\* clock reading.
Refuses(s) ==
    /\ lock # NoLock
    /\ lock.owner # Owner[s]
    /\ lock.expires_at > now[s]

\* LeaderLock.acquire, one BEGIN IMMEDIATE transaction.
AcquireGranted(s) ==
    /\ pc[s] = "acquire"
    /\ ~Refuses(s)
    /\ lock' = Leased(s)
    /\ last_heartbeat' = [last_heartbeat EXCEPT ![s] = now[s]]
    /\ pc' = [pc EXCEPT ![s] = "collect"]
    /\ UNCHANGED <<clock, life, now, stop_at>>

AcquireRefused(s) ==
    /\ pc[s] = "acquire"
    /\ Refuses(s)
    /\ LoopAgain(s)
    /\ UNCHANGED <<clock, lock, life, last_heartbeat, stop_at>>

\* The leader's work is over, or it raised and run_forever logged it.
EndTick(s) ==
    /\ pc[s] = "collect"
    /\ LoopAgain(s)
    /\ UNCHANGED <<clock, lock, life, last_heartbeat, stop_at>>

\* A lock transaction raised (database is locked): the tick is abandoned.
LockError(s) ==
    /\ pc[s] \in {"heartbeat", "acquire"}
    /\ LoopAgain(s)
    /\ UNCHANGED <<clock, lock, life, last_heartbeat, stop_at>>

-----------------------------------------------------------------------------
\* Time passes while every running tick is within its bound.
Advance ==
    /\ clock < MaxClock
    /\ \A s \in Supervisors : InTick(s) => clock < now[s] + TickBound
    /\ clock' = clock + 1
    /\ UNCHANGED <<lock, life, pc, now, last_heartbeat, stop_at>>

Ensure(s) == HeartbeatHits(s) \/ HeartbeatMisses(s)
             \/ AcquireGranted(s) \/ AcquireRefused(s)

Loop(s) == LoopExit(s) \/ BeginTick(s) \/ Ensure(s) \/ EndTick(s)
           \/ LockError(s)

Lifecycle(s) == Register(s) \/ Unregister(s) \/ StopReturns(s)

Next ==
    \/ \E s \in Supervisors : Lifecycle(s) \/ Loop(s)
    \/ \E o \in Owners : Crash(o)
    \/ Advance

Spec == Init /\ [][Next]_vars

\* Threads are scheduled and time passes; a contended lock database is only
\* contended for a while, so a tick that keeps trying gets through.
Fairness ==
    /\ WF_vars(Advance)
    /\ \A s \in Supervisors :
         /\ WF_vars(LoopExit(s) \/ BeginTick(s) \/ EndTick(s))
         /\ WF_vars(Ensure(s))
         /\ SF_vars(HeartbeatHits(s) \/ HeartbeatMisses(s))
         /\ SF_vars(AcquireGranted(s) \/ AcquireRefused(s))
         /\ WF_vars(StopReturns(s))

FairSpec == Spec /\ Fairness

-----------------------------------------------------------------------------
(* What the lock is for.                                                   *)

\* The timing under which the lease protects: a tick that trusts a heartbeat
\* up to HeartbeatSeconds old is over before the lease, and before the thread
\* join of stop() times out.
Timely ==
    /\ HeartbeatSeconds + TickBound <= LeaseSeconds
    /\ TickBound < JoinTimeout

\* "Only one supervisor owner acts at a time" (README.md:43): collect() never
\* runs for two owners at once, although _ensure_leader skips the database
\* within the heartbeat interval.
MutualExclusion ==
    \A s, t \in Supervisors :
        Acting(s) /\ Acting(t) => Owner[s] = Owner[t]

\* The same for threads: neither do two supervisors of one process, one of
\* them left behind by an unregister/register cycle (stop() gives up joining
\* after its timeout).
OneActor ==
    \A s, t \in Supervisors : Acting(s) /\ Acting(t) => s = t

\* The cached heartbeat is never stale where it is used: whoever acts still
\* owns the row, and the lease has not run out under its feet.
ActorHoldsLease ==
    \A s \in Supervisors :
        Acting(s) => /\ lock.owner = Owner[s]
                     /\ lock.expires_at > clock

\* After stop() returned nothing of the process is left behind: no thread in
\* a tick, and no row that a late heartbeat or acquire wrote after release().
CleanStop ==
    \A s \in Supervisors :
        life[s] = "stopped" =>
            /\ ~InTick(s)
            /\ lock.owner = Owner[s] =>
                 \E t \in Process(s) : life[t] \in {"started", "stopping"}

\* A row changes hands only after its lease ran out by the real clock, even
\* though acquire compares it with the clock reading of the tick's start.
NoEarlyTakeover ==
    [][ (lock # NoLock /\ lock' # NoLock /\ lock'.owner # lock.owner)
          => lock.expires_at <= clock ]_vars

\* The lease of an owner only ever moves forward, across ticks, supervisors
\* of one process and pid reuse: a late write never shortens it.
LeaseMovesForward ==
    [][ (lock # NoLock /\ lock' # NoLock /\ lock'.owner = lock.owner)
          => lock'.expires_at >= lock.expires_at ]_vars

\* The supervisors at work, for the abstract specification.
Actors == {s \in Supervisors : Acting(s)}

Work == INSTANCE ExclusiveWork WITH Workers <- Supervisors, working <- Actors

\* The lock implements ExclusiveWork: a handover, by release, by expiry, by a
\* crash or inside one process, never overlaps two ticks.
TakesTurns == Work!Spec

Running(s) == life[s] = "started" /\ pc[s] # "exited"

\* A row whose owner has no supervisor any more.
Orphaned ==
    /\ lock # NoLock
    /\ \A s \in Supervisors : life[s] # "new" => Owner[s] # lock.owner

\* Fail-over: when the leader died with its row in place, a supervisor that
\* keeps running sees the row expire, and then it or another one acts.
Failover ==
    \A s \in Supervisors :
        (Orphaned /\ Running(s))
            ~> (~Running(s) \/ \E t \in Supervisors : Acting(t))

=============================================================================
