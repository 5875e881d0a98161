------------------------------ MODULE RunLease ------------------------------
(***************************************************************************)
(* SourceRunner.run under MongoLeaseLock, for one source and several       *)
(* worker replicas that fire it independently.                             *)
(*                                                                         *)
(* Time is discrete and relative: lease.left is how many ticks the lease   *)
(* document has until expires_at (zero or less: lapsed), timer[r] how many *)
(* ticks replica r has at most until its next step.  Every await, thread   *)
(* hop and timer of the event loop may be up to Lag ticks late, and a      *)
(* clock reading up to Lag ticks old when it reaches the database.         *)
(*                                                                         *)
(* The token of a lease is fresh in every run, and a replica runs the      *)
(* source at most once at a time, so the holder's name stands for it; the  *)
(* token of a run that died without releasing is Orphan.                   *)
(***************************************************************************)
EXTENDS Integers

CONSTANTS
    Replicas,      \* worker replicas
    Orphan,        \* holder of a lease whose run is dead
    MaxAttempts,   \* RetryPolicy.max_attempts
    Timeout,       \* ScheduleSpec.timeout_seconds
    MaxDelay,      \* the longest backoff delay
    Lag,           \* how late a step may be
    GcAfter        \* expireAfterSeconds of the TTL index

ASSUME LeaseAssumption ==
    /\ Orphan \notin Replicas
    /\ MaxAttempts \in Nat \ {0}
    /\ Timeout \in Nat
    /\ MaxDelay \in Nat
    /\ Lag \in Nat
    /\ GcAfter \in Nat \ {0}
    /\ Lag <= GcAfter

\* Steps are late by far less than a scrape may take.
ASSUME LagAssumption == 3 * Lag < Timeout

VARIABLES
    phase,     \* where the run of each replica is
    attempt,   \* its attempt, from 1; 0 before the first
    timer,     \* ticks it has until its next step
    lease      \* the document of scheduler_locks, or NoLease

vars == <<phase, attempt, timer, lease>>

Phases == {"idle", "acquired", "running", "failed", "backoff", "releasing"}

NoLease == [holder |-> Orphan, left |-> -GcAfter]

\* _total_budget_seconds, times the default lock_ttl_multiplier.
Budget == Timeout * MaxAttempts + MaxDelay * (MaxAttempts - 1)

LockTtl == 2 * Budget

Init ==
    /\ phase = [r \in Replicas |-> "idle"]
    /\ attempt = [r \in Replicas |-> 0]
    /\ timer = [r \in Replicas |-> 0]
    /\ lease = NoLease

Goto(r, p, ticks) ==
    /\ phase' = [phase EXCEPT ![r] = p]
    /\ timer' = [timer EXCEPT ![r] = ticks]

\* Mutant: a lease is taken over whether it lapsed or not.
AcquireAnyway(r) ==
    /\ phase[r] = "idle"
    /\ \E late \in 0 .. Lag : lease' = [holder |-> r, left |-> LockTtl - late]
    /\ attempt' = [attempt EXCEPT ![r] = 0]
    /\ Goto(r, "acquired", Lag)

\* acquire: no document, or one lapsed by the clock reading this replica took.
\* A collected document is one that lapsed GcAfter ticks ago.
Acquire(r) ==
    /\ phase[r] = "idle"
    /\ \E late \in 0 .. Lag :
          /\ lease.left + late <= 0
          /\ lease' = [holder |-> r, left |-> LockTtl - late]
    /\ attempt' = [attempt EXCEPT ![r] = 0]
    /\ Goto(r, "acquired", Lag)

\* Mutant: attempts are not counted.
AttemptUncounted(r) ==
    /\ attempt' = [attempt EXCEPT ![r] = 1]
    /\ Goto(r, "running", Timeout + Lag)
    /\ UNCHANGED lease

Attempt(r) ==
    /\ attempt' = [attempt EXCEPT ![r] = @ + 1]
    /\ Goto(r, "running", Timeout + Lag)
    /\ UNCHANGED lease

FirstAttempt(r) == phase[r] = "acquired" /\ Attempt(r)

\* The job returned: SUCCESS, or PARTIAL when the scraper reported errors.
Succeed(r) ==
    /\ phase[r] = "running"
    /\ Goto(r, "releasing", Lag)
    /\ UNCHANGED <<attempt, lease>>

\* The job raised, or ran into its timeout.
Fail(r) ==
    /\ phase[r] = "running"
    /\ Goto(r, IF attempt[r] < MaxAttempts THEN "failed" ELSE "releasing", Lag)
    /\ UNCHANGED <<attempt, lease>>

\* renew: only the token is compared, and its result is not looked at.
Renew(r) ==
    /\ phase[r] = "failed"
    /\ \E delay \in 0 .. MaxDelay, late \in 0 .. Lag :
          /\ lease' = IF lease.holder = r
                      THEN [lease EXCEPT !.left = delay + Timeout - late]
                      ELSE lease
          /\ Goto(r, "backoff", delay + Lag)
    /\ UNCHANGED attempt

Retry(r) ==
    /\ phase[r] = "backoff"
    /\ timer[r] <= Lag
    /\ Attempt(r)

\* Shutdown cancels the run wherever it awaits; the finally block releases.
Cancel(r) ==
    /\ phase[r] \in {"acquired", "running", "failed", "backoff"}
    /\ Goto(r, "releasing", Lag)
    /\ UNCHANGED <<attempt, lease>>

\* Mutant: the token is not compared.
ReleaseAnyones(r) ==
    /\ phase[r] = "releasing"
    /\ lease' = NoLease
    /\ attempt' = [attempt EXCEPT ![r] = 0]
    /\ Goto(r, "idle", 0)

\* release: delete the document if it still carries this run's token.
Release(r) ==
    /\ phase[r] = "releasing"
    /\ lease' = IF lease.holder = r THEN NoLease ELSE lease
    /\ attempt' = [attempt EXCEPT ![r] = 0]
    /\ Goto(r, "idle", 0)

\* The replica dies, or is cancelled while its acquire is still on its way to
\* the database: nobody will release.
Crash(r) ==
    /\ phase[r] # "idle"
    /\ lease' = IF lease.holder = r THEN [lease EXCEPT !.holder = Orphan] ELSE lease
    /\ attempt' = [attempt EXCEPT ![r] = 0]
    /\ Goto(r, "idle", 0)

\* Mutant: the stored expiry never compares as past.
TickWithoutLapse ==
    /\ \A r \in Replicas : phase[r] # "idle" => timer[r] > 0
    /\ timer' = [r \in Replicas |-> IF phase[r] # "idle" THEN timer[r] - 1 ELSE 0]
    /\ UNCHANGED <<phase, attempt, lease>>

\* Time passes unless some replica's step is due.  The TTL index deletes a
\* document GcAfter ticks after it lapsed.
Tick ==
    /\ \A r \in Replicas : phase[r] # "idle" => timer[r] > 0
    /\ timer' = [r \in Replicas |-> IF phase[r] # "idle" THEN timer[r] - 1 ELSE 0]
    /\ lease' = IF lease.left - 1 > -GcAfter
                THEN [lease EXCEPT !.left = @ - 1] ELSE NoLease
    /\ UNCHANGED <<phase, attempt>>

Step(r) ==
    \/ FirstAttempt(r)
    \/ Succeed(r)
    \/ Fail(r)
    \/ Renew(r)
    \/ Retry(r)
    \/ Release(r)

Next ==
    \/ Tick
    \/ \E r \in Replicas : Acquire(r) \/ Step(r) \/ Cancel(r) \/ Crash(r)

Spec == Init /\ [][Next]_vars

\* The clock runs, every scheduled loop fires again and again, and the event
\* loop of a live replica gets round to every step.
Fairness ==
    /\ WF_vars(Tick)
    /\ \A r \in Replicas : WF_vars(Acquire(r)) /\ WF_vars(Step(r))

FairSpec == Spec /\ Fairness
-----------------------------------------------------------------------------
\* Every variable holds what it may hold.
TypeOK ==
    /\ phase \in [Replicas -> Phases]
    /\ attempt \in [Replicas -> 0 .. MaxAttempts]
    /\ timer \in [Replicas -> Nat]
    /\ lease \in [holder : Replicas \union {Orphan}, left : Int]

\* Two replicas never scrape the source at the same time (locks.py:3-6).
MutualExclusion ==
    \A r, s \in Replicas :
        phase[r] = "running" /\ phase[s] = "running" => r = s

\* Two replicas are never both in the first attempt of a run: an overlap, if
\* there is one, involves a retry.
FirstAttemptsNeverOverlap ==
    \A r, s \in Replicas :
        /\ phase[r] = "running" /\ attempt[r] = 1
        /\ phase[s] = "running" /\ attempt[s] = 1
        => r = s

\* The lease a run took lasts until its first attempt is over, however late the
\* event loop and the database are (within Lag).
LeaseCoversFirstAttempt ==
    \A r \in Replicas :
        phase[r] = "acquired" \/ (phase[r] = "running" /\ attempt[r] = 1) =>
            lease.holder = r /\ lease.left > 0

\* A lease that has not lapsed changes hands in no way but by its own run
\* releasing it or dying: a stale token never frees or takes somebody else's.
LiveLeaseIsRespected ==
    [][lease.left > 0 /\ lease.holder \in Replicas /\ lease'.holder # lease.holder =>
           /\ phase[lease.holder] # "idle"
           /\ phase'[lease.holder] = "idle"]_vars

\* A crashed holder's lease lapses and a later run takes the source again, with
\* no manual cleanup.
SourceIsNeverStuck == (lease.holder = Orphan) ~> (lease.holder \in Replicas)

\* Every run of the retry sequence comes to an end.
EveryRunEnds == \A r \in Replicas : (phase[r] # "idle") ~> (phase[r] = "idle")

=============================================================================
