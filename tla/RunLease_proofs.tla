--------------------------- MODULE RunLease_proofs ---------------------------
(***************************************************************************)
(* Theorems about RunLease, for any set of replicas and any timings.       *)
(*                                                                         *)
(* The argument is about the slack between the lease and the replica's     *)
(* timer.  Time takes both down together, so what matters is that each     *)
(* step of the first attempt starts with slack to spare: the lease a run   *)
(* takes is twice its worst case, and a run is late at three points before *)
(* its first attempt is over.  A renewal after that attempt gives slack    *)
(* away, which is why nothing is claimed of retries.                       *)
(***************************************************************************)
EXTENDS RunLease, TLAPS

\* The lease of a run exceeds its first attempt by more than three lags.
LEMMA TtlSlack ==
    /\ LockTtl \in Nat
    /\ LockTtl - 3 * Lag - Timeout > 0
<1>1. MaxAttempts \in Nat /\ MaxAttempts >= 1
  BY LeaseAssumption
<1>2. Timeout * MaxAttempts \in Nat /\ Timeout * MaxAttempts >= Timeout
  BY <1>1, LeaseAssumption
<1>3. MaxDelay * (MaxAttempts - 1) \in Nat
  BY <1>1, LeaseAssumption
<1> DEFINE work == Timeout * MaxAttempts
           waits == MaxDelay * (MaxAttempts - 1)
<1>4. LockTtl = 2 * (work + waits)
  BY DEF LockTtl, Budget
<1> HIDE DEF work, waits
<1>5. work \in Nat /\ work >= Timeout /\ waits \in Nat
  BY <1>2, <1>3 DEF work, waits
<1> QED
  BY <1>4, <1>5, LeaseAssumption, LagAssumption

\* A run's attempt counter is in step with where the run is.
AttemptsCounted ==
    \A r \in Replicas :
        /\ phase[r] = "acquired" => attempt[r] = 0
        /\ phase[r] = "running" => attempt[r] >= 1
        /\ phase[r] \in {"failed", "backoff"} => attempt[r] >= 1 /\ attempt[r] < MaxAttempts

\* A lease is held by a run that is still under way, or by nobody.
HolderIsRunning ==
    lease.holder \in Replicas => phase[lease.holder] # "idle"

\* Until its first attempt is over a run holds the lease, with this slack.
FirstAttemptHasSlack ==
    \A r \in Replicas :
        /\ phase[r] = "acquired" =>
               lease.holder = r /\ lease.left - timer[r] >= LockTtl - 2 * Lag
        /\ phase[r] = "running" /\ attempt[r] = 1 =>
               lease.holder = r /\ lease.left - timer[r] >= LockTtl - 3 * Lag - Timeout

\* The inductive invariant: the slack of first attempts, and what it needs.
IInv == TypeOK /\ AttemptsCounted /\ HolderIsRunning /\ FirstAttemptHasSlack

\* The invariant holds while nobody has run yet and no lease document exists.
LEMMA InitIInv == Init => IInv
  BY LeaseAssumption DEF Init, IInv, TypeOK, Phases, NoLease, AttemptsCounted,
     HolderIsRunning, FirstAttemptHasSlack

\* Where the lease stands while a first attempt is on: ahead of the clock.
LEMMA Covered ==
    ASSUME IInv, NEW r \in Replicas,
           phase[r] = "acquired" \/ (phase[r] = "running" /\ attempt[r] = 1)
    PROVE  lease.holder = r /\ lease.left > timer[r] /\ lease.left > 0
  BY TtlSlack, LeaseAssumption DEF IInv, TypeOK, FirstAttemptHasSlack

\* A replica that acquires the lease has no first attempt beside its own: such an
\* attempt would still hold a live lease (MongoLeaseLock.acquire).
LEMMA AcquireIInv ==
    ASSUME IInv, NEW r \in Replicas, Acquire(r)
    PROVE  IInv'
<1> PICK late \in 0 .. Lag :
        lease.left + late <= 0 /\ lease' = [holder |-> r, left |-> LockTtl - late]
  BY DEF Acquire
<1>1. \A s \in Replicas :
          phase[s] # "acquired" /\ ~(phase[s] = "running" /\ attempt[s] = 1)
  BY Covered, LeaseAssumption DEF IInv, TypeOK
<1>2. TypeOK'
  BY TtlSlack, LeaseAssumption DEF Acquire, Goto, IInv, TypeOK, Phases
<1>3. AttemptsCounted'
  BY LeaseAssumption DEF Acquire, Goto, IInv, TypeOK, AttemptsCounted
<1>4. HolderIsRunning'
  BY DEF Acquire, Goto, IInv, TypeOK, HolderIsRunning
<1>5. FirstAttemptHasSlack'
  BY <1>1, TtlSlack, LeaseAssumption
     DEF Acquire, Goto, IInv, TypeOK, FirstAttemptHasSlack
<1> QED
  BY <1>2, <1>3, <1>4, <1>5 DEF IInv

\* The steps of a run, each with the conjuncts it can disturb.
LEMMA FirstAttemptIInv ==
    ASSUME IInv, NEW r \in Replicas, FirstAttempt(r)
    PROVE  IInv'
<1>1. TypeOK' /\ AttemptsCounted'
  BY LeaseAssumption DEF FirstAttempt, Attempt, Goto, IInv, TypeOK, Phases, AttemptsCounted
<1>2. HolderIsRunning'
  BY DEF FirstAttempt, Attempt, Goto, IInv, TypeOK, HolderIsRunning
<1>3. FirstAttemptHasSlack'
  BY TtlSlack, LeaseAssumption
     DEF FirstAttempt, Attempt, Goto, IInv, TypeOK, AttemptsCounted, FirstAttemptHasSlack
<1> QED
  BY <1>1, <1>2, <1>3 DEF IInv

\* A job that returns leaves the lease to the release.
LEMMA SucceedIInv ==
    ASSUME IInv, NEW r \in Replicas, Succeed(r)
    PROVE  IInv'
<1>1. TypeOK' /\ AttemptsCounted'
  BY LeaseAssumption DEF Succeed, Goto, IInv, TypeOK, Phases, AttemptsCounted
<1>2. HolderIsRunning' /\ FirstAttemptHasSlack'
  BY DEF Succeed, Goto, IInv, TypeOK, HolderIsRunning, FirstAttemptHasSlack
<1> QED
  BY <1>1, <1>2 DEF IInv

\* A failed attempt is followed by another one only below max_attempts.
LEMMA FailIInv ==
    ASSUME IInv, NEW r \in Replicas, Fail(r)
    PROVE  IInv'
<1>1. TypeOK' /\ AttemptsCounted'
  BY LeaseAssumption DEF Fail, Goto, IInv, TypeOK, Phases, AttemptsCounted
<1>2. HolderIsRunning' /\ FirstAttemptHasSlack'
  BY DEF Fail, Goto, IInv, TypeOK, HolderIsRunning, FirstAttemptHasSlack
<1> QED
  BY <1>1, <1>2 DEF IInv

\* A renewal touches the lease of its own run only, so no first attempt's.
LEMMA RenewIInv ==
    ASSUME IInv, NEW r \in Replicas, Renew(r)
    PROVE  IInv'
<1> PICK delay \in 0 .. MaxDelay, late \in 0 .. Lag :
        /\ lease' = IF lease.holder = r
                    THEN [lease EXCEPT !.left = delay + Timeout - late]
                    ELSE lease
        /\ Goto(r, "backoff", delay + Lag)
  BY DEF Renew
<1>1. TypeOK'
  BY LeaseAssumption DEF Renew, Goto, IInv, TypeOK, Phases
<1>2. AttemptsCounted'
  BY LeaseAssumption DEF Renew, Goto, IInv, TypeOK, AttemptsCounted
<1>3. HolderIsRunning'
  BY DEF Renew, Goto, IInv, TypeOK, HolderIsRunning
<1>4. FirstAttemptHasSlack'
  BY DEF Renew, Goto, IInv, TypeOK, FirstAttemptHasSlack
<1> QED
  BY <1>1, <1>2, <1>3, <1>4 DEF IInv

\* A retry starts an attempt that is not the first, so nothing is claimed of it.
LEMMA RetryIInv ==
    ASSUME IInv, NEW r \in Replicas, Retry(r)
    PROVE  IInv'
<1>1. TypeOK' /\ AttemptsCounted'
  BY LeaseAssumption DEF Retry, Attempt, Goto, IInv, TypeOK, Phases, AttemptsCounted
<1>2. HolderIsRunning'
  BY DEF Retry, Attempt, Goto, IInv, TypeOK, HolderIsRunning
<1>3. FirstAttemptHasSlack'
  BY LeaseAssumption
     DEF Retry, Attempt, Goto, IInv, TypeOK, AttemptsCounted, FirstAttemptHasSlack
<1> QED
  BY <1>1, <1>2, <1>3 DEF IInv

\* A cancelled run goes to its finally block and keeps the lease until then.
LEMMA CancelIInv ==
    ASSUME IInv, NEW r \in Replicas, Cancel(r)
    PROVE  IInv'
<1>1. TypeOK' /\ AttemptsCounted'
  BY LeaseAssumption DEF Cancel, Goto, IInv, TypeOK, Phases, AttemptsCounted
<1>2. HolderIsRunning' /\ FirstAttemptHasSlack'
  BY DEF Cancel, Goto, IInv, TypeOK, HolderIsRunning, FirstAttemptHasSlack
<1> QED
  BY <1>1, <1>2 DEF IInv

\* Releasing deletes the document only if it carries this run's token.
LEMMA ReleaseIInv ==
    ASSUME IInv, NEW r \in Replicas, Release(r)
    PROVE  IInv'
<1>1. TypeOK' /\ AttemptsCounted'
  BY LeaseAssumption DEF Release, Goto, NoLease, IInv, TypeOK, Phases, AttemptsCounted
<1>2. HolderIsRunning'
  BY LeaseAssumption DEF Release, Goto, NoLease, IInv, TypeOK, HolderIsRunning
<1>3. FirstAttemptHasSlack'
  BY DEF Release, Goto, NoLease, IInv, TypeOK, FirstAttemptHasSlack
<1> QED
  BY <1>1, <1>2, <1>3 DEF IInv

\* A run that dies leaves its lease to nobody, and no other run's lease changes.
LEMMA CrashIInv ==
    ASSUME IInv, NEW r \in Replicas, Crash(r)
    PROVE  IInv'
<1>1. TypeOK' /\ AttemptsCounted'
  BY LeaseAssumption DEF Crash, Goto, IInv, TypeOK, Phases, AttemptsCounted
<1>2. HolderIsRunning'
  BY LeaseAssumption DEF Crash, Goto, IInv, TypeOK, HolderIsRunning
<1>3. FirstAttemptHasSlack'
  BY DEF Crash, Goto, IInv, TypeOK, FirstAttemptHasSlack
<1> QED
  BY <1>1, <1>2, <1>3 DEF IInv

\* Time takes the lease and the timers down together.
LEMMA TickIInv ==
    ASSUME IInv, Tick
    PROVE  IInv'
<1>1. TypeOK'
  BY LeaseAssumption DEF Tick, NoLease, IInv, TypeOK
<1>2. AttemptsCounted'
  BY DEF Tick, IInv, AttemptsCounted
<1>3. HolderIsRunning'
  BY LeaseAssumption DEF Tick, NoLease, IInv, TypeOK, HolderIsRunning
<1>4. ASSUME NEW r \in Replicas,
             phase[r] = "acquired" \/ (phase[r] = "running" /\ attempt[r] = 1)
      PROVE  /\ lease'.holder = lease.holder
             /\ lease'.left - timer'[r] = lease.left - timer[r]
  <2>1. timer[r] > 0 /\ timer'[r] = timer[r] - 1
    BY <1>4 DEF Tick
  <2>2. lease.left > timer[r]
    BY <1>4, Covered
  <2>3. lease.left - 1 > -GcAfter
    BY <2>1, <2>2, LeaseAssumption DEF IInv, TypeOK
  <2>4. lease' = [lease EXCEPT !.left = @ - 1]
    BY <2>3 DEF Tick
  <2> QED
    BY <2>1, <2>4 DEF IInv, TypeOK
<1>5. FirstAttemptHasSlack'
  BY <1>4 DEF Tick, IInv, FirstAttemptHasSlack
<1> QED
  BY <1>1, <1>2, <1>3, <1>5 DEF IInv

\* Every step of the runners and of the clock preserves the invariant.
LEMMA NextIInv == IInv /\ [Next]_vars => IInv'
<1> SUFFICES ASSUME IInv, [Next]_vars PROVE IInv'
  OBVIOUS
<1>1. CASE Tick
  BY <1>1, TickIInv
<1>2. ASSUME NEW r \in Replicas, Acquire(r) \/ Step(r) \/ Cancel(r) \/ Crash(r)
      PROVE  IInv'
  BY <1>2, AcquireIInv, FirstAttemptIInv, SucceedIInv, FailIInv, RenewIInv,
     RetryIInv, ReleaseIInv, CancelIInv, CrashIInv DEF Step
<1>3. CASE UNCHANGED vars
  BY <1>3 DEF vars, IInv, TypeOK, AttemptsCounted, HolderIsRunning, FirstAttemptHasSlack
<1> QED
  BY <1>1, <1>2, <1>3 DEF Next

\* The invariant holds in every state the runners and the lock can reach.
THEOREM Inductive == Spec => []IInv
<1> QED
  BY InitIInv, NextIInv, PTL DEF Spec

-----------------------------------------------------------------------------
\* The variables of the runners and of the lock document keep their types.
THEOREM TypeCorrect == Spec => []TypeOK
<1>1. IInv => TypeOK
  BY DEF IInv
<1> QED
  BY <1>1, Inductive, PTL

\* The lease a run took covers its first attempt, however many retries follow.
THEOREM FirstAttemptCovered == Spec => []LeaseCoversFirstAttempt
<1>1. IInv => LeaseCoversFirstAttempt
  BY Covered DEF LeaseCoversFirstAttempt
<1> QED
  BY <1>1, Inductive, PTL

\* Two replicas are never both in the first attempt of a run.
THEOREM FirstAttemptsExclusive == Spec => []FirstAttemptsNeverOverlap
<1>1. IInv => FirstAttemptsNeverOverlap
  BY Covered DEF FirstAttemptsNeverOverlap
<1> QED
  BY <1>1, Inductive, PTL

\* Without retries the lock does what it is for: one replica scrapes at a time.
THEOREM SingleAttemptsExclude == ASSUME MaxAttempts = 1 PROVE Spec => []MutualExclusion
<1>1. IInv => MutualExclusion
  <2> SUFFICES ASSUME IInv, NEW r \in Replicas, NEW s \in Replicas,
                      phase[r] = "running", phase[s] = "running"
               PROVE  r = s
    BY DEF MutualExclusion
  <2>1. attempt[r] = 1 /\ attempt[s] = 1
    BY MaxAttempts = 1 DEF IInv, TypeOK, AttemptsCounted
  <2> QED
    BY <2>1, Covered
<1> QED
  BY <1>1, Inductive, PTL

\* A live lease changes hands only when its own run releases it or dies.
THEOREM LiveLeaseRespected == Spec => LiveLeaseIsRespected
<1>1. ASSUME IInv, [Next]_vars, lease.left > 0, lease.holder \in Replicas,
             lease'.holder # lease.holder
      PROVE  phase[lease.holder] # "idle" /\ phase'[lease.holder] = "idle"
  <2>1. phase[lease.holder] # "idle"
    BY <1>1 DEF IInv, HolderIsRunning
  <2>2. CASE Tick
    BY <1>1, <2>2, LeaseAssumption DEF Tick, NoLease, IInv, TypeOK
  <2>3. ASSUME NEW r \in Replicas, Acquire(r) \/ Step(r) \/ Cancel(r) \/ Crash(r)
        PROVE  phase'[lease.holder] = "idle"
    <3>1. ~Acquire(r)
      BY <1>1, LeaseAssumption DEF Acquire, IInv, TypeOK
    <3>2. ~(FirstAttempt(r) \/ Succeed(r) \/ Fail(r) \/ Retry(r) \/ Cancel(r))
      BY <1>1 DEF FirstAttempt, Retry, Attempt, Succeed, Fail, Cancel
    <3>3. ~Renew(r)
      BY <1>1 DEF Renew, IInv, TypeOK
    <3>4. CASE Release(r)
      BY <1>1, <3>4 DEF Release, Goto, NoLease, IInv, TypeOK
    <3>5. CASE Crash(r)
      BY <1>1, <3>5 DEF Crash, Goto, IInv, TypeOK
    <3> QED
      BY <2>3, <3>1, <3>2, <3>3, <3>4, <3>5 DEF Step
  <2>4. ~UNCHANGED vars
    BY <1>1 DEF vars
  <2> QED
    BY <1>1, <2>1, <2>2, <2>3, <2>4 DEF Next
<1>2. IInv /\ [Next]_vars =>
        [lease.left > 0 /\ lease.holder \in Replicas /\ lease'.holder # lease.holder =>
           /\ phase[lease.holder] # "idle"
           /\ phase'[lease.holder] = "idle"]_vars
  BY <1>1
<1> QED
  BY <1>2, Inductive, PTL DEF Spec, LiveLeaseIsRespected
=============================================================================
