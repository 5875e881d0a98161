------------------------------ MODULE Scheduler ------------------------------
(***************************************************************************)
(* The scraper worker: one asyncio loop per source, the semaphore they     *)
(* share, the runner each fire goes through, and the shutdown that drains  *)
(* and then cancels them.                                                  *)
(*                                                                         *)
(* Lease, journal and pipeline are called with asyncio.to_thread.  A       *)
(* coroutine may be cancelled while it awaits such a call; the thread goes *)
(* on and does what it was asked to.  So every call is a member of         *)
(* "threads" until it returns, whoever still waits for it.                 *)
(***************************************************************************)
EXTENDS Naturals, FiniteSets, Sequences, SequencesExt, Cron

CONSTANTS
  Sources,         \* the registered sources
  Schedules,       \* the schedules whose firing times are compared, and at which moments
  Moments,
  Starts,          \* the configurations and journals a worker may be started with
  MaxConcurrency,  \* DEALS_MAX_CONCURRENCY
  MaxAttempts,     \* RetryPolicy.max_attempts
  MaxRuns,         \* bound: the runs of a source
  MaxFaults        \* bound: the calls that raise

ASSUME SchedulerAssumption ==
  /\ {MaxConcurrency, MaxAttempts, MaxRuns} \subseteq Nat \ {0}
  /\ MaxFaults \in Nat
  /\ IsFiniteSet(Sources)

ASSUME ScheduleAssumption == Moments \subseteq Nat /\ \A spec \in Schedules : WellFormed(spec)

VARIABLES
  config,     \* per source, its entry in schedules.json and its environment variable
  journal,    \* which journal the worker writes: "mongo" or "json"
  phase,      \* of the process: "serving", "cancelling", "stopped", "exited", "failed"
  shutdown,   \* the event a signal sets
  loop,       \* where every source's loop is
  trigger,    \* what its present fire was triggered by
  free,       \* the semaphore's value
  queue,      \* the loops waiting for it, first come first
  run,        \* the runner of every source: its run, the step it awaits, attempt, status
  cancelled,  \* the step every loop was cancelled at, or "none"
  threads,    \* the calls under way
  leases,     \* the runs whose lease is stored
  rows,       \* the journal's rows
  faults      \* how many calls have raised

vars == <<config, journal, phase, shutdown, loop, trigger, free, queue, run, cancelled,
          threads, leases, rows, faults>>
fixed == <<config, journal>>

-----------------------------------------------------------------------------
(* load_schedules: an entry that cannot be read is as if there were none,  *)
(* and a source with none runs on the default; "off" in the environment    *)
(* disables, any other value replaces only the time.                       *)

Entries == {"absent", "invalid", "listed", "startup", "disabled", "neverFires"}
Overrides == {"unset", "off", "time", "garbage"}

Enabled(c) == c.entry # "disabled" /\ c.env # "off"
OnStart(c) == c.entry = "startup" /\ c.env # "off"
NeverFires(c) == c.entry = "neverFires" /\ c.env # "time"

\* A value that is neither an interval nor a cron makes ScheduleSpec raise, and the
\* worker does not start; nor does it with no source enabled.
Startable(cfg) ==
  /\ \A s \in Sources : cfg[s].env # "garbage"
  /\ \E s \in Sources : Enabled(cfg[s])

-----------------------------------------------------------------------------
(* The runner: what each step awaits, and what comes after it.             *)

Idle == [n |-> 0, at |-> "over", attempt |-> 0, status |-> "none"]

\* The call a runner awaits, if its step is one: acquire, renew and release go to the
\* lock, opening, closing and skipping write a row, working is the job.
Op == [acquiring |-> "acquire", opening |-> "record", working |-> "work",
       closing |-> "record", renewing |-> "renew", releasing |-> "release",
       skipping |-> "record"]

CallOf(s, r) ==
  IF r.at \in DOMAIN Op
  THEN {[op |-> Op[r.at], s |-> s, n |-> r.n, attempt |-> r.attempt,
         status |-> r.status, seen |-> {}]}
  ELSE {}

Awaited(t) == [t EXCEPT !.seen = {}] \in CallOf(t.s, run[t.s])

To(r, at, status) == [r EXCEPT !.at = at, !.status = status]

Open(r) == [To(r, "opening", "RUNNING") EXCEPT !.attempt = @ + 1]

\* SourceRunner.run and _run_with_retries: the step after the awaited one answered.
\* A renewal that raises leaves the retries altogether; the journal's faults are
\* swallowed where they happen.
After(s, r, result) ==
  CASE r.at = "acquiring" -> IF result = "ok" THEN Open(r)
                             ELSE IF result = "held" THEN To(r, "skipping", "SKIPPED")
                             ELSE To(r, "over", "none")
    [] r.at = "opening" -> To(r, "working", "RUNNING")
    [] r.at = "working" -> To(r, "closing", CASE result = "ok" -> "SUCCESS"
                                              [] result = "partial" -> "PARTIAL"
                                              [] OTHER -> "FAILED")
    [] r.at = "closing" -> IF \/ r.status # "FAILED" \/ r.attempt = MaxAttempts
                              \/ cancelled[s] # "none"
                           THEN To(r, "releasing", r.status)
                           ELSE To(r, "renewing", r.status)
    [] r.at = "renewing" -> IF result = "ok" THEN To(r, "backoff", r.status)
                            ELSE To(r, "releasing", r.status)
    [] OTHER -> To(r, "over", r.status)

\* OnCancel as if only the job were inside the try.
OnCancelForgets(r) ==
  CASE r.at = "working" -> To(r, "closing", "FAILED")
    [] OTHER -> To(r, "over", r.status)

\* What a cancellation does to the runner: the job's attempt is journaled as failed,
\* and whoever holds the token goes on to give it back.
OnCancel(r) ==
  CASE r.at = "working" -> To(r, "closing", "FAILED")
    [] r.at \in {"opening", "closing", "renewing", "backoff"} -> To(r, "releasing", r.status)
    [] OTHER -> To(r, "over", r.status)

-----------------------------------------------------------------------------
(* The loops.                                                              *)

Holding == {"granted", "firing"}
\* Ended as if a cancelled task were still to finish.
EndedByItself == {"ended", "crashed"}

Ended == {"ended", "crashed", "cancelled"}

\* _source_loop at the head of its while: next_fire_at raises for a cron that never
\* fires, and the exception ends the task.
Rest(s, c) ==
  IF c # "none" THEN "cancelled"
  ELSE IF shutdown THEN "ended"
  ELSE IF NeverFires(config[s]) THEN "crashed"
  ELSE "asleep"

\* Release as if nobody were woken.
ReleaseQuietly(resting) == free' = free + 1 /\ queue' = queue /\ loop' = resting

\* asyncio.Semaphore.release: the first in the queue is handed the slot.
Release(resting) ==
  IF queue = <<>>
  THEN free' = free + 1 /\ queue' = queue /\ loop' = resting
  ELSE /\ free' = free
       /\ queue' = Tail(queue)
       /\ loop' = [resting EXCEPT ![Head(queue)] = "granted"]

\* _fire with the slot: a scheduled fire gives up when the worker is shutting down,
\* any other starts a run, which first asks for the lease.
Enter(s, why) ==
  IF shutdown /\ why = "schedule"
  THEN /\ Release([loop EXCEPT ![s] = Rest(s, "none")])
       /\ UNCHANGED <<run, threads>>
  ELSE LET r == [Idle EXCEPT !.n = run[s].n + 1, !.at = "acquiring"] IN
       /\ loop' = [loop EXCEPT ![s] = "firing"]
       /\ run' = [run EXCEPT ![s] = r]
       /\ threads' = threads \union CallOf(s, r)
       /\ UNCHANGED queue

\* _fire: a free slot is taken at once unless others wait for one.
Fire(s, why) ==
  /\ trigger' = [trigger EXCEPT ![s] = why]
  /\ IF free > 0 /\ queue = <<>>
     THEN IF shutdown /\ why = "schedule"
          THEN /\ loop' = [loop EXCEPT ![s] = Rest(s, "none")]
               /\ UNCHANGED <<run, threads, queue, free>>
          ELSE Enter(s, why) /\ free' = free - 1
     ELSE /\ loop' = [loop EXCEPT ![s] = "queued"]
          /\ queue' = Append(queue, s)
          /\ UNCHANGED <<run, threads, free>>

\* The task's first step: a run on start, or the head of the while.
StartLoop(s) ==
  /\ loop[s] = "new"
  /\ IF OnStart(config[s])
     THEN Fire(s, "startup")
     ELSE /\ loop' = [loop EXCEPT ![s] = Rest(s, "none")]
          /\ UNCHANGED <<trigger, free, queue, run, threads>>
  /\ UNCHANGED <<fixed, phase, shutdown, cancelled, leases, rows, faults>>

\* _sleep_or_shutdown: the timer is due.
TimerDue(s) ==
  /\ loop[s] = "asleep"
  /\ run[s].n < MaxRuns
  /\ Fire(s, "schedule")
  /\ UNCHANGED <<fixed, phase, shutdown, cancelled, leases, rows, faults>>

\* _sleep_or_shutdown: shutdown won the race.
WokenByShutdown(s) ==
  /\ loop[s] = "asleep"
  /\ shutdown
  /\ loop' = [loop EXCEPT ![s] = "ended"]
  /\ UNCHANGED <<fixed, phase, shutdown, trigger, free, queue, run, cancelled, threads,
                 leases, rows, faults>>

\* A loop that was handed the slot runs again.
Granted(s) ==
  /\ loop[s] = "granted"
  /\ Enter(s, trigger[s])
  /\ IF loop'[s] = "firing" THEN free' = free ELSE TRUE
  /\ UNCHANGED <<fixed, phase, shutdown, trigger, cancelled, leases, rows, faults>>

\* The backoff is over: the next attempt.
BackoffOver(s) ==
  /\ run[s].at = "backoff"
  /\ run' = [run EXCEPT ![s] = Open(@)]
  /\ threads' = threads \union CallOf(s, run'[s])
  /\ UNCHANGED <<fixed, phase, shutdown, loop, trigger, free, queue, cancelled, leases,
                 rows, faults>>

-----------------------------------------------------------------------------
(* The calls.                                                              *)

\* A thread has returned: whoever awaits it goes on, and a fire that is over gives
\* its slot back.
Continue(t, result) ==
  LET s == t.s
      r == After(s, run[s], result)
  IN IF ~Awaited(t)
     THEN /\ threads' = threads \ {t}
          /\ UNCHANGED <<loop, free, queue, run>>
     ELSE /\ run' = [run EXCEPT ![s] = r]
          /\ threads' = (threads \ {t}) \union CallOf(s, r)
          /\ IF r.at = "over"
             THEN Release([loop EXCEPT ![s] = Rest(s, cancelled[s])])
             ELSE UNCHANGED <<loop, free, queue>>

CallStutters == UNCHANGED <<fixed, phase, shutdown, trigger, cancelled>>

\* RunLock.acquire: the token, or none while another worker's lease stands.  A worker
\* without a database keeps its journal in a file and has no lease to store or to find.
Acquire(t) ==
  /\ t.op = "acquire"
  /\ \/ /\ leases' = leases \union IF journal = "mongo" THEN {[s |-> t.s, n |-> t.n]} ELSE {}
        /\ Continue(t, "ok")
     \/ journal = "mongo" /\ leases' = leases /\ Continue(t, "held")
  /\ UNCHANGED <<rows, faults>>
  /\ CallStutters

Renew(t) ==
  /\ t.op = "renew"
  /\ Continue(t, "ok")
  /\ UNCHANGED <<leases, rows, faults>>
  /\ CallStutters

ReleaseLease(t) ==
  /\ t.op = "release"
  /\ leases' = leases \ {[s |-> t.s, n |-> t.n]}
  /\ Continue(t, "ok")
  /\ UNCHANGED <<rows, faults>>
  /\ CallStutters

\* The pipeline ran the source, or ran it with a failed scrape.
Work(t) ==
  /\ t.op = "work"
  /\ \E result \in {"ok", "partial"} : Continue(t, result)
  /\ UNCHANGED <<leases, rows, faults>>
  /\ CallStutters

Key(row) == <<row.s, row.n, row.attempt>>
RowOf(t) == [s |-> t.s, n |-> t.n, attempt |-> t.attempt, status |-> t.status]
Upsert(all, row) == {other \in all : Key(other) # Key(row)} \union {row}

\* MongoRunJournal.record is one upsert.
RecordInMongo(t) ==
  /\ t.op = "record" /\ journal = "mongo"
  /\ rows' = Upsert(rows, RowOf(t))
  /\ Continue(t, "ok")
  /\ UNCHANGED <<leases, faults>>
  /\ CallStutters

\* JsonRunJournal.record reads the file, and then writes what it read with its row.
ReadJson(t) ==
  /\ t.op = "record" /\ journal = "json" /\ t.seen = {}
  /\ threads' = (threads \ {t}) \union {[t EXCEPT !.seen = {rows}]}
  /\ UNCHANGED <<loop, free, queue, run, leases, rows, faults>>
  /\ CallStutters

WriteJson(t) ==
  /\ t.op = "record" /\ journal = "json" /\ t.seen # {}
  /\ \E read \in t.seen : rows' = Upsert(read, RowOf(t))
  /\ Continue(t, "ok")
  /\ UNCHANGED <<leases, faults>>
  /\ CallStutters

\* Any of them may raise instead.
Raise(t) ==
  /\ faults < MaxFaults
  /\ faults' = faults + 1
  /\ Continue(t, "raised")
  /\ UNCHANGED <<leases, rows>>
  /\ CallStutters

Returns(t) ==
  Acquire(t) \/ Renew(t) \/ ReleaseLease(t) \/ Work(t)
    \/ RecordInMongo(t) \/ ReadJson(t) \/ WriteJson(t)

\* asyncio.wait_for gives up on the job, whose thread goes on.
JobTimesOut(s) ==
  /\ run[s].at = "working"
  /\ faults < MaxFaults
  /\ faults' = faults + 1
  /\ run' = [run EXCEPT ![s] = After(s, @, "timeout")]
  /\ threads' = threads \union CallOf(s, run'[s])
  /\ UNCHANGED <<fixed, phase, shutdown, loop, trigger, free, queue, cancelled, leases, rows>>

-----------------------------------------------------------------------------
(* The process.                                                            *)

RequestShutdown ==
  /\ phase = "serving"
  /\ ~shutdown
  /\ shutdown' = TRUE
  /\ UNCHANGED <<fixed, phase, loop, trigger, free, queue, run, cancelled, threads, leases,
                 rows, faults>>

Pending == {s \in Sources : loop[s] \notin Ended}

\* _drain when the grace time is over: every task left is cancelled where it awaits.
CancelPending ==
  LET r == [s \in Sources |-> IF s \in Pending THEN OnCancel(run[s]) ELSE run[s]]
      busy == {s \in Pending : loop[s] = "firing" /\ r[s].at # "over"}
  IN
  /\ phase = "serving" /\ shutdown /\ Pending # {}
  /\ phase' = "cancelling"
  /\ run' = r
  /\ cancelled' = [s \in Sources |-> IF s \in Pending THEN run[s].at ELSE "none"]
  /\ threads' = threads \union UNION {CallOf(s, r[s]) : s \in busy}
  /\ loop' = [s \in Sources |-> IF s \in Pending \ busy THEN "cancelled" ELSE loop[s]]
  /\ queue' = <<>>
  /\ free' = free + Cardinality({s \in Pending \ busy : loop[s] \in Holding})
  /\ UNCHANGED <<fixed, shutdown, trigger, leases, rows, faults>>

\* start() returns once every task is done.
Stop ==
  /\ phase \in {"serving", "cancelling"} /\ shutdown /\ Pending = {}
  /\ phase' = "stopped"
  /\ UNCHANGED <<fixed, shutdown, loop, trigger, free, queue, run, cancelled, threads,
                 leases, rows, faults>>

\* asyncio.run joins the threads of the executor before the process exits.
Exit ==
  /\ phase = "stopped" /\ threads = {}
  /\ phase' = "exited"
  /\ UNCHANGED <<fixed, shutdown, loop, trigger, free, queue, run, cancelled, threads,
                 leases, rows, faults>>

-----------------------------------------------------------------------------
Init ==
  /\ \E start \in Starts : config = start.config /\ journal = start.journal
  /\ phase = IF Startable(config) THEN "serving" ELSE "failed"
  /\ shutdown = FALSE
  /\ loop = [s \in Sources |-> IF phase = "serving" /\ Enabled(config[s])
                               THEN "new" ELSE "ended"]
  /\ trigger = [s \in Sources |-> "schedule"]
  /\ free = MaxConcurrency
  /\ queue = <<>>
  /\ run = [s \in Sources |-> Idle]
  /\ cancelled = [s \in Sources |-> "none"]
  /\ threads = {} /\ leases = {} /\ rows = {}
  /\ faults = 0

LoopStep(s) == StartLoop(s) \/ WokenByShutdown(s) \/ Granted(s) \/ BackoffOver(s)

Next ==
  \/ \E s \in Sources : LoopStep(s) \/ TimerDue(s) \/ JobTimesOut(s)
  \/ \E t \in threads : Returns(t) \/ Raise(t)
  \/ RequestShutdown \/ CancelPending \/ Stop \/ Exit

Ops == {"acquire", "record", "work", "renew", "release"}

\* The event loop runs what is ready, timers go off, calls return (their drivers have
\* timeouts of their own); nothing makes a signal come, a call raise or a job time out.
Fairness ==
  /\ \A s \in Sources : WF_vars(LoopStep(s)) /\ WF_vars(TimerDue(s))
  /\ \A s \in Sources, op \in Ops :
       WF_vars(\E t \in threads : t.s = s /\ t.op = op /\ Returns(t))
  /\ WF_vars(CancelPending) /\ WF_vars(Stop) /\ WF_vars(Exit)

Spec == Init /\ [][Next]_vars /\ Fairness

-----------------------------------------------------------------------------
(* Properties.                                                             *)

SchedulesFireNext == FiresNextAndLater(Schedules, Moments)

\* A worker that serves computes, for every schedule and moment, the next moment the
\* schedule names: never the one it leaves, and none is passed over.
NextFireIsTheNextSlot == phase = "serving" => SchedulesFireNext

\* Every slot of the semaphore is free or held by one loop, and none is free while a
\* loop waits: a cancellation or a fire that gives up loses no slot and no wakeup.
SlotsAreAccountedFor ==
  /\ free + Cardinality({s \in Sources : loop[s] \in Holding}) = MaxConcurrency
  /\ free > 0 => queue = <<>>

\* A worker that was shut down with no call failing leaves the lease of a run only if
\* it was cancelled while asking for it, and the journal shows an attempt as running
\* only if it was cancelled while that very row was being written.
NothingIsLeftBehind ==
  phase = "exited" /\ faults = 0 =>
    /\ \A l \in leases : cancelled[l.s] = "acquiring" /\ l.n = run[l.s].n
    /\ journal = "mongo" =>
         \A row \in rows : row.status = "RUNNING" =>
           cancelled[row.s] = "opening" /\ row.n = run[row.s].n

\* What a fire takes it gives back, whatever ends it: slots, leases and journal rows.
NothingIsLeaked == SlotsAreAccountedFor /\ NothingIsLeftBehind

\* The header of runner.py says the lease is released "always, including on
\* cancellation".
LeasesAreAlwaysReleased == phase = "exited" /\ faults = 0 => leases = {}

\* A worker that is asked to stop exits, whatever its sources are doing.
ShutdownEnds == shutdown ~> phase = "exited"

\* A fire that waits for a slot is let in, or the worker is shut down.
FiresAreServed ==
  \A s \in Sources : loop[s] = "queued" ~> (loop[s] # "queued" \/ shutdown)

\* A loop whose cron never fires crashes, and nothing restarts it though a comment in
\* _source_loop relies on a supervisor.
CrashedLoopsComeBack == \A s \in Sources : loop[s] = "crashed" ~> loop[s] # "crashed"
=============================================================================
