--------------------------- MODULE Scheduler_proofs ---------------------------
(***************************************************************************)
(* The worker's semaphore, leases and journal, for any number of sources,  *)
(* slots and attempts: a fire that gives up, fails or is cancelled hands   *)
(* its slot on or back, and a run that is over has left no lease and no    *)
(* journal row that says RUNNING, but by a cancellation.  And for any      *)
(* calendar, cron and moment, the next firing is the first that matches.   *)
(***************************************************************************)
EXTENDS Scheduler, FiniteSetTheorems, WellFoundedInduction, TLAPS

Places == {"new", "asleep", "queued", "granted", "firing", "ended", "crashed", "cancelled"}

Steps == {"acquiring", "opening", "working", "closing", "renewing", "backoff", "releasing",
          "skipping", "over"}

Statuses == {"none", "RUNNING", "SUCCESS", "PARTIAL", "FAILED", "SKIPPED"}

Runs == [n : Nat, at : Steps, attempt : Nat, status : Statuses]

Holders == {s \in Sources : loop[s] \in Holding}

\* The queue holds the loops that wait, each once.
QueueOK ==
  /\ queue \in Seq(Sources)
  /\ \A i, j \in 1 .. Len(queue) : queue[i] = queue[j] => i = j
  /\ \A s \in Sources : loop[s] = "queued" <=> \E i \in 1 .. Len(queue) : queue[i] = s

Counted ==
  /\ loop \in [Sources -> Places]
  /\ free \in Nat
  /\ QueueOK
  /\ SlotsAreAccountedFor

CallShape(t) ==
  /\ t.s \in Sources
  /\ t = [op |-> t.op, s |-> t.s, n |-> t.n, attempt |-> t.attempt, status |-> t.status,
          seen |-> t.seen]

\* A loop is in a fire exactly while its runner is in a run.
Running ==
  /\ run \in [Sources -> Runs]
  /\ \A s \in Sources : loop[s] = "firing" <=> run[s].at # "over"
  /\ \A t \in threads : CallShape(t)

SlotInv == Counted /\ Running

-----------------------------------------------------------------------------
(* Holders of slots.                                                       *)

\* The holders of slots are finitely many, as the sources are.
LEMMA HoldersFinite == IsFiniteSet(Holders) /\ Cardinality(Holders) \in Nat
<1>1. Holders \in SUBSET Sources
  BY DEF Holders
<1> QED
  BY <1>1, SchedulerAssumption, FS_Subset, FS_CardinalityType

\* A loop that neither holds a slot nor waits, and goes on to neither, changes
\* nothing for the semaphore.
LEMMA Elsewhere ==
  ASSUME Counted, NEW s \in Sources, loop[s] \notin Holding, loop[s] # "queued",
         NEW place \in Places, place \notin Holding, place # "queued",
         loop' = [loop EXCEPT ![s] = place], free' = free, queue' = queue
  PROVE  Counted'
<1>1. loop' \in [Sources -> Places]
  BY DEF Counted
<1>2. Holders' = Holders
  BY DEF Holders, Counted
<1>3. QueueOK'
  BY DEF Counted, QueueOK
<1>4. SlotsAreAccountedFor'
  BY <1>2 DEF Counted, SlotsAreAccountedFor, Holders
<1> QED
  BY <1>1, <1>3, <1>4 DEF Counted

\* A loop takes a free slot.
LEMMA Taking ==
  ASSUME Counted, NEW s \in Sources, loop[s] \notin Holding, loop[s] # "queued",
         free > 0, queue = <<>>,
         loop' = [loop EXCEPT ![s] = "firing"], free' = free - 1, queue' = queue
  PROVE  Counted'
<1>1. loop' \in [Sources -> Places] /\ free' \in Nat
  BY DEF Counted, Places
<1>2. Holders' = Holders \union {s} /\ s \notin Holders
  BY DEF Holders, Counted, Holding
<1>3. Cardinality(Holders') = Cardinality(Holders) + 1
  BY <1>2, HoldersFinite, FS_AddElement
<1>4. QueueOK'
  BY DEF Counted, QueueOK
<1>5. SlotsAreAccountedFor'
  BY <1>1, <1>3, HoldersFinite DEF Counted, SlotsAreAccountedFor, Holders
<1> QED
  BY <1>1, <1>4, <1>5 DEF Counted

\* A loop joins the queue when no slot is free.
LEMMA Waiting ==
  ASSUME Counted, NEW s \in Sources, loop[s] \notin Holding, loop[s] # "queued",
         ~(free > 0 /\ queue = <<>>),
         loop' = [loop EXCEPT ![s] = "queued"], free' = free, queue' = Append(queue, s)
  PROVE  Counted'
<1>1. loop' \in [Sources -> Places]
  BY DEF Counted, Places
<1>2. Holders' = Holders
  BY DEF Holders, Counted, Holding
<1>3. free = 0
  BY DEF Counted, SlotsAreAccountedFor
<1>4. QueueOK'
  <2>1. /\ queue \in Seq(Sources) /\ queue' \in Seq(Sources)
        /\ Len(queue') = Len(queue) + 1 /\ Len(queue) \in Nat
        /\ queue'[Len(queue) + 1] = s
        /\ \A i \in 1 .. Len(queue) : queue'[i] = queue[i]
    BY DEF Counted, QueueOK
  <2>2. \A i \in 1 .. Len(queue) : queue[i] # s
    BY DEF Counted, QueueOK
  <2>3. ASSUME NEW i \in 1 .. Len(queue'), NEW j \in 1 .. Len(queue'), queue'[i] = queue'[j]
        PROVE  i = j
    <3>1. \A x \in 1 .. Len(queue') : x \in 1 .. Len(queue) \/ x = Len(queue) + 1
      BY <2>1
    <3>2. \A x, y \in 1 .. Len(queue) : queue[x] = queue[y] => x = y
      BY DEF Counted, QueueOK
    <3> QED
      BY <2>1, <2>2, <2>3, <3>1, <3>2
  <2>4. ASSUME NEW x \in Sources
        PROVE  loop'[x] = "queued" <=> \E i \in 1 .. Len(queue') : queue'[i] = x
    <3>1. CASE x = s
      <4>1. Len(queue) + 1 \in 1 .. Len(queue')
        BY <2>1
      <4> QED
        BY <2>1, <3>1, <4>1 DEF Counted
    <3>2. CASE x # s
      <4>1. loop'[x] = "queued" <=> \E i \in 1 .. Len(queue) : queue[i] = x
        BY <3>2 DEF Counted, QueueOK
      <4>2. (\E i \in 1 .. Len(queue') : queue'[i] = x) <=> \E i \in 1 .. Len(queue) : queue[i] = x
        BY <2>1, <3>2
      <4> QED
        BY <4>1, <4>2
    <3> QED
      BY <3>1, <3>2
  <2> QED
    BY <2>1, <2>3, <2>4 DEF QueueOK
<1>5. SlotsAreAccountedFor'
  BY <1>2, <1>3 DEF Counted, SlotsAreAccountedFor, Holders
<1> QED
  BY <1>1, <1>4, <1>5 DEF Counted

\* A holder gives its slot back: it is free again, or the first of the queue has it.
LEMMA Releasing ==
  ASSUME Counted, NEW s \in Sources, loop[s] \in Holding,
         NEW place \in Places, place \notin Holding, place # "queued",
         Release([loop EXCEPT ![s] = place])
  PROVE  /\ Counted'
         /\ loop'[s] = place
         /\ \A x \in Sources \ {s} : loop'[x] = "firing" <=> loop[x] = "firing"
<1>1. Cardinality(Holders \ {s}) = Cardinality(Holders) - 1 /\ IsFiniteSet(Holders \ {s})
  <2>1. s \in Holders
    BY DEF Holders
  <2> QED
    BY <2>1, HoldersFinite, FS_RemoveElement
<1>2. CASE queue = <<>>
  <2>1. free' = free + 1 /\ queue' = queue /\ loop' = [loop EXCEPT ![s] = place]
    BY <1>2 DEF Release
  <2>2. Holders' = Holders \ {s}
    BY <2>1 DEF Holders, Counted
  <2>3. QueueOK'
    BY <2>1 DEF Counted, QueueOK, Holding
  <2>4. SlotsAreAccountedFor'
    <3>1. free + Cardinality(Holders) = MaxConcurrency /\ free \in Nat
      BY DEF Counted, SlotsAreAccountedFor, Holders
    <3>2. free' + Cardinality(Holders') = MaxConcurrency
      BY <1>1, <2>1, <2>2, <3>1, HoldersFinite
    <3> QED
      BY <1>2, <2>1, <3>2 DEF SlotsAreAccountedFor, Holders
  <2> QED
    BY <2>1, <2>3, <2>4 DEF Counted
<1>3. CASE queue # <<>>
  <2> DEFINE h == Head(queue)
  <2>1. /\ free' = free /\ queue' = Tail(queue)
        /\ loop' = [[loop EXCEPT ![s] = place] EXCEPT ![h] = "granted"]
    BY <1>3 DEF Release
  <2>2. /\ queue \in Seq(Sources) /\ queue' \in Seq(Sources)
        /\ Len(queue) \in Nat \ {0} /\ Len(queue') = Len(queue) - 1
        /\ h = queue[1] /\ h \in Sources
        /\ \A i \in 1 .. Len(queue') : queue'[i] = queue[i + 1]
    BY <1>3, <2>1 DEF Counted, QueueOK
  <2>3. loop[h] = "queued" /\ h # s
    BY <2>2 DEF Counted, QueueOK, Holding
  <2> HIDE DEF h
  <2>4. /\ loop' \in [Sources -> Places]
        /\ loop'[s] = place /\ loop'[h] = "granted"
        /\ \A x \in Sources \ {s, h} : loop'[x] = loop[x]
    BY <2>1, <2>2, <2>3 DEF Counted, Places
  <2>5. Holders' = (Holders \ {s}) \union {h} /\ h \notin Holders \ {s}
    BY <2>2, <2>3, <2>4 DEF Holders, Holding
  <2>6. Cardinality(Holders') = Cardinality(Holders)
    <3>1. Cardinality((Holders \ {s}) \union {h}) = Cardinality(Holders \ {s}) + 1
      BY <1>1, <2>5, FS_AddElement
    <3> QED
      BY <1>1, <2>5, <3>1, HoldersFinite
  <2>7. ASSUME NEW i \in 1 .. Len(queue'), NEW j \in 1 .. Len(queue'), queue'[i] = queue'[j]
        PROVE  i = j
    <3>1. \A x \in 1 .. Len(queue') : x \in Nat /\ x + 1 \in 1 .. Len(queue)
      BY <2>2
    <3>2. \A x, y \in 1 .. Len(queue) : queue[x] = queue[y] => x = y
      BY DEF Counted, QueueOK
    <3>3. i + 1 = j + 1
      BY <2>2, <2>7, <3>1, <3>2
    <3> QED
      BY <3>1, <3>3
  <2>8. ASSUME NEW x \in Sources
        PROVE  loop'[x] = "queued" <=> \E i \in 1 .. Len(queue') : queue'[i] = x
    <3>1. (\E i \in 1 .. Len(queue') : queue'[i] = x)
             <=> \E i \in 2 .. Len(queue) : queue[i] = x
      <4>1. ASSUME NEW i \in 2 .. Len(queue)
            PROVE  i - 1 \in 1 .. Len(queue') /\ queue'[i - 1] = queue[i]
        BY <2>2
      <4>2. ASSUME NEW i \in 1 .. Len(queue')
            PROVE  i + 1 \in 2 .. Len(queue) /\ queue'[i] = queue[i + 1]
        BY <2>2
      <4> QED
        BY <4>1, <4>2
    <3>2. CASE x = h
      <4>1. \A i \in 2 .. Len(queue) : queue[i] # h
        BY <2>2 DEF Counted, QueueOK
      <4> QED
        BY <2>4, <3>1, <3>2, <4>1
    <3>3. CASE x # h
      <4>1. (\E i \in 2 .. Len(queue) : queue[i] = x) <=> \E i \in 1 .. Len(queue) : queue[i] = x
        BY <2>2, <3>3
      <4>2. loop'[x] = "queued" <=> loop[x] = "queued"
        BY <2>4, <3>3 DEF Holding
      <4> QED
        BY <3>1, <4>1, <4>2 DEF Counted, QueueOK
    <3> QED
      BY <3>2, <3>3
  <2>9. SlotsAreAccountedFor'
    <3>1. free + Cardinality(Holders) = MaxConcurrency /\ free = 0
      BY <1>3 DEF Counted, SlotsAreAccountedFor, Holders
    <3>2. free' + Cardinality(Holders') = MaxConcurrency /\ free' = 0
      BY <2>1, <2>6, <3>1
    <3> QED
      BY <3>2 DEF SlotsAreAccountedFor, Holders
  <2>10. QueueOK'
    BY <2>2, <2>7, <2>8 DEF QueueOK
  <2> QED
    BY <2>1, <2>3, <2>4, <2>9, <2>10 DEF Counted
<1> QED
  BY <1>2, <1>3

-----------------------------------------------------------------------------
(* Runners.                                                                *)

\* Where a loop rests it neither holds a slot nor waits for one.
LEMMA RestPlace ==
  ASSUME NEW s, NEW c
  PROVE  Rest(s, c) \in Places /\ Rest(s, c) \notin Holding /\ Rest(s, c) # "queued"
BY DEF Rest, Places, Holding

\* A call a runner makes names a source and has every field of a call.
LEMMA CallsHaveShape ==
  ASSUME NEW s \in Sources, NEW r, NEW t \in CallOf(s, r)
  PROVE  CallShape(t)
<1>1. t = [op |-> Op[r.at], s |-> s, n |-> r.n, attempt |-> r.attempt,
           status |-> r.status, seen |-> {}]
  BY DEF CallOf
<1>2. t.s = s /\ t.op = Op[r.at] /\ t.n = r.n /\ t.attempt = r.attempt
      /\ t.status = r.status /\ t.seen = {}
  BY <1>1
<1> HIDE DEF Op
<1> QED
  BY <1>1, <1>2 DEF CallShape

\* Going on to a step yields a run at that step.
LEMMA ToType ==
  ASSUME NEW r \in Runs, NEW at \in Steps, NEW status \in Statuses
  PROVE  To(r, at, status) \in Runs /\ To(r, at, status).at = at
BY DEF To, Runs

\* A fresh run is a run, about to ask for its lease.
LEMMA FreshRunType ==
  ASSUME NEW q \in Runs
  PROVE  /\ [Idle EXCEPT !.n = q.n + 1, !.at = "acquiring"] \in Runs
         /\ [Idle EXCEPT !.n = q.n + 1, !.at = "acquiring"].at = "acquiring"
<1> DEFINE m == q.n + 1
<1>1. m \in Nat
  BY DEF Runs
<1> HIDE DEF m
<1>2. /\ [Idle EXCEPT !.n = m, !.at = "acquiring"] \in Runs
      /\ [Idle EXCEPT !.n = m, !.at = "acquiring"].at = "acquiring"
  BY <1>1 DEF Idle, Runs, Steps, Statuses
<1> QED
  BY <1>2 DEF m

\* Opening an attempt yields a run about to journal it.
LEMMA OpenType ==
  ASSUME NEW r \in Runs
  PROVE  Open(r) \in Runs /\ Open(r).at = "opening"
<1>1. To(r, "opening", "RUNNING") \in Runs /\ To(r, "opening", "RUNNING").at = "opening"
  BY ToType DEF Steps, Statuses
<1> DEFINE o == To(r, "opening", "RUNNING")
           a == o.attempt + 1
<1>2. a \in Nat /\ Open(r) = [o EXCEPT !.attempt = a]
  BY <1>1 DEF Open, Runs
<1> HIDE DEF o, a
<1>3. o \in Runs /\ o.at = "opening"
  BY <1>1 DEF o
<1> QED
  BY <1>2, <1>3 DEF Runs

\* Whatever a call answers, its runner goes on to one of its steps; a run does not
\* end at a job that timed out.
LEMMA AfterType ==
  ASSUME NEW s, NEW r \in Runs, NEW result
  PROVE  /\ After(s, r, result) \in Runs
         /\ r.at = "working" => After(s, r, result).at = "closing"
<1> DEFINE a == After(s, r, result)
           status == CASE result = "ok" -> "SUCCESS" [] result = "partial" -> "PARTIAL"
                       [] OTHER -> "FAILED"
<1>0. r.at \in Steps /\ status \in Statuses /\ r.status \in Statuses
  <2>1. status = "SUCCESS" \/ status = "PARTIAL" \/ status = "FAILED"
    BY Zenon
  <2> QED
    BY <2>1 DEF Runs, Statuses
<1> SUFFICES a \in Runs /\ (r.at = "working" => a.at = "closing")
  OBVIOUS
<1> HIDE DEF a, status
<1>1. CASE r.at = "acquiring"
  <2>1. a = IF result = "ok" THEN Open(r)
            ELSE IF result = "held" THEN To(r, "skipping", "SKIPPED") ELSE To(r, "over", "none")
    BY <1>1, Zenon DEF a, After, status
  <2> QED
    BY <1>1, <2>1, OpenType, ToType DEF Steps, Statuses
<1>2. CASE r.at = "opening"
  <2>1. a = To(r, "working", "RUNNING")
    BY <1>2, Zenon DEF a, After, status
  <2> QED
    BY <1>2, <1>0, <2>1, ToType DEF Steps, Statuses
<1>3. CASE r.at = "working"
  <2>1. a = To(r, "closing", status)
    BY <1>3, Zenon DEF a, After, status
  <2> QED
    BY <1>0, <2>1, ToType DEF Steps, Statuses
<1>4. CASE r.at = "closing"
  <2>1. a = To(r, "releasing", r.status) \/ a = To(r, "renewing", r.status)
    BY <1>4, Zenon DEF a, After, status
  <2> QED
    BY <1>4, <1>0, <2>1, ToType DEF Steps, Statuses
<1>5. CASE r.at = "renewing"
  <2>1. a = To(r, "backoff", r.status) \/ a = To(r, "releasing", r.status)
    BY <1>5, Zenon DEF a, After, status
  <2> QED
    BY <1>5, <1>0, <2>1, ToType DEF Steps, Statuses
<1>6. CASE r.at \in {"backoff", "releasing", "skipping", "over"}
  <2>1. a = To(r, "over", r.status)
    BY <1>6, Zenon DEF a, After, status
  <2> QED
    BY <1>6, <1>0, <2>1, ToType DEF Steps, Statuses
<1> QED
  BY <1>0, <1>1, <1>2, <1>3, <1>4, <1>5, <1>6 DEF Steps

\* A cancelled runner goes on to one of its steps, and one that has ended stays so.
LEMMA OnCancelType ==
  ASSUME NEW r \in Runs
  PROVE  OnCancel(r) \in Runs /\ (r.at = "over" => OnCancel(r).at = "over")
<1>0. r.status \in Statuses
  BY DEF Runs
<1>1. CASE r.at = "working"
  <2>1. OnCancel(r) = To(r, "closing", "FAILED")
    BY <1>1, Zenon DEF OnCancel
  <2> QED
    BY <1>1, <1>0, <2>1, ToType DEF Steps, Statuses
<1>2. CASE r.at \in {"opening", "closing", "renewing", "backoff"}
  <2>1. OnCancel(r) = To(r, "releasing", r.status)
    BY <1>2, Zenon DEF OnCancel
  <2> QED
    BY <1>2, <1>0, <2>1, ToType DEF Steps, Statuses
<1>3. CASE r.at \notin {"working", "opening", "closing", "renewing", "backoff"}
  <2>1. OnCancel(r) = To(r, "over", r.status)
    BY <1>3, Zenon DEF OnCancel
  <2> QED
    BY <1>3, <1>0, <2>1, ToType DEF Steps, Statuses
<1> QED
  BY <1>1, <1>2, <1>3

-----------------------------------------------------------------------------
(* The steps.                                                              *)

\* A fire takes a free slot, waits for one, or gives up; the loop was in none.
LEMMA FireStep ==
  ASSUME SlotInv, NEW s \in Sources, loop[s] \in {"new", "asleep"}, NEW why, Fire(s, why)
  PROVE  SlotInv'
<1>1. loop[s] \notin Holding /\ loop[s] # "queued" /\ loop[s] # "firing" /\ run[s].at = "over"
  BY DEF Holding, SlotInv, Running
<1>2. Counted /\ Running
  BY DEF SlotInv
<1>3. CASE free > 0 /\ queue = <<>> /\ shutdown /\ why = "schedule"
  <2>1. /\ loop' = [loop EXCEPT ![s] = Rest(s, "none")] /\ free' = free /\ queue' = queue
        /\ run' = run /\ threads' = threads
    BY <1>3 DEF Fire
  <2>2. Rest(s, "none") \in Places /\ Rest(s, "none") \notin Holding /\ Rest(s, "none") # "queued"
    BY RestPlace
  <2>3. Counted'
    BY <1>1, <1>2, <2>1, <2>2, Elsewhere
  <2>4. Running'
    BY <1>1, <1>2, <2>1, <2>2 DEF Running, Counted, Holding, CallShape
  <2> QED
    BY <2>3, <2>4 DEF SlotInv
<1>4. CASE free > 0 /\ queue = <<>> /\ ~(shutdown /\ why = "schedule")
  <2> DEFINE r == [Idle EXCEPT !.n = run[s].n + 1, !.at = "acquiring"]
  <2>1. /\ loop' = [loop EXCEPT ![s] = "firing"] /\ free' = free - 1 /\ queue' = queue
        /\ run' = [run EXCEPT ![s] = r] /\ threads' = threads \union CallOf(s, r)
    BY <1>4 DEF Fire, Enter
  <2>2. Counted'
    BY <1>1, <1>2, <1>4, <2>1, Taking
  <2>3. r \in Runs /\ r.at = "acquiring"
    <3>1. run[s] \in Runs
      BY <1>2 DEF Running
    <3> QED
      BY <3>1, FreshRunType
  <2> HIDE DEF r
  <2>4. \A t \in threads' : CallShape(t)
    BY <1>2, <2>1, CallsHaveShape DEF Running
  <2>5. Running'
    <3>1. run' \in [Sources -> Runs] /\ run'[s].at = "acquiring" /\ loop'[s] = "firing"
          /\ \A x \in Sources \ {s} : run'[x] = run[x] /\ loop'[x] = loop[x]
      BY <1>2, <2>1, <2>3 DEF Running, Counted
    <3>2. \A x \in Sources : loop'[x] = "firing" <=> run'[x].at # "over"
      BY <1>2, <3>1 DEF Running
    <3>3. \A t \in threads' : CallShape(t)'
      BY <2>4 DEF CallShape
    <3> QED
      BY <3>1, <3>2, <3>3 DEF Running
  <2> QED
    BY <2>2, <2>5 DEF SlotInv
<1>5. CASE ~(free > 0 /\ queue = <<>>)
  <2>1. /\ loop' = [loop EXCEPT ![s] = "queued"] /\ free' = free /\ queue' = Append(queue, s)
        /\ run' = run /\ threads' = threads
    BY <1>5 DEF Fire
  <2>2. Counted'
    BY <1>1, <1>2, <1>5, <2>1, Waiting
  <2>3. Running'
    BY <1>1, <1>2, <2>1 DEF Running, Counted, CallShape
  <2> QED
    BY <2>2, <2>3 DEF SlotInv
<1> QED
  BY <1>3, <1>4, <1>5

\* A loop that runs again with its slot starts a run, or gives the slot back.
LEMMA GrantedStep ==
  ASSUME SlotInv, NEW s \in Sources, Granted(s)
  PROVE  SlotInv'
<1>1. loop[s] = "granted" /\ loop[s] \in Holding /\ run[s].at = "over" /\ Counted /\ Running
  BY DEF Granted, Holding, SlotInv, Running
<1>2. CASE shutdown /\ trigger[s] = "schedule"
  <2>1. /\ Release([loop EXCEPT ![s] = Rest(s, "none")])
        /\ run' = run /\ threads' = threads
    BY <1>2 DEF Granted, Enter
  <2>2. Rest(s, "none") \in Places /\ Rest(s, "none") \notin Holding /\ Rest(s, "none") # "queued"
    BY RestPlace
  <2>3. /\ Counted' /\ loop'[s] = Rest(s, "none")
        /\ \A x \in Sources \ {s} : loop'[x] = "firing" <=> loop[x] = "firing"
    BY <1>1, <2>1, <2>2, Releasing
  <2>4. Running'
    BY <1>1, <2>1, <2>2, <2>3 DEF Running, Holding, CallShape
  <2> QED
    BY <2>3, <2>4 DEF SlotInv
<1>3. CASE ~(shutdown /\ trigger[s] = "schedule")
  <2> DEFINE r == [Idle EXCEPT !.n = run[s].n + 1, !.at = "acquiring"]
  <2>1. /\ loop' = [loop EXCEPT ![s] = "firing"] /\ queue' = queue
        /\ run' = [run EXCEPT ![s] = r] /\ threads' = threads \union CallOf(s, r)
    BY <1>3 DEF Granted, Enter
  <2>2. r \in Runs /\ r.at = "acquiring"
    <3>1. run[s] \in Runs
      BY <1>1 DEF Running
    <3> QED
      BY <3>1, FreshRunType
  <2> HIDE DEF r
  <2>3. loop' \in [Sources -> Places] /\ loop'[s] = "firing"
        /\ \A x \in Sources \ {s} : loop'[x] = loop[x]
    BY <1>1, <2>1 DEF Counted, Places
  <2>4. free' = free
    BY <2>3 DEF Granted
  <2>5. Holders' = Holders
    BY <1>1, <2>3 DEF Holders, Holding
  <2>6. SlotsAreAccountedFor'
    BY <1>1, <2>1, <2>4, <2>5 DEF Counted, SlotsAreAccountedFor, Holders
  <2>7. QueueOK'
    BY <1>1, <2>1, <2>3 DEF Counted, QueueOK
  <2>8. Counted'
    BY <1>1, <2>3, <2>4, <2>6, <2>7 DEF Counted
  <2>9. Running'
    <3>1. run' \in [Sources -> Runs] /\ run'[s].at = "acquiring"
          /\ \A x \in Sources \ {s} : run'[x] = run[x]
      BY <1>1, <2>1, <2>2 DEF Running
    <3>2. \A x \in Sources : loop'[x] = "firing" <=> run'[x].at # "over"
      BY <1>1, <2>3, <3>1 DEF Running
    <3>3. \A t \in threads' : CallShape(t)
      BY <1>1, <2>1, CallsHaveShape DEF Running
    <3> QED
      BY <3>1, <3>2, <3>3 DEF Running, CallShape
  <2> QED
    BY <2>8, <2>9 DEF SlotInv
<1> QED
  BY <1>2, <1>3

\* Where nothing of the semaphore changes and a run goes on to another step of it.
LEMMA RunGoesOn ==
  ASSUME SlotInv, NEW s \in Sources, NEW r \in Runs, run[s].at # "over", r.at # "over",
         UNCHANGED <<loop, free, queue>>, run' = [run EXCEPT ![s] = r],
         \A t \in threads' : CallShape(t)
  PROVE  SlotInv'
<1>1. Counted'
  BY DEF SlotInv, Counted, QueueOK, SlotsAreAccountedFor
<1>2. run' \in [Sources -> Runs] /\ run'[s] = r /\ \A x \in Sources \ {s} : run'[x] = run[x]
  BY DEF SlotInv, Running
<1>3. Running'
  BY <1>2 DEF SlotInv, Running, CallShape
<1> QED
  BY <1>1, <1>3 DEF SlotInv

\* A call that returns: nobody awaits it, or its run goes on, or the fire is over.
LEMMA ContinueStep ==
  ASSUME SlotInv, NEW t \in threads, NEW result, Continue(t, result)
  PROVE  SlotInv'
<1> DEFINE s == t.s
           r == After(s, run[s], result)
<1>1. CallShape(t) /\ s \in Sources /\ Counted /\ Running
  BY DEF SlotInv, Running, CallShape
<1>2. CASE ~Awaited(t)
  <2>1. threads' = threads \ {t} /\ UNCHANGED <<loop, free, queue, run>>
    BY <1>2 DEF Continue
  <2>2. Counted'
    BY <1>1, <2>1 DEF Counted, QueueOK, SlotsAreAccountedFor
  <2>3. Running'
    BY <1>1, <2>1 DEF Running, CallShape
  <2> QED
    BY <2>2, <2>3 DEF SlotInv
<1>3. CASE Awaited(t)
  <2>1. run[s].at \in DOMAIN Op
    BY <1>3 DEF Awaited, CallOf
  <2>2. "over" \notin DOMAIN Op
    BY DEF Op
  <2>3. run[s].at # "over" /\ loop[s] = "firing" /\ loop[s] \in Holding /\ run[s] \in Runs
    BY <1>1, <2>1, <2>2 DEF Running, Holding
  <2>4. r \in Runs
    BY <2>3, AfterType
  <2>5. /\ run' = [run EXCEPT ![s] = r]
        /\ threads' = (threads \ {t}) \union CallOf(s, r)
        /\ IF r.at = "over" THEN Release([loop EXCEPT ![s] = Rest(s, cancelled[s])])
           ELSE UNCHANGED <<loop, free, queue>>
    BY <1>3 DEF Continue
  <2> HIDE DEF r, s
  <2>6. \A u \in threads' : CallShape(u)
    BY <1>1, <2>5, CallsHaveShape DEF Running
  <2>7. CASE r.at # "over"
    BY <1>1, <2>3, <2>4, <2>5, <2>6, <2>7, RunGoesOn
  <2>8. CASE r.at = "over"
    <3> DEFINE place == Rest(s, cancelled[s])
    <3>1. place \in Places /\ place \notin Holding /\ place # "queued"
      BY RestPlace
    <3> HIDE DEF place
    <3>2. Release([loop EXCEPT ![s] = place])
      BY <2>5, <2>8 DEF place
    <3>3. /\ Counted' /\ loop'[s] = place
          /\ \A x \in Sources \ {s} : loop'[x] = "firing" <=> loop[x] = "firing"
      BY <1>1, <2>3, <3>1, <3>2, Releasing
    <3>4. run' \in [Sources -> Runs] /\ run'[s] = r /\ \A x \in Sources \ {s} : run'[x] = run[x]
      BY <1>1, <2>4, <2>5 DEF Running
    <3>5. \A x \in Sources : loop'[x] = "firing" <=> run'[x].at # "over"
      BY <1>1, <2>8, <3>1, <3>3, <3>4 DEF Running, Holding
    <3>6. Running'
      BY <2>6, <3>4, <3>5 DEF Running, CallShape
    <3> QED
      BY <3>3, <3>6 DEF SlotInv
  <2> QED
    BY <2>7, <2>8
<1> QED
  BY <1>2, <1>3

\* The grace time is over: what is cancelled outside a run, or in a run that ends at
\* once, gives its slot back, and nobody waits any more.
LEMMA CancelStep ==
  ASSUME SlotInv, CancelPending
  PROVE  SlotInv'
<1> DEFINE r == [s \in Sources |-> IF s \in Pending THEN OnCancel(run[s]) ELSE run[s]]
           busy == {s \in Pending : loop[s] = "firing" /\ r[s].at # "over"}
           freed == {s \in Pending \ busy : loop[s] \in Holding}
<1>1. /\ run' = r
      /\ threads' = threads \union UNION {CallOf(s, r[s]) : s \in busy}
      /\ loop' = [s \in Sources |-> IF s \in Pending \ busy THEN "cancelled" ELSE loop[s]]
      /\ queue' = <<>>
      /\ free' = free + Cardinality(freed)
  BY DEF CancelPending
<1>2. Counted /\ Running
  BY DEF SlotInv
<1>3. r \in [Sources -> Runs] /\ \A s \in Sources : run[s].at = "over" => r[s].at = "over"
  BY <1>2, OnCancelType DEF Running
<1>4. \A s \in Sources \ Pending : loop[s] \in Ended /\ r[s] = run[s]
  BY DEF Pending
<1>5. busy \subseteq Sources /\ \A s \in busy : loop[s] = "firing" /\ r[s].at # "over"
  BY DEF Pending
<1>6. \A s \in Sources : s \in Pending \/ s \in Sources \ Pending
  OBVIOUS
<1>7. ASSUME NEW s \in Sources
      PROVE  loop'[s] = "firing" <=> r[s].at # "over"
  <2>1. CASE s \in busy
    BY <1>1, <1>5, <2>1
  <2>2. CASE s \in Pending \ busy
    BY <1>1, <1>2, <1>3, <2>2 DEF Running
  <2>3. CASE s \notin Pending
    BY <1>1, <1>2, <1>4, <2>3 DEF Running, Ended
  <2> QED
    BY <2>1, <2>2, <2>3
<1>8. Running'
  <2>1. \A t \in threads' : CallShape(t)
    BY <1>1, <1>2, <1>5, CallsHaveShape DEF Running
  <2> HIDE DEF r
  <2> QED
    BY <1>1, <1>3, <1>7, <2>1 DEF Running, CallShape
<1>9. loop' \in [Sources -> Places]
  BY <1>1, <1>2 DEF Counted, Places
<1>10. Holders' = busy /\ freed = Holders \ busy /\ busy \subseteq Holders
  <2>1. busy \subseteq Holders
    BY <1>5 DEF Holders, Holding
  <2>2. \A s \in Holders : s \in Pending
    BY DEF Holders, Holding, Pending, Ended
  <2>3. freed = Holders \ busy
    BY <2>2 DEF Holders, Pending
  <2>4. \A s \in Sources : loop'[s] \in Holding <=> s \in busy
    BY <1>1, <1>4, <1>5 DEF Holding, Ended
  <2>5. Holders' = busy
    BY <1>5, <2>4 DEF Holders
  <2> QED
    BY <2>1, <2>3, <2>5
<1> HIDE DEF busy, freed, r
<1>11. /\ Cardinality(freed) \in Nat /\ Cardinality(busy) \in Nat
       /\ Cardinality(Holders) = Cardinality(busy) + Cardinality(freed)
  <2>1. IsFiniteSet(busy) /\ IsFiniteSet(freed)
    BY <1>10, HoldersFinite, FS_Subset
  <2>2. busy \union freed = Holders /\ busy \intersect freed = {}
    BY <1>10
  <2>3. Cardinality(busy \union freed)
          = Cardinality(busy) + Cardinality(freed) - Cardinality(busy \intersect freed)
    BY <2>1, FS_Union
  <2>4. Cardinality(busy) \in Nat /\ Cardinality(freed) \in Nat /\ Cardinality({}) = 0
    BY <2>1, FS_CardinalityType, FS_EmptySet
  <2>5. Cardinality(Holders) = Cardinality(busy) + Cardinality(freed) - 0
    BY <2>2, <2>3, <2>4
  <2> QED
    BY <2>4, <2>5
<1>12. SlotsAreAccountedFor' /\ free' \in Nat
  <2>1. free + Cardinality(Holders) = MaxConcurrency /\ free \in Nat
    BY <1>2 DEF Counted, SlotsAreAccountedFor, Holders
  <2>2. free' + Cardinality(Holders') = MaxConcurrency /\ free' \in Nat
    BY <1>1, <1>10, <1>11, <2>1
  <2> QED
    BY <1>1, <2>2 DEF SlotsAreAccountedFor, Holders
<1>13. QueueOK'
  <2>1. \A s \in Sources : loop'[s] # "queued"
    BY <1>1, <1>4, <1>5 DEF Ended
  <2> QED
    BY <1>1, <2>1 DEF QueueOK
<1> QED
  BY <1>8, <1>9, <1>12, <1>13 DEF SlotInv, Counted

\* A source's loop, timer or job takes a step.
LEMMA SourceStep ==
  ASSUME SlotInv, NEW s \in Sources, LoopStep(s) \/ TimerDue(s) \/ JobTimesOut(s)
  PROVE  SlotInv'
<1>1. Counted /\ Running /\ run[s] \in Runs
  BY DEF SlotInv, Running
<1>2. ASSUME NEW place, place \in Places, place \notin Holding, place # "queued",
             loop[s] \in {"new", "asleep"}, loop' = [loop EXCEPT ![s] = place],
             UNCHANGED <<free, queue, run, threads>>
      PROVE  SlotInv'
  <2>1. Counted'
    BY <1>1, <1>2, Elsewhere DEF Holding
  <2>2. Running'
    BY <1>1, <1>2 DEF Running, Counted, Holding, CallShape
  <2> QED
    BY <2>1, <2>2 DEF SlotInv
<1>3. CASE StartLoop(s)
  <2>1. CASE OnStart(config[s])
    BY <1>3, <2>1, FireStep DEF StartLoop
  <2>2. CASE ~OnStart(config[s])
    <3>1. loop' = [loop EXCEPT ![s] = Rest(s, "none")] /\ loop[s] = "new"
          /\ UNCHANGED <<free, queue, run, threads>>
      BY <1>3, <2>2 DEF StartLoop
    <3> QED
      BY <1>2, <3>1, RestPlace
  <2> QED
    BY <2>1, <2>2
<1>4. CASE WokenByShutdown(s)
  BY <1>2, <1>4 DEF WokenByShutdown, Places, Holding
<1>5. CASE Granted(s)
  BY <1>5, GrantedStep
<1>6. CASE TimerDue(s)
  BY <1>6, FireStep DEF TimerDue
<1>7. CASE BackoffOver(s)
  <2>1. Open(run[s]) \in Runs /\ Open(run[s]).at = "opening"
    BY <1>1, OpenType
  <2>2. /\ run[s].at # "over" /\ run' = [run EXCEPT ![s] = Open(run[s])]
        /\ threads' = threads \union CallOf(s, run'[s])
        /\ UNCHANGED <<loop, free, queue>>
    BY <1>7 DEF BackoffOver
  <2>3. \A t \in threads' : CallShape(t)
    BY <1>1, <2>2, CallsHaveShape DEF Running
  <2> QED
    BY <1>1, <2>1, <2>2, <2>3, RunGoesOn
<1>8. CASE JobTimesOut(s)
  <2>1. /\ After(s, run[s], "timeout") \in Runs
        /\ run[s].at = "working" => After(s, run[s], "timeout").at = "closing"
    BY <1>1, AfterType
  <2>2. /\ run[s].at = "working" /\ run' = [run EXCEPT ![s] = After(s, run[s], "timeout")]
        /\ threads' = threads \union CallOf(s, run'[s])
        /\ UNCHANGED <<loop, free, queue>>
    BY <1>8 DEF JobTimesOut
  <2>3. \A t \in threads' : CallShape(t)
    BY <1>1, <2>2, CallsHaveShape DEF Running
  <2> QED
    BY <1>1, <2>1, <2>2, <2>3, RunGoesOn
<1> QED
  BY <1>3, <1>4, <1>5, <1>6, <1>7, <1>8 DEF LoopStep

\* A call returns or raises, or a journal in a file has been read.
LEMMA CallStep ==
  ASSUME SlotInv, NEW t \in threads, Returns(t) \/ Raise(t)
  PROVE  SlotInv'
<1>1. CASE ReadJson(t)
  <2>1. /\ threads' = (threads \ {t}) \union {[t EXCEPT !.seen = {rows}]}
        /\ UNCHANGED <<loop, free, queue, run>>
    BY <1>1 DEF ReadJson
  <2>2. CallShape(t) /\ Counted /\ Running
    BY DEF SlotInv, Running
  <2>3. CallShape([t EXCEPT !.seen = {rows}])
    <3> DEFINE op == t.op  s == t.s  n == t.n  attempt == t.attempt  status == t.status
    <3>1. s \in Sources /\ t = [op |-> op, s |-> s, n |-> n, attempt |-> attempt,
                                 status |-> status, seen |-> t.seen]
      BY <2>2 DEF CallShape
    <3> HIDE DEF op, s, n, attempt, status
    <3>2. [t EXCEPT !.seen = {rows}] = [op |-> op, s |-> s, n |-> n, attempt |-> attempt,
                                        status |-> status, seen |-> {rows}]
      BY <3>1
    <3> QED
      BY <3>1, <3>2 DEF CallShape
  <2>4. Counted'
    BY <2>1, <2>2 DEF Counted, QueueOK, SlotsAreAccountedFor
  <2>5. Running'
    BY <2>1, <2>2, <2>3 DEF Running, CallShape
  <2> QED
    BY <2>4, <2>5 DEF SlotInv
<1>2. CASE ~ReadJson(t)
  <2>1. \E result : Continue(t, result)
    BY <1>2 DEF Returns, Acquire, Renew, ReleaseLease, Work, RecordInMongo, WriteJson, Raise
  <2> QED
    BY <2>1, ContinueStep
<1> QED
  BY <1>1, <1>2

\* The invariant of the semaphore holds in every reachable state.
THEOREM SlotInvariant == Spec => []SlotInv
<1>1. Init => SlotInv
  <2> SUFFICES ASSUME Init PROVE SlotInv
    OBVIOUS
  <2>1. /\ loop \in [Sources -> {"new", "ended"}] /\ free = MaxConcurrency /\ queue = <<>>
        /\ run = [s \in Sources |-> Idle] /\ threads = {}
    BY DEF Init
  <2>2. MaxConcurrency \in Nat /\ Idle \in Runs /\ Idle.at = "over"
    BY SchedulerAssumption DEF Idle, Runs, Steps, Statuses
  <2>3. Holders = {}
    BY <2>1 DEF Holders, Holding
  <2>4. SlotsAreAccountedFor
    <3>1. free + Cardinality(Holders) = MaxConcurrency
      BY <2>1, <2>2, <2>3, FS_EmptySet
    <3> QED
      BY <2>1, <3>1 DEF SlotsAreAccountedFor, Holders
  <2>5. QueueOK
    BY <2>1 DEF QueueOK
  <2>6. Running
    BY <2>1, <2>2 DEF Running
  <2> QED
    BY <2>1, <2>2, <2>4, <2>5, <2>6 DEF SlotInv, Counted, Places
<1>2. SlotInv /\ [Next]_vars => SlotInv'
  <2> SUFFICES ASSUME SlotInv, [Next]_vars PROVE SlotInv'
    OBVIOUS
  <2>1. CASE UNCHANGED <<loop, free, queue, run, threads>>
    BY <2>1 DEF SlotInv, Counted, QueueOK, SlotsAreAccountedFor, Running, CallShape
  <2>2. CASE \E s \in Sources : LoopStep(s) \/ TimerDue(s) \/ JobTimesOut(s)
    BY <2>2, SourceStep
  <2>3. CASE \E t \in threads : Returns(t) \/ Raise(t)
    BY <2>3, CallStep
  <2>4. CASE CancelPending
    BY <2>4, CancelStep
  <2>5. RequestShutdown \/ Stop \/ Exit \/ UNCHANGED vars
          => UNCHANGED <<loop, free, queue, run, threads>>
    BY DEF RequestShutdown, Stop, Exit, vars
  <2> QED
    BY <2>1, <2>2, <2>3, <2>4, <2>5 DEF Next
<1> QED
  BY <1>1, <1>2, PTL DEF Spec

\* Whatever fires give up, fail or are cancelled, every slot of the semaphore is free
\* or held by one loop, and none is free while a loop waits.
THEOREM NoSlotIsLost == Spec => []SlotsAreAccountedFor
<1>1. SlotInv => SlotsAreAccountedFor
  BY DEF SlotInv, Counted
<1> QED
  BY <1>1, SlotInvariant, PTL

-----------------------------------------------------------------------------
(* What a run leaves behind.                                               *)

\* The steps of a run that holds its lease and has not begun to give it back.
Leased == {"opening", "working", "closing", "renewing", "backoff"}
Draining == {"cancelling", "stopped", "exited"}

\* A lease is that of the present run, or about to be released, or was acquired for
\* a run that was cancelled while it asked.
LeaseKept(l) ==
  /\ l.s \in Sources /\ l = [s |-> l.s, n |-> l.n]
  /\ \/ l.n = run[l.s].n /\ run[l.s].at \in Leased
     \/ \E t \in threads : t.op = "release" /\ t.s = l.s /\ t.n = l.n
     \/ l.n = run[l.s].n /\ cancelled[l.s] = "acquiring"

\* A row shows an attempt as running while it works, until the row that closes it is
\* written, or because it was cancelled while the row was being written.
RowExplained(row) ==
  /\ row.s \in Sources
  /\ row.status = "RUNNING" =>
       \/ /\ row.n = run[row.s].n /\ row.attempt = run[row.s].attempt
          /\ run[row.s].at = "working"
       \/ \E t \in threads : t.op = "record" /\ t.status # "RUNNING" /\ Key(t) = Key(row)
       \/ row.n = run[row.s].n /\ cancelled[row.s] = "opening"

\* A request for the lease, and a row that opens an attempt, is awaited, or was
\* when its run was cancelled.
CallAwaited(t) ==
  /\ t.seen # {} => t.op = "record" /\ journal = "json"
  /\ t.op = "acquire" =>
       /\ t.n = run[t.s].n
       /\ Awaited(t) \/ cancelled[t.s] = "acquiring"
  /\ t.op = "record" /\ t.status = "RUNNING" /\ journal = "mongo" =>
       /\ t.n = run[t.s].n
       /\ (Awaited(t) /\ run[t.s].at = "opening") \/ cancelled[t.s] = "opening"

\* A worker that has begun to cancel starts nothing.
PhaseInv ==
  /\ faults \in Nat
  /\ phase \in Draining => shutdown
  /\ phase \in Draining => \A s \in Sources : loop[s] \in Ended \union {"firing"}
  /\ \A s \in Sources : cancelled[s] # "none" => phase \in Draining
  /\ phase \in {"stopped", "exited"} => \A s \in Sources : loop[s] \in Ended
  /\ phase = "exited" => threads = {}

LeftInv ==
  faults = 0 =>
    /\ \A l \in leases : LeaseKept(l)
    /\ journal = "mongo" => \A row \in rows : RowExplained(row)
    /\ \A t \in threads : CallAwaited(t)

\* What a run may go on to: it keeps its number, keeps its lease until it releases it,
\* and closes an attempt it worked on with a status that says how it ended.
Forward(r, q) ==
  /\ q.n = r.n
  /\ r.at \in Leased => q.at \in Leased \union {"releasing"}
  /\ r.at = "working" => q.at = "closing" /\ q.attempt = r.attempt
  /\ q.at \in {"closing", "skipping"} => q.status # "RUNNING"
  /\ q.at # "acquiring"

\* Going on to a step changes the step and nothing else of a run.
LEMMA ToFields ==
  ASSUME NEW r \in Runs, NEW at, NEW status
  PROVE  /\ To(r, at, status).n = r.n /\ To(r, at, status).attempt = r.attempt
         /\ To(r, at, status).at = at /\ To(r, at, status).status = status
BY DEF To, Runs

\* A run that opens an attempt is about to journal it.
LEMMA OpenForward ==
  ASSUME NEW r \in Runs, r.at \in {"acquiring", "backoff"}
  PROVE  Forward(r, Open(r)) /\ Open(r).at = "opening"
<1> DEFINE o == To(r, "opening", "RUNNING")
           a == o.attempt + 1
<1>1. o \in Runs /\ o.n = r.n /\ o.at = "opening"
  BY ToType, ToFields DEF Steps, Statuses
<1>2. Open(r) = [o EXCEPT !.attempt = a]
  BY <1>1 DEF Open, Runs
<1> HIDE DEF o, a
<1>3. Open(r).n = r.n /\ Open(r).at = "opening"
  BY <1>1, <1>2 DEF Runs
<1> QED
  BY <1>3 DEF Forward, Leased

\* What a run goes on to when its call returned comes later in the run.
LEMMA AfterForward ==
  ASSUME NEW s, NEW r \in Runs, r.at # "backoff", r.at # "over", NEW result
  PROVE  /\ Forward(r, After(s, r, result))
         /\ r.at = "acquiring" /\ result = "ok" => After(s, r, result).at = "opening"
         /\ r.at = "opening" => /\ After(s, r, result).at = "working"
                                /\ After(s, r, result).attempt = r.attempt
<1> DEFINE a == After(s, r, result)
           status == CASE result = "ok" -> "SUCCESS" [] result = "partial" -> "PARTIAL"
                       [] OTHER -> "FAILED"
<1>1. status \in {"SUCCESS", "PARTIAL", "FAILED"}
  BY Zenon
<1>2. r.at \in Steps
  BY DEF Runs
<1> SUFFICES /\ Forward(r, a)
             /\ r.at = "acquiring" /\ result = "ok" => a.at = "opening"
             /\ r.at = "opening" => a.at = "working" /\ a.attempt = r.attempt
  OBVIOUS
<1> HIDE DEF a, status
<1>3. CASE r.at = "acquiring"
  <2>1. a = IF result = "ok" THEN Open(r)
            ELSE IF result = "held" THEN To(r, "skipping", "SKIPPED") ELSE To(r, "over", "none")
    BY <1>3, Zenon DEF a, After, status
  <2> QED
    BY <1>3, <2>1, OpenForward, ToFields DEF Forward, Leased
<1>4. CASE r.at = "opening"
  <2>1. a = To(r, "working", "RUNNING")
    BY <1>4, Zenon DEF a, After, status
  <2> QED
    BY <1>4, <2>1, ToFields DEF Forward, Leased
<1>5. CASE r.at = "working"
  <2>1. a = To(r, "closing", status)
    BY <1>5, Zenon DEF a, After, status
  <2> QED
    BY <1>1, <1>5, <2>1, ToFields DEF Forward, Leased
<1>6. CASE r.at = "closing"
  <2>1. a = To(r, "releasing", r.status) \/ a = To(r, "renewing", r.status)
    BY <1>6, Zenon DEF a, After, status
  <2> QED
    BY <1>6, <2>1, ToFields DEF Forward, Leased
<1>7. CASE r.at = "renewing"
  <2>1. a = To(r, "backoff", r.status) \/ a = To(r, "releasing", r.status)
    BY <1>7, Zenon DEF a, After, status
  <2> QED
    BY <1>7, <2>1, ToFields DEF Forward, Leased
<1>8. CASE r.at \in {"releasing", "skipping"}
  <2>1. a = To(r, "over", r.status)
    BY <1>8, Zenon DEF a, After, status
  <2> QED
    BY <1>8, <2>1, ToFields DEF Forward, Leased
<1> QED
  BY <1>2, <1>3, <1>4, <1>5, <1>6, <1>7, <1>8 DEF Steps

\* A cancelled run goes on to give back what it holds, or is over.
LEMMA CancelForward ==
  ASSUME NEW r \in Runs
  PROVE  Forward(r, OnCancel(r))
<1>1. r.at \in Steps
  BY DEF Runs
<1>2. CASE r.at = "working"
  <2>1. OnCancel(r) = To(r, "closing", "FAILED")
    BY <1>2, Zenon DEF OnCancel
  <2> QED
    BY <1>2, <2>1, ToFields DEF Forward, Leased
<1>3. CASE r.at \in {"opening", "closing", "renewing", "backoff"}
  <2>1. OnCancel(r) = To(r, "releasing", r.status)
    BY <1>3, Zenon DEF OnCancel
  <2> QED
    BY <1>3, <2>1, ToFields DEF Forward, Leased
<1>4. CASE r.at \in {"acquiring", "releasing", "skipping", "over"}
  <2>1. OnCancel(r) = To(r, "over", r.status)
    BY <1>4, Zenon DEF OnCancel
  <2> QED
    BY <1>4, <2>1, ToFields DEF Forward, Leased
<1> QED
  BY <1>1, <1>2, <1>3, <1>4 DEF Steps

\* What a call that a run makes says of the run.
LEMMA CallFacts ==
  ASSUME NEW s, NEW r, NEW t \in CallOf(s, r)
  PROVE  /\ t.s = s /\ t.n = r.n /\ t.attempt = r.attempt /\ t.status = r.status
         /\ t.seen = {} /\ [t EXCEPT !.seen = {}] = t
         /\ t.op = Op[r.at] /\ r.at \in DOMAIN Op
<1>1. t = [op |-> Op[r.at], s |-> s, n |-> r.n, attempt |-> r.attempt,
           status |-> r.status, seen |-> {}] /\ r.at \in DOMAIN Op
  BY DEF CallOf
<1> HIDE DEF Op
<1> QED
  BY <1>1

\* Which steps of a run make a call, and which.
LEMMA OpFacts ==
  /\ DOMAIN Op = {"acquiring", "opening", "working", "closing", "renewing", "releasing",
                  "skipping"}
  /\ \A at \in DOMAIN Op :
       /\ Op[at] = "acquire" <=> at = "acquiring"
       /\ Op[at] = "record" <=> at \in {"opening", "closing", "skipping"}
       /\ Op[at] = "release" <=> at = "releasing"
BY DEF Op

\* A run that goes on to close or to release makes the call that does.
LEMMA CallsMade ==
  ASSUME NEW s, NEW r
  PROVE  /\ r.at \in {"releasing", "closing"} =>
              \E t \in CallOf(s, r) : /\ t.s = s /\ t.n = r.n /\ t.attempt = r.attempt
                                      /\ t.status = r.status
                                      /\ r.at = "releasing" => t.op = "release"
                                      /\ r.at = "closing" => t.op = "record"
<1> DEFINE t == [op |-> Op[r.at], s |-> s, n |-> r.n, attempt |-> r.attempt,
                 status |-> r.status, seen |-> {}]
<1>1. r.at \in {"releasing", "closing"} => t \in CallOf(s, r)
  BY OpFacts DEF CallOf
<1> QED
  BY <1>1, OpFacts, CallFacts

\* The call a run awaits is the one its step made.
LEMMA AwaitedFacts ==
  ASSUME NEW t, CallShape(t), Awaited(t)
  PROVE  /\ run[t.s].at \in DOMAIN Op /\ t.op = Op[run[t.s].at]
         /\ t.n = run[t.s].n /\ t.attempt = run[t.s].attempt /\ t.status = run[t.s].status
<1> DEFINE u == [t EXCEPT !.seen = {}]
<1>1. u \in CallOf(t.s, run[t.s])
  BY DEF Awaited
<1>2. u.op = t.op /\ u.n = t.n /\ u.attempt = t.attempt /\ u.status = t.status
  BY DEF CallShape
<1> HIDE DEF u
<1> QED
  BY <1>1, <1>2, CallFacts

-----------------------------------------------------------------------------
(* What a step that moves runs on does to leases, rows and calls.          *)

Moves(s) ==
  \/ run'[s] = run[s]
  \/ Forward(run[s], run'[s]) /\ CallOf(s, run'[s]) \subseteq threads'
  \/ run[s].at = "over" /\ cancelled[s] = "none"

CancelledOnce(s) == cancelled'[s] = cancelled[s] \/ cancelled[s] = "none"

\* A lease stays accounted for while its run moves on, if its release is not lost.
LEMMA LeaseStays ==
  ASSUME NEW l, LeaseKept(l), Moves(l.s), CancelledOnce(l.s),
         \A t \in threads : t.op = "release" /\ t.s = l.s /\ t.n = l.n => t \in threads'
  PROVE  LeaseKept(l)'
<1>1. CASE \E t \in threads : t.op = "release" /\ t.s = l.s /\ t.n = l.n
  BY <1>1 DEF LeaseKept
<1>2. CASE l.n = run[l.s].n /\ run[l.s].at \in Leased
  <2>1. CASE run'[l.s] = run[l.s]
    BY <1>2, <2>1 DEF LeaseKept
  <2>2. CASE Forward(run[l.s], run'[l.s]) /\ CallOf(l.s, run'[l.s]) \subseteq threads'
    <3>1. CASE run'[l.s].at \in Leased
      BY <1>2, <2>2, <3>1 DEF LeaseKept, Forward
    <3>2. CASE run'[l.s].at = "releasing"
      <4>1. \E t \in threads' : t.s = l.s /\ t.n = run'[l.s].n /\ t.op = "release"
        BY <2>2, <3>2, CallsMade
      <4> QED
        BY <1>2, <2>2, <4>1 DEF LeaseKept, Forward
    <3> QED
      BY <1>2, <2>2, <3>1, <3>2 DEF Forward
  <2> QED
    BY <1>2, <2>1, <2>2 DEF Moves, Leased
<1>3. CASE l.n = run[l.s].n /\ cancelled[l.s] = "acquiring"
  <2>1. run'[l.s].n = run[l.s].n /\ cancelled'[l.s] = "acquiring"
    BY <1>3 DEF Moves, Forward, CancelledOnce
  <2> QED
    BY <1>3, <2>1 DEF LeaseKept
<1> QED
  BY <1>1, <1>2, <1>3 DEF LeaseKept

\* A row stays accounted for while its run moves on, if the write closing it is not lost.
LEMMA RowStays ==
  ASSUME NEW row, RowExplained(row), Moves(row.s), CancelledOnce(row.s),
         \A t \in threads : t.op = "record" /\ Key(t) = Key(row) /\ t.status # "RUNNING"
                              => t \in threads'
  PROVE  RowExplained(row)'
<1> SUFFICES ASSUME row.status = "RUNNING" PROVE RowExplained(row)'
  BY DEF RowExplained
<1>1. CASE \E t \in threads : t.op = "record" /\ t.status # "RUNNING" /\ Key(t) = Key(row)
  BY <1>1 DEF RowExplained
<1>2. CASE /\ row.n = run[row.s].n /\ row.attempt = run[row.s].attempt
           /\ run[row.s].at = "working"
  <2>1. CASE run'[row.s] = run[row.s]
    BY <1>2, <2>1 DEF RowExplained
  <2>2. CASE Forward(run[row.s], run'[row.s]) /\ CallOf(row.s, run'[row.s]) \subseteq threads'
    <3>1. /\ run'[row.s].at = "closing" /\ run'[row.s].status # "RUNNING"
          /\ run'[row.s].n = row.n /\ run'[row.s].attempt = row.attempt
      BY <1>2, <2>2 DEF Forward
    <3>2. \E t \in threads' : /\ t.s = row.s /\ t.n = run'[row.s].n
                              /\ t.attempt = run'[row.s].attempt
                              /\ t.status = run'[row.s].status /\ t.op = "record"
      BY <2>2, <3>1, CallsMade
    <3> QED
      BY <3>1, <3>2 DEF RowExplained, Key
  <2> QED
    BY <1>2, <2>1, <2>2 DEF Moves
<1>3. CASE row.n = run[row.s].n /\ cancelled[row.s] = "opening"
  <2>1. run'[row.s].n = run[row.s].n /\ cancelled'[row.s] = "opening"
    BY <1>3 DEF Moves, Forward, CancelledOnce
  <2> QED
    BY <1>3, <2>1 DEF RowExplained
<1> QED
  BY <1>1, <1>2, <1>3 DEF RowExplained

\* A call that nobody stops awaiting but by a cancellation stays accounted for.
LEMMA CallStays ==
  ASSUME NEW t, CallShape(t), CallAwaited(t), Moves(t.s), CancelledOnce(t.s),
         journal' = journal,
         \/ run'[t.s] = run[t.s]
         \/ ~Awaited(t)
         \/ cancelled'[t.s] = run[t.s].at /\ run'[t.s].n = run[t.s].n
  PROVE  CallAwaited(t)'
<1> DEFINE first == \/ t.op = "acquire"
                    \/ t.op = "record" /\ t.status = "RUNNING" /\ journal = "mongo"
<1>1. t.op = "acquire" /\ Awaited(t) => run[t.s].at = "acquiring"
  BY AwaitedFacts, OpFacts
<1>2. ~Awaited(t) /\ first => cancelled[t.s] # "none" /\ t.n = run[t.s].n
  BY DEF CallAwaited
<1>3. first => t.n = run'[t.s].n
  BY <1>2 DEF CallAwaited, Moves, Forward
<1>4. CASE run'[t.s] = run[t.s]
  <2>1. Awaited(t)' <=> Awaited(t)
    BY <1>4 DEF Awaited
  <2> QED
    BY <1>2, <1>3, <1>4, <2>1 DEF CallAwaited, CancelledOnce
<1>5. CASE ~Awaited(t)
  BY <1>2, <1>3, <1>5 DEF CallAwaited, CancelledOnce
<1>6. CASE cancelled'[t.s] = run[t.s].at /\ Awaited(t)
  BY <1>1, <1>3, <1>6 DEF CallAwaited, CancelledOnce
<1> QED
  BY <1>4, <1>5, <1>6

\* A call newly made is awaited by the run that makes it.
LEMMA NewCalls ==
  ASSUME NEW s \in Sources, NEW t \in CallOf(s, run'[s]),
         Forward(run[s], run'[s]) \/ run'[s].at = "acquiring"
  PROVE  CallAwaited(t)'
<1>1. /\ t.s = s /\ t.n = run'[s].n /\ t.status = run'[s].status
      /\ t.seen = {} /\ [t EXCEPT !.seen = {}] = t
      /\ t.op = Op[run'[s].at] /\ run'[s].at \in DOMAIN Op
  BY CallFacts
<1>2. Awaited(t)'
  BY <1>1 DEF Awaited
<1>3. t.op = "record" /\ t.status = "RUNNING" => run'[s].at = "opening"
  BY <1>1, OpFacts DEF Forward
<1> QED
  BY <1>1, <1>2, <1>3 DEF CallAwaited

-----------------------------------------------------------------------------
(* The phases of a shutdown.                                               *)

\* Where no run moves, each stays in its phase.
LEMMA PhaseUnmoved ==
  ASSUME PhaseInv, UNCHANGED <<phase, cancelled>>, shutdown => shutdown',
         faults' \in Nat, phase \in Draining => UNCHANGED loop,
         phase = "exited" => UNCHANGED threads
  PROVE  PhaseInv'
BY DEF PhaseInv, Draining

\* When a call returns, the run that awaited it goes on to its next phase.
LEMMA CallStepPhase ==
  ASSUME SlotInv, PhaseInv, NEW t \in threads, Returns(t) \/ Raise(t)
  PROVE  PhaseInv'
<1>1. /\ UNCHANGED <<phase, cancelled, shutdown, config>> /\ faults' \in Nat
      /\ phase # "exited"
  <2>1. phase # "exited" /\ faults \in Nat
    BY DEF PhaseInv
  <2> QED
    BY <2>1 DEF Returns, Acquire, Renew, ReleaseLease, Work, RecordInMongo, ReadJson,
                WriteJson, Raise, CallStutters, fixed
<1>2. CASE UNCHANGED loop
  BY <1>1, <1>2, PhaseUnmoved
<1>3. CASE phase \notin Draining
  BY <1>1, <1>3, PhaseUnmoved
<1>4. CASE loop' # loop /\ phase \in Draining
  <2>1. ~ReadJson(t)
    BY <1>4 DEF ReadJson
  <2>2. PICK result : Continue(t, result)
    BY <2>1 DEF Returns, Acquire, Renew, ReleaseLease, Work, RecordInMongo, WriteJson, Raise
  <2>3. Awaited(t) /\ CallShape(t) /\ t.s \in Sources
    BY <1>4, <2>2 DEF Continue, SlotInv, Running, CallShape
  <2>4. loop[t.s] = "firing"
    BY <2>3, AwaitedFacts, OpFacts DEF SlotInv, Running
  <2>5. phase \notin {"stopped", "exited"}
    BY <2>3, <2>4 DEF PhaseInv, Ended
  <2>6. queue = <<>>
    <3>1. SUFFICES ASSUME queue # <<>> PROVE FALSE
      OBVIOUS
    <3>2. queue \in Seq(Sources) /\ 1 \in 1 .. Len(queue) /\ queue[1] \in Sources
      BY <3>1 DEF SlotInv, Counted, QueueOK
    <3>3. loop[queue[1]] = "queued"
      BY <3>2 DEF SlotInv, Counted, QueueOK
    <3> QED
      BY <1>4, <3>2, <3>3 DEF PhaseInv, Ended
  <2>7. Rest(t.s, cancelled[t.s]) \in Ended
    BY <1>4 DEF Rest, PhaseInv, Ended
  <2>8. loop' = [loop EXCEPT ![t.s] = Rest(t.s, cancelled[t.s])]
    BY <1>4, <2>2, <2>3, <2>6 DEF Continue, Release
  <2>9. \A s \in Sources : loop'[s] \in Ended \union {"firing"}
    BY <1>4, <2>3, <2>7, <2>8 DEF PhaseInv, SlotInv, Counted
  <2> QED
    BY <1>1, <2>5, <2>9 DEF PhaseInv
<1> QED
  BY <1>2, <1>3, <1>4

\* A loop, timer or job leaves every run in a phase.
LEMMA SourceStepPhase ==
  ASSUME SlotInv, PhaseInv, NEW s \in Sources, LoopStep(s) \/ TimerDue(s) \/ JobTimesOut(s)
  PROVE  PhaseInv'
<1>1. UNCHANGED <<phase, cancelled, shutdown>> /\ faults' \in Nat
  BY DEF LoopStep, StartLoop, WokenByShutdown, Granted, BackoffOver, TimerDue, JobTimesOut,
         PhaseInv, Enter, Fire, Release
<1>2. CASE loop[s] \in {"new", "asleep", "granted"}
  <2>1. phase \notin Draining
    BY <1>2 DEF PhaseInv, Ended
  <2> QED
    BY <1>1, <2>1, PhaseUnmoved DEF Draining
<1>3. CASE BackoffOver(s) \/ JobTimesOut(s)
  <2>1. loop[s] = "firing" /\ UNCHANGED loop
    BY <1>3 DEF BackoffOver, JobTimesOut, SlotInv, Running
  <2>2. phase # "exited"
    BY <2>1 DEF PhaseInv, Ended
  <2> QED
    BY <1>1, <2>1, <2>2, PhaseUnmoved
<1> QED
  BY <1>2, <1>3 DEF LoopStep, StartLoop, WokenByShutdown, Granted, TimerDue

\* Every step leaves every run in a phase.
LEMMA PhaseStep ==
  ASSUME SlotInv, PhaseInv, [Next]_vars
  PROVE  PhaseInv'
<1>1. CASE RequestShutdown
  BY <1>1 DEF RequestShutdown, PhaseInv, Draining
<1>2. CASE CancelPending
  <2>1. /\ phase' = "cancelling" /\ shutdown /\ shutdown' = shutdown /\ faults' = faults
        /\ \A s \in Sources : loop'[s] = "cancelled" \/ loop'[s] = loop[s]
        /\ \A s \in Sources : loop[s] \in Ended \/ loop[s] = "firing"
                                \/ loop'[s] = "cancelled"
    BY <1>2 DEF CancelPending, Pending
  <2>2. \A s \in Sources : loop'[s] \in Ended \union {"firing"}
    BY <2>1 DEF Ended
  <2> QED
    BY <2>1, <2>2 DEF PhaseInv, Draining
<1>3. CASE Stop
  <2>1. \A s \in Sources : loop[s] \in Ended
    BY <1>3 DEF Stop, Pending
  <2> QED
    BY <1>3, <2>1 DEF Stop, PhaseInv, Draining
<1>4. CASE Exit
  BY <1>4 DEF Exit, PhaseInv, Draining
<1>5. CASE UNCHANGED vars
  BY <1>5, PhaseUnmoved DEF vars, PhaseInv
<1> QED
  BY <1>1, <1>2, <1>3, <1>4, <1>5, SourceStepPhase, CallStepPhase DEF Next

-----------------------------------------------------------------------------
(* Leases, rows and calls, step by step.                                   *)

\* Steps that touch neither.
LEMMA NothingLeft ==
  ASSUME LeftInv, UNCHANGED <<run, threads, leases, rows, cancelled, journal, faults>>
  PROVE  LeftInv'
BY DEF LeftInv, LeaseKept, RowExplained, CallAwaited, Awaited

\* A run moves on, and makes its calls, while no call returns.
LEMMA RunsMove ==
  ASSUME LeftInv, Running, faults' = faults, UNCHANGED <<leases, rows, journal>>,
         \A s \in Sources : Moves(s) /\ CancelledOnce(s),
         threads \subseteq threads',
         \A t \in threads' \ threads : \E s \in Sources :
           /\ t \in CallOf(s, run'[s])
           /\ Forward(run[s], run'[s]) \/ run'[s].at = "acquiring",
         \A t \in threads :
           \/ run'[t.s] = run[t.s]
           \/ ~Awaited(t)
           \/ cancelled'[t.s] = run[t.s].at /\ run'[t.s].n = run[t.s].n
  PROVE  LeftInv'
<1> SUFFICES ASSUME faults = 0 PROVE LeftInv'
  BY DEF LeftInv
<1>1. ASSUME NEW l \in leases PROVE LeaseKept(l)'
  <2>1. LeaseKept(l) /\ l.s \in Sources
    BY <1>1 DEF LeftInv, LeaseKept
  <2> QED
    BY <2>1, LeaseStays
<1>2. ASSUME journal = "mongo", NEW row \in rows PROVE RowExplained(row)'
  <2>1. RowExplained(row) /\ row.s \in Sources
    BY <1>2 DEF LeftInv, RowExplained
  <2> QED
    BY <2>1, RowStays
<1>3. ASSUME NEW t \in threads' PROVE CallAwaited(t)'
  <2>1. CASE t \in threads
    <3>1. CallShape(t) /\ CallAwaited(t) /\ t.s \in Sources
      BY <2>1 DEF LeftInv, Running, CallShape
    <3> QED
      BY <2>1, <3>1, CallStays
  <2>2. CASE t \notin threads
    BY <1>3, <2>2, NewCalls
  <2> QED
    BY <2>1, <2>2
<1> QED
  BY <1>1, <1>2, <1>3 DEF LeftInv

\* A call returns: its lease or its row is left, removed or kept, and it is over.
LEMMA CallReturns ==
  ASSUME LeftInv, SlotInv, NEW t \in threads, NEW result, Continue(t, result),
         UNCHANGED <<cancelled, journal>>, faults' = faults, faults = 0,
         \A l \in leases' : l \in leases \/ LeaseKept(l)',
         journal = "mongo" => \A row \in rows' : row \in rows \/ RowExplained(row)',
         t.op = "release" => leases' = leases \ {[s |-> t.s, n |-> t.n]},
         journal = "mongo" /\ t.op = "record" /\ t.status # "RUNNING" =>
           \A row \in rows' : Key(row) = Key(t) => row.status # "RUNNING"
  PROVE  LeftInv'
<1> DEFINE s == t.s
           r == After(s, run[s], result)
<1>1. CallShape(t) /\ s \in Sources /\ Running
  BY DEF SlotInv, Running, CallShape
<1>2. /\ threads \ {t} \subseteq threads'
      /\ ~Awaited(t) => run' = run /\ threads' = threads \ {t}
      /\ Awaited(t) => /\ run' = [run EXCEPT ![s] = r]
                       /\ threads' = (threads \ {t}) \union CallOf(s, r)
  BY DEF Continue
<1>3. Awaited(t) => /\ run'[s] = r /\ Forward(run[s], r)
                    /\ \A x \in Sources : x # s => run'[x] = run[x]
  <2>1. ASSUME Awaited(t) PROVE Forward(run[s], r)
    <3>1. run[s].at \in DOMAIN Op /\ run[s] \in Runs
      BY <1>1, <2>1, AwaitedFacts DEF Running
    <3>2. run[s].at # "backoff" /\ run[s].at # "over"
      BY <3>1, OpFacts
    <3> QED
      BY <3>1, <3>2, AfterForward
  <2> HIDE DEF r
  <2> QED
    BY <1>1, <1>2, <2>1 DEF Running
<1> HIDE DEF r
<1>4. \A x \in Sources : Moves(x) /\ CancelledOnce(x)
  BY <1>2, <1>3 DEF Moves, CancelledOnce
<1>5. ASSUME NEW l \in leases' PROVE LeaseKept(l)'
  <2> SUFFICES ASSUME l \in leases PROVE LeaseKept(l)'
    BY <1>5
  <2>1. LeaseKept(l) /\ l.s \in Sources
    BY DEF LeftInv, LeaseKept
  <2>2. ASSUME t.op = "release", t.s = l.s, t.n = l.n PROVE FALSE
    <3>1. l = [s |-> t.s, n |-> t.n]
      BY <2>1, <2>2 DEF LeaseKept
    <3> QED
      BY <1>5, <2>2, <3>1
  <2> QED
    BY <1>2, <1>4, <2>1, <2>2, LeaseStays
<1>6. ASSUME journal = "mongo", NEW row \in rows' PROVE RowExplained(row)'
  <2> SUFFICES ASSUME row \in rows PROVE RowExplained(row)'
    BY <1>6
  <2>1. RowExplained(row) /\ row.s \in Sources
    BY <1>6 DEF LeftInv, RowExplained
  <2>2. CASE t.op = "record" /\ t.status # "RUNNING" /\ Key(t) = Key(row)
    <3>1. row.status # "RUNNING"
      BY <1>6, <2>2
    <3> QED
      BY <2>1, <3>1 DEF RowExplained
  <2>3. CASE ~(t.op = "record" /\ t.status # "RUNNING" /\ Key(t) = Key(row))
    BY <1>2, <1>4, <2>1, <2>3, RowStays
  <2> QED
    BY <2>2, <2>3
<1>7. ASSUME NEW u \in threads' PROVE CallAwaited(u)'
  <2>1. CASE u \in threads \ {t}
    <3>1. CallShape(u) /\ CallAwaited(u) /\ u.s \in Sources
      BY <2>1 DEF LeftInv, SlotInv, Running, CallShape
    <3>2. CASE run'[u.s] = run[u.s] \/ ~Awaited(u)
      BY <1>4, <3>1, <3>2, CallStays
    <3>3. CASE run'[u.s] # run[u.s] /\ Awaited(u)
      <4>1. Awaited(t) /\ u.s = s
        BY <1>2, <1>3, <3>1, <3>3
      <4>2. [u EXCEPT !.seen = {}] = [t EXCEPT !.seen = {}]
        BY <3>3, <4>1 DEF Awaited, CallOf
      <4>3. u.op = t.op /\ u.n = t.n /\ u.attempt = t.attempt /\ u.status = t.status
            /\ u # t /\ u = [op |-> u.op, s |-> u.s, n |-> u.n, attempt |-> u.attempt,
                             status |-> u.status, seen |-> u.seen]
            /\ t = [op |-> t.op, s |-> t.s, n |-> t.n, attempt |-> t.attempt,
                             status |-> t.status, seen |-> t.seen]
        <5>1. \A x : CallShape(x) =>
                /\ [x EXCEPT !.seen = {}].op = x.op /\ [x EXCEPT !.seen = {}].n = x.n
                /\ [x EXCEPT !.seen = {}].attempt = x.attempt
                /\ [x EXCEPT !.seen = {}].status = x.status
          BY DEF CallShape
        <5> QED
          BY <1>1, <2>1, <3>1, <4>2, <5>1 DEF CallShape
      <4>4. u.seen # t.seen
        BY <4>1, <4>3
      <4>5. CallAwaited(t)
        BY DEF LeftInv
      <4>6. u.op = "record" /\ journal = "json"
        BY <3>1, <4>3, <4>4, <4>5 DEF CallAwaited
      <4> QED
        BY <4>6 DEF CallAwaited
    <3> QED
      BY <3>2, <3>3
  <2>2. CASE u \notin threads \ {t}
    <3>1. Awaited(t) /\ u \in CallOf(s, run'[s])
      BY <1>2, <1>3, <2>2
    <3> QED
      BY <1>1, <1>3, <3>1, NewCalls
  <2> QED
    BY <2>1, <2>2
<1> QED
  BY <1>5, <1>6, <1>7 DEF LeftInv

\* A call that returns leaves behind only what a cancelled run may.
LEMMA CallStepLeft ==
  ASSUME SlotInv, LeftInv, NEW t \in threads, Returns(t)
  PROVE  LeftInv'
<1>1. CallShape(t) /\ t.s \in Sources /\ Running
  BY DEF SlotInv, Running, CallShape
<1> SUFFICES ASSUME faults' = 0 PROVE LeftInv'
  BY DEF LeftInv
<1>2. faults' = faults /\ faults = 0 /\ UNCHANGED <<cancelled, journal>>
  BY DEF Returns, Acquire, Renew, ReleaseLease, Work, RecordInMongo, ReadJson, WriteJson,
         CallStutters, fixed
<1>3. CallAwaited(t) /\ (\A l \in leases : LeaseKept(l))
      /\ (journal = "mongo" => \A row \in rows : RowExplained(row))
  BY <1>2 DEF LeftInv
<1>4. \A result : Awaited(t) /\ Continue(t, result)
        => /\ Forward(run[t.s], run'[t.s])
           /\ run[t.s].at = "acquiring" /\ result = "ok" => run'[t.s].at = "opening"
           /\ run[t.s].at = "opening" => /\ run'[t.s].at = "working"
                                         /\ run'[t.s].attempt = run[t.s].attempt
  <2> SUFFICES ASSUME NEW result, Awaited(t), Continue(t, result)
               PROVE  /\ Forward(run[t.s], run'[t.s])
                      /\ run[t.s].at = "acquiring" /\ result = "ok"
                           => run'[t.s].at = "opening"
                      /\ run[t.s].at = "opening"
                           => /\ run'[t.s].at = "working"
                              /\ run'[t.s].attempt = run[t.s].attempt
    OBVIOUS
  <2>1. run[t.s].at \in DOMAIN Op /\ run[t.s] \in Runs
    BY <1>1, AwaitedFacts DEF Running
  <2>2. run[t.s].at # "backoff" /\ run[t.s].at # "over"
    BY <2>1, OpFacts
  <2>3. run'[t.s] = After(t.s, run[t.s], result)
    BY <1>1 DEF Continue, Running
  <2> QED
    BY <2>1, <2>2, <2>3, AfterForward
<1>5. \A result : Continue(t, result) /\ ~Awaited(t) => run' = run
  BY DEF Continue
<1>6. CASE Acquire(t)
  <2>1. t.op = "acquire" /\ rows' = rows
    BY <1>6 DEF Acquire
  <2>2. PICK result \in {"ok", "held"} :
          /\ Continue(t, result)
          /\ result = "ok" => leases' \subseteq leases \union {[s |-> t.s, n |-> t.n]}
          /\ result = "held" => leases' = leases
    BY <1>6 DEF Acquire
  <2>3. result = "ok" => LeaseKept([s |-> t.s, n |-> t.n])'
    <3>1. CASE Awaited(t)
      <4>1. t.n = run[t.s].n /\ run[t.s].at = "acquiring"
        BY <1>1, <2>1, <3>1, AwaitedFacts, OpFacts
      <4> QED
        BY <1>1, <1>4, <2>2, <3>1, <4>1 DEF LeaseKept, Leased, Forward
    <3>2. CASE ~Awaited(t)
      <4>1. t.n = run[t.s].n /\ cancelled[t.s] = "acquiring" /\ run' = run
        BY <1>3, <1>5, <2>1, <2>2, <3>2 DEF CallAwaited
      <4> QED
        BY <1>1, <1>2, <4>1 DEF LeaseKept
    <3> QED
      BY <3>1, <3>2
  <2>4. \A l \in leases' : l \in leases \/ LeaseKept(l)'
    BY <2>2, <2>3
  <2> QED
    BY <1>2, <2>1, <2>2, <2>4, CallReturns
<1>7. CASE Renew(t)
  BY <1>2, <1>7, CallReturns DEF Renew
<1>8. CASE ReleaseLease(t)
  BY <1>2, <1>8, CallReturns DEF ReleaseLease
<1>9. CASE Work(t)
  BY <1>2, <1>9, CallReturns DEF Work
<1>10. CASE RecordInMongo(t)
  <2>1. /\ t.op = "record" /\ journal = "mongo" /\ Continue(t, "ok") /\ leases' = leases
        /\ rows' = {row \in rows : Key(row) # Key(RowOf(t))} \union {RowOf(t)}
    BY <1>10 DEF RecordInMongo, Upsert
  <2>2. /\ RowOf(t).s = t.s /\ RowOf(t).n = t.n /\ RowOf(t).attempt = t.attempt
        /\ RowOf(t).status = t.status /\ Key(RowOf(t)) = Key(t)
    BY DEF RowOf, Key
  <2>3. RowExplained(RowOf(t))'
    <3> SUFFICES ASSUME t.status = "RUNNING" PROVE RowExplained(RowOf(t))'
      BY <1>1, <2>2 DEF RowExplained
    <3>1. /\ t.n = run[t.s].n
          /\ (Awaited(t) /\ run[t.s].at = "opening") \/ cancelled[t.s] = "opening"
      BY <1>3, <2>1 DEF CallAwaited
    <3>2. CASE Awaited(t) /\ run[t.s].at = "opening"
      <4>1. t.attempt = run[t.s].attempt
        BY <1>1, <3>2, AwaitedFacts
      <4>2. run'[t.s].at = "working" /\ run'[t.s].attempt = t.attempt /\ run'[t.s].n = t.n
        BY <1>4, <2>1, <3>1, <3>2, <4>1 DEF Forward
      <4> QED
        BY <1>1, <2>2, <4>2 DEF RowExplained
    <3>3. CASE cancelled[t.s] = "opening"
      <4>1. run'[t.s].n = run[t.s].n
        BY <1>4, <1>5, <2>1 DEF Forward
      <4> QED
        BY <1>1, <1>2, <2>2, <3>1, <3>3, <4>1 DEF RowExplained
    <3> QED
      BY <3>1, <3>2, <3>3
  <2>4. /\ \A row \in rows' : row \in rows \/ RowExplained(row)'
        /\ t.status # "RUNNING" =>
             \A row \in rows' : Key(row) = Key(t) => row.status # "RUNNING"
    BY <2>1, <2>2, <2>3
  <2> QED
    BY <1>2, <2>1, <2>4, CallReturns
<1>11. CASE WriteJson(t)
  <2>1. t.op = "record" /\ journal = "json" /\ Continue(t, "ok") /\ leases' = leases
    BY <1>11 DEF WriteJson
  <2> QED
    BY <1>2, <2>1, CallReturns
<1>12. CASE ReadJson(t)
  <2>1. /\ t.op = "record" /\ journal = "json"
        /\ threads' = (threads \ {t}) \union {[t EXCEPT !.seen = {rows}]}
        /\ UNCHANGED <<run, leases, rows>>
    BY <1>12 DEF ReadJson
  <2>2. ASSUME NEW l \in leases PROVE LeaseKept(l)'
    BY <1>2, <1>3, <2>1, <2>2 DEF LeaseKept
  <2>3. ASSUME NEW u \in threads \ {t} PROVE CallAwaited(u)'
    <3>1. CallAwaited(u)
      BY <1>2 DEF LeftInv
    <3>2. Awaited(u)' <=> Awaited(u)
      BY <2>1 DEF Awaited
    <3> QED
      BY <1>2, <2>1, <3>1, <3>2 DEF CallAwaited
  <2>4. CallAwaited([t EXCEPT !.seen = {rows}])'
    <3>1. [t EXCEPT !.seen = {rows}].op = "record"
      BY <1>1, <2>1 DEF CallShape
    <3> QED
      BY <1>2, <2>1, <3>1 DEF CallAwaited
  <2>5. \A u \in threads' : CallAwaited(u)'
    BY <2>1, <2>3, <2>4
  <2> QED
    BY <1>2, <2>1, <2>2, <2>5 DEF LeftInv
<1> QED
  BY <1>6, <1>7, <1>8, <1>9, <1>10, <1>11, <1>12 DEF Returns

\* A source starts a run: its last one is over, and it was not cancelled.
LEMMA RunStarts ==
  ASSUME SlotInv, PhaseInv, LeftInv, NEW s \in Sources,
         loop[s] \in {"new", "asleep", "granted"},
         run' = [run EXCEPT ![s] = [Idle EXCEPT !.n = run[s].n + 1, !.at = "acquiring"]],
         threads' = threads \union CallOf(s, run'[s]),
         UNCHANGED <<leases, rows, cancelled, journal, faults>>
  PROVE  LeftInv'
<1>1. run[s].at = "over" /\ cancelled[s] = "none" /\ Running
  BY DEF SlotInv, Running, PhaseInv, Draining, Ended
<1>2. run[s] \in Runs
  BY DEF SlotInv, Running
<1>3. run'[s].at = "acquiring" /\ \A x \in Sources : x # s => run'[x] = run[x]
  BY <1>1, <1>2, FreshRunType DEF Running
<1>4. \A x \in Sources : Moves(x) /\ CancelledOnce(x)
  BY <1>1, <1>3 DEF Moves, CancelledOnce
<1>5. \A t \in threads : run'[t.s] = run[t.s] \/ ~Awaited(t)
  <2> TAKE t \in threads
  <2>1. CallShape(t) /\ t.s \in Sources
    BY <1>1 DEF Running, CallShape
  <2>2. Awaited(t) => run[t.s].at # "over"
    BY <2>1, AwaitedFacts, OpFacts
  <2> QED
    BY <1>1, <1>3, <2>1, <2>2
<1> QED
  BY <1>1, <1>3, <1>4, <1>5, RunsMove

\* A fire that starts a run, or gives up, leaves nothing behind.
LEMMA FireLeft ==
  ASSUME SlotInv, PhaseInv, LeftInv, NEW s \in Sources, NEW why,
         loop[s] \in {"new", "asleep"}, Fire(s, why),
         UNCHANGED <<leases, rows, cancelled, journal, faults>>
  PROVE  LeftInv'
<1>1. CASE UNCHANGED <<run, threads>>
  BY <1>1, NothingLeft
<1>2. CASE ~UNCHANGED <<run, threads>>
  <2>1. /\ run' = [run EXCEPT ![s] = [Idle EXCEPT !.n = run[s].n + 1, !.at = "acquiring"]]
        /\ threads' = threads \union
             CallOf(s, [Idle EXCEPT !.n = run[s].n + 1, !.at = "acquiring"])
    BY <1>2 DEF Fire, Enter
  <2>2. run'[s] = [Idle EXCEPT !.n = run[s].n + 1, !.at = "acquiring"]
    BY <2>1 DEF SlotInv, Running
  <2> QED
    BY <2>1, <2>2, RunStarts
<1> QED
  BY <1>1, <1>2

\* A loop, timer or job leaves nothing behind.
LEMMA SourceStepLeft ==
  ASSUME SlotInv, PhaseInv, LeftInv, NEW s \in Sources,
         LoopStep(s) \/ TimerDue(s) \/ JobTimesOut(s)
  PROVE  LeftInv'
<1>1. CASE StartLoop(s)
  <2>1. loop[s] = "new" /\ UNCHANGED <<leases, rows, cancelled, journal, faults>>
    BY <1>1 DEF StartLoop, fixed
  <2>2. CASE OnStart(config[s])
    BY <1>1, <2>1, <2>2, FireLeft DEF StartLoop
  <2>3. CASE ~OnStart(config[s])
    BY <1>1, <2>1, <2>3, NothingLeft DEF StartLoop
  <2> QED
    BY <2>2, <2>3
<1>2. CASE WokenByShutdown(s)
  BY <1>2, NothingLeft DEF WokenByShutdown, fixed
<1>3. CASE Granted(s)
  <2>1. loop[s] = "granted" /\ UNCHANGED <<leases, rows, cancelled, journal, faults>>
    BY <1>3 DEF Granted, fixed
  <2>2. CASE UNCHANGED <<run, threads>>
    BY <2>1, <2>2, NothingLeft
  <2>3. CASE ~UNCHANGED <<run, threads>>
    <3>1. /\ run' = [run EXCEPT ![s] = [Idle EXCEPT !.n = run[s].n + 1, !.at = "acquiring"]]
          /\ threads' = threads \union
               CallOf(s, [Idle EXCEPT !.n = run[s].n + 1, !.at = "acquiring"])
      BY <1>3, <2>3 DEF Granted, Enter
    <3>2. run'[s] = [Idle EXCEPT !.n = run[s].n + 1, !.at = "acquiring"]
      BY <3>1 DEF SlotInv, Running
    <3> QED
      BY <2>1, <3>1, <3>2, RunStarts
  <2> QED
    BY <2>2, <2>3
<1>4. CASE TimerDue(s)
  BY <1>4, FireLeft DEF TimerDue, fixed
<1>5. CASE BackoffOver(s)
  <2>1. /\ run[s].at = "backoff" /\ run' = [run EXCEPT ![s] = Open(run[s])]
        /\ threads' = threads \union CallOf(s, run'[s])
        /\ UNCHANGED <<leases, rows, cancelled, journal, faults>>
    BY <1>5 DEF BackoffOver, fixed
  <2>2. Running /\ run[s] \in Runs
    BY DEF SlotInv, Running
  <2>3. Forward(run[s], run'[s]) /\ \A x \in Sources : x # s => run'[x] = run[x]
    BY <2>1, <2>2, OpenForward DEF Running
  <2>4. \A x \in Sources : Moves(x) /\ CancelledOnce(x)
    BY <2>1, <2>3 DEF Moves, CancelledOnce
  <2>5. \A t \in threads : run'[t.s] = run[t.s] \/ ~Awaited(t)
    <3> TAKE t \in threads
    <3>1. CallShape(t) /\ t.s \in Sources
      BY <2>2 DEF Running, CallShape
    <3>2. Awaited(t) => run[t.s].at # "backoff"
      BY <3>1, AwaitedFacts, OpFacts
    <3> QED
      BY <2>1, <2>3, <3>1, <3>2
  <2> QED
    BY <2>1, <2>2, <2>3, <2>4, <2>5, RunsMove
<1>6. CASE JobTimesOut(s)
  BY <1>6 DEF JobTimesOut, PhaseInv, LeftInv
<1> QED
  BY <1>1, <1>2, <1>3, <1>4, <1>5, <1>6 DEF LoopStep

\* A cancelled run leaves behind only what its cancellation allows.
LEMMA CancelLeft ==
  ASSUME SlotInv, PhaseInv, LeftInv, CancelPending
  PROVE  LeftInv'
<1> DEFINE r == [s \in Sources |-> IF s \in Pending THEN OnCancel(run[s]) ELSE run[s]]
           busy == {s \in Pending : loop[s] = "firing" /\ r[s].at # "over"}
<1>1. /\ run' = r
      /\ cancelled' = [s \in Sources |-> IF s \in Pending THEN run[s].at ELSE "none"]
      /\ threads' = threads \union UNION {CallOf(s, r[s]) : s \in busy}
      /\ UNCHANGED <<leases, rows, journal, faults>> /\ phase = "serving"
  BY DEF CancelPending, fixed
<1>2. Running /\ \A s \in Sources : run[s] \in Runs
  BY DEF SlotInv, Running
<1>3. \A s \in Sources : cancelled[s] = "none"
  BY <1>1 DEF PhaseInv, Draining
<1>4. \A s \in Sources : r[s] = run[s] \/ Forward(run[s], r[s])
  BY <1>2, CancelForward
<1>5. \A s \in Sources \ Pending : r[s] = run[s]
  OBVIOUS
<1>6. \A s \in Pending : s \in Sources /\ Forward(run[s], r[s]) /\ r[s].n = run[s].n
  BY <1>2, CancelForward DEF Pending, Forward
<1>7. busy \subseteq Pending /\ Pending \subseteq Sources
  BY DEF Pending
<1>8. ASSUME NEW s \in Pending PROVE CallOf(s, r[s]) \subseteq threads'
  <2>1. CASE s \in busy
    BY <1>1, <2>1
  <2>2. CASE s \notin busy
    <3>1. r[s].at = "over"
      <4>1. loop[s] # "firing" => run[s].at = "over"
        BY <1>6, <1>8 DEF SlotInv, Running
      <4>2. run[s].at = "over" => r[s].at = "over"
        BY <1>2, <1>6, <1>8, OnCancelType
      <4> QED
        BY <1>8, <2>2, <4>1, <4>2
    <3>2. r[s].at \notin DOMAIN Op
      BY <3>1, OpFacts
    <3> QED
      BY <3>2 DEF CallOf
  <2> QED
    BY <2>1, <2>2
<1> HIDE DEF busy, r
<1>9. \A s \in Sources : Moves(s) /\ CancelledOnce(s)
  BY <1>1, <1>3, <1>5, <1>6, <1>8 DEF Moves, CancelledOnce
<1>10. \A t \in threads' \ threads : \E s \in Sources :
         t \in CallOf(s, run'[s]) /\ Forward(run[s], run'[s])
  BY <1>1, <1>6, <1>7
<1>11. \A t \in threads :
         run'[t.s] = run[t.s] \/ (cancelled'[t.s] = run[t.s].at /\ run'[t.s].n = run[t.s].n)
  <2> TAKE t \in threads
  <2>1. t.s \in Sources
    BY <1>2 DEF Running, CallShape
  <2> QED
    BY <1>1, <1>5, <1>6, <2>1
<1> QED
  BY <1>1, <1>2, <1>9, <1>10, <1>11, RunsMove

\* Every step preserves what is said of leases and rows left behind.
LEMMA LeakStep ==
  ASSUME SlotInv, PhaseInv, LeftInv, [Next]_vars
  PROVE  LeftInv'
<1>1. ASSUME NEW t \in threads, Raise(t) PROVE LeftInv'
  BY <1>1 DEF Raise, PhaseInv, LeftInv
<1>2. RequestShutdown \/ Stop \/ Exit \/ UNCHANGED vars
        => UNCHANGED <<run, threads, leases, rows, cancelled, journal, faults>>
  BY DEF RequestShutdown, Stop, Exit, vars, fixed
<1> QED
  BY <1>1, <1>2, NothingLeft, SourceStepLeft, CallStepLeft, CancelLeft DEF Next

\* In every reachable state the slots, the phases of the runs and what they left
\* behind are accounted for.
THEOREM LeakInvariant == Spec => [](SlotInv /\ PhaseInv /\ LeftInv)
<1>1. Init => PhaseInv /\ LeftInv
  BY DEF Init, PhaseInv, LeftInv, Draining
<1>2. SlotInv /\ PhaseInv /\ LeftInv /\ [Next]_vars => (PhaseInv /\ LeftInv)'
  BY PhaseStep, LeakStep
<1> QED
  BY <1>1, <1>2, SlotInvariant, PTL DEF Spec

\* What a fire takes it gives back: no slot of the semaphore is lost, whatever happens;
\* and once a worker whose calls never failed has exited, a lease or a row that still
\* says RUNNING is that of a run cancelled while it was being written.
THEOREM WorkersLeakNothing == Spec => []NothingIsLeaked
<1>1. SlotInv /\ PhaseInv /\ LeftInv => NothingIsLeaked
  <2> SUFFICES ASSUME SlotInv, PhaseInv, LeftInv PROVE NothingIsLeaked
    OBVIOUS
  <2>1. SlotsAreAccountedFor
    BY DEF SlotInv, Counted
  <2>2. ASSUME phase = "exited", faults = 0
        PROVE  /\ \A l \in leases : cancelled[l.s] = "acquiring" /\ l.n = run[l.s].n
               /\ journal = "mongo" =>
                    \A row \in rows : row.status = "RUNNING" =>
                      cancelled[row.s] = "opening" /\ row.n = run[row.s].n
    <3>1. threads = {} /\ \A s \in Sources : run[s].at = "over"
      BY <2>2 DEF PhaseInv, Ended, SlotInv, Running
    <3> QED
      BY <2>2, <3>1 DEF LeftInv, LeaseKept, RowExplained, Leased
  <2> QED
    BY <2>1, <2>2 DEF NothingIsLeaked, NothingIsLeftBehind
<1> QED
  BY <1>1, LeakInvariant, PTL

-----------------------------------------------------------------------------
(* Minima, induction and iteration over the naturals.                      *)

\* Every set of naturals that is not empty has a least member.
LEMMA LeastMember ==
  ASSUME NEW S \in SUBSET Nat, S # {}
  PROVE  /\ Min(S) \in S
         /\ \A m \in S : Min(S) <= m
<1> DEFINE R == OpToRel(<, Nat)
<1>1. IsWellFoundedOn(R, Nat)
  BY NatLessThanWellFounded
<1>2. \A i, j \in Nat : i < j => <<i, j>> \in R
  BY DEF OpToRel
<1> HIDE DEF R
<1>3. PICK n \in S : \A m \in S : ~ (<<m, n>> \in R)
  BY <1>1, WFMin
<1>4. ASSUME NEW m \in S PROVE n <= m
  <2>1. m \in Nat /\ n \in Nat /\ ~ (m < n)
    BY <1>2, <1>3
  <2> QED  BY <2>1
<1> QED
  BY <1>4 DEF Min

\* The least member is the one that no other is below.
LEMMA LeastIsUnique ==
  ASSUME NEW S \in SUBSET Nat, NEW n \in S, \A m \in S : n <= m
  PROVE  Min(S) = n
<1>1. Min(S) \in S /\ Min(S) <= n
  BY LeastMember
<1>2. n <= Min(S) /\ n \in Nat /\ Min(S) \in Nat
  BY <1>1
<1> QED
  BY <1>1, <1>2

\* Induction, over a set in the place of a predicate.
LEMMA Induction ==
  ASSUME NEW S, 0 \in S, \A n \in Nat : n \in S => n + 1 \in S
  PROVE  \A n \in Nat : n \in S
<1> SUFFICES ASSUME Nat \ S # {} PROVE FALSE
  OBVIOUS
<1> DEFINE n == Min(Nat \ S)
<1>1. n \in Nat \ S /\ \A m \in Nat \ S : n <= m
  BY LeastMember
<1> HIDE DEF n
<1>2. n # 0 /\ n - 1 \in Nat /\ ~(n <= n - 1)
  BY <1>1
<1>3. n - 1 \in S
  BY <1>1, <1>2
<1> QED
  BY <1>1, <1>2, <1>3

\* What is said of the step from one value to the next defines a function.
LEMMA Iteration ==
  ASSUME NEW V, NEW first \in V, NEW next \in [V -> V]
  PROVE  \E f \in [Nat -> V] : f[0] = first /\ \A n \in Nat : f[n + 1] = next[f[n]]
<1> DEFINE Upto(n, f) == f \in [0 .. n -> V] /\ f[0] = first /\ \A i \in 0 .. n - 1 : f[i + 1] = next[f[i]]
           Defined == {n \in Nat : \E f \in [0 .. n -> V] : Upto(n, f)}
<1>1. 0 \in Defined
  <2> DEFINE f == [i \in 0 .. 0 |-> first]
  <2>1. f \in [0 .. 0 -> V] /\ f[0] = first
    OBVIOUS
  <2>2. Upto(0, f)
    BY <2>1
  <2> QED  BY <2>1, <2>2
<1>2. ASSUME NEW n \in Nat, n \in Defined PROVE n + 1 \in Defined
  <2>1. PICK f \in [0 .. n -> V] : Upto(n, f)
    BY <1>2
  <2> DEFINE g == [i \in 0 .. n + 1 |-> IF i = n + 1 THEN next[f[n]] ELSE f[i]]
  <2>2. g \in [0 .. n + 1 -> V] /\ g[0] = first
    BY <2>1
  <2>3. ASSUME NEW i \in 0 .. (n + 1) - 1 PROVE g[i + 1] = next[g[i]]
    <3>1. CASE i = n
      BY <3>1
    <3>2. CASE i # n
      BY <2>1, <3>2
    <3> QED BY <3>1, <3>2
  <2>4. Upto(n + 1, g)
    BY <2>2, <2>3
  <2> HIDE DEF g
  <2> QED  BY <2>2, <2>4
<1> HIDE DEF Defined
<1>3. \A n \in Nat : n \in Defined
  BY <1>1, <1>2, Induction
<1> USE DEF Defined
<1> DEFINE G(n) == CHOOSE f \in [0 .. n -> V] : Upto(n, f)
<1>4. \A n \in Nat : Upto(n, G(n))
  BY <1>3
<1> HIDE DEF G, Defined
\* Any two of them agree where both are defined.
<1>5. ASSUME NEW n \in Nat PROVE G(n + 1)[n] = G(n)[n]
  <2> DEFINE Same == {i \in Nat : i <= n => G(n + 1)[i] = G(n)[i]}
  <2>1. 0 \in Same
    BY <1>4
  <2>2. ASSUME NEW i \in Nat, i \in Same PROVE i + 1 \in Same
    <3> SUFFICES ASSUME i + 1 <= n PROVE G(n + 1)[i + 1] = G(n)[i + 1]
      OBVIOUS
    <3>1. i \in 0 .. n - 1 /\ i \in 0 .. (n + 1) - 1 /\ G(n + 1)[i] = G(n)[i]
      BY <2>2
    <3>2. G(n)[i + 1] = next[G(n)[i]]
      BY <1>4, <3>1
    <3>3. G(n + 1)[i + 1] = next[G(n + 1)[i]]
      <4>1. Upto(n + 1, G(n + 1))
        BY <1>4
      <4> QED  BY <3>1, <4>1
    <3> QED  BY <3>1, <3>2, <3>3
  <2> HIDE DEF Same
  <2>3. \A i \in Nat : i \in Same
    BY <2>1, <2>2, Induction
  <2> QED  BY <2>3 DEF Same
<1> DEFINE f == [n \in Nat |-> G(n)[n]]
<1>6. f \in [Nat -> V] /\ f[0] = first
  BY <1>4
<1>7. ASSUME NEW n \in Nat PROVE f[n + 1] = next[f[n]]
  <2>1. G(n + 1)[n + 1] = next[G(n + 1)[n]]
    BY <1>4
  <2> QED  BY <1>5, <2>1
<1> QED  BY <1>6, <1>7

-----------------------------------------------------------------------------
(* The search of a cron expression.                                       *)

Minutes == [Nat -> Nat]

\* What a search with one turn more finds, after what the search with fewer finds.
Turn(cron, found) ==
  [t \in Nat |-> IF FitsToday(cron, t) # {} THEN Min(FitsToday(cron, t)) ELSE found[NextMidnight(t)]]

\* A day is as long as any other, and the day of a minute begins before it and ends after.
LEMMA DayBounds ==
  ASSUME NEW t \in Nat
  PROVE  /\ MinutesOfDay \in Nat \ {0} /\ Day(t) \in Nat
         /\ Day(t) * MinutesOfDay <= t
         /\ t < NextMidnight(t) /\ NextMidnight(t) \in Nat
<1>1. HourLength \in Nat \ {0} /\ DayLength \in Nat \ {0}
  BY CronAssumption
<1>2. MinutesOfDay \in Nat \ {0}
  BY <1>1 DEF MinutesOfDay
<1> QED
  BY <1>2 DEF Day, NextMidnight

\* Only the minutes between two midnights are of one day.
LEMMA SameDay ==
  ASSUME NEW d \in Nat, NEW t \in Nat, d * MinutesOfDay <= t, t < (d + 1) * MinutesOfDay
  PROVE  Day(t) = d
<1>1. MinutesOfDay \in Nat \ {0}
  BY DayBounds
<1> QED
  BY <1>1 DEF Day

\* Every search answers for every minute, and a turn more goes on from the midnight.
LEMMA SearchByTurns ==
  ASSUME NEW cron
  PROVE  /\ Search(cron) \in [Nat -> Minutes]
         /\ Search(cron)[0] = [t \in Nat |-> Never]
         /\ \A n \in Nat : Search(cron)[n + 1] = Turn(cron, Search(cron)[n])
<1> DEFINE first == [t \in Nat |-> Never]
           next == [found \in Minutes |-> Turn(cron, found)]
           Body(f) == [turns \in Nat |->
                         [t \in Nat |-> IF turns = 0 THEN Never
                                        ELSE IF FitsToday(cron, t) # {} THEN Min(FitsToday(cron, t))
                                        ELSE f[turns - 1][NextMidnight(t)]]]
<1>1. first \in Minutes
  BY DEF Minutes, Never
<1>2. ASSUME NEW found \in Minutes PROVE Turn(cron, found) \in Minutes
  <2> SUFFICES ASSUME NEW t \in Nat
               PROVE  (IF FitsToday(cron, t) # {} THEN Min(FitsToday(cron, t))
                       ELSE found[NextMidnight(t)]) \in Nat
    BY DEF Turn, Minutes
  <2>1. NextMidnight(t) \in Nat
    BY DayBounds
  <2>2. FitsToday(cron, t) \in SUBSET Nat
    BY <2>1 DEF FitsToday
  <2>3. FitsToday(cron, t) # {} => Min(FitsToday(cron, t)) \in Nat
    BY <2>2, LeastMember
  <2>4. found[NextMidnight(t)] \in Nat
    BY <2>1 DEF Minutes
  <2> QED
    BY <2>3, <2>4
<1>3. next \in [Minutes -> Minutes]
  BY <1>2
<1> HIDE DEF first, next
<1>4. PICK f \in [Nat -> Minutes] : f[0] = first /\ \A n \in Nat : f[n + 1] = next[f[n]]
  BY <1>1, <1>3, Iteration
<1>5. \A n \in Nat : f[n + 1] = Turn(cron, f[n])
  BY <1>4 DEF next
<1> USE DEF first
<1>6. f = Body(f)
  <2>1. ASSUME NEW n \in Nat PROVE f[n] = Body(f)[n]
    <3>1. CASE n = 0
      BY <3>1, <1>4
    <3>2. CASE n # 0
      <4>1. n - 1 \in Nat /\ (n - 1) + 1 = n
        BY <3>2
      <4>2. f[n] = Turn(cron, f[n - 1])
        BY <4>1, <1>5
      <4> QED
        BY <3>2, <4>2 DEF Turn
    <3> QED
      BY <3>1, <3>2
  <2>2. f \in [Nat -> Minutes] /\ DOMAIN Body(f) = Nat /\ Body(f) = [n \in Nat |-> Body(f)[n]]
    OBVIOUS
  <2> HIDE DEF Body
  <2> QED
    BY <2>1, <2>2
<1>7. Search(cron) = CHOOSE g : g = Body(g)
  BY DEF Search
<1> HIDE DEF Body
<1>8. Search(cron) = Body(Search(cron))
  BY <1>6, <1>7
\* Whatever solves the equation is f, turn by turn.
<1>9. \A n \in Nat : Search(cron)[n] = f[n]
  <2> DEFINE Same == {n \in Nat : Search(cron)[n] = f[n]}
  <2>1. 0 \in Same
    <3>1. Search(cron)[0] = Body(Search(cron))[0]
      BY <1>8
    <3> QED
      BY <3>1, <1>4 DEF Body
  <2>2. ASSUME NEW n \in Nat, n \in Same PROVE n + 1 \in Same
    <3>1. Search(cron)[n + 1] = Body(Search(cron))[n + 1]
      BY <1>8
    <3>2. n + 1 \in Nat /\ n + 1 # 0 /\ (n + 1) - 1 = n /\ Search(cron)[n] = f[n]
      BY <2>2
    <3>3. Body(Search(cron))[n + 1] = Turn(cron, Search(cron)[n])
      BY <3>2 DEF Body, Turn
    <3> QED
      BY <3>1, <3>2, <3>3, <1>5
  <2> HIDE DEF Same
  <2>3. \A n \in Nat : n \in Same
    BY <2>1, <2>2, Induction
  <2> QED
    BY <2>3 DEF Same
<1>10. Search(cron) \in [Nat -> Minutes]
  <2>1. Search(cron) = [n \in Nat |-> Search(cron)[n]]
    BY <1>8 DEF Body
  <2> QED
    BY <2>1, <1>9, <1>4
<1> QED
  BY <1>4, <1>5, <1>9, <1>10

\* The minutes a cron matches, from t on and on so many days.
Slots(cron, t, days) ==
  {m \in t .. (Day(t) + days) * MinutesOfDay - 1 : Matches(cron, m)}

\* A day further is as many minutes further.
LEMMA DayFurther ==
  ASSUME NEW a \in Nat, NEW b \in Nat
  PROVE  /\ a * MinutesOfDay \in Nat
         /\ (a + 1) * MinutesOfDay = a * MinutesOfDay + MinutesOfDay
         /\ (a + b) * MinutesOfDay = a * MinutesOfDay + b * MinutesOfDay
<1>1. MinutesOfDay \in Nat
  BY DayBounds
<1> QED
  BY <1>1

\* The minutes of today that fit are the matches of today.
LEMMA TodaysSlots ==
  ASSUME NEW cron, NEW t \in Nat
  PROVE  FitsToday(cron, t) = {m \in t .. NextMidnight(t) - 1 : Matches(cron, m)}
<1>1. ASSUME NEW m \in t .. NextMidnight(t) - 1 PROVE Day(m) = Day(t)
  <2>0. NextMidnight(t) \in Nat /\ Day(t) \in Nat /\ Day(t) * MinutesOfDay <= t
    BY DayBounds
  <2>1. /\ m \in Nat /\ t <= m /\ m < NextMidnight(t)
        /\ Day(t) \in Nat /\ Day(t) * MinutesOfDay \in Nat /\ Day(t) * MinutesOfDay <= t
    BY <2>0, DayFurther
  <2>2. Day(t) * MinutesOfDay <= m /\ m < (Day(t) + 1) * MinutesOfDay
    BY <2>1 DEF NextMidnight
  <2> QED
    BY <2>1, <2>2, SameDay
<1>2. \A m \in t .. NextMidnight(t) - 1 : DayFits(cron, m) <=> DayFits(cron, t)
  BY <1>1 DEF DayFits, DayMatches, Month, DayOfMonth, DayOfWeek
<1> QED
  BY <1>2 DEF FitsToday, Matches

\* The search answers with the first match on the days it has turns for, if there is one.
LEMMA SearchFindsFirst ==
  ASSUME NEW cron
  PROVE  \A days \in Nat : \A t \in Nat :
           Search(cron)[days][t] =
             IF Slots(cron, t, days) = {} THEN Never ELSE Min(Slots(cron, t, days))
<1> DEFINE Found == {days \in Nat : \A t \in Nat :
                       Search(cron)[days][t] =
                         IF Slots(cron, t, days) = {} THEN Never ELSE Min(Slots(cron, t, days))}
<1>1. 0 \in Found
  <2> SUFFICES ASSUME NEW t \in Nat
               PROVE  Search(cron)[0][t] = Never /\ Slots(cron, t, 0) = {}
    OBVIOUS
  <2>1. Search(cron)[0][t] = Never
    BY SearchByTurns
  <2>2. Day(t) + 0 = Day(t) /\ Day(t) * MinutesOfDay \in Nat /\ Day(t) * MinutesOfDay <= t
    BY DayBounds, DayFurther
  <2>3. t .. Day(t) * MinutesOfDay - 1 = {}
    BY <2>2
  <2> QED
    BY <2>1, <2>2, <2>3 DEF Slots
<1>2. ASSUME NEW k \in Nat, k \in Found PROVE k + 1 \in Found
  <2> SUFFICES ASSUME NEW t \in Nat
               PROVE  Search(cron)[k + 1][t] = IF Slots(cron, t, k + 1) = {} THEN Never
                                               ELSE Min(Slots(cron, t, k + 1))
    OBVIOUS
  <2> DEFINE T == NextMidnight(t)
             E == (Day(t) + (k + 1)) * MinutesOfDay
             F == FitsToday(cron, t)
             S == Slots(cron, t, k + 1)
             L == Slots(cron, T, k)
  <2>1. Search(cron)[k + 1][t] = IF F # {} THEN Min(F) ELSE Search(cron)[k][T]
    <3>1. Search(cron)[k + 1] = Turn(cron, Search(cron)[k])
      BY SearchByTurns
    <3> QED
      BY <3>1 DEF Turn
  <2>2. /\ T \in Nat /\ t < T /\ T = (Day(t) + 1) * MinutesOfDay
        /\ Day(t) \in Nat /\ MinutesOfDay \in Nat \ {0}
    BY DayBounds DEF NextMidnight
  <2>3. Day(T) = Day(t) + 1
    <3>1. Day(t) + 1 \in Nat
      BY <2>2
    <3>2. ((Day(t) + 1) + 1) * MinutesOfDay = (Day(t) + 1) * MinutesOfDay + MinutesOfDay
      BY <3>1, DayFurther
    <3> HIDE DEF T
    <3> QED
      BY <2>2, <3>1, <3>2, SameDay
  <2>4. E \in Nat /\ T <= E /\ E = (Day(T) + k) * MinutesOfDay
    <3>1. Day(t) + 1 \in Nat /\ Day(t) + (k + 1) = (Day(t) + 1) + k
      BY <2>2
    <3>2. /\ ((Day(t) + 1) + k) * MinutesOfDay = (Day(t) + 1) * MinutesOfDay + k * MinutesOfDay
          /\ k * MinutesOfDay \in Nat
      BY <3>1, DayFurther
    <3> HIDE DEF T
    <3> QED
      BY <2>2, <2>3, <3>1, <3>2
  <2>5. F = {m \in t .. T - 1 : Matches(cron, m)}
    BY TodaysSlots
  <2>6. S = {m \in t .. E - 1 : Matches(cron, m)} /\ L = {m \in T .. E - 1 : Matches(cron, m)}
    BY <2>4 DEF Slots
  <2>7. Search(cron)[k][T] = IF L = {} THEN Never ELSE Min(L)
    BY <2>2, <1>2
  <2> HIDE DEF T, E, F, S, L
  <2>8. CASE F # {}
    <3>1. F \in SUBSET Nat
      BY <2>2, <2>5
    <3>2. Min(F) \in F /\ \A m \in F : Min(F) <= m
      BY <2>8, <3>1, LeastMember
    <3>3. S \in SUBSET Nat /\ Min(F) \in S
      BY <2>2, <2>4, <2>5, <2>6, <3>2
    <3>4. ASSUME NEW m \in S PROVE Min(F) <= m
      <4>1. CASE m < T
        BY <2>2, <2>4, <2>5, <2>6, <3>2, <4>1
      <4>2. CASE ~(m < T)
        <5>1. Min(F) \in Nat /\ Min(F) <= T - 1 /\ m \in Nat
          BY <2>2, <2>4, <2>5, <2>6, <3>2
        <5> QED
          BY <2>2, <4>2, <5>1
      <4> QED
        BY <4>1, <4>2
    <3>5. Min(S) = Min(F)
      BY <3>3, <3>4, LeastIsUnique
    <3> QED
      BY <2>1, <2>8, <3>3, <3>5 DEF S
  <2>9. CASE F = {}
    <3>1. S = L
      <4>1. \A m \in t .. E - 1 : Matches(cron, m) => m \in T .. E - 1
        BY <2>2, <2>4, <2>5, <2>9
      <4> QED
        BY <2>2, <2>4, <2>6, <4>1
    <3> QED
      BY <2>1, <2>7, <2>9, <3>1 DEF S
  <2> QED
    BY <2>8, <2>9
<1> HIDE DEF Found
<1>3. \A days \in Nat : days \in Found
  BY <1>1, <1>2, Induction
<1> QED
  BY <1>3 DEF Found


\* A cron's next firing is its first match after the moment it is asked at.
LEMMA NextAfterIsFirst ==
  ASSUME NEW cron, NEW t \in Nat
  PROVE  LET slots == {m \in t + 1 .. Reach(t) : Matches(cron, m)}
         IN  /\ slots \in SUBSET Nat
             /\ slots = {} => NextAfter(cron, t) = Never
             /\ slots # {} => NextAfter(cron, t) = Min(slots) /\ Min(slots) \in slots
<1> DEFINE slots == {m \in t + 1 .. Reach(t) : Matches(cron, m)}
<1>1. t + 1 \in Nat /\ DayScan \in Nat
  BY CronAssumption
<1>2. Search(cron)[DayScan][t + 1] =
        IF Slots(cron, t + 1, DayScan) = {} THEN Never ELSE Min(Slots(cron, t + 1, DayScan))
  BY <1>1, SearchFindsFirst
<1>3. Slots(cron, t + 1, DayScan) = slots
  BY DEF Slots, Reach
<1>4. NextAfter(cron, t) = Search(cron)[DayScan][t + 1]
  BY DEF NextAfter, FirstFrom
<1>5. slots \in SUBSET Nat
  BY <1>1
<1> HIDE DEF slots
<1>6. slots # {} => Min(slots) \in slots
  BY <1>5, LeastMember
<1>7. /\ slots \in SUBSET Nat
      /\ slots = {} => NextAfter(cron, t) = Never
      /\ slots # {} => NextAfter(cron, t) = Min(slots) /\ Min(slots) \in slots
  BY <1>2, <1>3, <1>4, <1>5, <1>6
<1> QED
  BY <1>7 DEF slots

\* A schedule fires strictly later, a cron at its first match.
LEMMA SchedulesFire ==
  ASSUME NEW spec, WellFormed(spec), NEW t \in Nat
  PROVE  /\ \A m \in NextFires(spec, t) : m > t
         /\ \A cron \in spec.cron :
              LET slots == {m \in t + 1 .. Reach(t) : Matches(cron, m)}
              IN NextFires(spec, t) =
                   IF slots = {} THEN {} ELSE Min(slots) .. Min(slots) + spec.jitter
<1>1. CASE spec.cron = {}
  <2>1. spec.jitter \in Nat /\ spec.interval \in Nat \ {0}
    BY <1>1 DEF WellFormed
  <2>2. NextFires(spec, t) = t + spec.interval .. t + spec.interval + spec.jitter
    BY <1>1 DEF NextFires
  <2> QED
    BY <1>1, <2>1, <2>2
<1>2. CASE spec.cron # {}
  <2>1. PICK c \in spec.cron : spec.cron = {c}
    BY <1>2 DEF WellFormed
  <2> DEFINE slots == {m \in t + 1 .. Reach(t) : Matches(c, m)}
             base == NextAfter(c, t)
  <2>2. (CHOOSE d \in spec.cron : TRUE) = c
    BY <2>1
  <2>3. NextFires(spec, t) = IF base = Never THEN {} ELSE base .. base + spec.jitter
    BY <1>2, <2>2 DEF NextFires
  <2>4. /\ slots = {} => base = Never
        /\ slots # {} => base = Min(slots) /\ Min(slots) \in slots
    BY NextAfterIsFirst
  <2>5. \A m \in slots : m \in Nat /\ m > t
    OBVIOUS
  <2> HIDE DEF slots, base
  <2>6. slots # {} => base # Never /\ base \in Nat /\ base > t
    BY <2>4, <2>5 DEF Never
  <2>7. NextFires(spec, t) = IF slots = {} THEN {} ELSE Min(slots) .. Min(slots) + spec.jitter
    BY <2>3, <2>4, <2>6
  <2>8. \A m \in NextFires(spec, t) : m > t
    <3>1. spec.jitter \in Nat
      BY DEF WellFormed
    <3> QED
      BY <2>4, <2>6, <2>7, <3>1
  <2> USE DEF slots
  <2>9. \A cron \in spec.cron : cron = c
    BY <2>1
  <2> QED
    BY <2>7, <2>8, <2>9
<1> QED
  BY <1>1, <1>2

\* Whatever the calendar, the crons and the moments: next_after answers with the first
\* minute that matches after the one it is given, within the days it scans, and next_fire_at
\* with that minute and at most the jitter more, so that a worker skips no slot and fires
\* none twice.
THEOREM NextFireIsFirst == Spec => []NextFireIsTheNextSlot
<1>1. SchedulesFireNext
  BY ScheduleAssumption, SchedulesFire DEF SchedulesFireNext, FiresNextAndLater
<1>2. NextFireIsTheNextSlot
  BY <1>1 DEF NextFireIsTheNextSlot
<1> QED
  BY <1>2, PTL
=============================================================================
