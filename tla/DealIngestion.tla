---------------------------- MODULE DealIngestion ----------------------------
(***************************************************************************)
(* IngestionService.ingest and DealProjector.apply for one source: load    *)
(* the heads, plan, then write in four bulk steps                          *)
(*     close_current -> append_many -> heads.bulk_upsert -> projection     *)
(* any of which an interruption (worker crash, run timeout, cancellation,  *)
(* failed database write) may cut short, with any part of the bulk write   *)
(* applied.  Nothing survives an interruption but the collections:         *)
(*     heads   deals_current, one head per deal_key                        *)
(*     rows    deal_versions, the SCD2 history                             *)
(*     deals   the flat read model every consumer reads                    *)
(* Runs of one source do not overlap here: that is the run lock's promise, *)
(* which RunLease examines.                                                *)
(*                                                                         *)
(* The scrape stage leaves records it has archived before out of a run.    *)
(* This module supposes it only leaves out a record whose fingerprint the  *)
(* head of the deal carries; ScrapePipeline has the real rule.             *)
(***************************************************************************)
EXTENDS DealPlan

CONSTANTS
    Storage,         \* "mongo" or "json": the DEALS_STORAGE backend
    DeleteExpired,   \* DEALS_DELETE_EXPIRED
    MaxTime,         \* bound of the clock, and so of the runs
    MaxInterrupts    \* bound of the interruptions

ASSUME IngestionAssumption ==
    /\ Storage \in {"mongo", "json"}
    /\ DeleteExpired \in BOOLEAN
    /\ MaxTime \in Nat
    /\ MaxInterrupts \in Nat

VARIABLES
    now,           \* the wall clock
    heads,         \* deals_current
    rows,          \* deal_versions
    deals,         \* the read model
    job,           \* the run in progress: its next step, its plan, its input
    interrupts,    \* interruptions so far
    settled,       \* history: the last run that started ran to its end
    rejected,      \* history: the database refused an append_many
    last_listed,   \* history: when a finished run last listed the deal
    misses         \* history: healthy runs that finished since, without the deal

store == <<heads, rows, deals>>
history == <<settled, rejected, last_listed, misses>>
vars == <<now, heads, rows, deals, job, interrupts, settled, rejected,
          last_listed, misses>>

Idle == [pc |-> "idle"]
Listings == [Keys -> Contents \union {Null}]
Nothing == [k \in Keys |-> Null]
Later == now + 1 .. MaxTime

Init ==
    /\ now = 0
    /\ heads = Nothing
    /\ rows = {}
    /\ deals = Nothing
    /\ job = Idle
    /\ interrupts = 0
    /\ settled = TRUE
    /\ rejected = FALSE
    /\ last_listed = [k \in Keys |-> 0]
    /\ misses = [k \in Keys |-> 0]

-----------------------------------------------------------------------------
(* A run starts: get_by_source, then plan_ingestion with the clock's now.  *)
(* The clock is read here and nowhere else, and moves between two runs.    *)

\* The statuses of which the projector deletes the rows.
Deletable == IF DeleteExpired THEN {"expired"} ELSE {}

Start(listing, incoming, run) ==
    /\ job = Idle
    /\ now' = run.at
    /\ job' = [pc |-> "close", plan |-> Plan(heads, incoming, run),
               at |-> run.at, listing |-> listing, deletes |-> IF run.sweep THEN Deletable ELSE {}]
    /\ settled' = FALSE
    /\ UNCHANGED <<store, interrupts, rejected, last_listed, misses>>

SeenIn(listing) == {Fingerprint(k, listing[k]) : k \in {x \in Keys : listing[x] # Null}}

\* A scrape that listed deals, of which those in dropped were left out as known.
Scrape(listing, dropped, at) ==
    Start(listing,
          [k \in Keys |-> IF k \in dropped THEN Null ELSE listing[k]],
          [at |-> at, ok |-> TRUE, seen |-> SeenIn(listing), fps |-> TRUE,
           sweep |-> TRUE, react |-> TRUE])

KnownToHead(listing, k) ==
    /\ listing[k] # Null
    /\ heads[k] # Null
    /\ heads[k].raw_fingerprint = Fingerprint(k, listing[k])

ScrapeRun ==
    \E listing \in Listings, at \in Later :
        \E dropped \in SUBSET {k \in Keys : KnownToHead(listing, k)} :
            Scrape(listing, dropped, at)

\* A scraper that raised returns no deals and one error.
FailedScrape(at) ==
    Start(Nothing, Nothing,
          [at |-> at, ok |-> FALSE, seen |-> {}, fps |-> TRUE,
           sweep |-> TRUE, react |-> TRUE])

FailedScrapeRun == \E at \in Later : FailedScrape(at)

\* `deals process`: the deals of the raw archive, without a scrape.  It sweeps nothing, and
\* its projector is not told to delete what is expired.
Rebuild(incoming, at) ==
    Start(Nothing, incoming,
          [at |-> at, ok |-> TRUE, seen |-> {}, fps |-> FALSE,
           sweep |-> FALSE, react |-> FALSE])

RebuildRun == \E incoming \in Listings, at \in Later : Rebuild(incoming, at)

-----------------------------------------------------------------------------
(* The bulk writes.  Each takes the deal keys it gets round to writing.    *)

\* Mutants: the validity window of a closed row stays open, or ends a tick
\* before the next one begins; only active rows are closed.
ClosedOpenEnded(keys) ==
    { IF r.is_current /\ r.deal_key \in job.plan.closures \intersect keys
      THEN [r EXCEPT !.is_current = FALSE] ELSE r : r \in rows }

Closed(keys) ==
    { IF r.is_current /\ r.deal_key \in job.plan.closures \intersect keys
      THEN [r EXCEPT !.is_current = FALSE, !.valid_to = job.at]
      ELSE r : r \in rows }

Planned(keys) == {r \in job.plan.versions : r.deal_key \in keys}

SameVersion(r, s) == r.deal_key = s.deal_key /\ r.version = s.version

\* Mutant: the upsert overwrites the stored row.
RefusedNever(keys) == {}

\* MongoDB refuses to change the _id of the stored row, and every planned row
\* has an _id of its own; the partial index allows one current row per key.
Refused(keys) ==
    {r \in Planned(keys) : /\ Storage = "mongo"
                           /\ \E s \in rows : \/ SameVersion(r, s)
                                              \/ s.deal_key = r.deal_key /\ s.is_current}

\* The JSON store replaces a row with the same key and version.
Appended(keys) ==
    LET written == Planned(keys) \ Refused(keys)
    IN  {s \in rows : \A r \in written : ~SameVersion(r, s)} \union written

Upserted(keys) ==
    [k \in Keys |-> IF k \in keys \intersect DOMAIN job.plan.heads
                    THEN job.plan.heads[k] ELSE heads[k]]

\* _deal_from_head: the deals row a head describes.
Projection(head) ==
    [ status       |-> head.status,
      content      |-> head.content,
      last_seen_at |-> head.last_seen_at,
      expired_at   |-> IF head.status = "expired" THEN head.valid_to ELSE Null ]

Mirror(head, deletes) ==
    IF head.status \in deletes THEN Null ELSE Projection(head)

Projected(keys) ==
    [k \in Keys |-> IF k \in keys \intersect DOMAIN job.plan.heads
                    THEN Mirror(job.plan.heads[k], job.deletes) ELSE deals[k]]

\* A run that may count as a miss of what it did not list: the scrape worked and
\* listed enough.
Healthy ==
    LET listed == {k \in Keys : job.listing[k] # Null}
        active == {k \in Keys : heads[k] # Null /\ heads[k].status = "active"}
    IN  /\ listed # {}
        /\ CoverageDen * Cardinality(listed) >= CoverageNum * Cardinality(active)

\* What the heads of these keys now record of the run, for the properties.
Record(keys) ==
    /\ last_listed' = [k \in Keys |-> IF k \in keys /\ job.listing[k] # Null
                                      THEN job.at ELSE last_listed[k]]
    /\ misses' = [k \in Keys |-> IF k \in keys /\ job.listing[k] # Null THEN 0
                                 ELSE IF k \in keys /\ Healthy
                                 THEN misses[k] + 1 ELSE misses[k]]

\* Mutant: the heads are written first.
CloseCurrentAfterHeads ==
    /\ job.pc = "close"
    /\ rows' = Closed(Keys)
    /\ heads' = Upserted(Keys)
    /\ job' = [job EXCEPT !.pc = "append"]
    /\ Record(Keys)
    /\ UNCHANGED <<now, deals, interrupts, settled, rejected>>

CloseCurrent ==
    /\ job.pc = "close"
    /\ rows' = Closed(Keys)
    /\ job' = [job EXCEPT !.pc = "append"]
    /\ UNCHANGED <<now, heads, deals, interrupts, history>>

\* Mutant: the read model is written before the heads are durable.
AppendManyAndProject ==
    /\ job.pc = "append"
    /\ Refused(Keys) = {}
    /\ rows' = Appended(Keys)
    /\ deals' = Projected(Keys)
    /\ job' = [job EXCEPT !.pc = "heads"]
    /\ UNCHANGED <<now, heads, interrupts, history>>

AppendMany ==
    /\ job.pc = "append"
    /\ Refused(Keys) = {}
    /\ rows' = Appended(Keys)
    /\ job' = [job EXCEPT !.pc = "heads"]
    /\ UNCHANGED <<now, heads, deals, interrupts, history>>

\* The unordered bulk write applies what it can, then raises: the run ends.
AppendRefused ==
    /\ job.pc = "append"
    /\ Refused(Keys) # {}
    /\ rows' = Appended(Keys)
    /\ job' = Idle
    /\ rejected' = TRUE
    /\ UNCHANGED <<now, heads, deals, interrupts, settled, last_listed, misses>>

UpsertHeads ==
    /\ job.pc = "heads"
    /\ heads' = Upserted(Keys)
    /\ job' = [job EXCEPT !.pc = "project"]
    /\ Record(Keys)
    /\ UNCHANGED <<now, rows, deals, interrupts, settled, rejected>>

Project ==
    /\ job.pc = "project"
    /\ deals' = Projected(Keys)
    /\ job' = Idle
    /\ settled' = TRUE
    /\ UNCHANGED <<now, heads, rows, interrupts, rejected, last_listed, misses>>

\* The JSON store replaces its file as a whole; a Mongo bulk write does not.
PartsOf(keys) == IF Storage = "json" THEN {{}, keys} ELSE SUBSET keys

\* What the projector deletes, in a second write.
Deleted ==
    IF job.pc = "project"
    THEN {k \in DOMAIN job.plan.heads : Mirror(job.plan.heads[k], job.deletes) = Null}
    ELSE {}

PartialWrites ==
    PartsOf(Keys \ Deleted) \union {(Keys \ Deleted) \union gone : gone \in PartsOf(Deleted)}

\* The run is cut short in the middle of its current write.
Interrupt ==
    /\ job # Idle
    /\ interrupts < MaxInterrupts
    /\ interrupts' = interrupts + 1
    /\ \E keys \in PartialWrites :
          /\ rows' = CASE job.pc = "close"  -> Closed(keys)
                       [] job.pc = "append" -> Appended(keys)
                       [] OTHER             -> rows
          /\ heads' = IF job.pc = "heads" THEN Upserted(keys) ELSE heads
          /\ deals' = IF job.pc = "project" THEN Projected(keys) ELSE deals
          /\ Record(IF job.pc = "heads" THEN keys ELSE {})
    /\ job' = Idle
    /\ UNCHANGED <<now, settled, rejected>>

Next ==
    \/ ScrapeRun
    \/ FailedScrapeRun
    \/ RebuildRun
    \/ CloseCurrent
    \/ AppendMany
    \/ AppendRefused
    \/ UpsertHeads
    \/ Project
    \/ Interrupt

Spec == Init /\ [][Next]_vars
-----------------------------------------------------------------------------
(* Types.                                                                  *)

DealRows ==
    [ status : {"active", "expired"}, content : Contents,
      last_seen_at : Nat, expired_at : Nat \union {Null} ]

\* Every variable holds what the collections, the run and the history may
\* hold (the document shapes of CurrentDeal, DealVersion and Deal).
TypeOK ==
    /\ now \in Nat
    /\ \A k \in Keys : heads[k] # Null => heads[k] \in Heads
    /\ \A r \in rows : r \in Rows
    /\ \A k \in Keys : deals[k] # Null => deals[k] \in DealRows
    /\ job.pc \in {"idle", "close", "append", "heads", "project"}
    /\ job # Idle => /\ job.at \in Nat
                     /\ job.listing \in Listings
                     /\ job.deletes \in {{}, Deletable}
                     /\ job.plan.closures \subseteq Keys
                     /\ \A r \in job.plan.versions : r \in Rows
                     /\ DOMAIN job.plan.heads \subseteq Keys
                     /\ \A k \in DOMAIN job.plan.heads : job.plan.heads[k] \in Heads
    /\ interrupts \in 0 .. MaxInterrupts
    /\ last_listed \in [Keys -> Nat]
    /\ misses \in [Keys -> Nat]

-----------------------------------------------------------------------------
(* What holds whatever interrupts the runs.                                *)

\* Versions are appended before the heads: whatever cut a run short, the row a
\* head points at is in the history and says what the head says.
HeadRowIsDurable ==
    \A k \in Keys : heads[k] # Null =>
        \E r \in rows : /\ r.deal_key = k
                        /\ r.version = heads[k].version
                        /\ r.status = heads[k].status
                        /\ r.content = heads[k].content

\* The history of a deal has one row per version and no version is skipped, so
\* get_history tells the deal's whole story.
HistoryHasNoGaps ==
    \A r \in rows :
        /\ \A s \in rows : SameVersion(r, s) => r = s
        /\ r.version > 1 => \E s \in rows : s.deal_key = r.deal_key
                                            /\ s.version = r.version - 1

\* At most one row of a deal is current (on JSON no index enforces it: closing
\* before appending has to be enough).
OneCurrentRow ==
    \A r, s \in rows :
        r.deal_key = s.deal_key /\ r.is_current /\ s.is_current => r = s

InEffect(r, t) == r.valid_from <= t /\ (r.valid_to = Null \/ t < r.valid_to)

\* as_of never has two rows to choose from: the validity windows of a deal's
\* versions do not overlap, even when a redone run closed and reopened them.
AsOfIsUnambiguous ==
    \A k \in Keys, t \in 0 .. MaxTime :
        \A r, s \in rows :
            r.deal_key = k /\ s.deal_key = k /\ InEffect(r, t) /\ InEffect(s, t) => r = s

\* deal_versions is append-only: a stored row never changes, except that it is
\* closed, once.
ClosedFrom(r, s) == s = [r EXCEPT !.is_current = FALSE, !.valid_to = s.valid_to]

HistoryIsAppendOnly ==
    [][\A r \in rows : \E s \in rows' : s = r \/ (r.is_current /\ ClosedFrom(r, s))]_vars

\* The read model may lag the heads but never leads them: what deals says of a
\* deal was true of a head already stored.
ReadModelNeverLeads ==
    \A k \in Keys : deals[k] # Null =>
        /\ heads[k] # Null
        /\ deals[k].last_seen_at <= heads[k].last_seen_at
        /\ deals[k].status = "expired" =>
               \/ heads[k].status = "expired"
               \/ heads[k].last_seen_at >= deals[k].expired_at

Expires(k) == heads[k] # Null /\ heads[k].status = "active" /\ heads'[k].status = "expired"

\* A deal with no end date of its own expires only after absence_threshold runs
\* in a row that worked, listed min_coverage_ratio of what was active and missed
\* it, and only absence_grace after it was last listed, however runs were cut
\* short in between.
ExpiryNeedsAbsence ==
    [][\A k \in Keys :
         Expires(k) /\ ~Ended(heads'[k].content, now) =>
             /\ misses'[k] >= AbsenceThreshold
             /\ heads'[k].valid_to - last_listed[k] >= AbsenceGrace]_vars

\* A run that saw nothing of the source (the scraper raised or came back empty,
\* or it is a rebuild from the archive) retires no deal but one past its own end
\* date.
BlindRunsRetireNothing ==
    [][\A k \in Keys :
         Expires(k) /\ job.listing = Nothing => Ended(heads'[k].content, now)]_vars

\* A deal retires because it was seen missing or because it is over, never because the
\* program was blind.
DealsRetireForAReason == ExpiryNeedsAbsence /\ BlindRunsRetireNothing

\* A rebuild from the raw archive brings no expired deal back.
OnlyAScrapeReactivates ==
    [][\A k \in Keys :
         /\ heads[k] # Null
         /\ heads[k].status = "expired"
         /\ heads'[k].status = "active"
         => job.listing[k] # Null]_vars

-----------------------------------------------------------------------------
(* The log of versions that the collections stand for.                     *)

LogEntry(k, row) ==
    [deal |-> k, version |-> row.version, status |-> row.status, content |-> row.content]

Unpublished == [version |-> 0]

Log == INSTANCE DealLog WITH
           Deals     <- Keys,
           log       <- {LogEntry(r.deal_key, r) : r \in rows},
           published <- [k \in Keys |-> IF heads[k] = Null THEN Unpublished
                                                          ELSE LogEntry(k, heads[k])]

\* Whatever cuts the runs short, deal_versions and deals_current are a log of
\* drafted and published versions: a published version is in the log and never
\* changes, and one that a crash left behind a head is only ever written again
\* before it is published.
ImplementsLog == Log!Spec

-----------------------------------------------------------------------------
(* What holds between runs as long as nothing is interrupted.              *)

Undisturbed == job = Idle /\ interrupts = 0

\* The current row of a deal is the one its head points at, so the history and
\* the head table agree on what the deal is now.
HeadIsCurrentRow ==
    Undisturbed => \A k \in Keys, r \in rows :
        r.deal_key = k /\ r.is_current => heads[k] # Null /\ r.version = heads[k].version

\* From the first sight of a deal on, as_of finds exactly one version.
AsOfIsTotal ==
    Undisturbed => \A k \in Keys, t \in 0 .. now :
        (\E r \in rows : r.deal_key = k /\ r.valid_from <= t)
            => \E r \in rows : r.deal_key = k /\ InEffect(r, t)

\* The read model shows what the heads say; an expired deal is deleted only if the
\* deployment wants it so, and not where a rebuild found it over.
ReadModelMirrorsHeads ==
    \A k \in Keys :
        deals[k] \in IF heads[k] = Null THEN {Null}
                     ELSE {Mirror(heads[k], deletes) : deletes \in {{}, Deletable}}

\* Between runs, the read model shows what the heads say.
ReadModelIsCurrent == Undisturbed => ReadModelMirrorsHeads

-----------------------------------------------------------------------------
(* What the documentation promises and the code does not keep.             *)

\* "A run that crashed halfway through last time is fully repaired by the next
\* one" (projection.py:28-30): after a run that ran to its end, no deal whose
\* head is expired is still served as active.
ExpiredIsNotServed ==
    job = Idle /\ settled =>
        \A k \in Keys : heads[k] # Null /\ heads[k].status = "expired" =>
            (deals[k] # Null => deals[k].status = "expired")

\* "append the new version rows (upsert on deal_key + version)", so that a run
\* can be redone (ingestion.py:481-488), and "a replay is a no-op": no append is
\* refused by the database, after an interruption either.
RedoneAppendsAreAccepted == ~rejected

\* "Expire deals whose source-declared end date has passed, even if the source
\* still lists them" (ingestion.py:90-92): once a run has gone through, no head
\* is active past its end date.
PastEndDateIsExpired ==
    job = Idle /\ settled =>
        \A k \in Keys : heads[k] # Null => ~PastEndDate(heads[k], now)
=============================================================================
