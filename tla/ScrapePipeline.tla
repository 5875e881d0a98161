--------------------------- MODULE ScrapePipeline ---------------------------
(***************************************************************************)
(* The pipeline of one source around DealIngestion:                        *)
(*   scrape -> archive the raw records -> match -> review queue / ingest   *)
(* The scrape stage keeps a raw archive and lets through only records      *)
(* whose fingerprint is not archived yet; it archives them before anything *)
(* else is done with them.  The match stage resolves the store of a record *)
(* or sends it to the review queue, where a person approves or discards it *)
(* (ReviewActions).  `deals process` rebuilds the deals from the archive.  *)
(***************************************************************************)
EXTENDS DealIngestion, SequencesExt

CONSTANTS
    KnownStores,   \* deals whose store the matcher resolves from the start
    WithRebuild    \* whether `deals process` is ever run

ASSUME PipelineAssumption ==
    /\ KnownStores \subseteq Keys
    /\ WithRebuild \in BOOLEAN

VARIABLES
    archive,    \* raw_source_deals: contents archived per deal, oldest first
    batch,      \* the scrape between its archive step and its ingestion
    matched,    \* deals whose store the alias index resolves
    queue,      \* pending review items
    approvals   \* deals rows written by an approved review, under the id of the raw record

pipeline == <<archive, batch, matched, queue, approvals>>
allvars == <<vars, pipeline>>

NoBatch == [pc |-> "none"]

PipelineInit ==
    /\ Init
    /\ archive = [k \in Keys |-> <<>>]
    /\ batch = NoBatch
    /\ matched = KnownStores
    /\ queue = {}
    /\ approvals = {}

Archived == UNION {{Fingerprint(k, c) : c \in ToSet(archive[k])} : k \in Keys}

Listed(listing) == {k \in Keys : listing[k] # Null}

\* exists_by_fingerprint is asked of every record before any of them is saved.
Fresh(listing) == {k \in Listed(listing) : Fingerprint(k, listing[k]) \notin Archived}

\* save_many: of new records that share a fingerprint the unique index keeps one.
Savable(listing, keys) ==
    \A k, l \in keys : Fingerprint(k, listing[k]) = Fingerprint(l, listing[l]) => k = l

\* Mutant: one record per deal, the first.
SaveOnce(listing, keys) ==
    archive' = [k \in Keys |-> IF k \in keys /\ archive[k] = <<>>
                               THEN <<listing[k]>> ELSE archive[k]]

Save(listing, keys) ==
    archive' = [k \in Keys |-> IF k \in keys THEN Append(archive[k], listing[k])
                                             ELSE archive[k]]

-----------------------------------------------------------------------------
(* Stage 1: scrape, and archive what is new.                               *)

ScrapeAndArchive ==
    /\ job = Idle
    /\ batch = NoBatch
    /\ \E listing \in Listings, at \in Later, keys \in SUBSET Keys :
          /\ keys \subseteq Fresh(listing)
          /\ Savable(listing, keys)
          /\ \A k \in Fresh(listing) : \E l \in keys :
                Fingerprint(k, listing[k]) = Fingerprint(l, listing[l])
          /\ Save(listing, keys)
          /\ batch' = [pc |-> "archived", listing |-> listing,
                       fresh |-> Fresh(listing), at |-> at]
          /\ now' = at
    /\ UNCHANGED <<store, job, interrupts, history, matched, queue, approvals>>

\* Stages 2 to 5: records with a store become deals and go to ingestion, of the
\* others the matcher sends some to the review queue and drops the rest.
MatchAndIngest ==
    /\ batch # NoBatch
    /\ Scrape(batch.listing, Listed(batch.listing) \ (batch.fresh \intersect matched),
              batch.at)
    /\ \E review \in SUBSET (batch.fresh \ matched) :
          queue' = queue \union {<<k, batch.listing[k]>> : k \in review}
    /\ batch' = NoBatch
    /\ UNCHANGED <<archive, matched, approvals>>

FailedScrapeOfSource ==
    /\ batch = NoBatch
    /\ FailedScrapeRun
    /\ UNCHANGED pipeline

\* Cut short while archiving, or after it and before the ingestion.
InterruptArchiving ==
    /\ job = Idle
    /\ batch = NoBatch
    /\ interrupts < MaxInterrupts
    /\ interrupts' = interrupts + 1
    /\ \E listing \in Listings, at \in Later : \E keys \in SUBSET Fresh(listing) :
          /\ Savable(listing, keys)
          /\ Save(listing, keys)
          /\ now' = at
    /\ settled' = FALSE
    /\ UNCHANGED <<store, job, rejected, last_listed, misses, batch, matched,
                   queue, approvals>>

InterruptBatch ==
    /\ batch # NoBatch
    /\ interrupts < MaxInterrupts
    /\ interrupts' = interrupts + 1
    /\ batch' = NoBatch
    /\ \E review \in SUBSET (batch.fresh \ matched) :
          queue' = queue \union {<<k, batch.listing[k]>> : k \in review}
    /\ settled' = FALSE
    /\ UNCHANGED <<now, store, job, rejected, last_listed, misses, archive,
                   matched, approvals>>

\* Mutant: of a deal's records the oldest one wins.
RebuiltFromOldest ==
    [k \in Keys |-> IF k \in matched /\ archive[k] # <<>> THEN Head(archive[k]) ELSE Null]

\* Every archived record with a store, the last one of each deal.
Rebuilt ==
    [k \in Keys |-> IF k \in matched /\ archive[k] # <<>> THEN Last(archive[k]) ELSE Null]

\* `deals process`
RebuildFromArchive ==
    /\ WithRebuild
    /\ batch = NoBatch
    /\ \E at \in Later : Rebuild(Rebuilt, at)
    /\ \E review \in SUBSET {item \in Keys \X Contents :
                             item[1] \notin matched /\ item[2] \in ToSet(archive[item[1]])} :
          queue' = queue \union review
    /\ UNCHANGED <<archive, batch, matched, approvals>>

-----------------------------------------------------------------------------
(* Review: ReviewActions.approve and discard.                              *)

\* Approving teaches the alias index the store and writes a deals row.
Approve(item) ==
    /\ item \in queue
    /\ queue' = queue \ {item}
    /\ matched' = matched \union {item[1]}
    /\ approvals' = approvals \union {item}
    /\ UNCHANGED <<vars, archive, batch>>

Discard(item) ==
    /\ item \in queue
    /\ queue' = queue \ {item}
    /\ UNCHANGED <<vars, archive, batch, matched, approvals>>

Ingest ==
    /\ \/ CloseCurrent
       \/ AppendMany
       \/ AppendRefused
       \/ UpsertHeads
       \/ Project
       \/ Interrupt
    /\ UNCHANGED pipeline

PipelineNext ==
    \/ ScrapeAndArchive
    \/ MatchAndIngest
    \/ FailedScrapeOfSource
    \/ InterruptArchiving
    \/ InterruptBatch
    \/ RebuildFromArchive
    \/ \E item \in queue : Approve(item) \/ Discard(item)
    \/ Ingest

PipelineSpec == PipelineInit /\ [][PipelineNext]_allvars
-----------------------------------------------------------------------------

\* Raw records are archived before anything is made of them: whatever is cut
\* short, a rebuild from the archive can restore what any head says.
ArchiveCoversHeads ==
    \A k \in Keys : heads[k] # Null => heads[k].content \in ToSet(archive[k])

\* Between uninterrupted runs, what is served of a deal is the newest record of
\* it in the archive, after scrapes, approvals and rebuilds in any order.
ServedIsNewestArchived ==
    Undisturbed /\ batch = NoBatch =>
        \A k \in Keys : deals[k] # Null /\ deals[k].status = "active" =>
            deals[k].content = Last(archive[k])

\* Between uninterrupted runs the collections agree: archive, history, heads and read
\* model say one thing of every deal, and as_of finds it.
CollectionsAgree ==
    /\ ServedIsNewestArchived
    /\ HeadIsCurrentRow
    /\ AsOfIsTotal
    /\ ReadModelIsCurrent

Finishes == job.pc = "project" /\ job' = Idle /\ settled'

-----------------------------------------------------------------------------
(* What the documentation promises and the code does not keep.             *)

\* "EXPIRED  head not seen any more" (ingestion.py:16): a run never expires,
\* for absence, a deal that the source listed in that very run.
ListedDealsDoNotExpire ==
    [][\A k \in Keys : Expires(k) /\ ~Ended(heads'[k].content, now) =>
                           job.listing[k] = Null]_allvars

\* "REACTIVATED  head exists but was EXPIRED, seen again -> new version, ACTIVE"
\* (ingestion.py:15): when a run has gone through, no deal it listed, with no
\* end date behind it, is expired.
SeenAgainIsReactivated ==
    [][Finishes => \A k \in Listed(job.listing) :
           heads[k] # Null /\ ~Ended(heads[k].content, now) =>
               heads[k].status = "active"]_allvars

\* "A crash between steps leaves the head pointing at the old version, and the
\* next run simply redoes the same work" (orchestration.md:247-248): when a run
\* has gone through, every deal it listed whose store is known has a head.
NextRunRedoesTheWork ==
    [][Finishes => \A k \in Listed(job.listing) \intersect matched :
           heads[k] # Null]_allvars

\* "A deal keeps one row for its whole life" (orchestration.md:287): no deal has
\* both the row of its head and a row that an approved review wrote.
OneRowPerDeal ==
    \A item \in approvals : deals[item[1]] = Null
=============================================================================
