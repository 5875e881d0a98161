# Lessley: a verification development

TLA+ models of the Lessley platform, checked by TLC on small instances and, where it says so,
proved for all values of their constants by TLAPS.  `PROJECT.json` lists the runs, the lines of
code each definition stands for, the mutants that show each property can fail, the hazards and
the findings.

Paths below are relative to the repository; `deals/` stands for
`lessley-deals/src/lessley_deals/` and `gateway/` for `lessley-backend/Lessley.Gateway.Api/`.

## 1. Inventory

Lessley collects loyalty-club deals from some thirty sources, keeps their history, and
recommends deals to users from their bank transactions.

| Part | State it keeps | Operations | Interacts with |
|---|---|---|---|
| Deal planning `deals/versioning/ingestion.py` (`plan_ingestion`) | none | classify a run's deals against the known heads, expire, count misses | called by the ingestion service |
| Deal ingestion and projection `deals/versioning/`, `deals/persistence/repositories/` | `deals_current` (heads), `deal_versions` (SCD2 history), `deals` (read model) | close, append, upsert heads, project | MongoDB or JSON files |
| Scrape pipeline `deals/pipeline/`, `deals/scraping/orchestrator.py` | `raw_source_deals` (archive), review queue | scrape, deduplicate, archive, match, review, ingest, rebuild | ingestion, review |
| Review `deals/review/` | review items, alias index, `deals` rows of approvals | approve, discard, skip, new store, bulk resolve | archive, alias index |
| Run lease `deals/scheduling/runner.py`, `locks.py` | `scheduler_locks` | acquire, renew, release; attempts, backoff | several worker replicas share MongoDB |
| Scheduler `deals/scheduling/scheduler.py`, `schedule.py` | one loop per source, semaphore, shutdown flag | fire at startup and on schedule, drain | runner |
| Matching and normalization `deals/matching/`, `deals/normalization/` | alias index | resolve a store name | pipeline, review |
| Scrapers `deals/scraping/` | session, pages, rows of one scrape; the Swish scanner's `state.json` and `swish_database.json` | open a session, list, read details, retry, parse, build deals | pipeline, group syncs |
| Catalogue `deals/review/bulk_resolve.py`, `deals/scraping/helpers/*_group_sync.py` | stores, aliases, review items, clubs, store groups, each a JSON file or, the queue and the groups apart, a MongoDB collection | plan and apply a bulk resolution, sync hot and swish groups | matching, review, scrapers |
| Enrichment `deals/enrichment/` | none | language model calls and their parsing | offline commands |
| Live tags `gateway/Hubs`, `gateway/Services/Classes/{ConnectionManager,UserTagService,UserService}.cs` | connections per user, SignalR groups, tags and muted tags | connect, disconnect, assign tags, mute | category messaging, notifications |
| Registration and codes `gateway/Services/Classes/{Registration,VerificationCode,LoginOtp,PasswordReset}Service.cs` | pending registrations, verification codes | start, verify, resend, complete, redeem | mail, Identity |
| Sessions `gateway/Controllers/AuthController.cs`, `AuthSessionService.cs` | refresh tokens | issue, rotate, revoke | browser tabs |
| Account deletion, Open Finance `gateway/Services/Classes/AccountDeletionService.cs` | bank consents, everything keyed to the user | close consents, purge, delete | Open Finance |
| Category messaging `gateway/Scheduling`, `lessley-backend/Lessley.Personalization/main.py` | two RabbitMQ queues, reference snapshot | command, calculate, publish tags, weekly sweep | Gateway, Personalization |
| Bank feed `lessley-backend/Lessley.Personalization/clients/`, `services/open_finance_service.py` | token, its lock and expiry | fetch a token, list accounts, gather transactions, retry once on a refused token | Open Finance, insights |
| Insights `lessley-backend/Lessley.Personalization/services/` | none | read amounts off rows, totals, splits, missed savings | bank feed, matching |
| Deal optimizer `deal-optimizer/src/deal_optimizer/` | none | eligibility, tender allocation, chain search | reads `deals` |
| Categories enricher, frontend, deployment | lookups, view state | | |

What is hard in them, with the line where it bites, is the list of hazards in `PROJECT.json`:
interruptions between the bulk writes of a run, an archive that is written before anything is
made of it, a plan that writes one head three times over, a lease whose renewal is shorter than
what it replaces, connections and tags that change while group membership is being synced,
read-modify-write of code and token documents, commands that are lost or answered out of order.

What makes the parts correct, in one line each:

* **Planning and ingestion** - the history of a deal is complete and unambiguous, the head is
  never ahead of it, the read model never ahead of the head; a deal expires only for cause.
* **Pipeline** - nothing that was seen is lost, and what is served is what was seen last.
* **Lease** - one replica scrapes a source at a time, and a dead one does not block it.
* **Scheduler** - every source keeps being run; shutdown ends.
* **Live tags** - a connection is in exactly the groups of its user's unmuted tags.
* **Codes and registration** - a code is good once; no half-made account remains.
* **Sessions** - one use of a refresh token; a revoked chain stays revoked.
* **Catalogue** - a decision is written once and taught to the matcher; a storefront never
  becomes its offline namesake.
* **Scrapers** - each offer once, told apart, with the price the site shows.
* **Bank feed** - one token request for all who wait; no refused token shown again; whole answers.
* **Insights** - the totals are the money that moved, and every breakdown adds up to them.
* **Optimizer** - no valid combination of deals is cheaper than the one returned.

## 2. Modules

| Module | Models | EXTENDS |
|---|---|---|
| `DealPlan` | `plan_ingestion` as a pure operator `Plan(heads, incoming, run)`, with one operator for each decision | |
| `DealIngestion` | `IngestionService.ingest` and `DealProjector.apply` for one source: load, plan, four bulk writes, interruptions | `DealPlan` |
| `DealLog` | abstract: a log of drafted and published versions per deal, implemented by `DealIngestion` | |
| `ScrapePipeline` | archive, deduplication, match or review, ingestion, `deals process`, approve and discard | `DealIngestion` |
| `RunLease` | `SourceRunner.run` and `MongoLeaseLock` for one source and several replicas | |
| `Cron` | `CronExpression`, `SourceSchedule.next_fire_at` and the parsing of entries on a small calendar | |
| `Scheduler` | the worker: source loops, semaphore, runner with its calls in threads, journal, shutdown | `Cron` |
| `Adapters` | what ten adapters make of one item: discount, stores, keys, fingerprints | |
| `SwishScanner` | the scanner's two files: catalogue, scan, retry, verify, deaths in between | |
| `Scraping` | one scrape of any source, request by request, beside the scanner | `Adapters`, `SwishScanner` |
| `Matching` | the cascade of match stages over names of words | |
| `Catalogue` | pipeline runs, the operator's review, bulk resolution and the two group syncs, reading and rewriting shared files in any interleaving | `Matching` |
| `LiveTags` | hub, connection table, tag and mute writes, group sync, tag events with redelivery | |
| `Accounts` | sign-up, codes, reset, sessions, bank consent and deletion of one address | |
| `BankFeed` | token cache, lock, retry on a refused token, gathered accounts, the routes | |
| `Insights` | classification of card transactions and the answers added up from them | |
| `Optimizer` | eligibility, chain search, tender allocation, ranking of one request | |
| `ScrapePipeline_proofs` (with `DealPlan`, `DealIngestion` and `DealLog`), `Catalogue_proofs` (with `Matching`), `Scraping_proofs` (with `SwishScanner`), `RunLease_proofs`, `Scheduler_proofs`, `LiveTags_proofs`, `Accounts_proofs` | theorems | the module each is named for |
| `Personalization_proofs` | theorems | `BankFeed`, `Insights` and `Optimizer` |
| `MC*` | instances for TLC | |

### DealPlan, DealIngestion and DealLog

A deal is its `deal_key`; what it says is an abstract content, equal exactly when the content
hashes are.  `EndDate` gives the end date a content declares, `Text` the part of a raw record
that its fingerprint covers.  `heads[k]`, the members of `rows` and `deals[k]` are the documents
of `deals_current`, `deal_versions` and `deals`.

`Plan` keeps the order of the code: classify, expire by date, mark what the scrape saw as alive,
check the guards, sweep.  In the code the last three steps write the same dictionary of head
updates, so a later one overwrites an earlier one; `NewHead` gives the value that wins, while
the version row of the earlier step stays in the plan.

A run is a `job` record that steps through `close`, `append`, `heads`, `project`.  Each bulk
write is an action; `Interrupt` applies any subset of the current write (all or nothing on JSON,
where the file is replaced as a whole) and drops the run.  With `DEALS_DELETE_EXPIRED` the
projection is two writes, rows first and deletions second, and may be cut between or within them;
a rebuild's projector is never told to delete (`cli/main.py:393`), so that an expired deal's row is
either gone or flagged (`Deletable`).  It stands for a crash of the worker,
a timeout, a cancellation and a database error alike: in each the plan is gone and the
collections are what they are.  `AppendRefused` is the write that MongoDB refuses: the upsert
sets the `_id` of the planned row, which a stored row with another `_id` does not take, and a
partial index allows one current row per key.

Inputs: any listing of the source (`ScrapeRun`), with any of the deals whose head carries the
listed fingerprint left out by deduplication; a scraper that raised (`FailedScrapeRun`); a
rebuild from the archive (`RebuildRun`).  `settled`, `rejected`, `last_listed` and `misses` are
history variables: no action of the code depends on them.

`DealLog` says what the readers of the two versioning collections may rely on: a version is
drafted one beyond the published one, may be drafted again until it is published, and a published
one never changes.  `ImplementsLog == Log!Spec` maps `rows` to the log and `heads` to what is
published: an append, whole or cut short, is a `Draft`, the write of the heads a `Publish`, and
everything else stutters.

### ScrapePipeline

The archive and its deduplication as they are: `Fresh` asks the whole archive before anything is
saved, and saving comes before matching.  `matched` are the deals whose store the alias index
resolves; an approval adds to it and writes a `deals` row of its own (`approvals`), which no head
owns.  Which unmatched records go to the review queue is a free choice (it depends on text).
`reconcile-deals` is not an action: run beside nothing it changes nothing the model knows, as every
row of `deals` that has the source's id has a head, and an approval's row is saved under the id of
its raw record in the place of the source (`review/actions.py:127`), where the command does not look
(`get_ids_by_source`, `mongo/deals.py:52-57`).

### RunLease

Time is discrete and relative: `lease.left` is how long the lease document still holds,
`timer[r]` how long replica `r` may take until its next step.  `Tick` takes both down and is
blocked while a step is due, so no step is later than `Lag`.  `Acquire` is the one upsert of
`MongoLeaseLock.acquire`, with a clock reading up to `Lag` old; `Renew` sets the expiry to
`delay + Timeout` from then on, as `runner.py:172-174` does, and does not look at its result, as
the code does not.  `Crash` leaves the lease to `Orphan`, a token nobody has.

### Cron and Scheduler

`Cron` is arithmetic: `Search` scans forward turn by turn as `CronExpression.next_after` does - a day
that does not fit is skipped whole, one that fits is searched to its midnight - and `NextFires` adds
the jitter; `FiresNextAndLater` compares it with the least moment that matches.  Hours, days
and months have a handful of units each, which keeps every carry of the calendar and makes a
year of it checkable minute by minute.

In `Scheduler` a loop waits for its moment, for a slot of the semaphore and for the run, as
`_source_loop` and `_fire` do.  Every database call of the runner is a thread (`threads`) of its
own that goes on when the coroutine that awaits it is cancelled or times out: `Returns` lets it
take effect whenever it comes, even after the loop has moved on or gone.  `RequestShutdown`,
`CancelPending` (the grace time is over), `Stop` and `Exit` are the worker's end.
A thread here runs as soon as it is asked for.  In an executor whose threads are all taken
(`min(32, cpu + 4)` of them) a call that is still queued would be cancelled with its awaiter and
have no effect; that is not modelled.

### Adapters, SwishScanner and Scraping

An item of a source is a record of what its page or JSON says, with numbers as numbers and words
as model values; `Adapters` gives the brand, the discount, the limitations and the keys each
adapter takes from it, in the order its patterns are tried.  `Scraping` walks a site page by
page: every request may fail (`faults`), and what a failure costs - the page, the category, the
rest of the section, the scrape - is what the adapter of that source does.  An answer may also come
and be of another form than the adapter takes apart (`AnswerIsUnreadable`): hot
(`_merge_detail`, gathered at `hot.py:518`), paisplus (`:251`, `:280`) and the loadable cards (`:214`,
`:235`) do that outside the `try` around the request, so it ends the scrape with nothing, as a failed
opening does; the other sources take their answers apart inside it, or item by item, where it costs
what a failed request costs.  An answer about a chit without a list of merchants makes the chit
its own store ("bare").  `sample_limit` of the LLM scraper, which no configuration sets, is left out.
`SwishScanner` runs beside it with its two files; each is replaced atomically, the two are not, and `Die` comes
between them.

What a site may be is in four assumptions.  `SitesAssumption` and `TruthAssumption`: listings,
and the parts of items and details the code iterates over, are lists, and every listed product of
paisplus has a page.  `ReferenceAssumption`: so are the stores of a group and the keys of the
limitations and their aliases.  `ListingsEndWhereTheyEnd` is what the adapters take for granted of paging - a page of
hot shorter than `_PAGE_SIZE` is the last of its type (`hot.py:290-338`), a category of paisplus
ends before the cap and at its first empty page, a wallet is one file: on a site that pages
otherwise, offers are missed without any failure.
Three more formulas are hypotheses of theorems and hold of the site of the run (`MCSitesAreTame`):
no two restaurants of the taste card come out with one name (`ChainsAreNamedApart`:
`_canonical_name` keeps only the words that all branches of a restaurant begin with, and nothing compares it
with other restaurants), a chain's name is split one way into brand and web shop
(`ChainsAreSplitOneWay`), and no two branches of a brand are told apart by the brand's own words
alone (`BranchesStayApart`: `_extract_branch` takes these away).  The code checks none of them.

### Matching and Catalogue

A name is a sequence of words with an optional branch, which is enough to tell the forms that the
stages compare apart; the two stages that score by characters only know the pairs in
`Spellings`.

`Catalogue` has five actors: a run of the pipeline, the operator's session, the bulk resolution and the
two syncs.  Each is a command that anybody may start at any time (`cli/main.py:399-489`, `2097`), and
nothing locks them out of each other.  A command reads the files when it begins (`Begin`), and what it
decides goes into `todo[a]`, the list of writes it makes one after the other; `Crash` drops the
rest.  A write into a JSON file is the two steps of `JsonStore` (`json_store.py:49-101`): `Read`
takes the file whole into `held[a]`, `Write` puts it back whole with the row in it, and what another
command wrote in between is gone.  `storage` is `DEALS_STORAGE`: with `"mongo"` a store, an alias or
a deal is a document of its own, and only the queue stays a file (`_make_repos`,
`main.py:67,81`); a club is one document there but is saved as it was read.  The groups file is
read when a sync begins and written whole when it ends, in either storage.  `met` notes whether
commands were under way at once - the two `"syncs"`, or any `"others"`.

What the code promises it can keep only where no row is lost, so each property names the weakest
condition under which it holds, and the others are model-checked and proved without any:

| Property | holds |
|---|---|
| `OnlineParity` | always, whatever the files lose |
| `HandEntriesSurvive` | entries and members always; the stores of members unless the two syncs overlapped |
| `DecisionsStick`, `NamesAreMadeOnce` | in MongoDB whatever runs beside them; with JSON files while no two commands were under way at once (`Kept`) |
| `MembersWaitOnce` | while no two commands were under way at once (`Alone`) |

Nothing is promised beyond these: `DecidedInAnyCase`, `WaitOnceInAnyCase` and `HandStoresInAnyCase`
say the same without the condition, and TLC refutes all three (see the disagreements below).

Of each kind one command runs at a time: two runs of the bulk resolution at once would each make a
store of the same name, in either storage, and nothing in the code keeps them apart.
A command reads all its files in one step, where the code reads them one after the other before
it writes.  A turn of the pipeline processes one record; the two readings of a club (by the pipeline
and before it is saved) are one; the deals the pipeline itself writes are not in `deals`; setting a
store's categories (`set_store_mcc`) is left out.  `generate_id` gives an id nobody has; `NewId`
tells it by who asks, the turn and the item, so that two ids are never one however the actors
interleave.  Waiting names are compared letter by letter (`text`), as the syncs do, and not by
their forms: two spellings of one name wait twice.  `Plan` is a set of decisions, each with the
place of its item in the queue, and `Each` writes them in the order of their items, as the loops of
`apply_resolutions` do.

### LiveTags

An await is a step boundary.  Each handler reads the user (`job[h].read`), decides
what to store (`job[h].want`), writes it under Identity's concurrency stamp (`Accepted`), and then changes groups connection by
connection.  `inner` is the connection set whose table entry another tab may remove.  `Restart`
loses all memory and gives unacknowledged events back to their queue.

### Accounts

One address.  A handler with several writes is a `program` of steps and `Crash` may come after any
of them; handlers with one write are single actions.  Requests of the address come one at a time:
two tabs that answer the same code at once are not modelled.  Notifications are the requests of an
admin and come at any moment: `FindRecipient` reads the users, `Notify` saves for them later, and a
notification saved while the account is being made or deleted, or after, is marked `late`.  Cooldowns and lifetimes only forbid,
so time is the freedom to expire.

### BankFeed

One asyncio process: a request runs undisturbed from one await to the next.  `call` is where each
call to the bank stands, with the token it shows and the tokens refused to it; `holder` and
`waiting` are the `asyncio.Lock`.  The bank may revoke tokens, answer with faults, and the client
may reckon one expired; the user may be deleted in between.  Each route of `main.py` and of the
controllers is a plan of calls (`Plan`), and `Status` is what the exception handlers make of how it
ended: a timeout of httpx gets 500, as the handler that answers 503 waits for a `ConnectionError` that
httpx never raises.  The rate limiter is not modelled: no middleware applies it.

### Insights

A row is what the feed says of one transaction, together with what really happened, which the
code never reads and the properties compare its totals with.  Amounts are integers.  Days run to 7,
so that a row of a week ago has today's day of the week (`ByDay`).  A row without the flag is taken for a
payment of a plan when its price is within the tolerance (one over `RatioGrain`) of a whole number of
charges; the rows of the run lie on both sides of that edge, a third of 1000 rounded to the cent among
them.  Lists are cut as the code cuts them (`TopCategories`, `TopAccounts`, `TopStores`, `MaxShops`),
ties at the cut falling either way, and `BreakdownsAddUp` promises the whole only of lists nothing
was cut from (`Uncut`); rows without an id are in no savings answer (`Purchases`).

### Optimizer

Money is a natural number of small coins and a rate a percentage, chosen so that each product is
whole.  `Admit`, `Sweep`, `Allocate`, `Rank` and `Respond` are the phases of `find_top_paths`;
`FirstOptionIsOptimal` compares them with an exhaustive search that shares only the price
functions.  Lists ordered by a figure (`FirstBy`) leave ties in any order, and a chain is read back from
its last state by `Walk`, as `_reconstruct_chain_path` follows the predecessors.

`QueriesAssumption` is what the endpoint checks of a request (`api.py:53-72`: positive carts and budgets)
and fixes (membership of a deal's source is always asked for).  `CatalogAssumption` is about the deals:
they are active or expired (`deals_source.py:32`), have one answer per partner type, and rungs of positive width
(`_ladder_segments` drops a ladder with any other).  One part of it is checked nowhere: a rate is at most 100 per cent and
a voucher costs at most its face.  The scrapers write what a source says.  A voucher dearer than
its face would be counted as a negative saving, and a rate above 100 would save more than it covers.

## 3. Runs

| Run | Shows |
|---|---|
| `DealIngestion_crash` | MongoDB, two deals, two contents, one of which ends on day 2, scrapes, failed scrapes and rebuilds, one interruption in the middle of any bulk write: windows of validity never overlap, the read model never leads, stored rows only ever get closed, only a scrape reactivates, deals retire for the reasons the code gives, and the collections implement `DealLog` |
| `ScrapePipeline_reviews` | JSON backend, expired rows deleted, reviews, rebuilds and one interruption: the archive covers every head, and archive, history, heads and read model agree once nothing was cut short |
| `ScrapePipeline_lost` | *violated*: after a crash "the next run simply redoes the same work" (`orchestration.md:247-249`) - the archive was written first, so deduplication leaves the deal out of every later scrape |
| `RunLease_retries` | two replicas, three attempts, crashes, cancellations: first attempts never overlap, a live lease is respected, a dead one is taken over, every run ends |
| `Scheduler_worker` | two sources, one slot, retries, faults, timeouts, shutdown: next slots are next, what a fire takes it gives back, waiting fires are served, the shutdown ends |
| `Scraping_sources` | one scrape of each of ten sources and the scanner, every request failing or answered unreadably at will: a failed request costs only what it failed on and a scrape ends with nothing only for a failed opening or an unreadable answer, offers come once, are told apart and keep their terms, the scanner's files survive a death |
| `Catalogue_review` | the pipeline, the operator, the bulk resolution and the two syncs, every file read and rewritten in two steps of any interleaving or, in MongoDB, document by document, stopped between any two: storefronts stay apart and hand-made groups survive in any case; decided names are taught, a name makes no second store but where another's has it too, and waits once, where no file can lose a row |
| `LiveTags_handlers` | two tabs, a settings save, an assignment, an event with one retry, a restart: no field is undone, syncs that run alone are exact, the table has no closed tab, events settle |
| `Accounts_flows` | one address through two accounts, a stop after any write: a new code ends the old ticket, no row outlives the account but a notification that raced with its end, an answered reset has ended every session |
| `BankFeed_token` | two requests, two accounts, revocation, expiry, a fault: one refresh for all, no refused token shown again, whole answers, every request ends |
| `Insights_answers` | lists of up to three rows of every shape: totals are what happened, breakdowns add up, a missed purchase counts once |
| `Optimizer_search` | offers of up to three of eleven deals, two carts: the search finds what exhaustive search finds; its options can be carried out and cost what they say |

Where two promises of one kind hang together they are one property, a conjunction of named parts:
`DealsRetireForAReason`, `CollectionsAgree`, `NothingIsLeaked`, `OptionsAreSound`,
`RequestsEndWhole`, `DecisionsStick`, `EachOfferArrivesOnce`, `DealsTellTheTruth` and
`ScannerLosesNothing`.

### Disagreements between the code and its documentation

One has a run of its own (`ScrapePipeline_lost`).  The others are properties in the modules that
no run checks; adding one to the cfg named makes TLC print the behaviour.

| Property | cfg | What the code says of itself, and what happens |
|---|---|---|
| `ExpiredIsNotServed` | `DealIngestion_crash` | "fully repaired by the next one" (`projection.py:28-30`): the heads were written, so the next run has nothing to project |
| `RedoneAppendsAreAccepted` | `DealIngestion_crash` | a redone append is an upsert and a replay a no-op (`ingestion.py:481-488`): the upsert sets a new `_id` |
| `PastEndDateIsExpired` | `DealIngestion_crash` | expired on its end date "even if the source still lists it" (`ingestion.py:90-92`): the sighting overwrites the expired head |
| `ListedDealsDoNotExpire` | `ScrapePipeline_reviews` | a deal expires when "not seen any more" (`ingestion.py:16`): an edit back to an archived text is deduplicated away while the head keeps the other fingerprint |
| `SeenAgainIsReactivated` | `ScrapePipeline_reviews` | an expired deal seen again is reactivated (`ingestion.py:15`): the same cause |
| `OneRowPerDeal` | `ScrapePipeline_reviews` | "one row for its whole life" (`orchestration.md:287`): an approval writes a row of its own |
| `MutualExclusion` | `RunLease_retries` | one replica at a time (`docker-compose.worker.yml:6-7`): a renewal before a retry is shorter than the lease it replaces |
| `LeasesAreAlwaysReleased` | `Scheduler_worker` | released "always, including on cancellation" (`runner.py:10`): not when cancelled inside the acquisition (`runner.py:79`) |
| `CrashedLoopsComeBack` | `Scheduler_worker` | a comment in `_source_loop` relies on a supervisor: a loop whose cron never fires raises, and nothing restarts it |
| `MutedTagsAreSilent` | `LiveTags_handlers` | `UserTagServiceTests.cs:101`: a tab that read the profile before a mute joins its groups after the mute's sync |
| `NoNoteOutlivesTheAccount` | `Accounts_flows` | "inherited by whoever registers that address next" (`AccountDeletionService.cs:78-83`): the purge comes first, but a sender that read its recipients before it saves after it (`SendNotificationService.cs:70-87`) |
| `ConsentNeverOutlivesAccount` | `Accounts_flows` | `AccountDeletionService.cs:47`: a bank linked with an access token that outlives the account leaves a consent nobody closes |
| `AnswersHoldEveryPage` | `BankFeed_token` | "for all user accounts" (`open_finance_service.py:115`): `nextPage` is parsed (`models/transaction.py:115`) and never followed |
| `OptionsAreDistinct` | `Optimizer_search` | "distinct legal combinations" (docstring of `find_top_paths`): the copies of a repeatable deal are told apart, so one option comes back twice |
| `OffersAreSeparateDeals` | `Scraping_sources` | one deal per wallet (`behatsdaa.py:101`): the wallets share the benefit URL the key is made of |
| `CardsAreNoStores` | `Scraping_sources` | a failed fetch must not "fabricate a bogus deal for the umbrella card itself" (`paisplus_cashcards.py:179-183`): an answer without a list of merchants does (`:236`) |
| `DecidedInAnyCase` | `Catalogue_review` | "a review decision's durable output is the alias" (`bulk_resolve.py:478`): with JSON files the store an item was closed onto is lost when another command rewrites `stores.json` as it read it before |
| `WaitOnceInAnyCase` | `Catalogue_review` | "prevents the same store name being pushed multiple times" (`swish_group_sync.py:147-149`): both syncs read the pending names before either adds one |
| `HandStoresInAnyCase` | `Catalogue_review` | hand-maintained entries "are preserved verbatim" (`swish_group_sync.py:22`): the swish sync writes the groups it read at its start over the stores the hot sync wrote meanwhile |
| `NoNameIsMultiplied` | `Catalogue_review` | the bulk resolution adds a second store of a name the operator is adding |
| `DecidedMembersResolve` | `Catalogue_review`, with `{"spa", "gaash"}` in `LowInformation` | approved decisions make the next sync resolve a member "automatically" (`swish_group_sync.py:19-20`): not a member that bears the name of a category |
| `ResolvedNamesMatch` | `Catalogue_review`, with a branch in the name of `r1` | "the next pipeline run then builds the deal": the alias is the whole name, the matcher is asked without the branch |

Others met on the way, which are readings of the code and not runs: totals are added up from the
merchants shown, so with more than `MAX_SHOPS` merchants they describe fewer purchases
(`insights_service.py:537` against `:44`; `MissedIsCountedOnce`, as an invariant of `Insights_answers`, fails);
`DomainMatch` says "never auto-matches" but its confidence of 0.95 is above the threshold;
names the operator discarded are queued again by each sync of a group; `CONTENT_FIELDS` lists
`group_member_store_ids` while `hot.py` writes `group_member_stores`; an invalid schedule entry
logs that the source will not run and lets it run on the default.

### Bounds

* **Deals.** `MaxTime` bounds the clock, and with it the number of runs: each takes a later tick.
  With `AbsenceThreshold = 2` and `AbsenceGrace = 1`, four ticks hold first sight, two misses that
  expire the deal, and a reactivation.  Two deals at a coverage of two thirds make the guard close
  when one is missing and at a half open; two contents give an edit and an edit back.
  `MaxInterrupts = 1`: a second interruption meets the same states, with more rows.
* **Lease.** `Timeout = 4`, `Lag = 1` satisfy `3 * Lag < Timeout` with nothing to spare.
* **Scheduler.** `MaxConcurrency = 1` for two sources, so that one always waits; two attempts so
  that a retry overlaps the thread of a first; two runs per source; one faulty call.  The calendar
  has 2-minute hours, 2-hour days, 3-day weeks, 4-day months and 2-month years.
* **Scraping.** Pages of two, two pages per category, three failed requests or odd answers; sites are written so
  that lists repeat items, share prices and leave fields out.  The scanner has three products, two
  rounds, two deaths.
* **Catalogue.** Any four commands out of one decision, two runs of the bulk resolution, two of the
  pipeline and one of each sync (`MaxTurns`, `MaxCommands`), in any interleaving; one death; both
  storages; a name two sources list, a member of two cards and of a hand-made group, which has the
  brand as well.  Two overlapping commands lose a row, three lose it under a plan that rests on
  it.
* **LiveTags.** Two tabs, one tag, at most two handlers inside at a time (`MaxBusy`), one retry,
  one restart.  Every overtaking needs two handlers and one field.
* **Accounts.** Two wrong tries, two resends, two failed logins, two sessions, two accounts: one
  past each limit is reached.
* **BankFeed.** One account of one page and one of two; two revocations, so that a retry is refused
  as well; one expiry; one fault.
* **Insights.** Sixteen shapes of row, each matched by strong, weak and foreign shops, over three
  accounts, categories and merchants; lists are cut to two, so that a third one is lost.
* **Optimizer.** Offers of up to three deals of eleven, budgets of two and three deals, a voucher
  and two ladders on one cart; `Grain` is the step of the tender grid.

Deadlock is off where the bounds end the behaviour (clocks, requests, decisions, offers) or the
program itself ends (a worker that has exited); it is checked in `RunLease_retries` and
`Scraping_sources`.

### Fairness

* `RunLease_retries`: the clock runs, every replica's scheduler fires the source again, and the
  event loop of a live replica gets round to each step.
* `Scheduler_worker`: each loop, timer and pending cancellation gets its turn; a thread returns, as
  every call of the driver has a timeout.  Nothing makes a source fail or the worker stop.
* `LiveTags_handlers`: a handler that has begun goes on from its awaits, and the broker delivers
  what it holds; nobody has to connect, save or restart.
* `BankFeed_token`: a call is answered or faults, and a request goes on when its calls have.

Nothing is assumed of crashes, cancellations, restarts, faults or revocations.

## 4. Proofs

Every theorem below holds for all values of the constants that satisfy the named assumptions of
the module; the bounds TLC needs (on clocks, runs, interruptions and requests) may have any value.

**`RunLease_proofs`**, for any replicas, attempts, timeouts and delays: `TypeCorrect`,
`FirstAttemptCovered`, `FirstAttemptsExclusive` (the run's `FirstAttemptsNeverOverlap`),
`LiveLeaseRespected` (`LiveLeaseIsRespected`); and `SingleAttemptsExclude`: with
`MaxAttempts = 1` at most one replica scrapes at a time, the promise `MutualExclusion` that
retries break.  Assumptions: `LeaseAssumption` (types, and `Lag <= GcAfter`) and `LagAssumption`
(`3 * Lag < Timeout`).  The inductive invariant is about slack.  That a running first attempt
holds the lease is not inductive by itself: nothing in it says the lease lasts.  Time takes the
lease and the timer of the holder down together, so the difference between them only changes at
the steps of the run, each of which gives at most one lag away; the lease a run takes is twice
its worst case, so after three of them something is left.  A renewal gives the slack away, which
is why nothing is claimed of later attempts.

**`ScrapePipeline_proofs`**, of the ingestion: for any deals, contents, end dates and settings,
either backend, and any number of runs and interruptions:

* `PlanFitsHeads` (pure): whatever heads and input `plan_ingestion` is given, the plan appends at
  most one row per deal, at the version after its head's, current and open, and closes the row
  that one replaces; every head it writes is at the version it had or has its row in the plan, and
  says what the deal said before or says now; `last_seen_at` never goes back; an expired deal comes
  back only if it is incoming in a run that may reactivate; a miss is counted, and a deal retired
  for its misses, only where the guards of the sweep are open (`JudgedFairly`).  This is where the order of the
  planning steps matters: a row planned by one step may be left without its head by a later one
  (see `PastEndDateIsExpired` above), but no head is left without its row.
* `TypeCorrect`, `AsOfHasOneAnswer`, `ReadModelLags`: the run's `TypeOK`, `AsOfIsUnambiguous` and
  `ReadModelNeverLeads`;
* `RowsAreKept`: `HistoryIsAppendOnly`, on MongoDB (the JSON store overwrites a row when a run is
  redone); `RebuildsReactivateNothing`: `OnlyAScrapeReactivates`;
* `HeadsAreDurable`, `NoGaps`, `CurrentRowIsUnique`: the row of every head is stored, versions have
  no gaps, one row of a deal is current.  No run repeats these: the theorems cover every instance;
* `CollectionsStayInStep`: whenever no run is in progress and none was cut short, every head is its
  current row, every moment of a deal's life has a version, and the read model says what the heads
  say - and no append is ever refused;
* `RetirementIsEarned`: the run's `DealsRetireForAReason`.

The invariant `IInv` has to say more than the properties.  `OneCurrentRow` is not inductive: that
an append adds no second current row needs that the row it replaces is closed, so the plan must
still fit the heads it was made from when its rows are written (`JobOK`), and that no row is more
than one version ahead of its head, or a redone run could append below a row left by the cut-short
one (`RowInHistory`).  `AsOfIsUnambiguous` follows from adjoining windows (`Succeeds`), and those
from no row ending after the clock.  One lemma per bulk write, stated for any part of the keys,
serves the finished write and the interrupted one alike.  Assumptions: `PlanAssumption`,
`NullAssumption` (Python's None is neither a number, a content nor a head) and
`IngestionAssumption`.

`CollectionsStayInStep` has the hypothesis `NothingEnds`: dates expire nothing, because the setting
is off or no deal declares an end.  Without it TLC refutes the statement: a deal listed past its end
gets an `expired` row while its head is only touched (`PastEndDateIsExpired` above), so the row is
one version ahead of the head with no run cut short, and on MongoDB the next append is refused.
`QuietInv` is the invariant: while nothing was cut short each row has its head or its place in
the plan, the windows of a deal meet, and the read model follows; one lemma for each of the four
writes says which of these it restores.  `RetirementIsEarned` rests on `AbsenceInv`: `misses`, what
really happened, is never behind the `missing_runs` of a head or of a plan, a head that has missed
was not listed since, and the plan in progress is fair to what the source showed.  Its hypotheses:
the keys are finitely many (the coverage is a quotient of two cardinalities), and `SeparateTexts`,
no two deals have the same fingerprint, as the code tells by fingerprint which deals a source still
lists: of two deals with one text one would be seen for both.

`IngestionKeepsALog == Spec => ImplementsLog` is the refinement the run checks.
Closing rows changes no entry of the log; appending any part of a plan that fits the heads is a
draft, because each row is one version beyond its head's; writing any part of the heads is a
publication, because the row of each is stored already.  `IInv` supplies all three facts.

Of the pipeline around it: `HeadsAreArchived`, the run's `ArchiveCoversHeads`: a rebuild
from the archive could make every head again.  `PipelineInvariant` joins `IInv` - so every theorem
about ingestion holds inside the pipeline - with `BatchOK` (the fresh records of a batch are
archived before anything is made of them) and `PlanCovered` (what the run in progress plans is in
the archive, which rests on the last part of `PlanFitsHeads`).  The hypothesis `SeparateTexts`
says that no two deals share a fingerprint; the archive keeps one record per fingerprint, so of
two deals with the same text only the first would be archived.

**`Scheduler_proofs`**: `WorkersLeakNothing`, the run's `NothingIsLeaked`.  Its first half,
`NoSlotIsLost`: at every moment the free slots of the semaphore and the loops that hold one add up
to `MaxConcurrency`, and no slot is free while a loop waits, whichever loops were cancelled before,
inside or after their run.  `SlotInv` adds that the queue holds each waiting loop once and nobody
else, and that a loop is firing exactly while its runner is in a run.  The second half says what a
worker that has exited leaves behind, and needs `PhaseInv` (what a loop and its runner may be doing
in each phase of the shutdown) and `LeftInv`: every lease and every open row is of the run in
progress or of one cancelled while it asked for it, and every thread that could still take one away
belongs to the step the runner is in.  `SchedulerAssumption`: the sources are finitely many.

`NextFireIsFirst`, the run's `NextFireIsTheNextSlot`, holds for every calendar, every cron and every
moment: `SearchByTurns` gets the recursion of the search from its definition, `SearchFindsFirst`
goes by induction on the turns left (today's matches come before any of a later day; without one
the search stands at midnight with a turn less), `NextAfterIsFirst` and `SchedulesFire` say it of a
schedule.  `ScheduleAssumption` is what `ScheduleSpec.__post_init__` checks: exactly one of a cron
and a positive interval.  The library's induction theorems take an operator, which no prover here
instantiates; `Induction` and `Iteration` say the same with a set in its place and are proved from
the well-foundedness of the naturals.

**`Scraping_proofs`**, for sites with any sections, pages, items, details and failing requests - all
the properties of the run:

* `OffersArriveOnce` (`EachOfferArrivesOnce`), under `ChainsAreNamedApart`: what no failure cut short is
  delivered, nothing twice, and what is raised was an opening or an unreadable answer
  (`RaisedForAReason`);
* `DealsAreTrue` (`DealsTellTheTruth`), with no hypothesis;
* `NoOfferIsDropped` (`FingerprintsTellOffersApart`), under `ChainsAreSplitOneWay` and
  `BranchesStayApart`: each offer has a deal, and the fingerprint of the deal tells which offer it was
  made of, so that there are no fewer fingerprints than offers (`ToldApart`);
* `NothingIsLost` (`ScannerLosesNothing`), for any products, rounds and deaths of the scanner and
  whatever is scraped meanwhile.

Delivery speaks of the end of a scrape.  `ScrapeInv` says of every moment what has been taken so far:
every item of a page before the next one, and of every page of a section that ended without a failure
(`PagesAreTaken`), is among the rows - for hot, an item with its id is, in this section or another
(`RowsAreSeen` keeps `seen_ids` and rows in step, which is what makes a repeated offer safe to
skip).  That the last page of a section is its last is where `ListingsEndWhereTheyEnd` is used
(`LastPage`).  From the listing on, everything is data: `FlatHolds`, `Picked`, `FirstsTaken` and
`FlatLocated` say what a sequence put together by `FlattenSeq` and `Pick` holds, where and in which
order, by `Iteration`; `ChainsAreOne` and `BranchesAreGrouped` that a restaurant is closed under its
links and has one group; `PaisMade`, `CardsMade`, `StatedIsRewarded`, `LookupNames` and
`ClassifiedIsKnown` what an adapter makes of an item.
For the scanner, `ScanKnowsFiles` is the strengthening: while a scan
runs, what it holds in memory is what its two files hold, as every write of a file goes through it.

**`Personalization_proofs`**, of the bank feed: `Collapsed` and `AnotherToken`, the run's `RefreshesAreCollapsed` and
`RetriesUseAnotherToken`, for any number of requests, accounts, revocations and faults.  `TokenInv`
adds that one call at most asks for a token and it holds the lock (`OnePosts`), that a refused
token is a revoked one (`RefusedIsRevoked`), and that while a token is asked for no cached one
lives (`LostWhilePosting`).  `NoneAssumption`: Python's None is neither a token nor a call.
`WholeAnswers`, the run's `AnswersCoverEveryAccount`: a request for all transactions that is answered
with 200 has the rows of every account.  `AnswerInv` follows the plan of a request step by step
(`WholeWhenPast`: a step that is over and did not fail has its rows).  `RoutesAssumption`: a request is
for one of the routes there are; `BankFeedAssumption`: there is an account.

Of the insights: `TotalsAreTrue` and `SplitsAddUp`, the run's `TotalsAreWhatHappened` and
`BreakdownsAddUp`, for any number of rows with any amounts.  The invariant is only that the rows
fetched are rows of the feed (`RowsOK`); the work is in the sums.  A column of figures is added up by
a fold that takes its elements in an order of its own: `AnyOrder` says that the order does not
matter, `TwoParts` and `Piles` that a column split by any label of its rows has the same sum,
`RankedFirst` that the merchants shown first are all there are when they are few enough.  All by
`SubsetInduction` and `ElementInduction`, with a set in the place of a predicate.  Assumptions:
`RowsAssumption`, every row is of an account (the client fetches them by account), and
`RowsTellWhatHappened`: a row reports what happened in one of the ways the comments and tests of
`TransactionAmountService` describe, with any amounts.  A discount that brings the price within
the tolerance of a whole number of charges is none of them: that one is read as a plan.  `SplitsAddUp`
needs no hypothesis about how many merchants, categories or accounts there are: the property says
of which lists it speaks.

Of the optimizer: `SoundOptions`, the run's `OptionsAreSound`, for any catalogue, cart, caller, budget
and number of options that satisfy `CatalogAssumption` and `QueriesAssumption`.  No search is repeated in the
proof; `OptimizerInv` says of what the search keeps that it can be used:

* every state of the sweep's table is the start or a state of the table with one vertex more, at
  exactly the price that vertex leaves (`ChainTable`).  That is not kept by itself: a later vertex may
  find a cheaper way into a state from which others were grown, and would leave these at a price that
  no longer follows.  It cannot: no state of the table ends at a
  vertex that is still to come, and what a vertex adds ends at that vertex, so all it adds is new;
* so walking back from a state and pricing forward from the cart meets the same prices, and the
  vertices of the walk are the ones applied, each once;
* a split of the rest of the bill covers no more than the bill, and saves no more than it covers,
  instrument by instrument (`IsSplit`): vouchers because their faces fit the bill, rates because each
  pass of the fill takes from what is left (`Filled`).  Hence no step of the answer is capped at nothing
  and the bills end at the ranked price;
* the options are the candidates in the order of their prices, each taken once (`FirstBy`).

**`LiveTags_proofs`**, for any tabs, tags, handlers, events and restarts: `TableIsOfOpenTabs`,
`SyncIsExact` and `NoUpdateIsLost`, the run's `TableHoldsOnlyOpenTabs`, `SerialSyncIsExact` and
`NoLostUpdate`.  `TableInv` says who may still hold a reference to a dictionary that the table has
dropped (a tab between `GetOrAdd` and its insert, one between the emptiness test and the removal);
`ReadInv` says that a profile read under a stamp that is still current is the profile stored;
`SerialInv` follows one handler through its writes and its syncs tab by tab.  `ActorsAssumption`:
the actors are finitely many, and None is not one of them.

**`Accounts_proofs`**, for any limits: `NothingOutlivesTheAccount`, `CodeOrTicket` and
`ResetEndsSessions`, the run's `RowsBelongToAnAccount`, `NewCodeEndsTicket` and
`AnsweredResetEndsSessions`; `CodesAreTheAccounts`: a stored code is of the account there is, so that
redeeming it reaches no later holder of the address.  `AccountsInv` says for each program and each
of its steps what the writes before it have already achieved (`InStep`): that is what a crash leaves.

**`Catalogue_proofs`**, for any records, stores, groups, cards, words, spellings and typed names,
either storage, and any number of commands - of each kind one at a time - and deaths in any interleaving of
their reads and writes - all five properties of the run, under the conditions they name, and `CatalogueTeaches`, the
half of `DecisionsStick` that needs no hypothesis:

* `CatalogueTeaches`: where no file can lose a row, an item closed onto a store leaves the store, its
  alias and the operator's deal in the files (`DecidedIsTaught`);
* `CatalogueSticks` (`DecisionsStick`): and of a member of a group, the next sync finds it.  The
  hypothesis is that no member bears the name of a category (`LowInformation`): an operator may link
  such a name and the alias is written, but `AliasIndex` leaves it out of every search
  (`index.py:36-52`), so that every later sync queues the member again.  The code rules this out nowhere; the
  run's names are none of these, and without the hypothesis TLC refutes the statement (see the table above);
* `CatalogueParity` (`OnlineParity`): the veto of `Eligible` holds of each of the rules, and an id never
  comes to mean another name, so that no lost row and no stale plan undoes it;
* `CatalogueMakesOnce` (`NamesAreMadeOnce`): a second store of a name only where that name leads to a
  store of another name or maker, which leaves a link ambiguous or vetoed;
* `CatalogueWaitsOnce` (`MembersWaitOnce`) and `CatalogueKeepsHandEntries` (`HandEntriesSurvive`).

None of them is inductive, because a decision is planned over one reading of the files and written
later, between the reads and writes of others.  `IInv` therefore speaks of `todo`, the writes still to be
made, and of `held`, the files as they were read:

* `Shape`: what each of them is made of; `Current`: until two commands have met only one has writes to
  make, and what it holds is the file as it is;
* `Named`: over all the stores and items there are - in the files, in any hand and in any plan - an
  id has one name and one maker, and what the bulk resolution closed agrees with it on being
  online.  This part is claimed whatever the files lose, and `OnlineParity` rests on it alone;
* `Relied`, where nothing can be lost: each planned write is `Right` by what the files have now and
  what the actor's own writes before it will bring (`Backed`), so that a death leaves nothing owed;
  and since stores, aliases and deals are then only added, what one actor writes never makes a
  write of another wrong (`BackedGrows`);
* `Made` and `Waiting`: the names the bulk resolution made and will make (`FreshNames`), the
  members that wait and those a sync will add (`FreshAdds`); `Entered`: the groups are the last write
  of a sync, which keeps every entry and, unless the syncs met, every store it read (`FreshGroups`).

In MongoDB the queue is still a file: an item the bulk resolution closed may be open again when
another command rewrites the queue, and `Made` shows that planning it anew makes no second store.
The lemmas about data are
`Ordered` (`InOrder` lists its places ascending), `SoundParts` (writes that are right part by part are
right one after the other, over `FlattenSeq`), and those about the stages: `Highest` answers with a
store of the catalogue or with none, and a form that is taught and tells something is sure
(`TaughtIsSure`).  Both use `Induction` and `Iteration` with a set in the place of a predicate.
`CatalogueAssumption`: the files are finite, seeded stores have ids of their own, and no hand-made
entry has the key of a card.

Only model-checked, and why:

* liveness (`EveryRunEnds`, `SourceIsNeverStuck`, `ShutdownEnds`, `FiresAreServed`,
  `EventsSettle`, `RequestsEndWhole`): fairness and ENABLED are out of the prover's reach;
* `FirstOptionIsOptimal`: it compares two searches that are built differently, a sweep with a greedy fill
  and a table over coins, and it is not true of every catalogue: the fill is greedy rung by rung,
  which is exact only where the rates of a ladder fall.  The code relies on that (`tender.py:191-198`) and
  checks it nowhere: with a ladder of 10 per cent up to 300 and 50 up to 800 beside a card of 20 per
  cent up to 400, on a bill of 1000, TLC refutes the property (260 saved, or 280 with the ladder alone, where 320 can be).  The
  run's ladders fall, and every product there is whole.

## 5. Not modelled, and what is left

Not modelled, because it keeps no state of its own, is a pass-through or is text processing whose
outcome depends on data outside the code:

* enrichment and the categories enricher: prompts to a language model and the parsing of its
  answers, run by hand; `constaints_parser.py`, a list of regular expressions;
* `scripts/classify_stores.py`: a table of names, run once; `persistence/seeding.py`, which only writes initial
  files;
* deal search and the CRUD controllers: queries and single writes without a protocol;
  `group_deal_query`, `set_store_mcc` and the suggestions;
* `clients/http.py` and the pagination strategies: no adapter uses them;
* the frontend and the deployment files.

Left out of modules that model the rest of their component:

* the scores of the fuzzy stages (a relation between words stands for them), payloads of
  notifications, the JWT inside a session;
* two requests for one address at once (`Accounts` serves them one at a time): the read-modify-write
  of the code and token documents is listed as a hazard;
* `reconcile-deals` beside a run (it reads heads before rows, so the row of a head that was added and
  projected in between is taken for an orphan), and ingestion by two writers at once: a rebuild beside a worker's run, or the
  thread of a bulk write that outlives its cancelled coroutine, beside its retry.  `Scheduler` has
  such threads, `DealIngestion` does not.

Worth doing next, in this order: a second writer in `DealIngestion`, whose `IInv` shows which
conjuncts it would break (`JobOK` first); overlapping requests in `Accounts`, whose `AccountsInv` shows
the same.
