------------------------------ MODULE DealPlan ------------------------------
(***************************************************************************)
(* The pure decision function of the deal versioning layer,                *)
(* plan_ingestion in lessley_deals/versioning/ingestion.py, for the deals  *)
(* of one source.                                                          *)
(*                                                                         *)
(* A deal is identified by its deal_key (Keys).  What it says is one of    *)
(* the abstract Contents: two deals have the same content_hash iff they    *)
(* have the same content.  EndDate[c] is the end date the source itself    *)
(* declares in content c (extract_source_expiry), or NoDate.  The raw      *)
(* record a deal was scraped from has a fingerprint over the source, the   *)
(* description and the price text only: Text[k, c] is that part of deal k  *)
(* when it says c.                                                         *)
(*                                                                         *)
(* Times are ticks of an abstract clock; the units do not matter.          *)
(***************************************************************************)
EXTENDS Integers, FiniteSets

CONSTANTS
    Keys,               \* deal keys of the source
    Contents,           \* what a deal may say (its content hash)
    Text,               \* the fingerprinted part of a deal's record
    EndDate,            \* the end date a content declares, or NoDate
    NoDate,             \* "the source declares no end date"
    Null,               \* Python's None
    AbsenceThreshold,   \* consecutive missed runs before a deal expires
    AbsenceGrace,       \* ticks a deal must be missing before it expires
    CoverageNum,        \* min_coverage_ratio = CoverageNum / CoverageDen
    CoverageDen,
    ExpireOnSourceDate  \* expire_on_source_date

ASSUME PlanAssumption ==
    /\ AbsenceThreshold \in Nat
    /\ AbsenceGrace \in Nat
    /\ CoverageNum \in Nat
    /\ CoverageDen \in Nat \ {0}
    /\ ExpireOnSourceDate \in BOOLEAN
    /\ NoDate \notin Nat
    /\ EndDate \in [Contents -> Nat \union {NoDate}]
    /\ DOMAIN Text = Keys \X Contents

Fingerprint(k, c) == Text[k, c]

Fingerprints == {Fingerprint(k, c) : k \in Keys, c \in Contents}

\* A CurrentDeal row.  valid_to is a time only on an expired head.
Heads ==
    [ status          : {"active", "expired"},
      version         : Nat \ {0},
      content         : Contents,
      last_seen_at    : Nat,
      valid_to        : Nat \union {Null},
      missing_runs    : Nat,
      missing_since   : Nat \union {Null},
      raw_fingerprint : Fingerprints \union {Null} ]

ASSUME NullAssumption ==
    Null \notin Nat /\ Null \notin Contents /\ Null \notin Heads /\ Null \notin Fingerprints

\* A DealVersion row.
Rows ==
    [ deal_key    : Keys,
      version     : Nat \ {0},
      content     : Contents,
      change_type : {"new", "updated", "reactivated", "expired"},
      status      : {"active", "expired"},
      valid_from  : Nat,
      valid_to    : Nat \union {Null},
      is_current  : BOOLEAN ]

-----------------------------------------------------------------------------
(* Step 2 of plan_ingestion: classification of one incoming deal.          *)

\* Mutant: a rebuild may reactivate as well.
ClassifyAlwaysReactivating(head, content, allow_reactivation) ==
    CASE head = Null                   -> "new"
      [] head # Null /\ head.status = "expired" -> "reactivated"
      [] head # Null /\ head.status = "active" /\ head.content # content -> "updated"
      [] OTHER                         -> "unchanged"

Classify(head, content, allow_reactivation) ==
    CASE head = Null                -> "new"
      [] head # Null /\ head.status = "expired" /\ allow_reactivation
                                    -> "reactivated"
      [] head # Null /\ head.status = "expired" /\ ~allow_reactivation
                                    -> "suppressed"
      [] head # Null /\ head.status = "active" /\ head.content # content
                                    -> "updated"
      [] OTHER                      -> "unchanged"

\* Mutant: versions count from 0.
NextVersionFromZero(head) == IF head = Null THEN 0 ELSE head.version + 1

NextVersion(head) == IF head = Null THEN 1 ELSE head.version + 1

\* Mutant: seeing a deal again does not clear its absence.
TouchHeadKeepingMisses(head, now, fp) ==
    [head EXCEPT !.last_seen_at    = now,
                 !.raw_fingerprint = IF fp = Null THEN @ ELSE fp]

TouchHead(head, now, fp) ==
    [head EXCEPT !.last_seen_at    = now,
                 !.missing_runs    = 0,
                 !.missing_since   = Null,
                 !.raw_fingerprint = IF fp = Null THEN @ ELSE fp]

OpenHead(head, content, now, fp) ==
    [ status          |-> "active",
      version         |-> NextVersion(head),
      content         |-> content,
      last_seen_at    |-> now,
      valid_to        |-> Null,
      missing_runs    |-> 0,
      missing_since   |-> Null,
      raw_fingerprint |-> fp ]

ExpireHead(head, now, version) ==
    [head EXCEPT !.status = "expired", !.version = version, !.valid_to = now]

\* A head that was missed by a swept run but is still on probation.
MissHead(head, now) ==
    [head EXCEPT !.missing_runs  = @ + 1,
                 !.missing_since = IF @ = Null THEN now ELSE @]

LongGone(head, now) ==
    LET miss == MissHead(head, now) IN
    /\ now - miss.missing_since >= AbsenceGrace
    /\ miss.missing_runs >= AbsenceThreshold

Ended(content, now) == EndDate[content] # NoDate /\ EndDate[content] <= now

PastEndDate(head, now) == head.status = "active" /\ Ended(head.content, now)

NewRow(k, version, content, change, status, now) ==
    [ deal_key |-> k, version |-> version, content |-> content,
      change_type |-> change, status |-> status,
      valid_from |-> now, valid_to |-> Null, is_current |-> TRUE ]

\* _expiry_sweep_block_reason: TRUE when the absence sweep must not run.
SweepBlocked(run, listed, active) ==
    \/ ~run.sweep
    \/ ~run.ok
    \/ active > 0 /\ \/ listed = 0
                     \/ listed * CoverageDen < CoverageNum * active

-----------------------------------------------------------------------------
(* The plan.  heads is a function on Keys (Null: no head yet), incoming    *)
(* the content each deal key has in this run (Null: not among the new      *)
(* deals; a batch with duplicates is the function of its last occurrences) *)
(* and run says what kind of run it is:                                    *)
(*   at     the clock reading of this run                                  *)
(*   ok     the scrape reported no errors                                  *)
(*   seen   fingerprints of every record scraped, the unchanged ones too   *)
(*   fps    the run knows the fingerprints of its incoming deals           *)
(*   sweep  enable_expiry_sweep                                            *)
(*   react  allow_reactivation                                             *)

Plan(heads, incoming, run) ==
    LET now        == run.at
        Known      == {k \in Keys : heads[k] # Null}
        Active     == {k \in Known : heads[k].status = "active"}
        ByKey      == {k \in Keys : incoming[k] # Null}
        Class(k)   == Classify(heads[k], incoming[k], run.react)
        Fp(k)      == IF run.fps THEN Fingerprint(k, incoming[k]) ELSE Null
        Opened     == {k \in ByKey : Class(k) \in {"new", "updated", "reactivated"}}
        Unchanged  == {k \in ByKey : Class(k) = "unchanged"}
        Candidate(k) ==
            CASE k \in Opened    -> OpenHead(heads[k], incoming[k], now, Fp(k))
              [] k \in Unchanged -> TouchHead(heads[k], now, Fp(k))
              [] OTHER           -> heads[k]
        Dated      == IF ExpireOnSourceDate
                      THEN {k \in Known \union Opened : PastEndDate(Candidate(k), now)}
                      ELSE {}
        StillAlive == {k \in Active \ ByKey : /\ heads[k].raw_fingerprint # Null
                                              /\ heads[k].raw_fingerprint \in run.seen}
        Blocked    == SweepBlocked(run, Cardinality(ByKey) + Cardinality(StillAlive),
                                   Cardinality(Active))
        Absent     == IF Blocked THEN {} ELSE (Active \ ByKey) \ StillAlive
        Gone       == {k \in Absent : LongGone(heads[k], now)}
        \* The version _expire gives k: its own row if one was planned already.
        ExpiryVersion(k) == IF k \in Opened THEN Candidate(k).version
                                            ELSE Candidate(k).version + 1
        Retired    == (Dated \union Gone) \ Opened
        NewHead(k) ==
            CASE k \in StillAlive    -> TouchHead(heads[k], now, Null)
              [] k \in Gone          -> ExpireHead(heads[k], now, ExpiryVersion(k))
              [] k \in Absent \ Gone -> MissHead(heads[k], now)
              [] k \in Dated \ (StillAlive \union Absent)
                                     -> ExpireHead(Candidate(k), now, ExpiryVersion(k))
              [] OTHER               -> Candidate(k)
        OpenedRow(k) ==
            NewRow(k, Candidate(k).version, incoming[k], Class(k),
                   IF k \in Dated THEN "expired" ELSE "active", now)
        RetiredRow(k) ==
            NewRow(k, ExpiryVersion(k), heads[k].content, "expired", "expired", now)
    IN  [ versions |-> {OpenedRow(k) : k \in Opened} \union {RetiredRow(k) : k \in Retired},
          closures |-> (Opened \intersect Known) \union Retired,
          heads    |-> [k \in Opened \union Unchanged \union Dated \union StillAlive
                              \union Absent |-> NewHead(k)] ]
=============================================================================
