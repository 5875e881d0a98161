------------------------ MODULE ScrapePipeline_proofs ------------------------
(***************************************************************************)
(* Ingestion: what a plan holds, for any heads, any incoming deals and any *)
(* kind of run; what the four bulk writes that carry it out keep true of   *)
(* the stored collections, whatever cuts a run short and however often;    *)
(* that they implement the log of versions DealLog describes; that the     *)
(* collections agree while nothing is cut short; and why a deal retires.   *)
(*                                                                         *)
(* The pipeline around it: it keeps the ingestion's invariant, and the raw *)
(* archive covers the heads, in the archive step or after it and whatever  *)
(* rebuilds and reviews come between.  While all runs go through, archive, *)
(* history, heads and read model say one thing of every deal.              *)
(*                                                                         *)
(* All of it for every set of deals, contents, settings and either storage *)
(* backend.                                                                *)
(***************************************************************************)
EXTENDS ScrapePipeline, FiniteSetTheorems, TLAPS

-----------------------------------------------------------------------------
(* What the writes of a run may rely on in the plan they carry out, proved *)
(* of Plan alone.                                                          *)

TypedHeads(hs) == \A k \in Keys : hs[k] # Null => hs[k] \in Heads

RunRecord(run) ==
    run.at \in Nat /\ run.fps \in BOOLEAN /\ run.sweep \in BOOLEAN /\ run.react \in BOOLEAN

\* What a row has in common with the head it stands behind.
RowOf(r, k, head) ==
    /\ r.deal_key = k
    /\ r.version = head.version
    /\ r.status = head.status
    /\ r.content = head.content

\* A head that says what it said before, seen or missed once more.
KeepsVersion(old, new) ==
    /\ old # Null
    /\ new.version = old.version
    /\ new.status = old.status
    /\ new.content = old.content

PlannedRow(r, plan, hs, at) ==
    /\ r \in Rows
    /\ r.version = NextVersion(hs[r.deal_key])
    /\ r.is_current
    /\ r.valid_from = at
    /\ r.valid_to = Null
    /\ hs[r.deal_key] # Null => r.deal_key \in plan.closures

SeenNow(old, new, at) ==
    /\ new.last_seen_at = at \/ (old # Null /\ new.last_seen_at = old.last_seen_at)
    /\ old # Null /\ old.status = "expired" /\ new.status = "active" => new.last_seen_at = at

PlannedHead(k, plan, hs, at) ==
    /\ plan.heads[k] \in Heads
    /\ \/ KeepsVersion(hs[k], plan.heads[k]) /\ plan.heads[k].status = "active"
       \/ \E r \in plan.versions : RowOf(r, k, plan.heads[k])
    /\ SeenNow(hs[k], plan.heads[k], at)
    /\ plan.heads[k].status = "expired" => plan.heads[k].valid_to = at

\* The plan fits the heads hs and the time at.
PlanFits(plan, hs, at) ==
    /\ plan.closures \subseteq Keys
    /\ \A r \in plan.versions : PlannedRow(r, plan, hs, at)
    /\ \A r, s \in plan.versions : r.deal_key = s.deal_key => r = s
    /\ DOMAIN plan.heads \subseteq Keys
    /\ \A k \in DOMAIN plan.heads : PlannedHead(k, plan, hs, at)

\* The deals the plan brings back.
Reactivated(plan, hs) ==
    {k \in DOMAIN plan.heads : /\ hs[k] # Null
                               /\ hs[k].status = "expired"
                               /\ plan.heads[k].status = "active"}

\* What a head written by the plan says: what the deal says now, or else said.
SaysWhatIsKnown(k, plan, hs, incoming) ==
    IF incoming[k] # Null
    THEN plan.heads[k].content = incoming[k]
    ELSE hs[k] # Null /\ plan.heads[k].content = hs[k].content

\* The active deals that a run misses and may sweep.
ActiveIn(hs) == {k \in {x \in Keys : hs[x] # Null} : hs[k].status = "active"}

IncomingIn(incoming) == {k \in Keys : incoming[k] # Null}

SightedIn(hs, incoming, run) ==
    {k \in ActiveIn(hs) \ IncomingIn(incoming) : /\ hs[k].raw_fingerprint # Null
                                               /\ hs[k].raw_fingerprint \in run.seen}

SweepAllowed(hs, incoming, run) ==
    ~SweepBlocked(run, Cardinality(IncomingIn(incoming)) + Cardinality(SightedIn(hs, incoming, run)),
                  Cardinality(ActiveIn(hs)))

MissedIn(hs, incoming, run) ==
    {k \in (ActiveIn(hs) \ IncomingIn(incoming)) \ SightedIn(hs, incoming, run) :
        SweepAllowed(hs, incoming, run)}

\* A head's fingerprint is that of one of its deal's records.
OwnFingerprint(k, head) ==
    head.raw_fingerprint = Null \/ \E c \in Contents : head.raw_fingerprint = Fingerprint(k, c)

\* A head that the plan leaves active has been seen, or missed once more; one that
\* it retires before its end date has been missed for long.
JudgedFairly(k, head, hs, incoming, run) ==
    /\ head.status = "active" =>
          \/ head.missing_runs = 0 /\ head.missing_since = Null
          \/ k \in MissedIn(hs, incoming, run) /\ head = MissHead(hs[k], run.at)
    /\ head.status = "expired" /\ k \in ActiveIn(hs) /\ ~Ended(head.content, run.at) =>
          k \in MissedIn(hs, incoming, run) /\ LongGone(hs[k], run.at)
    /\ (hs[k] # Null => OwnFingerprint(k, hs[k])) => OwnFingerprint(k, head)

\* Nothing a deal says ends it: the source declares no end dates, or they are not read.
NothingEnds == ~ExpireOnSourceDate \/ \A c \in Contents : EndDate[c] = NoDate

\* A planned row gets the head it stands behind, and a closed row its successor.
PlanComplete(plan) ==
    /\ \A k \in plan.closures : \E r \in plan.versions : r.deal_key = k
    /\ \A r \in plan.versions : /\ r.deal_key \in DOMAIN plan.heads
                                 /\ plan.heads[r.deal_key].version = r.version

-----------------------------------------------------------------------------
(* The heads the operations return.                                        *)

\* Opening a version yields an active head at the next version, last seen now.
LEMMA OpenHeadType ==
    ASSUME NEW head, head # Null => head \in Heads, NEW content \in Contents,
           NEW at \in Nat, NEW fp \in Fingerprints \union {Null}
    PROVE  /\ OpenHead(head, content, at, fp) \in Heads
           /\ NextVersion(head) \in Nat \ {0}
BY DEF OpenHead, NextVersion, Heads

\* Seeing a head again keeps its version and moves last_seen_at only.
LEMMA TouchHeadType ==
    ASSUME NEW head \in Heads, NEW at \in Nat, NEW fp \in Fingerprints \union {Null}
    PROVE  /\ TouchHead(head, at, fp) \in Heads
           /\ TouchHead(head, at, fp).version = head.version
           /\ TouchHead(head, at, fp).status = head.status
           /\ TouchHead(head, at, fp).content = head.content
           /\ TouchHead(head, at, fp).last_seen_at = at
           /\ TouchHead(head, at, fp).missing_runs = 0
           /\ TouchHead(head, at, fp).missing_since = Null
           /\ TouchHead(head, at, fp).raw_fingerprint \in {fp, head.raw_fingerprint}
BY DEF TouchHead, Heads

\* Missing a head keeps its version and when it was last seen.
LEMMA MissHeadType ==
    ASSUME NEW head \in Heads, NEW at \in Nat
    PROVE  /\ MissHead(head, at) \in Heads
           /\ MissHead(head, at).version = head.version
           /\ MissHead(head, at).status = head.status
           /\ MissHead(head, at).content = head.content
           /\ MissHead(head, at).last_seen_at = head.last_seen_at
           /\ MissHead(head, at).raw_fingerprint = head.raw_fingerprint
           /\ MissHead(head, at).missing_runs = head.missing_runs + 1
           /\ MissHead(head, at).missing_since =
                 IF head.missing_since = Null THEN at ELSE head.missing_since
<1> DEFINE runs  == head.missing_runs + 1
           since == IF head.missing_since = Null THEN at ELSE head.missing_since
<1>1. runs \in Nat /\ since \in Nat \union {Null}
  BY DEF Heads
<1>2. MissHead(head, at) = [head EXCEPT !.missing_runs = runs, !.missing_since = since]
  BY DEF MissHead, Heads
<1> HIDE DEF runs, since
<1>3. /\ MissHead(head, at) \in Heads
      /\ MissHead(head, at).version = head.version
      /\ MissHead(head, at).status = head.status
      /\ MissHead(head, at).content = head.content
      /\ MissHead(head, at).last_seen_at = head.last_seen_at
      /\ MissHead(head, at).raw_fingerprint = head.raw_fingerprint
      /\ MissHead(head, at).missing_runs = runs
      /\ MissHead(head, at).missing_since = since
  BY <1>1, <1>2 DEF Heads
<1> QED
  BY <1>3 DEF runs, since

\* Expiring a head keeps its content and when it was last seen.
LEMMA ExpireHeadType ==
    ASSUME NEW head \in Heads, NEW at \in Nat, NEW version \in Nat \ {0}
    PROVE  /\ ExpireHead(head, at, version) \in Heads
           /\ ExpireHead(head, at, version).version = version
           /\ ExpireHead(head, at, version).status = "expired"
           /\ ExpireHead(head, at, version).content = head.content
           /\ ExpireHead(head, at, version).last_seen_at = head.last_seen_at
           /\ ExpireHead(head, at, version).valid_to = at
           /\ ExpireHead(head, at, version).raw_fingerprint = head.raw_fingerprint
BY DEF ExpireHead, Heads

\* A deal is unchanged only if it has an active head that says the same.
LEMMA UnchangedIsActive ==
    ASSUME NEW head, NEW content, NEW react,
           head # Null => head \in Heads,
           Classify(head, content, react) = "unchanged"
    PROVE  head # Null /\ head.status = "active" /\ head.content = content
<1>1. head # Null
  BY Zenon DEF Classify
<1>2. head.status # "expired"
  BY <1>1, Zenon DEF Classify
<1>3. head.status = "active"
  BY <1>1, <1>2 DEF Heads
<1>4. head.content = content
  BY <1>1, <1>3, Zenon DEF Classify
<1> QED
  BY <1>1, <1>3, <1>4

\* A deal that is listed is opened or unchanged, but for an expired one in a run that
\* may not reactivate.
LEMMA ListedIsOpenedOrUnchanged ==
    ASSUME NEW head, NEW content, NEW react \in BOOLEAN,
           head # Null => head \in Heads,
           head # Null /\ head.status = "expired" => react
    PROVE  Classify(head, content, react) \in {"new", "updated", "reactivated", "unchanged"}
<1>1. CASE head = Null
  <2>1. Classify(head, content, react) = "new"
    BY <1>1, Zenon DEF Classify
  <2> QED
    BY <2>1
<1>2. CASE head # Null /\ head.status = "expired"
  <2>1. Classify(head, content, react) = "reactivated"
    BY <1>2, Zenon DEF Classify
  <2> QED
    BY <2>1
<1>3. CASE head # Null /\ head.status = "active" /\ head.content # content
  <2>1. Classify(head, content, react) = "updated"
    BY <1>3, Zenon DEF Classify
  <2> QED
    BY <2>1
<1>4. CASE head # Null /\ head.status = "active" /\ head.content = content
  <2>1. Classify(head, content, react) = "unchanged"
    BY <1>4, Zenon DEF Classify
  <2> QED
    BY <2>1
<1> QED
  BY <1>1, <1>2, <1>3, <1>4 DEF Heads

\* An expired deal opens a new version only in a run that may reactivate.
LEMMA ReopeningNeedsLeave ==
    ASSUME NEW head, NEW content, NEW react, head # Null, head.status = "expired",
           Classify(head, content, react) \in {"new", "updated", "reactivated"}
    PROVE  react
<1>1. SUFFICES ASSUME ~react PROVE FALSE
  OBVIOUS
<1>2. Classify(head, content, react) = "suppressed"
  BY <1>1, Zenon DEF Classify
<1> QED
  BY <1>2

-----------------------------------------------------------------------------

\* Whatever the heads and the incoming deals, the plan appends at most one row
\* per deal, at the version after its head's, current and open; it closes the
\* row that one replaces; and every head it writes is either at the version it
\* had, or has its row in the plan.  An expired deal comes back only if it is
\* among the incoming deals of a run that may reactivate, and then always.  Every
\* head says what the deal says among the incoming deals, or else said before.
\* Where no deal ends by itself every row planned has its head planned with it.
LEMMA PlanFitsHeads ==
    ASSUME NEW hs, TypedHeads(hs), NEW incoming \in [Keys -> Contents \union {Null}],
           NEW run, RunRecord(run)
    PROVE  /\ PlanFits(Plan(hs, incoming, run), hs, run.at)
           /\ \A k \in Reactivated(Plan(hs, incoming, run), hs) :
                 run.react /\ incoming[k] # Null
           /\ \A k \in DOMAIN Plan(hs, incoming, run).heads :
                 SaysWhatIsKnown(k, Plan(hs, incoming, run), hs, incoming)
           /\ \A k \in Keys : run.react /\ incoming[k] # Null =>
                 k \in DOMAIN Plan(hs, incoming, run).heads
           /\ NothingEnds => PlanComplete(Plan(hs, incoming, run))
           /\ \A k \in DOMAIN Plan(hs, incoming, run).heads :
                 JudgedFairly(k, Plan(hs, incoming, run).heads[k], hs, incoming, run)
           /\ \A k \in ActiveIn(hs) : k \in IncomingIn(incoming) \union SightedIn(hs, incoming, run)
                                       => k \in DOMAIN Plan(hs, incoming, run).heads
<1> DEFINE
      runAt      == run.at
      Known      == {k \in Keys : hs[k] # Null}
      Active     == {k \in Known : hs[k].status = "active"}
      ByKey      == {k \in Keys : incoming[k] # Null}
      Class(k)   == Classify(hs[k], incoming[k], run.react)
      Fp(k)      == IF run.fps THEN Fingerprint(k, incoming[k]) ELSE Null
      Opened     == {k \in ByKey : Class(k) \in {"new", "updated", "reactivated"}}
      Unchanged  == {k \in ByKey : Class(k) = "unchanged"}
      Candidate(k) ==
          CASE k \in Opened    -> OpenHead(hs[k], incoming[k], runAt, Fp(k))
            [] k \in Unchanged -> TouchHead(hs[k], runAt, Fp(k))
            [] OTHER           -> hs[k]
      Dated      == IF ExpireOnSourceDate
                    THEN {k \in Known \union Opened : PastEndDate(Candidate(k), runAt)}
                    ELSE {}
      StillAlive == {k \in Active \ ByKey : /\ hs[k].raw_fingerprint # Null
                                            /\ hs[k].raw_fingerprint \in run.seen}
      Blocked    == SweepBlocked(run, Cardinality(ByKey) + Cardinality(StillAlive),
                                 Cardinality(Active))
      Absent     == IF Blocked THEN {} ELSE (Active \ ByKey) \ StillAlive
      Gone       == {k \in Absent : LongGone(hs[k], runAt)}
      ExpiryVersion(k) == IF k \in Opened THEN Candidate(k).version
                                          ELSE Candidate(k).version + 1
      Retired    == (Dated \union Gone) \ Opened
      NewHead(k) ==
          CASE k \in StillAlive    -> TouchHead(hs[k], runAt, Null)
            [] k \in Gone          -> ExpireHead(hs[k], runAt, ExpiryVersion(k))
            [] k \in Absent \ Gone -> MissHead(hs[k], runAt)
            [] k \in Dated \ (StillAlive \union Absent)
                                   -> ExpireHead(Candidate(k), runAt, ExpiryVersion(k))
            [] OTHER               -> Candidate(k)
      OpenedRow(k) ==
          NewRow(k, Candidate(k).version, incoming[k], Class(k),
                 IF k \in Dated THEN "expired" ELSE "active", runAt)
      RetiredRow(k) ==
          NewRow(k, ExpiryVersion(k), hs[k].content, "expired", "expired", runAt)
      Versions == {OpenedRow(k) : k \in Opened} \union {RetiredRow(k) : k \in Retired}
      Closures == (Opened \intersect Known) \union Retired
      Written  == Opened \union Unchanged \union Dated \union StillAlive \union Absent
      plan     == [versions |-> Versions, closures |-> Closures,
                   heads |-> [k \in Written |-> NewHead(k)]]
<1>1. Plan(hs, incoming, run) = plan
  BY Zenon DEF Plan
<1> HIDE DEF Candidate, NewHead, Class, Dated, Fp, Blocked
<1>2. runAt \in Nat /\ \A k \in Keys : hs[k] # Null => hs[k] \in Heads
  BY DEF TypedHeads, RunRecord
<1>3. /\ \A k \in Opened \union Unchanged : k \in Keys /\ incoming[k] \in Contents
      /\ \A k \in Opened : Class(k) \in {"new", "updated", "reactivated"}
  OBVIOUS
<1>4. \A k \in Unchanged : hs[k] # Null /\ hs[k].status = "active" /\ k \notin Opened
  <2> SUFFICES ASSUME NEW k \in Unchanged
               PROVE  hs[k] # Null /\ hs[k].status = "active" /\ k \notin Opened
    OBVIOUS
  <2>1. Class(k) = "unchanged"
    OBVIOUS
  <2>2. k \notin Opened
    BY <2>1
  <2> QED
    BY <1>2, <2>1, <2>2, UnchangedIsActive DEF Class
<1>5. /\ \A k \in Opened : Candidate(k) = OpenHead(hs[k], incoming[k], runAt, Fp(k))
      /\ \A k \in Unchanged : Candidate(k) = TouchHead(hs[k], runAt, Fp(k))
      /\ \A k : k \notin Opened /\ k \notin Unchanged => Candidate(k) = hs[k]
  <2>1. ASSUME NEW k \in Unchanged PROVE k \notin Opened
    BY <1>4
  <2> HIDE DEF Opened, Unchanged
  <2> QED
    BY <2>1, Zenon DEF Candidate
<1>6. \A k \in Keys : Fp(k) \in Fingerprints \union {Null} \/ incoming[k] \notin Contents
  BY DEF Fp, Fingerprints
<1>7. /\ \A k \in Dated : k \in Keys /\ (hs[k] # Null \/ k \in Opened)
      /\ \A k \in Dated : Candidate(k).status = "active"
  BY DEF Dated, PastEndDate
<1>8. \A k \in StillAlive \union Absent :
        /\ k \in Keys /\ hs[k] # Null /\ hs[k].status = "active"
        /\ k \notin Opened /\ k \notin Unchanged
        /\ Candidate(k) = hs[k]
  BY <1>5
<1>9. Absent \intersect StillAlive = {} /\ Gone \subseteq Absent
  OBVIOUS
<1>10. /\ \A k \in StillAlive : NewHead(k) = TouchHead(hs[k], runAt, Null)
       /\ \A k \in Gone : NewHead(k) = ExpireHead(hs[k], runAt, ExpiryVersion(k))
       /\ \A k \in Absent \ Gone : NewHead(k) = MissHead(hs[k], runAt)
       /\ \A k \in Dated \ (StillAlive \union Absent) :
             NewHead(k) = ExpireHead(Candidate(k), runAt, ExpiryVersion(k))
       /\ \A k : k \notin StillAlive \union Absent \union Dated => NewHead(k) = Candidate(k)
  <2> HIDE DEF StillAlive, Absent, Gone, ExpiryVersion
  <2>1. \A k \in StillAlive : NewHead(k) = TouchHead(hs[k], runAt, Null)
    BY <1>9, Zenon DEF NewHead
  <2>2. \A k \in Gone : NewHead(k) = ExpireHead(hs[k], runAt, ExpiryVersion(k))
    BY <1>9, Zenon DEF NewHead
  <2>3. \A k \in Absent \ Gone : NewHead(k) = MissHead(hs[k], runAt)
    BY <1>9, Zenon DEF NewHead
  <2>4. \A k \in Dated \ (StillAlive \union Absent) :
             NewHead(k) = ExpireHead(Candidate(k), runAt, ExpiryVersion(k))
    BY <1>9, Zenon DEF NewHead
  <2>5. \A k : k \notin StillAlive \union Absent \union Dated => NewHead(k) = Candidate(k)
    BY <1>9, Zenon DEF NewHead
  <2> QED
    BY <2>1, <2>2, <2>3, <2>4, <2>5
\* The heads: what is written for a deal that was opened, retired, or neither.
<1>11. ASSUME NEW k \in Opened
       PROVE  /\ k \in Keys /\ incoming[k] \in Contents
              /\ Candidate(k) \in Heads
              /\ Candidate(k).version = NextVersion(hs[k])
              /\ Candidate(k).status = "active"
              /\ Candidate(k).content = incoming[k]
              /\ Candidate(k).last_seen_at = runAt
  <2>1. Candidate(k) = OpenHead(hs[k], incoming[k], runAt, Fp(k))
    BY <1>5
  <2>2. k \in Keys /\ incoming[k] \in Contents /\ Fp(k) \in Fingerprints \union {Null}
    BY <1>3, <1>6
  <2>3. OpenHead(hs[k], incoming[k], runAt, Fp(k)) \in Heads
    BY <1>2, <2>2, OpenHeadType
  <2> QED
    BY <2>1, <2>2, <2>3 DEF OpenHead
<1>12. ASSUME NEW k \in Unchanged
       PROVE  /\ k \in Keys
              /\ Candidate(k) \in Heads
              /\ KeepsVersion(hs[k], Candidate(k))
              /\ Candidate(k).status = "active"
              /\ Candidate(k).last_seen_at = runAt
  <2>1. Candidate(k) = TouchHead(hs[k], runAt, Fp(k))
    BY <1>5
  <2>2. k \in Keys /\ Fp(k) \in Fingerprints \union {Null}
    BY <1>3, <1>6
  <2>3. hs[k] \in Heads /\ hs[k] # Null /\ hs[k].status = "active"
    BY <1>2, <1>4, <2>2
  <2> QED
    BY <1>2, <2>1, <2>2, <2>3, TouchHeadType DEF KeepsVersion
<1>13. ASSUME NEW k \in Retired
       PROVE  /\ k \in Keys /\ k \notin Opened /\ hs[k] \in Heads /\ hs[k] # Null
              /\ Candidate(k) \in Heads
              /\ Candidate(k).content = hs[k].content
              /\ Candidate(k).last_seen_at \in {hs[k].last_seen_at, runAt}
              /\ hs[k].status = "active"
              /\ ExpiryVersion(k) = NextVersion(hs[k])
              /\ ExpiryVersion(k) \in Nat \ {0}
  <2>1. k \in Keys /\ k \notin Opened /\ hs[k] # Null
    BY <1>7, <1>8, <1>9
  <2>2. hs[k] \in Heads
    BY <1>2, <2>1
  <2>3. CASE k \in Unchanged
    BY <1>4, <1>12, <2>1, <2>2, <2>3 DEF KeepsVersion, NextVersion, Heads
  <2>4. CASE k \notin Unchanged
    <3>1. Candidate(k) = hs[k]
      BY <1>5, <2>1, <2>4
    <3>2. hs[k].status = "active"
      BY <1>7, <1>8, <1>9, <2>1, <3>1
    <3> QED
      BY <2>1, <2>2, <3>1, <3>2 DEF NextVersion, Heads
  <2> QED
    BY <2>3, <2>4
<1> HIDE DEF ExpiryVersion
\* The rows.
<1>14. ASSUME NEW k \in Opened
       PROVE  PlannedRow(OpenedRow(k), plan, hs, runAt) /\ OpenedRow(k).deal_key = k
  <2>1. NextVersion(hs[k]) \in Nat \ {0}
    BY <1>11 DEF Heads
  <2>2. Class(k) \in {"new", "updated", "reactivated", "expired"}
    BY <1>3
  <2>3. OpenedRow(k) \in Rows
    BY <1>2, <1>11, <2>1, <2>2 DEF NewRow, Rows
  <2>4. hs[k] # Null => k \in Closures
    BY <1>11
  <2> HIDE DEF Closures
  <2> QED
    BY <1>11, <2>3, <2>4 DEF NewRow, PlannedRow
<1>15. ASSUME NEW k \in Retired
       PROVE  PlannedRow(RetiredRow(k), plan, hs, runAt) /\ RetiredRow(k).deal_key = k
  <2>1. hs[k].content \in Contents
    BY <1>13 DEF Heads
  <2>2. RetiredRow(k) \in Rows
    BY <1>2, <1>13, <2>1 DEF NewRow, Rows
  <2>3. k \in Closures
    OBVIOUS
  <2> HIDE DEF Closures
  <2> QED
    BY <1>13, <2>2, <2>3 DEF NewRow, PlannedRow
\* The heads written.
<1>16. ASSUME NEW k \in Written
       PROVE  PlannedHead(k, plan, hs, runAt)
  <2>1. plan.heads[k] = NewHead(k)
    BY Zenon
  <2>a. /\ \A x \in Opened : OpenedRow(x) \in plan.versions
        /\ \A x \in Retired : RetiredRow(x) \in plan.versions
    OBVIOUS
  <2>b. \A x \in Absent : x \in Gone \/ x \in Absent \ Gone
    OBVIOUS
  <2>c. /\ \A x \in Gone : x \in Retired
        /\ \A x \in Dated : x \in Opened \/ x \in Retired
    BY <1>8, <1>9
  <2>d. k \in Opened \union Unchanged \union Dated \union StillAlive \union Absent
    OBVIOUS
  <2> HIDE DEF plan, OpenedRow, RetiredRow, Written, Opened, Unchanged, StillAlive, Absent,
               Gone, Retired
  <2>2. CASE k \in StillAlive
    <3>1. NewHead(k) = TouchHead(hs[k], runAt, Null)
      BY <1>10, <2>2
    <3>2. hs[k] \in Heads /\ hs[k] # Null /\ hs[k].status = "active"
      BY <1>2, <1>8, <2>2
    <3> QED
      BY <1>2, <2>1, <3>1, <3>2, TouchHeadType DEF PlannedHead, KeepsVersion, SeenNow
  <2>3. CASE k \in Gone
    <3>1. NewHead(k) = ExpireHead(hs[k], runAt, ExpiryVersion(k))
      BY <1>10, <2>3
    <3>2. k \in Retired
      BY <2>c, <2>3
    <3>3. RowOf(RetiredRow(k), k, NewHead(k))
      BY <1>2, <1>13, <1>15, <3>1, <3>2, ExpireHeadType DEF NewRow, RowOf, RetiredRow
    <3>4. RetiredRow(k) \in plan.versions
      BY <2>a, <3>2
    <3> QED
      BY <1>2, <1>13, <2>1, <3>1, <3>2, <3>3, <3>4, ExpireHeadType DEF PlannedHead, SeenNow
  <2>4. CASE k \in Absent \ Gone
    <3>1. NewHead(k) = MissHead(hs[k], runAt)
      BY <1>10, <2>4
    <3>2. hs[k] \in Heads /\ hs[k] # Null /\ hs[k].status = "active"
      BY <1>2, <1>8, <2>4
    <3> QED
      BY <1>2, <2>1, <3>1, <3>2, MissHeadType DEF PlannedHead, KeepsVersion, SeenNow
  <2>5. CASE k \in Dated \ (StillAlive \union Absent)
    <3>1. NewHead(k) = ExpireHead(Candidate(k), runAt, ExpiryVersion(k))
      BY <1>10, <2>5
    <3>2. CASE k \in Opened
      <4>1. ExpiryVersion(k) = Candidate(k).version /\ ExpiryVersion(k) \in Nat \ {0}
        BY <1>11, <3>2 DEF ExpiryVersion, Heads
      <4>2. RowOf(OpenedRow(k), k, NewHead(k))
        BY <1>2, <1>11, <1>14, <2>5, <3>1, <3>2, <4>1, ExpireHeadType DEF NewRow, RowOf, OpenedRow
      <4>3. OpenedRow(k) \in plan.versions
        BY <2>a, <3>2
      <4> QED
        BY <1>2, <1>11, <2>1, <3>1, <3>2, <4>1, <4>2, <4>3, ExpireHeadType
           DEF PlannedHead, SeenNow
    <3>3. CASE k \notin Opened
      <4>1. k \in Retired
        BY <2>c, <2>5, <3>3
      <4>2. RowOf(RetiredRow(k), k, NewHead(k))
        BY <1>2, <1>13, <1>15, <3>1, <4>1, ExpireHeadType DEF NewRow, RowOf, RetiredRow
      <4>3. RetiredRow(k) \in plan.versions
        BY <2>a, <4>1
      <4> QED
        BY <1>2, <1>13, <2>1, <3>1, <4>1, <4>2, <4>3, ExpireHeadType
           DEF PlannedHead, SeenNow
    <3> QED
      BY <3>2, <3>3
  <2>6. CASE k \notin StillAlive \union Absent \union Dated
    <3>1. NewHead(k) = Candidate(k)
      BY <1>10, <2>6
    <3>2. CASE k \in Opened
      <4>1. RowOf(OpenedRow(k), k, NewHead(k))
        BY <1>11, <1>14, <2>6, <3>1, <3>2 DEF NewRow, RowOf, OpenedRow
      <4>2. OpenedRow(k) \in plan.versions
        BY <2>a, <3>2
      <4> QED
        BY <1>11, <2>1, <3>1, <3>2, <4>1, <4>2 DEF PlannedHead, SeenNow
    <3>3. CASE k \in Unchanged
      BY <1>12, <2>1, <3>1, <3>3 DEF PlannedHead, SeenNow
    <3> QED
      BY <2>d, <2>6, <3>2, <3>3
  <2> QED
    BY <2>b, <2>2, <2>3, <2>4, <2>5, <2>6
<1>17. /\ \A r \in plan.versions : PlannedRow(r, plan, hs, runAt)
       /\ \A r, s \in plan.versions : r.deal_key = s.deal_key => r = s
  <2>1. plan.versions = {OpenedRow(k) : k \in Opened} \union {RetiredRow(k) : k \in Retired}
    OBVIOUS
  <2>2. Opened \intersect Retired = {}
    OBVIOUS
  <2> HIDE DEF plan, OpenedRow, RetiredRow, Opened, Retired
  <2> QED
    BY <1>14, <1>15, <2>1, <2>2
<1>18. plan.closures \subseteq Keys /\ DOMAIN plan.heads = Written /\ Written \subseteq Keys
  BY <1>3, <1>7, <1>8
\* Only an opened deal is brought back.
<1>19. ASSUME NEW k \in Written, hs[k] # Null, hs[k].status = "expired"
       PROVE  k \in Opened
  <2>1. k \in Opened \/ k \in Unchanged \/ k \in Dated \/ k \in StillAlive \union Absent
    OBVIOUS
  <2>2. k \notin Unchanged /\ k \notin StillAlive \union Absent
    BY <1>4, <1>8, <1>19
  <2>3. k \in Dated => k \in Opened
    BY <1>5, <1>7, <1>19, <2>2
  <2> QED
    BY <2>1, <2>2, <2>3
<1>20. ASSUME NEW k \in Opened, hs[k] # Null, hs[k].status = "expired"
       PROVE  run.react /\ incoming[k] # Null
  <2>1. Classify(hs[k], incoming[k], run.react) \in {"new", "updated", "reactivated"}
    BY <1>3 DEF Class
  <2> QED
    BY <1>20, <2>1, ReopeningNeedsLeave
\* Every operation on a head keeps what it says, but for opening a version.
<1>21. ASSUME NEW k \in Written
       PROVE  SaysWhatIsKnown(k, plan, hs, incoming)
  <2>1. plan.heads[k] = NewHead(k)
    BY Zenon
  <2>2. k \in Opened \union Unchanged \union Dated \union StillAlive \union Absent
    OBVIOUS
  <2>3. \A x \in Absent : x \in Gone \/ x \in Absent \ Gone
    OBVIOUS
  <2>4. \A x \in Gone : x \in Retired
    BY <1>8, <1>9
  <2>5. \A x \in Dated : x \in Opened \/ x \in Retired
    OBVIOUS
  <2> DEFINE Says(head) == IF incoming[k] # Null
                           THEN head.content = incoming[k]
                           ELSE hs[k] # Null /\ head.content = hs[k].content
  <2>6. /\ k \in Opened => incoming[k] # Null
        /\ k \in StillAlive \union Absent => incoming[k] = Null
    OBVIOUS
  <2>a. ASSUME k \in Unchanged PROVE hs[k].content = incoming[k] /\ incoming[k] # Null
    BY <1>2, <2>a, UnchangedIsActive DEF Class
  <2>b. ASSUME k \in Retired, incoming[k] # Null PROVE k \in Unchanged
    <3>1. k \in Keys /\ hs[k] # Null /\ hs[k] \in Heads /\ hs[k].status = "active"
          /\ k \notin Opened
      BY <1>13, <2>b
    <3>2. Class(k) \in {"new", "updated", "reactivated", "unchanged"}
      BY <3>1, ListedIsOpenedOrUnchanged DEF Class, RunRecord
    <3> QED
      BY <2>b, <3>1, <3>2
  <2> HIDE DEF plan, Written, Opened, Unchanged, StillAlive, Absent, Gone, Retired
  <2>7. k \in Opened \union Unchanged \union Retired =>
          Candidate(k) \in Heads /\ Says(Candidate(k))
    <3>1. ASSUME k \in Opened PROVE Candidate(k) \in Heads /\ Says(Candidate(k))
      BY <1>11, <2>6, <3>1
    <3>2. ASSUME k \in Unchanged PROVE Candidate(k) \in Heads /\ Says(Candidate(k))
      BY <1>12, <2>a, <3>2 DEF KeepsVersion
    <3>3. ASSUME k \in Retired PROVE Candidate(k) \in Heads /\ Says(Candidate(k))
      BY <1>13, <2>b, <3>2, <3>3
    <3> QED
      BY <3>1, <3>2, <3>3
  <2>8. CASE k \in StillAlive \union Absent
    <3>1. hs[k] \in Heads /\ hs[k] # Null /\ incoming[k] = Null
      BY <1>2, <1>8, <2>6, <2>8
    <3>2. ASSUME k \in StillAlive PROVE NewHead(k).content = hs[k].content
      BY <1>2, <1>10, <3>1, <3>2, TouchHeadType
    <3>3. ASSUME k \in Gone PROVE NewHead(k).content = hs[k].content
      BY <1>2, <1>10, <1>13, <2>4, <3>1, <3>3, ExpireHeadType
    <3>4. ASSUME k \in Absent \ Gone PROVE NewHead(k).content = hs[k].content
      BY <1>2, <1>10, <3>1, <3>4, MissHeadType
    <3>5. NewHead(k).content = hs[k].content
      BY <2>3, <2>8, <3>2, <3>3, <3>4
    <3> QED
      BY <2>1, <3>1, <3>5 DEF SaysWhatIsKnown
  <2>9. CASE k \in Dated \ (StillAlive \union Absent)
    <3>1. ExpiryVersion(k) \in Nat \ {0}
      BY <1>11, <1>13, <2>5, <2>9 DEF ExpiryVersion, Heads
    <3>2. NewHead(k).content = Candidate(k).content
      BY <1>2, <1>10, <2>5, <2>7, <2>9, <3>1, ExpireHeadType
    <3> QED
      BY <2>1, <2>5, <2>7, <2>9, <3>2 DEF SaysWhatIsKnown
  <2>10. CASE k \notin StillAlive \union Absent \union Dated
    BY <1>10, <2>1, <2>2, <2>7, <2>10 DEF SaysWhatIsKnown
  <2> QED
    BY <2>8, <2>9, <2>10
<1>22. ASSUME NEW k \in Keys, run.react, incoming[k] # Null
       PROVE  k \in Written
  <2>1. Class(k) \in {"new", "updated", "reactivated", "unchanged"}
    BY <1>2, <1>22, ListedIsOpenedOrUnchanged DEF Class, RunRecord
  <2> QED
    BY <1>22, <2>1
\* Where no deal ends by itself only the deals gone for long are retired.
<1>23. ASSUME NothingEnds
       PROVE  PlanComplete(plan)
  <2>1. \A k \in Opened : Candidate(k).content \in Contents
    BY <1>11 DEF Heads
  <2>2. \A k \in Known : Candidate(k) \in Heads
    <3> SUFFICES ASSUME NEW k \in Known PROVE Candidate(k) \in Heads
      OBVIOUS
    <3>1. CASE k \in Opened
      BY <1>11, <3>1
    <3>2. CASE k \in Unchanged
      BY <1>12, <3>2
    <3>3. CASE k \notin Opened /\ k \notin Unchanged
      BY <1>2, <1>5, <3>3
    <3> QED
      BY <3>1, <3>2, <3>3
  <2>3. Dated = {}
    BY <1>23, <2>1, <2>2 DEF Dated, PastEndDate, Ended, NothingEnds, Heads
  <2>4. Retired = Gone
    BY <1>8, <1>9, <2>3
  <2>5. ASSUME NEW k \in Opened
        PROVE  k \in Written /\ plan.heads[k].version = OpenedRow(k).version
    <3>1. k \in Written /\ plan.heads[k] = NewHead(k)
      BY Zenon
    <3>2. k \notin StillAlive \union Absent \union Dated
      BY <1>8, <2>3
    <3>3. NewHead(k) = Candidate(k)
      BY <1>10, <3>2
    <3>4. OpenedRow(k).version = Candidate(k).version
      BY DEF NewRow
    <3> HIDE DEF plan, OpenedRow
    <3> QED
      BY <3>1, <3>3, <3>4
  <2>6. ASSUME NEW k \in Retired
        PROVE  k \in Written /\ plan.heads[k].version = RetiredRow(k).version
    <3>1. k \in Written /\ plan.heads[k] = NewHead(k)
      BY <1>9, <2>4, Zenon
    <3>2. NewHead(k) = ExpireHead(hs[k], runAt, ExpiryVersion(k))
      BY <1>10, <2>4
    <3>3. RetiredRow(k).version = ExpiryVersion(k)
      BY DEF NewRow
    <3> HIDE DEF plan, RetiredRow
    <3> QED
      BY <1>2, <1>13, <3>1, <3>2, <3>3, ExpireHeadType
  <2>7. plan.versions = {OpenedRow(k) : k \in Opened} \union {RetiredRow(k) : k \in Retired}
    OBVIOUS
  <2>8. /\ plan.closures \subseteq Opened \union Retired
        /\ DOMAIN plan.heads = Written
    OBVIOUS
  <2> HIDE DEF plan, OpenedRow, RetiredRow, Opened, Retired, Written
  <2>9. \A k \in plan.closures : \E r \in plan.versions : r.deal_key = k
    BY <1>14, <1>15, <2>7, <2>8
  <2>10. \A r \in plan.versions : /\ r.deal_key \in DOMAIN plan.heads
                                 /\ plan.heads[r.deal_key].version = r.version
    BY <1>14, <1>15, <2>5, <2>6, <2>7, <2>8
  <2> QED
    BY <2>9, <2>10 DEF PlanComplete
\* A head the plan leaves active was seen or missed, one it retires early was gone.
<1>24. Absent = MissedIn(hs, incoming, run) /\ StillAlive = SightedIn(hs, incoming, run)
       /\ Active = ActiveIn(hs)
  <2>1. Active = ActiveIn(hs) /\ ByKey = IncomingIn(incoming)
    BY DEF ActiveIn, IncomingIn
  <2> HIDE DEF Active, ByKey
  <2>2. StillAlive = SightedIn(hs, incoming, run)
    BY <2>1 DEF SightedIn
  <2> HIDE DEF StillAlive
  <2>3. Blocked <=> ~SweepAllowed(hs, incoming, run)
    BY <2>1, <2>2, Zenon DEF Blocked, SweepAllowed
  <2> HIDE DEF Blocked
  <2> QED
    BY <2>1, <2>2, <2>3 DEF MissedIn
<1>25. ASSUME NEW k \in Written
       PROVE  JudgedFairly(k, plan.heads[k], hs, incoming, run)
  <2>1. plan.heads[k] = NewHead(k)
    BY Zenon
  <2>2. k \in Opened \union Unchanged \union Dated \union StillAlive \union Absent
    OBVIOUS
  <2>3. \A x \in Absent : x \in Gone \/ x \in Absent \ Gone
    OBVIOUS
  <2>4. (\A x \in Gone : x \in Retired) /\ (\A x \in Gone : LongGone(hs[x], runAt))
    BY <1>8, <1>9
  <2>5. \A x \in Dated : x \in Opened \/ x \in Retired
    OBVIOUS
  <2>6. \A x \in ActiveIn(hs) : hs[x] # Null
    BY DEF ActiveIn
  <2>a. \A x \in Dated : Ended(Candidate(x).content, runAt)
    BY DEF Dated, PastEndDate
  <2>b. k \in Opened \union Unchanged => incoming[k] \in Contents /\ k \in Keys
    BY <1>3
  <2>c. Fp(k) = Null \/ Fp(k) = Fingerprint(k, incoming[k])
    BY DEF Fp
  <2> HIDE DEF plan, Written, Opened, Unchanged, StillAlive, Absent, Gone, Retired, Active
  <2> DEFINE Own == hs[k] # Null => OwnFingerprint(k, hs[k])
  <2>7. ASSUME k \in Opened
        PROVE  /\ Candidate(k).missing_runs = 0 /\ Candidate(k).missing_since = Null
               /\ OwnFingerprint(k, Candidate(k))
    BY <1>5, <2>7, <2>b, <2>c DEF OpenHead, OwnFingerprint
  <2>8. ASSUME k \in Unchanged
        PROVE  /\ Candidate(k).missing_runs = 0 /\ Candidate(k).missing_since = Null
               /\ Own => OwnFingerprint(k, Candidate(k))
    <3>1. Candidate(k) = TouchHead(hs[k], runAt, Fp(k)) /\ hs[k] # Null /\ hs[k] \in Heads
      BY <1>2, <1>4, <1>5, <2>8, <2>b
    <3>2. Fp(k) \in Fingerprints \union {Null}
      BY <1>6, <2>8, <2>b
    <3>3. /\ Candidate(k).missing_runs = 0 /\ Candidate(k).missing_since = Null
          /\ Candidate(k).raw_fingerprint \in {Fp(k), hs[k].raw_fingerprint}
      BY <1>2, <3>1, <3>2, TouchHeadType
    <3> QED
      BY <2>8, <2>b, <2>c, <3>1, <3>3 DEF OwnFingerprint
  <2>9. ASSUME k \in Opened \union Unchanged \union Retired
        PROVE  Candidate(k) \in Heads /\ (Own => OwnFingerprint(k, Candidate(k)))
    <3>1. k \in Retired /\ k \notin Unchanged => Candidate(k) = hs[k]
      BY <1>5, <1>13
    <3> QED
      BY <1>11, <1>12, <1>13, <2>7, <2>8, <2>9, <3>1
  <2>10. CASE k \in StillAlive
    <3>1. hs[k] \in Heads /\ hs[k] # Null /\ NewHead(k) = TouchHead(hs[k], runAt, Null)
          /\ hs[k].status = "active"
      BY <1>2, <1>8, <1>10, <2>10
    <3>2. /\ NewHead(k).missing_runs = 0 /\ NewHead(k).missing_since = Null
          /\ NewHead(k).status = "active"
          /\ NewHead(k).raw_fingerprint \in {Null, hs[k].raw_fingerprint}
      BY <1>2, <3>1, TouchHeadType
    <3> QED
      BY <2>1, <3>1, <3>2 DEF JudgedFairly, OwnFingerprint
  <2>11. CASE k \in Gone
    <3>1. k \in Absent /\ LongGone(hs[k], runAt) /\ hs[k] \in Heads /\ hs[k] # Null
      BY <1>2, <1>8, <1>9, <2>4, <2>11
    <3>2. NewHead(k).status = "expired" /\ NewHead(k).raw_fingerprint = hs[k].raw_fingerprint
      BY <1>2, <1>10, <1>13, <2>4, <2>11, <3>1, ExpireHeadType
    <3> QED
      BY <1>24, <2>1, <3>1, <3>2 DEF JudgedFairly, OwnFingerprint
  <2>12. CASE k \in Absent \ Gone
    <3>1. hs[k] \in Heads /\ hs[k] # Null /\ NewHead(k) = MissHead(hs[k], runAt)
          /\ hs[k].status = "active"
      BY <1>2, <1>8, <1>10, <2>12
    <3>2. NewHead(k).status = "active" /\ NewHead(k).raw_fingerprint = hs[k].raw_fingerprint
      BY <1>2, <3>1, MissHeadType
    <3> QED
      BY <1>24, <2>1, <2>12, <3>1, <3>2 DEF JudgedFairly, OwnFingerprint
  <2>13. CASE k \in Dated \ (StillAlive \union Absent)
    <3>1. ExpiryVersion(k) \in Nat \ {0}
      BY <1>11, <1>13, <2>5, <2>13 DEF ExpiryVersion, Heads
    <3>2. /\ NewHead(k).content = Candidate(k).content /\ NewHead(k).status = "expired"
          /\ NewHead(k).raw_fingerprint = Candidate(k).raw_fingerprint
      BY <1>2, <1>10, <2>5, <2>9, <2>13, <3>1, ExpireHeadType
    <3>3. Own => OwnFingerprint(k, NewHead(k))
      BY <2>5, <2>9, <2>13, <3>2 DEF OwnFingerprint
    <3> QED
      BY <2>1, <2>13, <2>a, <3>2, <3>3 DEF JudgedFairly
  <2>14. CASE k \notin StillAlive \union Absent \union Dated
    <3>1. NewHead(k) = Candidate(k) /\ k \in Opened \union Unchanged
      BY <1>10, <2>2, <2>14
    <3>2. Candidate(k).status = "active"
      BY <1>11, <1>12, <3>1
    <3>3. /\ Candidate(k).missing_runs = 0 /\ Candidate(k).missing_since = Null
          /\ Own => OwnFingerprint(k, Candidate(k))
      BY <2>7, <2>8, <3>1
    <3> QED
      BY <2>1, <3>1, <3>2, <3>3 DEF JudgedFairly
  <2> QED
    BY <2>3, <2>10, <2>11, <2>12, <2>13, <2>14
<1>26. ASSUME NEW k \in ActiveIn(hs), k \in IncomingIn(incoming) \union SightedIn(hs, incoming, run)
       PROVE  k \in Written
  <2>1. CASE k \in SightedIn(hs, incoming, run)
    BY <1>24, <2>1
  <2>2. CASE k \in IncomingIn(incoming)
    <3>1. k \in ByKey /\ k \in Keys /\ hs[k] # Null /\ hs[k].status = "active"
      BY <2>2 DEF IncomingIn, ActiveIn
    <3>2. Class(k) \in {"new", "updated", "reactivated", "unchanged"}
      BY <1>2, <3>1, ListedIsOpenedOrUnchanged DEF Class, RunRecord
    <3> QED
      BY <3>1, <3>2
  <2> QED
    BY <1>26, <2>1, <2>2
<1> HIDE DEF plan, Written, Opened
<1> QED
  BY <1>1, <1>16, <1>17, <1>18, <1>19, <1>20, <1>21, <1>22, <1>23,
     <1>25, <1>26 DEF PlanFits, Reactivated

-----------------------------------------------------------------------------
(* The inductive invariant.                                                *)

RowInHistory(r, hs, t) ==
    /\ r \in Rows
    /\ r.version <= NextVersion(hs[r.deal_key])
    /\ r.valid_from <= t
    /\ r.is_current <=> r.valid_to = Null
    /\ r.valid_to # Null => r.valid_to <= t

\* A later version begins when, or after, the earlier one was closed.
Succeeds(r, s) ==
    r.deal_key = s.deal_key /\ r.version < s.version
        => r.valid_to # Null /\ r.valid_to <= s.valid_from

\* The rows rs are a history of the heads hs at time t.
History(rs, hs, t) ==
    /\ \A r \in rs : RowInHistory(r, hs, t)
    /\ \A r, s \in rs : SameVersion(r, s) => r = s
    /\ \A r, s \in rs : Succeeds(r, s)
    /\ \A r \in rs : r.version > 1 => \E s \in rs : /\ s.deal_key = r.deal_key
                                                   /\ s.version = r.version - 1
    /\ \A k \in Keys : hs[k] # Null => \E r \in rs : RowOf(r, k, hs[k])

HeadAt(head, t) ==
    /\ head \in Heads
    /\ head.last_seen_at <= t
    /\ head.status = "expired" => head.valid_to \in Nat /\ head.valid_to <= t

\* What the read model says of a deal is behind its head.
Behind(deal, head, t) ==
    /\ head # Null
    /\ deal \in DealRows
    /\ deal.last_seen_at <= head.last_seen_at
    /\ deal.status = "expired" =>
          /\ deal.expired_at \in Nat
          /\ deal.expired_at <= t
          /\ \/ head.status = "expired"
             \/ head.last_seen_at >= deal.expired_at

PlanTyped(plan) ==
    /\ plan.closures \subseteq Keys
    /\ \A r \in plan.versions : r \in Rows
    /\ DOMAIN plan.heads \subseteq Keys
    /\ \A k \in DOMAIN plan.heads : plan.heads[k] \in Heads

JobOK ==
    \/ job = Idle
    \/ /\ job = [pc |-> job.pc, plan |-> job.plan, at |-> job.at, listing |-> job.listing,
                 deletes |-> job.deletes]
       /\ job.pc \in {"close", "append", "heads", "project"}
       /\ job.at = now
       /\ job.listing \in Listings
       /\ job.deletes \in {{}, Deletable}
       /\ PlanTyped(job.plan)
       /\ job.pc \in {"close", "append", "heads"} =>
             /\ PlanFits(job.plan, heads, now)
             /\ \A k \in Reactivated(job.plan, heads) : job.listing[k] # Null
       /\ job.pc = "append" =>
             \A r \in rows : r.deal_key \in job.plan.closures => ~r.is_current
       /\ job.pc = "heads" => job.plan.versions \subseteq rows
       /\ job.pc = "project" =>
             \A k \in DOMAIN job.plan.heads : heads[k] = job.plan.heads[k]

CountersOK ==
    /\ interrupts \in 0 .. MaxInterrupts
    /\ last_listed \in [Keys -> Nat]
    /\ misses \in [Keys -> Nat]

IInv ==
    /\ now \in Nat
    /\ \A k \in Keys : heads[k] # Null => HeadAt(heads[k], now)
    /\ History(rows, heads, now)
    /\ \A k \in Keys : deals[k] # Null => Behind(deals[k], heads[k], now)
    /\ JobOK
    /\ CountersOK

-----------------------------------------------------------------------------
(* The bulk writes, one lemma each, for the part of the keys they reach.   *)

\* Closing rows, of whatever keys, leaves a history a history; of all keys, it
\* leaves no row the plan closes current.
LEMMA ClosedHistory ==
    ASSUME now \in Nat, History(rows, heads, now), job.at = now,
           job.plan.closures \subseteq Keys, NEW keys
    PROVE  /\ History(Closed(keys), heads, now)
           /\ \A r \in Closed(Keys) : r.deal_key \in job.plan.closures => ~r.is_current
<1> DEFINE Hit(r, ks) == r.is_current /\ r.deal_key \in job.plan.closures \intersect ks
           C(r, ks)   == IF Hit(r, ks)
                         THEN [r EXCEPT !.is_current = FALSE, !.valid_to = now] ELSE r
<1>1. \A ks : Closed(ks) = {C(r, ks) : r \in rows}
  BY DEF Closed
<1>2. ASSUME NEW r \in rows, NEW ks
      PROVE  /\ RowInHistory(C(r, ks), heads, now)
             /\ C(r, ks).deal_key = r.deal_key
             /\ C(r, ks).version = r.version
             /\ C(r, ks).status = r.status
             /\ C(r, ks).content = r.content
             /\ C(r, ks).valid_from = r.valid_from
             /\ r.valid_to # Null => C(r, ks) = r
             /\ Hit(r, ks) => ~C(r, ks).is_current
             /\ r \in Rows /\ r.version \in Nat
  <2>1. r \in Rows /\ RowInHistory(r, heads, now)
    BY DEF History, RowInHistory
  <2>2. CASE Hit(r, ks)
    <3> DEFINE x == [r EXCEPT !.is_current = FALSE, !.valid_to = now]
    <3>1. C(r, ks) = x /\ r.valid_to = Null
      BY <2>1, <2>2 DEF RowInHistory
    <3>2. /\ x \in Rows
          /\ x.deal_key = r.deal_key /\ x.version = r.version /\ x.status = r.status
          /\ x.content = r.content /\ x.valid_from = r.valid_from
          /\ x.valid_to = now /\ x.is_current = FALSE
      BY <2>1 DEF Rows
    <3>3. now <= now /\ now # Null /\ r.version \in Nat
      BY <2>1, NullAssumption DEF Rows
    <3> HIDE DEF x, C
    <3>4. RowInHistory(x, heads, now)
      BY <2>1, <3>2, <3>3 DEF RowInHistory
    <3> QED
      BY <2>1, <3>1, <3>2, <3>3, <3>4
  <2>3. CASE ~Hit(r, ks)
    BY <2>1, <2>3 DEF Rows
  <2> QED
    BY <2>2, <2>3
<1> HIDE DEF C
<1>3. \A r \in rows : RowInHistory(C(r, keys), heads, now)
  BY <1>2
<1>4. \A r, s \in rows : SameVersion(C(r, keys), C(s, keys)) => C(r, keys) = C(s, keys)
  BY <1>2 DEF SameVersion, History
<1>5. \A r, s \in rows : Succeeds(C(r, keys), C(s, keys))
  BY <1>2 DEF Succeeds, History
<1>6. \A r \in rows : C(r, keys).version > 1 =>
        \E s \in rows : /\ C(s, keys).deal_key = C(r, keys).deal_key
                        /\ C(s, keys).version = C(r, keys).version - 1
  BY <1>2 DEF History
<1>7. \A k \in Keys : heads[k] # Null => \E r \in rows : RowOf(C(r, keys), k, heads[k])
  BY <1>2 DEF History, RowOf
<1>8. \A r \in rows : C(r, Keys).deal_key \in job.plan.closures => ~C(r, Keys).is_current
  <2> SUFFICES ASSUME NEW r \in rows, r.deal_key \in job.plan.closures
               PROVE  ~C(r, Keys).is_current
    BY <1>2
  <2>1. CASE r.is_current
    BY <1>2, <2>1
  <2>2. CASE ~r.is_current
    BY <2>2 DEF C
  <2> QED
    BY <2>1, <2>2
<1>9. History(Closed(keys), heads, now)
  BY <1>1, <1>3, <1>4, <1>5, <1>6, <1>7 DEF History
<1> QED
  BY <1>1, <1>8, <1>9

\* Appending planned rows, of whatever keys, once the rows they replace are
\* closed leaves a history a history.
LEMMA AppendedHistory ==
    ASSUME now \in Nat, History(rows, heads, now), PlanFits(job.plan, heads, now),
           \A k \in Keys : heads[k] # Null => HeadAt(heads[k], now),
           \A r \in rows : r.deal_key \in job.plan.closures => ~r.is_current, NEW keys
    PROVE  History(Appended(keys), heads, now)
<1> DEFINE written == Planned(keys) \ Refused(keys)
           kept    == {s \in rows : \A r \in written : ~SameVersion(r, s)}
<1>1. Appended(keys) = kept \union written
  BY Zenon DEF Appended
<1>2. ASSUME NEW s \in written
      PROVE  /\ s \in Rows /\ s.deal_key \in Keys /\ s.version \in Nat
             /\ s.version = NextVersion(heads[s.deal_key])
             /\ s.is_current /\ s.valid_from = now /\ s.valid_to = Null
             /\ heads[s.deal_key] # Null => s.deal_key \in job.plan.closures
  <2>1. s \in job.plan.versions
    BY DEF Planned
  <2> QED
    BY <2>1 DEF PlanFits, PlannedRow, Rows
<1>3. \A r, s \in written : r.deal_key = s.deal_key => r = s
  BY DEF Planned, PlanFits
<1>4. \A r \in kept : r \in Rows /\ r.version \in Nat \ {0} /\ RowInHistory(r, heads, now)
  BY DEF History, RowInHistory, Rows
<1>5. \A k \in Keys : heads[k] # Null => heads[k].version \in Nat \ {0}
  BY DEF HeadAt, Heads
<1>6. ASSUME NEW r \in kept, NEW s \in written, r.deal_key = s.deal_key
      PROVE  r.version < s.version /\ r.valid_to # Null /\ r.valid_to <= now
  <2>1. r.version # s.version
    BY <1>6 DEF SameVersion
  <2>2. r.version <= s.version
    BY <1>2, <1>4, <1>6 DEF RowInHistory
  <2>3. r.version < s.version
    BY <1>2, <1>4, <2>1, <2>2
  <2>4. heads[s.deal_key] # Null
    BY <1>2, <1>4, <2>3 DEF NextVersion
  <2>5. ~r.is_current
    BY <1>2, <1>6, <2>4
  <2> QED
    BY <1>4, <2>3, <2>5 DEF RowInHistory
<1> HIDE DEF written
<1>7. \A r \in kept \union written : RowInHistory(r, heads, now)
  BY <1>2, <1>4 DEF RowInHistory
<1>8. \A r, s \in kept \union written : SameVersion(r, s) => r = s
  <2>1. \A r, s \in kept : SameVersion(r, s) => r = s
    BY DEF History
  <2>2. \A r \in kept, s \in written : ~SameVersion(r, s) /\ ~SameVersion(s, r)
    BY DEF SameVersion
  <2>3. \A r, s \in written : SameVersion(r, s) => r = s
    BY <1>3 DEF SameVersion
  <2> QED
    BY <2>1, <2>2, <2>3
<1>9. \A r, s \in kept \union written : Succeeds(r, s)
  <2>1. \A r, s \in kept : Succeeds(r, s)
    BY DEF History
  <2>2. \A r \in kept, s \in written : Succeeds(r, s) /\ Succeeds(s, r)
    BY <1>2, <1>4, <1>6 DEF Succeeds
  <2>3. \A r, s \in written : Succeeds(r, s)
    BY <1>2, <1>3 DEF Succeeds
  <2> QED
    BY <2>1, <2>2, <2>3
\* The row behind a head is kept: what is appended is at a later version.
<1>10. ASSUME NEW k \in Keys, heads[k] # Null
       PROVE  \E r \in kept : RowOf(r, k, heads[k])
  <2>1. PICK r \in rows : RowOf(r, k, heads[k])
    BY <1>10 DEF History
  <2>2. \A s \in written : ~SameVersion(s, r)
    BY <1>2, <1>5, <1>10, <2>1 DEF SameVersion, RowOf, NextVersion
  <2> QED
    BY <2>1, <2>2
<1>11. ASSUME NEW r \in kept \union written, r.version > 1
       PROVE  \E s \in kept \union written : s.deal_key = r.deal_key /\ s.version = r.version - 1
  <2>1. CASE r \in kept
    <3>1. PICK s \in rows : s.deal_key = r.deal_key /\ s.version = r.version - 1
      BY <1>11, <2>1 DEF History
    <3>2. CASE s \in kept
      BY <3>1, <3>2
    <3>3. CASE s \notin kept
      BY <3>1, <3>3 DEF SameVersion
    <3> QED
      BY <3>2, <3>3
  <2>2. CASE r \in written
    <3>1. heads[r.deal_key] # Null /\ r.deal_key \in Keys
      BY <1>2, <1>11, <2>2 DEF NextVersion
    <3>2. PICK s \in kept : RowOf(s, r.deal_key, heads[r.deal_key])
      BY <1>10, <3>1
    <3>3. r.version = heads[r.deal_key].version + 1
      BY <1>2, <2>2, <3>1 DEF NextVersion
    <3> QED
      BY <1>5, <3>1, <3>2, <3>3 DEF RowOf
  <2> QED
    BY <2>1, <2>2
<1> QED
  BY <1>1, <1>7, <1>8, <1>9, <1>10, <1>11 DEF History

\* Upserting planned heads, of whatever keys, once their rows are appended keeps
\* the rows the history of the heads.
LEMMA UpsertedHistory ==
    ASSUME now \in Nat, History(rows, heads, now), PlanFits(job.plan, heads, now),
           \A k \in Keys : heads[k] # Null => HeadAt(heads[k], now),
           job.plan.versions \subseteq rows, NEW keys
    PROVE  History(rows, Upserted(keys), now)
<1> DEFINE new == Upserted(keys)
<1>1. ASSUME NEW k \in Keys
      PROVE  \/ new[k] = heads[k]
             \/ PlannedHead(k, job.plan, heads, now) /\ new[k] = job.plan.heads[k]
  BY DEF Upserted, PlanFits
<1> HIDE DEF new
<1>2. ASSUME NEW k \in Keys
      PROVE  /\ NextVersion(heads[k]) \in Nat /\ NextVersion(new[k]) \in Nat
             /\ NextVersion(heads[k]) <= NextVersion(new[k])
  <2>1. heads[k] # Null => heads[k].version \in Nat
    BY DEF HeadAt, Heads
  <2>2. CASE new[k] = heads[k]
    BY <2>1, <2>2 DEF NextVersion
  <2>3. CASE PlannedHead(k, job.plan, heads, now) /\ new[k] = job.plan.heads[k]
    <3>1. new[k] \in Heads /\ new[k] # Null /\ new[k].version \in Nat
      BY <2>3, NullAssumption DEF PlannedHead, Heads
    <3>2. CASE KeepsVersion(heads[k], job.plan.heads[k])
      BY <2>1, <2>3, <3>1, <3>2 DEF KeepsVersion, NextVersion
    <3>3. ASSUME NEW r \in job.plan.versions, RowOf(r, k, job.plan.heads[k])
          PROVE  new[k].version = NextVersion(heads[k])
      BY <2>3, <3>3 DEF RowOf, PlanFits, PlannedRow
    <3>4. CASE new[k].version = NextVersion(heads[k])
      BY <2>1, <3>1, <3>4 DEF NextVersion
    <3> QED
      BY <2>3, <3>2, <3>3, <3>4 DEF PlannedHead
  <2> QED
    BY <1>1, <2>2, <2>3
<1>3. \A r \in rows : RowInHistory(r, new, now)
  <2> SUFFICES ASSUME NEW r \in rows PROVE RowInHistory(r, new, now)
    OBVIOUS
  <2>1. RowInHistory(r, heads, now) /\ r.deal_key \in Keys /\ r.version \in Nat
    BY DEF History, RowInHistory, Rows
  <2> QED
    BY <1>2, <2>1 DEF RowInHistory
<1>4. ASSUME NEW k \in Keys, new[k] # Null
      PROVE  \E r \in rows : RowOf(r, k, new[k])
  <2>1. CASE new[k] = heads[k]
    BY <1>4, <2>1 DEF History
  <2>2. CASE PlannedHead(k, job.plan, heads, now) /\ new[k] = job.plan.heads[k]
    <3>1. CASE KeepsVersion(heads[k], job.plan.heads[k])
      BY <2>2, <3>1 DEF KeepsVersion, History, RowOf
    <3>2. CASE \E r \in job.plan.versions : RowOf(r, k, job.plan.heads[k])
      BY <2>2, <3>2
    <3> QED
      BY <2>2, <3>1, <3>2 DEF PlannedHead
  <2> QED
    BY <1>1, <2>1, <2>2
<1> QED
  BY <1>3, <1>4 DEF History, new

\* Upserting planned heads, of whatever keys, leaves every head well-formed and
\* the read model behind the heads.
LEMMA UpsertedHeads ==
    ASSUME now \in Nat, PlanFits(job.plan, heads, now),
           \A k \in Keys : heads[k] # Null => HeadAt(heads[k], now),
           \A k \in Keys : deals[k] # Null => Behind(deals[k], heads[k], now), NEW keys
    PROVE  /\ \A k \in Keys : Upserted(keys)[k] # Null => HeadAt(Upserted(keys)[k], now)
           /\ \A k \in Keys : deals[k] # Null => Behind(deals[k], Upserted(keys)[k], now)
<1> DEFINE new == Upserted(keys)
<1> SUFFICES ASSUME NEW k \in Keys
             PROVE  /\ new[k] # Null => HeadAt(new[k], now)
                    /\ deals[k] # Null => Behind(deals[k], new[k], now)
  OBVIOUS
<1>1. \/ new[k] = heads[k]
      \/ PlannedHead(k, job.plan, heads, now) /\ new[k] = job.plan.heads[k]
  BY DEF Upserted, PlanFits
<1> HIDE DEF new
<1>2. CASE new[k] = heads[k]
  BY <1>2
<1>3. CASE PlannedHead(k, job.plan, heads, now) /\ new[k] = job.plan.heads[k]
  <2>1. new[k] \in Heads /\ new[k] # Null /\ SeenNow(heads[k], new[k], now)
    BY <1>3, NullAssumption DEF PlannedHead
  <2>2. new[k].status = "expired" => new[k].valid_to = now
    BY <1>3 DEF PlannedHead
  <2>3. heads[k] # Null => heads[k] \in Heads /\ heads[k].last_seen_at <= now
    BY DEF HeadAt
  <2>4. new[k].last_seen_at <= now
    BY <2>1, <2>3 DEF SeenNow
  <2>5. HeadAt(new[k], now)
    BY <2>1, <2>2, <2>4 DEF HeadAt
  <2>6. ASSUME deals[k] # Null
        PROVE  Behind(deals[k], new[k], now)
    <3>1. Behind(deals[k], heads[k], now)
      BY <2>6
    <3>2. heads[k] \in Heads /\ heads[k] # Null /\ heads[k].last_seen_at \in Nat
          /\ heads[k].last_seen_at <= now
      BY <2>3, <3>1 DEF Behind, Heads
    <3>3. new[k].last_seen_at \in Nat /\ heads[k].last_seen_at <= new[k].last_seen_at
      BY <2>1, <3>2 DEF SeenNow, Heads
    <3>4. deals[k].last_seen_at \in Nat
      BY <3>1 DEF Behind, DealRows
    <3>5. deals[k].last_seen_at <= new[k].last_seen_at
      BY <3>1, <3>2, <3>3, <3>4 DEF Behind
    <3>6. CASE new[k].status = "expired"
      BY <2>1, <3>1, <3>5, <3>6 DEF Behind
    <3>7. CASE new[k].status = "active" /\ heads[k].status = "expired"
      BY <2>1, <3>1, <3>2, <3>5, <3>7 DEF Behind, SeenNow
    <3>8. CASE new[k].status = "active" /\ heads[k].status = "active"
      BY <2>1, <3>1, <3>2, <3>3, <3>5, <3>8 DEF Behind
    <3> QED
      BY <2>1, <3>2, <3>6, <3>7, <3>8 DEF Heads
  <2> QED
    BY <2>5, <2>6
<1> QED
  BY <1>1, <1>2, <1>3

\* Projecting heads that are stored, of whatever keys, leaves the read model
\* behind the heads.
LEMMA ProjectedBehind ==
    ASSUME now \in Nat,
           \A k \in Keys : heads[k] # Null => HeadAt(heads[k], now),
           \A k \in Keys : deals[k] # Null => Behind(deals[k], heads[k], now),
           PlanTyped(job.plan),
           \A k \in DOMAIN job.plan.heads : heads[k] = job.plan.heads[k], NEW keys
    PROVE  \A k \in Keys : Projected(keys)[k] # Null => Behind(Projected(keys)[k], heads[k], now)
<1> SUFFICES ASSUME NEW k \in Keys, Projected(keys)[k] # Null
             PROVE  Behind(Projected(keys)[k], heads[k], now)
  OBVIOUS
<1>1. CASE k \in keys \intersect DOMAIN job.plan.heads
  <2>1. Projected(keys)[k] = Mirror(heads[k], job.deletes)
    BY <1>1 DEF Projected
  <2>2. heads[k] # Null /\ HeadAt(heads[k], now)
    BY <1>1, NullAssumption DEF PlanTyped
  <2>3. Projected(keys)[k] = Projection(heads[k])
    BY <2>1 DEF Mirror
  <2> QED
    BY <2>2, <2>3 DEF Projection, Behind, HeadAt, Heads, DealRows
<1>2. CASE k \notin keys \intersect DOMAIN job.plan.heads
  BY <1>2 DEF Projected
<1> QED
  BY <1>1, <1>2

\* Recording what a run listed and missed keeps the counters natural numbers.
LEMMA RecordTyped ==
    ASSUME CountersOK, job.at \in Nat, NEW keys, Record(keys),
           interrupts' \in 0 .. MaxInterrupts
    PROVE  CountersOK'
BY DEF CountersOK, Record

-----------------------------------------------------------------------------
(* The steps.                                                              *)

Running ==
    /\ job = [pc |-> job.pc, plan |-> job.plan, at |-> job.at, listing |-> job.listing,
                 deletes |-> job.deletes]
    /\ job.pc \in {"close", "append", "heads", "project"}
    /\ job.at = now
    /\ job.listing \in Listings
    /\ job.deletes \in {{}, Deletable}
    /\ PlanTyped(job.plan)

\* A run that is at one of its writes carries a plan; the others are idle.
LEMMA RunsAtAWrite ==
    ASSUME JobOK
    PROVE  /\ job.pc \in {"idle", "close", "append", "heads", "project"}
           /\ job.pc # "idle" => Running
           /\ job # Idle => job.pc # "idle"
BY DEF JobOK, Idle, Running

\* Going on to the next write changes nothing of a run but its place.
LEMMA JobGoesOn ==
    ASSUME Running, NEW pc \in {"append", "heads", "project"},
           job' = [job EXCEPT !.pc = pc]
    PROVE  /\ job' = [pc |-> job'.pc, plan |-> job'.plan, at |-> job'.at,
                      listing |-> job'.listing, deletes |-> job'.deletes]
           /\ job'.pc = pc
           /\ job'.plan = job.plan
           /\ job'.at = job.at
           /\ job'.listing = job.listing
           /\ job'.deletes = job.deletes
<1>1. job' = [[pc |-> job.pc, plan |-> job.plan, at |-> job.at, listing |-> job.listing,
                 deletes |-> job.deletes]
                 EXCEPT !.pc = pc]
  BY DEF Running
<1> QED
  BY <1>1

\* Moving the clock on keeps a history, the heads and the read model as they are.
LEMMA TimePasses ==
    ASSUME NEW t \in Nat, NEW u \in Nat, t <= u, History(rows, heads, t),
           \A k \in Keys : heads[k] # Null => HeadAt(heads[k], t),
           \A k \in Keys : deals[k] # Null => Behind(deals[k], heads[k], t)
    PROVE  /\ History(rows, heads, u)
           /\ \A k \in Keys : heads[k] # Null => HeadAt(heads[k], u)
           /\ \A k \in Keys : deals[k] # Null => Behind(deals[k], heads[k], u)
<1>1. ASSUME NEW r \in rows PROVE RowInHistory(r, heads, u)
  BY DEF History, RowInHistory, Rows
<1>2. History(rows, heads, u)
  BY <1>1 DEF History
<1>3. \A k \in Keys : heads[k] # Null => HeadAt(heads[k], u)
  BY DEF HeadAt, Heads
<1>4. \A k \in Keys : deals[k] # Null => Behind(deals[k], heads[k], u)
  BY DEF Behind
<1> QED
  BY <1>2, <1>3, <1>4

\* Starting a run, of whatever kind, preserves the invariant.
LEMMA StartStep ==
    ASSUME IInv, NEW listing \in Listings, NEW incoming \in Listings,
           NEW run, RunRecord(run), now <= run.at,
           \A k \in Keys : run.react /\ incoming[k] # Null => listing[k] # Null,
           Start(listing, incoming, run)
    PROVE  IInv'
<1> DEFINE p == Plan(heads, incoming, run)
<1>1. /\ now \in Nat /\ now' = run.at /\ now' \in Nat /\ now <= now'
      /\ heads' = heads /\ rows' = rows /\ deals' = deals
      /\ interrupts' = interrupts /\ last_listed' = last_listed /\ misses' = misses
  BY DEF IInv, Start, store, RunRecord
<1>2. job' = [pc |-> "close", plan |-> p, at |-> run.at, listing |-> listing,
                 deletes |-> IF run.sweep THEN Deletable ELSE {}]
  BY DEF Start
<1>3. /\ History(rows, heads, now')
      /\ \A k \in Keys : heads[k] # Null => HeadAt(heads[k], now')
      /\ \A k \in Keys : deals[k] # Null => Behind(deals[k], heads[k], now')
  BY <1>1, TimePasses DEF IInv
<1>4. TypedHeads(heads) /\ incoming \in [Keys -> Contents \union {Null}]
  BY DEF IInv, HeadAt, TypedHeads, Listings
<1>5. /\ PlanFits(p, heads, run.at)
      /\ \A k \in Reactivated(p, heads) : run.react /\ incoming[k] # Null
  BY <1>4, PlanFitsHeads
<1> HIDE DEF p
<1>6. PlanTyped(p) /\ \A k \in Reactivated(p, heads) : k \in Keys
  BY <1>5 DEF PlanFits, PlannedRow, PlannedHead, PlanTyped, Reactivated
<1>7. JobOK'
  BY <1>1, <1>2, <1>5, <1>6 DEF JobOK
<1>8. CountersOK'
  BY <1>1 DEF IInv, CountersOK
<1> QED
  BY <1>1, <1>3, <1>7, <1>8 DEF IInv

\* Closing preserves the invariant.
LEMMA CloseCurrentStep ==
    ASSUME IInv, CloseCurrent
    PROVE  IInv'
<1>1. /\ Running /\ PlanFits(job.plan, heads, now)
      /\ \A k \in Reactivated(job.plan, heads) : job.listing[k] # Null
  BY RunsAtAWrite DEF CloseCurrent, IInv, JobOK, Idle
<1>2. /\ job' = [pc |-> job'.pc, plan |-> job'.plan, at |-> job'.at, listing |-> job'.listing,
                 deletes |-> job'.deletes]
      /\ job'.pc = "append" /\ job'.plan = job.plan /\ job'.at = job.at
      /\ job'.listing = job.listing /\ job'.deletes = job.deletes
  BY <1>1, JobGoesOn DEF CloseCurrent
<1>3. /\ History(Closed(Keys), heads, now)
      /\ \A r \in Closed(Keys) : r.deal_key \in job.plan.closures => ~r.is_current
  BY <1>1, ClosedHistory DEF IInv, Running, PlanTyped
<1>4. /\ now' = now /\ heads' = heads /\ deals' = deals /\ rows' = Closed(Keys)
      /\ interrupts' = interrupts /\ last_listed' = last_listed /\ misses' = misses
  BY DEF CloseCurrent, history
<1>5. JobOK'
  BY <1>1, <1>2, <1>3, <1>4 DEF JobOK, Running
<1>6. CountersOK'
  BY <1>4 DEF IInv, CountersOK
<1> QED
  BY <1>3, <1>4, <1>5, <1>6 DEF IInv

\* Appending preserves the invariant, and puts every planned row in the history.
LEMMA AppendManyStep ==
    ASSUME IInv, AppendMany
    PROVE  IInv'
<1>1. /\ Running /\ PlanFits(job.plan, heads, now)
      /\ \A k \in Reactivated(job.plan, heads) : job.listing[k] # Null
      /\ \A r \in rows : r.deal_key \in job.plan.closures => ~r.is_current
  BY RunsAtAWrite DEF AppendMany, IInv, JobOK, Idle
<1>2. /\ job' = [pc |-> job'.pc, plan |-> job'.plan, at |-> job'.at, listing |-> job'.listing,
                 deletes |-> job'.deletes]
      /\ job'.pc = "heads" /\ job'.plan = job.plan /\ job'.at = job.at
      /\ job'.listing = job.listing /\ job'.deletes = job.deletes
  BY <1>1, JobGoesOn DEF AppendMany
<1>3. History(Appended(Keys), heads, now)
  BY <1>1, AppendedHistory DEF IInv
<1>4. job.plan.versions \subseteq Appended(Keys)
  BY <1>1 DEF AppendMany, Appended, Planned, Running, PlanTyped, Rows
<1>5. /\ now' = now /\ heads' = heads /\ deals' = deals /\ rows' = Appended(Keys)
      /\ interrupts' = interrupts /\ last_listed' = last_listed /\ misses' = misses
  BY DEF AppendMany, history
<1>6. JobOK'
  BY <1>1, <1>2, <1>4, <1>5 DEF JobOK, Running
<1>7. CountersOK'
  BY <1>5 DEF IInv, CountersOK
<1> QED
  BY <1>3, <1>5, <1>6, <1>7 DEF IInv

\* A refused append preserves the invariant.
LEMMA AppendRefusedStep ==
    ASSUME IInv, AppendRefused
    PROVE  IInv'
<1>1. /\ PlanFits(job.plan, heads, now)
      /\ \A r \in rows : r.deal_key \in job.plan.closures => ~r.is_current
  BY RunsAtAWrite DEF AppendRefused, IInv, JobOK, Idle
<1>2. History(Appended(Keys), heads, now)
  BY <1>1, AppendedHistory DEF IInv
<1>3. /\ now' = now /\ heads' = heads /\ deals' = deals /\ rows' = Appended(Keys)
      /\ interrupts' = interrupts /\ last_listed' = last_listed /\ misses' = misses
      /\ job' = Idle
  BY DEF AppendRefused
<1> QED
  BY <1>2, <1>3 DEF IInv, JobOK, CountersOK, Idle

\* Upserting the heads preserves the invariant.
LEMMA UpsertHeadsStep ==
    ASSUME IInv, UpsertHeads
    PROVE  IInv'
<1>1. /\ Running /\ PlanFits(job.plan, heads, now)
      /\ job.plan.versions \subseteq rows
  BY RunsAtAWrite DEF UpsertHeads, IInv, JobOK, Idle
<1>2. /\ job' = [pc |-> job'.pc, plan |-> job'.plan, at |-> job'.at, listing |-> job'.listing,
                 deletes |-> job'.deletes]
      /\ job'.pc = "project" /\ job'.plan = job.plan /\ job'.at = job.at
      /\ job'.listing = job.listing /\ job'.deletes = job.deletes
  BY <1>1, JobGoesOn DEF UpsertHeads
<1>3. History(rows, Upserted(Keys), now)
  BY <1>1, UpsertedHistory DEF IInv
<1>4. /\ \A k \in Keys : Upserted(Keys)[k] # Null => HeadAt(Upserted(Keys)[k], now)
      /\ \A k \in Keys : deals[k] # Null => Behind(deals[k], Upserted(Keys)[k], now)
  BY <1>1, UpsertedHeads DEF IInv
<1>5. \A k \in DOMAIN job.plan.heads : Upserted(Keys)[k] = job.plan.heads[k]
  BY <1>1 DEF Upserted, Running, PlanTyped
<1>6. /\ now' = now /\ heads' = Upserted(Keys) /\ deals' = deals /\ rows' = rows
      /\ interrupts' = interrupts
  BY DEF UpsertHeads
<1>7. JobOK'
  BY <1>1, <1>2, <1>5, <1>6 DEF JobOK, Running
<1>8. CountersOK'
  <2>1. Record(Keys) /\ job.at \in Nat /\ CountersOK /\ interrupts' \in 0 .. MaxInterrupts
    BY <1>1, <1>6 DEF UpsertHeads, Running, IInv, CountersOK
  <2> QED
    BY <2>1, RecordTyped
<1> QED
  BY <1>3, <1>4, <1>6, <1>7, <1>8 DEF IInv

\* Projecting preserves the invariant.
LEMMA ProjectStep ==
    ASSUME IInv, Project
    PROVE  IInv'
<1>1. Running /\ \A k \in DOMAIN job.plan.heads : heads[k] = job.plan.heads[k]
  BY RunsAtAWrite DEF Project, IInv, JobOK, Idle
<1>2. \A k \in Keys : Projected(Keys)[k] # Null => Behind(Projected(Keys)[k], heads[k], now)
  BY <1>1, ProjectedBehind DEF IInv, Running
<1>3. /\ now' = now /\ heads' = heads /\ deals' = Projected(Keys) /\ rows' = rows
      /\ interrupts' = interrupts /\ last_listed' = last_listed /\ misses' = misses
      /\ job' = Idle
  BY DEF Project
<1> QED
  BY <1>2, <1>3 DEF IInv, JobOK, CountersOK, Idle

\* An interruption, with any part of the current write applied, preserves the
\* invariant.
LEMMA InterruptStep ==
    ASSUME IInv, Interrupt
    PROVE  IInv'
<1>1. PICK keys \in PartialWrites :
        /\ rows' = CASE job.pc = "close"  -> Closed(keys)
                     [] job.pc = "append" -> Appended(keys)
                     [] OTHER             -> rows
        /\ heads' = IF job.pc = "heads" THEN Upserted(keys) ELSE heads
        /\ deals' = IF job.pc = "project" THEN Projected(keys) ELSE deals
        /\ Record(IF job.pc = "heads" THEN keys ELSE {})
  BY Zenon DEF Interrupt
<1>2. now' = now /\ job' = Idle /\ interrupts' = interrupts + 1 /\ interrupts < MaxInterrupts
  BY DEF Interrupt
<1>3. Running
  BY RunsAtAWrite DEF Interrupt, IInv
<1>4. CountersOK'
  <2>1. interrupts' \in 0 .. MaxInterrupts
    BY <1>2, IngestionAssumption DEF IInv, CountersOK
  <2>2. CountersOK /\ job.at \in Nat
    BY <1>3 DEF IInv, Running
  <2> QED
    BY <1>1, <2>1, <2>2, RecordTyped
<1>5. JobOK'
  BY <1>2 DEF JobOK, Idle
<1>6. CASE job.pc = "close"
  <2>1. rows' = Closed(keys) /\ heads' = heads /\ deals' = deals
    BY <1>1, <1>6, Zenon
  <2>2. History(Closed(keys), heads, now)
    BY <1>3, ClosedHistory DEF IInv, Running, PlanTyped
  <2> QED
    BY <1>2, <1>4, <1>5, <2>1, <2>2 DEF IInv
<1>7. CASE job.pc = "append"
  <2>1. rows' = Appended(keys) /\ heads' = heads /\ deals' = deals
    BY <1>1, <1>7, Zenon
  <2>2. /\ PlanFits(job.plan, heads, now)
        /\ \A r \in rows : r.deal_key \in job.plan.closures => ~r.is_current
    BY <1>7, RunsAtAWrite DEF IInv, JobOK, Idle
  <2>3. History(Appended(keys), heads, now)
    BY <2>2, AppendedHistory DEF IInv
  <2> QED
    BY <1>2, <1>4, <1>5, <2>1, <2>3 DEF IInv
<1>8. CASE job.pc = "heads"
  <2>1. rows' = rows /\ heads' = Upserted(keys) /\ deals' = deals
    BY <1>1, <1>8, Zenon
  <2>2. PlanFits(job.plan, heads, now) /\ job.plan.versions \subseteq rows
    BY <1>8, RunsAtAWrite DEF IInv, JobOK, Idle
  <2>3. History(rows, Upserted(keys), now)
    BY <2>2, UpsertedHistory DEF IInv
  <2>4. /\ \A k \in Keys : Upserted(keys)[k] # Null => HeadAt(Upserted(keys)[k], now)
        /\ \A k \in Keys : deals[k] # Null => Behind(deals[k], Upserted(keys)[k], now)
    BY <2>2, UpsertedHeads DEF IInv
  <2> QED
    BY <1>2, <1>4, <1>5, <2>1, <2>3, <2>4 DEF IInv
<1>9. CASE job.pc = "project"
  <2>1. rows' = rows /\ heads' = heads /\ deals' = Projected(keys)
    BY <1>1, <1>9, Zenon
  <2>2. \A k \in DOMAIN job.plan.heads : heads[k] = job.plan.heads[k]
    BY <1>9, RunsAtAWrite DEF IInv, JobOK, Idle
  <2>3. \A k \in Keys : Projected(keys)[k] # Null => Behind(Projected(keys)[k], heads[k], now)
    BY <1>3, <2>2, ProjectedBehind DEF IInv, Running
  <2> QED
    BY <1>2, <1>4, <1>5, <2>1, <2>3 DEF IInv
<1> QED
  BY <1>3, <1>6, <1>7, <1>8, <1>9 DEF Running

\* The initial states satisfy the invariant.
LEMMA InitInvariant ==
    ASSUME Init
    PROVE  IInv
BY IngestionAssumption DEF Init, IInv, Nothing, History, JobOK, CountersOK

\* Starting any of the three kinds of run preserves the invariant.
LEMMA RunStep ==
    ASSUME IInv, ScrapeRun \/ FailedScrapeRun \/ RebuildRun
    PROVE  IInv'
<1>0. Nothing \in Listings /\ \A k \in Keys : Nothing[k] = Null
  BY DEF Nothing, Listings
<1>t. \A at \in Later : at \in Nat /\ now <= at
  BY DEF IInv, Later
<1>1. CASE ScrapeRun
  <2>1. PICK listing \in Listings, at \in Later :
          \E dropped \in SUBSET {k \in Keys : KnownToHead(listing, k)} :
              Scrape(listing, dropped, at)
    BY <1>1 DEF ScrapeRun
  <2>2. PICK dropped \in SUBSET {k \in Keys : KnownToHead(listing, k)} :
          Scrape(listing, dropped, at)
    BY <2>1
  <2> DEFINE incoming == [k \in Keys |-> IF k \in dropped THEN Null ELSE listing[k]]
             run == [at |-> at, ok |-> TRUE, seen |-> SeenIn(listing), fps |-> TRUE,
                     sweep |-> TRUE, react |-> TRUE]
  <2>3. incoming \in Listings /\ \A k \in Keys : incoming[k] # Null => listing[k] # Null
    BY DEF Listings
  <2>4. RunRecord(run) /\ now <= run.at
    BY <1>t DEF RunRecord
  <2>5. Start(listing, incoming, run)
    BY <2>2 DEF Scrape
  <2> HIDE DEF incoming, run
  <2> QED
    BY <2>3, <2>4, <2>5, StartStep
<1>2. CASE FailedScrapeRun
  <2>1. PICK at \in Later : FailedScrape(at)
    BY <1>2 DEF FailedScrapeRun
  <2> DEFINE run == [at |-> at, ok |-> FALSE, seen |-> {}, fps |-> TRUE,
                     sweep |-> TRUE, react |-> TRUE]
  <2>2. RunRecord(run) /\ now <= run.at
    BY <1>t DEF RunRecord
  <2>3. Start(Nothing, Nothing, run)
    BY <2>1 DEF FailedScrape
  <2> HIDE DEF run
  <2> QED
    BY <1>0, <2>2, <2>3, StartStep
<1>3. CASE RebuildRun
  <2>1. PICK incoming \in Listings, at \in Later : Rebuild(incoming, at)
    BY <1>3 DEF RebuildRun
  <2> DEFINE run == [at |-> at, ok |-> TRUE, seen |-> {}, fps |-> FALSE,
                     sweep |-> FALSE, react |-> FALSE]
  <2>2. RunRecord(run) /\ now <= run.at /\ run.react = FALSE
    BY <1>t DEF RunRecord
  <2>3. Start(Nothing, incoming, run)
    BY <2>1 DEF Rebuild
  <2> HIDE DEF run
  <2> QED
    BY <1>0, <2>2, <2>3, StartStep
<1> QED
  BY <1>1, <1>2, <1>3

\* The invariant holds in every reachable state.
THEOREM Invariant == Spec => []IInv
<1>1. Init => IInv
  BY InitInvariant
<1>2. IInv /\ [Next]_vars => IInv'
  <2> SUFFICES ASSUME IInv, [Next]_vars PROVE IInv'
    OBVIOUS
  <2>1. CASE UNCHANGED vars
    <3>1. /\ now' = now /\ heads' = heads /\ rows' = rows /\ deals' = deals /\ job' = job
          /\ interrupts' = interrupts /\ last_listed' = last_listed /\ misses' = misses
      BY <2>1 DEF vars
    <3>2. JobOK' /\ CountersOK'
      BY <3>1 DEF IInv, JobOK, CountersOK
    <3> QED
      BY <3>1, <3>2 DEF IInv
  <2>2. CASE ScrapeRun \/ FailedScrapeRun \/ RebuildRun
    BY <2>2, RunStep
  <2>3. CASE CloseCurrent
    BY <2>3, CloseCurrentStep
  <2>4. CASE AppendMany
    BY <2>4, AppendManyStep
  <2>5. CASE AppendRefused
    BY <2>5, AppendRefusedStep
  <2>6. CASE UpsertHeads
    BY <2>6, UpsertHeadsStep
  <2>7. CASE Project
    BY <2>7, ProjectStep
  <2>8. CASE Interrupt
    BY <2>8, InterruptStep
  <2> QED
    BY <2>1, <2>2, <2>3, <2>4, <2>5, <2>6, <2>7, <2>8 DEF Next
<1> QED
  BY <1>1, <1>2, PTL DEF Spec

-----------------------------------------------------------------------------
(* What follows: the properties the runs check, for every value of the     *)
(* constants.                                                              *)

\* Every collection and every run in progress keeps its document shapes.
THEOREM TypeCorrect == Spec => []TypeOK
<1>1. ASSUME IInv PROVE TypeOK
  <2>1. \A k \in Keys : heads[k] # Null => heads[k] \in Heads
    BY <1>1 DEF IInv, HeadAt
  <2>2. \A r \in rows : r \in Rows
    BY <1>1 DEF IInv, History, RowInHistory
  <2>3. \A k \in Keys : deals[k] # Null => deals[k] \in DealRows
    BY <1>1 DEF IInv, Behind
  <2>4. /\ job.pc \in {"idle", "close", "append", "heads", "project"}
        /\ job # Idle => Running
    BY <1>1, RunsAtAWrite DEF IInv
  <2> QED
    BY <1>1, <2>1, <2>2, <2>3, <2>4 DEF IInv, CountersOK, TypeOK, Running, PlanTyped
<1> QED
  BY <1>1, Invariant, PTL

\* Whatever cuts runs short, the row a head points at is in the history.
THEOREM HeadsAreDurable == Spec => []HeadRowIsDurable
<1>1. IInv => HeadRowIsDurable
  BY DEF IInv, History, RowOf, HeadRowIsDurable
<1> QED
  BY <1>1, Invariant, PTL

\* Whatever cuts runs short, the history of a deal has one row per version and
\* skips none.
THEOREM NoGaps == Spec => []HistoryHasNoGaps
<1>1. IInv => HistoryHasNoGaps
  BY DEF IInv, History, HistoryHasNoGaps
<1> QED
  BY <1>1, Invariant, PTL

\* Two rows of a deal in a history: the windows of the two versions are apart.
LEMMA WindowsApart ==
    ASSUME IInv, NEW r \in rows, NEW s \in rows, r.deal_key = s.deal_key, r # s
    PROVE  \/ r.valid_to # Null /\ r.valid_to <= s.valid_from
           \/ s.valid_to # Null /\ s.valid_to <= r.valid_from
<1>1. r.version \in Nat /\ s.version \in Nat /\ Succeeds(r, s) /\ Succeeds(s, r)
  BY DEF IInv, History, RowInHistory, Rows
<1>2. r.version # s.version
  BY DEF IInv, History, SameVersion
<1>3. r.version < s.version \/ s.version < r.version
  BY <1>1, <1>2
<1> QED
  BY <1>1, <1>3 DEF Succeeds

\* At most one row of a deal is current, with the database's partial index and
\* without it.
THEOREM CurrentRowIsUnique == Spec => []OneCurrentRow
<1>1. ASSUME IInv PROVE OneCurrentRow
  <2> SUFFICES ASSUME NEW r \in rows, NEW s \in rows, r.deal_key = s.deal_key,
                      r.is_current, s.is_current, r # s
               PROVE  FALSE
    BY DEF OneCurrentRow
  <2>1. r.valid_to = Null /\ s.valid_to = Null
    BY <1>1 DEF IInv, History, RowInHistory
  <2> QED
    BY <1>1, <2>1, WindowsApart
<1> QED
  BY <1>1, Invariant, PTL

\* as_of has never two versions of a deal to choose from.
THEOREM AsOfHasOneAnswer == Spec => []AsOfIsUnambiguous
<1>1. ASSUME IInv PROVE AsOfIsUnambiguous
  <2> SUFFICES ASSUME NEW k \in Keys, NEW t \in 0 .. MaxTime, NEW r \in rows, NEW s \in rows,
                      r.deal_key = k, s.deal_key = k, InEffect(r, t), InEffect(s, t), r # s
               PROVE  FALSE
    BY DEF AsOfIsUnambiguous
  <2>1. /\ r.valid_from \in Nat /\ s.valid_from \in Nat
        /\ r.valid_to \in Nat \union {Null} /\ s.valid_to \in Nat \union {Null}
    BY <1>1 DEF IInv, History, RowInHistory, Rows
  <2>2. \/ r.valid_to # Null /\ r.valid_to <= s.valid_from
        \/ s.valid_to # Null /\ s.valid_to <= r.valid_from
    BY <1>1, WindowsApart
  <2> QED
    BY <2>1, <2>2 DEF InEffect
<1> QED
  BY <1>1, Invariant, PTL

\* The read model may lag the heads, but never leads them.
THEOREM ReadModelLags == Spec => []ReadModelNeverLeads
<1>1. IInv => ReadModelNeverLeads
  BY DEF IInv, Behind, ReadModelNeverLeads
<1> QED
  BY <1>1, Invariant, PTL

\* On the database, a stored row never changes, except that it is closed once.
THEOREM RowsAreKept == Storage = "mongo" => (Spec => HistoryIsAppendOnly)
<1> DEFINE Kept == \A r \in rows : \E s \in rows' : s = r \/ (r.is_current /\ ClosedFrom(r, s))
<1> SUFFICES ASSUME Storage = "mongo" PROVE Spec => HistoryIsAppendOnly
  OBVIOUS
<1>1. ASSUME IInv, Next PROVE Kept
  <2>1. ASSUME NEW keys, rows' = Closed(keys) PROVE Kept
    <3> SUFFICES ASSUME NEW r \in rows
                 PROVE  \E s \in rows' : s = r \/ (r.is_current /\ ClosedFrom(r, s))
      OBVIOUS
    <3>1. r \in Rows
      BY <1>1 DEF IInv, History, RowInHistory
    <3>2. CASE r.is_current /\ r.deal_key \in job.plan.closures \intersect keys
      <4> DEFINE s == [r EXCEPT !.is_current = FALSE, !.valid_to = job.at]
      <4>1. s \in rows'
        BY <2>1, <3>2 DEF Closed
      <4>2. s.valid_to = job.at
        BY <3>1 DEF Rows
      <4>3. ClosedFrom(r, s)
        BY <4>2 DEF ClosedFrom
      <4> QED
        BY <3>2, <4>1, <4>3
    <3>3. CASE ~(r.is_current /\ r.deal_key \in job.plan.closures \intersect keys)
      BY <2>1, <3>3 DEF Closed
    <3> QED
      BY <3>2, <3>3
  <2>2. ASSUME NEW keys, rows' = Appended(keys) PROVE Kept
    <3>1. \A r \in rows : \A s \in Planned(keys) \ Refused(keys) : ~SameVersion(s, r)
      BY DEF Refused, SameVersion
    <3>2. rows \subseteq Appended(keys)
      BY <3>1 DEF Appended, SameVersion
    <3> QED
      BY <2>2, <3>2
  <2>3. CASE rows' = rows
    BY <2>3
  <2>4. CASE ScrapeRun \/ FailedScrapeRun \/ RebuildRun
    BY <2>3, <2>4 DEF ScrapeRun, Scrape, FailedScrapeRun, FailedScrape, RebuildRun, Rebuild,
                      Start, store
  <2>5. CASE CloseCurrent
    BY <2>1, <2>5 DEF CloseCurrent
  <2>6. CASE AppendMany \/ AppendRefused
    BY <2>2, <2>6 DEF AppendMany, AppendRefused
  <2>7. CASE UpsertHeads \/ Project
    BY <2>3, <2>7 DEF UpsertHeads, Project
  <2>8. CASE Interrupt
    <3>1. \E keys : rows' \in {Closed(keys), Appended(keys), rows}
      BY <2>8, Zenon DEF Interrupt
    <3> HIDE DEF Kept
    <3> QED
      BY <2>1, <2>2, <2>3, <3>1
  <2> QED
    BY <1>1, <2>4, <2>5, <2>6, <2>7, <2>8 DEF Next
<1>2. IInv /\ [Next]_vars => [Kept]_vars
  BY <1>1
<1> QED
  BY <1>2, Invariant, PTL DEF Spec, HistoryIsAppendOnly

\* No run brings an expired deal back but a scrape that listed it.
THEOREM RebuildsReactivateNothing == Spec => OnlyAScrapeReactivates
<1> DEFINE Back == \A k \in Keys : /\ heads[k] # Null
                                   /\ heads[k].status = "expired"
                                   /\ heads'[k].status = "active"
                                   => job.listing[k] # Null
<1>1. ASSUME IInv, Next PROVE Back
  <2>1. CASE heads' = heads
    BY <2>1
  <2>2. ASSUME NEW keys, job.pc = "heads", heads' = Upserted(keys)
        PROVE  Back
    <3>1. \A k \in Reactivated(job.plan, heads) : job.listing[k] # Null
      BY <1>1, <2>2, RunsAtAWrite DEF IInv, JobOK, Idle
    <3> QED
      BY <2>2, <3>1 DEF Upserted, Reactivated
  <2>3. CASE ScrapeRun \/ FailedScrapeRun \/ RebuildRun
    BY <2>1, <2>3 DEF ScrapeRun, Scrape, FailedScrapeRun, FailedScrape, RebuildRun, Rebuild,
                      Start, store
  <2>4. CASE CloseCurrent \/ AppendMany \/ AppendRefused \/ Project
    BY <2>1, <2>4 DEF CloseCurrent, AppendMany, AppendRefused, Project
  <2>5. CASE UpsertHeads
    BY <2>2, <2>5 DEF UpsertHeads
  <2>6. CASE Interrupt
    <3>1. \E keys : heads' = IF job.pc = "heads" THEN Upserted(keys) ELSE heads
      BY <2>6 DEF Interrupt
    <3> HIDE DEF Back
    <3> QED
      BY <2>1, <2>2, <3>1
  <2> QED
    BY <1>1, <2>3, <2>4, <2>5, <2>6 DEF Next
<1>2. IInv /\ [Next]_vars => [Back]_vars
  BY <1>1
<1> QED
  BY <1>2, Invariant, PTL DEF Spec, OnlyAScrapeReactivates

-----------------------------------------------------------------------------
(* The log of versions: closing rows changes nothing of it, appending      *)
(* drafts, upserting the heads publishes, whatever part of them an         *)
(* interruption lets through, and every other step is a stutter.           *)

Entries(rs) == {LogEntry(r.deal_key, r) : r \in rs}

Published(hs) == [k \in Keys |-> IF hs[k] = Null THEN Unpublished ELSE LogEntry(k, hs[k])]

\* Two rows are of one version as their entries are.
LEMMA EntryOfVersion ==
    ASSUME NEW r, NEW s
    PROVE  Log!SameEntry(LogEntry(r.deal_key, r), LogEntry(s.deal_key, s)) <=> SameVersion(r, s)
BY DEF Log!SameEntry, LogEntry, SameVersion

\* Closing rows, of whatever keys, leaves every entry of the log as it is.
LEMMA ClosingKeepsEntries ==
    ASSUME \A r \in rows : r \in Rows, NEW keys
    PROVE  Entries(Closed(keys)) = Entries(rows)
<1> DEFINE C(r) == IF r.is_current /\ r.deal_key \in job.plan.closures \intersect keys
                   THEN [r EXCEPT !.is_current = FALSE, !.valid_to = job.at] ELSE r
<1>1. ASSUME NEW r \in rows PROVE LogEntry(C(r).deal_key, C(r)) = LogEntry(r.deal_key, r)
  BY DEF LogEntry, Rows
<1>2. Closed(keys) = {C(r) : r \in rows}
  BY DEF Closed
<1> HIDE DEF C
<1> QED
  BY <1>1, <1>2 DEF Entries

\* Appending rows of a plan that fits the heads, of whatever keys, is a draft.
LEMMA AppendingDrafts ==
    ASSUME PlanFits(job.plan, heads, now), \A k \in Keys : heads[k] # Null => heads[k] \in Heads,
           NEW keys, rows' = Appended(keys), heads' = heads
    PROVE  Log!Next
<1> DEFINE written == Planned(keys) \ Refused(keys)
           new     == Entries(written)
<1>1. written \subseteq job.plan.versions /\ \A r \in written : r \in Rows
  BY DEF Planned, PlanFits, PlannedRow
<1>2. rows' = {s \in rows : \A r \in written : ~SameVersion(r, s)} \union written
  BY DEF Appended
<1> HIDE DEF written
<1>3. \A e \in new : e.version = Published(heads)[e.deal].version + 1
  <2> SUFFICES ASSUME NEW r \in written
               PROVE  LogEntry(r.deal_key, r).version
                        = Published(heads)[LogEntry(r.deal_key, r).deal].version + 1
    BY DEF Entries
  <2>1. r.deal_key \in Keys /\ r.version = NextVersion(heads[r.deal_key])
    BY <1>1 DEF PlanFits, PlannedRow, Rows
  <2> QED
    BY <2>1 DEF LogEntry, Published, Unpublished, NextVersion, Heads
<1>4. \A e, f \in new : e.deal = f.deal => e = f
  BY <1>1 DEF Entries, LogEntry, PlanFits
<1>5. Entries(rows') = {e \in Entries(rows) : \A n \in new : ~Log!SameEntry(e, n)} \union new
  BY <1>2, EntryOfVersion DEF Entries, SameVersion
<1>6. new \in SUBSET Entries(rows')
  BY <1>2 DEF Entries
<1>7. Published(heads') = Published(heads)
  OBVIOUS
<1> HIDE DEF new
<1> QED
  BY <1>3, <1>4, <1>5, <1>6, <1>7
     DEF Log!Next, Log!Draft, Log!IsNext, Entries, Published

\* Upserting planned heads, of whatever keys, publishes the versions the plan opens.
LEMMA UpsertingPublishes ==
    ASSUME IInv, PlanFits(job.plan, heads, now), job.plan.versions \subseteq rows,
           NEW keys, heads' = Upserted(keys), rows' = rows
    PROVE  Log!Next
<1> DEFINE ks  == {k \in keys \intersect DOMAIN job.plan.heads :
                     ~KeepsVersion(heads[k], job.plan.heads[k])}
           new == {LogEntry(k, job.plan.heads[k]) : k \in ks}
<1>1. ASSUME NEW k \in ks
      PROVE  /\ k \in Keys /\ Published(heads')[k] = LogEntry(k, job.plan.heads[k])
             /\ LogEntry(k, job.plan.heads[k]) \in Entries(rows)
             /\ LogEntry(k, job.plan.heads[k]).version = Published(heads)[k].version + 1
             /\ LogEntry(k, job.plan.heads[k]).deal = k
  <2>1. k \in Keys /\ k \in DOMAIN job.plan.heads /\ PlannedHead(k, job.plan, heads, now)
    BY DEF PlanFits
  <2>2. heads'[k] = job.plan.heads[k] /\ heads'[k] # Null
    BY <2>1, NullAssumption DEF Upserted, PlannedHead
  <2>3. PICK r \in job.plan.versions : RowOf(r, k, job.plan.heads[k])
    BY <2>1 DEF PlannedHead
  <2>4. LogEntry(k, job.plan.heads[k]) = LogEntry(r.deal_key, r)
    BY <2>3 DEF RowOf, LogEntry
  <2>5. r.version = NextVersion(heads[k])
    BY <2>3 DEF RowOf, PlanFits, PlannedRow
  <2>6. r.version = Published(heads)[k].version + 1
    BY <2>1, <2>5 DEF NextVersion, Published, Unpublished, LogEntry, IInv, HeadAt, Heads
  <2> QED
    BY <2>1, <2>2, <2>3, <2>4, <2>6 DEF Published, Entries, LogEntry, RowOf
<1>2. ASSUME NEW k \in Keys, k \notin ks
      PROVE  Published(heads')[k] = Published(heads)[k]
  <2>1. CASE k \in keys \intersect DOMAIN job.plan.heads
    <3>1. KeepsVersion(heads[k], job.plan.heads[k]) /\ PlannedHead(k, job.plan, heads, now)
      BY <1>2, <2>1 DEF PlanFits
    <3>2. heads'[k] = job.plan.heads[k] /\ heads'[k] # Null
      BY <2>1, <3>1, NullAssumption DEF Upserted, PlannedHead
    <3> QED
      BY <3>1, <3>2 DEF KeepsVersion, Published, LogEntry
  <2>2. CASE k \notin keys \intersect DOMAIN job.plan.heads
    BY <2>2 DEF Upserted, Published
  <2> QED
    BY <2>1, <2>2
<1>3. Published(heads') \in [Keys -> Entries(rows) \union {Unpublished}]
  <2>1. History(rows, heads', now)
    BY UpsertedHistory DEF IInv
  <2>2. ASSUME NEW k \in Keys, heads'[k] # Null PROVE LogEntry(k, heads'[k]) \in Entries(rows)
    BY <2>1, <2>2 DEF History, RowOf, Entries, LogEntry
  <2> QED
    BY <2>2 DEF Published
<1>4. new \in SUBSET Entries(rows)
  BY <1>1
<1>5. \A e \in new : /\ e.version = Published(heads)[e.deal].version + 1
                     /\ Published(heads')[e.deal] = e
  BY <1>1
<1>6. \A k \in Keys : \/ Published(heads')[k] = Published(heads)[k]
                      \/ \E e \in new : e.deal = k
  BY <1>1, <1>2
<1> HIDE DEF new, ks
<1> QED
  BY <1>3, <1>4, <1>5, <1>6
     DEF Log!Next, Log!Publish, Log!IsNext, Log!Nothing, Entries, Published, Unpublished

\* Whatever cuts the runs short, the stored collections are a log of drafted and
\* published versions: DealIngestion implements DealLog.
THEOREM IngestionKeepsALog == Spec => ImplementsLog
<1>1. Init => Log!Init
  BY DEF Init, Nothing, Log!Init, Log!Nothing, Unpublished
<1>2. ASSUME IInv, [Next]_vars
      PROVE  [Log!Next]_<<Entries(rows), Published(heads)>>
  <2> DEFINE same == Entries(rows') = Entries(rows) /\ Published(heads') = Published(heads)
  <2>0. \A r \in rows : r \in Rows
    BY <1>2 DEF IInv, History, RowInHistory
  <2>1. ASSUME rows' = rows, heads' = heads PROVE same
    BY <2>1
  <2>2. ASSUME NEW keys, rows' = Closed(keys), heads' = heads PROVE same
    BY <2>0, <2>2, ClosingKeepsEntries
  <2>3. ASSUME NEW keys, job.pc = "append", rows' = Appended(keys), heads' = heads
        PROVE  Log!Next
    <3>1. PlanFits(job.plan, heads, now) /\ \A k \in Keys : heads[k] # Null => heads[k] \in Heads
      BY <1>2, <2>3, RunsAtAWrite DEF IInv, JobOK, Idle, HeadAt
    <3> QED
      BY <2>3, <3>1, AppendingDrafts
  <2>4. ASSUME NEW keys, job.pc = "heads", rows' = rows, heads' = Upserted(keys)
        PROVE  Log!Next
    <3>1. PlanFits(job.plan, heads, now) /\ job.plan.versions \subseteq rows
      BY <1>2, <2>4, RunsAtAWrite DEF IInv, JobOK, Idle
    <3> QED
      BY <1>2, <2>4, <3>1, UpsertingPublishes
  <2>5. CASE UNCHANGED vars
    BY <2>1, <2>5 DEF vars
  <2>6. CASE ScrapeRun \/ FailedScrapeRun \/ RebuildRun
    BY <2>1, <2>6 DEF ScrapeRun, Scrape, FailedScrapeRun, FailedScrape, RebuildRun, Rebuild,
                      Start, store
  <2>7. CASE CloseCurrent
    BY <2>2, <2>7 DEF CloseCurrent
  <2>8. CASE AppendMany \/ AppendRefused
    BY <2>3, <2>8 DEF AppendMany, AppendRefused
  <2>9. CASE UpsertHeads
    BY <2>4, <2>9 DEF UpsertHeads
  <2>10. CASE Project
    BY <2>1, <2>10 DEF Project
  <2>11. CASE Interrupt
    <3>1. PICK keys : /\ rows' = CASE job.pc = "close"  -> Closed(keys)
                                   [] job.pc = "append" -> Appended(keys)
                                   [] OTHER             -> rows
                      /\ heads' = IF job.pc = "heads" THEN Upserted(keys) ELSE heads
      BY <2>11, Zenon DEF Interrupt
    <3>2. CASE job.pc = "close"
      <4>1. rows' = Closed(keys) /\ heads' = heads
        BY <3>1, <3>2, Zenon
      <4> QED
        BY <2>2, <4>1
    <3>3. CASE job.pc = "append"
      <4>1. rows' = Appended(keys) /\ heads' = heads
        BY <3>1, <3>3, Zenon
      <4> QED
        BY <2>3, <3>3, <4>1
    <3>4. CASE job.pc = "heads"
      <4>1. rows' = rows /\ heads' = Upserted(keys)
        BY <3>1, <3>4, Zenon
      <4> QED
        BY <2>4, <3>4, <4>1
    <3>5. CASE job.pc \notin {"close", "append", "heads"}
      <4>1. rows' = rows /\ heads' = heads
        BY <3>1, <3>5, Zenon
      <4> QED
        BY <2>1, <4>1
    <3> QED
      BY <3>2, <3>3, <3>4, <3>5
  <2> QED
    BY <1>2, <2>5, <2>6, <2>7, <2>8, <2>9, <2>10, <2>11 DEF Next
<1>3. IInv /\ [Next]_vars => [Log!Next]_<<Entries(rows), Published(heads)>>
  BY <1>2
<1> QED
  BY <1>1, <1>3, Invariant, PTL DEF Spec, ImplementsLog, Log!Spec, Entries, Published
-----------------------------------------------------------------------------
(* What holds between runs as long as nothing is interrupted.              *)

\* The version of a row is its head's or an older one; the current row's is its head's.
BehindItsHead(r) ==
    /\ heads[r.deal_key] # Null
    /\ r.version <= heads[r.deal_key].version
    /\ r.is_current => r.version = heads[r.deal_key].version

Replaced(r) == \E p \in job.plan.versions : p.deal_key = r.deal_key

RowsHaveHeads ==
    \A r \in rows :
        \/ job.pc = "heads" /\ r \in job.plan.versions
        \/ BehindItsHead(r) /\ (job.pc = "heads" /\ r.is_current => ~Replaced(r))

\* From the first row of a deal on some row is in effect.
Continues(rs, k, t) ==
    (\E r \in rs : r.deal_key = k /\ r.valid_from <= t)
        => \E r \in rs : r.deal_key = k /\ InEffect(r, t)

WindowsMeet ==
    \A k \in Keys, t \in Nat :
        Continues(rows, k, t) \/ (job.pc = "append" /\ k \in job.plan.closures /\ now <= t)

Mirrors(head) ==
    IF head = Null THEN {Null} ELSE {Mirror(head, deletes) : deletes \in {{}, Deletable}}
Mirrored(k) == deals[k] \in Mirrors(heads[k])

ReadModelFollows ==
    \A k \in Keys : Mirrored(k) \/ (job.pc = "project" /\ k \in DOMAIN job.plan.heads)

QuietInv ==
    interrupts = 0 =>
        /\ RowsHaveHeads
        /\ WindowsMeet
        /\ ReadModelFollows
        /\ job.pc \in {"close", "append", "heads"} => PlanComplete(job.plan)

\* Where neither the collections nor the run change their place, nothing is disturbed.
LEMMA QuietStays ==
    ASSUME QuietInv, UNCHANGED <<store, job>>, interrupts' = interrupts,
           now' = now \/ job = Idle
    PROVE  QuietInv'
<1>1. heads' = heads /\ rows' = rows /\ deals' = deals /\ job' = job
  BY DEF store
<1> SUFFICES ASSUME interrupts = 0 PROVE QuietInv'
  BY DEF QuietInv
<1>2. job = Idle => job.pc = "idle"
  BY DEF Idle
<1>3. RowsHaveHeads' /\ ReadModelFollows' /\ WindowsMeet'
  BY <1>1, <1>2 DEF QuietInv, RowsHaveHeads, BehindItsHead, Replaced, WindowsMeet, Continues,
        InEffect, ReadModelFollows, Mirrored, Mirrors, Mirror, Projection
<1> QED
  BY <1>1, <1>3 DEF QuietInv

\* An interruption ends what is said of undisturbed runs.
LEMMA InterruptsDisturb ==
    ASSUME IInv, interrupts' = interrupts + 1
    PROVE  QuietInv'
BY DEF QuietInv, IInv, CountersOK

\* A run that starts finds the collections agreeing.
LEMMA QuietStart ==
    ASSUME IInv, QuietInv, NothingEnds, NEW listing \in Listings, NEW incoming \in Listings,
           NEW run, RunRecord(run), Start(listing, incoming, run)
    PROVE  QuietInv'
<1> DEFINE p == Plan(heads, incoming, run)
<1>1. /\ heads' = heads /\ rows' = rows /\ deals' = deals /\ interrupts' = interrupts
      /\ job = Idle /\ job' = [pc |-> "close", plan |-> p, at |-> run.at, listing |-> listing,
                 deletes |-> IF run.sweep THEN Deletable ELSE {}]
  BY DEF Start, store
<1>2. PlanComplete(p)
  <2>1. TypedHeads(heads) /\ incoming \in [Keys -> Contents \union {Null}]
    BY DEF IInv, HeadAt, TypedHeads, Listings
  <2> QED
    BY <2>1, PlanFitsHeads
<1> HIDE DEF p
<1>3. job.pc = "idle" /\ job'.pc = "close" /\ job'.plan = p
  BY <1>1 DEF Idle
<1> SUFFICES ASSUME interrupts = 0 PROVE QuietInv'
  BY <1>1 DEF QuietInv
<1>4. RowsHaveHeads'
  BY <1>1, <1>3 DEF QuietInv, RowsHaveHeads, BehindItsHead
<1>5. WindowsMeet'
  BY <1>1, <1>3 DEF QuietInv, WindowsMeet, Continues, InEffect
<1>6. ReadModelFollows'
  BY <1>1, <1>3 DEF QuietInv, ReadModelFollows, Mirrored, Mirrors, Mirror, Projection
<1> QED
  BY <1>2, <1>3, <1>4, <1>5, <1>6 DEF QuietInv

\* Closing ends the windows of the rows that are replaced at the time of the run.
LEMMA QuietClose ==
    ASSUME IInv, QuietInv, CloseCurrent
    PROVE  QuietInv'
<1>1. Running
  BY RunsAtAWrite DEF CloseCurrent, IInv
<1>2. /\ job'.pc = "append" /\ job'.plan = job.plan /\ job.pc = "close" /\ job.at = now
      /\ now' = now /\ heads' = heads /\ deals' = deals /\ rows' = Closed(Keys)
      /\ interrupts' = interrupts
  BY <1>1, JobGoesOn DEF CloseCurrent, history, Running
<1> SUFFICES ASSUME interrupts = 0 PROVE QuietInv'
  BY <1>2 DEF QuietInv
<1> DEFINE C(r) == IF r.is_current /\ r.deal_key \in job.plan.closures
                   THEN [r EXCEPT !.is_current = FALSE, !.valid_to = now] ELSE r
<1>3. Closed(Keys) = {C(r) : r \in rows}
  <2>1. job.plan.closures \intersect Keys = job.plan.closures
    BY <1>1 DEF Running, PlanTyped
  <2> QED
    BY <1>2, <2>1 DEF Closed
<1>4. ASSUME NEW r \in rows
      PROVE  /\ C(r).deal_key = r.deal_key /\ C(r).version = r.version
             /\ C(r).valid_from = r.valid_from
             /\ C(r).is_current => r.is_current
             /\ r.deal_key \notin job.plan.closures => C(r) = r
             /\ C(r).valid_to = r.valid_to \/ C(r).valid_to = now
  <2>1. r \in Rows
    BY DEF IInv, History, RowInHistory
  <2> QED
    BY <2>1 DEF Rows
<1> HIDE DEF C
<1>5. RowsHaveHeads'
  <2>1. ASSUME NEW r \in rows
        PROVE  /\ heads[C(r).deal_key] # Null
               /\ C(r).version <= heads[C(r).deal_key].version
               /\ C(r).is_current => C(r).version = heads[C(r).deal_key].version
    <3>1. BehindItsHead(r)
      BY <1>2 DEF QuietInv, RowsHaveHeads
    <3> QED
      BY <1>4, <3>1 DEF BehindItsHead
  <2>2. \A x \in rows' : BehindItsHead(x)'
    BY <1>2, <1>3, <2>1 DEF BehindItsHead
  <2> QED
    BY <1>2, <2>2 DEF RowsHaveHeads
<1>6. WindowsMeet'
  <2> SUFFICES ASSUME NEW k \in Keys, NEW t \in Nat, ~(k \in job.plan.closures /\ now <= t),
                      NEW r \in rows, C(r).deal_key = k, C(r).valid_from <= t
               PROVE  \E s \in rows : C(s).deal_key = k /\ InEffect(C(s), t)
    BY <1>2, <1>3 DEF WindowsMeet, Continues, InEffect
  <2>1. r.deal_key = k /\ r.valid_from <= t
    BY <1>4
  <2>2. PICK s \in rows : s.deal_key = k /\ InEffect(s, t)
    BY <1>2, <2>1 DEF QuietInv, WindowsMeet, Continues
  <2>3. k \notin job.plan.closures \/ t < now
    BY DEF IInv
  <2>4. InEffect(C(s), t)
    BY <1>4, <2>2, <2>3 DEF InEffect
  <2> QED
    BY <1>4, <2>2, <2>4
<1>7. ReadModelFollows'
  BY <1>2 DEF QuietInv, ReadModelFollows, Mirrored, Mirrors, Mirror, Projection
<1> QED
  BY <1>2, <1>5, <1>6, <1>7 DEF QuietInv

\* In an undisturbed run every planned row is new and none is refused.
LEMMA NothingRefused ==
    ASSUME IInv, QuietInv, interrupts = 0, job.pc = "append"
    PROVE  /\ Refused(Keys) = {}
           /\ Appended(Keys) = rows \union job.plan.versions
           /\ \A r \in rows, p \in job.plan.versions :
                 r.deal_key = p.deal_key => ~r.is_current
<1>1. /\ Running /\ PlanFits(job.plan, heads, now)
      /\ \A r \in rows : r.deal_key \in job.plan.closures => ~r.is_current
  BY RunsAtAWrite DEF IInv, JobOK, Idle
<1>2. ASSUME NEW r \in rows, NEW p \in job.plan.versions, r.deal_key = p.deal_key
      PROVE  ~r.is_current /\ r.version # p.version
  <2>1. BehindItsHead(r) /\ r \in Rows
    BY DEF QuietInv, RowsHaveHeads, IInv, History, RowInHistory
  <2>2. heads[p.deal_key] # Null /\ p.version = heads[p.deal_key].version + 1
        /\ p.deal_key \in job.plan.closures
    BY <1>1, <1>2, <2>1 DEF PlanFits, PlannedRow, BehindItsHead, NextVersion
  <2>a. r.version \in Nat /\ r.deal_key \in Keys
    BY <2>1 DEF Rows
  <2>b. heads[p.deal_key] \in Heads
    BY <1>2, <2>2, <2>a DEF IInv, HeadAt
  <2>3. heads[p.deal_key].version \in Nat
    BY <2>b DEF Heads
  <2> QED
    BY <1>1, <1>2, <2>1, <2>2, <2>a, <2>3 DEF BehindItsHead
<1>3. Planned(Keys) = job.plan.versions
  BY <1>1 DEF Planned, Running, PlanTyped, Rows
<1>4. Refused(Keys) = {}
  BY <1>2, <1>3 DEF Refused, SameVersion
<1>5. Appended(Keys) = rows \union job.plan.versions
  BY <1>2, <1>3, <1>4 DEF Appended, SameVersion
<1> QED
  BY <1>2, <1>4, <1>5

\* Appending continues every deal whose row was closed.
LEMMA QuietAppend ==
    ASSUME IInv, QuietInv, AppendMany
    PROVE  QuietInv'
<1>1. Running /\ PlanFits(job.plan, heads, now)
  BY RunsAtAWrite DEF AppendMany, IInv, JobOK, Idle
<1>2. /\ job'.pc = "heads" /\ job'.plan = job.plan /\ job.pc = "append"
      /\ now' = now /\ heads' = heads /\ deals' = deals /\ rows' = Appended(Keys)
      /\ interrupts' = interrupts
  BY <1>1, JobGoesOn DEF AppendMany, history
<1> SUFFICES ASSUME interrupts = 0 PROVE QuietInv'
  BY <1>2 DEF QuietInv
<1>3. /\ rows' = rows \union job.plan.versions
      /\ \A r \in rows, p \in job.plan.versions : r.deal_key = p.deal_key => ~r.is_current
  BY <1>2, NothingRefused
<1>4. RowsHaveHeads'
  <2> SUFFICES ASSUME NEW r \in rows, r \notin job.plan.versions
               PROVE  BehindItsHead(r)' /\ (r.is_current => ~Replaced(r)')
    BY <1>2, <1>3 DEF RowsHaveHeads
  <2> QED
    BY <1>2, <1>3 DEF QuietInv, RowsHaveHeads, BehindItsHead, Replaced
<1>5. WindowsMeet'
  <2> SUFFICES ASSUME NEW k \in Keys, NEW t \in Nat,
                      NEW r \in rows \union job.plan.versions, r.deal_key = k, r.valid_from <= t
               PROVE  \E s \in rows \union job.plan.versions : s.deal_key = k /\ InEffect(s, t)
    BY <1>2, <1>3 DEF WindowsMeet, Continues
  <2>1. \A p \in job.plan.versions : p.valid_from = now /\ p.valid_to = Null
    BY <1>1 DEF PlanFits, PlannedRow
  <2>2. CASE now <= t /\ \E p \in job.plan.versions : p.deal_key = k
    BY <2>1, <2>2 DEF InEffect
  <2>3. CASE now <= t /\ ~\E p \in job.plan.versions : p.deal_key = k
    <3>1. r \in rows /\ k \notin job.plan.closures
      BY <1>2, <2>3 DEF QuietInv, PlanComplete
    <3> QED
      BY <3>1 DEF QuietInv, WindowsMeet, Continues
  <2>4. CASE ~(now <= t)
    <3>1. r \in rows
      BY <2>1, <2>4
    <3> QED
      BY <2>4, <3>1 DEF QuietInv, WindowsMeet, Continues
  <2> QED
    BY <2>2, <2>3, <2>4
<1>6. ReadModelFollows'
  BY <1>2 DEF QuietInv, ReadModelFollows, Mirrored, Mirrors, Mirror, Projection
<1> QED
  BY <1>2, <1>4, <1>5, <1>6 DEF QuietInv

\* Once the heads are written they are at the versions of the current rows.
LEMMA QuietUpsert ==
    ASSUME IInv, QuietInv, UpsertHeads
    PROVE  QuietInv'
<1>1. Running /\ PlanFits(job.plan, heads, now)
  BY RunsAtAWrite DEF UpsertHeads, IInv, JobOK, Idle
<1>2. /\ job'.pc = "project" /\ job'.plan = job.plan /\ job.pc = "heads"
      /\ now' = now /\ heads' = Upserted(Keys) /\ deals' = deals /\ rows' = rows
      /\ interrupts' = interrupts
  BY <1>1, JobGoesOn DEF UpsertHeads
<1> SUFFICES ASSUME interrupts = 0 PROVE QuietInv'
  BY <1>2 DEF QuietInv
<1>3. /\ \A k \in DOMAIN job.plan.heads : k \in Keys /\ heads'[k] = job.plan.heads[k]
      /\ \A k \in Keys : k \notin DOMAIN job.plan.heads => heads'[k] = heads[k]
  BY <1>1, <1>2 DEF Upserted, Running, PlanTyped
<1>4. ASSUME NEW r \in rows
      PROVE  BehindItsHead(r)'
  <2>1. r \in Rows /\ r.deal_key \in Keys /\ r.version \in Nat
    BY DEF IInv, History, RowInHistory, Rows
  <2>2. CASE r \in job.plan.versions
    <3>1. r.deal_key \in DOMAIN job.plan.heads /\ job.plan.heads[r.deal_key].version = r.version
      BY <1>2, <2>2 DEF QuietInv, PlanComplete
    <3>2. heads'[r.deal_key] \in Heads /\ heads'[r.deal_key].version = r.version
      BY <1>1, <1>3, <3>1 DEF PlanFits, PlannedHead
    <3> QED
      BY <2>1, <3>2, NullAssumption DEF BehindItsHead
  <2>3. CASE r \notin job.plan.versions
    <3>1. BehindItsHead(r) /\ (r.is_current => ~Replaced(r))
      BY <1>2, <2>3 DEF QuietInv, RowsHaveHeads
    <3>2. CASE r.deal_key \notin DOMAIN job.plan.heads
      BY <1>3, <2>1, <3>1, <3>2 DEF BehindItsHead
    <3>3. CASE r.deal_key \in DOMAIN job.plan.heads
      <4> DEFINE k == r.deal_key
                 h == job.plan.heads[k]
      <4>1. PlannedHead(k, job.plan, heads, now) /\ h \in Heads /\ heads'[k] = h /\ h # Null
        BY <1>1, <1>3, <3>3, NullAssumption DEF PlanFits, PlannedHead
      <4>2. heads[k] \in Heads /\ heads[k] # Null
        BY <2>1, <3>1 DEF BehindItsHead, IInv, HeadAt
      <4>3. CASE KeepsVersion(heads[k], h)
        BY <3>1, <4>1, <4>3 DEF BehindItsHead, KeepsVersion
      <4>4. CASE \E p \in job.plan.versions : RowOf(p, k, h)
        <5>1. PICK p \in job.plan.versions : RowOf(p, k, h)
          BY <4>4
        <5>2. Replaced(r) /\ p.version = heads[k].version + 1 /\ h.version = p.version
          BY <1>1, <4>2, <5>1 DEF RowOf, Replaced, PlanFits, PlannedRow, NextVersion
        <5> QED
          BY <2>1, <3>1, <4>1, <4>2, <5>2 DEF BehindItsHead, Heads
      <4> QED
        BY <4>1, <4>3, <4>4 DEF PlannedHead
    <3> QED
      BY <3>2, <3>3
  <2> QED
    BY <2>2, <2>3
<1>5. RowsHaveHeads'
  BY <1>2, <1>4 DEF RowsHaveHeads
<1>6. WindowsMeet'
  BY <1>2 DEF QuietInv, WindowsMeet, Continues, InEffect
<1>7. ReadModelFollows'
  <2> SUFFICES ASSUME NEW k \in Keys, k \notin DOMAIN job.plan.heads PROVE Mirrored(k)'
    BY <1>2 DEF ReadModelFollows
  <2> QED
    BY <1>2, <1>3 DEF QuietInv, ReadModelFollows, Mirrored, Mirrors, Mirror, Projection
<1> QED
  BY <1>2, <1>5, <1>6, <1>7 DEF QuietInv

\* Once the read model is written it mirrors the heads.
LEMMA QuietProject ==
    ASSUME IInv, QuietInv, Project
    PROVE  QuietInv'
<1>1. Running /\ \A k \in DOMAIN job.plan.heads : heads[k] = job.plan.heads[k]
  BY RunsAtAWrite DEF Project, IInv, JobOK, Idle
<1>2. /\ job' = Idle /\ job'.pc = "idle" /\ job.pc = "project" /\ now' = now
      /\ heads' = heads /\ deals' = Projected(Keys) /\ rows' = rows /\ interrupts' = interrupts
  BY DEF Project, Idle
<1> SUFFICES ASSUME interrupts = 0 PROVE QuietInv'
  BY <1>2 DEF QuietInv
<1>3. RowsHaveHeads' /\ WindowsMeet'
  BY <1>2 DEF QuietInv, RowsHaveHeads, BehindItsHead, WindowsMeet, Continues, InEffect
<1>4. ReadModelFollows'
  <2> SUFFICES ASSUME NEW k \in Keys
               PROVE  Projected(Keys)[k] \in Mirrors(heads[k])
    BY <1>2 DEF ReadModelFollows, Mirrored, Mirrors, Mirror, Projection
  <2>1. CASE k \in DOMAIN job.plan.heads
    <3>1. heads[k] = job.plan.heads[k] /\ heads[k] # Null
      BY <1>1, <2>1, NullAssumption DEF Running, PlanTyped
    <3>2. Projected(Keys)[k] = Mirror(heads[k], job.deletes) /\ job.deletes \in {{}, Deletable}
      BY <1>1, <2>1, <3>1 DEF Projected, Running
    <3> QED
      BY <3>1, <3>2 DEF Mirrors
  <2>2. CASE k \notin DOMAIN job.plan.heads
    BY <1>2, <2>2 DEF Projected, QuietInv, ReadModelFollows, Mirrored, Mirrors
  <2> QED
    BY <2>1, <2>2
<1> QED
  BY <1>2, <1>3, <1>4 DEF QuietInv

\* The bulk writes of an undisturbed run leave the collections agreeing.
LEMMA QuietWrites ==
    ASSUME IInv, QuietInv,
           CloseCurrent \/ AppendMany \/ AppendRefused \/ UpsertHeads \/ Project \/ Interrupt
    PROVE  QuietInv'
<1>1. ASSUME AppendRefused PROVE QuietInv'
  <2>1. interrupts' = interrupts /\ job.pc = "append" /\ Refused(Keys) # {}
    BY <1>1 DEF AppendRefused
  <2>2. interrupts # 0
    BY <2>1, NothingRefused
  <2> QED
    BY <2>1, <2>2 DEF QuietInv
<1>2. ASSUME Interrupt PROVE QuietInv'
  BY <1>2, InterruptsDisturb DEF Interrupt
<1> QED
  BY <1>1, <1>2, QuietClose, QuietAppend, QuietUpsert, QuietProject

\* Between undisturbed runs the history, the heads and the read model agree.
LEMMA QuietAgrees ==
    ASSUME IInv, QuietInv
    PROVE  HeadIsCurrentRow /\ AsOfIsTotal /\ ReadModelIsCurrent
<1> SUFFICES ASSUME job = Idle, interrupts = 0
             PROVE  HeadIsCurrentRow /\ AsOfIsTotal /\ ReadModelIsCurrent
  BY DEF Undisturbed, HeadIsCurrentRow, AsOfIsTotal, ReadModelIsCurrent
<1>1. job.pc = "idle"
  BY DEF Idle
<1>2. HeadIsCurrentRow
  BY <1>1 DEF HeadIsCurrentRow, QuietInv, RowsHaveHeads, BehindItsHead
<1>3. \A t \in 0 .. now : t \in Nat
  BY DEF IInv
<1>4. AsOfIsTotal
  BY <1>1, <1>3 DEF AsOfIsTotal, QuietInv, WindowsMeet, Continues
<1>5. ReadModelIsCurrent
  BY <1>1 DEF ReadModelIsCurrent, ReadModelMirrorsHeads, QuietInv, ReadModelFollows, Mirrored, Mirrors
<1> QED
  BY <1>2, <1>4, <1>5

\* Where no deal ends by itself, uninterrupted runs of any kind leave the history,
\* the heads and the read model agreeing on every deal, and as_of always answers.
THEOREM CollectionsStayInStep ==
    NothingEnds => (Spec => [](HeadIsCurrentRow /\ AsOfIsTotal /\ ReadModelIsCurrent))
<1> SUFFICES ASSUME NothingEnds
             PROVE  Spec => [](HeadIsCurrentRow /\ AsOfIsTotal /\ ReadModelIsCurrent)
  OBVIOUS
<1>1. Init => QuietInv
  <2> SUFFICES ASSUME Init PROVE QuietInv
    OBVIOUS
  <2>1. rows = {} /\ heads = Nothing /\ deals = Nothing /\ job.pc = "idle"
    BY DEF Init, Idle
  <2> QED
    BY <2>1 DEF QuietInv, RowsHaveHeads, WindowsMeet, Continues, ReadModelFollows, Mirrored, Mirrors,
                Nothing
<1>2. IInv /\ QuietInv /\ [Next]_vars => QuietInv'
  <2> SUFFICES ASSUME IInv, QuietInv, [Next]_vars PROVE QuietInv'
    OBVIOUS
  <2>1. CASE UNCHANGED vars
    BY <2>1, QuietStays DEF vars, store
  <2>2. CASE ScrapeRun \/ FailedScrapeRun \/ RebuildRun
    <3>1. Nothing \in Listings /\ \A at \in Later : at \in Nat
      BY DEF Nothing, Listings, IInv, Later
    <3>2. \E listing, incoming \in Listings : \E run :
              RunRecord(run) /\ Start(listing, incoming, run)
      <4>1. CASE ScrapeRun
        <5>1. PICK listing \in Listings, at \in Later :
                \E dropped \in SUBSET {k \in Keys : KnownToHead(listing, k)} :
                    Scrape(listing, dropped, at)
          BY <4>1 DEF ScrapeRun
        <5>2. PICK dropped \in SUBSET {k \in Keys : KnownToHead(listing, k)} :
                Scrape(listing, dropped, at)
          BY <5>1
        <5>3. [k \in Keys |-> IF k \in dropped THEN Null ELSE listing[k]] \in Listings
          BY DEF Listings
        <5> QED
          BY <3>1, <5>2, <5>3 DEF Scrape, RunRecord
      <4>2. CASE FailedScrapeRun
        BY <3>1, <4>2 DEF FailedScrapeRun, FailedScrape, RunRecord
      <4>3. CASE RebuildRun
        BY <3>1, <4>3 DEF RebuildRun, Rebuild, RunRecord
      <4> QED
        BY <2>2, <4>1, <4>2, <4>3
    <3> QED
      BY <3>2, QuietStart
  <2>3. CASE CloseCurrent \/ AppendMany \/ AppendRefused \/ UpsertHeads \/ Project \/ Interrupt
    BY <2>3, QuietWrites
  <2> QED
    BY <2>1, <2>2, <2>3 DEF Next
<1>3. IInv /\ QuietInv => HeadIsCurrentRow /\ AsOfIsTotal /\ ReadModelIsCurrent
  BY QuietAgrees
<1> QED
  BY <1>1, <1>2, <1>3, Invariant, PTL DEF Spec
-----------------------------------------------------------------------------
(* Why a deal retires.                                                     *)

\* Records of different deals differ in the part the fingerprint is taken of.
SeparateTexts ==
    \A k, l \in Keys, c, d \in Contents : Fingerprint(k, c) = Fingerprint(l, d) => k = l

\* The absence an active head counts is one of healthy runs since it was last listed.
AbsenceIsReal(k) ==
    heads[k] # Null =>
        /\ OwnFingerprint(k, heads[k])
        /\ heads[k].status = "active" =>
              /\ heads[k].missing_runs <= misses[k]
              /\ heads[k].missing_since # Null => last_listed[k] <= heads[k].missing_since

\* The run did not list the deal and may count that as a miss.
Missed(k) == k \in ActiveIn(heads) /\ job.listing[k] = Null /\ Healthy

PlanIsFair(k) ==
    LET head == job.plan.heads[k] IN
    /\ OwnFingerprint(k, head)
    /\ head.status = "active" =>
          \/ head.missing_runs = 0 /\ head.missing_since = Null
          \/ Missed(k) /\ head = MissHead(heads[k], now)
    /\ head.status = "expired" /\ k \in ActiveIn(heads) /\ ~Ended(head.content, now) =>
          Missed(k) /\ LongGone(heads[k], now)

AbsenceInv ==
    /\ \A k \in Keys : last_listed[k] <= now /\ AbsenceIsReal(k)
    /\ job.pc \in {"close", "append", "heads"} =>
          /\ \A k \in DOMAIN job.plan.heads : PlanIsFair(k)
          /\ \A k \in ActiveIn(heads) : job.listing[k] # Null => k \in DOMAIN job.plan.heads

\* Of finitely many deals, those that came in and those sighted are no more than those
\* listed, if they are listed.
LEMMA NoMoreThanListed ==
    ASSUME IsFiniteSet(Keys), NEW A \in SUBSET Keys, NEW B \in SUBSET Keys,
           NEW L \in SUBSET Keys, A \intersect B = {}, A \union B \subseteq L
    PROVE  /\ Cardinality(A) \in Nat /\ Cardinality(B) \in Nat /\ Cardinality(L) \in Nat
           /\ Cardinality(A) + Cardinality(B) <= Cardinality(L)
<1>1. IsFiniteSet(A) /\ IsFiniteSet(B) /\ IsFiniteSet(L)
  BY FS_Subset
<1>2. Cardinality(A \union B) = Cardinality(A) + Cardinality(B) - Cardinality(A \intersect B)
  BY <1>1, FS_Union
<1>3. Cardinality(A \intersect B) = 0
  BY FS_EmptySet
<1>4. Cardinality(A \union B) <= Cardinality(L)
  BY <1>1, FS_Subset
<1>5. Cardinality(A) \in Nat /\ Cardinality(B) \in Nat /\ Cardinality(L) \in Nat
  BY <1>1, FS_CardinalityType
<1> QED
  BY <1>2, <1>3, <1>4, <1>5

\* A run that may sweep after a scrape is healthy and did not list what it misses.
LEMMA SweepsAreHealthy ==
    ASSUME SeparateTexts, IsFiniteSet(Keys), IInv, AbsenceInv, NEW listing \in Listings,
           NEW dropped \in SUBSET {k \in Keys : KnownToHead(listing, k)}, NEW run,
           run.seen = SeenIn(listing), job'.listing = listing, heads' = heads,
           NEW incoming, incoming = [k \in Keys |-> IF k \in dropped THEN Null ELSE listing[k]]
    PROVE  /\ \A k \in MissedIn(heads, incoming, run) : listing[k] = Null /\ Healthy'
           /\ \A k \in ActiveIn(heads) : listing[k] # Null =>
                 k \in IncomingIn(incoming) \union SightedIn(heads, incoming, run)
<1> DEFINE A == IncomingIn(incoming)
           B == SightedIn(heads, incoming, run)
           L == {k \in Keys : listing[k] # Null}
<1>1. A \subseteq L /\ A \in SUBSET Keys /\ L \in SUBSET Keys
  BY DEF IncomingIn
<1>2. B \subseteq L /\ B \in SUBSET Keys /\ A \intersect B = {}
  <2>1. B \in SUBSET Keys /\ A \intersect B = {}
    BY DEF SightedIn, ActiveIn
  <2>2. ASSUME NEW k \in B PROVE listing[k] # Null
    <3>1. /\ k \in Keys /\ heads[k] # Null /\ heads[k].raw_fingerprint # Null
          /\ heads[k].raw_fingerprint \in SeenIn(listing)
      BY DEF SightedIn, ActiveIn
    <3>2. PICK c \in Contents : heads[k].raw_fingerprint = Fingerprint(k, c)
      BY <3>1 DEF AbsenceInv, AbsenceIsReal, OwnFingerprint
    <3>3. PICK l \in Keys : listing[l] # Null /\ heads[k].raw_fingerprint = Fingerprint(l, listing[l])
      BY <3>1 DEF SeenIn
    <3>4. listing[l] \in Contents
      BY <3>3 DEF Listings
    <3> QED
      BY <3>1, <3>2, <3>3, <3>4 DEF SeparateTexts
  <2> QED
    BY <2>1, <2>2
<1>3. ASSUME NEW k \in ActiveIn(heads), listing[k] # Null PROVE k \in A \union B
  <2>1. k \in Keys /\ heads[k] # Null
    BY DEF ActiveIn
  <2>2. CASE k \in dropped
    <3>1. /\ heads[k].raw_fingerprint = Fingerprint(k, listing[k])
          /\ listing[k] \in Contents /\ k \notin A
      BY <1>3, <2>1, <2>2 DEF KnownToHead, Listings, IncomingIn
    <3>2. heads[k].raw_fingerprint \in SeenIn(listing) /\ heads[k].raw_fingerprint \in Fingerprints
      BY <1>3, <2>1, <3>1 DEF SeenIn, Fingerprints
    <3> QED
      BY <3>1, <3>2, NullAssumption DEF SightedIn
  <2>3. CASE k \notin dropped
    BY <1>3, <2>1, <2>3 DEF IncomingIn
  <2> QED
    BY <2>2, <2>3
<1>4. ASSUME SweepAllowed(heads, incoming, run), ActiveIn(heads) # {}
      PROVE  Healthy'
  <2> DEFINE a == Cardinality(A)
             b == Cardinality(B)
             l == Cardinality(L)
             n == Cardinality(ActiveIn(heads))
  <2>1. a \in Nat /\ b \in Nat /\ l \in Nat /\ a + b <= l
    BY <1>1, <1>2, NoMoreThanListed
  <2>2. n \in Nat /\ n > 0
    <3>1. IsFiniteSet(ActiveIn(heads))
      BY FS_Subset DEF ActiveIn
    <3> QED
      BY <1>4, <3>1, FS_CardinalityType, FS_EmptySet
  <2>3. a + b # 0 /\ ~((a + b) * CoverageDen < CoverageNum * n)
    BY <1>4, <2>2 DEF SweepAllowed, SweepBlocked
  <2>4. L # {}
    <3>1. l # 0
      BY <2>1, <2>3
    <3>2. Cardinality({}) = 0
      BY FS_EmptySet
    <3> QED
      BY <3>1, <3>2, Zenon
  <2> HIDE DEF a, b, l, n
  <2>5. CoverageDen * l >= CoverageNum * n
    <3>1. PICK d \in Nat : l = a + b + d
      <4>1. l - (a + b) \in Nat /\ l = a + b + (l - (a + b))
        BY <2>1
      <4> QED
        BY <4>1
    <3>2. CoverageDen \in Nat /\ CoverageNum \in Nat /\ CoverageDen * d \in Nat
          /\ CoverageNum * n \in Nat /\ (a + b) * CoverageDen \in Nat
      BY <2>1, <2>2, <3>1, PlanAssumption
    <3>3. CoverageDen * l = (a + b) * CoverageDen + CoverageDen * d
      BY <2>1, <3>1, <3>2
    <3> QED
      BY <2>3, <3>2, <3>3
  <2>6. {k \in Keys : heads[k] # Null /\ heads[k].status = "active"} = ActiveIn(heads)
    BY DEF ActiveIn
  <2> QED
    BY <2>4, <2>5, <2>6 DEF Healthy, l, n
<1>5. ASSUME NEW k \in MissedIn(heads, incoming, run) PROVE listing[k] = Null /\ Healthy'
  <2>1. k \in ActiveIn(heads) /\ k \notin A \union B /\ SweepAllowed(heads, incoming, run)
    BY DEF MissedIn
  <2> QED
    BY <1>3, <1>4, <2>1
<1> QED
  BY <1>3, <1>5

\* A run that starts plans fairly, if it did not list what it may sweep.
LEMMA AbsenceStart ==
    ASSUME IInv, AbsenceInv, NEW listing \in Listings, NEW incoming \in Listings, NEW run,
           RunRecord(run), now <= run.at, Start(listing, incoming, run),
           \A k \in MissedIn(heads, incoming, run) : listing[k] = Null /\ Healthy',
           \A k \in ActiveIn(heads) : listing[k] # Null =>
               k \in IncomingIn(incoming) \union SightedIn(heads, incoming, run)
    PROVE  AbsenceInv'
<1> DEFINE p == Plan(heads, incoming, run)
<1>1. TypedHeads(heads) /\ incoming \in [Keys -> Contents \union {Null}]
  BY DEF IInv, HeadAt, TypedHeads, Listings
<1>2. /\ PlanFits(p, heads, run.at)
      /\ \A k \in DOMAIN p.heads : JudgedFairly(k, p.heads[k], heads, incoming, run)
      /\ \A k \in ActiveIn(heads) : k \in IncomingIn(incoming) \union SightedIn(heads, incoming, run)
                                       => k \in DOMAIN p.heads
  BY <1>1, PlanFitsHeads
<1>3. /\ now \in Nat /\ now' = run.at /\ now' \in Nat /\ heads' = heads
      /\ last_listed' = last_listed /\ misses' = misses
      /\ job' = [pc |-> "close", plan |-> p, at |-> run.at, listing |-> listing,
                 deletes |-> IF run.sweep THEN Deletable ELSE {}]
  BY DEF IInv, Start, store, RunRecord
<1> HIDE DEF p
<1>4. job'.plan = p /\ job'.listing = listing
  BY <1>3
<1>5. \A k \in Keys : last_listed'[k] <= now' /\ AbsenceIsReal(k)'
  BY <1>3 DEF AbsenceInv, AbsenceIsReal, OwnFingerprint, IInv, CountersOK
<1>6. ActiveIn(heads)' = ActiveIn(heads)
  BY <1>3 DEF ActiveIn
<1>7. ASSUME NEW k \in DOMAIN p.heads PROVE PlanIsFair(k)'
  <2>1. k \in Keys /\ (heads[k] # Null => OwnFingerprint(k, heads[k]))
    BY <1>2 DEF PlanFits, AbsenceInv, AbsenceIsReal
  <2>2. k \in MissedIn(heads, incoming, run) => Missed(k)'
    BY <1>4, <1>6 DEF Missed, MissedIn
  <2>3. JudgedFairly(k, p.heads[k], heads, incoming, run)
    BY <1>2
  <2> QED
    BY <1>3, <1>4, <1>6, <2>1, <2>2, <2>3 DEF PlanIsFair, JudgedFairly, MissHead, LongGone,
       Ended, OwnFingerprint
<1> QED
  BY <1>2, <1>4, <1>5, <1>6, <1>7 DEF AbsenceInv

\* Writing heads, of whatever keys, and recording the run in the history keeps the
\* absences real, and retires no deal without one.
LEMMA AbsenceWritten ==
    ASSUME IInv, AbsenceInv, job.pc = "heads", NEW keys, heads' = Upserted(keys), Record(keys),
           now' = now
    PROVE  /\ \A k \in Keys : last_listed'[k] <= now' /\ AbsenceIsReal(k)'
           /\ \A k \in Keys : Expires(k) /\ ~Ended(heads'[k].content, now) =>
                 /\ misses'[k] >= AbsenceThreshold
                 /\ heads'[k].valid_to - last_listed[k] >= AbsenceGrace
                 /\ job.listing # Nothing
<1>1. /\ now \in Nat /\ job.at = now /\ PlanFits(job.plan, heads, now)
      /\ last_listed \in [Keys -> Nat] /\ misses \in [Keys -> Nat]
  BY RunsAtAWrite DEF IInv, JobOK, Idle, CountersOK
<1> SUFFICES ASSUME NEW k \in Keys
             PROVE  /\ last_listed'[k] <= now' /\ AbsenceIsReal(k)'
                    /\ Expires(k) /\ ~Ended(heads'[k].content, now) =>
                          /\ misses'[k] >= AbsenceThreshold
                          /\ heads'[k].valid_to - last_listed[k] >= AbsenceGrace
                          /\ job.listing # Nothing
  OBVIOUS
<1>2. /\ last_listed'[k] = IF k \in keys /\ job.listing[k] # Null THEN now ELSE last_listed[k]
      /\ misses'[k] = IF k \in keys /\ job.listing[k] # Null THEN 0
                      ELSE IF k \in keys /\ Healthy THEN misses[k] + 1 ELSE misses[k]
      /\ last_listed[k] \in Nat /\ misses[k] \in Nat /\ last_listed[k] <= now
  BY <1>1 DEF Record, AbsenceInv
<1>3. last_listed'[k] <= now'
  BY <1>1, <1>2
<1>4. heads[k] # Null => heads[k] \in Heads
  BY DEF IInv, HeadAt
<1>5. CASE ~(k \in keys /\ k \in DOMAIN job.plan.heads)
  <2>1. heads'[k] = heads[k]
    BY <1>5 DEF Upserted
  <2>2. ASSUME heads[k] # Null, heads[k].status = "active"
        PROVE  last_listed'[k] = last_listed[k] /\ misses[k] <= misses'[k]
    <3>1. ~(k \in keys /\ job.listing[k] # Null)
      BY <1>5, <2>2 DEF AbsenceInv, ActiveIn
    <3> QED
      BY <1>2, <3>1
  <2>3. heads[k] # Null => heads[k].missing_runs \in Nat
    BY <1>4 DEF Heads
  <2>4. AbsenceIsReal(k)'
    BY <1>2, <2>1, <2>2, <2>3 DEF AbsenceIsReal, AbsenceInv, OwnFingerprint
  <2>5. ~Expires(k)
    BY <2>1 DEF Expires
  <2> QED
    BY <1>3, <2>4, <2>5
<1>6. CASE k \in keys /\ k \in DOMAIN job.plan.heads
  <2> DEFINE head == job.plan.heads[k]
  <2>1. heads'[k] = head
    BY <1>6 DEF Upserted
  <2>2. PlanIsFair(k)
    BY <1>6 DEF AbsenceInv
  <2>3. PlannedHead(k, job.plan, heads, now) /\ head \in Heads
    BY <1>1, <1>6 DEF PlanFits, PlannedHead
  <2>4. ASSUME Missed(k)
        PROVE  /\ last_listed'[k] = last_listed[k] /\ misses'[k] = misses[k] + 1
               /\ heads[k] # Null /\ heads[k] \in Heads /\ heads[k].missing_runs \in Nat
               /\ heads[k].missing_runs <= misses[k]
               /\ heads[k].missing_since \in Nat \union {Null}
               /\ heads[k].missing_since # Null => last_listed[k] <= heads[k].missing_since
               /\ job.listing # Nothing
    <3>1. job.listing[k] = Null /\ Healthy /\ heads[k] # Null /\ heads[k].status = "active"
      BY <2>4 DEF Missed, ActiveIn
    <3>2. job.listing # Nothing
      BY <3>1 DEF Healthy, Nothing
    <3>3. heads[k].missing_runs \in Nat /\ heads[k].missing_since \in Nat \union {Null}
      BY <1>4, <3>1 DEF Heads
    <3>4. AbsenceIsReal(k)
      BY DEF AbsenceInv
    <3> QED
      BY <1>2, <1>4, <1>6, <3>1, <3>2, <3>3, <3>4 DEF AbsenceIsReal
  <2>5. ASSUME Missed(k)
        PROVE  /\ MissHead(heads[k], now).missing_runs = heads[k].missing_runs + 1
               /\ MissHead(heads[k], now).missing_since \in Nat
               /\ last_listed[k] <= MissHead(heads[k], now).missing_since
    BY <1>1, <1>2, <2>4, <2>5, MissHeadType
  <2>6. AbsenceIsReal(k)'
    <3>1. ASSUME head.status = "active"
          PROVE  /\ head.missing_runs <= misses'[k]
                 /\ head.missing_since # Null => last_listed'[k] <= head.missing_since
      <4>1. CASE head.missing_runs = 0 /\ head.missing_since = Null
        BY <1>2, <4>1
      <4>2. CASE Missed(k) /\ head = MissHead(heads[k], now)
        BY <1>2, <2>4, <2>5, <4>2
      <4> QED
        BY <2>2, <3>1, <4>1, <4>2 DEF PlanIsFair
    <3>2. OwnFingerprint(k, head)
      BY <2>2 DEF PlanIsFair
    <3> QED
      BY <2>1, <3>1, <3>2 DEF AbsenceIsReal, OwnFingerprint
  <2>7. ASSUME Expires(k), ~Ended(heads'[k].content, now)
        PROVE  /\ misses'[k] >= AbsenceThreshold
               /\ heads'[k].valid_to - last_listed[k] >= AbsenceGrace
               /\ job.listing # Nothing
    <3>1. head.status = "expired" /\ k \in ActiveIn(heads) /\ ~Ended(head.content, now)
      BY <2>1, <2>7 DEF Expires, ActiveIn
    <3>2. Missed(k) /\ LongGone(heads[k], now)
      BY <2>2, <3>1 DEF PlanIsFair
    <3>3. /\ now - MissHead(heads[k], now).missing_since >= AbsenceGrace
          /\ heads[k].missing_runs + 1 >= AbsenceThreshold
      BY <2>5, <3>2 DEF LongGone
    <3>4. head.valid_to = now
      BY <2>3, <3>1 DEF PlannedHead
    <3>5. AbsenceThreshold \in Nat /\ AbsenceGrace \in Nat
      BY PlanAssumption
    <3> QED
      BY <1>1, <1>2, <2>1, <2>4, <2>5, <3>2, <3>3, <3>4, <3>5
  <2> QED
    BY <1>3, <2>6, <2>7
<1> QED
  BY <1>5, <1>6

\* What a step that writes no heads does for the absences.
LEMMA AbsenceStays ==
    ASSUME IInv, AbsenceInv, heads' = heads, last_listed' = last_listed, misses' = misses,
           now' = now,
           \/ job' = job
           \/ job'.pc \notin {"close", "append", "heads"}
           \/ /\ job'.plan = job.plan /\ job'.listing = job.listing
              /\ job.pc \in {"close", "append", "heads"}
    PROVE  AbsenceInv'
<1>1. \A k \in Keys : last_listed'[k] <= now' /\ AbsenceIsReal(k)'
  BY DEF AbsenceInv, AbsenceIsReal, OwnFingerprint
<1>2. ASSUME job'.pc \in {"close", "append", "heads"}
      PROVE  /\ \A k \in DOMAIN job'.plan.heads : PlanIsFair(k)'
             /\ \A k \in ActiveIn(heads)' : job'.listing[k] # Null => k \in DOMAIN job'.plan.heads
  <2>1. /\ job'.plan = job.plan /\ job'.listing = job.listing
        /\ job.pc \in {"close", "append", "heads"}
    BY <1>2
  <2>2. Healthy' <=> Healthy
    BY <2>1 DEF Healthy
  <2>3. ActiveIn(heads)' = ActiveIn(heads)
    BY DEF ActiveIn
  <2>4. \A k : Missed(k)' <=> Missed(k)
    BY <2>1, <2>2, <2>3 DEF Missed
  <2>5. ASSUME NEW k \in DOMAIN job.plan.heads PROVE PlanIsFair(k)'
    <3>1. PlanIsFair(k)
      BY <2>1 DEF AbsenceInv
    <3> QED
      BY <2>1, <2>3, <2>4, <3>1 DEF PlanIsFair, OwnFingerprint, MissHead, LongGone, Ended
  <2> QED
    BY <2>1, <2>3, <2>5 DEF AbsenceInv
<1> QED
  BY <1>1, <1>2 DEF AbsenceInv

\* Every step keeps the absences real, and what it retires has one or is over.
LEMMA AbsenceStep ==
    ASSUME SeparateTexts, IsFiniteSet(Keys), IInv, AbsenceInv, [Next]_vars
    PROVE  /\ AbsenceInv'
           /\ \A k \in Keys : Expires(k) /\ ~Ended(heads'[k].content, now) =>
                 /\ misses'[k] >= AbsenceThreshold
                 /\ heads'[k].valid_to - last_listed[k] >= AbsenceGrace
                 /\ job.listing # Nothing
<1> DEFINE Retires(k) == Expires(k) /\ ~Ended(heads'[k].content, now) =>
                 /\ misses'[k] >= AbsenceThreshold
                 /\ heads'[k].valid_to - last_listed[k] >= AbsenceGrace
                 /\ job.listing # Nothing
<1>0. heads' = heads => \A k \in Keys : Retires(k)
  BY DEF Expires
<1>1. Nothing \in Listings /\ \A k \in Keys : Nothing[k] = Null
  BY DEF Nothing, Listings
<1>2. \A at \in Later : at \in Nat /\ now <= at
  BY DEF IInv, Later
<1>3. CASE ScrapeRun
  <2>1. PICK listing \in Listings, at \in Later :
          \E dropped \in SUBSET {k \in Keys : KnownToHead(listing, k)} :
              Scrape(listing, dropped, at)
    BY <1>3 DEF ScrapeRun
  <2>2. PICK dropped \in SUBSET {k \in Keys : KnownToHead(listing, k)} :
          Scrape(listing, dropped, at)
    BY <2>1
  <2> DEFINE incoming == [k \in Keys |-> IF k \in dropped THEN Null ELSE listing[k]]
             run == [at |-> at, ok |-> TRUE, seen |-> SeenIn(listing), fps |-> TRUE,
                     sweep |-> TRUE, react |-> TRUE]
  <2>3. incoming \in Listings
    BY DEF Listings
  <2>4. RunRecord(run) /\ now <= run.at /\ run.seen = SeenIn(listing)
    BY <1>2 DEF RunRecord
  <2>5. Start(listing, incoming, run)
    BY <2>2 DEF Scrape
  <2>6. heads' = heads /\ job'.listing = listing
    BY <2>5 DEF Start, store
  <2>7. incoming = [k \in Keys |-> IF k \in dropped THEN Null ELSE listing[k]]
    OBVIOUS
  <2> HIDE DEF incoming, run
  <2>8. /\ \A k \in MissedIn(heads, incoming, run) : listing[k] = Null /\ Healthy'
        /\ \A k \in ActiveIn(heads) : listing[k] # Null =>
              k \in IncomingIn(incoming) \union SightedIn(heads, incoming, run)
    BY <2>4, <2>6, <2>7, SweepsAreHealthy
  <2> QED
    BY <1>0, <2>3, <2>4, <2>5, <2>6, <2>8, AbsenceStart
<1>4. ASSUME NEW at \in Later, NEW incoming \in Listings, NEW run,
             RunRecord(run), run.at = at, ~run.ok \/ ~run.sweep, Start(Nothing, incoming, run)
      PROVE  AbsenceInv' /\ \A k \in Keys : Retires(k)
  <2>1. MissedIn(heads, incoming, run) = {}
    BY <1>4 DEF MissedIn, SweepAllowed, SweepBlocked
  <2>2. \A k \in ActiveIn(heads) : Nothing[k] = Null
    BY <1>1 DEF ActiveIn
  <2>3. heads' = heads
    BY <1>4 DEF Start, store
  <2> QED
    BY <1>0, <1>1, <1>2, <1>4, <2>1, <2>2, <2>3, AbsenceStart
<1>5. CASE FailedScrapeRun
  <2>1. PICK at \in Later : FailedScrape(at)
    BY <1>5 DEF FailedScrapeRun
  <2> DEFINE run == [at |-> at, ok |-> FALSE, seen |-> {}, fps |-> TRUE,
                     sweep |-> TRUE, react |-> TRUE]
  <2>2. Start(Nothing, Nothing, run) /\ RunRecord(run) /\ run.at = at /\ ~run.ok
    BY <1>2, <2>1 DEF FailedScrape, RunRecord
  <2> HIDE DEF run
  <2> QED
    BY <1>1, <1>4, <2>2
<1>6. CASE RebuildRun
  <2>1. PICK incoming \in Listings, at \in Later : Rebuild(incoming, at)
    BY <1>6 DEF RebuildRun
  <2> DEFINE run == [at |-> at, ok |-> TRUE, seen |-> {}, fps |-> FALSE,
                     sweep |-> FALSE, react |-> FALSE]
  <2>2. Start(Nothing, incoming, run) /\ RunRecord(run) /\ run.at = at /\ ~run.sweep
    BY <1>2, <2>1 DEF Rebuild, RunRecord
  <2> HIDE DEF run
  <2> QED
    BY <1>4, <2>2
<1>7. CASE CloseCurrent \/ AppendMany
  <2>1. /\ heads' = heads /\ last_listed' = last_listed /\ misses' = misses /\ now' = now
        /\ job.pc \in {"close", "append"}
    BY <1>7 DEF CloseCurrent, AppendMany, history
  <2>2. Running
    BY <2>1, RunsAtAWrite DEF IInv
  <2>3. job'.plan = job.plan /\ job'.listing = job.listing
    BY <1>7, <2>2, JobGoesOn DEF CloseCurrent, AppendMany
  <2> QED
    BY <1>0, <2>1, <2>3, AbsenceStays
<1>8. CASE AppendRefused \/ Project
  BY <1>0, <1>8, AbsenceStays DEF AppendRefused, Project, Idle
<1>9. CASE UpsertHeads
  <2>1. /\ job.pc = "heads" /\ heads' = Upserted(Keys) /\ Record(Keys) /\ now' = now
    BY <1>9 DEF UpsertHeads
  <2>2. job'.pc = "project"
    <3>1. Running
      BY <2>1, RunsAtAWrite DEF IInv
    <3> QED
      BY <1>9, <3>1, JobGoesOn DEF UpsertHeads
  <2> QED
    BY <2>1, <2>2, AbsenceWritten DEF AbsenceInv
<1>10. CASE Interrupt
  <2>1. PICK keys \in PartialWrites :
          /\ heads' = IF job.pc = "heads" THEN Upserted(keys) ELSE heads
          /\ Record(IF job.pc = "heads" THEN keys ELSE {})
    BY <1>10, Zenon DEF Interrupt
  <2>2. now' = now /\ job'.pc = "idle"
    BY <1>10 DEF Interrupt, Idle
  <2>3. CASE job.pc = "heads"
    BY <2>1, <2>2, <2>3, AbsenceWritten DEF AbsenceInv
  <2>4. CASE job.pc # "heads"
    <3>1. heads' = heads /\ last_listed' = last_listed /\ misses' = misses
      BY <2>1, <2>4 DEF Record, IInv, CountersOK
    <3> QED
      BY <1>0, <2>2, <3>1, AbsenceStays
  <2> QED
    BY <2>3, <2>4
<1>11. CASE UNCHANGED vars
  BY <1>0, <1>11, AbsenceStays DEF vars
<1> QED
  BY <1>3, <1>5, <1>6, <1>7, <1>8, <1>9, <1>10, <1>11 DEF Next

\* A deal retires because it was missing from enough healthy runs in a row, for long
\* enough since it was last listed, or because it is over; never in a run that saw
\* nothing of the source.
THEOREM RetirementIsEarned ==
    SeparateTexts /\ IsFiniteSet(Keys) => (Spec => DealsRetireForAReason)
<1> SUFFICES ASSUME SeparateTexts, IsFiniteSet(Keys) PROVE Spec => DealsRetireForAReason
  OBVIOUS
<1>1. Init => AbsenceInv
  <2> SUFFICES ASSUME Init PROVE AbsenceInv
    OBVIOUS
  <2>1. /\ heads = Nothing /\ now = 0 /\ last_listed = [k \in Keys |-> 0] /\ job.pc = "idle"
    BY DEF Init, Idle
  <2> QED
    BY <2>1 DEF AbsenceInv, AbsenceIsReal, Nothing
<1>2. IInv /\ AbsenceInv /\ [Next]_vars => AbsenceInv'
  BY AbsenceStep
<1>3. IInv /\ AbsenceInv /\ [Next]_vars =>
        [\A k \in Keys :
           Expires(k) /\ ~Ended(heads'[k].content, now) =>
             /\ misses'[k] >= AbsenceThreshold
             /\ heads'[k].valid_to - last_listed[k] >= AbsenceGrace]_vars
  BY AbsenceStep
<1>4. IInv /\ AbsenceInv /\ [Next]_vars =>
        [\A k \in Keys :
           Expires(k) /\ job.listing = Nothing => Ended(heads'[k].content, now)]_vars
  BY AbsenceStep
<1> QED
  BY <1>1, <1>2, <1>3, <1>4, Invariant, PTL
     DEF Spec, DealsRetireForAReason, ExpiryNeedsAbsence, BlindRunsRetireNothing

-----------------------------------------------------------------------------
(* The pipeline: the archive covers the heads.                             *)

InArchive(k, c) == c \in ToSet(archive[k])

BatchOK ==
    \/ batch = NoBatch
    \/ /\ batch.listing \in Listings
       /\ batch.fresh \subseteq Listed(batch.listing)
       /\ batch.at = now
       /\ job = Idle
       /\ \A k \in batch.fresh : InArchive(k, batch.listing[k])

\* What the run in progress is about to write is in the archive.
PlanCovered ==
    job # Idle => \A k \in DOMAIN job.plan.heads : InArchive(k, job.plan.heads[k].content)

PipelineInv ==
    /\ archive \in [Keys -> Seq(Contents)]
    /\ BatchOK
    /\ ArchiveCoversHeads
    /\ PlanCovered

-----------------------------------------------------------------------------
(* The archive.                                                            *)

\* Saving loses nothing of the archive and adds the records saved.
LEMMA SavedGrows ==
    ASSUME archive \in [Keys -> Seq(Contents)], NEW listing \in Listings,
           NEW keys \in SUBSET Fresh(listing), Save(listing, keys)
    PROVE  /\ archive' \in [Keys -> Seq(Contents)]
           /\ \A k \in Keys : ToSet(archive[k]) \subseteq ToSet(archive'[k])
           /\ \A k \in keys : listing[k] \in ToSet(archive'[k])
<1>1. \A k \in keys : k \in Keys /\ listing[k] \in Contents
  BY DEF Fresh, Listed, Listings
<1>2. archive' = [k \in Keys |-> IF k \in keys THEN Append(archive[k], listing[k])
                                               ELSE archive[k]]
  BY DEF Save
<1>3. archive' \in [Keys -> Seq(Contents)]
  BY <1>1, <1>2
<1>4. ASSUME NEW s \in Seq(Contents), NEW c \in Contents
      PROVE  ToSet(s) \subseteq ToSet(Append(s, c)) /\ c \in ToSet(Append(s, c))
  <2>1. /\ Len(Append(s, c)) = Len(s) + 1 /\ Len(s) \in Nat
        /\ Append(s, c)[Len(s) + 1] = c
        /\ DOMAIN s = 1 .. Len(s) /\ DOMAIN Append(s, c) = 1 .. Len(s) + 1
        /\ \A i \in 1 .. Len(s) : Append(s, c)[i] = s[i]
    OBVIOUS
  <2> QED
    BY <2>1 DEF ToSet
<1>5. ASSUME NEW k \in Keys PROVE ToSet(archive[k]) \subseteq ToSet(archive'[k])
  <2>1. CASE k \in keys
    BY <1>1, <1>2, <1>4, <2>1
  <2>2. CASE k \notin keys
    BY <1>2, <2>2
  <2> QED
    BY <2>1, <2>2
<1>6. ASSUME NEW k \in keys PROVE listing[k] \in ToSet(archive'[k])
  BY <1>1, <1>2, <1>4
<1> QED
  BY <1>3, <1>5, <1>6

\* A larger archive still covers what it covered.
LEMMA GrowingCovers ==
    ASSUME \A k \in Keys : ToSet(archive[k]) \subseteq ToSet(archive'[k]),
           ArchiveCoversHeads, heads' = heads
    PROVE  ArchiveCoversHeads'
BY DEF ArchiveCoversHeads

\* Starting a run whose incoming deals are in the archive plans nothing that is not.
LEMMA StartCovers ==
    ASSUME IInv, PipelineInv, NEW listing \in Listings, NEW incoming \in Listings,
           NEW run, RunRecord(run), Start(listing, incoming, run),
           \A k \in Keys : incoming[k] # Null => InArchive(k, incoming[k]),
           archive' = archive
    PROVE  PlanCovered' /\ ArchiveCoversHeads'
<1> DEFINE p == Plan(heads, incoming, run)
<1>1. TypedHeads(heads) /\ incoming \in [Keys -> Contents \union {Null}]
  BY DEF IInv, HeadAt, TypedHeads, Listings
<1>2. /\ PlanFits(p, heads, run.at)
      /\ \A k \in DOMAIN p.heads : SaysWhatIsKnown(k, p, heads, incoming)
  BY <1>1, PlanFitsHeads
<1>3. job' = [pc |-> "close", plan |-> p, at |-> run.at, listing |-> listing,
                 deletes |-> IF run.sweep THEN Deletable ELSE {}] /\ heads' = heads
  BY DEF Start, store
<1> HIDE DEF p
<1>4. \A k \in DOMAIN p.heads : k \in Keys /\ InArchive(k, p.heads[k].content)
  BY <1>2 DEF PlanFits, SaysWhatIsKnown, PipelineInv, ArchiveCoversHeads, InArchive
<1>5. PlanCovered'
  BY <1>3, <1>4 DEF PlanCovered, InArchive
<1>6. ArchiveCoversHeads'
  BY <1>3 DEF ArchiveCoversHeads, PipelineInv
<1> QED
  BY <1>5, <1>6

-----------------------------------------------------------------------------
(* The invariant.                                                          *)

Inv == IInv /\ PipelineInv

\* Moving the clock between runs preserves the ingestion's invariant.
LEMMA ClockStep ==
    ASSUME IInv, job = Idle, now' \in Later, UNCHANGED store, job' = job,
           UNCHANGED <<last_listed, misses>>, interrupts' \in 0 .. MaxInterrupts
    PROVE  IInv'
<1>1. now \in Nat /\ now' \in Nat /\ now <= now'
  BY DEF IInv, Later
<1>2. /\ heads' = heads /\ rows' = rows /\ deals' = deals
      /\ last_listed' = last_listed /\ misses' = misses /\ job' = job
  BY DEF store
<1>3. /\ History(rows, heads, now')
      /\ \A k \in Keys : heads[k] # Null => HeadAt(heads[k], now')
      /\ \A k \in Keys : deals[k] # Null => Behind(deals[k], heads[k], now')
  BY <1>1, TimePasses DEF IInv
<1>4. JobOK' /\ CountersOK'
  BY <1>2 DEF IInv, JobOK, CountersOK
<1> QED
  BY <1>1, <1>2, <1>3, <1>4 DEF IInv

\* Archiving, to the end or cut short, preserves the invariant.
LEMMA ArchiveStep ==
    ASSUME Inv, SeparateTexts, ScrapeAndArchive \/ InterruptArchiving
    PROVE  Inv'
<1>1. CASE ScrapeAndArchive
  <2>1. PICK listing \in Listings, at \in Later, keys \in SUBSET Keys :
          /\ keys \subseteq Fresh(listing)
          /\ \A k \in Fresh(listing) : \E l \in keys :
                Fingerprint(k, listing[k]) = Fingerprint(l, listing[l])
          /\ Save(listing, keys)
          /\ batch' = [pc |-> "archived", listing |-> listing,
                       fresh |-> Fresh(listing), at |-> at]
          /\ now' = at
    BY <1>1 DEF ScrapeAndArchive
  <2>2. /\ job = Idle /\ job' = job /\ heads' = heads /\ interrupts' = interrupts
        /\ UNCHANGED store /\ UNCHANGED <<last_listed, misses>>
    BY <1>1 DEF ScrapeAndArchive, store, history
  <2>3. IInv'
    BY <2>1, <2>2, ClockStep DEF Inv, IInv, CountersOK
  <2>4. /\ archive' \in [Keys -> Seq(Contents)]
        /\ \A k \in Keys : ToSet(archive[k]) \subseteq ToSet(archive'[k])
        /\ \A k \in keys : listing[k] \in ToSet(archive'[k])
    BY <2>1, SavedGrows DEF Inv, PipelineInv
  <2>5. \A k \in Fresh(listing) : k \in Keys /\ listing[k] \in Contents
    BY DEF Fresh, Listed, Listings
  <2>6. \A k \in Fresh(listing) : k \in keys
    BY <2>1, <2>5 DEF SeparateTexts
  <2>7. BatchOK'
    BY <2>1, <2>2, <2>4, <2>6 DEF BatchOK, InArchive, Fresh
  <2>8. ArchiveCoversHeads' /\ PlanCovered'
    BY <2>2, <2>4, GrowingCovers DEF Inv, PipelineInv, PlanCovered
  <2> QED
    BY <2>3, <2>4, <2>7, <2>8 DEF Inv, PipelineInv
<1>2. CASE InterruptArchiving
  <2>0. PICK listing \in Listings, at \in Later :
          \E keys \in SUBSET Fresh(listing) : Save(listing, keys) /\ now' = at
    BY <1>2 DEF InterruptArchiving
  <2>1. PICK keys \in SUBSET Fresh(listing) : Save(listing, keys) /\ now' = at
    BY <2>0
  <2>2. /\ job = Idle /\ job' = job /\ heads' = heads /\ batch = NoBatch /\ batch' = batch
        /\ interrupts < MaxInterrupts /\ interrupts' = interrupts + 1
        /\ UNCHANGED store /\ UNCHANGED <<last_listed, misses>>
    BY <1>2 DEF InterruptArchiving, store
  <2>3. interrupts' \in 0 .. MaxInterrupts
    BY <2>2, IngestionAssumption DEF Inv, IInv, CountersOK
  <2>4. IInv'
    BY <2>1, <2>2, <2>3, ClockStep DEF Inv
  <2>5. /\ archive' \in [Keys -> Seq(Contents)]
        /\ \A k \in Keys : ToSet(archive[k]) \subseteq ToSet(archive'[k])
    BY <2>1, SavedGrows DEF Inv, PipelineInv
  <2>6. BatchOK'
    BY <2>2 DEF BatchOK, NoBatch
  <2>7. ArchiveCoversHeads' /\ PlanCovered'
    BY <2>2, <2>5, GrowingCovers DEF Inv, PipelineInv, PlanCovered
  <2> QED
    BY <2>4, <2>5, <2>6, <2>7 DEF Inv, PipelineInv
<1> QED
  BY <1>1, <1>2

\* Matching and starting the ingestion preserves the invariant: the deals that
\* come in are fresh, and so archived.
LEMMA MatchStep ==
    ASSUME Inv, MatchAndIngest
    PROVE  Inv'
<1> DEFINE dropped  == Listed(batch.listing) \ (batch.fresh \intersect matched)
           incoming == [k \in Keys |-> IF k \in dropped THEN Null ELSE batch.listing[k]]
           run      == [at |-> batch.at, ok |-> TRUE, seen |-> SeenIn(batch.listing),
                        fps |-> TRUE, sweep |-> TRUE, react |-> TRUE]
<1>1. /\ batch.listing \in Listings /\ batch.at = now /\ now \in Nat
      /\ \A k \in batch.fresh : InArchive(k, batch.listing[k])
  BY DEF MatchAndIngest, Inv, PipelineInv, BatchOK, IInv
<1>2. Start(batch.listing, incoming, run)
  BY DEF MatchAndIngest, Scrape
<1>3. incoming \in Listings /\ \A k \in Keys : incoming[k] # Null => batch.listing[k] # Null
  BY <1>1 DEF Listings
<1>4. \A k \in Keys : incoming[k] # Null => InArchive(k, incoming[k])
  BY <1>1 DEF Listed
<1>5. RunRecord(run) /\ now <= run.at
  BY <1>1 DEF RunRecord
<1>6. archive' = archive /\ batch' = NoBatch
  BY DEF MatchAndIngest
<1> HIDE DEF incoming, run
<1>7. IInv'
  BY <1>1, <1>2, <1>3, <1>5, StartStep DEF Inv
<1>8. PlanCovered' /\ ArchiveCoversHeads'
  BY <1>1, <1>2, <1>3, <1>4, <1>5, <1>6, StartCovers DEF Inv
<1> QED
  BY <1>6, <1>7, <1>8 DEF Inv, PipelineInv, BatchOK, NoBatch

\* A failed scrape plans nothing new.
LEMMA FailedStep ==
    ASSUME Inv, FailedScrapeOfSource
    PROVE  Inv'
<1>1. PICK at \in Later : FailedScrape(at)
  BY DEF FailedScrapeOfSource, FailedScrapeRun
<1> DEFINE run == [at |-> at, ok |-> FALSE, seen |-> {}, fps |-> TRUE,
                   sweep |-> TRUE, react |-> TRUE]
<1>2. Start(Nothing, Nothing, run)
  BY <1>1 DEF FailedScrape
<1>3. RunRecord(run)
  BY DEF RunRecord, Inv, IInv, Later
<1>4. Nothing \in Listings /\ \A k \in Keys : Nothing[k] = Null
  BY DEF Nothing, Listings
<1>5. archive' = archive /\ batch = NoBatch /\ batch' = batch
  BY DEF FailedScrapeOfSource, pipeline
<1>6. IInv'
  BY RunStep DEF FailedScrapeOfSource, Inv
<1> HIDE DEF run
<1>7. PlanCovered' /\ ArchiveCoversHeads'
  BY <1>2, <1>3, <1>4, <1>5, StartCovers DEF Inv
<1> QED
  BY <1>5, <1>6, <1>7 DEF Inv, PipelineInv, BatchOK, NoBatch

\* A rebuild plans what the archive says.
LEMMA RebuildStep ==
    ASSUME Inv, RebuildFromArchive
    PROVE  Inv'
<1>1. PICK at \in Later : Rebuild(Rebuilt, at)
  BY DEF RebuildFromArchive
<1> DEFINE run == [at |-> at, ok |-> TRUE, seen |-> {}, fps |-> FALSE,
                   sweep |-> FALSE, react |-> FALSE]
<1>2. Start(Nothing, Rebuilt, run)
  BY <1>1 DEF Rebuild
<1>3. RunRecord(run) /\ now <= run.at /\ run.react = FALSE
  BY DEF RunRecord, Inv, IInv, Later
<1>4. Nothing \in Listings
  BY DEF Nothing, Listings
<1>5. ASSUME NEW k \in Keys, archive[k] # <<>>
      PROVE  Last(archive[k]) \in Contents /\ InArchive(k, Last(archive[k]))
  <2>1. archive[k] \in Seq(Contents)
    BY DEF Inv, PipelineInv
  <2>2. Len(archive[k]) \in 1 .. Len(archive[k])
    BY <1>5, <2>1
  <2>3. archive[k][Len(archive[k])] \in Contents /\ DOMAIN archive[k] = 1 .. Len(archive[k])
    BY <2>1, <2>2
  <2> QED
    BY <2>2, <2>3 DEF Last, InArchive, ToSet
<1>6. Rebuilt \in Listings /\ \A k \in Keys : Rebuilt[k] # Null => InArchive(k, Rebuilt[k])
  BY <1>5 DEF Rebuilt, Listings
<1>7. archive' = archive /\ batch = NoBatch /\ batch' = batch
  BY DEF RebuildFromArchive
<1> HIDE DEF run
<1>8. IInv'
  BY <1>2, <1>3, <1>4, <1>6, StartStep DEF Inv
<1>9. PlanCovered' /\ ArchiveCoversHeads'
  BY <1>2, <1>3, <1>4, <1>6, <1>7, StartCovers DEF Inv
<1> QED
  BY <1>7, <1>8, <1>9 DEF Inv, PipelineInv, BatchOK, NoBatch

\* The bulk writes, cut short or not, write only what was planned.
LEMMA IngestStep ==
    ASSUME Inv, Ingest
    PROVE  Inv'
<1>1. archive' = archive /\ batch' = batch
  BY DEF Ingest, pipeline
<1>2. job # Idle /\ now' = now
  BY DEF Ingest, CloseCurrent, AppendMany, AppendRefused, UpsertHeads, Project, Interrupt, Idle
<1>3. IInv'
  BY CloseCurrentStep, AppendManyStep, AppendRefusedStep, UpsertHeadsStep, ProjectStep,
     InterruptStep DEF Ingest, Inv
<1>4. batch = NoBatch
  BY <1>2 DEF Inv, PipelineInv, BatchOK
<1>5. job' = Idle \/ job'.plan = job.plan
  <2>1. Running
    BY <1>2, RunsAtAWrite DEF Inv, IInv
  <2> QED
    BY <2>1, JobGoesOn DEF Ingest, CloseCurrent, AppendMany, AppendRefused, UpsertHeads,
                           Project, Interrupt
<1>6. PlanCovered'
  BY <1>1, <1>2, <1>5 DEF PlanCovered, Inv, PipelineInv, InArchive
<1>7. heads' = heads \/ \E keys : heads' = Upserted(keys)
  <2>1. CASE Interrupt
    BY <2>1 DEF Interrupt
  <2>2. CASE ~Interrupt
    BY <2>2 DEF Ingest, CloseCurrent, AppendMany, AppendRefused, UpsertHeads, Project
  <2> QED
    BY <2>1, <2>2
<1>8. ArchiveCoversHeads'
  <2>1. ASSUME NEW keys PROVE \A k \in Keys : Upserted(keys)[k] # Null =>
                                 InArchive(k, Upserted(keys)[k].content)
    BY <1>2 DEF Upserted, Inv, PipelineInv, PlanCovered, ArchiveCoversHeads, InArchive
  <2> QED
    BY <1>1, <1>7, <2>1 DEF ArchiveCoversHeads, InArchive, Inv, PipelineInv
<1> QED
  BY <1>1, <1>3, <1>4, <1>6, <1>8 DEF Inv, PipelineInv, BatchOK, NoBatch

\* Reviews, and a batch cut short before its ingestion, touch neither the
\* collections nor the archive.
LEMMA ReviewStep ==
    ASSUME Inv, InterruptBatch \/ \E item \in queue : Approve(item) \/ Discard(item)
    PROVE  Inv'
<1>1. /\ now' = now /\ heads' = heads /\ rows' = rows /\ deals' = deals /\ job' = job
      /\ last_listed' = last_listed /\ misses' = misses /\ archive' = archive
  BY DEF InterruptBatch, Approve, Discard, vars, store
<1>2. interrupts' \in 0 .. MaxInterrupts
  BY IngestionAssumption DEF InterruptBatch, Approve, Discard, vars, Inv, IInv, CountersOK
<1>3. batch' = batch \/ batch' = NoBatch
  BY DEF InterruptBatch, Approve, Discard
<1>4. JobOK' /\ CountersOK'
  BY <1>1, <1>2 DEF Inv, IInv, JobOK, CountersOK
<1>5. IInv'
  BY <1>1, <1>4 DEF Inv, IInv
<1>6. BatchOK'
  BY <1>1, <1>3 DEF Inv, PipelineInv, BatchOK, NoBatch, InArchive
<1>7. ArchiveCoversHeads' /\ PlanCovered'
  BY <1>1 DEF Inv, PipelineInv, ArchiveCoversHeads, PlanCovered, InArchive
<1> QED
  BY <1>1, <1>5, <1>6, <1>7 DEF Inv, PipelineInv

\* The pipeline keeps the ingestion's invariant and covers its heads.
THEOREM PipelineInvariant == SeparateTexts => (PipelineSpec => []Inv)
<1> SUFFICES ASSUME SeparateTexts PROVE PipelineSpec => []Inv
  OBVIOUS
<1>1. PipelineInit => Inv
  <2> SUFFICES ASSUME PipelineInit PROVE Inv
    OBVIOUS
  <2>1. IInv
    BY InitInvariant DEF PipelineInit
  <2>2. /\ archive \in [Keys -> Seq(Contents)]
        /\ batch = NoBatch /\ heads = Nothing /\ job = Idle
    BY DEF PipelineInit, Init
  <2> QED
    BY <2>1, <2>2 DEF Inv, PipelineInv, BatchOK, ArchiveCoversHeads, PlanCovered, Nothing
<1>2. Inv /\ [PipelineNext]_allvars => Inv'
  <2> SUFFICES ASSUME Inv, [PipelineNext]_allvars PROVE Inv'
    OBVIOUS
  <2>1. CASE UNCHANGED allvars
    <3>1. /\ now' = now /\ heads' = heads /\ rows' = rows /\ deals' = deals /\ job' = job
          /\ interrupts' = interrupts /\ last_listed' = last_listed /\ misses' = misses
          /\ archive' = archive /\ batch' = batch
      BY <2>1 DEF allvars, vars, pipeline
    <3>2. JobOK' /\ CountersOK' /\ BatchOK' /\ ArchiveCoversHeads' /\ PlanCovered'
      BY <3>1 DEF Inv, IInv, PipelineInv, JobOK, CountersOK, BatchOK, ArchiveCoversHeads,
                  PlanCovered, InArchive
    <3> QED
      BY <3>1, <3>2 DEF Inv, IInv, PipelineInv
  <2>2. CASE ScrapeAndArchive \/ InterruptArchiving
    BY <2>2, ArchiveStep
  <2>3. CASE MatchAndIngest
    BY <2>3, MatchStep
  <2>4. CASE FailedScrapeOfSource
    BY <2>4, FailedStep
  <2>5. CASE RebuildFromArchive
    BY <2>5, RebuildStep
  <2>6. CASE Ingest
    BY <2>6, IngestStep
  <2>7. CASE InterruptBatch \/ \E item \in queue : Approve(item) \/ Discard(item)
    BY <2>7, ReviewStep
  <2> QED
    BY <2>1, <2>2, <2>3, <2>4, <2>5, <2>6, <2>7 DEF PipelineNext
<1> QED
  BY <1>1, <1>2, PTL DEF PipelineSpec

\* What any head says is in the raw archive, whatever was cut short, as long as
\* no two deals of the source share a fingerprint.
THEOREM HeadsAreArchived == SeparateTexts => (PipelineSpec => []ArchiveCoversHeads)
<1> SUFFICES ASSUME SeparateTexts PROVE PipelineSpec => []ArchiveCoversHeads
  OBVIOUS
<1>1. Inv => ArchiveCoversHeads
  BY DEF Inv, PipelineInv
<1> QED
  BY <1>1, PipelineInvariant, PTL
-----------------------------------------------------------------------------
(* What holds between runs as long as nothing is interrupted.              *)

\* The scrape in progress, or the run, is about to say something of the deal.
AboutToSay(k) ==
    \/ batch # NoBatch /\ k \in batch.fresh
    \/ job # Idle /\ k \in DOMAIN job.plan.heads

NewestOf(k) == Last(archive[k])

NewestInv ==
    interrupts = 0 =>
        /\ \A k \in Keys : heads[k] # Null => k \in matched
        /\ batch # NoBatch => \A k \in batch.fresh : batch.listing[k] = NewestOf(k)
        /\ job # Idle => \A k \in DOMAIN job.plan.heads :
                             k \in matched /\ job.plan.heads[k].content = NewestOf(k)
        /\ \A k \in Keys : AboutToSay(k) \/ (heads[k] # Null => heads[k].content = NewestOf(k))

\* Saving a record makes it the newest of its deal and leaves the other deals alone.
LEMMA SavedIsNewest ==
    ASSUME archive \in [Keys -> Seq(Contents)], NEW listing \in Listings,
           NEW keys \in SUBSET Fresh(listing), Save(listing, keys)
    PROVE  \A k \in Keys : NewestOf(k)' = IF k \in keys THEN listing[k] ELSE NewestOf(k)
<1>1. \A k \in keys : k \in Keys /\ listing[k] \in Contents
  BY DEF Fresh, Listed, Listings
<1>2. archive' = [k \in Keys |-> IF k \in keys THEN Append(archive[k], listing[k])
                                               ELSE archive[k]]
  BY DEF Save
<1>3. ASSUME NEW s \in Seq(Contents), NEW c \in Contents PROVE Last(Append(s, c)) = c
  <2>1. Len(Append(s, c)) = Len(s) + 1 /\ Append(s, c)[Len(s) + 1] = c
    OBVIOUS
  <2> QED
    BY <2>1 DEF Last
<1> SUFFICES ASSUME NEW k \in Keys
             PROVE  Last(archive'[k]) = IF k \in keys THEN listing[k] ELSE Last(archive[k])
  BY DEF NewestOf
<1>4. CASE k \in keys
  BY <1>1, <1>2, <1>3, <1>4
<1>5. CASE k \notin keys
  BY <1>2, <1>5
<1> QED
  BY <1>4, <1>5

\* A rebuild reads a content of each deal, or none.
LEMMA RebuiltListing ==
    ASSUME archive \in [Keys -> Seq(Contents)]
    PROVE  Rebuilt \in Listings
<1>1. ASSUME NEW k \in Keys, archive[k] # <<>> PROVE Last(archive[k]) \in Contents
  <2>1. archive[k] \in Seq(Contents)
    OBVIOUS
  <2> QED
    BY <1>1, <2>1 DEF Last
<1> QED
  BY <1>1 DEF Rebuilt, Listings

\* A run whose incoming deals have a store, and are the newest records of all that the
\* scrape was about to say, plans nothing but the newest records.
LEMMA NewestStart ==
    ASSUME IInv, NewestInv, NEW listing \in Listings, NEW incoming \in Listings,
           NEW run, RunRecord(run), Start(listing, incoming, run),
           \A k \in Keys : incoming[k] # Null => k \in matched /\ incoming[k] = NewestOf(k),
           batch # NoBatch => run.react /\ \A k \in batch.fresh \intersect matched :
                                             incoming[k] # Null,
           archive' = archive, matched' = matched, batch' = NoBatch
    PROVE  NewestInv'
<1> DEFINE p == Plan(heads, incoming, run)
<1>1. TypedHeads(heads) /\ incoming \in [Keys -> Contents \union {Null}]
  BY DEF IInv, HeadAt, TypedHeads, Listings
<1>2. /\ PlanFits(p, heads, run.at)
      /\ \A k \in DOMAIN p.heads : SaysWhatIsKnown(k, p, heads, incoming)
      /\ \A k \in Keys : run.react /\ incoming[k] # Null => k \in DOMAIN p.heads
  BY <1>1, PlanFitsHeads
<1>3. /\ job = Idle /\ heads' = heads /\ interrupts' = interrupts
      /\ job' = [pc |-> "close", plan |-> p, at |-> run.at, listing |-> listing,
                 deletes |-> IF run.sweep THEN Deletable ELSE {}]
  BY DEF Start, store
<1> HIDE DEF p
<1>4. job' # Idle /\ job'.plan = p
  BY <1>3 DEF Idle
<1> SUFFICES ASSUME interrupts = 0 PROVE NewestInv'
  BY <1>3 DEF NewestInv
<1>5. ASSUME NEW k \in DOMAIN p.heads, heads[k] # Null, incoming[k] = Null
      PROVE  heads[k].content = NewestOf(k)
  <2>1. k \in Keys /\ k \in matched
    BY <1>2, <1>5 DEF PlanFits, NewestInv
  <2>2. ~AboutToSay(k)
    BY <1>3, <1>5, <2>1 DEF AboutToSay
  <2> QED
    BY <1>5, <2>1, <2>2 DEF NewestInv
<1>6. \A k \in DOMAIN p.heads :
        k \in Keys /\ k \in matched /\ p.heads[k].content = NewestOf(k)
  <2> SUFFICES ASSUME NEW k \in DOMAIN p.heads
               PROVE  k \in Keys /\ k \in matched /\ p.heads[k].content = NewestOf(k)
    OBVIOUS
  <2>1. k \in Keys /\ SaysWhatIsKnown(k, p, heads, incoming)
    BY <1>2 DEF PlanFits
  <2>2. CASE incoming[k] # Null
    BY <2>1, <2>2 DEF SaysWhatIsKnown
  <2>3. CASE incoming[k] = Null
    BY <1>5, <2>1, <2>3 DEF SaysWhatIsKnown, NewestInv
  <2> QED
    BY <2>2, <2>3
<1>7. ASSUME NEW k \in Keys, k \notin DOMAIN p.heads, heads[k] # Null
      PROVE  heads[k].content = NewestOf(k)
  <2>1. k \in matched
    BY <1>7 DEF NewestInv
  <2>2. ~AboutToSay(k)
    BY <1>2, <1>3, <1>7, <2>1 DEF AboutToSay
  <2> QED
    BY <1>7, <2>2 DEF NewestInv
<1>8. \A k \in Keys : NewestOf(k)' = NewestOf(k)
  BY DEF NewestOf
<1> QED
  BY <1>3, <1>4, <1>6, <1>7, <1>8 DEF NewestInv, AboutToSay

\* The steps of the pipeline before the bulk writes.
LEMMA NewestSteps ==
    ASSUME Inv, NewestInv, SeparateTexts,
           \/ ScrapeAndArchive \/ MatchAndIngest \/ FailedScrapeOfSource \/ RebuildFromArchive
           \/ \E item \in queue : Approve(item) \/ Discard(item)
    PROVE  NewestInv'
<1>1. CASE ScrapeAndArchive
  <2>1. PICK listing \in Listings, at \in Later, keys \in SUBSET Keys :
          /\ keys \subseteq Fresh(listing)
          /\ \A k \in Fresh(listing) : \E l \in keys :
                Fingerprint(k, listing[k]) = Fingerprint(l, listing[l])
          /\ Save(listing, keys)
          /\ batch' = [pc |-> "archived", listing |-> listing,
                       fresh |-> Fresh(listing), at |-> at]
    BY <1>1 DEF ScrapeAndArchive
  <2>2. /\ job = Idle /\ job' = job /\ heads' = heads /\ interrupts' = interrupts
        /\ matched' = matched /\ batch = NoBatch
    BY <1>1 DEF ScrapeAndArchive, store
  <2>3. \A k \in Fresh(listing) : k \in Keys /\ listing[k] \in Contents
    BY DEF Fresh, Listed, Listings
  <2>4. keys = Fresh(listing)
    <3>1. \A k \in Fresh(listing) : \E l \in Fresh(listing) : l \in keys /\ l = k
      BY <2>1, <2>3 DEF SeparateTexts
    <3> QED
      BY <2>1, <3>1
  <2>5. \A k \in Keys : NewestOf(k)' = IF k \in keys THEN listing[k] ELSE NewestOf(k)
    BY <2>1, SavedIsNewest DEF Inv, PipelineInv
  <2>6. batch' # NoBatch /\ batch'.fresh = keys /\ batch'.listing = listing
    BY <2>1, <2>4 DEF NoBatch
  <2> QED
    BY <2>2, <2>3, <2>4, <2>5, <2>6 DEF NewestInv, AboutToSay
<1>2. CASE MatchAndIngest
  <2> DEFINE dropped  == Listed(batch.listing) \ (batch.fresh \intersect matched)
             incoming == [k \in Keys |-> IF k \in dropped THEN Null ELSE batch.listing[k]]
             run      == [at |-> batch.at, ok |-> TRUE, seen |-> SeenIn(batch.listing),
                          fps |-> TRUE, sweep |-> TRUE, react |-> TRUE]
  <2>1. /\ batch # NoBatch /\ batch.listing \in Listings /\ batch.at \in Nat
        /\ batch.fresh \subseteq Listed(batch.listing)
    BY <1>2 DEF MatchAndIngest, Inv, PipelineInv, BatchOK, IInv
  <2>2. Start(batch.listing, incoming, run)
    BY <1>2 DEF MatchAndIngest, Scrape
  <2>3. incoming \in Listings
    BY <2>1 DEF Listings
  <2>4. \A k \in Keys : incoming[k] # Null =>
           k \in batch.fresh \intersect matched /\ incoming[k] = batch.listing[k]
    BY <2>1 DEF Listed
  <2>5. \A k \in batch.fresh \intersect matched : k \in Keys /\ incoming[k] # Null
    BY <2>1 DEF Listed
  <2>6. RunRecord(run) /\ run.react
    BY <2>1 DEF RunRecord
  <2>7. archive' = archive /\ matched' = matched /\ batch' = NoBatch /\ interrupts' = interrupts
    BY <1>2, <2>2 DEF MatchAndIngest, Start
  <2> HIDE DEF dropped, incoming, run
  <2>8. CASE interrupts = 0
    <3>1. \A k \in batch.fresh : batch.listing[k] = NewestOf(k)
      BY <2>1, <2>8 DEF NewestInv
    <3>2. \A k \in Keys : incoming[k] # Null => k \in matched /\ incoming[k] = NewestOf(k)
      BY <2>4, <3>1
    <3> QED
      BY <2>1, <2>2, <2>3, <2>5, <2>6, <2>7, <3>2, NewestStart DEF Inv
  <2>9. CASE interrupts # 0
    BY <2>7, <2>9 DEF NewestInv
  <2> QED
    BY <2>8, <2>9
<1>3. CASE FailedScrapeOfSource
  <2>1. PICK at \in Later : FailedScrape(at)
    BY <1>3 DEF FailedScrapeOfSource, FailedScrapeRun
  <2> DEFINE run == [at |-> at, ok |-> FALSE, seen |-> {}, fps |-> TRUE,
                     sweep |-> TRUE, react |-> TRUE]
  <2>2. Start(Nothing, Nothing, run) /\ RunRecord(run)
    BY <2>1 DEF FailedScrape, RunRecord, Inv, IInv, Later
  <2>3. Nothing \in Listings /\ \A k \in Keys : Nothing[k] = Null
    BY DEF Nothing, Listings
  <2>4. archive' = archive /\ matched' = matched /\ batch = NoBatch /\ batch' = NoBatch
    BY <1>3 DEF FailedScrapeOfSource, pipeline
  <2> HIDE DEF run
  <2> QED
    BY <2>2, <2>3, <2>4, NewestStart DEF Inv
<1>4. CASE RebuildFromArchive
  <2>1. PICK at \in Later : Rebuild(Rebuilt, at)
    BY <1>4 DEF RebuildFromArchive
  <2> DEFINE run == [at |-> at, ok |-> TRUE, seen |-> {}, fps |-> FALSE,
                     sweep |-> FALSE, react |-> FALSE]
  <2>2. Start(Nothing, Rebuilt, run) /\ RunRecord(run)
    BY <2>1 DEF Rebuild, RunRecord, Inv, IInv, Later
  <2>3. Nothing \in Listings
    BY DEF Nothing, Listings
  <2>4. Rebuilt \in Listings
    BY RebuiltListing DEF Inv, PipelineInv
  <2>5. \A k \in Keys : Rebuilt[k] # Null => k \in matched /\ Rebuilt[k] = NewestOf(k)
    BY DEF Rebuilt, NewestOf
  <2>6. archive' = archive /\ matched' = matched /\ batch = NoBatch /\ batch' = NoBatch
    BY <1>4 DEF RebuildFromArchive
  <2> HIDE DEF run
  <2> QED
    BY <2>2, <2>3, <2>4, <2>5, <2>6, NewestStart DEF Inv
<1>5. CASE \E item \in queue : Approve(item) \/ Discard(item)
  <2>1. /\ heads' = heads /\ job' = job /\ archive' = archive /\ batch' = batch
        /\ interrupts' = interrupts /\ matched \subseteq matched'
    BY <1>5 DEF Approve, Discard, vars
  <2>2. \A k \in Keys : NewestOf(k)' = NewestOf(k) /\ (AboutToSay(k)' <=> AboutToSay(k))
    BY <2>1 DEF NewestOf, AboutToSay
  <2> HIDE DEF AboutToSay
  <2>3. job # Idle => DOMAIN job.plan.heads \subseteq Keys
    BY RunsAtAWrite DEF Inv, IInv, Running, PlanTyped
  <2>4. batch # NoBatch => batch.fresh \subseteq Keys
    BY DEF Inv, PipelineInv, BatchOK, Listed
  <2> QED
    BY <2>1, <2>2, <2>3, <2>4 DEF NewestInv
<1> QED
  BY <1>1, <1>2, <1>3, <1>4, <1>5

\* The bulk writes say the newest of what was planned.
LEMMA NewestWrites ==
    ASSUME Inv, QuietInv, NewestInv, Ingest
    PROVE  NewestInv'
<1>1. archive' = archive /\ batch' = batch /\ matched' = matched
  BY DEF Ingest, pipeline
<1>2. job # Idle /\ Running
  <2>1. job # Idle
    BY DEF Ingest, CloseCurrent, AppendMany, AppendRefused, UpsertHeads, Project, Interrupt, Idle
  <2> QED
    BY <2>1, RunsAtAWrite DEF Inv, IInv
<1>3. batch = NoBatch
  BY <1>2 DEF Inv, PipelineInv, BatchOK
<1>4. ASSUME Interrupt PROVE NewestInv'
  BY <1>4 DEF Interrupt, NewestInv, Inv, IInv, CountersOK
<1>5. ASSUME AppendRefused PROVE NewestInv'
  <2>1. interrupts' = interrupts /\ job.pc = "append" /\ Refused(Keys) # {}
    BY <1>5 DEF AppendRefused
  <2>2. interrupts # 0
    BY <1>5, <2>1, NothingRefused DEF Inv
  <2> QED
    BY <2>1, <2>2 DEF NewestInv
<1>6. \A k \in Keys : NewestOf(k)' = NewestOf(k)
  BY <1>1 DEF NewestOf
<1>7. DOMAIN job.plan.heads \subseteq Keys
  BY <1>2 DEF Running, PlanTyped
<1>8. ASSUME CloseCurrent \/ AppendMany \/ UpsertHeads PROVE NewestInv'
  <2>1. job' # Idle /\ job'.plan = job.plan /\ interrupts' = interrupts
    BY <1>2, <1>8, JobGoesOn DEF CloseCurrent, AppendMany, UpsertHeads, Idle
  <2>2. heads' = heads \/ heads' = Upserted(Keys)
    BY <1>8 DEF CloseCurrent, AppendMany, UpsertHeads
  <2>3. \A k \in Keys : \/ heads'[k] = heads[k]
                        \/ k \in DOMAIN job.plan.heads /\ heads'[k] = job.plan.heads[k]
    BY <2>2 DEF Upserted
  <2> QED
    BY <1>1, <1>2, <1>3, <1>6, <1>7, <2>1, <2>3 DEF NewestInv, AboutToSay
<1>9. ASSUME Project PROVE NewestInv'
  <2>1. job' = Idle /\ heads' = heads /\ interrupts' = interrupts /\ job.pc = "project"
    BY <1>9 DEF Project
  <2>2. \A k \in DOMAIN job.plan.heads : heads[k] = job.plan.heads[k]
    BY <1>2, <2>1 DEF Inv, IInv, JobOK
  <2> QED
    BY <1>1, <1>2, <1>3, <1>6, <1>7, <2>1, <2>2 DEF NewestInv, AboutToSay
<1> QED
  BY <1>4, <1>5, <1>8, <1>9 DEF Ingest

\* What the ingestion keeps while it is undisturbed it keeps in the pipeline.
LEMMA PipelineQuiet ==
    ASSUME Inv, QuietInv, NothingEnds, [PipelineNext]_allvars
    PROVE  QuietInv'
<1>1. CASE UNCHANGED allvars
  BY <1>1, QuietStays DEF allvars, vars, store
<1>2. CASE ScrapeAndArchive
  BY <1>2, QuietStays DEF ScrapeAndArchive, store
<1>3. CASE InterruptArchiving \/ InterruptBatch
  BY <1>3, InterruptsDisturb DEF Inv, InterruptArchiving, InterruptBatch
<1>4. CASE \E item \in queue : Approve(item) \/ Discard(item)
  BY <1>4, QuietStays DEF Approve, Discard, vars, store
<1>5. CASE Ingest
  BY <1>5, QuietWrites DEF Ingest, Inv
<1>6. CASE MatchAndIngest
  <2> DEFINE dropped  == Listed(batch.listing) \ (batch.fresh \intersect matched)
             incoming == [k \in Keys |-> IF k \in dropped THEN Null ELSE batch.listing[k]]
             run      == [at |-> batch.at, ok |-> TRUE, seen |-> SeenIn(batch.listing),
                          fps |-> TRUE, sweep |-> TRUE, react |-> TRUE]
  <2>1. batch.listing \in Listings /\ batch.at \in Nat
    BY <1>6 DEF MatchAndIngest, Inv, PipelineInv, BatchOK, IInv
  <2>2. Start(batch.listing, incoming, run)
    BY <1>6 DEF MatchAndIngest, Scrape
  <2>3. incoming \in Listings /\ RunRecord(run)
    BY <2>1 DEF Listings, RunRecord
  <2> HIDE DEF incoming, run
  <2> QED
    BY <2>1, <2>2, <2>3, QuietStart DEF Inv
<1>7. CASE FailedScrapeOfSource
  <2>1. PICK at \in Later : FailedScrape(at)
    BY <1>7 DEF FailedScrapeOfSource, FailedScrapeRun
  <2> DEFINE run == [at |-> at, ok |-> FALSE, seen |-> {}, fps |-> TRUE,
                     sweep |-> TRUE, react |-> TRUE]
  <2>2. Start(Nothing, Nothing, run) /\ RunRecord(run) /\ Nothing \in Listings
    BY <2>1 DEF FailedScrape, RunRecord, Inv, IInv, Later, Nothing, Listings
  <2> HIDE DEF run
  <2> QED
    BY <2>2, QuietStart DEF Inv
<1>8. CASE RebuildFromArchive
  <2>1. PICK at \in Later : Rebuild(Rebuilt, at)
    BY <1>8 DEF RebuildFromArchive
  <2> DEFINE run == [at |-> at, ok |-> TRUE, seen |-> {}, fps |-> FALSE,
                     sweep |-> FALSE, react |-> FALSE]
  <2>2. Start(Nothing, Rebuilt, run) /\ RunRecord(run) /\ Nothing \in Listings
    BY <2>1 DEF Rebuild, RunRecord, Inv, IInv, Later, Nothing, Listings
  <2>3. Rebuilt \in Listings
    BY RebuiltListing DEF Inv, PipelineInv
  <2> HIDE DEF run
  <2> QED
    BY <2>2, <2>3, QuietStart DEF Inv
<1> QED
  BY <1>1, <1>2, <1>3, <1>4, <1>5, <1>6, <1>7, <1>8 DEF PipelineNext

\* Between uninterrupted runs the archive, the history, the heads and the read model say
\* one thing of every deal, after scrapes, approvals and rebuilds in any order, as long
\* as no two deals share a fingerprint and no deal ends by itself.
THEOREM CollectionsAlwaysAgree ==
    SeparateTexts /\ NothingEnds => (PipelineSpec => []CollectionsAgree)
<1> SUFFICES ASSUME SeparateTexts, NothingEnds
             PROVE  PipelineSpec => []CollectionsAgree
  OBVIOUS
<1>1. PipelineInit => QuietInv /\ NewestInv
  <2> SUFFICES ASSUME PipelineInit PROVE QuietInv /\ NewestInv
    OBVIOUS
  <2>1. /\ rows = {} /\ heads = Nothing /\ deals = Nothing /\ job = Idle /\ job.pc = "idle"
        /\ batch = NoBatch
    BY DEF PipelineInit, Init, Idle
  <2>2. QuietInv
    BY <2>1 DEF QuietInv, RowsHaveHeads, WindowsMeet, Continues, ReadModelFollows, Mirrored, Mirrors,
                Nothing
  <2> QED
    BY <2>1, <2>2 DEF NewestInv, Nothing
<1>2. Inv /\ QuietInv /\ NewestInv /\ [PipelineNext]_allvars => QuietInv' /\ NewestInv'
  <2> SUFFICES ASSUME Inv, QuietInv, NewestInv, [PipelineNext]_allvars
               PROVE  NewestInv'
    BY PipelineQuiet
  <2>1. CASE UNCHANGED allvars
    <3>1. /\ heads' = heads /\ job' = job /\ batch' = batch /\ archive' = archive
          /\ matched' = matched /\ interrupts' = interrupts
      BY <2>1 DEF allvars, vars, pipeline
    <3> QED
      BY <3>1 DEF NewestInv, AboutToSay, NewestOf
  <2>2. CASE InterruptArchiving \/ InterruptBatch
    <3>1. interrupts' # 0
      BY <2>2 DEF InterruptArchiving, InterruptBatch, Inv, IInv, CountersOK
    <3> QED
      BY <3>1 DEF NewestInv
  <2>3. CASE Ingest
    BY <2>3, NewestWrites
  <2>4. CASE ~(UNCHANGED allvars \/ InterruptArchiving \/ InterruptBatch \/ Ingest)
    BY <2>4, NewestSteps DEF PipelineNext
  <2> QED
    BY <2>1, <2>2, <2>3, <2>4
<1>3. Inv /\ QuietInv /\ NewestInv => CollectionsAgree
  <2> SUFFICES ASSUME Inv, QuietInv, NewestInv PROVE CollectionsAgree
    OBVIOUS
  <2>1. HeadIsCurrentRow /\ AsOfIsTotal /\ ReadModelIsCurrent
    BY QuietAgrees DEF Inv
  <2>2. ASSUME Undisturbed, batch = NoBatch, NEW k \in Keys, deals[k] # Null
        PROVE  deals[k].content = Last(archive[k])
    <3>1. heads[k] # Null /\ deals[k] = Projection(heads[k])
      BY <2>1, <2>2 DEF ReadModelIsCurrent, ReadModelMirrorsHeads, Mirror
    <3>2. heads[k].content = Last(archive[k])
      BY <2>2, <3>1 DEF NewestInv, AboutToSay, NewestOf, Undisturbed
    <3> QED
      BY <3>1, <3>2 DEF Projection
  <2> QED
    BY <2>1, <2>2 DEF CollectionsAgree, ServedIsNewestArchived
<1> QED
  BY <1>1, <1>2, <1>3, PipelineInvariant, PTL DEF PipelineSpec
=============================================================================
