------------------------------ MODULE Catalogue ------------------------------
(***************************************************************************)
(* The catalogue of stores and the queue of names nobody could match: the  *)
(* pipeline queues them, one operator decides them one by one (`deals      *)
(* review`), the bulk resolution decides all the evidence settles (`deals  *)
(* resolve-reviews`), and two syncs of store groups (hot, swish) resolve   *)
(* the members of gift cards and queue those they cannot.                  *)
(*                                                                         *)
(* Each is a command of its own, of which one runs at a time, and knows    *)
(* nothing of the others. It reads what it goes by and makes a list of     *)
(* writes, one after the other; it may die between any two. In a JSON file *)
(* a write is two steps: the file is read whole, and written whole with    *)
(* the row in it, so that what another wrote in between is lost. With      *)
(* DEALS_STORAGE=mongo only the queue and the groups are files; a store,   *)
(* an alias or a deal is one document.                                     *)
(***************************************************************************)
EXTENDS Matching

CONSTANTS
  Records,        \* the raw records, by id: [name, text, source, url, domain, category]
  SeedStores,     \* the catalogue to begin with: sequence of [id, name, url, domain, mcc]
  Merchants,      \* the domains that are a merchant's own, no aggregator's
  Wrappers,       \* the words a source puts before a brand
  VoucherWords,   \* the words that make a name the description of a voucher
  Categories,     \* the source categories with a canonical one
  TypedNames,     \* the names the operator may type for a new store
  ReviewNoMatch,  \* DEALS_REVIEW_NO_MATCH
  Groups,         \* hot_store_groups.json to begin with: key -> [managed, members: sequence of [raw, store]]
  Cards,          \* the swish database: group key -> the raw ids of its members
  MaxTurns,       \* bound: actor -> the commands it begins
  MaxCommands,    \* bound: the commands begun by all
  MaxCrashes      \* bound: processes that die

Syncs == {"hot", "swish"}
Actors == Syncs \cup {"operator", "bulk", "pipeline"}

\* generate_id: an id nobody has, told by who asks, in which turn and for which of its rows.
NewId(by, turn, place) == <<by, turn, place>>
NewIds == Actors \X Nat \X Nat

\* The rows of the files.
IsStore(s) == s = [id |-> s.id, name |-> s.name, url |-> s.url, domain |-> s.domain, mcc |-> s.mcc, by |-> s.by]
IsGroupMember(m) == m = [raw |-> m.raw, store |-> m.store] /\ m.raw \in DOMAIN Records

\* None is nobody.  The files are finite.  A seeded store has an id of its own,
\* which nothing generates again; the members of a group are names with the store they
\* have, if any; and no entry made by hand has the key of a card (SWISH_GROUP_PREFIX).
ASSUME CatalogueAssumption ==
  /\ None \notin Actors
  /\ \A f \in {Records, Groups, Cards} : IsFiniteSet(DOMAIN f)
  /\ SeedStores \in Seq(Range(SeedStores))
  /\ \A j, k \in DOMAIN SeedStores : SeedStores[j].id = SeedStores[k].id => j = k
  /\ \A k \in DOMAIN SeedStores :
       /\ IsStore(SeedStores[k]) /\ SeedStores[k].by = "seed"
       /\ SeedStores[k].id \notin NewIds \cup {None}
  /\ \A g \in DOMAIN Cards : Cards[g] \in Seq(DOMAIN Records)
  /\ \A g \in DOMAIN Groups :
       /\ Groups[g] = [managed |-> Groups[g].managed, members |-> Groups[g].members]
       /\ Groups[g].managed \in BOOLEAN
       /\ Groups[g].members \in Seq(Range(Groups[g].members))
       /\ \A m \in Range(Groups[g].members) : IsGroupMember(m)
       /\ g \in DOMAIN Cards => Groups[g].managed

VARIABLES
  storage,  \* DEALS_STORAGE
  stores, aliases,  \* the catalogue, in the order of its files
  queue,    \* the review items: [id, raw, best, status, store, by]
  clubs,    \* source -> the stores its club knows
  groups,   \* hot_store_groups.json
  deals,    \* the deals the review has written: <<raw, store>>
  arrived,  \* the records the pipeline has processed
  hand,     \* {the item the operator looks at}, as it was read
  todo,     \* actor -> the writes it has yet to make
  held,     \* actor -> {the file its next write goes into}, as it was read
  begun,    \* actor -> the commands it has begun
  met,      \* whether two commands were under way at once: "syncs" were, or "others"
  crashes

vars == <<storage, stores, aliases, queue, clubs, groups, deals, arrived, hand, todo, held, begun, met, crashes>>
fileVars == <<stores, aliases, queue, clubs, groups, deals>>

Open == {"pending", "skipped"}
StoreIds == {stores[k].id : k \in DOMAIN stores}
StoreOf(id) == stores[CHOOSE k \in DOMAIN stores : stores[k].id = id]
NameOf(item) == Records[item.raw].name
IsMember(r) == Records[r].source = None  \* the raw id names a group and no record
FirstOf(a, b) == IF a # None THEN a ELSE b

Init ==
  /\ storage \in {"json", "mongo"}
  /\ stores = SeedStores /\ aliases = <<>> /\ queue = <<>>
  /\ clubs = [s \in {Records[r].source : r \in DOMAIN Records} \ {None} |-> {}]
  /\ groups = Groups /\ deals = {} /\ arrived = {} /\ hand = {}
  /\ todo = [a \in Actors |-> <<>>] /\ held = [a \in Actors |-> {}]
  /\ begun = [a \in Actors |-> 0] /\ met = {} /\ crashes = 0

\* Some places of a sequence, in order.
InOrder(places, last) ==
  LET upto[n \in Nat] ==
        IF n = 0 THEN <<>> ELSE IF n \in places THEN Append(upto[n - 1], n) ELSE upto[n - 1]
  IN upto[last]

-----------------------------------------------------------------------------
(* A command and its writes.                                               *)

NewItem(id, r, best) == [id |-> id, raw |-> r, best |-> best, status |-> "pending", store |-> None, by |-> None]

SaveStore(row) == [op |-> "store", row |-> row]
NewStore(id, name, mcc, by) ==
  SaveStore([id |-> id, name |-> name, url |-> None, domain |-> None, mcc |-> mcc, by |-> by])
SaveAlias(id, name) == [op |-> "alias", row |-> [store |-> id, form |-> Whole(name)]]
SaveDeal(raw, id) == [op |-> "deal", row |-> <<raw, id>>]
CloseItem(item, status, id, by) ==
  [op |-> "item", row |-> [item EXCEPT !.status = status, !.store = id, !.by = by]]
AddItem(id, r, best) == [op |-> "add", row |-> NewItem(id, r, best)]
JoinClub(source, ids) == [op |-> "club", club |-> source, row |-> ids]
SaveGroups(all) == [op |-> "groups", row |-> all]

\* A command reads the files, and from then on goes by what it has read.
Begin(a, writes) ==
  LET busy == {b \in Actors : todo[b] # <<>>}
  IN /\ todo[a] = <<>> /\ begun[a] < MaxTurns[a] /\ SumFunction(begun) < MaxCommands
     /\ begun' = [begun EXCEPT ![a] = @ + 1]
     /\ todo' = [todo EXCEPT ![a] = writes]
     /\ met' = met \cup {IF {a, b} = Syncs THEN "syncs" ELSE "others" : b \in busy}
     /\ UNCHANGED <<storage, held, crashes>> /\ UNCHANGED fileVars

\* What needs no reading: a document of its own, and the groups, read when the sync began.
Direct(w) == w.op = "groups" \/ (storage = "mongo" /\ w.op \in {"store", "alias", "deal"})

FileOf(w) ==
  CASE w.op = "store" -> stores [] w.op = "alias" -> aliases [] w.op = "deal" -> deals
    [] w.op = "club" -> clubs [] OTHER -> queue

\* save: a row that has the id is replaced, or else there is one row more.
Put(rows, row) ==
  IF \E k \in DOMAIN rows : rows[k].id = row.id
  THEN [k \in DOMAIN rows |-> IF rows[k].id = row.id THEN row ELSE rows[k]]
  ELSE Append(rows, row)

\* update_by_id: nothing is written where the id is not found.
Replaced(rows, row) ==
  IF \E k \in DOMAIN rows : rows[k].id = row.id THEN Put(rows, row) ELSE queue

\* A club is one document, but what it gets goes by what was read of it.
Joined(known, w) == [(IF storage = "mongo" THEN clubs ELSE known) EXCEPT ![w.club] = known[w.club] \cup w.row]

Apply(w, file) ==
  /\ stores' = IF w.op = "store" THEN Put(file, w.row) ELSE stores
  /\ aliases' = IF w.op = "alias" THEN Append(file, w.row) ELSE aliases
  /\ deals' = IF w.op = "deal" THEN file \cup {w.row} ELSE deals
  /\ queue' = CASE w.op = "item" -> Replaced(file, w.row)
                [] w.op = "add" -> Append(file, w.row)
                [] OTHER -> queue
  /\ groups' = IF w.op = "groups" THEN w.row ELSE groups
  /\ clubs' = IF w.op = "club" THEN Joined(file, w) ELSE clubs

Read(a) ==
  /\ todo[a] # <<>> /\ held[a] = {} /\ ~Direct(Head(todo[a]))
  /\ held' = [held EXCEPT ![a] = {FileOf(Head(todo[a]))}]
  /\ UNCHANGED <<storage, arrived, hand, todo, begun, met, crashes>> /\ UNCHANGED fileVars

Write(a) ==
  /\ todo[a] # <<>>
  /\ LET w == Head(todo[a])
     IN \E file \in IF Direct(w) THEN {FileOf(w)} ELSE held[a] : Apply(w, file)
  /\ todo' = [todo EXCEPT ![a] = Tail(@)]
  /\ held' = [held EXCEPT ![a] = {}]
  /\ UNCHANGED <<storage, arrived, hand, begun, met, crashes>>

Crash(a) ==
  /\ todo[a] # <<>> /\ crashes < MaxCrashes
  /\ todo' = [todo EXCEPT ![a] = <<>>]
  /\ held' = [held EXCEPT ![a] = {}]
  /\ crashes' = crashes + 1
  /\ UNCHANGED <<storage, arrived, hand, begun, met>> /\ UNCHANGED fileVars

-----------------------------------------------------------------------------
(* The pipeline: a record is matched, or its name is queued.               *)

\* PersistStage of an automatic match: the store as it was read gets the record's URL if
\* it had none, and the club of the source gets the store.
Matched(r, id) ==
  LET row == StoreOf(id)
  IN (IF id \in StoreIds /\ row.url = None /\ Records[r].url # None
      THEN <<SaveStore([row EXCEPT !.url = Records[r].url])>> ELSE <<>>)
     \o <<JoinClub(Records[r].source, {id})>>

\* A name for review with the best candidate, or with none when the flag asks for these.
Queued(r, best) ==
  IF best # None \/ ReviewNoMatch THEN <<AddItem(NewId("pipeline", begun["pipeline"], 1), r, best)>> ELSE <<>>

Arrive(r) ==
  /\ r \notin arrived /\ ~IsMember(r)
  /\ arrived' = arrived \cup {r}
  /\ LET v == Verdict(Stripped(Records[r].name), Records[r].domain, stores, aliases)
     IN Begin("pipeline", IF v.auto THEN Matched(r, v.store) ELSE Queued(r, v.store))
  /\ UNCHANGED hand

-----------------------------------------------------------------------------
(* The operator.                                                           *)

\* The first pending item; what was skipped is not shown again.
Take ==
  /\ hand = {} /\ todo["operator"] = <<>> /\ begun["operator"] < MaxTurns["operator"]
  /\ \E k \in DOMAIN queue :
       /\ queue[k].status = "pending" /\ \A j \in 1..k - 1 : queue[j].status # "pending"
       /\ hand' = {queue[k]}
  /\ UNCHANGED <<storage, arrived, todo, held, begun, met, crashes>> /\ UNCHANGED fileVars

Decide(writes) ==
  /\ hand' = {}
  /\ Begin("operator", writes)
  /\ UNCHANGED arrived

\* A deal of its own, but for the synthetic items of a group's members.
DealFor(item, id) == IF IsMember(item.raw) THEN <<>> ELSE <<SaveDeal(item.raw, id)>>

\* The item first, and the rest lost if the process dies there.
LinkWrites_itemFirst(item, id) ==
  <<CloseItem(item, "approved", id, "operator"), SaveAlias(id, NameOf(item))>> \o DealFor(item, id)

LinkWrites(item, id) ==
  <<SaveAlias(id, NameOf(item))>> \o DealFor(item, id) \o <<CloseItem(item, "approved", id, "operator")>>

\* approve, of the best candidate; approve_existing, of any store the operator finds.
Approve(item) == item.best # None /\ Decide(LinkWrites(item, item.best))
ApproveExisting(item) == \E id \in StoreIds : Decide(LinkWrites(item, id))

\* create_new, under the name the item came with or another.
CreateNew(item) ==
  LET id == NewId("operator", begun["operator"], 1)
  IN \E name \in {NameOf(item)} \cup TypedNames :
       Decide(<<NewStore(id, name, {}, "operator"), SaveAlias(id, NameOf(item))>> \o DealFor(item, id)
              \o <<CloseItem(item, "created", id, "operator")>>)

Discard(item) == Decide(<<CloseItem(item, "discarded", None, "operator")>>)
Skip(item) == Decide(<<CloseItem(item, "skipped", None, "operator")>>)

Review ==
  \E item \in hand :
    Approve(item) \/ ApproveExisting(item) \/ CreateNew(item) \/ Discard(item) \/ Skip(item)

-----------------------------------------------------------------------------
(* The bulk resolution: plan_resolutions over one reading of the files.    *)

Eligible_any(ids, online) == ids \cap StoreIds

\* The veto: a link only between names that agree on being online.
Eligible(ids, online) == {id \in ids \cap StoreIds : Online(Whole(StoreOf(id).name)) = online}

\* by_domain and by_compact of CatalogueIndex.
ByDomain(d) == {id \in StoreIds : d # None /\ FirstOf(StoreOf(id).url, StoreOf(id).domain) = d}
ByForm(f) == {id \in StoreIds : Whole(StoreOf(id).name) = f} \cup {aliases[k].store : k \in {j \in DOMAIN aliases : aliases[j].form = f}}

Unwrapped(name) ==
  IF name.words # <<>> /\ Head(name.words) \in Wrappers THEN Tail(Whole(name)) ELSE Whole(name)

MerchantUrl(rec) == IF rec.url \in Merchants THEN rec.url ELSE None

\* _brand_behind.
BrandsBehind(name, online) ==
  IF online THEN Eligible(ByForm(Offline(Stripped(name))), FALSE) ELSE {}

\* What becomes of the item at place k of the queue.
Defer(k) == [at |-> k, act |-> "defer", store |-> None, mcc |-> {}]
LinkTo(k, id) == [at |-> k, act |-> "link", store |-> id, mcc |-> {}]
CreateWith(k, mcc) == [at |-> k, act |-> "create", store |-> None, mcc |-> mcc]

\* Links are looked for in this order, each by the only store that has it: the same
\* domain, the whole name, the name without its branch, the name without its wrapper.
Evidence(rec) ==
  <<ByDomain(MerchantUrl(rec)), ByForm(Whole(rec.name)), ByForm(Stripped(rec.name)), ByForm(Unwrapped(rec.name))>>

\* Rules 4 and 5: an online storefront of a known brand, or a business somebody vouches for.
CreateOrDefer(k, rec, online) ==
  LET brands == BrandsBehind(rec.name, online)
  IN IF Range(rec.name.words) \cap VoucherWords # {} THEN Defer(k)
     ELSE IF Cardinality(brands) = 1 THEN CreateWith(k, UNION {StoreOf(b).mcc : b \in brands})
     ELSE IF rec.url \in Merchants \/ rec.category # None THEN CreateWith(k, {rec.category} \cap Categories)
     ELSE Defer(k)

Resolve(k) ==
  LET rec     == Records[queue[k].raw]
      online  == Online(Whole(rec.name))
      v       == Verdict(Stripped(rec.name), rec.url, stores, aliases)
      trusted == v.auto /\ Eligible({v.store}, online) # {}
      unclear == \E f \in {Whole(rec.name), Stripped(rec.name)} : Cardinality(Eligible(ByForm(f), online)) > 1
      only(n) == Eligible(Evidence(rec)[n], online)
      sole    == {n \in 1..4 : Cardinality(only(n)) = 1}
  IN IF trusted THEN IF unclear THEN Defer(k) ELSE LinkTo(k, v.store)
     ELSE IF sole # {} THEN LinkTo(k, CHOOSE id \in only(Min(sole)) : TRUE)
     ELSE CreateOrDefer(k, rec, online)

\* The items it reads, by place in the queue, and what it does about each.
Candidates == {k \in DOMAIN queue : queue[k].status \in Open}
Plan == {Resolve(k) : k \in Candidates}

Creates(plan) == {d \in plan : d.act = "create"}
Links(plan) == {d \in plan : d.act = "link"}

\* A store for every item.
Bearers_own(plan, d) == {d.at}

\* One store for a name, however many items bear it.
Bearers(plan, d) == {e.at : e \in {c \in Creates(plan) : Whole(NameOf(queue[c.at])) = Whole(NameOf(queue[d.at]))}}

\* The first item of every name founds its store.
Founders(plan) == {d \in Creates(plan) : d.at = Min(Bearers(plan, d))}

IdFor(plan, d) == NewId("bulk", begun["bulk"], Min(Bearers(plan, d)))

CreateWrites(plan, d) ==
  LET group == InOrder(Bearers(plan, d), Len(queue)) id == IdFor(plan, d)
  IN <<NewStore(id, NameOf(queue[d.at]), d.mcc, "bulk"), SaveAlias(id, NameOf(queue[d.at]))>>
     \o [n \in DOMAIN group |-> CloseItem(queue[group[n]], "created", id, "bulk")]

BulkLink(d) ==
  <<SaveAlias(d.store, NameOf(queue[d.at])), CloseItem(queue[d.at], "approved", d.store, "bulk")>>

\* The club of an item's source; a member's item has none.
Joins(plan, source) ==
  {IF d.act = "create" THEN IdFor(plan, d) ELSE d.store :
     d \in {e \in plan : e.act # "defer" /\ Records[queue[e.at].raw].source = source}}

\* What is written of some decisions, in the order of their items.
Each(writes) ==
  LET places == InOrder({d.at : d \in DOMAIN writes}, Len(queue))
  IN FlattenSeq([n \in DOMAIN places |-> writes[CHOOSE d \in DOMAIN writes : d.at = places[n]]])

\* apply_resolutions: stores and what they close, then links, and the clubs at the end.
Writes(plan) ==
  LET joined == SetToSeq({s \in DOMAIN clubs : Joins(plan, s) # {}})
  IN Each([d \in Founders(plan) |-> CreateWrites(plan, d)])
     \o Each([d \in Links(plan) |-> BulkLink(d)])
     \o [n \in DOMAIN joined |-> JoinClub(joined[n], Joins(plan, joined[n]))]

BulkResolve == Candidates # {} /\ Begin("bulk", Writes(Plan)) /\ UNCHANGED <<arrived, hand>>

-----------------------------------------------------------------------------
(* The syncs of the store groups.                                          *)

\* The names that wait already, letter by letter.
PendingNames == {Records[queue[k].raw].text : k \in {j \in DOMAIN queue : queue[j].status = "pending"}}

\* _resolve_member, by the whole name: no branch is cut off a member.
MemberVerdict(r) == Verdict(Whole(Records[r].name), None, stores, aliases)
Resolved(r) == [raw |-> r, store |-> IF MemberVerdict(r).auto THEN MemberVerdict(r).store ELSE None]

\* The names without a store, but for those that are pending already.
Unknown(raws) ==
  {n \in DOMAIN raws : ~MemberVerdict(raws[n]).auto /\ Records[raws[n]].text \notin PendingNames}

Unresolved_perCard(raws) == Unknown(raws)

\* Each of them once.
Unresolved(raws) ==
  {n \in Unknown(raws) : \A m \in 1..n - 1 : Records[raws[m]].text # Records[raws[n]].text}

\* The items first, one by one, and the whole file of groups at the end.
Sync(a, raws, all) ==
  LET new == InOrder(Unresolved(raws), Len(raws))
  IN /\ Begin(a, [n \in DOMAIN new |-> AddItem(NewId(a, begun[a], new[n]), raws[new[n]], MemberVerdict(raws[new[n]]).store)]
                 \o <<SaveGroups(all)>>)
     /\ UNCHANGED <<arrived, hand>>

\* sync_hot_groups: the entries of hand, and of these the members without a store.
HandMade == {g \in DOMAIN groups : ~groups[g].managed}
SyncHot ==
  LET members == FlattenSeq([n \in DOMAIN SetToSeq(HandMade) |-> groups[SetToSeq(HandMade)[n]].members])
      unknown == InOrder({n \in DOMAIN members : members[n].store = None}, Len(members))
      renewed(ms) == [n \in DOMAIN ms |-> IF ms[n].store # None THEN ms[n] ELSE Resolved(ms[n].raw)]
  IN Sync("hot", [n \in DOMAIN unknown |-> members[unknown[n]].raw],
          [g \in DOMAIN groups |-> IF g \in HandMade THEN [groups[g] EXCEPT !.members = renewed(@)] ELSE groups[g]])

\* sync_swish_groups: an entry for each card of the database, resolved anew, and the
\* managed entries of cards that are gone removed.
SwishEntry(g) == [managed |-> TRUE, members |-> [n \in DOMAIN Cards[g] |-> Resolved(Cards[g][n])]]
SyncSwish_resetsAll ==
  Sync("swish", FlattenSeq([n \in DOMAIN SetToSeq(DOMAIN Cards) |-> Cards[SetToSeq(DOMAIN Cards)[n]]]),
       [g \in DOMAIN Cards |-> SwishEntry(g)])

SyncSwish ==
  Sync("swish", FlattenSeq([n \in DOMAIN SetToSeq(DOMAIN Cards) |-> Cards[SetToSeq(DOMAIN Cards)[n]]]),
       [g \in HandMade \cup DOMAIN Cards |-> IF g \in DOMAIN Cards THEN SwishEntry(g) ELSE groups[g]])

-----------------------------------------------------------------------------
Next ==
  \/ \E r \in DOMAIN Records : Arrive(r)
  \/ Take \/ Review \/ BulkResolve \/ SyncHot \/ SyncSwish
  \/ \E a \in Actors : Read(a) \/ Write(a) \/ Crash(a)

Spec == Init /\ [][Next]_vars

-----------------------------------------------------------------------------
(* What the catalogue may rely on.  A file that two commands rewrite at once *)
(* may lose a row; what is said of rows in files is said while no two did.   *)

\* No command has been under way while another was.
Alone == met = {}

\* The stores, aliases and deals lose nothing: each is a document, or one command at a
\* time rewrites their files.
Kept == storage = "mongo" \/ Alone

\* A decided name is a taught name: whatever dies, an item closed onto a store leaves the
\* store in the catalogue, its alias beside it and, of the operator's, its deal.
DecidedIsTaught ==
  Kept => \A k \in DOMAIN queue : queue[k].status \in {"approved", "created"} =>
    /\ queue[k].store \in StoreIds
    /\ [store |-> queue[k].store, form |-> Whole(NameOf(queue[k]))] \in Range(aliases)
    /\ queue[k].by = "operator" /\ ~IsMember(queue[k].raw) => <<queue[k].raw, queue[k].store>> \in deals

\* "A link is only ever allowed between two names that agree on the marker, whatever the
\* evidence says": what the bulk resolution decides, by any rule, keeps online apart,
\* whatever the files lose.
OnlineParity ==
  \A k \in DOMAIN queue, j \in DOMAIN stores :
    queue[k].by = "bulk" /\ queue[k].store = stores[j].id =>
      Online(Whole(NameOf(queue[k]))) = Online(Whole(stores[j].name))

\* "One store with three items pointing at it rather than three competing duplicates": the
\* bulk resolution makes a name twice only where the name leads to a store of another
\* name or of another maker as well, also when a run dies halfway and the next one goes
\* over what it left, and when an item it closed is open again.
NamesAreMadeOnce ==
  Kept => \A j, k \in DOMAIN stores :
    /\ j # k /\ stores[j].by = "bulk" /\ stores[k].by = "bulk"
    /\ Whole(stores[j].name) = Whole(stores[k].name)
    => \E id \in ByForm(Whole(stores[k].name)) :
         StoreOf(id).by # "bulk" \/ Whole(StoreOf(id).name) # Whole(stores[k].name)

\* "This prevents the same store name being pushed multiple times when it appears in more
\* than one Swish benefit": of the members of groups no name waits twice, letter by
\* letter, also when a sync died before it wrote the groups.
MembersWaitOnce ==
  Alone => \A j, k \in DOMAIN queue :
    /\ j # k /\ IsMember(queue[j].raw) /\ IsMember(queue[k].raw)
    /\ queue[j].status = "pending" /\ queue[k].status = "pending"
    => Records[queue[j].raw].text # Records[queue[k].raw].text

\* "Approved decisions feed back via the alias learner so the next sync resolves them
\* automatically": a member's item closed onto a store is never queued by a later sync.
DecidedMembersResolve ==
  Kept => \A k \in DOMAIN queue :
    IsMember(queue[k].raw) /\ queue[k].status \in {"approved", "created"} => MemberVerdict(queue[k].raw).auto

\* A decision sticks: it is there for the matcher, and what it settled is not asked again.
DecisionsStick == DecidedIsTaught /\ DecidedMembersResolve

\* "Hand-maintained HOT entries in the same config file are preserved verbatim": no write
\* takes a hand-made entry or a member of one away, nor, unless the two syncs were under
\* way at once, from a member the store it has.
HandEntriesSurvive ==
  [][\A g \in DOMAIN groups : ~groups[g].managed =>
       /\ g \in DOMAIN groups' /\ ~groups'[g].managed
       /\ \A n \in DOMAIN groups[g].members :
            LET m == groups[g].members[n] m2 == groups'[g].members[n]
            IN m2.raw = m.raw /\ (m.store # None /\ "syncs" \notin met => m2.store = m.store)]_vars

\* The alias "teaches the matcher, and the next pipeline run then builds the deal": a
\* record whose name the bulk resolution has settled matches its store by itself.  It
\* does not when the name has a branch: the alias is the whole name, and the matcher
\* is asked for the name without it.
ResolvedNamesMatch ==
  Kept => \A k \in DOMAIN queue : queue[k].by = "bulk" =>
    LET rec == Records[queue[k].raw]
    IN Verdict(Stripped(rec.name), rec.domain, stores, aliases).auto

\* A name the catalogue holds twice is "a mess this cleanup exists to surface rather than
\* cement": the bulk resolution adds no store to those a name has.
NoNameIsMultiplied ==
  \A j \in DOMAIN stores : stores[j].by = "bulk" =>
    \A k \in 1..j - 1 : Whole(stores[k].name) # Whole(stores[j].name)

\* What the code says of names and hand-made entries, without a word on commands that run
\* at once: then a closed item's store, the one item of a name and the store of a
\* hand-made member may be lost.
DecidedInAnyCase ==
  \A k \in DOMAIN queue : queue[k].status \in {"approved", "created"} => queue[k].store \in StoreIds
WaitOnceInAnyCase ==
  \A j, k \in DOMAIN queue :
    /\ j # k /\ IsMember(queue[j].raw) /\ IsMember(queue[k].raw)
    /\ queue[j].status = "pending" /\ queue[k].status = "pending"
    => Records[queue[j].raw].text # Records[queue[k].raw].text
HandStoresInAnyCase ==
  [][\A g \in DOMAIN groups : ~groups[g].managed =>
       \A n \in DOMAIN groups[g].members :
         groups[g].members[n].store # None => groups'[g].members[n] = groups[g].members[n]]_vars
=============================================================================
