------------------------------ MODULE Optimizer ------------------------------
(***************************************************************************)
(* The deal optimizer: which deals of one store a caller should stack on a *)
(* cart, cheapest first.  One request runs in the code's own phases: the   *)
(* caller and the deals are admitted, a sweep over the price-level deals   *)
(* grows the states of the chain one vertex at a time, every state reached *)
(* is finished by splitting what is left of the bill over the payment      *)
(* instruments, and the pooled candidates are ranked and priced again for  *)
(* the answer.                                                             *)
(*                                                                         *)
(* Money is a natural number of small coins and a rate is a percentage;    *)
(* the instances choose both so that every product is whole.               *)
(***************************************************************************)
EXTENDS Integers, Sequences, FiniteSets, SequencesExt, FiniteSetsExt, Functions

CONSTANTS
  Catalog,   \* deal id (a number, in the order of the ids) -> the deal
  Queries,   \* the carts, callers and options that are asked about
  ClubRows,  \* club id -> the source id the clubs collection gives it
  Stripped,  \* club id -> its id without the club_ prefix
  TopN,      \* how many ranked options are returned
  Grain,     \* coins per step of the reference split
  Nil

\* The rungs of a ladder, one above the other.
IsLadder(tiers) ==
  /\ DOMAIN tiers = 1..Len(tiers) /\ Len(tiers) \in Nat
  /\ \A t \in Range(tiers) : {t.from, t.to} \subseteq Nat /\ t.from < t.to /\ t.rate \in 0..100

\* A deal as the projection writes it: active or expired, of one mind about every
\* partner.  Its figures are the source's, and nothing checks them: that a rate is at
\* most all of the price, and a voucher costs at most its face, is assumed.
IsDeal(d) ==
  /\ d.status \in {"active", "expired"} /\ d.accepts \cap d.refuses = {}
  /\ {d.cval, d.rval} \subseteq Nat /\ {d.ceiling, d.perTx, d.perMonth} \subseteq Nat \cup {Nil}
  /\ d.reward = "percentage_off" => d.rval <= 100 /\ IsLadder(d.tiers)
  /\ d.reward = "fixed_total_amount" /\ d.cond = "voucher" => d.rval <= d.cval

ASSUME CatalogAssumption ==
  /\ DOMAIN Catalog \subseteq Nat /\ Nil \notin Nat
  /\ \A i \in DOMAIN Catalog : IsDeal(Catalog[i])

\* The endpoint bounds a request, and always asks for membership of a deal's source.
ASSUME QueriesAssumption ==
  /\ TopN \in Nat
  /\ \A q \in Queries : /\ q.deals \subseteq DOMAIN Catalog /\ IsFiniteSet(q.deals)
                        /\ {q.cart, q.maxDeals} \subseteq Nat /\ q.requireSource

VARIABLES
  req,       \* the request being answered
  stage,     \* "load", "chain", "tender", "done" or "refused"
  kept,      \* ids of the deals that survive the eligibility prune
  queue,     \* the vertices the sweep has not processed yet
  dp,        \* chain state -> cheapest price and the state it came from
  pool,      \* (chain state, tender allocation) candidates
  results,   \* the ranked options as they are reported
  response   \* Nil until there is one

optimizerVars == <<req, stage, kept, queue, dp, pool, results, response>>

Min2(a, b) == IF a < b THEN a ELSE b
Max2(a, b) == IF a > b THEN a ELSE b

-----------------------------------------------------------------------------
(* Deals, compatibility and the graph *)

ChainCategories == {"store_sale", "member_discount", "coupon"}
TenderCategories == {"giftcard_discount", "payment_discount", "cashback"}

LayerOrder == [store_sale |-> 0, member_discount |-> 1, coupon |-> 2,
               giftcard_discount |-> 3, payment_discount |-> 4, cashback |-> 5]

\* What a deal says of a partner's type; a silent deal counts as the request says.
Accepts(a, type) ==
  \/ type \in a.accepts
  \/ type \notin a.refuses /\ req.unknownAsYes

\* The exclusive group of two tiers of one card is not looked at.
MutuallyCompatible_noGroup(i, j) ==
  i = j \/ (Accepts(Catalog[i], Catalog[j].type) /\ Accepts(Catalog[j], Catalog[i].type))

MutuallyCompatible(i, j) ==
  LET a == Catalog[i]  b == Catalog[j] IN
  \/ i = j
  \/ /\ a.group = Nil \/ a.group # b.group
     /\ Accepts(a, b.type) /\ Accepts(b, a.type)

\* A deal usable n times in one transaction is n vertices.
BuildVertices(ids) ==
  LET copies(i) == IF Catalog[i].perTx = Nil THEN 1 ELSE Max2(1, Catalog[i].perTx)
  IN UNION {{[deal |-> i, copy |-> c] : c \in 1..copies(i)} : i \in ids}

Before(u, v) ==
  LET lu == LayerOrder[Catalog[u.deal].type]  lv == LayerOrder[Catalog[v.deal].type] IN
  \/ lu < lv
  \/ lu = lv /\ u.deal < v.deal
  \/ u.deal = v.deal /\ u.copy < v.copy

DirectedEdgeAllowed(u, v) ==
  IF u.deal = v.deal
  THEN v.copy = u.copy + 1
  ELSE /\ LayerOrder[Catalog[u.deal].type] <= LayerOrder[Catalog[v.deal].type]
       /\ LayerOrder[Catalog[u.deal].type] = LayerOrder[Catalog[v.deal].type] => u.deal < v.deal
       /\ MutuallyCompatible(u.deal, v.deal)

-----------------------------------------------------------------------------
(* Eligibility and the price transform *)

\* The sources of the caller's clubs: the collection's word first, the id's own as a fallback.
ClubSourceIds(clubs) ==
  {IF c \in DOMAIN ClubRows /\ ClubRows[c] # Nil THEN ClubRows[c] ELSE Stripped[c] : c \in clubs}

\* Redeemable at the store, itself or through a group, and not expired.
OnOffer(d) == (d.store = req.store \/ req.store \in d.members) /\ d.status # "expired"

\* The endpoint always requires the caller to belong to the deal's source.
Eligible(d) ==
  /\ req.requireSource \/ d.member \/ d.payMethod
       => d.source = Nil \/ d.source \in ClubSourceIds(req.clubs)
  /\ req.preferred # {} => ~(req.preferred \subseteq d.excludes)
  /\ d.perMonth # Nil => req.used[d.id] < d.perMonth

ConditionMet(d, price) ==
  /\ d.cond \in {"min_spend", "voucher"} => price >= d.cval
  /\ d.cond = "min_quantity" => req.quantity >= d.cval

LadderSavings(d, price) ==
  SumFunction([k \in DOMAIN d.tiers |->
    (Max2(0, Min2(price, d.tiers[k].to) - d.tiers[k].from) * d.tiers[k].rate) \div 100])

RawSavings(d, price) ==
  CASE d.reward = "fixed_discount_amount" -> d.rval
    [] d.reward = "fixed_total_amount" -> IF d.cond = "voucher" THEN d.cval - d.rval ELSE 0
    [] d.reward = "percentage_off" ->
         IF d.tiers # <<>> THEN LadderSavings(d, price)
         ELSE ((IF d.cond = "voucher" THEN d.cval ELSE price) * d.rval) \div 100
    [] OTHER -> 0

ApplyDeal(price, d) ==
  LET capped == IF d.ceiling = Nil THEN RawSavings(d, price)
                ELSE Min2(RawSavings(d, price), d.ceiling)
  IN IF ConditionMet(d, price) THEN Max2(0, price - Min2(capped, price)) ELSE Nil

-----------------------------------------------------------------------------
(* The chain sweep *)

Start == [last |-> Nil, applied |-> {}]

\* Nothing applied, at the full price.
Unchained(price) == [s \in {Start} |-> [price |-> price, prev |-> Nil]]

\* One vertex against every state there is: the states it extends, and the
\* cheapest way into each new one.
Extend(v) ==
  LET from == {s \in DOMAIN dp :
                 /\ v \notin s.applied
                 /\ Cardinality(s.applied) < req.maxDeals
                 /\ s # Start => DirectedEdgeAllowed(s.last, v)
                 /\ \A u \in s.applied : MutuallyCompatible(u.deal, v.deal)
                 /\ ApplyDeal(dp[s].price, Catalog[v.deal]) # Nil}
      into(s) == [last |-> v, applied |-> s.applied \cup {v}]
      cheapest(n) == CHOOSE s \in from : /\ into(s) = n
                                         /\ \A r \in from : into(r) = n => dp[s].price <= dp[r].price
      grown == [n \in {into(s) : s \in from} |->
                  [price |-> ApplyDeal(dp[cheapest(n)].price, Catalog[v.deal]), prev |-> cheapest(n)]]
  IN [s \in DOMAIN dp \cup DOMAIN grown |->
        IF s \in DOMAIN dp /\ (s \notin DOMAIN grown \/ dp[s].price <= grown[s].price)
        THEN dp[s] ELSE grown[s]]

\* The states behind one, each the one it was grown from, back to the start.
Walk(state) ==
  LET back[n \in 0..Cardinality(state.applied)] ==
        IF n = 0 THEN state ELSE dp[back[n-1]].prev
  IN back

ReconstructChainPath(state) ==
  LET length == Cardinality(state.applied)
  IN [n \in 1..length |-> Walk(state)[length - n].last]

-----------------------------------------------------------------------------
(* The tender allocation *)

MaxUnits(d) == IF d.perTx # Nil THEN d.perTx ELSE IF d.perMonth # Nil THEN d.perMonth ELSE 1

IsVoucher(d) == d.reward = "fixed_total_amount" /\ d.cond = "voucher"
IsRate(d) == d.reward = "percentage_off"

\* The rungs of a rate deal: how much of the bill each covers (Nil: any amount) and its rate.
Segments(d) ==
  IF d.tiers # <<>>
  THEN [k \in 1..Len(d.tiers) |->
          [rate |-> d.tiers[k].rate, cap |-> (d.tiers[k].to - d.tiers[k].from) * MaxUnits(d)]]
  ELSE <<[rate |-> d.rval,
          cap |-> IF d.ceiling = Nil \/ d.rval = 0 THEN Nil
                  ELSE ((d.ceiling * 100) \div d.rval) * MaxUnits(d)]>>

\* The fill takes the first card that is not full, not the best rate.
FillOnce_firstCard(st, options) ==
  LET open == {i \in options : st.cursor[i] <= Len(Segments(Catalog[i]))}
      best == Min(open)
      rung == Segments(Catalog[best])[st.cursor[best]]
      amount == IF rung.cap = Nil THEN st.remaining ELSE Min2(st.remaining, rung.cap)
  IN IF st.remaining = 0 \/ open = {} THEN st
     ELSE [remaining |-> st.remaining - amount,
           cursor |-> [st.cursor EXCEPT ![best] = @ + 1],
           covered |-> [st.covered EXCEPT ![best] = @ + amount],
           saved |-> [st.saved EXCEPT ![best] = @ + (amount * rung.rate) \div 100]]

\* One pass of the fill: the open rung with the best rate takes all it can.
FillOnce(st, options) ==
  LET open == {i \in options : /\ st.cursor[i] <= Len(Segments(Catalog[i]))
                               /\ Segments(Catalog[i])[st.cursor[i]].rate > 0}
      rung(i) == Segments(Catalog[i])[st.cursor[i]]
      best == CHOOSE i \in open : \A j \in open :
                 rung(i).rate > rung(j).rate \/ (rung(i).rate = rung(j).rate /\ i <= j)
      amount == IF rung(best).cap = Nil THEN st.remaining ELSE Min2(st.remaining, rung(best).cap)
  IN IF st.remaining = 0 \/ open = {} THEN st
     ELSE [remaining |-> st.remaining - amount,
           cursor |-> [st.cursor EXCEPT ![best] = @ + 1],
           covered |-> [st.covered EXCEPT ![best] = @ + amount],
           saved |-> [st.saved EXCEPT ![best] = @ + (amount * rung(best).rate) \div 100]]

GreedyFill(bill, options) ==
  LET zero == [i \in options |-> 0]
      untouched == [remaining |-> bill, cursor |-> [i \in options |-> 1], covered |-> zero, saved |-> zero]
      passes == SumFunction([i \in options |-> Len(Segments(Catalog[i]))])
      run[n \in 0..passes] == IF n = 0 THEN untouched ELSE FillOnce(run[n-1], options)
  IN run[passes]

HasConflict(ids) == \E i, j \in ids : ~MutuallyCompatible(i, j)

\* Vouchers are redeemed in whole units, the rest of the bill is filled.
Allocation(price, units, rates) ==
  LET chosen == {v \in DOMAIN units : units[v] > 0}
      face == SumFunction([v \in chosen |-> Catalog[v].cval * units[v]])
      fill == GreedyFill(price - face, rates)
      filled == {r \in rates : fill.covered[r] > 0}
      covered == [i \in chosen \cup filled |->
                    IF i \in chosen THEN Catalog[i].cval * units[i] ELSE fill.covered[i]]
      saved == [i \in chosen \cup filled |->
                  IF i \in chosen THEN (Catalog[i].cval - Catalog[i].rval) * units[i] ELSE fill.saved[i]]
  IN [covered |-> covered, saved |-> saved, total |-> SumFunction(saved)]

\* Every distinct feasible split of the price over the instruments.
EnumerateAllocations(price, ids, budget) ==
  LET usable == {i \in ids : ConditionMet(Catalog[i], price)}
      vouchers == {i \in usable : IsVoucher(Catalog[i])}
      rateSets == {R \in SUBSET {i \in usable : IsRate(Catalog[i])} :
                     Cardinality(R) <= budget /\ ~HasConflict(R)}
      maxUnits == Max({0} \cup {MaxUnits(Catalog[v]) : v \in vouchers})
      counts(R) ==
        {u \in [{v \in vouchers : \A r \in R : MutuallyCompatible(v, r)} -> 0..maxUnits] :
           LET chosen == {v \in DOMAIN u : u[v] > 0} IN
           /\ \A v \in chosen : u[v] <= MaxUnits(Catalog[v])
           /\ Cardinality(R) + Cardinality(chosen) <= budget
           /\ ~HasConflict(chosen)
           /\ SumFunction([v \in chosen |-> Catalog[v].cval * u[v]]) <= price}
  IN UNION {{Allocation(price, u, R) : u \in counts(R)} : R \in rateSets}

\* The first k of S, cheapest first; the code leaves ties in the order it found them.
AddCheapest(taken, S, cost) ==
  LET rest == S \ Range(taken)
  IN IF rest = {} THEN taken
     ELSE Append(taken, CHOOSE x \in rest : \A y \in rest : cost[x] <= cost[y])

FirstBy(S, k, cost) ==
  LET take[n \in 0..k] == IF n = 0 THEN <<>> ELSE AddCheapest(take[n-1], S, cost)
  IN take[k]

SavingMost(splits) == Range(FirstBy(splits, TopN, [a \in splits |-> -a.total]))

AllocateTenderTopK(price, ids, budget) == SavingMost(EnumerateAllocations(price, ids, budget))

-----------------------------------------------------------------------------
(* The phases of one request *)

OptimizerInit ==
  /\ req \in Queries
  /\ stage = "load"
  /\ kept = {} /\ queue = {} /\ dp = Unchained(0)
  /\ pool = {} /\ results = <<>> /\ response = Nil

\* The caller must be a known user; the store's deals on offer are pruned to those
\* the caller may use.
Admit ==
  /\ stage = "load"
  /\ IF req.clubs = Nil
     THEN stage' = "refused" /\ UNCHANGED <<kept, queue, dp>>
     ELSE /\ stage' = "chain"
          /\ kept' = {i \in req.deals : OnOffer(Catalog[i]) /\ Eligible(Catalog[i])}
          /\ queue' = BuildVertices({i \in kept' : Catalog[i].type \in ChainCategories})
          /\ dp' = Unchained(req.cart)
  /\ UNCHANGED <<req, pool, results, response>>

\* The vertices are swept in layer order.
Sweep ==
  /\ stage = "chain"
  /\ \E v \in queue : /\ \A u \in queue \ {v} : Before(v, u)
                      /\ dp' = Extend(v)
                      /\ queue' = queue \ {v}
  /\ UNCHANGED <<req, stage, kept, pool, results, response>>

\* Every distinct set of chain deals, at its cheapest, finished by its best splits.
Allocate ==
  /\ stage = "chain" /\ queue = {}
  /\ stage' = "tender"
  /\ LET tenders == {i \in kept : Catalog[i].type \in TenderCategories}
         best == {s \in DOMAIN dp : \A t \in DOMAIN dp : t.applied = s.applied => dp[s].price <= dp[t].price}
         eligible(s) == {i \in tenders : \A u \in s.applied : MutuallyCompatible(u.deal, i)}
         budget(s) == Max2(0, req.maxDeals - Cardinality(s.applied))
     IN pool' = UNION {{[price |-> dp[s].price - a.total, state |-> s, tender |-> a] :
                          a \in AllocateTenderTopK(dp[s].price, eligible(s), budget(s))} : s \in best}
  /\ UNCHANGED <<req, kept, queue, dp, results, response>>

\* Candidates with the same price and the same deals are one outcome.
DedupKey(c) == [price |-> c.price, chain |-> c.state.applied, tender |-> DOMAIN c.tender.covered]

Node(i, covered, saved) == [deal |-> i, covered |-> covered, saved |-> saved]

\* The chain in its order, then the instruments, the one that saves most first.
Path(c) ==
  LET chain == ReconstructChainPath(c.state)
      used == DOMAIN c.tender.covered
      tender == FirstBy(used, Cardinality(used), [i \in used |-> -c.tender.saved[i]])
  IN [n \in DOMAIN chain |-> Node(chain[n].deal, Nil, Nil)]
       \o [n \in DOMAIN tender |-> Node(tender[n], c.tender.covered[tender[n]], c.tender.saved[tender[n]])]

\* The answer prices the path again, step by step, from the cart's own total.
StepPrice(price, node) ==
  IF node.covered # Nil THEN Max2(0, price - Min2(node.saved, price))
  ELSE LET out == ApplyDeal(price, Catalog[node.deal]) IN IF out = Nil THEN price ELSE out

Bills(path) ==
  LET bill[n \in 0..Len(path)] == IF n = 0 THEN req.cart ELSE StepPrice(bill[n-1], path[n])
  IN bill

BuildResult(c) ==
  [path |-> Path(c), ranked |-> c.price,
   bills |-> [n \in 1..(Len(Path(c)) + 1) |-> Bills(Path(c))[n-1]]]

\* optimize: the ranked paths, each priced as the client will see it.
Results(ranked) == [i \in 1..Len(ranked) |-> BuildResult(ranked[i])]

Rank ==
  /\ stage = "tender"
  /\ stage' = "done"
  /\ LET outcomes == {CHOOSE c \in pool : DedupKey(c) = k : k \in {DedupKey(c) : c \in pool}}
         ranked == FirstBy(outcomes, TopN, [c \in outcomes |-> c.price])
     IN results' = Results(ranked)
  /\ UNCHANGED <<req, kept, queue, dp, pool, response>>

\* build_export_payload names each deal of a path by its id.
Slim(r) == [deals |-> [n \in 1..Len(r.path) |-> r.path[n].deal], price |-> Last(r.bills)]

\* Applying nothing is a path of the engine and not an option to offer.
Respond ==
  /\ stage = "done" /\ response = Nil
  /\ LET offered == SelectSeq(results, LAMBDA r : r.path # <<>>)
     IN response' = [k \in 1..Len(offered) |-> Slim(offered[k])]
  /\ UNCHANGED <<req, stage, kept, queue, dp, pool, results>>

OptimizerNext == Admit \/ Sweep \/ Allocate \/ Rank \/ Respond

OptimizerSpec == OptimizerInit /\ [][OptimizerNext]_optimizerVars

-----------------------------------------------------------------------------
(* What the optimizer promises *)

\* The sets of chain vertices a shopper may use together, in layer order.
LegalChains ==
  LET vertices == BuildVertices({i \in kept : Catalog[i].type \in ChainCategories}) IN
  {A \in SUBSET vertices :
     /\ Cardinality(A) <= req.maxDeals
     /\ \A u, v \in A : MutuallyCompatible(u.deal, v.deal)
     /\ \A u, v \in A : u.deal = v.deal => \A c \in u.copy..v.copy : [u EXCEPT !.copy = c] \in A}

ChainPrice(A) ==
  FoldLeft(LAMBDA price, v : IF price = Nil THEN Nil ELSE ApplyDeal(price, Catalog[v.deal]),
           req.cart, SetToSortSeq(A, Before))

\* What x coins routed through instrument i save, without any search.
Saves(i, x) ==
  LET d == Catalog[i]  n == MaxUnits(d) IN
  IF IsVoucher(d) THEN Min2(x \div d.cval, n) * (d.cval - d.rval)
  ELSE IF d.tiers # <<>>
  THEN FoldSeq(LAMBDA t, sum : sum + (Max2(0, Min2(x, t.to * n) - t.from * n) * t.rate) \div 100, 0, d.tiers)
  ELSE IF d.ceiling = Nil THEN (x * d.rval) \div 100 ELSE Min2((x * d.rval) \div 100, d.ceiling * n)

\* The most any split of the bill over the instruments saves, every coin paid once.
BestSplit(instruments, bill) ==
  LET add(i, table) == [r \in 0..(bill \div Grain) |->
                          Max({table[r - x] + Saves(i, x * Grain) : x \in 0..r})]
  IN FoldSet(add, [r \in 0..(bill \div Grain) |-> 0], instruments)[bill \div Grain]

Optimum ==
  LET tenders == {i \in kept : Catalog[i].type \in TenderCategories}
      priced == {[chain |-> A, price |-> ChainPrice(A)] : A \in LegalChains}
      withTender(p) ==
        {T \in SUBSET {i \in tenders : /\ IsVoucher(Catalog[i]) \/ IsRate(Catalog[i])
                                      /\ ConditionMet(Catalog[i], p.price)
                                      /\ \A u \in p.chain : MutuallyCompatible(u.deal, i)} :
           Cardinality(T) + Cardinality(p.chain) <= req.maxDeals /\ ~HasConflict(T)}
  IN Min(UNION {{p.price - BestSplit(T, p.price) : T \in withTender(p)} :
                  p \in {q \in priced : q.price # Nil}})

\* The first option is the cheapest there is: no legal chain of price-level deals and
\* no other way of splitting the rest of the bill, coin by coin, over compatible
\* instruments within the deal budget ends lower.  The sweep and the greedy fill
\* with its voucher enumeration never look at most of those plans.
FirstOptionIsOptimal == stage = "done" => results[1].ranked = Optimum

\* An option can be carried out: its deals are pairwise compatible (no two tiers of
\* one card), usable by the caller, within the budget over both phases, and no coin
\* of the bill is paid through two instruments.
OptionsAreExecutable ==
  \A k \in 1..Len(results) :
    LET path == results[k].path
        tender == {n \in 1..Len(path) : path[n].covered # Nil}
    IN /\ Len(path) <= req.maxDeals
       /\ \A m, n \in 1..Len(path) :
            LET i == path[m].deal  j == path[n].deal IN
            i # j => /\ Catalog[j].type \notin Catalog[i].refuses
                     /\ Catalog[i].group = Nil \/ Catalog[i].group # Catalog[j].group
       /\ \A n \in 1..Len(path) : Catalog[path[n].deal].status = "active"
                                /\ Catalog[path[n].deal].source \in {Nil} \cup ClubSourceIds(req.clubs)
       /\ tender # {} => SumFunction([n \in tender |-> path[n].covered]) <= results[k].bills[Min(tender)]

\* Pricing the path again, deal by deal, ends at the price it was ranked by, never
\* raises the bill on the way, and the options come cheapest first.
ReportedPriceIsRankedPrice ==
  \A k \in 1..Len(results) :
    LET bills == results[k].bills IN
    /\ bills[Len(bills)] = results[k].ranked
    /\ \A n \in 1..(Len(bills) - 1) : bills[n + 1] <= bills[n]
    /\ k > 1 => results[k - 1].ranked <= results[k].ranked

\* An option is what it claims to be: it can be carried out, and costs what it says.
OptionsAreSound == OptionsAreExecutable /\ ReportedPriceIsRankedPrice

\* The options are distinct ways to pay (the docstring of find_top_paths: "distinct
\* legal combinations"): no two use the same deals for the same shares of the bill.
OptionsAreDistinct ==
  \A j, k \in 1..Len(results) : j < k => results[j].path # results[k].path

=============================================================================
