------------------------------ MODULE Insights ------------------------------
(***************************************************************************)
(* What the personalization service says of a list of card transactions:   *)
(* how TransactionAmountService reads the money off a row, and the answers *)
(* InsightsService adds up from those readings.  The list is fetched row   *)
(* by row and answered once.                                               *)
(*                                                                         *)
(* Amounts are integers, negative for money that left the account.  What   *)
(* the matching of merchant names found for a row comes with it: a set of  *)
(* shops, each with the band of the match and whether one of the user's    *)
(* clubs carries it.  Orders and names of presentation are left out.       *)
(***************************************************************************)
EXTENDS Integers, Sequences, FiniteSetsExt

CONSTANTS
  Rows,             \* Rows[n]: the rows the feed may hold at place n
  MaxInstallments,  \* SAVINGS.MAX_INSTALLMENTS
  RatioGrain,       \* one over SAVINGS.INSTALLMENT_RATIO_TOLERANCE: 200 for 0.005
  MaxShops,         \* SHOP_MATCH.MAX_SHOPS
  TopCategories, TopAccounts, TopStores,   \* LIMITS: the lines a list is cut to
  Days,             \* the length of a period
  Absent

ASSUME InsightsAssumption ==
  /\ {MaxInstallments, RatioGrain, MaxShops, TopCategories, TopAccounts, TopStores, Days}
       \subseteq Nat \ {0}
  /\ Absent \notin Int /\ Absent \notin STRING

\* A row of the feed, tied to an account of the user.
IsRow(t) ==
  /\ {t.charged, t.original} \subseteq Int \cup {Absent}
  /\ t.currency \in {"same", "other", "unknown"}
  /\ {t.booked, t.plan, t.duplicate, t.id} \subseteq BOOLEAN
  /\ {t.left, t.discount} \subseteq Int
  /\ t.account # Absent /\ t.merchant \in Nat
  /\ t.ago \in Nat \cup {Absent}
  /\ \A s \in t.shops : s.band \in {"EXACT", "STRONG", "SIMILAR", "WEAK"} /\ s.mine \in BOOLEAN

ASSUME RowsAssumption ==
  /\ DOMAIN Rows = 1..Len(Rows) /\ Len(Rows) \in Nat
  /\ \A n \in DOMAIN Rows : \A t \in Rows[n] : IsRow(t)

VARIABLES
  rows,     \* the rows fetched so far
  answer    \* the answers given, or Absent

insightsVars == <<rows, answer>>

Abs(n) == IF n < 0 THEN -n ELSE n

-----------------------------------------------------------------------------
(* TransactionAmountService: reading one row.                              *)

Moved(amount) == amount # Absent /\ amount # 0

\* The sign of the charge, or of the original where there is no charge.
Direction(t) ==
  LET amount == IF Moved(t.charged) THEN t.charged ELSE t.original
  IN  IF ~Moved(amount) THEN "unknown" ELSE IF amount < 0 THEN "outflow" ELSE "inflow"

\* Settled, never billed, and still a purchase: a loaded club card paid.
IsCoupon(t) ==
  t.booked /\ ~Moved(t.charged) /\ Moved(t.original) /\ t.original < 0

\* The currency of a charge that is not there at all is unknown.
IsForeign(t) == t.currency = "other"

IsInstallment_exact(t) ==
  \/ t.plan
  \/ /\ Moved(t.charged) /\ t.original # Absent /\ t.currency = "same"
     /\ \E payments \in 2..MaxInstallments : Abs(t.original) = payments * Abs(t.charged)

\* The flag, or a price within the tolerance of a whole number of charges (a plan is
\* rounded to the cent): abs(ratio - payments) <= 1 / RatioGrain.
IsInstallment(t) ==
  \/ t.plan
  \/ /\ Moved(t.charged) /\ t.original # Absent /\ t.currency = "same"
     /\ \E payments \in 2..MaxInstallments :
          RatioGrain * Abs(Abs(t.original) - payments * Abs(t.charged)) <= Abs(t.charged)

IsStatement(t) ==
  Moved(t.charged) /\ t.original # Absent /\ Abs(t.original) > Abs(t.charged)

Traits(t) ==
  {"ordinary"} \cup
  {k \in {"duplicate", "refund", "coupon", "foreign", "installment", "statement"} :
     CASE k = "duplicate"   -> t.duplicate
       [] k = "refund"      -> Direction(t) = "inflow"
       [] k = "coupon"      -> IsCoupon(t)
       [] k = "foreign"     -> IsForeign(t)
       [] k = "installment" -> IsInstallment(t)
       [] k = "statement"   -> IsStatement(t)}

Ranking_statementFirst ==
  <<"duplicate", "refund", "coupon", "foreign", "statement", "installment", "ordinary">>

\* Ranked rather than combined: a row counts as the first of these it shows.
Ranking == <<"duplicate", "refund", "coupon", "foreign", "installment", "statement", "ordinary">>

DetailedKind(t) ==
  Ranking[Min({i \in DOMAIN Ranking : Ranking[i] \in Traits(t)})]

Kind(t) ==
  IF DetailedKind(t) \in {"ordinary", "foreign", "installment"} THEN "regular" ELSE DetailedKind(t)

\* The charge, or the merchant's figure where billing is still to come and the two
\* are known to be the same money.
Billed(t) ==
  IF t.charged # Absent THEN Abs(t.charged)
  ELSE IF t.original = Absent \/ t.plan \/ t.currency # "same" THEN 0
  ELSE Abs(t.original)

Paid(t) == IF Kind(t) \in {"regular", "statement"} THEN Billed(t) ELSE 0

Returned(t) ==
  IF Kind(t) # "refund" THEN 0
  ELSE IF t.charged # Absent THEN Abs(t.charged)
  ELSE IF t.original # Absent THEN Abs(t.original) ELSE 0

Saved(t) ==
  CASE Kind(t) = "coupon"    -> Abs(t.original)
    [] Kind(t) = "statement" -> Abs(t.original) - Abs(t.charged)
    [] OTHER                 -> 0

Value(t) == IF Kind(t) = "coupon" THEN Abs(t.original) ELSE Paid(t) - Returned(t)

SpendOf(t) == Paid(t) - Returned(t)

\* The readings of a row that an answer adds up, by name.
Reading(reading, t) ==
  CASE reading = "paid"     -> Paid(t)
    [] reading = "returned" -> Returned(t)
    [] reading = "saved"    -> Saved(t)
    [] reading = "value"    -> Value(t)
    [] reading = "spend"    -> SpendOf(t)

IsPurchase(t) == ~t.duplicate /\ Direction(t) = "outflow"

-----------------------------------------------------------------------------
(* InsightsService: the answers.                                           *)

All == DOMAIN rows
Countable == {i \in All : ~rows[i].duplicate}
\* The purchases the feed gave an id: the savings answer looks at no others.
Purchases == {i \in All : IsPurchase(rows[i]) /\ rows[i].id}

\* A column of figures added up, and a reading over some of the rows.
Column(f) == MapThenSumSet(LAMBDA v : f[v], DOMAIN f)
SumOf(reading, S) == Column([i \in S |-> Reading(reading, rows[i])])

\* One pile per value of a field, and a reading added up over each.
PerPile(field, reading, S) ==
  [v \in {rows[i][field] : i \in S} |-> SumOf(reading, {i \in S : rows[i][field] = v})]

\* The values of a field, and the piles under them that a list shows: those of most
\* purchases and then of most money, ties settled as they may.
Values(field, S) == {rows[i][field] : i \in S}
Leading(limit, field, S) ==
  LET values == Values(field, S)
      amount == PerPile(field, "value", S)
      count(v) == Cardinality({i \in S : rows[i][field] = v /\ IsPurchase(rows[i])})
      Outranks(v, w) == count(v) > count(w) \/ (count(v) = count(w) /\ amount[v] > amount[w])
      shown == IF Cardinality(values) <= limit THEN values
               ELSE CHOOSE T \in kSubset(limit, values) :
                      \A v \in T : \A w \in values \ T : ~Outranks(w, v)
  IN  [v \in shown |-> amount[v]]

\* spend_breakdown and savings_breakdown: by the four kinds.
OfKind(kind, reading, S) == SumOf(reading, {i \in S : Kind(rows[i]) = kind})
SpendBreakdown ==
  [regular   |-> OfKind("regular", "paid", Countable),
   statement |-> OfKind("statement", "paid", Countable),
   refund    |-> OfKind("refund", "returned", Countable)]
SavingsBreakdown ==
  [coupon    |-> OfKind("coupon", "saved", Countable),
   statement |-> OfKind("statement", "saved", Countable)]

MixRow_couponCosts(kind) ==
  LET S == {i \in Countable : DetailedKind(rows[i]) = kind}
  IN  CASE kind = "refund" -> [count |-> Cardinality(S), contributes |-> -SumOf("returned", S)]
        [] kind = "coupon" -> [count |-> Cardinality(S), contributes |-> SumOf("saved", S)]
        [] OTHER           -> [count |-> Cardinality(S), contributes |-> SumOf("paid", S)]

\* mix: by the six shapes, each with the sign it enters the spend with.
MixRow(kind) ==
  LET S == {i \in Countable : DetailedKind(rows[i]) = kind}
  IN  CASE kind = "refund" -> [count |-> Cardinality(S), contributes |-> -SumOf("returned", S)]
        [] kind = "coupon" -> [count |-> Cardinality(S), contributes |-> 0]
        [] OTHER           -> [count |-> Cardinality(S), contributes |-> SumOf("paid", S)]

Mix == [kind \in {DetailedKind(rows[i]) : i \in Countable} |-> MixRow(kind)]

\* The recent stretch and the one before; rows without a date are in neither.
Dated == {i \in Countable : rows[i].ago # Absent}
Difference ==
  [current  |-> SumOf("spend", {i \in Dated : rows[i].ago <= Days}),
   previous |-> SumOf("spend", {i \in Dated : rows[i].ago > Days})]

\* One pile per day of the week, counted back from today's: all seven, spent on or not.
ByDay == [day \in 0..6 |-> SumOf("value", {i \in Dated : rows[i].ago % 7 = day})]

\* The deal-running shops a purchase could have earned a coupon at: matched well
\* enough to show, and carried by a club of the user.
Bands == <<"EXACT", "STRONG", "SIMILAR">>
Shops(t) == {s \in t.shops : s.band # "WEAK" /\ s.mine}

\* The purchases that are no coupon and could have been one, and those under a band:
\* each under its strongest match only.
Missed == {i \in Purchases : Kind(rows[i]) # "coupon" /\ Shops(rows[i]) # {}}
Best(t) == Bands[Min({b \in DOMAIN Bands : \E s \in Shops(t) : s.band = Bands[b]})]
UnderBand(band) == {i \in Missed : Best(rows[i]) = band}

\* The discounts that landed.
Applied == {i \in Purchases : Saved(rows[i]) > 0}

\* The merchants of some purchases, biggest first, as many as are shown.
Merchants(S, reading) ==
  LET amount == PerPile("merchant", reading, S)
      Before(m, n) == amount[m] > amount[n] \/ (amount[m] = amount[n] /\ m < n)
      shown == {n \in DOMAIN amount : Cardinality({m \in DOMAIN amount : Before(m, n)}) < MaxShops}
  IN  [n \in shown |-> [amount    |-> amount[n],
                        purchases |-> {i \in S : rows[i].merchant = n}]]

\* A subtotal is added up from the merchants returned.
BandTotals(merchants) ==
  [amount    |-> Column([n \in DOMAIN merchants |-> merchants[n].amount]),
   purchases |-> Column([n \in DOMAIN merchants |-> Cardinality(merchants[n].purchases)])]

MissedByBand == [b \in DOMAIN Bands |-> BandTotals(Merchants(UnderBand(Bands[b]), "paid"))]

-----------------------------------------------------------------------------
InsightsInit == rows = <<>> /\ answer = Absent

\* The client and the service hand on what the feed holds, a row at a time.
Fetch ==
  /\ answer = Absent /\ Len(rows) < Len(Rows)
  /\ \E t \in Rows[Len(rows) + 1] : rows' = Append(rows, t)
  /\ UNCHANGED answer

Answer ==
  /\ answer = Absent
  /\ answer' =
       [spend      |-> SumOf("spend", Countable),
        breakdown  |-> SpendBreakdown,
        mix        |-> Mix,
        saved      |-> SumOf("saved", Countable),
        savedFrom  |-> SavingsBreakdown,
        savedBy    |-> PerPile("account", "saved", {i \in All : rows[i].account # Absent}),
        categories |-> Leading(TopCategories, "category", Countable),
        accounts   |-> Leading(TopAccounts, "account", Countable),
        stores     |-> Leading(TopStores, "merchant", Countable),
        byDay      |-> ByDay,
        difference |-> Difference,
        missed     |-> MissedByBand,
        applied    |-> BandTotals(Merchants(Applied, "saved"))]
  /\ UNCHANGED rows

InsightsNext == Fetch \/ Answer

InsightsSpec == InsightsInit /\ [][InsightsNext]_insightsVars

-----------------------------------------------------------------------------
(* Properties.                                                             *)

Went(amount) == amount # Absent /\ amount < 0
Came(amount) == amount # Absent /\ amount > 0
NearlyWholeTimes(t) ==
  \E payments \in 2..MaxInstallments :
    RatioGrain * Abs(t.original - payments * t.charged) <= -t.charged

\* A row also tells what really happened, which the code never reads: the money that
\* left the account for it, negative when it came back, and the discount it carries.
\* These are the ways the provider reports it that the tests and comments of
\* TransactionAmountService describe; a discount that brings the price within the tolerance
\* of a whole number of charges looks like a plan, and is none of them ("deliberate").
TellsWhatHappened(t) ==
  LET told(left, discount) == t.left = left /\ t.discount = discount
      same == t.currency = "same"
  IN \/ t.duplicate /\ told(0, 0)
     \/ /\ ~t.duplicate
        /\ \/ /\ t.charged # Absent /\ t.charged <= 0 /\ t.original = t.charged   \* billed as asked
              /\ same /\ told(-t.charged, 0)
           \/ /\ t.charged = Absent /\ Went(t.original) /\ ~t.booked              \* still to be billed
              /\ same /\ ~t.plan /\ told(-t.original, 0)
           \/ /\ Went(t.charged) /\ Went(t.original) /\ same                    \* a payment of a plan
              /\ (t.plan \/ NearlyWholeTimes(t)) /\ told(-t.charged, 0)
           \/ /\ t.charged = Absent /\ Went(t.original) /\ ~t.booked              \* a payment or a rate to come
              /\ (t.plan \/ ~same) /\ told(0, 0)
           \/ Went(t.charged) /\ t.currency = "other" /\ told(-t.charged, 0)     \* abroad
           \/ /\ Went(t.charged) /\ Went(t.original) /\ t.original < t.charged  \* a statement discount
              /\ same /\ ~t.plan /\ ~NearlyWholeTimes(t)
              /\ told(-t.charged, t.charged - t.original)
           \/ /\ t.charged \in {Absent, 0} /\ Went(t.original) /\ t.booked         \* a loaded card paid
              /\ told(0, -t.original)
           \/ Came(t.charged) /\ told(-t.charged, 0)                             \* a refund
           \/ /\ t.charged = Absent /\ Came(t.original) /\ same                    \* credited, not charged
              /\ told(-t.original, 0)

ASSUME RowsTellWhatHappened == \A n \in DOMAIN Rows : \A t \in Rows[n] : TellsWhatHappened(t)

\* The totals are exactly that, over plans, foreign purchases, loaded cards, billing
\* still to come, refunds and duplicates alike.
TotalsAreWhatHappened ==
  answer # Absent =>
    /\ answer.spend = Column([i \in All |-> rows[i].left])
    /\ answer.saved = Column([i \in All |-> rows[i].discount])

\* Nothing is cut from a list of the values of a field.
Uncut(limit, field, S) == Cardinality(Values(field, S)) <= limit

\* A missed purchase is counted once, however many shops and bands it matches: the
\* bands hold each one, and no more money than was billed for purchases.
MissedIsCountedOnce ==
  answer # Absent =>
    /\ Column([b \in DOMAIN Bands |-> answer.missed[b].purchases]) = Cardinality(Missed)
    /\ Column([b \in DOMAIN Bands |-> answer.missed[b].amount]) <= SumOf("paid", Purchases)

\* Every split of a total adds up to it: sources and mix to the spend (summing the mix
\* "lands on spend exactly"), accounts to the savings, days to the value on dated rows and
\* the two periods to the spend on them; and, as long as the list is long enough for all its
\* lines, categories, accounts and stores to one value, applied merchants to the savings
\* and the bands to the missed purchases.  What a longer list loses is lost from the totals
\* as well, though they "must describe every purchase" (insights_service.py:44).
BreakdownsAddUp ==
  answer # Absent =>
    LET value == answer.spend + answer.savedFrom.coupon
    IN  /\ answer.spend = answer.breakdown.regular + answer.breakdown.statement - answer.breakdown.refund
        /\ answer.spend = Column([k \in DOMAIN answer.mix |-> answer.mix[k].contributes])
        /\ answer.saved = answer.savedFrom.coupon + answer.savedFrom.statement
        /\ answer.saved = Column(answer.savedBy)
        /\ Dated = Countable => Column(answer.byDay) = value
        /\ Dated = Countable => answer.difference.current + answer.difference.previous = answer.spend
        /\ Uncut(TopCategories, "category", Countable) => Column(answer.categories) = value
        /\ Uncut(TopAccounts, "account", Countable) => Column(answer.accounts) = value
        /\ Uncut(TopStores, "merchant", Countable) => Column(answer.stores) = value
        /\ Uncut(MaxShops, "merchant", Purchases) =>
             /\ (\A i \in All : rows[i].id) => answer.saved = answer.applied.amount
             /\ MissedIsCountedOnce
=============================================================================
