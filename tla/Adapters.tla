------------------------------ MODULE Adapters -------------------------------
(***************************************************************************)
(* What each source adapter makes of what its site answers: the raw store  *)
(* and raw deals of one listed item, once its detail has been asked for.   *)
(*                                                                         *)
(* A text the adapters only carry is an opaque value; a text they read is  *)
(* a record of what they read in it, or the sequence of its words; a text  *)
(* they put together is the tuple of its parts.  Amounts are whole.        *)
(***************************************************************************)
EXTENDS Integers, Sequences, FiniteSets, SequencesExt, FiniteSetsExt

CONSTANTS
  Groups,       \* hot_store_groups.json: brand -> [prefixes, stores]
  Limitations,  \* the chains whose limitations the behatsdaa page gives, as keys
  Aliases,      \* _ALIASES: the page's names of chains the wallets call something else
  ShortKeys,    \* the keys too short to be looked for inside another
  Placeholders, \* logos that identify nobody
  None

\* Sources come in families: the same adapter class under several ids.
CashcardTiers == [networks_regular |-> "regular", networks_vip |-> "vip",
                  food_regular |-> "regular", food_vip |-> "vip"]
Cashcards == DOMAIN CashcardTiers

-----------------------------------------------------------------------------
(* The raw records, and what tells two of them apart.                      *)

BlankDeal == [store |-> None, desc |-> None, price |-> None, url |-> None, title |-> None,
              terms |-> None, benefit |-> None, type |-> None, logic |-> None, members |-> <<>>]

BlankStore == [name |-> None, branch |-> None, url |-> None]

\* RawScrapedRecord.fingerprint, within one source.
Fingerprint(d) == <<d.desc, d.price>>

\* DealIdentityResolver.deal_key of the deal PersistStage builds of the record, whose
\* benefit_url falls back on its url.  The extractors build_identity_resolver registers
\* look for an id in discount_logic, where no adapter puts one: they give nothing.
DealKey(d) ==
  <<d.store, d.type, IF d.benefit # None THEN d.benefit ELSE IF d.url # None THEN d.url ELSE d.title>>

FirstOf(a, b) == IF a # None THEN a ELSE b

\* What a sequence holds at some of its places, in their order.
Pick(s, places) == FlattenSeq([n \in DOMAIN s |-> IF n \in places THEN <<s[n]>> ELSE <<>>])

Keep(s, S) == Pick(s, {n \in DOMAIN s : s[n] \in S})

\* The first of each key.
Firsts(s, keys) == Pick(s, {n \in DOMAIN s : \A m \in 1..n - 1 : keys[m] # keys[n]})

-----------------------------------------------------------------------------
(* hot: brands, groups of stores and discount mechanics.                   *)

\* clean_brand drops the _N of a raw brand, clean_store_name the voucher noise.
CleanBrand(b) == [base |-> b.base, voucher |-> b.voucher]
CleanStoreName(b) == b.base

\* classify_group_deal_resolved: the store a group's deal is about, or the group as a
\* whole with its members, so that an unknown name never becomes a phantom store.
ClassifyGroupDeal(brand, title) ==
  IF brand \notin DOMAIN Groups THEN [store |-> brand.base, members |-> <<>>]
  ELSE LET group == Groups[brand]
           named == {n \in DOMAIN group.stores : group.stores[n].name \in title.words}
           wide  == [store |-> CleanStoreName(brand), members |-> group.stores]
           one(name) == [store |-> name, members |-> <<>>]
       IN CASE group.prefixes = {} -> wide
            [] group.prefixes # {} /\ named # {} -> one(group.stores[Min(named)].name)
            [] /\ group.stores = <<>> /\ title.prefix \in group.prefixes
               /\ title.words \ {brand.base} # {} -> one(CHOOSE w \in title.words : w # brand.base)
            [] OTHER -> wide

\* A swish card is looked up under the first swish product it names that is a group,
\* and keeps its own name.
HotStore(i) ==
  LET brand == CleanBrand(i.brand)
      cards == SelectSeq(i.swish, LAMBDA s : s \in DOMAIN Groups)
  IN IF cards = <<>> THEN ClassifyGroupDeal(brand, i.title)
     ELSE [ClassifyGroupDeal(cards[1], i.title) EXCEPT !.store = CleanStoreName(brand)]

Reward(kind, value) == [kind |-> kind, value |-> value]

\* The first percentage in value, valueNum, title and the text passed, in this order.
StatedPercent(main, text) ==
  FirstOf(main.value, FirstOf(main.valueNum, FirstOf(main.titlePct, text.pct)))

\* deduce_hot_discount_mechanics: the cascade, first match.
HotDiscount(main, text) ==
  LET pct == StatedPercent(main, text)
      priced == main.before > 0 /\ main.after > 0
  IN CASE main.type = "1300" /\ priced -> <<Reward("spend_exactly", main.before), Reward("total", main.after)>>
       [] main.type = "1300" /\ ~priced /\ main.titleSum # None /\ pct # None ->
            <<Reward("spend_exactly", main.titleSum), Reward("total", main.titleSum * (100 - pct))>>
       [] OTHER ->
     CASE text.worth # None -> <<Reward("spend_exactly", text.worth[1]), Reward("total", text.worth[2])>>
       [] text.worth = None /\ pct # None -> <<Reward("quantity", 1), Reward("percent", pct)>>
       [] text.worth = None /\ pct = None /\ text.spendSave # None ->
            <<Reward("spend", text.spendSave.spend), Reward("amount", text.spendSave.save), text.spendSave.cap>>
       [] OTHER ->
     CASE priced -> <<Reward("spend_exactly", main.before), Reward("total", main.after)>>
       [] main.before > 0 /\ main.after = 0 -> <<Reward("quantity", 1), Reward("percent", 100)>>
       [] main.before = 0 /\ main.type = "100" /\ main.agorot # None ->
            <<Reward("quantity", 1), Reward("agorot_per_liter", main.agorot)>>
       [] main.before = 0 /\ main.type = "100" /\ main.agorot = None /\ main.bare # None ->
            <<Reward("quantity", 1), Reward("percent", main.bare)>>
       [] OTHER -> <<Reward("quantity", 1), Reward("percent", 0)>>

\* _BENEFIT_TYPE_DEAL_TYPE.
HotDealType == [t \in {"100", "700", "800", "1300"} |->
  CASE t = "100" -> "payment_discount" [] t = "1300" -> "giftcard_discount" [] OTHER -> "coupon"]

\* _to_raw_store: none without a brand or for the club itself.
HotStores(i) ==
  IF i.brand = None \/ i.generic THEN <<>>
  ELSE <<[BlankStore EXCEPT !.name = ClassifyGroupDeal(CleanBrand(i.brand), i.title).store, !.url = i.website]>>

\* _to_raw_deal, after _merge_detail when the detail came.
HotDeals(i, d) ==
  LET where == IF i.brand = None THEN [store |-> i.title.text, members |-> <<>>] ELSE HotStore(i)
  IN <<[BlankDeal EXCEPT
         !.store = where.store, !.members = where.members,
         !.desc = IF i.description = None THEN <<i.title>> ELSE <<i.title, i.description>>,
         !.price = i.price, !.title = i.title,
         !.url = IF i.website # None THEN i.website ELSE <<"benefit", i.id>>,
         !.benefit = IF d = None THEN i.link ELSE FirstOf(d.link, i.link),
         !.terms = IF d = None THEN i.terms ELSE d.terms,
         !.logic = IF d = None THEN None ELSE HotDiscount(d.main, d.text),
         !.type = IF i.main.type \in DOMAIN HotDealType THEN HotDealType[i.main.type] ELSE None]>>

-----------------------------------------------------------------------------
(* mastercard: one page of blocks.                                         *)

\* _parse_discount_logic over the block's text with its modal's.  A percentage that is
\* not whole raises in int(), and the scrape skips the block.
CardDiscount(b) ==
  LET save == FirstOf(b.spendSave, b.modalSave)
      pct  == FirstOf(b.titlePct, FirstOf(b.pct, b.modalPct))
  IN CASE save # None -> <<Reward("spend", save.spend), Reward("amount", save.save), save.cap>>
       [] save = None /\ pct # None /\ pct.whole -> <<Reward("quantity", 1), Reward("percent", pct.n)>>
       [] OTHER -> None

\* _process_block.
MastercardDeals(b, d) ==
  IF (b.text = None /\ b.title = None) \/ CardDiscount(b) = None THEN <<>>
  ELSE <<[BlankDeal EXCEPT
           !.store = b.alt, !.desc = b.text, !.terms = b.text, !.logic = CardDiscount(b),
           !.price = CardDiscount(b)[2], !.title = FirstOf(b.title, b.text), !.benefit = "mastercard day",
           !.url = FirstOf(b.website, "mastercard day"), !.type = "payment_discount"]>>

-----------------------------------------------------------------------------
(* behatsdaa: the chains of every configured wallet.                       *)

\* _parse_giftcard_entry: the entries that can be used.
UsableWallet(w) == w.active /\ w.file /\ w.percent > 0

\* One key inside another, as a run of its words.
Inside(k, page) == \E i \in 0..Len(page) - Len(k) : SubSeq(page, i + 1, i + Len(k)) = k

\* BehatsdaaLimitations.lookup: the chain's own key, then that of the brand when the
\* chain is its web shop, then the shortest page key that contains it, never one it contains.
LookupKey(k) ==
  LET around == {p \in Limitations : Inside(k, p)}
  IN IF k \in Limitations THEN k
     ELSE IF k \in ShortKeys \/ around = {} THEN None
     ELSE CHOOSE p \in around : \A q \in around : Len(p) <= Len(q)

Keyed(name) == IF name \in DOMAIN Aliases THEN Aliases[name] ELSE name
Lookup(chain) == FirstOf(LookupKey(Keyed(chain.name \o chain.suffix)), LookupKey(chain.name))

BehatsdaaStores(c) ==
  IF c.name = <<>> \/ c.generic THEN <<>> ELSE <<[BlankStore EXCEPT !.name = c.name \o c.suffix, !.url = c.website]>>

BehatsdaaDeals_noWallet(c, d) ==
  IF c.name = <<>> \/ c.generic THEN <<>>
  ELSE <<[BlankDeal EXCEPT
           !.store = c.name \o c.suffix, !.title = c.name \o c.suffix, !.desc = <<c.name \o c.suffix>>,
           !.price = <<c.wallet.percent, c.wallet.cap>>, !.terms = <<"general", Lookup(c), c.wallet.name>>,
           !.logic = <<Reward("quantity", 1), Reward("percent", c.wallet.percent), c.wallet.cap>>,
           !.benefit = "behatsdaa", !.url = FirstOf(c.website, "behatsdaa"), !.type = "giftcard_discount"]>>

\* The wallet is in the description: a chain shared by wallets has a deal for each.
BehatsdaaDeals(c, d) ==
  IF c.name = <<>> \/ c.generic THEN <<>>
  ELSE <<[BlankDeal EXCEPT
           !.store = c.name \o c.suffix, !.title = c.name \o c.suffix,
           !.desc = <<c.name \o c.suffix, c.wallet.name>>,
           !.price = <<c.wallet.percent, c.wallet.cap, c.wallet.name>>,
           !.terms = <<"general", Lookup(c), c.wallet.name>>,
           !.logic = <<Reward("quantity", 1), Reward("percent", c.wallet.percent), c.wallet.cap>>,
           !.benefit = "behatsdaa", !.url = FirstOf(c.website, "behatsdaa"), !.type = "giftcard_discount"]>>

-----------------------------------------------------------------------------
(* hever: the gift card directory, and the restaurants of the taste card.  *)

LoadingBonus == <<Reward("quantity", 1), Reward("percent", 30), 300>>

HeverStores(r) == IF r.company = None THEN <<>> ELSE <<[BlankStore EXCEPT !.name = r.company, !.url = r.website]>>

\* The company is in the description: the price is the same for all of them.
HeverDeals(r, d) ==
  IF r.company = None THEN <<>>
  ELSE <<[BlankDeal EXCEPT
           !.store = r.company, !.title = r.company, !.price = "loading bonus", !.logic = LoadingBonus,
           !.desc = IF r.desc = None THEN <<r.company>> ELSE <<r.company, r.desc>>,
           !.terms = <<r.limitations, "loading bonus", r.company>>,
           !.benefit = IF r.sn = None THEN None ELSE <<"gift card", r.sn>>,
           !.url = FirstOf(r.website, IF r.sn = None THEN None ELSE <<"gift card", r.sn>>),
           !.type = "giftcard_discount"]>>

\* _group_branches: two branches are one restaurant when a chain of shared names and
\* shared logos links them.
Linked(a, b) == a.name = b.name \/ (a.img = b.img /\ a.img \notin Placeholders)
RestaurantOf(branches, b) ==
  LET all    == Range(branches)
      closed == {S \in SUBSET all : b \in S /\ \A y \in S, x \in all : Linked(x, y) => x \in S}
  IN Keep(branches, {x \in all : \A S \in closed : x \in S})

GroupBranches(records) ==
  LET named == Keep(records, {r \in Range(records) : r.name # <<>>})
      restaurants == [k \in DOMAIN named |-> RestaurantOf(named, named[k])]
  IN Firsts(restaurants, restaurants)

\* _canonical_name: the longest run of words all names begin with, or the shortest name.
CanonicalName(branches) ==
  LET names  == {b.name : b \in Range(branches)}
      shared == LongestCommonPrefix(names)
  IN IF shared # <<>> THEN shared ELSE CHOOSE n \in names : \A m \in names : Len(n) <= Len(m)

FirstNonempty(values) ==
  LET some == SelectSeq(values, LAMBDA v : v # None) IN IF some = <<>> THEN None ELSE some[1]

\* One store and one deal of a whole group of branches.
TeamimStores(g) == <<[BlankStore EXCEPT !.name = CanonicalName(g), !.url = FirstNonempty([k \in DOMAIN g |-> g[k].website])]>>

TeamimDeals(g, d) ==
  LET first(values) == FirstNonempty(values)
      desc == first([k \in DOMAIN g |-> g[k].desc])
      site == first([k \in DOMAIN g |-> g[k].website])
      link == first([k \in DOMAIN g |-> g[k].link])
  IN <<[BlankDeal EXCEPT
         !.store = CanonicalName(g), !.title = CanonicalName(g), !.price = "loading bonus", !.logic = LoadingBonus,
         !.desc = IF desc = None THEN <<CanonicalName(g)>> ELSE <<CanonicalName(g), desc>>,
         !.terms = <<UNION {b.delivery : b \in Range(g)}, {b.limitations : b \in Range(g)} \ {None}, CanonicalName(g)>>,
         !.benefit = link, !.url = FirstOf(site, link), !.type = "giftcard_discount"]>>

-----------------------------------------------------------------------------
(* paisplus: vouchers by branch and price tier, and the loadable cards.    *)

\* _extract_branch: without the leading words it shares with the brand.
ExtractBranch(name, brand) ==
  LET shared == Len(LongestCommonPrefix({name, brand}))
      rest   == SubSeq(name, shared + 1, Len(name))
  IN IF rest # <<>> THEN rest ELSE name

PaisBranch(p, entry) == LET b == ExtractBranch(entry.name, p.brand) IN IF b # <<>> THEN b ELSE entry.provider
PaisStore(p, entry) == IF p.brand # <<>> THEN p.brand ELSE entry.provider

\* A deal for each branch and price tier.  The branch is in the description, because
\* sibling branches share their prices; the tier is nowhere but in the price itself.
PaisTier(p, e, price) ==
  IF price = None \/ e.market = None \/ PaisStore(p, e) = <<>> THEN <<>>
  ELSE <<[BlankDeal EXCEPT
           !.store = PaisStore(p, e), !.title = p.name,
           !.desc = <<PaisStore(p, e), PaisBranch(p, e), p.short>>,
           !.price = <<price, e.market>>, !.terms = p.terms,
           !.logic = IF e.market > price THEN <<Reward("quantity", 1), Reward("amount", e.market - price)>> ELSE None,
           !.benefit = <<"product", p.id>>, !.url = <<"product", p.id>>, !.type = "giftcard_discount"]>>

PaisTiers(p, e) == PaisTier(p, e, e.club) \o PaisTier(p, e, e.discounted)
PaisDeals(p, d) == FlattenSeq([k \in DOMAIN p.prices |-> PaisTiers(p, p.prices[k])])

\* A store comes with a deal of it.
PaisStores(p) ==
  FlattenSeq([k \in DOMAIN p.prices |->
    LET e == p.prices[k]
    IN IF PaisTiers(p, e) = <<>> THEN <<>>
       ELSE <<[BlankStore EXCEPT !.name = PaisStore(p, e), !.branch = PaisBranch(p, e)]>>])

\* _build_tiers: the ladder whole, or nothing of it.
Ladder(brackets) ==
  IF \E b \in Range(brackets) : b.to = None \/ b.percent = None \/ b.to <= b.from THEN <<>> ELSE brackets

LadderSavings(ladder) == FoldLeft(LAMBDA sum, b : sum + (b.to - b.from) * b.percent, 0, ladder)

\* The merchants a chit is redeemed at, or the chit itself when it has none.
ChitTargets(c, merchants) == IF merchants = <<>> THEN <<[name |-> c.name, limits |-> c.limits, site |-> None]>> ELSE merchants

\* The rules of a chit for one membership tier that state a rate.
CardRules(source, c) ==
  Keep(c.rules, {r \in Range(c.rules) : /\ r.member = CashcardTiers[source]
                                       /\ r.brackets # <<>> /\ r.brackets[1].percent # None})

CardDeal(source, c, t, r) ==
  LET tier == CashcardTiers[source]
  IN [BlankDeal EXCEPT
       !.store = t.name, !.title = t.name, !.desc = <<t.name, tier, t.limits>>,
       !.price = <<r.brackets[1].percent, r.brackets[Len(r.brackets)].to, tier>>,
       !.terms = <<t.limits, Ladder(r.brackets)>>,
       !.logic = <<Reward("percent", r.brackets[1].percent), LadderSavings(Ladder(r.brackets)), <<"chit", c.id>>>>,
       !.benefit = "cashcards", !.url = "cashcards", !.type = "giftcard_discount"]

\* _to_raw_records of the adapter of one membership tier: a store comes with a deal of it.
CashcardStores(source, c, merchants) ==
  LET named == IF CardRules(source, c) = <<>> THEN <<>> ELSE SelectSeq(ChitTargets(c, merchants), LAMBDA t : t.name # None)
  IN [k \in DOMAIN named |-> [BlankStore EXCEPT !.name = named[k].name, !.url = named[k].site]]

CashcardDeals(source, c, merchants) ==
  LET rules == CardRules(source, c)
      targets == ChitTargets(c, merchants)
  IN FlattenSeq([k \in DOMAIN targets |->
       IF targets[k].name = None THEN <<>> ELSE [r \in DOMAIN rules |-> CardDeal(source, c, targets[k], rules[r])]])

-----------------------------------------------------------------------------
(* topcash and the sites an LLM reads.                                     *)

\* _process_store and enrich_one: the description is the detail page's, when it came.
TopcashDeals(s, d) ==
  IF s.title = None THEN <<>>
  ELSE <<[BlankDeal EXCEPT
           !.store = s.title, !.title = <<s.reward, s.title>>, !.price = s.reward,
           !.desc = IF d = None \/ d.desc = None THEN <<s.reward, s.title>> ELSE d.desc,
           !.terms = IF d = None THEN None ELSE d.terms,
           !.logic = IF s.reward.kind = "unknown" THEN None ELSE <<Reward("quantity", 1), s.reward>>,
           !.benefit = s.link, !.url = FirstOf(s.buy, s.link), !.type = "cashback"]>>

\* _build_record.
LlmDeals(r, d) ==
  IF r.name = None THEN <<>>
  ELSE LET url == FirstOf(r.link, r.url)
       IN <<[BlankDeal EXCEPT
              !.store = r.name, !.title = <<r.price, r.name>>, !.price = r.price,
              !.desc = IF d = None \/ d.desc = None THEN r.desc ELSE d.desc,
              !.terms = IF d = None \/ d.terms = None THEN r.terms ELSE d.terms,
              !.logic = r.price, !.benefit = url, !.url = url]>>

\* topcash, mastercard and the LLM sites have their stores from their deals.
StoresOfDeals(deals) ==
  LET named == SelectSeq(deals, LAMBDA d : d.store # None)
  IN [k \in DOMAIN named |-> [BlankStore EXCEPT !.name = named[k].store, !.url = named[k].url]]
=============================================================================
