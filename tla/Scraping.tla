------------------------------ MODULE Scraping -------------------------------
(***************************************************************************)
(* One scrape of one source: the opening requests, the listing fetched in  *)
(* sections, the details fetched item by item, and the records made of     *)
(* what came.  Sections and details are fetched concurrently under a       *)
(* semaphore; nothing they share depends on how many run at once, so every *)
(* answer may come at any time.  Every request may fail instead, or its    *)
(* answer may not be of the form the adapter takes apart.                  *)
(***************************************************************************)
EXTENDS Adapters, SwishScanner

CONSTANTS
  Sites,             \* source -> its listing: a sequence of sections, each of pages, each of items
  Truth,             \* source -> the detail the site answers with for an item
  PageSize,          \* _PAGE_SIZE of hot
  MaxCategoryPages,  \* _MAX_CATEGORY_PAGES of paisplus
  MaxFaults          \* bound: failed requests and odd answers

VARIABLES
  source,   \* the source asked for
  crawl,    \* whether details are fetched, for the sources that may leave them
  phase,    \* "opening", "listing", "details", "done"
  opened,   \* opening requests answered
  page,     \* the next page of each section, 0 when it has ended
  rows,     \* what each section has listed
  seen,     \* seen_ids of hot
  items,    \* what records are made of, once the listing is read
  detail,   \* per item: "due", "ok", "bare" or "none"
  tries,    \* failed attempts at each detail, or at a chunk
  stores, deals, error,   \* SourceRunResult
  broken,   \* the sections a failure cut short
  spoilt,   \* whether an answer came that the adapter could not take apart
  faults

vars == <<source, crawl, phase, opened, page, rows, seen, items, detail, tries, stores, deals, error, broken, spoilt, faults>>
runVars == <<source, crawl, opened>>
resultVars == <<stores, deals, error>>

Sources == DOMAIN Sites

IsSeq(s) == s \in Seq(Range(s))

Whole(s) == FlattenSeq([c \in DOMAIN Sites[s] |-> FlattenSeq(Sites[s][c])])

ASSUME SitesAssumption ==
  /\ PageSize \in Nat /\ MaxCategoryPages \in Nat
  /\ Sources \subseteq {"hot", "mastercard", "behatsdaa", "hever", "teamim", "paisplus", "topcash", "llm", "swish"}
                      \cup Cashcards
  /\ \A s \in Sources : IsSeq(Sites[s]) /\ \A c \in DOMAIN Sites[s] :
       IsSeq(Sites[s][c]) /\ \A n \in DOMAIN Sites[s][c] : IsSeq(Sites[s][c][n])

\* What is a list in an item, in its detail and in the reference files.
ASSUME TruthAssumption ==
  \A s \in Sources : \A i \in Range(Whole(s)) :
    /\ s = "behatsdaa" => IsSeq(i.name) /\ IsSeq(i.suffix)
    /\ s = "paisplus" /\ i.id # None => i.id \in DOMAIN Truth[s] /\ IsSeq(Truth[s][i.id].prices)
    /\ s \in Cashcards => IsSeq(i.rules) /\ IsSeq(Truth[s][i.id])

ASSUME ReferenceAssumption ==
  /\ \A b \in DOMAIN Groups : IsSeq(Groups[b].stores)
  /\ \A p \in Limitations : IsSeq(p)
  /\ \A n \in DOMAIN Aliases : IsSeq(Aliases[n])

\* How the sites page their listings, as the adapters take it: all pages of hot but the
\* last are full, a category of paisplus ends before the cap and at its first empty page,
\* a wallet of behatsdaa is one file and a chunk of the LLM sites one answer.
ASSUME ListingsEndWhereTheyEnd ==
  \A s \in Sources : \A c \in DOMAIN Sites[s] :
    LET pages == Sites[s][c]
    IN /\ s = "hot" => \A n \in 1..Len(pages) - 1 : Len(pages[n]) >= PageSize
       /\ s = "paisplus" => Len(pages) <= MaxCategoryPages /\ \A n \in 1..Len(pages) - 1 : pages[n] # <<>>
       /\ s \in {"behatsdaa", "llm"} => Len(pages) <= 1

-----------------------------------------------------------------------------
(* How the adapters fetch.                                                 *)

\* What is read before the listing: hot's cookie, behatsdaa's configuration, the page or
\* dataset that holds the whole listing, the handshake and the chits of the loadable cards.
Openings(s) ==
  CASE s \in Cashcards -> 2
    [] s = "paisplus" -> 0
    [] OTHER -> 1

\* hot and mastercard let the error of an opening out; the others log it and answer
\* with nothing.
Raises(s) == s \in {"hot", "mastercard"}

\* The sources that take an answer apart outside the try around its request: what cannot
\* be read raises there.
TakesApart(s) == s \in {"hot", "paisplus"} \cup Cashcards

\* The sections that take requests of their own; behatsdaa reads a file for each wallet,
\* llm asks the model about each chunk, one after the other.
Paged(s) == s \in {"hot", "paisplus", "behatsdaa", "llm"}
InOrder(s) == s \in {"behatsdaa", "llm"}

\* How often an attempt that failed softly is made: hot on 429, llm on a failed extraction.
Attempts(s) == IF s \in {"hot", "llm"} THEN 3 ELSE 1

HasDetails(s) == s \in {"paisplus", "hot", "topcash", "llm"} \cup Cashcards
MayCrawl(s) == s \in {"hot", "topcash", "llm"}

\* What is fetched is keyed by these; an item without is left as it is listed, but a chit
\* is asked about all the same.
DetailKey(s, i) ==
  CASE s \in {"hot", "paisplus"} \cup Cashcards -> i.id
    [] OTHER -> i.link
Asked(s, i) == s \in Cashcards \/ DetailKey(s, i) # None

More_stopsEarly(c, p) ==
  CASE source = "hot" -> Len(p) > PageSize
    [] source = "paisplus" -> p # <<>> /\ page[c] < Len(Sites[source][c]) /\ page[c] < MaxCategoryPages
    [] OTHER -> FALSE

\* More pages after one: hot while they are full, paisplus while the site says so.
More(c, p) ==
  CASE source = "hot" -> Len(p) >= PageSize
    [] source = "paisplus" -> p # <<>> /\ page[c] < Len(Sites[source][c]) /\ page[c] < MaxCategoryPages
    [] OTHER -> FALSE

\* hot takes an id once, over all types and pages.
Unseen(all) ==
  IF source # "hot" THEN all
  ELSE LET new == Keep(all, {i \in Range(all) : i.id \notin seen \cup {None}})
       IN Firsts(new, [k \in DOMAIN new |-> new[k].id])

\* What the listing holds in the end; paisplus drops the products seen in an earlier
\* category, and behatsdaa the wallets that cannot be used.
Listed ==
  LET all == FlattenSeq(rows)
  IN CASE source = "paisplus" -> Firsts(all, [k \in DOMAIN all |-> all[k].id])
       [] source = "behatsdaa" -> Keep(all, {c \in Range(all) : UsableWallet(c.wallet)})
       [] OTHER -> all

-----------------------------------------------------------------------------
(* What the adapters make of an item.                                      *)

\* The detail as the adapter has it: what the site answers, no merchants when its answer
\* holds no list of them, or nothing.
DetailOf(i, outcome) ==
  CASE outcome = "ok"   -> Truth[source][DetailKey(source, i)]
    [] outcome = "bare" -> <<>>
    [] OTHER            -> None

\* A failed fetch taken for a chit without merchants.
DealsOf_umbrella(i, outcome) ==
  LET d == DetailOf(i, outcome)
  IN CASE source = "hot" -> HotDeals(i, d)
       [] source = "mastercard" -> MastercardDeals(i, d)
       [] source = "behatsdaa" -> BehatsdaaDeals(i, d)
       [] source = "hever" -> HeverDeals(i, d)
       [] source = "teamim" -> TeamimDeals(i, d)
       [] source = "topcash" -> TopcashDeals(i, d)
       [] source = "llm" -> LlmDeals(i, d)
       [] source = "paisplus" -> IF d = None THEN <<>> ELSE PaisDeals(d, d)
       [] source \in Cashcards -> CashcardDeals(source, i, IF d = None THEN <<>> ELSE d)

\* The deals of an item.  A paisplus product or a chit whose detail failed is skipped;
\* the others go on with what the listing said.
DealsOf(i, outcome) ==
  LET d == DetailOf(i, outcome)
  IN CASE source = "hot" -> HotDeals(i, d)
       [] source = "mastercard" -> MastercardDeals(i, d)
       [] source = "behatsdaa" -> BehatsdaaDeals(i, d)
       [] source = "hever" -> HeverDeals(i, d)
       [] source = "teamim" -> TeamimDeals(i, d)
       [] source = "topcash" -> TopcashDeals(i, d)
       [] source = "llm" -> LlmDeals(i, d)
       [] source = "paisplus" -> IF d = None THEN <<>> ELSE PaisDeals(d, d)
       [] source \in Cashcards -> IF d = None THEN <<>> ELSE CashcardDeals(source, i, d)

StoresOf(i, outcome) ==
  LET d == DetailOf(i, outcome)
  IN CASE source = "hot" -> HotStores(i)
       [] source = "behatsdaa" -> BehatsdaaStores(i)
       [] source = "hever" -> HeverStores(i)
       [] source = "teamim" -> TeamimStores(i)
       [] source = "paisplus" -> IF d = None THEN <<>> ELSE PaisStores(d)
       [] source \in Cashcards -> IF d = None THEN <<>> ELSE CashcardStores(source, i, d)
       [] OTHER -> StoresOfDeals(DealsOf(i, outcome))

\* The stores once each: by name, by fingerprint for the sources that know branches.
OneOfEach(all) ==
  LET key(s) == IF source = "paisplus" THEN <<s.name, s.branch>> ELSE <<s.name>>
  IN Firsts(all, [k \in DOMAIN all |-> key(all[k])])

\* The items records are made of: the restaurants of teamim, the listed items of the others.
Gathered == IF source = "teamim" THEN GroupBranches(Listed) ELSE Listed
Outcome(k) == IF k \in DOMAIN detail THEN detail[k] ELSE "none"

-----------------------------------------------------------------------------
(* The scrape.                                                             *)

Init ==
  /\ source \in Sources
  /\ crawl \in IF MayCrawl(source) THEN BOOLEAN ELSE {HasDetails(source)}
  /\ phase = "opening" /\ opened = 0
  /\ page = [c \in DOMAIN Sites[source] |-> 1]
  /\ rows = [c \in DOMAIN Sites[source] |-> <<>>]
  /\ seen = {} /\ items = <<>> /\ detail = <<>> /\ tries = <<>>
  /\ stores = <<>> /\ deals = <<>> /\ error = None
  /\ broken = {} /\ spoilt = FALSE /\ faults = 0
  /\ ScanInit

Opened ==
  /\ phase = "opening" /\ opened < Openings(source)
  /\ opened' = opened + 1
  /\ UNCHANGED <<source, crawl, phase, page, rows, seen, items, detail, tries, broken, spoilt, faults>> /\ UNCHANGED resultVars

\* run_source catches what an adapter lets out, and answers with its message.
OpeningFails ==
  /\ phase = "opening" /\ opened < Openings(source) /\ faults < MaxFaults
  /\ faults' = faults + 1
  /\ broken' = DOMAIN Sites[source]
  /\ phase' = "done"
  /\ error' = IF Raises(source) THEN "failed" ELSE None
  /\ UNCHANGED <<page, rows, seen, items, detail, tries, stores, deals, spoilt>> /\ UNCHANGED runVars

\* An answer comes that the adapter cannot take apart: a listed record that is none, a page
\* or a detail of another form.  Nothing between there and run_source catches what it
\* raises (asyncio.gather hands it on), and all that had been read is lost.
AnswerIsUnreadable ==
  /\ TakesApart(source) /\ faults < MaxFaults
  /\ \/ phase = "opening" /\ source \in Cashcards /\ opened = 1
     \/ phase = "listing" /\ \E c \in DOMAIN page : page[c] # 0
     \/ phase = "details" /\ \E k \in DOMAIN detail : detail[k] = "due"
  /\ faults' = faults + 1 /\ spoilt' = TRUE
  /\ phase' = "done" /\ error' = "failed"
  /\ items' = <<>> /\ detail' = <<>> /\ broken' = DOMAIN Sites[source]
  /\ UNCHANGED <<page, rows, seen, tries, stores, deals>> /\ UNCHANGED runVars

\* The listing that came with the opening is all there.
StartListing ==
  /\ phase = "opening" /\ opened = Openings(source)
  /\ phase' = "listing"
  /\ IF Paged(source) THEN UNCHANGED <<page, rows>>
     ELSE /\ page' = [c \in DOMAIN page |-> 0]
          /\ rows' = [c \in DOMAIN rows |-> FlattenSeq(Sites[source][c])]
  /\ tries' = [c \in DOMAIN page |-> 0]
  /\ UNCHANGED <<seen, items, detail, broken, spoilt, faults>> /\ UNCHANGED runVars /\ UNCHANGED resultVars

Turn(c) == page[c] # 0 /\ (InOrder(source) => \A b \in DOMAIN page : b < c => page[b] = 0)

\* A page of a section comes.
PageComes(c) ==
  /\ phase = "listing" /\ Turn(c)
  /\ LET p == IF page[c] <= Len(Sites[source][c]) THEN Sites[source][c][page[c]] ELSE <<>>
     IN /\ rows' = [rows EXCEPT ![c] = @ \o Unseen(p)]
        /\ seen' = IF source = "hot" THEN seen \cup ({i.id : i \in Range(p)} \ {None}) ELSE seen
        /\ page' = [page EXCEPT ![c] = IF More(c, p) THEN @ + 1 ELSE 0]
  /\ UNCHANGED <<phase, items, detail, tries, broken, spoilt, faults>> /\ UNCHANGED runVars /\ UNCHANGED resultVars

\* The request for a page fails: the section ends with what it has.  A chunk is tried again first.
PageFails(c) ==
  /\ phase = "listing" /\ Turn(c) /\ faults < MaxFaults
  /\ faults' = faults + 1
  /\ tries' = [tries EXCEPT ![c] = @ + 1]
  /\ IF source = "llm" /\ tries'[c] < Attempts(source)
       THEN UNCHANGED <<page, broken>>
       ELSE page' = [page EXCEPT ![c] = 0] /\ broken' = broken \cup {c}
  /\ UNCHANGED <<phase, rows, seen, items, detail, spoilt>> /\ UNCHANGED runVars /\ UNCHANGED resultVars

StartDetails ==
  /\ phase = "listing" /\ \A c \in DOMAIN page : page[c] = 0
  /\ phase' = "details"
  /\ items' = Gathered
  /\ detail' = [k \in DOMAIN items' |->
                  IF crawl /\ Asked(source, items'[k]) THEN "due" ELSE "none"]
  /\ tries' = [k \in DOMAIN items' |-> 0]
  /\ UNCHANGED <<page, rows, seen, broken, spoilt, faults>> /\ UNCHANGED runVars /\ UNCHANGED resultVars

DetailComes(k) ==
  /\ phase = "details" /\ detail[k] = "due"
  /\ detail' = [detail EXCEPT ![k] = "ok"]
  /\ UNCHANGED <<phase, page, rows, seen, items, tries, broken, spoilt, faults>> /\ UNCHANGED runVars /\ UNCHANGED resultVars

\* The request for a detail fails for good, or softly and is made again while attempts are
\* left.  An answer about a chit may hold no list of merchants.
DetailFails(k) ==
  /\ phase = "details" /\ detail[k] = "due" /\ faults < MaxFaults
  /\ faults' = faults + 1
  /\ \/ detail' = [detail EXCEPT ![k] = "none"] /\ UNCHANGED tries
     \/ source \in Cashcards /\ detail' = [detail EXCEPT ![k] = "bare"] /\ UNCHANGED tries
     \/ /\ Attempts(source) > 1
        /\ tries' = [tries EXCEPT ![k] = @ + 1]
        /\ detail' = [detail EXCEPT ![k] = IF tries'[k] < Attempts(source) THEN "due" ELSE "none"]
  /\ UNCHANGED <<phase, page, rows, seen, items, broken, spoilt>> /\ UNCHANGED runVars /\ UNCHANGED resultVars

Finish ==
  /\ phase = "details" /\ \A k \in DOMAIN detail : detail[k] # "due"
  /\ phase' = "done"
  /\ deals' = FlattenSeq([k \in DOMAIN items |-> DealsOf(items[k], Outcome(k))])
  /\ stores' = LET all == FlattenSeq([k \in DOMAIN items |-> StoresOf(items[k], Outcome(k))])
               IN IF source = "teamim" THEN all ELSE OneOfEach(all)
  /\ UNCHANGED <<page, rows, seen, items, detail, tries, error, broken, spoilt, faults>> /\ UNCHANGED runVars

\* swish has no deals: it reads what the scanner has recorded so far, store by store.
ReadSwish ==
  /\ source = "swish" /\ phase = "opening"
  /\ phase' = "done"
  /\ stores' = OneOfEach([k \in DOMAIN database |-> [BlankStore EXCEPT !.name = Truth.swish[database[k]]]])
  /\ UNCHANGED <<page, rows, seen, items, detail, tries, deals, error, broken, spoilt, faults>> /\ UNCHANGED runVars

Listing == \E c \in DOMAIN page : PageComes(c) \/ PageFails(c)
Detailing == \E k \in DOMAIN detail : DetailComes(k) \/ DetailFails(k)
Done == phase = "done" /\ UNCHANGED vars
Scrape == Opened \/ StartListing \/ Listing \/ StartDetails \/ Detailing \/ Finish

Next ==
  \/ source # "swish" /\ (Scrape \/ OpeningFails \/ AnswerIsUnreadable \/ Done) /\ UNCHANGED scanVars
  \/ source = "swish" /\ (ReadSwish \/ Done) /\ UNCHANGED scanVars
  \/ source = "swish" /\ ScanNext /\ UNCHANGED vars

Spec == Init /\ [][Next]_<<vars, scanVars>>

-----------------------------------------------------------------------------
(* What a scrape promises.                                                 *)

SameItem(i, j) ==
  CASE source \in {"hot", "paisplus"} -> i.id = j.id
    [] source = "teamim" -> i \in Range(j)
    [] OTHER -> i = j

Expected(i) ==
  CASE source = "hot" -> i.id # None
    [] source = "behatsdaa" -> UsableWallet(i.wallet)
    [] source = "teamim" -> i.name # <<>>
    [] OTHER -> TRUE

\* A request that fails costs what it failed on and nothing else: every item of a section
\* that no failure cut short is delivered, across its pages and whatever the other sections
\* and details met ("A failed page ends its type").  Only an opening or an answer that
\* cannot be read ends the scrape itself, and then nothing of it is delivered.
AnsweredIsDelivered ==
  phase = "done" /\ source # "swish" =>
    IF error # None
    THEN deals = <<>> /\ stores = <<>> /\ (spoilt \/ opened < Openings(source))
    ELSE \A c \in DOMAIN page \ broken : \A i \in Range(FlattenSeq(Sites[source][c])) :
      Expected(i) => \E k \in DOMAIN items :
        /\ SameItem(i, items[k])
        /\ Range(DealsOf(items[k], Outcome(k))) \subseteq Range(deals)

\* An offer listed under two types, in two categories or as several branches of one
\* restaurant is taken once: no two of the items are one offer, and no two stores one.
OffersAreTakenOnce ==
  phase = "done" /\ source \in {"hot", "paisplus", "teamim"} =>
    /\ \A j, k \in DOMAIN items : j # k =>
         IF source = "teamim" THEN \A a \in Range(items[j]), b \in Range(items[k]) : ~Linked(a, b)
         ELSE ~SameItem(items[j], items[k])
    /\ IsInjective([k \in DOMAIN stores |-> <<stores[k].name, stores[k].branch>>])

\* No two restaurants come out with one name: chains whose branches share their first
\* words, and nothing else, would.
ChainsAreNamedApart ==
  "teamim" \in Sources =>
    LET groups == GroupBranches(Whole("teamim"))
    IN \A j, k \in DOMAIN groups : j # k => CanonicalName(groups[j]) # CanonicalName(groups[k])

\* Each offer of the site arrives, and arrives once, whatever pages and details fail.
EachOfferArrivesOnce == AnsweredIsDelivered /\ OffersAreTakenOnce

\* A deal names a store that takes it: the merchants of a card that has merchants and
\* never the card, if its answer held a list; a store of a group or the group and never a
\* phantom read in a title; limitations come from the chain's own entry, from one that
\* names it or from that of its alias.
DealsAreRedeemable ==
  /\ source \in Cashcards => \A k \in DOMAIN items : \A d \in Range(DealsOf(items[k], Outcome(k))) :
       LET m == Truth[source][items[k].id]
       IN IF m = <<>> \/ Outcome(k) = "bare" THEN d.store = items[k].name ELSE d.store \in {x.name : x \in Range(m)}
  /\ source = "hot" => \A k \in DOMAIN deals :
       LET i == items[k]  b == CleanBrand(i.brand)
       IN i.brand # None /\ b \in DOMAIN Groups /\ Groups[b].stores # <<>>
            => deals[k].store \in {b.base} \cup {m.name : m \in Range(Groups[b].stores)}
  /\ source = "behatsdaa" => \A k \in DOMAIN items : \A d \in Range(DealsOf(items[k], Outcome(k))) :
       LET i == items[k]  full == i.name \o i.suffix
       IN d.terms[2] # None =>
            Inside(i.name, d.terms[2]) \/ (full \in DOMAIN Aliases /\ Inside(Aliases[full], d.terms[2]))

\* What a delivered item offers, told apart as the comments of the adapters do: stores,
\* wallets, and branches with their prices.
Offers(k) ==
  LET i == items[k] d == DetailOf(i, Outcome(k))
  IN CASE source = "hever" -> {i.company} \ {None}
       [] source = "behatsdaa" -> IF i.name = <<>> \/ i.generic THEN {} ELSE {<<i.name, i.suffix, i.wallet.name>>}
       [] source = "paisplus" /\ d # None ->
            UNION {{<<d.brand, e.name, price>> : price \in {e.club, e.discounted} \ {None}} :
                     e \in {x \in Range(d.prices) : x.market # None /\ PaisStore(d, x) # <<>>}}
       [] source \in Cashcards /\ d # None /\ CardRules(source, i) # <<>> ->
            {t.name : t \in Range(ChitTargets(i, d))} \ {None}
       [] OTHER -> {}

\* A chain's name is split one way into the brand and what marks its web shop.
ChainsAreSplitOneWay ==
  "behatsdaa" \in Sources => \A i, j \in Range(Whole("behatsdaa")) :
    i.name \o i.suffix = j.name \o j.suffix => i.name = j.name /\ i.suffix = j.suffix

\* No two branches of a brand are told apart by the brand's own words alone.
BranchesStayApart ==
  "paisplus" \in Sources => \A i, j \in Range(Whole("paisplus")) : {i.id, j.id} \subseteq DOMAIN Truth.paisplus =>
    LET p == Truth.paisplus[i.id]  q == Truth.paisplus[j.id]
    IN \A e \in Range(p.prices), f \in Range(q.prices) :
         PaisStore(p, e) = PaisStore(q, f) /\ PaisBranch(p, e) = PaisBranch(q, f)
           => p.brand = q.brand /\ e.name = f.name

\* The scrape stage takes two records with one fingerprint for one offer, so different
\* offers must not share it: "silently dropping real deals" (paisplus.py).
FingerprintsTellOffersApart ==
  phase = "done" /\ source \in {"hever", "behatsdaa", "paisplus"} \cup Cashcards =>
    Cardinality({Fingerprint(d) : d \in Range(deals)}) >= Cardinality(UNION {Offers(k) : k \in DOMAIN items})

\* A percentage the listing states is the discount, however little of it the terms
\* repeat: "passing a narrow combined_text can never hide the headline discount".
HeadlineSurvives ==
  phase = "done" /\ source = "hot" => \A k \in DOMAIN items :
    LET d == DetailOf(items[k], Outcome(k))
    IN /\ d # None /\ d.main.type # "1300" /\ d.text.worth = None
       /\ \E p \in {d.main.value, d.main.valueNum, d.main.titlePct} : p # None
       => deals[k].logic[2] \in {Reward("percent", p) : p \in {d.main.value, d.main.valueNum, d.main.titlePct}}

\* A deal says what the site says: who takes it, and for how much less.
DealsTellTheTruth == DealsAreRedeemable /\ HeadlineSurvives

\* "A chain shared by multiple wallets yields one deal per wallet" (behatsdaa.py): the
\* deals made of different offers have different keys.  They do not: the key of the
\* deal is made of the store and the benefit URL, which the wallets share, because its
\* extractor looks for product_id in discount_logic and behatsdaa keeps none there.
OffersAreSeparateDeals ==
  phase = "done" /\ source = "behatsdaa" =>
    Cardinality({DealKey(d) : d \in Range(deals)}) >= Cardinality(UNION {Offers(k) : k \in DOMAIN items})

\* "That fallback would fabricate a bogus deal for the umbrella card itself"
\* (paisplus_cashcards.py:179-183): a card with merchants is never the store of a deal.  An
\* answer that holds no list of merchants makes it one (line 236).
CardsAreNoStores ==
  source \in Cashcards => \A k \in DOMAIN items :
    Truth[source][items[k].id] # <<>> => \A d \in Range(DealsOf(items[k], Outcome(k))) : d.store # items[k].name
=============================================================================
