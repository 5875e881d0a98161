----------------------------- MODULE MCScraping ------------------------------
(* A small site for every source, chosen so that pages fill up, items are     *)
(* listed twice, brands are groups, branches and wallets share their prices,  *)
(* and some cards have merchants and some have none.                          *)
EXTENDS Scraping

Plain(name) == [base |-> name, voucher |-> FALSE]
Brand(name, voucher, n) == [base |-> name, voucher |-> voucher, suffix |-> n]
Fox == [base |-> "fox", voucher |-> TRUE]

MCGroups ==
  (Fox :> [prefixes |-> {"buy"}, stores |-> <<[name |-> "laline", id |-> 1], [name |-> "mango", id |-> None]>>])
  @@ (Plain("castro") :> [prefixes |-> {"buy"}, stores |-> <<>>])
  @@ (Plain("swish:1") :> [prefixes |-> {}, stores |-> <<[name |-> "spa", id |-> 7]>>])

Title(prefix, words, text) == [prefix |-> prefix, words |-> words, text |-> text]
Main(type) == [type |-> type, before |-> 0, after |-> 0, titleSum |-> None, value |-> None,
               valueNum |-> None, titlePct |-> None, agorot |-> None, bare |-> None]
Hot(id, brand, title, main) ==
  [id |-> id, brand |-> brand, generic |-> FALSE, title |-> title, description |-> None, price |-> None,
   website |-> <<"site", id>>, link |-> None, terms |-> None, main |-> main, swish |-> <<>>]
NoText == [pct |-> None, worth |-> None, spendSave |-> None]

HotItems ==
  <<Hot(1, Brand("fox", TRUE, 2), Title("buy", {"dream"}, "buy dream"), [Main("100") EXCEPT !.value = 2]),
    Hot(2, Brand("fox", TRUE, 2), Title(None, {"mango"}, "at mango"), [Main("1300") EXCEPT !.before = 100, !.after = 80]),
    [Hot(3, Brand("cellcom", FALSE, 0), Title(None, {}, "club"), Main("700")) EXCEPT !.generic = TRUE, !.website = None],
    [Hot(4, Brand("nofshonit", FALSE, 0), Title(None, {}, "spa day"), [Main("100") EXCEPT !.agorot = 25])
       EXCEPT !.swish = <<Plain("swish:2"), Plain("swish:1")>>]>>

HotSite == <<<<<<HotItems[1], HotItems[2]>>, <<HotItems[3]>>>>,
             <<<<HotItems[2], HotItems[4]>>>>>>

HotDetail(i) == [link |-> <<"link", i>>, terms |-> <<"terms", i>>, main |-> HotItems[i].main,
                 text |-> [NoText EXCEPT !.spendSave = [save |-> 5, spend |-> 50, cap |-> None]]]

Block(text, alt) == [text |-> text, title |-> None, alt |-> alt, website |-> None, spendSave |-> None,
                     modalSave |-> None, titlePct |-> None, pct |-> None, modalPct |-> None]
MastercardSite == <<<<<<[Block("a", "zara") EXCEPT !.pct = [n |-> 10, whole |-> TRUE]],
                        [Block("b", "ikea") EXCEPT !.pct = [n |-> 12, whole |-> FALSE]],
                        [Block("c", None) EXCEPT !.modalSave = [save |-> 50, spend |-> 250, cap |-> None]]>>>>>>

Wallet(name, percent) == [name |-> name, percent |-> percent, cap |-> None, active |-> TRUE, file |-> TRUE]
Chain(name, suffix, wallet) == [name |-> name, suffix |-> suffix, generic |-> FALSE, website |-> None, wallet |-> wallet]
BehatsdaaSite ==
  <<<<<<Chain(<<"ace">>, <<>>, Wallet("blue", 10)), Chain(<<"ace", "cube">>, <<>>, Wallet("blue", 10)),
        Chain(<<"victory">>, <<"online">>, Wallet("blue", 10))>>>>,
    <<<<Chain(<<"ace">>, <<>>, Wallet("red", 10))>>>>,
    <<<<Chain(<<"ace">>, <<>>, [Wallet("old", 5) EXCEPT !.active = FALSE])>>>>>>

Company(name, sn) == [company |-> name, desc |-> "shops", website |-> None, sn |-> sn, limitations |-> None]
HeverSite == <<<<<<Company("shilav", 1), Company("ksp", 2), Company(None, 3)>>>>>>

Branch(name, img, link) == [name |-> name, img |-> img, desc |-> None, website |-> None, link |-> link,
                            delivery |-> {"seated"}, limitations |-> None]
TeamimSite == <<<<<<Branch(<<"pizza", "gan">>, "p1", 1), Branch(<<"pizza", "rishon">>, "p1", 2),
                    Branch(<<"pizza", "rishon">>, "p2", 3), Branch(<<"moon">>, "default", 4),
                    Branch(<<"sun">>, "default", 5)>>>>>>

Entry(name, club, discounted) == [name |-> name, provider |-> <<"cafe">>, market |-> 150, club |-> club, discounted |-> discounted]
Product(id) == [id |-> id, name |-> <<"voucher", id>>, brand |-> <<"bulls", "burger">>, short |-> None, terms |-> None,
                prices |-> <<Entry(<<"bulls", "acre">>, 109, 129), Entry(<<"bulls", "haifa">>, 109, None)>>]
PaisSite == <<<<<<[id |-> 1]>>, <<[id |-> 2]>>>>, <<<<[id |-> 1], [id |-> 3]>>>>>>

Bracket(from, to, percent) == [from |-> from, to |-> to, percent |-> percent]
Rules == <<[member |-> "regular", brackets |-> <<Bracket(0, 10, 20), Bracket(10, 30, 10)>>],
           [member |-> "vip", brackets |-> <<Bracket(0, 10, 25)>>]>>
Chit(id, name) == [id |-> id, name |-> name, limits |-> None, rules |-> Rules]
Merchant(name) == [name |-> name, limits |-> None, site |-> None]
CardSite == <<<<<<Chit(1, "shops"), Chit(2, "market")>>>>>>
VipSite == <<<<<<Chit(1, "shops"), Chit(None, "market")>>>>>>
CardDetails == (1 :> <<Merchant("zara"), Merchant("hm")>>) @@ (2 :> <<>>) @@ (None :> <<>>)

Container(title, link) == [title |-> title, link |-> link, buy |-> None, reward |-> Reward("percent", 3)]
TopcashSite == <<<<<<Container("asos", "asos/1"), Container("ebay", None), Container(None, None)>>>>>>

Row(name, link) == [name |-> name, link |-> link, url |-> None, price |-> "5%", desc |-> <<name>>, terms |-> None]
LlmSite == <<<<<<Row("shein", "s/1")>>>>, <<<<Row("iherb", None), Row(None, None)>>>>>>
Page == [desc |-> None, terms |-> "terms"]

MCSites ==
  [hot |-> HotSite, mastercard |-> MastercardSite, behatsdaa |-> BehatsdaaSite, hever |-> HeverSite,
   teamim |-> TeamimSite, paisplus |-> PaisSite, networks_regular |-> CardSite, networks_vip |-> VipSite,
   topcash |-> TopcashSite, llm |-> LlmSite, swish |-> <<>>]

MCTruth ==
  [hot |-> [i \in 1..4 |-> HotDetail(i)], paisplus |-> [i \in 1..3 |-> Product(i)],
   networks_regular |-> CardDetails, networks_vip |-> CardDetails,
   topcash |-> ("asos/1" :> [desc |-> <<"cashback">>, terms |-> None]), llm |-> ("s/1" :> Page),
   swish |-> <<"spa", "spa", "bistro">>]

MCAliases == <<"ace">> :> <<"eis">>
MCLimitations == {<<"ace">>, <<"eis">>, <<"victory">>, <<"joint", "ace", "cube", "shops">>}

\* These sites are as the proofs ask.
ASSUME MCSitesAreTame == ChainsAreNamedApart /\ ChainsAreSplitOneWay /\ BranchesStayApart
=============================================================================
