---------------------------- MODULE MCCatalogue -----------------------------
(* A brand with an online storefront listed by two sources, a member of two  *)
(* gift cards, and a hand-made group of the brand and of the same member.    *)
EXTENDS Catalogue
CONSTANT golf

Name(words) == [words |-> words, branch |-> <<>>]
Row(name, url, category) ==
  [name |-> name, text |-> "Golf Online", source |-> "hot", url |-> url, domain |-> None, category |-> category]
MemberOf(name, text) ==
  [name |-> name, text |-> text, source |-> None, url |-> None, domain |-> None, category |-> None]

MCRecords ==
  [r1 |-> Row(Name(<<"golf", "online">>), "golf.co.il", None),
   r2 |-> [Row(Name(<<"golf", "online">>), None, None) EXCEPT !.source = "mastercard"],
   m1 |-> MemberOf(Name(<<"spa", "gaash">>), "Spa Gaash"), m2 |-> MemberOf(Name(<<"spa", "gaash">>), "Spa Gaash"),
   m3 |-> MemberOf(Name(<<"golf">>), "Golf"), m4 |-> MemberOf(Name(<<"spa", "gaash">>), "Spa Gaash")]

Seed(id, words, url, mcc) ==
  [id |-> id, name |-> Name(words), url |-> url, domain |-> None, mcc |-> mcc, by |-> "seed"]
MCStores == <<Seed(golf, <<"golf">>, "golf.co.il", {"fashion"})>>

MCGroups ==
  [fox |-> [managed |-> FALSE, members |-> <<[raw |-> "m3", store |-> None], [raw |-> "m4", store |-> None]>>],
   swish0 |-> [managed |-> TRUE, members |-> <<>>]]
MCCards == [swish1 |-> <<"m1">>, swish2 |-> <<"m2">>]

MCTypedNames == {Name(<<"golf", "web">>)}
MCTurns == [operator |-> 1, bulk |-> 2, hot |-> 1, swish |-> 1, pipeline |-> 2]
=============================================================================
