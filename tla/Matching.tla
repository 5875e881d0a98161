------------------------------ MODULE Matching -------------------------------
(***************************************************************************)
(* The names of stores, how they are normalized, and the pipeline of       *)
(* stages that matches a scraped name to a store of the catalogue.         *)
(*                                                                         *)
(* A name is its words, with those after a branch marker or a dash apart.  *)
(* The compact form of a name is the sequence of its words, its tokens are *)
(* the set of them.  What the string metrics measure is given: two forms   *)
(* are spellings of one name, or they are not; confidences are per cent.   *)
(***************************************************************************)
EXTENDS Integers, Sequences, FiniteSets, SequencesExt

CONSTANTS
  Spellings,       \* pairs {f, g} of compact forms the fuzzy stages take for one name
  LowInformation,  \* token sets that name a category, not a business
  OnlineWords,     \* the markers of an online storefront
  None

\* build_name_forms of the whole raw name, and of what the normalizer leaves of it.
Whole(name) == name.words \o name.branch
Stripped(name) == name.words

\* has_online_marker, over the raw name; strip_online_marker.
Online(form) == Range(form) \cap OnlineWords # {}
Offline(form) == SelectSeq(form, LAMBDA w : w \notin OnlineWords)

-----------------------------------------------------------------------------
(* AliasIndex: the aliases in their order, then every store's own name; those *)
(* that say nothing about who bears them are left out of every search.        *)

OwnNames(stores) == [k \in DOMAIN stores |-> [store |-> stores[k].id, form |-> Whole(stores[k].name)]]
Entries(stores, aliases) == aliases \o OwnNames(stores)
Telling(entries) == {k \in DOMAIN entries : Range(entries[k].form) \notin LowInformation}

\* Of these, the entries whose store is in the catalogue: the exact lookup asks for no store.
Held(entries, stores) == {k \in Telling(entries) : \E j \in DOMAIN stores : stores[j].id = entries[k].store}

Candidate(stage, confidence, store) == [stage |-> stage, confidence |-> confidence, store |-> store]
NoCandidate == Candidate(None, 0, None)

\* The places with the highest of their scores.
Foremost(places, score) == {k \in places : \A j \in places : score[j] <= score[k]}

\* The first of the entries at some places that score highest.
Highest(stage, entries, places, score) ==
  LET top == Foremost({k \in places : score[k] > 0}, score)
  IN IF top = {} THEN NoCandidate
     ELSE Candidate(stage, score[Min(top)], entries[Min(top)].store)

\* ExactAlias: the first entry with this compact form.
ExactAlias(form, entries) ==
  Highest("exact", entries, Telling(entries), [k \in DOMAIN entries |-> IF entries[k].form = form THEN 100 ELSE 0])

\* DomainMatch: the last store seeded with this domain.  Its confidence is above the
\* threshold of an automatic match.
DomainMatch(domain, stores) ==
  LET holders == {k \in DOMAIN stores : domain # None /\ stores[k].domain = domain}
  IN IF holders = {} THEN NoCandidate
     ELSE Candidate("domain", 95, stores[CHOOSE k \in holders : \A j \in holders : j <= k].id)

\* CompactForm and NormalizedFuzzy: the same spelling, or nothing.
Fuzzy(form, entries, stores) ==
  Highest("fuzzy", entries, Held(entries, stores), [k \in DOMAIN entries |-> IF {entries[k].form, form} \in Spellings THEN 94 ELSE 0])

\* ContainmentMatch: two words or more, all of them in the input, and enough of it.
Containment(form, entries, stores) ==
  LET share(own) == (100 * Cardinality(own)) \div Cardinality(Range(form))
      score(own) == IF Cardinality(own) >= 2 /\ own \subseteq Range(form) /\ share(own) >= 35
                    THEN 88 + (12 * share(own)) \div 100 ELSE 0
  IN Highest("containment", entries, Held(entries, stores), [k \in DOMAIN entries |-> score(Range(entries[k].form))])

\* TokenOverlap: the words in common, never enough for an automatic match.
TokenOverlap(form, entries, stores) ==
  LET overlap(own) == (100 * Cardinality(own \cap Range(form))) \div Cardinality(own \cup Range(form))
      score(own)   == IF own \cap Range(form) = {} \/ overlap(own) < 50 THEN 0
                      ELSE IF overlap(own) > 70 THEN 70 ELSE overlap(own)
  IN Highest("token", entries, Held(entries, stores), [k \in DOMAIN entries |-> score(Range(entries[k].form))])

\* MatchPipeline.match: the first stage that is sure, or the best of all.
Verdict(form, domain, stores, aliases) ==
  LET entries == Entries(stores, aliases)
      stages  == <<ExactAlias(form, entries), DomainMatch(domain, stores), Fuzzy(form, entries, stores),
                   Containment(form, entries, stores), TokenOverlap(form, entries, stores)>>
      sure    == {k \in 1..5 : stages[k].confidence >= 90}
      best    == Foremost({k \in 1..5 : stages[k].store # None}, [k \in 1..5 |-> stages[k].confidence])
  IN IF sure # {} THEN [auto |-> TRUE, store |-> stages[Min(sure)].store]
     ELSE [auto |-> FALSE, store |-> IF best = {} THEN None ELSE stages[Min(best)].store]
=============================================================================
