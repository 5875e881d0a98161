----------------------------- MODULE MCOptimizer -----------------------------
(* Eleven deals of one store and the carts that are asked about. *)
EXTENDS Optimizer

CONSTANTS MaxOffered, Budgets

Silent == [status |-> "active", cond |-> "min_spend", cval |-> 0, rval |-> 0, ceiling |-> Nil,
           tiers |-> <<>>, accepts |-> {}, refuses |-> {}, store |-> "A", members |-> {}, group |-> Nil, source |-> Nil,
           member |-> FALSE, payMethod |-> FALSE, excludes |-> {}, perTx |-> Nil, perMonth |-> Nil]

Percent(type, rate) == Silent @@ [type |-> type, reward |-> "percentage_off"]

Ladder(a, ra, b, rb) == <<[from |-> 0, to |-> a, rate |-> ra], [from |-> a, to |-> b, rate |-> rb]>>

Deal(i) ==
  CASE i = 1 -> [Percent("store_sale", 0) EXCEPT !.rval = 20]
    [] i = 2 -> [Silent @@ [type |-> "coupon", reward |-> "fixed_discount_amount"]
                   EXCEPT !.rval = 400, !.cval = 1500, !.refuses = {"cashback"}]
    [] i = 3 -> [Percent("coupon", 0) EXCEPT !.rval = 50, !.perTx = 2]
    [] i = 4 -> [Silent @@ [type |-> "giftcard_discount", reward |-> "fixed_total_amount"]
                   EXCEPT !.cond = "voucher", !.cval = 400, !.rval = 300, !.perMonth = 2]
    [] i = 5 -> [Percent("payment_discount", 0) EXCEPT !.rval = 30, !.ceiling = 120, !.source = "s1", !.member = TRUE]
    [] i = 6 -> [Percent("giftcard_discount", 0) EXCEPT !.tiers = Ladder(300, 50, 800, 10), !.group = "card"]
    [] i = 7 -> [Percent("giftcard_discount", 0) EXCEPT !.tiers = Ladder(200, 40, 600, 20), !.group = "card"]
    [] i = 8 -> [Percent("cashback", 0) EXCEPT !.rval = 10, !.refuses = {"giftcard_discount"}, !.accepts = {"store_sale"}]
    [] i = 9 -> [Percent("coupon", 0) EXCEPT !.rval = 50, !.status = "expired"]
    [] i = 11 -> [Percent("giftcard_discount", 0) EXCEPT !.rval = 20, !.ceiling = 40, !.store = "B",
                    !.members = {"A"}, !.source = "new"]
    [] i = 10 -> [Percent("member_discount", 0) EXCEPT !.rval = 50, !.source = "s2", !.excludes = {"online"}]

MCCatalog == [i \in 1..11 |-> Deal(i) @@ [id |-> i]]

MCClubRows == [club_s1 |-> "s1", club_s2 |-> "s2"]
MCStripped == [club_s1 |-> "s1", club_s2 |-> "s2", club_new |-> "new"]

MCQueries ==
  {[deals |-> S, cart |-> c, quantity |-> 1, maxDeals |-> b, unknownAsYes |-> u, clubs |-> j, store |-> "A",
    requireSource |-> TRUE, preferred |-> {"online"}, used |-> [i \in 1..11 |-> 0]] :
      S \in {T \in SUBSET (1..11) : Cardinality(T) <= MaxOffered},
      c \in {400, 1600}, b \in Budgets, u \in BOOLEAN, j \in {Nil, {"club_s1", "club_new"}}}
=============================================================================
