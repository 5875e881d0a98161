----------------------------- MODULE MCInsights -----------------------------
(***************************************************************************)
(* The rows a feed may hold: every way the provider reports a purchase, a   *)
(* plan, a discount, a loaded card or a refund, as the tests and comments   *)
(* of TransactionAmountService describe them, with what really happened.    *)
(***************************************************************************)
EXTENDS Insights, TLC
CONSTANTS a1, a2, a3

Shape(charged, original, currency, booked, plan, left, discount) ==
  [charged |-> charged, original |-> original, currency |-> currency, booked |-> booked,
   plan |-> plan, duplicate |-> FALSE, left |-> left, discount |-> discount]

Shapes ==
  { Shape(-6, -6, "same", TRUE, FALSE, 6, 0),       \* billed as asked
    Shape(Absent, -6, "same", FALSE, FALSE, 6, 0),    \* still to be billed
    Shape(0, 0, "same", TRUE, FALSE, 0, 0),         \* nothing moved
    Shape(-2, -8, "same", TRUE, TRUE, 2, 0),        \* a payment of a plan
    Shape(-2, -6, "same", TRUE, FALSE, 2, 0),       \* the same, the flag dropped
    Shape(-333, -1000, "same", TRUE, FALSE, 333, 0), \* a third, rounded to the cent
    Shape(-333, -1001, "same", TRUE, FALSE, 333, 668),\* a discount just beyond the tolerance
    Shape(Absent, -8, "same", FALSE, TRUE, 0, 0),     \* a payment still to come
    Shape(-3, -20, "other", TRUE, FALSE, 3, 0),     \* abroad
    Shape(Absent, -20, "unknown", FALSE, FALSE, 0, 0),\* abroad, not converted yet
    Shape(-4, -5, "same", TRUE, FALSE, 4, 1),       \* a statement discount
    Shape(Absent, -7, "same", TRUE, FALSE, 0, 7),     \* a loaded card paid
    Shape(0, -7, "same", TRUE, FALSE, 0, 7),
    Shape(5, 5, "same", TRUE, FALSE, -5, 0),        \* a refund
    Shape(2, 9, "other", TRUE, FALSE, -2, 0),       \* a refund from abroad
    Shape(Absent, 5, "same", TRUE, FALSE, -5, 0) }    \* credited, not charged

Where(t, account, merchant, category, ago, shops) ==
  t @@ [id |-> TRUE, account |-> account, merchant |-> merchant, category |-> category, ago |-> ago, shops |-> shops]

Exact == [band |-> "EXACT", mine |-> TRUE]
Strong == [band |-> "STRONG", mine |-> TRUE]
Similar == [band |-> "SIMILAR", mine |-> TRUE]
Weak == [band |-> "WEAK", mine |-> TRUE]
Foreigner == [band |-> "STRONG", mine |-> FALSE]

Twice(S) == S \cup {[t EXCEPT !.duplicate = TRUE, !.left = 0, !.discount = 0] : t \in S}

MCRows ==
  << Twice({Where(t, a1, 1, "food", 0, {Exact, Similar}) : t \in Shapes})
       \cup {Where(t, a1, 1, "food", 0, {Weak, Foreigner}) : t \in Shapes},
     {Where(t, a2, 2, "food", Days, {Strong, Similar}) : t \in Shapes}
       \cup Twice({Where(Shape(-2, -8, "same", TRUE, TRUE, 2, 0), a2, 2, "food", Days, {Strong})}),
     {Where(t, a1, 1, "fuel", Days + 1, {Strong}) : t \in Shapes}
       \cup {Where(Shape(-6, -6, "same", TRUE, FALSE, 6, 0), a1, 1, "food", Absent, {Similar}),
             Where(Shape(-4, -5, "same", TRUE, FALSE, 4, 1), a3, 3, "travel", 0, {Exact})}
       \cup {[Where(Shape(-4, -5, "same", TRUE, FALSE, 4, 1), a2, 1, "fuel", 1, {Exact}) EXCEPT !.id = FALSE]} >>
=============================================================================
