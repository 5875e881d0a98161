----------------------------- MODULE MCBankFeed -----------------------------
(* Two requests of one user at a time, over two accounts, one of two pages: *)
(* one that asks for all transactions, and one of the smaller routes.       *)
EXTENDS BankFeed, TLC
CONSTANTS r1, r2, a1, a2
MCRoutes == (r1 :> {"categories"}) @@ (r2 :> {"byAccount", "token", "clubs"})
MCPages == (a1 :> 1) @@ (a2 :> 2)
=============================================================================
