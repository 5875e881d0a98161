--------------------------- MODULE MCScrapePipeline ---------------------------
(***************************************************************************)
(* Instances of ScrapePipeline for TLC.                                    *)
(***************************************************************************)
EXTENDS ScrapePipeline, TLC

CONSTANT cA

Symmetry == Permutations(Keys)

\* Every content of every deal has a text of its own.
OwnText == [kc \in Keys \X Contents |-> kc]

Undated == [c \in Contents |-> NoDate]

\* Content cA declares an end date, cB declares none.
CAEndsAt2 == [c \in Contents |-> IF c = cA THEN 2 ELSE NoDate]
=============================================================================
