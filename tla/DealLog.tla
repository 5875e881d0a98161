------------------------------- MODULE DealLog -------------------------------
(***************************************************************************)
(* What the versioning layer promises its readers: every deal has a log of *)
(* numbered versions, one of which is published.  A version is drafted one *)
(* beyond the published one, may be drafted again as long as nobody was    *)
(* told of it, and is published as it stands; a published version never    *)
(* changes and is never taken back.                                        *)
(***************************************************************************)
EXTENDS Integers

CONSTANT Deals

VARIABLES
    log,        \* the versions: records with the deal, its version, its status, its content
    published   \* deal -> its published version, or Nothing

\* No version yet.
Nothing == [version |-> 0]

Init ==
    /\ log = {}
    /\ published = [d \in Deals |-> Nothing]

IsNext(e) == e.version = published[e.deal].version + 1

SameEntry(e, f) == e.deal = f.deal /\ e.version = f.version

\* The next versions of some deals, in the place of earlier drafts.
Draft(new) ==
    /\ \A e \in new : IsNext(e)
    /\ \A e, f \in new : e.deal = f.deal => e = f
    /\ log' = {e \in log : \A n \in new : ~SameEntry(e, n)} \union new
    /\ UNCHANGED published

\* The next versions of some deals go out, each as it is in the log.
Publish(new) ==
    /\ \A e \in new : IsNext(e) /\ published'[e.deal] = e
    /\ \A d \in Deals : published'[d] = published[d] \/ \E e \in new : e.deal = d
    /\ published' \in [Deals -> log \union {Nothing}]
    /\ UNCHANGED log

Next ==
    \/ \E new \in SUBSET log' : Draft(new)
    \/ \E new \in SUBSET log : Publish(new)

Spec == Init /\ [][Next]_<<log, published>>
=============================================================================
