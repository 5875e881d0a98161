----------------------- MODULE Personalization_proofs -------------------------
(***************************************************************************)
(* Proofs about the personalization service and the deal optimizer.        *)
(*                                                                         *)
(* The token of the Open Finance client, for any requests, accounts and    *)
(* routes, and any number of revocations, expiries and faults.  That no    *)
(* living token is ever thrown away (RefreshesAreCollapsed) is not         *)
(* inductive: the token that arrives replaces the one in the cache, so     *)
(* that one must be lost while a request for a token is under way          *)
(* (LostWhilePosting).  This holds when the request is posted, and as long *)
(* as no other request can put a new token into the cache: the lock        *)
(* (OnePosts).                                                             *)
(*                                                                         *)
(* That an answer is whole (AnswersCoverEveryAccount) rests on a request   *)
(* having the rows of every account as soon as it is past the step that    *)
(* asks for them (WholeWhenPast): it gets past it only once every call of  *)
(* the step is done.                                                       *)
(*                                                                         *)
(* What is answered from the rows, for any rows and any number of them:    *)
(* the totals are what really happened, and every split of a total adds up *)
(* to it.  An answer is given once, of the rows fetched, so that the       *)
(* invariant is only of what the rows may be (RowsOK).  The work is in the *)
(* sums.  A column of figures is added up in an order of the library's own *)
(* choosing; that the order does not matter, that columns may be split by  *)
(* any label of their rows, and that piles without rows may be left out or *)
(* kept, comes first.                                                      *)
(*                                                                         *)
(* What the deal optimizer offers, for any catalogue, cart and budget: an  *)
(* option can be carried out, and costs what it was ranked by.  No search  *)
(* is repeated here; what counts is what the search keeps.  Every state of *)
(* the sweep is the one it was grown from with one vertex more, at the     *)
(* price that leaves (ChainTable), so that walking back from it and        *)
(* pricing forward meets the same prices.  Every split of what is left     *)
(* covers no more than the bill and saves no more than it covers           *)
(* (IsSplit), which each pass of the fill keeps (Filled).                  *)
(***************************************************************************)
EXTENDS BankFeed, Insights, Optimizer, FiniteSetTheorems, WellFoundedInduction, TLAPS

-----------------------------------------------------------------------------
(* The token of the bank feed.                                             *)


PCs == {"idle", "ready", "waiting", "posting", "sent", "done", "failed"}
Errors == {None, "refused", "timedOut", "noToken"}

CallStates == [pc : PCs, token : Nat \cup {None}, refused : SUBSET Nat, error : Errors]

TokenTypeOK ==
  /\ issued \in Nat
  /\ cached \in Nat \cup {None}
  /\ revoked \subseteq 1 .. issued
  /\ call \in [Calls -> CallStates]

\* Only the holder of the lock asks for a token.
OnePosts == \A c \in Calls : call[c].pc = "posting" => holder = c

\* A token refused to a call is a revoked one, and so no token still to come.
RefusedIsRevoked == \A c \in Calls : call[c].refused \subseteq revoked

Lost == revoked \cup expired

\* While a token is asked for there is none in the cache, or a lost one.
LostWhilePosting == \A c \in Calls : call[c].pc = "posting" => cached = None \/ cached \in Lost

TokenInv ==
  /\ TokenTypeOK /\ OnePosts /\ RefusedIsRevoked /\ LostWhilePosting
  /\ RefreshesAreCollapsed /\ RetriesUseAnotherToken

-----------------------------------------------------------------------------
\* A call that has not begun is one of the states of a call.
LEMMA IdleState == Idle \in CallStates /\ Idle.refused = {} /\ Idle.pc = "idle"
BY DEF Idle, CallStates, PCs, Errors

\* A call that is past the token shows it to the bank, or is over.
LEMMA Carried ==
  ASSUME TokenTypeOK, NEW c \in Calls, NEW t \in Nat, Carry(c, t)
  PROVE  /\ call' \in [Calls -> CallStates]
         /\ \A d \in Calls : d # c => call'[d] = call[d]
         /\ call'[c].pc \in {"sent", "done"}
         /\ call'[c].refused \subseteq call[c].refused
         /\ call'[c].pc = "sent" => call'[c].token = t
<1>1. call[c] \in CallStates  BY DEF TokenTypeOK
<1>2. CASE c[2] = Token
  BY <1>1, <1>2 DEF Carry, TokenTypeOK, CallStates, Idle, PCs, Errors
<1>3. CASE c[2] # Token
  BY <1>1, <1>3 DEF Carry, TokenTypeOK, CallStates, PCs
<1> QED  BY <1>2, <1>3

\* A call that fails shows and asks for nothing any more.
LEMMA CallFailed ==
  ASSUME TokenTypeOK, NEW c \in Calls, NEW error \in Errors, FailCall(c, error)
  PROVE  /\ call' \in [Calls -> CallStates]
         /\ \A d \in Calls : d # c => call'[d] = call[d]
         /\ call'[c].pc = "failed" /\ call'[c].refused = {}
BY DEF FailCall, TokenTypeOK, CallStates, Idle, PCs, Errors

\* What a step may do to the calls as long as the token, the lock and what is lost stay:
\* move one of them to a place where it neither asks nor shows, or shows the cached
\* token it has not been refused.
LEMMA OneCallMoves ==
  ASSUME TokenInv, NEW c \in Calls,
         call' \in [Calls -> CallStates],
         \A d \in Calls : d # c => call'[d] = call[d],
         call'[c].pc # "posting", call'[c].refused \subseteq revoked,
         call'[c].pc = "sent" => call'[c].token \notin call'[c].refused,
         UNCHANGED <<cached, issued, revoked, expired>>,
         holder' \in {holder, None}, holder' = holder \/ holder = c
  PROVE  TokenInv'
<1>1. TokenTypeOK'  BY DEF TokenInv, TokenTypeOK
<1>2. OnePosts'  BY DEF TokenInv, OnePosts
<1>3. RefusedIsRevoked'  BY DEF TokenInv, RefusedIsRevoked
<1>4. LostWhilePosting'  BY DEF TokenInv, LostWhilePosting, Lost
<1>5. RefreshesAreCollapsed'  BY DEF TokenInv, RefreshesAreCollapsed
<1>6. RetriesUseAnotherToken'  BY DEF TokenInv, RetriesUseAnotherToken
<1> QED  BY <1>1, <1>2, <1>3, <1>4, <1>5, <1>6 DEF TokenInv

\* A call that finds the cache unusable takes the free lock and asks for a token.
LEMMA LockTaken ==
  ASSUME TokenInv, NEW c \in Calls, ~Usable(c), holder = None, holder' = c,
         call' = [call EXCEPT ![c].pc = "posting"],
         UNCHANGED <<cached, issued, revoked, expired>>
  PROVE  TokenInv'
<1>0. /\ call' \in [Calls -> CallStates]
      /\ \A d \in Calls : d # c => call'[d] = call[d]
      /\ call'[c].pc = "posting" /\ call'[c].refused = call[c].refused
  BY DEF TokenInv, TokenTypeOK, CallStates, PCs
<1>1. cached = None \/ cached \in Lost
  BY DEF Usable, TokenInv, RefusedIsRevoked, Lost
<1>2. \A d \in Calls : call[d].pc # "posting"
  BY NoneAssumption DEF TokenInv, OnePosts
<1>3. TokenTypeOK'  BY <1>0 DEF TokenInv, TokenTypeOK
<1>4. OnePosts'  BY <1>0, <1>2 DEF TokenInv, OnePosts
<1>5. RefusedIsRevoked'  BY <1>0 DEF TokenInv, RefusedIsRevoked
<1>6. LostWhilePosting'  BY <1>0, <1>1, <1>2 DEF LostWhilePosting, Lost
<1>7. RefreshesAreCollapsed'  BY DEF TokenInv, RefreshesAreCollapsed
<1>8. RetriesUseAnotherToken'  BY <1>0 DEF TokenInv, RetriesUseAnotherToken
<1> QED  BY <1>3, <1>4, <1>5, <1>6, <1>7, <1>8 DEF TokenInv

\* A call carries on with the token of the cache, which it was not refused.
LEMMA CachedTokenCarried ==
  ASSUME TokenInv, NEW c \in Calls, Usable(c), Carry(c, cached),
         UNCHANGED <<cached, issued, revoked, expired, holder>>
  PROVE  TokenInv'
<1>1. cached \in Nat /\ cached \notin call[c].refused
  BY DEF Usable, TokenInv, TokenTypeOK
<1>2. /\ call' \in [Calls -> CallStates]
      /\ \A d \in Calls : d # c => call'[d] = call[d]
      /\ call'[c].pc \in {"sent", "done"}
      /\ call'[c].refused \subseteq call[c].refused
      /\ call'[c].pc = "sent" => call'[c].token = cached
  BY <1>1, Carried DEF TokenInv
<1>3. call'[c].refused \subseteq revoked
  BY <1>2 DEF TokenInv, RefusedIsRevoked
<1> QED  BY <1>1, <1>2, <1>3, OneCallMoves

\* The token that arrives replaces none that lives, and nobody was refused it.
LEMMA TokenArrived ==
  ASSUME TokenInv, NEW c \in Calls, TokenArrives(c)
  PROVE  TokenInv'
<1>1. /\ call[c].pc = "posting" /\ issued' = issued + 1 /\ cached' = issued + 1
      /\ Carry(c, issued + 1) /\ UNCHANGED <<revoked, expired>>
  BY DEF TokenArrives
<1>2. issued \in Nat /\ issued + 1 \in Nat /\ revoked \subseteq 1 .. issued
  BY DEF TokenInv, TokenTypeOK
<1>3. /\ call' \in [Calls -> CallStates]
      /\ \A d \in Calls : d # c => call'[d] = call[d]
      /\ call'[c].pc \in {"sent", "done"}
      /\ call'[c].refused \subseteq call[c].refused
      /\ call'[c].pc = "sent" => call'[c].token = issued + 1
  BY <1>1, <1>2, Carried DEF TokenInv
<1>4. \A d \in Calls : d # c => call[d].pc # "posting"
  BY <1>1 DEF TokenInv, OnePosts
<1>5. TokenTypeOK'  BY <1>1, <1>2, <1>3 DEF TokenTypeOK
<1>6. OnePosts'  BY <1>3, <1>4 DEF OnePosts
<1>7. RefusedIsRevoked'  BY <1>1, <1>3 DEF TokenInv, RefusedIsRevoked
<1>8. LostWhilePosting'  BY <1>3, <1>4 DEF LostWhilePosting
<1>9. RefreshesAreCollapsed'
  <2> SUFFICES ASSUME NEW t \in 1 .. issued + 1, t # issued + 1
               PROVE  t \in revoked \cup expired
    BY <1>1 DEF RefreshesAreCollapsed
  <2>1. t \in 1 .. issued  BY <1>2
  <2>2. CASE t # cached  BY <2>1, <2>2 DEF TokenInv, RefreshesAreCollapsed
  <2>3. CASE t = cached
    BY <1>1, <2>1, <2>3, NoneAssumption DEF TokenInv, LostWhilePosting, Lost
  <2> QED  BY <2>2, <2>3
<1>10. RetriesUseAnotherToken'
  <2>1. issued + 1 \notin call[c].refused
    BY <1>2 DEF TokenInv, RefusedIsRevoked
  <2> QED  BY <1>3, <2>1 DEF TokenInv, RetriesUseAnotherToken
<1> QED  BY <1>5, <1>6, <1>7, <1>8, <1>9, <1>10 DEF TokenInv

-----------------------------------------------------------------------------
\* The initial states satisfy the invariant.
LEMMA TokenInvInit == Init => TokenInv
<1> SUFFICES ASSUME Init PROVE TokenInv
  OBVIOUS
<1>1. /\ call = [c \in Calls |-> Idle] /\ cached = None /\ issued = 0 /\ revoked = {}
  BY DEF Init
<1> QED
  BY <1>1, IdleState DEF TokenInv, TokenTypeOK, OnePosts, RefusedIsRevoked, LostWhilePosting,
                         RefreshesAreCollapsed, RetriesUseAnotherToken

\* A step of a call, one that fails included, preserves the invariant.
LEMMA CallStepKeeps ==
  ASSUME TokenInv, NEW c \in Calls, CallStep(c) \/ CallFault(c)
  PROVE  TokenInv'
<1>0. call[c] \in CallStates /\ call[c].refused \subseteq revoked
  BY DEF TokenInv, TokenTypeOK, RefusedIsRevoked
<1>1. CASE TakeToken(c)
  <2>0. UNCHANGED <<cached, issued, revoked, expired>>  BY <1>1 DEF TakeToken
  <2>1. CASE Usable(c) /\ Carry(c, cached) /\ UNCHANGED <<holder, waiting>>
    BY <2>0, <2>1, CachedTokenCarried
  <2>2. CASE ~Usable(c) /\ holder = None /\ holder' = c /\ call' = [call EXCEPT ![c].pc = "posting"]
    BY <2>0, <2>2, LockTaken
  <2>3. CASE call' = [call EXCEPT ![c].pc = "waiting"] /\ UNCHANGED holder
    <3>1. /\ call' \in [Calls -> CallStates] /\ \A d \in Calls : d # c => call'[d] = call[d]
          /\ call'[c].pc = "waiting" /\ call'[c].refused = call[c].refused
      BY <2>3 DEF TokenInv, TokenTypeOK, CallStates, PCs
    <3> QED  BY <1>0, <2>0, <2>3, <3>1, OneCallMoves
  <2> QED  BY <1>1, <2>1, <2>2, <2>3 DEF TakeToken
<1>2. CASE Wake(c)
  <2>0. UNCHANGED <<cached, issued, revoked, expired>> /\ holder = None  BY <1>2 DEF Wake
  <2>1. CASE Usable(c)
    BY <1>2, <2>0, <2>1, CachedTokenCarried DEF Wake
  <2>2. CASE ~Usable(c)
    BY <1>2, <2>0, <2>2, LockTaken DEF Wake
  <2> QED  BY <2>1, <2>2
<1>3. CASE TokenArrives(c)
  BY <1>3, TokenArrived
<1>4. CASE TokenFails(c)
  <2>1. PICK error \in {"refused", "timedOut", "noToken"} : FailCall(c, error)
    BY <1>4 DEF TokenFails
  <2>2. /\ call' \in [Calls -> CallStates] /\ \A d \in Calls : d # c => call'[d] = call[d]
        /\ call'[c].pc = "failed" /\ call'[c].refused = {}
    BY <2>1, CallFailed DEF TokenInv, Errors
  <2>3. holder = c /\ holder' = None /\ UNCHANGED <<cached, issued, revoked, expired>>
    BY <1>4 DEF TokenFails, TokenInv, OnePosts
  <2> QED  BY <2>2, <2>3, OneCallMoves
<1>5. CASE BankAccepts(c)
  <2>1. /\ call' = [call EXCEPT ![c] = [Idle EXCEPT !.pc = "done"]]
        /\ UNCHANGED <<cached, issued, revoked, expired, holder>>
    BY <1>5 DEF BankAccepts
  <2>2. /\ call' \in [Calls -> CallStates] /\ \A d \in Calls : d # c => call'[d] = call[d]
        /\ call'[c].pc = "done" /\ call'[c].refused = {}
    BY <2>1 DEF TokenInv, TokenTypeOK, CallStates, Idle, PCs, Errors
  <2> QED  BY <2>1, <2>2, OneCallMoves
<1>6. CASE BankRefuses(c)
  <2>0. UNCHANGED <<cached, issued, revoked, expired, holder>> /\ call[c].token \in revoked
    BY <1>6 DEF BankRefuses
  <2>1. CASE call[c].refused = {}
    <3>1. call' = [call EXCEPT ![c] = [Idle EXCEPT !.pc = "ready", !.refused = {call[c].token}]]
      BY <1>6, <2>1 DEF BankRefuses
    <3>2. call[c].token \in Nat
      <4>1. issued \in Nat /\ call[c].token \in 1 .. issued
        BY <2>0 DEF TokenInv, TokenTypeOK
      <4> QED  BY <4>1
    <3>3. /\ call' \in [Calls -> CallStates] /\ \A d \in Calls : d # c => call'[d] = call[d]
          /\ call'[c].pc = "ready" /\ call'[c].refused = {call[c].token}
      BY <3>1, <3>2 DEF TokenInv, TokenTypeOK, CallStates, Idle, PCs, Errors
    <3> QED  BY <2>0, <3>3, OneCallMoves
  <2>2. CASE call[c].refused # {}
    <3>1. FailCall(c, "refused") /\ "refused" \in Errors /\ TokenTypeOK
      BY <1>6, <2>2 DEF BankRefuses, TokenInv, Errors
    <3>2. /\ call' \in [Calls -> CallStates] /\ \A d \in Calls : d # c => call'[d] = call[d]
          /\ call'[c].pc = "failed" /\ call'[c].refused = {}
      BY <3>1, CallFailed
    <3> QED  BY <2>0, <3>2, OneCallMoves
  <2> QED  BY <2>1, <2>2
<1>7. CASE BankFails(c)
  <2>1. PICK error \in {"refused", "timedOut"} : FailCall(c, error)
    BY <1>7 DEF BankFails
  <2>2. /\ call' \in [Calls -> CallStates] /\ \A d \in Calls : d # c => call'[d] = call[d]
        /\ call'[c].pc = "failed" /\ call'[c].refused = {}
    BY <2>1, CallFailed DEF TokenInv, Errors
  <2>3. UNCHANGED <<cached, issued, revoked, expired, holder>>
    BY <1>7 DEF BankFails
  <2> QED  BY <2>2, <2>3, OneCallMoves
<1> QED
  BY <1>1, <1>2, <1>3, <1>4, <1>5, <1>6, <1>7 DEF CallStep, CallFault

\* A step of a request, between its calls, preserves the invariant.
LEMMA RequestStepKeeps ==
  ASSUME TokenInv, NEW r \in Requests, RequestStep(r)
  PROVE  TokenInv'
<1>1. UNCHANGED <<cached, issued, holder, revoked, expired>>
  BY DEF RequestStep, ReadUser, Ask, Collect, Break, tokenVars
<1>2. CASE UNCHANGED call
  BY <1>1, <1>2 DEF TokenInv, TokenTypeOK, OnePosts, RefusedIsRevoked, LostWhilePosting, Lost,
                    RefreshesAreCollapsed, RetriesUseAnotherToken
<1>3. CASE Ask(r)
  <2> DEFINE Asked == [Idle EXCEPT !.pc = "ready"]
  <2>0. Asked \in CallStates /\ Asked.pc = "ready" /\ Asked.refused = {}
    BY DEF Idle, CallStates, PCs, Errors
  <2> HIDE DEF Asked
  <2>2. call' = [c \in Calls |-> IF c \in CallsOf(r) THEN Asked ELSE call[c]]
    BY <1>3 DEF Ask, Asked
  <2>1. /\ call' \in [Calls -> CallStates]
        /\ \A c \in Calls :
             call'[c] = call[c] \/ (call'[c].pc = "ready" /\ call'[c].refused = {})
    BY <2>0, <2>2 DEF TokenInv, TokenTypeOK
  <2> QED
    BY <1>1, <2>1 DEF TokenInv, TokenTypeOK, OnePosts, RefusedIsRevoked, LostWhilePosting, Lost,
                      RefreshesAreCollapsed, RetriesUseAnotherToken
<1> QED  BY <1>2, <1>3 DEF RequestStep, ReadUser, Collect, Break

\* The bank, the clock and the gateway only ever lose tokens.
LEMMA WorldKeeps ==
  ASSUME TokenInv, Revoke \/ Expire \/ DeleteUser \/ UNCHANGED vars
  PROVE  TokenInv'
<1>1. /\ UNCHANGED <<cached, issued, holder, call>>
      /\ revoked \subseteq revoked' /\ revoked' \subseteq 1 .. issued
      /\ expired \subseteq expired'
  BY DEF Revoke, Expire, DeleteUser, vars, tokenVars, TokenInv, TokenTypeOK
<1> QED
  BY <1>1 DEF TokenInv, TokenTypeOK, OnePosts, RefusedIsRevoked, LostWhilePosting, Lost,
              RefreshesAreCollapsed, RetriesUseAnotherToken

\* Every step preserves the invariant.
LEMMA TokenInvStep == TokenInv /\ [Next]_vars => TokenInv'
BY CallStepKeeps, RequestStepKeeps, WorldKeeps DEF Next

-----------------------------------------------------------------------------
\* The invariant of the token holds in every reachable state.
THEOREM TokenInvariant == Spec => []TokenInv
BY TokenInvInit, TokenInvStep, PTL DEF Spec

\* However many calls find the cache empty, expired or refused at once, no token that
\* lives is replaced: one request for a token serves them all.
THEOREM Collapsed == Spec => []RefreshesAreCollapsed
<1>1. TokenInv => RefreshesAreCollapsed  BY DEF TokenInv
<1> QED  BY <1>1, TokenInvariant, PTL

\* No call shows the bank a token the bank has refused it.
THEOREM AnotherToken == Spec => []RetriesUseAnotherToken
<1>1. TokenInv => RetriesUseAnotherToken  BY DEF TokenInv
<1> QED  BY <1>1, TokenInvariant, PTL

-----------------------------------------------------------------------------
(* Answers.                                                                *)

StepKinds == {"token", "accounts", "one", "transactions", "user"}
Ends == Errors \cup {"notRegistered"}

RequestStates == [route : DOMAIN Steps, at : Nat, rows : SUBSET (Accounts \X {1}), error : Ends]

RequestTypeOK == request \in [Requests -> RequestStates]

\* A request that is past the step that asks for all transactions has the rows of every
\* account.
WholeWhenPast ==
  \A r \in Requests : \A i \in 1 .. Len(Plan(r)) :
    i < request[r].at /\ Plan(r)[i] = "transactions" => \A a \in Accounts : <<a, 1>> \in request[r].rows

AnswerInv == RequestTypeOK /\ WholeWhenPast

\* The plan of every route is a sequence of steps.
LEMMA PlansAreSequences == \A route \in DOMAIN Steps : Steps[route] \in Seq(StepKinds)
<1>1. /\ UserAccounts \in Seq(StepKinds) /\ AccessToken \in Seq(StepKinds)
      /\ OneAccount \in Seq(StepKinds) /\ Clubs \in Seq(StepKinds)
  BY DEF UserAccounts, AccessToken, OneAccount, Clubs, StepKinds
<1>2. AllTransactions \in Seq(StepKinds)
  BY <1>1 DEF AllTransactions, StepKinds
<1>3. Categories \in Seq(StepKinds) /\ Savings \in Seq(StepKinds)
  BY <1>2 DEF Categories, Savings, StepKinds
<1> HIDE DEF UserAccounts, AccessToken, OneAccount, Clubs, AllTransactions, Categories, Savings
<1> QED
  BY <1>1, <1>2, <1>3
     DEF Steps, Spending, Totals, calculate_user_categories, calculate_top_accounts,
         calculate_top_stores, calculate_spending_by_day_in_week,
         calculate_spending_difference_between_two_periods, calculate_spending_total,
         calculate_spending_saved, calculate_spending_saved_by_account, matching_clubs,
         savings_opportunities, get_user_access_token, get_user_accounts,
         get_user_transactions_by_account, get_user_transactions

\* Only a request without an error is answered with 200.
LEMMA OnlySuccessIs200 ==
  ASSUME NEW error \in Ends, Status(error) = 200
  PROVE  error = None
BY DEF Status, Ends, Errors

\* The calls of the step that asks for all transactions are one of each account.
LEMMA EveryAccountIsAsked ==
  ASSUME NEW r \in Requests, Step(r) = "transactions"
  PROVE  CallsOf(r) = {<<r, a>> : a \in Accounts}
BY DEF CallsOf

\* The calls a step makes are calls of its request.
LEMMA CallsAreCalls == \A r \in Requests : CallsOf(r) \subseteq Calls
<1> SUFFICES ASSUME NEW r \in Requests, NEW c \in CallsOf(r) PROVE c \in Calls
  OBVIOUS
<1> QED  BY BankFeedAssumption DEF CallsOf, Calls, Items

\* A request that goes on is past one step more, and keeps the rows it has.
LEMMA Advanced ==
  ASSUME RequestTypeOK, NEW r \in Requests, NEW arrived \in SUBSET (Accounts \X {1}), Advance(r, arrived)
  PROVE  /\ RequestTypeOK'
         /\ request'[r].at = request[r].at + 1 /\ request'[r].rows = request[r].rows \cup arrived
         /\ \A q \in Requests : request'[q].route = request[q].route
         /\ \A q \in Requests : q # r => request'[q] = request[q]
<1>1. request[r] \in RequestStates  BY DEF RequestTypeOK
<1> DEFINE Past == [request[r] EXCEPT !.at = @ + 1]
<1> DEFINE New == [Past EXCEPT !.rows = @ \cup arrived]
<1>2. /\ Past \in RequestStates /\ Past.at = request[r].at + 1
      /\ Past.route = request[r].route /\ Past.rows = request[r].rows
  BY <1>1 DEF RequestStates
<1>3. request' = [request EXCEPT ![r] = New]
  BY <1>1 DEF Advance, RequestTypeOK, RequestStates
<1> HIDE DEF Past
<1>4. /\ New \in RequestStates /\ New.at = Past.at
      /\ New.route = Past.route /\ New.rows = Past.rows \cup arrived
  BY <1>2 DEF RequestStates
<1> HIDE DEF New
<1> QED  BY <1>2, <1>3, <1>4 DEF RequestTypeOK

\* A request that goes on keeps the invariant, provided the step it leaves has brought
\* it what it asked for.
LEMMA AdvanceKeeps ==
  ASSUME AnswerInv, NEW r \in Requests, NEW arrived \in SUBSET (Accounts \X {1}), Advance(r, arrived),
         ~Ended(r), Step(r) = "transactions" => \A a \in Accounts : <<a, 1>> \in arrived
  PROVE  AnswerInv'
<1>0. RequestTypeOK  BY DEF AnswerInv
<1>1. /\ RequestTypeOK'
      /\ request'[r].at = request[r].at + 1 /\ request'[r].rows = request[r].rows \cup arrived
      /\ \A q \in Requests : request'[q].route = request[q].route
      /\ \A q \in Requests : q # r => request'[q] = request[q]
  BY <1>0, Advanced
<1>2. WholeWhenPast'
  <2> SUFFICES ASSUME NEW q \in Requests, NEW i \in 1 .. Len(Plan(q)),
                      i < request'[q].at, Plan(q)[i] = "transactions", NEW a \in Accounts
               PROVE  <<a, 1>> \in request'[q].rows
    BY <1>1 DEF WholeWhenPast, Plan
  <2>1. CASE q # r
    BY <1>1, <2>1 DEF AnswerInv, WholeWhenPast
  <2>2. CASE q = r
    <3>1. request[r].at \in Nat /\ i \in Nat
      BY <1>0 DEF RequestTypeOK, RequestStates
    <3>2. CASE i < request[r].at
      BY <1>1, <2>2, <3>2 DEF AnswerInv, WholeWhenPast
    <3>3. CASE i = request[r].at
      BY <1>1, <2>2, <3>3 DEF Step
    <3> QED  BY <1>1, <2>2, <3>1, <3>2, <3>3
  <2> QED  BY <2>1, <2>2
<1> QED  BY <1>1, <1>2 DEF AnswerInv

\* A request that ends in an error keeps its place and its rows.
LEMMA FailKeeps ==
  ASSUME AnswerInv, NEW r \in Requests, NEW error \in Ends, Fail(r, error)
  PROVE  AnswerInv'
<1>1. /\ RequestTypeOK'
      /\ \A q \in Requests : /\ request'[q].route = request[q].route
                             /\ request'[q].at = request[q].at
                             /\ request'[q].rows = request[q].rows
  BY DEF AnswerInv, RequestTypeOK, RequestStates, Fail
<1>2. WholeWhenPast'
  BY <1>1 DEF AnswerInv, WholeWhenPast, Plan
<1> QED  BY <1>1, <1>2 DEF AnswerInv

\* The initial states satisfy the invariant.
LEMMA AnswerInvInit == Init => AnswerInv
<1> SUFFICES ASSUME Init PROVE AnswerInv
  OBVIOUS
<1>1. PICK route \in [Requests -> UNION {Routes[r] : r \in Requests}] :
        /\ \A r \in Requests : route[r] \in Routes[r]
        /\ request = [r \in Requests |-> [route |-> route[r], at |-> 1, rows |-> {}, error |-> None]]
  BY DEF Init
<1>2. \A r \in Requests : route[r] \in DOMAIN Steps
  BY <1>1, RoutesAssumption
<1>3. RequestTypeOK
  BY <1>1, <1>2 DEF RequestTypeOK, RequestStates, Ends, Errors
<1>4. \A r \in Requests : request[r].at = 1
  BY <1>1
<1>5. WholeWhenPast
  <2> SUFFICES ASSUME NEW r \in Requests, NEW i \in 1 .. Len(Plan(r)), i < request[r].at
               PROVE  FALSE
    BY DEF WholeWhenPast
  <2>1. Plan(r) \in Seq(StepKinds)
    BY <1>3, PlansAreSequences DEF Plan, RequestTypeOK, RequestStates
  <2> QED  BY <1>4, <2>1
<1> QED  BY <1>3, <1>5 DEF AnswerInv

\* Every step preserves the invariant.
LEMMA AnswerInvStep == TokenTypeOK /\ AnswerInv /\ [Next]_vars => AnswerInv'
<1> SUFFICES ASSUME TokenTypeOK, AnswerInv, [Next]_vars PROVE AnswerInv'
  OBVIOUS
<1>1. CASE UNCHANGED request
  BY <1>1 DEF AnswerInv, RequestTypeOK, WholeWhenPast, Plan
<1>2. ASSUME NEW r \in Requests, ReadUser(r) PROVE AnswerInv'
  <2>0. ~Ended(r) /\ Step(r) # "transactions"  BY <1>2 DEF ReadUser
  <2>1. CASE Advance(r, {})  BY <2>0, <2>1, AdvanceKeeps
  <2>2. CASE Fail(r, "notRegistered")  BY <2>2, FailKeeps DEF Ends
  <2> QED  BY <1>2, <2>1, <2>2 DEF ReadUser
<1>3. ASSUME NEW r \in Requests, Collect(r) PROVE AnswerInv'
  <2> DEFINE RowsNow == UNION {Batch(c[2]) : c \in {d \in CallsOf(r) : d[2] \in Accounts}}
  <2>1. Advance(r, RowsNow) /\ ~Ended(r)
    BY <1>3 DEF Collect
  <2>2. RowsNow \in SUBSET (Accounts \X {1})
    BY DEF Batch
  <2>3. ASSUME Step(r) = "transactions", NEW a \in Accounts PROVE <<a, 1>> \in RowsNow
    <3>1. <<r, a>> \in {d \in CallsOf(r) : d[2] \in Accounts}
      BY <2>3, EveryAccountIsAsked
    <3>2. <<a, 1>> \in Batch(<<r, a>>[2])
      BY DEF Batch
    <3> QED  BY <3>1, <3>2
  <2> HIDE DEF RowsNow
  <2> QED  BY <2>1, <2>2, <2>3, AdvanceKeeps
<1>4. ASSUME NEW r \in Requests, Break(r) PROVE AnswerInv'
  <2>1. PICK c \in CallsOf(r) : Fail(r, call[c].error) /\ call[c].pc = "failed"
    BY <1>4 DEF Break
  <2>2. c \in Calls
    BY <2>1, CallsAreCalls
  <2>3. call[c].error \in Ends
    BY <2>2 DEF TokenTypeOK, CallStates, Ends
  <2> QED  BY <2>1, <2>3, FailKeeps
<1>5. ASSUME NEW c \in Calls, CallStep(c) \/ CallFault(c) PROVE UNCHANGED request
  BY <1>5 DEF CallStep, CallFault, TakeToken, Wake, TokenArrives, BankAccepts, BankRefuses,
              TokenFails, BankFails
<1>6. ASSUME NEW r \in Requests, Ask(r) PROVE UNCHANGED request
  BY <1>6 DEF Ask
<1>7. Revoke \/ Expire \/ DeleteUser \/ UNCHANGED vars => UNCHANGED request
  BY DEF Revoke, Expire, DeleteUser, vars
<1> QED
  BY <1>1, <1>2, <1>3, <1>4, <1>5, <1>6, <1>7 DEF Next, RequestStep

\* A request that ends with an answer and asked for all transactions has the batch of
\* every account, whatever calls failed or came late.
THEOREM WholeAnswers == Spec => []AnswersCoverEveryAccount
<1>1. AnswerInv => AnswersCoverEveryAccount
  <2> SUFFICES ASSUME AnswerInv, NEW r \in Requests, Ended(r), Status(request[r].error) = 200,
                      "transactions" \in {Plan(r)[i] : i \in DOMAIN Plan(r)}, NEW a \in Accounts
               PROVE  \E row \in request[r].rows : row[1] = a
    BY DEF AnswersCoverEveryAccount
  <2>1. request[r] \in RequestStates
    BY DEF AnswerInv, RequestTypeOK
  <2>2. request[r].error = None
    BY <2>1, OnlySuccessIs200 DEF RequestStates
  <2>3. Plan(r) \in Seq(StepKinds)
    BY <2>1, PlansAreSequences DEF Plan, RequestStates
  <2>4. PICK i \in DOMAIN Plan(r) : Plan(r)[i] = "transactions"
    OBVIOUS
  <2>5. i \in 1 .. Len(Plan(r)) /\ i < request[r].at
    BY <2>1, <2>2, <2>3 DEF Ended, RequestStates
  <2>6. <<a, 1>> \in request[r].rows
    BY <2>4, <2>5 DEF AnswerInv, WholeWhenPast
  <2>7. <<a, 1>>[1] = a
    OBVIOUS
  <2> QED  BY <2>6, <2>7
<1>2. TokenInv => TokenTypeOK  BY DEF TokenInv
<1>3. Spec => []AnswerInv
  BY <1>2, AnswerInvInit, AnswerInvStep, TokenInvariant, PTL DEF Spec
<1> QED  BY <1>1, <1>3, PTL

-----------------------------------------------------------------------------
(* Induction, over a set in the place of a predicate.                      *)

\* What holds of a subset as soon as it holds of all that are strictly in it holds of
\* every subset of a finite set.
LEMMA SubsetInduction ==
  ASSUME NEW S, IsFiniteSet(S), NEW P,
         \A T \in SUBSET S : (\A U \in SUBSET T : U # T => U \in P) => T \in P
  PROVE  \A T \in SUBSET S : T \in P
<1> DEFINE Bad == {T \in SUBSET S : T \notin P}
           R == StrictSubsetOrdering(S)
<1> SUFFICES ASSUME Bad # {} PROVE FALSE
  OBVIOUS
<1>1. IsWellFoundedOn(R, SUBSET S)
  <2>1. IsWellFoundedOn(R, FiniteSubsetsOf(S))
    BY FS_StrictSubsetOrderingWellFounded
  <2>2. FiniteSubsetsOf(S) = SUBSET S
    BY FS_FiniteSubsetsOfFinite
  <2> QED  BY <2>1, <2>2
<1>2. \A U, T \in SUBSET S : U \subseteq T /\ U # T => <<U, T>> \in R
  BY DEF StrictSubsetOrdering
<1> HIDE DEF R
<1>3. Bad \subseteq SUBSET S
  OBVIOUS
<1> HIDE DEF Bad
<1>4. PICK T \in Bad : \A U \in Bad : ~ (<<U, T>> \in R)
  BY <1>1, <1>3, WFMin
<1>5. ASSUME NEW U \in SUBSET T, U # T, U \notin P PROVE FALSE
  <2>1. U \in SUBSET S /\ T \in SUBSET S
    BY <1>3, <1>4
  <2>2. U \in Bad
    BY <1>5, <2>1 DEF Bad
  <2> QED  BY <1>2, <1>4, <1>5, <2>1, <2>2
<1> QED  BY <1>4, <1>5 DEF Bad

\* What holds of nothing, and of a set as soon as it holds without one of its elements,
\* holds of every subset of a finite set.
LEMMA ElementInduction ==
  ASSUME NEW S, IsFiniteSet(S), NEW P, {} \in P,
         \A T \in SUBSET S : \A x \in T : T \ {x} \in P => T \in P
  PROVE  \A T \in SUBSET S : T \in P
<1>1. ASSUME NEW T \in SUBSET S, \A U \in SUBSET T : U # T => U \in P PROVE T \in P
  <2>1. CASE T = {}
    BY <2>1
  <2>2. CASE T # {}
    <3>1. PICK x \in T : TRUE
      BY <2>2
    <3>2. T \ {x} \in P
      BY <1>1, <3>1
    <3> QED  BY <3>1, <3>2
  <2> QED  BY <2>1, <2>2
<1> QED  BY <1>1, SubsetInduction

-----------------------------------------------------------------------------
(* Columns of figures.                                                     *)

Chosen(T) == CHOOSE x \in T : TRUE

\* The running sums of a column, over every set of its rows.
AddsUp(h, f, S) ==
  /\ h \in [SUBSET S -> Int] /\ h[{}] = 0
  /\ \A T \in SUBSET S : T # {} => h[T] = f[Chosen(T)] + h[T \ {Chosen(T)}]

\* Only one function can be the running sums, whatever the set they are of.
LEMMA OneSum ==
  ASSUME NEW S, IsFiniteSet(S), NEW T \in SUBSET S, NEW f, NEW g, NEW h, AddsUp(g, f, S), AddsUp(h, f, T)
  PROVE  \A U \in SUBSET T : g[U] = h[U]
<1> DEFINE P == {U \in SUBSET T : g[U] = h[U]}
<1>1. ASSUME NEW U \in SUBSET T, \A W \in SUBSET U : W # U => W \in P PROVE U \in P
  <2>1. CASE U = {}
    BY <2>1 DEF AddsUp
  <2>2. CASE U # {}
    <3>1. Chosen(U) \in U
      BY <2>2 DEF Chosen
    <3>2. U \ {Chosen(U)} \in P
      BY <1>1, <3>1
    <3>3. U \in SUBSET S
      OBVIOUS
    <3> QED  BY <2>2, <3>2, <3>3 DEF AddsUp
  <2> QED  BY <2>1, <2>2
<1> HIDE DEF P
<1>2. IsFiniteSet(T)
  BY FS_Subset
<1>3. \A U \in SUBSET T : U \in P
  BY <1>1, <1>2, SubsetInduction
<1> QED  BY <1>3 DEF P

\* The running sums do not depend on the order.
LEMMA AnyOrder ==
  ASSUME NEW S, IsFiniteSet(S), NEW f \in [S -> Int], NEW h, AddsUp(h, f, S)
  PROVE  \A T \in SUBSET S : \A x \in T : h[T] = f[x] + h[T \ {x}]
<1> DEFINE P == {T \in SUBSET S : \A x \in T : h[T] = f[x] + h[T \ {x}]}
<1>1. ASSUME NEW T \in SUBSET S, \A U \in SUBSET T : U # T => U \in P PROVE T \in P
  <2> SUFFICES ASSUME NEW x \in T PROVE h[T] = f[x] + h[T \ {x}]
    OBVIOUS
  <2> DEFINE c == Chosen(T)
  <2>1. c \in T /\ h[T] = f[c] + h[T \ {c}]
    BY DEF AddsUp, Chosen
  <2> HIDE DEF c
  <2>2. CASE x = c
    BY <2>1, <2>2
  <2>3. CASE x # c
    <3>1. T \ {c} \in P /\ T \ {x} \in P
      BY <1>1, <2>1
    <3>2. h[T \ {c}] = f[x] + h[(T \ {c}) \ {x}]
      BY <2>3, <3>1
    <3>3. h[T \ {x}] = f[c] + h[(T \ {x}) \ {c}]
      BY <2>1, <2>3, <3>1
    <3>4. (T \ {c}) \ {x} = (T \ {x}) \ {c}
      OBVIOUS
    <3>5. (T \ {x}) \ {c} \in SUBSET S /\ f[x] \in Int /\ f[c] \in Int
      BY <2>1
    <3>6. PICK rest \in Int : rest = h[(T \ {x}) \ {c}]
      BY <3>5 DEF AddsUp
    <3>7. h[T \ {c}] = f[x] + rest /\ h[T \ {x}] = f[c] + rest
      BY <3>2, <3>3, <3>4, <3>6
    <3> HIDE DEF P
    <3> QED  BY <2>1, <3>5, <3>7
  <2> QED  BY <2>2, <2>3
<1> HIDE DEF P
<1>2. \A T \in SUBSET S : T \in P
  BY <1>1, SubsetInduction
<1> QED  BY <1>2 DEF P

\* Every finite column has running sums.
LEMMA SumsExist ==
  ASSUME NEW S, IsFiniteSet(S), NEW f \in [S -> Int]
  PROVE  \E h : AddsUp(h, f, S)
<1> DEFINE P == {T \in SUBSET S : \E h : AddsUp(h, f, T)}
           sums(T) == CHOOSE h : AddsUp(h, f, T)
<1>1. ASSUME NEW T \in SUBSET S, \A U \in SUBSET T : U # T => U \in P PROVE T \in P
  <2> DEFINE rest(U) == U \ {Chosen(U)}
             h == [U \in SUBSET T |-> IF U = {} THEN 0 ELSE f[Chosen(U)] + sums(rest(U))[rest(U)]]
  <2>1. ASSUME NEW U \in SUBSET T, U # {}
        PROVE  Chosen(U) \in U /\ rest(U) \in SUBSET U /\ rest(U) # T /\ f[Chosen(U)] \in Int
    BY <2>1 DEF Chosen
  <2>2. \A U \in SUBSET T : U # T => AddsUp(sums(U), f, U)
    BY <1>1
  <2> HIDE DEF sums
  <2>3. ASSUME NEW U \in SUBSET T, U # {} PROVE sums(rest(U))[rest(U)] \in Int
    <3>1. AddsUp(sums(rest(U)), f, rest(U))
      BY <2>1, <2>2, <2>3
    <3> QED  BY <3>1 DEF AddsUp
  <2>4. ASSUME NEW U \in SUBSET T, U # T PROVE h[U] = sums(U)[U]
    <3>1. AddsUp(sums(U), f, U)
      BY <2>2, <2>4
    <3>2. CASE U = {}
      BY <3>1, <3>2 DEF AddsUp
    <3>3. CASE U # {}
      <4>1. AddsUp(sums(rest(U)), f, rest(U))
        BY <2>1, <2>2, <3>3
      <4>2. IsFiniteSet(U) /\ rest(U) \in SUBSET U
        BY <2>1, <3>3, FS_Subset
      <4>3. sums(U)[rest(U)] = sums(rest(U))[rest(U)]
        BY <3>1, <4>1, <4>2, OneSum
      <4> QED  BY <3>1, <3>3, <4>3 DEF AddsUp
    <3> QED  BY <3>2, <3>3
  <2>5. h \in [SUBSET T -> Int] /\ h[{}] = 0
    BY <2>1, <2>3
  <2>6. ASSUME NEW U \in SUBSET T, U # {} PROVE h[U] = f[Chosen(U)] + h[rest(U)]
    <3>1. h[rest(U)] = sums(rest(U))[rest(U)]
      BY <2>1, <2>4, <2>6
    <3> QED  BY <2>6, <3>1
  <2> HIDE DEF h
  <2>7. AddsUp(h, f, T)
    BY <2>5, <2>6 DEF AddsUp
  <2> QED  BY <2>7
<1> HIDE DEF P
<1>2. S \in P
  BY <1>1, SubsetInduction
<1> QED  BY <1>2 DEF P

\* A column added up is the last of its running sums.
LEMMA ColumnIsSum ==
  ASSUME NEW S, IsFiniteSet(S), NEW f \in [S -> Int], NEW h, AddsUp(h, f, S)
  PROVE  Column(f) = h[S]
<1> DEFINE Follows(g) == g = [T \in SUBSET S |-> IF T = {} THEN 0 ELSE f[Chosen(T)] + g[T \ {Chosen(T)}]]
           iter == CHOOSE g : Follows(g)
<1>1. Follows(h)
  <2>1. h = [T \in SUBSET S |-> h[T]]
    BY DEF AddsUp
  <2>2. ASSUME NEW T \in SUBSET S PROVE h[T] = IF T = {} THEN 0 ELSE f[Chosen(T)] + h[T \ {Chosen(T)}]
    BY DEF AddsUp
  <2> QED  BY <2>1, <2>2
<1>2. Follows(iter)
  BY <1>1
<1>3. Column(f) = iter[S]
  BY DEF Column, MapThenSumSet, MapThenFoldSet, Chosen
<1> HIDE DEF iter
<1>4. \A T \in SUBSET S : T # {} => Chosen(T) \in T /\ f[Chosen(T)] \in Int
  BY DEF Chosen
<1>5. \A T \in SUBSET S : iter[T] = IF T = {} THEN 0 ELSE f[Chosen(T)] + iter[T \ {Chosen(T)}]
  BY <1>2
<1> DEFINE P == {T \in SUBSET S : iter[T] = h[T]}
<1>6. ASSUME NEW T \in SUBSET S, \A U \in SUBSET T : U # T => U \in P PROVE T \in P
  <2>1. CASE T = {}
    BY <1>5, <2>1 DEF AddsUp
  <2>2. CASE T # {}
    <3>1. T \ {Chosen(T)} \in P
      BY <1>4, <1>6, <2>2
    <3> QED  BY <1>5, <2>2, <3>1 DEF AddsUp
  <2> QED  BY <2>1, <2>2
<1> HIDE DEF P
<1>7. S \in P
  BY <1>6, SubsetInduction
<1> QED  BY <1>3, <1>7 DEF P

-----------------------------------------------------------------------------
(* What columns add up to.                                                 *)

\* A column over some of its rows.
Over(f, T) == Column([x \in T |-> f[x]])

\* A column over some of its rows is the running sum there.
LEMMA OverIsSum ==
  ASSUME NEW S, IsFiniteSet(S), NEW f \in [S -> Int], NEW h, AddsUp(h, f, S), NEW T \in SUBSET S
  PROVE  Over(f, T) = h[T]
<1> DEFINE g == [x \in T |-> f[x]]
           k == [U \in SUBSET T |-> h[U]]
<1>1. g \in [T -> Int] /\ IsFiniteSet(T)
  BY FS_Subset
<1>2. AddsUp(k, g, T)
  <2>1. k \in [SUBSET T -> Int] /\ k[{}] = 0
    BY DEF AddsUp
  <2>2. ASSUME NEW U \in SUBSET T, U # {} PROVE k[U] = g[Chosen(U)] + k[U \ {Chosen(U)}]
    <3>1. Chosen(U) \in U
      BY <2>2 DEF Chosen
    <3>2. U \in SUBSET S
      OBVIOUS
    <3>3. h[U] = f[Chosen(U)] + h[U \ {Chosen(U)}]
      BY <2>2, <3>2 DEF AddsUp
    <3>4. k[U \ {Chosen(U)}] = h[U \ {Chosen(U)}] /\ k[U] = h[U] /\ g[Chosen(U)] = f[Chosen(U)]
      BY <3>1
    <3> QED  BY <3>3, <3>4
  <2> HIDE DEF k, g
  <2> QED  BY <2>1, <2>2 DEF AddsUp
<1>3. k[T] = h[T]
  OBVIOUS
<1> HIDE DEF g, k
<1>4. Column(g) = k[T]
  BY <1>1, <1>2, ColumnIsSum
<1> QED  BY <1>3, <1>4 DEF Over, g

\* The rows of a column may be taken off one at a time.
LEMMA OneOff ==
  ASSUME NEW S, IsFiniteSet(S), NEW f \in [S -> Int]
  PROVE  /\ Over(f, {}) = 0
         /\ \A T \in SUBSET S : Over(f, T) \in Int
         /\ \A T \in SUBSET S : \A x \in T : Over(f, T) = f[x] + Over(f, T \ {x})
<1>1. PICK h : AddsUp(h, f, S)
  BY SumsExist
<1>2. \A T \in SUBSET S : Over(f, T) = h[T]
  BY <1>1, OverIsSum
<1>3. ASSUME NEW T \in SUBSET S, NEW x \in T PROVE h[T] = f[x] + h[T \ {x}]
  BY <1>1, AnyOrder
<1>4. \A T \in SUBSET S : \A x \in T : T \ {x} \in SUBSET S
  OBVIOUS
<1> QED  BY <1>1, <1>2, <1>3, <1>4 DEF AddsUp

\* One row taken off a column over some of its rows.
LEMMA TakeOne ==
  ASSUME NEW S, IsFiniteSet(S), NEW f \in [S -> Int], NEW T \in SUBSET S, NEW x \in T
  PROVE  Over(f, T) = f[x] + Over(f, T \ {x}) /\ Over(f, T \ {x}) \in Int
<1>1. T \ {x} \in SUBSET S
  OBVIOUS
<1> QED  BY <1>1, OneOff

\* The whole column is the column over its rows.
LEMMA OverAll ==
  ASSUME NEW S, NEW f, f = [x \in S |-> f[x]]
  PROVE  Column(f) = Over(f, S)
BY DEF Over

\* What two columns have the same of, they have the same sum over.
LEMMA Alike ==
  ASSUME NEW T, NEW f, NEW g, \A x \in T : f[x] = g[x]
  PROVE  Over(f, T) = Over(g, T)
<1>1. [x \in T |-> f[x]] = [x \in T |-> g[x]]
  OBVIOUS
<1> QED  BY <1>1 DEF Over

\* A column of sums is the sum of the columns.
LEMMA SumOfColumns ==
  ASSUME NEW S, IsFiniteSet(S), NEW f \in [S -> Int], NEW g \in [S -> Int], NEW k \in [S -> Int],
         NEW T \in SUBSET S, \A x \in T : k[x] = f[x] + g[x]
  PROVE  Over(k, T) = Over(f, T) + Over(g, T)
<1> DEFINE P == {U \in SUBSET T : Over(k, U) = Over(f, U) + Over(g, U)}
<1>1. IsFiniteSet(T)
  BY FS_Subset
<1>2. {} \in P
  BY OneOff
<1>3. ASSUME NEW U \in SUBSET T, NEW x \in U, U \ {x} \in P PROVE U \in P
  <2>1. U \in SUBSET S /\ U \ {x} \in SUBSET S
    OBVIOUS
  <2>2. PICK a \in Int : a = Over(f, U \ {x})
    BY <2>1, OneOff
  <2>3. PICK b \in Int : b = Over(g, U \ {x})
    BY <2>1, OneOff
  <2>4. Over(k, U \ {x}) = a + b
    BY <1>3, <2>2, <2>3
  <2>5. Over(f, U) = f[x] + a
    BY <2>1, <2>2, TakeOne
  <2>6. Over(g, U) = g[x] + b
    <3>1. Over(g, U) = g[x] + Over(g, U \ {x})
      BY <2>1, TakeOne
    <3> QED  BY <2>3, <3>1
  <2>7. Over(k, U) = k[x] + (a + b)
    BY <2>1, <2>4, TakeOne
  <2>8. f[x] \in Int /\ g[x] \in Int /\ k[x] = f[x] + g[x]
    OBVIOUS
  <2> HIDE DEF P
  <2>9. Over(k, U) = Over(f, U) + Over(g, U)
    BY <2>5, <2>6, <2>7, <2>8
  <2> QED  BY <2>9 DEF P
<1> HIDE DEF P
<1>4. T \in P
  BY <1>1, <1>2, <1>3, ElementInduction
<1> QED  BY <1>4 DEF P

\* A column of noughts adds up to nothing, one without negatives to nothing negative.
LEMMA Signs ==
  ASSUME NEW S, IsFiniteSet(S), NEW f \in [S -> Int], NEW T \in SUBSET S
  PROVE  /\ (\A x \in T : f[x] = 0) => Over(f, T) = 0
         /\ (\A x \in T : f[x] >= 0) => Over(f, T) >= 0
<1> DEFINE P == {U \in SUBSET T : /\ (\A x \in U : f[x] = 0) => Over(f, U) = 0
                                  /\ (\A x \in U : f[x] >= 0) => Over(f, U) >= 0}
<1>1. IsFiniteSet(T)
  BY FS_Subset
<1>2. {} \in P
  BY OneOff
<1>3. ASSUME NEW U \in SUBSET T, NEW x \in U, U \ {x} \in P PROVE U \in P
  <2>1. U \in SUBSET S /\ U \ {x} \in SUBSET S /\ f[x] \in Int
    OBVIOUS
  <2>2. PICK a \in Int : a = Over(f, U \ {x})
    BY <2>1, OneOff
  <2>3. Over(f, U) = f[x] + a
    BY <2>1, <2>2, OneOff
  <2> QED  BY <1>3, <2>1, <2>2, <2>3
<1> HIDE DEF P
<1>4. T \in P
  BY <1>1, <1>2, <1>3, ElementInduction
<1> QED  BY <1>4 DEF P

\* A column over two sets of rows that share none is the sum of the two.
LEMMA TwoParts ==
  ASSUME NEW S, IsFiniteSet(S), NEW f \in [S -> Int], NEW A \in SUBSET S, NEW B \in SUBSET S, A \cap B = {}
  PROVE  Over(f, A \cup B) = Over(f, A) + Over(f, B)
<1> DEFINE P == {U \in SUBSET B : Over(f, A \cup U) = Over(f, A) + Over(f, U)}
<1>1. IsFiniteSet(B)
  BY FS_Subset
<1>2. PICK a \in Int : a = Over(f, A)
  BY OneOff
<1>3. {} \in P
  <2>1. A \cup {} = A /\ Over(f, {}) = 0
    BY OneOff
  <2> QED  BY <1>2, <2>1
<1>4. ASSUME NEW U \in SUBSET B, NEW x \in U, U \ {x} \in P PROVE U \in P
  <2>1. U \in SUBSET S /\ U \ {x} \in SUBSET S /\ A \cup U \in SUBSET S /\ x \in A \cup U /\ f[x] \in Int
    OBVIOUS
  <2>2. (A \cup U) \ {x} = A \cup (U \ {x})
    OBVIOUS
  <2>3. PICK b \in Int : b = Over(f, U \ {x})
    BY <2>1, OneOff
  <2>4. Over(f, A \cup (U \ {x})) = a + b
    BY <1>2, <1>4, <2>3
  <2>5. Over(f, U) = f[x] + b
    BY <2>1, <2>3, OneOff
  <2>6. Over(f, A \cup U) = f[x] + (a + b)
    BY <2>1, <2>2, <2>4, OneOff
  <2> HIDE DEF P
  <2>7. Over(f, A \cup U) = Over(f, A) + Over(f, U)
    BY <1>2, <2>1, <2>5, <2>6
  <2> QED  BY <2>7 DEF P
<1>5. \A U \in SUBSET B : \A x \in U : U \ {x} \in P => U \in P
  BY <1>4
<1> HIDE DEF P
<1>6. \A U \in SUBSET B : U \in P
  BY <1>1, <1>3, <1>5, ElementInduction
<1> QED  BY <1>6 DEF P

\* The piles a label splits a column in add up to the column, the empty ones too.
LEMMA Piles ==
  ASSUME NEW S, IsFiniteSet(S), NEW f \in [S -> Int], NEW T \in SUBSET S,
         NEW V, IsFiniteSet(V), NEW label, \A x \in T : label[x] \in V
  PROVE  /\ [v \in V |-> Over(f, {x \in T : label[x] = v})] \in [V -> Int]
         /\ Column([v \in V |-> Over(f, {x \in T : label[x] = v})]) = Over(f, T)
<1> DEFINE pile(U, v) == {x \in U : label[x] = v}
           piles(U) == [v \in V |-> Over(f, pile(U, v))]
           P == {U \in SUBSET T : Column(piles(U)) = Over(f, U)}
<1>1. IsFiniteSet(T)
  BY FS_Subset
<1>2. ASSUME NEW U \in SUBSET T
      PROVE  piles(U) \in [V -> Int] /\ Column(piles(U)) = Over(piles(U), V)
  <2>1. \A v \in V : pile(U, v) \in SUBSET S
    OBVIOUS
  <2> HIDE DEF pile
  <2>2. piles(U) \in [V -> Int]
    BY <2>1, OneOff
  <2>3. piles(U) = [v \in V |-> piles(U)[v]]
    OBVIOUS
  <2> HIDE DEF piles
  <2> QED  BY <2>2, <2>3, OverAll
<1>3. {} \in P
  <2>1. \A v \in V : pile({}, v) = {}
    OBVIOUS
  <2>2. \A v \in V : piles({})[v] = 0
    BY <2>1, OneOff
  <2> HIDE DEF piles
  <2>3. Over(piles({}), V) = 0
    BY <1>2, <2>2, Signs
  <2> QED  BY <1>2, <2>3, OneOff
<1>4. ASSUME NEW U \in SUBSET T, NEW x \in U, U \ {x} \in P PROVE U \in P
  <2> DEFINE W == U \ {x}
             v == label[x]
  <2>1. v \in V /\ U \in SUBSET S /\ W \in SUBSET S /\ W \in SUBSET T /\ f[x] \in Int
    OBVIOUS
  <2>2. x \in pile(U, v) /\ pile(U, v) \in SUBSET S /\ pile(U, v) \ {x} = pile(W, v)
    OBVIOUS
  <2>3. \A u \in V \ {v} : pile(U, u) = pile(W, u)
    OBVIOUS
  <2>4. \A u \in V \ {v} : piles(U)[u] = piles(W)[u]
    BY <2>3
  <2>5. piles(U)[v] = Over(f, pile(U, v)) /\ piles(W)[v] = Over(f, pile(W, v))
    BY <2>1
  <2>6. Over(f, pile(U, v)) = f[x] + Over(f, pile(W, v))
    <3> HIDE DEF pile
    <3>1. x \in pile(U, v) /\ pile(U, v) \in SUBSET S
      BY <2>2
    <3>2. Over(f, pile(U, v)) = f[x] + Over(f, pile(U, v) \ {x})
      BY <3>1, TakeOne
    <3> QED  BY <2>2, <3>2
  <2>7. Column(piles(W)) = Over(f, W)
    BY <1>4
  <2> HIDE DEF pile, piles, v, P
  <2>8. Over(piles(U), V \ {v}) = Over(piles(W), V \ {v})
    BY <2>4, Alike
  <2>9. Over(piles(U), V) = piles(U)[v] + Over(piles(U), V \ {v})
    BY <1>2, <2>1, OneOff
  <2>10. Over(piles(W), V) = piles(W)[v] + Over(piles(W), V \ {v})
    BY <1>2, <2>1, OneOff
  <2>11. PICK a \in Int : a = Over(piles(W), V \ {v})
    BY <1>2, <2>1, OneOff
  <2>12. PICK b \in Int : b = piles(W)[v]
    BY <1>2, <2>1
  <2>13. Over(f, U) = f[x] + Over(f, W)
    BY <2>1, OneOff
  <2>14. Over(f, W) = b + a
    BY <1>2, <2>1, <2>7, <2>10, <2>11, <2>12
  <2>15. Over(piles(U), V) = (f[x] + b) + a
    BY <2>5, <2>6, <2>8, <2>9, <2>11, <2>12
  <2>16. Over(piles(U), V) = Over(f, U)
    BY <2>1, <2>13, <2>14, <2>15
  <2> QED  BY <1>2, <2>16 DEF P
<1>5. piles(T) \in [V -> Int]
  BY <1>2
<1> HIDE DEF P
<1>6. T \in P
  BY <1>1, <1>3, <1>4, ElementInduction
<1> QED  BY <1>5, <1>6 DEF P

\* Ones add up to the number of rows.
LEMMA Counting ==
  ASSUME NEW S, IsFiniteSet(S), NEW T \in SUBSET S
  PROVE  Over([x \in S |-> 1], T) = Cardinality(T)
<1> DEFINE f == [x \in S |-> 1]
           P == {U \in SUBSET T : Over(f, U) = Cardinality(U)}
<1>1. IsFiniteSet(T) /\ f \in [S -> Int] /\ \A x \in S : f[x] = 1
  BY FS_Subset
<1> HIDE DEF f
<1>2. {} \in P
  BY <1>1, OneOff, FS_EmptySet
<1>3. ASSUME NEW U \in SUBSET T, NEW x \in U, U \ {x} \in P PROVE U \in P
  <2>1. U \in SUBSET S /\ IsFiniteSet(U)
    BY <1>1, FS_Subset
  <2>2. Cardinality(U \ {x}) = Cardinality(U) - 1 /\ Cardinality(U) \in Nat
    BY <2>1, FS_RemoveElement, FS_CardinalityType
  <2>3. Over(f, U) = 1 + Over(f, U \ {x})
    BY <1>1, <2>1, OneOff
  <2> QED  BY <1>3, <2>2, <2>3
<1> HIDE DEF P
<1>4. T \in P
  BY <1>1, <1>2, <1>3, ElementInduction
<1> QED  BY <1>4 DEF P, f

-----------------------------------------------------------------------------
(* Reading one row.                                                        *)

\* The first of these that a row is, in the order that is not to be changed.
FirstKind(t) ==
  IF t.duplicate THEN "duplicate"
  ELSE IF Direction(t) = "inflow" THEN "refund"
  ELSE IF IsCoupon(t) THEN "coupon"
  ELSE IF IsForeign(t) THEN "foreign"
  ELSE IF IsInstallment(t) THEN "installment"
  ELSE IF IsStatement(t) THEN "statement"
  ELSE "ordinary"

\* A least member is the minimum.
LEMMA LeastOf ==
  ASSUME NEW S, S \subseteq Int, NEW m \in S, \A k \in S : m <= k
  PROVE  Min(S) = m
<1>1. Min(S) \in S /\ \A k \in S : Min(S) <= k
  BY DEF Min
<1>2. Min(S) \in Int /\ m \in Int /\ Min(S) <= m /\ m <= Min(S)
  BY <1>1
<1> QED  BY <1>2

\* The kind ranked first of those a row shows is the first of the checks it meets.
LEMMA RankedFirst ==
  ASSUME NEW t, IsRow(t)
  PROVE  DetailedKind(t) = FirstKind(t)
<1> DEFINE S == {i \in DOMAIN Ranking : Ranking[i] \in Traits(t)}
<1>1. DOMAIN Ranking = 1 .. 7 /\ S \subseteq 1 .. 7
  BY DEF Ranking
<1>2. ASSUME NEW m \in S, \A k \in 1 .. 7 : k < m => k \notin S PROVE DetailedKind(t) = Ranking[m]
  <2>1. \A k \in S : m <= k
    BY <1>1, <1>2
  <2>2. m \in S /\ S \subseteq Int
    BY <1>1
  <2> HIDE DEF S
  <2>3. Min(S) = m
    BY <2>1, <2>2, LeastOf
  <2> QED  BY <2>3 DEF DetailedKind, S
<1>3. \A k \in 1 .. 7 : k \in S <=> Ranking[k] \in Traits(t)
  BY <1>1
<1> HIDE DEF S
<1>4. /\ Ranking[1] = "duplicate" /\ Ranking[2] = "refund" /\ Ranking[3] = "coupon" /\ Ranking[4] = "foreign"
      /\ Ranking[5] = "installment" /\ Ranking[6] = "statement" /\ Ranking[7] = "ordinary"
  BY DEF Ranking
<1>5. /\ "duplicate" \in Traits(t) <=> t.duplicate
      /\ "refund" \in Traits(t) <=> Direction(t) = "inflow"
      /\ "coupon" \in Traits(t) <=> IsCoupon(t)
      /\ "foreign" \in Traits(t) <=> IsForeign(t)
      /\ "installment" \in Traits(t) <=> IsInstallment(t)
      /\ "statement" \in Traits(t) <=> IsStatement(t)
      /\ "ordinary" \in Traits(t)
  BY DEF Traits
<1>6. /\ 1 \in S <=> t.duplicate
      /\ 2 \in S <=> Direction(t) = "inflow"
      /\ 3 \in S <=> IsCoupon(t)
      /\ 4 \in S <=> IsForeign(t)
      /\ 5 \in S <=> IsInstallment(t)
      /\ 6 \in S <=> IsStatement(t)
      /\ 7 \in S
  BY <1>3, <1>4, <1>5
<1>7. CASE t.duplicate
  <2>1. DetailedKind(t) = Ranking[1]
    BY <1>2, <1>6, <1>7
  <2> QED  BY <1>4, <1>7, <2>1 DEF FirstKind
<1>8. CASE ~t.duplicate /\ Direction(t) = "inflow"
  <2>1. DetailedKind(t) = Ranking[2]
    BY <1>2, <1>6, <1>8
  <2> QED  BY <1>4, <1>8, <2>1 DEF FirstKind
<1>9. CASE ~t.duplicate /\ Direction(t) # "inflow" /\ IsCoupon(t)
  <2>1. DetailedKind(t) = Ranking[3]
    BY <1>2, <1>6, <1>9
  <2> QED  BY <1>4, <1>9, <2>1 DEF FirstKind
<1>10. CASE ~t.duplicate /\ Direction(t) # "inflow" /\ ~IsCoupon(t) /\ IsForeign(t)
  <2>1. DetailedKind(t) = Ranking[4]
    BY <1>2, <1>6, <1>10
  <2> QED  BY <1>4, <1>10, <2>1 DEF FirstKind
<1>11. CASE ~t.duplicate /\ Direction(t) # "inflow" /\ ~IsCoupon(t) /\ ~IsForeign(t) /\ IsInstallment(t)
  <2>1. DetailedKind(t) = Ranking[5]
    BY <1>2, <1>6, <1>11
  <2> QED  BY <1>4, <1>11, <2>1 DEF FirstKind
<1>12. CASE ~t.duplicate /\ Direction(t) # "inflow" /\ ~IsCoupon(t) /\ ~IsForeign(t) /\ ~IsInstallment(t) /\ IsStatement(t)
  <2>1. DetailedKind(t) = Ranking[6]
    BY <1>2, <1>6, <1>12
  <2> QED  BY <1>4, <1>12, <2>1 DEF FirstKind
<1>13. CASE ~t.duplicate /\ Direction(t) # "inflow" /\ ~IsCoupon(t) /\ ~IsForeign(t) /\ ~IsInstallment(t) /\ ~IsStatement(t)
  <2>1. DetailedKind(t) = Ranking[7]
    BY <1>2, <1>6, <1>13
  <2> QED  BY <1>4, <1>13, <2>1 DEF FirstKind
<1> QED
  BY <1>7, <1>8, <1>9, <1>10, <1>11, <1>12, <1>13

\* What a row is read as: an integer of every kind, and of no kind it is not.
LEMMA Readings ==
  ASSUME NEW t, IsRow(t)
  PROVE  /\ Paid(t) \in Int /\ Returned(t) \in Int /\ Saved(t) \in Int /\ SpendOf(t) \in Int /\ Value(t) \in Int
         /\ Paid(t) >= 0 /\ Saved(t) >= 0
         /\ DetailedKind(t) \in {"duplicate", "refund", "coupon", "foreign", "installment", "statement", "ordinary"}
         /\ Kind(t) \notin {"regular", "statement"} => Paid(t) = 0
         /\ Kind(t) # "refund" => Returned(t) = 0
         /\ Kind(t) \notin {"coupon", "statement"} => Saved(t) = 0
         /\ DetailedKind(t) = "duplicate" <=> t.duplicate
         /\ Saved(t) > 0 => IsPurchase(t)
         /\ SpendOf(t) = Paid(t) - Returned(t)
         /\ Value(t) = SpendOf(t) + (IF Kind(t) = "coupon" THEN Saved(t) ELSE 0)
<1>1. DetailedKind(t) = FirstKind(t)
  BY RankedFirst
<1>2. /\ t.charged = Absent \/ t.charged \in Int
      /\ t.original = Absent \/ t.original \in Int
      /\ Absent \notin Int
  BY InsightsAssumption DEF IsRow
<1>3. \A n \in Int : Abs(n) \in Nat
  BY DEF Abs
<1>4. /\ DetailedKind(t) = "duplicate" <=> t.duplicate
      /\ DetailedKind(t) \in {"duplicate", "refund", "coupon", "foreign", "installment", "statement", "ordinary"}
      /\ Kind(t) = "statement" => ~t.duplicate /\ Direction(t) # "inflow" /\ IsStatement(t)
      /\ Kind(t) = "coupon" => ~t.duplicate /\ Direction(t) # "inflow" /\ IsCoupon(t)
      /\ Kind(t) \in {"regular", "duplicate", "refund", "coupon", "statement"}
  BY <1>1 DEF FirstKind, Kind
<1>5. Billed(t) \in Nat
  BY <1>2, <1>3 DEF Billed
<1>6. Paid(t) \in Nat /\ (Kind(t) \notin {"regular", "statement"} => Paid(t) = 0)
  BY <1>5 DEF Paid
<1>7. Returned(t) \in Nat /\ (Kind(t) # "refund" => Returned(t) = 0)
  BY <1>2, <1>3 DEF Returned
<1>8. CASE Kind(t) = "coupon"
  <2>1. IsCoupon(t) /\ t.original \in Int /\ t.original < 0 /\ ~Moved(t.charged) /\ Moved(t.original)
    BY <1>2, <1>4, <1>8 DEF IsCoupon, Moved
  <2>2. Direction(t) = "outflow"
    BY <2>1 DEF Direction
  <2>3. Saved(t) = Abs(t.original) /\ Value(t) = Abs(t.original) /\ SpendOf(t) = 0
    BY <1>6, <1>7, <1>8 DEF Saved, Value, SpendOf
  <2>4. IsPurchase(t)
    BY <1>4, <1>8, <2>2 DEF IsPurchase
  <2> QED  BY <1>3, <1>4, <1>6, <1>7, <1>8, <2>1, <2>3, <2>4
<1>9. CASE Kind(t) = "statement"
  <2>1. /\ IsStatement(t) /\ t.original \in Int /\ t.charged \in Int /\ Moved(t.charged)
        /\ Abs(t.original) > Abs(t.charged)
    BY <1>2, <1>4, <1>9 DEF IsStatement, Moved
  <2>2. Direction(t) = "outflow"
    BY <1>4, <1>9, <2>1 DEF Direction
  <2>3. IsPurchase(t)
    BY <1>4, <1>9, <2>2 DEF IsPurchase
  <2>4. Saved(t) = Abs(t.original) - Abs(t.charged) /\ Abs(t.original) \in Nat /\ Abs(t.charged) \in Nat
    BY <1>3, <1>9, <2>1 DEF Saved
  <2>5. Value(t) = Paid(t) - Returned(t) /\ SpendOf(t) = Paid(t) - Returned(t)
    BY <1>9 DEF Value, SpendOf
  <2> QED  BY <1>4, <1>6, <1>7, <1>9, <2>1, <2>3, <2>4, <2>5
<1>10. CASE Kind(t) \notin {"coupon", "statement"}
  <2>1. Saved(t) = 0
    BY <1>10 DEF Saved
  <2>2. Value(t) = Paid(t) - Returned(t) /\ SpendOf(t) = Paid(t) - Returned(t)
    BY <1>10 DEF Value, SpendOf
  <2> QED  BY <1>4, <1>6, <1>7, <1>10, <2>1, <2>2
<1> QED
  BY <1>8, <1>9, <1>10

\* Of two amounts that both left, the price is as far from a multiple of the charge with
\* their signs as without.
LEMMA SameDistance ==
  ASSUME NEW charged \in Int, NEW original \in Int, charged < 0, original < 0, NEW payments \in Int
  PROVE  /\ Abs(charged) = -charged
         /\ Abs(Abs(original) - payments * Abs(charged)) = Abs(original - payments * charged)
<1>1. Abs(charged) = -charged /\ Abs(original) = -original
  BY DEF Abs
<1>2. PICK p \in Int : p = payments * charged
  OBVIOUS
<1>3. payments * (-charged) = -p
  BY <1>2
<1>4. Abs(original) - payments * Abs(charged) = -(original - p)
  BY <1>1, <1>3
<1>5. Abs(-(original - p)) = Abs(original - p)
  <2>1. PICK d \in Int : d = original - p
    OBVIOUS
  <2>2. Abs(-d) = Abs(d)
    BY DEF Abs
  <2> QED  BY <2>1, <2>2
<1> QED  BY <1>1, <1>2, <1>4, <1>5

\* A row is read as what really happened.
LEMMA RowIsReadRight ==
  ASSUME NEW t, IsRow(t), TellsWhatHappened(t)
  PROVE  /\ ~t.duplicate => SpendOf(t) = t.left
         /\ ~t.duplicate => Saved(t) = t.discount
         /\ t.duplicate => t.left = 0 /\ t.discount = 0
<1> DEFINE Told(left, discount) == t.left = left /\ t.discount = discount
           Same == t.currency = "same"
<1>1. /\ t.charged = Absent \/ t.charged \in Int
      /\ t.original = Absent \/ t.original \in Int
      /\ Absent \notin Int /\ MaxInstallments \in Nat
      /\ t.left \in Int /\ t.discount \in Int
      /\ t.booked \in BOOLEAN /\ t.plan \in BOOLEAN
      /\ t.currency \in {"same", "other", "unknown"}
  BY InsightsAssumption DEF IsRow
<1>2. DetailedKind(t) = FirstKind(t)
  BY RankedFirst
<1>3. CASE t.duplicate
  BY <1>3 DEF TellsWhatHappened
<1> SUFFICES ASSUME ~t.duplicate PROVE SpendOf(t) = t.left /\ Saved(t) = t.discount
  BY <1>3
\* What a row of each kind is read as.
<1>4. Kind(t) = "regular" => SpendOf(t) = Billed(t) /\ Saved(t) = 0
  <2>1. SUFFICES ASSUME Kind(t) = "regular" PROVE SpendOf(t) = Billed(t) /\ Saved(t) = 0
    OBVIOUS
  <2>2. Billed(t) \in Int
    BY <1>1 DEF Billed, Abs
  <2> QED  BY <2>1, <2>2 DEF SpendOf, Paid, Returned, Saved
<1>5. CASE /\ t.charged # Absent /\ t.charged <= 0 /\ t.original = t.charged
           /\ Same /\ Told(-t.charged, 0)
  <2>1. Direction(t) # "inflow" /\ ~IsCoupon(t) /\ ~IsForeign(t) /\ ~IsStatement(t)
    BY <1>1, <1>5 DEF Direction, Moved, IsCoupon, IsForeign, IsStatement, Abs
  <2>2. Kind(t) = "regular"
    BY <1>2, <2>1 DEF FirstKind, Kind
  <2>3. Billed(t) = -t.charged
    BY <1>1, <1>5 DEF Billed, Abs
  <2> QED  BY <1>4, <1>5, <2>2, <2>3
<1>6. CASE /\ t.charged = Absent /\ Went(t.original) /\ ~t.booked
           /\ Same /\ ~t.plan /\ Told(-t.original, 0)
  <2>1. Direction(t) # "inflow" /\ ~IsCoupon(t) /\ ~IsForeign(t) /\ ~IsStatement(t)
    BY <1>1, <1>6 DEF Direction, Moved, IsCoupon, IsForeign, IsStatement, Went
  <2>2. Kind(t) = "regular"
    BY <1>2, <2>1 DEF FirstKind, Kind
  <2>3. Billed(t) = -t.original
    BY <1>1, <1>6 DEF Billed, Abs, Went
  <2> QED  BY <1>4, <1>6, <2>2, <2>3
<1>7. CASE /\ Went(t.charged) /\ Went(t.original) /\ Same
           /\ t.plan \/ NearlyWholeTimes(t)
           /\ Told(-t.charged, 0)
  <2>1. Direction(t) # "inflow" /\ ~IsCoupon(t) /\ ~IsForeign(t)
    BY <1>1, <1>7 DEF Direction, Moved, IsCoupon, IsForeign, Went
  <2>2. IsInstallment(t)
    <3>1. CASE t.plan
      BY <3>1 DEF IsInstallment
    <3>2. CASE NearlyWholeTimes(t)
      <4>1. PICK payments \in 2 .. MaxInstallments :
              RatioGrain * Abs(t.original - payments * t.charged) <= -t.charged
        BY <3>2 DEF NearlyWholeTimes
      <4>2. t.charged \in Int /\ t.original \in Int /\ t.charged < 0 /\ t.original < 0 /\ payments \in Int
        BY <1>1, <1>7 DEF Went
      <4>3. /\ Abs(t.charged) = -t.charged
            /\ Abs(Abs(t.original) - payments * Abs(t.charged)) = Abs(t.original - payments * t.charged)
        BY <4>2, SameDistance
      <4> QED  BY <1>1, <1>7, <4>1, <4>2, <4>3 DEF IsInstallment, Moved
    <3> QED  BY <1>7, <3>1, <3>2
  <2>3. Kind(t) = "regular"
    BY <1>2, <2>1, <2>2 DEF FirstKind, Kind
  <2>4. Billed(t) = -t.charged
    BY <1>1, <1>7 DEF Billed, Abs, Went
  <2> QED  BY <1>4, <1>7, <2>3, <2>4
<1>8. CASE /\ t.charged = Absent /\ Went(t.original) /\ ~t.booked
           /\ t.plan \/ ~Same
           /\ Told(0, 0)
  <2>1. Direction(t) # "inflow" /\ ~IsCoupon(t) /\ ~IsStatement(t)
    BY <1>1, <1>8 DEF Direction, Moved, IsCoupon, IsStatement, Went
  <2>2. Kind(t) = "regular"
    BY <1>2, <2>1 DEF FirstKind, Kind
  <2>3. Billed(t) = 0
    BY <1>1, <1>8 DEF Billed, Went
  <2> QED  BY <1>4, <1>8, <2>2, <2>3
<1>9. CASE Went(t.charged) /\ t.currency = "other" /\ Told(-t.charged, 0)
  <2>1. Direction(t) # "inflow" /\ ~IsCoupon(t) /\ IsForeign(t)
    BY <1>1, <1>9 DEF Direction, Moved, IsCoupon, IsForeign, Went
  <2>2. Kind(t) = "regular"
    BY <1>2, <2>1 DEF FirstKind, Kind
  <2>3. Billed(t) = -t.charged
    BY <1>1, <1>9 DEF Billed, Abs, Went
  <2> QED  BY <1>4, <1>9, <2>2, <2>3
<1>10. CASE /\ Went(t.charged) /\ Went(t.original) /\ t.original < t.charged
            /\ Same /\ ~t.plan /\ ~NearlyWholeTimes(t)
            /\ Told(-t.charged, t.charged - t.original)
  <2>1. t.charged \in Int /\ t.original \in Int /\ t.charged < 0 /\ t.original < t.charged
    BY <1>1, <1>10 DEF Went
  <2>2. Abs(t.original) = -t.original /\ Abs(t.charged) = -t.charged
    BY <2>1 DEF Abs
  <2>3. Direction(t) # "inflow" /\ ~IsCoupon(t) /\ ~IsForeign(t) /\ IsStatement(t)
    BY <1>1, <1>10, <2>1, <2>2 DEF Direction, Moved, IsCoupon, IsForeign, IsStatement
  <2>4. ~IsInstallment(t)
    <3>1. ASSUME NEW payments \in 2 .. MaxInstallments,
                 RatioGrain * Abs(Abs(t.original) - payments * Abs(t.charged)) <= Abs(t.charged)
          PROVE  FALSE
      <4>1. t.original < 0 /\ payments \in Int
        BY <2>1
      <4>2. /\ Abs(t.charged) = -t.charged
            /\ Abs(Abs(t.original) - payments * Abs(t.charged)) = Abs(t.original - payments * t.charged)
        BY <2>1, <4>1, SameDistance
      <4>3. RatioGrain * Abs(t.original - payments * t.charged) <= -t.charged
        BY <3>1, <4>2
      <4> QED  BY <1>10, <4>3 DEF NearlyWholeTimes
    <3> QED  BY <1>10, <3>1 DEF IsInstallment
  <2>5. Kind(t) = "statement"
    BY <1>2, <2>3, <2>4 DEF FirstKind, Kind
  <2>6. Billed(t) = -t.charged
    BY <1>10, <2>2 DEF Billed, Went
  <2>7. SpendOf(t) = -t.charged
    BY <2>1, <2>5, <2>6 DEF SpendOf, Paid, Returned
  <2>8. Saved(t) = -t.original - (-t.charged)
    BY <2>2, <2>5 DEF Saved
  <2> QED  BY <1>1, <1>10, <2>1, <2>7, <2>8
<1>11. CASE t.charged \in {Absent, 0} /\ Went(t.original) /\ t.booked /\ Told(0, -t.original)
  <2>1. Direction(t) # "inflow" /\ IsCoupon(t)
    BY <1>1, <1>11 DEF Direction, Moved, IsCoupon, Went
  <2>2. Kind(t) = "coupon"
    BY <1>2, <2>1 DEF FirstKind, Kind
  <2>3. Saved(t) = -t.original /\ SpendOf(t) = 0
    BY <1>1, <1>11, <2>2 DEF Saved, SpendOf, Paid, Returned, Abs, Went
  <2> QED  BY <1>11, <2>3
<1>12. CASE Came(t.charged) /\ Told(-t.charged, 0)
  <2>1. Direction(t) = "inflow"
    BY <1>1, <1>12 DEF Direction, Moved, Came
  <2>2. Kind(t) = "refund"
    BY <1>2, <2>1 DEF FirstKind, Kind
  <2>3. Saved(t) = 0 /\ SpendOf(t) = -t.charged
    BY <1>1, <1>12, <2>2 DEF Saved, SpendOf, Paid, Returned, Abs, Came
  <2> QED  BY <1>12, <2>3
<1>13. CASE t.charged = Absent /\ Came(t.original) /\ Same /\ Told(-t.original, 0)
  <2>1. Direction(t) = "inflow"
    BY <1>1, <1>13 DEF Direction, Moved, Came
  <2>2. Kind(t) = "refund"
    BY <1>2, <2>1 DEF FirstKind, Kind
  <2>3. Saved(t) = 0 /\ SpendOf(t) = -t.original
    BY <1>1, <1>13, <2>2 DEF Saved, SpendOf, Paid, Returned, Abs, Came
  <2> QED  BY <1>13, <2>3
<1> QED
  BY <1>5, <1>6, <1>7, <1>8, <1>9, <1>10, <1>11, <1>12, <1>13 DEF TellsWhatHappened

-----------------------------------------------------------------------------
(* The rows fetched, and readings added up over some of them.              *)

RowsOK ==
  /\ rows \in Seq(UNION {Rows[n] : n \in DOMAIN Rows})
  /\ \A i \in All : i \in DOMAIN Rows /\ rows[i] \in Rows[i]

\* There are finitely many, each a row of the feed that tells what happened.
LEMMA RowFacts ==
  ASSUME RowsOK
  PROVE  /\ IsFiniteSet(All)
         /\ \A i \in All : IsRow(rows[i]) /\ TellsWhatHappened(rows[i])
<1>1. All = 1 .. Len(rows) /\ Len(rows) \in Nat
  BY DEF RowsOK, All
<1>2. IsFiniteSet(1 .. Len(rows))
  BY <1>1, FS_Interval
<1> QED  BY <1>1, <1>2, RowsAssumption, RowsTellWhatHappened DEF RowsOK

\* A reading, row by row.
Read(reading) == [i \in All |-> Reading(reading, rows[i])]

AllReadings == {"paid", "returned", "saved", "value", "spend"}

\* The readings are columns of integers.
LEMMA ReadColumns ==
  ASSUME RowsOK
  PROVE  /\ \A reading \in AllReadings : Read(reading) \in [All -> Int]
         /\ \A i \in All : /\ Read("paid")[i] = Paid(rows[i]) /\ Read("returned")[i] = Returned(rows[i])
                            /\ Read("saved")[i] = Saved(rows[i]) /\ Read("value")[i] = Value(rows[i])
                            /\ Read("spend")[i] = SpendOf(rows[i])
<1>1. \A t : /\ Reading("paid", t) = Paid(t) /\ Reading("returned", t) = Returned(t)
             /\ Reading("saved", t) = Saved(t) /\ Reading("value", t) = Value(t)
             /\ Reading("spend", t) = SpendOf(t)
  BY DEF Reading
<1>2. \A i \in All : /\ Paid(rows[i]) \in Int /\ Returned(rows[i]) \in Int /\ Saved(rows[i]) \in Int
                     /\ Value(rows[i]) \in Int /\ SpendOf(rows[i]) \in Int
  BY RowFacts, Readings
<1>3. \A i \in All : \A reading \in AllReadings : Reading(reading, rows[i]) \in Int
  BY <1>1, <1>2 DEF AllReadings
<1>4. \A reading \in AllReadings : Read(reading) \in [All -> Int]
  BY <1>3 DEF Read
<1>5. \A reading \in AllReadings : \A i \in All : Read(reading)[i] = Reading(reading, rows[i])
  BY DEF Read
<1> QED  BY <1>1, <1>4, <1>5 DEF AllReadings

\* A sum of a reading is a column over those rows.
LEMMA SumIsOver ==
  ASSUME NEW reading, NEW S \in SUBSET All
  PROVE  SumOf(reading, S) = Over(Read(reading), S)
<1>1. [i \in S |-> Reading(reading, rows[i])] = [i \in S |-> Read(reading)[i]]
  BY DEF Read
<1> QED  BY <1>1 DEF SumOf, Over

\* Rows that read as nothing may be left out.
LEMMA LeftOut ==
  ASSUME NEW S, IsFiniteSet(S), NEW f \in [S -> Int], NEW B \in SUBSET S, NEW A \in SUBSET B,
         \A x \in B \ A : f[x] = 0
  PROVE  Over(f, B) = Over(f, A)
<1>1. A \in SUBSET S /\ B \ A \in SUBSET S /\ A \cap (B \ A) = {} /\ A \cup (B \ A) = B
  OBVIOUS
<1>2. Over(f, B \ A) = 0
  BY <1>1, Signs
<1>3. Over(f, A \cup (B \ A)) = Over(f, A) + Over(f, B \ A)
  BY <1>1, TwoParts
<1>4. PICK a \in Int : a = Over(f, A)
  BY <1>1, OneOff
<1>5. Over(f, B) = a + 0
  BY <1>1, <1>2, <1>3, <1>4
<1> QED  BY <1>4, <1>5

\* The image of a finite set under a label is finite, and no larger.
LEMMA Labels ==
  ASSUME NEW S, IsFiniteSet(S), NEW label
  PROVE  IsFiniteSet({label[x] : x \in S}) /\ Cardinality({label[x] : x \in S}) <= Cardinality(S)
<1> DEFINE f == [x \in S |-> label[x]]
           T == {label[x] : x \in S}
<1>1. f \in Surjection(S, T)
  BY DEF Surjection
<1> HIDE DEF f, T
<1>2. IsFiniteSet(T) /\ Cardinality(T) <= Cardinality(S)
  BY <1>1, FS_Surjection
<1> QED  BY <1>2 DEF T

-----------------------------------------------------------------------------
(* The totals.                                                             *)

\* What is spent and saved is what really happened.
LEMMA TotalsAreRight ==
  ASSUME RowsOK
  PROVE  /\ SumOf("spend", Countable) = Column([i \in All |-> rows[i].left])
         /\ SumOf("saved", Countable) = Column([i \in All |-> rows[i].discount])
<1> DEFINE left == [i \in All |-> rows[i].left]
           discount == [i \in All |-> rows[i].discount]
<1>1. /\ Countable \in SUBSET All /\ IsFiniteSet(All)
      /\ \A i \in All : i \in Countable <=> ~rows[i].duplicate
  BY RowFacts DEF Countable
<1>2. left \in [All -> Int] /\ discount \in [All -> Int]
  BY RowFacts DEF IsRow
<1>3. \A i \in All : left[i] = rows[i].left /\ discount[i] = rows[i].discount
  OBVIOUS
<1>4. \A i \in All : /\ i \in Countable => SpendOf(rows[i]) = left[i] /\ Saved(rows[i]) = discount[i]
                     /\ i \notin Countable => left[i] = 0 /\ discount[i] = 0
  BY <1>1, RowFacts, RowIsReadRight
<1>5. left = [i \in All |-> left[i]] /\ discount = [i \in All |-> discount[i]]
  OBVIOUS
<1> HIDE DEF left, discount
<1>6. Over(Read("spend"), Countable) = Over(left, Countable)
  BY <1>1, <1>4, ReadColumns, Alike
<1>7. Over(Read("saved"), Countable) = Over(discount, Countable)
  BY <1>1, <1>4, ReadColumns, Alike
<1>8. Over(left, All) = Over(left, Countable)
  BY <1>1, <1>2, <1>4, LeftOut
<1>9. Over(discount, All) = Over(discount, Countable)
  BY <1>1, <1>2, <1>4, LeftOut
<1>10. Column(left) = Over(left, All) /\ Column(discount) = Over(discount, All)
  BY <1>5, OverAll
<1>11. SumOf("spend", Countable) = Over(Read("spend"), Countable)
  BY <1>1, SumIsOver
<1>12. SumOf("saved", Countable) = Over(Read("saved"), Countable)
  BY <1>1, SumIsOver
<1> QED  BY <1>6, <1>7, <1>8, <1>9, <1>10, <1>11, <1>12 DEF left, discount

-----------------------------------------------------------------------------
(* The splits.                                                             *)

\* The parts of the spend and of the savings.
LEMMA SourcesAddUp ==
  ASSUME RowsOK
  PROVE  /\ SumOf("spend", Countable) =
               SpendBreakdown.regular + SpendBreakdown.statement - SpendBreakdown.refund
         /\ SumOf("saved", Countable) = SavingsBreakdown.coupon + SavingsBreakdown.statement
         /\ SumOf("value", Countable) = SumOf("spend", Countable) + SavingsBreakdown.coupon
<1> DEFINE kind(k) == {i \in Countable : Kind(rows[i]) = k}
           paid == Read("paid")
           returned == Read("returned")
           saved == Read("saved")
           value == Read("value")
           spend == Read("spend")
           loaded == [i \in All |-> IF i \in kind("coupon") THEN saved[i] ELSE 0]
<1>1. /\ Countable \in SUBSET All /\ IsFiniteSet(All)
      /\ \A k : kind(k) \in SUBSET All /\ kind(k) \in SUBSET Countable
      /\ \A i \in Countable : \A k : i \in kind(k) <=> Kind(rows[i]) = k
  BY RowFacts DEF Countable
<1>2. /\ SpendBreakdown.regular = Over(paid, kind("regular"))
      /\ SpendBreakdown.statement = Over(paid, kind("statement"))
      /\ SpendBreakdown.refund = Over(returned, kind("refund"))
      /\ SavingsBreakdown.coupon = Over(saved, kind("coupon"))
      /\ SavingsBreakdown.statement = Over(saved, kind("statement"))
  BY <1>1, SumIsOver DEF SpendBreakdown, SavingsBreakdown, OfKind
<1>3. /\ SumOf("spend", Countable) = Over(spend, Countable)
      /\ SumOf("saved", Countable) = Over(saved, Countable)
      /\ SumOf("value", Countable) = Over(value, Countable)
  BY <1>1, SumIsOver
<1>4. /\ paid \in [All -> Int] /\ returned \in [All -> Int] /\ saved \in [All -> Int]
      /\ value \in [All -> Int] /\ spend \in [All -> Int]
  BY ReadColumns DEF AllReadings
<1>5. \A i \in All :
        /\ paid[i] = Paid(rows[i]) /\ returned[i] = Returned(rows[i]) /\ saved[i] = Saved(rows[i])
        /\ value[i] = Value(rows[i]) /\ spend[i] = SpendOf(rows[i])
  BY ReadColumns
<1>6. \A i \in All :
        /\ Kind(rows[i]) \notin {"regular", "statement"} => Paid(rows[i]) = 0
        /\ Kind(rows[i]) # "refund" => Returned(rows[i]) = 0
        /\ Kind(rows[i]) \notin {"coupon", "statement"} => Saved(rows[i]) = 0
        /\ SpendOf(rows[i]) = Paid(rows[i]) - Returned(rows[i])
        /\ Value(rows[i]) = SpendOf(rows[i]) + (IF Kind(rows[i]) = "coupon" THEN Saved(rows[i]) ELSE 0)
  BY RowFacts, Readings
<1>7. loaded \in [All -> Int] /\ (\A i \in kind("coupon") : loaded[i] = saved[i])
      /\ \A i \in Countable \ kind("coupon") : loaded[i] = 0
  BY <1>1, <1>4
<1>8. \A i \in Countable : value[i] = spend[i] + loaded[i]
  BY <1>1, <1>5, <1>6
<1>9. \A i \in Countable : paid[i] = spend[i] + returned[i]
  <2>1. \A i \in Countable : spend[i] = paid[i] - returned[i] /\ paid[i] \in Int /\ returned[i] \in Int
    BY <1>1, <1>4, <1>5, <1>6
  <2> QED  BY <2>1
<1> HIDE DEF paid, returned, saved, value, spend, loaded
<1>10. Over(paid, Countable) = Over(spend, Countable) + Over(returned, Countable)
  BY <1>1, <1>4, <1>9, SumOfColumns
<1>11. Over(returned, Countable) = Over(returned, kind("refund"))
  <2>1. \A i \in Countable \ kind("refund") : returned[i] = 0
    BY <1>1, <1>5, <1>6
  <2> HIDE DEF kind
  <2> QED  BY <1>1, <1>4, <2>1, LeftOut
<1>12. ASSUME NEW f \in [All -> Int], NEW j, NEW k, j # k,
              \A i \in Countable : Kind(rows[i]) \notin {j, k} => f[i] = 0
       PROVE  Over(f, Countable) = Over(f, kind(j)) + Over(f, kind(k))
  <2>1. \A i \in Countable \ (kind(j) \cup kind(k)) : f[i] = 0
    BY <1>1, <1>12
  <2>2. kind(j) \cap kind(k) = {}
    BY <1>12
  <2> HIDE DEF kind
  <2>3. kind(j) \cup kind(k) \in SUBSET Countable
    BY <1>1
  <2>4. Over(f, Countable) = Over(f, kind(j) \cup kind(k))
    BY <1>1, <2>1, <2>3, LeftOut
  <2>5. Over(f, kind(j) \cup kind(k)) = Over(f, kind(j)) + Over(f, kind(k))
    BY <1>1, <2>2, TwoParts
  <2> QED  BY <2>4, <2>5
<1>13. Over(paid, Countable) = Over(paid, kind("regular")) + Over(paid, kind("statement"))
  <2>1. \A i \in Countable : Kind(rows[i]) \notin {"regular", "statement"} => paid[i] = 0
    BY <1>1, <1>5, <1>6
  <2>2. "regular" # "statement"
    OBVIOUS
  <2> HIDE DEF kind
  <2> QED  BY <1>4, <1>12, <2>1, <2>2
<1>14. Over(saved, Countable) = Over(saved, kind("coupon")) + Over(saved, kind("statement"))
  <2>1. \A i \in Countable : Kind(rows[i]) \notin {"coupon", "statement"} => saved[i] = 0
    BY <1>1, <1>5, <1>6
  <2>2. "coupon" # "statement"
    OBVIOUS
  <2> HIDE DEF kind
  <2> QED  BY <1>4, <1>12, <2>1, <2>2
<1>15. Over(value, Countable) = Over(spend, Countable) + Over(loaded, Countable)
  BY <1>1, <1>4, <1>7, <1>8, SumOfColumns
<1>16. Over(loaded, Countable) = Over(saved, kind("coupon"))
  <2> HIDE DEF kind
  <2>1. Over(loaded, Countable) = Over(loaded, kind("coupon"))
    BY <1>1, <1>7, LeftOut
  <2>2. Over(loaded, kind("coupon")) = Over(saved, kind("coupon"))
    BY <1>7, Alike
  <2> QED  BY <2>1, <2>2
<1>17. /\ Over(spend, Countable) \in Int /\ Over(returned, Countable) \in Int
       /\ Over(paid, kind("regular")) \in Int /\ Over(paid, kind("statement")) \in Int
  BY <1>1, <1>4, OneOff
<1>18. Over(spend, Countable) = Over(paid, kind("regular")) + Over(paid, kind("statement")) - Over(returned, kind("refund"))
  BY <1>10, <1>11, <1>13, <1>17
<1> QED
  BY <1>2, <1>3, <1>14, <1>15, <1>16, <1>18

\* The shapes of the rows, each with the sign it enters the spend with.
LEMMA MixAddsUp ==
  ASSUME RowsOK
  PROVE  Column([kind \in DOMAIN Mix |-> Mix[kind].contributes]) = SumOf("spend", Countable)
<1> DEFINE label == [i \in Countable |-> DetailedKind(rows[i])]
           kinds == {label[i] : i \in Countable}
           pile(k) == {i \in Countable : label[i] = k}
           spend == Read("spend")
<1>1. Countable \in SUBSET All /\ IsFiniteSet(All) /\ IsFiniteSet(Countable)
  <2>1. Countable \in SUBSET All /\ IsFiniteSet(All)
    BY RowFacts DEF Countable
  <2> QED  BY <2>1, FS_Subset
<1>2. IsFiniteSet(kinds)
  BY <1>1, Labels
<1>3. spend \in [All -> Int]
  BY ReadColumns DEF AllReadings
<1>4. \A i \in Countable : label[i] \in kinds
  OBVIOUS
<1>5. Column([k \in kinds |-> Over(spend, pile(k))]) = Over(spend, Countable)
  <2> HIDE DEF label, kinds, spend
  <2> QED  BY <1>1, <1>2, <1>3, <1>4, Piles
<1>6. DOMAIN Mix = kinds /\ \A k \in kinds : Mix[k] = MixRow(k)
  BY DEF Mix
<1>7. ASSUME NEW k \in kinds PROVE MixRow(k).contributes = Over(spend, pile(k))
  <2> DEFINE S == {i \in Countable : DetailedKind(rows[i]) = k}
  <2>1. S = pile(k) /\ S \in SUBSET All
    BY <1>1
  <2>2. MixRow(k).contributes = CASE k = "refund" -> -SumOf("returned", S) [] k = "coupon" -> 0 [] OTHER -> SumOf("paid", S)
    BY DEF MixRow
  <2>3. /\ Read("paid") \in [All -> Int] /\ Read("returned") \in [All -> Int]
        /\ \A i \in All : /\ spend[i] = Paid(rows[i]) - Returned(rows[i]) /\ Paid(rows[i]) \in Int /\ Returned(rows[i]) \in Int
                           /\ Read("paid")[i] = Paid(rows[i]) /\ Read("returned")[i] = Returned(rows[i])
    BY RowFacts, ReadColumns, Readings DEF AllReadings
  <2>4. \A i \in S : /\ Kind(rows[i]) \notin {"regular", "statement"} => Paid(rows[i]) = 0
                     /\ Kind(rows[i]) # "refund" => Returned(rows[i]) = 0
                     /\ Kind(rows[i]) = (IF k \in {"ordinary", "foreign", "installment"} THEN "regular" ELSE k)
    BY <2>1, RowFacts, Readings DEF Kind
  <2>5. SumOf("paid", S) = Over(Read("paid"), S) /\ SumOf("returned", S) = Over(Read("returned"), S)
    BY <2>1, SumIsOver
  <2> HIDE DEF S, spend
  <2>6. CASE k = "refund"
    <3>1. \A i \in S : Paid(rows[i]) = 0
      BY <2>4, <2>6
    <3> DEFINE none == [i \in All |-> 0]
    <3>2. none \in [All -> Int] /\ \A i \in S : none[i] = spend[i] + Read("returned")[i]
      BY <2>1, <2>3, <3>1
    <3>3. \A i \in S : none[i] = 0
      BY <2>1
    <3> HIDE DEF none
    <3>4. Over(none, S) = Over(spend, S) + Over(Read("returned"), S)
      <4> DEFINE returned == Read("returned")
      <4>1. returned \in [All -> Int] /\ S \in SUBSET All /\ \A i \in S : none[i] = spend[i] + returned[i]
        BY <2>1, <2>3, <3>2
      <4> HIDE DEF returned
      <4>2. Over(none, S) = Over(spend, S) + Over(returned, S)
        BY <1>1, <1>3, <3>2, <4>1, SumOfColumns
      <4> QED  BY <4>2 DEF returned
    <3>5. Over(none, S) = 0
      BY <1>1, <2>1, <3>2, <3>3, Signs
    <3>6. Over(spend, S) \in Int /\ Over(Read("returned"), S) \in Int
      BY <1>1, <1>3, <2>1, <2>3, OneOff
    <3>7. Over(spend, S) = -Over(Read("returned"), S)
      BY <3>4, <3>5, <3>6
    <3> QED  BY <2>1, <2>2, <2>5, <2>6, <3>7
  <2>7. CASE k = "coupon"
    <3>1. \A i \in S : spend[i] = 0
      BY <2>1, <2>3, <2>4, <2>7
    <3>2. Over(spend, S) = 0
      BY <1>1, <1>3, <2>1, <3>1, Signs
    <3> QED  BY <2>1, <2>2, <2>7, <3>2
  <2>8. CASE k \notin {"refund", "coupon"}
    <3>1. \A i \in S : spend[i] = Read("paid")[i]
      BY <2>1, <2>3, <2>4, <2>8
    <3>2. Over(spend, S) = Over(Read("paid"), S)
      BY <3>1, Alike
    <3> QED  BY <2>1, <2>2, <2>5, <2>8, <3>2
  <2> QED
    BY <2>6, <2>7, <2>8
<1>8. [k \in DOMAIN Mix |-> Mix[k].contributes] = [k \in kinds |-> Over(spend, pile(k))]
  <2>1. \A k \in kinds : Mix[k].contributes = Over(spend, pile(k))
    BY <1>6, <1>7
  <2> QED  BY <1>6, <2>1
<1>9. SumOf("spend", Countable) = Over(spend, Countable)
  BY <1>1, SumIsOver
<1> QED
  BY <1>5, <1>8, <1>9

\* Piles by any field of the rows.
LEMMA PilesAddUp ==
  ASSUME RowsOK, NEW field, NEW reading \in AllReadings, NEW S \in SUBSET All
  PROVE  /\ Column(PerPile(field, reading, S)) = SumOf(reading, S)
         /\ \A v \in DOMAIN PerPile(field, reading, S) : PerPile(field, reading, S)[v] \in Int
<1> DEFINE label == [i \in S |-> rows[i][field]]
           values == {label[i] : i \in S}
           pile(v) == {i \in S : label[i] = v}
           f == Read(reading)
<1>1. IsFiniteSet(All) /\ IsFiniteSet(S)
  <2>1. IsFiniteSet(All)
    BY RowFacts
  <2> QED  BY <2>1, FS_Subset
<1>2. IsFiniteSet(values)
  BY <1>1, Labels
<1>3. f \in [All -> Int]
  BY ReadColumns
<1>4. \A i \in S : label[i] \in values
  OBVIOUS
<1>5. Column([v \in values |-> Over(f, pile(v))]) = Over(f, S)
  <2> HIDE DEF label, values, f
  <2> QED  BY <1>1, <1>2, <1>3, <1>4, Piles
<1>6. {rows[i][field] : i \in S} = values
  OBVIOUS
<1>7. ASSUME NEW v PROVE SumOf(reading, {i \in S : rows[i][field] = v}) = Over(f, pile(v)) /\ Over(f, pile(v)) \in Int
  <2>1. {i \in S : rows[i][field] = v} = pile(v) /\ pile(v) \in SUBSET All
    OBVIOUS
  <2> HIDE DEF pile, f
  <2>2. SumOf(reading, pile(v)) = Over(f, pile(v))
    BY <2>1, SumIsOver DEF f
  <2> QED  BY <1>1, <1>3, <2>1, <2>2, OneOff
<1>8. PerPile(field, reading, S) = [v \in values |-> Over(f, pile(v))]
  BY <1>6, <1>7 DEF PerPile
<1>9. SumOf(reading, S) = Over(f, S)
  BY SumIsOver
<1>10. \A v \in values : Over(f, pile(v)) \in Int
  BY <1>7
<1> HIDE DEF values, pile, f
<1> QED
  BY <1>5, <1>8, <1>9, <1>10

\* The savings by account, and where they landed.
LEMMA SavingsAddUp ==
  ASSUME RowsOK
  PROVE  /\ Column(PerPile("account", "saved", {i \in All : rows[i].account # Absent})) = SumOf("saved", Countable)
         /\ (\A i \in All : rows[i].id) => SumOf("saved", Applied) = SumOf("saved", Countable)
<1> DEFINE saved == Read("saved")
<1>1. /\ Countable \in SUBSET All /\ Applied \in SUBSET Countable /\ IsFiniteSet(All)
      /\ \A i \in All : (i \in Countable <=> ~rows[i].duplicate) /\ (i \in Applied <=> IsPurchase(rows[i]) /\ rows[i].id /\ Saved(rows[i]) > 0)
  BY RowFacts DEF Countable, Applied, Purchases, IsPurchase
<1>2. saved \in [All -> Int] /\ \A i \in All : saved[i] = Saved(rows[i])
  BY ReadColumns DEF AllReadings
<1>3. {i \in All : rows[i].account # Absent} = All
  BY RowFacts DEF IsRow
<1>4. Column(PerPile("account", "saved", All)) = SumOf("saved", All)
  <2>1. "saved" \in AllReadings /\ All \in SUBSET All
    BY DEF AllReadings
  <2> QED  BY <2>1, PilesAddUp
<1>5. \A i \in All \ Countable : saved[i] = 0
  BY <1>1, <1>2, RowFacts, Readings DEF Kind
<1>6. (\A i \in All : rows[i].id) => \A i \in Countable \ Applied : saved[i] = 0
  <2>1. \A i \in All : Saved(rows[i]) \in Int /\ Saved(rows[i]) >= 0 /\ (Saved(rows[i]) > 0 => IsPurchase(rows[i]))
    BY RowFacts, Readings
  <2> QED  BY <1>1, <1>2, <2>1
<1> HIDE DEF saved
<1>7. Over(saved, All) = Over(saved, Countable)
  BY <1>1, <1>2, <1>5, LeftOut
<1>8. (\A i \in All : rows[i].id) => Over(saved, Countable) = Over(saved, Applied)
  BY <1>1, <1>2, <1>6, LeftOut
<1>9. /\ SumOf("saved", All) = Over(saved, All) /\ SumOf("saved", Countable) = Over(saved, Countable)
      /\ SumOf("saved", Applied) = Over(saved, Applied)
  BY <1>1, SumIsOver DEF saved
<1> QED
  BY <1>3, <1>4, <1>7, <1>8, <1>9

\* The days of the week, and the two periods.
LEMMA DaysAddUp ==
  ASSUME RowsOK
  PROVE  /\ Column(ByDay) = SumOf("value", Dated)
         /\ Difference.current + Difference.previous = SumOf("spend", Dated)
<1> DEFINE value == Read("value")
           spend == Read("spend")
           week == 0 .. 6
           label == [i \in Dated |-> rows[i].ago % 7]
           pile(day) == {i \in Dated : label[i] = day}
           recent == {i \in Dated : rows[i].ago <= Days}
           before == {i \in Dated : rows[i].ago > Days}
<1>1. Dated \in SUBSET All /\ IsFiniteSet(All) /\ \A i \in Dated : rows[i].ago \in Nat
  BY RowFacts DEF Dated, Countable, IsRow
<1>2. value \in [All -> Int] /\ spend \in [All -> Int]
  BY ReadColumns DEF AllReadings
<1>3. IsFiniteSet(week) /\ \A i \in Dated : label[i] \in week
  <2>1. \A i \in Dated : rows[i].ago % 7 \in 0 .. 6
    BY <1>1
  <2>2. IsFiniteSet(0 .. 6)
    <3>1. \A a, b \in Int : IsFiniteSet(a .. b)
      BY FS_Interval
    <3>2. 0 \in Int /\ 6 \in Int
      OBVIOUS
    <3> QED  BY <3>1, <3>2, Zenon
  <2> QED  BY <2>1, <2>2
<1>4. Column([day \in week |-> Over(value, pile(day))]) = Over(value, Dated)
  <2> HIDE DEF label, value, week
  <2> QED  BY <1>1, <1>2, <1>3, Piles
<1>5. ByDay = [day \in week |-> Over(value, pile(day))]
  <2>1. ASSUME NEW day PROVE SumOf("value", {i \in Dated : rows[i].ago % 7 = day}) = Over(value, pile(day))
    <3>1. {i \in Dated : rows[i].ago % 7 = day} = pile(day) /\ pile(day) \in SUBSET All
      BY <1>1
    <3> HIDE DEF pile
    <3> QED  BY <3>1, SumIsOver
  <2> QED  BY <2>1 DEF ByDay
<1>6. /\ recent \in SUBSET All /\ before \in SUBSET All /\ recent \cap before = {}
      /\ recent \cup before = Dated
  BY <1>1, InsightsAssumption
<1>7. Difference.current = SumOf("spend", recent) /\ Difference.previous = SumOf("spend", before)
  BY DEF Difference
<1> HIDE DEF recent, before, value, spend
<1>8. Over(spend, recent \cup before) = Over(spend, recent) + Over(spend, before)
  BY <1>1, <1>2, <1>6, TwoParts
<1>9. /\ SumOf("spend", recent) = Over(spend, recent) /\ SumOf("spend", before) = Over(spend, before)
      /\ SumOf("spend", Dated) = Over(spend, Dated) /\ SumOf("value", Dated) = Over(value, Dated)
  BY <1>1, <1>6, SumIsOver DEF spend, value
<1> QED
  BY <1>4, <1>5, <1>6, <1>7, <1>8, <1>9

\* The values of a field among fewer rows are no more.
LEMMA FewerValues ==
  ASSUME RowsOK, NEW field, NEW limit \in Nat, NEW T \in SUBSET All, NEW S \in SUBSET T, Uncut(limit, field, T)
  PROVE  Uncut(limit, field, S) /\ IsFiniteSet(Values(field, S))
<1> DEFINE label == [i \in T |-> rows[i][field]]
           values(U) == {label[i] : i \in U}
<1>1. Values(field, T) = values(T) /\ Values(field, S) = values(S)
  BY DEF Values
<1>2. IsFiniteSet(T)
  BY RowFacts, FS_Subset
<1>3. values(S) \in SUBSET values(T)
  OBVIOUS
<1>4. IsFiniteSet(values(T))
  <2> HIDE DEF label
  <2> QED  BY <1>2, Labels
<1>5. Cardinality(values(T)) <= limit
  BY <1>1 DEF Uncut
<1> HIDE DEF label, values
<1>6. /\ IsFiniteSet(values(S)) /\ Cardinality(values(S)) <= Cardinality(values(T))
      /\ Cardinality(values(S)) \in Nat /\ Cardinality(values(T)) \in Nat
  BY <1>3, <1>4, FS_Subset, FS_CardinalityType
<1> QED  BY <1>1, <1>5, <1>6 DEF Uncut

\* A list that is long enough shows every pile.
LEMMA LeadingIsAll ==
  ASSUME RowsOK, NEW field, NEW limit, NEW S \in SUBSET All, Uncut(limit, field, S)
  PROVE  Leading(limit, field, S) = PerPile(field, "value", S)
<1> DEFINE amount == PerPile(field, "value", S)
           values == Values(field, S)
<1>1. DOMAIN amount = values
  BY DEF PerPile, Values
<1>2. Cardinality(values) <= limit
  BY DEF Uncut
<1>3. Leading(limit, field, S) = [v \in values |-> amount[v]]
  BY <1>2 DEF Leading
<1>4. amount = [v \in DOMAIN amount |-> amount[v]]
  BY DEF PerPile
<1> HIDE DEF amount, values
<1>5. Leading(limit, field, S) = amount
  BY <1>1, <1>3, <1>4
<1> QED  BY <1>5 DEF amount

\* The merchants of some purchases are all shown, while there are no more than that.
LEMMA MerchantsAddUp ==
  ASSUME RowsOK, NEW reading \in AllReadings, NEW S \in SUBSET All, Uncut(MaxShops, "merchant", S)
  PROVE  /\ BandTotals(Merchants(S, reading)).amount = SumOf(reading, S)
         /\ BandTotals(Merchants(S, reading)).purchases = Cardinality(S)
<1> DEFINE label == [i \in S |-> rows[i].merchant]
           names == {label[i] : i \in S}
           pile(n) == {i \in S : label[i] = n}
           amount == PerPile("merchant", reading, S)
           before(n) == {m \in DOMAIN amount : amount[m] > amount[n] \/ (amount[m] = amount[n] /\ m < n)}
           ones == [i \in All |-> 1]
<1>1. IsFiniteSet(All) /\ IsFiniteSet(S)
  <2>1. IsFiniteSet(All)
    BY RowFacts
  <2> QED  BY <2>1, FS_Subset
<1>2. IsFiniteSet(names)
  BY <1>1, Labels
<1>3. names \subseteq Nat
  BY RowFacts DEF RowsOK, IsRow
<1>4. Cardinality(names) <= MaxShops
  BY DEF Uncut, Values
<1>5. DOMAIN amount = names
  BY DEF PerPile
<1>6. \A n \in names : amount[n] \in Int
  BY <1>5, PilesAddUp
<1>7. ASSUME NEW n \in names PROVE Cardinality(before(n)) < MaxShops
  <2>1. n \notin before(n) /\ before(n) \in SUBSET (names \ {n})
    <3>1. amount[n] \in Int /\ n \in Nat
      BY <1>3, <1>6
    <3>2. ~(amount[n] > amount[n]) /\ ~(n < n)
      BY <3>1
    <3> HIDE DEF amount, names
    <3> QED  BY <1>5, <3>2
  <2> HIDE DEF before, names
  <2>2. IsFiniteSet(names \ {n}) /\ Cardinality(names \ {n}) = Cardinality(names) - 1
    BY <1>2, FS_RemoveElement
  <2>3. Cardinality(before(n)) <= Cardinality(names) - 1 /\ IsFiniteSet(before(n))
    BY <2>1, <2>2, FS_Subset
  <2>4. Cardinality(before(n)) \in Nat /\ Cardinality(names) \in Nat /\ MaxShops \in Nat
    BY <1>2, <2>3, FS_CardinalityType, InsightsAssumption
  <2> QED  BY <1>4, <2>3, <2>4
<1>8. Merchants(S, reading) = [n \in names |-> [amount |-> amount[n], purchases |-> {i \in S : rows[i].merchant = n}]]
  <2>1. {n \in DOMAIN amount : Cardinality(before(n)) < MaxShops} = names
    BY <1>5, <1>7
  <2> QED  BY <2>1 DEF Merchants
<1>9. BandTotals(Merchants(S, reading)) =
        [amount |-> Column([n \in names |-> amount[n]]),
         purchases |-> Column([n \in names |-> Cardinality(pile(n))])]
  <2> DEFINE shown == Merchants(S, reading)
  <2>1. DOMAIN shown = names
    BY <1>8
  <2>2. \A n \in names : shown[n].amount = amount[n] /\ shown[n].purchases = pile(n)
    BY <1>8
  <2> HIDE DEF shown, names, amount, pile
  <2>3. [n \in DOMAIN shown |-> shown[n].amount] = [n \in names |-> amount[n]]
    BY <2>1, <2>2
  <2>4. [n \in DOMAIN shown |-> Cardinality(shown[n].purchases)] = [n \in names |-> Cardinality(pile(n))]
    BY <2>1, <2>2
  <2> QED  BY <2>3, <2>4 DEF BandTotals, shown
<1>10. Column([n \in names |-> amount[n]]) = SumOf(reading, S)
  <2>1. amount = [n \in names |-> amount[n]]
    BY <1>5 DEF PerPile
  <2>2. Column(amount) = SumOf(reading, S)
    BY PilesAddUp
  <2> HIDE DEF amount, names
  <2> QED  BY <2>1, <2>2
<1>11. ones \in [All -> Int] /\ \A i \in S : label[i] \in names
  OBVIOUS
<1>12. Column([n \in names |-> Over(ones, pile(n))]) = Over(ones, S)
  <2> HIDE DEF ones, names, label
  <2> QED  BY <1>1, <1>2, <1>11, Piles
<1>13. \A n \in names : Over(ones, pile(n)) = Cardinality(pile(n))
  <2>1. \A n \in names : pile(n) \in SUBSET All
    OBVIOUS
  <2> HIDE DEF pile, names
  <2> QED  BY <1>1, <2>1, Counting
<1>14. Over(ones, S) = Cardinality(S)
  BY <1>1, Counting
<1>15. Column([n \in names |-> Cardinality(pile(n))]) = Cardinality(S)
  <2> HIDE DEF ones, pile, names
  <2>1. [n \in names |-> Over(ones, pile(n))] = [n \in names |-> Cardinality(pile(n))]
    BY <1>13
  <2> QED  BY <1>12, <1>14, <2>1
<1> QED
  BY <1>9, <1>10, <1>15

\* The band of a missed purchase is one of the three that are shown.
LEMMA BandOf ==
  ASSUME NEW t, IsRow(t), Shops(t) # {}
  PROVE  \E b \in 1 .. 3 : Best(t) = Bands[b]
<1> DEFINE S == {b \in DOMAIN Bands : \E s \in Shops(t) : s.band = Bands[b]}
<1>1. DOMAIN Bands = 1 .. 3 /\ Bands[1] = "EXACT" /\ Bands[2] = "STRONG" /\ Bands[3] = "SIMILAR"
  BY DEF Bands
<1>2. S \subseteq 1 .. 3 /\ S # {}
  <2>1. PICK s \in Shops(t) : TRUE
    OBVIOUS
  <2>2. s.band \in {"EXACT", "STRONG", "SIMILAR"}
    BY DEF Shops, IsRow
  <2>3. 1 \in 1 .. 3 /\ 2 \in 1 .. 3 /\ 3 \in 1 .. 3
    OBVIOUS
  <2> QED  BY <1>1, <2>1, <2>2, <2>3
<1> HIDE DEF S
<1>3. PICK m \in S : \A k \in S : m <= k
  <2>1. CASE 1 \in S
    BY <1>2, <2>1
  <2>2. CASE 1 \notin S /\ 2 \in S
    BY <1>2, <2>2
  <2>3. CASE 1 \notin S /\ 2 \notin S
    <3>1. \A k \in S : k \in 1 .. 3 /\ k # 1 /\ k # 2
      BY <1>2, <2>3
    <3>2. \A k \in S : k = 3
      BY <3>1
    <3>3. PICK k \in S : TRUE
      BY <1>2
    <3> QED  BY <3>2, <3>3
  <2> QED  BY <2>1, <2>2, <2>3
<1>4. S \subseteq Int
  BY <1>2
<1>5. Min(S) = m
  BY <1>3, <1>4, LeastOf
<1> QED
  BY <1>2, <1>5 DEF Best, S

\* The bands hold each missed purchase, once.
LEMMA MissedAddsUp ==
  ASSUME RowsOK, Uncut(MaxShops, "merchant", Purchases)
  PROVE  /\ Column([b \in DOMAIN Bands |-> MissedByBand[b].purchases]) = Cardinality(Missed)
         /\ Column([b \in DOMAIN Bands |-> MissedByBand[b].amount]) <= SumOf("paid", Purchases)
<1> DEFINE label == [i \in Missed |-> CHOOSE b \in 1 .. 3 : Best(rows[i]) = Bands[b]]
           three == 1 .. 3
           pile(b) == {i \in Missed : label[i] = b}
           ones == [i \in All |-> 1]
           paid == Read("paid")
<1>1. /\ IsFiniteSet(All) /\ Purchases \in SUBSET All /\ Missed \in SUBSET Purchases /\ Missed \in SUBSET All
      /\ \A i \in Missed : IsRow(rows[i]) /\ Shops(rows[i]) # {}
  BY RowFacts DEF Purchases, Missed
<1>2. DOMAIN Bands = three /\ Bands[1] = "EXACT" /\ Bands[2] = "STRONG" /\ Bands[3] = "SIMILAR"
  BY DEF Bands
<1>3. \A i \in Missed : label[i] \in three /\ Best(rows[i]) = Bands[label[i]]
  BY <1>1, BandOf
<1>4. \A a, b \in three : Bands[a] = Bands[b] => a = b
  BY <1>2
<1>5. ASSUME NEW b \in three PROVE UnderBand(Bands[b]) = pile(b)
  <2>1. \A i \in Missed : Best(rows[i]) = Bands[b] <=> label[i] = b
    BY <1>3, <1>4
  <2> HIDE DEF label
  <2> QED  BY <2>1 DEF UnderBand
<1>6. \A b \in three : pile(b) \in SUBSET All
  BY <1>1
<1>7. IsFiniteSet(three)
  <2>1. \A a, b \in Int : IsFiniteSet(a .. b)
    BY FS_Interval
  <2>2. 1 \in Int /\ 3 \in Int
    OBVIOUS
  <2> QED  BY <2>1, <2>2, Zenon DEF three
<1>8. /\ ones \in [All -> Int] /\ paid \in [All -> Int]
      /\ \A i \in All : paid[i] >= 0
  BY RowFacts, ReadColumns, Readings DEF AllReadings
<1> HIDE DEF label, three, paid
<1>9. ASSUME NEW b \in three
      PROVE  /\ MissedByBand[b].purchases = Over(ones, pile(b))
             /\ MissedByBand[b].amount = Over(paid, pile(b))
  <2>1. MissedByBand[b] = BandTotals(Merchants(pile(b), "paid"))
    BY <1>2, <1>5 DEF MissedByBand
  <2>2. "paid" \in AllReadings
    BY DEF AllReadings
  <2>3. pile(b) \in SUBSET All /\ pile(b) \in SUBSET Purchases
    BY <1>1, <1>6
  <2> HIDE DEF pile
  <2>7. Uncut(MaxShops, "merchant", pile(b))
    BY <1>1, <2>3, FewerValues, InsightsAssumption
  <2>4. /\ BandTotals(Merchants(pile(b), "paid")).amount = SumOf("paid", pile(b))
        /\ BandTotals(Merchants(pile(b), "paid")).purchases = Cardinality(pile(b))
    BY <2>2, <2>3, <2>7, MerchantsAddUp
  <2>5. SumOf("paid", pile(b)) = Over(paid, pile(b))
    BY <2>3, SumIsOver DEF paid
  <2>6. Over(ones, pile(b)) = Cardinality(pile(b))
    BY <1>1, <2>3, Counting
  <2> QED  BY <2>1, <2>4, <2>5, <2>6
<1> HIDE DEF ones
<1>10. Column([b \in three |-> Over(ones, pile(b))]) = Over(ones, Missed)
  BY <1>1, <1>3, <1>7, <1>8, Piles
<1>11. Column([b \in three |-> Over(paid, pile(b))]) = Over(paid, Missed)
  BY <1>1, <1>3, <1>7, <1>8, Piles
<1> HIDE DEF pile
<1>12. [b \in DOMAIN Bands |-> MissedByBand[b].purchases] = [b \in three |-> Over(ones, pile(b))]
  BY <1>2, <1>9
<1>13. [b \in DOMAIN Bands |-> MissedByBand[b].amount] = [b \in three |-> Over(paid, pile(b))]
  BY <1>2, <1>9
<1>14. Over(ones, Missed) = Cardinality(Missed)
  BY <1>1, Counting DEF ones
<1>15. Over(paid, Missed) <= Over(paid, Purchases)
  <2>1. /\ Purchases \ Missed \in SUBSET All /\ Missed \cap (Purchases \ Missed) = {}
        /\ Missed \cup (Purchases \ Missed) = Purchases
    BY <1>1
  <2>2. Over(paid, Missed \cup (Purchases \ Missed)) = Over(paid, Missed) + Over(paid, Purchases \ Missed)
    BY <1>1, <1>8, <2>1, TwoParts
  <2>3. Over(paid, Purchases \ Missed) >= 0
    <3>1. \A i \in Purchases \ Missed : paid[i] >= 0
      BY <1>8, <2>1
    <3> QED  BY <1>1, <1>8, <2>1, <3>1, Signs
  <2>4. PICK a \in Int : a = Over(paid, Missed)
    BY <1>1, <1>8, OneOff
  <2>5. PICK b \in Int : b = Over(paid, Purchases \ Missed)
    BY <1>1, <1>8, <2>1, OneOff
  <2>6. Over(paid, Purchases) = a + b /\ b >= 0
    BY <2>1, <2>2, <2>3, <2>4, <2>5
  <2> QED  BY <2>4, <2>6
<1>16. SumOf("paid", Purchases) = Over(paid, Purchases)
  BY <1>1, SumIsOver DEF paid
<1> QED
  BY <1>10, <1>11, <1>12, <1>13, <1>14, <1>15, <1>16

-----------------------------------------------------------------------------
(* The answers.                                                            *)

\* The rows fetched are rows of the feed, each at its place.
LEMMA FetchStep ==
  ASSUME RowsOK, Fetch
  PROVE  RowsOK'
<1> DEFINE T == UNION {Rows[n] : n \in DOMAIN Rows}
<1>1. PICK t \in Rows[Len(rows) + 1] : rows' = Append(rows, t)
  BY DEF Fetch
<1>2. rows \in Seq(T) /\ Len(rows) \in Nat /\ Len(Rows) \in Nat /\ DOMAIN Rows = 1 .. Len(Rows) /\ Len(rows) < Len(Rows)
  BY RowsAssumption DEF RowsOK, Fetch
<1>3. Len(rows) + 1 \in DOMAIN Rows
  BY <1>2
<1>4. t \in T
  BY <1>3
<1> HIDE DEF T
<1>5. /\ rows' \in Seq(T) /\ DOMAIN rows' = 1 .. Len(rows) + 1 /\ DOMAIN rows = 1 .. Len(rows)
      /\ (\A i \in 1 .. Len(rows) : rows'[i] = rows[i]) /\ rows'[Len(rows) + 1] = t
  BY <1>1, <1>2, <1>4
<1>6. ASSUME NEW i \in DOMAIN rows' PROVE i \in DOMAIN Rows /\ rows'[i] \in Rows[i]
  <2>1. CASE i \in 1 .. Len(rows)
    <3>1. i \in DOMAIN rows
      BY <1>5, <2>1
    <3> QED  BY <1>5, <2>1, <3>1 DEF RowsOK, All
  <2>2. CASE i = Len(rows) + 1
    BY <1>1, <1>3, <1>5, <2>2
  <2> QED  BY <1>2, <1>5, <2>1, <2>2
<1> QED
  BY <1>5, <1>6 DEF RowsOK, All, T

\* An answer tells the totals as they are.
LEMMA AnswerTotals ==
  ASSUME RowsOK, Answer
  PROVE  TotalsAreWhatHappened'
<1>1. rows' = rows /\ answer'.spend = SumOf("spend", Countable) /\ answer'.saved = SumOf("saved", Countable)
  BY DEF Answer
<1>2. TotalsAreWhatHappened' <=>
        (answer' # Absent => /\ answer'.spend = Column([i \in All |-> rows[i].left])
                           /\ answer'.saved = Column([i \in All |-> rows[i].discount]))
  BY <1>1 DEF TotalsAreWhatHappened, All
<1> QED
  BY <1>1, <1>2, TotalsAreRight

\* An answer's splits add up.
LEMMA AnswerSplits ==
  ASSUME RowsOK, Answer
  PROVE  BreakdownsAddUp'
<1> DEFINE value == answer'.spend + answer'.savedFrom.coupon
           uncut == Uncut(MaxShops, "merchant", Purchases)
           identified == \A i \in All : rows[i].id
<1>1. /\ rows' = rows
      /\ answer'.spend = SumOf("spend", Countable) /\ answer'.saved = SumOf("saved", Countable)
      /\ answer'.breakdown = SpendBreakdown /\ answer'.savedFrom = SavingsBreakdown
      /\ answer'.mix = Mix /\ answer'.byDay = ByDay /\ answer'.difference = Difference
      /\ answer'.missed = MissedByBand /\ answer'.applied = BandTotals(Merchants(Applied, "saved"))
  BY DEF Answer
<1>2. /\ answer'.savedBy = PerPile("account", "saved", {i \in All : rows[i].account # Absent})
      /\ answer'.categories = Leading(TopCategories, "category", Countable)
      /\ answer'.accounts = Leading(TopAccounts, "account", Countable)
      /\ answer'.stores = Leading(TopStores, "merchant", Countable)
  BY DEF Answer
<1>3. /\ Countable \in SUBSET All /\ Purchases \in SUBSET All /\ Applied \in SUBSET Purchases
      /\ "value" \in AllReadings /\ "saved" \in AllReadings
  BY DEF Countable, Applied, Purchases, AllReadings
<1>4. /\ answer'.spend = answer'.breakdown.regular + answer'.breakdown.statement - answer'.breakdown.refund
      /\ answer'.saved = answer'.savedFrom.coupon + answer'.savedFrom.statement
  BY <1>1, SourcesAddUp
<1>5. answer'.spend = Column([k \in DOMAIN answer'.mix |-> answer'.mix[k].contributes])
  BY <1>1, MixAddsUp
<1>6. answer'.saved = Column(answer'.savedBy)
  BY <1>1, <1>2, SavingsAddUp
<1>7. uncut => (identified => answer'.saved = answer'.applied.amount)
  <2>1. uncut => Uncut(MaxShops, "merchant", Applied)
    BY <1>3, FewerValues, InsightsAssumption
  <2>2. uncut => BandTotals(Merchants(Applied, "saved")).amount = SumOf("saved", Applied)
    BY <1>3, <2>1, MerchantsAddUp
  <2>3. identified => SumOf("saved", Applied) = SumOf("saved", Countable)
    BY SavingsAddUp
  <2> HIDE DEF uncut, identified
  <2> QED  BY <1>1, <2>2, <2>3
<1>8. SumOf("value", Countable) = value
  BY <1>1, SourcesAddUp
<1>9. /\ Uncut(TopCategories, "category", Countable) => Column(answer'.categories) = value
      /\ Uncut(TopAccounts, "account", Countable) => Column(answer'.accounts) = value
      /\ Uncut(TopStores, "merchant", Countable) => Column(answer'.stores) = value
  <2>1. ASSUME NEW field, NEW limit, Uncut(limit, field, Countable)
        PROVE  Column(Leading(limit, field, Countable)) = SumOf("value", Countable)
    <3>1. Leading(limit, field, Countable) = PerPile(field, "value", Countable)
      BY <1>3, <2>1, LeadingIsAll
    <3>2. Column(PerPile(field, "value", Countable)) = SumOf("value", Countable)
      BY <1>3, PilesAddUp
    <3> QED  BY <3>1, <3>2
  <2> HIDE DEF value
  <2> QED  BY <1>2, <1>8, <2>1
<1>10. Dated = Countable => Column(answer'.byDay) = value
  BY <1>1, <1>8, DaysAddUp
<1>11. Dated = Countable => answer'.difference.current + answer'.difference.previous = answer'.spend
  BY <1>1, DaysAddUp
<1>12. uncut =>
       /\ Column([b \in DOMAIN Bands |-> answer'.missed[b].purchases]) = Cardinality(Missed)
       /\ Column([b \in DOMAIN Bands |-> answer'.missed[b].amount]) <= SumOf("paid", Purchases)
  BY <1>1, MissedAddsUp
<1>13. /\ Missed' = Missed /\ Purchases' = Purchases /\ Dated' = Dated /\ Countable' = Countable
       /\ SumOf("paid", Purchases)' = SumOf("paid", Purchases) /\ All' = All
  BY <1>1 DEF Missed, Purchases, Dated, Countable, All, SumOf
<1>14. uncut => MissedIsCountedOnce'
  <2> HIDE DEF uncut
  <2> QED  BY <1>12, <1>13 DEF MissedIsCountedOnce
<1>15. \A field, limit : /\ Uncut(limit, field, Countable)' = Uncut(limit, field, Countable)
                        /\ Uncut(limit, field, Purchases)' = Uncut(limit, field, Purchases)
  BY <1>1, <1>13 DEF Uncut, Values
<1>16. identified' = identified /\ uncut' = uncut
  BY <1>1, <1>13, <1>15
<1> HIDE DEF uncut, identified
<1>17. /\ uncut' => (identified' => answer'.saved = answer'.applied.amount)
       /\ uncut' => MissedIsCountedOnce'
  BY <1>7, <1>14, <1>16
<1> HIDE DEF value
<1>18. /\ Uncut(TopCategories, "category", Countable)' => Column(answer'.categories) = value
       /\ Uncut(TopAccounts, "account", Countable)' => Column(answer'.accounts) = value
       /\ Uncut(TopStores, "merchant", Countable)' => Column(answer'.stores) = value
  BY <1>9, <1>15
<1> QED
  BY <1>4, <1>5, <1>6, <1>10, <1>11, <1>13, <1>17, <1>18 DEF BreakdownsAddUp, value, uncut, identified

-----------------------------------------------------------------------------
\* Whatever the feed holds, and however it is reported - plans, foreign purchases, loaded
\* cards, billing still to come, refunds, duplicates - the totals answered are what left
\* the account and what was not paid.
THEOREM TotalsAreTrue == InsightsSpec => []TotalsAreWhatHappened
<1>1. InsightsInit => RowsOK /\ TotalsAreWhatHappened
  BY DEF InsightsInit, RowsOK, TotalsAreWhatHappened, All
<1>2. ASSUME RowsOK, TotalsAreWhatHappened, [InsightsNext]_insightsVars
      PROVE  RowsOK' /\ TotalsAreWhatHappened'
  <2>1. CASE Fetch
    <3>1. TotalsAreWhatHappened'
      BY <2>1 DEF Fetch, TotalsAreWhatHappened
    <3> QED  BY <1>2, <2>1, <3>1, FetchStep
  <2>2. CASE Answer
    <3>1. RowsOK'
      BY <1>2, <2>2 DEF Answer, RowsOK, All
    <3> QED  BY <1>2, <2>2, <3>1, AnswerTotals
  <2>3. CASE UNCHANGED insightsVars
    BY <1>2, <2>3 DEF insightsVars, RowsOK, TotalsAreWhatHappened, All
  <2> QED  BY <1>2, <2>1, <2>2, <2>3 DEF InsightsNext
<1> QED
  BY <1>1, <1>2, PTL DEF InsightsSpec

\* Every split of a total adds up to it - kinds, shapes, accounts, days and periods, and
\* categories, accounts, stores, merchants and bands as far as no list is cut - and a missed
\* purchase is in one band.
THEOREM SplitsAddUp == InsightsSpec => []BreakdownsAddUp
<1>1. InsightsInit => RowsOK /\ BreakdownsAddUp
  BY DEF InsightsInit, RowsOK, BreakdownsAddUp, All
<1>2. ASSUME RowsOK, BreakdownsAddUp, [InsightsNext]_insightsVars
      PROVE  RowsOK' /\ BreakdownsAddUp'
  <2>1. CASE Fetch
    <3>1. BreakdownsAddUp'
      BY <2>1 DEF Fetch, BreakdownsAddUp
    <3> QED  BY <1>2, <2>1, <3>1, FetchStep
  <2>2. CASE Answer
    <3>1. RowsOK'
      BY <1>2, <2>2 DEF Answer, RowsOK, All
    <3> QED  BY <1>2, <2>2, <3>1, AnswerSplits
  <2>3. CASE UNCHANGED insightsVars
    <3>1. rows' = rows /\ answer' = answer
      BY <2>3 DEF insightsVars
    <3> QED  BY <1>2, <3>1
             DEF RowsOK, BreakdownsAddUp, MissedIsCountedOnce, Missed, Purchases, Dated, Countable, All, SumOf,
                 Uncut, Values
  <2> QED  BY <1>2, <2>1, <2>2, <2>3 DEF InsightsNext
<1> QED
  BY <1>1, <1>2, PTL DEF InsightsSpec

-----------------------------------------------------------------------------
(* The deal optimizer: numbers, sums and rankings.                         *)

\* Every nonempty set of natural numbers has a least member.
LEMMA LeastMember ==
  ASSUME NEW S \in SUBSET Nat, S # {}
  PROVE  \E n \in S : \A m \in S : n <= m
<1> DEFINE R == OpToRel(<, Nat)
<1>1. IsWellFoundedOn(R, Nat)
  BY NatLessThanWellFounded
<1>2. \A i, j \in Nat : i < j => <<i, j>> \in R
  BY DEF OpToRel
<1> HIDE DEF R
<1>3. PICK n \in S : \A m \in S : ~ (<<m, n>> \in R)
  BY <1>1, WFMin
<1>4. ASSUME NEW m \in S PROVE n <= m
  <2>1. m \in Nat /\ n \in Nat /\ ~ (m < n)
    BY <1>2, <1>3
  <2> QED  BY <2>1
<1> QED
  BY <1>4

\* Induction over the numbers up to one of them, with a set for every number in the
\* place of a predicate.
LEMMA Following ==
  ASSUME NEW m \in Nat, NEW f, NEW V, f[0] \in V[0],
         \A n \in 1 .. m : f[n - 1] \in V[n - 1] => f[n] \in V[n]
  PROVE  \A n \in 0 .. m : f[n] \in V[n]
<1> DEFINE Bad == {n \in 0 .. m : f[n] \notin V[n]}
<1> SUFFICES ASSUME Bad # {} PROVE FALSE
  OBVIOUS
<1>1. Bad \in SUBSET Nat
  OBVIOUS
<1>2. PICK n \in Bad : \A k \in Bad : n <= k
  BY <1>1, LeastMember
<1>3. n \in 1 .. m
  BY <1>2
<1>4. n - 1 \in 0 .. m /\ n - 1 \notin Bad
  BY <1>2, <1>3
<1>5. f[n - 1] \in V[n - 1]
  BY <1>4
<1> QED  BY <1>2, <1>3, <1>5

\* A function that a first value and what follows each define.
Recurs(f, m, first, next) == f = [n \in 0 .. m |-> IF n = 0 THEN first ELSE next[n][f[n - 1]]]

\* A function on the numbers up to one of them is defined by its first value and by
\* what follows each.
LEMMA Recursion ==
  ASSUME NEW m \in Nat, NEW V, NEW first \in V, NEW next, \A n \in 1 .. m : next[n] \in [V -> V]
  PROVE  \E f : Recurs(f, m, first, next)
<1> DEFINE Upto(k, f) == /\ f \in [0 .. k -> V] /\ f[0] = first
                         /\ \A n \in 1 .. k : f[n] = next[n][f[n - 1]]
           Parts == [k \in 0 .. m |-> {f \in [0 .. k -> V] : Upto(k, f)}]
           part == [k \in 0 .. m |-> CHOOSE f : f \in Parts[k]]
<1>1. part[0] \in Parts[0]
  <2> DEFINE f == [i \in 0 .. 0 |-> first]
  <2>1. f \in [0 .. 0 -> V] /\ f[0] = first
    OBVIOUS
  <2>2. f \in Parts[0]
    BY <2>1
  <2> HIDE DEF f, Parts
  <2>3. 0 \in 0 .. m /\ \E h : h \in Parts[0]
    BY <2>2
  <2> QED  BY <2>3
<1>2. ASSUME NEW k \in 1 .. m, part[k - 1] \in Parts[k - 1] PROVE part[k] \in Parts[k]
  <2>0. k - 1 \in 0 .. m /\ k \in 0 .. m
    OBVIOUS
  <2>1. PICK f : Upto(k - 1, f)
    BY <1>2, <2>0
  <2> DEFINE g == [i \in 0 .. k |-> IF i = k THEN next[k][f[k - 1]] ELSE f[i]]
  <2>2. g \in [0 .. k -> V] /\ g[0] = first
    <3>1. f[k - 1] \in V /\ next[k] \in [V -> V]
      BY <2>1
    <3>2. \A i \in 0 .. k : i # k => i \in 0 .. k - 1
      OBVIOUS
    <3> QED  BY <2>1, <3>1, <3>2
  <2>3. ASSUME NEW i \in 1 .. k PROVE g[i] = next[i][g[i - 1]]
    <3>1. CASE i = k
      <4>1. g[i] = next[k][f[k - 1]] /\ g[i - 1] = f[i - 1]
        BY <3>1
      <4> QED  BY <3>1, <4>1
    <3>2. CASE i # k
      <4>1. i \in 1 .. k - 1
        BY <3>2
      <4>2. g[i] = f[i] /\ g[i - 1] = f[i - 1]
        BY <4>1
      <4> QED  BY <2>1, <4>1, <4>2
    <3> QED BY <3>1, <3>2
  <2> HIDE DEF g
  <2>4. g \in Parts[k]
    BY <2>0, <2>2, <2>3
  <2> HIDE DEF Parts
  <2> QED  BY <2>0, <2>4
<1> HIDE DEF Parts, part
<1>3. \A k \in 0 .. m : part[k] \in Parts[k]
  BY <1>1, <1>2, Following
<1>4. m \in 0 .. m
  OBVIOUS
<1>5. PICK f : Upto(m, f)
  BY <1>3, <1>4 DEF Parts
<1>6. f = [n \in 0 .. m |-> f[n]] /\ \A n \in 0 .. m : f[n] = IF n = 0 THEN first ELSE next[n][f[n - 1]]
  BY <1>5
<1> QED  BY <1>6 DEF Recurs

\* A share of an amount is no more than the amount.
LEMMA Shares ==
  ASSUME NEW a \in Nat, NEW r \in 0 .. 100
  PROVE  (a * r) \div 100 \in Nat /\ (a * r) \div 100 <= a
<1>1. a * r \in Nat /\ a * r <= a * 100
  OBVIOUS
<1>2. PICK p \in Nat : p = a * r
  BY <1>1
<1>3. p \div 100 \in Nat /\ p \div 100 <= a
  BY <1>1, <1>2
<1> QED  BY <1>2, <1>3

\* Products and quotients of natural numbers are natural.
LEMMA Products ==
  ASSUME NEW a \in Nat, NEW b \in Nat
  PROVE  a * b \in Nat /\ (a * b) \div 100 \in Nat
<1>1. a * b \in Nat
  OBVIOUS
<1>2. PICK p \in Nat : p = a * b
  BY <1>1
<1>3. p \div 100 \in Nat
  OBVIOUS
<1> QED  BY <1>2, <1>3

\* A quotient of natural numbers is natural.
LEMMA Quotients ==
  ASSUME NEW a \in Nat, NEW b \in Nat \ {0}
  PROVE  a \div b \in Nat
  OBVIOUS

\* The library's sum of a function is the column added up.
LEMMA SumIsColumn ==
  ASSUME NEW f
  PROVE  SumFunction(f) = Column(f)
BY DEF SumFunction, SumFunctionOnSet, FoldFunctionOnSet, Column, MapThenSumSet

\* A finite function to the natural numbers adds up to one.
LEMMA NatSum ==
  ASSUME NEW S, IsFiniteSet(S), NEW f \in [S -> Nat]
  PROVE  SumFunction(f) \in Nat /\ SumFunction(f) = Over(f, S)
<1>1. f \in [S -> Int] /\ f = [x \in S |-> f[x]] /\ \A x \in S : f[x] >= 0
  OBVIOUS
<1>2. S \in SUBSET S
  OBVIOUS
<1>3. SumFunction(f) = Over(f, S)
  BY <1>1, SumIsColumn, OverAll
<1>4. Over(f, S) \in Int /\ Over(f, S) >= 0
  BY <1>1, <1>2, OneOff, Signs
<1> QED  BY <1>3, <1>4

\* What a ladder saves is a natural number.
LEMMA LadderIsNat ==
  ASSUME NEW d, IsLadder(d.tiers), NEW price \in Nat
  PROVE  LadderSavings(d, price) \in Nat
<1> DEFINE step(k) == (Max2(0, Min2(price, d.tiers[k].to) - d.tiers[k].from) * d.tiers[k].rate) \div 100
           f == [k \in DOMAIN d.tiers |-> step(k)]
<1>1. IsFiniteSet(DOMAIN d.tiers)
  BY FS_Interval DEF IsLadder
<1>2. ASSUME NEW k \in DOMAIN d.tiers PROVE step(k) \in Nat
  <2>1. d.tiers[k] \in Range(d.tiers)
    BY DEF Range
  <2>2. d.tiers[k].from \in Nat /\ d.tiers[k].to \in Nat /\ d.tiers[k].rate \in Nat
    <3>1. \A t \in Range(d.tiers) : t.from \in Nat /\ t.to \in Nat /\ t.rate \in 0 .. 100
      BY DEF IsLadder
    <3>2. PICK t \in Range(d.tiers) : t = d.tiers[k]
      BY <2>1
    <3> QED  BY <3>1, <3>2
  <2>3. Max2(0, Min2(price, d.tiers[k].to) - d.tiers[k].from) \in Nat
    BY <2>2 DEF Max2, Min2
  <2> QED  BY <2>2, <2>3, Products
<1>3. f \in [DOMAIN d.tiers -> Nat]
  BY <1>2
<1>4. LadderSavings(d, price) = SumFunction(f)
  BY DEF LadderSavings
<1> HIDE DEF f
<1> QED  BY <1>1, <1>3, <1>4, NatSum

\* A deal that applies leaves a price, and never a higher one.
LEMMA DealsLower ==
  ASSUME NEW d, IsDeal(d), NEW price \in Nat, ApplyDeal(price, d) # Nil
  PROVE  ApplyDeal(price, d) \in Nat /\ ApplyDeal(price, d) <= price
<1>1. RawSavings(d, price) \in Nat
  <2>1. d.rval \in Nat /\ d.cval \in Nat
    BY DEF IsDeal
  <2>2. CASE d.reward = "fixed_discount_amount"
    BY <2>1, <2>2 DEF RawSavings
  <2>3. CASE d.reward = "fixed_total_amount"
    <3>1. RawSavings(d, price) = IF d.cond = "voucher" THEN d.cval - d.rval ELSE 0
      BY <2>3 DEF RawSavings
    <3>2. d.cond = "voucher" => d.rval <= d.cval
      BY <2>3 DEF IsDeal
    <3> QED  BY <2>1, <3>1, <3>2
  <2>4. CASE d.reward = "percentage_off"
    <3>1. CASE d.tiers # <<>>
      <4>1. IsLadder(d.tiers)
        BY <2>4 DEF IsDeal
      <4>2. RawSavings(d, price) = LadderSavings(d, price)
        BY <2>4, <3>1 DEF RawSavings
      <4> QED  BY <4>1, <4>2, LadderIsNat
    <3>2. CASE d.tiers = <<>>
      <4>1. (IF d.cond = "voucher" THEN d.cval ELSE price) \in Nat
        BY <2>1
      <4>2. RawSavings(d, price) = ((IF d.cond = "voucher" THEN d.cval ELSE price) * d.rval) \div 100
        BY <2>4, <3>2 DEF RawSavings
      <4> QED  BY <2>1, <4>1, <4>2, Products
    <3> QED  BY <3>1, <3>2
  <2>5. CASE d.reward \notin {"fixed_discount_amount", "fixed_total_amount", "percentage_off"}
    BY <2>5 DEF RawSavings
  <2> QED  BY <2>2, <2>3, <2>4, <2>5
<1> DEFINE capped == IF d.ceiling = Nil THEN RawSavings(d, price) ELSE Min2(RawSavings(d, price), d.ceiling)
<1>2. capped \in Nat
  BY <1>1 DEF IsDeal, Min2
<1>3. ApplyDeal(price, d) = Max2(0, price - Min2(capped, price))
  BY DEF ApplyDeal
<1> HIDE DEF capped
<1> QED  BY <1>2, <1>3 DEF Max2, Min2

\* The first n of a set by their cost: no two the same, none dearer than the next or
\* than one that is left, and fewer than n only when none is left.
RankedIn(s, S, cost, n) ==
  /\ s \in Seq(S) /\ Len(s) <= n
  /\ \A i, j \in 1 .. Len(s) : i < j => s[i] # s[j] /\ cost[s[i]] <= cost[s[j]]
  /\ \A i \in 1 .. Len(s) : \A x \in S \ Range(s) : cost[s[i]] <= cost[x]
  /\ IsFiniteSet(Range(s)) /\ Cardinality(Range(s)) = Len(s)
  /\ Len(s) = n \/ Range(s) = S

\* The first none of a set.
LEMMA NothingRanked ==
  ASSUME NEW S, NEW cost
  PROVE  RankedIn(<<>>, S, cost, 0)
<1>1. <<>> \in Seq(S)
  OBVIOUS
<1>2. Len(<<>>) = 0
  OBVIOUS
<1>3. DOMAIN <<>> = {}
  OBVIOUS
<1>4. Range(<<>>) = {}
  BY <1>3, Zenon DEF Range
<1>5. IsFiniteSet({}) /\ Cardinality({}) = 0
  BY FS_EmptySet
<1>6. PICK s : s = <<>>
  OBVIOUS
<1>7. s \in Seq(S) /\ Len(s) = 0 /\ IsFiniteSet(Range(s)) /\ Cardinality(Range(s)) = 0
  BY <1>1, <1>2, <1>4, <1>5, <1>6, Zenon
<1>8. RankedIn(s, S, cost, 0)
  BY <1>7 DEF RankedIn
<1> QED  BY <1>6, <1>8, Zenon

\* One cheapest element more.
LEMMA CheapestAdded ==
  ASSUME NEW S, NEW cost, \A T \in SUBSET S : T # {} => \E x \in T : \A y \in T : cost[x] <= cost[y],
         NEW n \in Nat \ {0}, NEW s, RankedIn(s, S, cost, n - 1)
  PROVE  RankedIn(AddCheapest(s, S, cost), S, cost, n)
<1> DEFINE rest == S \ Range(s)
           x == CHOOSE x \in rest : \A y \in rest : cost[x] <= cost[y]
           t == AddCheapest(s, S, cost)
<1>0. s \in Seq(S) /\ Len(s) \in Nat /\ Len(s) <= n - 1 /\ Range(s) = {s[i] : i \in 1 .. Len(s)}
  BY DEF RankedIn, Range
<1>1. CASE rest = {}
  <2>1. t = s /\ Range(s) = S
    BY <1>0, <1>1 DEF AddCheapest
  <2>2. Len(s) <= n
    BY <1>0
  <2>3. RankedIn(s, S, cost, n)
    BY <2>1, <2>2 DEF RankedIn
  <2> QED  BY <2>1, <2>3
<1>2. CASE rest # {}
  <2>1. t = Append(s, x)
    BY <1>2 DEF AddCheapest
  <2>2. x \in rest /\ \A y \in rest : cost[x] <= cost[y]
    <3>1. rest \in SUBSET S
      OBVIOUS
    <3> HIDE DEF rest
    <3> QED  BY <1>2, <3>1
  <2> HIDE DEF x, t
  <2>3. x \in S /\ x \notin Range(s)
    BY <2>2
  <2>4. /\ t \in Seq(S) /\ Len(t) = Len(s) + 1
        /\ \A i \in 1 .. Len(s) : t[i] = s[i]
        /\ t[Len(s) + 1] = x
    BY <1>0, <2>1, <2>3
  <2>5. \A i \in 1 .. Len(t) : i \in 1 .. Len(s) \/ i = Len(s) + 1
    BY <1>0, <2>4
  <2>6. Range(t) = Range(s) \cup {x}
    <3>1. Range(t) = {t[i] : i \in 1 .. Len(t)}
      BY <2>4 DEF Range
    <3>2. \A i \in 1 .. Len(t) : t[i] \in Range(s) \cup {x}
      BY <1>0, <2>4, <2>5
    <3>3. \A i \in 1 .. Len(s) : i \in 1 .. Len(t) /\ s[i] = t[i]
      BY <1>0, <2>4
    <3>4. Len(s) + 1 \in 1 .. Len(t)
      BY <1>0, <2>4
    <3>5. x \in Range(t)
      BY <2>4, <3>1, <3>4
    <3>6. Range(s) \subseteq Range(t)
      BY <1>0, <3>1, <3>3
    <3>7. Range(t) \subseteq Range(s) \cup {x}
      BY <3>1, <3>2
    <3> QED  BY <3>5, <3>6, <3>7
  <2>7. \A i \in 1 .. Len(s) : cost[s[i]] <= cost[x]
    BY <2>2 DEF RankedIn
  <2>8. ASSUME NEW i \in 1 .. Len(t), NEW j \in 1 .. Len(t), i < j
        PROVE  t[i] # t[j] /\ cost[t[i]] <= cost[t[j]]
    <3>1. i \in 1 .. Len(s) /\ t[i] = s[i] /\ s[i] \in Range(s)
      BY <1>0, <2>4, <2>5, <2>8
    <3>2. CASE j \in 1 .. Len(s)
      <4>1. t[j] = s[j]
        BY <2>4, <3>2
      <4> QED  BY <2>8, <3>1, <3>2, <4>1 DEF RankedIn
    <3>3. CASE j = Len(s) + 1
      <4>1. t[j] = x
        BY <2>4, <3>3
      <4> QED  BY <2>3, <2>7, <3>1, <4>1
    <3> QED  BY <2>5, <3>2, <3>3
  <2>9. ASSUME NEW i \in 1 .. Len(t), NEW y \in S \ Range(t) PROVE cost[t[i]] <= cost[y]
    <3>1. y \in rest
      BY <2>6
    <3>2. CASE i \in 1 .. Len(s)
      <4>1. t[i] = s[i]
        BY <2>4, <3>2
      <4> QED  BY <3>1, <3>2, <4>1 DEF RankedIn
    <3>3. CASE i = Len(s) + 1
      <4>1. t[i] = x
        BY <2>4, <3>3
      <4> QED  BY <2>2, <3>1, <4>1
    <3> QED  BY <2>5, <3>2, <3>3
  <2>10. IsFiniteSet(Range(t)) /\ Cardinality(Range(t)) = Len(t)
    <3>1. IsFiniteSet(Range(s)) /\ Cardinality(Range(s)) = Len(s)
      BY DEF RankedIn
    <3>2. /\ IsFiniteSet(Range(s) \cup {x})
          /\ Cardinality(Range(s) \cup {x}) = Cardinality(Range(s)) + 1
      BY <2>3, <3>1, FS_AddElement
    <3> QED  BY <2>4, <2>6, <3>1, <3>2
  <2>11. Len(s) = n - 1
    BY <1>2 DEF RankedIn
  <2>12. Len(t) <= n /\ Len(t) = n
    BY <2>4, <2>11
  <2>13. RankedIn(t, S, cost, n)
    BY <2>4, <2>8, <2>9, <2>10, <2>12 DEF RankedIn
  <2> QED  BY <2>13 DEF t
<1> QED  BY <1>1, <1>2

\* The first k of a set are so ranked.
LEMMA FirstAreRanked ==
  ASSUME NEW S, NEW cost, \A T \in SUBSET S : T # {} => \E x \in T : \A y \in T : cost[x] <= cost[y],
         NEW k \in Nat
  PROVE  RankedIn(FirstBy(S, k, cost), S, cost, k)
<1> DEFINE Follows(g) == g = [n \in 0 .. k |-> IF n = 0 THEN <<>> ELSE AddCheapest(g[n - 1], S, cost)]
           take == CHOOSE g : Follows(g)
           V == [n \in 0 .. k |-> {s \in Seq(S) : RankedIn(s, S, cost, n)}]
           next == [n \in 1 .. k |-> [s \in Seq(S) |-> AddCheapest(s, S, cost)]]
<1>1. \A s \in Seq(S) : AddCheapest(s, S, cost) \in Seq(S)
  <2> SUFFICES ASSUME NEW s \in Seq(S) PROVE AddCheapest(s, S, cost) \in Seq(S)
    OBVIOUS
  <2> DEFINE rest == S \ Range(s)
             x == CHOOSE x \in rest : \A y \in rest : cost[x] <= cost[y]
  <2>1. AddCheapest(s, S, cost) = IF rest = {} THEN s ELSE Append(s, x)
    BY DEF AddCheapest
  <2>2. CASE rest # {}
    <3>1. rest \in SUBSET S
      OBVIOUS
    <3> HIDE DEF rest
    <3>2. x \in rest
      BY <2>2, <3>1
    <3> HIDE DEF x
    <3>3. x \in S
      BY <3>1, <3>2
    <3> QED  BY <2>1, <2>2, <3>3
  <2> HIDE DEF x
  <2> QED  BY <2>1, <2>2
<1>2. PICK f : Follows(f)
  <2>1. \A n \in 1 .. k : next[n] \in [Seq(S) -> Seq(S)]
    BY <1>1
  <2>6. <<>> \in Seq(S)
    OBVIOUS
  <2>7. \A n \in 1 .. k : \A s \in Seq(S) : next[n][s] = AddCheapest(s, S, cost)
    OBVIOUS
  <2> HIDE DEF next
  <2>9. PICK f : Recurs(f, k, <<>>, next)
    BY <2>1, <2>6, Recursion
  <2>2. f = [n \in 0 .. k |-> IF n = 0 THEN <<>> ELSE next[n][f[n - 1]]]
    BY <2>9 DEF Recurs
  <2>3. \A n \in 1 .. k : n - 1 \in 0 .. k /\ n \in 0 .. k
    OBVIOUS
  <2> DEFINE W == [n \in 0 .. k |-> Seq(S)]
  <2>4. \A n \in 0 .. k : f[n] \in W[n]
    <3>1. f[0] \in W[0]
      BY <2>2
    <3>2. \A n \in 1 .. k : f[n - 1] \in W[n - 1] => f[n] \in W[n]
      BY <2>1, <2>2, <2>3
    <3> HIDE DEF W
    <3> QED  BY <3>1, <3>2, Following
  <2>5. \A n \in 1 .. k : next[n][f[n - 1]] = AddCheapest(f[n - 1], S, cost)
    BY <2>3, <2>4, <2>7
  <2>8. f = [n \in 0 .. k |-> IF n = 0 THEN <<>> ELSE AddCheapest(f[n - 1], S, cost)]
    BY <2>2, <2>5
  <2> QED  BY <2>8
<1>3. Follows(take)
  BY <1>2
<1>4. FirstBy(S, k, cost) = take[k]
  BY DEF FirstBy
<1> HIDE DEF take
<1>5. take[0] \in V[0]
  <2>1. take[0] = <<>>
    BY <1>3
  <2>2. <<>> \in Seq(S)
    OBVIOUS
  <2> QED  BY <2>1, <2>2, NothingRanked
<1>6. ASSUME NEW n \in 1 .. k, take[n - 1] \in V[n - 1] PROVE take[n] \in V[n]
  <2>1. n - 1 \in 0 .. k /\ n \in 0 .. k /\ n \in Nat \ {0}
    OBVIOUS
  <2>2. take[n] = AddCheapest(take[n - 1], S, cost)
    BY <1>3, <2>1
  <2>3. RankedIn(take[n - 1], S, cost, n - 1) /\ take[n - 1] \in Seq(S)
    BY <1>6, <2>1
  <2>4. RankedIn(take[n], S, cost, n)
    BY <2>1, <2>2, <2>3, CheapestAdded
  <2> QED  BY <1>1, <2>1, <2>2, <2>3, <2>4
<1> HIDE DEF V
<1>7. \A n \in 0 .. k : take[n] \in V[n]
  BY <1>5, <1>6, Following
<1>8. k \in 0 .. k
  OBVIOUS
<1>9. take[k] \in V[k]
  BY <1>7, <1>8
<1> QED  BY <1>4, <1>8, <1>9 DEF V

\* What has a bound has a least, wherever one looks.
LEMMA Bounded ==
  ASSUME NEW S, NEW cost, NEW b \in Int, \A x \in S : cost[x] \in Int /\ b <= cost[x]
  PROVE  \A T \in SUBSET S : T # {} => \E x \in T : \A y \in T : cost[x] <= cost[y]
<1> SUFFICES ASSUME NEW T \in SUBSET S, T # {} PROVE \E x \in T : \A y \in T : cost[x] <= cost[y]
  OBVIOUS
<1> DEFINE N == {cost[x] - b : x \in T}
<1>1. N \in SUBSET Nat /\ N # {}
  OBVIOUS
<1>2. PICK m \in N : \A n \in N : m <= n
  BY <1>1, LeastMember
<1>3. PICK x \in T : m = cost[x] - b
  BY <1>2
<1>4. ASSUME NEW y \in T PROVE cost[x] <= cost[y]
  <2>1. cost[y] - b \in N
    OBVIOUS
  <2>2. cost[x] - b <= cost[y] - b /\ cost[x] \in Int /\ cost[y] \in Int
    BY <1>2, <1>3, <2>1
  <2> QED  BY <2>2
<1> QED  BY <1>4

\* One figure raised raises the sum by as much.
LEMMA OneRaised ==
  ASSUME NEW S, IsFiniteSet(S), NEW f \in [S -> Nat], NEW x \in S, NEW a \in Nat
  PROVE  /\ [f EXCEPT ![x] = @ + a] \in [S -> Nat]
         /\ Over([f EXCEPT ![x] = @ + a], S) = Over(f, S) + a
<1> DEFINE g == [f EXCEPT ![x] = @ + a]
<1>1. g \in [S -> Nat] /\ g[x] = f[x] + a /\ \A y \in S \ {x} : g[y] = f[y]
  OBVIOUS
<1> HIDE DEF g
<1>2. f \in [S -> Int] /\ g \in [S -> Int] /\ S \in SUBSET S
  BY <1>1
<1>3. Over(f, S) = f[x] + Over(f, S \ {x}) /\ Over(f, S \ {x}) \in Int
  BY <1>2, TakeOne
<1>4. Over(g, S) = g[x] + Over(g, S \ {x})
  BY <1>2, TakeOne
<1>5. Over(g, S \ {x}) = Over(f, S \ {x})
  BY <1>1, Alike
<1>6. f[x] \in Int
  OBVIOUS
<1>7. Over(g, S) = Over(f, S) + a
  BY <1>1, <1>3, <1>4, <1>5, <1>6
<1> QED  BY <1>1, <1>7 DEF g

-----------------------------------------------------------------------------
(* The fill.                                                               *)

\* The deals a fill may use.
RateDeals(options) == \A i \in options : i \in Nat /\ IsDeal(Catalog[i]) /\ IsRate(Catalog[i])

\* A deal may be used some natural number of times.
LEMMA UnitsAreNat ==
  ASSUME NEW d, IsDeal(d)
  PROVE  MaxUnits(d) \in Nat
BY DEF MaxUnits, IsDeal

\* The rungs of a rate deal: a rate of no more than all, and an amount, or no bound.
LEMMA RungFacts ==
  ASSUME NEW d, IsDeal(d), IsRate(d)
  PROVE  /\ Len(Segments(d)) \in Nat
         /\ \A k \in 1 .. Len(Segments(d)) : /\ Segments(d)[k].rate \in 0 .. 100
                                             /\ Segments(d)[k].cap \in Nat \cup {Nil}
<1>1. d.rval \in 0 .. 100 /\ IsLadder(d.tiers) /\ d.ceiling \in Nat \cup {Nil}
  BY DEF IsDeal, IsRate
<1>2. MaxUnits(d) \in Nat
  BY UnitsAreNat
<1>3. CASE d.tiers # <<>>
  <2> DEFINE g == [k \in 1 .. Len(d.tiers) |->
                    [rate |-> d.tiers[k].rate, cap |-> (d.tiers[k].to - d.tiers[k].from) * MaxUnits(d)]]
  <2>1. Segments(d) = g
    BY <1>3 DEF Segments
  <2>2. Len(d.tiers) \in Nat
    BY <1>1 DEF IsLadder
  <2>3. Len(g) = Len(d.tiers)
    BY <2>2
  <2>4. ASSUME NEW k \in 1 .. Len(d.tiers) PROVE g[k].rate \in 0 .. 100 /\ g[k].cap \in Nat
    <3>1. \A t \in Range(d.tiers) : t.from \in Nat /\ t.to \in Nat /\ t.from < t.to /\ t.rate \in 0 .. 100
      BY <1>1 DEF IsLadder
    <3>2. d.tiers[k] \in Range(d.tiers)
      BY <1>1 DEF IsLadder, Range
    <3>3. PICK t \in Range(d.tiers) : t = d.tiers[k]
      BY <3>2
    <3>4. g[k].rate = t.rate /\ g[k].cap = (t.to - t.from) * MaxUnits(d)
      BY <3>3
    <3>5. t.to - t.from \in Nat
      BY <3>1
    <3>6. (t.to - t.from) * MaxUnits(d) \in Nat
      BY <1>2, <3>5, Products
    <3> QED  BY <3>1, <3>4, <3>6
  <2> HIDE DEF g
  <2> QED  BY <2>1, <2>2, <2>3, <2>4
<1>4. CASE d.tiers = <<>>
  <2> DEFINE cap == IF d.ceiling = Nil \/ d.rval = 0 THEN Nil
                    ELSE ((d.ceiling * 100) \div d.rval) * MaxUnits(d)
             r == [rate |-> d.rval, cap |-> cap]
  <2>1. Segments(d) = <<r>>
    BY <1>4 DEF Segments
  <2>2. cap \in Nat \cup {Nil}
    <3>1. CASE d.ceiling = Nil \/ d.rval = 0
      BY <3>1
    <3>2. CASE ~ (d.ceiling = Nil \/ d.rval = 0)
      <4>1. d.ceiling \in Nat /\ d.rval \in Nat \ {0}
        BY <1>1, <3>2
      <4>2. d.ceiling * 100 \in Nat
        BY <4>1
      <4>3. (d.ceiling * 100) \div d.rval \in Nat
        BY <4>1, <4>2, Quotients
      <4>4. ((d.ceiling * 100) \div d.rval) * MaxUnits(d) \in Nat
        BY <1>2, <4>3, Products
      <4> QED  BY <3>2, <4>4
    <3> QED  BY <3>1, <3>2
  <2>3. r.rate = d.rval /\ r.cap = cap
    OBVIOUS
  <2> HIDE DEF r, cap
  <2>4. Len(<<r>>) = 1 /\ <<r>>[1] = r
    OBVIOUS
  <2> QED  BY <1>1, <2>1, <2>2, <2>3, <2>4
<1> QED  BY <1>3, <1>4

\* Where a fill stands: what is left and what is covered make the bill, and nothing
\* saves more than it covers.
FillStates(options) ==
  [remaining : Nat, cursor : [options -> Nat \ {0}], covered : [options -> Nat], saved : [options -> Nat]]

Filled(st, bill, options) ==
  /\ st \in FillStates(options)
  /\ st.remaining \in Nat
  /\ st.cursor \in [options -> Nat \ {0}]
  /\ st.covered \in [options -> Nat] /\ st.saved \in [options -> Nat]
  /\ \A i \in options : st.saved[i] <= st.covered[i]
  /\ st.remaining + Over(st.covered, options) = bill

\* Of the best rates, one has the least number.
LEMMA BestOf ==
  ASSUME NEW S \in SUBSET Nat, S # {}, NEW rate, \A i \in S : rate[i] \in 0 .. 100
  PROVE  \E k \in S : \A j \in S : rate[k] > rate[j] \/ (rate[k] = rate[j] /\ k <= j)
<1> DEFINE N == {100 - rate[i] : i \in S}
<1>0. \A i \in S : rate[i] \in Int /\ 100 - rate[i] \in Nat
  OBVIOUS
<1>1. N \in SUBSET Nat /\ N # {}
  BY <1>0
<1>2. PICK m \in N : \A n \in N : m <= n
  BY <1>1, LeastMember
<1>3. PICK i \in S : m = 100 - rate[i]
  BY <1>2
<1>4. ASSUME NEW j \in S PROVE rate[j] <= rate[i]
  <2>1. 100 - rate[j] \in N
    OBVIOUS
  <2>2. 100 - rate[i] <= 100 - rate[j] /\ rate[i] \in Int /\ rate[j] \in Int
    BY <1>2, <1>3, <2>1
  <2> QED  BY <2>2
<1> DEFINE T == {j \in S : rate[j] = rate[i]}
<1>5. T \in SUBSET Nat /\ T # {}
  OBVIOUS
<1>6. PICK k \in T : \A j \in T : k <= j
  BY <1>5, LeastMember
<1>7. ASSUME NEW j \in S PROVE rate[k] > rate[j] \/ (rate[k] = rate[j] /\ k <= j)
  <2>1. rate[j] <= rate[k] /\ rate[j] \in Int /\ rate[k] \in Int
    <3>1. k \in S /\ rate[k] = rate[i]
      BY <1>6
    <3> QED  BY <1>0, <1>4, <3>1
  <2>2. CASE rate[j] = rate[k]
    <3>1. j \in T
      BY <1>6, <2>2
    <3> QED  BY <1>6, <2>2, <3>1
  <2>3. CASE rate[j] # rate[k]
    BY <2>1, <2>3
  <2> QED  BY <2>2, <2>3
<1> QED  BY <1>6, <1>7

\* One pass of the fill moves what the best rung takes from what is left to what is covered.
LEMMA PassKeepsTheBill ==
  ASSUME NEW options, IsFiniteSet(options), RateDeals(options), NEW bill \in Nat, NEW st, Filled(st, bill, options)
  PROVE  Filled(FillOnce(st, options), bill, options)
<1> DEFINE open == {i \in options : /\ st.cursor[i] <= Len(Segments(Catalog[i]))
                                    /\ Segments(Catalog[i])[st.cursor[i]].rate > 0}
           rung(i) == Segments(Catalog[i])[st.cursor[i]]
           best == CHOOSE i \in open : \A j \in open :
                     rung(i).rate > rung(j).rate \/ (rung(i).rate = rung(j).rate /\ i <= j)
           amount == IF rung(best).cap = Nil THEN st.remaining ELSE Min2(st.remaining, rung(best).cap)
           saves == (amount * rung(best).rate) \div 100
<1>1. CASE st.remaining = 0 \/ open = {}
  <2>1. FillOnce(st, options) = st
    BY <1>1 DEF FillOnce
  <2> QED  BY <2>1
<1>2. CASE ~ (st.remaining = 0 \/ open = {})
  <2>1. \A i \in open : i \in options /\ i \in Nat /\ rung(i).rate \in 0 .. 100 /\ rung(i).cap \in Nat \cup {Nil}
    <3> SUFFICES ASSUME NEW i \in open
                 PROVE  i \in options /\ i \in Nat /\ rung(i).rate \in 0 .. 100 /\ rung(i).cap \in Nat \cup {Nil}
      OBVIOUS
    <3>1. i \in options /\ i \in Nat /\ IsDeal(Catalog[i]) /\ IsRate(Catalog[i])
      BY DEF RateDeals
    <3>2. st.cursor[i] \in Nat \ {0} /\ st.cursor[i] <= Len(Segments(Catalog[i]))
      BY <3>1 DEF Filled
    <3>3. st.cursor[i] \in 1 .. Len(Segments(Catalog[i]))
      BY <3>1, <3>2, RungFacts
    <3> QED  BY <3>1, <3>3, RungFacts
  <2>2. best \in open
    <3> DEFINE rates == [i \in open |-> rung(i).rate]
    <3>1. open \in SUBSET Nat /\ open # {} /\ \A i \in open : rates[i] \in 0 .. 100 /\ rates[i] = rung(i).rate
      BY <1>2, <2>1
    <3> HIDE DEF rates, open, rung
    <3>2. \E k \in open : \A j \in open : rates[k] > rates[j] \/ (rates[k] = rates[j] /\ k <= j)
      BY <3>1, BestOf
    <3>3. \E k \in open : \A j \in open :
            rung(k).rate > rung(j).rate \/ (rung(k).rate = rung(j).rate /\ k <= j)
      BY <3>1, <3>2
    <3> QED  BY <3>3
  <2>3. FillOnce(st, options) =
          [remaining |-> st.remaining - amount,
           cursor |-> [st.cursor EXCEPT ![best] = @ + 1],
           covered |-> [st.covered EXCEPT ![best] = @ + amount],
           saved |-> [st.saved EXCEPT ![best] = @ + saves]]
    BY <1>2 DEF FillOnce
  <2>4. best \in options /\ rung(best).rate \in 0 .. 100 /\ rung(best).cap \in Nat \cup {Nil}
    BY <2>1, <2>2
  <2> HIDE DEF best, open
  <2>5. amount \in Nat /\ amount <= st.remaining /\ st.remaining \in Nat
    BY <2>4 DEF Min2, Filled
  <2> HIDE DEF amount, rung
  <2>6. saves \in Nat /\ saves <= amount
    BY <2>4, <2>5, Shares
  <2> HIDE DEF saves
  <2> DEFINE n == FillOnce(st, options)
  <2>7. /\ n.remaining = st.remaining - amount /\ n.cursor = [st.cursor EXCEPT ![best] = @ + 1]
        /\ n.covered = [st.covered EXCEPT ![best] = @ + amount]
        /\ n.saved = [st.saved EXCEPT ![best] = @ + saves]
    BY <2>3
  <2> HIDE DEF n
  <2>8. st.covered \in [options -> Nat] /\ st.saved \in [options -> Nat] /\ st.cursor \in [options -> Nat \ {0}]
    BY DEF Filled
  <2>9. n.covered \in [options -> Nat] /\ Over(n.covered, options) = Over(st.covered, options) + amount
    BY <2>4, <2>5, <2>7, <2>8, OneRaised
  <2>10. n.saved \in [options -> Nat] /\ n.cursor \in [options -> Nat \ {0}]
    BY <2>4, <2>6, <2>7, <2>8
  <2>11. ASSUME NEW i \in options PROVE n.saved[i] <= n.covered[i]
    <3>1. st.saved[i] <= st.covered[i] /\ st.saved[i] \in Nat /\ st.covered[i] \in Nat
      BY <2>8 DEF Filled
    <3>2. CASE i = best
      <4>1. n.saved[i] = st.saved[i] + saves /\ n.covered[i] = st.covered[i] + amount
        BY <2>7, <2>8, <3>2
      <4> QED  BY <2>5, <2>6, <3>1, <4>1
    <3>3. CASE i # best
      <4>1. n.saved[i] = st.saved[i] /\ n.covered[i] = st.covered[i]
        BY <2>7, <2>8, <3>3
      <4> QED  BY <3>1, <4>1
    <3> QED  BY <3>2, <3>3
  <2>12. n.remaining \in Nat /\ n.remaining + Over(n.covered, options) = bill
    <3>1. st.remaining + Over(st.covered, options) = bill
      BY DEF Filled
    <3>2. Over(st.covered, options) \in Int
      <4>1. st.covered \in [options -> Int] /\ options \in SUBSET options
        BY <2>8
      <4> QED  BY <4>1, OneOff
    <3> QED  BY <2>5, <2>7, <2>9, <3>1, <3>2
  <2>14. n \in FillStates(options)
    <3> DEFINE r == n.remaining
               c == n.cursor
               p == n.covered
               q == n.saved
    <3>1. n = [remaining |-> r, cursor |-> c, covered |-> p, saved |-> q]
      BY <2>3, <2>7 DEF n
    <3>2. r \in Nat /\ c \in [options -> Nat \ {0}] /\ p \in [options -> Nat] /\ q \in [options -> Nat]
      BY <2>9, <2>10, <2>12
    <3> HIDE DEF r, c, p, q
    <3> QED  BY <3>1, <3>2 DEF FillStates
  <2>13. Filled(n, bill, options)
    BY <2>9, <2>10, <2>11, <2>12, <2>14 DEF Filled
  <2> QED  BY <2>13 DEF n
<1> QED  BY <1>1, <1>2

\* However many passes, the fill keeps the bill.
LEMMA FillKeepsTheBill ==
  ASSUME NEW options, IsFiniteSet(options), RateDeals(options), NEW bill \in Nat
  PROVE  Filled(GreedyFill(bill, options), bill, options)
<1> DEFINE zero == [i \in options |-> 0]
           ones == [i \in options |-> 1]
           untouched == [remaining |-> bill, cursor |-> ones, covered |-> zero, saved |-> zero]
           lens == [i \in options |-> Len(Segments(Catalog[i]))]
           passes == SumFunction(lens)
           Follows(g) == g = [n \in 0 .. passes |-> IF n = 0 THEN untouched ELSE FillOnce(g[n - 1], options)]
           run == CHOOSE g : Follows(g)
           V == {st \in FillStates(options) : Filled(st, bill, options)}
           next == [n \in 1 .. passes |-> [st \in V |-> FillOnce(st, options)]]
<1>1. GreedyFill(bill, options) = run[passes]
  BY DEF GreedyFill
<1>2. passes \in Nat
  <2>1. lens \in [options -> Nat]
    BY RungFacts DEF RateDeals
  <2> HIDE DEF lens
  <2> QED  BY <2>1, NatSum
<1>3. untouched \in V
  <2>1. zero \in [options -> Nat] /\ ones \in [options -> Nat \ {0}] /\ \A i \in options : zero[i] = 0
    OBVIOUS
  <2> HIDE DEF zero, ones
  <2>2. untouched \in FillStates(options)
    BY <2>1 DEF FillStates
  <2>3. /\ untouched.remaining = bill /\ untouched.cursor = ones
        /\ untouched.covered = zero /\ untouched.saved = zero
    OBVIOUS
  <2> HIDE DEF untouched
  <2>4. zero \in [options -> Int] /\ options \in SUBSET options
    BY <2>1
  <2>5. Over(zero, options) = 0
    BY <2>1, <2>4, Signs
  <2>6. \A i \in options : untouched.saved[i] <= untouched.covered[i]
    BY <2>1, <2>3
  <2>7. Filled(untouched, bill, options)
    BY <2>1, <2>2, <2>3, <2>5, <2>6 DEF Filled
  <2> QED  BY <2>2, <2>7
<1>4. \A st \in V : FillOnce(st, options) \in V
  <2> SUFFICES ASSUME NEW st \in V PROVE FillOnce(st, options) \in V
    OBVIOUS
  <2>1. Filled(FillOnce(st, options), bill, options)
    BY PassKeepsTheBill
  <2> QED  BY <2>1 DEF Filled
<1> HIDE DEF untouched, passes, V
<1>5. PICK g : Follows(g)
  <2>1. \A n \in 1 .. passes : next[n] \in [V -> V]
    BY <1>4
  <2>2. \A n \in 1 .. passes : \A st \in V : next[n][st] = FillOnce(st, options)
    OBVIOUS
  <2> HIDE DEF next
  <2>3. PICK f : Recurs(f, passes, untouched, next)
    BY <1>2, <1>3, <2>1, Recursion
  <2>4. f = [n \in 0 .. passes |-> IF n = 0 THEN untouched ELSE next[n][f[n - 1]]]
    BY <2>3 DEF Recurs
  <2>5. \A n \in 1 .. passes : n - 1 \in 0 .. passes /\ n \in 0 .. passes
    BY <1>2
  <2> DEFINE W == [n \in 0 .. passes |-> V]
  <2>6. \A n \in 0 .. passes : f[n] \in W[n]
    <3>1. f[0] \in W[0]
      BY <1>2, <1>3, <2>4
    <3>2. \A n \in 1 .. passes : f[n - 1] \in W[n - 1] => f[n] \in W[n]
      BY <2>1, <2>4, <2>5
    <3> HIDE DEF W
    <3> QED  BY <1>2, <3>1, <3>2, Following
  <2>7. \A n \in 1 .. passes : next[n][f[n - 1]] = FillOnce(f[n - 1], options)
    BY <2>2, <2>5, <2>6
  <2> HIDE DEF W
  <2>9. f[0] = untouched /\ \A n \in 1 .. passes : f[n] = FillOnce(f[n - 1], options)
    BY <1>2, <2>4, <2>5, <2>7
  <2>10. \A n \in 0 .. passes : n = 0 \/ n \in 1 .. passes
    BY <1>2
  <2>11. \A n \in 0 .. passes : f[n] = IF n = 0 THEN untouched ELSE FillOnce(f[n - 1], options)
    BY <2>9, <2>10
  <2>12. f = [n \in 0 .. passes |-> f[n]]
    BY <2>4
  <2>8. f = [n \in 0 .. passes |-> IF n = 0 THEN untouched ELSE FillOnce(f[n - 1], options)]
    BY <2>11, <2>12
  <2> QED  BY <2>8
<1>6. Follows(run)
  BY <1>5
<1> HIDE DEF run
<1> DEFINE W == [n \in 0 .. passes |-> V]
<1>7. \A n \in 1 .. passes : n - 1 \in 0 .. passes /\ n \in 0 .. passes
  BY <1>2
<1>8. run[0] \in W[0]
  BY <1>2, <1>3, <1>6
<1>9. \A n \in 1 .. passes : run[n - 1] \in W[n - 1] => run[n] \in W[n]
  BY <1>4, <1>6, <1>7
<1>10. \A n \in 0 .. passes : W[n] = V
  OBVIOUS
<1> HIDE DEF W
<1>11. \A n \in 0 .. passes : run[n] \in W[n]
  BY <1>2, <1>8, <1>9, Following
<1>12. run[passes] \in V
  BY <1>2, <1>10, <1>11
<1> QED  BY <1>1, <1>12 DEF V

-----------------------------------------------------------------------------
(* The splits of a bill.                                                   *)

\* Being compatible is mutual.
LEMMA Mutual ==
  ASSUME NEW i, NEW j, MutuallyCompatible(i, j)
  PROVE  MutuallyCompatible(j, i)
BY DEF MutuallyCompatible

\* What is smaller everywhere adds up to less.
LEMMA Smaller ==
  ASSUME NEW S, IsFiniteSet(S), NEW f \in [S -> Nat], NEW g \in [S -> Nat], \A x \in S : f[x] <= g[x]
  PROVE  Over(f, S) \in Nat /\ Over(g, S) \in Nat /\ Over(f, S) <= Over(g, S)
<1> DEFINE h == [x \in S |-> g[x] - f[x]]
<1>1. f \in [S -> Int] /\ g \in [S -> Int] /\ S \in SUBSET S
  OBVIOUS
<1>2. h \in [S -> Int] /\ \A x \in S : h[x] >= 0 /\ g[x] = f[x] + h[x]
  OBVIOUS
<1> HIDE DEF h
<1>3. Over(g, S) = Over(f, S) + Over(h, S)
  BY <1>1, <1>2, SumOfColumns
<1>4. Over(h, S) >= 0 /\ Over(h, S) \in Int
  BY <1>1, <1>2, Signs, OneOff
<1>5. Over(f, S) \in Nat
  <2>1. \A x \in S : f[x] >= 0
    OBVIOUS
  <2>2. Over(f, S) >= 0
    BY <1>1, <2>1, Signs
  <2>3. Over(f, S) \in Int
    BY <1>1, OneOff
  <2> QED  BY <2>2, <2>3
<1> QED  BY <1>3, <1>4, <1>5

\* A part adds up to no more than the whole.
LEMMA PartOf ==
  ASSUME NEW S, IsFiniteSet(S), NEW f \in [S -> Nat], NEW T \in SUBSET S
  PROVE  Over(f, T) \in Nat /\ Over(f, S) \in Nat /\ Over(f, T) <= Over(f, S)
<1>1. f \in [S -> Int] /\ S \in SUBSET S /\ S \ T \in SUBSET S /\ T \cup (S \ T) = S /\ T \cap (S \ T) = {}
  OBVIOUS
<1>2. Over(f, T \cup (S \ T)) = Over(f, T) + Over(f, S \ T)
  BY <1>1, TwoParts
<1>3. \A x \in S : f[x] >= 0
  OBVIOUS
<1>4. Over(f, T) \in Int /\ Over(f, S \ T) \in Int
  BY <1>1, OneOff
<1>5. Over(f, T) >= 0
  BY <1>1, <1>3, Signs
<1>6. Over(f, S \ T) >= 0
  BY <1>1, <1>3, Signs
<1>7. Over(f, S) = Over(f, T) + Over(f, S \ T)
  BY <1>1, <1>2
<1> QED  BY <1>4, <1>5, <1>6, <1>7

\* A split that can be carried out: every instrument is of those asked about and fits
\* the others, all together cover no more than the bill, and none saves more than it covers.
IsSplit(t, price, ids, budget) ==
  /\ DOMAIN t.covered \subseteq ids /\ IsFiniteSet(DOMAIN t.covered)
  /\ Cardinality(DOMAIN t.covered) <= budget
  /\ t.covered \in [DOMAIN t.covered -> Nat] /\ t.saved \in [DOMAIN t.covered -> Nat]
  /\ \A i \in DOMAIN t.covered : t.saved[i] <= t.covered[i]
  /\ Over(t.covered, DOMAIN t.covered) <= price
  /\ t.total = Over(t.saved, DOMAIN t.covered)
  /\ \A i, j \in DOMAIN t.covered : MutuallyCompatible(i, j)

\* Vouchers redeemed as often as they are counted and the fill of the rest are a split.
LEMMA AllocationIsSplit ==
  ASSUME NEW price \in Nat, NEW ids, ids \subseteq DOMAIN Catalog, IsFiniteSet(ids), NEW budget \in Nat,
         NEW R \in SUBSET ids, \A r \in R : IsRate(Catalog[r]), ~ HasConflict(R),
         NEW VS \in SUBSET ids, \A v \in VS : IsVoucher(Catalog[v]) /\ \A r \in R : MutuallyCompatible(v, r),
         NEW u, DOMAIN u = VS, \A v \in VS : u[v] \in Nat,
         Cardinality(R) + Cardinality({v \in VS : u[v] > 0}) <= budget,
         ~ HasConflict({v \in VS : u[v] > 0}),
         SumFunction([v \in {v \in VS : u[v] > 0} |-> Catalog[v].cval * u[v]]) <= price
  PROVE  IsSplit(Allocation(price, u, R), price, ids, budget)
<1> DEFINE chosen == {v \in VS : u[v] > 0}
           faces == [v \in chosen |-> Catalog[v].cval * u[v]]
           face == SumFunction(faces)
           fill == GreedyFill(price - face, R)
           filled == {r \in R : fill.covered[r] > 0}
           D == chosen \cup filled
           covered == [i \in D |-> IF i \in chosen THEN Catalog[i].cval * u[i] ELSE fill.covered[i]]
           saved == [i \in D |-> IF i \in chosen THEN (Catalog[i].cval - Catalog[i].rval) * u[i] ELSE fill.saved[i]]
           t == Allocation(price, u, R)
<1>1. t.covered = covered /\ t.saved = saved /\ t.total = SumFunction(saved)
  BY DEF Allocation
<1>2. \A i \in ids : i \in Nat /\ IsDeal(Catalog[i])
  BY CatalogAssumption
<1>3. IsFiniteSet(R) /\ IsFiniteSet(VS) /\ IsFiniteSet(chosen)
  BY FS_Subset
<1>4. ASSUME NEW v \in chosen
      PROVE  /\ Catalog[v].cval * u[v] \in Nat /\ (Catalog[v].cval - Catalog[v].rval) * u[v] \in Nat
             /\ (Catalog[v].cval - Catalog[v].rval) * u[v] <= Catalog[v].cval * u[v]
  <2>1. v \in ids /\ v \in VS /\ u[v] \in Nat
    OBVIOUS
  <2>2. IsDeal(Catalog[v]) /\ IsVoucher(Catalog[v])
    BY <1>2, <2>1
  <2>3. PICK c \in Nat, r \in Nat : c = Catalog[v].cval /\ r = Catalog[v].rval /\ r <= c
    BY <2>2 DEF IsDeal, IsVoucher
  <2>4. PICK n \in Nat : n = u[v]
    BY <2>1
  <2>5. c - r \in Nat /\ c - r <= c
    BY <2>3
  <2>6. c * n \in Nat /\ (c - r) * n \in Nat
    BY <2>5, Products
  <2>7. (c - r) * n <= c * n
    BY <2>5
  <2> QED  BY <2>3, <2>4, <2>6, <2>7
<1>5. faces \in [chosen -> Nat]
  BY <1>4
<1>6. face \in Nat /\ face = Over(faces, chosen) /\ face <= price
  <2>1. face <= price
    OBVIOUS
  <2> HIDE DEF faces
  <2> QED  BY <1>3, <1>5, <2>1, NatSum
<1>7. RateDeals(R)
  BY <1>2 DEF RateDeals
<1>8. Filled(fill, price - face, R)
  <2>1. price - face \in Nat
    BY <1>6
  <2> HIDE DEF face
  <2> QED  BY <1>3, <1>7, <2>1, FillKeepsTheBill
<1> HIDE DEF fill
<1>9. /\ fill.covered \in [R -> Nat] /\ fill.saved \in [R -> Nat] /\ fill.remaining \in Nat
      /\ \A r \in R : fill.saved[r] <= fill.covered[r]
      /\ fill.remaining + Over(fill.covered, R) = price - face
  BY <1>8 DEF Filled
<1>10. filled \in SUBSET R /\ chosen \in SUBSET D /\ filled \in SUBSET D /\ D = chosen \cup filled
  OBVIOUS
<1>11. chosen \cap R = {}
  <2>1. \A v \in chosen : IsVoucher(Catalog[v])
    OBVIOUS
  <2>2. \A i : ~ (IsVoucher(Catalog[i]) /\ IsRate(Catalog[i]))
    BY DEF IsVoucher, IsRate
  <2> QED  BY <2>1, <2>2
<1>12. covered \in [D -> Nat] /\ saved \in [D -> Nat] /\ \A i \in D : saved[i] <= covered[i]
  <2>1. ASSUME NEW i \in D PROVE covered[i] \in Nat /\ saved[i] \in Nat /\ saved[i] <= covered[i]
    <3>1. CASE i \in chosen
      <4>1. covered[i] = Catalog[i].cval * u[i] /\ saved[i] = (Catalog[i].cval - Catalog[i].rval) * u[i]
        BY <3>1
      <4> HIDE DEF covered, saved, chosen
      <4> QED  BY <1>4, <3>1, <4>1
    <3>2. CASE i \notin chosen
      <4>1. covered[i] = fill.covered[i] /\ saved[i] = fill.saved[i] /\ i \in R
        BY <3>2
      <4> HIDE DEF covered, saved, chosen
      <4> QED  BY <1>9, <4>1
    <3> QED  BY <3>1, <3>2
  <2>2. covered = [i \in D |-> covered[i]] /\ saved = [i \in D |-> saved[i]]
    OBVIOUS
  <2> HIDE DEF covered, saved, D
  <2> QED  BY <2>1, <2>2
<1>13. IsFiniteSet(D) /\ Cardinality(D) <= budget
  <2>1. /\ IsFiniteSet(R \cup chosen) /\ Cardinality(R \cap chosen) \in Nat
        /\ Cardinality(R \cup chosen) = Cardinality(R) + Cardinality(chosen) - Cardinality(R \cap chosen)
    <3>1. IsFiniteSet(R \cap chosen)
      BY <1>3, FS_Subset
    <3> HIDE DEF chosen
    <3>2. Cardinality(R \cap chosen) \in Nat
      BY <3>1, FS_CardinalityType
    <3> QED  BY <1>3, <3>2, FS_Union
  <2>2. Cardinality(R) \in Nat /\ Cardinality(chosen) \in Nat
    BY <1>3, FS_CardinalityType
  <2>3. D \subseteq R \cup chosen
    BY <1>10
  <2>4. Cardinality(R) + Cardinality(chosen) <= budget
    OBVIOUS
  <2> HIDE DEF D, chosen
  <2>5. IsFiniteSet(D) /\ Cardinality(D) <= Cardinality(R \cup chosen)
    BY <2>1, <2>3, FS_Subset
  <2>6. Cardinality(D) \in Nat
    BY <2>5, FS_CardinalityType
  <2> QED  BY <2>1, <2>2, <2>4, <2>5, <2>6
<1>14. Over(covered, D) <= price
  <2>1. covered \in [D -> Int] /\ chosen \cap filled = {}
    BY <1>10, <1>11, <1>12
  <2>2. \A i \in chosen : covered[i] = faces[i]
    OBVIOUS
  <2>3. \A i \in filled : covered[i] = fill.covered[i]
    BY <1>11
  <2> HIDE DEF covered, D, chosen, filled, faces, face
  <2>4. Over(covered, D) = Over(covered, chosen) + Over(covered, filled)
    BY <1>10, <1>13, <2>1, TwoParts
  <2>5. Over(covered, chosen) = Over(faces, chosen)
    BY <2>2, Alike
  <2>6. Over(covered, filled) = Over(fill.covered, filled)
    BY <2>3, Alike
  <2>7. Over(fill.covered, filled) \in Nat /\ Over(fill.covered, R) \in Nat /\ Over(fill.covered, filled) <= Over(fill.covered, R)
    BY <1>3, <1>9, <1>10, PartOf
  <2> QED  BY <1>6, <1>9, <2>4, <2>5, <2>6, <2>7
<1>15. SumFunction(saved) = Over(saved, D)
  <2> HIDE DEF saved, D
  <2> QED  BY <1>12, <1>13, NatSum
<1>16. \A i, j \in D : MutuallyCompatible(i, j)
  <2>1. \A i, j \in R : MutuallyCompatible(i, j)
    BY DEF HasConflict
  <2>2. \A i, j \in chosen : MutuallyCompatible(i, j)
    BY DEF HasConflict
  <2>3. \A v \in chosen : \A r \in R : MutuallyCompatible(v, r) /\ MutuallyCompatible(r, v)
    BY Mutual
  <2>4. \A i \in D : i \in chosen \/ i \in R
    BY <1>10
  <2> HIDE DEF D, chosen
  <2> QED  BY <2>1, <2>2, <2>3, <2>4
<1>17. D \subseteq ids
  OBVIOUS
<1>18. DOMAIN covered = D
  OBVIOUS
<1> HIDE DEF t, covered, saved, D
<1> QED  BY <1>1, <1>12, <1>13, <1>14, <1>15, <1>16, <1>17, <1>18 DEF IsSplit, t

\* Every split the enumeration comes to can be carried out.
LEMMA EnumeratedAreSplits ==
  ASSUME NEW price \in Nat, NEW ids, ids \subseteq DOMAIN Catalog, IsFiniteSet(ids), NEW budget \in Nat
  PROVE  \A a \in EnumerateAllocations(price, ids, budget) : IsSplit(a, price, ids, budget)
<1> SUFFICES ASSUME NEW a \in EnumerateAllocations(price, ids, budget) PROVE IsSplit(a, price, ids, budget)
  OBVIOUS
<1> DEFINE usable == {i \in ids : ConditionMet(Catalog[i], price)}
           vouchers == {i \in usable : IsVoucher(Catalog[i])}
           rateSets == {R \in SUBSET {i \in usable : IsRate(Catalog[i])} :
                          Cardinality(R) <= budget /\ ~HasConflict(R)}
           maxUnits == Max({0} \cup {MaxUnits(Catalog[v]) : v \in vouchers})
           fits(R) == {v \in vouchers : \A r \in R : MutuallyCompatible(v, r)}
           chosen(u) == {v \in DOMAIN u : u[v] > 0}
           counts(R) == {u \in [fits(R) -> 0..maxUnits] :
                           /\ \A v \in chosen(u) : u[v] <= MaxUnits(Catalog[v])
                           /\ Cardinality(R) + Cardinality(chosen(u)) <= budget
                           /\ ~HasConflict(chosen(u))
                           /\ SumFunction([v \in chosen(u) |-> Catalog[v].cval * u[v]]) <= price}
<1>1. EnumerateAllocations(price, ids, budget) = UNION {{Allocation(price, u, R) : u \in counts(R)} : R \in rateSets}
  BY DEF EnumerateAllocations
<1>2. PICK R \in rateSets : \E u \in counts(R) : a = Allocation(price, u, R)
  <2> HIDE DEF rateSets, counts
  <2> QED  BY <1>1
<1>3. PICK u \in counts(R) : a = Allocation(price, u, R)
  BY <1>2
<1>4. R \in SUBSET ids /\ (\A r \in R : IsRate(Catalog[r])) /\ ~HasConflict(R)
  OBVIOUS
<1>5. /\ u \in [fits(R) -> 0..maxUnits]
      /\ Cardinality(R) + Cardinality(chosen(u)) <= budget
      /\ ~HasConflict(chosen(u))
      /\ SumFunction([v \in chosen(u) |-> Catalog[v].cval * u[v]]) <= price
  <2> HIDE DEF fits, chosen, maxUnits, rateSets
  <2> QED  OBVIOUS
<1>6. DOMAIN u = fits(R) /\ \A v \in fits(R) : u[v] \in 0 .. maxUnits
  <2> HIDE DEF fits, maxUnits, rateSets, counts
  <2> QED  BY <1>5
<1>7. \A v \in fits(R) : u[v] \in Nat
  <2> HIDE DEF fits, maxUnits, rateSets, counts
  <2> QED  BY <1>6
<1>8. fits(R) \in SUBSET ids /\ \A v \in fits(R) : IsVoucher(Catalog[v]) /\ \A r \in R : MutuallyCompatible(v, r)
  OBVIOUS
<1> DEFINE VS == fits(R)
<1>9. chosen(u) = {v \in VS : u[v] > 0}
  BY <1>6
<1>10. DOMAIN u = VS /\ (\A v \in VS : u[v] \in Nat) /\ VS \in SUBSET ids
  BY <1>6, <1>7, <1>8
<1>11. \A v \in VS : IsVoucher(Catalog[v]) /\ \A r \in R : MutuallyCompatible(v, r)
  BY <1>8
<1>12. Cardinality(R) + Cardinality({v \in VS : u[v] > 0}) <= budget
  <2> HIDE DEF fits, chosen, maxUnits, rateSets, counts, VS
  <2> QED  BY <1>5, <1>9
<1>13. ~HasConflict({v \in VS : u[v] > 0})
  <2> HIDE DEF fits, chosen, maxUnits, rateSets, counts, VS
  <2> QED  BY <1>5, <1>9
<1>14. SumFunction([v \in {v \in VS : u[v] > 0} |-> Catalog[v].cval * u[v]]) <= price
  <2> HIDE DEF fits, chosen, maxUnits, rateSets, counts, VS
  <2> QED  BY <1>5, <1>9
<1> HIDE DEF fits, chosen, maxUnits, rateSets, counts, VS
<1>15. IsSplit(Allocation(price, u, R), price, ids, budget)
  BY <1>4, <1>10, <1>11, <1>12, <1>13, <1>14, AllocationIsSplit
<1> QED  BY <1>3, <1>15

\* So are the best of them, which are all that is kept.
LEMMA TopAreSplits ==
  ASSUME NEW price \in Nat, NEW ids, ids \subseteq DOMAIN Catalog, IsFiniteSet(ids), NEW budget \in Nat
  PROVE  \A a \in AllocateTenderTopK(price, ids, budget) : IsSplit(a, price, ids, budget) /\ a.total \in 0 .. price
<1> DEFINE splits == EnumerateAllocations(price, ids, budget)
           cost == [a \in splits |-> -a.total]
           first == FirstBy(splits, TopN, cost)
<1>1. \A a \in splits : IsSplit(a, price, ids, budget)
  BY EnumeratedAreSplits
<1>2. ASSUME NEW a \in splits PROVE a.total \in 0 .. price
  <2> DEFINE D == DOMAIN a.covered
  <2>1. /\ IsFiniteSet(D) /\ a.covered \in [D -> Nat] /\ a.saved \in [D -> Nat] /\ \A i \in D : a.saved[i] <= a.covered[i]
        /\ Over(a.covered, D) <= price /\ a.total = Over(a.saved, D)
    BY <1>1 DEF IsSplit
  <2> HIDE DEF D
  <2>2. Over(a.saved, D) \in Nat /\ Over(a.covered, D) \in Nat /\ Over(a.saved, D) <= Over(a.covered, D)
    BY <2>1, Smaller
  <2> QED  BY <2>1, <2>2
<1>3. \A a \in splits : cost[a] \in Int /\ -price <= cost[a]
  BY <1>2
<1>4. AllocateTenderTopK(price, ids, budget) = Range(first)
  BY DEF AllocateTenderTopK, SavingMost
<1>5. TopN \in Nat /\ -price \in Int
  BY QueriesAssumption
<1> HIDE DEF cost, splits
<1>6. \A T \in SUBSET splits : T # {} => \E x \in T : \A y \in T : cost[x] <= cost[y]
  BY <1>3, <1>5, Bounded
<1>7. RankedIn(first, splits, cost, TopN)
  BY <1>5, <1>6, FirstAreRanked
<1> HIDE DEF first
<1>8. Range(first) \subseteq splits
  <2>1. first \in Seq(splits)
    BY <1>7 DEF RankedIn
  <2> QED  BY <2>1 DEF Range
<1> QED  BY <1>1, <1>2, <1>4, <1>8

-----------------------------------------------------------------------------
(* The chain.                                                              *)

\* A use of a price-level deal that is kept.
IsVertex(v) == v.deal \in kept /\ Catalog[v.deal].type \in ChainCategories

\* A set of vertices within the budget of which each two fit, and the one added last.
IsState(s) ==
  /\ s = [last |-> s.last, applied |-> s.applied]
  /\ IsFiniteSet(s.applied) /\ Cardinality(s.applied) <= req.maxDeals
  /\ \A v \in s.applied : IsVertex(v)
  /\ \A u, v \in s.applied : MutuallyCompatible(u.deal, v.deal)

\* A state is the one before it with its last vertex added, at the price that leaves.
GrownFrom(d, s, p) ==
  /\ p \in DOMAIN d
  /\ s.last \notin p.applied /\ s.applied = p.applied \cup {s.last}
  /\ d[s].price = ApplyDeal(d[p].price, Catalog[s.last.deal])

\* The table of the sweep.  No state ends at a vertex that is still to come, so that
\* what a vertex adds is new, and no entry is ever replaced.
ChainTable(d, q) ==
  /\ Start \in DOMAIN d /\ d[Start].price = req.cart
  /\ \A s \in DOMAIN d : /\ IsState(s) /\ d[s].price \in Nat
                         /\ s # Start => s.last \notin q /\ GrownFrom(d, s, d[s].prev)

\* One vertex swept.
LEMMA SweptTable ==
  ASSUME ChainTable(dp, queue), kept \subseteq DOMAIN Catalog, req.maxDeals \in Nat,
         NEW v \in queue, \A u \in queue : IsVertex(u)
  PROVE  ChainTable(Extend(v), queue \ {v})
<1> DEFINE from == {s \in DOMAIN dp :
                      /\ v \notin s.applied
                      /\ Cardinality(s.applied) < req.maxDeals
                      /\ s # Start => DirectedEdgeAllowed(s.last, v)
                      /\ \A u \in s.applied : MutuallyCompatible(u.deal, v.deal)
                      /\ ApplyDeal(dp[s].price, Catalog[v.deal]) # Nil}
           into(s) == [last |-> v, applied |-> s.applied \cup {v}]
           cheapest(n) == CHOOSE s \in from : /\ into(s) = n
                                              /\ \A r \in from : into(r) = n => dp[s].price <= dp[r].price
           grown == [n \in {into(s) : s \in from} |->
                       [price |-> ApplyDeal(dp[cheapest(n)].price, Catalog[v.deal]), prev |-> cheapest(n)]]
           D == DOMAIN dp \cup DOMAIN grown
           d == Extend(v)
<1>1. d = [s \in D |-> IF s \in DOMAIN dp /\ (s \notin DOMAIN grown \/ dp[s].price <= grown[s].price)
                       THEN dp[s] ELSE grown[s]]
  BY DEF Extend
<1>2. DOMAIN d = D
  BY <1>1
<1>3. ASSUME NEW n \in DOMAIN grown
      PROVE  /\ n.last = v /\ n \notin DOMAIN dp /\ n # Start
             /\ cheapest(n) \in from /\ into(cheapest(n)) = n
             /\ grown[n].prev = cheapest(n)
             /\ grown[n].price = ApplyDeal(dp[cheapest(n)].price, Catalog[v.deal])
  <2>1. PICK s \in from : n = into(s)
    OBVIOUS
  <2>2. n.last = v /\ v \in n.applied
    BY <2>1
  <2>3. n # Start
    BY <2>2 DEF Start
  <2>4. n \notin DOMAIN dp
    BY <2>2, <2>3 DEF ChainTable
  <2> DEFINE T == {r \in from : into(r) = n}
             cost == [r \in from |-> dp[r].price]
  <2>5. \A r \in from : cost[r] \in Int /\ 0 <= cost[r] /\ cost[r] = dp[r].price
    BY DEF ChainTable
  <2>6. T \in SUBSET from /\ T # {}
    BY <2>1
  <2>7. \E r \in T : \A o \in T : cost[r] <= cost[o]
    <3>2. 0 \in Int
      OBVIOUS
    <3>3. \A r \in from : cost[r] \in Int /\ 0 <= cost[r]
      BY <2>5
    <3> HIDE DEF T, cost, from
    <3>1. \A U \in SUBSET from : U # {} => \E r \in U : \A o \in U : cost[r] <= cost[o]
      BY <3>2, <3>3, Bounded
    <3> QED  BY <2>6, <3>1
  <2>8. \E r \in from : into(r) = n /\ \A o \in from : into(o) = n => dp[r].price <= dp[o].price
    <3> HIDE DEF cost, from, into
    <3> QED  BY <2>5, <2>7
  <2>9. cheapest(n) \in from /\ into(cheapest(n)) = n
    <3> HIDE DEF from, into
    <3> QED  BY <2>8
  <2> QED  BY <2>2, <2>3, <2>4, <2>9
<1>4. \A s \in DOMAIN dp : s \in D /\ d[s] = dp[s]
  <2> SUFFICES ASSUME NEW s \in DOMAIN dp PROVE s \in D /\ d[s] = dp[s]
    OBVIOUS
  <2>1. s \in D /\ s \notin DOMAIN grown
    BY <1>3
  <2> HIDE DEF grown, d
  <2> QED  BY <1>1, <2>1
<1>5. \A n \in DOMAIN grown : n \in D /\ d[n] = grown[n]
  <2> SUFFICES ASSUME NEW n \in DOMAIN grown PROVE n \in D /\ d[n] = grown[n]
    OBVIOUS
  <2>1. n \in D /\ n \notin DOMAIN dp
    BY <1>3
  <2> HIDE DEF grown, d
  <2> QED  BY <1>1, <2>1
<1>6. Start \in DOMAIN d /\ d[Start].price = req.cart
  BY <1>2, <1>4 DEF ChainTable
<1>7. ASSUME NEW s \in DOMAIN dp
      PROVE  /\ IsState(s) /\ d[s].price \in Nat
             /\ s # Start => s.last \notin queue \ {v} /\ GrownFrom(d, s, d[s].prev)
  <2>1. IsState(s) /\ dp[s].price \in Nat /\ d[s] = dp[s] /\ DOMAIN dp \subseteq DOMAIN d
    BY <1>2, <1>4 DEF ChainTable
  <2>2. ASSUME s # Start PROVE s.last \notin queue \ {v} /\ GrownFrom(d, s, d[s].prev)
    <3>1. s.last \notin queue /\ GrownFrom(dp, s, dp[s].prev)
      BY <2>2 DEF ChainTable
    <3>2. PICK p \in DOMAIN dp : p = dp[s].prev
      BY <3>1 DEF GrownFrom
    <3>3. d[p] = dp[p] /\ p = d[s].prev /\ p \in DOMAIN d
      BY <1>4, <2>1, <3>2
    <3> HIDE DEF d
    <3>4. GrownFrom(d, s, p)
      BY <2>1, <3>1, <3>2, <3>3 DEF GrownFrom
    <3> QED  BY <3>1, <3>3, <3>4
  <2> HIDE DEF d
  <2> QED  BY <2>1, <2>2
<1>8. ASSUME NEW n \in DOMAIN grown
      PROVE  /\ IsState(n) /\ d[n].price \in Nat
             /\ n # Start => n.last \notin queue \ {v} /\ GrownFrom(d, n, d[n].prev)
  <2> DEFINE c == cheapest(n)
  <2>1. /\ c \in from /\ into(c) = n /\ n.last = v /\ d[n].prev = c
        /\ d[n].price = ApplyDeal(dp[c].price, Catalog[v.deal])
    <3>1. d[n] = grown[n]
      BY <1>5
    <3>2. /\ n.last = v /\ cheapest(n) \in from /\ into(cheapest(n)) = n /\ grown[n].prev = cheapest(n)
          /\ grown[n].price = ApplyDeal(dp[cheapest(n)].price, Catalog[v.deal])
      BY <1>3
    <3> HIDE DEF grown, d, cheapest, into, from
    <3> QED  BY <3>1, <3>2
  <2> HIDE DEF c, d, grown
  <2>2. /\ c \in DOMAIN dp /\ v \notin c.applied /\ Cardinality(c.applied) < req.maxDeals
        /\ \A u \in c.applied : MutuallyCompatible(u.deal, v.deal)
        /\ ApplyDeal(dp[c].price, Catalog[v.deal]) # Nil
    BY <2>1
  <2>3. n = [last |-> v, applied |-> c.applied \cup {v}]
    BY <2>1
  <2>4. n.last = v /\ n.applied = c.applied \cup {v}
    BY <2>3
  <2>5. IsState(c) /\ dp[c].price \in Nat
    BY <2>2 DEF ChainTable
  <2>6. IsVertex(v) /\ IsDeal(Catalog[v.deal])
    BY CatalogAssumption DEF IsVertex
  <2>7. d[n].price \in Nat
    BY <2>1, <2>2, <2>5, <2>6, DealsLower
  <2>8. d[c] = dp[c] /\ c \in DOMAIN d
    BY <1>2, <1>4, <2>2
  <2>9. GrownFrom(d, n, d[n].prev)
    BY <2>1, <2>2, <2>4, <2>8 DEF GrownFrom
  <2>10. IsFiniteSet(n.applied) /\ Cardinality(n.applied) <= req.maxDeals
    <3>1. IsFiniteSet(c.applied)
      BY <2>5 DEF IsState
    <3>2. IsFiniteSet(c.applied \cup {v}) /\ Cardinality(c.applied \cup {v}) = Cardinality(c.applied) + 1
      BY <2>2, <3>1, FS_AddElement
    <3>3. Cardinality(c.applied) \in Nat
      BY <3>1, FS_CardinalityType
    <3> QED  BY <2>2, <2>4, <3>2, <3>3
  <2>11. \A u \in n.applied : IsVertex(u)
    BY <2>4, <2>5, <2>6 DEF IsState
  <2>12. ASSUME NEW a \in n.applied, NEW b \in n.applied PROVE MutuallyCompatible(a.deal, b.deal)
    <3>1. MutuallyCompatible(v.deal, v.deal)
      BY DEF MutuallyCompatible
    <3>2. \A u \in c.applied : MutuallyCompatible(u.deal, v.deal) /\ MutuallyCompatible(v.deal, u.deal)
      BY <2>2, Mutual
    <3>3. \A t, u \in c.applied : MutuallyCompatible(t.deal, u.deal)
      BY <2>5 DEF IsState
    <3>4. (a \in c.applied \/ a = v) /\ (b \in c.applied \/ b = v)
      BY <2>4
    <3> QED  BY <3>1, <3>2, <3>3, <3>4
  <2>13. IsState(n)
    BY <2>3, <2>4, <2>10, <2>11, <2>12 DEF IsState
  <2> QED  BY <2>1, <2>7, <2>9, <2>13
<1>9. DOMAIN d = DOMAIN dp \cup DOMAIN grown
  BY <1>2
<1> HIDE DEF d, grown
<1> QED  BY <1>6, <1>7, <1>8, <1>9 DEF ChainTable, d

-----------------------------------------------------------------------------
(* The way back through the table.                                         *)

\* A state of the table with n vertices fewer, all of them of the other.
Behind(s, n, p) ==
  /\ p \in DOMAIN dp /\ p.applied \subseteq s.applied
  /\ Cardinality(p.applied) = Cardinality(s.applied) - n

\* One step back.
LEMMA OneBack ==
  ASSUME NEW q, ChainTable(dp, q), NEW s \in DOMAIN dp, NEW n \in 1 .. Cardinality(s.applied), NEW p, Behind(s, n - 1, p)
  PROVE  p # Start /\ GrownFrom(dp, p, dp[p].prev) /\ Behind(s, n, dp[p].prev)
<1>1. IsFiniteSet(s.applied) /\ Cardinality(s.applied) \in Nat
  <2>1. IsFiniteSet(s.applied)
    BY DEF ChainTable, IsState
  <2> QED  BY <2>1, FS_CardinalityType
<1>2. p \in DOMAIN dp /\ p.applied \subseteq s.applied /\ Cardinality(p.applied) = Cardinality(s.applied) - (n - 1)
  BY DEF Behind
<1>3. p # Start
  <2>1. Start.applied = {}
    BY DEF Start
  <2>2. Cardinality({}) = 0
    BY FS_EmptySet
  <2>3. Cardinality(p.applied) # 0
    BY <1>1, <1>2
  <2>4. ASSUME p = Start PROVE FALSE
    <3>1. p.applied = {}
      BY <2>1, <2>4, Zenon
    <3> QED  BY <2>2, <2>3, <3>1
  <2> QED  BY <2>4
<1>4. GrownFrom(dp, p, dp[p].prev)
  BY <1>2, <1>3 DEF ChainTable
<1>5. PICK r \in DOMAIN dp : r = dp[p].prev
  BY <1>4 DEF GrownFrom
<1>6. p.last \notin r.applied /\ p.applied = r.applied \cup {p.last}
  BY <1>4, <1>5 DEF GrownFrom
<1>7. IsFiniteSet(r.applied)
  BY <1>5 DEF ChainTable, IsState
<1>8. Cardinality(p.applied) = Cardinality(r.applied) + 1
  BY <1>6, <1>7, FS_AddElement
<1>9. Cardinality(r.applied) \in Nat
  BY <1>7, FS_CardinalityType
<1>10. Behind(s, n, r)
  BY <1>1, <1>2, <1>5, <1>6, <1>8, <1>9 DEF Behind
<1> QED  BY <1>3, <1>4, <1>5, <1>10

\* A way back from a state: each step one vertex fewer, down to the start.
IsWayBack(w, s) ==
  LET m == Cardinality(s.applied) IN
  /\ m \in Nat /\ w[0] = s /\ w[m] = Start
  /\ \A n \in 0 .. m : Behind(s, n, w[n])
  /\ \A n \in 1 .. m : w[n] = dp[w[n - 1]].prev /\ w[n - 1] # Start /\ GrownFrom(dp, w[n - 1], w[n])

\* The walk is one.
LEMMA WalkGoesBack ==
  ASSUME NEW q, ChainTable(dp, q), NEW s \in DOMAIN dp
  PROVE  IsWayBack(Walk(s), s)
<1> DEFINE m == Cardinality(s.applied)
           Follows(g) == g = [n \in 0 .. m |-> IF n = 0 THEN s ELSE dp[g[n - 1]].prev]
           back == CHOOSE g : Follows(g)
           V == [n \in 0 .. m |-> {p \in DOMAIN dp : Behind(s, n, p)}]
           step == [p \in DOMAIN dp |-> IF p = Start THEN Start ELSE dp[p].prev]
           next == [n \in 1 .. m |-> step]
<1>0. m \in Nat
  <2>1. IsFiniteSet(s.applied)
    BY DEF ChainTable, IsState
  <2> QED  BY <2>1, FS_CardinalityType
<1>1. Walk(s) = back
  BY DEF Walk
<1>2. \A n \in 0 .. m : \A p : p \in V[n] <=> Behind(s, n, p)
  BY DEF Behind
<1>3. s \in V[0]
  <2>1. Behind(s, 0, s)
    BY <1>0 DEF Behind
  <2> QED  BY <1>0, <1>2, <2>1
<1>4. ASSUME NEW n \in 1 .. m, NEW p \in V[n - 1]
      PROVE  p # Start /\ p \in DOMAIN dp /\ GrownFrom(dp, p, dp[p].prev) /\ dp[p].prev \in V[n]
  <2>1. n - 1 \in 0 .. m /\ n \in 0 .. m
    BY <1>0
  <2>2. Behind(s, n - 1, p)
    BY <1>2, <2>1
  <2>3. p # Start /\ GrownFrom(dp, p, dp[p].prev) /\ Behind(s, n, dp[p].prev)
    BY <2>2, OneBack
  <2> QED  BY <1>2, <2>1, <2>2, <2>3 DEF Behind
<1> HIDE DEF V
<1>5. \A n \in 1 .. m : n - 1 \in 0 .. m /\ n \in 0 .. m
  BY <1>0
<1>6. \E g : Follows(g)
  <2>1. step \in [DOMAIN dp -> DOMAIN dp]
    BY DEF ChainTable, GrownFrom
  <2>2. \A n \in 1 .. m : next[n] \in [DOMAIN dp -> DOMAIN dp] /\ next[n] = step
    BY <2>1
  <2>3. \A p \in DOMAIN dp : p # Start => step[p] = dp[p].prev
    OBVIOUS
  <2> HIDE DEF next, step
  <2>4. PICK f : Recurs(f, m, s, next)
    BY <1>0, <2>2, Recursion
  <2>5. f = [n \in 0 .. m |-> IF n = 0 THEN s ELSE next[n][f[n - 1]]]
    BY <2>4 DEF Recurs
  <2>6. f[0] = s /\ \A n \in 1 .. m : f[n] = step[f[n - 1]]
    BY <1>0, <1>5, <2>2, <2>5
  <2>7. \A n \in 1 .. m : f[n - 1] \in V[n - 1] => f[n] \in V[n]
    BY <1>4, <2>3, <2>6
  <2>8. f[0] \in V[0]
    BY <1>3, <2>6
  <2>9. \A n \in 0 .. m : f[n] \in V[n]
    BY <1>0, <2>7, <2>8, Following
  <2>10. \A n \in 1 .. m : f[n] = dp[f[n - 1]].prev
    BY <1>4, <1>5, <2>3, <2>6, <2>9
  <2>11. \A n \in 0 .. m : n = 0 \/ n \in 1 .. m
    BY <1>0
  <2>12. \A n \in 0 .. m : f[n] = IF n = 0 THEN s ELSE dp[f[n - 1]].prev
    BY <2>6, <2>10, <2>11
  <2>13. f = [n \in 0 .. m |-> f[n]]
    BY <2>5
  <2>14. f = [n \in 0 .. m |-> IF n = 0 THEN s ELSE dp[f[n - 1]].prev]
    BY <2>12, <2>13
  <2> QED  BY <2>14
<1>7. Follows(back)
  BY <1>6
<1> HIDE DEF back
<1>8. back[0] = s /\ \A n \in 1 .. m : back[n] = dp[back[n - 1]].prev
  BY <1>0, <1>5, <1>7
<1>9. \A n \in 0 .. m : back[n] \in V[n]
  <2>1. back[0] \in V[0]
    BY <1>3, <1>8
  <2>2. \A n \in 1 .. m : back[n - 1] \in V[n - 1] => back[n] \in V[n]
    BY <1>4, <1>8
  <2> QED  BY <1>0, <2>1, <2>2, Following
<1>10. \A n \in 0 .. m : Behind(s, n, back[n])
  BY <1>2, <1>9
<1>11. \A n \in 1 .. m : back[n - 1] # Start /\ GrownFrom(dp, back[n - 1], back[n])
  BY <1>4, <1>5, <1>8, <1>9
<1>12. back[m] = Start
  <2>1. Behind(s, m, back[m])
    BY <1>0, <1>10
  <2>2. PICK p \in DOMAIN dp : p = back[m]
    BY <2>1 DEF Behind
  <2>3. IsFiniteSet(p.applied) /\ Cardinality(p.applied) = 0
    BY <1>0, <2>1, <2>2 DEF Behind, ChainTable, IsState
  <2>4. p.applied = {}
    BY <2>3, FS_EmptySet
  <2>5. p # Start => p.last \in p.applied
    BY <2>2 DEF ChainTable, GrownFrom
  <2> QED  BY <2>2, <2>4, <2>5
<1> HIDE DEF m
<1>13. /\ m \in Nat /\ back[0] = s /\ back[m] = Start
       /\ \A n \in 0 .. m : Behind(s, n, back[n])
       /\ \A n \in 1 .. m : back[n] = dp[back[n - 1]].prev /\ back[n - 1] # Start /\ GrownFrom(dp, back[n - 1], back[n])
  BY <1>0, <1>8, <1>10, <1>11, <1>12
<1> QED  BY <1>1, <1>13 DEF IsWayBack, m

-----------------------------------------------------------------------------
(* The bill along a path.                                                  *)

\* As many as there are: every one is ranked.
LEMMA AllRanked ==
  ASSUME NEW S, IsFiniteSet(S), NEW cost, NEW s, RankedIn(s, S, cost, Cardinality(S))
  PROVE  Range(s) = S /\ Len(s) = Cardinality(S)
<1>1. Range(s) \subseteq S
  <2>1. s \in Seq(S)
    BY DEF RankedIn
  <2> QED  BY <2>1 DEF Range
<1>2. Cardinality(Range(s)) = Len(s)
  BY DEF RankedIn
<1>3. CASE Range(s) = S
  BY <1>2, <1>3
<1>4. CASE Range(s) # S
  <2>1. Cardinality(Range(s)) = Cardinality(S)
    BY <1>2, <1>4 DEF RankedIn
  <2>2. Range(s) = S
    BY <1>1, <2>1, FS_Subset
  <2> QED  BY <1>4, <2>2
<1> QED  BY <1>3, <1>4

\* The last place of a row taken off.
LEMMA LastOff ==
  ASSUME NEW m \in Nat, NEW n \in Nat \ {0}, NEW P, IsFiniteSet(P), NEW g \in [P -> Int],
         m + 1 .. m + n \subseteq P
  PROVE  Over(g, m + 1 .. m + n) = g[m + n] + Over(g, m + 1 .. m + (n - 1))
<1> DEFINE A == m + 1 .. m + (n - 1)
           B == m + 1 .. m + n
           x == m + n
<1>1. B \in SUBSET P /\ x \in B
  OBVIOUS
<1>2. B \ {x} = A
  <2>1. \A z : z \in A <=> z \in Int /\ m + 1 <= z /\ z <= m + (n - 1)
    OBVIOUS
  <2>2. \A z : z \in B <=> z \in Int /\ m + 1 <= z /\ z <= m + n
    OBVIOUS
  <2>3. x \in Int /\ x = m + n
    OBVIOUS
  <2> HIDE DEF A, B, x
  <2> QED  BY <2>1, <2>2, <2>3
<1> HIDE DEF A, B, x
<1>3. Over(g, B) = g[x] + Over(g, B \ {x})
  BY <1>1, TakeOne
<1> QED  BY <1>2, <1>3 DEF A, B, x

\* Each place holds something of a set, and no two the same.
OnceEach(t, k, S) ==
  /\ \A i \in 1 .. k : t[i] \in S
  /\ \A i, j \in 1 .. k : i < j => t[i] # t[j]

\* The places after the first m have the figures of what stands there.
InARow(g, P, m, k, f, t) ==
  /\ P = m + 1 .. m + k
  /\ \A i \in 1 .. k : g[m + i] = f[t[i]]

\* Figures in a row add up, place by place, to the figures of what stands there.
LEMMA AlongARow ==
  ASSUME NEW m \in Nat, NEW k \in Nat, NEW S, IsFiniteSet(S), NEW f \in [S -> Nat], NEW t, OnceEach(t, k, S),
         NEW P, NEW g \in [P -> Nat], InARow(g, P, m, k, f, t)
  PROVE  Over(g, P) = Over(f, {t[i] : i \in 1 .. k})
<1>0. /\ \A i \in 1 .. k : t[i] \in S
      /\ \A i, j \in 1 .. k : i < j => t[i] # t[j]
      /\ P = m + 1 .. m + k
      /\ \A i \in 1 .. k : g[m + i] = f[t[i]]
  BY DEF OnceEach, InARow
<1> DEFINE T(n) == {t[i] : i \in 1 .. n}
           sums == [n \in 0 .. k |-> Over(g, m + 1 .. m + n)]
           V == [n \in 0 .. k |-> {Over(f, T(n))}]
<1>1. IsFiniteSet(P) /\ f \in [S -> Int] /\ g \in [P -> Int]
  <2>1. IsFiniteSet(m + 1 .. m + k)
    BY FS_Interval
  <2>2. IsFiniteSet(P)
    BY <1>0, <2>1
  <2> QED  BY <2>2
<1>2. sums[0] \in V[0]
  <2>1. m + 1 .. m + 0 = {} /\ T(0) = {}
    OBVIOUS
  <2>2. Over(g, {}) = 0 /\ Over(f, {}) = 0
    BY <1>1, OneOff
  <2>3. sums[0] = Over(g, m + 1 .. m + 0) /\ V[0] = {Over(f, T(0))}
    OBVIOUS
  <2> HIDE DEF T, sums, V
  <2> QED  BY <2>1, <2>2, <2>3
<1>3. ASSUME NEW n \in 1 .. k, sums[n - 1] \in V[n - 1] PROVE sums[n] \in V[n]
  <2> DEFINE A == m + 1 .. m + (n - 1)
             B == m + 1 .. m + n
             x == m + n
             y == t[n]
  <2>1. B \subseteq P /\ n \in Nat \ {0}
    BY <1>0
  <2>2. Over(g, B) = g[x] + Over(g, A)
    <3>1. IsFiniteSet(P)
      BY <1>1
    <3>2. g \in [P -> Int]
      BY <1>1
    <3>3. n \in Nat \ {0}
      BY <2>1
    <3>4. m + 1 .. m + n \subseteq P
      BY <2>1
    <3>5. Over(g, m + 1 .. m + n) = g[m + n] + Over(g, m + 1 .. m + (n - 1))
      <4> HIDE DEF A, B, x, y, T, sums, V
      <4>1. m \in Nat
        OBVIOUS
      <4> QED  BY <4>1, <3>1, <3>2, <3>3, <3>4, LastOff
    <3> QED  BY <3>5
  <2>3. T(n) \in SUBSET S /\ y \in T(n)
    <3>1. n \in 1 .. n /\ \A i \in 1 .. n : i \in 1 .. k
      OBVIOUS
    <3>2. \A i \in 1 .. k : t[i] \in S
      BY <1>0
    <3>3. \A i \in 1 .. n : t[i] \in S
      BY <3>1, <3>2
    <3>4. T(n) \subseteq S
      BY <3>3, Zenon
    <3>5. y \in T(n)
      BY <3>1, Zenon
    <3> QED  BY <3>4, <3>5, Zenon
  <2>4. T(n) \ {y} = T(n - 1)
    <3>1. \A i \in 1 .. n : i = n \/ i \in 1 .. n - 1
      OBVIOUS
    <3>2. \A i \in 1 .. n - 1 : i \in 1 .. n /\ i < n /\ i \in 1 .. k /\ n \in 1 .. k
      OBVIOUS
    <3>3. y \notin T(n - 1)
      BY <1>0, <3>2
    <3>4. T(n) \subseteq T(n - 1) \cup {y}
      BY <3>1
    <3>5. T(n - 1) \subseteq T(n)
      BY <3>2
    <3> HIDE DEF T, y
    <3> QED  BY <3>3, <3>4, <3>5
  <2>5. Over(f, T(n)) = f[y] + Over(f, T(n - 1))
    <3> HIDE DEF T, y
    <3>1. Over(f, T(n)) = f[y] + Over(f, T(n) \ {y})
      BY <1>1, <2>3, TakeOne
    <3> QED  BY <2>4, <3>1
  <2>6. Over(g, A) = Over(f, T(n - 1))
    <3>1. n - 1 \in 0 .. k
      OBVIOUS
    <3>2. sums[n - 1] = Over(g, A) /\ V[n - 1] = {Over(f, T(n - 1))}
      BY <3>1
    <3> QED  BY <1>3, <3>2
  <2>7. g[x] = f[y]
    BY <1>0
  <2>8. sums[n] = Over(g, B) /\ V[n] = {Over(f, T(n))}
    OBVIOUS
  <2> HIDE DEF A, B, x, y, T, sums, V
  <2> QED  BY <2>2, <2>5, <2>6, <2>7, <2>8
<1>4. \A n \in 0 .. k : sums[n] = Over(g, m + 1 .. m + n) /\ V[n] = {Over(f, T(n))}
  OBVIOUS
<1> HIDE DEF sums, V, T
<1>5. \A n \in 0 .. k : sums[n] \in V[n]
  BY <1>2, <1>3, Following
<1>6. \A n \in 0 .. k : Over(g, m + 1 .. m + n) = Over(f, T(n))
  BY <1>4, <1>5
<1>7. k \in 0 .. k
  OBVIOUS
<1> QED  BY <1>0, <1>6, <1>7 DEF T

\* A price-level deal of the catalogue, or an instrument with its share of the bill.
IsNode(node) ==
  \/ node.covered = Nil /\ node.deal \in DOMAIN Catalog
  \/ node.covered \in Nat /\ node.saved \in Nat

\* No step of a path raises the bill.
LEMMA StepLowers ==
  ASSUME NEW node, IsNode(node), NEW price \in Nat
  PROVE  StepPrice(price, node) \in Nat /\ StepPrice(price, node) <= price
<1>1. CASE node.covered # Nil
  <2>1. node.saved \in Nat
    BY <1>1 DEF IsNode
  <2>2. StepPrice(price, node) = Max2(0, price - Min2(node.saved, price))
    BY <1>1 DEF StepPrice
  <2> QED  BY <2>1, <2>2 DEF Max2, Min2
<1>2. CASE node.covered = Nil
  <2>1. IsDeal(Catalog[node.deal])
    BY <1>2, CatalogAssumption DEF IsNode
  <2>2. StepPrice(price, node) = IF ApplyDeal(price, Catalog[node.deal]) = Nil THEN price
                                 ELSE ApplyDeal(price, Catalog[node.deal])
    BY <1>2 DEF StepPrice
  <2>3. CASE ApplyDeal(price, Catalog[node.deal]) = Nil
    BY <2>2, <2>3
  <2>4. CASE ApplyDeal(price, Catalog[node.deal]) # Nil
    BY <2>1, <2>2, <2>4, DealsLower
  <2> QED  BY <2>3, <2>4
<1> QED  BY <1>1, <1>2

\* A bill that starts at the cart and follows the path down.
IsBill(bill, path) ==
  /\ bill[0] = req.cart
  /\ \A n \in 0 .. Len(path) : bill[n] \in Nat
  /\ \A n \in 1 .. Len(path) : bill[n] = StepPrice(bill[n - 1], path[n]) /\ bill[n] <= bill[n - 1]

\* The path's bills are such.
LEMMA BillsFollow ==
  ASSUME req.cart \in Nat, NEW path, Len(path) \in Nat, \A n \in 1 .. Len(path) : IsNode(path[n])
  PROVE  IsBill(Bills(path), path)
<1> DEFINE m == Len(path)
           Follows(g) == g = [n \in 0 .. m |-> IF n = 0 THEN req.cart ELSE StepPrice(g[n - 1], path[n])]
           bill == CHOOSE g : Follows(g)
           V == [n \in 0 .. m |-> Nat]
           next == [n \in 1 .. m |-> [x \in Nat |-> StepPrice(x, path[n])]]
<1>1. Bills(path) = bill
  BY DEF Bills
<1>2. \A n \in 1 .. m : \A x \in Nat : StepPrice(x, path[n]) \in Nat /\ StepPrice(x, path[n]) <= x
  BY StepLowers
<1>3. \A n \in 1 .. m : n - 1 \in 0 .. m /\ n \in 0 .. m
  OBVIOUS
<1>4. \A n \in 0 .. m : V[n] = Nat
  OBVIOUS
<1> HIDE DEF V
<1>5. \E g : Follows(g)
  <2>1. \A n \in 1 .. m : next[n] \in [Nat -> Nat]
    BY <1>2
  <2>2. \A n \in 1 .. m : \A x \in Nat : next[n][x] = StepPrice(x, path[n])
    OBVIOUS
  <2> HIDE DEF next
  <2>3. m \in Nat /\ req.cart \in Nat
    OBVIOUS
  <2> DEFINE N == Nat
  <2> HIDE DEF m
  <2>4. PICK f : Recurs(f, m, req.cart, next)
    <3>1. req.cart \in N /\ \A n \in 1 .. m : next[n] \in [N -> N]
      BY <2>1, <2>3
    <3> HIDE DEF N
    <3> QED  BY <2>3, <3>1, Recursion
  <2>5. f = [n \in 0 .. m |-> IF n = 0 THEN req.cart ELSE next[n][f[n - 1]]]
    BY <2>4 DEF Recurs
  <2>6. f[0] = req.cart /\ \A n \in 1 .. m : f[n] = next[n][f[n - 1]]
    BY <1>3, <2>3, <2>5
  <2>7. \A n \in 0 .. m : f[n] \in V[n]
    <3>1. f[0] \in V[0]
      BY <1>4, <2>3, <2>6
    <3>2. \A n \in 1 .. m : f[n - 1] \in V[n - 1] => f[n] \in V[n]
      BY <1>3, <1>4, <2>1, <2>6
    <3> QED  BY <2>3, <3>1, <3>2, Following
  <2>8. \A n \in 1 .. m : f[n] = StepPrice(f[n - 1], path[n])
    BY <1>3, <1>4, <2>2, <2>6, <2>7
  <2>9. \A n \in 0 .. m : n = 0 \/ n \in 1 .. m
    BY <2>3
  <2>10. \A n \in 0 .. m : f[n] = IF n = 0 THEN req.cart ELSE StepPrice(f[n - 1], path[n])
    BY <2>6, <2>8, <2>9
  <2>11. f = [n \in 0 .. m |-> f[n]]
    BY <2>5
  <2>12. f = [n \in 0 .. m |-> IF n = 0 THEN req.cart ELSE StepPrice(f[n - 1], path[n])]
    BY <2>10, <2>11
  <2> QED  BY <2>12
<1>6. Follows(bill)
  BY <1>5
<1> HIDE DEF bill
<1>7. bill[0] = req.cart /\ \A n \in 1 .. m : bill[n] = StepPrice(bill[n - 1], path[n])
  BY <1>3, <1>6
<1>8. \A n \in 0 .. m : bill[n] \in V[n]
  <2>1. bill[0] \in V[0]
    BY <1>4, <1>7
  <2>2. \A n \in 1 .. m : bill[n - 1] \in V[n - 1] => bill[n] \in V[n]
    BY <1>2, <1>3, <1>4, <1>7
  <2> QED  BY <2>1, <2>2, Following
<1>9. \A n \in 1 .. m : bill[n] <= bill[n - 1]
  BY <1>2, <1>3, <1>4, <1>7, <1>8
<1> QED  BY <1>1, <1>4, <1>7, <1>8, <1>9 DEF IsBill

-----------------------------------------------------------------------------
(* The path of a candidate.                                                *)

\* The instruments that fit every deal of a state.
Instruments(s) ==
  {i \in kept : Catalog[i].type \in TenderCategories /\ \A u \in s.applied : MutuallyCompatible(u.deal, i)}

\* A candidate: a state of the table and a split of its price within what is left
\* of the budget.
IsCandidate(c) ==
  /\ c.state \in DOMAIN dp
  /\ IsSplit(c.tender, dp[c.state].price, Instruments(c.state),
             Max2(0, req.maxDeals - Cardinality(c.state.applied)))
  /\ c.tender.total \in 0 .. dp[c.state].price
  /\ c.price = dp[c.state].price - c.tender.total

\* The chain in the order it was grown, then every instrument once.
IsPathOf(path, c, t) ==
  LET m == Cardinality(c.state.applied)
      used == DOMAIN c.tender.covered
      k == Cardinality(used)
  IN /\ m \in Nat /\ k \in Nat /\ Len(path) = m + k /\ path \in Seq(Range(path))
     /\ \A n \in 1 .. m : path[n] = Node(Walk(c.state)[m - n].last.deal, Nil, Nil)
     /\ \A n \in 1 .. k : path[m + n] = Node(t[n], c.tender.covered[t[n]], c.tender.saved[t[n]])
     /\ \A n \in 1 .. k : t[n] \in used
     /\ \A i, j \in 1 .. k : i < j => t[i] # t[j]
     /\ {t[n] : n \in 1 .. k} = used

\* The path of a candidate is one.
LEMMA PathShape ==
  ASSUME NEW q, ChainTable(dp, q), NEW c, IsCandidate(c)
  PROVE  \E t : IsPathOf(Path(c), c, t)
<1> DEFINE m == Cardinality(c.state.applied)
           used == DOMAIN c.tender.covered
           k == Cardinality(used)
           cost == [i \in used |-> -c.tender.saved[i]]
           chain == ReconstructChainPath(c.state)
           t == FirstBy(used, k, cost)
           A == [n \in DOMAIN chain |-> Node(chain[n].deal, Nil, Nil)]
           B == [n \in DOMAIN t |-> Node(t[n], c.tender.covered[t[n]], c.tender.saved[t[n]])]
<1>1. m \in Nat /\ k \in Nat /\ IsFiniteSet(used)
  <2>1. IsFiniteSet(c.state.applied) /\ IsFiniteSet(used)
    BY DEF IsCandidate, ChainTable, IsState, IsSplit
  <2> QED  BY <2>1, FS_CardinalityType
<1>2. Path(c) = A \o B
  BY DEF Path
<1>3. DOMAIN chain = 1 .. m /\ \A n \in 1 .. m : chain[n] = Walk(c.state)[m - n].last
  BY DEF ReconstructChainPath
<1> HIDE DEF chain
<1>4. RankedIn(t, used, cost, k)
  <2> DEFINE top == Over(c.tender.saved, used)
  <2>1. c.tender.saved \in [used -> Nat]
    BY DEF IsCandidate, IsSplit
  <2>2. ASSUME NEW i \in used PROVE c.tender.saved[i] \in Nat /\ c.tender.saved[i] <= top /\ top \in Nat
    <3> DEFINE f == c.tender.saved
               T == {i}
    <3>1. f \in [used -> Nat] /\ T \in SUBSET used
      BY <2>1
    <3>2. Over(f, T) <= Over(f, used) /\ Over(f, used) \in Nat
      <4> HIDE DEF used, f, T
      <4> QED  BY <1>1, <3>1, PartOf
    <3>3. f \in [used -> Int]
      BY <3>1
    <3> HIDE DEF used, f
    <3>4. Over(f, T) = f[i] + Over(f, T \ {i})
      BY <1>1, <3>1, <3>3, TakeOne
    <3>5. T \ {i} = {}
      OBVIOUS
    <3>6. Over(f, {}) = 0
      BY <1>1, <3>3, OneOff
    <3>7. f[i] \in Nat
      BY <3>1
    <3>8. Over(f, T) = f[i]
      BY <3>4, <3>5, <3>6, <3>7
    <3> QED  BY <3>2, <3>7, <3>8 DEF f
  <2>3. PICK b \in Int : \A i \in used : cost[i] \in Int /\ b <= cost[i]
    <3>1. CASE used = {}
      <4>1. 0 \in Int /\ \A i \in used : cost[i] \in Int /\ 0 <= cost[i]
        BY <3>1
      <4> QED  BY <4>1
    <3>2. CASE used # {}
      <4>1. top \in Nat
        BY <2>2, <3>2
      <4>2. -top \in Int /\ \A i \in used : cost[i] \in Int /\ -top <= cost[i]
        BY <2>2, <4>1
      <4> QED  BY <4>2
    <3> QED  BY <3>1, <3>2
  <2> HIDE DEF cost, used, k
  <2>4. \A T \in SUBSET used : T # {} => \E x \in T : \A y \in T : cost[x] <= cost[y]
    BY <2>3, Bounded
  <2> QED  BY <1>1, <2>4, FirstAreRanked
<1>5. Range(t) = used /\ Len(t) = k
  <2> HIDE DEF cost, used, t
  <2> QED  BY <1>1, <1>4, AllRanked
<1>6. t \in Seq(used) /\ \A i, j \in 1 .. Len(t) : i < j => t[i] # t[j]
  BY <1>4 DEF RankedIn
<1> HIDE DEF t
<1>7. DOMAIN t = 1 .. k /\ \A n \in 1 .. k : t[n] \in used
  BY <1>5, <1>6
<1>8. {t[n] : n \in 1 .. k} = used
  BY <1>5, <1>7 DEF Range
<1> DEFINE X == {A[n] : n \in 1 .. m} \cup {B[n] : n \in 1 .. k}
<1>9. A = [n \in 1 .. m |-> A[n]] /\ B = [n \in 1 .. k |-> B[n]]
  BY <1>3, <1>7
<1>10. /\ \A n \in 1 .. m : A[n] = Node(Walk(c.state)[m - n].last.deal, Nil, Nil)
       /\ \A n \in 1 .. k : B[n] = Node(t[n], c.tender.covered[t[n]], c.tender.saved[t[n]])
  BY <1>3, <1>7
<1> HIDE DEF A, B, m, k
<1>11. A \in Seq(X) /\ B \in Seq(X) /\ Len(A) = m /\ Len(B) = k
  <2>1. \A n \in 1 .. m : A[n] \in X
    OBVIOUS
  <2>2. \A n \in 1 .. k : B[n] \in X
    OBVIOUS
  <2> HIDE DEF X
  <2>3. A \in [1 .. m -> X]
    BY <1>9, <2>1
  <2>4. B \in [1 .. k -> X]
    BY <1>9, <2>2
  <2>5. A \in Seq(X) /\ Len(A) = m
    BY <1>1, <2>3
  <2>6. B \in Seq(X) /\ Len(B) = k
    BY <1>1, <2>4
  <2> QED  BY <2>5, <2>6
<1> HIDE DEF X
<1>12. /\ A \o B \in Seq(X) /\ Len(A \o B) = m + k
       /\ \A n \in 1 .. m : (A \o B)[n] = A[n]
       /\ \A n \in 1 .. k : (A \o B)[m + n] = B[n]
  BY <1>1, <1>11
<1> DEFINE path == Path(c)
<1>13. path \in Seq(X) /\ Len(path) = m + k
  BY <1>2, <1>12
<1>14. path \in Seq(Range(path))
  <2> HIDE DEF path
  <2> QED  BY <1>13 DEF Range
<1>15. \A n \in 1 .. m : path[n] = Node(Walk(c.state)[m - n].last.deal, Nil, Nil)
  BY <1>2, <1>10, <1>12
<1>16. \A n \in 1 .. k : path[m + n] = Node(t[n], c.tender.covered[t[n]], c.tender.saved[t[n]])
  BY <1>2, <1>10, <1>12
<1>17. \A i, j \in 1 .. k : i < j => t[i] # t[j]
  BY <1>5, <1>6
<1> HIDE DEF path
<1>18. IsPathOf(path, c, t)
  BY <1>1, <1>7, <1>8, <1>13, <1>14, <1>15, <1>16, <1>17 DEF IsPathOf, m, k
<1> QED  BY <1>18 DEF path

\* The chain's part of a path is of the state's own vertices, each at the price the next state has.
LEMMA ChainNodes ==
  ASSUME NEW q, ChainTable(dp, q), NEW s \in DOMAIN dp, NEW n \in 1 .. Cardinality(s.applied)
  PROVE  LET m == Cardinality(s.applied)  v == Walk(s)[m - n].last IN
         /\ v \in s.applied /\ IsVertex(v)
         /\ Walk(s)[m - n] \in DOMAIN dp /\ Walk(s)[m - (n - 1)] \in DOMAIN dp
         /\ dp[Walk(s)[m - n]].price = ApplyDeal(dp[Walk(s)[m - (n - 1)]].price, Catalog[v.deal])
<1> DEFINE m == Cardinality(s.applied)
           w == Walk(s)
           i == m - n + 1
<1>1. IsWayBack(w, s)
  BY WalkGoesBack
<1> HIDE DEF w
<1>2. m \in Nat
  BY <1>1 DEF IsWayBack
<1>3. i \in 1 .. m /\ i - 1 = m - n /\ i = m - (n - 1) /\ i \in 0 .. m /\ i - 1 \in 0 .. m
  BY <1>2
<1>4. Behind(s, i - 1, w[i - 1]) /\ Behind(s, i, w[i])
  BY <1>1, <1>3 DEF IsWayBack
<1>5. GrownFrom(dp, w[i - 1], w[i])
  BY <1>1, <1>3 DEF IsWayBack
<1>6. w[i - 1].last \in w[i - 1].applied /\ w[i - 1].applied \subseteq s.applied
  BY <1>4, <1>5 DEF GrownFrom, Behind
<1>7. \A v \in s.applied : IsVertex(v)
  BY DEF ChainTable, IsState
<1>8. w[i - 1] \in DOMAIN dp /\ w[i] \in DOMAIN dp
  BY <1>4 DEF Behind
<1>9. dp[w[i - 1]].price = ApplyDeal(dp[w[i]].price, Catalog[w[i - 1].last.deal])
  BY <1>5 DEF GrownFrom
<1> HIDE DEF i
<1> QED  BY <1>3, <1>6, <1>7, <1>8, <1>9 DEF w

\* Every step of a path is a deal of the catalogue or an instrument with its share.
LEMMA PathNodes ==
  ASSUME NEW q, ChainTable(dp, q), kept \subseteq DOMAIN Catalog, NEW c, IsCandidate(c),
         NEW path, NEW t, IsPathOf(path, c, t), NEW n \in 1 .. Len(path)
  PROVE  IsNode(path[n])
<1> DEFINE m == Cardinality(c.state.applied)
           used == DOMAIN c.tender.covered
           k == Cardinality(used)
<1>1. m \in Nat /\ k \in Nat /\ Len(path) = m + k
  BY DEF IsPathOf
<1>2. CASE n \in 1 .. m
  <2>1. c.state \in DOMAIN dp
    BY DEF IsCandidate
  <2> DEFINE v == Walk(c.state)[m - n].last
  <2>2. IsVertex(v)
    BY <1>2, <2>1, ChainNodes
  <2>3. path[n] = Node(v.deal, Nil, Nil)
    BY <1>2 DEF IsPathOf
  <2> HIDE DEF v
  <2> QED  BY <2>2, <2>3 DEF IsNode, Node, IsVertex
<1>3. CASE n \notin 1 .. m
  <2> DEFINE i == n - m
  <2>1. i \in 1 .. k /\ n = m + i
    BY <1>1, <1>3
  <2> HIDE DEF i
  <2>2. t[i] \in used /\ path[n] = Node(t[i], c.tender.covered[t[i]], c.tender.saved[t[i]])
    BY <2>1 DEF IsPathOf
  <2>3. c.tender.covered \in [used -> Nat] /\ c.tender.saved \in [used -> Nat]
    BY DEF IsCandidate, IsSplit
  <2>4. c.tender.covered[t[i]] \in Nat /\ c.tender.saved[t[i]] \in Nat
    BY <2>2, <2>3
  <2> QED  BY <2>2, <2>4 DEF IsNode, Node
<1> QED  BY <1>2, <1>3

\* Along the chain the bill is the price of the state come to.
LEMMA ChainBill ==
  ASSUME NEW q, ChainTable(dp, q), NEW c, IsCandidate(c),
         NEW path, NEW t, IsPathOf(path, c, t), NEW bill, IsBill(bill, path)
  PROVE  bill[Cardinality(c.state.applied)] = dp[c.state].price
<1> DEFINE m == Cardinality(c.state.applied)
           w == Walk(c.state)
           V == [n \in 0 .. m |-> {dp[w[m - n]].price}]
<1>0. m \in Nat /\ Len(path) \in Nat /\ m <= Len(path)
  BY DEF IsPathOf
<1>1. c.state \in DOMAIN dp
  BY DEF IsCandidate
<1>2. w[0] = c.state /\ w[m] = Start
  BY <1>1, WalkGoesBack DEF IsWayBack
<1>3. bill[0] \in V[0]
  <2>1. V[0] = {dp[w[m]].price}
    BY <1>0
  <2>2. dp[Start].price = req.cart
    BY DEF ChainTable
  <2>3. bill[0] = req.cart
    BY DEF IsBill
  <2> QED  BY <1>2, <2>1, <2>2, <2>3
<1>4. ASSUME NEW n \in 1 .. m, bill[n - 1] \in V[n - 1] PROVE bill[n] \in V[n]
  <2> DEFINE v == w[m - n].last
             p == dp[w[m - (n - 1)]].price
             r == dp[w[m - n]].price
  <2>1. V[n - 1] = {p} /\ V[n] = {r}
    BY <1>0
  <2>2. w[m - n] \in DOMAIN dp /\ r = ApplyDeal(p, Catalog[v.deal])
    BY <1>1, ChainNodes
  <2>3. r \in Nat
    BY <2>2 DEF ChainTable
  <2>4. path[n] = Node(v.deal, Nil, Nil)
    BY DEF IsPathOf
  <2>5. n \in 1 .. Len(path)
    BY <1>0
  <2>6. bill[n] = StepPrice(bill[n - 1], path[n])
    BY <2>5 DEF IsBill
  <2>7. bill[n - 1] = p
    BY <1>4, <2>1
  <2> HIDE DEF v, p, r, w, m
  <2>8. path[n].covered = Nil /\ path[n].deal = v.deal
    BY <2>4 DEF Node
  <2>9. r # Nil
    BY <2>3, CatalogAssumption
  <2>10. StepPrice(p, path[n]) = r
    BY <2>2, <2>8, <2>9 DEF StepPrice
  <2> QED  BY <2>1, <2>6, <2>7, <2>10
<1>5. V[m] = {dp[w[0]].price}
  BY <1>0
<1> HIDE DEF V, m, w
<1>6. \A n \in 0 .. m : bill[n] \in V[n]
  BY <1>0, <1>3, <1>4, Following
<1>7. m \in 0 .. m
  BY <1>0
<1>8. bill[m] = dp[c.state].price
  BY <1>2, <1>5, <1>6, <1>7
<1> QED  BY <1>8 DEF m

\* What is saved by those that stand first is no more than what all of them save.
LEMMA FirstSaved ==
  ASSUME NEW S, IsFiniteSet(S), NEW f \in [S -> Nat], NEW k \in Nat, NEW t,
         \A i \in 1 .. k : t[i] \in S, \A i, j \in 1 .. k : i < j => t[i] # t[j],
         NEW n \in 1 .. k
  PROVE  /\ Over(f, {t[i] : i \in 1 .. n}) = f[t[n]] + Over(f, {t[i] : i \in 1 .. n - 1})
         /\ Over(f, {t[i] : i \in 1 .. n - 1}) \in Nat /\ f[t[n]] \in Nat
         /\ Over(f, {t[i] : i \in 1 .. n}) <= Over(f, S) /\ Over(f, S) \in Nat
<1> DEFINE A == {t[i] : i \in 1 .. n - 1}
           B == {t[i] : i \in 1 .. n}
           y == t[n]
<1>1. A \in SUBSET S /\ B \in SUBSET S /\ y \in B /\ y \in S
  OBVIOUS
<1>2. B \ {y} = A
  <2>1. \A i \in 1 .. n : i = n \/ i \in 1 .. n - 1
    OBVIOUS
  <2>2. \A i \in 1 .. n - 1 : i \in 1 .. n /\ i < n /\ i \in 1 .. k /\ n \in 1 .. k
    OBVIOUS
  <2>3. y \notin A
    BY <2>2
  <2>4. B \subseteq A \cup {y}
    BY <2>1
  <2>5. A \subseteq B
    BY <2>2
  <2> HIDE DEF A, B, y
  <2> QED  BY <1>1, <2>3, <2>4, <2>5
<1>3. f \in [S -> Int]
  OBVIOUS
<1> HIDE DEF A, B, y
<1>4. Over(f, B) = f[y] + Over(f, B \ {y})
  BY <1>1, <1>3, TakeOne
<1>5. Over(f, A) \in Nat
  BY <1>1, PartOf
<1>6. Over(f, B) <= Over(f, S) /\ Over(f, S) \in Nat
  BY <1>1, PartOf
<1>7. f[y] \in Nat
  BY <1>1
<1> QED  BY <1>2, <1>4, <1>5, <1>6, <1>7 DEF A, B, y

\* Then every instrument takes off what it saves, down to the price of the candidate.
LEMMA TenderBill ==
  ASSUME NEW q, ChainTable(dp, q), NEW c, IsCandidate(c),
         NEW path, NEW t, IsPathOf(path, c, t), NEW bill, IsBill(bill, path)
  PROVE  bill[Len(path)] = c.price
<1> DEFINE m == Cardinality(c.state.applied)
           used == DOMAIN c.tender.covered
           k == Cardinality(used)
           f == c.tender.saved
           P == dp[c.state].price
           T(n) == {t[i] : i \in 1 .. n}
           V == [n \in 0 .. k |-> {P - Over(f, T(n))}]
           g == [n \in 0 .. k |-> bill[m + n]]
<1>0. /\ m \in Nat /\ k \in Nat /\ Len(path) = m + k
      /\ \A n \in 1 .. k : path[m + n] = Node(t[n], c.tender.covered[t[n]], f[t[n]])
      /\ \A n \in 1 .. k : t[n] \in used
      /\ \A i, j \in 1 .. k : i < j => t[i] # t[j]
      /\ {t[n] : n \in 1 .. k} = used
  BY DEF IsPathOf
<1>1. /\ IsFiniteSet(used) /\ f \in [used -> Nat] /\ c.tender.covered \in [used -> Nat]
      /\ c.tender.total = Over(f, used) /\ c.price = P - Over(f, used)
      /\ Over(f, used) \in 0 .. P /\ P \in Nat
  BY DEF IsCandidate, IsSplit, ChainTable
<1> HIDE DEF P, f, used, k
<1>2. f \in [used -> Int]
  BY <1>1
<1>3. g[0] \in V[0]
  <2>1. g[0] = bill[m + 0] /\ V[0] = {P - Over(f, T(0))}
    BY <1>0
  <2>2. m + 0 = m /\ T(0) = {}
    BY <1>0
  <2>3. Over(f, {}) = 0
    BY <1>1, <1>2, OneOff
  <2>4. bill[m] = P
    BY ChainBill DEF P
  <2>5. P - 0 = P
    BY <1>1
  <2> HIDE DEF T, g, V, m
  <2> QED  BY <2>1, <2>2, <2>3, <2>4, <2>5
<1>4. ASSUME NEW n \in 1 .. k, g[n - 1] \in V[n - 1] PROVE g[n] \in V[n]
  <2> DEFINE a == Over(f, T(n - 1))
             b == Over(f, T(n))
             x == f[t[n]]
  <2>1. n - 1 \in 0 .. k /\ n \in 0 .. k /\ m + n \in 1 .. Len(path) /\ (m + n) - 1 = m + (n - 1)
    BY <1>0
  <2>2. g[n - 1] = bill[m + (n - 1)] /\ V[n - 1] = {P - a} /\ g[n] = bill[m + n] /\ V[n] = {P - b}
    BY <2>1
  <2>3. b = x + a /\ a \in Nat /\ x \in Nat /\ b <= Over(f, used)
    <3>1. \A i \in 1 .. k : t[i] \in used
      BY <1>0
    <3>2. \A i, j \in 1 .. k : i < j => t[i] # t[j]
      BY <1>0
    <3>3. k \in Nat
      BY <1>0
    <3>4. IsFiniteSet(used)
      BY <1>1
    <3>5. f \in [used -> Nat]
      BY <1>1
    <3>6. /\ Over(f, {t[i] : i \in 1 .. n}) = f[t[n]] + Over(f, {t[i] : i \in 1 .. n - 1})
          /\ Over(f, {t[i] : i \in 1 .. n - 1}) \in Nat /\ f[t[n]] \in Nat
          /\ Over(f, {t[i] : i \in 1 .. n}) <= Over(f, used) /\ Over(f, used) \in Nat
      BY <3>1, <3>2, <3>3, <3>4, <3>5, FirstSaved
    <3> QED  BY <3>6
  <2>4. bill[m + n] = StepPrice(bill[m + (n - 1)], path[m + n])
    <3>1. bill[m + n] = StepPrice(bill[(m + n) - 1], path[m + n])
      BY <2>1 DEF IsBill
    <3> QED  BY <2>1, <3>1
  <2>5. bill[m + (n - 1)] = P - a
    BY <1>4, <2>2
  <2> DEFINE u == c.tender.covered[t[n]]
  <2>6. u \in Nat /\ path[m + n] = Node(t[n], u, x)
    BY <1>0, <1>1
  <2> HIDE DEF a, b, x, T, g, V, m, u
  <2>7. path[m + n].covered # Nil /\ path[m + n].saved = x
    BY <2>6, CatalogAssumption DEF Node
  <2>8. StepPrice(P - a, path[m + n]) = Max2(0, (P - a) - Min2(x, P - a))
    BY <2>7 DEF StepPrice
  <2>9. Max2(0, (P - a) - Min2(x, P - a)) = P - b
    BY <1>1, <2>3 DEF Max2, Min2
  <2> QED  BY <2>2, <2>4, <2>5, <2>8, <2>9
<1>5. g[k] = bill[m + k] /\ V[k] = {P - Over(f, T(k))} /\ k \in 0 .. k
  BY <1>0
<1>6. T(k) = used
  BY <1>0
<1> HIDE DEF g, V, T, m
<1>7. \A n \in 0 .. k : g[n] \in V[n]
  BY <1>0, <1>3, <1>4, Following
<1>8. bill[m + k] = P - Over(f, used)
  BY <1>5, <1>6, <1>7
<1> QED  BY <1>0, <1>1, <1>8

-----------------------------------------------------------------------------
(* What an option promises.                                                *)

\* The deals that are kept are on offer and the caller's to use.
KeptOK == kept \subseteq {i \in req.deals : OnOffer(Catalog[i]) /\ Eligible(Catalog[i])}

\* The option can be carried out and costs what it says, whatever its rank.
IsSound(r, asked) ==
  /\ LET tender == {n \in 1 .. Len(r.path) : r.path[n].covered # Nil}
     IN /\ Len(r.path) <= asked.maxDeals
        /\ \A m, n \in 1 .. Len(r.path) :
             LET i == r.path[m].deal  j == r.path[n].deal IN
             i # j => /\ Catalog[j].type \notin Catalog[i].refuses
                      /\ Catalog[i].group = Nil \/ Catalog[i].group # Catalog[j].group
        /\ \A n \in 1 .. Len(r.path) : Catalog[r.path[n].deal].status = "active"
                                     /\ Catalog[r.path[n].deal].source \in {Nil} \cup ClubSourceIds(asked.clubs)
        /\ tender # {} => SumFunction([n \in tender |-> r.path[n].covered]) <= r.bills[Min(tender)]
  /\ r.bills[Len(r.bills)] = r.ranked
  /\ \A n \in 1 .. (Len(r.bills) - 1) : r.bills[n + 1] <= r.bills[n]

\* A deal of a path is one of the chain's or one of the instruments.
LEMMA PathDeals ==
  ASSUME NEW q, ChainTable(dp, q), NEW c, IsCandidate(c), NEW path, NEW t, IsPathOf(path, c, t),
         NEW n \in 1 .. Len(path)
  PROVE  (\E v \in c.state.applied : path[n].deal = v.deal) \/ path[n].deal \in DOMAIN c.tender.covered
<1> DEFINE m == Cardinality(c.state.applied)
           k == Cardinality(DOMAIN c.tender.covered)
<1>1. m \in Nat /\ k \in Nat /\ Len(path) = m + k
  BY DEF IsPathOf
<1>2. CASE n \in 1 .. m
  <2>1. c.state \in DOMAIN dp
    BY DEF IsCandidate
  <2> DEFINE v == Walk(c.state)[m - n].last
  <2>2. v \in c.state.applied
    BY <1>2, <2>1, ChainNodes
  <2>3. path[n] = Node(v.deal, Nil, Nil)
    BY <1>2 DEF IsPathOf
  <2> HIDE DEF v
  <2>4. path[n].deal = v.deal
    BY <2>3 DEF Node
  <2> QED  BY <2>2, <2>4
<1>3. CASE n \notin 1 .. m
  <2> DEFINE i == n - m
  <2>1. i \in 1 .. k /\ n = m + i
    BY <1>1, <1>3
  <2> HIDE DEF i
  <2>2. /\ t[i] \in DOMAIN c.tender.covered
        /\ path[n] = Node(t[i], c.tender.covered[t[i]], c.tender.saved[t[i]])
    BY <2>1 DEF IsPathOf
  <2>3. path[n].deal = t[i]
    BY <2>2 DEF Node
  <2> QED  BY <2>2, <2>3
<1> QED  BY <1>2, <1>3

\* The deals of a path are kept, and each two of them fit.
LEMMA PathFits ==
  ASSUME NEW q, ChainTable(dp, q), NEW c, IsCandidate(c), NEW path, NEW t, IsPathOf(path, c, t)
  PROVE  /\ \A n \in 1 .. Len(path) : path[n].deal \in kept
         /\ \A m, n \in 1 .. Len(path) : MutuallyCompatible(path[m].deal, path[n].deal)
<1> DEFINE used == DOMAIN c.tender.covered
           s == c.state
<1>1. \A u, v \in s.applied : IsVertex(u) /\ MutuallyCompatible(u.deal, v.deal)
  BY DEF IsCandidate, ChainTable, IsState
<1>2. \A i, j \in used : i \in Instruments(s) /\ MutuallyCompatible(i, j)
  BY DEF IsCandidate, IsSplit
<1>3. \A n \in 1 .. Len(path) : (\E v \in s.applied : path[n].deal = v.deal) \/ path[n].deal \in used
  BY PathDeals
<1>4. \A i \in used : i \in kept /\ \A u \in s.applied : MutuallyCompatible(u.deal, i) /\ MutuallyCompatible(i, u.deal)
  BY <1>2, Mutual DEF Instruments
<1> HIDE DEF used, s
<1>5. \A n \in 1 .. Len(path) : path[n].deal \in kept
  BY <1>1, <1>3, <1>4 DEF IsVertex
<1>6. ASSUME NEW m \in 1 .. Len(path), NEW n \in 1 .. Len(path)
      PROVE  MutuallyCompatible(path[m].deal, path[n].deal)
  <2> DEFINE i == path[m].deal
             j == path[n].deal
  <2>1. (\E v \in s.applied : i = v.deal) \/ i \in used
    BY <1>3
  <2>2. (\E v \in s.applied : j = v.deal) \/ j \in used
    BY <1>3
  <2> HIDE DEF i, j
  <2>3. MutuallyCompatible(i, j)
    BY <1>1, <1>2, <1>4, <2>1, <2>2
  <2> QED  BY <2>3 DEF i, j
<1> QED  BY <1>5, <1>6

\* Where the instruments stand in a path.
TenderPlaces(path) == {n \in 1 .. Len(path) : path[n].covered # Nil}

\* What the instruments of a path cover is no more than the bill they are used on.
LEMMA PathCovers ==
  ASSUME NEW q, ChainTable(dp, q), NEW c, IsCandidate(c), NEW path, NEW t, IsPathOf(path, c, t),
         TenderPlaces(path) # {}
  PROVE  /\ SumFunction([n \in TenderPlaces(path) |-> path[n].covered]) <= dp[c.state].price
         /\ Min(TenderPlaces(path)) = Cardinality(c.state.applied) + 1
<1> DEFINE m == Cardinality(c.state.applied)
           used == DOMAIN c.tender.covered
           k == Cardinality(used)
           tender == TenderPlaces(path)
           f == c.tender.covered
           g == [n \in tender |-> path[n].covered]
<1>0. /\ m \in Nat /\ k \in Nat /\ Len(path) = m + k
      /\ \A n \in 1 .. m : path[n] = Node(Walk(c.state)[m - n].last.deal, Nil, Nil)
      /\ \A n \in 1 .. k : path[m + n] = Node(t[n], f[t[n]], c.tender.saved[t[n]])
      /\ \A n \in 1 .. k : t[n] \in used
      /\ \A i, j \in 1 .. k : i < j => t[i] # t[j]
      /\ {t[n] : n \in 1 .. k} = used
  BY DEF IsPathOf
<1>1. IsFiniteSet(used) /\ f \in [used -> Nat] /\ Over(f, used) <= dp[c.state].price
  BY DEF IsCandidate, IsSplit
<1> HIDE DEF f, used, k, m, tender
<1>20. \A d, x, y : Node(d, x, y).covered = x
  BY DEF Node
<1>2. \A n \in 1 .. m : path[n].covered = Nil
  BY <1>0, <1>20
<1>3. \A n \in 1 .. k : path[m + n].covered = f[t[n]]
  BY <1>0, <1>20
<1>4. \A n \in 1 .. k : path[m + n].covered \in Nat
  BY <1>0, <1>1, <1>3
<1>5. \A n \in 1 .. Len(path) : n \in 1 .. m \/ \E i \in 1 .. k : n = m + i
  <2> SUFFICES ASSUME NEW n \in 1 .. Len(path), n \notin 1 .. m PROVE \E i \in 1 .. k : n = m + i
    OBVIOUS
  <2>1. n - m \in 1 .. k /\ n = m + (n - m)
    BY <1>0
  <2> QED  BY <2>1
<1>6. tender = m + 1 .. m + k
  <2>1. \A n \in tender : n \in m + 1 .. m + k
    <3> SUFFICES ASSUME NEW n \in tender PROVE n \in m + 1 .. m + k
      OBVIOUS
    <3>1. PICK i \in 1 .. k : n = m + i
      BY <1>2, <1>5 DEF tender, TenderPlaces
    <3> QED  BY <1>0, <3>1
  <2>2. \A n \in m + 1 .. m + k : n \in tender
    <3> SUFFICES ASSUME NEW n \in m + 1 .. m + k PROVE n \in tender
      OBVIOUS
    <3>1. n \in 1 .. Len(path) /\ n - m \in 1 .. k /\ m + (n - m) = n
      BY <1>0
    <3>2. path[n].covered \in Nat
      BY <1>4, <3>1
    <3> QED  BY <3>1, <3>2, CatalogAssumption DEF tender, TenderPlaces
  <2> QED  BY <2>1, <2>2
<1>7. IsFiniteSet(tender) /\ g \in [tender -> Nat] /\ \A i \in 1 .. k : g[m + i] = f[t[i]]
  <2>1. IsFiniteSet(tender)
    <3>1. IsFiniteSet(m + 1 .. m + k)
      BY <1>0, FS_Interval
    <3> QED  BY <1>6, <3>1
  <2>2. \A n \in tender : path[n].covered \in Nat
    <3> SUFFICES ASSUME NEW n \in tender PROVE path[n].covered \in Nat
      OBVIOUS
    <3>1. PICK i \in 1 .. k : n = m + i
      BY <1>2, <1>5 DEF tender, TenderPlaces
    <3> QED  BY <1>4, <3>1
  <2>3. \A i \in 1 .. k : m + i \in tender
    BY <1>0, <1>6
  <2> QED  BY <1>3, <2>1, <2>2, <2>3
<1> HIDE DEF g
<1>8. Over(g, tender) = Over(f, used)
  <2>1. OnceEach(t, k, used)
    BY <1>0 DEF OnceEach
  <2>2. InARow(g, tender, m, k, f, t)
    BY <1>6, <1>7 DEF InARow
  <2>3. m \in Nat /\ k \in Nat
    BY <1>0
  <2>4. IsFiniteSet(used)
    BY <1>1
  <2>5. f \in [used -> Nat]
    BY <1>1
  <2>6. g \in [tender -> Nat]
    BY <1>7
  <2>7. Over(g, tender) = Over(f, {t[i] : i \in 1 .. k})
    BY <2>1, <2>2, <2>3, <2>4, <2>5, <2>6, AlongARow
  <2> QED  BY <1>0, <2>7
<1>9. SumFunction(g) = Over(g, tender)
  BY <1>7, NatSum
<1>10. SumFunction(g) <= dp[c.state].price
  BY <1>1, <1>8, <1>9
<1>11. Min(tender) = m + 1
  <2>0. tender # {}
    BY DEF tender
  <2>3. k # 0
    BY <1>0, <1>6, <2>0
  <2>1. tender \subseteq Int /\ m + 1 \in tender /\ \A n \in tender : m + 1 <= n
    BY <1>0, <1>6, <2>3
  <2> DEFINE least == m + 1
  <2>2. least \in tender /\ \A n \in tender : least <= n
    BY <2>1
  <2>4. tender \subseteq Int
    BY <2>1
  <2> HIDE DEF least
  <2>5. Min(tender) = least
    BY <2>2, <2>4, LeastOf
  <2> QED  BY <2>5 DEF least
<1> QED  BY <1>10, <1>11 DEF g, m, tender

\* Deals that fit each other refuse each other in nothing and are no two tiers of one card.
LEMMA FitRefusesNothing ==
  ASSUME NEW i \in DOMAIN Catalog, NEW j \in DOMAIN Catalog, i # j, MutuallyCompatible(i, j)
  PROVE  /\ Catalog[j].type \notin Catalog[i].refuses
         /\ Catalog[i].group = Nil \/ Catalog[i].group # Catalog[j].group
<1>1. Accepts(Catalog[i], Catalog[j].type) /\ (Catalog[i].group = Nil \/ Catalog[i].group # Catalog[j].group)
  BY DEF MutuallyCompatible
<1>2. IsDeal(Catalog[i])
  BY CatalogAssumption
<1>3. Catalog[i].accepts \cap Catalog[i].refuses = {}
  BY <1>2 DEF IsDeal
<1>4. Catalog[j].type \in Catalog[i].accepts \/ Catalog[j].type \notin Catalog[i].refuses
  BY <1>1 DEF Accepts
<1> QED  BY <1>1, <1>3, <1>4

\* Kept deals are active, and of a source the caller belongs to.
LEMMA KeptAreUsable ==
  ASSUME KeptOK, req \in Queries, NEW i \in kept
  PROVE  /\ i \in DOMAIN Catalog /\ Catalog[i].status = "active"
         /\ Catalog[i].source \in {Nil} \cup ClubSourceIds(req.clubs)
<1>1. i \in req.deals /\ OnOffer(Catalog[i]) /\ Eligible(Catalog[i])
  BY DEF KeptOK
<1>2. i \in DOMAIN Catalog /\ req.requireSource
  BY <1>1, QueriesAssumption
<1>3. IsDeal(Catalog[i])
  BY <1>2, CatalogAssumption
<1> QED  BY <1>1, <1>2, <1>3 DEF IsDeal, OnOffer, Eligible

\* What is built from a candidate is sound.
LEMMA BuiltSound ==
  ASSUME NEW q, ChainTable(dp, q), KeptOK, req \in Queries, NEW c, IsCandidate(c)
  PROVE  IsSound(BuildResult(c), req) /\ BuildResult(c).ranked = c.price
<1> DEFINE path == Path(c)
           bill == Bills(path)
           N == Len(path)
           bills == [n \in 1 .. (N + 1) |-> bill[n - 1]]
           r == BuildResult(c)
           m == Cardinality(c.state.applied)
           k == Cardinality(DOMAIN c.tender.covered)
           tender == TenderPlaces(path)
<1>1. r.path = path /\ r.ranked = c.price /\ r.bills = bills
  BY DEF BuildResult
<1>2. PICK t : IsPathOf(path, c, t)
  BY PathShape
<1> HIDE DEF path
<1>3. m \in Nat /\ k \in Nat /\ N = m + k /\ N \in Nat
  BY <1>2 DEF IsPathOf
<1>4. req.cart \in Nat /\ req.maxDeals \in Nat /\ kept \subseteq DOMAIN Catalog
  BY KeptAreUsable, QueriesAssumption
<1>5. \A n \in 1 .. N : IsNode(path[n])
  BY <1>2, <1>4, PathNodes
<1>6. IsBill(bill, path)
  BY <1>3, <1>4, <1>5, BillsFollow
<1> HIDE DEF bill
<1>7. bill[m] = dp[c.state].price /\ bill[N] = c.price
  BY <1>2, <1>6, ChainBill, TenderBill
<1>8. Len(bills) = N + 1 /\ \A n \in 1 .. N + 1 : bills[n] = bill[n - 1]
  BY <1>3
<1>9. bills[Len(bills)] = c.price
  <2>1. N + 1 \in 1 .. N + 1 /\ (N + 1) - 1 = N
    BY <1>3
  <2> QED  BY <1>7, <1>8, <2>1
<1>10. ASSUME NEW n \in 1 .. (Len(bills) - 1) PROVE bills[n + 1] <= bills[n]
  <2>1. n \in 1 .. N /\ n \in 1 .. N + 1 /\ n + 1 \in 1 .. N + 1 /\ (n + 1) - 1 = n
    BY <1>3, <1>8
  <2>2. bill[n] <= bill[n - 1]
    BY <1>6, <2>1 DEF IsBill
  <2> QED  BY <1>8, <2>1, <2>2
<1> HIDE DEF bills
<1>11. N <= req.maxDeals
  <2>1. m <= req.maxDeals
    BY DEF IsCandidate, ChainTable, IsState
  <2>2. k <= Max2(0, req.maxDeals - m)
    BY DEF IsCandidate, IsSplit
  <2> HIDE DEF m, k
  <2> QED  BY <1>3, <1>4, <2>1, <2>2 DEF Max2
<1>12. /\ \A n \in 1 .. N : path[n].deal \in kept
       /\ \A a, b \in 1 .. N : MutuallyCompatible(path[a].deal, path[b].deal)
  BY <1>2, PathFits
<1>13. ASSUME NEW n \in 1 .. N
       PROVE  /\ path[n].deal \in DOMAIN Catalog /\ Catalog[path[n].deal].status = "active"
              /\ Catalog[path[n].deal].source \in {Nil} \cup ClubSourceIds(req.clubs)
  <2>1. PICK i \in kept : i = path[n].deal
    BY <1>12
  <2>2. /\ i \in DOMAIN Catalog /\ Catalog[i].status = "active"
        /\ Catalog[i].source \in {Nil} \cup ClubSourceIds(req.clubs)
    BY KeptAreUsable
  <2> QED  BY <2>1, <2>2
<1>14. ASSUME NEW a \in 1 .. N, NEW b \in 1 .. N, path[a].deal # path[b].deal
       PROVE  /\ Catalog[path[b].deal].type \notin Catalog[path[a].deal].refuses
              /\ \/ Catalog[path[a].deal].group = Nil
                 \/ Catalog[path[a].deal].group # Catalog[path[b].deal].group
  <2>1. PICK i \in DOMAIN Catalog : i = path[a].deal
    BY <1>13
  <2>2. PICK j \in DOMAIN Catalog : j = path[b].deal
    BY <1>13
  <2>3. i # j /\ MutuallyCompatible(i, j)
    BY <1>12, <1>14, <2>1, <2>2
  <2>4. Catalog[j].type \notin Catalog[i].refuses /\ (Catalog[i].group = Nil \/ Catalog[i].group # Catalog[j].group)
    BY <2>3, FitRefusesNothing
  <2> QED  BY <2>1, <2>2, <2>4
<1>15. ASSUME tender # {} PROVE SumFunction([n \in tender |-> path[n].covered]) <= bills[Min(tender)]
  <2>1. /\ SumFunction([n \in tender |-> path[n].covered]) <= dp[c.state].price
        /\ Min(tender) = m + 1
    BY <1>2, <1>15, PathCovers
  <2>2. m + 1 \in 1 .. N + 1 /\ (m + 1) - 1 = m
    BY <1>3
  <2>3. bills[m + 1] = dp[c.state].price
    BY <1>7, <1>8, <2>2
  <2> QED  BY <2>1, <2>3
<1>16. tender = {n \in 1 .. Len(path) : path[n].covered # Nil}
  BY DEF TenderPlaces
<1> DEFINE Fits(p, a, b) == p[a].deal # p[b].deal =>
                              /\ Catalog[p[b].deal].type \notin Catalog[p[a].deal].refuses
                              /\ \/ Catalog[p[a].deal].group = Nil
                                 \/ Catalog[p[a].deal].group # Catalog[p[b].deal].group
<1>17. \A a, b \in 1 .. Len(path) : Fits(path, a, b)
  BY <1>14
<1> HIDE DEF r, tender, m, k
<1>18. IsSound(r, req)
  BY <1>1, <1>9, <1>10, <1>11, <1>13, <1>15, <1>16, <1>17 DEF IsSound
<1> QED  BY <1>1, <1>18 DEF r

-----------------------------------------------------------------------------
(* The phases.                                                             *)

\* The options so far are sound, and come cheapest first.
ResultsSound ==
  \A k \in 1 .. Len(results) : IsSound(results[k], req) /\ (k > 1 => results[k - 1].ranked <= results[k].ranked)

\* What a request has made so far, phase by phase.
OptimizerInv ==
  /\ req \in Queries /\ KeptOK
  /\ stage \in {"chain", "tender"} => /\ \A v \in queue : IsVertex(v)
                                      /\ ChainTable(dp, queue)
  /\ stage = "tender" => \A c \in pool : IsCandidate(c)
  /\ ResultsSound

\* A request starts with nothing kept, nothing reached and nothing offered.
LEMMA OptimizerInvInit == OptimizerInit => OptimizerInv
<1> SUFFICES ASSUME OptimizerInit PROVE OptimizerInv
  OBVIOUS
<1>1. req \in Queries /\ kept = {} /\ stage = "load" /\ results = <<>>
  BY DEF OptimizerInit
<1>2. Len(results) = 0
  BY <1>1
<1> QED  BY <1>1, <1>2 DEF OptimizerInv, KeptOK, ResultsSound

\* What is kept, what stands in the table and what is reported are of the request alone.
LEMMA SameRequest ==
  ASSUME req' = req, KeptOK, kept' = kept, results' = results, ResultsSound
  PROVE  KeptOK' /\ ResultsSound'
<1>1. KeptOK'
  BY DEF KeptOK, OnOffer, Eligible
<1>2. ResultsSound'
  BY DEF ResultsSound
<1> QED  BY <1>1, <1>2

\* A table that is carried over, or set, is still one.
LEMMA TableStays ==
  ASSUME req' = req, kept' = kept, ChainTable(dp', queue')
  PROVE  ChainTable(dp, queue)'
BY DEF ChainTable, IsState, IsVertex, GrownFrom, ApplyDeal, ConditionMet, MutuallyCompatible, Accepts

\* The request is admitted, or refused.
LEMMA AdmitKeeps ==
  ASSUME OptimizerInv, Admit
  PROVE  OptimizerInv'
<1>1. req' = req /\ results' = results /\ stage = "load" /\ req \in Queries /\ KeptOK /\ ResultsSound
  BY DEF Admit, OptimizerInv
<1>2. CASE req.clubs = Nil
  <2>1. kept' = kept /\ stage' = "refused"
    BY <1>2 DEF Admit
  <2>2. KeptOK' /\ ResultsSound'
    BY <1>1, <2>1, SameRequest
  <2> QED  BY <1>1, <2>1, <2>2 DEF OptimizerInv
<1>3. CASE req.clubs # Nil
  <2>1. /\ stage' = "chain"
        /\ kept' = {i \in req.deals : OnOffer(Catalog[i]) /\ Eligible(Catalog[i])}
        /\ queue' = BuildVertices({i \in kept' : Catalog[i].type \in ChainCategories})
        /\ dp' = Unchained(req.cart)
    BY <1>3 DEF Admit
  <2>2. KeptOK'
    BY <1>1, <2>1 DEF KeptOK, OnOffer, Eligible
  <2>3. ResultsSound'
    BY <1>1 DEF ResultsSound
  <2>4. \A v \in queue' : v.deal \in kept' /\ Catalog[v.deal].type \in ChainCategories
    BY <2>1 DEF BuildVertices
  <2>5. (\A v \in queue : IsVertex(v))'
    BY <2>4 DEF IsVertex
  <2>6. DOMAIN dp' = {Start} /\ dp'[Start].price = req.cart
    <3> DEFINE r == [price |-> req.cart, prev |-> Nil]
    <3>2. dp' = [x \in {Start} |-> r]
      BY <2>1 DEF Unchained
    <3>3. r.price = req.cart
      OBVIOUS
    <3> HIDE DEF r
    <3> QED  BY <3>2, <3>3
  <2>7. req.cart \in Nat /\ req.maxDeals \in Nat
    BY <1>1, QueriesAssumption
  <2>8. IsFiniteSet({}) /\ Cardinality({}) = 0
    BY FS_EmptySet
  <2>9. Start.applied = {} /\ Start = [last |-> Start.last, applied |-> Start.applied]
    BY DEF Start
  <2>10. IsState(Start)'
    BY <1>1, <2>7, <2>8, <2>9 DEF IsState
  <2>11. ChainTable(dp, queue)'
    BY <1>1, <2>6, <2>7, <2>10 DEF ChainTable
  <2> QED  BY <1>1, <2>1, <2>2, <2>3, <2>5, <2>11 DEF OptimizerInv
<1> QED  BY <1>2, <1>3

\* One vertex is swept.
LEMMA SweepKeeps ==
  ASSUME OptimizerInv, Sweep
  PROVE  OptimizerInv'
<1>1. /\ req' = req /\ results' = results /\ kept' = kept /\ stage = "chain" /\ stage' = "chain"
      /\ req \in Queries /\ KeptOK /\ ResultsSound /\ (\A v \in queue : IsVertex(v)) /\ ChainTable(dp, queue)
  BY DEF Sweep, OptimizerInv
<1>2. PICK v \in queue : dp' = Extend(v) /\ queue' = queue \ {v}
  BY DEF Sweep
<1>3. kept \subseteq DOMAIN Catalog /\ req.maxDeals \in Nat
  BY <1>1, KeptAreUsable, QueriesAssumption
<1>4. ChainTable(Extend(v), queue \ {v})
  BY <1>1, <1>3, SweptTable
<1>5. ChainTable(dp', queue')
  BY <1>2, <1>4
<1>6. ChainTable(dp, queue)'
  BY <1>1, <1>5, TableStays
<1>7. (\A u \in queue : IsVertex(u))'
  BY <1>1, <1>2 DEF IsVertex
<1>8. KeptOK' /\ ResultsSound'
  BY <1>1, SameRequest
<1> QED  BY <1>1, <1>6, <1>7, <1>8 DEF OptimizerInv

\* Every state is finished by its best splits.
LEMMA AllocateKeeps ==
  ASSUME OptimizerInv, Allocate
  PROVE  OptimizerInv'
<1> DEFINE tenders == {i \in kept : Catalog[i].type \in TenderCategories}
           eligible(s) == {i \in tenders : \A u \in s.applied : MutuallyCompatible(u.deal, i)}
           budget(s) == Max2(0, req.maxDeals - Cardinality(s.applied))
           best == {s \in DOMAIN dp : \A t \in DOMAIN dp : t.applied = s.applied => dp[s].price <= dp[t].price}
           outcome(s, a) == [price |-> dp[s].price - a.total, state |-> s, tender |-> a]
<1>1. /\ req' = req /\ results' = results /\ kept' = kept /\ dp' = dp /\ queue' = queue
      /\ stage = "chain" /\ stage' = "tender"
      /\ req \in Queries /\ KeptOK /\ ResultsSound /\ (\A v \in queue : IsVertex(v)) /\ ChainTable(dp, queue)
  BY DEF Allocate, OptimizerInv
<1>2. pool' = UNION {{outcome(s, a) : a \in AllocateTenderTopK(dp[s].price, eligible(s), budget(s))} : s \in best}
  BY DEF Allocate
<1>3. kept \subseteq DOMAIN Catalog /\ IsFiniteSet(kept) /\ req.maxDeals \in Nat
  <2>1. req.deals \subseteq DOMAIN Catalog /\ IsFiniteSet(req.deals) /\ req.maxDeals \in Nat
    BY <1>1, QueriesAssumption
  <2>2. kept \subseteq req.deals
    BY <1>1 DEF KeptOK
  <2> QED  BY <2>1, <2>2, FS_Subset
<1>4. ASSUME NEW c \in pool' PROVE IsCandidate(c)
  <2>1. PICK s \in best : \E a \in AllocateTenderTopK(dp[s].price, eligible(s), budget(s)) : c = outcome(s, a)
    <3> HIDE DEF best, outcome, budget, eligible
    <3> QED  BY <1>2
  <2>9. eligible(s) = Instruments(s)
    BY DEF Instruments
  <2>2. PICK a \in AllocateTenderTopK(dp[s].price, Instruments(s), budget(s)) : c = outcome(s, a)
    <3> HIDE DEF best, outcome, budget, eligible
    <3> QED  BY <2>1, <2>9
  <2>3. s \in DOMAIN dp
    OBVIOUS
  <2>4. dp[s].price \in Nat /\ IsFiniteSet(s.applied)
    BY <1>1, <2>3 DEF ChainTable, IsState
  <2>5. budget(s) \in Nat
    <3>1. Cardinality(s.applied) \in Nat
      BY <2>4, FS_CardinalityType
    <3> QED  BY <1>3, <3>1 DEF Max2
  <2>6. Instruments(s) \subseteq DOMAIN Catalog /\ IsFiniteSet(Instruments(s))
    <3>1. Instruments(s) \subseteq kept
      BY DEF Instruments
    <3> QED  BY <1>3, <3>1, FS_Subset
  <2> DEFINE b == budget(s)
             P == dp[s].price
             I == Instruments(s)
  <2>7. IsSplit(a, P, I, b) /\ a.total \in 0 .. P
    <3>1. P \in Nat /\ b \in Nat /\ I \subseteq DOMAIN Catalog /\ IsFiniteSet(I) /\ a \in AllocateTenderTopK(P, I, b)
      BY <2>4, <2>5, <2>6
    <3> HIDE DEF P, b, I
    <3> QED  BY <3>1, TopAreSplits
  <2>8. c.state = s /\ c.tender = a /\ c.price = P - a.total
    BY <2>2
  <2> QED  BY <2>3, <2>7, <2>8 DEF IsCandidate
<1>5. (\A c \in pool : IsCandidate(c))'
  BY <1>1, <1>4 DEF IsCandidate, IsSplit, Instruments, MutuallyCompatible, Accepts
<1>6. ChainTable(dp, queue)'
  BY <1>1, TableStays
<1>7. (\A v \in queue : IsVertex(v))'
  BY <1>1 DEF IsVertex
<1>8. KeptOK' /\ ResultsSound'
  BY <1>1, SameRequest
<1> QED  BY <1>1, <1>5, <1>6, <1>7, <1>8 DEF OptimizerInv

\* The candidates are ranked, and priced again.
LEMMA RankKeeps ==
  ASSUME OptimizerInv, Rank
  PROVE  OptimizerInv'
<1> DEFINE key(c) == DedupKey(c)
           outcomes == {CHOOSE c \in pool : key(c) = x : x \in {key(c) : c \in pool}}
           cost == [c \in outcomes |-> c.price]
           ranked == FirstBy(outcomes, TopN, cost)
<1>1. /\ req' = req /\ kept' = kept /\ stage = "tender" /\ stage' = "done" /\ results' = Results(ranked)
      /\ req \in Queries /\ KeptOK /\ ChainTable(dp, queue) /\ \A c \in pool : IsCandidate(c)
  BY DEF Rank, OptimizerInv
<1>2. outcomes \subseteq pool
  OBVIOUS
<1>3. \A c \in outcomes : IsCandidate(c)
  BY <1>1, <1>2
<1>4. ASSUME NEW c \in outcomes PROVE cost[c] = c.price /\ cost[c] \in Int /\ 0 <= cost[c]
  <2>1. IsCandidate(c)
    BY <1>3
  <2>2. c.price = dp[c.state].price - c.tender.total /\ c.tender.total \in 0 .. dp[c.state].price
        /\ dp[c.state].price \in Nat
    BY <1>1, <2>1 DEF IsCandidate, ChainTable
  <2>3. cost[c] = c.price
    OBVIOUS
  <2> HIDE DEF cost, outcomes
  <2> QED  BY <2>2, <2>3
<1>5. RankedIn(ranked, outcomes, cost, TopN)
  <2>1. \A c \in outcomes : cost[c] \in Int /\ 0 <= cost[c]
    BY <1>4
  <2>2. 0 \in Int /\ TopN \in Nat
    BY QueriesAssumption
  <2> HIDE DEF outcomes, cost
  <2>3. \A T \in SUBSET outcomes : T # {} => \E x \in T : \A y \in T : cost[x] <= cost[y]
    BY <2>1, <2>2, Bounded
  <2> QED  BY <2>2, <2>3, FirstAreRanked
<1> HIDE DEF outcomes, cost, ranked
<1>6. ranked \in Seq(outcomes) /\ \A i, j \in 1 .. Len(ranked) : i < j => cost[ranked[i]] <= cost[ranked[j]]
  BY <1>5 DEF RankedIn
<1>7. Len(results') = Len(ranked) /\ \A k \in 1 .. Len(ranked) : results'[k] = BuildResult(ranked[k])
  BY <1>1, <1>6 DEF Results
<1>8. ASSUME NEW k \in 1 .. Len(ranked)
      PROVE  IsSound(results'[k], req) /\ results'[k].ranked = cost[ranked[k]]
  <2>1. ranked[k] \in outcomes
    BY <1>6
  <2>2. IsCandidate(ranked[k])
    BY <1>3, <2>1
  <2>3. IsSound(BuildResult(ranked[k]), req) /\ BuildResult(ranked[k]).ranked = ranked[k].price
    BY <1>1, <2>2, BuiltSound
  <2> QED  BY <1>4, <1>7, <2>1, <2>3
<1>9. ASSUME NEW k \in 1 .. Len(ranked), k > 1 PROVE results'[k - 1].ranked <= results'[k].ranked
  <2>1. k - 1 \in 1 .. Len(ranked) /\ k - 1 < k
    BY <1>6, <1>9
  <2> QED  BY <1>6, <1>8, <2>1
<1>10. ResultsSound'
  BY <1>1, <1>7, <1>8, <1>9 DEF ResultsSound
<1>11. KeptOK'
  BY <1>1 DEF KeptOK, OnOffer, Eligible
<1> QED  BY <1>1, <1>10, <1>11 DEF OptimizerInv

\* Every phase of a request keeps the invariant, the sweep once for each vertex.
LEMMA OptimizerInvStep == OptimizerInv /\ [OptimizerNext]_optimizerVars => OptimizerInv'
<1> SUFFICES ASSUME OptimizerInv, [OptimizerNext]_optimizerVars PROVE OptimizerInv'
  OBVIOUS
<1>1. CASE Admit
  BY <1>1, AdmitKeeps
<1>2. CASE Sweep
  BY <1>2, SweepKeeps
<1>3. CASE Allocate
  BY <1>3, AllocateKeeps
<1>4. CASE Rank
  BY <1>4, RankKeeps
<1>5. CASE Respond \/ UNCHANGED optimizerVars
  <2>1. /\ req' = req /\ results' = results /\ kept' = kept /\ dp' = dp /\ queue' = queue /\ pool' = pool /\ stage' = stage
    BY <1>5 DEF Respond, optimizerVars
  <2>2. KeptOK' /\ ResultsSound'
    BY <2>1, SameRequest DEF OptimizerInv
  <2>3. ASSUME stage \in {"chain", "tender"} PROVE ChainTable(dp, queue)' /\ (\A v \in queue : IsVertex(v))'
    <3>1. ChainTable(dp, queue) /\ \A v \in queue : IsVertex(v)
      BY <2>3 DEF OptimizerInv
    <3>2. ChainTable(dp', queue')
      BY <2>1, <3>1
    <3> QED  BY <2>1, <3>1, <3>2, TableStays DEF IsVertex
  <2>4. ASSUME stage = "tender" PROVE (\A c \in pool : IsCandidate(c))'
    <3>1. \A c \in pool : IsCandidate(c)
      BY <2>4 DEF OptimizerInv
    <3> QED  BY <2>1, <3>1 DEF IsCandidate, IsSplit, Instruments, MutuallyCompatible, Accepts
  <2> QED  BY <2>1, <2>2, <2>3, <2>4 DEF OptimizerInv
<1> QED  BY <1>1, <1>2, <1>3, <1>4, <1>5 DEF OptimizerNext

\* Every option can be carried out within the budget and costs what it says (Rank, BuildResult).
THEOREM SoundOptions == OptimizerSpec => []OptionsAreSound
<1>1. OptimizerInv => OptionsAreSound
  <2> SUFFICES ASSUME ResultsSound PROVE OptionsAreSound
    BY DEF OptimizerInv
  <2>1. OptionsAreExecutable
    BY DEF ResultsSound, IsSound, OptionsAreExecutable
  <2>2. ReportedPriceIsRankedPrice
    BY DEF ResultsSound, IsSound, ReportedPriceIsRankedPrice
  <2> QED  BY <2>1, <2>2 DEF OptionsAreSound
<1> QED  BY <1>1, OptimizerInvInit, OptimizerInvStep, PTL DEF OptimizerSpec
=============================================================================
