------------------------------ MODULE BankFeed ------------------------------
(***************************************************************************)
(* How the personalization service answers one user's requests: the client *)
(* of the Open Finance API with its token cache, its lock and its single   *)
(* retry, the calls made in parallel for the user's accounts, and the      *)
(* routes built on them.                                                   *)
(*                                                                         *)
(* The service is one asyncio process, so a request runs undisturbed from  *)
(* one await to the next.  Every await is a point where another request,   *)
(* the bank, or the deletion of the user may come in.                      *)
(***************************************************************************)
EXTENDS Naturals, FiniteSets, Sequences

CONSTANTS
  Requests,      \* the requests made
  Accounts,      \* the user's bank accounts
  Routes,        \* the routes each request may ask for
  Pages,         \* the pages of transactions the bank holds of each account
  MaxRevoked,    \* bound: tokens the bank revokes
  MaxExpired,    \* bound: tokens that reach the expiry the client reckons
  MaxFaults,     \* bound: answers of the bank that are faults
  None

ASSUME BankFeedAssumption ==
  /\ Pages \in [Accounts -> Nat \ {0}]
  /\ Accounts # {}
  /\ DOMAIN Routes = Requests
  /\ {MaxRevoked, MaxExpired, MaxFaults} \subseteq Nat

VARIABLES
  registered,   \* whether the users collection holds the user
  cached,       \* the newest token received, or None; tokens are numbered as issued
  issued,       \* how many tokens the bank has issued
  revoked,      \* the tokens the bank no longer takes
  expired,      \* the tokens past the expiry the client stored with them
  holder,       \* the call that holds _token_lock, or None
  waiting,      \* the calls waiting for the lock, first come first
  call,         \* every call to the bank: where it is, its token, the tokens refused
  request,      \* every request: its route and next step, the rows it has, its error or None
  faults        \* how many faults the bank has answered with

vars == <<registered, cached, issued, revoked, expired, holder, waiting, call, request, faults>>
tokenVars == <<cached, issued, holder, waiting>>

-----------------------------------------------------------------------------
(* The routes: what each awaits, in order.                                 *)

\* OpenFinanceService.  All transactions are the accounts first, and then those of every
\* account at once.
AccessToken == <<"token">>
UserAccounts == <<"accounts">>
OneAccount == <<"one">>
AllTransactions == UserAccounts \o <<"transactions">>

\* InsightsService and RecommendationService.  Categories stop early when the user is not
\* registered; savings read the user's clubs once the transactions are there; club
\* matching reads the stored tags and clubs and never calls the bank.
Categories == <<"user">> \o AllTransactions
Spending == AllTransactions
Totals == AllTransactions
Savings == AllTransactions \o <<"user">>
Clubs == <<"user", "user">>

\* The handlers of the two controllers: each answers with one method of a service, or
\* lets its error out.
calculate_user_categories == Categories
calculate_top_accounts == Spending
calculate_top_stores == Spending
calculate_spending_by_day_in_week == Spending
calculate_spending_difference_between_two_periods == Spending
calculate_spending_total == Totals
calculate_spending_saved == Totals
calculate_spending_saved_by_account == Totals
matching_clubs == Clubs
savings_opportunities == Savings
get_user_access_token == AccessToken
get_user_accounts == UserAccounts
get_user_transactions_by_account == OneAccount
get_user_transactions == AllTransactions

Steps ==
  [categories     |-> calculate_user_categories,
   topAccounts    |-> calculate_top_accounts,
   topStores      |-> calculate_top_stores,
   byDay          |-> calculate_spending_by_day_in_week,
   difference     |-> calculate_spending_difference_between_two_periods,
   total          |-> calculate_spending_total,
   saved          |-> calculate_spending_saved,
   savedByAccount |-> calculate_spending_saved_by_account,
   clubs          |-> matching_clubs,
   savings        |-> savings_opportunities,
   token          |-> get_user_access_token,
   accounts       |-> get_user_accounts,
   byAccount      |-> get_user_transactions_by_account,
   transactions   |-> get_user_transactions]

Plan(r) == Steps[request[r].route]

\* A request is for a route there is.
ASSUME RoutesAssumption == \A r \in Requests : Routes[r] \subseteq DOMAIN Steps

-----------------------------------------------------------------------------
Token == "token"
Listing == "accounts"
Items == Accounts \cup {Token, Listing}
Calls == Requests \X Items

\* Python's None is neither a token nor a call.
ASSUME NoneAssumption == None \notin Nat /\ None \notin Calls

Ended(r) == request[r].error # None \/ request[r].at > Len(Plan(r))

\* What the client sees of an error that a handler lets out: the exception handlers of
\* main.py.  A refusal of the bank is a bad gateway; a token answer without a token is a
\* ValueError, which is taken for a bad request; the timeouts of httpx have no handler.
Status(error) ==
  CASE error = "notRegistered" -> 404
    [] error = "noToken"       -> 400
    [] error = "refused"       -> 502
    [] error = "timedOut"      -> 500
    [] error = None            -> 200

Step(r) == Plan(r)[request[r].at]

\* The calls a step makes.  By account it is one account, chosen by the caller.
CallsOf(r) ==
  CASE Step(r) = "token"        -> {<<r, Token>>}
    [] Step(r) = "accounts"     -> {<<r, Listing>>}
    [] Step(r) = "one"          -> {<<r, CHOOSE a \in Accounts : TRUE>>}
    [] Step(r) = "transactions" -> {<<r, a>> : a \in Accounts}
    [] OTHER                    -> {}

Idle == [pc |-> "idle", token |-> None, refused |-> {}, error |-> None]

\* The retry forgets which token was refused, and takes what the cache holds.
Usable_forgets(c) == cached # None /\ cached \notin expired

\* _is_usable: there, not expired, and not the one the bank just refused this call.
Usable(c) == cached # None /\ cached \notin expired /\ cached \notin call[c].refused

\* Past the token: a request with it, or the answer when the token was all.
Carry(c, t) ==
  call' = [call EXCEPT ![c] = IF c[2] = Token THEN [Idle EXCEPT !.pc = "done"]
                                             ELSE [@ EXCEPT !.pc = "sent", !.token = t]]

\* What one page holds is what normalize_data returns; nextPage is read by nothing.
Batch(a) == {<<a, 1>>}

-----------------------------------------------------------------------------
(* A call: token, request, and at most one retry.                          *)

\* get_access_token before and inside the lock.  A free lock is taken without
\* yielding, so the second look is for those that had to wait.
TakeToken(c) ==
  /\ call[c].pc = "ready"
  /\ \/ Usable(c) /\ Carry(c, cached) /\ UNCHANGED <<holder, waiting>>
     \/ /\ ~Usable(c) /\ holder = None /\ waiting = <<>>
        /\ holder' = c
        /\ call' = [call EXCEPT ![c].pc = "posting"]
        /\ UNCHANGED waiting
     \/ /\ ~Usable(c) /\ (holder # None \/ waiting # <<>>)
        /\ waiting' = Append(waiting, c)
        /\ call' = [call EXCEPT ![c].pc = "waiting"]
        /\ UNCHANGED holder
  /\ UNCHANGED <<registered, cached, issued, revoked, expired, request, faults>>

Wake_looksOnce(c) ==
  /\ waiting # <<>> /\ Head(waiting) = c /\ holder = None
  /\ waiting' = Tail(waiting)
  /\ holder' = c /\ call' = [call EXCEPT ![c].pc = "posting"]
  /\ UNCHANGED <<registered, cached, issued, revoked, expired, request, faults>>

Wake(c) ==
  /\ waiting # <<>> /\ Head(waiting) = c /\ holder = None
  /\ waiting' = Tail(waiting)
  /\ IF Usable(c)
       THEN Carry(c, cached) /\ UNCHANGED holder
       ELSE holder' = c /\ call' = [call EXCEPT ![c].pc = "posting"]
  /\ UNCHANGED <<registered, cached, issued, revoked, expired, request, faults>>

TokenArrives(c) ==
  /\ call[c].pc = "posting"
  /\ issued' = issued + 1 /\ cached' = issued'
  /\ holder' = None
  /\ Carry(c, issued')
  /\ UNCHANGED <<registered, revoked, expired, waiting, request, faults>>

\* The call ends in an error; leaving the lock's block frees it.
FailCall(c, error) ==
  call' = [call EXCEPT ![c] = [Idle EXCEPT !.pc = "failed", !.error = error]]

TokenFails_keepsLock(c) ==
  /\ call[c].pc = "posting" /\ faults < MaxFaults
  /\ faults' = faults + 1
  /\ \E error \in {"refused", "timedOut", "noToken"} : FailCall(c, error)
  /\ UNCHANGED <<registered, cached, issued, revoked, expired, holder, waiting, request>>

\* An HTTP error, a timeout, or an answer without an access token.
TokenFails(c) ==
  /\ call[c].pc = "posting" /\ faults < MaxFaults
  /\ faults' = faults + 1
  /\ \E error \in {"refused", "timedOut", "noToken"} : FailCall(c, error)
  /\ holder' = None
  /\ UNCHANGED <<registered, cached, issued, revoked, expired, waiting, request>>

BankAccepts(c) ==
  /\ call[c].pc = "sent" /\ call[c].token \notin revoked
  /\ call' = [call EXCEPT ![c] = [Idle EXCEPT !.pc = "done"]]
  /\ UNCHANGED <<registered, cached, issued, revoked, expired, holder, waiting, request, faults>>

\* The first refusal asks for another token and tries again; the second is raised.
BankRefuses(c) ==
  /\ call[c].pc = "sent" /\ call[c].token \in revoked
  /\ IF call[c].refused = {}
       THEN call' = [call EXCEPT ![c] = [Idle EXCEPT !.pc = "ready", !.refused = {call[c].token}]]
       ELSE FailCall(c, "refused")
  /\ UNCHANGED <<registered, cached, issued, revoked, expired, holder, waiting, request, faults>>

\* Any other error status, or no answer in ten seconds.
BankFails(c) ==
  /\ call[c].pc = "sent" /\ faults < MaxFaults
  /\ faults' = faults + 1
  /\ \E error \in {"refused", "timedOut"} : FailCall(c, error)
  /\ UNCHANGED <<registered, cached, issued, revoked, expired, holder, waiting, request>>

-----------------------------------------------------------------------------
(* A request: one step of its plan after the other.                        *)

Advance(r, rows) ==
  request' = [request EXCEPT ![r].at = @ + 1, ![r].rows = @ \cup rows]

Fail(r, error) == request' = [request EXCEPT ![r].error = error]

\* user_repository reads the user afresh at every call and raises 404 without one.
ReadUser(r) ==
  /\ ~Ended(r) /\ Step(r) = "user"
  /\ IF registered THEN Advance(r, {}) ELSE Fail(r, "notRegistered")
  /\ UNCHANGED <<registered, tokenVars, revoked, expired, call, faults>>

Ask(r) ==
  /\ ~Ended(r) /\ CallsOf(r) # {}
  /\ \A c \in CallsOf(r) : call[c].pc = "idle"
  /\ call' = [c \in Calls |-> IF c \in CallsOf(r) THEN [Idle EXCEPT !.pc = "ready"] ELSE call[c]]
  /\ UNCHANGED <<registered, tokenVars, revoked, expired, request, faults>>

\* gather returns once every call has its batch.
Collect(r) ==
  /\ ~Ended(r) /\ CallsOf(r) # {}
  /\ \A c \in CallsOf(r) : call[c].pc = "done"
  /\ Advance(r, UNION {Batch(c[2]) : c \in {d \in CallsOf(r) : d[2] \in Accounts}})
  /\ UNCHANGED <<registered, tokenVars, revoked, expired, call, faults>>

\* The first error of a call is the request's; the other calls go on unheard.
Break(r) ==
  /\ ~Ended(r)
  /\ \E c \in CallsOf(r) : call[c].pc = "failed" /\ Fail(r, call[c].error)
  /\ UNCHANGED <<registered, tokenVars, revoked, expired, call, faults>>

-----------------------------------------------------------------------------
(* The world around: the bank, the clock, the gateway.                     *)

Revoke ==
  /\ Cardinality(revoked) < MaxRevoked
  /\ \E t \in 1..issued \ revoked : revoked' = revoked \cup {t}
  /\ UNCHANGED <<registered, tokenVars, expired, call, request, faults>>

Expire ==
  /\ cached # None /\ cached \notin expired
  /\ Cardinality(expired) < MaxExpired
  /\ expired' = expired \cup {cached}
  /\ UNCHANGED <<registered, tokenVars, revoked, call, request, faults>>

DeleteUser ==
  /\ registered
  /\ registered' = FALSE
  /\ UNCHANGED <<tokenVars, revoked, expired, call, request, faults>>

-----------------------------------------------------------------------------
Init ==
  /\ registered = TRUE
  /\ cached = None /\ issued = 0
  /\ revoked = {} /\ expired = {}
  /\ holder = None /\ waiting = <<>>
  /\ call = [c \in Calls |-> Idle]
  /\ \E route \in [Requests -> UNION {Routes[r] : r \in Requests}] :
       /\ \A r \in Requests : route[r] \in Routes[r]
       /\ request = [r \in Requests |-> [route |-> route[r], at |-> 1, rows |-> {}, error |-> None]]
  /\ faults = 0

CallStep(c) == TakeToken(c) \/ Wake(c) \/ TokenArrives(c) \/ BankAccepts(c) \/ BankRefuses(c)
CallFault(c) == TokenFails(c) \/ BankFails(c)
RequestStep(r) == ReadUser(r) \/ Ask(r) \/ Collect(r) \/ Break(r)

Next ==
  \/ \E c \in Calls : CallStep(c) \/ CallFault(c)
  \/ \E r \in Requests : RequestStep(r)
  \/ Revoke \/ Expire \/ DeleteUser

\* Every await ends: the bank answers or the client's timeout does, the lock goes
\* to the first in line, and the event loop runs what is ready.
Fairness ==
  /\ \A c \in Calls : WF_vars(CallStep(c) \/ CallFault(c))
  /\ \A r \in Requests : WF_vars(RequestStep(r))

Spec == Init /\ [][Next]_vars /\ Fairness

-----------------------------------------------------------------------------
(* Properties.                                                             *)

\* The token endpoint is never stampeded: every token ever issued, except the one in
\* the cache, was lost first, by revocation or by age.  However many calls find the
\* cache empty, expired or refused at once, one request for a token serves them all.
RefreshesAreCollapsed ==
  \A t \in 1..issued : t # cached => t \in revoked \cup expired

\* A call never presents a token the bank has already refused it, also when its retry
\* waits behind another call's refresh; so it takes two revocations to fail one.
RetriesUseAnotherToken ==
  \A c \in Calls : call[c].pc = "sent" => call[c].token \notin call[c].refused

\* An answer is whole: a request that ends without an error and asked for all
\* transactions has the batch of every account, whatever calls failed or came late.
AnswersCoverEveryAccount ==
  \A r \in Requests :
    Ended(r) /\ Status(request[r].error) = 200 /\ "transactions" \in {Plan(r)[i] : i \in DOMAIN Plan(r)}
      => \A a \in Accounts : \E row \in request[r].rows : row[1] = a

\* Every request ends: no failed refresh keeps the lock, no retry goes round for ever.
RequestsEnd == \A r \in Requests : <>Ended(r)

\* A request ends, and with an answer that is whole or an error.
RequestsEndWhole == RequestsEnd /\ []AnswersCoverEveryAccount

\* "Retrieves banking data for the past {days} days for all user accounts"
\* (open_finance_service.py:115): an answer has every row the bank holds.
AnswersHoldEveryPage ==
  \A r \in Requests :
    Ended(r) /\ request[r].error = None /\ "transactions" \in {Plan(r)[i] : i \in DOMAIN Plan(r)}
      => \A a \in Accounts : \A p \in 1..Pages[a] : <<a, p>> \in request[r].rows

=============================================================================
