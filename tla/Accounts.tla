------------------------------ MODULE Accounts ------------------------------
(***************************************************************************)
(* The life of one address in the gateway: the sign-up wizard, the account *)
(* it ends in, emailed login and password-reset codes, sessions, the bank  *)
(* consent held at Open Finance, and deletion.                             *)
(*                                                                         *)
(* Nothing is transactional (AutoTransactionBehavior.Never): a handler     *)
(* with several writes is a program of steps, and the process may stop     *)
(* after any of them.  Handlers with one write are one step.              *)
(* Requests of one address come one at a time; those of others, an admin   *)
(* who notifies it, come at any moment.                                    *)
(*                                                                         *)
(* Time only forbids: a call that comes before the end of a cooldown, or   *)
(* after the deadline of a code or a ticket, is refused and changes        *)
(* nothing.  So the calls modelled are those that come in time, at any     *)
(* moment, and the removal of a document past its own deadline.            *)
(***************************************************************************)
EXTENDS Naturals, FiniteSets, Sequences

CONSTANTS
  MaxAttempts,   \* wrong codes a code survives
  MaxResends,    \* codes sent for one document
  MaxFailures,   \* wrong passwords before lockout
  RotateRefresh, \* AuthConfig.IsRotateRefresh
  MaxTokens,     \* bound: refresh tokens stored at once
  MaxAccounts,   \* bound: accounts ever made
  None

ASSUME AccountsAssumption ==
  /\ {MaxAttempts, MaxResends, MaxFailures} \subseteq Nat \ {0}
  /\ {MaxTokens, MaxAccounts} \subseteq Nat
  /\ RotateRefresh \in BOOLEAN

\* An Identity user: its number, its role and its failed logins.
Users == [user : Nat, role : BOOLEAN, failures : Nat]

ASSUME NoneAssumption == None \notin Users

VARIABLES
  account,   \* the Identity user of the address, or None
  pending,   \* its pending registration, or None (a unique index on the address)
  entry,     \* its verification code of each purpose, or None (a unique index)
  tokens,    \* the refresh tokens stored
  notes,     \* the notifications stored for the address: "timely" or "late" ones
  sending,   \* a sender has found the address among its recipients, and not saved yet
  bank,      \* whether Open Finance holds a connection of the address
  program,   \* the program in progress and its next step, or None
  signedIn,  \* a session, and so an access token, was ever issued
  accounts   \* how many accounts were ever made

vars == <<account, pending, entry, tokens, notes, sending, bank, program, signedIn, accounts>>

Purposes == {"login", "reset"}

\* A code freshly generated and stored: it may be entered until it is spent, and
\* any other code, an older one among them, is wrong.
Fresh(user, sends) ==
  [code |-> TRUE, attempts |-> 0, sends |-> sends, user |-> user, ticket |-> FALSE]

\* A pending registration and its code; the first half of the wizard.
Unverified(sends) == [code |-> TRUE, attempts |-> 0, sends |-> sends, verified |-> FALSE]

\* A session: an access token and a stored refresh token.
IssueSession(user) ==
  \E id \in 1..MaxTokens :
    /\ \A t \in tokens : t.id # id
    /\ tokens' = tokens \cup {[id |-> id, user |-> user, revoked |-> FALSE]}
    /\ signedIn' = TRUE

Revoked(ts, user) ==
  {[t EXCEPT !.revoked = @ \/ t.user = user] : t \in ts}
Live(user) == {t \in tokens : t.user = user /\ ~t.revoked}

Init ==
  /\ account = None
  /\ pending = None
  /\ entry = [p \in Purposes |-> None]
  /\ tokens = {}
  /\ notes = {}
  /\ sending = FALSE
  /\ bank = FALSE
  /\ program = None
  /\ signedIn = FALSE
  /\ accounts = 0

\* Requests come one at a time.
May == program = None

-----------------------------------------------------------------------------
(* The sign-up wizard *)

\* StartAsync: whatever was in flight for the address is deleted and a new registration
\* added (a stop between the two leaves what ExpirePending does).
Start ==
  /\ May /\ account = None
  /\ pending' = Unverified(1)
  /\ UNCHANGED <<account, entry, tokens, notes, sending, bank, program, signedIn, accounts>>

\* VerifyEmailAsync.  The client quotes the token of this registration: any other
\* finds no document.
VerifyEmail ==
  /\ May /\ pending # None /\ ~pending.verified
  /\ pending' = [pending EXCEPT !.verified = TRUE, !.attempts = 0, !.code = FALSE]
  /\ UNCHANGED <<account, entry, tokens, notes, sending, bank, program, signedIn, accounts>>

\* A wrong code; the last one drops the whole registration.
MisverifyEmail ==
  /\ May /\ pending # None /\ ~pending.verified
  /\ pending' = IF pending.attempts + 1 >= MaxAttempts THEN None
                ELSE [pending EXCEPT !.attempts = @ + 1]
  /\ UNCHANGED <<account, entry, tokens, notes, sending, bank, program, signedIn, accounts>>

\* ResendCodeAsync; one request too many drops the registration.
ResendCode ==
  /\ May /\ pending # None /\ ~pending.verified
  /\ pending' = IF pending.sends >= MaxResends THEN None
                ELSE Unverified(pending.sends + 1)
  /\ UNCHANGED <<account, entry, tokens, notes, sending, bank, program, signedIn, accounts>>

\* A registration past its deadline is removed, by the next call that meets it
\* (RestartAsync) or by the TTL index.
ExpirePending ==
  /\ pending # None
  /\ pending' = None
  /\ UNCHANGED <<account, entry, tokens, notes, sending, bank, program, signedIn, accounts>>

\* CompleteAsync: a verified registration starts the program "complete"; one whose
\* address was claimed meanwhile is removed.
Complete ==
  /\ program = None /\ pending # None /\ pending.verified
  /\ IF account # None
     THEN pending' = None /\ UNCHANGED program
     ELSE /\ program' = [kind |-> "complete", at |-> 1, user |-> accounts + 1]
          /\ UNCHANGED pending
  /\ UNCHANGED <<account, entry, tokens, notes, sending, bank, signedIn, accounts>>

-----------------------------------------------------------------------------
(* Emailed codes: login and password reset *)

IssueCode_keepsTicket(p) ==
  /\ May /\ account # None
  /\ p = "login" => account.failures < MaxFailures
  /\ entry[p] # None => entry[p].sends < MaxResends
  /\ entry' = [entry EXCEPT ![p] =
       [Fresh(account.user, IF entry[p] = None THEN 1 ELSE entry[p].sends + 1)
          EXCEPT !.ticket = entry[p] # None /\ entry[p].ticket]]
  /\ UNCHANGED <<account, pending, tokens, notes, sending, bank, program, signedIn, accounts>>

\* IssueAsync, for an address with an account.  A locked account gets no login code.
IssueCode(p) ==
  /\ May /\ account # None
  /\ p = "login" => account.failures < MaxFailures
  /\ entry[p] # None => entry[p].sends < MaxResends
  /\ entry' = [entry EXCEPT ![p] =
       Fresh(account.user, IF entry[p] = None THEN 1 ELSE entry[p].sends + 1)]
  /\ UNCHANGED <<account, pending, tokens, notes, sending, bank, program, signedIn, accounts>>

Redeemable(p) == May /\ entry[p] # None

\* RedeemAsync with a wrong code: the code dies at the last attempt.
WrongCode(p) ==
  /\ Redeemable(p)
  /\ entry' = IF entry[p].attempts + 1 >= MaxAttempts THEN [entry EXCEPT ![p] = None]
              ELSE [entry EXCEPT ![p].attempts = @ + 1]
  /\ UNCHANGED <<account, pending, tokens, notes, sending, bank, program, signedIn, accounts>>

\* LoginOtpService.VerifyAsync with the right code: the program "login", of which the
\* first write deletes the code.  A code of no account is deleted at once.
LoginByCode ==
  /\ Redeemable("login") /\ entry["login"].code
  /\ IF account = None \/ account.user # entry["login"].user
     THEN entry' = [entry EXCEPT !["login"] = None] /\ UNCHANGED program
     ELSE /\ account.failures < MaxFailures
          /\ program' = [kind |-> "login", at |-> 1, user |-> account.user]
          /\ UNCHANGED entry
  /\ UNCHANGED <<account, pending, tokens, notes, sending, bank, signedIn, accounts>>

\* PasswordResetService.VerifyCodeAsync: the code is swapped for a ticket.
EarnTicket ==
  /\ Redeemable("reset") /\ entry["reset"].code
  /\ entry' = [entry EXCEPT !["reset"].code = FALSE, !["reset"].ticket = TRUE]
  /\ UNCHANGED <<account, pending, tokens, notes, sending, bank, program, signedIn, accounts>>

\* ResetAsync with the ticket.
Reset ==
  /\ program = None /\ entry["reset"] # None /\ entry["reset"].ticket
  /\ IF account = None \/ account.user # entry["reset"].user
     THEN entry' = [entry EXCEPT !["reset"] = None] /\ UNCHANGED program
     ELSE /\ program' = [kind |-> "reset", at |-> 1, user |-> account.user]
          /\ UNCHANGED entry
  /\ UNCHANGED <<account, pending, tokens, notes, sending, bank, signedIn, accounts>>

\* The TTL index removes a document past its deadline.
ExpireEntry(p) ==
  /\ entry[p] # None
  /\ entry' = [entry EXCEPT ![p] = None]
  /\ UNCHANGED <<account, pending, tokens, notes, sending, bank, program, signedIn, accounts>>

-----------------------------------------------------------------------------
(* Sessions *)

\* Login with the right password, or a wrong one that counts towards lockout.
Login ==
  /\ May /\ account # None /\ account.failures < MaxFailures
  /\ \/ IssueSession(account.user) /\ account' = [account EXCEPT !.failures = 0]
     \/ account' = [account EXCEPT !.failures = @ + 1] /\ UNCHANGED <<tokens, signedIn>>
  /\ UNCHANGED <<pending, entry, notes, sending, bank, program, accounts>>

\* The lockout runs out (Identity resets the count at the next attempt).
LockoutEnds ==
  /\ account # None /\ account.failures = MaxFailures
  /\ account' = [account EXCEPT !.failures = 0]
  /\ UNCHANGED <<pending, entry, tokens, notes, sending, bank, program, signedIn, accounts>>

\* Refresh with a stored token: a revoked one revokes every token of its user; a
\* live one is rotated by the program "rotate", or kept.
Refresh ==
  /\ program = None
  /\ \E t \in tokens :
       IF t.revoked
       THEN tokens' = Revoked(tokens, t.user) /\ UNCHANGED program
       ELSE /\ account # None /\ RotateRefresh
            /\ program' = [kind |-> "rotate", at |-> 1, user |-> t.user, token |-> t]
            /\ UNCHANGED tokens
  /\ UNCHANGED <<account, pending, entry, notes, sending, bank, signedIn, accounts>>

\* Logout revokes the token quoted.
Logout ==
  /\ May
  /\ \E t \in tokens : ~t.revoked
       /\ tokens' = (tokens \ {t}) \cup {[t EXCEPT !.revoked = TRUE]}
  /\ UNCHANGED <<account, pending, entry, notes, sending, bank, program, signedIn, accounts>>

-----------------------------------------------------------------------------
(* The bank consent, notifications, and deletion *)

\* InitiateConnectionJourney: identified by the address in an access token, which
\* every session so far was given and which nothing withdraws.
LinkBank ==
  /\ May /\ signedIn
  /\ bank' = TRUE
  /\ UNCHANGED <<account, pending, entry, tokens, notes, sending, program, signedIn, accounts>>

\* An admin's request finds the address among the users (AdminController 135;
\* SendToGroupAsync and SendToAllAsync read the recipients), at any moment.
FindRecipient ==
  /\ account # None
  /\ sending' = TRUE
  /\ UNCHANGED <<account, pending, entry, tokens, notes, bank, program, signedIn, accounts>>

\* It saves the notification for the addresses it read, whatever became of them since.
\* It is late when the account is gone by now, or is being made or deleted.
Notify ==
  /\ sending
  /\ sending' \in BOOLEAN
  /\ notes' = notes \cup
       {IF \/ account = None
           \/ program # None /\ program.kind \in {"complete", "delete"}
        THEN "late" ELSE "timely"}
  /\ UNCHANGED <<account, pending, entry, tokens, bank, program, signedIn, accounts>>

Delete ==
  /\ program = None /\ account # None
  /\ program' = [kind |-> "delete", at |-> 1, user |-> account.user]
  /\ UNCHANGED <<account, pending, entry, tokens, notes, sending, bank, signedIn, accounts>>

-----------------------------------------------------------------------------
(* Programs *)

Writes_accountFirst(kind) ==
  CASE kind = "complete" -> <<"create", "role", "drop pending", "session">>
    [] kind = "login"    -> <<"drop entry", "forget", "session">>
    [] kind = "reset"    -> <<"password", "drop entry", "revoke all", "forget", "unlock">>
    [] kind = "rotate"   -> <<"revoke", "session">>
    [] kind = "delete"   -> <<"close bank", "drop account", "drop notes", "drop tokens",
                              "drop pending", "drop codes">>

Writes_answersEarly(kind) ==
  CASE kind = "complete" -> <<"create", "role", "drop pending", "session">>
    [] kind = "login"    -> <<"drop entry", "forget", "session">>
    [] kind = "reset"    -> <<"password", "drop entry", "forget", "unlock">>
    [] kind = "rotate"   -> <<"revoke", "session">>
    [] kind = "delete"   -> <<"close bank", "drop notes", "drop tokens", "drop pending",
                              "drop codes", "drop account">>

\* The writes of each program, in the order of the code.
Writes(kind) ==
  CASE kind = "complete" -> <<"create", "role", "drop pending", "session">>
    [] kind = "login"    -> <<"drop entry", "forget", "session">>
    [] kind = "reset"    -> <<"password", "drop entry", "revoke all", "forget", "unlock">>
    [] kind = "rotate"   -> <<"revoke", "session">>
    [] kind = "delete"   -> <<"close bank", "drop notes", "drop tokens", "drop pending",
                              "drop codes", "drop account">>

Write == Writes(program.kind)[program.at]

\* The program goes on after its write, or ends with its last one.
Proceed ==
  program' = IF program.at = Len(Writes(program.kind)) THEN None
             ELSE [program EXCEPT !.at = @ + 1]

\* CreateAsync and AddToRoleAsync; a role refused unwinds the account.
CreateAccount ==
  /\ Write = "create" /\ accounts < MaxAccounts
  /\ IF account = None
     THEN /\ account' = [user |-> program.user, role |-> FALSE, failures |-> 0]
          /\ accounts' = accounts + 1
          /\ Proceed
     ELSE program' = None /\ UNCHANGED <<account, signedIn, accounts>>
  /\ UNCHANGED <<pending, entry, tokens, notes, sending, bank, signedIn>>

AddRole ==
  /\ Write = "role"
  /\ \/ account' = [account EXCEPT !.role = TRUE] /\ Proceed
     \/ account' = None /\ program' = None
  /\ UNCHANGED <<pending, entry, tokens, notes, sending, bank, signedIn, accounts>>

DropPending ==
  /\ Write = "drop pending"
  /\ pending' = None
  /\ Proceed
  /\ UNCHANGED <<account, entry, tokens, notes, sending, bank, signedIn, accounts>>

AddSession ==
  /\ Write = "session"
  /\ IssueSession(program.user)
  /\ Proceed
  /\ UNCHANGED <<account, pending, entry, notes, sending, bank, accounts>>

\* ResetPasswordAsync (which password it sets is left out); its user write is
\* refused by a validator, or when the account changed or is gone.
SetPassword ==
  /\ Write = "password"
  /\ \/ account # None /\ Proceed
     \/ program' = None
  /\ UNCHANGED <<account, pending, entry, tokens, notes, sending, bank, signedIn, accounts>>

\* The code that let the program begin is spent.
DropEntry ==
  /\ Write = "drop entry"
  /\ entry' = [entry EXCEPT ![program.kind] = None]
  /\ Proceed
  /\ UNCHANGED <<account, pending, tokens, notes, sending, bank, signedIn, accounts>>

RevokeAll ==
  /\ Write = "revoke all"
  /\ tokens' = Revoked(tokens, program.user)
  /\ Proceed
  /\ UNCHANGED <<account, pending, entry, notes, sending, bank, signedIn, accounts>>

\* ResetAccessFailedCountAsync, which Identity has already done for a locked user.
Forget ==
  /\ Write = "forget"
  /\ account' = IF account # None /\ account.failures < MaxFailures
                THEN [account EXCEPT !.failures = 0] ELSE account
  /\ Proceed
  /\ UNCHANGED <<pending, entry, tokens, notes, sending, bank, signedIn, accounts>>

\* SetLockoutEndDateAsync: a locked user is let in again.
Unlock ==
  /\ Write = "unlock"
  /\ account' = IF account # None /\ account.failures = MaxFailures
                THEN [account EXCEPT !.failures = 0] ELSE account
  /\ Proceed
  /\ UNCHANGED <<pending, entry, tokens, notes, sending, bank, signedIn, accounts>>

RevokeOne ==
  /\ Write = "revoke"
  /\ tokens' = (tokens \ {program.token}) \cup {[program.token EXCEPT !.revoked = TRUE]}
  /\ Proceed
  /\ UNCHANGED <<account, pending, entry, notes, sending, bank, signedIn, accounts>>

\* CloseAllConnectionsAsync; any failure ends the deletion with nothing deleted.
CloseBank ==
  /\ Write = "close bank"
  /\ \/ bank' = FALSE /\ Proceed
     \/ UNCHANGED bank /\ program' = None
  /\ UNCHANGED <<account, pending, entry, tokens, notes, sending, signedIn, accounts>>

\* PurgeUserDataAsync: notifications and codes by address, tokens by user.
Purge ==
  /\ Write \in {"drop notes", "drop tokens", "drop codes"}
  /\ notes' = IF Write = "drop notes" THEN {} ELSE notes
  /\ tokens' = IF Write = "drop tokens" THEN {t \in tokens : t.user # program.user} ELSE tokens
  /\ entry' = IF Write = "drop codes" THEN [p \in Purposes |-> None] ELSE entry
  /\ Proceed
  /\ UNCHANGED <<account, pending, sending, bank, signedIn, accounts>>

DropAccount ==
  /\ Write = "drop account"
  /\ account' = None
  /\ Proceed
  /\ UNCHANGED <<pending, entry, tokens, notes, sending, bank, signedIn, accounts>>

ProgramStep ==
  /\ program # None
  /\ \/ CreateAccount \/ AddRole \/ DropPending \/ AddSession \/ SetPassword \/ DropEntry
     \/ RevokeAll \/ Forget \/ Unlock \/ RevokeOne \/ CloseBank \/ Purge \/ DropAccount

\* The process stops, or a write throws: the program is not resumed.
Crash ==
  /\ program # None
  /\ program' = None
  /\ UNCHANGED <<account, pending, entry, tokens, notes, sending, bank, signedIn, accounts>>

Next ==
  \/ Start \/ VerifyEmail \/ MisverifyEmail \/ ResendCode \/ ExpirePending \/ Complete
  \/ \E p \in Purposes : IssueCode(p) \/ WrongCode(p) \/ ExpireEntry(p)
  \/ LoginByCode \/ EarnTicket \/ Reset
  \/ Login \/ LockoutEnds \/ Refresh \/ Logout
  \/ LinkBank \/ FindRecipient \/ Notify \/ Delete
  \/ ProgramStep \/ Crash

Spec == Init /\ [][Next]_vars

-----------------------------------------------------------------------------
(* Properties *)

\* A newly requested reset code ends the ticket earned with the code before it
\* (VerificationCodeService 103): a document holds a code or a ticket, never both.
NewCodeEndsTicket ==
  entry["reset"] # None => ~(entry["reset"].code /\ entry["reset"].ticket)

\* Nothing keyed to the account outlives it, even when a deletion or a sign-up stops
\* between two of its writes, but for a notification whose sender read its recipients
\* before: "rows keyed to a now-free email" would be inherited by whoever registers it
\* next (AccountDeletionService 78-83).
RowsBelongToAnAccount ==
  account = None => tokens = {} /\ notes \subseteq {"late"} /\ \A p \in Purposes : entry[p] = None

\* What the deletion's comment claims of every row (not so: see README).
NoNoteOutlivesTheAccount == account = None => notes = {}

\* A reset that answers has revoked every session of the account
\* (PasswordResetService 125-127).
AnsweredResetEndsSessions ==
  [][program # None /\ Unlock => Live(program.user) = {}]_vars

\* A bank consent does not outlive the account (AccountDeletionService 47).
ConsentNeverOutlivesAccount == account = None => ~bank

=============================================================================
