--------------------------- MODULE Accounts_proofs ---------------------------
(***************************************************************************)
(* Proofs about the life of one address, for any limits of codes, resends  *)
(* and failed logins, any number of accounts, tokens and requests, and a   *)
(* process that may stop after any write.                                  *)
(*                                                                         *)
(* That nothing outlives the account is not inductive.  The last write of  *)
(* a deletion removes the account without looking at anything else, so the *)
(* invariant says what each earlier write has left by then, program and    *)
(* step by program and step (InStep).  The purge removes the tokens of one *)
(* user number and not of the address, so every token must be known to be  *)
(* of the account there is (Owned); and a sign-up whose role is refused    *)
(* unwinds the account, so nothing may have been stored before that.       *)
(***************************************************************************)
EXTENDS Accounts, TLAPS

Kinds == {"complete", "login", "reset", "rotate", "delete"}
Codes == [code : BOOLEAN, attempts : Nat, sends : Nat, user : Nat, ticket : BOOLEAN]
Tokens == [id : Nat, user : Nat, revoked : BOOLEAN]
Programs == [kind : Kinds \ {"rotate"}, at : 1 .. 6, user : Nat]
              \cup [kind : {"rotate"}, at : 1 .. 2, user : Nat, token : Tokens]

NoCodes == \A p \in Purposes : entry[p] = None

AccountTypeOK ==
  /\ account \in Users \cup {None}
  /\ entry \in [Purposes -> Codes \cup {None}]
  /\ tokens \subseteq Tokens
  /\ notes \subseteq {"timely", "late"}
  /\ program \in Programs \cup {None}
  /\ accounts \in Nat

\* Notifications, tokens and codes are the account's.
Owned ==
  /\ account = None => "timely" \notin notes
  /\ \A t \in tokens : account # None /\ t.user = account.user
  /\ \A p \in Purposes : entry[p] # None => account # None /\ entry[p].user = account.user

\* What the writes made so far of the program in progress have left.
InStep ==
  program # None =>
    /\ program.at <= Len(Writes(program.kind))
    /\ account # None => account.user = program.user
    /\ account = None <=> program.kind = "complete" /\ program.at = 1
    /\ program.kind = "complete" /\ program.at <= 2 => "timely" \notin notes /\ tokens = {} /\ NoCodes
    /\ program.kind = "rotate" => program.token.user = program.user
    /\ program.kind = "reset" /\ program.at >= 4 => Live(program.user) = {}
    /\ program.kind = "delete" =>
         /\ program.at >= 3 => "timely" \notin notes
         /\ program.at >= 4 => tokens = {}
         /\ program.at >= 6 => NoCodes

CodesAreOfTheAccount ==
  \A p \in Purposes : entry[p] # None => account # None /\ entry[p].user = account.user

AccountsInv == AccountTypeOK /\ Owned /\ NewCodeEndsTicket /\ InStep

\* The writes of each program, one by one.
LEMMA WritesOf ==
  /\ Len(Writes("complete")) = 4
  /\ Writes("complete")[1] = "create"
  /\ Writes("complete")[2] = "role"
  /\ Writes("complete")[3] = "drop pending"
  /\ Writes("complete")[4] = "session"
  /\ Len(Writes("login")) = 3
  /\ Writes("login")[1] = "drop entry"
  /\ Writes("login")[2] = "forget"
  /\ Writes("login")[3] = "session"
  /\ Len(Writes("reset")) = 5
  /\ Writes("reset")[1] = "password"
  /\ Writes("reset")[2] = "drop entry"
  /\ Writes("reset")[3] = "revoke all"
  /\ Writes("reset")[4] = "forget"
  /\ Writes("reset")[5] = "unlock"
  /\ Len(Writes("rotate")) = 2
  /\ Writes("rotate")[1] = "revoke"
  /\ Writes("rotate")[2] = "session"
  /\ Len(Writes("delete")) = 6
  /\ Writes("delete")[1] = "close bank"
  /\ Writes("delete")[2] = "drop notes"
  /\ Writes("delete")[3] = "drop tokens"
  /\ Writes("delete")[4] = "drop pending"
  /\ Writes("delete")[5] = "drop codes"
  /\ Writes("delete")[6] = "drop account"
BY DEF Writes

\* Which program is at which of its writes.
LEMMA WriteAt ==
  ASSUME program \in Programs, program.at <= Len(Writes(program.kind))
  PROVE  /\ Write = "create" <=> program.kind = "complete" /\ program.at = 1
         /\ Write = "role" <=> program.kind = "complete" /\ program.at = 2
         /\ Write = "drop pending" <=> \/ program.kind = "complete" /\ program.at = 3
                                       \/ program.kind = "delete" /\ program.at = 4
         /\ Write = "session" <=> \/ program.kind = "complete" /\ program.at = 4
                                  \/ program.kind = "rotate" /\ program.at = 2
                                  \/ program.kind = "login" /\ program.at = 3
         /\ Write = "password" <=> program.kind = "reset" /\ program.at = 1
         /\ Write = "drop entry" <=> \/ program.kind = "reset" /\ program.at = 2
                                     \/ program.kind = "login" /\ program.at = 1
         /\ Write = "revoke all" <=> program.kind = "reset" /\ program.at = 3
         /\ Write = "forget" <=> \/ program.kind = "reset" /\ program.at = 4
                                 \/ program.kind = "login" /\ program.at = 2
         /\ Write = "unlock" <=> program.kind = "reset" /\ program.at = 5
         /\ Write = "revoke" <=> program.kind = "rotate" /\ program.at = 1
         /\ Write = "close bank" <=> program.kind = "delete" /\ program.at = 1
         /\ Write = "drop notes" <=> program.kind = "delete" /\ program.at = 2
         /\ Write = "drop tokens" <=> program.kind = "delete" /\ program.at = 3
         /\ Write = "drop codes" <=> program.kind = "delete" /\ program.at = 5
         /\ Write = "drop account" <=> program.kind = "delete" /\ program.at = 6
<1>1. program.kind \in Kinds /\ program.at \in 1 .. 6
  BY DEF Programs, Kinds
<1>2. CASE program.kind = "complete"
  <2>1. Len(Writes(program.kind)) = 4 /\ Write = Writes("complete")[program.at]
    BY <1>2, WritesOf DEF Write
  <2>2. program.at \in {1, 2, 3, 4}
    BY <1>1, <2>1
  <2> QED BY <1>2, <2>1, <2>2, WritesOf
<1>3. CASE program.kind = "reset"
  <2>1. Len(Writes(program.kind)) = 5 /\ Write = Writes("reset")[program.at]
    BY <1>3, WritesOf DEF Write
  <2>2. program.at \in {1, 2, 3, 4, 5}
    BY <1>1, <2>1
  <2> QED BY <1>3, <2>1, <2>2, WritesOf
<1>4. CASE program.kind = "rotate"
  <2>1. Len(Writes(program.kind)) = 2 /\ Write = Writes("rotate")[program.at]
    BY <1>4, WritesOf DEF Write
  <2>2. program.at \in {1, 2}
    BY <1>1, <2>1
  <2> QED BY <1>4, <2>1, <2>2, WritesOf
<1>5. CASE program.kind = "delete"
  <2>1. Len(Writes(program.kind)) = 6 /\ Write = Writes("delete")[program.at]
    BY <1>5, WritesOf DEF Write
  <2>2. program.at \in {1, 2, 3, 4, 5, 6}
    BY <1>1, <2>1
  <2> QED BY <1>5, <2>1, <2>2, WritesOf
<1>6. CASE program.kind = "login"
  <2>1. Len(Writes(program.kind)) = 3 /\ Write = Writes("login")[program.at]
    BY <1>6, WritesOf DEF Write
  <2>2. program.at \in {1, 2, 3}
    BY <1>1, <2>1
  <2> QED BY <1>6, <2>1, <2>2, WritesOf
<1> QED BY <1>1, <1>2, <1>3, <1>4, <1>5, <1>6 DEF Kinds

-----------------------------------------------------------------------------
\* How many writes a program has.
LEMMA LengthOfWrites ==
  ASSUME NEW kind \in Kinds
  PROVE  Len(Writes(kind)) \in {2, 3, 4, 5, 6} /\ (kind = "rotate" => Len(Writes(kind)) = 2)
<1>1. kind = "complete" => Len(Writes(kind)) = 4  BY WritesOf
<1>2. kind = "reset" => Len(Writes(kind)) = 5  BY WritesOf
<1>3. kind = "rotate" => Len(Writes(kind)) = 2  BY WritesOf
<1>4. kind = "delete" => Len(Writes(kind)) = 6  BY WritesOf
<1>5. kind = "login" => Len(Writes(kind)) = 3  BY WritesOf
<1> QED BY <1>1, <1>2, <1>3, <1>4, <1>5, Zenon DEF Kinds

\* A program that proceeds ends, or comes to its next write.
LEMMA Proceeded ==
  ASSUME program \in Programs, program.at <= Len(Writes(program.kind)), Proceed
  PROVE  /\ program' \in Programs \cup {None}
         /\ program' # None =>
              /\ program'.kind = program.kind
              /\ program'.user = program.user
              /\ program'.at = program.at + 1
              /\ program'.at <= Len(Writes(program'.kind))
              /\ program.kind = "rotate" => program'.token = program.token
<1>1. program.kind \in Kinds /\ program.at \in 1 .. 6
  BY DEF Programs, Kinds
<1>2. /\ Len(Writes(program.kind)) \in {2, 3, 4, 5, 6}
      /\ program.kind = "rotate" => Len(Writes(program.kind)) = 2
  BY <1>1, LengthOfWrites
<1>3. CASE program.at = Len(Writes(program.kind))
  BY <1>3 DEF Proceed
<1>4. CASE program.at # Len(Writes(program.kind))
  <2>1. program' = [program EXCEPT !.at = program.at + 1]
    BY <1>4 DEF Proceed
  <2>2. program.at + 1 \in 1 .. 6 /\ program.at + 1 <= Len(Writes(program.kind))
    <3>1. PICK n \in {2, 3, 4, 5, 6} : n = Len(Writes(program.kind))
      BY <1>2
    <3>2. program.at <= n /\ program.at # n
      BY <1>4, <3>1
    <3>3. program.at + 1 \in 1 .. 6 /\ program.at + 1 <= n
      BY <1>1, <3>2
    <3> QED BY <3>1, <3>3
  <2>3. CASE program.kind = "rotate"
    <3>1. program \in [kind : {"rotate"}, at : 1 .. 2, user : Nat, token : Tokens]
      BY <2>3 DEF Programs, Kinds
    <3>0. Len(Writes(program.kind)) = 2
      BY <1>2, <2>3
    <3>2. program.at + 1 \in 1 .. 2
      BY <2>2, <3>0, <3>1
    <3>3. program' \in [kind : {"rotate"}, at : 1 .. 2, user : Nat, token : Tokens]
      BY <2>1, <3>1, <3>2
    <3> QED BY <2>1, <2>2, <3>1, <3>3 DEF Programs
  <2>4. CASE program.kind # "rotate"
    <3>1. program \in [kind : Kinds \ {"rotate"}, at : 1 .. 6, user : Nat]
      BY <2>4 DEF Programs, Kinds
    <3>2. program' \in [kind : Kinds \ {"rotate"}, at : 1 .. 6, user : Nat]
      BY <2>1, <2>2, <3>1
    <3> QED BY <2>1, <2>2, <2>4, <3>1, <3>2 DEF Programs
  <2> QED BY <2>3, <2>4
<1> QED BY <1>3, <1>4

\* A session adds tokens of its user only.
LEMMA SessionIssued ==
  ASSUME tokens \subseteq Tokens, NEW user \in Nat, IssueSession(user)
  PROVE  tokens' \subseteq Tokens /\ \A t \in tokens' : t \in tokens \/ t.user = user
<1>1. PICK id \in 1 .. MaxTokens :
        tokens' = tokens \cup {[id |-> id, user |-> user, revoked |-> FALSE]}
  BY DEF IssueSession
<1> DEFINE new == [id |-> id, user |-> user, revoked |-> FALSE]
<1>2. new \in Tokens /\ new.user = user
  BY AccountsAssumption DEF Tokens
<1>3. tokens' = tokens \cup {new}
  BY <1>1
<1> HIDE DEF new
<1> QED BY <1>2, <1>3

\* Revoking the tokens of a user leaves none of them alive, and changes the user of none.
LEMMA AllRevoked ==
  ASSUME tokens \subseteq Tokens, NEW user, tokens' = Revoked(tokens, user)
  PROVE  /\ tokens' \subseteq Tokens
         /\ \A t \in tokens' : \E s \in tokens : t.user = s.user
         /\ \A t \in tokens' : t.user = user => t.revoked
<1> SUFFICES ASSUME NEW t \in tokens'
             PROVE  /\ t \in Tokens
                    /\ \E s \in tokens : t.user = s.user
                    /\ t.user = user => t.revoked
  OBVIOUS
<1>1. PICK s \in tokens : t = [s EXCEPT !.revoked = s.revoked \/ s.user = user]
  BY DEF Revoked
<1>2. s \in Tokens
  OBVIOUS
<1>3. t \in Tokens /\ t.user = s.user /\ t.revoked = (s.revoked \/ s.user = user)
  BY <1>1, <1>2 DEF Tokens
<1> QED BY <1>3

\* Revoking one token changes the user of none.
LEMMA OneRevoked ==
  ASSUME tokens \subseteq Tokens, NEW t \in Tokens,
         tokens' = (tokens \ {t}) \cup {[t EXCEPT !.revoked = TRUE]}
  PROVE  /\ tokens' \subseteq Tokens
         /\ \A u \in tokens' : u \in tokens \/ u.user = t.user
<1> DEFINE r == [t EXCEPT !.revoked = TRUE]
<1>1. r \in Tokens /\ r.user = t.user
  BY DEF Tokens
<1> HIDE DEF r
<1>2. tokens' = (tokens \ {t}) \cup {r}
  BY DEF r
<1> QED BY <1>1, <1>2

-----------------------------------------------------------------------------
\* What the invariant does not speak of may change.
LEMMA Undisturbed ==
  ASSUME AccountsInv, UNCHANGED <<account, entry, tokens, notes, program, accounts>>
  PROVE  AccountsInv'
BY DEF AccountsInv, AccountTypeOK, Owned, InStep, NewCodeEndsTicket, NoCodes, Live

\* A program may begin when none is in progress.
LEMMA Begun ==
  ASSUME AccountsInv, program = None, UNCHANGED <<account, entry, tokens, notes, accounts>>,
         \/ /\ account = None
            /\ program' = [kind |-> "complete", at |-> 1, user |-> accounts + 1]
         \/ /\ account # None
            /\ \E kind \in {"login", "reset", "delete"} :
                 program' = [kind |-> kind, at |-> 1, user |-> account.user]
         \/ /\ account # None
            /\ \E t \in tokens :
                 program' = [kind |-> "rotate", at |-> 1, user |-> t.user, token |-> t]
  PROVE  AccountsInv'
<1>1. AccountTypeOK' /\ Owned' /\ NewCodeEndsTicket'
  BY DEF AccountsInv, AccountTypeOK, Owned, NewCodeEndsTicket, Programs, Kinds, Users
<1>2. program'.kind \in Kinds /\ program'.at = 1
  BY DEF Kinds
<1>3. program'.at <= Len(Writes(program'.kind))
  <2>1. PICK n \in {2, 3, 4, 5, 6} : n = Len(Writes(program'.kind))
    BY <1>2, LengthOfWrites
  <2>2. 1 <= n
    OBVIOUS
  <2> QED BY <1>2, <2>1, <2>2, Zenon
<1>4. /\ account' # None => account'.user = program'.user
      /\ account' = None <=> program'.kind = "complete"
      /\ program'.kind = "rotate" => program'.token.user = program'.user
  BY DEF AccountsInv, Owned
<1>5. account = None => "timely" \notin notes /\ tokens = {} /\ NoCodes
  BY DEF AccountsInv, Owned, NoCodes
<1>6. InStep'
  BY <1>2, <1>3, <1>4, <1>5 DEF InStep, NoCodes
<1> QED BY <1>1, <1>6 DEF AccountsInv

\* A request may change codes, tokens and the count of failures as long as what is stored
\* stays the account's; during a program, codes may only expire.
LEMMA Between ==
  ASSUME AccountsInv, UNCHANGED <<notes, program, accounts>>,
         \/ program = None
         \/ tokens' = tokens /\ \A p \in Purposes : entry[p] = None => entry'[p] = None,
         account' \in Users \cup {None}, account' = None <=> account = None,
         account # None => account'.user = account.user,
         entry' \in [Purposes -> Codes \cup {None}],
         \A p \in Purposes :
           entry'[p] # None => account # None /\ entry'[p].user = account.user,
         NewCodeEndsTicket',
         tokens' \subseteq Tokens,
         \A t \in tokens' : account # None /\ t.user = account.user
  PROVE  AccountsInv'
<1>1. AccountTypeOK' /\ Owned'
  BY DEF AccountsInv, AccountTypeOK, Owned
<1>2. InStep'
  <2>1. CASE program = None
    BY <2>1 DEF InStep
  <2>2. CASE program # None
    <3>1. tokens' = tokens /\ (NoCodes => NoCodes')
      BY <2>2 DEF NoCodes
    <3> QED BY <2>2, <3>1 DEF AccountsInv, InStep, Owned, Live
  <2> QED BY <2>1, <2>2
<1> QED BY <1>1, <1>2 DEF AccountsInv

\* A code may be issued or spent for the account there is.
LEMMA NewCode ==
  ASSUME AccountsInv, UNCHANGED <<account, tokens, notes, program, accounts>>,
         program = None, NEW p \in Purposes, NEW c \in Codes, account # None,
         c.user = account.user, ~(c.code /\ c.ticket),
         entry' = [entry EXCEPT ![p] = c]
  PROVE  AccountsInv'
<1>1. /\ entry' \in [Purposes -> Codes \cup {None}]
      /\ \A q \in Purposes : entry'[q] # None => entry'[q].user = account.user
      /\ NewCodeEndsTicket'
  BY DEF AccountsInv, AccountTypeOK, Owned, NewCodeEndsTicket, Purposes
<1> QED BY <1>1, Between DEF AccountsInv, AccountTypeOK, Owned

\* A code may go at any time.
LEMMA CodeGone ==
  ASSUME AccountsInv, UNCHANGED <<account, tokens, notes, program, accounts>>,
         NEW p \in Purposes, entry' = [entry EXCEPT ![p] = None]
  PROVE  AccountsInv'
<1>1. /\ entry' \in [Purposes -> Codes \cup {None}]
      /\ \A q \in Purposes : entry[q] = None => entry'[q] = None
      /\ \A q \in Purposes : entry'[q] # None => entry'[q] = entry[q]
      /\ NewCodeEndsTicket'
  BY DEF AccountsInv, AccountTypeOK, Owned, NewCodeEndsTicket, Purposes
<1> QED BY <1>1, Between DEF AccountsInv, AccountTypeOK, Owned

\* Issuing, mistyping and expiry of a code preserve the invariant.
LEMMA CodeSteps ==
  ASSUME AccountsInv, NEW p \in Purposes, IssueCode(p) \/ WrongCode(p) \/ ExpireEntry(p)
  PROVE  AccountsInv'
<1> USE DEF AccountsInv, AccountTypeOK
<1>1. CASE IssueCode(p)
  <2> DEFINE sends == IF entry[p] = None THEN 1 ELSE entry[p].sends + 1
             c == Fresh(account.user, sends)
  <2>1. sends \in Nat /\ account.user \in Nat /\ account # None /\ program = None
    BY <1>1 DEF IssueCode, May, Codes, Users
  <2> HIDE DEF sends
  <2>3. c \in Codes /\ c.user = account.user /\ ~c.ticket
    BY <2>1 DEF Codes, Fresh
  <2>4. /\ entry' = [entry EXCEPT ![p] = c]
        /\ UNCHANGED <<account, tokens, notes, program, accounts>>
    BY <1>1 DEF IssueCode, sends
  <2> HIDE DEF c
  <2> QED BY <2>1, <2>3, <2>4, NewCode
<1>2. CASE WrongCode(p)
  <2>1. CASE entry[p].attempts + 1 >= MaxAttempts
    BY <1>2, <2>1, CodeGone DEF WrongCode
  <2>2. CASE ~(entry[p].attempts + 1 >= MaxAttempts)
    <3> DEFINE c == [entry[p] EXCEPT !.attempts = @ + 1]
    <3>1. /\ entry[p] # None /\ entry[p] \in Codes /\ program = None
          /\ account # None /\ entry[p].user = account.user
      BY <1>2 DEF WrongCode, Redeemable, May, Owned
    <3>2. /\ c \in Codes /\ c.user = entry[p].user
          /\ c.code = entry[p].code /\ c.ticket = entry[p].ticket
      BY <3>1 DEF Codes
    <3>3. /\ entry' = [entry EXCEPT ![p] = c]
          /\ UNCHANGED <<account, tokens, notes, program, accounts>>
      BY <1>2, <2>2 DEF WrongCode
    <3> HIDE DEF c
    <3>4. NewCodeEndsTicket'
      <4>1. CASE p = "reset"
        <5>1. entry'["reset"] = c
          BY <3>3, <4>1
        <5>2. ~(entry["reset"].code /\ entry["reset"].ticket)
          BY <3>1, <4>1 DEF NewCodeEndsTicket
        <5> QED BY <3>2, <4>1, <5>1, <5>2 DEF NewCodeEndsTicket
      <4>2. CASE p # "reset"
        BY <3>3, <4>2 DEF NewCodeEndsTicket, Purposes
      <4> QED BY <4>1, <4>2
    <3>5. /\ entry' \in [Purposes -> Codes \cup {None}]
          /\ \A q \in Purposes : entry'[q] # None => entry'[q].user = account.user
      BY <3>1, <3>2, <3>3 DEF Owned
    <3> QED BY <3>1, <3>3, <3>4, <3>5, Between DEF Owned
  <2> QED BY <2>1, <2>2
<1>3. CASE ExpireEntry(p)
  BY <1>3, CodeGone DEF ExpireEntry
<1> QED BY <1>1, <1>2, <1>3

\* A login by code preserves it: the code goes, or the program of its writes begins.
LEMMA LoginByCodeStep == ASSUME AccountsInv, LoginByCode PROVE AccountsInv'
<1>1. CASE account = None \/ account.user # entry["login"].user
  BY <1>1, CodeGone DEF LoginByCode, Redeemable, May, Purposes
<1>2. CASE account # None /\ account.user = entry["login"].user
  BY <1>2, Begun DEF LoginByCode, Redeemable, May
<1> QED BY <1>1, <1>2

\* A reset code swapped for a ticket preserves it.
LEMMA EarnTicketStep == ASSUME AccountsInv, EarnTicket PROVE AccountsInv'
<1> USE DEF AccountsInv, AccountTypeOK
<1> DEFINE c == [entry["reset"] EXCEPT !.code = FALSE, !.ticket = TRUE]
<1>1. program = None /\ entry["reset"] \in Codes /\ account # None
        /\ entry["reset"].user = account.user /\ "reset" \in Purposes
  BY DEF EarnTicket, Redeemable, May, Purposes, Owned
<1>2. c \in Codes /\ c.user = account.user /\ ~c.code
  BY <1>1 DEF Codes
<1>3. /\ entry' = [entry EXCEPT !["reset"] = c]
      /\ UNCHANGED <<account, tokens, notes, program, accounts>>
  BY DEF EarnTicket
<1> HIDE DEF c
<1> QED BY <1>1, <1>2, <1>3, NewCode

\* A user who signs in or fails to, or a lockout that ends.
LEMMA FailuresCounted ==
  ASSUME AccountsInv, account # None, NEW n \in Nat,
         account' = [account EXCEPT !.failures = n]
  PROVE  account' \in Users /\ account' # None /\ account'.user = account.user
BY NoneAssumption DEF AccountsInv, AccountTypeOK, Users

\* So does a login, a failed one, and the end of a lockout.
LEMMA LoginStep == ASSUME AccountsInv, Login \/ LockoutEnds PROVE AccountsInv'
<1> USE DEF AccountsInv, AccountTypeOK
<1>1. account \in Users /\ account # None /\ UNCHANGED <<entry, notes, program, accounts>>
  BY DEF Login, LockoutEnds
<1>2. PICK n \in Nat : account' = [account EXCEPT !.failures = n]
  BY <1>1 DEF Login, LockoutEnds, Users
<1>3. account' \in Users /\ account' # None /\ account'.user = account.user
  BY <1>1, <1>2, FailuresCounted
<1>4. NewCodeEndsTicket'
  BY <1>1 DEF NewCodeEndsTicket
<1>5. CASE tokens' = tokens
  BY <1>1, <1>3, <1>4, <1>5, Between DEF Owned
<1>6. CASE Login /\ IssueSession(account.user)
  <2>1. tokens' \subseteq Tokens /\ \A t \in tokens' : t.user = account.user
    BY <1>1, <1>6, SessionIssued DEF Users, Owned
  <2> QED BY <1>1, <1>3, <1>4, <1>6, <2>1, Between DEF Owned, Login, May
<1> QED BY <1>5, <1>6 DEF Login, LockoutEnds

\* A request that changes tokens of the account only by revoking them.
LEMMA RevokeStep ==
  ASSUME AccountsInv, program = None,
         UNCHANGED <<account, entry, notes, program, accounts>>,
         tokens' \subseteq Tokens, \A t \in tokens' : \E s \in tokens : t.user = s.user
  PROVE  AccountsInv'
<1>1. \A t \in tokens' : account # None /\ t.user = account.user
  BY DEF AccountsInv, Owned
<1>2. NewCodeEndsTicket'
  BY DEF AccountsInv, NewCodeEndsTicket
<1>3. /\ AccountTypeOK
      /\ \A p \in Purposes : entry[p] # None => account # None /\ entry[p].user = account.user
  BY DEF AccountsInv, Owned
<1> QED BY <1>1, <1>2, <1>3, Between DEF AccountTypeOK

\* A refresh and a logout preserve it.
LEMMA SessionSteps == ASSUME AccountsInv, Refresh \/ Logout PROVE AccountsInv'
<1>1. tokens \subseteq Tokens
  BY DEF AccountsInv, AccountTypeOK
<1>2. CASE Refresh
  <2>1. PICK t \in tokens :
          IF t.revoked
          THEN tokens' = Revoked(tokens, t.user) /\ UNCHANGED program
          ELSE /\ account # None
               /\ program' = [kind |-> "rotate", at |-> 1, user |-> t.user, token |-> t]
               /\ UNCHANGED tokens
    BY <1>2 DEF Refresh
  <2>2. program = None /\ UNCHANGED <<account, entry, notes, accounts>>
    BY <1>2 DEF Refresh
  <2>3. CASE t.revoked
    <3>1. tokens' \subseteq Tokens /\ \A u \in tokens' : \E s \in tokens : u.user = s.user
      BY <1>1, <2>1, <2>3, AllRevoked
    <3> QED BY <2>1, <2>2, <2>3, <3>1, RevokeStep
  <2>4. CASE ~t.revoked
    BY <2>1, <2>2, <2>4, Begun
  <2> QED BY <2>3, <2>4
<1>3. CASE Logout
  <2>1. PICK t \in tokens : tokens' = (tokens \ {t}) \cup {[t EXCEPT !.revoked = TRUE]}
    BY <1>3 DEF Logout
  <2>2. t \in Tokens
    BY <1>1
  <2>3. tokens' \subseteq Tokens /\ \A u \in tokens' : u \in tokens \/ u.user = t.user
    BY <1>1, <2>1, <2>2, OneRevoked
  <2>4. program = None /\ UNCHANGED <<account, entry, notes, program, accounts>>
    BY <1>3 DEF Logout, May
  <2> QED BY <2>3, <2>4, RevokeStep
<1> QED BY <1>2, <1>3

\* The requests that only change what the invariant does not speak of, or begin a program.
LEMMA OtherRequests ==
  ASSUME AccountsInv,
         Start \/ VerifyEmail \/ MisverifyEmail \/ ResendCode \/ ExpirePending \/ LinkBank
           \/ FindRecipient \/ Complete \/ Reset \/ Notify \/ Delete
  PROVE  AccountsInv'
<1>1. CASE Start \/ VerifyEmail \/ MisverifyEmail \/ ResendCode \/ ExpirePending \/ LinkBank
             \/ FindRecipient
  BY <1>1, Undisturbed
     DEF Start, VerifyEmail, MisverifyEmail, ResendCode, ExpirePending, LinkBank, FindRecipient
<1>2. CASE Complete
  BY <1>2, Undisturbed, Begun DEF Complete
<1>3. CASE Reset
  <2>1. CASE account = None \/ account.user # entry["reset"].user
    BY <1>3, <2>1, CodeGone DEF Reset, Purposes
  <2>2. CASE account # None /\ account.user = entry["reset"].user
    BY <1>3, <2>2, Begun DEF Reset
  <2> QED BY <2>1, <2>2
<1>4. CASE Notify
  <2>1. UNCHANGED <<account, entry, tokens, program, accounts>>
    BY <1>4 DEF Notify
  <2>2. notes' \subseteq {"timely", "late"}
    BY <1>4 DEF Notify, AccountsInv, AccountTypeOK
  <2>3. /\ account = None => notes' \subseteq notes \cup {"late"}
        /\ program # None /\ program.kind \in {"complete", "delete"}
             => notes' \subseteq notes \cup {"late"}
    BY <1>4 DEF Notify
  <2>4. AccountTypeOK' /\ Owned' /\ NewCodeEndsTicket'
    BY <2>1, <2>2, <2>3 DEF AccountsInv, AccountTypeOK, Owned, NewCodeEndsTicket
  <2>5. InStep'
    BY <2>1, <2>3 DEF AccountsInv, InStep, NoCodes, Live
  <2> QED BY <2>4, <2>5 DEF AccountsInv
<1>5. CASE Delete
  BY <1>5, Begun DEF Delete
<1> QED BY <1>1, <1>2, <1>3, <1>4, <1>5

-----------------------------------------------------------------------------
(* Programs.                                                               *)

\* The rest of a program that has ended, or goes on with its next write.
LEMMA ProgramGoesOn ==
  ASSUME AccountsInv, program # None, Proceed
  PROVE  /\ program \in Programs /\ program' \in Programs \cup {None}
         /\ program.at <= Len(Writes(program.kind))
         /\ program.at \in Nat
         /\ program' # None =>
              /\ program'.kind = program.kind
              /\ program'.user = program.user
              /\ program'.at = program.at + 1
              /\ program'.at <= Len(Writes(program'.kind))
              /\ program.kind = "rotate" => program'.token = program.token
<1>1. program \in Programs /\ program.at <= Len(Writes(program.kind))
  BY DEF AccountsInv, AccountTypeOK, InStep
<1>2. program.at \in Nat
  BY <1>1 DEF Programs
<1> QED BY <1>1, <1>2, Proceeded

\* A program that stops leaves nothing to be proved of it.
LEMMA Stopped ==
  ASSUME AccountsInv, program' = None, UNCHANGED <<entry, tokens, notes, accounts>>,
         \/ UNCHANGED account
         \/ account' = None /\ "timely" \notin notes /\ tokens = {} /\ NoCodes
  PROVE  AccountsInv'
BY DEF AccountsInv, AccountTypeOK, Owned, InStep, NewCodeEndsTicket, NoCodes

\* The first two writes of a sign-up: the account, and its role or its end.
LEMMA SignUpSteps ==
  ASSUME AccountsInv, program # None, CreateAccount \/ AddRole
  PROVE  AccountsInv'
<1>1. program \in Programs /\ program.at <= Len(Writes(program.kind)) /\ program.user \in Nat
  BY DEF AccountsInv, AccountTypeOK, InStep, Programs
<1>2. CASE CreateAccount
  <2>1. program.kind = "complete" /\ program.at = 1
    BY <1>1, <1>2, WriteAt DEF CreateAccount
  <2>2. account = None /\ "timely" \notin notes /\ tokens = {} /\ NoCodes
    BY <2>1 DEF AccountsInv, InStep
  <2>3. /\ account' = [user |-> program.user, role |-> FALSE, failures |-> 0]
        /\ accounts' = accounts + 1 /\ Proceed /\ UNCHANGED <<entry, tokens, notes>>
    BY <1>2, <2>2 DEF CreateAccount
  <2>4. account' \in Users /\ account' # None /\ account'.user = program.user
    <3>1. account' \in Users /\ account'.user = program.user
      BY <1>1, <2>3 DEF Users
    <3> QED BY <3>1, NoneAssumption
  <2>5. AccountTypeOK' /\ Owned' /\ NewCodeEndsTicket'
    BY <2>2, <2>3, <2>4, ProgramGoesOn
       DEF AccountsInv, AccountTypeOK, Owned, NewCodeEndsTicket, NoCodes, Purposes
  <2>6. InStep'
    BY <2>1, <2>2, <2>3, <2>4, ProgramGoesOn DEF InStep, NoCodes
  <2> QED BY <2>5, <2>6 DEF AccountsInv
<1>3. CASE AddRole
  <2>1. program.kind = "complete" /\ program.at = 2
    BY <1>1, <1>3, WriteAt DEF AddRole
  <2>2. "timely" \notin notes /\ tokens = {} /\ NoCodes /\ account # None /\ account.user = program.user
    BY <2>1 DEF AccountsInv, InStep
  <2>3. UNCHANGED <<entry, tokens, notes, accounts>>
    BY <1>3 DEF AddRole
  <2>4. CASE account' = None /\ program' = None
    BY <2>2, <2>3, <2>4, Stopped
  <2>5. CASE account' = [account EXCEPT !.role = TRUE] /\ Proceed
    <3>0. account \in Users
      BY <2>2 DEF AccountsInv, AccountTypeOK
    <3>1. account' \in Users /\ account' # None /\ account'.user = program.user
      BY <2>2, <2>5, <3>0, NoneAssumption DEF Users
    <3>2. AccountTypeOK' /\ Owned' /\ NewCodeEndsTicket'
      BY <2>2, <2>3, <2>5, <3>1, ProgramGoesOn
         DEF AccountsInv, AccountTypeOK, Owned, NewCodeEndsTicket, NoCodes, Purposes
    <3>3. InStep'
      BY <2>1, <2>2, <2>3, <2>5, <3>1, ProgramGoesOn DEF InStep, NoCodes
    <3> QED BY <3>2, <3>3 DEF AccountsInv
  <2> QED BY <1>3, <2>4, <2>5 DEF AddRole
<1> QED BY <1>2, <1>3

\* Every other write of a program is of an account that exists and is the program's.
LEMMA OfTheAccount ==
  ASSUME AccountsInv, program # None, program.kind # "complete" \/ program.at # 1
  PROVE  account \in Users /\ account # None /\ account.user = program.user
BY DEF AccountsInv, AccountTypeOK, InStep

\* The session of a sign-up, a login or a rotation.
LEMMA SessionAdded == ASSUME AccountsInv, program # None, AddSession PROVE AccountsInv'
<1>1. program \in Programs /\ program.at <= Len(Writes(program.kind)) /\ program.user \in Nat
  BY DEF AccountsInv, AccountTypeOK, InStep, Programs
<1>2. \/ program.kind = "complete" /\ program.at = 4
      \/ program.kind = "rotate" /\ program.at = 2
      \/ program.kind = "login" /\ program.at = 3
  BY <1>1, WriteAt DEF AddSession
<1>3. account \in Users /\ account # None /\ account.user = program.user
  BY <1>2, OfTheAccount
<1>4. Proceed /\ UNCHANGED <<account, entry, notes, accounts>>
  BY DEF AddSession
<1>5. tokens' \subseteq Tokens /\ \A t \in tokens' : t.user = account.user
  BY <1>1, <1>3, SessionIssued DEF AddSession, AccountsInv, AccountTypeOK, Owned
<1>6. AccountTypeOK' /\ Owned' /\ NewCodeEndsTicket'
  BY <1>3, <1>4, <1>5, ProgramGoesOn DEF AccountsInv, AccountTypeOK, Owned, NewCodeEndsTicket
<1>7. program' = None
  BY <1>1, <1>2, <1>4, WritesOf DEF Proceed
<1> QED BY <1>6, <1>7 DEF AccountsInv, InStep

\* The token that a rotation replaces.
LEMMA RotationRevokes == ASSUME AccountsInv, program # None, RevokeOne PROVE AccountsInv'
<1>1. program \in Programs /\ program.at <= Len(Writes(program.kind))
  BY DEF AccountsInv, AccountTypeOK, InStep
<1>2. program.kind = "rotate" /\ program.at = 1
  BY <1>1, WriteAt DEF RevokeOne
<1>3. /\ program.token \in Tokens /\ program.token.user = account.user
      /\ account \in Users /\ account # None /\ account.user = program.user
  BY <1>1, <1>2, OfTheAccount DEF AccountsInv, InStep, Programs
<1>4. Proceed /\ UNCHANGED <<account, entry, notes, accounts>>
  BY DEF RevokeOne
<1>5. tokens' \subseteq Tokens /\ \A t \in tokens' : t.user = account.user
  BY <1>3, OneRevoked DEF RevokeOne, AccountsInv, AccountTypeOK, Owned
<1>6. AccountTypeOK' /\ Owned' /\ NewCodeEndsTicket'
  BY <1>3, <1>4, <1>5, ProgramGoesOn DEF AccountsInv, AccountTypeOK, Owned, NewCodeEndsTicket
<1>7. InStep'
  BY <1>2, <1>3, <1>4, ProgramGoesOn DEF InStep
<1> QED BY <1>6, <1>7 DEF AccountsInv

\* The writes of a password reset, two of which a login makes as well.
LEMMA ResetSteps ==
  ASSUME AccountsInv, program # None, SetPassword \/ DropEntry \/ RevokeAll \/ Forget \/ Unlock
  PROVE  AccountsInv'
<1>1. program \in Programs /\ program.at <= Len(Writes(program.kind)) /\ program.at \in Nat
  BY DEF AccountsInv, AccountTypeOK, InStep, Programs
<1>2. /\ program.kind \in {"reset", "login"}
      /\ SetPassword \/ RevokeAll \/ Unlock => program.kind = "reset"
  BY <1>1, WriteAt DEF SetPassword, DropEntry, RevokeAll, Forget, Unlock
<1>3. account \in Users /\ account # None /\ account.user = program.user
  BY <1>2, OfTheAccount
<1>4. CASE SetPassword
  <2>1. UNCHANGED <<account, entry, tokens, notes, accounts>>
    BY <1>4 DEF SetPassword
  <2>2. program.at = 1
    BY <1>1, <1>4, WriteAt DEF SetPassword
  <2>3. CASE program' = None
    BY <2>1, <2>3, Stopped
  <2>4. CASE Proceed
    <3>1. AccountTypeOK' /\ Owned' /\ NewCodeEndsTicket'
      BY <2>1, <2>4, ProgramGoesOn DEF AccountsInv, AccountTypeOK, Owned, NewCodeEndsTicket
    <3>2. InStep'
      BY <1>2, <1>3, <2>1, <2>2, <2>4, ProgramGoesOn DEF InStep
    <3> QED BY <3>1, <3>2 DEF AccountsInv
  <2> QED BY <1>4, <2>3, <2>4 DEF SetPassword
<1>5. CASE DropEntry
  <2>1. /\ program.kind = "reset" => program.at = 2
        /\ program.kind = "login" => program.at = 1
        /\ Proceed /\ UNCHANGED <<account, tokens, notes, accounts>>
    BY <1>1, <1>5, WriteAt DEF DropEntry
  <2>2. PICK p \in Purposes : entry' = [entry EXCEPT ![p] = None]
    BY <1>2, <1>5 DEF DropEntry, Purposes
  <2>3. AccountTypeOK' /\ Owned' /\ NewCodeEndsTicket'
    BY <2>1, <2>2, ProgramGoesOn
       DEF AccountsInv, AccountTypeOK, Owned, NewCodeEndsTicket, Purposes
  <2>4. InStep'
    BY <1>2, <1>3, <2>1, ProgramGoesOn DEF InStep
  <2> QED BY <2>3, <2>4 DEF AccountsInv
<1>6. CASE RevokeAll
  <2>1. program.at = 3 /\ Proceed /\ UNCHANGED <<account, entry, notes, accounts>>
    BY <1>1, <1>6, WriteAt DEF RevokeAll
  <2>2. /\ tokens' \subseteq Tokens
        /\ \A t \in tokens' : \E s \in tokens : t.user = s.user
        /\ \A t \in tokens' : t.user = program.user => t.revoked
    BY <1>6, AllRevoked DEF RevokeAll, AccountsInv, AccountTypeOK
  <2>3. AccountTypeOK' /\ Owned' /\ NewCodeEndsTicket'
    BY <1>3, <2>1, <2>2, ProgramGoesOn
       DEF AccountsInv, AccountTypeOK, Owned, NewCodeEndsTicket
  <2>4. InStep'
    BY <1>2, <1>3, <2>1, <2>2, ProgramGoesOn DEF InStep, Live
  <2> QED BY <2>3, <2>4 DEF AccountsInv
<1>7. CASE Forget \/ Unlock
  <2>1. Proceed /\ UNCHANGED <<entry, tokens, notes, accounts>>
    BY <1>7 DEF Forget, Unlock
  <2>2. account' = account \/ account' = [account EXCEPT !.failures = 0]
    BY <1>7 DEF Forget, Unlock
  <2>3. account' \in Users /\ account' # None /\ account'.user = account.user
    BY <1>3, <2>2, FailuresCounted
  <2>4. AccountTypeOK' /\ Owned' /\ NewCodeEndsTicket'
    BY <1>3, <2>1, <2>3, ProgramGoesOn
       DEF AccountsInv, AccountTypeOK, Owned, NewCodeEndsTicket
  <2>0. Write \in {"forget", "unlock"}
    BY <1>7 DEF Forget, Unlock
  <2>5. program.kind = "reset" => program.at \in {4, 5}
    BY <1>1, <2>0, WriteAt
  <2>6. program.kind = "reset" => Live(program.user) = {}
    BY <2>5 DEF AccountsInv, InStep
  <2>7. InStep'
    BY <1>2, <1>3, <2>1, <2>3, <2>6, ProgramGoesOn DEF InStep, Live
  <2> QED BY <2>4, <2>7 DEF AccountsInv
<1> QED BY <1>4, <1>5, <1>6, <1>7

\* The writes of a deletion, one of which a sign-up makes as well.
LEMMA DeletionSteps ==
  ASSUME AccountsInv, program # None, CloseBank \/ Purge \/ DropPending \/ DropAccount
  PROVE  AccountsInv'
<1>1. program \in Programs /\ program.at <= Len(Writes(program.kind)) /\ program.at \in Nat
  BY DEF AccountsInv, AccountTypeOK, InStep, Programs
<1>2. \/ program.kind = "delete"
      \/ program.kind = "complete" /\ program.at = 3
  BY <1>1, WriteAt DEF CloseBank, Purge, DropPending, DropAccount
<1>3. account \in Users /\ account # None /\ account.user = program.user
  BY <1>2, OfTheAccount
<1>4. CASE CloseBank
  <2>1. /\ program.kind = "delete" /\ program.at = 1
        /\ UNCHANGED <<account, entry, tokens, notes, accounts>>
    BY <1>1, <1>4, WriteAt DEF CloseBank
  <2>2. CASE program' = None
    BY <2>1, <2>2, Stopped
  <2>3. CASE Proceed
    <3>1. AccountTypeOK' /\ Owned' /\ NewCodeEndsTicket'
      BY <2>1, <2>3, ProgramGoesOn DEF AccountsInv, AccountTypeOK, Owned, NewCodeEndsTicket
    <3>2. InStep'
      BY <1>3, <2>1, <2>3, ProgramGoesOn DEF InStep
    <3> QED BY <3>1, <3>2 DEF AccountsInv
  <2> QED BY <1>4, <2>2, <2>3 DEF CloseBank
<1>5. CASE DropPending
  <2>1. Proceed /\ UNCHANGED <<account, entry, tokens, notes, accounts>>
    BY <1>5 DEF DropPending
  <2>2. \/ program.kind = "complete" /\ program.at = 3
        \/ program.kind = "delete" /\ program.at = 4
    BY <1>1, <1>5, WriteAt DEF DropPending
  <2>3. AccountTypeOK' /\ Owned' /\ NewCodeEndsTicket'
    BY <2>1, ProgramGoesOn DEF AccountsInv, AccountTypeOK, Owned, NewCodeEndsTicket
  <2>4. program.kind = "delete" => "timely" \notin notes /\ tokens = {}
    BY <2>2 DEF AccountsInv, InStep
  <2>5. InStep'
    BY <1>3, <2>1, <2>2, <2>4, ProgramGoesOn DEF InStep
  <2> QED BY <2>3, <2>5 DEF AccountsInv
<1>6. CASE Purge
  <2>1. Proceed /\ UNCHANGED <<account, accounts>>
    BY <1>6 DEF Purge
  <2>2. /\ notes' \subseteq notes
        /\ tokens' \subseteq tokens
        /\ entry' \in [Purposes -> Codes \cup {None}]
        /\ \A p \in Purposes : entry'[p] = None \/ entry'[p] = entry[p]
    BY <1>6 DEF Purge, AccountsInv, AccountTypeOK
  <2>3. AccountTypeOK' /\ Owned'
    BY <1>3, <2>1, <2>2, ProgramGoesOn DEF AccountsInv, AccountTypeOK, Owned
  <2>4. NewCodeEndsTicket'
    BY <2>2 DEF AccountsInv, NewCodeEndsTicket, Purposes
  <2>5. program.kind = "delete" /\ program.at \in {2, 3, 5}
    BY <1>1, <1>6, WriteAt DEF Purge
  <2>6. /\ program.at = 2 => "timely" \notin notes'
        /\ program.at = 3 => tokens' = {}
        /\ program.at = 5 => NoCodes'
    BY <1>1, <1>3, <1>6, <2>5, WriteAt DEF Purge, AccountsInv, Owned, NoCodes
  <2>7. /\ program.at >= 3 => "timely" \notin notes
        /\ program.at >= 4 => tokens = {}
    BY <2>5 DEF AccountsInv, InStep
  <2>8. InStep'
    BY <1>3, <2>1, <2>2, <2>5, <2>6, <2>7, ProgramGoesOn DEF InStep
  <2> QED BY <2>3, <2>4, <2>8 DEF AccountsInv
<1>7. CASE DropAccount
  <2>1. program.kind = "delete" /\ program.at = 6 /\ Proceed /\ account' = None
        /\ UNCHANGED <<entry, tokens, notes, accounts>>
    BY <1>1, <1>7, WriteAt DEF DropAccount
  <2>2. "timely" \notin notes /\ tokens = {} /\ NoCodes
    BY <2>1 DEF AccountsInv, InStep
  <2>3. program' = None
    BY <2>1, WritesOf DEF Proceed
  <2> QED BY <2>1, <2>2, <2>3, Stopped
<1> QED BY <1>4, <1>5, <1>6, <1>7

-----------------------------------------------------------------------------
\* The invariant holds at first.
LEMMA AccountsInvInit == Init => AccountsInv
<1> SUFFICES ASSUME Init PROVE AccountsInv
  OBVIOUS
<1>1. AccountTypeOK
  BY DEF Init, AccountTypeOK
<1>2. Owned /\ NewCodeEndsTicket
  BY DEF Init, Owned, NewCodeEndsTicket, Purposes
<1>3. InStep
  BY DEF Init, InStep
<1> QED BY <1>1, <1>2, <1>3 DEF AccountsInv

\* Every step preserves it.
LEMMA AccountsInvStep == AccountsInv /\ [Next]_vars => AccountsInv'
<1> SUFFICES ASSUME AccountsInv, [Next]_vars PROVE AccountsInv'
  OBVIOUS
<1>1. CASE Start \/ VerifyEmail \/ MisverifyEmail \/ ResendCode \/ ExpirePending \/ LinkBank
             \/ FindRecipient \/ Complete \/ Reset \/ Notify \/ Delete
  BY <1>1, OtherRequests
<1>2. CASE \E p \in Purposes : IssueCode(p) \/ WrongCode(p) \/ ExpireEntry(p)
  BY <1>2, CodeSteps
<1>3. CASE LoginByCode
  BY <1>3, LoginByCodeStep
<1>4. CASE EarnTicket
  BY <1>4, EarnTicketStep
<1>5. CASE Login \/ LockoutEnds
  BY <1>5, LoginStep
<1>6. CASE Refresh \/ Logout
  BY <1>6, SessionSteps
<1>7. CASE ProgramStep
  BY <1>7, SignUpSteps, SessionAdded, RotationRevokes, ResetSteps, DeletionSteps DEF ProgramStep
<1>8. CASE Crash
  BY <1>8, Stopped DEF Crash
<1>9. CASE UNCHANGED vars
  BY <1>9, Undisturbed DEF vars
<1> QED BY <1>1, <1>2, <1>3, <1>4, <1>5, <1>6, <1>7, <1>8, <1>9 DEF Next

\* Whatever an address goes through, the inductive invariant holds.
THEOREM AccountsInvariant == Spec => []AccountsInv
BY AccountsInvInit, AccountsInvStep, PTL DEF Spec

\* A stored code is of the account there is, so that one asked for by an earlier holder of
\* the address is never redeemed: the test of LoginByCode and Reset for it never fires
\* as long as requests come one at a time.
THEOREM CodesAreTheAccounts == Spec => []CodesAreOfTheAccount
<1>1. AccountsInv => CodesAreOfTheAccount
  BY DEF AccountsInv, Owned, CodesAreOfTheAccount
<1> QED BY <1>1, AccountsInvariant, PTL

\* However deletions and sign-ups are cut short, no token or code is left for whoever
\* registers the address next, and no notification but one whose sender raced with them.
THEOREM NothingOutlivesTheAccount == Spec => []RowsBelongToAnAccount
<1>1. AccountsInv => RowsBelongToAnAccount
  BY DEF AccountsInv, AccountTypeOK, Owned, RowsBelongToAnAccount
<1> QED BY <1>1, AccountsInvariant, PTL

\* No reset document holds a code and a ticket at once: a new code ends the old ticket.
THEOREM CodeOrTicket == Spec => []NewCodeEndsTicket
<1>1. AccountsInv => NewCodeEndsTicket
  BY DEF AccountsInv
<1> QED BY <1>1, AccountsInvariant, PTL

\* When a password reset answers, every session of the account has been revoked.
THEOREM ResetEndsSessions == Spec => AnsweredResetEndsSessions
<1>1. AccountsInv /\ [Next]_vars => [program # None /\ Unlock => Live(program.user) = {}]_vars
  <2> SUFFICES ASSUME AccountsInv, program # None, Unlock PROVE Live(program.user) = {}
    OBVIOUS
  <2>1. program.kind = "reset" /\ program.at = 5
    BY WriteAt DEF Unlock, AccountsInv, AccountTypeOK, InStep
  <2> QED BY <2>1 DEF AccountsInv, InStep
<1> QED BY <1>1, AccountsInvariant, PTL DEF Spec, AnsweredResetEndsSessions
=============================================================================
