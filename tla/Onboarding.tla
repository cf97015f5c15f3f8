----------------------------- MODULE Onboarding -----------------------------
(***************************************************************************)
(* How administrators, customers and accounts come to be, and the two      *)
(* places where a transfer makes rows of the bank itself: the settlement   *)
(* account of the first transfer abroad, and the FAILED row of a refused   *)
(* one, written by a transaction inside another.                           *)
(***************************************************************************)
EXTENDS Registry

\* Mutant: the email is stored as it was typed.
StoredEmail_AsTyped(c) == req[c].name

\* A customer's email is stored in lower case, an administrator's as it was typed.
StoredEmail(c) == IF Is(c, "customer") THEN Lower[req[c].name] ELSE req[c].name

\* The row a call creates.
NewUser(c) ==
  [f \in Fields |->
     CASE f = "email"    -> StoredEmail(c)
       [] f = "username" -> StoredUsername(c)
       [] f = "password" -> req[c].password
       [] f = "answer"   -> req[c].secret
       [] f = "avatar"   -> None
       [] f = "role"     -> IF Is(c, "signup") THEN "ADMIN" ELSE "CUSTOMER"]

\* The numbers found are remembered, or there is none to be had.
PickNumbers(c, proceed) ==
  \/ \E ns \in Available(c) :
       /\ picked' = [picked EXCEPT ![c] = ns]
       /\ proceed
  \/ /\ Available(c) = {}
     /\ Answer(c, "REFUSED")
     /\ UNCHANGED picked

\* signup/admin looks the email up and picks a number in one transaction;
\* createCustomerWithAccounts does, for all its accounts, in the one it will write in.
CheckNewUser(c) ==
  /\ req[c].op \in {"signup", "customer"}
  /\ Inside(c, "check")
  /\ \/ /\ NameTaken(c, StoredEmail(c), StoredUsername(c))
        /\ Answer(c, "REFUSED")
        /\ UNCHANGED picked
     \/ /\ ~NameTaken(c, StoredEmail(c), StoredUsername(c))
        /\ PickNumbers(c, IF Is(c, "signup") THEN Then(c, "write") ELSE Stay(c, "write"))
  /\ UNCHANGED <<req, tables, found, sawSettlement>>

\* A value somebody committed since it was looked up.
Collides(c) ==
  \/ NameTaken(c, StoredEmail(c), StoredUsername(c))
  \/ \E i \in DOMAIN picked[c] : NumberTaken(picked[c][i])

\* The user and the accounts are inserted, all or nothing.  Only the customer's
\* creation is audited.
CreateUser(c) ==
  /\ req[c].op \in {"signup", "customer"}
  /\ Inside(c, "write")
  /\ \/ /\ Collides(c)
        /\ Answer(c, "TAKEN")
        /\ UNCHANGED tables
     \/ /\ ~Collides(c)
        /\ user' = [user EXCEPT ![c] = NewUser(c)]
        /\ account' = account \cup AccountRows(c, picked[c])
        /\ Committed(c)
        /\ IF Is(c, "customer") THEN RecordAudit(c) ELSE UNCHANGED audit
        /\ Answer(c, "OK")
        /\ UNCHANGED settlement
  /\ UNCHANGED <<req, reads>>

\* Mutant: one account too many.
AtLimit_OneMore(u) == Cardinality(AccountsOf(u)) > MaxAccounts

AtLimit(u) == Cardinality(AccountsOf(u)) >= MaxAccounts

\* createCustomerAccount counts the customer's accounts and picks a number ...
CheckNewAccount(c) ==
  /\ Is(c, "account")
  /\ Inside(c, "check")
  /\ \/ /\ AtLimit(req[c].by)
        /\ Answer(c, "REFUSED")
        /\ UNCHANGED picked
     \/ /\ ~AtLimit(req[c].by)
        /\ PickNumbers(c, Then(c, "write"))
  /\ UNCHANGED <<req, tables, found, sawSettlement>>

\* ... and inserts the account without counting again.
CreateAccount(c) ==
  /\ Is(c, "account")
  /\ Inside(c, "write")
  /\ \/ /\ \E i \in DOMAIN picked[c] : NumberTaken(picked[c][i])
        /\ Answer(c, "TAKEN")
        /\ UNCHANGED tables
     \/ /\ \A i \in DOMAIN picked[c] : ~NumberTaken(picked[c][i])
        /\ account' = account \cup AccountRows(req[c].by, picked[c])
        /\ Committed(c)
        /\ RecordAudit(c)
        /\ Answer(c, "OK")
        /\ UNCHANGED <<user, settlement>>
  /\ UNCHANGED <<req, reads>>

-----------------------------------------------------------------------------
\* ensureSystemLedgerAccount looks for the settlement account inside the transaction
\* of a transfer abroad ...
FindSettlement(c) ==
  /\ Is(c, "abroad")
  /\ Inside(c, "check")
  /\ sawSettlement' = [sawSettlement EXCEPT ![c] = settlement # None]
  /\ Stay(c, "write")
  /\ UNCHANGED <<req, tables, found, picked>>

\* ... and creates it if there was none.  Another's is a unique violation, which is
\* not the idempotency key's: the transfer fails.
PayAbroad(c) ==
  /\ Is(c, "abroad")
  /\ Inside(c, "write")
  /\ \/ /\ ~sawSettlement[c]
        /\ settlement # None
        /\ Answer(c, "TAKEN")
        /\ UNCHANGED tables
     \/ /\ ~sawSettlement[c] => settlement = None
        /\ settlement' = IF sawSettlement[c] THEN settlement ELSE c
        /\ Committed(c)
        /\ RecordAudit(c)
        /\ Answer(c, "OK")
        /\ UNCHANGED <<user, account>>
  /\ UNCHANGED <<req, reads>>

\* createTransfer finds the sender's account frozen ...
FindSenderBlocked(c) ==
  /\ Is(c, "blocked")
  /\ Inside(c, "check")
  /\ Stay(c, "record")
  /\ UNCHANGED <<req, tables, reads>>

\* ... and records the FAILED transfer before the transaction it is in is rolled back.
RecordFailure(c) ==
  /\ Inside(c, "record")
  /\ Committed(c)
  /\ RecordAudit(c)
  /\ Answer(c, "REFUSED")
  /\ UNCHANGED <<req, user, account, settlement, reads>>

OnboardingNext(c) ==
  \/ CheckNewUser(c)
  \/ CreateUser(c)
  \/ CheckNewAccount(c)
  \/ CreateAccount(c)
  \/ FindSettlement(c)
  \/ PayAbroad(c)
  \/ FindSenderBlocked(c)
  \/ RecordFailure(c)
=============================================================================
