----------------------------- MODULE Registry ------------------------------
(***************************************************************************)
(* The tables of people and accounts, the audit log, and the pool of       *)
(* database connections every call takes its transactions from.            *)
(*                                                                         *)
(* A route runs its transactions one after the other: pc[c] is the next    *)
(* one ("check", "write", "audit"), held[c] the connections call c holds   *)
(* now.  What a transaction has written shows when it commits, so a step   *)
(* that writes is the commit; of two transactions that insert the same     *)
(* unique value, the second to commit is the one PostgreSQL refuses.  A    *)
(* user row is named by the call that inserts it.                          *)
(***************************************************************************)
EXTENDS Integers, FiniteSets, Sequences

CONSTANTS
  Calls,        \* calls of the API
  Founders,     \* users there are to begin with
  FoundersRow,  \* and what is known of them
  Names,        \* emails and usernames, as typed
  Usernames,    \* those without an @: no email is one, and a username always is
  Lower,        \* toLowerCase
  Secrets,      \* passwords and security answers
  Numbers,      \* account numbers
  Generated,    \* in place of a number: the bank picks one
  FirstAccounts,\* the founders' accounts
  None,         \* null
  Scenarios,    \* what the calls of a behaviour ask for
  PoolSize,     \* connections of the database client
  MaxAccounts   \* MAX_ACCOUNTS_PER_CUSTOMER

Users == Founders \cup Calls
Fields == {"email", "username", "password", "answer", "avatar", "role"}
Roles == {"ADMIN", "CUSTOMER"}
Values == Names \cup Secrets \cup Calls \cup Roles \cup {None}

\* A row of the User table; the row of a user who is not there yet has no role.
UserRow == [Fields -> Values]
NoUser == [f \in Fields |-> None]

AccountRow == [number : Numbers, owner : Users]

\* The calls that change one user's own row, each in a transaction of its own.
OwnOps == {"profile", "security", "password", "reset", "avatar"}
Ops == {"signup", "customer", "account", "login", "abroad", "blocked"} \cup OwnOps

\* What a call brings along: who is signed in, what was typed.
Request ==
  [op : Ops, by : Founders \cup {None}, name : Names \cup {None}, username : Names \cup {None},
   secret : Secrets \cup {None}, password : Secrets \cup {None},
   numbers : Seq(Numbers \cup {Generated})]

ASSUME CallsAssumption ==
  /\ IsFiniteSet(Calls)
  /\ Calls \cap Founders = {}
  /\ None \notin Users \cup Names \cup Secrets \cup Roles
ASSUME LowerAssumption == Lower \in [Names -> Names] /\ \A n \in Names : Lower[Lower[n]] = Lower[n]
ASSUME UsernamesAssumption ==
  /\ Usernames \subseteq Names
  /\ \A n \in Names : Lower[n] \in Usernames <=> n \in Usernames

\* The founders' names are in the unique columns of User, and their accounts' numbers in
\* that of Account; customers' emails are stored in lower case.
ASSUME FoundersAssumption ==
  /\ FoundersRow \in [Founders -> UserRow]
  /\ \A u \in Founders :
       /\ FoundersRow[u].email \in Names \ Usernames
       /\ FoundersRow[u].username \in Usernames \cup {None}
       /\ FoundersRow[u].role = "CUSTOMER" => Lower[FoundersRow[u].email] = FoundersRow[u].email
  /\ \A u, v \in Founders :
       /\ FoundersRow[u].email = FoundersRow[v].email => u = v
       /\ FoundersRow[u].username = FoundersRow[v].username =>
            u = v \/ FoundersRow[u].username = None
ASSUME NumbersAssumption == Generated \notin Numbers

\* They have no more accounts than they may.
ASSUME FirstAccountsAssumption ==
  /\ FirstAccounts \subseteq AccountRow /\ IsFiniteSet(FirstAccounts)
  /\ \A a, b \in FirstAccounts : a.number = b.number => a = b
  /\ \A u \in Founders : Cardinality({a \in FirstAccounts : a.owner = u}) <= MaxAccounts
ASSUME ScenariosAssumption == Scenarios \subseteq [Calls -> Request]

\* A body that does not fit its schema is refused before anything is looked up.  An
\* account is opened one at a time, with a number of the bank's.
ASSUME BodiesAssumption ==
  \A asked \in Scenarios, c \in Calls :
    /\ asked[c].op \in {"signup", "customer", "login", "reset"} => asked[c].name # None
    /\ asked[c].op \in {"signup", "customer"} => asked[c].name \notin Usernames
    /\ asked[c].username \in Usernames \cup {None}
    /\ asked[c].op = "account" => asked[c].numbers = <<Generated>>
ASSUME LimitsAssumption == PoolSize \in Nat \ {0} /\ MaxAccounts \in Nat \ {0}

VARIABLES
  req,          \* what each call asks for
  pc,           \* the transaction each call runs next
  held,         \* connections each call holds
  answer,       \* the answers
  user,         \* User
  account,      \* Account, with the ledger account of each
  settlement,   \* the call that made the external settlement account
  audit,        \* calls AuditLog tells of
  found,        \* the user a call read
  picked,       \* account numbers a call found free
  sawSettlement,\* whether a transfer abroad found the settlement account
  committed,    \* calls whose change is in the database
  met,          \* calls that were ever in flight together with a call
  proved        \* calls whose secret was right at some moment since they began

tables == <<user, account, settlement, audit, committed>>
reads == <<found, picked, sawSettlement>>
history == <<met, proved>>
vars == <<req, pc, held, answer, tables, reads, history>>

Is(c, op) == req[c].op = op
InFlight == {c \in Calls : pc[c] \notin {"idle", "done"}}

-----------------------------------------------------------------------------
(* Connections.                                                            *)

\* Connections nobody holds.
Free == PoolSize - (Cardinality({c \in Calls : held[c] >= 1})
                      + Cardinality({c \in Calls : held[c] = 2}))

\* recordFailedOutgoingTransfer opens a transaction inside the one that validates.
Needed(c) == IF pc[c] = "record" THEN 2 ELSE 1

\* A call is inside the transaction of its current step.
Inside(c, step) == pc[c] = step /\ held[c] = Needed(c)

\* Mutant: there is always one more connection.
Connect_Unbounded(c) ==
  /\ c \in InFlight
  /\ held[c] < Needed(c)
  /\ held' = [held EXCEPT ![c] = @ + 1]
  /\ UNCHANGED <<req, pc, answer, tables, reads>>

\* $transaction gets a connection ...
Connect(c) ==
  /\ c \in InFlight
  /\ held[c] < Needed(c)
  /\ Free > 0
  /\ held' = [held EXCEPT ![c] = @ + 1]
  /\ UNCHANGED <<req, pc, answer, tables, reads>>

\* The call is over: what it held goes back to the pool.
Answer(c, a) ==
  /\ pc' = [pc EXCEPT ![c] = "done"]
  /\ held' = [held EXCEPT ![c] = 0]
  /\ answer' = [answer EXCEPT ![c] = a]

\* Mutant: the inner transaction waits as long as it takes.
GiveUpWaiting_NotInside(c) ==
  /\ c \in InFlight
  /\ held[c] = 0
  /\ Free <= 0
  /\ Answer(c, "ERROR")
  /\ UNCHANGED <<req, tables, reads>>

\* ... or fails when none is free in time (maxWait).
GiveUpWaiting(c) ==
  /\ c \in InFlight
  /\ held[c] < Needed(c)
  /\ Free <= 0
  /\ Answer(c, "ERROR")
  /\ UNCHANGED <<req, tables, reads>>

\* The server stops, or an open transaction runs out of time: it is rolled back.
Fail(c) ==
  /\ c \in InFlight
  /\ \/ Answer(c, "none")
     \/ held[c] > 0 /\ Answer(c, "ERROR")
  /\ UNCHANGED <<req, tables, reads>>

\* The transaction ends and the next one is to begin.
Then(c, step) ==
  /\ pc' = [pc EXCEPT ![c] = step]
  /\ held' = [held EXCEPT ![c] = 0]
  /\ UNCHANGED answer

\* The next step is in the same transaction.
Stay(c, step) ==
  /\ pc' = [pc EXCEPT ![c] = step]
  /\ UNCHANGED <<held, answer>>

-----------------------------------------------------------------------------
(* Rows.                                                                   *)

\* An identifier that is not null.
Same(n, m) == n = m /\ n # None

\* A username is stored in lower case, and may be left out.
StoredUsername(c) == IF req[c].username = None THEN None ELSE Lower[req[c].username]

\* findUserByIdentifier
Finds(u, name) ==
  Same(user[u].username, Lower[name]) \/ Same(user[u].email, Lower[name])

NumberTaken(n) == \E a \in account : a.number = n
AccountsOf(u) == {a \in account : a.owner = u}

\* The numbers call c's accounts may get: those asked for, generateUniqueAccountNumber
\* for the others, none of them taken when looked up.
Available(c) ==
  {ns \in [DOMAIN req[c].numbers -> Numbers] :
     /\ \A i \in DOMAIN ns :
          /\ ~NumberTaken(ns[i])
          /\ req[c].numbers[i] \in {ns[i], Generated}
     /\ \A i, j \in DOMAIN ns : ns[i] = ns[j] => i = j}

\* Unique columns of the User table.
NameTaken(u, email, username) ==
  \E v \in Users \ {u} : Same(user[v].email, email) \/ Same(user[v].username, username)

\* Rows of the accounts with these numbers.
AccountRows(u, ns) == {[number |-> ns[i], owner |-> u] : i \in DOMAIN ns}

\* recordAudit
RecordAudit(c) == audit' = audit \cup {c}

Committed(c) == committed' = committed \cup {c}
=============================================================================
