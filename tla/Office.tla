------------------------------- MODULE Office -------------------------------
(***************************************************************************)
(* The bank's registry at work: calls that create and change people and    *)
(* accounts, all at once, over one pool of connections.                    *)
(***************************************************************************)
EXTENDS People, Onboarding

\* The first transaction of each kind of call.
FirstStep(c) == IF req[c].op \in {"security", "avatar"} THEN "write" ELSE "check"

\* Who may make which call: requireAdmin, requireUser, the role of a new account's owner.
Allowed(c) ==
  CASE Is(c, "customer") -> req[c].by # None /\ user[req[c].by].role = "ADMIN"
    [] req[c].op \in {"account", "abroad", "blocked"} ->
         req[c].by # None /\ user[req[c].by].role = "CUSTOMER"
    [] req[c].op \in {"signup", "login", "reset"} -> TRUE
    [] OTHER -> req[c].by # None

\* A new password has to be new.
Malformed(c) ==
  \/ Is(c, "password") /\ req[c].secret = req[c].password
  \/ Is(c, "customer") /\ Len(req[c].numbers) \notin 1 .. MaxAccounts

\* A call arrives.
Start(c) ==
  /\ pc[c] = "idle"
  /\ IF Allowed(c) /\ ~Malformed(c)
     THEN Then(c, FirstStep(c))
     ELSE Answer(c, "REFUSED")
  /\ UNCHANGED <<req, tables, reads>>

\* The secret a call brings is right now.
SecretIsRight(c) ==
  CASE Is(c, "password") -> req[c].by # None /\ user[req[c].by].password = req[c].secret
    [] Is(c, "login") ->
         \E u \in Users : Finds(u, req[c].name) /\ user[u].password = req[c].secret
    [] Is(c, "reset") ->
         \E u \in Users : Finds(u, req[c].name) /\ Same(user[u].answer, req[c].secret)
    [] OTHER -> FALSE

\* What the properties need to remember.
Remember ==
  /\ met' = [c \in Calls |->
               met[c] \cup (IF c \in InFlight' THEN InFlight' \ {c} ELSE {})]
  /\ proved' = [c \in Calls |->
                  proved[c] \/ (c \in InFlight \cup InFlight' /\ SecretIsRight(c)')]

Init ==
  /\ req \in Scenarios
  /\ pc = [c \in Calls |-> "idle"]
  /\ held = [c \in Calls |-> 0]
  /\ answer = [c \in Calls |-> "none"]
  /\ user = [u \in Users |-> IF u \in Founders THEN FoundersRow[u] ELSE NoUser]
  /\ account = FirstAccounts
  /\ settlement = None
  /\ audit = {}
  /\ found = [c \in Calls |-> None]
  /\ picked = [c \in Calls |-> <<>>]
  /\ sawSettlement = [c \in Calls |-> FALSE]
  /\ committed = {}
  /\ met = [c \in Calls |-> {}]
  /\ proved = [c \in Calls |-> FALSE]

Step(c) == Start(c) \/ PeopleNext(c) \/ OnboardingNext(c)

Next ==
  \E c \in Calls :
    /\ Step(c) \/ Connect(c) \/ GiveUpWaiting(c) \/ Fail(c)
    /\ Remember

Spec == Init /\ [][Next]_vars

\* The server runs what it has begun; nothing makes it stop.
FairSpec ==
  /\ Spec
  /\ \A c \in Calls : WF_vars((Step(c) \/ Connect(c) \/ GiveUpWaiting(c)) /\ Remember)

-----------------------------------------------------------------------------
TypeOK ==
  /\ req \in [Calls -> Request]
  /\ pc \in [Calls -> {"idle", "check", "write", "audit", "record", "done"}]
  /\ held \in [Calls -> 0 .. 2]
  /\ answer \in [Calls -> {"none", "OK", "REFUSED", "TAKEN", "ERROR"}]
  /\ user \in [Users -> UserRow]
  /\ account \subseteq AccountRow
  /\ settlement \in Calls \cup {None}
  /\ audit \subseteq Calls
  /\ found \in [Calls -> Users \cup {None}]
  /\ picked \in [Calls -> Seq(Numbers)]
  /\ sawSettlement \in [Calls -> BOOLEAN]
  /\ committed \subseteq Calls
  /\ met \in [Calls -> SUBSET Calls]
  /\ proved \in [Calls -> BOOLEAN]
  /\ Free \in 0 .. PoolSize

\* However calls race, a name finds one person at most and a number one account, and
\* a customer is found by the email they are stored with.
NamesFindOnePerson ==
  /\ \A n \in Names : \A u, v \in Users : Finds(u, n) /\ Finds(v, n) => u = v
  /\ \A a, b \in account : a.number = b.number => a = b
  /\ \A u \in Users : user[u].role = "CUSTOMER" => Finds(u, user[u].email)

\* Calls whose audit row belongs to the transaction of their change.
Atomic == {"customer", "account", "avatar", "abroad", "blocked"}

\* The audit log tells of nothing that did not happen, and of everything that was
\* answered with success; a call that dies in between may have changed a row the log
\* is silent about only where the route audits in a transaction of its own.
AuditTellsWhatHappened ==
  /\ \A c \in audit : c \in committed \/ (Is(c, "login") /\ found[c] # None)
  /\ \A c \in committed : req[c].op \in Atomic => c \in audit
  /\ \A c \in Calls :
       answer[c] = "OK" /\ req[c].op \notin {"signup", "reset"} => c \in audit

\* A customer gets past the limit only by calls that were in flight together.
LimitHoldsWithoutOverlap ==
  \A u \in Founders :
    Cardinality(AccountsOf(u)) > MaxAccounts =>
      \E c, d \in committed :
        /\ Is(c, "account") /\ Is(d, "account")
        /\ req[c].by = u /\ req[d].by = u
        /\ d \in met[c]

\* A call loses to a unique constraint only against one it met in flight: every other
\* clash is found by the lookup that comes first, and refused with a reason.
LosersMetTheirWinner ==
  \A c \in Calls : answer[c] = "TAKEN" => met[c] \cap committed # {}

\* The calls whose change to column f of user u is committed.
Writers(u, f) ==
  {c \in committed : req[c].op \in OwnOps /\ Target(c) = u /\ f \in DOMAIN Patch(c)}

\* What a row was before anybody changed it.
Original(u) ==
  IF u \in Founders THEN FoundersRow[u]
  ELSE IF u \in committed /\ req[u].op \in {"signup", "customer"} THEN NewUser(u) ELSE NoUser

\* The accounts of the calls that went through.
Opened(c) ==
  IF c \notin committed \/ req[c].op \notin {"signup", "customer", "account"} THEN {}
  ELSE AccountRows(IF Is(c, "account") THEN req[c].by ELSE c, picked[c])

\* The tables hold what committed calls asked for and nothing else: a call that failed
\* left nothing, and no call undid a column another one had changed.
TablesHoldWhatWasCommitted ==
  /\ \A u \in Users, f \in Fields :
       user[u][f] \in IF Writers(u, f) = {} THEN {Original(u)[f]}
                      ELSE {Patch(c)[f] : c \in Writers(u, f)}
  /\ account = FirstAccounts \cup UNION {Opened(c) : c \in Calls}

\* Nobody signs in or changes a password with a secret that was never right while the
\* call ran.
SecretsWereRight ==
  \A c \in Calls :
    /\ (Is(c, "login") /\ answer[c] = "OK") => proved[c]
    /\ req[c].op \in {"password", "reset"} /\ c \in committed => proved[c]

\* Every call that arrives is answered, or the server dies, although one that records a
\* refused transfer waits for a second connection while it holds one: time and again no
\* call is under way.
EveryCallEnds == []<>(\A c \in Calls : pc[c] \in {"idle", "done"})
=============================================================================
