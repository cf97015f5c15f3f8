--------------------------- MODULE OfficeInvariant ---------------------------
(***************************************************************************)
(* Why the properties of Office hold: what is known of a call at each of   *)
(* its steps.  Every part is an invariant of Office.                       *)
(***************************************************************************)
EXTENDS Office

\* Each kind of call takes its own steps, and has by then what the step needs.
StepsFit ==
  \A c \in Calls :
    /\ pc[c] \notin {"idle", "done"} /\ req[c].op \notin {"signup", "login", "reset"} =>
         req[c].by # None
    /\ pc[c] = "check" => req[c].op \notin {"security", "avatar"}
    /\ pc[c] = "write" => req[c].op \notin {"login", "blocked"}
    /\ pc[c] = "audit" => req[c].op \in {"login", "profile", "security", "password"}
    /\ pc[c] = "record" => Is(c, "blocked")
    /\ pc[c] = "write" /\ req[c].op \in {"password", "reset"} => found[c] \in Users
    /\ pc[c] = "audit" /\ Is(c, "login") => found[c] \in Users

\* The request of a call is one of those its scenario allows.
RequestsAreKept == req \in Scenarios

\* Before its last transaction a call has no answer, and what is still to be audited
\* has been committed.
AuditFits ==
  /\ \A c \in Calls : pc[c] # "done" => answer[c] = "none"
  /\ \A c \in Calls : pc[c] = "audit" => c \in committed \/ Is(c, "login")

\* A call goes on only after its secret was found right.
SecretsFit ==
  \A c \in Calls :
    /\ pc[c] = "audit" /\ Is(c, "login") => proved[c]
    /\ pc[c] = "write" /\ req[c].op \in {"password", "reset"} => proved[c]

\* The unique columns would refuse what call c is about to write.
Clash(c) ==
  \/ Is(c, "profile") /\ NameTaken(req[c].by, None, StoredUsername(c))
  \/ req[c].op \in {"signup", "customer"} /\ Collides(c)
  \/ Is(c, "account") /\ \E i \in DOMAIN picked[c] : NumberTaken(picked[c][i])
  \/ Is(c, "abroad") /\ ~sawSettlement[c] /\ settlement # None

\* Calls in flight together have met, and what clashes with a write that was free when
\* it was looked up is the work of a call met since.
MeetingsFit ==
  /\ \A c, d \in InFlight : c # d => d \in met[c]
  /\ \A c \in Calls : pc[c] = "write" /\ Clash(c) => met[c] \cap committed # {}

\* A call commits once, as the last thing or right before its audit row, and a person
\* who was found is there.
RowsFit ==
  /\ \A c \in committed : pc[c] \in {"audit", "done"}
  /\ \A c \in Calls :
       found[c] \in Calls =>
         found[c] \in committed /\ req[found[c]].op \in {"signup", "customer"}

\* Emails and usernames are of different kinds, and nobody shares one of a kind with
\* another; neither do accounts share a number.
NamesFit ==
  /\ \A u \in Users :
       /\ user[u].email \in (Names \ Usernames) \cup {None}
       /\ user[u].username \in Usernames \cup {None}
       /\ user[u].role = "CUSTOMER" =>
            user[u].email # None /\ Lower[user[u].email] = user[u].email
  /\ \A u, v \in Users :
       Same(user[u].email, user[v].email) \/ Same(user[u].username, user[v].username) => u = v
  /\ \A c \in Calls : \A i, j \in DOMAIN picked[c] : picked[c][i] = picked[c][j] => i = j
  /\ \A a, b \in account : a.number = b.number => a = b

\* A call about to open one account found room for it, or has met another one that took it.
LimitFits ==
  /\ IsFiniteSet(account)
  /\ \A c \in Calls :
       Is(c, "account") /\ pc[c] = "write" =>
         /\ Len(picked[c]) <= 1
         /\ \/ Cardinality(AccountsOf(req[c].by)) < MaxAccounts
            \/ \E d \in committed : Is(d, "account") /\ req[d].by = req[c].by /\ d \in met[c]

OfficeInv ==
  /\ TypeOK
  /\ RequestsAreKept
  /\ StepsFit
  /\ AuditFits
  /\ SecretsFit
  /\ MeetingsFit
  /\ RowsFit
  /\ NamesFit
  /\ LimitFits
  /\ AuditTellsWhatHappened
  /\ SecretsWereRight
  /\ LosersMetTheirWinner
  /\ NamesFindOnePerson
  /\ LimitHoldsWithoutOverlap
  /\ TablesHoldWhatWasCommitted
=============================================================================
