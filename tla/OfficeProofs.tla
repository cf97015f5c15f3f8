---------------------------- MODULE OfficeProofs -----------------------------
(***************************************************************************)
(* Theorems about Office, for any people, names, calls and pool.           *)
(***************************************************************************)
EXTENDS OfficeInvariant, FiniteSetTheorems, TLAPS

\* One step of call c, whatever the properties remember of it.
Act(c) == Step(c) \/ Connect(c) \/ GiveUpWaiting(c) \/ Fail(c)

-----------------------------------------------------------------------------
(* What the requests are.                                                  *)

\* The fields of a request have the types Request gives them.
LEMMA RequestFacts ==
  ASSUME RequestsAreKept, NEW c \in Calls
  PROVE  /\ req \in [Calls -> Request]
         /\ req[c].op \in Ops
         /\ req[c].by \in Founders \cup {None}
         /\ req[c].name \in Names \cup {None}
         /\ req[c].username \in Names \cup {None}
         /\ req[c].secret \in Secrets \cup {None}
         /\ req[c].password \in Secrets \cup {None}
         /\ req[c].numbers \in Seq(Numbers \cup {Generated})
         /\ req[c].username \in Usernames \cup {None}
         /\ req[c].op \in {"signup", "customer"} => req[c].name \in Names \ Usernames
         /\ Is(c, "account") => req[c].numbers = <<Generated>>
  BY ScenariosAssumption, BodiesAssumption DEF RequestsAreKept, Request, Is

\* A username is stored as one.
LEMMA UsernameStored ==
  ASSUME RequestsAreKept, NEW c \in Calls
  PROVE  StoredUsername(c) \in Usernames \cup {None} /\ StoredUsername(c) \in Names \cup {None}
  BY RequestFacts, UsernamesAssumption DEF StoredUsername

-----------------------------------------------------------------------------
(* The pool.                                                               *)

Holders == {c \in Calls : held[c] >= 1}
DoubleHolders == {c \in Calls : held[c] = 2}

\* A finite set without one of its elements is no larger.
LEMMA WithoutOne ==
  ASSUME NEW S, NEW x, IsFiniteSet(S)
  PROVE  Cardinality(S \ {x}) \in Nat /\ Cardinality(S \ {x}) <= Cardinality(S)
  <1>1. Cardinality(S) \in Nat /\ Cardinality(S \ {x}) \in Nat
    BY FS_RemoveElement, FS_CardinalityType
  <1>2. Cardinality(S \ {x}) = IF x \in S THEN Cardinality(S) - 1 ELSE Cardinality(S)
    BY FS_RemoveElement
  <1> QED
    BY <1>1, <1>2

\* The pool after one call's connections changed from held[c] to n.
LEMMA PoolAfter ==
  ASSUME held \in [Calls -> 0 .. 2], Free \in 0 .. PoolSize, NEW c \in Calls,
         NEW n \in 0 .. 2, held' = [held EXCEPT ![c] = n],
         n = 0 \/ n = held[c] \/ (n = held[c] + 1 /\ Free > 0)
  PROVE  Free' \in 0 .. PoolSize
  <1> DEFINE H == Holders
             D == DoubleHolders
             HNext == {d \in Calls : held'[d] >= 1}
             DNext == {d \in Calls : held'[d] = 2}
  <1>1. IsFiniteSet(H) /\ IsFiniteSet(D)
    BY CallsAssumption, FS_Subset DEF Holders, DoubleHolders
  <1>2. Cardinality(H) \in Nat /\ Cardinality(D) \in Nat
    BY <1>1, FS_CardinalityType
  <1>3. Free = PoolSize - (Cardinality(H) + Cardinality(D))
    BY DEF Free, Holders, DoubleHolders
  <1>4. Free' = PoolSize - (Cardinality(HNext) + Cardinality(DNext))
    BY DEF Free
  <1> HIDE DEF H, D, HNext, DNext
  <1>5. CASE n = 0
    <2>1. HNext = H \ {c} /\ DNext = D \ {c}
      BY <1>5 DEF H, D, HNext, DNext, Holders, DoubleHolders
    <2>2. Cardinality(HNext) \in Nat /\ Cardinality(HNext) <= Cardinality(H)
      BY <1>1, <2>1, WithoutOne
    <2>3. Cardinality(DNext) \in Nat /\ Cardinality(DNext) <= Cardinality(D)
      BY <1>1, <2>1, WithoutOne
    <2> QED
      BY <1>2, <1>3, <1>4, <2>2, <2>3, LimitsAssumption
  <1>6. CASE n = held[c]
    <2>1. HNext = H /\ DNext = D
      BY <1>6 DEF H, D, HNext, DNext, Holders, DoubleHolders
    <2> QED
      BY <1>3, <1>4, <2>1
  <1>7. CASE n = held[c] + 1 /\ Free > 0 /\ held[c] = 0
    <2>1. HNext = H \cup {c} /\ DNext = D
      BY <1>7 DEF H, D, HNext, DNext, Holders, DoubleHolders
    <2>2. Cardinality(HNext) \in {Cardinality(H), Cardinality(H) + 1}
      BY <1>1, <2>1, FS_AddElement
    <2> QED
      BY <1>2, <1>3, <1>4, <1>7, <2>1, <2>2, LimitsAssumption
  <1>8. CASE n = held[c] + 1 /\ Free > 0 /\ held[c] = 1
    <2>1. HNext = H /\ DNext = D \cup {c}
      BY <1>8 DEF H, D, HNext, DNext, Holders, DoubleHolders
    <2>2. Cardinality(DNext) \in {Cardinality(D), Cardinality(D) + 1}
      BY <1>1, <2>1, FS_AddElement
    <2> QED
      BY <1>2, <1>3, <1>4, <1>8, <2>1, <2>2, LimitsAssumption
  <1> QED
    BY <1>5, <1>6, <1>7, <1>8

-----------------------------------------------------------------------------
(* Type correctness.                                                       *)

Outcomes == {"none", "OK", "REFUSED", "TAKEN", "ERROR"}
Working == {"check", "write", "audit", "record"}

\* Where a call is, what it holds and its answer are well typed, and so is the pool.
ControlTypes ==
  /\ pc \in [Calls -> {"idle", "check", "write", "audit", "record", "done"}]
  /\ held \in [Calls -> 0 .. 2]
  /\ answer \in [Calls -> Outcomes]
  /\ Free \in 0 .. PoolSize

\* The ways a step leaves a call.
Moves(c) ==
  \/ \E a \in Outcomes : Answer(c, a)
  \/ \E step \in Working : Then(c, step) \/ Stay(c, step)

\* Every step but Connect ends a transaction, goes on to another or stays inside.
LEMMA StepMoves ==
  ASSUME NEW c \in Calls, Step(c) \/ GiveUpWaiting(c) \/ Fail(c)
  PROVE  Moves(c)
  <1> USE DEF Moves, Outcomes, Working
  <1>1. CASE Start(c)
    BY <1>1 DEF Start, FirstStep
  <1>2. CASE GiveUpWaiting(c) \/ Fail(c)
    BY <1>2 DEF GiveUpWaiting, Fail
  <1>3. CASE CheckLogin(c) \/ CheckReset(c) \/ CheckPassword(c) \/ CheckProfile(c)
    BY <1>3 DEF CheckLogin, CheckReset, CheckPassword, CheckProfile
  <1>4. ASSUME Store(c) PROVE Moves(c)
    BY <1>4 DEF Store, AfterWrite
  <1>5. CASE \/ ResetPassword(c) \/ ChangePassword(c) \/ ChangeAnswer(c)
             \/ ChangePicture(c) \/ ChangeUsername(c)
    BY <1>4, <1>5 DEF ResetPassword, ChangePassword, ChangeAnswer, ChangePicture, ChangeUsername
  <1>6. CASE WriteAudit(c)
    BY <1>6 DEF WriteAudit
  <1>7. CASE CheckNewUser(c) \/ CheckNewAccount(c)
    BY <1>7 DEF CheckNewUser, CheckNewAccount, PickNumbers
  <1>8. CASE CreateUser(c) \/ CreateAccount(c)
    BY <1>8 DEF CreateUser, CreateAccount
  <1>9. CASE FindSettlement(c) \/ PayAbroad(c) \/ FindSenderBlocked(c) \/ RecordFailure(c)
    BY <1>9 DEF FindSettlement, PayAbroad, FindSenderBlocked, RecordFailure
  <1> QED
    BY <1>1, <1>2, <1>3, <1>5, <1>6, <1>7, <1>8, <1>9 DEF Step, PeopleNext, OnboardingNext

\* No step gives a call a connection the pool does not have.
LEMMA ControlTypesKept ==
  ASSUME ControlTypes, NEW c \in Calls, Act(c)
  PROVE  ControlTypes'
  <1>1. CASE Connect(c)
    <2>1. /\ held' = [held EXCEPT ![c] = held[c] + 1]
          /\ held[c] + 1 \in 0 .. 2
          /\ Free > 0
      BY <1>1 DEF Connect, Needed, ControlTypes
    <2>2. Free' \in 0 .. PoolSize
      BY <2>1, PoolAfter DEF ControlTypes
    <2> QED
      BY <1>1, <2>1, <2>2 DEF Connect, ControlTypes
  <1>2. ASSUME NEW a \in Outcomes, Answer(c, a)
        PROVE  ControlTypes'
    <2>1. held' = [held EXCEPT ![c] = 0] /\ 0 \in 0 .. 2
      BY <1>2 DEF Answer
    <2>2. Free' \in 0 .. PoolSize
      BY <2>1, PoolAfter, Zenon DEF ControlTypes
    <2> QED
      BY <1>2, <2>1, <2>2 DEF Answer, ControlTypes
  <1>3. ASSUME NEW step \in Working, Then(c, step)
        PROVE  ControlTypes'
    <2>1. held' = [held EXCEPT ![c] = 0] /\ 0 \in 0 .. 2
      BY <1>3 DEF Then
    <2>2. Free' \in 0 .. PoolSize
      BY <2>1, PoolAfter, Zenon DEF ControlTypes
    <2> QED
      BY <1>3, <2>1, <2>2 DEF Then, ControlTypes, Working
  <1>4. ASSUME NEW step \in Working, Stay(c, step)
        PROVE  ControlTypes'
    <2>1. Free' = Free
      BY <1>4 DEF Stay, Free
    <2> QED
      BY <1>4, <2>1 DEF Stay, ControlTypes, Working
  <1> QED
    BY <1>1, <1>2, <1>3, <1>4, StepMoves DEF Act, Moves

\* The tables, and what calls have read of them, are well typed.
DataTypes ==
  /\ user \in [Users -> UserRow]
  /\ account \subseteq AccountRow
  /\ settlement \in Calls \cup {None}
  /\ audit \subseteq Calls
  /\ found \in [Calls -> Users \cup {None}]
  /\ picked \in [Calls -> Seq(Numbers)]
  /\ sawSettlement \in [Calls -> BOOLEAN]
  /\ committed \subseteq Calls

\* A new profile is a new username.
LEMMA ProfilePatch ==
  ASSUME NEW c \in Calls, Is(c, "profile")
  PROVE  DOMAIN Patch(c) = {"username"} /\ Patch(c)["username"] = StoredUsername(c)
  <1>1. Patch(c) = [field \in {"username"} |-> StoredUsername(c)]
    BY DEF Patch, Is
  <1> DEFINE columns == [field \in {"username"} |-> StoredUsername(c)]
  <1>2. DOMAIN columns = {"username"} /\ columns["username"] = StoredUsername(c)
    OBVIOUS
  <1>3. Patch(c) = columns
    BY <1>1
  <1> HIDE DEF columns
  <1> QED
    BY <1>2, <1>3

\* An update of a user's row leaves a row.
LEMMA PatchedRow ==
  ASSUME DataTypes, RequestsAreKept, NEW c \in Calls, req[c].op \in OwnOps, Target(c) \in Users
  PROVE  [f \in Fields |-> Written(c, f)] \in UserRow
  <1>1. user[Target(c)] \in UserRow
    BY DEF DataTypes
  <1>2. ASSUME NEW f \in Fields, f \in DOMAIN Patch(c)
        PROVE  Patch(c)[f] \in Values
    <2>1. CASE Is(c, "profile")
      <3>1. StoredUsername(c) \in Values
        BY UsernameStored DEF Values
      <3>2. f = "username" /\ Patch(c)[f] = StoredUsername(c)
        BY <1>2, <2>1, ProfilePatch
      <3> QED
        BY <3>1, <3>2
    <2>2. CASE Is(c, "security")
      BY <1>2, <2>2, RequestFacts DEF Patch, Values, Is
    <2>3. CASE Is(c, "avatar")
      BY <1>2, <2>3 DEF Patch, Values, Is
    <2>4. CASE req[c].op \in {"password", "reset"}
      BY <1>2, <2>4, RequestFacts DEF Patch, Values, Is
    <2> QED
      BY <2>1, <2>2, <2>3, <2>4 DEF OwnOps, Is
  <1> QED
    BY <1>1, <1>2 DEF Written, UserRow

\* A call that writes a user's row has one to write.
LEMMA TargetIsUser ==
  ASSUME DataTypes, RequestsAreKept, StepsFit, NEW c \in Calls, pc[c] = "write",
         req[c].op \in OwnOps
  PROVE  Target(c) \in Users
  BY RequestFacts DEF StepsFit, Target, OwnOps, Users

\* So does the creation of one.
LEMMA NewRow ==
  ASSUME RequestsAreKept, NEW c \in Calls, req[c].op \in {"signup", "customer"}
  PROVE  NewUser(c) \in UserRow
  <1>1. StoredEmail(c) \in Names
    BY RequestFacts, LowerAssumption DEF StoredEmail
  <1>2. StoredUsername(c) \in Names \cup {None}
    BY UsernameStored
  <1>3. /\ req[c].password \in Values /\ req[c].secret \in Values /\ None \in Values
        /\ StoredEmail(c) \in Values /\ StoredUsername(c) \in Values
        /\ (IF Is(c, "signup") THEN "ADMIN" ELSE "CUSTOMER") \in Values
    BY <1>1, <1>2, RequestFacts DEF Values, Roles
  <1> QED
    BY <1>3 DEF NewUser, UserRow, Fields

\* Accounts with the numbers a call picked are accounts.
LEMMA PickedRows ==
  ASSUME DataTypes, NEW c \in Calls, NEW u \in Users
  PROVE  AccountRows(u, picked[c]) \subseteq AccountRow
  <1>1. \A i \in DOMAIN picked[c] : picked[c][i] \in Numbers
    BY DEF DataTypes
  <1> QED
    BY <1>1 DEF AccountRows, AccountRow

\* An update of one's own row keeps the types.
LEMMA StoreTypes ==
  ASSUME DataTypes, RequestsAreKept, StepsFit, NEW c \in Calls, req[c].op \in OwnOps, Store(c)
  PROVE  DataTypes'
  <1>1. Target(c) \in Users
    BY TargetIsUser DEF Store, Inside
  <1>2. user' \in [Users -> UserRow]
    BY <1>1, PatchedRow DEF Store, DataTypes
  <1>3. audit' \subseteq Calls
    BY DEF Store, AfterWrite, RecordAudit, DataTypes
  <1> QED
    BY <1>2, <1>3 DEF Store, Committed, reads, DataTypes

\* Every step keeps the tables well typed.
LEMMA DataTypesKept ==
  ASSUME DataTypes, RequestsAreKept, StepsFit, NEW c \in Calls, Act(c)
  PROVE  DataTypes'
  <1>1. CASE UNCHANGED <<req, tables, reads>>
    BY <1>1 DEF tables, reads, DataTypes
  <1>2. CASE CheckLogin(c) \/ CheckReset(c)
    BY <1>2 DEF CheckLogin, CheckReset, tables, DataTypes
  <1>3. CASE CheckPassword(c)
    BY <1>3, RequestFacts DEF CheckPassword, tables, DataTypes, Users
  <1>4. CASE \/ ResetPassword(c) \/ ChangePassword(c) \/ ChangeAnswer(c)
             \/ ChangePicture(c) \/ ChangeUsername(c)
    <2>1. (Store(c) /\ req[c].op \in OwnOps) \/ UNCHANGED <<req, tables, reads>>
      BY <1>4 DEF ResetPassword, ChangePassword, ChangeAnswer, ChangePicture, ChangeUsername,
                  OwnOps, Is
    <2> QED
      BY <1>1, <2>1, StoreTypes
  <1>5. CASE WriteAudit(c)
    BY <1>5 DEF WriteAudit, RecordAudit, reads, DataTypes
  <1>6. CASE CheckNewUser(c) \/ CheckNewAccount(c)
    <2>1. /\ UNCHANGED <<req, tables, found, sawSettlement>>
          /\ \/ UNCHANGED picked
             \/ \E ns \in Available(c) : picked' = [picked EXCEPT ![c] = ns]
      BY <1>6 DEF CheckNewUser, CheckNewAccount, PickNumbers
    <2>2. Available(c) \subseteq Seq(Numbers)
      BY RequestFacts DEF Available
    <2>3. picked' \in [Calls -> Seq(Numbers)]
      BY <2>1, <2>2 DEF DataTypes
    <2> QED
      BY <2>1, <2>3 DEF tables, DataTypes
  <1>7. CASE CreateUser(c)
    <2>1. CASE UNCHANGED <<req, tables, reads>>
      BY <1>1, <2>1
    <2>2. CASE /\ user' = [user EXCEPT ![c] = NewUser(c)]
               /\ account' = account \cup AccountRows(c, picked[c])
               /\ Committed(c) /\ (RecordAudit(c) \/ UNCHANGED audit)
               /\ UNCHANGED <<settlement, req, reads>>
               /\ req[c].op \in {"signup", "customer"}
      <3>1. c \in Users
        BY DEF Users
      <3>2. user' \in [Users -> UserRow]
        BY <2>2, NewRow DEF DataTypes
      <3>3. account' \subseteq AccountRow
        BY <2>2, <3>1, PickedRows DEF DataTypes
      <3> QED
        BY <2>2, <3>2, <3>3 DEF Committed, RecordAudit, reads, DataTypes
    <2> QED
      BY <1>7, <2>1, <2>2 DEF CreateUser
  <1>8. CASE CreateAccount(c)
    <2>1. CASE UNCHANGED <<req, tables, reads>>
      BY <1>1, <2>1
    <2>2. CASE /\ account' = account \cup AccountRows(req[c].by, picked[c])
               /\ Committed(c) /\ RecordAudit(c)
               /\ UNCHANGED <<user, settlement, req, reads>>
               /\ Is(c, "account") /\ pc[c] = "write"
      <3>1. req[c].by \in Users
        BY <2>2, RequestFacts DEF StepsFit, Is, Users
      <3>2. account' \subseteq AccountRow
        BY <2>2, <3>1, PickedRows DEF DataTypes
      <3> QED
        BY <2>2, <3>2 DEF Committed, RecordAudit, reads, DataTypes
    <2> QED
      BY <1>8, <2>1, <2>2 DEF CreateAccount, Inside
  <1>9. CASE FindSettlement(c)
    BY <1>9 DEF FindSettlement, tables, DataTypes
  <1>10. CASE PayAbroad(c)
    <2>1. CASE UNCHANGED <<req, tables, reads>>
      BY <1>1, <2>1
    <2>2. CASE /\ settlement' \in {settlement, c}
               /\ Committed(c) /\ RecordAudit(c)
               /\ UNCHANGED <<user, account, req, reads>>
      BY <2>2 DEF Committed, RecordAudit, reads, DataTypes
    <2> QED
      BY <1>10, <2>1, <2>2 DEF PayAbroad
  <1>11. CASE RecordFailure(c)
    BY <1>11 DEF RecordFailure, Committed, RecordAudit, reads, DataTypes
  <1>12. CASE Start(c) \/ CheckProfile(c) \/ FindSenderBlocked(c) \/ Connect(c)
              \/ GiveUpWaiting(c) \/ Fail(c)
    BY <1>1, <1>12 DEF Start, CheckProfile, FindSenderBlocked, Connect, GiveUpWaiting, Fail
  <1> QED
    BY <1>2, <1>3, <1>4, <1>5, <1>6, <1>7, <1>8, <1>9, <1>10, <1>11, <1>12
       DEF Act, Step, PeopleNext, OnboardingNext

-----------------------------------------------------------------------------
(* What a step leaves alone.                                               *)

\* No step changes a request.
LEMMA RequestsKept ==
  ASSUME NEW c \in Calls, Act(c)
  PROVE  req' = req
  BY DEF Act, Step, Start, Connect, GiveUpWaiting, Fail, PeopleNext, CheckLogin, CheckReset,
         CheckPassword, CheckProfile, ResetPassword, ChangePassword, ChangeAnswer, ChangePicture,
         ChangeUsername, Store, WriteAudit, OnboardingNext, CheckNewUser, CreateUser,
         CheckNewAccount, CreateAccount, FindSettlement, PayAbroad, FindSenderBlocked, RecordFailure

\* A step of one call leaves the others where they are.
LEMMA OthersStay ==
  ASSUME ControlTypes, NEW c \in Calls, Act(c), NEW d \in Calls, d # c
  PROVE  pc'[d] = pc[d] /\ answer'[d] = answer[d]
  <1>1. CASE Connect(c)
    BY <1>1 DEF Connect
  <1>2. CASE Moves(c)
    BY <1>2 DEF Moves, Answer, Then, Stay, ControlTypes
  <1> QED
    BY <1>1, <1>2, StepMoves DEF Act

\* What a call has read is written by that call alone.
LEMMA OthersReadsStay ==
  ASSUME DataTypes, NEW c \in Calls, Act(c), NEW d \in Calls, d # c
  PROVE  found'[d] = found[d] /\ picked'[d] = picked[d] /\ sawSettlement'[d] = sawSettlement[d]
  <1>1. CASE UNCHANGED reads
    BY <1>1 DEF reads
  <1>2. CASE CheckLogin(c) \/ CheckReset(c) \/ CheckPassword(c)
    BY <1>2 DEF CheckLogin, CheckReset, CheckPassword, DataTypes
  <1>3. CASE CheckNewUser(c) \/ CheckNewAccount(c)
    BY <1>3 DEF CheckNewUser, CheckNewAccount, PickNumbers, DataTypes
  <1>4. CASE FindSettlement(c)
    BY <1>4 DEF FindSettlement, DataTypes
  <1> QED
    BY <1>1, <1>2, <1>3, <1>4
       DEF Act, Step, Start, Connect, GiveUpWaiting, Fail, PeopleNext, CheckProfile,
           ResetPassword, ChangePassword, ChangeAnswer, ChangePicture, ChangeUsername, Store,
           WriteAudit, OnboardingNext, CreateUser, CreateAccount, PayAbroad, FindSenderBlocked,
           RecordFailure

\* A step leaves the tables alone, or it is the commit of a call in flight.
LEMMA WritesAreCommits ==
  ASSUME NEW c \in Calls, Act(c)
  PROVE  \/ UNCHANGED <<user, account, settlement, committed>>
         \/ committed' = committed \cup {c} /\ pc[c] \in {"write", "record"}
  <1>1. CASE UNCHANGED tables
    BY <1>1 DEF tables
  <1>2. ASSUME Store(c)
        PROVE  committed' = committed \cup {c} /\ pc[c] = "write"
    BY <1>2 DEF Store, Committed, Inside
  <1>3. CASE \/ ResetPassword(c) \/ ChangePassword(c) \/ ChangeAnswer(c)
             \/ ChangePicture(c) \/ ChangeUsername(c)
    BY <1>2, <1>3 DEF ResetPassword, ChangePassword, ChangeAnswer, ChangePicture, ChangeUsername,
                      tables
  <1>4. CASE CreateUser(c) \/ CreateAccount(c) \/ PayAbroad(c) \/ RecordFailure(c)
    BY <1>4 DEF CreateUser, CreateAccount, PayAbroad, RecordFailure, Committed, Inside, tables
  <1>5. CASE WriteAudit(c)
    BY <1>5 DEF WriteAudit
  <1> QED
    BY <1>1, <1>3, <1>4, <1>5
       DEF Act, Step, Start, Connect, GiveUpWaiting, Fail, PeopleNext, CheckLogin, CheckReset,
           CheckPassword, CheckProfile, OnboardingNext, CheckNewUser, CheckNewAccount,
           FindSettlement, FindSenderBlocked

\* After its own step a call is at a step it takes, with what that step needs.
LEMMA StepsFitKept ==
  ASSUME ControlTypes, DataTypes, RequestsAreKept, StepsFit, NEW c \in Calls, Act(c)
  PROVE  StepsFit'
  <1> USE RequestsKept
  <1> DEFINE Fits ==
               /\ pc'[c] \notin {"idle", "done"} /\ req[c].op \notin {"signup", "login", "reset"} =>
                    req[c].by # None
               /\ pc'[c] = "check" => req[c].op \notin {"security", "avatar"}
               /\ pc'[c] = "write" => req[c].op \notin {"login", "blocked"}
               /\ pc'[c] = "audit" => req[c].op \in {"login", "profile", "security", "password"}
               /\ pc'[c] = "record" => Is(c, "blocked")
               /\ pc'[c] = "write" /\ req[c].op \in {"password", "reset"} => found'[c] \in Users
               /\ pc'[c] = "audit" /\ Is(c, "login") => found'[c] \in Users
  <1>1. Fits
    <2>1. ASSUME NEW a \in Outcomes, Answer(c, a)
          PROVE  pc'[c] = "done"
      BY <2>1 DEF Answer, ControlTypes
    <2>2. ASSUME NEW step \in Working, Then(c, step) \/ Stay(c, step)
          PROVE  pc'[c] = step
      BY <2>2 DEF Then, Stay, ControlTypes
    <2>3. CASE pc'[c] = "done"
      BY <2>3
    <2>4. CASE Start(c)
      BY <2>1, <2>2, <2>4, RequestFacts
         DEF Start, FirstStep, Allowed, Is, Outcomes, Working, Ops, OwnOps
    <2>5. CASE Connect(c)
      BY <2>5 DEF Connect, StepsFit, reads
    <2>6. CASE CheckLogin(c)
      BY <2>1, <2>2, <2>6 DEF CheckLogin, Is, Outcomes, Working, DataTypes
    <2>7. CASE CheckReset(c)
      BY <2>1, <2>2, <2>7 DEF CheckReset, Is, Outcomes, Working, DataTypes
    <2>8. CASE CheckPassword(c)
      BY <2>1, <2>2, <2>8, RequestFacts
         DEF CheckPassword, Is, Outcomes, Working, DataTypes, Inside, StepsFit, Users
    <2>9. CASE CheckProfile(c)
      BY <2>1, <2>2, <2>9 DEF CheckProfile, Is, Outcomes, Working, Inside, StepsFit
    <2>10. ASSUME Store(c), req[c].op \in OwnOps
           PROVE  Fits
      BY <2>1, <2>2, <2>10
         DEF Store, AfterWrite, Is, Outcomes, Working, OwnOps, Inside, StepsFit, reads
    <2>11. CASE \/ ResetPassword(c) \/ ChangePassword(c) \/ ChangeAnswer(c)
                \/ ChangePicture(c) \/ ChangeUsername(c)
      BY <2>1, <2>10, <2>11
         DEF ResetPassword, ChangePassword, ChangeAnswer, ChangePicture, ChangeUsername,
             OwnOps, Is, Outcomes
    <2>12. CASE CheckNewUser(c) \/ CheckNewAccount(c)
      BY <2>1, <2>2, <2>12
         DEF CheckNewUser, CheckNewAccount, PickNumbers, Is, Outcomes, Working, Inside, StepsFit
    <2>13. CASE FindSettlement(c) \/ FindSenderBlocked(c)
      BY <2>2, <2>13
         DEF FindSettlement, FindSenderBlocked, Is, Working, Inside, StepsFit
    <2>14. CASE \/ GiveUpWaiting(c) \/ Fail(c) \/ WriteAudit(c) \/ CreateUser(c)
                \/ CreateAccount(c) \/ PayAbroad(c) \/ RecordFailure(c)
      BY <2>1, <2>14
         DEF GiveUpWaiting, Fail, WriteAudit, CreateUser, CreateAccount, PayAbroad, RecordFailure,
             Outcomes
    <2> QED
      BY <2>4, <2>5, <2>6, <2>7, <2>8, <2>9, <2>11, <2>12, <2>13, <2>14
         DEF Act, Step, PeopleNext, OnboardingNext
  <1>2. \A d \in Calls : d # c => pc'[d] = pc[d] /\ found'[d] = found[d]
    BY OthersStay, OthersReadsStay
  <1> QED
    BY <1>1, <1>2 DEF StepsFit, Is

-----------------------------------------------------------------------------
(* The audit log.                                                          *)

\* What is known of one call, its audit row and its answer.
AuditFitsCall(c) ==
  /\ pc[c] # "done" => answer[c] = "none"
  /\ pc[c] = "audit" => c \in committed \/ Is(c, "login")
  /\ c \in audit => c \in committed \/ (Is(c, "login") /\ found[c] # None)
  /\ c \in committed => (req[c].op \in Atomic => c \in audit)
  /\ answer[c] = "OK" /\ req[c].op \notin {"signup", "reset"} => c \in audit

\* The two parts of the invariant speak of one call at a time.
LEMMA AuditByCall ==
  ASSUME audit \subseteq Calls, committed \subseteq Calls
  PROVE  AuditFits /\ AuditTellsWhatHappened <=> \A c \in Calls : AuditFitsCall(c)
  BY DEF AuditFits, AuditTellsWhatHappened, AuditFitsCall

\* The log and the table of committed calls change for the call that steps only.
LEMMA OthersLogStays ==
  ASSUME NEW c \in Calls, Act(c), NEW d \in Calls, d # c
  PROVE  (d \in audit' <=> d \in audit) /\ (d \in committed' <=> d \in committed)
  <1>1. \/ UNCHANGED <<user, account, settlement, committed>>
        \/ committed' = committed \cup {c}
    BY WritesAreCommits
  <1>2. audit' = audit \/ audit' = audit \cup {c}
    BY DEF Act, Step, Start, Connect, GiveUpWaiting, Fail, PeopleNext, CheckLogin, CheckReset,
           CheckPassword, CheckProfile, ResetPassword, ChangePassword, ChangeAnswer, ChangePicture,
           ChangeUsername, Store, AfterWrite, WriteAudit, OnboardingNext, CheckNewUser, CreateUser,
           CheckNewAccount, CreateAccount, FindSettlement, PayAbroad, FindSenderBlocked,
           RecordFailure, RecordAudit, tables
  <1> QED
    BY <1>1, <1>2

\* Every route that commits audits with it, or has the audit still to come.
LEMMA AuditFitsKept ==
  ASSUME ControlTypes, DataTypes, RequestsAreKept, StepsFit, NEW c \in Calls, Act(c),
         AuditFitsCall(c)
  PROVE  AuditFitsCall(c)'
  <1> USE RequestsKept
  <1>1. ASSUME NEW a \in Outcomes, Answer(c, a)
        PROVE  pc'[c] = "done" /\ answer'[c] = a
    BY <1>1 DEF Answer, ControlTypes
  <1>2. ASSUME NEW step \in Working, Then(c, step) \/ Stay(c, step)
        PROVE  pc'[c] = step /\ answer' = answer
    BY <1>2 DEF Then, Stay, ControlTypes
  <1>3. None \notin Users
    BY CallsAssumption
  <1>4. CASE Start(c)
    <2>1. UNCHANGED <<audit, committed, found>> /\ pc[c] # "done"
      BY <1>4 DEF Start, tables, reads
    <2>2. \/ pc'[c] = "done" /\ answer'[c] = "REFUSED"
          \/ pc'[c] \in {"check", "write"} /\ answer' = answer
      BY <1>1, <1>2, <1>4 DEF Start, FirstStep, Outcomes, Working
    <2> QED
      BY <2>1, <2>2 DEF AuditFitsCall, Is
  <1>5. CASE Connect(c)
    BY <1>5 DEF Connect, tables, reads, AuditFitsCall, Is
  <1>6. CASE GiveUpWaiting(c) \/ Fail(c)
    BY <1>1, <1>6 DEF GiveUpWaiting, Fail, Outcomes, tables, reads, AuditFitsCall, Is
  <1>7. CASE CheckLogin(c) \/ CheckReset(c) \/ CheckPassword(c) \/ CheckProfile(c)
    <2>1. UNCHANGED <<audit, committed>> /\ pc[c] # "done"
      BY <1>7 DEF CheckLogin, CheckReset, CheckPassword, CheckProfile, tables, Inside
    <2>2. found'[c] = found[c] \/ found'[c] \in Users \/ ~Is(c, "login")
      BY <1>7 DEF CheckLogin, CheckReset, CheckPassword, CheckProfile, DataTypes, reads, Is
    <2>3. \/ pc'[c] = "done" /\ answer'[c] = "REFUSED"
          \/ pc'[c] = "write" /\ answer' = answer
          \/ pc'[c] = "audit" /\ answer' = answer /\ Is(c, "login")
      BY <1>1, <1>2, <1>7
         DEF CheckLogin, CheckReset, CheckPassword, CheckProfile, Outcomes, Working
    <2> QED
      BY <1>3, <2>1, <2>2, <2>3 DEF AuditFitsCall, Is
  <1>8. CASE /\ req[c].op \in OwnOps
             /\ Store(c)
    <2>1. c \in committed' /\ found' = found /\ ~Is(c, "login") /\ pc[c] # "done"
      BY <1>8 DEF Store, Committed, reads, OwnOps, Is, Inside
    <2>2. \/ c \in audit' /\ pc'[c] = "done" /\ answer'[c] = "OK"
          \/ Is(c, "reset") /\ audit' = audit /\ pc'[c] = "done" /\ answer'[c] = "OK"
          \/ ~Is(c, "avatar") /\ audit' = audit /\ pc'[c] = "audit" /\ answer' = answer
      BY <1>1, <1>2, <1>8 DEF Store, AfterWrite, RecordAudit, Outcomes, Working, Is
    <2> QED
      BY <1>8, <2>1, <2>2 DEF AuditFitsCall, Is, OwnOps, Atomic
  <1>9. CASE /\ \E a \in {"TAKEN", "REFUSED"} : Answer(c, a)
             /\ UNCHANGED <<audit, committed>>
             /\ found' = found
    BY <1>1, <1>9 DEF AuditFitsCall, Is, Outcomes
  <1>10. CASE \/ ResetPassword(c) \/ ChangePassword(c) \/ ChangeAnswer(c)
              \/ ChangePicture(c) \/ ChangeUsername(c)
    BY <1>8, <1>9, <1>10
       DEF ResetPassword, ChangePassword, ChangeAnswer, ChangePicture, ChangeUsername, OwnOps, Is,
           tables, reads
  <1>11. CASE WriteAudit(c)
    <2>1. pc'[c] = "done" /\ answer'[c] = "OK" /\ audit' = audit \cup {c}
      BY <1>1, <1>11 DEF WriteAudit, RecordAudit, Outcomes
    <2>2. committed' = committed /\ found' = found /\ pc[c] = "audit"
      BY <1>11 DEF WriteAudit, reads, Inside
    <2> QED
      BY <1>3, <2>1, <2>2 DEF AuditFitsCall, StepsFit, Is
  <1>12. CASE CheckNewUser(c) \/ CheckNewAccount(c) \/ FindSettlement(c) \/ FindSenderBlocked(c)
    <2>1. UNCHANGED <<audit, committed, found>> /\ pc[c] # "done"
      BY <1>12 DEF CheckNewUser, CheckNewAccount, FindSettlement, FindSenderBlocked, tables, reads,
                   Inside
    <2>2. \/ pc'[c] = "done" /\ answer'[c] = "REFUSED"
          \/ pc'[c] \in {"write", "record"} /\ answer' = answer
      BY <1>1, <1>2, <1>12
         DEF CheckNewUser, CheckNewAccount, PickNumbers, FindSettlement, FindSenderBlocked,
             Outcomes, Working
    <2> QED
      BY <2>1, <2>2 DEF AuditFitsCall, Is
  <1>13. CASE CreateUser(c) \/ CreateAccount(c) \/ PayAbroad(c) \/ RecordFailure(c)
    <2>1. CASE \E a \in {"TAKEN", "REFUSED"} : Answer(c, a) /\ UNCHANGED <<tables, found>>
      BY <1>9, <2>1 DEF tables
    <2>2. CASE /\ c \in committed' /\ found' = found
               /\ c \in audit' \/ Is(c, "signup")
               /\ \E a \in Outcomes : Answer(c, a)
      BY <1>1, <2>2 DEF AuditFitsCall, Is, Atomic
    <2> QED
      BY <1>13, <2>1, <2>2
         DEF CreateUser, CreateAccount, PayAbroad, RecordFailure, Committed, RecordAudit, reads,
             Outcomes, Is
  <1> QED
    BY <1>4, <1>5, <1>6, <1>7, <1>10, <1>11, <1>12, <1>13
       DEF Act, Step, PeopleNext, OnboardingNext

-----------------------------------------------------------------------------
(* Secrets.                                                                *)

\* What is known of one call and the secret it brings.
SecretsFitCall(c) ==
  /\ pc[c] = "audit" /\ Is(c, "login") => proved[c]
  /\ pc[c] = "write" /\ req[c].op \in {"password", "reset"} => proved[c]
  /\ Is(c, "login") /\ answer[c] = "OK" => proved[c]
  /\ req[c].op \in {"password", "reset"} /\ c \in committed => proved[c]

LEMMA SecretsByCall ==
  SecretsFit /\ SecretsWereRight <=> \A c \in Calls : SecretsFitCall(c)
  BY DEF SecretsFit, SecretsWereRight, SecretsFitCall

\* A secret once right stays on record.
LEMMA ProvedStays ==
  ASSUME Remember, NEW d \in Calls, proved[d]
  PROVE  proved'[d]
  BY DEF Remember

\* A check that lets a call go on compares with the row as it is now.
LEMMA CheckProves ==
  ASSUME Remember, NEW c \in Calls, CheckLogin(c) \/ CheckReset(c) \/ CheckPassword(c),
         StepsFit, pc'[c] # "done", ControlTypes
  PROVE  proved'[c]
  <1>1. c \in InFlight
    BY DEF CheckLogin, CheckReset, CheckPassword, Inside, InFlight
  <1>2. user' = user /\ req' = req
    BY DEF CheckLogin, CheckReset, CheckPassword, tables
  <1>3. \A a : Answer(c, a) => pc'[c] = "done"
    BY DEF Answer, ControlTypes
  <1>4. SecretIsRight(c)
    <2>1. CASE CheckLogin(c)
      BY <1>3, <2>1 DEF CheckLogin, SecretIsRight, Is
    <2>2. CASE CheckReset(c)
      BY <1>3, <2>2 DEF CheckReset, AnswerIsRight, SecretIsRight, Is
    <2>3. CASE CheckPassword(c)
      BY <1>3, <2>3 DEF CheckPassword, SecretIsRight, Is, Inside, StepsFit
    <2> QED
      BY <2>1, <2>2, <2>3
  <1>5. SecretIsRight(c)'
    BY <1>2, <1>4 DEF SecretIsRight, Is, Finds, Same
  <1> QED
    BY <1>1, <1>5 DEF Remember

\* Nothing but a check lets a call that needs a secret go on.
LEMMA SecretsFitKept ==
  ASSUME ControlTypes, RequestsAreKept, StepsFit, AuditFits, Remember, NEW c \in Calls, Act(c),
         SecretsFitCall(c)
  PROVE  SecretsFitCall(c)'
  <1> USE RequestsKept
  <1>1. CASE proved'[c]
    BY <1>1 DEF SecretsFitCall
  <1>2. CASE ~proved'[c]
    <2>1. ~proved[c]
      BY <1>2, ProvedStays
    <2>2. ASSUME NEW a \in Outcomes, Answer(c, a)
          PROVE  pc'[c] = "done" /\ answer'[c] = a
      BY <2>2 DEF Answer, ControlTypes
    <2>3. ASSUME NEW step \in Working, Then(c, step) \/ Stay(c, step)
          PROVE  pc'[c] = step /\ answer' = answer
      BY <2>3 DEF Then, Stay, ControlTypes
    <2>4. CASE ~Is(c, "login") /\ req[c].op \notin {"password", "reset"}
      BY <2>4 DEF SecretsFitCall, Is
    <2>5. CASE Is(c, "login") \/ req[c].op \in {"password", "reset"}
      <3>1. CASE Start(c)
        <4>1. /\ pc'[c] \in {"check", "done"} /\ answer'[c] \in {answer[c], "REFUSED"}
              /\ committed' = committed
          BY <2>2, <2>3, <2>5, <3>1 DEF Start, FirstStep, Outcomes, Working, tables, Is
        <4> QED
          BY <2>1, <4>1 DEF SecretsFitCall, Is
      <3>2. CASE Connect(c)
        BY <2>1, <3>2 DEF Connect, SecretsFitCall, tables, Is
      <3>3. CASE GiveUpWaiting(c) \/ Fail(c)
        <4>1. pc'[c] = "done" /\ answer'[c] # "OK" /\ committed' = committed
          BY <2>2, <3>3 DEF GiveUpWaiting, Fail, Outcomes, tables
        <4> QED
          BY <2>1, <4>1 DEF SecretsFitCall, Is
      <3>4. CASE CheckLogin(c) \/ CheckReset(c) \/ CheckPassword(c)
        <4>1. pc'[c] = "done"
          BY <1>2, <3>4, CheckProves
        <4>2. committed' = committed
          BY <3>4 DEF CheckLogin, CheckReset, CheckPassword, tables
        <4>3. Answer(c, "REFUSED")
          BY <2>3, <3>4, <4>1 DEF CheckLogin, CheckReset, CheckPassword, Working
        <4> QED
          BY <2>1, <2>2, <4>1, <4>2, <4>3 DEF SecretsFitCall, Is, Outcomes
      <3>5. CASE pc[c] = "write" \/ (pc[c] = "audit" /\ Is(c, "login"))
        BY <2>1, <2>5, <3>5 DEF SecretsFitCall, StepsFit, Is
      <3>6. CASE pc[c] = "audit" /\ ~Is(c, "login")
        BY <2>1, <2>5, <3>6 DEF SecretsFitCall, AuditFits, Is
      <3> QED
        BY <2>5, <3>1, <3>2, <3>3, <3>4, <3>5, <3>6
           DEF Act, Step, PeopleNext, OnboardingNext, CheckProfile, ResetPassword, ChangePassword,
               ChangeAnswer, ChangePicture, ChangeUsername, Store, WriteAudit, CheckNewUser,
               CreateUser, CheckNewAccount, CreateAccount, FindSettlement, PayAbroad,
               FindSenderBlocked, RecordFailure, Inside, StepsFit, Is
    <2> QED
      BY <2>4, <2>5
  <1> QED
    BY <1>1, <1>2

-----------------------------------------------------------------------------
(* Races.                                                                  *)

\* What is known of one call and those it met.
MeetingsFitCall(c) ==
  /\ pc[c] = "write" /\ Clash(c) => met[c] \cap committed # {}
  /\ answer[c] = "TAKEN" => met[c] \cap committed # {}

Together == \A c, d \in InFlight : c # d => d \in met[c]

LEMMA MeetingsByCall ==
  MeetingsFit /\ LosersMetTheirWinner <=> Together /\ \A c \in Calls : MeetingsFitCall(c)
  BY DEF MeetingsFit, LosersMetTheirWinner, MeetingsFitCall, Together

\* Whom a call met it has met for good, and whoever is in flight with it now, it meets.
LEMMA MetGrows ==
  ASSUME Remember, NEW c \in Calls
  PROVE  /\ met[c] \subseteq met'[c]
         /\ c \in InFlight' => InFlight' \ {c} \subseteq met'[c]
  BY DEF Remember

LEMMA TogetherKept ==
  ASSUME Remember
  PROVE  Together'
  BY MetGrows DEF Together, InFlight

\* What a call committed stays committed.
LEMMA CommittedGrows ==
  ASSUME NEW c \in Calls, Act(c)
  PROVE  committed \subseteq committed'
  BY WritesAreCommits

\* Calls with a loser's excuse keep it.
LEMMA ExcuseKept ==
  ASSUME Remember, NEW c \in Calls, Act(c), NEW d \in Calls, met[d] \cap committed # {}
  PROVE  met'[d] \cap committed' # {}
  BY MetGrows, CommittedGrows

\* A clash is the same as long as the tables and what the call picked are.
LEMMA ClashSame ==
  ASSUME UNCHANGED <<req, user, account, settlement>>, NEW d \in Calls,
         picked'[d] = picked[d], sawSettlement'[d] = sawSettlement[d]
  PROVE  Clash(d)' <=> Clash(d)
  BY DEF Clash, NameTaken, NumberTaken, Collides, StoredEmail, StoredUsername, Same, Is

\* For a call that waits while another steps.
LEMMA OthersMeetings ==
  ASSUME ControlTypes, DataTypes, Together, Remember, NEW c \in Calls, Act(c),
         NEW d \in Calls, d # c, MeetingsFitCall(d)
  PROVE  MeetingsFitCall(d)'
  <1>1. pc'[d] = pc[d] /\ answer'[d] = answer[d]
    BY OthersStay
  <1>2. picked'[d] = picked[d] /\ sawSettlement'[d] = sawSettlement[d]
    BY OthersReadsStay
  <1>3. CASE UNCHANGED <<user, account, settlement, committed>>
    <2>1. Clash(d)' <=> Clash(d)
      BY <1>2, <1>3, RequestsKept, ClashSame
    <2> QED
      BY <1>1, <2>1, ExcuseKept DEF MeetingsFitCall
  <1>4. CASE committed' = committed \cup {c} /\ pc[c] \in {"write", "record"}
    <2>1. CASE pc[d] = "write"
      <3>1. c \in met[d]
        BY <1>4, <2>1 DEF Together, InFlight
      <3>2. c \in met'[d] \cap committed'
        BY <1>4, <3>1, MetGrows
      <3> QED
        BY <3>2 DEF MeetingsFitCall
    <2>2. CASE pc[d] # "write"
      BY <1>1, <2>2, ExcuseKept DEF MeetingsFitCall
    <2> QED
      BY <2>1, <2>2
  <1> QED
    BY <1>3, <1>4, WritesAreCommits

\* For the call that steps: what it looked up was free, and what is taken when it
\* writes clashed before.
LEMMA OwnMeetings ==
  ASSUME ControlTypes, DataTypes, RequestsAreKept, StepsFit, AuditFits, Remember,
         NEW c \in Calls, Act(c), MeetingsFitCall(c)
  PROVE  MeetingsFitCall(c)'
  <1>1. ASSUME NEW a \in Outcomes, Answer(c, a)
        PROVE  pc'[c] = "done" /\ answer'[c] = a
    BY <1>1 DEF Answer, ControlTypes
  <1>2. ASSUME NEW step \in Working, Then(c, step) \/ Stay(c, step)
        PROVE  pc'[c] = step /\ answer' = answer
    BY <1>2 DEF Then, Stay, ControlTypes
  <1>3. CASE met[c] \cap committed # {}
    BY <1>3, ExcuseKept DEF MeetingsFitCall
  <1>4. CASE answer'[c] # "TAKEN" /\ pc'[c] # "write"
    BY <1>4 DEF MeetingsFitCall
  <1>5. CASE answer'[c] # "TAKEN" /\ ~Clash(c)'
    BY <1>5 DEF MeetingsFitCall
  <1>6. pc[c] # "done" => answer[c] # "TAKEN"
    BY DEF AuditFits
  <1>7. CASE pc[c] = "write" /\ Clash(c)
    BY <1>3, <1>7 DEF MeetingsFitCall
  <1>8. CASE Start(c)
    <2>1. answer'[c] # "TAKEN"
      BY <1>1, <1>2, <1>6, <1>8 DEF Start, FirstStep, Outcomes, Working
    <2>2. pc'[c] = "write" => req[c].op \in {"security", "avatar"}
      BY <1>1, <1>2, <1>8 DEF Start, FirstStep, Outcomes, Working
    <2>3. req[c].op \in {"security", "avatar"} => ~Clash(c)'
      BY RequestsKept DEF Clash, Is
    <2> QED
      BY <1>4, <1>5, <2>1, <2>2, <2>3
  <1>9. CASE Connect(c)
    <2>1. UNCHANGED <<req, user, account, settlement, picked, sawSettlement, pc, answer>>
      BY <1>9 DEF Connect, tables, reads
    <2>2. Clash(c)' <=> Clash(c)
      BY <2>1, ClashSame
    <2> QED
      BY <2>1, <2>2, ExcuseKept DEF MeetingsFitCall
  <1>10. CASE GiveUpWaiting(c) \/ Fail(c) \/ WriteAudit(c) \/ RecordFailure(c)
    <2>1. answer'[c] # "TAKEN" /\ pc'[c] # "write"
      BY <1>1, <1>10 DEF GiveUpWaiting, Fail, WriteAudit, RecordFailure, Outcomes
    <2> QED
      BY <1>4, <2>1
  <1>11. CASE CheckLogin(c) \/ CheckReset(c) \/ CheckPassword(c)
    <2>1. answer'[c] # "TAKEN"
      BY <1>1, <1>2, <1>6, <1>11
         DEF CheckLogin, CheckReset, CheckPassword, Outcomes, Working, Inside
    <2>2. ~Clash(c)'
      BY <1>11, RequestsKept DEF CheckLogin, CheckReset, CheckPassword, Clash, Is
    <2> QED
      BY <1>5, <2>1, <2>2
  <1>12. CASE CheckProfile(c)
    <2>1. answer'[c] # "TAKEN"
      BY <1>1, <1>2, <1>6, <1>12 DEF CheckProfile, Outcomes, Working, Inside
    <2>2. UNCHANGED <<req, user, account, settlement, picked, sawSettlement>> /\ Is(c, "profile")
      BY <1>12 DEF CheckProfile, tables, reads
    <2>3. pc'[c] = "write" => ~Clash(c)
      BY <1>1, <1>12 DEF CheckProfile, Clash, Is, Outcomes
    <2>4. pc'[c] = "write" => ~Clash(c)'
      BY <2>2, <2>3, ClashSame
    <2> QED
      BY <1>4, <1>5, <2>1, <2>4
  <1>13. CASE req[c].op \in OwnOps /\ Store(c)
    <2>1. answer'[c] # "TAKEN" /\ pc'[c] # "write"
      BY <1>1, <1>2, <1>6, <1>13 DEF Store, AfterWrite, Outcomes, Working, Inside
    <2> QED
      BY <1>4, <2>1
  <1>14. CASE \/ ResetPassword(c) \/ ChangePassword(c) \/ ChangeAnswer(c)
              \/ ChangePicture(c) \/ ChangeUsername(c)
    <2>1. CASE Is(c, "profile") /\ pc[c] = "write" /\ NameTaken(Target(c), None, StoredUsername(c))
      <3>1. Clash(c)
        BY <2>1 DEF Clash, Target, Is
      <3> QED
        BY <1>7, <2>1, <3>1
    <2> QED
      BY <1>13, <1>14, <2>1
         DEF ResetPassword, ChangePassword, ChangeAnswer, ChangePicture, ChangeUsername, OwnOps,
             Is, Inside
  <1>15. CASE CheckNewUser(c) \/ CheckNewAccount(c)
    <2>1. answer'[c] # "TAKEN"
      BY <1>1, <1>2, <1>6, <1>15
         DEF CheckNewUser, CheckNewAccount, PickNumbers, Outcomes, Working, Inside
    <2>2. CASE pc'[c] = "write"
      <3>1. PICK ns \in Available(c) : picked' = [picked EXCEPT ![c] = ns]
        BY <1>1, <1>15, <2>2 DEF CheckNewUser, CheckNewAccount, PickNumbers, Outcomes
      <3>2. picked'[c] = ns /\ \A i \in DOMAIN ns : ~NumberTaken(ns[i])
        BY <3>1 DEF DataTypes, Available
      <3>3. UNCHANGED <<req, user, account>>
        BY <1>15 DEF CheckNewUser, CheckNewAccount, tables
      <3>4. \A i \in DOMAIN ns : \A a \in account : a.number # ns[i]
        BY <3>2 DEF NumberTaken
      <3>5. ~(\E i \in DOMAIN picked[c] : NumberTaken(picked[c][i]))'
        BY <3>2, <3>3, <3>4 DEF NumberTaken
      <3>6. req[c].op \in {"signup", "customer"} =>
              ~NameTaken(c, StoredEmail(c), StoredUsername(c))'
        BY <1>1, <1>15, <2>2, <3>3
           DEF CheckNewUser, CheckNewAccount, NameTaken, StoredEmail, StoredUsername, Same, Is,
               Outcomes
      <3>7. req'[c].op \in {"signup", "customer", "account"}
        BY <1>15, <3>3 DEF CheckNewUser, CheckNewAccount, Is
      <3>8. ~Clash(c)'
        BY <3>3, <3>5, <3>6, <3>7 DEF Clash, Collides, Is
      <3> QED
        BY <1>5, <2>1, <3>8
    <2> QED
      BY <1>4, <2>1, <2>2
  <1>16. CASE FindSettlement(c)
    <2>1. answer'[c] # "TAKEN"
      BY <1>2, <1>6, <1>16 DEF FindSettlement, Working, Inside
    <2>2. ~Clash(c)'
      BY <1>16 DEF FindSettlement, Clash, Is, DataTypes, tables
    <2> QED
      BY <1>5, <2>1, <2>2
  <1>17. CASE FindSenderBlocked(c)
    <2>1. answer'[c] # "TAKEN" /\ pc'[c] # "write"
      BY <1>2, <1>6, <1>17 DEF FindSenderBlocked, Working, Inside
    <2> QED
      BY <1>4, <2>1
  <1>18. CASE CreateUser(c) \/ CreateAccount(c) \/ PayAbroad(c)
    <2>1. CASE Answer(c, "OK")
      BY <1>1, <1>4, <2>1 DEF Outcomes
    <2>2. CASE ~Answer(c, "OK")
      <3>1. pc[c] = "write" /\ Clash(c)
        BY <1>18, <2>2 DEF CreateUser, CreateAccount, PayAbroad, Inside, Clash, Is
      <3> QED
        BY <1>7, <3>1
    <2> QED
      BY <2>1, <2>2
  <1> QED
    BY <1>8, <1>9, <1>10, <1>11, <1>12, <1>14, <1>15, <1>16, <1>17, <1>18
       DEF Act, Step, PeopleNext, OnboardingNext

-----------------------------------------------------------------------------
(* The tables.                                                             *)

\* One cell of the user table, and the account table.
CellHolds(u, f) ==
  user[u][f] \in IF Writers(u, f) = {} THEN {Original(u)[f]}
                 ELSE {Patch(c)[f] : c \in Writers(u, f)}
AccountsHold == account = FirstAccounts \cup UNION {Opened(c) : c \in Calls}

LEMMA TablesByCell ==
  TablesHoldWhatWasCommitted <=>
    AccountsHold /\ \A u \in Users, f \in Fields : CellHolds(u, f)
  BY DEF TablesHoldWhatWasCommitted, CellHolds, AccountsHold

\* Nobody has changed the row of a user who is not there yet.
LEMMA NoEarlyWriter ==
  ASSUME RequestsAreKept, RowsFit, NEW u \in Calls, NEW f,
         ~(u \in committed /\ req[u].op \in {"signup", "customer"}), committed \subseteq Calls
  PROVE  Writers(u, f) = {}
  <1>1. SUFFICES ASSUME NEW d \in Writers(u, f)
                 PROVE  FALSE
    OBVIOUS
  <1>2. d \in Calls /\ Target(d) = u
    BY DEF Writers
  <1>3. req[d].by # u
    BY <1>2, RequestFacts, CallsAssumption DEF Users
  <1>4. found[d] = u
    BY <1>2, <1>3 DEF Target
  <1> QED
    BY <1>2, <1>4 DEF RowsFit

\* So that row has no name to be found by.
LEMMA FoundIsThere ==
  ASSUME RequestsAreKept, RowsFit, TablesHoldWhatWasCommitted, committed \subseteq Calls,
         NEW u \in Calls, NEW name, Finds(u, name)
  PROVE  u \in committed /\ req[u].op \in {"signup", "customer"}
  <1>1. SUFFICES ASSUME ~(u \in committed /\ req[u].op \in {"signup", "customer"})
                 PROVE  FALSE
    OBVIOUS
  <1>2. Original(u) = NoUser
    BY <1>1, CallsAssumption DEF Original
  <1>3. ASSUME NEW f \in {"username", "email"}
        PROVE  user[u][f] = None
    <2>1. Writers(u, f) = {}
      BY <1>1, NoEarlyWriter
    <2>2. CellHolds(u, f)
      BY TablesByCell DEF Users, Fields
    <2> QED
      BY <1>2, <2>1, <2>2 DEF CellHolds, NoUser, Fields
  <1> QED
    BY <1>3 DEF Finds, Same

\* What a call reads before it commits changes nobody's writes.
LEMMA WritersSame ==
  ASSUME committed' = committed, req' = req, committed \subseteq Calls,
         \A d \in committed : found'[d] = found[d],
         NEW u, NEW f
  PROVE  Writers(u, f)' = Writers(u, f)
  BY DEF Writers, Target, Patch, Is

LEMMA PatchSame ==
  ASSUME req' = req, NEW d
  PROVE  Patch(d)' = Patch(d)
  BY DEF Patch, StoredUsername, Is

LEMMA NewUserSame ==
  ASSUME req' = req, NEW d
  PROVE  NewUser(d)' = NewUser(d)
  BY DEF NewUser, StoredEmail, StoredUsername, Is

\* What a step does to the rows the invariant is about.
LEMMA RowsFitKept ==
  ASSUME ControlTypes, DataTypes, RequestsAreKept, StepsFit, RowsFit, TablesHoldWhatWasCommitted,
         NEW c \in Calls, Act(c)
  PROVE  RowsFit'
  <1>1. req' = req
    BY RequestsKept
  <1>2. committed' \subseteq committed \cup {c} /\ committed \subseteq committed'
    BY WritesAreCommits
  <1>3. c \in committed' => pc'[c] \in {"audit", "done"}
    <2>1. ASSUME NEW a \in Outcomes, Answer(c, a)
          PROVE  pc'[c] = "done"
      BY <2>1 DEF Answer, ControlTypes
    <2>2. ASSUME NEW step \in Working, Then(c, step) \/ Stay(c, step)
          PROVE  pc'[c] = step
      BY <2>2 DEF Then, Stay, ControlTypes
    <2>3. CASE pc'[c] = "done"
      BY <2>3
    <2>4. CASE committed' = committed /\ pc[c] \notin {"audit", "done"}
      BY <2>4 DEF RowsFit
    <2>5. CASE req[c].op \in OwnOps /\ Store(c)
      BY <2>1, <2>2, <2>5 DEF Store, AfterWrite, Outcomes, Working
    <2>6. CASE \/ ResetPassword(c) \/ ChangePassword(c) \/ ChangeAnswer(c)
               \/ ChangePicture(c) \/ ChangeUsername(c)
      BY <2>1, <2>5, <2>6
         DEF ResetPassword, ChangePassword, ChangeAnswer, ChangePicture, ChangeUsername, OwnOps,
             Is, Outcomes
    <2>7. CASE \/ WriteAudit(c) \/ CreateUser(c) \/ CreateAccount(c) \/ PayAbroad(c)
               \/ RecordFailure(c) \/ GiveUpWaiting(c) \/ Fail(c)
      BY <2>1, <2>7
         DEF WriteAudit, CreateUser, CreateAccount, PayAbroad, RecordFailure, GiveUpWaiting, Fail,
             Outcomes
    <2>8. CASE Connect(c)
      BY <2>8 DEF Connect, tables, RowsFit
    <2>9. CASE \/ Start(c) \/ CheckLogin(c) \/ CheckReset(c) \/ CheckPassword(c)
               \/ CheckProfile(c) \/ CheckNewUser(c) \/ CheckNewAccount(c) \/ FindSettlement(c)
               \/ FindSenderBlocked(c)
      BY <2>4, <2>9
         DEF Start, CheckLogin, CheckReset, CheckPassword, CheckProfile, CheckNewUser,
             CheckNewAccount, FindSettlement, FindSenderBlocked, tables, Inside
    <2> QED
      BY <2>6, <2>7, <2>8, <2>9 DEF Act, Step, PeopleNext, OnboardingNext
  <1>4. found'[c] \in Calls =>
          found'[c] \in committed /\ req[found'[c]].op \in {"signup", "customer"}
    <2>1. CASE found'[c] = found[c]
      BY <2>1 DEF RowsFit
    <2>2. CASE CheckLogin(c) \/ CheckReset(c)
      <3>1. found'[c] = found[c] \/ \E name : Finds(found'[c], name)
        BY <2>2 DEF CheckLogin, CheckReset, DataTypes
      <3> QED
        BY <2>1, <3>1, FoundIsThere DEF DataTypes
    <2>3. CASE CheckPassword(c)
      BY <2>1, <2>3, RequestFacts, CallsAssumption DEF CheckPassword, DataTypes, Users
    <2>4. CASE UNCHANGED found
      BY <2>1, <2>4
    <2> QED
      BY <2>2, <2>3, <2>4
         DEF Act, Step, Start, Connect, GiveUpWaiting, Fail, PeopleNext, CheckProfile,
             ResetPassword, ChangePassword, ChangeAnswer, ChangePicture, ChangeUsername, Store,
             WriteAudit, OnboardingNext, CheckNewUser, CreateUser, CheckNewAccount, CreateAccount,
             FindSettlement, PayAbroad, FindSenderBlocked, RecordFailure, reads
  <1>5. \A d \in Calls : d # c => pc'[d] = pc[d] /\ found'[d] = found[d]
    BY OthersStay, OthersReadsStay
  <1>6. \A d \in committed' : pc'[d] \in {"audit", "done"}
    BY <1>2, <1>3, <1>5 DEF RowsFit, DataTypes
  <1>7. \A d \in Calls : found'[d] \in Calls =>
          found'[d] \in committed' /\ req'[found'[d]].op \in {"signup", "customer"}
    BY <1>1, <1>2, <1>4, <1>5 DEF RowsFit
  <1> QED
    BY <1>6, <1>7 DEF RowsFit

\* A step that commits nothing leaves the tables as they are explained.
LEMMA TablesWithoutCommit ==
  ASSUME RequestsAreKept, TablesHoldWhatWasCommitted, committed \subseteq Calls,
         UNCHANGED <<req, user, account, committed>>,
         \A d \in committed : found'[d] = found[d] /\ picked'[d] = picked[d]
  PROVE  TablesHoldWhatWasCommitted'
  <1>1. \A u \in Users, f \in Fields : Writers(u, f)' = Writers(u, f)
    BY WritersSame
  <1>2. \A d \in Calls : Patch(d)' = Patch(d)
    BY PatchSame
  <1>3. \A u \in Users : Original(u)' = Original(u)
    BY DEF Original, NewUser, StoredEmail, StoredUsername, Is
  <1>4. \A d \in Calls : Opened(d)' = Opened(d)
    BY DEF Opened, AccountRows, Is
  <1>5. \A u \in Users, f \in Fields : CellHolds(u, f)'
    <2> TAKE u \in Users, f \in Fields
    <2>1. CellHolds(u, f)
      BY TablesByCell
    <2>2. Writers(u, f) \subseteq Calls
      BY DEF Writers
    <2>3. {Patch(d)'[f] : d \in Writers(u, f)} = {Patch(d)[f] : d \in Writers(u, f)}
      BY <1>2, <2>2
    <2> QED
      BY <1>1, <1>3, <2>1, <2>3 DEF CellHolds
  <1>6. AccountsHold'
    BY <1>4, TablesByCell DEF AccountsHold
  <1> QED
    BY <1>5, <1>6 DEF TablesHoldWhatWasCommitted, CellHolds, AccountsHold

\* A column a call writes holds what that call asked for, and its other writers stay.
LEMMA TablesAfterStore ==
  ASSUME DataTypes, RequestsAreKept, TablesHoldWhatWasCommitted, NEW c \in Calls,
         req[c].op \in OwnOps, Target(c) \in Users, Store(c)
  PROVE  TablesHoldWhatWasCommitted'
  <1>1. /\ UNCHANGED <<req, account, found, picked>>
        /\ committed' = committed \cup {c}
        /\ user' = [user EXCEPT ![Target(c)] = [f \in Fields |-> Written(c, f)]]
    BY DEF Store, Committed, reads
  <1>2. \A d \in Calls : Patch(d)' = Patch(d) /\ Target(d)' = Target(d)
    BY <1>1, PatchSame DEF Target
  <1>3. \A u \in Users, f \in Fields :
          Writers(u, f)' =
            Writers(u, f) \cup (IF u = Target(c) /\ f \in DOMAIN Patch(c) THEN {c} ELSE {})
    BY <1>1, <1>2 DEF Writers, DataTypes
  <1>4. \A u \in Users : Original(u)' = Original(u)
    BY <1>1, NewUserSame DEF Original, OwnOps
  <1>5. \A d \in Calls : Opened(d)' = Opened(d)
    BY <1>1 DEF Opened, AccountRows, Is, OwnOps
  <1>6. \A u \in Users, f \in Fields : CellHolds(u, f)'
    <2> TAKE u \in Users, f \in Fields
    <2>1. CellHolds(u, f)
      BY TablesByCell
    <2>2. Writers(u, f) \subseteq Calls
      BY DEF Writers, DataTypes
    <2>3. CASE u = Target(c) /\ f \in DOMAIN Patch(c)
      <3>1. user'[u][f] = Patch(c)'[f]
        BY <1>1, <1>2, <2>3 DEF Written, DataTypes
      <3>2. c \in Writers(u, f)'
        BY <1>3, <2>3
      <3>3. CellHolds(u, f)' <=> user'[u][f] \in {Patch(d)'[f] : d \in Writers(u, f)'}
        BY <3>2 DEF CellHolds
      <3> QED
        BY <3>1, <3>2, <3>3
    <2>4. CASE ~(u = Target(c) /\ f \in DOMAIN Patch(c))
      <3>1. user'[u][f] = user[u][f]
        BY <1>1, <2>4 DEF Written, DataTypes
      <3>2. Writers(u, f)' = Writers(u, f)
        BY <1>3, <2>4
      <3>3. {Patch(d)'[f] : d \in Writers(u, f)} = {Patch(d)[f] : d \in Writers(u, f)}
        BY <1>2, <2>2
      <3> QED
        BY <1>4, <2>1, <3>1, <3>2, <3>3 DEF CellHolds
    <2> QED
      BY <2>3, <2>4
  <1>7. AccountsHold'
    BY <1>1, <1>5, TablesByCell DEF AccountsHold
  <1> QED
    BY <1>6, <1>7 DEF TablesHoldWhatWasCommitted, CellHolds, AccountsHold

\* Calls that commit something else than a change of one's own row write no column that
\* another call wrote, and open their own accounts.
LEMMA TablesAfterOpening ==
  ASSUME DataTypes, RequestsAreKept, RowsFit, TablesHoldWhatWasCommitted, NEW c \in Calls,
         req[c].op \notin OwnOps, c \notin committed,
         UNCHANGED <<req, found, picked>>,
         committed' = committed \cup {c},
         user' = IF req[c].op \in {"signup", "customer"} THEN [user EXCEPT ![c] = NewUser(c)]
                 ELSE user,
         account' = account \cup Opened(c)'
  PROVE  TablesHoldWhatWasCommitted'
  <1>1. \A d \in Calls : Patch(d)' = Patch(d) /\ Target(d)' = Target(d)
    BY PatchSame DEF Target
  <1>2. \A u \in Users, f \in Fields : Writers(u, f)' = Writers(u, f)
    BY <1>1 DEF Writers, DataTypes
  <1>3. \A u \in Users : u # c \/ req[c].op \notin {"signup", "customer"} =>
                           Original(u)' = Original(u)
    BY NewUserSame DEF Original
  <1>4. \A u \in Users, f \in Fields : CellHolds(u, f)'
    <2> TAKE u \in Users, f \in Fields
    <2>1. CellHolds(u, f)
      BY TablesByCell
    <2>2. CASE u = c /\ req[c].op \in {"signup", "customer"}
      <3>1. Writers(u, f)' = {}
        BY <1>2, <2>2, NoEarlyWriter DEF DataTypes
      <3>2. Original(u)' = NewUser(c)
        BY <2>2, CallsAssumption, NewUserSame DEF Original
      <3>3. user'[u] = NewUser(c)
        BY <2>2 DEF DataTypes
      <3> QED
        BY <3>1, <3>2, <3>3 DEF CellHolds
    <2>3. CASE ~(u = c /\ req[c].op \in {"signup", "customer"})
      <3>1. user'[u][f] = user[u][f]
        BY <2>3 DEF DataTypes
      <3>2. Original(u)' = Original(u)
        BY <1>3, <2>3
      <3>3. Writers(u, f) \subseteq Calls
        BY DEF Writers, DataTypes
      <3>4. {Patch(d)'[f] : d \in Writers(u, f)} = {Patch(d)[f] : d \in Writers(u, f)}
        BY <1>1, <3>3
      <3> QED
        BY <1>2, <2>1, <3>1, <3>2, <3>4 DEF CellHolds
    <2> QED
      BY <2>2, <2>3
  <1>5. \A d \in Calls : d # c => Opened(d)' = Opened(d)
    BY DEF Opened, AccountRows, Is
  <1>6. Opened(c) = {}
    BY DEF Opened
  <1>7. \A x : (\E d \in Calls : x \in Opened(d)') <=>
                 (\E d \in Calls : x \in Opened(d)) \/ x \in Opened(c)'
    BY <1>5, <1>6
  <1>8. UNION {Opened(d)' : d \in Calls} = (UNION {Opened(d) : d \in Calls}) \cup Opened(c)'
    BY <1>7
  <1>9. AccountsHold'
    BY <1>8, TablesByCell DEF AccountsHold
  <1> QED
    BY <1>4, <1>9 DEF TablesHoldWhatWasCommitted, CellHolds, AccountsHold

\* No step loses a committed change or leaves anything of a call that failed.
LEMMA TablesKept ==
  ASSUME ControlTypes, DataTypes, RequestsAreKept, StepsFit, RowsFit, TablesHoldWhatWasCommitted,
         NEW c \in Calls, Act(c)
  PROVE  TablesHoldWhatWasCommitted'
  <1>1. req' = req
    BY RequestsKept
  <1>2. \A d \in Calls : d # c => found'[d] = found[d] /\ picked'[d] = picked[d]
    BY OthersReadsStay
  <1>3. pc[c] \in {"idle", "check", "write", "record"} => c \notin committed
    BY DEF RowsFit
  <1>4. CASE UNCHANGED <<user, account, committed, found, picked>>
    BY <1>1, <1>4, TablesWithoutCommit DEF DataTypes
  <1>5. CASE UNCHANGED <<user, account, committed>> /\ pc[c] = "check"
    <2>1. \A d \in committed : found'[d] = found[d] /\ picked'[d] = picked[d]
      BY <1>2, <1>3, <1>5 DEF DataTypes
    <2> QED
      BY <1>1, <1>5, <2>1, TablesWithoutCommit DEF DataTypes
  <1>6. CASE req[c].op \in OwnOps /\ Store(c)
    <2>1. Target(c) \in Users
      BY <1>6, TargetIsUser DEF Store, Inside
    <2> QED
      BY <1>6, <2>1, TablesAfterStore
  <1>7. CASE \/ ResetPassword(c) \/ ChangePassword(c) \/ ChangeAnswer(c)
             \/ ChangePicture(c) \/ ChangeUsername(c)
    BY <1>4, <1>6, <1>7
       DEF ResetPassword, ChangePassword, ChangeAnswer, ChangePicture, ChangeUsername, OwnOps, Is,
           tables, reads
  <1>8. CASE CreateUser(c)
    <2>1. CASE UNCHANGED <<tables, reads>>
      BY <1>4, <2>1 DEF tables, reads
    <2>2. CASE ~UNCHANGED <<tables, reads>>
      <3>1. /\ req[c].op \in {"signup", "customer"} /\ pc[c] = "write"
            /\ committed' = committed \cup {c} /\ UNCHANGED <<found, picked>>
            /\ user' = [user EXCEPT ![c] = NewUser(c)]
            /\ account' = account \cup AccountRows(c, picked[c])
        BY <1>8, <2>2 DEF CreateUser, Committed, reads, Inside
      <3>2. Opened(c)' = AccountRows(c, picked[c])
        BY <1>1, <3>1 DEF Opened, AccountRows, Is
      <3>3. req[c].op \notin OwnOps
        BY <3>1 DEF OwnOps
      <3> QED
        BY <1>1, <1>3, <3>1, <3>2, <3>3, TablesAfterOpening
    <2> QED
      BY <2>1, <2>2
  <1>9. CASE CreateAccount(c)
    <2>1. CASE UNCHANGED <<tables, reads>>
      BY <1>4, <2>1 DEF tables, reads
    <2>2. CASE ~UNCHANGED <<tables, reads>>
      <3>1. /\ Is(c, "account") /\ pc[c] = "write"
            /\ committed' = committed \cup {c} /\ UNCHANGED <<user, found, picked>>
            /\ account' = account \cup AccountRows(req[c].by, picked[c])
        BY <1>9, <2>2 DEF CreateAccount, Committed, reads, Inside
      <3>2. Opened(c)' = AccountRows(req[c].by, picked[c])
        BY <1>1, <3>1 DEF Opened, AccountRows, Is
      <3>3. req[c].op \notin OwnOps /\ req[c].op \notin {"signup", "customer"}
        BY <3>1 DEF OwnOps, Is
      <3> QED
        BY <1>1, <1>3, <3>1, <3>2, <3>3, TablesAfterOpening
    <2> QED
      BY <2>1, <2>2
  <1>10. CASE PayAbroad(c) \/ RecordFailure(c)
    <2>1. CASE UNCHANGED <<tables, reads>>
      BY <1>4, <2>1 DEF tables, reads
    <2>2. CASE ~UNCHANGED <<tables, reads>>
      <3>1. /\ req[c].op \in {"abroad", "blocked"} /\ pc[c] \in {"write", "record"}
            /\ committed' = committed \cup {c} /\ UNCHANGED <<user, account, found, picked>>
        BY <1>10, <2>2 DEF PayAbroad, RecordFailure, Committed, reads, Inside, StepsFit, Is
      <3>2. Opened(c)' = {}
        BY <1>1, <3>1 DEF Opened, Is
      <3>3. req[c].op \notin OwnOps /\ req[c].op \notin {"signup", "customer"}
        BY <3>1 DEF OwnOps
      <3> QED
        BY <1>1, <1>3, <3>1, <3>2, <3>3, TablesAfterOpening
    <2> QED
      BY <2>1, <2>2
  <1> QED
    BY <1>4, <1>5, <1>7, <1>8, <1>9, <1>10
       DEF Act, Step, Start, Connect, GiveUpWaiting, Fail, PeopleNext, CheckLogin, CheckReset,
           CheckPassword, CheckProfile, WriteAudit, OnboardingNext, CheckNewUser,
           CheckNewAccount, FindSettlement, FindSenderBlocked, tables, reads, Inside

-----------------------------------------------------------------------------
(* Names, numbers and the limit.                                           *)

\* Call c inserts a user with the accounts it picked numbers for ...
Creates(c) ==
  /\ req[c].op \in {"signup", "customer"}
  /\ ~Collides(c)
  /\ user' = [user EXCEPT ![c] = NewUser(c)]
  /\ account' = account \cup AccountRows(c, picked[c])

\* ... or one account of a customer's ...
Opens(c) ==
  /\ Is(c, "account") /\ pc[c] = "write"
  /\ \A i \in DOMAIN picked[c] : ~NumberTaken(picked[c][i])
  /\ UNCHANGED user
  /\ account' = account \cup AccountRows(req[c].by, picked[c])
  /\ committed' = committed \cup {c}

\* ... or changes the row of one user.
Changes(c) ==
  /\ req[c].op \in OwnOps /\ pc[c] = "write"
  /\ Is(c, "profile") => ~NameTaken(Target(c), None, StoredUsername(c))
  /\ user' = [user EXCEPT ![Target(c)] = [f \in Fields |-> Written(c, f)]]
  /\ UNCHANGED account

\* What a step may do to the tables of users and accounts.
LEMMA TableSteps ==
  ASSUME NEW c \in Calls, Act(c)
  PROVE  UNCHANGED <<user, account>> \/ Creates(c) \/ Opens(c) \/ Changes(c)
  <1>1. CASE \/ ResetPassword(c) \/ ChangePassword(c) \/ ChangeAnswer(c)
             \/ ChangePicture(c) \/ ChangeUsername(c)
    BY <1>1 DEF ResetPassword, ChangePassword, ChangeAnswer, ChangePicture, ChangeUsername, Store,
                Inside, Changes, OwnOps, Is, tables
  <1>2. CASE CreateUser(c) \/ CreateAccount(c)
    BY <1>2 DEF CreateUser, CreateAccount, Creates, Opens, Committed, Inside, tables
  <1> QED
    BY <1>1, <1>2
       DEF Act, Step, Start, Connect, GiveUpWaiting, Fail, PeopleNext, CheckLogin, CheckReset,
           CheckPassword, CheckProfile, WriteAudit, OnboardingNext, CheckNewUser, CheckNewAccount,
           FindSettlement, PayAbroad, FindSenderBlocked, RecordFailure, tables

\* A call picks numbers once, for as many accounts as it asks for.
LEMMA PickSteps ==
  ASSUME DataTypes, NEW c \in Calls, Act(c)
  PROVE  \/ UNCHANGED picked
         \/ /\ req[c].op \in {"signup", "customer", "account"}
            /\ picked'[c] \in Available(c)
            /\ \A d \in Calls \ {c} : picked'[d] = picked[d]
  <1>1. CASE CheckNewUser(c) \/ CheckNewAccount(c)
    <2>1. req[c].op \in {"signup", "customer", "account"}
      BY <1>1 DEF CheckNewUser, CheckNewAccount, Is
    <2>2. UNCHANGED picked \/ \E ns \in Available(c) : picked' = [picked EXCEPT ![c] = ns]
      BY <1>1 DEF CheckNewUser, CheckNewAccount, PickNumbers
    <2> QED
      BY <2>1, <2>2 DEF DataTypes
  <1> QED
    BY <1>1
       DEF Act, Step, Start, Connect, GiveUpWaiting, Fail, PeopleNext, CheckLogin, CheckReset,
           CheckPassword, CheckProfile, ResetPassword, ChangePassword, ChangeAnswer,
           ChangePicture, ChangeUsername, Store, WriteAudit, OnboardingNext, CreateUser,
           CreateAccount, FindSettlement, PayAbroad, FindSenderBlocked, RecordFailure, reads

\* The parts of NamesFit.
EmailTyped(row) ==
  /\ row.email \in (Names \ Usernames) \cup {None}
  /\ row.username \in Usernames \cup {None}
  /\ row.role = "CUSTOMER" => row.email # None /\ Lower[row.email] = row.email
NamesTyped == \A u \in Users : EmailTyped(user[u])
NamesDiffer ==
  \A u, v \in Users :
    Same(user[u].email, user[v].email) \/ Same(user[u].username, user[v].username) => u = v
PicksDiffer ==
  \A c \in Calls : \A i, j \in DOMAIN picked[c] : picked[c][i] = picked[c][j] => i = j
NumbersDiffer == \A a, b \in account : a.number = b.number => a = b

LEMMA NamesParts == NamesFit <=> NamesTyped /\ NamesDiffer /\ PicksDiffer /\ NumbersDiffer
  BY DEF NamesFit, NamesTyped, EmailTyped, NamesDiffer, PicksDiffer, NumbersDiffer

\* What a new user is stored as.
LEMMA NewNames ==
  ASSUME RequestsAreKept, NEW c \in Calls, req[c].op \in {"signup", "customer"}
  PROVE  /\ EmailTyped(NewUser(c))
         /\ NewUser(c).email = StoredEmail(c)
         /\ NewUser(c).username = StoredUsername(c)
  <1>1. req[c].name \in Names \ Usernames
    BY RequestFacts
  <1>2. Lower[req[c].name] \in Names \ Usernames /\ Lower[Lower[req[c].name]] = Lower[req[c].name]
    BY <1>1, LowerAssumption, UsernamesAssumption
  <1>3. /\ NewUser(c).email = StoredEmail(c)
        /\ NewUser(c).username = StoredUsername(c)
        /\ NewUser(c).role = IF Is(c, "signup") THEN "ADMIN" ELSE "CUSTOMER"
    BY DEF NewUser, Fields
  <1>4. StoredEmail(c) \in Names \ Usernames
    BY <1>1, <1>2 DEF StoredEmail
  <1>5. NewUser(c).role = "CUSTOMER" => Lower[StoredEmail(c)] = StoredEmail(c)
    BY <1>2, <1>3 DEF StoredEmail, Is
  <1> QED
    BY <1>3, <1>4, <1>5, UsernameStored, CallsAssumption DEF EmailTyped, Users

\* What a change of one's own row does to the names: a new username, or nothing.
LEMMA ChangedNames ==
  ASSUME NEW c \in Calls, req[c].op \in OwnOps
  PROVE  /\ Written(c, "email") = user[Target(c)].email
         /\ Written(c, "role") = user[Target(c)].role
         /\ Written(c, "username") =
              IF Is(c, "profile") THEN StoredUsername(c) ELSE user[Target(c)].username
  <1>1. CASE Is(c, "profile")
    BY <1>1, ProfilePatch DEF Written
  <1>2. CASE ~Is(c, "profile")
    <2>1. DOMAIN Patch(c) \in {{"answer"}, {"avatar"}, {"password"}}
      BY <1>2 DEF Patch
    <2> QED
      BY <1>2, <2>1 DEF Written
  <1> QED
    BY <1>1, <1>2

\* No step gives a user a name that is not of its kind.
LEMMA NamesTypedKept ==
  ASSUME DataTypes, RequestsAreKept, StepsFit, NamesTyped, NEW c \in Calls, Act(c)
  PROVE  NamesTyped'
  <1> SUFFICES ASSUME NEW u \in Users
               PROVE  EmailTyped(user'[u])
    BY DEF NamesTyped
  <1>1. EmailTyped(user[u])
    BY DEF NamesTyped
  <1>2. CASE user' = user
    BY <1>1, <1>2
  <1>3. CASE Creates(c)
    BY <1>1, <1>3, NewNames DEF Creates, DataTypes
  <1>4. CASE Changes(c)
    <2>1. CASE u = Target(c)
      <3>1. user'[u] = [f \in Fields |-> Written(c, f)]
        BY <1>4, <2>1 DEF Changes, DataTypes
      <3>2. /\ user'[u].email = user[u].email /\ user'[u].role = user[u].role
            /\ user'[u].username \in {StoredUsername(c), user[u].username}
        BY <1>4, <2>1, <3>1, ChangedNames DEF Changes, Fields
      <3> QED
        BY <1>1, <3>2, UsernameStored DEF EmailTyped
    <2>2. CASE u # Target(c)
      BY <1>1, <1>4, <2>2 DEF Changes, DataTypes
    <2> QED
      BY <2>1, <2>2
  <1> QED
    BY <1>2, <1>3, <1>4, TableSteps DEF Opens

\* The unique columns: a name is stored only while nobody else has it.
LEMMA NamesDifferKept ==
  ASSUME DataTypes, RequestsAreKept, StepsFit, NamesDiffer, NEW c \in Calls, Act(c)
  PROVE  NamesDiffer'
  <1> SUFFICES ASSUME NEW u \in Users, NEW v \in Users, u # v
               PROVE  /\ ~Same(user'[u].email, user'[v].email)
                      /\ ~Same(user'[u].username, user'[v].username)
    BY DEF NamesDiffer, Same
  <1>1. /\ ~Same(user[u].email, user[v].email)
        /\ ~Same(user[u].username, user[v].username)
    BY DEF NamesDiffer
  <1>2. CASE user' = user
    BY <1>1, <1>2
  <1>3. CASE Creates(c)
    <2>1. \A w \in Users \ {c} :
            /\ user'[w] = user[w]
            /\ ~Same(user[w].email, StoredEmail(c))
            /\ ~Same(user[w].username, StoredUsername(c))
      BY <1>3 DEF Creates, Collides, NameTaken, DataTypes
    <2>2. /\ c \in Users
          /\ user'[c].email = StoredEmail(c)
          /\ user'[c].username = StoredUsername(c)
      BY <1>3, NewNames DEF Creates, DataTypes, Users
    <2> QED
      BY <1>1, <2>1, <2>2 DEF Same
  <1>4. CASE Changes(c)
    <2>1. Target(c) \in Users
      BY <1>4, TargetIsUser DEF Changes
    <2>2. user'[Target(c)] = [f \in Fields |-> Written(c, f)]
      BY <1>4, <2>1 DEF Changes, DataTypes
    <2>3. /\ user'[Target(c)].email = user[Target(c)].email
          /\ user'[Target(c)].username =
               IF Is(c, "profile") THEN StoredUsername(c) ELSE user[Target(c)].username
      BY <1>4, <2>2, ChangedNames DEF Changes, Fields
    <2>4. \A w \in Users \ {Target(c)} :
            /\ user'[w] = user[w]
            /\ Is(c, "profile") => ~Same(user[w].username, StoredUsername(c))
      BY <1>4 DEF Changes, NameTaken, DataTypes
    <2>5. CASE u # Target(c) /\ v # Target(c)
      BY <1>1, <2>4, <2>5
    <2>6. CASE u = Target(c)
      BY <1>1, <2>3, <2>4, <2>6 DEF Same
    <2>7. CASE v = Target(c)
      BY <1>1, <2>3, <2>4, <2>7 DEF Same
    <2> QED
      BY <2>5, <2>6, <2>7
  <1> QED
    BY <1>2, <1>3, <1>4, TableSteps DEF Opens

\* Account numbers: those a call picked differ, and none of them is taken when it inserts.
LEMMA NumbersDifferKept ==
  ASSUME DataTypes, PicksDiffer, NumbersDiffer, NEW c \in Calls, Act(c)
  PROVE  PicksDiffer' /\ NumbersDiffer'
  <1>1. PicksDiffer'
    <2> SUFFICES ASSUME NEW d \in Calls, NEW i \in DOMAIN picked'[d], NEW j \in DOMAIN picked'[d],
                        picked'[d][i] = picked'[d][j]
                 PROVE  i = j
      BY DEF PicksDiffer
    <2>1. CASE picked'[d] = picked[d]
      BY <2>1 DEF PicksDiffer
    <2>2. CASE d = c /\ picked'[c] \in Available(c)
      BY <2>2 DEF Available
    <2> QED
      BY <2>1, <2>2, PickSteps
  <1>2. ASSUME NEW u, account' = account \cup AccountRows(u, picked[c]),
               \A i \in DOMAIN picked[c] : ~NumberTaken(picked[c][i])
        PROVE  NumbersDiffer'
    <2> SUFFICES ASSUME NEW a \in account', NEW b \in account', a.number = b.number
                 PROVE  a = b
      BY DEF NumbersDiffer
    <2>1. CASE a \in account /\ b \in account
      BY <2>1 DEF NumbersDiffer
    <2>2. \A row \in AccountRows(u, picked[c]) :
            /\ \E i \in DOMAIN picked[c] : row = [number |-> picked[c][i], owner |-> u]
            /\ \A other \in account : other.number # row.number
      BY <1>2 DEF AccountRows, NumberTaken
    <2>3. CASE a \in AccountRows(u, picked[c]) /\ b \in AccountRows(u, picked[c])
      <3>1. PICK i \in DOMAIN picked[c] : a = [number |-> picked[c][i], owner |-> u]
        BY <2>2, <2>3
      <3>2. PICK j \in DOMAIN picked[c] : b = [number |-> picked[c][j], owner |-> u]
        BY <2>2, <2>3
      <3>3. i = j
        BY <3>1, <3>2 DEF PicksDiffer
      <3> QED
        BY <3>1, <3>2, <3>3
    <2> QED
      BY <1>2, <2>1, <2>2, <2>3
  <1>3. CASE account' = account
    BY <1>1, <1>3 DEF NumbersDiffer
  <1>4. CASE Creates(c)
    BY <1>1, <1>2, <1>4 DEF Creates, Collides
  <1>5. CASE Opens(c)
    BY <1>1, <1>2, <1>5 DEF Opens
  <1> QED
    BY <1>1, <1>3, <1>4, <1>5, TableSteps DEF Changes

LEMMA NamesFitKept ==
  ASSUME DataTypes, RequestsAreKept, StepsFit, NamesFit, NEW c \in Calls, Act(c)
  PROVE  NamesFit'
  <1>1. NamesTyped /\ NamesDiffer /\ PicksDiffer /\ NumbersDiffer
    BY NamesParts
  <1>2. NamesTyped' /\ NamesDiffer' /\ PicksDiffer' /\ NumbersDiffer'
    BY <1>1, NamesTypedKept, NamesDifferKept, NumbersDifferKept
  <1> QED
    BY <1>2 DEF NamesFit, NamesTyped, EmailTyped, NamesDiffer, PicksDiffer, NumbersDiffer

\* No username is an email: what finds two people would have to be both.
LEMMA NamesAreUnique == NamesFit => NamesFindOnePerson
  <1> SUFFICES ASSUME NamesFit
               PROVE  NamesFindOnePerson
    OBVIOUS
  <1>1. NamesTyped /\ NamesDiffer /\ NumbersDiffer
    BY NamesParts
  <1>2. ASSUME NEW n \in Names, NEW u \in Users, NEW v \in Users, Finds(u, n), Finds(v, n)
        PROVE  u = v
    <2>1. CASE Lower[n] \in Usernames
      <3>1. user[u].username = Lower[n] /\ user[v].username = Lower[n] /\ Lower[n] # None
        BY <1>1, <1>2, <2>1 DEF NamesTyped, EmailTyped, Finds, Same
      <3> QED
        BY <1>1, <3>1 DEF NamesDiffer, Same
    <2>2. CASE Lower[n] \notin Usernames
      <3>1. user[u].email = Lower[n] /\ user[v].email = Lower[n] /\ Lower[n] # None
        BY <1>1, <1>2, <2>2 DEF NamesTyped, EmailTyped, Finds, Same
      <3> QED
        BY <1>1, <3>1 DEF NamesDiffer, Same
    <2> QED
      BY <2>1, <2>2
  <1>3. \A u \in Users : user[u].role = "CUSTOMER" => Finds(u, user[u].email)
    BY <1>1 DEF NamesTyped, EmailTyped, Finds, Same
  <1> QED
    BY <1>1, <1>2, <1>3 DEF NamesFindOnePerson, NumbersDiffer

\* What LimitFits says of one call, and LimitHoldsWithoutOverlap of one customer.
RoomOrRival(c) ==
  Is(c, "account") /\ pc[c] = "write" =>
    /\ Len(picked[c]) <= 1
    /\ \/ Cardinality(AccountsOf(req[c].by)) < MaxAccounts
       \/ \E d \in committed : Is(d, "account") /\ req[d].by = req[c].by /\ d \in met[c]
Rivals(u) ==
  \E c, d \in committed :
    /\ Is(c, "account") /\ Is(d, "account")
    /\ req[c].by = u /\ req[d].by = u
    /\ d \in met[c]

\* Rows a call inserts are finitely many.
LEMMA RowsFinite ==
  ASSUME DataTypes, NEW c \in Calls, NEW u
  PROVE  IsFiniteSet(AccountRows(u, picked[c]))
  <1> DEFINE S == DOMAIN picked[c]
             rowAt(i) == [number |-> picked[c][i], owner |-> u]
             T == {rowAt(i) : i \in S}
  <1>1. IsFiniteSet(S)
    <2>1. picked[c] \in Seq(Numbers)
      BY DEF DataTypes
    <2>2. S = 1 .. Len(picked[c]) /\ Len(picked[c]) \in Nat
      BY <2>1
    <2> QED
      BY <2>2, FS_Interval
  <1>2. IsFiniteSet(T)
    <2>1. \A x \in T : \E i \in S : x = rowAt(i)
      OBVIOUS
    <2>2. \A i \in S : rowAt(i) \in T
      OBVIOUS
    <2> DEFINE image == [i \in S |-> rowAt(i)]
    <2>3. image \in Surjection(S, T)
      <3>1. image \in [S -> T]
        BY <2>2
      <3>2. \A x \in T : \E i \in S : image[i] = x
        BY <2>1
      <3> QED
        BY <3>1, <3>2 DEF Surjection
    <2> QED
      BY <1>1, <2>3, FS_Surjection
  <1> QED
    BY <1>2 DEF AccountRows

\* No step inserts rows without end.
LEMMA AccountStaysFinite ==
  ASSUME DataTypes, IsFiniteSet(account), NEW c \in Calls, Act(c)
  PROVE  IsFiniteSet(account')
  <1>1. ASSUME NEW u, account' = account \cup AccountRows(u, picked[c])
        PROVE  IsFiniteSet(account')
    BY <1>1, RowsFinite, FS_Union
  <1>2. CASE account' = account
    BY <1>2
  <1> QED
    BY <1>1, <1>2, TableSteps DEF Creates, Opens, Changes

\* Only a call of the customer's own gives them another account, and it gives one.
LEMMA FoundersAccounts ==
  ASSUME DataTypes, RequestsAreKept, NEW c \in Calls, Act(c), NEW u \in Founders
  PROVE  \/ AccountsOf(u)' = AccountsOf(u)
         \/ /\ Opens(c) /\ req[c].by = u
            /\ AccountsOf(u)' = AccountsOf(u) \cup AccountRows(u, picked[c])
  <1>1. CASE account' = account
    BY <1>1 DEF AccountsOf
  <1>2. CASE Creates(c)
    <2>1. \A a \in AccountRows(c, picked[c]) : a.owner # u
      BY CallsAssumption DEF AccountRows
    <2> QED
      BY <1>2, <2>1 DEF Creates, AccountsOf
  <1>3. CASE Opens(c)
    <2>1. \A a \in AccountRows(req[c].by, picked[c]) : a.owner = req[c].by
      BY DEF AccountRows
    <2>2. req[c].by # u => AccountsOf(u)' = AccountsOf(u)
      BY <1>3, <2>1 DEF Opens, AccountsOf
    <2>3. req[c].by = u => AccountsOf(u)' = AccountsOf(u) \cup AccountRows(u, picked[c])
      BY <1>3, <2>1 DEF Opens, AccountsOf
    <2> QED
      BY <1>3, <2>2, <2>3
  <1> QED
    BY <1>1, <1>2, <1>3, TableSteps DEF Changes

\* A call that waits to insert: whoever takes the room it found has met it.
LEMMA OthersRoom ==
  ASSUME ControlTypes, DataTypes, RequestsAreKept, StepsFit, Together, Remember,
         NEW c \in Calls, Act(c), NEW d \in Calls, d # c, RoomOrRival(d)
  PROVE  RoomOrRival(d)'
  <1> SUFFICES ASSUME Is(d, "account")', pc'[d] = "write"
               PROVE  /\ Len(picked'[d]) <= 1
                      /\ \/ (Cardinality(AccountsOf(req[d].by)) < MaxAccounts)'
                         \/ \E e \in committed' :
                              /\ Is(e, "account")' /\ req'[e].by = req'[d].by
                              /\ e \in met'[d]
    BY DEF RoomOrRival
  <1>1. req' = req /\ Is(d, "account") /\ pc[d] = "write" /\ picked'[d] = picked[d]
    BY RequestsKept, OthersStay, OthersReadsStay DEF Is
  <1>2. Len(picked'[d]) <= 1
    BY <1>1 DEF RoomOrRival
  <1>3. CASE \E e \in committed : Is(e, "account") /\ req[e].by = req[d].by /\ e \in met[d]
    BY <1>1, <1>2, <1>3, MetGrows, CommittedGrows DEF Is
  <1>4. CASE Cardinality(AccountsOf(req[d].by)) < MaxAccounts
    <2>1. req[d].by \in Founders
      BY <1>1, RequestFacts DEF StepsFit, Is
    <2>2. CASE AccountsOf(req[d].by)' = AccountsOf(req[d].by)
      BY <1>2, <1>4, <2>2
    <2>3. CASE Opens(c) /\ req[c].by = req[d].by
      <3>1. c \in met[d]
        BY <1>1, <2>3 DEF Opens, Together, InFlight
      <3>2. c \in committed' /\ c \in met'[d] /\ Is(c, "account")'
        BY <1>1, <2>3, <3>1, MetGrows DEF Opens, Is
      <3> QED
        BY <1>1, <1>2, <2>3, <3>2
    <2>4. \/ AccountsOf(req[d].by)' = AccountsOf(req[d].by)
          \/ Opens(c) /\ req[c].by = req[d].by
      <3>1. ASSUME NEW u \in Founders
            PROVE  \/ AccountsOf(u)' = AccountsOf(u)
                   \/ Opens(c) /\ req[c].by = u
        BY FoundersAccounts
      <3>2. ASSUME NEW u, u = req[d].by
            PROVE  AccountsOf(req[d].by)' = AccountsOf(u)'
        BY <1>1, <3>2 DEF AccountsOf
      <3> QED
        BY <2>1, <3>1, <3>2
    <2> QED
      BY <2>2, <2>3, <2>4
  <1> QED
    BY <1>1, <1>3, <1>4 DEF RoomOrRival

\* A call that has just looked has found room for its one account.
LEMMA OwnRoom ==
  ASSUME ControlTypes, DataTypes, RequestsAreKept, StepsFit, IsFiniteSet(account), Remember,
         NEW c \in Calls, Act(c), RoomOrRival(c)
  PROVE  RoomOrRival(c)'
  <1> SUFFICES ASSUME Is(c, "account")', pc'[c] = "write"
               PROVE  /\ Len(picked'[c]) <= 1
                      /\ \/ (Cardinality(AccountsOf(req[c].by)) < MaxAccounts)'
                         \/ \E e \in committed' :
                              /\ Is(e, "account")' /\ req'[e].by = req'[c].by
                              /\ e \in met'[c]
    BY DEF RoomOrRival
  <1>1. req' = req /\ Is(c, "account")
    BY RequestsKept DEF Is
  <1>2. ASSUME NEW a \in Outcomes, Answer(c, a)
        PROVE  FALSE
    BY <1>2 DEF Answer, ControlTypes
  <1>3. CASE Connect(c)
    <2>1. UNCHANGED <<req, account, committed, picked>> /\ pc[c] = "write"
      BY <1>3 DEF Connect, tables, reads
    <2>2. (Cardinality(AccountsOf(req[c].by)) < MaxAccounts)'
            <=> Cardinality(AccountsOf(req[c].by)) < MaxAccounts
      BY <2>1 DEF AccountsOf
    <2>3. met[c] \subseteq met'[c]
      BY MetGrows
    <2> QED
      BY <1>1, <2>1, <2>2, <2>3 DEF RoomOrRival, Is
  <1>4. CASE CheckNewAccount(c)
    <2>1. ~AtLimit(req[c].by) /\ PickNumbers(c, Then(c, "write"))
      BY <1>2, <1>4 DEF CheckNewAccount, Outcomes
    <2>2. UNCHANGED <<req, account>>
      BY <1>4 DEF CheckNewAccount, tables
    <2>3. \E ns \in Available(c) : picked' = [picked EXCEPT ![c] = ns]
      BY <1>2, <2>1 DEF PickNumbers, Outcomes
    <2>4. picked'[c] \in Available(c)
      BY <2>3 DEF DataTypes
    <2>5. Len(picked'[c]) <= 1
      <3>1. DOMAIN req[c].numbers = 1 .. 1
        BY <1>1, RequestFacts
      <3>2. DOMAIN picked'[c] = 1 .. 1
        BY <2>4, <3>1 DEF Available
      <3>3. picked'[c] \in Seq(Numbers)
        <4>1. Available(c) \subseteq Seq(Numbers)
          BY RequestFacts DEF Available
        <4> QED
          BY <2>4, <4>1
      <3> DEFINE ns == picked'[c]
      <3>4. DOMAIN ns = 1 .. Len(ns) /\ Len(ns) \in Nat
        BY <3>3
      <3>5. 2 \notin DOMAIN ns
        BY <3>2
      <3> HIDE DEF ns
      <3>6. Len(ns) <= 1
        BY <3>4, <3>5
      <3> QED
        BY <3>6 DEF ns
    <2>6. Cardinality(AccountsOf(req[c].by)) < MaxAccounts
      <3>1. Cardinality(AccountsOf(req[c].by)) \in Nat
        BY FS_Subset, FS_CardinalityType DEF AccountsOf
      <3> QED
        BY <2>1, <3>1, LimitsAssumption DEF AtLimit
    <2> QED
      BY <2>2, <2>5, <2>6 DEF AccountsOf
  <1>5. ASSUME NEW step, step # "write", Then(c, step) \/ Stay(c, step)
        PROVE  FALSE
    BY <1>5 DEF Then, Stay, ControlTypes
  <1>6. CASE Start(c)
    BY <1>1, <1>2, <1>5, <1>6 DEF Start, FirstStep, Is, Outcomes
  <1>7. CASE GiveUpWaiting(c) \/ Fail(c) \/ WriteAudit(c) \/ RecordFailure(c) \/ CreateAccount(c)
    BY <1>2, <1>7 DEF GiveUpWaiting, Fail, WriteAudit, RecordFailure, CreateAccount, Outcomes
  <1>8. CASE \/ CheckLogin(c) \/ CheckReset(c) \/ CheckPassword(c) \/ CheckProfile(c)
             \/ ResetPassword(c) \/ ChangePassword(c) \/ ChangeAnswer(c) \/ ChangePicture(c)
             \/ ChangeUsername(c) \/ CheckNewUser(c) \/ CreateUser(c) \/ FindSettlement(c)
             \/ PayAbroad(c) \/ FindSenderBlocked(c)
    BY <1>1, <1>8
       DEF CheckLogin, CheckReset, CheckPassword, CheckProfile, ResetPassword, ChangePassword,
           ChangeAnswer, ChangePicture, ChangeUsername, CheckNewUser, CreateUser, FindSettlement,
           PayAbroad, FindSenderBlocked, Is
  <1> QED
    BY <1>3, <1>4, <1>6, <1>7, <1>8 DEF Act, Step, PeopleNext, OnboardingNext

\* The limit holds, or two calls of the customer's met and both went through.
LEMMA LimitKept ==
  ASSUME ControlTypes, DataTypes, RequestsAreKept, Remember, LimitFits, NEW c \in Calls, Act(c),
         NEW u \in Founders, Cardinality(AccountsOf(u)) > MaxAccounts => Rivals(u),
         (Cardinality(AccountsOf(u)) > MaxAccounts)'
  PROVE  Rivals(u)'
  <1>1. req' = req /\ committed \subseteq committed' /\ committed \subseteq Calls
    BY RequestsKept, CommittedGrows DEF DataTypes
  <1>2. CASE Rivals(u)
    <2>1. \A d \in committed : met[d] \subseteq met'[d]
      BY <1>1, MetGrows
    <2> QED
      BY <1>1, <1>2, <2>1 DEF Rivals, Is
  <1>3. CASE AccountsOf(u)' = AccountsOf(u)
    BY <1>2, <1>3
  <1>4. CASE /\ Opens(c) /\ req[c].by = u
             /\ AccountsOf(u)' = AccountsOf(u) \cup AccountRows(u, picked[c])
    <2>1. RoomOrRival(c)
      BY DEF LimitFits, RoomOrRival
    <2>2. CASE \E d \in committed : Is(d, "account") /\ req[d].by = u /\ d \in met[c]
      <3>1. PICK d \in committed : Is(d, "account") /\ req[d].by = u /\ d \in met[c]
        BY <2>2
      <3>2. c \in committed' /\ d \in committed' /\ d \in met'[c]
        BY <1>1, <1>4, <3>1, MetGrows DEF Opens
      <3>3. Is(c, "account")' /\ Is(d, "account")' /\ req'[c].by = u /\ req'[d].by = u
        BY <1>1, <1>4, <3>1 DEF Opens, Is
      <3> QED
        BY <3>2, <3>3 DEF Rivals
    <2>3. CASE Cardinality(AccountsOf(u)) < MaxAccounts
      <3>1. picked[c] \in Seq(Numbers) /\ Len(picked[c]) <= 1
        BY <1>4, <2>1 DEF Opens, RoomOrRival, DataTypes
      <3>2. \A i, j \in DOMAIN picked[c] : i = j
        BY <3>1
      <3>3. PICK row : AccountRows(u, picked[c]) \subseteq {row}
        BY <3>2 DEF AccountRows
      <3>4. IsFiniteSet(AccountsOf(u))
        BY FS_Subset DEF LimitFits, AccountsOf
      <3>5. Cardinality(AccountsOf(u)) \in Nat
        BY <3>4, FS_CardinalityType
      <3>6. Cardinality(AccountsOf(u) \cup {row}) \in
              {Cardinality(AccountsOf(u)), Cardinality(AccountsOf(u)) + 1}
        BY <3>4, FS_AddElement
      <3>7. AccountsOf(u)' = AccountsOf(u) \/ AccountsOf(u)' = AccountsOf(u) \cup {row}
        BY <1>4, <3>3
      <3> QED
        BY <1>3, <2>3, <3>5, <3>6, <3>7, LimitsAssumption
    <2> QED
      BY <1>4, <2>1, <2>2, <2>3 DEF RoomOrRival, Opens
  <1> QED
    BY <1>3, <1>4, FoundersAccounts

LEMMA LimitFitsKept ==
  ASSUME ControlTypes, DataTypes, RequestsAreKept, StepsFit, Together, Remember, LimitFits,
         NEW c \in Calls, Act(c)
  PROVE  LimitFits'
  <1>1. IsFiniteSet(account')
    BY AccountStaysFinite DEF LimitFits
  <1>2. \A d \in Calls : RoomOrRival(d)
    BY DEF LimitFits, RoomOrRival
  <1>3. \A d \in Calls : RoomOrRival(d)'
    BY <1>2, OwnRoom, OthersRoom DEF LimitFits
  <1> QED
    BY <1>1, <1>3 DEF LimitFits, RoomOrRival

-----------------------------------------------------------------------------
(* The theorems.                                                           *)

\* The type invariant, in the parts the lemmas are about.
LEMMA TypeParts ==
  RequestsAreKept =>
    (TypeOK <=> /\ ControlTypes /\ DataTypes
                /\ met \in [Calls -> SUBSET Calls] /\ proved \in [Calls -> BOOLEAN])
  BY RequestFacts, ScenariosAssumption
     DEF TypeOK, ControlTypes, DataTypes, Outcomes, RequestsAreKept

LEMMA InitInv == Init => OfficeInv
  <1> SUFFICES ASSUME Init
               PROVE  OfficeInv
    OBVIOUS
  <1> USE DEF Init
  <1>1. RequestsAreKept
    BY DEF RequestsAreKept
  <1>2. ControlTypes
    <2>1. {c \in Calls : held[c] >= 1} = {} /\ {c \in Calls : held[c] = 2} = {}
      OBVIOUS
    <2>2. Free = PoolSize - (Cardinality({}) + Cardinality({}))
      BY <2>1 DEF Free
    <2>3. Free \in 0 .. PoolSize
      BY <2>2, FS_EmptySet, LimitsAssumption
    <2> QED
      BY <2>3 DEF ControlTypes, Outcomes
  <1>3. DataTypes
    <2>1. \A u \in Users : user[u] \in UserRow
      BY FoundersAssumption DEF UserRow, NoUser, Values
    <2> QED
      BY <2>1, FirstAccountsAssumption DEF DataTypes
  <1>4. TypeOK
    BY <1>1, <1>2, <1>3, TypeParts
  <1>5. StepsFit /\ AuditFits /\ SecretsFit /\ AuditTellsWhatHappened /\ SecretsWereRight
        /\ LosersMetTheirWinner /\ RowsFit
    BY CallsAssumption
       DEF RowsFit, Users, StepsFit, AuditFits, SecretsFit, AuditTellsWhatHappened, SecretsWereRight,
           LosersMetTheirWinner
  <1>6. MeetingsFit
    BY DEF MeetingsFit, InFlight
  <1>7. TablesHoldWhatWasCommitted
    <2>1. \A u \in Users, f \in Fields : Writers(u, f) = {}
      BY DEF Writers
    <2>2. \A u \in Users : Original(u) = user[u]
      BY DEF Original
    <2>3. \A d \in Calls : Opened(d) = {}
      BY DEF Opened
    <2> QED
      BY <2>1, <2>2, <2>3 DEF TablesHoldWhatWasCommitted
  <1>8. NamesFit /\ NamesFindOnePerson
    <2>1. \A u \in Users : user[u] = IF u \in Founders THEN FoundersRow[u] ELSE NoUser
      OBVIOUS
    <2>2. NoUser.email = None /\ NoUser.username = None /\ NoUser.role = None
      BY DEF NoUser, Fields
    <2>3. NamesTyped
      <3>1. EmailTyped(NoUser)
        BY <2>2, CallsAssumption DEF EmailTyped, Roles
      <3>2. \A u \in Founders : EmailTyped(FoundersRow[u])
        BY FoundersAssumption, CallsAssumption DEF EmailTyped
      <3> QED
        BY <2>1, <3>1, <3>2 DEF NamesTyped
    <2>4. NamesDiffer
      BY <2>1, <2>2, FoundersAssumption DEF NamesDiffer, Same
    <2>5. PicksDiffer
      BY DEF PicksDiffer
    <2>6. NumbersDiffer
      BY FirstAccountsAssumption DEF NumbersDiffer
    <2> QED
      BY <2>3, <2>4, <2>5, <2>6, NamesParts, NamesAreUnique
  <1>9. LimitFits /\ LimitHoldsWithoutOverlap
    <2>1. LimitFits
      BY FirstAccountsAssumption DEF LimitFits
    <2>2. ASSUME NEW u \in Founders
          PROVE  ~(Cardinality(AccountsOf(u)) > MaxAccounts)
      <3>1. IsFiniteSet(AccountsOf(u))
        BY FirstAccountsAssumption, FS_Subset DEF AccountsOf
      <3>2. Cardinality(AccountsOf(u)) \in Nat
        BY <3>1, FS_CardinalityType
      <3> QED
        BY <3>2, FirstAccountsAssumption, LimitsAssumption DEF AccountsOf
    <2> QED
      BY <2>1, <2>2 DEF LimitHoldsWithoutOverlap
  <1> QED
    BY <1>1, <1>4, <1>5, <1>6, <1>7, <1>8, <1>9 DEF OfficeInv

LEMMA StepInv == OfficeInv /\ [Next]_vars => OfficeInv'
  <1> SUFFICES ASSUME OfficeInv, [Next]_vars
               PROVE  OfficeInv'
    OBVIOUS
  <1> USE DEF OfficeInv
  <1>1. ASSUME NEW c \in Calls, Act(c), Remember
        PROVE  OfficeInv'
    <2>1. ControlTypes /\ DataTypes
      BY TypeParts
    <2>2. ControlTypes' /\ DataTypes' /\ StepsFit'
      BY <1>1, <2>1, ControlTypesKept, DataTypesKept, StepsFitKept
    <2>3. RequestsAreKept' /\ req' \in [Calls -> Request]
      BY <1>1, RequestsKept, ScenariosAssumption DEF RequestsAreKept
    <2>4. met' \in [Calls -> SUBSET Calls] /\ proved' \in [Calls -> BOOLEAN]
      BY <1>1, TypeParts DEF Remember, InFlight
    <2>5. TypeOK'
      BY <2>2, <2>3, <2>4 DEF TypeOK, ControlTypes, DataTypes, Outcomes
    <2>6. \A d \in Calls : d # c =>
            /\ pc'[d] = pc[d] /\ answer'[d] = answer[d] /\ found'[d] = found[d]
            /\ (d \in audit' <=> d \in audit) /\ (d \in committed' <=> d \in committed)
            /\ req' = req
      BY <1>1, <2>1, OthersStay, OthersReadsStay, OthersLogStays, RequestsKept
    <2>7. AuditFits' /\ AuditTellsWhatHappened'
      <3>1. \A d \in Calls : AuditFitsCall(d)
        BY <2>1, AuditByCall DEF DataTypes
      <3>2. AuditFitsCall(c)'
        BY <1>1, <2>1, <3>1, AuditFitsKept
      <3>3. \A d \in Calls : d # c => AuditFitsCall(d)'
        BY <2>6, <3>1 DEF AuditFitsCall, Is
      <3> QED
        BY <2>2, <3>2, <3>3
           DEF AuditFitsCall, AuditFits, AuditTellsWhatHappened, DataTypes
    <2>8. SecretsFit' /\ SecretsWereRight'
      <3>1. \A d \in Calls : SecretsFitCall(d)
        BY SecretsByCall
      <3>2. SecretsFitCall(c)'
        BY <1>1, <2>1, <3>1, SecretsFitKept
      <3>3. \A d \in Calls : d # c => SecretsFitCall(d)'
        BY <1>1, <2>6, <3>1, ProvedStays DEF SecretsFitCall, Is
      <3> QED
        BY <3>2, <3>3 DEF SecretsFitCall, SecretsFit, SecretsWereRight
    <2>9. MeetingsFit' /\ LosersMetTheirWinner'
      <3>1. Together /\ \A d \in Calls : MeetingsFitCall(d)
        BY MeetingsByCall
      <3>2. MeetingsFitCall(c)'
        BY <1>1, <2>1, <3>1, OwnMeetings
      <3>3. \A d \in Calls : d # c => MeetingsFitCall(d)'
        BY <1>1, <2>1, <3>1, OthersMeetings
      <3> QED
        BY <1>1, <3>2, <3>3, TogetherKept
           DEF MeetingsFitCall, MeetingsFit, LosersMetTheirWinner, Together
    <2>10. RowsFit' /\ TablesHoldWhatWasCommitted'
      BY <1>1, <2>1, RowsFitKept, TablesKept
    <2>11. NamesFit' /\ NamesFindOnePerson'
      BY <1>1, <2>1, NamesFitKept, NamesAreUnique, PTL
    <2>12. LimitFits' /\ LimitHoldsWithoutOverlap'
      <3>1. Together
        BY MeetingsByCall
      <3>2. \A u \in Founders : Cardinality(AccountsOf(u)) > MaxAccounts => Rivals(u)
        BY DEF LimitHoldsWithoutOverlap, Rivals
      <3>3. \A u \in Founders : (Cardinality(AccountsOf(u)) > MaxAccounts)' => Rivals(u)'
        BY <1>1, <2>1, <3>2, LimitKept
      <3> QED
        BY <1>1, <2>1, <3>1, <3>3, LimitFitsKept DEF LimitHoldsWithoutOverlap, Rivals
    <2> QED
      BY <2>2, <2>3, <2>5, <2>7, <2>8, <2>9, <2>10, <2>11, <2>12
  <1>2. CASE UNCHANGED vars
    <2> USE <1>2 DEF vars, tables, reads, history
    <2>1. TypeOK' /\ RequestsAreKept'
      BY DEF TypeOK, Free, RequestsAreKept
    <2>2. StepsFit' /\ AuditFits' /\ SecretsFit'
      BY DEF StepsFit, AuditFits, SecretsFit, Is
    <2>3. AuditTellsWhatHappened' /\ SecretsWereRight' /\ LosersMetTheirWinner'
      BY DEF AuditTellsWhatHappened, SecretsWereRight, LosersMetTheirWinner, Is
    <2>4. \A d \in Calls : Clash(d)' <=> Clash(d)
      BY ClashSame
    <2>5. MeetingsFit'
      BY <2>4 DEF MeetingsFit, InFlight
    <2>6. RowsFit' /\ TablesHoldWhatWasCommitted'
      BY TablesWithoutCommit, TypeParts DEF RowsFit, DataTypes
    <2>7. NamesFit' /\ NamesFindOnePerson'
      BY DEF NamesFit, NamesFindOnePerson, Finds, Same
    <2>8. LimitFits' /\ LimitHoldsWithoutOverlap'
      BY DEF LimitFits, LimitHoldsWithoutOverlap, AccountsOf, Is
    <2> QED
      BY <2>1, <2>2, <2>3, <2>5, <2>6, <2>7, <2>8
  <1> QED
    BY <1>1, <1>2 DEF Next, Act

\* Every part of the invariant holds in every state of every behaviour.
THEOREM OfficeInvariantHolds == Spec => []OfficeInv
  BY InitInv, StepInv, PTL DEF Spec

\* The state stays well typed; in particular the calls never hold more connections than
\* the pool has, nested transactions included.
THEOREM OfficeTypeCorrect == Spec => []TypeOK
  <1>1. OfficeInv => TypeOK
    BY DEF OfficeInv
  <1> QED
    BY <1>1, OfficeInvariantHolds, PTL

\* Whatever the calls, their order and their failures, the audit log tells of nothing
\* that did not happen and of everything answered with success.
THEOREM AuditIsTrue == Spec => []AuditTellsWhatHappened
  <1>1. OfficeInv => AuditTellsWhatHappened
    BY DEF OfficeInv
  <1> QED
    BY <1>1, OfficeInvariantHolds, PTL

\* Nobody signs in or changes a password with a secret that was not right while the call
\* was under way.
THEOREM SecretsCount == Spec => []SecretsWereRight
  <1>1. OfficeInv => SecretsWereRight
    BY DEF OfficeInv
  <1> QED
    BY <1>1, OfficeInvariantHolds, PTL

\* A call is refused by a unique constraint only if another, in flight with it, committed
\* in between: for every set of names, numbers and calls.
THEOREM OnlyRacesLose == Spec => []LosersMetTheirWinner
  <1>1. OfficeInv => LosersMetTheirWinner
    BY DEF OfficeInv
  <1> QED
    BY <1>1, OfficeInvariantHolds, PTL

\* The tables hold what the committed calls asked for and nothing else: no call undoes a
\* column another one changed, and one that failed leaves no row behind.
THEOREM NoChangeIsLost == Spec => []TablesHoldWhatWasCommitted
  <1>1. OfficeInv => TablesHoldWhatWasCommitted
    BY DEF OfficeInv
  <1> QED
    BY <1>1, OfficeInvariantHolds, PTL

\* However calls race, a name finds one person at most and a number one account, and
\* customers are found by their email: for every set of names and calls.
THEOREM NamesAreUnambiguous == Spec => []NamesFindOnePerson
  <1>1. OfficeInv => NamesFindOnePerson
    BY DEF OfficeInv
  <1> QED
    BY <1>1, OfficeInvariantHolds, PTL

\* Past the limit of accounts a customer gets only by calls that were in flight together:
\* for every limit and any number of calls.
THEOREM LimitIsPassedByRacesOnly == Spec => []LimitHoldsWithoutOverlap
  <1>1. OfficeInv => LimitHoldsWithoutOverlap
    BY DEF OfficeInv
  <1> QED
    BY <1>1, OfficeInvariantHolds, PTL
=============================================================================
