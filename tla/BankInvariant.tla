---------------------------- MODULE BankInvariant ----------------------------
(***************************************************************************)
(* Why the row locks keep cache and ledger together: the inductive         *)
(* invariant of Bank, in named parts.                                      *)
(***************************************************************************)
EXTENDS Bank

\* Calls keep asking for what they were given.
InputsAreKept == req \in [Requests -> Inputs]

Exists(t) == transfer[t] \notin {"none", "FAILED"}

\* A transfer is between two accounts, and a call past validation has one.
TransfersHaveTwoSides ==
  \A r \in Requests :
    /\ Exists(r) => IsTransfer(r)
    /\ IsTransfer(r) /\ (Exists(r) \/ pc[r] \notin {"start", "reject", "done"})
         => req[r].to # req[r].account

\* A call inserts its Transfer row when it ends; until then nobody has a transfer of its.
TransfersComeLast == \A r \in Requests : IsTransfer(r) /\ pc[r] # "done" => transfer[r] = "none"

\* A call completes its Transaction row when it ends.
RecordsComeLast == \A r \in Requests : pc[r] # "done" => r \notin Posted

\* Calls that block or reverse a transfer have found one.
SubjectsExist ==
  \A r \in Requests :
    /\ req[r].op = "reverse" /\ pc[r] \in {"lock", "post"} => Exists(req[r].of)
    /\ req[r].op = "block" /\ pc[r] = "update" => Exists(req[r].of)

\* Only calls inside a money transaction hold row locks, on rows they are about, ...
LocksHaveOwners ==
  \A a \in Accounts :
    rowLock[a] # None =>
      /\ pc[rowLock[a]] \in {"lock", "post", "write"}
      /\ a \in Touched(rowLock[a])

\* ... and a call that has left the locking step holds all it needs.
LocksAreTaken ==
  \A r \in Requests :
    /\ pc[r] = "lock" => ToLock(r) # {}
    /\ pc[r] \in {"post", "write"} => ToLock(r) = {}
    /\ pc[r] = "write" => req[r].op = "repair"

\* What a call read from a row it locked is what the row says until the call writes;
\* for a repair, what it read from the ledger.
ReadsAreCurrent ==
  \A r \in Requests, a \in Accounts :
    rowLock[a] = r => seen[r][a] = IF pc[r] = "write" THEN ledger[a] ELSE balance[a]

TransferInvariant == TransfersHaveTwoSides /\ TransfersComeLast /\ SubjectsExist

RowInvariant == LocksHaveOwners /\ LocksAreTaken /\ ReadsAreCurrent

\* The inductive invariant: transfers have two sides, a call moves money once, and a call
\* about to write holds its rows and knows what they say, drifted or not.
LockInvariant ==
  TypeOK /\ InputsAreKept /\ TransferInvariant /\ RecordsComeLast /\ RowInvariant
-----------------------------------------------------------------------------
(* Why answers, records and transfers tell the same story: the inductive   *)
(* invariant behind AnswerMatchesEffect, SameKeySameAnswer and             *)
(* ReversalIsRecorded, which rests on LockInvariant.                       *)

\* A transfer is committed together with its COMPLETED Transaction row.
TransfersArePosted == \A t \in Requests : Exists(t) => t \in Posted

\* A call is given a row as its answer only when it ends.
AnswersComeLast == \A r \in Requests : pc[r] # "done" => result[r] \notin Requests

\* The row a keyed call is given belongs to the key and has moved its money.
AnswersHoldTheKey ==
  \A r \in Requests :
    /\ req[r].op \in FundingOps \cup {"transfer"}
    /\ req[r].key # NoKey
    /\ result[r] \in Requests
    => result[r] \in Posted /\ req[result[r]].key = req[r].key

AnswerInvariant ==
  /\ TransfersArePosted
  /\ AnswersComeLast
  /\ AnswersHoldTheKey
  /\ AnswerMatchesEffect
  /\ ReversalIsRecorded

-----------------------------------------------------------------------------
(* Why calls that lock in lockOrder cannot wait in a circle.               *)

\* Only transfers wait for a key or share rows.
OnlyTransfersShare == \A r \in Requests : pc[r] \in {"insert", "share"} => IsTransfer(r)

\* The rows a call holds come before those it still has to lock.
LocksInOrder ==
  \A r \in Requests, a \in Accounts :
    rowLock[a] = r => \A b \in ToLock(r) : a < b

OrderInvariant == OnlyTransfersShare /\ LocksInOrder

-----------------------------------------------------------------------------
(* Sums over the records: behind RecordsExplainBalances.                   *)

\* Only finitely many calls have moved money, so there is a sum to speak of.
RecordsInvariant == IsFiniteSet(Posted) /\ RecordsExplainBalances
=============================================================================
