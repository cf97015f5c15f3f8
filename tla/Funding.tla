------------------------------ MODULE Funding ------------------------------
(***************************************************************************)
(* funding.service.ts: fundAccount and debitAccount, the administrator's   *)
(* credits and debits against the bank's cash account, and                 *)
(* repairAccountBalance of reconciliation.service.ts, which rewrites a     *)
(* cached balance from the ledger.                                         *)
(***************************************************************************)
EXTENDS Database

FundingStep(r, op, step) == req[r].op = op /\ pc[r] = step

\* resolveTargetAccount, in a transaction of its own.
ValidateFunding(r) ==
  /\ req[r].op \in FundingOps
  /\ pc[r] = "start"
  /\ \/ /\ status[req[r].account] \in {"FROZEN", "CLOSED"}
        /\ Answer(r, "REJECTED")
     \/ /\ status[req[r].account] \notin {"FROZEN", "CLOSED"}
        /\ Goto(r, "begin")
        /\ UNCHANGED result
  /\ UNCHANGED <<rows, rowLock, req, attempt, seen>>

\* The money transaction starts with the idempotency check, before any lock.
CheckFundingKey(r) ==
  /\ req[r].op \in FundingOps
  /\ pc[r] = "begin"
  /\ \/ \E s \in Requests : HasTransaction(s, req[r].key) /\ Answer(r, s)
     \/ /\ ~TransactionKeyTaken(r)
        /\ Goto(r, "lock")
        /\ UNCHANGED result
  /\ UNCHANGED <<rows, rowLock, req, attempt, seen>>

\* The insert of the Transaction row meets a committed row with the same key: P2002.
FundingKeyConflict(r) ==
  /\ TransactionKeyTaken(r)
  /\ Rollback(r, "catch", "none")

FundAccount(r) ==
  /\ FundingStep(r, "fund", "post")
  /\ \/ FundingKeyConflict(r)
     \/ /\ ~TransactionKeyTaken(r)
        /\ MoveMoney(r, Cash, req[r].account, req[r].amount)
        /\ Commit(r)
        /\ UNCHANGED <<status, transfer>>

DebitAccount(r) ==
  /\ FundingStep(r, "debit", "post")
  /\ \/ /\ InsufficientFunds(r, req[r].account, req[r].amount)
        /\ Rollback(r, "reject", "INSUFFICIENT_FUNDS")
     \/ /\ ~InsufficientFunds(r, req[r].account, req[r].amount)
        /\ FundingKeyConflict(r)
     \/ /\ ~InsufficientFunds(r, req[r].account, req[r].amount)
        /\ ~TransactionKeyTaken(r)
        /\ MoveMoney(r, req[r].account, Cash, req[r].amount)
        /\ Commit(r)
        /\ UNCHANGED <<status, transfer>>

\* recordFailedAttempt: a FAILED Transaction row without the key, after the rollback.
RecordFailedAttempt(r) ==
  /\ FundingStep(r, "debit", "reject")
  /\ MayShare(r, req[r].account)
  /\ txn' = [txn EXCEPT ![r] = "FAILED"]
  /\ Goto(r, "done")
  /\ UNCHANGED <<status, balance, ledger, transfer, rowLock, req, attempt, seen, result>>

\* The catch of a unique violation: the transaction that holds the key is the answer.
ReturnExistingTransaction(r) ==
  /\ req[r].op \in FundingOps
  /\ pc[r] = "catch"
  /\ \E s \in Requests : HasTransaction(s, req[r].key) /\ Answer(r, s)
  /\ UNCHANGED <<rows, rowLock, req, attempt, seen>>

-----------------------------------------------------------------------------
\* repairAccountBalance validates nothing: its only transaction starts with the lock.
StartRepair(r) ==
  /\ FundingStep(r, "repair", "start")
  /\ Goto(r, "lock")
  /\ UNCHANGED <<rows, rowLock, req, attempt, seen, result>>

\* getCustomerAccountLedgerBalance replaces the balance the repair works with.
SumLedger(r) ==
  /\ FundingStep(r, "repair", "post")
  /\ seen' = [seen EXCEPT ![r][req[r].account] = ledger[req[r].account]]
  /\ Goto(r, "write")
  /\ UNCHANGED <<rows, rowLock, req, attempt, result>>

\* The CHECK (balanceCents >= 0) constraint refuses a negative balance.
RepairAccountBalance(r) ==
  /\ FundingStep(r, "repair", "write")
  /\ \/ /\ seen[r][req[r].account] < 0
        /\ Rollback(r, "done", "ERROR")
     \/ /\ seen[r][req[r].account] >= 0
        /\ balance' = [balance EXCEPT ![req[r].account] = seen[r][req[r].account]]
        /\ Commit(r)
        /\ UNCHANGED <<status, ledger, txn, transfer>>

FundingNext(r) ==
  \/ ValidateFunding(r)
  \/ CheckFundingKey(r)
  \/ FundAccount(r)
  \/ DebitAccount(r)
  \/ RecordFailedAttempt(r)
  \/ ReturnExistingTransaction(r)
  \/ StartRepair(r)
  \/ SumLedger(r)
  \/ RepairAccountBalance(r)
=============================================================================
