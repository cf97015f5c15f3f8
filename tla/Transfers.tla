----------------------------- MODULE Transfers -----------------------------
(***************************************************************************)
(* transfer.service.ts: createTransfer, blockTransfer and reverseTransfer. *)
(* A Transfer row is named by the call that inserts it, so its sender,     *)
(* recipient, amount and key are those the call asked for.                 *)
(***************************************************************************)
EXTENDS Database

TransferStep(r, step) == IsTransfer(r) /\ pc[r] = step

\* state.ts VALID_TRANSITIONS, for the states a committed row can be in.
ValidTransitions ==
  [s \in TransferStatus |->
     CASE s = "COMPLETED" -> {"BLOCKED", "REVERSED"}
       [] s = "BLOCKED"   -> {"REVERSED"}
       [] OTHER           -> {}]

CanTransition(from, to) == to \in ValidTransitions[from]

\* The ledger account call r's transfer credits; an international one clears externally.
Counterparty(r) == IF req[r].to = Outside THEN Settlement ELSE req[r].to

\* checkDailyLimit counts the transfers that are COMPLETED now, whoever they went to.
SentToday(u) ==
  MapThenSumSet(LAMBDA s : req[s].amount,
                {s \in Requests : transfer[s] = "COMPLETED" /\ Owner[req[s].account] = u})

OverDailyLimit(r) == SentToday(Owner[req[r].account]) + req[r].amount > DailyLimit

SenderBlocked(r) == status[req[r].account] # "ACTIVE"

\* Recipient frozen or closed, a self transfer, or an amount out of range.
TransferRefused(r) ==
  \/ req[r].to = req[r].account
  \/ req[r].to \in Accounts /\ status[req[r].to] \in {"FROZEN", "CLOSED"}
  \/ req[r].amount > MaxAmount

\* The validation transaction of createTransfer, checks in the order of the code.
ValidateTransfer(r) ==
  /\ TransferStep(r, "start")
  /\ \/ /\ SenderBlocked(r)
        /\ Goto(r, "reject")
        /\ result' = [result EXCEPT ![r] = "REJECTED"]
     \/ /\ ~SenderBlocked(r)
        /\ TransferRefused(r)
        /\ Answer(r, "REJECTED")
     \/ /\ ~SenderBlocked(r)
        /\ ~TransferRefused(r)
        /\ OverDailyLimit(r)
        /\ Answer(r, "LIMIT")
     \/ /\ ~SenderBlocked(r)
        /\ ~TransferRefused(r)
        /\ ~OverDailyLimit(r)
        /\ Goto(r, "begin")
        /\ UNCHANGED result
  /\ UNCHANGED <<rows, rowLock, req, attempt, seen>>

\* recordFailedOutgoingTransfer commits a FAILED transfer and transaction, without the key.
RecordFailedOutgoingTransfer(r) ==
  /\ TransferStep(r, "reject")
  /\ MayShare(r, req[r].account)
  /\ txn' = [txn EXCEPT ![r] = "FAILED"]
  /\ transfer' = [transfer EXCEPT ![r] = "FAILED"]
  /\ Goto(r, "done")
  /\ UNCHANGED <<status, balance, ledger, rowLock, req, attempt, seen, result>>

\* The idempotency checks: a transfer with the key, or one a transaction with it belongs to.
CheckTransferKey(r) ==
  /\ TransferStep(r, "begin")
  /\ \/ \E s \in Requests : HasTransfer(s, req[r].key) /\ Answer(r, s)
     \/ /\ \A s \in Requests : ~HasTransfer(s, req[r].key)
        /\ Goto(r, "insert")
        /\ UNCHANGED result
  /\ UNCHANGED <<rows, rowLock, req, attempt, seen>>

\* The Transfer row is inserted: it waits for the key's other claimant, meets a committed
\* duplicate (P2002), or claims the key and share-locks the sender's row.
InsertTransfer(r) ==
  /\ TransferStep(r, "insert")
  /\ \A s \in Requests : ~Claims(s, req[r].key)
  /\ \/ /\ \E s \in Requests : HasTransfer(s, req[r].key)
        /\ Goto(r, "catch")
     \/ /\ \A s \in Requests : ~HasTransfer(s, req[r].key)
        /\ MayShare(r, req[r].account)
        /\ Goto(r, IF req[r].to = Outside THEN "lock" ELSE "share")
  /\ UNCHANGED <<rows, rowLock, req, attempt, seen, result>>

\* The foreign key of the recipient's row is checked after the sender's.
ShareRecipient(r) ==
  /\ TransferStep(r, "share")
  /\ MayShare(r, req[r].to)
  /\ Goto(r, "lock")
  /\ UNCHANGED <<rows, rowLock, req, attempt, seen, result>>

\* Both rows are locked.  An uncovered transfer is marked FAILED and the error thrown
\* next rolls the mark back with everything else.
CreateTransfer(r) ==
  /\ TransferStep(r, "post")
  /\ \/ /\ InsufficientFunds(r, req[r].account, req[r].amount)
        /\ Rollback(r, "done", "INSUFFICIENT_FUNDS")
     \/ /\ ~InsufficientFunds(r, req[r].account, req[r].amount)
        /\ TransactionKeyTaken(r)
        /\ Rollback(r, "catch", "none")
     \/ /\ ~InsufficientFunds(r, req[r].account, req[r].amount)
        /\ ~TransactionKeyTaken(r)
        /\ MoveMoney(r, req[r].account, Counterparty(r), req[r].amount)
        /\ transfer' = [transfer EXCEPT ![r] = "COMPLETED"]
        /\ Commit(r)
        /\ UNCHANGED status

\* Mutant: the error is swallowed when no transfer has the key.
ReturnExistingTransfer_Swallowed(r) ==
  /\ TransferStep(r, "catch")
  /\ \/ \E s \in Requests : HasTransfer(s, req[r].key) /\ Answer(r, s)
     \/ /\ \A s \in Requests : ~HasTransfer(s, req[r].key)
        /\ Answer(r, r)
  /\ UNCHANGED <<rows, rowLock, req, attempt, seen>>

\* The catch of a unique violation: the transfer with the key, or the error again.
ReturnExistingTransfer(r) ==
  /\ TransferStep(r, "catch")
  /\ \/ \E s \in Requests : HasTransfer(s, req[r].key) /\ Answer(r, s)
     \/ /\ \A s \in Requests : ~HasTransfer(s, req[r].key)
        /\ Answer(r, "ERROR")
  /\ UNCHANGED <<rows, rowLock, req, attempt, seen>>

\* Mutant: one restart too many.
MayRestart_OneMore(r) == IsTransfer(r) /\ attempt[r] + 1 <= MaxAttempts

MayRestart(r) == IsTransfer(r) /\ attempt[r] + 1 < MaxAttempts

\* PostgreSQL aborts one call of a wait cycle.  createTransfer starts its money
\* transaction again if isDeadlock recognises the error, which depends on the error
\* code the driver reports; every other call fails.
DeadlockAbort(r) ==
  /\ OnWaitCycle(Requests, r)
  /\ EndTransaction(r)
  /\ \/ /\ MayRestart(r)
        /\ attempt' = [attempt EXCEPT ![r] = @ + 1]
        /\ Goto(r, "begin")
        /\ UNCHANGED result
     \/ /\ Answer(r, "ERROR")
        /\ UNCHANGED attempt
  /\ UNCHANGED <<rows, req>>

-----------------------------------------------------------------------------
\* blockTransfer reads the status in one transaction ...
ValidateBlock(r) ==
  /\ req[r].op = "block"
  /\ pc[r] = "start"
  /\ \/ /\ transfer[req[r].of] # "COMPLETED"
        /\ Answer(r, "REJECTED")
     \/ /\ transfer[req[r].of] = "COMPLETED"
        /\ Goto(r, "update")
        /\ UNCHANGED result
  /\ UNCHANGED <<rows, rowLock, req, attempt, seen>>

\* ... and writes it in another, without looking again.
BlockTransfer(r) ==
  /\ req[r].op = "block"
  /\ pc[r] = "update"
  /\ transfer' = [transfer EXCEPT ![req[r].of] = "BLOCKED"]
  /\ Answer(r, r)
  /\ UNCHANGED <<status, balance, ledger, txn, rowLock, req, attempt, seen>>

\* reverseTransfer reads the status in one transaction ...
ValidateReverse(r) ==
  /\ req[r].op = "reverse"
  /\ pc[r] = "start"
  /\ \/ /\ ~CanTransition(transfer[req[r].of], "REVERSED")
        /\ Answer(r, "REJECTED")
     \/ /\ CanTransition(transfer[req[r].of], "REVERSED")
        /\ Goto(r, "lock")
        /\ UNCHANGED result
  /\ UNCHANGED <<rows, rowLock, req, attempt, seen>>

\* Mutant: the status is not written.
MarkReversed_Forgotten(t) == UNCHANGED transfer

MarkReversed(t) == transfer' = [transfer EXCEPT ![t] = "REVERSED"]

\* ... and moves the money back in another, checking only the recipient's balance.
ReverseTransfer(r) ==
  LET t == req[r].of IN
  /\ req[r].op = "reverse"
  /\ pc[r] = "post"
  /\ \/ /\ req[t].to # Outside
        /\ InsufficientFunds(r, req[t].to, req[t].amount)
        /\ Rollback(r, "done", "INSUFFICIENT_FUNDS")
     \/ /\ req[t].to # Outside => ~InsufficientFunds(r, req[t].to, req[t].amount)
        /\ MoveMoney(r, Counterparty(t), req[t].account, req[t].amount)
        /\ MarkReversed(t)
        /\ Commit(r)
        /\ UNCHANGED status

TransfersNext(r) ==
  \/ ValidateTransfer(r)
  \/ RecordFailedOutgoingTransfer(r)
  \/ CheckTransferKey(r)
  \/ InsertTransfer(r)
  \/ ShareRecipient(r)
  \/ CreateTransfer(r)
  \/ ReturnExistingTransfer(r)
  \/ DeadlockAbort(r)
  \/ ValidateBlock(r)
  \/ BlockTransfer(r)
  \/ ValidateReverse(r)
  \/ ReverseTransfer(r)
=============================================================================
