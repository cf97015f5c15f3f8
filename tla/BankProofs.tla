----------------------------- MODULE BankProofs -----------------------------
(***************************************************************************)
(* Theorems about Bank, for any accounts, calls, keys and amounts.         *)
(***************************************************************************)
EXTENDS BankInvariant, TotalsProofs, TLAPS

-----------------------------------------------------------------------------
(* The rows a call is about.                                               *)

\* What InputsAssumption says of the calls of a state.
LEMMA InputFacts ==
  ASSUME InputsAreKept, NEW r \in Requests
  PROVE  /\ req[r] \in Input
         /\ req[r].op = "transfer" => req[r].key # NoKey
         /\ req[r].op # "transfer" => req[r].to = Outside
         /\ req[r].op \notin FundingOps \cup {"transfer"} => req[r].key = NoKey
         /\ req[r].op \in {"block", "reverse"} => req[r].of \in Requests
  BY InputsAssumption DEF InputsAreKept

\* A call locks one or two accounts, of which the named one is always one.
LEMMA TouchedFacts ==
  ASSUME InputsAreKept, NEW r \in Requests
  PROVE  /\ Subject(r) \in Requests
         /\ req[Subject(r)].account \in Touched(r)
         /\ Touched(r) \subseteq Accounts
  <1>1. Subject(r) \in Requests
    BY InputFacts DEF Subject
  <1>2. req[Subject(r)].account \in Accounts
    BY <1>1, InputFacts DEF Input
  <1> QED
    BY <1>1, <1>2 DEF Touched

\* lockOrder picks a row the call still has to lock.
LEMMA NextToLockIsToLock ==
  ASSUME InputsAreKept, NEW r \in Requests, ToLock(r) # {}
  PROVE  NextToLock(r) \in ToLock(r)
  <1> DEFINE x == req[Subject(r)].account
             y == req[Subject(r)].to
  <1>1. ToLock(r) \subseteq {x, y} /\ ToLock(r) \subseteq Nat
    BY AccountsAssumption DEF ToLock, Touched
  <1>2. \E a \in ToLock(r) : \A b \in ToLock(r) : a <= b
    <2> HIDE DEF x, y
    <2> QED BY <1>1
  <1> QED
    BY <1>2 DEF NextToLock

-----------------------------------------------------------------------------
(* Type correctness.                                                       *)

\* Every opening state is well typed.
LEMMA InitTypes ==
  ASSUME NEW D, D \subseteq Int, OpenAccounts(D)
  PROVE  TypeOK /\ InputsAreKept
  <1> USE DEF OpenAccounts
  <1>1. req \in [Requests -> Input] /\ InputsAreKept
    BY InputsAssumption DEF InputsAreKept
  <1>2. attempt \in [Requests -> 0 .. MaxAttempts - 1]
    BY BoundsAssumption
  <1>3. balance \in [Accounts -> Int] /\ status \in [Accounts -> AccountStatus]
    BY OpeningAssumption, StartStatusAssumption
  <1>4. ledger \in [LedgerAccounts -> Int]
    <2> DEFINE total == Total(Opening, Accounts)
    <2>1. PICK d \in [Accounts -> D] :
            ledger = [x \in LedgerAccounts |->
                        IF x \in Accounts THEN Opening[x] + d[x]
                        ELSE IF x = Cash THEN - total ELSE 0]
      OBVIOUS
    <2> HIDE DEF OpenAccounts
    <2>2. total \in Int
      BY OpeningAssumption, FiniteAssumption, TotalType
    <2> HIDE DEF total
    <2>3. \A x \in Accounts : Opening[x] \in Int
      BY OpeningAssumption
    <2>4. \A x \in Accounts : d[x] \in Int
      OBVIOUS
    <2> QED BY <2>1, <2>2, <2>3, <2>4
  <1>5. /\ txn \in [Requests -> TransactionStatus]
        /\ transfer \in [Requests -> TransferStatus]
        /\ rowLock \in [Accounts -> Requests \cup {None}]
        /\ pc \in [Requests -> Steps]
        /\ seen \in [Requests -> [Accounts -> Int]]
        /\ result \in [Requests -> Requests \cup Failures \cup {"none"}]
    BY DEF TransactionStatus, TransferStatus, Steps
  <1> QED
    BY <1>1, <1>2, <1>3, <1>4, <1>5 DEF TypeOK

\* The end of a money transaction leaves locks and reads well typed.
LEMMA EndTransactionTypes ==
  ASSUME TypeOK, NEW r \in Requests, EndTransaction(r)
  PROVE  /\ rowLock' \in [Accounts -> Requests \cup {None}]
         /\ seen' \in [Requests -> [Accounts -> Int]]
  BY DEF TypeOK, EndTransaction, Released, Forgotten

\* A rollback leaves everything well typed.
LEMMA RollbackTypes ==
  ASSUME TypeOK, NEW r \in Requests, NEW step \in Steps,
         NEW res \in Requests \cup Failures \cup {"none"}, Rollback(r, step, res)
  PROVE  TypeOK'
  BY EndTransactionTypes DEF TypeOK, Rollback, Goto, rows

\* A money transaction that moves n and commits.
LEMMA MoveMoneyTypes ==
  ASSUME TypeOK, NEW r \in Requests, NEW debit \in LedgerAccounts,
         NEW credit \in LedgerAccounts, NEW n \in Int,
         MoveMoney(r, debit, credit, n), Commit(r),
         UNCHANGED status, transfer' \in [Requests -> TransferStatus]
  PROVE  TypeOK'
  <1>1. ledger' \in [LedgerAccounts -> Int]
    BY DEF TypeOK, MoveMoney, PostLedgerTransaction
  <1>2. balance' \in [Accounts -> Int]
    BY DEF TypeOK, MoveMoney, UpdateBalances
  <1>3. txn' \in [Requests -> TransactionStatus]
    BY DEF TypeOK, MoveMoney, TransactionStatus
  <1>4. /\ pc' \in [Requests -> Steps]
        /\ result' \in [Requests -> Requests \cup Failures \cup {"none"}]
        /\ UNCHANGED <<req, attempt>>
    BY DEF TypeOK, Commit, Answer, Goto, Steps
  <1> QED
    BY <1>1, <1>2, <1>3, <1>4, EndTransactionTypes DEF TypeOK, Commit

\* So do the steps of fundAccount, debitAccount and repairAccountBalance, ...
LEMMA FundingTypes ==
  ASSUME TypeOK, InputsAreKept, NEW r \in Requests, FundingNext(r)
  PROVE  TypeOK'
  <1> DEFINE n == req[r].amount
             a == req[r].account
  <1>0. a \in Accounts /\ n \in Int /\ a \in LedgerAccounts /\ Cash \in LedgerAccounts
    BY InputFacts DEF Input, LedgerAccounts
  <1> USE DEF Answer, Goto, Steps, Failures, rows
  <1>1. CASE ValidateFunding(r)
    BY <1>1 DEF TypeOK, ValidateFunding
  <1>2. CASE CheckFundingKey(r)
    BY <1>2 DEF TypeOK, CheckFundingKey
  <1>3. CASE FundAccount(r)
    <2>1. CASE FundingKeyConflict(r)
      BY <2>1, RollbackTypes DEF FundingKeyConflict
    <2>2. CASE MoveMoney(r, Cash, a, n) /\ Commit(r) /\ UNCHANGED <<status, transfer>>
      BY <1>0, <2>2, MoveMoneyTypes DEF TypeOK
    <2> QED
      BY <1>3, <2>1, <2>2 DEF FundAccount
  <1>4. CASE DebitAccount(r)
    <2>1. CASE FundingKeyConflict(r) \/ Rollback(r, "reject", "INSUFFICIENT_FUNDS")
      BY <2>1, RollbackTypes DEF FundingKeyConflict
    <2>2. CASE MoveMoney(r, a, Cash, n) /\ Commit(r) /\ UNCHANGED <<status, transfer>>
      BY <1>0, <2>2, MoveMoneyTypes DEF TypeOK
    <2> QED
      BY <1>4, <2>1, <2>2 DEF DebitAccount
  <1>5. CASE RecordFailedAttempt(r)
    BY <1>5 DEF TypeOK, RecordFailedAttempt, TransactionStatus
  <1>6. CASE ReturnExistingTransaction(r)
    BY <1>6 DEF TypeOK, ReturnExistingTransaction
  <1>7. CASE StartRepair(r)
    BY <1>7 DEF TypeOK, StartRepair
  <1>8. CASE SumLedger(r)
    BY <1>0, <1>8 DEF TypeOK, SumLedger
  <1>9. CASE RepairAccountBalance(r)
    <2>1. CASE Rollback(r, "done", "ERROR")
      BY <2>1, RollbackTypes
    <2>2. CASE /\ balance' = [balance EXCEPT ![a] = seen[r][a]]
               /\ Commit(r)
               /\ UNCHANGED <<status, ledger, txn, transfer>>
      BY <1>0, <2>2, EndTransactionTypes DEF TypeOK, Commit
    <2> QED
      BY <1>9, <2>1, <2>2 DEF RepairAccountBalance
  <1> QED
    BY <1>1, <1>2, <1>3, <1>4, <1>5, <1>6, <1>7, <1>8, <1>9 DEF FundingNext

\* ... of createTransfer, blockTransfer and reverseTransfer, ...
LEMMA TransfersTypes ==
  ASSUME TypeOK, InputsAreKept, NEW r \in Requests, TransfersNext(r)
  PROVE  TypeOK'
  <1> USE DEF Answer, Goto, Steps, Failures, rows
  <1>1. CASE ValidateTransfer(r)
    BY <1>1 DEF TypeOK, ValidateTransfer
  <1>2. CASE RecordFailedOutgoingTransfer(r)
    BY <1>2 DEF TypeOK, RecordFailedOutgoingTransfer, TransactionStatus, TransferStatus
  <1>3. CASE CheckTransferKey(r)
    BY <1>3 DEF TypeOK, CheckTransferKey
  <1>4. CASE InsertTransfer(r)
    BY <1>4 DEF TypeOK, InsertTransfer
  <1>5. CASE ShareRecipient(r)
    BY <1>5 DEF TypeOK, ShareRecipient
  <1>6. CASE CreateTransfer(r)
    <2> DEFINE n == req[r].amount
               a == req[r].account
    <2>0. n \in Int /\ {a, Counterparty(r)} \subseteq LedgerAccounts
      BY InputFacts DEF Input, LedgerAccounts, Counterparty
    <2>1. CASE Rollback(r, "done", "INSUFFICIENT_FUNDS") \/ Rollback(r, "catch", "none")
      BY <2>1, RollbackTypes
    <2>2. CASE /\ MoveMoney(r, a, Counterparty(r), n)
               /\ transfer' = [transfer EXCEPT ![r] = "COMPLETED"]
               /\ Commit(r)
               /\ UNCHANGED status
      <3>1. transfer' \in [Requests -> TransferStatus]
        BY <2>2 DEF TypeOK, TransferStatus
      <3> QED
        BY <2>0, <2>2, <3>1, MoveMoneyTypes
    <2> QED
      BY <1>6, <2>1, <2>2 DEF CreateTransfer
  <1>7. CASE ReturnExistingTransfer(r)
    BY <1>7 DEF TypeOK, ReturnExistingTransfer
  <1>8. CASE DeadlockAbort(r)
    <2>1. attempt' \in [Requests -> 0 .. MaxAttempts - 1]
      <3>1. CASE UNCHANGED attempt
        BY <3>1 DEF TypeOK
      <3>2. CASE MayRestart(r) /\ attempt' = [attempt EXCEPT ![r] = @ + 1]
        <4>1. attempt[r] \in Int /\ 0 <= attempt[r] /\ MaxAttempts \in Int
          BY BoundsAssumption DEF TypeOK
        <4>2. attempt[r] + 1 \in 0 .. MaxAttempts - 1
          BY <3>2, <4>1 DEF MayRestart
        <4> QED
          BY <3>2, <4>2 DEF TypeOK
      <3> QED
        BY <1>8, <3>1, <3>2 DEF DeadlockAbort
    <2> QED
      BY <1>8, <2>1, EndTransactionTypes DEF TypeOK, DeadlockAbort
  <1>9. CASE ValidateBlock(r)
    BY <1>9 DEF TypeOK, ValidateBlock
  <1>10. CASE BlockTransfer(r)
    BY <1>10 DEF TypeOK, BlockTransfer, TransferStatus
  <1>11. CASE ValidateReverse(r)
    BY <1>11 DEF TypeOK, ValidateReverse
  <1>12. CASE ReverseTransfer(r)
    <2> DEFINE t == req[r].of
               n == req[t].amount
               a == req[t].account
    <2>0. t \in Requests /\ n \in Int /\ {a, Counterparty(t)} \subseteq LedgerAccounts
      <3>1. t \in Requests
        BY <1>12, InputFacts DEF ReverseTransfer
      <3> QED
        BY <3>1, InputFacts DEF Input, LedgerAccounts, Counterparty
    <2>1. CASE Rollback(r, "done", "INSUFFICIENT_FUNDS")
      BY <2>1, RollbackTypes
    <2>2. CASE /\ MoveMoney(r, Counterparty(t), a, n)
               /\ MarkReversed(t)
               /\ Commit(r)
               /\ UNCHANGED status
      <3>1. transfer' \in [Requests -> TransferStatus]
        BY <2>2 DEF TypeOK, TransferStatus, MarkReversed
      <3> QED
        BY <2>0, <2>2, <3>1, MoveMoneyTypes
    <2> QED
      BY <1>12, <2>1, <2>2 DEF ReverseTransfer
  <1> QED
    BY <1>1, <1>2, <1>3, <1>4, <1>5, <1>6, <1>7, <1>8, <1>9, <1>10, <1>11, <1>12
       DEF TransfersNext

\* ... of the status changes, ...
LEMMA LifecycleTypes ==
  ASSUME TypeOK, InputsAreKept, NEW r \in Requests, LifecycleNext(r)
  PROVE  TypeOK'
  <1> USE DEF Answer, Goto, Steps, Failures, rows
  <1>1. CASE CheckStatus(r)
    BY <1>1 DEF TypeOK, CheckStatus
  <1>2. CASE UpdateStatus(r)
    <2>1. Target(req[r].op) \in AccountStatus
      BY <1>2 DEF UpdateStatus, LifecycleOps, Target, AccountStatus
    <2> QED
      BY <1>2, <2>1 DEF TypeOK, UpdateStatus
  <1> QED
    BY <1>1, <1>2 DEF LifecycleNext

\* ... the row locks ...
LEMMA LockTypes ==
  ASSUME TypeOK, NEW r \in Requests, LockAccountRow(r)
  PROVE  TypeOK'
  BY DEF TypeOK, LockAccountRow, Goto, Steps, rows

\* ... and the aborts.
LEMMA AbortTypes ==
  ASSUME TypeOK, NEW r \in Requests, Abort(r)
  PROVE  TypeOK'
  <1> DEFINE res == IF result[r] = "none" THEN "ERROR" ELSE result[r]
  <1>1. res \in Requests \cup Failures \cup {"none"} /\ "done" \in Steps
    BY DEF TypeOK, Failures, Steps
  <1>2. Rollback(r, "done", res)
    BY DEF Abort
  <1> HIDE DEF res
  <1> QED
    BY <1>1, <1>2, RollbackTypes

\* Hence every step does.
LEMMA TypeStep ==
  ASSUME TypeOK, InputsAreKept, [Next]_vars
  PROVE  TypeOK'
  <1>1. ASSUME NEW r \in Requests, Step(r)
        PROVE  TypeOK'
    BY <1>1, FundingTypes, TransfersTypes, LifecycleTypes, LockTypes DEF Step
  <1>2. ASSUME NEW r \in Requests, Abort(r)
        PROVE  TypeOK'
    BY <1>2, AbortTypes
  <1>3. CASE UNCHANGED vars
    BY <1>3 DEF vars, TypeOK
  <1> QED
    BY <1>1, <1>2, <1>3 DEF Next, Finished

\* What a call asks for never changes.
LEMMA InputsStay ==
  ASSUME [Next]_vars
  PROVE  req' = req
  <1>1. ASSUME NEW r \in Requests, FundingNext(r)
        PROVE  req' = req
    BY <1>1
       DEF FundingNext, ValidateFunding, CheckFundingKey, FundAccount, DebitAccount,
           FundingKeyConflict, RecordFailedAttempt, ReturnExistingTransaction, StartRepair,
           SumLedger, RepairAccountBalance, Commit, Rollback
  <1>2. ASSUME NEW r \in Requests, TransfersNext(r)
        PROVE  req' = req
    BY <1>2
       DEF TransfersNext, ValidateTransfer, RecordFailedOutgoingTransfer, CheckTransferKey,
           InsertTransfer, ShareRecipient, CreateTransfer, ReturnExistingTransfer,
           DeadlockAbort, ValidateBlock, BlockTransfer, ValidateReverse, ReverseTransfer,
           Commit, Rollback
  <1>3. ASSUME NEW r \in Requests,
               LifecycleNext(r) \/ LockAccountRow(r) \/ Abort(r) \/ UNCHANGED vars
        PROVE  req' = req
    BY <1>3 DEF LifecycleNext, CheckStatus, UpdateStatus, LockAccountRow, Abort, Rollback, vars
  <1>4. CASE UNCHANGED vars
    BY <1>4 DEF vars
  <1> QED
    BY <1>1, <1>2, <1>3, <1>4 DEF Next, Step, Finished

\* Every row, lock and call stays within its type: with the accounts, keys and calls of
\* any instance, drifted or not, no step writes a status the schema does not have or
\* restarts a transfer more often than MaxAttempts allows.
THEOREM TypeCorrect == Spec => []TypeOK
  <1>1. Init => TypeOK /\ InputsAreKept
    BY InitTypes DEF Init
  <1>2. TypeOK /\ InputsAreKept /\ [Next]_vars => (TypeOK /\ InputsAreKept)'
    BY TypeStep, InputsStay DEF InputsAreKept
  <1> QED
    BY <1>1, <1>2, PTL DEF Spec

-----------------------------------------------------------------------------
(* The shapes a step can have, as far as rows and locks are concerned.     *)

InMoneyTransaction(r) == pc[r] \in {"lock", "post", "write"}

\* Call r goes on outside the locked part of a money transaction.
Quiet(r) ==
  /\ ~InMoneyTransaction(r)
  /\ \E step \in Steps \ {"post", "write"} : Goto(r, step)
  /\ Posted' = Posted
  /\ UNCHANGED <<balance, ledger, rowLock, seen, req>>

\* Its money transaction ends without having moved money.
Ends(r) ==
  /\ EndTransaction(r)
  /\ \E step \in {"begin", "reject", "catch", "done"} : Goto(r, step)
  /\ Posted' = Posted
  /\ UNCHANGED <<balance, ledger, req>>

\* Its money transaction moves its amount, which is covered, between its two sides, of
\* which it has locked those that are accounts, and its key is not in use.
Moves(r) ==
  LET debit == DebitSide(r)
      credit == CreditSide(r)
      n == AmountOf(r)
  IN
  /\ pc[r] = "post"
  /\ {debit, credit} \subseteq LedgerAccounts
  /\ debit # credit
  /\ {debit, credit} \cap Accounts \subseteq Touched(r)
  /\ n \in Nat
  /\ debit \in Accounts => seen[r][debit] >= n
  /\ req[r].key # NoKey => ~TransactionKeyTaken(r)
  /\ MoveMoney(r, debit, credit, n)
  /\ Commit(r)

\* It writes a balance read from the ledger.
Repairs(r) ==
  /\ pc[r] = "write"
  /\ req[r].op = "repair"
  /\ seen[r][req[r].account] >= 0
  /\ balance' = [balance EXCEPT ![req[r].account] = seen[r][req[r].account]]
  /\ Commit(r)
  /\ Posted' = Posted
  /\ UNCHANGED ledger

Shape(r) ==
  /\ pc[r] # "done"
  /\ Quiet(r) \/ Ends(r) \/ Moves(r) \/ Repairs(r) \/ LockAccountRow(r) \/ SumLedger(r)

\* A rollback ends a transaction without effect.
LEMMA RollbackEnds ==
  ASSUME NEW r \in Requests, NEW step \in {"begin", "reject", "catch", "done"}, NEW res,
         Rollback(r, step, res)
  PROVE  Ends(r)
  BY DEF Rollback, Ends, rows, Posted

\* A call that records its own failure had not completed anything.
LEMMA FailureKeepsRecords ==
  ASSUME LockInvariant, NEW r \in Requests, pc[r] # "done",
         txn' = [txn EXCEPT ![r] = "FAILED"]
  PROVE  Posted' = Posted
  BY DEF LockInvariant, TypeOK, RecordsComeLast, Posted

\* The steps of funding.service.ts and of the repair have one of the shapes.
LEMMA FundingShape ==
  ASSUME LockInvariant, NEW r \in Requests, FundingNext(r)
  PROVE  Shape(r)
  <1> DEFINE n == req[r].amount
             a == req[r].account
  <1>0. a \in Accounts /\ n \in Nat /\ a \in LedgerAccounts /\ Cash \in LedgerAccounts
    BY InputFacts DEF LockInvariant, Input, LedgerAccounts
  <1>1. CASE \/ ValidateFunding(r) \/ CheckFundingKey(r) \/ ReturnExistingTransaction(r)
             \/ StartRepair(r)
    BY <1>1 DEF Shape, Quiet, InMoneyTransaction, Steps, Goto, Answer, FundingStep, rows,
                ValidateFunding, CheckFundingKey, ReturnExistingTransaction, StartRepair, Posted
  <1>2. CASE FundAccount(r)
    <2>1. CASE FundingKeyConflict(r)
      BY <1>2, <2>1, RollbackEnds DEF FundAccount, FundingStep, FundingKeyConflict, Shape
    <2>2. CASE ~TransactionKeyTaken(r) /\ MoveMoney(r, Cash, a, n) /\ Commit(r)
      <3>1. DebitSide(r) = Cash /\ CreditSide(r) = a /\ AmountOf(r) = n /\ Subject(r) = r
        BY <1>2 DEF FundAccount, FundingStep, DebitSide, CreditSide, AmountOf, Subject
      <3> QED
        BY <1>0, <1>2, <2>2, <3>1, SystemAccountsAssumption
           DEF Shape, Moves, FundAccount, FundingStep, Touched
    <2> QED
      BY <1>2, <2>1, <2>2 DEF FundAccount
  <1>3. CASE DebitAccount(r)
    <2>1. CASE FundingKeyConflict(r) \/ Rollback(r, "reject", "INSUFFICIENT_FUNDS")
      BY <1>3, <2>1, RollbackEnds DEF DebitAccount, FundingStep, FundingKeyConflict, Shape
    <2>2. CASE /\ ~InsufficientFunds(r, a, n) /\ ~TransactionKeyTaken(r)
               /\ MoveMoney(r, a, Cash, n) /\ Commit(r)
      <3>1. seen[r][a] >= n
        BY <1>0, <2>2 DEF InsufficientFunds, LockInvariant, TypeOK
      <3>2. DebitSide(r) = a /\ CreditSide(r) = Cash /\ AmountOf(r) = n /\ Subject(r) = r
        BY <1>3 DEF DebitAccount, FundingStep, DebitSide, CreditSide, AmountOf, Subject
      <3> QED
        BY <1>0, <1>3, <2>2, <3>1, <3>2, SystemAccountsAssumption
           DEF Shape, Moves, DebitAccount, FundingStep, Touched
    <2> QED
      BY <1>3, <2>1, <2>2 DEF DebitAccount
  <1>4. CASE RepairAccountBalance(r)
    BY <1>4, RollbackEnds DEF RepairAccountBalance, FundingStep, Shape, Repairs, Posted
  <1>5. CASE SumLedger(r)
    BY <1>5 DEF Shape, SumLedger, FundingStep
  <1>6. CASE RecordFailedAttempt(r)
    BY <1>6, FailureKeepsRecords DEF Shape, Quiet, InMoneyTransaction, Steps, Goto,
                                     FundingStep, RecordFailedAttempt
  <1> QED
    BY <1>1, <1>2, <1>3, <1>4, <1>5, <1>6 DEF FundingNext

\* The steps of transfer.service.ts have one of the shapes.
LEMMA TransfersShape ==
  ASSUME LockInvariant, NEW r \in Requests, TransfersNext(r)
  PROVE  Shape(r)
  <1>1. CASE \/ ValidateTransfer(r) \/ CheckTransferKey(r) \/ InsertTransfer(r)
             \/ ShareRecipient(r) \/ ReturnExistingTransfer(r)
    BY <1>1 DEF Shape, Quiet, InMoneyTransaction, Steps, Goto, Answer, TransferStep, rows,
                ValidateTransfer, CheckTransferKey, InsertTransfer, ShareRecipient,
                ReturnExistingTransfer, Posted
  <1>2. CASE ValidateBlock(r) \/ BlockTransfer(r) \/ ValidateReverse(r)
    BY <1>2 DEF Shape, Quiet, InMoneyTransaction, Steps, Goto, Answer, rows,
                ValidateBlock, BlockTransfer, ValidateReverse, Posted
  <1>3. CASE DeadlockAbort(r)
    <2>1. pc[r] # "done"
      BY <1>3 DEF DeadlockAbort, OnWaitCycle, WaitsFor
    <2> QED
      BY <1>3, <2>1 DEF Shape, Ends, DeadlockAbort, Answer, rows, Posted
  <1>6. CASE RecordFailedOutgoingTransfer(r)
    BY <1>6, FailureKeepsRecords DEF Shape, Quiet, InMoneyTransaction, Steps, Goto,
                                     TransferStep, RecordFailedOutgoingTransfer
  <1>4. CASE CreateTransfer(r)
    <2> DEFINE n == req[r].amount
               a == req[r].account
               c == Counterparty(r)
    <2>0. /\ n \in Nat /\ a \in Accounts /\ {a, c} \subseteq LedgerAccounts
          /\ a # c /\ {a, c} \cap Accounts \subseteq Touched(r)
      <3>1. req[r].to # a
        BY <1>4 DEF LockInvariant, TransferInvariant, TransfersHaveTwoSides, CreateTransfer,
                    TransferStep
      <3>2. Subject(r) = r
        BY <1>4 DEF CreateTransfer, TransferStep, IsTransfer, Subject
      <3> QED
        BY <3>1, <3>2, InputFacts, SystemAccountsAssumption
           DEF LockInvariant, Input, LedgerAccounts, Counterparty, Touched
    <2>1. CASE Rollback(r, "done", "INSUFFICIENT_FUNDS") \/ Rollback(r, "catch", "none")
      BY <1>4, <2>1, RollbackEnds DEF CreateTransfer, TransferStep, Shape
    <2>2. CASE /\ ~InsufficientFunds(r, a, n) /\ ~TransactionKeyTaken(r)
               /\ MoveMoney(r, a, c, n) /\ Commit(r)
      <3>1. seen[r][a] >= n
        BY <2>0, <2>2 DEF InsufficientFunds, LockInvariant, TypeOK
      <3>2. DebitSide(r) = a /\ CreditSide(r) = c /\ AmountOf(r) = n
        BY <1>4 DEF CreateTransfer, TransferStep, IsTransfer, DebitSide, CreditSide,
                    AmountOf, Subject
      <3> QED
        BY <1>4, <2>0, <2>2, <3>1, <3>2 DEF Shape, Moves, CreateTransfer, TransferStep
    <2> QED
      BY <1>4, <2>1, <2>2 DEF CreateTransfer
  <1>5. CASE ReverseTransfer(r)
    <2> DEFINE t == req[r].of
               n == req[t].amount
               a == req[t].account
               c == Counterparty(t)
    <2>0. /\ n \in Nat /\ a \in Accounts /\ {a, c} \subseteq LedgerAccounts
          /\ a # c /\ {a, c} \cap Accounts \subseteq Touched(r)
      <3>1. t \in Requests /\ Subject(r) = t
        BY <1>5, InputFacts DEF LockInvariant, ReverseTransfer, Subject
      <3>2. req[t].to # a
        BY <1>5, <3>1 DEF LockInvariant, TransferInvariant, TransfersHaveTwoSides,
                          SubjectsExist, ReverseTransfer
      <3> QED
        BY <3>1, <3>2, InputFacts, SystemAccountsAssumption
           DEF LockInvariant, Input, LedgerAccounts, Counterparty, Touched
    <2>1. CASE Rollback(r, "done", "INSUFFICIENT_FUNDS")
      BY <1>5, <2>1, RollbackEnds DEF ReverseTransfer, Shape
    <2>2. CASE /\ req[t].to # Outside => ~InsufficientFunds(r, req[t].to, n)
               /\ MoveMoney(r, c, a, n)
               /\ Commit(r)
      <3>1. c \in Accounts => seen[r][c] >= n
        <4>1. c \in Accounts => c = req[t].to /\ req[t].to # Outside
          BY SystemAccountsAssumption DEF Counterparty
        <4> QED
          BY <2>0, <2>2, <4>1 DEF InsufficientFunds, LockInvariant, TypeOK
      <3>2. /\ DebitSide(r) = c /\ CreditSide(r) = a /\ AmountOf(r) = n
            /\ req[r].key = NoKey
        BY <1>5, InputFacts DEF LockInvariant, ReverseTransfer, DebitSide, CreditSide,
                                AmountOf, Subject, FundingOps
      <3> QED
        BY <1>5, <2>0, <2>2, <3>1, <3>2 DEF Shape, Moves, ReverseTransfer
    <2> QED
      BY <1>5, <2>1, <2>2 DEF ReverseTransfer
  <1> QED
    BY <1>1, <1>2, <1>3, <1>4, <1>5, <1>6 DEF TransfersNext

\* Every step of a call has one of the shapes.
LEMMA StepShape ==
  ASSUME LockInvariant, NEW r \in Requests, Step(r) \/ Abort(r)
  PROVE  Shape(r)
  <1>1. CASE LifecycleNext(r)
    BY <1>1 DEF Shape, Quiet, InMoneyTransaction, Steps, Goto, Answer, rows,
                LifecycleNext, CheckStatus, UpdateStatus, Posted
  <1>2. CASE LockAccountRow(r)
    BY <1>2 DEF Shape, LockAccountRow
  <1>3. CASE Abort(r)
    BY <1>3, RollbackEnds DEF Abort, Shape
  <1> QED
    BY <1>1, <1>2, <1>3, FundingShape, TransfersShape DEF Step

-----------------------------------------------------------------------------
(* Row locks.                                                              *)

\* At its write, a call holds the rows it touches and has read what they say.
LEMMA HeldRowsAreCurrent ==
  ASSUME LockInvariant, NEW r \in Requests, pc[r] \in {"post", "write"},
         NEW a \in Touched(r)
  PROVE  /\ a \in Accounts
         /\ rowLock[a] = r
         /\ seen[r][a] = IF pc[r] = "write" THEN ledger[a] ELSE balance[a]
  BY DEF LockInvariant, RowInvariant, LocksAreTaken, ReadsAreCurrent, ToLock, Touched

\* A movement changes the balances of rows it holds, alike in cache and ledger.
LEMMA MovesInStep ==
  ASSUME LockInvariant, NEW r \in Requests,
         Moves(r), NEW a \in Accounts
  PROVE  /\ balance'[a] - ledger'[a] = balance[a] - ledger[a]
         /\ balance[a] >= 0 => balance'[a] >= 0
         /\ rowLock[a] # r => balance'[a] = balance[a] /\ ledger'[a] = ledger[a]
  <1> DEFINE debit == DebitSide(r)
             credit == CreditSide(r)
             n == AmountOf(r)
  <1> USE DEF Moves, MoveMoney, PostLedgerTransaction, UpdateBalances
  <1>0. a \in LedgerAccounts /\ balance[a] \in Int /\ ledger[a] \in Int
    BY DEF LockInvariant, TypeOK, LedgerAccounts
  <1>1. a \in {debit, credit} => rowLock[a] = r /\ seen[r][a] = balance[a]
    BY HeldRowsAreCurrent
  <1>2. CASE a = debit
    <2>1. ledger'[a] = ledger[a] - n /\ balance'[a] = balance[a] - n
      BY <1>0, <1>1, <1>2 DEF LockInvariant, TypeOK
    <2> QED
      BY <1>0, <1>1, <1>2, <2>1
  <1>3. CASE a = credit
    <2>1. ledger'[a] = ledger[a] + n /\ balance'[a] = balance[a] + n
      BY <1>0, <1>1, <1>3 DEF LockInvariant, TypeOK
    <2> QED
      BY <1>0, <1>1, <1>3, <2>1
  <1>4. CASE a \notin {debit, credit}
    BY <1>0, <1>4 DEF LockInvariant, TypeOK
  <1> QED
    BY <1>2, <1>3, <1>4

\* A repair sets the cached balance it holds to the ledger sum.
LEMMA RepairsTheCache ==
  ASSUME LockInvariant, NEW r \in Requests, Repairs(r), NEW a \in Accounts
  PROVE  /\ a # req[r].account => balance'[a] = balance[a]
         /\ a = req[r].account => balance'[a] = ledger[a] /\ balance'[a] >= 0 /\ rowLock[a] = r
  <1>1. Subject(r) = r
    BY DEF Repairs, Subject
  <1>2. a = req[r].account => a \in Touched(r)
    BY <1>1 DEF Touched
  <1> QED
    BY <1>2, HeldRowsAreCurrent DEF Repairs, LockInvariant, TypeOK

\* Since inputs never change, neither do the rows a call is about.
LEMMA SameRows ==
  ASSUME req' = req, NEW r \in Requests
  PROVE  Subject(r)' = Subject(r) /\ Touched(r)' = Touched(r) /\ IsTransfer(r)' = IsTransfer(r)
  BY DEF Subject, Touched, IsTransfer

\* A call that does not hold locks, or gives them up, leaves the others' as they were.
LEMMA QuietKeepsRows ==
  ASSUME LockInvariant, NEW r \in Requests, Quiet(r)
  PROVE  RowInvariant'
  <1>1. PICK step \in Steps \ {"post", "write"} : Goto(r, step)
    BY DEF Quiet
  <1>2. LocksHaveOwners'
    BY <1>1, SameRows DEF LockInvariant, RowInvariant, LocksHaveOwners, Quiet,
                          InMoneyTransaction, Goto, TypeOK
  <1>3. ToLock(r) # {}
    <2>1. PICK a \in Touched(r) : a \in Accounts
      BY TouchedFacts DEF LockInvariant
    <2>2. rowLock[a] # r
      BY <2>1, NoneAssumption
         DEF LockInvariant, RowInvariant, LocksHaveOwners, Quiet, InMoneyTransaction
    <2> QED
      BY <2>1, <2>2 DEF ToLock
  <1>4. \A s \in Requests : ToLock(s)' = ToLock(s)
    BY SameRows DEF ToLock, Quiet
  <1>5. LocksAreTaken'
    BY <1>1, <1>3, <1>4 DEF LockInvariant, RowInvariant, LocksAreTaken, Quiet, Goto, TypeOK
  <1>6. ReadsAreCurrent'
    BY <1>1 DEF LockInvariant, RowInvariant, ReadsAreCurrent, Quiet, InMoneyTransaction,
                Goto, TypeOK
  <1> QED
    BY <1>2, <1>5, <1>6 DEF RowInvariant

\* A call that ends its transaction writes rows it held and releases them.
LEMMA EndKeepsRows ==
  ASSUME LockInvariant, NEW r \in Requests, EndTransaction(r), req' = req,
         NEW step \in {"begin", "reject", "catch", "done"}, Goto(r, step),
         \A a \in Accounts :
           rowLock[a] # r => balance'[a] = balance[a] /\ ledger'[a] = ledger[a]
  PROVE  RowInvariant'
  <1> USE DEF EndTransaction, Released, Goto
  <1>1. \A a \in Accounts : rowLock'[a] # r /\ (rowLock'[a] # None => rowLock'[a] = rowLock[a])
    BY NoneAssumption DEF LockInvariant, TypeOK
  <1>2. LocksHaveOwners'
    BY <1>1, SameRows DEF LockInvariant, RowInvariant, LocksHaveOwners, TypeOK
  <1>3. \A s \in Requests : s # r => ToLock(s)' = ToLock(s)
    BY SameRows, NoneAssumption DEF ToLock, Touched
  <1>4. LocksAreTaken'
    BY <1>3 DEF LockInvariant, RowInvariant, LocksAreTaken, TypeOK
  <1>5. ReadsAreCurrent'
    BY <1>1, NoneAssumption DEF LockInvariant, RowInvariant, ReadsAreCurrent, Forgotten, TypeOK
  <1> QED
    BY <1>2, <1>4, <1>5 DEF RowInvariant

\* Taking the next lock in lockOrder, if nobody holds it, and reading the balance.
LEMMA LockKeepsRows ==
  ASSUME LockInvariant, NEW r \in Requests, LockAccountRow(r)
  PROVE  RowInvariant'
  <1> DEFINE a == NextToLock(r)
             step == IF ToLock(r) = {a} THEN "post" ELSE "lock"
  <1>1. /\ pc[r] = "lock" /\ pc' = [pc EXCEPT ![r] = step]
        /\ rowLock' = [rowLock EXCEPT ![a] = r]
        /\ seen' = [seen EXCEPT ![r][a] = balance[a]]
        /\ UNCHANGED <<balance, ledger, req>>
        /\ rowLock[a] \in {None, r}
    BY DEF LockAccountRow, Goto, rows, MayLock, MayShare
  <1>2. a \in ToLock(r) /\ a \in Touched(r) /\ a \in Accounts
    <2>1. ToLock(r) # {}
      BY <1>1 DEF LockInvariant, RowInvariant, LocksAreTaken
    <2> QED
      BY <2>1, NextToLockIsToLock, TouchedFacts DEF LockInvariant, ToLock
  <1>3. rowLock[a] = None
    BY <1>1, <1>2 DEF ToLock
  <1> HIDE DEF a
  <1>4. LocksHaveOwners'
    BY <1>1, <1>2, SameRows DEF LockInvariant, RowInvariant, LocksHaveOwners, TypeOK
  <1>5. /\ ToLock(r)' = ToLock(r) \ {a}
        /\ \A s \in Requests : s # r => ToLock(s)' = ToLock(s)
    BY <1>1, <1>2, <1>3, SameRows, NoneAssumption DEF ToLock, LockInvariant, TypeOK, Touched
  <1>6. LocksAreTaken'
    BY <1>1, <1>2, <1>5 DEF LockInvariant, RowInvariant, LocksAreTaken, TypeOK
  <1>7. ReadsAreCurrent'
    <2>1. SUFFICES ASSUME NEW s \in Requests, NEW b \in Accounts, rowLock'[b] = s
                   PROVE  seen'[s][b] = IF pc'[s] = "write" THEN ledger'[b] ELSE balance'[b]
      BY DEF ReadsAreCurrent
    <2>2. CASE s = r /\ b = a
      BY <1>1, <1>2, <2>2 DEF LockInvariant, TypeOK
    <2>3. CASE s # r \/ b # a
      <3>1. rowLock[b] = s
        BY <1>1, <1>2, <2>1, <2>3 DEF LockInvariant, TypeOK
      <3>2. seen'[s][b] = seen[s][b]
        BY <1>1, <1>2, <2>3 DEF LockInvariant, TypeOK
      <3>3. pc'[s] = "write" <=> pc[s] = "write"
        BY <1>1 DEF LockInvariant, TypeOK
      <3> QED
        BY <1>1, <3>1, <3>2, <3>3 DEF LockInvariant, RowInvariant, ReadsAreCurrent
    <2> QED
      BY <2>2, <2>3
  <1> QED
    BY <1>4, <1>6, <1>7 DEF RowInvariant

\* A repair replaces the balance it read by the ledger sum of the row it holds.
LEMMA SumKeepsRows ==
  ASSUME LockInvariant, NEW r \in Requests, SumLedger(r)
  PROVE  RowInvariant'
  <1> DEFINE a == req[r].account
  <1>1. /\ pc[r] = "post" /\ req[r].op = "repair" /\ pc' = [pc EXCEPT ![r] = "write"]
        /\ seen' = [seen EXCEPT ![r][a] = ledger[a]]
        /\ UNCHANGED <<balance, ledger, req, rowLock>>
    BY DEF SumLedger, FundingStep, Goto, rows
  <1>2. Touched(r) = {a} /\ a \in Accounts
    <2>1. Subject(r) = r /\ req[r].to = Outside /\ a \in Accounts
      BY <1>1, InputFacts DEF Subject, LockInvariant, Input
    <2> QED
      BY <2>1, OutsideAssumption DEF Touched
  <1>3. LocksHaveOwners'
    BY <1>1, SameRows DEF LockInvariant, RowInvariant, LocksHaveOwners, TypeOK
  <1>4. LocksAreTaken'
    BY <1>1, SameRows DEF LockInvariant, RowInvariant, LocksAreTaken, ToLock, Touched, TypeOK
  <1>5. ReadsAreCurrent'
    <2> SUFFICES ASSUME NEW s \in Requests, NEW b \in Accounts, rowLock[b] = s
                 PROVE  seen'[s][b] = IF pc'[s] = "write" THEN ledger[b] ELSE balance[b]
      BY <1>1 DEF ReadsAreCurrent
    <2>1. CASE s = r
      <3>1. b = a
        BY <1>2, <2>1, NoneAssumption DEF LockInvariant, RowInvariant, LocksHaveOwners
      <3> QED
        BY <1>1, <1>2, <2>1, <3>1 DEF LockInvariant, TypeOK
    <2>2. CASE s # r
      BY <1>1, <2>2 DEF LockInvariant, RowInvariant, ReadsAreCurrent, TypeOK
    <2> QED
      BY <2>1, <2>2
  <1> QED
    BY <1>3, <1>4, <1>5 DEF RowInvariant

\* Every step keeps locks and reads together.
LEMMA RowStep ==
  ASSUME LockInvariant, [Next]_vars
  PROVE  RowInvariant'
  <1>1. ASSUME NEW r \in Requests, Shape(r)
        PROVE  RowInvariant'
    <2>1. CASE Ends(r)
      BY <2>1, EndKeepsRows DEF Ends
    <2>2. CASE Moves(r)
      <3>1. /\ EndTransaction(r) /\ Goto(r, "done") /\ req' = req
            /\ \A a \in Accounts :
                 rowLock[a] # r => balance'[a] = balance[a] /\ ledger'[a] = ledger[a]
        BY <2>2, MovesInStep DEF Moves, Commit, Answer
      <3> QED
        BY <3>1, EndKeepsRows
    <2>3. CASE Repairs(r)
      <3>1. /\ EndTransaction(r) /\ Goto(r, "done") /\ req' = req
            /\ \A a \in Accounts :
                 rowLock[a] # r => balance'[a] = balance[a] /\ ledger'[a] = ledger[a]
        BY <2>3, RepairsTheCache DEF Repairs, Commit, Answer
      <3> QED
        BY <3>1, EndKeepsRows
    <2> QED
      BY <1>1, <2>1, <2>2, <2>3, QuietKeepsRows, LockKeepsRows, SumKeepsRows DEF Shape
  <1>2. CASE UNCHANGED vars
    BY <1>2 DEF vars, LockInvariant, RowInvariant, LocksHaveOwners, LocksAreTaken,
                ReadsAreCurrent, ToLock, Touched, Subject
  <1> QED
    BY <1>1, <1>2, StepShape DEF Next, Finished

-----------------------------------------------------------------------------
(* Transfers.                                                              *)

\* A step that writes no transfer and advances its call as validation allows.
Passes(r, step) ==
  /\ UNCHANGED <<transfer, req>>
  /\ Goto(r, step)
  /\ IsTransfer(r) =>
       /\ pc[r] # "done"
       /\ \/ step \in {"start", "reject", "done"}
          \/ pc[r] \notin {"start", "reject", "done"}
          \/ req[r].to # req[r].account
  /\ req[r].op = "reverse" /\ step \in {"lock", "post"} =>
       pc[r] \in {"lock", "post"} \/ Exists(req[r].of)
  /\ req[r].op = "block" /\ step = "update" => Exists(req[r].of)

\* Such a step keeps the facts about transfers.
LEMMA PassKeepsTransfers ==
  ASSUME LockInvariant, NEW r \in Requests, NEW step \in Steps, Passes(r, step)
  PROVE  TransferInvariant'
  <1> USE DEF Passes, Goto
  <1>1. \A s \in Requests : IsTransfer(s)' = IsTransfer(s) /\ Exists(s)' = Exists(s)
    BY DEF IsTransfer, Exists
  <1>2. TransfersHaveTwoSides'
    BY <1>1 DEF LockInvariant, TypeOK, TransferInvariant, TransfersHaveTwoSides
  <1>3. TransfersComeLast'
    BY <1>1 DEF LockInvariant, TypeOK, TransferInvariant, TransfersComeLast
  <1>4. SubjectsExist'
    BY DEF LockInvariant, TypeOK, TransferInvariant, SubjectsExist, Exists
  <1> QED
    BY <1>2, <1>3, <1>4 DEF TransferInvariant

\* A call that ends while it writes transfer t: its own, or one that exists already.
LEMMA WriteKeepsTransfers ==
  ASSUME LockInvariant, NEW r \in Requests, NEW t \in Requests, NEW s \in TransferStatus,
         transfer' = [transfer EXCEPT ![t] = s], s # "none",
         Goto(r, "done"), req' = req,
         Exists(t) => s # "FAILED",
         \/ Exists(t)
         \/ t = r /\ IsTransfer(r) /\ (s # "FAILED" => req[r].to # req[r].account)
  PROVE  TransferInvariant'
  <1> USE DEF Goto
  <1>1. \A x \in Requests : IsTransfer(x)' = IsTransfer(x)
    BY DEF IsTransfer
  <1>2. \A x \in Requests : Exists(x) => Exists(x)'
    BY DEF Exists, LockInvariant, TypeOK
  <1>3. TransfersHaveTwoSides'
    BY <1>1 DEF LockInvariant, TypeOK, TransferInvariant, TransfersHaveTwoSides, Exists
  <1>4. TransfersComeLast'
    BY <1>1 DEF LockInvariant, TypeOK, TransferInvariant, TransfersComeLast,
                TransfersHaveTwoSides, Exists
  <1>5. SubjectsExist'
    <2> SUFFICES ASSUME NEW x \in Requests, pc'[x] # "done"
                 PROVE  /\ req[x].op = "reverse" /\ pc'[x] \in {"lock", "post"}
                             => Exists(req[x].of)'
                        /\ req[x].op = "block" /\ pc'[x] = "update" => Exists(req[x].of)'
      BY DEF SubjectsExist
    <2>1. pc'[x] = pc[x]
      BY DEF LockInvariant, TypeOK
    <2> QED
      BY <1>2, <2>1, InputFacts DEF LockInvariant, TransferInvariant, SubjectsExist
  <1> QED
    BY <1>3, <1>4, <1>5 DEF TransferInvariant

\* Every step keeps the facts about transfers.
LEMMA TransferInvariantStep ==
  ASSUME LockInvariant, [Next]_vars
  PROVE  TransferInvariant'
  <1> USE DEF TransferStep, FundingStep, Answer, rows
  <1>1. ASSUME NEW r \in Requests, FundingNext(r) \/ LifecycleNext(r)
        PROVE  TransferInvariant'
    <2>1. \E step \in Steps : Passes(r, step)
      BY <1>1
         DEF FundingNext, ValidateFunding, CheckFundingKey, FundAccount, DebitAccount,
             FundingKeyConflict, RecordFailedAttempt, ReturnExistingTransaction, StartRepair,
             SumLedger, RepairAccountBalance, LifecycleNext, CheckStatus, UpdateStatus,
             Commit, Rollback, FundingOps, LifecycleOps, Passes, IsTransfer, Steps, Goto
    <2> QED
      BY <2>1, PassKeepsTransfers
  <1>2. ASSUME NEW r \in Requests, LockAccountRow(r) \/ Abort(r)
        PROVE  TransferInvariant'
    <2>1. \E step \in Steps : Passes(r, step)
      BY <1>2 DEF LockAccountRow, Abort, Rollback, Passes, Steps, Goto
    <2> QED
      BY <2>1, PassKeepsTransfers
  <1>3. ASSUME NEW r \in Requests, TransfersNext(r)
        PROVE  TransferInvariant'
    <2>1. CASE \/ ValidateTransfer(r) \/ CheckTransferKey(r) \/ InsertTransfer(r)
               \/ ShareRecipient(r) \/ ReturnExistingTransfer(r) \/ DeadlockAbort(r)
      <3>1. \E step \in Steps : Passes(r, step)
        <4>1. CASE DeadlockAbort(r)
          <5>1. pc[r] \in {"insert", "share", "lock"}
            BY <4>1 DEF DeadlockAbort, OnWaitCycle, WaitsFor
          <5> QED
            BY <4>1, <5>1 DEF DeadlockAbort, Passes, IsTransfer, MayRestart, Steps, Goto
        <4> QED
          BY <2>1, <4>1
             DEF ValidateTransfer, CheckTransferKey, InsertTransfer, ShareRecipient,
                 ReturnExistingTransfer, TransferRefused, Passes, IsTransfer, Steps, Goto
      <3> QED
        BY <3>1, PassKeepsTransfers
    <2>2. CASE ValidateBlock(r) \/ ValidateReverse(r)
      <3>1. \E step \in Steps : Passes(r, step)
        <4>1. ValidateReverse(r) /\ CanTransition(transfer[req[r].of], "REVERSED")
                => Exists(req[r].of)
          BY InputFacts DEF ValidateReverse, CanTransition, ValidTransitions, Exists,
                            LockInvariant, TypeOK
        <4> QED
          BY <2>2, <4>1 DEF ValidateBlock, ValidateReverse, Exists, Passes, IsTransfer,
                            Steps, Goto
      <3> QED
        BY <3>1, PassKeepsTransfers
    <2>3. CASE RecordFailedOutgoingTransfer(r)
      <3>1. ~Exists(r)
        BY <2>3 DEF RecordFailedOutgoingTransfer, LockInvariant, TransferInvariant,
                    TransfersComeLast, Exists
      <3> QED
        BY <2>3, <3>1, WriteKeepsTransfers DEF RecordFailedOutgoingTransfer, TransferStatus
    <2>4. CASE CreateTransfer(r)
      <3>1. CASE Rollback(r, "done", "INSUFFICIENT_FUNDS") \/ Rollback(r, "catch", "none")
        <4>1. \E step \in Steps : Passes(r, step)
          BY <2>4, <3>1 DEF CreateTransfer, Rollback, Passes, IsTransfer, Steps, Goto
        <4> QED
          BY <4>1, PassKeepsTransfers
      <3>2. CASE transfer' = [transfer EXCEPT ![r] = "COMPLETED"] /\ Commit(r)
        <4>1. req[r].to # req[r].account
          BY <2>4 DEF CreateTransfer, LockInvariant, TransferInvariant, TransfersHaveTwoSides
        <4> QED
          BY <2>4, <3>2, <4>1, WriteKeepsTransfers DEF CreateTransfer, Commit, TransferStatus
      <3> QED
        BY <2>4, <3>1, <3>2 DEF CreateTransfer
    <2>5. CASE BlockTransfer(r)
      <3>1. req[r].of \in Requests /\ Exists(req[r].of)
        BY <2>5, InputFacts DEF BlockTransfer, LockInvariant, TransferInvariant, SubjectsExist
      <3> QED
        BY <2>5, <3>1, WriteKeepsTransfers DEF BlockTransfer, TransferStatus
    <2>6. CASE ReverseTransfer(r)
      <3>1. req[r].of \in Requests /\ Exists(req[r].of)
        BY <2>6, InputFacts DEF ReverseTransfer, LockInvariant, TransferInvariant, SubjectsExist
      <3>2. CASE Rollback(r, "done", "INSUFFICIENT_FUNDS")
        <4>1. Passes(r, "done")
          BY <2>6, <3>2 DEF ReverseTransfer, Rollback, Passes, IsTransfer, Goto
        <4> QED
          BY <4>1, PassKeepsTransfers DEF Steps
      <3>3. CASE MarkReversed(req[r].of) /\ Commit(r)
        BY <3>1, <3>3, WriteKeepsTransfers DEF MarkReversed, Commit, TransferStatus
      <3> QED
        BY <2>6, <3>2, <3>3 DEF ReverseTransfer
    <2> QED
      BY <1>3, <2>1, <2>2, <2>3, <2>4, <2>5, <2>6 DEF TransfersNext
  <1>4. CASE UNCHANGED vars
    BY <1>4 DEF vars, LockInvariant, TransferInvariant, TransfersHaveTwoSides,
                TransfersComeLast, SubjectsExist, IsTransfer, Exists
  <1> QED
    BY <1>1, <1>2, <1>3, <1>4 DEF Next, Step, Finished

-----------------------------------------------------------------------------
(* Records.                                                                *)

\* What the shapes say of the COMPLETED Transaction rows.
LEMMA ShapeRecords ==
  ASSUME LockInvariant, NEW r \in Requests, Shape(r)
  PROVE  /\ \E step \in Steps : Goto(r, step)
         /\ Moves(r) => Posted' = Posted \cup {r} /\ Goto(r, "done")
         /\ ~Moves(r) => Posted' = Posted
  <1>1. CASE Moves(r)
    BY <1>1 DEF Moves, MoveMoney, Commit, Answer, Posted, Steps, LockInvariant, TypeOK
  <1>2. CASE ~Moves(r) /\ (Quiet(r) \/ Ends(r) \/ Repairs(r))
    BY <1>2 DEF Quiet, Ends, Repairs, Commit, Answer, Steps
  <1>3. CASE ~Moves(r) /\ (LockAccountRow(r) \/ SumLedger(r))
    BY <1>3 DEF LockAccountRow, SumLedger, Posted, Goto, Steps, rows
  <1> QED
    BY <1>1, <1>2, <1>3 DEF Shape

\* A call completes its record with its last step.
LEMMA RecordsStep ==
  ASSUME LockInvariant, [Next]_vars
  PROVE  RecordsComeLast'
  <1>1. ASSUME NEW r \in Requests, Shape(r)
        PROVE  RecordsComeLast'
    BY <1>1, ShapeRecords DEF LockInvariant, TypeOK, RecordsComeLast, Goto, Shape
  <1>2. CASE UNCHANGED vars
    BY <1>2 DEF vars, LockInvariant, RecordsComeLast, Posted
  <1> QED
    BY <1>1, <1>2, StepShape DEF Next, Finished

-----------------------------------------------------------------------------
(* The inductive invariant and what follows from it.                       *)

\* The inductive invariant holds at the start, drifted or not, ...
LEMMA InitLockInvariant ==
  ASSUME NEW D, D \subseteq Int, OpenAccounts(D)
  PROVE  LockInvariant
  <1>1. TypeOK /\ InputsAreKept
    BY InitTypes
  <1>2. TransferInvariant
    BY DEF OpenAccounts, TransferInvariant, TransfersHaveTwoSides, TransfersComeLast,
           SubjectsExist, Exists
  <1>3. RowInvariant
    BY NoneAssumption DEF OpenAccounts, RowInvariant, LocksHaveOwners, LocksAreTaken,
                          ReadsAreCurrent
  <1>4. RecordsComeLast
    BY DEF OpenAccounts, RecordsComeLast, Posted
  <1> QED
    BY <1>1, <1>2, <1>3, <1>4 DEF LockInvariant

\* ... and every step keeps it.
LEMMA LockInvariantStep ==
  ASSUME LockInvariant, [Next]_vars
  PROVE  LockInvariant'
  <1>1. TypeOK' /\ InputsAreKept'
    BY TypeStep, InputsStay DEF LockInvariant, InputsAreKept
  <1> QED
    BY <1>1, TransferInvariantStep, RecordsStep, RowStep DEF LockInvariant

\* Whatever the opening drift, calls hold the rows they write and have read what those
\* rows (or, for a repair, the ledger) say: lockAccountRow makes read-then-write atomic.
THEOREM LockInvariantHolds == Spec \/ DriftedSpec => []LockInvariant
  <1>1. Init \/ DriftedInit => LockInvariant
    <2>1. {0} \subseteq Int
      OBVIOUS
    <2> QED
      BY <2>1, InitLockInvariant, DriftsAssumption DEF Init, DriftedInit, DriftsAssumption
  <1> QED
    BY <1>1, LockInvariantStep, PTL DEF Spec, DriftedSpec

\* What a step may do to one account's balance and ledger sum.
LEMMA BalanceStep ==
  ASSUME LockInvariant, [Next]_vars, NEW a \in Accounts
  PROVE  /\ balance'[a] - ledger'[a] \in {balance[a] - ledger[a], 0}
         /\ balance[a] >= 0 => balance'[a] >= 0
  <1>0. balance[a] \in Int /\ ledger[a] \in Int
    BY DEF LockInvariant, TypeOK, LedgerAccounts
  <1>1. CASE UNCHANGED <<balance, ledger>>
    BY <1>0, <1>1
  <1>2. ASSUME NEW r \in Requests, Repairs(r)
        PROVE  /\ balance'[a] - ledger'[a] \in {balance[a] - ledger[a], 0}
               /\ balance[a] >= 0 => balance'[a] >= 0
    <2>1. ledger' = ledger
      BY <1>2 DEF Repairs
    <2> QED
      BY <1>0, <1>2, <2>1, RepairsTheCache
  <1>3. ASSUME NEW r \in Requests, Shape(r)
        PROVE  /\ balance'[a] - ledger'[a] \in {balance[a] - ledger[a], 0}
               /\ balance[a] >= 0 => balance'[a] >= 0
    <2>1. CASE Quiet(r) \/ Ends(r) \/ LockAccountRow(r) \/ SumLedger(r)
      BY <1>1, <2>1 DEF Quiet, Ends, LockAccountRow, SumLedger, rows
    <2>2. CASE Moves(r)
      BY <2>2, MovesInStep
    <2> QED
      BY <1>2, <1>3, <2>1, <2>2 DEF Shape
  <1>4. CASE UNCHANGED vars
    BY <1>1, <1>4 DEF vars
  <1> QED
    BY <1>3, <1>4, StepShape DEF Next, Finished

\* The cached balances equal the ledger sums at every commit of every interleaving:
\* docs/phase2.md:6 "the cache and ledger can never diverge".
THEOREM CacheCorrect == Spec => []CacheMatchesLedger
  <1>1. Init => CacheMatchesLedger
    BY OpeningAssumption DEF Init, OpenAccounts, CacheMatchesLedger, LedgerAccounts
  <1>2. LockInvariant /\ CacheMatchesLedger /\ [Next]_vars => CacheMatchesLedger'
    <2> SUFFICES ASSUME LockInvariant, CacheMatchesLedger, [Next]_vars
                 PROVE  CacheMatchesLedger'
      OBVIOUS
    <2>1. LockInvariant'
      BY LockInvariantStep
    <2>2. ASSUME NEW a \in Accounts
          PROVE  balance'[a] = ledger'[a]
      <3>1. balance[a] \in Int /\ ledger[a] \in Int /\ balance'[a] \in Int /\ ledger'[a] \in Int
        BY <2>1 DEF LockInvariant, TypeOK, LedgerAccounts
      <3> QED
        BY <3>1, BalanceStep DEF CacheMatchesLedger
    <2> QED
      BY <2>2 DEF CacheMatchesLedger
  <1> QED
    BY <1>1, <1>2, LockInvariantHolds, PTL DEF Spec

\* No interleaving of debits, transfers, reversals and repairs overdraws an account.
THEOREM NeverOverdrawn == Spec \/ DriftedSpec => []NoOverdraft
  <1>1. Init \/ DriftedInit => NoOverdraft
    BY OpeningAssumption DEF Init, DriftedInit, OpenAccounts, NoOverdraft
  <1>2. LockInvariant /\ NoOverdraft /\ [Next]_vars => NoOverdraft'
    BY BalanceStep DEF NoOverdraft
  <1> QED
    BY <1>1, <1>2, LockInvariantHolds, PTL DEF Spec, DriftedSpec

\* A step leaves an account's drift alone or, as a repair does, removes it.
THEOREM DriftOnlyRepaired == DriftedSpec => DriftIsOnlyRepaired
  <1>1. LockInvariant /\ [Next]_vars
          => [\A a \in Accounts :
                balance'[a] - ledger'[a] \in {balance[a] - ledger[a], 0}]_vars
    BY BalanceStep
  <1> QED
    BY <1>1, LockInvariantHolds, PTL DEF DriftedSpec, DriftIsOnlyRepaired

-----------------------------------------------------------------------------
(* Idempotency keys.                                                       *)

\* The key of a call that moves money was never used by one that did.
LEMMA NewKey ==
  ASSUME LockInvariant, NEW r \in Requests, Moves(r), NEW s \in Posted,
         req[s].key = req[r].key
  PROVE  req[r].key = NoKey
  BY InputFacts DEF Moves, LockInvariant, Posted, TransactionKeyTaken, HasTransaction

\* Of the calls that share an idempotency key, funding and transfers together, at most
\* one ever moves money.
THEOREM OncePerKey == Spec => []OneMovementPerKey
  <1>1. Init => OneMovementPerKey
    BY DEF Init, OpenAccounts, OneMovementPerKey, Posted
  <1>2. LockInvariant /\ OneMovementPerKey /\ [Next]_vars => OneMovementPerKey'
    <2>1. ASSUME LockInvariant, OneMovementPerKey, NEW r \in Requests, Shape(r), req' = req
          PROVE  OneMovementPerKey'
      <3>1. CASE Moves(r)
        <4>1. ASSUME NEW s \in Posted, req[r].key # NoKey
              PROVE  req[s].key # req[r].key
          BY <2>1, <3>1, <4>1, NewKey
        <4> QED
          BY <2>1, <3>1, <4>1, ShapeRecords DEF OneMovementPerKey
      <3>2. CASE ~Moves(r)
        BY <2>1, <3>2, ShapeRecords DEF OneMovementPerKey
      <3> QED
        BY <3>1, <3>2
    <2>2. CASE UNCHANGED vars
      BY <2>2 DEF vars, OneMovementPerKey, Posted
    <2> QED
      BY <2>1, <2>2, StepShape, InputsStay DEF Next, Finished
  <1> QED
    BY <1>1, <1>2, LockInvariantHolds, PTL DEF Spec

-----------------------------------------------------------------------------
(* The services implement the atomic bank.                                 *)

\* The commit of a movement is a step of the atomic bank.
LEMMA MovesApply ==
  ASSUME LockInvariant, NEW r \in Requests, Moves(r), req' = req
  PROVE  Atomic!Apply(r)
  <1> DEFINE debit == DebitSide(r)
             credit == CreditSide(r)
             n == AmountOf(r)
             movement == [s \in Requests |-> Movement(s)]
  <1>1. r \notin Posted
    BY DEF Moves, LockInvariant, RecordsComeLast
  <1>2. Posted' = Posted \cup {r}
    BY DEF Moves, MoveMoney, Posted, LockInvariant, TypeOK
  <1>3. \A s \in Posted : req[s].key = req[r].key => req[r].key = NoKey
    BY NewKey
  <1>4. \A a \in Accounts : a \in {debit, credit} => seen[r][a] = balance[a]
    BY HeldRowsAreCurrent DEF Moves
  <1>5. debit \in Accounts => balance[debit] >= n
    BY <1>4 DEF Moves
  <1>6. balance' = [a \in Accounts |->
                      CASE a = debit  -> balance[a] - n
                        [] a = credit -> balance[a] + n
                        [] OTHER      -> balance[a]]
    BY <1>4 DEF Moves, MoveMoney, UpdateBalances
  <1>7. movement' = movement
    BY DEF Movement, DebitSide, CreditSide, AmountOf, Subject, Counterparty
  <1>8. /\ movement[r].debit = debit /\ movement[r].credit = credit /\ movement[r].amount = n
        /\ \A s \in Requests : movement[s].key = req[s].key
    BY DEF Movement
  <1>9. Posted \subseteq Requests
    BY DEF Posted
  <1> HIDE DEF debit, credit, n, movement
  <1>10. \A s \in Posted : movement[s].key = movement[r].key => movement[r].key = NoKey
    BY <1>3, <1>8, <1>9
  <1>11. Atomic!Covered(movement[r]) /\ balance' = Atomic!Moved(movement[r])
    BY <1>5, <1>6, <1>8 DEF Atomic!Covered, Atomic!Moved
  <1> QED
    BY <1>1, <1>2, <1>7, <1>10, <1>11 DEF Atomic!Apply, movement

\* Every behaviour of the services, with its locks, retries, duplicates and aborts, is a
\* behaviour of the atomic bank: the commit of a money transaction applies its call, and
\* every other step changes neither balances nor what has been applied.
THEOREM RefinesAtomicBank == Spec => ImplementsAtomicBank
  <1>1. Init => Atomic!Init
    BY DEF Init, OpenAccounts, Atomic!Init, Posted
  <1>2. LockInvariant /\ CacheMatchesLedger /\ [Next]_vars
          => [Atomic!Next]_<<[r \in Requests |-> Movement(r)], balance, Posted>>
    <2> SUFFICES ASSUME LockInvariant, CacheMatchesLedger, [Next]_vars
                 PROVE  \/ Atomic!Next
                        \/ UNCHANGED <<[r \in Requests |-> Movement(r)], balance, Posted>>
      OBVIOUS
    <2>1. [r \in Requests |-> Movement(r)]' = [r \in Requests |-> Movement(r)]
      BY InputsStay DEF Movement, DebitSide, CreditSide, AmountOf, Subject, Counterparty
    <2>2. ASSUME NEW r \in Requests, Shape(r)
          PROVE  Atomic!Next \/ (balance' = balance /\ Posted' = Posted)
      <3>1. CASE Moves(r)
        BY <3>1, MovesApply, InputsStay DEF Atomic!Next
      <3>2. CASE Repairs(r)
        <4>1. \A a \in Accounts : balance'[a] = balance[a]
          BY <3>2, RepairsTheCache DEF CacheMatchesLedger
        <4>2. balance' = balance
          BY <3>2, <4>1 DEF Repairs, LockInvariant, TypeOK
        <4> QED
          BY <3>2, <4>2 DEF Repairs
      <3>3. CASE ~Moves(r) /\ ~Repairs(r)
        BY <2>2, <3>3, ShapeRecords DEF Shape, Quiet, Ends, LockAccountRow, SumLedger, rows
      <3> QED
        BY <3>1, <3>2, <3>3
    <2>3. CASE UNCHANGED vars
      BY <2>3, <2>1 DEF vars, Posted
    <2> QED
      BY <2>1, <2>2, <2>3, StepShape DEF Next, Finished
  <1> QED
    BY <1>1, <1>2, LockInvariantHolds, CacheCorrect, PTL
       DEF Spec, ImplementsAtomicBank, Atomic!Spec
=============================================================================
