------------------------- MODULE BankRecordsProofs -------------------------
(***************************************************************************)
(* Theorems about Bank: answers, reversals, the order of locks, and what   *)
(* the ledger and the records add up to.                                   *)
(***************************************************************************)
EXTENDS BankProofs, WellFoundedInduction

-----------------------------------------------------------------------------
(* Transfers and their records.                                            *)

\* What a step of call r does to the Transfer rows: nothing, its own row with or without
\* the movement, or a new status of one that exists.
TransferRows(r) ==
  \/ /\ UNCHANGED transfer
     /\ txn'[r] = "COMPLETED" => req[r].op # "reverse"
  \/ /\ transfer' = [transfer EXCEPT ![r] = "COMPLETED"]
     /\ txn'[r] = "COMPLETED"
     /\ IsTransfer(r)
  \/ /\ transfer' = [transfer EXCEPT ![r] = "FAILED"]
     /\ txn'[r] # "COMPLETED"
     /\ IsTransfer(r)
  \/ /\ transfer' = [transfer EXCEPT ![req[r].of] = "BLOCKED"]
     /\ txn'[r] # "COMPLETED"
     /\ Exists(req[r].of) /\ req[r].of \in Requests
  \/ /\ transfer' = [transfer EXCEPT ![req[r].of] = "REVERSED"]
     /\ txn'[r] = "COMPLETED"
     /\ req[r].op = "reverse"
     /\ Exists(req[r].of) /\ req[r].of \in Requests

\* A call that has not ended has no COMPLETED row yet.
LEMMA NotYetPosted ==
  ASSUME LockInvariant, NEW r \in Requests, pc[r] # "done"
  PROVE  txn[r] # "COMPLETED"
  BY DEF LockInvariant, RecordsComeLast, Posted

\* Every step of a call has that effect.
LEMMA TransferRowsStep ==
  ASSUME LockInvariant, NEW r \in Requests, Step(r) \/ Abort(r)
  PROVE  TransferRows(r)
  <1>0. pc[r] # "done" /\ txn[r] # "COMPLETED"
    BY StepShape, NotYetPosted DEF Shape
  <1>1. CASE txn' = txn /\ UNCHANGED transfer
    BY <1>0, <1>1 DEF TransferRows
  <1>2. CASE FundingNext(r)
    <2>1. UNCHANGED transfer /\ req[r].op # "reverse"
      BY <1>2
         DEF FundingNext, ValidateFunding, CheckFundingKey, FundAccount, DebitAccount,
             FundingKeyConflict, RecordFailedAttempt, ReturnExistingTransaction, StartRepair,
             SumLedger, RepairAccountBalance, FundingStep, FundingOps, Rollback, rows
    <2> QED
      BY <2>1 DEF TransferRows
  <1>3. CASE LifecycleNext(r) \/ LockAccountRow(r) \/ Abort(r)
    BY <1>1, <1>3 DEF LifecycleNext, CheckStatus, UpdateStatus, LockAccountRow, Abort,
                      Rollback, rows
  <1>4. CASE \/ ValidateTransfer(r) \/ CheckTransferKey(r) \/ InsertTransfer(r)
             \/ ShareRecipient(r) \/ ReturnExistingTransfer(r) \/ DeadlockAbort(r)
             \/ ValidateBlock(r) \/ ValidateReverse(r)
    BY <1>1, <1>4
       DEF ValidateTransfer, CheckTransferKey, InsertTransfer, ShareRecipient,
           ReturnExistingTransfer, DeadlockAbort, ValidateBlock, ValidateReverse, rows
  <1>5. CASE RecordFailedOutgoingTransfer(r)
    BY <1>5 DEF RecordFailedOutgoingTransfer, TransferStep, TransferRows, LockInvariant, TypeOK
  <1>6. CASE CreateTransfer(r)
    BY <1>0, <1>1, <1>6 DEF CreateTransfer, TransferStep, Rollback, MoveMoney, TransferRows,
                            rows, LockInvariant, TypeOK
  <1>7. CASE BlockTransfer(r)
    <2>1. req[r].of \in Requests /\ Exists(req[r].of)
      BY <1>7, InputFacts DEF BlockTransfer, LockInvariant, TransferInvariant, SubjectsExist
    <2> QED
      BY <1>0, <1>7, <2>1 DEF BlockTransfer, TransferRows
  <1>8. CASE ReverseTransfer(r)
    <2>1. req[r].of \in Requests /\ Exists(req[r].of)
      BY <1>8, InputFacts DEF ReverseTransfer, LockInvariant, TransferInvariant, SubjectsExist
    <2> QED
      BY <1>0, <1>1, <1>8, <2>1 DEF ReverseTransfer, Rollback, MoveMoney, MarkReversed,
                                    TransferRows, rows, LockInvariant, TypeOK
  <1> QED
    BY <1>2, <1>3, <1>4, <1>5, <1>6, <1>7, <1>8 DEF Step, TransfersNext

\* How the COMPLETED Transaction rows grow.
LEMMA PostedStep ==
  ASSUME LockInvariant, NEW r \in Requests, Step(r) \/ Abort(r)
  PROVE  /\ pc[r] # "done" /\ r \notin Posted
         /\ Posted' = IF txn'[r] = "COMPLETED" THEN Posted \cup {r} ELSE Posted
         /\ Moves(r) <=> txn'[r] = "COMPLETED"
         /\ \E step \in Steps : Goto(r, step)
  <1>1. Shape(r) /\ pc[r] # "done" /\ txn[r] # "COMPLETED"
    BY StepShape, NotYetPosted DEF Shape
  <1>2. r \in Posted' <=> txn'[r] = "COMPLETED"
    BY DEF Posted
  <1>3. r \notin Posted
    BY <1>1 DEF Posted
  <1> QED
    BY <1>1, <1>2, <1>3, ShapeRecords

\* A committed transfer has its transaction, and a reversal is written on the transfer.
LEMMA TransferRowsKept ==
  ASSUME LockInvariant, TransfersArePosted, ReversalIsRecorded,
         NEW r \in Requests, Step(r) \/ Abort(r), req' = req
  PROVE  TransfersArePosted' /\ ReversalIsRecorded'
  <1>1. TransferRows(r)
    BY TransferRowsStep
  <1>2. /\ pc[r] # "done" /\ r \notin Posted
        /\ Posted' = IF txn'[r] = "COMPLETED" THEN Posted \cup {r} ELSE Posted
    BY PostedStep
  <1>3. IsTransfer(r) => transfer[r] = "none"
    BY <1>2 DEF LockInvariant, TransferInvariant, TransfersComeLast
  <1>4. transfer \in [Requests -> TransferStatus] /\ Posted \subseteq Requests
    BY DEF LockInvariant, TypeOK, Posted
  <1>5. \A t \in Requests :
          ReversalsOf(t)' = IF txn'[r] = "COMPLETED" /\ req[r].op = "reverse" /\ req[r].of = t
                            THEN ReversalsOf(t) \cup {r} ELSE ReversalsOf(t)
    BY <1>2 DEF ReversalsOf
  <1>6. TransfersArePosted'
    BY <1>1, <1>2, <1>4 DEF TransfersArePosted, TransferRows, Exists
  <1>7. ReversalIsRecorded'
    <2> SUFFICES ASSUME NEW t \in Requests
                 PROVE  /\ ReversalsOf(t)' # {} => transfer'[t] \in {"BLOCKED", "REVERSED"}
                        /\ transfer'[t] = "REVERSED" => ReversalsOf(t)' # {}
      BY DEF ReversalIsRecorded
    <2>1. CASE txn'[r] = "COMPLETED" /\ req[r].op = "reverse" /\ req[r].of = t
      BY <1>1, <1>4, <1>5, <2>1 DEF TransferRows, IsTransfer
    <2>2. CASE ~(txn'[r] = "COMPLETED" /\ req[r].op = "reverse" /\ req[r].of = t)
      <3>1. ReversalsOf(t)' = ReversalsOf(t)
        BY <1>5, <2>2
      <3>2. /\ ReversalsOf(t) # {} => transfer[t] \in {"BLOCKED", "REVERSED"}
            /\ transfer[t] = "REVERSED" => ReversalsOf(t) # {}
        BY DEF ReversalIsRecorded
      <3>3. \/ transfer'[t] = transfer[t]
            \/ t = r /\ IsTransfer(r) /\ transfer'[t] \in {"COMPLETED", "FAILED"}
            \/ t = req[r].of /\ transfer'[t] = "BLOCKED"
        BY <1>1, <1>4, <2>2 DEF TransferRows
      <3>4. CASE t = r /\ IsTransfer(r) /\ transfer'[t] \in {"COMPLETED", "FAILED"}
        BY <1>3, <3>1, <3>2, <3>4
      <3> QED
        BY <3>1, <3>2, <3>3, <3>4
    <2> QED
      BY <2>1, <2>2
  <1> QED
    BY <1>6, <1>7

-----------------------------------------------------------------------------
(* Answers.                                                                *)

\* What a step of call r does to its answer: it stays what it was, becomes a failure, or
\* becomes a row when the call ends: its own, committed in this step, or the key's.
Answers(r) ==
  \E res \in Requests \cup Failures \cup {"none"} :
    /\ result' = [result EXCEPT ![r] = res]
    /\ res \in Requests =>
         /\ pc'[r] = "done"
         /\ \/ res = r /\ txn'[r] = "COMPLETED"
            \/ HasTransaction(res, req[r].key)
            \/ IsTransfer(r) /\ HasTransfer(res, req[r].key)
            \/ req[r].op \notin FundingOps \cup {"transfer", "reverse"}

\* A failure is an answer of that kind, ...
LEMMA FailureAnswers ==
  ASSUME LockInvariant, NEW r \in Requests, NEW res \in Failures \cup {"none"},
         result' = [result EXCEPT ![r] = res]
  PROVE  Answers(r)
  BY AnswersAssumption DEF Answers

\* ... and so is no answer.
LEMMA NoAnswer ==
  ASSUME LockInvariant, AnswersComeLast, NEW r \in Requests, pc[r] # "done",
         UNCHANGED result
  PROVE  Answers(r)
  BY DEF Answers, AnswersComeLast, LockInvariant, TypeOK

\* Funding answers so, ...
LEMMA FundingAnswers ==
  ASSUME LockInvariant, AnswersComeLast, NEW r \in Requests, pc[r] # "done", FundingNext(r)
  PROVE  Answers(r)
  <1> USE DEF Answer, Goto, Failures
  <1>0. UNCHANGED result => Answers(r)
    BY NoAnswer
  <1>1. \A res \in Failures \cup {"none"} : result' = [result EXCEPT ![r] = res] => Answers(r)
    BY FailureAnswers
  <1>2. CASE ValidateFunding(r) \/ StartRepair(r) \/ SumLedger(r) \/ RecordFailedAttempt(r)
    BY <1>0, <1>1, <1>2 DEF ValidateFunding, StartRepair, SumLedger, RecordFailedAttempt
  <1>3. CASE CheckFundingKey(r) \/ ReturnExistingTransaction(r)
    <2>1. CASE \E s \in Requests : HasTransaction(s, req[r].key) /\ Answer(r, s)
      BY <2>1 DEF Answers, LockInvariant, TypeOK
    <2> QED
      BY <1>0, <1>3, <2>1 DEF CheckFundingKey, ReturnExistingTransaction
  <1>4. CASE FundAccount(r) \/ DebitAccount(r)
    <2>1. CASE FundingKeyConflict(r) \/ Rollback(r, "reject", "INSUFFICIENT_FUNDS")
      BY <1>1, <2>1 DEF FundingKeyConflict, Rollback
    <2>2. CASE txn' = [txn EXCEPT ![r] = "COMPLETED"] /\ Commit(r)
      BY <2>2 DEF Commit, Answers, LockInvariant, TypeOK
    <2> QED
      BY <1>4, <2>1, <2>2 DEF FundAccount, DebitAccount, MoveMoney
  <1>5. CASE RepairAccountBalance(r)
    <2>1. CASE Rollback(r, "done", "ERROR")
      BY <1>1, <2>1 DEF Rollback
    <2>2. CASE Commit(r)
      BY <1>5, <2>2 DEF RepairAccountBalance, FundingStep, FundingOps, Commit, Answers,
                        LockInvariant, TypeOK
    <2> QED
      BY <1>5, <2>1, <2>2 DEF RepairAccountBalance
  <1> QED
    BY <1>2, <1>3, <1>4, <1>5 DEF FundingNext

\* ... transfers do, ...
LEMMA TransfersAnswers ==
  ASSUME LockInvariant, AnswersComeLast, NEW r \in Requests, pc[r] # "done",
         TransfersNext(r)
  PROVE  Answers(r)
  <1> USE DEF Answer, Goto, Failures
  <1>0. UNCHANGED result => Answers(r)
    BY NoAnswer
  <1>1. \A res \in Failures \cup {"none"} : result' = [result EXCEPT ![r] = res] => Answers(r)
    BY FailureAnswers
  <1>2. CASE \/ ValidateTransfer(r) \/ RecordFailedOutgoingTransfer(r) \/ InsertTransfer(r)
             \/ ShareRecipient(r) \/ DeadlockAbort(r) \/ ValidateBlock(r)
             \/ ValidateReverse(r)
    BY <1>0, <1>1, <1>2
       DEF ValidateTransfer, RecordFailedOutgoingTransfer, InsertTransfer, ShareRecipient,
           DeadlockAbort, ValidateBlock, ValidateReverse
  <1>3. CASE CheckTransferKey(r) \/ ReturnExistingTransfer(r)
    <2>1. CASE \E s \in Requests : HasTransfer(s, req[r].key) /\ Answer(r, s)
      BY <1>3, <2>1 DEF CheckTransferKey, ReturnExistingTransfer, TransferStep, Answers,
                        LockInvariant, TypeOK
    <2> QED
      BY <1>0, <1>1, <1>3, <2>1 DEF CheckTransferKey, ReturnExistingTransfer
  <1>4. CASE CreateTransfer(r) \/ ReverseTransfer(r)
    <2>1. CASE Rollback(r, "done", "INSUFFICIENT_FUNDS") \/ Rollback(r, "catch", "none")
      BY <1>1, <2>1 DEF Rollback
    <2>2. CASE txn' = [txn EXCEPT ![r] = "COMPLETED"] /\ Commit(r)
      BY <2>2 DEF Commit, Answers, LockInvariant, TypeOK
    <2> QED
      BY <1>4, <2>1, <2>2 DEF CreateTransfer, ReverseTransfer, MoveMoney
  <1>5. CASE BlockTransfer(r)
    BY <1>5 DEF BlockTransfer, FundingOps, Answers, LockInvariant, TypeOK
  <1> QED
    BY <1>2, <1>3, <1>4, <1>5 DEF TransfersNext

\* ... and so does every step.
LEMMA AnswersStep ==
  ASSUME LockInvariant, AnswersComeLast, NEW r \in Requests, pc[r] # "done",
         Step(r) \/ Abort(r)
  PROVE  Answers(r)
  <1> USE DEF Answer, Goto
  <1>1. CASE CheckStatus(r) \/ LockAccountRow(r)
    BY <1>1, NoAnswer, FailureAnswers DEF CheckStatus, LockAccountRow, Failures
  <1>2. CASE UpdateStatus(r)
    BY <1>2 DEF UpdateStatus, LifecycleOps, FundingOps, Answers, LockInvariant, TypeOK
  <1>3. CASE Abort(r)
    <2>1. (IF result[r] = "none" THEN "ERROR" ELSE result[r]) \in Failures \cup {"none"}
      BY DEF AnswersComeLast, LockInvariant, TypeOK, Failures
    <2> QED
      BY <1>3, <2>1, FailureAnswers DEF Abort, Rollback
  <1> QED
    BY <1>1, <1>2, <1>3, FundingAnswers, TransfersAnswers DEF Step, LifecycleNext

\* Answers keep telling which row has moved the call's money.
LEMMA AnswersKept ==
  ASSUME LockInvariant, AnswerInvariant, NEW r \in Requests, Step(r) \/ Abort(r),
         req' = req
  PROVE  AnswersComeLast' /\ AnswersHoldTheKey' /\ AnswerMatchesEffect'
  <1>1. /\ pc[r] # "done" /\ r \notin Posted
        /\ Posted' = IF txn'[r] = "COMPLETED" THEN Posted \cup {r} ELSE Posted
        /\ Moves(r) <=> txn'[r] = "COMPLETED"
    BY PostedStep
  <1>2. PICK step \in Steps : pc' = [pc EXCEPT ![r] = step]
    BY PostedStep DEF Goto
  <1>3. PICK res \in Requests \cup Failures \cup {"none"} :
          /\ result' = [result EXCEPT ![r] = res]
          /\ res \in Requests =>
               /\ pc'[r] = "done"
               /\ \/ res = r /\ txn'[r] = "COMPLETED"
                  \/ HasTransaction(res, req[r].key)
                  \/ IsTransfer(r) /\ HasTransfer(res, req[r].key)
                  \/ req[r].op \notin FundingOps \cup {"transfer", "reverse"}
    BY <1>1, AnswersStep DEF Answers, AnswerInvariant
  <1>4. /\ pc \in [Requests -> Steps] /\ result \in [Requests -> Requests \cup Failures \cup {"none"}]
        /\ Posted \subseteq Requests
    BY DEF LockInvariant, TypeOK, Posted
  <1>5. txn'[r] = "COMPLETED" => res = r
    BY <1>1, <1>3, <1>4 DEF Moves, Commit, Answer
  <1>6. AnswersComeLast'
    BY <1>2, <1>3, <1>4 DEF AnswerInvariant, AnswersComeLast
  <1>7. \A s \in Requests : HasTransaction(s, req[r].key) => s \in Posted /\ req[s].key = req[r].key
    BY DEF HasTransaction, Posted
  <1>8. \A s \in Requests : HasTransfer(s, req[r].key) => s \in Posted /\ req[s].key = req[r].key
    BY DEF HasTransfer, AnswerInvariant, TransfersArePosted, Exists
  <1>9. AnswersHoldTheKey'
    BY <1>1, <1>2, <1>3, <1>4, <1>7, <1>8 DEF AnswerInvariant, AnswersHoldTheKey
  <1>10. AnswerMatchesEffect'
    <2> SUFFICES ASSUME NEW s \in Requests, pc'[s] = "done",
                        req[s].op \in FundingOps \cup {"transfer", "reverse"}
                 PROVE  result'[s] = s <=> s \in Posted'
      BY DEF AnswerMatchesEffect, Posted
    <2>1. CASE s = r
      BY <1>1, <1>3, <1>4, <1>5, <1>7, <1>8, <2>1
    <2>2. CASE s # r
      <3>1. s \in Posted' <=> txn[s] = "COMPLETED"
        BY <1>1, <2>2 DEF Posted
      <3> QED
        BY <1>2, <1>3, <1>4, <2>2, <3>1 DEF AnswerInvariant, AnswerMatchesEffect
    <2> QED
      BY <2>1, <2>2
  <1> QED
    BY <1>6, <1>9, <1>10

\* Answers, Transaction rows and Transfer rows agree in every state: a call is answered
\* with a row only by its last step, and that row is its own or the one its key had.
THEOREM AnswerInvariantHolds == Spec => []AnswerInvariant
  <1>1. Init => AnswerInvariant
    BY AnswersAssumption
       DEF Init, OpenAccounts, AnswerInvariant, TransfersArePosted, AnswersComeLast,
           AnswersHoldTheKey, AnswerMatchesEffect, ReversalIsRecorded, ReversalsOf, Posted,
           Exists
  <1>2. LockInvariant /\ AnswerInvariant /\ [Next]_vars => AnswerInvariant'
    <2>1. ASSUME LockInvariant, AnswerInvariant, NEW r \in Requests, Step(r) \/ Abort(r),
                 req' = req
          PROVE  AnswerInvariant'
      BY <2>1, TransferRowsKept, AnswersKept DEF AnswerInvariant
    <2>2. CASE UNCHANGED vars
      BY <2>2 DEF vars, AnswerInvariant, TransfersArePosted, AnswersComeLast,
                  AnswersHoldTheKey, AnswerMatchesEffect, ReversalIsRecorded, ReversalsOf,
                  Posted, Exists
    <2> QED
      BY <2>1, <2>2, InputsStay DEF Next, Finished
  <1> QED
    BY <1>1, <1>2, LockInvariantHolds, PTL DEF Spec

\* A call is answered with its own row exactly when its money has moved, whatever
\* duplicates, rollbacks and restarts came before.
THEOREM AnswersMatchEffects == Spec => []AnswerMatchesEffect
  BY AnswerInvariantHolds, PTL DEF AnswerInvariant

\* A transfer whose money was given back reads REVERSED, or BLOCKED if a stale
\* blockTransfer came last, and REVERSED always means that it was given back.
THEOREM ReversalsRecorded == Spec => []ReversalIsRecorded
  BY AnswerInvariantHolds, PTL DEF AnswerInvariant

\* All calls that share a key and succeed are given one and the same row.
THEOREM OneAnswerPerKey == Spec => []SameKeySameAnswer
  <1>1. AnswerInvariant /\ OneMovementPerKey => SameKeySameAnswer
    BY DEF AnswerInvariant, AnswersHoldTheKey, OneMovementPerKey, SameKeySameAnswer
  <1> QED
    BY <1>1, AnswerInvariantHolds, OncePerKey, PTL
-----------------------------------------------------------------------------
(* The order of locks.                                                     *)

\* lockOrder picks the smallest account id a call still has to lock.
LEMMA NextToLockIsFirst ==
  ASSUME InputsAreKept, NEW r \in Requests, ToLock(r) # {}
  PROVE  /\ NextToLock(r) \in ToLock(r)
         /\ \A b \in ToLock(r) : NextToLock(r) <= b
  <1> DEFINE x == req[Subject(r)].account
             y == req[Subject(r)].to
  <1>1. ToLock(r) \subseteq {x, y} /\ ToLock(r) \subseteq Nat
    BY AccountsAssumption DEF ToLock, Touched
  <1>2. \E a \in ToLock(r) : \A b \in ToLock(r) : a <= b
    <2> HIDE DEF x, y
    <2> QED BY <1>1
  <1> QED
    BY <1>2 DEF NextToLock

\* Only createTransfer claims keys and shares rows.
LEMMA OnlyTransfersShareKept ==
  ASSUME LockInvariant, OnlyTransfersShare, NEW r \in Requests, Step(r) \/ Abort(r), req' = req
  PROVE  OnlyTransfersShare'
  <1>1. \E step \in Steps : Goto(r, step) /\ (step \in {"insert", "share"} => IsTransfer(r))
    <2> USE DEF Goto, Steps, Answer
    <2>1. CASE FundingNext(r)
      BY <2>1
         DEF FundingNext, ValidateFunding, CheckFundingKey, FundAccount, DebitAccount,
             FundingKeyConflict, RecordFailedAttempt, ReturnExistingTransaction, StartRepair,
             SumLedger, RepairAccountBalance, Commit, Rollback
    <2>2. CASE TransfersNext(r)
      BY <2>2
         DEF TransfersNext, ValidateTransfer, RecordFailedOutgoingTransfer, CheckTransferKey,
             InsertTransfer, ShareRecipient, CreateTransfer, ReturnExistingTransfer,
             DeadlockAbort, ValidateBlock, BlockTransfer, ValidateReverse, ReverseTransfer,
             TransferStep, Commit, Rollback
    <2>3. CASE LifecycleNext(r) \/ LockAccountRow(r) \/ Abort(r)
      BY <2>3 DEF LifecycleNext, CheckStatus, UpdateStatus, LockAccountRow, Abort, Rollback
    <2> QED
      BY <2>1, <2>2, <2>3 DEF Step
  <1> QED
    BY <1>1 DEF OnlyTransfersShare, IsTransfer, Goto, LockInvariant, TypeOK

\* A call takes its rows in ascending order and gives them up together.
LEMMA LocksInOrderKept ==
  ASSUME LockInvariant, LocksInOrder, NEW r \in Requests, Shape(r), req' = req
  PROVE  LocksInOrder'
  <1>1. \A s \in Requests : Touched(s)' = Touched(s) /\ Touched(s) \subseteq Accounts
    BY SameRows DEF Touched
  <1>2. CASE UNCHANGED rowLock
    BY <1>1, <1>2 DEF LocksInOrder, ToLock
  <1>3. CASE EndTransaction(r)
    <2>1. \A a \in Accounts : rowLock'[a] = IF rowLock[a] = r THEN None ELSE rowLock[a]
      BY <1>3 DEF EndTransaction, Released
    <2>2. \A s \in Requests \ {r} : ToLock(s)' = ToLock(s)
      BY <1>1, <2>1, NoneAssumption DEF ToLock
    <2> QED
      BY <2>1, <2>2, NoneAssumption DEF LocksInOrder
  <1>4. CASE LockAccountRow(r)
    <2> DEFINE n == NextToLock(r)
    <2>1. ToLock(r) # {} /\ rowLock' = [rowLock EXCEPT ![n] = r]
      BY <1>4 DEF LockAccountRow, LockInvariant, RowInvariant, LocksAreTaken
    <2>2. n \in ToLock(r) /\ \A b \in ToLock(r) : n <= b
      BY <2>1, NextToLockIsFirst DEF LockInvariant
    <2>3. ToLock(r) \subseteq Accounts /\ Accounts \subseteq Nat
      BY <1>1, AccountsAssumption DEF ToLock
    <2>4. rowLock[n] = None
      BY <1>4, <2>2 DEF LockAccountRow, MayLock, MayShare, ToLock
    <2> HIDE DEF n
    <2>5. \A s \in Requests :
            ToLock(s)' = IF s = r THEN ToLock(r) \ {n} ELSE ToLock(s)
      BY <1>1, <2>1, <2>2, <2>3, <2>4, NoneAssumption DEF ToLock, LockInvariant, TypeOK
    <2> SUFFICES ASSUME NEW s \in Requests, NEW a \in Accounts, rowLock'[a] = s,
                        NEW b \in ToLock(s)'
                 PROVE  a < b
      BY DEF LocksInOrder
    <2>6. CASE s = r /\ a = n
      <3>1. b \in ToLock(r) \ {n}
        BY <2>5, <2>6
      <3> QED
        BY <2>2, <2>3, <2>6, <3>1
    <2>7. CASE s # r \/ a # n
      <3>1. rowLock[a] = s
        BY <2>1, <2>2, <2>3, <2>7 DEF LockInvariant, TypeOK
      <3> QED
        BY <2>5, <3>1 DEF LocksInOrder
    <2> QED
      BY <2>6, <2>7
  <1> QED
    BY <1>2, <1>3, <1>4 DEF Shape, Quiet, Ends, Moves, Repairs, Commit, SumLedger

\* The rows a call holds precede those it waits for.
THEOREM OrderInvariantHolds == Spec => []OrderInvariant
  <1>1. Init => OrderInvariant
    BY NoneAssumption DEF Init, OpenAccounts, OrderInvariant, OnlyTransfersShare, LocksInOrder
  <1>2. LockInvariant /\ OrderInvariant /\ [Next]_vars => OrderInvariant'
    <2>1. ASSUME LockInvariant, OrderInvariant, NEW r \in Requests, Step(r) \/ Abort(r),
                 req' = req
          PROVE  OrderInvariant'
      BY <2>1, StepShape, OnlyTransfersShareKept, LocksInOrderKept DEF OrderInvariant
    <2>2. CASE UNCHANGED vars
      BY <2>2 DEF vars, OrderInvariant, OnlyTransfersShare, LocksInOrder, IsTransfer, ToLock,
                  Touched, Subject
    <2> QED
      BY <2>1, <2>2, InputsStay DEF Next, Finished
  <1> QED
    BY <1>1, <1>2, LockInvariantHolds, PTL DEF Spec

\* A call that is no transfer and waits for another such call, waiting as well, wants a
\* smaller row than that one does.
LEMMA WaitingAscends ==
  ASSUME LockInvariant, OrderInvariant,
         NEW r \in Requests, ~IsTransfer(r), WaitsFor(r) # {},
         NEW s \in Requests, ~IsTransfer(s), WaitsFor(s) # {}, s \in WaitsFor(r)
  PROVE  NextToLock(r) \in Nat /\ NextToLock(s) \in Nat /\ NextToLock(r) < NextToLock(s)
  <1>1. pc[r] = "lock" /\ pc[s] = "lock"
    BY DEF WaitsFor, OrderInvariant, OnlyTransfersShare
  <1>2. /\ NextToLock(r) \in ToLock(r) /\ NextToLock(s) \in ToLock(s)
        /\ ToLock(r) \subseteq Accounts /\ ToLock(s) \subseteq Accounts
    BY <1>1, NextToLockIsToLock, TouchedFacts
       DEF LockInvariant, RowInvariant, LocksAreTaken, ToLock
  <1>3. rowLock[NextToLock(r)] = s
    BY <1>1 DEF WaitsFor, KeySharers
  <1> QED
    BY <1>2, <1>3, AccountsAssumption DEF OrderInvariant, LocksInOrder

\* A number below the divisor is its own remainder.
LEMMA SmallRemainder ==
  ASSUME NEW n \in Nat, NEW k \in Nat, k < n
  PROVE  k % n = k
  BY SMT

\* In no state do calls that only lock rows in lockOrder wait for each other in a circle:
\* the call that wants the smallest row of the circle cannot be waited for by another.
THEOREM LockOrderIsSafe == Spec => []LockOrderProtects
  <1>1. LockInvariant /\ OrderInvariant => LockOrderProtects
    <2> DEFINE S == {s \in Requests : ~IsTransfer(s)}
               waiting == {s \in S : WaitsFor(s) # {}}
    <2> SUFFICES ASSUME LockInvariant, OrderInvariant, NEW r \in Requests,
                        NEW n \in 2 .. Cardinality(waiting),
                        NEW p \in [1 .. n -> waiting],
                        \A i \in 1 .. n : p[(i % n) + 1] \in WaitsFor(p[i])
                 PROVE  FALSE
      BY DEF LockOrderProtects, OnWaitCycle
    <2>1. n \in Nat /\ n >= 2
      OBVIOUS
    <2>2. \A i \in 1 .. n : (i % n) + 1 \in 1 .. n
      BY <2>1
    <2>3. \A i \in 1 .. n : \E j \in 1 .. n : (j % n) + 1 = i
      <3> SUFFICES ASSUME NEW i \in 1 .. n
                   PROVE  \E j \in 1 .. n : (j % n) + 1 = i
        OBVIOUS
      <3>1. CASE i = 1
        <4>1. n % n = 0 /\ n \in 1 .. n
          BY <2>1
        <4> QED
          BY <3>1, <4>1
      <3>2. CASE i # 1
        <4>1. i - 1 \in 1 .. n /\ (i - 1) % n = i - 1
          BY <2>1, <3>2, SmallRemainder
        <4> QED
          BY <4>1
      <3> QED
        BY <3>1, <3>2
    <2> DEFINE wanted == {NextToLock(p[i]) : i \in 1 .. n}
    <2>4. \A i \in 1 .. n : NextToLock(p[i]) \in Nat
                            /\ NextToLock(p[i]) < NextToLock(p[(i % n) + 1])
      BY <2>2, WaitingAscends
    <2>5. wanted \subseteq Nat /\ wanted # {}
      BY <2>1, <2>4
    <2>6. PICK m \in wanted : \A x \in wanted : ~(<<x, m>> \in OpToRel(<, Nat))
      BY <2>5, NatLessThanWellFounded, WFMin, Zenon
    <2>7. PICK i \in 1 .. n : m = NextToLock(p[i])
      OBVIOUS
    <2>8. PICK j \in 1 .. n : (j % n) + 1 = i
      BY <2>3
    <2>9. NextToLock(p[j]) < m /\ NextToLock(p[j]) \in wanted
      BY <2>4, <2>7, <2>8
    <2> QED
      BY <2>5, <2>6, <2>9 DEF OpToRel
  <1> QED
    BY <1>1, LockInvariantHolds, OrderInvariantHolds, PTL

-----------------------------------------------------------------------------
(* The sums of the books.                                                  *)

\* What a step does to the ledger: nothing, or a movement between two ledger accounts.
LEMMA LedgerStep ==
  ASSUME LockInvariant, [Next]_vars
  PROVE  \/ UNCHANGED ledger
         \/ \E d, c \in LedgerAccounts, n \in Int :
              d # c /\ ledger' = [ledger EXCEPT ![d] = @ - n, ![c] = @ + n]
  <1>1. ASSUME NEW r \in Requests, Shape(r)
        PROVE  \/ UNCHANGED ledger
               \/ \E d, c \in LedgerAccounts, n \in Int :
                    d # c /\ ledger' = [ledger EXCEPT ![d] = @ - n, ![c] = @ + n]
    <2>1. CASE Moves(r)
      <3>1. /\ DebitSide(r) \in LedgerAccounts /\ CreditSide(r) \in LedgerAccounts
            /\ DebitSide(r) # CreditSide(r) /\ AmountOf(r) \in Int
            /\ ledger' = [ledger EXCEPT ![DebitSide(r)] = @ - AmountOf(r),
                                        ![CreditSide(r)] = @ + AmountOf(r)]
        BY <2>1 DEF Moves, MoveMoney, PostLedgerTransaction
      <3> QED
        BY <3>1
    <2>2. CASE ~Moves(r)
      BY <1>1, <2>2 DEF Shape, Quiet, Ends, Repairs, LockAccountRow, SumLedger, rows
    <2> QED
      BY <2>1, <2>2
  <1>2. CASE UNCHANGED vars
    BY <1>2 DEF vars
  <1> QED
    BY <1>1, <1>2, StepShape DEF Next, Finished

\* The ledger accounts, customers' and the bank's, are finitely many.
LEMMA LedgerAccountsFinite == IsFiniteSet(LedgerAccounts)
  <1>1. IsFiniteSet((Accounts \cup {Cash}) \cup {Settlement})
    BY FiniteAssumption, FS_AddElement
  <1>2. LedgerAccounts = (Accounts \cup {Cash}) \cup {Settlement}
    BY DEF LedgerAccounts
  <1> QED
    BY <1>1, <1>2

\* The cash account is opened with what the customers' accounts hold.
LEMMA InitNetsToZero ==
  ASSUME Init
  PROVE  LedgerNetsToZero
  <1> DEFINE total == Total(Opening, Accounts)
             rest == Accounts \cup {Settlement}
  <1>1. ledger = [x \in LedgerAccounts |->
                    IF x \in Accounts THEN Opening[x] + 0
                    ELSE IF x = Cash THEN - total ELSE 0]
    <2>1. PICK d \in [Accounts -> {0}] :
            ledger = [x \in LedgerAccounts |->
                        IF x \in Accounts THEN Opening[x] + d[x]
                        ELSE IF x = Cash THEN - total ELSE 0]
      BY DEF Init, OpenAccounts
    <2> HIDE DEF total
    <2> QED
      BY <2>1
  <1>2. total \in Int /\ \A a \in Accounts : Opening[a] \in Int
    BY OpeningAssumption, FiniteAssumption, TotalType
  <1>3. /\ \A a \in Accounts : ledger[a] = Opening[a]
        /\ ledger[Cash] = - total /\ ledger[Settlement] = 0
        /\ \A x \in LedgerAccounts : ledger[x] \in Int
    <2> HIDE DEF total
    <2> QED
      BY <1>1, <1>2, SystemAccountsAssumption DEF LedgerAccounts
  <1>4. Total(ledger, Accounts) = total
    BY <1>3, FiniteAssumption, TotalOfEqual
  <1>5. Total(ledger, rest) = Total(ledger, Accounts) + ledger[Settlement]
    BY <1>3, FiniteAssumption, SystemAccountsAssumption, TotalAdd DEF LedgerAccounts
  <1>6. Total(ledger, rest \cup {Cash}) = Total(ledger, rest) + ledger[Cash]
    <2>1. IsFiniteSet(rest) /\ Cash \notin rest
      BY FiniteAssumption, FS_AddElement, SystemAccountsAssumption
    <2>2. \A x \in rest \cup {Cash} : ledger[x] \in Int
      BY <1>3 DEF LedgerAccounts
    <2> HIDE DEF rest
    <2> QED
      BY <2>1, <2>2, TotalAdd
  <1>7. LedgerAccounts = rest \cup {Cash}
    BY DEF LedgerAccounts
  <1>8. Total(ledger, LedgerAccounts) = Total(ledger, rest) + ledger[Cash]
    BY <1>6, <1>7, Zenon
  <1> HIDE DEF total, rest
  <1> QED
    BY <1>2, <1>3, <1>4, <1>5, <1>8 DEF LedgerNetsToZero

\* Debits equal credits over the whole ledger after any number of fundings, debits,
\* transfers, reversals, repairs and failures between any accounts.
THEOREM LedgerAlwaysNets == Spec => []LedgerNetsToZero
  <1>1. LockInvariant /\ LedgerNetsToZero /\ [Next]_vars => LedgerNetsToZero'
    <2> SUFFICES ASSUME LockInvariant, LedgerNetsToZero,
                        NEW d \in LedgerAccounts, NEW c \in LedgerAccounts, NEW n \in Int,
                        d # c, ledger' = [ledger EXCEPT ![d] = @ - n, ![c] = @ + n]
                 PROVE  LedgerNetsToZero'
      BY LedgerStep DEF LedgerNetsToZero
    <2> DEFINE f == [ledger EXCEPT ![d] = @ - n]
               g == ledger'
    <2>1. \A x \in LedgerAccounts : ledger[x] \in Int
      BY DEF LockInvariant, TypeOK
    <2>2. /\ \A x \in LedgerAccounts : f[x] = IF x = d THEN ledger[d] - n ELSE ledger[x]
          /\ \A x \in LedgerAccounts : g[x] = IF x = c THEN f[c] + n ELSE f[x]
      BY DEF LockInvariant, TypeOK
    <2> HIDE DEF f, g
    <2>3. \A x \in LedgerAccounts : f[x] \in Int /\ g[x] \in Int
      <3>1. \A x \in LedgerAccounts : f[x] \in Int
        BY <2>1, <2>2
      <3> QED
        BY <2>2, <3>1
    <2>4. Total(f, LedgerAccounts) = Total(ledger, LedgerAccounts) - ledger[d] + f[d]
      BY <2>1, <2>2, <2>3, LedgerAccountsFinite, TotalOfChanged
    <2>5. Total(g, LedgerAccounts) = Total(f, LedgerAccounts) - f[c] + g[c]
      BY <2>2, <2>3, LedgerAccountsFinite, TotalOfChanged
    <2> QED
      <3>1. Total(ledger, LedgerAccounts) = 0
        BY DEF LedgerNetsToZero
      <3>2. Total(g, LedgerAccounts) = 0
        BY <2>1, <2>2, <2>3, <2>4, <2>5, <3>1
      <3> QED
        BY <3>2 DEF LedgerNetsToZero, g
  <1> QED
    BY <1>1, InitNetsToZero, LockInvariantHolds, PTL DEF Spec

-----------------------------------------------------------------------------
(* Records.                                                                *)

\* A movement adds its amount to the sum of the side it belongs to.
LEMMA SumWithNewRecord ==
  ASSUME LockInvariant, IsFiniteSet(Posted), NEW r \in Requests, r \notin Posted,
         NEW S \in SUBSET Posted, NEW here \in BOOLEAN
  PROVE  /\ Total(Amounts, S) \in Int
         /\ Total(Amounts, IF here THEN S \cup {r} ELSE S)
              = Total(Amounts, S) + (IF here THEN AmountOf(r) ELSE 0)
  <1>1. IsFiniteSet(S) /\ r \notin S /\ S \subseteq Requests
    BY FS_Subset DEF Posted
  <1>2. \A s \in Requests : Amounts[s] = AmountOf(s) /\ AmountOf(s) \in Int
    BY InputFacts, TouchedFacts DEF LockInvariant, Amounts, AmountOf, Input
  <1>3. Total(Amounts, S) \in Int
    BY <1>1, <1>2, TotalType
  <1>4. Total(Amounts, S \cup {r}) = Total(Amounts, S) + AmountOf(r)
    BY <1>1, <1>2, TotalAdd
  <1> QED
    BY <1>3, <1>4

\* The commit of a movement keeps balances and records together.
LEMMA MovesExplained ==
  ASSUME LockInvariant, RecordsInvariant, NEW r \in Requests, Moves(r), Shape(r), req' = req
  PROVE  RecordsInvariant'
  <1> DEFINE d == DebitSide(r)
             c == CreditSide(r)
             n == AmountOf(r)
             In(a) == {s \in Posted : CreditSide(s) = a}
             Out(a) == {s \in Posted : DebitSide(s) = a}
  <1>1. r \notin Posted /\ Posted' = Posted \cup {r}
    BY ShapeRecords DEF Moves, LockInvariant, RecordsComeLast
  <1>2. IsFiniteSet(Posted)'
    BY <1>1, FS_AddElement DEF RecordsInvariant
  <1>3. \A s \in Requests : CreditSide(s)' = CreditSide(s) /\ DebitSide(s)' = DebitSide(s)
    BY DEF CreditSide, DebitSide, Counterparty
  <1>4. Amounts' = Amounts
    BY DEF Amounts, AmountOf, Subject
  <1>5. ASSUME NEW a \in Accounts
        PROVE  balance'[a] = balance[a] + (IF c = a THEN n ELSE 0) - (IF d = a THEN n ELSE 0)
    <2>1. a \in {d, c} => seen[r][a] = balance[a]
      BY HeldRowsAreCurrent DEF Moves
    <2>2. balance'[a] = CASE a = d -> seen[r][a] - n [] a = c -> seen[r][a] + n
                          [] OTHER -> balance[a]
      BY DEF Moves, MoveMoney, UpdateBalances
    <2>3. d # c /\ n \in Int /\ balance[a] \in Int
      BY DEF Moves, LockInvariant, TypeOK
    <2> HIDE DEF d, c, n
    <2> QED
      BY <2>1, <2>2, <2>3
  <1>6. ASSUME NEW a \in Accounts
        PROVE  balance'[a] = Opening[a] + Total(Amounts, In(a)') - Total(Amounts, Out(a)')
    <2>1. /\ In(a)' = IF c = a THEN In(a) \cup {r} ELSE In(a)
          /\ Out(a)' = IF d = a THEN Out(a) \cup {r} ELSE Out(a)
      BY <1>1, <1>3 DEF Posted
    <2>2. In(a) \in SUBSET Posted /\ Out(a) \in SUBSET Posted
      OBVIOUS
    <2>3. balance[a] = Opening[a] + Total(Amounts, In(a)) - Total(Amounts, Out(a))
      BY DEF RecordsInvariant, RecordsExplainBalances
    <2> HIDE DEF In, Out, d, c, n
    <2>4. /\ Total(Amounts, In(a)) \in Int /\ Total(Amounts, Out(a)) \in Int
          /\ Total(Amounts, IF c = a THEN In(a) \cup {r} ELSE In(a))
               = Total(Amounts, In(a)) + (IF c = a THEN n ELSE 0)
          /\ Total(Amounts, IF d = a THEN Out(a) \cup {r} ELSE Out(a))
               = Total(Amounts, Out(a)) + (IF d = a THEN n ELSE 0)
      BY <1>1, <2>2, SumWithNewRecord DEF RecordsInvariant, n
    <2>5. /\ Total(Amounts, In(a)') = Total(Amounts, In(a)) + (IF c = a THEN n ELSE 0)
          /\ Total(Amounts, Out(a)') = Total(Amounts, Out(a)) + (IF d = a THEN n ELSE 0)
      BY <2>1, <2>4, Zenon
    <2>6. n \in Int /\ Opening[a] \in Int
      BY OpeningAssumption DEF Moves, n
    <2> QED
      BY <1>5, <2>3, <2>4, <2>5, <2>6
  <1> QED
    BY <1>2, <1>4, <1>6 DEF RecordsInvariant, RecordsExplainBalances

\* Each balance is the opening balance, plus what COMPLETED records credited to it, less
\* what they debited: no record without its movement, no movement without a record.
THEOREM RecordsExplain == Spec => []RecordsExplainBalances
  <1>1. Init => RecordsInvariant
    <2> SUFFICES ASSUME Init PROVE RecordsInvariant
      OBVIOUS
    <2>1. Posted = {} /\ balance = Opening
      BY DEF Init, OpenAccounts, Posted
    <2>2. \A a \in Accounts :
            {r \in Posted : CreditSide(r) = a} = {} /\ {r \in Posted : DebitSide(r) = a} = {}
      BY <2>1
    <2>3. Total(Amounts, {}) = 0
      BY TotalOfNone
    <2>4. \A a \in Accounts : Opening[a] \in Int
      BY OpeningAssumption
    <2>5. \A a \in Accounts : /\ Total(Amounts, {r \in Posted : CreditSide(r) = a}) = 0
                              /\ Total(Amounts, {r \in Posted : DebitSide(r) = a}) = 0
      BY <2>2, <2>3, Zenon
    <2> QED
      BY <2>1, <2>4, <2>5, FS_EmptySet DEF RecordsInvariant, RecordsExplainBalances
  <1>2. LockInvariant /\ CacheMatchesLedger /\ RecordsInvariant /\ [Next]_vars
          => RecordsInvariant'
    <2> SUFFICES ASSUME LockInvariant, CacheMatchesLedger, RecordsInvariant, [Next]_vars
                 PROVE  RecordsInvariant'
      OBVIOUS
    <2>1. req' = req
      BY InputsStay
    <2>2. CASE Posted' = Posted /\ \A a \in Accounts : balance'[a] = balance[a]
      <3>1. \A s \in Requests : CreditSide(s)' = CreditSide(s) /\ DebitSide(s)' = DebitSide(s)
        BY <2>1 DEF CreditSide, DebitSide, Counterparty
      <3>2. Amounts' = Amounts
        BY <2>1 DEF Amounts, AmountOf, Subject
      <3>3. \A a \in Accounts :
              /\ {s \in Posted : CreditSide(s) = a}' = {s \in Posted : CreditSide(s) = a}
              /\ {s \in Posted : DebitSide(s) = a}' = {s \in Posted : DebitSide(s) = a}
        BY <2>2, <3>1 DEF Posted
      <3> QED
        BY <2>2, <3>2, <3>3 DEF RecordsInvariant, RecordsExplainBalances
    <2>3. ASSUME NEW r \in Requests, Shape(r)
          PROVE  RecordsInvariant'
      <3>1. CASE Moves(r)
        BY <2>1, <2>3, <3>1, MovesExplained
      <3>2. CASE Repairs(r)
        BY <2>2, <3>2, RepairsTheCache DEF CacheMatchesLedger, Repairs
      <3>3. CASE ~Moves(r) /\ ~Repairs(r)
        BY <2>2, <2>3, <3>3, ShapeRecords DEF Shape, Quiet, Ends, LockAccountRow, SumLedger, rows
      <3> QED
        BY <3>1, <3>2, <3>3
    <2>4. CASE UNCHANGED vars
      BY <2>2, <2>4 DEF vars, Posted
    <2> QED
      BY <2>3, <2>4, StepShape DEF Next, Finished
  <1>3. RecordsInvariant => RecordsExplainBalances
    BY DEF RecordsInvariant
  <1> QED
    BY <1>1, <1>2, <1>3, LockInvariantHolds, CacheCorrect, PTL DEF Spec
=============================================================================
