------------------------------ MODULE Database ------------------------------
(***************************************************************************)
(* The PostgreSQL rows the bank's services share, the locks a money        *)
(* transaction takes on them, and the progress of every service call.      *)
(*                                                                         *)
(* A service call (a "request") validates in one database transaction and  *)
(* moves money in a second one.  Read Committed is in force: a statement   *)
(* sees what is committed when it starts.  The statements that only write  *)
(* are invisible to the others until the commit, so they are taken in one  *)
(* step with it; what IS visible earlier, the row locks and the claim of a *)
(* unique key, is taken when the statement that takes it runs.             *)
(***************************************************************************)
EXTENDS Integers, FiniteSets, FiniteSetsExt

CONSTANTS
  Accounts,     \* account ids; only their order matters, so they are numbers
  Users,        \* customers
  Owner,        \* the customer each account belongs to
  Requests,     \* service calls
  Inputs,       \* what a call may ask for
  Opening,      \* balance each account is opened with
  Keys,         \* idempotency keys
  NoKey,        \* no idempotency key was given
  Cash,         \* the ledger account BANK-CASH
  Settlement,   \* the ledger account EXT-SETTLE-<currency>
  Outside,      \* no counterparty account at this bank
  None,         \* no request
  DailyLimit,   \* DAILY_TRANSFER_LIMIT_CENTS
  MaxAmount,    \* MAX_TRANSFER_AMOUNT_CENTS
  MaxAttempts   \* money transactions one createTransfer may start

AccountStatus == {"ACTIVE", "FROZEN", "RECEIVE_ONLY", "CLOSED"}
TransferStatus == {"none", "COMPLETED", "FAILED", "BLOCKED", "REVERSED"}
TransactionStatus == {"none", "COMPLETED", "FAILED"}
Failures == {"REJECTED", "LIMIT", "INSUFFICIENT_FUNDS", "ERROR"}

FundingOps == {"fund", "debit"}
LifecycleOps == {"close", "freeze", "unfreeze", "setReceiveOnly", "unsetReceiveOnly"}
Ops == FundingOps \cup LifecycleOps \cup {"repair", "transfer", "block", "reverse"}

LedgerAccounts == Accounts \cup {Cash, Settlement}

(***************************************************************************)
(* What a call asks for: the account it names, the recipient of a transfer *)
(* (Outside for an international one), an amount, an idempotency key, and  *)
(* for block and reverse the call whose transfer is meant.                 *)
(***************************************************************************)
Input == [op : Ops, account : Accounts, to : Accounts \cup {Outside},
          amount : Nat \ {0}, key : Keys \cup {NoKey}, of : Requests \cup {None}]

ASSUME AccountsAssumption == Accounts \subseteq Nat
ASSUME OwnerAssumption == Owner \in [Accounts -> Users]
ASSUME OpeningAssumption == Opening \in [Accounts -> Nat]
ASSUME InputsAssumption ==
  \A i \in Inputs :
    /\ i \in Input
    /\ i.op = "transfer" => i.key # NoKey
    /\ i.op # "transfer" => i.to = Outside
    /\ i.op \notin FundingOps \cup {"transfer"} => i.key = NoKey
    /\ i.op \in {"block", "reverse"} => i.of \in Requests
ASSUME NoneAssumption == None \notin Requests
ASSUME AnswersAssumption == Requests \cap (Failures \cup {"none"}) = {}
ASSUME OutsideAssumption == Outside \notin Accounts
ASSUME SystemAccountsAssumption ==
  /\ Cash \notin Accounts
  /\ Settlement \notin Accounts
  /\ Cash # Settlement
ASSUME BoundsAssumption ==
  /\ DailyLimit \in Nat
  /\ MaxAmount \in Nat
  /\ MaxAttempts \in Nat \ {0}

VARIABLES
  status,    \* Account.status
  balance,   \* Account.balanceCents, the cached balance
  ledger,    \* per ledger account, credits less debits over its LedgerEntry rows
  txn,       \* status of the Transaction row a call inserted
  transfer,  \* status of the Transfer row a call inserted
  rowLock,   \* holder of an Account row's FOR UPDATE lock
  req,       \* what each call asks for
  pc,        \* where each call stands
  attempt,   \* deadlock retries a call has used
  seen,      \* balances a call read from the rows it locked
  result     \* the call whose row was returned, or a failure

rows == <<status, balance, ledger, txn, transfer>>
vars == <<status, balance, ledger, txn, transfer, rowLock, req, pc, attempt, seen, result>>

Steps == {"start", "begin", "insert", "share", "lock", "post", "write", "update",
          "reject", "catch", "done"}

\* Rows, locks and calls have the values the schema and the services give them, and no
\* transfer is restarted more often than createTransfer's loop allows.
TypeOK ==
  /\ status \in [Accounts -> AccountStatus]
  /\ balance \in [Accounts -> Int]
  /\ ledger \in [LedgerAccounts -> Int]
  /\ txn \in [Requests -> TransactionStatus]
  /\ transfer \in [Requests -> TransferStatus]
  /\ rowLock \in [Accounts -> Requests \cup {None}]
  /\ req \in [Requests -> Input]
  /\ pc \in [Requests -> Steps]
  /\ attempt \in [Requests -> 0 .. MaxAttempts - 1]
  /\ seen \in [Requests -> [Accounts -> Int]]
  /\ result \in [Requests -> Requests \cup Failures \cup {"none"}]

-----------------------------------------------------------------------------
(* Which rows a call is about.                                             *)

\* The call whose Transfer row call r works on.
Subject(r) == IF req[r].op = "reverse" THEN req[r].of ELSE r

\* The Account rows call r locks.
Touched(r) == {req[Subject(r)].account, req[Subject(r)].to} \cap Accounts

IsTransfer(r) == req[r].op = "transfer"

\* Transaction.idempotencyKey is unique; NULLs, and so failed rows and reversals, are not.
\* Mutant: debits are stored without their key.
HasTransaction_NotForDebits(r, k) ==
  k # NoKey /\ txn[r] = "COMPLETED" /\ req[r].op \in {"fund", "transfer"} /\ req[r].key = k

HasTransaction(r, k) ==
  /\ k # NoKey
  /\ txn[r] = "COMPLETED"
  /\ req[r].op \in FundingOps \cup {"transfer"}
  /\ req[r].key = k

\* Mutant: neither a lookup nor a unique index.
TransactionKeyTaken_Never(r) == FALSE

TransactionKeyTaken(r) == \E s \in Requests : HasTransaction(s, req[r].key)

\* Transfer.idempotencyKey is unique as well, in its own table.
HasTransfer(r, k) ==
  /\ transfer[r] \notin {"none", "FAILED"}
  /\ req[r].key = k

-----------------------------------------------------------------------------
(* Row locks.  INSERT INTO "Transfer" takes FOR KEY SHARE on the two       *)
(* accounts its foreign keys name, the sender's first; it conflicts with   *)
(* FOR UPDATE only.                                                        *)

KeySharers(a) ==
  {r \in Requests :
     /\ IsTransfer(r)
     /\ \/ pc[r] = "share" /\ a = req[r].account
        \/ pc[r] \in {"lock", "post"} /\ a \in Touched(r)}

MayShare(r, a) == rowLock[a] \in {None, r}

\* Mutant: a plain SELECT, without FOR UPDATE.
MayLock_PlainSelect(r, a) == TRUE

MayLock(r, a) == MayShare(r, a) /\ KeySharers(a) \subseteq {r}

\* A Transfer row inserted but not committed still claims its key.
Claims(r, k) == IsTransfer(r) /\ pc[r] \in {"share", "lock", "post"} /\ req[r].key = k

\* lockOrder: the smallest account id not locked yet comes next.
ToLock(r) == {a \in Touched(r) : rowLock[a] # r}

\* Mutant: the account the money moves from comes first.
NextToLock_DebitedFirst(r) ==
  LET t == Subject(r)
      first == IF req[r].op = "reverse" THEN req[t].to ELSE req[t].account
  IN IF first \in ToLock(r) THEN first ELSE CHOOSE a \in ToLock(r) : TRUE

NextToLock(r) == CHOOSE a \in ToLock(r) : \A b \in ToLock(r) : a <= b

Released(r) == [a \in Accounts |-> IF rowLock[a] = r THEN None ELSE rowLock[a]]
Forgotten(r) == [seen EXCEPT ![r] = [a \in Accounts |-> 0]]

-----------------------------------------------------------------------------
(* Building blocks of the services' steps.                                 *)

Goto(r, step) == pc' = [pc EXCEPT ![r] = step]

\* The call ends with an answer and no database change.
Answer(r, res) ==
  /\ Goto(r, "done")
  /\ result' = [result EXCEPT ![r] = res]

\* The money transaction ends, committed or rolled back: its locks are gone.
EndTransaction(r) ==
  /\ rowLock' = Released(r)
  /\ seen' = Forgotten(r)

\* Mutant: the failed transaction is left open.
Rollback_LeftOpen(r, step, res) ==
  /\ Goto(r, step)
  /\ result' = [result EXCEPT ![r] = res]
  /\ UNCHANGED <<rows, rowLock, seen, req, attempt>>

Rollback(r, step, res) ==
  /\ EndTransaction(r)
  /\ Goto(r, step)
  /\ result' = [result EXCEPT ![r] = res]
  /\ UNCHANGED <<rows, req, attempt>>

Commit(r) ==
  /\ EndTransaction(r)
  /\ Answer(r, r)
  /\ UNCHANGED <<req, attempt>>

\* Mutant: one unit more than there is may be taken.
InsufficientFunds_OffByOne(r, a, n) == seen[r][a] < n - 1

\* The balance read under the lock does not cover amount n.
InsufficientFunds(r, a, n) == seen[r][a] < n

\* Mutant: only the CREDIT entry is posted.
PostLedgerTransaction_OneEntry(debit, credit, n) ==
  ledger' = [ledger EXCEPT ![credit] = @ + n]

\* postLedgerTransaction, one DEBIT entry and one CREDIT entry of amount n.
PostLedgerTransaction(debit, credit, n) ==
  ledger' = [ledger EXCEPT ![debit] = @ - n, ![credit] = @ + n]

\* Mutant: the credited account is forgotten.
UpdateBalances_DebitOnly(r, debit, credit, n) ==
  balance' = [a \in Accounts |-> IF a = debit THEN seen[r][a] - n ELSE balance[a]]

\* The cached balances are written from the values read under the lock.
UpdateBalances(r, debit, credit, n) ==
  balance' = [a \in Accounts |->
                CASE a = debit  -> seen[r][a] - n
                  [] a = credit -> seen[r][a] + n
                  [] OTHER      -> balance[a]]

MoveMoney(r, debit, credit, n) ==
  /\ PostLedgerTransaction(debit, credit, n)
  /\ UpdateBalances(r, debit, credit, n)
  /\ txn' = [txn EXCEPT ![r] = "COMPLETED"]

-----------------------------------------------------------------------------
(* Steps every money transaction shares.                                   *)

\* lockAccountRow: SELECT ... FOR UPDATE, which returns the balance it read.
LockAccountRow(r) ==
  /\ pc[r] = "lock"
  /\ LET a == NextToLock(r) IN
       /\ MayLock(r, a)
       /\ rowLock' = [rowLock EXCEPT ![a] = r]
       /\ seen' = [seen EXCEPT ![r][a] = balance[a]]
       /\ Goto(r, IF ToLock(r) = {a} THEN "post" ELSE "lock")
  /\ UNCHANGED <<rows, req, attempt, result>>

\* The server dies, the connection drops or the transaction times out.
Abort(r) ==
  /\ pc[r] \notin {"start", "done"}
  /\ Rollback(r, "done", IF result[r] = "none" THEN "ERROR" ELSE result[r])

\* The calls that keep call r waiting for a row or for a unique key.
WaitsFor(r) ==
  CASE pc[r] = "lock" ->
         LET a == NextToLock(r) IN ({rowLock[a]} \cup KeySharers(a)) \ {None, r}
    [] pc[r] = "insert" ->
         ({rowLock[req[r].account]} \ {None}) \cup {s \in Requests : Claims(s, req[r].key)}
    [] pc[r] = "share" -> {rowLock[req[r].to]} \ {None}
    [] OTHER -> {}

\* Call r waits, through a chain of calls of S, for itself.
OnWaitCycle(S, r) ==
  LET waiting == {s \in S : WaitsFor(s) # {}} IN
  \E n \in 2 .. Cardinality(waiting) :
    \E p \in [1 .. n -> waiting] :
      /\ p[1] = r
      /\ \A i \in 1 .. n : p[(i % n) + 1] \in WaitsFor(p[i])
=============================================================================
