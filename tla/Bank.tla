-------------------------------- MODULE Bank --------------------------------
(***************************************************************************)
(* The money services and the account lifecycle running side by side on    *)
(* one database, and what they promise together.                           *)
(***************************************************************************)
EXTENDS Funding, Transfers, AccountLifecycle, Totals

CONSTANTS
  StartStatus,   \* statuses accounts may have at the start
  Drifts         \* differences of cache and ledger DriftedInit starts from

ASSUME StartStatusAssumption == StartStatus \subseteq AccountStatus \ {"CLOSED"}
ASSUME DriftsAssumption == Drifts \subseteq Int
ASSUME FiniteAssumption == IsFiniteSet(Accounts)

\* creditOpeningBalance has posted every opening balance against the cash account.
OpenAccounts(drifts) ==
  /\ status \in [Accounts -> StartStatus]
  /\ balance = Opening
  /\ \E d \in [Accounts -> drifts] :
       ledger = [x \in LedgerAccounts |->
                   IF x \in Accounts THEN Opening[x] + d[x]
                   ELSE IF x = Cash THEN - Total(Opening, Accounts)
                   ELSE 0]
  /\ txn = [r \in Requests |-> "none"]
  /\ transfer = [r \in Requests |-> "none"]
  /\ rowLock = [a \in Accounts |-> None]
  /\ req \in [Requests -> Inputs]
  /\ pc = [r \in Requests |-> "start"]
  /\ attempt = [r \in Requests |-> 0]
  /\ seen = [r \in Requests |-> [a \in Accounts |-> 0]]
  /\ result = [r \in Requests |-> "none"]

Init == OpenAccounts({0})

\* A cached balance somebody changed behind the application's back.
DriftedInit == OpenAccounts(Drifts)

\* What call r does when nothing fails underneath it.
Step(r) ==
  \/ FundingNext(r)
  \/ TransfersNext(r)
  \/ LifecycleNext(r)
  \/ LockAccountRow(r)

Finished == (\A r \in Requests : pc[r] = "done") /\ UNCHANGED vars

Next ==
  \/ \E r \in Requests : Step(r) \/ Abort(r)
  \/ Finished

Spec == Init /\ [][Next]_vars

\* Every call goes on as long as it can; nothing obliges the system to fail.
FairSpec == Spec /\ \A r \in Requests : WF_vars(Step(r))

DriftedSpec == DriftedInit /\ [][Next]_vars
-----------------------------------------------------------------------------
(* Cached balances, ledger and records.                                    *)

\* The ledger account a call debits, the one it credits, and how much.
DebitSide(r) ==
  CASE req[r].op = "fund"     -> Cash
    [] req[r].op = "reverse"  -> Counterparty(req[r].of)
    [] OTHER                  -> req[r].account

CreditSide(r) ==
  CASE req[r].op = "debit"    -> Cash
    [] req[r].op = "transfer" -> Counterparty(r)
    [] req[r].op = "reverse"  -> req[req[r].of].account
    [] OTHER                  -> req[r].account

AmountOf(r) == req[Subject(r)].amount
Amounts == [r \in Requests |-> AmountOf(r)]

\* Calls with a COMPLETED Transaction row, those that have moved money.
Posted == {r \in Requests : txn[r] = "COMPLETED"}

\* The cached balance equals the ledger sum at every commit: the update of the cache
\* from the value read under lockAccountRow never loses another call's movement.
CacheMatchesLedger == \A a \in Accounts : balance[a] = ledger[a]

\* No customer is overdrawn: the balance checks made under the locks suffice, and the
\* CHECK (balanceCents >= 0) constraint behind them is never what stops a call.
NoOverdraft == \A a \in Accounts : balance[a] >= 0

\* Debits equal credits over the whole ledger.
LedgerNetsToZero == Total(ledger, LedgerAccounts) = 0

\* Money enters and leaves an account through COMPLETED Transaction rows only, and
\* each of them is reflected in the balance exactly once, whatever retries, duplicate
\* calls, aborts and deadlock restarts came before it.
RecordsExplainBalances ==
  \A a \in Accounts :
    balance[a] = Opening[a]
                   + Total(Amounts, {r \in Posted : CreditSide(r) = a})
                   - Total(Amounts, {r \in Posted : DebitSide(r) = a})

\* The services implement the atomic bank: the commit of a money transaction is the
\* atomic movement, and every other step leaves balances and records alone.
Movement(r) ==
  [debit |-> DebitSide(r), credit |-> CreditSide(r), amount |-> AmountOf(r),
   key |-> req[r].key]

Atomic == INSTANCE AtomicBank WITH
            movement <- [r \in Requests |-> Movement(r)], applied <- Posted

ImplementsAtomicBank == Atomic!Spec

\* The difference between cache and ledger changes only when a repair makes it zero:
\* no movement adds to a drift it finds, and no repair racing a movement leaves one.
DriftIsOnlyRepaired ==
  [][\A a \in Accounts : balance'[a] - ledger'[a] \in {balance[a] - ledger[a], 0}]_vars

-----------------------------------------------------------------------------
(* Idempotency.                                                            *)

\* However many calls share a key and however they interleave, at most one moves money.
OneMovementPerKey ==
  \A r, s \in Posted : req[r].key = req[s].key /\ req[r].key # NoKey => r = s

\* docs/phase2.md:27 "a duplicate (sequential or concurrent, via P2002 catch) returns
\* the existing transaction": no call is refused for lack of funds once its key's
\* transaction has committed.
DuplicateIsNotRefused ==
  [][\A r \in Requests :
       TransactionKeyTaken(r) /\ result'[r] = "INSUFFICIENT_FUNDS"
         => result[r] = "INSUFFICIENT_FUNDS"]_vars

\* Two calls with one key that both succeed are given the same row.
SameKeySameAnswer ==
  \A r, s \in Requests :
    /\ {req[r].op, req[s].op} \subseteq FundingOps \cup {"transfer"}
    /\ req[r].key = req[s].key
    /\ req[r].key # NoKey
    /\ {result[r], result[s]} \subseteq Requests
    => result[r] = result[s]

\* A call answered with its own row has moved its money, and one that failed has not:
\* the rollback of a failed call leaves a FAILED record at most.
AnswerMatchesEffect ==
  \A r \in Requests :
    pc[r] = "done" /\ req[r].op \in FundingOps \cup {"transfer", "reverse"}
      => (result[r] = r <=> txn[r] = "COMPLETED")

-----------------------------------------------------------------------------
(* Transfers.                                                              *)

ReversalsOf(t) == {r \in Posted : req[r].op = "reverse" /\ req[r].of = t}

\* A transfer whose money was given back never reads COMPLETED again, and one that
\* reads REVERSED was given back: the status and the ledger tell the same story.
ReversalIsRecorded ==
  \A t \in Requests :
    /\ ReversalsOf(t) # {} => transfer[t] \in {"BLOCKED", "REVERSED"}
    /\ transfer[t] = "REVERSED" => ReversalsOf(t) # {}

\* transfer.service.ts:734 "A transfer can only be reversed once."
ReversedAtMostOnce == \A t \in Requests : Cardinality(ReversalsOf(t)) <= 1

\* docs/phase3.md:79, "Sum of completed/pending transfers per customer per day".
DailyLimitHolds == \A u \in Users : SentToday(u) <= DailyLimit

\* docs/phase7-account-lifecycle.md:40 "Closure requires zero balance."
ClosedAccountsAreEmpty == \A a \in Accounts : status[a] = "CLOSED" => balance[a] = 0

-----------------------------------------------------------------------------
(* Scheduling.                                                             *)

\* Calls that only lock rows in lockOrder never wait for each other in a circle.
LockOrderProtects == \A r \in Requests : ~OnWaitCycle({s \in Requests : ~IsTransfer(s)}, r)

\* README.md:34 "Deterministic lock ordering prevents deadlocks".
LockOrderPreventsDeadlock == \A r \in Requests : ~OnWaitCycle(Requests, r)

\* Every call is answered in the end: deadlocks are broken, restarts are bounded and
\* no lock is kept by a call that has finished.
EveryCallIsAnswered == \A r \in Requests : <>(pc[r] = "done")
=============================================================================
