# Inland Green Bank in TLA+

A TLA+ model of the bank's money services, of its readers, of the registry of people and
accounts, and of the browsers in front of them (`src/src/lib`, `src/src/app`), checked
with TLC on small instances, with theorems proved by TLAPS for all instances. Paths below
are relative to the repository's checkout, `src/`; `TR` stands for
`src/src/lib/ledger/transfer.service.ts`, `FUN` for `src/src/lib/ledger/funding.service.ts`
and `STM` for `src/src/lib/ledger/statement.service.ts`.

## 1. The system

A Next.js application on one PostgreSQL database. Pages call route handlers; a handler
validates a request and calls a service; a service runs one or more interactive Prisma
transactions (Read Committed). Services never call each other: they meet in the rows they
share. Several server processes may run them at once, over one pool of connections each.

| Component | State | Operations | What makes it hard / correct | Module |
|---|---|---|---|---|
| Ledger posting, row locks (`ledger/ledger.service.ts`) | `LedgerAccount`, `LedgerTransaction`, `LedgerEntry`, `Account` locks | `postLedgerTransaction`, `getLedgerAccountBalance`, `lockAccountRow`, `ensure*` | debits equal credits; a lock makes read-then-write of the cached balance atomic; find-or-create of system accounts races | `Database`, `Onboarding` |
| Transaction records (`transactions/transaction.service.ts`) | `Transaction` (unique `idempotencyKey`) | create, find by key, `isUniqueViolation`, `isDeadlock` | one movement per key across funding and transfers; failed rows leave the key free | `Database` |
| Funding and debits (`ledger/funding.service.ts`) | `Account`, `Transaction`, ledger | `fundAccount`, `debitAccount`, `recordFailedAttempt` | two transactions per call; key check before the lock; concurrent duplicates | `Funding` |
| Transfers (`ledger/transfer.service.ts`, `transfer.config.ts`) | `Transfer`, plus the above | `createTransfer`, `blockTransfer`, `reverseTransfer` | check and write in different transactions; foreign-key locks before ordered locks; deadlock restarts; daily limit | `Transfers` |
| Transfer state machine (`transfers/state.ts`) | – | `canTransition` | REVERSED is final; a status and the ledger must tell one story | `Transfers` |
| Account lifecycle (`accounts/account.service.ts`, `accounts/state.ts`) | `Account.status` | create, close, freeze, unfreeze, setReceiveOnly, unsetReceiveOnly, rename | two transactions each, no lock: closing races movements and other status changes; ten-account limit | `AccountLifecycle`, `Onboarding`, `Desk` |
| Balance repair (`ledger/reconciliation.service.ts`) | `Account.balanceCents` | `repairAccountBalance` | must not write back a stale sum | `Funding` |
| Reconciliation report (same file) | reads only | `runFullReconciliation`, `reconcileSingleAccount` | several Read Committed statements beside writers | `Reports` |
| Statements, history (`ledger/statement.service.ts`, the statement route) | reads only, one audit row | `getTransactionHistory`, `generateStatement` | two clocks, a page cursor, sign rules, failed rows, running balances | `Reports` |
| Customer creation (`admin/customer.service.ts`) | `User`, `Account`, ledger | `createCustomerWithAccounts`, `creditOpeningBalance` | looked up, then inserted: names and numbers collide | `Onboarding`, `Bank` (opening balances) |
| RLS, pool (`rls.ts`, `prisma.ts`) | per-transaction role, connections | `setRlsContext`, `withRls` | nested transactions need a second connection | `Registry` (pool) |
| Audit (`audit.ts`) | `AuditLog` | `recordAudit` | in the transaction of what it records, or after it | `People`, `Onboarding`, `Reports` |
| Rate limit (`rate-limit.ts`) | counters in memory | `rateLimit` | fixed window, one bucket for endpoints with different limits | `RateLimit` |
| Sessions, tokens (`session.ts`, `auth.ts`, `jwt.ts`) | cookies; password and answer columns | `authenticate`, `verifySecurityAnswer`, `requireUser`, `requireAdmin` | a secret is compared in one transaction and used in another | `People`, `Office` |
| Authentication routes (`api/auth`) | `User` | login, sign-up, reset | same | `People`, `Onboarding` |
| Settings routes (`api/user`) | `User` | profile, security, password, avatar | check, update and audit row apart | `People` |
| FX, money, references (`fx.config.ts`, `money.ts`, `references.ts`) | – | conversion, parsing, check digits | rounding, boundaries, typing errors | `Conversions` |
| Transfer form (`dashboard/transfer/transfer-form.tsx`) | fields, the recipient shown, what is under way | typing, checking an IBAN, preview, submit | answers arrive late, in another order, or never | `TransferForm` |
| Forms of the account and transfer pages (`admin/accounts/[id]`, `admin/transfers/[id]`, `dashboard/accounts/[id]`) | what the page showed when it was made | fund, debit, freeze, block, reverse, rename, close, open | calls from stale pages; a new key per press | `Desk` |
| API routes, validation (`api/**`, `ledger.validation.ts`) | – | limit, authorise, call | – | `Front`, `Office`, `Reports` |
| Other pages, display helpers (`display.ts`, `nav.ts`, ...) | – | rendering | – | – |

`PROJECT.json` lists each with what is modelled, and under `hazards` every place of this
code that is hard to test.

## 2. Modules

```
Totals                           sums over sets of rows, for Bank and Reports
AtomicBank                       what the money services promise
Database                         rows, row locks, keys, commits, deadlocks
  Funding      EXTENDS Database  fundAccount, debitAccount, repairAccountBalance
  Transfers    EXTENDS Database  createTransfer, blockTransfer, reverseTransfer
  AccountLifecycle  EXTENDS Database  status changes
Bank           EXTENDS the three Init, Next, fairness, the properties; refines AtomicBank

Reports        INSTANCE AtomicBank  the report, statements, histories beside the bank

Registry                         users, accounts, audit log, pool of connections
  People       EXTENDS Registry  sign-in, reset, password, profile, answer, picture
  Onboarding   EXTENDS Registry  sign-up, customers, accounts, first use of rows of the bank
Office         EXTENDS both      who may call what, Next, fairness, the properties

Conversions                      amounts, currencies, account numbers, IBANs: functions
  TransferForm EXTENDS Conversions  the customer's form and its network
RateLimit                        one address' bucket
Desk                             an account's pages and the services behind them
Front          EXTENDS TransferForm, RateLimit, Desk   routes, Next, fairness, the properties
```

Four systems, then: `Bank`, `Reports`, `Office` and `Front`. Each `X` of them has `XInvariant` (the
inductive invariant, in named parts), `MCX` (instances) and `XProofs` (theorems). Four more modules
hold proofs: `BankRecordsProofs` (answers, order of locks and sums, on top of `BankProofs`),
`ReaderProofs` (statements and histories, on top of `ReportsProofs`) and the theories they and
`FrontProofs` rest on, `TotalsProofs` (sums) and `ConversionsProofs` (rounding, division by 97). The
systems share the code they model at one seam each: `Reports` takes the money services as
`AtomicBank`, which `Bank` is shown to implement; `Front` lets a service refuse where `Bank`
decides; `Desk` has one account and commits whole writes, as `Bank` shows they may be seen; `Office`
has the rows `Bank` takes as given.

### Bank: the money services

| Variable | In the code |
|---|---|
| `status`, `balance` | `Account.status`, `Account.balanceCents` |
| `ledger` | per ledger account, CREDIT less DEBIT entries (`getLedgerAccountBalance`); `Cash` is `BANK-CASH`, `Settlement` the external settlement account |
| `txn`, `transfer` | status of the `Transaction` / `Transfer` row a call inserted; sender, recipient, amount and key of the row are those of the call, so `req` completes it |
| `rowLock` | holder of the `FOR UPDATE` lock of an `Account` row |
| `req` | arguments of every call, chosen when a behaviour starts |
| `pc`, `attempt`, `seen`, `result` | position in the service, deadlock restarts used, balances read under locks, answer |

A *call* is one invocation of a service function. A client that repeats a request, or
loses the answer and retries, is a second call with the same key.

**Grain.** The grain is what other transactions can see. A validation transaction only reads and is
one step (the checks of one call read few rows, in one order). A money transaction takes
one step per point at which it may wait or at which something it did becomes visible to
others before the commit: the key check, the insert that claims a `Transfer` key and
share-locks rows, each `FOR UPDATE`, the ledger sum of a repair. The remaining statements
write rows nobody can see until the commit, and form one step with it.

* **Row locks.** `lockAccountRow` waits for other `FOR UPDATE` holders and for `FOR KEY
  SHARE` holders. `INSERT INTO "Transfer"` takes `FOR KEY SHARE` on the two rows its
  foreign keys name, sender first (`KeySharers`, `ShareRecipient`). A status `UPDATE` and
  the insert of a failed record wait for `FOR UPDATE` holders only (`MayShare`). All locks
  go at commit or rollback (`EndTransaction`).
* **Unique keys.** An uncommitted `Transfer` row claims its key (`Claims`): another insert
  with it waits, then either proceeds or fails with P2002. `Transaction` keys are inserted
  last, so their conflict is seen when the commit step runs.
* **Deadlocks.** `DeadlockAbort` is PostgreSQL's detector: it may abort any call on a cycle
  of waits. `createTransfer` restarts at most twice; whether `isDeadlock` recognises
  the error depends on the code the driver reports (40P01, or Prisma's P2034 / P2010), so
  both outcomes are possible.
* **Failures.** `Abort` is a crash, a lost connection or a transaction timeout at any point
  of a call; it rolls back the transaction in progress.

| Action | Code |
|---|---|
| `ValidateFunding`, `CheckFundingKey`, `FundAccount`, `DebitAccount`, `ReturnExistingTransaction`, `RecordFailedAttempt` | `FUN`:43-301 |
| `StartRepair`, `SumLedger`, `RepairAccountBalance` | `reconciliation.service.ts`:308-344 |
| `ValidateTransfer`, `RecordFailedOutgoingTransfer` | `TR`:117-252, 472-528 |
| `CheckTransferKey`, `InsertTransfer`, `ShareRecipient`, `LockAccountRow`, `CreateTransfer`, `ReturnExistingTransfer`, `DeadlockAbort` | `TR`:254-463 |
| `ValidateBlock`, `BlockTransfer` | `TR`:683-724 |
| `ValidateReverse`, `LockAccountRow`, `ReverseTransfer` | `TR`:736-898 |
| `CheckStatus`, `UpdateStatus` | `account.service.ts`:98-263 |

`markTransferFailed` (`TR`:332) has no action: the error thrown on the next line rolls its
writes back.

Abstractions:

* One currency and one day: `CURRENCY_MISMATCH` and the date in `checkDailyLimit` do not
  occur. Users are active customers; no code of the repository changes a user's status or role.
* Accounts have their customer ledger account, and `BANK-CASH` and the settlement account
  exist. `ensureBankLedger` runs in a transaction before the money's; the settlement
  account's first use is `PayAbroad` of `Onboarding`.
* An account id is a number, because `lockOrder` compares ids; nothing else does.
* Amounts are positive: `parseAmountToCents` refuses others before a service is called.
* Transfers PENDING, PROCESSING and CANCELLED are never committed by this code.
* References, descriptions and audit rows are left out: they are written in the
  transaction whose commit is modelled.

### Reports: the readers of the books

| Variable | In the code |
|---|---|
| `movement`, `applied`, `balance` | `AtomicBank`'s: what each call moves, which have, the cached balances |
| `opened` | what the ledger held of each account at first; it differs from `balance` where the cache drifted |
| `failed` | calls that left a FAILED `Transaction` row |
| `clock`, `ledgerAt`, `rowAt` | the database client's clock, `createdAt` of the ledger transaction and of the `Transaction` row |
| `reversedBy` | `Transfer.reversalReference`: room for one |
| `report`, `reader` | local variables of `runFullReconciliation`, and of a statement or history with its pages; a behaviour has one of them, since readers do not see each other |
| `audit` | audit rows of the reader |

Writers are whole commits (`Commit`, `RecordFailure`, `Repair`), which `Bank` shows the services
to be. `Stamp` dates the two rows of a commit: both stamps are taken while the transaction runs,
the ledger's first, so either may be one unit older than the commit. A reader takes one step per
query: `RunFullReconciliation` or `ReconcileSingleAccount` reads the cached balances,
`SumLedgerOf` one ledger sum each, `List*` the remaining anomalies
(`reconciliation.service.ts`:76-283); `Ask` checks owner and period, then `ReadStatementRows` or
`ReadHistoryPage`, `ReadTransfers`, `ReadOpeningBalance` (`STM`:134-452), `TurnPage` with the
cursor, `AuditStatement` and `AnswerStatement` (the statement route). `ReaderFails` is an error
at any of them. `Disturbed` remembers which accounts changed while a reader was reading: it is
what the properties are about.

### Office: the registry at work

| Variable | In the code |
|---|---|
| `req` | the bodies and sessions of the calls |
| `pc`, `held`, `answer` | the next transaction of a route, the connections it holds, its answer |
| `user`, `account`, `settlement` | rows of `User` and `Account`, and the settlement account with who made it |
| `audit` | calls the audit log tells of |
| `found`, `picked`, `sawSettlement` | what a call read and uses in a later statement |
| `committed`, `met`, `proved` | history: which calls committed, which were in flight together, whose secret was right at some moment of the call |

A route is a chain of transactions: `check`, `write`, `audit` (or `record`, inside another).
Each is a step that needs its connections (`Connect`; two for the nested `record`, `TR`:146),
can give up waiting for one (`GiveUpWaiting`, Prisma's `maxWait`) and can be lost with its
transaction (`Fail`). A step that writes is its commit. Of two transactions that insert one
unique value the second to commit is refused (`TAKEN`), which is what PostgreSQL's wait for the
first comes to. `People` has the calls on one user row (sign-in, reset, profile, security,
password, avatar), `Onboarding` those that insert (administrator sign-up, customers with
accounts, accounts) and two things a transfer does here: the settlement account's first use and
the FAILED row of a blocked sender. Profiles may set the username, clear it (the form sends
`null` for an empty one, `profile-settings.tsx`:96) or leave it; which names are usernames is
the constant `Usernames`, since the schemas allow no `@` in one and ask for it in an e-mail.

### Front: browsers, network, routes, limiter

| Variable | In the code |
|---|---|
| `plan` | what the user of this behaviour means to do: the bound of the instance |
| `form`, `edits`, `checks`, `attempts`, `intention` | React state of `transfer-form.tsx`, recipient checks and submits under way, successes the user saw |
| `clock`, `bucket`, `log` | `Date.now()`, the address' entry of the map in `rate-limit.ts`, and (history) every limited request |
| `account`, `page`, `calls` | one account with a transfer out of it; what each open page shows and which of its forms wait; the calls they made |
| `paid` | what `createTransfer` recorded for each attempt |

`TransferForm` has one action per handler (`TypeIban`, `SwitchType`, `TypeAmount`, `PickCurrency`,
`VerifyRecipient`, `Submit`) and the network: `AnswerCheck` applies a recipient's answer
whenever it comes, `Deliver` and `LoseAnswer` end an attempt. Amounts and IBANs are computed with
`Conversions`: `ParseAmountToCents`, `ConvertFx` and the check digits are functions over digits,
`CurrencyFromIban` is the whole table of countries (an unknown one leaves the form's currency as
it is), all exact where the code multiplies floats. For all six pairs of currencies and every amount
up to 10,000,000 cents `Math.round` of the float product was compared with `ConvertFx`, and
`parseFloat(s) * 100` with `ParseAmountToCents`: they agree.

`Desk` has one action per form (`FundForm` to `CreateAccountForm`), which offers what its page
shows; one per route (`Post*`, `PatchAccount` in `Front`), the service's first transaction; one
per second transaction (`FundAccount` to `CreateCustomerAccount`), which looks again at the
balance only; and the answer (`Hear*`, `Silence`). `met` of a call is history: the calls that
were between their two transactions together with it. Services may refuse at will here, since
whether they do is `Bank`'s.

## 3. Runs

Nine runs are of `MCBank`: two accounts of two customers with balances 2 and 1, two keys,
amounts 1 to 3, a daily limit of 3 and a transfer limit of 2. So one amount exceeds every limit,
one empties an account, and two transfers together exceed the daily limit. Calls are
interchangeable: the runs without liveness use symmetry over `Requests`.

| Run | Calls | Checks |
|---|---|---|
| `core` | 3 of every service | types, cache = ledger, no overdraft, ledger nets to zero, records explain balances, one movement and one answer per key, answer = effect, reversal recorded, refinement of `AtomicBank` |
| `reversals` | 4: opposite transfers, reversals, repair | calls that only lock in order never deadlock; records explain balances |
| `drift` | 3, from drifted caches | no overdraft, the inductive invariant, drift only repaired |
| `live` | 3 that wait for each other | every call is answered |
| `double_reversal` | 3 | *violated*: a transfer is reversed at most once (`TR`:734) |
| `close` | 2 | *violated*: closure requires zero balance (`docs/phase7-account-lifecycle.md:40`) |
| `deadlock` | 2 | *violated*: lock ordering prevents deadlocks (`README.md:34`) |
| `duplicate` | 2 | *violated*: a concurrent duplicate returns the existing transaction (`docs/phase2.md:27`) |
| `limit` | 3 | *violated*: the daily limit (`docs/phase3.md:79`) |

The other three are of the systems around it.

| Run | Instance | Checks |
|---|---|---|
| `reports` (`MCReports`, 2.4 million states) | 2 accounts, 3 calls in one of 5 histories, the ledger drifted or not, 4 instants, 8 queries, pages of one row | what the report says of accounts nobody disturbed is true (`QuietAccountsAreReportedTruly`); a statement and the first page of a history end at the ledger's balance unless one of the named causes applies (`StatementClosesAtLedger`, `HistoryEndsAtLedger`); pages list every row once (`PagesCoverEveryRow`); no document without its audit row (`DocumentsAreAudited`) |
| `office` (`MCOffice`, 121,564 states) | 3 calls in one of 13 scenarios, 2 connections, at most 2 accounts per customer | names find one person, the audit log tells what happened, the account limit holds but for calls in flight together, losers met their winner, tables hold what was committed, secrets were right, every call ends |
| `front` (`MCFront`, 620,851 states) | 10 plans, 3 payees whose numbers are one digit apart, 2 submits and 2 checks, a window of 2 units with limits 1 and 2, 3 presses on 2 pages | the payee is the one meant and was shown, the preview is recorded, nothing is done twice but after a silence, the limiter lets through at most twice the limit and refuses nobody early, a closed account stays closed and a transfer is reversed once unless calls overlapped, forms come back |

**Bounds.** In `Bank`, three calls are the fewest that show a duplicate beside a third party, a
reversal racing a block, and a deadlock with a bystander. Four in `reversals` allow
two reversals of two transfers. Two accounts suffice for cycles of waits, since a call
touches at most two. `MaxAttempts` is the code's 3 (2 in `live`, where it only scales the
number of restarts). `attempt` is the only counter and is bounded by the code itself.

In `Reports`, three calls allow a transfer with two reversals, or a reversal beside another
movement; `MaxTime` = 3 gives a period with instants before and after it and rows on both of its
edges; `MaxRange` = 2 makes one period too long; one row on a page makes every pair of rows a
page boundary. The readers stop when their answer is complete, so these runs stop: deadlock is
not checked. In `Office`, two connections are the fewest over which nested transactions can both
go on and block each other; three calls are two racing ones and one that uses what they did; the
scenarios pair every two calls that share a unique column, a row or a pool. In `Front`, `plan`
bounds what the user does (`MaxEdits`, `MaxChecks`, `MaxSubmits`, `MaxPresses`), and each plan
is one question: a slip of a digit between two IBANs, a change of mind about currency, a busy
address over one and a half windows, and for the pages the operations that can undo each other.
`Window` = 2 is the smallest window whose end lies apart from its start.

**Fairness.** `FairSpec` of `Bank` assumes weak fairness of `Step(r)` for every call: the server
runs each call whose next statement can run, PostgreSQL grants a lock that stays free, and its
detector breaks a deadlock that lasts (`DeadlockAbort` stays enabled until it happens). `Abort`
has no fairness: nothing obliges the system to fail. No fairness among waiters is assumed beyond
that; it is enough because each call takes finitely many steps. `Office` assumes weak fairness,
per call, of going on, of getting a free connection and of giving up when none is free
(`maxWait` is Prisma's); again nothing obliges `Fail`. `Front` assumes only that a request ends
for the browser: it gets the answer or, as every browser does in the end, gives up. Nothing is
assumed of the server or the user. `Reports` states no liveness.

**Findings.** Each violated run is a difference between the code and what its docs say, with the
counterexample TLC prints: check and write in separate transactions (`double_reversal`, `close`,
`limit`), the key check before the lock and the balance check before the unique insert
(`duplicate`), and the foreign-key locks before the ordered ones (`deadlock`). The last one is
harmless to data: the `live` run shows that every call is still answered. The
`ReversalIsRecorded` property shows what remains true of the first: money given back is never
unrecorded, though it may be given back twice; `ReversedOnceWithoutOverlap` and
`ClosedForGoodWithoutOverlap` of `front` show that both need calls that overlap.

What the properties had to say with care, because the code does not give more:

* A transfer retried after it went through is validated again, with itself counted against the daily
  limit, before its key is looked up; `docs/phase3.md:44` says it is returned immediately.
* A report may list a mismatch that never was, for an account that changed between its two
  queries.
* A statement's closing balance is off the ledger's when an entry and its row lie on different
  sides of the period's edge (two stamps of one movement), or when a transfer was reversed
  twice: `reversalReference` then names the second reversal and the first one's line becomes a
  debit. A history also counts FAILED rows as debits, and starts a page from a wrong balance
  when its first row shares its instant with the last row before.
* Rows that appear with an earlier stamp while somebody pages through a history are not listed.
* The JSON statement always answers 500, after its audit row: its `BigInt`s have no JSON form. So do
  the reconciliation report's routes.
* `generateStatement` itself checks no period, though `docs/phase5` puts the check on both
  levels; the route does.
* Profile, password and security routes audit in a transaction of their own, against
  the comment of `recordAudit`: a crash in between leaves a change the log is silent about.
* An administrator who signs up with capitals in the e-mail address cannot sign in with it: it
  is stored as typed and looked up in lower case. The sign-up writes no audit row and makes no
  ledger account.
* Two password changes with one old password can both succeed.
* A late answer to a check shows the recipient of an IBAN that is no longer in the field,
  verified; the transfer goes to the field's.
* Each press makes a new idempotency key, so a transfer, funding or debit whose answer was lost
  is done again by the user's retry; opening an account has no key at all.
* One address has one bucket for endpoints with limits of 10, 5 and 30; a window is fixed and
  not, as `rate-limit.ts` says, sliding: twice the limit passes around its end.
* A reversal gives money back to an account that was closed since, and a block that looked
  before the reversal can mark the transfer BLOCKED after it. A page made while the account was
  FROZEN can make one ACTIVE that is RECEIVE_ONLY by now.

## 4. Proofs

### Bank

`BankProofs` proves, for any sets of accounts, calls, keys and inputs and any limits:

| Theorem | States |
|---|---|
| `TypeCorrect` | `Spec => []TypeOK` |
| `LockInvariantHolds` | `Spec \/ DriftedSpec => []LockInvariant` |
| `CacheCorrect` | `Spec => []CacheMatchesLedger` |
| `NeverOverdrawn` | `Spec \/ DriftedSpec => []NoOverdraft` |
| `DriftOnlyRepaired` | `DriftedSpec => DriftIsOnlyRepaired` |
| `OncePerKey` | `Spec => []OneMovementPerKey` |
| `RefinesAtomicBank` | `Spec => ImplementsAtomicBank` |

and `BankRecordsProofs`, on top of it:

| Theorem | States |
|---|---|
| `AnswerInvariantHolds` | `Spec => []AnswerInvariant` |
| `AnswersMatchEffects` | `Spec => []AnswerMatchesEffect` |
| `OneAnswerPerKey` | `Spec => []SameKeySameAnswer` |
| `ReversalsRecorded` | `Spec => []ReversalIsRecorded` |
| `OrderInvariantHolds` | `Spec => []OrderInvariant` |
| `LockOrderIsSafe` | `Spec => []LockOrderProtects` |
| `LedgerAlwaysNets` | `Spec => []LedgerNetsToZero` |
| `RecordsExplain` | `Spec => []RecordsExplainBalances` |

**Assumptions.** The named `ASSUME`s of `Database` and `Bank`: account ids are numbers, and there
are finitely many accounts (they are rows of a table that is added up);
the system ledger accounts are distinct and no customer's; inputs are well formed (a
transfer has a key, as the route's schema demands; only transfers have a recipient; block
and reverse name a call); opening balances are natural numbers, limits are numbers; no call has
the name of a failure or of `None`, which stand beside calls in the values of variables. TLC
evaluates all of them in every run.

**Argument.** `CacheMatchesLedger` is not inductive: a commit writes `seen[r][a] - n`, a
value read several steps earlier. `LockInvariant` says why that value is still right:

1. `LocksHaveOwners`, `LocksAreTaken`: only a call inside the locked part of its money
   transaction holds locks, on rows it touches, and past the locking step it holds all of them;
2. `ReadsAreCurrent`: what a call read from a row it holds is still there (for a repair
   about to write: is what the ledger says);
3. `TransfersHaveTwoSides`, `TransfersComeLast`, `SubjectsExist`: debit and credit side of
   a transfer or reversal differ. This needs the validation of `createTransfer`, the fact that a
   transfer is inserted by a call's last step, and that reversals found their transfer;
4. `RecordsComeLast`: a call that has moved money is done.

Every step then has one of six shapes (`StepShape`): it stays outside the locked part, ends
a transaction without effect, moves a covered amount between two locked sides, repairs, locks a
row or sums the ledger. Rows, drift, overdraft, keys and the refinement are proved per shape.
In the refinement mapping `movement` is read off `req` and `applied` is the set of
COMPLETED records; a repair is a stutter because cache and ledger agree (`CacheCorrect`).

`AnswerInvariant` adds what connects answers, `Transaction` and `Transfer` rows: a transfer's row
and its COMPLETED record are committed together (`TransfersArePosted`), a row is answered by a
call's last step only (`AnswersComeLast`), and the row a keyed call is answered with has its key
and has moved its money (`AnswersHoldTheKey`); with one movement per key, there is one such row.

`OrderInvariant` says that a call in its ordered part holds only rows that precede those it still
wants. In a circle of such calls take the one that wants the smallest row: another one waits for
a row it holds, and that row is smaller still. Only transfers wait for keys or shares
(`OnlyTransfersShare`), which is where `deadlock` finds its circle.

**Sums** are folds over sets, which the library defines by a choice of elements. That a sum does not
depend on the choice, that one more row adds its value, that a changed row changes it by the
difference and that a sum of negated values is negated (`TotalsProofs`) would be inductions over
finite sets; the library's induction theorems take an operator as their parameter, which the provers
here cannot instantiate. So each is proved by a smallest counterexample instead: if some finite set
has the wrong sum there is one that has no smaller wrong one (`SmallestSet`), and taking an element
out of it contradicts that. `LedgerAlwaysNets` and `RecordsExplain` then need to know only which two
ledger accounts, or which record, a step changes.

### Reports

| Theorem | Module | States |
|---|---|---|
| `ReportsInvariantHolds` | `ReportsProofs` | `Spec => []ReportsInv` |
| `ReportIsTrue` | `ReportsProofs` | `Spec => []QuietAccountsAreReportedTruly` |
| `DocumentsAreOnRecord` | `ReportsProofs` | `Spec => []DocumentsAreAudited` |
| `ReadersInvariantHolds` | `ReaderProofs` | `Spec => []ReadersInv` |
| `ReportsTypes` | `ReaderProofs` | `Spec => []TypeOK` |
| `PagesAreComplete` | `ReaderProofs` | `Spec => []PagesCoverEveryRow` |
| `StatementsClose` | `ReaderProofs` | `Spec => []StatementClosesAtLedger` |
| `HistoriesEnd` | `ReaderProofs` | `Spec => []HistoryEndsAtLedger` |

`ReportsInv` knows, at each step of a reader, what was read of the accounts nobody disturbed
and that it is still so (`ReportFits`), that a document has its audit row before its answer
(`ReaderFits`), and of the books that movements are stamped, the ledger's entry no later than the
row, and reversed transfers have a reference (`BooksFit`, `StampsFit`). A commit either leaves an
account alone or disturbs it.

`ReadersInv` is about rows. They are only added and keep their stamps, so what
was read of a period that was over (`StatementFits`) or of an account left alone (`HistoryFits`)
stays true; of the rows read only a reversal whose reference was replaced can miss its transfer
(`LinksFit`). The closing balance is the opening one plus a signed sum over the rows listed;
where no movement straddles the edge, the rows before it are the entries before it, and the sum
is the ledger's. For the pages, every row that was there when the first was read and is not
listed yet comes after those that are (`PagesFit`), which the cursor keeps true for any size of a
page. Assumed: what the histories of `AtomicBank` are (`HistoriesAssumption`), calls are numbers
(ties between stamps are broken by them), opening balances, queries and bounds are of their types.

### Office

| Theorem (`OfficeProofs`) | States |
|---|---|
| `OfficeInvariantHolds` | `Spec => []OfficeInv` |
| `OfficeTypeCorrect` | `Spec => []TypeOK` |
| `NamesAreUnambiguous` | `Spec => []NamesFindOnePerson` |
| `LimitIsPassedByRacesOnly` | `Spec => []LimitHoldsWithoutOverlap` |
| `AuditIsTrue` | `Spec => []AuditTellsWhatHappened` |
| `SecretsCount` | `Spec => []SecretsWereRight` |
| `OnlyRacesLose` | `Spec => []LosersMetTheirWinner` |
| `NoChangeIsLost` | `Spec => []TablesHoldWhatWasCommitted` |

`OfficeInv`: each kind of call takes its own steps and has found what the next one needs
(`StepsFit`, `RequestsAreKept`); no answer and no audit row before their time (`AuditFits`); a
call between its check and its write had the right secret (`SecretsFit`); calls in flight have
met, and a unique value that was free at the lookup and is taken at the write was taken by a
call met in between that committed (`MeetingsFit`); a call commits once (`RowsFit`).
`NamesFindOnePerson` is about a lookup that compares one name with two columns: unique columns
alone do not make its answer unique. `NamesFit` says that an e-mail is never a username, because
only one of them has an `@`, and that each column is unique, customers' e-mails in lower case.
For the limit, `LimitFits` says that a call about to open an account found room for it, or has met
another that took the room since: so whoever opens one too many has met a rival.

Assumed: calls are finite in number (the pool is counted); lower case is idempotent and makes no
username of an e-mail (`LowerAssumption`, `UsernamesAssumption`); bodies have the fields their
schemas demand, and an account is opened one at a time with a number of the bank's
(`BodiesAssumption`); the founders' rows respect the unique columns and, to begin with, the limit
(`FoundersAssumption`, `FirstAccountsAssumption`).

### Front

| Theorem (`FrontProofs`) | States |
|---|---|
| `FrontInvariantHolds` | `Spec => []FrontInv` |
| `FrontTypes` | `Spec => []TypeOK` |
| `PreviewsAreRecorded` | `Spec => []PreviewIsRecorded` |
| `SlipsReachNobodyElse` | `Spec => []PayeeIsTheOneMeant` |
| `VerifiedIsPaid` | `Spec => []PayeeWasShown` |
| `OncePaidUnlessSilent` | `Spec => []PaidTwiceOnlyAfterSilence` |
| `LimitIsAtMostDoubled` | `Spec => []AtMostTwiceTheLimit` |
| `RefusalsNeedRequests` | `Spec => []RefusalsAreEarned` |
| `ClosedStaysClosed` | `Spec => []ClosedForGoodWithoutOverlap` |
| `ReversedAtMostOnce` | `Spec => []ReversedOnceWithoutOverlap` |

`LimiterFits`: the requests fall into windows, each of which lets an endpoint's first requests
through and no others; a stretch as long as a window touches two of them. `FormFits`: a form
that shows a recipient has its IBAN in the field, or the check came late; attempts and payments
inherit it. `FieldsFit`: what an attempt asks for is what its preview was made from, and what was
recorded is what it asked for. `FormsWait`: a form waits for one attempt at a time, made with the
intention of now, so of two attempts with one intention that paid one was silent (`AttemptsWait`);
the same holds of the forms on the account's pages (`CallsWait`). `DeskFits`: two calls between
their transactions have met; one that met nobody finds things as they were when it looked; and
whoever could undo what a call did alone has met it.

`ConversionsProofs` says what the folds over digits compute, again by a shortest counterexample: an
amount is a natural number, and `ConvertFx` is within half a cent of the exact quotient
(`ConversionRounds`). The remainder by 97 of a string of digits is a sum of digits times powers of
ten, no one of which 97 divides; so one wrong character, or two neighbours swapped, changes the
remainder (`NoCharacterWrong`, `NoNeighboursSwapped`), in the country and the check digits too,
where letters stand for two digits each. Assumed: an account's IBAN is its own, and no account has
the IBAN of another bank (`IbansAssumption`); account numbers are sequences of digits, of any
length; the amount field's pattern lets no other amount pass (`PlansAssumption`); a staff member is
no owner.

### What is only model-checked

`EveryCallIsAnswered` of `Bank`, `EveryCallEnds` of `Office` and `FormComesBack` of `Front`:
liveness under fairness needs `ENABLED`, which the prover does not treat. Every other property that
a passing run checks is the conclusion of one of the theorems above. The five violated properties
have counterexamples; what remains true in their place (`ReversalIsRecorded`,
`ReversedOnceWithoutOverlap`, `ClosedForGoodWithoutOverlap`, `SameKeySameAnswer`,
`LockOrderProtects`) is proved.

## 5. Plan

1. *(done)* `Database`, `Funding`, `Transfers`, `AccountLifecycle`, `Bank`, `AtomicBank`.
2. *(done)* Accounts with their limit and the pool (`Registry`, `Onboarding`), people (`People`),
   together `Office`; first use of the settlement account; audit rows beside settings.
3. *(done)* The report, statements and histories: `Reports`.
4. *(done)* Conversions, check digits, the limiter, the forms: `Front`.
5. *(done)* The theorems of section 4.
6. *(done)* Theorems for every safety property of the runs: answers, order of locks and sums in
   `Bank`, types, pages and balances in `Reports`, names and limits in `Office`, the form in `Front`.
7. Lemmas that several modules repeat in one place; what the refinement gives `AtomicBank`'s own
   properties; what a step may never do, stated of `Office` and `Front` as of `Bank`.

## 6. Not modelled

* **Policies of row-level security.** The services run as `RLS_SERVICE`, which no policy
  restricts. A route that does not is the administrator's `GET /accounts/:id`, which reads
  with the administrator's own id and finds no row of a customer's.
* **Cookies, signatures, middleware** (`jwt.ts`, `session.ts`, `middleware.ts`): no state on the
  server. A session is who `req[c].by` is. Signing out clears a cookie; a forgotten password
  only reads a question; the public sign-up always refuses.
* **Routes and pages that only read**, and forms whose fields `Office` takes as a call's
  arguments (sign-in, sign-up, settings). `admin-actions.tsx` is rendered nowhere;
  `reconcile-form.tsx` calls a repair, which does nothing while cache and ledger agree;
  `reconciliation-client.tsx` reads fields the report lacks.
* **Layout**: CSV, PDF, formatting, random references, `display.ts`, `nav.ts`.
* **Code without a caller**: `completeTransaction`, `failTransaction`, `isValidAccountNumber`;
  `getTransactionHistory` is called by tests only and modelled all the same.
* **Three queries of the report**, for orphan entries and duplicate references: a foreign key and
  unique columns make them come back empty.
* **Time**: one day in `Bank`, so the daily limit never starts anew; the limiter's sweep, which
  deletes only entries whose window is over, and those count as absent already.
* **A constant**: `DAILY_TRANSFER_LIMIT_CENTS` is $50,000 where its comment and
  `docs/phase3.md:79` say $500,000; the limit is a parameter here.

## 7. Running

```
tlc -config MCBank_core.cfg MCBank      # and the other MCBank_*.cfg
tlc -config MCReports_reports.cfg MCReports
tlc -config MCOffice_office.cfg MCOffice
tlc -config MCFront_front.cfg MCFront
tlapm BankProofs.tla                    # and BankRecordsProofs, ReportsProofs, ReaderProofs,
                                        # OfficeProofs, FrontProofs, TotalsProofs, ConversionsProofs
```
