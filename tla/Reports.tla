------------------------------ MODULE Reports ------------------------------
(***************************************************************************)
(* The readers of the books: the reconciliation report an administrator    *)
(* asks for, and the statement and the transaction history of an account.  *)
(*                                                                         *)
(* The money moves as AtomicBank says, which the services are shown to     *)
(* implement; this module adds what the readers look at besides: the rows' *)
(* createdAt stamps, FAILED rows, the one reversalReference a Transfer row *)
(* has room for, and cached balances that drifted from the ledger.  Each   *)
(* reader runs its queries one after the other, Read Committed, while the  *)
(* bank goes on.  Readers do not see each other, so a behaviour has one.   *)
(***************************************************************************)
EXTENDS Totals

CONSTANTS
  Accounts,     \* customer accounts
  Owner,        \* the customer each account belongs to
  Admin,        \* an administrator
  Requests,     \* calls that may move money; their order is that of the references
  Outside,      \* BANK-CASH or the external settlement account
  NoKey,        \* idempotency keys play no part here
  None,         \* no request
  Histories,    \* what the calls of a behaviour ask for
  Opening,      \* balance each account is opened with
  Opened,       \* the ledger sums the accounts may start with, drifted ones included
  Queries,      \* what a reader may ask for
  PageSize,     \* rows on a page of the history
  MaxRange,     \* longest period of a statement
  MaxTime       \* bound on the clock

Parties == Accounts \cup {Outside}
Movement == [kind : {"fund", "debit", "transfer", "reverse"}, debit : Parties,
             credit : Parties, amount : Nat \ {0}, key : {NoKey},
             of : Requests \cup {None}]

Formats == {"json", "csv", "pdf"}
Query == [what : {"statement", "history"}, by : {Owner[a] : a \in Accounts} \cup {Admin},
          account : Accounts, from : Nat, to : Nat, format : Formats]

\* Nobody has asked yet.
NoQuery == [what |-> "none", account |-> Outside]

\* Fundings and debits are against the bank's cash account, nobody sends money to the
\* account it comes from, and a reversal takes it back from where its transfer put it.
WellFormed(m) ==
  \A r \in Requests :
    /\ m[r].kind = "fund" => m[r].debit = Outside /\ m[r].credit \in Accounts
    /\ m[r].kind = "debit" => m[r].debit \in Accounts /\ m[r].credit = Outside
    /\ m[r].kind = "transfer" => m[r].debit \in Accounts /\ m[r].credit # m[r].debit
    /\ m[r].kind = "reverse" =>
         LET t == m[r].of IN
         /\ t \in Requests
         /\ m[t].kind = "transfer"
         /\ m[r].debit = m[t].credit
         /\ m[r].credit = m[t].debit
         /\ m[r].amount = m[t].amount

\* The entries of a movement's ledger transaction, and what they come to on one side.
Entries(m) ==
  {[direction |-> "DEBIT", on |-> m.debit, amount |-> m.amount],
   [direction |-> "CREDIT", on |-> m.credit, amount |-> m.amount]}

Side(m, direction) ==
  Total([e \in Entries(m) |-> e.amount], {e \in Entries(m) : e.direction = direction})

ASSUME HistoriesAssumption ==
  \A m \in Histories : m \in [Requests -> Movement] /\ WellFormed(m)
ASSUME RequestsAssumption == Requests \subseteq Nat /\ None \notin Requests
ASSUME OpeningAssumption == Opening \in [Accounts -> Nat]
ASSUME OpenedAssumption == Opened \subseteq [Accounts -> Int]
ASSUME OutsideAssumption == Outside \notin Accounts
ASSUME QueriesAssumption == Queries \subseteq Query
ASSUME BoundsAssumption ==
  /\ PageSize \in Nat \ {0}
  /\ MaxRange \in Nat
  /\ MaxTime \in Nat \ {0}

VARIABLES
  movement,     \* what each call asks for
  balance,      \* Account.balanceCents
  applied,      \* calls that have moved their money
  opened,       \* the ledger sum each account started with
  failed,       \* calls that left a FAILED Transaction row
  clock,        \* the current time
  ledgerAt,     \* LedgerTransaction.createdAt of a call
  rowAt,        \* Transaction.createdAt of a call
  reversedBy,   \* Transfer.reversalReference
  report,       \* the reconciliation report being made
  reader,       \* the statement or history being made
  audit         \* calls of the reader the audit log tells of

books == <<movement, balance, applied, opened, failed, ledgerAt, rowAt, reversedBy>>
vars == <<books, clock, report, reader, audit>>

Atomic == INSTANCE AtomicBank

Time == 0 .. MaxTime

\* The stamp of a row that does not exist.
Never == -1

-----------------------------------------------------------------------------
(* The books.                                                              *)

Amounts == [r \in Requests |-> movement[r].amount]

\* The entries of the calls in S on account a.
Net(S, a) ==
  Total(Amounts, {r \in S : movement[r].credit = a})
    - Total(Amounts, {r \in S : movement[r].debit = a})

\* getCustomerAccountLedgerBalance
LedgerBalance(a) == opened[a] + Net(applied, a)

\* Mutant: entries stamped at that very moment are counted too.
BalanceBefore_Inclusive(a, t) == opened[a] + Net({r \in applied : ledgerAt[r] <= t}, a)

\* computeBalanceBefore; the accounts' first entries are older than every period.
BalanceBefore(a, t) == opened[a] + Net({r \in applied : ledgerAt[r] < t}, a)

\* Calls that left a Transaction row on account a.
RowsOf(a) ==
  {r \in applied : a \in {movement[r].debit, movement[r].credit}}
    \cup {r \in failed : movement[r].debit = a}

\* Rows are stamped by the database client while their transaction runs, which takes
\* less than one unit of time (the client gives it five seconds), the ledger's first.
Stamp(r) ==
  \E t, u \in {clock - 1, clock} :
    /\ t <= u
    /\ ledgerAt' = [ledgerAt EXCEPT ![r] = t]
    /\ rowAt' = [rowAt EXCEPT ![r] = u]

\* The accounts in A are no longer as the readers found them.
Disturbed(A) ==
  /\ report' = [report EXCEPT !.quiet = @ \ A]
  /\ reader' = [reader EXCEPT !.quiet = @ /\ reader.query.account \notin A]

\* A money transaction commits.
Commit(r) ==
  /\ r \notin failed
  /\ movement[r].kind = "reverse" => movement[r].of \in applied
  /\ Atomic!Apply(r)
  /\ Stamp(r)
  /\ reversedBy' = IF movement[r].kind = "reverse"
                   THEN [reversedBy EXCEPT ![movement[r].of] = r]
                   ELSE reversedBy
  /\ Disturbed({movement[r].debit, movement[r].credit})
  /\ UNCHANGED <<opened, failed, clock, audit>>

\* recordFailedAttempt of an uncovered debit, recordFailedOutgoingTransfer of a transfer
\* whose sender may not send: a FAILED row on the account that was to be debited.
RecordFailure(r) ==
  /\ r \notin applied \cup failed
  /\ \/ movement[r].kind = "debit" /\ balance[movement[r].debit] < movement[r].amount
     \/ movement[r].kind = "transfer"
  /\ failed' = failed \cup {r}
  /\ \E u \in {clock - 1, clock} : rowAt' = [rowAt EXCEPT ![r] = u]
  /\ Disturbed({movement[r].debit})
  /\ UNCHANGED <<movement, balance, applied, opened, ledgerAt, reversedBy, clock, audit>>

\* repairAccountBalance
Repair(a) ==
  /\ balance[a] # LedgerBalance(a)
  /\ LedgerBalance(a) >= 0
  /\ balance' = [balance EXCEPT ![a] = LedgerBalance(a)]
  /\ Disturbed({a})
  /\ UNCHANGED <<movement, applied, opened, failed, clock, ledgerAt, rowAt, reversedBy, audit>>

Tick ==
  /\ clock < MaxTime
  /\ clock' = clock + 1
  /\ UNCHANGED <<books, report, reader, audit>>

-----------------------------------------------------------------------------
(* The reconciliation report.                                              *)

NoReport == [step |-> "none", scope |-> {}, full |-> FALSE,
             cached |-> [a \in Accounts |-> 0], sum |-> [a \in Accounts |-> 0],
             left |-> {}, quiet |-> {}, listed |-> {}]

Snapshot(scope, full) ==
  /\ report.step = "none" /\ reader.step = "none"
  /\ report' = [NoReport EXCEPT !.step = "sums", !.scope = scope, !.full = full,
                                !.cached = balance, !.left = scope, !.quiet = Accounts]
  /\ UNCHANGED <<books, clock, reader, audit>>

\* runFullReconciliation starts by reading every account at once ...
RunFullReconciliation == Snapshot(Accounts, TRUE)

\* ... reconcileSingleAccount by reading the one it was asked about ...
ReconcileSingleAccount(a) == Snapshot({a}, FALSE)

\* What follows the last sum.
AfterSum(a) ==
  IF report.left # {a} THEN "sums" ELSE IF report.full THEN "ledger" ELSE "done"

\* Mutant: the cached balance is compared with itself.
SumLedgerOf_Cached(a) ==
  /\ report.step = "sums"
  /\ a \in report.left
  /\ report' = [report EXCEPT !.sum[a] = balance[a], !.left = @ \ {a}, !.step = AfterSum(a)]
  /\ UNCHANGED <<books, clock, reader, audit>>

\* ... then the ledger is summed, account by account, in queries of their own.
SumLedgerOf(a) ==
  /\ report.step = "sums"
  /\ a \in report.left
  /\ report' = [report EXCEPT !.sum[a] = LedgerBalance(a), !.left = @ \ {a},
                              !.step = AfterSum(a)]
  /\ UNCHANGED <<books, clock, reader, audit>>

Difference(a) == report.cached[a] - report.sum[a]

\* The anomalies the report lists for the accounts' balances.
Anomalies ==
  {<<"BALANCE_MISMATCH", a>> : a \in {b \in report.scope : Difference(b) # 0}}
    \cup {<<"NEGATIVE_BALANCE", a>> : a \in {b \in report.scope : report.cached[b] < 0}}

List(step, type, S, next) ==
  /\ report.step = step
  /\ report' = [report EXCEPT !.step = next, !.listed = @ \cup ({type} \X S)]
  /\ UNCHANGED <<books, clock, reader, audit>>

\* The full report goes on with the ledger's transactions and their entries, ...
ListUnbalanced ==
  List("ledger", "UNBALANCED_LEDGER_TX",
       {r \in applied : Side(movement[r], "DEBIT") # Side(movement[r], "CREDIT")}, "transfers")

\* ... the Transfer rows still COMPLETED whose Transaction has no ledger transaction ...
ListTransfersWithoutLedger ==
  List("transfers", "TRANSFER_WITHOUT_LEDGER",
       {r \in applied : /\ movement[r].kind = "transfer"
                        /\ reversedBy[r] = None
                        /\ ledgerAt[r] = Never}, "reversals")

\* ... and those REVERSED without a reference.
ListReversalsWithoutReference ==
  List("reversals", "REVERSAL_WITHOUT_REFERENCE",
       {t \in applied : /\ \E r \in applied : movement[r].kind = "reverse" /\ movement[r].of = t
                        /\ reversedBy[t] = None}, "done")

-----------------------------------------------------------------------------
(* Statements and histories.                                               *)

NoReader(q) ==
  [step |-> "none", query |-> q, rows |-> {}, linked |-> {}, opening |-> 0, more |-> FALSE,
   listed |-> {}, repeated |-> FALSE, visible |-> {}, asked |-> 0, quiet |-> FALSE,
   answer |-> "none"]

InPeriod(q, r) == q.from <= rowAt[r] /\ rowAt[r] <= q.to

\* orderBy createdAt, then reference.
Before(r, s) == rowAt[r] < rowAt[s] \/ (rowAt[r] = rowAt[s] /\ r < s)

\* The first rows of S, one page of them.
PageOf(S) == {r \in S : Cardinality({s \in S : Before(s, r)}) < PageSize}

LastOf(S) == CHOOSE r \in S : \A s \in S : s = r \/ Before(s, r)
FirstOf(S) == CHOOSE r \in S : \A s \in S : s = r \/ Before(r, s)

\* The rows of the history that come after the cursor, the last row listed so far.
\* Mutant: rows of the cursor's instant are skipped.
AfterCursor_LaterOnly(S, listed) ==
  {r \in S : listed = {} \/ rowAt[LastOf(listed)] < rowAt[r]}

AfterCursor(S, listed) == {r \in S : listed = {} \/ Before(LastOf(listed), r)}

\* assertDateRange, and the same check in the statement route
DateRangeRefused(q) == q.to - q.from > MaxRange

\* The statement route refuses strangers and impossible periods before it reads anything.
StatementRefused(q) ==
  \/ q.by \notin {Owner[q.account], Admin}
  \/ DateRangeRefused(q)
  \/ q.from > q.to

Ask(q) ==
  /\ reader.step = "none" /\ report.step = "none"
  /\ reader' = [NoReader(q) EXCEPT
                  !.step = IF \/ q.what = "statement" /\ StatementRefused(q)
                              \/ q.what = "history" /\ DateRangeRefused(q)
                           THEN "done" ELSE "rows",
                  !.answer = IF \/ q.what = "statement" /\ StatementRefused(q)
                                \/ q.what = "history" /\ DateRangeRefused(q)
                             THEN "REFUSED" ELSE "none"]
  /\ UNCHANGED <<books, clock, report, audit>>

\* generateStatement's first query: the COMPLETED rows of the period.
ReadStatementRows ==
  LET q == reader.query IN
  /\ reader.step = "rows"
  /\ q.what = "statement"
  /\ reader' = [reader EXCEPT
                  !.step = "links", !.asked = clock, !.quiet = TRUE,
                  !.rows = {r \in RowsOf(q.account) \ failed : InPeriod(q, r)}]
  /\ UNCHANGED <<books, clock, report, audit>>

\* getTransactionHistory's first query: a page of rows, FAILED ones as well.
ReadHistoryPage ==
  LET q == reader.query
      S == {r \in RowsOf(q.account) : InPeriod(q, r)}
      rest == AfterCursor(S, reader.listed)
      page == PageOf(rest)
  IN
  /\ reader.step = "rows"
  /\ q.what = "history"
  /\ reader' = [reader EXCEPT
                  !.step = "links", !.asked = clock, !.quiet = TRUE,
                  !.rows = page, !.more = page # rest,
                  !.repeated = @ \/ page \cap reader.listed # {},
                  !.visible = IF reader.listed = {} THEN S ELSE @]
  /\ UNCHANGED <<books, clock, report, audit>>

\* The second queries: the Transfer rows the lines belong to, by reference for a transfer
\* and by reversalReference, which holds the sender's row of the last reversal only.
ReadTransfers ==
  /\ reader.step = "links"
  /\ reader' = [reader EXCEPT
                  !.step = "opening",
                  !.linked = {r \in reader.rows :
                                \/ movement[r].kind = "transfer"
                                \/ /\ movement[r].kind = "reverse"
                                   /\ movement[r].credit = reader.query.account
                                   /\ reversedBy[movement[r].of] = r}]
  /\ UNCHANGED <<books, clock, report, audit>>

\* The third query: the balance to start from.
ReadOpeningBalance ==
  LET q == reader.query IN
  /\ reader.step = "opening"
  /\ reader' = [reader EXCEPT
                  !.step = IF q.what = "statement" THEN "audit" ELSE "page",
                  !.opening =
                    CASE q.what = "statement" -> BalanceBefore(q.account, q.from)
                      [] q.what = "history" /\ reader.rows # {} ->
                           BalanceBefore(q.account, rowAt[FirstOf(reader.rows)])
                      [] OTHER -> LedgerBalance(q.account)]
  /\ UNCHANGED <<books, clock, report, audit>>

\* isCreditDirection; a failed transfer has no recipient.
\* Mutant: the sender of a reversed transfer is taken for its recipient.
IsCredit_ReversalSwapped(r) ==
  CASE movement[r].kind = "fund"     -> TRUE
    [] movement[r].kind = "debit"    -> FALSE
    [] movement[r].kind = "transfer" ->
         r \in reader.linked \ failed /\ movement[r].credit = reader.query.account
    [] movement[r].kind = "reverse"  ->
         r \in reader.linked /\ movement[r].debit = reader.query.account

IsCredit(r) ==
  CASE movement[r].kind = "fund"     -> TRUE
    [] movement[r].kind = "debit"    -> FALSE
    [] movement[r].kind = "transfer" ->
         r \in reader.linked \ failed /\ movement[r].credit = reader.query.account
    [] movement[r].kind = "reverse"  ->
         r \in reader.linked /\ movement[r].credit = reader.query.account

SignedAmount(r) == IF IsCredit(r) THEN movement[r].amount ELSE - movement[r].amount

\* The balance of the last line.
ClosingBalance ==
  reader.opening + Total([r \in reader.rows |-> SignedAmount(r)], reader.rows)

\* The next page starts after the last row of this one.
TurnPage ==
  /\ reader.step = "page"
  /\ reader' = [reader EXCEPT !.listed = @ \cup reader.rows,
                              !.step = IF reader.more THEN "rows" ELSE "done"]
  /\ UNCHANGED <<books, clock, report, audit>>

\* Mutant: the route answers without an audit row.
AuditStatement_Skipped ==
  /\ reader.step = "audit"
  /\ reader' = [reader EXCEPT !.step = "answer"]
  /\ UNCHANGED <<books, clock, report, audit>>

\* Mutant: the format is recorded instead of the action.
AuditStatement_WrongAction ==
  /\ reader.step = "audit"
  /\ reader' = [reader EXCEPT !.step = "answer"]
  /\ audit' = audit \cup {reader.query.format}
  /\ UNCHANGED <<books, clock, report>>

\* The statement route records the request in a transaction of its own ...
AuditStatement ==
  /\ reader.step = "audit"
  /\ reader' = [reader EXCEPT !.step = "answer"]
  /\ audit' = audit \cup {IF reader.query.format = "json" THEN "STATEMENT_GENERATED"
                          ELSE "STATEMENT_DOWNLOADED"}
  /\ UNCHANGED <<books, clock, report>>

\* ... and answers.  A BigInt has no JSON form, so only the two documents get through.
AnswerStatement ==
  /\ reader.step = "answer"
  /\ reader' = [reader EXCEPT !.step = "done",
                              !.answer = IF reader.query.format = "json" THEN "ERROR"
                                         ELSE reader.query.format]
  /\ UNCHANGED <<books, clock, report, audit>>

\* A reader's query or audit fails: its transaction is rolled back.
ReaderFails ==
  /\ reader.step \notin {"none", "done"}
  /\ reader' = [NoReader(reader.query) EXCEPT !.step = "done", !.answer = "ERROR"]
  /\ UNCHANGED <<books, clock, report, audit>>

-----------------------------------------------------------------------------
Init ==
  /\ movement \in Histories
  /\ balance = Opening
  /\ applied = {}
  /\ opened \in Opened
  /\ failed = {}
  /\ clock = 1
  /\ ledgerAt = [r \in Requests |-> Never]
  /\ rowAt = [r \in Requests |-> Never]
  /\ reversedBy = [r \in Requests |-> None]
  /\ report = NoReport
  /\ reader = NoReader(NoQuery)
  /\ audit = {}

\* Nothing is said of what happens after the reader has its answer.
Over == "done" \in {report.step, reader.step}

BooksNext ==
  /\ ~Over
  /\ \/ \E r \in Requests : Commit(r) \/ RecordFailure(r)
     \/ \E a \in Accounts : Repair(a)
     \/ Tick

ReportNext ==
  \/ RunFullReconciliation
  \/ \E a \in Accounts : ReconcileSingleAccount(a) \/ SumLedgerOf(a)
  \/ ListUnbalanced
  \/ ListTransfersWithoutLedger
  \/ ListReversalsWithoutReference

ReaderNext ==
  \/ \E q \in Queries : Ask(q)
  \/ ReadStatementRows
  \/ ReadHistoryPage
  \/ ReadTransfers
  \/ ReadOpeningBalance
  \/ TurnPage
  \/ AuditStatement
  \/ AnswerStatement
  \/ ReaderFails

Next == BooksNext \/ ReportNext \/ ReaderNext

Spec == Init /\ [][Next]_vars

-----------------------------------------------------------------------------
(* What the readers may rely on.                                           *)

\* Rows, stamps and readers have the values the schema and the services give them.
TypeOK ==
  /\ movement \in [Requests -> Movement]
  /\ balance \in [Accounts -> Int]
  /\ applied \subseteq Requests
  /\ opened \in [Accounts -> Int]
  /\ failed \subseteq Requests
  /\ clock \in 1 .. MaxTime
  /\ ledgerAt \in [Requests -> Time \cup {Never}]
  /\ rowAt \in [Requests -> Time \cup {Never}]
  /\ reversedBy \in [Requests -> Requests \cup {None}]
  /\ report.step \in {"none", "sums", "ledger", "transfers", "reversals", "done"}
  /\ report.scope \cup report.left \cup report.quiet \subseteq Accounts
  /\ {report.cached, report.sum} \subseteq [Accounts -> Int]
  /\ reader.query \in Query \cup {NoQuery}
  /\ reader.rows \subseteq Requests
  /\ reader.opening \in Int
  /\ reader.answer \in Formats \cup {"none", "REFUSED", "ERROR"}
  /\ audit \subseteq {"STATEMENT_GENERATED", "STATEMENT_DOWNLOADED"}

\* The report is made of several queries while the bank goes on.  What it says of an
\* account no call has changed since its first query is nevertheless true: a mismatch
\* is listed if and only if cache and ledger really differ, and by how much; and nothing
\* is said against the transactions and transfers, which commit whole.
QuietAccountsAreReportedTruly ==
  report.step = "done" =>
    /\ report.listed = {}
    /\ \A a \in report.scope \cap report.quiet :
         /\ Difference(a) = balance[a] - LedgerBalance(a)
         /\ <<"BALANCE_MISMATCH", a>> \in Anomalies <=> balance[a] # LedgerBalance(a)

\* An entry and its row lie on different sides of instant t.
Straddles(r, t) == ledgerAt[r] < t /\ t <= rowAt[r]

\* A transfer reversed twice keeps the reference of the second reversal only.
Orphaned(r) == movement[r].kind = "reverse" /\ reversedBy[movement[r].of] # r

LedgerUpTo(a, t) == opened[a] + Net({r \in applied : ledgerAt[r] <= t}, a)

\* A statement asked for when its period was over closes with the ledger's balance at
\* the end of the period, however the bank went on while it was made: unless a movement's
\* entry and row were stamped on two sides of a boundary, or it lists a reversal whose
\* reference a second reversal of the same transfer replaced.
StatementClosesAtLedger ==
  LET q == reader.query
      own == RowsOf(q.account) \ failed
  IN
  /\ reader.step = "done" /\ q.what = "statement" /\ reader.answer \in {"csv", "pdf"}
  /\ q.to < reader.asked - 1
  /\ \A r \in own : ~Straddles(r, q.from) /\ ~Straddles(r, q.to + 1)
  /\ \A r \in own : ~Orphaned(r)
  => ClosingBalance = LedgerUpTo(q.account, q.to)

\* The entries older than the page's first row are those of the rows before it: no entry
\* and its row straddle that instant, nor do two pages share the rows of one instant.
CleanStart(own) ==
  reader.rows # {} =>
    LET first == FirstOf(reader.rows) IN
    \A r \in own : ledgerAt[r] < rowAt[first] <=> Before(r, first)

\* The last running balance of a history that starts clean is the ledger's balance less
\* the FAILED rows of its page, which the code counts as debits though no money moved.
HistoryEndsAtLedger ==
  LET q == reader.query
      own == RowsOf(q.account) \ failed
  IN
  /\ reader.step = "done" /\ q.what = "history" /\ reader.answer = "none"
  /\ reader.quiet
  /\ \A r \in RowsOf(q.account) : rowAt[r] <= q.to
  /\ \A r \in own : ~Orphaned(r)
  /\ CleanStart(own)
  => ClosingBalance = LedgerBalance(q.account) - Total(Amounts, reader.rows \cap failed)

\* Every row there was when the first page was read is listed on exactly one page,
\* whatever rows are added, with whatever stamps, while the customer turns the pages.
PagesCoverEveryRow ==
  /\ ~reader.repeated
  /\ reader.step = "done" /\ reader.answer = "none" => reader.visible \subseteq reader.listed

\* docs/phase5.md: a statement that is handed out is in the audit log, a refused one is not.
DocumentsAreAudited ==
  /\ reader.answer \in {"csv", "pdf"} => "STATEMENT_DOWNLOADED" \in audit
  /\ reader.answer = "REFUSED" => audit = {}
=============================================================================
