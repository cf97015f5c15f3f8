---------------------------- MODULE ReportsProofs ----------------------------
(***************************************************************************)
(* Theorems about Reports, for any accounts, calls, histories and periods. *)
(***************************************************************************)
EXTENDS ReportsInvariant, TotalsProofs, TLAPS

-----------------------------------------------------------------------------
(* The books.                                                              *)

\* The calls of a history ask for movements.
LEMMA MovementFacts ==
  ASSUME BooksFit, NEW r \in Requests
  PROVE  /\ movement \in [Requests -> Movement] /\ WellFormed(movement)
         /\ movement[r] \in Movement
         /\ movement[r].amount \in Nat \ {0}
  BY HistoriesAssumption DEF BooksFit, Movement

\* Sums over calls, and what calls come to on an account, are numbers.
LEMMA SumsAreInts ==
  ASSUME BooksFit, NEW S \in SUBSET Requests, IsFiniteSet(S), NEW a
  PROVE  /\ \A x \in S : Amounts[x] \in Int
         /\ Total(Amounts, S) \in Int
         /\ Net(S, a) \in Int
  <1>1. \A x \in S : Amounts[x] \in Int
    BY MovementFacts DEF Amounts
  <1>2. \A T \in SUBSET S : Total(Amounts, T) \in Int
    <2> SUFFICES ASSUME NEW T \in SUBSET S PROVE Total(Amounts, T) \in Int
      OBVIOUS
    <2>1. IsFiniteSet(T) /\ \A x \in T : Amounts[x] \in Int
      BY <1>1, FS_Subset
    <2> QED
      BY <2>1, TotalType
  <1> DEFINE C == {r \in S : movement[r].credit = a}
             D == {r \in S : movement[r].debit = a}
  <1>3. C \in SUBSET S /\ D \in SUBSET S
    OBVIOUS
  <1>4. Total(Amounts, C) \in Int /\ Total(Amounts, D) \in Int
    BY <1>2, <1>3
  <1>5. Net(S, a) = Total(Amounts, C) - Total(Amounts, D)
    BY DEF Net
  <1> HIDE DEF C, D
  <1> QED
    BY <1>1, <1>2, <1>4, <1>5

\* The ledger's balance is a number.
LEMMA LedgerBalanceIsInt ==
  ASSUME BooksFit, NEW a \in Accounts
  PROVE  LedgerBalance(a) \in Int
  <1>1. Net(applied, a) \in Int
    BY SumsAreInts DEF BooksFit
  <1>2. opened[a] \in Int
    BY DEF BooksFit
  <1> QED
    BY <1>1, <1>2 DEF LedgerBalance

\* It stays where no call debits or credits the account.
LEMMA LedgerBalanceSame ==
  ASSUME UNCHANGED <<movement, opened>>, NEW a \in Accounts,
         \A r : (r \in applied' <=> r \in applied) \/ a \notin {movement[r].debit, movement[r].credit}
  PROVE  LedgerBalance(a)' = LedgerBalance(a)
  <1>1. {r \in applied' : movement[r].credit = a} = {r \in applied : movement[r].credit = a}
    OBVIOUS
  <1>2. {r \in applied' : movement[r].debit = a} = {r \in applied : movement[r].debit = a}
    OBVIOUS
  <1>3. Amounts' = Amounts
    BY DEF Amounts
  <1>4. Net(applied, a)' = Net(applied, a)
    BY <1>1, <1>2, <1>3 DEF Net
  <1> QED
    BY <1>4 DEF LedgerBalance

\* The two entries of a transaction balance.
LEMMA SidesBalance ==
  ASSUME BooksFit, NEW r \in Requests
  PROVE  Side(movement[r], "DEBIT") = Side(movement[r], "CREDIT")
  <1> DEFINE m == movement[r]
             d == [direction |-> "DEBIT", on |-> m.debit, amount |-> m.amount]
             c == [direction |-> "CREDIT", on |-> m.credit, amount |-> m.amount]
             f == [x \in Entries(m) |-> x.amount]
  <1>1. d \in Entries(m) /\ c \in Entries(m)
    BY DEF Entries
  <1>2. Total(f, {d}) = d.amount /\ Total(f, {c}) = c.amount
    <2>1. m.amount \in Int
      BY MovementFacts
    <2>2. f[d] = m.amount /\ f[c] = m.amount
      BY <1>1
    <2>3. \A x : f[x] \in Int => Total(f, {x}) = f[x]
      <3> SUFFICES ASSUME NEW x, f[x] \in Int PROVE Total(f, {x}) = f[x]
        OBVIOUS
      <3>1. IsFiniteSet({}) /\ {x} = {} \cup {x} /\ \A y \in {} \cup {x} : f[y] \in Int
        BY FS_EmptySet
      <3> HIDE DEF f
      <3>2. Total(f, {} \cup {x}) = Total(f, {}) + f[x]
        BY <3>1, TotalAdd
      <3>3. Total(f, {x}) = Total(f, {}) + f[x] /\ Total(f, {}) = 0
        BY <3>1, <3>2, TotalOfNone, Zenon
      <3> QED
        BY <3>3
    <2> HIDE DEF f
    <2> QED
      BY <2>1, <2>2, <2>3
  <1>3. /\ {e \in Entries(m) : e.direction = "DEBIT"} = {d}
        /\ {e \in Entries(m) : e.direction = "CREDIT"} = {c}
    BY DEF Entries
  <1>4. Side(m, "DEBIT") = Total(f, {d}) /\ Side(m, "CREDIT") = Total(f, {c})
    <2> HIDE DEF d, c, m
    <2> QED
      BY <1>3 DEF Side
  <1> QED
    BY <1>2, <1>4

\* The readers and the report leave the books and the clock alone.
LEMMA ReadingChangesNothing ==
  ASSUME ReportNext \/ ReaderNext \/ UNCHANGED vars
  PROVE  UNCHANGED books /\ clock' = clock
  BY DEF ReportNext, RunFullReconciliation, ReconcileSingleAccount, Snapshot, SumLedgerOf,
         ListUnbalanced, ListTransfersWithoutLedger, ListReversalsWithoutReference, List,
         ReaderNext, Ask, ReadStatementRows, ReadHistoryPage, ReadTransfers,
         ReadOpeningBalance, TurnPage, AuditStatement, AnswerStatement, ReaderFails, vars

\* A change of the books keeps them in order.
LEMMA BooksFitKept ==
  ASSUME BooksFit, [Next]_vars
  PROVE  BooksFit'
  <1>1. CASE UNCHANGED books
    BY <1>1 DEF books, BooksFit
  <1>2. ASSUME NEW r \in Requests, Commit(r)
        PROVE  BooksFit'
    <2>1. /\ UNCHANGED <<movement, opened, clock>>
          /\ balance' = Atomic!Moved(movement[r])
          /\ applied' = applied \cup {r}
      BY <1>2 DEF Commit, Atomic!Apply
    <2>2. balance' \in [Accounts -> Int]
      BY <2>1, MovementFacts DEF Atomic!Moved, BooksFit
    <2>3. applied' \subseteq Requests /\ IsFiniteSet(applied')
      BY <2>1, FS_AddElement DEF BooksFit
    <2>4. CASE movement[r].kind # "reverse"
      <3>1. reversedBy' = reversedBy
        BY <1>2, <2>4 DEF Commit
      <3> QED
        BY <2>1, <2>2, <2>3, <2>4, <3>1 DEF BooksFit
    <2>5. CASE movement[r].kind = "reverse"
      <3>1. reversedBy' = [reversedBy EXCEPT ![movement[r].of] = r] /\ movement[r].of \in applied
        BY <1>2, <2>5 DEF Commit
      <3>2. r # None
        BY RequestsAssumption
      <3>3. /\ reversedBy' \in [Requests -> Requests \cup {None}]
            /\ \A s \in applied' : movement[s].kind = "reverse" =>
                 reversedBy'[movement[s].of] # None
        BY <2>1, <3>1, <3>2 DEF BooksFit
      <3> QED
        BY <2>1, <2>2, <2>3, <3>3 DEF BooksFit
    <2> QED
      BY <2>4, <2>5
  <1>3. ASSUME NEW r \in Requests, RecordFailure(r)
        PROVE  BooksFit'
    BY <1>3 DEF RecordFailure, BooksFit
  <1>4. ASSUME NEW a \in Accounts, Repair(a)
        PROVE  BooksFit'
    <2>1. balance' \in [Accounts -> Int]
      BY <1>4, LedgerBalanceIsInt DEF Repair, BooksFit
    <2> QED
      BY <1>4, <2>1 DEF Repair, BooksFit
  <1>5. CASE Tick
    BY <1>1, <1>5 DEF Tick
  <1> QED
    BY <1>1, <1>2, <1>3, <1>4, <1>5, ReadingChangesNothing DEF Next, BooksNext

\* Rows are stamped within the bounds of the clock, the ledger's first.
LEMMA StampsFitKept ==
  ASSUME BooksFit, StampsFit, [Next]_vars
  PROVE  StampsFit'
  <1>0. \A t : t \in {clock - 1, clock} => t \in Time
    BY BoundsAssumption DEF StampsFit, Time
  <1>1. CASE UNCHANGED books /\ clock' = clock
    BY <1>1 DEF books, StampsFit
  <1>2. ASSUME NEW r \in Requests, Commit(r)
        PROVE  StampsFit'
    <2>1. /\ UNCHANGED <<movement, failed, clock>> /\ r \notin failed
          /\ applied' = applied \cup {r}
      BY <1>2 DEF Commit, Atomic!Apply
    <2>2. PICK t \in {clock - 1, clock}, u \in {clock - 1, clock} :
            /\ t <= u
            /\ ledgerAt' = [ledgerAt EXCEPT ![r] = t]
            /\ rowAt' = [rowAt EXCEPT ![r] = u]
      BY <1>2 DEF Commit, Stamp
    <2>3. t \in Time /\ u \in Time
      BY <1>0
    <2>4. ledgerAt' \in [Requests -> Time \cup {Never}] /\ rowAt' \in [Requests -> Time \cup {Never}]
      BY <2>2, <2>3 DEF StampsFit
    <2>5. \A s \in applied' : 0 <= ledgerAt'[s] /\ ledgerAt'[s] <= rowAt'[s]
      BY <2>1, <2>2, <2>3 DEF StampsFit, BooksFit, Time
    <2>6. \A s \in failed' : rowAt'[s] # Never /\ movement'[s].kind \in {"debit", "transfer"}
      BY <2>1, <2>2 DEF StampsFit
    <2> QED
      BY <2>1, <2>4, <2>5, <2>6 DEF StampsFit
  <1>3. ASSUME NEW r \in Requests, RecordFailure(r)
        PROVE  StampsFit'
    <2>1. /\ UNCHANGED <<movement, applied, ledgerAt, clock>> /\ r \notin applied
          /\ failed' = failed \cup {r} /\ movement[r].kind \in {"debit", "transfer"}
      BY <1>3 DEF RecordFailure
    <2>2. PICK u \in {clock - 1, clock} : rowAt' = [rowAt EXCEPT ![r] = u]
      BY <1>3 DEF RecordFailure
    <2>3. u \in Time
      BY <1>0
    <2>4. rowAt' \in [Requests -> Time \cup {Never}]
      BY <2>2, <2>3 DEF StampsFit
    <2>5. \A s \in applied' : 0 <= ledgerAt'[s] /\ ledgerAt'[s] <= rowAt'[s]
      BY <2>1, <2>2 DEF StampsFit, BooksFit
    <2>6. \A s \in failed' : rowAt'[s] # Never /\ movement'[s].kind \in {"debit", "transfer"}
      BY <2>1, <2>2, <2>3 DEF StampsFit, Time, Never
    <2>7. failed' \subseteq Requests /\ IsFiniteSet(failed') /\ applied' \cap failed' = {}
      BY <2>1, FS_AddElement DEF StampsFit
    <2> QED
      BY <2>1, <2>4, <2>5, <2>6, <2>7 DEF StampsFit
  <1>4. ASSUME NEW a \in Accounts, Repair(a)
        PROVE  StampsFit'
    BY <1>4 DEF Repair, StampsFit
  <1>5. CASE Tick
    BY <1>5, BoundsAssumption DEF Tick, books, StampsFit
  <1> QED
    BY <1>1, <1>2, <1>3, <1>4, <1>5, ReadingChangesNothing DEF Next, BooksNext

-----------------------------------------------------------------------------
(* The report.                                                             *)

\* What the report keeps when somebody changes the accounts in A.
LEMMA ReportDisturbed ==
  ASSUME ReportFits, NEW A, Disturbed(A),
         \A a \in Accounts \ A : balance'[a] = balance[a] /\ LedgerBalance(a)' = LedgerBalance(a)
  PROVE  ReportFits'
  <1>1. report' = [report EXCEPT !.quiet = @ \ A]
    BY DEF Disturbed
  <1>2. /\ DOMAIN report' = DOMAIN report
        /\ report'.quiet = report.quiet \ A
        /\ report'.sum = report.sum /\ report'.scope = report.scope /\ report'.step = report.step
        /\ report'.listed = report.listed /\ report'.left = report.left
        /\ report'.cached = report.cached
    BY <1>1 DEF ReportFits, NoReport
  <1> QED
    BY <1>2 DEF ReportFits, NoReport

\* Reading changes no account.
LEMMA ReportStep ==
  ASSUME BooksFit, StampsFit, ReportFits, ReportNext
  PROVE  ReportFits'
  <1>1. \A a \in Accounts : balance'[a] = balance[a] /\ LedgerBalance(a)' = LedgerBalance(a)
    BY ReadingChangesNothing, LedgerBalanceSame DEF books
  <1>2. ASSUME NEW scope \in SUBSET Accounts, NEW full, Snapshot(scope, full)
        PROVE  ReportFits'
    <2>1. report' = [NoReport EXCEPT !.step = "sums", !.scope = scope, !.full = full,
                                     !.cached = balance, !.left = scope, !.quiet = Accounts]
      BY <1>2 DEF Snapshot
    <2>2. /\ DOMAIN report' = DOMAIN NoReport
          /\ report'.step = "sums" /\ report'.scope = scope /\ report'.left = scope
          /\ report'.cached = balance /\ report'.listed = {} /\ report'.quiet = Accounts
          /\ report'.sum = [a \in Accounts |-> 0]
      BY <2>1 DEF NoReport
    <2>3. report'.step \notin Listing /\ report'.scope \subseteq Accounts
      BY <2>2 DEF Listing
    <2>4. report'.cached \in [Accounts -> Int] /\ report'.sum \in [Accounts -> Int]
      BY <2>2 DEF BooksFit
    <2> QED
      BY <1>1, <2>2, <2>3, <2>4 DEF ReportFits
  <1>3. ASSUME NEW a \in Accounts, SumLedgerOf(a)
        PROVE  ReportFits'
    <2>1. report.step = "sums" /\ a \in report.left
      BY <1>3 DEF SumLedgerOf
    <2>2. report' = [report EXCEPT !.sum[a] = LedgerBalance(a), !.left = @ \ {a},
                                   !.step = AfterSum(a)]
      BY <1>3 DEF SumLedgerOf
    <2>3. /\ DOMAIN report' = DOMAIN report
          /\ report'.sum = [report.sum EXCEPT ![a] = LedgerBalance(a)]
          /\ report'.left = report.left \ {a} /\ report'.step = AfterSum(a)
          /\ report'.scope = report.scope /\ report'.quiet = report.quiet
          /\ report'.cached = report.cached /\ report'.listed = report.listed
      BY <2>2 DEF ReportFits, NoReport
    <2>4. /\ AfterSum(a) \in {"sums"} \cup Listing
          /\ AfterSum(a) \in Listing => report.left = {a}
      BY DEF AfterSum, Listing
    <2>5. \A b \in Accounts : report'.sum[b] = IF b = a THEN LedgerBalance(a) ELSE report.sum[b]
      BY <2>3 DEF ReportFits
    <2>6. \A b \in report.scope \cap report.quiet :
            /\ report.cached[b] = balance'[b]
            /\ b \notin report.left \ {a} => report'.sum[b] = LedgerBalance(b)'
      BY <1>1, <2>1, <2>5 DEF ReportFits
    <2>7. report'.sum \in [Accounts -> Int]
      BY <2>3, LedgerBalanceIsInt DEF ReportFits
    <2> QED
      BY <2>1, <2>3, <2>4, <2>6, <2>7 DEF ReportFits, NoReport
  <1>4. ASSUME NEW step \in Listing, NEW next \in Listing, NEW type, List(step, type, {}, next)
        PROVE  ReportFits'
    <2>1. /\ DOMAIN report' = DOMAIN report
          /\ report'.step = next /\ report.step = step
          /\ report'.listed = report.listed \cup ({type} \X {})
          /\ report'.scope = report.scope /\ report'.quiet = report.quiet
          /\ report'.cached = report.cached /\ report'.sum = report.sum
          /\ report'.left = report.left
      BY <1>4 DEF List, ReportFits, NoReport
    <2>2. report'.listed = {}
      BY <2>1 DEF ReportFits
    <2> QED
      BY <1>1, <2>1, <2>2 DEF ReportFits, NoReport, Listing
  <1>5. CASE RunFullReconciliation \/ \E a \in Accounts : ReconcileSingleAccount(a)
    BY <1>2, <1>5 DEF RunFullReconciliation, ReconcileSingleAccount
  <1>6. CASE ListUnbalanced
    <2>1. {r \in applied : Side(movement[r], "DEBIT") # Side(movement[r], "CREDIT")} = {}
      BY SidesBalance DEF BooksFit
    <2> QED
      BY <1>4, <1>6, <2>1 DEF ListUnbalanced, Listing
  <1>7. CASE ListTransfersWithoutLedger
    <2>1. {r \in applied : /\ movement[r].kind = "transfer"
                           /\ reversedBy[r] = None
                           /\ ledgerAt[r] = Never} = {}
      BY DEF StampsFit, Never
    <2> QED
      BY <1>4, <1>7, <2>1 DEF ListTransfersWithoutLedger, Listing
  <1>8. CASE ListReversalsWithoutReference
    <2>1. {t \in applied : /\ \E r \in applied : movement[r].kind = "reverse" /\ movement[r].of = t
                           /\ reversedBy[t] = None} = {}
      BY DEF BooksFit
    <2> QED
      BY <1>4, <1>8, <2>1 DEF ListReversalsWithoutReference, Listing
  <1> QED
    BY <1>3, <1>5, <1>6, <1>7, <1>8 DEF ReportNext

\* Whoever changes an account the report is about disturbs it.
LEMMA ReportFitsKept ==
  ASSUME BooksFit, StampsFit, ReportFits, [Next]_vars
  PROVE  ReportFits'
  <1>1. CASE UNCHANGED <<books, report>>
    <2>1. \A a \in Accounts : LedgerBalance(a)' = LedgerBalance(a)
      BY <1>1, LedgerBalanceSame DEF books
    <2> QED
      BY <1>1, <2>1 DEF books, ReportFits, NoReport
  <1>2. ASSUME NEW r \in Requests, Commit(r)
        PROVE  ReportFits'
    <2>1. /\ UNCHANGED <<movement, opened>> /\ applied' = applied \cup {r}
          /\ balance' = Atomic!Moved(movement[r])
          /\ Disturbed({movement[r].debit, movement[r].credit})
      BY <1>2 DEF Commit, Atomic!Apply
    <2>2. \A a \in Accounts \ {movement[r].debit, movement[r].credit} :
            balance'[a] = balance[a] /\ LedgerBalance(a)' = LedgerBalance(a)
      BY <2>1, LedgerBalanceSame DEF Atomic!Moved
    <2> QED
      BY <2>1, <2>2, ReportDisturbed
  <1>3. ASSUME NEW r \in Requests, RecordFailure(r)
        PROVE  ReportFits'
    <2>1. UNCHANGED <<movement, opened, applied, balance>> /\ Disturbed({movement[r].debit})
      BY <1>3 DEF RecordFailure
    <2>2. \A a \in Accounts : LedgerBalance(a)' = LedgerBalance(a)
      BY <2>1, LedgerBalanceSame
    <2> QED
      BY <2>1, <2>2, ReportDisturbed
  <1>4. ASSUME NEW a \in Accounts, Repair(a)
        PROVE  ReportFits'
    <2>1. /\ UNCHANGED <<movement, opened, applied>> /\ Disturbed({a})
          /\ balance' = [balance EXCEPT ![a] = LedgerBalance(a)]
      BY <1>4 DEF Repair
    <2>2. \A b \in Accounts \ {a} : balance'[b] = balance[b] /\ LedgerBalance(b)' = LedgerBalance(b)
      BY <2>1, LedgerBalanceSame DEF BooksFit
    <2> QED
      BY <2>1, <2>2, ReportDisturbed
  <1>5. CASE ReaderNext
    <2>1. UNCHANGED <<books, report>>
      BY <1>5
         DEF ReaderNext, Ask, ReadStatementRows, ReadHistoryPage, ReadTransfers,
             ReadOpeningBalance, TurnPage, AuditStatement, AnswerStatement, ReaderFails
    <2> QED
      BY <1>1, <2>1
  <1>6. CASE Tick \/ UNCHANGED vars
    BY <1>1, <1>6 DEF Tick, vars
  <1> QED
    BY <1>2, <1>3, <1>4, <1>5, <1>6, ReportStep DEF Next, BooksNext

-----------------------------------------------------------------------------
(* The reader.                                                             *)

\* What is known of the reader and the audit log, in one formula.
ReaderInv == ReaderFits /\ DocumentsAreAudited

\* A query of the reader adds to what it read, and answers nothing.
LEMMA QueryStep ==
  ASSUME ReaderInv, audit' = audit, DOMAIN reader' = DOMAIN reader,
         reader.step \in Reading, reader'.step \in (Reading \ {"answer"}) \cup {"done"},
         reader'.query = reader.query, reader'.answer = reader.answer
  PROVE  ReaderInv'
  BY DEF ReaderInv, ReaderFits, DocumentsAreAudited, Reading

\* Every step of the reader.
LEMMA ReaderStep ==
  ASSUME ReaderInv, ReaderNext
  PROVE  ReaderInv'
  <1>0. DOMAIN reader = DOMAIN NoReader(NoQuery)
    BY DEF ReaderInv, ReaderFits
  <1>1. ASSUME NEW q \in Queries, Ask(q)
        PROVE  ReaderInv'
    <2>1. /\ reader.step = "none" /\ audit' = audit
          /\ DOMAIN reader' = DOMAIN NoReader(NoQuery) /\ reader'.query = q
          /\ \/ reader'.step = "done" /\ reader'.answer = "REFUSED"
             \/ reader'.step = "rows" /\ reader'.answer = "none"
      BY <1>1 DEF Ask, NoReader
    <2> QED
      BY <2>1 DEF ReaderInv, ReaderFits, DocumentsAreAudited, Reading
  <1>2. CASE ReadStatementRows \/ ReadHistoryPage
    <2>1. /\ reader.step = "rows" /\ audit' = audit
          /\ DOMAIN reader' = DOMAIN reader /\ reader'.step = "links"
          /\ reader'.query = reader.query /\ reader'.answer = reader.answer
      BY <1>0, <1>2 DEF ReadStatementRows, ReadHistoryPage, NoReader
    <2> QED
      BY <2>1, QueryStep DEF Reading
  <1>3. CASE ReadTransfers
    <2>1. /\ reader.step = "links" /\ audit' = audit
          /\ DOMAIN reader' = DOMAIN reader /\ reader'.step = "opening"
          /\ reader'.query = reader.query /\ reader'.answer = reader.answer
      BY <1>0, <1>3 DEF ReadTransfers, NoReader
    <2> QED
      BY <2>1, QueryStep DEF Reading
  <1>4. CASE ReadOpeningBalance
    <2>1. /\ reader.step = "opening" /\ audit' = audit
          /\ DOMAIN reader' = DOMAIN reader /\ reader'.step \in {"audit", "page"}
          /\ reader'.query = reader.query /\ reader'.answer = reader.answer
      BY <1>0, <1>4 DEF ReadOpeningBalance, NoReader
    <2> QED
      BY <2>1, QueryStep DEF Reading
  <1>5. CASE TurnPage
    <2>1. /\ reader.step = "page" /\ audit' = audit
          /\ DOMAIN reader' = DOMAIN reader /\ reader'.step \in {"rows", "done"}
          /\ reader'.query = reader.query /\ reader'.answer = reader.answer
      BY <1>0, <1>5 DEF TurnPage, NoReader
    <2> QED
      BY <2>1, QueryStep DEF Reading
  <1>6. CASE AuditStatement
    <2>1. /\ reader.step = "audit" /\ DOMAIN reader' = DOMAIN reader
          /\ reader'.step = "answer" /\ reader'.query = reader.query
          /\ reader'.answer = reader.answer
          /\ reader.query.format = "json" \/ "STATEMENT_DOWNLOADED" \in audit'
      BY <1>0, <1>6 DEF AuditStatement, NoReader
    <2> QED
      BY <2>1 DEF ReaderInv, ReaderFits, DocumentsAreAudited, Reading
  <1>7. CASE AnswerStatement
    <2>1. /\ reader.step = "answer" /\ DOMAIN reader' = DOMAIN reader /\ audit' = audit
          /\ reader'.step = "done" /\ reader'.query = reader.query
          /\ reader'.answer = IF reader.query.format = "json" THEN "ERROR" ELSE reader.query.format
      BY <1>0, <1>7 DEF AnswerStatement, NoReader
    <2>2. reader.query \in Queries
      BY <2>1 DEF ReaderInv, ReaderFits
    <2>3. reader.query.format \in Formats
      BY <2>2, QueriesAssumption DEF Query
    <2> QED
      BY <2>1, <2>2, <2>3 DEF ReaderInv, ReaderFits, DocumentsAreAudited, Reading, Formats
  <1>8. CASE ReaderFails
    <2>1. /\ reader.step \notin {"none", "done"} /\ audit' = audit
          /\ DOMAIN reader' = DOMAIN NoReader(NoQuery) /\ reader'.step = "done"
          /\ reader'.query = reader.query /\ reader'.answer = "ERROR"
      BY <1>8 DEF ReaderFails, NoReader
    <2> QED
      BY <2>1 DEF ReaderInv, ReaderFits, DocumentsAreAudited, Reading
  <1> QED
    BY <1>1, <1>2, <1>3, <1>4, <1>5, <1>6, <1>7, <1>8 DEF ReaderNext

\* The bank and the report leave the reader's query, step and answer alone.
LEMMA ReaderInvKept ==
  ASSUME ReaderInv, [Next]_vars
  PROVE  ReaderInv'
  <1>1. CASE UNCHANGED <<reader, audit>>
    BY <1>1 DEF ReaderInv, ReaderFits, DocumentsAreAudited
  <1>2. ASSUME NEW A, Disturbed(A), audit' = audit
        PROVE  ReaderInv'
    <2>1. /\ DOMAIN reader' = DOMAIN reader /\ reader'.step = reader.step
          /\ reader'.query = reader.query /\ reader'.answer = reader.answer
      BY <1>2 DEF Disturbed, ReaderInv, ReaderFits, NoReader
    <2> QED
      BY <1>2, <2>1 DEF ReaderInv, ReaderFits, DocumentsAreAudited
  <1>3. CASE \E r \in Requests : Commit(r) \/ RecordFailure(r)
    BY <1>2, <1>3 DEF Commit, RecordFailure
  <1>4. CASE \E a \in Accounts : Repair(a)
    BY <1>2, <1>4 DEF Repair
  <1>5. CASE ReportNext \/ Tick \/ UNCHANGED vars
    BY <1>1, <1>5
       DEF ReportNext, RunFullReconciliation, ReconcileSingleAccount, Snapshot, SumLedgerOf,
           ListUnbalanced, ListTransfersWithoutLedger, ListReversalsWithoutReference, List,
           Tick, vars
  <1> QED
    BY <1>3, <1>4, <1>5, ReaderStep DEF Next, BooksNext

-----------------------------------------------------------------------------
(* The theorems.                                                           *)

LEMMA InitInv == Init => ReportsInv
  <1> SUFFICES ASSUME Init
               PROVE  ReportsInv
    OBVIOUS
  <1>1. BooksFit
    BY OpeningAssumption, OpenedAssumption, FS_EmptySet DEF Init, BooksFit
  <1>2. StampsFit
    BY BoundsAssumption, FS_EmptySet DEF Init, StampsFit
  <1>3. ReportFits
    BY DEF Init, ReportFits, NoReport, Listing
  <1>4. ReaderFits /\ DocumentsAreAudited
    BY DEF Init, ReaderFits, DocumentsAreAudited, NoReader, Reading
  <1> QED
    BY <1>1, <1>2, <1>3, <1>4 DEF ReportsInv

LEMMA StepInv == ReportsInv /\ [Next]_vars => ReportsInv'
  BY BooksFitKept, StampsFitKept, ReportFitsKept, ReaderInvKept DEF ReportsInv, ReaderInv

\* The books, the report and the reader fit together in every state.
THEOREM ReportsInvariantHolds == Spec => []ReportsInv
  BY InitInv, StepInv, PTL DEF Spec

\* However many accounts there are and whatever the bank does between the queries, the
\* reconciliation report is true of every account left alone since its first query, and
\* accuses no transaction and no transfer.
THEOREM ReportIsTrue == Spec => []QuietAccountsAreReportedTruly
  <1>1. ReportsInv => QuietAccountsAreReportedTruly
    <2> SUFFICES ASSUME ReportsInv, report.step = "done"
                 PROVE  /\ report.listed = {}
                        /\ \A a \in report.scope \cap report.quiet :
                             /\ Difference(a) = balance[a] - LedgerBalance(a)
                             /\ <<"BALANCE_MISMATCH", a>> \in Anomalies <=>
                                  balance[a] # LedgerBalance(a)
      BY DEF QuietAccountsAreReportedTruly
    <2>1. report.listed = {}
      BY DEF ReportsInv, ReportFits
    <2>2. ASSUME NEW a \in report.scope \cap report.quiet
          PROVE  /\ Difference(a) = balance[a] - LedgerBalance(a)
                 /\ <<"BALANCE_MISMATCH", a>> \in Anomalies <=> balance[a] # LedgerBalance(a)
      <3>1. report.cached[a] = balance[a] /\ report.sum[a] = LedgerBalance(a)
        BY DEF ReportsInv, ReportFits, Listing
      <3>2. Difference(a) = balance[a] - LedgerBalance(a)
        BY <3>1 DEF Difference
      <3>3. a \in Accounts
        BY DEF ReportsInv, ReportFits
      <3>4. balance[a] \in Int /\ LedgerBalance(a) \in Int
        BY <3>3, LedgerBalanceIsInt DEF ReportsInv, BooksFit
      <3>5. Difference(a) # 0 <=> balance[a] # LedgerBalance(a)
        BY <3>2, <3>4
      <3>6. <<"BALANCE_MISMATCH", a>> \in Anomalies <=> Difference(a) # 0
        BY DEF Anomalies
      <3> QED
        BY <3>2, <3>5, <3>6
    <2> QED
      BY <2>1, <2>2
  <1> QED
    BY <1>1, ReportsInvariantHolds, PTL

\* A statement that was handed out is in the audit log, and a refused one is not: for
\* every period, format and account.
THEOREM DocumentsAreOnRecord == Spec => []DocumentsAreAudited
  <1>1. ReportsInv => DocumentsAreAudited
    BY DEF ReportsInv
  <1> QED
    BY <1>1, ReportsInvariantHolds, PTL
=============================================================================
