-------------------------- MODULE ReportsInvariant ---------------------------
(***************************************************************************)
(* Why a reader may rely on what Reports says it may: what the books, the  *)
(* report and the reader are known to be at each step.                     *)
(***************************************************************************)
EXTENDS Reports

\* The steps of a report after its last sum, and of a reader before its answer.
Listing == {"ledger", "transfers", "reversals", "done"}
Reading == {"rows", "links", "opening", "page", "audit", "answer"}

\* Finitely many calls moved their money, and a transfer that was reversed has the
\* reference of a reversal.
BooksFit ==
  /\ movement \in Histories
  /\ balance \in [Accounts -> Int]
  /\ opened \in [Accounts -> Int]
  /\ applied \subseteq Requests /\ IsFiniteSet(applied)
  /\ reversedBy \in [Requests -> Requests \cup {None}]
  /\ \A r \in applied : movement[r].kind = "reverse" => reversedBy[movement[r].of] # None

\* A call that moved its money has a ledger transaction, and a row stamped no earlier; one
\* that failed has a row only.
StampsFit ==
  /\ clock \in 1 .. MaxTime
  /\ ledgerAt \in [Requests -> Time \cup {Never}]
  /\ rowAt \in [Requests -> Time \cup {Never}]
  /\ failed \subseteq Requests /\ IsFiniteSet(failed)
  /\ applied \cap failed = {}
  /\ \A r \in applied : 0 <= ledgerAt[r] /\ ledgerAt[r] <= rowAt[r]
  /\ \A r \in failed : rowAt[r] # Never /\ movement[r].kind \in {"debit", "transfer"}

\* For an account nobody disturbed, what was read of it is still so.
ReportFits ==
  /\ DOMAIN report = DOMAIN NoReport
  /\ report.cached \in [Accounts -> Int]
  /\ report.sum \in [Accounts -> Int]
  /\ report.scope \subseteq Accounts
  /\ report.left \subseteq Accounts
  /\ report.quiet \subseteq Accounts
  /\ report.listed = {}
  /\ report.step \in {"none", "sums"} \cup Listing
  /\ report.step \in Listing => report.left = {}
  /\ report.step # "none" =>
       \A a \in report.scope \cap report.quiet :
         /\ report.cached[a] = balance[a]
         /\ a \notin report.left => report.sum[a] = LedgerBalance(a)

\* A reader has no answer before its last step, and no document before its audit row.
ReaderFits ==
  /\ DOMAIN reader = DOMAIN NoReader(NoQuery)
  /\ reader.step \in {"none", "done"} \cup Reading
  /\ reader.step # "none" => reader.query \in Queries
  /\ reader.step # "done" => reader.answer = "none"
  /\ reader.step = "none" => audit = {}
  /\ reader.step = "answer" =>
       reader.query.format = "json" \/ "STATEMENT_DOWNLOADED" \in audit

\* The reader's fields have their types, and a statement's period is possible.
FieldsFit ==
  /\ reader.opening \in Int
  /\ reader.asked \in Nat /\ reader.asked <= clock
  /\ reader.quiet \in BOOLEAN /\ reader.more \in BOOLEAN
  /\ reader.answer \in Formats \cup {"none", "REFUSED", "ERROR"}
  /\ audit \subseteq {"STATEMENT_GENERATED", "STATEMENT_DOWNLOADED"}
  /\ reader.step = "none" => reader.query = NoQuery
  /\ reader.step = "page" => reader.query.what = "history"
  /\ reader.step \in {"audit", "answer"} => reader.query.what = "statement"
  /\ reader.query.what = "statement" /\ reader.step \in Reading => ~StatementRefused(reader.query)

-----------------------------------------------------------------------------
(* What the reader has read.                                               *)

HasRows ==
  \/ reader.step \in Reading \ {"rows"}
  \/ reader.step = "done" /\ reader.answer \in {"none", "csv", "pdf"}
HasLinks == HasRows /\ reader.step # "links"
HasOpening == HasLinks /\ reader.step # "opening"

\* The rows the query is about.
Wanted == {r \in RowsOf(reader.query.account) : InPeriod(reader.query, r)}

\* Rows do not go away, nor change their stamps.
RowsFit ==
  IF reader.step = "none"
  THEN reader.rows = {} /\ reader.listed = {} /\ reader.visible = {}
  ELSE reader.rows \subseteq Wanted /\ reader.listed \subseteq Wanted /\ reader.visible \subseteq Wanted

\* Only a reversal whose reference was replaced can miss its transfer.
LinksFit ==
  HasLinks =>
    \A r \in reader.rows :
      /\ movement[r].kind = "transfer" => r \in reader.linked
      /\ movement[r].kind = "reverse" /\ r \in reader.linked =>
           movement[r].credit = reader.query.account
      /\ movement[r].kind = "reverse" /\ movement[r].credit = reader.query.account =>
           r \in reader.linked \/ Orphaned(r)

\* Once its period is over, nothing new belongs to a statement.
StatementFits ==
  LET q == reader.query IN
  HasRows /\ q.what = "statement" =>
    /\ q.from <= q.to
    /\ q.to < reader.asked - 1 =>
         /\ reader.rows = Wanted \ failed
         /\ HasOpening => reader.opening = BalanceBefore(q.account, q.from)

IsFirst(r, S) == \A s \in S : s = r \/ Before(r, s)

\* While nobody disturbs the account, nothing follows the rows of the last page, and the
\* opening balance is the ledger's.
HistoryFits ==
  LET q == reader.query IN
  HasRows /\ q.what = "history" =>
    /\ reader.step = "done" => ~reader.more
    /\ reader.quiet =>
         /\ ~reader.more => \A r \in reader.rows, s \in Wanted : Before(r, s) => s \in reader.rows
         /\ HasOpening =>
              /\ reader.rows = {} => reader.opening = LedgerBalance(q.account)
              /\ \A r \in reader.rows : IsFirst(r, reader.rows) =>
                   reader.opening = BalanceBefore(q.account, rowAt[r])

\* Rows that were there when the first page was read and are not listed yet come after
\* every row that is.
PagesFit ==
  /\ ~reader.repeated
  /\ reader.query.what = "statement" => reader.visible = {}
  /\ reader.query.what = "history" =>
       /\ reader.step = "rows" =>
            \A v \in reader.visible \ reader.listed, s \in reader.listed : Before(s, v)
       /\ HasRows /\ reader.step # "done" =>
            \A v \in reader.visible \ (reader.listed \cup reader.rows) :
              reader.more /\ \A s \in reader.listed \cup reader.rows : Before(s, v)
       /\ HasRows /\ reader.step = "done" => reader.visible \subseteq reader.listed

ReportsInv ==
  /\ BooksFit
  /\ StampsFit
  /\ ReportFits
  /\ ReaderFits
  /\ DocumentsAreAudited

ReadersInv ==
  /\ FieldsFit
  /\ RowsFit
  /\ LinksFit
  /\ StatementFits
  /\ HistoryFits
  /\ PagesFit
=============================================================================
