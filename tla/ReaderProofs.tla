---------------------------- MODULE ReaderProofs ----------------------------
(***************************************************************************)
(* Theorems about the statements and histories of Reports: what a reader   *)
(* is told, although it reads in several queries while the bank goes on.   *)
(***************************************************************************)
EXTENDS ReportsProofs

-----------------------------------------------------------------------------
(* The order of the rows.                                                  *)

\* Stamped rows are in a strict order.
LEMMA OrderOfRows ==
  ASSUME StampsFit
  PROVE  /\ \A r, s \in Requests : r = s \/ Before(r, s) \/ Before(s, r)
         /\ \A r, s \in Requests : Before(r, s) => ~ Before(s, r)
         /\ \A r, s, t \in Requests : Before(r, s) /\ Before(s, t) => Before(r, t)
  <1>1. \A r \in Requests : r \in Int /\ rowAt[r] \in Int
    BY RequestsAssumption DEF StampsFit, Time, Never
  <1> QED
    BY <1>1 DEF Before

\* Rows have a first one and a last one.
LEMMA FirstRow ==
  ASSUME StampsFit, NEW S \in SUBSET Requests, IsFiniteSet(S), S # {}
  PROVE  /\ IsFirst(FirstOf(S), S) /\ FirstOf(S) \in S
         /\ \A r \in S : IsFirst(r, S) => r = FirstOf(S)
  <1> DEFINE R == {p \in S \X S : Before(p[1], p[2])}
  <1>1. \A x \in S, y \in S : <<x, y>> \in R <=> Before(x, y)
    OBVIOUS
  <1>2. \A x \in S, y \in S : x = y \/ <<x, y>> \in R \/ <<y, x>> \in R
    BY <1>1, OrderOfRows
  <1>3. \A x \in S, y \in S, z \in S : <<x, y>> \in R /\ <<y, z>> \in R => <<x, z>> \in R
    BY <1>1, OrderOfRows
  <1> HIDE DEF R
  <1>4. \E x \in S : \A y \in S : y = x \/ <<x, y>> \in R
    BY <1>2, <1>3, FirstOfFinite
  <1>5. \E x \in S : \A y \in S : y = x \/ Before(x, y)
    BY <1>1, <1>4
  <1>6. FirstOf(S) \in S /\ \A y \in S : y = FirstOf(S) \/ Before(FirstOf(S), y)
    BY <1>5 DEF FirstOf
  <1> QED
    BY <1>6, OrderOfRows DEF IsFirst

LEMMA LastRow ==
  ASSUME StampsFit, NEW S \in SUBSET Requests, IsFiniteSet(S), S # {}
  PROVE  LastOf(S) \in S /\ \A s \in S : s = LastOf(S) \/ Before(s, LastOf(S))
  <1> DEFINE R == {p \in S \X S : Before(p[2], p[1])}
  <1>1. \A x \in S, y \in S : <<x, y>> \in R <=> Before(y, x)
    OBVIOUS
  <1>2. \A x \in S, y \in S : x = y \/ <<x, y>> \in R \/ <<y, x>> \in R
    BY <1>1, OrderOfRows
  <1>3. \A x \in S, y \in S, z \in S : <<x, y>> \in R /\ <<y, z>> \in R => <<x, z>> \in R
    BY <1>1, OrderOfRows
  <1> HIDE DEF R
  <1>4. \E x \in S : \A y \in S : y = x \/ <<x, y>> \in R
    BY <1>2, <1>3, FirstOfFinite
  <1>5. \E x \in S : \A y \in S : y = x \/ Before(y, x)
    BY <1>1, <1>4
  <1> QED
    BY <1>5 DEF LastOf

\* Whatever comes before a row of a page is on the page or on an earlier one.
LEMMA PageStartsFirst ==
  ASSUME StampsFit, NEW S \in SUBSET Requests, IsFiniteSet(S),
         NEW r \in PageOf(S), NEW s \in S, Before(s, r)
  PROVE  s \in PageOf(S)
  <1> DEFINE R == {t \in S : Before(t, r)}
             T == {t \in S : Before(t, s)}
  <1>1. r \in S /\ Cardinality(R) < PageSize
    BY DEF PageOf
  <1>2. T \subseteq R /\ R \subseteq S
    BY <1>1, OrderOfRows
  <1>3. IsFiniteSet(R) /\ IsFiniteSet(T)
    BY <1>2, FS_Subset
  <1>4. Cardinality(T) <= Cardinality(R) /\ Cardinality(T) \in Int /\ Cardinality(R) \in Int
    BY <1>2, <1>3, FS_Subset, FS_CardinalityType
  <1>5. Cardinality(T) < PageSize
    <2> HIDE DEF R, T
    <2> QED
      BY <1>1, <1>4, BoundsAssumption
  <1> QED
    BY <1>5 DEF PageOf

-----------------------------------------------------------------------------
(* The bank goes on.                                                       *)

\* What the bank does to the books: it adds rows, with the stamps of the moment.
Grows ==
  /\ UNCHANGED <<movement, opened>>
  /\ applied \subseteq applied'
  /\ failed \subseteq failed'
  /\ clock <= clock'
  /\ \A r \in applied : ledgerAt'[r] = ledgerAt[r] /\ rowAt'[r] = rowAt[r]
  /\ \A r \in failed : rowAt'[r] = rowAt[r]
  /\ \A r \in applied' \ applied : ledgerAt'[r] >= clock - 1 /\ rowAt'[r] >= clock - 1
  /\ \A r \in applied : Orphaned(r) => Orphaned(r)'

\* No row is added to account a.
LeavesAlone(a) ==
  /\ \A r \in applied' \ applied : a \notin {movement[r].debit, movement[r].credit}
  /\ \A r \in failed' \ failed : movement[r].debit # a

\* The reader does not notice, but is quiet only if its account was left alone.
ReaderKept ==
  /\ DOMAIN reader' = DOMAIN reader
  /\ reader'.step = reader.step /\ reader'.query = reader.query /\ reader'.rows = reader.rows
  /\ reader'.linked = reader.linked /\ reader'.opening = reader.opening
  /\ reader'.more = reader.more /\ reader'.listed = reader.listed
  /\ reader'.repeated = reader.repeated /\ reader'.visible = reader.visible
  /\ reader'.asked = reader.asked /\ reader'.answer = reader.answer
  /\ reader'.quiet \in BOOLEAN
  /\ reader'.quiet => reader.quiet /\ LeavesAlone(reader.query.account)
  /\ audit' = audit

LEMMA DisturbedReader ==
  ASSUME ReaderFits, FieldsFit, NEW A, Disturbed(A), audit' = audit,
         reader.query.account \notin A => LeavesAlone(reader.query.account)
  PROVE  ReaderKept
  <1>1. reader' = [reader EXCEPT !.quiet = @ /\ reader.query.account \notin A]
    BY DEF Disturbed
  <1>2. reader.quiet \in BOOLEAN /\ "quiet" \in DOMAIN reader
    BY DEF ReaderFits, FieldsFit, NoReader
  <1>3. reader'.quiet = (reader.quiet /\ reader.query.account \notin A)
    BY <1>1, <1>2
  <1>4. /\ DOMAIN reader' = DOMAIN reader
        /\ reader'.step = reader.step /\ reader'.query = reader.query /\ reader'.rows = reader.rows
        /\ reader'.linked = reader.linked /\ reader'.opening = reader.opening
        /\ reader'.more = reader.more /\ reader'.listed = reader.listed
        /\ reader'.repeated = reader.repeated /\ reader'.visible = reader.visible
        /\ reader'.asked = reader.asked /\ reader'.answer = reader.answer
    BY <1>1 DEF ReaderFits, NoReader
  <1> QED
    BY <1>2, <1>3, <1>4 DEF ReaderKept

\* Every step that is not the reader's does this.
LEMMA OthersGrow ==
  ASSUME BooksFit, StampsFit, ReaderFits, FieldsFit, BooksNext \/ ReportNext \/ UNCHANGED vars
  PROVE  Grows /\ ReaderKept
  <1>0. clock \in Int
    BY DEF StampsFit
  <1>1. CASE UNCHANGED <<books, reader, audit>> /\ clock' \in {clock, clock + 1}
    <2>1. Grows
      BY <1>0, <1>1 DEF Grows, books, Orphaned
    <2>2. ReaderKept
      BY <1>1 DEF ReaderKept, FieldsFit, LeavesAlone, books
    <2> QED
      BY <2>1, <2>2
  <1>2. ASSUME NEW r \in Requests, Commit(r)
        PROVE  Grows /\ ReaderKept
    <2>1. /\ UNCHANGED <<movement, opened, failed, clock, audit>>
          /\ r \notin applied /\ r \notin failed
          /\ applied' = applied \cup {r}
          /\ Disturbed({movement[r].debit, movement[r].credit})
      BY <1>2 DEF Commit, Atomic!Apply
    <2>2. PICK t \in {clock - 1, clock}, u \in {clock - 1, clock} :
            /\ ledgerAt' = [ledgerAt EXCEPT ![r] = t]
            /\ rowAt' = [rowAt EXCEPT ![r] = u]
      BY <1>2 DEF Commit, Stamp
    <2>3. /\ \A s \in applied : ledgerAt'[s] = ledgerAt[s] /\ rowAt'[s] = rowAt[s]
          /\ \A s \in failed : rowAt'[s] = rowAt[s]
      BY <2>1, <2>2 DEF StampsFit, BooksFit
    <2>4. \A s \in applied' \ applied : ledgerAt'[s] >= clock - 1 /\ rowAt'[s] >= clock - 1
      BY <1>0, <2>1, <2>2 DEF StampsFit
    <2>5. \A s \in applied : Orphaned(s) => Orphaned(s)'
      <3> SUFFICES ASSUME NEW s \in applied, Orphaned(s)
                   PROVE  movement[s].kind = "reverse" /\ reversedBy'[movement[s].of] # s
        BY <2>1 DEF Orphaned
      <3>1. s # r /\ s \in Requests /\ movement[s].kind = "reverse" /\ movement[s].of \in Requests
        BY <2>1, MovementFacts DEF Orphaned, BooksFit, WellFormed
      <3>2. reversedBy' = reversedBy \/ reversedBy' = [reversedBy EXCEPT ![movement[r].of] = r]
        BY <1>2 DEF Commit
      <3> QED
        BY <3>1, <3>2 DEF Orphaned, BooksFit
    <2>6. Grows
      BY <1>0, <2>1, <2>3, <2>4, <2>5 DEF Grows
    <2>7. ReaderKept
      BY <2>1, DisturbedReader DEF LeavesAlone
    <2> QED
      BY <2>6, <2>7
  <1>3. ASSUME NEW r \in Requests, RecordFailure(r)
        PROVE  Grows /\ ReaderKept
    <2>1. /\ UNCHANGED <<movement, opened, applied, ledgerAt, reversedBy, clock, audit>>
          /\ r \notin applied /\ r \notin failed
          /\ failed' = failed \cup {r}
          /\ Disturbed({movement[r].debit})
      BY <1>3 DEF RecordFailure
    <2>2. PICK u : rowAt' = [rowAt EXCEPT ![r] = u]
      BY <1>3 DEF RecordFailure
    <2>3. \A s \in applied \cup failed : rowAt'[s] = rowAt[s]
      BY <2>1, <2>2 DEF StampsFit, BooksFit
    <2>4. Grows
      BY <1>0, <2>1, <2>3 DEF Grows, Orphaned
    <2>5. ReaderKept
      BY <2>1, DisturbedReader DEF LeavesAlone
    <2> QED
      BY <2>4, <2>5
  <1>4. ASSUME NEW a \in Accounts, Repair(a)
        PROVE  Grows /\ ReaderKept
    <2>1. /\ UNCHANGED <<movement, applied, opened, failed, clock, ledgerAt, rowAt, reversedBy, audit>>
          /\ Disturbed({a})
      BY <1>4 DEF Repair
    <2>2. Grows
      BY <1>0, <2>1 DEF Grows, Orphaned
    <2>3. ReaderKept
      BY <2>1, DisturbedReader DEF LeavesAlone
    <2> QED
      BY <2>2, <2>3
  <1>5. CASE Tick \/ UNCHANGED vars
    BY <1>1, <1>5 DEF Tick, vars
  <1>6. CASE ReportNext
    BY <1>1, <1>6
       DEF ReportNext, RunFullReconciliation, ReconcileSingleAccount, Snapshot, SumLedgerOf,
           ListUnbalanced, ListTransfersWithoutLedger, ListReversalsWithoutReference, List
  <1> QED
    BY <1>2, <1>3, <1>4, <1>5, <1>6 DEF BooksNext

\* The stamps of rows are numbers.
LEMMA StampsAreInts ==
  ASSUME BooksFit', StampsFit'
  PROVE  \A r \in applied' : ledgerAt'[r] \in Int /\ rowAt'[r] \in Int
  <1>1. Time \cup {Never} \subseteq Int
    BY BoundsAssumption DEF Time, Never
  <1> QED
    BY <1>1 DEF BooksFit, StampsFit

\* Rows stay where they are.
LEMMA RowsStay ==
  ASSUME BooksFit, StampsFit, Grows, NEW a
  PROVE  /\ RowsOf(a) \subseteq RowsOf(a)'
         /\ \A r \in RowsOf(a) : r \in applied \cup failed /\ r \in Requests /\ rowAt'[r] = rowAt[r]
  BY DEF Grows, RowsOf, BooksFit, StampsFit

\* The rows of an account without its failed ones are the calls that moved its money.
LEMMA OwnRows ==
  ASSUME StampsFit, NEW a
  PROVE  RowsOf(a) \ failed = {r \in applied : a \in {movement[r].debit, movement[r].credit}}
  BY DEF StampsFit, RowsOf

\* Where no row is added none is found.
LEMMA RowsOfTheSame ==
  ASSUME BooksFit, StampsFit, Grows, NEW a, LeavesAlone(a)
  PROVE  RowsOf(a)' = RowsOf(a)
  BY DEF Grows, LeavesAlone, RowsOf

\* A balance of the past stays when the new entries are later or on other accounts.
LEMMA PastStays ==
  ASSUME BooksFit, BooksFit', StampsFit, StampsFit', Grows, NEW a, NEW t \in Int,
         \A r \in applied' \ applied : t <= ledgerAt'[r] \/ a \notin {movement[r].debit, movement[r].credit}
  PROVE  BalanceBefore(a, t)' = BalanceBefore(a, t)
  <1> DEFINE S == {r \in applied : ledgerAt[r] < t}
             T == {r \in applied' : ledgerAt'[r] < t}
  <1>1. \A r \in applied' : ledgerAt'[r] \in Int
    BY StampsAreInts
  <1>2. \A r : a \in {movement[r].debit, movement[r].credit} => (r \in S <=> r \in T)
    BY <1>1 DEF Grows
  <1> HIDE DEF S, T
  <1>3. /\ {r \in S : movement[r].credit = a} = {r \in T : movement[r].credit = a}
        /\ {r \in S : movement[r].debit = a} = {r \in T : movement[r].debit = a}
    BY <1>2
  <1>4. BalanceBefore(a, t) =
          opened[a] + (Total(Amounts, {r \in S : movement[r].credit = a})
                         - Total(Amounts, {r \in S : movement[r].debit = a}))
    BY DEF BalanceBefore, Net, S
  <1>5. movement' = movement /\ opened' = opened /\ Amounts' = Amounts
    BY DEF Grows, Amounts
  <1>6. BalanceBefore(a, t)' =
          opened[a] + (Total(Amounts, {r \in T : movement[r].credit = a})
                         - Total(Amounts, {r \in T : movement[r].debit = a}))
    BY <1>5 DEF BalanceBefore, Net, T
  <1> QED
    BY <1>3, <1>4, <1>6, Zenon

-----------------------------------------------------------------------------
(* What the reader has read stays true while the bank goes on.             *)

LEMMA FieldsFitGrow ==
  ASSUME FieldsFit, StampsFit, StampsFit', Grows, ReaderKept
  PROVE  FieldsFit'
  <1>1. clock \in Int /\ clock' \in Int /\ clock <= clock'
    BY DEF StampsFit, Grows
  <1> QED
    BY <1>1 DEF FieldsFit, ReaderKept, StatementRefused, DateRangeRefused

LEMMA RowsFitGrow ==
  ASSUME BooksFit, StampsFit, RowsFit, Grows, ReaderKept
  PROVE  RowsFit'
  <1>1. CASE reader.step = "none"
    BY <1>1 DEF RowsFit, ReaderKept
  <1>2. CASE reader.step # "none"
    <2>1. Wanted \subseteq Wanted'
      BY RowsStay DEF Wanted, InPeriod, ReaderKept
    <2> QED
      BY <1>2, <2>1 DEF RowsFit, ReaderKept
  <1> QED
    BY <1>1, <1>2

LEMMA LinksFitGrow ==
  ASSUME BooksFit, StampsFit, RowsFit, LinksFit, Grows, ReaderKept
  PROVE  LinksFit'
  <1> SUFFICES ASSUME HasLinks', NEW r \in reader'.rows
               PROVE  /\ movement'[r].kind = "transfer" => r \in reader'.linked
                      /\ movement'[r].kind = "reverse" /\ r \in reader'.linked =>
                           movement'[r].credit = reader'.query.account
                      /\ movement'[r].kind = "reverse" /\ movement'[r].credit = reader'.query.account =>
                           r \in reader'.linked \/ Orphaned(r)'
    BY DEF LinksFit
  <1>1. HasLinks /\ r \in reader.rows
    BY DEF HasLinks, HasRows, ReaderKept
  <1>2. r \in applied \cup failed
    BY <1>1, RowsStay DEF RowsFit, HasLinks, HasRows, Wanted, Reading
  <1>3. movement[r].kind = "reverse" => r \in applied
    BY <1>2 DEF StampsFit
  <1> QED
    BY <1>1, <1>3 DEF LinksFit, Grows, ReaderKept

LEMMA StatementFitsGrow ==
  ASSUME BooksFit, BooksFit', StampsFit, StampsFit', ReaderFits, FieldsFit, RowsFit, StatementFits,
         Grows, ReaderKept
  PROVE  StatementFits'
  <1> DEFINE q == reader.query
  <1> SUFFICES ASSUME HasRows, q.what = "statement"
               PROVE  StatementFits'
    BY DEF StatementFits, HasRows, ReaderKept
  <1>0. reader.step # "none"
    BY DEF HasRows, Reading
  <1>1. q \in Query /\ q.from \in Nat /\ q.to \in Nat /\ q.from <= q.to
    BY <1>0, QueriesAssumption DEF ReaderFits, StatementFits, Query
  <1>2. ASSUME q.to < reader.asked - 1
        PROVE  /\ Wanted' \ failed' = Wanted \ failed
               /\ BalanceBefore(q.account, q.from)' = BalanceBefore(q.account, q.from)
    <2>1. clock \in Int /\ reader.asked \in Int /\ q.to < clock - 1
      BY <1>1, <1>2 DEF StampsFit, FieldsFit
    <2>2. \A r \in applied' \ applied : q.to < ledgerAt'[r] /\ q.to < rowAt'[r]
      <3> SUFFICES ASSUME NEW r \in applied' \ applied
                   PROVE  q.to < ledgerAt'[r] /\ q.to < rowAt'[r]
        OBVIOUS
      <3>1. ledgerAt'[r] \in Int /\ rowAt'[r] \in Int
        BY StampsAreInts
      <3>2. ledgerAt'[r] >= clock - 1 /\ rowAt'[r] >= clock - 1
        BY DEF Grows
      <3> HIDE DEF q
      <3> QED
        BY <1>1, <2>1, <3>1, <3>2
    <2>3. \A r \in applied' : InPeriod(q, r)' => r \in applied
      <3> SUFFICES ASSUME NEW r \in applied' \ applied, rowAt'[r] <= q.to
                   PROVE  FALSE
        BY DEF InPeriod, ReaderKept
      <3>1. q.to < rowAt'[r] /\ rowAt'[r] \in Int
        BY <2>2, StampsAreInts
      <3> HIDE DEF q
      <3> QED
        BY <1>1, <3>1
    <2>4. Wanted' \ failed' = {r \in applied' : q.account \in {movement[r].debit, movement[r].credit} /\ InPeriod(q, r)'}
      BY OwnRows DEF Wanted, ReaderKept, Grows, StampsFit, RowsOf, InPeriod
    <2>5. Wanted \ failed = {r \in applied : q.account \in {movement[r].debit, movement[r].credit} /\ InPeriod(q, r)}
      BY OwnRows DEF Wanted
    <2>6. \A r \in applied : InPeriod(q, r)' <=> InPeriod(q, r)
      BY DEF Grows, InPeriod, ReaderKept
    <2>7. Wanted' \ failed' = Wanted \ failed
      BY <2>3, <2>4, <2>5, <2>6 DEF Grows
    <2>8. BalanceBefore(q.account, q.from)' = BalanceBefore(q.account, q.from)
      <3>1. \A r \in applied' \ applied : q.from <= ledgerAt'[r]
        <4> SUFFICES ASSUME NEW r \in applied' \ applied PROVE q.from <= ledgerAt'[r]
          OBVIOUS
        <4>1. ledgerAt'[r] \in Int /\ q.to < ledgerAt'[r]
          BY <2>2, StampsAreInts
        <4> HIDE DEF q
        <4> QED
          BY <1>1, <4>1
      <3>2. \A a : BalanceBefore(a, q.from)' = BalanceBefore(a, q.from)
        BY <1>1, <3>1, PastStays DEF ReaderKept
      <3> QED
        BY <3>2 DEF ReaderKept
    <2> QED
      BY <2>7, <2>8
  <1> QED
    BY <1>1, <1>2 DEF StatementFits, HasRows, HasLinks, HasOpening, ReaderKept

\* Rows that are there keep their order.
LEMMA OrderStays ==
  ASSUME BooksFit, StampsFit, Grows, NEW a, NEW r \in RowsOf(a), NEW s \in RowsOf(a)
  PROVE  Before(r, s)' <=> Before(r, s)
  BY RowsStay DEF Before

LEMMA HistoryFitsGrow ==
  ASSUME BooksFit, BooksFit', StampsFit, StampsFit', ReaderFits, RowsFit, HistoryFits,
         Grows, ReaderKept
  PROVE  HistoryFits'
  <1> DEFINE q == reader.query
             a == reader.query.account
  <1> SUFFICES ASSUME HasRows, q.what = "history"
               PROVE  HistoryFits'
    BY DEF HistoryFits, HasRows, ReaderKept
  <1>0. reader.step # "none"
    BY DEF HasRows, Reading
  <1>1. a \in Accounts /\ reader.rows \subseteq Wanted /\ Wanted \subseteq RowsOf(a)
    BY <1>0, QueriesAssumption DEF ReaderFits, RowsFit, Query, Wanted
  <1>2. reader.step = "done" => ~ reader.more
    BY DEF HistoryFits
  <1>3. ASSUME reader'.quiet
        PROVE  /\ ~reader.more =>
                    \A r \in reader.rows, s \in Wanted' : Before(r, s)' => s \in reader.rows
               /\ HasOpening =>
                    /\ reader.rows = {} => reader.opening = LedgerBalance(a)'
                    /\ \A r \in reader.rows : IsFirst(r, reader.rows)' =>
                         reader.opening = BalanceBefore(a, rowAt[r])'
    <2>1. reader.quiet /\ LeavesAlone(a)
      BY <1>3 DEF ReaderKept
    <2>2. RowsOf(a)' = RowsOf(a)
      BY <2>1, RowsOfTheSame DEF ReaderKept
    <2>3. Wanted' = Wanted
      BY <2>2, RowsStay DEF Wanted, InPeriod, ReaderKept
    <2>4. \A r, s \in RowsOf(a) : Before(r, s)' <=> Before(r, s)
      BY OrderStays
    <2>5. LedgerBalance(a)' = LedgerBalance(a)
      <3>1. \A b \in Accounts : LeavesAlone(b) => LedgerBalance(b)' = LedgerBalance(b)
        BY LedgerBalanceSame DEF Grows, LeavesAlone
      <3> QED
        BY <1>1, <2>1, <3>1 DEF ReaderKept
    <2>6. \A r \in reader.rows : IsFirst(r, reader.rows)' <=> IsFirst(r, reader.rows)
      BY <1>1, <2>4 DEF IsFirst, ReaderKept
    <2>7. \A r \in reader.rows :
            rowAt'[r] = rowAt[r] /\ BalanceBefore(a, rowAt[r])' = BalanceBefore(a, rowAt[r])
      <3> SUFFICES ASSUME NEW r \in reader.rows
                   PROVE  /\ rowAt'[r] = rowAt[r]
                          /\ BalanceBefore(a, rowAt[r])' = BalanceBefore(a, rowAt[r])
        OBVIOUS
      <3>1. rowAt'[r] = rowAt[r] /\ r \in Requests
        BY <1>1, RowsStay
      <3>2. rowAt[r] \in Int
        BY <3>1 DEF StampsFit, Time, Never
      <3>3. \A t \in Int : BalanceBefore(a, t)' = BalanceBefore(a, t)
        <4>1. \A b : b = a => \A t \in Int : BalanceBefore(b, t)' = BalanceBefore(b, t)
          BY <2>1, PastStays DEF LeavesAlone
        <4> QED
          BY <4>1 DEF ReaderKept
      <3>4. BalanceBefore(a, rowAt[r])' = BalanceBefore(a, rowAt[r])
        BY <3>1, <3>2, <3>3
      <3> QED
        BY <3>1, <3>4
    <2> QED
      BY <1>1, <2>1, <2>3, <2>4, <2>5, <2>6, <2>7 DEF HistoryFits
  <1> QED
    BY <1>2, <1>3 DEF HistoryFits, HasRows, HasLinks, HasOpening, ReaderKept

LEMMA PagesFitGrow ==
  ASSUME BooksFit, StampsFit, RowsFit, PagesFit, Grows, ReaderKept
  PROVE  PagesFit'
  <1>1. CASE reader.step = "none"
    BY <1>1 DEF PagesFit, HasRows, Reading, ReaderKept
  <1>2. CASE reader.step # "none"
    <2> DEFINE a == reader.query.account
    <2>1. reader.rows \cup reader.listed \cup reader.visible \subseteq RowsOf(a)
      BY <1>2 DEF RowsFit, Wanted
    <2>2. \A r, s \in RowsOf(a) : Before(r, s)' <=> Before(r, s)
      BY OrderStays
    <2>3. \A r, s \in reader.rows \cup reader.listed \cup reader.visible :
            Before(r, s)' <=> Before(r, s)
      BY <2>1, <2>2
    <2> QED
      BY <2>3 DEF PagesFit, HasRows, ReaderKept
  <1> QED
    BY <1>1, <1>2

-----------------------------------------------------------------------------
(* The reader's own steps.                                                 *)

\* They change nothing of what is read.
LEMMA SameBooks ==
  ASSUME UNCHANGED books
  PROVE  /\ \A a : RowsOf(a)' = RowsOf(a) /\ LedgerBalance(a)' = LedgerBalance(a)
         /\ \A a, t : BalanceBefore(a, t)' = BalanceBefore(a, t)
         /\ \A r, s : Before(r, s)' <=> Before(r, s)
         /\ \A q, r : InPeriod(q, r)' <=> InPeriod(q, r)
         /\ \A r : Orphaned(r)' <=> Orphaned(r)
         /\ \A r, S : IsFirst(r, S)' <=> IsFirst(r, S)
         /\ movement' = movement /\ failed' = failed /\ rowAt' = rowAt
  <1>1. /\ movement' = movement /\ failed' = failed /\ rowAt' = rowAt /\ applied' = applied
        /\ opened' = opened /\ ledgerAt' = ledgerAt /\ reversedBy' = reversedBy
    BY DEF books
  <1>2. Amounts' = Amounts
    BY <1>1 DEF Amounts
  <1>3. \A a : RowsOf(a)' = RowsOf(a)
    BY <1>1 DEF RowsOf
  <1>4. \A a : LedgerBalance(a)' = LedgerBalance(a)
    BY <1>1, <1>2, Zenon DEF LedgerBalance, Net
  <1>5. \A a, t : BalanceBefore(a, t)' = BalanceBefore(a, t)
    BY <1>1, <1>2, Zenon DEF BalanceBefore, Net
  <1>6. \A r, s : Before(r, s)' <=> Before(r, s)
    BY <1>1 DEF Before
  <1>7. \A q, r : InPeriod(q, r)' <=> InPeriod(q, r)
    BY <1>1 DEF InPeriod
  <1>8. \A r : Orphaned(r)' <=> Orphaned(r)
    BY <1>1 DEF Orphaned
  <1>9. \A r, S : IsFirst(r, S)' <=> IsFirst(r, S)
    BY <1>6 DEF IsFirst
  <1> QED
    BY <1>1, <1>3, <1>4, <1>5, <1>6, <1>7, <1>8, <1>9

\* The rows a query is about stay the same as long as it is the same query.
LEMMA SameWanted ==
  ASSUME UNCHANGED books, reader'.query = reader.query
  PROVE  Wanted' = Wanted
  BY SameBooks DEF Wanted

\* What the reader is known to be, with the books it reads.
AllOfIt == BooksFit /\ StampsFit /\ ReaderFits /\ ReadersInv

\* A refused reader, one that failed, and one that is about to read its rows.
LEMMA AskKeeps ==
  ASSUME AllOfIt, NEW q \in Queries, Ask(q)
  PROVE  ReadersInv'
  <1>1. /\ reader.step = "none" /\ UNCHANGED <<books, clock, report, audit>>
        /\ reader'.query = q /\ reader'.rows = {} /\ reader'.linked = {} /\ reader'.opening = 0
        /\ reader'.more = FALSE /\ reader'.listed = {} /\ reader'.repeated = FALSE
        /\ reader'.visible = {} /\ reader'.asked = 0 /\ reader'.quiet = FALSE
        /\ \/ reader'.step = "done" /\ reader'.answer = "REFUSED"
           \/ /\ reader'.step = "rows" /\ reader'.answer = "none"
              /\ q.what = "statement" => ~ StatementRefused(q)
    BY DEF Ask, NoReader
  <1>2. q.what \in {"statement", "history"}
    BY QueriesAssumption DEF Query
  <1>3. FieldsFit'
    <2>1. clock' \in Nat
      BY <1>1 DEF AllOfIt, StampsFit
    <2>2. audit' \subseteq {"STATEMENT_GENERATED", "STATEMENT_DOWNLOADED"}
      BY <1>1 DEF AllOfIt, ReadersInv, FieldsFit
    <2>3. reader'.query.what = "statement" /\ reader'.step \in Reading => ~StatementRefused(reader.query)'
      BY <1>1 DEF Reading, StatementRefused, DateRangeRefused
    <2>4. /\ reader'.opening \in Int /\ reader'.asked \in Nat /\ reader'.asked <= clock'
      BY <1>1, <2>1
    <2>6. reader'.quiet \in BOOLEAN /\ reader'.more \in BOOLEAN
      BY DEF Ask, NoReader
    <2>5. /\ reader'.answer \in Formats \cup {"none", "REFUSED", "ERROR"}
          /\ reader'.step \notin {"none", "page", "audit", "answer"}
      BY <1>1
    <2> QED
      BY <2>2, <2>3, <2>4, <2>5, <2>6 DEF FieldsFit
  <1>4. RowsFit' /\ LinksFit' /\ StatementFits' /\ HistoryFits' /\ PagesFit'
    BY <1>1 DEF RowsFit, LinksFit, StatementFits, HistoryFits, PagesFit, HasRows, HasLinks,
                HasOpening, Reading
  <1> QED
    BY <1>3, <1>4 DEF ReadersInv

LEMMA FailureKeeps ==
  ASSUME AllOfIt, ReaderFails
  PROVE  ReadersInv'
  <1>1. /\ reader.step \notin {"none", "done"} /\ UNCHANGED <<books, clock, report, audit>>
        /\ reader'.query = reader.query /\ reader'.rows = {} /\ reader'.linked = {}
        /\ reader'.opening = 0
        /\ reader'.more = FALSE /\ reader'.listed = {} /\ reader'.repeated = FALSE
        /\ reader'.visible = {} /\ reader'.asked = 0 /\ reader'.quiet = FALSE
        /\ reader'.step = "done" /\ reader'.answer = "ERROR"
    BY DEF ReaderFails, NoReader
  <1>2. FieldsFit'
    <2>1. clock' \in Nat
      BY <1>1 DEF AllOfIt, StampsFit
    <2>2. /\ reader'.opening \in Int /\ reader'.asked \in Nat /\ reader'.asked <= clock'
      BY <1>1, <2>1
    <2>3. reader'.quiet \in BOOLEAN /\ reader'.more \in BOOLEAN
      BY DEF ReaderFails, NoReader
    <2> QED
      BY <1>1, <2>2, <2>3 DEF AllOfIt, ReadersInv, FieldsFit, Reading
  <1>3. RowsFit' /\ LinksFit' /\ StatementFits' /\ HistoryFits' /\ PagesFit'
    BY <1>1 DEF RowsFit, LinksFit, StatementFits, HistoryFits, PagesFit, HasRows, HasLinks,
                HasOpening, Reading
  <1> QED
    BY <1>2, <1>3 DEF ReadersInv

\* What the reader finds is made of calls, and it finds finitely many.
LEMMA WantedRows ==
  ASSUME AllOfIt, reader.step # "none"
  PROVE  /\ Wanted \subseteq Requests /\ IsFiniteSet(Wanted)
         /\ reader.rows \subseteq Wanted /\ reader.listed \subseteq Wanted
         /\ reader.visible \subseteq Wanted
         /\ reader.query \in Query
  <1>1. Wanted \subseteq applied \cup failed
    BY DEF Wanted, RowsOf
  <1>2. applied \cup failed \subseteq Requests /\ IsFiniteSet(applied \cup failed)
    BY FS_Union DEF AllOfIt, BooksFit, StampsFit
  <1>3. IsFiniteSet(Wanted)
    BY <1>1, <1>2, FS_Subset
  <1> QED
    BY <1>1, <1>2, <1>3, QueriesAssumption DEF AllOfIt, ReadersInv, RowsFit, ReaderFits

\* The balances it computes are numbers.
LEMMA PastBalanceIsInt ==
  ASSUME BooksFit, NEW a \in Accounts, NEW t
  PROVE  BalanceBefore(a, t) \in Int
  <1> DEFINE S == {r \in applied : ledgerAt[r] < t}
  <1>1. S \in SUBSET Requests /\ IsFiniteSet(S)
    BY FS_Subset DEF BooksFit
  <1>2. Net(S, a) \in Int
    <2> HIDE DEF S
    <2> QED
      BY <1>1, SumsAreInts
  <1>3. opened[a] \in Int
    BY DEF BooksFit
  <1>4. BalanceBefore(a, t) = opened[a] + Net(S, a)
    BY DEF BalanceBefore
  <1> HIDE DEF S
  <1> QED
    BY <1>2, <1>3, <1>4

\* A query of the reader leaves its fields in order.
LEMMA FieldsKept ==
  ASSUME AllOfIt, clock' = clock, reader.step \in Reading, reader'.query = reader.query,
         reader'.opening \in Int, reader'.asked \in {reader.asked, clock},
         reader'.quiet \in BOOLEAN, reader'.more \in BOOLEAN,
         reader'.answer \in Formats \cup {"none", "REFUSED", "ERROR"},
         audit' \subseteq {"STATEMENT_GENERATED", "STATEMENT_DOWNLOADED"},
         reader'.step # "none",
         reader'.step = "page" => reader.query.what = "history",
         reader'.step \in {"audit", "answer"} => reader.query.what = "statement"
  PROVE  FieldsFit'
  <1>1. clock \in Nat /\ clock <= clock
    BY DEF AllOfIt, StampsFit
  <1>2. reader'.asked \in Nat /\ reader'.asked <= clock'
    BY <1>1 DEF AllOfIt, ReadersInv, FieldsFit
  <1> QED
    BY <1>2 DEF AllOfIt, ReadersInv, FieldsFit, StatementRefused, DateRangeRefused

LEMMA StatementRowsKeep ==
  ASSUME AllOfIt, ReadStatementRows
  PROVE  ReadersInv'
  <1>1. /\ reader.step = "rows" /\ reader.query.what = "statement"
        /\ UNCHANGED <<books, clock, report, audit>>
        /\ reader' = [reader EXCEPT !.step = "links", !.asked = clock, !.quiet = TRUE,
                                    !.rows = {r \in RowsOf(reader.query.account) \ failed :
                                                InPeriod(reader.query, r)}]
    BY DEF ReadStatementRows
  <1>2. /\ reader'.step = "links" /\ reader'.asked = clock /\ reader'.quiet \in BOOLEAN
        /\ reader'.query = reader.query /\ reader'.linked = reader.linked
        /\ reader'.opening = reader.opening /\ reader'.more = reader.more
        /\ reader'.listed = reader.listed /\ reader'.repeated = reader.repeated
        /\ reader'.visible = reader.visible /\ reader'.answer = reader.answer
        /\ reader'.rows = {r \in RowsOf(reader.query.account) \ failed : InPeriod(reader.query, r)}
    BY <1>1 DEF AllOfIt, ReaderFits, NoReader
  <1>3. reader'.rows = Wanted \ failed
    BY <1>2 DEF Wanted
  <1>4. Wanted' = Wanted /\ failed' = failed
    BY <1>1, <1>2, SameWanted DEF books
  <1>5. FieldsFit'
    BY <1>1, <1>2, FieldsKept DEF Reading, AllOfIt, ReadersInv, FieldsFit
  <1>6. RowsFit' /\ LinksFit'
    BY <1>1, <1>2, <1>3, <1>4
       DEF RowsFit, LinksFit, HasLinks, AllOfIt, ReadersInv
  <1>7. StatementFits'
    <2>1. ~ (reader.query.from > reader.query.to)
      BY <1>1 DEF AllOfIt, ReadersInv, FieldsFit, StatementRefused, Reading
    <2>2. reader.query.from \in Nat /\ reader.query.to \in Nat
      BY <1>1, WantedRows DEF Query
    <2>3. reader.query.from <= reader.query.to
      BY <2>1, <2>2
    <2> QED
      BY <1>2, <1>3, <1>4, <2>3 DEF StatementFits, HasOpening, HasLinks
  <1>8. HistoryFits' /\ PagesFit'
    BY <1>1, <1>2 DEF HistoryFits, PagesFit, AllOfIt, ReadersInv
  <1> QED
    BY <1>5, <1>6, <1>7, <1>8 DEF ReadersInv

LEMMA HistoryPageKeeps ==
  ASSUME AllOfIt, ReadHistoryPage
  PROVE  ReadersInv'
  <1> DEFINE S == {r \in RowsOf(reader.query.account) : InPeriod(reader.query, r)}
             rest == AfterCursor(S, reader.listed)
             page == PageOf(rest)
  <1>1. /\ reader.step = "rows" /\ reader.query.what = "history"
        /\ UNCHANGED <<books, clock, report, audit>>
        /\ reader' = [reader EXCEPT !.step = "links", !.asked = clock, !.quiet = TRUE,
                                    !.rows = page, !.more = page # rest,
                                    !.repeated = @ \/ page \cap reader.listed # {},
                                    !.visible = IF reader.listed = {} THEN S ELSE @]
    BY DEF ReadHistoryPage
  <1>2. /\ reader'.step = "links" /\ reader'.asked = clock /\ reader'.quiet \in BOOLEAN
        /\ reader'.query = reader.query /\ reader'.linked = reader.linked
        /\ reader'.opening = reader.opening /\ reader'.rows = page
        /\ reader'.listed = reader.listed /\ reader'.answer = reader.answer
        /\ reader'.visible = IF reader.listed = {} THEN S ELSE reader.visible
    <2> HIDE DEF S, page, rest
    <2> QED
      BY <1>1 DEF AllOfIt, ReaderFits, NoReader
  <1>3. reader'.more = (page # rest) /\ reader'.more \in BOOLEAN
    <2> HIDE DEF S, page, rest
    <2> QED
      BY <1>1 DEF AllOfIt, ReaderFits, NoReader
  <1>4. reader'.repeated <=> page \cap reader.listed # {}
    <2>1. ~ reader.repeated
      BY DEF AllOfIt, ReadersInv, PagesFit
    <2>2. reader'.repeated = (reader.repeated \/ page \cap reader.listed # {})
      <3> HIDE DEF S, page, rest
      <3> QED
        BY <1>1 DEF AllOfIt, ReaderFits, NoReader
    <2> HIDE DEF S, page, rest
    <2> QED
      BY <2>1, <2>2
  <1>5. S = Wanted /\ Wanted' = Wanted
    BY <1>1, <1>2, SameWanted DEF Wanted
  <1>6. /\ S \subseteq Requests /\ IsFiniteSet(S) /\ reader.listed \subseteq S
        /\ reader.visible \subseteq S /\ StampsFit
    BY <1>1, <1>5, WantedRows DEF AllOfIt
  <1>7. page \subseteq rest /\ rest \subseteq S /\ IsFiniteSet(rest)
    <2>1. page \subseteq rest /\ rest \subseteq S
      BY DEF PageOf, AfterCursor
    <2> HIDE DEF S, page, rest
    <2> QED
      BY <1>6, <2>1, FS_Subset
  <1> DEFINE last == LastOf(reader.listed)
  <1>8. reader.listed # {} =>
          /\ last \in reader.listed
          /\ \A r \in reader.listed : r = last \/ Before(r, last)
    <2> HIDE DEF S, page, rest
    <2>1. reader.listed \in SUBSET Requests /\ IsFiniteSet(reader.listed)
      BY <1>6, FS_Subset
    <2> QED
      BY <1>6, <2>1, LastRow
  <1>9. \A r \in S : r \in rest <=> (reader.listed = {} \/ Before(last, r))
    BY DEF AfterCursor
  <1> HIDE DEF S, rest, last
  <1>10. \A v \in reader'.visible \ reader.listed : v \in rest
    <2> SUFFICES ASSUME NEW v \in reader'.visible \ reader.listed, reader.listed # {}
                 PROVE  v \in rest
      BY <1>2, <1>9
    <2>1. v \in reader.visible /\ v \in S
      BY <1>2, <1>6
    <2>2. Before(last, v)
      BY <1>1, <1>8, <2>1 DEF AllOfIt, ReadersInv, PagesFit
    <2> QED
      BY <1>9, <2>1, <2>2
  <1>11. \A r \in page, v \in rest \ page : Before(r, v)
    <2> SUFFICES ASSUME NEW r \in page, NEW v \in rest \ page PROVE Before(r, v)
      OBVIOUS
    <2>1. rest \in SUBSET Requests /\ r \in rest
      BY <1>6, <1>7
    <2>2. ~ Before(v, r)
      BY <1>6, <1>7, <2>1, PageStartsFirst
    <2>3. r # v /\ r \in Requests /\ v \in Requests
      <3> HIDE DEF page
      <3> QED
        BY <2>1
    <2> QED
      BY <1>6, <2>2, <2>3, OrderOfRows
  <1>12. \A r \in reader.listed, v \in rest : Before(r, v)
    <2> SUFFICES ASSUME NEW r \in reader.listed, NEW v \in rest PROVE Before(r, v)
      OBVIOUS
    <2>1. /\ Before(last, v) /\ last \in Requests
          /\ r = last \/ Before(r, last)
          /\ v \in Requests /\ r \in Requests
      BY <1>6, <1>7, <1>8, <1>9
    <2> QED
      BY <1>6, <2>1, OrderOfRows
  <1>13. page \cap reader.listed = {}
    <2> SUFFICES ASSUME NEW r \in page \cap reader.listed PROVE FALSE
      OBVIOUS
    <2>1. Before(r, r) /\ r \in Requests
      BY <1>6, <1>7, <1>12
    <2> QED
      BY <1>6, <2>1, OrderOfRows
  <1>14. page = rest => \A r \in page, s \in S : Before(r, s) => s \in page
    <2> SUFFICES ASSUME page = rest, NEW r \in page, NEW s \in S, Before(r, s)
                 PROVE  s \in rest
      OBVIOUS
    <2>1. r \in rest /\ r \in S /\ r \in Requests /\ s \in Requests
      BY <1>6, <1>7
    <2>2. reader.listed # {} => Before(last, r) /\ last \in Requests
      BY <1>6, <1>8, <1>9, <2>1
    <2> QED
      BY <1>6, <1>9, <2>1, <2>2, OrderOfRows
  <1>15. FieldsFit'
    <2> HIDE DEF page
    <2> QED
      BY <1>1, <1>2, <1>3, FieldsKept DEF Reading, AllOfIt, ReadersInv, FieldsFit
  <1>16. RowsFit'
    BY <1>2, <1>5, <1>6, <1>7 DEF RowsFit
  <1>17. LinksFit' /\ StatementFits'
    BY <1>1, <1>2 DEF LinksFit, HasLinks, StatementFits
  <1>18. HistoryFits'
    <2>1. \A r, s : Before(r, s)' <=> Before(r, s)
      BY <1>1, SameBooks
    <2> QED
      BY <1>2, <1>3, <1>5, <1>14, <2>1 DEF HistoryFits, HasOpening, HasLinks
  <1>19. PagesFit'
    <2>1. \A r, s : Before(r, s)' <=> Before(r, s)
      BY <1>1, SameBooks
    <2>2. \A v \in reader'.visible \ (reader.listed \cup page) :
            page # rest /\ \A s \in reader.listed \cup page : Before(s, v)
      BY <1>7, <1>10, <1>11, <1>12
    <2> QED
      BY <1>1, <1>2, <1>3, <1>4, <1>13, <2>1, <2>2 DEF PagesFit, HasRows
  <1> QED
    BY <1>15, <1>16, <1>17, <1>18, <1>19 DEF ReadersInv

LEMMA TransfersKeep ==
  ASSUME AllOfIt, ReadTransfers
  PROVE  ReadersInv'
  <1> DEFINE linked == {r \in reader.rows :
                          \/ movement[r].kind = "transfer"
                          \/ /\ movement[r].kind = "reverse"
                             /\ movement[r].credit = reader.query.account
                             /\ reversedBy[movement[r].of] = r}
  <1>1. /\ reader.step = "links" /\ UNCHANGED <<books, clock, report, audit>>
        /\ reader' = [reader EXCEPT !.step = "opening", !.linked = linked]
    BY DEF ReadTransfers
  <1>2. /\ reader'.step = "opening" /\ reader'.asked = reader.asked /\ reader'.quiet = reader.quiet
        /\ reader'.query = reader.query /\ reader'.linked = linked
        /\ reader'.opening = reader.opening /\ reader'.more = reader.more
        /\ reader'.listed = reader.listed /\ reader'.repeated = reader.repeated
        /\ reader'.visible = reader.visible /\ reader'.answer = reader.answer
        /\ reader'.rows = reader.rows
    <2> HIDE DEF linked
    <2> QED
      BY <1>1 DEF AllOfIt, ReaderFits, NoReader
  <1>3. Wanted' = Wanted
    BY <1>1, <1>2, SameWanted
  <1>4. FieldsFit'
    BY <1>1, <1>2, FieldsKept DEF Reading, AllOfIt, ReadersInv, FieldsFit
  <1>5. RowsFit'
    BY <1>1, <1>2, <1>3 DEF RowsFit, AllOfIt, ReadersInv
  <1>6. LinksFit'
    <2>1. \A r \in reader.rows :
            /\ movement[r].kind = "transfer" => r \in linked
            /\ movement[r].kind = "reverse" /\ r \in linked =>
                 movement[r].credit = reader.query.account
            /\ movement[r].kind = "reverse" /\ movement[r].credit = reader.query.account =>
                 r \in linked \/ Orphaned(r)
      BY DEF Orphaned
    <2> HIDE DEF linked
    <2> QED
      BY <1>1, <1>2, <2>1, SameBooks DEF LinksFit
  <1> HIDE DEF linked
  <1>7. StatementFits'
    BY <1>1, <1>2, <1>3, SameBooks
       DEF StatementFits, HasRows, HasOpening, Reading, AllOfIt, ReadersInv
  <1>8. HistoryFits'
    BY <1>1, <1>2, <1>3, SameBooks
       DEF HistoryFits, HasRows, HasOpening, Reading, AllOfIt, ReadersInv
  <1>9. PagesFit'
    BY <1>1, <1>2, SameBooks DEF PagesFit, HasRows, Reading, AllOfIt, ReadersInv
  <1> QED
    BY <1>4, <1>5, <1>6, <1>7, <1>8, <1>9 DEF ReadersInv

LEMMA OpeningKeeps ==
  ASSUME AllOfIt, ReadOpeningBalance
  PROVE  ReadersInv'
  <1> DEFINE q == reader.query
             a == reader.query.account
             opening ==
               CASE q.what = "statement" -> BalanceBefore(a, q.from)
                 [] q.what = "history" /\ reader.rows # {} ->
                      BalanceBefore(a, rowAt[FirstOf(reader.rows)])
                 [] OTHER -> LedgerBalance(a)
             step == IF q.what = "statement" THEN "audit" ELSE "page"
  <1>1. /\ reader.step = "opening" /\ UNCHANGED <<books, clock, report, audit>>
        /\ reader' = [reader EXCEPT !.step = step, !.opening = opening]
    BY DEF ReadOpeningBalance
  <1>2. /\ reader'.step = step /\ reader'.asked = reader.asked /\ reader'.quiet = reader.quiet
        /\ reader'.query = reader.query /\ reader'.linked = reader.linked
        /\ reader'.opening = opening /\ reader'.more = reader.more
        /\ reader'.listed = reader.listed /\ reader'.repeated = reader.repeated
        /\ reader'.visible = reader.visible /\ reader'.answer = reader.answer
        /\ reader'.rows = reader.rows
    <2> HIDE DEF opening, step
    <2> QED
      BY <1>1 DEF AllOfIt, ReaderFits, NoReader
  <1>3. Wanted' = Wanted
    BY <1>1, <1>2, SameWanted
  <1>4. /\ q \in Query /\ a \in Accounts /\ q.what \in {"statement", "history"}
        /\ reader.rows \in SUBSET Requests /\ IsFiniteSet(reader.rows)
        /\ StampsFit /\ BooksFit
    BY <1>1, WantedRows, FS_Subset DEF Query, AllOfIt
  <1>5. opening \in Int
    BY <1>4, PastBalanceIsInt, LedgerBalanceIsInt
  <1>6. step \in {"audit", "page"} /\ (step = "audit" <=> q.what = "statement")
    OBVIOUS
  <1>7. q.what = "statement" => opening = BalanceBefore(a, q.from)
    OBVIOUS
  <1>8. q.what = "history" =>
          /\ reader.rows = {} => opening = LedgerBalance(a)
          /\ \A r \in reader.rows : IsFirst(r, reader.rows) => opening = BalanceBefore(a, rowAt[r])
    <2>1. q.what = "history" /\ reader.rows = {} => opening = LedgerBalance(a)
      OBVIOUS
    <2>2. ASSUME q.what = "history", NEW r \in reader.rows, IsFirst(r, reader.rows)
          PROVE  opening = BalanceBefore(a, rowAt[r])
      <3>1. r = FirstOf(reader.rows)
        BY <1>4, <2>2, FirstRow
      <3>2. opening = BalanceBefore(a, rowAt[FirstOf(reader.rows)])
        BY <2>2
      <3> QED
        BY <3>1, <3>2
    <2> QED
      BY <2>1, <2>2
  <1> HIDE DEF opening, step
  <1>9. FieldsFit'
    BY <1>1, <1>2, <1>4, <1>5, <1>6, FieldsKept DEF Reading, AllOfIt, ReadersInv, FieldsFit
  <1>10. RowsFit'
    BY <1>1, <1>2, <1>3, <1>6 DEF RowsFit, AllOfIt, ReadersInv
  <1>11. LinksFit'
    BY <1>1, <1>2, <1>6, SameBooks DEF LinksFit, HasLinks, HasRows, Reading, AllOfIt, ReadersInv
  <1>12. StatementFits'
    BY <1>1, <1>2, <1>3, <1>6, <1>7, SameBooks
       DEF StatementFits, HasRows, Reading, AllOfIt, ReadersInv
  <1>13. HistoryFits'
    BY <1>1, <1>2, <1>3, <1>6, <1>8, SameBooks
       DEF HistoryFits, HasRows, Reading, AllOfIt, ReadersInv
  <1>14. PagesFit'
    BY <1>1, <1>2, <1>6, SameBooks DEF PagesFit, HasRows, Reading, AllOfIt, ReadersInv
  <1> QED
    BY <1>9, <1>10, <1>11, <1>12, <1>13, <1>14 DEF ReadersInv

LEMMA TurningKeeps ==
  ASSUME AllOfIt, TurnPage
  PROVE  ReadersInv'
  <1>1. /\ reader.step = "page" /\ UNCHANGED <<books, clock, report, audit>>
        /\ reader' = [reader EXCEPT !.listed = @ \cup reader.rows,
                                    !.step = IF reader.more THEN "rows" ELSE "done"]
    BY DEF TurnPage
  <1>2. /\ reader'.step = (IF reader.more THEN "rows" ELSE "done")
        /\ reader'.asked = reader.asked /\ reader'.quiet = reader.quiet
        /\ reader'.query = reader.query /\ reader'.linked = reader.linked
        /\ reader'.opening = reader.opening /\ reader'.more = reader.more
        /\ reader'.listed = reader.listed \cup reader.rows /\ reader'.repeated = reader.repeated
        /\ reader'.visible = reader.visible /\ reader'.answer = reader.answer
        /\ reader'.rows = reader.rows
    BY <1>1 DEF AllOfIt, ReaderFits, NoReader
  <1>3. Wanted' = Wanted
    BY <1>1, <1>2, SameWanted
  <1>4. /\ reader.query.what = "history" /\ reader.answer = "none"
        /\ reader.more \in BOOLEAN
        /\ HasRows /\ HasLinks /\ HasOpening
    BY <1>1 DEF AllOfIt, ReadersInv, FieldsFit, ReaderFits, HasRows, HasLinks, HasOpening, Reading
  <1>5. FieldsFit'
    BY <1>1, <1>2, FieldsKept DEF Reading, AllOfIt, ReadersInv, FieldsFit
  <1>6. RowsFit'
    BY <1>1, <1>2, <1>3 DEF RowsFit, AllOfIt, ReadersInv
  <1>7. LinksFit'
    BY <1>1, <1>2, <1>4, SameBooks DEF LinksFit, AllOfIt, ReadersInv
  <1>8. StatementFits'
    BY <1>2, <1>4 DEF StatementFits
  <1>9. HistoryFits'
    BY <1>1, <1>2, <1>3, <1>4, SameBooks DEF HistoryFits, HasRows, AllOfIt, ReadersInv, Reading
  <1>10. PagesFit'
    BY <1>1, <1>2, <1>4, SameBooks DEF PagesFit, HasRows, AllOfIt, ReadersInv, Reading
  <1> QED
    BY <1>5, <1>6, <1>7, <1>8, <1>9, <1>10 DEF ReadersInv

LEMMA AnsweringKeeps ==
  ASSUME AllOfIt, AuditStatement \/ AnswerStatement
  PROVE  ReadersInv'
  <1>1. /\ reader.step \in {"audit", "answer"} /\ UNCHANGED <<books, clock, report>>
        /\ reader'.step \in {"answer", "done"}
        /\ reader'.asked = reader.asked /\ reader'.quiet = reader.quiet
        /\ reader'.query = reader.query /\ reader'.linked = reader.linked
        /\ reader'.opening = reader.opening /\ reader'.more = reader.more
        /\ reader'.listed = reader.listed /\ reader'.repeated = reader.repeated
        /\ reader'.visible = reader.visible /\ reader'.rows = reader.rows
        /\ reader'.answer \in {reader.answer, reader.query.format, "ERROR"}
        /\ audit' \subseteq audit \cup {"STATEMENT_GENERATED", "STATEMENT_DOWNLOADED"}
    BY DEF AuditStatement, AnswerStatement, AllOfIt, ReaderFits, NoReader
  <1>2. Wanted' = Wanted
    BY <1>1, SameWanted
  <1>3. /\ reader.query.what = "statement" /\ reader.query.format \in Formats
        /\ HasRows /\ HasLinks /\ HasOpening
    BY <1>1, WantedRows
       DEF Query, AllOfIt, ReadersInv, FieldsFit, HasRows, HasLinks, HasOpening, Reading
  <1>4. FieldsFit'
    <2>1. /\ reader'.answer \in Formats \cup {"none", "REFUSED", "ERROR"}
          /\ audit' \subseteq {"STATEMENT_GENERATED", "STATEMENT_DOWNLOADED"}
      BY <1>1, <1>3 DEF AllOfIt, ReadersInv, FieldsFit
    <2> QED
      BY <1>1, <1>3, <2>1, FieldsKept DEF Reading, AllOfIt, ReadersInv, FieldsFit
  <1>5. RowsFit'
    BY <1>1, <1>2 DEF RowsFit, AllOfIt, ReadersInv
  <1>6. LinksFit'
    BY <1>1, <1>3, SameBooks DEF LinksFit, AllOfIt, ReadersInv
  <1>7. StatementFits'
    BY <1>1, <1>2, <1>3, SameBooks DEF StatementFits, AllOfIt, ReadersInv
  <1>8. HistoryFits' /\ PagesFit'
    BY <1>1, <1>3 DEF HistoryFits, PagesFit, AllOfIt, ReadersInv
  <1> QED
    BY <1>4, <1>5, <1>6, <1>7, <1>8 DEF ReadersInv

-----------------------------------------------------------------------------
(* The invariant.                                                          *)

LEMMA InitReaders == Init => ReadersInv
  <1> SUFFICES ASSUME Init
               PROVE  ReadersInv
    OBVIOUS
  <1>1. /\ reader.step = "none" /\ reader.query = NoQuery /\ reader.rows = {}
        /\ reader.listed = {} /\ reader.visible = {} /\ reader.opening = 0 /\ reader.asked = 0
        /\ ~reader.repeated /\ reader.answer = "none" /\ audit = {} /\ clock = 1
    BY DEF Init, NoReader
  <1>2. reader.quiet \in BOOLEAN /\ reader.more \in BOOLEAN
    BY DEF Init, NoReader
  <1>3. FieldsFit
    BY <1>1, <1>2 DEF FieldsFit, NoQuery
  <1>4. RowsFit /\ LinksFit /\ StatementFits /\ HistoryFits /\ PagesFit
    BY <1>1 DEF RowsFit, LinksFit, StatementFits, HistoryFits, PagesFit, HasRows, HasLinks,
                HasOpening, Reading
  <1> QED
    BY <1>3, <1>4 DEF ReadersInv

LEMMA ReadersInvKept ==
  ASSUME ReportsInv, ReportsInv', ReadersInv, [Next]_vars
  PROVE  ReadersInv'
  <1>1. AllOfIt /\ BooksFit /\ StampsFit /\ ReaderFits /\ BooksFit' /\ StampsFit'
    BY DEF AllOfIt, ReportsInv
  <1>2. /\ FieldsFit /\ RowsFit /\ LinksFit /\ StatementFits /\ HistoryFits /\ PagesFit
    BY DEF ReadersInv
  <1>3. CASE BooksNext \/ ReportNext \/ UNCHANGED vars
    <2>1. Grows /\ ReaderKept
      BY <1>1, <1>2, <1>3, OthersGrow
    <2>2. FieldsFit' /\ RowsFit' /\ LinksFit'
      BY <1>1, <1>2, <2>1, FieldsFitGrow, RowsFitGrow, LinksFitGrow
    <2>3. StatementFits' /\ HistoryFits' /\ PagesFit'
      BY <1>1, <1>2, <2>1, StatementFitsGrow, HistoryFitsGrow, PagesFitGrow
    <2> QED
      BY <2>2, <2>3 DEF ReadersInv
  <1>4. CASE ReaderNext
    BY <1>1, <1>4, AskKeeps, StatementRowsKeep, HistoryPageKeeps, TransfersKeep, OpeningKeeps,
       TurningKeeps, AnsweringKeeps, FailureKeeps DEF ReaderNext
  <1> QED
    BY <1>3, <1>4 DEF Next

\* What a reader has read fits the books it read it from, at each of its steps and however
\* the bank goes on in between.
THEOREM ReadersInvariantHolds == Spec => []ReadersInv
  <1>1. Init => ReadersInv
    BY InitReaders
  <1>2. ReportsInv /\ ReportsInv' /\ ReadersInv /\ [Next]_vars => ReadersInv'
    BY ReadersInvKept
  <1> QED
    BY <1>1, <1>2, ReportsInvariantHolds, PTL DEF Spec

-----------------------------------------------------------------------------
(* The theorems.                                                           *)

\* Rows, stamps, reports and readers have the values their types allow.
THEOREM ReportsTypes == Spec => []TypeOK
  <1>1. ReportsInv /\ ReadersInv => TypeOK
    <2> SUFFICES ASSUME ReportsInv, ReadersInv
                 PROVE  TypeOK
      OBVIOUS
    <2>1. BooksFit /\ StampsFit /\ ReportFits /\ ReaderFits /\ FieldsFit /\ AllOfIt
      BY DEF ReportsInv, ReadersInv, AllOfIt
    <2>2. movement \in [Requests -> Movement]
      BY <2>1, HistoriesAssumption DEF BooksFit
    <2>3. reader.query \in Query \cup {NoQuery}
      BY <2>1, QueriesAssumption DEF FieldsFit, ReaderFits
    <2>4. reader.rows \subseteq Requests
      BY <2>1, WantedRows DEF ReadersInv, RowsFit
    <2> QED
      BY <2>1, <2>2, <2>3, <2>4 DEF TypeOK, BooksFit, StampsFit, ReportFits, FieldsFit, Listing
  <1> QED
    BY <1>1, ReportsInvariantHolds, ReadersInvariantHolds, PTL

\* Every row of the first reading is listed on exactly one page, for any size of the page
\* and any number of rows.
THEOREM PagesAreComplete == Spec => []PagesCoverEveryRow
  <1>1. ReportsInv /\ ReadersInv => PagesCoverEveryRow
    <2> SUFFICES ASSUME ReportsInv, ReadersInv, reader.step = "done", reader.answer = "none"
                 PROVE  reader.visible \subseteq reader.listed
      BY DEF PagesCoverEveryRow, ReadersInv, PagesFit
    <2>1. reader.query.what \in {"statement", "history"}
      BY WantedRows DEF AllOfIt, ReportsInv, Query
    <2> QED
      BY <2>1 DEF ReadersInv, PagesFit, HasRows
  <1> QED
    BY <1>1, ReportsInvariantHolds, ReadersInvariantHolds, PTL

\* Calls of two kinds come to the sum of what each kind comes to.
LEMMA NetUnion ==
  ASSUME BooksFit, NEW S \in SUBSET Requests, NEW T \in SUBSET Requests,
         IsFiniteSet(S), IsFiniteSet(T), S \cap T = {}, NEW a
  PROVE  Net(S \cup T, a) = Net(S, a) + Net(T, a)
  <1> DEFINE in(U) == {r \in U : movement[r].credit = a}
             out(U) == {r \in U : movement[r].debit = a}
  <1>1. \A U : Net(U, a) = Total(Amounts, in(U)) - Total(Amounts, out(U))
    BY DEF Net
  <1>2. in(S \cup T) = in(S) \cup in(T) /\ out(S \cup T) = out(S) \cup out(T)
    OBVIOUS
  <1>3. /\ in(S) \in SUBSET S /\ out(S) \in SUBSET S
        /\ in(T) \in SUBSET T /\ out(T) \in SUBSET T
    OBVIOUS
  <1> HIDE DEF in, out
  <1>4. \A U \in (SUBSET S) \cup (SUBSET T) :
          IsFiniteSet(U) /\ (\A r \in U : Amounts[r] \in Int) /\ Total(Amounts, U) \in Int
    <2> SUFFICES ASSUME NEW U \in (SUBSET S) \cup (SUBSET T)
                 PROVE  /\ IsFiniteSet(U) /\ (\A r \in U : Amounts[r] \in Int)
                        /\ Total(Amounts, U) \in Int
      OBVIOUS
    <2>1. IsFiniteSet(U) /\ U \in SUBSET Requests
      BY FS_Subset
    <2> QED
      BY <2>1, SumsAreInts
  <1>5. /\ Total(Amounts, in(S) \cup in(T)) = Total(Amounts, in(S)) + Total(Amounts, in(T))
        /\ Total(Amounts, out(S) \cup out(T)) = Total(Amounts, out(S)) + Total(Amounts, out(T))
    <2>1. \A U \in SUBSET S, V \in SUBSET T :
            Total(Amounts, U \cup V) = Total(Amounts, U) + Total(Amounts, V)
      <3> SUFFICES ASSUME NEW U \in SUBSET S, NEW V \in SUBSET T
                   PROVE  Total(Amounts, U \cup V) = Total(Amounts, U) + Total(Amounts, V)
        OBVIOUS
      <3>1. U \cap V = {} /\ IsFiniteSet(U) /\ IsFiniteSet(V) /\ \A r \in U \cup V : Amounts[r] \in Int
        BY <1>4
      <3> QED
        BY <3>1, TotalUnion
    <2> QED
      BY <1>3, <2>1
  <1>6. Net(S \cup T, a) = Total(Amounts, in(S) \cup in(T)) - Total(Amounts, out(S) \cup out(T))
    BY <1>1, <1>2, Zenon
  <1>7. /\ Total(Amounts, in(S)) \in Int /\ Total(Amounts, in(T)) \in Int
        /\ Total(Amounts, out(S)) \in Int /\ Total(Amounts, out(T)) \in Int
    BY <1>3, <1>4
  <1> QED
    BY <1>1, <1>5, <1>6, <1>7

\* Only the calls on an account matter to it.
LEMMA NetOfOwn ==
  ASSUME NEW S, NEW T, NEW a,
         \A r : a \in {movement[r].debit, movement[r].credit} => (r \in S <=> r \in T)
  PROVE  Net(S, a) = Net(T, a)
  <1>1. {r \in S : movement[r].credit = a} = {r \in T : movement[r].credit = a}
    OBVIOUS
  <1>2. {r \in S : movement[r].debit = a} = {r \in T : movement[r].debit = a}
    OBVIOUS
  <1> QED
    BY <1>1, <1>2, Zenon DEF Net

\* The lines of a document or page count for what their calls did to the account, and a
\* FAILED row as a debit.
LEMMA LinesAddUp ==
  ASSUME AllOfIt, HasLinks, NEW a, a = reader.query.account,
         \A r \in reader.rows \ failed : ~Orphaned(r)
  PROVE  Total([r \in reader.rows |-> SignedAmount(r)], reader.rows)
           = Net(reader.rows \ failed, a) - Total(Amounts, reader.rows \cap failed)
  <1> DEFINE g == [r \in reader.rows |-> SignedAmount(r)]
             P == {r \in reader.rows \ failed : movement[r].credit = a}
             D == {r \in reader.rows \ failed : movement[r].debit = a}
             F == reader.rows \cap failed
  <1>0. /\ BooksFit /\ StampsFit /\ reader.step # "none"
        /\ \A r \in reader.rows :
             /\ movement[r].kind = "transfer" => r \in reader.linked
             /\ movement[r].kind = "reverse" /\ r \in reader.linked => movement[r].credit = a
             /\ movement[r].kind = "reverse" /\ movement[r].credit = a =>
                  r \in reader.linked \/ Orphaned(r)
    BY DEF AllOfIt, ReadersInv, LinksFit, HasLinks, HasRows, Reading
  <1>1. /\ reader.rows \subseteq Wanted /\ Wanted \subseteq Requests /\ IsFiniteSet(Wanted)
        /\ a \in Accounts
    BY <1>0, WantedRows DEF Query
  <1>2. /\ \A r \in reader.rows \ failed : a \in {movement[r].debit, movement[r].credit}
        /\ \A r \in reader.rows \cap failed : movement[r].kind \in {"debit", "transfer"}
    BY <1>0, <1>1 DEF Wanted, RowsOf, StampsFit
  <1>3. \A r \in reader.rows :
          /\ movement[r].kind \in {"fund", "debit", "transfer", "reverse"}
          /\ movement[r].debit # movement[r].credit
          /\ movement[r].kind = "fund" => movement[r].debit # a
          /\ movement[r].kind = "debit" => movement[r].credit # a
          /\ Amounts[r] = movement[r].amount /\ movement[r].amount \in Int
    <2> SUFFICES ASSUME NEW r \in reader.rows
                 PROVE  /\ movement[r].kind \in {"fund", "debit", "transfer", "reverse"}
                        /\ movement[r].debit # movement[r].credit
                        /\ movement[r].kind = "fund" => movement[r].debit # a
                        /\ movement[r].kind = "debit" => movement[r].credit # a
                        /\ Amounts[r] = movement[r].amount /\ movement[r].amount \in Int
      OBVIOUS
    <2>1. r \in Requests
      BY <1>1
    <2>2. WellFormed(movement) /\ movement[r] \in Movement /\ movement[r].amount \in Int
      BY <1>0, <2>1, MovementFacts
    <2>3. movement[r].kind \in {"fund", "debit", "transfer", "reverse"}
      BY <2>2 DEF Movement
    <2>4. Amounts[r] = movement[r].amount
      BY <2>1 DEF Amounts
    <2>5. movement[r].debit # movement[r].credit
      <3>1. CASE movement[r].kind # "reverse"
        BY <2>1, <2>2, <2>3, <3>1, OutsideAssumption DEF WellFormed
      <3>2. CASE movement[r].kind = "reverse"
        BY <2>1, <2>2, <3>2 DEF WellFormed
      <3> QED
        BY <3>1, <3>2
    <2> QED
      BY <1>1, <2>1, <2>2, <2>3, <2>4, <2>5, OutsideAssumption DEF WellFormed
  <1>4. \A r \in P : g[r] = Amounts[r]
    <2> SUFFICES ASSUME NEW r \in P PROVE IsCredit(r)
      BY <1>3 DEF SignedAmount
    <2>1. r \in reader.rows \ failed /\ movement[r].credit = a
      OBVIOUS
    <2> QED
      BY <1>0, <1>3, <2>1 DEF IsCredit
  <1>5. \A r \in D \cup F : g[r] = - Amounts[r]
    <2> SUFFICES ASSUME NEW r \in D \cup F PROVE ~IsCredit(r)
      BY <1>3 DEF SignedAmount
    <2>1. CASE r \in D
      <3>1. r \in reader.rows \ failed /\ movement[r].debit = a /\ movement[r].credit # a
        BY <1>3, <2>1
      <3> QED
        BY <1>0, <1>3, <3>1 DEF IsCredit
    <2>2. CASE r \in F
      BY <1>2, <2>2 DEF IsCredit
    <2> QED
      BY <2>1, <2>2
  <1>6. /\ reader.rows = P \cup (D \cup F) /\ P \cap (D \cup F) = {} /\ D \cap F = {}
    BY <1>2, <1>3
  <1>7. /\ P \in SUBSET reader.rows /\ D \in SUBSET reader.rows /\ F \in SUBSET reader.rows
        /\ (D \cup F) \in SUBSET reader.rows
    OBVIOUS
  <1>8. Net(reader.rows \ failed, a) = Total(Amounts, P) - Total(Amounts, D)
    BY DEF Net
  <1> HIDE DEF P, D, F, g
  <1>9. \A U \in SUBSET reader.rows :
          IsFiniteSet(U) /\ (\A r \in U : Amounts[r] \in Int) /\ Total(Amounts, U) \in Int
    <2> SUFFICES ASSUME NEW U \in SUBSET reader.rows
                 PROVE  /\ IsFiniteSet(U) /\ (\A r \in U : Amounts[r] \in Int)
                        /\ Total(Amounts, U) \in Int
      OBVIOUS
    <2>1. IsFiniteSet(U) /\ U \in SUBSET Requests
      BY <1>1, FS_Subset
    <2> QED
      BY <1>0, <2>1, SumsAreInts
  <1>10. Total(g, P \cup (D \cup F)) = Total(Amounts, P) - Total(Amounts, D \cup F)
    <2>1. IsFiniteSet(P) /\ IsFiniteSet(D \cup F) /\ \A r \in P \cup (D \cup F) : Amounts[r] \in Int
      BY <1>7, <1>9
    <2> DEFINE M == D \cup F
    <2>2. Total(g, P \cup M) = Total(Amounts, P) - Total(Amounts, M)
      <3>1. /\ IsFiniteSet(M) /\ P \cap M = {} /\ \A r \in P \cup M : Amounts[r] \in Int
            /\ \A r \in M : g[r] = - Amounts[r]
        BY <1>5, <1>6, <2>1
      <3> HIDE DEF M
      <3> QED
        BY <1>4, <2>1, <3>1, TotalSigned
    <2> QED
      BY <2>2
  <1>11. Total(Amounts, D \cup F) = Total(Amounts, D) + Total(Amounts, F)
    <2>1. IsFiniteSet(D) /\ IsFiniteSet(F) /\ \A r \in D \cup F : Amounts[r] \in Int
      BY <1>7, <1>9
    <2> QED
      BY <1>6, <2>1, TotalUnion
  <1>12. Total(g, reader.rows) = Total(Amounts, P) - (Total(Amounts, D) + Total(Amounts, F))
    BY <1>6, <1>10, <1>11, Zenon
  <1>13. Total(Amounts, P) \in Int /\ Total(Amounts, D) \in Int /\ Total(Amounts, F) \in Int
    BY <1>7, <1>9
  <1>14. Total(g, reader.rows) = Net(reader.rows \ failed, a) - Total(Amounts, F)
    BY <1>8, <1>12, <1>13
  <1> QED
    BY <1>14 DEF g, F

\* A statement of a period that was over when it was asked for closes with the ledger's
\* balance at the end of the period, for any calls, stamps and interleavings of the bank
\* with its queries, unless the stamps of a movement straddle a boundary or a second
\* reversal replaced the reference of one it lists.
THEOREM StatementsClose == Spec => []StatementClosesAtLedger
  <1>1. ReportsInv /\ ReadersInv => StatementClosesAtLedger
    <2> DEFINE q == reader.query
               a == reader.query.account
               own == RowsOf(a) \ failed
    <2> SUFFICES ASSUME ReportsInv, ReadersInv,
                        reader.step = "done", q.what = "statement", reader.answer \in {"csv", "pdf"},
                        q.to < reader.asked - 1,
                        \A r \in own : ~Straddles(r, q.from) /\ ~Straddles(r, q.to + 1),
                        \A r \in own : ~Orphaned(r)
                 PROVE  ClosingBalance = LedgerUpTo(a, q.to)
      BY DEF StatementClosesAtLedger
    <2>1. AllOfIt /\ BooksFit /\ StampsFit /\ HasRows /\ HasLinks /\ HasOpening
      BY DEF AllOfIt, ReportsInv, HasRows, HasLinks, HasOpening
    <2>2. /\ q \in Query /\ a \in Accounts /\ q.from \in Nat /\ q.to \in Nat
          /\ IsFiniteSet(reader.rows) /\ reader.rows \subseteq Requests
      BY <2>1, WantedRows, FS_Subset DEF Query
    <2>3. /\ q.from <= q.to
          /\ reader.rows = Wanted \ failed
          /\ reader.opening = BalanceBefore(a, q.from)
      BY <2>1 DEF ReadersInv, StatementFits
    <2> DEFINE S == {r \in applied : ledgerAt[r] < q.from}
               T == {r \in applied : ledgerAt[r] <= q.to}
               early == {r \in own : ledgerAt[r] < q.from}
    <2>4. own = {r \in applied : a \in {movement[r].debit, movement[r].credit}}
      BY <2>1, OwnRows
    <2>5. \A r \in own : /\ ledgerAt[r] \in Int /\ rowAt[r] \in Int /\ ledgerAt[r] <= rowAt[r]
                         /\ r \in applied /\ r \in Requests
      <3>1. Time \cup {Never} \subseteq Int
        BY BoundsAssumption DEF Time, Never
      <3> QED
        BY <2>1, <2>4, <3>1 DEF BooksFit, StampsFit
    <2>6. \A r \in own : /\ ledgerAt[r] < q.from <=> rowAt[r] < q.from
                         /\ ledgerAt[r] <= q.to <=> rowAt[r] <= q.to
      <3> SUFFICES ASSUME NEW r \in own
                   PROVE  /\ ledgerAt[r] < q.from <=> rowAt[r] < q.from
                          /\ ledgerAt[r] <= q.to <=> rowAt[r] <= q.to
        OBVIOUS
      <3>1. /\ ~ (ledgerAt[r] < q.from /\ q.from <= rowAt[r])
            /\ ~ (ledgerAt[r] < q.to + 1 /\ q.to + 1 <= rowAt[r])
        BY DEF Straddles
      <3>2. ledgerAt[r] \in Int /\ rowAt[r] \in Int /\ ledgerAt[r] <= rowAt[r]
        BY <2>5
      <3> HIDE DEF q, a, own
      <3> QED
        BY <2>2, <3>1, <3>2
    <2>7. reader.rows = {r \in own : q.from <= rowAt[r] /\ rowAt[r] <= q.to}
      BY <2>3 DEF Wanted, InPeriod
    <2>8. \A r \in own : r \in T <=> (r \in early \/ r \in reader.rows)
      <3> SUFFICES ASSUME NEW r \in own
                   PROVE  r \in T <=> (r \in early \/ r \in reader.rows)
        OBVIOUS
      <3>1. /\ r \in T <=> rowAt[r] <= q.to
            /\ r \in early <=> rowAt[r] < q.from
            /\ r \in reader.rows <=> q.from <= rowAt[r] /\ rowAt[r] <= q.to
        BY <2>5, <2>6, <2>7
      <3>2. rowAt[r] \in Int
        BY <2>5
      <3> HIDE DEF q, a, own, early, T
      <3> QED
        BY <2>2, <2>3, <3>1, <3>2
    <2>9. early \cap reader.rows = {}
      <3> SUFFICES ASSUME NEW r \in early, r \in reader.rows PROVE FALSE
        OBVIOUS
      <3>1. rowAt[r] < q.from /\ q.from <= rowAt[r] /\ rowAt[r] \in Int
        BY <2>5, <2>6, <2>7
      <3> HIDE DEF q, a, own, early
      <3> QED
        BY <2>2, <3>1
    <2>10. \A r : a \in {movement[r].debit, movement[r].credit} =>
             /\ r \in S <=> r \in early
             /\ r \in T <=> r \in early \cup reader.rows
      BY <2>4, <2>7, <2>8
    <2>11. early \in SUBSET Requests /\ IsFiniteSet(early)
      BY <2>1, <2>5, FS_Subset DEF BooksFit
    <2>12. reader.rows \ failed = reader.rows /\ reader.rows \cap failed = {}
      BY <2>3
    <2>13. ClosingBalance = reader.opening + Total([r \in reader.rows |-> SignedAmount(r)], reader.rows)
      BY DEF ClosingBalance
    <2>14. \A r \in reader.rows \ failed : ~Orphaned(r)
      BY <2>7
    <2>15. reader.opening = opened[a] + Net(S, a) /\ LedgerUpTo(a, q.to) = opened[a] + Net(T, a)
      BY <2>3 DEF BalanceBefore, LedgerUpTo
    <2>16. opened[a] \in Int
      BY <2>1, <2>2 DEF BooksFit
    <2> HIDE DEF S, T, early, own
    <2>17. Net(S, a) = Net(early, a) /\ Net(T, a) = Net(early \cup reader.rows, a)
      <3>1. Net(S, a) = Net(early, a)
        BY <2>10, NetOfOwn
      <3> DEFINE both == early \cup reader.rows
      <3>2. \A r : a \in {movement[r].debit, movement[r].credit} => (r \in T <=> r \in both)
        BY <2>10
      <3> HIDE DEF both
      <3>3. Net(T, a) = Net(both, a)
        BY <3>2, NetOfOwn
      <3> QED
        BY <3>1, <3>3 DEF both
    <2>18. Net(early \cup reader.rows, a) = Net(early, a) + Net(reader.rows, a)
      BY <2>1, <2>2, <2>9, <2>11, NetUnion
    <2>19. Net(early, a) \in Int /\ Net(reader.rows, a) \in Int
      BY <2>1, <2>2, <2>11, SumsAreInts
    <2>20. Total([r \in reader.rows |-> SignedAmount(r)], reader.rows)
             = Net(reader.rows, a) - Total(Amounts, {})
      <3>1. Total([r \in reader.rows |-> SignedAmount(r)], reader.rows)
              = Net(reader.rows \ failed, a) - Total(Amounts, reader.rows \cap failed)
        BY <2>1, <2>14, LinesAddUp
      <3> QED
        BY <2>12, <3>1, Zenon
    <2>21. Total(Amounts, {}) = 0
      BY TotalOfNone
    <2> HIDE DEF q, a
    <2> QED
      BY <2>13, <2>15, <2>16, <2>17, <2>18, <2>19, <2>20, <2>21
  <1> QED
    BY <1>1, ReportsInvariantHolds, ReadersInvariantHolds, PTL

\* The last running balance of a history is the ledger's less the FAILED rows of its page,
\* for any number of calls and pages, unless the account was disturbed, the page starts
\* within an instant, or a second reversal replaced the reference of one of its rows.
THEOREM HistoriesEnd == Spec => []HistoryEndsAtLedger
  <1>1. ReportsInv /\ ReadersInv => HistoryEndsAtLedger
    <2> DEFINE q == reader.query
               a == reader.query.account
               own == RowsOf(a) \ failed
    <2> SUFFICES ASSUME ReportsInv, ReadersInv,
                        reader.step = "done", q.what = "history", reader.answer = "none",
                        reader.quiet,
                        \A r \in RowsOf(a) : rowAt[r] <= q.to,
                        \A r \in own : ~Orphaned(r),
                        CleanStart(own)
                 PROVE  ClosingBalance
                          = LedgerBalance(a) - Total(Amounts, reader.rows \cap failed)
      BY DEF HistoryEndsAtLedger
    <2>1. AllOfIt /\ BooksFit /\ StampsFit /\ HasRows /\ HasLinks /\ HasOpening
      BY DEF AllOfIt, ReportsInv, HasRows, HasLinks, HasOpening
    <2>2. /\ q \in Query /\ a \in Accounts /\ q.from \in Nat /\ q.to \in Nat
          /\ IsFiniteSet(reader.rows) /\ reader.rows \subseteq Requests
          /\ reader.rows \subseteq Wanted /\ Wanted \subseteq Requests
      BY <2>1, WantedRows, FS_Subset DEF Query
    <2>3. /\ ~reader.more
          /\ \A r \in reader.rows, s \in Wanted : Before(r, s) => s \in reader.rows
          /\ reader.rows = {} => reader.opening = LedgerBalance(a)
          /\ \A r \in reader.rows : IsFirst(r, reader.rows) => reader.opening = BalanceBefore(a, rowAt[r])
      BY <2>1 DEF ReadersInv, HistoryFits
    <2>4. own = {r \in applied : a \in {movement[r].debit, movement[r].credit}}
      BY <2>1, OwnRows
    <2> DEFINE lines == reader.rows \ failed
               late == reader.rows \cap failed
    <2>5. lines \in SUBSET Requests /\ IsFiniteSet(lines) /\ late \in SUBSET Requests /\ IsFiniteSet(late)
      BY <2>2, FS_Subset
    <2>6. lines \subseteq own
      BY <2>2 DEF Wanted
    <2>7. Total([r \in reader.rows |-> SignedAmount(r)], reader.rows)
            = Net(lines, a) - Total(Amounts, late)
      <3>1. \A r \in reader.rows \ failed : ~Orphaned(r)
        BY <2>6
      <3> QED
        BY <2>1, <3>1, LinesAddUp
    <2>8. ClosingBalance = reader.opening + Total([r \in reader.rows |-> SignedAmount(r)], reader.rows)
      BY DEF ClosingBalance
    <2>9. Net(lines, a) \in Int /\ Total(Amounts, late) \in Int /\ opened[a] \in Int
      <3> HIDE DEF lines, late
      <3> QED
        BY <2>1, <2>2, <2>5, SumsAreInts DEF BooksFit
    <2>10. LedgerBalance(a) = reader.opening + Net(lines, a) /\ reader.opening \in Int
      <3>1. CASE reader.rows = {}
        <4>1. reader.opening = LedgerBalance(a) /\ LedgerBalance(a) \in Int
          BY <2>1, <2>2, <2>3, <3>1, LedgerBalanceIsInt
        <4>2. lines = {}
          BY <3>1
        <4>3. Net({}, a) = 0
          <5>1. /\ {r \in {} : movement[r].credit = a} = {}
                /\ {r \in {} : movement[r].debit = a} = {}
            OBVIOUS
          <5>2. Net({}, a) = Total(Amounts, {}) - Total(Amounts, {})
            BY <5>1, Zenon DEF Net
          <5>3. Total(Amounts, {}) = 0
            BY TotalOfNone
          <5> QED
            BY <5>2, <5>3
        <4>4. Net(lines, a) = 0
          BY <4>2, <4>3, Zenon
        <4> HIDE DEF lines, a
        <4> QED
          BY <4>1, <4>4
      <3>2. CASE reader.rows # {}
        <4> DEFINE first == FirstOf(reader.rows)
        <4>1. /\ first \in reader.rows /\ IsFirst(first, reader.rows)
              /\ reader.opening = BalanceBefore(a, rowAt[first])
          BY <2>1, <2>2, <2>3, <3>2, FirstRow
        <4> DEFINE S == {r \in applied : ledgerAt[r] < rowAt[first]}
                   early == {r \in own : ledgerAt[r] < rowAt[first]}
        <4>2. \A r \in own : r \in early <=> Before(r, first)
          BY <3>2 DEF CleanStart
        <4>3. \A r \in own : r \in applied /\ r \in Requests
          BY <2>1, <2>4 DEF BooksFit
        <4>4. \A r \in own : r \in early \/ r \in lines
          <5> SUFFICES ASSUME NEW r \in own, r \notin early PROVE r \in reader.rows
            OBVIOUS
          <5>1. ~ Before(r, first) /\ r \in Requests /\ first \in Requests
            BY <2>2, <4>1, <4>2, <4>3
          <5>2. r = first \/ Before(first, r)
            <6> HIDE DEF first, own, early
            <6> QED
              BY <2>1, <5>1, OrderOfRows
          <5>3. CASE r = first
            BY <4>1, <5>3
          <5>4. CASE Before(first, r)
            <6>1. rowAt[r] \in Int /\ rowAt[first] \in Int /\ rowAt[r] <= q.to
              <7>1. Time \cup {Never} \subseteq Int
                BY BoundsAssumption DEF Time, Never
              <7> QED
                BY <2>1, <5>1, <7>1 DEF StampsFit
            <6>2. q.from <= rowAt[first] /\ rowAt[first] <= rowAt[r]
              <7>1. q.from <= rowAt[first]
                BY <2>2, <4>1 DEF Wanted, InPeriod
              <7>2. rowAt[first] < rowAt[r] \/ rowAt[first] = rowAt[r]
                BY <5>4 DEF Before
              <7> HIDE DEF first
              <7> QED
                BY <6>1, <7>1, <7>2
            <6>3. q.from <= rowAt[r]
              <7> HIDE DEF first, q
              <7> QED
                BY <2>2, <6>1, <6>2
            <6>4. r \in Wanted
              BY <6>1, <6>3 DEF Wanted, InPeriod
            <6> QED
              BY <2>3, <4>1, <5>4, <6>4
          <5> QED
            BY <5>2, <5>3, <5>4
        <4>5. early \cap lines = {}
          <5> SUFFICES ASSUME NEW r \in early, r \in reader.rows PROVE FALSE
            OBVIOUS
          <5>1. Before(r, first) /\ r \in Requests /\ first \in Requests
            BY <2>2, <4>1, <4>2
          <5>2. r = first \/ Before(first, r)
            BY <4>1 DEF IsFirst
          <5> HIDE DEF first, early, own
          <5> QED
            BY <2>1, <5>1, <5>2, OrderOfRows
        <4>6. \A r : a \in {movement[r].debit, movement[r].credit} =>
                /\ r \in S <=> r \in early
                /\ r \in applied <=> r \in early \cup lines
          BY <2>4, <2>6, <4>4
        <4>7. early \in SUBSET Requests /\ IsFiniteSet(early)
          BY <2>1, <4>3, FS_Subset DEF BooksFit
        <4>8. reader.opening = opened[a] + Net(S, a) /\ LedgerBalance(a) = opened[a] + Net(applied, a)
          BY <4>1 DEF BalanceBefore, LedgerBalance
        <4> HIDE DEF S, early, own, lines, first
        <4>9. Net(S, a) = Net(early, a)
          BY <4>6, NetOfOwn
        <4>10. Net(applied, a) = Net(early \cup lines, a)
          <5> DEFINE both == early \cup lines
          <5>1. \A r : a \in {movement[r].debit, movement[r].credit} => (r \in applied <=> r \in both)
            BY <4>6
          <5> HIDE DEF both
          <5>2. Net(applied, a) = Net(both, a)
            BY <5>1, NetOfOwn
          <5> QED
            BY <5>2 DEF both
        <4>11. Net(early \cup lines, a) = Net(early, a) + Net(lines, a)
          BY <2>1, <2>5, <4>5, <4>7, NetUnion
        <4>12. Net(early, a) \in Int
          BY <2>1, <4>7, SumsAreInts
        <4> HIDE DEF a
        <4> QED
          BY <2>9, <4>8, <4>9, <4>10, <4>11, <4>12
      <3> QED
        BY <3>1, <3>2
    <2> HIDE DEF lines
    <2>11. ClosingBalance = LedgerBalance(a) - Total(Amounts, late)
      <3> HIDE DEF late, a
      <3> QED
        BY <2>7, <2>8, <2>9, <2>10
    <2> QED
      BY <2>11
  <1> QED
    BY <1>1, ReportsInvariantHolds, ReadersInvariantHolds, PTL
=============================================================================
