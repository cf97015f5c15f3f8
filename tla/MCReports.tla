----------------------------- MODULE MCReports -----------------------------
(***************************************************************************)
(* A small instance of Reports: two accounts, three calls, four instants.  *)
(***************************************************************************)
EXTENDS ReportsInvariant

CONSTANTS u1, u2

MCOwner == [a \in Accounts |-> IF a = 1 THEN u1 ELSE u2]
MCOpening == [a \in Accounts |-> IF a = 1 THEN 2 ELSE 0]

\* The first account's ledger agrees with its cached balance, or has one more.
MCOpened == {MCOpening, [MCOpening EXCEPT ![1] = 3]}

Move(kind, from, to, n, of) ==
  [kind |-> kind, debit |-> from, credit |-> to, amount |-> n, key |-> NoKey, of |-> of]

FundIt == Move("fund", Outside, 1, 1, None)
DebitIt == Move("debit", 1, Outside, 3, None)
SendIt == Move("transfer", 1, 2, 2, None)
TakeBack(t) == Move("reverse", 2, 1, 2, t)

\* Money in, money out (covered or not), a transfer and its reversals, with references
\* that come in the order of the calls or in another one.
MCHistories ==
  {<<FundIt, SendIt, TakeBack(2)>>, <<TakeBack(3), FundIt, SendIt>>,
   <<SendIt, TakeBack(1), TakeBack(1)>>, <<DebitIt, FundIt, FundIt>>,
   <<SendIt, DebitIt, TakeBack(1)>>}

Period(by, a, from, to, format) ==
  [what |-> "statement", by |-> by, account |-> a, from |-> from, to |-> to,
   format |-> format]
Pages(a, from) ==
  [what |-> "history", by |-> Owner[a], account |-> a, from |-> from, to |-> MaxTime,
   format |-> "json"]

\* Periods that are over, running, impossible or too long, and somebody else's account.
MCQueries ==
  {Period(u1, 1, 1, 1, "csv"), Period(u2, 2, 1, 1, "pdf"), Period(u1, 1, 0, 2, "json"),
   Period(u1, 2, 1, 1, "csv"), Period(u1, 1, 2, 1, "csv"), Period(u1, 1, 0, 3, "csv"),
   Pages(1, 1), Pages(2, 1)}
=============================================================================
