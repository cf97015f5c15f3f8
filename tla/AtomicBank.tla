----------------------------- MODULE AtomicBank -----------------------------
(***************************************************************************)
(* What the money services promise, without transactions, locks or retries *)
(* (docs/phase2.md, "Atomicity, idempotency, concurrency"): each accepted  *)
(* call moves its amount once, in one step, between the account it debits  *)
(* and the account it credits; it never takes more than is there; and of   *)
(* the calls that share an idempotency key at most one is accepted.        *)
(***************************************************************************)
EXTENDS Integers

CONSTANTS Accounts, Requests, NoKey, Opening

VARIABLES
  movement,   \* [debit, credit, amount, key] of each call
  balance,    \* what each customer account holds
  applied     \* the calls that have moved their money

Init ==
  /\ balance = Opening
  /\ applied = {}

Covered(m) == m.debit \in Accounts => balance[m.debit] >= m.amount

Moved(m) ==
  [a \in Accounts |->
     CASE a = m.debit  -> balance[a] - m.amount
       [] a = m.credit -> balance[a] + m.amount
       [] OTHER        -> balance[a]]

Apply(r) ==
  LET m == movement[r] IN
  /\ r \notin applied
  /\ \A s \in applied : movement[s].key = m.key => m.key = NoKey
  /\ Covered(m)
  /\ balance' = Moved(m)
  /\ applied' = applied \cup {r}
  /\ UNCHANGED movement

Next == \E r \in Requests : Apply(r)

Spec == Init /\ [][Next]_<<movement, balance, applied>>
=============================================================================
