------------------------------- MODULE MCBank -------------------------------
(***************************************************************************)
(* Small instances of Bank: two accounts of two customers, amounts 1 to 3, *)
(* two idempotency keys.  A call's shape is chosen when the behaviour      *)
(* starts, so a run covers every combination of the calls it lists.        *)
(***************************************************************************)
EXTENDS BankInvariant, TLC

CONSTANTS u1, u2, k1, k2

MCOwner == [a \in Accounts |-> IF a = 1 THEN u1 ELSE u2]
MCOpening == [a \in Accounts |-> IF a = 1 THEN 2 ELSE 1]

NothingYet == [a \in Accounts |-> 0]
MCDrifts == {-3, 0, 1}

Ask(op, a, to, n, k, of) ==
  [op |-> op, account |-> a, to |-> to, amount |-> n, key |-> k, of |-> of]

Fund(a, n, k) == Ask("fund", a, Outside, n, k, None)
Debit(a, n, k) == Ask("debit", a, Outside, n, k, None)
Send(a, b, n, k) == Ask("transfer", a, b, n, k, None)
OnAccount(op, a) == Ask(op, a, Outside, 1, NoKey, None)
OnTransfer(op) == {Ask(op, 1, Outside, 1, NoKey, t) : t \in Requests}

\* Every service, with amounts that collide on balances, keys and the daily limit.
AllInputs ==
  {Fund(1, 2, k1), Fund(2, 1, NoKey), Debit(1, 2, k1), Debit(1, 1, k2),
   Send(1, 2, 2, k1), Send(2, 1, 1, k2), Send(1, Outside, 1, k1), Send(1, 1, 1, k2),
   Send(1, 2, 3, k2), OnAccount("repair", 1)}
  \cup OnTransfer("reverse") \cup OnTransfer("block")
  \cup {OnAccount(op, 1) : op \in LifecycleOps}

\* Opposite transfers and their reversals.
ReversalInputs ==
  {Send(1, 2, 1, k1), Send(2, 1, 1, k2), OnAccount("repair", 1)} \cup OnTransfer("reverse")

\* Calls that wait for each other's rows and keys.
WaitingInputs ==
  {Debit(1, 1, k2), Send(1, 2, 1, k1), Send(2, 1, 1, k2)}
  \cup OnTransfer("reverse")

\* Movements beside repairs of drifted balances.
RepairInputs ==
  {Fund(1, 1, k1), Debit(1, 1, k2), Send(1, 2, 1, k1), OnAccount("repair", 1),
   OnAccount("repair", 2)} \cup OnTransfer("reverse")

\* One movement or status change against another.
ClosingInputs == {Fund(1, 1, k1), Send(1, 2, 2, k1), OnAccount("close", 1)}

DuplicateInputs == {Debit(1, 2, k1)}

LimitInputs == {Send(1, 2, 2, k1), Send(1, 2, 2, k2), Fund(1, 2, NoKey)}

CallSymmetry == Permutations(Requests)
=============================================================================
