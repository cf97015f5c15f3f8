-------------------------- MODULE AccountLifecycle --------------------------
(***************************************************************************)
(* account.service.ts: the calls that change Account.status.  Each one     *)
(* checks the transition in one transaction and writes the new status in a *)
(* second one that does not look at the row again.                         *)
(***************************************************************************)
EXTENDS Database

\* accounts/state.ts VALID_TRANSITIONS
ValidAccountTransitions ==
  [s \in AccountStatus |->
     CASE s = "ACTIVE"       -> {"FROZEN", "CLOSED", "RECEIVE_ONLY"}
       [] s = "FROZEN"       -> {"ACTIVE", "CLOSED"}
       [] s = "RECEIVE_ONLY" -> {"ACTIVE", "CLOSED"}
       [] s = "CLOSED"       -> {}]

CanTransitionAccountStatus(from, to) == to \in ValidAccountTransitions[from]

\* The status each call sets.
Target(op) ==
  CASE op = "close"          -> "CLOSED"
    [] op = "freeze"         -> "FROZEN"
    [] op = "setReceiveOnly" -> "RECEIVE_ONLY"
    [] op \in {"unfreeze", "unsetReceiveOnly"} -> "ACTIVE"

\* The first transaction; closing also wants a zero cached balance.
MayChangeStatus(r) ==
  /\ CanTransitionAccountStatus(status[req[r].account], Target(req[r].op))
  /\ req[r].op = "close" => balance[req[r].account] = 0

CheckStatus(r) ==
  /\ req[r].op \in LifecycleOps
  /\ pc[r] = "start"
  /\ \/ ~MayChangeStatus(r) /\ Answer(r, "REJECTED")
     \/ MayChangeStatus(r) /\ Goto(r, "update") /\ UNCHANGED result
  /\ UNCHANGED <<rows, rowLock, req, attempt, seen>>

\* The second transaction: the UPDATE waits for a FOR UPDATE lock, then writes.
UpdateStatus(r) ==
  /\ req[r].op \in LifecycleOps
  /\ pc[r] = "update"
  /\ MayShare(r, req[r].account)
  /\ status' = [status EXCEPT ![req[r].account] = Target(req[r].op)]
  /\ Answer(r, r)
  /\ UNCHANGED <<balance, ledger, txn, transfer, rowLock, req, attempt, seen>>

LifecycleNext(r) == CheckStatus(r) \/ UpdateStatus(r)
=============================================================================
