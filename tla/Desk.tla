-------------------------------- MODULE Desk --------------------------------
(***************************************************************************)
(* The pages on one account: administrators', with forms to fund, debit    *)
(* and freeze it and to block or reverse a transfer out of it, and its     *)
(* owner's, with forms to rename and close it and to open another.  A page *)
(* shows what was there when it was made and offers what was possible      *)
(* then; every call looks in one transaction and writes in the next.       *)
(***************************************************************************)
EXTENDS Integers, Sequences, FiniteSets

CONSTANTS
  Staff,        \* pages administrators have open
  Owner,        \* the page its owner has open
  Sum,          \* what is funded, debited or given back
  MaxAccounts   \* MAX_ACCOUNTS_PER_CUSTOMER

Pages == Staff \cup {Owner}

ASSUME DeskAssumption == Owner \notin Staff /\ {Sum, MaxAccounts} \subseteq Nat \ {0}

VARIABLES
  account,      \* the account
  page,         \* what each page shows, and which of its forms wait for an answer
  calls         \* the calls the pages made, in order, and which others each one met

desk == <<account, page, calls>>

StatusOps == {"freeze", "unfreeze", "setReceiveOnly", "unsetReceiveOnly", "close"}
TransferOps == {"block", "reverse"}
OwnerOps == {"rename", "close", "open"}
DeskOps == {"fund", "debit"} \cup StatusOps \cup TransferOps \cup OwnerOps

\* The account, a transfer of Sum that went out of it, and how many accounts its owner has.
Account == [status : {"ACTIVE", "FROZEN", "RECEIVE_ONLY", "CLOSED"}, balance : Nat,
            named : BOOLEAN, transfer : {"COMPLETED", "BLOCKED", "REVERSED"}, owned : Nat]

\* Mutant: a closed account may be activated.
ValidTransitions_Revived ==
  [ACTIVE |-> {"FROZEN", "CLOSED", "RECEIVE_ONLY"}, FROZEN |-> {"ACTIVE", "CLOSED"},
   RECEIVE_ONLY |-> {"ACTIVE", "CLOSED"}, CLOSED |-> {"ACTIVE"}]

\* accounts/state.ts VALID_TRANSITIONS
ValidTransitions ==
  [ACTIVE |-> {"FROZEN", "CLOSED", "RECEIVE_ONLY"}, FROZEN |-> {"ACTIVE", "CLOSED"},
   RECEIVE_ONLY |-> {"ACTIVE", "CLOSED"}, CLOSED |-> {}]

\* The status a call sets.
NewStatus(op) ==
  CASE op = "close"          -> "CLOSED"
    [] op = "freeze"         -> "FROZEN"
    [] op = "setReceiveOnly" -> "RECEIVE_ONLY"
    [] op \in {"unfreeze", "unsetReceiveOnly"} -> "ACTIVE"

-----------------------------------------------------------------------------
(* The forms.  Every one waits for its answer before it can be sent again. *)

\* Freezing and unfreezing are one form.
FormOf(op) == IF op \in {"freeze", "unfreeze"} THEN "status" ELSE op

Press(p, op) ==
  /\ FormOf(op) \notin page[p].waiting
  /\ page' = [page EXCEPT ![p].waiting = @ \cup {FormOf(op)}]
  /\ calls' = Append(calls, [page |-> p, op |-> op, stage |-> "sent", done |-> FALSE,
                             heard |-> FALSE, silent |-> FALSE, met |-> {}])
  /\ UNCHANGED account

\* Each call of the money forms has an idempotency key of its own.
FundForm(p) == Press(p, "fund")
DebitForm(p) == page[p].shown.balance # 0 /\ Press(p, "debit")
FreezeForm(p) == Press(p, IF page[p].shown.status = "FROZEN" THEN "unfreeze" ELSE "freeze")
BlockTransferForm(p) == page[p].shown.transfer = "COMPLETED" /\ Press(p, "block")
ReverseTransferForm(p) == page[p].shown.transfer # "REVERSED" /\ Press(p, "reverse")
RenameForm(p) == Press(p, "rename")
CloseAccountForm(p) == page[p].shown.balance = 0 /\ Press(p, "close")
CreateAccountForm(p) == Press(p, "open")

\* No page offers receive-only: a program with an administrator's session calls for it.
SessionCall(p) == Press(p, "setReceiveOnly") \/ Press(p, "unsetReceiveOnly")

\* The administrator's pages on the account and on the transfer, the owner's on the
\* account and on all accounts.
AdminAccountDetail(p) == FundForm(p) \/ DebitForm(p) \/ FreezeForm(p)
AdminTransferDetail(p) == BlockTransferForm(p) \/ ReverseTransferForm(p)
AccountDetail(p) ==
  page[p].shown.status # "CLOSED" /\ (RenameForm(p) \/ CloseAccountForm(p))

-----------------------------------------------------------------------------
(* The services behind the routes, two transactions each.                  *)

Refuse(i) == calls' = [calls EXCEPT ![i].stage = "served"]

\* Calls between their two transactions.
Underway == {j \in DOMAIN calls : calls[j].stage = "looked"}

\* The first transaction: the call goes on, is refused or fails.
Look(i, op, mayGoOn) ==
  /\ calls[i].stage = "sent" /\ calls[i].op = op
  /\ \/ Refuse(i)
     \/ /\ mayGoOn
        /\ calls' = [j \in DOMAIN calls |->
                       IF j = i THEN [calls[i] EXCEPT !.stage = "looked", !.met = Underway]
                       ELSE IF j \in Underway THEN [calls[j] EXCEPT !.met = @ \cup {i}]
                       ELSE calls[j]]
  /\ UNCHANGED <<account, page>>

\* What a call wants of the account before it goes on.
MayMoveMoney == account.status \notin {"FROZEN", "CLOSED"}
MayChangeStatus(op) == NewStatus(op) \in ValidTransitions[account.status]
MayClose == MayChangeStatus("close") /\ account.balance = 0
MayRename == account.status # "CLOSED"
MayBlock == account.transfer = "COMPLETED"

\* Mutant: a transfer may be reversed again.
MayReverse_Again == TRUE

MayReverse == account.transfer # "REVERSED"
MayOpen == account.owned < MaxAccounts

\* The second transaction, which does not look again.
Write(i, op, new) ==
  /\ calls[i].stage = "looked" /\ calls[i].op = op
  /\ account' = new
  /\ calls' = [calls EXCEPT ![i].stage = "served", ![i].done = TRUE]
  /\ UNCHANGED page

ChangeStatus(i, op) == Write(i, op, [account EXCEPT !.status = NewStatus(op)])

FundAccount(i) == Write(i, "fund", [account EXCEPT !.balance = @ + Sum])
\* Only the balance is looked at again, under the row's lock.
DebitAccount(i) ==
  account.balance >= Sum /\ Write(i, "debit", [account EXCEPT !.balance = @ - Sum])
FreezeAccount(i) == ChangeStatus(i, "freeze")
UnfreezeAccount(i) == ChangeStatus(i, "unfreeze")
SetReceiveOnly(i) == ChangeStatus(i, "setReceiveOnly")
UnsetReceiveOnly(i) == ChangeStatus(i, "unsetReceiveOnly")
CloseAccount(i) == ChangeStatus(i, "close")
RenameAccount(i) == Write(i, "rename", [account EXCEPT !.named = TRUE])
BlockTransfer(i) == Write(i, "block", [account EXCEPT !.transfer = "BLOCKED"])
ReverseTransfer(i) ==
  Write(i, "reverse", [account EXCEPT !.transfer = "REVERSED", !.balance = @ + Sum])
CreateCustomerAccount(i) == Write(i, "open", [account EXCEPT !.owned = @ + 1])

\* The money is not there, or the second transaction fails.
WriteFails(i) ==
  /\ calls[i].stage = "looked"
  /\ Refuse(i)
  /\ UNCHANGED <<account, page>>

-----------------------------------------------------------------------------
(* The answers.                                                            *)

\* The form waits no longer.
Answered(i) == [page[calls[i].page] EXCEPT !.waiting = @ \ {FormOf(calls[i].op)}]

\* An answer that arrived, and what its page shows then.
Hears(i, shown) ==
  /\ calls[i].stage = "served"
  /\ ~calls[i].silent /\ ~calls[i].heard
  /\ calls' = [calls EXCEPT ![i].heard = TRUE]
  /\ page' = [page EXCEPT ![calls[i].page] = [Answered(i) EXCEPT !.shown = shown]]
  /\ UNCHANGED account

HearError(i) == ~calls[i].done /\ Hears(i, page[calls[i].page].shown)
\* After a success the page is made anew ...
HearSuccess(i) == calls[i].done /\ calls[i].op \notin {"rename", "close"} /\ Hears(i, account)
\* ... or left for the list of accounts ...
HearClosed(i) == calls[i].done /\ calls[i].op = "close" /\ Hears(i, account)
\* ... but not after a rename.
HearRenamed(i) ==
  calls[i].done /\ calls[i].op = "rename" /\ Hears(i, page[calls[i].page].shown)

\* The network fails: the call may still arrive, its answer will not.
Silence(i) ==
  /\ ~calls[i].silent /\ ~calls[i].heard
  /\ calls' = [calls EXCEPT ![i].silent = TRUE]
  /\ page' = [page EXCEPT ![calls[i].page] = Answered(i)]
  /\ UNCHANGED account

\* Somebody comes back to the page.
Reload(p) ==
  /\ page[p].waiting = {}
  /\ page' = [page EXCEPT ![p].shown = account]
  /\ UNCHANGED <<account, calls>>

Hear(i) == HearError(i) \/ HearSuccess(i) \/ HearClosed(i) \/ HearRenamed(i)

-----------------------------------------------------------------------------
\* Whether no call that changed something was between its two transactions with this one.
Alone(i) == \A j \in calls[i].met : ~calls[j].done

\* Some reversal went through.
GivenBack == \E i \in DOMAIN calls : calls[i].op = "reverse" /\ calls[i].done

\* An account closed by a call that met no other is closed for good, whatever is pressed on
\* pages that still show it open; and it is empty, unless a transfer was reversed: a reversal
\* does not look at the account's status.
ClosedForGoodWithoutOverlap ==
  \A i \in DOMAIN calls :
    calls[i].op = "close" /\ calls[i].done /\ Alone(i) =>
      /\ account.status = "CLOSED"
      /\ account.balance = 0 \/ GivenBack

\* Money is given back twice only if one of the reversals met another call that changed
\* something, a block for instance: whoever presses on whatever stale page, and what was
\* given back alone stays so.
ReversedOnceWithoutOverlap ==
  LET reversals == {i \in DOMAIN calls : calls[i].op = "reverse" /\ calls[i].done} IN
  \A i \in reversals :
    Alone(i) => /\ account.transfer = "REVERSED"
                /\ \A j \in reversals \ {i} : ~Alone(j)

\* Calls of one form with one intention: nothing that went well was heard of in between.
Again(i, j) ==
  /\ calls[i].page = calls[j].page /\ calls[i].op = calls[j].op
  /\ \A k \in DOMAIN calls :
       (calls[k].page = calls[i].page /\ calls[k].op = calls[i].op /\ calls[k].heard /\ calls[k].done)
         => (k < i <=> k < j)
=============================================================================
