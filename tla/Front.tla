------------------------------- MODULE Front --------------------------------
(***************************************************************************)
(* The browsers against the API: a customer's transfer form and the        *)
(* transfers route, the pages on one account and the routes behind them,   *)
(* and the rate limiter in front of both.  Whether the books let a call    *)
(* pass is Bank's business, so here the services may refuse.               *)
(***************************************************************************)
EXTENDS TransferForm, RateLimit, Desk

CONSTANTS
  TransferLimit,\* TRANSFER_LIMIT
  AdminLimit,   \* ADMIN_LIMIT
  OtherLimits,  \* limits of other endpoints the address uses
  MaxPresses    \* a bound on the calls of an account's pages

ASSUME LimitsOfRoutesAssumption == Limits = {TransferLimit, AdminLimit} \cup OtherLimits

\* A plan also says what is pressed on the pages of the account, and how often.
ASSUME DeskPlansAssumption ==
  \A p \in Plans : p.desk \subseteq DeskOps /\ p.presses \in 0 .. MaxPresses

VARIABLES
  paid          \* what the service recorded for each attempt

vars == <<browser, limiter, desk, paid>>

\* The rows of an attempt that went through.
Payment == [to : Payees \cup {None}, cents : Nat, converted : Nat \cup {None}]

\* Why the route refuses a local attempt without a look at the books.
LocalRefused(t) ==
  \/ AccountWith(t.iban) = {}
  \/ \E a \in AccountWith(t.iban) : Status[a] \in {"FROZEN", "CLOSED"} \/ Currency[a] # t.from

\* What createTransfer records: an international transfer leaves the bank, converted if
\* the currencies differ.
Recorded(t) ==
  [to |-> IF t.type = "LOCAL" THEN CHOOSE a \in AccountWith(t.iban) : TRUE ELSE None,
   cents |-> ParseAmountToCents(t.amount),
   converted |-> IF t.type = "INTERNATIONAL" /\ t.currency # t.from
                 THEN ConvertFx(t.from, t.currency, ParseAmountToCents(t.amount))
                 ELSE None]

\* POST /api/transfers
Serve(k) ==
  LET t == attempts[k] IN
  /\ t.stage = "sent"
  /\ CountRequest(TransferLimit)
  /\ \/ /\ attempts' = [attempts EXCEPT ![k].stage = "served", ![k].refused = TRUE]
        /\ UNCHANGED paid
     \/ /\ ~RateLimited(TransferLimit)
        /\ ParseAmountToCents(t.amount) > 0
        /\ t.type = "LOCAL" => ~LocalRefused(t)
        /\ attempts' = [attempts EXCEPT ![k].stage = "served"]
        /\ paid' = [paid EXCEPT ![k] = Recorded(t)]
  /\ UNCHANGED <<plan, form, edits, checks, intention, desk>>

\* The routes behind the pages: those that move money or undo it count requests ...
Limited(i, op, mayGoOn) ==
  /\ Look(i, op, mayGoOn /\ ~RateLimited(AdminLimit))
  /\ CountRequest(AdminLimit)
  /\ UNCHANGED <<browser, paid>>

PostFund(i) == Limited(i, "fund", MayMoveMoney)
PostDebit(i) == Limited(i, "debit", MayMoveMoney)
PostBlock(i) == Limited(i, "block", MayBlock)
PostReverse(i) == Limited(i, "reverse", MayReverse)

\* ... the others do not.
Unlimited(i, op, mayGoOn) ==
  /\ Look(i, op, mayGoOn)
  /\ UNCHANGED <<browser, limiter, paid>>

PostFreeze(i) == Unlimited(i, "freeze", MayChangeStatus("freeze"))
PostUnfreeze(i) == Unlimited(i, "unfreeze", MayChangeStatus("unfreeze"))
PostSetReceiveOnly(i) == Unlimited(i, "setReceiveOnly", MayChangeStatus("setReceiveOnly"))
PostUnsetReceiveOnly(i) == Unlimited(i, "unsetReceiveOnly", MayChangeStatus("unsetReceiveOnly"))
PostClose(i) == Unlimited(i, "close", MayClose)
PatchAccount(i) == Unlimited(i, "rename", MayRename)
PostAccount(i) == Unlimited(i, "open", MayOpen)

Routes(i) ==
  \/ PostFund(i) \/ PostDebit(i) \/ PostBlock(i) \/ PostReverse(i)
  \/ PostFreeze(i) \/ PostUnfreeze(i) \/ PostSetReceiveOnly(i) \/ PostUnsetReceiveOnly(i)
  \/ PostClose(i) \/ PatchAccount(i) \/ PostAccount(i)

\* A request of the same address to another limited endpoint.
OtherRequest(n) ==
  /\ Cardinality({i \in DOMAIN log : log[i].limit \in OtherLimits}) < plan.others
  /\ CountRequest(n)
  /\ UNCHANGED <<browser, paid, desk>>

Init ==
  /\ plan \in Plans
  /\ form = Blank(plan.from)
  /\ edits = 0
  /\ checks = <<>>
  /\ attempts = <<>>
  /\ intention = 0
  /\ clock = 0
  /\ bucket = NoBucket
  /\ log = <<>>
  /\ paid = [k \in 1 .. MaxSubmits |-> None]
  /\ account = [status |-> "ACTIVE", balance |-> 0, named |-> FALSE,
               transfer |-> "COMPLETED", owned |-> 1]
  /\ page = [p \in Pages |-> [shown |-> account, waiting |-> {}]]
  /\ calls = <<>>

\* A button is pressed on a page that somebody has open.
Pressed(p) ==
  /\ \/ p \in Staff /\ (AdminAccountDetail(p) \/ AdminTransferDetail(p) \/ SessionCall(p))
     \/ p = Owner /\ (AccountDetail(p) \/ CreateAccountForm(p))
  /\ Len(calls) < plan.presses
  /\ calls'[Len(calls')].op \in plan.desk

\* The second transactions of the services.
Services(i) ==
  \/ FundAccount(i) \/ DebitAccount(i) \/ FreezeAccount(i) \/ UnfreezeAccount(i)
  \/ SetReceiveOnly(i) \/ UnsetReceiveOnly(i) \/ CloseAccount(i) \/ RenameAccount(i)
  \/ BlockTransfer(i) \/ ReverseTransfer(i) \/ CreateCustomerAccount(i) \/ WriteFails(i)

DeskNext ==
  \/ \E p \in Pages : Pressed(p)
  \/ \E i \in DOMAIN calls : Services(i) \/ Hear(i) \/ Silence(i)
  \/ \E p \in Pages : plan.desk # {} /\ Reload(p)

Next ==
  \/ BrowserNext /\ UNCHANGED <<limiter, paid, desk>>
  \/ DeskNext /\ UNCHANGED <<browser, limiter, paid>>
  \/ \E k \in DOMAIN attempts : Serve(k)
  \/ \E i \in DOMAIN calls : Routes(i)
  \/ \E n \in OtherLimits : OtherRequest(n)
  \/ clock < plan.time /\ Tick /\ UNCHANGED <<browser, paid, desk>>

\* A request ends one day: the browser has the answer or gives up.
Ends(k) ==
  /\ k \in DOMAIN attempts
  /\ Deliver(k) \/ LoseAnswer(k)
  /\ UNCHANGED <<limiter, paid, desk>>
DeskEnds(i) ==
  /\ i \in DOMAIN calls
  /\ Hear(i) \/ Silence(i)
  /\ UNCHANGED <<browser, limiter, paid>>

Spec == Init /\ [][Next]_vars
FairSpec ==
  /\ Spec
  /\ \A k \in 1 .. MaxSubmits : WF_vars(Ends(k))
  /\ \A i \in 1 .. MaxPresses : WF_vars(DeskEnds(i))

-----------------------------------------------------------------------------
TypeOK ==
  /\ form.type \in Types
  /\ form.status \in {"idle", "checking", "local", "external", "error"}
  /\ form.recipient \in Payees \cup {None}
  /\ form.status = "local" => form.recipient # None
  /\ form.currency \in Currencies
  /\ form.amount \in plan.amounts \cup {None}
  /\ form.loading \in BOOLEAN
  /\ form.message \in {"none", "error", "success"}
  /\ edits \in 0 .. MaxEdits
  /\ \A k \in DOMAIN attempts : attempts[k].stage \in {"sent", "served", "done"}
  /\ \A k \in 1 .. MaxSubmits : paid[k] = None \/ paid[k] \in Payment
  /\ \A k \in 1 .. MaxSubmits : paid[k] # None => k \in DOMAIN attempts
  /\ clock \in 0 .. plan.time
  /\ account \in Account
  /\ \A i \in DOMAIN calls : calls[i].met \subseteq DOMAIN calls

Paid == {k \in DOMAIN attempts : paid[k] # None}

\* A local payment reaches the account that was meant: no slip of one character or two
\* neighbours turns one account's IBAN into another's.
PayeeIsTheOneMeant ==
  \A k \in Paid : attempts[k].type = "LOCAL" => paid[k].to = attempts[k].payee

\* The account paid is the one the form showed as verified, but for the answer of an
\* earlier check that arrived after the IBAN had been changed.
PayeeWasShown ==
  \A k \in Paid :
    attempts[k].type = "LOCAL" => paid[k].to = attempts[k].shown \/ attempts[k].late

\* What the recipient's bank is told is what the form previewed, and no other number of
\* cents is nearer to the rate.
PreviewIsRecorded ==
  \A k \in Paid :
    LET t == attempts[k]
        rate == FxRate(t.from, t.currency)
        error == 2 * (paid[k].converted * rate[2] - paid[k].cents * rate[1])
    IN t.type = "INTERNATIONAL" =>
         /\ paid[k].converted = t.preview
         /\ paid[k].converted # None => error \in -rate[2] .. rate[2]

\* A transfer the user meant once goes through twice only if an attempt was left without an
\* answer: its key is never sent again.
TransfersRepeatOnlyAfterSilence ==
  \A i \in 0 .. intention :
    LET mine == {k \in DOMAIN attempts : attempts[k].intention = i} IN
    Cardinality(mine \cap Paid) <= 1 + Cardinality({k \in mine : attempts[k].silent})

\* The same for what an administrator funds or debits, and for the accounts a customer opens.
MovementsRepeatOnlyAfterSilence ==
  \A i \in DOMAIN calls :
    LET mine == {j \in DOMAIN calls : Again(i, j)} IN
    calls[i].op \in {"fund", "debit", "open"} =>
      Cardinality({j \in mine : calls[j].done})
        <= 1 + Cardinality({j \in mine : calls[j].silent})

\* What a user means once is paid, funded, debited or opened twice only after an attempt
\* that was left without an answer.
PaidTwiceOnlyAfterSilence ==
  /\ TransfersRepeatOnlyAfterSilence
  /\ MovementsRepeatOnlyAfterSilence

\* The form behind a call waits for an answer.
Waits(i) == i \in DOMAIN calls /\ FormOf(calls[i].op) \in page[calls[i].page].waiting

\* No form waits for ever: a user who presses finitely often sees them all come back.
FormComesBack == []<>(~form.loading /\ \A i \in 1 .. MaxPresses : ~Waits(i))
=============================================================================
