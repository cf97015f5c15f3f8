---------------------------- MODULE TransferForm ----------------------------
(***************************************************************************)
(* The browser's side of a transfer: the form, the checks of a recipient's *)
(* IBAN it has under way, and the attempts to send money.  A check's       *)
(* answer is applied whenever it arrives; the fields stay editable while   *)
(* an attempt is under way.                                                *)
(***************************************************************************)
EXTENDS Conversions, FiniteSets

CONSTANTS
  Payees,       \* accounts of the bank
  Number,       \* their numbers
  Currency,     \* their currencies
  Status,       \* their states
  Foreign,      \* an IBAN of another bank
  None,         \* nobody, nothing
  Plans,        \* what the users of the behaviours have in mind
  MaxEdits,     \* bounds on what a user does
  MaxChecks,
  MaxSubmits

ASSUME BoundsAssumption == {MaxEdits, MaxChecks, MaxSubmits} \subseteq Nat

ASSUME PayeesAssumption ==
  /\ Currency \in [Payees -> Currencies]
  /\ Number \in [Payees -> Seq(Digits)]
  /\ None \notin Payees

\* A plan: the currency of the account to send from, what may be typed and picked, whether
\* the type of transfer is changed, how many attempts are made, how many requests to
\* other endpoints the user's address makes meanwhile, and how long it all takes.  The
\* pattern of the amount field lets no other amount pass.
ASSUME PlansAssumption ==
  \A p \in Plans :
    /\ p.from \in Currencies /\ p.payees \subseteq Payees \cup {None}
    /\ p.currencies \subseteq Currencies /\ p.switch \in BOOLEAN
    /\ \A a \in p.amounts : a \in Amount /\ WellFormed(a)
    /\ p.submits \in 0 .. MaxSubmits /\ p.others \in Nat /\ p.time \in Nat

\* The IBANs of the accounts.
IbanOf == [a \in Payees |-> GenerateIban(Currency[a], Number[a])]

\* The number of an account is unique, and so is the IBAN made of it; no account has the IBAN
\* of another bank.
ASSUME IbansAssumption ==
  /\ \A a, b \in Payees : IbanOf[a] = IbanOf[b] => a = b
  /\ \A a \in Payees : IbanOf[a] # Foreign

\* One character wrong, or two neighbours swapped.
Slip(v, w) ==
  /\ Len(v) = Len(w)
  /\ LET wrong == {i \in DOMAIN v : v[i] # w[i]} IN
     \/ Cardinality(wrong) = 1
     \/ \E i \in wrong : wrong = {i, i + 1} /\ v[i] = w[i + 1] /\ v[i + 1] = w[i]

\* What somebody types who means to pay a: the IBAN, or another account's by a slip.
Typed ==
  [a \in Payees |-> {IbanOf[a]} \cup {IbanOf[b] : b \in {b \in Payees : Slip(IbanOf[a], IbanOf[b])}}]

VARIABLES
  plan,         \* what this user has in mind
  form,         \* the fields of the form and what it shows
  edits,        \* how often the IBAN was typed
  checks,       \* IBANs sent to be checked, in order, and which of them are answered
  attempts,     \* transfers submitted, in order
  intention     \* how many transfers were seen to succeed

browser == <<plan, form, edits, checks, attempts, intention>>

Types == {"LOCAL", "INTERNATIONAL"}
Empty == <<>>

\* The form as it is first shown; late and payee are not on it: whether the last check
\* that was answered was of another IBAN than the field's, and who the user means to pay.
Blank(from) ==
  [type |-> "LOCAL", from |-> from, iban |-> Empty, status |-> "idle", recipient |-> None,
   currency |-> "EUR", amount |-> None, loading |-> FALSE, message |-> "none",
   payee |-> None, late |-> FALSE]

\* The account with an IBAN, if any is to be found.
AccountWith(iban) == {a \in Payees : IbanOf[a] = iban}

\* fxPreview
Preview ==
  IF form.type = "INTERNATIONAL" /\ form.from # form.currency /\ form.amount # None
  THEN ConvertFx(form.from, form.currency, ParseAmountToCents(form.amount))
  ELSE None

\* Mutant: the last check's verdict stays on the form.
Unchecked_Kept(f) == f

\* The form forgets what it knows of a recipient.
Unchecked(f) == [f EXCEPT !.status = "idle", !.recipient = None, !.late = FALSE]

\* onIbanChange
TypeIban(p, iban) ==
  /\ p \in plan.payees
  /\ edits < MaxEdits
  /\ edits' = edits + 1
  /\ form' = [Unchecked(form) EXCEPT !.iban = iban, !.payee = p,
                                     !.currency = CurrencyFromIban(iban, form.currency)]
  /\ UNCHANGED <<plan, checks, attempts, intention>>

\* switchType
SwitchType(t) ==
  /\ plan.switch
  /\ form' = [Unchecked(form) EXCEPT !.type = t, !.message = "none"]
  /\ UNCHANGED <<plan, edits, checks, attempts, intention>>

\* The amount and the destination currency.
TypeAmount(a) ==
  /\ form.amount = None
  /\ form' = [form EXCEPT !.amount = a]
  /\ UNCHANGED <<plan, edits, checks, attempts, intention>>

PickCurrency(c) ==
  /\ form.type = "INTERNATIONAL"
  /\ form.currency # c
  /\ form' = [form EXCEPT !.currency = c]
  /\ UNCHANGED <<plan, edits, checks, attempts, intention>>

\* verifyRecipient, on leaving the field or by the button.
VerifyRecipient ==
  /\ form.type = "LOCAL"
  /\ \/ /\ form.iban = Empty
        /\ form' = [form EXCEPT !.status = "error", !.message = "error"]
        /\ UNCHANGED checks
     \/ /\ form.iban # Empty
        /\ Len(checks) < MaxChecks
        /\ form' = [form EXCEPT !.status = "checking", !.recipient = None, !.message = "none"]
        /\ checks' = Append(checks, [iban |-> form.iban, answered |-> FALSE])
  /\ UNCHANGED <<plan, edits, attempts, intention>>

\* GET /api/recipients/[iban] finds the account, or answers 404.
Recipient(iban) == {a \in AccountWith(iban) : Status[a] # "CLOSED"}

\* The answer to a check: the recipient, 404, or none at all.
AnswerCheck(j) ==
  /\ ~checks[j].answered
  /\ checks' = [checks EXCEPT ![j].answered = TRUE]
  /\ \/ \E a \in Recipient(checks[j].iban) :
          form' = [form EXCEPT !.status = "local", !.recipient = a,
                               !.late = checks[j].iban # form.iban]
     \/ /\ Recipient(checks[j].iban) = {}
        /\ form' = [form EXCEPT !.status = "external"]
     \/ form' = [form EXCEPT !.status = "error", !.message = "error"]
  /\ UNCHANGED <<plan, edits, attempts, intention>>

\* The fields the browser insists on.
Complete == form.iban # Empty /\ form.amount # None

\* The local transfer is held back until its recipient is verified.
Unverified == form.type = "LOCAL" /\ form.status # "local"

\* Mutant: the button works while an attempt is under way.
MaySubmit_Always == Complete

\* The button is disabled while an attempt is under way.
MaySubmit == Complete /\ ~form.loading

\* handleSubmit, up to the answer; each attempt has an idempotency key of its own.
Submit ==
  /\ MaySubmit
  /\ Len(attempts) < plan.submits
  /\ \/ /\ Unverified
        /\ form' = [form EXCEPT !.message = "error"]
        /\ UNCHANGED attempts
     \/ /\ ~Unverified
        /\ form' = [form EXCEPT !.loading = TRUE, !.message = "none"]
        /\ attempts' = Append(attempts,
             [type |-> form.type, from |-> form.from, iban |-> form.iban,
              currency |-> form.currency, amount |-> form.amount, preview |-> Preview,
              payee |-> form.payee, shown |-> form.recipient, late |-> form.late,
              intention |-> intention, stage |-> "sent", silent |-> FALSE, refused |-> FALSE])
  /\ UNCHANGED <<plan, edits, checks, intention>>

\* Mutant: an error leaves the form waiting.
AfterError_NoFinally == [form EXCEPT !.message = "error"]

\* The form after an attempt that failed, as far as it can tell.
AfterError == [form EXCEPT !.message = "error", !.loading = FALSE]

\* Mutant: the recipient is forgotten, the verdict on it is not.
Cleared_StatusKept ==
  [Blank(form.from) EXCEPT !.type = form.type, !.currency = form.currency,
                           !.message = "success", !.status = form.status]

\* The form after a success: the account, the type and the currency stay.
Cleared ==
  [Blank(form.from) EXCEPT !.type = form.type, !.currency = form.currency,
                           !.message = "success"]

\* The answer to an attempt.
Deliver(k) ==
  /\ attempts[k].stage = "served"
  /\ ~attempts[k].silent
  /\ attempts' = [attempts EXCEPT ![k].stage = "done"]
  /\ \/ /\ attempts[k].refused
        /\ form' = AfterError
        /\ UNCHANGED intention
     \/ /\ ~attempts[k].refused
        /\ form' = Cleared
        /\ intention' = intention + 1
  /\ UNCHANGED <<plan, edits, checks>>

\* The network fails: the request may still arrive, the answer will not.
LoseAnswer(k) ==
  /\ attempts[k].stage \in {"sent", "served"}
  /\ ~attempts[k].silent
  /\ attempts' = [attempts EXCEPT ![k].silent = TRUE]
  /\ form' = AfterError
  /\ UNCHANGED <<plan, edits, checks, intention>>

BrowserNext ==
  \/ \E p \in Payees : \E v \in Typed[p] : TypeIban(p, v)
  \/ TypeIban(None, Foreign)
  \/ \E t \in Types : SwitchType(t)
  \/ \E a \in plan.amounts : TypeAmount(a)
  \/ \E c \in plan.currencies : PickCurrency(c)
  \/ VerifyRecipient
  \/ \E j \in DOMAIN checks : AnswerCheck(j)
  \/ Submit
  \/ \E k \in DOMAIN attempts : Deliver(k) \/ LoseAnswer(k)
=============================================================================
