--------------------------- MODULE FrontInvariant ----------------------------
(***************************************************************************)
(* Why the properties of Front hold: what is known of the limiter's        *)
(* window, of the recipient a form shows, and of a call that has looked    *)
(* and not yet written.                                                    *)
(***************************************************************************)
EXTENDS Front

-----------------------------------------------------------------------------
(* The rate limiter.                                                       *)

Entry == [at : Nat, limit : Limits, admitted : BOOLEAN]

\* start tells the first request of each request's window, in a log l with the bucket b.
Windows(l, b, start) ==
  /\ \A i \in DOMAIN l :
       /\ start[i] \in 1 .. i
       /\ start[start[i]] = start[i]
       /\ l[i].at < l[start[i]].at + Window
       /\ l[i].admitted <=> i - start[i] < l[i].limit
  /\ \A i, j \in DOMAIN l :
       i < j => /\ l[i].at <= l[j].at
                /\ start[i] <= start[j]
                /\ start[i] < start[j] => l[start[j]].at >= l[start[i]].at + Window
  /\ l # <<>> =>
       /\ b.count = Len(l) - start[Len(l)] + 1
       /\ b.resetAt = l[start[Len(l)]].at + Window

\* The requests so far fall into windows, and the bucket is that of the last.
LimiterFits ==
  /\ clock \in Nat
  /\ log \in Seq(Entry)
  /\ \A i \in DOMAIN log : log[i].at <= clock
  /\ DOMAIN bucket = DOMAIN NoBucket
  /\ log = <<>> => bucket = NoBucket
  /\ \E start \in [DOMAIN log -> Nat] : Windows(log, bucket, start)

-----------------------------------------------------------------------------
(* The transfer form.                                                      *)

\* What the form and an attempt are made of.
FormFields ==
  {"type", "from", "iban", "status", "recipient", "currency", "amount", "loading", "message",
   "payee", "late"}

AttemptFields ==
  {"type", "from", "iban", "currency", "amount", "preview", "payee", "shown", "late",
   "intention", "stage", "silent", "refused"}

\* The recipient shown as verified has the IBAN in the field, or the IBAN was changed since
\* it was sent to be checked.
FormShows ==
  /\ DOMAIN form = FormFields
  /\ form.status = "local" => form.recipient \in AccountWith(form.iban) \/ form.late

\* So it was when an attempt was submitted.
AttemptsShow ==
  /\ attempts \in Seq({attempts[k] : k \in DOMAIN attempts})
  /\ Len(attempts) \in 0 .. MaxSubmits
  /\ \A k \in DOMAIN attempts :
       /\ DOMAIN attempts[k] = AttemptFields
       /\ attempts[k].type = "LOCAL" =>
            attempts[k].shown \in AccountWith(attempts[k].iban) \/ attempts[k].late

\* A local payment goes to an account with the IBAN of the attempt.
PaymentsFit ==
  /\ DOMAIN paid = 1 .. MaxSubmits
  /\ \A k \in 1 .. MaxSubmits :
       paid[k] # None =>
         /\ k \in DOMAIN attempts
         /\ attempts[k].type = "LOCAL" => paid[k].to \in AccountWith(attempts[k].iban)

\* What the user typed who means to pay p, if that is an account of this bank.
Meant(p, iban) == (p \in Payees /\ iban \in Typed[p]) \/ (p = None /\ iban = Foreign)

\* The fields of a form.
FormTyped(f) ==
  /\ f.type \in Types /\ {f.from, f.currency} \subseteq Currencies
  /\ f.status \in {"idle", "checking", "local", "external", "error"}
  /\ f.recipient \in Payees \cup {None} /\ (f.status = "local" => f.recipient # None)
  /\ f.amount \in plan.amounts \cup {None}
  /\ f.loading \in BOOLEAN /\ f.message \in {"none", "error", "success"}
  /\ f.iban = Empty \/ Meant(f.payee, f.iban)

\* What an attempt asks for: the currencies and the amount the preview was made from.
AttemptTyped(t) ==
  /\ t.type \in Types /\ {t.from, t.currency} \subseteq Currencies /\ t.amount \in plan.amounts
  /\ t.stage \in {"sent", "served", "done"}
  /\ t.type = "INTERNATIONAL" => t.preview = Recorded(t).converted
  /\ Meant(t.payee, t.iban)

\* What was recorded is what the attempt asked for.
FieldsFit ==
  /\ FormTyped(form)
  /\ \A k \in DOMAIN attempts : AttemptTyped(attempts[k])
  /\ \A k \in 1 .. MaxSubmits : paid[k] # None => paid[k] = Recorded(attempts[k])
  /\ edits \in 0 .. MaxEdits
  /\ clock \in 0 .. plan.time

FormFits == plan \in Plans /\ FormShows /\ AttemptsShow /\ PaymentsFit

-----------------------------------------------------------------------------
(* What is meant once.                                                     *)

\* The answer to an attempt may still arrive.
Open(k) == attempts[k].stage # "done" /\ ~attempts[k].silent

\* The form waits for one attempt at a time, made with the intention of now; an attempt that
\* was answered, and not with an error, ended its intention; and of the attempts with one
\* intention only one that got or will get an answer has paid.
AttemptsWait ==
  /\ intention \in Nat
  /\ \A k \in DOMAIN attempts :
       /\ attempts[k].intention \in 0 .. intention
       /\ Open(k) => form.loading /\ attempts[k].intention = intention
       /\ attempts[k].stage = "done" =>
            ~attempts[k].silent /\ (attempts[k].refused \/ attempts[k].intention < intention)
       /\ k \in Paid => ~attempts[k].refused
       /\ attempts[k].stage = "sent" => k \notin Paid /\ ~attempts[k].refused
  /\ \A j, k \in DOMAIN attempts : Open(j) /\ Open(k) => j = k
  /\ \A j, k \in Paid :
       attempts[j].intention = attempts[k].intention =>
         j = k \/ attempts[j].silent \/ attempts[k].silent

Page == [shown : Account, waiting : SUBSET {FormOf(op) : op \in DeskOps}]

\* A form waits while the answer to its call may still arrive, so when it is sent again the
\* call before was answered or given up.
CallsWait ==
  /\ page \in [Pages -> Page]
  /\ \A i \in DOMAIN calls :
       calls[i].silent \/ calls[i].heard \/ FormOf(calls[i].op) \in page[calls[i].page].waiting
  /\ \A i, j \in DOMAIN calls :
       i < j /\ calls[i].page = calls[j].page /\ FormOf(calls[i].op) = FormOf(calls[j].op) =>
         calls[i].silent \/ calls[i].heard

FormsWait == AttemptsWait /\ CallsWait

-----------------------------------------------------------------------------
(* The pages of an account.                                                *)

Call == [page : Pages, op : DeskOps, stage : {"sent", "looked", "served"}, done : BOOLEAN,
         heard : BOOLEAN, silent : BOOLEAN, met : SUBSET Nat]

\* What a call of this kind looked for is there now.
StillMay(op) ==
  /\ op = "reverse" => MayReverse
  /\ op = "block" => MayBlock
  /\ op = "close" => MayClose
  /\ op \in {"fund", "debit"} => MayMoveMoney
  /\ op \in StatusOps => MayChangeStatus(op)

\* The calls that would undo a reversal, and those that would undo a closing.
Undoes(op) ==
  CASE op = "reverse" -> TransferOps
    [] op = "close"   -> StatusOps \cup {"fund", "debit"}
    [] OTHER          -> {}

\* A call that has looked and met nobody finds things as they were; the others between
\* their transactions have met it; and what it did alone nobody undoes but whom it met.
DeskFits ==
  /\ account \in Account
  /\ calls \in Seq(Call)
  /\ \A i \in DOMAIN calls : /\ calls[i].met \subseteq DOMAIN calls
                             /\ calls[i].done => calls[i].stage = "served"
  /\ \A i, j \in Underway : i # j => i \in calls[j].met
  /\ \A i \in Underway : Alone(i) => StillMay(calls[i].op)
  /\ \A i \in DOMAIN calls, j \in Underway :
       calls[i].done /\ calls[j].op \in Undoes(calls[i].op) /\ Alone(i) => j \in calls[i].met

FrontInv ==
  /\ LimiterFits
  /\ FormFits
  /\ FieldsFit
  /\ FormsWait
  /\ DeskFits
  /\ ClosedForGoodWithoutOverlap
  /\ ReversedOnceWithoutOverlap
=============================================================================
