------------------------------ MODULE MCFront -------------------------------
(***************************************************************************)
(* A small instance of Front: four accounts whose numbers differ by little,*)
(* two attempts, two checks, a window of two units and other requests.     *)
(***************************************************************************)
EXTENDS FrontInvariant

CONSTANTS a1, a2, a3

\* A number the bank generated, a number of the customer's choice, one digit away.
MCNumber ==
  [a \in Payees |->
     CASE a = a1 -> GenerateAccountNumber(<<4, 0, 2, 8, 7, 7, 1, 4, 0>>)
       [] a = a2 -> [GenerateAccountNumber(<<4, 0, 2, 8, 7, 7, 1, 4, 0>>) EXCEPT ![4] = 1]
       [] a = a3 -> <<1, 2, 3, 4, 5, 6, 7, 8>>]
MCCurrency == [a \in Payees |-> IF a = a3 THEN "USD" ELSE "EUR"]
MCStatus == [a \in Payees |-> IF a = a3 THEN "CLOSED" ELSE "ACTIVE"]
MCForeign == <<15, 27, 7, 6>> \o PadStart(<<1>>, 18)

\* Half a dollar is 39.5 pence, 1.01 euros are 110.09 cents and 86.86 pence.
Half == [whole |-> <<0>>, fraction |-> <<5>>]
Nothing == [whole |-> <<0>>, fraction |-> <<0, 0>>]
Odd == [whole |-> <<1>>, fraction |-> <<0, 1>>]

\* Somebody at an account's pages; nobody fills in the transfer form.
AtDesk(ops, presses) ==
  [from |-> "EUR", payees |-> {}, amounts |-> {}, currencies |-> {}, switch |-> FALSE,
   submits |-> 0, others |-> 0, time |-> 0, desk |-> ops, presses |-> presses]

\* A local transfer between two IBANs, one abroad in other currencies, a change of mind,
\* and a user whose address is busy.
MCPlans ==
  {[from |-> "EUR", payees |-> {a1, a2}, amounts |-> {Half}, currencies |-> {},
    switch |-> FALSE, submits |-> 2, others |-> 0, time |-> 0,
    desk |-> {}, presses |-> 0],
   [from |-> "EUR", payees |-> {None, a3}, amounts |-> {Odd, Nothing}, currencies |-> {"USD", "GBP"},
    switch |-> TRUE, submits |-> 1, others |-> 0, time |-> 0,
    desk |-> {}, presses |-> 0],
   [from |-> "USD", payees |-> {a1, None}, amounts |-> {Half}, currencies |-> {"GBP"},
    switch |-> TRUE, submits |-> 1, others |-> 1, time |-> 0,
    desk |-> {}, presses |-> 0],
   [from |-> "EUR", payees |-> {a1}, amounts |-> {Half}, currencies |-> {},
    switch |-> FALSE, submits |-> 1, others |-> 4, time |-> 3,
    desk |-> {}, presses |-> 0],
   AtDesk({"fund", "debit"}, 3), AtDesk({"fund", "close", "rename"}, 2),
   AtDesk({"freeze", "unfreeze", "close"}, 3),
   AtDesk({"setReceiveOnly", "unsetReceiveOnly", "close"}, 2),
   AtDesk({"block", "reverse", "close"}, 3), AtDesk({"open"}, 2)}
=============================================================================
