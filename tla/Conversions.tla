---------------------------- MODULE Conversions -----------------------------
(***************************************************************************)
(* The conversions the money and the account numbers go through.  Numbers  *)
(* are sequences of digits; a letter of an IBAN stands for the value       *)
(* ISO 13616 gives it (A is 10, Z is 35).                                  *)
(***************************************************************************)
EXTENDS Integers, Sequences, SequencesExt

Digits == 0 .. 9

\* The number a sequence of digits is written as.
Value(digits) == FoldLeft(LAMBDA n, d : 10 * n + d, 0, digits)

\* s, with zeroes before it until it has n places.
PadStart(s, n) == [i \in 1 .. n - Len(s) |-> 0] \o s

-----------------------------------------------------------------------------
(* Amounts as they are typed.                                              *)

Amount == [whole : Seq(Digits), fraction : Seq(Digits)]

\* AMOUNT_REGEX, the pattern of the form and of the API alike.
WellFormed(a) == Len(a.whole) >= 1 /\ Len(a.fraction) <= 2

\* parseAmountToCents; the form's Math.round(parseFloat(amount) * 100) is the same number.
ParseAmountToCents(a) ==
  100 * Value(a.whole) + 10 * (IF Len(a.fraction) >= 1 THEN a.fraction[1] ELSE 0)
                       + (IF Len(a.fraction) = 2 THEN a.fraction[2] ELSE 0)

-----------------------------------------------------------------------------
(* Currencies.                                                             *)

Currencies == {"EUR", "USD", "GBP"}

\* RATES, in hundredths.
Rates(from, to) ==
  CASE from = "EUR" /\ to = "USD" -> 109
    [] from = "EUR" /\ to = "GBP" -> 86
    [] from = "USD" /\ to = "GBP" -> 79
    [] OTHER -> 0

\* fxRate as a fraction: the rate of the pair, or the inverse of the other way's.
FxRate(from, to) ==
  IF from = to THEN <<1, 1>>
  ELSE IF Rates(from, to) # 0 THEN <<Rates(from, to), 100>>
  ELSE <<100, Rates(to, from)>>

\* Mutant: the fraction of a cent is cut off.
ConvertFx_Truncated(from, to, cents) ==
  (cents * FxRate(from, to)[1]) \div FxRate(from, to)[2]

\* convertFx: Math.round of the product, halves up.
ConvertFx(from, to, cents) ==
  (2 * cents * FxRate(from, to)[1] + FxRate(from, to)[2]) \div (2 * FxRate(from, to)[2])

\* Letters of the country codes.
Country(currency) ==
  CASE currency = "EUR" -> <<13, 14>>   \* DE
    [] currency = "GBP" -> <<16, 11>>   \* GB
    [] currency = "USD" -> <<30, 28>>   \* US

\* IBAN_COUNTRY_CURRENCY
CountriesOf ==
  [EUR |-> {<<10, 29>>, <<11, 14>>, <<13, 14>>, <<14, 28>>, <<15, 18>>,    \* AT BE DE ES FI
            <<15, 27>>, <<18, 14>>, <<18, 29>>, <<23, 21>>, <<25, 29>>},   \* FR IE IT NL PT
   GBP |-> {<<16, 11>>}, USD |-> {<<30, 28>>}]

\* currencyFromIban, or what it is otherwise when the country is none of these.
CurrencyFromIban(iban, otherwise) ==
  LET found == {c \in Currencies : SubSeq(iban, 1, 2) \in CountriesOf[c]} IN
  IF found = {} THEN otherwise ELSE CHOOSE c \in found : TRUE

-----------------------------------------------------------------------------
(* Account numbers and IBANs.                                              *)

\* luhnCheckDigit: from the right, every other digit is doubled.
LuhnCheckDigit(base) ==
  LET weighed(i) ==
        IF (Len(base) - i) % 2 = 1 THEN base[i]
        ELSE IF base[i] >= 5 THEN 2 * base[i] - 9 ELSE 2 * base[i]
      sum == FoldLeft(LAMBDA n, i : n + weighed(i), 0, [i \in 1 .. Len(base) |-> i])
  IN (10 - (sum % 10)) % 10

\* generateAccountNumber, for the nine digits drawn.
GenerateAccountNumber(base) == Append(base, LuhnCheckDigit(base))

\* A letter takes two places in the number that is divided.
Places(v) == IF v >= 10 THEN <<v \div 10, v % 10>> ELSE <<v>>

\* mod97, digit by digit.
Mod97(digits) == FoldLeft(LAMBDA rem, d : (10 * rem + d) % 97, 0, digits)

\* Mutant: the check digits are those of the bank and the country alone.
CheckDigits_OfTheBank(bban, country) ==
  98 - Mod97(FoldLeft(LAMBDA s, v : s \o Places(v), <<>>, SubSeq(bban, 1, 4) \o country \o <<0, 0>>))

\* The check digits of a number that is rearranged and divided by 97.
CheckDigits(bban, country) ==
  98 - Mod97(FoldLeft(LAMBDA s, v : s \o Places(v), <<>>, bban \o country \o <<0, 0>>))

\* generateIban: the country, the check digits, IGB0 and fourteen digits.
GenerateIban(currency, number) ==
  LET bban == <<18, 16, 11, 0>> \o PadStart(number, 14)
      check == CheckDigits(bban, Country(currency))
  IN Country(currency) \o <<check \div 10, check % 10>> \o bban
=============================================================================
