------------------------------- MODULE Sanitizer -------------------------------
(***************************************************************************)
(* The protocol crate's detectors of card and phone numbers in a text that *)
(* is about to be stored: scans over the characters of the text.  Digits   *)
(* are told by their places in the text.                                   *)
(***************************************************************************)
EXTENDS Integers, Sequences, FiniteSetsExt, Functions

CONSTANTS
  CARD_DIGITS, PHONE_DIGITS,    \* how many digits such a number has
  Texts                         \* the texts an event may hold

ASSUME SanitizerAssumption == \A chars \in Texts : chars \in Seq(STRING)

VARIABLE text

Digits == <<"0", "1", "2", "3", "4", "5", "6", "7", "8", "9">>
IsDigit(char) == \E i \in DOMAIN Digits : Digits[i] = char
Digit(char) == (CHOOSE i \in DOMAIN Digits : Digits[i] = char) - 1
IsAlphanumeric(char) == IsDigit(char) \/ char = "x"     \* "x" stands for any letter
CardSeparators == {" ", "-"}
PhoneSeparators == CardSeparators \union {".", "(", ")"}

DetachedBefore(chars, start) == start = 1 \/ ~IsAlphanumeric(chars[start - 1])
DetachedAfter(chars, end) == end > Len(chars) \/ ~IsAlphanumeric(chars[end])

DigitsIn(chars, start, end) == {i \in start .. end - 1 : IsDigit(chars[i])}

\* The first place from `start` on where the scan does not go on.
ScanEnd(chars, start, goesOn) == Min((start .. Len(chars) + 1) \ goesOn)

-----------------------------------------------------------------------------
CardEnd(chars, start) ==
  ScanEnd(chars, start, {i \in DOMAIN chars :
    \/ IsDigit(chars[i])
    \/ chars[i] \in CardSeparators /\ i < Len(chars) /\ IsDigit(chars[i + 1])})

Doubled(value) == IF 2 * value > 9 THEN 2 * value - 9 ELSE 2 * value

\* Mutant: every other digit is doubled, from the first one.
LuhnFromTheLeft(chars, digits) ==
  SumFunction([i \in digits |-> IF Cardinality({j \in digits : j < i}) % 2 = 0
                                THEN Doubled(Digit(chars[i])) ELSE Digit(chars[i])]) % 10 = 0

\* Every other digit is doubled, from the last but one.
Luhn(chars, digits) ==
  SumFunction([i \in digits |-> IF Cardinality({j \in digits : j > i}) % 2 = 1
                                THEN Doubled(Digit(chars[i])) ELSE Digit(chars[i])]) % 10 = 0

ContainsCard(chars) ==
  \E start \in DOMAIN chars :
    LET end == CardEnd(chars, start)
        digits == DigitsIn(chars, start, end)
    IN /\ IsDigit(chars[start]) /\ DetachedBefore(chars, start) /\ DetachedAfter(chars, end)
       /\ Cardinality(digits) \in CARD_DIGITS
       /\ chars[start] \in {"2", "3", "4", "5", "6"}
       /\ Luhn(chars, digits)

\* Past the last digit before anything but digits and separators.
PhoneEnd(chars, start) ==
  LET end == ScanEnd(chars, start, {i \in DOMAIN chars :
               IsDigit(chars[i]) \/ chars[i] \in PhoneSeparators})
  IN Max(DigitsIn(chars, start, end)) + 1

ContainsPhone(chars) ==
  \E start \in DOMAIN chars :
    LET end == PhoneEnd(chars, start + 1) IN
    /\ chars[start] = "+" /\ DetachedBefore(chars, start)
    /\ start < Len(chars) /\ IsDigit(chars[start + 1])
    /\ Cardinality(DigitsIn(chars, start + 1, end)) \in PHONE_DIGITS
    /\ DetachedAfter(chars, end)

\* A text is given, and stays as it is.
SanitizerSpec == text \in Texts /\ [][UNCHANGED text]_text

-----------------------------------------------------------------------------
(* What they are to find, as PROTOCOL.md (Sanitization) has it, told by    *)
(* the stretches of the text.                                              *)

\* The characters from `first` to `last` are digits, grouped by single separators.
Grouped(chars, first, last) ==
  /\ IsDigit(chars[first]) /\ IsDigit(chars[last])
  /\ \A i \in first .. last :
       IsDigit(chars[i]) \/ (chars[i] \in CardSeparators /\ IsDigit(chars[i + 1]))

Unglued(chars, first, last) ==
  /\ first = 1 \/ ~IsAlphanumeric(chars[first - 1])
  /\ last = Len(chars) \/ ~IsAlphanumeric(chars[last + 1])

\* The digits of a number, added up.
DigitSum(number) == (number \div 10) + (number % 10)

\* The Luhn sum of the digits of a stretch: the second of each pair, from the
\* right, counts as the digits of its double.
LuhnSum(chars, first, last) ==
  LET digits == {i \in first .. last : IsDigit(chars[i])} IN
  SumFunction([i \in digits |->
    LET place == Cardinality({j \in digits : i <= j})
    IN DigitSum(Digit(chars[i]) * (IF place % 2 = 0 THEN 2 ELSE 1))])

\* "13-19 digits, optionally grouped by single spaces or dashes, starting with
\* 2-6 and passing the Luhn check", "not glued to a letter or a digit".
IsCard(chars, first, last) ==
  /\ Grouped(chars, first, last) /\ Unglued(chars, first, last)
  /\ Cardinality({i \in first .. last : IsDigit(chars[i])}) \in CARD_DIGITS
  /\ Digit(chars[first]) \in 2 .. 6 /\ LuhnSum(chars, first, last) % 10 = 0

OfPhone(chars, first, last) ==
  /\ IsDigit(chars[first]) /\ IsDigit(chars[last])
  /\ \A i \in first .. last : IsDigit(chars[i]) \/ chars[i] \in PhoneSeparators

\* "A + followed by 10-15 digits, optionally grouped by spaces, dashes, dots or
\* parentheses", not glued either.
IsPhone(chars, plus, last) ==
  /\ chars[plus] = "+" /\ OfPhone(chars, plus + 1, last) /\ Unglued(chars, plus, last)
  /\ Cardinality({i \in plus + 1 .. last : IsDigit(chars[i])}) \in PHONE_DIGITS

HoldsCard(chars) ==
  \E first \in DOMAIN chars : \E last \in first .. Len(chars) : IsCard(chars, first, last)

HoldsPhone(chars) ==
  \E plus \in DOMAIN chars : \E last \in plus + 1 .. Len(chars) : IsPhone(chars, plus, last)

\* More digits follow a number, as one more group or beyond separators.
CardGoesOn(chars, first, last) ==
  \E beyond \in last + 1 .. Len(chars) : Grouped(chars, first, beyond)

PhoneGoesOn(chars, plus, last) ==
  \E beyond \in last + 1 .. Len(chars) : OfPhone(chars, plus + 1, beyond)

NumbersFound(chars) ==
  /\ ContainsCard(chars) => HoldsCard(chars)
  /\ ContainsPhone(chars) => HoldsPhone(chars)
  /\ \A first \in DOMAIN chars : \A last \in first .. Len(chars) :
       IsCard(chars, first, last) => ContainsCard(chars) \/ CardGoesOn(chars, first, last)
  /\ \A plus \in DOMAIN chars : \A last \in plus + 1 .. Len(chars) :
       IsPhone(chars, plus, last) => ContainsPhone(chars) \/ PhoneGoesOn(chars, plus, last)

\* What the scans give: a text that is filtered for a number holds one, not
\* glued to a letter or a digit, so that identifiers pass; and a text that holds
\* one, wherever in it, is filtered, unless more digits follow the number: those
\* the scans take for a part of it, against PROTOCOL.md (NumbersFiltered).
SanitizerFinds == NumbersFound(text)

\* "Every string value that contains ... a payment card number or an
\* international phone number becomes [FILTERED]" (PROTOCOL.md, Sanitization),
\* whatever stands beside the number, but a letter or a digit.
NumbersFiltered ==
  HoldsCard(text) \/ HoldsPhone(text) => ContainsCard(text) \/ ContainsPhone(text)

=============================================================================
