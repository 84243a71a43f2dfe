------------------------------- MODULE Normalizer -------------------------------
(***************************************************************************)
(* What the normalisers of the OCR worker make of a printed date, amount   *)
(* or VAT number (workers/app/services/normalizer.py).                     *)
(*                                                                         *)
(* A date is <<year, month, day>>.  A printed numeric date is its three    *)
(* numbers in the order they are printed, and whether it is ISO; a month   *)
(* printed by name is its number and the form of the name.  A              *)
(* printed amount, once the sign, the currency and the spaces are gone, is *)
(* a sequence of groups of digits and the separators between them; a group *)
(* is its number of digits and its value.  Amounts are thousandths: at     *)
(* most three digits follow a decimal separator.                           *)
(***************************************************************************)
LOCAL INSTANCE Integers
LOCAL INSTANCE Sequences
LOCAL INSTANCE SequencesExt

CONSTANT Unreadable   \* None, for what a normaliser cannot read

--------------------------------------------------------------------------------
(* Dates *)

LeapYear(y) == (y % 4 = 0 /\ y % 100 # 0) \/ y % 400 = 0

DaysIn(y, m) ==
  IF m = 2 THEN IF LeapYear(y) THEN 29 ELSE 28
  ELSE IF m \in {4, 6, 9, 11} THEN 30 ELSE 31

\* Two digits below 80 are years of this century, the others of the last one.
NormalYear(y) == IF y >= 100 THEN y ELSE IF y < 80 THEN 2000 + y ELSE 1900 + y

\* date(): only real days of the calendar
SafeDate(year, m, d) ==
  LET y == NormalYear(year)
  IN IF m \in 1 .. 12 /\ d \in 1 .. DaysIn(y, m) THEN <<y, m, d>> ELSE Unreadable

\* mutant: the month is tried first
ParseNumericDateUS(a, b, c) ==
  IF SafeDate(c, a, b) # Unreadable THEN SafeDate(c, a, b) ELSE SafeDate(c, b, a)

\* A first number above 31 is a year; then the day comes first, and the month
\* only when the day cannot.
ParseNumericDate(a, b, c) ==
  IF a > 31 /\ SafeDate(a, b, c) # Unreadable THEN SafeDate(a, b, c)
  ELSE IF SafeDate(c, b, a) # Unreadable THEN SafeDate(c, b, a)
  ELSE SafeDate(c, a, b)

\* The forms of month names there may be; accents, case and a final dot do not
\* matter
MonthForms == {"french", "french_short", "english", "english_short",
               "greek_genitive", "greek_nominative"}

\* The three tables: the genitive only of Greek names, English abbreviations only,
\* which the French ones of four months are not
MonthNamed(form, m) ==
  IF form = "greek_nominative" \/ (form = "french_short" /\ m \in {1, 2, 4, 7})
  THEN Unreadable ELSE m

\* The day comes first, then the name of the month
ParseNamedDate(d, month, year) ==
  IF month = Unreadable THEN Unreadable ELSE SafeDate(year, month, d)

--------------------------------------------------------------------------------
(* Amounts *)

\* The number read when the separators between the groups are dropped
Joined(groups) ==
  FoldLeft(LAMBDA total, g : total * 10^g.digits + g.value, 0, groups)

\* The last separator is a decimal one: a lone comma before two or three
\* digits, a lone dot unless it looks like thousands, the last of both kinds.
DecimalLast(groups, seps) ==
  LET n == Len(groups)
  IN \/ seps = <<",">> /\ groups[n].digits \in {2, 3}
     \/ seps = <<".">> /\ ~(groups[n].digits = 3 /\ groups[1].digits <= 3)
     \/ {",", "."} \subseteq ToSet(seps)

\* With both kinds the last one may occur once: Decimal() refuses two points.
Ambiguous(seps) ==
  /\ {",", "."} \subseteq ToSet(seps)
  /\ Last(seps) \in ToSet(Front(seps))

ParseAmount(groups, seps, negative) ==
  LET n == Len(groups)
      fraction == groups[n].value * 10^(3 - groups[n].digits)
      value == IF DecimalLast(groups, seps)
               THEN 1000 * Joined(Front(groups)) + fraction
               ELSE 1000 * Joined(groups)
  IN IF Ambiguous(seps) THEN Unreadable
     ELSE IF negative THEN -value ELSE value

--------------------------------------------------------------------------------
(* VAT numbers *)

\* A number of n digits after a prefix of two Latin letters or none (spaces, dots
\* and Greek letters are dropped).  Nine bare digits are Greek.  The patterns of the
\* known countries accept nothing that the fallback - two letters, eight
\* characters - does not.
ParseVatId(prefix, n) ==
  LET country == IF prefix = "" /\ n = 9 THEN "EL" ELSE prefix
  IN IF country # "" /\ 2 + n >= 8 THEN <<country, n>> ELSE Unreadable
================================================================================
