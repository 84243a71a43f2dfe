--------------------------- MODULE DeclarationProofs ---------------------------
(***************************************************************************)
(* Theorems about Declaration, for all dates, totals and lines that        *)
(* satisfy the assumptions of the module: what is printed is read, the     *)
(* authority and the two ERPs are told the same, and what is declared      *)
(* without anybody asking for it was validated.                            *)
(***************************************************************************)
EXTENDS Declaration, TLAPS

--------------------------------------------------------------------------------
(* Rounding *)

\* Euclid's division by a positive number
LEMMA Division ==
  ASSUME NEW n \in Int, NEW u \in Int, u > 0
  PROVE  /\ n \div u \in Int /\ n % u \in 0 .. u - 1
         /\ n - u * (n \div u) = n % u
<1>1. n \div u \in Int
  BY SMT
<1>2. n % u \in 0 .. u - 1
  BY SMT
<1>3. n - u * (n \div u) = n % u
  BY SMT
<1> QED BY <1>1, <1>2, <1>3, Zenon

\* quantize returns a multiple of the unit no further than half a unit away.
LEMMA HalfEvenNear ==
  ASSUME NEW n \in Int, NEW u \in Int, u > 0
  PROVE  /\ HalfEven(n, u) \in Int
         /\ 2 * (HalfEven(n, u) * u - n) \in -u .. u
<1> DEFINE q == n \div u  m == n % u
<1>1. q \in Int /\ m \in 0 .. u - 1 /\ n - u * q = m
  BY Division
<1>2. HalfEven(n, u) = IF 2 * m > u \/ (2 * m = u /\ q % 2 = 1) THEN q + 1 ELSE q
  BY DEF HalfEven
<1> HIDE DEF q, m
<1>3. q * u = u * q /\ (q + 1) * u = u * q + u
  BY <1>1
<1>4. CASE HalfEven(n, u) = q + 1 /\ 2 * m >= u
  <2>1. HalfEven(n, u) * u - n = u - m
    BY <1>1, <1>3, <1>4
  <2> QED BY <1>1, <1>4, <2>1
<1>5. CASE HalfEven(n, u) = q /\ 2 * m <= u
  <2>1. HalfEven(n, u) * u - n = -m
    BY <1>1, <1>3, <1>5
  <2> QED BY <1>1, <1>5, <2>1
<1> QED BY <1>1, <1>2, <1>4, <1>5

\* A rate in hundredths of a percent and the same rate in percents are at most
\* half a percent apart, whatever quotient the two were rounded from.
LEMMA PercentsNear ==
  ASSUME NEW v \in Int, NEW u \in Int, u > 0
  PROVE  /\ HalfEven(v * 10000, u) \in Int /\ HalfEven(v * 100, u) \in Int
         /\ HalfEven(v * 10000, u) - 100 * HalfEven(v * 100, u) \in -50 .. 50
<1> DEFINE r == HalfEven(v * 10000, u)  p == HalfEven(v * 100, u)
<1>1. r \in Int /\ 2 * (r * u - v * 10000) \in -u .. u
  <2> DEFINE w == v * 10000
  <2>1. w \in Int
    OBVIOUS
  <2> HIDE DEF w
  <2>2. HalfEven(w, u) \in Int /\ 2 * (HalfEven(w, u) * u - w) \in -u .. u
    BY <2>1, HalfEvenNear
  <2> QED BY <2>2 DEF w
<1>2. p \in Int /\ 2 * (p * u - v * 100) \in -u .. u
  <2> DEFINE w == v * 100
  <2>1. w \in Int
    OBVIOUS
  <2> HIDE DEF w
  <2>2. HalfEven(w, u) \in Int /\ 2 * (HalfEven(w, u) * u - w) \in -u .. u
    BY <2>1, HalfEvenNear
  <2> QED BY <2>2 DEF w
<1> HIDE DEF r, p
<1> DEFINE d == r - 100 * p
<1>3. d \in Int /\ d * u = r * u - 100 * (p * u)
  BY <1>1, <1>2
<1>4. 2 * (d * u) <= 101 * u /\ 2 * (d * u) >= -101 * u
  <2>1. r * u \in Int /\ p * u \in Int
    BY <1>1, <1>2
  <2> QED BY <1>1, <1>2, <1>3, <2>1
<1> HIDE DEF d
<1>5. ASSUME d >= 51 PROVE FALSE
  <2>1. d * u >= 51 * u
    BY <1>3, <1>5
  <2> QED BY <1>3, <1>4, <2>1
<1>6. ASSUME d <= -51 PROVE FALSE
  <2>1. d * u <= -51 * u
    BY <1>3, <1>6
  <2> QED BY <1>3, <1>4, <2>1
<1>7. d \in -50 .. 50
  BY <1>3, <1>5, <1>6
<1> QED BY <1>1, <1>2, <1>7 DEF d, r, p

--------------------------------------------------------------------------------
(* Printed dates *)

NoDate == None \notin Int \X Int \X Int

\* The shortest month has 28 days, the longest 31.
LEMMA DaysInMonth ==
  ASSUME NEW y \in Int, NEW m \in Int
  PROVE  DaysIn(y, m) \in 28 .. 31
  BY DEF DaysIn, LeapYear

\* A real date of a full year is itself.
LEMMA SafeReal ==
  ASSUME NEW y, NEW m, NEW d, Calendar(y, m, d)
  PROVE  SafeDate(y, m, d) = <<y, m, d>>
<1>1. y \in Int /\ NormalYear(y) = y
  BY DEF Calendar, NormalYear
<1>2. m \in 1 .. 12 /\ d \in 1 .. DaysIn(y, m)
  BY <1>1, DaysInMonth DEF Calendar
<1> QED BY <1>1, <1>2 DEF SafeDate

\* A year printed in full, in either order of the day and the month
LEMMA FullYears ==
  ASSUME NEW y, NEW m, NEW d, Calendar(y, m, d), NoDate
  PROVE  /\ ParseNumericDate(y, m, d) = <<y, m, d>>
         /\ ParseNumericDate(d, m, y) = <<y, m, d>>
         /\ ParseNumericDate(m, d, y) = IF d <= 12 THEN <<y, d, m>> ELSE <<y, m, d>>
<1>1. <<y, m, d>> # None /\ <<y, d, m>> # None
  BY DEF Calendar, NoDate
<1>2. SafeDate(y, m, d) = <<y, m, d>>
  BY SafeReal
<1>3. d <= 12 => SafeDate(y, d, m) = <<y, d, m>>
  <2>1. d <= 12 => Calendar(y, d, m)
    BY DaysInMonth DEF Calendar
  <2> QED BY <2>1, SafeReal
<1>4. d > 12 => SafeDate(y, d, m) = None
  BY DEF SafeDate, Calendar
<1>5. y > 31 /\ ~(d > 31) /\ ~(m > 31) /\ d \in Int
  BY DEF Calendar
<1> QED BY <1>1, <1>2, <1>3, <1>4, <1>5 DEF ParseNumericDate

\* Two digits of the year are enough from 1980 to 2079, and nothing else is.
LEMMA TwoDigits ==
  ASSUME NEW y, NEW m, NEW d, Calendar(y, m, d), NoDate
  PROVE  ParseNumericDate(d, m, y % 100) = <<y, m, d>> <=> y \in 1980 .. 2079
<1> DEFINE c == y % 100
<1>1. c \in 0 .. 99 /\ y \in Int /\ m \in 1 .. 12 /\ d \in 1 .. 31
  BY DEF Calendar
<1>2. NormalYear(c) = y <=> y \in 1980 .. 2079
  BY DEF Calendar, NormalYear
<1> HIDE DEF c
<1>3. <<y, m, d>> # None
  BY DEF Calendar, NoDate
<1>4. CASE NormalYear(c) = y
  <2>1. SafeDate(c, m, d) = <<y, m, d>>
    BY <1>1, <1>4 DEF SafeDate, Calendar
  <2>2. ParseNumericDate(d, m, c) = <<y, m, d>>
    BY <1>1, <1>3, <2>1 DEF ParseNumericDate
  <2> QED BY <1>2, <1>4, <2>2 DEF c
<1>5. CASE NormalYear(c) # y
  <2>1. SafeDate(c, m, d) # <<y, m, d>> /\ SafeDate(c, d, m) # <<y, m, d>>
    BY <1>3, <1>5 DEF SafeDate
  <2>2. ParseNumericDate(d, m, c) # <<y, m, d>>
    BY <1>1, <2>1 DEF ParseNumericDate
  <2> QED BY <1>2, <1>5, <2>2 DEF c
<1> QED BY <1>4, <1>5

\* A date is read as itself where it is not misread, in every style.
LEMMA DateRead ==
  ASSUME NEW date \in Dates, NEW style \in DateStyles
  PROVE  ReadDate(date, style) = date <=> ~Misread(date, style)
<1> DEFINE y == date[1]  m == date[2]  d == date[3]
<1>1. Calendar(y, m, d) /\ date = <<y, m, d>>
  BY DatesAssumption DEF RealDate
<1> HIDE DEF y, m, d
<1>2. NoDate /\ None \notin Int
  BY NoneAssumption DEF NoDate
<1>3. <<y, m, d>> # None /\ y \in Int /\ m \in 1 .. 12 /\ d \in 1 .. 31
  BY <1>1, <1>2 DEF Calendar, NoDate
<1> DEFINE read == ReadDate(<<y, m, d>>, style)
           bad == Misread(<<y, m, d>>, style)
<1>4. CASE style \in {"iso", "ymd", "dmy"}
  <2>1. read = <<y, m, d>>
    BY <1>1, <1>2, <1>4, FullYears DEF ReadDate
  <2> QED BY <1>1, <1>4, <2>1 DEF Misread
<1>5. CASE style = "dmy2"
  <2>1. read = ParseNumericDate(d, m, y % 100)
    BY <1>5 DEF ReadDate
  <2>2. bad <=> y \notin 1980 .. 2079
    BY <1>5 DEF Misread
  <2>3. ParseNumericDate(d, m, y % 100) = <<y, m, d>> <=> y \in 1980 .. 2079
    BY <1>1, <1>2, TwoDigits
  <2> QED BY <1>1, <2>1, <2>2, <2>3
<1>6. CASE style = "mdy"
  <2>1. read = IF d <= 12 THEN <<y, d, m>> ELSE <<y, m, d>>
    BY <1>1, <1>2, <1>6, FullYears DEF ReadDate
  <2>2. bad <=> d \in 1 .. 12 /\ d # m
    BY <1>6 DEF Misread
  <2>3. <<y, d, m>> = <<y, m, d>> <=> d = m
    OBVIOUS
  <2> QED BY <1>1, <1>3, <2>1, <2>2, <2>3
<1>7. CASE style \in MonthForms
  <2>1. read = ParseNamedDate(d, MonthNamed(style, m), y)
    BY <1>7 DEF ReadDate, MonthForms
  <2>2. bad <=> style = "greek_nominative" \/ (style = "french_short" /\ m \in {1, 2, 4, 7})
    BY <1>7 DEF Misread, MonthForms
  <2>3. m # None /\ SafeDate(y, m, d) = <<y, m, d>>
    BY <1>1, <1>2, <1>3, SafeReal
  <2> QED BY <1>1, <1>3, <2>1, <2>2, <2>3 DEF ParseNamedDate, MonthNamed
<1> QED BY <1>4, <1>5, <1>6, <1>7 DEF DateStyles

\* A VAT number of any length is one number in every form it is printed in.
LEMMA VatNumbers == VatNumbersAreRead
<1> SUFFICES ASSUME NEW n \in 1 .. 12
             PROVE  LET greek == ParseVatId("EL", n) IN
                    /\ greek # None => ParseVatId(greek[1], greek[2]) = greek
                    /\ ParseVatId("", n) = greek <=> n = 9 \/ greek = None
                    /\ ParseVatId("GR", n) = greek <=> greek = None
  BY DEF VatNumbersAreRead
<1>1. <<"EL", n>> # None /\ <<"GR", n>> # None
  <2>1. <<"EL", n>> \in {"EL", "GR"} \X Int /\ <<"GR", n>> \in {"EL", "GR"} \X Int
    OBVIOUS
  <2>2. None \notin {"EL", "GR"} \X Int
    BY NoneAssumption
  <2> QED BY <2>1, <2>2, Zenon
<1>2. <<"EL", n>> # <<"GR", n>>
  OBVIOUS
<1> QED BY <1>1, <1>2 DEF ParseVatId

--------------------------------------------------------------------------------
(* The row.  Its columns have the types of the database, and once it is read   *)
(* its date is the printed one as it is read, until somebody edits the row.    *)

ColumnsOK(inv) ==
  /\ inv.total_ht \in Column /\ inv.total_vat \in Column /\ inv.total_ttc \in Column
  /\ inv.lines \in Seq(Line)

RowColumns == {"issue_date", "total_ht", "total_vat", "total_ttc", "lines"}

RowInv ==
  /\ printed \in [date : Dates, style : DateStyles]
  /\ edits \in Nat
  /\ DOMAIN invoice = RowColumns /\ ColumnsOK(invoice)
  /\ status = "ready_for_review" /\ edits = 0 /\ ~reopened =>
       invoice.issue_date = ReadDate(printed.date, printed.style)

LEMMA RowInit == Init => RowInv
<1> SUFFICES ASSUME Init PROVE RowInv
  OBVIOUS
<1>1. DOMAIN NoColumns = RowColumns /\ ColumnsOK(NoColumns)
  BY DEF ColumnsOK, NoColumns, Column, RowColumns
<1> QED BY <1>1 DEF Init, RowInv

LEMMA NewColumns ==
  ASSUME NEW date, NEW totals \in Totals \cup TypedTotals, NEW lines \in PrintedLines \cup TypedLines
  PROVE  /\ DOMAIN Columns(date, totals, lines) = RowColumns
         /\ ColumnsOK(Columns(date, totals, lines))
<1>1. totals \in [ht : Column, vat : Column, ttc : Column] /\ lines \in Seq(Line)
  BY RowsAssumption
<1> QED BY <1>1 DEF ColumnsOK, Columns, RowColumns

LEMMA RowStep == RowInv /\ [Next]_vars => RowInv'
<1> SUFFICES ASSUME RowInv, [Next]_vars PROVE RowInv'
  OBVIOUS
<1> USE DEF RowInv
<1>1. CASE Read
  <2>1. PICK totals \in Totals, lines \in PrintedLines :
          invoice' = Columns(ReadDate(printed.date, printed.style), totals, lines)
    BY <1>1 DEF Read
  <2>2. DOMAIN invoice' = RowColumns /\ ColumnsOK(invoice')
    BY <2>1, NewColumns
  <2>3. invoice'.issue_date = ReadDate(printed.date, printed.style)
    BY <2>1 DEF Columns
  <2>4. printed' = printed /\ edits' = edits
    BY <1>1 DEF Read
  <2> QED BY <2>2, <2>3, <2>4
<1>2. CASE ReadOverflows \/ UNCHANGED vars
  BY <1>2 DEF ReadOverflows, vars
<1>3. CASE Edit
  <2>1. PICK given \in SUBSET DOMAIN invoice, date \in {printed.date, None},
             totals \in TypedTotals, lines \in TypedLines :
          invoice' = [c \in DOMAIN invoice |->
                        IF c \in given THEN Columns(date, totals, lines)[c] ELSE invoice[c]]
    BY <1>3 DEF Edit
  <2>2. DOMAIN invoice' = RowColumns /\ ColumnsOK(invoice')
    <3>1. ColumnsOK(Columns(date, totals, lines))
      BY NewColumns
    <3>2. DOMAIN invoice = RowColumns
      OBVIOUS
    <3> QED BY <2>1, <3>1, <3>2 DEF ColumnsOK, RowColumns
  <2>3. printed' = printed /\ edits' = edits + 1
    BY <1>3 DEF Edit
  <2> QED BY <2>2, <2>3
<1>4. CASE Confirm \/ Reopen \/ Ask
  BY <1>4 DEF Confirm, Reopen, Ask
<1>5. CASE \E task \in {"auto", "asked"} : Declare(task) \/ DeclareFails(task)
  BY <1>5 DEF Declare, DeclareFails
<1> QED BY <1>1, <1>2, <1>3, <1>4, <1>5 DEF Next

THEOREM RowInvariant == Spec => []RowInv
<1> QED BY RowInit, RowStep, PTL DEF Spec

\* For every real date in every style of print, and whatever is edited, reopened
\* or declared meanwhile: the row of a document that was just read has the printed
\* date, but for the misreadings PrintedIsRead lists; and a VAT number is one
\* in all its forms (parse_date, parse_vat_id).  That the printed amounts are read,
\* AmountsAreRead, is a statement about the constant Amounts that folds over
\* sequences; TLC evaluates it.
THEOREM DatesRead ==
  ASSUME AmountsAreRead
  PROVE  Spec => []PrintedIsRead
<1>1. RowInv => PrintedIsRead
  <2> SUFFICES ASSUME RowInv PROVE PrintedIsRead
    OBVIOUS
  <2>1. printed.date \in Dates /\ printed.style \in DateStyles
    BY DEF RowInv
  <2>2. ReadDate(printed.date, printed.style) = printed.date
          <=> ~Misread(printed.date, printed.style)
    BY <2>1, DateRead
  <2>3. status = "ready_for_review" /\ edits = 0 /\ ~reopened =>
          (invoice.issue_date = printed.date <=> ~Misread(printed.date, printed.style))
    BY <2>2 DEF RowInv
  <2> QED BY <2>3, AmountsAreRead, VatNumbers DEF PrintedIsRead
<1> QED BY <1>1, RowInvariant, PTL

--------------------------------------------------------------------------------
(* Confirmation.  A confirmed row is clean, and the task of a confirmation     *)
(* finds it confirmed unless it was reopened.                                  *)

ConfirmedInv ==
  /\ status = "confirmed" => Clean(invoice)
  /\ "auto" \in queue /\ ~reopened => status = "confirmed"
  /\ AutomaticIsValidated

\* Every issue with the totals is an error.
LEMMA CleanIsTotalled ==
  ASSUME NEW net, NEW vat, NEW gross,
         ~Rules!HasErrors(Rules!TotalsIssues(net, vat, gross))
  PROVE  Rules!TotalsIssues(net, vat, gross) = {}
  BY DEF Rules!HasErrors, Rules!TotalsIssues, Rules!ErrorCodes, Rules!When

LEMMA ConfirmedStep == ConfirmedInv /\ [Next]_vars => ConfirmedInv'
<1> SUFFICES ASSUME ConfirmedInv, [Next]_vars PROVE ConfirmedInv'
  OBVIOUS
<1> USE DEF ConfirmedInv, AutomaticIsValidated
<1>1. CASE Read
  BY <1>1 DEF Read
<1>2. CASE ReadOverflows \/ UNCHANGED vars
  BY <1>2 DEF ReadOverflows, vars
<1>3. CASE Edit
  BY <1>3 DEF Edit
<1>4. CASE Confirm \/ Reopen \/ Ask
  BY <1>4 DEF Confirm, Reopen, Ask
<1>5. ASSUME NEW task \in {"auto", "asked"}, Declare(task) PROVE ConfirmedInv'
  <2>1. UNCHANGED <<printed, status, invoice, reopened>> /\ queue' \subseteq queue
    BY <1>5 DEF Declare
  <2>2. ASSUME declared'.task = "auto", ~declared'.reopened
        PROVE  Totalled(declared'.document)
    <3>1. task = "auto" /\ ~reopened /\ declared'.document = MyData(invoice)
      BY <1>5, <2>2 DEF Declare
    <3>2. Clean(invoice)
      BY <1>5, <3>1 DEF Declare
    <3>3. Rules!TotalsIssues(invoice.total_ht, invoice.total_vat, invoice.total_ttc) = {}
      BY <3>2, CleanIsTotalled DEF Clean
    <3> QED BY <3>1, <3>3 DEF Totalled, MyData
  <2> QED BY <2>1, <2>2
<1>6. ASSUME NEW task \in {"auto", "asked"}, DeclareFails(task) PROVE ConfirmedInv'
  BY <1>6 DEF DeclareFails
<1> QED BY <1>1, <1>2, <1>3, <1>4, <1>5, <1>6 DEF Next

\* Over any number of edits, confirmations and reopenings: totals that nobody asked
\* to declare add up, unless the invoice was reopened (confirm_invoice,
\* submit_invoice_mydata).
THEOREM AutomaticValidated == Spec => []AutomaticIsValidated
<1>1. Init => ConfirmedInv
  BY DEF Init, ConfirmedInv, AutomaticIsValidated
<1>2. ConfirmedInv => AutomaticIsValidated
  BY DEF ConfirmedInv
<1> QED BY <1>1, <1>2, ConfirmedStep, PTL DEF Spec

--------------------------------------------------------------------------------
(* The documents of one row *)

\* Rounding to whole percents and taking a missing rate for 24% commute, but for a
\* rate of zero.
LEMMA LineRates ==
  ASSUME NEW rate \in Int
  PROVE  /\ rate - 100 * HalfEven(rate, 100) \in -50 .. 50
         /\ HalfEven(2400, 100) = 24
  BY DEF HalfEven

\* The rate the ERPs are told of a row without lines
LEMMA SyntheticRates ==
  ASSUME NEW inv, ColumnsOK(inv)
  PROVE  ErpInferred(inv, 10000) - 100 * ErpInferred(inv, 100) \in -50 .. 50
<1> DEFINE ht == inv.total_ht  vat == inv.total_vat
<1>1. ht \in Column /\ vat \in Column
  BY DEF ColumnsOK
<1> HIDE DEF ht, vat
<1>2. CASE ht \in {None, 0} \/ vat = None
  BY <1>2 DEF ErpInferred, ht, vat
<1>3. CASE ~(ht \in {None, 0} \/ vat = None)
  <2>1. ht \in Int /\ vat \in Int /\ ht # 0 /\ -ht \in Int /\ -vat \in Int
    BY <1>1, <1>3 DEF Column
  <2>2. ErpInferred(inv, 10000) = Inferred(vat, ht, 10000)
          /\ ErpInferred(inv, 100) = Inferred(vat, ht, 100)
    BY <1>3 DEF ErpInferred, ht, vat
  <2>3. CASE ht > 0
    <3>1. Inferred(vat, ht, 10000) = HalfEven(vat * 10000, ht)
            /\ Inferred(vat, ht, 100) = HalfEven(vat * 100, ht)
      BY <2>3 DEF Inferred
    <3> QED BY <2>1, <2>2, <2>3, <3>1, PercentsNear
  <2>4. CASE ~(ht > 0)
    <3> DEFINE u == -ht  v == -vat
    <3>1. Inferred(vat, ht, 10000) = HalfEven(v * 10000, u)
            /\ Inferred(vat, ht, 100) = HalfEven(v * 100, u)
      BY <2>4 DEF Inferred
    <3>2. u \in Int /\ v \in Int /\ u > 0
      BY <2>1, <2>4
    <3> HIDE DEF u, v
    <3>3. HalfEven(v * 10000, u) - 100 * HalfEven(v * 100, u) \in -50 .. 50
      BY <3>2, PercentsNear
    <3> QED BY <2>2, <3>1, <3>3
  <2> QED BY <2>3, <2>4
<1> QED BY <1>2, <1>3

\* What DocumentsAgree says of the lines
Shown(inv) ==
  IF inv.lines = <<>> THEN {1}
  ELSE {k \in DOMAIN inv.lines : inv.lines[k].line_total_ht # None}

ErpsTold(inv) ==
  /\ \A c \in DOMAIN SoftOne(inv).totals :
       SoftOne(inv).totals[c] = Epsilon(inv).totals[c]
  /\ DOMAIN Epsilon(inv).lines = Shown(inv)
  /\ \A k \in Shown(inv) :
       /\ Epsilon(inv).lines[k].net = SoftOne(inv).lines[k].net
       /\ Epsilon(inv).lines[k].rate - 100 * SoftOne(inv).lines[k].percent \in -50 .. 50

AuthorityTold(inv) ==
  /\ Epsilon(inv).totals = [total_ht |-> MyData(inv).net, total_vat |-> MyData(inv).vat,
                            total_ttc |-> MyData(inv).gross]
  /\ DOMAIN MyData(inv).lines = Shown(inv)
  /\ \A k \in Shown(inv) :
       LET sent == MyData(inv).lines[k]  ours == SoftOne(inv).lines[k] IN
       /\ sent.line_number = Epsilon(inv).lines[k].line_number
       /\ sent.net_value = ours.net
       /\ \/ sent.vat_category = CategoryOfPercent(ours.percent)
          \/ sent.vat_category = 1 /\ ZeroRated(inv, k)
          \/ sent.vat_category = 7 /\ WithoutNet(inv)
          \/ sent.vat_category = 8 /\ NegativeZero(inv, k, ours.percent)

LEMMA ErpsAgree ==
  ASSUME NEW inv, ColumnsOK(inv)
  PROVE  ErpsTold(inv)
<1> USE DEF ErpsTold
<1>1. \A c \in DOMAIN SoftOne(inv).totals : SoftOne(inv).totals[c] = Epsilon(inv).totals[c]
  BY DEF SoftOne, Epsilon, Money
<1>2. CASE inv.lines = <<>>
  <2>1. Epsilon(inv).lines =
          <<[line_number |-> 1, net |-> Money(inv.total_ht), rate |-> ErpInferred(inv, 10000)]>>
    BY <1>2 DEF Epsilon
  <2>2. SoftOne(inv).lines =
          <<[net |-> Money(inv.total_ht), percent |-> ErpInferred(inv, 100)]>>
    BY <1>2 DEF SoftOne
  <2>3. Shown(inv) = {1}
    BY <1>2 DEF Shown
  <2> QED BY <1>1, <2>1, <2>2, <2>3, SyntheticRates
<1>3. CASE inv.lines # <<>>
  <2>1. Shown(inv) = Priced(inv.lines)
    BY <1>3 DEF Shown, Priced
  <2>2. DOMAIN Epsilon(inv).lines = Shown(inv)
    BY <1>3, <2>1 DEF Epsilon
  <2>3. ASSUME NEW k \in Shown(inv)
        PROVE  /\ Epsilon(inv).lines[k].net = SoftOne(inv).lines[k].net
               /\ Epsilon(inv).lines[k].rate - 100 * SoftOne(inv).lines[k].percent \in -50 .. 50
    <3> DEFINE l == inv.lines[k]
    <3>1. k \in DOMAIN inv.lines /\ l.line_total_ht # None
      BY <1>3 DEF Shown
    <3>2. l.vat_rate \in Column
      <4>1. inv.lines[k] \in Line
        BY <3>1 DEF ColumnsOK
      <4> QED BY <4>1 DEF Line
    <3>3. Epsilon(inv).lines[k].net = l.line_total_ht
            /\ Epsilon(inv).lines[k].rate = IF l.vat_rate = None THEN 2400 ELSE l.vat_rate
      BY <1>3, <2>1 DEF Epsilon
    <3>4. SoftOne(inv).lines[k].net = l.line_total_ht
            /\ SoftOne(inv).lines[k].percent = IF l.vat_rate = None THEN 24 ELSE HalfEven(l.vat_rate, 100)
      BY <1>3, <3>1 DEF SoftOne, Money
    <3> HIDE DEF l
    <3>5. CASE l.vat_rate = None
      BY <3>3, <3>4, <3>5
    <3>6. CASE l.vat_rate # None
      <4>1. l.vat_rate \in Int
        BY <3>2, <3>6 DEF Column
      <4> QED BY <3>3, <3>4, <3>6, <4>1, LineRates
    <3> QED BY <3>5, <3>6
  <2> QED BY <1>1, <2>2, <2>3
<1> QED BY <1>2, <1>3

LEMMA AuthorityAgrees ==
  ASSUME NEW inv, ColumnsOK(inv), Mappable(inv)
  PROVE  AuthorityTold(inv)
<1> USE DEF AuthorityTold
<1>1. None \notin {inv.total_ht, inv.total_vat, inv.total_ttc}
  BY DEF Mappable
<1>2. Epsilon(inv).totals =
        [total_ht |-> MyData(inv).net, total_vat |-> MyData(inv).vat,
         total_ttc |-> MyData(inv).gross]
  BY <1>1 DEF Epsilon, MyData, Money, TotalColumns
<1>3. CASE inv.lines = <<>>
  <2>1. MyData(inv).lines = <<MyDataSynthetic(inv)>>
    BY <1>3 DEF MyData
  <2>2. Epsilon(inv).lines =
          <<[line_number |-> 1, net |-> Money(inv.total_ht), rate |-> ErpInferred(inv, 10000)]>>
    BY <1>3 DEF Epsilon
  <2>3. SoftOne(inv).lines =
          <<[net |-> Money(inv.total_ht), percent |-> ErpInferred(inv, 100)]>>
    BY <1>3 DEF SoftOne
  <2>4. Shown(inv) = {1}
    BY <1>3 DEF Shown
  <2>5. inv.total_ht # 0 => ErpInferred(inv, 100) = Inferred(inv.total_vat, inv.total_ht, 100)
    BY <1>1 DEF ErpInferred
  <2> QED BY <1>1, <1>2, <1>3, <2>1, <2>2, <2>3, <2>4, <2>5
             DEF MyDataSynthetic, PrintedCategory, WithoutNet, NegativeZero, Money
<1>4. CASE inv.lines # <<>>
  <2>1. Shown(inv) = Priced(inv.lines)
    BY <1>4 DEF Shown, Priced
  <2>2. DOMAIN MyData(inv).lines = Shown(inv)
    BY <1>4, <2>1 DEF MyData
  <2>3. ASSUME NEW k \in Shown(inv)
        PROVE  LET category == MyData(inv).lines[k].vat_category
                   percent == SoftOne(inv).lines[k].percent
               IN \/ category = CategoryOfPercent(percent)
                  \/ category = 1 /\ ZeroRated(inv, k)
                  \/ category = 8 /\ NegativeZero(inv, k, percent)
    <3> DEFINE l == inv.lines[k]
    <3>1. k \in DOMAIN inv.lines
      BY <1>4 DEF Shown
    <3>2. MyData(inv).lines[k].vat_category = VatCategory(DeclaredRate(l))
      BY <1>4, <2>1 DEF MyData, MyDataLine
    <3>3. SoftOne(inv).lines[k].percent = IF l.vat_rate = None THEN 24 ELSE HalfEven(l.vat_rate, 100)
      BY <1>4, <3>1 DEF SoftOne
    <3>4. 2400 # None /\ HalfEven(2400, 100) = 24
      BY NoneAssumption, LineRates
    <3> HIDE DEF l
    <3>5. CASE l.vat_rate \in {None, 0}
      <4>1. MyData(inv).lines[k].vat_category = 1
        BY <3>2, <3>4, <3>5 DEF VatCategory, DeclaredRate, PrintedCategory, CategoryOfPercent
      <4>2. l.vat_rate = None => CategoryOfPercent(SoftOne(inv).lines[k].percent) = 1
        BY <3>3 DEF CategoryOfPercent
      <4>3. l.vat_rate = 0 => ZeroRated(inv, k)
        BY <1>4 DEF ZeroRated, l
      <4> QED BY <3>5, <4>1, <4>2, <4>3
    <3>6. CASE l.vat_rate \notin {None, 0}
      <4>1. MyData(inv).lines[k].vat_category
              = PrintedCategory(HalfEven(l.vat_rate, 100), l.vat_rate < 0)
        BY <3>2, <3>6 DEF VatCategory, DeclaredRate
      <4>2. SoftOne(inv).lines[k].percent = HalfEven(l.vat_rate, 100)
        BY <3>3, <3>6
      <4> QED BY <1>4, <4>1, <4>2 DEF PrintedCategory, NegativeZero, l
    <3> QED BY <3>5, <3>6
  <2>4. ASSUME NEW k \in Shown(inv)
        PROVE  /\ MyData(inv).lines[k].line_number = Epsilon(inv).lines[k].line_number
               /\ MyData(inv).lines[k].net_value = SoftOne(inv).lines[k].net
    <3>1. k \in DOMAIN inv.lines /\ inv.lines[k].line_total_ht # None
      BY <1>4 DEF Shown
    <3> QED BY <1>4, <2>1, <3>1 DEF MyData, MyDataLine, Epsilon, SoftOne, Money
  <2> QED BY <1>2, <1>4, <2>2, <2>3, <2>4
<1> QED BY <1>3, <1>4

\* Of every row there can be, with any lines, rates and amounts of any sign: the
\* authority and the two ERPs are told the same totals, the same lines and the same
\* rates, but for a rate of zero, a row without a net and a negative rate that
\* rounds to zero, which the authority is told as DocumentsAgree says
\* (map_invoice_to_mydata, vat_category_from_rate, map_invoice_to_epsilon,
\* map_invoice_to_softone).
THEOREM AllToldTheSame == Spec => []DocumentsAgree
<1>1. RowInv => DocumentsAgree
  <2> SUFFICES ASSUME RowInv PROVE DocumentsAgree
    OBVIOUS
  <2>1. ColumnsOK(invoice)
    BY DEF RowInv
  <2>2. ErpsTold(invoice) /\ (Mappable(invoice) => AuthorityTold(invoice))
    BY <2>1, ErpsAgree, AuthorityAgrees
  <2> QED BY <2>2, Zenon DEF DocumentsAgree, ErpsTold, AuthorityTold, Shown
<1> QED BY <1>1, RowInvariant, PTL

================================================================================
