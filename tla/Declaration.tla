------------------------------ MODULE Declaration ------------------------------
(***************************************************************************)
(* What becomes of the content of one invoice on its way from the document *)
(* to the tax authority and the ERP: the fields the OCR service returns    *)
(* (workers/app/services/azure_di.py, invoice_processor.py), the edits of  *)
(* a reviewer, the confirmation (backend/app/services/invoice.py), and the *)
(* documents the tasks build from the row when their turn comes            *)
(* (raijin_shared/mydata/invoice_mapper.py, xml_builder.py,                *)
(* raijin_shared/erp/softone_mapper.py, epsilon_mapper.py).                *)
(*                                                                         *)
(* Amounts are cents, rates are ten-thousandths (24% is 2400), dates are   *)
(* those of Normalizer.  One request at a time touches the invoice; their  *)
(* overlaps, failures and retries are in InvoiceLifecycle and Submission.  *)
(***************************************************************************)
EXTENDS Integers, Sequences, FiniteSets

CONSTANTS
  None,          \* a NULL column, a field that is missing or unreadable
  Dates,         \* real dates that may be printed, <<year, month, day>>
  Totals,        \* what the service may return as totals
  TypedTotals,   \* what a reviewer may type as totals
  PrintedLines,  \* the sequences of lines the service may return
  TypedLines,    \* the sequences of lines a reviewer may type
  Amounts,       \* amounts, in cents, to be printed in every style
  MaxEdits,      \* bound on the edits
  MaxAsks        \* bound on the submissions asked for by hand

VARIABLES
  printed,   \* the date on the document and the style it is printed in
  status,    \* of the invoice: uploaded, ready_for_review, confirmed
  invoice,   \* the columns of the row this module needs, and its lines
  queue,     \* the pending tasks: "auto" after a confirmation, "asked" for
  declared,  \* the document last sent to the authority, with its task, or None
  reopened,  \* whether the invoice was ever reopened
  edits,     \* edits so far
  asks       \* submissions asked for so far

vars == <<printed, status, invoice, queue, declared, reopened, edits, asks>>

INSTANCE Normalizer WITH Unreadable <- None
Rules == INSTANCE ValidationRules WITH Today <- 0

Column == Int \cup {None}
Line == [line_number : Int, vat_rate : Column, line_total_ht : Column]

ASSUME BoundsAssumption == MaxEdits \in Nat /\ MaxAsks \in Nat

\* None is none of what it stands for the lack of: a number, a date, a VAT number.
ASSUME NoneAssumption ==
  None \notin Int /\ None \notin Int \X Int \X Int /\ None \notin {"EL", "GR"} \X Int

\* A day of the calendar, in a year of four digits
Calendar(y, m, d) ==
  y \in 1000 .. 9999 /\ m \in 1 .. 12 /\ d \in 1 .. 31 /\ d <= DaysIn(y, m)

RealDate(date) ==
  date = <<date[1], date[2], date[3]>> /\ Calendar(date[1], date[2], date[3])

ASSUME DatesAssumption == \A date \in Dates : RealDate(date)

\* Amounts and rates are whole numbers of any sign.
ASSUME RowsAssumption ==
  /\ Totals \cup TypedTotals \subseteq [ht : Column, vat : Column, ttc : Column]
  /\ PrintedLines \cup TypedLines \subseteq Seq(Line)

--------------------------------------------------------------------------------
(* Reading *)

\* The ways a date is printed that the normaliser is meant for, the American one
\* and the names of months in several forms
DateStyles == {"iso", "ymd", "dmy", "dmy2", "mdy"} \cup MonthForms

\* parse_date of date d printed in the style
ReadDate(d, style) ==
  LET y == d[1]  m == d[2]  day == d[3]
  IN CASE style = "iso"  -> d
       [] style = "ymd"  -> ParseNumericDate(y, m, day)
       [] style = "dmy"  -> ParseNumericDate(day, m, y)
       [] style = "dmy2" -> ParseNumericDate(day, m, y % 100)
       [] style = "mdy"  -> ParseNumericDate(m, day, y)
       [] OTHER          -> ParseNamedDate(day, MonthNamed(style, m), y)

\* Numeric(5, 4): a rate of 10 or more, or of -10 or less, does not fit, and the
\* flush fails
Storable(lines) ==
  \A k \in DOMAIN lines : lines[k].vat_rate # None => lines[k].vat_rate \in -99999 .. 99999

NoColumns == [issue_date |-> None, total_ht |-> None, total_vat |-> None,
              total_ttc |-> None, lines |-> <<>>]

Columns(date, totals, lines) ==
  [issue_date |-> date, total_ht |-> totals.ht, total_vat |-> totals.vat,
   total_ttc |-> totals.ttc, lines |-> lines]

--------------------------------------------------------------------------------
(* Documents *)

\* Decimal.quantize: the nearest multiple of the unit, a tie to the even one
HalfEven(n, unit) ==
  LET q == n \div unit  rest == 2 * (n % unit)
  IN IF rest > unit \/ (rest = unit /\ q % 2 = 1) THEN q + 1 ELSE q

\* The categories of the authority, of a rate in whole percents
CategoryOfPercent(percent) ==
  CASE percent = 24 -> 1 [] percent = 13 -> 2 [] percent = 6 -> 3
    [] percent = 0 -> 7 [] OTHER -> 8

\* vat_category_from_rate looks the printed rate up: a negative one that rounds to
\* zero is printed as -0.00, which the table lacks.
PrintedCategory(percent, negative) ==
  IF percent = 0 /\ negative THEN 8 ELSE CategoryOfPercent(percent)

VatCategory(rate) ==
  IF rate = None THEN 7 ELSE PrintedCategory(HalfEven(rate, 100), rate < 0)

\* The rate of the synthetic line, total_vat / total_ht, in units of 1/scale
Inferred(vat, ht, scale) ==
  IF ht > 0 THEN HalfEven(vat * scale, ht) ELSE HalfEven((-vat) * scale, -ht)

\* Its sign: no VAT at all on a negative net is a negative zero
InferredNegative(vat, ht) == (vat < 0) # (ht < 0)

\* A line without a rate, or with a rate of zero, is taken for 24%.
DeclaredRate(line) == IF line.vat_rate \in {None, 0} THEN 2400 ELSE line.vat_rate

\* mutant: a line without a rate is left out
PricedAndRated(lines) ==
  {k \in DOMAIN lines : lines[k].line_total_ht # None /\ lines[k].vat_rate # None}

\* The lines that have a net amount, by their place: the lines of a document
\* are in the order of the row and named by the place they have there.
Priced(lines) == {k \in DOMAIN lines : lines[k].line_total_ht # None}

\* map_invoice_to_mydata raises InvoiceMappingError without these.
Mappable(inv) ==
  inv.issue_date # None /\ None \notin {inv.total_ht, inv.total_vat, inv.total_ttc}

MyDataLine(line) ==
  [line_number |-> line.line_number,
   net_value |-> line.line_total_ht,
   vat_category |-> VatCategory(DeclaredRate(line)),
   vat_amount |-> HalfEven(line.line_total_ht * DeclaredRate(line), 10000)]

MyDataSynthetic(inv) ==
  [line_number |-> 1,
   net_value |-> inv.total_ht,
   vat_category |-> IF inv.total_ht = 0 THEN 7
                    ELSE PrintedCategory(Inferred(inv.total_vat, inv.total_ht, 100),
                                         InferredNegative(inv.total_vat, inv.total_ht)),
   vat_amount |-> inv.total_vat]

\* map_invoice_to_mydata: the lines that have a net amount, or one line with
\* the totals when the invoice has no lines at all
MyData(inv) ==
  [lines |-> IF inv.lines = <<>> THEN <<MyDataSynthetic(inv)>>
             ELSE [k \in Priced(inv.lines) |-> MyDataLine(inv.lines[k])],
   net |-> inv.total_ht, vat |-> inv.total_vat, gross |-> inv.total_ttc]

\* What the ERP mappers need, and what they print for a missing amount
ErpMappable(inv) == inv.issue_date # None /\ inv.total_ttc # None
Money(amount) == IF amount = None THEN 0 ELSE amount

\* The rate of the synthetic line for an ERP: 24% when the totals give none
ErpInferred(inv, scale) ==
  IF inv.total_ht \in {None, 0} \/ inv.total_vat = None THEN (24 * scale) \div 100
  ELSE Inferred(inv.total_vat, inv.total_ht, scale)

TotalColumns == {"total_ht", "total_vat", "total_ttc"}

\* map_invoice_to_epsilon: like the authority, only lines that have a net amount;
\* rates in hundredths of a percent, 24 for a missing one; missing totals as zero
Epsilon(inv) ==
  [totals |-> [c \in TotalColumns |-> Money(inv[c])],
   lines |->
     IF inv.lines = <<>>
     THEN <<[line_number |-> 1, net |-> Money(inv.total_ht), rate |-> ErpInferred(inv, 10000)]>>
     ELSE [k \in Priced(inv.lines) |->
             LET l == inv.lines[k]
             IN [line_number |-> l.line_number, net |-> l.line_total_ht,
                 rate |-> IF l.vat_rate = None THEN 2400 ELSE l.vat_rate]]]

\* map_invoice_to_softone: every line, zero for a missing net; rates in percents,
\* 24 for a missing one; missing totals are left out
SoftOne(inv) ==
  [totals |-> [c \in {c \in TotalColumns : inv[c] # None} |-> inv[c]],
   lines |->
     IF inv.lines = <<>>
     THEN <<[net |-> Money(inv.total_ht), percent |-> ErpInferred(inv, 100)]>>
     ELSE [k \in DOMAIN inv.lines |->
             LET l == inv.lines[k]
             IN [net |-> Money(l.line_total_ht),
                 percent |-> IF l.vat_rate = None THEN 24 ELSE HalfEven(l.vat_rate, 100)]]]

--------------------------------------------------------------------------------
Init ==
  /\ printed \in [date : Dates, style : DateStyles]
  /\ status = "uploaded" /\ invoice = NoColumns
  /\ queue = {} /\ declared = None
  /\ reopened = FALSE /\ edits = 0 /\ asks = 0

\* The OCR is read and written: the rates of the new lines are stored as they
\* were returned (the loop that would normalise them sees the old lines only).
Read ==
  /\ status = "uploaded"
  /\ \E totals \in Totals, lines \in PrintedLines :
       /\ Storable(lines)
       /\ invoice' = Columns(ReadDate(printed.date, printed.style), totals, lines)
  /\ status' = "ready_for_review"
  /\ UNCHANGED <<printed, queue, declared, reopened, edits, asks>>

\* A rate that does not fit its column: the transaction is rolled back, and
\* every retry of the task meets the same lines.
ReadOverflows ==
  /\ status = "uploaded"
  /\ \E lines \in PrintedLines : ~Storable(lines)
  /\ UNCHANGED vars

\* PATCH: the columns that are given, and the lines, as typed; a date may be
\* corrected or removed.  The issues are shown, nothing is refused.
Edit ==
  /\ status = "ready_for_review" /\ edits < MaxEdits
  /\ \E given \in SUBSET DOMAIN invoice :
     \E date \in {printed.date, None}, totals \in TypedTotals, lines \in TypedLines :
       /\ "lines" \in given => Storable(lines)
       /\ invoice' = [c \in DOMAIN invoice |->
                        IF c \in given THEN Columns(date, totals, lines)[c] ELSE invoice[c]]
  /\ edits' = edits + 1
  /\ UNCHANGED <<printed, status, queue, declared, reopened, asks>>

\* mutant: the totals are not checked again
CleanAlways(inv) == inv.issue_date # None

\* _revalidate finds no error in the columns of this module.
Clean(inv) ==
  /\ inv.issue_date # None
  /\ ~Rules!HasErrors(Rules!TotalsIssues(inv.total_ht, inv.total_vat, inv.total_ttc))

\* POST /confirm, with auto_submit on: the task is sent after the commit.
Confirm ==
  /\ status = "ready_for_review" /\ Clean(invoice)
  /\ status' = "confirmed"
  /\ queue' = queue \cup {"auto"}
  /\ UNCHANGED <<printed, invoice, declared, reopened, edits, asks>>

\* POST /reopen: the task of the confirmation is not recalled.
Reopen ==
  /\ status = "confirmed"
  /\ status' = "ready_for_review" /\ reopened' = TRUE
  /\ UNCHANGED <<printed, invoice, queue, declared, edits, asks>>

\* POST /mydata/submit: whatever the status of the invoice
Ask ==
  /\ asks < MaxAsks
  /\ asks' = asks + 1
  /\ queue' = queue \cup {"asked"}
  /\ UNCHANGED <<printed, status, invoice, declared, reopened, edits>>

\* The task loads the row as it is now and declares it; it does not look at
\* the status.
Declare(task) ==
  /\ task \in queue /\ Mappable(invoice)
  /\ declared' = [task |-> task, reopened |-> reopened, source |-> invoice.lines,
                  document |-> MyData(invoice)]
  /\ queue' = queue \ {task}
  /\ UNCHANGED <<printed, status, invoice, reopened, edits, asks>>

\* InvoiceMappingError: the submission is failed for good, nothing is declared.
DeclareFails(task) ==
  /\ task \in queue /\ ~Mappable(invoice)
  /\ queue' = queue \ {task}
  /\ UNCHANGED <<printed, status, invoice, declared, reopened, edits, asks>>

Next ==
  \/ Read \/ ReadOverflows
  \/ Edit \/ Confirm \/ Reopen
  \/ Ask
  \/ \E task \in {"auto", "asked"} : Declare(task) \/ DeclareFails(task)

Spec == Init /\ [][Next]_vars

--------------------------------------------------------------------------------
(* Printed amounts *)

Digits(n) == CHOOSE k \in 1 .. 10 : n < 10^k /\ (k = 1 \/ n >= 10^(k - 1))

\* The groups of three digits of a whole number
Thousands(n) ==
  LET count == (Digits(n) + 2) \div 3
  IN [k \in 1 .. count |->
        [digits |-> IF k = 1 THEN Digits(n) - 3 * (count - 1) ELSE 3,
         value |-> (n \div 1000^(count - k)) % 1000]]

WholeOf(cents) == cents \div 100
CentsOf(cents) == [digits |-> 2, value |-> cents % 100]
Repeat(sep, n) == [k \in 1 .. n |-> sep]

\* parse_amount of an amount printed with a thousands separator (or none) and a
\* decimal separator (or, a whole amount, none)
ReadGrouped(cents, sep, point) ==
  LET groups == Thousands(WholeOf(cents))
      seps == Repeat(sep, Len(groups) - 1)
  IN IF point = None THEN ParseAmount(groups, seps, FALSE)
     ELSE ParseAmount(Append(groups, CentsOf(cents)), Append(seps, point), FALSE)

ReadPlain(cents, point) ==
  LET whole == [digits |-> Digits(WholeOf(cents)), value |-> WholeOf(cents)]
  IN ParseAmount(<<whole, CentsOf(cents)>>, <<point>>, TRUE)

--------------------------------------------------------------------------------
(* Properties *)

Totalled(inv) == Rules!TotalsIssues(inv.net, inv.vat, inv.gross) = {}

AmountsAreRead ==
  \A a \in Amounts :
    /\ ReadGrouped(a, ".", ",") = 10 * a
    /\ ReadGrouped(a, ",", ".") = 10 * a
    /\ ReadPlain(a, ",") = -10 * a /\ ReadPlain(a, ".") = -10 * a
    /\ a % 100 = 0 =>
         /\ ReadGrouped(a, ".", None) = 10 * a
         /\ ReadGrouped(a, ",", None) = 10 * a <=> WholeOf(a) \notin 1000 .. 999999

\* One VAT number is one however it is printed and however often it is read, but
\* for the prefix GR, and bare only with nine digits
VatNumbersAreRead ==
  \A n \in 1 .. 12 :
    LET greek == ParseVatId("EL", n) IN
    /\ greek # None => ParseVatId(greek[1], greek[2]) = greek
    /\ ParseVatId("", n) = greek <=> n = 9 \/ greek = None
    /\ ParseVatId("GR", n) = greek <=> greek = None

\* A printed date is misread when it is American and its day could be a month, its
\* two digits of the year stand for another century, or its month is named in a
\* form the tables lack.
Misread(date, style) ==
  \/ style = "mdy" /\ date[3] \in 1 .. 12 /\ date[3] # date[2]
  \/ style = "dmy2" /\ date[1] \notin 1980 .. 2079
  \/ style = "greek_nominative"
  \/ style = "french_short" /\ date[2] \in {1, 2, 4, 7}

\* A printed date is read as itself and nothing else unless it is one of those; a
\* printed amount is read as itself in the European, the American and the plain
\* style, unless it is a whole American number of one comma; a VAT number is the
\* same in every Greek form (parse_date, parse_amount, parse_vat_id).
PrintedIsRead ==
  /\ status = "ready_for_review" /\ edits = 0 /\ ~reopened =>
       (invoice.issue_date = printed.date <=> ~Misread(printed.date, printed.style))
  /\ AmountsAreRead /\ VatNumbersAreRead

\* The cases where the authority is told another rate than the ERPs
ZeroRated(inv, k) == inv.lines # <<>> /\ inv.lines[k].vat_rate = 0
WithoutNet(inv) == inv.lines = <<>> /\ inv.total_ht = 0
NegativeZero(inv, k, percent) ==
  /\ percent = 0
  /\ IF inv.lines = <<>> THEN InferredNegative(inv.total_vat, inv.total_ht)
     ELSE inv.lines[k].vat_rate < 0

\* Of one row the authority and the two ERPs are told the same: the same totals,
\* and the same lines with the same amounts (SoftOne also lists the lines without
\* one, as zero) at the same rate, up to half a percent of rounding.  The authority
\* is told another rate in three cases only: a line with a rate of zero is 24% for
\* it, a synthetic line without a net is exempt, and a negative rate that rounds
\* to zero, which a credit note without VAT has, is of no category.  The ERPs are
\* also told of rows without all totals, and differ only in leaving them out
\* (map_invoice_to_mydata, _to_softone, _to_epsilon).
DocumentsAgree ==
  ErpMappable(invoice) =>
    LET authority == MyData(invoice)
        epsilon == Epsilon(invoice)
        softone == SoftOne(invoice)
        shown == IF invoice.lines = <<>> THEN {1}
                 ELSE {k \in DOMAIN invoice.lines : invoice.lines[k].line_total_ht # None}
    IN /\ \A c \in DOMAIN softone.totals : softone.totals[c] = epsilon.totals[c]
       /\ DOMAIN epsilon.lines = shown
       /\ \A k \in shown :
            /\ epsilon.lines[k].net = softone.lines[k].net
            /\ epsilon.lines[k].rate - 100 * softone.lines[k].percent \in -50 .. 50
       /\ Mappable(invoice) =>
            /\ epsilon.totals = [total_ht |-> authority.net, total_vat |-> authority.vat,
                                 total_ttc |-> authority.gross]
            /\ DOMAIN authority.lines = shown
            /\ \A k \in shown :
                 LET sent == authority.lines[k]  ours == softone.lines[k] IN
                 /\ sent.line_number = epsilon.lines[k].line_number
                 /\ sent.net_value = ours.net
                 /\ \/ sent.vat_category = CategoryOfPercent(ours.percent)
                    \/ sent.vat_category = 1 /\ ZeroRated(invoice, k)
                    \/ sent.vat_category = 7 /\ WithoutNet(invoice)
                    \/ sent.vat_category = 8 /\ NegativeZero(invoice, k, ours.percent)

\* What is declared without anybody asking for it has totals that add up,
\* unless the invoice was reopened: the task does not check the status, only
\* the confirmation before it does (confirm_invoice, submit_invoice_mydata).
AutomaticIsValidated ==
  declared # None /\ declared.task = "auto" /\ ~declared.reopened
    => Totalled(declared.document)

--------------------------------------------------------------------------------
(* What documents say and the code does not do *)

\* xml_builder: a rate of 0.00 is category 7, exempt.
ZeroRateIsExempt ==
  declared # None =>
    \A k \in DOMAIN declared.source :
      LET l == declared.source[k]
      IN l.vat_rate = 0 /\ l.line_total_ht # None =>
           \E e \in DOMAIN declared.document.lines :
             LET sent == declared.document.lines[e]
             IN sent.line_number = l.line_number /\ sent.vat_category = 7
================================================================================
