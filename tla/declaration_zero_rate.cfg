\* xml_builder.py: 0.00 is category 7.
CONSTANTS
  None = None
  Dates <- MCDates
  Totals <- MCTotals
  TypedTotals <- MCTypedTotals
  PrintedLines <- MCPrintedLines
  TypedLines <- MCTypedLines
  Amounts <- MCAmounts
  MaxEdits = 1
  MaxAsks = 1
SPECIFICATION Spec
INVARIANTS
  ZeroRateIsExempt
CHECK_DEADLOCK FALSE
