\* One document in every style of date; one edit, one submission asked for by hand.
CONSTANTS
  None = None
  Dates <- MCDates
  Totals <- MCTotals
  TypedTotals <- MCTypedTotals
  PrintedLines <- MCPrintedLines
  TypedLines <- MCTypedLines
  Amounts <- MCAmounts
  MaxEdits = 1
  MaxAsks = 1
SPECIFICATION Spec
INVARIANTS
  PrintedIsRead
  DocumentsAgree
  AutomaticIsValidated
CHECK_DEADLOCK FALSE
