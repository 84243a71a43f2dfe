\* Three sessions of different kinds over two suppliers and two invoices.
CONSTANTS
  None = None
  Kept = Kept
  i1 = i1
  i2 = i2
  n1 = n1
  n2 = n2
  v1 = v1
  x1 = x1
  x2 = x2
  x3 = x3
  s1 = s1
  s2 = s2
  Stored = {s1, s2}
  Invoices = {i1, i2}
  Actors = {x1, x2, x3}
  Kinds <- MCKinds
  Vats = {v1}
  Names = {n1, n2}
  UnknownName = n2
  Extracted <- MCExtracted
  Total <- MCTotal
  IssueDate <- MCIssueDate
  Statement <- MCStatement
  MaxRetries = 1
SPECIFICATION Spec
SYMMETRY Interchangeable
CHECK_DEADLOCK FALSE
INVARIANTS
  SupplierKept
  OneSupplierPerName
  MatchedOnce
