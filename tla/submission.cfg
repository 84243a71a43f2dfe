\* i1 has one task at a time, i2 any number; one fault, fair workers.
CONSTANTS
  None = None
  Invoices = {i1, i2}
  Shared = {i2}
  Tasks = {t1, t2}
  MaxRetries = 1
  MaxFaults = 1
SPECIFICATION FairSpec
INVARIANTS
  TypeOK
  RowsAreSettled
  OneRowPerInvoice
  StatusMatchesMark
  RegistrationsAccounted
PROPERTIES
  TaskEnds
