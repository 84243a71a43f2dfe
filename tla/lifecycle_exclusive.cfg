\* One delivery and one request per invoice at a time.
CONSTANTS
  None = None
  Today = 20
  s1 = s1
  Invoices = {i1}
  Suppliers <- MCSuppliers
  Deliveries = {d1}
  Requests = {r1}
  Extractions <- MCExtractions
  Patches <- MCPatches
  Numbers <- MCNumbers
  Score <- MCScore
  SearchLimit = 50
  MaxRetries = 3
  MaxDbRetries = 3
  MaxCrashes = 1
  OverlapDeliveries = FALSE
  OverlapRequests = FALSE
SPECIFICATION Spec
INVARIANTS
  TypeOK
  RowsAreConsistent
PROPERTIES
  HandOffAfterCommit
  OcrWrittenOnce
  ReviewSpec
