\* Two messages for the same invoice, one reviewer.
CONSTANTS
  None = None
  Today = 20
  s1 = s1
  Invoices = {i1}
  Suppliers <- MCSuppliers
  Deliveries = {d1, d2}
  Requests = {r1}
  Extractions <- MCOneExtraction
  Patches <- MCNoPatch
  Numbers <- MCNumbers
  Score <- MCScore
  SearchLimit = 50
  MaxRetries = 1
  MaxDbRetries = 1
  MaxCrashes = 1
  OverlapDeliveries = TRUE
  OverlapRequests = FALSE
SPECIFICATION Spec
INVARIANTS
  ProcessingNeverVisible
  OneOcrPerInvoice
  UploadedIsPristine
  ReviewedHasOcr
