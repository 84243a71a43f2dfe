\* Two invoices that look alike, one worker, two requests on different invoices.
CONSTANTS
  None = None
  Today = 20
  s1 = s1
  Invoices = {i1, i2}
  Suppliers <- MCSuppliers
  Deliveries = {d1}
  Requests = {r1, r2}
  Extractions <- MCAlikeExtractions
  Patches <- MCDuePatch
  Numbers <- MCNumbers
  Score <- MCScore
  SearchLimit = 50
  MaxRetries = 0
  MaxDbRetries = 0
  MaxCrashes = 0
  OverlapDeliveries = FALSE
  OverlapRequests = FALSE
SPECIFICATION Spec
INVARIANTS
  DuplicatesAreFlagged
  OriginalExists
SYMMETRY InvoiceSymmetry
