\* ADR 0002, matrix; two reviewers.
CONSTANTS
  None = None
  Today = 20
  s1 = s1
  Invoices = {i1}
  Suppliers <- MCSuppliers
  Deliveries = {d1}
  Requests = {r1, r2}
  Extractions <- MCTwoExtractions
  Patches <- MCNoPatch
  Numbers <- MCNumbers
  Score <- MCScore
  SearchLimit = 50
  MaxRetries = 0
  MaxDbRetries = 0
  MaxCrashes = 0
  OverlapDeliveries = FALSE
  OverlapRequests = TRUE
SPECIFICATION Spec
PROPERTIES
  ReviewIsClosed
