\* Fair sessions: two requests that may wait for each other and for the worker.
CONSTANTS
  None = None
  Today = 20
  s1 = s1
  Invoices = {i1}
  Suppliers <- MCSuppliers
  Deliveries = {d1}
  Requests = {r1, r2}
  Extractions <- MCOneExtraction
  Patches <- MCOnePatch
  Numbers <- MCNumbers
  Score <- MCScore
  SearchLimit = 50
  MaxRetries = 1
  MaxDbRetries = 1
  MaxCrashes = 0
  OverlapDeliveries = FALSE
  OverlapRequests = TRUE
SPECIFICATION FairSpec
PROPERTIES
  DeliveryEnds
  EveryAttemptIsMade
  RequestEnds
