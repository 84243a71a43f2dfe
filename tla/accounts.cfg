\* Two users, two requests of any kind, one run of the purge; one fault, fair workers.
CONSTANTS
  None = None
  u1 = u1
  x1 = x1
  x2 = x2
  Users = {u1, u2}
  Requests = {x1, x2}
  Purges = {g1}
  Operations <- MCOperations
  First = u1
  MaxFaults = 1
SPECIFICATION FairSpec
CHECK_DEADLOCK FALSE
INVARIANTS
  TypeOK
  ErasureIsRecorded
  ErasureIsComplete
  SecondFactorHasSecret
  AdministratorLeft
PROPERTY
  DueIsSettled
