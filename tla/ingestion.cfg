\* One Gmail account, one document, two syncs, an upload of the document, an administrator.
CONSTANTS
  None = None
  inbox = inbox
  gmail = gmail
  t1 = t1
  t2 = t2
  i1 = i1
  c1 = c1
  Outlook = {}
  Gmail = {gmail}
  Drive = {}
  Items = {i1}
  SourceOf <- MCGmailOne
  Contents = {c1}
  ContentOf <- MCSame
  Syncs = {t1, t2}
  Uploads = {u1}
  Admins = {a1}
  MaxRetries = 0
  MaxTime = 2
  MaxFaults = 1
SPECIFICATION Spec
CHECK_DEADLOCK FALSE
SYMMETRY Interchangeable
INVARIANTS
  TypeOK
  RowHasFile
  CopiesWereConcurrent
  SendsAccounted
  GmailCursorIsSafe
PROPERTIES
  DisconnectHolds
