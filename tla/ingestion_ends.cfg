\* One Outlook inbox, one document, two fair syncs with a retry each.
CONSTANTS
  None = None
  inbox = inbox
  gmail = gmail
  t1 = t1
  t2 = t2
  i1 = i1
  c1 = c1
  Outlook = {inbox}
  Gmail = {}
  Drive = {}
  Items = {i1}
  SourceOf <- MCInboxOne
  Contents = {c1}
  ContentOf <- MCSame
  Syncs = {t1, t2}
  Uploads = {}
  Admins = {}
  MaxRetries = 1
  MaxTime = 2
  MaxFaults = 1
SPECIFICATION FairSpec
CHECK_DEADLOCK FALSE
PROPERTIES
  CursorSkips
  SyncEnds
