SPECIFICATION Spec
CONSTANTS
  Doc = {d1}
  MaxVersions = 2
  MaxRecords = 2
  MaxCrashes = 1
  NoDoc = NoDoc
  d1 = d1
  d2 = d2
PROPERTIES
  GoneIsDeleted
\* Start-up ends for good when a document is gone as it is opened.
CHECK_DEADLOCK FALSE
