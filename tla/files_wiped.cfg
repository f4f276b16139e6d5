SPECIFICATION FilesSpec
CONSTANTS
  File = {f1}
  None = None
  MaxEdits = 2
  MaxFaults = 0
  MaxReload = 0
  MaxOpens = 1
CHECK_DEADLOCK FALSE
PROPERTIES RecordIsAuthoritative
