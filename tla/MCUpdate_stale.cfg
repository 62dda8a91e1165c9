SPECIFICATION Spec
CONSTANTS
  FileCount = 1
  Prefix = 1
  SupportIsTree = TRUE
  Fresh <- Nothing
  Same <- Nothing
  MaxStarts = 2
  NoJournal = NoJournal
  MaxCrashes = 0
  MaxAttempts = 1
PROPERTY AdmitsOnlyClaimed
