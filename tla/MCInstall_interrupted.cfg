SPECIFICATION Spec
CONSTANTS
  FileCount = 2
  Prefix = 1
  SupportIsTree = FALSE
  Fresh <- Nothing
  Same <- Nothing
  MaxStarts = 0
  NoJournal = NoJournal
  MaxCrashes = 1
INVARIANT InterruptedIsRecoverable
