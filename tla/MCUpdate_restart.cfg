SPECIFICATION Spec
CONSTANTS
  FileCount = 2
  Prefix = 1
  SupportIsTree = TRUE
  Fresh <- Nothing
  Same <- Nothing
  MaxStarts = 3
  NoJournal = NoJournal
  MaxCrashes = 1
  MaxAttempts = 2
INVARIANTS TypeOK WholeUnderClaim NoCandidateAfterRollback OneHome
PROPERTIES SwitchesQuietly UpdateEnds
