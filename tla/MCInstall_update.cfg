SPECIFICATION Spec
CONSTANTS
  FileCount = 3
  Prefix = 2
  SupportIsTree = FALSE
  Fresh <- MCFresh
  Same <- MCSame
  MaxStarts = 0
  NoJournal = NoJournal
  MaxCrashes = 3
INVARIANTS TypeOK RollbackKept
PROPERTIES SwitchesAtomically EditsKept RecoveryEnds
