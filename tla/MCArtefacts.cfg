SPECIFICATION ArtSpec
CONSTANTS
  Keys = {e1, e2}
  Lengths = {0, 2}
  MaxJobs = 2
  MaxLedger = 5
  TailMax = 1
  Policies = {"tail32"}
  NoFile = NoFile
  Torn = Torn
  Header = Header
  NoJob = NoJob
SYMMETRY Symmetric
INVARIANTS
  FilesBeforeLedger
  ReportedIsIntact
  VerifiedIsGenuine
  ChainHolds
  ReportedIsEntered
PROPERTIES
  LedgerOnlyGrows
CHECK_DEADLOCK FALSE
