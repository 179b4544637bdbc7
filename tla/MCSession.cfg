SPECIFICATION RepSpec
CONSTANTS
  Budget = 1
  Operators <- MCOperators
  Keys <- MCKeys
  Tokens <- MCTokens
  SeqMod = 3
  MaxTicks = 7
  Persist = TRUE
  NoToken = NoToken
  NoChunk = NoChunk
  NoEpisode = NoEpisode
  Torn = Torn
  Lost = Lost
INVARIANTS
  SessTypeOK
  NoVerdictPastFault
  NumberingAgrees
  HandoffBooks
  ChainsAgree
  VerifiedIsTaken
  ReplayAgrees
PROPERTIES
  TokensReleaseOnce
CHECK_DEADLOCK FALSE
