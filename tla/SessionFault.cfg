SPECIFICATION RepSpec
CONSTANTS
  Budget = 1
  Operators <- MCOperators
  Keys <- MCKeys
  Tokens <- MCTokens
  SeqMod = 2
  MaxTicks = 2
  Persist = TRUE
  NoToken = NoToken
  NoChunk = NoChunk
  NoEpisode = NoEpisode
  Torn = Torn
  Lost = Lost
INVARIANTS
  ToldFaultIsRecorded
CHECK_DEADLOCK FALSE
