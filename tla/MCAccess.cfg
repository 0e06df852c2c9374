\* Two invocations at a time, three in all, and two failures.
CONSTANTS
  t1 = t1
  t2 = t2
  t3 = t3
  Tokens <- MCTokens
  NameOf <- MCNameOf
  ScopeOf <- MCScopeOf
  Uris <- MCUris
  Enforce = TRUE
  Tools = {w1, w2}
  MaxCommands = 3
  MaxTrouble = 2
SPECIFICATION FairSpec
CHECK_DEADLOCK FALSE
INVARIANT
  FileIsSound
PROPERTY
  HoldersGetIn
