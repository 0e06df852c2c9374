\* Four things said, with two crashes or failed spool writes and one failed read.
CONSTANTS
  Entries = {e1, e2, e3, e4}
  MaxTrouble = 2
  MaxUnreadable = 1
SPECIFICATION Spec
SYMMETRY EntriesAlike
CHECK_DEADLOCK FALSE
INVARIANTS
  InOrder
  TroubleCostsLittle
PROPERTY
  DurableStays
