\* Two notes, three edits, two threads of the bridge and one failure.
CONSTANTS
  N = 2
  Threads = {r1, r2}
  MaxEdits = 3
  MaxTrouble = 1
SPECIFICATION FairSpec
CHECK_DEADLOCK FALSE
INVARIANT
  CopyIsHonest
PROPERTY
  FoundInTheEnd
