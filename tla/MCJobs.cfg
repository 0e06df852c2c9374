\* Two jobs for one slot, three workers, two crashes.
CONSTANTS
  Jobs = {j1, j2}
  MaxActive = 1
  Names = {n1}
  Connected = {"hermes", "codex", "claude"}
  Needs <- NoNeeds
  MaxCrashes = 2
SPECIFICATION FairSpec
CHECK_DEADLOCK FALSE
INVARIANTS
  NeverRepeats
PROPERTIES
  ResultKept
  EveryJobEnds
