\* Two names and two files for them: every race between her, the sweep and the bridge.
CONSTANTS
  Names = {a, b}
  Files = {f1, f2}
  NoFile = NoFile
  MaxEdits = 1
  MaxTrouble = 2
SPECIFICATION FairSpec
CHECK_DEADLOCK FALSE
INVARIANTS
  NoCaptureLost
  OriginalKept
  OneOutcome
PROPERTY
  EveryCaptureLeaves
