\* One capture, and a sweep is killed.
CONSTANTS
  Names = {a}
  Files = {f1}
  NoFile = NoFile
  MaxEdits = 1
  MaxTrouble = 2
SPECIFICATION Spec
CHECK_DEADLOCK FALSE
INVARIANT
  EverythingIsFiled
