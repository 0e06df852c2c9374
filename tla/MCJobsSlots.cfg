\* Three jobs for two slots, two crashes, and two names for a report.
CONSTANTS
  Jobs = {j1, j2, j3}
  MaxActive = 2
  Names = {n1, n2}
  Connected = {"hermes"}
  Needs <- NoNeeds
  MaxCrashes = 2
SPECIFICATION Spec
SYMMETRY Alike
CHECK_DEADLOCK FALSE
INVARIANTS
  SlotLimit
  LoggedOnce
  ReportsAreTrue
