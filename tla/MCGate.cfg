SPECIFICATION FairSpec
CONSTANTS
  Requests = {r1, r2, r3, r4}
  Models = {a, b}
  Slots = 2
  Exclusive = TRUE
  NoModel = NoModel
  Gone = Gone
  MaxQueue = 4
INVARIANTS Inv NoLostTurn
PROPERTIES NoOvertaking NoStarvation IsAdmission
