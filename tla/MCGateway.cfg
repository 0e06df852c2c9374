SPECIFICATION FairSpec
CONSTANTS
  small = small
  large = large
  cloud = cloud
  other = other
  local = local
  paid = paid
  off = off
  Models <- MCModels
  Targets <- MCTargets
  TargetOf <- MCTargetOf
  Route <- MCRoute
  Slots <- MCSlots
  Exclusive <- MCExclusive
  Keyed = {paid, off}
  Unset = {off}
  Limited = {small}
  Probed = {local}
  NoModel = NoModel
  Calls = {c1, c2}
INVARIANTS GaugesAreTrue PaidForTheTrusted FailureIsLastResort NoFalseSuccess
PROPERTIES OneAnswerer EveryCallEnds
