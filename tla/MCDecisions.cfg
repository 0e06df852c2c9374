\* Every plan for a route of four models; every request, answer of Jev and set
\* of connected workers on both sides of each threshold.
SPECIFICATION Spec
CONSTANTS
  m1 = m1
  m2 = m2
  m3 = m3
  m4 = m4
  t1 = t1
  t2 = t2
  t3 = t3
  t4 = t4
  Models <- MCModels
  Targets <- MCTargets
  TargetOf <- MCTargetOf
  Keyed = {t3, t4}
  Unset = {t4}
  Limited = {m1, m3}
  Skills = {"gardener"}
  Titles <- MCTitles
  Alike <- MCAlike
  Unsafe = {"a/b"}
  Home = "Home MOC"
  FixerReport = "Dead Link Report"
  Plumbing = {}
INVARIANTS
  EachIsTried
  ReasonIsTrue
  CommandsAreCertain
  CostlyOnlyWhenSure
  WorkerFits
  PreviewTells
  NothingOverwritten
  FixerSettles
