\* Two notes, one change of the vault and one fault, any number of builds and
\* loads.
CONSTANTS
  a = a
  b = b
  c = c
  a1 = a1
  b1 = b1
  red = red
  Notes <- TwoNotes
  Links <- MCLinks
  Nodes <- MCNodes
  FileOf <- MCFileOf
  CommunityOf <- MCCommunityOf
  Communities <- MCCommunities
  Edges <- ByTheFirst
  MaxChanges = 1
  MaxFaults = 1
SPECIFICATION FairSpec
CHECK_DEADLOCK FALSE
INVARIANTS
  NothingPrivateShown
  AlwaysAView
  SnapshotIsWhole
PROPERTY
  ServedCatchesUp
