\* Three notes: an edge between two of them that the third one states.
CONSTANTS
  a = a
  b = b
  c = c
  a1 = a1
  b1 = b1
  red = red
  Notes <- ThreeNotes
  Links <- MCLinks
  Nodes <- MCNodes
  FileOf <- MCFileOf
  CommunityOf <- MCCommunityOf
  Communities <- MCCommunities
  Edges <- ByTheThird
  MaxChanges = 1
  MaxFaults = 1
SPECIFICATION Spec
CHECK_DEADLOCK FALSE
INVARIANT
  EdgesAreTodays
