SPECIFICATION LiveSpec
CONSTANT MaxFaults = 5
INVARIANT TypeOK
PROPERTIES
  StateFollowsCluster
  ApplyEnds
  AppliesComplete
