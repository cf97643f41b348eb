SPECIFICATION LiveSpec
CONSTANTS
  Clusters <- MCClusters
  MinMembers = 2
  MaxMembers = 2
CHECK_DEADLOCK FALSE
INVARIANTS TypeOK DependenciesSuffice
PROPERTIES Completes RangesSettle
