SPECIFICATION LiveSpec
CONSTANTS
  h1 = h1
  h2 = h2
  h3 = h3
  s1 = s1
  s2 = s2
  Hosts <- MCHosts
  SettingsValues <- MCSettings
  BlockLists <- MCBlockLists
  InitialConfigs <- MCInitialConfigs
  HostOverride = FALSE
  OneVoterChange = TRUE
  MaxApplies = 2
  MaxFaults = 2
  MaxTimeouts = 6
INVARIANTS
  TypeOK
  MajorityMovesByOne
  RequestKeepsIds
  SuccessMeansDone
  StateIsHonest
  PreviewIsTrue
PROPERTIES
  VotesFollowSync
  RemovesOnlyOwnAdds
  ApplyEnds
  ImplementsMembership
