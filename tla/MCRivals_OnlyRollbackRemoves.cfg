SPECIFICATION RivalSpec
CONSTANTS
  h1 = h1
  h2 = h2
  h3 = h3
  s1 = s1
  s2 = s2
  Hosts <- MCHosts
  SettingsValues <- MCSettings
  BlockLists <- MCOneAdd
  InitialConfigs <- MCOneMember
  HostOverride = FALSE
  OneVoterChange = TRUE
  MaxApplies = 1
  MaxFaults = 3
  MaxTimeouts = 1
PROPERTY OnlyRollbackRemoves
