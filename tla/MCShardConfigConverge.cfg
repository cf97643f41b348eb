SPECIFICATION HelpfulSpec
CONSTANTS
  h1 = h1
  h2 = h2
  h3 = h3
  s1 = s1
  s2 = s2
  Hosts <- MCHosts
  SettingsValues <- MCSettings
  BlockLists <- MCOnePlan
  InitialConfigs <- MCInitialConfigs
  HostOverride = FALSE
  OneVoterChange = TRUE
  MaxApplies = 5
  MaxFaults = 2
  MaxTimeouts = 1
PROPERTY Converges
