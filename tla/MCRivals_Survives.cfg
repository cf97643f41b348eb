SPECIFICATION RivalSpec
CONSTANTS
  h1 = h1
  h2 = h2
  h3 = h3
  s1 = s1
  s2 = s2
  Hosts <- MCHosts
  SettingsValues <- MCSettings
  BlockLists <- MCBlockLists
  InitialConfigs <- MCInitialConfigs
  HostOverride = TRUE
  OneVoterChange = FALSE
  MaxApplies = 1
  MaxFaults = 3
  MaxTimeouts = 3
PROPERTY OutlivesRivals
